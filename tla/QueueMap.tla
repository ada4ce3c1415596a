------------------------------ MODULE QueueMap ------------------------------
(***************************************************************************)
(* What a map from task ids to event queues promises its callers: a task   *)
(* has one queue at a time, and whoever gets or creates it is given that   *)
(* one, at some moment between the call and its return.  A queue is        *)
(* registered once, for one task; once removed it never comes back, and    *)
(* nothing but a removal takes it out.                                     *)
(***************************************************************************)
CONSTANTS Callers, Keys, QueueIds, NoQueue

VARIABLES map,      \* map[k]: the queue registered for k, or NoQueue
          issued,   \* the queues ever registered
          held,     \* held[c]: the queue c's last call was given, or NoQueue
          waiting   \* <<c, k>>: c's get_or_create_queue for k has not returned

vars == <<map, issued, held, waiting>>

Init ==
    /\ map = [k \in Keys |-> NoQueue]
    /\ issued = {}
    /\ held = [c \in Callers |-> NoQueue]
    /\ waiting = {}

Give(c, q) == held' = [held EXCEPT ![c] = q]

Free(c) == \A k \in Keys : <<c, k>> \notin waiting

Register(c, k) ==
    /\ map[k] = NoQueue
    /\ \E q \in QueueIds \ issued :
        /\ map' = [map EXCEPT ![k] = q]
        /\ issued' = issued \union {q}
        /\ Give(c, q)

Find(c, k) ==
    /\ map[k] # NoQueue
    /\ Give(c, map[k])
    /\ UNCHANGED <<map, issued>>

FindNone(c, k) == Give(c, NoQueue) /\ UNCHANGED <<map, issued>>

-----------------------------------------------------------------------------
Create(c, k) ==
    /\ Free(c)
    /\ Register(c, k) \/ (map[k] # NoQueue /\ FindNone(c, k))
    /\ UNCHANGED waiting

Get(c, k) ==
    /\ Free(c)
    /\ Find(c, k) \/ (map[k] = NoQueue /\ FindNone(c, k))
    /\ UNCHANGED waiting

\* A call that does not return at once holds no queue meanwhile.
AskForOne(c, k) ==
    /\ Free(c)
    /\ FindNone(c, k)
    /\ waiting' = waiting \union {<<c, k>>}

GetOrCreate(c, k) ==
    /\ Free(c) \/ <<c, k>> \in waiting
    /\ Register(c, k) \/ Find(c, k)
    /\ waiting' = waiting \ {<<c, k>>}

Remove(k) ==
    /\ map' = [map EXCEPT ![k] = NoQueue]
    /\ UNCHANGED <<issued, held, waiting>>

Next ==
    \E k \in Keys :
        \/ Remove(k)
        \/ \E c \in Callers :
            Create(c, k) \/ Get(c, k) \/ AskForOne(c, k) \/ GetOrCreate(c, k)

Spec == Init /\ [][Next]_vars
=============================================================================
