---------------------------- MODULE QueueManager ----------------------------
(***************************************************************************)
(* QueueManager (server/event.rs): the map from task ids to event queues,  *)
(* shared by every request.  Each critical section of its read-write lock  *)
(* is one step; get_or_create_queue and send_event take the lock, let go   *)
(* of it and act again, so other callers run in between.                   *)
(*                                                                         *)
(* A queue is an identity here.  What a queue delivers, to whom and in     *)
(* which order, is modelled in RequestHandler.                             *)
(***************************************************************************)
EXTENDS Integers

CONSTANTS Callers,   \* concurrent users of the manager
          Keys,      \* task ids
          NoQueue,   \* an unmapped key, or a caller without a queue
          MaxQueues  \* bound: queues created in a run

QueueIds == 1 .. MaxQueues

ASSUME QueueAssumption ==
    /\ MaxQueues \in Nat
    /\ NoQueue \notin Nat

VARIABLES queues,   \* queues[k]: the queue registered for k, or NoQueue
          created,  \* queues created so far; the newest is number created
          at,       \* at[c]: "idle", or where c is between two steps of a call
          key,      \* key[c]: the key of c's last call
          queue,    \* queue[c]: the queue that call gave c
          removed   \* history: key[c] was removed since c got queue[c]

vars == <<queues, created, at, key, queue, removed>>

Registered(k) == queues[k] # NoQueue

Init ==
    /\ queues = [k \in Keys |-> NoQueue]
    /\ created = 0
    /\ at = [c \in Callers |-> "idle"]
    /\ key \in [Callers -> Keys]
    /\ queue = [c \in Callers |-> NoQueue]
    /\ removed = [c \in Callers |-> FALSE]

\* c's call for k has got as far as where, with q in hand.
Obtain(c, k, q, where) ==
    /\ at' = [at EXCEPT ![c] = where]
    /\ key' = [key EXCEPT ![c] = k]
    /\ queue' = [queue EXCEPT ![c] = q]
    /\ removed' = [removed EXCEPT ![c] = FALSE]

\* A fresh queue registered for k and returned to c.
InsertNew(c, k) ==
    /\ created < MaxQueues
    /\ created' = created + 1
    /\ queues' = [queues EXCEPT ![k] = created + 1]
    /\ Obtain(c, k, created + 1, "idle")

ReturnRegistered(c, k) ==
    /\ Obtain(c, k, queues[k], "idle")
    /\ UNCHANGED <<queues, created>>

-----------------------------------------------------------------------------
CreateQueue(c, k) ==
    /\ at[c] = "idle"
    /\ \/ ~Registered(k) /\ InsertNew(c, k)
       \/ /\ Registered(k)
          /\ Obtain(c, k, NoQueue, "idle")
          /\ UNCHANGED <<queues, created>>

GetQueue(c, k) ==
    /\ at[c] = "idle"
    /\ ReturnRegistered(c, k)

\* get_or_create_queue under the read lock ...
GetOrCreateRead(c, k) ==
    /\ at[c] = "idle"
    /\ \/ Registered(k) /\ ReturnRegistered(c, k)
       \/ /\ ~Registered(k)
          /\ Obtain(c, k, NoQueue, "creating")
          /\ UNCHANGED <<queues, created>>

\* Mutant: the miss under the read lock is believed.
GetOrCreateWriteUnchecked(c) ==
    /\ at[c] = "creating"
    /\ InsertNew(c, key[c])

\* ... and, after a miss, again under the write lock.
GetOrCreateWrite(c) ==
    /\ at[c] = "creating"
    /\ \/ Registered(key[c]) /\ ReturnRegistered(c, key[c])
       \/ ~Registered(key[c]) /\ InsertNew(c, key[c])

RemoveQueue(k) ==
    /\ queues' = [queues EXCEPT ![k] = NoQueue]
    /\ removed' = [c \in Callers |-> removed[c] \/ key[c] = k]
    /\ UNCHANGED <<created, at, key, queue>>

\* send_event looks the queue up (an error if there is none) ...
SendEventLookup(c, k) ==
    /\ at[c] = "idle"
    /\ Obtain(c, k, queues[k], IF Registered(k) THEN "sending" ELSE "idle")
    /\ UNCHANGED <<queues, created>>

\* ... and sends to what it found, whatever the map says by then.
SendEventDeliver(c) ==
    /\ at[c] = "sending"
    /\ at' = [at EXCEPT ![c] = "idle"]
    /\ UNCHANGED <<queues, created, key, queue, removed>>

Next ==
    \/ \E c \in Callers :
        \/ GetOrCreateWrite(c)
        \/ SendEventDeliver(c)
        \/ \E k \in Keys :
            \/ CreateQueue(c, k)
            \/ GetQueue(c, k)
            \/ GetOrCreateRead(c, k)
            \/ SendEventLookup(c, k)
    \/ \E k \in Keys : RemoveQueue(k)

Spec == Init /\ [][Next]_vars

-----------------------------------------------------------------------------
\* Types of the manager's map and of the callers' positions.
TypeOK ==
    /\ queues \in [Keys -> QueueIds \cup {NoQueue}]
    /\ created \in 0 .. MaxQueues
    /\ at \in [Callers -> {"idle", "creating", "sending"}]
    /\ key \in [Callers -> Keys]
    /\ queue \in [Callers -> QueueIds \cup {NoQueue}]
    /\ removed \in [Callers -> BOOLEAN]

\* Whoever got a queue for a key holds the registered one until somebody
\* removes the key: two concurrent get_or_create_queue calls never split a
\* task's subscribers over two queues, and send_event sends to the queue
\* others subscribe to unless a removal came between its two steps.
RegisteredUntilRemoved ==
    \A c \in Callers :
        queue[c] # NoQueue /\ ~removed[c] => queues[key[c]] = queue[c]

Map == INSTANCE QueueMap WITH map <- queues, issued <- 1 .. created, held <- queue,
                              waiting <- {<<c, key[c]>> : c \in {d \in Callers : at[d] = "creating"}}

\* get_or_create_queue, with its lock released between a miss and the insertion,
\* still registers or finds a queue in one moment: the manager is a QueueMap.
ImplementsQueueMap == Map!Spec
=============================================================================
