---------------------------- MODULE LinkedStore -----------------------------
(***************************************************************************)
(* What a versioned task store promises its clients, without versions.     *)
(* Reading a task, or writing it, links the client to the entry it saw or  *)
(* made; any later write or deletion of that entry breaks the link.  A     *)
(* save is made in two steps, and it is when it takes effect, not when it  *)
(* is begun, that a conditional one needs its client's link to the entry.  *)
(* Over an absent entry a conditional save also succeeds: the store has    *)
(* nothing to compare with.  An unconditional save always succeeds.        *)
(***************************************************************************)
CONSTANTS Clients,   \* callers of the store
          TaskIds,   \* keys
          Contents,  \* task snapshots, opaque
          NoEntry,   \* marks an absent key
          Idle       \* marks a client without a save in progress

VARIABLES content,   \* content[t]: the stored snapshot, or NoEntry
          linked,    \* linked[c]: the keys whose present entry c knows
          pending    \* pending[c]: the save c has begun, or Idle

vars == <<content, linked, pending>>

Init ==
    /\ content = [t \in TaskIds |-> NoEntry]
    /\ linked = [c \in Clients |-> {}]
    /\ pending = [c \in Clients |-> Idle]

Read(c, t) ==
    /\ pending[c] = Idle
    /\ linked' = [linked EXCEPT ![c] =
                    IF content[t] = NoEntry THEN @ \ {t} ELSE @ \cup {t}]
    /\ UNCHANGED <<content, pending>>

BeginSave(c, t, value, conditional) ==
    /\ pending[c] = Idle
    /\ pending' = [pending EXCEPT ![c] =
                     [key |-> t, value |-> value, conditional |-> conditional]]
    /\ UNCHANGED <<content, linked>>

\* The writer knows the entry it made; every other link to the key breaks.
Replace(c, t, value) ==
    /\ content' = [content EXCEPT ![t] = value]
    /\ linked' = [d \in Clients |->
                    IF d = c THEN linked[d] \cup {t} ELSE linked[d] \ {t}]

\* The entry is absent, or still the one c saw.
Unbroken(c, t) == content[t] = NoEntry \/ t \in linked[c]

CommitSave(c) ==
    /\ pending[c] # Idle
    /\ pending[c].conditional => Unbroken(c, pending[c].key)
    /\ Replace(c, pending[c].key, pending[c].value)
    /\ pending' = [pending EXCEPT ![c] = Idle]

\* A save that has no effect: refused, or given up by its client.
EndSave(c) ==
    /\ pending[c] # Idle
    /\ pending' = [pending EXCEPT ![c] = Idle]
    /\ UNCHANGED <<content, linked>>

Remove(t) ==
    /\ content' = [content EXCEPT ![t] = NoEntry]
    /\ linked' = [d \in Clients |-> linked[d] \ {t}]
    /\ UNCHANGED pending

Next ==
    \/ \E c \in Clients : CommitSave(c) \/ EndSave(c)
    \/ \E t \in TaskIds :
        \/ Remove(t)
        \/ \E c \in Clients :
            \/ Read(c, t)
            \/ \E value \in Contents, conditional \in BOOLEAN :
                 BeginSave(c, t, value, conditional)

Spec == Init /\ [][Next]_vars
=============================================================================
