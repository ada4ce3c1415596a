------------------------- MODULE QueueManagerProofs -------------------------
(***************************************************************************)
(* QueueManager's invariants for any number of callers and keys, and any   *)
(* bound on the queues created, and that it implements QueueMap.           *)
(***************************************************************************)
EXTENDS QueueManager, TLAPS

\* Getting a queue writes the caller's own entry of at, key, queue, removed.
LEMMA ObtainTypes ==
    ASSUME TypeOK, NEW c \in Callers, NEW k \in Keys,
           NEW q \in QueueIds \cup {NoQueue},
           NEW where \in {"idle", "creating", "sending"},
           Obtain(c, k, q, where)
    PROVE  /\ at' \in [Callers -> {"idle", "creating", "sending"}]
           /\ key' \in [Callers -> Keys]
           /\ queue' \in [Callers -> QueueIds \cup {NoQueue}]
           /\ removed' \in [Callers -> BOOLEAN]
  BY DEF TypeOK, Obtain

\* The manager's map and its callers keep their types.
LEMMA InsertNewTypes ==
    ASSUME TypeOK, NEW c \in Callers, NEW k \in Keys, InsertNew(c, k)
    PROVE  TypeOK'
<1>1. created + 1 \in QueueIds /\ created' \in 0 .. MaxQueues
  BY QueueAssumption DEF TypeOK, InsertNew, QueueIds
<1>2. Obtain(c, k, created + 1, "idle")
  BY DEF InsertNew
<1>3. queues' \in [Keys -> QueueIds \cup {NoQueue}]
  BY <1>1 DEF TypeOK, InsertNew
<1> HIDE DEF QueueIds
<1> QED
  BY <1>1, <1>2, <1>3, ObtainTypes DEF TypeOK

\* The same for a call that returns the registered queue, or nothing.
LEMMA ReturnRegisteredTypes ==
    ASSUME TypeOK, NEW c \in Callers, NEW k \in Keys, ReturnRegistered(c, k)
    PROVE  TypeOK'
<1> USE DEF ReturnRegistered
<1>1. queues[k] \in QueueIds \cup {NoQueue}
  BY DEF TypeOK
<1> QED
  BY <1>1, ObtainTypes DEF TypeOK

\* Every step of the manager keeps the types.
LEMMA NextTypeOK == TypeOK /\ [Next]_vars => TypeOK'
<1> SUFFICES ASSUME TypeOK, [Next]_vars PROVE TypeOK'
  OBVIOUS
<1>1. ASSUME NEW c \in Callers, NEW k \in Keys, CreateQueue(c, k)
      PROVE  TypeOK'
  <2>1. CASE ~Registered(k) /\ InsertNew(c, k)
    BY <2>1, InsertNewTypes
  <2>2. CASE Obtain(c, k, NoQueue, "idle") /\ UNCHANGED <<queues, created>>
    BY <2>2, ObtainTypes DEF TypeOK
  <2> QED
    BY <1>1, <2>1, <2>2 DEF CreateQueue
<1>2. ASSUME NEW c \in Callers, NEW k \in Keys, GetQueue(c, k)
      PROVE  TypeOK'
  BY <1>2, ReturnRegisteredTypes DEF GetQueue
<1>3. ASSUME NEW c \in Callers, NEW k \in Keys, GetOrCreateRead(c, k)
      PROVE  TypeOK'
  <2>1. CASE ReturnRegistered(c, k)
    BY <2>1, ReturnRegisteredTypes
  <2>2. CASE Obtain(c, k, NoQueue, "creating") /\ UNCHANGED <<queues, created>>
    BY <2>2, ObtainTypes DEF TypeOK
  <2> QED
    BY <1>3, <2>1, <2>2 DEF GetOrCreateRead
<1>4. ASSUME NEW c \in Callers, GetOrCreateWrite(c)
      PROVE  TypeOK'
  <2>1. key[c] \in Keys
    BY DEF TypeOK
  <2> QED
    BY <1>4, <2>1, InsertNewTypes, ReturnRegisteredTypes DEF GetOrCreateWrite
<1>5. ASSUME NEW k \in Keys, RemoveQueue(k)
      PROVE  TypeOK'
  BY <1>5 DEF RemoveQueue, TypeOK
<1>6. ASSUME NEW c \in Callers, NEW k \in Keys, SendEventLookup(c, k)
      PROVE  TypeOK'
  <2>1. queues[k] \in QueueIds \cup {NoQueue}
    BY DEF TypeOK
  <2>2. PICK where \in {"idle", "creating", "sending"} :
          Obtain(c, k, queues[k], where) /\ UNCHANGED <<queues, created>>
    BY <1>6 DEF SendEventLookup
  <2> QED
    BY <2>1, <2>2, ObtainTypes DEF TypeOK
<1>7. ASSUME NEW c \in Callers, SendEventDeliver(c)
      PROVE  TypeOK'
  BY <1>7 DEF SendEventDeliver, TypeOK
<1>8. CASE UNCHANGED vars
  BY <1>8 DEF vars, TypeOK
<1> QED
  BY <1>1, <1>2, <1>3, <1>4, <1>5, <1>6, <1>7, <1>8 DEF Next

\* The map, the counter and every caller's position have their types.
THEOREM TypeCorrect == Spec => []TypeOK
<1>1. Init => TypeOK
  BY QueueAssumption DEF Init, TypeOK
<1> QED
  BY <1>1, NextTypeOK, PTL DEF Spec

-----------------------------------------------------------------------------
\* A caller that gets a queue registered in the same step holds what is
\* registered, and so does everybody else, since no other queue is replaced.
LEMMA InsertNewKeepsRegistered ==
    ASSUME TypeOK, RegisteredUntilRemoved,
           NEW c \in Callers, NEW k \in Keys, ~Registered(k), InsertNew(c, k)
    PROVE  RegisteredUntilRemoved'
<1> SUFFICES ASSUME NEW d \in Callers, queue'[d] # NoQueue, ~removed'[d]
             PROVE  queues'[key'[d]] = queue'[d]
  BY DEF RegisteredUntilRemoved
<1>1. CASE d = c
  BY <1>1 DEF InsertNew, Obtain, TypeOK
<1>2. CASE d # c
  <2>1. key'[d] = key[d] /\ queue'[d] = queue[d] /\ removed'[d] = removed[d]
    BY <1>2 DEF InsertNew, Obtain, TypeOK
  <2>2. queues[key[d]] = queue[d]
    BY <2>1 DEF RegisteredUntilRemoved
  <2>3. key[d] # k
    BY <2>1, <2>2 DEF Registered
  <2> QED
    BY <2>1, <2>2, <2>3 DEF InsertNew, TypeOK
<1> QED
  BY <1>1, <1>2

\* A caller that is told what the map says disturbs nobody.
LEMMA ObtainKeepsRegistered ==
    ASSUME TypeOK, RegisteredUntilRemoved,
           NEW c \in Callers, NEW k \in Keys, NEW q \in {queues[k], NoQueue},
           NEW where, Obtain(c, k, q, where), UNCHANGED queues
    PROVE  RegisteredUntilRemoved'
<1> SUFFICES ASSUME NEW d \in Callers, queue'[d] # NoQueue, ~removed'[d]
             PROVE  queues'[key'[d]] = queue'[d]
  BY DEF RegisteredUntilRemoved
<1>1. CASE d = c
  BY <1>1 DEF Obtain, TypeOK
<1>2. CASE d # c
  BY <1>2 DEF Obtain, TypeOK, RegisteredUntilRemoved
<1> QED
  BY <1>1, <1>2

\* Every step keeps RegisteredUntilRemoved: only RemoveQueue takes a queue out
\* of the map, and a queue is put in only where there is none.
LEMMA NextRegistered ==
    TypeOK /\ RegisteredUntilRemoved /\ [Next]_vars => RegisteredUntilRemoved'
<1> SUFFICES ASSUME TypeOK, RegisteredUntilRemoved, [Next]_vars
             PROVE  RegisteredUntilRemoved'
  OBVIOUS
<1>1. ASSUME NEW c \in Callers, NEW k \in Keys, CreateQueue(c, k)
      PROVE  RegisteredUntilRemoved'
  BY <1>1, InsertNewKeepsRegistered, ObtainKeepsRegistered DEF CreateQueue
<1>2. ASSUME NEW c \in Callers, NEW k \in Keys, GetQueue(c, k)
      PROVE  RegisteredUntilRemoved'
  BY <1>2, ObtainKeepsRegistered DEF GetQueue, ReturnRegistered
<1>3. ASSUME NEW c \in Callers, NEW k \in Keys, GetOrCreateRead(c, k)
      PROVE  RegisteredUntilRemoved'
  BY <1>3, ObtainKeepsRegistered DEF GetOrCreateRead, ReturnRegistered
<1>4. ASSUME NEW c \in Callers, GetOrCreateWrite(c)
      PROVE  RegisteredUntilRemoved'
  <2>1. key[c] \in Keys
    BY DEF TypeOK
  <2>2. CASE Registered(key[c]) /\ ReturnRegistered(c, key[c])
    BY <2>1, <2>2, ObtainKeepsRegistered DEF ReturnRegistered
  <2>3. CASE ~Registered(key[c]) /\ InsertNew(c, key[c])
    BY <2>1, <2>3, InsertNewKeepsRegistered
  <2> QED
    BY <1>4, <2>2, <2>3 DEF GetOrCreateWrite
<1>5. ASSUME NEW k \in Keys, RemoveQueue(k)
      PROVE  RegisteredUntilRemoved'
  <2> SUFFICES ASSUME NEW d \in Callers, queue'[d] # NoQueue, ~removed'[d]
               PROVE  queues'[key'[d]] = queue'[d]
    BY DEF RegisteredUntilRemoved
  <2>1. ~removed[d] /\ key[d] # k
    BY <1>5 DEF RemoveQueue, TypeOK
  <2> QED
    BY <1>5, <2>1 DEF RemoveQueue, TypeOK, RegisteredUntilRemoved
<1>6. ASSUME NEW c \in Callers, NEW k \in Keys, SendEventLookup(c, k)
      PROVE  RegisteredUntilRemoved'
  BY <1>6, ObtainKeepsRegistered DEF SendEventLookup
<1>7. ASSUME NEW c \in Callers, SendEventDeliver(c)
      PROVE  RegisteredUntilRemoved'
  BY <1>7 DEF SendEventDeliver, RegisteredUntilRemoved
<1>8. CASE UNCHANGED vars
  BY <1>8 DEF vars, RegisteredUntilRemoved
<1> QED
  BY <1>1, <1>2, <1>3, <1>4, <1>5, <1>6, <1>7, <1>8 DEF Next

\* However many callers race, whoever got a queue for a key holds the
\* registered one until somebody removes the key.
THEOREM QueuesRegisteredUntilRemoved == Spec => []RegisteredUntilRemoved
<1>1. Init => RegisteredUntilRemoved
  BY DEF Init, RegisteredUntilRemoved
<1> QED
  BY <1>1, TypeCorrect, NextRegistered, PTL DEF Spec

-----------------------------------------------------------------------------
(* The manager as a queue map.                                             *)

\* The calls that are between their two critical sections.
Waiting == {<<c, key[c]>> : c \in {d \in Callers : at[d] = "creating"}}

\* Who waits, before and after a call has obtained something.
LEMMA WaitingAfter ==
    ASSUME TypeOK, NEW c \in Callers, NEW k \in Keys, NEW q, NEW where,
           Obtain(c, k, q, where), at[c] = "creating" => key[c] = k
    PROVE  /\ Waiting' = IF where = "creating" THEN Waiting \union {<<c, k>>}
                         ELSE Waiting \ {<<c, k>>}
           /\ queue' = [queue EXCEPT ![c] = q]
           /\ at[c] # "creating" => \A j \in Keys : <<c, j>> \notin Waiting
           /\ at[c] = "creating" => <<c, k>> \in Waiting
<1>1. /\ at'[c] = where /\ key'[c] = k
      /\ \A d \in Callers \ {c} : at'[d] = at[d] /\ key'[d] = key[d]
  BY DEF Obtain, TypeOK
<1>2. \A d \in Callers : \A j : <<d, j>> \in Waiting <=> at[d] = "creating" /\ j = key[d]
  BY DEF Waiting
<1>3. \A d \in Callers : \A j : <<d, j>> \in Waiting' <=> at'[d] = "creating" /\ j = key'[d]
  BY DEF Waiting
<1>4. \A x \in Waiting \union Waiting' : \E d \in Callers : \E j : x = <<d, j>>
  BY DEF Waiting
<1>5. \A d \in Callers \ {c} : \A j : <<d, j>> \in Waiting' <=> <<d, j>> \in Waiting
  BY <1>1, <1>2, <1>3
<1>6. Waiting' = IF where = "creating" THEN Waiting \union {<<c, k>>} ELSE Waiting \ {<<c, k>>}
  <2> DEFINE W == IF where = "creating" THEN Waiting \union {<<c, k>>} ELSE Waiting \ {<<c, k>>}
  <2>1. ASSUME NEW j
        PROVE  <<c, j>> \in Waiting' <=> <<c, j>> \in W
    BY <1>1, <1>2, <1>3
  <2>2. ASSUME NEW d \in Callers \ {c}, NEW j
        PROVE  <<d, j>> \in Waiting' <=> <<d, j>> \in W
    BY <1>5
  <2>3. \A x \in W : \E d \in Callers : \E j : x = <<d, j>>
    BY <1>4
  <2> HIDE DEF W
  <2>4. \A x \in Waiting' : x \in W
    BY <1>4, <2>1, <2>2
  <2>5. \A x \in W : x \in Waiting'
    BY <2>1, <2>2, <2>3
  <2> QED
    BY <2>4, <2>5 DEF W
<1> QED
  BY <1>2, <1>6 DEF Obtain

\* A queue that is inserted is new and is the one its caller is given.
LEMMA InsertNewRegisters ==
    ASSUME TypeOK, NEW c \in Callers, NEW k \in Keys, ~Registered(k), InsertNew(c, k)
    PROVE  Map!Register(c, k)
<1>1. created + 1 \in QueueIds \ (1 .. created)
  BY QueueAssumption DEF TypeOK, InsertNew, QueueIds
<1>2. 1 .. created' = (1 .. created) \union {created + 1}
  BY QueueAssumption DEF TypeOK, InsertNew
<1> HIDE DEF QueueIds
<1> QED
  BY <1>1, <1>2 DEF InsertNew, Registered, Obtain, Map!Register, Map!Give

\* Every step of the manager is one of a queue map, or changes nothing there.
LEMMA StepImplementsQueueMap ==
    TypeOK /\ [Next]_vars => [Map!Next]_Map!vars
<1> SUFFICES ASSUME TypeOK, [Next]_vars PROVE [Map!Next]_Map!vars
  OBVIOUS
<1> USE DEF Waiting, Map!Free, Map!Find, Map!FindNone, Map!Give
<1>1. ASSUME NEW c \in Callers, NEW k \in Keys, CreateQueue(c, k)
      PROVE  Map!Create(c, k)
  <2>1. PICK q : Obtain(c, k, q, "idle") /\ at[c] = "idle"
    BY <1>1 DEF CreateQueue, InsertNew
  <2>2. Map!Free(c) /\ UNCHANGED Waiting
    BY <2>1, WaitingAfter
  <2>3. CASE ~Registered(k) /\ InsertNew(c, k)
    BY <2>2, <2>3, InsertNewRegisters DEF Map!Create
  <2>4. CASE Registered(k) /\ Obtain(c, k, NoQueue, "idle") /\ UNCHANGED <<queues, created>>
    BY <2>2, <2>4 DEF Map!Create, Registered, Obtain
  <2> QED
    BY <1>1, <2>3, <2>4 DEF CreateQueue
<1>2. ASSUME NEW c \in Callers, NEW k \in Keys,
             at[c] = "idle", ReturnRegistered(c, k)
      PROVE  Map!Get(c, k)
  <2>1. Obtain(c, k, queues[k], "idle") /\ UNCHANGED <<queues, created>>
    BY <1>2 DEF ReturnRegistered
  <2>2. Map!Free(c) /\ UNCHANGED Waiting
    BY <1>2, <2>1, WaitingAfter
  <2> QED
    BY <2>1, <2>2 DEF Map!Get, Obtain
<1>3. ASSUME NEW c \in Callers, NEW k \in Keys, GetOrCreateRead(c, k)
      PROVE  Map!Get(c, k) \/ Map!AskForOne(c, k)
  <2>1. CASE Registered(k) /\ ReturnRegistered(c, k)
    BY <1>2, <1>3, <2>1 DEF GetOrCreateRead
  <2>2. CASE Obtain(c, k, NoQueue, "creating") /\ UNCHANGED <<queues, created>>
    <3>1. at[c] = "idle"
      BY <1>3 DEF GetOrCreateRead
    <3>2. Map!Free(c) /\ Waiting' = Waiting \union {<<c, k>>}
      BY <2>2, <3>1, WaitingAfter
    <3> QED
      BY <2>2, <3>2 DEF Map!AskForOne, Obtain
  <2> QED
    BY <1>3, <2>1, <2>2 DEF GetOrCreateRead
<1>4. ASSUME NEW c \in Callers, GetOrCreateWrite(c)
      PROVE  \E k \in Keys : Map!GetOrCreate(c, k)
  <2>1. PICK k \in Keys : k = key[c]
    BY DEF TypeOK
  <2>2. PICK q : Obtain(c, k, q, "idle") /\ at[c] = "creating"
    BY <1>4, <2>1 DEF GetOrCreateWrite, ReturnRegistered, InsertNew
  <2>3. <<c, k>> \in Waiting /\ Waiting' = Waiting \ {<<c, k>>}
    BY <2>1, <2>2, WaitingAfter
  <2>4. CASE Registered(k) /\ ReturnRegistered(c, k)
    <3>1. queue' = [queue EXCEPT ![c] = queues[k]] /\ UNCHANGED <<queues, created>>
      BY <2>4 DEF ReturnRegistered, Obtain
    <3> QED
      BY <2>1, <2>3, <2>4, <3>1 DEF Map!GetOrCreate, Registered
  <2>5. CASE ~Registered(k) /\ InsertNew(c, k)
    BY <2>1, <2>3, <2>5, InsertNewRegisters DEF Map!GetOrCreate
  <2> QED
    BY <1>4, <2>1, <2>4, <2>5 DEF GetOrCreateWrite
<1>5. ASSUME NEW k \in Keys, RemoveQueue(k)
      PROVE  Map!Remove(k)
  BY <1>5 DEF RemoveQueue, Map!Remove
<1>6. ASSUME NEW c \in Callers, NEW k \in Keys, SendEventLookup(c, k)
      PROVE  Map!Get(c, k)
  <2>1. PICK where : /\ Obtain(c, k, queues[k], where) /\ where # "creating"
                     /\ UNCHANGED <<queues, created>> /\ at[c] = "idle"
    BY <1>6 DEF SendEventLookup
  <2>2. Map!Free(c) /\ UNCHANGED Waiting
    BY <2>1, WaitingAfter
  <2> QED
    BY <2>1, <2>2 DEF Map!Get, Obtain
<1>7. ASSUME NEW c \in Callers, SendEventDeliver(c)
      PROVE  UNCHANGED Map!vars
  <2>1. /\ at[c] # "creating" /\ at'[c] # "creating" /\ key' = key
        /\ \A d \in Callers \ {c} : at'[d] = at[d]
    BY <1>7 DEF SendEventDeliver, TypeOK
  <2>2. {d \in Callers : at'[d] = "creating"} = {d \in Callers : at[d] = "creating"}
    BY <2>1
  <2>3. UNCHANGED Waiting
    BY <2>1, <2>2
  <2> QED
    BY <1>7, <2>3 DEF SendEventDeliver, Map!vars
<1>8. CASE UNCHANGED vars
  BY <1>8 DEF vars, Map!vars
<1>9. ASSUME NEW c \in Callers, NEW k \in Keys,
             Map!Create(c, k) \/ Map!Get(c, k) \/ Map!AskForOne(c, k) \/ Map!GetOrCreate(c, k)
      PROVE  Map!Next
  BY <1>9 DEF Map!Next
<1>10. ASSUME NEW c \in Callers, NEW k \in Keys, GetQueue(c, k)
       PROVE  Map!Get(c, k)
  BY <1>2, <1>10 DEF GetQueue
<1> HIDE DEF Waiting, Map!Free, Map!Find, Map!FindNone, Map!Give
<1>11. ASSUME NEW k \in Keys, RemoveQueue(k)
       PROVE  Map!Next
  <2>1. Map!Remove(k)
    BY <1>5, <1>11
  <2> QED
    BY <2>1 DEF Map!Next
<1>12. ASSUME NEW c \in Callers, GetOrCreateWrite(c)
       PROVE  Map!Next
  <2>1. PICK k \in Keys : Map!GetOrCreate(c, k)
    BY <1>4, <1>12
  <2> QED
    BY <1>9, <2>1
<1>13. CASE \E k \in Keys : RemoveQueue(k)
  BY <1>11, <1>13
<1>14. ASSUME NEW c \in Callers, NEW k \in Keys,
              CreateQueue(c, k) \/ GetQueue(c, k) \/ GetOrCreateRead(c, k) \/ SendEventLookup(c, k)
       PROVE  Map!Next
  BY <1>1, <1>3, <1>6, <1>9, <1>10, <1>14
<1> QED
  BY <1>7, <1>8, <1>12, <1>13, <1>14 DEF Next

\* The manager is a queue map although get_or_create_queue releases the lock in
\* between: however callers race, it acts in one moment, as RequestHandler takes it.
THEOREM ManagerIsAQueueMap == Spec => ImplementsQueueMap
<1>1. Init => Map!Init
  BY DEF Init, Map!Init
<1>2. TypeOK /\ [Next]_vars => [Map!Next]_Map!vars
  BY StepImplementsQueueMap
<1> QED
  BY <1>1, <1>2, TypeCorrect, PTL DEF Spec, ImplementsQueueMap, Map!Spec
=============================================================================
