--------------------------- MODULE TaskStoreProofs --------------------------
(***************************************************************************)
(* TaskStore for any number of clients, keys, snapshots and versions:      *)
(* types, the version protocol's invariant, optimistic concurrency control *)
(* and the refinement of LinkedStore.  FirstVersion = 1 is what new()      *)
(* gives; with the derived default()'s 0 the results fail, as the run      *)
(* MCTaskStoreDefault shows.                                               *)
(***************************************************************************)
EXTENDS TaskStore, TLAPS

(* Types ------------------------------------------------------------------ *)

\* The empty store is well typed.
LEMMA InitTypeOK == Init => TypeOK
BY StoreAssumption DEF Init, TypeOK, Nothing

\* The save that save() sends to the write lock is well formed.
LEMMA BegunSave ==
  ASSUME TypeOK, NEW c \in Clients, NEW t \in TaskIds, NEW snapshot \in Contents,
         NEW conditional \in BOOLEAN, BeginSave(c, t, snapshot, conditional)
  PROVE  /\ [key |-> t, task |-> snapshot, conditional |-> conditional,
             prev |-> IF conditional THEN held[c][t].version ELSE MISSING,
             version |-> nextVersion] \in PendingSave
         /\ nextVersion + 1 \in 0 .. MaxVersion + 1
<1>1. held[c][t].version \in Versions
  BY StoreAssumption DEF TypeOK, Entry, Nothing, Versions, MISSING
<1>2. nextVersion \in Versions /\ nextVersion + 1 \in 0 .. MaxVersion + 1
  BY StoreAssumption DEF TypeOK, BeginSave, Versions
<1> QED
  BY <1>1, <1>2, StoreAssumption DEF PendingSave, MISSING, Versions

\* Every call and every half of a save keeps the types.
LEMMA NextTypeOK == TypeOK /\ [Next]_vars => TypeOK'
<1> SUFFICES ASSUME TypeOK, [Next]_vars
             PROVE  TypeOK'
  OBVIOUS
<1> USE StoreAssumption DEF TypeOK
<1>1. ASSUME NEW c \in Clients, NEW t \in TaskIds, Get(c, t)
      PROVE  TypeOK'
  BY <1>1 DEF Get, Present
<1>2. ASSUME NEW c \in Clients, NEW t \in TaskIds, NEW snapshot \in Contents,
             NEW conditional \in BOOLEAN, BeginSave(c, t, snapshot, conditional)
      PROVE  TypeOK'
  BY <1>2, BegunSave DEF BeginSave
<1>3. ASSUME NEW c \in Clients, CommitSave(c)
      PROVE  TypeOK'
  <2>1. saving[c] \in PendingSave
    BY <1>3 DEF CommitSave
  <2>2. [task |-> saving[c].task, version |-> saving[c].version] \in Entry
    BY <2>1 DEF PendingSave, Entry
  <2> QED
    BY <1>3, <2>1, <2>2 DEF CommitSave, PendingSave
<1>4. ASSUME NEW c \in Clients, RejectSave(c) \/ AbandonSave(c)
      PROVE  TypeOK'
  BY <1>4 DEF RejectSave, AbandonSave
<1>5. ASSUME NEW t \in TaskIds, Delete(t)
      PROVE  TypeOK'
  BY <1>5 DEF Delete
<1>6. CASE UNCHANGED vars
  BY <1>6 DEF vars
<1> QED
  BY <1>1, <1>2, <1>3, <1>4, <1>5, <1>6 DEF Next

\* The store's state is well typed for every instance of the constants.
THEOREM TypeCorrect == Spec => []TypeOK
<1> QED
  BY InitTypeOK, NextTypeOK, PTL DEF Spec

(* Versions --------------------------------------------------------------- *)

\* Before the first save no version is anywhere.
LEMMA InitVersionInv == Init => VersionInv
BY StoreAssumption DEF Init, VersionInv, VersionsHandedOut, InFlightVersionsFresh,
                       PrevIsHeld, VersionNamesSnapshot, Nothing, Present

\* What is well typed, and what is present, has the fields it should have.
LEMMA EntryFacts ==
  ASSUME TypeOK
  PROVE  /\ \A t \in TaskIds : Present(t) => tasks[t] \in Entry
         /\ \A c \in Clients, t \in TaskIds :
              held[c][t].task # NoEntry => held[c][t] \in Entry
         /\ \A c \in Clients : saving[c] # Idle => saving[c] \in PendingSave
         /\ \A e \in Entry : e.task # NoEntry /\ e.version \in Int
         /\ \A s \in PendingSave : s.version \in Int /\ s.prev \in Int
BY StoreAssumption DEF TypeOK, Present, Entry, Nothing, PendingSave, Versions

\* A read copies a stored entry, whose version is neither new nor in flight.
LEMMA GetVersionInv ==
  ASSUME TypeOK, VersionInv, NEW c \in Clients, NEW t \in TaskIds, Get(c, t)
  PROVE  VersionInv'
<1> USE EntryFacts DEF VersionInv, Get
<1>1. \A d \in Clients, u \in TaskIds :
        held'[d][u] = IF d = c /\ u = t
                        THEN IF Present(t) THEN tasks[t] ELSE Nothing
                        ELSE held[d][u]
  BY DEF TypeOK
<1>2. VersionsHandedOut'
  BY <1>1 DEF VersionsHandedOut, Present, Nothing
<1>3. InFlightVersionsFresh'
  BY <1>1 DEF InFlightVersionsFresh, Present, Nothing
<1>4. PrevIsHeld'
  BY <1>1 DEF PrevIsHeld
<1>5. VersionNamesSnapshot'
  BY <1>1 DEF VersionNamesSnapshot, Present, Nothing
<1> QED
  BY <1>2, <1>3, <1>4, <1>5

\* The version a save takes from the counter is above every version seen.
LEMMA BeginSaveVersionInv ==
  ASSUME TypeOK, VersionInv, NEW c \in Clients, NEW t \in TaskIds,
         NEW snapshot \in Contents, NEW conditional \in BOOLEAN,
         BeginSave(c, t, snapshot, conditional)
  PROVE  VersionInv'
<1> USE EntryFacts, StoreAssumption DEF VersionInv, BeginSave
<1>1. \A d \in Clients :
        saving'[d] = IF d = c
          THEN [key |-> t, task |-> snapshot, conditional |-> conditional,
                prev |-> IF conditional THEN held[c][t].version ELSE MISSING,
                version |-> nextVersion]
          ELSE saving[d]
  BY DEF TypeOK
<1>2. nextVersion \in Int /\ nextVersion' = nextVersion + 1 /\ FirstVersion \in Int
        /\ nextVersion >= FirstVersion
  BY DEF TypeOK, VersionsHandedOut
<1>3. VersionsHandedOut'
  BY <1>1, <1>2 DEF VersionsHandedOut, Present
<1>4. InFlightVersionsFresh'
  BY <1>1, <1>2 DEF InFlightVersionsFresh, VersionsHandedOut, Present
<1>5. PrevIsHeld'
  BY <1>1, <1>2 DEF PrevIsHeld, VersionsHandedOut
<1>6. VersionNamesSnapshot'
  BY DEF VersionNamesSnapshot, Present
<1> QED
  BY <1>3, <1>4, <1>5, <1>6

\* A commit publishes a version that until then its save owned alone.
LEMMA CommitSaveVersionInv ==
  ASSUME TypeOK, VersionInv, NEW c \in Clients, CommitSave(c)
  PROVE  VersionInv'
<1> DEFINE entry == [task |-> saving[c].task, version |-> saving[c].version]
<1> USE EntryFacts, StoreAssumption DEF VersionInv, CommitSave
<1>1. saving[c] \in PendingSave /\ saving[c].key \in TaskIds /\ entry \in Entry
  BY DEF PendingSave, Entry
<1>2. \A u \in TaskIds : tasks'[u] = IF u = saving[c].key THEN entry ELSE tasks[u]
  BY DEF TypeOK
<1>3. \A d \in Clients, u \in TaskIds :
        held'[d][u] = IF d = c /\ u = saving[c].key THEN entry ELSE held[d][u]
  BY <1>1 DEF TypeOK
<1>4. \A d \in Clients : saving'[d] = IF d = c THEN Idle ELSE saving[d]
  BY DEF TypeOK
<1> HIDE DEF CommitSave
<1>5. nextVersion' = nextVersion
  BY DEF CommitSave
<1>6. saving[c] # Idle /\ entry.version = saving[c].version
  BY DEF CommitSave
<1> HIDE DEF entry
<1>7. VersionsHandedOut'
  BY <1>1, <1>2, <1>3, <1>4, <1>5, <1>6 DEF VersionsHandedOut, Present
<1>8. InFlightVersionsFresh'
  BY <1>1, <1>2, <1>3, <1>4, <1>6 DEF InFlightVersionsFresh, Present
<1>9. PrevIsHeld'
  <2>1. \A d \in Clients : saving[d] # Idle => saving[d].key \in TaskIds
    BY DEF PendingSave
  <2> QED
    BY <1>3, <1>4, <2>1 DEF PrevIsHeld
<1>10. VersionNamesSnapshot'
  BY <1>1, <1>2, <1>3, <1>4, <1>6
     DEF VersionNamesSnapshot, InFlightVersionsFresh, Present
<1> QED
  BY <1>7, <1>8, <1>9, <1>10

\* Every step keeps the version protocol's invariant.
LEMMA NextVersionInv == TypeOK /\ VersionInv /\ [Next]_vars => VersionInv'
<1> SUFFICES ASSUME TypeOK, VersionInv, [Next]_vars
             PROVE  VersionInv'
  OBVIOUS
<1>1. ASSUME NEW c \in Clients, RejectSave(c) \/ AbandonSave(c)
      PROVE  VersionInv'
  <2>1. \A d \in Clients : saving'[d] = IF d = c THEN Idle ELSE saving[d]
    BY <1>1 DEF TypeOK, RejectSave, AbandonSave
  <2>2. UNCHANGED <<tasks, nextVersion, held>>
    BY <1>1 DEF RejectSave, AbandonSave
  <2> QED
    BY <2>1, <2>2 DEF VersionInv, VersionsHandedOut, InFlightVersionsFresh,
                      PrevIsHeld, VersionNamesSnapshot, Present
<1>2. ASSUME NEW t \in TaskIds, Delete(t)
      PROVE  VersionInv'
  <2>1. \A u \in TaskIds : Present(u)' => Present(u) /\ tasks'[u] = tasks[u]
    BY <1>2 DEF TypeOK, Delete, Present
  <2>2. UNCHANGED <<nextVersion, held, saving>>
    BY <1>2 DEF Delete
  <2> QED
    BY <2>1, <2>2 DEF VersionInv, VersionsHandedOut, InFlightVersionsFresh,
                      PrevIsHeld, VersionNamesSnapshot
<1>3. CASE UNCHANGED vars
  BY <1>3 DEF vars, VersionInv, VersionsHandedOut, InFlightVersionsFresh,
              PrevIsHeld, VersionNamesSnapshot, Present
<1> QED
  BY <1>1, <1>2, <1>3, GetVersionInv, BeginSaveVersionInv, CommitSaveVersionInv
     DEF Next

\* save() takes its version before it has the lock, and yet versions stay
\* unique, in-flight ones are unseen, and a version names one snapshot.
THEOREM VersionsCorrect == Spec => []VersionInv
<1> QED
  BY TypeCorrect, InitVersionInv, NextVersionInv, PTL DEF Spec

(* Optimistic concurrency control ----------------------------------------- *)

\* Only the commit of c's own save looks like one: the stored version was
\* in flight before the step, so the entry is not the old one.
LEMMA CommitsConditionallyIsCommit ==
  ASSUME TypeOK, VersionInv, [Next]_vars,
         NEW c \in Clients, CommitsConditionally(c)
  PROVE  CommitSave(c)
<1>1. tasks'[saving[c].key] # tasks[saving[c].key]
  <2>1. saving[c] \in PendingSave /\ saving[c].key \in TaskIds
    BY EntryFacts DEF CommitsConditionally, PendingSave
  <2> QED
    BY <2>1 DEF CommitsConditionally, VersionInv, InFlightVersionsFresh
<1>2. saving'[c] # saving[c]
  BY DEF CommitsConditionally
<1>3. ASSUME NEW d \in Clients, CommitSave(d), d # c
      PROVE  FALSE
  BY <1>2, <1>3 DEF CommitSave, TypeOK
<1>4. ASSUME NEW d \in Clients, RejectSave(d) \/ AbandonSave(d)
      PROVE  FALSE
  BY <1>1, <1>4 DEF RejectSave, AbandonSave
<1>5. ASSUME NEW d \in Clients, NEW t \in TaskIds,
             \/ Get(d, t)
             \/ \E snapshot \in Contents, conditional \in BOOLEAN :
                  BeginSave(d, t, snapshot, conditional)
      PROVE  FALSE
  BY <1>1, <1>5 DEF Get, BeginSave
<1>6. ASSUME NEW t \in TaskIds, Delete(t)
      PROVE  FALSE
  BY <1>2, <1>6 DEF Delete
<1>7. Next
  BY <1>2 DEF vars
<1> QED
  BY <1>3, <1>4, <1>5, <1>6, <1>7 DEF Next

\* A conditional save that goes through over an entry carries its version.
LEMMA ConditionalCommitMatches ==
  ASSUME TypeOK, VersionInv, FirstVersion # MISSING, NEW c \in Clients,
         CommitSave(c), saving[c].conditional, Present(saving[c].key)
  PROVE  /\ saving[c].key \in TaskIds
         /\ held[c][saving[c].key] = tasks[saving[c].key]
         /\ tasks[saving[c].key].version < saving[c].version
         /\ tasks'[saving[c].key].version = saving[c].version
<1>1. saving[c] \in PendingSave /\ saving[c] # Idle
  BY EntryFacts DEF CommitSave
<1>2. saving[c].key \in TaskIds
  BY <1>1 DEF PendingSave
<1>3. /\ held[c][saving[c].key].task # NoEntry
      /\ saving[c].prev = held[c][saving[c].key].version
      /\ saving[c].prev < saving[c].version
  BY <1>1 DEF VersionInv, PrevIsHeld
<1>4. saving[c].prev # MISSING
  <2>1. held[c][saving[c].key].version \in FirstVersion .. nextVersion - 1
    BY <1>2, <1>3 DEF VersionInv, VersionsHandedOut
  <2> QED
    BY <1>3, <2>1, StoreAssumption DEF MISSING, TypeOK
<1>5. saving[c].prev = tasks[saving[c].key].version
  BY <1>4 DEF CommitSave, Conflicts
<1>6. held[c][saving[c].key] = tasks[saving[c].key]
  BY <1>2, <1>3, <1>5 DEF VersionInv, VersionNamesSnapshot
<1>7. tasks'[saving[c].key].version = saving[c].version
  BY <1>2 DEF CommitSave, TypeOK
<1> QED
  BY <1>2, <1>3, <1>5, <1>6, <1>7

\* A save made with the version its caller read replaces exactly the snapshot
\* the caller read, however saves, versions and deletions interleave.
THEOREM NoUpdateLost == FirstVersion # MISSING => (Spec => NoLostUpdate)
<1> SUFFICES ASSUME FirstVersion # MISSING
             PROVE  Spec => NoLostUpdate
  OBVIOUS
<1>1. TypeOK /\ VersionInv /\ [Next]_vars =>
        [\A c \in Clients : CommitsConditionally(c) =>
            tasks[saving[c].key].task = held[c][saving[c].key].task]_vars
  BY CommitsConditionallyIsCommit, ConditionalCommitMatches
     DEF CommitsConditionally
<1> QED
  BY <1>1, TypeCorrect, VersionsCorrect, PTL DEF Spec, NoLostUpdate

\* A conditional save moves its key's version forward.
THEOREM ConditionalSavesAdvance ==
  FirstVersion # MISSING => (Spec => ConditionalSaveAdvances)
<1> SUFFICES ASSUME FirstVersion # MISSING
             PROVE  Spec => ConditionalSaveAdvances
  OBVIOUS
<1>1. TypeOK /\ VersionInv /\ [Next]_vars =>
        [\A c \in Clients : CommitsConditionally(c) =>
            tasks'[saving[c].key].version > tasks[saving[c].key].version]_vars
  <2> SUFFICES ASSUME TypeOK, VersionInv, [Next]_vars,
                      NEW c \in Clients, CommitsConditionally(c)
               PROVE  tasks'[saving[c].key].version > tasks[saving[c].key].version
    OBVIOUS
  <2>1. CommitSave(c) /\ saving[c].conditional /\ Present(saving[c].key)
    BY CommitsConditionallyIsCommit DEF CommitsConditionally
  <2>2. saving[c].version \in Int /\ tasks[saving[c].key].version \in Int
    BY <2>1, ConditionalCommitMatches, EntryFacts DEF CommitSave
  <2> QED
    BY <2>1, <2>2, ConditionalCommitMatches
<1> QED
  BY <1>1, TypeCorrect, VersionsCorrect, PTL DEF Spec, ConditionalSaveAdvances

(* Refinement ------------------------------------------------------------- *)

\* The empty store is the empty abstract store.
LEMMA InitRefines == Init => Abstract!Init
BY DEF Init, Abstract!Init, AbstractContent, AbstractLinked, AbstractPending, Present

\* A save is in progress in the store iff it is in the abstract store.
LEMMA PendingFacts ==
  ASSUME TypeOK, NEW c \in Clients
  PROVE  /\ saving[c] = Idle <=> AbstractPending[c] = Idle
         /\ saving[c] # Idle =>
              AbstractPending[c] = [key |-> saving[c].key, value |-> saving[c].task,
                                    conditional |-> saving[c].conditional]
<1>1. ASSUME saving[c] # Idle
      PROVE  [key |-> saving[c].key, value |-> saving[c].task,
              conditional |-> saving[c].conditional] \in AbstractSave
  BY <1>1, EntryFacts DEF PendingSave, AbstractSave
<1> QED
  BY <1>1, StoreAssumption DEF AbstractPending

\* A save that ends, with or without effect, ends in the abstract store.
LEMMA PendingEnds ==
  ASSUME TypeOK, NEW c \in Clients, saving' = [saving EXCEPT ![c] = Idle]
  PROVE  AbstractPending' = [AbstractPending EXCEPT ![c] = Idle]
<1>1. \A d \in Clients : saving'[d] = IF d = c THEN Idle ELSE saving[d]
  BY DEF TypeOK
<1> QED
  BY <1>1 DEF AbstractPending

\* While the map and what callers hold of it stay, so does its abstraction.
LEMMA MapUnchanged ==
  ASSUME UNCHANGED <<tasks, held>>
  PROVE  UNCHANGED <<AbstractContent, AbstractLinked>>
BY DEF AbstractContent, AbstractLinked, Present

\* After c commits entry under k, c is linked to it and nobody else is: the
\* version was in flight, so no other client can hold it.
LEMMA CommitReplaces ==
  ASSUME TypeOK, VersionInv, NEW c \in Clients, CommitSave(c)
  PROVE  Abstract!Replace(c, saving[c].key, saving[c].task)
<1> DEFINE k == saving[c].key
           entry == [task |-> saving[c].task, version |-> saving[c].version]
<1>1. saving[c] # Idle /\ saving[c] \in PendingSave
  BY EntryFacts DEF CommitSave
<1>2. k \in TaskIds /\ entry \in Entry /\ entry # NoEntry /\ entry.task # NoEntry
  BY <1>1, StoreAssumption DEF PendingSave, Entry
<1>3. \A u \in TaskIds : tasks'[u] = IF u = k THEN entry ELSE tasks[u]
  BY DEF TypeOK, CommitSave
<1>4. \A d \in Clients, u \in TaskIds :
        held'[d][u] = IF d = c /\ u = k THEN entry ELSE held[d][u]
  BY <1>2 DEF TypeOK, CommitSave
<1>5. \A d \in Clients :
        held[d][k].task # NoEntry => held[d][k].version # entry.version
  BY <1>1, <1>2 DEF VersionInv, InFlightVersionsFresh
<1> HIDE DEF k, entry
<1>6. AbstractContent' = [AbstractContent EXCEPT ![k] = entry.task]
  BY <1>2, <1>3 DEF AbstractContent, Present
<1>7. ASSUME NEW d \in Clients
      PROVE  AbstractLinked'[d] = IF d = c THEN AbstractLinked[d] \cup {k}
                                           ELSE AbstractLinked[d] \ {k}
  BY <1>2, <1>3, <1>4, <1>5 DEF AbstractLinked, Present
<1>8. AbstractLinked' = [d \in Clients |->
                           IF d = c THEN AbstractLinked[d] \cup {k}
                                    ELSE AbstractLinked[d] \ {k}]
  BY <1>7 DEF AbstractLinked
<1>9. entry.task = saving[c].task
  BY DEF entry
<1> QED
  BY <1>6, <1>8, <1>9 DEF Abstract!Replace, k

\* The save that goes through is the one the abstract store has pending, and
\* if it is conditional over an entry, its caller's link is unbroken.
LEMMA CommitRefines ==
  ASSUME TypeOK, VersionInv, FirstVersion # MISSING, NEW c \in Clients, CommitSave(c)
  PROVE  Abstract!Next
<1> DEFINE k == saving[c].key
<1>1. saving[c] # Idle /\ k \in TaskIds
  BY EntryFacts DEF CommitSave, PendingSave
<1>2. /\ AbstractPending[c] # Idle
      /\ AbstractPending[c].key = k
      /\ AbstractPending[c].value = saving[c].task
      /\ AbstractPending[c].conditional = saving[c].conditional
  <2>1. AbstractPending[c] = [key |-> k, value |-> saving[c].task,
                              conditional |-> saving[c].conditional]
    BY <1>1, PendingFacts
  <2> QED
    BY <1>1, <2>1, PendingFacts
<1>3. ASSUME saving[c].conditional
      PROVE  Abstract!Unbroken(c, k)
  <2>1. CASE ~ Present(k)
    BY <1>1, <2>1 DEF AbstractContent, Abstract!Unbroken
  <2>2. CASE Present(k)
    <3>1. held[c][k] = tasks[k] /\ tasks[k].task # NoEntry
      BY <1>1, <1>3, <2>2, ConditionalCommitMatches, EntryFacts
    <3> QED
      BY <1>1, <2>2, <3>1 DEF AbstractLinked, Abstract!Unbroken
  <2> QED
    BY <2>1, <2>2
<1>4. AbstractPending' = [AbstractPending EXCEPT ![c] = Idle]
  BY PendingEnds DEF CommitSave
<1>5. Abstract!CommitSave(c)
  BY <1>2, <1>3, <1>4, CommitReplaces DEF Abstract!CommitSave
<1> QED
  BY <1>5 DEF Abstract!Next

\* A save without effect leaves the abstract store as it is, too.
LEMMA EndRefines ==
  ASSUME TypeOK, NEW c \in Clients, RejectSave(c) \/ AbandonSave(c)
  PROVE  Abstract!Next
<1>1. AbstractPending[c] # Idle
  BY PendingFacts DEF RejectSave, AbandonSave
<1>2. AbstractPending' = [AbstractPending EXCEPT ![c] = Idle]
  BY PendingEnds DEF RejectSave, AbandonSave
<1>3. UNCHANGED <<AbstractContent, AbstractLinked>>
  BY MapUnchanged DEF RejectSave, AbandonSave
<1>4. Abstract!EndSave(c)
  BY <1>1, <1>2, <1>3 DEF Abstract!EndSave
<1> QED
  BY <1>4 DEF Abstract!Next

\* A save begun is pending in the abstract store, its version forgotten.
LEMMA BeginRefines ==
  ASSUME TypeOK, NEW c \in Clients, NEW t \in TaskIds, NEW snapshot \in Contents,
         NEW conditional \in BOOLEAN, BeginSave(c, t, snapshot, conditional)
  PROVE  Abstract!Next
<1> DEFINE save == [key |-> t, task |-> snapshot, conditional |-> conditional,
                    prev |-> IF conditional THEN held[c][t].version ELSE MISSING,
                    version |-> nextVersion]
<1>1. \A d \in Clients : saving'[d] = IF d = c THEN save ELSE saving[d]
  BY DEF TypeOK, BeginSave
<1>2. save # Idle
  BY BegunSave, StoreAssumption
<1>3. AbstractPending' =
        [AbstractPending EXCEPT ![c] =
           [key |-> t, value |-> snapshot, conditional |-> conditional]]
  <2>1. save.key = t /\ save.task = snapshot /\ save.conditional = conditional
    OBVIOUS
  <2> HIDE DEF save
  <2> QED
    BY <1>1, <1>2, <2>1 DEF AbstractPending
<1>4. UNCHANGED <<AbstractContent, AbstractLinked>>
  BY MapUnchanged DEF BeginSave
<1>5. AbstractPending[c] = Idle
  BY PendingFacts DEF BeginSave
<1>6. Abstract!BeginSave(c, t, snapshot, conditional)
  BY <1>3, <1>4, <1>5 DEF Abstract!BeginSave
<1> QED
  BY <1>6 DEF Abstract!Next

\* A get is the abstract Read: it links its caller to a present entry.
LEMMA GetRefines ==
  ASSUME TypeOK, VersionInv, NEW c \in Clients, NEW t \in TaskIds, Get(c, t)
  PROVE  Abstract!Next
<1>1. \A d \in Clients, u \in TaskIds :
        held'[d][u] = IF d = c /\ u = t
                        THEN IF Present(t) THEN tasks[t] ELSE Nothing
                        ELSE held[d][u]
  BY DEF TypeOK, Get
<1>2. UNCHANGED tasks
  BY DEF Get
<1>3. AbstractContent' = AbstractContent
  BY <1>2 DEF AbstractContent, Present
<1>4. Present(t) <=> AbstractContent[t] # NoEntry
  BY EntryFacts DEF AbstractContent
<1>5. ASSUME NEW d \in Clients
      PROVE  AbstractLinked'[d] =
               IF d = c
                 THEN IF Present(t) THEN AbstractLinked[d] \cup {t}
                                    ELSE AbstractLinked[d] \ {t}
                 ELSE AbstractLinked[d]
  BY <1>1, <1>2, EntryFacts DEF AbstractLinked, Present
<1>6. AbstractLinked' =
        [AbstractLinked EXCEPT ![c] =
           IF AbstractContent[t] = NoEntry THEN @ \ {t} ELSE @ \cup {t}]
  BY <1>4, <1>5 DEF AbstractLinked
<1>7. AbstractPending[c] = Idle /\ UNCHANGED AbstractPending
  BY PendingFacts DEF Get, AbstractPending
<1>8. Abstract!Read(c, t)
  BY <1>3, <1>6, <1>7 DEF Abstract!Read
<1> QED
  BY <1>8 DEF Abstract!Next

\* A delete is the abstract Remove, which breaks every link to the key.
LEMMA DeleteRefines ==
  ASSUME TypeOK, NEW t \in TaskIds, Delete(t)
  PROVE  Abstract!Next
<1>1. \A u \in TaskIds : tasks'[u] = IF u = t THEN NoEntry ELSE tasks[u]
  BY DEF TypeOK, Delete
<1>2. UNCHANGED held
  BY DEF Delete
<1>3. AbstractContent' = [AbstractContent EXCEPT ![t] = NoEntry]
  BY <1>1 DEF AbstractContent, Present
<1>4. AbstractLinked' = [d \in Clients |-> AbstractLinked[d] \ {t}]
  BY <1>1, <1>2 DEF AbstractLinked, Present
<1>5. UNCHANGED AbstractPending
  BY DEF Delete, AbstractPending
<1>6. Abstract!Remove(t)
  BY <1>3, <1>4, <1>5 DEF Abstract!Remove
<1> QED
  BY <1>6 DEF Abstract!Next

\* Every step of the store is an abstract step or a stutter.
LEMMA NextRefines ==
  FirstVersion # MISSING /\ TypeOK /\ VersionInv /\ [Next]_vars
    => [Abstract!Next]_(Abstract!vars)
<1> SUFFICES ASSUME FirstVersion # MISSING, TypeOK, VersionInv, [Next]_vars
             PROVE  [Abstract!Next]_(Abstract!vars)
  OBVIOUS
<1>1. CASE UNCHANGED vars
  BY <1>1, MapUnchanged DEF vars, Abstract!vars, AbstractPending
<1>2. CASE Next
  BY <1>2, CommitRefines, EndRefines, BeginRefines, GetRefines, DeleteRefines DEF Next
<1> QED
  BY <1>1, <1>2

\* Versions implement links: the store behaves as load-linked /
\* store-conditional, for every number of clients and keys.
THEOREM StoreImplementsLinkedStore ==
  FirstVersion # MISSING => (Spec => ImplementsLinkedStore)
<1> SUFFICES ASSUME FirstVersion # MISSING
             PROVE  Spec => ImplementsLinkedStore
  OBVIOUS
<1>1. TypeOK /\ VersionInv /\ [Next]_vars => [Abstract!Next]_(Abstract!vars)
  BY NextRefines
<1> QED
  BY <1>1, InitRefines, TypeCorrect, VersionsCorrect, PTL
     DEF Spec, ImplementsLinkedStore, Abstract!Spec
=============================================================================
