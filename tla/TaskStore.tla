----------------------------- MODULE TaskStore ------------------------------
(***************************************************************************)
(* InMemoryTaskStore (server/task_store.rs): a map of versioned tasks      *)
(* behind a read-write lock, and an atomic counter that hands out          *)
(* versions.  A save takes its version from the counter BEFORE it waits    *)
(* for the write lock, so saves may commit in another order than their     *)
(* versions.  Clients are concurrent callers; each has one call in flight. *)
(*                                                                         *)
(* A snapshot is opaque (a member of Contents).  list() reads without      *)
(* changing anything and is left to another module.                        *)
(***************************************************************************)
EXTENDS Integers

CONSTANTS Clients,      \* concurrent callers
          TaskIds,      \* keys of the map
          Contents,     \* task snapshots
          NoEntry,      \* an absent key; also "nothing read yet"
          Idle,         \* a client without a save in flight
          FirstVersion, \* 1 after new(), 0 after the derived default()
          MaxVersion    \* bound: the last version the counter hands out

MISSING == 0

Versions == 0 .. MaxVersion

Entry == [task : Contents, version : Versions]

\* conditional records the caller's intent (it passes the version it read);
\* the code sees prev only.
PendingSave == [key : TaskIds, task : Contents, conditional : BOOLEAN,
                prev : Versions, version : Versions]

\* A save as LinkedStore sees it.
AbstractSave == [key : TaskIds, value : Contents, conditional : BOOLEAN]

\* What a caller holds of a key whose get returned None.
Nothing == [task |-> NoEntry, version |-> MISSING]

ASSUME StoreAssumption ==
    /\ FirstVersion \in {0, 1}
    /\ MaxVersion \in Nat
    /\ NoEntry \notin Contents \cup Entry
    /\ Idle \notin PendingSave \cup AbstractSave

VARIABLES tasks,        \* tasks[t]: [task, version], or NoEntry
          nextVersion,  \* the atomic counter
          held,         \* held[c][t]: the entry c last read or wrote
          saving        \* saving[c]: the save waiting for the write lock

vars == <<tasks, nextVersion, held, saving>>

Present(t) == tasks[t] # NoEntry

-----------------------------------------------------------------------------
Init ==
    /\ tasks = [t \in TaskIds |-> NoEntry]
    /\ nextVersion = FirstVersion
    /\ held = [c \in Clients |-> [t \in TaskIds |-> Nothing]]
    /\ saving = [c \in Clients |-> Idle]

Get(c, t) ==
    /\ saving[c] = Idle
    /\ held' = [held EXCEPT ![c][t] = IF Present(t) THEN tasks[t] ELSE Nothing]
    /\ UNCHANGED <<tasks, nextVersion, saving>>

\* Mutant: the counter is loaded here, and never advanced.
BeginSaveLoading(c, t, snapshot, conditional) ==
    /\ saving[c] = Idle
    /\ nextVersion <= MaxVersion
    /\ conditional => held[c][t].task # NoEntry
    /\ saving' = [saving EXCEPT ![c] =
                    [key |-> t, task |-> snapshot, conditional |-> conditional,
                     prev |-> IF conditional THEN held[c][t].version ELSE MISSING,
                     version |-> nextVersion]]
    /\ UNCHANGED <<tasks, nextVersion, held>>

\* save(), up to the point where it awaits the write lock.
BeginSave(c, t, snapshot, conditional) ==
    /\ saving[c] = Idle
    /\ nextVersion <= MaxVersion
    /\ conditional => held[c][t].task # NoEntry
    /\ saving' = [saving EXCEPT ![c] =
                    [key |-> t, task |-> snapshot, conditional |-> conditional,
                     prev |-> IF conditional THEN held[c][t].version ELSE MISSING,
                     version |-> nextVersion]]
    /\ nextVersion' = nextVersion + 1
    /\ UNCHANGED <<tasks, held>>

\* Mutants: no check at all, and one that takes versions for timestamps.
ConflictsNever(save) == FALSE
ConflictsIfOlder(save) ==
    /\ Present(save.key)
    /\ save.prev # MISSING
    /\ save.prev < tasks[save.key].version

Conflicts(save) ==
    /\ Present(save.key)
    /\ save.prev # MISSING
    /\ save.prev # tasks[save.key].version

\* save() under the write lock; the caller learns the new version.
CommitSave(c) ==
    /\ saving[c] # Idle
    /\ ~Conflicts(saving[c])
    /\ LET save  == saving[c]
           entry == [task |-> save.task, version |-> save.version]
       IN  /\ tasks' = [tasks EXCEPT ![save.key] = entry]
           /\ held' = [held EXCEPT ![c][save.key] = entry]
    /\ saving' = [saving EXCEPT ![c] = Idle]
    /\ UNCHANGED nextVersion

\* ConcurrentTaskModification: the version taken is never used.
RejectSave(c) ==
    /\ saving[c] # Idle
    /\ Conflicts(saving[c])
    /\ saving' = [saving EXCEPT ![c] = Idle]
    /\ UNCHANGED <<tasks, nextVersion, held>>

\* The caller's future is dropped while it waits for the lock.
AbandonSave(c) ==
    /\ saving[c] # Idle
    /\ saving' = [saving EXCEPT ![c] = Idle]
    /\ UNCHANGED <<tasks, nextVersion, held>>

Delete(t) ==
    /\ tasks' = [tasks EXCEPT ![t] = NoEntry]
    /\ UNCHANGED <<nextVersion, held, saving>>

Next ==
    \/ \E c \in Clients :
        \/ CommitSave(c)
        \/ RejectSave(c)
        \/ AbandonSave(c)
        \/ \E t \in TaskIds :
            \/ Get(c, t)
            \/ \E snapshot \in Contents, conditional \in BOOLEAN :
                 BeginSave(c, t, snapshot, conditional)
    \/ \E t \in TaskIds : Delete(t)

Spec == Init /\ [][Next]_vars

-----------------------------------------------------------------------------
\* Types of the store's map, its counter, and what its callers hold.
TypeOK ==
    /\ tasks \in [TaskIds -> Entry \cup {NoEntry}]
    /\ nextVersion \in 0 .. MaxVersion + 1
    /\ held \in [Clients -> [TaskIds -> Entry \cup {Nothing}]]
    /\ saving \in [Clients -> PendingSave \cup {Idle}]

\* Every version anywhere was handed out by the counter.
VersionsHandedOut ==
    /\ nextVersion >= FirstVersion
    /\ \A t \in TaskIds :
         Present(t) => tasks[t].version \in FirstVersion .. nextVersion - 1
    /\ \A c \in Clients, t \in TaskIds :
         held[c][t].task # NoEntry =>
           held[c][t].version \in FirstVersion .. nextVersion - 1
    /\ \A c \in Clients :
         saving[c] # Idle => saving[c].version \in FirstVersion .. nextVersion - 1

\* A save in flight owns its version alone: nobody stored it, nobody has seen
\* it, no other save carries it.
InFlightVersionsFresh ==
    \A c \in Clients : saving[c] # Idle =>
        /\ \A t \in TaskIds : Present(t) => tasks[t].version # saving[c].version
        /\ \A d \in Clients, t \in TaskIds :
             held[d][t].task # NoEntry => held[d][t].version # saving[c].version
        /\ \A d \in Clients \ {c} :
             saving[d] # Idle => saving[d].version # saving[c].version

\* A conditional save still carries the version its caller holds, which is
\* older than the version it was given.
PrevIsHeld ==
    \A c \in Clients : saving[c] # Idle =>
        IF saving[c].conditional
          THEN /\ held[c][saving[c].key].task # NoEntry
               /\ saving[c].prev = held[c][saving[c].key].version
               /\ saving[c].prev < saving[c].version
          ELSE saving[c].prev = MISSING

\* One version names one snapshot: who holds the version of the stored entry
\* holds the stored snapshot (no ABA, not even across delete and re-create).
VersionNamesSnapshot ==
    \A c \in Clients, t \in TaskIds :
        Present(t) /\ held[c][t].task # NoEntry
                   /\ held[c][t].version = tasks[t].version
          => held[c][t] = tasks[t]

\* The inductive invariant of the version protocol: save()'s fetch_add before
\* the lock keeps versions unique although they commit out of order.
VersionInv ==
    /\ VersionsHandedOut
    /\ InFlightVersionsFresh
    /\ PrevIsHeld
    /\ VersionNamesSnapshot

-----------------------------------------------------------------------------
\* c's conditional save goes through over an existing entry in this step.
CommitsConditionally(c) ==
    /\ saving[c] # Idle
    /\ saving[c].conditional
    /\ saving'[c] = Idle
    /\ Present(saving[c].key)
    /\ tasks'[saving[c].key] = [task |-> saving[c].task, version |-> saving[c].version]

\* Optimistic concurrency control: a save made with the version its caller
\* read replaces exactly the snapshot the caller read, so no write that came
\* in between is lost, whatever the order of versions and commits.
NoLostUpdate ==
    [][\A c \in Clients :
         CommitsConditionally(c) =>
           tasks[saving[c].key].task = held[c][saving[c].key].task]_vars

\* A conditional save never takes a key's version backwards (an unconditional
\* one may: its version can be older than the one it overwrites).
ConditionalSaveAdvances ==
    [][\A c \in Clients :
         CommitsConditionally(c) =>
           tasks'[saving[c].key].version > tasks[saving[c].key].version]_vars

-----------------------------------------------------------------------------
(* The store implements LinkedStore: the versions stand for links.         *)

AbstractContent == [t \in TaskIds |-> IF Present(t) THEN tasks[t].task ELSE NoEntry]

AbstractLinked ==
    [c \in Clients |->
       {t \in TaskIds : /\ Present(t)
                        /\ held[c][t].task # NoEntry
                        /\ held[c][t].version = tasks[t].version}]

AbstractPending ==
    [c \in Clients |->
       IF saving[c] = Idle
         THEN Idle
         ELSE [key |-> saving[c].key, value |-> saving[c].task,
               conditional |-> saving[c].conditional]]

Abstract == INSTANCE LinkedStore WITH content <- AbstractContent,
                                      linked <- AbstractLinked,
                                      pending <- AbstractPending

\* Versioned saves behave as load-linked / store-conditional: a save made with
\* the version its caller read takes effect over an existing entry only if
\* nobody wrote or deleted that entry since it was seen.
ImplementsLinkedStore == Abstract!Spec
=============================================================================
