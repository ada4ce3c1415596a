--------------------------- MODULE TaskServiceProofs ---------------------------
(******************************************************************************)
(* Proofs about TaskService: its inductive invariant, and that the properties *)
(* its run checks follow from it for any plan, any number of collectors,      *)
(* callers, tasks and configurations, and any bound on the failures.          *)
(******************************************************************************)
EXTENDS TaskService, SequenceLemmas, FiniteSetTheorems, TLAPS

CollectorState ==
    [left : Seq(Event), pc : {"recv", "read", "save", "list", "post"},
     task : Body \union {Nothing}, targets : SUBSET ConfigIds]
CallerState ==
    [pc : {"check", "act", "done"},
     answer : {Nothing, "ok", "InvalidParams", "TaskNotFound"}]
ListerState ==
    [offset : Nat, seen : Seq(TaskIds), first : Seq(TaskIds), same : BOOLEAN,
     pc : {"first", "next", "done"}]

\* Types of the variables.
TypeOK ==
    /\ plan \in Plans
    /\ tasks \in UNION {[ids -> Body] : ids \in SUBSET TaskIds}
    /\ order \in Seq(TaskIds)
    /\ configs \in SUBSET ConfigIds
    /\ collector \in [Collectors -> CollectorState]
    /\ caller \in [Callers -> CallerState]
    /\ lister \in ListerState
    /\ posted \in [ConfigIds -> States \union {Nothing}]
    /\ stale \in [ConfigIds -> Nat]
    /\ touched \in SUBSET ConfigIds
    /\ faults \in Nat

\* A collector works through the plan's events in order, and what it is about to
\* store or post is the event it is at.
InStep(p) ==
    LET c == collector[p] IN
    /\ Len(c.left) <= Len(plan.events)
    /\ \A i \in 1..Len(c.left) : c.left[i] = plan.events[Len(plan.events) - Len(c.left) + i]
    /\ p \notin plan.collecting => c.left = <<>>
    /\ c.pc # "recv" => c.left # <<>>
    /\ c.pc = "read" => c.left[1].kind = "status"
    /\ c.pc \in {"save", "list", "post"} =>
        /\ c.task \in Body
        /\ c.task.state = c.left[1].state
        /\ c.left[1].kind = "task" => c.task.content = c.left[1].content
    /\ c.pc # "post" => c.targets = {}

CollectorsInStep == \A p \in Collectors : InStep(p)

Undisturbed ==
    /\ plan.events # <<>> /\ plan.collecting # {} /\ faults = 0
    /\ Collected \in DOMAIN plan.tasks /\ Collected \notin plan.arriving

FinalState == plan.events[Len(plan.events)].state

\* The last save of all is some collector's last.
SavedLast(p) ==
    \/ collector[p].left = <<>>
    \/ Len(collector[p].left) = 1 /\ collector[p].pc \in {"list", "post"}

StateSaved ==
    Undisturbed =>
        /\ Collected \in DOMAIN tasks
        /\ (\A p \in plan.collecting : SavedLast(p)) => tasks[Collected].state = FinalState

\* Likewise for the posts to a configuration that nobody touched.
PostedLast(p, k) ==
    \/ collector[p].left = <<>>
    \/ Len(collector[p].left) = 1 /\ collector[p].pc = "post" /\ k \notin collector[p].targets

StatePosted ==
    \A k \in plan.configs \ touched :
        /\ k \in configs
        /\ (Undisturbed /\ \A p \in plan.collecting : PostedLast(p, k))
                => posted[k] = FinalState

\* With one collector, the content stored is that of the last snapshot among the
\* events it has saved, and what it has read is still so.
LastAmong(i, n) ==
    /\ i = 0 \/ plan.events[i].kind = "task"
    /\ \A j \in i + 1..n : plan.events[j].kind = "status"

Saved(p) ==
    Len(plan.events) - Len(collector[p].left)
        + (IF collector[p].pc \in {"list", "post"} THEN 1 ELSE 0)

ContentOf(i) == IF i = 0 THEN plan.tasks[Collected].content ELSE plan.events[i].content

LastIsStored(n) ==
    \E i \in 0..n : LastAmong(i, n) /\ tasks[Collected].content = ContentOf(i)

ContentSaved ==
    \A p \in Collectors :
        (Undisturbed /\ plan.collecting = {p}) =>
            /\ LastIsStored(Saved(p))
            /\ (collector[p].pc = "save" /\ collector[p].left[1].kind = "status") =>
                collector[p].task.content = tasks[Collected].content

\* Whoever may still post to a deleted configuration had listed it.
Holders(k) == {p \in Collectors : k \in collector[p].targets}

StaleCounted ==
    \A k \in ConfigIds :
        IF k \in configs THEN stale[k] = 0
        ELSE stale[k] + Cardinality(Holders(k)) <= Cardinality(plan.collecting)

\* The pages so far are a prefix of the list.
PagesSoFar ==
    /\ lister.pc = "first" => lister.seen = <<>> /\ lister.offset = 0 /\ lister.same
    /\ plan.backend = "sql" => lister.pc # "next"
    /\ (lister.pc # "first" /\ lister.same) =>
        /\ lister.offset = Len(lister.seen)
        /\ Len(lister.seen) <= Len(lister.first)
        /\ \A i \in 1..Len(lister.seen) : lister.seen[i] = lister.first[i]
        /\ lister.pc = "done" => Len(lister.seen) = Len(lister.first)

\* The inductive invariant.
ServiceInv ==
    /\ TypeOK
    /\ CollectorsInStep
    /\ StateSaved
    /\ StatePosted
    /\ ContentSaved
    /\ StaleCounted
    /\ PagesSoFar

--------------------------------------------------------------------------------
(* Types.                                                                     *)

\* The plans TLC or a reader chooses are plans.
LEMMA PlanTyped == ASSUME plan \in Plans PROVE plan \in PlanType
BY TaskServiceAssumption

\* The tasks that match a query are a sequence of tasks.
LEMMA MatchingTyped ==
    ASSUME TypeOK
    PROVE  Matching \in Seq(TaskIds)
<1>1. Matching = Kept(order, {id \in DOMAIN tasks :
           \/ plan.backend = "sql"
           \/ plan.request.status \in {"any", tasks[id].state}})
  BY DEF Matching
<1> QED
  BY <1>1, KeptProperties DEF TypeOK

\* A page size is a natural number.
LEMMA PageSizeTyped == TypeOK => PageSize(plan.request.size) \in Nat
<1> SUFFICES ASSUME TypeOK PROVE PageSize(plan.request.size) \in Nat
  OBVIOUS
<1>1. plan.request.size \in Int \union {NoSize}
  BY PlanTyped DEF TypeOK, PlanType, Request
<1> QED
  BY <1>1, TaskServiceAssumption DEF PageSize

\* A page is a part of the list that begins after the offset.
LEMMA PageProperties ==
    ASSUME TypeOK
    PROVE  LET page == Page(lister.offset) IN
           /\ page \in Seq(TaskIds) /\ Len(page) \in Nat
           /\ plan.backend = "sql" => page = Matching
           /\ plan.backend # "sql" =>
                /\ Len(page) > 0 => lister.offset + Len(page) <= Len(Matching)
                /\ \A i \in 1..Len(page) : page[i] = Matching[lister.offset + i]
<1> DEFINE page == Page(lister.offset)
           last == lister.offset + PageSize(plan.request.size)
           upto == IF last < Len(Matching) THEN last ELSE Len(Matching)
<1>1. Matching \in Seq(TaskIds) /\ Len(Matching) \in Nat
  BY MatchingTyped
<1>2. lister.offset \in Nat /\ PageSize(plan.request.size) \in Nat
  BY PageSizeTyped DEF TypeOK, ListerState
<1>3. CASE plan.backend = "sql"
  BY <1>1, <1>3 DEF Page
<1>4. CASE plan.backend # "sql"
  <2>1. page = SubSeq(Matching, lister.offset + 1, upto)
    BY <1>4 DEF Page
  <2>2. upto \in Nat /\ upto <= Len(Matching)
    BY <1>1, <1>2
  <2> HIDE DEF upto
  <2>3. \A i \in lister.offset + 1..upto : Matching[i] \in TaskIds
    BY <1>1, <1>2, <2>2
  <2>4. /\ page \in Seq(TaskIds)
        /\ Len(page) = IF lister.offset + 1 <= upto THEN upto - lister.offset ELSE 0
        /\ \A i \in 1..upto - lister.offset : page[i] = Matching[lister.offset + i]
    BY <1>2, <2>1, <2>2, <2>3
  <2> HIDE DEF page
  <2> QED
    BY <1>2, <1>4, <2>2, <2>4 DEF page
<1> QED
  BY <1>3, <1>4

\* The orders a store lists its tasks in are sequences of tasks.
LEMMA OrdersTyped ==
    ASSUME NEW ids \in SUBSET TaskIds
    PROVE  SetToSeqs(ids) \subseteq Seq(TaskIds)
<1>1. Cardinality(ids) \in Nat
  BY FiniteAssumption, FS_Subset, FS_CardinalityType
<1>2. [1..Cardinality(ids) -> ids] \subseteq Seq(TaskIds)
  BY <1>1
<1> QED
  BY <1>2 DEF SetToSeqs

\* Storing a task.
LEMMA StoreTyped ==
    ASSUME TypeOK, NEW id \in TaskIds, NEW body \in Body, Store(id, body)
    PROVE  /\ tasks' \in UNION {[ids -> Body] : ids \in SUBSET TaskIds}
           /\ order' \in Seq(TaskIds)
           /\ id \in DOMAIN tasks' /\ tasks'[id] = body
<1>1. PICK ids \in SUBSET TaskIds : tasks \in [ids -> Body]
  BY DEF TypeOK
<1>2. tasks' = [i \in ids \union {id} |-> IF i = id THEN body ELSE tasks[i]]
  BY <1>1 DEF Store
<1>3. tasks' \in [ids \union {id} -> Body] /\ ids \union {id} \in SUBSET TaskIds
  BY <1>1, <1>2
<1>4. order' \in Seq(TaskIds)
  <2>1. order' = order \/ order' \in SetToSeqs(ids \union {id})
    BY <1>1 DEF Store
  <2> QED
    BY <1>3, <2>1, OrdersTyped DEF TypeOK
<1> QED
  BY <1>2, <1>3, <1>4

\* The types hold at the start.
LEMMA InitTypes == Init => TypeOK
<1> SUFFICES ASSUME Init PROVE TypeOK
  OBVIOUS
<1>1. plan \in Plans /\ plan \in PlanType
  BY PlanTyped DEF Init
<1>2. PICK ids \in SUBSET TaskIds : plan.tasks \in [ids -> Body]
  BY <1>1 DEF PlanType
<1>3. order \in Seq(TaskIds)
  BY <1>2, OrdersTyped DEF Init
<1>4. collector \in [Collectors -> CollectorState]
  BY <1>1 DEF Init, PlanType, CollectorState
<1>5. caller \in [Callers -> CallerState]
  BY DEF Init, CallerState
<1>6. lister \in ListerState
  BY DEF Init, ListerState
<1>7. configs \in SUBSET ConfigIds /\ touched \in SUBSET ConfigIds /\ faults \in Nat
  BY <1>1 DEF Init, PlanType
<1>8. posted \in [ConfigIds -> States \union {Nothing}] /\ stale \in [ConfigIds -> Nat]
  BY DEF Init
<1> QED
  BY <1>1, <1>2, <1>3, <1>4, <1>5, <1>6, <1>7, <1>8 DEF TypeOK, Init

\* What a collector that has not finished is at.
LEMMA AtEvent ==
    ASSUME TypeOK, CollectorsInStep, NEW p \in Collectors, collector[p].left # <<>>
    PROVE  LET c == collector[p] IN
           /\ p \in plan.collecting
           /\ Head(c.left) = c.left[1] /\ c.left[1] \in Event
           /\ Tail(c.left) \in Seq(Event)
           /\ Len(c.left) \in Nat \ {0} /\ Len(Tail(c.left)) = Len(c.left) - 1
           /\ \A i \in 1..Len(c.left) - 1 : Tail(c.left)[i] = c.left[i + 1]
<1>1. collector[p].left \in Seq(Event)
  BY DEF TypeOK, CollectorState
<1>2. p \in plan.collecting
  BY DEF CollectorsInStep, InStep
<1> QED
  BY <1>1, <1>2, TailOf

\* What a step of collector p writes is its own record.
LEMMA Moved ==
    ASSUME TypeOK, NEW p \in Collectors, NEW new, Moves(p, new)
    PROVE  /\ collector' = [q \in Collectors |-> IF q = p THEN new ELSE collector[q]]
           /\ new \in CollectorState => collector' \in [Collectors -> CollectorState]
BY DEF TypeOK, Moves

\* A collector keeps the types.
LEMMA CollectorTypes ==
    ASSUME TypeOK, CollectorsInStep, NEW p \in Collectors, CollectorStep(p)
    PROVE  TypeOK'
<1> DEFINE c == collector[p]
<1>1. c \in CollectorState /\ InStep(p)
  BY DEF TypeOK, CollectorsInStep
<1>2. c.pc # "recv" \/ c.left # <<>>
  BY DEF CollectorStep, Receive, ReadTask, SaveTask, ListTargets, Post, PostsEnd, At
<1>3. c.left # <<>>
  BY <1>1, <1>2 DEF InStep
<1>4. /\ Head(c.left) = c.left[1] /\ c.left[1] \in Event /\ Tail(c.left) \in Seq(Event)
  BY <1>3, AtEvent
<1>5. NextEvent(p) => collector' \in [Collectors -> CollectorState]
  <2>1. [left |-> Tail(c.left), pc |-> "recv", task |-> Nothing, targets |-> {}]
          \in CollectorState
    BY <1>4 DEF CollectorState
  <2> QED
    BY <2>1, Moved DEF NextEvent
<1>6. CASE Receive(p)
  <2> DEFINE e == c.left[1]
             saves == [c EXCEPT !.pc = "save",
                          !.task = [state |-> e.state, content |-> e.content]]
             reads == [c EXCEPT !.pc = "read"]
  <2>1. saves \in CollectorState /\ reads \in CollectorState
    BY <1>1, <1>4 DEF CollectorState, Event, Body
  <2>2. collector' \in [Collectors -> CollectorState]
    <3>1. Moves(p, IF e.kind = "task" THEN saves ELSE reads)
      BY <1>4, <1>6 DEF Receive
    <3> HIDE DEF saves, reads
    <3> QED
      BY <2>1, <3>1, Moved
  <2> QED
    BY <1>6, <2>2 DEF Receive, TypeOK, pushVars, storeVars
<1>7. CASE ReadTask(p)
  <2>1. collector' \in [Collectors -> CollectorState]
    <3>1. CASE NoSuchTask(p)
      BY <1>5, <3>1 DEF NoSuchTask
    <3>2. CASE /\ Collected \in DOMAIN tasks
               /\ Moves(p, [c EXCEPT !.pc = "save",
                               !.task = Updated(tasks[Collected], Head(c.left))])
      <4>1. tasks[Collected] \in Body
        BY <3>2 DEF TypeOK
      <4>2. Updated(tasks[Collected], Head(c.left)) \in Body
        BY <1>4, <4>1 DEF Updated, Event, Body
      <4>3. [c EXCEPT !.pc = "save", !.task = Updated(tasks[Collected], Head(c.left))]
              \in CollectorState
        BY <1>1, <4>2 DEF CollectorState
      <4> QED
        BY <3>2, <4>3, Moved
    <3> QED
      BY <1>7, <3>1, <3>2 DEF ReadTask
  <2>2. faults' \in Nat
    BY <1>7 DEF ReadTask, Fault, NoFault, TypeOK
  <2> QED
    BY <1>7, <2>1, <2>2 DEF ReadTask, TypeOK, pushVars, storeVars
<1>8. CASE SaveTask(p)
  <2>1. c.task \in Body /\ Collected \in TaskIds
    BY <1>1, <1>8, TaskServiceAssumption DEF InStep, SaveTask, At
  <2>2. /\ tasks' \in UNION {[ids -> Body] : ids \in SUBSET TaskIds}
        /\ order' \in Seq(TaskIds)
    <3>1. CASE Store(Collected, c.task)
      BY <2>1, <3>1, StoreTyped
    <3>2. CASE UNCHANGED storeVars
      BY <3>2 DEF TypeOK, storeVars
    <3> QED
      BY <1>8, <3>1, <3>2 DEF SaveTask
  <2>3. [c EXCEPT !.pc = "list"] \in CollectorState
    BY <1>1 DEF CollectorState
  <2>4. collector' \in [Collectors -> CollectorState]
    BY <1>8, <2>3, Moved DEF SaveTask
  <2>5. faults' \in Nat
    BY <1>8 DEF SaveTask, Fault, NoFault, TypeOK
  <2> QED
    BY <1>8, <2>2, <2>4, <2>5 DEF SaveTask, TypeOK, pushVars
<1>9. CASE ListTargets(p)
  <2>1. [c EXCEPT !.pc = "post", !.targets = Targets(p)] \in CollectorState
    BY <1>1 DEF CollectorState, Targets, TypeOK
  <2>2. collector' \in [Collectors -> CollectorState]
    <3>1. CASE Moves(p, [c EXCEPT !.pc = "post", !.targets = Targets(p)])
      BY <2>1, <3>1, Moved
    <3>2. CASE NextEvent(p)
      BY <1>5, <3>2
    <3> QED
      BY <1>9, <3>1, <3>2 DEF ListTargets
  <2>3. faults' \in Nat
    BY <1>9 DEF ListTargets, Fault, NoFault, TypeOK
  <2> QED
    BY <1>9, <2>2, <2>3 DEF ListTargets, TypeOK, pushVars, storeVars
<1>10. CASE Post(p)
  <2>1. PICK k \in c.targets :
          /\ Moves(p, [c EXCEPT !.targets = @ \ {k}])
          /\ \/ /\ posted' = [posted EXCEPT ![k] = Posted(p).state]
                /\ stale' = [stale EXCEPT ![k] = IF k \in configs THEN 0 ELSE @ + 1]
                /\ NoFault
             \/ Fault /\ UNCHANGED <<posted, stale>>
    BY <1>10 DEF Post
  <2>2. k \in ConfigIds /\ [c EXCEPT !.targets = @ \ {k}] \in CollectorState
    BY <1>1 DEF CollectorState
  <2>3. collector' \in [Collectors -> CollectorState]
    BY <2>1, <2>2, Moved
  <2>4. Posted(p).state \in States
    BY <1>1, <1>10 DEF Posted, InStep, Post, At, Body
  <2>5. /\ posted' \in [ConfigIds -> States \union {Nothing}]
        /\ stale' \in [ConfigIds -> Nat]
        /\ faults' \in Nat
    BY <2>1, <2>2, <2>4 DEF Fault, NoFault, TypeOK
  <2> QED
    BY <1>10, <2>3, <2>5 DEF Post, TypeOK, storeVars
<1>11. CASE PostsEnd(p)
  BY <1>5, <1>11 DEF PostsEnd, TypeOK, pushVars, storeVars
<1> QED
  BY <1>6, <1>7, <1>8, <1>9, <1>10, <1>11 DEF CollectorStep

\* So does every other step.
LEMMA StepTypes ==
    ASSUME TypeOK, CollectorsInStep, Next
    PROVE  TypeOK'
<1>1. ASSUME NEW r \in Callers, CheckTask(r) \/ SaveConfig(r) \/ DeleteConfig(r)
      PROVE  TypeOK'
  <2>1. ASSUME NEW pc \in {"done", "act"},
               NEW answer \in {Nothing, "ok", "InvalidParams", "TaskNotFound"},
               Calls(r, pc, answer)
        PROVE  caller' \in [Callers -> CallerState]
    <3>1. [pc |-> pc, answer |-> answer] \in CallerState
      BY DEF CallerState
    <3> QED
      BY <2>1, <3>1 DEF Calls, TypeOK
  <2>2. CASE CheckTask(r)
    <3>1. caller' \in [Callers -> CallerState] /\ faults' \in Nat
      BY <2>1, <2>2 DEF CheckTask, Fault, NoFault, TypeOK
    <3> QED
      BY <2>2, <3>1 DEF CheckTask, TypeOK, pushVars, storeVars
  <2>3. CASE SaveConfig(r)
    <3>1. caller' \in [Callers -> CallerState]
      BY <2>1, <2>3 DEF SaveConfig
    <3>2. /\ configs' \in SUBSET ConfigIds /\ touched' \in SUBSET ConfigIds
          /\ stale' \in [ConfigIds -> Nat]
      <4>1. CASE UNCHANGED <<configs, touched, stale>>
        BY <4>1 DEF TypeOK
      <4>2. ASSUME NEW k \in ConfigIds, configs' = configs \union {k},
                   touched' = touched \union {k}, stale' = [stale EXCEPT ![k] = 0]
            PROVE  /\ configs' \in SUBSET ConfigIds /\ touched' \in SUBSET ConfigIds
                   /\ stale' \in [ConfigIds -> Nat]
        BY <4>2 DEF TypeOK
      <4> QED
        BY <2>3, <4>1, <4>2 DEF SaveConfig
    <3> QED
      BY <2>3, <3>1, <3>2 DEF SaveConfig, TypeOK, storeVars
  <2>4. CASE DeleteConfig(r)
    <3>1. caller' \in [Callers -> CallerState]
      BY <2>1, <2>4 DEF DeleteConfig
    <3>2. plan.calls[r].config \in ConfigIds
      BY <2>4, PlanTyped DEF TypeOK, PlanType, Call, DeleteConfig
    <3>3. configs' \in SUBSET ConfigIds /\ touched' \in SUBSET ConfigIds
      BY <2>4, <3>2 DEF DeleteConfig, TypeOK
    <3> QED
      BY <2>4, <3>1, <3>3 DEF DeleteConfig, TypeOK, storeVars
  <2> QED
    BY <1>1, <2>2, <2>3, <2>4
<1>2. CASE ListPage
  <2>1. /\ Page(lister.offset) \in Seq(TaskIds) /\ Len(Page(lister.offset)) \in Nat
        /\ Matching \in Seq(TaskIds) /\ lister \in ListerState
    BY PageProperties, MatchingTyped DEF TypeOK
  <2>2. lister' \in ListerState
    BY <1>2, <2>1 DEF ListPage, NextOffset, ListerState
  <2> QED
    BY <1>2, <2>2 DEF ListPage, TypeOK, pushVars, storeVars
<1>3. ASSUME NEW id \in TaskIds, OtherTask(id)
      PROVE  TypeOK'
  <2>1. /\ tasks' \in UNION {[ids -> Body] : ids \in SUBSET TaskIds}
        /\ order' \in Seq(TaskIds)
    <3>1. ASSUME NEW body \in Body, Store(id, body)
          PROVE  /\ tasks' \in UNION {[ids -> Body] : ids \in SUBSET TaskIds}
                 /\ order' \in Seq(TaskIds)
      BY <3>1, StoreTyped
    <3>2. ASSUME tasks' = [i \in DOMAIN tasks \ {id} |-> tasks[i]],
                 order' = Kept(order, DOMAIN tasks \ {id})
          PROVE  /\ tasks' \in UNION {[ids -> Body] : ids \in SUBSET TaskIds}
                 /\ order' \in Seq(TaskIds)
      <4>1. PICK ids \in SUBSET TaskIds : tasks \in [ids -> Body]
        BY DEF TypeOK
      <4>2. tasks' \in [ids \ {id} -> Body]
        BY <3>2, <4>1
      <4>3. order' \in Seq(TaskIds)
        BY <3>2, KeptProperties DEF TypeOK
      <4> QED
        BY <4>2, <4>3
    <3> QED
      BY <1>3, <3>1, <3>2 DEF OtherTask
  <2> QED
    BY <1>3, <2>1 DEF OtherTask, TypeOK, pushVars
<1> QED
  BY CollectorTypes, <1>1, <1>2, <1>3 DEF Next

--------------------------------------------------------------------------------
(* The parts of the invariant.                                                *)

\* A collector's step moves that collector alone.
LEMMA Others ==
    ASSUME TypeOK, NEW p \in Collectors, NEW new, Moves(p, new)
    PROVE  collector'[p] = new /\ \A q \in Collectors \ {p} : collector'[q] = collector[q]
BY DEF TypeOK, Moves

\* The other collectors stay in step with their events.
LEMMA OthersInStep ==
    ASSUME NEW p \in Collectors, CollectorsInStep, UNCHANGED plan,
           \A q \in Collectors \ {p} : collector'[q] = collector[q],
           InStep(p)'
    PROVE  CollectorsInStep'
<1>1. ASSUME NEW q \in Collectors \ {p}
      PROVE  InStep(q)'
  <2>1. InStep(q) /\ collector'[q] = collector[q] /\ plan' = plan
    BY DEF CollectorsInStep
  <2>2. PICK c : c = collector[q] /\ c = collector'[q]
    BY <2>1
  <2>3. /\ Len(c.left) <= Len(plan.events)
        /\ \A i \in 1..Len(c.left) : c.left[i] = plan.events[Len(plan.events) - Len(c.left) + i]
    BY <2>1, <2>2 DEF InStep
  <2>4. /\ q \notin plan.collecting => c.left = <<>>
        /\ c.pc # "recv" => c.left # <<>>
        /\ c.pc = "read" => c.left[1].kind = "status"
    BY <2>1, <2>2 DEF InStep
  <2>5. /\ c.pc \in {"save", "list", "post"} =>
            /\ c.task \in Body
            /\ c.task.state = c.left[1].state
            /\ c.left[1].kind = "task" => c.task.content = c.left[1].content
        /\ c.pc # "post" => c.targets = {}
    BY <2>1, <2>2 DEF InStep
  <2> QED
    BY <2>1, <2>2, <2>3, <2>4, <2>5 DEF InStep
<1> QED
  BY <1>1 DEF CollectorsInStep

\* An event dropped is one fewer to go.
LEMMA NextEventInStep ==
    ASSUME TypeOK, CollectorsInStep, NEW p \in Collectors, collector[p].left # <<>>,
           NextEvent(p), UNCHANGED plan
    PROVE  /\ CollectorsInStep'
           /\ \A q \in Collectors \ {p} : collector'[q] = collector[q]
           /\ collector'[p].pc = "recv" /\ collector'[p].targets = {}
           /\ collector'[p].left = Tail(collector[p].left)
           /\ Len(collector'[p].left) = Len(collector[p].left) - 1
           /\ Len(collector[p].left) \in Nat \ {0}
<1> DEFINE c == collector[p]
           new == [left |-> Tail(c.left), pc |-> "recv", task |-> Nothing, targets |-> {}]
<1>1. /\ p \in plan.collecting
      /\ c.left \in Seq(Event)
      /\ Tail(c.left) \in Seq(Event)
      /\ Len(c.left) \in Nat \ {0} /\ Len(Tail(c.left)) = Len(c.left) - 1
      /\ \A i \in 1..Len(c.left) - 1 : Tail(c.left)[i] = c.left[i + 1]
  BY AtEvent DEF TypeOK, CollectorState
<1>2. collector'[p] = new /\ \A q \in Collectors \ {p} : collector'[q] = collector[q]
  BY Others DEF NextEvent
<1>3. /\ Len(c.left) <= Len(plan.events)
      /\ \A i \in 1..Len(c.left) : c.left[i] = plan.events[Len(plan.events) - Len(c.left) + i]
  BY DEF CollectorsInStep, InStep
<1>4. Len(plan.events) \in Nat
  BY PlanTyped DEF TypeOK, PlanType
<1>5. \A i \in 1..Len(c.left) - 1 :
        Tail(c.left)[i] = plan.events[Len(plan.events) - (Len(c.left) - 1) + i]
  <2> TAKE i \in 1..Len(c.left) - 1
  <2>1. /\ i + 1 \in 1..Len(c.left)
        /\ Len(plan.events) - Len(c.left) + (i + 1) = Len(plan.events) - (Len(c.left) - 1) + i
    <3>1. \A n, m \in Nat : \A j \in 1..n - 1 :
            j + 1 \in 1..n /\ m - n + (j + 1) = m - (n - 1) + j
      OBVIOUS
    <3> QED
      BY <1>1, <1>4, <3>1
  <2> QED
    BY <1>1, <1>3, <2>1
<1>6. InStep(p)'
  <2>1. /\ new.left = Tail(c.left) /\ new.pc = "recv" /\ new.targets = {}
        /\ collector'[p] = new /\ plan' = plan
    BY <1>2
  <2>2. Len(Tail(c.left)) <= Len(plan.events)
    <3> HIDE DEF c
    <3> QED
      BY <1>1, <1>3, <1>4
  <2> HIDE DEF new, c
  <2> QED
    BY <1>1, <1>5, <2>1, <2>2 DEF InStep
<1> QED
  BY <1>1, <1>2, <1>6, OthersInStep

\* Nobody's notification targets change.
LEMMA StaleSame ==
    ASSUME StaleCounted, UNCHANGED <<plan, configs, stale>>,
           \A q \in Collectors : collector'[q].targets = collector[q].targets
    PROVE  StaleCounted'
<1>1. \A k \in ConfigIds : Holders(k)' = Holders(k)
  BY DEF Holders
<1> QED
  BY <1>1 DEF StaleCounted

\* A collector that is not through its events has not made its last save, nor
\* its last posts, before it gets to them.
LEMMA NotLast ==
    ASSUME NEW p \in plan.collecting, collector[p].left # <<>>
    PROVE  /\ collector[p].pc \notin {"list", "post"} => ~SavedLast(p)
           /\ collector[p].pc # "post" => \A k : ~PostedLast(p, k)
BY DEF SavedLast, PostedLast

\* With one collector, the one that steps is it.
LEMMA OnlyCollector ==
    ASSUME TypeOK, CollectorsInStep, NEW p \in Collectors, collector[p].left # <<>>,
           NEW q \in Collectors, plan.collecting = {q}
    PROVE  q = p
BY DEF CollectorsInStep, InStep

\* Receiving an event keeps everything about the collectors.
LEMMA ReceiveKeeps ==
    ASSUME ServiceInv, NEW p \in Collectors, Receive(p)
    PROVE  /\ CollectorsInStep' /\ StateSaved' /\ StatePosted' /\ ContentSaved'
           /\ StaleCounted'
<1> USE DEF ServiceInv
<1> DEFINE c == collector[p]
           d == collector'[p]
<1>1. /\ p \in plan.collecting /\ c.pc = "recv" /\ c.left # <<>> /\ c.targets = {}
      /\ c \in CollectorState /\ Head(c.left) = c.left[1] /\ c.left[1] \in Event
      /\ UNCHANGED <<plan, configs, touched, tasks, posted, stale, faults>>
  <2>1. c.pc = "recv" /\ c.left # <<>>
    BY DEF Receive, At
  <2> QED
    BY <2>1, AtEvent DEF Receive, pushVars, storeVars, TypeOK, CollectorsInStep, InStep
<1>2. /\ \A q \in Collectors \ {p} : collector'[q] = collector[q]
      /\ d.left = c.left /\ d.targets = {}
      /\ \/ /\ d.pc = "save" /\ c.left[1].kind = "task"
            /\ d.task = [state |-> c.left[1].state, content |-> c.left[1].content]
         \/ d.pc = "read" /\ c.left[1].kind = "status"
  <2> DEFINE e == c.left[1]
             saves == [c EXCEPT !.pc = "save",
                          !.task = [state |-> e.state, content |-> e.content]]
             reads == [c EXCEPT !.pc = "read"]
  <2>1. /\ saves.left = c.left /\ saves.targets = {} /\ saves.pc = "save"
        /\ saves.task = [state |-> e.state, content |-> e.content]
        /\ reads.left = c.left /\ reads.targets = {} /\ reads.pc = "read"
    BY <1>1 DEF CollectorState
  <2>2. Moves(p, IF e.kind = "task" THEN saves ELSE reads)
    BY <1>1 DEF Receive
  <2>3. e.kind \in {"task", "status"}
    BY <1>1 DEF Event
  <2> HIDE DEF saves, reads
  <2> QED
    BY <2>1, <2>2, <2>3, Others
<1> HIDE DEF d
<1>3. CollectorsInStep'
  <2>1. d.task = [state |-> c.left[1].state, content |-> c.left[1].content] =>
          d.task \in Body /\ d.task.state = c.left[1].state
            /\ d.task.content = c.left[1].content
    BY <1>1 DEF Event, Body
  <2>2. PICK l : l = c.left /\ l = d.left
    BY <1>2
  <2>3. /\ Len(l) <= Len(plan.events)
        /\ \A i \in 1..Len(l) : l[i] = plan.events[Len(plan.events) - Len(l) + i]
    BY <2>2 DEF CollectorsInStep, InStep
  <2>4. InStep(p)'
    BY <1>1, <1>2, <2>1, <2>2, <2>3 DEF InStep, d
  <2> QED
    BY <1>1, <1>2, <2>4, OthersInStep
<1>4. StateSaved' /\ StatePosted'
  <2>1. (~SavedLast(p) /\ \A k : ~PostedLast(p, k))'
    BY <1>1, <1>2 DEF d, SavedLast, PostedLast
  <2>2. Undisturbed' <=> Undisturbed
    BY <1>1 DEF Undisturbed
  <2> QED
    BY <1>1, <2>1, <2>2 DEF StateSaved, StatePosted
<1>5. ContentSaved'
  <2> SUFFICES ASSUME NEW q \in Collectors, Undisturbed', plan'.collecting = {q}
               PROVE  /\ q = p
                      /\ LastIsStored(Saved(p))'
                      /\ (d.pc = "save" /\ d.left[1].kind = "status") =>
                            d.task.content = tasks'[Collected].content
    BY DEF ContentSaved, d
  <2>1. q = p /\ Undisturbed
    BY <1>1, OnlyCollector DEF Undisturbed
  <2>2. Saved(p)' = Saved(p)
    BY <1>1, <1>2 DEF Saved, d
  <2>3. LastIsStored(Saved(p))
    BY <1>1, <2>1 DEF ContentSaved
  <2> QED
    BY <1>1, <1>2, <2>1, <2>2, <2>3 DEF LastIsStored, LastAmong, ContentOf
<1>6. StaleCounted'
  <2>1. \A q \in Collectors : collector'[q].targets = collector[q].targets
    BY <1>1, <1>2 DEF d
  <2> QED
    BY <1>1, <2>1, StaleSame
<1> QED
  BY <1>3, <1>4, <1>5, <1>6

\* A collector still at the same event.
LEMMA SameEventInStep ==
    ASSUME ServiceInv, NEW p \in Collectors, UNCHANGED plan,
           \A q \in Collectors \ {p} : collector'[q] = collector[q],
           collector'[p].left = collector[p].left, collector[p].left # <<>>,
           collector'[p].pc \in {"save", "list", "post"},
           collector'[p].task \in Body,
           collector'[p].task.state = collector[p].left[1].state,
           collector[p].left[1].kind = "task" =>
             collector'[p].task.content = collector[p].left[1].content,
           collector'[p].pc # "post" => collector'[p].targets = {}
    PROVE  CollectorsInStep'
<1>1. PICK l : l = collector[p].left /\ l = collector'[p].left
  OBVIOUS
<1>2. /\ Len(l) <= Len(plan.events)
      /\ \A i \in 1..Len(l) : l[i] = plan.events[Len(plan.events) - Len(l) + i]
  <2>1. InStep(p)
    BY DEF ServiceInv, CollectorsInStep
  <2> QED
    BY <1>1, <2>1 DEF InStep
<1>0. p \in plan.collecting
  BY AtEvent DEF ServiceInv
<1>3. InStep(p)'
  BY <1>0, <1>1, <1>2 DEF InStep
<1> QED
  BY <1>3, OthersInStep DEF ServiceInv

\* So does reading the task,
LEMMA ReadTaskKeeps ==
    ASSUME ServiceInv, NEW p \in Collectors, ReadTask(p)
    PROVE  /\ CollectorsInStep' /\ StateSaved' /\ StatePosted' /\ ContentSaved'
           /\ StaleCounted'
<1> USE DEF ServiceInv
<1> DEFINE c == collector[p]
           d == collector'[p]
<1>1. /\ p \in plan.collecting /\ c.pc = "read" /\ c.left # <<>> /\ c.targets = {}
      /\ c \in CollectorState /\ Head(c.left) = c.left[1] /\ c.left[1] \in Event
      /\ c.left[1].kind = "status"
      /\ UNCHANGED <<plan, configs, touched, tasks, posted, stale>>
  <2>1. c.pc = "read"
    BY DEF ReadTask, At
  <2>2. c.left # <<>> /\ c.left[1].kind = "status" /\ c.targets = {}
    BY <2>1 DEF CollectorsInStep, InStep
  <2> QED
    BY <2>1, <2>2, AtEvent DEF ReadTask, pushVars, storeVars, TypeOK
<1>2. CASE NoSuchTask(p) /\ ((Collected \notin DOMAIN tasks /\ NoFault) \/ Fault)
  <2>1. /\ CollectorsInStep'
        /\ \A q \in Collectors \ {p} : collector'[q] = collector[q]
        /\ d.pc = "recv" /\ d.targets = {}
    BY <1>1, <1>2, NextEventInStep DEF NoSuchTask
  <2>2. ~Undisturbed'
    <3>1. CASE Fault
      <4>1. faults' # 0
        BY <3>1 DEF Fault, TypeOK
      <4> QED
        BY <4>1 DEF Undisturbed
    <3>2. CASE Collected \notin DOMAIN tasks /\ NoFault
      BY <1>1, <3>2 DEF Undisturbed, NoFault, StateSaved
    <3> QED
      BY <1>2, <3>1, <3>2
  <2>3. StateSaved' /\ StatePosted' /\ ContentSaved'
    BY <1>1, <2>2 DEF StateSaved, StatePosted, ContentSaved
  <2>4. StaleCounted'
    <3>1. \A q \in Collectors : collector'[q].targets = collector[q].targets
      BY <1>1, <2>1
    <3> QED
      BY <1>1, <3>1, StaleSame
  <2> QED
    BY <2>1, <2>3, <2>4
<1>3. CASE /\ Collected \in DOMAIN tasks
           /\ Moves(p, [c EXCEPT !.pc = "save",
                           !.task = Updated(tasks[Collected], Head(c.left))])
           /\ NoFault
  <2>1. tasks[Collected] \in Body /\ UNCHANGED faults
    BY <1>3 DEF TypeOK, NoFault
  <2>2. /\ Updated(tasks[Collected], Head(c.left)) \in Body
        /\ Updated(tasks[Collected], Head(c.left)).state = c.left[1].state
        /\ Updated(tasks[Collected], Head(c.left)).content = tasks[Collected].content
    BY <1>1, <2>1 DEF Updated, Event, Body
  <2>3. /\ \A q \in Collectors \ {p} : collector'[q] = collector[q]
        /\ d.left = c.left /\ d.targets = {} /\ d.pc = "save"
        /\ d.task = Updated(tasks[Collected], Head(c.left))
    <3> DEFINE new == [c EXCEPT !.pc = "save",
                           !.task = Updated(tasks[Collected], Head(c.left))]
    <3>1. /\ new.left = c.left /\ new.targets = {} /\ new.pc = "save"
          /\ new.task = Updated(tasks[Collected], Head(c.left))
      BY <1>1 DEF CollectorState
    <3>2. Moves(p, new)
      BY <1>3
    <3> HIDE DEF new
    <3> QED
      BY <3>1, <3>2, Others
  <2>4. CollectorsInStep'
    BY <1>1, <2>2, <2>3, SameEventInStep
  <2> HIDE DEF d
  <2>5. StateSaved' /\ StatePosted'
    <3>1. (~SavedLast(p) /\ \A k : ~PostedLast(p, k))'
      BY <1>1, <2>3 DEF d, SavedLast, PostedLast
    <3>2. Undisturbed' <=> Undisturbed
      BY <1>1, <2>1 DEF Undisturbed
    <3> QED
      BY <1>1, <3>1, <3>2 DEF StateSaved, StatePosted
  <2>6. ContentSaved'
    <3> SUFFICES ASSUME NEW q \in Collectors, Undisturbed', plan'.collecting = {q}
                 PROVE  /\ q = p
                        /\ LastIsStored(Saved(p))'
                        /\ d.task.content = tasks'[Collected].content
      BY DEF ContentSaved, d
    <3>1. q = p /\ Undisturbed
      BY <1>1, <2>1, OnlyCollector DEF Undisturbed
    <3>2. Saved(p)' = Saved(p)
      BY <1>1, <2>3 DEF Saved, d
    <3>3. LastIsStored(Saved(p))
      BY <1>1, <3>1 DEF ContentSaved
    <3> QED
      BY <1>1, <2>2, <2>3, <3>1, <3>2, <3>3 DEF LastIsStored, LastAmong, ContentOf
  <2>7. StaleCounted'
    <3>1. \A q \in Collectors : collector'[q].targets = collector[q].targets
      BY <1>1, <2>3 DEF d
    <3> QED
      BY <1>1, <3>1, StaleSame
  <2> QED
    BY <2>4, <2>5, <2>6, <2>7
<1> QED
  BY <1>2, <1>3 DEF ReadTask

\* saving it,
LEMMA SaveTaskKeeps ==
    ASSUME ServiceInv, NEW p \in Collectors, SaveTask(p)
    PROVE  /\ CollectorsInStep' /\ StateSaved' /\ StatePosted' /\ ContentSaved'
           /\ StaleCounted'
<1> USE DEF ServiceInv
<1> DEFINE c == collector[p]
           d == collector'[p]
<1>1. /\ p \in plan.collecting /\ c.pc = "save" /\ c.left # <<>> /\ c.targets = {}
      /\ c \in CollectorState /\ c.left[1] \in Event /\ Len(c.left) \in Nat \ {0}
      /\ c.task \in Body /\ c.task.state = c.left[1].state
      /\ c.left[1].kind = "task" => c.task.content = c.left[1].content
      /\ UNCHANGED <<plan, configs, touched, posted, stale>>
  <2>1. c.pc = "save"
    BY DEF SaveTask, At
  <2>2. /\ c.left # <<>> /\ c.targets = {}
        /\ c.task \in Body /\ c.task.state = c.left[1].state
        /\ c.left[1].kind = "task" => c.task.content = c.left[1].content
    BY <2>1 DEF CollectorsInStep, InStep
  <2> QED
    BY <2>1, <2>2, AtEvent DEF SaveTask, pushVars, TypeOK
<1>2. /\ \A q \in Collectors \ {p} : collector'[q] = collector[q]
      /\ d.left = c.left /\ d.targets = {} /\ d.pc = "list" /\ d.task = c.task
  <2> DEFINE new == [c EXCEPT !.pc = "list"]
  <2>1. new.left = c.left /\ new.targets = {} /\ new.pc = "list" /\ new.task = c.task
    BY <1>1 DEF CollectorState
  <2>2. Moves(p, new)
    BY DEF SaveTask
  <2> HIDE DEF new
  <2> QED
    BY <2>1, <2>2, Others
<1>3. CollectorsInStep'
  BY <1>1, <1>2, SameEventInStep
<1>4. StaleCounted'
  <2>1. \A q \in Collectors : collector'[q].targets = collector[q].targets
    BY <1>1, <1>2
  <2> QED
    BY <1>1, <2>1, StaleSame
<1> HIDE DEF d
<1>5. /\ Len(plan.events) \in Nat /\ Len(c.left) <= Len(plan.events)
      /\ c.left[1] = plan.events[Len(plan.events) - Len(c.left) + 1]
  <2>1. Len(plan.events) \in Nat
    BY PlanTyped DEF TypeOK, PlanType
  <2>2. /\ Len(c.left) <= Len(plan.events)
        /\ \A i \in 1..Len(c.left) : c.left[i] = plan.events[Len(plan.events) - Len(c.left) + i]
    BY DEF CollectorsInStep, InStep
  <2>3. 1 \in 1..Len(c.left)
    BY <1>1
  <2> QED
    BY <2>1, <2>2, <2>3
<1>6. CASE Fault /\ UNCHANGED storeVars
  <2>1. ~Undisturbed'
    BY <1>6 DEF Fault, TypeOK, Undisturbed
  <2> QED
    BY <1>1, <1>3, <1>4, <2>1 DEF StateSaved, StatePosted, ContentSaved
<1>7. CASE Store(Collected, c.task) /\ NoFault
  <2>1. Collected \in DOMAIN tasks' /\ tasks'[Collected] = c.task
    BY <1>1, <1>7, StoreTyped, TaskServiceAssumption
  <2>2. Undisturbed' <=> Undisturbed
    BY <1>1, <1>7 DEF Undisturbed, NoFault
  <2>3. StateSaved'
    <3>1. ASSUME SavedLast(p)'
          PROVE  tasks'[Collected].state = FinalState'
      <4>1. Len(c.left) = 1
        BY <1>1, <1>2, <3>1 DEF SavedLast, d
      <4> QED
        BY <1>1, <1>5, <2>1, <4>1 DEF FinalState
    <3> QED
      BY <1>1, <2>1, <2>2, <3>1 DEF StateSaved
  <2>4. StatePosted'
    <3>1. (\A k : ~PostedLast(p, k))'
      BY <1>1, <1>2 DEF d, PostedLast
    <3> QED
      BY <1>1, <2>2, <3>1 DEF StatePosted
  <2>5. ContentSaved'
    <3> SUFFICES ASSUME NEW q \in Collectors, Undisturbed', plan'.collecting = {q}
                 PROVE  q = p /\ LastIsStored(Saved(p))'
      BY <1>2 DEF ContentSaved, d
    <3>1. q = p /\ Undisturbed
      BY <1>1, <2>2, OnlyCollector
    <3>2. PICK n \in Nat : n = Saved(p) /\ n = Len(plan.events) - Len(c.left)
      <4>1. Saved(p) = Len(plan.events) - Len(c.left) + 0
        BY <1>1 DEF Saved
      <4>2. \A m, l \in Nat : l <= m => m - l \in Nat /\ m - l + 0 = m - l
        OBVIOUS
      <4> QED
        BY <1>1, <1>5, <4>1, <4>2
    <3>3. Saved(p)' = n + 1
      BY <1>1, <1>2, <1>5, <3>2 DEF Saved, d
    <3>4. PICK i \in 0..n : LastAmong(i, n) /\ tasks[Collected].content = ContentOf(i)
      BY <1>1, <3>1, <3>2 DEF ContentSaved, LastIsStored
    <3>5. c.left[1] = plan.events[n + 1]
      BY <1>5, <3>2
    <3>6. \E j \in 0..n + 1 : LastAmong(j, n + 1) /\ c.task.content = ContentOf(j)
      <4>1. CASE c.left[1].kind = "task"
        <5>1. LastAmong(n + 1, n + 1) /\ c.task.content = ContentOf(n + 1)
          BY <1>1, <3>5, <4>1 DEF LastAmong, ContentOf
        <5> QED
          BY <5>1
      <4>2. CASE c.left[1].kind = "status"
        <5>1. c.task.content = tasks[Collected].content
          BY <1>1, <3>1, <4>2 DEF ContentSaved
        <5>2. LastAmong(i, n + 1)
          BY <3>4, <3>5, <4>2 DEF LastAmong
        <5> QED
          BY <3>4, <5>1, <5>2
      <4> QED
        BY <1>1, <4>1, <4>2 DEF Event
    <3>7. LastIsStored(Saved(p))'
      BY <1>1, <2>1, <3>3, <3>6 DEF LastIsStored, LastAmong, ContentOf
    <3> QED
      BY <3>1, <3>7
  <2> QED
    BY <1>3, <1>4, <2>3, <2>4, <2>5
<1> QED
  BY <1>6, <1>7 DEF SaveTask

\* listing the push targets, when the listing succeeds
LEMMA TargetsListed ==
    ASSUME ServiceInv, NEW p \in Collectors, ListTargets(p),
           Moves(p, [collector[p] EXCEPT !.pc = "post", !.targets = Targets(p)]),
           NoFault
    PROVE  /\ CollectorsInStep' /\ StateSaved' /\ StatePosted' /\ ContentSaved'
           /\ StaleCounted'
<1> USE DEF ServiceInv
<1> DEFINE c == collector[p]
           d == collector'[p]
<1>1. /\ p \in plan.collecting /\ c.pc = "list" /\ c.left # <<>> /\ c.targets = {}
      /\ c \in CollectorState /\ c.left[1] \in Event
      /\ c.task \in Body /\ c.task.state = c.left[1].state
      /\ c.left[1].kind = "task" => c.task.content = c.left[1].content
      /\ UNCHANGED <<plan, configs, touched, tasks, posted, stale, faults>>
  <2>1. c.pc = "list"
    BY DEF ListTargets, At
  <2>2. /\ c.left # <<>> /\ c.targets = {}
        /\ c.task \in Body /\ c.task.state = c.left[1].state
        /\ c.left[1].kind = "task" => c.task.content = c.left[1].content
    BY <2>1 DEF CollectorsInStep, InStep
  <2> QED
    BY <2>1, <2>2, AtEvent DEF ListTargets, NoFault, pushVars, storeVars, TypeOK
<1>2. /\ \A q \in Collectors \ {p} : collector'[q] = collector[q]
      /\ d.left = c.left /\ d.targets = configs /\ d.pc = "post" /\ d.task = c.task
  <2> DEFINE new == [c EXCEPT !.pc = "post", !.targets = Targets(p)]
  <2>1. new.left = c.left /\ new.targets = configs /\ new.pc = "post" /\ new.task = c.task
    BY <1>1 DEF CollectorState, Targets
  <2>2. Moves(p, new)
    OBVIOUS
  <2> HIDE DEF new
  <2> QED
    BY <2>1, <2>2, Others
<1>3. CollectorsInStep'
  BY <1>1, <1>2, SameEventInStep
<1> HIDE DEF d
<1>4. Undisturbed' <=> Undisturbed
  BY <1>1 DEF Undisturbed
<1>5. StateSaved'
  <2>1. SavedLast(p)' => SavedLast(p)
    BY <1>1, <1>2 DEF SavedLast, d
  <2>2. \A q \in plan.collecting : SavedLast(q)' => SavedLast(q)
    BY <1>2, <2>1, PlanTyped DEF SavedLast, TypeOK, PlanType
  <2> QED
    BY <1>1, <1>4, <2>2 DEF StateSaved, FinalState
<1>6. StatePosted'
  <2>1. \A k \in configs : ~PostedLast(p, k)'
    BY <1>1, <1>2 DEF PostedLast, d
  <2> QED
    BY <1>1, <2>1 DEF StatePosted
<1>7. ContentSaved'
  <2> SUFFICES ASSUME NEW q \in Collectors, Undisturbed', plan'.collecting = {q}
               PROVE  q = p /\ LastIsStored(Saved(p))'
    BY <1>2 DEF ContentSaved, d
  <2>1. q = p /\ Undisturbed
    BY <1>1, <1>4, OnlyCollector
  <2>2. Saved(p)' = Saved(p)
    BY <1>1, <1>2 DEF Saved, d
  <2>3. LastIsStored(Saved(p))
    BY <1>1, <2>1 DEF ContentSaved
  <2> QED
    BY <1>1, <2>1, <2>2, <2>3 DEF LastIsStored, LastAmong, ContentOf
<1>8. StaleCounted'
  <2>1. ASSUME NEW k \in ConfigIds, k \notin configs
        PROVE  Holders(k)' = Holders(k)
    BY <1>1, <1>2, <2>1 DEF Holders, d
  <2> QED
    BY <1>1, <2>1 DEF StaleCounted
<1> QED
  BY <1>3, <1>5, <1>6, <1>7, <1>8

\* and when it fails,
LEMMA ListTargetsKeeps ==
    ASSUME ServiceInv, NEW p \in Collectors, ListTargets(p)
    PROVE  /\ CollectorsInStep' /\ StateSaved' /\ StatePosted' /\ ContentSaved'
           /\ StaleCounted'
<1> USE DEF ServiceInv
<1>1. CASE /\ Moves(p, [collector[p] EXCEPT !.pc = "post", !.targets = Targets(p)])
           /\ NoFault
  BY <1>1, TargetsListed
<1>2. CASE Fault /\ NextEvent(p)
  <2>1. /\ collector[p].pc = "list"
        /\ UNCHANGED <<plan, configs, touched, tasks, posted, stale>>
    BY DEF ListTargets, At, pushVars, storeVars
  <2>2. collector[p].left # <<>> /\ collector[p].targets = {}
    BY <2>1 DEF CollectorsInStep, InStep
  <2>3. /\ CollectorsInStep'
        /\ \A q \in Collectors \ {p} : collector'[q] = collector[q]
        /\ collector'[p].targets = {}
    BY <1>2, <2>1, <2>2, NextEventInStep
  <2>4. ~Undisturbed'
    <3>1. faults' # 0
      BY <1>2 DEF Fault, TypeOK
    <3> QED
      BY <3>1 DEF Undisturbed
  <2>5. StateSaved' /\ StatePosted' /\ ContentSaved'
    BY <2>1, <2>4 DEF StateSaved, StatePosted, ContentSaved
  <2>6. StaleCounted'
    <3>1. \A q \in Collectors : collector'[q].targets = collector[q].targets
      BY <2>2, <2>3
    <3> QED
      BY <2>1, <3>1, StaleSame
  <2> QED
    BY <2>3, <2>5, <2>6
<1> QED
  BY <1>1, <1>2 DEF ListTargets

\* Configurations are posted to by collectors that are not through their events.
LEMMA HoldersFinite ==
    ASSUME ServiceInv, NEW k
    PROVE  /\ IsFiniteSet(Holders(k)) /\ IsFiniteSet(plan.collecting)
           /\ Cardinality(Holders(k)) \in Nat /\ Cardinality(plan.collecting) \in Nat
           /\ Cardinality(Holders(k)) <= Cardinality(plan.collecting)
<1>1. plan.collecting \in SUBSET Collectors
  BY PlanTyped DEF ServiceInv, TypeOK, PlanType
<1>2. Holders(k) \subseteq plan.collecting
  <2> SUFFICES ASSUME NEW p \in Holders(k)
               PROVE  p \in plan.collecting
    OBVIOUS
  <2>1. p \in Collectors /\ InStep(p) /\ k \in collector[p].targets
    BY DEF Holders, ServiceInv, CollectorsInStep
  <2> QED
    BY <2>1 DEF InStep
<1>3. IsFiniteSet(plan.collecting)
  BY <1>1, FiniteAssumption, FS_Subset
<1> QED
  BY <1>2, <1>3, FS_Subset, FS_CardinalityType

\* posting to one of them,
LEMMA PostKeeps ==
    ASSUME ServiceInv, NEW p \in Collectors, Post(p)
    PROVE  /\ CollectorsInStep' /\ StateSaved' /\ StatePosted' /\ ContentSaved'
           /\ StaleCounted'
<1> USE DEF ServiceInv
<1> DEFINE c == collector[p]
           d == collector'[p]
<1>1. /\ p \in plan.collecting /\ c.pc = "post" /\ c.left # <<>>
      /\ c \in CollectorState /\ c.left[1] \in Event
      /\ c.task \in Body /\ c.task.state = c.left[1].state
      /\ c.left[1].kind = "task" => c.task.content = c.left[1].content
      /\ UNCHANGED <<plan, configs, touched, tasks>>
  <2>1. c.pc = "post"
    BY DEF Post, At
  <2>2. /\ c.left # <<>>
        /\ c.task \in Body /\ c.task.state = c.left[1].state
        /\ c.left[1].kind = "task" => c.task.content = c.left[1].content
    BY <2>1 DEF CollectorsInStep, InStep
  <2> QED
    BY <2>1, <2>2, AtEvent DEF Post, storeVars, TypeOK
<1>2. PICK k \in c.targets :
        /\ Moves(p, [c EXCEPT !.targets = @ \ {k}])
        /\ \/ /\ posted' = [posted EXCEPT ![k] = Posted(p).state]
              /\ stale' = [stale EXCEPT ![k] = IF k \in configs THEN 0 ELSE @ + 1]
              /\ NoFault
           \/ Fault /\ UNCHANGED <<posted, stale>>
  BY DEF Post
<1>3. /\ k \in ConfigIds
      /\ \A q \in Collectors \ {p} : collector'[q] = collector[q]
      /\ d.left = c.left /\ d.targets = c.targets \ {k} /\ d.pc = "post" /\ d.task = c.task
  <2> DEFINE new == [c EXCEPT !.targets = @ \ {k}]
  <2>1. /\ new.left = c.left /\ new.targets = c.targets \ {k}
        /\ new.pc = "post" /\ new.task = c.task /\ k \in ConfigIds
    BY <1>1 DEF CollectorState
  <2>2. Moves(p, new)
    BY <1>2
  <2> HIDE DEF new
  <2> QED
    BY <2>1, <2>2, Others
<1>4. CollectorsInStep'
  BY <1>1, <1>3, SameEventInStep
<1> HIDE DEF d
<1>5. StaleCounted'
  <2> SUFFICES ASSUME NEW j \in ConfigIds
               PROVE  IF j \in configs THEN stale'[j] = 0
                      ELSE stale'[j] + Cardinality(Holders(j)') <= Cardinality(plan.collecting)
    BY <1>1 DEF StaleCounted
  <2>1. stale \in [ConfigIds -> Nat]
    BY DEF TypeOK
  <2>2. CASE j \in configs
    BY <1>2, <1>3, <2>1, <2>2 DEF StaleCounted
  <2>3. CASE j \notin configs /\ j # k
    <3>1. Holders(j)' = Holders(j)
      BY <1>1, <1>3, <2>3 DEF Holders, d
    <3>2. stale'[j] = stale[j]
      BY <1>2, <1>3, <2>1, <2>3
    <3> QED
      BY <2>3, <3>1, <3>2 DEF StaleCounted
  <2>4. CASE j \notin configs /\ j = k
    <3>1. Holders(k)' = Holders(k) \ {p} /\ p \in Holders(k)
      BY <1>1, <1>2, <1>3 DEF Holders, d
    <3>2. /\ Cardinality(Holders(k)') = Cardinality(Holders(k)) - 1
          /\ Cardinality(Holders(k)) \in Nat /\ Cardinality(plan.collecting) \in Nat
      BY <3>1, HoldersFinite, FS_RemoveElement
    <3>3. stale'[k] \in {stale[k], stale[k] + 1} /\ stale[k] \in Nat
      BY <1>2, <1>3, <2>1, <2>4
    <3>4. stale[k] + Cardinality(Holders(k)) <= Cardinality(plan.collecting)
      BY <1>3, <2>4 DEF StaleCounted
    <3> QED
      BY <2>4, <3>2, <3>3, <3>4
  <2> QED
    BY <2>2, <2>3, <2>4
<1>6. CASE Fault
  <2>1. ~Undisturbed'
    BY <1>6 DEF Fault, TypeOK, Undisturbed
  <2> QED
    BY <1>1, <1>4, <1>5, <2>1 DEF StateSaved, StatePosted, ContentSaved
<1>7. CASE /\ posted' = [posted EXCEPT ![k] = Posted(p).state]
           /\ NoFault
  <2>1. Undisturbed' <=> Undisturbed
    BY <1>1, <1>7 DEF Undisturbed, NoFault
  <2>2. StateSaved'
    <3>1. SavedLast(p)' => SavedLast(p)
      BY <1>1, <1>3 DEF SavedLast, d
    <3>2. \A q \in plan.collecting : SavedLast(q)' => SavedLast(q)
      BY <1>3, <3>1, PlanTyped DEF SavedLast, TypeOK, PlanType
    <3> QED
      BY <1>1, <2>1, <3>2 DEF StateSaved, FinalState
  <2>3. StatePosted'
    <3> SUFFICES ASSUME NEW j \in plan.configs \ touched, Undisturbed,
                        \A q \in plan.collecting : PostedLast(q, j)'
                 PROVE  posted'[j] = FinalState
      BY <1>1, <2>1 DEF StatePosted, FinalState
    <3>1. j \in ConfigIds /\ posted \in [ConfigIds -> States \union {Nothing}]
      BY PlanTyped DEF TypeOK, PlanType
    <3>2. Len(c.left) = 1
      BY <1>1, <1>3 DEF PostedLast, d
    <3>3. CASE j = k
      <4>1. posted'[k] = c.left[1].state
        BY <1>1, <1>3, <1>7, <3>1 DEF Posted
      <4>2. c.left[1] = plan.events[Len(plan.events)]
        <5>1. \A i \in 1..1 : c.left[i] = plan.events[Len(plan.events) - 1 + i]
          <6>1. InStep(p)
            BY DEF CollectorsInStep
          <6> QED
            BY <3>2, <6>1 DEF InStep
        <5>2. Len(plan.events) \in Nat
          BY PlanTyped DEF TypeOK, PlanType
        <5>3. c.left[1] = plan.events[Len(plan.events) - 1 + 1]
          BY <5>1
        <5> QED
          BY <5>2, <5>3
      <4> QED
        BY <3>3, <4>1, <4>2 DEF FinalState
    <3>4. CASE j # k
      <4>1. PostedLast(p, j)
        BY <1>1, <1>3, <3>4 DEF PostedLast, d
      <4>2. \A q \in plan.collecting : PostedLast(q, j)
        BY <1>3, <4>1, PlanTyped DEF PostedLast, TypeOK, PlanType
      <4>3. posted'[j] = posted[j]
        BY <1>3, <1>7, <3>1, <3>4
      <4> QED
        BY <4>2, <4>3 DEF StatePosted
    <3> QED
      BY <3>3, <3>4
  <2>4. ContentSaved'
    <3> SUFFICES ASSUME NEW q \in Collectors, Undisturbed', plan'.collecting = {q}
                 PROVE  q = p /\ LastIsStored(Saved(p))'
      BY <1>3 DEF ContentSaved, d
    <3>1. q = p /\ Undisturbed
      BY <1>1, <2>1, OnlyCollector
    <3>2. Saved(p)' = Saved(p)
      BY <1>1, <1>3 DEF Saved, d
    <3>3. LastIsStored(Saved(p))
      BY <1>1, <3>1 DEF ContentSaved
    <3> QED
      BY <1>1, <3>1, <3>2, <3>3 DEF LastIsStored, LastAmong, ContentOf
  <2> QED
    BY <1>4, <1>5, <2>2, <2>3, <2>4
<1> QED
  BY <1>2, <1>6, <1>7

\* and going on to the next event.
LEMMA PostsEndKeeps ==
    ASSUME ServiceInv, NEW p \in Collectors, PostsEnd(p)
    PROVE  /\ CollectorsInStep' /\ StateSaved' /\ StatePosted' /\ ContentSaved'
           /\ StaleCounted'
<1> USE DEF ServiceInv
<1> DEFINE c == collector[p]
           d == collector'[p]
<1>1. /\ c.pc = "post" /\ c.left # <<>> /\ c.targets = {}
      /\ UNCHANGED <<plan, configs, touched, tasks, posted, stale, faults>>
  <2>1. c.pc = "post" /\ c.targets = {}
    BY DEF PostsEnd, At
  <2>2. c.left # <<>>
    BY <2>1 DEF CollectorsInStep, InStep
  <2> QED
    BY <2>1, <2>2 DEF PostsEnd, pushVars, storeVars
<1>2. /\ CollectorsInStep'
      /\ \A q \in Collectors \ {p} : collector'[q] = collector[q]
      /\ d.pc = "recv" /\ d.targets = {}
      /\ d.left = Tail(c.left)
      /\ Len(d.left) = Len(c.left) - 1 /\ Len(c.left) \in Nat \ {0}
  BY <1>1, NextEventInStep DEF PostsEnd
<1> HIDE DEF d
<1>3. Undisturbed' <=> Undisturbed
  BY <1>1 DEF Undisturbed
<1>4. d.left = <<>> => Len(c.left) = 1
  <2>1. d.left = <<>> => Len(d.left) = 0
    OBVIOUS
  <2>2. \A n \in Nat : n - 1 = 0 => n = 1
    OBVIOUS
  <2> QED
    BY <1>2, <2>1, <2>2
<1>5. StateSaved'
  <2>1. SavedLast(p)' => SavedLast(p)
    BY <1>1, <1>2, <1>4 DEF SavedLast, d
  <2>2. \A q \in plan.collecting : SavedLast(q)' => SavedLast(q)
    BY <1>2, <2>1, PlanTyped DEF SavedLast, TypeOK, PlanType
  <2> QED
    BY <1>1, <1>3, <2>2 DEF StateSaved, FinalState
<1>6. StatePosted'
  <2>1. \A k : PostedLast(p, k)' => PostedLast(p, k)
    BY <1>1, <1>2, <1>4 DEF PostedLast, d
  <2>2. \A q \in plan.collecting : \A k : PostedLast(q, k)' => PostedLast(q, k)
    BY <1>2, <2>1, PlanTyped DEF PostedLast, TypeOK, PlanType
  <2> QED
    BY <1>1, <1>3, <2>2 DEF StatePosted, FinalState
<1>7. ContentSaved'
  <2> SUFFICES ASSUME NEW q \in Collectors, Undisturbed', plan'.collecting = {q}
               PROVE  q = p /\ LastIsStored(Saved(p))'
    BY <1>2 DEF ContentSaved, d
  <2>1. q = p /\ Undisturbed
    BY <1>1, <1>3, OnlyCollector
  <2>2. Saved(p)' = Saved(p)
    <3>1. Len(plan.events) \in Nat
      BY PlanTyped DEF TypeOK, PlanType
    <3>2. \A m, l \in Nat : m - (l - 1) + 0 = m - l + 1
      OBVIOUS
    <3>3. /\ Saved(p) = Len(plan.events) - Len(c.left) + 1
          /\ Saved(p)' = Len(plan.events) - (Len(c.left) - 1) + 0
      BY <1>1, <1>2 DEF Saved, d
    <3> QED
      BY <1>2, <3>1, <3>2, <3>3
  <2>3. LastIsStored(Saved(p))
    BY <1>1, <2>1 DEF ContentSaved
  <2> QED
    BY <1>1, <2>1, <2>2, <2>3 DEF LastIsStored, LastAmong, ContentOf
<1>8. StaleCounted'
  <2>1. \A q \in Collectors : collector'[q].targets = collector[q].targets
    BY <1>1, <1>2 DEF d
  <2> QED
    BY <1>1, <2>1, StaleSame
<1> QED
  BY <1>2, <1>5, <1>6, <1>7, <1>8

\* A step that leaves the collectors alone, and the collected task as it was.
LEMMA CollectorsSame ==
    ASSUME ServiceInv, UNCHANGED <<plan, collector>>, faults' = 0 => faults = 0
    PROVE  /\ CollectorsInStep'
           /\ \A k : Holders(k)' = Holders(k)
           /\ (/\ UNCHANGED posted /\ touched \subseteq touched'
               /\ \A k \in configs : k \in configs' \/ k \in touched') => StatePosted'
           /\ (Undisturbed =>
                /\ Collected \in DOMAIN tasks => Collected \in DOMAIN tasks'
                /\ tasks'[Collected] = tasks[Collected]) => StateSaved' /\ ContentSaved'
<1>1. CollectorsInStep'
  <2>1. PICK c : c = collector /\ c = collector'
    OBVIOUS
  <2>2. PICK n : n = plan /\ n = plan'
    OBVIOUS
  <2> QED
    BY <2>1, <2>2 DEF ServiceInv, CollectorsInStep, InStep
<1>2. \A k : Holders(k)' = Holders(k)
  BY DEF Holders
<1>3. /\ Undisturbed' => Undisturbed
      /\ FinalState' = FinalState
      /\ \A p : SavedLast(p)' <=> SavedLast(p)
      /\ \A p, k : PostedLast(p, k)' <=> PostedLast(p, k)
      /\ \A p : Saved(p)' = Saved(p)
      /\ \A i : ContentOf(i)' = ContentOf(i)
      /\ \A i, n : LastAmong(i, n)' <=> LastAmong(i, n)
  BY DEF Undisturbed, FinalState, SavedLast, PostedLast, Saved, ContentOf, LastAmong
<1>4. ASSUME UNCHANGED posted, touched \subseteq touched',
             \A k \in configs : k \in configs' \/ k \in touched'
      PROVE  StatePosted'
  BY <1>3, <1>4 DEF ServiceInv, StatePosted
<1>5. ASSUME Undisturbed =>
                /\ Collected \in DOMAIN tasks => Collected \in DOMAIN tasks'
                /\ tasks'[Collected] = tasks[Collected]
      PROVE  StateSaved' /\ ContentSaved'
  <2>1. StateSaved'
    BY <1>3, <1>5 DEF ServiceInv, StateSaved
  <2>2. ContentSaved'
    BY <1>3, <1>5 DEF ServiceInv, ContentSaved, LastIsStored
  <2> QED
    BY <2>1, <2>2
<1> QED
  BY <1>1, <1>2, <1>4, <1>5

\* The callers that write configurations make posts stale, counted by who holds them.
LEMMA CallersKeep ==
    ASSUME ServiceInv, NEW r \in Callers, CheckTask(r) \/ SaveConfig(r) \/ DeleteConfig(r)
    PROVE  /\ CollectorsInStep' /\ StateSaved' /\ StatePosted' /\ ContentSaved'
           /\ StaleCounted'
<1> USE DEF ServiceInv
<1>1. UNCHANGED <<plan, collector, tasks, posted>>
  BY DEF CheckTask, SaveConfig, DeleteConfig, storeVars, pushVars
<1>2. faults' = 0 => faults = 0
  BY DEF CheckTask, SaveConfig, DeleteConfig, Fault, NoFault, TypeOK
<1>3. stale \in [ConfigIds -> Nat]
  BY DEF TypeOK
<1>4. ASSUME UNCHANGED <<configs, touched, stale>>
      PROVE  StatePosted' /\ StaleCounted'
  <2>1. StatePosted'
    BY <1>1, <1>2, <1>4, CollectorsSame
  <2>2. StaleCounted'
    BY <1>1, <1>4, StaleSame
  <2> QED
    BY <2>1, <2>2
<1>5. CASE CheckTask(r)
  <2>1. StatePosted' /\ StaleCounted'
    BY <1>4, <1>5 DEF CheckTask, pushVars
  <2> QED
    BY <1>1, <1>2, <2>1, CollectorsSame
<1>6. CASE SaveConfig(r)
  <2>1. ASSUME NEW k \in ConfigIds, configs' = configs \union {k},
               touched' = touched \union {k}, stale' = [stale EXCEPT ![k] = 0]
        PROVE  StatePosted' /\ StaleCounted'
    <3>1. StatePosted'
      BY <1>1, <1>2, <2>1, CollectorsSame
    <3>2. StaleCounted'
      <4>1. \A j : Holders(j)' = Holders(j)
        BY <1>1, <1>2, CollectorsSame
      <4> QED
        BY <1>1, <1>3, <2>1, <4>1 DEF StaleCounted
    <3> QED
      BY <3>1, <3>2
  <2>2. StatePosted' /\ StaleCounted'
    BY <1>4, <1>6, <2>1 DEF SaveConfig
  <2> QED
    BY <1>1, <1>2, <2>2, CollectorsSame
<1>7. CASE DeleteConfig(r)
  <2>1. PICK k : configs' = configs \ {k} /\ touched' = touched \union {k} /\ UNCHANGED stale
    BY <1>7 DEF DeleteConfig
  <2>2. StatePosted'
    BY <1>1, <1>2, <2>1, CollectorsSame
  <2>3. StaleCounted'
    <3> SUFFICES ASSUME NEW j \in ConfigIds
                 PROVE  IF j \in configs' THEN stale'[j] = 0
                        ELSE stale'[j] + Cardinality(Holders(j)') <= Cardinality(plan.collecting)
      BY <1>1 DEF StaleCounted
    <3>1. Holders(j)' = Holders(j)
      BY <1>1, <1>2, CollectorsSame
    <3>2. CASE j \in configs
      <4>1. stale[j] = 0
        BY <3>2 DEF StaleCounted
      <4>2. /\ Cardinality(Holders(j)) \in Nat
            /\ Cardinality(Holders(j)) <= Cardinality(plan.collecting)
        BY HoldersFinite
      <4>3. stale'[j] + Cardinality(Holders(j)') <= Cardinality(plan.collecting)
        BY <2>1, <3>1, <4>1, <4>2
      <4> QED
        BY <2>1, <4>1, <4>3
    <3>3. CASE j \notin configs
      BY <2>1, <3>1, <3>3 DEF StaleCounted
    <3> QED
      BY <3>2, <3>3
  <2> QED
    BY <1>1, <1>2, <2>2, <2>3, CollectorsSame
<1> QED
  BY <1>5, <1>6, <1>7

\* A page continues the list where the last one ended.
LEMMA ListPageKeeps ==
    ASSUME ServiceInv, ListPage
    PROVE  PagesSoFar'
<1> USE DEF ServiceInv
<1> DEFINE page == Page(lister.offset)
           m == Matching
           l == lister'
           first == IF lister.pc = "first" THEN m ELSE lister.first
<1>1. /\ m \in Seq(TaskIds) /\ Len(m) \in Nat
      /\ page \in Seq(TaskIds) /\ Len(page) \in Nat
      /\ plan.backend = "sql" => page = m
      /\ plan.backend # "sql" =>
           /\ Len(page) > 0 => lister.offset + Len(page) <= Len(m)
           /\ \A i \in 1..Len(page) : page[i] = m[lister.offset + i]
  BY MatchingTyped, PageProperties
<1>2. /\ lister \in ListerState /\ lister.offset \in Nat /\ lister.seen \in Seq(TaskIds)
      /\ Len(lister.seen) \in Nat /\ lister.pc \in {"first", "next"}
      /\ lister.pc # "first" => plan.backend # "sql"
      /\ lister.pc = "first" => lister.seen = <<>> /\ lister.offset = 0 /\ lister.same
  BY DEF TypeOK, ListerState, ListPage, PagesSoFar
<1>3. /\ l.offset = lister.offset + Len(page)
      /\ l.seen = lister.seen \o page
      /\ l.first = first
      /\ l.same = (lister.same /\ m = first)
      /\ l.pc = IF lister.offset + Len(page) < Len(m) THEN "next" ELSE "done"
      /\ UNCHANGED plan
  BY DEF ListPage, NextOffset
<1> HIDE DEF page, m, first
<1>4. l.same => /\ lister.same /\ first = m
                /\ lister.offset = Len(lister.seen)
                /\ Len(lister.seen) <= Len(m)
                /\ \A i \in 1..Len(lister.seen) : lister.seen[i] = m[i]
  <2> SUFFICES ASSUME l.same
               PROVE  /\ lister.same /\ first = m
                      /\ lister.offset = Len(lister.seen)
                      /\ Len(lister.seen) <= Len(m)
                      /\ \A i \in 1..Len(lister.seen) : lister.seen[i] = m[i]
    OBVIOUS
  <2>1. lister.same /\ first = m
    BY <1>3
  <2>2. CASE lister.pc = "first"
    <3>1. lister.seen = <<>> /\ lister.offset = 0
      BY <1>2, <2>2
    <3> QED
      BY <1>1, <2>1, <3>1
  <2>3. CASE lister.pc # "first"
    <3>1. lister.first = m
      BY <2>1, <2>3 DEF first
    <3> QED
      BY <2>1, <2>3, <3>1 DEF PagesSoFar
  <2> QED
    BY <2>2, <2>3
<1>5. /\ Len(l.seen) = Len(lister.seen) + Len(page)
      /\ \A i \in 1..Len(lister.seen) : l.seen[i] = lister.seen[i]
      /\ \A i \in 1..Len(page) : l.seen[Len(lister.seen) + i] = page[i]
  BY <1>1, <1>2, <1>3
<1>6. plan.backend = "sql" =>
        /\ lister.pc = "first" /\ lister.offset = 0 /\ lister.seen = <<>>
        /\ l.pc = "done" /\ page = m
  <2> SUFFICES ASSUME plan.backend = "sql"
               PROVE  /\ lister.pc = "first" /\ lister.offset = 0 /\ lister.seen = <<>>
                      /\ l.pc = "done" /\ page = m
    OBVIOUS
  <2>1. lister.pc = "first" /\ lister.offset = 0 /\ lister.seen = <<>> /\ page = m
    BY <1>1, <1>2
  <2>2. ~(0 + Len(m) < Len(m))
    BY <1>1
  <2> QED
    BY <1>3, <2>1, <2>2
<1>7. ASSUME l.same
      PROVE  /\ l.offset = Len(l.seen)
             /\ Len(l.seen) <= Len(m)
             /\ \A i \in 1..Len(l.seen) : l.seen[i] = m[i]
             /\ l.pc = "done" => Len(l.seen) = Len(m)
  <2>1. l.offset = Len(l.seen)
    BY <1>3, <1>4, <1>5, <1>7
  <2>2. Len(l.seen) <= Len(m)
    <3>1. CASE plan.backend = "sql"
      BY <1>1, <1>3, <1>6, <2>1, <3>1
    <3>2. CASE plan.backend # "sql" /\ Len(page) > 0
      BY <1>1, <1>3, <2>1, <3>2
    <3>3. CASE Len(page) = 0
      BY <1>2, <1>4, <1>5, <1>7, <3>3
    <3> QED
      BY <1>1, <3>1, <3>2, <3>3
  <2>3. ASSUME NEW i \in 1..Len(l.seen)
        PROVE  l.seen[i] = m[i]
    <3>1. CASE i <= Len(lister.seen)
      <4>1. i \in 1..Len(lister.seen)
        BY <1>2, <1>5, <3>1
      <4> QED
        BY <1>4, <1>5, <1>7, <4>1
    <3>2. CASE i > Len(lister.seen)
      <4>1. PICK j \in 1..Len(page) : i = Len(lister.seen) + j
        <5>1. \A a, b \in Nat : \A k \in 1..a + b :
                k > a => k - a \in 1..b /\ k = a + (k - a)
          OBVIOUS
        <5>2. i - Len(lister.seen) \in 1..Len(page) /\ i = Len(lister.seen) + (i - Len(lister.seen))
          BY <1>1, <1>2, <1>5, <3>2, <5>1
        <5> QED
          BY <5>2
      <4>2. l.seen[i] = page[j]
        BY <1>5, <4>1
      <4>3. CASE plan.backend = "sql"
        <5>1. Len(lister.seen) = 0 /\ page = m
          BY <1>6, <4>3
        <5>2. i = j
          BY <1>1, <4>1, <5>1
        <5> QED
          BY <4>2, <5>1, <5>2
      <4>4. CASE plan.backend # "sql"
        BY <1>1, <1>4, <1>7, <4>1, <4>2, <4>4
      <4> QED
        BY <4>3, <4>4
    <3> QED
      BY <1>1, <1>2, <3>1, <3>2
  <2>4. ASSUME l.pc = "done"
        PROVE  Len(l.seen) = Len(m)
    <3>1. ~(lister.offset + Len(page) < Len(m))
      BY <1>3, <2>4
    <3> QED
      BY <1>1, <1>2, <1>3, <2>1, <2>2, <3>1
  <2> QED
    BY <2>1, <2>2, <2>3, <2>4
<1>8. l.pc \in {"next", "done"} /\ (plan.backend = "sql" => l.pc # "next")
  BY <1>3, <1>6
<1>9. l.same => l.first = m
  BY <1>3, <1>4
<1> QED
  BY <1>3, <1>7, <1>8, <1>9 DEF PagesSoFar, l

\* Another task's save changes nothing of the task the collectors work on.
LEMMA OtherTaskKeeps ==
    ASSUME ServiceInv, NEW id \in TaskIds, OtherTask(id)
    PROVE  /\ CollectorsInStep' /\ StateSaved' /\ StatePosted' /\ ContentSaved'
           /\ StaleCounted'
<1>1. UNCHANGED <<plan, collector, configs, posted, stale, touched, faults>>
  BY DEF OtherTask, pushVars
<1>2. Undisturbed =>
        /\ Collected \in DOMAIN tasks => Collected \in DOMAIN tasks'
        /\ tasks'[Collected] = tasks[Collected]
  <2> SUFFICES ASSUME Undisturbed
               PROVE  /\ Collected \in DOMAIN tasks => Collected \in DOMAIN tasks'
                      /\ tasks'[Collected] = tasks[Collected]
    OBVIOUS
  <2>1. id # Collected /\ Collected \in DOMAIN tasks
    BY DEF OtherTask, Undisturbed, ServiceInv, StateSaved
  <2>2. PICK ids \in SUBSET TaskIds : tasks \in [ids -> Body]
    BY DEF ServiceInv, TypeOK
  <2> QED
    BY <2>1, <2>2 DEF OtherTask, Store
<1>3. StaleCounted'
  BY <1>1, StaleSame DEF ServiceInv
<1> QED
  BY <1>1, <1>2, <1>3, CollectorsSame

--------------------------------------------------------------------------------
(* The invariant, and what follows from it.                                   *)

\* The invariant holds at the start.
LEMMA InitInv == Init => ServiceInv
<1> SUFFICES ASSUME Init PROVE ServiceInv
  OBVIOUS
<1>1. TypeOK /\ plan \in PlanType
  BY InitTypes, PlanTyped DEF TypeOK
<1>2. /\ plan.events \in Seq(Event) /\ Len(plan.events) \in Nat
      /\ plan.collecting \in SUBSET Collectors
  BY <1>1 DEF PlanType
<1>3. \A p \in Collectors :
        /\ collector[p].left = IF p \in plan.collecting THEN plan.events ELSE <<>>
        /\ collector[p].pc = "recv" /\ collector[p].targets = {}
  BY DEF Init
<1>4. CollectorsInStep
  <2> SUFFICES ASSUME NEW p \in Collectors
               PROVE  InStep(p)
    BY DEF CollectorsInStep
  <2>1. CASE p \in plan.collecting
    <3>1. PICK e : e = plan.events /\ e = collector[p].left /\ Len(e) \in Nat
      BY <1>2, <1>3, <2>1
    <3>2. \A i \in 1..Len(e) : Len(e) - Len(e) + i = i
      BY <3>1
    <3>3. /\ Len(e) <= Len(e)
          /\ \A i \in 1..Len(e) : e[i] = e[Len(e) - Len(e) + i]
      BY <3>1, <3>2
    <3> QED
      BY <1>3, <2>1, <3>1, <3>3 DEF InStep
  <2>2. CASE p \notin plan.collecting
    <3>1. collector[p].left = <<>> /\ Len(<<>>) = 0 /\ 1..0 = {}
      BY <1>3, <2>2
    <3> QED
      BY <1>2, <1>3, <3>1 DEF InStep
  <2> QED
    BY <2>1, <2>2
<1>5. StateSaved
  <2> SUFFICES ASSUME Undisturbed
               PROVE  /\ Collected \in DOMAIN tasks
                      /\ \E p \in plan.collecting : ~SavedLast(p)
    BY DEF StateSaved
  <2>1. PICK p \in plan.collecting : TRUE
    BY DEF Undisturbed
  <2>2. ~SavedLast(p)
    BY <1>2, <1>3, <2>1 DEF SavedLast, Undisturbed
  <2> QED
    BY <2>2 DEF Init, Undisturbed
<1>6. StatePosted
  <2> SUFFICES ASSUME NEW k \in plan.configs \ touched, Undisturbed
               PROVE  \E p \in plan.collecting : ~PostedLast(p, k)
    BY DEF StatePosted, Init
  <2>1. PICK p \in plan.collecting : TRUE
    BY DEF Undisturbed
  <2>2. ~PostedLast(p, k)
    BY <1>2, <1>3, <2>1 DEF PostedLast, Undisturbed
  <2> QED
    BY <2>2
<1>7. ContentSaved
  <2> SUFFICES ASSUME NEW p \in Collectors, plan.collecting = {p}
               PROVE  LastIsStored(Saved(p)) /\ collector[p].pc # "save"
    BY DEF ContentSaved
  <2>1. Saved(p) = 0
    <3>1. collector[p].left = plan.events /\ collector[p].pc = "recv"
      BY <1>3
    <3>2. \A m \in Nat : m - m + 0 = 0
      OBVIOUS
    <3>3. Saved(p) = Len(plan.events) - Len(plan.events) + 0
      BY <3>1 DEF Saved
    <3> QED
      BY <1>2, <3>2, <3>3
  <2>2. LastAmong(0, 0) /\ tasks[Collected].content = ContentOf(0)
    BY DEF LastAmong, ContentOf, Init
  <2> QED
    BY <1>3, <2>1, <2>2 DEF LastIsStored
<1>8. StaleCounted
  <2>1. \A k \in ConfigIds : Holders(k) = {} /\ stale[k] = 0
    BY <1>3 DEF Holders, Init
  <2>2. Cardinality(plan.collecting) \in Nat /\ Cardinality({}) = 0
    BY <1>2, FiniteAssumption, FS_Subset, FS_CardinalityType, FS_EmptySet
  <2> QED
    BY <2>1, <2>2 DEF StaleCounted
<1>9. PagesSoFar
  BY DEF PagesSoFar, Init
<1> QED
  BY <1>1, <1>4, <1>5, <1>6, <1>7, <1>8, <1>9 DEF ServiceInv

\* Every step keeps the invariant.
LEMMA StepInv == ServiceInv /\ [Next]_vars => ServiceInv'
<1>1. ASSUME ServiceInv, Next
      PROVE  ServiceInv'
  <2>1. TypeOK'
    BY <1>1, StepTypes DEF ServiceInv
  <2>2. UNCHANGED <<plan, lister>> => PagesSoFar'
    BY <1>1 DEF ServiceInv, PagesSoFar
  <2>3. ASSUME NEW p \in Collectors, CollectorStep(p)
        PROVE  ServiceInv'
    <3>1. UNCHANGED <<plan, lister>>
      BY <2>3 DEF CollectorStep, Receive, ReadTask, SaveTask, ListTargets, Post, PostsEnd
    <3>2. /\ CollectorsInStep' /\ StateSaved' /\ StatePosted' /\ ContentSaved'
          /\ StaleCounted'
      BY <1>1, <2>3, ReceiveKeeps, ReadTaskKeeps, SaveTaskKeeps, ListTargetsKeeps,
         PostKeeps, PostsEndKeeps DEF CollectorStep
    <3> QED
      BY <2>1, <2>2, <3>1, <3>2 DEF ServiceInv
  <2>4. ASSUME NEW r \in Callers, CheckTask(r) \/ SaveConfig(r) \/ DeleteConfig(r)
        PROVE  ServiceInv'
    <3>1. UNCHANGED <<plan, lister>>
      BY <2>4 DEF CheckTask, SaveConfig, DeleteConfig
    <3> QED
      BY <1>1, <2>1, <2>2, <2>4, <3>1, CallersKeep DEF ServiceInv
  <2>5. CASE ListPage
    <3>1. UNCHANGED <<plan, collector, tasks, configs, posted, stale, touched, faults>>
      BY <2>5 DEF ListPage, storeVars, pushVars
    <3>2. StaleCounted'
      BY <1>1, <3>1, StaleSame DEF ServiceInv
    <3> QED
      BY <1>1, <2>1, <2>5, <3>1, <3>2, CollectorsSame, ListPageKeeps DEF ServiceInv
  <2>6. ASSUME NEW id \in TaskIds, OtherTask(id)
        PROVE  ServiceInv'
    <3>1. UNCHANGED <<plan, lister>>
      BY <2>6 DEF OtherTask
    <3> QED
      BY <1>1, <2>1, <2>2, <2>6, <3>1, OtherTaskKeeps DEF ServiceInv
  <2> QED
    BY <1>1, <2>3, <2>4, <2>5, <2>6 DEF Next
<1>2. ASSUME ServiceInv, UNCHANGED vars
      PROVE  ServiceInv'
  <2>1. UNCHANGED <<plan, tasks, order, configs, collector, caller, lister,
                    posted, stale, touched, faults>>
    BY <1>2 DEF vars
  <2>2. TypeOK' /\ PagesSoFar'
    BY <1>2, <2>1 DEF ServiceInv, TypeOK, PagesSoFar
  <2>3. StaleCounted'
    BY <1>2, <2>1, StaleSame DEF ServiceInv
  <2> QED
    BY <1>2, <2>1, <2>2, <2>3, CollectorsSame DEF ServiceInv
<1> QED
  BY <1>1, <1>2

\* The inductive invariant of the task service holds in every reachable state:
\* persist_event_snapshot, the configuration calls and the list calls keep it.
THEOREM SpecInv == Spec => []ServiceInv
BY InitInv, StepInv, PTL DEF Spec

\* Where the collectors are when all have finished.
LEMMA WhenFinished ==
    ASSUME ServiceInv, AllFinished, faults = 0, Collected \in DOMAIN plan.tasks,
           Collected \notin plan.arriving
    PROVE  /\ Undisturbed
           /\ \A p \in Collectors : collector[p].left = <<>> /\ collector[p].pc = "recv"
           /\ plan.collecting \in SUBSET Collectors
           /\ Last(plan.events).state = FinalState
<1>1. Undisturbed
  BY DEF AllFinished, Undisturbed
<1>2. \A p \in Collectors : collector[p].left = <<>>
  BY DEF AllFinished, Finished
<1>3. \A p \in Collectors : collector[p].pc = "recv"
  BY <1>2 DEF ServiceInv, CollectorsInStep, InStep
<1>4. plan.collecting \in SUBSET Collectors
  BY PlanTyped DEF ServiceInv, TypeOK, PlanType
<1>5. Last(plan.events).state = FinalState
  BY DEF Last, FinalState
<1> QED
  BY <1>1, <1>2, <1>3, <1>4, <1>5

\* The snapshot that is last among all events is the one that is chosen.
LEMMA LastSnapshotIs ==
    ASSUME ServiceInv, NEW i \in 0..Len(plan.events), LastAmong(i, Len(plan.events))
    PROVE  LastSnapshot = i
<1> DEFINE n == Len(plan.events)
           L(j) == /\ j = 0 \/ plan.events[j].kind = "task"
                   /\ \A h \in j + 1..n : plan.events[h].kind = "status"
<1>1. n \in Nat
  BY PlanTyped DEF ServiceInv, TypeOK, PlanType
<1>2. L(i)
  BY DEF LastAmong
<1>3. ASSUME NEW j \in 0..n, L(j)
      PROVE  j = i
  <2>1. ASSUME j < i
        PROVE  FALSE
    <3>1. i \in j + 1..n /\ i # 0
      BY <1>1, <2>1
    <3> QED
      BY <1>2, <1>3, <3>1
  <2>2. ASSUME i < j
        PROVE  FALSE
    <3>1. j \in i + 1..n /\ j # 0
      BY <1>1, <2>2
    <3> QED
      BY <1>2, <1>3, <3>1
  <2> QED
    BY <1>1, <2>1, <2>2
<1>4. LastSnapshot = CHOOSE j \in 0..n : L(j)
  BY DEF LastSnapshot
<1> HIDE DEF n, L
<1> QED
  BY <1>2, <1>3, <1>4 DEF n

\* Requests that collect the same events and write back without a version leave
\* the task in the last event's state: persist_event_snapshot for any number of
\* collectors; a single one also leaves the content of the last snapshot.
THEOREM TasksConverge == Spec => []Converges
<1>1. ASSUME ServiceInv
      PROVE  Converges
  <2> SUFFICES ASSUME AllFinished, faults = 0, Collected \in DOMAIN plan.tasks,
                      Collected \notin plan.arriving
               PROVE  /\ tasks[Collected].state = Last(plan.events).state
                      /\ Cardinality(plan.collecting) = 1
                           => tasks[Collected].content =
                               IF LastSnapshot = 0 THEN plan.tasks[Collected].content
                               ELSE plan.events[LastSnapshot].content
    BY DEF Converges
  <2>1. /\ Undisturbed
        /\ \A p \in Collectors : collector[p].left = <<>> /\ collector[p].pc = "recv"
        /\ plan.collecting \in SUBSET Collectors
        /\ Last(plan.events).state = FinalState
    BY <1>1, WhenFinished
  <2>2. tasks[Collected].state = Last(plan.events).state
    BY <1>1, <2>1 DEF ServiceInv, StateSaved, SavedLast
  <2>3. ASSUME Cardinality(plan.collecting) = 1
        PROVE  tasks[Collected].content =
                 IF LastSnapshot = 0 THEN plan.tasks[Collected].content
                 ELSE plan.events[LastSnapshot].content
    <3>1. PICK p : plan.collecting = {p}
      BY <2>1, <2>3, FiniteAssumption, FS_Subset, FS_Singleton
    <3>2. Saved(p) = Len(plan.events)
      <4>1. Len(plan.events) \in Nat /\ Len(<<>>) = 0
        BY <1>1, PlanTyped DEF ServiceInv, TypeOK, PlanType
      <4> QED
        <5>1. \A m \in Nat : m - 0 + 0 = m
          OBVIOUS
        <5>2. collector[p].left = <<>> /\ collector[p].pc = "recv"
          BY <2>1, <3>1
        <5>3. Saved(p) = Len(plan.events) - 0 + 0
          BY <4>1, <5>2 DEF Saved
        <5> QED
          BY <4>1, <5>1, <5>3
    <3>3. PICK i \in 0..Len(plan.events) :
            LastAmong(i, Len(plan.events)) /\ tasks[Collected].content = ContentOf(i)
      BY <1>1, <2>1, <3>1, <3>2 DEF ServiceInv, ContentSaved, LastIsStored
    <3> QED
      BY <1>1, <3>3, LastSnapshotIs DEF ContentOf
  <2> QED
    BY <2>2, <2>3
<1> QED
  BY <1>1, SpecInv, PTL

\* A push receiver whose configuration nobody touched hears the final state
\* last: send_push_notifications after each event, from any number of collectors.
THEOREM FinalStateIsPostedLast == Spec => []LastPostIsFinal
<1>1. ASSUME ServiceInv
      PROVE  LastPostIsFinal
  <2> SUFFICES ASSUME AllFinished, faults = 0, Collected \in DOMAIN plan.tasks,
                      Collected \notin plan.arriving, NEW k \in plan.configs \ touched
               PROVE  posted[k] = Last(plan.events).state
    BY DEF LastPostIsFinal
  <2> QED
    BY <1>1, WhenFinished DEF ServiceInv, StatePosted, PostedLast
<1> QED
  BY <1>1, SpecInv, PTL

\* A deleted configuration hears at most one more post from each collector.
THEOREM StalePostsAreBounded == Spec => []StalePostsBounded
<1>1. ASSUME ServiceInv
      PROVE  StalePostsBounded
  <2> SUFFICES ASSUME NEW k \in ConfigIds
               PROVE  stale[k] <= Cardinality(plan.collecting)
    BY DEF StalePostsBounded
  <2>1. stale[k] \in Nat
    BY <1>1 DEF ServiceInv, TypeOK
  <2>2. Cardinality(Holders(k)) \in Nat /\ Cardinality(plan.collecting) \in Nat
    BY <1>1, HoldersFinite
  <2> QED
    BY <1>1, <2>1, <2>2 DEF ServiceInv, StaleCounted
<1> QED
  BY <1>1, SpecInv, PTL

\* The pages of a list call, put together, are the list, when what matches does
\* not change between the pages: for any page size and any number of tasks.
THEOREM PagesAreTheList == Spec => []PagesMakeTheList
<1>1. ASSUME ServiceInv
      PROVE  PagesMakeTheList
  <2> SUFFICES ASSUME lister.pc = "done", lister.same
               PROVE  lister.seen = lister.first
    BY DEF PagesMakeTheList
  <2>1. /\ lister.seen \in Seq(TaskIds) /\ lister.first \in Seq(TaskIds)
        /\ Len(lister.seen) = Len(lister.first)
        /\ \A i \in 1..Len(lister.seen) : lister.seen[i] = lister.first[i]
    BY <1>1 DEF ServiceInv, PagesSoFar, TypeOK, ListerState
  <2> QED
    BY <2>1
<1> QED
  BY <1>1, SpecInv, PTL

================================================================================
