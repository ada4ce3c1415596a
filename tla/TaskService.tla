------------------------------ MODULE TaskService ------------------------------
(******************************************************************************)
(* What the default request handler does with stored tasks, a store call at a *)
(* time: requests that collect one queue each write the task and post it to   *)
(* the push configurations; other calls create and delete configurations,     *)
(* store and delete tasks, and list them page by page.  Store calls and posts *)
(* may fail.  TaskStore models the store's versions, which these writes skip  *)
(* (TaskVersion::MISSING), and RequestHandler who collects and for how long.  *)
(******************************************************************************)
EXTENDS Integers, Sequences, FiniteSets, SequencesExt, Filters

CONSTANTS
    TaskIds,         \* tasks; the collected one is Collected
    Collected,
    States,          \* states of a task ...
    Closed,          \* ... and the terminal ones
    Contents,        \* a task's history and artifacts, as a snapshot carries them
    ConfigIds,       \* identifiers of push configurations
    Generated,       \* stands for no identifier given
    Nothing, NoSize, \* no value, and no page size given
    Collectors,      \* requests that collect the queue
    Callers,         \* configuration calls and sends in flight
    Plans,           \* what the actors do: see PlanType
    DefaultPageSize, \* 50 in the code
    MaxPageSize,     \* 100 in the code
    MaxFaults        \* bound on failing store calls and posts

Body == [state : States, content : Contents]
Event == [kind : {"task", "status"}, state : States, content : Contents]
\* A deletion names its configuration.
Call ==
    {call \in [op : {"create", "delete", "send", "none"},
               config : ConfigIds \union {Generated}, valid : BOOLEAN] :
        call.op = "delete" => call.config # Generated}
Request == [size : Int \union {NoSize}, status : States \union {"any"}]
PlanType ==
    [tasks : UNION {[ids -> Body] : ids \in SUBSET TaskIds},
     events : Seq(Event), collecting : SUBSET Collectors, configs : SUBSET ConfigIds,
     calls : [Callers -> Call], request : Request, lists : BOOLEAN,
     arriving : SUBSET TaskIds, backend : {"memory", "sql"}]

ASSUME TaskServiceAssumption ==
    /\ Collected \in TaskIds /\ Closed \subseteq States /\ Generated \notin ConfigIds
    /\ Plans \subseteq PlanType
    /\ DefaultPageSize \in 1..MaxPageSize /\ MaxPageSize \in Nat /\ MaxFaults \in Nat

ASSUME FiniteAssumption == IsFiniteSet(TaskIds) /\ IsFiniteSet(Collectors)

VARIABLES
    plan,      \* the plan followed
    tasks,     \* the stored tasks
    order,     \* their order in the store's hash map
    configs,   \* the push configurations of the collected task
    collector, \* per collector: [left, pc, task, targets]
    caller,    \* per caller: [pc, answer]
    lister,    \* the client that pages: [offset, seen, first, same, pc]
    posted,    \* per configuration: the state its receiver heard last
    stale,     \* per configuration: posts to it since it was deleted
    touched,   \* configurations saved or deleted since the start
    faults     \* failures so far

vars == <<plan, tasks, order, configs, collector, caller, lister,
          posted, stale, touched, faults>>
storeVars == <<tasks, order>>
pushVars == <<configs, posted, stale, touched>>

Init ==
    /\ plan \in Plans
    /\ tasks = plan.tasks
    /\ order \in SetToSeqs(DOMAIN tasks)
    /\ configs = plan.configs
    /\ collector = [p \in Collectors |->
                     [left |-> IF p \in plan.collecting THEN plan.events ELSE <<>>,
                      pc |-> "recv", task |-> Nothing, targets |-> {}]]
    /\ caller = [r \in Callers |-> [pc |-> "check", answer |-> Nothing]]
    /\ lister = [offset |-> 0, seen |-> <<>>, first |-> <<>>, same |-> TRUE,
                 pc |-> "first"]
    /\ posted = [k \in ConfigIds |-> Nothing]
    /\ stale = [k \in ConfigIds |-> 0]
    /\ touched = {}
    /\ faults = 0

\* A new entry may change the order of all of them.
Store(id, body) ==
    /\ tasks' = [i \in DOMAIN tasks \union {id} |-> IF i = id THEN body ELSE tasks[i]]
    /\ order' \in IF id \in DOMAIN tasks THEN {order}
                  ELSE SetToSeqs(DOMAIN tasks \union {id})

Fault == faults < MaxFaults /\ faults' = faults + 1
NoFault == UNCHANGED faults

--------------------------------------------------------------------------------
\* persist_event_snapshot, run by collector p for each event it receives.

At(p, pc) == collector[p].pc = pc
Moves(p, record) == collector' = [collector EXCEPT ![p] = record]
NextEvent(p) ==
    Moves(p, [left |-> Tail(collector[p].left), pc |-> "recv", task |-> Nothing,
              targets |-> {}])

\* Mutant: the update's state is not taken over.
KeepingState(task, event) == task

Updated(task, event) == [task EXCEPT !.state = event.state]

Receive(p) ==
    /\ At(p, "recv") /\ collector[p].left # <<>>
    /\ LET e == Head(collector[p].left) IN
        Moves(p, IF e.kind = "task"
                 THEN [collector[p] EXCEPT !.pc = "save",
                          !.task = [state |-> e.state, content |-> e.content]]
                 ELSE [collector[p] EXCEPT !.pc = "read"])
    /\ UNCHANGED <<plan, storeVars, caller, lister, pushVars, faults>>

\* Mutant: a task that is not stored yet is waited for.
WaitForTask(p) == UNCHANGED collector

NoSuchTask(p) == NextEvent(p)

\* A failing get counts as no such task.
ReadTask(p) ==
    /\ At(p, "read")
    /\ \/ /\ Collected \in DOMAIN tasks
          /\ Moves(p, [collector[p] EXCEPT
                          !.pc = "save",
                          !.task = Updated(tasks[Collected], Head(collector[p].left))])
          /\ NoFault
       \/ Collected \notin DOMAIN tasks /\ NoSuchTask(p) /\ NoFault
       \/ Fault /\ NoSuchTask(p)
    /\ UNCHANGED <<plan, storeVars, caller, lister, pushVars>>

\* A failing save is logged, and the task posted all the same.
SaveTask(p) ==
    /\ At(p, "save")
    /\ \/ Store(Collected, collector[p].task) /\ NoFault
       \/ Fault /\ UNCHANGED storeVars
    /\ Moves(p, [collector[p] EXCEPT !.pc = "list"])
    /\ UNCHANGED <<plan, caller, lister, pushVars>>

\* Mutant: the configurations are listed once for all events.
TargetsOnce(p) == plan.configs

Targets(p) == configs

\* When the configurations cannot be listed, that is logged and nobody told.
ListTargets(p) ==
    /\ At(p, "list")
    /\ \/ Moves(p, [collector[p] EXCEPT !.pc = "post", !.targets = Targets(p)]) /\ NoFault
       \/ Fault /\ NextEvent(p)
    /\ UNCHANGED <<plan, storeVars, caller, lister, pushVars>>

\* Mutant: the task is posted as it was stored before.
PostedBefore(p) ==
    IF Collected \in DOMAIN plan.tasks THEN plan.tasks[Collected] ELSE collector[p].task

Posted(p) == collector[p].task

\* Posts are made one after the other; one that fails or times out is logged.
Post(p) ==
    /\ At(p, "post")
    /\ \E k \in collector[p].targets :
        /\ Moves(p, [collector[p] EXCEPT !.targets = @ \ {k}])
        /\ \/ /\ posted' = [posted EXCEPT ![k] = Posted(p).state]
              /\ stale' = [stale EXCEPT ![k] = IF k \in configs THEN 0 ELSE @ + 1]
              /\ NoFault
           \/ Fault /\ UNCHANGED <<posted, stale>>
    /\ UNCHANGED <<plan, storeVars, caller, lister, configs, touched>>

PostsEnd(p) ==
    /\ At(p, "post") /\ collector[p].targets = {}
    /\ NextEvent(p)
    /\ UNCHANGED <<plan, storeVars, caller, lister, pushVars, faults>>

--------------------------------------------------------------------------------
\* Push configuration calls, and the part of a send that saves one.

Calls(r, pc, answer) == caller' = [caller EXCEPT ![r] = [pc |-> pc, answer |-> answer]]

\* The configuration calls require the task to exist; a send that names its
\* context does not, and refuses a task in a terminal state.
CheckTask(r) ==
    /\ caller[r].pc = "check" /\ plan.calls[r].op # "none"
    /\ \E found \in BOOLEAN :
        /\ IF found THEN Collected \in DOMAIN tasks /\ NoFault
           ELSE \/ Collected \notin DOMAIN tasks /\ NoFault
                \/ Fault
        /\ IF plan.calls[r].op = "send"
           THEN IF found /\ tasks[Collected].state \in Closed
                THEN Calls(r, "done", "InvalidParams") ELSE Calls(r, "act", Nothing)
           ELSE IF found THEN Calls(r, "act", Nothing) ELSE Calls(r, "done", "TaskNotFound")
    /\ UNCHANGED <<plan, storeVars, collector, lister, pushVars>>

\* Without an identifier the store generates a new one.  A send goes on when
\* the configuration is refused.
SaveConfig(r) ==
    /\ caller[r].pc = "act" /\ plan.calls[r].op \in {"create", "send"}
    /\ IF plan.calls[r].valid
       THEN \E k \in ConfigIds :
            /\ IF plan.calls[r].config = Generated
               THEN k \notin configs \union touched ELSE k = plan.calls[r].config
            /\ configs' = configs \union {k}
            /\ touched' = touched \union {k}
            /\ stale' = [stale EXCEPT ![k] = 0]
            /\ Calls(r, "done", "ok")
       ELSE /\ Calls(r, "done", IF plan.calls[r].op = "send" THEN "ok" ELSE "InvalidParams")
            /\ UNCHANGED <<configs, touched, stale>>
    /\ UNCHANGED <<plan, storeVars, collector, lister, posted, faults>>

DeleteConfig(r) ==
    /\ caller[r].pc = "act" /\ plan.calls[r].op = "delete"
    /\ configs' = configs \ {plan.calls[r].config}
    /\ touched' = touched \union {plan.calls[r].config}
    /\ Calls(r, "done", "ok")
    /\ UNCHANGED <<plan, storeVars, collector, lister, posted, stale, faults>>

--------------------------------------------------------------------------------
\* Listing, and the tasks of other executions that come, move and go meanwhile.

\* Mutant: a negative size is taken for zero.
PageSizeOrZero(size) ==
    IF size = NoSize THEN DefaultPageSize
    ELSE IF size < 0 THEN 0 ELSE IF size > MaxPageSize THEN MaxPageSize ELSE size

PageSize(size) ==
    IF size = NoSize THEN DefaultPageSize
    ELSE IF size < 0 THEN DefaultPageSize
    ELSE IF size > MaxPageSize THEN MaxPageSize ELSE size

\* The SQL stores filter nothing.
Matching ==
    Kept(order, {id \in DOMAIN tasks : \/ plan.backend = "sql"
                                       \/ plan.request.status \in {"any", tasks[id].state}})

\* The SQL stores return every task at once.
Page(offset) ==
    IF plan.backend = "sql" THEN Matching
    ELSE LET last == offset + PageSize(plan.request.size) IN
         SubSeq(Matching, offset + 1, IF last < Len(Matching) THEN last ELSE Len(Matching))

\* Mutant: the token names the place after the next page's first task.
OffsetAfterNext(offset) == offset + Len(Page(offset)) + 1

NextOffset(offset) == offset + Len(Page(offset))

ListPage ==
    /\ plan.lists /\ lister.pc # "done"
    /\ LET first == IF lister.pc = "first" THEN Matching ELSE lister.first
           next == NextOffset(lister.offset)
       IN lister' = [offset |-> next,
                     seen |-> lister.seen \o Page(lister.offset),
                     first |-> first,
                     same |-> lister.same /\ Matching = first,
                     pc |-> IF next < Len(Matching) THEN "next" ELSE "done"]
    /\ UNCHANGED <<plan, storeVars, collector, caller, pushVars, faults>>

OtherTask(id) ==
    /\ id \in plan.arriving
    /\ \/ \E body \in Body : Store(id, body)
       \/ /\ id \in DOMAIN tasks
          /\ tasks' = [i \in DOMAIN tasks \ {id} |-> tasks[i]]
          /\ order' = Kept(order, DOMAIN tasks \ {id})
    /\ UNCHANGED <<plan, collector, caller, lister, pushVars, faults>>

CollectorStep(p) ==
    Receive(p) \/ ReadTask(p) \/ SaveTask(p) \/ ListTargets(p) \/ Post(p) \/ PostsEnd(p)

Next ==
    \/ \E p \in Collectors : CollectorStep(p)
    \/ \E r \in Callers : CheckTask(r) \/ SaveConfig(r) \/ DeleteConfig(r)
    \/ ListPage
    \/ \E id \in TaskIds : OtherTask(id)

Spec == Init /\ [][Next]_vars

\* The runtime polls what can run, and store calls and posts end: a post by its
\* timeout at the latest.
FairSpec == Spec /\ WF_vars(ListPage) /\ \A p \in Collectors : WF_vars(CollectorStep(p))

--------------------------------------------------------------------------------
Finished(p) == collector[p].left = <<>>
AllFinished ==
    /\ plan.events # <<>> /\ plan.collecting # {}
    /\ \A p \in Collectors : Finished(p)

LastSnapshot ==
    CHOOSE i \in 0..Len(plan.events) :
        /\ i = 0 \/ plan.events[i].kind = "task"
        /\ \A j \in i + 1..Len(plan.events) : plan.events[j].kind = "status"

\* Requests that write the same task from the same events, each reading and
\* writing back without a version, end with the state of the last event
\* stored; a single one also ends with the content of the last snapshot.
\* (Two may end with older content: one's stale copy is written last.)
Converges ==
    (AllFinished /\ faults = 0 /\ Collected \in DOMAIN plan.tasks
       /\ Collected \notin plan.arriving)
        => /\ tasks[Collected].state = Last(plan.events).state
           /\ Cardinality(plan.collecting) = 1
                => tasks[Collected].content =
                    IF LastSnapshot = 0 THEN plan.tasks[Collected].content
                    ELSE plan.events[LastSnapshot].content

\* The receiver of a configuration that was there all along hears the final
\* state last, although each collector posts every event at its own pace.
LastPostIsFinal ==
    (AllFinished /\ faults = 0 /\ Collected \in DOMAIN plan.tasks
       /\ Collected \notin plan.arriving)
        => \A k \in plan.configs \ touched : posted[k] = Last(plan.events).state

\* A deleted configuration is used at most once more by each collector: for the
\* notification that had listed it already.
StalePostsBounded ==
    \A k \in ConfigIds : stale[k] <= Cardinality(plan.collecting)

\* Pages put together are the list, when tasks that match neither come nor go
\* nor change their order between the pages.
PagesMakeTheList == (lister.pc = "done" /\ lister.same) => lister.seen = lister.first

\* Paging ends, unless pages of size 0 are asked for.
PagingEnds == (plan.lists /\ plan.request.size # 0) ~> (lister.pc = "done")

\* A collector gets through its events whatever fails and whoever deletes what.
CollectorsEnd == \A p \in Collectors : <>Finished(p)
================================================================================
