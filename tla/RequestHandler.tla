--------------------------- MODULE RequestHandler ---------------------------
(***************************************************************************)
(* DefaultRequestHandler (server/handler/default.rs) at work: concurrent   *)
(* requests, the agent executions they spawn, the event queues between     *)
(* them, and the task store.  Every step is what the code does between two *)
(* points where another request or execution can interfere.                *)
(*                                                                         *)
(* The store is the register that TaskStore describes (the handler saves   *)
(* unconditionally and never deletes); a task is its state.  The queue map *)
(* is QueueManager's, with get_or_create_queue in one step.  A queue is    *)
(* named after the request that created it; its log is everything sent to  *)
(* it, of which the channel keeps the last Capacity events.                *)
(***************************************************************************)
EXTENDS Integers, Sequences, A2ATypes

CONSTANTS Requests,       \* calls that may arrive, each at most once
          TaskIds,
          Workloads,      \* the [Requests -> [op, task]] to consider
          StoredAtStart,  \* states a task may have before, or NoTask
          AgentEvents,    \* events execute() may send
          CancelEvents,   \* events cancel() may send
          Capacity,       \* events a queue retains for a slow receiver
          MaxEvents,      \* bound: events one execution sends
          AgentsFinish,   \* agents stop at, and only at, a final event
          ClientsLeave,   \* connections may drop
          Nobody          \* no queue, no handle

Ops == {"sendDefault", "sendBlocking", "sendImmediately", "stream",
        "cancel", "subscribe"}

ASSUME HandlerAssumption ==
    /\ Workloads \subseteq [Requests -> [op : Ops, task : TaskIds]]
    /\ StoredAtStart \subseteq TaskStates \cup {NoTask}
    /\ AgentEvents \subseteq Events
    /\ CancelEvents \subseteq Events
    /\ Capacity \in Nat \ {0}
    /\ MaxEvents \in Nat \ {0}
    /\ AgentsFinish \in BOOLEAN
    /\ ClientsLeave \in BOOLEAN
    /\ Nobody \notin Requests

VARIABLES call,         \* call[r]: what r asks for; never changes
          store,        \* store[t]: the stored state, or NoTask
          queues,       \* queues[t]: the queue registered for t, or Nobody
          log,          \* log[q]: the events sent to q, each with its author
          pc,           \* pc[r]: how far the handler is with r
          queue,        \* queue[r]: the queue r uses
          from,         \* history: Len(log[queue[r]]) when r subscribed
          cursor,       \* events of log[queue[r]] that r is past
          answer,       \* what r's client was told
          exec,         \* exec[r]: the execution r spawned
          emitted,      \* events that execution tried to send
          aborting,     \* executions whose handle was aborted
          running,      \* running[t]: running_tasks' handle for t, or Nobody
          unregistered  \* handles whose insertion task has yet to run

callVars  == <<pc, queue, from, cursor, answer>>
agentVars == <<exec, emitted, aborting, running, unregistered>>
vars == <<call, store, queues, log, callVars, agentVars>>

-----------------------------------------------------------------------------
Op(r)   == call[r].op
Task(r) == call[r].task

Sends   == {"sendDefault", "sendBlocking", "sendImmediately"}
Starts  == Sends \cup {"stream"}      \* operations that execute the agent
Collects == Sends \cup {"cancel"}     \* operations that end in collect_result

\* Mutant: a configured send is taken for a default one.
IsNonBlockingSend(r) == Op(r) \in Sends

\* configuration.is_none_or(|c| c.return_immediately)
IsNonBlocking(r) == Op(r) \in {"sendDefault", "sendImmediately"}

Log(r) == log[queue[r]]

\* r holds a broadcast receiver.
Listening(r) ==
    pc[r] \in {"subscribed", "collecting", "persisting", "deciding", "streaming"}

Receivers(q) == {r \in Requests : queue[r] = q /\ Listening(r)}

\* The execution is still a live tokio task.
Active(r) == exec[r] \in {"running", "failing", "reporting"}

\* Some Arc of q is alive, so its receivers do not see Closed.
Held(q) ==
    \/ \E t \in TaskIds : queues[t] = q
    \/ \E r \in Requests :
        /\ queue[r] = q
        /\ Active(r) \/ pc[r] \in {"queued", "subscribed", "collecting",
                                   "persisting", "deciding", "answering"}

Goto(r, place) == pc' = [pc EXCEPT ![r] = place]

\* Forgetting a receiver forgets its position.
DropReceiver(r) ==
    /\ from' = [from EXCEPT ![r] = 0]
    /\ cursor' = [cursor EXCEPT ![r] = 0]

Reject(r) ==
    /\ Goto(r, "done")
    /\ answer' = [answer EXCEPT ![r] = "error"]
    /\ UNCHANGED <<queue, from, cursor>>

-----------------------------------------------------------------------------
Init ==
    /\ call \in Workloads
    /\ store \in [TaskIds -> StoredAtStart]
    /\ queues = [t \in TaskIds |-> Nobody]
    /\ log = [q \in Requests |-> <<>>]
    /\ pc = [r \in Requests |-> "start"]
    /\ queue = [r \in Requests |-> Nobody]
    /\ from = [r \in Requests |-> 0]
    /\ cursor = [r \in Requests |-> 0]
    /\ answer = [r \in Requests |-> "none"]
    /\ exec = [r \in Requests |-> "none"]
    /\ emitted = [r \in Requests |-> 0]
    /\ aborting = [r \in Requests |-> FALSE]
    /\ running = [t \in TaskIds |-> Nobody]
    /\ unregistered = {}

(* Preparing a request ---------------------------------------------------- *)

\* build_request_context up to the queue.  An unknown task is refused when
\* the message names no context, and taken as a new one when it does.
BuildContext(r) ==
    /\ pc[r] = "start"
    /\ Op(r) \in Starts
    /\ \/ IsTerminal(store[Task(r)]) /\ Reject(r)
       \/ store[Task(r)] = NoTask /\ Reject(r)
       \/ /\ ~IsTerminal(store[Task(r)])
          /\ Goto(r, "accepted")
          /\ UNCHANGED <<queue, from, cursor, answer>>
    /\ UNCHANGED <<call, store, queues, log, agentVars>>

\* A request-context interceptor fails.
InterceptorFails(r) ==
    /\ pc[r] = "accepted"
    /\ Op(r) \in Starts
    /\ Reject(r)
    /\ UNCHANGED <<call, store, queues, log, agentVars>>

\* The checks of on_cancel_task and on_subscribe_to_task.
CheckOpenTask(r) ==
    /\ pc[r] = "start"
    /\ Op(r) \in {"cancel", "subscribe"}
    /\ IF store[Task(r)] = NoTask \/ IsTerminal(store[Task(r)])
         THEN Reject(r)
         ELSE /\ Goto(r, "accepted")
              /\ UNCHANGED <<queue, from, cursor, answer>>
    /\ UNCHANGED <<call, store, queues, log, agentVars>>

\* Mutant: a subscriber that takes the task over from its execution.
AbortForAnyone(r) ==
    /\ pc[r] = "accepted"
    /\ Op(r) \in {"cancel", "subscribe"}
    /\ running' = [running EXCEPT ![Task(r)] = Nobody]
    /\ aborting' = [x \in Requests |->
                      aborting[x] \/ (x = running[Task(r)] /\ Active(x))]
    /\ Goto(r, "aborted")
    /\ UNCHANGED <<call, store, queues, log, queue, from, cursor, answer,
                   exec, emitted, unregistered>>

\* on_cancel_task takes the registered handle out and aborts it; aborting a
\* finished execution does nothing.
AbortRunning(r) ==
    /\ pc[r] = "accepted"
    /\ Op(r) = "cancel"
    /\ running' = [running EXCEPT ![Task(r)] = Nobody]
    /\ aborting' = [x \in Requests |->
                      aborting[x] \/ (x = running[Task(r)] /\ Active(x))]
    /\ Goto(r, "aborted")
    /\ UNCHANGED <<call, store, queues, log, queue, from, cursor, answer,
                   exec, emitted, unregistered>>

\* Mutant: the execution is spawned as soon as there is a queue.
GetQueueAndSpawn(r) ==
    /\ \/ pc[r] = "accepted" /\ Op(r) \in Starts
       \/ pc[r] = "aborted"
    /\ LET q == IF queues[Task(r)] = Nobody THEN r ELSE queues[Task(r)]
       IN  /\ queues' = [queues EXCEPT ![Task(r)] = q]
           /\ queue' = [queue EXCEPT ![r] = q]
    /\ exec' = [exec EXCEPT ![r] = "running"]
    /\ Goto(r, "queued")
    /\ UNCHANGED <<call, store, log, from, cursor, answer, emitted, aborting,
                   running, unregistered>>

\* Mutant: a queue of its own for whoever starts the agent.
NewQueue(r) ==
    /\ \/ pc[r] = "accepted" /\ Op(r) \in Starts
       \/ pc[r] = "aborted"
    /\ queues' = [queues EXCEPT ![Task(r)] = r]
    /\ queue' = [queue EXCEPT ![r] = r]
    /\ Goto(r, "queued")
    /\ UNCHANGED <<call, store, log, from, cursor, answer, agentVars>>

GetOrCreateQueue(r) ==
    /\ \/ pc[r] = "accepted" /\ Op(r) \in Starts
       \/ pc[r] = "aborted"
    /\ LET q == IF queues[Task(r)] = Nobody THEN r ELSE queues[Task(r)]
       IN  /\ queues' = [queues EXCEPT ![Task(r)] = q]
           /\ queue' = [queue EXCEPT ![r] = q]
    /\ Goto(r, "queued")
    /\ UNCHANGED <<call, store, log, from, cursor, answer, agentVars>>

\* on_subscribe_to_task needs a queue that exists.
FindQueue(r) ==
    /\ pc[r] = "accepted"
    /\ Op(r) = "subscribe"
    /\ IF queues[Task(r)] = Nobody
         THEN Reject(r)
         ELSE /\ queue' = [queue EXCEPT ![r] = queues[Task(r)]]
              /\ Goto(r, "queued")
              /\ UNCHANGED <<from, cursor, answer>>
    /\ UNCHANGED <<call, store, queues, log, agentVars>>

Subscribe(r) ==
    /\ pc[r] = "queued"
    /\ from' = [from EXCEPT ![r] = Len(Log(r))]
    /\ cursor' = [cursor EXCEPT ![r] = Len(Log(r))]
    /\ Goto(r, IF Op(r) = "subscribe" THEN "streaming" ELSE "subscribed")
    /\ UNCHANGED <<call, store, queues, log, queue, answer, agentVars>>

\* spawn_execution, or the spawn of run_cancel, whose handle nobody keeps.
Spawn(r) ==
    /\ pc[r] = "subscribed"
    /\ exec' = [exec EXCEPT ![r] = "running"]
    /\ unregistered' = IF Op(r) = "cancel" THEN unregistered
                                           ELSE unregistered \cup {r}
    /\ Goto(r, IF Op(r) = "stream" THEN "streaming" ELSE "collecting")
    /\ UNCHANGED <<call, store, queues, log, queue, from, cursor, answer,
                   emitted, aborting, running>>

\* Mutant: handles kept under a key that tasks share, such as the context.
RegisterUnderSharedKey(r) ==
    /\ r \in unregistered
    /\ running' = [t \in TaskIds |-> r]
    /\ unregistered' = unregistered \ {r}
    /\ UNCHANGED <<call, store, queues, log, callVars, exec, emitted, aborting>>

\* The separately spawned insertion into running_tasks.
RegisterHandle(r) ==
    /\ r \in unregistered
    /\ running' = [running EXCEPT ![Task(r)] = r]
    /\ unregistered' = unregistered \ {r}
    /\ UNCHANGED <<call, store, queues, log, callVars, exec, emitted, aborting>>

(* Agent executions ------------------------------------------------------- *)

\* EventQueue::send appends for whoever is listening; with no receiver the
\* event is lost and the sender gets an error.
Deliver(r, event) ==
    log' = IF Receivers(queue[r]) = {} THEN log
           ELSE [log EXCEPT ![queue[r]] = Append(@, [by |-> r, event |-> event])]

\* The agent sends an event.  On an error it gives up (send(..)?) or goes on.
\* A finishing agent returns with its first final event, and has one in time.
Emit(r, event) ==
    /\ exec[r] = "running"
    /\ emitted[r] < MaxEvents
    /\ event \in IF Op(r) = "cancel" THEN CancelEvents ELSE AgentEvents
    /\ AgentsFinish /\ emitted[r] + 1 = MaxEvents => EventIsTerminal(event)
    /\ Deliver(r, event)
    /\ emitted' = [emitted EXCEPT ![r] = @ + 1]
    /\ \/ exec' = [exec EXCEPT ![r] =
                     IF AgentsFinish /\ EventIsTerminal(event)
                       THEN "returned" ELSE "running"]
       \/ /\ Receivers(queue[r]) = {}
          /\ exec' = [exec EXCEPT ![r] = "failing"]
    /\ UNCHANGED <<call, store, queues, callVars, aborting, running, unregistered>>

\* An agent without discipline returns, or fails, whenever it likes.
AgentReturns(r) ==
    /\ ~AgentsFinish
    /\ exec[r] = "running"
    /\ \E outcome \in {"returned", "failing"} :
         exec' = [exec EXCEPT ![r] = outcome]
    /\ UNCHANGED <<call, store, queues, log, callVars, emitted, aborting,
                   running, unregistered>>

\* execute() or cancel() returned an error: save a failed task ...
SaveFailed(r) ==
    /\ exec[r] = "failing"
    /\ store' = [store EXCEPT ![Task(r)] = "Failed"]
    /\ exec' = [exec EXCEPT ![r] = "reporting"]
    /\ UNCHANGED <<call, queues, log, callVars, emitted, aborting, running,
                   unregistered>>

\* ... and tell whoever is still there.
ReportFailed(r) ==
    /\ exec[r] = "reporting"
    /\ Deliver(r, TaskEvent("Failed"))
    /\ exec' = [exec EXCEPT ![r] = "returned"]
    /\ UNCHANGED <<call, store, queues, callVars, emitted, aborting, running,
                   unregistered>>

\* An abort takes effect at one of the execution's next await points (of which
\* there is one between the save and its return if the store is a database).
AbortLands(r) ==
    /\ aborting[r]
    /\ Active(r)
    /\ exec' = [exec EXCEPT ![r] = "aborted"]
    /\ UNCHANGED <<call, store, queues, log, callVars, emitted, aborting,
                   running, unregistered>>

(* Collecting the result -------------------------------------------------- *)

Unread(r) == Len(Log(r)) - cursor[r]

\* Mutant: after a lag, only what comes next is looked at.
SkipToEnd(r) ==
    /\ pc[r] \in {"collecting", "streaming"}
    /\ Unread(r) > Capacity
    /\ cursor' = [cursor EXCEPT ![r] = Len(Log(r))]
    /\ UNCHANGED <<call, store, queues, log, pc, queue, from, answer, agentVars>>

\* Lagged: the channel forgot the oldest unread events; they are skipped,
\* with a warning in collect_result and an error item in a stream.
SkipLagged(r) ==
    /\ pc[r] \in {"collecting", "streaming"}
    /\ Unread(r) > Capacity
    /\ cursor' = [cursor EXCEPT ![r] = Len(Log(r)) - Capacity]
    /\ UNCHANGED <<call, store, queues, log, pc, queue, from, answer, agentVars>>

Receive(r) ==
    /\ pc[r] \in {"collecting", "streaming"}
    /\ Unread(r) \in 1 .. Capacity
    /\ cursor' = [cursor EXCEPT ![r] = @ + 1]
    /\ Goto(r, IF pc[r] = "streaming" THEN "streaming" ELSE "persisting")
    /\ UNCHANGED <<call, store, queues, log, queue, from, answer, agentVars>>

\* The event r received last.
Current(r) == Log(r)[cursor[r]].event

\* The store after an event is persisted that sets the task's state or not.
Persist(r, isSaved, state) ==
    /\ pc[r] = "persisting"
    /\ store' = IF isSaved THEN [store EXCEPT ![Task(r)] = state] ELSE store
    /\ Goto(r, "deciding")
    /\ UNCHANGED <<call, queues, log, queue, from, cursor, answer, agentVars>>

\* Mutants: status updates are not persisted; snapshots are not; an update of
\* an unknown task creates it.
PersistSnapshots(r) ==
    Persist(r, Current(r).kind = "Task", Current(r).state)
PersistUpdates(r) ==
    Persist(r, Current(r).kind = "StatusUpdate" /\ store[Task(r)] # NoTask,
            Current(r).state)
PersistOrCreate(r) ==
    Persist(r, HasState(Current(r)),
            IF store[Task(r)] = NoTask /\ Current(r).kind = "StatusUpdate"
              THEN "Submitted" ELSE Current(r).state)

\* persist_event_snapshot.  A status update reads the task and writes it back
\* in two steps; nothing deletes a task, so for a task that is its state only
\* they are one.  (The push notification is not modelled here.)
PersistEvent(r) ==
    Persist(r, \/ Current(r).kind = "Task"
               \/ Current(r).kind = "StatusUpdate" /\ store[Task(r)] # NoTask,
            Current(r).state)

\* should_interrupt_non_streaming
Interrupts(r, event) ==
    IF IsNonBlocking(r)
      THEN event.kind # "Message"
      ELSE HasState(event) /\ event.state = "AuthRequired"

\* The stored state, or that of the fallback Task::new.
StoredOrNew(r) == IF store[Task(r)] = NoTask THEN "Submitted" ELSE store[Task(r)]

\* What an event that ends the collection is answered with.
AnswerTo(r, event) ==
    CASE Interrupts(r, event) \/ event.kind = "StatusUpdate" -> StoredOrNew(r)
      [] event.kind = "Message" -> IF Op(r) = "cancel" THEN "error" ELSE "Message"
      [] OTHER -> event.state

\* The rest of process_event: leave the loop with an answer, or go round.
Decide(r) ==
    /\ pc[r] = "deciding"
    /\ LET event == Current(r)
       IN  IF Interrupts(r, event) \/ EventIsTerminal(event)
             THEN /\ answer' = [answer EXCEPT ![r] = AnswerTo(r, event)]
                  /\ Goto(r, "answering")
                  /\ DropReceiver(r)
             ELSE /\ Goto(r, "collecting")
                  /\ UNCHANGED <<answer, from, cursor>>
    /\ UNCHANGED <<call, store, queues, log, queue, agentVars>>

\* Mutant: a request that answers leaves its queue behind.
AnswerOnly(r) ==
    /\ pc[r] = "answering"
    /\ Goto(r, "done")
    /\ UNCHANGED <<call, store, queues, log, queue, from, cursor, answer, agentVars>>

\* remove_queue, and the response: whatever queue the task has by now goes.
RemoveQueue(r) ==
    /\ pc[r] = "answering"
    /\ queues' = [queues EXCEPT ![Task(r)] = Nobody]
    /\ Goto(r, "done")
    /\ UNCHANGED <<call, store, log, queue, from, cursor, answer, agentVars>>

(* Streams and connections ------------------------------------------------ *)

\* Closed: a stream ends when every Arc of its queue is gone and it is drained.
StreamEnds(r) ==
    /\ pc[r] = "streaming"
    /\ Unread(r) = 0
    /\ ~Held(queue[r])
    /\ Goto(r, "done")
    /\ DropReceiver(r)
    /\ UNCHANGED <<call, store, queues, log, queue, answer, agentVars>>

\* The connection drops and with it the handler's future, at an await, or the
\* stream; what the request has set in motion stays.
Leave(r) ==
    /\ ClientsLeave
    /\ pc[r] \in {"accepted", "aborted", "collecting", "persisting",
                  "deciding", "answering", "streaming"}
    /\ Goto(r, "done")
    /\ answer' = [answer EXCEPT ![r] = "gone"]
    /\ DropReceiver(r)
    /\ UNCHANGED <<call, store, queues, log, queue, agentVars>>

-----------------------------------------------------------------------------
Arrive(r) == BuildContext(r) \/ CheckOpenTask(r)

Handle(r) ==
    \/ AbortRunning(r)
    \/ GetOrCreateQueue(r)
    \/ FindQueue(r)
    \/ Subscribe(r)
    \/ Spawn(r)
    \/ SkipLagged(r)
    \/ Receive(r)
    \/ PersistEvent(r)
    \/ Decide(r)
    \/ RemoveQueue(r)
    \/ StreamEnds(r)

Execute(r) ==
    \/ \E event \in AgentEvents \cup CancelEvents : Emit(r, event)
    \/ AgentReturns(r)
    \/ SaveFailed(r)
    \/ ReportFailed(r)

Next ==
    \E r \in Requests :
        \/ Arrive(r)
        \/ InterceptorFails(r)
        \/ Handle(r)
        \/ RegisterHandle(r)
        \/ Execute(r)
        \/ AbortLands(r)
        \/ Leave(r)

Spec == Init /\ [][Next]_vars

\* The runtime polls every task that can go on.  Nothing makes a client call.
Fairness ==
    \A r \in Requests :
        /\ WF_vars(Handle(r))
        /\ WF_vars(RegisterHandle(r))
        /\ WF_vars(Execute(r))
        /\ WF_vars(AbortLands(r))

FairSpec == Spec /\ Fairness

-----------------------------------------------------------------------------
Answers == {"none", "error", "gone", "Message"} \cup TaskStates

Places == {"start", "accepted", "aborted", "queued", "subscribed", "collecting",
           "persisting", "deciding", "answering", "streaming", "done"}

LogEntries == [by : Requests, event : Events]

\* Types of the handler's shared state, of the requests and the executions.
TypeOK ==
    /\ call \in [Requests -> [op : Ops, task : TaskIds]]
    /\ store \in [TaskIds -> TaskStates \cup {NoTask}]
    /\ queues \in [TaskIds -> Requests \cup {Nobody}]
    /\ log \in [Requests -> Seq(LogEntries)]
    /\ pc \in [Requests -> Places]
    /\ queue \in [Requests -> Requests \cup {Nobody}]
    /\ from \in [Requests -> Nat]
    /\ cursor \in [Requests -> Nat]
    /\ answer \in [Requests -> Answers]
    /\ exec \in [Requests -> {"none", "running", "failing", "reporting",
                              "returned", "aborted"}]
    /\ emitted \in [Requests -> 0 .. MaxEvents]
    /\ aborting \in [Requests -> BOOLEAN]
    /\ running \in [TaskIds -> Requests \cup {Nobody}]
    /\ unregistered \subseteq Requests

\* A request has a queue it will still deal with.
HasQueue(r) == Listening(r) \/ pc[r] \in {"queued", "answering"}

\* A request's receiver reaches back to before the first event its own
\* execution sent ("subscribe BEFORE spawning so we don't miss any events"),
\* although others may have created, filled or unregistered the queue.
NoOwnEventMissed ==
    \A r \in Requests : Listening(r) =>
        \A i \in 1 .. Len(Log(r)) : Log(r)[i].by = r => i > from[r]

\* A queue a send or a cancel registered is taken out of the map before that
\* request is over, by it or by another request for the task: such requests
\* leak no queue unless their client leaves.  (Streams do leak theirs.)
NoLeakedQueue ==
    \A t \in TaskIds :
        LET q == queues[t]
        IN  q # Nobody /\ Op(q) \in Collects /\ answer[q] # "gone" => HasQueue(q)

\* Only a cancel of the same task, which has got past its checks, ever aborts
\* an execution: handles are not mixed up between tasks, and a cancel that is
\* refused aborts nothing.
OnlyCancelAborts ==
    \A r \in Requests : aborting[r] =>
        \E c \in Requests :
            /\ Op(c) = "cancel" /\ Task(c) = Task(r)
            /\ pc[c] = "aborted" \/ queue[c] # Nobody \/ answer[c] = "gone"

\* The stored state of a task was there at the start, or was sent by an
\* execution for this task, or marks a failed execution for this task.
StoreHasSource ==
    \A t \in TaskIds :
        \/ store[t] \in StoredAtStart
        \/ \E q \in Requests : \E i \in 1 .. Len(log[q]) :
             /\ Task(log[q][i].by) = t
             /\ HasState(log[q][i].event)
             /\ log[q][i].event.state = store[t]
        \/ /\ store[t] = "Failed"
           /\ \E r \in Requests :
                /\ Task(r) = t
                /\ exec[r] \in {"reporting", "returned", "aborted"}

Map == INSTANCE QueueMap WITH
         Callers <- Requests, Keys <- TaskIds, QueueIds <- Requests, NoQueue <- Nobody,
         map <- queues, issued <- {r \in Requests : queue[r] = r}, held <- queue,
         waiting <- {}

\* The handler's requests see a queue map that keeps QueueMap's promises, and
\* use it as callers may: QueueManager keeps the same ones.
UsesQueueMap == Map!Spec

(* What the properties above rest on -------------------------------------- *)

\* A request is only where its operation can bring it, has no queue before it
\* has asked for one and no execution before it has spawned one, and does
\* nothing once its client has left.
StepsInOrder ==
    \A r \in Requests :
        /\ pc[r] = "aborted" => Op(r) = "cancel"
        /\ pc[r] = "subscribed" => Op(r) # "subscribe"
        /\ pc[r] \in {"collecting", "persisting", "deciding", "answering"} =>
             Op(r) \in Collects
        /\ pc[r] = "streaming" => Op(r) \notin Collects
        /\ pc[r] \in {"start", "accepted", "aborted"} => queue[r] = Nobody
        /\ HasQueue(r) \/ exec[r] # "none" => queue[r] # Nobody
        /\ exec[r] # "none" =>
             pc[r] \notin {"start", "accepted", "aborted", "queued", "subscribed"}
        /\ answer[r] = "gone" => pc[r] = "done"

\* Tasks are kept apart: what is registered under a task, used by a request or
\* sent to a queue is that task's own, and was sent by an execution.
TasksApart ==
    /\ \A t \in TaskIds :
         /\ queues[t] # Nobody => Task(queues[t]) = t /\ queue[queues[t]] = queues[t]
         /\ running[t] # Nobody => Task(running[t]) = t
    /\ \A r \in Requests : queue[r] # Nobody => Task(queue[r]) = Task(r)
    /\ \A q \in Requests : \A i \in 1 .. Len(log[q]) :
         Task(log[q][i].by) = Task(q) /\ exec[log[q][i].by] # "none"

\* A receiver stands between its subscription and the end of its queue, and
\* past an event while it deals with one.
ReceiversInLog ==
    \A r \in Requests :
        /\ Listening(r) => from[r] <= cursor[r] /\ cursor[r] <= Len(Log(r))
        /\ pc[r] \in {"persisting", "deciding"} => from[r] < cursor[r]

\* The inductive invariant of the handler, with TypeOK.
HandlerInv ==
    /\ StepsInOrder
    /\ TasksApart
    /\ ReceiversInLog
    /\ NoOwnEventMissed
    /\ NoLeakedQueue
    /\ OnlyCancelAborts
    /\ StoreHasSource

-----------------------------------------------------------------------------
\* TaskState::is_terminal: "terminal (immutable) states where no further
\* changes to the task are permitted".
TerminalIsFinal ==
    [][\A t \in TaskIds : IsTerminal(store[t]) => store'[t] = store[t]]_vars

\* What a request is answered with is what is stored when it is answered.
AnswerIsStored ==
    [][\A r \in Requests :
         pc[r] = "deciding" /\ pc'[r] = "answering" /\ answer'[r] \in TaskStates
           => store[Task(r)] = answer'[r]]_vars

\* "Write A2A events to `queue`; the server consumes them for streaming and
\* persistence": while an agent works there is somebody to consume.
ConsumedWhileRunning ==
    \A r \in Requests : exec[r] = "running" => Receivers(queue[r]) # {}

\* "Abort the running task if exists": cancel aborts what executes the task.
CancelAbortsExecution ==
    [][\A c \in Requests :
         pc[c] = "accepted" /\ pc'[c] = "aborted" =>
           \A r \in Requests :
             Task(r) = Task(c) /\ Op(r) \in Starts /\ exec[r] = "running"
               => aborting'[r]]_vars

-----------------------------------------------------------------------------
\* The events r's queue retains of those sent since r subscribed.
Retained(r) ==
    {i \in from[r] + 1 .. Len(Log(r)) : i > Len(Log(r)) - Capacity}

\* r waits for an event that ends its collection, and none can come: its own
\* execution is over, and aborted ones have the last word in what r's queue
\* retains.  A cancel aborted r's execution before its final event, or aborted
\* executions pushed the final event out of the channel before r got to it.
Deserted(r) ==
    /\ pc[r] = "collecting"
    /\ exec[r] = "aborted" \/ (exec[r] = "returned" /\ Retained(r) # {})
    /\ \A i \in Retained(r) : exec[Log(r)[i].by] = "aborted"

\* However requests share, lag behind and unregister queues, who waits with
\* nothing left to read and no execution at work in its queue is deserted: no
\* final event of an execution that was left to finish is overlooked.
NobodyWaitsInVain ==
    \A r \in Requests :
        /\ pc[r] = "collecting"
        /\ Unread(r) = 0
        /\ \A x \in Requests : queue[x] = queue[r] => ~Active(x)
        => Deserted(r)

\* A send or cancel that arrives is over in the end, with an answer if its client
\* stays, unless it is deserted.
AnsweredOrDeserted ==
    \A r \in Requests : Op(r) \in Collects =>
        <>[](pc[r] \in {"start", "done"} \/ Deserted(r))

\* "... the server consumes them for streaming and persistence": when an
\* execution has sent a final task state, the task is stored as terminal.
FinalStateStored ==
    \A r \in Requests :
        (\E q \in Requests : \E i \in 1 .. Len(log[q]) :
            /\ log[q][i].by = r
            /\ HasState(log[q][i].event)
            /\ IsTerminal(log[q][i].event.state))
          ~> store[Task(r)] \in TaskStates /\ IsTerminal(store[Task(r)])
=============================================================================
