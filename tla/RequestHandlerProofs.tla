------------------------ MODULE RequestHandlerProofs ------------------------
(***************************************************************************)
(* RequestHandler's safety for any requests, tasks, workload, agents and   *)
(* queue capacity: types, and the inductive invariant HandlerInv.  Each    *)
(* part of HandlerInv has a lemma that every step keeps it, with one case  *)
(* for all the actions that leave its variables alone.  Then what holds    *)
(* besides where each task is started by one request (StartersAlone):      *)
(* agents are heard, final states stay and answers are stored; and, where  *)
(* agents end with a final event (AgentsFinish), who waits without anybody *)
(* left to answer.                                                         *)
(***************************************************************************)
EXTENDS RequestHandler, TLAPS

\* A request names an operation and a task.
LEMMA CallTypes ==
    ASSUME TypeOK, NEW r \in Requests
    PROVE  Op(r) \in Ops /\ Task(r) \in TaskIds
BY DEF TypeOK, Op, Task

\* Every event has a state (of no meaning in a message or an artifact update).
LEMMA EventTypes ==
    ASSUME NEW event \in Events
    PROVE  event.state \in TaskStates
BY DEF Events, TaskEvent, StatusUpdateEvent, MessageEvent, ArtifactUpdateEvent, TaskStates

\* Whoever sent an event is a request (the one whose execution sent it).
LEMMA SenderTypes ==
    ASSUME TypeOK, NEW q \in Requests, NEW i \in 1 .. Len(log[q])
    PROVE  log[q][i].by \in Requests
<1>1. log[q] \in Seq(LogEntries)
  BY DEF TypeOK
<1>2. log[q][i] \in LogEntries
  BY <1>1
<1> QED
  BY <1>2 DEF LogEntries

\* Sending extends at most the log of the sender's queue, by one event.
LEMMA DeliverLog ==
    ASSUME TypeOK, NEW r \in Requests, queue[r] # Nobody, NEW event \in Events,
           Deliver(r, event)
    PROVE  /\ log' \in [Requests -> Seq(LogEntries)]
           /\ \A q \in Requests :
                /\ Len(log[q]) <= Len(log'[q])
                /\ \A i \in 1 .. Len(log[q]) : log'[q][i] = log[q][i]
                /\ \A i \in 1 .. Len(log'[q]) : i > Len(log[q]) =>
                     q = queue[r] /\ log'[q][i] = [by |-> r, event |-> event]
<1> DEFINE sent == [by |-> r, event |-> event]
<1>1. queue[r] \in Requests
  BY DEF TypeOK
<1>2. sent \in LogEntries
  BY DEF LogEntries
<1>3. /\ log \in [Requests -> Seq(LogEntries)]
      /\ log' = log \/ log' = [log EXCEPT ![queue[r]] = Append(@, sent)]
  BY DEF TypeOK, Deliver
<1> HIDE DEF sent
<1>4. log' \in [Requests -> Seq(LogEntries)]
  <2>1. CASE log' = [log EXCEPT ![queue[r]] = Append(@, sent)]
    <3>1. Append(log[queue[r]], sent) \in Seq(LogEntries)
      BY <1>1, <1>2, <1>3
    <3> QED
      BY <1>1, <1>3, <2>1, <3>1
  <2> QED
    BY <1>3, <2>1
<1>5. ASSUME NEW q \in Requests
      PROVE  /\ Len(log[q]) <= Len(log'[q])
             /\ \A i \in 1 .. Len(log[q]) : log'[q][i] = log[q][i]
             /\ \A i \in 1 .. Len(log'[q]) : i > Len(log[q]) =>
                  q = queue[r] /\ log'[q][i] = sent
  <2>1. log[q] \in Seq(LogEntries)
    BY <1>3
  <2>2. \/ log'[q] = log[q]
        \/ q = queue[r] /\ log'[q] = Append(log[q], sent)
    BY <1>1, <1>3
  <2> QED
    BY <1>2, <2>1, <2>2
<1> QED
  BY <1>4, <1>5 DEF sent

\* The event a request deals with is one that was sent.
LEMMA CurrentTypes ==
    ASSUME TypeOK, StepsInOrder, ReceiversInLog,
           NEW r \in Requests, pc[r] \in {"persisting", "deciding"}
    PROVE  /\ queue[r] \in Requests
           /\ cursor[r] \in 1 .. Len(log[queue[r]])
           /\ log[queue[r]][cursor[r]] \in LogEntries
           /\ Current(r) \in Events
<1>1. queue[r] \in Requests
  BY DEF TypeOK, StepsInOrder, HasQueue, Listening
<1>2. cursor[r] \in 1 .. Len(log[queue[r]])
  BY <1>1 DEF TypeOK, ReceiversInLog, Listening, Log
<1>3. log[queue[r]][cursor[r]] \in LogEntries
  <2>1. log[queue[r]] \in Seq(LogEntries)
    BY <1>1 DEF TypeOK
  <2> QED
    BY <1>2, <2>1
<1>4. Current(r) = log[queue[r]][cursor[r]].event
  BY DEF Current, Log
<1> HIDE DEF Current
<1> QED
  BY <1>1, <1>2, <1>3, <1>4 DEF LogEntries

(* Types ------------------------------------------------------------------ *)

\* Types hold before the first request.
LEMMA InitTypeOK == Init => TypeOK
BY HandlerAssumption DEF Init, TypeOK, Answers, Places

\* What ends a collection is answered with a state, a message or an error.
LEMMA AnswerTypes ==
    ASSUME TypeOK, StepsInOrder, ReceiversInLog,
           NEW r \in Requests, pc[r] = "deciding"
    PROVE  AnswerTo(r, Current(r)) \in TaskStates \cup {"Message", "error"}
<1>1. Current(r).state \in TaskStates
  BY CurrentTypes, EventTypes
<1>2. StoredOrNew(r) \in TaskStates
  BY CallTypes DEF TypeOK, StoredOrNew, TaskStates, NoTask
<1> QED
  BY <1>1, <1>2 DEF AnswerTo

\* Every step keeps the types.
LEMMA NextTypeOK ==
    TypeOK /\ StepsInOrder /\ ReceiversInLog /\ [Next]_vars => TypeOK'
<1> SUFFICES ASSUME TypeOK, StepsInOrder, ReceiversInLog, [Next]_vars
             PROVE  TypeOK'
  OBVIOUS
<1> USE DEF TypeOK, callVars, agentVars
<1>1. ASSUME NEW r \in Requests, Arrive(r) PROVE TypeOK'
  BY <1>1 DEF Arrive, BuildContext, CheckOpenTask, Reject, Goto, Answers, Places
<1>2. ASSUME NEW r \in Requests, InterceptorFails(r) PROVE TypeOK'
  BY <1>2 DEF InterceptorFails, Reject, Goto, Answers, Places
<1>3. ASSUME NEW r \in Requests, AbortRunning(r) PROVE TypeOK'
  BY <1>3 DEF AbortRunning, Goto, Places, Active
<1>4. ASSUME NEW r \in Requests, GetOrCreateQueue(r) PROVE TypeOK'
  BY <1>4, CallTypes DEF GetOrCreateQueue, Goto, Places
<1>5. ASSUME NEW r \in Requests, FindQueue(r) PROVE TypeOK'
  BY <1>5, CallTypes DEF FindQueue, Reject, Goto, Answers, Places
<1>6. ASSUME NEW r \in Requests, Subscribe(r) PROVE TypeOK'
  BY <1>6 DEF Subscribe, Goto, Places, Log, StepsInOrder, HasQueue
<1>7. ASSUME NEW r \in Requests, Spawn(r) PROVE TypeOK'
  BY <1>7 DEF Spawn, Goto, Places
<1>8. ASSUME NEW r \in Requests, RegisterHandle(r) PROVE TypeOK'
  BY <1>8, CallTypes DEF RegisterHandle
<1>9. ASSUME NEW r \in Requests, NEW event \in AgentEvents \cup CancelEvents, Emit(r, event) PROVE TypeOK'
  <2>1. queue[r] # Nobody /\ event \in Events
    BY <1>9, HandlerAssumption DEF Emit, StepsInOrder
  <2>2. log' \in [Requests -> Seq(LogEntries)]
    BY <1>9, <2>1, DeliverLog DEF Emit
  <2>3. emitted' \in [Requests -> 0 .. MaxEvents]
    BY <1>9, HandlerAssumption DEF Emit
  <2> QED
    BY <1>9, <2>2, <2>3 DEF Emit
<1>10. ASSUME NEW r \in Requests, AgentReturns(r) PROVE TypeOK'
  BY <1>10 DEF AgentReturns
<1>11. ASSUME NEW r \in Requests, SaveFailed(r) PROVE TypeOK'
  BY <1>11, CallTypes DEF SaveFailed, TaskStates
<1>12. ASSUME NEW r \in Requests, ReportFailed(r) PROVE TypeOK'
  <2>1. queue[r] # Nobody /\ TaskEvent("Failed") \in Events
    BY <1>12 DEF ReportFailed, StepsInOrder, Events, TaskStates
  <2>2. log' \in [Requests -> Seq(LogEntries)]
    BY <1>12, <2>1, DeliverLog DEF ReportFailed
  <2> QED
    BY <1>12, <2>2 DEF ReportFailed
<1>13. ASSUME NEW r \in Requests, AbortLands(r) PROVE TypeOK'
  BY <1>13 DEF AbortLands
<1>14. ASSUME NEW r \in Requests, SkipLagged(r) PROVE TypeOK'
  <2>1. Len(Log(r)) \in Nat
    BY <1>14 DEF SkipLagged, StepsInOrder, HasQueue, Listening, Log
  <2>2. Len(Log(r)) - Capacity \in Nat
    BY <1>14, <2>1, HandlerAssumption DEF SkipLagged, Unread
  <2> QED
    BY <1>14, <2>2 DEF SkipLagged
<1>15. ASSUME NEW r \in Requests, Receive(r) PROVE TypeOK'
  BY <1>15 DEF Receive, Goto, Places
<1>16. ASSUME NEW r \in Requests, PersistEvent(r) PROVE TypeOK'
  BY <1>16, CurrentTypes, EventTypes, CallTypes DEF PersistEvent, Persist, Goto, Places
<1>17. ASSUME NEW r \in Requests, Decide(r) PROVE TypeOK'
  <2>1. AnswerTo(r, Current(r)) \in Answers
    BY <1>17, AnswerTypes DEF Decide, Answers
  <2>2. \/ answer' = [answer EXCEPT ![r] = AnswerTo(r, Current(r))]
        \/ answer' = answer
    BY <1>17 DEF Decide
  <2>3. answer' \in [Requests -> Answers]
    BY <2>1, <2>2
  <2>4. /\ pc' \in [Requests -> Places]
        /\ from' \in [Requests -> Nat]
        /\ cursor' \in [Requests -> Nat]
    <3>1. CASE Goto(r, "answering") /\ DropReceiver(r)
      BY <3>1 DEF DropReceiver, Goto, Places
    <3>2. CASE Goto(r, "collecting") /\ UNCHANGED <<from, cursor>>
      BY <3>2 DEF Goto, Places
    <3> QED
      BY <1>17, <3>1, <3>2 DEF Decide
  <2> QED
    BY <1>17, <2>3, <2>4 DEF Decide
<1>18. ASSUME NEW r \in Requests, RemoveQueue(r) PROVE TypeOK'
  BY <1>18, CallTypes DEF RemoveQueue, Goto, Places
<1>19. ASSUME NEW r \in Requests, StreamEnds(r) PROVE TypeOK'
  BY <1>19 DEF StreamEnds, DropReceiver, Goto, Places
<1>20. ASSUME NEW r \in Requests, Leave(r) PROVE TypeOK'
  BY <1>20 DEF Leave, DropReceiver, Goto, Places, Answers
<1>21. CASE UNCHANGED vars
  BY <1>21 DEF vars
<1> QED
  BY <1>1, <1>2, <1>3, <1>4, <1>5, <1>6, <1>7, <1>8, <1>9, <1>10, <1>11, <1>12,
     <1>13, <1>14, <1>15, <1>16, <1>17, <1>18, <1>19, <1>20, <1>21
     DEF Next, Handle, Execute

(* The order of a request's steps ----------------------------------------- *)

\* Requests go through their operation's steps and no others.
LEMMA NextStepsInOrder ==
    TypeOK /\ StepsInOrder /\ ReceiversInLog /\ [Next]_vars => StepsInOrder'
<1> SUFFICES ASSUME TypeOK, StepsInOrder, ReceiversInLog, [Next]_vars
             PROVE  StepsInOrder'
  OBVIOUS
<1>0. /\ pc \in [Requests -> Places]
      /\ queue \in [Requests -> Requests \cup {Nobody}]
      /\ queues \in [TaskIds -> Requests \cup {Nobody}]
      /\ exec \in [Requests -> {"none", "running", "failing", "reporting",
                                "returned", "aborted"}]
      /\ answer \in [Requests -> Answers]
      /\ Nobody \notin Requests
  BY HandlerAssumption DEF TypeOK
<1> USE <1>0 DEF StepsInOrder, HasQueue, Listening, Goto, Op, callVars, agentVars
<1>1. ASSUME NEW r \in Requests, Arrive(r) \/ InterceptorFails(r)
      PROVE  StepsInOrder'
  BY <1>1 DEF Arrive, BuildContext, CheckOpenTask, InterceptorFails, Reject
<1>2. ASSUME NEW r \in Requests, AbortRunning(r)
      PROVE  StepsInOrder'
  BY <1>2 DEF AbortRunning
<1>3. ASSUME NEW r \in Requests, GetOrCreateQueue(r)
      PROVE  StepsInOrder'
  BY <1>3, CallTypes DEF GetOrCreateQueue
<1>4. ASSUME NEW r \in Requests, FindQueue(r)
      PROVE  StepsInOrder'
  BY <1>4, CallTypes DEF FindQueue, Reject
<1>5. ASSUME NEW r \in Requests, Subscribe(r)
      PROVE  StepsInOrder'
  BY <1>5 DEF Subscribe, Collects, Sends
<1>6. ASSUME NEW r \in Requests, Spawn(r)
      PROVE  StepsInOrder'
  BY <1>6, CallTypes DEF Spawn, Collects, Sends, Ops
<1>7. ASSUME NEW r \in Requests, RegisterHandle(r) \/ SkipLagged(r)
      PROVE  StepsInOrder'
  BY <1>7 DEF RegisterHandle, SkipLagged
<1>8. ASSUME NEW r \in Requests, Execute(r) \/ AbortLands(r)
      PROVE  StepsInOrder'
  BY <1>8 DEF Execute, Emit, AgentReturns, SaveFailed, ReportFailed, AbortLands, Active
<1>9. ASSUME NEW r \in Requests, Receive(r) \/ PersistEvent(r)
      PROVE  StepsInOrder'
  BY <1>9 DEF Receive, PersistEvent, Persist
<1>10. ASSUME NEW r \in Requests, Decide(r)
       PROVE  StepsInOrder'
  <2>1. AnswerTo(r, Current(r)) # "gone"
    BY <1>10, AnswerTypes DEF Decide, TaskStates
  <2>2. \/ Goto(r, "answering") /\ answer' = [answer EXCEPT ![r] = AnswerTo(r, Current(r))]
        \/ Goto(r, "collecting") /\ UNCHANGED answer
    BY <1>10 DEF Decide
  <2> QED
    BY <1>10, <2>1, <2>2 DEF Decide
<1>11. ASSUME NEW r \in Requests, RemoveQueue(r) \/ StreamEnds(r) \/ Leave(r)
       PROVE  StepsInOrder'
  BY <1>11 DEF RemoveQueue, StreamEnds, Leave
<1>12. CASE UNCHANGED vars
  BY <1>12 DEF vars
<1> QED
  BY <1>1, <1>2, <1>3, <1>4, <1>5, <1>6, <1>7, <1>8, <1>9, <1>10, <1>11, <1>12
     DEF Next, Handle

(* Tasks are kept apart --------------------------------------------------- *)

\* An execution sends to a queue of its own task.
LEMMA DeliverTasksApart ==
    ASSUME TypeOK, StepsInOrder, TasksApart,
           NEW r \in Requests, NEW event \in Events, Deliver(r, event),
           exec[r] # "none", exec'[r] # "none",
           \A d \in Requests : exec[d] # "none" => exec'[d] # "none",
           UNCHANGED <<call, queues, queue, running>>
    PROVE  TasksApart'
<1>1. queue[r] \in Requests /\ Task(queue[r]) = Task(r)
  BY DEF TypeOK, StepsInOrder, TasksApart
<1>2. \A q \in Requests :
        /\ Len(log[q]) <= Len(log'[q])
        /\ \A i \in 1 .. Len(log[q]) : log'[q][i] = log[q][i]
        /\ \A i \in 1 .. Len(log'[q]) : i > Len(log[q]) =>
             q = queue[r] /\ log'[q][i] = [by |-> r, event |-> event]
  BY <1>1, HandlerAssumption, DeliverLog
<1>3. call' = call /\ queues' = queues /\ queue' = queue /\ running' = running
  OBVIOUS
<1>4. ASSUME NEW q \in Requests, NEW i \in 1 .. Len(log'[q])
      PROVE  Task(log'[q][i].by) = Task(q) /\ exec'[log'[q][i].by] # "none"
  <2>1. CASE i \in 1 .. Len(log[q])
    <3>1. Task(log[q][i].by) = Task(q) /\ exec[log[q][i].by] # "none"
      BY <2>1 DEF TasksApart
    <3>2. log'[q][i] = log[q][i] /\ log[q][i].by \in Requests
      BY <1>2, <2>1, SenderTypes
    <3> QED
      BY <3>1, <3>2
  <2>2. CASE i > Len(log[q])
    <3>1. q = queue[r] /\ log'[q][i] = [by |-> r, event |-> event]
      BY <1>2, <2>2
    <3> QED
      BY <1>1, <3>1
  <2>3. Len(log[q]) \in Nat /\ i \in Nat
    BY DEF TypeOK
  <2> QED
    BY <2>1, <2>2, <2>3
<1> QED
  BY <1>3, <1>4 DEF TasksApart, Task

\* Every step files queues, handles and events under their own task.
LEMMA NextTasksApart ==
    TypeOK /\ StepsInOrder /\ TasksApart /\ [Next]_vars => TasksApart'
<1> SUFFICES ASSUME TypeOK, StepsInOrder, TasksApart, [Next]_vars
             PROVE  TasksApart'
  OBVIOUS
<1>0. /\ queue \in [Requests -> Requests \cup {Nobody}]
      /\ queues \in [TaskIds -> Requests \cup {Nobody}]
      /\ running \in [TaskIds -> Requests \cup {Nobody}]
      /\ exec \in [Requests -> {"none", "running", "failing", "reporting",
                                "returned", "aborted"}]
      /\ log \in [Requests -> Seq(LogEntries)]
      /\ Nobody \notin Requests
  BY HandlerAssumption DEF TypeOK
<1>00. \A q \in Requests : \A i \in 1 .. Len(log[q]) : log[q][i].by \in Requests
  BY SenderTypes
<1> USE <1>0, <1>00 DEF TasksApart, Task, callVars, agentVars
<1>1. ASSUME NEW r \in Requests,
             \/ Arrive(r) \/ InterceptorFails(r) \/ Subscribe(r) \/ SkipLagged(r)
             \/ Receive(r) \/ PersistEvent(r) \/ Decide(r) \/ StreamEnds(r) \/ Leave(r)
      PROVE  TasksApart'
  BY <1>1 DEF Arrive, BuildContext, CheckOpenTask, InterceptorFails, Reject, Subscribe,
              SkipLagged, Receive, PersistEvent, Persist, Decide, StreamEnds, Leave
<1>2. ASSUME NEW r \in Requests, AbortRunning(r)
      PROVE  TasksApart'
  BY <1>2 DEF AbortRunning
<1>3. ASSUME NEW r \in Requests, GetOrCreateQueue(r)
      PROVE  TasksApart'
  <2>1. Task(r) \in TaskIds
    BY CallTypes
  <2>2. PICK q \in Requests :
          /\ q = r \/ q = queues[Task(r)]
          /\ queues' = [queues EXCEPT ![Task(r)] = q]
          /\ queue' = [queue EXCEPT ![r] = q]
    <3>1. queues[Task(r)] \in Requests \cup {Nobody}
      BY <2>1
    <3> QED
      BY <1>3, <3>1 DEF GetOrCreateQueue
  <2>3. Task(q) = Task(r) /\ queue'[q] = q /\ queue'[r] = q
    BY <2>1, <2>2
  <2>4. UNCHANGED <<call, log, exec, running>>
    BY <1>3 DEF GetOrCreateQueue
  <2>5. ASSUME NEW t \in TaskIds, queues'[t] # Nobody
        PROVE  Task(queues'[t]) = t /\ queue'[queues'[t]] = queues'[t]
    BY <2>1, <2>2, <2>3, <2>5
  <2>6. \A d \in Requests : queue'[d] # Nobody => Task(queue'[d]) = Task(d)
    BY <2>2, <2>3
  <2> QED
    BY <2>4, <2>5, <2>6
<1>4. ASSUME NEW r \in Requests, FindQueue(r)
      PROVE  TasksApart'
  BY <1>4, CallTypes DEF FindQueue, Reject
<1>5. ASSUME NEW r \in Requests, Spawn(r)
      PROVE  TasksApart'
  BY <1>5 DEF Spawn
<1>6. ASSUME NEW r \in Requests, RegisterHandle(r)
      PROVE  TasksApart'
  BY <1>6, CallTypes DEF RegisterHandle
<1>7. ASSUME NEW r \in Requests, NEW event \in Events, Deliver(r, event),
             exec[r] # "none", exec'[r] # "none",
             \A d \in Requests : exec[d] # "none" => exec'[d] # "none",
             UNCHANGED <<call, queues, queue, running>>
      PROVE  TasksApart'
  BY <1>7, DeliverTasksApart
<1>8. ASSUME NEW r \in Requests, NEW event \in AgentEvents \cup CancelEvents,
             Emit(r, event)
      PROVE  TasksApart'
  <2>1. event \in Events
    BY HandlerAssumption
  <2>2. Deliver(r, event) /\ exec[r] # "none" /\ UNCHANGED <<call, queues, queue, running>>
    BY <1>8 DEF Emit
  <2>3. exec'[r] # "none" /\ \A d \in Requests : exec[d] # "none" => exec'[d] # "none"
    BY <1>8 DEF Emit
  <2> QED
    BY <1>7, <2>1, <2>2, <2>3
<1>9. ASSUME NEW r \in Requests, ReportFailed(r)
      PROVE  TasksApart'
  BY <1>7, <1>9 DEF ReportFailed, Events, TaskStates
<1>10. ASSUME NEW r \in Requests, AgentReturns(r) \/ SaveFailed(r) \/ AbortLands(r)
       PROVE  TasksApart'
  BY <1>10 DEF AgentReturns, SaveFailed, AbortLands
<1>11. ASSUME NEW r \in Requests, RemoveQueue(r)
       PROVE  TasksApart'
  BY <1>11, CallTypes DEF RemoveQueue
<1>12. CASE UNCHANGED vars
  BY <1>12 DEF vars
<1> QED
  BY <1>1, <1>2, <1>3, <1>4, <1>5, <1>6, <1>8, <1>9, <1>10, <1>11, <1>12
     DEF Next, Handle, Execute

(* Receivers and what they miss ------------------------------------------- *)

\* Sending leaves every receiver where it was, in front of the new event.
LEMMA DeliverReceivers ==
    ASSUME TypeOK, StepsInOrder, ReceiversInLog, NoOwnEventMissed,
           NEW r \in Requests, NEW event \in Events, Deliver(r, event),
           exec[r] # "none", UNCHANGED callVars
    PROVE  ReceiversInLog' /\ NoOwnEventMissed'
<1>1. queue[r] # Nobody
  BY DEF StepsInOrder
<1>2. /\ log' \in [Requests -> Seq(LogEntries)]
      /\ \A q \in Requests :
        /\ Len(log[q]) <= Len(log'[q])
        /\ \A i \in 1 .. Len(log[q]) : log'[q][i] = log[q][i]
        /\ \A i \in 1 .. Len(log'[q]) : i > Len(log[q]) =>
             q = queue[r] /\ log'[q][i] = [by |-> r, event |-> event]
  BY <1>1, DeliverLog
<1>3. pc' = pc /\ queue' = queue /\ from' = from /\ cursor' = cursor
  BY DEF callVars
<1>4. ASSUME NEW d \in Requests
      PROVE  /\ Listening(d) => from[d] <= cursor[d] /\ cursor[d] <= Len(log'[queue[d]])
             /\ pc[d] \in {"persisting", "deciding"} => from[d] < cursor[d]
             /\ Listening(d) => \A i \in 1 .. Len(log'[queue[d]]) :
                                  log'[queue[d]][i].by = d => i > from[d]
  <2>1. pc[d] \in {"persisting", "deciding"} => from[d] < cursor[d]
    BY DEF ReceiversInLog
  <2>2. ASSUME Listening(d)
        PROVE  /\ from[d] <= cursor[d]
               /\ cursor[d] <= Len(log'[queue[d]])
               /\ \A i \in 1 .. Len(log'[queue[d]]) :
                    log'[queue[d]][i].by = d => i > from[d]
    <3>1. queue[d] \in Requests
      BY <2>2 DEF TypeOK, StepsInOrder, HasQueue
    <3>2. /\ from[d] \in Nat /\ cursor[d] \in Nat
          /\ Len(log[queue[d]]) \in Nat /\ Len(log'[queue[d]]) \in Nat
      BY <1>2, <3>1 DEF TypeOK
    <3>3. from[d] <= cursor[d] /\ cursor[d] <= Len(log[queue[d]])
      BY <2>2 DEF ReceiversInLog, Log
    <3>4. ASSUME NEW i \in 1 .. Len(log'[queue[d]]), log'[queue[d]][i].by = d
          PROVE  i > from[d]
      <4>1. CASE i \in 1 .. Len(log[queue[d]])
        <5>1. log[queue[d]][i].by = d
          BY <1>2, <3>1, <3>4, <4>1
        <5> QED
          BY <2>2, <4>1, <5>1 DEF NoOwnEventMissed, Log
      <4> QED
        BY <3>2, <3>3, <4>1
    <3> QED
      BY <1>2, <3>1, <3>2, <3>3, <3>4
  <2> QED
    BY <2>1, <2>2
<1> QED
  BY <1>3, <1>4 DEF ReceiversInLog, NoOwnEventMissed, Listening, Log

\* Receivers move forward only, and start before their own execution does.
LEMMA NextReceivers ==
    /\ TypeOK /\ StepsInOrder /\ TasksApart /\ ReceiversInLog /\ NoOwnEventMissed
    /\ [Next]_vars
    => ReceiversInLog' /\ NoOwnEventMissed'
<1> SUFFICES ASSUME TypeOK, StepsInOrder, TasksApart, ReceiversInLog, NoOwnEventMissed,
                    [Next]_vars
             PROVE  ReceiversInLog' /\ NoOwnEventMissed'
  OBVIOUS
<1>0. /\ pc \in [Requests -> Places]
      /\ queue \in [Requests -> Requests \cup {Nobody}]
      /\ from \in [Requests -> Nat]
      /\ cursor \in [Requests -> Nat]
      /\ \A q \in Requests : Len(log[q]) \in Nat
      /\ \A d \in Requests : Listening(d) => queue[d] \in Requests
  BY DEF TypeOK, StepsInOrder, HasQueue
<1> USE <1>0 DEF ReceiversInLog, NoOwnEventMissed, Listening, Log, Goto, callVars, agentVars
<1>1. ASSUME NEW r \in Requests, Arrive(r) \/ InterceptorFails(r) \/ FindQueue(r)
      PROVE  ReceiversInLog' /\ NoOwnEventMissed'
  BY <1>1, ZenonT(40) DEF Arrive, BuildContext, CheckOpenTask, InterceptorFails, FindQueue, Reject
<1>2. ASSUME NEW r \in Requests, AbortRunning(r) \/ GetOrCreateQueue(r)
      PROVE  ReceiversInLog' /\ NoOwnEventMissed'
  BY <1>2 DEF AbortRunning, GetOrCreateQueue
<1>3. ASSUME NEW r \in Requests, Subscribe(r)
      PROVE  ReceiversInLog' /\ NoOwnEventMissed'
  <2>1. queue[r] \in Requests /\ exec[r] = "none"
    BY <1>3 DEF Subscribe, TypeOK, StepsInOrder, HasQueue
  <2>2. \A i \in 1 .. Len(log[queue[r]]) : log[queue[r]][i].by # r
    BY <2>1 DEF TasksApart
  <2>3. /\ from' = [from EXCEPT ![r] = Len(log[queue[r]])]
        /\ cursor' = [cursor EXCEPT ![r] = Len(log[queue[r]])]
        /\ log' = log /\ queue' = queue
        /\ pc'[r] \notin {"persisting", "deciding"}
        /\ \A d \in Requests \ {r} : pc'[d] = pc[d]
    BY <1>3 DEF Subscribe
  <2>4. Len(log[queue[r]]) \in Nat
    BY <2>1
  <2>5. from'[r] = Len(log[queue[r]]) /\ cursor'[r] = Len(log[queue[r]])
    BY <2>3
  <2>6. \A d \in Requests \ {r} :
          pc'[d] = pc[d] /\ from'[d] = from[d] /\ cursor'[d] = cursor[d]
    BY <2>3
  <2>7. ReceiversInLog'
    BY <2>3, <2>4, <2>5, <2>6
  <2>8. NoOwnEventMissed'
    BY <2>2, <2>3, <2>5, <2>6
  <2> QED
    BY <2>7, <2>8
<1>4. ASSUME NEW r \in Requests, Spawn(r) \/ RegisterHandle(r)
      PROVE  ReceiversInLog' /\ NoOwnEventMissed'
  BY <1>4 DEF Spawn, RegisterHandle
<1>5. ASSUME NEW r \in Requests, NEW event \in AgentEvents \cup CancelEvents,
             Emit(r, event)
      PROVE  ReceiversInLog' /\ NoOwnEventMissed'
  BY <1>5, DeliverReceivers, HandlerAssumption DEF Emit
<1>6. ASSUME NEW r \in Requests, ReportFailed(r)
      PROVE  ReceiversInLog' /\ NoOwnEventMissed'
  BY <1>6, DeliverReceivers DEF ReportFailed, Events, TaskStates
<1>7. ASSUME NEW r \in Requests, AgentReturns(r) \/ SaveFailed(r) \/ AbortLands(r)
      PROVE  ReceiversInLog' /\ NoOwnEventMissed'
  BY <1>7 DEF AgentReturns, SaveFailed, AbortLands
<1>8. ASSUME NEW r \in Requests, SkipLagged(r)
      PROVE  ReceiversInLog' /\ NoOwnEventMissed'
  BY <1>8, HandlerAssumption, SMTT(30) DEF SkipLagged, Unread
<1>9. ASSUME NEW r \in Requests, Receive(r)
      PROVE  ReceiversInLog' /\ NoOwnEventMissed'
  BY <1>9, HandlerAssumption, SMTT(30) DEF Receive, Unread
<1>10. ASSUME NEW r \in Requests, PersistEvent(r) \/ RemoveQueue(r)
       PROVE  ReceiversInLog' /\ NoOwnEventMissed'
  BY <1>10 DEF PersistEvent, Persist, RemoveQueue
<1>11. ASSUME NEW r \in Requests, Decide(r) \/ StreamEnds(r) \/ Leave(r)
       PROVE  ReceiversInLog' /\ NoOwnEventMissed'
  BY <1>11, ZenonT(40) DEF Decide, StreamEnds, Leave, DropReceiver
<1>12. CASE UNCHANGED vars
  BY <1>12 DEF vars
<1> QED
  BY <1>1, <1>2, <1>3, <1>4, <1>5, <1>6, <1>7, <1>8, <1>9, <1>10, <1>11, <1>12
     DEF Next, Handle, Execute

(* Queues and handles ----------------------------------------------------- *)

\* Whoever is done with the queue it registered has unregistered it.
LEMMA NextNoLeakedQueue ==
    TypeOK /\ StepsInOrder /\ TasksApart /\ NoLeakedQueue /\ [Next]_vars => NoLeakedQueue'
<1> SUFFICES ASSUME TypeOK, StepsInOrder, TasksApart, NoLeakedQueue, [Next]_vars
             PROVE  NoLeakedQueue'
  OBVIOUS
<1>0. /\ pc \in [Requests -> Places]
      /\ queues \in [TaskIds -> Requests \cup {Nobody}]
      /\ answer \in [Requests -> Answers]
      /\ \A t \in TaskIds : queues[t] # Nobody => Task(queues[t]) = t
      /\ \A d \in Requests : answer[d] = "gone" => pc[d] = "done"
      /\ \A d \in Requests : pc[d] = "streaming" => Op(d) \notin Collects
      /\ Nobody \notin Requests
  BY HandlerAssumption DEF TypeOK, StepsInOrder, TasksApart
<1> USE <1>0 DEF NoLeakedQueue, HasQueue, Listening, Op, Goto, callVars, agentVars
<1>1. ASSUME NEW r \in Requests, Arrive(r) \/ InterceptorFails(r) \/ FindQueue(r)
      PROVE  NoLeakedQueue'
  BY <1>1 DEF Arrive, BuildContext, CheckOpenTask, InterceptorFails, FindQueue, Reject
<1>2. ASSUME NEW r \in Requests, AbortRunning(r)
      PROVE  NoLeakedQueue'
  BY <1>2 DEF AbortRunning
<1>3. ASSUME NEW r \in Requests, GetOrCreateQueue(r)
      PROVE  NoLeakedQueue'
  BY <1>3, CallTypes DEF GetOrCreateQueue
<1>4. ASSUME NEW r \in Requests,
             \/ Subscribe(r) \/ Spawn(r) \/ RegisterHandle(r) \/ AbortLands(r)
             \/ SkipLagged(r) \/ Receive(r) \/ PersistEvent(r)
      PROVE  NoLeakedQueue'
  BY <1>4 DEF Subscribe, Spawn, RegisterHandle, AbortLands, SkipLagged, Receive,
              PersistEvent, Persist
<1>5. ASSUME NEW r \in Requests, Execute(r)
      PROVE  NoLeakedQueue'
  BY <1>5 DEF Execute, Emit, AgentReturns, SaveFailed, ReportFailed
<1>6. ASSUME NEW r \in Requests, Decide(r)
      PROVE  NoLeakedQueue'
  BY <1>6 DEF Decide
<1>7. ASSUME NEW r \in Requests, RemoveQueue(r)
      PROVE  NoLeakedQueue'
  BY <1>7, CallTypes DEF RemoveQueue
<1>8. ASSUME NEW r \in Requests, StreamEnds(r) \/ Leave(r)
      PROVE  NoLeakedQueue'
  BY <1>8 DEF StreamEnds, Leave
<1>9. CASE UNCHANGED vars
  BY <1>9 DEF vars
<1> QED
  BY <1>1, <1>2, <1>3, <1>4, <1>5, <1>6, <1>7, <1>8, <1>9 DEF Next, Handle

\* Only the abort of a cancel marks an execution, one of the same task.
LEMMA NextOnlyCancelAborts ==
    TypeOK /\ StepsInOrder /\ TasksApart /\ OnlyCancelAborts /\ [Next]_vars
      => OnlyCancelAborts'
<1> SUFFICES ASSUME TypeOK, StepsInOrder, TasksApart, OnlyCancelAborts, [Next]_vars
             PROVE  OnlyCancelAborts'
  OBVIOUS
<1>0. /\ pc \in [Requests -> Places]
      /\ queue \in [Requests -> Requests \cup {Nobody}]
      /\ queues \in [TaskIds -> Requests \cup {Nobody}]
      /\ answer \in [Requests -> Answers]
      /\ aborting \in [Requests -> BOOLEAN]
      /\ \A d \in Requests : answer[d] = "gone" => pc[d] = "done"
      /\ Nobody \notin Requests
  BY HandlerAssumption DEF TypeOK, StepsInOrder
<1> USE <1>0 DEF OnlyCancelAborts, Op, Task, Goto, callVars, agentVars
<1>1. ASSUME NEW r \in Requests, Arrive(r) \/ InterceptorFails(r)
      PROVE  OnlyCancelAborts'
  BY <1>1 DEF Arrive, BuildContext, CheckOpenTask, InterceptorFails, Reject
<1>2. ASSUME NEW r \in Requests, AbortRunning(r)
      PROVE  OnlyCancelAborts'
  <2>1. \A d \in Requests : aborting'[d] => aborting[d] \/ Task(d) = Task(r)
    BY <1>2, CallTypes DEF AbortRunning, TasksApart
  <2>2. /\ Op(r) = "cancel" /\ pc'[r] = "aborted" /\ pc[r] = "accepted"
        /\ \A d \in Requests \ {r} : pc'[d] = pc[d]
        /\ UNCHANGED <<call, queue, answer>>
    BY <1>2 DEF AbortRunning
  <2> QED
    BY <2>1, <2>2
<1>3. ASSUME NEW r \in Requests, GetOrCreateQueue(r) \/ FindQueue(r)
      PROVE  OnlyCancelAborts'
  BY <1>3, CallTypes DEF GetOrCreateQueue, FindQueue, Reject
<1>4. ASSUME NEW r \in Requests,
             \/ Subscribe(r) \/ Spawn(r) \/ RegisterHandle(r) \/ AbortLands(r)
             \/ SkipLagged(r) \/ Receive(r) \/ PersistEvent(r) \/ RemoveQueue(r)
      PROVE  OnlyCancelAborts'
  BY <1>4 DEF Subscribe, Spawn, RegisterHandle, AbortLands, SkipLagged, Receive,
              PersistEvent, Persist, RemoveQueue
<1>5. ASSUME NEW r \in Requests, Execute(r)
      PROVE  OnlyCancelAborts'
  BY <1>5 DEF Execute, Emit, AgentReturns, SaveFailed, ReportFailed
<1>6. ASSUME NEW r \in Requests, Decide(r)
      PROVE  OnlyCancelAborts'
  BY <1>6 DEF Decide
<1>7. ASSUME NEW r \in Requests, StreamEnds(r) \/ Leave(r)
      PROVE  OnlyCancelAborts'
  BY <1>7 DEF StreamEnds, Leave
<1>8. CASE UNCHANGED vars
  BY <1>8 DEF vars
<1> QED
  BY <1>1, <1>2, <1>3, <1>4, <1>5, <1>6, <1>7, <1>8 DEF Next, Handle

(* Stored states ---------------------------------------------------------- *)

\* What was sent stays sent, so what a stored state came from stays there.
LEMMA DeliverStoreHasSource ==
    ASSUME TypeOK, StepsInOrder, StoreHasSource,
           NEW r \in Requests, NEW event \in Events, Deliver(r, event), exec[r] # "none",
           UNCHANGED <<call, store>>,
           \A d \in Requests : exec[d] \in {"reporting", "returned", "aborted"} =>
                              exec'[d] \in {"reporting", "returned", "aborted"}
    PROVE  StoreHasSource'
<1>1. queue[r] # Nobody
  BY DEF StepsInOrder
<1>2. \A q \in Requests :
        /\ Len(log[q]) <= Len(log'[q])
        /\ \A i \in 1 .. Len(log[q]) : log'[q][i] = log[q][i]
        /\ \A i \in 1 .. Len(log'[q]) : i > Len(log[q]) =>
             q = queue[r] /\ log'[q][i] = [by |-> r, event |-> event]
  BY <1>1, DeliverLog
<1>3. \A q \in Requests : Len(log[q]) \in Nat /\ Len(log'[q]) \in Nat
  BY <1>1, DeliverLog, SMTT(30) DEF TypeOK
<1>4. ASSUME NEW q \in Requests, NEW i \in 1 .. Len(log[q])
      PROVE  i \in 1 .. Len(log'[q]) /\ log'[q][i] = log[q][i]
  BY <1>2, <1>3
<1>5. ASSUME NEW t \in TaskIds
      PROVE  \/ store[t] \in StoredAtStart
             \/ \E q \in Requests : \E i \in 1 .. Len(log'[q]) :
                  /\ Task(log'[q][i].by) = t
                  /\ HasState(log'[q][i].event)
                  /\ log'[q][i].event.state = store[t]
             \/ /\ store[t] = "Failed"
                /\ \E d \in Requests :
                     Task(d) = t /\ exec'[d] \in {"reporting", "returned", "aborted"}
  <2>1. CASE \E q \in Requests : \E i \in 1 .. Len(log[q]) :
               /\ Task(log[q][i].by) = t
               /\ HasState(log[q][i].event)
               /\ log[q][i].event.state = store[t]
    BY <1>4, <2>1
  <2>2. CASE store[t] = "Failed" /\ \E d \in Requests :
               Task(d) = t /\ exec[d] \in {"reporting", "returned", "aborted"}
    BY <2>2
  <2> QED
    BY <2>1, <2>2 DEF StoreHasSource
<1> QED
  BY <1>5 DEF StoreHasSource, Task

\* What a request persists was sent on a queue of its own task.
LEMMA NextStoreHasSource ==
    /\ TypeOK /\ StepsInOrder /\ TasksApart /\ ReceiversInLog /\ StoreHasSource
    /\ [Next]_vars
    => StoreHasSource'
<1> SUFFICES ASSUME TypeOK, StepsInOrder, TasksApart, ReceiversInLog, StoreHasSource,
                    [Next]_vars
             PROVE  StoreHasSource'
  OBVIOUS
<1>0. /\ store \in [TaskIds -> TaskStates \cup {NoTask}]
      /\ exec \in [Requests -> {"none", "running", "failing", "reporting",
                                "returned", "aborted"}]
  BY DEF TypeOK
<1> USE <1>0 DEF StoreHasSource, Task, callVars, agentVars
<1>1. ASSUME NEW r \in Requests,
             \/ Arrive(r) \/ InterceptorFails(r) \/ AbortRunning(r) \/ GetOrCreateQueue(r)
             \/ FindQueue(r) \/ Subscribe(r) \/ RegisterHandle(r) \/ SkipLagged(r)
             \/ Receive(r) \/ Decide(r) \/ RemoveQueue(r) \/ StreamEnds(r) \/ Leave(r)
      PROVE  StoreHasSource'
  <2>1. UNCHANGED <<call, store, log, exec>>
    BY <1>1 DEF Arrive, BuildContext, CheckOpenTask, InterceptorFails, AbortRunning,
                GetOrCreateQueue, FindQueue, Subscribe, RegisterHandle, SkipLagged,
                Receive, Decide, RemoveQueue, StreamEnds, Leave
  <2> QED
    BY <2>1
<1>2. ASSUME NEW r \in Requests, Spawn(r)
      PROVE  StoreHasSource'
  BY <1>2 DEF Spawn, StepsInOrder
<1>3. ASSUME NEW r \in Requests, NEW event \in AgentEvents \cup CancelEvents,
             Emit(r, event)
      PROVE  StoreHasSource'
  <2>1. event \in Events
    BY HandlerAssumption
  <2>2. Deliver(r, event) /\ exec[r] # "none" /\ UNCHANGED <<call, store>>
    BY <1>3 DEF Emit
  <2>3. \A d \in Requests : exec[d] \in {"reporting", "returned", "aborted"} =>
                            exec'[d] \in {"reporting", "returned", "aborted"}
    BY <1>3 DEF Emit
  <2> QED
    BY <2>1, <2>2, <2>3, DeliverStoreHasSource
<1>4. ASSUME NEW r \in Requests, ReportFailed(r)
      PROVE  StoreHasSource'
  <2>1. TaskEvent("Failed") \in Events
    BY DEF Events, TaskStates
  <2>2. /\ Deliver(r, TaskEvent("Failed"))
        /\ exec[r] # "none"
        /\ UNCHANGED <<call, store>>
    BY <1>4 DEF ReportFailed
  <2>3. \A d \in Requests : exec[d] \in {"reporting", "returned", "aborted"} =>
                            exec'[d] \in {"reporting", "returned", "aborted"}
    BY <1>4 DEF ReportFailed
  <2> QED
    BY <2>1, <2>2, <2>3, DeliverStoreHasSource
<1>5. ASSUME NEW r \in Requests, AgentReturns(r) \/ AbortLands(r)
      PROVE  StoreHasSource'
  BY <1>5 DEF AgentReturns, AbortLands, Active
<1>6. ASSUME NEW r \in Requests, SaveFailed(r)
      PROVE  StoreHasSource'
  BY <1>6, CallTypes DEF SaveFailed
<1>7. ASSUME NEW r \in Requests, PersistEvent(r)
      PROVE  StoreHasSource'
  <2>1. /\ queue[r] \in Requests
        /\ cursor[r] \in 1 .. Len(log[queue[r]])
        /\ Current(r) = log[queue[r]][cursor[r]].event
    BY <1>7, CurrentTypes DEF PersistEvent, Persist, Current, Log
  <2>2. Task(log[queue[r]][cursor[r]].by) = Task(r)
    <3>1. queue[r] # Nobody
      BY <2>1, HandlerAssumption
    <3>2. Task(queue[r]) = Task(r)
      BY <3>1 DEF TasksApart
    <3>3. Task(log[queue[r]][cursor[r]].by) = Task(queue[r])
      BY <2>1 DEF TasksApart
    <3> QED
      BY <3>2, <3>3
  <2>3. \/ store' = store
        \/ /\ HasState(Current(r))
           /\ store' = [store EXCEPT ![Task(r)] = Current(r).state]
    BY <1>7 DEF PersistEvent, Persist, HasState
  <2>4. UNCHANGED <<call, log, exec>>
    BY <1>7 DEF PersistEvent, Persist
  <2> HIDE DEF Current
  <2>5. ASSUME NEW t \in TaskIds, store'[t] # store[t]
        PROVE  \E q \in Requests : \E i \in 1 .. Len(log[q]) :
                 /\ Task(log[q][i].by) = t
                 /\ HasState(log[q][i].event)
                 /\ log[q][i].event.state = store'[t]
    <3>1. t = Task(r) /\ HasState(Current(r)) /\ store'[t] = Current(r).state
      BY <2>3, <2>5
    <3> USE <2>1
    <3> WITNESS queue[r] \in Requests
    <3> WITNESS cursor[r] \in 1 .. Len(log[queue[r]])
    <3> QED
      BY <2>2, <3>1
  <2>6. \A t \in TaskIds : store'[t] = store[t] \/ store'[t] # store[t]
    OBVIOUS
  <2> QED
    BY <2>4, <2>5, <2>6
<1>8. CASE UNCHANGED vars
  BY <1>8 DEF vars
<1> QED
  BY <1>1, <1>2, <1>3, <1>4, <1>5, <1>6, <1>7, <1>8 DEF Next, Handle, Execute

(* The theorems ----------------------------------------------------------- *)

\* The handler starts with nothing registered, sent, read or aborted.
LEMMA InitHandlerInv == Init => HandlerInv
<1> SUFFICES ASSUME Init PROVE HandlerInv
  OBVIOUS
<1> USE HandlerAssumption DEF Init
<1>1. StepsInOrder
  BY DEF StepsInOrder, HasQueue, Listening
<1>2. TasksApart
  BY DEF TasksApart
<1>3. ReceiversInLog /\ NoOwnEventMissed
  BY DEF ReceiversInLog, NoOwnEventMissed, Listening
<1>4. NoLeakedQueue /\ OnlyCancelAborts
  BY DEF NoLeakedQueue, OnlyCancelAborts
<1>5. StoreHasSource
  BY DEF StoreHasSource
<1> QED
  BY <1>1, <1>2, <1>3, <1>4, <1>5 DEF HandlerInv

\* Types and HandlerInv are inductive together: a request's progress decides
\* whose queue it can hold, hence whose events it can see and store.
LEMMA Invariance == Spec => [](TypeOK /\ HandlerInv)
<1>1. TypeOK /\ HandlerInv /\ [Next]_vars => (TypeOK /\ HandlerInv)'
  BY NextTypeOK, NextStepsInOrder, NextTasksApart, NextReceivers, NextNoLeakedQueue,
     NextOnlyCancelAborts, NextStoreHasSource DEF HandlerInv
<1> QED
  BY <1>1, InitTypeOK, InitHandlerInv, PTL DEF Spec

\* The handler's shared state, its requests and executions have their types.
THEOREM TypeCorrect == Spec => []TypeOK
BY Invariance, PTL

\* All that is checked of the handler's states, for any number of everything.
THEOREM HandlerInvariant == Spec => []HandlerInv
BY Invariance, PTL

\* A request sees everything its own execution sends from the first event on.
THEOREM OwnEventsSeen == Spec => []NoOwnEventMissed
<1>1. HandlerInv => NoOwnEventMissed
  BY DEF HandlerInv
<1> QED
  BY <1>1, HandlerInvariant, PTL

\* Sends and cancels that are answered, refused or under way leak no queue.
THEOREM NoQueueLeaked == Spec => []NoLeakedQueue
<1>1. HandlerInv => NoLeakedQueue
  BY DEF HandlerInv
<1> QED
  BY <1>1, HandlerInvariant, PTL

\* An execution is aborted by a cancel of its own task only.
THEOREM AbortedByOwnCancel == Spec => []OnlyCancelAborts
<1>1. HandlerInv => OnlyCancelAborts
  BY DEF HandlerInv
<1> QED
  BY <1>1, HandlerInvariant, PTL

\* No task is ever stored in a state that was not its own.
THEOREM StoredStatesHaveSources == Spec => []StoreHasSource
<1>1. HandlerInv => StoreHasSource
  BY DEF HandlerInv
<1> QED
  BY <1>1, HandlerInvariant, PTL

(* The queue map the handler sees ----------------------------------------- *)

\* Getting or creating a queue is one step of the map: the queue a request
\* registers is its own, which nobody has had.
LEMMA GetOrCreateIsTheMaps ==
    ASSUME TypeOK, HandlerInv, NEW r \in Requests, GetOrCreateQueue(r)
    PROVE  \E t \in TaskIds : Map!GetOrCreate(r, t)
<1>1. PICK t \in TaskIds : t = Task(r)
  BY CallTypes
<1>2. PICK q \in Requests : /\ q = IF queues[t] = Nobody THEN r ELSE queues[t]
                            /\ queues' = [queues EXCEPT ![t] = q]
                            /\ queue' = [queue EXCEPT ![r] = q]
  BY <1>1 DEF GetOrCreateQueue, TypeOK
<1>3. queue[r] = Nobody
  BY DEF HandlerInv, StepsInOrder, GetOrCreateQueue
<1>4. CASE queues[t] = Nobody
  <2>1. q = r /\ r \in Requests \ {x \in Requests : queue[x] = x}
    BY <1>2, <1>3, <1>4, HandlerAssumption
  <2>2. \A x \in Requests : queue'[x] = IF x = r THEN r ELSE queue[x]
    BY <1>2, <2>1 DEF TypeOK
  <2>3. {x \in Requests : queue'[x] = x} = {x \in Requests : queue[x] = x} \union {r}
    BY <2>2
  <2>4. Map!Register(r, t)
    BY <1>2, <1>4, <2>1, <2>3 DEF Map!Register, Map!Give
  <2> QED
    BY <2>4 DEF Map!GetOrCreate, Map!Free
<1>5. CASE queues[t] # Nobody
  <2>1. q = queues[t] /\ queue[q] = q /\ q # r
    BY <1>2, <1>3, <1>5, HandlerAssumption DEF HandlerInv, TasksApart
  <2>2. \A x \in Requests : queue'[x] = IF x = r THEN q ELSE queue[x]
    BY <1>2 DEF TypeOK
  <2>3. {x \in Requests : queue'[x] = x} = {x \in Requests : queue[x] = x}
    BY <1>2, <1>3, <2>1, <2>2, HandlerAssumption
  <2>4. queues' = queues
    BY <1>2, <2>1 DEF TypeOK
  <2>5. Map!Find(r, t)
    BY <1>2, <1>5, <2>1, <2>3, <2>4 DEF Map!Find, Map!Give
  <2> QED
    BY <2>5 DEF Map!GetOrCreate, Map!Free
<1> QED
  BY <1>4, <1>5

\* A subscriber gets its task's queue, or is refused and holds none.
LEMMA FindIsTheMaps ==
    ASSUME TypeOK, HandlerInv, NEW r \in Requests, FindQueue(r)
    PROVE  \E t \in TaskIds : Map!Get(r, t)
<1>1. PICK t \in TaskIds : t = Task(r)
  BY CallTypes
<1>2. queue[r] = Nobody /\ queues' = queues
  BY DEF HandlerInv, StepsInOrder, FindQueue
<1>3. CASE queues[t] = Nobody
  <2>1. queue' = queue /\ queue = [queue EXCEPT ![r] = Nobody]
    BY <1>1, <1>2, <1>3 DEF FindQueue, Reject, TypeOK
  <2>2. Map!FindNone(r, t)
    BY <1>2, <2>1 DEF Map!FindNone, Map!Give
  <2> QED
    BY <1>3, <2>2 DEF Map!Get, Map!Free
<1>4. CASE queues[t] # Nobody
  <2>1. PICK q \in Requests : q = queues[t] /\ queue' = [queue EXCEPT ![r] = q]
    BY <1>1, <1>4 DEF FindQueue, TypeOK
  <2>2. queue[q] = q /\ q # r
    BY <1>2, <1>4, <2>1, HandlerAssumption DEF HandlerInv, TasksApart
  <2>3. \A x \in Requests : queue'[x] = IF x = r THEN q ELSE queue[x]
    BY <2>1 DEF TypeOK
  <2>4. {x \in Requests : queue'[x] = x} = {x \in Requests : queue[x] = x}
    BY <1>2, <2>2, <2>3, HandlerAssumption
  <2>5. Map!Find(r, t)
    BY <1>2, <1>4, <2>1, <2>4 DEF Map!Find, Map!Give
  <2> QED
    BY <1>4, <2>5 DEF Map!Get, Map!Free
<1> QED
  BY <1>3, <1>4

\* Every step of the handler is one of the queue map's, or leaves it alone.
LEMMA StepUsesQueueMap ==
    TypeOK /\ HandlerInv /\ [Next]_vars => [Map!Next]_Map!vars
<1> SUFFICES ASSUME TypeOK, HandlerInv, [Next]_vars
             PROVE  [Map!Next]_Map!vars
  OBVIOUS
<1>1. ASSUME NEW r \in Requests, GetOrCreateQueue(r)
      PROVE  Map!Next
  BY <1>1, GetOrCreateIsTheMaps DEF Map!Next
<1>2. ASSUME NEW r \in Requests, FindQueue(r)
      PROVE  Map!Next
  BY <1>2, FindIsTheMaps DEF Map!Next
<1>3. ASSUME NEW r \in Requests, RemoveQueue(r)
      PROVE  Map!Next
  <2>1. PICK t \in TaskIds : t = Task(r)
    BY CallTypes
  <2>2. Map!Remove(t)
    BY <1>3, <2>1 DEF RemoveQueue, Map!Remove
  <2> QED
    BY <2>2 DEF Map!Next
<1>4. UNCHANGED <<queues, queue>> => UNCHANGED Map!vars
  BY DEF Map!vars
<1>5. ASSUME NEW r \in Requests,
             \/ Arrive(r) \/ InterceptorFails(r) \/ AbortRunning(r) \/ Subscribe(r)
             \/ Spawn(r) \/ SkipLagged(r) \/ Receive(r) \/ PersistEvent(r)
      PROVE  UNCHANGED <<queues, queue>>
  BY <1>5 DEF Arrive, BuildContext, CheckOpenTask, Reject, InterceptorFails,
     AbortRunning, Subscribe, Spawn, SkipLagged, Receive, PersistEvent, Persist
<1>6. ASSUME NEW r \in Requests,
             \/ Decide(r) \/ StreamEnds(r) \/ RegisterHandle(r) \/ Execute(r)
             \/ AbortLands(r) \/ Leave(r)
      PROVE  UNCHANGED <<queues, queue>>
  BY <1>6 DEF Decide, StreamEnds, RegisterHandle, Execute, Emit, AgentReturns,
     SaveFailed, ReportFailed, AbortLands, Leave, callVars
<1>7. UNCHANGED vars => UNCHANGED <<queues, queue>>
  BY DEF vars, callVars
<1>8. \/ \E r \in Requests : GetOrCreateQueue(r) \/ FindQueue(r) \/ RemoveQueue(r)
      \/ UNCHANGED <<queues, queue>>
  BY <1>5, <1>6, <1>7 DEF Next, Handle
<1> QED
  BY <1>1, <1>2, <1>3, <1>4, <1>8

\* The handler's requests use a queue map as QueueMap has it, which the queue
\* manager implements: its get_or_create_queue may be taken in one step.
THEOREM HandlerUsesAQueueMap == Spec => UsesQueueMap
<1>1. Init => Map!Init
  <2> SUFFICES ASSUME Init PROVE Map!Init
    OBVIOUS
  <2>1. {r \in Requests : queue[r] = r} = {}
    BY HandlerAssumption DEF Init
  <2> QED
    BY <2>1 DEF Init, Map!Init
<1> QED
  BY <1>1, StepUsesQueueMap, Invariance, PTL DEF Spec, UsesQueueMap, Map!Spec

(* Nobody waits in vain --------------------------------------------------- *)

\* Every event was sent to the queue that its author uses.
SentToOwnQueue ==
    \A q \in Requests : \A i \in 1 .. Len(log[q]) : queue[log[q][i].by] = q

\* Whoever collects has spawned an execution.
CollectorsSpawned ==
    \A r \in Requests :
        pc[r] \in {"collecting", "persisting", "deciding"} => exec[r] # "none"

\* An execution that returned had the last word with everybody who listens and
\* has heard of it, and with the request that spawned it.
LastWordsHeard ==
    \A r \in Requests : Listening(r) =>
        /\ exec[r] = "returned" => \E i \in 1 .. Len(Log(r)) : Log(r)[i].by = r
        /\ \A i \in 1 .. Len(Log(r)) : i > from[r] /\ exec[Log(r)[i].by] = "returned" =>
             \E j \in 1 .. Len(Log(r)) :
                 j >= i /\ Log(r)[j].by = Log(r)[i].by /\ EventIsTerminal(Log(r)[j].event)

\* A collector deals with a final event as soon as it is past it, unless the
\* channel has dropped the event.
FinalsNotPassed ==
    \A r \in Requests :
        pc[r] \in {"subscribed", "collecting", "persisting", "deciding"} =>
            \A i \in 1 .. Len(Log(r)) :
                /\ i > from[r] /\ i > Len(Log(r)) - Capacity /\ i <= cursor[r]
                /\ EventIsTerminal(Log(r)[i].event)
                => i = cursor[r] /\ pc[r] \in {"persisting", "deciding"}

\* What every step keeps where agents finish.
WaitersInv == SentToOwnQueue /\ CollectorsSpawned /\ LastWordsHeard /\ FinalsNotPassed

\* Who listens gets whatever is sent to its queue.
LEMMA DeliverToListeners ==
    ASSUME TypeOK, StepsInOrder, NEW r \in Requests, queue[r] # Nobody,
           NEW event \in Events, Deliver(r, event), NEW d \in Requests, Listening(d)
    PROVE  /\ queue[d] \in Requests /\ log[queue[d]] \in Seq(LogEntries)
           /\ queue[r] # queue[d] => log'[queue[d]] = log[queue[d]]
           /\ queue[r] = queue[d] =>
                log'[queue[d]] = Append(log[queue[d]], [by |-> r, event |-> event])
<1>1. queue[d] \in Requests /\ queue[r] \in Requests
  BY DEF TypeOK, StepsInOrder, HasQueue
<1>2. log \in [Requests -> Seq(LogEntries)]
  BY DEF TypeOK
<1>3. queue[r] = queue[d] => d \in Receivers(queue[r])
  BY DEF Receivers
<1> QED
  BY <1>1, <1>2, <1>3 DEF Deliver

\* What changes the log, or makes an execution return.
LEMMA Sending ==
    ASSUME TypeOK, HandlerInv, AgentsFinish, NEW r \in Requests, Execute(r),
           ~ UNCHANGED log \/ \E d \in Requests : exec'[d] = "returned" /\ exec[d] # "returned"
    PROVE  \E event \in Events :
             /\ Deliver(r, event) /\ queue[r] # Nobody
             /\ UNCHANGED <<pc, queue, from, cursor>>
             /\ exec[r] \in {"running", "reporting"}
             /\ \A d \in Requests \ {r} : exec'[d] = exec[d]
             /\ exec'[r] = "returned" => EventIsTerminal(event)
             /\ exec'[r] # "none"
<1> USE DEF callVars, agentVars
<1>1. exec \in [Requests -> {"none", "running", "failing", "reporting", "returned", "aborted"}]
  BY DEF TypeOK
<1>2. ASSUME NEW event \in AgentEvents \cup CancelEvents, Emit(r, event)
      PROVE  /\ event \in Events
             /\ Deliver(r, event)
             /\ UNCHANGED <<pc, queue, from, cursor>>
             /\ exec[r] \in {"running", "reporting"}
             /\ \A d \in Requests \ {r} : exec'[d] = exec[d]
             /\ exec'[r] = "returned" => EventIsTerminal(event)
             /\ exec'[r] # "none"
  BY <1>1, <1>2, HandlerAssumption DEF Emit
<1>3. ASSUME ReportFailed(r)
      PROVE  /\ TaskEvent("Failed") \in Events /\ EventIsTerminal(TaskEvent("Failed"))
             /\ Deliver(r, TaskEvent("Failed"))
             /\ UNCHANGED <<pc, queue, from, cursor>>
             /\ exec[r] \in {"running", "reporting"}
             /\ \A d \in Requests \ {r} : exec'[d] = exec[d]
             /\ exec'[r] # "none"
  BY <1>1, <1>3 DEF ReportFailed, Events, TaskStates, EventIsTerminal, HasState, TaskEvent,
     IsTerminal
<1>4. ~AgentReturns(r) /\ ~SaveFailed(r)
  BY <1>1 DEF AgentReturns, SaveFailed
<1>5. exec[r] # "none" => queue[r] # Nobody
  BY DEF HandlerInv, StepsInOrder
<1> QED
  BY <1>2, <1>3, <1>4, <1>5 DEF Execute

\* Nobody changes queues once its execution can send.
LEMMA NextSentToOwnQueue ==
    TypeOK /\ HandlerInv /\ SentToOwnQueue /\ [Next]_vars => SentToOwnQueue'
<1> SUFFICES ASSUME TypeOK, HandlerInv, SentToOwnQueue, [Next]_vars
             PROVE  SentToOwnQueue'
  OBVIOUS
<1> USE DEF callVars, agentVars
<1>0. \A q \in Requests : \A i \in 1 .. Len(log[q]) :
        log[q][i].by \in Requests /\ exec[log[q][i].by] # "none"
  BY SenderTypes DEF HandlerInv, TasksApart
<1>1. CASE UNCHANGED <<log, queue>>
  BY <1>1 DEF SentToOwnQueue
<1>2. ASSUME NEW r \in Requests, GetOrCreateQueue(r) \/ FindQueue(r)
      PROVE  SentToOwnQueue'
  <2>1. UNCHANGED log /\ exec[r] = "none" /\ \A d \in Requests \ {r} : queue'[d] = queue[d]
    BY <1>2 DEF GetOrCreateQueue, FindQueue, Reject, HandlerInv, StepsInOrder, TypeOK
  <2> QED
    BY <1>0, <2>1 DEF SentToOwnQueue
<1>3. ASSUME NEW r \in Requests, NEW event \in Events, Deliver(r, event), queue[r] # Nobody,
             UNCHANGED queue
      PROVE  SentToOwnQueue'
  <2>1. \A q \in Requests :
          /\ \A i \in 1 .. Len(log[q]) : log'[q][i] = log[q][i]
          /\ \A i \in 1 .. Len(log'[q]) : i > Len(log[q]) =>
               q = queue[r] /\ log'[q][i] = [by |-> r, event |-> event]
    BY <1>3, DeliverLog
  <2>2. ASSUME NEW q \in Requests, NEW i \in 1 .. Len(log'[q])
        PROVE  queue'[log'[q][i].by] = q
    <3>1. CASE i \in 1 .. Len(log[q])
      BY <1>3, <2>1, <3>1 DEF SentToOwnQueue
    <3>2. CASE i > Len(log[q])
      BY <1>3, <2>1, <3>2
    <3>3. Len(log[q]) \in Nat /\ i \in Nat
      BY DEF TypeOK
    <3> QED
      BY <3>1, <3>2, <3>3
  <2> QED
    BY <2>2 DEF SentToOwnQueue
<1>4. ASSUME NEW r \in Requests, NEW event \in AgentEvents \cup CancelEvents, Emit(r, event)
      PROVE  SentToOwnQueue'
  BY <1>3, <1>4, HandlerAssumption DEF Emit, HandlerInv, StepsInOrder
<1>5. ASSUME NEW r \in Requests, ReportFailed(r)
      PROVE  SentToOwnQueue'
  BY <1>3, <1>5 DEF ReportFailed, HandlerInv, StepsInOrder, Events, TaskStates
<1> QED
  BY <1>1, <1>2, <1>4, <1>5 DEF Next, vars, Arrive, BuildContext, CheckOpenTask,
     InterceptorFails, Reject, Handle, AbortRunning, Subscribe, Spawn, SkipLagged, Receive,
     PersistEvent, Persist, Decide, RemoveQueue, StreamEnds, RegisterHandle, Execute,
     AgentReturns, SaveFailed, AbortLands, Leave

\* A request collects from the moment it has spawned its execution.
LEMMA NextCollectorsSpawned ==
    TypeOK /\ HandlerInv /\ CollectorsSpawned /\ [Next]_vars => CollectorsSpawned'
<1> SUFFICES ASSUME TypeOK, HandlerInv, CollectorsSpawned, [Next]_vars
             PROVE  CollectorsSpawned'
  OBVIOUS
<1>0. /\ pc \in [Requests -> Places]
      /\ exec \in [Requests -> {"none", "running", "failing", "reporting",
                                "returned", "aborted"}]
  BY DEF TypeOK
<1> USE <1>0 DEF CollectorsSpawned, Goto, callVars, agentVars
<1>1. ASSUME NEW r \in Requests,
             \/ Arrive(r) \/ InterceptorFails(r) \/ AbortRunning(r) \/ GetOrCreateQueue(r)
             \/ FindQueue(r) \/ Subscribe(r) \/ RegisterHandle(r)
      PROVE  CollectorsSpawned'
  BY <1>1 DEF Arrive, BuildContext, CheckOpenTask, InterceptorFails, Reject, AbortRunning,
     GetOrCreateQueue, FindQueue, Subscribe, RegisterHandle
<1>2. ASSUME NEW r \in Requests, Spawn(r)
      PROVE  CollectorsSpawned'
  BY <1>2 DEF Spawn
<1>3. ASSUME NEW r \in Requests, Execute(r) \/ AbortLands(r)
      PROVE  CollectorsSpawned'
  BY <1>3 DEF Execute, Emit, AgentReturns, SaveFailed, ReportFailed, AbortLands
<1>4. ASSUME NEW r \in Requests,
             \/ SkipLagged(r) \/ Receive(r) \/ PersistEvent(r) \/ RemoveQueue(r)
             \/ StreamEnds(r) \/ Leave(r)
      PROVE  CollectorsSpawned'
  BY <1>4 DEF SkipLagged, Receive, PersistEvent, Persist, RemoveQueue, StreamEnds, Leave
<1>5. ASSUME NEW r \in Requests, Decide(r)
      PROVE  CollectorsSpawned'
  <2>1. /\ pc[r] = "deciding" /\ UNCHANGED exec
        /\ Goto(r, "answering") \/ Goto(r, "collecting")
    BY <1>5 DEF Decide
  <2> QED
    BY <2>1
<1>6. CASE UNCHANGED vars
  BY <1>6 DEF vars
<1> QED
  BY <1>1, <1>2, <1>3, <1>4, <1>5, <1>6 DEF Next, Handle

\* Everybody who listens hears the last word of an execution that returns.
LEMMA NextLastWordsHeard ==
    /\ AgentsFinish /\ TypeOK /\ HandlerInv /\ SentToOwnQueue /\ LastWordsHeard
    /\ [Next]_vars
    => LastWordsHeard'
<1> SUFFICES ASSUME AgentsFinish, TypeOK, HandlerInv, SentToOwnQueue, LastWordsHeard,
                    [Next]_vars
             PROVE  LastWordsHeard'
  OBVIOUS
<1>0. /\ pc \in [Requests -> Places]
      /\ queue \in [Requests -> Requests \cup {Nobody}]
      /\ from \in [Requests -> Nat]
      /\ exec \in [Requests -> {"none", "running", "failing", "reporting",
                                "returned", "aborted"}]
      /\ \A d \in Requests : Listening(d) => queue[d] \in Requests
  BY DEF TypeOK, HandlerInv, StepsInOrder, HasQueue
<1> USE <1>0 DEF Goto, callVars, agentVars
<1>1. ASSUME NEW r \in Requests, NEW event \in Events,
             Deliver(r, event), queue[r] # Nobody, UNCHANGED <<pc, queue, from>>,
             exec[r] \in {"running", "reporting"},
             \A d \in Requests \ {r} : exec'[d] = exec[d],
             exec'[r] = "returned" => EventIsTerminal(event)
      PROVE  LastWordsHeard'
  <2>0. /\ queue' = queue /\ from' = from
        /\ \A d \in Requests : Listening(d)' <=> Listening(d)
    BY <1>1 DEF Listening
  <2> SUFFICES ASSUME NEW d \in Requests, Listening(d)
               PROVE  LET got == log'[queue[d]]
                      IN  /\ exec'[d] = "returned" => \E i \in 1 .. Len(got) : got[i].by = d
                          /\ \A i \in 1 .. Len(got) :
                               i > from[d] /\ exec'[got[i].by] = "returned" =>
                                 \E j \in 1 .. Len(got) :
                                   j >= i /\ got[j].by = got[i].by
                                          /\ EventIsTerminal(got[j].event)
    BY <2>0 DEF LastWordsHeard, Log
  <2> DEFINE had == log[queue[d]]
             got == log'[queue[d]]
  <2>1. /\ had \in Seq(LogEntries)
        /\ queue[r] # queue[d] => got = had
        /\ queue[r] = queue[d] => got = Append(had, [by |-> r, event |-> event])
    BY <1>1, DeliverToListeners DEF HandlerInv
  <2>2. \A i \in 1 .. Len(had) : had[i].by \in Requests /\ queue[had[i].by] = queue[d]
    BY SenderTypes DEF SentToOwnQueue
  <2>3. /\ exec[d] = "returned" => \E i \in 1 .. Len(had) : had[i].by = d
        /\ \A i \in 1 .. Len(had) : i > from[d] /\ exec[had[i].by] = "returned" =>
             \E j \in 1 .. Len(had) :
                 j >= i /\ had[j].by = had[i].by /\ EventIsTerminal(had[j].event)
    BY DEF LastWordsHeard, Log
  <2> HIDE DEF had, got
  <2>4. CASE queue[r] # queue[d]
    <3>1. got = had
      BY <2>1, <2>4
    <3>2. exec'[d] = exec[d] /\ \A i \in 1 .. Len(had) : exec'[had[i].by] = exec[had[i].by]
      BY <1>1, <2>2, <2>4
    <3>3. /\ exec'[d] = "returned" => \E i \in 1 .. Len(got) : got[i].by = d
          /\ \A i \in 1 .. Len(got) :
               i > from[d] /\ exec'[got[i].by] = "returned" =>
                 \E j \in 1 .. Len(got) :
                   j >= i /\ got[j].by = got[i].by /\ EventIsTerminal(got[j].event)
      BY <2>3, <3>1, <3>2
    <3> QED
      BY <3>3 DEF got
  <2>5. CASE queue[r] = queue[d]
    <3>1. /\ Len(got) = Len(had) + 1 /\ Len(had) \in Nat
          /\ got[Len(got)] = [by |-> r, event |-> event]
          /\ \A i \in 1 .. Len(had) : got[i] = had[i]
      <4> DEFINE sent == [by |-> r, event |-> event]
      <4>1. sent \in LogEntries
        BY DEF LogEntries
      <4>2. got = Append(had, sent) /\ had \in Seq(LogEntries)
        BY <2>1, <2>5
      <4> HIDE DEF sent
      <4>3. /\ Len(got) = Len(had) + 1 /\ Len(had) \in Nat
            /\ got[Len(got)] = sent
            /\ \A i \in 1 .. Len(had) : got[i] = had[i]
        BY <4>1, <4>2
      <4> QED
        BY <4>3 DEF sent
    <3>2. ASSUME exec'[d] = "returned"
          PROVE  \E i \in 1 .. Len(got) : got[i].by = d
      <4>1. CASE d = r
        BY <3>1, <4>1
      <4>2. CASE d # r
        <5>1. PICK i \in 1 .. Len(had) : had[i].by = d
          BY <1>1, <2>3, <3>2, <4>2
        <5> QED
          BY <3>1, <5>1
      <4> QED
        BY <4>1, <4>2
    <3>3. ASSUME NEW i \in 1 .. Len(got), i > from[d], exec'[got[i].by] = "returned"
          PROVE  \E j \in 1 .. Len(got) :
                   j >= i /\ got[j].by = got[i].by /\ EventIsTerminal(got[j].event)
      <4>1. CASE got[i].by = r
        <5>1. EventIsTerminal(event)
          BY <1>1, <3>3, <4>1
        <5> QED
          BY <3>1, <4>1, <5>1
      <4>2. CASE got[i].by # r
        <5>1. i \in 1 .. Len(had) /\ got[i] = had[i]
          BY <3>1, <4>2
        <5>2. exec[had[i].by] = "returned"
          BY <1>1, <2>2, <3>3, <4>2, <5>1
        <5>3. PICK j \in 1 .. Len(had) :
                j >= i /\ had[j].by = had[i].by /\ EventIsTerminal(had[j].event)
          BY <2>3, <3>3, <5>1, <5>2
        <5>4. j \in 1 .. Len(got) /\ got[j] = had[j]
          BY <3>1
        <5> QED
          BY <5>1, <5>3, <5>4
      <4> QED
        BY <4>1, <4>2
    <3> QED
      BY <3>2, <3>3 DEF got
  <2> QED
    BY <2>4, <2>5
<1>2. CASE /\ UNCHANGED log
           /\ \A d \in Requests : exec'[d] = "returned" => exec[d] = "returned"
           /\ \A d \in Requests : Listening(d)' =>
                /\ queue'[d] = queue[d]
                /\ \/ Listening(d) /\ from'[d] = from[d]
                   \/ /\ from'[d] = Len(log[queue[d]])
                      /\ exec[d] # "returned"
  <2> DEFINE HasHeard(d) ==
               LET got == log[queue[d]]
               IN  /\ exec[d] = "returned" => \E i \in 1 .. Len(got) : got[i].by = d
                   /\ \A i \in 1 .. Len(got) :
                        i > from[d] /\ exec[got[i].by] = "returned" =>
                          \E j \in 1 .. Len(got) :
                            j >= i /\ got[j].by = got[i].by /\ EventIsTerminal(got[j].event)
  <2>1. ASSUME NEW d \in Requests, Listening(d)'
        PROVE  HasHeard(d)'
    <3>1. queue'[d] = queue[d] /\ log' = log
      BY <1>2, <2>1
    <3>2. CASE Listening(d) /\ from'[d] = from[d]
      <4>1. \A i \in 1 .. Len(log[queue[d]]) : log[queue[d]][i].by \in Requests
        BY <3>2, SenderTypes
      <4>2. HasHeard(d)
        BY <3>2 DEF LastWordsHeard, Log
      <4> DEFINE got == log[queue[d]]
      <4>3. exec'[d] = "returned" => \E i \in 1 .. Len(got) : got[i].by = d
        BY <1>2, <4>2
      <4>4. ASSUME NEW i \in 1 .. Len(got), i > from[d], exec'[got[i].by] = "returned"
            PROVE  \E j \in 1 .. Len(got) :
                     j >= i /\ got[j].by = got[i].by /\ EventIsTerminal(got[j].event)
        <5>1. exec[got[i].by] = "returned"
          BY <1>2, <4>1, <4>4
        <5> QED
          BY <4>2, <4>4, <5>1
      <4>5. log'[queue'[d]] = got /\ from'[d] = from[d]
        BY <3>1, <3>2
      <4> HIDE DEF got
      <4> QED
        BY <4>3, <4>4, <4>5
    <3>3. CASE from'[d] = Len(log[queue[d]]) /\ exec[d] # "returned"
      BY <1>2, <3>1, <3>3
    <3> QED
      BY <1>2, <2>1, <3>2, <3>3
  <2>2. LastWordsHeard' <=> \A d \in Requests : Listening(d)' => HasHeard(d)'
    BY DEF LastWordsHeard, Log
  <2> HIDE DEF HasHeard
  <2> QED
    BY <2>1, <2>2
<1>3. ASSUME NEW r \in Requests, Execute(r)
      PROVE  LastWordsHeard'
  <2>1. CASE ~ UNCHANGED log \/ \E d \in Requests : exec'[d] = "returned" /\ exec[d] # "returned"
    BY <1>1, <1>3, <2>1, Sending
  <2>2. CASE UNCHANGED log /\ \A d \in Requests : exec'[d] = "returned" => exec[d] = "returned"
    <3>1. UNCHANGED <<pc, queue, from>>
      BY <1>3 DEF Execute, Emit, AgentReturns, SaveFailed, ReportFailed
    <3> QED
      BY <1>2, <2>2, <3>1 DEF Listening
  <2> QED
    BY <2>1, <2>2
<1>4. ASSUME NEW r \in Requests, Subscribe(r)
      PROVE  LastWordsHeard'
  <2>1. exec[r] = "none"
    BY <1>4 DEF Subscribe, HandlerInv, StepsInOrder
  <2> QED
    BY <1>2, <1>4, <2>1 DEF Subscribe, Listening, Log
<1>5. ASSUME NEW r \in Requests,
             \/ Arrive(r) \/ InterceptorFails(r) \/ AbortRunning(r) \/ GetOrCreateQueue(r)
             \/ FindQueue(r) \/ RemoveQueue(r)
      PROVE  LastWordsHeard'
  BY <1>2, <1>5 DEF Arrive, BuildContext, CheckOpenTask, InterceptorFails, Reject,
     AbortRunning, GetOrCreateQueue, FindQueue, RemoveQueue, Listening
<1>6. ASSUME NEW r \in Requests,
             \/ Spawn(r) \/ RegisterHandle(r) \/ AbortLands(r) \/ SkipLagged(r)
             \/ Receive(r) \/ PersistEvent(r)
      PROVE  LastWordsHeard'
  BY <1>2, <1>6 DEF Spawn, RegisterHandle, AbortLands, SkipLagged, Receive, PersistEvent,
     Persist, Listening
<1>7. ASSUME NEW r \in Requests, Leave(r)
      PROVE  LastWordsHeard'
  <2>1. /\ UNCHANGED <<log, exec, queue>> /\ pc'[r] = "done"
        /\ \A d \in Requests \ {r} : pc'[d] = pc[d] /\ from'[d] = from[d]
    BY <1>7 DEF Leave, DropReceiver
  <2> QED
    BY <1>2, <2>1 DEF Listening
<1>8. ASSUME NEW r \in Requests, Decide(r) \/ StreamEnds(r)
      PROVE  LastWordsHeard'
  <2>1. /\ UNCHANGED <<log, exec, queue>>
        /\ Listening(r)
        /\ \A d \in Requests \ {r} : pc'[d] = pc[d] /\ from'[d] = from[d]
        /\ Listening(r)' => from'[r] = from[r]
    <3>1. CASE Decide(r)
      <4>1. /\ pc[r] = "deciding" /\ UNCHANGED <<log, exec, queue>>
            /\ \/ Goto(r, "answering") /\ DropReceiver(r)
               \/ Goto(r, "collecting") /\ UNCHANGED <<from, cursor>>
        BY <3>1 DEF Decide
      <4> QED
        BY <4>1 DEF DropReceiver, Listening
    <3>2. CASE StreamEnds(r)
      BY <3>2 DEF StreamEnds, DropReceiver, Listening
    <3> QED
      BY <1>8, <3>1, <3>2
  <2> QED
    BY <1>2, <2>1 DEF Listening
<1>9. CASE UNCHANGED vars
  BY <1>2, <1>9 DEF vars, Listening
<1> QED
  BY <1>3, <1>4, <1>5, <1>6, <1>7, <1>8, <1>9 DEF Next, Handle

\* A collector stops at every final event that it reads.
LEMMA NextFinalsNotPassed ==
    AgentsFinish /\ TypeOK /\ HandlerInv /\ FinalsNotPassed /\ [Next]_vars => FinalsNotPassed'
<1> SUFFICES ASSUME AgentsFinish, TypeOK, HandlerInv, FinalsNotPassed, [Next]_vars
             PROVE  FinalsNotPassed'
  OBVIOUS
<1> DEFINE Collecting(r) == pc[r] \in {"subscribed", "collecting", "persisting", "deciding"}
           Busy(r) == pc[r] \in {"persisting", "deciding"}
<1>0. /\ pc \in [Requests -> Places]
      /\ queue \in [Requests -> Requests \cup {Nobody}]
      /\ from \in [Requests -> Nat] /\ cursor \in [Requests -> Nat]
      /\ Capacity \in Nat
      /\ \A d \in Requests : Collecting(d) =>
           Listening(d) /\ queue[d] \in Requests /\ Len(log[queue[d]]) \in Nat
                        /\ cursor[d] <= Len(log[queue[d]])
  BY HandlerAssumption DEF TypeOK, HandlerInv, StepsInOrder, HasQueue, Listening,
     ReceiversInLog, Log
<1>00. \A d \in Requests : Collecting(d) =>
         \A i \in 1 .. Len(log[queue[d]]) :
             /\ i > from[d] /\ i > Len(log[queue[d]]) - Capacity /\ i <= cursor[d]
             /\ EventIsTerminal(log[queue[d]][i].event)
             => i = cursor[d] /\ Busy(d)
  BY DEF FinalsNotPassed, Log
<1>000. (\A d \in Requests : Collecting(d)' =>
          \A i \in 1 .. Len(log'[queue'[d]]) :
             /\ i > from'[d] /\ i > Len(log'[queue'[d]]) - Capacity /\ i <= cursor'[d]
             /\ EventIsTerminal(log'[queue'[d]][i].event)
             => i = cursor'[d] /\ Busy(d)')
         => FinalsNotPassed'
  BY DEF FinalsNotPassed, Log
<1> USE <1>0 DEF Goto, callVars, agentVars
<1>1. CASE /\ UNCHANGED log
           /\ \A d \in Requests : Collecting(d)' =>
                /\ queue'[d] = queue[d]
                /\ \/ /\ Collecting(d) /\ from'[d] = from[d] /\ cursor'[d] = cursor[d]
                      /\ Busy(d) => Busy(d)'
                   \/ cursor'[d] <= from'[d]
                   \/ cursor'[d] <= Len(log[queue[d]]) - Capacity
  <2> SUFFICES ASSUME NEW d \in Requests, Collecting(d)', NEW i \in 1 .. Len(log[queue[d]]),
                      i > from'[d], i > Len(log[queue[d]]) - Capacity, i <= cursor'[d],
                      EventIsTerminal(log[queue[d]][i].event)
               PROVE  i = cursor'[d] /\ Busy(d)'
    BY <1>1, <1>000
  <2>1. from'[d] \in Nat /\ cursor'[d] \in Nat
    BY NextTypeOK DEF HandlerInv, TypeOK
  <2>2. CASE /\ Collecting(d) /\ from'[d] = from[d] /\ cursor'[d] = cursor[d]
             /\ Busy(d) => Busy(d)'
    BY <1>00, <2>2
  <2>3. CASE cursor'[d] <= from'[d]
    BY <2>1, <2>3
  <2>4. CASE cursor'[d] <= Len(log[queue[d]]) - Capacity
    <3>1. Len(log[queue[d]]) \in Int
      BY <1>1 DEF TypeOK, HandlerInv
    <3> QED
      BY <2>1, <2>4, <3>1
  <2> QED
    BY <1>1, <2>2, <2>3, <2>4
<1>2. ASSUME NEW r \in Requests, Execute(r)
      PROVE  FinalsNotPassed'
  <2>1. UNCHANGED <<pc, queue, from, cursor>>
    BY <1>2 DEF Execute, Emit, AgentReturns, SaveFailed, ReportFailed
  <2>2. CASE UNCHANGED log
    BY <1>1, <2>1, <2>2
  <2>3. CASE ~ UNCHANGED log
    <3>1. PICK event \in Events : Deliver(r, event) /\ queue[r] # Nobody
      BY <1>2, <2>3, Sending
    <3> SUFFICES ASSUME NEW d \in Requests, Collecting(d),
                        NEW i \in 1 .. Len(log'[queue[d]]), i > from[d],
                        i > Len(log'[queue[d]]) - Capacity, i <= cursor[d],
                        EventIsTerminal(log'[queue[d]][i].event)
                 PROVE  i = cursor[d] /\ Busy(d)
      BY <2>1, <1>000
    <3> DEFINE had == log[queue[d]]
               got == log'[queue[d]]
    <3>2. Len(had) \in Nat /\ cursor[d] <= Len(had)
      OBVIOUS
    <3>3. i \in 1 .. Len(had)
      BY <3>2
    <3>4. Len(had) <= Len(got) /\ got[i] = had[i] /\ Len(got) \in Nat
      <4>1. \A q \in Requests : /\ Len(log[q]) <= Len(log'[q])
                                /\ \A j \in 1 .. Len(log[q]) : log'[q][j] = log[q][j]
        BY <3>1, DeliverLog
      <4>2. log' \in [Requests -> Seq(LogEntries)]
        BY <3>1, DeliverLog
      <4> QED
        BY <3>3, <4>1, <4>2
    <3>5. i > Len(had) - Capacity
      <4>1. i \in Int /\ i > Len(got) - Capacity
        OBVIOUS
      <4> HIDE DEF had, got
      <4> QED
        BY <3>2, <3>4, <4>1
    <3>6. EventIsTerminal(had[i].event)
      BY <3>4
    <3> QED
      BY <1>00, <3>3, <3>5, <3>6
  <2> QED
    BY <2>2, <2>3
<1>3. ASSUME NEW r \in Requests, Subscribe(r)
      PROVE  FinalsNotPassed'
  <2>1. queue[r] \in Requests /\ Len(log[queue[r]]) \in Nat
    BY <1>3 DEF Subscribe, HandlerInv, StepsInOrder, HasQueue, TypeOK
  <2>2. /\ UNCHANGED <<log, queue>>
        /\ cursor'[r] = Len(log[queue[r]]) /\ from'[r] = Len(log[queue[r]])
        /\ \A d \in Requests \ {r} :
             pc'[d] = pc[d] /\ from'[d] = from[d] /\ cursor'[d] = cursor[d]
    BY <1>3 DEF Subscribe, Log
  <2> QED
    BY <1>1, <2>1, <2>2
<1>4. ASSUME NEW r \in Requests,
             \/ Arrive(r) \/ InterceptorFails(r) \/ AbortRunning(r) \/ GetOrCreateQueue(r)
             \/ FindQueue(r) \/ RemoveQueue(r)
      PROVE  FinalsNotPassed'
  BY <1>1, <1>4 DEF Arrive, BuildContext, CheckOpenTask, InterceptorFails, Reject,
     AbortRunning, GetOrCreateQueue, FindQueue, RemoveQueue
<1>5. ASSUME NEW r \in Requests,
             Spawn(r) \/ RegisterHandle(r) \/ AbortLands(r) \/ PersistEvent(r)
      PROVE  FinalsNotPassed'
  BY <1>1, <1>5 DEF Spawn, RegisterHandle, AbortLands, PersistEvent, Persist
<1>6. ASSUME NEW r \in Requests, SkipLagged(r)
      PROVE  FinalsNotPassed'
  <2>1. /\ UNCHANGED <<pc, queue, log, from>>
        /\ cursor' = [cursor EXCEPT ![r] = Len(log[queue[r]]) - Capacity]
    BY <1>6 DEF SkipLagged, Log
  <2>2. ASSUME NEW d \in Requests, Collecting(d)'
        PROVE  \/ Collecting(d) /\ cursor'[d] = cursor[d]
               \/ cursor'[d] <= Len(log[queue[d]]) - Capacity
    BY <2>1, <2>2
  <2> QED
    BY <1>1, <2>1, <2>2
<1>7. ASSUME NEW r \in Requests, Receive(r)
      PROVE  FinalsNotPassed'
  <2>1. /\ UNCHANGED <<log, queue, from>>
        /\ pc[r] = "streaming" => pc'[r] = "streaming"
        /\ pc[r] # "streaming" => pc[r] = "collecting" /\ pc'[r] = "persisting"
        /\ cursor'[r] = cursor[r] + 1
        /\ \A d \in Requests \ {r} : pc'[d] = pc[d] /\ cursor'[d] = cursor[d]
    BY <1>7 DEF Receive
  <2> SUFFICES ASSUME NEW d \in Requests, Collecting(d)', NEW i \in 1 .. Len(log[queue[d]]),
                      i > from[d], i > Len(log[queue[d]]) - Capacity, i <= cursor'[d],
                      EventIsTerminal(log[queue[d]][i].event)
               PROVE  i = cursor'[d] /\ Busy(d)'
    BY <2>1, <1>000
  <2>2. CASE d = r
    <3>1. pc[r] = "collecting" /\ pc'[r] = "persisting"
      BY <2>1, <2>2
    <3>2. i <= cursor[r] => FALSE
      BY <1>00, <2>2, <3>1
    <3> QED
      BY <2>1, <2>2, <3>1, <3>2
  <2>3. CASE d # r
    BY <1>00, <2>1, <2>3
  <2> QED
    BY <2>2, <2>3
<1>8. ASSUME NEW r \in Requests, StreamEnds(r) \/ Leave(r)
      PROVE  FinalsNotPassed'
  <2>1. /\ UNCHANGED <<log, queue>> /\ pc'[r] = "done"
        /\ \A d \in Requests \ {r} :
             pc'[d] = pc[d] /\ from'[d] = from[d] /\ cursor'[d] = cursor[d]
    BY <1>8, ZenonT(40) DEF StreamEnds, Leave, DropReceiver
  <2> QED
    BY <1>1, <2>1
<1>9. ASSUME NEW r \in Requests, Decide(r)
      PROVE  FinalsNotPassed'
  <2>1. /\ pc[r] = "deciding" /\ UNCHANGED <<log, queue>>
        /\ \/ Goto(r, "answering") /\ DropReceiver(r)
           \/ /\ Goto(r, "collecting") /\ UNCHANGED <<from, cursor>>
              /\ ~EventIsTerminal(Current(r))
    BY <1>9 DEF Decide
  <2>2. /\ \A d \in Requests \ {r} :
             pc'[d] = pc[d] /\ from'[d] = from[d] /\ cursor'[d] = cursor[d]
        /\ \/ pc'[r] = "answering"
           \/ /\ pc'[r] = "collecting" /\ from'[r] = from[r] /\ cursor'[r] = cursor[r]
              /\ ~EventIsTerminal(log[queue[r]][cursor[r]].event)
    BY <2>1 DEF DropReceiver, Current, Log
  <2> SUFFICES ASSUME NEW d \in Requests, Collecting(d)', NEW i \in 1 .. Len(log[queue[d]]),
                      i > from'[d], i > Len(log[queue[d]]) - Capacity, i <= cursor'[d],
                      EventIsTerminal(log[queue[d]][i].event)
               PROVE  i = cursor'[d] /\ Busy(d)'
    BY <2>1, <1>000
  <2>3. CASE d = r
    <3>1. i = cursor[r]
      BY <1>00, <2>1, <2>2, <2>3
    <3> QED
      BY <2>2, <2>3, <3>1
  <2>4. CASE d # r
    BY <1>00, <2>2, <2>4
  <2> QED
    BY <2>3, <2>4
<1>10. CASE UNCHANGED vars
  BY <1>1, <1>10 DEF vars
<1> QED
  BY <1>2, <1>3, <1>4, <1>5, <1>6, <1>7, <1>8, <1>9, <1>10 DEF Next, Handle

\* Where agents finish, all of this holds in every state.
LEMMA WaitersInvariance ==
    ASSUME AgentsFinish
    PROVE  Spec => [](TypeOK /\ HandlerInv /\ WaitersInv)
<1>1. Init => WaitersInv
  BY DEF Init, WaitersInv, SentToOwnQueue, CollectorsSpawned, LastWordsHeard, Listening,
     FinalsNotPassed
<1>2. TypeOK /\ HandlerInv /\ WaitersInv /\ [Next]_vars => WaitersInv'
  BY NextSentToOwnQueue, NextCollectorsSpawned, NextLastWordsHeard, NextFinalsNotPassed
     DEF WaitersInv
<1> QED
  BY <1>1, <1>2, Invariance, PTL DEF Spec

\* Where agents finish, who waits with nothing to read and nobody at work in its
\* queue is deserted, for any number of requests and any capacity: collectors
\* overlook no final event but those that aborted executions push out.
THEOREM NobodyIsKeptWaiting ==
    ASSUME AgentsFinish
    PROVE  Spec => []NobodyWaitsInVain
<1>1. TypeOK /\ HandlerInv /\ WaitersInv => NobodyWaitsInVain
  <2> SUFFICES ASSUME TypeOK, HandlerInv, WaitersInv, NEW r \in Requests,
                      pc[r] = "collecting", Unread(r) = 0,
                      \A x \in Requests : queue[x] = queue[r] => ~Active(x)
               PROVE  Deserted(r)
    BY DEF NobodyWaitsInVain
  <2> DEFINE had == log[queue[r]]
  <2>1. /\ queue[r] \in Requests /\ Len(had) \in Nat /\ cursor[r] = Len(had)
        /\ from[r] \in Nat /\ from[r] <= cursor[r] /\ Listening(r)
    BY DEF TypeOK, HandlerInv, StepsInOrder, HasQueue, Listening, ReceiversInLog, Log, Unread
  <2>2. exec[r] \in {"returned", "aborted"}
    BY <2>1 DEF WaitersInv, CollectorsSpawned, Active, TypeOK
  <2>3. ASSUME NEW i \in 1 .. Len(had), i > from[r], i > Len(had) - Capacity
        PROVE  exec[had[i].by] = "aborted"
    <3>1. PICK x \in Requests : x = had[i].by /\ exec[x] # "none" /\ queue[x] = queue[r]
      BY <2>1, SenderTypes DEF HandlerInv, TasksApart, WaitersInv, SentToOwnQueue
    <3>2. exec[x] \in {"returned", "aborted"}
      BY <3>1 DEF Active, TypeOK
    <3>3. ASSUME exec[x] = "returned"
          PROVE  FALSE
      <4>1. PICK j \in 1 .. Len(had) : j >= i /\ EventIsTerminal(had[j].event)
        BY <2>1, <2>3, <3>1, <3>3 DEF WaitersInv, LastWordsHeard, Log
      <4>2. j > from[r] /\ j > Len(had) - Capacity /\ j <= cursor[r]
        BY <2>1, <2>3, <4>1, HandlerAssumption
      <4> QED
        BY <4>1, <4>2 DEF WaitersInv, FinalsNotPassed, Log
    <3> QED
      BY <3>1, <3>2, <3>3
  <2>4. \A i \in Retained(r) : exec[Log(r)[i].by] = "aborted"
    <3>1. \A i \in Retained(r) : i \in 1 .. Len(had) /\ i > from[r] /\ i > Len(had) - Capacity
      BY <2>1 DEF Retained, Log
    <3> QED
      BY <2>3, <3>1 DEF Log
  <2>5. exec[r] = "returned" => Retained(r) # {}
    <3> SUFFICES ASSUME exec[r] = "returned"
                 PROVE  Len(had) \in Retained(r)
      OBVIOUS
    <3>1. PICK i \in 1 .. Len(had) : had[i].by = r
      BY <2>1 DEF WaitersInv, LastWordsHeard, Log
    <3>2. i > from[r]
      BY <2>1, <3>1 DEF HandlerInv, NoOwnEventMissed, Log
    <3> QED
      BY <2>1, <3>2, HandlerAssumption DEF Retained, Log
  <2> QED
    BY <2>2, <2>4, <2>5 DEF Deserted
<1> QED
  BY <1>1, WaitersInvariance, PTL

(* One execution a task --------------------------------------------------- *)

\* The circumstances of the run one_send, for any number of tasks: each task is
\* started by one blocking send or stream at most and watched by subscribers;
\* agents end with a final event and ask for no authentication; clients stay.
StartersAlone ==
    /\ AgentsFinish /\ ~ClientsLeave
    /\ \A w \in Workloads : \A r, s \in Requests :
         /\ w[r].op \in {"sendBlocking", "stream", "subscribe"}
         /\ w[r].op \in Starts /\ w[s].op \in Starts /\ w[r].task = w[s].task => r = s
    /\ \A event \in AgentEvents : HasState(event) => event.state # "AuthRequired"

\* Executions end with a final event, never in an error, and until then the
\* request that started one listens.
Heard ==
    \A r \in Requests :
        /\ exec[r] \in {"none", "running", "returned"}
        /\ exec[r] # "none" => Op(r) \in Starts
        /\ exec[r] = "running" =>
             pc[r] \in {"collecting", "persisting", "deciding", "streaming"}

\* A final event is the last one of the execution that sent it.
FinalIsLast ==
    \A q \in Requests : \A i \in 1 .. Len(log[q]) :
        /\ HasState(log[q][i].event) => log[q][i].event.state # "AuthRequired"
        /\ EventIsTerminal(log[q][i].event) => exec[log[q][i].by] = "returned"

\* Where a request is before it has stored what it received.
UnderWay == {"accepted", "queued", "subscribed", "collecting", "persisting"}

\* A task is open until the request that started it has stored a final state,
\* and what that request decides upon is what it has stored.
OpenUntilStored ==
    /\ \A r \in Requests :
        /\ pc[r] \in UnderWay /\ Op(r) \in Starts => ~IsTerminal(store[Task(r)])
        /\ pc[r] = "deciding" =>
             /\ IsTerminal(store[Task(r)]) => EventIsTerminal(Current(r))
             /\ Current(r).kind = "Task" => store[Task(r)] = Current(r).state
    /\ NoTask \notin StoredAtStart => \A t \in TaskIds : store[t] # NoTask

\* What every step keeps where each task has one starter.
AloneInv == call \in Workloads /\ Heard /\ FinalIsLast /\ OpenUntilStored

\* Nobody cancels or asks for an answer at once; one request starts a task.
LEMMA AloneCalls ==
    ASSUME StartersAlone, call \in Workloads
    PROVE  \A r, s \in Requests :
             /\ Op(r) \in {"sendBlocking", "stream", "subscribe"}
             /\ Op(r) \in Starts /\ Op(s) \in Starts /\ Task(r) = Task(s) => r = s
BY DEF StartersAlone, Op, Task

\* What a request reads was sent by the execution that it started itself.
LEMMA ReadsItsOwn ==
    ASSUME TypeOK, HandlerInv, StartersAlone, AloneInv,
           NEW r \in Requests, Op(r) \in Starts, pc[r] \in {"persisting", "deciding"}
    PROVE  /\ EventIsTerminal(Current(r)) => exec[r] = "returned"
           /\ HasState(Current(r)) => Current(r).state # "AuthRequired"
<1> PICK q \in Requests : q = queue[r]
  BY CurrentTypes DEF HandlerInv
<1>1. PICK i \in 1 .. Len(log[q]) :
        q = queue[r] /\ i = cursor[r] /\ Current(r) = log[q][i].event
  BY CurrentTypes DEF HandlerInv, Current, Log
<1>2. PICK d \in Requests : d = log[q][i].by
  BY SenderTypes
<1>3. Task(d) = Task(q) /\ exec[d] # "none" /\ Task(q) = Task(r)
  <2>1. q # Nobody
    BY HandlerAssumption
  <2> QED
    BY <1>1, <1>2, <2>1 DEF HandlerInv, TasksApart
<1>4. d = r
  BY <1>3, AloneCalls DEF AloneInv, Heard
<1> QED
  BY <1>1, <1>2, <1>4 DEF AloneInv, FinalIsLast

\* Every step leaves each execution heard.
LEMMA NextHeard ==
    TypeOK /\ HandlerInv /\ StartersAlone /\ AloneInv /\ [Next]_vars => Heard'
<1> SUFFICES ASSUME TypeOK, HandlerInv, StartersAlone, AloneInv, [Next]_vars
             PROVE  Heard'
  OBVIOUS
<1>0. /\ Heard
      /\ pc \in [Requests -> Places]
      /\ exec \in [Requests -> {"none", "running", "failing", "reporting",
                                "returned", "aborted"}]
      /\ \A r \in Requests : Op(r) \in {"sendBlocking", "stream", "subscribe"}
      /\ AgentsFinish /\ ~ClientsLeave
  BY AloneCalls DEF TypeOK, AloneInv, StartersAlone
<1> USE <1>0 DEF Heard, Op, Goto, callVars, agentVars
<1>1. ASSUME NEW r \in Requests,
             \/ Arrive(r) \/ InterceptorFails(r) \/ AbortRunning(r) \/ GetOrCreateQueue(r)
             \/ FindQueue(r) \/ Subscribe(r) \/ SkipLagged(r) \/ Receive(r)
             \/ PersistEvent(r) \/ RemoveQueue(r) \/ RegisterHandle(r) \/ Leave(r)
      PROVE  Heard'
  BY <1>1 DEF Arrive, BuildContext, CheckOpenTask, InterceptorFails, AbortRunning,
              GetOrCreateQueue, FindQueue, Reject, Subscribe, SkipLagged, Receive,
              PersistEvent, Persist, RemoveQueue, RegisterHandle, Leave
<1>2. ASSUME NEW r \in Requests, Spawn(r)
      PROVE  Heard'
  <2>1. Op(r) \in Starts
    BY <1>2 DEF Spawn, HandlerInv, StepsInOrder, Starts, Sends
  <2> QED
    BY <1>2, <2>1 DEF Spawn
<1>3. ASSUME NEW r \in Requests, NEW event \in AgentEvents \cup CancelEvents,
             Emit(r, event)
      PROVE  Heard'
  <2>1. r \in Receivers(queue[r])
    BY <1>3 DEF Emit, Receivers, Listening
  <2> QED
    BY <1>3, <2>1 DEF Emit
<1>4. ASSUME NEW r \in Requests,
             AgentReturns(r) \/ SaveFailed(r) \/ ReportFailed(r) \/ AbortLands(r)
      PROVE  FALSE
  BY <1>4 DEF AgentReturns, SaveFailed, ReportFailed, AbortLands, HandlerInv, OnlyCancelAborts
<1>5. ASSUME NEW r \in Requests, Decide(r)
      PROVE  Heard'
  <2>1. Op(r) = "sendBlocking" /\ pc[r] = "deciding"
    BY <1>5 DEF Decide, HandlerInv, StepsInOrder, Collects, Sends
  <2>2. /\ EventIsTerminal(Current(r)) => exec[r] = "returned"
        /\ HasState(Current(r)) => Current(r).state # "AuthRequired"
    BY <2>1, ReadsItsOwn DEF Starts, Sends
  <2>3. ~Interrupts(r, Current(r))
    BY <2>1, <2>2 DEF Interrupts, IsNonBlocking
  <2> HIDE DEF Current
  <2>4. \/ Goto(r, "answering") /\ exec[r] = "returned"
        \/ Goto(r, "collecting")
    BY <1>5, <2>2, <2>3 DEF Decide
  <2> QED
    BY <1>5, <2>4 DEF Decide
<1>6. ASSUME NEW r \in Requests, StreamEnds(r)
      PROVE  Heard'
  <2>1. exec[r] # "running"
    BY <1>6 DEF StreamEnds, Held, Active
  <2> QED
    BY <1>6, <2>1 DEF StreamEnds
<1>7. CASE UNCHANGED vars
  BY <1>7 DEF vars
<1> QED
  BY <1>1, <1>2, <1>3, <1>4, <1>5, <1>6, <1>7 DEF Next, Handle, Execute

\* Every step leaves final events the last ones.
LEMMA NextFinalIsLast ==
    TypeOK /\ HandlerInv /\ StartersAlone /\ AloneInv /\ [Next]_vars => FinalIsLast'
<1> SUFFICES ASSUME TypeOK, HandlerInv, StartersAlone, AloneInv, [Next]_vars
             PROVE  FinalIsLast'
  OBVIOUS
<1>0. /\ Heard /\ FinalIsLast
      /\ exec \in [Requests -> {"none", "running", "failing", "reporting",
                                "returned", "aborted"}]
      /\ \A r \in Requests : Op(r) \in {"sendBlocking", "stream", "subscribe"}
      /\ AgentsFinish
  BY AloneCalls DEF TypeOK, AloneInv, StartersAlone
<1> USE <1>0 DEF callVars, agentVars
<1>1. ASSUME NEW r \in Requests,
             \/ Arrive(r) \/ InterceptorFails(r) \/ AbortRunning(r) \/ GetOrCreateQueue(r)
             \/ FindQueue(r) \/ Subscribe(r) \/ SkipLagged(r) \/ Receive(r)
             \/ PersistEvent(r) \/ Decide(r) \/ RemoveQueue(r) \/ StreamEnds(r)
             \/ RegisterHandle(r) \/ Leave(r)
      PROVE  FinalIsLast'
  <2>1. UNCHANGED <<log, exec>>
    BY <1>1 DEF Arrive, BuildContext, CheckOpenTask, InterceptorFails, AbortRunning,
                GetOrCreateQueue, FindQueue, Subscribe, SkipLagged, Receive,
                PersistEvent, Persist, Decide, RemoveQueue, StreamEnds, RegisterHandle, Leave
  <2> QED
    BY <2>1 DEF FinalIsLast
<1>2. ASSUME NEW r \in Requests, Spawn(r)
      PROVE  FinalIsLast'
  <2>1. exec[r] = "none" /\ UNCHANGED log /\ exec' = [exec EXCEPT ![r] = "running"]
    BY <1>2 DEF Spawn, HandlerInv, StepsInOrder
  <2> QED
    BY <2>1, SenderTypes DEF FinalIsLast
<1>3. ASSUME NEW r \in Requests, NEW event \in AgentEvents \cup CancelEvents,
             Emit(r, event)
      PROVE  FinalIsLast'
  <2>1. event \in AgentEvents /\ event \in Events
    BY <1>3, HandlerAssumption DEF Emit
  <2>2. r \in Receivers(queue[r]) /\ queue[r] # Nobody
    BY <1>3 DEF Emit, Heard, Receivers, Listening, HandlerInv, StepsInOrder
  <2>3. /\ exec[r] = "running" /\ Deliver(r, event)
        /\ exec' = [exec EXCEPT ![r] = IF EventIsTerminal(event) THEN "returned" ELSE "running"]
    BY <1>3, <2>2 DEF Emit
  <2>4. /\ log' \in [Requests -> Seq(LogEntries)]
        /\ \A q \in Requests :
             /\ Len(log[q]) <= Len(log'[q])
             /\ \A i \in 1 .. Len(log[q]) : log'[q][i] = log[q][i]
             /\ \A i \in 1 .. Len(log'[q]) : i > Len(log[q]) =>
                  q = queue[r] /\ log'[q][i] = [by |-> r, event |-> event]
    BY <2>1, <2>2, <2>3, DeliverLog
  <2>5. ASSUME NEW q \in Requests, NEW i \in 1 .. Len(log'[q])
        PROVE  /\ HasState(log'[q][i].event) => log'[q][i].event.state # "AuthRequired"
               /\ EventIsTerminal(log'[q][i].event) => exec'[log'[q][i].by] = "returned"
    <3>1. CASE i \in 1 .. Len(log[q])
      <4> PICK d \in Requests : d = log[q][i].by
        BY <3>1, SenderTypes
      <4>1. PICK e : /\ e = log[q][i].event /\ d = log[q][i].by
                     /\ log'[q][i] = log[q][i]
        BY <2>4, <3>1
      <4>2. /\ HasState(e) => e.state # "AuthRequired"
            /\ EventIsTerminal(e) => exec[d] = "returned"
        BY <3>1, <4>1 DEF FinalIsLast
      <4>3. exec[d] = "returned" => exec'[d] = "returned"
        BY <2>3
      <4> QED
        BY <4>1, <4>2, <4>3
    <3>2. CASE i > Len(log[q])
      <4>1. log'[q][i].by = r /\ log'[q][i].event = event
        BY <2>4, <3>2
      <4> QED
        BY <2>1, <2>3, <4>1 DEF StartersAlone
    <3>3. Len(log[q]) \in Nat /\ i \in Nat
      BY DEF TypeOK
    <3> QED
      BY <3>1, <3>2, <3>3
  <2> QED
    BY <2>5 DEF FinalIsLast
<1>4. ASSUME NEW r \in Requests,
             AgentReturns(r) \/ SaveFailed(r) \/ ReportFailed(r) \/ AbortLands(r)
      PROVE  FALSE
  BY <1>4 DEF AgentReturns, SaveFailed, ReportFailed, AbortLands, HandlerInv,
              OnlyCancelAborts, Heard
<1>5. CASE UNCHANGED vars
  BY <1>5 DEF vars, FinalIsLast
<1> QED
  BY <1>1, <1>2, <1>3, <1>4, <1>5 DEF Next, Handle, Execute

\* Sending changes nothing of what others have read already.
LEMMA DeliverCurrent ==
    ASSUME TypeOK, HandlerInv, NEW r \in Requests, queue[r] # Nobody, NEW event \in Events,
           Deliver(r, event), UNCHANGED <<queue, cursor>>,
           NEW d \in Requests, pc[d] \in {"persisting", "deciding"}
    PROVE  Current(d)' = Current(d)
<1> PICK q \in Requests : q = queue[d]
  BY CurrentTypes DEF HandlerInv
<1>1. PICK i \in 1 .. Len(log[q]) : i = cursor[d]
  BY CurrentTypes DEF HandlerInv
<1>2. log'[q][i] = log[q][i]
  <2>1. \A u \in Requests : \A j \in 1 .. Len(log[u]) : log'[u][j] = log[u][j]
    BY DeliverLog
  <2> QED
    BY <2>1
<1>3. Current(d) = log[q][i].event /\ Current(d)' = log'[q][i].event
  BY <1>1 DEF Current, Log
<1> QED
  BY <1>2, <1>3

\* What holds of a task holds after a step that touches neither it, nor the
\* requests for it, nor what they read.
LEMMA NextOpenUntilStored ==
    TypeOK /\ HandlerInv /\ StartersAlone /\ AloneInv /\ [Next]_vars => OpenUntilStored'
<1> SUFFICES ASSUME TypeOK, HandlerInv, StartersAlone, AloneInv, [Next]_vars
             PROVE  OpenUntilStored'
  OBVIOUS
<1>0. /\ Heard /\ OpenUntilStored
      /\ pc \in [Requests -> Places]
      /\ store \in [TaskIds -> TaskStates \cup {NoTask}]
      /\ \A r \in Requests : Task(r) \in TaskIds
      /\ \A r \in Requests : Op(r) \in {"sendBlocking", "stream", "subscribe"}
      /\ \A r, s \in Requests :
           Op(r) \in Starts /\ Op(s) \in Starts /\ Task(r) = Task(s) => r = s
      /\ \A r \in Requests : pc[r] \in {"persisting", "deciding"} =>
           Op(r) = "sendBlocking" /\ Op(r) \in Starts
      /\ \A r \in Requests : pc[r] # "aborted"
      /\ queue \in [Requests -> Requests \cup {Nobody}] /\ cursor \in [Requests -> Nat]
      /\ AgentsFinish /\ ~ClientsLeave
  BY AloneCalls, CallTypes DEF TypeOK, AloneInv, StartersAlone, HandlerInv, StepsInOrder,
     Collects, Sends, Starts
<1> DEFINE Open(r) == pc[r] \in UnderWay /\ Op(r) \in Starts => ~IsTerminal(store[Task(r)])
           Read(r) == pc[r] = "deciding" =>
                        /\ IsTerminal(store[Task(r)]) => EventIsTerminal(Current(r))
                        /\ Current(r).kind = "Task" => store[Task(r)] = Current(r).state
           Known == NoTask \notin StoredAtStart => \A t \in TaskIds : store[t] # NoTask
<1>00. OpenUntilStored <=> (\A r \in Requests : Open(r) /\ Read(r)) /\ Known
  BY DEF OpenUntilStored
<1>000. OpenUntilStored' <=> (\A r \in Requests : Open(r)' /\ Read(r)') /\ Known'
  BY DEF OpenUntilStored
<1> USE DEF callVars, agentVars
<1>1. ASSUME NEW r \in Requests,
             \/ Arrive(r) \/ InterceptorFails(r) \/ AbortRunning(r) \/ GetOrCreateQueue(r)
             \/ FindQueue(r) \/ Subscribe(r) \/ Spawn(r) \/ SkipLagged(r) \/ Receive(r)
             \/ RemoveQueue(r) \/ StreamEnds(r)
      PROVE  OpenUntilStored'
  <2>1. /\ UNCHANGED <<call, store, log>>
        /\ \A d \in Requests : d # r =>
             pc'[d] = pc[d] /\ queue'[d] = queue[d] /\ cursor'[d] = cursor[d]
        /\ pc'[r] # "deciding"
    BY <1>0, <1>1 DEF Arrive, BuildContext, CheckOpenTask, InterceptorFails, AbortRunning,
                GetOrCreateQueue, FindQueue, Reject, Subscribe, Spawn, SkipLagged, Receive,
                RemoveQueue, StreamEnds, DropReceiver, Goto
  <2>2. ASSUME pc'[r] \in UnderWay, Op(r) \in Starts
        PROVE  pc[r] \in UnderWay \/ ~IsTerminal(store[Task(r)])
    BY <1>0, <1>1, <2>2 DEF Arrive, BuildContext, CheckOpenTask, InterceptorFails,
       AbortRunning, GetOrCreateQueue, FindQueue, Reject, Subscribe, Spawn, SkipLagged,
       Receive, RemoveQueue, StreamEnds, DropReceiver, Goto, Starts, Sends, UnderWay
  <2>3. ASSUME NEW d \in Requests
        PROVE  Open(d)' /\ Read(d)'
    <3>1. CASE d = r
      BY <1>0, <1>00, <2>1, <2>2, <3>1 DEF Op, Task
    <3>2. CASE d # r
      <4>1. Current(d)' = Current(d)
        BY <2>1, <3>2 DEF Current, Log
      <4> HIDE DEF Current
      <4> QED
        BY <1>0, <1>00, <2>1, <3>2, <4>1 DEF Op, Task
    <3> QED
      BY <3>1, <3>2
  <2> QED
    BY <1>0, <1>00, <1>000, <2>1, <2>3
<1>2. ASSUME NEW r \in Requests, RegisterHandle(r)
      PROVE  OpenUntilStored'
  BY <1>0, <1>2 DEF RegisterHandle, OpenUntilStored, Op, Task, Current, Log
<1>3. ASSUME NEW r \in Requests, NEW event \in AgentEvents \cup CancelEvents,
             Emit(r, event)
      PROVE  OpenUntilStored'
  <2>1. /\ queue[r] # Nobody /\ event \in Events /\ Deliver(r, event)
        /\ UNCHANGED <<call, store, pc, queue, cursor>>
    BY <1>3, HandlerAssumption DEF Emit, HandlerInv, StepsInOrder
  <2>2. ASSUME NEW d \in Requests
        PROVE  Open(d)' /\ Read(d)'
    <3>1. pc[d] = "deciding" => Current(d)' = Current(d)
      BY <2>1, DeliverCurrent
    <3> HIDE DEF Current
    <3> QED
      BY <1>0, <1>00, <2>1, <3>1 DEF Op, Task
  <2> QED
    BY <1>0, <1>00, <1>000, <2>1, <2>2
<1>4. ASSUME NEW r \in Requests,
             \/ AgentReturns(r) \/ SaveFailed(r) \/ ReportFailed(r) \/ AbortLands(r)
             \/ Leave(r)
      PROVE  FALSE
  BY <1>0, <1>4 DEF AgentReturns, SaveFailed, ReportFailed, AbortLands, Leave, HandlerInv,
              OnlyCancelAborts, Heard
<1>5. ASSUME NEW r \in Requests, PersistEvent(r)
      PROVE  OpenUntilStored'
  <2>1. PICK e : /\ e = Current(r) /\ e \in Events /\ e.state \in TaskStates
    BY <1>5, CurrentTypes, EventTypes DEF PersistEvent, Persist, HandlerInv
  <2>2. /\ pc[r] = "persisting" /\ Op(r) \in Starts
        /\ pc' = [pc EXCEPT ![r] = "deciding"]
        /\ UNCHANGED <<call, log, queue, cursor>>
    BY <1>0, <1>5 DEF PersistEvent, Persist, Goto
  <2>3. store' = IF e.kind = "Task" \/ (e.kind = "StatusUpdate" /\ store[Task(r)] # NoTask)
                 THEN [store EXCEPT ![Task(r)] = e.state] ELSE store
    BY <1>5, <2>1 DEF PersistEvent, Persist
  <2>4. \A d \in Requests : Current(d)' = Current(d)
    BY <2>2 DEF Current, Log
  <2>5. /\ IsTerminal(store'[Task(r)]) => EventIsTerminal(e)
        /\ e.kind = "Task" => store'[Task(r)] = e.state
    BY <1>0, <1>00, <2>2, <2>3 DEF EventIsTerminal, HasState, UnderWay
  <2>6. Open(r)' /\ Read(r)'
    <3> HIDE DEF Current
    <3> QED
      BY <1>0, <2>1, <2>2, <2>4, <2>5 DEF Task, Op, UnderWay
  <2>7. ASSUME NEW d \in Requests, d # r
        PROVE  Open(d)' /\ Read(d)'
    <3>1. Op(d) \in Starts => store'[Task(d)] = store[Task(d)]
      BY <1>0, <2>2, <2>3, <2>7
    <3>2. pc'[d] = pc[d] /\ Op(d)' = Op(d) /\ Task(d)' = Task(d) /\ Current(d)' = Current(d)
      BY <1>0, <2>2, <2>4, <2>7 DEF Op, Task
    <3> HIDE DEF Current
    <3>3. Open(d)'
      BY <1>00, <1>0, <3>1, <3>2
    <3>4. Read(d)'
      BY <1>00, <1>0, <3>1, <3>2
    <3> QED
      BY <3>3, <3>4
  <2>8. Known'
    BY <1>0, <1>00, <2>1, <2>3 DEF TaskStates, NoTask
  <2> QED
    BY <1>000, <2>6, <2>7, <2>8
<1>6. ASSUME NEW r \in Requests, Decide(r)
      PROVE  OpenUntilStored'
  <2>1. /\ pc[r] = "deciding" /\ UNCHANGED <<call, store, log, queue>>
        /\ \/ /\ Goto(r, "answering")
              /\ cursor' = [cursor EXCEPT ![r] = 0]
           \/ /\ Goto(r, "collecting") /\ UNCHANGED cursor
              /\ ~EventIsTerminal(Current(r))
    BY <1>6 DEF Decide, DropReceiver
  <2>2. Open(r)' /\ Read(r)'
    BY <1>0, <1>00, <2>1 DEF Op, Task, Goto, UnderWay
  <2>3. ASSUME NEW d \in Requests, d # r
        PROVE  Open(d)' /\ Read(d)'
    <3>1. pc'[d] = pc[d] /\ queue'[d] = queue[d] /\ cursor'[d] = cursor[d]
      BY <1>0, <2>1, <2>3 DEF Goto, TypeOK
    <3>2. Current(d)' = Current(d)
      BY <2>1, <3>1 DEF Current, Log
    <3> HIDE DEF Current
    <3> QED
      BY <1>0, <1>00, <2>1, <3>1, <3>2 DEF Op, Task
  <2> QED
    BY <1>0, <1>00, <1>000, <2>1, <2>2, <2>3
<1>7. CASE UNCHANGED vars
  BY <1>0, <1>7 DEF vars, OpenUntilStored, Op, Task, Current, Log
<1> QED
  BY <1>1, <1>2, <1>3, <1>4, <1>5, <1>6, <1>7 DEF Next, Handle, Execute

\* With one starter a task, everything above holds in every state.
LEMMA AloneInvariance ==
    ASSUME StartersAlone
    PROVE  Spec => [](TypeOK /\ HandlerInv /\ AloneInv)
<1>1. Init => AloneInv
  <2> SUFFICES ASSUME Init PROVE AloneInv
    OBVIOUS
  <2>1. Heard /\ FinalIsLast
    BY DEF Init, Heard, FinalIsLast
  <2>2. OpenUntilStored
    BY DEF Init, OpenUntilStored, UnderWay
  <2> QED
    BY <2>1, <2>2 DEF Init, AloneInv
<1>2. TypeOK /\ HandlerInv /\ AloneInv /\ [Next]_vars => AloneInv'
  <2>1. call \in Workloads /\ [Next]_vars => call' \in Workloads
    BY DEF Next, vars, callVars, agentVars, Arrive, BuildContext, CheckOpenTask,
           InterceptorFails, Handle, AbortRunning, GetOrCreateQueue, FindQueue, Subscribe,
           Spawn, SkipLagged, Receive, PersistEvent, Persist, Decide, RemoveQueue,
           StreamEnds, RegisterHandle, Execute, Emit, AgentReturns, SaveFailed,
           ReportFailed, AbortLands, Leave
  <2> QED
    BY <2>1, NextHeard, NextFinalIsLast, NextOpenUntilStored DEF AloneInv
<1> QED
  BY <1>1, <1>2, Invariance, PTL DEF Spec

\* With one starter a task, somebody listens as long as an agent works.
THEOREM AgentsAreHeard ==
    ASSUME StartersAlone
    PROVE  Spec => []ConsumedWhileRunning
<1>1. AloneInv => ConsumedWhileRunning
  <2> SUFFICES ASSUME AloneInv, NEW r \in Requests, exec[r] = "running"
               PROVE  Receivers(queue[r]) # {}
    BY DEF ConsumedWhileRunning
  <2>1. r \in Receivers(queue[r])
    BY DEF AloneInv, Heard, Receivers, Listening
  <2> QED
    BY <2>1
<1> QED
  BY <1>1, AloneInvariance, PTL

\* With one starter a task, a final state that is stored stays.
THEOREM FinalStatesStay ==
    ASSUME StartersAlone
    PROVE  Spec => TerminalIsFinal
<1>1. ASSUME TypeOK, HandlerInv, AloneInv, [Next]_vars,
             NEW t \in TaskIds, IsTerminal(store[t])
      PROVE  store'[t] = store[t]
  <2> USE DEF callVars, agentVars
  <2>1. CASE UNCHANGED store
    BY <2>1
  <2>2. ASSUME NEW r \in Requests, SaveFailed(r)
        PROVE  FALSE
    BY <1>1, <2>2 DEF SaveFailed, AloneInv, Heard
  <2>3. ASSUME NEW r \in Requests, PersistEvent(r)
        PROVE  store'[t] = store[t]
    <3>1. pc[r] = "persisting" /\ Op(r) \in Starts
      BY <1>1, <2>3, AloneCalls DEF PersistEvent, Persist, AloneInv, HandlerInv, StepsInOrder,
         Collects, Sends, Starts
    <3>2. t # Task(r)
      BY <1>1, <3>1 DEF AloneInv, OpenUntilStored, UnderWay
    <3> QED
      BY <1>1, <2>3, <3>2 DEF PersistEvent, Persist, TypeOK
  <2> QED
    BY <1>1, <2>1, <2>2, <2>3
       DEF Next, vars, Arrive, BuildContext, CheckOpenTask,
           InterceptorFails, Handle, AbortRunning, GetOrCreateQueue, FindQueue, Subscribe,
           Spawn, SkipLagged, Receive, Decide, RemoveQueue, StreamEnds, RegisterHandle,
           Execute, Emit, AgentReturns, ReportFailed, AbortLands, Leave
<1>2. TypeOK /\ HandlerInv /\ AloneInv /\ [Next]_vars
        => [\A t \in TaskIds : IsTerminal(store[t]) => store'[t] = store[t]]_vars
  BY <1>1
<1> QED
  BY <1>2, AloneInvariance, PTL DEF Spec, TerminalIsFinal

\* With one starter a task, and tasks that are stored beforehand, what a request
\* is answered with is stored when it is answered.
THEOREM AnswersAreStored ==
    ASSUME StartersAlone, NoTask \notin StoredAtStart
    PROVE  Spec => AnswerIsStored
<1>1. ASSUME TypeOK, HandlerInv, AloneInv, [Next]_vars, NEW r \in Requests,
             pc[r] = "deciding", pc'[r] = "answering", answer'[r] \in TaskStates
      PROVE  store[Task(r)] = answer'[r]
  <2> USE DEF callVars, agentVars
  <2>1. Decide(r)
    <3>1. pc \in [Requests -> Places] /\ pc[r] = "deciding" /\ pc'[r] = "answering"
      BY <1>1 DEF TypeOK
    <3>2. ASSUME NEW d \in Requests,
                 \/ Arrive(d) \/ InterceptorFails(d) \/ AbortRunning(d)
                 \/ GetOrCreateQueue(d) \/ FindQueue(d) \/ Subscribe(d) \/ Spawn(d)
          PROVE  FALSE
      BY <3>1, <3>2 DEF Arrive, BuildContext, CheckOpenTask, InterceptorFails, Reject, Goto,
         AbortRunning, GetOrCreateQueue, FindQueue, Subscribe, Spawn
    <3>3. ASSUME NEW d \in Requests,
                 \/ SkipLagged(d) \/ Receive(d) \/ PersistEvent(d) \/ RemoveQueue(d)
                 \/ StreamEnds(d) \/ RegisterHandle(d) \/ AbortLands(d) \/ Leave(d)
          PROVE  FALSE
      BY <3>1, <3>3 DEF Goto, SkipLagged, Receive, PersistEvent, Persist, RemoveQueue,
         StreamEnds, RegisterHandle, AbortLands, Leave
    <3>4. ASSUME NEW d \in Requests, Execute(d)
          PROVE  FALSE
      BY <3>1, <3>4 DEF Execute, Emit, AgentReturns, SaveFailed, ReportFailed
    <3>5. ASSUME NEW d \in Requests, Decide(d)
          PROVE  d = r
      BY <3>1, <3>5 DEF Decide, Goto
    <3>6. CASE UNCHANGED vars
      BY <3>1, <3>6 DEF vars
    <3> QED
      BY <1>1, <3>2, <3>3, <3>4, <3>5, <3>6 DEF Next, Handle
  <2>2. Current(r) \in Events /\ Task(r) \in TaskIds
    BY <1>1, CurrentTypes, CallTypes DEF HandlerInv
  <2> PICK e \in Events : e = Current(r)
    BY <2>2
  <2>3. /\ Interrupts(r, e) \/ EventIsTerminal(e)
        /\ answer'[r] = AnswerTo(r, e)
    BY <1>1, <2>1 DEF Decide, Goto, TypeOK
  <2>4. StoredOrNew(r) = store[Task(r)]
    BY <1>1, <2>2 DEF StoredOrNew, AloneInv, OpenUntilStored
  <2>5. CASE Interrupts(r, e) \/ e.kind = "StatusUpdate"
    <3>1. AnswerTo(r, e) = StoredOrNew(r)
      <4>1. e.kind # "Message"
        BY <2>5 DEF Interrupts, HasState
      <4> QED
        BY <2>5, <4>1 DEF AnswerTo
    <3> QED
      BY <2>3, <2>4, <3>1
  <2>6. CASE ~(Interrupts(r, e) \/ e.kind = "StatusUpdate")
    <3>1. EventIsTerminal(e)
      BY <2>3, <2>6
    <3>2. e.kind # "Message"
      BY <1>1, <2>3, <2>6 DEF AnswerTo, TaskStates
    <3>3. e.kind = "Task"
      BY <2>6, <3>1, <3>2 DEF EventIsTerminal, HasState
    <3>4. answer'[r] = e.state
      BY <2>3, <2>6, <3>3 DEF AnswerTo
    <3>5. store[Task(r)] = e.state
      <4>1. Current(r).kind = "Task" => store[Task(r)] = Current(r).state
        BY <1>1 DEF AloneInv, OpenUntilStored
      <4> QED
        BY <3>3, <4>1
    <3> QED
      BY <3>4, <3>5
  <2> QED
    BY <2>5, <2>6
<1> DEFINE Answered ==
        \A r \in Requests :
          pc[r] = "deciding" /\ pc'[r] = "answering" /\ answer'[r] \in TaskStates
            => store[Task(r)] = answer'[r]
<1>2. TypeOK /\ HandlerInv /\ AloneInv /\ [Next]_vars => [Answered]_vars
  BY <1>1
<1>3. AnswerIsStored <=> [][Answered]_vars
  BY DEF AnswerIsStored
<1> HIDE DEF Answered
<1> QED
  BY <1>2, <1>3, AloneInvariance, PTL DEF Spec
=============================================================================
