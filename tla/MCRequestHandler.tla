-------------------------- MODULE MCRequestHandler --------------------------
(***************************************************************************)
(* Workloads and agents for RequestHandler's runs.                         *)
(***************************************************************************)
EXTENDS RequestHandler, FiniteSetsExt, TLC

CONSTANTS t1, t2

Assign(opsOf, tasksOf) ==
    {[r \in Requests |-> [op |-> f[r], task |-> g[r]]] : f \in opsOf, g \in tasksOf}

AllOnT1 == [Requests -> {t1}]

CountOps(f, ops) == Quantify(Requests, LAMBDA r : f[r] \in ops)

\* Any operations on one task, or on a task each a send without configuration
\* and a cancel or another such send.
AnyOnOneTask  == Assign([Requests -> Ops \ {"sendDefault"}], AllOnT1)
EachItsOwnTask ==
    {w \in Assign([Requests -> {"sendDefault", "cancel"}], [Requests -> TaskIds]) :
        /\ \E r \in Requests : w[r].op = "sendDefault"
        /\ \A r, s \in Requests : w[r].task = w[s].task => r = s}
AnyOperations == AnyOnOneTask \union EachItsOwnTask

\* One blocking send executes the agent; the others only watch.
OneSend ==
    Assign({f \in [Requests -> {"sendBlocking", "subscribe"}] :
              CountOps(f, {"sendBlocking"}) = 1}, AllOnT1)

\* Blocking sends and cancels of the task, in any mix.
SendsAndCancels == Assign([Requests -> {"sendBlocking", "cancel"}], AllOnT1)

\* Whatever waits for an answer: sends of either kind, and cancels.
AnyCollectors ==
    Assign([Requests -> {"sendBlocking", "sendImmediately", "cancel"}], AllOnT1)

Working   == TaskEvent("Working")
Completed == TaskEvent("Completed")
Canceled  == TaskEvent("Canceled")
CompletedUpdate == StatusUpdateEvent("Completed")

\* An agent that reports progress, sends artifacts and ends in any way.
AgentRepertoire == {Working, Completed, CompletedUpdate, MessageEvent, ArtifactUpdateEvent}

MixedEvents   == {Working, CompletedUpdate}
CancelReply   == {Canceled}
CancelReplies == {Canceled, MessageEvent}

Symmetry == Permutations(Requests)
=============================================================================
