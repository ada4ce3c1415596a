------------------------------ MODULE A2ATypes ------------------------------
(***************************************************************************)
(* The protocol vocabulary every component shares: task states, the events *)
(* an agent writes to a queue and the two classifications of an event the  *)
(* server acts on.  Message texts, artifacts' parts, timestamps and ids    *)
(* other than the task's own are abstracted away; a task is its state.     *)
(***************************************************************************)

TaskStates ==
    {"Unspecified", "Submitted", "Working", "Completed", "Failed",
     "Canceled", "InputRequired", "Rejected", "AuthRequired"}

IsTerminal(state) == state \in {"Completed", "Failed", "Canceled", "Rejected"}

\* The store's answer for a task it does not hold.
NoTask == "NoTask"

-----------------------------------------------------------------------------
(* Events.  A snapshot or a status update carries a state; a message and   *)
(* an artifact update carry none that the server looks at.                 *)

TaskEvent(state)         == [kind |-> "Task", state |-> state]
StatusUpdateEvent(state) == [kind |-> "StatusUpdate", state |-> state]
MessageEvent             == [kind |-> "Message", state |-> "Unspecified"]
ArtifactUpdateEvent      == [kind |-> "ArtifactUpdate", state |-> "Unspecified"]

Events ==
    {TaskEvent(s) : s \in TaskStates}
      \cup {StatusUpdateEvent(s) : s \in TaskStates}
      \cup {MessageEvent, ArtifactUpdateEvent}

HasState(event) == event.kind \in {"Task", "StatusUpdate"}

\* Mutant: is_terminal without an arm for status updates.
SnapshotIsTerminal(event) ==
    \/ event.kind = "Message"
    \/ event.kind = "Task" /\ IsTerminal(event.state)

EventIsTerminal(event) ==
    \/ event.kind = "Message"
    \/ HasState(event) /\ IsTerminal(event.state)
=============================================================================
