----------------------------- MODULE MCTaskService -----------------------------
(* Plans of TaskService for TLC. *)
EXTENDS TaskService, TLC

CONSTANTS p1, p2, r1, t1, t2, t3, k1, k2, k3

Task(state, content) == [state |-> state, content |-> content]
Snapshot(state, content) == [kind |-> "task", state |-> state, content |-> content]
Status(state) == [kind |-> "status", state |-> state, content |-> "old"]
Config(op, k, valid) == [op |-> op, config |-> k, valid |-> valid]
NoCall == Config("none", Generated, TRUE)
AnyTasks == [size |-> NoSize, status |-> "any"]

Collecting(start, events, who, ks, c) ==
    [tasks |-> start, events |-> events, collecting |-> who, configs |-> ks,
     calls |-> [r \in Callers |-> c], request |-> AnyTasks, lists |-> FALSE,
     arriving |-> {}, backend |-> "memory"]

Listing(start, size, status, arriving, backend) ==
    [tasks |-> start, events |-> <<>>, collecting |-> {}, configs |-> {},
     calls |-> [r \in Callers |-> NoCall],
     request |-> [size |-> size, status |-> status], lists |-> TRUE,
     arriving |-> arriving, backend |-> backend]

Working == t1 :> Task("Working", "old")
NoTasks == [id \in {} |-> Task("Working", "old")]
EventLists ==
    {<<Status("Working"), Snapshot("Working", "new"), Status("Completed")>>,
     <<Snapshot("Working", "new"), Status("Completed")>>,
     <<Status("Working"), Snapshot("Completed", "new")>>}

UpdatePlans ==
    {Collecting(start, es, who, ks, NoCall) :
        start \in {Working, NoTasks}, es \in EventLists,
        who \in {{p1}, {p1, p2}}, ks \in {{k1}}}
ConfigPlans ==
    {Collecting(Working, <<Status("Working"), Snapshot("Completed", "new")>>, who,
                {k1, k2}, c) :
        who \in {{p1}, {p1, p2}},
        c \in {Config("delete", k1, TRUE), Config("create", Generated, TRUE),
               Config("create", k1, FALSE), Config("send", k3, TRUE)}}
    \union {[Collecting(NoTasks, <<Status("Working")>>, {p1}, {}, Config("send", k1, TRUE))
             EXCEPT !.arriving = {t1}]}

ThreeTasks ==
    t1 :> Task("Working", "old") @@ t2 :> Task("Completed", "old")
        @@ t3 :> Task("Working", "old")
ListPlans ==
    {Listing(ThreeTasks, size, status, arriving, backend) :
        size \in {NoSize, -1, 1, 2, 9}, status \in {"any", "Working"},
        arriving \in {{}, {t2}}, backend \in {"memory", "sql"}}

AllPlans == UpdatePlans \union ConfigPlans \union ListPlans
================================================================================
