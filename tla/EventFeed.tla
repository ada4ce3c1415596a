------------------------------- MODULE EventFeed -------------------------------
(* What a stream of events promises whatever carries it: its reader sees events *)
(* that were sent, in the order they were sent, each at most once, and may miss *)
(* some.                                                                        *)
EXTENDS Naturals, Sequences

CONSTANT Event

VARIABLES
    sent,  \* the events sent
    seen   \* the places in sent that the reader has seen

Init == sent = <<>> /\ seen = <<>>

Send == \E e \in Event : sent' = Append(sent, e) /\ UNCHANGED seen

See ==
    /\ \E i \in 1..Len(sent) :
        /\ \A j \in DOMAIN seen : seen[j] < i
        /\ seen' = Append(seen, i)
    /\ UNCHANGED sent

Spec == Init /\ [][Send \/ See]_<<sent, seen>>
================================================================================
