------------------------------- MODULE CallPath -------------------------------
(******************************************************************************)
(* The way of a call from Client to the server's RequestHandler and back.     *)
(* ClientFactory picks an interface of the agent's card; then concurrent      *)
(* calls on the one client pass its interceptors, its transport, the          *)
(* endpoint, the server's interceptors and the handler, one step at a time.   *)
(* The handler itself is one step here (RequestHandler models it), except     *)
(* that a send may wait until some cancel has been handled.                   *)
(******************************************************************************)
EXTENDS Transports, Filters, Sequences, SequencesExt, FiniteSets

AgentCard == [streaming : BOOLEAN, extended : BOOLEAN]

CONSTANTS
    Calls,              \* calls in flight
    Tenants,            \* the tenants that interfaces name
    Starts,             \* where the system may start: see StartType
    ClientInterceptors, \* how many interceptors the client has
    ServerInterceptors, \* how many the server has
    HandlerErrors,      \* errors the handler may return
    InterceptorErrors,  \* errors an interceptor may return or substitute
    Losses              \* how many calls the network or a timeout may lose

\* The card's interfaces, preferred protocols and builders that the factory
\* works with; the card it gives the client and the one served; what each call
\* does, if anything.
Setup ==
    [interfaces : Seq(AgentInterface(Tenants)), preferred : Seq(Protocols),
     builders : SUBSET Protocols]
StartType ==
    [setup : Setup, held : AgentCard, served : AgentCard,
     work : [Calls -> ClientOps \union {"none"}]]

ASSUME CallPathAssumption ==
    /\ Starts \subseteq StartType
    /\ ClientInterceptors \in Nat /\ ServerInterceptors \in Nat /\ Losses \in Nat
    /\ HandlerErrors \subseteq A2AError /\ InterceptorErrors \subseteq A2AError

VARIABLES
    setup,     \* the factory's input
    todo,      \* candidates the factory has left; the first one is in use
    failed,    \* candidates whose builder failed
    made,      \* whether there is a client: "building", "made", or an error
    card,      \* the card the client holds: [streaming, extended]
    served,    \* the card the server would serve
    lock,      \* calls in the gRPC channel's mutex (at most one)
    canceled,  \* whether the handler has handled a cancel
    lost,      \* calls lost so far
    call       \* the state of each call

vars == <<setup, todo, failed, made, card, served, lock, canceled, lost, call>>
factoryVars == <<setup, todo, failed, made>>

Outcome == {"ok"} \union A2AError
Unanswered == "unanswered"
NoTenant == ""

\* Mutant: a protocol without a place counts as the first (unwrap_or(0)).
RankUnlistedFirst(s, iface) ==
    IF iface.protocol \in ToSet(s.preferred)
    THEN SelectInSeq(s.preferred, LAMBDA p : p = iface.protocol)
    ELSE 1

Rank(s, iface) ==
    IF iface.protocol \in ToSet(s.preferred)
    THEN SelectInSeq(s.preferred, LAMBDA p : p = iface.protocol)
    ELSE Len(s.preferred) + 1

\* Candidates in the order they are tried: those with a builder, by their
\* protocol's place among the preferred ones, else as the card lists them.
Candidates(s) ==
    FlattenSeq([r \in 1..Len(s.preferred) + 1 |->
        Kept(s.interfaces, {i \in AgentInterface(Tenants) :
                                i.protocol \in s.builders /\ Rank(s, i) = r})])

Chosen == Head(todo)
Over(protocol) == made = "made" /\ Chosen.protocol = protocol

Idle(op) ==
    [op |-> op, wire |-> op, pc |-> "idle", at |-> 1, result |-> Unanswered,
     said |-> {}, seen |-> <<>>, broken |-> FALSE, tenant |-> NoTenant,
     handled |-> FALSE]

Init ==
    \E s \in Starts :
        /\ setup = s.setup
        /\ todo = Candidates(setup)
        /\ failed = {}
        /\ made = IF setup.interfaces = <<>> THEN "InvalidParams"
                  ELSE IF todo = <<>> THEN "Other" ELSE "building"
        /\ card = s.held /\ served = s.served
        /\ lock = {} /\ canceled = FALSE /\ lost = 0
        /\ call = [c \in Calls |-> Idle(s.work[c])]

BuilderWorks ==
    /\ made = "building"
    /\ made' = "made"
    /\ UNCHANGED <<setup, todo, failed, card, served, lock, canceled, lost, call>>

BuilderFails ==
    /\ made = "building"
    /\ failed' = failed \union {Head(todo)}
    /\ todo' = Tail(todo)
    /\ made' = IF todo' = <<>> THEN "Other" ELSE "building"
    /\ UNCHANGED <<setup, card, served, lock, canceled, lost, call>>

--------------------------------------------------------------------------------
\* Steps of call c.

Pc(c) == call[c].pc
IsStream(c) == call[c].wire \in Streaming
Goes(c, pc, at) == [call[c] EXCEPT !.pc = pc, !.at = at]
Answers(c, pc, at, outcome) == [Goes(c, pc, at) EXCEPT !.result = outcome]
Saying(record, outcome) == [record EXCEPT !.said = @ \union {outcome}]
Step(c, record) ==
    /\ call' = [call EXCEPT ![c] = record]
    /\ UNCHANGED <<factoryVars, served, lost>>

\* A stream's setup error passes none of the client's interceptors again.
BackToClient(c, outcome) ==
    Answers(c, IF IsStream(c) THEN "done" ELSE "clientAfter", 1, outcome)

Start(c) ==
    /\ made = "made" /\ Pc(c) = "idle" /\ call[c].op \notin {"none", "card"}
    /\ Step(c, Goes(c, "clientBefore", 1))
    /\ UNCHANGED <<card, lock, canceled>>

\* get_agent_card runs no before(), and may answer from the card it holds.
StartCard(c) ==
    /\ made = "made" /\ Pc(c) = "idle" /\ call[c].op = "card"
    /\ Step(c, IF card.extended THEN Goes(c, "connect", 1)
               ELSE Saying(Answers(c, "done", 1, "ok"), "ok"))
    /\ UNCHANGED <<card, lock, canceled>>

ClientBefore(c) ==
    /\ Pc(c) = "clientBefore"
    /\ IF call[c].at <= ClientInterceptors
       THEN \/ Step(c, Goes(c, "clientBefore", call[c].at + 1))
            \/ \E e \in InterceptorErrors :
                Step(c, [Saying(Answers(c, "done", 1, e), e) EXCEPT !.broken = TRUE])
       ELSE Step(c, [Goes(c, "connect", 1) EXCEPT
                        !.wire = IF @ = "stream" /\ ~card.streaming THEN "send" ELSE @])
    /\ UNCHANGED <<card, lock, canceled>>

\* Mutant: every transport is locked for the length of a call.
AlwaysLocks(c) == {c}

\* A gRPC transport keeps its channel locked until the answer, or the stream's
\* headers, are there.
Locks(c) == IF Over("GRPC") THEN {c} ELSE {}

Connect(c) ==
    /\ Pc(c) = "connect"
    /\ IF call[c].wire \notin Offers(Chosen)
       THEN /\ Step(c, Saying(BackToClient(c, "UnsupportedOperation"),
                              "UnsupportedOperation"))
            /\ UNCHANGED lock
       ELSE /\ lock = {}
            /\ lock' = Locks(c)
            /\ Step(c, Goes(c, "sent", 1))
    /\ UNCHANGED <<card, canceled>>

Unlocked(c) == lock' = lock \ {c}

ArriveForCard(c) ==
    /\ Pc(c) = "sent" /\ call[c].wire = "card"
    /\ \/ /\ ServesCard(Chosen)
          /\ Step(c, Saying(BackToClient(c, "ok"), "ok"))
       \/ Step(c, Saying(BackToClient(c, CardErrorSeen(Chosen)), CardErrorSeen(Chosen)))
    /\ Unlocked(c)
    /\ UNCHANGED <<card, canceled>>

Arrive(c) ==
    /\ Pc(c) = "sent" /\ call[c].wire # "card"
    /\ IF call[c].wire \in Routed(Chosen)
       THEN /\ Step(c, [Goes(c, "serverBefore", 1) EXCEPT
                           !.tenant = TenantReceived(Chosen, call[c].wire)])
            /\ UNCHANGED lock
       ELSE /\ Step(c, BackToClient(c, NotRoutedSeen(Chosen)))
            /\ Unlocked(c)
    /\ UNCHANGED <<card, canceled>>

\* An error in before() goes straight back: no after() runs.
ServerBefore(c) ==
    /\ Pc(c) = "serverBefore"
    /\ IF call[c].at <= ServerInterceptors
       THEN \/ Step(c, [Goes(c, "serverBefore", call[c].at + 1) EXCEPT
                           !.seen = Append(@, call[c].at)])
            \/ \E e \in InterceptorErrors :
                Step(c, [Saying(Answers(c, "reply", 1, e), e) EXCEPT !.broken = TRUE])
       ELSE Step(c, Goes(c, "handler", 1))
    /\ UNCHANGED <<card, lock, canceled>>

\* Mutant: an error of the handler is returned past the after() chain.
HandledOrReturned(c, outcome) ==
    [Saying(Answers(c, IF IsStream(c) \/ outcome # "ok" THEN "reply" ELSE "serverAfter",
                    ServerInterceptors, outcome), outcome) EXCEPT !.handled = TRUE]

Handled(c, outcome) ==
    [Saying(Answers(c, IF IsStream(c) THEN "reply" ELSE "serverAfter",
                    ServerInterceptors, outcome), outcome) EXCEPT !.handled = TRUE]

Handle(c) ==
    /\ \/ Pc(c) = "handler" /\ \E o \in {"ok"} \union HandlerErrors : Step(c, Handled(c, o))
       \/ Pc(c) = "waiting" /\ canceled /\ Step(c, Handled(c, "ok"))
    /\ canceled' = (canceled \/ (call[c].wire = "cancel" /\ call'[c].result = "ok"))
    /\ UNCHANGED <<card, lock>>

WaitForCancel(c) ==
    /\ Pc(c) = "handler" /\ call[c].wire = "send"
    /\ Step(c, Goes(c, "waiting", 1))
    /\ UNCHANGED <<card, lock, canceled>>

\* after() sees the outcome and may substitute another; its own error ends the
\* walk.
AfterPasses(c, next) ==
    \/ Step(c, next)
    \/ \E o \in {"ok"} \union InterceptorErrors :
        Step(c, Saying([next EXCEPT !.result = o], o))

ServerAfter(c) ==
    /\ Pc(c) = "serverAfter"
    /\ IF call[c].at > 0
       THEN \/ AfterPasses(c, [Goes(c, "serverAfter", call[c].at - 1) EXCEPT
                                 !.seen = Append(@, -call[c].at)])
            \/ \E e \in InterceptorErrors :
                Step(c, [Saying(Answers(c, "reply", 1, e), e) EXCEPT !.broken = TRUE])
       ELSE Step(c, Goes(c, "reply", 1))
    /\ UNCHANGED <<card, lock, canceled>>

Reply(c) ==
    /\ Pc(c) = "reply"
    /\ Step(c, BackToClient(c, IF call[c].result = "ok" THEN "ok"
                               ELSE HandlerErrorSeen(Chosen, call[c].wire, call[c].result)))
    /\ Unlocked(c)
    /\ UNCHANGED <<card, canceled>>

ClientAfter(c) ==
    /\ Pc(c) = "clientAfter"
    /\ IF call[c].at <= ClientInterceptors
       THEN /\ \/ AfterPasses(c, Goes(c, "clientAfter", call[c].at + 1))
               \/ \E e \in InterceptorErrors :
                   Step(c, [Saying(Answers(c, "done", 1, e), e) EXCEPT !.broken = TRUE])
            /\ UNCHANGED card
       ELSE /\ Step(c, Goes(c, "done", 1))
            /\ card' = IF call[c].op = "card" /\ call[c].result = "ok"
                       THEN served ELSE card
    /\ UNCHANGED <<lock, canceled>>

OnServer == {"serverBefore", "handler", "waiting", "serverAfter", "reply"}

\* The connection breaks, or an HTTP client's timeout strikes: what the server
\* was doing for the call is dropped.
Lose(c) ==
    /\ Pc(c) \in {"sent"} \union OnServer
    /\ lost < Losses
    /\ lost' = lost + 1
    /\ call' = [call EXCEPT ![c] = [BackToClient(c, ConnectionErrorSeen(Chosen))
                                      EXCEPT !.broken = TRUE]]
    /\ Unlocked(c)
    /\ UNCHANGED <<factoryVars, served, card, canceled>>

CallStep(c) ==
    \/ Start(c) \/ StartCard(c) \/ ClientBefore(c) \/ Connect(c)
    \/ ArriveForCard(c) \/ Arrive(c) \/ ServerBefore(c) \/ Handle(c)
    \/ WaitForCancel(c) \/ ServerAfter(c) \/ Reply(c) \/ ClientAfter(c)

Next ==
    \/ BuilderWorks \/ BuilderFails
    \/ \E c \in Calls : CallStep(c) \/ Lose(c)

Spec == Init /\ [][Next]_vars

\* The runtime polls every task that can run; an interceptor or a handler is
\* assumed to return.  No loss is owed to anybody.
FairSpec == Spec /\ \A c \in Calls : WF_vars(CallStep(c))

--------------------------------------------------------------------------------
Done(c) == Pc(c) = "done"

\* The factory uses the best interface it can: every other one with a builder
\* that the preferences, or else the order of the card, put first has been
\* tried and has failed (create_from_card's filter, stable sort and loop).
Precedes(p, q) ==
    \E a \in DOMAIN setup.preferred :
        setup.preferred[a] = p /\ \A b \in 1..a : setup.preferred[b] # q

Better(i, j) ==
    LET protocol(k) == setup.interfaces[k].protocol IN
    \/ Precedes(protocol(i), protocol(j))
    \/ ~Precedes(protocol(j), protocol(i)) /\ i < j

ChosenIsBest ==
    made = "made" =>
        \E j \in DOMAIN setup.interfaces :
            /\ setup.interfaces[j] = Chosen
            /\ \A i \in DOMAIN setup.interfaces :
                (setup.interfaces[i].protocol \in setup.builders /\ Better(i, j))
                    => setup.interfaces[i] \in failed

\* What the caller gets is what somebody on the way said, or a generic error,
\* or a failure of the connection: no layer turns one specific error into
\* another, or an error into success, across error code and reason tables,
\* substitutions by interceptors, and early returns.
AnswerExplained ==
    \A c \in Calls :
        Done(c) => call[c].result \in call[c].said \union Generic \union {"Http"}

\* Server interceptors nest around the handler: when none of them failed and
\* the caller stayed, a unary call the handler saw passed each before() in
\* order and each after() in the reverse order, whatever errors were carried.
Nested ==
    LET n == ServerInterceptors
        onion == [i \in 1..2 * n |-> IF i <= n THEN i ELSE i - 2 * n - 1]
    IN \A c \in Calls :
        (Done(c) /\ call[c].handled /\ ~call[c].broken)
            => call[c].seen = IF IsStream(c) THEN SubSeq(onion, 1, n) ELSE onion

\* All calls of a client carry one tenant to the handler, over JSON-RPC always;
\* over REST when the interface's path is its tenant's; over gRPC, which drops
\* the tenant of a send or a stream, when there is none.
OneTenant ==
    (made = "made" /\ CASE Over("JSONRPC")   -> TRUE
                        [] Over("HTTP+JSON") -> Chosen.path = Chosen.tenant
                        [] Over("GRPC")      -> Chosen.tenant = "")
        => \A c, d \in Calls :
            (call[c].handled /\ call[d].handled) => call[c].tenant = call[d].tenant

\* The error a unary JSON-RPC call ends with is the one the handler returned,
\* as A2AError's variants "map to JSON-RPC error codes" (error.rs:24) and
\* handle_request maps the errors of its dispatch.
ErrorCodeKept ==
    \A c \in Calls :
        (Over("JSONRPC") /\ Done(c) /\ call[c].handled /\ ~call[c].broken)
            => call[c].result \in call[c].said

\* A call that has started ends, unless it is a send that waits for a cancel:
\* over HTTP a waiting send holds up nobody, so the cancel it waits for gets
\* through.
HttpCallsEnd ==
    \A c \in Calls :
        (Pc(c) # "idle" /\ ~Over("GRPC"))
            ~> (Done(c) \/ (Pc(c) = "waiting" /\ ~canceled))
================================================================================
