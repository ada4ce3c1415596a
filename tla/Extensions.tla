------------------------------ MODULE Extensions ------------------------------
(******************************************************************************)
(* Extensions along a chain of agents.  Each agent serves requests behind a   *)
(* ServerPropagator and, while it serves one, calls the next agent through a  *)
(* client with an ExtensionActivator and a ClientPropagator.  The propagators *)
(* meet in a task-local cell, so what counts is in which task the application *)
(* makes its call.  A request travels from agent to agent; several travel at  *)
(* once.  Header values and metadata keys are extension URIs.                 *)
(******************************************************************************)
EXTENDS Naturals, FiniteSets

CONSTANTS
    Uris,        \* extension URIs
    Requests,    \* the requests on their way
    Agents,      \* the length of the chain: agents 1 .. Agents
    Origins,     \* what callers send agent 1: [copies, metadata]
    Cards,       \* what a client may know of an agent: NoCard or the URIs on its card
    Wishes,      \* what an agent's activator may ask for
    Transports,  \* how an agent may be called: subset of {"jsonrpc", "rest", "grpc"}
    NoCard, OutOfScope, NoContext

ASSUME AgentsAssumption == Agents \in Nat \ {0}
ASSUME CardsAssumption == Cards \subseteq (SUBSET Uris) \union {NoCard}
ASSUME WishesAssumption == Wishes \subseteq SUBSET Uris
ASSUME TransportsAssumption == Transports \subseteq {"jsonrpc", "rest", "grpc"}

VARIABLES
    chain,      \* how each agent is called, what its card says, what it wishes
    hop,        \* the agent that serves a request
    stage,      \* how far that agent is with it
    arrived,    \* the request as the agent received it
    cell,       \* the cell PROPAGATOR_CTX of the task that serves it, and of one it spawned
    activated,  \* CallContext.activated_extensions
    origin,     \* history: what the caller sent
    unbroken,   \* history: each agent so far called the next over JSON-RPC from a
                \* task that had the context installed for the request
    handedOn    \* history: each agent so far sent the next a message from a task
                \* that had a respelled context, all but the last over JSON-RPC

vars == <<chain, hop, stage, arrived, cell, activated, origin, unbroken, handedOn>>

--------------------------------------------------------------------------------
(* Names, cards and values.                                                   *)

\* SVC_PARAM_EXTENSIONS as the clients write it, and the name a server sees.
Canonical == "A2A-Extensions"
Lowered == "a2a-extensions"
Keys == {Canonical, Lowered}

\* Values under each name, with how often each occurs.
NoValues == [u \in Uris |-> 0]
Values(copies) == {u \in Uris : copies[u] > 0}
Contexts == [headers : [Keys -> [Uris -> Nat]], metadata : SUBSET Uris]

\* Mutant: a card that lists any extension is taken to support them all.
SupportedIfAny(card, u) == card = NoCard \/ card # {}

IsExtensionSupported(card, u) == card = NoCard \/ u \in card

\* Mutant: append() without its check.
AppendedAgain(had, times) == had + times

\* ServiceParams::append of a value that occurs that often already.
Appended(had, times) == IF had = 0 /\ times > 0 THEN 1 ELSE had

--------------------------------------------------------------------------------
(* The tasks and their cells.                                                 *)

Places == {"serving", "spawned"}

\* Mutant: one cell for the process instead of one for each task.
SharedCell(r, place) == <<CHOOSE q \in Requests : TRUE, "serving">>

\* tokio keeps a cell for each task, whichever thread polls it.
CellOf(r, place) == <<r, place>>

\* PropagatorContext::current
Current(r, place) ==
    LET here == cell[CellOf(r, place)]
    IN  IF here \in {OutOfScope, NoContext} THEN NoContext ELSE here

Arrival == [copies : [Uris -> Nat], metadata : SUBSET Uris]
ASSUME OriginsAssumption == Origins \subseteq Arrival

Chains ==
    [transport : [2 .. Agents -> Transports], card : [2 .. Agents -> Cards],
     wishes : [1 .. Agents - 1 -> Wishes]]

Init ==
    /\ chain \in Chains
    /\ hop = [r \in Requests |-> 1]
    /\ stage = [r \in Requests |-> "arrived"]
    /\ arrived \in [Requests -> Origins]
    /\ cell = [c \in Requests \X Places |-> OutOfScope]
    /\ activated = [r \in Requests |-> {}]
    /\ origin = arrived
    /\ unbroken = [r \in Requests |-> TRUE]
    /\ handedOn = [r \in Requests |-> TRUE]

\* The application serves the request within init_propagation, or it does not.
Enter(r, wrapped) ==
    /\ stage[r] = "arrived"
    /\ stage' = [stage EXCEPT ![r] = "entered"]
    /\ cell' = [cell EXCEPT ![CellOf(r, "serving")] = IF wrapped THEN NoContext ELSE OutOfScope]
    /\ UNCHANGED <<chain, hop, arrived, activated, origin, unbroken, handedOn>>

\* Mutant: headers are kept only under the spelling of SVC_PARAM_EXTENSIONS.
HeadersKeptExactly(request) == [k \in Keys |-> NoValues]

\* The default header predicate ignores case; the map is keyed as iterated.
HeadersKept(request) == [k \in Keys |-> IF k = Lowered THEN request.copies ELSE NoValues]

\* Mutant: the header is looked up as the clients write it.
ExtractedExactly(request) ==
    request.metadata \intersect Values(HeadersKept(request)[Canonical])

\* extract_metadata, with the default predicate: its look-up ignores case.
Extracted(request) == request.metadata \intersect Values(request.copies)

\* Mutant: the names of the headers instead of their values.
ActivatedByName(headers) == {k \in Keys : Values(headers[k]) # {}}

\* What it activates in the call context: the values under the name it looks up.
ActivatedBy(headers) == Values(headers[Canonical])

\* ServerPropagator::before.  install() does nothing outside a scope.
Propagate(r) ==
    LET ctx == [headers |-> HeadersKept(arrived[r]), metadata |-> Extracted(arrived[r])]
        own == CellOf(r, "serving")
    IN  /\ stage[r] = "entered"
        /\ stage' = [stage EXCEPT ![r] = "serving"]
        /\ activated' = [activated EXCEPT ![r] = @ \union ActivatedBy(ctx.headers)]
        /\ cell' = [cell EXCEPT ![own] = IF @ = OutOfScope THEN @ ELSE ctx]
        /\ UNCHANGED <<chain, hop, arrived, origin, unbroken, handedOn>>

\* Application code that gives its context the name ClientPropagator looks up.
Respelled(ctx) ==
    [ctx EXCEPT !.headers = [k \in Keys |-> IF k = Canonical THEN @[Lowered] ELSE NoValues]]

IsRespelled(ctx) == ctx # NoContext /\ ctx.headers[Lowered] = NoValues

\* The task that will call the next agent is spawned: it inherits no cell, but
\* the application may run it in PropagatorContext::scope with a context.
Spawn(r, context) ==
    /\ stage[r] = "serving"
    /\ stage' = [stage EXCEPT ![r] = "spawned"]
    /\ cell' = [cell EXCEPT ![CellOf(r, "spawned")] = context]
    /\ UNCHANGED <<chain, hop, arrived, activated, origin, unbroken, handedOn>>

SpawnBare(r) == Spawn(r, OutOfScope)

SpawnScoped(r) ==
    LET ctx == Current(r, "serving")
    IN  ctx # NoContext /\ (Spawn(r, ctx) \/ Spawn(r, Respelled(ctx)))

--------------------------------------------------------------------------------
(* The client's interceptors.                                                 *)

\* ExtensionActivator::activate
Activate(card, wishes) == {u \in wishes : IsExtensionSupported(card, u)}

\* ClientPropagator::propagate_client, the headers.
Forwarded(ctx, card, k) ==
    [u \in Uris |->
        IF ctx # NoContext /\ IsExtensionSupported(card, u) THEN ctx.headers[k][u] ELSE 0]

\* What of the metadata it injects: only into a SendMessageRequest.
Injected(ctx, card) ==
    IF ctx = NoContext THEN {}
    ELSE {u \in ctx.metadata \intersect Values(ctx.headers[Canonical]) :
              IsExtensionSupported(card, u)}

\* The service parameters after both interceptors.  append() never repeats a
\* value, so the order in which they are attached makes no difference.
ServiceParams(ctx, card, wishes) ==
    [k \in Keys |-> [u \in Uris |->
        Appended(IF k = Canonical /\ u \in Activate(card, wishes) THEN 1 ELSE 0,
                 Forwarded(ctx, card, k)[u])]]

\* Of the transports only JSON-RPC's calls apply_service_params, which sends a
\* header for each value, and the server lowers every name.  Those of REST and
\* gRPC ignore the service parameters.  All carry the payload with its metadata.
Received(transport, params, metadata) ==
    [copies |-> IF transport = "jsonrpc"
                THEN [u \in Uris |-> params[Canonical][u] + params[Lowered][u]] ELSE NoValues,
     metadata |-> metadata]

\* The agent calls the next one; isSend is whether it sends a message.
Call(r, place, isSend) ==
    LET next == hop[r] + 1
        ctx == Current(r, place)
        card == chain.card[next]
    IN  /\ stage[r] = place
        /\ hop[r] < Agents
        /\ hop' = [hop EXCEPT ![r] = next]
        /\ stage' = [stage EXCEPT ![r] = "arrived"]
        /\ arrived' = [arrived EXCEPT ![r] =
               Received(chain.transport[next],
                        ServiceParams(ctx, card, chain.wishes[hop[r]]),
                        IF isSend THEN Injected(ctx, card) ELSE {})]
        /\ cell' = [c \in DOMAIN cell |-> IF c[1] = r THEN OutOfScope ELSE cell[c]]
        /\ activated' = [activated EXCEPT ![r] = {}]
        /\ unbroken' = [unbroken EXCEPT ![r] =
               @ /\ chain.transport[next] = "jsonrpc" /\ ctx # NoContext]
        /\ handedOn' = [handedOn EXCEPT ![r] =
               @ /\ unbroken[r] /\ isSend /\ IsRespelled(ctx)]
        /\ UNCHANGED <<chain, origin>>

Next ==
    \E r \in Requests :
        \/ \E wrapped \in BOOLEAN : Enter(r, wrapped)
        \/ Propagate(r)
        \/ SpawnBare(r)
        \/ SpawnScoped(r)
        \/ \E place \in Places, isSend \in BOOLEAN : Call(r, place, isSend)

Spec == Init /\ [][Next]_vars

--------------------------------------------------------------------------------
(* Properties.                                                                *)

TypeOK ==
    /\ chain \in Chains
    /\ hop \in [Requests -> 1 .. Agents]
    /\ stage \in [Requests -> {"arrived", "entered", "serving", "spawned"}]
    /\ arrived \in [Requests -> Arrival]
    /\ cell \in [Requests \X Places -> Contexts \union {OutOfScope, NoContext}]
    /\ activated \in [Requests -> SUBSET Uris]
    /\ origin \in [Requests -> Arrival]
    /\ unbroken \in [Requests -> BOOLEAN]
    /\ handedOn \in [Requests -> BOOLEAN]

WishedOnTheWay(r) == UNION {chain.wishes[a] : a \in 1 .. hop[r] - 1}

\* An agent is asked for an extension, or given metadata, on behalf of a request
\* only if that request's caller sent it or an agent that passed the request on
\* wished for it, whatever else those agents were serving meanwhile.
OnItsOwnBehalf ==
    \A r \in Requests :
        /\ Values(arrived[r].copies) \subseteq Values(origin[r].copies) \union WishedOnTheWay(r)
        /\ arrived[r].metadata \subseteq origin[r].metadata

\* No agent is asked for an extension that is not on the card its caller holds,
\* nor given its metadata: neither propagated nor wished for.
OnlySupported ==
    \A r \in Requests :
        (hop[r] > 1 /\ chain.card[hop[r]] # NoCard) =>
            Values(arrived[r].copies) \union arrived[r].metadata \subseteq chain.card[hop[r]]

\* An extension the caller asks for reaches the end of any chain of agents that
\* support it, as long as each agent calls the next over JSON-RPC from a task
\* that has the context of the request: the handling itself in init_propagation,
\* or a spawned one in scope().  The two interceptors spell the header
\* differently.  Over REST and gRPC it is lost, with or without a context.
ReachesTheEnd ==
    \A r \in Requests : unbroken[r] =>
        \A u \in Values(origin[r].copies) :
            (\A a \in 2 .. hop[r] : IsExtensionSupported(chain.card[a], u)) =>
                u \in Values(arrived[r].copies)

\* A URI is sent under at most both spellings: the copies of a header do not
\* multiply from agent to agent, however often the caller repeats it.
CopiesBounded ==
    \A r \in Requests : hop[r] > 1 => \A u \in Uris : arrived[r].copies[u] <= 2

\* The metadata of an extension the caller asks for reaches the end of any chain
\* of agents that support it, whatever carries the last call, as long as each
\* agent sends the next a message from a task whose context the application has
\* respelled, and the header that lets the metadata pass has not been lost.
MetadataReachesTheEnd ==
    \A r \in Requests : handedOn[r] =>
        \A u \in origin[r].metadata \intersect Values(origin[r].copies) :
            (\A a \in 2 .. hop[r] : IsExtensionSupported(chain.card[a], u)) =>
                u \in arrived[r].metadata

================================================================================
