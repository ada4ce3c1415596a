------------------------------ MODULE Transports ------------------------------
(******************************************************************************)
(* The three protocol bindings as the client's transports and the server's    *)
(* endpoints implement them: which operation travels where, and what becomes  *)
(* of its tenant and of an error on the way.  Everything here is a function   *)
(* of the interface used, the operation, and the value carried; the order of  *)
(* steps is in CallPath.                                                      *)
(******************************************************************************)
EXTENDS A2AErrors

Streaming == {"stream", "subscribe"}
PushOps == {"createPush", "getPush", "listPush", "deletePush"}

\* The methods of the Transport trait, and those that Client offers with its
\* interceptors around them; the others are called on a transport directly.
TransportOps == {"send", "get", "list", "cancel", "extendedCard", "card"}
                    \union Streaming \union PushOps
ClientOps == {"send", "get", "list", "cancel", "card"} \union Streaming

Protocols == {"JSONRPC", "HTTP+JSON", "GRPC"}

\* An interface of an agent card.  Its URL ends in an endpoint ("/", or
\* "/stream" where a JSON-RPC server answers with events), perhaps below a
\* tenant's path; "" is no tenant.
AgentInterface(tenants) ==
    [protocol : Protocols, endpoint : {"/", "/stream"},
     path : tenants \union {""}, tenant : tenants \union {""}]

\* Operations the client's transport sends; the others fail on the spot.
Offers(iface) ==
    IF iface.protocol = "GRPC"
    THEN {"send", "get", "cancel"} \union Streaming
    ELSE TransportOps

\* Operations the endpoint at the interface's URL passes to the handler.
JsonRpcRouted(iface) ==
    IF iface.endpoint = "/" THEN TransportOps \ (Streaming \union {"card"}) ELSE Streaming

RestRouted(iface) ==
    IF iface.endpoint = "/" THEN TransportOps \ {"card"} ELSE {}

Routed(iface) ==
    CASE iface.protocol = "JSONRPC"   -> JsonRpcRouted(iface)
      [] iface.protocol = "HTTP+JSON" -> RestRouted(iface)
      [] iface.protocol = "GRPC"      -> TransportOps \ {"card", "extendedCard"}

\* The public card is served at the root of the host only.
ServesCard(iface) == iface.endpoint = "/" /\ iface.path = ""

\* Mutant: only the operations that carry a message are decorated.
DecoratedMessages(iface, op) ==
    IF op \in {"send", "stream"} THEN iface.tenant ELSE ""

\* The tenant in the request a transport sends: the factory's decorator sets
\* the interface's on every operation but the card's.
Decorated(iface, op) == IF op = "card" THEN "" ELSE iface.tenant

\* Operations whose REST request has the native request as its body and whose
\* handler takes it from there; the others are rebuilt from path and query.
RestBodies == {"send", "stream", "createPush"}

TenantReceived(iface, op) ==
    CASE iface.protocol = "JSONRPC" -> Decorated(iface, op)
      [] iface.protocol = "HTTP+JSON" ->
            IF op \in RestBodies THEN Decorated(iface, op) ELSE iface.path
      [] iface.protocol = "GRPC" ->
            IF op \in {"send", "stream"} THEN "" ELSE Decorated(iface, op)

\* What the caller gets for an error that the server's handler returned.  A
\* JSON-RPC server answers a unary call with code -32603 whatever the error.
HandlerErrorSeen(iface, op, error) ==
    CASE iface.protocol = "JSONRPC" ->
            IF op \in Streaming THEN ErrorOfCode(CodeOf(error)) ELSE "InternalError"
      [] iface.protocol = "HTTP+JSON" -> ErrorOfReason(ReasonOf(error))
      [] iface.protocol = "GRPC" -> "Other"

\* What the caller gets when the endpoint does not pass the operation on: a
\* JSON-RPC error wrapped in an A2AError, or a status without a body.
NotRoutedSeen(iface) ==
    IF iface.protocol = "JSONRPC" THEN ErrorOfCode(CodeOf("JsonRpc")) ELSE "Other"

\* What the caller gets for a card that could not be had.
CardErrorSeen(iface) == IF iface.protocol = "JSONRPC" THEN "Http" ELSE "Other"

\* What the caller gets when the connection fails, or the client's timeout
\* strikes.
ConnectionErrorSeen(iface) == IF iface.protocol = "GRPC" THEN "Other" ELSE "Http"
================================================================================
