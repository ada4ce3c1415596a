------------------------------ MODULE MCCallPath ------------------------------
(* Instances of CallPath for TLC. *)
EXTENDS CallPath

CONSTANTS c1, c2

Interface(protocol, endpoint, path, tenant) ==
    [protocol |-> protocol, endpoint |-> endpoint, path |-> path, tenant |-> tenant]

Json   == Interface("JSONRPC", "/", "", "")
JsonA  == Interface("JSONRPC", "/", "a", "a")
Events == Interface("JSONRPC", "/stream", "", "a")
Rest   == Interface("HTTP+JSON", "/", "", "a")
RestA  == Interface("HTTP+JSON", "/", "a", "a")
Grpc   == Interface("GRPC", "/", "", "")

Choice(interfaces, preferred, builders) ==
    [interfaces |-> interfaces, preferred |-> preferred, builders |-> builders]
Only(iface) == Choice(<<iface>>, <<>>, Protocols)

\* An agent that streams and has an extended card, and one that does neither.
Both == [streaming |-> TRUE, extended |-> TRUE]
Neither == [streaming |-> FALSE, extended |-> FALSE]

Start1(s, held, a, b) ==
    [setup |-> s, held |-> held, served |-> IF held = Both THEN Neither ELSE Both,
     work |-> c1 :> a @@ c2 :> b]

\* A card with every protocol, with and without preferences, fewer builders,
\* and the cards that yield no client.
ChoiceStarts ==
    {Start1(Choice(<<Grpc, Json, RestA, JsonA>>, p, b), Both, "get", "none") :
        p \in {<<>>, <<"HTTP+JSON", "JSONRPC">>}, b \in {Protocols, {"JSONRPC"}}}
    \union {Start1(Choice(i, <<>>, {}), Both, "get", "none") : i \in {<<>>, <<Grpc>>}}

Interfaces == {Json, JsonA, Events, Rest, RestA, Grpc}

\* One call at a time, then calls that meet.
SingleStarts ==
    {Start1(Only(i), h, op, "none") :
        i \in Interfaces, h \in {Both, Neither}, op \in {"stream", "card", "subscribe"}}

PairStarts ==
    {Start1(Only(i), Both, "send", "cancel") : i \in Interfaces \ {Events}}
    \union {Start1(Only(i), Both, "list", "card") : i \in {Json, Grpc}}
    \union {Start1(Only(Events), Both, "stream", "subscribe")}

AllStarts == ChoiceStarts \union SingleStarts \union PairStarts
JsonGets == {Start1(Only(Json), Both, "get", "none")}
================================================================================
