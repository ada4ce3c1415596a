------------------------------ MODULE StreamPath ------------------------------
(******************************************************************************)
(* The way of an event from a task's queue to the client's EventStream: the   *)
(* broadcast receiver, which may lag; the server's after() interceptors, run  *)
(* for each event; then either the task that feeds a gRPC response through a  *)
(* bounded channel, or server-sent events that the client puts together again *)
(* from chunks of bytes.  RequestHandler has the other side of the queue.     *)
(******************************************************************************)
EXTENDS Integers, Sequences, SequencesExt, FiniteSets, Filters, Transports

CONSTANTS
    Kinds,      \* kinds of the events the agent sends
    MaxEvents,  \* bound on the events sent
    Capacity,   \* events the queue keeps for a slow receiver
    Bridge,     \* what the channel before the network holds (32 in gRPC's case)
    Window,     \* bound on the bytes under way to an HTTP client
    MaxRefused  \* bound on the events an interceptor makes an error of

\* An event is wide when its text has a character of more than one byte.
Event == [kind : Kinds, wide : BOOLEAN]

ASSUME StreamPathAssumption ==
    /\ Kinds \subseteq {"Task", "Message", "StatusUpdate", "ArtifactUpdate"}
    /\ MaxEvents \in Nat /\ MaxRefused \in Nat
    /\ Capacity \in Nat \ {0} /\ Bridge \in Nat \ {0} /\ Window \in Nat \ {0}

VARIABLES
    protocol,   \* the transport in use
    log,        \* the events sent to the queue
    closed,     \* the queue is gone: nothing can be sent
    cursor,     \* the events the stream's receiver is past
    forwarding, \* the server still holds the receiver
    wire,       \* under way: items over gRPC, bytes over HTTP
    client,     \* "reading", "ended", or "left" when it drops the stream
    buf,        \* characters the HTTP client has yet to parse
    items,      \* what the client's EventStream has yielded
    lagged,     \* history: the receiver missed events
    split,      \* history: a chunk ended inside a character
    refused,    \* history: events turned into errors
    cut,        \* history: the connection broke, or the client's timeout struck
    since       \* history: events sent after the client left

vars == <<protocol, log, closed, cursor, forwarding, wire, client, buf, items,
          lagged, split, refused, cut, since>>
queueVars == <<log, closed, since>>
clientVars == <<client, buf, items, split, cut>>

\* An item is the place of an event in log, or an error; a mixture is an event
\* pieced together from two.
Error == 0
Mixture == -1

Init ==
    /\ protocol \in Protocols
    /\ log = <<>> /\ closed = FALSE /\ cursor = 0 /\ forwarding = TRUE
    /\ wire = <<>> /\ client = "reading" /\ buf = <<>> /\ items = <<>>
    /\ lagged = FALSE /\ split = FALSE /\ refused = 0 /\ cut = FALSE /\ since = 0

--------------------------------------------------------------------------------
\* The queue.

Emit ==
    /\ ~closed /\ Len(log) < MaxEvents
    /\ \E e \in Event : log' = Append(log, e)
    /\ since' = IF client = "left" THEN since + 1 ELSE since
    /\ UNCHANGED <<protocol, closed, cursor, forwarding, wire, clientVars, lagged, refused>>

Close ==
    /\ ~closed
    /\ closed' = TRUE
    /\ UNCHANGED <<protocol, log, since, cursor, forwarding, wire, clientVars, lagged,
                   refused>>

--------------------------------------------------------------------------------
\* The server.

\* An item as it travels over HTTP.  The end of a frame is the blank line; its
\* start has the "data:".
Frame(item) ==
    IF item # Error /\ log[item].wide
    THEN <<<<"start", item>>, <<"lead", item>>, <<"cont", item>>, <<"end", item>>>>
    ELSE <<<<"start", item>>, <<"end", item>>>>

Room(item) ==
    IF protocol = "GRPC" THEN Len(wire) < Bridge
    ELSE Len(wire) + Len(Frame(item)) <= Window

BreaksOnError == protocol = "GRPC"

\* A gRPC response carries updates only.
CarriedKinds ==
    IF protocol = "GRPC" THEN {"StatusUpdate", "ArtifactUpdate"}
    ELSE {"Task", "Message", "StatusUpdate", "ArtifactUpdate"}

\* What the server does with the next item of its stream.  The task that feeds
\* gRPC skips what it cannot carry, and notices that nobody reads when it sends.
Forward(item) ==
    IF item = Error /\ BreaksOnError
    THEN forwarding' = FALSE /\ UNCHANGED wire
    ELSE IF item # Error /\ log[item].kind \notin CarriedKinds
    THEN UNCHANGED <<forwarding, wire>>
    ELSE IF client = "left" THEN forwarding' = FALSE /\ UNCHANGED wire
    ELSE /\ Room(item)
         /\ wire' = IF protocol = "GRPC" THEN Append(wire, item) ELSE wire \o Frame(item)
         /\ UNCHANGED forwarding

Oldest == IF Len(log) > Capacity THEN Len(log) - Capacity ELSE 0

\* An event, passed or made an error by the interceptors.
ForwardEvent ==
    /\ forwarding /\ cursor >= Oldest /\ cursor < Len(log)
    /\ cursor' = cursor + 1
    /\ \/ Forward(cursor + 1) /\ UNCHANGED refused
       \/ Forward(Error) /\ refused < MaxRefused /\ refused' = refused + 1
    /\ UNCHANGED <<protocol, queueVars, clientVars, lagged>>

\* Mutant: a lag goes without an item.
ForwardNothing == UNCHANGED <<forwarding, wire>>

ForwardLag == Forward(Error)

SkipLagged ==
    /\ forwarding /\ cursor < Oldest
    /\ cursor' = Oldest
    /\ lagged' = TRUE
    /\ ForwardLag
    /\ UNCHANGED <<protocol, queueVars, clientVars, refused>>

EndOfQueue ==
    /\ forwarding /\ closed /\ cursor = Len(log)
    /\ forwarding' = FALSE
    /\ UNCHANGED <<protocol, queueVars, cursor, wire, clientVars, lagged, refused>>

\* Mutant: an HTTP server, too, finds out when it writes.
DropsWhenWriting == FALSE

\* An HTTP server drops the response body, and the stream, with the connection.
DropsWithConnection == protocol # "GRPC"

DropBody ==
    /\ forwarding /\ client = "left" /\ DropsWithConnection
    /\ forwarding' = FALSE
    /\ UNCHANGED <<protocol, queueVars, cursor, wire, clientVars, lagged, refused>>

--------------------------------------------------------------------------------
\* The client.

Yield(new) == items' = items \o new

ReadItem ==
    /\ client = "reading" /\ protocol = "GRPC" /\ wire # <<>>
    /\ Yield(<<Head(wire)>>)
    /\ wire' = Tail(wire)
    /\ UNCHANGED <<protocol, queueVars, cursor, forwarding, client, buf, split, cut,
                   lagged, refused>>

\* No character of the chunk is cut.
Whole(chunk) ==
    \A i \in DOMAIN chunk :
        /\ chunk[i][1] = "lead" => i < Len(chunk)
        /\ chunk[i][1] = "cont" => i > 1

\* Mutant: a REST client is as strict.
DecodeStrictly(chunk) == IF Whole(chunk) THEN chunk ELSE <<>>

\* The characters of a chunk: a JSON-RPC client drops a chunk that is not valid
\* UTF-8, a REST client replaces the broken characters.
Decode(chunk) ==
    IF Whole(chunk) THEN chunk
    ELSE IF protocol = "JSONRPC" THEN <<>>
    ELSE [i \in DOMAIN chunk |->
            IF \/ chunk[i][1] = "lead" /\ i = Len(chunk)
               \/ chunk[i][1] = "cont" /\ i = 1
            THEN <<"broken", chunk[i][2]>> ELSE chunk[i]]

IsEnd(c) == c[1] = "end"

ReadChunk ==
    /\ client = "reading" /\ protocol # "GRPC" /\ SelectInSeq(buf, IsEnd) = 0
    /\ \E n \in 1..Len(wire) :
        LET chunk == SubSeq(wire, 1, n) IN
        /\ buf' = buf \o Decode(chunk)
        /\ split' = (split \/ ~Whole(chunk))
        /\ wire' = SubSeq(wire, n + 1, Len(wire))
    /\ UNCHANGED <<protocol, queueVars, cursor, forwarding, client, items, cut, lagged,
                   refused>>

\* What the characters before a blank line may parse as: nothing without a
\* "data:"; an item; or, with parts missing, an error or valid JSON after all.
Parses(text) ==
    IF text[1][1] # "start" THEN {<<>>}
    ELSE IF text = Frame(text[1][2]) THEN {<<text[1][2]>>}
    ELSE IF \A i \in DOMAIN text : text[i][2] = text[1][2]
    THEN {<<text[1][2]>>, <<Error>>}
    ELSE {<<Mixture>>, <<Error>>}

\* Mutants: the buffer is cleared after an event; it is left as it is.
RestCleared(n) == <<>>
RestUndrained(n) == buf

Rest(n) == SubSeq(buf, n + 1, Len(buf))

Extract ==
    LET n == SelectInSeq(buf, IsEnd) IN
    /\ client = "reading" /\ n > 0
    /\ \E new \in Parses(SubSeq(buf, 1, n)) : Yield(new)
    /\ buf' = Rest(n)
    /\ UNCHANGED <<protocol, queueVars, cursor, forwarding, wire, client, split, cut,
                   lagged, refused>>

\* What is left in the buffer when the body ends is discarded.
EndOfBody ==
    /\ client = "reading" /\ ~forwarding /\ wire = <<>> /\ SelectInSeq(buf, IsEnd) = 0
    /\ client' = "ended" /\ buf' = <<>>
    /\ UNCHANGED <<protocol, queueVars, cursor, forwarding, wire, items, split, cut,
                   lagged, refused>>

\* The connection breaks; over JSON-RPC and REST also when the timeout of the
\* request (30 s unless configured), its body included, strikes.
Cut ==
    /\ client = "reading" /\ cut = FALSE
    /\ Yield(<<Error>>)
    /\ cut' = TRUE /\ client' = "left" /\ buf' = <<>> /\ wire' = <<>>
    /\ UNCHANGED <<protocol, queueVars, cursor, forwarding, split, lagged, refused>>

Leave ==
    /\ client = "reading"
    /\ client' = "left" /\ buf' = <<>> /\ wire' = <<>>
    /\ UNCHANGED <<protocol, queueVars, cursor, forwarding, items, split, cut, lagged,
                   refused>>

ServerStep == ForwardEvent \/ SkipLagged \/ EndOfQueue \/ DropBody
ClientStep == ReadItem \/ ReadChunk \/ Extract \/ EndOfBody

Next == Emit \/ Close \/ ServerStep \/ ClientStep \/ Cut \/ Leave

Spec == Init /\ [][Next]_vars

\* Tasks that can run are polled, and a client that stays polls its stream.
FairSpec == Spec /\ WF_vars(ServerStep) /\ WF_vars(ClientStep)

--------------------------------------------------------------------------------
Good(item) == item > 0
Seen == Kept(items, Nat \ {0})

\* An EventStream is a feed of the queue's events: in order, none twice, none
\* made up, for every transport, lag, refusal and chunking (an event that a
\* JSON-RPC client pieced together from two aside: see NoMixture).
Feed == INSTANCE EventFeed WITH sent <- log, seen <- Seen
IsFeed == Feed!Spec

\* An event the client gets is one that was sent: it takes a chunk that ends
\* inside a character, and a JSON-RPC client, to piece one together from two.
NoMixture == (\E i \in DOMAIN items : items[i] = Mixture) => (split /\ protocol = "JSONRPC")

Carried(i) == i \in DOMAIN log /\ log[i].kind \in CarriedKinds
Missing(i, j) == \E k \in i + 1..j - 1 : Carried(k)

\* Over HTTP an event that was missed leaves an error item in its place, before
\* the next event; over gRPC nothing comes after a gap: the stream has ended.
\* (Not so for a JSON-RPC client once a chunk has ended inside a character: it
\* may miss events without a sign.)
GapsShow ==
    (split /\ protocol = "JSONRPC")
    \/ \A a \in DOMAIN items :
        Good(items[a]) =>
            IF a = 1 THEN ~Missing(0, items[1])
            ELSE Good(items[a - 1]) => ~Missing(items[a - 1], items[a])

\* The last event sent gets through to a client that stays, even past a lag,
\* unless it was made an error, or a chunk ended inside a character, or it goes
\* over gRPC, which does not carry it, or has ended the stream at an error.
LastEventArrives ==
    (Len(log) = MaxEvents) ~>
        \/ Len(log) \in ToSet(items)
        \/ client = "left" \/ refused > 0 \/ split
        \/ protocol = "GRPC" /\ (lagged \/ ~Carried(Len(log)))

\* The server lets go of the queue after its client has left: at once over
\* HTTP, with the next carried event over gRPC.
ReceiverReleased ==
    (client = "left" /\ (protocol = "GRPC" => (since > 0 /\ Carried(Len(log)))))
        ~> ~forwarding
================================================================================
