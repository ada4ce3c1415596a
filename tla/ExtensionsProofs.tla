--------------------------- MODULE ExtensionsProofs ---------------------------
(* The properties of Extensions hold for any extensions, requests, cards,     *)
(* wishes and transports, and chains of any length.                           *)
EXTENDS Extensions, TLAPS

\* What a cell of a task that works for request r may hold: the values the
\* request arrived with, under one of the two spellings, and the metadata it
\* asked for.  Only application code respells, so the serving task's are lowered.
Carries(r, ctx) ==
    /\ ctx \in Contexts
    /\ \E k \in Keys :
        /\ ctx.headers[k] = arrived[r].copies
        /\ \A j \in Keys \ {k} : ctx.headers[j] = NoValues
    /\ ctx.metadata = Extracted(arrived[r])

CellsCarry ==
    \A r \in Requests :
        /\ \A p \in Places :
            cell[<<r, p>>] \notin {OutOfScope, NoContext} => Carries(r, cell[<<r, p>>])
        /\ cell[<<r, "serving">>] \notin {OutOfScope, NoContext} =>
            cell[<<r, "serving">>].headers = HeadersKept(arrived[r])

ExtensionsInv ==
    /\ TypeOK
    /\ CellsCarry
    /\ OnItsOwnBehalf
    /\ OnlySupported
    /\ ReachesTheEnd
    /\ CopiesBounded
    /\ MetadataReachesTheEnd

--------------------------------------------------------------------------------
(* What the operators return.                                                 *)

\* append() yields a value once at most, and not without somebody adding it.
LEMMA AppendedOnce ==
    ASSUME NEW had \in {0, 1}, NEW times \in Nat
    PROVE  /\ Appended(had, times) \in {0, 1}
           /\ Appended(had, times) > 0 <=> (had > 0 \/ times > 0)
BY DEF Appended

\* Headers of a request, as the propagator keeps them, form a context.
LEMMA KeptContext ==
    ASSUME NEW request \in Arrival
    PROVE  [headers |-> HeadersKept(request), metadata |-> Extracted(request)] \in Contexts
BY DEF Arrival, HeadersKept, Extracted, Contexts, NoValues, Values, Keys

\* What an agent receives of a call: who asked for an extension it is asked
\* for, that it supports it, how often it is asked, and what is not lost.
LEMMA SentOn ==
    ASSUME NEW ctx, ctx # NoContext => ctx \in Contexts, NEW card,
           NEW wishes \in SUBSET Uris, NEW transport, NEW metadata \in SUBSET Uris
    PROVE  LET got == Received(transport, ServiceParams(ctx, card, wishes), metadata)
           IN  /\ got \in Arrival
               /\ got.metadata = metadata
               /\ \A u \in Uris : got.copies[u] <= 2
               /\ \A u \in Uris : got.copies[u] > 0 =>
                    /\ IsExtensionSupported(card, u)
                    /\ u \in wishes \/ (ctx # NoContext /\ \E k \in Keys : ctx.headers[k][u] > 0)
               /\ (transport = "jsonrpc" /\ ctx # NoContext) =>
                    \A u \in Uris, k \in Keys :
                        (ctx.headers[k][u] > 0 /\ IsExtensionSupported(card, u))
                            => got.copies[u] > 0
<1> DEFINE asked(k, u) == IF k = Canonical /\ u \in Activate(card, wishes) THEN 1 ELSE 0
           value(k, u) == Appended(asked(k, u), Forwarded(ctx, card, k)[u])
           params == ServiceParams(ctx, card, wishes)
           got == Received(transport, params, metadata)
<1>1. ASSUME NEW k \in Keys, NEW u \in Uris
      PROVE  /\ value(k, u) \in {0, 1}
             /\ value(k, u) > 0 =>
                  /\ IsExtensionSupported(card, u)
                  /\ u \in wishes \/ (ctx # NoContext /\ ctx.headers[k][u] > 0)
             /\ (ctx # NoContext /\ ctx.headers[k][u] > 0 /\ IsExtensionSupported(card, u))
                  => value(k, u) > 0
  <2> DEFINE times == Forwarded(ctx, card, k)[u]
  <2>1. times = IF ctx # NoContext /\ IsExtensionSupported(card, u)
                THEN ctx.headers[k][u] ELSE 0
    BY DEF Forwarded
  <2>2. ctx # NoContext => ctx.headers[k][u] \in Nat
    BY DEF Contexts
  <2>3. times \in Nat
    BY <2>1, <2>2
  <2>4. asked(k, u) \in {0, 1}
    OBVIOUS
  <2>5. asked(k, u) > 0 => u \in wishes /\ IsExtensionSupported(card, u)
    BY DEF Activate
  <2>6. /\ value(k, u) \in {0, 1}
        /\ value(k, u) > 0 <=> (asked(k, u) > 0 \/ times > 0)
    <3>1. value(k, u) = Appended(asked(k, u), times)
      OBVIOUS
    <3> HIDE DEF asked, value, times
    <3> QED
      BY <2>3, <2>4, <3>1, AppendedOnce
  <2> HIDE DEF asked, value, times
  <2> QED
    BY <2>1, <2>2, <2>5, <2>6
<1>2. Canonical \in Keys /\ Lowered \in Keys
  BY DEF Keys
<1>3. \A k \in Keys, u \in Uris : params[k][u] = value(k, u)
  BY DEF ServiceParams
<1>4. /\ got.metadata = metadata
      /\ got.copies \in [Uris -> Nat]
      /\ \A u \in Uris :
           got.copies[u] = IF transport = "jsonrpc"
                           THEN params[Canonical][u] + params[Lowered][u] ELSE 0
  <2>1. /\ got.metadata = metadata
        /\ got.copies = IF transport = "jsonrpc"
                        THEN [u \in Uris |-> params[Canonical][u] + params[Lowered][u]]
                        ELSE NoValues
    BY DEF Received
  <2>2. \A u \in Uris : params[Canonical][u] \in Nat /\ params[Lowered][u] \in Nat
    <3> HIDE DEF value, params
    <3> QED
      BY <1>1, <1>2, <1>3
  <2> HIDE DEF params, got
  <2> QED
    BY <2>1, <2>2 DEF NoValues
<1>5. got \in Arrival
  <2>1. got = [copies |-> got.copies, metadata |-> got.metadata]
    BY DEF Received
  <2> HIDE DEF got
  <2> QED
    BY <1>4, <2>1 DEF Arrival
<1>6. \A k \in Keys : k = Canonical \/ k = Lowered
  BY DEF Keys
<1> HIDE DEF value, params, got
<1>7. \A u \in Uris :
        /\ params[Canonical][u] \in {0, 1} /\ params[Lowered][u] \in {0, 1}
        /\ got.copies[u] > 0 => \E k \in Keys : value(k, u) > 0
        /\ got.copies[u] <= 2
        /\ transport = "jsonrpc" => \A k \in Keys : value(k, u) > 0 => got.copies[u] > 0
  BY <1>1, <1>2, <1>3, <1>4, <1>6
<1>8. \A u \in Uris : got.copies[u] > 0 =>
        /\ IsExtensionSupported(card, u)
        /\ u \in wishes \/ (ctx # NoContext /\ \E k \in Keys : ctx.headers[k][u] > 0)
  BY <1>1, <1>7
<1>9. (transport = "jsonrpc" /\ ctx # NoContext) =>
        \A u \in Uris, k \in Keys :
            (ctx.headers[k][u] > 0 /\ IsExtensionSupported(card, u)) => got.copies[u] > 0
  BY <1>1, <1>7
<1> QED
  BY <1>4, <1>5, <1>7, <1>8, <1>9 DEF got, params

--------------------------------------------------------------------------------
(* A call.                                                                    *)

\* What the calling task has is what its cell carries, and the next agent gets
\* its request from it.
LEMMA CalledWith ==
    ASSUME TypeOK, CellsCarry, NEW r \in Requests, NEW place \in Places,
           NEW isSend \in BOOLEAN, Call(r, place, isSend)
    PROVE  LET ctx == Current(r, place)
               next == hop[r] + 1
               card == chain.card[next]
               wishes == chain.wishes[hop[r]]
               got == arrived'[r]
           IN  /\ hop[r] \in 1 .. Agents - 1
               /\ wishes \in SUBSET Uris
               /\ ctx # NoContext => Carries(r, ctx)
               /\ got = Received(chain.transport[next], ServiceParams(ctx, card, wishes),
                                 got.metadata)
               /\ got.metadata = IF isSend THEN Injected(ctx, card) ELSE {}
               /\ Injected(ctx, card) \subseteq Uris
<1> DEFINE ctx == Current(r, place)
           next == hop[r] + 1
           card == chain.card[next]
           wishes == chain.wishes[hop[r]]
           metadata == IF isSend THEN Injected(ctx, card) ELSE {}
<1>1. hop[r] \in 1 .. Agents - 1
  BY AgentsAssumption DEF TypeOK, Call
<1>2. wishes \in SUBSET Uris
  BY <1>1, WishesAssumption, ZenonT(40) DEF TypeOK, Chains
<1>3. ctx # NoContext => Carries(r, ctx)
  BY DEF Current, CellOf, CellsCarry
<1>4. arrived'[r] = Received(chain.transport[next], ServiceParams(ctx, card, wishes), metadata)
  BY DEF TypeOK, Call
<1>5. Injected(ctx, card) \subseteq Uris
  BY <1>3 DEF Injected, Carries, Contexts
<1>6. arrived'[r].metadata = metadata
  BY <1>4 DEF Received
<1> QED
  BY <1>1, <1>2, <1>3, <1>4, <1>5, <1>6

\* The facts of SentOn about what the next agent receives.
LEMMA CallArrives ==
    ASSUME TypeOK, CellsCarry, NEW r \in Requests, NEW place \in Places,
           NEW isSend \in BOOLEAN, Call(r, place, isSend)
    PROVE  LET ctx == Current(r, place)
               next == hop[r] + 1
               card == chain.card[next]
               got == arrived'[r]
           IN  /\ got \in Arrival
               /\ \A u \in Uris : got.copies[u] <= 2
               /\ \A u \in Values(got.copies) :
                    /\ IsExtensionSupported(card, u)
                    /\ u \in chain.wishes[hop[r]] \/ u \in Values(arrived[r].copies)
               /\ \A u \in got.metadata :
                    /\ u \in arrived[r].metadata
                    /\ IsExtensionSupported(card, u)
               /\ (chain.transport[next] = "jsonrpc" /\ ctx # NoContext) =>
                    \A u \in Values(arrived[r].copies) :
                        IsExtensionSupported(card, u) => u \in Values(got.copies)
               /\ (isSend /\ IsRespelled(ctx)) =>
                    \A u \in arrived[r].metadata \intersect Values(arrived[r].copies) :
                        IsExtensionSupported(card, u) => u \in got.metadata
<1> DEFINE ctx == Current(r, place)
           next == hop[r] + 1
           card == chain.card[next]
           wishes == chain.wishes[hop[r]]
           transport == chain.transport[next]
           got == arrived'[r]
<1>1. /\ hop[r] \in 1 .. Agents - 1
      /\ wishes \in SUBSET Uris
      /\ ctx # NoContext => Carries(r, ctx)
      /\ got = Received(transport, ServiceParams(ctx, card, wishes), got.metadata)
      /\ got.metadata = IF isSend THEN Injected(ctx, card) ELSE {}
      /\ Injected(ctx, card) \subseteq Uris
  BY CalledWith
<1>2. arrived[r] \in Arrival
  BY DEF TypeOK
<1>3. got.metadata \in SUBSET Uris
  BY <1>1
<1>4. ctx # NoContext => ctx \in Contexts
  BY <1>1 DEF Carries
<1> HIDE DEF ctx, next, card, wishes, transport, got
<1>5. /\ got \in Arrival
      /\ \A u \in Uris : got.copies[u] <= 2
      /\ \A u \in Uris : got.copies[u] > 0 =>
           /\ IsExtensionSupported(card, u)
           /\ u \in wishes \/ (ctx # NoContext /\ \E k \in Keys : ctx.headers[k][u] > 0)
      /\ (transport = "jsonrpc" /\ ctx # NoContext) =>
           \A u \in Uris, k \in Keys :
               (ctx.headers[k][u] > 0 /\ IsExtensionSupported(card, u)) => got.copies[u] > 0
  <2> DEFINE same == Received(transport, ServiceParams(ctx, card, wishes), got.metadata)
  <2>1. got = same
    BY <1>1
  <2>2. /\ same \in Arrival
        /\ \A u \in Uris : same.copies[u] <= 2
        /\ \A u \in Uris : same.copies[u] > 0 =>
             /\ IsExtensionSupported(card, u)
             /\ u \in wishes \/ (ctx # NoContext /\ \E k \in Keys : ctx.headers[k][u] > 0)
        /\ (transport = "jsonrpc" /\ ctx # NoContext) =>
             \A u \in Uris, k \in Keys :
                 (ctx.headers[k][u] > 0 /\ IsExtensionSupported(card, u)) => same.copies[u] > 0
    BY <1>1, <1>3, <1>4, SentOn
  <2> HIDE DEF same
  <2> QED
    BY <2>1, <2>2
<1>6. ctx # NoContext =>
        \A u \in Uris : arrived[r].copies[u] > 0 <=> \E k \in Keys : ctx.headers[k][u] > 0
  <2> SUFFICES ASSUME ctx # NoContext, NEW u \in Uris
               PROVE  arrived[r].copies[u] > 0 <=> \E k \in Keys : ctx.headers[k][u] > 0
    OBVIOUS
  <2>1. PICK k \in Keys : /\ ctx.headers[k] = arrived[r].copies
                          /\ \A j \in Keys \ {k} : ctx.headers[j] = NoValues
    BY <1>1 DEF Carries
  <2>2. \A j \in Keys \ {k} : ctx.headers[j][u] = 0
    BY <2>1 DEF NoValues
  <2> QED
    BY <2>1, <2>2
<1>7. \A u \in got.metadata :
        /\ ctx # NoContext
        /\ u \in ctx.metadata
        /\ IsExtensionSupported(card, u)
  BY <1>1 DEF Injected
<1>8. (isSend /\ IsRespelled(ctx)) =>
        \A u \in arrived[r].metadata \intersect Values(arrived[r].copies) :
            IsExtensionSupported(card, u) => u \in got.metadata
  <2> SUFFICES ASSUME isSend, IsRespelled(ctx),
                      NEW u \in arrived[r].metadata \intersect Values(arrived[r].copies),
                      IsExtensionSupported(card, u)
               PROVE  u \in got.metadata
    OBVIOUS
  <2>1. Carries(r, ctx) /\ ctx # NoContext /\ ctx.headers[Lowered] = NoValues
    BY <1>1 DEF IsRespelled
  <2>2. u \in Uris /\ arrived[r].copies[u] > 0
    BY DEF Values
  <2>3. arrived[r].copies # NoValues
    BY <2>2 DEF NoValues
  <2>4. ctx.headers[Canonical] = arrived[r].copies
    BY <2>1, <2>3 DEF Carries, Keys
  <2>5. u \in Values(ctx.headers[Canonical]) /\ u \in ctx.metadata
    BY <2>1, <2>4 DEF Carries, Extracted
  <2> QED
    BY <1>1, <2>1, <2>5 DEF Injected
<1>9. \A u \in Uris : u \in Values(got.copies) <=> got.copies[u] > 0
  BY DEF Values
<1>10. \A u \in Uris : u \in Values(arrived[r].copies) <=> arrived[r].copies[u] > 0
  BY DEF Values
<1>11. Values(got.copies) \subseteq Uris /\ Values(arrived[r].copies) \subseteq Uris
  BY DEF Values
<1>12. \A u \in Values(got.copies) :
         /\ IsExtensionSupported(card, u)
         /\ u \in wishes \/ u \in Values(arrived[r].copies)
  BY <1>5, <1>6, <1>9, <1>10, <1>11
<1>13. \A u \in got.metadata : u \in arrived[r].metadata /\ IsExtensionSupported(card, u)
  BY <1>1, <1>7 DEF Carries, Extracted
<1>14. (transport = "jsonrpc" /\ ctx # NoContext) =>
         \A u \in Values(arrived[r].copies) :
             IsExtensionSupported(card, u) => u \in Values(got.copies)
  BY <1>5, <1>6, <1>9, <1>10, <1>11
<1> QED
  BY <1>5, <1>8, <1>12, <1>13, <1>14 DEF ctx, next, card, wishes, transport, got

--------------------------------------------------------------------------------
(* Types and cells.                                                           *)

\* What propagate_server installs, and what application code makes of it.
LEMMA KeptCarries ==
    ASSUME TypeOK, NEW r \in Requests
    PROVE  Carries(r, [headers |-> HeadersKept(arrived[r]), metadata |-> Extracted(arrived[r])])
<1> DEFINE ctx == [headers |-> HeadersKept(arrived[r]), metadata |-> Extracted(arrived[r])]
<1>1. arrived[r] \in Arrival
  BY DEF TypeOK
<1>2. ctx \in Contexts
  BY <1>1, KeptContext
<1>3. /\ ctx.headers[Lowered] = arrived[r].copies
      /\ \A j \in Keys \ {Lowered} : ctx.headers[j] = NoValues
  BY DEF HeadersKept, Keys
<1>4. ctx.metadata = Extracted(arrived[r])
  OBVIOUS
<1> QED
  BY <1>2, <1>3, <1>4 DEF Carries, Keys

\* A context that the application has respelled carries the same extensions.
LEMMA RespelledCarries ==
    ASSUME NEW r \in Requests, NEW ctx, Carries(r, ctx),
           ctx.headers = HeadersKept(arrived[r])
    PROVE  Carries(r, Respelled(ctx))
<1> DEFINE other == Respelled(ctx)
<1>1. ctx \in Contexts
  BY DEF Carries
<1>2. other = [headers |-> [k \in Keys |-> IF k = Canonical THEN ctx.headers[Lowered]
                                           ELSE NoValues],
               metadata |-> ctx.metadata]
  BY <1>1 DEF Respelled, Contexts
<1>3. ctx.headers[Lowered] = arrived[r].copies /\ arrived[r].copies \in [Uris -> Nat]
  BY <1>1 DEF HeadersKept, Keys, Contexts
<1>4. other \in Contexts
  BY <1>1, <1>2, <1>3 DEF Contexts, NoValues, Keys
<1>5. /\ other.headers[Canonical] = arrived[r].copies
      /\ \A j \in Keys \ {Canonical} : other.headers[j] = NoValues
      /\ other.metadata = ctx.metadata
  BY <1>2, <1>3 DEF Keys
<1> QED
  BY <1>4, <1>5 DEF Carries, Keys

\* A task spawned for a request is given nothing, or what the request carries.
LEMMA SpawnedWith ==
    ASSUME TypeOK, CellsCarry, NEW r \in Requests, SpawnBare(r) \/ SpawnScoped(r)
    PROVE  \E context : /\ Spawn(r, context)
                        /\ context = OutOfScope \/ Carries(r, context)
<1>1. CASE SpawnBare(r)
  BY <1>1 DEF SpawnBare
<1>2. CASE SpawnScoped(r)
  <2> DEFINE ctx == Current(r, "serving")
  <2>1. /\ ctx # NoContext
        /\ Spawn(r, ctx) \/ Spawn(r, Respelled(ctx))
    BY <1>2 DEF SpawnScoped
  <2>2. ctx = cell[<<r, "serving">>] /\ ctx \notin {OutOfScope, NoContext}
    BY <2>1 DEF Current, CellOf
  <2>3. Carries(r, ctx) /\ ctx.headers = HeadersKept(arrived[r])
    BY <2>2 DEF CellsCarry, Places
  <2>4. Carries(r, Respelled(ctx))
    BY <2>3, RespelledCarries
  <2> QED
    BY <2>1, <2>3, <2>4
<1> QED
  BY <1>1, <1>2

\* The invariant holds before the first request.
LEMMA InitInv == Init => ExtensionsInv
<1> SUFFICES ASSUME Init
             PROVE  ExtensionsInv
  OBVIOUS
<1>1. TypeOK
  BY AgentsAssumption, OriginsAssumption DEF Init, TypeOK, Places
<1>2. CellsCarry
  BY DEF Init, CellsCarry, Places
<1>3. /\ OnItsOwnBehalf
      /\ OnlySupported
      /\ ReachesTheEnd
      /\ CopiesBounded
      /\ MetadataReachesTheEnd
  BY DEF Init, OnItsOwnBehalf, OnlySupported, ReachesTheEnd, CopiesBounded, MetadataReachesTheEnd
<1> QED
  BY <1>1, <1>2, <1>3 DEF ExtensionsInv

\* Every step keeps the types.
LEMMA StepTypes ==
    ASSUME TypeOK, CellsCarry, Next
    PROVE  TypeOK'
<1>1. PICK r \in Requests :
        \/ \E wrapped \in BOOLEAN : Enter(r, wrapped)
        \/ Propagate(r)
        \/ SpawnBare(r) \/ SpawnScoped(r)
        \/ \E place \in Places, isSend \in BOOLEAN : Call(r, place, isSend)
  BY DEF Next
<1>2. CASE \E wrapped \in BOOLEAN : Enter(r, wrapped)
  BY <1>2 DEF Enter, TypeOK, CellOf
<1>3. CASE Propagate(r)
  <2> DEFINE ctx == [headers |-> HeadersKept(arrived[r]), metadata |-> Extracted(arrived[r])]
  <2>1. ctx \in Contexts
    BY KeptContext DEF TypeOK
  <2>2. ActivatedBy(ctx.headers) \subseteq Uris
    BY DEF ActivatedBy, Values
  <2>3. cell' = [cell EXCEPT ![<<r, "serving">>] = IF @ = OutOfScope THEN @ ELSE ctx]
    BY <1>3 DEF Propagate, CellOf
  <2>4. activated' = [activated EXCEPT ![r] = @ \union ActivatedBy(ctx.headers)]
    BY <1>3 DEF Propagate
  <2>5. /\ stage' = [stage EXCEPT ![r] = "serving"]
        /\ UNCHANGED <<chain, hop, arrived, origin, unbroken, handedOn>>
    BY <1>3 DEF Propagate
  <2> HIDE DEF ctx
  <2> QED
    BY <2>1, <2>2, <2>3, <2>4, <2>5 DEF TypeOK
<1>4. CASE SpawnBare(r) \/ SpawnScoped(r)
  <2>1. PICK context : Spawn(r, context) /\ (context = OutOfScope \/ Carries(r, context))
    BY <1>4, SpawnedWith
  <2>2. context \in Contexts \union {OutOfScope}
    BY <2>1 DEF Carries
  <2> QED
    BY <2>1, <2>2 DEF Spawn, TypeOK, CellOf
<1>5. CASE \E place \in Places, isSend \in BOOLEAN : Call(r, place, isSend)
  <2>1. PICK place \in Places, isSend \in BOOLEAN : Call(r, place, isSend)
    BY <1>5
  <2>2. arrived'[r] \in Arrival /\ hop[r] \in 1 .. Agents - 1
    BY <2>1, CallArrives, CalledWith
  <2>3. arrived' \in [Requests -> Arrival]
    BY <2>1, <2>2 DEF Call, TypeOK
  <2>4. hop' \in [Requests -> 1 .. Agents]
    BY <2>1, <2>2, AgentsAssumption DEF Call, TypeOK
  <2>5. /\ chain' = chain /\ origin' = origin
        /\ stage' = [stage EXCEPT ![r] = "arrived"]
        /\ activated' = [activated EXCEPT ![r] = {}]
        /\ cell' = [c \in DOMAIN cell |-> IF c[1] = r THEN OutOfScope ELSE cell[c]]
    BY <2>1 DEF Call
  <2>6. unbroken' \in [Requests -> BOOLEAN] /\ handedOn' \in [Requests -> BOOLEAN]
    BY <2>1 DEF Call, TypeOK
  <2> QED
    BY <2>3, <2>4, <2>5, <2>6 DEF TypeOK
<1> QED
  BY <1>1, <1>2, <1>3, <1>4, <1>5

\* Every step leaves each cell with what its request brought.
LEMMA StepCells ==
    ASSUME TypeOK, CellsCarry, Next
    PROVE  CellsCarry'
<1>1. PICK r \in Requests :
        \/ \E wrapped \in BOOLEAN : Enter(r, wrapped)
        \/ Propagate(r)
        \/ SpawnBare(r) \/ SpawnScoped(r)
        \/ \E place \in Places, isSend \in BOOLEAN : Call(r, place, isSend)
  BY DEF Next
<1>2. CASE arrived' = arrived /\ \E place \in Places : \E new :
             /\ cell' = [cell EXCEPT ![<<r, place>>] = new]
             /\ \/ new \in {OutOfScope, NoContext}
                \/ /\ Carries(r, new)
                   /\ place = "serving" => new.headers = HeadersKept(arrived[r])
  <2>0. PICK place \in Places :
          \E new :
             /\ cell' = [cell EXCEPT ![<<r, place>>] = new]
             /\ \/ new \in {OutOfScope, NoContext}
                \/ /\ Carries(r, new)
                   /\ place = "serving" => new.headers = HeadersKept(arrived[r])
    BY <1>2
  <2>1. PICK new :
          /\ cell' = [cell EXCEPT ![<<r, place>>] = new]
          /\ \/ new \in {OutOfScope, NoContext}
             \/ /\ Carries(r, new)
                /\ place = "serving" => new.headers = HeadersKept(arrived[r])
    BY <2>0
  <2>2. ASSUME NEW q \in Requests, NEW p \in Places
        PROVE  \/ cell'[<<q, p>>] = cell[<<q, p>>]
               \/ q = r /\ p = place /\ cell'[<<q, p>>] = new
    BY <2>1 DEF TypeOK
  <2>3. ASSUME NEW q \in Requests, NEW ctx
        PROVE  Carries(q, ctx)' <=> Carries(q, ctx)
    BY <1>2 DEF Carries
  <2> QED
    BY <1>2, <2>1, <2>2, <2>3, ZenonT(40) DEF CellsCarry, Places
<1>3. CASE \E wrapped \in BOOLEAN : Enter(r, wrapped)
  BY <1>2, <1>3 DEF Enter, CellOf, Places
<1>4. CASE Propagate(r)
  <2> DEFINE ctx == [headers |-> HeadersKept(arrived[r]), metadata |-> Extracted(arrived[r])]
             new == IF cell[<<r, "serving">>] = OutOfScope THEN OutOfScope ELSE ctx
  <2>1. cell' = [cell EXCEPT ![<<r, "serving">>] = new] /\ arrived' = arrived
    BY <1>4 DEF Propagate, CellOf
  <2>2. Carries(r, ctx)
    BY KeptCarries
  <2>3. ctx.headers = HeadersKept(arrived[r])
    OBVIOUS
  <2>4. new = OutOfScope \/ new = ctx
    OBVIOUS
  <2> HIDE DEF ctx, new
  <2> QED
    BY <1>2, <2>1, <2>2, <2>3, <2>4 DEF Places
<1>5. CASE SpawnBare(r) \/ SpawnScoped(r)
  <2>1. PICK context : Spawn(r, context) /\ (context = OutOfScope \/ Carries(r, context))
    BY <1>5, SpawnedWith
  <2>2. cell' = [cell EXCEPT ![<<r, "spawned">>] = context] /\ arrived' = arrived
    BY <2>1 DEF Spawn, CellOf
  <2> QED
    BY <1>2, <2>1, <2>2 DEF Places
<1>6. CASE \E place \in Places, isSend \in BOOLEAN : Call(r, place, isSend)
  <2>1. PICK place \in Places, isSend \in BOOLEAN : Call(r, place, isSend)
    BY <1>6
  <2>2. cell' = [c \in DOMAIN cell |-> IF c[1] = r THEN OutOfScope ELSE cell[c]]
    BY <2>1 DEF Call
  <2>3. ASSUME NEW q \in Requests, NEW p \in Places
        PROVE  cell'[<<q, p>>] = IF q = r THEN OutOfScope ELSE cell[<<q, p>>]
    BY <2>2 DEF TypeOK
  <2>4. \A q \in Requests \ {r} : arrived'[q] = arrived[q]
    BY <2>1 DEF Call, TypeOK
  <2>5. ASSUME NEW q \in Requests \ {r}, NEW ctx
        PROVE  Carries(q, ctx)' <=> Carries(q, ctx)
    BY <2>4 DEF Carries
  <2> QED
    BY <2>3, <2>4, <2>5 DEF CellsCarry, Places
<1> QED
  BY <1>1, <1>3, <1>4, <1>5, <1>6

--------------------------------------------------------------------------------
(* The properties.  Only a call moves a request, and it moves no other.       *)

\* Only a call to the next agent changes what the requests bring.
LEMMA OnlyCallsMove ==
    ASSUME TypeOK, Next
    PROVE  \/ UNCHANGED <<chain, hop, arrived, origin, unbroken, handedOn>>
           \/ \E r \in Requests, place \in Places, isSend \in BOOLEAN : Call(r, place, isSend)
BY DEF Next, Enter, Propagate, SpawnBare, SpawnScoped, Spawn

\* What one call to the next agent changes: its own request's hop and headers.
LEMMA CallMoves ==
    ASSUME TypeOK, CellsCarry, NEW r \in Requests, NEW place \in Places,
           NEW isSend \in BOOLEAN, Call(r, place, isSend)
    PROVE  /\ chain' = chain /\ origin' = origin
           /\ hop[r] \in 1 .. Agents - 1 /\ hop'[r] = hop[r] + 1
           /\ unbroken'[r] => /\ unbroken[r] /\ chain.transport[hop[r] + 1] = "jsonrpc"
                              /\ Current(r, place) # NoContext
           /\ handedOn'[r] => handedOn[r] /\ unbroken[r] /\ isSend
                              /\ IsRespelled(Current(r, place))
           /\ \A q \in Requests \ {r} :
                /\ hop'[q] = hop[q] /\ arrived'[q] = arrived[q]
                /\ unbroken'[q] = unbroken[q] /\ handedOn'[q] = handedOn[q]
<1>1. hop[r] \in 1 .. Agents - 1
  BY CalledWith
<1> QED
  BY <1>1 DEF Call, TypeOK

\* A step asks for an extension only on behalf of who wished it.
LEMMA StepOnItsOwnBehalf ==
    ASSUME TypeOK, CellsCarry, OnItsOwnBehalf, Next
    PROVE  OnItsOwnBehalf'
<1>1. CASE UNCHANGED <<chain, hop, arrived, origin, unbroken, handedOn>>
  BY <1>1 DEF OnItsOwnBehalf, WishedOnTheWay, Values
<1>2. CASE \E r \in Requests, place \in Places, isSend \in BOOLEAN : Call(r, place, isSend)
  <2>1. PICK r \in Requests, place \in Places, isSend \in BOOLEAN : Call(r, place, isSend)
    BY <1>2
  <2>2. /\ chain' = chain /\ origin' = origin
        /\ hop[r] \in 1 .. Agents - 1 /\ hop'[r] = hop[r] + 1
        /\ \A q \in Requests \ {r} : hop'[q] = hop[q] /\ arrived'[q] = arrived[q]
    BY <2>1, CallMoves
  <2>3. /\ \A u \in Values(arrived'[r].copies) :
             u \in chain.wishes[hop[r]] \/ u \in Values(arrived[r].copies)
        /\ arrived'[r].metadata \subseteq arrived[r].metadata
    BY <2>1, CallArrives
  <2>4. WishedOnTheWay(r)' = WishedOnTheWay(r) \union chain.wishes[hop[r]]
    <3>1. 1 .. hop'[r] - 1 = (1 .. hop[r] - 1) \union {hop[r]}
      BY <2>2
    <3> QED
      BY <2>2, <3>1 DEF WishedOnTheWay
  <2>5. /\ Values(arrived[r].copies) \subseteq Values(origin[r].copies) \union WishedOnTheWay(r)
        /\ arrived[r].metadata \subseteq origin[r].metadata
    BY DEF OnItsOwnBehalf
  <2>6. /\ Values(arrived'[r].copies) \subseteq
             Values(origin'[r].copies) \union WishedOnTheWay(r)'
        /\ arrived'[r].metadata \subseteq origin'[r].metadata
    BY <2>2, <2>3, <2>4, <2>5
  <2>7. ASSUME NEW q \in Requests \ {r}
        PROVE  /\ Values(arrived'[q].copies) \subseteq
                    Values(origin'[q].copies) \union WishedOnTheWay(q)'
               /\ arrived'[q].metadata \subseteq origin'[q].metadata
    BY <2>2 DEF OnItsOwnBehalf, WishedOnTheWay
  <2>8. \A copies : Values(copies)' = Values(copies)
    BY DEF Values
  <2> QED
    BY <2>6, <2>7 DEF OnItsOwnBehalf, Values
<1> QED
  BY <1>1, <1>2, OnlyCallsMove

\* A step passes on no extension that is not supported.
LEMMA StepOnlySupported ==
    ASSUME TypeOK, CellsCarry, OnlySupported, Next
    PROVE  OnlySupported'
<1>1. CASE UNCHANGED <<chain, hop, arrived, origin, unbroken, handedOn>>
  BY <1>1 DEF OnlySupported, Values
<1>2. CASE \E r \in Requests, place \in Places, isSend \in BOOLEAN : Call(r, place, isSend)
  <2>1. PICK r \in Requests, place \in Places, isSend \in BOOLEAN : Call(r, place, isSend)
    BY <1>2
  <2>2. /\ chain' = chain /\ hop'[r] = hop[r] + 1
        /\ \A q \in Requests \ {r} : hop'[q] = hop[q] /\ arrived'[q] = arrived[q]
    BY <2>1, CallMoves
  <2>3. /\ \A u \in Values(arrived'[r].copies) :
             IsExtensionSupported(chain.card[hop[r] + 1], u)
        /\ \A u \in arrived'[r].metadata :
             IsExtensionSupported(chain.card[hop[r] + 1], u)
    BY <2>1, CallArrives
  <2>4. chain'.card[hop'[r]] # NoCard =>
          Values(arrived'[r].copies) \union arrived'[r].metadata \subseteq chain'.card[hop'[r]]
    BY <2>2, <2>3 DEF IsExtensionSupported
  <2>5. ASSUME NEW q \in Requests \ {r}
        PROVE  (hop'[q] > 1 /\ chain'.card[hop'[q]] # NoCard) =>
                 Values(arrived'[q].copies) \union arrived'[q].metadata
                   \subseteq chain'.card[hop'[q]]
    BY <2>2 DEF OnlySupported
  <2> QED
    BY <2>4, <2>5 DEF OnlySupported, Values
<1> QED
  BY <1>1, <1>2, OnlyCallsMove

\* A step breaks no unbroken chain.
LEMMA StepReachesTheEnd ==
    ASSUME TypeOK, CellsCarry, ReachesTheEnd, Next
    PROVE  ReachesTheEnd'
<1>1. CASE UNCHANGED <<chain, hop, arrived, origin, unbroken, handedOn>>
  BY <1>1 DEF ReachesTheEnd, Values, IsExtensionSupported
<1>2. CASE \E r \in Requests, place \in Places, isSend \in BOOLEAN : Call(r, place, isSend)
  <2>1. PICK r \in Requests, place \in Places, isSend \in BOOLEAN : Call(r, place, isSend)
    BY <1>2
  <2>2. /\ chain' = chain /\ origin' = origin
        /\ hop[r] \in 1 .. Agents - 1 /\ hop'[r] = hop[r] + 1
        /\ unbroken'[r] => /\ unbroken[r] /\ chain.transport[hop[r] + 1] = "jsonrpc"
                           /\ Current(r, place) # NoContext
        /\ \A q \in Requests \ {r} :
             hop'[q] = hop[q] /\ arrived'[q] = arrived[q] /\ unbroken'[q] = unbroken[q]
    BY <2>1, CallMoves
  <2>3. (chain.transport[hop[r] + 1] = "jsonrpc" /\ Current(r, place) # NoContext) =>
          \A u \in Values(arrived[r].copies) :
            IsExtensionSupported(chain.card[hop[r] + 1], u) => u \in Values(arrived'[r].copies)
    BY <2>1, CallArrives
  <2>4. ASSUME unbroken'[r], NEW u \in Values(origin[r].copies),
               \A a \in 2 .. hop'[r] : IsExtensionSupported(chain.card[a], u)
        PROVE  u \in Values(arrived'[r].copies)
    <3>1. hop[r] + 1 \in 2 .. hop'[r] /\ 2 .. hop[r] \subseteq 2 .. hop'[r]
      BY <2>2
    <3>2. u \in Values(arrived[r].copies)
      BY <2>2, <2>4, <3>1 DEF ReachesTheEnd
    <3> QED
      BY <2>2, <2>3, <2>4, <3>1, <3>2
  <2>5. ASSUME NEW q \in Requests \ {r}, unbroken'[q], NEW u \in Values(origin[q].copies),
               \A a \in 2 .. hop'[q] : IsExtensionSupported(chain.card[a], u)
        PROVE  u \in Values(arrived'[q].copies)
    BY <2>2, <2>5 DEF ReachesTheEnd
  <2>6. ASSUME NEW q \in Requests, unbroken'[q], NEW u \in Values(origin[q].copies),
               \A a \in 2 .. hop'[q] : IsExtensionSupported(chain.card[a], u)
        PROVE  u \in Values(arrived'[q].copies)
    BY <2>4, <2>5, <2>6
  <2> QED
    BY <2>2, <2>6 DEF ReachesTheEnd, Values, IsExtensionSupported
<1> QED
  BY <1>1, <1>2, OnlyCallsMove

\* A step adds at most one copy of an extension for each of the ways it travels.
LEMMA StepCopiesBounded ==
    ASSUME TypeOK, CellsCarry, CopiesBounded, Next
    PROVE  CopiesBounded'
<1>1. CASE UNCHANGED <<chain, hop, arrived, origin, unbroken, handedOn>>
  BY <1>1 DEF CopiesBounded
<1>2. CASE \E r \in Requests, place \in Places, isSend \in BOOLEAN : Call(r, place, isSend)
  <2>1. PICK r \in Requests, place \in Places, isSend \in BOOLEAN : Call(r, place, isSend)
    BY <1>2
  <2>2. \A u \in Uris : arrived'[r].copies[u] <= 2
    BY <2>1, CallArrives
  <2>3. \A q \in Requests \ {r} : hop'[q] = hop[q] /\ arrived'[q] = arrived[q]
    BY <2>1, CallMoves
  <2> QED
    BY <2>2, <2>3 DEF CopiesBounded
<1> QED
  BY <1>1, <1>2, OnlyCallsMove

\* A step hands the metadata on where the header still came through.
LEMMA StepMetadataReachesTheEnd ==
    ASSUME TypeOK, CellsCarry, ReachesTheEnd, MetadataReachesTheEnd, Next
    PROVE  MetadataReachesTheEnd'
<1>1. CASE UNCHANGED <<chain, hop, arrived, origin, unbroken, handedOn>>
  BY <1>1 DEF MetadataReachesTheEnd, Values, IsExtensionSupported
<1>2. CASE \E r \in Requests, place \in Places, isSend \in BOOLEAN : Call(r, place, isSend)
  <2>1. PICK r \in Requests, place \in Places, isSend \in BOOLEAN : Call(r, place, isSend)
    BY <1>2
  <2>2. /\ chain' = chain /\ origin' = origin
        /\ hop[r] \in 1 .. Agents - 1 /\ hop'[r] = hop[r] + 1
        /\ handedOn'[r] => handedOn[r] /\ unbroken[r] /\ isSend
                           /\ IsRespelled(Current(r, place))
        /\ \A q \in Requests \ {r} :
             hop'[q] = hop[q] /\ arrived'[q] = arrived[q] /\ handedOn'[q] = handedOn[q]
    BY <2>1, CallMoves
  <2>3. (isSend /\ IsRespelled(Current(r, place))) =>
          \A u \in arrived[r].metadata \intersect Values(arrived[r].copies) :
            IsExtensionSupported(chain.card[hop[r] + 1], u) => u \in arrived'[r].metadata
    BY <2>1, CallArrives
  <2>4. ASSUME handedOn'[r], NEW u \in origin[r].metadata \intersect Values(origin[r].copies),
               \A a \in 2 .. hop'[r] : IsExtensionSupported(chain.card[a], u)
        PROVE  u \in arrived'[r].metadata
    <3>1. hop[r] + 1 \in 2 .. hop'[r] /\ 2 .. hop[r] \subseteq 2 .. hop'[r]
      BY <2>2
    <3>2. u \in Values(arrived[r].copies)
      BY <2>2, <2>4, <3>1 DEF ReachesTheEnd
    <3>3. u \in arrived[r].metadata
      BY <2>2, <2>4, <3>1 DEF MetadataReachesTheEnd
    <3> QED
      BY <2>2, <2>3, <2>4, <3>1, <3>2, <3>3
  <2>5. ASSUME NEW q \in Requests \ {r}, handedOn'[q],
               NEW u \in origin[q].metadata \intersect Values(origin[q].copies),
               \A a \in 2 .. hop'[q] : IsExtensionSupported(chain.card[a], u)
        PROVE  u \in arrived'[q].metadata
    BY <2>2, <2>5 DEF MetadataReachesTheEnd
  <2>6. ASSUME NEW q \in Requests, handedOn'[q],
               NEW u \in origin[q].metadata \intersect Values(origin[q].copies),
               \A a \in 2 .. hop'[q] : IsExtensionSupported(chain.card[a], u)
        PROVE  u \in arrived'[q].metadata
    BY <2>4, <2>5, <2>6
  <2> QED
    BY <2>2, <2>6 DEF MetadataReachesTheEnd, Values, IsExtensionSupported
<1> QED
  BY <1>1, <1>2, OnlyCallsMove

\* Every step keeps the invariant.
LEMMA StepInv == ExtensionsInv /\ [Next]_vars => ExtensionsInv'
<1> SUFFICES ASSUME ExtensionsInv, [Next]_vars
             PROVE  ExtensionsInv'
  OBVIOUS
<1> USE DEF ExtensionsInv
<1>1. CASE Next
  BY <1>1, StepTypes, StepCells, StepOnItsOwnBehalf, StepOnlySupported, StepReachesTheEnd,
     StepCopiesBounded, StepMetadataReachesTheEnd
<1>2. CASE UNCHANGED vars
  <2>1. TypeOK'
    BY <1>2 DEF vars, TypeOK
  <2>2. CellsCarry'
    <3>1. cell' = cell /\ arrived' = arrived
      BY <1>2 DEF vars
    <3>2. ASSUME NEW q \in Requests, NEW ctx
          PROVE  Carries(q, ctx)' <=> Carries(q, ctx)
      BY <3>1 DEF Carries
    <3> QED
      BY <3>1, <3>2 DEF CellsCarry
  <2>3. OnItsOwnBehalf'
    BY <1>2 DEF vars, OnItsOwnBehalf, WishedOnTheWay, Values
  <2>4. OnlySupported'
    BY <1>2 DEF vars, OnlySupported, Values
  <2>5. ReachesTheEnd' /\ MetadataReachesTheEnd'
    BY <1>2 DEF vars, ReachesTheEnd, MetadataReachesTheEnd, Values, IsExtensionSupported
  <2>6. CopiesBounded'
    BY <1>2 DEF vars, CopiesBounded
  <2> QED
    BY <2>1, <2>2, <2>3, <2>4, <2>5, <2>6
<1> QED
  BY <1>1, <1>2

\* Extensions' inductive invariant: its properties, and what the task-local
\* cells hold, hold in every state.
THEOREM ExtensionsInvariant == Spec => []ExtensionsInv
<1>1. Init => ExtensionsInv
  BY InitInv
<1>2. ExtensionsInv /\ [Next]_vars => ExtensionsInv'
  BY StepInv
<1> QED
  BY <1>1, <1>2, PTL DEF Spec

\* The variables keep their types, for any chain of agents.
THEOREM TypeCorrect == Spec => []TypeOK
<1>1. ExtensionsInv => TypeOK
  BY DEF ExtensionsInv
<1> QED
  BY <1>1, ExtensionsInvariant, PTL

\* No request is served with extensions or metadata of another one: task-local
\* cells keep apart what agents do for concurrent requests.
THEOREM ServedOnItsOwnBehalf == Spec => []OnItsOwnBehalf
<1>1. ExtensionsInv => OnItsOwnBehalf
  BY DEF ExtensionsInv
<1> QED
  BY <1>1, ExtensionsInvariant, PTL

\* Neither activator nor propagator asks an agent for what its card lacks.
THEOREM AskedForSupported == Spec => []OnlySupported
<1>1. ExtensionsInv => OnlySupported
  BY DEF ExtensionsInv
<1> QED
  BY <1>1, ExtensionsInvariant, PTL

\* An extension reaches the end of a chain of JSON-RPC calls from tasks that have
\* the request's context, however long the chain.
THEOREM ExtensionReachesTheEnd == Spec => []ReachesTheEnd
<1>1. ExtensionsInv => ReachesTheEnd
  BY DEF ExtensionsInv
<1> QED
  BY <1>1, ExtensionsInvariant, PTL

\* An agent receives at most two copies of an extension's header.
THEOREM HeadersDoNotMultiply == Spec => []CopiesBounded
<1>1. ExtensionsInv => CopiesBounded
  BY DEF ExtensionsInv
<1> QED
  BY <1>1, ExtensionsInvariant, PTL

\* Metadata of an extension reaches the end of a chain of any length whose
\* agents send messages from respelled contexts, the last one by any transport.
THEOREM MetadataAlsoReachesTheEnd == Spec => []MetadataReachesTheEnd
<1>1. ExtensionsInv => MetadataReachesTheEnd
  BY DEF ExtensionsInv
<1> QED
  BY <1>1, ExtensionsInvariant, PTL

================================================================================
