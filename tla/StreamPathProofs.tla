--------------------------- MODULE StreamPathProofs ---------------------------
(******************************************************************************)
(* Proofs about StreamPath: what is under way to the client is in the order   *)
(* it was sent, and whole frames unless a JSON-RPC client has dropped a chunk *)
(* that ended inside a character; and that an EventStream is a feed of the    *)
(* queue's events, shows its gaps, and mixes no events.  For any number of    *)
(* events, any capacity of the queue, the bridge and the network.             *)
(******************************************************************************)
EXTENDS StreamPath, SequenceLemmas, TLAPS

Char == {"start", "lead", "cont", "end", "broken"} \X Nat
OnWire == IF protocol = "GRPC" THEN Nat ELSE Char

\* Types of the variables.
TypeOK ==
    /\ protocol \in Protocols
    /\ log \in Seq(Event) /\ closed \in BOOLEAN /\ cursor \in 0..Len(log)
    /\ forwarding \in BOOLEAN
    /\ wire \in Seq(OnWire)
    /\ client \in {"reading", "ended", "left"}
    /\ buf \in Seq(Char) /\ (protocol = "GRPC" => buf = <<>>)
    /\ items \in Seq(Int)
    /\ lagged \in BOOLEAN /\ split \in BOOLEAN /\ cut \in BOOLEAN
    /\ refused \in Nat /\ since \in Nat

\* All that is under way, the oldest first.
Pipe == buf \o wire

Item(c) == IF protocol = "GRPC" THEN c ELSE c[2]
Starts(c) == protocol # "GRPC" => c[1] = "start"
Ends(c) == protocol # "GRPC" => c[1] = "end"

\* Nothing is under way to a client that has gone.
Gone ==
    client # "reading" => /\ buf = <<>> /\ wire = <<>>
                          /\ client = "ended" => ~forwarding

\* What is under way is in order, and after what the client has got.
InOrder(pipe) ==
    \A i, j \in 1..Len(pipe) :
        (i < j /\ Item(pipe[i]) > 0 /\ Item(pipe[j]) > 0) =>
            /\ Item(pipe[i]) <= Item(pipe[j])
            /\ Ends(pipe[i]) => Item(pipe[i]) < Item(pipe[j])

Ascending ==
    /\ \A a, b \in 1..Len(items) : (a < b /\ items[a] > 0 /\ items[b] > 0) => items[a] < items[b]
    /\ \A a \in 1..Len(items) : items[a] <= cursor
    /\ InOrder(Pipe)
    /\ \A i \in 1..Len(Pipe) :
        /\ Item(Pipe[i]) \in 0..cursor
        /\ Item(Pipe[i]) > 0 =>
            \A a \in 1..Len(items) : items[a] < Item(Pipe[i])

\* Whole frames, with no carried event missing between two of them.
Framed(pipe) ==
    /\ pipe # <<>> => Starts(pipe[1]) /\ Ends(pipe[Len(pipe)])
    /\ \A i \in 1..Len(pipe) - 1 :
        Ends(pipe[i]) =>
            /\ Starts(pipe[i + 1])
            /\ (Item(pipe[i]) > 0 /\ Item(pipe[i + 1]) > 0)
                 => ~Missing(Item(pipe[i]), Item(pipe[i + 1]))
    /\ \A i, j \in 1..Len(pipe) :
        (i < j /\ \A k \in i..j - 1 : ~Ends(pipe[k])) => Item(pipe[i]) = Item(pipe[j])

LastItem == IF items = <<>> THEN 0 ELSE items[Len(items)]
EndsWell == items = <<>> \/ items[Len(items)] > 0

\* No carried event is missing between what the client has, what is under way,
\* and what the server forwards next.
Linked(pipe) ==
    /\ (pipe # <<>> /\ EndsWell /\ Item(pipe[1]) > 0) => ~Missing(LastItem, Item(pipe[1]))
    /\ (forwarding /\ client = "reading") =>
        IF pipe = <<>> THEN EndsWell => ~Missing(LastItem, cursor + 1)
        ELSE Item(pipe[Len(pipe)]) > 0 => ~Missing(Item(pipe[Len(pipe)]), cursor + 1)

NoGaps ==
    \A a \in 1..Len(items) :
        items[a] > 0 =>
            IF a = 1 THEN ~Missing(0, items[1])
            ELSE items[a - 1] > 0 => ~Missing(items[a - 1], items[a])

WholeFrames ==
    (split /\ protocol = "JSONRPC")
    \/ /\ Framed(Pipe) /\ Linked(Pipe) /\ NoGaps
       /\ \A a \in 1..Len(items) : items[a] # Mixture

\* The inductive invariant.
StreamInv == TypeOK /\ Gone /\ Ascending /\ WholeFrames

--------------------------------------------------------------------------------
(* What is under way.                                                         *)

\* The pipe is a sequence: what is in the buffer, then what is on the wire.
LEMMA PipeTyped ==
    ASSUME TypeOK
    PROVE  /\ Pipe \in Seq(OnWire) /\ Len(Pipe) \in Nat
           /\ Len(Pipe) = Len(buf) + Len(wire)
           /\ \A i \in 1..Len(buf) : Pipe[i] = buf[i]
           /\ \A i \in 1..Len(wire) : Pipe[Len(buf) + i] = wire[i]
           /\ protocol = "GRPC" => Pipe = wire
<1>1. buf \in Seq(OnWire)
  BY DEF TypeOK, OnWire
<1>2. wire \in Seq(OnWire)
  BY DEF TypeOK
<1>3. protocol = "GRPC" => Pipe = wire
  <2> SUFFICES ASSUME protocol = "GRPC" PROVE <<>> \o wire = wire
    BY DEF Pipe, TypeOK
  <2> QED
    BY <1>2
<1> QED
  BY <1>1, <1>2, <1>3 DEF Pipe

\* What a character stands for is a number.
LEMMA ItemTyped == \A c \in OnWire : Item(c) \in Nat
BY DEF OnWire, Item, Char

\* An item as it travels: over gRPC itself, over HTTP a frame.
IsSegment(seg, item) ==
    /\ seg \in Seq(OnWire) /\ Len(seg) \in Nat \ {0}
    /\ Starts(seg[1]) /\ Ends(seg[Len(seg)])
    /\ \A i \in 1..Len(seg) : Item(seg[i]) = item
    /\ \A i \in 1..Len(seg) - 1 : ~Ends(seg[i])

\* What the server sends for an item is a segment of it.
LEMMA SegmentIs ==
    ASSUME NEW item \in Nat
    PROVE  IsSegment(IF protocol = "GRPC" THEN <<item>> ELSE Frame(item), item)
<1>1. CASE protocol = "GRPC"
  <2>1. <<item>> \in Seq(OnWire) /\ Len(<<item>>) = 1 /\ <<item>>[1] = item
    BY <1>1 DEF OnWire
  <2> QED
    BY <1>1, <2>1 DEF IsSegment, Starts, Ends, Item
<1>2. CASE protocol # "GRPC"
  <2>1. ASSUME NEW f, f = <<<<"start", item>>, <<"end", item>>>>
        PROVE  IsSegment(f, item)
    <3>1. f \in Seq(Char) /\ Len(f) = 2 /\ f[1] = <<"start", item>> /\ f[2] = <<"end", item>>
      BY <2>1 DEF Char
    <3>2. 1..Len(f) = {1, 2} /\ 1..Len(f) - 1 = {1}
      BY <3>1
    <3> QED
      BY <1>2, <3>1, <3>2 DEF IsSegment, Starts, Ends, Item, OnWire
  <2>2. ASSUME NEW f,
               f = <<<<"start", item>>, <<"lead", item>>, <<"cont", item>>, <<"end", item>>>>
        PROVE  IsSegment(f, item)
    <3>1. /\ f \in Seq(Char) /\ Len(f) = 4
          /\ f[1] = <<"start", item>> /\ f[2] = <<"lead", item>>
          /\ f[3] = <<"cont", item>> /\ f[4] = <<"end", item>>
      BY <2>2 DEF Char
    <3>2. 1..Len(f) = {1, 2, 3, 4} /\ 1..Len(f) - 1 = {1, 2, 3}
      BY <3>1
    <3> QED
      BY <1>2, <3>1, <3>2 DEF IsSegment, Starts, Ends, Item, OnWire
  <2>3. IsSegment(Frame(item), item)
    BY <2>1, <2>2 DEF Frame
  <2> QED
    BY <1>2, <2>3
<1> QED
  BY <1>1, <1>2

\* What a selection of what is under way keeps.
LEMMA SelectionInOrder ==
    ASSUME TypeOK, NEW P \in Seq(OnWire), NEW Q \in Seq(OnWire), InOrder(P),
           NEW at \in [1..Len(Q) -> 1..Len(P)],
           \A i, j \in 1..Len(Q) : i < j => at[i] < at[j],
           \A i \in 1..Len(Q) : Item(Q[i]) = Item(P[at[i]]) /\ (Ends(Q[i]) => Ends(P[at[i]]))
    PROVE  InOrder(Q)
<1> SUFFICES ASSUME NEW i \in 1..Len(Q), NEW j \in 1..Len(Q), i < j,
                    Item(Q[i]) > 0, Item(Q[j]) > 0
             PROVE  /\ Item(Q[i]) <= Item(Q[j])
                    /\ Ends(Q[i]) => Item(Q[i]) < Item(Q[j])
  BY DEF InOrder
<1>1. PICK a \in 1..Len(P), b \in 1..Len(P) : a = at[i] /\ b = at[j] /\ a < b
  OBVIOUS
<1>2. Item(Q[i]) = Item(P[a]) /\ Item(Q[j]) = Item(P[b]) /\ (Ends(Q[i]) => Ends(P[a]))
  BY <1>1
<1>3. (Item(P[a]) > 0 /\ Item(P[b]) > 0) =>
        /\ Item(P[a]) <= Item(P[b])
        /\ Ends(P[a]) => Item(P[a]) < Item(P[b])
  BY <1>1 DEF InOrder
<1> QED
  BY <1>2, <1>3

\* What follows a frame is whole frames.
LEMMA SuffixFramed ==
    ASSUME TypeOK, NEW P \in Seq(OnWire), Framed(P), NEW n \in 1..Len(P), Ends(P[n])
    PROVE  Framed(SubSeq(P, n + 1, Len(P)))
<1> DEFINE Q == SubSeq(P, n + 1, Len(P))
<1>1. /\ Len(P) \in Nat /\ Len(Q) = Len(P) - n /\ Q \in Seq(OnWire)
      /\ \A i \in 1..Len(Q) : Q[i] = P[n + i]
  BY SuffixOf
<1> HIDE DEF Q
<1>2. Q # <<>> => Starts(Q[1]) /\ Ends(Q[Len(Q)])
  <2> SUFFICES ASSUME Len(Q) > 0 PROVE Starts(Q[1]) /\ Ends(Q[Len(Q)])
    BY <1>1
  <2>1. n \in 1..Len(P) - 1 /\ 1 \in 1..Len(Q) /\ Len(Q) \in 1..Len(Q) /\ n + Len(Q) = Len(P)
    BY <1>1
  <2>2. Q[1] = P[n + 1] /\ Q[Len(Q)] = P[Len(P)] /\ P # <<>>
    BY <1>1, <2>1
  <2> QED
    BY <2>1, <2>2 DEF Framed
<1>3. ASSUME NEW i \in 1..Len(Q) - 1, Ends(Q[i])
      PROVE  /\ Starts(Q[i + 1])
             /\ (Item(Q[i]) > 0 /\ Item(Q[i + 1]) > 0)
                  => ~Missing(Item(Q[i]), Item(Q[i + 1]))
  <2>1. n + i \in 1..Len(P) - 1 /\ i \in 1..Len(Q) /\ i + 1 \in 1..Len(Q)
        /\ n + (i + 1) = (n + i) + 1
    BY <1>1
  <2>2. Q[i] = P[n + i] /\ Q[i + 1] = P[(n + i) + 1]
    BY <1>1, <2>1
  <2> QED
    BY <1>3, <2>1, <2>2 DEF Framed
<1>4. ASSUME NEW i \in 1..Len(Q), NEW j \in 1..Len(Q), i < j,
             \A k \in i..j - 1 : ~Ends(Q[k])
      PROVE  Item(Q[i]) = Item(Q[j])
  <2>1. n + i \in 1..Len(P) /\ n + j \in 1..Len(P) /\ n + i < n + j
    BY <1>1, <1>4
  <2>2. \A k \in n + i..(n + j) - 1 : ~Ends(P[k])
    <3> TAKE k \in n + i..(n + j) - 1
    <3>1. k - n \in i..j - 1 /\ k - n \in 1..Len(Q) /\ n + (k - n) = k
      BY <1>1
    <3> QED
      BY <1>1, <1>4, <3>1
  <2>3. Q[i] = P[n + i] /\ Q[j] = P[n + j]
    BY <1>1
  <2> QED
    BY <2>1, <2>2, <2>3 DEF Framed
<1> QED
  BY <1>2, <1>3, <1>4 DEF Framed, Q

\* The members of a pipe with a segment behind it.
LEMMA AppendedAt ==
    ASSUME NEW P \in Seq(OnWire), NEW seg, NEW item, IsSegment(seg, item)
    PROVE  /\ P \o seg \in Seq(OnWire) /\ Len(P \o seg) = Len(P) + Len(seg)
           /\ Len(P) \in Nat /\ Len(seg) \in Nat \ {0} /\ P \o seg # <<>>
           /\ \A i \in 1..Len(P) : (P \o seg)[i] = P[i]
           /\ \A i \in 1..Len(seg) : (P \o seg)[Len(P) + i] = seg[i]
           /\ \A i \in 1..Len(P) + Len(seg) :
                i \in 1..Len(P) \/ \E k \in 1..Len(seg) : i = Len(P) + k
<1>1. seg \in Seq(OnWire) /\ Len(seg) \in Nat \ {0}
  BY DEF IsSegment
<1>2. /\ P \o seg \in Seq(OnWire) /\ Len(P \o seg) = Len(P) + Len(seg)
      /\ Len(P) \in Nat
      /\ \A i \in 1..Len(P) : (P \o seg)[i] = P[i]
      /\ \A i \in 1..Len(seg) : (P \o seg)[Len(P) + i] = seg[i]
      /\ \A i \in 1..Len(P) + Len(seg) :
           i \in 1..Len(P) \/ \E k \in 1..Len(seg) : i = Len(P) + k
  BY <1>1, ConcatOf
<1>3. P \o seg # <<>>
  <2>1. Len(<<>>) = 0
    OBVIOUS
  <2> QED
    BY <1>1, <1>2, <2>1
<1> QED
  BY <1>1, <1>2, <1>3

\* A new item behind older ones.
LEMMA AppendInOrder ==
    ASSUME TypeOK, NEW P \in Seq(OnWire), InOrder(P),
           NEW item \in Nat, NEW seg, IsSegment(seg, item),
           item > 0 => \A i \in 1..Len(P) : Item(P[i]) < item
    PROVE  InOrder(P \o seg)
<1> DEFINE Q == P \o seg
           m == Len(P)
           n == Len(seg)
<1>1. /\ m \in Nat /\ n \in Nat \ {0} /\ Len(Q) = m + n
      /\ \A i \in 1..m : Q[i] = P[i]
      /\ \A i \in 1..n : Q[m + i] = seg[i]
      /\ \A i \in 1..m + n :
           i \in 1..m \/ \E k \in 1..n : i = m + k
  <2>1. IsSegment(seg, item) /\ P \in Seq(OnWire)
    OBVIOUS
  <2> QED
    BY ONLY <2>1, AppendedAt
<1> HIDE DEF Q, m, n
<1>2. SUFFICES ASSUME NEW i \in 1..Len(Q), NEW j \in 1..Len(Q), i < j,
                      Item(Q[i]) > 0, Item(Q[j]) > 0
               PROVE  /\ Item(Q[i]) <= Item(Q[j])
                      /\ Ends(Q[i]) => Item(Q[i]) < Item(Q[j])
  BY DEF InOrder, Q
<1>3. CASE j \in 1..m
  <2>1. i \in 1..m /\ Q[i] = P[i] /\ Q[j] = P[j]
    BY <1>1, <1>2, <1>3
  <2> QED
    BY <1>2, <1>3, <2>1 DEF InOrder, m
<1>4. ASSUME NEW k \in 1..n, j = m + k
      PROVE  /\ Item(Q[i]) <= Item(Q[j])
             /\ Ends(Q[i]) => Item(Q[i]) < Item(Q[j])
  <2>1. Item(Q[j]) = item
    BY <1>1, <1>4 DEF IsSegment, n
  <2>2. CASE i \in 1..m
    <3>1. Item(Q[i]) < item /\ P[i] \in OnWire /\ Item(P[i]) \in Nat
      BY <1>1, <1>2, <2>1, <2>2, ItemTyped DEF m
    <3> QED
      BY <1>1, <2>1, <2>2, <3>1
  <2>3. ASSUME NEW h \in 1..n, i = m + h
        PROVE  /\ Item(Q[i]) <= Item(Q[j])
               /\ Ends(Q[i]) => Item(Q[i]) < Item(Q[j])
    <3>1. h \in 1..n - 1 /\ Q[i] = seg[h]
      BY <1>1, <1>2, <1>4, <2>3
    <3>2. Item(Q[i]) = item /\ ~Ends(Q[i])
      BY <3>1 DEF IsSegment, n
    <3> QED
      BY <2>1, <3>2
  <2> QED
    BY <1>1, <1>2, <2>2, <2>3
<1> QED
  BY <1>1, <1>3, <1>4

\* A segment behind framed data leaves it framed, when no event is missing between.
LEMMA AppendFramed ==
    ASSUME TypeOK, NEW P \in Seq(OnWire), Framed(P),
           NEW item \in Nat, NEW seg, IsSegment(seg, item),
           (P # <<>> /\ Item(P[Len(P)]) > 0 /\ item > 0) => ~Missing(Item(P[Len(P)]), item)
    PROVE  Framed(P \o seg)
<1> DEFINE Q == P \o seg
           m == Len(P)
           n == Len(seg)
<1>1. /\ m \in Nat /\ n \in Nat \ {0} /\ Len(Q) = m + n
      /\ \A i \in 1..m : Q[i] = P[i]
      /\ \A i \in 1..n : Q[m + i] = seg[i]
      /\ \A i \in 1..m + n : i \in 1..m \/ \E k \in 1..n : i = m + k
  BY AppendedAt
<1>2. m # 0 => P # <<>>
  OBVIOUS
<1>a. m = 0 => P = <<>>
  OBVIOUS
<1>3. /\ Starts(seg[1]) /\ Ends(seg[n])
      /\ \A i \in 1..n : Item(seg[i]) = item
      /\ \A i \in 1..n - 1 : ~Ends(seg[i])
  BY DEF IsSegment
<1>4. P # <<>> => Starts(P[1]) /\ Ends(P[m])
  BY DEF Framed
<1> HIDE DEF Q, n
<1>5. Starts(Q[1]) /\ Ends(Q[m + n])
  <2>1. Q[m + n] = seg[n]
    BY <1>1
  <2>2. CASE m = 0
    <3>1. 1 \in 1..n /\ m + 1 = 1
      BY <1>1, <2>2
    <3>2. Q[1] = seg[1]
      BY <1>1, <3>1
    <3> QED
      BY <1>3, <2>1, <3>2
  <2>3. CASE m # 0
    <3>1. 1 \in 1..m
      BY <1>1, <2>3
    <3> QED
      BY <1>1, <1>2, <1>3, <1>4, <2>1, <2>3, <3>1
  <2> QED
    BY <2>2, <2>3
<1>6. ASSUME NEW i \in 1..m + n - 1, Ends(Q[i])
      PROVE  /\ Starts(Q[i + 1])
             /\ (Item(Q[i]) > 0 /\ Item(Q[i + 1]) > 0)
                  => ~Missing(Item(Q[i]), Item(Q[i + 1]))
  <2>1. CASE i \in 1..m - 1
    <3>1. i \in 1..m /\ i + 1 \in 1..m
      BY <1>1, <2>1
    <3> QED
      BY <1>1, <1>6, <2>1, <3>1 DEF Framed
  <2>2. CASE i = m
    <3>1. 1 \in 1..n /\ m \in 1..m /\ m # 0
      BY <1>1, <2>2
    <3>2. Q[i] = P[m] /\ Q[i + 1] = seg[1]
      BY <1>1, <2>2, <3>1
    <3> QED
      BY <1>2, <1>3, <3>1, <3>2
  <2>3. CASE i > m
    <3>1. i - m \in 1..n - 1 /\ i - m \in 1..n /\ m + (i - m) = i
      BY <1>1, <2>3
    <3> QED
      BY <1>1, <1>3, <1>6, <3>1
  <2> QED
    BY <1>1, <2>1, <2>2, <2>3
<1>7. ASSUME NEW i \in 1..m + n, NEW j \in 1..m + n, i < j,
             \A k \in i..j - 1 : ~Ends(Q[k])
      PROVE  Item(Q[i]) = Item(Q[j])
  <2>1. CASE j \in 1..m
    <3>1. i \in 1..m
      BY <1>1, <1>7, <2>1
    <3>2. \A k \in i..j - 1 : ~Ends(P[k])
      <4> TAKE k \in i..j - 1
      <4>1. k \in 1..m
        BY <1>1, <2>1, <3>1
      <4> QED
        BY <1>1, <1>7, <4>1
    <3> QED
      BY <1>1, <1>7, <2>1, <3>1, <3>2 DEF Framed
  <2>2. CASE j \notin 1..m /\ i \in 1..m
    <3>1. m \in i..j - 1 /\ m \in 1..m /\ m # 0
      BY <1>1, <2>2, SMTT(30)
    <3>2. Ends(Q[m])
      BY <1>1, <1>2, <1>4, <3>1
    <3> QED
      BY <1>7, <3>1, <3>2
  <2>3. CASE i \notin 1..m
    <3>1. PICK k \in 1..n : i = m + k
      BY <1>1, <2>3
    <3>2. j \notin 1..m
      BY <1>1, <1>7, <2>3
    <3>3. PICK h \in 1..n : j = m + h
      BY <1>1, <3>2
    <3> QED
      BY <1>1, <1>3, <3>1, <3>3
  <2> QED
    BY <2>1, <2>2, <2>3
<1>8. Q # <<>> /\ Len(Q) = m + n
  BY <1>1, AppendedAt DEF Q
<1>9. Framed(Q)
  <2>1. Q # <<>> => Starts(Q[1]) /\ Ends(Q[Len(Q)])
    BY <1>5, <1>8
  <2>2. \A i \in 1..Len(Q) - 1 :
          Ends(Q[i]) =>
              /\ Starts(Q[i + 1])
              /\ (Item(Q[i]) > 0 /\ Item(Q[i + 1]) > 0)
                   => ~Missing(Item(Q[i]), Item(Q[i + 1]))
    <3> TAKE i \in 1..Len(Q) - 1
    <3>1. i \in 1..m + n - 1
      BY <1>1, <1>8
    <3> QED
      BY <1>6, <3>1
  <2>3. \A i, j \in 1..Len(Q) :
          (i < j /\ \A k \in i..j - 1 : ~Ends(Q[k])) => Item(Q[i]) = Item(Q[j])
    <3> SUFFICES ASSUME NEW i \in 1..Len(Q), NEW j \in 1..Len(Q), i < j,
                        \A k \in i..j - 1 : ~Ends(Q[k])
                 PROVE  Item(Q[i]) = Item(Q[j])
      OBVIOUS
    <3>1. i \in 1..m + n /\ j \in 1..m + n
      BY <1>8
    <3> QED
      BY <1>7, <3>1
  <2> QED
    BY <2>1, <2>2, <2>3, Zenon DEF Framed
<1> QED
  BY <1>9 DEF Q

--------------------------------------------------------------------------------
(* The steps.                                                                 *)

\* What the server does with an item: it drops it or stops, or sends it.
LEMMA ForwardEffect ==
    ASSUME TypeOK, Gone, forwarding, NEW item \in 0..Len(log), Forward(item)
    PROVE  \/ /\ wire' = wire
              /\ \/ forwarding' = FALSE
                 \/ forwarding' = forwarding /\ item # Error /\ ~Carried(item)
           \/ /\ client = "reading" /\ forwarding' = forwarding
              /\ \E seg : IsSegment(seg, item) /\ wire' = wire \o seg
<1>1. CASE item = Error /\ BreaksOnError
  BY <1>1 DEF Forward
<1>2. CASE ~(item = Error /\ BreaksOnError) /\ item # Error /\ log[item].kind \notin CarriedKinds
  BY <1>2 DEF Forward, Carried
<1>3. CASE /\ ~(item = Error /\ BreaksOnError)
           /\ ~(item # Error /\ log[item].kind \notin CarriedKinds)
           /\ client = "left"
  BY <1>3, Zenon DEF Forward
<1>4. CASE /\ ~(item = Error /\ BreaksOnError)
           /\ ~(item # Error /\ log[item].kind \notin CarriedKinds)
           /\ client # "left"
  <2>1. /\ wire' = IF protocol = "GRPC" THEN Append(wire, item) ELSE wire \o Frame(item)
        /\ UNCHANGED forwarding
    BY <1>4, Zenon DEF Forward
  <2>2. client = "reading"
    BY <1>4 DEF TypeOK, Gone
  <2>3. item \in Nat
    BY DEF TypeOK
  <2>4. wire' = wire \o (IF protocol = "GRPC" THEN <<item>> ELSE Frame(item))
    <3>1. CASE protocol = "GRPC"
      <4>1. wire \in Seq(Nat)
        BY <3>1 DEF TypeOK, OnWire
      <4>2. Append(wire, item) = wire \o <<item>>
        BY <2>3, <4>1
      <4> QED
        BY <2>1, <3>1, <4>2
    <3>2. CASE protocol # "GRPC"
      BY <2>1, <3>2
    <3> QED
      BY <3>1, <3>2
  <2> QED
    BY <2>1, <2>2, <2>3, <2>4, SegmentIs
<1> QED
  BY <1>1, <1>2, <1>3, <1>4

\* An event the queue did not carry can be passed over.
LEMMA MissingStep ==
    ASSUME NEW x \in Int, NEW n \in Nat, ~Missing(x, n), ~Carried(n)
    PROVE  ~Missing(x, n + 1)
<1> SUFFICES ASSUME NEW k \in x + 1..(n + 1) - 1, Carried(k)
             PROVE  FALSE
  BY DEF Missing
<1>1. k # n
  OBVIOUS
<1>2. k \in x + 1..n - 1
  BY <1>1
<1> QED
  BY <1>2 DEF Missing

\* Nothing is missing between an event and the next one.
LEMMA NothingBetween == \A n \in Nat : ~Missing(n, n + 1)
BY DEF Missing

\* What the operators say depends on the protocol and the events sent.
LEMMA SamePath ==
    ASSUME UNCHANGED protocol
    PROVE  /\ \A c : /\ Item(c)' = Item(c)
                     /\ Ends(c)' <=> Ends(c)
                     /\ Starts(c)' <=> Starts(c)
           /\ \A P : InOrder(P)' <=> InOrder(P)
           /\ UNCHANGED log =>
                /\ \A i, j : Missing(i, j)' <=> Missing(i, j)
                /\ \A P : Framed(P)' <=> Framed(P)
<1>1. \A c : /\ Item(c)' = Item(c)
             /\ Ends(c)' <=> Ends(c)
             /\ Starts(c)' <=> Starts(c)
  BY DEF Item, Ends, Starts
<1>2. \A P : InOrder(P)' <=> InOrder(P)
  BY <1>1 DEF InOrder
<1>3. ASSUME UNCHANGED log
      PROVE  /\ \A i, j : Missing(i, j)' <=> Missing(i, j)
             /\ \A P : Framed(P)' <=> Framed(P)
  <2>1. \A i, j : Missing(i, j)' <=> Missing(i, j)
    BY <1>3 DEF Missing, Carried, CarriedKinds
  <2>2. \A P : Framed(P)' <=> Framed(P)
    BY <1>1, <2>1 DEF Framed
  <2> QED
    BY <2>1, <2>2
<1> QED
  BY <1>1, <1>2, <1>3

\* The next state's invariant, said of what is then under way.
LEMMA AscendingNext ==
    ASSUME UNCHANGED protocol, NEW Q, Q = Pipe',
           \A a, b \in 1..Len(items') :
             (a < b /\ items'[a] > 0 /\ items'[b] > 0) => items'[a] < items'[b],
           \A a \in 1..Len(items') : items'[a] <= cursor',
           InOrder(Q),
           \A i \in 1..Len(Q) :
             /\ Item(Q[i]) \in 0..cursor'
             /\ Item(Q[i]) > 0 => \A a \in 1..Len(items') : items'[a] < Item(Q[i])
    PROVE  Ascending'
<1>1. (\A c : Item(c)' = Item(c)) /\ (InOrder(Q)' <=> InOrder(Q))
  BY SamePath
<1>2. InOrder(Pipe)'
  BY <1>1
<1> QED
  BY <1>1, <1>2 DEF Ascending

\* WholeFrames after a step, from its parts.
LEMMA WholeNext ==
    ASSUME UNCHANGED <<protocol, log>>, NEW Q, Q = Pipe', Framed(Q), Linked(Q)', NoGaps',
           \A a \in 1..Len(items') : items'[a] # Mixture
    PROVE  WholeFrames'
<1>1. Framed(Q)'
  BY SamePath
<1> QED
  BY <1>1 DEF WholeFrames

\* The server's stream advances to cursor', and sends the event it comes to, or
\* an error, or nothing.
LEMMA ForwardKeeps ==
    ASSUME StreamInv, forwarding, cursor' \in cursor + 1..Len(log),
           NEW item \in {Error, cursor'}, item # Error => cursor' = cursor + 1,
           Forward(item),
           UNCHANGED <<protocol, log, client, buf, items, split, cut, closed, since>>
    PROVE  /\ wire' \in Seq(OnWire) /\ forwarding' \in BOOLEAN
           /\ Gone' /\ Ascending' /\ WholeFrames'
<1> USE DEF StreamInv
<1>1. PICK P : P = Pipe
  OBVIOUS
<1>2. P \in Seq(OnWire) /\ Len(P) \in Nat
  BY <1>1, PipeTyped
<1>3. cursor \in Nat /\ cursor' \in Nat /\ cursor < cursor' /\ item \in 0..Len(log) /\ item \in Nat
  BY DEF TypeOK, Error
<1>4. /\ InOrder(P)
      /\ \A a, b \in 1..Len(items) : (a < b /\ items[a] > 0 /\ items[b] > 0) => items[a] < items[b]
      /\ \A a \in 1..Len(items) : items[a] <= cursor /\ items[a] \in Int
      /\ \A i \in 1..Len(P) :
           /\ Item(P[i]) \in 0..cursor
           /\ Item(P[i]) > 0 => \A a \in 1..Len(items) : items[a] < Item(P[i])
  BY <1>1 DEF Ascending, TypeOK
<1>5. (split /\ protocol = "JSONRPC") => WholeFrames'
  BY DEF WholeFrames
<1>6. ~(split /\ protocol = "JSONRPC") =>
        /\ Framed(P) /\ Linked(P) /\ NoGaps
        /\ \A a \in 1..Len(items) : items[a] # Mixture
  BY <1>1 DEF WholeFrames
<1>7. /\ \A c : Item(c)' = Item(c)
      /\ \A i, j : Missing(i, j)' <=> Missing(i, j)
  BY SamePath
<1>8. NoGaps => NoGaps'
  BY <1>7 DEF NoGaps
<1>9. LastItem' = LastItem /\ (EndsWell' <=> EndsWell) /\ LastItem \in Int
  BY DEF LastItem, EndsWell, TypeOK
<1>10. CASE /\ wire' = wire
            /\ \/ forwarding' = FALSE
               \/ forwarding' = forwarding /\ item # Error /\ ~Carried(item)
  <2>1. P = Pipe' /\ wire' \in Seq(OnWire) /\ forwarding' \in BOOLEAN /\ Gone'
    BY <1>1, <1>10 DEF Pipe, TypeOK, Gone
  <2>2. /\ \A i \in 1..Len(P) : Item(P[i]) \in 0..cursor'
        /\ \A a \in 1..Len(items) : items[a] <= cursor'
    BY <1>3, <1>4
  <2>3. Ascending'
    BY <1>4, <2>1, <2>2, AscendingNext
  <2>4. ASSUME ~(split /\ protocol = "JSONRPC")
        PROVE  WholeFrames'
    <3>1. \A x \in Int : (forwarding' /\ ~Missing(x, cursor + 1)) => ~Missing(x, cursor' + 1)
      <4> SUFFICES ASSUME NEW x \in Int, forwarding', ~Missing(x, cursor + 1)
                   PROVE  ~Missing(x, cursor' + 1)
        OBVIOUS
      <4>1. item = cursor + 1 /\ cursor' = cursor + 1 /\ ~Carried(cursor + 1)
        BY <1>10
      <4> QED
        BY <1>3, <4>1, MissingStep
    <3>2. Linked(P)'
      <4>1. P # <<>> => Item(P[Len(P)]) \in Int
        BY <1>2, ItemTyped
      <4>2. Linked(P)
        BY <1>6, <2>4
      <4> QED
        BY <1>7, <1>9, <1>10, <3>1, <4>1, <4>2 DEF Linked
    <3> QED
      BY <1>6, <1>8, <2>1, <2>4, <3>2, WholeNext
  <2> QED
    BY <1>5, <2>1, <2>3, <2>4
<1>11. ASSUME client = "reading", forwarding' = forwarding,
              NEW seg, IsSegment(seg, item), wire' = wire \o seg
       PROVE  /\ wire' \in Seq(OnWire) /\ forwarding' \in BOOLEAN
              /\ Gone' /\ Ascending' /\ WholeFrames'
  <2>0. item = Error \/ (item = cursor + 1 /\ cursor' = cursor + 1)
    OBVIOUS
  <2>1. PICK Q : Q = P \o seg
    OBVIOUS
  <2>2. Q = Pipe' /\ wire' \in Seq(OnWire) /\ Gone'
    <3>1. buf \in Seq(OnWire) /\ wire \in Seq(OnWire) /\ seg \in Seq(OnWire)
      BY <1>11 DEF TypeOK, OnWire, IsSegment
    <3>2. (buf \o wire) \o seg = buf \o (wire \o seg)
      BY <3>1
    <3> QED
      BY <1>1, <1>11, <2>1, <3>1, <3>2 DEF Pipe, Gone
  <2>3. /\ Q \in Seq(OnWire) /\ Len(Q) = Len(P) + Len(seg)
        /\ Len(seg) \in Nat \ {0} /\ Q # <<>>
        /\ \A i \in 1..Len(P) : Q[i] = P[i]
        /\ \A i \in 1..Len(seg) : Q[Len(P) + i] = seg[i]
        /\ \A i \in 1..Len(P) + Len(seg) :
             i \in 1..Len(P) \/ \E k \in 1..Len(seg) : i = Len(P) + k
    BY <1>2, <1>11, <2>1, AppendedAt
  <2>4. \A i \in 1..Len(seg) : Item(seg[i]) = item
    BY <1>11 DEF IsSegment
  <2>5. Ascending'
    <3>1. InOrder(Q)
      <4>1. item > 0 => \A i \in 1..Len(P) : Item(P[i]) < item
        BY <1>3, <1>4 DEF Error
      <4> QED
        BY <1>2, <1>3, <1>4, <1>11, <2>1, <4>1, AppendInOrder
    <3>2. ASSUME NEW i \in 1..Len(Q)
          PROVE  /\ Item(Q[i]) \in 0..cursor'
                 /\ Item(Q[i]) > 0 => \A a \in 1..Len(items') : items'[a] < Item(Q[i])
      <4>1. CASE i \in 1..Len(P)
        BY <1>3, <1>4, <2>3, <4>1
      <4>2. ASSUME NEW k \in 1..Len(seg), i = Len(P) + k
            PROVE  /\ Item(Q[i]) \in 0..cursor'
                   /\ Item(Q[i]) > 0 => \A a \in 1..Len(items') : items'[a] < Item(Q[i])
        <5>1. Item(Q[i]) = item
          BY <2>3, <2>4, <4>2
        <5>2. item = 0 \/ item = cursor'
          BY DEF Error
        <5>3. \A a \in 1..Len(items) : items[a] < cursor'
          BY <1>3, <1>4
        <5> QED
          BY <1>3, <5>1, <5>2, <5>3
      <4> QED
        BY <2>3, <4>1, <4>2
    <3>3. \A a \in 1..Len(items') : items'[a] <= cursor'
      BY <1>3, <1>4
    <3> QED
      BY <1>4, <2>2, <3>1, <3>2, <3>3, AscendingNext
  <2>6. ASSUME ~(split /\ protocol = "JSONRPC")
        PROVE  WholeFrames'
    <3>1. Framed(P) /\ Linked(P) /\ NoGaps /\ \A a \in 1..Len(items) : items[a] # Mixture
      BY <1>6, <2>6
    <3>2. Framed(Q)
      <4>1. (P # <<>> /\ Item(P[Len(P)]) > 0 /\ item > 0) => ~Missing(Item(P[Len(P)]), item)
        BY <1>11, <2>0, <3>1 DEF Linked, Error
      <4> QED
        BY <1>2, <1>3, <1>11, <2>1, <3>1, <4>1, AppendFramed
    <3>3. Linked(Q)'
      <4>1. (EndsWell /\ Item(Q[1]) > 0) => ~Missing(LastItem, Item(Q[1]))
        <5>1. CASE P = <<>>
          <6>1. Len(P) = 0 /\ 1 \in 1..Len(seg) /\ Len(P) + 1 = 1
            BY <2>3, <5>1
          <6>2. Item(Q[1]) = item
            BY <2>3, <2>4, <6>1
          <6> QED
            BY <1>11, <2>0, <3>1, <5>1, <6>2 DEF Linked, Error
        <5>2. CASE P # <<>>
          <6>1. 1 \in 1..Len(P)
            BY <1>2, <5>2
          <6>2. Q[1] = P[1]
            BY <2>3, <6>1
          <6> QED
            BY <3>1, <5>2, <6>2 DEF Linked
        <5> QED
          BY <5>1, <5>2
      <4>2. Item(Q[Len(Q)]) = item
        <5>1. Len(seg) \in 1..Len(seg)
          BY <2>3
        <5> QED
          BY <2>3, <2>4, <5>1
      <4>3. item > 0 => ~Missing(item, cursor' + 1)
        <5>1. item > 0 => item = cursor'
          BY <2>0 DEF Error
        <5>2. ~Missing(cursor', cursor' + 1)
          BY <1>3, NothingBetween
        <5> QED
          BY <5>1, <5>2
      <4> QED
        BY <1>7, <1>9, <2>3, <4>1, <4>2, <4>3 DEF Linked
    <3> QED
      BY <1>8, <2>2, <3>1, <3>2, <3>3, WholeNext
  <2> QED
    BY <1>5, <1>11, <2>2, <2>5, <2>6 DEF TypeOK
<1> QED
  BY <1>3, <1>10, <1>11, ForwardEffect


\* The first of what is under way is taken: n characters, or one item, up to an
\* end; the client yields y for them, or nothing.
LEMMA TakenInOrder ==
    ASSUME TypeOK, Ascending, NEW P, P = Pipe, NEW n \in 1..Len(P), Ends(P[n]),
           NEW Q, Q = SubSeq(P, n + 1, Len(P)), Q = Pipe',
           UNCHANGED <<protocol, cursor>>,
           \/ UNCHANGED items
           \/ \E y \in Int : items' = Append(items, y) /\ (y > 0 => y = Item(P[n]))
    PROVE  Ascending'
<1>1. P \in Seq(OnWire) /\ Len(P) \in Nat
  BY PipeTyped
<1>2. /\ Q \in Seq(OnWire) /\ Len(Q) = Len(P) - n
      /\ \A i \in 1..Len(P) - n : Q[i] = P[n + i]
  BY <1>1, SuffixOf
<1>3. /\ InOrder(P) /\ cursor \in Nat /\ items \in Seq(Int) /\ Len(items) \in Nat
      /\ \A a, b \in 1..Len(items) : (a < b /\ items[a] > 0 /\ items[b] > 0) => items[a] < items[b]
      /\ \A a \in 1..Len(items) : items[a] <= cursor /\ items[a] \in Int
      /\ \A i \in 1..Len(P) :
           /\ Item(P[i]) \in 0..cursor
           /\ Item(P[i]) > 0 => \A a \in 1..Len(items) : items[a] < Item(P[i])
  BY DEF Ascending, TypeOK
<1>4. InOrder(Q)
  <2> DEFINE at == [i \in 1..Len(Q) |-> n + i]
  <2>1. /\ at \in [1..Len(Q) -> 1..Len(P)]
        /\ \A i, j \in 1..Len(Q) : i < j => at[i] < at[j]
        /\ \A i \in 1..Len(Q) : at[i] = n + i
    BY <1>1, <1>2
  <2> HIDE DEF at
  <2>2. \A i \in 1..Len(Q) : Item(Q[i]) = Item(P[at[i]]) /\ (Ends(Q[i]) => Ends(P[at[i]]))
    BY <1>2, <2>1
  <2> QED
    BY <1>1, <1>2, <1>3, <2>1, <2>2, SelectionInOrder
<1>5. \A i \in 1..Len(Q) : n + i \in 1..Len(P) /\ Q[i] = P[n + i] /\ n < n + i
  BY <1>1, <1>2
<1>6. CASE UNCHANGED items
  <2>1. \A i \in 1..Len(Q) :
          /\ Item(Q[i]) \in 0..cursor'
          /\ Item(Q[i]) > 0 => \A a \in 1..Len(items') : items'[a] < Item(Q[i])
    BY <1>3, <1>5, <1>6
  <2> QED
    BY <1>3, <1>4, <1>6, <2>1, AscendingNext
<1>7. ASSUME NEW y \in Int, items' = Append(items, y), y > 0 => y = Item(P[n])
      PROVE  Ascending'
  <2>1. PICK m \in Nat : m = Len(items)
    BY <1>3
  <2>2. /\ Len(items') = m + 1 /\ items'[m + 1] = y
        /\ \A a \in 1..m : items'[a] = items[a]
        /\ \A a \in 1..m + 1 : a \in 1..m \/ a = m + 1
    BY <1>3, <1>7, <2>1
  <2>3. y > 0 => /\ y \in 0..cursor
                 /\ \A a \in 1..m : items[a] < y
    BY <1>3, <1>7, <2>1
  <2>4. \A a, b \in 1..Len(items') :
          (a < b /\ items'[a] > 0 /\ items'[b] > 0) => items'[a] < items'[b]
    <3> SUFFICES ASSUME NEW a \in 1..m + 1, NEW b \in 1..m + 1, a < b,
                        items'[a] > 0, items'[b] > 0
                 PROVE  items'[a] < items'[b]
      BY <2>2
    <3>1. a \in 1..m
      OBVIOUS
    <3>2. CASE b \in 1..m
      BY <1>3, <2>1, <2>2, <3>1, <3>2
    <3>3. CASE b = m + 1
      BY <2>2, <2>3, <3>1, <3>3
    <3> QED
      BY <2>2, <3>2, <3>3
  <2>5. \A a \in 1..Len(items') : items'[a] <= cursor'
    <3>1. y <= cursor
      BY <1>3, <2>3
    <3> QED
      BY <1>3, <2>1, <2>2, <3>1
  <2>6. ASSUME NEW i \in 1..Len(Q)
        PROVE  /\ Item(Q[i]) \in 0..cursor'
               /\ Item(Q[i]) > 0 => \A a \in 1..Len(items') : items'[a] < Item(Q[i])
    <3>1. n + i \in 1..Len(P) /\ Q[i] = P[n + i] /\ n < n + i
      BY <1>5
    <3>2. Item(Q[i]) \in 0..cursor
      BY <1>3, <3>1
    <3>3. ASSUME Item(Q[i]) > 0, NEW a \in 1..m + 1
          PROVE  items'[a] < Item(Q[i])
      <4>1. CASE a \in 1..m
        BY <1>3, <2>1, <2>2, <3>1, <3>3, <4>1
      <4>2. CASE a = m + 1
        <5>1. CASE y > 0
          <6>1. Item(P[n]) < Item(P[n + i])
            BY <1>3, <1>7, <3>1, <3>3, <5>1 DEF InOrder
          <6> QED
            BY <1>7, <2>2, <3>1, <4>2, <5>1, <6>1
        <5>2. CASE ~(y > 0)
          BY <2>2, <3>2, <3>3, <4>2, <5>2
        <5> QED
          BY <5>1, <5>2
      <4> QED
        BY <2>2, <4>1, <4>2
    <3> QED
      BY <2>2, <3>2, <3>3
  <2> QED
    BY <1>4, <2>4, <2>5, <2>6, AscendingNext
<1> QED
  BY <1>6, <1>7

\* What a client yields for a whole frame leaves no gap.
LEMMA TakenWhole ==
    ASSUME TypeOK, NEW P, P = Pipe, NEW n \in 1..Len(P), Ends(P[n]),
           \A i \in 1..n - 1 : ~Ends(P[i]),
           NEW Q, Q = SubSeq(P, n + 1, Len(P)), Q = Pipe',
           UNCHANGED <<protocol, log, cursor, forwarding, client>>,
           Framed(P), Linked(P), NoGaps, \A a \in 1..Len(items) : items[a] # Mixture,
           NEW y \in {Item(P[1]), Error}, items' = Append(items, y)
    PROVE  WholeFrames'
<1>1. P \in Seq(OnWire) /\ Len(P) \in Nat /\ P # <<>>
  BY PipeTyped
<1>2. /\ Q \in Seq(OnWire) /\ Len(Q) = Len(P) - n
      /\ \A i \in 1..Len(P) - n : Q[i] = P[n + i]
  BY <1>1, SuffixOf
<1>3. Framed(Q)
  BY <1>1, SuffixFramed
<1>4. Item(P[1]) = Item(P[n]) /\ Item(P[1]) \in Nat
  <2>1. 1 \in 1..Len(P) /\ n \in 1..Len(P) /\ (n = 1 \/ 1 < n)
    BY <1>1
  <2>2. 1 < n => Item(P[1]) = Item(P[n])
    BY <2>1 DEF Framed
  <2> QED
    BY <1>1, <2>1, <2>2, ItemTyped
<1>5. PICK m \in Nat : m = Len(items)
  BY DEF TypeOK
<1>6. /\ y \in Nat /\ items \in Seq(Int)
      /\ Len(items') = m + 1 /\ items'[m + 1] = y
      /\ \A a \in 1..m : items'[a] = items[a]
      /\ \A a \in 1..m + 1 : a \in 1..m \/ a = m + 1
      /\ items' # <<>>
  <2>1. y \in Nat /\ y \in Int
    BY <1>4 DEF Error
  <2>2. items \in Seq(Int)
    BY DEF TypeOK
  <2> QED
    BY <1>5, <2>1, <2>2
<1>7. LastItem' = y /\ (EndsWell' <=> y > 0)
  BY <1>6 DEF LastItem, EndsWell
<1>8. /\ \A c : Item(c)' = Item(c)
      /\ \A i, j : Missing(i, j)' <=> Missing(i, j)
  BY SamePath
<1>9. Linked(Q)'
  <2>1. ASSUME Q # <<>>, y > 0, Item(Q[1]) > 0
        PROVE  ~Missing(y, Item(Q[1]))
    <3>1. Len(Q) > 0
      BY <1>2, <2>1
    <3>2. n \in 1..Len(P) - 1 /\ 1 \in 1..Len(P) - n
      BY <1>1, <1>2, <3>1
    <3>3. Q[1] = P[n + 1] /\ y = Item(P[n])
      BY <1>2, <1>4, <2>1, <3>2 DEF Error
    <3> QED
      BY <2>1, <3>2, <3>3 DEF Framed
  <2>2. ASSUME Q # <<>>
        PROVE  Q[Len(Q)] = P[Len(P)]
    <3>1. Len(Q) > 0
      BY <1>2, <2>2
    <3>2. Len(Q) \in 1..Len(P) - n /\ n + Len(Q) = Len(P)
      BY <1>1, <1>2, <3>1
    <3> QED
      BY <1>2, <3>2
  <2>3. ASSUME Q = <<>>, forwarding, client = "reading", y > 0
        PROVE  ~Missing(y, cursor + 1)
    <3>1. n = Len(P)
      <4>1. Len(Q) = 0
        BY <2>3, SMTT(30)
      <4> QED
        BY <1>1, <1>2, <4>1
    <3>2. y = Item(P[Len(P)])
      BY <1>4, <2>3, <3>1 DEF Error
    <3> QED
      BY <1>1, <2>3, <3>2 DEF Linked
  <2> QED
    BY <1>1, <1>7, <1>8, <2>1, <2>2, <2>3 DEF Linked
<1>10. NoGaps'
  <2> SUFFICES ASSUME NEW a \in 1..m + 1, items'[a] > 0
               PROVE  IF a = 1 THEN ~Missing(0, items'[1])
                      ELSE items'[a - 1] > 0 => ~Missing(items'[a - 1], items'[a])
    BY <1>6, <1>8 DEF NoGaps
  <2>1. CASE a \in 1..m
    <3>1. a # 1 => a - 1 \in 1..m
      BY <2>1
    <3>2. items'[a] = items[a] /\ (a # 1 => items'[a - 1] = items[a - 1])
      BY <1>6, <2>1, <3>1
    <3> QED
      BY <1>5, <2>1, <3>2 DEF NoGaps
  <2>2. CASE a = m + 1
    <3>1. y = Item(P[1]) /\ y > 0
      BY <1>6, <2>2 DEF Error
    <3>2. EndsWell => ~Missing(LastItem, y)
      BY <1>1, <3>1 DEF Linked
    <3>3. CASE m = 0
      <4>1. items = <<>>
        BY <1>5, <1>6, <3>3
      <4> QED
        BY <1>6, <2>2, <3>2, <3>3, <4>1 DEF EndsWell, LastItem
    <3>4. CASE m # 0
      <4>1. items # <<>> /\ a # 1 /\ a - 1 = m /\ m \in 1..m
        BY <1>5, <2>2, <3>4
      <4>2. items'[a - 1] = items[Len(items)]
        BY <1>5, <1>6, <4>1
      <4> QED
        BY <1>6, <2>2, <3>2, <4>1, <4>2 DEF EndsWell, LastItem
    <3> QED
      BY <3>3, <3>4
  <2> QED
    BY <1>6, <2>1, <2>2
<1>11. \A a \in 1..Len(items') : items'[a] # Mixture
  BY <1>5, <1>6 DEF Mixture
<1> QED
  BY <1>3, <1>9, <1>10, <1>11, WholeNext


\* The place SelectInSeq returns is that of the first end.
LEMMA FirstEnd ==
    ASSUME NEW s \in Seq(Char)
    PROVE  LET n == SelectInSeq(s, IsEnd) IN
           /\ n \in 0..Len(s)
           /\ n > 0 => IsEnd(s[n]) /\ \A i \in 1..n - 1 : ~IsEnd(s[i])
           /\ n = 0 => \A i \in 1..Len(s) : ~IsEnd(s[i])
<1> DEFINE I == {i \in 1..Len(s) : IsEnd(s[i])}
           n == SelectInSeq(s, IsEnd)
<1>1. n = IF I # {} THEN Min(I) ELSE 0
  BY DEF SelectInSeq
<1>2. Len(s) \in Nat /\ I \in SUBSET Nat
  OBVIOUS
<1>3. CASE I = {}
  BY <1>1, <1>2, <1>3
<1>4. CASE I # {}
  <2>1. \E i \in I : \A j \in I : i <= j
    <3> HIDE DEF I
    <3> QED
      BY <1>2, <1>4, NatMin
  <2>2. n \in I /\ \A j \in I : n <= j
    <3> HIDE DEF I, n
    <3> QED
      BY <1>1, <1>4, <2>1 DEF Min
  <2> HIDE DEF n
  <2>3. n \in 1..Len(s) /\ IsEnd(s[n])
    BY <2>2
  <2>4. \A i \in 1..n - 1 : ~IsEnd(s[i])
    <3> SUFFICES ASSUME NEW i \in 1..n - 1, IsEnd(s[i]) PROVE FALSE
      OBVIOUS
    <3>1. i \in I /\ i < n
      BY <1>2, <2>3
    <3>2. n <= i
      BY <2>2, <3>1
    <3> QED
      BY <1>2, <2>3, <3>1, <3>2
  <2>5. /\ n \in 0..Len(s) /\ n > 0 /\ ~(n = 0)
        /\ IsEnd(s[n]) /\ \A i \in 1..n - 1 : ~IsEnd(s[i])
    BY <1>2, <2>3, <2>4
  <2> QED
    BY <2>5 DEF n
<1> QED
  BY <1>3, <1>4

\* What ReadItem yields, and that it keeps the invariant.
LEMMA ReadItemKeeps ==
    ASSUME StreamInv, ReadItem
    PROVE  /\ TypeOK' /\ Gone' /\ Ascending' /\ WholeFrames'
           /\ \E y \in Int : items' = Append(items, y)
<1> USE DEF StreamInv
<1>1. PICK P : P = Pipe /\ P = wire
  BY PipeTyped DEF ReadItem
<1>2. /\ P \in Seq(OnWire) /\ P # <<>> /\ Len(P) \in Nat \ {0}
      /\ protocol = "GRPC" /\ OnWire = Nat /\ client = "reading"
      /\ UNCHANGED <<protocol, log, closed, since, cursor, forwarding, client, buf, split,
                     cut, lagged, refused>>
  <2>1. P \in Seq(OnWire) /\ P # <<>>
    BY <1>1, PipeTyped DEF ReadItem
  <2> QED
    BY <2>1 DEF ReadItem, OnWire, queueVars
<1>3. /\ Head(wire) = P[1] /\ P[1] \in Nat
      /\ wire' = Tail(P) /\ Tail(P) \in Seq(OnWire) /\ Tail(P) = SubSeq(P, 1 + 1, Len(P))
      /\ items' = Append(items, P[1]) /\ Item(P[1]) = P[1] /\ Ends(P[1])
  <2>1. Head(wire) = P[1] /\ P[1] \in Nat /\ Tail(P) \in Seq(OnWire)
    BY <1>1, <1>2
  <2>2. items \o <<P[1]>> = Append(items, P[1])
    <3>1. items \in Seq(Int) /\ P[1] \in Int
      BY <2>1 DEF TypeOK
    <3> QED
      BY <3>1
  <2>3. Tail(P) = SubSeq(P, 1 + 1, Len(P))
    <3>1. /\ Len(Tail(P)) = Len(P) - 1
          /\ \A i \in 1..Len(P) - 1 : Tail(P)[i] = P[i + 1]
      BY <1>2, TailOf
    <3>2. /\ SubSeq(P, 1 + 1, Len(P)) \in Seq(OnWire)
          /\ Len(SubSeq(P, 1 + 1, Len(P))) = Len(P) - 1
          /\ \A i \in 1..Len(P) - 1 : SubSeq(P, 1 + 1, Len(P))[i] = P[1 + i]
      <4>1. 1 \in 0..Len(P)
        BY <1>2
      <4> QED
        BY <1>2, <4>1, SuffixOf
    <3>3. PICK Q \in Seq(OnWire) : Q = SubSeq(P, 1 + 1, Len(P))
      BY <3>2
    <3>4. \A i \in 1..Len(P) - 1 : 1 + i = i + 1
      OBVIOUS
    <3> QED
      BY <1>2, <2>1, <3>1, <3>2, <3>3, <3>4
  <2> QED
    BY <1>1, <1>2, <2>1, <2>2, <2>3 DEF ReadItem, Yield, Item, Ends
<1>4. PICK Q : Q = SubSeq(P, 1 + 1, Len(P))
  OBVIOUS
<1>5. Q = Pipe'
  <2>1. buf' = <<>> /\ wire' = Q
    BY <1>2, <1>3, <1>4 DEF TypeOK
  <2>2. <<>> \o Q = Q
    BY <1>3, <1>4
  <2> QED
    BY <2>1, <2>2 DEF Pipe
<1>6. TypeOK'
  <2>1. OnWire' = OnWire
    BY <1>2 DEF OnWire
  <2>2. items' \in Seq(Int)
    BY <1>3 DEF TypeOK
  <2> QED
    BY <1>2, <1>3, <2>1, <2>2 DEF TypeOK
<1>7. Ascending'
  <2>1. 1 \in 1..Len(P) /\ P[1] \in Int
    BY <1>2, <1>3
  <2> QED
    BY <1>1, <1>2, <1>3, <1>4, <1>5, <2>1, TakenInOrder
<1>8. WholeFrames'
  <2>1. 1 \in 1..Len(P) /\ \A i \in 1..1 - 1 : ~Ends(P[i])
    BY <1>2
  <2>2. /\ Framed(P) /\ Linked(P) /\ NoGaps
        /\ \A a \in 1..Len(items) : items[a] # Mixture
    BY <1>1, <1>2 DEF WholeFrames
  <2> QED
    BY <1>1, <1>2, <1>3, <1>4, <1>5, <2>1, <2>2, TakenWhole
<1> QED
  BY <1>2, <1>3, <1>6, <1>7, <1>8 DEF Gone

\* What the characters up to an end parse as.
LEMMA ParsedAs ==
    ASSUME protocol # "GRPC", NEW text \in Seq(Char), NEW n \in Nat \ {0}, n = Len(text),
           NEW new \in Parses(text)
    PROVE  /\ \/ new = <<>>
              \/ \E y \in Int : new = <<y>> /\ (y > 0 => y = text[n][2])
           /\ (text[1][1] = "start" /\ \A i \in 1..n : text[i][2] = text[1][2]) =>
                \E y \in {text[1][2], Error} : new = <<y>>
<1> DEFINE x == text[1][2]
<1>1. text[1] \in Char /\ text[n] \in Char
  OBVIOUS
<1>2. x \in Nat
  BY <1>1 DEF Char
<1>3. CASE text[1][1] # "start"
  BY <1>3 DEF Parses
<1>4. CASE text[1][1] = "start" /\ text = Frame(x)
  <2>1. new = <<x>>
    BY <1>4 DEF Parses
  <2>2. IsSegment(Frame(x), x)
    BY <1>2, SegmentIs
  <2>3. Item(text[n]) = x
    BY <1>4, <2>2 DEF IsSegment
  <2>4. text[n][2] = x
    BY <2>3 DEF Item
  <2> HIDE DEF x
  <2> QED
    BY <1>2, <2>1, <2>4 DEF x
<1>5. CASE text[1][1] = "start" /\ \A i \in DOMAIN text : text[i][2] = text[1][2]
  <2>1. new \in {<<x>>, <<Error>>}
    BY <1>5 DEF Parses
  <2>2. text[n][2] = x
    BY <1>5
  <2>3. Error \in Int /\ ~(Error > 0)
    BY DEF Error
  <2> QED
    BY <1>2, <2>1, <2>2, <2>3
<1>6. CASE /\ text[1][1] = "start" /\ text # Frame(x)
           /\ ~\A i \in DOMAIN text : text[i][2] = text[1][2]
  <2>1. new \in {<<Mixture>>, <<Error>>}
    BY <1>6 DEF Parses
  <2>2. Mixture \in Int /\ ~(Mixture > 0) /\ Error \in Int /\ ~(Error > 0)
    BY DEF Mixture, Error
  <2>3. ~\A i \in 1..n : text[i][2] = text[1][2]
    BY <1>6
  <2> QED
    BY <2>1, <2>2, <2>3
<1> QED
  BY <1>3, <1>4, <1>5, <1>6

\* What Extract yields, and that it keeps the invariant.
LEMMA ExtractKeeps ==
    ASSUME StreamInv, Extract
    PROVE  /\ TypeOK' /\ Gone' /\ Ascending' /\ WholeFrames'
           /\ UNCHANGED items \/ \E y \in Int : items' = Append(items, y)
<1> USE DEF StreamInv
<1>1. PICK P : P = Pipe
  OBVIOUS
<1>2. PICK n : n = SelectInSeq(buf, IsEnd)
  OBVIOUS
<1>3. /\ UNCHANGED <<protocol, log, closed, since, cursor, forwarding, wire, client, split,
                     cut, lagged, refused>>
      /\ client = "reading" /\ n > 0
      /\ buf' = SubSeq(buf, n + 1, Len(buf))
  BY <1>2 DEF Extract, Rest, queueVars
<1>4. PICK new \in Parses(SubSeq(buf, 1, n)) : items' = items \o new
  BY <1>2 DEF Extract, Yield
<1>5. buf \in Seq(Char) /\ Len(buf) \in Nat
  BY DEF TypeOK
<1>6. /\ n \in 1..Len(buf) /\ n \in Nat \ {0} /\ buf[n][1] = "end"
      /\ \A i \in 1..n - 1 : buf[i][1] # "end"
  <2>1. n \in 0..Len(buf) /\ IsEnd(buf[n]) /\ \A i \in 1..n - 1 : ~IsEnd(buf[i])
    BY <1>2, <1>3, <1>5, FirstEnd
  <2> QED
    BY <1>3, <1>5, <2>1 DEF IsEnd
<1>7. protocol # "GRPC"
  <2>1. Len(<<>>) = 0
    OBVIOUS
  <2> QED
    BY <1>6, <2>1 DEF TypeOK
<1>8. /\ OnWire = Char /\ OnWire' = Char /\ wire \in Seq(Char)
      /\ \A c : Item(c) = c[2] /\ (Ends(c) <=> c[1] = "end") /\ (Starts(c) <=> c[1] = "start")
  BY <1>3, <1>7 DEF OnWire, TypeOK, Item, Ends, Starts
<1>9. /\ P \in Seq(Char) /\ Len(P) = Len(buf) + Len(wire) /\ Len(wire) \in Nat
      /\ \A i \in 1..Len(buf) : P[i] = buf[i]
      /\ \A i \in 1..Len(wire) : P[Len(buf) + i] = wire[i]
  BY <1>1, <1>8, PipeTyped
<1>10. PICK text : /\ text = SubSeq(buf, 1, n) /\ text \in Seq(Char) /\ Len(text) = n
                   /\ \A i \in 1..n : text[i] = buf[i]
  <2>1. n \in 0..Len(buf)
    BY <1>5, <1>6
  <2> QED
    BY <1>5, <2>1, PrefixOf, ZenonT(40)
<1>11. PICK b : /\ b = buf' /\ b \in Seq(Char) /\ Len(b) = Len(buf) - n
                /\ \A i \in 1..Len(buf) - n : b[i] = buf[n + i]
  <2>1. n \in 0..Len(buf)
    BY <1>5, <1>6
  <2>2. PICK b : b = SubSeq(buf, n + 1, Len(buf))
    OBVIOUS
  <2>3. /\ b \in Seq(Char) /\ Len(b) = Len(buf) - n
        /\ \A i \in 1..Len(buf) - n : b[i] = buf[n + i]
    BY <1>5, <2>1, <2>2, SuffixOf
  <2>4. b = buf'
    BY <1>3, <2>2
  <2> QED
    BY <2>3, <2>4
<1>12. PICK Q : Q = SubSeq(P, n + 1, Len(P))
  OBVIOUS
<1>13. n \in 1..Len(P) /\ n \in 0..Len(P)
  BY <1>5, <1>6, <1>9
<1>14. /\ Q \in Seq(Char) /\ Len(Q) = Len(P) - n
       /\ \A i \in 1..Len(P) - n : Q[i] = P[n + i]
  BY <1>9, <1>12, <1>13, SuffixOf
<1>15. Q = Pipe'
  <2>1. PICK R : R = b \o wire
    OBVIOUS
  <2>2. /\ R \in Seq(Char) /\ Len(R) = Len(b) + Len(wire) /\ Len(b) \in Nat
        /\ \A i \in 1..Len(b) : R[i] = b[i]
        /\ \A i \in 1..Len(wire) : R[Len(b) + i] = wire[i]
        /\ \A i \in 1..Len(b) + Len(wire) :
             i \in 1..Len(b) \/ \E k \in 1..Len(wire) : i = Len(b) + k
    <3>1. PICK w : w = wire
      OBVIOUS
    <3>2. b \in Seq(Char) /\ w \in Seq(Char)
      BY <1>8, <1>11, <3>1
    <3>3. R = b \o w
      BY <2>1, <3>1
    <3>4. /\ R \in Seq(Char) /\ Len(R) = Len(b) + Len(w) /\ Len(b) \in Nat
          /\ \A i \in 1..Len(b) : R[i] = b[i]
          /\ \A i \in 1..Len(w) : R[Len(b) + i] = w[i]
          /\ \A i \in 1..Len(b) + Len(w) :
               i \in 1..Len(b) \/ \E k \in 1..Len(w) : i = Len(b) + k
      BY ONLY <3>2, <3>3, ConcatOf
    <3> QED
      BY <3>1, <3>4
  <2>3. Len(R) = Len(Q)
    BY <1>5, <1>6, <1>9, <1>11, <1>14, <2>2
  <2>4. ASSUME NEW i \in 1..Len(R)
        PROVE  R[i] = Q[i]
    <3>1. Q[i] = P[n + i]
      BY <1>14, <2>3
    <3>2. CASE i \in 1..Len(b)
      <4>1. i \in 1..Len(buf) - n /\ n + i \in 1..Len(buf)
        BY <1>5, <1>6, <1>11, <3>2
      <4> QED
        BY <1>9, <1>11, <2>2, <3>1, <3>2, <4>1
    <3>3. ASSUME NEW k \in 1..Len(wire), i = Len(b) + k
          PROVE  R[i] = Q[i]
      <4>1. n + i = Len(buf) + k
        BY <1>5, <1>6, <1>9, <1>11, <3>3
      <4> QED
        BY <1>9, <2>2, <3>1, <3>3, <4>1
    <3> QED
      BY <2>2, <3>2, <3>3
  <2>5. R = Q
    BY <1>14, <2>2, <2>3, <2>4, SameElements
  <2> QED
    BY <1>3, <1>11, <2>1, <2>5 DEF Pipe
<1>16. \/ new = <<>>
       \/ \E y \in Int : new = <<y>> /\ (y > 0 => y = text[n][2])
  BY <1>4, <1>6, <1>7, <1>10, ParsedAs, ZenonT(40)
<1>17. (text[1][1] = "start" /\ \A i \in 1..n : text[i][2] = text[1][2]) =>
          \E y \in {text[1][2], Error} : new = <<y>>
  BY <1>4, <1>6, <1>7, <1>10, ParsedAs
<1>18. items \in Seq(Int) /\ \A y \in Int : items \o <<y>> = Append(items, y)
  BY DEF TypeOK
<1>19. \/ UNCHANGED items
       \/ \E y \in Int : items' = Append(items, y) /\ (y > 0 => y = Item(P[n]))
  <2>1. CASE new = <<>>
    <3>1. items \o <<>> = items
      BY <1>18
    <3> QED
      BY <1>4, <2>1, <3>1
  <2>2. ASSUME NEW y \in Int, new = <<y>>, y > 0 => y = text[n][2]
        PROVE  items' = Append(items, y) /\ (y > 0 => y = Item(P[n]))
    <3>1. items' = Append(items, y)
      BY <1>4, <1>18, <2>2
    <3>2. text[n] = P[n] /\ Item(P[n]) = P[n][2]
      BY <1>6, <1>8, <1>9, <1>10
    <3> QED
      BY <2>2, <3>1, <3>2
  <2> QED
    BY <1>16, <2>1, <2>2
<1>20. Ends(P[n]) /\ \A i \in 1..n - 1 : ~Ends(P[i])
  <2>1. \A i \in 1..n : i \in 1..Len(buf) /\ P[i] = buf[i]
    BY <1>5, <1>6, <1>9
  <2>2. n \in 1..n /\ \A i \in 1..n - 1 : i \in 1..n
    BY <1>6
  <2> QED
    BY <1>6, <1>8, <2>1, <2>2
<1>21. TypeOK'
  <2>1. items' \in Seq(Int)
    BY <1>18, <1>19
  <2> QED
    BY <1>3, <1>7, <1>8, <1>11, <2>1 DEF TypeOK
<1>22. Ascending'
  BY <1>1, <1>3, <1>12, <1>13, <1>15, <1>19, <1>20, TakenInOrder
<1>23. ASSUME ~(split /\ protocol = "JSONRPC")
       PROVE  WholeFrames'
  <2>1. /\ Framed(P) /\ Linked(P) /\ NoGaps
        /\ \A a \in 1..Len(items) : items[a] # Mixture
    BY <1>1, <1>23 DEF WholeFrames
  <2>2. /\ text[1][1] = "start"
        /\ \A i \in 1..n : text[i][2] = text[1][2]
    <3>1. \A i \in 1..n : i \in 1..Len(P) /\ text[i] = P[i]
      <4> TAKE i \in 1..n
      <4>1. i \in 1..Len(buf) /\ i \in 1..Len(P)
        BY <1>5, <1>6, <1>9
      <4> QED
        BY <1>9, <1>10, <4>1
    <3>2. 1 \in 1..n /\ P # <<>>
      BY <1>6, <1>13
    <3>3. text[1][1] = "start"
      BY <1>8, <2>1, <3>1, <3>2 DEF Framed
    <3>4. ASSUME NEW i \in 1..n
          PROVE  text[i][2] = text[1][2]
      <4>1. CASE i = 1
        BY <4>1
      <4>2. CASE i # 1
        <5>1. 1 < i /\ 1 \in 1..Len(P) /\ i \in 1..Len(P)
          BY <3>1, <3>2, <4>2
        <5>2. \A k \in 1..i - 1 : ~Ends(P[k])
          BY <1>6, <1>20
        <5>3. Item(P[1]) = Item(P[i])
          BY <2>1, <5>1, <5>2 DEF Framed
        <5> QED
          BY <1>8, <3>1, <3>2, <5>3
      <4> QED
        BY <4>1, <4>2
    <3> QED
      BY <3>3, <3>4
  <2>3. PICK y \in {text[1][2], Error} : new = <<y>>
    BY <1>17, <2>2
  <2>4. text[1] = P[1] /\ text[1] \in Char /\ Item(P[1]) = P[1][2]
    <3>1. 1 \in 1..n /\ 1 \in 1..Len(buf)
      BY <1>5, <1>6
    <3> QED
      BY <1>8, <1>9, <1>10, <3>1
  <2>5. y \in {Item(P[1]), Error} /\ y \in Int
    BY <2>4 DEF Char, Error
  <2>6. items' = Append(items, y)
    BY <1>4, <1>18, <2>3, <2>5
  <2> QED
    BY <1>1, <1>3, <1>12, <1>13, <1>15, <1>20, <2>1, <2>5, <2>6, TakenWhole
<1>24. WholeFrames'
  BY <1>3, <1>23 DEF WholeFrames
<1> QED
  BY <1>3, <1>19, <1>21, <1>22, <1>24 DEF Gone

\* A chunk whose characters keep their places leaves what is under way as it was.
LEMMA ReshapedKeeps ==
    ASSUME StreamInv, NEW Q, Q = Pipe', Len(Q) = Len(Pipe),
           \A i \in 1..Len(Q) : /\ Item(Q[i]) = Item(Pipe[i])
                                /\ Ends(Q[i]) <=> Ends(Pipe[i])
                                /\ Starts(Q[i]) <=> Starts(Pipe[i]),
           Q \in Seq(OnWire),
           UNCHANGED <<protocol, log, cursor, forwarding, client, items>>
    PROVE  Ascending' /\ (Framed(Pipe) /\ Linked(Pipe) /\ NoGaps
                           /\ (\A a \in 1..Len(items) : items[a] # Mixture) => WholeFrames')
<1> USE DEF StreamInv
<1>1. PICK P : P = Pipe
  OBVIOUS
<1>2. PICK m \in Nat : /\ m = Len(P) /\ m = Len(Q) /\ P \in Seq(OnWire)
                       /\ (P = <<>> <=> m = 0) /\ (Q = <<>> <=> m = 0)
  <2>1. P \in Seq(OnWire)
    BY <1>1, PipeTyped
  <2> QED
    BY <1>1, <2>1
<1>3. \A i \in 1..m : /\ Item(Q[i]) = Item(P[i])
                      /\ Ends(Q[i]) <=> Ends(P[i])
                      /\ Starts(Q[i]) <=> Starts(P[i])
  BY <1>1, <1>2
<1>4. InOrder(Q)
  BY <1>1, <1>2, <1>3 DEF Ascending, InOrder
<1>5. Ascending'
  <2>1. \A i \in 1..Len(Q) :
             /\ Item(Q[i]) \in 0..cursor'
             /\ Item(Q[i]) > 0 => \A a \in 1..Len(items') : items'[a] < Item(Q[i])
    BY <1>1, <1>2, <1>3 DEF Ascending
  <2> QED
    BY <1>4, <2>1, AscendingNext DEF Ascending
<1>6. ASSUME Framed(P), Linked(P), NoGaps, \A a \in 1..Len(items) : items[a] # Mixture
      PROVE  WholeFrames'
  <2>1. Framed(Q)
    <3>1. Q # <<>> => Starts(Q[1]) /\ Ends(Q[m])
      <4>1. m # 0 => 1 \in 1..m /\ m \in 1..m
        OBVIOUS
      <4> QED
        BY <1>2, <1>3, <1>6, <4>1 DEF Framed
    <3>2. ASSUME NEW i \in 1..m - 1, Ends(Q[i])
          PROVE  /\ Starts(Q[i + 1])
                 /\ (Item(Q[i]) > 0 /\ Item(Q[i + 1]) > 0)
                      => ~Missing(Item(Q[i]), Item(Q[i + 1]))
      <4>1. i \in 1..m /\ i + 1 \in 1..m
        OBVIOUS
      <4>2. Ends(P[i])
        BY <1>3, <3>2, <4>1
      <4> QED
        BY <1>2, <1>3, <1>6, <4>1, <4>2 DEF Framed
    <3>3. ASSUME NEW i \in 1..m, NEW j \in 1..m, i < j, \A k \in i..j - 1 : ~Ends(Q[k])
          PROVE  Item(Q[i]) = Item(Q[j])
      <4>1. \A k \in i..j - 1 : ~Ends(P[k])
        <5>1. \A k \in i..j - 1 : k \in 1..m
          OBVIOUS
        <5> QED
          BY <1>3, <3>3, <5>1
      <4>2. Item(P[i]) = Item(P[j])
        BY <1>2, <1>6, <3>3, <4>1 DEF Framed
      <4> QED
        BY <1>3, <4>2
    <3> QED
      BY <1>2, <3>1, <3>2, <3>3 DEF Framed
  <2>2. /\ \A c : Item(c)' = Item(c)
        /\ \A i, j : Missing(i, j)' <=> Missing(i, j)
    BY SamePath
  <2>3. Linked(Q)'
    <3>1. LastItem' = LastItem /\ (EndsWell' <=> EndsWell)
      BY DEF LastItem, EndsWell
    <3>2. m # 0 => Item(Q[1]) = Item(P[1]) /\ Item(Q[m]) = Item(P[m])
      BY <1>3
    <3> QED
      BY <1>2, <1>6, <2>2, <3>1, <3>2 DEF Linked
  <2>4. NoGaps'
    BY <1>6, <2>2 DEF NoGaps
  <2> QED
    BY <1>6, <2>1, <2>3, <2>4, WholeNext
<1> QED
  BY <1>1, <1>5, <1>6

\* What a client makes of a chunk: its characters in their places, or nothing.
LEMMA DecodedAs ==
    ASSUME protocol # "GRPC", NEW chunk \in Seq(Char)
    PROVE  /\ Decode(chunk) \in Seq(Char)
           /\ \/ /\ Len(Decode(chunk)) = Len(chunk)
                 /\ \A i \in 1..Len(chunk) :
                      /\ Item(Decode(chunk)[i]) = Item(chunk[i])
                      /\ Ends(Decode(chunk)[i]) <=> Ends(chunk[i])
                      /\ Starts(Decode(chunk)[i]) <=> Starts(chunk[i])
              \/ Decode(chunk) = <<>> /\ protocol = "JSONRPC" /\ ~Whole(chunk)
<1> DEFINE Broken(i) == \/ chunk[i][1] = "lead" /\ i = Len(chunk)
                        \/ chunk[i][1] = "cont" /\ i = 1
           d == [i \in DOMAIN chunk |->
                   IF Broken(i) THEN <<"broken", chunk[i][2]>> ELSE chunk[i]]
<1>1. PICK n \in Nat : n = Len(chunk) /\ DOMAIN chunk = 1..n
  OBVIOUS
<1>2. \A i \in 1..n : chunk[i] \in Char
  BY <1>1
<1>3. d \in Seq(Char) /\ Len(d) = n
  <2>1. d \in [1..n -> Char]
    BY <1>1, <1>2 DEF Char
  <2> HIDE DEF d
  <2> QED
    BY <2>1
<1>4. \A i \in 1..n : /\ d[i][2] = chunk[i][2]
                      /\ d[i][1] = "end" <=> chunk[i][1] = "end"
                      /\ d[i][1] = "start" <=> chunk[i][1] = "start"
  <2> SUFFICES ASSUME NEW i \in 1..n
               PROVE  /\ d[i][2] = chunk[i][2]
                      /\ d[i][1] = "end" <=> chunk[i][1] = "end"
                      /\ d[i][1] = "start" <=> chunk[i][1] = "start"
    OBVIOUS
  <2>1. d[i] = IF Broken(i) THEN <<"broken", chunk[i][2]>> ELSE chunk[i]
    BY <1>1
  <2>2. Broken(i) => chunk[i][1] \in {"lead", "cont"}
    OBVIOUS
  <2> HIDE DEF Broken, d
  <2> QED
    BY <2>1, <2>2
<1>5. \A c : Item(c) = c[2] /\ (Ends(c) <=> c[1] = "end") /\ (Starts(c) <=> c[1] = "start")
  BY DEF Item, Ends, Starts
<1>6. Decode(chunk) = IF Whole(chunk) THEN chunk
                      ELSE IF protocol = "JSONRPC" THEN <<>> ELSE d
  BY DEF Decode
<1> HIDE DEF d
<1> QED
  BY <1>1, <1>3, <1>4, <1>5, <1>6

\* A chunk moves from the wire to the buffer, whole unless it is split.
LEMMA ReadChunkKeeps ==
    ASSUME StreamInv, ReadChunk
    PROVE  TypeOK' /\ Gone' /\ Ascending' /\ WholeFrames'
<1> USE DEF StreamInv
<1>1. PICK n \in 1..Len(wire) :
         /\ buf' = buf \o Decode(SubSeq(wire, 1, n))
         /\ split' = (split \/ ~Whole(SubSeq(wire, 1, n)))
         /\ wire' = SubSeq(wire, n + 1, Len(wire))
  BY DEF ReadChunk
<1>2. /\ UNCHANGED <<protocol, log, closed, since, cursor, forwarding, client, items,
                     cut, lagged, refused>>
      /\ protocol # "GRPC" /\ client = "reading"
  BY DEF ReadChunk, queueVars
<1>3. /\ OnWire = Char /\ OnWire' = Char
      /\ wire \in Seq(Char) /\ buf \in Seq(Char) /\ Len(wire) \in Nat /\ Len(buf) \in Nat
  BY <1>2 DEF OnWire, TypeOK
<1>4. n \in 0..Len(wire) /\ n \in Nat
  BY <1>3
<1>5. PICK chunk : chunk = SubSeq(wire, 1, n)
  OBVIOUS
<1>6. chunk \in Seq(Char) /\ Len(chunk) = n /\ \A i \in 1..n : chunk[i] = wire[i]
  BY <1>3, <1>4, <1>5, PrefixOf
<1>7. PICK w : w = SubSeq(wire, n + 1, Len(wire))
  OBVIOUS
<1>8. w \in Seq(Char) /\ Len(w) = Len(wire) - n /\ \A i \in 1..Len(wire) - n : w[i] = wire[n + i]
  BY <1>3, <1>4, <1>7, SuffixOf
<1>9. PICK d : d = Decode(chunk)
  OBVIOUS
<1>10. /\ d \in Seq(Char)
       /\ \/ /\ Len(d) = n
             /\ \A i \in 1..n : /\ Item(d[i]) = Item(chunk[i])
                                /\ Ends(d[i]) <=> Ends(chunk[i])
                                /\ Starts(d[i]) <=> Starts(chunk[i])
          \/ d = <<>> /\ protocol = "JSONRPC" /\ ~Whole(chunk)
  BY <1>2, <1>6, <1>9, DecodedAs
<1>11. PICK b : b = buf \o d
  OBVIOUS
<1>12. /\ b \in Seq(Char) /\ Len(b) = Len(buf) + Len(d) /\ Len(d) \in Nat
       /\ \A i \in 1..Len(buf) : b[i] = buf[i]
       /\ \A i \in 1..Len(d) : b[Len(buf) + i] = d[i]
       /\ \A i \in 1..Len(buf) + Len(d) :
            i \in 1..Len(buf) \/ \E k \in 1..Len(d) : i = Len(buf) + k
  <2>1. PICK a : a = buf
    OBVIOUS
  <2>2. a \in Seq(Char) /\ d \in Seq(Char)
    BY <1>3, <1>10, <2>1
  <2>3. b = a \o d
    BY <1>11, <2>1
  <2>4. /\ b \in Seq(Char) /\ Len(b) = Len(a) + Len(d) /\ Len(d) \in Nat
        /\ \A i \in 1..Len(a) : b[i] = a[i]
        /\ \A i \in 1..Len(d) : b[Len(a) + i] = d[i]
        /\ \A i \in 1..Len(a) + Len(d) :
             i \in 1..Len(a) \/ \E k \in 1..Len(d) : i = Len(a) + k
    BY ONLY <2>2, <2>3, ConcatOf
  <2> QED
    BY <2>1, <2>4
<1>13. PICK Q : Q = b \o w
  OBVIOUS
<1>14. /\ Q \in Seq(Char) /\ Len(Q) = Len(b) + Len(w)
       /\ \A i \in 1..Len(b) : Q[i] = b[i]
       /\ \A i \in 1..Len(w) : Q[Len(b) + i] = w[i]
       /\ \A i \in 1..Len(b) + Len(w) :
            i \in 1..Len(b) \/ \E k \in 1..Len(w) : i = Len(b) + k
  <2>1. b \in Seq(Char) /\ w \in Seq(Char)
    BY <1>8, <1>12
  <2> QED
    BY ONLY <1>13, <2>1, ConcatOf
<1>15. buf' = b /\ wire' = w /\ Q = Pipe'
  BY <1>1, <1>5, <1>7, <1>9, <1>11, <1>13 DEF Pipe
<1>16. TypeOK'
  BY <1>1, <1>2, <1>3, <1>8, <1>12, <1>15 DEF TypeOK
<1>17. PICK P : P = Pipe
  OBVIOUS
<1>18. /\ P \in Seq(Char) /\ Len(P) = Len(buf) + Len(wire)
       /\ \A i \in 1..Len(buf) : P[i] = buf[i]
       /\ \A i \in 1..Len(wire) : P[Len(buf) + i] = wire[i]
  BY <1>3, <1>17, PipeTyped
<1>19. CASE /\ Len(d) = n
            /\ \A i \in 1..n : /\ Item(d[i]) = Item(chunk[i])
                               /\ Ends(d[i]) <=> Ends(chunk[i])
                               /\ Starts(d[i]) <=> Starts(chunk[i])
  <2>1. Len(Q) = Len(P)
    BY <1>3, <1>4, <1>8, <1>12, <1>14, <1>18, <1>19
  <2>2. ASSUME NEW i \in 1..Len(Q)
        PROVE  /\ Item(Q[i]) = Item(P[i])
               /\ Ends(Q[i]) <=> Ends(P[i])
               /\ Starts(Q[i]) <=> Starts(P[i])
    <3>1. CASE i \in 1..Len(buf)
      <4>1. i \in 1..Len(b)
        BY <1>3, <1>12, <3>1
      <4> QED
        BY <1>12, <1>14, <1>18, <3>1, <4>1
    <3>2. ASSUME NEW k \in 1..Len(d), i = Len(buf) + k
          PROVE  /\ Item(Q[i]) = Item(P[i])
                 /\ Ends(Q[i]) <=> Ends(P[i])
                 /\ Starts(Q[i]) <=> Starts(P[i])
      <4>1. k \in 1..n /\ k \in 1..Len(wire) /\ i \in 1..Len(b)
        BY <1>3, <1>4, <1>12, <1>19, <3>2
      <4>2. Q[i] = d[k] /\ P[i] = chunk[k]
        BY <1>6, <1>12, <1>14, <1>18, <3>2, <4>1
      <4> QED
        BY <1>19, <4>1, <4>2
    <3>3. ASSUME NEW k \in 1..Len(w), i = Len(b) + k
          PROVE  /\ Item(Q[i]) = Item(P[i])
                 /\ Ends(Q[i]) <=> Ends(P[i])
                 /\ Starts(Q[i]) <=> Starts(P[i])
      <4>1. i = Len(buf) + (n + k) /\ n + k \in 1..Len(wire)
        <5>1. Len(b) = Len(buf) + n /\ Len(w) = Len(wire) - n
          BY <1>8, <1>12, <1>19
        <5>2. PICK x, y \in Nat : x = Len(buf) /\ y = Len(wire)
          BY <1>3
        <5>3. k \in 1..y - n /\ i = (x + n) + k
          BY <3>3, <5>1, <5>2
        <5>4. i = x + (n + k) /\ n + k \in 1..y
          BY <1>4, <5>2, <5>3
        <5> QED
          BY <5>2, <5>4
      <4>2. Q[i] = w[k] /\ P[i] = w[k]
        BY <1>8, <1>14, <1>18, <3>3, <4>1
      <4> QED
        BY <4>2
    <3>4. \/ i \in 1..Len(buf)
          \/ \E k \in 1..Len(d) : i = Len(buf) + k
          \/ \E k \in 1..Len(w) : i = Len(b) + k
      BY <1>12, <1>14
    <3> QED
      BY <3>1, <3>2, <3>3, <3>4
  <2>3. Ascending' /\ (Framed(P) /\ Linked(P) /\ NoGaps
                        /\ (\A a \in 1..Len(items) : items[a] # Mixture) => WholeFrames')
    BY <1>2, <1>3, <1>14, <1>15, <1>17, <2>1, <2>2, ReshapedKeeps
  <2>4. (split /\ protocol = "JSONRPC") => WholeFrames'
    BY <1>1, <1>2 DEF WholeFrames
  <2>5. WholeFrames'
    BY <1>17, <2>3, <2>4 DEF WholeFrames
  <2> QED
    BY <1>2, <1>16, <2>3, <2>5 DEF Gone
<1>20. CASE d = <<>> /\ protocol = "JSONRPC" /\ ~Whole(chunk)
  <2>1. split' /\ WholeFrames'
    BY <1>1, <1>2, <1>5, <1>20 DEF WholeFrames
  <2>2. Len(d) = 0 /\ Len(b) = Len(buf)
    BY <1>3, <1>12, <1>20
  <2> DEFINE at == [i \in 1..Len(Q) |-> IF i <= Len(buf) THEN i ELSE n + i]
  <2>3. /\ Len(Q) = Len(buf) + (Len(wire) - n) /\ Len(Q) \in Nat
        /\ at \in [1..Len(Q) -> 1..Len(P)]
        /\ \A i \in 1..Len(Q) : at[i] = IF i <= Len(buf) THEN i ELSE n + i
    BY <1>3, <1>4, <1>8, <1>14, <1>18, <2>2, SMTT(30)
  <2> HIDE DEF at
  <2>4. \A i, j \in 1..Len(Q) : i < j => at[i] < at[j]
    BY <1>3, <1>4, <2>3
  <2>5. ASSUME NEW i \in 1..Len(Q)
        PROVE  Q[i] = P[at[i]]
    <3>1. CASE i \in 1..Len(buf)
      <4>1. at[i] = i
        BY <1>3, <2>3, <3>1
      <4>2. Q[i] = b[i] /\ b[i] = buf[i]
        BY <1>12, <1>14, <2>2, <3>1
      <4> QED
        BY <1>18, <3>1, <4>1, <4>2
    <3>2. CASE i \notin 1..Len(buf)
      <4>1. PICK k \in 1..Len(w) : i = Len(b) + k
        BY <1>14, <2>2, <3>2
      <4>2. at[i] = Len(buf) + (n + k) /\ n + k \in 1..Len(wire) /\ k \in 1..Len(wire) - n
        BY <1>3, <1>4, <1>8, <2>2, <2>3, <4>1
      <4>3. Q[i] = w[k] /\ w[k] = wire[n + k]
        BY <1>8, <1>14, <4>1, <4>2
      <4>4. P[at[i]] = wire[n + k]
        BY <1>18, <4>2
      <4> QED
        BY <4>3, <4>4
    <3> QED
      BY <3>1, <3>2
  <2>6. /\ InOrder(P)
        /\ \A i \in 1..Len(P) :
             /\ Item(P[i]) \in 0..cursor
             /\ Item(P[i]) > 0 => \A a \in 1..Len(items) : items[a] < Item(P[i])
    BY <1>17 DEF Ascending
  <2>7. InOrder(Q)
    BY <1>3, <1>14, <1>18, <2>3, <2>4, <2>5, <2>6, SelectionInOrder
  <2>8. \A i \in 1..Len(Q) :
          /\ Item(Q[i]) \in 0..cursor'
          /\ Item(Q[i]) > 0 => \A a \in 1..Len(items') : items'[a] < Item(Q[i])
    BY <1>2, <2>3, <2>5, <2>6
  <2>9. Ascending'
    BY <1>2, <1>15, <2>7, <2>8, AscendingNext DEF Ascending
  <2> QED
    BY <1>2, <1>16, <2>1, <2>9 DEF Gone
<1> QED
  BY <1>10, <1>19, <1>20

\* The client stops reading: what was under way is lost.
LEMMA EmptiedKeeps ==
    ASSUME StreamInv, client' \in {"ended", "left"}, buf' = <<>>, wire' = <<>>,
           UNCHANGED <<protocol, log, cursor, forwarding, split>>,
           client' = "ended" => ~forwarding,
           UNCHANGED items \/ items' = Append(items, Error)
    PROVE  Gone' /\ Ascending' /\ WholeFrames'
<1> USE DEF StreamInv
<1>1. Gone'
  BY DEF Gone
<1>2. PICK Q : Q = <<>>
  OBVIOUS
<1>3. Q = Pipe' /\ 1..Len(Q) = {} /\ 1..Len(Q) - 1 = {}
  <2>1. <<>> \o <<>> = <<>> /\ Len(<<>>) = 0
    OBVIOUS
  <2>2. 1..0 = {} /\ 1..0 - 1 = {}
    OBVIOUS
  <2> QED
    BY <1>2, <2>1, <2>2 DEF Pipe
<1>4. PICK m \in Nat : m = Len(items)
  BY DEF TypeOK
<1>5. /\ \A a, b \in 1..m : (a < b /\ items[a] > 0 /\ items[b] > 0) => items[a] < items[b]
      /\ \A a \in 1..m : items[a] <= cursor
      /\ cursor \in Nat
  BY <1>4 DEF Ascending, TypeOK
<1>6. CASE UNCHANGED items
  <2>1. Ascending'
    BY <1>3, <1>4, <1>5, <1>6, AscendingNext DEF InOrder
  <2>2. ASSUME ~(split /\ protocol = "JSONRPC")
        PROVE  WholeFrames'
    <3>1. NoGaps /\ \A a \in 1..Len(items) : items[a] # Mixture
      BY <2>2 DEF WholeFrames
    <3>2. NoGaps'
      BY <1>6, <3>1, SamePath DEF NoGaps
    <3>3. Framed(Q)
      BY <1>2, <1>3 DEF Framed
    <3>4. Linked(Q)'
      BY <1>2 DEF Linked
    <3> QED
      BY <1>3, <1>6, <3>1, <3>2, <3>3, <3>4, WholeNext
  <2>3. WholeFrames'
    BY <2>2 DEF WholeFrames
  <2> QED
    BY <1>1, <2>1, <2>3
<1>7. CASE items' = Append(items, Error)
  <2>1. /\ Len(items') = m + 1 /\ items'[m + 1] = 0
        /\ \A a \in 1..m : items'[a] = items[a]
        /\ \A a \in 1..m + 1 : a \in 1..m \/ a = m + 1
    <3>1. items \in Seq(Int) /\ Error \in Int /\ Error = 0
      BY DEF TypeOK, Error
    <3> QED
      BY <1>4, <1>7, <3>1
  <2>2. \A a, b \in 1..Len(items') :
          (a < b /\ items'[a] > 0 /\ items'[b] > 0) => items'[a] < items'[b]
    BY <1>5, <2>1
  <2>3. \A a \in 1..Len(items') : items'[a] <= cursor'
    BY <1>5, <2>1
  <2>4. Ascending'
    BY <1>3, <2>2, <2>3, AscendingNext DEF InOrder
  <2>5. ASSUME ~(split /\ protocol = "JSONRPC")
        PROVE  WholeFrames'
    <3>1. NoGaps /\ \A a \in 1..m : items[a] # Mixture
      BY <1>4, <2>5 DEF WholeFrames
    <3>2. ASSUME NEW a \in 1..m + 1, items'[a] > 0
          PROVE  IF a = 1 THEN ~Missing(0, items'[1])
                 ELSE items'[a - 1] > 0 => ~Missing(items'[a - 1], items'[a])
      <4>1. a \in 1..m
        BY <2>1, <3>2
      <4>2. items'[a] = items[a] /\ (a # 1 => a - 1 \in 1..m)
        BY <2>1, <4>1
      <4>3. a # 1 => items'[a - 1] = items[a - 1]
        BY <2>1, <4>2
      <4> QED
        BY <1>4, <3>1, <3>2, <4>1, <4>2, <4>3 DEF NoGaps
    <3>3. NoGaps'
      <4>1. \A i, j : Missing(i, j)' <=> Missing(i, j)
        BY SamePath
      <4> QED
        BY <2>1, <3>2, <4>1 DEF NoGaps
    <3>4. Framed(Q)
      BY <1>2, <1>3 DEF Framed
    <3>5. Linked(Q)'
      BY <1>2 DEF Linked
    <3>6. \A a \in 1..Len(items') : items'[a] # Mixture
      BY <2>1, <3>1 DEF Mixture
    <3> QED
      BY <1>3, <3>3, <3>4, <3>5, <3>6, WholeNext
  <2>6. WholeFrames'
    BY <2>5 DEF WholeFrames
  <2> QED
    BY <1>1, <2>4, <2>6
<1> QED
  BY <1>6, <1>7

\* Steps that move nothing; the server may let go of the queue.
LEMMA StillKeeps ==
    ASSUME StreamInv,
           UNCHANGED <<protocol, log, cursor, wire, client, buf, items, split>>,
           forwarding' \in {FALSE, forwarding}
    PROVE  Gone' /\ Ascending' /\ WholeFrames'
<1> USE DEF StreamInv
<1>1. Pipe' = Pipe
  BY DEF Pipe
<1>2. PICK P : P = Pipe
  OBVIOUS
<1>3. Gone'
  BY DEF Gone
<1>4. Ascending'
  BY <1>1, <1>2, AscendingNext DEF Ascending
<1>5. ASSUME ~(split /\ protocol = "JSONRPC")
      PROVE  WholeFrames'
  <2>1. Framed(P) /\ Linked(P) /\ NoGaps /\ \A a \in 1..Len(items) : items[a] # Mixture
    BY <1>2, <1>5 DEF WholeFrames
  <2>2. /\ \A c : Item(c)' = Item(c)
        /\ \A i, j : Missing(i, j)' <=> Missing(i, j)
    BY SamePath
  <2>3. LastItem' = LastItem /\ (EndsWell' <=> EndsWell)
    BY DEF LastItem, EndsWell
  <2>4. Linked(P)'
    <3>1. forwarding' => forwarding
      OBVIOUS
    <3>2. (P # <<>> /\ EndsWell' /\ Item(P[1])' > 0) => ~Missing(LastItem, Item(P[1]))'
      BY <2>1, <2>2, <2>3 DEF Linked
    <3>3. (forwarding' /\ client' = "reading") =>
            IF P = <<>> THEN EndsWell' => ~Missing(LastItem, cursor + 1)'
            ELSE Item(P[Len(P)])' > 0 => ~Missing(Item(P[Len(P)]), cursor + 1)'
      BY <2>1, <2>2, <2>3, <3>1 DEF Linked
    <3> QED
      BY <3>2, <3>3 DEF Linked
  <2>5. NoGaps'
    BY <2>1, <2>2 DEF NoGaps
  <2> QED
    BY <1>1, <1>2, <2>1, <2>4, <2>5, WholeNext
<1>6. WholeFrames'
  BY <1>5 DEF WholeFrames
<1> QED
  BY <1>3, <1>4, <1>6

\* An event sent later is missing from nothing the receiver is past.
LEMMA MissingAfterSend ==
    ASSUME TypeOK, NEW e \in Event, log' = Append(log, e), UNCHANGED protocol
    PROVE  \A i, j \in Int : j <= cursor + 1 => (Missing(i, j)' <=> Missing(i, j))
<1>1. PICK n \in Nat : /\ n = Len(log) /\ Len(log') = n + 1 /\ cursor \in 0..n
                       /\ \A k \in 1..n : log'[k] = log[k]
                       /\ DOMAIN log = 1..n /\ DOMAIN log' = 1..n + 1
  BY DEF TypeOK
<1>2. CarriedKinds' = CarriedKinds
  BY DEF CarriedKinds
<1>3. ASSUME NEW k \in Int, k <= cursor
      PROVE  Carried(k)' <=> Carried(k)
  <2>1. k \in 1..n + 1 <=> k \in 1..n
    BY <1>1, <1>3
  <2> QED
    BY <1>1, <1>2, <2>1 DEF Carried
<1> SUFFICES ASSUME NEW i \in Int, NEW j \in Int, j <= cursor + 1
             PROVE  Missing(i, j)' <=> Missing(i, j)
  OBVIOUS
<1>4. \A k \in i + 1..j - 1 : k \in Int /\ k <= cursor
  BY <1>1
<1> QED
  BY <1>3, <1>4 DEF Missing

\* A new event is behind everything the stream has seen.
LEMMA EmitKeeps ==
    ASSUME StreamInv, Emit
    PROVE  TypeOK' /\ Gone' /\ Ascending' /\ WholeFrames'
<1> USE DEF StreamInv
<1>1. PICK e \in Event : log' = Append(log, e)
  BY DEF Emit
<1>2. /\ UNCHANGED <<protocol, closed, cursor, forwarding, wire, client, buf, items, split, cut,
                     lagged, refused>>
      /\ since' \in Nat
  BY DEF Emit, clientVars, TypeOK
<1>3. TypeOK'
  <2>1. OnWire' = OnWire
    BY <1>2 DEF OnWire
  <2>2. log' \in Seq(Event) /\ cursor \in 0..Len(log')
    BY <1>1 DEF TypeOK
  <2> QED
    BY <1>2, <2>1, <2>2 DEF TypeOK
<1>4. PICK P : P = Pipe
  OBVIOUS
<1>5. P = Pipe' /\ P \in Seq(OnWire) /\ Len(P) \in Nat
  <2>1. Pipe' = Pipe
    BY <1>2 DEF Pipe
  <2> QED
    BY <1>4, <2>1, PipeTyped
<1>6. Ascending'
  BY <1>2, <1>4, <1>5, AscendingNext DEF Ascending
<1>7. \A i, j \in Int : j <= cursor + 1 => (Missing(i, j)' <=> Missing(i, j))
  BY <1>1, <1>2, MissingAfterSend
<1>8. /\ \A i \in 1..Len(P) : Item(P[i]) \in 0..cursor
      /\ \A a \in 1..Len(items) : items[a] <= cursor /\ items[a] \in Int
      /\ cursor \in Nat /\ Len(items) \in Nat
  BY <1>4 DEF Ascending, TypeOK
<1>9. ASSUME ~(split /\ protocol = "JSONRPC")
      PROVE  WholeFrames'
  <2>1. Framed(P) /\ Linked(P) /\ NoGaps /\ \A a \in 1..Len(items) : items[a] # Mixture
    BY <1>4, <1>9 DEF WholeFrames
  <2>2. \A c : /\ Item(c)' = Item(c)
               /\ Ends(c)' <=> Ends(c)
               /\ Starts(c)' <=> Starts(c)
    BY <1>2, SamePath
  <2>3. LastItem' = LastItem /\ (EndsWell' <=> EndsWell) /\ LastItem \in Int
    <3>1. items # <<>> => Len(items) \in 1..Len(items)
      BY <1>8 DEF TypeOK
    <3> QED
      BY <1>2, <1>8, <3>1 DEF LastItem, EndsWell
  <2>4. Framed(P)'
    <3>1. ASSUME NEW i \in 1..Len(P) - 1
          PROVE  Missing(Item(P[i]), Item(P[i + 1]))' <=> Missing(Item(P[i]), Item(P[i + 1]))
      <4>1. PICK x, y \in Int : x = Item(P[i]) /\ y = Item(P[i + 1]) /\ y <= cursor + 1
        <5>1. i \in 1..Len(P) /\ i + 1 \in 1..Len(P)
          BY <1>5
        <5> QED
          BY <1>8, <5>1
      <4>2. Missing(x, y)' <=> Missing(x, y)
        BY <1>7, <4>1
      <4> QED
        BY <2>2, <4>1, <4>2
    <3> QED
      BY <2>1, <2>2, <3>1 DEF Framed
  <2>5. Linked(P)'
    <3>1. P # <<>> => 1 \in 1..Len(P) /\ Len(P) \in 1..Len(P)
      BY <1>5
    <3>2. P # <<>> => /\ Missing(LastItem, Item(P[1]))' <=> Missing(LastItem, Item(P[1]))
                      /\ Missing(Item(P[Len(P)]), cursor + 1)' <=> Missing(Item(P[Len(P)]), cursor + 1)
      <4> SUFFICES ASSUME P # <<>>
                   PROVE  /\ Missing(LastItem, Item(P[1]))' <=> Missing(LastItem, Item(P[1]))
                          /\ Missing(Item(P[Len(P)]), cursor + 1)'
                               <=> Missing(Item(P[Len(P)]), cursor + 1)
        OBVIOUS
      <4>1. PICK x, y, z, c \in Int : /\ x = LastItem /\ y = Item(P[1]) /\ z = Item(P[Len(P)])
                                      /\ c = cursor + 1 /\ y <= c
        BY <1>8, <2>3, <3>1
      <4>2. (Missing(x, y)' <=> Missing(x, y)) /\ (Missing(z, c)' <=> Missing(z, c))
        BY <1>7, <4>1
      <4>3. x = LastItem' /\ y = Item(P[1])' /\ z = Item(P[Len(P)])' /\ c = cursor' + 1
        BY <1>2, <2>2, <2>3, <4>1
      <4> QED
        BY <4>1, <4>2, <4>3
    <3>3. Missing(LastItem, cursor + 1)' <=> Missing(LastItem, cursor + 1)
      <4>1. PICK x, c \in Int : x = LastItem /\ c = cursor + 1
        BY <1>8, <2>3
      <4>2. Missing(x, c)' <=> Missing(x, c)
        BY <1>7, <4>1
      <4> QED
        BY <1>2, <2>3, <4>1, <4>2
    <3> QED
      BY <1>2, <2>1, <2>2, <2>3, <3>2, <3>3 DEF Linked
  <2>6. NoGaps'
    <3> SUFFICES ASSUME NEW a \in 1..Len(items), items[a] > 0
                 PROVE  IF a = 1 THEN ~Missing(0, items[1])'
                        ELSE items[a - 1] > 0 => ~Missing(items[a - 1], items[a])'
      BY <1>2 DEF NoGaps
    <3>1. CASE a = 1
      <4>1. PICK y \in Int : y = items[1] /\ y = items'[1] /\ y <= cursor + 1
        BY <1>2, <1>8, <3>1
      <4>2. Missing(0, y)' <=> Missing(0, y)
        BY <1>7, <4>1
      <4> QED
        BY <2>1, <3>1, <4>1, <4>2 DEF NoGaps
    <3>2. CASE a # 1
      <4>1. a - 1 \in 1..Len(items)
        BY <1>8, <3>2
      <4>2. PICK x, y \in Int : /\ x = items[a - 1] /\ x = items'[a - 1]
                                /\ y = items[a] /\ y = items'[a] /\ y <= cursor + 1
        BY <1>2, <1>8, <4>1
      <4>3. Missing(x, y)' <=> Missing(x, y)
        BY <1>7, <4>2
      <4> QED
        BY <2>1, <3>2, <4>2, <4>3 DEF NoGaps
    <3> QED
      BY <3>1, <3>2
  <2>7. Framed(Pipe)' /\ Linked(Pipe)'
    BY <1>5, <2>4, <2>5
  <2> QED
    BY <1>2, <2>1, <2>6, <2>7 DEF WholeFrames
<1>10. WholeFrames'
  BY <1>2, <1>9 DEF WholeFrames
<1> QED
  BY <1>2, <1>3, <1>6, <1>10 DEF Gone

--------------------------------------------------------------------------------
(* The invariant.                                                             *)

\* The invariant holds in a stream that has just been opened.
LEMMA InitInv == Init => StreamInv
<1> SUFFICES ASSUME Init PROVE StreamInv
  OBVIOUS
<1>1. /\ log = <<>> /\ wire = <<>> /\ buf = <<>> /\ items = <<>> /\ cursor = 0
      /\ protocol \in Protocols /\ client = "reading" /\ split = FALSE
  BY DEF Init
<1>2. TypeOK
  <2>1. <<>> \in Seq(Event) /\ <<>> \in Seq(OnWire) /\ <<>> \in Seq(Char) /\ <<>> \in Seq(Int)
        /\ Len(<<>>) = 0
    OBVIOUS
  <2>2. cursor \in 0..Len(log)
    BY <1>1, <2>1
  <2>3. /\ log \in Seq(Event) /\ wire \in Seq(OnWire) /\ buf \in Seq(Char) /\ items \in Seq(Int)
        /\ protocol = "GRPC" => buf = <<>>
    BY <1>1, <2>1
  <2>4. /\ closed \in BOOLEAN /\ forwarding \in BOOLEAN /\ lagged \in BOOLEAN
        /\ split \in BOOLEAN /\ cut \in BOOLEAN /\ refused \in Nat /\ since \in Nat
    BY DEF Init
  <2> QED
    BY <1>1, <2>2, <2>3, <2>4 DEF TypeOK
<1>3. PICK P : P = <<>>
  OBVIOUS
<1>4. P = Pipe /\ Len(P) = 0 /\ 1..Len(P) = {} /\ 1..Len(P) - 1 = {} /\ 1..Len(items) = {}
  <2>1. <<>> \o <<>> = <<>> /\ Len(<<>>) = 0
    OBVIOUS
  <2>2. 1..0 = {} /\ 1..0 - 1 = {}
    OBVIOUS
  <2> QED
    BY <1>1, <1>3, <2>1, <2>2 DEF Pipe
<1>5. Ascending
  BY <1>4 DEF Ascending, InOrder
<1>6. WholeFrames
  <2>1. Framed(P) /\ NoGaps
    BY <1>3, <1>4 DEF Framed, NoGaps
  <2>2. Linked(P)
    <3>1. LastItem = 0 /\ ~Missing(0, 0 + 1)
      BY <1>1, NothingBetween DEF LastItem
    <3> QED
      BY <1>1, <1>3, <3>1 DEF Linked
  <2> QED
    BY <1>4, <2>1, <2>2 DEF WholeFrames
<1> QED
  BY <1>1, <1>2, <1>5, <1>6 DEF StreamInv, Gone

\* The forwarder appends the next event of the queue, or nothing.
LEMMA ForwardEventKeeps ==
    ASSUME StreamInv, ForwardEvent
    PROVE  TypeOK' /\ Gone' /\ Ascending' /\ WholeFrames'
<1> USE DEF StreamInv
<1>1. /\ UNCHANGED <<protocol, log, closed, since, client, buf, items, split, cut, lagged>>
      /\ forwarding /\ cursor' = cursor + 1 /\ refused' \in Nat
  BY DEF ForwardEvent, queueVars, clientVars, TypeOK
<1>2. cursor' \in cursor + 1..Len(log)
  BY DEF ForwardEvent, TypeOK
<1>3. PICK item \in {Error, cursor'} : Forward(item)
  BY <1>1 DEF ForwardEvent
<1>4. /\ wire' \in Seq(OnWire) /\ forwarding' \in BOOLEAN
      /\ Gone' /\ Ascending' /\ WholeFrames'
  BY <1>1, <1>2, <1>3, ForwardKeeps
<1>5. cursor' \in 0..Len(log) /\ OnWire' = OnWire
  BY <1>1, <1>2 DEF TypeOK, OnWire
<1> QED
  BY <1>1, <1>4, <1>5 DEF TypeOK

\* A forwarder that lagged appends an error and goes on at the oldest event.
LEMMA SkipLaggedKeeps ==
    ASSUME StreamInv, SkipLagged
    PROVE  TypeOK' /\ Gone' /\ Ascending' /\ WholeFrames'
<1> USE DEF StreamInv
<1>1. /\ UNCHANGED <<protocol, log, closed, since, client, buf, items, split, cut, refused>>
      /\ forwarding /\ cursor' = Oldest /\ cursor < Oldest /\ lagged' = TRUE
      /\ Forward(Error)
  BY DEF SkipLagged, ForwardLag, queueVars, clientVars
<1>2. cursor' \in cursor + 1..Len(log)
  <2>1. PICK n \in Nat : n = Len(log) /\ cursor \in 0..n
    BY DEF TypeOK
  <2>2. Capacity \in Nat \ {0}
    BY StreamPathAssumption
  <2> QED
    BY <1>1, <2>1, <2>2 DEF Oldest
<1>3. /\ wire' \in Seq(OnWire) /\ forwarding' \in BOOLEAN
      /\ Gone' /\ Ascending' /\ WholeFrames'
  BY <1>1, <1>2, ForwardKeeps
<1>4. cursor' \in 0..Len(log) /\ OnWire' = OnWire
  BY <1>1, <1>2 DEF TypeOK, OnWire
<1> QED
  BY <1>1, <1>3, <1>4 DEF TypeOK

\* Closing the queue and ending the body move no data.
LEMMA StillStepsKeep ==
    ASSUME StreamInv, Close \/ EndOfQueue \/ DropBody
    PROVE  TypeOK' /\ Gone' /\ Ascending' /\ WholeFrames'
<1> USE DEF StreamInv
<1>1. /\ UNCHANGED <<protocol, log, since, cursor, wire, client, buf, items, split, cut,
                     lagged, refused>>
      /\ closed' \in BOOLEAN /\ forwarding' \in {FALSE, forwarding}
  BY DEF Close, EndOfQueue, DropBody, queueVars, clientVars, TypeOK
<1>2. Gone' /\ Ascending' /\ WholeFrames'
  BY <1>1, StillKeeps
<1>3. OnWire' = OnWire /\ forwarding' \in BOOLEAN
  BY <1>1 DEF OnWire, TypeOK
<1> QED
  BY <1>1, <1>2, <1>3 DEF TypeOK

\* The last steps of a client append at most an error to what it saw.
LEMMA LastStepsKeep ==
    ASSUME StreamInv, EndOfBody \/ Cut \/ Leave
    PROVE  /\ TypeOK' /\ Gone' /\ Ascending' /\ WholeFrames'
           /\ UNCHANGED log /\ (UNCHANGED items \/ items' = Append(items, Error))
<1> USE DEF StreamInv
<1>1. /\ UNCHANGED <<protocol, log, closed, since, cursor, forwarding, split, lagged, refused>>
      /\ client' \in {"ended", "left"} /\ buf' = <<>> /\ wire' = <<>> /\ cut' \in BOOLEAN
      /\ client' = "ended" => ~forwarding
  BY DEF EndOfBody, Cut, Leave, queueVars, TypeOK
<1>2. /\ UNCHANGED items \/ items' = Append(items, Error)
      /\ items' \in Seq(Int)
  <2>1. items \in Seq(Int) /\ Error \in Int
    BY DEF TypeOK, Error
  <2>2. items \o <<Error>> = Append(items, Error) /\ Append(items, Error) \in Seq(Int)
    BY <2>1
  <2> QED
    BY <2>1, <2>2 DEF EndOfBody, Cut, Leave, Yield
<1>3. Gone' /\ Ascending' /\ WholeFrames'
  BY <1>1, <1>2, EmptiedKeeps
<1>4. <<>> \in Seq(OnWire') /\ <<>> \in Seq(Char)
  OBVIOUS
<1>5. TypeOK'
  BY <1>1, <1>2, <1>4 DEF TypeOK
<1> QED
  BY <1>1, <1>2, <1>3, <1>5

\* Every step keeps the invariant.
LEMMA StepInv == StreamInv /\ [Next]_vars => StreamInv'
<1> SUFFICES ASSUME StreamInv, [Next]_vars PROVE StreamInv'
  OBVIOUS
<1>1. CASE Emit
  BY <1>1, EmitKeeps DEF StreamInv
<1>2. CASE Close \/ EndOfQueue \/ DropBody
  BY <1>2, StillStepsKeep DEF StreamInv
<1>3. CASE ForwardEvent
  BY <1>3, ForwardEventKeeps DEF StreamInv
<1>4. CASE SkipLagged
  BY <1>4, SkipLaggedKeeps DEF StreamInv
<1>5. CASE ReadItem
  BY <1>5, ReadItemKeeps DEF StreamInv
<1>6. CASE ReadChunk
  BY <1>6, ReadChunkKeeps DEF StreamInv
<1>7. CASE Extract
  BY <1>7, ExtractKeeps DEF StreamInv
<1>8. CASE EndOfBody \/ Cut \/ Leave
  BY <1>8, LastStepsKeep DEF StreamInv
<1>9. CASE UNCHANGED vars
  <2>1. UNCHANGED <<protocol, log, closed, cursor, forwarding, wire, client, buf, items,
                    lagged, split, refused, cut, since>>
    BY <1>9 DEF vars
  <2>2. TypeOK'
    BY <2>1 DEF StreamInv, TypeOK, OnWire
  <2>3. Gone' /\ Ascending' /\ WholeFrames'
    BY <2>1, StillKeeps
  <2> QED
    BY <2>2, <2>3 DEF StreamInv
<1> QED
  BY <1>1, <1>2, <1>3, <1>4, <1>5, <1>6, <1>7, <1>8, <1>9 DEF Next, ServerStep, ClientStep

\* What is under way to a client is, at every step, in the order it was sent,
\* behind what the client has, and whole frames with no gap between two of them
\* (unless a JSON-RPC client dropped a chunk that was cut inside a character).
THEOREM SpecInv == Spec => []StreamInv
<1>1. Init => StreamInv
  BY InitInv
<1>2. StreamInv /\ [Next]_vars => StreamInv'
  BY StepInv
<1> QED
  BY <1>1, <1>2, PTL DEF Spec

\* An event that the client puts together from two takes a JSON-RPC client and a
\* chunk cut inside a character: a REST client's, or gRPC's, never are.
THEOREM NoEventIsMixed == Spec => []NoMixture
<1>1. StreamInv => NoMixture
  BY DEF StreamInv, WholeFrames, NoMixture, TypeOK
<1> QED
  BY <1>1, SpecInv, PTL

\* A client that misses an event can tell: over HTTP an error item stands where
\* events are missing, over gRPC the stream ends at the gap.
THEOREM GapsAreMarked == Spec => []GapsShow
<1>1. StreamInv => GapsShow
  <2> SUFFICES ASSUME StreamInv, ~(split /\ protocol = "JSONRPC"),
                      NEW a \in DOMAIN items, Good(items[a])
               PROVE  IF a = 1 THEN ~Missing(0, items[1])
                      ELSE Good(items[a - 1]) => ~Missing(items[a - 1], items[a])
    BY DEF GapsShow
  <2>1. NoGaps /\ a \in 1..Len(items) /\ items[a] > 0
    BY DEF StreamInv, WholeFrames, TypeOK, Good
  <2> QED
    BY <2>1 DEF NoGaps, Good
<1> QED
  BY <1>1, SpecInv, PTL

--------------------------------------------------------------------------------
(* The stream is a feed of the queue's events.                                *)

\* What a step gives the client.
LEMMA StepYields ==
    ASSUME StreamInv, Next
    PROVE  \/ UNCHANGED items /\ (UNCHANGED log \/ \E e \in Event : log' = Append(log, e))
           \/ UNCHANGED log /\ \E y \in Int : items' = Append(items, y)
<1>1. CASE Emit
  BY <1>1 DEF Emit, clientVars
<1>2. CASE Close \/ EndOfQueue \/ DropBody \/ ForwardEvent \/ SkipLagged \/ ReadChunk
  BY <1>2 DEF Close, EndOfQueue, DropBody, ForwardEvent, SkipLagged, ReadChunk, clientVars,
              queueVars
<1>3. CASE ReadItem
  BY <1>3, ReadItemKeeps DEF ReadItem, queueVars
<1>4. CASE Extract
  BY <1>4, ExtractKeeps DEF Extract, queueVars
<1>5. CASE EndOfBody \/ Cut \/ Leave
  <2>1. Error \in Int
    BY DEF Error
  <2> QED
    BY <1>5, <2>1, LastStepsKeep
<1> QED
  BY <1>1, <1>2, <1>3, <1>4, <1>5 DEF Next, ServerStep, ClientStep

\* What the client has seen is some of its items.
LEMMA SeenAreItems ==
    ASSUME StreamInv
    PROVE  \A j \in DOMAIN Seen : \E a \in 1..Len(items) : Seen[j] = items[a] /\ items[a] > 0
<1>1. PICK s \in Seq(Int) : s = items
  BY DEF StreamInv, TypeOK
<1>2. PICK k : k = Kept(s, Nat \ {0})
  OBVIOUS
<1>3. k \in Seq(Int) /\ KeptFrom(s, Nat \ {0}, k, Len(s))
  BY <1>2, KeptProperties
<1>4. PICK at \in [1..Len(k) -> 1..Len(s)] :
         \A p \in 1..Len(k) : k[p] = s[at[p]] /\ s[at[p]] \in Nat \ {0}
  BY <1>3 DEF KeptFrom
<1>5. DOMAIN k = 1..Len(k)
  BY <1>3
<1>6. \A j \in DOMAIN k : \E a \in 1..Len(s) : k[j] = s[a] /\ s[a] > 0
  <2> SUFFICES ASSUME NEW j \in 1..Len(k)
               PROVE  \E a \in 1..Len(s) : k[j] = s[a] /\ s[a] > 0
    BY <1>5
  <2>1. PICK a \in 1..Len(s) : a = at[j]
    OBVIOUS
  <2>2. k[j] = s[a] /\ s[a] \in Nat \ {0}
    BY <1>4, <2>1
  <2>3. s[a] > 0
    BY <2>2
  <2> QED
    BY <2>2, <2>3
<1> QED
  BY <1>1, <1>2, <1>6 DEF Seen

\* Every step of the stream is one of the feed, or leaves it as it was.
LEMMA FeedStep ==
    ASSUME StreamInv, StreamInv', [Next]_vars
    PROVE  [Feed!Send \/ Feed!See]_<<log, Seen>>
<1>1. CASE UNCHANGED items /\ (UNCHANGED log \/ \E e \in Event : log' = Append(log, e))
  <2>1. Seen' = Seen
    BY <1>1 DEF Seen
  <2> QED
    BY <1>1, <2>1 DEF Feed!Send
<1>2. ASSUME UNCHANGED log, NEW y \in Int, items' = Append(items, y)
      PROVE  [Feed!Send \/ Feed!See]_<<log, Seen>>
  <2>1. PICK s \in Seq(Int) : s = items
    BY DEF StreamInv, TypeOK
  <2>2. Kept(Append(s, y), Nat \ {0}) =
          IF y \in Nat \ {0} THEN Append(Kept(s, Nat \ {0}), y) ELSE Kept(s, Nat \ {0})
    BY KeptOfAppend
  <2>3. Seen' = IF y \in Nat \ {0} THEN Append(Seen, y) ELSE Seen
    BY <1>2, <2>1, <2>2 DEF Seen
  <2>4. CASE y \notin Nat \ {0}
    BY <1>2, <2>3, <2>4
  <2>5. CASE y \in Nat \ {0}
    <3>1. PICK m \in Nat : m = Len(s)
      OBVIOUS
    <3>2. /\ Len(items') = m + 1 /\ items'[m + 1] = y
          /\ \A a \in 1..m : items'[a] = items[a]
      BY <1>2, <2>1, <3>1
    <3>3. y \in 1..Len(log)
      <4>1. m + 1 \in 1..Len(items')
        BY <3>2
      <4>2. y <= cursor' /\ cursor' \in 0..Len(log') /\ Len(log') \in Nat
        BY <3>2, <4>1 DEF StreamInv, Ascending, TypeOK
      <4> QED
        BY <1>2, <2>5, <4>2
    <3>4. ASSUME NEW j \in DOMAIN Seen
          PROVE  Seen[j] < y
      <4>1. PICK a \in 1..Len(items) : Seen[j] = items[a] /\ items[a] > 0
        BY <3>4, SeenAreItems
      <4>2. a \in 1..m + 1 /\ m + 1 \in 1..m + 1 /\ a < m + 1 /\ items'[a] = items[a]
        BY <2>1, <3>1, <3>2
      <4>3. items'[a] < items'[m + 1]
        BY <2>5, <3>2, <4>1, <4>2 DEF StreamInv, Ascending
      <4> QED
        BY <3>2, <4>1, <4>2, <4>3
    <3>5. Seen' = Append(Seen, y)
      BY <2>3, <2>5
    <3> QED
      BY <1>2, <3>3, <3>4, <3>5 DEF Feed!See
  <2> QED
    BY <2>4, <2>5
<1>3. CASE UNCHANGED vars
  <2>1. UNCHANGED items /\ UNCHANGED log
    BY <1>3 DEF vars
  <2> QED
    BY <1>1, <2>1
<1> QED
  BY <1>1, <1>2, <1>3, StepYields

\* Whatever the transport, the lag, the refusals and the chunks: the events that
\* a client's EventStream yields are events the agent sent, each at most once,
\* and in the order it sent them.
THEOREM StreamIsAFeed == Spec => IsFeed
<1>1. Init => Feed!Init
  <2> SUFFICES ASSUME Init PROVE log = <<>> /\ Seen = <<>>
    BY DEF Feed!Init
  <2>1. Kept(<<>>, Nat \ {0}) = <<>>
    <3>1. <<>> \in Seq(Int) /\ 0 \in Int
      OBVIOUS
    <3> QED
      BY <3>1, KeptOfAppend
  <2> QED
    BY <2>1 DEF Init, Seen
<1>2. StreamInv /\ StreamInv' /\ [Next]_vars => [Feed!Send \/ Feed!See]_<<log, Seen>>
  BY FeedStep
<1> QED
  BY <1>1, <1>2, SpecInv, PTL DEF Spec, IsFeed, Feed!Spec
================================================================================
