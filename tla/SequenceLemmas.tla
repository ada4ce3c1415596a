---------------------------- MODULE SequenceLemmas ----------------------------
(******************************************************************************)
(* Facts about sequences, filters and natural numbers that the proofs of the  *)
(* components need: induction over sets of numbers, the least element of one, *)
(* and what Kept returns.                                                     *)
(******************************************************************************)
EXTENDS Filters, WellFoundedInduction, TLAPS

\* The parts of a sequence that is not empty.
LEMMA TailOf ==
    ASSUME NEW T, NEW s \in Seq(T), s # <<>>
    PROVE  /\ Head(s) = s[1] /\ s[1] \in T
           /\ Tail(s) \in Seq(T) /\ Len(Tail(s)) = Len(s) - 1 /\ Len(s) \in Nat \ {0}
           /\ \A i \in 1..Len(s) - 1 : Tail(s)[i] = s[i + 1]
OBVIOUS

\* What comes after the first n elements, and the first n.
LEMMA SuffixOf ==
    ASSUME NEW T, NEW P \in Seq(T), NEW n \in 0..Len(P)
    PROVE  LET Q == SubSeq(P, n + 1, Len(P)) IN
           /\ Q \in Seq(T) /\ Len(Q) = Len(P) - n
           /\ \A i \in 1..Len(P) - n : Q[i] = P[n + i]
<1>1. Len(P) \in Nat /\ \A i \in n + 1..Len(P) : P[i] \in T
  OBVIOUS
<1> QED
  BY <1>1

\* The first n members of a sequence are a sequence with the same members.
LEMMA PrefixOf ==
    ASSUME NEW T, NEW P \in Seq(T), NEW n \in 0..Len(P)
    PROVE  LET Q == SubSeq(P, 1, n) IN
           /\ Q \in Seq(T) /\ Len(Q) = n
           /\ \A i \in 1..n : Q[i] = P[i]
<1>1. Len(P) \in Nat /\ \A i \in 1..n : P[i] \in T
  OBVIOUS
<1> QED
  BY <1>1

\* Two sequences, one after the other.
LEMMA ConcatOf ==
    ASSUME NEW T, NEW P \in Seq(T), NEW Q \in Seq(T)
    PROVE  /\ P \o Q \in Seq(T) /\ Len(P \o Q) = Len(P) + Len(Q)
           /\ Len(P) \in Nat /\ Len(Q) \in Nat
           /\ \A i \in 1..Len(P) : (P \o Q)[i] = P[i]
           /\ \A i \in 1..Len(Q) : (P \o Q)[Len(P) + i] = Q[i]
           /\ \A i \in 1..Len(P) + Len(Q) :
                i \in 1..Len(P) \/ \E k \in 1..Len(Q) : i = Len(P) + k
<1>1. Len(P) \in Nat /\ Len(Q) \in Nat
  OBVIOUS
<1>2. \A m, n \in Nat : \A i \in 1..m + n : i \in 1..m \/ \E k \in 1..n : i = m + k
  <2> SUFFICES ASSUME NEW m \in Nat, NEW n \in Nat, NEW i \in 1..m + n, ~(i \in 1..m)
               PROVE  i - m \in 1..n /\ i = m + (i - m)
    OBVIOUS
  <2> QED
    OBVIOUS
<1>3. Len(P \o Q) = Len(P) + Len(Q) /\ P \o Q \in Seq(T)
  OBVIOUS
<1>4. /\ \A i \in 1..Len(P) : (P \o Q)[i] = P[i]
      /\ \A i \in 1..Len(Q) : (P \o Q)[Len(P) + i] = Q[i]
  OBVIOUS
<1>5. \A i \in 1..Len(P) + Len(Q) :
        i \in 1..Len(P) \/ \E k \in 1..Len(Q) : i = Len(P) + k
  BY <1>1, <1>2
<1> QED
  BY <1>1, <1>3, <1>4, <1>5

\* Sequences are equal when their elements are.
LEMMA SameElements ==
    ASSUME NEW T, NEW P \in Seq(T), NEW Q \in Seq(T), Len(P) = Len(Q),
           \A i \in 1..Len(P) : P[i] = Q[i]
    PROVE  P = Q
OBVIOUS

\* A set with 0 that is closed under successor has every natural number.
LEMMA NatSetInduction ==
    ASSUME NEW S, 0 \in S, \A n \in Nat : n \in S => n + 1 \in S
    PROVE  Nat \subseteq S
<1> SUFFICES ASSUME Nat \ S # {} PROVE FALSE
  OBVIOUS
<1> DEFINE R == OpToRel(<, Nat)
<1>1. PICK x \in Nat \ S : \A y \in Nat \ S : ~(<<y, x>> \in R)
  <2>1. IsWellFoundedOn(R, Nat)
    BY NatLessThanWellFounded
  <2> HIDE DEF R
  <2> QED
    BY <2>1, WFMin
<1>2. x - 1 \in Nat /\ x = (x - 1) + 1
  OBVIOUS
<1>3. <<x - 1, x>> \in R
  BY <1>2 DEF OpToRel
<1>4. x - 1 \in S
  BY <1>1, <1>2, <1>3
<1> HIDE DEF R
<1> QED
  BY <1>2, <1>4

\* The filters of a sequence's prefixes satisfy their recursive definition.
LEMMA KeptRecurs ==
    ASSUME NEW s, NEW K, Len(s) \in Nat
    PROVE  KeptOfPrefixes(s, K) =
             [n \in 0..Len(s) |->
                IF n = 0 THEN <<>>
                ELSE IF s[n] \in K THEN Append(KeptOfPrefixes(s, K)[n - 1], s[n])
                ELSE KeptOfPrefixes(s, K)[n - 1]]
<1> DEFINE Solves(f, m) ==
      f = [n \in 0..m |-> IF n = 0 THEN <<>>
                          ELSE IF s[n] \in K THEN Append(f[n - 1], s[n]) ELSE f[n - 1]]
           S == {m \in Nat : \E f : Solves(f, m)}
<1>1. 0 \in S
  <2>1. Solves([n \in 0..0 |-> <<>>], 0)
    OBVIOUS
  <2> QED
    BY <2>1
<1>2. ASSUME NEW m \in Nat, m \in S
      PROVE  m + 1 \in S
  <2>1. PICK f : Solves(f, m)
    BY <1>2
  <2> DEFINE g == [n \in 0..m + 1 |->
                     IF n <= m THEN f[n]
                     ELSE IF s[n] \in K THEN Append(f[n - 1], s[n]) ELSE f[n - 1]]
  <2>2. \A n \in 0..m + 1 : g[n] =
           IF n = 0 THEN <<>>
           ELSE IF s[n] \in K THEN Append(g[n - 1], s[n]) ELSE g[n - 1]
    <3>1. \A n \in 0..m : f[n] =
           IF n = 0 THEN <<>>
           ELSE IF s[n] \in K THEN Append(f[n - 1], s[n]) ELSE f[n - 1]
      BY <2>1
    <3>2. \A n \in 0..m : g[n] = f[n]
      OBVIOUS
    <3>3. g[m + 1] = IF s[m + 1] \in K THEN Append(f[m], s[m + 1]) ELSE f[m]
      OBVIOUS
    <3> HIDE DEF g
    <3> TAKE n \in 0..m + 1
    <3>4. CASE n = m + 1
      <4>1. n # 0 /\ n - 1 = m /\ m \in 0..m
        BY <3>4
      <4> QED
        BY <3>2, <3>3, <3>4, <4>1
    <3>5. CASE n # m + 1
      <4>1. n \in 0..m /\ (n # 0 => n - 1 \in 0..m)
        BY <3>5
      <4> QED
        BY <3>1, <3>2, <4>1
    <3> QED
      BY <3>4, <3>5
  <2>3. Solves(g, m + 1)
    <3>1. g = [n \in 0..m + 1 |-> g[n]]
      OBVIOUS
    <3> HIDE DEF g
    <3> QED
      BY <2>2, <3>1
  <2> HIDE DEF Solves, g
  <2> QED
    BY <2>3
<1>3. \E f : Solves(f, Len(s))
  <2> HIDE DEF Solves
  <2>1. \A n \in Nat : n \in S => n + 1 \in S
    BY <1>2
  <2>2. Nat \subseteq S
    <3> HIDE DEF S
    <3> QED BY <1>1, <2>1, NatSetInduction
  <2> QED
    BY <2>2
<1>4. KeptOfPrefixes(s, K) = CHOOSE f : Solves(f, Len(s))
  BY DEF KeptOfPrefixes
<1> QED
  BY <1>3, <1>4

\* k has the elements of s's first n that are in K, in their order.
KeptFrom(s, K, k, n) ==
    \E at \in [1..Len(k) -> 1..n] :
        /\ \A p, q \in 1..Len(k) : p < q => at[p] < at[q]
        /\ \A p \in 1..Len(k) : k[p] = s[at[p]] /\ s[at[p]] \in K
        /\ \A i \in 1..n : s[i] \in K => \E p \in 1..Len(k) : at[p] = i

\* One more element in K is kept at the end.
LEMMA KeptFromAppend ==
    ASSUME NEW T, NEW s \in Seq(T), NEW K, NEW k \in Seq(T), NEW n \in Nat,
           n + 1 <= Len(s), KeptFrom(s, K, k, n), s[n + 1] \in K
    PROVE  KeptFrom(s, K, Append(k, s[n + 1]), n + 1)
<1>1. PICK at \in [1..Len(k) -> 1..n] :
         /\ \A p, q \in 1..Len(k) : p < q => at[p] < at[q]
         /\ \A p \in 1..Len(k) : k[p] = s[at[p]] /\ s[at[p]] \in K
         /\ \A i \in 1..n : s[i] \in K => \E p \in 1..Len(k) : at[p] = i
  BY DEF KeptFrom
<1>2. PICK m \in Nat : m = Len(k)
  OBVIOUS
<1> DEFINE l == Append(k, s[n + 1])
           to == [p \in 1..m + 1 |-> IF p <= m THEN at[p] ELSE n + 1]
<1>3. s[n + 1] \in T
  OBVIOUS
<1>4. /\ Len(l) = m + 1
      /\ \A p \in 1..m : l[p] = k[p]
      /\ l[m + 1] = s[n + 1]
  BY <1>2, <1>3
<1>5. /\ to \in [1..m + 1 -> 1..n + 1]
      /\ \A p \in 1..m : to[p] = at[p]
      /\ to[m + 1] = n + 1
  BY <1>2
<1> HIDE DEF l, to
<1>6. \A p \in 1..m + 1 : p \in 1..m \/ p = m + 1
  OBVIOUS
<1>7. ASSUME NEW p \in 1..m + 1, NEW q \in 1..m + 1, p < q
      PROVE  to[p] < to[q]
  <2>0. p \in 1..m
    BY <1>7
  <2>1. p \in 1..m /\ at[p] \in 1..n /\ to[p] = at[p]
    BY <1>2, <1>5, <2>0
  <2>2. CASE q = m + 1
    BY <1>5, <2>1, <2>2
  <2>3. CASE q # m + 1
    <3>1. q \in 1..m /\ to[q] = at[q]
      BY <1>5, <2>3
    <3> QED
      BY <1>1, <1>2, <1>7, <2>1, <3>1
  <2> QED
    BY <2>2, <2>3
<1>8. \A p \in 1..m + 1 : l[p] = s[to[p]] /\ s[to[p]] \in K
  BY <1>1, <1>2, <1>4, <1>5, <1>6
<1>9. ASSUME NEW i \in 1..n + 1, s[i] \in K
      PROVE  \E p \in 1..m + 1 : to[p] = i
  <2>1. CASE i = n + 1
    BY <2>1, <1>5
  <2>2. CASE i # n + 1
    <3>1. i \in 1..n
      BY <2>2
    <3>2. PICK p \in 1..m : at[p] = i
      BY <1>1, <1>2, <1>9, <3>1
    <3> QED
      BY <1>5, <3>2
  <2> QED
    BY <2>1, <2>2
<1>10. KeptFrom(s, K, l, n + 1)
  <2>1. /\ to \in [1..Len(l) -> 1..n + 1]
        /\ \A p, q \in 1..Len(l) : p < q => to[p] < to[q]
        /\ \A p \in 1..Len(l) : l[p] = s[to[p]] /\ s[to[p]] \in K
        /\ \A i \in 1..n + 1 : s[i] \in K => \E p \in 1..Len(l) : to[p] = i
    BY <1>4, <1>5, <1>7, <1>8, <1>9
  <2> QED
    BY <2>1 DEF KeptFrom
<1> QED
  BY <1>10 DEF l

\* Kept returns the elements in K, in their order.
LEMMA KeptProperties ==
    ASSUME NEW T, NEW s \in Seq(T), NEW K
    PROVE  Kept(s, K) \in Seq(T) /\ KeptFrom(s, K, Kept(s, K), Len(s))
<1> DEFINE f == KeptOfPrefixes(s, K)
           S == {m \in Nat : m <= Len(s) => f[m] \in Seq(T) /\ KeptFrom(s, K, f[m], m)}
<1>1. \A n \in 0..Len(s) :
        f[n] = IF n = 0 THEN <<>>
               ELSE IF s[n] \in K THEN Append(f[n - 1], s[n]) ELSE f[n - 1]
  <2>1. Len(s) \in Nat
    OBVIOUS
  <2>2. f = [n \in 0..Len(s) |->
               IF n = 0 THEN <<>>
               ELSE IF s[n] \in K THEN Append(f[n - 1], s[n]) ELSE f[n - 1]]
    BY <2>1, KeptRecurs
  <2> HIDE DEF f
  <2> QED
    BY <2>2
<1> HIDE DEF f
<1>2. 0 \in S
  <2>1. f[0] = <<>>
    BY <1>1
  <2>2. KeptFrom(s, K, <<>>, 0)
    <3>1. Len(<<>>) = 0 /\ 1..0 = {}
      OBVIOUS
    <3>2. [p \in {} |-> 0] \in [{} -> {}]
      OBVIOUS
    <3> QED
      BY <3>1, <3>2 DEF KeptFrom
  <2>3. <<>> \in Seq(T)
    OBVIOUS
  <2> QED
    BY <2>1, <2>2, <2>3
<1>3. ASSUME NEW n \in Nat, n \in S
      PROVE  n + 1 \in S
  <2> SUFFICES ASSUME n + 1 <= Len(s)
               PROVE  f[n + 1] \in Seq(T) /\ KeptFrom(s, K, f[n + 1], n + 1)
    OBVIOUS
  <2>1. f[n] \in Seq(T) /\ KeptFrom(s, K, f[n], n)
    BY <1>3
  <2>2. CASE s[n + 1] \notin K
    <3>1. f[n + 1] = f[n]
      BY <1>1, <2>2
    <3>2. KeptFrom(s, K, f[n], n + 1)
      <4>1. PICK at \in [1..Len(f[n]) -> 1..n] :
               /\ \A p, q \in 1..Len(f[n]) : p < q => at[p] < at[q]
               /\ \A p \in 1..Len(f[n]) : f[n][p] = s[at[p]] /\ s[at[p]] \in K
               /\ \A i \in 1..n : s[i] \in K => \E p \in 1..Len(f[n]) : at[p] = i
        BY <2>1 DEF KeptFrom
      <4>2. at \in [1..Len(f[n]) -> 1..n + 1]
        OBVIOUS
      <4> QED
        BY <2>2, <4>1, <4>2 DEF KeptFrom
    <3> QED
      BY <2>1, <3>1, <3>2
  <2>3. CASE s[n + 1] \in K
    <3>1. f[n + 1] = Append(f[n], s[n + 1])
      <4>1. n + 1 \in 0..Len(s) /\ n + 1 # 0 /\ (n + 1) - 1 = n
        OBVIOUS
      <4> QED
        BY <1>1, <2>3, <4>1
    <3> QED
      BY <2>1, <2>3, <3>1, KeptFromAppend
  <2> QED
    BY <2>2, <2>3
<1>4. Len(s) \in S
  <2>1. \A n \in Nat : n \in S => n + 1 \in S
    BY <1>3
  <2>2. Nat \subseteq S
    <3> HIDE DEF S
    <3> QED BY <1>2, <2>1, NatSetInduction
  <2> HIDE DEF S
  <2> QED
    BY <2>2
<1> QED
  BY <1>4 DEF Kept, f

\* Kept keeps nothing of nothing, and goes element by element.
LEMMA KeptOfAppend ==
    ASSUME NEW T, NEW s \in Seq(T), NEW x \in T, NEW K
    PROVE  /\ Kept(<<>>, K) = <<>>
           /\ Kept(Append(s, x), K) = IF x \in K THEN Append(Kept(s, K), x) ELSE Kept(s, K)
<1> DEFINE l == Append(s, x)
           f == KeptOfPrefixes(s, K)
           g == KeptOfPrefixes(l, K)
           S == {m \in Nat : m <= Len(s) => g[m] = f[m]}
<1>1. /\ Len(s) \in Nat /\ Len(l) = Len(s) + 1 /\ l[Len(s) + 1] = x
      /\ \A i \in 1..Len(s) : l[i] = s[i]
  OBVIOUS
<1>2. Kept(<<>>, K) = <<>>
  <2>1. Len(<<>>) = 0 /\ 0 \in 0..0
    OBVIOUS
  <2>2. KeptOfPrefixes(<<>>, K)[0] = <<>>
    BY <2>1, KeptRecurs
  <2> QED
    BY <2>1, <2>2 DEF Kept
<1>3. \A n \in 0..Len(s) :
        f[n] = IF n = 0 THEN <<>>
               ELSE IF s[n] \in K THEN Append(f[n - 1], s[n]) ELSE f[n - 1]
  <2>1. f = [n \in 0..Len(s) |->
               IF n = 0 THEN <<>>
               ELSE IF s[n] \in K THEN Append(f[n - 1], s[n]) ELSE f[n - 1]]
    BY <1>1, KeptRecurs
  <2> HIDE DEF f
  <2> QED
    BY <2>1
<1>4. \A n \in 0..Len(s) + 1 :
        g[n] = IF n = 0 THEN <<>>
               ELSE IF l[n] \in K THEN Append(g[n - 1], l[n]) ELSE g[n - 1]
  <2>1. g = [n \in 0..Len(l) |->
               IF n = 0 THEN <<>>
               ELSE IF l[n] \in K THEN Append(g[n - 1], l[n]) ELSE g[n - 1]]
    <3>1. Len(l) \in Nat
      BY <1>1
    <3> HIDE DEF l
    <3> QED
      BY <3>1, KeptRecurs
  <2> HIDE DEF g, l
  <2> QED
    BY <1>1, <2>1
<1> HIDE DEF f, g, l
<1>5. 0 \in S
  BY <1>1, <1>3, <1>4
<1>6. ASSUME NEW n \in Nat, n \in S
      PROVE  n + 1 \in S
  <2> SUFFICES ASSUME n + 1 <= Len(s) PROVE g[n + 1] = f[n + 1]
    OBVIOUS
  <2>1. /\ n + 1 \in 0..Len(s) /\ n + 1 \in 0..Len(s) + 1 /\ n + 1 # 0
        /\ (n + 1) - 1 = n /\ n + 1 \in 1..Len(s)
    BY <1>1
  <2>2. g[n] = f[n] /\ l[n + 1] = s[n + 1]
    BY <1>1, <1>6, <2>1
  <2> QED
    BY <1>3, <1>4, <2>1, <2>2
<1>7. g[Len(s)] = f[Len(s)]
  <2>1. \A n \in Nat : n \in S => n + 1 \in S
    BY <1>6
  <2>2. Nat \subseteq S
    <3> HIDE DEF S
    <3> QED BY <1>5, <2>1, NatSetInduction
  <2> QED
    BY <1>1, <2>2
<1>8. g[Len(s) + 1] = IF x \in K THEN Append(f[Len(s)], x) ELSE f[Len(s)]
  <2>1. Len(s) + 1 \in 0..Len(s) + 1 /\ Len(s) + 1 # 0 /\ (Len(s) + 1) - 1 = Len(s)
    BY <1>1
  <2> QED
    BY <1>1, <1>4, <1>7, <2>1
<1> QED
  BY <1>1, <1>2, <1>8 DEF Kept, f, g, l

\* A set of natural numbers has a least one.
LEMMA NatMin ==
    ASSUME NEW S \in SUBSET Nat, S # {}
    PROVE  \E n \in S : \A m \in S : n <= m
<1> DEFINE R == OpToRel(<, Nat)
<1>1. PICK n \in S : \A m \in S : ~(<<m, n>> \in R)
  <2>1. IsWellFoundedOn(R, Nat)
    BY NatLessThanWellFounded
  <2> HIDE DEF R
  <2> QED
    BY <2>1, WFMin
<1>2. ASSUME NEW m \in S
      PROVE  n <= m
  <2>1. ~(m < n)
    BY <1>1 DEF OpToRel
  <2> QED
    BY <2>1
<1> QED
  BY <1>2
================================================================================
