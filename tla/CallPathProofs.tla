----------------------------- MODULE CallPathProofs -----------------------------
(******************************************************************************)
(* Proofs about CallPath: the factory's client uses the best interface it     *)
(* can; what a caller gets was said on the way, or is generic; the server's   *)
(* interceptors nest; one client's calls carry one tenant.  For any card and  *)
(* preferences, any number of calls, interceptors and losses.                 *)
(******************************************************************************)
EXTENDS CallPath, SequenceLemmas, TLAPS

--------------------------------------------------------------------------------
(* The factory.                                                               *)

\* Sequences put together go one after the other.
LEMMA FlattenRecurs ==
    ASSUME NEW ss, Len(ss) \in Nat \ {0}
    PROVE  \E f : /\ FlattenSeq(ss) = f[Len(ss)]
                  /\ \A i \in 1..Len(ss) : f[i] = IF i = 1 THEN ss[i] ELSE f[i - 1] \o ss[i]
<1> DEFINE Solves(f, m) == f = [i \in 1..m |-> IF i = 1 THEN ss[i] ELSE f[i - 1] \o ss[i]]
           S == {m \in Nat : \E f : Solves(f, m)}
<1>1. 0 \in S
  <2>1. Solves([i \in 1..0 |-> <<>>], 0)
    OBVIOUS
  <2> QED
    BY <2>1
<1>2. ASSUME NEW m \in Nat, m \in S
      PROVE  m + 1 \in S
  <2>1. PICK f : Solves(f, m)
    BY <1>2
  <2> DEFINE g == [i \in 1..m + 1 |->
                     IF i <= m THEN f[i]
                     ELSE IF i = 1 THEN ss[i] ELSE f[i - 1] \o ss[i]]
  <2>2. \A i \in 1..m + 1 : g[i] = IF i = 1 THEN ss[i] ELSE g[i - 1] \o ss[i]
    <3>1. \A i \in 1..m : f[i] = IF i = 1 THEN ss[i] ELSE f[i - 1] \o ss[i]
      BY <2>1
    <3>2. \A i \in 1..m : g[i] = f[i]
      OBVIOUS
    <3>3. g[m + 1] = IF m + 1 = 1 THEN ss[m + 1] ELSE f[m] \o ss[m + 1]
      OBVIOUS
    <3> HIDE DEF g
    <3> TAKE i \in 1..m + 1
    <3>4. CASE i = m + 1
      <4>1. i # 1 => i - 1 = m /\ m \in 1..m
        BY <3>4
      <4> QED
        BY <3>2, <3>3, <3>4, <4>1
    <3>5. CASE i # m + 1
      <4>1. i \in 1..m /\ (i # 1 => i - 1 \in 1..m)
        BY <3>5
      <4> QED
        BY <3>1, <3>2, <4>1
    <3> QED
      BY <3>4, <3>5
  <2>3. Solves(g, m + 1)
    <3>1. g = [i \in 1..m + 1 |-> g[i]]
      OBVIOUS
    <3> HIDE DEF g
    <3> QED
      BY <2>2, <3>1
  <2> HIDE DEF Solves, g
  <2> QED
    BY <2>3
<1>3. PICK f : Solves(f, Len(ss)) /\ FlattenSeq(ss) = f[Len(ss)]
  <2>1. \E f : Solves(f, Len(ss))
    <3> HIDE DEF Solves
    <3>1. \A n \in Nat : n \in S => n + 1 \in S
      BY <1>2
    <3>2. Nat \subseteq S
      <4> HIDE DEF S
      <4> QED BY <1>1, <3>1, NatSetInduction
    <3> QED
      BY <3>2
  <2>2. FlattenSeq(ss) = (CHOOSE f : Solves(f, Len(ss)))[Len(ss)]
    BY DEF FlattenSeq
  <2> HIDE DEF Solves
  <2> QED
    BY <2>1, <2>2
<1>4. \A i \in 1..Len(ss) : f[i] = IF i = 1 THEN ss[i] ELSE f[i - 1] \o ss[i]
  BY <1>3
<1> QED
  BY <1>3, <1>4

\* The place of an interface's protocol among the preferred ones.
LEMMA RankIs ==
    ASSUME NEW s \in Setup, NEW i \in AgentInterface(Tenants)
    PROVE  /\ Rank(s, i) \in 1..Len(s.preferred) + 1 /\ Len(s.preferred) \in Nat
           /\ Rank(s, i) <= Len(s.preferred) => s.preferred[Rank(s, i)] = i.protocol
           /\ \A b \in 1..Len(s.preferred) : b < Rank(s, i) => s.preferred[b] # i.protocol
<1> DEFINE pref == s.preferred
           I == {a \in 1..Len(pref) : pref[a] = i.protocol}
<1>1. pref \in Seq(Protocols) /\ Len(pref) \in Nat /\ I \in SUBSET Nat
  BY DEF Setup
<1>2. Rank(s, i) = IF i.protocol \in ToSet(pref)
                   THEN (IF I # {} THEN Min(I) ELSE 0)
                   ELSE Len(pref) + 1
  BY DEF Rank, SelectInSeq
<1>3. i.protocol \in ToSet(pref) <=> I # {}
  BY <1>1 DEF ToSet
<1>4. CASE I = {}
  BY <1>1, <1>2, <1>3, <1>4
<1>5. CASE I # {}
  <2>1. \E n \in I : \A m \in I : n <= m
    <3> HIDE DEF I
    <3> QED
      BY <1>1, <1>5, NatMin
  <2>2. Rank(s, i) \in I /\ \A m \in I : Rank(s, i) <= m
    <3> HIDE DEF I
    <3> QED
      BY <1>2, <1>3, <1>5, <2>1 DEF Min
  <2>3. PICK r \in Nat : r = Rank(s, i)
    BY <1>1, <2>2
  <2>4. r \in 1..Len(pref) /\ pref[r] = i.protocol
    BY <2>2, <2>3
  <2>5. \A b \in 1..Len(pref) : b < r => pref[b] # i.protocol
    <3> SUFFICES ASSUME NEW b \in 1..Len(pref), b < r, pref[b] = i.protocol PROVE FALSE
      OBVIOUS
    <3>1. b \in I
      OBVIOUS
    <3> QED
      BY <2>2, <2>3, <3>1
  <2> QED
    BY <1>1, <2>3, <2>4, <2>5
<1> QED
  BY <1>4, <1>5

\* k has the candidates of rank n or less, the best first.
SortedTo(s, k, n) ==
    \E at \in [1..Len(k) -> 1..Len(s.interfaces)] :
        /\ \A p \in 1..Len(k) :
             /\ k[p] = s.interfaces[at[p]]
             /\ k[p].protocol \in s.builders /\ Rank(s, k[p]) \in 1..n
        /\ \A p, q \in 1..Len(k) :
             p < q => \/ Rank(s, k[p]) < Rank(s, k[q])
                      \/ Rank(s, k[p]) = Rank(s, k[q]) /\ at[p] < at[q]
        /\ \A i \in 1..Len(s.interfaces) :
             (s.interfaces[i].protocol \in s.builders /\ Rank(s, s.interfaces[i]) \in 1..n)
               => \E p \in 1..Len(k) : at[p] = i

\* The candidates of one more rank come behind those of better ones.
LEMMA SortedNext ==
    ASSUME NEW s \in Setup, NEW k \in Seq(AgentInterface(Tenants)), NEW n \in Nat,
           SortedTo(s, k, n),
           NEW h \in Seq(AgentInterface(Tenants)),
           KeptFrom(s.interfaces,
                    {i \in AgentInterface(Tenants) :
                       i.protocol \in s.builders /\ Rank(s, i) = n + 1},
                    h, Len(s.interfaces))
    PROVE  SortedTo(s, k \o h, n + 1)
<1> DEFINE T == AgentInterface(Tenants)
           l == k \o h
<1>1. PICK t \in Seq(T) : t = s.interfaces
  BY DEF Setup
<1>2. PICK m, c \in Nat : m = Len(k) /\ c = Len(h)
  OBVIOUS
<1>3. PICK at \in [1..m -> 1..Len(t)] :
        /\ \A p \in 1..m : /\ k[p] = t[at[p]]
                           /\ k[p].protocol \in s.builders /\ Rank(s, k[p]) \in 1..n
        /\ \A p, q \in 1..m :
             p < q => \/ Rank(s, k[p]) < Rank(s, k[q])
                      \/ Rank(s, k[p]) = Rank(s, k[q]) /\ at[p] < at[q]
        /\ \A i \in 1..Len(t) :
             (t[i].protocol \in s.builders /\ Rank(s, t[i]) \in 1..n)
               => \E p \in 1..m : at[p] = i
  <2>1. PICK at \in [1..Len(k) -> 1..Len(s.interfaces)] :
          /\ \A p \in 1..Len(k) :
               /\ k[p] = s.interfaces[at[p]]
               /\ k[p].protocol \in s.builders /\ Rank(s, k[p]) \in 1..n
          /\ \A p, q \in 1..Len(k) :
               p < q => \/ Rank(s, k[p]) < Rank(s, k[q])
                        \/ Rank(s, k[p]) = Rank(s, k[q]) /\ at[p] < at[q]
          /\ \A i \in 1..Len(s.interfaces) :
               (/\ s.interfaces[i].protocol \in s.builders
                /\ Rank(s, s.interfaces[i]) \in 1..n)
                 => \E p \in 1..Len(k) : at[p] = i
    BY Zenon DEF SortedTo
  <2> HIDE DEF T
  <2>2. /\ at \in [1..m -> 1..Len(t)]
        /\ \A p \in 1..m : /\ k[p] = t[at[p]]
                           /\ k[p].protocol \in s.builders /\ Rank(s, k[p]) \in 1..n
    BY <1>1, <1>2, <2>1
  <2>3. \A p, q \in 1..m :
          p < q => \/ Rank(s, k[p]) < Rank(s, k[q])
                   \/ Rank(s, k[p]) = Rank(s, k[q]) /\ at[p] < at[q]
    BY <1>2, <2>1
  <2>4. \A i \in 1..Len(t) :
          (t[i].protocol \in s.builders /\ Rank(s, t[i]) \in 1..n)
            => \E p \in 1..m : at[p] = i
    BY <1>1, <1>2, <2>1
  <2> QED
    BY <2>2, <2>3, <2>4, Zenon
<1>4. PICK to \in [1..c -> 1..Len(t)] :
        /\ \A p, q \in 1..c : p < q => to[p] < to[q]
        /\ \A p \in 1..c : h[p] = t[to[p]] /\ h[p].protocol \in s.builders /\ Rank(s, h[p]) = n + 1
        /\ \A i \in 1..Len(t) :
             (t[i].protocol \in s.builders /\ Rank(s, t[i]) = n + 1)
               => \E p \in 1..c : to[p] = i
  <2> DEFINE K == {i \in T : i.protocol \in s.builders /\ Rank(s, i) = n + 1}
  <2>1. PICK to \in [1..c -> 1..Len(t)] :
          /\ \A p, q \in 1..c : p < q => to[p] < to[q]
          /\ \A p \in 1..c : h[p] = t[to[p]] /\ t[to[p]] \in K
          /\ \A i \in 1..Len(t) : t[i] \in K => \E p \in 1..c : to[p] = i
    <3> HIDE DEF K
    <3>1. KeptFrom(t, K, h, Len(t))
      BY <1>1 DEF K
    <3>2. PICK into \in [1..Len(h) -> 1..Len(t)] :
            /\ \A p, q \in 1..Len(h) : p < q => into[p] < into[q]
            /\ \A p \in 1..Len(h) : h[p] = t[into[p]] /\ t[into[p]] \in K
            /\ \A i \in 1..Len(t) : t[i] \in K => \E p \in 1..Len(h) : into[p] = i
      BY <3>1, Zenon DEF KeptFrom
    <3>3. c = Len(h)
      BY <1>2
    <3> QED
      BY <3>2, <3>3, Zenon
  <2>2. \A i \in 1..Len(t) :
          t[i] \in K <=> (t[i].protocol \in s.builders /\ Rank(s, t[i]) = n + 1)
    <3>1. \A i \in 1..Len(t) : t[i] \in T
      <4> HIDE DEF T
      <4> QED
        OBVIOUS
    <3> HIDE DEF T
    <3> QED
      BY <3>1
  <2> HIDE DEF K
  <2>3. \A p \in 1..c : /\ h[p] = t[to[p]] /\ h[p].protocol \in s.builders
                        /\ Rank(s, h[p]) = n + 1
    <3> TAKE p \in 1..c
    <3>1. PICK i \in 1..Len(t) : i = to[p]
      OBVIOUS
    <3>2. h[p] = t[i] /\ t[i] \in K
      BY <2>1, <3>1
    <3> QED
      BY <2>2, <3>1, <3>2
  <2>4. \A i \in 1..Len(t) :
          (t[i].protocol \in s.builders /\ Rank(s, t[i]) = n + 1)
            => \E p \in 1..c : to[p] = i
    BY <2>1, <2>2
  <2> QED
    BY <2>1, <2>3, <2>4
<1>5. /\ l \in Seq(T) /\ Len(l) = m + c
      /\ \A p \in 1..m : l[p] = k[p]
      /\ \A p \in 1..c : l[m + p] = h[p]
      /\ \A p \in 1..m + c : p \in 1..m \/ \E q \in 1..c : p = m + q
  <2>1. k \in Seq(T) /\ h \in Seq(T)
    OBVIOUS
  <2> HIDE DEF T
  <2> QED
    BY <1>2, <2>1, ConcatOf
<1> DEFINE both == [p \in 1..m + c |-> IF p <= m THEN at[p] ELSE to[p - m]]
<1>6. /\ both \in [1..m + c -> 1..Len(t)]
      /\ \A p \in 1..m : both[p] = at[p]
      /\ \A p \in 1..c : both[m + p] = to[p]
  <2>1. \A p \in 1..m + c : (p <= m => p \in 1..m) /\ (~(p <= m) => p - m \in 1..c)
    OBVIOUS
  <2>2. \A p \in 1..c : m + p \in 1..m + c /\ ~(m + p <= m) /\ (m + p) - m = p
    OBVIOUS
  <2> QED
    BY <2>1, <2>2
<1> HIDE DEF both, l, T
<1>7. ASSUME NEW p \in 1..m + c
      PROVE  /\ l[p] = t[both[p]]
             /\ l[p].protocol \in s.builders /\ Rank(s, l[p]) \in 1..n + 1
             /\ p \in 1..m => Rank(s, l[p]) <= n
             /\ p \notin 1..m => Rank(s, l[p]) = n + 1
  <2>1. CASE p \in 1..m
    <3>1. l[p] = k[p] /\ both[p] = at[p]
      BY <1>5, <1>6, <2>1
    <3>2. k[p] = t[at[p]] /\ k[p].protocol \in s.builders /\ Rank(s, k[p]) \in 1..n
      BY <1>3, <2>1
    <3> QED
      BY <2>1, <3>1, <3>2
  <2>2. ASSUME NEW q \in 1..c, p = m + q
        PROVE  /\ l[p] = t[both[p]] /\ l[p].protocol \in s.builders /\ Rank(s, l[p]) = n + 1
               /\ p \notin 1..m
    <3>1. p \notin 1..m
      BY <2>2
    <3>2. l[p] = h[q] /\ both[p] = to[q]
      BY <1>5, <1>6, <2>2
    <3> QED
      BY <1>4, <3>1, <3>2
  <2> QED
    BY <1>5, <2>1, <2>2
<1>8. ASSUME NEW p \in 1..m + c, NEW q \in 1..m + c, p < q
      PROVE  \/ Rank(s, l[p]) < Rank(s, l[q])
             \/ Rank(s, l[p]) = Rank(s, l[q]) /\ both[p] < both[q]
  <2>1. CASE q \in 1..m
    <3>1. p \in 1..m
      BY <1>8, <2>1
    <3> QED
      BY <1>3, <1>5, <1>6, <1>8, <2>1, <3>1
  <2>2. CASE p \in 1..m /\ q \notin 1..m
    <3>1. Rank(s, l[p]) \in 1..n + 1 /\ Rank(s, l[p]) <= n /\ Rank(s, l[q]) = n + 1
      BY <1>7, <2>2
    <3> QED
      BY <3>1
  <2>3. CASE p \notin 1..m
    <3>1. q \notin 1..m
      BY <1>8, <2>3
    <3>2. PICK a \in 1..c, b \in 1..c : p = m + a /\ q = m + b
      BY <1>5, <2>3, <3>1
    <3>3. a < b
      BY <1>8, <3>2
    <3> QED
      BY <1>4, <1>6, <1>7, <2>3, <3>1, <3>2, <3>3, ZenonT(40)
  <2> QED
    BY <2>1, <2>2, <2>3
<1>9. ASSUME NEW i \in 1..Len(t), t[i].protocol \in s.builders, Rank(s, t[i]) \in 1..n + 1
      PROVE  \E p \in 1..m + c : both[p] = i
  <2>1. CASE Rank(s, t[i]) \in 1..n
    <3>1. PICK p \in 1..m : at[p] = i
      BY <1>3, <1>9, <2>1
    <3>2. p \in 1..m + c /\ both[p] = i
      BY <1>6, <3>1
    <3> QED
      BY <3>2
  <2>2. CASE Rank(s, t[i]) = n + 1
    <3>1. PICK p \in 1..c : to[p] = i
      BY <1>4, <1>9, <2>2
    <3>2. m + p \in 1..m + c /\ both[m + p] = i
      BY <1>6, <3>1
    <3> QED
      BY <3>2
  <2> QED
    BY <1>9, <2>1, <2>2
<1>10. SortedTo(s, l, n + 1)
  <2>1. both \in [1..Len(l) -> 1..Len(t)]
    BY <1>5, <1>6
  <2>2. \A p \in 1..Len(l) :
          /\ l[p] = t[both[p]]
          /\ l[p].protocol \in s.builders /\ Rank(s, l[p]) \in 1..n + 1
    BY <1>5, <1>7
  <2>3. \A p, q \in 1..Len(l) :
          p < q => \/ Rank(s, l[p]) < Rank(s, l[q])
                   \/ Rank(s, l[p]) = Rank(s, l[q]) /\ both[p] < both[q]
    BY <1>5, <1>8
  <2>4. \A i \in 1..Len(t) :
          (t[i].protocol \in s.builders /\ Rank(s, t[i]) \in 1..n + 1)
            => \E p \in 1..Len(l) : both[p] = i
    BY <1>5, <1>9
  <2> QED
    BY <1>1, <2>1, <2>2, <2>3, <2>4, ZenonT(40) DEF SortedTo
<1> QED
  BY <1>10 DEF l

\* The candidates are the interfaces with a builder, sorted: by the place of
\* their protocols, and those of one protocol in the order of the card.
LEMMA CandidatesSorted ==
    ASSUME NEW s \in Setup
    PROVE  /\ Candidates(s) \in Seq(AgentInterface(Tenants))
           /\ SortedTo(s, Candidates(s), Len(s.preferred) + 1)
<1> DEFINE T == AgentInterface(Tenants)
           Of(r) == {i \in T : i.protocol \in s.builders /\ Rank(s, i) = r}
           ss == [r \in 1..Len(s.preferred) + 1 |-> Kept(s.interfaces, Of(r))]
<1>1. s.interfaces \in Seq(T) /\ s.preferred \in Seq(Protocols)
  BY DEF Setup
<1>2. PICK N \in Nat \ {0} : N = Len(s.preferred) + 1
  BY <1>1
<1>3. Len(ss) = N /\ \A r \in 1..N : ss[r] = Kept(s.interfaces, Of(r))
  <2> HIDE DEF Of
  <2> QED
    BY <1>2
<1>4. \A r \in 1..N :
        /\ ss[r] \in Seq(T)
        /\ KeptFrom(s.interfaces, Of(r), ss[r], Len(s.interfaces))
  <2> HIDE DEF T, Of, ss
  <2> QED
    BY <1>1, <1>3, KeptProperties
<1>5. Candidates(s) = FlattenSeq(ss)
  BY DEF Candidates
<1> HIDE DEF ss, T
<1>6. PICK f : /\ FlattenSeq(ss) = f[N]
               /\ \A i \in 1..N : f[i] = IF i = 1 THEN ss[i] ELSE f[i - 1] \o ss[i]
  BY <1>3, FlattenRecurs
<1> DEFINE S == {m \in Nat : m + 1 <= N => f[m + 1] \in Seq(T) /\ SortedTo(s, f[m + 1], m + 1)}
<1>7. 0 \in S
  <2>1. f[1] = ss[1]
    BY <1>2, <1>6
  <2>2. SortedTo(s, <<>>, 0)
    <3>1. Len(<<>>) = 0 /\ 1..0 = {}
      OBVIOUS
    <3>2. [p \in {} |-> 0] \in [{} -> 1..Len(s.interfaces)]
      OBVIOUS
    <3> QED
      BY <3>1, <3>2 DEF SortedTo
  <2>3. ss[1] \in Seq(T) /\ KeptFrom(s.interfaces, Of(0 + 1), ss[1], Len(s.interfaces))
    <3>1. 0 + 1 \in 1..N /\ 0 + 1 = 1
      BY <1>2
    <3> HIDE DEF Of
    <3> QED
      BY <1>4, <3>1
  <2>4. <<>> \o ss[1] = ss[1] /\ <<>> \in Seq(T)
    BY <2>3
  <2>5. SortedTo(s, <<>> \o ss[1], 0 + 1)
    BY <2>2, <2>3, <2>4, SortedNext DEF T
  <2> QED
    BY <2>1, <2>3, <2>4, <2>5
<1>8. ASSUME NEW n \in Nat, n \in S
      PROVE  n + 1 \in S
  <2> SUFFICES ASSUME (n + 1) + 1 <= N
               PROVE  f[(n + 1) + 1] \in Seq(T) /\ SortedTo(s, f[(n + 1) + 1], (n + 1) + 1)
    OBVIOUS
  <2>1. PICK g, h : g = f[n + 1] /\ h = ss[(n + 1) + 1]
    OBVIOUS
  <2>2. f[(n + 1) + 1] = g \o h
    <3>1. (n + 1) + 1 \in 1..N /\ (n + 1) + 1 # 1 /\ ((n + 1) + 1) - 1 = n + 1
      OBVIOUS
    <3> QED
      BY <1>6, <2>1, <3>1
  <2>3. g \in Seq(T) /\ SortedTo(s, g, n + 1)
    BY <1>8, <2>1
  <2>4. h \in Seq(T) /\ KeptFrom(s.interfaces, Of((n + 1) + 1), h, Len(s.interfaces))
    <3>1. (n + 1) + 1 \in 1..N
      OBVIOUS
    <3> HIDE DEF Of
    <3> QED
      BY <1>4, <2>1, <3>1
  <2>5. SortedTo(s, g \o h, (n + 1) + 1)
    <3>1. PICK m \in Nat : m = n + 1
      OBVIOUS
    <3>2. SortedTo(s, g, m) /\ KeptFrom(s.interfaces, Of(m + 1), h, Len(s.interfaces))
      BY <2>3, <2>4, <3>1
    <3>3. SortedTo(s, g \o h, m + 1)
      BY <2>3, <2>4, <3>2, SortedNext DEF T
    <3> QED
      BY <3>1, <3>3
  <2> QED
    BY <2>2, <2>3, <2>4, <2>5
<1>9. N - 1 \in S
  <2>1. \A n \in Nat : n \in S => n + 1 \in S
    BY <1>8
  <2>2. Nat \subseteq S
    <3> HIDE DEF S
    <3> QED BY <1>7, <2>1, NatSetInduction
  <2> HIDE DEF S
  <2> QED
    BY <2>2
<1>10. f[N] \in Seq(T) /\ SortedTo(s, f[N], N)
  <2>1. (N - 1) + 1 = N
    OBVIOUS
  <2> QED
    BY <1>9, <2>1
<1> QED
  BY <1>2, <1>5, <1>6, <1>10 DEF T

--------------------------------------------------------------------------------
(* The errors.                                                                *)

\* A code is read back as the error it stands for, or as a generic one.
LEMMA CodesReadBack == \A e : ErrorOfCode(CodeOf(e)) \in {e, "InternalError"}
<1> SUFFICES ASSUME NEW e PROVE ErrorOfCode(CodeOf(e)) \in {e, "InternalError"}
  OBVIOUS
<1>1. ProtocolErrors = {"ParseError", "InvalidRequest", "MethodNotFound", "InvalidParams",
        "InternalError", "ServerError", "TaskNotFound", "TaskNotCancelable",
        "PushNotificationNotSupported", "UnsupportedOperation", "ContentTypeNotSupported",
        "InvalidAgentResponse", "ExtendedCardNotConfigured", "ConcurrentTaskModification",
        "ExtensionSupportRequired", "VersionNotSupported", "Unauthenticated", "Unauthorized"}
  BY DEF ProtocolErrors, JsonRpcErrorCode
<1>2. \A a, b \in ProtocolErrors : JsonRpcErrorCode[a] = JsonRpcErrorCode[b] => a = b
  BY <1>1 DEF JsonRpcErrorCode
<1>3. "InternalError" \in ProtocolErrors
  BY <1>1
<1>4. PICK a \in ProtocolErrors : CodeOf(e) = JsonRpcErrorCode[a] /\ a \in {e, "InternalError"}
  BY <1>3 DEF CodeOf
<1>5. \/ ErrorOfCode(CodeOf(e)) = "InternalError"
      \/ /\ ErrorOfCode(CodeOf(e)) \in ProtocolErrors
         /\ JsonRpcErrorCode[ErrorOfCode(CodeOf(e))] = CodeOf(e)
  BY DEF ErrorOfCode
<1> QED
  BY <1>2, <1>4, <1>5

\* A reason is read back as the error it was written for, or as no known one.
LEMMA ReasonsReadBack == \A e : ErrorOfReason(ReasonOf(e)) \in {e, "Other"}
<1> SUFFICES ASSUME NEW e PROVE ErrorOfReason(ReasonOf(e)) \in {e, "Other"}
  OBVIOUS
<1>1. CASE e \notin DOMAIN RestReason
  BY <1>1 DEF ErrorOfReason, ReasonOf, KnownReasons
<1>2. CASE e \in DOMAIN RestReason
  BY <1>2 DEF ErrorOfReason, ReasonOf, RestReason, KnownReasons
<1> QED
  BY <1>1, <1>2

\* What a caller gets for an error is that error, or generic.
LEMMA HandlerErrorRead ==
    ASSUME NEW iface \in AgentInterface(Tenants), NEW op, NEW e
    PROVE  HandlerErrorSeen(iface, op, e) \in {e} \union Generic
<1>1. iface.protocol \in {"JSONRPC", "HTTP+JSON", "GRPC"}
  BY DEF AgentInterface, Protocols
<1>2. /\ ErrorOfCode(CodeOf(e)) \in {e, "InternalError"}
      /\ ErrorOfReason(ReasonOf(e)) \in {e, "Other"}
  BY CodesReadBack, ReasonsReadBack
<1> QED
  BY <1>1, <1>2 DEF HandlerErrorSeen, Generic

--------------------------------------------------------------------------------
(* The invariant.                                                             *)

OpType == ClientOps \union {"none"}
PcType ==
    {"idle", "clientBefore", "connect", "sent", "clientAfter", "done"} \union OnServer
CallType ==
    [op : OpType, wire : OpType, pc : PcType, at : Int,
     result : Outcome \union {Unanswered}, said : SUBSET Outcome, seen : Seq(Int),
     broken : BOOLEAN, tenant : Tenants \union {""}, handled : BOOLEAN]

\* Types of the variables.
TypeOK ==
    /\ setup \in Setup
    /\ todo \in Seq(AgentInterface(Tenants)) /\ failed \subseteq AgentInterface(Tenants)
    /\ made \in {"building", "made", "InvalidParams", "Other"}
    /\ card \in AgentCard /\ served \in AgentCard
    /\ lock \subseteq Calls /\ canceled \in BOOLEAN /\ lost \in Nat
    /\ call \in [Calls -> CallType]

\* The candidates that are gone have failed.
Tried ==
    /\ made \in {"building", "made"} => todo # <<>>
    /\ \E k \in 0..Len(Candidates(setup)) :
        /\ todo = SubSeq(Candidates(setup), k + 1, Len(Candidates(setup)))
        /\ \A i \in 1..k : Candidates(setup)[i] \in failed

\* What a call's record says of its answer,
Explained(r) ==
    /\ r.result \in {Unanswered} \union r.said \union Generic \union {"Http"}
    /\ r.pc \in {"serverAfter", "reply", "clientAfter", "done"} => r.result # Unanswered

\* of the interceptors it has seen (the first k of all, in and out again),
Onion(k) ==
    [i \in 1..k |-> IF i <= ServerInterceptors THEN i ELSE i - 2 * ServerInterceptors - 1]

Early == {"idle", "clientBefore", "connect", "sent"}

Layers(r) ==
    /\ r.pc \in Early \union {"serverBefore", "handler", "waiting"} => ~r.handled
    /\ r.pc = "serverAfter" => r.handled /\ r.wire \notin Streaming
    /\ ~r.broken =>
        /\ r.pc \in Early => r.seen = <<>>
        /\ r.pc = "serverBefore" => /\ r.at \in 1..ServerInterceptors + 1
                                    /\ r.seen = Onion(r.at - 1)
        /\ r.pc \in {"handler", "waiting"} => r.seen = Onion(ServerInterceptors)
        /\ r.pc = "serverAfter" => /\ r.at \in 0..ServerInterceptors
                                   /\ r.seen = Onion(2 * ServerInterceptors - r.at)
        /\ (r.pc \in {"reply", "clientAfter", "done"} /\ r.handled) =>
             r.seen = Onion(IF r.wire \in Streaming THEN ServerInterceptors
                            ELSE 2 * ServerInterceptors)

\* and of the tenant that reached the server.
Received(r) ==
    /\ (r.pc # "idle" \/ r.handled) => made = "made"
    /\ (r.pc \in OnServer \/ r.handled) =>
         /\ r.wire # "card"
         /\ r.tenant = TenantReceived(Chosen, r.wire)

RecordOK(r) == r \in CallType /\ Explained(r) /\ Layers(r) /\ Received(r)

\* The inductive invariant.
CallInv == TypeOK /\ Tried /\ \A c \in Calls : RecordOK(call[c])

\* The records that the steps of a call make.
LEMMA GoesIs ==
    ASSUME NEW c, call[c] \in CallType, NEW pc \in PcType, NEW at \in Int
    PROVE  LET o == call[c]
               r == Goes(c, pc, at)
           IN  /\ r \in CallType /\ r.pc = pc /\ r.at = at
               /\ r.op = o.op /\ r.wire = o.wire /\ r.result = o.result /\ r.said = o.said
               /\ r.seen = o.seen /\ r.broken = o.broken /\ r.tenant = o.tenant
               /\ r.handled = o.handled
BY DEF Goes, CallType

\* Answering moves the call on with that outcome and says it.
LEMMA AnswersIs ==
    ASSUME NEW c, call[c] \in CallType, NEW pc \in PcType, NEW at \in Int,
           NEW outcome \in Outcome
    PROVE  LET o == call[c]
               r == Answers(c, pc, at, outcome)
           IN  /\ r \in CallType /\ r.pc = pc /\ r.at = at /\ r.result = outcome
               /\ r.op = o.op /\ r.wire = o.wire /\ r.said = o.said
               /\ r.seen = o.seen /\ r.broken = o.broken /\ r.tenant = o.tenant
               /\ r.handled = o.handled
BY DEF Answers, Goes, CallType

\* Saying an outcome changes nothing but what has been said.
LEMMA SayingIs ==
    ASSUME NEW o \in CallType, NEW outcome \in Outcome
    PROVE  LET r == Saying(o, outcome)
           IN  /\ r \in CallType /\ r.said = o.said \union {outcome}
               /\ r.op = o.op /\ r.wire = o.wire /\ r.pc = o.pc /\ r.at = o.at
               /\ r.result = o.result
               /\ r.seen = o.seen /\ r.broken = o.broken /\ r.tenant = o.tenant
               /\ r.handled = o.handled
BY DEF Saying, CallType

\* Giving a record a result changes nothing but the result.
LEMMA ResultIs ==
    ASSUME NEW o \in CallType, NEW outcome \in Outcome
    PROVE  LET r == [o EXCEPT !.result = outcome]
           IN  /\ r \in CallType /\ r.said = o.said
               /\ r.op = o.op /\ r.wire = o.wire /\ r.pc = o.pc /\ r.at = o.at
               /\ r.result = outcome
               /\ r.seen = o.seen /\ r.broken = o.broken /\ r.tenant = o.tenant
               /\ r.handled = o.handled
BY DEF CallType

\* Marking a call broken changes nothing else.
LEMMA BrokenIs ==
    ASSUME NEW o \in CallType
    PROVE  LET r == [o EXCEPT !.broken = TRUE]
           IN  /\ r \in CallType /\ r.said = o.said
               /\ r.op = o.op /\ r.wire = o.wire /\ r.pc = o.pc /\ r.at = o.at
               /\ r.result = o.result
               /\ r.seen = o.seen /\ r.broken /\ r.tenant = o.tenant
               /\ r.handled = o.handled
BY DEF CallType

\* Noting an interceptor leaves the rest of the record alone.
LEMMA SeenIs ==
    ASSUME NEW o \in CallType, NEW i \in Int
    PROVE  LET r == [o EXCEPT !.seen = Append(@, i)]
           IN  /\ r \in CallType /\ r.said = o.said
               /\ r.op = o.op /\ r.wire = o.wire /\ r.pc = o.pc /\ r.at = o.at
               /\ r.result = o.result
               /\ r.seen = Append(o.seen, i) /\ r.broken = o.broken /\ r.tenant = o.tenant
               /\ r.handled = o.handled
<1>1. PICK seen \in Seq(Int) : seen = Append(o.seen, i)
  <2>1. PICK q \in Seq(Int) : q = o.seen
    BY DEF CallType
  <2>2. Append(q, i) \in Seq(Int)
    OBVIOUS
  <2> QED
    BY <2>1, <2>2
<1>2. PICK r : r = [o EXCEPT !.seen = seen]
  OBVIOUS
<1>3. /\ r \in CallType /\ r.said = o.said
      /\ r.op = o.op /\ r.wire = o.wire /\ r.pc = o.pc /\ r.at = o.at
      /\ r.result = o.result
      /\ r.seen = seen /\ r.broken = o.broken /\ r.tenant = o.tenant
      /\ r.handled = o.handled
  BY <1>2 DEF CallType
<1> QED
  BY <1>1, <1>2, <1>3

\* One layer more.
LEMMA OnionNext ==
    ASSUME NEW k \in 0..2 * ServerInterceptors - 1
    PROVE  Append(Onion(k), IF k + 1 <= ServerInterceptors THEN k + 1
                            ELSE k - 2 * ServerInterceptors)
             = Onion(k + 1)
<1>1. PICK n \in Nat : n = ServerInterceptors
  BY CallPathAssumption
<1>2. k \in Nat /\ k \in 0..2 * n - 1
  BY <1>1
<1> DEFINE elem(i) == IF i <= n THEN i ELSE i - 2 * n - 1
<1>3. \A j \in Nat : /\ Onion(j) \in Seq(Int) /\ Len(Onion(j)) = j
                     /\ \A i \in 1..j : Onion(j)[i] = elem(i)
  <2> TAKE j \in Nat
  <2>1. Onion(j) \in [1..j -> Int] /\ \A i \in 1..j : Onion(j)[i] = elem(i)
    BY <1>1 DEF Onion
  <2> QED
    BY <2>1
<1>4. PICK x \in Int : /\ x = elem(k + 1)
                       /\ x = IF k + 1 <= ServerInterceptors THEN k + 1
                              ELSE k - 2 * ServerInterceptors
  BY <1>1, <1>2
<1> HIDE DEF elem
<1>5. PICK a, b : a = Onion(k) /\ b = Onion(k + 1)
  OBVIOUS
<1>6. /\ a \in Seq(Int) /\ Len(a) = k /\ \A i \in 1..k : a[i] = elem(i)
      /\ b \in Seq(Int) /\ Len(b) = k + 1 /\ \A i \in 1..k + 1 : b[i] = elem(i)
  <2>1. /\ Onion(k) \in Seq(Int) /\ Len(Onion(k)) = k
        /\ \A i \in 1..k : Onion(k)[i] = elem(i)
    BY <1>2, <1>3
  <2>2. k + 1 \in Nat
    BY <1>2
  <2>3. /\ Onion(k + 1) \in Seq(Int) /\ Len(Onion(k + 1)) = k + 1
        /\ \A i \in 1..k + 1 : Onion(k + 1)[i] = elem(i)
    BY <1>3, <2>2
  <2> QED
    BY <1>5, <2>1, <2>3
<1>7. Append(a, x) = b
  <2>1. /\ Append(a, x) \in Seq(Int) /\ Len(Append(a, x)) = k + 1
        /\ \A i \in 1..k : Append(a, x)[i] = a[i]
        /\ Append(a, x)[k + 1] = x
    BY <1>2, <1>6
  <2>2. PICK l : l = Append(a, x)
    OBVIOUS
  <2>3. \A i \in 1..k + 1 : l[i] = b[i]
    <3> TAKE i \in 1..k + 1
    <3>1. i \in 1..k \/ i = k + 1
      BY <1>2
    <3> QED
      BY <1>4, <1>6, <2>1, <2>2, <3>1
  <2> QED
    BY <1>6, <2>1, <2>2, <2>3, SameElements
<1> QED
  BY <1>4, <1>5, <1>7

\* A made client has an interface of the card, of a protocol it was built for.
LEMMA ChosenIs ==
    ASSUME CallInv, made = "made"
    PROVE  /\ Chosen \in AgentInterface(Tenants)
           /\ Chosen.protocol \in {"JSONRPC", "HTTP+JSON", "GRPC"}
           /\ Chosen.tenant \in Tenants \union {""} /\ Chosen.path \in Tenants \union {""}
<1>1. PICK s : s = todo /\ s \in Seq(AgentInterface(Tenants)) /\ s # <<>>
  BY DEF CallInv, TypeOK, Tried
<1>2. Head(s) \in AgentInterface(Tenants)
  <2>1. s[1] \in AgentInterface(Tenants) /\ Head(s) = s[1]
    BY <1>1, TailOf
  <2> QED
    BY <2>1
<1>3. Chosen \in AgentInterface(Tenants)
  BY <1>1, <1>2 DEF Chosen
<1> QED
  BY <1>3 DEF AgentInterface, Protocols

\* The step of one call.
RecordStep(c) == \E r : RecordOK(r) /\ call' = [call EXCEPT ![c] = r]

\* An outcome that is back at the client ends the call or meets the interceptors.
LEMMA BackIs ==
    ASSUME CallInv, NEW c \in Calls, NEW outcome \in Outcome
    PROVE  LET o == call[c]
               r == BackToClient(c, outcome)
           IN  /\ r \in CallType /\ r.pc \in {"done", "clientAfter"} /\ r.result = outcome
               /\ r.op = o.op /\ r.wire = o.wire /\ r.said = o.said
               /\ r.seen = o.seen /\ r.broken = o.broken /\ r.tenant = o.tenant
               /\ r.handled = o.handled
<1>1. call[c] \in CallType /\ "done" \in PcType /\ "clientAfter" \in PcType /\ 1 \in Int
  BY DEF CallInv, TypeOK, PcType
<1> QED
  BY <1>1, AnswersIs DEF BackToClient

\* A call that starts has run no interceptor and said nothing.
LEMMA StartStep ==
    ASSUME CallInv, NEW c \in Calls, Start(c)
    PROVE  RecordStep(c)
<1>1. PICK o : o = call[c] /\ RecordOK(o)
  BY DEF CallInv
<1>2. PICK r : r = Goes(c, "clientBefore", 1)
  OBVIOUS
<1>3. call' = [call EXCEPT ![c] = r] /\ made = "made" /\ o.pc = "idle"
  BY <1>1, <1>2 DEF Start, Step, Pc
<1>4. /\ r \in CallType /\ r.pc = "clientBefore"
      /\ r.op = o.op /\ r.wire = o.wire /\ r.result = o.result /\ r.said = o.said
      /\ r.seen = o.seen /\ r.broken = o.broken /\ r.tenant = o.tenant
      /\ r.handled = o.handled
  <2>1. call[c] \in CallType /\ "clientBefore" \in PcType /\ 1 \in Int
    BY <1>1 DEF RecordOK, PcType
  <2> QED
    BY <1>1, <1>2, <2>1, GoesIs
<1>5. RecordOK(r)
  BY <1>1, <1>3, <1>4 DEF RecordOK, Explained, Layers, Received, Early, OnServer
<1> QED
  BY <1>3, <1>5 DEF RecordStep

\* So has a request for the extended card; one without a client round trip ends at once.
LEMMA StartCardStep ==
    ASSUME CallInv, NEW c \in Calls, StartCard(c)
    PROVE  RecordStep(c)
<1>1. PICK o : o = call[c] /\ RecordOK(o)
  BY DEF CallInv
<1>2. /\ call[c] \in CallType /\ "connect" \in PcType /\ "done" \in PcType
      /\ 1 \in Int /\ "ok" \in Outcome
  BY <1>1 DEF RecordOK, PcType, Outcome
<1>3. made = "made" /\ o.pc = "idle"
  BY <1>1 DEF StartCard, Pc
<1>4. CASE card.extended
  <2>1. PICK r : r = Goes(c, "connect", 1)
    OBVIOUS
  <2>2. call' = [call EXCEPT ![c] = r]
    BY <1>4, <2>1 DEF StartCard, Step
  <2>3. /\ r \in CallType /\ r.pc = "connect"
        /\ r.op = o.op /\ r.wire = o.wire /\ r.result = o.result /\ r.said = o.said
        /\ r.seen = o.seen /\ r.broken = o.broken /\ r.tenant = o.tenant
        /\ r.handled = o.handled
    BY <1>1, <1>2, <2>1, GoesIs
  <2>4. RecordOK(r)
    BY <1>1, <1>3, <2>3 DEF RecordOK, Explained, Layers, Received, Early, OnServer
  <2> QED
    BY <2>2, <2>4 DEF RecordStep
<1>5. CASE ~card.extended
  <2>1. PICK a : a = Answers(c, "done", 1, "ok")
    OBVIOUS
  <2>2. PICK r : r = Saying(a, "ok")
    OBVIOUS
  <2>3. call' = [call EXCEPT ![c] = r]
    BY <1>5, <2>1, <2>2 DEF StartCard, Step
  <2>4. /\ a \in CallType /\ a.pc = "done" /\ a.result = "ok"
        /\ a.op = o.op /\ a.wire = o.wire /\ a.said = o.said
        /\ a.seen = o.seen /\ a.broken = o.broken /\ a.tenant = o.tenant
        /\ a.handled = o.handled
    <3>1. /\ a \in CallType /\ a.pc = "done" /\ a.result = "ok"
          /\ a.op = call[c].op /\ a.wire = call[c].wire /\ a.said = call[c].said
          /\ a.seen = call[c].seen /\ a.broken = call[c].broken
          /\ a.tenant = call[c].tenant /\ a.handled = call[c].handled
      BY <1>2, <2>1, AnswersIs
    <3> QED
      BY <1>1, <3>1
  <2>5. /\ r \in CallType /\ r.pc = "done" /\ r.result = "ok"
        /\ r.wire = o.wire /\ r.said = o.said \union {"ok"}
        /\ r.tenant = o.tenant /\ r.handled = o.handled
    BY <1>2, <2>2, <2>4, SayingIs
  <2>6. RecordOK(r)
    BY <1>1, <1>3, <2>5 DEF RecordOK, Explained, Layers, Received, Early, OnServer, Unanswered
  <2> QED
    BY <2>3, <2>6 DEF RecordStep
<1> QED
  BY <1>4, <1>5

\* An interceptor, of the client or the server, fails: it says its error, and
\* the walk ends.
FailedWith(c, pc, e) == [Saying(Answers(c, pc, 1, e), e) EXCEPT !.broken = TRUE]

\* A call an interceptor failed has the interceptor's error as its result, and said.
LEMMA FailedIs ==
    ASSUME CallInv, NEW c \in Calls, NEW pc \in PcType, NEW e \in InterceptorErrors
    PROVE  LET f == FailedWith(c, pc, e)
           IN  /\ f \in CallType /\ f.pc = pc /\ f.result = e /\ f.broken
               /\ f.result # Unanswered
               /\ f.said = call[c].said \union {e} /\ f.wire = call[c].wire
               /\ f.tenant = call[c].tenant /\ f.handled = call[c].handled
<1>1. e \in Outcome /\ e # Unanswered /\ call[c] \in CallType /\ 1 \in Int
  BY CallPathAssumption DEF Outcome, Unanswered, A2AError, OtherErrors, ProtocolErrors,
     JsonRpcErrorCode, CallInv, TypeOK
<1>2. PICK a : a = Answers(c, pc, 1, e)
  OBVIOUS
<1>3. /\ a \in CallType /\ a.pc = pc /\ a.result = e /\ a.wire = call[c].wire
      /\ a.said = call[c].said /\ a.tenant = call[c].tenant /\ a.handled = call[c].handled
  BY <1>1, <1>2 DEF Answers, Goes, CallType
<1>4. PICK b : b = Saying(a, e)
  OBVIOUS
<1>5. /\ b \in CallType /\ b.pc = pc /\ b.result = e /\ b.wire = call[c].wire
      /\ b.said = call[c].said \union {e} /\ b.tenant = call[c].tenant
      /\ b.handled = call[c].handled
  BY <1>1, <1>3, <1>4, SayingIs
<1>6. PICK r : r = FailedWith(c, pc, e) /\ r = [b EXCEPT !.broken = TRUE]
  BY <1>2, <1>4 DEF FailedWith
<1>7. /\ r \in CallType /\ r.pc = b.pc /\ r.result = b.result /\ r.broken
      /\ r.said = b.said /\ r.wire = b.wire /\ r.tenant = b.tenant /\ r.handled = b.handled
  BY <1>5, <1>6 DEF CallType
<1> QED
  BY <1>1, <1>5, <1>6, <1>7

\* A client interceptor's before: the layers so far, one more, or a broken call.
LEMMA ClientBeforeStep ==
    ASSUME CallInv, NEW c \in Calls, ClientBefore(c)
    PROVE  RecordStep(c)
<1>1. PICK o : o = call[c] /\ RecordOK(o)
  BY DEF CallInv
<1>2. /\ call[c] \in CallType
      /\ "clientBefore" \in PcType /\ "connect" \in PcType /\ "done" \in PcType
      /\ 1 \in Int /\ o.at + 1 \in Int
  <2>1. call[c] \in CallType /\ o.at \in Int
    BY <1>1 DEF RecordOK, CallType
  <2> QED
    BY <2>1 DEF PcType
<1>3. o.pc = "clientBefore"
  BY <1>1 DEF ClientBefore, Pc
<1>4. CASE Step(c, Goes(c, "clientBefore", call[c].at + 1))
  <2>1. PICK r : r = Goes(c, "clientBefore", o.at + 1)
    OBVIOUS
  <2>2. call' = [call EXCEPT ![c] = r]
    BY <1>1, <1>4, <2>1 DEF Step
  <2>3. /\ r \in CallType /\ r.pc = "clientBefore"
        /\ r.op = o.op /\ r.wire = o.wire /\ r.result = o.result /\ r.said = o.said
        /\ r.seen = o.seen /\ r.broken = o.broken /\ r.tenant = o.tenant
        /\ r.handled = o.handled
    BY <1>1, <1>2, <2>1, GoesIs
  <2>4. RecordOK(r)
    BY <1>1, <1>3, <2>3 DEF RecordOK, Explained, Layers, Received, Early, OnServer
  <2> QED
    BY <2>2, <2>4 DEF RecordStep
<1>5. ASSUME NEW e \in InterceptorErrors,
             Step(c, [Saying(Answers(c, "done", 1, e), e) EXCEPT !.broken = TRUE])
      PROVE  RecordStep(c)
  <2>1. PICK r : r = FailedWith(c, "done", e)
    OBVIOUS
  <2>2. call' = [call EXCEPT ![c] = r]
    BY <1>5, <2>1 DEF Step, FailedWith
  <2>3. /\ r \in CallType /\ r.pc = "done" /\ r.result = e /\ r.broken /\ r.result # Unanswered
        /\ r.said = call[c].said \union {e} /\ r.wire = call[c].wire
        /\ r.tenant = call[c].tenant /\ r.handled = call[c].handled
    BY <1>2, <2>1, FailedIs
  <2>4. RecordOK(r)
    BY <1>1, <1>3, <2>3 DEF RecordOK, Explained, Layers, Received, Early, OnServer
  <2> QED
    BY <2>2, <2>4 DEF RecordStep
<1>6. CASE Step(c, [Goes(c, "connect", 1) EXCEPT
                      !.wire = IF @ = "stream" /\ ~card.streaming THEN "send" ELSE @])
  <2>1. PICK a : a = Goes(c, "connect", 1)
    OBVIOUS
  <2>2. PICK w : w = IF a.wire = "stream" /\ ~card.streaming THEN "send" ELSE a.wire
    OBVIOUS
  <2>3. PICK r : r = [a EXCEPT !.wire = w]
    OBVIOUS
  <2>4. call' = [call EXCEPT ![c] = r]
    BY <1>6, <2>1, <2>2, <2>3 DEF Step
  <2>5. /\ a \in CallType /\ a.pc = "connect"
        /\ a.result = o.result /\ a.said = o.said
        /\ a.seen = o.seen /\ a.broken = o.broken /\ a.handled = o.handled
    BY <1>1, <1>2, <2>1, GoesIs
  <2>6. w \in OpType
    BY <2>2, <2>5 DEF CallType, OpType, ClientOps
  <2>7. /\ r \in CallType /\ r.pc = "connect"
        /\ r.result = o.result /\ r.said = o.said
        /\ r.seen = o.seen /\ r.broken = o.broken /\ r.handled = o.handled
    BY <2>3, <2>5, <2>6 DEF CallType
  <2>8. RecordOK(r)
    BY <1>1, <1>3, <2>7 DEF RecordOK, Explained, Layers, Received, Early, OnServer
  <2> QED
    BY <2>4, <2>8 DEF RecordStep
<1> QED
  BY <1>4, <1>5, <1>6 DEF ClientBefore

\* The errors the transports make up are outcomes; none of them is 'ok'.
LEMMA ErrorsAreOutcomes ==
    /\ {"UnsupportedOperation", "Http", "Other", "InternalError", "ok"} \subseteq Outcome
    /\ Unanswered \notin Outcome /\ Generic \subseteq Outcome /\ "ok" \notin Generic
<1>1. ProtocolErrors = {"ParseError", "InvalidRequest", "MethodNotFound", "InvalidParams",
        "InternalError", "ServerError", "TaskNotFound", "TaskNotCancelable",
        "PushNotificationNotSupported", "UnsupportedOperation", "ContentTypeNotSupported",
        "InvalidAgentResponse", "ExtendedCardNotConfigured", "ConcurrentTaskModification",
        "ExtensionSupportRequired", "VersionNotSupported", "Unauthenticated", "Unauthorized"}
  BY DEF ProtocolErrors, JsonRpcErrorCode
<1> QED
  BY <1>1 DEF Outcome, Unanswered, Generic, A2AError, OtherErrors

\* A call goes back to the client with an outcome that is explained.
LEMMA BackKeeps ==
    ASSUME CallInv, NEW c \in Calls, NEW outcome \in Outcome,
           outcome \in call[c].said \union Generic \union {"Http"},
           call[c].pc \in Early \/ (call[c].pc = "reply"), call[c].pc # "idle"
    PROVE  RecordOK(BackToClient(c, outcome))
<1>1. PICK o : o = call[c] /\ RecordOK(o)
  BY DEF CallInv
<1>2. PICK r : r = BackToClient(c, outcome)
  OBVIOUS
<1>3. /\ r \in CallType /\ r.pc \in {"done", "clientAfter"} /\ r.result = outcome
      /\ r.wire = o.wire /\ r.said = o.said
      /\ r.seen = o.seen /\ r.broken = o.broken /\ r.tenant = o.tenant
      /\ r.handled = o.handled
  BY <1>1, <1>2, BackIs
<1>4. outcome # Unanswered
  BY ErrorsAreOutcomes
<1>5. Explained(r)
  BY <1>1, <1>3, <1>4 DEF Explained
<1>6. Layers(r)
  BY <1>1, <1>3 DEF RecordOK, Layers, Early
<1>7. Received(r)
  BY <1>1, <1>3 DEF RecordOK, Received, OnServer
<1> QED
  BY <1>2, <1>3, <1>5, <1>6, <1>7 DEF RecordOK

\* A call that ends before the handler ran keeps its record in order.
LEMMA SaidBackKeeps ==
    ASSUME CallInv, NEW c \in Calls, NEW outcome \in Outcome,
           call[c].pc \in Early, call[c].pc # "idle"
    PROVE  RecordOK(Saying(BackToClient(c, outcome), outcome))
<1>1. PICK o : o = call[c] /\ RecordOK(o)
  BY DEF CallInv
<1>2. PICK a : a = BackToClient(c, outcome)
  OBVIOUS
<1>3. /\ a \in CallType /\ a.pc \in {"done", "clientAfter"} /\ a.result = outcome
      /\ a.wire = o.wire /\ a.said = o.said
      /\ a.seen = o.seen /\ a.broken = o.broken /\ a.tenant = o.tenant
      /\ a.handled = o.handled
  BY <1>1, <1>2, BackIs
<1>4. PICK r : r = Saying(a, outcome)
  OBVIOUS
<1>5. /\ r \in CallType /\ r.pc \in {"done", "clientAfter"} /\ r.result = outcome
      /\ r.wire = o.wire /\ r.said = o.said \union {outcome}
      /\ r.seen = o.seen /\ r.broken = o.broken /\ r.tenant = o.tenant
      /\ r.handled = o.handled
  BY <1>3, <1>4, SayingIs
<1>6. outcome # Unanswered
  BY ErrorsAreOutcomes
<1>7. Explained(r)
  BY <1>5, <1>6 DEF Explained
<1>8. Layers(r)
  BY <1>1, <1>5 DEF RecordOK, Layers, Early
<1>9. Received(r)
  BY <1>1, <1>5 DEF RecordOK, Received, OnServer
<1> QED
  BY <1>2, <1>4, <1>5, <1>7, <1>8, <1>9 DEF RecordOK

\* A call that cannot connect has an Http result; the others are sent.
LEMMA ConnectStep ==
    ASSUME CallInv, NEW c \in Calls, Connect(c)
    PROVE  RecordStep(c)
<1>1. PICK o : o = call[c] /\ RecordOK(o)
  BY DEF CallInv
<1>2. o.pc = "connect" /\ call[c].pc \in Early /\ call[c].pc # "idle"
  BY <1>1 DEF Connect, Pc, Early
<1>3. CASE Step(c, Saying(BackToClient(c, "UnsupportedOperation"), "UnsupportedOperation"))
  <2>1. PICK r : r = Saying(BackToClient(c, "UnsupportedOperation"), "UnsupportedOperation")
    OBVIOUS
  <2>2. RecordOK(r)
    BY <1>2, <2>1, ErrorsAreOutcomes, SaidBackKeeps
  <2>3. call' = [call EXCEPT ![c] = r]
    BY <1>3, <2>1 DEF Step
  <2> QED
    BY <2>2, <2>3 DEF RecordStep
<1>4. CASE Step(c, Goes(c, "sent", 1))
  <2>1. PICK r : r = Goes(c, "sent", 1)
    OBVIOUS
  <2>2. call[c] \in CallType /\ "sent" \in PcType /\ 1 \in Int
    BY <1>1 DEF RecordOK, PcType
  <2>3. /\ r \in CallType /\ r.pc = "sent"
        /\ r.op = o.op /\ r.wire = o.wire /\ r.result = o.result /\ r.said = o.said
        /\ r.seen = o.seen /\ r.broken = o.broken /\ r.tenant = o.tenant
        /\ r.handled = o.handled
    BY <1>1, <2>1, <2>2, GoesIs
  <2>4. RecordOK(r)
    BY <1>1, <1>2, <2>3 DEF RecordOK, Explained, Layers, Received, Early, OnServer
  <2>5. call' = [call EXCEPT ![c] = r]
    BY <1>4, <2>1 DEF Step
  <2> QED
    BY <2>4, <2>5 DEF RecordStep
<1> QED
  BY <1>3, <1>4 DEF Connect

\* The answer to a card request is said by the server that serves the card.
LEMMA ArriveForCardStep ==
    ASSUME CallInv, NEW c \in Calls, ArriveForCard(c)
    PROVE  RecordStep(c)
<1>1. call[c].pc \in Early /\ call[c].pc # "idle"
  BY DEF ArriveForCard, Pc, Early
<1>2. ASSUME NEW outcome \in {"ok", CardErrorSeen(Chosen)},
             Step(c, Saying(BackToClient(c, outcome), outcome))
      PROVE  RecordStep(c)
  <2>1. outcome \in Outcome
    BY ErrorsAreOutcomes DEF CardErrorSeen
  <2>2. PICK r : r = Saying(BackToClient(c, outcome), outcome)
    OBVIOUS
  <2>3. RecordOK(r)
    BY <1>1, <2>1, <2>2, SaidBackKeeps
  <2>4. call' = [call EXCEPT ![c] = r]
    BY <1>2, <2>2 DEF Step
  <2> QED
    BY <2>3, <2>4 DEF RecordStep
<1> QED
  BY <1>2 DEF ArriveForCard

\* A call that arrives is refused with what is said, or goes to the interceptors.
LEMMA ArriveStep ==
    ASSUME CallInv, NEW c \in Calls, Arrive(c)
    PROVE  RecordStep(c)
<1>1. PICK o : o = call[c] /\ RecordOK(o)
  BY DEF CallInv
<1>2. /\ o.pc = "sent" /\ o.wire # "card" /\ call[c].pc \in Early /\ call[c].pc # "idle"
      /\ made = "made"
  BY <1>1 DEF Arrive, Pc, Early, RecordOK, Received
<1>3. CASE Step(c, [Goes(c, "serverBefore", 1) EXCEPT
                      !.tenant = TenantReceived(Chosen, call[c].wire)])
  <2>1. PICK a : a = Goes(c, "serverBefore", 1)
    OBVIOUS
  <2>2. PICK t : t = TenantReceived(Chosen, o.wire)
    OBVIOUS
  <2>3. t \in Tenants \union {""}
    BY <1>2, <2>2, ChosenIs DEF TenantReceived, Decorated
  <2>4. PICK r : r = [a EXCEPT !.tenant = t]
    OBVIOUS
  <2>5. call[c] \in CallType /\ "serverBefore" \in PcType /\ 1 \in Int
    BY <1>1 DEF RecordOK, PcType, OnServer
  <2>6. /\ a \in CallType /\ a.pc = "serverBefore" /\ a.at = 1
        /\ a.op = o.op /\ a.wire = o.wire /\ a.result = o.result /\ a.said = o.said
        /\ a.seen = o.seen /\ a.broken = o.broken
        /\ a.handled = o.handled
    BY <1>1, <2>1, <2>5, GoesIs
  <2>7. /\ r \in CallType /\ r.pc = "serverBefore" /\ r.at = 1
        /\ r.op = o.op /\ r.wire = o.wire /\ r.result = o.result /\ r.said = o.said
        /\ r.seen = o.seen /\ r.tenant = t
    BY <2>3, <2>4, <2>6 DEF CallType
  <2>8. (r.broken <=> o.broken) /\ (r.handled <=> o.handled)
    BY <2>4, <2>6 DEF CallType
  <2>9. 1 \in 1..ServerInterceptors + 1 /\ Onion(1 - 1) = <<>>
    <3>1. ServerInterceptors \in Nat
      BY CallPathAssumption
    <3>2. 1 - 1 = 0 /\ 1..0 = {}
      OBVIOUS
    <3>3. Onion(0) = <<>>
      BY <3>2 DEF Onion
    <3> QED
      BY <3>1, <3>2, <3>3
  <2>10. Layers(r)
    BY <1>1, <1>2, <2>7, <2>8, <2>9 DEF RecordOK, Layers, Early
  <2>11. Explained(r) /\ Received(r)
    BY <1>1, <1>2, <2>2, <2>7, <2>8 DEF RecordOK, Explained, Received
  <2>12. call' = [call EXCEPT ![c] = r]
    BY <1>1, <1>3, <2>1, <2>2, <2>4 DEF Step
  <2> QED
    BY <2>7, <2>10, <2>11, <2>12 DEF RecordOK, RecordStep
<1>4. CASE Step(c, BackToClient(c, NotRoutedSeen(Chosen)))
  <2>1. PICK outcome : outcome = NotRoutedSeen(Chosen)
    OBVIOUS
  <2>2. outcome \in Generic /\ outcome \in Outcome
    <3>1. ErrorOfCode(CodeOf("JsonRpc")) = "InternalError"
      <4>1. "JsonRpc" \notin ProtocolErrors
        BY DEF ProtocolErrors, JsonRpcErrorCode
      <4>2. CodeOf("JsonRpc") = CodeOf("InternalError")
        BY <4>1 DEF CodeOf
      <4> QED
        BY <4>2, CodesReadBack
    <3> QED
      BY <2>1, <3>1, ErrorsAreOutcomes DEF NotRoutedSeen, Generic
  <2>3. PICK r : r = BackToClient(c, outcome)
    OBVIOUS
  <2>4. RecordOK(r)
    BY <1>2, <2>2, <2>3, BackKeeps
  <2>5. call' = [call EXCEPT ![c] = r]
    BY <1>4, <2>1, <2>3 DEF Step
  <2> QED
    BY <2>4, <2>5 DEF RecordStep
<1> QED
  BY <1>3, <1>4 DEF Arrive

\* A server interceptor's before: one layer deeper, or the error to reply.
LEMMA ServerBeforeStep ==
    ASSUME CallInv, NEW c \in Calls, ServerBefore(c)
    PROVE  RecordStep(c)
<1>1. PICK o : o = call[c] /\ RecordOK(o)
  BY DEF CallInv
<1>2. /\ o.pc = "serverBefore" /\ call[c] \in CallType /\ o.at \in Int /\ o.at + 1 \in Int
      /\ ServerInterceptors \in Nat
  <2>1. o \in CallType /\ o.at \in Int
    BY <1>1 DEF RecordOK, CallType
  <2> QED
    BY <1>1, <2>1, CallPathAssumption DEF ServerBefore, Pc
<1>3. "serverBefore" \in PcType /\ "handler" \in PcType /\ "reply" \in PcType /\ 1 \in Int
  BY DEF PcType, OnServer
<1>4. CASE /\ o.at <= ServerInterceptors
           /\ Step(c, [Goes(c, "serverBefore", call[c].at + 1) EXCEPT
                         !.seen = Append(@, call[c].at)])
  <2>1. PICK a : a = Goes(c, "serverBefore", o.at + 1)
    OBVIOUS
  <2>2. PICK r : r = [a EXCEPT !.seen = Append(@, o.at)]
    OBVIOUS
  <2>3. /\ a \in CallType /\ a.pc = "serverBefore" /\ a.at = o.at + 1
        /\ a.op = o.op /\ a.wire = o.wire /\ a.result = o.result /\ a.said = o.said
        /\ a.seen = o.seen /\ a.broken = o.broken /\ a.tenant = o.tenant
        /\ a.handled = o.handled
    BY <1>1, <1>2, <1>3, <2>1, GoesIs
  <2>4. /\ r \in CallType /\ r.pc = "serverBefore" /\ r.at = o.at + 1
        /\ r.op = o.op /\ r.wire = o.wire /\ r.result = o.result /\ r.said = o.said
        /\ r.seen = Append(o.seen, o.at) /\ r.broken = o.broken /\ r.tenant = o.tenant
        /\ r.handled = o.handled
    BY <1>2, <2>2, <2>3, SeenIs, SMTT(30)
  <2>5. ASSUME ~o.broken
        PROVE  r.at \in 1..ServerInterceptors + 1 /\ r.seen = Onion(r.at - 1)
    <3>1. o.at \in 1..ServerInterceptors + 1 /\ o.seen = Onion(o.at - 1)
      BY <1>1, <1>2, <2>5 DEF RecordOK, Layers
    <3>2. PICK k \in 0..2 * ServerInterceptors - 1 : k = o.at - 1 /\ k + 1 <= ServerInterceptors
      BY <1>2, <1>4, <3>1
    <3>3. Append(Onion(k), k + 1) = Onion(k + 1)
      BY <3>2, OnionNext
    <3>4. k + 1 = o.at /\ r.at - 1 = o.at /\ r.at \in 1..ServerInterceptors + 1
      BY <1>2, <1>4, <2>4, <3>1, <3>2
    <3> QED
      BY <2>4, <3>1, <3>2, <3>3, <3>4
  <2>6. RecordOK(r)
    BY <1>1, <1>2, <2>4, <2>5 DEF RecordOK, Explained, Layers, Received, Early, OnServer
  <2>7. call' = [call EXCEPT ![c] = r]
    BY <1>1, <1>4, <2>1, <2>2 DEF Step
  <2> QED
    BY <2>6, <2>7 DEF RecordStep
<1>5. ASSUME NEW e \in InterceptorErrors,
             Step(c, [Saying(Answers(c, "reply", 1, e), e) EXCEPT !.broken = TRUE])
      PROVE  RecordStep(c)
  <2>1. PICK r : r = FailedWith(c, "reply", e)
    OBVIOUS
  <2>2. call' = [call EXCEPT ![c] = r]
    BY <1>5, <2>1 DEF Step, FailedWith
  <2>3. /\ r \in CallType /\ r.pc = "reply" /\ r.result = e /\ r.broken /\ r.result # Unanswered
        /\ r.said = call[c].said \union {e} /\ r.wire = call[c].wire
        /\ r.tenant = call[c].tenant /\ r.handled = call[c].handled
    BY <1>3, <2>1, FailedIs
  <2>4. RecordOK(r)
    BY <1>1, <1>2, <2>3 DEF RecordOK, Explained, Layers, Received, Early, OnServer
  <2> QED
    BY <2>2, <2>4 DEF RecordStep
<1>6. CASE ~(o.at <= ServerInterceptors) /\ Step(c, Goes(c, "handler", 1))
  <2>1. PICK r : r = Goes(c, "handler", 1)
    OBVIOUS
  <2>2. /\ r \in CallType /\ r.pc = "handler"
        /\ r.op = o.op /\ r.wire = o.wire /\ r.result = o.result /\ r.said = o.said
        /\ r.seen = o.seen /\ r.broken = o.broken /\ r.tenant = o.tenant
        /\ r.handled = o.handled
    BY <1>1, <1>2, <1>3, <2>1, GoesIs
  <2>3. ASSUME ~o.broken
        PROVE  r.seen = Onion(ServerInterceptors)
    <3>1. o.at \in 1..ServerInterceptors + 1 /\ o.seen = Onion(o.at - 1)
      BY <1>1, <1>2, <2>3 DEF RecordOK, Layers
    <3>2. o.at - 1 = ServerInterceptors
      BY <1>2, <1>6, <3>1
    <3> QED
      BY <2>2, <3>1, <3>2
  <2>4. RecordOK(r)
    BY <1>1, <1>2, <2>2, <2>3 DEF RecordOK, Explained, Layers, Received, Early, OnServer
  <2>5. call' = [call EXCEPT ![c] = r]
    BY <1>6, <2>1 DEF Step
  <2> QED
    BY <2>4, <2>5 DEF RecordStep
<1> QED
  BY <1>1, <1>4, <1>5, <1>6 DEF ServerBefore

\* The handler's outcome starts the walk of the after()s, or answers a stream.
LEMMA HandledKeeps ==
    ASSUME CallInv, NEW c \in Calls, NEW outcome \in Outcome,
           call[c].pc \in {"handler", "waiting"}
    PROVE  RecordOK(Handled(c, outcome))
<1>1. PICK o : o = call[c] /\ RecordOK(o)
  BY DEF CallInv
<1>2. PICK n \in Nat : n = ServerInterceptors
  BY CallPathAssumption
<1>3. PICK pc : pc = IF o.wire \in Streaming THEN "reply" ELSE "serverAfter"
  OBVIOUS
<1>4. call[c] \in CallType /\ pc \in PcType /\ n \in Int
  BY <1>1, <1>3 DEF RecordOK, PcType, OnServer
<1>5. PICK a : a = Answers(c, pc, n, outcome)
  OBVIOUS
<1>6. /\ a \in CallType /\ a.pc = pc /\ a.at = n /\ a.result = outcome
      /\ a.wire = o.wire /\ a.said = o.said /\ a.seen = o.seen
      /\ a.broken = o.broken /\ a.tenant = o.tenant
  BY <1>1, <1>4, <1>5, AnswersIs
<1>7. PICK b : b = Saying(a, outcome)
  OBVIOUS
<1>8. /\ b \in CallType /\ b.pc = pc /\ b.at = n /\ b.result = outcome
      /\ b.wire = o.wire /\ b.said = o.said \union {outcome} /\ b.seen = o.seen
      /\ b.broken = o.broken /\ b.tenant = o.tenant
  BY <1>6, <1>7, SayingIs
<1>9. PICK r : r = [b EXCEPT !.handled = TRUE]
  OBVIOUS
<1>10. /\ r \in CallType /\ r.pc = pc /\ r.at = n /\ r.result = outcome
       /\ r.wire = o.wire /\ r.said = o.said \union {outcome} /\ r.seen = o.seen
       /\ r.tenant = o.tenant /\ r.handled
  BY <1>8, <1>9 DEF CallType
<1>11. r.broken <=> o.broken
  BY <1>8, <1>9 DEF CallType
<1>12. Handled(c, outcome) = r
  BY <1>1, <1>2, <1>3, <1>5, <1>7, <1>9 DEF Handled, IsStream
<1>13. Explained(r)
  BY <1>10, ErrorsAreOutcomes DEF Explained
<1>14. Layers(r)
  <2>1. ~o.broken => r.seen = Onion(n)
    BY <1>1, <1>2, <1>10 DEF RecordOK, Layers
  <2>2. 2 * n - n = n /\ n \in 0..n
    OBVIOUS
  <2> QED
    BY <1>2, <1>3, <1>10, <1>11, <2>1, <2>2 DEF Layers, Early
<1>15. Received(r)
  BY <1>1, <1>10 DEF RecordOK, Received, OnServer
<1> QED
  BY <1>10, <1>12, <1>13, <1>14, <1>15 DEF RecordOK

\* What the handler answers is said, and the layers are all on.
LEMMA HandleStep ==
    ASSUME CallInv, NEW c \in Calls, Handle(c)
    PROVE  RecordStep(c)
<1>1. PICK outcome \in Outcome :
        call' = [call EXCEPT ![c] = Handled(c, outcome)] /\ call[c].pc \in {"handler", "waiting"}
  BY CallPathAssumption DEF Handle, Step, Pc, Outcome
<1>2. RecordOK(Handled(c, outcome))
  BY <1>1, HandledKeeps
<1> QED
  BY <1>1, <1>2 DEF RecordStep

\* A call that waits for a cancellation keeps its layers.
LEMMA WaitForCancelStep ==
    ASSUME CallInv, NEW c \in Calls, WaitForCancel(c)
    PROVE  RecordStep(c)
<1>1. PICK o : o = call[c] /\ RecordOK(o)
  BY DEF CallInv
<1>2. PICK r : r = Goes(c, "waiting", 1)
  OBVIOUS
<1>3. call' = [call EXCEPT ![c] = r] /\ o.pc = "handler"
  BY <1>1, <1>2 DEF WaitForCancel, Step, Pc
<1>4. /\ r \in CallType /\ r.pc = "waiting"
      /\ r.op = o.op /\ r.wire = o.wire /\ r.result = o.result /\ r.said = o.said
      /\ r.seen = o.seen /\ r.broken = o.broken /\ r.tenant = o.tenant
      /\ r.handled = o.handled
  <2>1. call[c] \in CallType /\ "waiting" \in PcType /\ 1 \in Int
    BY <1>1 DEF RecordOK, PcType, OnServer
  <2> QED
    BY <1>1, <1>2, <2>1, GoesIs
<1>5. RecordOK(r)
  BY <1>1, <1>3, <1>4 DEF RecordOK, Explained, Layers, Received, Early, OnServer
<1> QED
  BY <1>3, <1>5 DEF RecordStep

\* An after() that substitutes another outcome has said that one.
LEMMA SubstituteKeeps ==
    ASSUME CallInv, NEW next, RecordOK(next), NEW outcome \in Outcome
    PROVE  RecordOK(Saying([next EXCEPT !.result = outcome], outcome))
<1>1. PICK a : a = [next EXCEPT !.result = outcome]
  OBVIOUS
<1>2. /\ a \in CallType /\ a.result = outcome /\ a.pc = next.pc /\ a.at = next.at
      /\ a.wire = next.wire /\ a.said = next.said /\ a.seen = next.seen
      /\ a.broken = next.broken /\ a.tenant = next.tenant /\ a.handled = next.handled
  BY <1>1, ResultIs DEF RecordOK
<1>3. PICK r : r = Saying(a, outcome)
  OBVIOUS
<1>4. /\ r \in CallType /\ r.result = outcome /\ r.pc = next.pc /\ r.at = next.at
      /\ r.wire = next.wire /\ r.said = next.said \union {outcome} /\ r.seen = next.seen
      /\ r.broken = next.broken /\ r.tenant = next.tenant /\ r.handled = next.handled
  BY <1>2, <1>3, SayingIs
<1>5. Explained(r)
  BY <1>4, ErrorsAreOutcomes DEF Explained
<1>6. Layers(r) /\ Received(r)
  BY <1>4 DEF RecordOK, Layers, Received
<1> QED
  BY <1>1, <1>3, <1>4, <1>5, <1>6 DEF RecordOK

\* A call that passes an after either goes on or is canceled on the way.
LEMMA AfterPassesStep ==
    ASSUME CallInv, NEW c \in Calls, NEW next, RecordOK(next), AfterPasses(c, next)
    PROVE  RecordStep(c)
<1>1. CASE Step(c, next)
  BY <1>1 DEF Step, RecordStep
<1>2. ASSUME NEW outcome \in {"ok"} \union InterceptorErrors,
             Step(c, Saying([next EXCEPT !.result = outcome], outcome))
      PROVE  RecordStep(c)
  <2>1. outcome \in Outcome
    BY CallPathAssumption DEF Outcome
  <2>2. RecordOK(Saying([next EXCEPT !.result = outcome], outcome))
    BY <2>1, SubstituteKeeps
  <2> QED
    BY <1>2, <2>2 DEF Step, RecordStep
<1> QED
  BY <1>1, <1>2 DEF AfterPasses

\* A server interceptor's after: one layer less, or the error to reply.
LEMMA ServerAfterStep ==
    ASSUME CallInv, NEW c \in Calls, ServerAfter(c)
    PROVE  RecordStep(c)
<1>1. PICK o : o = call[c] /\ RecordOK(o)
  BY DEF CallInv
<1>2. PICK n \in Nat : n = ServerInterceptors
  BY CallPathAssumption
<1>3. o.pc = "serverAfter" /\ call[c] \in CallType /\ o.at \in Int
  BY <1>1 DEF RecordOK, CallType, ServerAfter, Pc
<1>4. "serverAfter" \in PcType /\ "reply" \in PcType /\ 1 \in Int
  BY DEF PcType, OnServer
<1>5. CASE /\ o.at > 0
           /\ AfterPasses(c, [Goes(c, "serverAfter", call[c].at - 1) EXCEPT
                                !.seen = Append(@, -call[c].at)])
  <2> PICK j \in Int : j = o.at
    BY <1>3
  <2> PICK at \in Int : at = j - 1
    OBVIOUS
  <2> PICK i \in Int : i = -j
    OBVIOUS
  <2>1. o.at = j /\ at = o.at - 1 /\ i = -o.at
    OBVIOUS
  <2>2. PICK a : a = Goes(c, "serverAfter", at)
    OBVIOUS
  <2>3. PICK r : r = [a EXCEPT !.seen = Append(@, i)]
    OBVIOUS
  <2>4. /\ a \in CallType /\ a.pc = "serverAfter" /\ a.at = at
        /\ a.op = o.op /\ a.wire = o.wire /\ a.result = o.result /\ a.said = o.said
        /\ a.seen = o.seen /\ a.broken = o.broken /\ a.tenant = o.tenant
        /\ a.handled = o.handled
    BY <1>1, <1>3, <1>4, <2>1, <2>2, GoesIs
  <2>5. /\ r \in CallType /\ r.pc = "serverAfter" /\ r.at = at
        /\ r.op = o.op /\ r.wire = o.wire /\ r.result = o.result /\ r.said = o.said
        /\ r.seen = Append(o.seen, i) /\ r.broken = o.broken /\ r.tenant = o.tenant
        /\ r.handled = o.handled
    BY <2>1, <2>3, <2>4, SeenIs, SMTT(30)
  <2>6. ASSUME ~o.broken
        PROVE  at \in 0..n /\ r.seen = Onion(2 * n - at)
    <3>1. o.at \in 0..n /\ o.seen = Onion(2 * n - o.at)
      BY <1>1, <1>2, <1>3, <2>6 DEF RecordOK, Layers
    <3>2. PICK k \in 0..2 * n - 1 : k = 2 * n - o.at
      BY <1>5, <3>1
    <3>3. Append(Onion(k), IF k + 1 <= n THEN k + 1 ELSE k - 2 * n) = Onion(k + 1)
      BY <1>2, <3>2, OnionNext
    <3>4. ~(k + 1 <= n) /\ k - 2 * n = i /\ k + 1 = 2 * n - at /\ at \in 0..n
      <4>1. j > 0 /\ j \in 0..n /\ k = 2 * n - j
        BY <1>5, <2>1, <3>1, <3>2
      <4> QED
        BY <4>1
    <3> QED
      BY <2>5, <3>1, <3>2, <3>3, <3>4
  <2>7. RecordOK(r)
    BY <1>1, <1>2, <1>3, <2>5, <2>6 DEF RecordOK, Explained, Layers, Received, Early, OnServer
  <2>8. AfterPasses(c, r)
    BY <1>1, <1>5, <2>1, <2>2, <2>3
  <2> QED
    BY <2>7, <2>8, AfterPassesStep
<1>6. ASSUME NEW e \in InterceptorErrors,
             Step(c, [Saying(Answers(c, "reply", 1, e), e) EXCEPT !.broken = TRUE])
      PROVE  RecordStep(c)
  <2>1. PICK r : r = FailedWith(c, "reply", e)
    OBVIOUS
  <2>2. call' = [call EXCEPT ![c] = r]
    BY <1>6, <2>1 DEF Step, FailedWith
  <2>3. /\ r \in CallType /\ r.pc = "reply" /\ r.result = e /\ r.broken /\ r.result # Unanswered
        /\ r.said = call[c].said \union {e} /\ r.wire = call[c].wire
        /\ r.tenant = call[c].tenant /\ r.handled = call[c].handled
    BY <1>4, <2>1, FailedIs
  <2>4. RecordOK(r)
    BY <1>1, <1>3, <2>3 DEF RecordOK, Explained, Layers, Received, Early, OnServer
  <2> QED
    BY <2>2, <2>4 DEF RecordStep
<1>7. CASE ~(o.at > 0) /\ Step(c, Goes(c, "reply", 1))
  <2>1. PICK r : r = Goes(c, "reply", 1)
    OBVIOUS
  <2>2. /\ r \in CallType /\ r.pc = "reply"
        /\ r.op = o.op /\ r.wire = o.wire /\ r.result = o.result /\ r.said = o.said
        /\ r.seen = o.seen /\ r.broken = o.broken /\ r.tenant = o.tenant
        /\ r.handled = o.handled
    BY <1>1, <1>3, <1>4, <2>1, GoesIs
  <2>3. ASSUME ~o.broken
        PROVE  r.seen = Onion(2 * n)
    <3>1. o.at \in 0..n /\ o.seen = Onion(2 * n - o.at)
      BY <1>1, <1>2, <1>3, <2>3 DEF RecordOK, Layers
    <3>2. 2 * n - o.at = 2 * n
      BY <1>7, <3>1
    <3> QED
      BY <2>2, <3>1, <3>2
  <2>4. RecordOK(r)
    BY <1>1, <1>2, <1>3, <2>2, <2>3 DEF RecordOK, Explained, Layers, Received, Early, OnServer
  <2>5. call' = [call EXCEPT ![c] = r]
    BY <1>7, <2>1 DEF Step
  <2> QED
    BY <2>4, <2>5 DEF RecordStep
<1> QED
  BY <1>1, <1>5, <1>6, <1>7 DEF ServerAfter

\* The reply is what was said, or what the transport makes of it.
LEMMA ReplyStep ==
    ASSUME CallInv, NEW c \in Calls, Reply(c)
    PROVE  RecordStep(c)
<1>1. PICK o : o = call[c] /\ RecordOK(o)
  BY DEF CallInv
<1>2. /\ o.pc = "reply" /\ made = "made" /\ o.result # Unanswered
      /\ o.result \in o.said \union Generic \union {"Http"}
  BY <1>1 DEF Reply, Pc, RecordOK, Received, Explained
<1>3. PICK outcome : outcome = IF o.result = "ok" THEN "ok"
                               ELSE HandlerErrorSeen(Chosen, o.wire, o.result)
  OBVIOUS
<1>4. outcome \in {o.result} \union Generic
  <2>1. HandlerErrorSeen(Chosen, o.wire, o.result) \in {o.result} \union Generic
    BY <1>2, ChosenIs, HandlerErrorRead
  <2> QED
    BY <1>3, <2>1
<1>5. outcome \in Outcome /\ outcome \in call[c].said \union Generic \union {"Http"}
  <2>1. o.result \in Outcome
    BY <1>1, <1>2 DEF RecordOK, CallType
  <2> QED
    BY <1>1, <1>2, <1>4, <2>1, ErrorsAreOutcomes
<1>6. RecordOK(BackToClient(c, outcome))
  BY <1>1, <1>2, <1>5, BackKeeps
<1>7. call' = [call EXCEPT ![c] = BackToClient(c, outcome)]
  BY <1>1, <1>3 DEF Reply, Step
<1> QED
  BY <1>6, <1>7 DEF RecordStep

\* A client interceptor's after: one layer less, or the call's error.
LEMMA ClientAfterStep ==
    ASSUME CallInv, NEW c \in Calls, ClientAfter(c)
    PROVE  RecordStep(c)
<1>1. PICK o : o = call[c] /\ RecordOK(o)
  BY DEF CallInv
<1>2. o.pc = "clientAfter" /\ call[c] \in CallType /\ o.at \in Int /\ o.at + 1 \in Int
  <2>1. o.pc = "clientAfter" /\ call[c] \in CallType /\ o.at \in Int
    BY <1>1 DEF RecordOK, CallType, ClientAfter, Pc
  <2> QED
    BY <2>1
<1>3. "clientAfter" \in PcType /\ "done" \in PcType /\ 1 \in Int
  BY DEF PcType, OnServer
<1>4. ASSUME NEW pc \in {"clientAfter", "done"}, NEW at \in Int
      PROVE  RecordOK(Goes(c, pc, at))
  <2>1. PICK r : r = Goes(c, pc, at)
    OBVIOUS
  <2>2. pc \in PcType
    BY <1>3
  <2>3. /\ r \in CallType /\ r.pc = pc
        /\ r.op = o.op /\ r.wire = o.wire /\ r.result = o.result /\ r.said = o.said
        /\ r.seen = o.seen /\ r.broken = o.broken /\ r.tenant = o.tenant
        /\ r.handled = o.handled
    BY <1>1, <1>2, <2>1, <2>2, GoesIs
  <2> QED
    BY <1>1, <1>2, <2>1, <2>3 DEF RecordOK, Explained, Layers, Received, Early, OnServer
<1>5. CASE AfterPasses(c, Goes(c, "clientAfter", call[c].at + 1))
  <2>1. RecordOK(Goes(c, "clientAfter", call[c].at + 1))
    BY <1>1, <1>2, <1>4
  <2> QED
    BY <1>5, <2>1, AfterPassesStep
<1>6. ASSUME NEW e \in InterceptorErrors,
             Step(c, [Saying(Answers(c, "done", 1, e), e) EXCEPT !.broken = TRUE])
      PROVE  RecordStep(c)
  <2>1. PICK r : r = FailedWith(c, "done", e)
    OBVIOUS
  <2>2. call' = [call EXCEPT ![c] = r]
    BY <1>6, <2>1 DEF Step, FailedWith
  <2>3. /\ r \in CallType /\ r.pc = "done" /\ r.result = e /\ r.broken /\ r.result # Unanswered
        /\ r.said = call[c].said \union {e} /\ r.wire = call[c].wire
        /\ r.tenant = call[c].tenant /\ r.handled = call[c].handled
    BY <1>3, <2>1, FailedIs
  <2>4. RecordOK(r)
    BY <1>1, <1>2, <2>3 DEF RecordOK, Explained, Layers, Received, Early, OnServer
  <2> QED
    BY <2>2, <2>4 DEF RecordStep
<1>7. CASE Step(c, Goes(c, "done", 1))
  <2>1. PICK r : r = Goes(c, "done", 1)
    OBVIOUS
  <2>2. RecordOK(r)
    BY <1>3, <1>4, <2>1
  <2>3. call' = [call EXCEPT ![c] = r]
    BY <1>7, <2>1 DEF Step
  <2> QED
    BY <2>2, <2>3 DEF RecordStep
<1> QED
  BY <1>5, <1>6, <1>7 DEF ClientAfter

\* A lost connection answers with an Http error, whatever was said.
LEMMA LoseStep ==
    ASSUME CallInv, NEW c \in Calls, Lose(c)
    PROVE  RecordStep(c)
<1>1. PICK o : o = call[c] /\ RecordOK(o)
  BY DEF CallInv
<1>2. o.pc \in {"sent"} \union OnServer
  BY <1>1 DEF Lose, Pc
<1>3. PICK e : e = ConnectionErrorSeen(Chosen)
  OBVIOUS
<1>4. e \in Outcome /\ e \in Generic \union {"Http"} /\ e # Unanswered
  BY <1>3, ErrorsAreOutcomes DEF ConnectionErrorSeen, Generic
<1>5. PICK a : a = BackToClient(c, e)
  OBVIOUS
<1>6. /\ a \in CallType /\ a.pc \in {"done", "clientAfter"} /\ a.result = e
      /\ a.wire = o.wire /\ a.said = o.said /\ a.tenant = o.tenant /\ a.handled = o.handled
  BY <1>1, <1>4, <1>5, BackIs
<1>7. PICK r : r = [a EXCEPT !.broken = TRUE]
  OBVIOUS
<1>8. /\ r \in CallType /\ r.pc \in {"done", "clientAfter"} /\ r.result = e /\ r.broken
      /\ r.wire = o.wire /\ r.said = o.said /\ r.tenant = o.tenant /\ r.handled = o.handled
  BY <1>6, <1>7, BrokenIs
<1>9. RecordOK(r)
  BY <1>1, <1>2, <1>4, <1>8 DEF RecordOK, Explained, Layers, Received, Early, OnServer
<1>10. call' = [call EXCEPT ![c] = r]
  BY <1>3, <1>5, <1>7 DEF Lose
<1> QED
  BY <1>9, <1>10 DEF RecordStep

--------------------------------------------------------------------------------
(* The invariant is inductive.                                                *)

\* A record stays as good as it is while the client's interface stays the same.
LEMMA StillOK ==
    ASSUME NEW r, RecordOK(r), UNCHANGED <<todo, made>>
    PROVE  RecordOK(r)'
<1>1. r \in CallType /\ Explained(r) /\ Layers(r) /\ Received(r)
  BY DEF RecordOK
<1>2. Received(r)'
  BY <1>1 DEF Received, Chosen
<1>3. (r \in CallType)' /\ Explained(r)' /\ Layers(r)'
  BY <1>1 DEF Explained, Layers
<1> QED
  BY <1>2, <1>3 DEF RecordOK

\* A step of one call keeps the invariant.
LEMMA StepKeeps ==
    ASSUME CallInv, NEW c \in Calls, RecordStep(c), UNCHANGED <<factoryVars, served>>,
           card' \in AgentCard, lock' \subseteq Calls, canceled' \in BOOLEAN, lost' \in Nat
    PROVE  CallInv'
<1>1. PICK r : RecordOK(r) /\ call' = [call EXCEPT ![c] = r]
  BY DEF RecordStep
<1>2. UNCHANGED <<setup, todo, failed, made>>
  BY DEF factoryVars
<1>3. ASSUME NEW d \in Calls
      PROVE  RecordOK(call[d])'
  <2>1. PICK q : q = call'[d]
    OBVIOUS
  <2>2. q = IF d = c THEN r ELSE call[d]
    BY <1>1, <2>1 DEF CallInv, TypeOK
  <2>3. RecordOK(q)
    <3>1. CASE d = c
      BY <1>1, <2>2, <3>1
    <3>2. CASE d # c
      <4>1. q = call[d] /\ RecordOK(call[d])
        BY <2>2, <3>2 DEF CallInv
      <4> QED
        BY <4>1
    <3> QED
      BY <3>1, <3>2
  <2>4. RecordOK(q)'
    BY <1>2, <2>3, StillOK
  <2> QED
    BY <2>1, <2>4
<1>4. call' \in [Calls -> CallType]
  BY <1>1 DEF CallInv, TypeOK, RecordOK
<1>5. TypeOK'
  BY <1>2, <1>4 DEF CallInv, TypeOK
<1>6. Tried'
  BY <1>2 DEF CallInv, Tried
<1> QED
  BY <1>3, <1>5, <1>6 DEF CallInv

\* Before there is a client no call has started.
LEMMA BuilderKeeps ==
    ASSUME CallInv, made = "building", UNCHANGED <<setup, card, served, lock, canceled, lost, call>>,
           TypeOK', Tried'
    PROVE  CallInv'
<1>1. ASSUME NEW c \in Calls
      PROVE  RecordOK(call[c])'
  <2>1. PICK r : r = call[c] /\ r = call'[c]
    OBVIOUS
  <2>2. RecordOK(r) /\ r.pc = "idle" /\ ~r.handled
    <3>1. RecordOK(r)
      BY <2>1 DEF CallInv
    <3> QED
      BY <3>1 DEF RecordOK, Received
  <2>3. Received(r)'
    BY <2>2 DEF Received, OnServer
  <2>4. RecordOK(r)'
    BY <2>2, <2>3 DEF RecordOK, Explained, Layers
  <2> QED
    BY <2>1, <2>4
<1> QED
  BY <1>1 DEF CallInv

\* A builder that works makes a client of the first candidate left.
LEMMA BuilderWorksInv == CallInv /\ BuilderWorks => CallInv'
<1> SUFFICES ASSUME CallInv, BuilderWorks PROVE CallInv'
  OBVIOUS
<1>1. TypeOK' /\ Tried'
  BY DEF CallInv, TypeOK, Tried, BuilderWorks
<1> QED
  BY <1>1, BuilderKeeps DEF BuilderWorks

\* A builder that fails leaves the better candidates behind it, all tried.
LEMMA BuilderFailsInv == CallInv /\ BuilderFails => CallInv'
<1> SUFFICES ASSUME CallInv, BuilderFails PROVE CallInv'
  OBVIOUS
<1> DEFINE T == AgentInterface(Tenants)
<1>1. PICK C : C = Candidates(setup) /\ C \in Seq(T)
  BY CandidatesSorted DEF CallInv, TypeOK
<1>2. PICK k \in 0..Len(C) : todo = SubSeq(C, k + 1, Len(C)) /\ \A i \in 1..k : C[i] \in failed
  BY <1>1 DEF CallInv, Tried
<1>3. PICK s \in Seq(T) : s = todo /\ s # <<>>
  BY DEF CallInv, TypeOK, Tried, BuilderFails
<1> HIDE DEF T
<1>4. s \in Seq(T) /\ Len(s) = Len(C) - k /\ \A i \in 1..Len(C) - k : s[i] = C[k + i]
  BY <1>1, <1>2, <1>3, SuffixOf, SMTT(30)
<1>5. /\ Head(s) = s[1] /\ s[1] \in T
      /\ Tail(s) \in Seq(T) /\ Len(Tail(s)) = Len(s) - 1 /\ Len(s) \in Nat \ {0}
      /\ \A i \in 1..Len(s) - 1 : Tail(s)[i] = s[i + 1]
  BY <1>3, TailOf
<1>6. PICK N \in Nat, j \in Nat : N = Len(C) /\ j = k + 1 /\ j \in 0..N
  BY <1>1, <1>4, <1>5
<1>7. PICK u, v : u = SubSeq(C, j + 1, N) /\ v = Tail(s)
  OBVIOUS
<1>8. u = v
  <2>1. u \in Seq(T) /\ Len(u) = N - j /\ \A i \in 1..N - j : u[i] = C[j + i]
    BY <1>1, <1>6, <1>7, SuffixOf
  <2>2. v \in Seq(T) /\ Len(v) = N - j
    BY <1>4, <1>5, <1>6, <1>7
  <2>3. \A i \in 1..N - j : u[i] = v[i]
    <3> TAKE i \in 1..N - j
    <3>1. i \in 1..Len(s) - 1 /\ i + 1 \in 1..Len(C) - k /\ k + (i + 1) = j + i
      BY <1>4, <1>6
    <3>2. v[i] = s[i + 1] /\ s[i + 1] = C[k + (i + 1)]
      BY <1>4, <1>5, <1>7, <3>1
    <3> QED
      BY <2>1, <3>1, <3>2
  <2> QED
    BY <2>1, <2>2, <2>3, SameElements
<1>9. Head(s) = C[j]
  BY <1>4, <1>5, <1>6
<1>10. /\ todo' = u /\ failed' = failed \union {C[j]}
       /\ made' = IF todo' = <<>> THEN "Other" ELSE "building"
       /\ UNCHANGED setup
  BY <1>3, <1>7, <1>8, <1>9 DEF BuilderFails
<1>11. TypeOK'
  <2>1. todo' \in Seq(T) /\ failed' \subseteq T
    <3>1. failed \subseteq T
      BY DEF CallInv, TypeOK, T
    <3> QED
      BY <1>5, <1>7, <1>8, <1>9, <1>10, <3>1
  <2> QED
    BY <1>10, <2>1 DEF CallInv, TypeOK, BuilderFails, T
<1>12. Tried'
  <2>1. made' \in {"building", "made"} => todo' # <<>>
    BY <1>10
  <2>2. \A i \in 1..j : C[i] \in failed'
    BY <1>2, <1>6, <1>10
  <2>3. C = Candidates(setup)'
    BY <1>1, <1>10
  <2> QED
    BY <1>6, <1>7, <1>10, <2>1, <2>2, <2>3 DEF Tried
<1> QED
  BY <1>11, <1>12, BuilderKeeps DEF BuilderFails

\* The invariant holds before any builder is tried.
LEMMA InitInv == Init => CallInv
<1> SUFFICES ASSUME Init PROVE CallInv
  OBVIOUS
<1>1. PICK s \in StartType :
        /\ setup = s.setup
        /\ todo = Candidates(setup)
        /\ failed = {}
        /\ made = IF setup.interfaces = <<>> THEN "InvalidParams"
                  ELSE IF todo = <<>> THEN "Other" ELSE "building"
        /\ card = s.held /\ served = s.served
        /\ lock = {} /\ canceled = FALSE /\ lost = 0
        /\ call = [c \in Calls |-> Idle(s.work[c])]
  BY CallPathAssumption DEF Init
<1>2. setup \in Setup /\ card \in AgentCard /\ served \in AgentCard
      /\ s.work \in [Calls -> OpType]
  BY <1>1 DEF StartType, OpType
<1>3. ASSUME NEW op \in OpType
      PROVE  RecordOK(Idle(op)) /\ Idle(op) \in CallType
  <2>1. PICK r : r = Idle(op)
    OBVIOUS
  <2>2. /\ r.pc = "idle" /\ r.said = {} /\ r.result = Unanswered /\ r.seen = <<>> /\ ~r.handled
        /\ r.broken = FALSE
    BY <2>1 DEF Idle
  <2>3. r \in CallType
    <3>1. <<>> \in Seq(Int) /\ 1 \in Int /\ "idle" \in PcType
      BY DEF PcType
    <3> QED
      BY <2>1, <3>1 DEF Idle, CallType, NoTenant
  <2>4. Explained(r) /\ Received(r) /\ Layers(r)
    BY <2>2 DEF Explained, Received, Layers, Early, OnServer
  <2> QED
    BY <2>1, <2>3, <2>4 DEF RecordOK
<1>4. \A c \in Calls : RecordOK(call[c]) /\ call[c] \in CallType
  BY <1>1, <1>2, <1>3
<1>5. PICK C : C = Candidates(setup) /\ C \in Seq(AgentInterface(Tenants))
  BY <1>2, CandidatesSorted
<1>6. TypeOK
  <2>1. call \in [Calls -> CallType]
    BY <1>1, <1>4
  <2> QED
    BY <1>1, <1>2, <1>5, <2>1 DEF TypeOK
<1>7. Tried
  <2>1. PICK u : u = SubSeq(C, 0 + 1, Len(C))
    OBVIOUS
  <2>2. 0 \in 0..Len(C) /\ Len(C) - 0 = Len(C) /\ Len(C) \in Nat
    BY <1>5
  <2>3. /\ u \in Seq(AgentInterface(Tenants)) /\ Len(u) = Len(C)
        /\ \A i \in 1..Len(C) : u[i] = C[0 + i]
    BY <1>5, <2>1, <2>2, SuffixOf
  <2>4. u = C
    <3>1. \A i \in 1..Len(C) : u[i] = C[i]
      BY <2>3
    <3> QED
      BY <1>5, <2>3, <3>1, SameElements
  <2>5. \A i \in 1..0 : C[i] \in failed
    OBVIOUS
  <2> QED
    BY <1>1, <1>5, <2>1, <2>2, <2>4, <2>5 DEF Tried
<1> QED
  BY <1>4, <1>6, <1>7 DEF CallInv

\* Every step keeps the invariant.
LEMMA StepInv == CallInv /\ [Next]_vars => CallInv'
<1> SUFFICES ASSUME CallInv, [Next]_vars PROVE CallInv'
  OBVIOUS
<1> USE DEF CallStep
<1>1. /\ card \in AgentCard /\ served \in AgentCard /\ lock \subseteq Calls
      /\ canceled \in BOOLEAN /\ lost \in Nat
  BY DEF CallInv, TypeOK
<1>2. CASE BuilderWorks
  BY <1>2, BuilderWorksInv
<1>3. CASE BuilderFails
  BY <1>3, BuilderFailsInv
<1>4. ASSUME NEW c \in Calls, CallStep(c)
      PROVE  CallInv'
  <2>1. CASE Start(c)
    <3>1. RecordStep(c) /\ UNCHANGED <<factoryVars, served, card, lock, canceled, lost>>
      BY <2>1, StartStep DEF Start, Step
    <3> QED
      BY <1>1, <3>1, StepKeeps
  <2>2. CASE StartCard(c)
    <3>1. RecordStep(c) /\ UNCHANGED <<factoryVars, served, card, lock, canceled, lost>>
      BY <2>2, StartCardStep DEF StartCard, Step
    <3> QED
      BY <1>1, <3>1, StepKeeps
  <2>3. CASE ClientBefore(c)
    <3>1. RecordStep(c) /\ UNCHANGED <<factoryVars, served, card, lock, canceled, lost>>
      BY <2>3, ClientBeforeStep DEF ClientBefore, Step
    <3> QED
      BY <1>1, <3>1, StepKeeps
  <2>4. CASE Connect(c)
    <3>1. RecordStep(c) /\ UNCHANGED <<factoryVars, served, card, canceled, lost>>
      BY <2>4, ConnectStep DEF Connect, Step
    <3>2. lock' \subseteq Calls
      BY <1>1, <2>4 DEF Connect, Locks
    <3> QED
      BY <1>1, <3>1, <3>2, StepKeeps
  <2>5. CASE ArriveForCard(c)
    <3>1. RecordStep(c) /\ UNCHANGED <<factoryVars, served, card, canceled, lost>>
      BY <2>5, ArriveForCardStep DEF ArriveForCard, Step
    <3>2. lock' \subseteq Calls
      BY <1>1, <2>5 DEF ArriveForCard, Unlocked
    <3> QED
      BY <1>1, <3>1, <3>2, StepKeeps
  <2>6. CASE Arrive(c)
    <3>1. RecordStep(c) /\ UNCHANGED <<factoryVars, served, card, canceled, lost>>
      BY <2>6, ArriveStep DEF Arrive, Step
    <3>2. lock' \subseteq Calls
      BY <1>1, <2>6 DEF Arrive, Unlocked
    <3> QED
      BY <1>1, <3>1, <3>2, StepKeeps
  <2>7. CASE ServerBefore(c)
    <3>1. RecordStep(c) /\ UNCHANGED <<factoryVars, served, card, lock, canceled, lost>>
      BY <2>7, ServerBeforeStep DEF ServerBefore, Step
    <3> QED
      BY <1>1, <3>1, StepKeeps
  <2>8. CASE Handle(c)
    <3>1. RecordStep(c) /\ UNCHANGED <<factoryVars, served, card, lock, lost>>
      BY <2>8, HandleStep DEF Handle, Step
    <3>2. canceled' \in BOOLEAN
      BY <2>8 DEF Handle
    <3> QED
      BY <1>1, <3>1, <3>2, StepKeeps
  <2>9. CASE WaitForCancel(c)
    <3>1. RecordStep(c) /\ UNCHANGED <<factoryVars, served, card, lock, canceled, lost>>
      BY <2>9, WaitForCancelStep DEF WaitForCancel, Step
    <3> QED
      BY <1>1, <3>1, StepKeeps
  <2>10. CASE ServerAfter(c)
    <3>1. RecordStep(c) /\ UNCHANGED <<factoryVars, served, card, lock, canceled, lost>>
      BY <2>10, ServerAfterStep DEF ServerAfter, AfterPasses, Step
    <3> QED
      BY <1>1, <3>1, StepKeeps
  <2>11. CASE Reply(c)
    <3>1. RecordStep(c) /\ UNCHANGED <<factoryVars, served, card, canceled, lost>>
      BY <2>11, ReplyStep DEF Reply, Step
    <3>2. lock' \subseteq Calls
      BY <1>1, <2>11 DEF Reply, Unlocked
    <3> QED
      BY <1>1, <3>1, <3>2, StepKeeps
  <2>12. CASE ClientAfter(c)
    <3>1. RecordStep(c) /\ UNCHANGED <<factoryVars, served, lock, canceled, lost>>
      BY <2>12, ClientAfterStep DEF ClientAfter, AfterPasses, Step
    <3>2. card' \in AgentCard
      BY <1>1, <2>12 DEF ClientAfter
    <3> QED
      BY <1>1, <3>1, <3>2, StepKeeps
  <2> QED
    BY <1>4, <2>1, <2>2, <2>3, <2>4, <2>5, <2>6, <2>7, <2>8, <2>9, <2>10, <2>11, <2>12
<1>5. ASSUME NEW c \in Calls, Lose(c)
      PROVE  CallInv'
  <2>1. RecordStep(c) /\ UNCHANGED <<factoryVars, served, card, canceled>>
    BY <1>5, LoseStep DEF Lose
  <2>2. lock' \subseteq Calls /\ lost' \in Nat
    BY <1>1, <1>5 DEF Lose, Unlocked
  <2> QED
    BY <1>1, <2>1, <2>2, StepKeeps
<1>6. CASE UNCHANGED vars
  <2>1. UNCHANGED <<setup, todo, failed, made, card, served, lock, canceled, lost, call>>
    BY <1>6 DEF vars
  <2>2. TypeOK' /\ Tried'
    BY <2>1 DEF CallInv, TypeOK, Tried
  <2>3. ASSUME NEW c \in Calls
        PROVE  RecordOK(call[c])'
    <3>1. PICK r : r = call[c] /\ r = call'[c]
      BY <2>1
    <3>2. RecordOK(r)
      BY <3>1 DEF CallInv
    <3>3. RecordOK(r)'
      BY <2>1, <3>2, StillOK
    <3> QED
      BY <3>1, <3>3
  <2> QED
    BY <2>2, <2>3 DEF CallInv
<1> QED
  BY <1>2, <1>3, <1>4, <1>5, <1>6 DEF Next

\* Every state of a client and its calls satisfies the invariant: types, which
\* candidates have been tried, and what each call's record says so far.
THEOREM SpecInv == Spec => []CallInv
BY InitInv, StepInv, PTL DEF Spec

--------------------------------------------------------------------------------
(* What the invariant says of the properties.                                 *)

\* An interface's protocol comes before another's exactly if its rank is better.
LEMMA PrecedesIs ==
    ASSUME setup \in Setup,
           NEW x \in AgentInterface(Tenants), NEW y \in AgentInterface(Tenants)
    PROVE  Precedes(x.protocol, y.protocol) <=> Rank(setup, x) < Rank(setup, y)
<1>1. PICK pref \in Seq(Protocols) : pref = setup.preferred
  BY DEF Setup
<1>2. PICK a \in Nat, b \in Nat, n \in Nat :
        a = Rank(setup, x) /\ b = Rank(setup, y) /\ n = Len(pref)
  BY <1>1, RankIs
<1>3. /\ a \in 1..n + 1 /\ (a <= n => pref[a] = x.protocol)
      /\ \A i \in 1..n : i < a => pref[i] # x.protocol
      /\ b \in 1..n + 1 /\ (b <= n => pref[b] = y.protocol)
      /\ \A i \in 1..n : i < b => pref[i] # y.protocol
  BY <1>1, <1>2, RankIs
<1>4. Precedes(x.protocol, y.protocol) <=>
        \E i \in 1..n : pref[i] = x.protocol /\ \A m \in 1..i : pref[m] # y.protocol
  <2>1. DOMAIN pref = 1..n
    BY <1>1, <1>2
  <2> QED
    BY <1>1, <2>1 DEF Precedes
<1>5. ASSUME NEW i \in 1..n, pref[i] = x.protocol, \A m \in 1..i : pref[m] # y.protocol
      PROVE  a < b
  <2>1. a <= i
    BY <1>3, <1>5
  <2>2. i < b
    <3>1. CASE b <= n
      BY <1>3, <1>5, <3>1
    <3>2. CASE ~(b <= n)
      BY <1>3, <3>2
    <3> QED
      BY <3>1, <3>2
  <2> QED
    BY <2>1, <2>2
<1>6. ASSUME a < b
      PROVE  \E i \in 1..n : pref[i] = x.protocol /\ \A m \in 1..i : pref[m] # y.protocol
  <2>1. a \in 1..n /\ pref[a] = x.protocol
    BY <1>3, <1>6
  <2>2. \A m \in 1..a : pref[m] # y.protocol
    <3> TAKE m \in 1..a
    <3>1. m \in 1..n /\ m < b
      BY <1>6, <2>1
    <3> QED
      BY <1>3, <3>1
  <2> QED
    BY <2>1, <2>2
<1> QED
  BY <1>2, <1>4, <1>5, <1>6

\* The candidates are sorted and the ones before the head have failed: the head is the best.
LEMMA InvBest == CallInv => ChosenIsBest
<1> SUFFICES ASSUME CallInv, made = "made"
             PROVE  \E j \in DOMAIN setup.interfaces :
                      /\ setup.interfaces[j] = Chosen
                      /\ \A i \in DOMAIN setup.interfaces :
                          (setup.interfaces[i].protocol \in setup.builders /\ Better(i, j))
                              => setup.interfaces[i] \in failed
  BY DEF ChosenIsBest
<1> DEFINE T == AgentInterface(Tenants)
<1>1. setup \in Setup
  BY DEF CallInv, TypeOK
<1>2. PICK t \in Seq(T), N \in Nat :
        t = setup.interfaces /\ N = Len(t) /\ DOMAIN setup.interfaces = 1..N
  BY <1>1 DEF Setup
<1>3. PICK C \in Seq(T) : C = Candidates(setup)
  BY <1>1, CandidatesSorted
<1>4. PICK k \in 0..Len(C) : /\ todo = SubSeq(C, k + 1, Len(C))
                             /\ \A i \in 1..k : C[i] \in failed
  BY <1>3 DEF CallInv, Tried
<1>5. PICK s \in Seq(T) : s = todo /\ s # <<>>
  BY DEF CallInv, TypeOK, Tried
<1>6. PICK L \in Nat, P \in Nat : L = Len(C) /\ P = Len(setup.preferred) + 1
  BY <1>1 DEF Setup
<1>7. PICK at \in [1..L -> 1..N] :
        /\ \A p \in 1..L : C[p] = t[at[p]]
        /\ \A p, q \in 1..L :
             p < q => \/ Rank(setup, C[p]) < Rank(setup, C[q])
                      \/ Rank(setup, C[p]) = Rank(setup, C[q]) /\ at[p] < at[q]
        /\ \A i \in 1..N :
             (t[i].protocol \in setup.builders /\ Rank(setup, t[i]) \in 1..P)
               => \E p \in 1..L : at[p] = i
  <2>1. SortedTo(setup, C, P)
    BY <1>1, <1>3, <1>6, CandidatesSorted
  <2>2. PICK at \in [1..Len(C) -> 1..Len(setup.interfaces)] :
          /\ \A p \in 1..Len(C) :
               /\ C[p] = setup.interfaces[at[p]]
               /\ C[p].protocol \in setup.builders /\ Rank(setup, C[p]) \in 1..P
          /\ \A p, q \in 1..Len(C) :
               p < q => \/ Rank(setup, C[p]) < Rank(setup, C[q])
                        \/ Rank(setup, C[p]) = Rank(setup, C[q]) /\ at[p] < at[q]
          /\ \A i \in 1..Len(setup.interfaces) :
               (/\ setup.interfaces[i].protocol \in setup.builders
                /\ Rank(setup, setup.interfaces[i]) \in 1..P)
                 => \E p \in 1..Len(C) : at[p] = i
    BY <2>1, Zenon DEF SortedTo
  <2> HIDE DEF T
  <2>3. at \in [1..L -> 1..N] /\ \A p \in 1..L : C[p] = t[at[p]]
    BY <1>2, <1>6, <2>2
  <2>4. \A p, q \in 1..L :
          p < q => \/ Rank(setup, C[p]) < Rank(setup, C[q])
                   \/ Rank(setup, C[p]) = Rank(setup, C[q]) /\ at[p] < at[q]
    BY <1>6, <2>2
  <2>5. \A i \in 1..N :
          (t[i].protocol \in setup.builders /\ Rank(setup, t[i]) \in 1..P)
            => \E p \in 1..L : at[p] = i
    BY <1>2, <1>6, <2>2
  <2> QED
    BY <2>3, <2>4, <2>5, Zenon
<1>8. k + 1 \in 1..L /\ Chosen = C[k + 1]
  <2> HIDE DEF T
  <2>1. Len(s) = Len(C) - k /\ \A i \in 1..Len(C) - k : s[i] = C[k + i]
    BY <1>4, <1>5, SuffixOf
  <2>2. Head(s) = s[1] /\ Len(s) \in Nat \ {0}
    BY <1>5, TailOf
  <2>3. k + 1 \in 1..L /\ 1 \in 1..Len(C) - k
    BY <1>4, <1>6, <2>1, <2>2
  <2> QED
    BY <1>5, <2>1, <2>2, <2>3 DEF Chosen
<1>9. PICK c \in 1..L, j \in 1..N : c = k + 1 /\ j = at[c] /\ t[j] = Chosen
  BY <1>7, <1>8
<1>10. ASSUME NEW i \in 1..N, t[i].protocol \in setup.builders, t[i] \notin failed
       PROVE  ~Better(i, j)
  <2>1. t[i] \in T /\ t[j] \in T
    <3> HIDE DEF T
    <3> QED
      BY <1>2
  <2>2. PICK a \in Nat, b \in Nat :
          a = Rank(setup, t[i]) /\ b = Rank(setup, t[j]) /\ a \in 1..P
    <3>1. /\ Rank(setup, t[i]) \in 1..Len(setup.preferred) + 1
          /\ Rank(setup, t[j]) \in 1..Len(setup.preferred) + 1
      BY <1>1, <2>1, RankIs
    <3> HIDE DEF T
    <3> QED
      BY <1>6, <3>1
  <2>3. PICK p \in 1..L : at[p] = i
    BY <1>7, <1>10, <2>2
  <2>4. C[p] = t[i] /\ C[c] = t[j]
    BY <1>7, <1>9, <2>3
  <2>5. p \notin 1..k
    BY <1>4, <1>10, <2>4
  <2>6. p = c \/ c < p
    BY <1>4, <1>9, <2>5
  <2>7. b < a \/ (b = a /\ j <= i)
    <3>1. CASE p = c
      BY <1>9, <2>2, <2>3, <3>1
    <3>2. CASE c < p
      <4>1. \/ Rank(setup, C[c]) < Rank(setup, C[p])
            \/ Rank(setup, C[c]) = Rank(setup, C[p]) /\ at[c] < at[p]
        BY <1>7, <3>2
      <4> QED
        BY <1>9, <2>2, <2>3, <2>4, <4>1
    <3> QED
      BY <2>6, <3>1, <3>2
  <2>8. /\ Precedes(t[i].protocol, t[j].protocol) <=> a < b
        /\ Precedes(t[j].protocol, t[i].protocol) <=> b < a
    BY <1>1, <2>1, <2>2, PrecedesIs
  <2>9. Better(i, j) <=> \/ Precedes(t[i].protocol, t[j].protocol)
                         \/ ~Precedes(t[j].protocol, t[i].protocol) /\ i < j
    BY <1>2 DEF Better
  <2> QED
    BY <2>7, <2>8, <2>9
<1> QED
  BY <1>2, <1>9, <1>10

\* A finished call's result is in its record as explained.
LEMMA InvExplained == CallInv => AnswerExplained
<1> SUFFICES ASSUME CallInv, NEW c \in Calls, Done(c)
             PROVE  call[c].result \in call[c].said \union Generic \union {"Http"}
  BY DEF AnswerExplained
<1>1. Explained(call[c])
  BY DEF CallInv, RecordOK
<1> QED
  BY <1>1 DEF Explained, Done, Pc

\* A finished call that nothing broke has put all its layers on and taken them off.
LEMMA InvNested == CallInv => Nested
<1> DEFINE n == ServerInterceptors
           onion == [i \in 1..2 * n |-> IF i <= n THEN i ELSE i - 2 * n - 1]
<1> SUFFICES ASSUME CallInv, NEW c \in Calls, Done(c), call[c].handled, ~call[c].broken
             PROVE  call[c].seen = IF IsStream(c) THEN SubSeq(onion, 1, n) ELSE onion
  BY DEF Nested
<1>1. call[c].seen = Onion(IF call[c].wire \in Streaming THEN n ELSE 2 * n)
  BY DEF CallInv, RecordOK, Layers, Done, Pc
<1>2. onion = Onion(2 * n)
  BY DEF Onion
<1>3. SubSeq(onion, 1, n) = Onion(n)
  <2>1. PICK m \in Nat : m = n
    BY CallPathAssumption
  <2>2. PICK a, b, w : a = Onion(m) /\ b = SubSeq(onion, 1, n) /\ w = onion
    OBVIOUS
  <2>3. /\ w \in Seq(Int) /\ Len(w) = 2 * m
        /\ \A i \in 1..2 * m : i <= m => w[i] = i
    <3>1. w \in [1..2 * m -> Int]
      BY <2>1, <2>2
    <3> QED
      BY <2>1, <2>2, <3>1
  <2>4. a \in Seq(Int) /\ Len(a) = m /\ \A i \in 1..m : a[i] = i
    <3>1. a \in [1..m -> Int] /\ \A i \in 1..m : a[i] = i
      BY <2>1, <2>2 DEF Onion
    <3> QED
      BY <3>1
  <2>5. b \in Seq(Int) /\ Len(b) = m /\ \A i \in 1..m : b[i] = w[i]
    <3>1. m \in 0..Len(w) /\ b = SubSeq(w, 1, m)
      BY <2>1, <2>2, <2>3
    <3> QED
      BY <2>3, <3>1, PrefixOf
  <2>6. \A i \in 1..m : a[i] = b[i]
    BY <2>3, <2>4, <2>5
  <2>7. a = b
    BY <2>4, <2>5, <2>6, SameElements
  <2> QED
    BY <2>1, <2>2, <2>7
<1> QED
  BY <1>1, <1>2, <1>3 DEF IsStream

\* All calls of one client receive the tenant of the interface it chose.
LEMMA InvOneTenant == CallInv => OneTenant
<1> SUFFICES ASSUME CallInv, made = "made",
                    CASE Over("JSONRPC")   -> TRUE
                      [] Over("HTTP+JSON") -> Chosen.path = Chosen.tenant
                      [] Over("GRPC")      -> Chosen.tenant = "",
                    NEW c \in Calls, NEW d \in Calls, call[c].handled, call[d].handled
             PROVE  call[c].tenant = call[d].tenant
  BY DEF OneTenant
<1>1. ASSUME NEW e \in Calls, call[e].handled
      PROVE  call[e].tenant = Chosen.tenant
  <2>1. call[e].wire # "card" /\ call[e].tenant = TenantReceived(Chosen, call[e].wire)
    BY <1>1 DEF CallInv, RecordOK, Received
  <2>2. CASE Chosen.protocol = "JSONRPC"
    BY <2>1, <2>2 DEF TenantReceived, Decorated
  <2>3. CASE Chosen.protocol = "HTTP+JSON"
    <3>1. Chosen.path = Chosen.tenant
      BY <2>3 DEF Over
    <3> QED
      BY <2>1, <2>3, <3>1 DEF TenantReceived, Decorated
  <2>4. CASE Chosen.protocol = "GRPC"
    <3>1. Chosen.tenant = ""
      BY <2>4 DEF Over
    <3> QED
      BY <2>1, <2>4, <3>1 DEF TenantReceived, Decorated
  <2> QED
    BY <2>2, <2>3, <2>4, ChosenIs
<1> QED
  BY <1>1

\* The factory uses the best interface that it can: every better one that has a
\* builder was tried and failed, for any card and any preferences.
THEOREM FactoryUsesTheBest == Spec => []ChosenIsBest
BY SpecInv, InvBest, PTL

\* What a caller gets was said by somebody on the way, or is generic, or is a
\* failure of the connection, whatever interceptors and handler do.
THEOREM AnswersAreExplained == Spec => []AnswerExplained
BY SpecInv, InvExplained, PTL

\* The server's interceptors nest around the handler, however many there are.
THEOREM InterceptorsNest == Spec => []Nested
BY SpecInv, InvNested, PTL

\* A client's calls carry one tenant to the handler, where the protocol's
\* binding keeps it.
THEOREM TenantIsOne == Spec => []OneTenant
BY SpecInv, InvOneTenant, PTL
================================================================================
