---------------------------- MODULE ProofLemmas ----------------------------
(***************************************************************************)
(* What the proofs about several components need and no library module     *)
(* states: the least element of a set of natural numbers, by which they    *)
(* argue about recursive functions, the ranks of a graph and recursion     *)
(* over them, sequences given by their elements, lists and their sets,     *)
(* maxima, and the arithmetic of bits.                                     *)
(***************************************************************************)
EXTENDS Integers, SequencesExt, FiniteSetsExt, SequenceTheorems,
        FiniteSetTheorems, WellFoundedInduction, TLAPS

(* A set of natural numbers has a least element.                           *)
LEMMA LeastElement ==
  ASSUME NEW T, T \subseteq Nat, T # {}
  PROVE  \E x \in T : \A y \in T : x <= y
<1> DEFINE R == {ss \in Nat \X Nat : ss[1] < ss[2]}
<1>1. IsWellFoundedOn(R, Nat)
  BY NatLessThanWellFounded, Zenon DEF OpToRel
<1>2. PICK x \in T : \A y \in T : <<y, x>> \notin R
  BY <1>1, WFMin, Zenon
<1>3. \A y \in Nat : y < x => <<y, x>> \in R
  BY T \subseteq Nat
<1> HIDE DEF R
<1>4. \A y \in T : ~(y < x)
  BY <1>2, <1>3
<1> QED
  BY <1>4

(* Induction over 0 .. n, for a set of numbers.                            *)
LEMMA UpTo ==
  ASSUME NEW n \in Nat, NEW T, 0 \in T, \A i \in 1 .. n : i - 1 \in T => i \in T
  PROVE  0 .. n \subseteq T
<1> DEFINE Bad == {i \in 0 .. n : i \notin T}
<1> SUFFICES ASSUME Bad # {} PROVE FALSE
  OBVIOUS
<1>1. PICK i \in Bad : \A l \in Bad : i <= l
  <2>1. Bad \subseteq Nat
    OBVIOUS
  <2> HIDE DEF Bad
  <2> QED
    BY <2>1, LeastElement
<1>2. i \in 0 .. n /\ i \notin T
  BY <1>1
<1>3. i # 0
  BY <1>2
<1>4. i \in 1 .. n /\ i - 1 \in 0 .. n /\ ~(i <= i - 1)
  BY <1>2, <1>3
<1>5. i - 1 \in T
  <2> SUFFICES ASSUME i - 1 \notin T PROVE FALSE
    OBVIOUS
  <2>1. i - 1 \in Bad
    BY <1>4
  <2> HIDE DEF Bad
  <2> QED
    BY <1>1, <1>4, <2>1
<1> QED
  BY <1>2, <1>4, <1>5
-----------------------------------------------------------------------------
(* g begins with b and continues with F.                                   *)
IsRecursion(g, n, b, F) ==
  \A i \in 0 .. n : g[i] = IF i = 0 THEN b ELSE F[<<i, g[i - 1]>>]

(* A function that is defined by recursion over 0 .. n exists.             *)
LEMMA RecursionExists ==
  ASSUME NEW S, NEW n \in Nat, NEW b \in S, NEW F \in [(1 .. n) \X S -> S]
  PROVE  \E g \in [0 .. n -> S] : IsRecursion(g, n, b, F)
<1> DEFINE Solves(g, m) == \A i \in 0 .. m : g[i] = IF i = 0 THEN b ELSE F[<<i, g[i - 1]>>]
           Bad == {m \in 0 .. n : ~ \E g \in [0 .. m -> S] : Solves(g, m)}
<1>1. Bad = {}
  <2> SUFFICES ASSUME Bad # {} PROVE FALSE
    OBVIOUS
  <2>1. PICK m \in Bad : \A l \in Bad : m <= l
    <3>1. Bad \subseteq Nat
      OBVIOUS
    <3> HIDE DEF Bad
    <3> QED
      BY <3>1, LeastElement
  <2>2. m # 0
    <3>1. [i \in 0 .. 0 |-> b] \in [0 .. 0 -> S] /\ Solves([i \in 0 .. 0 |-> b], 0)
      OBVIOUS
    <3> QED
      BY <2>1, <3>1
  <2>3. m \in 1 .. n /\ m - 1 \in 0 .. n /\ m - 1 \notin Bad
    <3>1. m \in 0 .. n
      BY <2>1
    <3> HIDE DEF Bad
    <3> QED
      BY <2>1, <2>2, <3>1
  <2>4. PICK g \in [0 .. m - 1 -> S] : Solves(g, m - 1)
    BY <2>3
  <2> DEFINE h == [i \in 0 .. m |-> IF i = m THEN F[<<m, g[m - 1]>>] ELSE g[i]]
  <2>5. g[m - 1] \in S /\ F[<<m, g[m - 1]>>] \in S
    BY <2>3
  <2>6. h \in [0 .. m -> S]
    BY <2>3, <2>5
  <2>7. Solves(h, m)
    <3>1. ASSUME NEW i \in 0 .. m
          PROVE  h[i] = IF i = 0 THEN b ELSE F[<<i, h[i - 1]>>]
      <4>1. CASE i = m
        BY <2>3, <4>1
      <4>2. CASE i # m
        <5>1. i \in 0 .. m - 1 /\ h[i] = g[i]
          BY <2>3, <4>2
        <5>2. i # 0 => i - 1 \in 0 .. m - 1 /\ h[i - 1] = g[i - 1]
          BY <2>3, <4>2
        <5> QED
          BY <2>4, <5>1, <5>2
      <4> QED
        BY <4>1, <4>2
    <3> QED
      BY <3>1
  <2> QED
    BY <2>1, <2>6, <2>7
<1>2. PICK g \in [0 .. n -> S] : Solves(g, n)
  BY <1>1
<1> QED
  BY <1>2 DEF IsRecursion

(* What Phi says of a vertex depends only on the vertices of lower rank.    *)
OnLowerRanks(V, S, rank, Phi) ==
  \A t, u \in [V -> S] : \A v \in V :
    (\A w \in V : rank[w] < rank[v] => t[w] = u[w]) => Phi[t][v] = Phi[u][v]

HasSolution(V, S, Phi) == \E t \in [V -> S] : Phi[t] = t

(* A recursive definition over the ranks has a solution.                   *)
LEMMA RecursionOverRanks ==
  ASSUME NEW V, NEW S, NEW N \in Nat, NEW rank \in [V -> 1 .. N],
         NEW b \in [V -> S], NEW Phi \in [[V -> S] -> [V -> S]],
         OnLowerRanks(V, S, rank, Phi)
  PROVE  HasSolution(V, S, Phi)
<1> DEFINE F == [x \in (1 .. N) \X [V -> S] |-> Phi[x[2]]]
<1>1. F \in [(1 .. N) \X [V -> S] -> [V -> S]]
  OBVIOUS
<1>2. PICK g \in [0 .. N -> [V -> S]] : IsRecursion(g, N, b, F)
  <2> HIDE DEF F
  <2> QED
    BY <1>1, RecursionExists
<1>3. \A i \in 0 .. N : g[i] \in [V -> S]
  OBVIOUS
<1>4. ASSUME NEW i \in 1 .. N
      PROVE  i \in 0 .. N /\ i - 1 \in 0 .. N /\ g[i] = Phi[g[i - 1]]
  <2>1. i \in 0 .. N /\ i - 1 \in 0 .. N /\ i # 0
    OBVIOUS
  <2>2. g[i - 1] \in [V -> S]
    BY <1>3, <2>1
  <2>3. g[i] = F[<<i, g[i - 1]>>]
    BY <1>2, <2>1 DEF IsRecursion
  <2>4. <<i, g[i - 1]>> \in (1 .. N) \X [V -> S]
    BY <2>2
  <2> QED
    BY <2>1, <2>3, <2>4
<1> HIDE DEF F
<1> DEFINE Good(i) == \A v \in V : rank[v] <= i => Phi[g[i]][v] = g[i][v]
           G == {i \in Nat : Good(i)}
<1>5. \A v \in V : rank[v] \in 1 .. N
  OBVIOUS
<1>6. 0 \in G
  BY <1>5
<1>7. ASSUME NEW i \in 1 .. N, i - 1 \in G
      PROVE  i \in G
  <2>0. i \in Nat /\ g[i] \in [V -> S] /\ g[i - 1] \in [V -> S] /\ g[i] = Phi[g[i - 1]]
    BY <1>3, <1>4
  <2>1. Good(i - 1)
    BY <1>7
  <2> SUFFICES ASSUME NEW v \in V, rank[v] <= i
               PROVE  Phi[g[i]][v] = g[i][v]
    BY <2>0
  <2>2. ASSUME NEW w \in V, rank[w] < rank[v]
        PROVE  g[i][w] = g[i - 1][w]
    <3>1. rank[w] <= i - 1
      BY <1>5, <2>0, <2>2
    <3> QED
      BY <2>0, <2>1, <3>1
  <2>3. Phi[g[i]][v] = Phi[g[i - 1]][v]
    BY <2>0, <2>2 DEF OnLowerRanks
  <2> QED
    BY <2>0, <2>3
<1>8. 0 .. N \subseteq G
  <2> HIDE DEF G
  <2> QED
    BY <1>6, <1>7, UpTo
<1>9. N \in 0 .. N /\ \A v \in V : rank[v] <= N
  BY <1>5
<1>10. Good(N)
  BY <1>8, <1>9
<1>11. g[N] \in [V -> S] /\ Phi[g[N]] \in [V -> S]
  BY <1>3, <1>9
<1>12. Phi[g[N]] = g[N]
  BY <1>9, <1>10, <1>11
<1> QED
  BY <1>11, <1>12 DEF HasSolution

(* Where every set has an element without a predecessor in it, vertices    *)
(* have ranks above those of their predecessors: the vertices are taken    *)
(* out one by one, each after its predecessors.                            *)
LEMMA RanksExist ==
  ASSUME NEW V, IsFiniteSet(V), NEW Pre \in [V -> SUBSET V],
         \A S \in SUBSET V : S # {} => \E v \in S : Pre[v] \intersect S = {}
  PROVE  \E rank \in [V -> 1 .. Cardinality(V)] :
           \A v \in V : \A p \in Pre[v] : rank[p] < rank[v]
<1> DEFINE N == Cardinality(V)
           Ordered(A, n, rank) ==
             /\ IsFiniteSet(A) /\ Cardinality(A) = n /\ rank \in [A -> 1 .. n]
             /\ \A v \in A : Pre[v] \subseteq A /\ \A p \in Pre[v] : rank[p] < rank[v]
           G == {n \in Nat : n <= N => \E A \in SUBSET V : \E rank : Ordered(A, n, rank)}
<1>1. N \in Nat
  BY FS_CardinalityType
<1>2. 0 \in G
  <2>1. Ordered({}, 0, [v \in {} |-> 1])
    BY FS_EmptySet
  <2> QED
    BY <2>1
<1>3. ASSUME NEW n \in 1 .. N, n - 1 \in G
      PROVE  n \in G
  <2>1. n \in Nat /\ n - 1 \in Nat /\ n - 1 < N /\ n - 1 <= N /\ n = (n - 1) + 1
    BY <1>1
  <2>2. PICK A \in SUBSET V : \E rank : Ordered(A, n - 1, rank)
    BY <1>3, <2>1
  <2>3. PICK rank : Ordered(A, n - 1, rank)
    BY <2>2
  <2>4. V \ A # {}
    <3>1. A # V
      BY <2>1, <2>3
    <3> QED
      BY <3>1
  <2>5. PICK v \in V \ A : Pre[v] \intersect (V \ A) = {}
    BY <2>4
  <2> DEFINE B == A \union {v}
             up == [u \in B |-> IF u = v THEN n ELSE rank[u]]
  <2>6. Pre[v] \subseteq A
    BY <2>5
  <2>7. IsFiniteSet(B) /\ Cardinality(B) = n
    BY <2>1, <2>3, <2>5, FS_AddElement
  <2>8. \A u \in A : u # v /\ rank[u] \in 1 .. n - 1
    BY <2>3, <2>5
  <2> HIDE DEF N, G
  <2>9. up \in [B -> 1 .. n]
    <3>1. \A m \in 1 .. n - 1 : m \in 1 .. n
      BY <2>1
    <3>2. n \in 1 .. n
      BY <2>1
    <3> QED
      BY <2>8, <3>1, <3>2
  <2>10. ASSUME NEW u \in B
         PROVE  Pre[u] \subseteq B /\ \A p \in Pre[u] : up[p] < up[u]
    <3>1. CASE u = v
      <4>1. ASSUME NEW p \in Pre[u]
            PROVE  p \in B /\ up[p] < up[u]
        <5>1. p \in A
          BY <2>6, <3>1
        <5>2. up[p] = rank[p] /\ rank[p] \in 1 .. n - 1 /\ up[u] = n
          BY <2>8, <3>1, <5>1
        <5> QED
          BY <2>1, <5>1, <5>2
      <4> QED
        BY <4>1
    <3>2. CASE u \in A
      <4>1. Pre[u] \subseteq A /\ \A p \in Pre[u] : rank[p] < rank[u]
        BY <2>3, <3>2
      <4> QED
        BY <2>8, <3>2, <4>1
    <3> QED
      BY <3>1, <3>2
  <2> HIDE DEF up
  <2>11. B \in SUBSET V
    OBVIOUS
  <2> HIDE DEF B
  <2>12. Ordered(B, n, up)
    BY <2>7, <2>9, <2>10
  <2> QED
    BY <2>1, <2>11, <2>12 DEF G
<1>4. 0 .. N \subseteq G
  <2> HIDE DEF G, N
  <2> QED
    BY <1>1, <1>2, <1>3, UpTo
<1>5. N \in 0 .. N /\ N <= N
  BY <1>1
<1>6. PICK A \in SUBSET V : \E rank : Ordered(A, N, rank)
  BY <1>4, <1>5
<1>7. PICK rank : Ordered(A, N, rank)
  BY <1>6
<1>8. A = V
  BY <1>7, FS_Subset
<1> QED
  BY <1>7, <1>8

(* A function on 1 .. n is a sequence of length n.                         *)
LEMMA FunctionIsSequence ==
  ASSUME NEW S, NEW n \in Nat, NEW f \in [1 .. n -> S]
  PROVE  f \in Seq(S) /\ Len(f) = n
<1>1. f \in Seq(S)
  BY SeqDef
<1>2. Len(f) \in Nat /\ 1 .. Len(f) = 1 .. n
  BY <1>1, LenProperties
<1> QED
  BY <1>1, <1>2

(* A sequence that repeats another one and has one element more.           *)
LEMMA AppendByIndex ==
  ASSUME NEW S, NEW s \in Seq(S), NEW t \in Seq(S), NEW e \in S,
         Len(t) = Len(s) + 1, t[Len(s) + 1] = e,
         \A i \in 1 .. Len(s) : t[i] = s[i]
  PROVE  t = Append(s, e)
<1>1. /\ Append(s, e) \in Seq(S) /\ Len(Append(s, e)) = Len(s) + 1
      /\ \A i \in 1 .. Len(s) : Append(s, e)[i] = s[i]
      /\ Append(s, e)[Len(s) + 1] = e
  BY AppendProperties
<1>2. Len(s) \in Nat
  BY LenProperties
<1>3. \A i \in 1 .. Len(t) : t[i] = Append(s, e)[i]
  BY <1>1, <1>2
<1> QED
  BY <1>1, <1>3, SeqEqual

(* A sequence that lacks the first element of another one.                 *)
LEMMA TailByIndex ==
  ASSUME NEW S, NEW s \in Seq(S), NEW t \in Seq(S), s # <<>>,
         Len(t) = Len(s) - 1, \A i \in 1 .. Len(t) : t[i] = s[i + 1]
  PROVE  t = Tail(s)
<1>1. /\ Tail(s) \in Seq(S) /\ Len(Tail(s)) = Len(s) - 1
      /\ \A i \in 1 .. Len(Tail(s)) : Tail(s)[i] = s[i + 1]
  BY HeadTailProperties
<1> QED
  BY <1>1, SeqEqual

(* A sequence with a new first element.                                    *)
LEMMA NewFirst ==
  ASSUME NEW S, NEW s \in Seq(S), NEW e \in S
  PROVE  /\ <<e>> \o s \in Seq(S) /\ Len(<<e>> \o s) = Len(s) + 1
         /\ \A a \in 1 .. Len(s) + 1 : (<<e>> \o s)[a] = IF a = 1 THEN e ELSE s[a - 1]
<1>1. <<e>> \in Seq(S) /\ Len(<<e>>) = 1 /\ <<e>>[1] = e
  OBVIOUS
<1>2. Len(s) \in Nat
  BY LenProperties
<1>3. /\ <<e>> \o s \in Seq(S) /\ Len(<<e>> \o s) = 1 + Len(s)
      /\ \A a \in 1 .. 1 + Len(s) :
           (<<e>> \o s)[a] = IF a <= 1 THEN <<e>>[a] ELSE s[a - 1]
  BY <1>1, ConcatProperties
<1>4. 1 + Len(s) = Len(s) + 1 /\ \A a \in 1 .. Len(s) + 1 : a <= 1 <=> a = 1
  BY <1>2
<1> QED
  BY <1>1, <1>3, <1>4

(* A sequence without its element number k.                                *)
LEMMA CutOut ==
  ASSUME NEW S, NEW s \in Seq(S), NEW k \in 1 .. Len(s)
  PROVE  /\ SubSeq(s, 1, k - 1) \o SubSeq(s, k + 1, Len(s)) \in Seq(S)
         /\ Len(SubSeq(s, 1, k - 1) \o SubSeq(s, k + 1, Len(s))) = Len(s) - 1
         /\ \A a \in 1 .. Len(s) - 1 :
              (SubSeq(s, 1, k - 1) \o SubSeq(s, k + 1, Len(s)))[a]
                = IF a < k THEN s[a] ELSE s[a + 1]
<1> DEFINE f == SubSeq(s, 1, k - 1)
           g == SubSeq(s, k + 1, Len(s))
<1>1. /\ Len(s) \in Nat /\ k \in Nat /\ 1 <= k /\ k <= Len(s)
      /\ k - 1 <= Len(s) /\ k + 1 \in Nat /\ k - 1 \in Int /\ k + 1 >= 1
  BY LenProperties
<1>2. /\ f \in Seq(S) /\ Len(f) = k - 1
      /\ \A a \in 1 .. k - 1 : f[a] = s[a]
  <2>1. \A a \in 1 .. 0 : FALSE
    OBVIOUS
  <2>2. CASE k - 1 < 1
    <3>1. f = << >>
      BY <1>1, <2>2, SubSeqEmpty
    <3> QED
      BY <1>1, <2>1, <2>2, <3>1
  <2>3. CASE k - 1 >= 1
    BY <1>1, <2>3, SubSeqProperties
  <2> QED
    BY <1>1, <2>2, <2>3
<1>3. /\ g \in Seq(S) /\ Len(g) = Len(s) - k
      /\ \A a \in 1 .. Len(s) - k : g[a] = s[a + k]
  <2>1. CASE k = Len(s)
    <3>1. g = << >>
      BY <1>1, <2>1, SubSeqEmpty
    <3> QED
      BY <1>1, <2>1, <3>1
  <2>2. CASE k # Len(s)
    BY <1>1, <2>2, SubSeqProperties
  <2> QED
    BY <2>1, <2>2
<1> HIDE DEF f, g
<1>5. /\ f \o g \in Seq(S) /\ Len(f \o g) = Len(f) + Len(g)
      /\ \A a \in 1 .. Len(f) + Len(g) :
           (f \o g)[a] = IF a <= Len(f) THEN f[a] ELSE g[a - Len(f)]
  BY <1>2, <1>3, ConcatProperties
<1>6. Len(f) + Len(g) = Len(s) - 1
  BY <1>1, <1>2, <1>3
<1>7. ASSUME NEW a \in 1 .. Len(s) - 1
      PROVE  (f \o g)[a] = IF a < k THEN s[a] ELSE s[a + 1]
  <2>1. (f \o g)[a] = IF a <= k - 1 THEN f[a] ELSE g[a - (k - 1)]
    BY <1>2, <1>5, <1>6
  <2>2. CASE a < k
    <3>1. a \in 1 .. k - 1 /\ a <= k - 1
      BY <1>1, <2>2
    <3> QED
      BY <1>2, <2>1, <2>2, <3>1
  <2>3. CASE a >= k
    <3>1. /\ a - (k - 1) \in 1 .. Len(s) - k /\ (a - (k - 1)) + k = a + 1
          /\ ~(a <= k - 1) /\ ~(a < k)
      BY <1>1, <2>3
    <3>2. g[a - (k - 1)] = s[a + 1]
      BY <1>3, <3>1
    <3> QED
      BY <2>1, <3>1, <3>2
  <2>4. a < k \/ a >= k
    BY <1>1
  <2> QED
    BY <2>2, <2>3, <2>4, Zenon
<1> QED
  BY <1>5, <1>6, <1>7 DEF f, g
-----------------------------------------------------------------------------
(* The set of the elements of a list.                                      *)
LEMMA ToSetFacts ==
  ASSUME NEW S, NEW s \in Seq(S)
  PROVE  /\ ToSet(s) = {s[i] : i \in 1 .. Len(s)}
         /\ ToSet(s) \subseteq S
         /\ \A x : Contains(s, x) <=> x \in ToSet(s)
         /\ Len(s) \in Nat /\ DOMAIN s = 1 .. Len(s)
         /\ s = <<>> <=> ToSet(s) = {}
<1>1. Len(s) \in Nat /\ DOMAIN s = 1 .. Len(s) /\ (s = <<>> <=> Len(s) = 0)
  BY LenProperties, EmptySeq
<1>2. \A i \in 1 .. Len(s) : s[i] \in S
  BY <1>1, ElementOfSeq
<1>3. ToSet(s) = {s[i] : i \in 1 .. Len(s)}
  BY <1>1 DEF ToSet
<1>4. ToSet(s) \subseteq S
  BY <1>2, <1>3
<1>5. \A x : Contains(s, x) <=> x \in ToSet(s)
  BY <1>3 DEF Contains
<1>6. Len(s) = 0 <=> ToSet(s) = {}
  <2>1. Len(s) # 0 => 1 \in 1 .. Len(s)
    BY <1>1
  <2>2. Len(s) = 0 => \A i \in 1 .. Len(s) : FALSE
    BY <1>1
  <2> QED
    BY <1>3, <2>1, <2>2
<1> QED
  BY <1>1, <1>3, <1>4, <1>5, <1>6

(* An append adds its element.                                             *)
LEMMA ToSetAppend ==
  ASSUME NEW S, NEW s \in Seq(S), NEW e \in S
  PROVE  Append(s, e) \in Seq(S) /\ ToSet(Append(s, e)) = ToSet(s) \union {e}
<1> DEFINE t == Append(s, e)
<1>1. /\ t \in Seq(S) /\ Len(t) = Len(s) + 1
      /\ \A i \in 1 .. Len(s) : t[i] = s[i]
      /\ t[Len(s) + 1] = e
  BY AppendProperties
<1>2. Len(s) \in Nat /\ ToSet(s) = {s[i] : i \in 1 .. Len(s)}
  BY ToSetFacts
<1> HIDE DEF t
<1>3. ToSet(t) = {t[i] : i \in 1 .. Len(s) + 1}
  <2>1. ToSet(t) = {t[i] : i \in 1 .. Len(t)}
    BY <1>1, ToSetFacts
  <2> QED
    BY <1>1, <2>1
<1>4. \A i \in 1 .. Len(s) + 1 : i \in 1 .. Len(s) \/ i = Len(s) + 1
  BY <1>2
<1>5. \A i \in 1 .. Len(s) : i \in 1 .. Len(s) + 1
  BY <1>2
<1>6. Len(s) + 1 \in 1 .. Len(s) + 1
  BY <1>2
<1>7. \A x \in ToSet(t) : x \in ToSet(s) \union {e}
  BY <1>1, <1>2, <1>3, <1>4
<1>8. \A x \in ToSet(s) \union {e} : x \in ToSet(t)
  BY <1>1, <1>2, <1>3, <1>5, <1>6
<1> QED
  BY <1>1, <1>7, <1>8 DEF t

(* The elements of a list are finitely many.                               *)
LEMMA ListIsFinite ==
  ASSUME NEW S, NEW s \in Seq(S)
  PROVE  IsFiniteSet(ToSet(s))
<1>1. ToSet(s) = {s[i] : i \in 1 .. Len(s)} /\ Len(s) \in Nat /\ DOMAIN s = 1 .. Len(s)
  BY ToSetFacts
<1>2. s \in [1 .. Len(s) -> ToSet(s)]
  BY <1>1 DEF ToSet
<1>3. s \in Surjection(1 .. Len(s), ToSet(s))
  BY <1>1, <1>2 DEF Surjection
<1>4. IsFiniteSet(1 .. Len(s))
  BY <1>1, FS_Interval
<1> QED
  BY <1>3, <1>4, FS_Surjection

(* A list of all elements of a finite set, each once.                      *)
LEMMA SetToSeqsFacts ==
  ASSUME NEW S, IsFiniteSet(S), NEW s \in SetToSeqs(S)
  PROVE  /\ s \in Seq(S) /\ ToSet(s) = S
         /\ \A i, j \in DOMAIN s : s[i] = s[j] => i = j
<1> DEFINE n == Cardinality(S)
<1>1. n \in Nat
  BY FS_CardinalityType
<1>2. s \in [1 .. n -> S] /\ \A i, j \in 1 .. n : i # j => s[i] # s[j]
  BY DEF SetToSeqs
<1> HIDE DEF n
<1>3. s \in Seq(S) /\ Len(s) = n
  BY <1>1, <1>2, FunctionIsSequence
<1>4. s \in Injection(1 .. n, S)
  BY <1>2 DEF Injection, IsInjective
<1>5. IsFiniteSet(1 .. n) /\ Cardinality(1 .. n) = Cardinality(S)
  BY <1>1, FS_Interval DEF n
<1>6. s \in Surjection(1 .. n, S)
  BY <1>4, <1>5, FS_Injection
<1>7. ToSet(s) = {s[i] : i \in 1 .. n}
  BY <1>3, ToSetFacts
<1>8. \A x \in S : \E i \in 1 .. n : s[i] = x
  BY <1>6 DEF Surjection
<1>9. \A x \in S : x \in ToSet(s)
  BY <1>7, <1>8
<1>10. \A x \in ToSet(s) : x \in S
  BY <1>2, <1>7
<1>11. \A i, j \in DOMAIN s : s[i] = s[j] => i = j
  BY <1>2
<1> QED
  BY <1>3, <1>9, <1>10, <1>11

(* A finite set has such a list.                                           *)
LEMMA SetToSeqsExist ==
  ASSUME NEW S, IsFiniteSet(S)
  PROVE  \E s : s \in SetToSeqs(S)
<1> DEFINE n == Cardinality(S)
<1>1. ExistsBijection(1 .. n, S)
  BY FS_CardinalityType
<1>2. PICK s : s \in Bijection(1 .. n, S)
  BY <1>1 DEF ExistsBijection
<1>3. s \in [1 .. n -> S] /\ \A i, j \in 1 .. n : i # j => s[i] # s[j]
  BY <1>2 DEF Bijection, Injection, IsInjective
<1> QED
  BY <1>3 DEF SetToSeqs

(* Zero and the elements of a list of numbers have a maximum.              *)
LEMMA ListHasMax ==
  ASSUME NEW n \in Nat, NEW f \in [1 .. n -> Nat]
  PROVE  \E x \in {0} \union {f[k] : k \in 1 .. n} :
           \A y \in {0} \union {f[k] : k \in 1 .. n} : x >= y
<1> DEFINE T(i) == {0} \union {f[k] : k \in 1 .. i}
           G == {i \in Nat : i <= n => \E x \in T(i) : \A y \in T(i) : x >= y}
<1>1. 0 \in G
  OBVIOUS
<1>2. ASSUME NEW i \in 1 .. n, i - 1 \in G
      PROVE  i \in G
  <2>1. i \in Nat /\ i - 1 \in Nat /\ i - 1 <= n /\ i <= n /\ f[i] \in Nat
    OBVIOUS
  <2>2. PICK x \in T(i - 1) : \A y \in T(i - 1) : x >= y
    BY <1>2, <2>1
  <2>3. T(i - 1) \subseteq Nat
    OBVIOUS
  <2>4. T(i) = T(i - 1) \union {f[i]}
    <3>1. \A k \in 1 .. i : k \in 1 .. i - 1 \/ k = i
      BY <2>1
    <3>2. (\A k \in 1 .. i - 1 : k \in 1 .. i) /\ i \in 1 .. i
      BY <2>1
    <3>3. \A y \in T(i) : y \in T(i - 1) \union {f[i]}
      BY <3>1
    <3>4. \A y \in T(i - 1) \union {f[i]} : y \in T(i)
      BY <3>2
    <3> QED
      BY <3>3, <3>4
  <2> HIDE DEF T
  <2>5. CASE x >= f[i]
    BY <2>1, <2>2, <2>4, <2>5
  <2>6. CASE ~(x >= f[i])
    <3>1. \A y \in T(i) : f[i] >= y
      BY <2>1, <2>2, <2>3, <2>4, <2>6
    <3> QED
      BY <2>1, <2>4, <3>1
  <2> QED
    BY <2>5, <2>6
<1>3. 0 .. n \subseteq G
  <2> HIDE DEF G
  <2> QED
    BY <1>1, <1>2, UpTo
<1>4. n \in 0 .. n /\ n <= n
  OBVIOUS
<1>5. n \in G
  BY <1>3, <1>4, Zenon
<1>6. \E x \in T(n) : \A y \in T(n) : x >= y
  <2> HIDE DEF T
  <2> QED
    BY <1>4, <1>5
<1> QED
  BY <1>6

(* A finite set of natural numbers has a greatest element.                 *)
LEMMA FiniteHasMax ==
  ASSUME NEW T, IsFiniteSet(T), T \subseteq Nat, T # {}
  PROVE  \E x \in T : \A y \in T : x >= y
<1> DEFINE n == Cardinality(T)
<1>1. n \in Nat /\ ExistsBijection(1 .. n, T)
  BY FS_CardinalityType
<1> HIDE DEF n
<1>2. PICK f \in Bijection(1 .. n, T) : TRUE
  BY <1>1 DEF ExistsBijection
<1>3. f \in [1 .. n -> T] /\ \A y \in T : \E k \in 1 .. n : f[k] = y
  BY <1>2 DEF Bijection, Injection, Surjection
<1>4. f \in [1 .. n -> Nat]
  BY <1>3
<1>5. T = {f[k] : k \in 1 .. n}
  BY <1>3
<1>6. PICK x \in {0} \union T : \A y \in {0} \union T : x >= y
  BY <1>1, <1>4, <1>5, ListHasMax
<1>7. CASE x \in T
  BY <1>6, <1>7
<1>8. CASE x = 0
  <2>1. PICK y \in T : TRUE
    OBVIOUS
  <2>2. \A z \in T : z \in Nat /\ 0 >= z
    BY <1>6, <1>8
  <2>3. y = 0
    BY <2>1, <2>2
  <2> QED
    BY <2>1, <2>2, <2>3
<1> QED
  BY <1>6, <1>7, <1>8

(* An element that no other exceeds is the maximum.                        *)
LEMMA MaxFacts ==
  ASSUME NEW T, NEW x \in T, \A y \in T : x >= y, T \subseteq Int
  PROVE  Max(T) = x /\ Max(T) \in T /\ \A y \in T : Max(T) >= y
<1>1. Max(T) \in T /\ \A y \in T : Max(T) >= y
  BY Zenon DEF Max
<1>2. \A y \in T : y \in Int
  OBVIOUS
<1>3. Max(T) >= x /\ x >= Max(T) /\ x \in Int /\ Max(T) \in Int
  BY <1>1, <1>2, Zenon
<1>4. Max(T) = x
  BY <1>3
<1> QED
  BY <1>1, <1>4

(* The maximum of two numbers.                                             *)
LEMMA MaxOfTwo ==
  ASSUME NEW x \in Int, NEW y \in Int
  PROVE  Max({x, y}) = IF x >= y THEN x ELSE y
<1>1. {x, y} \subseteq Int
  OBVIOUS
<1>2. CASE x >= y
  <2>1. \A z \in {x, y} : x >= z
    BY <1>2
  <2> QED
    BY <1>1, <1>2, <2>1, MaxFacts
<1>3. CASE ~(x >= y)
  <2>1. \A z \in {x, y} : y >= z
    BY <1>3
  <2> QED
    BY <1>1, <1>3, <2>1, MaxFacts
<1> QED
  BY <1>2, <1>3

(* The first of a list and the others.                                     *)
LEMMA HeadAndTail ==
  ASSUME NEW S, NEW s \in Seq(S), s # <<>>
  PROVE  /\ Head(s) \in S /\ Head(s) = s[1] /\ 1 \in DOMAIN s
         /\ Tail(s) \in Seq(S)
         /\ \A i \in DOMAIN Tail(s) : i + 1 \in DOMAIN s /\ Tail(s)[i] = s[i + 1] /\ i \in Nat \ {0}
         /\ ToSet(s) = {Head(s)} \union ToSet(Tail(s))
<1>1. /\ Head(s) \in S /\ Head(s) = s[1] /\ Tail(s) \in Seq(S) /\ Len(Tail(s)) = Len(s) - 1
      /\ \A i \in 1 .. Len(Tail(s)) : Tail(s)[i] = s[i + 1]
  BY HeadTailProperties
<1>2. Len(s) \in Nat /\ DOMAIN s = 1 .. Len(s) /\ Len(s) # 0 /\ ToSet(s) = {s[i] : i \in 1 .. Len(s)}
  BY ToSetFacts, EmptySeq
<1>3. /\ DOMAIN Tail(s) = 1 .. Len(Tail(s))
      /\ ToSet(Tail(s)) = {Tail(s)[i] : i \in 1 .. Len(Tail(s))}
  BY <1>1, ToSetFacts
<1>4. 1 \in DOMAIN s
  BY <1>2
<1>5. ASSUME NEW i \in DOMAIN Tail(s)
      PROVE  i + 1 \in DOMAIN s /\ Tail(s)[i] = s[i + 1] /\ i \in Nat \ {0}
  <2>1. i \in 1 .. Len(s) - 1
    BY <1>1, <1>3
  <2> QED
    BY <1>1, <1>2, <1>3, <2>1
<1>6. ASSUME NEW i \in 1 .. Len(s), i # 1
      PROVE  s[i] \in ToSet(Tail(s))
  <2>1. i - 1 \in 1 .. Len(s) - 1 /\ (i - 1) + 1 = i
    BY <1>2, <1>6
  <2>2. Tail(s)[i - 1] = s[i]
    BY <1>1, <2>1
  <2> QED
    BY <1>1, <1>3, <2>1, <2>2
<1>7. ToSet(s) = {Head(s)} \union ToSet(Tail(s))
  <2>1. ToSet(Tail(s)) \subseteq ToSet(s)
    BY <1>2, <1>3, <1>5
  <2>2. Head(s) \in ToSet(s)
    BY <1>1, <1>2, <1>4
  <2>3. \A x \in ToSet(s) : x = Head(s) \/ x \in ToSet(Tail(s))
    BY <1>1, <1>2, <1>6
  <2> QED
    BY <2>1, <2>2, <2>3
<1> QED
  BY <1>1, <1>4, <1>5, <1>7

(* What is in front of the last element.                                   *)
LEMMA FrontByIndex ==
  ASSUME NEW S, NEW s \in Seq(S), s # <<>>
  PROVE  /\ Len(s) \in Nat /\ Len(s) # 0
         /\ Front(s) \in Seq(S) /\ Len(Front(s)) = Len(s) - 1
         /\ \A i \in 1 .. Len(s) - 1 : Front(s)[i] = s[i]
<1> DEFINE n == Len(s)
           f == SubSeq(s, 1, n - 1)
<1>1. n \in Nat /\ n # 0
  BY ToSetFacts, EmptySeq
<1>2. \A i \in 1 .. n : s[i] \in S
  BY ElementOfSeq
<1>3. \A i \in 1 .. n - 1 : i \in 1 .. n /\ 1 + i - 1 = i
  BY <1>1
<1>4. /\ f \in Seq(S)
      /\ Len(f) = IF 1 <= n - 1 THEN n - 1 - 1 + 1 ELSE 0
      /\ \A i \in 1 .. n - 1 - 1 + 1 : f[i] = s[1 + i - 1]
  <2>1. 1 \in Int /\ n - 1 \in Int /\ \A i \in 1 .. n - 1 : s[i] \in S
    BY <1>1, <1>2, <1>3
  <2> QED
    BY <2>1, SubSeqProperties
<1> HIDE DEF f
<1>5. Len(f) = n - 1 /\ \A i \in 1 .. n - 1 : f[i] = s[i]
  <2> HIDE DEF n
  <2>1. n - 1 - 1 + 1 = n - 1
    BY <1>1
  <2> QED
    BY <1>1, <1>3, <1>4, <2>1
<1> QED
  BY <1>1, <1>4, <1>5 DEF f, Front

(* A list is its last element and those in front of it.                    *)
LEMMA LastAndFront ==
  ASSUME NEW S, NEW s \in Seq(S), s # <<>>
  PROVE  /\ Last(s) \in S /\ Front(s) \in Seq(S)
         /\ ToSet(s) = ToSet(Front(s)) \union {Last(s)}
<1> DEFINE n == Len(s)
<1>1. n \in Nat /\ n # 0 /\ ToSet(s) = {s[i] : i \in 1 .. n}
  BY ToSetFacts, EmptySeq
<1>2. \A i \in 1 .. n : s[i] \in S
  BY ElementOfSeq
<1>3. /\ Front(s) \in Seq(S) /\ Len(Front(s)) = n - 1
      /\ \A i \in 1 .. n - 1 : Front(s)[i] = s[i]
  BY FrontByIndex
<1>4. Last(s) = s[n]
  BY DEF Last
<1> DEFINE f == Front(s)
<1>5. ToSet(f) = {f[i] : i \in 1 .. n - 1}
  <2>1. ToSet(f) = {f[i] : i \in 1 .. Len(f)}
    BY <1>3, ToSetFacts
  <2> QED
    BY <1>3, <2>1
<1> HIDE DEF n, f
<1>6. \A i \in 1 .. n : i \in 1 .. n - 1 \/ i = n
  BY <1>1
<1>7. (\A i \in 1 .. n - 1 : i \in 1 .. n) /\ n \in 1 .. n
  BY <1>1
<1>8. \A i \in 1 .. n - 1 : f[i] = s[i]
  BY <1>3 DEF f
<1>9. \A x \in ToSet(s) : x \in ToSet(f) \union {s[n]}
  BY <1>1, <1>5, <1>6, <1>8
<1>10. \A x \in ToSet(f) \union {s[n]} : x \in ToSet(s)
  BY <1>1, <1>5, <1>7, <1>8
<1> QED
  BY <1>2, <1>3, <1>4, <1>7, <1>9, <1>10 DEF f

(* The elements of a concatenation.                                        *)
LEMMA ToSetConcat ==
  ASSUME NEW S, NEW s \in Seq(S), NEW t \in Seq(S)
  PROVE  s \o t \in Seq(S) /\ ToSet(s \o t) = ToSet(s) \union ToSet(t)
<1> DEFINE u == s \o t
           m == Len(s)
           n == Len(t)
<1>1. m \in Nat /\ n \in Nat
  BY LenProperties
<1>2. /\ u \in Seq(S) /\ Len(u) = m + n
      /\ \A i \in 1 .. m + n : u[i] = IF i <= m THEN s[i] ELSE t[i - m]
  BY ConcatProperties
<1>3. ToSet(s) = {s[i] : i \in 1 .. m} /\ ToSet(t) = {t[i] : i \in 1 .. n}
  BY ToSetFacts
<1> HIDE DEF u, m, n
<1>4. ToSet(u) = {u[i] : i \in 1 .. m + n}
  <2>1. ToSet(u) = {u[i] : i \in 1 .. Len(u)}
    BY <1>2, ToSetFacts
  <2> QED
    BY <1>2, <2>1
<1>5. ASSUME NEW x \in ToSet(u)
      PROVE  x \in ToSet(s) \union ToSet(t)
  <2>1. PICK i \in 1 .. m + n : x = u[i]
    BY <1>4
  <2>2. (i <= m /\ i \in 1 .. m) \/ (~(i <= m) /\ i - m \in 1 .. n)
    BY <1>1
  <2> QED
    BY <1>2, <1>3, <2>1, <2>2
<1>6. ASSUME NEW i \in 1 .. m
      PROVE  s[i] \in ToSet(u)
  <2>1. i \in 1 .. m + n /\ i <= m
    BY <1>1
  <2> QED
    BY <1>2, <1>4, <2>1
<1>7. ASSUME NEW i \in 1 .. n
      PROVE  t[i] \in ToSet(u)
  <2> DEFINE j == i + m
  <2>1. j \in 1 .. m + n /\ ~(j <= m) /\ j - m = i
    BY <1>1
  <2> HIDE DEF j
  <2>2. u[j] = t[j - m]
    BY <1>2, <2>1
  <2>3. u[j] = t[i]
    BY <2>1, <2>2
  <2> QED
    BY <1>4, <2>1, <2>3
<1>8. \A x \in ToSet(s) \union ToSet(t) : x \in ToSet(u)
  BY <1>3, <1>6, <1>7
<1> QED
  BY <1>2, <1>5, <1>8 DEF u

(* Reversing a list keeps its elements.                                    *)
LEMMA ToSetReverse ==
  ASSUME NEW S, NEW s \in Seq(S)
  PROVE  Reverse(s) \in Seq(S) /\ ToSet(Reverse(s)) = ToSet(s)
<1> DEFINE n == Len(s)
           f == [i \in 1 .. n |-> s[(n - i) + 1]]
<1>1. n \in Nat /\ ToSet(s) = {s[i] : i \in 1 .. n}
  BY ToSetFacts
<1>2. \A i \in 1 .. n : s[i] \in S
  BY ElementOfSeq
<1> HIDE DEF n
<1>3. \A i \in 1 .. n : (n - i) + 1 \in 1 .. n /\ (n - ((n - i) + 1)) + 1 = i
  BY <1>1
<1>4. f \in [1 .. n -> S]
  BY <1>2, <1>3
<1>5. f = Reverse(s)
  BY DEF Reverse, n
<1>6. \A i \in 1 .. n : f[i] = s[(n - i) + 1]
  OBVIOUS
<1> HIDE DEF f
<1>7. f \in Seq(S) /\ Len(f) = n
  BY <1>1, <1>4, FunctionIsSequence
<1>8. ToSet(f) = {f[i] : i \in 1 .. n}
  <2>1. ToSet(f) = {f[i] : i \in 1 .. Len(f)}
    BY <1>7, ToSetFacts
  <2> QED
    BY <1>7, <2>1
<1>9. \A x \in ToSet(f) : x \in ToSet(s)
  BY <1>1, <1>3, <1>6, <1>8
<1>10. ASSUME NEW i \in 1 .. n
       PROVE  s[i] \in ToSet(f)
  <2>1. (n - i) + 1 \in 1 .. n
    BY <1>3
  <2>2. f[(n - i) + 1] = s[(n - ((n - i) + 1)) + 1]
    BY <1>6, <2>1
  <2>3. f[(n - i) + 1] = s[i]
    BY <1>3, <2>2
  <2> QED
    BY <1>8, <2>1, <2>3
<1>11. \A x \in ToSet(s) : x \in ToSet(f)
  BY <1>1, <1>10
<1> QED
  BY <1>5, <1>7, <1>9, <1>11
-----------------------------------------------------------------------------
(* A power of two is positive.                                             *)
LEMMA PowerType == \A n \in Nat : 2 ^ n \in Nat \ {0}
<1> SUFFICES ASSUME NEW n \in Nat
             PROVE  2 ^ n \in Nat \ {0}
  OBVIOUS
<1>1. IsFiniteSet(1 .. n) /\ Cardinality(1 .. n) = n
  BY FS_Interval
<1>2. IsFiniteSet(SUBSET (1 .. n)) /\ Cardinality(SUBSET (1 .. n)) = 2 ^ n
  BY <1>1, FS_SUBSET, Zenon
<1>3. SUBSET (1 .. n) # {}
  OBVIOUS
<1>4. 2 ^ n \in Nat
  BY <1>2, FS_CardinalityType, Zenon
<1>5. 2 ^ n # 0
  BY <1>2, <1>3, FS_EmptySet, Zenon
<1> QED
  BY <1>4, <1>5

(* The subsets of S are half of the subsets of S with one element more.    *)
LEMMA SubsetsDouble ==
  ASSUME NEW S, NEW m, m \notin S, IsFiniteSet(S)
  PROVE  Cardinality(SUBSET (S \union {m}))
           = Cardinality(SUBSET S) + Cardinality(SUBSET S)
<1> DEFINE With == [A \in SUBSET S |-> A \union {m}]
           U == {A \union {m} : A \in SUBSET S}
<1>1. IsFiniteSet(SUBSET S)
  BY FS_SUBSET, Zenon
<1>2. SUBSET (S \union {m}) = (SUBSET S) \union U
  <2>1. ASSUME NEW A \in SUBSET (S \union {m})
        PROVE  A \in (SUBSET S) \union U
    <3>1. CASE m \in A
      <4>1. A \ {m} \in SUBSET S /\ A = (A \ {m}) \union {m}
        BY <3>1, Zenon
      <4> QED
        BY <4>1
    <3>2. CASE m \notin A
      BY <3>2, Zenon
    <3> QED
      BY <3>1, <3>2
  <2>2. (SUBSET S) \union U \subseteq SUBSET (S \union {m})
    <3>1. \A A \in SUBSET S : A \union {m} \in SUBSET (S \union {m})
      BY Zenon
    <3>2. \A A \in SUBSET S : A \in SUBSET (S \union {m})
      BY Zenon
    <3>3. \A A \in U : A \in SUBSET (S \union {m})
      BY <3>1
    <3> QED
      BY <3>2, <3>3
  <2> QED
    BY <2>1, <2>2
<1>3. (SUBSET S) \intersect U = {}
  <2>1. \A A \in U : m \in A
    OBVIOUS
  <2>2. \A A \in SUBSET S : m \notin A
    OBVIOUS
  <2> HIDE DEF U
  <2> QED
    BY <2>1, <2>2
<1>4. ExistsBijection(SUBSET S, U)
  <2>1. \A A, B \in SUBSET S : A \union {m} = B \union {m} => A = B
    <3>1. ASSUME NEW A \in SUBSET S, NEW B \in SUBSET S, A \union {m} = B \union {m}
          PROVE  A = B
      <4>1. A = (A \union {m}) \ {m} /\ B = (B \union {m}) \ {m}
        BY Zenon
      <4> QED
        BY <3>1, <4>1, Zenon
    <3> QED
      BY <3>1, Zenon
  <2>2. With \in [SUBSET S -> U]
    BY Zenon
  <2>3. \A A, B \in SUBSET S : With[A] = With[B] => A = B
    BY <2>1
  <2>4. \A t \in U : \E A \in SUBSET S : With[A] = t
    OBVIOUS
  <2> HIDE DEF With, U
  <2>5. With \in Injection(SUBSET S, U)
    <3>1. DOMAIN With = SUBSET S
      BY <2>2
    <3>2. IsInjective(With)
      BY <2>3, <3>1, Zenon DEF IsInjective
    <3> QED
      BY <2>2, <3>2, Zenon DEF Injection
  <2>6. With \in Surjection(SUBSET S, U)
    BY <2>2, <2>4, Zenon DEF Surjection
  <2> QED
    BY <2>5, <2>6, Zenon DEF ExistsBijection, Bijection
<1> HIDE DEF With, U
<1>5. IsFiniteSet(U) /\ Cardinality(U) = Cardinality(SUBSET S)
  BY <1>1, <1>4, FS_Bijection, Zenon
<1>6. Cardinality((SUBSET S) \union U)
        = Cardinality(SUBSET S) + Cardinality(U) - Cardinality((SUBSET S) \intersect U)
  BY <1>1, <1>5, FS_Union
<1>7. Cardinality((SUBSET S) \intersect U) = 0
  BY <1>3, FS_EmptySet, Zenon
<1>8. Cardinality(SUBSET S) \in Nat
  BY <1>1, FS_CardinalityType, Zenon
<1>9. \A k \in Nat : k + k - 0 = k + k
  OBVIOUS
<1>10. Cardinality((SUBSET S) \union U)
         = Cardinality(SUBSET S) + Cardinality(SUBSET S) - 0
  BY <1>5, <1>6, <1>7, Zenon
<1> QED
  BY <1>2, <1>8, <1>9, <1>10, Zenon

(* One more factor.                                                        *)
LEMMA PowerDoubles == \A n \in Nat : 2 ^ (n + 1) = 2 * 2 ^ n
<1> SUFFICES ASSUME NEW n \in Nat
             PROVE  2 ^ (n + 1) = 2 * 2 ^ n
  OBVIOUS
<1>1. IsFiniteSet(1 .. n) /\ Cardinality(1 .. n) = n
  BY FS_Interval
<1>2. IsFiniteSet(1 .. n + 1) /\ Cardinality(1 .. n + 1) = n + 1
  BY FS_Interval
<1>3. n + 1 \notin 1 .. n /\ 1 .. n + 1 = (1 .. n) \union {n + 1}
  OBVIOUS
<1>4. Cardinality(SUBSET (1 .. n + 1))
        = Cardinality(SUBSET (1 .. n)) + Cardinality(SUBSET (1 .. n))
  BY <1>1, <1>3, SubsetsDouble, Zenon
<1>5. 2 ^ (n + 1) = 2 ^ n + 2 ^ n
  BY <1>1, <1>2, <1>4, FS_SUBSET, Zenon
<1>6. 2 ^ n \in Nat
  BY PowerType
<1> QED
  BY <1>5, <1>6

(* Division by a positive number.                                          *)
LEMMA Division ==
  ASSUME NEW d \in Nat \ {0}, NEW x \in Int
  PROVE  /\ x \div d \in Int /\ x % d \in 0 .. d - 1
         /\ x = d * (x \div d) + (x % d)
OBVIOUS

(* Quotient and remainder are the only numbers that make up x.             *)
LEMMA DivisionIsUnique ==
  ASSUME NEW d \in Nat \ {0}, NEW x \in Int,
         NEW q \in Int, NEW r \in 0 .. d - 1, x = d * q + r
  PROVE  x \div d = q /\ x % d = r
<1> DEFINE q2 == x \div d
           r2 == x % d
<1>1. q2 \in Int /\ r2 \in 0 .. d - 1 /\ x = d * q2 + r2
  BY Division
<1> HIDE DEF q2, r2
<1>2. d * (q - q2) = r2 - r
  BY <1>1
<1>3. CASE q > q2
  <2>1. d * (q - q2) >= d
    BY <1>1, <1>3
  <2> QED
    BY <1>1, <1>2, <2>1
<1>4. CASE q < q2
  <2>1. d * (q2 - q) >= d
    BY <1>1, <1>4
  <2>2. d * (q2 - q) = r - r2
    BY <1>1
  <2> QED
    BY <1>1, <2>1, <2>2
<1>5. CASE q = q2
  BY <1>1, <1>2, <1>5
<1>6. q = q2 /\ r = r2
  BY <1>1, <1>3, <1>4, <1>5
<1> QED
  BY <1>6 DEF q2, r2
=============================================================================
