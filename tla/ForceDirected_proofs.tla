------------------------ MODULE ForceDirected_proofs ------------------------
(***************************************************************************)
(* What the force-directed scheduler computes, for all graphs that the     *)
(* front end may hand over and all times and powers of the operators.      *)
(***************************************************************************)
EXTENDS ForceDirected, ProofLemmas

OpsOf(g) == {v \in DOMAIN g : v[1] \in Operators}

AllOf(g) == DOMAIN g \union Registers(g)

MaxRegs(g) == Cardinality(OpsOf(g))

(* Vertices are of higher rank than their predecessors, with room for a    *)
(* register in between.                                                    *)
Ranked(g, R) ==
  /\ R \in [AllOf(g) -> 1 .. 3 * Cardinality(DOMAIN g)]
  /\ \A v \in DOMAIN g : \A p \in ToSet(g[v]) : R[p] + 2 < R[v]

(* What FrontAssumption says of a graph.                                   *)
LEMMA FrontFacts ==
  ASSUME NEW g \in FrontGraphs
  PROVE  /\ IsFiniteSet(DOMAIN g) /\ DOMAIN g # {} /\ Cardinality(DOMAIN g) \in Nat
         /\ g \in [DOMAIN g -> Seq(DOMAIN g)]
         /\ \A v \in DOMAIN g : ToSet(g[v]) \subseteq DOMAIN g
         /\ OpsOf(g) \subseteq DOMAIN g /\ IsFiniteSet(OpsOf(g)) /\ MaxRegs(g) \in Nat
         /\ DOMAIN g \intersect Registers(g) = {}
         /\ \E R : Ranked(g, R)
<1>1. /\ IsFiniteSet(DOMAIN g) /\ DOMAIN g # {} /\ g \in [DOMAIN g -> Seq(DOMAIN g)]
      /\ DOMAIN g \intersect Registers(g) = {}
      /\ \A S \in SUBSET DOMAIN g : S # {} => \E v \in S : ToSet(g[v]) \intersect S = {}
  BY FrontAssumption, Zenon
<1>2. Cardinality(DOMAIN g) \in Nat
  BY <1>1, FS_CardinalityType
<1>3. \A v \in DOMAIN g : ToSet(g[v]) \subseteq DOMAIN g
  BY <1>1, ToSetFacts
<1>4. OpsOf(g) \subseteq DOMAIN g
  BY DEF OpsOf
<1>5. IsFiniteSet(OpsOf(g)) /\ MaxRegs(g) \in Nat
  BY <1>1, <1>4, FS_Subset, FS_CardinalityType DEF MaxRegs
<1>6. PICK Pre \in [DOMAIN g -> SUBSET DOMAIN g] : \A v \in DOMAIN g : Pre[v] = ToSet(g[v])
  <2>1. [v \in DOMAIN g |-> ToSet(g[v])] \in [DOMAIN g -> SUBSET DOMAIN g]
    BY <1>3
  <2> QED
    BY <2>1
<1>7. \A S \in SUBSET DOMAIN g : S # {} => \E v \in S : Pre[v] \intersect S = {}
  BY <1>1, <1>6
<1>8. PICK rank \in [DOMAIN g -> 1 .. Cardinality(DOMAIN g)] :
        \A v \in DOMAIN g : \A p \in Pre[v] : rank[p] < rank[v]
  <2>1. PICK V : V = DOMAIN g
    OBVIOUS
  <2>2. IsFiniteSet(V) /\ Pre \in [V -> SUBSET V]
    BY <1>1, <1>6, <2>1
  <2>3. \A S \in SUBSET V : S # {} => \E v \in S : Pre[v] \intersect S = {}
    BY <1>7, <2>1
  <2>4. \E rank \in [V -> 1 .. Cardinality(V)] :
          \A v \in V : \A p \in Pre[v] : rank[p] < rank[v]
    BY <2>2, <2>3, RanksExist
  <2> QED
    BY <2>1, <2>4
<1>9. \E R : Ranked(g, R)
  <2> DEFINE n == Cardinality(DOMAIN g)
             R == [x \in AllOf(g) |-> IF x \in DOMAIN g THEN 3 * rank[x] ELSE 1]
  <2>1. \A v \in DOMAIN g : rank[v] \in 1 .. n /\ R[v] = 3 * rank[v]
    BY DEF AllOf
  <2>2. ASSUME NEW v \in DOMAIN g, NEW p \in ToSet(g[v])
        PROVE  R[p] + 2 < R[v]
    <3>1. p \in DOMAIN g /\ rank[p] < rank[v]
      BY <1>3, <1>6, <1>8
    <3> QED
      BY <1>2, <2>1, <3>1
  <2>3. ASSUME NEW x \in AllOf(g)
        PROVE  R[x] \in 1 .. 3 * n
    <3>1. CASE x \in DOMAIN g
      BY <1>2, <2>1, <3>1
    <3>2. CASE x \notin DOMAIN g
      <4>1. \E k \in 0 .. MaxRegs(g) - 1 : TRUE
        BY <3>2 DEF AllOf, Registers, MaxRegs, OpsOf
      <4>2. MaxRegs(g) <= n
        BY <1>1, <1>4, FS_Subset DEF MaxRegs
      <4>3. R[x] = 1
        BY <3>2
      <4> HIDE DEF R
      <4> QED
        BY <1>2, <1>5, <4>1, <4>2, <4>3
    <3> QED
      BY <3>1, <3>2
  <2>4. R \in [AllOf(g) -> 1 .. 3 * n]
    BY <2>3
  <2> QED
    BY <2>2, <2>4 DEF Ranked
<1> QED
  BY <1>1, <1>2, <1>3, <1>4, <1>5, <1>9

(* What it says of an edge.                                                *)
LEMMA EdgeFacts ==
  ASSUME NEW g \in FrontGraphs, NEW v \in DOMAIN g, NEW p \in ToSet(g[v])
  PROVE  /\ p[1] \in Operators \/ p[1] \in {"=", "w", "r"} \/ g[p] = <<>>
         /\ p[1] = "w" <=> v[1] = "r"
         /\ p[1] = "=" => v[1] \notin Operators
         /\ p[1] \in Operators =>
              \A u \in DOMAIN g : \A i \in DOMAIN g[v] : \A j \in DOMAIN g[u] :
                g[v][i] = p /\ g[u][j] = p => u = v /\ j = i
<1>1. PICK i \in DOMAIN g[v] : p = g[v][i]
  BY DEF ToSet
<1>2. \A k \in DOMAIN g[v] :
        /\ g[v][k][1] \in Operators \union {"=", "w", "r"} \/ g[g[v][k]] = <<>>
        /\ g[v][k][1] = "w" <=> v[1] = "r"
        /\ g[v][k][1] = "=" => v[1] \notin Operators
        /\ g[v][k][1] \in Operators \union {"="} =>
             \A u \in DOMAIN g : \A j \in DOMAIN g[u] :
               g[u][j] = g[v][k] => u = v /\ j = k
  BY FrontAssumption, Zenon
<1> QED
  BY <1>1, <1>2

(* The new registers.                                                      *)
LEMMA RegisterFacts ==
  ASSUME NEW g \in FrontGraphs
  PROVE  /\ \A k \in 0 .. MaxRegs(g) - 1 :
              /\ <<"w", k>> \in AllOf(g) /\ <<"w", k>> \notin DOMAIN g
              /\ <<"r", k>> \in AllOf(g) /\ <<"r", k>> \notin DOMAIN g
         /\ \A x \in AllOf(g) \ DOMAIN g :
              \E k \in 0 .. MaxRegs(g) - 1 : x \in {<<"w", k>>, <<"r", k>>}
         /\ \A j, k : /\ <<"w", j>> # <<"r", k>>
                      /\ <<"w", j>> = <<"w", k>> => j = k
                      /\ <<"r", j>> = <<"r", k>> => j = k
                      /\ <<"w", j>>[1] = "w" /\ <<"r", j>>[1] = "r"
         /\ "w" \notin Operators /\ "r" \notin Operators /\ "=" \notin Operators
<1>1. Registers(g) = {"w", "r"} \X (0 .. MaxRegs(g) - 1)
  BY DEF Registers, MaxRegs, OpsOf
<1>2. DOMAIN g \intersect Registers(g) = {}
  BY FrontFacts
<1>3. \A k \in 0 .. MaxRegs(g) - 1 : <<"w", k>> \in Registers(g) /\ <<"r", k>> \in Registers(g)
  BY <1>1
<1>4. \A x \in Registers(g) : \E k \in 0 .. MaxRegs(g) - 1 : x \in {<<"w", k>>, <<"r", k>>}
  BY <1>1
<1>5. "w" \notin Operators /\ "r" \notin Operators /\ "=" \notin Operators
  BY FrontAssumption
<1>6. \A j, k : /\ <<"w", j>> # <<"r", k>>
                /\ <<"w", j>> = <<"w", k>> => j = k
                /\ <<"r", j>> = <<"r", k>> => j = k
                /\ <<"w", j>>[1] = "w" /\ <<"r", j>>[1] = "r"
  OBVIOUS
<1> QED
  BY <1>2, <1>3, <1>4, <1>5, <1>6 DEF AllOf

(* No operator takes longer than a cycle.                                  *)
LEMMA DelayFacts ==
  /\ max_cycle_time \in Nat
  /\ \A v : DelayOf(v) \in Nat /\ DelayOf(v) <= max_cycle_time
  /\ \A v : v[1] \notin Operators => DelayOf(v) = 0
<1> DEFINE R == {Delay[o] : o \in Operators}
<1>1. Delay \in [Operators -> Nat] /\ IsFiniteSet(Operators) /\ Operators # {}
  BY FrontAssumption, Zenon
<1>2. R = Range(Delay)
  BY <1>1 DEF Range
<1>3. IsFiniteSet(R)
  <2>1. Delay \in Surjection(Operators, R)
    BY <1>1 DEF Surjection
  <2> QED
    BY <1>1, <2>1, FS_Surjection
<1>4. R \subseteq Nat /\ R # {}
  BY <1>1
<1> HIDE DEF R
<1>5. R \subseteq Int
  BY <1>4
<1>6. PICK x \in R : \A y \in R : x >= y
  BY <1>3, <1>4, FiniteHasMax
<1>7. Max(R) \in R /\ \A y \in R : Max(R) >= y
  BY <1>5, <1>6, MaxFacts
<1>8. max_cycle_time \in Nat /\ \A y \in R : y \in Nat /\ y <= max_cycle_time
  BY <1>2, <1>4, <1>7 DEF max_cycle_time
<1>9. ASSUME NEW v
      PROVE  DelayOf(v) \in Nat /\ DelayOf(v) <= max_cycle_time
  <2>1. CASE v[1] \in Operators
    <3>1. Delay[v[1]] \in R
      BY <2>1 DEF R
    <3> QED
      BY <1>8, <2>1, <3>1 DEF DelayOf
  <2>2. CASE v[1] \notin Operators
    BY <1>8, <2>2 DEF DelayOf
  <2> QED
    BY <2>1, <2>2
<1>10. \A v : v[1] \notin Operators => DelayOf(v) = 0
  BY DEF DelayOf
<1> QED
  BY <1>8, <1>9, <1>10
-----------------------------------------------------------------------------
(* The split *)

SplitTypes(g) ==
  /\ dfgPre \in [DOMAIN g -> Seq(DOMAIN g)] /\ dfgTime \in [DOMAIN g -> Nat]
  /\ splitting \in Seq(DOMAIN g) /\ toSplit \in Seq(DOMAIN g)
  /\ newPre \in [AllOf(g) -> Seq(AllOf(g))] /\ newNxt \in [AllOf(g) -> Seq(AllOf(g))]
  /\ regs \in 0 .. MaxRegs(g)
  /\ beginList \in Seq(DOMAIN g) /\ ToSet(beginList) = {v \in DOMAIN g : g[v] = <<>>}
  /\ endList \in Seq(DOMAIN g) /\ ToSet(endList) = DOMAIN g \ Consumed(g)
  /\ flowStep # "split" => splitting = <<>> /\ toSplit = <<>>

(* What is still to be reached: operators once.                            *)
LeftToSplit(g) ==
  /\ \A v \in DOMAIN g : ToSet(dfgPre[v]) \subseteq ToSet(g[v])
  /\ \A u, v \in DOMAIN g : \A i \in DOMAIN dfgPre[u] : \A j \in DOMAIN dfgPre[v] :
       dfgPre[u][i] = dfgPre[v][j] /\ dfgPre[u][i][1] \in Operators => u = v /\ i = j
  /\ \A i, j \in DOMAIN toSplit : toSplit[i] = toSplit[j] => i = j
  /\ ToSet(toSplit) \subseteq ToSet(endList)

Fresh(p) ==
  p[1] \in Operators /\ (p \in ToSet(toSplit) \/ \E u \in DOMAIN dfgPre : p \in ToSet(dfgPre[u]))

(* T is the delay of the chain that starts in a vertex; of an operator     *)
(* that was not reached yet it is the operator's own.                      *)
FreshAlone(g, T) ==
  \A p \in DOMAIN g :
    Fresh(p) => /\ newPre[p] = <<>> /\ newNxt[p] = <<>>
                /\ dfgTime[p] = T[p] /\ p \notin ToSet(splitting)

(* The weights are those of the chains on the path of the recursion; only  *)
(* inputs, which have no predecessors, get one without being operators.    *)
OnThePath(g, R, T) ==
  /\ \A i, j \in DOMAIN splitting : i < j => R[splitting[j]] < R[splitting[i]]
  /\ \A v \in DOMAIN g :
       v[1] \notin Operators /\ (g[v] # <<>> \/ v \notin ToSet(splitting)) => dfgTime[v] = 0
  /\ \A v \in DOMAIN g : v[1] \in Operators /\ v \in ToSet(splitting) => dfgTime[v] = T[v]

Edges(g, R) ==
  /\ \A x, y \in AllOf(g) : y \in ToSet(newPre[x]) <=> x \in ToSet(newNxt[y])
  /\ \A x \in AllOf(g) : \A y \in ToSet(newPre[x]) : R[y] < R[x]
  /\ \A x \in DOMAIN g : \A y \in ToSet(newPre[x]) :
       y \in ToSet(g[x]) \/ (x[1] \in Operators /\ \E k \in 0 .. regs - 1 : y = <<"r", k>>)

(* A register lies between two operators that do not fit into a cycle.     *)
Between(g, T, k, p, v) ==
  /\ newPre[<<"w", k>>] = <<p>> /\ newNxt[<<"w", k>>] = <<<<"r", k>>>>
  /\ newPre[<<"r", k>>] = <<<<"w", k>>>> /\ newNxt[<<"r", k>>] = <<v>>
  /\ v[1] \in Operators
  /\ p \in ToSet(g[v]) /\ p[1] \in Operators
  /\ DelayOf(p) + T[v] > max_cycle_time

RegistersMade(g, T) ==
  /\ \A k \in 0 .. regs - 1 : \E p, v \in DOMAIN g : Between(g, T, k, p, v)
  /\ \A k \in regs .. MaxRegs(g) - 1 :
       /\ newPre[<<"w", k>>] = <<>> /\ newNxt[<<"w", k>>] = <<>>
       /\ newPre[<<"r", k>>] = <<>> /\ newNxt[<<"r", k>>] = <<>>

Chains(g, T) ==
  /\ T \in [AllOf(g) -> Nat]
  /\ \A x \in AllOf(g) : x[1] \notin Operators => T[x] = 0
  /\ \A p \in DOMAIN g : p[1] \in Operators =>
       /\ T[p] <= max_cycle_time
       /\ \/ newNxt[p] = <<>> /\ T[p] = DelayOf(p)
          \/ \E n \in AllOf(g) : newNxt[p] = <<n>> /\ T[p] = DelayOf(p) + T[n]

Reached(g, v) == \E u \in DOMAIN g : v \in ToSet(g[u]) \ ToSet(dfgPre[u])

(* What was reached is done or on the path; what was done has all edges.   *)
SplitSoFar(g) ==
  \A v \in DOMAIN g :
    /\ Reached(g, v) \/ v \in ToSet(endList) \ ToSet(toSplit) =>
         v \in ToSet(splitting) \/ dfgPre[v] = <<>>
    /\ Reached(g, v) => newNxt[v] # <<>>
    /\ newPre[v] = <<>> => dfgPre[v] = g[v]

SplitInv(g, R, T) ==
  /\ SplitTypes(g) /\ LeftToSplit(g) /\ FreshAlone(g, T) /\ OnThePath(g, R, T)
  /\ Edges(g, R) /\ RegistersMade(g, T) /\ Chains(g, T) /\ SplitSoFar(g)

(* The edge that is taken: its delays add up to the chain from v with p    *)
(* before it, and only a chain of two operators can be too long.           *)
LEMMA EdgeTaken ==
  ASSUME NEW g \in FrontGraphs, NEW R, NEW T, Ranked(g, R), SplitInv(g, R, T),
         splitting # <<>>, NEW v, v = Last(splitting), dfgPre[v] # <<>>,
         NEW p, p = Head(dfgPre[v])
  PROVE  /\ v \in DOMAIN g /\ p \in DOMAIN g /\ p \in ToSet(g[v])
         /\ R[p] + 2 < R[v] /\ p # v /\ R[p] \in Nat /\ R[v] \in Nat
         /\ v \in ToSet(splitting) /\ p \notin ToSet(splitting)
         /\ p[1] \in Operators => Fresh(p) /\ newPre[p] = <<>> /\ newNxt[p] = <<>>
         /\ T[v] \in Nat /\ DelayOf(p) \in Nat
         /\ dfgTime[p] + dfgTime[v] = DelayOf(p) + T[v]
         /\ DelayOf(p) + T[v] > max_cycle_time => p[1] \in Operators /\ v[1] \in Operators
         /\ p[1] \notin Operators /\ g[p] # <<>> /\ p[1] \notin {"=", "r"} => T[v] = 0
<1>1. v \in DOMAIN g /\ v \in ToSet(splitting)
  BY LastAndFront DEF SplitInv, SplitTypes
<1>2. dfgPre[v] \in Seq(DOMAIN g)
  BY <1>1 DEF SplitInv, SplitTypes
<1>3. p \in DOMAIN g /\ p \in ToSet(dfgPre[v]) /\ p \in ToSet(g[v])
  <2>1. p \in DOMAIN g /\ p \in ToSet(dfgPre[v])
    BY <1>2, HeadAndTail
  <2> QED
    BY <1>1, <2>1 DEF SplitInv, LeftToSplit
<1>4. R[p] + 2 < R[v] /\ R[p] \in Nat /\ R[v] \in Nat
  BY <1>1, <1>3 DEF Ranked, AllOf
<1>5. \A u \in ToSet(splitting) : R[v] <= R[u]
  <2>1. splitting \in Seq(DOMAIN g) /\ Len(splitting) \in Nat /\ DOMAIN splitting = 1 .. Len(splitting)
    BY ToSetFacts DEF SplitInv, SplitTypes
  <2>2. v = splitting[Len(splitting)] /\ Len(splitting) # 0
    BY <2>1, EmptySeq DEF Last
  <2>3. ASSUME NEW i \in DOMAIN splitting
        PROVE  R[v] <= R[splitting[i]]
    <3>1. CASE i = Len(splitting)
      BY <1>4, <2>2, <3>1
    <3>2. CASE i # Len(splitting)
      <4>1. i < Len(splitting) /\ Len(splitting) \in DOMAIN splitting
        BY <2>1, <2>2, <3>2
      <4>2. R[splitting[Len(splitting)]] < R[splitting[i]]
        BY <4>1 DEF SplitInv, OnThePath
      <4>3. R[splitting[i]] \in Nat
        BY <2>1 DEF Ranked, AllOf
      <4> QED
        BY <1>4, <2>2, <4>2, <4>3
    <3> QED
      BY <3>1, <3>2
  <2> QED
    BY <2>3 DEF ToSet
<1>6. p \notin ToSet(splitting) /\ p # v
  BY <1>4, <1>5
<1>7. p[1] \in Operators => Fresh(p)
  BY <1>1, <1>3 DEF Fresh, SplitInv, SplitTypes
<1>8. p[1] \in Operators => newPre[p] = <<>> /\ newNxt[p] = <<>> /\ dfgTime[p] = T[p]
  BY <1>3, <1>7 DEF SplitInv, FreshAlone
<1>9. T[v] \in Nat /\ DelayOf(p) \in Nat /\ T \in [AllOf(g) -> Nat] /\ v \in AllOf(g) /\ p \in AllOf(g)
  BY <1>1, <1>3, DelayFacts DEF SplitInv, Chains, AllOf
<1>10. g[v] # <<>>
  <2>1. g[v] \in Seq(DOMAIN g)
    BY <1>1, FrontFacts
  <2> QED
    BY <1>3, <2>1, ToSetFacts
<1>11. dfgTime[v] = T[v]
  <2>1. CASE v[1] \in Operators
    BY <1>1, <2>1 DEF SplitInv, OnThePath
  <2>2. CASE v[1] \notin Operators
    <3>1. dfgTime[v] = 0
      BY <1>1, <1>10, <2>2 DEF SplitInv, OnThePath
    <3>2. T[v] = 0
      BY <1>9, <2>2 DEF SplitInv, Chains
    <3> QED
      BY <3>1, <3>2
  <2> QED
    BY <2>1, <2>2
<1>12. dfgTime[p] = DelayOf(p)
  <2>1. CASE p[1] \in Operators
    <3>1. ~ \E n \in AllOf(g) : newNxt[p] = <<n>>
      <4>1. \A n : <<n>> # <<>>
        OBVIOUS
      <4> QED
        BY <1>8, <2>1, <4>1
    <3>2. T[p] = DelayOf(p)
      BY <1>3, <2>1, <3>1 DEF SplitInv, Chains
    <3> QED
      BY <1>8, <2>1, <3>2
  <2>2. CASE p[1] \notin Operators
    <3>1. dfgTime[p] = 0
      BY <1>3, <1>6, <2>2 DEF SplitInv, OnThePath
    <3> QED
      BY <2>2, <3>1, DelayFacts
  <2> QED
    BY <2>1, <2>2
<1>13. ASSUME DelayOf(p) + T[v] > max_cycle_time
       PROVE  p[1] \in Operators /\ v[1] \in Operators
  <2>1. p[1] \notin Operators => DelayOf(p) = 0
    BY DelayFacts
  <2>2. v[1] \notin Operators => T[v] = 0
    BY <1>9 DEF SplitInv, Chains
  <2>3. v[1] \in Operators => T[v] <= max_cycle_time
    BY <1>1 DEF SplitInv, Chains
  <2>4. DelayOf(p) <= max_cycle_time /\ max_cycle_time \in Nat
    BY DelayFacts
  <2> QED
    BY <1>9, <1>13, <2>1, <2>2, <2>3, <2>4
<1>14. ASSUME p[1] \notin Operators, g[p] # <<>>, p[1] \notin {"=", "r"}
       PROVE  T[v] = 0
  <2>1. p[1] = "w"
    BY <1>1, <1>3, <1>14, EdgeFacts
  <2>2. v[1] = "r"
    BY <1>1, <1>3, <2>1, EdgeFacts
  <2>3. v[1] \notin Operators
    BY <2>2, RegisterFacts
  <2> QED
    BY <1>9, <2>3 DEF SplitInv, Chains
<1> QED
  BY <1>1, <1>3, <1>4, <1>6, <1>7, <1>8, <1>9, <1>11, <1>12, <1>13, <1>14

(* What taking an edge does whether or not it gets a register.             *)
LEMMA EdgeGone ==
  ASSUME NEW g \in FrontGraphs, NEW R, NEW T, Ranked(g, R), SplitInv(g, R, T),
         SplitEdge, NEW v, v = Last(splitting), NEW p, p = Head(dfgPre[v])
  PROVE  /\ dfgPre' \in [DOMAIN g -> Seq(DOMAIN g)]
         /\ splitting' \in Seq(DOMAIN g) /\ ToSet(splitting') = ToSet(splitting) \union {p}
         /\ \A i, j \in DOMAIN splitting' : i < j => R[splitting'[j]] < R[splitting'[i]]
         /\ \A q : Fresh(q)' => Fresh(q) /\ q # p
         /\ \A u \in DOMAIN g : Reached(g, u)' => Reached(g, u) \/ u = p
         /\ \A u \in DOMAIN g : u # v => dfgPre'[u] = dfgPre[u]
         /\ dfgPre[v] # <<>>
         /\ LeftToSplit(g)'
<1>1. /\ splitting # <<>> /\ dfgPre[v] # <<>>
      /\ dfgPre' = [dfgPre EXCEPT ![v] = Tail(@)]
      /\ splitting' = Append(splitting, p)
      /\ UNCHANGED <<toSplit, endList>>
  BY DEF SplitEdge
<1>2. /\ v \in DOMAIN g /\ p \in DOMAIN g /\ p \in ToSet(g[v]) /\ R[p] + 2 < R[v]
      /\ v \in ToSet(splitting) /\ p[1] \in Operators => Fresh(p)
  BY <1>1, EdgeTaken
<1>3. /\ dfgPre \in [DOMAIN g -> Seq(DOMAIN g)] /\ splitting \in Seq(DOMAIN g)
      /\ toSplit \in Seq(DOMAIN g)
  BY DEF SplitInv, SplitTypes
<1>4. /\ p = dfgPre[v][1] /\ 1 \in DOMAIN dfgPre[v]
      /\ Tail(dfgPre[v]) \in Seq(DOMAIN g)
      /\ \A i \in DOMAIN Tail(dfgPre[v]) : /\ i + 1 \in DOMAIN dfgPre[v]
                                           /\ Tail(dfgPre[v])[i] = dfgPre[v][i + 1]
                                           /\ i \in Nat \ {0}
      /\ ToSet(dfgPre[v]) = {p} \union ToSet(Tail(dfgPre[v]))
  BY <1>1, <1>2, <1>3, HeadAndTail
<1>5. /\ dfgPre' \in [DOMAIN g -> Seq(DOMAIN g)]
      /\ dfgPre'[v] = Tail(dfgPre[v])
      /\ \A u \in DOMAIN g : u # v => dfgPre'[u] = dfgPre[u]
  BY <1>1, <1>2, <1>3, <1>4
<1>6. /\ \A u \in DOMAIN g : ToSet(dfgPre'[u]) \subseteq ToSet(dfgPre[u])
      /\ \A u \in DOMAIN g : ToSet(dfgPre[u]) \subseteq ToSet(dfgPre'[u]) \union {p}
  BY <1>2, <1>4, <1>5
<1>7. \A u, w \in DOMAIN g : \A i \in DOMAIN dfgPre[u] : \A j \in DOMAIN dfgPre[w] :
        dfgPre[u][i] = dfgPre[w][j] /\ dfgPre[u][i][1] \in Operators => u = w /\ i = j
  BY DEF SplitInv, LeftToSplit
<1>8. ASSUME NEW u \in DOMAIN g, NEW i \in DOMAIN dfgPre'[u]
      PROVE  \E j \in DOMAIN dfgPre[u] :
               /\ dfgPre'[u][i] = dfgPre[u][j]
               /\ j = IF u = v THEN i + 1 ELSE i
               /\ u = v => j # 1 /\ i \in Nat
  <2>1. CASE u = v
    <3>1. i \in DOMAIN Tail(dfgPre[v]) /\ dfgPre'[u][i] = Tail(dfgPre[v])[i]
      BY <1>5, <2>1
    <3>2. i + 1 \in DOMAIN dfgPre[v] /\ dfgPre'[u][i] = dfgPre[v][i + 1] /\ i \in Nat \ {0}
      BY <1>4, <3>1
    <3>3. i + 1 # 1 /\ i \in Nat
      BY <3>2
    <3> QED
      BY <2>1, <3>2, <3>3
  <2>2. CASE u # v
    BY <1>5, <2>2
  <2> QED
    BY <2>1, <2>2
<1>9. ASSUME p[1] \in Operators, NEW u \in DOMAIN g
      PROVE  p \notin ToSet(dfgPre'[u])
  <2> SUFFICES ASSUME NEW i \in DOMAIN dfgPre'[u], dfgPre'[u][i] = p
               PROVE  FALSE
    BY DEF ToSet
  <2>1. PICK j \in DOMAIN dfgPre[u] : dfgPre[u][j] = p /\ (u = v => j # 1)
    BY <1>8
  <2> QED
    BY <1>2, <1>4, <1>7, <1>9, <2>1
<1>10. p \notin ToSet(toSplit)
  <2>1. ToSet(toSplit) \subseteq DOMAIN g \ Consumed(g)
    BY DEF SplitInv, SplitTypes, LeftToSplit
  <2> QED
    BY <1>2, <2>1 DEF Consumed
<1>11. ASSUME NEW q, Fresh(q)'
       PROVE  Fresh(q) /\ q # p
  <2>1. DOMAIN dfgPre' = DOMAIN g /\ DOMAIN dfgPre = DOMAIN g
    BY <1>3, <1>5
  <2>2. q[1] \in Operators /\ (q \in ToSet(toSplit) \/ \E u \in DOMAIN g : q \in ToSet(dfgPre'[u]))
    BY <1>1, <1>11, <2>1 DEF Fresh
  <2> QED
    BY <1>6, <1>9, <1>10, <2>1, <2>2 DEF Fresh
<1>12. \A u \in DOMAIN g : Reached(g, u)' => Reached(g, u) \/ u = p
  BY <1>6 DEF Reached
<1>13. splitting' \in Seq(DOMAIN g) /\ ToSet(splitting') = ToSet(splitting) \union {p}
  BY <1>1, <1>2, <1>3, ToSetAppend
<1>14. ASSUME NEW i \in DOMAIN splitting', NEW j \in DOMAIN splitting', i < j
       PROVE  R[splitting'[j]] < R[splitting'[i]]
  <2>1. /\ Len(splitting) \in Nat /\ DOMAIN splitting = 1 .. Len(splitting)
        /\ DOMAIN splitting' = 1 .. Len(splitting')
    BY <1>3, <1>13, ToSetFacts
  <2>2. /\ Len(splitting') = Len(splitting) + 1 /\ splitting'[Len(splitting) + 1] = p
        /\ \A k \in 1 .. Len(splitting) : splitting'[k] = splitting[k]
    BY <1>1, <1>2, <1>3, AppendProperties
  <2>3. v = splitting[Len(splitting)] /\ Len(splitting) # 0
    BY <1>1, <1>3, <2>1, EmptySeq DEF Last
  <2>4. i \in DOMAIN splitting /\ splitting'[i] = splitting[i]
    BY <1>14, <2>1, <2>2
  <2>5. \A k, l \in DOMAIN splitting : k < l => R[splitting[l]] < R[splitting[k]]
    BY DEF SplitInv, OnThePath
  <2>6. R[splitting[i]] \in Nat /\ R[p] \in Nat /\ R[v] \in Nat
    <3>1. splitting[i] \in DOMAIN g
      BY <1>3, <2>1, <2>4
    <3> QED
      BY <1>2, <3>1 DEF Ranked, AllOf
  <2>7. CASE j \in DOMAIN splitting
    BY <1>14, <2>1, <2>2, <2>4, <2>5, <2>7
  <2>8. CASE j \notin DOMAIN splitting
    <3>1. splitting'[j] = p
      BY <2>1, <2>2, <2>8
    <3>2. R[v] <= R[splitting[i]]
      <4>1. CASE i = Len(splitting)
        BY <2>3, <2>6, <4>1
      <4>2. CASE i # Len(splitting)
        <5>1. i < Len(splitting) /\ Len(splitting) \in DOMAIN splitting
          BY <2>1, <2>3, <2>4, <4>2
        <5> QED
          BY <2>3, <2>4, <2>5, <2>6, <5>1
      <4> QED
        BY <4>1, <4>2
    <3> QED
      BY <1>2, <2>4, <2>6, <3>1, <3>2
  <2> QED
    BY <2>7, <2>8
<1>15. LeftToSplit(g)'
  <2>1. \A u \in DOMAIN g : ToSet(dfgPre'[u]) \subseteq ToSet(g[u])
    BY <1>6 DEF SplitInv, LeftToSplit
  <2>2. ASSUME NEW u \in DOMAIN g, NEW w \in DOMAIN g,
               NEW i \in DOMAIN dfgPre'[u], NEW j \in DOMAIN dfgPre'[w],
               dfgPre'[u][i] = dfgPre'[w][j], dfgPre'[u][i][1] \in Operators
        PROVE  u = w /\ i = j
    <3>1. PICK k \in DOMAIN dfgPre[u] : /\ dfgPre'[u][i] = dfgPre[u][k]
                                        /\ k = IF u = v THEN i + 1 ELSE i
                                        /\ u = v => i \in Nat
      BY <1>8
    <3>2. PICK l \in DOMAIN dfgPre[w] : /\ dfgPre'[w][j] = dfgPre[w][l]
                                        /\ l = IF w = v THEN j + 1 ELSE j
                                        /\ w = v => j \in Nat
      BY <1>8
    <3>3. dfgPre[u][k] = dfgPre[w][l] /\ dfgPre[u][k][1] \in Operators
      BY <2>2, <3>1, <3>2
    <3>4. u = w /\ k = l
      BY <1>7, <3>3, Zenon
    <3> QED
      BY <3>1, <3>2, <3>4
  <2>3. /\ \A i, j \in DOMAIN toSplit : toSplit[i] = toSplit[j] => i = j
        /\ ToSet(toSplit) \subseteq ToSet(endList)
    BY DEF SplitInv, LeftToSplit
  <2>4. toSplit' = toSplit /\ endList' = endList
    BY <1>1
  <2> QED
    BY <2>1, <2>2, <2>3, <2>4 DEF LeftToSplit
<1> QED
  BY <1>1, <1>5, <1>11, <1>12, <1>13, <1>14, <1>15

(* An edge that fits becomes an edge of the new graph, and the chain from  *)
(* v goes on to p.                                                         *)
LEMMA EdgeFits ==
  ASSUME NEW g \in FrontGraphs, NEW R, NEW T, Ranked(g, R), SplitInv(g, R, T),
         SplitEdge, NEW v, v = Last(splitting), NEW p, p = Head(dfgPre[v]),
         ~ (DelayOf(p) + T[v] > max_cycle_time),
         NEW T2, T2 = [T EXCEPT ![p] = IF p[1] \in Operators THEN DelayOf(p) + T[v] ELSE @]
  PROVE  SplitInv(g, R, T2)'
<1>1. /\ v \in DOMAIN g /\ p \in DOMAIN g /\ p \in ToSet(g[v]) /\ R[p] + 2 < R[v] /\ p # v
      /\ R[p] \in Nat /\ R[v] \in Nat
      /\ v \in ToSet(splitting) /\ p \notin ToSet(splitting)
      /\ p[1] \in Operators => Fresh(p) /\ newPre[p] = <<>> /\ newNxt[p] = <<>>
      /\ T[v] \in Nat /\ DelayOf(p) \in Nat
      /\ dfgTime[p] + dfgTime[v] = DelayOf(p) + T[v]
      /\ p[1] \notin Operators /\ g[p] # <<>> /\ p[1] \notin {"=", "r"} => T[v] = 0
  <2>1. splitting # <<>> /\ dfgPre[v] # <<>>
    BY DEF SplitEdge
  <2> QED
    BY <2>1, EdgeTaken
<1>2. /\ newPre' = [newPre EXCEPT ![v] = Append(@, p)]
      /\ newNxt' = [newNxt EXCEPT ![p] = Append(@, v)]
      /\ dfgTime' = [dfgTime EXCEPT ![p] = IF p[1] \in {"=", "r"} THEN 0 ELSE DelayOf(p) + T[v]]
      /\ UNCHANGED <<regs, toSplit, beginList, endList, flowStep>>
      /\ flowStep = "split"
  <2>1. ~ is_cycle_time_boundary(dfgTime[p] + dfgTime[v])
    BY <1>1 DEF is_cycle_time_boundary
  <2>2. flowStep = "split"
    BY DEF SplitEdge, SplitInv, SplitTypes
  <2> QED
    BY <1>1, <2>1, <2>2 DEF SplitEdge
<1>3. /\ dfgPre' \in [DOMAIN g -> Seq(DOMAIN g)]
      /\ splitting' \in Seq(DOMAIN g) /\ ToSet(splitting') = ToSet(splitting) \union {p}
      /\ \A i, j \in DOMAIN splitting' : i < j => R[splitting'[j]] < R[splitting'[i]]
      /\ \A q : Fresh(q)' => Fresh(q) /\ q # p
      /\ \A u \in DOMAIN g : Reached(g, u)' => Reached(g, u) \/ u = p
      /\ \A u \in DOMAIN g : u # v => dfgPre'[u] = dfgPre[u]
      /\ dfgPre[v] # <<>>
      /\ LeftToSplit(g)'
  BY EdgeGone
<1>4. /\ newPre \in [AllOf(g) -> Seq(AllOf(g))] /\ newNxt \in [AllOf(g) -> Seq(AllOf(g))]
      /\ dfgTime \in [DOMAIN g -> Nat] /\ T \in [AllOf(g) -> Nat]
      /\ v \in AllOf(g) /\ p \in AllOf(g) /\ regs \in 0 .. MaxRegs(g)
  BY <1>1 DEF SplitInv, SplitTypes, Chains, AllOf
<1>5. /\ Append(newPre[v], p) \in Seq(AllOf(g))
      /\ ToSet(Append(newPre[v], p)) = ToSet(newPre[v]) \union {p}
      /\ Append(newNxt[p], v) \in Seq(AllOf(g))
      /\ ToSet(Append(newNxt[p], v)) = ToSet(newNxt[p]) \union {v}
  <2>1. newPre[v] \in Seq(AllOf(g)) /\ newNxt[p] \in Seq(AllOf(g))
    BY <1>4
  <2> QED
    BY <1>4, <2>1, ToSetAppend
<1>6. /\ newPre' \in [AllOf(g) -> Seq(AllOf(g))] /\ newNxt' \in [AllOf(g) -> Seq(AllOf(g))]
      /\ \A x \in AllOf(g) : x # v => newPre'[x] = newPre[x]
      /\ \A x \in AllOf(g) : x # p => newNxt'[x] = newNxt[x]
      /\ ToSet(newPre'[v]) = ToSet(newPre[v]) \union {p}
      /\ ToSet(newNxt'[p]) = ToSet(newNxt[p]) \union {v}
      /\ newNxt[p] = <<>> => newNxt'[p] = <<v>>
  <2>1. newNxt[p] = <<>> => Append(newNxt[p], v) = <<v>>
    OBVIOUS
  <2> QED
    BY <1>2, <1>4, <1>5, <2>1
<1>7. /\ dfgTime' \in [DOMAIN g -> Nat]
      /\ \A x \in DOMAIN g : x # p => dfgTime'[x] = dfgTime[x]
      /\ dfgTime'[p] = IF p[1] \in {"=", "r"} THEN 0 ELSE DelayOf(p) + T[v]
  <2>1. DelayOf(p) + T[v] \in Nat
    BY <1>1
  <2> QED
    BY <1>1, <1>2, <1>4, <2>1
<1>8. /\ T2 \in [AllOf(g) -> Nat] /\ \A x \in AllOf(g) : x # p => T2[x] = T[x]
      /\ T2[p] = IF p[1] \in Operators THEN DelayOf(p) + T[v] ELSE T[p]
  <2>1. DelayOf(p) + T[v] \in Nat
    BY <1>1
  <2> QED
    BY <1>4, <2>1
<1>9. /\ \A x, y \in AllOf(g) : y \in ToSet(newPre[x]) <=> x \in ToSet(newNxt[y])
      /\ \A x \in AllOf(g) : \A y \in ToSet(newPre[x]) : R[y] < R[x]
      /\ \A x \in DOMAIN g : \A y \in ToSet(newPre[x]) :
           y \in ToSet(g[x]) \/ (x[1] \in Operators /\ \E k \in 0 .. regs - 1 : y = <<"r", k>>)
  BY DEF SplitInv, Edges
<1>10. ASSUME p[1] \in Operators, NEW x \in AllOf(g), newNxt[x] = <<p>>
       PROVE  FALSE
  <2>1. p \in ToSet(newNxt[x])
    <3>1. <<p>>[1] = p /\ 1 \in DOMAIN <<p>>
      OBVIOUS
    <3> QED
      BY <1>10, <3>1 DEF ToSet
  <2>2. x \in ToSet(newPre[p])
    BY <1>4, <1>9, <2>1
  <2>3. ToSet(newPre[p]) = {}
    BY <1>1, <1>4, <1>10, ToSetFacts
  <2> QED
    BY <2>2, <2>3
<1>11. /\ \A k \in 0 .. MaxRegs(g) - 1 :
            /\ <<"w", k>> \in AllOf(g) /\ <<"w", k>> \notin DOMAIN g
            /\ <<"r", k>> \in AllOf(g) /\ <<"r", k>> \notin DOMAIN g
       /\ "w" \notin Operators /\ "r" \notin Operators /\ "=" \notin Operators
       /\ MaxRegs(g) \in Nat
  BY FrontFacts, RegisterFacts
<1>12. SplitTypes(g)'
  <2>1. /\ splitting' \in Seq(DOMAIN g) /\ toSplit' \in Seq(DOMAIN g)
        /\ regs' \in 0 .. MaxRegs(g)
        /\ beginList' \in Seq(DOMAIN g) /\ ToSet(beginList') = {x \in DOMAIN g : g[x] = <<>>}
        /\ endList' \in Seq(DOMAIN g) /\ ToSet(endList') = DOMAIN g \ Consumed(g)
        /\ flowStep' = "split"
    BY <1>2, <1>3 DEF SplitInv, SplitTypes
  <2> QED
    BY <1>3, <1>6, <1>7, <2>1 DEF SplitTypes
<1>13. FreshAlone(g, T2)'
  <2> SUFFICES ASSUME NEW q \in DOMAIN g, Fresh(q)'
               PROVE  /\ newPre'[q] = <<>> /\ newNxt'[q] = <<>>
                      /\ dfgTime'[q] = T2[q] /\ q \notin ToSet(splitting')
    BY DEF FreshAlone
  <2>1. /\ q # p /\ newPre[q] = <<>> /\ newNxt[q] = <<>>
        /\ dfgTime[q] = T[q] /\ q \notin ToSet(splitting)
    BY <1>3 DEF SplitInv, FreshAlone
  <2>2. q \in AllOf(g) /\ q # v
    BY <1>1, <2>1 DEF AllOf
  <2> QED
    BY <1>3, <1>6, <1>7, <1>8, <2>1, <2>2
<1>14. OnThePath(g, R, T2)'
  <2>1. ASSUME NEW u \in DOMAIN g, u[1] \notin Operators, g[u] # <<>> \/ u \notin ToSet(splitting')
        PROVE  dfgTime'[u] = 0
    <3>1. CASE u = p
      BY <1>1, <1>3, <1>7, <2>1, <3>1, DelayFacts
    <3>2. CASE u # p
      BY <1>3, <1>7, <2>1, <3>2 DEF SplitInv, OnThePath
    <3> QED
      BY <3>1, <3>2
  <2>2. ASSUME NEW u \in DOMAIN g, u[1] \in Operators, u \in ToSet(splitting')
        PROVE  dfgTime'[u] = T2[u]
    <3>1. CASE u = p
      BY <1>7, <1>8, <1>11, <2>2, <3>1
    <3>2. CASE u # p
      <4>1. u \in ToSet(splitting) /\ u \in AllOf(g)
        BY <1>3, <2>2, <3>2 DEF AllOf
      <4>2. dfgTime[u] = T[u]
        BY <2>2, <4>1 DEF SplitInv, OnThePath
      <4> QED
        BY <1>7, <1>8, <3>2, <4>1, <4>2
    <3> QED
      BY <3>1, <3>2
  <2> QED
    BY <1>3, <2>1, <2>2 DEF OnThePath
<1>15. Edges(g, R)'
  <2>1. ASSUME NEW x \in AllOf(g), NEW y \in AllOf(g)
        PROVE  /\ y \in ToSet(newPre'[x]) <=> y \in ToSet(newPre[x]) \/ (x = v /\ y = p)
               /\ x \in ToSet(newNxt'[y]) <=> x \in ToSet(newNxt[y]) \/ (x = v /\ y = p)
    BY <1>6
  <2>2. \A x \in AllOf(g) : ToSet(newPre'[x]) \subseteq AllOf(g)
    BY <1>6, ToSetFacts
  <2>3. \A x, y \in AllOf(g) : y \in ToSet(newPre'[x]) <=> x \in ToSet(newNxt'[y])
    BY <1>9, <2>1
  <2>4. ASSUME NEW x \in AllOf(g), NEW y \in ToSet(newPre'[x])
        PROVE  R[y] < R[x]
    <3>1. R[p] < R[v]
      BY <1>1
    <3> QED
      BY <1>9, <2>1, <2>2, <3>1
  <2>5. ASSUME NEW x \in DOMAIN g, NEW y \in ToSet(newPre'[x])
        PROVE  y \in ToSet(g[x]) \/ (x[1] \in Operators /\ \E k \in 0 .. regs - 1 : y = <<"r", k>>)
    <3>1. x \in AllOf(g) /\ y \in AllOf(g)
      BY <2>2 DEF AllOf
    <3> QED
      BY <1>1, <1>9, <2>1, <3>1
  <2> QED
    BY <1>2, <2>3, <2>4, <2>5 DEF Edges
<1>16. RegistersMade(g, T2)'
  <2>1. ASSUME NEW k \in 0 .. regs - 1
        PROVE  \E q, u \in DOMAIN g : Between(g, T2, k, q, u)'
    <3>1. PICK q \in DOMAIN g, u \in DOMAIN g : Between(g, T, k, q, u)
      BY DEF SplitInv, RegistersMade
    <3>2. k \in 0 .. MaxRegs(g) - 1
      BY <1>4, <1>11
    <3>3. /\ <<"w", k>> \in AllOf(g) /\ <<"w", k>> # v /\ <<"w", k>> # p
          /\ <<"r", k>> \in AllOf(g) /\ <<"r", k>> # v /\ <<"r", k>> # p
      BY <1>1, <1>11, <3>2
    <3>4. u # p
      BY <1>10, <3>1, <3>3 DEF Between
    <3>5. T2[u] = T[u]
      BY <1>8, <3>4 DEF AllOf
    <3> QED
      BY <1>6, <3>1, <3>3, <3>5 DEF Between
  <2>2. ASSUME NEW k \in regs .. MaxRegs(g) - 1
        PROVE  /\ newPre'[<<"w", k>>] = <<>> /\ newNxt'[<<"w", k>>] = <<>>
               /\ newPre'[<<"r", k>>] = <<>> /\ newNxt'[<<"r", k>>] = <<>>
    <3>1. k \in 0 .. MaxRegs(g) - 1
      BY <1>4, <1>11
    <3>2. /\ <<"w", k>> \in AllOf(g) /\ <<"w", k>> # v /\ <<"w", k>> # p
          /\ <<"r", k>> \in AllOf(g) /\ <<"r", k>> # v /\ <<"r", k>> # p
      BY <1>1, <1>11, <3>1
    <3>3. /\ newPre[<<"w", k>>] = <<>> /\ newNxt[<<"w", k>>] = <<>>
          /\ newPre[<<"r", k>>] = <<>> /\ newNxt[<<"r", k>>] = <<>>
      BY DEF SplitInv, RegistersMade
    <3> QED
      BY <1>6, <3>2, <3>3
  <2> QED
    BY <1>2, <2>1, <2>2 DEF RegistersMade
<1>17. Chains(g, T2)'
  <2>1. \A x \in AllOf(g) : x[1] \notin Operators => T2[x] = 0
    BY <1>8 DEF SplitInv, Chains
  <2>2. ASSUME NEW q \in DOMAIN g, q[1] \in Operators
        PROVE  /\ T2[q] <= max_cycle_time
               /\ \/ newNxt'[q] = <<>> /\ T2[q] = DelayOf(q)
                  \/ \E n \in AllOf(g) : newNxt'[q] = <<n>> /\ T2[q] = DelayOf(q) + T2[n]
    <3>1. CASE q = p
      <4>1. newNxt'[p] = <<v>> /\ T2[p] = DelayOf(p) + T2[v]
        BY <1>1, <1>4, <1>6, <1>8, <2>2, <3>1
      <4>2. T2[p] <= max_cycle_time
        <5>1. max_cycle_time \in Nat /\ T2[p] = DelayOf(p) + T[v]
          BY <1>8, <2>2, <3>1, DelayFacts
        <5> QED
          BY <1>1, <5>1
      <4> QED
        BY <1>4, <3>1, <4>1, <4>2
    <3>2. CASE q # p
      <4>1. q \in AllOf(g) /\ T2[q] = T[q] /\ newNxt'[q] = newNxt[q]
        BY <1>6, <1>8, <3>2 DEF AllOf
      <4>2. /\ T[q] <= max_cycle_time
            /\ \/ newNxt[q] = <<>> /\ T[q] = DelayOf(q)
               \/ \E n \in AllOf(g) : newNxt[q] = <<n>> /\ T[q] = DelayOf(q) + T[n]
        BY <2>2 DEF SplitInv, Chains
      <4>3. ASSUME NEW n \in AllOf(g), newNxt[q] = <<n>>
            PROVE  T2[n] = T[n]
        <5>1. n = p => p[1] \notin Operators
          BY <1>10, <4>1, <4>3
        <5> QED
          BY <1>8, <5>1
      <4> QED
        BY <4>1, <4>2, <4>3
    <3> QED
      BY <3>1, <3>2
  <2> QED
    BY <1>8, <2>1, <2>2 DEF Chains
<1>18. SplitSoFar(g)'
  <2> SUFFICES ASSUME NEW u \in DOMAIN g
               PROVE  /\ Reached(g, u)' \/ u \in ToSet(endList') \ ToSet(toSplit') =>
                           u \in ToSet(splitting') \/ dfgPre'[u] = <<>>
                      /\ Reached(g, u)' => newNxt'[u] # <<>>
                      /\ newPre'[u] = <<>> => dfgPre'[u] = g[u]
    BY DEF SplitSoFar
  <2>1. /\ Reached(g, u) \/ u \in ToSet(endList) \ ToSet(toSplit) =>
             u \in ToSet(splitting) \/ dfgPre[u] = <<>>
        /\ Reached(g, u) => newNxt[u] # <<>>
        /\ newPre[u] = <<>> => dfgPre[u] = g[u]
    BY DEF SplitInv, SplitSoFar
  <2>2. newPre'[v] # <<>> /\ newNxt'[p] # <<>>
    <3>1. newPre'[v] \in Seq(AllOf(g)) /\ newNxt'[p] \in Seq(AllOf(g))
      BY <1>4, <1>6
    <3>2. ToSet(newPre'[v]) # {} /\ ToSet(newNxt'[p]) # {}
      BY <1>6
    <3> QED
      BY <3>1, <3>2, ToSetFacts
  <2>3. u \in AllOf(g)
    BY DEF AllOf
  <2>4. Reached(g, u)' \/ u \in ToSet(endList') \ ToSet(toSplit') =>
          u \in ToSet(splitting') \/ dfgPre'[u] = <<>>
    BY <1>1, <1>2, <1>3, <2>1
  <2>5. Reached(g, u)' => newNxt'[u] # <<>>
    BY <1>3, <1>6, <2>1, <2>2, <2>3
  <2>6. newPre'[u] = <<>> => dfgPre'[u] = g[u]
    BY <1>3, <1>6, <2>1, <2>2, <2>3
  <2> QED
    BY <2>4, <2>5, <2>6
<1> QED
  BY <1>3, <1>12, <1>13, <1>14, <1>15, <1>16, <1>17, <1>18 DEF SplitInv

(* There are fewer registers than operators: each has an operator before   *)
(* it, which has no other successor, and p has none yet.                   *)
LEMMA RegisterLeft ==
  ASSUME NEW g \in FrontGraphs, NEW R, NEW T, SplitInv(g, R, T),
         NEW p \in OpsOf(g), newNxt[p] = <<>>
  PROVE  regs \in 0 .. MaxRegs(g) - 1
<1>1. /\ regs \in Nat /\ regs <= MaxRegs(g) /\ MaxRegs(g) \in Nat /\ IsFiniteSet(OpsOf(g))
      /\ newPre \in [AllOf(g) -> Seq(AllOf(g))] /\ newNxt \in [AllOf(g) -> Seq(AllOf(g))]
  <2>1. MaxRegs(g) \in Nat /\ IsFiniteSet(OpsOf(g))
    BY FrontFacts
  <2>2. regs \in 0 .. MaxRegs(g)
    BY DEF SplitInv, SplitTypes
  <2>3. regs \in Nat /\ regs <= MaxRegs(g)
    BY <2>1, <2>2
  <2> QED
    BY <2>1, <2>3 DEF SplitInv, SplitTypes
<1> DEFINE Left == OpsOf(g) \ {p}
           before == [k \in 0 .. regs - 1 |-> newPre[<<"w", k>>][1]]
<1>2. ASSUME NEW k \in 0 .. regs - 1
      PROVE  /\ before[k] \in Left
             /\ newNxt[before[k]] = <<<<"w", k>>>>
  <2>1. PICK q \in DOMAIN g, v \in DOMAIN g : Between(g, T, k, q, v)
    BY DEF SplitInv, RegistersMade
  <2>2. k \in 0 .. MaxRegs(g) - 1
    BY <1>1
  <2>3. <<"w", k>> \in AllOf(g) /\ q \in AllOf(g) /\ q \in OpsOf(g)
    BY <2>1, <2>2, RegisterFacts DEF Between, OpsOf, AllOf
  <2>4. newPre[<<"w", k>>] = <<q>> /\ before[k] = q
    BY <2>1 DEF Between
  <2>5. q \in ToSet(newPre[<<"w", k>>])
    <3>1. <<q>>[1] = q /\ 1 \in DOMAIN <<q>>
      OBVIOUS
    <3> QED
      BY <2>4, <3>1 DEF ToSet
  <2>6. <<"w", k>> \in ToSet(newNxt[q])
    BY <2>3, <2>5 DEF SplitInv, Edges
  <2>7. newNxt[q] = <<>> \/ \E n \in AllOf(g) : newNxt[q] = <<n>>
    BY <2>3 DEF SplitInv, Chains, OpsOf
  <2>8. newNxt[q] # <<>>
    BY <1>1, <2>3, <2>6, ToSetFacts
  <2>9. PICK n \in AllOf(g) : newNxt[q] = <<n>>
    BY <2>7, <2>8
  <2>10. n = <<"w", k>>
    <3>1. ToSet(<<n>>) = {n}
      BY DEF ToSet
    <3> QED
      BY <2>6, <2>9, <3>1
  <2> QED
    BY <2>3, <2>4, <2>8, <2>9, <2>10
<1>3. before \in Injection(0 .. regs - 1, Left)
  <2>1. before \in [0 .. regs - 1 -> Left]
    BY <1>2
  <2>2. ASSUME NEW j \in 0 .. regs - 1, NEW k \in 0 .. regs - 1, before[j] = before[k]
        PROVE  j = k
    <3>1. <<<<"w", j>>>> = <<<<"w", k>>>>
      BY <1>2, <2>2
    <3>2. <<"w", j>> = <<"w", k>>
      BY <3>1
    <3> QED
      BY <3>2
  <2>3. DOMAIN before = 0 .. regs - 1
    BY <2>1
  <2> HIDE DEF before, Left
  <2> QED
    BY <2>1, <2>2, <2>3 DEF Injection, IsInjective
<1>4. IsFiniteSet(Left) /\ Cardinality(Left) = MaxRegs(g) - 1
  BY <1>1, FS_RemoveElement DEF MaxRegs
<1> HIDE DEF before, Left
<1>5. Cardinality(0 .. regs - 1) <= Cardinality(Left)
  BY <1>3, <1>4, FS_Injection
<1>6. Cardinality(0 .. regs - 1) = regs
  <2>1. 0 \in Int /\ regs - 1 \in Int
    BY <1>1
  <2>2. Cardinality(0 .. regs - 1) = IF 0 > regs - 1 THEN 0 ELSE (regs - 1) - 0 + 1
    BY <2>1, FS_Interval
  <2> QED
    BY <1>1, <2>2
<1> QED
  BY <1>1, <1>4, <1>5, <1>6

(* An edge that does not fit gets a register, of a rank in between.        *)
LEMMA EdgeRegistered ==
  ASSUME NEW g \in FrontGraphs, NEW R, NEW T, Ranked(g, R), SplitInv(g, R, T),
         SplitEdge, NEW v, v = Last(splitting), NEW p, p = Head(dfgPre[v]),
         DelayOf(p) + T[v] > max_cycle_time,
         NEW w, w = <<"w", regs>>, NEW r, r = <<"r", regs>>,
         NEW R2, R2 = [R EXCEPT ![w] = R[p] + 1, ![r] = R[p] + 2]
  PROVE  Ranked(g, R2) /\ SplitInv(g, R2, T)'
<1>1. /\ v \in DOMAIN g /\ p \in DOMAIN g /\ p \in ToSet(g[v]) /\ R[p] + 2 < R[v] /\ p # v
      /\ R[p] \in Nat /\ R[v] \in Nat
      /\ v \in ToSet(splitting) /\ p \notin ToSet(splitting)
      /\ Fresh(p) /\ newPre[p] = <<>> /\ newNxt[p] = <<>>
      /\ T[v] \in Nat /\ DelayOf(p) \in Nat
      /\ dfgTime[p] + dfgTime[v] = DelayOf(p) + T[v]
      /\ p[1] \in Operators /\ v[1] \in Operators
  <2>1. splitting # <<>> /\ dfgPre[v] # <<>>
    BY DEF SplitEdge
  <2> QED
    BY <2>1, EdgeTaken
<1>2. /\ newPre' = [newPre EXCEPT ![w] = <<p>>, ![r] = <<w>>, ![v] = Append(@, r)]
      /\ newNxt' = [newNxt EXCEPT ![p] = Append(@, w), ![w] = <<r>>, ![r] = <<v>>]
      /\ regs' = regs + 1
      /\ UNCHANGED <<dfgTime, toSplit, beginList, endList, flowStep>>
      /\ flowStep = "split"
  <2>1. is_cycle_time_boundary(dfgTime[p] + dfgTime[v])
    BY <1>1 DEF is_cycle_time_boundary
  <2>2. flowStep = "split"
    BY DEF SplitEdge, SplitInv, SplitTypes
  <2> QED
    BY <2>1, <2>2 DEF SplitEdge
<1>3. /\ dfgPre' \in [DOMAIN g -> Seq(DOMAIN g)]
      /\ splitting' \in Seq(DOMAIN g) /\ ToSet(splitting') = ToSet(splitting) \union {p}
      /\ \A i, j \in DOMAIN splitting' : i < j => R[splitting'[j]] < R[splitting'[i]]
      /\ \A q : Fresh(q)' => Fresh(q) /\ q # p
      /\ \A u \in DOMAIN g : Reached(g, u)' => Reached(g, u) \/ u = p
      /\ \A u \in DOMAIN g : u # v => dfgPre'[u] = dfgPre[u]
      /\ dfgPre[v] # <<>>
      /\ LeftToSplit(g)'
  BY EdgeGone
<1>4. /\ newPre \in [AllOf(g) -> Seq(AllOf(g))] /\ newNxt \in [AllOf(g) -> Seq(AllOf(g))]
      /\ dfgTime \in [DOMAIN g -> Nat] /\ T \in [AllOf(g) -> Nat]
      /\ v \in AllOf(g) /\ p \in AllOf(g)
  BY <1>1 DEF SplitInv, SplitTypes, Chains, AllOf
<1>5. MaxRegs(g) \in Nat /\ regs \in Nat /\ regs \in 0 .. MaxRegs(g) - 1
      /\ regs + 1 \in 0 .. MaxRegs(g)
  <2>1. MaxRegs(g) \in Nat
    BY FrontFacts
  <2>2. regs \in 0 .. MaxRegs(g) - 1
    BY <1>1, RegisterLeft DEF OpsOf
  <2> QED
    BY <2>1, <2>2
<1>6. /\ \A k \in 0 .. MaxRegs(g) - 1 :
            /\ <<"w", k>> \in AllOf(g) /\ <<"w", k>> \notin DOMAIN g
            /\ <<"r", k>> \in AllOf(g) /\ <<"r", k>> \notin DOMAIN g
      /\ "w" \notin Operators /\ "r" \notin Operators /\ "=" \notin Operators
  BY RegisterFacts
<1>7. /\ w \in AllOf(g) /\ r \in AllOf(g) /\ w \notin DOMAIN g /\ r \notin DOMAIN g /\ w # r
      /\ w[1] = "w" /\ r[1] = "r"
  BY <1>5, <1>6
<1>8. newPre[w] = <<>> /\ newPre[r] = <<>> /\ newNxt[w] = <<>> /\ newNxt[r] = <<>>
  <2>1. regs \in regs .. MaxRegs(g) - 1
    BY <1>5
  <2> QED
    BY <2>1 DEF SplitInv, RegistersMade
<1>9. /\ Append(newPre[v], r) \in Seq(AllOf(g))
      /\ ToSet(Append(newPre[v], r)) = ToSet(newPre[v]) \union {r}
      /\ Append(newNxt[p], w) = <<w>>
  <2>1. newPre[v] \in Seq(AllOf(g))
    BY <1>4
  <2>2. /\ Append(newPre[v], r) \in Seq(AllOf(g))
        /\ ToSet(Append(newPre[v], r)) = ToSet(newPre[v]) \union {r}
    BY <1>7, <2>1, ToSetAppend
  <2>3. Append(<<>>, w) = <<w>>
    OBVIOUS
  <2> QED
    BY <1>1, <2>2, <2>3
<1>10. \A x : ToSet(<<x>>) = {x}
  BY DEF ToSet
<1>11. /\ newPre' \in [AllOf(g) -> Seq(AllOf(g))] /\ newNxt' \in [AllOf(g) -> Seq(AllOf(g))]
       /\ newPre'[w] = <<p>> /\ newPre'[r] = <<w>>
       /\ newNxt'[p] = <<w>> /\ newNxt'[w] = <<r>> /\ newNxt'[r] = <<v>>
       /\ ToSet(newPre'[v]) = ToSet(newPre[v]) \union {r}
       /\ \A x \in AllOf(g) : x \notin {w, r, v} => newPre'[x] = newPre[x]
       /\ \A x \in AllOf(g) : x \notin {w, r, p} => newNxt'[x] = newNxt[x]
  <2>1. <<p>> \in Seq(AllOf(g)) /\ <<w>> \in Seq(AllOf(g)) /\ <<r>> \in Seq(AllOf(g))
        /\ <<v>> \in Seq(AllOf(g))
    BY <1>4, <1>7
  <2>2. v # w /\ v # r /\ p # w /\ p # r /\ w # r
    BY <1>1, <1>7
  <2>3. DOMAIN newPre = AllOf(g) /\ DOMAIN newNxt = AllOf(g)
    BY <1>4
  <2>4. /\ newPre'[w] = <<p>> /\ newPre'[r] = <<w>> /\ newPre'[v] = Append(newPre[v], r)
        /\ \A x \in AllOf(g) : x \notin {w, r, v} => newPre'[x] = newPre[x]
        /\ DOMAIN newPre' = AllOf(g)
        /\ newPre' = [x \in AllOf(g) |-> newPre'[x]]
    BY <1>2, <1>4, <1>7, <2>2, <2>3
  <2>5. /\ newNxt'[w] = <<r>> /\ newNxt'[r] = <<v>> /\ newNxt'[p] = Append(newNxt[p], w)
        /\ \A x \in AllOf(g) : x \notin {w, r, p} => newNxt'[x] = newNxt[x]
        /\ newNxt' = [x \in AllOf(g) |-> newNxt'[x]]
    BY <1>2, <1>4, <1>7, <2>2, <2>3
  <2>6. \A x \in AllOf(g) : newPre'[x] \in Seq(AllOf(g))
    BY <1>4, <1>9, <2>1, <2>4
  <2>7. \A x \in AllOf(g) : newNxt'[x] \in Seq(AllOf(g))
    BY <1>4, <1>9, <2>1, <2>5
  <2>8. newPre' \in [AllOf(g) -> Seq(AllOf(g))] /\ newNxt' \in [AllOf(g) -> Seq(AllOf(g))]
    BY <2>4, <2>5, <2>6, <2>7
  <2> QED
    BY <1>9, <2>4, <2>5, <2>8
<1>12. ASSUME NEW x \in AllOf(g), NEW y \in AllOf(g)
       PROVE  /\ y \in ToSet(newPre'[x]) <=> \/ y \in ToSet(newPre[x])
                                             \/ (x = w /\ y = p) \/ (x = r /\ y = w) \/ (x = v /\ y = r)
              /\ x \in ToSet(newNxt'[y]) <=> \/ x \in ToSet(newNxt[y])
                                             \/ (x = w /\ y = p) \/ (x = r /\ y = w) \/ (x = v /\ y = r)
  <2>1. ToSet(<<>>) = {}
    BY DEF ToSet
  <2>2. v # w /\ v # r /\ p # w /\ p # r /\ w # r
    BY <1>1, <1>7
  <2>3. /\ ToSet(newPre[w]) = {} /\ ToSet(newPre[r]) = {}
        /\ ToSet(newNxt[w]) = {} /\ ToSet(newNxt[r]) = {} /\ ToSet(newNxt[p]) = {}
    BY <1>1, <1>8, <2>1, Zenon
  <2>4. /\ ToSet(newPre'[w]) = {p} /\ ToSet(newPre'[r]) = {w}
        /\ ToSet(newNxt'[w]) = {r} /\ ToSet(newNxt'[r]) = {v} /\ ToSet(newNxt'[p]) = {w}
    BY <1>10, <1>11, Zenon
  <2>5. y \in ToSet(newPre'[x]) <=> \/ y \in ToSet(newPre[x])
                                    \/ (x = w /\ y = p) \/ (x = r /\ y = w) \/ (x = v /\ y = r)
    <3>1. CASE x = w
      BY <2>2, <2>3, <2>4, <3>1, Zenon
    <3>2. CASE x = r
      BY <2>2, <2>3, <2>4, <3>2, Zenon
    <3>3. CASE x = v
      BY <1>11, <2>2, <3>3, Zenon
    <3>4. CASE x \notin {w, r, v}
      <4>1. newPre'[x] = newPre[x]
        BY <1>11, <3>4
      <4> QED
        BY <3>4, <4>1, Zenon
    <3> QED
      BY <3>1, <3>2, <3>3, <3>4
  <2>6. x \in ToSet(newNxt'[y]) <=> \/ x \in ToSet(newNxt[y])
                                    \/ (x = w /\ y = p) \/ (x = r /\ y = w) \/ (x = v /\ y = r)
    <3>1. CASE y = w
      BY <2>2, <2>3, <2>4, <3>1, Zenon
    <3>2. CASE y = r
      BY <2>2, <2>3, <2>4, <3>2, Zenon
    <3>3. CASE y = p
      BY <2>2, <2>3, <2>4, <3>3, Zenon
    <3>4. CASE y \notin {w, r, p}
      <4>1. newNxt'[y] = newNxt[y]
        BY <1>11, <3>4
      <4> QED
        BY <3>4, <4>1, Zenon
    <3> QED
      BY <3>1, <3>2, <3>3, <3>4
  <2> QED
    BY <2>5, <2>6
<1>13. /\ \A x, y \in AllOf(g) : y \in ToSet(newPre[x]) <=> x \in ToSet(newNxt[y])
       /\ \A x \in AllOf(g) : \A y \in ToSet(newPre[x]) : R[y] < R[x]
       /\ \A x \in DOMAIN g : \A y \in ToSet(newPre[x]) :
            y \in ToSet(g[x]) \/ (x[1] \in Operators /\ \E k \in 0 .. regs - 1 : y = <<"r", k>>)
  BY DEF SplitInv, Edges
<1>14. /\ \A x \in AllOf(g) : x \notin {w, r} => R2[x] = R[x]
       /\ R2[w] = R[p] + 1 /\ R2[r] = R[p] + 2
       /\ R2 \in [AllOf(g) -> 1 .. 3 * Cardinality(DOMAIN g)]
  <2>1. PICK N \in Nat : N = 3 * Cardinality(DOMAIN g)
    BY FrontFacts
  <2>2. R \in [AllOf(g) -> 1 .. N]
    BY <2>1 DEF Ranked
  <2>3. PICK i \in 1 .. N : i = R[p]
    BY <1>4, <2>2
  <2>4. PICK j \in 1 .. N : j = R[v]
    BY <1>4, <2>2
  <2>5. i + 2 < j
    BY <1>1, <2>3, <2>4
  <2>6. R[p] + 1 \in 1 .. N /\ R[p] + 2 \in 1 .. N
    BY <2>3, <2>4, <2>5
  <2> QED
    BY <1>7, <2>1, <2>2, <2>6
<1>15. Ranked(g, R2)
  <2>1. \A u \in DOMAIN g : u \in AllOf(g) /\ u \notin {w, r}
    BY <1>7 DEF AllOf
  <2>2. \A u \in DOMAIN g : ToSet(g[u]) \subseteq DOMAIN g
    BY FrontFacts
  <2>3. \A u \in DOMAIN g : \A q \in ToSet(g[u]) : R2[q] + 2 < R2[u]
    BY <1>14, <2>1, <2>2 DEF Ranked
  <2> QED
    BY <1>14, <2>3 DEF Ranked
<1>16. SplitTypes(g)'
  <2>1. /\ splitting' \in Seq(DOMAIN g) /\ toSplit' \in Seq(DOMAIN g)
        /\ regs' \in 0 .. MaxRegs(g) /\ dfgTime' \in [DOMAIN g -> Nat]
        /\ beginList' \in Seq(DOMAIN g) /\ ToSet(beginList') = {x \in DOMAIN g : g[x] = <<>>}
        /\ endList' \in Seq(DOMAIN g) /\ ToSet(endList') = DOMAIN g \ Consumed(g)
        /\ flowStep' = "split"
    BY <1>2, <1>3, <1>5 DEF SplitInv, SplitTypes
  <2> QED
    BY <1>3, <1>11, <2>1 DEF SplitTypes
<1>17. FreshAlone(g, T)'
  <2> SUFFICES ASSUME NEW q \in DOMAIN g, Fresh(q)'
               PROVE  /\ newPre'[q] = <<>> /\ newNxt'[q] = <<>>
                      /\ dfgTime'[q] = T[q] /\ q \notin ToSet(splitting')
    BY DEF FreshAlone
  <2>1. /\ q # p /\ newPre[q] = <<>> /\ newNxt[q] = <<>>
        /\ dfgTime[q] = T[q] /\ q \notin ToSet(splitting)
    BY <1>3 DEF SplitInv, FreshAlone
  <2>2. q \in AllOf(g) /\ q # v /\ q # w /\ q # r
    BY <1>1, <1>7, <2>1 DEF AllOf
  <2> QED
    BY <1>2, <1>3, <1>11, <2>1, <2>2
<1>18. OnThePath(g, R2, T)'
  <2>1. ASSUME NEW u \in DOMAIN g, u[1] \notin Operators, g[u] # <<>> \/ u \notin ToSet(splitting')
        PROVE  dfgTime'[u] = 0
    BY <1>2, <1>3, <2>1 DEF SplitInv, OnThePath
  <2>2. ASSUME NEW u \in DOMAIN g, u[1] \in Operators, u \in ToSet(splitting')
        PROVE  dfgTime'[u] = T[u]
    <3>1. CASE u = p
      BY <1>1, <1>2, <3>1 DEF SplitInv, FreshAlone
    <3>2. CASE u # p
      BY <1>2, <1>3, <2>2, <3>2 DEF SplitInv, OnThePath
    <3> QED
      BY <3>1, <3>2
  <2>3. ASSUME NEW i \in DOMAIN splitting', NEW j \in DOMAIN splitting', i < j
        PROVE  R2[splitting'[j]] < R2[splitting'[i]]
    <3>1. splitting'[i] \in DOMAIN g /\ splitting'[j] \in DOMAIN g
      BY <1>3
    <3>2. \A u \in DOMAIN g : R2[u] = R[u]
      BY <1>7, <1>14 DEF AllOf
    <3> QED
      BY <1>3, <2>3, <3>1, <3>2
  <2> QED
    BY <2>1, <2>2, <2>3 DEF OnThePath
<1>19. Edges(g, R2)'
  <2>1. \A x \in AllOf(g) : ToSet(newPre'[x]) \subseteq AllOf(g)
    BY <1>11, ToSetFacts
  <2>2. \A x, y \in AllOf(g) : y \in ToSet(newPre'[x]) <=> x \in ToSet(newNxt'[y])
    BY <1>12, <1>13
  <2>3. ASSUME NEW x \in AllOf(g), NEW y \in ToSet(newPre'[x])
        PROVE  R2[y] < R2[x]
    <3>1. y \in AllOf(g)
      BY <2>1
    <3>2. R2[p] = R[p] /\ R2[v] = R[v]
      BY <1>1, <1>4, <1>7, <1>14
    <3>3. CASE y \in ToSet(newPre[x])
      <4>1. R[y] < R[x] /\ x \in ToSet(newNxt[y])
        BY <1>13, <3>1, <3>3
      <4>2. x \notin {w, r} /\ y \notin {w, r}
        <5>1. ToSet(<<>>) = {}
          BY DEF ToSet
        <5> QED
          BY <1>8, <3>3, <4>1, <5>1
      <4> QED
        BY <1>14, <3>1, <4>1, <4>2
    <3>4. CASE y \notin ToSet(newPre[x])
      <4>1. (x = w /\ y = p) \/ (x = r /\ y = w) \/ (x = v /\ y = r)
        BY <1>12, <3>1, <3>4
      <4>2. R2[p] < R2[w] /\ R2[w] < R2[r] /\ R2[r] < R2[v]
        BY <1>1, <1>14, <3>2
      <4> QED
        BY <4>1, <4>2
    <3> QED
      BY <3>3, <3>4
  <2>4. ASSUME NEW x \in DOMAIN g, NEW y \in ToSet(newPre'[x])
        PROVE  y \in ToSet(g[x]) \/ (x[1] \in Operators /\ \E k \in 0 .. regs' - 1 : y = <<"r", k>>)
    <3>1. x \in AllOf(g) /\ y \in AllOf(g) /\ x # w /\ x # r
      BY <1>7, <2>1 DEF AllOf
    <3>2. CASE y \in ToSet(newPre[x])
      <4>1. 0 .. regs - 1 \subseteq 0 .. regs' - 1
        BY <1>2, <1>5
      <4> QED
        BY <1>13, <3>2, <4>1
    <3>3. CASE y \notin ToSet(newPre[x])
      <4>1. x = v /\ y = r
        BY <1>12, <3>1, <3>3
      <4>2. regs \in 0 .. regs' - 1
        BY <1>2, <1>5
      <4> QED
        BY <1>1, <4>1, <4>2
    <3> QED
      BY <3>2, <3>3
  <2> QED
    BY <2>2, <2>3, <2>4 DEF Edges
<1>20. RegistersMade(g, T)'
  <2>1. ASSUME NEW k \in 0 .. regs' - 1
        PROVE  \E q, u \in DOMAIN g : Between(g, T, k, q, u)'
    <3>1. CASE k = regs
      BY <1>1, <1>11, <3>1 DEF Between
    <3>2. CASE k # regs
      <4>1. k \in 0 .. regs - 1 /\ k \in 0 .. MaxRegs(g) - 1
        BY <1>2, <1>5, <3>2
      <4>2. PICK q \in DOMAIN g, u \in DOMAIN g : Between(g, T, k, q, u)
        BY <4>1 DEF SplitInv, RegistersMade
      <4>3. /\ <<"w", k>> \in AllOf(g) /\ <<"w", k>> \notin {w, r, v, p}
            /\ <<"r", k>> \in AllOf(g) /\ <<"r", k>> \notin {w, r, v, p}
        BY <1>1, <1>6, <3>2, <4>1
      <4> QED
        BY <1>11, <4>2, <4>3 DEF Between
    <3> QED
      BY <3>1, <3>2
  <2>2. ASSUME NEW k \in regs' .. MaxRegs(g) - 1
        PROVE  /\ newPre'[<<"w", k>>] = <<>> /\ newNxt'[<<"w", k>>] = <<>>
               /\ newPre'[<<"r", k>>] = <<>> /\ newNxt'[<<"r", k>>] = <<>>
    <3>1. k \in regs .. MaxRegs(g) - 1 /\ k \in 0 .. MaxRegs(g) - 1 /\ k # regs
      BY <1>2, <1>5
    <3>2. /\ <<"w", k>> \in AllOf(g) /\ <<"w", k>> \notin {w, r, v, p}
          /\ <<"r", k>> \in AllOf(g) /\ <<"r", k>> \notin {w, r, v, p}
      BY <1>1, <1>6, <3>1
    <3>3. /\ newPre[<<"w", k>>] = <<>> /\ newNxt[<<"w", k>>] = <<>>
          /\ newPre[<<"r", k>>] = <<>> /\ newNxt[<<"r", k>>] = <<>>
      BY <3>1 DEF SplitInv, RegistersMade
    <3> QED
      BY <1>11, <3>2, <3>3
  <2> QED
    BY <2>1, <2>2 DEF RegistersMade
<1>21. Chains(g, T)'
  <2>1. /\ \A x \in AllOf(g) : x[1] \notin Operators => T[x] = 0
        /\ \A q \in DOMAIN g : q[1] \in Operators =>
             /\ T[q] <= max_cycle_time
             /\ \/ newNxt[q] = <<>> /\ T[q] = DelayOf(q)
                \/ \E n \in AllOf(g) : newNxt[q] = <<n>> /\ T[q] = DelayOf(q) + T[n]
    BY DEF SplitInv, Chains
  <2>2. T[p] = DelayOf(p)
    <3>1. \A n : <<n>> # <<>>
      OBVIOUS
    <3> QED
      BY <1>1, <2>1, <3>1
  <2>3. newNxt'[p] = <<w>> /\ T[p] = DelayOf(p) + T[w]
    <3>1. T[w] = 0
      <4>1. w[1] \notin Operators
        BY <1>6, <1>7
      <4> QED
        BY <1>7, <2>1, <4>1, Zenon
    <3> QED
      BY <1>1, <1>11, <2>2, <3>1
  <2>4. \A q \in DOMAIN g : q # p => newNxt'[q] = newNxt[q]
    BY <1>7, <1>11 DEF AllOf
  <2>5. ASSUME NEW q \in DOMAIN g, q[1] \in Operators
        PROVE  /\ T[q] <= max_cycle_time
               /\ \/ newNxt'[q] = <<>> /\ T[q] = DelayOf(q)
                  \/ \E n \in AllOf(g) : newNxt'[q] = <<n>> /\ T[q] = DelayOf(q) + T[n]
    <3>1. CASE q = p
      BY <1>7, <2>1, <2>3, <2>5, <3>1
    <3>2. CASE q # p
      BY <2>1, <2>4, <2>5, <3>2
    <3> QED
      BY <3>1, <3>2
  <2>6. T \in [AllOf(g) -> Nat]
    BY <1>4
  <2> QED
    BY <2>1, <2>5, <2>6 DEF Chains
<1>22. SplitSoFar(g)'
  <2> SUFFICES ASSUME NEW u \in DOMAIN g
               PROVE  /\ Reached(g, u)' \/ u \in ToSet(endList') \ ToSet(toSplit') =>
                           u \in ToSet(splitting') \/ dfgPre'[u] = <<>>
                      /\ Reached(g, u)' => newNxt'[u] # <<>>
                      /\ newPre'[u] = <<>> => dfgPre'[u] = g[u]
    BY DEF SplitSoFar
  <2>1. /\ Reached(g, u) \/ u \in ToSet(endList) \ ToSet(toSplit) =>
             u \in ToSet(splitting) \/ dfgPre[u] = <<>>
        /\ Reached(g, u) => newNxt[u] # <<>>
        /\ newPre[u] = <<>> => dfgPre[u] = g[u]
    BY DEF SplitInv, SplitSoFar
  <2>2. newPre'[v] # <<>> /\ newNxt'[p] # <<>>
    <3>1. newPre'[v] \in Seq(AllOf(g)) /\ ToSet(newPre'[v]) # {}
      BY <1>4, <1>11
    <3> QED
      BY <1>11, <3>1, ToSetFacts
  <2>3. u \in AllOf(g) /\ u # w /\ u # r
    BY <1>7 DEF AllOf
  <2>4. Reached(g, u)' \/ u \in ToSet(endList') \ ToSet(toSplit') =>
          u \in ToSet(splitting') \/ dfgPre'[u] = <<>>
    BY <1>1, <1>2, <1>3, <2>1
  <2>5. Reached(g, u)' => newNxt'[u] # <<>>
    BY <1>3, <1>11, <2>1, <2>2, <2>3
  <2>6. newPre'[u] = <<>> => dfgPre'[u] = g[u]
    BY <1>3, <1>11, <2>1, <2>2, <2>3
  <2> QED
    BY <2>4, <2>5, <2>6
<1> QED
  BY <1>3, <1>15, <1>16, <1>17, <1>18, <1>19, <1>20, <1>21, <1>22 DEF SplitInv

(* The other steps of the split.                                           *)
LEMMA EndTaken ==
  ASSUME NEW g \in FrontGraphs, NEW R, NEW T, Ranked(g, R), SplitInv(g, R, T), SplitEnd
  PROVE  SplitInv(g, R, T)'
<1>1. PICK v : v = Head(toSplit)
  OBVIOUS
<1>2. /\ splitting = <<>> /\ splitting' = <<v>> /\ toSplit' = Tail(toSplit) /\ toSplit # <<>>
      /\ flowStep = "split"
      /\ UNCHANGED <<dfgPre, dfgTime, newPre, newNxt, regs, beginList, endList, flowStep>>
  BY <1>1 DEF SplitEnd
<1>3. toSplit \in Seq(DOMAIN g) /\ dfgPre \in [DOMAIN g -> Seq(DOMAIN g)]
  BY DEF SplitInv, SplitTypes
<1>4. /\ v \in DOMAIN g /\ v = toSplit[1] /\ 1 \in DOMAIN toSplit
      /\ Tail(toSplit) \in Seq(DOMAIN g)
      /\ \A i \in DOMAIN Tail(toSplit) : /\ i + 1 \in DOMAIN toSplit
                                         /\ Tail(toSplit)[i] = toSplit[i + 1] /\ i \in Nat \ {0}
      /\ ToSet(toSplit) = {v} \union ToSet(Tail(toSplit))
  BY <1>1, <1>2, <1>3, HeadAndTail
<1>5. \A i, j \in DOMAIN toSplit : toSplit[i] = toSplit[j] => i = j
  BY DEF SplitInv, LeftToSplit
<1>6. v \notin ToSet(Tail(toSplit))
  <2> SUFFICES ASSUME NEW i \in DOMAIN Tail(toSplit), Tail(toSplit)[i] = v
               PROVE  FALSE
    BY DEF ToSet
  <2>1. i + 1 \in DOMAIN toSplit /\ toSplit[i + 1] = toSplit[1] /\ i \in Nat \ {0}
    BY <1>4
  <2>2. i + 1 = 1
    BY <1>4, <1>5, <2>1
  <2> QED
    BY <2>1, <2>2
<1>7. /\ ToSet(splitting) = {} /\ ToSet(splitting') = {v} /\ splitting' \in Seq(DOMAIN g)
      /\ DOMAIN splitting' = {1}
  <2>1. ToSet(<<>>) = {} /\ ToSet(<<v>>) = {v} /\ DOMAIN <<v>> = {1}
    BY DEF ToSet
  <2>2. <<v>> \in Seq(DOMAIN g)
    BY <1>4
  <2> QED
    BY <1>2, <2>1, <2>2
<1>8. \A u \in DOMAIN g : v \notin ToSet(dfgPre[u])
  <2>1. ToSet(toSplit) \subseteq DOMAIN g \ Consumed(g)
    BY DEF SplitInv, SplitTypes, LeftToSplit
  <2>2. \A u \in DOMAIN g : v \notin ToSet(g[u])
    BY <1>4, <2>1 DEF Consumed
  <2> QED
    BY <2>2 DEF SplitInv, LeftToSplit
<1>9. \A q : Fresh(q)' => Fresh(q) /\ q # v
  BY <1>2, <1>3, <1>4, <1>6, <1>8 DEF Fresh
<1>10. SplitTypes(g)'
  BY <1>2, <1>4, <1>7 DEF SplitInv, SplitTypes
<1>11. LeftToSplit(g)'
  <2>1. ASSUME NEW i \in DOMAIN Tail(toSplit), NEW j \in DOMAIN Tail(toSplit),
               Tail(toSplit)[i] = Tail(toSplit)[j]
        PROVE  i = j
    <3>1. /\ i + 1 \in DOMAIN toSplit /\ j + 1 \in DOMAIN toSplit
          /\ toSplit[i + 1] = toSplit[j + 1] /\ i \in Nat /\ j \in Nat
      BY <1>4, <2>1
    <3>2. i + 1 = j + 1
      BY <1>5, <3>1
    <3> QED
      BY <3>1, <3>2
  <2>2. ToSet(Tail(toSplit)) \subseteq ToSet(endList)
    BY <1>4 DEF SplitInv, LeftToSplit
  <2>3. /\ \A u \in DOMAIN g : ToSet(dfgPre[u]) \subseteq ToSet(g[u])
        /\ \A u, w \in DOMAIN g : \A i \in DOMAIN dfgPre[u] : \A j \in DOMAIN dfgPre[w] :
             dfgPre[u][i] = dfgPre[w][j] /\ dfgPre[u][i][1] \in Operators => u = w /\ i = j
    BY DEF SplitInv, LeftToSplit
  <2>4. dfgPre' = dfgPre /\ endList' = endList /\ toSplit' = Tail(toSplit)
    BY <1>2
  <2> QED
    BY <2>1, <2>2, <2>3, <2>4 DEF LeftToSplit
<1>12. FreshAlone(g, T)'
  BY <1>2, <1>7, <1>9 DEF SplitInv, FreshAlone
<1>13. OnThePath(g, R, T)'
  <2>1. \A i, j \in DOMAIN splitting' : i < j => R[splitting'[j]] < R[splitting'[i]]
    BY <1>7
  <2>2. ASSUME NEW u \in DOMAIN g, u[1] \notin Operators, g[u] # <<>> \/ u \notin ToSet(splitting')
        PROVE  dfgTime'[u] = 0
    BY <1>2, <1>7, <2>2 DEF SplitInv, OnThePath
  <2>3. ASSUME NEW u \in DOMAIN g, u[1] \in Operators, u \in ToSet(splitting')
        PROVE  dfgTime'[u] = T[u]
    <3>1. u = v /\ Fresh(v)
      BY <1>4, <1>7, <2>3 DEF Fresh
    <3> QED
      BY <1>2, <3>1 DEF SplitInv, FreshAlone
  <2> QED
    BY <2>1, <2>2, <2>3 DEF OnThePath
<1>14. Edges(g, R)' /\ RegistersMade(g, T)' /\ Chains(g, T)'
  BY <1>2 DEF SplitInv, Edges, RegistersMade, Between, Chains
<1>15. SplitSoFar(g)'
  BY <1>2, <1>4, <1>7 DEF SplitInv, SplitSoFar, Reached
<1> QED
  BY <1>10, <1>11, <1>12, <1>13, <1>14, <1>15 DEF SplitInv

(* A vertex without edges left is left, without a weight.                  *)
LEMMA VertexDone ==
  ASSUME NEW g \in FrontGraphs, NEW R, NEW T, Ranked(g, R), SplitInv(g, R, T), SplitReturn
  PROVE  SplitInv(g, R, T)'
<1>1. PICK v : v = Last(splitting)
  OBVIOUS
<1>2. /\ splitting # <<>> /\ dfgPre[v] = <<>> /\ splitting' = Front(splitting)
      /\ dfgTime' = [dfgTime EXCEPT ![v] = 0]
      /\ flowStep' = IF splitting' = <<>> /\ toSplit = <<>> THEN "round" ELSE "split"
      /\ UNCHANGED <<dfgPre, toSplit, newPre, newNxt, regs, beginList, endList>>
  BY <1>1 DEF SplitReturn
<1>3. splitting \in Seq(DOMAIN g) /\ dfgTime \in [DOMAIN g -> Nat]
  BY DEF SplitInv, SplitTypes
<1>4. /\ v \in DOMAIN g /\ splitting' \in Seq(DOMAIN g)
      /\ ToSet(splitting) = ToSet(splitting') \union {v}
  BY <1>1, <1>2, <1>3, LastAndFront
<1>5. /\ Len(splitting) \in Nat /\ Len(splitting) # 0
      /\ Len(splitting') = Len(splitting) - 1
      /\ \A i \in 1 .. Len(splitting) - 1 : splitting'[i] = splitting[i]
      /\ DOMAIN splitting = 1 .. Len(splitting)
      /\ DOMAIN splitting' = 1 .. Len(splitting) - 1
      /\ v = splitting[Len(splitting)]
  <2>1. /\ Len(splitting) \in Nat /\ Len(splitting) # 0
        /\ Len(splitting') = Len(splitting) - 1
        /\ \A i \in 1 .. Len(splitting) - 1 : splitting'[i] = splitting[i]
    BY <1>2, <1>3, FrontByIndex
  <2>2. DOMAIN splitting = 1 .. Len(splitting) /\ DOMAIN splitting' = 1 .. Len(splitting')
    BY <1>3, <1>4, ToSetFacts
  <2>3. v = splitting[Len(splitting)]
    BY <1>1 DEF Last
  <2> QED
    BY <2>1, <2>2, <2>3
<1>6. \A i, j \in DOMAIN splitting : i < j => R[splitting[j]] < R[splitting[i]]
  BY DEF SplitInv, OnThePath
<1>7. v \notin ToSet(splitting')
  <2> SUFFICES ASSUME NEW i \in DOMAIN splitting', splitting'[i] = v
               PROVE  FALSE
    BY DEF ToSet
  <2>1. i \in DOMAIN splitting /\ Len(splitting) \in DOMAIN splitting /\ i < Len(splitting)
        /\ splitting[i] = v
    BY <1>5
  <2>2. R[v] < R[v]
    BY <1>5, <1>6, <2>1
  <2>3. R[v] \in Nat
    BY <1>4, FrontFacts DEF Ranked, AllOf
  <2> QED
    BY <2>2, <2>3
<1>8. \A q : Fresh(q)' => Fresh(q)
  BY <1>2 DEF Fresh
<1>9. /\ dfgTime' \in [DOMAIN g -> Nat] /\ dfgTime'[v] = 0
      /\ \A u \in DOMAIN g : u # v => dfgTime'[u] = dfgTime[u]
  BY <1>2, <1>3, <1>4
<1>10. SplitTypes(g)'
  <2>1. flowStep' # "split" => splitting' = <<>> /\ toSplit' = <<>>
    BY <1>2
  <2> QED
    BY <1>2, <1>4, <1>9, <2>1 DEF SplitInv, SplitTypes
<1>11. LeftToSplit(g)'
  BY <1>2 DEF SplitInv, LeftToSplit
<1>12. FreshAlone(g, T)'
  <2> SUFFICES ASSUME NEW q \in DOMAIN g, Fresh(q)'
               PROVE  /\ newPre'[q] = <<>> /\ newNxt'[q] = <<>>
                      /\ dfgTime'[q] = T[q] /\ q \notin ToSet(splitting')
    BY DEF FreshAlone
  <2>1. /\ newPre[q] = <<>> /\ newNxt[q] = <<>>
        /\ dfgTime[q] = T[q] /\ q \notin ToSet(splitting)
    BY <1>8 DEF SplitInv, FreshAlone
  <2> QED
    BY <1>2, <1>4, <1>9, <2>1
<1>13. OnThePath(g, R, T)'
  <2>1. ASSUME NEW i \in DOMAIN splitting', NEW j \in DOMAIN splitting', i < j
        PROVE  R[splitting'[j]] < R[splitting'[i]]
    BY <1>5, <1>6, <2>1
  <2>2. ASSUME NEW u \in DOMAIN g, u[1] \notin Operators, g[u] # <<>> \/ u \notin ToSet(splitting')
        PROVE  dfgTime'[u] = 0
    BY <1>4, <1>9, <2>2 DEF SplitInv, OnThePath
  <2>3. ASSUME NEW u \in DOMAIN g, u[1] \in Operators, u \in ToSet(splitting')
        PROVE  dfgTime'[u] = T[u]
    BY <1>4, <1>7, <1>9, <2>3 DEF SplitInv, OnThePath
  <2> QED
    BY <2>1, <2>2, <2>3 DEF OnThePath
<1>14. Edges(g, R)' /\ RegistersMade(g, T)' /\ Chains(g, T)'
  BY <1>2 DEF SplitInv, Edges, RegistersMade, Between, Chains
<1>15. SplitSoFar(g)'
  BY <1>2, <1>4 DEF SplitInv, SplitSoFar, Reached
<1> QED
  BY <1>10, <1>11, <1>12, <1>13, <1>14, <1>15 DEF SplitInv

(* The rounds leave the graph as it is.                                    *)
LEMMA GraphKept ==
  ASSUME NEW g, NEW R, NEW T, SplitInv(g, R, T),
         UNCHANGED dfgVars, UNCHANGED <<beginList, endList>>,
         flowStep' # "split" => flowStep # "split"
  PROVE  SplitInv(g, R, T)'
<1>1. UNCHANGED <<dfgPre, dfgTime, splitting, toSplit, newPre, newNxt, regs, beginList, endList>>
  BY DEF dfgVars
<1>2. SplitTypes(g)'
  BY <1>1 DEF SplitInv, SplitTypes
<1>3. LeftToSplit(g)' /\ FreshAlone(g, T)' /\ OnThePath(g, R, T)'
  BY <1>1 DEF SplitInv, LeftToSplit, FreshAlone, Fresh, OnThePath
<1>4. Edges(g, R)' /\ RegistersMade(g, T)' /\ Chains(g, T)' /\ SplitSoFar(g)'
  BY <1>1 DEF SplitInv, Edges, RegistersMade, Between, Chains, SplitSoFar, Reached
<1> QED
  BY <1>2, <1>3, <1>4 DEF SplitInv

(* The front end's graph is one of a split that has not begun.             *)
LEMMA SplitBegins ==
  ASSUME ForceInit
  PROVE  \E g \in FrontGraphs : \E R, T : Ranked(g, R) /\ SplitInv(g, R, T)
<1>1. PICK g \in FrontGraphs :
        /\ dfgPre = g /\ dfgTime = [v \in DOMAIN g |-> DelayOf(v)]
        /\ splitting = <<>>
        /\ newPre = [v \in AllOf(g) |-> <<>>] /\ newNxt = [v \in AllOf(g) |-> <<>>] /\ regs = 0
        /\ beginList \in SetToSeqs({v \in DOMAIN g : g[v] = <<>>})
        /\ endList \in SetToSeqs(DOMAIN g \ Consumed(g))
        /\ toSplit = endList /\ flowStep = "split"
  BY DEF ForceInit, AllOf
<1>2. /\ IsFiniteSet(DOMAIN g) /\ g \in [DOMAIN g -> Seq(DOMAIN g)] /\ MaxRegs(g) \in Nat
      /\ \A v \in DOMAIN g : ToSet(g[v]) \subseteq DOMAIN g
  BY FrontFacts
<1>3. PICK R : Ranked(g, R)
  BY FrontFacts
<1>4. PICK T : T = [x \in AllOf(g) |-> DelayOf(x)]
  OBVIOUS
<1>5. ToSet(<<>>) = {} /\ DOMAIN <<>> = {}
  BY DEF ToSet
<1>6. /\ IsFiniteSet({v \in DOMAIN g : g[v] = <<>>}) /\ IsFiniteSet(DOMAIN g \ Consumed(g))
  BY <1>2, FS_Subset
<1>7. /\ beginList \in Seq({v \in DOMAIN g : g[v] = <<>>})
      /\ ToSet(beginList) = {v \in DOMAIN g : g[v] = <<>>}
  BY <1>1, <1>6, SetToSeqsFacts
<1>8. /\ endList \in Seq(DOMAIN g \ Consumed(g)) /\ ToSet(endList) = DOMAIN g \ Consumed(g)
      /\ \A i, j \in DOMAIN endList : endList[i] = endList[j] => i = j
  BY <1>1, <1>6, SetToSeqsFacts
<1>9. beginList \in Seq(DOMAIN g) /\ endList \in Seq(DOMAIN g)
  BY <1>7, <1>8
<1>10. \A v \in DOMAIN g : newPre[v] = <<>> /\ newNxt[v] = <<>>
  BY <1>1 DEF AllOf
<1>11. SplitTypes(g)
  <2>1. dfgTime \in [DOMAIN g -> Nat]
    BY <1>1, DelayFacts
  <2>2. \A v \in AllOf(g) : <<>> \in Seq(AllOf(g))
    OBVIOUS
  <2>3. newPre \in [AllOf(g) -> Seq(AllOf(g))] /\ newNxt \in [AllOf(g) -> Seq(AllOf(g))]
    BY <1>1, <2>2
  <2>4. splitting \in Seq(DOMAIN g) /\ regs \in 0 .. MaxRegs(g)
    BY <1>1, <1>2
  <2> QED
    BY <1>1, <1>2, <1>7, <1>8, <1>9, <2>1, <2>3, <2>4 DEF SplitTypes
<1>12. LeftToSplit(g)
  <2>1. ASSUME NEW u \in DOMAIN g, NEW v \in DOMAIN g, NEW i \in DOMAIN g[u], NEW j \in DOMAIN g[v],
               g[u][i] = g[v][j], g[u][i][1] \in Operators
        PROVE  u = v /\ i = j
    <3>1. g[u][i] \in ToSet(g[u])
      BY DEF ToSet
    <3>2. u = v /\ i = j
      BY <2>1, <3>1, EdgeFacts
    <3> QED
      BY <3>2
  <2> QED
    BY <1>1, <1>8, <2>1 DEF LeftToSplit
<1>13. FreshAlone(g, T)
  <2>1. \A v \in DOMAIN g : dfgTime[v] = T[v]
    BY <1>1, <1>4 DEF AllOf
  <2> QED
    BY <1>1, <1>5, <1>10, <2>1 DEF FreshAlone
<1>14. OnThePath(g, R, T)
  <2>1. \A v \in DOMAIN g : v[1] \notin Operators => dfgTime[v] = 0
    BY <1>1, DelayFacts
  <2> QED
    BY <1>1, <1>5, <2>1 DEF OnThePath
<1>15. Edges(g, R)
  <2>1. \A x \in AllOf(g) : ToSet(newPre[x]) = {} /\ ToSet(newNxt[x]) = {}
    BY <1>1, <1>5
  <2>2. \A x \in DOMAIN g : ToSet(newPre[x]) = {}
    BY <1>5, <1>10
  <2> QED
    BY <2>1, <2>2 DEF Edges
<1>16. RegistersMade(g, T)
  BY <1>1, <1>2, RegisterFacts DEF RegistersMade
<1>17. Chains(g, T)
  <2>1. /\ T \in [AllOf(g) -> Nat]
        /\ \A x \in AllOf(g) : T[x] = DelayOf(x)
    BY <1>4, DelayFacts
  <2>2. \A x \in DOMAIN g : x \in AllOf(g)
    BY DEF AllOf
  <2> QED
    BY <1>10, <2>1, <2>2, DelayFacts DEF Chains
<1>18. SplitSoFar(g)
  BY <1>1 DEF SplitSoFar, Reached
<1> QED
  BY <1>3, <1>11, <1>12, <1>13, <1>14, <1>15, <1>16, <1>17, <1>18 DEF SplitInv
-----------------------------------------------------------------------------
(* The longest ways *)

IsLongest(V, before, base, gain, L) ==
  /\ L \in [V -> Nat]
  /\ \A v \in V :
       /\ base[v] <= L[v]
       /\ \A u \in before[v] : L[u] + gain[v] <= L[v]
       /\ L[v] = base[v] \/ \E u \in before[v] : L[v] = L[u] + gain[v]

(* Where there are ranks, every vertex has a longest way.                  *)
LEMMA LongestFacts ==
  ASSUME NEW V, NEW N \in Nat, NEW rank \in [V -> 1 .. N],
         NEW before \in [V -> SUBSET V], NEW base \in [V -> Nat], NEW gain \in [V -> Nat],
         \A v \in V : IsFiniteSet(before[v]) /\ \A u \in before[v] : rank[u] < rank[v]
  PROVE  IsLongest(V, before, base, gain, Longest(before, base, gain))
<1> DEFINE Ways(t, v) == {base[v]} \union {t[u] + gain[v] : u \in before[v]}
           Phi == [t \in [V -> Nat] |-> [v \in V |-> Max(Ways(t, v))]]
<1>1. ASSUME NEW t, NEW v \in V, \A u \in before[v] : t[u] \in Nat
      PROVE  /\ Ways(t, v) \subseteq Nat
             /\ Max(Ways(t, v)) \in Ways(t, v)
             /\ \A y \in Ways(t, v) : Max(Ways(t, v)) >= y
  <2> DEFINE I == {t[u] + gain[v] : u \in before[v]}
             f == [u \in before[v] |-> t[u] + gain[v]]
  <2>1. f \in Surjection(before[v], I)
    BY DEF Surjection
  <2>2. IsFiniteSet(I)
    <3> HIDE DEF f, I
    <3> QED
      BY <2>1, FS_Surjection
  <2>3. gain[v] \in Nat /\ base[v] \in Nat
    OBVIOUS
  <2>4. Ways(t, v) \subseteq Nat /\ Ways(t, v) # {}
    BY <1>1, <2>3
  <2>5. IsFiniteSet(Ways(t, v))
    <3>1. Ways(t, v) = I \union {base[v]}
      OBVIOUS
    <3> HIDE DEF I, Ways
    <3>2. IsFiniteSet(I \union {base[v]})
      BY <2>2, FS_AddElement
    <3> QED
      BY <3>1, <3>2
  <2> HIDE DEF Ways
  <2>6. PICK x \in Ways(t, v) : \A y \in Ways(t, v) : x >= y
    BY <2>4, <2>5, FiniteHasMax
  <2>7. Ways(t, v) \subseteq Int
    BY <2>4
  <2> QED
    BY <2>4, <2>6, <2>7, MaxFacts
<1>2. Phi \in [[V -> Nat] -> [V -> Nat]]
  <2>1. ASSUME NEW t \in [V -> Nat], NEW v \in V
        PROVE  Max(Ways(t, v)) \in Nat
    <3>1. \A u \in before[v] : t[u] \in Nat
      OBVIOUS
    <3> HIDE DEF Ways
    <3> QED
      BY <1>1, <3>1
  <2> HIDE DEF Ways
  <2> QED
    BY <2>1
<1>3. OnLowerRanks(V, Nat, rank, Phi)
  <2> SUFFICES ASSUME NEW t \in [V -> Nat], NEW u \in [V -> Nat], NEW v \in V,
                      \A w \in V : rank[w] < rank[v] => t[w] = u[w]
               PROVE  Phi[t][v] = Phi[u][v]
    BY DEF OnLowerRanks
  <2>1. \A w \in before[v] : t[w] = u[w]
    OBVIOUS
  <2>2. Ways(t, v) = Ways(u, v)
    BY <2>1
  <2>3. Phi[t][v] = Max(Ways(t, v)) /\ Phi[u][v] = Max(Ways(u, v))
    OBVIOUS
  <2> QED
    BY <2>2, <2>3
<1>4. [v \in V |-> 0] \in [V -> Nat]
  OBVIOUS
<1>5. PICK t \in [V -> Nat] : Phi[t] = t
  <2> HIDE DEF Phi
  <2>1. HasSolution(V, Nat, Phi)
    BY <1>2, <1>3, <1>4, RecursionOverRanks, Zenon
  <2> QED
    BY <2>1 DEF HasSolution
<1> DEFINE L == Longest(before, base, gain)
<1>6. L = [v \in V |-> Max({base[v]} \union {L[u] + gain[v] : u \in before[v]})]
  <2>1. DOMAIN before = V
    OBVIOUS
  <2>2. t = [v \in DOMAIN before |-> Max({base[v]} \union {t[u] + gain[v] : u \in before[v]})]
    BY <1>5, <2>1
  <2>3. L = [v \in DOMAIN before |-> Max({base[v]} \union {L[u] + gain[v] : u \in before[v]})]
    BY <2>2, Zenon DEF Longest
  <2> QED
    BY <2>1, <2>3
<1> HIDE DEF L
<1>7. \A v \in V : L[v] = Max(Ways(L, v))
  BY <1>6
<1>8. \A v \in V : L[v] \in Nat
  <2> DEFINE Bad == {v \in V : L[v] \notin Nat}
  <2> SUFFICES ASSUME Bad # {} PROVE FALSE
    OBVIOUS
  <2>1. PICK v \in Bad : \A u \in Bad : rank[v] <= rank[u]
    <3> DEFINE Ranks == {rank[v] : v \in Bad}
    <3>1. Ranks \subseteq Nat /\ Ranks # {}
      OBVIOUS
    <3>2. PICK m \in Ranks : \A y \in Ranks : m <= y
      <4> HIDE DEF Ranks
      <4> QED
        BY <3>1, LeastElement
    <3> QED
      BY <3>2
  <2>2. \A u \in before[v] : L[u] \in Nat
    <3>1. \A u \in before[v] : u \in V /\ rank[u] < rank[v] /\ rank[u] \in Nat /\ rank[v] \in Nat
      OBVIOUS
    <3>2. \A u \in before[v] : u \notin Bad
      BY <2>1, <3>1
    <3> QED
      BY <3>1, <3>2
  <2>3. Max(Ways(L, v)) \in Nat
    <3> HIDE DEF Ways
    <3> QED
      BY <1>1, <2>2
  <2> QED
    BY <1>7, <2>3
<1>9. L \in [V -> Nat]
  BY <1>6, <1>8
<1>10. ASSUME NEW v \in V
       PROVE  /\ base[v] <= L[v]
              /\ \A u \in before[v] : L[u] + gain[v] <= L[v]
              /\ L[v] = base[v] \/ \E u \in before[v] : L[v] = L[u] + gain[v]
  <2>1. \A u \in before[v] : L[u] \in Nat
    BY <1>8
  <2>2. L[v] \in Ways(L, v) /\ Ways(L, v) \subseteq Nat /\ \A y \in Ways(L, v) : L[v] >= y
    <3> HIDE DEF Ways
    <3> QED
      BY <1>1, <1>7, <2>1
  <2>3. \A y \in Ways(L, v) : y <= L[v]
    BY <1>8, <2>2
  <2> QED
    BY <2>2, <2>3
<1> QED
  BY <1>9, <1>10 DEF IsLongest, L

(* The kinds of edges of the new graph.                                    *)
EdgeKind(g, x, y) ==
  \/ x \in DOMAIN g /\ y \in DOMAIN g /\ y \in ToSet(g[x])
  \/ x \in OpsOf(g) /\ \E k \in 0 .. regs - 1 : y = <<"r", k>>
  \/ y \in OpsOf(g) /\ \E k \in 0 .. regs - 1 : x = <<"w", k>>
  \/ \E k \in 0 .. regs - 1 : x = <<"r", k>> /\ y = <<"w", k>>

(* Every edge of NewDFG is one of the kinds that the split makes.          *)
LEMMA NewEdges ==
  ASSUME NEW g \in FrontGraphs, NEW R, NEW T, Ranked(g, R), SplitInv(g, R, T),
         NEW x \in AllOf(g), NEW y, y \in ToSet(newPre[x])
  PROVE  EdgeKind(g, x, y) /\ y \in AllOf(g)
<1>1. newPre[x] \in Seq(AllOf(g)) /\ regs \in 0 .. MaxRegs(g) /\ MaxRegs(g) \in Nat
  BY FrontFacts DEF SplitInv, SplitTypes
<1>2. y \in AllOf(g)
  BY <1>1, ToSetFacts
<1>3. CASE x \in DOMAIN g
  <2>1. y \in ToSet(g[x]) \/ (x[1] \in Operators /\ \E k \in 0 .. regs - 1 : y = <<"r", k>>)
    BY <1>3 DEF SplitInv, Edges
  <2>2. ToSet(g[x]) \subseteq DOMAIN g
    BY <1>3, FrontFacts
  <2> QED
    BY <1>2, <1>3, <2>1, <2>2 DEF EdgeKind, OpsOf
<1>4. CASE x \notin DOMAIN g
  <2>1. PICK k \in 0 .. MaxRegs(g) - 1 : x \in {<<"w", k>>, <<"r", k>>}
    BY <1>4, RegisterFacts
  <2>2. k \in 0 .. regs - 1
    <3>1. ToSet(<<>>) = {}
      BY DEF ToSet
    <3>2. k \in regs .. MaxRegs(g) - 1 => newPre[x] = <<>>
      BY <2>1 DEF SplitInv, RegistersMade
    <3>3. k \notin regs .. MaxRegs(g) - 1
      BY <3>1, <3>2
    <3> QED
      BY <1>1, <2>1, <3>3
  <2>3. PICK p \in DOMAIN g, v \in DOMAIN g : Between(g, T, k, p, v)
    BY <2>2 DEF SplitInv, RegistersMade
  <2>4. \A z : ToSet(<<z>>) = {z}
    BY DEF ToSet
  <2>5. CASE x = <<"w", k>>
    <3>1. y = p
      BY <2>3, <2>4, <2>5 DEF Between
    <3> QED
      BY <1>2, <2>2, <2>3, <2>5, <3>1 DEF EdgeKind, OpsOf, Between
  <2>6. CASE x = <<"r", k>>
    <3>1. y = <<"w", k>>
      BY <2>3, <2>4, <2>6 DEF Between
    <3> QED
      BY <1>2, <2>2, <2>6, <3>1 DEF EdgeKind
  <2> QED
    BY <2>1, <2>5, <2>6
<1> QED
  BY <1>3, <1>4

(* Both ways through the new graph have ranks.                             *)
LEMMA WaysRanked ==
  ASSUME NEW g \in FrontGraphs, NEW R, NEW T, Ranked(g, R), SplitInv(g, R, T)
  PROVE  /\ DOMAIN newPre = AllOf(g) /\ DOMAIN newNxt = AllOf(g)
         /\ \A v \in AllOf(g) : R[v] \in Nat
         /\ \E N \in Nat : \E down \in [AllOf(g) -> 1 .. N] :
              /\ R \in [AllOf(g) -> 1 .. N]
              /\ \A v \in AllOf(g) : down[v] = N + 1 - R[v]
         /\ \A v \in AllOf(g) :
              /\ ToSet(newPre[v]) \subseteq AllOf(g) /\ IsFiniteSet(ToSet(newPre[v]))
              /\ ToSet(newNxt[v]) \subseteq AllOf(g) /\ IsFiniteSet(ToSet(newNxt[v]))
              /\ \A u \in ToSet(newPre[v]) : R[u] < R[v] /\ v \in ToSet(newNxt[u])
              /\ \A u \in ToSet(newNxt[v]) : R[v] < R[u] /\ v \in ToSet(newPre[u])
<1>1. newPre \in [AllOf(g) -> Seq(AllOf(g))] /\ newNxt \in [AllOf(g) -> Seq(AllOf(g))]
  BY DEF SplitInv, SplitTypes
<1>2. PICK N \in Nat : R \in [AllOf(g) -> 1 .. N]
  <2>1. 3 * Cardinality(DOMAIN g) \in Nat
    BY FrontFacts
  <2> QED
    BY <2>1 DEF Ranked
<1>3. \A v \in AllOf(g) : R[v] \in 1 .. N /\ R[v] \in Nat /\ N + 1 - R[v] \in 1 .. N
  BY <1>2
<1>4. [v \in AllOf(g) |-> N + 1 - R[v]] \in [AllOf(g) -> 1 .. N]
  BY <1>3
<1>5. ASSUME NEW v \in AllOf(g)
      PROVE  /\ ToSet(newPre[v]) \subseteq AllOf(g) /\ IsFiniteSet(ToSet(newPre[v]))
             /\ ToSet(newNxt[v]) \subseteq AllOf(g) /\ IsFiniteSet(ToSet(newNxt[v]))
             /\ \A u \in ToSet(newPre[v]) : R[u] < R[v] /\ v \in ToSet(newNxt[u])
             /\ \A u \in ToSet(newNxt[v]) : R[v] < R[u] /\ v \in ToSet(newPre[u])
  <2>1. newPre[v] \in Seq(AllOf(g)) /\ newNxt[v] \in Seq(AllOf(g))
    BY <1>1
  <2>2. ToSet(newPre[v]) \subseteq AllOf(g) /\ IsFiniteSet(ToSet(newPre[v]))
    BY <2>1, ToSetFacts, ListIsFinite
  <2>3. ToSet(newNxt[v]) \subseteq AllOf(g) /\ IsFiniteSet(ToSet(newNxt[v]))
    BY <2>1, ToSetFacts, ListIsFinite
  <2> QED
    BY <2>2, <2>3 DEF SplitInv, Edges
<1>6. \E down \in [AllOf(g) -> 1 .. N] : \A v \in AllOf(g) : down[v] = N + 1 - R[v]
  BY <1>4
<1> QED
  BY <1>1, <1>2, <1>3, <1>5, <1>6

(* The chains of the property are longest ways along the edges.            *)
LEMMA ChainsAreLongest ==
  ASSUME NEW g \in FrontGraphs, NEW R, NEW T, Ranked(g, R), SplitInv(g, R, T)
  PROVE  /\ IsLongest(AllOf(g), InACycle(newPre), Delays, Delays, ChainTo)
         /\ IsLongest(AllOf(g), InACycle(newNxt), Delays, Delays, ChainFrom)
<1>1. /\ DOMAIN newPre = AllOf(g) /\ DOMAIN newNxt = AllOf(g)
      /\ \A v \in AllOf(g) : R[v] \in Nat
      /\ \A v \in AllOf(g) :
           /\ ToSet(newPre[v]) \subseteq AllOf(g) /\ IsFiniteSet(ToSet(newPre[v]))
           /\ ToSet(newNxt[v]) \subseteq AllOf(g) /\ IsFiniteSet(ToSet(newNxt[v]))
           /\ \A u \in ToSet(newPre[v]) : R[u] < R[v]
           /\ \A u \in ToSet(newNxt[v]) : R[v] < R[u]
  BY WaysRanked
<1>2. PICK N \in Nat : \E down \in [AllOf(g) -> 1 .. N] :
        /\ R \in [AllOf(g) -> 1 .. N]
        /\ \A v \in AllOf(g) : down[v] = N + 1 - R[v]
  BY WaysRanked, Zenon
<1>10. PICK down \in [AllOf(g) -> 1 .. N] :
        /\ R \in [AllOf(g) -> 1 .. N]
        /\ \A v \in AllOf(g) : down[v] = N + 1 - R[v]
  BY <1>2, Zenon
<1>3. Delays \in [AllOf(g) -> Nat]
  BY <1>1, DelayFacts DEF Delays
<1>4. IsFiniteSet({})
  BY FS_EmptySet
<1>5. /\ InACycle(newPre) \in [AllOf(g) -> SUBSET AllOf(g)]
      /\ \A v \in AllOf(g) : IsFiniteSet(InACycle(newPre)[v])
      /\ \A v \in AllOf(g) : \A u \in InACycle(newPre)[v] : R[u] < R[v]
  BY <1>1, <1>4 DEF InACycle
<1>6. /\ InACycle(newNxt) \in [AllOf(g) -> SUBSET AllOf(g)]
      /\ \A v \in AllOf(g) : IsFiniteSet(InACycle(newNxt)[v])
      /\ \A v \in AllOf(g) : \A u \in InACycle(newNxt)[v] : R[v] < R[u] /\ u \in AllOf(g)
  BY <1>1, <1>4 DEF InACycle
<1>7. \A v \in AllOf(g) : \A u \in InACycle(newNxt)[v] : down[u] < down[v]
  <2> SUFFICES ASSUME NEW v \in AllOf(g), NEW u \in InACycle(newNxt)[v]
               PROVE  down[u] < down[v]
    OBVIOUS
  <2>1. u \in AllOf(g) /\ R[v] < R[u] /\ R[u] \in Nat /\ R[v] \in Nat
    BY <1>1, <1>6
  <2> QED
    BY <1>10, <2>1
<1>8. IsLongest(AllOf(g), InACycle(newPre), Delays, Delays, ChainTo)
  BY <1>10, <1>3, <1>5, LongestFacts DEF ChainTo
<1>9. IsLongest(AllOf(g), InACycle(newNxt), Delays, Delays, ChainFrom)
  BY <1>10, <1>3, <1>6, <1>7, LongestFacts DEF ChainFrom
<1> QED
  BY <1>8, <1>9

(* T is the delay of the longest chain from an operator; what lies behind  *)
(* its result in the same cycle takes no time.                             *)
LEMMA ChainFromIsT ==
  ASSUME NEW g \in FrontGraphs, NEW R, NEW T, Ranked(g, R), SplitInv(g, R, T)
  PROVE  \A v \in OpsOf(g) : ChainFrom[v] = T[v]
<1>1. /\ DOMAIN newNxt = AllOf(g) /\ DOMAIN newPre = AllOf(g)
      /\ \A v \in AllOf(g) : R[v] \in Nat
      /\ \A v \in AllOf(g) :
           /\ ToSet(newNxt[v]) \subseteq AllOf(g)
           /\ \A u \in ToSet(newNxt[v]) : R[v] < R[u] /\ v \in ToSet(newPre[u])
  BY WaysRanked
<1>2. PICK N \in Nat : R \in [AllOf(g) -> 1 .. N]
  BY WaysRanked
<1> DEFINE L == ChainFrom
           before == InACycle(newNxt)
           P == {v \in AllOf(g) : v \in OpsOf(g) \/ v \notin DOMAIN g \/ g[v] # <<>>}
<1>3. /\ L \in [AllOf(g) -> Nat]
      /\ \A v \in AllOf(g) :
           /\ Delays[v] <= L[v]
           /\ \A u \in before[v] : L[u] + Delays[v] <= L[v]
           /\ L[v] = Delays[v] \/ \E u \in before[v] : L[v] = L[u] + Delays[v]
  BY ChainsAreLongest DEF IsLongest
<1>4. \A v \in AllOf(g) :
        /\ Delays[v] = DelayOf(v) /\ Delays[v] \in Nat
        /\ before[v] = IF v[1] \in {"w", "r"} THEN {} ELSE ToSet(newNxt[v])
        /\ T[v] \in Nat /\ (v[1] \notin Operators => T[v] = 0 /\ DelayOf(v) = 0)
  BY <1>1, DelayFacts DEF Delays, InACycle, SplitInv, Chains
<1> HIDE DEF L, before
<1>5. \A v \in P : L[v] = T[v]
  <2> SUFFICES ASSUME {v \in P : L[v] # T[v]} # {} PROVE FALSE
    OBVIOUS
  <2> DEFINE Bad == {v \in P : L[v] # T[v]}
  <2>1. PICK v \in Bad : \A u \in Bad : R[u] <= R[v]
    <3> DEFINE Ranks == {N - R[u] : u \in Bad}
    <3>1. \A u \in Bad : R[u] \in 1 .. N /\ N - R[u] \in Nat
      BY <1>2
    <3>2. Ranks \subseteq Nat /\ Ranks # {}
      BY <3>1
    <3>3. PICK m \in Ranks : \A y \in Ranks : m <= y
      <4> HIDE DEF Ranks
      <4> QED
        BY <3>2, LeastElement
    <3>4. PICK v \in Bad : m = N - R[v]
      OBVIOUS
    <3>5. ASSUME NEW u \in Bad
          PROVE  R[u] <= R[v]
      <4>1. N - R[v] <= N - R[u]
        BY <3>3, <3>4
      <4>2. R[u] \in 1 .. N /\ R[v] \in 1 .. N
        BY <3>1
      <4> QED
        BY <4>1, <4>2
    <3> QED
      BY <3>5
  <2>2. v \in AllOf(g) /\ v \in P /\ L[v] # T[v]
    OBVIOUS
  <2>3. \A u \in ToSet(newNxt[v]) : u \in P => L[u] = T[u]
    <3> SUFFICES ASSUME NEW u \in ToSet(newNxt[v]), u \in P, L[u] # T[u]
                 PROVE  FALSE
      OBVIOUS
    <3>1. u \in Bad /\ u \in AllOf(g) /\ R[v] < R[u] /\ R[u] \in Nat /\ R[v] \in Nat
      BY <1>1, <2>2
    <3>2. R[u] <= R[v]
      BY <2>1, <3>1
    <3> QED
      BY <3>1, <3>2
  <2>4. \A u \in ToSet(newNxt[v]) : u \in AllOf(g) /\ v \in ToSet(newPre[u]) /\ EdgeKind(g, u, v)
    BY <1>1, <2>2, NewEdges
  <2> HIDE DEF Bad
  <2>5. CASE v[1] \in {"w", "r"}
    <3>1. before[v] = {} /\ v[1] \notin Operators
      BY <1>4, <2>2, <2>5, RegisterFacts
    <3> QED
      BY <1>3, <1>4, <2>2, <3>1
  <2>6. CASE v \in OpsOf(g)
    <3>1. v[1] \in Operators /\ v \in DOMAIN g /\ v[1] \notin {"w", "r"}
      BY <2>6, RegisterFacts DEF OpsOf
    <3>2. before[v] = ToSet(newNxt[v])
      BY <1>4, <2>2, <3>1
    <3>3. \/ newNxt[v] = <<>> /\ T[v] = DelayOf(v)
          \/ \E n \in AllOf(g) : newNxt[v] = <<n>> /\ T[v] = DelayOf(v) + T[n]
      BY <3>1 DEF SplitInv, Chains
    <3>4. CASE newNxt[v] = <<>> /\ T[v] = DelayOf(v)
      <4>1. before[v] = {}
        BY <3>2, <3>4 DEF ToSet
      <4> QED
        BY <1>3, <1>4, <2>2, <3>4, <4>1
    <3>5. ASSUME NEW n \in AllOf(g), newNxt[v] = <<n>>, T[v] = DelayOf(v) + T[n]
          PROVE  FALSE
      <4>1. before[v] = {n} /\ n \in ToSet(newNxt[v])
        BY <3>2, <3>5 DEF ToSet
      <4>2. EdgeKind(g, n, v)
        BY <2>4, <4>1
      <4>3. n \in P
        <5>1. \A k : v # <<"r", k>> /\ v # <<"w", k>>
          BY <3>1
        <5>2. \A k \in 0 .. regs - 1 : k \in 0 .. MaxRegs(g) - 1
          BY FrontFacts DEF SplitInv, SplitTypes
        <5>3. \A k \in 0 .. regs - 1 : <<"w", k>> \notin DOMAIN g
          BY <5>2, RegisterFacts
        <5>4. CASE n \in DOMAIN g /\ v \in ToSet(g[n])
          <6>1. ToSet(<<>>) = {}
            BY DEF ToSet
          <6> QED
            BY <5>4, <6>1
        <5> QED
          BY <4>2, <5>1, <5>3, <5>4 DEF EdgeKind
      <4>4. L[n] = T[n] /\ T[n] \in Nat
        BY <1>4, <2>3, <4>1, <4>3
      <4>5. L[v] \in Nat /\ L[n] + Delays[v] <= L[v] /\ Delays[v] \in Nat
            /\ (L[v] = Delays[v] \/ L[v] = L[n] + Delays[v])
        BY <1>3, <1>4, <2>2, <4>1
      <4>6. Delays[v] = DelayOf(v)
        BY <1>4, <2>2
      <4>7. L[v] = T[v]
        BY <3>5, <4>4, <4>5, <4>6
      <4> QED
        BY <2>2, <4>7
    <3> QED
      BY <3>3, <3>4, <3>5
  <2>7. CASE v[1] \notin {"w", "r"} /\ v \notin OpsOf(g)
    <3>1. v \in DOMAIN g /\ g[v] # <<>> /\ v[1] \notin Operators
      <4>1. v \in DOMAIN g
        BY <2>2, <2>7, RegisterFacts
      <4> QED
        BY <2>2, <2>7, <4>1 DEF OpsOf
    <3>2. T[v] = 0 /\ Delays[v] = 0 /\ before[v] = ToSet(newNxt[v])
      BY <1>4, <2>2, <2>7, <3>1
    <3>3. ASSUME NEW n \in before[v]
          PROVE  L[n] = 0
      <4>1. n \in ToSet(newNxt[v]) /\ EdgeKind(g, n, v) /\ n \in AllOf(g)
        BY <2>4, <3>2
      <4>2. n \in DOMAIN g /\ v \in ToSet(g[n])
        <5>1. \A k : v # <<"r", k>> /\ v # <<"w", k>>
          BY <2>7
        <5> QED
          BY <2>7, <4>1, <5>1 DEF EdgeKind
      <4>3. v[1] = "="
        BY <2>7, <3>1, <4>2, EdgeFacts
      <4>4. n[1] \notin Operators
        BY <4>2, <4>3, EdgeFacts
      <4>5. n \in P
        <5>1. ToSet(<<>>) = {}
          BY DEF ToSet
        <5> QED
          BY <4>1, <4>2, <5>1
      <4>6. L[n] = T[n]
        BY <2>3, <4>1, <4>5
      <4> QED
        BY <1>4, <4>1, <4>4, <4>6
    <3>4. L[v] = Delays[v] \/ \E u \in before[v] : L[v] = L[u] + Delays[v]
      BY <1>3, <2>2
    <3> QED
      BY <2>2, <3>2, <3>3, <3>4
  <2> QED
    BY <2>5, <2>6, <2>7
<1>6. OpsOf(g) \subseteq P
  BY DEF OpsOf, AllOf
<1> QED
  BY <1>5, <1>6 DEF L

(* With the chain behind it, the chain to an operator fits into a cycle.   *)
LEMMA ChainToFits ==
  ASSUME NEW g \in FrontGraphs, NEW R, NEW T, Ranked(g, R), SplitInv(g, R, T)
  PROVE  \A v \in AllOf(g) : ChainTo[v] <= max_cycle_time
<1>1. /\ DOMAIN newNxt = AllOf(g) /\ DOMAIN newPre = AllOf(g)
      /\ \A v \in AllOf(g) : R[v] \in Nat
      /\ \A v \in AllOf(g) :
           /\ ToSet(newPre[v]) \subseteq AllOf(g)
           /\ \A u \in ToSet(newPre[v]) : R[u] < R[v] /\ v \in ToSet(newNxt[u])
  BY WaysRanked
<1> DEFINE L == ChainTo
           before == InACycle(newPre)
           Good(v) == /\ L[v] <= max_cycle_time
                      /\ v \in OpsOf(g) => L[v] + T[v] <= max_cycle_time + DelayOf(v)
<1>2. /\ L \in [AllOf(g) -> Nat]
      /\ \A v \in AllOf(g) :
           /\ Delays[v] <= L[v]
           /\ \A u \in before[v] : L[u] + Delays[v] <= L[v]
           /\ L[v] = Delays[v] \/ \E u \in before[v] : L[v] = L[u] + Delays[v]
  BY ChainsAreLongest DEF IsLongest
<1>3. \A v \in AllOf(g) :
        /\ Delays[v] = DelayOf(v) /\ DelayOf(v) \in Nat /\ DelayOf(v) <= max_cycle_time
        /\ before[v] = IF v[1] \in {"w", "r"} THEN {} ELSE ToSet(newPre[v])
        /\ T[v] \in Nat /\ (v[1] \notin Operators => DelayOf(v) = 0)
  BY <1>1, DelayFacts DEF Delays, InACycle, SplitInv, Chains
<1>4. max_cycle_time \in Nat
  BY DelayFacts
<1>5. \A v \in OpsOf(g) : /\ T[v] <= max_cycle_time /\ DelayOf(v) <= T[v]
                          /\ \A n \in ToSet(newNxt[v]) : T[v] = DelayOf(v) + T[n]
                          /\ v \in AllOf(g) /\ v[1] \in Operators /\ v[1] \notin {"w", "r"}
  <2> SUFFICES ASSUME NEW v \in OpsOf(g)
               PROVE  /\ T[v] <= max_cycle_time /\ DelayOf(v) <= T[v]
                      /\ \A n \in ToSet(newNxt[v]) : T[v] = DelayOf(v) + T[n]
                      /\ v \in AllOf(g) /\ v[1] \in Operators /\ v[1] \notin {"w", "r"}
    OBVIOUS
  <2>1. /\ T[v] <= max_cycle_time
        /\ \/ newNxt[v] = <<>> /\ T[v] = DelayOf(v)
           \/ \E n \in AllOf(g) : newNxt[v] = <<n>> /\ T[v] = DelayOf(v) + T[n]
    BY DEF OpsOf, SplitInv, Chains
  <2>2. v \in AllOf(g) /\ v[1] \in Operators /\ v[1] \notin {"w", "r"}
    BY RegisterFacts DEF OpsOf, AllOf
  <2>3. ToSet(<<>>) = {} /\ \A n : ToSet(<<n>>) = {n}
    BY DEF ToSet
  <2>4. DelayOf(v) \in Nat /\ \A n \in AllOf(g) : T[n] \in Nat
    BY <1>3, <2>2
  <2>5. CASE newNxt[v] = <<>> /\ T[v] = DelayOf(v)
    BY <2>1, <2>2, <2>3, <2>4, <2>5
  <2>6. ASSUME NEW n \in AllOf(g), newNxt[v] = <<n>>, T[v] = DelayOf(v) + T[n]
        PROVE  DelayOf(v) <= T[v] /\ \A m \in ToSet(newNxt[v]) : T[v] = DelayOf(v) + T[m]
    <3>1. DelayOf(v) <= T[v]
      BY <2>4, <2>6
    <3> QED
      BY <2>3, <2>6, <3>1
  <2> QED
    BY <2>1, <2>2, <2>5, <2>6
<1> HIDE DEF L, before
<1>6. \A v \in AllOf(g) : Good(v)
  <2> DEFINE Bad == {v \in AllOf(g) : ~ Good(v)}
  <2> SUFFICES ASSUME Bad # {} PROVE FALSE
    OBVIOUS
  <2>1. PICK v \in Bad : \A u \in Bad : R[v] <= R[u]
    <3> DEFINE Ranks == {R[u] : u \in Bad}
    <3>1. Ranks \subseteq Nat /\ Ranks # {}
      <4> HIDE DEF Good
      <4> QED
        BY <1>1
    <3>2. PICK m \in Ranks : \A y \in Ranks : m <= y
      <4> HIDE DEF Ranks
      <4> QED
        BY <3>1, LeastElement
    <3> HIDE DEF Bad
    <3> QED
      BY <3>2
  <2>2. v \in AllOf(g) /\ ~ Good(v)
    <3> HIDE DEF Good
    <3> QED
      OBVIOUS
  <2>3. \A u \in ToSet(newPre[v]) :
          u \in AllOf(g) /\ EdgeKind(g, v, u) /\ v \in ToSet(newNxt[u]) /\ Good(u)
    <3> HIDE DEF Good
    <3> SUFFICES ASSUME NEW u \in ToSet(newPre[v])
                 PROVE  u \in AllOf(g) /\ EdgeKind(g, v, u) /\ v \in ToSet(newNxt[u]) /\ Good(u)
      OBVIOUS
    <3>1. /\ u \in AllOf(g) /\ R[u] < R[v] /\ v \in ToSet(newNxt[u])
          /\ R[u] \in Nat /\ R[v] \in Nat
      BY <1>1, <2>2
    <3>2. u \notin Bad
      BY <2>1, <3>1
    <3> QED
      BY <2>2, <3>1, <3>2, NewEdges
  <2> HIDE DEF Bad
  <2>4. CASE v \in OpsOf(g)
    <3>1. /\ T[v] \in Nat /\ T[v] <= max_cycle_time /\ DelayOf(v) <= T[v] /\ DelayOf(v) \in Nat
          /\ before[v] = ToSet(newPre[v]) /\ L[v] \in Nat /\ Delays[v] = DelayOf(v)
      BY <1>2, <1>3, <1>5, <2>2, <2>4
    <3>2. L[v] + T[v] <= max_cycle_time + DelayOf(v)
      <4>1. CASE L[v] = DelayOf(v)
        BY <1>4, <3>1, <4>1
      <4>2. ASSUME NEW u \in ToSet(newPre[v]), L[v] = L[u] + DelayOf(v)
            PROVE  L[v] + T[v] <= max_cycle_time + DelayOf(v)
        <5>1. u \in AllOf(g) /\ EdgeKind(g, v, u) /\ v \in ToSet(newNxt[u]) /\ L[u] \in Nat
          BY <1>2, <2>3
        <5>2. CASE u \in OpsOf(g)
          <6>1. T[u] = DelayOf(u) + T[v] /\ DelayOf(u) \in Nat
            BY <1>3, <1>5, <5>1, <5>2
          <6>2. L[u] + T[u] <= max_cycle_time + DelayOf(u)
            BY <2>3, <5>2
          <6> QED
            BY <1>4, <3>1, <4>2, <5>1, <6>1, <6>2
        <5>3. CASE u \notin OpsOf(g)
          <6>1. before[u] = {}
            <7>1. CASE u[1] \in {"w", "r"}
              BY <1>3, <5>1, <7>1
            <7>2. CASE u[1] \notin {"w", "r"}
              <8>1. \A k : u # <<"r", k>> /\ u # <<"w", k>> /\ v # <<"r", k>> /\ v # <<"w", k>>
                BY <1>5, <2>4, <7>2
              <8>2. u \in DOMAIN g /\ u \in ToSet(g[v]) /\ u[1] \notin Operators
                BY <5>1, <5>3, <8>1 DEF EdgeKind, OpsOf
              <8>3. v \in DOMAIN g /\ v[1] \in Operators
                BY <2>4 DEF OpsOf
              <8>4. g[u] = <<>>
                BY <7>2, <8>2, <8>3, EdgeFacts
              <8>5. ToSet(g[u]) = {}
                BY <8>4 DEF ToSet
              <8>6. \A y \in ToSet(newPre[u]) : EdgeKind(g, u, y)
                BY <5>1, NewEdges
              <8>7. ToSet(newPre[u]) = {}
                BY <5>3, <8>1, <8>5, <8>6 DEF EdgeKind
              <8> QED
                BY <1>3, <5>1, <8>7
            <7> QED
              BY <7>1, <7>2
          <6>2. DelayOf(u) = 0
            BY <5>1, <5>3, DelayFacts, RegisterFacts DEF OpsOf, EdgeKind
          <6>3. L[u] = 0
            BY <1>2, <1>3, <5>1, <6>1, <6>2
          <6> QED
            BY <1>4, <3>1, <4>2, <6>3
        <5> QED
          BY <5>2, <5>3
      <4>3. L[v] = Delays[v] \/ \E u \in before[v] : L[v] = L[u] + Delays[v]
        BY <1>2, <2>2
      <4> QED
        BY <3>1, <4>1, <4>2, <4>3
    <3>3. L[v] <= max_cycle_time
      BY <1>4, <3>1, <3>2
    <3> QED
      BY <2>2, <3>2, <3>3
  <2>5. CASE v \notin OpsOf(g)
    <3>1. DelayOf(v) = 0
      <4>1. CASE v \in DOMAIN g
        BY <2>5, <4>1, DelayFacts DEF OpsOf
      <4>2. CASE v \notin DOMAIN g
        BY <2>2, <4>2, DelayFacts, RegisterFacts
      <4> QED
        BY <4>1, <4>2
    <3>2. before[v] \subseteq ToSet(newPre[v]) /\ Delays[v] = 0
      BY <1>3, <2>2, <3>1
    <3>3. L[v] = Delays[v] \/ \E u \in before[v] : L[v] = L[u] + Delays[v]
      BY <1>2, <2>2
    <3>4. \A u \in before[v] : L[u] \in Nat /\ L[u] <= max_cycle_time
      BY <1>2, <2>3, <3>2
    <3>5. L[v] <= max_cycle_time
      BY <1>4, <3>2, <3>3, <3>4
    <3> QED
      BY <2>2, <2>5, <3>5
  <2> QED
    BY <2>4, <2>5
<1> QED
  BY <1>6 DEF L

SplitSafe == \E g \in FrontGraphs : \E R, T : Ranked(g, R) /\ SplitInv(g, R, T)

(* What holds of the split gives the property.                             *)
LEMMA SplitSafeFits ==
  SplitSafe => ChainsFitCycle
<1> SUFFICES ASSUME NEW g \in FrontGraphs, NEW R, NEW T, Ranked(g, R), SplitInv(g, R, T)
             PROVE  ChainsFitCycle
  BY DEF SplitSafe
<1>1. DOMAIN newPre = AllOf(g)
  BY WaysRanked
<1>2. \A v \in DOMAIN newPre : ChainTo[v] <= max_cycle_time
  BY <1>1, ChainToFits
<1>3. ASSUME NEW k \in 0 .. regs - 1
      PROVE  DelayOf(newPre[<<"w", k>>][1]) + ChainFrom[newNxt[<<"r", k>>][1]] > max_cycle_time
  <2>1. PICK p \in DOMAIN g, v \in DOMAIN g : Between(g, T, k, p, v)
    BY DEF SplitInv, RegistersMade
  <2>2. newPre[<<"w", k>>][1] = p /\ newNxt[<<"r", k>>][1] = v
    BY <2>1 DEF Between
  <2>3. ChainFrom[v] = T[v]
    BY <2>1, ChainFromIsT DEF Between, OpsOf
  <2> QED
    BY <2>1, <2>2, <2>3 DEF Between
<1> QED
  BY <1>2, <1>3 DEF ChainsFitCycle

(* The steps of the split, which take the graph apart.                     *)
LEMMA SplitNext ==
  ASSUME NEW g \in FrontGraphs, NEW R, NEW T, Ranked(g, R), SplitInv(g, R, T),
         SplitEnd \/ SplitEdge \/ SplitReturn
  PROVE  \E R2, T2 : Ranked(g, R2) /\ SplitInv(g, R2, T2)'
<1>1. CASE SplitEnd
  BY <1>1, EndTaken
<1>2. CASE SplitReturn
  BY <1>2, VertexDone
<1>3. CASE SplitEdge
  <2>1. PICK v : v = Last(splitting)
    OBVIOUS
  <2>2. PICK p : p = Head(dfgPre[v])
    OBVIOUS
  <2>3. CASE DelayOf(p) + T[v] > max_cycle_time
    <3>1. PICK w : w = <<"w", regs>>
      OBVIOUS
    <3>2. PICK r : r = <<"r", regs>>
      OBVIOUS
    <3>3. PICK R2 : R2 = [R EXCEPT ![w] = R[p] + 1, ![r] = R[p] + 2]
      OBVIOUS
    <3>4. Ranked(g, R2) /\ SplitInv(g, R2, T)'
      BY <1>3, <2>1, <2>2, <2>3, <3>1, <3>2, <3>3, EdgeRegistered
    <3> QED
      BY <3>4
  <2>4. CASE ~ (DelayOf(p) + T[v] > max_cycle_time)
    <3>1. PICK T2 : T2 = [T EXCEPT ![p] = IF p[1] \in Operators THEN DelayOf(p) + T[v] ELSE @]
      OBVIOUS
    <3>2. SplitInv(g, R, T2)'
      BY <1>3, <2>1, <2>2, <2>4, <3>1, EdgeFits
    <3> QED
      BY <3>2
  <2> QED
    BY <2>3, <2>4
<1> QED
  BY <1>1, <1>2, <1>3

(* Every step.                                                             *)
LEMMA SplitSafeNext ==
  ASSUME SplitSafe, [ForceNext]_forceVars
  PROVE  SplitSafe'
<1>1. PICK g \in FrontGraphs : \E R, T : Ranked(g, R) /\ SplitInv(g, R, T)
  BY DEF SplitSafe
<1>2. PICK R, T : Ranked(g, R) /\ SplitInv(g, R, T)
  BY <1>1
<1>3. SUFFICES \E R2, T2 : Ranked(g, R2) /\ SplitInv(g, R2, T2)'
  BY DEF SplitSafe
<1>4. CASE SplitEnd \/ SplitEdge \/ SplitReturn
  BY <1>2, <1>4, SplitNext
<1>7. ASSUME UNCHANGED dfgVars, UNCHANGED <<beginList, endList>>,
             flowStep' # "split" => flowStep # "split"
      PROVE  Ranked(g, R) /\ SplitInv(g, R, T)'
  BY <1>2, <1>7, GraphKept
<1>8. CASE run_force_direct_alg_ASAP \/ run_NewDFG_ASAP_cycle
  BY <1>7, <1>8 DEF run_force_direct_alg_ASAP, run_NewDFG_ASAP_cycle
<1>9. CASE run_force_direct_alg_ALAP \/ run_NewDFG_ALAP_cycle
  BY <1>7, <1>9 DEF run_force_direct_alg_ALAP, run_NewDFG_ALAP_cycle
<1>10. CASE run_forece_directed_scheduling
  BY <1>7, <1>10 DEF run_forece_directed_scheduling
<1>11. CASE UNCHANGED forceVars
  BY <1>7, <1>11 DEF forceVars
<1> QED
  BY <1>4, <1>8, <1>9, <1>10, <1>11 DEF ForceNext

(* No chain of operators is longer than a cycle, and registers are only    *)
(* where a chain would be (ChainsFitCycle), for all graphs and all delays. *)
THEOREM ChainsFit ==
  ForceSpec => []ChainsFitCycle
<1>1. ForceInit => SplitSafe
  BY SplitBegins DEF SplitSafe
<1>2. SplitSafe /\ [ForceNext]_forceVars => SplitSafe'
  BY SplitSafeNext
<1>3. SplitSafe => ChainsFitCycle
  BY SplitSafeFits
<1> QED
  BY <1>1, <1>2, <1>3, PTL DEF ForceSpec
-----------------------------------------------------------------------------
(* The walks *)

(* A walk goes along the edges out of the vertices U.  It begins in first; *)
(* the edges end in last.                                                  *)
WalkGraph(U, rank, out, first, last) ==
  /\ first \subseteq U /\ last \subseteq U
  /\ \A v \in U :
       /\ rank[v] \in Nat
       /\ ToSet(out[v]) \subseteq U
       /\ v \in last <=> ToSet(out[v]) = {}
       /\ \A n \in ToSet(out[v]) : rank[v] < rank[n]
       /\ v \in first \/ \E u \in U : v \in ToSet(out[u])

(* The values L are those of the longest ways from start.                  *)
LongestFrom(U, out, gain, start, L) ==
  \A v \in U :
    /\ start[v] \in Nat /\ gain[v] \in Nat /\ L[v] \in Nat /\ start[v] <= L[v]
    /\ \A n \in ToSet(out[v]) : L[v] + gain[n] <= L[n]
    /\ L[v] = start[v] \/ \E u \in U : v \in ToSet(out[u]) /\ L[v] = L[u] + gain[v]

(* The keys of the vertices D are of interest, and those they come from.   *)
Closed(D, U, out) ==
  D \subseteq U /\ \A u \in U : \A n \in ToSet(out[u]) : n \in D => u \in D

(* The vertices C need not be walked from again.                           *)
Settled(C, D, U, out, gain, w, key, res) ==
  /\ \A v \in C \intersect D :
       /\ res[v] = key[v]
       /\ \A n \in ToSet(out[v]) \intersect D : key[v] + gain[n] <= key[n]
  /\ \A v \in U \ C :
       v \in ToSet(w) \/ \E u \in U \ C : v \in ToSet(out[u])

(* Keys grow up to those of the longest ways.  A vertex without edges on   *)
(* its stack, although it has some, lies before all that may come next: it *)
(* is not reached before the end that refills the stacks.                  *)
Walking(D, U, rank, out, gain, start, L, w, st, key, res) ==
  /\ w \in Seq(U)
  /\ \A v \in D : key[v] \in Nat /\ start[v] <= key[v] /\ key[v] <= L[v]
  /\ \A v \in ToSet(w) \intersect D : key[v] # 0
  /\ \A v \in U : ToSet(st[v]) = ToSet(out[v]) \/ (w # <<>> /\ rank[v] < rank[Last(w)])
  /\ \E C \in SUBSET U : Settled(C, D, U, out, gain, w, key, res)

(* What a walk does with the vertex src.                                   *)
WalkStep(D, U, out, last, gain, src, left, w, st, key, res, w2, st2, key2, res2) ==
  /\ left \in Seq(U) /\ w2 = Front(w) \o left
  /\ ToSet(left) = ToSet(IF src \in last THEN out[src] ELSE st[src])
  /\ ToSet(st2[src]) = {}
  /\ \A v \in U : v # src => ToSet(st2[v]) = ToSet(IF src \in last THEN out[v] ELSE st[v])
  /\ \A v \in D :
       /\ res2[v] = IF v = src THEN key[src] ELSE res[v]
       /\ key2[v] = IF v \in ToSet(left) /\ key[v] <= key[src] + gain[v]
                    THEN key[src] + gain[v] ELSE key[v]

(* Of ranked vertices one is of the least rank.                            *)
LEMMA LeastRanked ==
  ASSUME NEW S, NEW rank, \A x \in S : rank[x] \in Nat, S # {}
  PROVE  \E x \in S : \A y \in S : rank[x] <= rank[y]
<1> DEFINE Ranks == {rank[x] : x \in S}
<1>1. Ranks \subseteq Nat /\ Ranks # {}
  OBVIOUS
<1>2. PICK m \in Ranks : \A y \in Ranks : m <= y
  <2> HIDE DEF Ranks
  <2> QED
    BY <1>1, LeastElement
<1> QED
  BY <1>2

(* All vertices come from each other.                                      *)
LEMMA AllClosed ==
  ASSUME NEW U, NEW out
  PROVE  Closed(U, U, out)
BY DEF Closed

(* The last of two sequences ends what they make together.                 *)
LEMMA LastOfConcat ==
  ASSUME NEW S, NEW s \in Seq(S), NEW t \in Seq(S), t # <<>>
  PROVE  s \o t # <<>> /\ Last(s \o t) \in ToSet(t)
<1> DEFINE u == s \o t
<1>1. /\ u \in Seq(S) /\ Len(u) = Len(s) + Len(t) /\ Len(s) \in Nat /\ Len(t) \in Nat
      /\ \A i \in 1 .. Len(s) + Len(t) : u[i] = IF i <= Len(s) THEN s[i] ELSE t[i - Len(s)]
  BY ConcatProperties, LenProperties
<1>2. Len(t) # 0
  BY EmptySeq
<1>3. u[Len(u)] = t[Len(t)]
  <2> HIDE DEF u
  <2> QED
    BY <1>1, <1>2
<1>4. t[Len(t)] \in ToSet(t)
  BY <1>1, <1>2, ToSetFacts
<1>5. u # <<>>
  <2>1. Len(u) # 0
    <3> HIDE DEF u
    <3> QED
      BY <1>1, <1>2
  <2> HIDE DEF u
  <2> QED
    BY <1>1, <2>1, EmptySeq
<1> QED
  BY <1>3, <1>4, <1>5 DEF Last

(* The vertex that is taken has all its edges on its stack.                *)
LEMMA WalkTakes ==
  ASSUME NEW D, NEW U, NEW rank, NEW out, NEW first, NEW last, NEW gain, NEW start, NEW L,
         WalkGraph(U, rank, out, first, last),
         NEW w, NEW st, NEW key, NEW res,
         Walking(D, U, rank, out, gain, start, L, w, st, key, res), w # <<>>,
         NEW src, src = Last(w)
  PROVE  /\ src \in U /\ src \in ToSet(w) /\ (src \in D => key[src] # 0)
         /\ ToSet(IF src \in last THEN out[src] ELSE st[src]) = ToSet(out[src])
<1>1. src \in U /\ src \in ToSet(w)
  BY LastAndFront DEF Walking
<1>2. ~ rank[src] < rank[src]
  <2>1. rank[src] \in Nat
    BY <1>1 DEF WalkGraph
  <2> QED
    BY <2>1
<1>3. ToSet(st[src]) = ToSet(out[src])
  BY <1>1, <1>2 DEF Walking
<1> QED
  BY <1>1, <1>3 DEF Walking

(* A step keeps what is known of the walk.                                 *)
LEMMA WalkGoesOn ==
  ASSUME NEW D, NEW U, NEW rank, NEW out, NEW first, NEW last, NEW gain, NEW start, NEW L,
         WalkGraph(U, rank, out, first, last), LongestFrom(U, out, gain, start, L),
         Closed(D, U, out),
         NEW w, NEW st, NEW key, NEW res, NEW w2, NEW st2, NEW key2, NEW res2,
         Walking(D, U, rank, out, gain, start, L, w, st, key, res), w # <<>>,
         NEW src, src = Last(w), NEW left,
         WalkStep(D, U, out, last, gain, src, left, w, st, key, res, w2, st2, key2, res2)
  PROVE  Walking(D, U, rank, out, gain, start, L, w2, st2, key2, res2)
<1>1. w \in Seq(U) /\ src \in U /\ Front(w) \in Seq(U)
      /\ ToSet(w) = ToSet(Front(w)) \union {src}
  BY LastAndFront DEF Walking
<1>2. /\ rank[src] \in Nat /\ (src \in last <=> ToSet(out[src]) = {})
      /\ ToSet(out[src]) \subseteq U
      /\ \A n \in ToSet(out[src]) : n # src /\ rank[src] < rank[n]
  <2>1. /\ rank[src] \in Nat /\ (src \in last <=> ToSet(out[src]) = {})
        /\ ToSet(out[src]) \subseteq U
        /\ \A n \in ToSet(out[src]) : rank[src] < rank[n]
    BY <1>1 DEF WalkGraph
  <2>2. ~ rank[src] < rank[src]
    BY <2>1
  <2> QED
    BY <2>1, <2>2
<1>3. ToSet(left) = ToSet(out[src]) /\ (src \in D => key[src] # 0)
  BY WalkTakes DEF WalkStep
<1>4. ASSUME src \in D
      PROVE  key[src] \in Nat /\ key[src] # 0 /\ key[src] <= L[src] /\ L[src] \in Nat
  BY <1>1, <1>3, <1>4 DEF Walking, LongestFrom
<1>5. \A v \in D :
        /\ v \in U /\ key[v] \in Nat /\ gain[v] \in Nat /\ start[v] \in Nat /\ L[v] \in Nat
        /\ start[v] <= key[v] /\ key[v] <= L[v]
  BY DEF Walking, LongestFrom, Closed
<1>6. /\ \A v \in ToSet(left) : v \in U /\ L[src] + gain[v] <= L[v]
      /\ \A v \in ToSet(left) \intersect D : src \in D
  BY <1>1, <1>2, <1>3 DEF LongestFrom, Closed
<1>7. \A v \in D :
        key2[v] = IF v \in ToSet(left) /\ key[v] <= key[src] + gain[v]
                  THEN key[src] + gain[v] ELSE key[v]
  BY DEF WalkStep
<1>8. ASSUME NEW v \in D
      PROVE  /\ key2[v] \in Nat /\ start[v] <= key2[v] /\ key2[v] <= L[v]
             /\ key[v] <= key2[v]
             /\ v \in ToSet(left) => key[src] + gain[v] <= key2[v]
             /\ v \notin ToSet(left) => key2[v] = key[v]
  <2>1. CASE v \in ToSet(left) /\ key[v] <= key[src] + gain[v]
    <3>1. key2[v] = key[src] + gain[v]
      BY <1>7, <2>1
    <3>2. src \in D /\ L[src] + gain[v] <= L[v]
      BY <1>6, <2>1
    <3>3. key[src] \in Nat /\ key[src] <= L[src] /\ L[src] \in Nat
      BY <1>4, <3>2
    <3>4. /\ key[v] \in Nat /\ gain[v] \in Nat /\ start[v] \in Nat /\ L[v] \in Nat
          /\ start[v] <= key[v]
      BY <1>5
    <3>5. key2[v] \in Nat /\ key2[v] <= L[v]
      BY <3>1, <3>2, <3>3, <3>4
    <3>6. start[v] <= key2[v] /\ key[v] <= key2[v]
      BY <2>1, <3>1, <3>3, <3>4
    <3>7. key[src] + gain[v] <= key2[v]
      BY <3>1, <3>3, <3>4
    <3> QED
      BY <2>1, <3>5, <3>6, <3>7
  <2>2. CASE ~ (v \in ToSet(left) /\ key[v] <= key[src] + gain[v])
    <3>1. key2[v] = key[v]
      BY <1>7, <2>2
    <3>2. v \in ToSet(left) => src \in D
      BY <1>6
    <3> QED
      BY <1>4, <1>5, <2>2, <3>1, <3>2
  <2> QED
    BY <2>1, <2>2
<1>9. w2 \in Seq(U) /\ ToSet(w2) = ToSet(Front(w)) \union ToSet(left) /\ left \in Seq(U)
  BY <1>1, ToSetConcat DEF WalkStep
<1>10. \A v \in ToSet(w2) \intersect D : key2[v] # 0
  <2>1. ASSUME NEW v \in ToSet(left) \intersect D PROVE key2[v] # 0
    <3>1. src \in D /\ v \in D
      BY <1>6
    <3> QED
      BY <1>4, <1>5, <1>8, <3>1
  <2>2. ASSUME NEW v \in ToSet(Front(w)) \intersect D PROVE key2[v] # 0
    <3>1. v \in D /\ key[v] # 0
      BY <1>1 DEF Walking
    <3> QED
      BY <1>5, <1>8, <3>1
  <2> QED
    BY <1>9, <2>1, <2>2
<1>11. ASSUME NEW v \in U
       PROVE  ToSet(st2[v]) = ToSet(out[v]) \/ (w2 # <<>> /\ rank[v] < rank[Last(w2)])
  <2>1. CASE src \in last
    <3>1. v # src => ToSet(st2[v]) = ToSet(out[v])
      BY <2>1 DEF WalkStep
    <3>2. ToSet(st2[src]) = {}
      BY DEF WalkStep
    <3> QED
      BY <1>2, <2>1, <3>1, <3>2
  <2>2. CASE src \notin last
    <3>1. left # <<>>
      BY <1>2, <1>3, <1>9, <2>2, ToSetFacts
    <3>2. w2 # <<>> /\ Last(w2) \in ToSet(left)
      BY <1>1, <1>9, <3>1, LastOfConcat DEF WalkStep
    <3>3. rank[src] < rank[Last(w2)] /\ rank[Last(w2)] \in Nat
      <4>1. Last(w2) \in U
        BY <1>6, <3>2
      <4> QED
        BY <1>2, <1>3, <3>2, <4>1 DEF WalkGraph
    <3>4. CASE v = src
      BY <3>2, <3>3, <3>4
    <3>5. CASE v # src
      <4>1. ToSet(st2[v]) = ToSet(st[v])
        BY <2>2, <3>5 DEF WalkStep
      <4>2. ToSet(st[v]) = ToSet(out[v]) \/ rank[v] < rank[src]
        BY DEF Walking
      <4>3. rank[v] \in Nat
        BY DEF WalkGraph
      <4> QED
        BY <1>2, <3>2, <3>3, <4>1, <4>2, <4>3
    <3> QED
      BY <3>4, <3>5
  <2> QED
    BY <2>1, <2>2
<1>12. PICK C \in SUBSET U : Settled(C, D, U, out, gain, w, key, res)
  BY DEF Walking
<1>13. PICK C2 \in SUBSET U : C2 = (C \union {src}) \ ToSet(left)
  BY <1>1
<1>14. ASSUME NEW v \in C2 \intersect D
       PROVE  /\ res2[v] = key2[v]
              /\ \A n \in ToSet(out[v]) \intersect D : key2[v] + gain[n] <= key2[n]
  <2>1. v \in U /\ v \in D /\ key2[v] = key[v]
    BY <1>8, <1>13
  <2>2. CASE v = src
    <3>1. res2[v] = key[src]
      BY <2>1, <2>2 DEF WalkStep
    <3>2. ASSUME NEW n \in ToSet(out[v]) \intersect D
          PROVE  key2[v] + gain[n] <= key2[n]
      BY <1>3, <1>6, <1>8, <2>1, <2>2, <3>2
    <3> QED
      BY <2>1, <2>2, <3>1, <3>2
  <2>3. CASE v # src
    <3>1. v \in C \intersect D
      BY <1>13, <2>1, <2>3
    <3>2. /\ res2[v] = res[v] /\ res[v] = key[v]
          /\ \A n \in ToSet(out[v]) \intersect D : key[v] + gain[n] <= key[n]
      BY <1>12, <2>1, <2>3, <3>1 DEF Settled, WalkStep
    <3>3. ASSUME NEW n \in ToSet(out[v]) \intersect D
          PROVE  key2[v] + gain[n] <= key2[n]
      <4>1. key[v] + gain[n] <= key[n] /\ key[n] <= key2[n] /\ key2[n] \in Nat
        BY <1>8, <3>2
      <4> QED
        BY <1>5, <2>1, <4>1
    <3> QED
      BY <2>1, <3>2, <3>3
  <2> QED
    BY <2>2, <2>3
<1>15. ASSUME NEW v \in U \ C2
       PROVE  v \in ToSet(w2) \/ \E u \in U \ C2 : v \in ToSet(out[u])
  <2>1. CASE v \in ToSet(left)
    BY <1>9, <2>1
  <2>2. CASE v \notin ToSet(left)
    <3>1. v \in U \ C /\ v # src
      BY <1>13, <2>2
    <3>2. CASE v \in ToSet(w)
      BY <1>1, <1>9, <3>1, <3>2
    <3>3. CASE v \notin ToSet(w)
      <4>1. PICK u \in U \ C : v \in ToSet(out[u])
        BY <1>12, <3>1, <3>3 DEF Settled
      <4>2. u # src
        BY <1>3, <2>2, <4>1
      <4> QED
        BY <1>13, <4>1, <4>2
    <3> QED
      BY <3>2, <3>3
  <2> QED
    BY <2>1, <2>2
<1>16. Settled(C2, D, U, out, gain, w2, key2, res2)
  BY <1>14, <1>15 DEF Settled
<1> QED
  BY <1>8, <1>9, <1>10, <1>11, <1>16 DEF Walking

(* At the beginning nothing is settled.                                    *)
LEMMA WalkBegins ==
  ASSUME NEW D, NEW U, NEW rank, NEW out, NEW first, NEW last, NEW gain, NEW start, NEW L,
         WalkGraph(U, rank, out, first, last), LongestFrom(U, out, gain, start, L),
         Closed(D, U, out),
         NEW w, NEW st, NEW key, NEW res, w \in Seq(U), ToSet(w) = first,
         \A v \in first : start[v] # 0,
         \A v \in D : key[v] = start[v],
         \A v \in U : ToSet(st[v]) = ToSet(out[v])
  PROVE  Walking(D, U, rank, out, gain, start, L, w, st, key, res)
<1>1. Settled({}, D, U, out, gain, w, key, res)
  BY DEF Settled, WalkGraph
<1>2. \A v \in D : v \in U /\ key[v] \in Nat /\ start[v] <= key[v] /\ key[v] <= L[v]
  BY DEF LongestFrom, Closed
<1> QED
  BY <1>1, <1>2 DEF Walking

(* At the end everything is, and the keys are those of the longest ways.   *)
LEMMA WalkEnds ==
  ASSUME NEW D, NEW U, NEW rank, NEW out, NEW first, NEW last, NEW gain, NEW start, NEW L,
         WalkGraph(U, rank, out, first, last), LongestFrom(U, out, gain, start, L),
         Closed(D, U, out),
         NEW st, NEW key, NEW res,
         Walking(D, U, rank, out, gain, start, L, <<>>, st, key, res)
  PROVE  \A v \in D : res[v] = L[v] /\ key[v] = L[v]
<1>1. PICK C \in SUBSET U : Settled(C, D, U, out, gain, <<>>, key, res)
  BY DEF Walking
<1>2. ToSet(<<>>) = {}
  BY DEF ToSet
<1>3. \A v \in U : rank[v] \in Nat
  BY DEF WalkGraph
<1>4. U = C
  <2> SUFFICES ASSUME U \ C # {} PROVE FALSE
    OBVIOUS
  <2>1. PICK v \in U \ C : \A u \in U \ C : rank[v] <= rank[u]
    BY <1>3, LeastRanked
  <2>2. PICK u \in U \ C : v \in ToSet(out[u])
    BY <1>1, <1>2 DEF Settled
  <2>3. rank[u] < rank[v] /\ rank[u] \in Nat /\ rank[v] \in Nat /\ rank[v] <= rank[u]
    BY <2>1, <2>2 DEF WalkGraph
  <2> QED
    BY <2>3
<1>5. \A v \in D :
        /\ v \in U /\ key[v] \in Nat /\ start[v] \in Nat /\ L[v] \in Nat /\ gain[v] \in Nat
        /\ start[v] <= key[v] /\ key[v] <= L[v] /\ res[v] = key[v]
        /\ \A n \in ToSet(out[v]) \intersect D : key[v] + gain[n] <= key[n]
  BY <1>1, <1>4 DEF Walking, LongestFrom, Settled, Closed
<1> DEFINE Bad == {v \in D : key[v] # L[v]}
<1>6. Bad = {}
  <2> SUFFICES ASSUME Bad # {} PROVE FALSE
    OBVIOUS
  <2>1. PICK v \in Bad : \A u \in Bad : rank[v] <= rank[u]
    <3>1. \A u \in Bad : rank[u] \in Nat
      BY <1>3, <1>5
    <3> HIDE DEF Bad
    <3> QED
      BY <3>1, LeastRanked
  <2>2. v \in D /\ v \in U /\ key[v] # L[v]
    BY <1>5
  <2>3. L[v] # start[v]
    BY <1>5, <2>2
  <2>4. PICK u \in U : v \in ToSet(out[u]) /\ L[v] = L[u] + gain[v]
    BY <2>2, <2>3 DEF LongestFrom
  <2>5. /\ u \in D
        /\ rank[u] < rank[v] /\ rank[u] \in Nat /\ rank[v] \in Nat
    BY <2>2, <2>4 DEF WalkGraph, Closed
  <2>6. u \notin Bad
    <3> HIDE DEF Bad
    <3> QED
      BY <2>1, <2>5
  <2>7. key[u] = L[u]
    BY <2>5, <2>6
  <2>8. key[u] + gain[v] <= key[v]
    BY <1>5, <2>2, <2>4, <2>5
  <2> HIDE DEF Bad
  <2> QED
    BY <1>5, <2>2, <2>4, <2>5, <2>7, <2>8
<1> QED
  BY <1>5, <1>6
-----------------------------------------------------------------------------
(* The ranks of the way back. *)
Down(g, R) == [x \in AllOf(g) |-> (3 * Cardinality(DOMAIN g) + 1) - R[x]]

(* The vertices that the walks come to.                                    *)
Used == Consumed(newPre) \union ToSet(endList)

(* After the split every vertex of the graph has all its edges.            *)
LEMMA AllSplit ==
  ASSUME NEW g \in FrontGraphs, NEW R, NEW T, Ranked(g, R), SplitInv(g, R, T),
         flowStep # "split"
  PROVE  \A v \in DOMAIN g : dfgPre[v] = <<>>
<1>1. splitting = <<>> /\ toSplit = <<>> /\ ToSet(endList) = DOMAIN g \ Consumed(g)
  BY DEF SplitInv, SplitTypes
<1>2. ToSet(splitting) = {} /\ ToSet(toSplit) = {} /\ ToSet(<<>>) = {}
  BY <1>1 DEF ToSet
<1>3. PICK N \in Nat : R \in [AllOf(g) -> 1 .. N]
  BY WaysRanked
<1> DEFINE Bad == {v \in DOMAIN g : dfgPre[v] # <<>>}
<1> SUFFICES ASSUME Bad # {} PROVE FALSE
  OBVIOUS
<1>4. PICK v \in Bad : \A u \in Bad : R[u] <= R[v]
  <2> DEFINE Ranks == {N - R[u] : u \in Bad}
  <2>1. \A u \in Bad : R[u] \in 1 .. N /\ N - R[u] \in Nat
    BY <1>3 DEF AllOf
  <2>2. Ranks \subseteq Nat /\ Ranks # {}
    BY <2>1
  <2>3. PICK m \in Ranks : \A y \in Ranks : m <= y
    <3> HIDE DEF Ranks
    <3> QED
      BY <2>2, LeastElement
  <2>4. PICK v \in Bad : m = N - R[v]
    OBVIOUS
  <2>5. ASSUME NEW u \in Bad
        PROVE  R[u] <= R[v]
    <3>1. N - R[v] <= N - R[u]
      BY <2>3, <2>4
    <3>2. R[u] \in 1 .. N /\ R[v] \in 1 .. N
      BY <2>1
    <3> QED
      BY <3>1, <3>2
  <2> QED
    BY <2>5
<1>5. v \in DOMAIN g /\ dfgPre[v] # <<>>
  OBVIOUS
<1>6. v \in Consumed(g)
  <2> SUFFICES ASSUME v \notin Consumed(g) PROVE FALSE
    OBVIOUS
  <2>1. v \in ToSet(endList) \ ToSet(toSplit)
    BY <1>1, <1>2, <1>5
  <2> QED
    BY <1>2, <1>5, <2>1 DEF SplitInv, SplitSoFar
<1>7. PICK u \in DOMAIN g : v \in ToSet(g[u])
  BY <1>6 DEF Consumed
<1>8. R[v] + 2 < R[u] /\ R[v] \in Nat /\ R[u] \in Nat
  BY <1>3, <1>5, <1>7 DEF Ranked, AllOf
<1>9. dfgPre[u] = <<>>
  <2>1. u \notin Bad
    <3> HIDE DEF Bad
    <3> QED
      BY <1>4, <1>8
  <2> QED
    BY <2>1
<1>10. Reached(g, v)
  BY <1>2, <1>7, <1>9 DEF Reached
<1> QED
  BY <1>2, <1>5, <1>10 DEF SplitInv, SplitSoFar

(* What is used has edges or is an end, and has predecessors or is a       *)
(* begin.                                                                  *)
LEMMA UsedFacts ==
  ASSUME NEW g \in FrontGraphs, NEW R, NEW T, Ranked(g, R), SplitInv(g, R, T),
         flowStep # "split"
  PROVE  /\ Used \subseteq AllOf(g) /\ DOMAIN g \subseteq Used
         /\ ToSet(beginList) \subseteq Used /\ ToSet(endList) \subseteq Used
         /\ \A v \in AllOf(g) : ToSet(newNxt[v]) \subseteq Used /\ ToSet(newPre[v]) \subseteq Used
         /\ \A v \in Used : v \in ToSet(endList) <=> ToSet(newNxt[v]) = {}
         /\ \A v \in Used : v \in ToSet(beginList) <=> ToSet(newPre[v]) = {}
<1>1. /\ ToSet(endList) = DOMAIN g \ Consumed(g)
      /\ ToSet(beginList) = {v \in DOMAIN g : g[v] = <<>>}
      /\ regs \in 0 .. MaxRegs(g) /\ MaxRegs(g) \in Nat
      /\ newPre \in [AllOf(g) -> Seq(AllOf(g))] /\ newNxt \in [AllOf(g) -> Seq(AllOf(g))]
      /\ DOMAIN g \subseteq AllOf(g)
  BY FrontFacts DEF SplitInv, SplitTypes, AllOf
<1>2. \A v \in DOMAIN g : dfgPre[v] = <<>>
  BY AllSplit
<1>3. /\ \A x \in AllOf(g) : ToSet(newPre[x]) \subseteq AllOf(g) /\ ToSet(newNxt[x]) \subseteq AllOf(g)
      /\ \A x, y \in AllOf(g) : y \in ToSet(newPre[x]) <=> x \in ToSet(newNxt[y])
  <2>1. \A x \in AllOf(g) : ToSet(newPre[x]) \subseteq AllOf(g) /\ ToSet(newNxt[x]) \subseteq AllOf(g)
    BY WaysRanked
  <2> QED
    BY <2>1 DEF SplitInv, Edges
<1>4. /\ ToSet(<<>>) = {} /\ \A x : ToSet(<<x>>) = {x}
      /\ \A x \in AllOf(g) : /\ newPre[x] = <<>> <=> ToSet(newPre[x]) = {}
                             /\ newNxt[x] = <<>> <=> ToSet(newNxt[x]) = {}
  <2>1. ToSet(<<>>) = {} /\ \A x : ToSet(<<x>>) = {x}
    BY DEF ToSet
  <2> QED
    BY <1>1, <2>1, ToSetFacts
<1>5. \A v \in AllOf(g) : v \in Consumed(newPre) <=> ToSet(newNxt[v]) # {}
  <2> SUFFICES ASSUME NEW v \in AllOf(g)
               PROVE  v \in Consumed(newPre) <=> ToSet(newNxt[v]) # {}
    OBVIOUS
  <2>1. v \in Consumed(newPre) <=> \E x \in AllOf(g) : v \in ToSet(newPre[x])
    BY <1>1 DEF Consumed
  <2> QED
    BY <1>3, <2>1
<1>6. Consumed(newPre) \subseteq AllOf(g)
  BY <1>1, <1>3 DEF Consumed
<1>7. Used \subseteq AllOf(g) /\ ToSet(endList) \subseteq Used
  BY <1>1, <1>6 DEF Used
<1>8. \A v \in AllOf(g) : v \in Used <=> ToSet(newNxt[v]) # {} \/ v \in ToSet(endList)
  BY <1>5 DEF Used
<1>9. DOMAIN g \subseteq Used
  <2> SUFFICES ASSUME NEW v \in DOMAIN g, v \in Consumed(g)
               PROVE  v \in Used
    BY <1>1, <1>7
  <2>1. PICK u \in DOMAIN g : v \in ToSet(g[u])
    BY DEF Consumed
  <2>2. Reached(g, v)
    BY <1>2, <1>4, <2>1 DEF Reached
  <2>3. newNxt[v] # <<>>
    BY <2>2 DEF SplitInv, SplitSoFar
  <2> QED
    BY <1>1, <1>4, <1>8, <2>3
<1>10. \A k \in 0 .. regs - 1 : /\ \E p, v \in DOMAIN g : Between(g, T, k, p, v)
                                /\ k \in 0 .. MaxRegs(g) - 1
  BY <1>1 DEF SplitInv, RegistersMade
<1>11. \A k \in 0 .. regs - 1 : <<"w", k>> \in Used /\ <<"r", k>> \in Used
  <2> SUFFICES ASSUME NEW k \in 0 .. regs - 1
               PROVE  <<"w", k>> \in Used /\ <<"r", k>> \in Used
    OBVIOUS
  <2>1. PICK p \in DOMAIN g, v \in DOMAIN g : Between(g, T, k, p, v)
    BY <1>10
  <2>2. <<"w", k>> \in AllOf(g) /\ <<"r", k>> \in AllOf(g)
    BY <1>10, RegisterFacts
  <2>3. ToSet(newNxt[<<"w", k>>]) # {} /\ ToSet(newNxt[<<"r", k>>]) # {}
    BY <1>4, <2>1 DEF Between
  <2> QED
    BY <1>8, <2>2, <2>3
<1>12. \A v \in AllOf(g) : ToSet(newNxt[v]) \subseteq Used /\ ToSet(newPre[v]) \subseteq Used
  <2> SUFFICES ASSUME NEW v \in AllOf(g)
               PROVE  ToSet(newNxt[v]) \subseteq Used /\ ToSet(newPre[v]) \subseteq Used
    OBVIOUS
  <2>1. ASSUME NEW n \in ToSet(newNxt[v]) PROVE n \in Used
    <3>1. n \in AllOf(g) /\ v \in ToSet(newPre[n])
      BY <1>3
    <3>2. EdgeKind(g, n, v)
      BY <3>1, NewEdges
    <3>3. OpsOf(g) \subseteq DOMAIN g
      BY DEF OpsOf
    <3> QED
      BY <1>9, <1>11, <3>2, <3>3 DEF EdgeKind
  <2>2. ASSUME NEW p \in ToSet(newPre[v]) PROVE p \in Used
    BY <1>3, <1>8
  <2> QED
    BY <2>1, <2>2
<1>13. ASSUME NEW v \in ToSet(endList) PROVE ToSet(newNxt[v]) = {}
  <2> SUFFICES ASSUME NEW n \in ToSet(newNxt[v]) PROVE FALSE
    OBVIOUS
  <2>1. v \in DOMAIN g /\ v \in AllOf(g) /\ \A u \in DOMAIN g : v \notin ToSet(g[u])
    BY <1>1, <1>7 DEF Consumed
  <2>2. n \in AllOf(g) /\ v \in ToSet(newPre[n])
    BY <1>3, <2>1
  <2>3. EdgeKind(g, n, v)
    BY <2>2, NewEdges
  <2>4. \A k \in 0 .. regs - 1 : v # <<"r", k>> /\ v # <<"w", k>>
    <3>1. \A k \in 0 .. regs - 1 : k \in 0 .. MaxRegs(g) - 1
      BY <1>10
    <3>2. \A k \in 0 .. MaxRegs(g) - 1 : <<"w", k>> \notin DOMAIN g /\ <<"r", k>> \notin DOMAIN g
      BY RegisterFacts
    <3> QED
      BY <2>1, <3>1, <3>2
  <2>5. \A k \in 0 .. regs - 1 : n # <<"w", k>>
    <3> SUFFICES ASSUME NEW k \in 0 .. regs - 1, n = <<"w", k>> PROVE FALSE
      OBVIOUS
    <3>1. PICK p \in DOMAIN g, u \in DOMAIN g : Between(g, T, k, p, u)
      BY <1>10
    <3>2. v = p
      BY <1>4, <2>2, <3>1 DEF Between
    <3> QED
      BY <2>1, <3>1, <3>2 DEF Between
  <2> QED
    BY <2>1, <2>3, <2>4, <2>5 DEF EdgeKind
<1>14. ASSUME NEW v \in ToSet(beginList) PROVE ToSet(newPre[v]) = {}
  <2> SUFFICES ASSUME NEW y \in ToSet(newPre[v]) PROVE FALSE
    OBVIOUS
  <2>1. v \in DOMAIN g /\ v \in AllOf(g) /\ ToSet(g[v]) = {}
    BY <1>1, <1>4
  <2>2. PICK k \in 0 .. regs - 1 : y = <<"r", k>>
    BY <2>1 DEF SplitInv, Edges
  <2>3. PICK p \in DOMAIN g, u \in DOMAIN g : Between(g, T, k, p, u)
    BY <1>10
  <2>4. v \in ToSet(newNxt[y])
    BY <1>3, <2>1
  <2>5. u = v
    BY <1>4, <2>2, <2>3, <2>4 DEF Between
  <2> QED
    BY <2>1, <2>3, <2>5 DEF Between
<1>15. ASSUME NEW v \in Used, ToSet(newPre[v]) = {} PROVE v \in ToSet(beginList)
  <2>1. newPre[v] = <<>> /\ v \in AllOf(g)
    BY <1>4, <1>7, <1>15
  <2>2. CASE v \in DOMAIN g
    <3>1. g[v] = <<>>
      BY <1>2, <2>1, <2>2 DEF SplitInv, SplitSoFar
    <3> QED
      BY <1>1, <2>2, <3>1
  <2>3. CASE v \notin DOMAIN g
    <3>1. PICK k \in 0 .. MaxRegs(g) - 1 : v \in {<<"w", k>>, <<"r", k>>}
      BY <2>1, <2>3, RegisterFacts
    <3>2. v \notin ToSet(endList)
      BY <1>1, <2>3
    <3>3. newNxt[v] # <<>>
      BY <1>4, <1>8, <2>1, <3>2
    <3>4. k \notin regs .. MaxRegs(g) - 1
      BY <3>1, <3>3 DEF SplitInv, RegistersMade
    <3>5. k \in 0 .. regs - 1
      BY <1>1, <3>1, <3>4
    <3>6. PICK p \in DOMAIN g, u \in DOMAIN g : Between(g, T, k, p, u)
      BY <1>10, <3>5
    <3>7. \A x : <<x>> # <<>>
      OBVIOUS
    <3> QED
      BY <2>1, <3>1, <3>6, <3>7 DEF Between
  <2> QED
    BY <2>2, <2>3
<1>16. \A v \in Used : v \in ToSet(endList) <=> ToSet(newNxt[v]) = {}
  BY <1>7, <1>8, <1>13
<1>17. \A v \in Used : v \in ToSet(beginList) <=> ToSet(newPre[v]) = {}
  BY <1>14, <1>15
<1>18. ToSet(beginList) \subseteq Used
  BY <1>1, <1>9
<1> QED
  BY <1>7, <1>9, <1>12, <1>16, <1>17, <1>18

(* Both walks go along ranks.                                              *)
LEMMA BothWalks ==
  ASSUME NEW g \in FrontGraphs, NEW R, NEW T, Ranked(g, R), SplitInv(g, R, T),
         flowStep # "split"
  PROVE  /\ WalkGraph(Used, R, newNxt, ToSet(beginList), ToSet(endList))
         /\ WalkGraph(Used, Down(g, R), newPre, ToSet(endList), ToSet(beginList))
<1>1. /\ Used \subseteq AllOf(g) /\ ToSet(beginList) \subseteq Used /\ ToSet(endList) \subseteq Used
      /\ \A v \in AllOf(g) : ToSet(newNxt[v]) \subseteq Used /\ ToSet(newPre[v]) \subseteq Used
      /\ \A v \in Used : v \in ToSet(endList) <=> ToSet(newNxt[v]) = {}
      /\ \A v \in Used : v \in ToSet(beginList) <=> ToSet(newPre[v]) = {}
  BY UsedFacts
<1>2. \A v \in AllOf(g) :
        /\ R[v] \in Nat
        /\ \A u \in ToSet(newPre[v]) : R[u] < R[v] /\ v \in ToSet(newNxt[u])
        /\ \A u \in ToSet(newNxt[v]) : R[v] < R[u] /\ v \in ToSet(newPre[u])
  BY WaysRanked
<1>3. ASSUME NEW v \in AllOf(g)
      PROVE  Down(g, R)[v] \in Nat /\ \A u \in AllOf(g) : R[u] < R[v] => Down(g, R)[v] < Down(g, R)[u]
  <2>1. PICK N \in Nat : N = 3 * Cardinality(DOMAIN g)
    BY FrontFacts
  <2>2. \A u \in AllOf(g) : R[u] \in 1 .. N /\ Down(g, R)[u] = (N + 1) - R[u]
    BY <2>1 DEF Down, Ranked
  <2> QED
    BY <2>2
<1>4. WalkGraph(Used, R, newNxt, ToSet(beginList), ToSet(endList))
  BY <1>1, <1>2 DEF WalkGraph
<1>5. WalkGraph(Used, Down(g, R), newPre, ToSet(endList), ToSet(beginList))
  <2> SUFFICES ASSUME NEW v \in Used
               PROVE  /\ Down(g, R)[v] \in Nat
                      /\ ToSet(newPre[v]) \subseteq Used
                      /\ v \in ToSet(beginList) <=> ToSet(newPre[v]) = {}
                      /\ \A n \in ToSet(newPre[v]) : Down(g, R)[v] < Down(g, R)[n]
                      /\ v \in ToSet(endList) \/ \E u \in Used : v \in ToSet(newPre[u])
    BY <1>1 DEF WalkGraph
  <2>1. \A n \in ToSet(newPre[v]) : Down(g, R)[v] < Down(g, R)[n]
    BY <1>1, <1>2, <1>3
  <2>2. v \in ToSet(endList) \/ \E u \in Used : v \in ToSet(newPre[u])
    BY <1>1, <1>2
  <2>3. Down(g, R)[v] \in Nat
    BY <1>1, <1>3
  <2> QED
    BY <1>1, <2>1, <2>2, <2>3
<1> QED
  BY <1>4, <1>5
-----------------------------------------------------------------------------
(* A way through a register goes from its one side to the other.           *)
LEMMA RegisterSides ==
  ASSUME NEW g \in FrontGraphs, NEW R, NEW T, Ranked(g, R), SplitInv(g, R, T),
         NEW v \in AllOf(g), NEW n \in ToSet(newNxt[v])
  PROVE  n[1] = "r" <=> v[1] = "w"
<1>1. n \in AllOf(g) /\ v \in ToSet(newPre[n])
  BY WaysRanked
<1>2. EdgeKind(g, n, v)
  BY <1>1, NewEdges
<1>3. \A k : <<"w", k>>[1] = "w" /\ <<"r", k>>[1] = "r"
  OBVIOUS
<1>4. \A x \in OpsOf(g) : x[1] # "w" /\ x[1] # "r"
  BY RegisterFacts DEF OpsOf
<1>5. CASE n \in DOMAIN g /\ v \in DOMAIN g /\ v \in ToSet(g[n])
  BY <1>5, EdgeFacts
<1>6. CASE n \in OpsOf(g) /\ \E k \in 0 .. regs - 1 : v = <<"r", k>>
  BY <1>3, <1>4, <1>6
<1>7. CASE v \in OpsOf(g) /\ \E k \in 0 .. regs - 1 : n = <<"w", k>>
  BY <1>3, <1>4, <1>7
<1>8. CASE \E k \in 0 .. regs - 1 : n = <<"r", k>> /\ v = <<"w", k>>
  BY <1>3, <1>8
<1> QED
  BY <1>2, <1>5, <1>6, <1>7, <1>8 DEF EdgeKind

(* A way gains a cycle in the registers' sides of the kind.                *)
LEMMA CrossingFacts ==
  ASSUME NEW g \in FrontGraphs, NEW R, NEW T, Ranked(g, R), SplitInv(g, R, T)
  PROVE  \A kind : /\ Crossings(kind) \in [AllOf(g) -> Nat]
                   /\ \A v \in AllOf(g) : Crossings(kind)[v] = IF v[1] = kind THEN 1 ELSE 0
<1>1. DOMAIN newPre = AllOf(g)
  BY WaysRanked
<1> QED
  BY <1>1 DEF Crossings

(* The earliest cycles add up along the edges.                             *)
LEMMA EarliestFacts ==
  ASSUME NEW g \in FrontGraphs, NEW R, NEW T, Ranked(g, R), SplitInv(g, R, T),
         NEW start \in [AllOf(g) -> Nat]
  PROVE  /\ EarliestCycle(start) \in [AllOf(g) -> Nat]
         /\ \A v \in AllOf(g) :
              /\ start[v] <= EarliestCycle(start)[v]
              /\ \A u \in ToSet(newPre[v]) :
                   EarliestCycle(start)[u] + Crossings("r")[v] <= EarliestCycle(start)[v]
              /\ \/ EarliestCycle(start)[v] = start[v]
                 \/ \E u \in ToSet(newPre[v]) :
                      EarliestCycle(start)[v] = EarliestCycle(start)[u] + Crossings("r")[v]
<1>1. /\ DOMAIN newPre = AllOf(g)
      /\ \A v \in AllOf(g) :
           /\ ToSet(newPre[v]) \subseteq AllOf(g) /\ IsFiniteSet(ToSet(newPre[v]))
           /\ \A u \in ToSet(newPre[v]) : R[u] < R[v] /\ v \in ToSet(newNxt[u])
           /\ \A u \in ToSet(newNxt[v]) : v \in ToSet(newPre[u])
  BY WaysRanked
<1>2. PICK N \in Nat : R \in [AllOf(g) -> 1 .. N]
  BY WaysRanked
<1>3. Crossings("r") \in [AllOf(g) -> Nat]
  BY CrossingFacts
<1>4. PICK before \in [AllOf(g) -> SUBSET AllOf(g)] :
        before = [v \in DOMAIN newPre |-> ToSet(newPre[v])]
  <2>1. [v \in DOMAIN newPre |-> ToSet(newPre[v])] \in [AllOf(g) -> SUBSET AllOf(g)]
    BY <1>1
  <2> QED
    BY <2>1
<1>5. \A v \in AllOf(g) : before[v] = ToSet(newPre[v])
  BY <1>1, <1>4
<1>6. \A v \in AllOf(g) : IsFiniteSet(before[v]) /\ \A u \in before[v] : R[u] < R[v]
  BY <1>1, <1>5
<1>7. IsLongest(AllOf(g), before, start, Crossings("r"), EarliestCycle(start))
  BY <1>2, <1>3, <1>4, <1>6, LongestFacts DEF EarliestCycle
<1>8. PICK L : L = EarliestCycle(start)
  OBVIOUS
<1>9. /\ L \in [AllOf(g) -> Nat]
       /\ \A v \in AllOf(g) :
            /\ start[v] <= L[v]
            /\ \A u \in ToSet(newPre[v]) : L[u] + Crossings("r")[v] <= L[v]
            /\ L[v] = start[v] \/ \E u \in ToSet(newPre[v]) : L[v] = L[u] + Crossings("r")[v]
  BY <1>5, <1>7, <1>8 DEF IsLongest
<1> QED
  BY <1>8, <1>9

(* They are the longest ways that the walk goes.                           *)
LEMMA EarliestAreLongest ==
  ASSUME NEW g \in FrontGraphs, NEW R, NEW T, Ranked(g, R), SplitInv(g, R, T),
         flowStep # "split", NEW start \in [AllOf(g) -> Nat]
  PROVE  LongestFrom(Used, newNxt, Crossings("r"), start, EarliestCycle(start))
<1>1. \A v \in AllOf(g) :
        /\ \A u \in ToSet(newPre[v]) : R[u] < R[v] /\ v \in ToSet(newNxt[u])
        /\ \A u \in ToSet(newNxt[v]) : v \in ToSet(newPre[u])
  BY WaysRanked
<1>2. Crossings("r") \in [AllOf(g) -> Nat]
  BY CrossingFacts
<1>3. PICK L : L = EarliestCycle(start)
  OBVIOUS
<1>4. /\ Used \subseteq AllOf(g)
      /\ \A v \in AllOf(g) : ToSet(newNxt[v]) \subseteq Used /\ ToSet(newPre[v]) \subseteq Used
  BY UsedFacts
<1>5. /\ L \in [AllOf(g) -> Nat]
       /\ \A v \in AllOf(g) :
            /\ start[v] <= L[v]
            /\ \A u \in ToSet(newPre[v]) : L[u] + Crossings("r")[v] <= L[v]
            /\ L[v] = start[v] \/ \E u \in ToSet(newPre[v]) : L[v] = L[u] + Crossings("r")[v]
  BY <1>3, EarliestFacts
<1>6. ASSUME NEW v \in Used
       PROVE  /\ start[v] \in Nat /\ Crossings("r")[v] \in Nat /\ L[v] \in Nat /\ start[v] <= L[v]
              /\ \A n \in ToSet(newNxt[v]) : L[v] + Crossings("r")[n] <= L[n]
              /\ L[v] = start[v]
                 \/ \E u \in Used : v \in ToSet(newNxt[u]) /\ L[v] = L[u] + Crossings("r")[v]
  <2>1. v \in AllOf(g) /\ start[v] \in Nat /\ Crossings("r")[v] \in Nat /\ L[v] \in Nat /\ start[v] <= L[v]
    BY <1>2, <1>4, <1>5
  <2>2. \A n \in ToSet(newNxt[v]) : L[v] + Crossings("r")[n] <= L[n]
    BY <1>1, <1>4, <1>5, <2>1
  <2>3. L[v] = start[v]
        \/ \E u \in Used : v \in ToSet(newNxt[u]) /\ L[v] = L[u] + Crossings("r")[v]
    BY <1>1, <1>4, <1>5, <2>1
  <2> QED
    BY <2>1, <2>2, <2>3
<1> QED
  BY <1>3, <1>6 DEF LongestFrom

(* Counted from the end: an end is in the last cycle, any other vertex so  *)
(* many cycles before it as must follow.                                   *)
LastCycle(g) == [v \in AllOf(g) |-> IF v \in ToSet(endList) THEN 1 ELSE 0]

CyclesLeft(g) == [v \in AllOf(g) |-> CyclesAfter[v] + 1]

(* The cycles that must follow add up along the edges.                     *)
LEMMA CyclesAfterFacts ==
  ASSUME NEW g \in FrontGraphs, NEW R, NEW T, Ranked(g, R), SplitInv(g, R, T)
  PROVE  /\ CyclesAfter \in [AllOf(g) -> Nat]
         /\ \A v \in AllOf(g) :
              /\ \A u \in ToSet(newNxt[v]) : CyclesAfter[u] + Crossings("w")[v] <= CyclesAfter[v]
              /\ \/ CyclesAfter[v] = 0
                 \/ \E u \in ToSet(newNxt[v]) : CyclesAfter[v] = CyclesAfter[u] + Crossings("w")[v]
<1>1. /\ DOMAIN newNxt = AllOf(g) /\ \A v \in AllOf(g) : R[v] \in Nat
      /\ \A v \in AllOf(g) :
           /\ ToSet(newNxt[v]) \subseteq AllOf(g) /\ IsFiniteSet(ToSet(newNxt[v]))
           /\ \A u \in ToSet(newNxt[v]) : R[v] < R[u]
  BY WaysRanked
<1>2. PICK N \in Nat : \E down \in [AllOf(g) -> 1 .. N] :
        /\ R \in [AllOf(g) -> 1 .. N]
        /\ \A v \in AllOf(g) : down[v] = N + 1 - R[v]
  BY WaysRanked, Zenon
<1>3. PICK down \in [AllOf(g) -> 1 .. N] :
        /\ R \in [AllOf(g) -> 1 .. N]
        /\ \A v \in AllOf(g) : down[v] = N + 1 - R[v]
  BY <1>2, Zenon
<1>4. Crossings("w") \in [AllOf(g) -> Nat]
  BY CrossingFacts
<1>5. PICK before \in [AllOf(g) -> SUBSET AllOf(g)] :
        before = [v \in DOMAIN newNxt |-> ToSet(newNxt[v])]
  <2>1. [v \in DOMAIN newNxt |-> ToSet(newNxt[v])] \in [AllOf(g) -> SUBSET AllOf(g)]
    BY <1>1
  <2> QED
    BY <2>1
<1>6. \A v \in AllOf(g) : before[v] = ToSet(newNxt[v])
  BY <1>1, <1>5
<1>7. \A v \in AllOf(g) : IsFiniteSet(before[v]) /\ \A u \in before[v] : down[u] < down[v]
  <2> SUFFICES ASSUME NEW v \in AllOf(g), NEW u \in ToSet(newNxt[v])
               PROVE  down[u] < down[v]
    BY <1>1, <1>6
  <2>1. u \in AllOf(g) /\ R[v] < R[u] /\ R[u] \in Nat /\ R[v] \in Nat
    BY <1>1
  <2> QED
    BY <1>3, <2>1
<1>8. PICK none \in [AllOf(g) -> Nat] : none = [v \in DOMAIN newNxt |-> 0]
  BY <1>1
<1>9. IsLongest(AllOf(g), before, none, Crossings("w"), CyclesAfter)
  BY <1>3, <1>4, <1>5, <1>7, <1>8, LongestFacts DEF CyclesAfter
<1>10. \A v \in AllOf(g) : none[v] = 0
  BY <1>1, <1>8
<1> QED
  BY <1>6, <1>9, <1>10 DEF IsLongest

(* Counted from the end, they are longest ways of the walk back.           *)
LEMMA LeftAreLongest ==
  ASSUME NEW g \in FrontGraphs, NEW R, NEW T, Ranked(g, R), SplitInv(g, R, T),
         flowStep # "split"
  PROVE  LongestFrom(Used, newPre, Crossings("w"), LastCycle(g), CyclesLeft(g))
<1>1. \A v \in AllOf(g) :
        /\ \A u \in ToSet(newPre[v]) : v \in ToSet(newNxt[u])
        /\ \A u \in ToSet(newNxt[v]) : v \in ToSet(newPre[u])
  BY WaysRanked
<1>2. /\ Used \subseteq AllOf(g)
      /\ \A v \in AllOf(g) : ToSet(newNxt[v]) \subseteq Used /\ ToSet(newPre[v]) \subseteq Used
      /\ \A v \in Used : v \in ToSet(endList) <=> ToSet(newNxt[v]) = {}
  BY UsedFacts
<1>3. \A v \in AllOf(g) : /\ Crossings("w")[v] \in Nat
                          /\ LastCycle(g)[v] = IF v \in ToSet(endList) THEN 1 ELSE 0
                          /\ CyclesLeft(g)[v] = CyclesAfter[v] + 1
  BY CrossingFacts DEF LastCycle, CyclesLeft
<1>4. PICK A \in [AllOf(g) -> Nat] : A = CyclesAfter
  BY CyclesAfterFacts
<1>5. \A v \in AllOf(g) :
        /\ \A u \in ToSet(newNxt[v]) : A[u] + Crossings("w")[v] <= A[v]
        /\ A[v] = 0 \/ \E u \in ToSet(newNxt[v]) : A[v] = A[u] + Crossings("w")[v]
  BY <1>4, CyclesAfterFacts
<1>6. ASSUME NEW v \in Used
      PROVE  /\ LastCycle(g)[v] \in Nat /\ Crossings("w")[v] \in Nat /\ CyclesLeft(g)[v] \in Nat
             /\ LastCycle(g)[v] <= CyclesLeft(g)[v]
             /\ \A n \in ToSet(newPre[v]) : CyclesLeft(g)[v] + Crossings("w")[n] <= CyclesLeft(g)[n]
             /\ CyclesLeft(g)[v] = LastCycle(g)[v]
                \/ \E u \in Used : v \in ToSet(newPre[u]) /\ CyclesLeft(g)[v] = CyclesLeft(g)[u] + Crossings("w")[v]
  <2>1. v \in AllOf(g) /\ A[v] \in Nat /\ Crossings("w")[v] \in Nat /\ CyclesLeft(g)[v] = A[v] + 1
    BY <1>2, <1>3, <1>4
  <2>2. LastCycle(g)[v] \in {0, 1} /\ (v \in ToSet(endList) => LastCycle(g)[v] = 1)
    BY <1>3, <2>1
  <2>3. ASSUME NEW n \in ToSet(newPre[v])
        PROVE  CyclesLeft(g)[v] + Crossings("w")[n] <= CyclesLeft(g)[n]
    <3>1. n \in AllOf(g) /\ v \in ToSet(newNxt[n])
      BY <1>1, <1>2, <2>1
    <3>2. A[v] + Crossings("w")[n] <= A[n] /\ CyclesLeft(g)[n] = A[n] + 1
          /\ Crossings("w")[n] \in Nat /\ A[n] \in Nat
      BY <1>3, <1>4, <1>5, <3>1
    <3> QED
      BY <2>1, <3>2
  <2>4. CyclesLeft(g)[v] = LastCycle(g)[v]
        \/ \E u \in Used : v \in ToSet(newPre[u]) /\ CyclesLeft(g)[v] = CyclesLeft(g)[u] + Crossings("w")[v]
    <3>1. ASSUME NEW u \in ToSet(newNxt[v]), A[v] = A[u] + Crossings("w")[v]
          PROVE  u \in Used /\ v \in ToSet(newPre[u]) /\ CyclesLeft(g)[v] = CyclesLeft(g)[u] + Crossings("w")[v]
      <4>1. u \in Used /\ u \in AllOf(g) /\ v \in ToSet(newPre[u])
        BY <1>1, <1>2, <2>1
      <4>2. CyclesLeft(g)[u] = A[u] + 1 /\ A[u] \in Nat
        BY <1>3, <1>4, <4>1
      <4> QED
        BY <2>1, <3>1, <4>1, <4>2
    <3>2. CASE A[v] = 0
      <4>1. CASE v \in ToSet(endList)
        BY <2>1, <2>2, <3>2, <4>1
      <4>2. CASE v \notin ToSet(endList)
        <5>1. PICK u \in ToSet(newNxt[v]) : TRUE
          BY <1>2, <4>2
        <5>2. A[u] + Crossings("w")[v] <= A[v] /\ A[u] \in Nat
          BY <1>2, <1>4, <1>5, <2>1
        <5>3. A[v] = A[u] + Crossings("w")[v]
          BY <2>1, <3>2, <5>2
        <5> QED
          BY <3>1, <5>3
      <4> QED
        BY <4>1, <4>2
    <3>3. CASE A[v] # 0
      <4>1. PICK u \in ToSet(newNxt[v]) : A[v] = A[u] + Crossings("w")[v]
        BY <1>5, <2>1, <3>3
      <4> QED
        BY <3>1, <4>1
    <3> QED
      BY <3>2, <3>3
  <2> QED
    BY <2>1, <2>2, <2>3, <2>4
<1> QED
  BY <1>6 DEF LongestFrom

(* An earliest cycle and those that must follow are within the schedule.   *)
LEMMA WaysFit ==
  ASSUME NEW g \in FrontGraphs, NEW R, NEW T, Ranked(g, R), SplitInv(g, R, T),
         flowStep # "split", NEW start \in [AllOf(g) -> Nat]
  PROVE  \A v \in Used : \E e \in Used :
           EarliestCycle(start)[v] + CyclesAfter[v] <= EarliestCycle(start)[e]
<1>1. PICK L : L = EarliestCycle(start)
  OBVIOUS
<1>2. PICK A \in [AllOf(g) -> Nat] : A = CyclesAfter
  BY CyclesAfterFacts
<1>3. \A v \in Used :
        /\ start[v] \in Nat /\ Crossings("r")[v] \in Nat /\ L[v] \in Nat /\ start[v] <= L[v]
        /\ \A n \in ToSet(newNxt[v]) : L[v] + Crossings("r")[n] <= L[n]
  BY <1>1, EarliestAreLongest DEF LongestFrom
<1>4. \A v \in AllOf(g) :
        A[v] = 0 \/ \E u \in ToSet(newNxt[v]) : A[v] = A[u] + Crossings("w")[v]
  BY <1>2, CyclesAfterFacts
<1>5. /\ Used \subseteq AllOf(g)
      /\ \A v \in AllOf(g) : ToSet(newNxt[v]) \subseteq Used /\ ToSet(newPre[v]) \subseteq Used
      /\ \A v \in Used : v \in ToSet(beginList) <=> ToSet(newPre[v]) = {}
  BY UsedFacts
<1>6. \A v \in AllOf(g) :
        /\ R[v] \in Nat
        /\ \A u \in ToSet(newPre[v]) : R[u] < R[v] /\ v \in ToSet(newNxt[u])
        /\ \A u \in ToSet(newNxt[v]) : R[v] < R[u]
  BY WaysRanked
<1>7. \A v \in Used : \E e \in Used : L[v] + A[v] <= L[e]
  <2> DEFINE Bad == {v \in Used : ~ \E e \in Used : L[v] + A[v] <= L[e]}
  <2> SUFFICES ASSUME Bad # {} PROVE FALSE
    OBVIOUS
  <2>0. PICK N \in Nat : R \in [AllOf(g) -> 1 .. N]
    BY WaysRanked
  <2>1. PICK v \in Bad : \A u \in Bad : R[u] <= R[v]
    <3> DEFINE Ranks == {N - R[u] : u \in Bad}
    <3>1. \A u \in Bad : R[u] \in 1 .. N /\ N - R[u] \in Nat
      BY <1>5, <2>0
    <3>2. Ranks \subseteq Nat /\ Ranks # {}
      BY <3>1
    <3>3. PICK m \in Ranks : \A y \in Ranks : m <= y
      <4> HIDE DEF Ranks
      <4> QED
        BY <3>2, LeastElement
    <3>4. PICK v \in Bad : m = N - R[v]
      OBVIOUS
    <3>5. ASSUME NEW u \in Bad
          PROVE  R[u] <= R[v]
      <4>1. N - R[v] <= N - R[u]
        BY <3>3, <3>4
      <4>2. R[u] \in 1 .. N /\ R[v] \in 1 .. N
        BY <3>1
      <4> QED
        BY <4>1, <4>2
    <3> QED
      BY <3>5
  <2>2. v \in Used /\ v \in AllOf(g) /\ L[v] \in Nat /\ A[v] \in Nat
        /\ ~ \E e \in Used : L[v] + A[v] <= L[e]
    BY <1>2, <1>3, <1>5
  <2>3. A[v] # 0
    BY <2>2
  <2>4. PICK u \in ToSet(newNxt[v]) : A[v] = A[u] + Crossings("w")[v]
    BY <1>4, <2>2, <2>3
  <2>5. u \in Used /\ u \in AllOf(g) /\ R[v] < R[u] /\ R[u] \in Nat /\ R[v] \in Nat
    BY <1>5, <1>6, <2>2
  <2>6. u \notin Bad
    <3> HIDE DEF Bad
    <3> QED
      BY <2>1, <2>5
  <2>7. PICK e \in Used : L[u] + A[u] <= L[e]
    BY <2>5, <2>6
  <2>8. Crossings("r")[u] = Crossings("w")[v]
    BY <2>2, <2>5, CrossingFacts, RegisterSides
  <2>9. L[v] + Crossings("r")[u] <= L[u] /\ L[u] \in Nat /\ L[e] \in Nat /\ Crossings("r")[u] \in Nat
        /\ A[u] \in Nat
    BY <1>2, <1>3, <2>2, <2>5
  <2>10. L[v] + A[v] <= L[e]
    BY <2>2, <2>4, <2>7, <2>8, <2>9
  <2> QED
    BY <2>2, <2>10
<1> QED
  BY <1>1, <1>2, <1>7

(* Starts that leave room for the cycles that must follow do so for every  *)
(* vertex.                                                                 *)
LEMMA RoomKept ==
  ASSUME NEW g \in FrontGraphs, NEW R, NEW T, Ranked(g, R), SplitInv(g, R, T),
         flowStep # "split", NEW start \in [AllOf(g) -> Nat], NEW M \in Nat,
         \A v \in Used : start[v] + CyclesAfter[v] <= M
  PROVE  \A v \in Used : EarliestCycle(start)[v] + CyclesAfter[v] <= M
<1>1. PICK L \in [AllOf(g) -> Nat] : L = EarliestCycle(start)
  BY EarliestFacts
<1>2. PICK A \in [AllOf(g) -> Nat] : A = CyclesAfter
  BY CyclesAfterFacts
<1>3. Used \subseteq AllOf(g) /\ \A v \in AllOf(g) : ToSet(newPre[v]) \subseteq Used
  BY UsedFacts
<1>4. \A v \in AllOf(g) :
        R[v] \in Nat /\ \A u \in ToSet(newPre[v]) : R[u] < R[v] /\ v \in ToSet(newNxt[u])
  BY WaysRanked
<1> DEFINE Bad == {v \in Used : ~ (L[v] + A[v] <= M)}
<1> SUFFICES ASSUME Bad # {} PROVE FALSE
  BY <1>1, <1>2
<1>5. PICK v \in Bad : \A u \in Bad : R[v] <= R[u]
  <2>1. \A u \in Bad : R[u] \in Nat
    BY <1>3, <1>4
  <2> HIDE DEF Bad
  <2> QED
    BY <2>1, LeastRanked
<1>6. v \in Used /\ v \in AllOf(g) /\ ~ (L[v] + A[v] <= M)
  BY <1>3
<1>7. L[v] # start[v]
  BY <1>2, <1>6
<1>8. PICK u \in ToSet(newPre[v]) : L[v] = L[u] + Crossings("r")[v]
  BY <1>1, <1>6, <1>7, EarliestFacts
<1>9. u \in Used /\ u \in AllOf(g) /\ v \in ToSet(newNxt[u]) /\ R[u] < R[v]
      /\ R[u] \in Nat /\ R[v] \in Nat
  BY <1>3, <1>4, <1>6
<1>10. L[u] + A[u] <= M
  <2>1. u \notin Bad
    <3> HIDE DEF Bad
    <3> QED
      BY <1>5, <1>9
  <2> QED
    BY <1>9, <2>1
<1>11. Crossings("r")[v] = Crossings("w")[u] /\ Crossings("w")[u] \in Nat
  BY <1>6, <1>9, CrossingFacts, RegisterSides
<1>12. A[v] + Crossings("w")[u] <= A[u]
  BY <1>2, <1>9, CyclesAfterFacts
<1>13. L[u] \in Nat /\ A[u] \in Nat /\ A[v] \in Nat
  BY <1>6, <1>9
<1>14. L[v] + A[v] <= M
  BY <1>8, <1>10, <1>11, <1>12, <1>13
<1> QED
  BY <1>6, <1>14

(* Later starts lead to later cycles.                                      *)
LEMMA LaterStarts ==
  ASSUME NEW g \in FrontGraphs, NEW R, NEW T, Ranked(g, R), SplitInv(g, R, T),
         flowStep # "split", NEW s \in [AllOf(g) -> Nat], NEW t \in [AllOf(g) -> Nat],
         \A v \in Used : s[v] <= t[v]
  PROVE  \A v \in Used : EarliestCycle(s)[v] <= EarliestCycle(t)[v]
<1>1. PICK L \in [AllOf(g) -> Nat] : L = EarliestCycle(s)
  BY EarliestFacts
<1>2. PICK K \in [AllOf(g) -> Nat] : K = EarliestCycle(t)
  BY EarliestFacts
<1>3. Used \subseteq AllOf(g) /\ \A v \in AllOf(g) : ToSet(newPre[v]) \subseteq Used
  BY UsedFacts
<1>4. \A v \in AllOf(g) : R[v] \in Nat /\ \A u \in ToSet(newPre[v]) : R[u] < R[v]
  BY WaysRanked
<1> DEFINE Bad == {v \in Used : ~ (L[v] <= K[v])}
<1> SUFFICES ASSUME Bad # {} PROVE FALSE
  BY <1>1, <1>2
<1>5. PICK v \in Bad : \A u \in Bad : R[v] <= R[u]
  <2>1. \A u \in Bad : R[u] \in Nat
    BY <1>3, <1>4
  <2> HIDE DEF Bad
  <2> QED
    BY <2>1, LeastRanked
<1>6. v \in Used /\ v \in AllOf(g) /\ ~ (L[v] <= K[v]) /\ L[v] \in Nat /\ K[v] \in Nat
  BY <1>3
<1>7. L[v] # s[v]
  <2>1. s[v] <= t[v] /\ s[v] \in Nat /\ t[v] \in Nat
    BY <1>6
  <2>2. t[v] <= K[v]
    BY <1>2, <1>6, EarliestFacts
  <2> QED
    BY <1>6, <2>1, <2>2
<1>8. PICK u \in ToSet(newPre[v]) : L[v] = L[u] + Crossings("r")[v]
  BY <1>1, <1>6, <1>7, EarliestFacts
<1>9. u \in Used /\ u \in AllOf(g) /\ R[u] < R[v] /\ R[u] \in Nat /\ R[v] \in Nat
      /\ L[u] \in Nat /\ K[u] \in Nat
  BY <1>3, <1>4, <1>6
<1>10. L[u] <= K[u]
  <2>1. u \notin Bad
    <3> HIDE DEF Bad
    <3> QED
      BY <1>5, <1>9
  <2> QED
    BY <1>9, <2>1
<1>11. K[u] + Crossings("r")[v] <= K[v] /\ Crossings("r")[v] \in Nat
  BY <1>2, <1>6, CrossingFacts, EarliestFacts
<1>12. L[v] <= K[v]
  BY <1>6, <1>8, <1>9, <1>10, <1>11
<1> QED
  BY <1>6, <1>12

(* What is not used begins where it starts.                                *)
LEMMA UnusedStart ==
  ASSUME NEW g \in FrontGraphs, NEW R, NEW T, Ranked(g, R), SplitInv(g, R, T),
         flowStep # "split", NEW start \in [AllOf(g) -> Nat], NEW v \in AllOf(g) \ Used
  PROVE  EarliestCycle(start)[v] = start[v]
<1>1. ASSUME NEW u \in ToSet(newPre[v])
      PROVE  FALSE
  <2>1. u \in AllOf(g) /\ v \in ToSet(newNxt[u])
    BY WaysRanked
  <2> QED
    BY <2>1, UsedFacts
<1> QED
  BY <1>1, EarliestFacts

(* When the begins start in a cycle, no vertex is without one.             *)
LEMMA EarliestPositive ==
  ASSUME NEW g \in FrontGraphs, NEW R, NEW T, Ranked(g, R), SplitInv(g, R, T),
         flowStep # "split", NEW start \in [AllOf(g) -> Nat],
         \A v \in ToSet(beginList) : start[v] # 0
  PROVE  \A v \in Used : EarliestCycle(start)[v] # 0
<1>1. PICK L : L = EarliestCycle(start)
  OBVIOUS
<1>2. \A v \in Used :
        /\ start[v] \in Nat /\ Crossings("r")[v] \in Nat /\ L[v] \in Nat /\ start[v] <= L[v]
        /\ \A n \in ToSet(newNxt[v]) : L[v] + Crossings("r")[n] <= L[n]
  BY <1>1, EarliestAreLongest DEF LongestFrom
<1>3. /\ Used \subseteq AllOf(g)
      /\ \A v \in AllOf(g) : ToSet(newNxt[v]) \subseteq Used /\ ToSet(newPre[v]) \subseteq Used
      /\ \A v \in Used : v \in ToSet(beginList) <=> ToSet(newPre[v]) = {}
  BY UsedFacts
<1>4. \A v \in AllOf(g) :
        /\ R[v] \in Nat
        /\ \A u \in ToSet(newPre[v]) : R[u] < R[v] /\ v \in ToSet(newNxt[u])
        /\ \A u \in ToSet(newNxt[v]) : R[v] < R[u]
  BY WaysRanked
<1>5. \A v \in Used : L[v] # 0
  <2> DEFINE Bad == {v \in Used : L[v] = 0}
  <2> SUFFICES ASSUME Bad # {} PROVE FALSE
    OBVIOUS
  <2>1. PICK v \in Bad : \A u \in Bad : R[v] <= R[u]
    <3>1. \A u \in Bad : R[u] \in Nat
      BY <1>3, <1>4
    <3> HIDE DEF Bad
    <3> QED
      BY <3>1, LeastRanked
  <2>2. v \in Used /\ L[v] = 0 /\ v \in AllOf(g)
    BY <1>3
  <2>3. CASE v \in ToSet(beginList)
    BY <1>2, <2>2, <2>3
  <2>4. CASE v \notin ToSet(beginList)
    <3>1. PICK u \in ToSet(newPre[v]) : TRUE
      BY <1>3, <2>2, <2>4
    <3>2. u \in Used /\ u \in AllOf(g) /\ R[u] < R[v] /\ R[u] \in Nat /\ R[v] \in Nat
          /\ v \in ToSet(newNxt[u])
      BY <1>3, <1>4, <2>2
    <3>3. L[u] + Crossings("r")[v] <= L[v] /\ L[u] \in Nat /\ Crossings("r")[v] \in Nat
      BY <1>2, <2>2, <3>2
    <3>4. u \in Bad
      BY <2>2, <3>2, <3>3
    <3> HIDE DEF Bad
    <3> QED
      BY <2>1, <3>2, <3>4
  <2> QED
    BY <2>3, <2>4
<1> QED
  BY <1>1, <1>5

(* No more cycles must follow than the schedule is long.                   *)
LEMMA CyclesFollow ==
  ASSUME NEW g \in FrontGraphs, NEW R, NEW T, Ranked(g, R), SplitInv(g, R, T),
         flowStep # "split", NEW start \in [AllOf(g) -> Nat],
         \A v \in ToSet(beginList) : start[v] # 0
  PROVE  \A v \in Used : \E e \in Used : CyclesLeft(g)[v] <= EarliestCycle(start)[e]
<1>1. PICK L : L = EarliestCycle(start)
  OBVIOUS
<1>2. PICK A \in [AllOf(g) -> Nat] : A = CyclesAfter
  BY CyclesAfterFacts
<1>3. \A v \in Used : L[v] \in Nat
  BY <1>1, EarliestAreLongest DEF LongestFrom
<1>4. Used \subseteq AllOf(g)
  BY UsedFacts
<1>5. \A v \in Used : L[v] # 0
  BY <1>1, EarliestPositive
<1>6. \A v \in Used : \E e \in Used : L[v] + A[v] <= L[e]
  BY <1>1, <1>2, WaysFit
<1>7. ASSUME NEW v \in Used
      PROVE  \E e \in Used : CyclesLeft(g)[v] <= L[e]
  <2>1. PICK e \in Used : L[v] + A[v] <= L[e]
    BY <1>6
  <2>2. CyclesLeft(g)[v] = A[v] + 1
    BY <1>2, <1>4 DEF CyclesLeft
  <2>3. L[v] \in Nat /\ L[v] # 0 /\ A[v] \in Nat /\ L[e] \in Nat
    BY <1>2, <1>3, <1>4, <1>5
  <2>4. CyclesLeft(g)[v] <= L[e]
    BY <2>1, <2>2, <2>3
  <2> QED
    BY <2>4
<1> QED
  BY <1>1, <1>7
-----------------------------------------------------------------------------
(* The cycles *)

RoundTypes(g) ==
  /\ walk \in Seq(AllOf(g)) /\ stacks \in [AllOf(g) -> Seq(AllOf(g))]
  /\ cycleOf \in [AllOf(g) -> Int] /\ deep_cycle \in Nat \ {0}
  /\ asap \in [AllOf(g) -> Nat] /\ alap \in [AllOf(g) -> Int]
  /\ \A v \in DOMAIN cstep : v \in OpsOf(g) /\ cstep[v].begin \in Nat
  /\ flowStep = "ASAP" => cycleOf \in [AllOf(g) -> Nat]

AsapWalk(R) ==
  flowStep = "ASAP" =>
    Walking(Used, Used, R, newNxt, Crossings("r"), Starts, EarliestCycle(Starts),
            walk, stacks, cycleOf, asap)

AsapKept ==
  flowStep = "ALAP" => \A v \in Used : asap[v] = EarliestCycle(Starts)[v]

(* A cycle counted from the end; 0 stays none yet.                         *)
FromEnd(f) == [v \in DOMAIN f |-> IF f[v] = 0 THEN 0 ELSE (deep_cycle + 1) - f[v]]

(* The vertices that have a cycle in a schedule of deep_cycle cycles.      *)
Fit(g) == {v \in Used : CyclesLeft(g)[v] <= deep_cycle}

(* The walk back, wherever it starts from.                                 *)
AlapWalk(g, R) ==
  flowStep = "ALAP" =>
    /\ \A v \in Fit(g) : cycleOf[v] \in 0 .. deep_cycle
    /\ Walking(Fit(g), Used, Down(g, R), newPre, Crossings("w"), LastCycle(g), CyclesLeft(g),
               walk, stacks, FromEnd(cycleOf), FromEnd(alap))

RoundInv(g, R) == RoundTypes(g) /\ AsapWalk(R) /\ AsapKept /\ AlapWalk(g, R)

(* Pushing every edge once more, in whatever order, adds none.             *)
LEMMA DoubledFacts ==
  ASSUME NEW S, NEW s \in [S -> Seq(S)], NEW t \in Doubled(s)
  PROVE  t \in [S -> Seq(S)] /\ \A v \in S : ToSet(t[v]) = ToSet(s[v])
<1> DEFINE again == [v \in DOMAIN s |-> SetToSeqs(ToSet(s[v]))]
           forks == {v \in DOMAIN s : Cardinality(again[v]) > 1}
           next(p, v) == IF v \in forks THEN p[v] ELSE CHOOSE q \in again[v] : TRUE
<1>1. PICK p : /\ \A v \in forks : p[v] \in again[v]
               /\ t = [v \in DOMAIN s |-> s[v] \o next(p, v)]
  BY DEF Doubled
<1>2. \A v \in S : again[v] = SetToSeqs(ToSet(s[v]))
  OBVIOUS
<1>3. \A v \in S : next(p, v) \in again[v]
  <2> SUFFICES ASSUME NEW v \in S PROVE next(p, v) \in again[v]
    OBVIOUS
  <2>1. CASE v \in forks
    BY <1>1, <2>1
  <2>2. CASE v \notin forks
    <3>1. IsFiniteSet(ToSet(s[v]))
      BY ListIsFinite
    <3>2. \E q : q \in SetToSeqs(ToSet(s[v]))
      BY <3>1, SetToSeqsExist
    <3>3. \E q : q \in again[v]
      BY <1>2, <3>2
    <3>4. (CHOOSE q \in again[v] : TRUE) \in again[v]
      <4> HIDE DEF again
      <4> QED
        BY <3>3
    <3> QED
      BY <2>2, <3>4
  <2> QED
    BY <2>1, <2>2
<1> HIDE DEF again, forks, next
<1>4. ASSUME NEW v \in S
      PROVE  /\ s[v] \o next(p, v) \in Seq(S)
             /\ ToSet(s[v] \o next(p, v)) = ToSet(s[v])
  <2>1. s[v] \in Seq(S) /\ ToSet(s[v]) \subseteq S /\ IsFiniteSet(ToSet(s[v]))
    BY ToSetFacts, ListIsFinite
  <2>2. PICK q \in SetToSeqs(ToSet(s[v])) : q = next(p, v)
    BY <1>2, <1>3
  <2>3. q \in Seq(ToSet(s[v])) /\ ToSet(q) = ToSet(s[v])
    BY <2>1, SetToSeqsFacts
  <2>4. q \in Seq(S)
    BY <2>1, <2>3
  <2>5. s[v] \o q \in Seq(S) /\ ToSet(s[v] \o q) = ToSet(s[v]) \union ToSet(q)
    BY <2>1, <2>4, ToSetConcat
  <2> QED
    BY <2>2, <2>3, <2>5
<1>5. DOMAIN s = S
  OBVIOUS
<1> QED
  BY <1>1, <1>4, <1>5

(* A vertex that fits is reached through others that do.                   *)
LEMMA FitClosed ==
  ASSUME NEW g \in FrontGraphs, NEW R, NEW T, Ranked(g, R), SplitInv(g, R, T),
         flowStep # "split", deep_cycle \in Nat
  PROVE  /\ Closed(Fit(g), Used, newPre)
         /\ \A v \in Fit(g) : v \in Used /\ CyclesLeft(g)[v] \in Nat /\ CyclesLeft(g)[v] <= deep_cycle
<1>1. LongestFrom(Used, newPre, Crossings("w"), LastCycle(g), CyclesLeft(g))
  BY LeftAreLongest
<1>2. \A v \in Used : /\ CyclesLeft(g)[v] \in Nat /\ Crossings("w")[v] \in Nat
                      /\ \A n \in ToSet(newPre[v]) : CyclesLeft(g)[v] + Crossings("w")[n] <= CyclesLeft(g)[n]
  BY <1>1 DEF LongestFrom
<1>3. ASSUME NEW v \in Used, NEW n \in ToSet(newPre[v]), n \in Fit(g)
      PROVE  v \in Fit(g)
  <2>1. n \in Used /\ CyclesLeft(g)[n] <= deep_cycle
    BY <1>3 DEF Fit
  <2>2. /\ CyclesLeft(g)[v] \in Nat /\ Crossings("w")[n] \in Nat /\ CyclesLeft(g)[n] \in Nat
        /\ CyclesLeft(g)[v] + Crossings("w")[n] <= CyclesLeft(g)[n]
    BY <1>2, <2>1
  <2>3. CyclesLeft(g)[v] <= deep_cycle
    BY <2>1, <2>2
  <2> QED
    BY <2>3 DEF Fit
<1> QED
  BY <1>2, <1>3 DEF Closed, Fit

(* The length of a schedule is that of its last cycle.                     *)
LEMMA LengthFacts ==
  ASSUME NEW g \in FrontGraphs, NEW f \in [AllOf(g) -> Nat], NEW v \in AllOf(g)
  PROVE  Length(f) \in Nat /\ f[v] <= Length(f) /\ \E u \in AllOf(g) : f[u] = Length(f)
<1>1. IsFiniteSet(AllOf(g))
  <2>1. IsFiniteSet(DOMAIN g) /\ MaxRegs(g) \in Nat
    BY FrontFacts
  <2>2. IsFiniteSet(0 .. MaxRegs(g) - 1)
    BY <2>1, FS_Interval
  <2>3. IsFiniteSet({"w", "r"})
    <3>1. IsFiniteSet({"w"})
      BY FS_Singleton
    <3>2. IsFiniteSet({"w"} \union {"r"})
      BY <3>1, FS_AddElement
    <3>3. {"w"} \union {"r"} = {"w", "r"}
      OBVIOUS
    <3> QED
      BY <3>2, <3>3
  <2>4. IsFiniteSet(Registers(g))
    BY <2>2, <2>3, FS_Product DEF Registers, MaxRegs, OpsOf
  <2> QED
    BY <2>1, <2>4, FS_Union DEF AllOf
<1>2. PICK S : S = {f[x] : x \in AllOf(g)}
  OBVIOUS
<1>3. S = Range(f)
  BY <1>2 DEF Range
<1>4. IsFiniteSet(S)
  <2>1. f \in Surjection(AllOf(g), S)
    BY <1>2 DEF Surjection
  <2> QED
    BY <1>1, <2>1, FS_Surjection
<1>5. S \subseteq Nat /\ f[v] \in S /\ S \subseteq Int
  BY <1>2
<1>6. PICK x \in S : \A y \in S : x >= y
  BY <1>4, <1>5, FiniteHasMax
<1>7. Max(S) \in S /\ \A y \in S : Max(S) >= y
  BY <1>5, <1>6, MaxFacts
<1>8. Max(S) \in Nat /\ Max(S) >= f[v] /\ f[v] \in Nat
  BY <1>5, <1>7
<1>9. Length(f) = Max(S)
  BY <1>3 DEF Length
<1>10. \E u \in AllOf(g) : f[u] = Length(f)
  BY <1>2, <1>7, <1>9
<1> QED
  BY <1>8, <1>9, <1>10

(* A round starts from cycles, and never from none at a begin.             *)
LEMMA StartFacts ==
  ASSUME NEW g \in FrontGraphs, NEW R, NEW T, Ranked(g, R), SplitInv(g, R, T),
         RoundTypes(g)
  PROVE  /\ Starts \in [AllOf(g) -> Nat]
         /\ \A v \in ToSet(beginList) : Starts[v] # 0
         /\ Starts = [v \in AllOf(g) |-> StartCycle(v)]
<1>1. DOMAIN newPre = AllOf(g)
  BY WaysRanked
<1>2. beginList \in Seq(DOMAIN g) /\ ToSet(beginList) \subseteq DOMAIN g
  BY DEF SplitInv, SplitTypes
<1>3. \A v : StartCycle(v) \in Nat /\ (v \in ToSet(beginList) => StartCycle(v) # 0)
  <2> SUFFICES ASSUME NEW v
               PROVE  StartCycle(v) \in Nat /\ (v \in ToSet(beginList) => StartCycle(v) # 0)
    OBVIOUS
  <2>1. CASE v \in Delayed
    <3>1. v \in DOMAIN cstep /\ cstep[v].begin = force
      BY <2>1 DEF Delayed, ALU
    <3>2. force \in Nat
      BY <3>1 DEF RoundTypes
    <3>3. StartCycle(v) = force + 1
      BY <2>1 DEF StartCycle
    <3> QED
      BY <3>2, <3>3
  <2>2. CASE v \notin Delayed
    <3>1. StartCycle(v) = IF v \in ToSet(beginList) THEN 1 ELSE 0
      BY <1>2, <2>2, ToSetFacts DEF StartCycle
    <3> QED
      BY <3>1
  <2> QED
    BY <2>1, <2>2
<1>4. Starts = [v \in AllOf(g) |-> StartCycle(v)]
  BY <1>1 DEF Starts
<1>5. \A v \in ToSet(beginList) : v \in AllOf(g)
  BY <1>2 DEF AllOf
<1> QED
  BY <1>3, <1>4, <1>5

(* The walk starts with nothing settled but what is behind the begins.     *)
LEMMA AsapBegins ==
  ASSUME NEW g \in FrontGraphs, NEW R, NEW T, Ranked(g, R), SplitInv(g, R, T),
         RoundInv(g, R), run_force_direct_alg_ASAP
  PROVE  RoundInv(g, R)'
<1>1. /\ flowStep = "round" /\ stacks' \in Doubled(newNxt)
      /\ cycleOf' = [v \in DOMAIN cycleOf |-> StartCycle(v)]
      /\ walk' = beginList /\ flowStep' = "ASAP"
      /\ UNCHANGED <<newPre, newNxt, beginList, endList, asap, alap, deep_cycle, cstep, force>>
  BY DEF run_force_direct_alg_ASAP, dfgVars
<1>2. flowStep # "split"
  BY <1>1
<1>3. RoundTypes(g) /\ newNxt \in [AllOf(g) -> Seq(AllOf(g))]
  BY DEF RoundInv, SplitInv, SplitTypes
<1>4. /\ Starts \in [AllOf(g) -> Nat]
      /\ \A v \in ToSet(beginList) : Starts[v] # 0
      /\ Starts = [v \in AllOf(g) |-> StartCycle(v)]
  BY <1>3, StartFacts
<1>5. cycleOf' = Starts
  BY <1>1, <1>3, <1>4 DEF RoundTypes
<1>6. stacks' \in [AllOf(g) -> Seq(AllOf(g))] /\ \A v \in AllOf(g) : ToSet(stacks'[v]) = ToSet(newNxt[v])
  BY <1>1, <1>3, DoubledFacts
<1>7. beginList \in Seq(AllOf(g)) /\ beginList \in Seq(Used)
  <2>1. beginList \in Seq(DOMAIN g)
    BY DEF SplitInv, SplitTypes
  <2>2. ToSet(beginList) \subseteq Used /\ Used \subseteq AllOf(g)
    BY <1>2, UsedFacts
  <2>3. beginList \in Seq(Used)
    <3>1. \A i \in 1 .. Len(beginList) : beginList[i] \in Used
      BY <2>1, <2>2, ToSetFacts
    <3> QED
      BY <2>1, <3>1
  <2> QED
    BY <2>2, <2>3
<1>8. RoundTypes(g)'
  BY <1>1, <1>3, <1>4, <1>5, <1>6, <1>7 DEF RoundTypes
<1>9. Used \subseteq AllOf(g)
  BY <1>2, UsedFacts
<1>10. WalkGraph(Used, R, newNxt, ToSet(beginList), ToSet(endList))
  BY <1>2, BothWalks
<1>11. LongestFrom(Used, newNxt, Crossings("r"), Starts, EarliestCycle(Starts))
  BY <1>2, <1>4, EarliestAreLongest
<1>12. Walking(Used, Used, R, newNxt, Crossings("r"), Starts, EarliestCycle(Starts),
                beginList, stacks', Starts, asap)
  BY <1>4, AllClosed, <1>6, <1>7, <1>9, <1>10, <1>11, WalkBegins
<1>13. /\ Used' = Used /\ Starts' = Starts /\ Crossings("r")' = Crossings("r")
       /\ EarliestCycle(Starts)' = EarliestCycle(Starts)
  BY <1>1 DEF Used, Consumed, Starts, StartCycle, Delayed, ALU, Crossings, EarliestCycle
<1>14. AsapWalk(R)'
  BY <1>1, <1>5, <1>12, <1>13 DEF AsapWalk
<1>15. AsapKept' /\ AlapWalk(g, R)'
  BY <1>1 DEF AsapKept, AlapWalk
<1> QED
  BY <1>8, <1>14, <1>15 DEF RoundInv

(* A step of the program is a step of the walk.                            *)
LEMMA AsapGoesOn ==
  ASSUME NEW g \in FrontGraphs, NEW R, NEW T, Ranked(g, R), SplitInv(g, R, T),
         RoundInv(g, R), run_NewDFG_ASAP_cycle
  PROVE  RoundInv(g, R)'
<1>1. PICK src : src = Last(walk)
  OBVIOUS
<1>2. PICK full : full = IF Contains(endList, src) THEN newNxt ELSE stacks
  OBVIOUS
<1>3. PICK left : left = Reverse(full[src])
  OBVIOUS
<1>4. PICK cur : cur = IF \E k \in DOMAIN left : left[k][1] = "r"
                       THEN cycleOf[src] + 1 ELSE cycleOf[src]
  OBVIOUS
<1>5. /\ flowStep = "ASAP" /\ walk # <<>> /\ flowStep' = "ASAP"
      /\ asap' = [asap EXCEPT ![src] = cycleOf[src]]
      /\ cycleOf' = [v \in DOMAIN cycleOf |->
           IF Contains(left, v) THEN Max({cycleOf[v], cur}) ELSE cycleOf[v]]
      /\ deep_cycle' = IF cur # cycleOf[src] THEN cur ELSE deep_cycle
      /\ stacks' = [full EXCEPT ![src] = <<>>]
      /\ walk' = Front(walk) \o left
      /\ UNCHANGED <<newPre, newNxt, beginList, endList, alap, cstep, force>>
  BY <1>1, <1>2, <1>3, <1>4 DEF run_NewDFG_ASAP_cycle, dfgVars
<1>6. flowStep # "split"
  BY <1>5
<1>7. /\ newNxt \in [AllOf(g) -> Seq(AllOf(g))] /\ endList \in Seq(DOMAIN g)
      /\ walk \in Seq(AllOf(g)) /\ stacks \in [AllOf(g) -> Seq(AllOf(g))]
      /\ cycleOf \in [AllOf(g) -> Nat] /\ deep_cycle \in Nat \ {0}
      /\ asap \in [AllOf(g) -> Nat] /\ alap \in [AllOf(g) -> Int]
      /\ \A v \in DOMAIN cstep : v \in OpsOf(g) /\ cstep[v].begin \in Nat
  BY <1>5 DEF RoundInv, RoundTypes, SplitInv, SplitTypes
<1>8. Walking(Used, Used, R, newNxt, Crossings("r"), Starts, EarliestCycle(Starts),
              walk, stacks, cycleOf, asap)
  BY <1>5 DEF RoundInv, AsapWalk
<1>9. WalkGraph(Used, R, newNxt, ToSet(beginList), ToSet(endList))
  BY <1>6, BothWalks
<1>10. LongestFrom(Used, newNxt, Crossings("r"), Starts, EarliestCycle(Starts))
  <2>1. Starts \in [AllOf(g) -> Nat]
    BY StartFacts DEF RoundInv
  <2> QED
    BY <1>6, <2>1, EarliestAreLongest
<1>11. Used \subseteq AllOf(g)
  BY <1>6, UsedFacts
<1>12. /\ src \in Used /\ src \in AllOf(g)
       /\ ToSet(IF src \in ToSet(endList) THEN newNxt[src] ELSE stacks[src]) = ToSet(newNxt[src])
  BY <1>1, <1>5, <1>8, <1>9, <1>11, WalkTakes
<1>13. /\ Contains(endList, src) <=> src \in ToSet(endList)
       /\ full \in [AllOf(g) -> Seq(AllOf(g))]
       /\ \A v \in AllOf(g) : full[v] = IF src \in ToSet(endList) THEN newNxt[v] ELSE stacks[v]
  BY <1>2, <1>7, ToSetFacts
<1>14. /\ left \in Seq(AllOf(g)) /\ ToSet(left) = ToSet(newNxt[src])
       /\ ToSet(left) = ToSet(IF src \in ToSet(endList) THEN newNxt[src] ELSE stacks[src])
  BY <1>3, <1>12, <1>13, ToSetReverse
<1>15. left \in Seq(Used)
  <2>1. ToSet(left) \subseteq Used
    BY <1>6, <1>12, <1>14, UsedFacts
  <2>2. \A i \in 1 .. Len(left) : left[i] \in Used
    BY <1>14, <2>1, ToSetFacts
  <2> QED
    BY <1>14, <2>2
<1>16. \A v \in AllOf(g) : Contains(left, v) <=> v \in ToSet(left)
  BY <1>14, ToSetFacts
<1>17. cycleOf[src] \in Nat /\ cur \in Nat
  BY <1>4, <1>7, <1>12
<1>18. ASSUME NEW v \in ToSet(left)
       PROVE  v \in AllOf(g) /\ cur = cycleOf[src] + Crossings("r")[v]
  <2>1. v \in AllOf(g)
    BY <1>14, ToSetFacts
  <2>2. \A n \in ToSet(left) : n[1] = "r" <=> v[1] = "r"
    BY <1>12, <1>14, RegisterSides
  <2>3. (\E k \in DOMAIN left : left[k][1] = "r") <=> v[1] = "r"
    BY <2>2 DEF ToSet
  <2>4. Crossings("r")[v] = IF v[1] = "r" THEN 1 ELSE 0
    BY <2>1, CrossingFacts
  <2> QED
    BY <1>4, <1>17, <2>1, <2>3, <2>4
<1>19. ASSUME NEW v \in AllOf(g)
       PROVE  /\ cycleOf'[v] = IF v \in ToSet(left) /\ cycleOf[v] <= cycleOf[src] + Crossings("r")[v]
                               THEN cycleOf[src] + Crossings("r")[v] ELSE cycleOf[v]
              /\ cycleOf'[v] \in Nat
  <2>1. CASE v \in ToSet(left)
    <3>1. cycleOf'[v] = Max({cycleOf[v], cur}) /\ cycleOf[v] \in Nat
      BY <1>5, <1>7, <1>16, <2>1
    <3>2. Max({cycleOf[v], cur}) = IF cycleOf[v] >= cur THEN cycleOf[v] ELSE cur
      BY <1>17, <3>1, MaxOfTwo
    <3>3. cur = cycleOf[src] + Crossings("r")[v]
      BY <1>18, <2>1
    <3> QED
      BY <1>17, <2>1, <3>1, <3>2, <3>3
  <2>2. CASE v \notin ToSet(left)
    <3>1. cycleOf'[v] = cycleOf[v] /\ cycleOf[v] \in Nat
      BY <1>5, <1>7, <1>16, <2>2
    <3> QED
      BY <2>2, <3>1
  <2> QED
    BY <2>1, <2>2
<1>20. /\ cycleOf' \in [AllOf(g) -> Nat] /\ cycleOf' \in [AllOf(g) -> Int]
  <2>1. DOMAIN cycleOf = AllOf(g)
    BY <1>7
  <2>2. cycleOf' = [v \in AllOf(g) |-> cycleOf'[v]]
    BY <1>5, <2>1
  <2> QED
    BY <1>19, <2>2
<1>21. /\ stacks' \in [AllOf(g) -> Seq(AllOf(g))] /\ stacks'[src] = <<>>
       /\ \A v \in AllOf(g) : v # src => stacks'[v] = full[v]
  <2>1. <<>> \in Seq(AllOf(g))
    OBVIOUS
  <2> QED
    BY <1>5, <1>12, <1>13, <2>1
<1>22. /\ asap' \in [AllOf(g) -> Nat] /\ asap'[src] = cycleOf[src]
       /\ \A v \in AllOf(g) : v # src => asap'[v] = asap[v]
  BY <1>5, <1>7, <1>12, <1>17
<1>23. walk' \in Seq(AllOf(g)) /\ deep_cycle' \in Nat \ {0}
  <2>1. Front(walk) \in Seq(AllOf(g))
    BY <1>5, <1>7, LastAndFront
  <2>2. Front(walk) \o left \in Seq(AllOf(g))
    BY <1>14, <2>1, ToSetConcat
  <2>3. cur # cycleOf[src] => cur = cycleOf[src] + 1
    BY <1>4
  <2>4. deep_cycle' \in Nat \ {0}
    <3>1. CASE cur # cycleOf[src]
      <4>1. deep_cycle' = cycleOf[src] + 1
        BY <1>5, <2>3, <3>1
      <4> QED
        BY <1>17, <4>1
    <3>2. CASE cur = cycleOf[src]
      BY <1>5, <1>7, <3>2
    <3> QED
      BY <3>1, <3>2
  <2> QED
    BY <1>5, <2>2, <2>4
<1>24. RoundTypes(g)'
  BY <1>5, <1>7, <1>20, <1>21, <1>22, <1>23 DEF RoundTypes
<1>25. WalkStep(Used, Used, newNxt, ToSet(endList), Crossings("r"), src, left,
                walk, stacks, cycleOf, asap, walk', stacks', cycleOf', asap')
  <2>1. ToSet(<<>>) = {}
    BY DEF ToSet
  <2>2. \A v \in Used :
          /\ v # src => ToSet(stacks'[v]) = ToSet(IF src \in ToSet(endList) THEN newNxt[v] ELSE stacks[v])
          /\ asap'[v] = IF v = src THEN cycleOf[src] ELSE asap[v]
    BY <1>11, <1>13, <1>21, <1>22
  <2>3. \A v \in Used :
          cycleOf'[v] = IF v \in ToSet(left) /\ cycleOf[v] <= cycleOf[src] + Crossings("r")[v]
                        THEN cycleOf[src] + Crossings("r")[v] ELSE cycleOf[v]
    BY <1>11, <1>19
  <2> QED
    BY <1>5, <1>14, <1>15, <1>21, <1>22, <2>1, <2>2, <2>3 DEF WalkStep
<1>26. Walking(Used, Used, R, newNxt, Crossings("r"), Starts, EarliestCycle(Starts),
               walk', stacks', cycleOf', asap')
  BY <1>1, <1>5, <1>8, <1>9, <1>10, <1>25, AllClosed, WalkGoesOn
<1>27. /\ Used' = Used /\ Starts' = Starts /\ Crossings("r")' = Crossings("r")
       /\ EarliestCycle(Starts)' = EarliestCycle(Starts)
  BY <1>5 DEF Used, Consumed, Starts, StartCycle, Delayed, ALU, Crossings, EarliestCycle
<1>28. AsapWalk(R)'
  BY <1>5, <1>26, <1>27 DEF AsapWalk
<1>29. AsapKept' /\ AlapWalk(g, R)'
  BY <1>5 DEF AsapKept, AlapWalk
<1> QED
  BY <1>24, <1>28, <1>29 DEF RoundInv

(* The walk is over: the earliest cycles are found.                        *)
LEMMA AsapEnds ==
  ASSUME NEW g \in FrontGraphs, NEW R, NEW T, Ranked(g, R), SplitInv(g, R, T),
         RoundInv(g, R), flowStep = "ASAP", walk = <<>>
  PROVE  \A v \in Used : /\ asap[v] = EarliestCycle(Starts)[v]
                         /\ cycleOf[v] = EarliestCycle(Starts)[v]
<1>1. flowStep # "split"
  OBVIOUS
<1>2. Walking(Used, Used, R, newNxt, Crossings("r"), Starts, EarliestCycle(Starts),
              <<>>, stacks, cycleOf, asap)
  BY DEF RoundInv, AsapWalk
<1>3. WalkGraph(Used, R, newNxt, ToSet(beginList), ToSet(endList))
  BY <1>1, BothWalks
<1>4. LongestFrom(Used, newNxt, Crossings("r"), Starts, EarliestCycle(Starts))
  <2>1. Starts \in [AllOf(g) -> Nat]
    BY StartFacts DEF RoundInv
  <2> QED
    BY <1>1, <2>1, EarliestAreLongest
<1> QED
  <2>1. Closed(Used, Used, newNxt)
    BY AllClosed
  <2> QED
    BY <1>2, <1>3, <1>4, <2>1, WalkEnds

(* Counted from the end, the cycles fit into the length of the schedule.   *)
LEMMA LeftFits ==
  ASSUME NEW g \in FrontGraphs, NEW R, NEW T, Ranked(g, R), SplitInv(g, R, T),
         RoundTypes(g), flowStep # "split",
         \A v \in Used : asap[v] = EarliestCycle(Starts)[v]
  PROVE  \A v \in Used : /\ CyclesLeft(g)[v] \in Nat /\ Length(asap) \in Nat
                         /\ CyclesLeft(g)[v] <= Length(asap)
<1>1. Starts \in [AllOf(g) -> Nat] /\ \A v \in ToSet(beginList) : Starts[v] # 0
  BY StartFacts
<1> SUFFICES ASSUME NEW v \in Used
             PROVE  /\ CyclesLeft(g)[v] \in Nat /\ Length(asap) \in Nat
                    /\ CyclesLeft(g)[v] <= Length(asap)
  OBVIOUS
<1>2. PICK e \in Used : CyclesLeft(g)[v] <= EarliestCycle(Starts)[e]
  BY <1>1, CyclesFollow
<1>3. asap[e] = EarliestCycle(Starts)[e] /\ e \in AllOf(g)
  BY UsedFacts
<1>4. asap \in [AllOf(g) -> Nat]
  BY DEF RoundTypes
<1>5. Length(asap) \in Nat /\ asap[e] <= Length(asap) /\ asap[e] \in Nat
  BY <1>3, <1>4, LengthFacts
<1>6. CyclesLeft(g)[v] \in Nat
  BY LeftAreLongest DEF LongestFrom
<1> QED
  BY <1>2, <1>3, <1>5, <1>6

(* The walk back starts from the ends, counted from the last cycle.        *)
LEMMA AlapBegins ==
  ASSUME NEW g \in FrontGraphs, NEW R, NEW T, Ranked(g, R), SplitInv(g, R, T),
         RoundInv(g, R), run_force_direct_alg_ALAP
  PROVE  RoundInv(g, R)'
<1>1. /\ flowStep = "ASAP" /\ walk = <<>> /\ stacks' \in Doubled(newPre)
      /\ cycleOf' = [v \in DOMAIN cycleOf |-> IF Contains(endList, v) THEN deep_cycle ELSE 0]
      /\ walk' = endList /\ flowStep' = "ALAP"
      /\ UNCHANGED <<newPre, newNxt, beginList, endList, asap, alap, deep_cycle, cstep, force>>
  BY DEF run_force_direct_alg_ALAP, dfgVars
<1>2. flowStep # "split"
  BY <1>1
<1>3. RoundTypes(g) /\ newPre \in [AllOf(g) -> Seq(AllOf(g))] /\ endList \in Seq(DOMAIN g)
  BY DEF RoundInv, SplitInv, SplitTypes
<1>4. \A v \in Used : asap[v] = EarliestCycle(Starts)[v]
  BY <1>1, AsapEnds
<1>5. /\ Used \subseteq AllOf(g) /\ ToSet(endList) \subseteq Used
  BY <1>2, UsedFacts
<1>6. stacks' \in [AllOf(g) -> Seq(AllOf(g))] /\ \A v \in AllOf(g) : ToSet(stacks'[v]) = ToSet(newPre[v])
  BY <1>1, <1>3, DoubledFacts
<1>7. endList \in Seq(AllOf(g)) /\ endList \in Seq(Used)
  <2>1. \A i \in 1 .. Len(endList) : endList[i] \in Used
    BY <1>3, <1>5, ToSetFacts
  <2>2. endList \in Seq(Used)
    BY <1>3, <2>1
  <2> QED
    BY <1>5, <2>2
<1>8. /\ cycleOf' = [v \in AllOf(g) |-> IF v \in ToSet(endList) THEN deep_cycle ELSE 0]
      /\ cycleOf' \in [AllOf(g) -> Int]
  <2>1. DOMAIN cycleOf = AllOf(g) /\ deep_cycle \in Int
    BY <1>3 DEF RoundTypes
  <2>2. \A v : Contains(endList, v) <=> v \in ToSet(endList)
    BY <1>3, ToSetFacts
  <2> QED
    BY <1>1, <2>1, <2>2
<1>9. RoundTypes(g)'
  BY <1>1, <1>3, <1>6, <1>7, <1>8 DEF RoundTypes
<1>10. /\ Used' = Used /\ Starts' = Starts /\ Crossings("w")' = Crossings("w")
       /\ EarliestCycle(Starts)' = EarliestCycle(Starts)
       /\ LastCycle(g)' = LastCycle(g) /\ CyclesLeft(g)' = CyclesLeft(g) /\ Fit(g)' = Fit(g)
  BY <1>1 DEF Used, Consumed, Starts, StartCycle, Delayed, ALU, Crossings, EarliestCycle,
              LastCycle, CyclesLeft, CyclesAfter, Fit
<1>11. AsapKept'
  BY <1>1, <1>4, <1>10 DEF AsapKept
<1>12. /\ \A v \in Fit(g) : cycleOf'[v] \in 0 .. deep_cycle
       /\ Walking(Fit(g), Used, Down(g, R), newPre, Crossings("w"), LastCycle(g), CyclesLeft(g),
                  walk', stacks', FromEnd(cycleOf)', FromEnd(alap)')
  <2>1. deep_cycle \in Nat \ {0} /\ Closed(Fit(g), Used, newPre) /\ \A v \in Fit(g) : v \in Used
    BY <1>2, <1>3, FitClosed DEF RoundTypes
  <2>2. WalkGraph(Used, Down(g, R), newPre, ToSet(endList), ToSet(beginList))
    BY <1>2, BothWalks
  <2>3. LongestFrom(Used, newPre, Crossings("w"), LastCycle(g), CyclesLeft(g))
    BY <1>2, LeftAreLongest
  <2>4. \A v \in AllOf(g) : LastCycle(g)[v] = IF v \in ToSet(endList) THEN 1 ELSE 0
    BY DEF LastCycle
  <2>6. FromEnd(cycleOf)' = LastCycle(g)
    <3>1. FromEnd(cycleOf)' = [v \in AllOf(g) |-> IF cycleOf'[v] = 0 THEN 0 ELSE (deep_cycle + 1) - cycleOf'[v]]
      BY <1>1, <1>8 DEF FromEnd
    <3>2. ASSUME NEW v \in AllOf(g)
          PROVE  (IF cycleOf'[v] = 0 THEN 0 ELSE (deep_cycle + 1) - cycleOf'[v]) = LastCycle(g)[v]
      <4>1. cycleOf'[v] = IF v \in ToSet(endList) THEN deep_cycle ELSE 0
        BY <1>8
      <4> QED
        BY <2>1, <2>4, <4>1
    <3>3. LastCycle(g) = [v \in AllOf(g) |-> LastCycle(g)[v]]
      BY DEF LastCycle
    <3> QED
      BY <3>1, <3>2, <3>3
  <2>7. Walking(Fit(g), Used, Down(g, R), newPre, Crossings("w"), LastCycle(g), CyclesLeft(g),
                endList, stacks', LastCycle(g), FromEnd(alap)')
    <3>1. \A v \in ToSet(endList) : LastCycle(g)[v] # 0
      BY <1>5, <2>4
    <3>2. \A v \in Used : ToSet(stacks'[v]) = ToSet(newPre[v])
      BY <1>5, <1>6
    <3> QED
      BY <1>7, <2>1, <2>2, <2>3, <3>1, <3>2, WalkBegins
  <2>8. \A v \in Fit(g) : cycleOf'[v] \in 0 .. deep_cycle
    <3> SUFFICES ASSUME NEW v \in Fit(g) PROVE cycleOf'[v] \in 0 .. deep_cycle
      OBVIOUS
    <3>1. cycleOf'[v] = deep_cycle \/ cycleOf'[v] = 0
      BY <1>5, <1>8, <2>1
    <3> QED
      BY <2>1, <3>1
  <2> QED
    BY <1>1, <2>6, <2>7, <2>8
<1>13. AlapWalk(g, R)'
  BY <1>1, <1>10, <1>12 DEF AlapWalk, Down
<1>14. AsapWalk(R)'
  BY <1>1 DEF AsapWalk
<1> QED
  BY <1>9, <1>11, <1>13, <1>14 DEF RoundInv

(* A step of the program is a step of the walk back.                       *)
LEMMA AlapGoesOn ==
  ASSUME NEW g \in FrontGraphs, NEW R, NEW T, Ranked(g, R), SplitInv(g, R, T),
         RoundInv(g, R), run_NewDFG_ALAP_cycle
  PROVE  RoundInv(g, R)'
<1>1. PICK src : src = Last(walk)
  OBVIOUS
<1>2. PICK full : full = IF Contains(beginList, src) THEN newPre ELSE stacks
  OBVIOUS
<1>3. PICK left : left = Reverse(full[src])
  OBVIOUS
<1>4. PICK cur : cur = IF \E k \in DOMAIN left : left[k][1] = "w"
                       THEN cycleOf[src] - 1 ELSE cycleOf[src]
  OBVIOUS
<1>5. /\ flowStep = "ALAP" /\ walk # <<>> /\ flowStep' = "ALAP"
      /\ alap' = [alap EXCEPT ![src] = cycleOf[src]]
      /\ cycleOf' = [v \in DOMAIN cycleOf |->
           IF Contains(left, v) THEN Earlier(cur, cycleOf[v]) ELSE cycleOf[v]]
      /\ stacks' = [full EXCEPT ![src] = <<>>]
      /\ walk' = Front(walk) \o left
      /\ UNCHANGED <<newPre, newNxt, beginList, endList, asap, deep_cycle, cstep, force>>
  BY <1>1, <1>2, <1>3, <1>4 DEF run_NewDFG_ALAP_cycle, dfgVars
<1>6. flowStep # "split"
  BY <1>5
<1>7. /\ newPre \in [AllOf(g) -> Seq(AllOf(g))] /\ beginList \in Seq(DOMAIN g)
      /\ walk \in Seq(AllOf(g)) /\ stacks \in [AllOf(g) -> Seq(AllOf(g))]
      /\ cycleOf \in [AllOf(g) -> Int] /\ deep_cycle \in Nat \ {0}
      /\ asap \in [AllOf(g) -> Nat] /\ alap \in [AllOf(g) -> Int]
      /\ \A v \in DOMAIN cstep : v \in OpsOf(g) /\ cstep[v].begin \in Nat
  BY DEF RoundInv, RoundTypes, SplitInv, SplitTypes
<1>8. src \in AllOf(g) /\ Front(walk) \in Seq(AllOf(g))
  BY <1>1, <1>5, <1>7, LastAndFront
<1>9. /\ Contains(beginList, src) <=> src \in ToSet(beginList)
      /\ full \in [AllOf(g) -> Seq(AllOf(g))]
      /\ \A v \in AllOf(g) : full[v] = IF src \in ToSet(beginList) THEN newPre[v] ELSE stacks[v]
  BY <1>2, <1>7, ToSetFacts
<1>10. /\ left \in Seq(AllOf(g))
       /\ ToSet(left) = ToSet(IF src \in ToSet(beginList) THEN newPre[src] ELSE stacks[src])
  BY <1>3, <1>8, <1>9, ToSetReverse
<1>11. \A v \in AllOf(g) : Contains(left, v) <=> v \in ToSet(left)
  BY <1>10, ToSetFacts
<1>12. cycleOf[src] \in Int /\ cur \in Int
  BY <1>4, <1>7, <1>8
<1>13. /\ DOMAIN cycleOf' = AllOf(g)
       /\ \A v \in AllOf(g) :
            /\ cycleOf'[v] = IF v \in ToSet(left) /\ (cur < cycleOf[v] \/ cycleOf[v] = 0)
                             THEN cur ELSE cycleOf[v]
            /\ cycleOf[v] \in Int
  BY <1>5, <1>7, <1>11 DEF Earlier
<1>14. cycleOf' \in [AllOf(g) -> Int]
  <2>1. cycleOf' = [v \in AllOf(g) |-> cycleOf'[v]]
    BY <1>5, <1>7
  <2>2. \A v \in AllOf(g) : cycleOf'[v] \in Int
    BY <1>12, <1>13
  <2> QED
    BY <2>1, <2>2
<1>15. /\ stacks' \in [AllOf(g) -> Seq(AllOf(g))] /\ stacks'[src] = <<>>
       /\ \A v \in AllOf(g) : v # src => stacks'[v] = full[v]
  <2>1. <<>> \in Seq(AllOf(g))
    OBVIOUS
  <2> QED
    BY <1>5, <1>8, <1>9, <2>1
<1>16. /\ alap' \in [AllOf(g) -> Int] /\ alap'[src] = cycleOf[src]
       /\ \A v \in AllOf(g) : v # src => alap'[v] = alap[v]
  BY <1>5, <1>7, <1>8, <1>12
<1>17. walk' \in Seq(AllOf(g))
  BY <1>5, <1>8, <1>10, ToSetConcat
<1>18. RoundTypes(g)'
  BY <1>5, <1>7, <1>14, <1>15, <1>16, <1>17 DEF RoundTypes
<1>19. /\ Used' = Used /\ Starts' = Starts /\ Crossings("w")' = Crossings("w")
       /\ EarliestCycle(Starts)' = EarliestCycle(Starts)
       /\ LastCycle(g)' = LastCycle(g) /\ CyclesLeft(g)' = CyclesLeft(g) /\ Fit(g)' = Fit(g)
  BY <1>5 DEF Used, Consumed, Starts, StartCycle, Delayed, ALU, Crossings, EarliestCycle,
              LastCycle, CyclesLeft, CyclesAfter, Fit
<1>20. AsapKept'
  BY <1>5, <1>19 DEF AsapKept, RoundInv
<1>21. /\ \A v \in Fit(g) : cycleOf'[v] \in 0 .. deep_cycle
       /\ Walking(Fit(g), Used, Down(g, R), newPre, Crossings("w"), LastCycle(g), CyclesLeft(g),
                  walk', stacks', FromEnd(cycleOf)', FromEnd(alap)')
  <2>1. /\ \A v \in Fit(g) : cycleOf[v] \in 0 .. deep_cycle
        /\ Walking(Fit(g), Used, Down(g, R), newPre, Crossings("w"), LastCycle(g), CyclesLeft(g),
                   walk, stacks, FromEnd(cycleOf), FromEnd(alap))
    BY <1>5 DEF RoundInv, AlapWalk
  <2>2. WalkGraph(Used, Down(g, R), newPre, ToSet(endList), ToSet(beginList))
    BY <1>6, BothWalks
  <2>3. LongestFrom(Used, newPre, Crossings("w"), LastCycle(g), CyclesLeft(g))
    BY <1>6, LeftAreLongest
  <2>4. /\ deep_cycle \in Nat /\ Closed(Fit(g), Used, newPre)
        /\ \A v \in Fit(g) : v \in Used /\ CyclesLeft(g)[v] \in Nat /\ CyclesLeft(g)[v] <= deep_cycle
    BY <1>6, <1>7, FitClosed
  <2>5. /\ src \in Used /\ (src \in Fit(g) => FromEnd(cycleOf)[src] # 0)
        /\ ToSet(IF src \in ToSet(beginList) THEN newPre[src] ELSE stacks[src]) = ToSet(newPre[src])
    BY <1>1, <1>5, <2>1, <2>2, WalkTakes
  <2>6. Used \subseteq AllOf(g)
    BY <1>6, UsedFacts
  <2>7. left \in Seq(Used) /\ ToSet(left) = ToSet(newPre[src])
    <3>1. ToSet(left) = ToSet(newPre[src])
      BY <1>10, <2>5
    <3>2. ToSet(left) \subseteq Used
      BY <1>6, <1>8, <3>1, UsedFacts
    <3>3. \A i \in 1 .. Len(left) : left[i] \in Used
      BY <1>10, <3>2, ToSetFacts
    <3> QED
      BY <1>10, <3>1, <3>3
  <2>8. \A v \in AllOf(g) :
          /\ FromEnd(cycleOf)[v] = IF cycleOf[v] = 0 THEN 0 ELSE (deep_cycle + 1) - cycleOf[v]
          /\ FromEnd(alap)[v] = IF alap[v] = 0 THEN 0 ELSE (deep_cycle + 1) - alap[v]
          /\ FromEnd(cycleOf)'[v] = IF cycleOf'[v] = 0 THEN 0 ELSE (deep_cycle + 1) - cycleOf'[v]
          /\ FromEnd(alap)'[v] = IF alap'[v] = 0 THEN 0 ELSE (deep_cycle + 1) - alap'[v]
    BY <1>5, <1>7, <1>13, <1>16 DEF FromEnd
  <2>9. ASSUME src \in Fit(g)
        PROVE  /\ cycleOf[src] \in 1 .. deep_cycle
               /\ FromEnd(cycleOf)[src] = (deep_cycle + 1) - cycleOf[src]
    <3>1. cycleOf[src] # 0
      BY <1>8, <2>5, <2>8, <2>9
    <3>2. cycleOf[src] \in 0 .. deep_cycle /\ deep_cycle \in Nat
      BY <2>1, <2>4, <2>9
    <3> QED
      BY <1>8, <2>8, <3>1, <3>2
  <2>10. ASSUME NEW v \in ToSet(left), v \in Fit(g)
         PROVE  /\ Crossings("w")[v] \in Nat
                /\ cur = cycleOf[src] - Crossings("w")[v]
                /\ cur \in 1 .. deep_cycle /\ cycleOf[src] \in 1 .. deep_cycle
                /\ FromEnd(cycleOf)[src] + Crossings("w")[v] = (deep_cycle + 1) - cur
    <3>1. v \in Used /\ v \in AllOf(g) /\ src \in Fit(g)
      BY <2>4, <2>5, <2>6, <2>7, <2>10 DEF Closed
    <3>2. \A n \in ToSet(left) : n[1] = "w" <=> src[1] = "r"
      <4> SUFFICES ASSUME NEW n \in ToSet(left) PROVE n[1] = "w" <=> src[1] = "r"
        OBVIOUS
      <4>1. n \in AllOf(g) /\ src \in ToSet(newNxt[n])
        BY <1>8, <2>7, WaysRanked
      <4> QED
        BY <4>1, RegisterSides
    <3>3. (\E k \in DOMAIN left : left[k][1] = "w") <=> v[1] = "w"
      BY <3>2 DEF ToSet
    <3>4. Crossings("w")[v] = IF v[1] = "w" THEN 1 ELSE 0
      BY <3>1, CrossingFacts
    <3>5. cur = cycleOf[src] - Crossings("w")[v] /\ Crossings("w")[v] \in Nat
      BY <1>4, <1>12, <3>3, <3>4
    <3>6. FromEnd(cycleOf)[src] <= CyclesLeft(g)[src]
      BY <2>1, <3>1 DEF Walking
    <3>7. CyclesLeft(g)[src] + Crossings("w")[v] <= CyclesLeft(g)[v]
      BY <2>3, <2>5, <2>7 DEF LongestFrom
    <3>8. /\ CyclesLeft(g)[src] \in Nat /\ CyclesLeft(g)[v] \in Nat
          /\ CyclesLeft(g)[v] <= deep_cycle
      BY <2>4, <2>10, <3>1
    <3> QED
      BY <2>4, <2>9, <3>1, <3>5, <3>6, <3>7, <3>8
  <2>11. ASSUME NEW v \in Fit(g)
         PROVE  /\ cycleOf'[v] \in 0 .. deep_cycle
                /\ FromEnd(cycleOf)'[v] =
                     IF v \in ToSet(left)
                        /\ FromEnd(cycleOf)[v] <= FromEnd(cycleOf)[src] + Crossings("w")[v]
                     THEN FromEnd(cycleOf)[src] + Crossings("w")[v] ELSE FromEnd(cycleOf)[v]
    <3>1. v \in AllOf(g) /\ cycleOf[v] \in 0 .. deep_cycle
      BY <2>1, <2>4, <2>6
    <3>2. CASE v \in ToSet(left)
      <4>1. /\ cur \in 1 .. deep_cycle
            /\ FromEnd(cycleOf)[src] + Crossings("w")[v] = (deep_cycle + 1) - cur
        BY <2>10, <3>2
      <4>2. cycleOf'[v] = IF cur < cycleOf[v] \/ cycleOf[v] = 0 THEN cur ELSE cycleOf[v]
        BY <1>13, <3>1, <3>2
      <4>3. /\ FromEnd(cycleOf)[v] = IF cycleOf[v] = 0 THEN 0 ELSE (deep_cycle + 1) - cycleOf[v]
            /\ FromEnd(cycleOf)'[v] = IF cycleOf'[v] = 0 THEN 0 ELSE (deep_cycle + 1) - cycleOf'[v]
        BY <2>8, <3>1
      <4>4. PICK x : x = FromEnd(cycleOf)[src] + Crossings("w")[v]
        OBVIOUS
      <4>5. PICK y : y = FromEnd(cycleOf)'[v]
        OBVIOUS
      <4>6. PICK z : z = FromEnd(cycleOf)[v]
        OBVIOUS
      <4>7. cycleOf'[v] \in 0 .. deep_cycle /\ y = IF z <= x THEN x ELSE z
        BY <2>4, <3>1, <4>1, <4>2, <4>3, <4>4, <4>5, <4>6
      <4> QED
        BY <3>2, <4>4, <4>5, <4>6, <4>7
    <3>3. CASE v \notin ToSet(left)
      <4>1. cycleOf'[v] = cycleOf[v]
        BY <1>13, <3>1, <3>3
      <4>2. FromEnd(cycleOf)'[v] = FromEnd(cycleOf)[v]
        BY <2>8, <3>1, <4>1
      <4> QED
        BY <3>1, <3>3, <4>1, <4>2
    <3> QED
      BY <3>2, <3>3
  <2>12. WalkStep(Fit(g), Used, newPre, ToSet(beginList), Crossings("w"), src, left,
                  walk, stacks, FromEnd(cycleOf), FromEnd(alap),
                  walk', stacks', FromEnd(cycleOf)', FromEnd(alap)')
    <3>1. ToSet(<<>>) = {}
      BY DEF ToSet
    <3>2. ASSUME NEW v \in Used, v # src
          PROVE  ToSet(stacks'[v]) = ToSet(IF src \in ToSet(beginList) THEN newPre[v] ELSE stacks[v])
      BY <1>9, <1>15, <2>6, <3>2
    <3>3. ASSUME NEW v \in Fit(g)
          PROVE  FromEnd(alap)'[v] = IF v = src THEN FromEnd(cycleOf)[src] ELSE FromEnd(alap)[v]
      <4>1. v \in AllOf(g)
        BY <2>4, <2>6
      <4>2. alap'[v] = IF v = src THEN cycleOf[src] ELSE alap[v]
        BY <1>16, <4>1
      <4> QED
        BY <1>8, <2>8, <4>1, <4>2
    <3> QED
      BY <1>5, <1>10, <1>15, <2>7, <2>11, <3>1, <3>2, <3>3 DEF WalkStep
  <2>13. Walking(Fit(g), Used, Down(g, R), newPre, Crossings("w"), LastCycle(g), CyclesLeft(g),
                 walk', stacks', FromEnd(cycleOf)', FromEnd(alap)')
    BY <1>1, <1>5, <2>1, <2>2, <2>3, <2>4, <2>12, WalkGoesOn
  <2> QED
    BY <2>11, <2>13
<1>22. AlapWalk(g, R)'
  BY <1>5, <1>19, <1>21 DEF AlapWalk, Down
<1>23. AsapWalk(R)'
  BY <1>5 DEF AsapWalk
<1> QED
  BY <1>18, <1>20, <1>22, <1>23 DEF RoundInv

(* The walk back is over: the latest cycles are found, counted from where  *)
(* it started.                                                             *)
LEMMA AlapEnds ==
  ASSUME NEW g \in FrontGraphs, NEW R, NEW T, Ranked(g, R), SplitInv(g, R, T),
         RoundInv(g, R), flowStep = "ALAP", walk = <<>>,
         NEW v \in Used, CyclesAfter[v] < deep_cycle
  PROVE  alap[v] = deep_cycle - CyclesAfter[v]
<1>1. Walking(Fit(g), Used, Down(g, R), newPre, Crossings("w"), LastCycle(g), CyclesLeft(g),
              <<>>, stacks, FromEnd(cycleOf), FromEnd(alap))
  BY DEF RoundInv, AlapWalk
<1>2. flowStep # "split"
  OBVIOUS
<1>3. WalkGraph(Used, Down(g, R), newPre, ToSet(endList), ToSet(beginList))
  BY <1>2, BothWalks
<1>4. LongestFrom(Used, newPre, Crossings("w"), LastCycle(g), CyclesLeft(g))
  BY <1>2, LeftAreLongest
<1>5. v \in AllOf(g) /\ alap \in [AllOf(g) -> Int] /\ deep_cycle \in Nat
  BY <1>2, UsedFacts DEF RoundInv, RoundTypes
<1>6. PICK c \in Nat : c = CyclesAfter[v]
  BY <1>5, CyclesAfterFacts
<1>7. CyclesLeft(g)[v] = c + 1
  BY <1>5, <1>6 DEF CyclesLeft
<1>8. v \in Fit(g)
  BY <1>5, <1>6, <1>7 DEF Fit
<1>9. FromEnd(alap)[v] = c + 1
  <2>1. Closed(Fit(g), Used, newPre)
    BY <1>2, <1>5, FitClosed
  <2> QED
    BY <1>1, <1>3, <1>4, <1>7, <1>8, <2>1, WalkEnds
<1>10. FromEnd(alap)[v] = IF alap[v] = 0 THEN 0 ELSE (deep_cycle + 1) - alap[v]
  BY <1>5 DEF FromEnd
<1>11. PICK a \in Int : a = alap[v]
  BY <1>5
<1>12. (IF a = 0 THEN 0 ELSE (deep_cycle + 1) - a) = c + 1
  BY <1>9, <1>10, <1>11
<1>13. a = deep_cycle - c
  BY <1>5, <1>12
<1> QED
  BY <1>6, <1>11, <1>13

(* The read sides of the registers.                                        *)
Sides == {r \in Used : r[1] = "r" /\ r \notin ToSet(beginList)}

(* A walk that comes to a register leaves a deep_cycle that some vertex    *)
(* reaches, and every walk comes to all registers.                         *)
DeepKept ==
  /\ deep_cycle = 1 \/ (flowStep # "split" /\ Sides # {})
  /\ flowStep = "ASAP" =>
       \A r \in Sides :
         cycleOf[r] # 0 => \E e \in Used : deep_cycle <= EarliestCycle(Starts)[e]
  /\ flowStep = "ALAP" => deep_cycle <= Length(asap)

(* Operators end in some cycle, and only vertices that are used have one.  *)
(* When the walk back started from the length of the schedule, there is    *)
(* room behind each operator for what must follow, and no more.            *)
Margins(g) ==
  /\ \A v \in DOMAIN cstep : cstep[v].end \in Int
  /\ \A v \in AllOf(g) : asap[v] = 0 \/ (flowStep # "split" /\ v \in Used)
  /\ flowStep = "split" => DOMAIN cstep = {}
  /\ flowStep \in {"round", "scheduled"} /\ deep_cycle = Length(asap) =>
       \A v \in DOMAIN cstep : /\ cstep[v].begin <= cstep[v].end
                               /\ cstep[v].end + CyclesAfter[v] = Length(asap)

RoundSafe ==
  \E g \in FrontGraphs : \E R, T :
    Ranked(g, R) /\ SplitInv(g, R, T) /\ RoundInv(g, R) /\ DeepKept /\ Margins(g)

(* When a walk is over, deep_cycle is one of the cycles of the schedule.   *)
LEMMA DeepFits ==
  ASSUME NEW g \in FrontGraphs, NEW R, NEW T, Ranked(g, R), SplitInv(g, R, T),
         RoundInv(g, R), DeepKept, flowStep = "ASAP", walk = <<>>
  PROVE  deep_cycle <= Length(asap)
<1>1. flowStep # "split" /\ deep_cycle \in Nat \ {0} /\ asap \in [AllOf(g) -> Nat]
  BY DEF RoundInv, RoundTypes
<1>2. PICK E : E = EarliestCycle(Starts)
  OBVIOUS
<1>3. \A v \in Used : asap[v] = E[v] /\ cycleOf[v] = E[v] /\ E[v] # 0
  <2>1. Starts \in [AllOf(g) -> Nat] /\ \A v \in ToSet(beginList) : Starts[v] # 0
    BY StartFacts DEF RoundInv
  <2>2. \A v \in Used : E[v] # 0
    BY <1>1, <1>2, <2>1, EarliestPositive
  <2> QED
    BY <1>2, <2>2, AsapEnds
<1>4. \A e \in Used : e \in AllOf(g) /\ asap[e] \in Nat /\ Length(asap) \in Nat /\ asap[e] <= Length(asap)
  BY <1>1, UsedFacts, LengthFacts
<1>5. CASE deep_cycle = 1
  <2>1. PICK e \in DOMAIN g : TRUE
    BY FrontFacts
  <2>2. e \in Used
    BY <1>1, <2>1, UsedFacts
  <2> QED
    BY <1>3, <1>4, <1>5, <2>2
<1>6. CASE deep_cycle # 1
  <2>1. PICK r \in Sides : TRUE
    BY <1>6 DEF DeepKept
  <2>2. cycleOf[r] # 0
    BY <1>3, <2>1 DEF Sides
  <2>3. PICK e \in Used : deep_cycle <= E[e]
    BY <1>2, <2>1, <2>2 DEF DeepKept
  <2> QED
    BY <1>1, <1>3, <1>4, <2>3
<1> QED
  BY <1>5, <1>6

(* What holds of the rounds gives the earliest and the latest cycles.      *)
LEMMA RoundSafeExact ==
  RoundSafe => CyclesExact
<1> SUFFICES ASSUME NEW g \in FrontGraphs, NEW R, NEW T, Ranked(g, R), SplitInv(g, R, T),
                    RoundInv(g, R), DeepKept, walk = <<>>
             PROVE  /\ flowStep \in {"ASAP", "ALAP"} =>
                         /\ \A v \in Used : asap[v] = EarliestCycle(Starts)[v]
                         /\ deep_cycle \in 1 .. Length(asap)
                    /\ flowStep = "ALAP" =>
                         \A v \in Used :
                           CyclesAfter[v] < deep_cycle => alap[v] = deep_cycle - CyclesAfter[v]
  BY DEF RoundSafe, CyclesExact, Used
<1>1. flowStep \in {"ASAP", "ALAP"} => \A v \in Used : asap[v] = EarliestCycle(Starts)[v]
  BY AsapEnds DEF RoundInv, AsapKept
<1>2. flowStep \in {"ASAP", "ALAP"} => deep_cycle <= Length(asap)
  BY DeepFits DEF DeepKept
<1>3. deep_cycle \in Nat \ {0} /\ Length(asap) \in Nat
  <2>1. deep_cycle \in Nat \ {0} /\ asap \in [AllOf(g) -> Nat]
    BY DEF RoundInv, RoundTypes
  <2>2. PICK e \in DOMAIN g : TRUE
    BY FrontFacts
  <2>3. e \in AllOf(g)
    BY DEF AllOf
  <2> QED
    BY <2>1, <2>3, LengthFacts
<1>4. flowStep = "ALAP" =>
        \A v \in Used : CyclesAfter[v] < deep_cycle => alap[v] = deep_cycle - CyclesAfter[v]
  BY AlapEnds
<1>5. flowStep \in {"ASAP", "ALAP"} => deep_cycle \in 1 .. Length(asap)
  BY <1>2, <1>3
<1> QED
  BY <1>1, <1>4, <1>5

(* During the split and after the rounds the cycles stay as they are.      *)
LEMMA RoundsWait ==
  ASSUME NEW g, NEW R, RoundTypes(g), NEW R2,
         UNCHANGED <<walk, stacks, cycleOf, asap, alap, deep_cycle, cstep>>,
         flowStep' \notin {"ASAP", "ALAP"}
  PROVE  RoundInv(g, R2)'
<1>1. RoundTypes(g)'
  BY DEF RoundTypes
<1> QED
  BY <1>1 DEF RoundInv, AsapWalk, AsapKept, AlapWalk

(* Before the split there are no cycles.                                   *)
LEMMA RoundSafeBegins ==
  ForceInit => RoundSafe
<1> SUFFICES ASSUME ForceInit PROVE RoundSafe
  OBVIOUS
<1>1. PICK g \in FrontGraphs :
        /\ walk = <<>> /\ stacks = [v \in AllOf(g) |-> <<>>] /\ dfgPre = g
        /\ cycleOf = [v \in AllOf(g) |-> 0] /\ asap = cycleOf /\ alap = cycleOf
        /\ deep_cycle = 1 /\ cstep = <<>> /\ flowStep = "split"
  BY DEF ForceInit, AllOf
<1>2. PICK h \in FrontGraphs : \E R, T : Ranked(h, R) /\ SplitInv(h, R, T)
  BY SplitBegins
<1>3. PICK R, T : Ranked(h, R) /\ SplitInv(h, R, T)
  BY <1>2
<1>4. AllOf(g) = AllOf(h)
  <2>1. DOMAIN dfgPre = DOMAIN g /\ DOMAIN dfgPre = DOMAIN h
    BY <1>1, <1>3 DEF SplitInv, SplitTypes
  <2> QED
    BY <2>1 DEF AllOf, Registers
<1>5. RoundTypes(h)
  <2>1. DOMAIN cstep = {}
    BY <1>1
  <2>2. <<>> \in Seq(AllOf(g))
    OBVIOUS
  <2>3. stacks \in [AllOf(g) -> Seq(AllOf(g))]
    BY <1>1, <2>2
  <2> QED
    BY <1>1, <1>4, <2>1, <2>2, <2>3 DEF RoundTypes
<1>6. RoundInv(h, R)
  BY <1>1, <1>5 DEF RoundInv, AsapWalk, AsapKept, AlapWalk
<1>7. Margins(h) /\ DeepKept
  <2>1. DOMAIN cstep = {}
    BY <1>1
  <2> QED
    BY <1>1, <1>4, <2>1 DEF Margins, DeepKept
<1> QED
  BY <1>3, <1>6, <1>7 DEF RoundSafe

(* Only operators of the graph are scheduled.                              *)
LEMMA SchedulesOperators ==
  ASSUME NEW g \in FrontGraphs, NEW u \in AllOf(g), u[1] \in Operators
  PROVE  u \in OpsOf(g)
<1>1. u \in DOMAIN g
  BY RegisterFacts
<1> QED
  BY <1>1 DEF OpsOf

(* What the operators are given lies within the schedule.                  *)
LEMMA MarginsMade ==
  ASSUME NEW g \in FrontGraphs, NEW R, NEW T, Ranked(g, R), SplitInv(g, R, T),
         RoundInv(g, R), flowStep = "ALAP", walk = <<>>, deep_cycle = Length(asap),
         NEW v \in DOMAIN g
  PROVE  asap[v] <= alap[v] /\ alap[v] + CyclesAfter[v] = Length(asap)
<1>1. flowStep # "split" /\ RoundTypes(g)
  BY DEF RoundInv
<1>2. v \in Used /\ Used \subseteq AllOf(g)
  BY <1>1, UsedFacts
<1>3. PICK E : E = EarliestCycle(Starts)
  OBVIOUS
<1>4. \A u \in Used : asap[u] = E[u]
  BY <1>3 DEF RoundInv, AsapKept
<1>5. PICK A \in [AllOf(g) -> Nat] : A = CyclesAfter
  BY CyclesAfterFacts
<1>6. CyclesLeft(g)[v] = A[v] + 1 /\ CyclesLeft(g)[v] <= Length(asap) /\ Length(asap) \in Nat
  BY <1>1, <1>2, <1>3, <1>4, <1>5, LeftFits DEF CyclesLeft
<1>7. A[v] \in Nat /\ A[v] < deep_cycle
  BY <1>2, <1>5, <1>6
<1>8. alap[v] = Length(asap) - A[v]
  BY <1>2, <1>5, <1>7, AlapEnds
<1>9. PICK e \in Used : E[v] + A[v] <= E[e]
  BY <1>1, <1>2, <1>3, <1>5, StartFacts, WaysFit
<1>10. asap[e] <= Length(asap) /\ asap[e] \in Nat /\ asap[v] \in Nat
  BY <1>1, <1>2, LengthFacts DEF RoundTypes
<1>11. asap[v] + A[v] <= asap[e]
  BY <1>2, <1>4, <1>9
<1> QED
  BY <1>5, <1>6, <1>7, <1>8, <1>10, <1>11

(* A step gives a cycle only to what is on the list of a walk, and margins *)
(* to operators.                                                           *)
LEMMA MarginsKept ==
  ASSUME NEW g \in FrontGraphs, NEW R, NEW T, Ranked(g, R), SplitInv(g, R, T),
         RoundInv(g, R), Margins(g), [ForceNext]_forceVars
  PROVE  Margins(g)'
<1>1. asap \in [AllOf(g) -> Nat] /\ alap \in [AllOf(g) -> Int] /\ DOMAIN newPre = AllOf(g)
  BY WaysRanked DEF RoundInv, RoundTypes
<1>2. CASE SplitEnd \/ SplitEdge \/ SplitReturn
  <2>1. flowStep = "split"
    BY <1>2 DEF SplitEnd, SplitEdge, SplitReturn, SplitInv, SplitTypes
  <2>2. UNCHANGED <<asap, cstep>>
    BY <1>2 DEF SplitEnd, SplitEdge, SplitReturn
  <2> QED
    BY <2>1, <2>2 DEF Margins
<1>3. ASSUME UNCHANGED <<asap, cstep, newPre, newNxt, endList>>,
             flowStep # "split", flowStep' \in {"ASAP", "ALAP"}
      PROVE  Margins(g)'
  <2>1. Used' = Used
    BY <1>3 DEF Used, Consumed
  <2> QED
    BY <1>3, <2>1 DEF Margins
<1>4. CASE run_force_direct_alg_ASAP \/ run_force_direct_alg_ALAP \/ run_NewDFG_ALAP_cycle
  BY <1>3, <1>4 DEF run_force_direct_alg_ASAP, run_force_direct_alg_ALAP, run_NewDFG_ALAP_cycle,
                    dfgVars
<1>5. CASE run_NewDFG_ASAP_cycle
  <2>1. /\ flowStep = "ASAP" /\ walk # <<>> /\ UNCHANGED <<newPre, endList, cstep, flowStep>>
        /\ asap' = [asap EXCEPT ![Last(walk)] = cycleOf[Last(walk)]]
    BY <1>5 DEF run_NewDFG_ASAP_cycle, dfgVars
  <2>2. walk \in Seq(Used)
    BY <2>1 DEF RoundInv, AsapWalk, Walking
  <2>3. Last(walk) \in Used
    BY <2>1, <2>2, LastAndFront
  <2>4. Used' = Used
    BY <2>1 DEF Used, Consumed
  <2> QED
    BY <1>1, <2>1, <2>3, <2>4 DEF Margins
<1>6. CASE run_forece_directed_scheduling
  <2>1. /\ flowStep = "ALAP" /\ walk = <<>>
        /\ UNCHANGED <<newPre, newNxt, endList, asap, deep_cycle>>
        /\ flowStep' \in {"scheduled", "round"}
        /\ cstep' = [v \in {u \in DOMAIN newPre : u[1] \in Operators} |->
                       [begin |-> asap[v], end |-> alap[v]]]
    BY <1>6 DEF run_forece_directed_scheduling, dfgVars
  <2>2. \A v \in DOMAIN cstep' :
          /\ v \in AllOf(g) /\ v \in DOMAIN g
          /\ cstep'[v].begin = asap[v] /\ cstep'[v].end = alap[v] /\ alap[v] \in Int
    BY <1>1, <2>1, SchedulesOperators DEF OpsOf
  <2>3. Used' = Used /\ CyclesAfter' = CyclesAfter /\ Length(asap)' = Length(asap)
    BY <2>1 DEF Used, Consumed, CyclesAfter, Crossings, Length
  <2>4. ASSUME deep_cycle = Length(asap), NEW v \in DOMAIN cstep'
        PROVE  /\ cstep'[v].begin <= cstep'[v].end
               /\ cstep'[v].end + CyclesAfter'[v] = Length(asap)
    BY <2>1, <2>2, <2>3, <2>4, MarginsMade
  <2> QED
    BY <2>1, <2>2, <2>3, <2>4 DEF Margins
<1>7. CASE UNCHANGED forceVars
  <2>1. UNCHANGED <<asap, cstep, newPre, newNxt, endList, flowStep, deep_cycle>>
    BY <1>7 DEF forceVars, dfgVars
  <2>2. Used' = Used /\ CyclesAfter' = CyclesAfter /\ Length(asap)' = Length(asap)
    BY <2>1 DEF Used, Consumed, CyclesAfter, Crossings, Length
  <2> QED
    BY <2>1, <2>2 DEF Margins
<1> QED
  BY <1>2, <1>4, <1>5, <1>6, <1>7 DEF ForceNext

(* A step over a register sets deep_cycle to a cycle that its other side   *)
(* is given at least; other steps come to no register.                     *)
LEMMA DeepGoesOn ==
  ASSUME NEW g \in FrontGraphs, NEW R, NEW T, Ranked(g, R), SplitInv(g, R, T),
         RoundInv(g, R), RoundInv(g, R)', DeepKept, run_NewDFG_ASAP_cycle
  PROVE  DeepKept'
<1>1. PICK src : src = Last(walk)
  OBVIOUS
<1>2. PICK left : left = Reverse((IF Contains(endList, src) THEN newNxt ELSE stacks)[src])
  OBVIOUS
<1>3. PICK cur : cur = IF \E k \in DOMAIN left : left[k][1] = "r"
                       THEN cycleOf[src] + 1 ELSE cycleOf[src]
  OBVIOUS
<1>4. /\ flowStep = "ASAP" /\ walk # <<>> /\ flowStep' = "ASAP"
      /\ cycleOf' = [v \in DOMAIN cycleOf |->
           IF Contains(left, v) THEN Max({cycleOf[v], cur}) ELSE cycleOf[v]]
      /\ deep_cycle' = IF cur # cycleOf[src] THEN cur ELSE deep_cycle
      /\ UNCHANGED <<newPre, newNxt, beginList, endList, cstep, force>>
  BY <1>1, <1>2, <1>3 DEF run_NewDFG_ASAP_cycle, dfgVars
<1>5. flowStep # "split"
  BY <1>4
<1>6. /\ newNxt \in [AllOf(g) -> Seq(AllOf(g))] /\ stacks \in [AllOf(g) -> Seq(AllOf(g))]
      /\ cycleOf \in [AllOf(g) -> Nat] /\ endList \in Seq(DOMAIN g)
  BY <1>4 DEF RoundInv, RoundTypes, SplitInv, SplitTypes
<1>7. PICK E : E = EarliestCycle(Starts)
  OBVIOUS
<1>8. /\ Used' = Used /\ Sides' = Sides /\ EarliestCycle(Starts)' = E
  BY <1>4, <1>7 DEF Used, Sides, Consumed, Starts, StartCycle, Delayed, ALU, Crossings, EarliestCycle
<1>9. Walking(Used, Used, R, newNxt, Crossings("r"), Starts, E, walk, stacks, cycleOf, asap)
  BY <1>4, <1>7 DEF RoundInv, AsapWalk
<1>10. /\ src \in Used /\ src \in AllOf(g)
       /\ ToSet(IF src \in ToSet(endList) THEN newNxt[src] ELSE stacks[src]) = ToSet(newNxt[src])
  <2>1. WalkGraph(Used, R, newNxt, ToSet(beginList), ToSet(endList))
    BY <1>5, BothWalks
  <2>2. Used \subseteq AllOf(g)
    BY <1>5, UsedFacts
  <2> QED
    BY <1>1, <1>4, <1>9, <2>1, <2>2, WalkTakes
<1>11. left \in Seq(AllOf(g)) /\ ToSet(left) = ToSet(newNxt[src])
  <2>1. Contains(endList, src) <=> src \in ToSet(endList)
    BY <1>6, ToSetFacts
  <2>2. PICK s \in Seq(AllOf(g)) : s = (IF src \in ToSet(endList) THEN newNxt ELSE stacks)[src]
    BY <1>6, <1>10
  <2>3. left = Reverse(s) /\ ToSet(s) = ToSet(newNxt[src])
    BY <1>2, <1>10, <2>1, <2>2
  <2> QED
    BY <2>3, ToSetReverse
<1>12. \A v \in Used : cycleOf'[v] \in Nat /\ cycleOf'[v] <= E[v]
  <2>1. Walking(Used, Used, R, newNxt, Crossings("r"), Starts, EarliestCycle(Starts),
                walk, stacks, cycleOf, asap)'
    BY <1>4 DEF RoundInv, AsapWalk
  <2> QED
    BY <1>8, <2>1 DEF Walking
<1>13. CASE \E k \in DOMAIN left : left[k][1] = "r"
  <2>1. PICK n \in ToSet(left) : n[1] = "r"
    BY <1>13 DEF ToSet
  <2>2. n \in AllOf(g) /\ n \in Used /\ src \in ToSet(newPre[n])
    BY <1>5, <1>10, <1>11, <2>1, UsedFacts, WaysRanked
  <2>3. n \in Sides
    BY <1>5, <2>1, <2>2, UsedFacts DEF Sides
  <2>4. cur = cycleOf[src] + 1 /\ cycleOf[src] \in Nat /\ cycleOf[n] \in Nat
    BY <1>3, <1>6, <1>10, <1>13, <2>2
  <2>5. deep_cycle' = cur
    BY <1>4, <2>4
  <2>6. cycleOf'[n] = Max({cycleOf[n], cur})
    <3>1. Contains(left, n)
      BY <1>11, <2>1, ToSetFacts
    <3> QED
      BY <1>4, <1>6, <2>2, <3>1
  <2>7. cur <= cycleOf'[n]
    <3>1. cur \in Nat
      BY <2>4
    <3>2. Max({cycleOf[n], cur}) = IF cycleOf[n] >= cur THEN cycleOf[n] ELSE cur
      BY <2>4, <3>1, MaxOfTwo
    <3> QED
      BY <2>4, <2>6, <3>1, <3>2
  <2>8. deep_cycle' <= E[n]
    <3>1. E[n] \in Nat
      <4>1. Starts \in [AllOf(g) -> Nat]
        BY StartFacts DEF RoundInv
      <4> QED
        BY <1>7, <2>2, <4>1, EarliestFacts
    <3> QED
      BY <1>12, <2>2, <2>4, <2>5, <2>7, <3>1
  <2> QED
    BY <1>4, <1>8, <2>2, <2>3, <2>8 DEF DeepKept
<1>14. CASE ~ \E k \in DOMAIN left : left[k][1] = "r"
  <2>1. deep_cycle' = deep_cycle
    BY <1>3, <1>4, <1>14
  <2>2. ASSUME NEW r \in Sides
        PROVE  cycleOf'[r] = cycleOf[r]
    <3>1. r[1] = "r" /\ r \in AllOf(g)
      BY <1>5, UsedFacts DEF Sides
    <3>2. r \notin ToSet(left)
      BY <1>14, <3>1 DEF ToSet
    <3>3. ~ Contains(left, r)
      BY <1>11, <3>2, ToSetFacts
    <3> QED
      BY <1>4, <1>6, <3>1, <3>3
  <2> QED
    BY <1>4, <1>7, <1>8, <2>1, <2>2 DEF DeepKept
<1> QED
  BY <1>13, <1>14

(* The other steps leave deep_cycle alone.                                 *)
LEMMA DeepKeptNext ==
  ASSUME NEW g \in FrontGraphs, NEW R, NEW T, Ranked(g, R), SplitInv(g, R, T),
         RoundInv(g, R), RoundInv(g, R)', DeepKept, [ForceNext]_forceVars
  PROVE  DeepKept'
<1>1. CASE SplitEnd \/ SplitEdge \/ SplitReturn
  <2>1. flowStep = "split" /\ flowStep' \in {"split", "round"}
    <3>1. flowStep = "split"
      BY <1>1 DEF SplitEnd, SplitEdge, SplitReturn, SplitInv, SplitTypes
    <3> QED
      BY <1>1, <3>1 DEF SplitEnd, SplitEdge, SplitReturn
  <2>2. deep_cycle' = deep_cycle
    BY <1>1 DEF SplitEnd, SplitEdge, SplitReturn
  <2> QED
    BY <2>1, <2>2 DEF DeepKept
<1>2. ASSUME UNCHANGED <<newPre, beginList, endList, deep_cycle>>
      PROVE  Used' = Used /\ Sides' = Sides
  BY <1>2 DEF Used, Sides, Consumed
<1>3. CASE run_force_direct_alg_ASAP
  <2>1. /\ flowStep = "round" /\ flowStep' = "ASAP"
        /\ UNCHANGED <<newPre, beginList, endList, deep_cycle>>
        /\ cycleOf' = [v \in DOMAIN cycleOf |-> StartCycle(v)]
    BY <1>3 DEF run_force_direct_alg_ASAP, dfgVars
  <2>2. ASSUME NEW r \in Sides
        PROVE  cycleOf'[r] = 0
    <3>1. r[1] = "r" /\ r \notin ToSet(beginList) /\ r \in AllOf(g)
      BY <2>1, UsedFacts DEF Sides
    <3>2. r \notin Delayed
      BY <3>1, RegisterFacts DEF Delayed, ALU, RoundInv, RoundTypes, OpsOf
    <3>3. ~ Contains(beginList, r)
      BY <3>1, ToSetFacts DEF SplitInv, SplitTypes
    <3>4. StartCycle(r) = 0
      BY <3>2, <3>3 DEF StartCycle
    <3>5. DOMAIN cycleOf = AllOf(g)
      BY DEF RoundInv, RoundTypes
    <3> QED
      BY <2>1, <3>1, <3>4, <3>5
  <2> QED
    BY <1>2, <2>1, <2>2 DEF DeepKept
<1>4. CASE run_NewDFG_ASAP_cycle
  BY <1>4, DeepGoesOn
<1>5. CASE run_force_direct_alg_ALAP
  <2>1. /\ flowStep = "ASAP" /\ walk = <<>> /\ flowStep' = "ALAP"
        /\ UNCHANGED <<newPre, beginList, endList, deep_cycle, asap>>
    BY <1>5 DEF run_force_direct_alg_ALAP, dfgVars
  <2>2. deep_cycle <= Length(asap)
    BY <2>1, DeepFits
  <2> QED
    BY <1>2, <2>1, <2>2 DEF DeepKept, Length
<1>6. CASE run_NewDFG_ALAP_cycle
  <2>1. /\ flowStep = "ALAP" /\ flowStep' = "ALAP"
        /\ UNCHANGED <<newPre, beginList, endList, deep_cycle, asap>>
    BY <1>6 DEF run_NewDFG_ALAP_cycle, dfgVars
  <2> QED
    BY <1>2, <2>1 DEF DeepKept, Length
<1>7. CASE run_forece_directed_scheduling
  <2>1. /\ flowStep = "ALAP" /\ flowStep' \in {"scheduled", "round"}
        /\ UNCHANGED <<newPre, beginList, endList, deep_cycle>>
    BY <1>7 DEF run_forece_directed_scheduling, dfgVars
  <2> QED
    BY <1>2, <2>1 DEF DeepKept
<1>8. CASE UNCHANGED forceVars
  <2>1. UNCHANGED <<newPre, beginList, endList, deep_cycle, asap, cycleOf, cstep, force, flowStep>>
    BY <1>8 DEF forceVars, dfgVars, walkVars
  <2>2. EarliestCycle(Starts)' = EarliestCycle(Starts)
    BY <2>1 DEF Starts, StartCycle, Delayed, ALU, Crossings, EarliestCycle
  <2> QED
    BY <1>2, <2>1, <2>2 DEF DeepKept, Length
<1> QED
  BY <1>1, <1>3, <1>4, <1>5, <1>6, <1>7, <1>8 DEF ForceNext

(* Every step keeps what holds of the rounds.                              *)
LEMMA RoundSafeNext ==
  ASSUME RoundSafe, [ForceNext]_forceVars
  PROVE  RoundSafe'
<1>1. PICK g \in FrontGraphs :
        \E R, T : Ranked(g, R) /\ SplitInv(g, R, T) /\ RoundInv(g, R) /\ DeepKept /\ Margins(g)
  BY DEF RoundSafe
<1>2. PICK R, T : Ranked(g, R) /\ SplitInv(g, R, T) /\ RoundInv(g, R) /\ DeepKept /\ Margins(g)
  BY <1>1
<1>3. ASSUME NEW R2, NEW T2, Ranked(g, R2), SplitInv(g, R2, T2)', RoundInv(g, R2)', DeepKept'
      PROVE  RoundSafe'
  <2>1. Margins(g)'
    BY <1>2, MarginsKept
  <2> QED
    BY <1>3, <2>1 DEF RoundSafe
<1>4. RoundTypes(g)
  BY <1>2 DEF RoundInv
<1>5. CASE SplitEnd \/ SplitEdge \/ SplitReturn
  <2>1. \E R2, T2 : Ranked(g, R2) /\ SplitInv(g, R2, T2)'
    BY <1>2, <1>5, SplitNext
  <2>2. PICK R2, T2 : Ranked(g, R2) /\ SplitInv(g, R2, T2)'
    BY <2>1
  <2>3. UNCHANGED <<walk, stacks, cycleOf, asap, alap, deep_cycle, cstep>>
    BY <1>5 DEF SplitEnd, SplitEdge, SplitReturn, walkVars
  <2>4. flowStep' \notin {"ASAP", "ALAP"}
    <3>1. splitting # <<>> => flowStep = "split"
      BY <1>2 DEF SplitInv, SplitTypes
    <3>2. flowStep' = flowStep \/ flowStep' = IF splitting' = <<>> /\ toSplit = <<>> THEN "round" ELSE "split"
      BY <1>5 DEF SplitEnd, SplitEdge, SplitReturn
    <3>3. flowStep = "split"
      BY <1>5, <3>1 DEF SplitEnd, SplitEdge, SplitReturn
    <3> QED
      BY <3>2, <3>3
  <2>5. RoundInv(g, R2)'
    BY <1>4, <2>3, <2>4, RoundsWait
  <2>6. DeepKept'
    <3>1. RoundInv(g, R)'
      BY <1>4, <2>3, <2>4, RoundsWait
    <3> QED
      BY <1>2, <3>1, DeepKeptNext
  <2> QED
    BY <1>3, <2>2, <2>5, <2>6
<1>6. RoundInv(g, R)' => DeepKept'
  BY <1>2, DeepKeptNext
<1>7. ASSUME UNCHANGED dfgVars, UNCHANGED <<beginList, endList>>,
             flowStep' # "split" => flowStep # "split"
      PROVE  SplitInv(g, R, T)'
  BY <1>2, <1>7, GraphKept
<1>8. CASE run_force_direct_alg_ASAP
  <2>1. SplitInv(g, R, T)'
    BY <1>7, <1>8 DEF run_force_direct_alg_ASAP
  <2>2. RoundInv(g, R)'
    BY <1>2, <1>8, AsapBegins
  <2> QED
    BY <1>2, <1>3, <1>6, <2>1, <2>2
<1>9. CASE run_NewDFG_ASAP_cycle
  <2>1. SplitInv(g, R, T)'
    BY <1>7, <1>9 DEF run_NewDFG_ASAP_cycle
  <2>2. RoundInv(g, R)'
    BY <1>2, <1>9, AsapGoesOn
  <2> QED
    BY <1>2, <1>3, <1>6, <2>1, <2>2
<1>10. CASE run_force_direct_alg_ALAP
  <2>1. SplitInv(g, R, T)'
    BY <1>7, <1>10 DEF run_force_direct_alg_ALAP
  <2>2. RoundInv(g, R)'
    BY <1>2, <1>10, AlapBegins
  <2> QED
    BY <1>2, <1>3, <1>6, <2>1, <2>2
<1>11. CASE run_NewDFG_ALAP_cycle
  <2>1. SplitInv(g, R, T)'
    BY <1>7, <1>11 DEF run_NewDFG_ALAP_cycle
  <2>2. RoundInv(g, R)'
    BY <1>2, <1>11, AlapGoesOn
  <2> QED
    BY <1>2, <1>3, <1>6, <2>1, <2>2
<1>12. CASE run_forece_directed_scheduling
  <2>1. SplitInv(g, R, T)'
    BY <1>7, <1>12 DEF run_forece_directed_scheduling
  <2>2. UNCHANGED <<walk, stacks, cycleOf, asap, alap, deep_cycle>> /\ flowStep' \in {"scheduled", "round"}
    BY <1>12 DEF run_forece_directed_scheduling, walkVars
  <2>3. \A v \in DOMAIN cstep' : v \in OpsOf(g) /\ cstep'[v].begin \in Nat
    <3>1. cstep' = [v \in {u \in DOMAIN newPre : u[1] \in Operators} |->
                      [begin |-> asap[v], end |-> alap[v]]]
      BY <1>12 DEF run_forece_directed_scheduling
    <3>2. DOMAIN newPre = AllOf(g) /\ asap \in [AllOf(g) -> Nat]
      BY <1>2, <1>4, WaysRanked DEF RoundTypes
    <3> QED
      BY <3>1, <3>2, SchedulesOperators
  <2>4. RoundTypes(g)'
    BY <1>4, <2>2, <2>3 DEF RoundTypes
  <2>5. RoundInv(g, R)'
    BY <2>2, <2>4 DEF RoundInv, AsapWalk, AsapKept, AlapWalk
  <2> QED
    BY <1>2, <1>3, <1>6, <2>1, <2>5
<1>13. CASE UNCHANGED forceVars
  <2>1. /\ UNCHANGED <<newPre, newNxt, beginList, endList, walk, stacks, cycleOf>>
        /\ UNCHANGED <<asap, alap, deep_cycle, cstep, force, flowStep>>
        /\ UNCHANGED dfgVars
    BY <1>13 DEF forceVars, dfgVars, walkVars
  <2>2. SplitInv(g, R, T)'
    BY <1>7, <2>1
  <2>3. RoundTypes(g)'
    BY <1>4, <2>1 DEF RoundTypes
  <2>4. /\ Used' = Used /\ Starts' = Starts
        /\ Crossings("w")' = Crossings("w") /\ Crossings("r")' = Crossings("r")
        /\ EarliestCycle(Starts)' = EarliestCycle(Starts)
        /\ LastCycle(g)' = LastCycle(g) /\ CyclesLeft(g)' = CyclesLeft(g)
        /\ Fit(g)' = Fit(g) /\ FromEnd(cycleOf)' = FromEnd(cycleOf) /\ FromEnd(alap)' = FromEnd(alap)
    BY <2>1 DEF Used, Consumed, Starts, StartCycle, Delayed, ALU, Crossings, EarliestCycle,
                LastCycle, CyclesLeft, CyclesAfter, FromEnd, Fit
  <2>5. AsapWalk(R)' /\ AsapKept'
    BY <1>2, <2>1, <2>4 DEF RoundInv, AsapWalk, AsapKept
  <2>6. AlapWalk(g, R)'
    BY <1>2, <2>1, <2>4 DEF RoundInv, AlapWalk, Down
  <2> QED
    BY <1>2, <1>3, <1>6, <2>2, <2>3, <2>5, <2>6 DEF RoundInv
<1> QED
  BY <1>5, <1>8, <1>9, <1>10, <1>11, <1>12, <1>13 DEF ForceNext

(* The walks find the earliest cycles, whatever the order in which the     *)
(* edges are pushed again, deep_cycle is never too large, and the latest   *)
(* cycles are found wherever one is left, counted from there               *)
(* (CyclesExact).                                                          *)
THEOREM WalksAreExact ==
  ForceSpec => []CyclesExact
<1>1. ForceInit => RoundSafe
  BY RoundSafeBegins
<1>2. RoundSafe /\ [ForceNext]_forceVars => RoundSafe'
  BY RoundSafeNext
<1>3. RoundSafe => CyclesExact
  BY RoundSafeExact
<1> QED
  BY <1>1, <1>2, <1>3, PTL DEF ForceSpec

(* What each of the operators that are moved needs alone.                  *)
Needed == {cstep[v].begin + 1 + CyclesAfter[v] : v \in Delayed}

(* These are numbers, and finitely many.                                   *)
LEMMA NeededFacts ==
  ASSUME NEW g \in FrontGraphs, NEW R, NEW T, Ranked(g, R), SplitInv(g, R, T),
         RoundTypes(g)
  PROVE  /\ Needed \subseteq Nat /\ IsFiniteSet(Needed)
         /\ \A v \in Delayed :
              v \in DOMAIN g /\ cstep[v].begin \in Nat /\ cstep[v].begin = force
<1>1. \A v \in Delayed : v \in DOMAIN g /\ cstep[v].begin \in Nat /\ cstep[v].begin = force
  BY DEF Delayed, ALU, RoundTypes, OpsOf
<1>2. IsFiniteSet(DOMAIN g) /\ DOMAIN g \subseteq AllOf(g)
  BY FrontFacts DEF AllOf
<1>3. IsFiniteSet(Delayed)
  <2>1. Delayed \subseteq DOMAIN g
    BY <1>1
  <2> QED
    BY <1>2, <2>1, FS_Subset
<1>4. PICK A \in [AllOf(g) -> Nat] : A = CyclesAfter
  BY CyclesAfterFacts
<1>5. \A v \in Delayed : cstep[v].begin + 1 + A[v] \in Nat
  BY <1>1, <1>2, <1>4
<1>6. PICK f : f = [v \in Delayed |-> cstep[v].begin + 1 + A[v]]
  OBVIOUS
<1>7. f \in Surjection(Delayed, Needed)
  BY <1>4, <1>6 DEF Needed, Surjection
<1>8. IsFiniteSet(Needed)
  BY <1>3, <1>7, FS_Surjection
<1>9. Needed \subseteq Nat
  BY <1>4, <1>5 DEF Needed
<1> QED
  BY <1>1, <1>8, <1>9

(* The schedule is as long as the shortest, or as one of those that are    *)
(* moved needs.                                                            *)
LEMMA LongestAlone ==
  ASSUME NEW g \in FrontGraphs, NEW R, NEW T, Ranked(g, R), SplitInv(g, R, T),
         RoundInv(g, R), Margins(g), flowStep = "ASAP", walk = <<>>
  PROVE  /\ Length(Shortest) \in Nat
         /\ Length(asap) = Max({Length(Shortest)} \union Needed)
<1>1. flowStep # "split" /\ RoundTypes(g) /\ asap \in [AllOf(g) -> Nat]
  BY DEF RoundInv, RoundTypes
<1>2. PICK default : default = [v \in AllOf(g) |-> IF v \in ToSet(beginList) THEN 1 ELSE 0]
  OBVIOUS
<1>3. default \in [AllOf(g) -> Nat] /\ Shortest = EarliestCycle(default)
  <2>1. DOMAIN newPre = AllOf(g)
    BY WaysRanked
  <2>2. \A v : Contains(beginList, v) <=> v \in ToSet(beginList)
    BY ToSetFacts DEF SplitInv, SplitTypes
  <2>3. [v \in DOMAIN newPre |-> IF Contains(beginList, v) THEN 1 ELSE 0] = default
    BY <1>2, <2>1, <2>2
  <2> QED
    BY <1>2, <2>3 DEF Shortest
<1>4. PICK S \in [AllOf(g) -> Nat] : S = Shortest
  BY <1>3, EarliestFacts
<1>5. PICK E \in [AllOf(g) -> Nat] : E = EarliestCycle(Starts)
  BY <1>1, StartFacts, EarliestFacts
<1>6. PICK A \in [AllOf(g) -> Nat] : A = CyclesAfter
  BY CyclesAfterFacts
<1>7. /\ Used \subseteq AllOf(g) /\ DOMAIN g \subseteq Used
      /\ \E x : x \in AllOf(g)
  BY <1>1, FrontFacts, UsedFacts
<1>8. \A v \in Used : asap[v] = E[v]
  BY <1>5, AsapEnds
<1>9. \A v \in AllOf(g) \ Used : asap[v] = 0 /\ S[v] = 0
  <2>1. ToSet(beginList) \subseteq Used
    BY <1>1, UsedFacts
  <2> QED
    BY <1>1, <1>2, <1>3, <1>4, <2>1, UnusedStart DEF Margins
<1>10. /\ Length(S) \in Nat /\ \A v \in AllOf(g) : S[v] <= Length(S)
       /\ \E s \in AllOf(g) : S[s] = Length(S)
  BY <1>7, LengthFacts
<1>11. /\ Length(asap) \in Nat /\ \A v \in AllOf(g) : asap[v] <= Length(asap)
       /\ \E t \in AllOf(g) : asap[t] = Length(asap)
  BY <1>1, <1>7, LengthFacts
<1>12. /\ Needed \subseteq Nat /\ IsFiniteSet(Needed)
       /\ \A v \in Delayed :
            v \in DOMAIN g /\ cstep[v].begin \in Nat /\ cstep[v].begin = force
  BY <1>1, NeededFacts
<1>13. PICK W : W = {Length(S)} \union Needed
  OBVIOUS
<1>14. PICK M \in W : \A y \in W : M >= y
  <2>1. IsFiniteSet(W)
    <3>1. IsFiniteSet(Needed \union {Length(S)})
      BY <1>12, FS_AddElement
    <3>2. W = Needed \union {Length(S)}
      BY <1>13
    <3> QED
      BY <3>1, <3>2
  <2>2. W \subseteq Nat /\ W # {}
    BY <1>10, <1>12, <1>13
  <2> QED
    BY <2>1, <2>2, FiniteHasMax
<1>15. M \in Nat /\ Max(W) = M
  <2>1. W \subseteq Nat
    BY <1>10, <1>12, <1>13
  <2>2. W \subseteq Int
    BY <2>1
  <2>3. Max(W) = M
    BY <1>14, <2>2, MaxFacts
  <2> QED
    BY <1>14, <2>1, <2>3
<1>16. Starts \in [AllOf(g) -> Nat]
  BY <1>1, StartFacts
<1>17. ASSUME NEW v \in Delayed
       PROVE  /\ v \in Used /\ v \in AllOf(g) /\ Starts[v] = cstep[v].begin + 1
              /\ Starts[v] + A[v] \in Needed
  <2>1. v \in Used /\ v \in AllOf(g) /\ cstep[v].begin = force /\ cstep[v].begin \in Nat
    BY <1>7, <1>12
  <2>2. Starts[v] = StartCycle(v) /\ StartCycle(v) = force + 1
    BY <1>1, <2>1, StartFacts DEF StartCycle
  <2>3. cstep[v].begin + 1 + CyclesAfter[v] \in Needed
    BY DEF Needed
  <2> QED
    BY <1>6, <2>1, <2>2, <2>3
<1>18. ASSUME NEW v \in Used
       PROVE  default[v] <= Starts[v] /\ Starts[v] + A[v] <= M
  <2>1. /\ v \in AllOf(g) /\ A[v] \in Nat /\ default[v] \in {0, 1} /\ S[v] \in Nat
        /\ Starts[v] = StartCycle(v) /\ Starts[v] \in Nat
    BY <1>1, <1>2, <1>7, StartFacts
  <2>2. CASE v \in Delayed
    <3>1. Starts[v] + A[v] \in W /\ Starts[v] = cstep[v].begin + 1 /\ cstep[v].begin \in Nat
      BY <1>12, <1>13, <1>17, <2>2
    <3>2. M >= Starts[v] + A[v]
      BY <1>14, <3>1
    <3> QED
      BY <1>15, <2>1, <3>1, <3>2
  <2>3. CASE v \notin Delayed
    <3>1. Starts[v] = default[v]
      <4>1. Contains(beginList, v) <=> v \in ToSet(beginList)
        BY ToSetFacts DEF SplitInv, SplitTypes
      <4> QED
        BY <1>2, <2>1, <2>3, <4>1 DEF StartCycle
    <3>2. default[v] <= S[v]
      BY <1>3, <1>4, <2>1, EarliestFacts
    <3>3. PICK e \in Used : S[v] + A[v] <= S[e]
      BY <1>1, <1>3, <1>4, <1>6, WaysFit
    <3>4. S[e] <= Length(S) /\ S[e] \in Nat /\ M >= Length(S)
      BY <1>7, <1>10, <1>13, <1>14
    <3> QED
      BY <1>10, <1>15, <2>1, <3>1, <3>2, <3>3, <3>4
  <2> QED
    BY <2>2, <2>3
<1>19. \A v \in Used : E[v] + A[v] <= M
  BY <1>1, <1>5, <1>6, <1>15, <1>16, <1>18, RoomKept
<1>20. Length(asap) <= M
  <2>1. PICK t \in AllOf(g) : asap[t] = Length(asap)
    BY <1>11
  <2>2. CASE t \in Used
    <3>1. E[t] + A[t] <= M /\ E[t] \in Nat /\ A[t] \in Nat
      BY <1>7, <1>19, <2>2
    <3> QED
      BY <1>8, <1>15, <2>1, <2>2, <3>1
  <2>3. CASE t \notin Used
    BY <1>9, <1>15, <2>1, <2>3
  <2> QED
    BY <2>2, <2>3
<1>21. M <= Length(asap)
  <2>1. CASE M = Length(S)
    <3>1. PICK s \in AllOf(g) : S[s] = Length(S)
      BY <1>10
    <3>2. s \in Used => S[s] <= asap[s]
      BY <1>1, <1>3, <1>4, <1>5, <1>8, <1>16, <1>18, LaterStarts
    <3>3. s \notin Used => S[s] <= asap[s]
      BY <1>9
    <3>4. asap[s] \in Nat /\ asap[s] <= Length(asap)
      BY <1>1, <1>11
    <3> QED
      BY <1>11, <1>15, <2>1, <3>1, <3>2, <3>3, <3>4
  <2>2. CASE M \in Needed
    <3>1. PICK v \in Delayed : M = cstep[v].begin + 1 + CyclesAfter[v]
      BY <2>2 DEF Needed
    <3>2. v \in Used /\ v \in AllOf(g) /\ M = Starts[v] + A[v]
      BY <1>6, <1>17, <3>1
    <3>3. PICK e \in Used : E[v] + A[v] <= E[e]
      BY <1>1, <1>5, <1>6, <1>16, <3>2, WaysFit
    <3>4. Starts[v] <= E[v] /\ Starts[v] \in Nat /\ E[v] \in Nat /\ A[v] \in Nat
      BY <1>5, <1>16, <3>2, EarliestFacts
    <3>5. E[e] = asap[e] /\ asap[e] <= Length(asap) /\ E[e] \in Nat
      BY <1>7, <1>8, <1>11
    <3> QED
      BY <1>11, <3>2, <3>3, <3>4, <3>5
  <2> QED
    BY <1>13, <2>1, <2>2
<1>22. Length(asap) = M
  BY <1>11, <1>15, <1>20, <1>21
<1> QED
  BY <1>4, <1>10, <1>13, <1>15, <1>22

(* If all that is moved stays within its margin, none of them needs more   *)
(* than the shortest schedule.                                             *)
LEMMA RoundSafeKeepsLength ==
  RoundSafe => MovingKeepsLength
<1> SUFFICES ASSUME NEW g \in FrontGraphs, NEW R, NEW T, Ranked(g, R), SplitInv(g, R, T),
                    RoundInv(g, R), Margins(g)
             PROVE  MovingKeepsLength
  BY DEF RoundSafe
<1>1. RoundTypes(g)
  BY DEF RoundInv
<1>2. ASSUME flowStep = "ASAP", walk = <<>>
      PROVE  /\ Length(Shortest) \in Nat
             /\ Length(asap) = Max({Length(Shortest)} \union Needed)
  BY <1>2, LongestAlone
<1>3. ASSUME flowStep = "ASAP", walk = <<>>,
             \A v \in ALU : /\ cstep[v].begin <= cstep[v].end
                            /\ cstep[v].end + CyclesAfter[v] <= Length(Shortest)
      PROVE  Length(asap) = Length(Shortest)
  <2>1. PICK l \in Nat : l = Length(Shortest)
    BY <1>2, <1>3
  <2>2. PICK A \in [AllOf(g) -> Nat] : A = CyclesAfter
    BY CyclesAfterFacts
  <2>3. ASSUME NEW v \in Delayed
        PROVE  cstep[v].begin + 1 + CyclesAfter[v] <= l
    <3>1. v \in ALU /\ v \in DOMAIN cstep /\ cstep[v].begin # cstep[v].end
      BY DEF Delayed, ALU
    <3>2. v \in AllOf(g) /\ cstep[v].begin \in Nat /\ cstep[v].end \in Int
      BY <1>1, <3>1, NeededFacts DEF Margins, AllOf
    <3>3. cstep[v].begin <= cstep[v].end /\ cstep[v].end + A[v] <= l
      BY <1>3, <2>1, <2>2, <3>1
    <3> QED
      BY <2>2, <3>1, <3>2, <3>3
  <2>4. PICK W : W = {l} \union Needed
    OBVIOUS
  <2>5. Needed \subseteq Nat
    BY <1>1, NeededFacts
  <2>6. W \subseteq Int /\ l \in W /\ \A y \in W : l >= y
    BY <2>3, <2>4, <2>5 DEF Needed
  <2>7. Max(W) = l
    BY <2>6, MaxFacts
  <2> QED
    BY <1>2, <1>3, <2>1, <2>4, <2>7
<1>4. flowStep \in {"round", "scheduled"} /\ deep_cycle = Length(asap) =>
        \A v \in ALU : /\ cstep[v].begin <= cstep[v].end
                       /\ cstep[v].end + CyclesAfter[v] = Length(asap)
  BY DEF Margins, ALU
<1> QED
  BY <1>2, <1>3, <1>4 DEF MovingKeepsLength, Needed

(* After the operators of a cycle were moved the schedule is as long as    *)
(* the one of them that needs most, and not longer if all stayed within    *)
(* their margins, which are right when the walk back started from the      *)
(* length of the schedule (MovingKeepsLength).                             *)
THEOREM MovesKeepLength ==
  ForceSpec => []MovingKeepsLength
<1>1. ForceInit => RoundSafe
  BY RoundSafeBegins
<1>2. RoundSafe /\ [ForceNext]_forceVars => RoundSafe'
  BY RoundSafeNext
<1>3. RoundSafe => MovingKeepsLength
  BY RoundSafeKeepsLength
<1> QED
  BY <1>1, <1>2, <1>3, PTL DEF ForceSpec
=============================================================================
