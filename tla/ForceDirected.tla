--------------------------- MODULE ForceDirected ---------------------------
(***************************************************************************)
(* Algorithm/Force_Directed_Scheduling, SysPerl/constrain2DFG.pm and       *)
(* schedule2DFG.pm: a data-flow graph is split by registers where chains   *)
(* of operators do not fit into a cycle, every vertex gets its earliest    *)
(* and its latest cycle, and operators are moved to later cycles as long   *)
(* as the distribution of power pulls them there.                          *)
(*                                                                         *)
(* A vertex is a pair of its kind and a number: "+::0" is <<"+", 0>>, and  *)
(* "w::@_0", "r::@_0" are <<"w", 0>>, <<"r", 0>>, the two sides of a       *)
(* register.  Powers are divided exactly, in multiples of 1/Scale.         *)
(***************************************************************************)
EXTENDS Integers, SequencesExt, FiniteSetsExt

CONSTANTS
  Delay, Power,    (* of the operators: time and power constraints         *)
  FrontGraphs      (* what syntax2DFG hands over: the predecessors         *)

Operators == DOMAIN Delay

(* The registers that the split may make. *)
Registers(g) ==
  {"w", "r"} \X (0 .. Cardinality({v \in DOMAIN g : v[1] \in Operators}) - 1)

(* As the front end builds them, for programs in which no variable depends *)
(* on itself: there is no cycle.  A variable that is read after it was     *)
(* assigned has become a register with two sides, so that only those,      *)
(* inputs and results are used, and the result of an operator or of an     *)
(* assignment once, the latter never by an operator.                       *)
ASSUME FrontAssumption ==
  /\ IsFiniteSet(Operators) /\ Operators # {} /\ Operators \intersect {"=", "w", "r"} = {}
  /\ Delay \in [Operators -> Nat] /\ Power \in [Operators -> Nat]
  /\ \A g \in FrontGraphs :
       /\ IsFiniteSet(DOMAIN g) /\ DOMAIN g # {} /\ DOMAIN g \intersect Registers(g) = {}
       /\ g \in [DOMAIN g -> Seq(DOMAIN g)]
       /\ \A S \in SUBSET DOMAIN g :
            S # {} => \E v \in S : ToSet(g[v]) \intersect S = {}
       /\ \A v \in DOMAIN g : \A i \in DOMAIN g[v] :
            LET p == g[v][i]
            IN  /\ p[1] \in Operators \union {"=", "w", "r"} \/ g[p] = <<>>
                /\ p[1] = "w" <=> v[1] = "r"
                /\ p[1] = "=" => v[1] \notin Operators
                /\ p[1] \in Operators \union {"="} =>
                     \A u \in DOMAIN g : \A j \in DOMAIN g[u] :
                       g[u][j] = p => u = v /\ j = i

VARIABLES
  dfgPre, dfgTime,         \* DFG: the stacks of predecessors, the weights
  splitting, toSplit,      \* the recursion, and the ends still to do
  newPre, newNxt, regs,    \* NewDFG, and the id of the next register
  beginList, endList,      \* of BakNewDFG
  walk, stacks, cycleOf,   \* begin_list or end_list, stacks and weights of NewDFG
  asap, alap,              \* cycle_list
  deep_cycle, cstep, force, cot,
  flowStep

dfgVars   == <<dfgPre, dfgTime, splitting, toSplit, newPre, newNxt, regs>>
walkVars  == <<walk, stacks, cycleOf>>
forceVars == <<dfgVars, beginList, endList, walkVars, asap, alap,
               deep_cycle, cstep, force, cot, flowStep>>

Scale == 60

max_cycle_time == Max(Range(Delay))

DelayOf(v) == IF v[1] \in Operators THEN Delay[v[1]] ELSE 0

Consumed(g) == UNION {ToSet(g[v]) : v \in DOMAIN g}

(* run_DFG_begin_list and run_DFG_end_list, in the order of a hash.        *)
ForceInit ==
  \E g \in FrontGraphs :
    LET all == DOMAIN g \union Registers(g)
        none == [v \in all |-> <<>>]
    IN  /\ dfgPre = g /\ dfgTime = [v \in DOMAIN g |-> DelayOf(v)]
        /\ splitting = <<>>
        /\ newPre = none /\ newNxt = none /\ regs = 0
        /\ beginList \in SetToSeqs({v \in DOMAIN g : g[v] = <<>>})
        /\ endList \in SetToSeqs(DOMAIN g \ Consumed(g))
        /\ toSplit = endList
        /\ walk = <<>> /\ stacks = none /\ cycleOf = [v \in all |-> 0]
        /\ asap = cycleOf /\ alap = cycleOf
        /\ deep_cycle = 1 /\ cstep = <<>> /\ force = 0 /\ cot = 0
        /\ flowStep = "split"
-----------------------------------------------------------------------------
(* constrain2DFG.pm: the split *)

SplitEnd ==
  /\ flowStep = "split" /\ splitting = <<>> /\ toSplit # <<>>
  /\ splitting' = <<Head(toSplit)>> /\ toSplit' = Tail(toSplit)
  /\ UNCHANGED <<dfgPre, dfgTime, newPre, newNxt, regs, beginList, endList,
                 walkVars, asap, alap, deep_cycle, cstep, force, cot, flowStep>>

is_cycle_time_boundary_Late(time) == time > max_cycle_time + 1

is_cycle_time_boundary(time) == time > max_cycle_time

(* An edge whose chain does not fit gets a register; otherwise the delay   *)
(* adds up, except across an assignment or a register.                     *)
SplitEdge ==
  /\ splitting # <<>> /\ dfgPre[Last(splitting)] # <<>>
  /\ LET v   == Last(splitting)
         p   == Head(dfgPre[v])
         sum == dfgTime[p] + dfgTime[v]
         w   == <<"w", regs>>
         r   == <<"r", regs>>
     IN  /\ dfgPre' = [dfgPre EXCEPT ![v] = Tail(@)]
         /\ IF is_cycle_time_boundary(sum)
            THEN /\ newPre' = [newPre EXCEPT ![w] = <<p>>, ![r] = <<w>>, ![v] = Append(@, r)]
                 /\ newNxt' = [newNxt EXCEPT ![p] = Append(@, w), ![w] = <<r>>, ![r] = <<v>>]
                 /\ regs' = regs + 1
                 /\ UNCHANGED dfgTime
            ELSE /\ newPre' = [newPre EXCEPT ![v] = Append(@, p)]
                 /\ newNxt' = [newNxt EXCEPT ![p] = Append(@, v)]
                 /\ dfgTime' = [dfgTime EXCEPT ![p] = IF p[1] \in {"=", "r"} THEN 0 ELSE sum]
                 /\ UNCHANGED regs
         /\ splitting' = Append(splitting, p)
  /\ UNCHANGED <<toSplit, beginList, endList, walkVars, asap, alap,
                 deep_cycle, cstep, force, cot, flowStep>>

SplitReturn ==
  /\ splitting # <<>> /\ dfgPre[Last(splitting)] = <<>>
  /\ dfgTime' = [dfgTime EXCEPT ![Last(splitting)] = 0]
  /\ splitting' = Front(splitting)
  /\ flowStep' = IF splitting' = <<>> /\ toSplit = <<>> THEN "round" ELSE "split"
  /\ UNCHANGED <<dfgPre, toSplit, newPre, newNxt, regs, beginList, endList,
                 walkVars, asap, alap, deep_cycle, cstep, force, cot>>
-----------------------------------------------------------------------------
(* schedule2DFG.pm: the rounds *)

(* clr_time_weighted_edges pushes every edge once more, in the order of a  *)
(* hash; several edges between the same vertices are one there.            *)
Doubled(s) ==
  LET again == [v \in DOMAIN s |-> SetToSeqs(ToSet(s[v]))]
      forks == {v \in DOMAIN s : Cardinality(again[v]) > 1}
      orders == {p \in [forks -> UNION {again[v] : v \in forks}] :
                   \A v \in forks : p[v] \in again[v]}
  IN  {[v \in DOMAIN s |->
          s[v] \o (IF v \in forks THEN p[v] ELSE CHOOSE q \in again[v] : TRUE)] : p \in orders}

ALU == DOMAIN cstep

Delayed_All == {v \in ALU : force > 0 /\ cstep[v].begin = force}

(* set_NewDFG_reschedule_time_weighted: the operators that begin in the    *)
(* cycle of the force and have another one to go to.                       *)
Delayed ==
  {v \in ALU : force > 0 /\ cstep[v].begin = force /\ cstep[v].begin # cstep[v].end}

StartCycle(v) ==
  IF v \in Delayed THEN force + 1 ELSE IF Contains(beginList, v) THEN 1 ELSE 0

run_force_direct_alg_ASAP ==
  /\ flowStep = "round"
  /\ stacks' \in Doubled(newNxt)
  /\ cycleOf' = [v \in DOMAIN cycleOf |-> StartCycle(v)]
  /\ walk' = beginList
  /\ flowStep' = "ASAP"
  /\ UNCHANGED <<dfgVars, beginList, endList, asap, alap, deep_cycle, cstep, force, cot>>

(* One vertex with all its edges.  An end refills all stacks, so that what *)
(* lies behind a vertex is walked again whenever it is reached again.      *)
run_NewDFG_ASAP_cycle ==
  /\ flowStep = "ASAP" /\ walk # <<>>
  /\ LET src  == Last(walk)
         full == IF Contains(endList, src) THEN newNxt ELSE stacks
         left == Reverse(full[src])
         cur  == IF \E k \in DOMAIN left : left[k][1] = "r"
                 THEN cycleOf[src] + 1 ELSE cycleOf[src]
     IN  /\ asap' = [asap EXCEPT ![src] = cycleOf[src]]
         /\ cycleOf' = [v \in DOMAIN cycleOf |->
              IF Contains(left, v) THEN Max({cycleOf[v], cur}) ELSE cycleOf[v]]
         /\ deep_cycle' = IF cur # cycleOf[src] THEN cur ELSE deep_cycle
         /\ stacks' = [full EXCEPT ![src] = <<>>]
         /\ walk' = Front(walk) \o left
  /\ UNCHANGED <<dfgVars, beginList, endList, alap, cstep, force, cot, flowStep>>

run_force_direct_alg_ALAP ==
  /\ flowStep = "ASAP" /\ walk = <<>>
  /\ stacks' \in Doubled(newPre)
  /\ cycleOf' = [v \in DOMAIN cycleOf |-> IF Contains(endList, v) THEN deep_cycle ELSE 0]
  /\ walk' = endList
  /\ flowStep' = "ALAP"
  /\ UNCHANGED <<dfgVars, beginList, endList, asap, alap, deep_cycle, cstep, force, cot>>

Earlier_Later(cur, cycle) == IF cur > cycle \/ cycle = 0 THEN cur ELSE cycle

(* The cycle 0 stands for none yet. *)
Earlier(cur, cycle) == IF cur < cycle \/ cycle = 0 THEN cur ELSE cycle

run_NewDFG_ALAP_cycle ==
  /\ flowStep = "ALAP" /\ walk # <<>>
  /\ LET src  == Last(walk)
         full == IF Contains(beginList, src) THEN newPre ELSE stacks
         left == Reverse(full[src])
         cur  == IF \E k \in DOMAIN left : left[k][1] = "w"
                 THEN cycleOf[src] - 1 ELSE cycleOf[src]
     IN  /\ alap' = [alap EXCEPT ![src] = cycleOf[src]]
         /\ cycleOf' = [v \in DOMAIN cycleOf |->
              IF Contains(left, v) THEN Earlier(cur, cycleOf[v]) ELSE cycleOf[v]]
         /\ stacks' = [full EXCEPT ![src] = <<>>]
         /\ walk' = Front(walk) \o left
  /\ UNCHANGED <<dfgVars, beginList, endList, asap, deep_cycle, cstep, force, cot, flowStep>>
-----------------------------------------------------------------------------
(* What the operators draw in a cycle. *)
Distributed(cs, i) ==
  MapThenSumSet(
    LAMBDA v : (Power[v[1]] * Scale) \div (cs[v].end - cs[v].begin + 1),
    {v \in DOMAIN cs : cs[v].begin <= i /\ i <= cs[v].end})

Cycles(cs) == UNION {cs[v].begin .. cs[v].end : v \in DOMAIN cs}

(* The sign of the force of a cycle: what it draws against its             *)
(* neighbours.                                                             *)
Pull(cs, i) ==
  LET d(k) == Distributed(cs, k)
  IN  IF i = Min(Cycles(cs)) THEN d(i) - d(i + 1)
      ELSE IF i = Max(Cycles(cs)) THEN d(i) - d(i - 1)
      ELSE d(i + 1) - d(i - 1)

run_force_direct_alg_calculated(cs) ==
  LET pulled == IF Cycles(cs) = {} THEN {}
                ELSE {i \in Min(Cycles(cs)) .. Max(Cycles(cs)) : Pull(cs, i) < 0}
  IN  IF pulled = {} THEN -1 ELSE Min(pulled)

(* With CSTEP.  The rounds are limited by twice the deep_cycle of before   *)
(* the first one.                                                          *)
run_forece_directed_scheduling ==
  /\ flowStep = "ALAP" /\ walk = <<>>
  /\ cstep' = [v \in {u \in DOMAIN newPre : u[1] \in Operators} |->
                 [begin |-> asap[v], end |-> alap[v]]]
  /\ force' = run_force_direct_alg_calculated(cstep')
  /\ cot' = cot + 1
  /\ flowStep' = IF force' = -1 \/ cot' > 1 * 2 THEN "scheduled" ELSE "round"
  /\ UNCHANGED <<dfgVars, beginList, endList, walkVars, asap, alap, deep_cycle>>

ForceNext ==
  \/ SplitEnd \/ SplitEdge \/ SplitReturn
  \/ run_force_direct_alg_ASAP \/ run_NewDFG_ASAP_cycle
  \/ run_force_direct_alg_ALAP \/ run_NewDFG_ALAP_cycle
  \/ run_forece_directed_scheduling

ForceSpec == ForceInit /\ [][ForceNext]_forceVars
-----------------------------------------------------------------------------
(* The longest way to every vertex, over those before it: base counts      *)
(* where a way begins, gain in every vertex it comes to.                   *)
Longest(before, base, gain) ==
  LET of[v \in DOMAIN before] ==
        Max({base[v]} \union {of[u] + gain[v] : u \in before[v]})
  IN  of

Delays == [v \in DOMAIN newPre |-> DelayOf(v)]

(* No way leads through a register within a cycle. *)
InACycle(edges) ==
  [v \in DOMAIN edges |-> IF v[1] \in {"w", "r"} THEN {} ELSE ToSet(edges[v])]

(* The delay of the longest chain of operators that ends in v, or starts   *)
(* in v, without a register in between.                                    *)
ChainTo == Longest(InACycle(newPre), Delays, Delays)

ChainFrom == Longest(InACycle(newNxt), Delays, Delays)

(* The split leaves no chain of operators that is longer than a cycle, and *)
(* puts a register only where the operator before it does not fit to the   *)
(* chain behind it; the weights it adds up on the way are those of the     *)
(* chain, although vertices are reached several times and lose them after  *)
(* the first (constrain2DFG.pm:254-290).                                   *)
ChainsFitCycle ==
  flowStep # "split" =>
    /\ \A v \in DOMAIN newPre : ChainTo[v] <= max_cycle_time
    /\ \A k \in 0 .. regs - 1 :
         DelayOf(newPre[<<"w", k>>][1]) + ChainFrom[newNxt[<<"r", k>>][1]]
           > max_cycle_time

Crossings(kind) == [v \in DOMAIN newPre |-> IF v[1] = kind THEN 1 ELSE 0]

(* The earliest cycle when the cycles of start are given, and the cycles   *)
(* that must follow.                                                       *)
EarliestCycle(start) ==
  Longest([v \in DOMAIN newPre |-> ToSet(newPre[v])], start, Crossings("r"))

CyclesAfter ==
  Longest([v \in DOMAIN newNxt |-> ToSet(newNxt[v])], [v \in DOMAIN newNxt |-> 0], Crossings("w"))

Starts == [v \in DOMAIN newPre |-> StartCycle(v)]

Length(cycles) == Max(Range(cycles))

(* The walk finds the earliest cycle of every vertex although it goes on   *)
(* from a vertex before all its predecessors are final.  deep_cycle is     *)
(* that of the register crossed last: it may be too small, never too       *)
(* large.  Counted from there, the walk back finds the latest cycle of     *)
(* every vertex for which there is one, in whatever way the cycles before  *)
(* it go wrong, where 0 is taken for none yet (constrain2DFG.pm:330-394).  *)
CyclesExact ==
  walk = <<>> =>
    /\ flowStep \in {"ASAP", "ALAP"} =>
         /\ \A v \in Consumed(newPre) \union ToSet(endList) : asap[v] = EarliestCycle(Starts)[v]
         /\ deep_cycle \in 1 .. Length(asap)
    /\ flowStep = "ALAP" =>
         \A v \in Consumed(newPre) \union ToSet(endList) :
           CyclesAfter[v] < deep_cycle => alap[v] = deep_cycle - CyclesAfter[v]

(* "max deep cycle @ schedule" (constrain2DFG.pm:26): the walk back starts *)
(* from the length of the schedule, whatever the order of the edges.       *)
DeepCycleIsMax ==
  flowStep = "ASAP" /\ walk = <<>> => deep_cycle = Length(asap)

Shortest ==
  EarliestCycle([v \in DOMAIN newPre |-> IF Contains(beginList, v) THEN 1 ELSE 0])

(* Moving operators to later cycles: all that begin in one cycle and may   *)
(* move do so together, even along one path.  The schedule becomes as long *)
(* as the one that needs most alone, and no longer than the shortest one   *)
(* if each stays within its margin there; and the margins are those of the *)
(* schedule whenever the walk back started from its length, as             *)
(* DeepCycleIsMax would have it (constrain2DFG.pm:106-123,                 *)
(* schedule2DFG.pm:119-136).                                               *)
MovingKeepsLength ==
  /\ flowStep = "ASAP" /\ walk = <<>> =>
       /\ Length(asap) = Max({Length(Shortest)} \union
                             {cstep[v].begin + 1 + CyclesAfter[v] : v \in Delayed})
       /\ (\A v \in ALU : /\ cstep[v].begin <= cstep[v].end
                          /\ cstep[v].end + CyclesAfter[v] <= Length(Shortest))
            => Length(asap) = Length(Shortest)
  /\ flowStep \in {"round", "scheduled"} /\ deep_cycle = Length(asap) =>
       \A v \in ALU : /\ cstep[v].begin <= cstep[v].end
                      /\ cstep[v].end + CyclesAfter[v] = Length(asap)
=============================================================================
