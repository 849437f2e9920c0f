------------------------------ MODULE AsapAlap ------------------------------
(***************************************************************************)
(* ASALAP/CDFG.pm, driven by ASALAP/main.pl: the earliest and the latest   *)
(* times of the vertices of a weighted graph.  The walk from the begins to *)
(* the ends (ASAP) and the one back (ALAP) take vertices from a stack and  *)
(* use up the stack of edges of each, once: a vertex that is reached again *)
(* has none left.                                                          *)
(***************************************************************************)
EXTENDS Integers, SequencesExt, FiniteSetsExt

(* A timing graph is the sequence of its edges, in the order main.pl adds  *)
(* them; it has no cycles, and no edge twice.                              *)
CONSTANTS Vertex, TimingGraphs

ASSUME TimingAssumption ==
  /\ IsFiniteSet(Vertex)
  /\ TimingGraphs \subseteq Seq([src : Vertex, dst : Vertex, weight : Nat])
  /\ \A g \in TimingGraphs :
       /\ \E rank \in [Vertex -> 1 .. Cardinality(Vertex)] :
            \A k \in DOMAIN g : rank[g[k].src] < rank[g[k].dst]
       /\ \A j, k \in DOMAIN g :
            g[j].src = g[k].src /\ g[j].dst = g[k].dst => j = k

VARIABLES
  edges,                     \* the graph
  begins, ends,              \* BakBegin_list, BakEnd_list
  Begin_list, End_list,
  nxtStack, preStack,        \* Vertex_list
  vertexTime,                \* the weights in Graph_list
  ASAP_list, ALAP_list,
  flow                       \* where main.pl is

timingVars == <<edges, begins, ends, Begin_list, End_list, nxtStack, preStack,
                vertexTime, ASAP_list, ALAP_list, flow>>

(* The entries of s that are in T, in their order. *)
Kept(s, T) ==
  LET of[n \in 0 .. Len(s)] ==
        IF n = 0 THEN <<>>
        ELSE IF s[n] \in T THEN Append(of[n - 1], s[n]) ELSE of[n - 1]
  IN  of[Len(s)]

(* As set_time_weighted_edge pushed them. *)
Leaving(v)  == Kept(edges, [src : {v}, dst : Vertex, weight : Nat])
Entering(v) == Kept(edges, [src : Vertex, dst : {v}, weight : Nat])

Unset == [v \in Vertex |-> 0]

TimingInit ==
  /\ edges \in TimingGraphs
  /\ begins = <<>> /\ ends = <<>> /\ Begin_list = <<>> /\ End_list = <<>>
  /\ nxtStack = [v \in Vertex |-> <<>>] /\ preStack = [v \in Vertex |-> <<>>]
  /\ vertexTime = Unset /\ ASAP_list = Unset /\ ALAP_list = Unset
  /\ flow = "ini"
-----------------------------------------------------------------------------
Sources      == {e.src : e \in ToSet(edges)}
Destinations == {e.dst : e \in ToSet(edges)}

(* The lists get their order from a hash. *)
run_time_weighted_ini ==
  /\ flow = "ini"
  /\ begins' \in SetToSeqs(Sources \ Destinations)
  /\ ends' \in SetToSeqs(Destinations \ Sources)
  /\ flow' = "begin"
  /\ UNCHANGED <<edges, Begin_list, End_list, nxtStack, preStack,
                 vertexTime, ASAP_list, ALAP_list>>

(* Everything but the results is as it was at first. *)
run_time_weighted_test ==
  /\ Begin_list' = begins /\ End_list' = ends
  /\ nxtStack' = [v \in Vertex |-> Leaving(v)]
  /\ preStack' = [v \in Vertex |-> Entering(v)]

Begin_ASAP ==
  /\ flow = "begin"
  /\ run_time_weighted_test
  /\ vertexTime' = Unset
  /\ flow' = "ASAP"
  /\ UNCHANGED <<edges, begins, ends, ASAP_list, ALAP_list>>

(* An end would refill the stacks, but none gets on the list.              *)
Refilled(stack, src, list, full) == IF Contains(list, src) THEN full ELSE stack

ASAP_FirstTime(time, e) ==
  IF vertexTime[e.dst] = 0 THEN time + e.weight ELSE vertexTime[e.dst]

ASAP_Time(time, e) == Max({time + e.weight, vertexTime[e.dst]})

(* One vertex, with all edges it has left.                                 *)
run_time_weighted_ASAP ==
  /\ flow \in {"ASAP", "max_path"} /\ Begin_list # <<>>
  /\ LET src  == Last(Begin_list)
         full == Refilled(nxtStack, src, End_list, [v \in Vertex |-> Leaving(v)])
         left == Reverse(full[src])
         to   == [k \in DOMAIN left |-> left[k].dst]
     IN  /\ vertexTime' = [v \in Vertex |->
              IF Contains(to, v)
              THEN ASAP_Time(vertexTime[src],
                             CHOOSE e \in ToSet(left) : e.dst = v)
              ELSE vertexTime[v]]
         /\ nxtStack' = [full EXCEPT ![src] = <<>>]
         /\ Begin_list' = Front(Begin_list)
              \o Kept(to, Vertex \ ToSet(End_list))
  /\ UNCHANGED <<edges, begins, ends, End_list, preStack, ASAP_list, ALAP_list, flow>>

(* ASAP starts a second time, as the first part of                         *)
(* run_time_weighted_max_path.                                             *)
rst_time_weighted_ASAP ==
  /\ flow = "ASAP" /\ Begin_list = <<>>
  /\ ASAP_list' = vertexTime
  /\ run_time_weighted_test
  /\ vertexTime' = Unset
  /\ flow' = "max_path"
  /\ UNCHANGED <<edges, begins, ends, ALAP_list>>

(* The ends keep their times, every other vertex loses its own.            *)
run_time_weighted_max_path ==
  /\ flow = "max_path" /\ Begin_list = <<>>
  /\ vertexTime' = [v \in Vertex |-> IF Contains(End_list, v) THEN vertexTime[v] ELSE 0]
  /\ run_time_weighted_test
  /\ flow' = "ALAP"
  /\ UNCHANGED <<edges, begins, ends, ASAP_list, ALAP_list>>

(* The larger time, as in ASAP. *)
ALAP_Time(time, e) == Max({time - e.weight, vertexTime[e.src]})

run_time_weighted_ALAP ==
  /\ flow = "ALAP" /\ End_list # <<>>
  /\ LET src  == Last(End_list)
         full == Refilled(preStack, src, Begin_list, [v \in Vertex |-> Entering(v)])
         left == Reverse(full[src])
         to   == [k \in DOMAIN left |-> left[k].src]
     IN  /\ vertexTime' = [v \in Vertex |->
              IF Contains(to, v)
              THEN ALAP_Time(vertexTime[src],
                             CHOOSE e \in ToSet(left) : e.src = v)
              ELSE vertexTime[v]]
         /\ preStack' = [full EXCEPT ![src] = <<>>]
         /\ End_list' = Front(End_list)
              \o Kept(to, Vertex \ ToSet(Begin_list))
  /\ UNCHANGED <<edges, begins, ends, Begin_list, nxtStack, ASAP_list, ALAP_list, flow>>

rst_time_weighted_ALAP ==
  /\ flow = "ALAP" /\ End_list = <<>>
  /\ ALAP_list' = vertexTime
  /\ flow' = "report"
  /\ UNCHANGED <<edges, begins, ends, Begin_list, End_list, nxtStack, preStack,
                 vertexTime, ASAP_list>>

TimingNext ==
  \/ run_time_weighted_ini \/ Begin_ASAP
  \/ run_time_weighted_ASAP \/ rst_time_weighted_ASAP
  \/ run_time_weighted_max_path
  \/ run_time_weighted_ALAP \/ rst_time_weighted_ALAP

TimingSpec == TimingInit /\ [][TimingNext]_timingVars
-----------------------------------------------------------------------------
(* The true earliest time: the longest path from a begin.                  *)
Earliest ==
  LET time[v \in Vertex] ==
        Max({0} \union {time[e.src] + e.weight : e \in ToSet(Entering(v))})
  IN  time

Ancestors ==
  LET of[v \in Vertex] == UNION {{e.src} \union of[e.src] : e \in ToSet(Entering(v))}
  IN  of

Descendants ==
  LET of[v \in Vertex] == UNION {{e.dst} \union of[e.dst] : e \in ToSet(Leaving(v))}
  IN  of

(* The time of the end that a chain of single edges leads to, less the     *)
(* chain; times are not negative.                                          *)
LatestOnChain ==
  LET time[v \in Vertex] == IF Leaving(v) = <<>> THEN ASAP_list[v]
                            ELSE Max({0, time[Leaving(v)[1].dst] - Leaving(v)[1].weight})
  IN  time

(* The reported times are right where no vertex is reached twice before:   *)
(* the earliest time of a vertex behind a tree, whichever way the edges    *)
(* and the lists are ordered, and the latest time before a chain.  Behind  *)
(* a vertex that is reached again, later, only the first time counts, so   *)
(* that the earliest time may be too early, but never too late             *)
(* (CDFG.pm:433-460, 495-522).                                             *)
ExactOnTrees ==
  flow = "report" =>
    \A v \in Vertex :
      /\ ASAP_list[v] <= Earliest[v]
      /\ (\A u \in Ancestors[v] : Len(Entering(u)) <= 1) =>
           ASAP_list[v] = Earliest[v]
      /\ (\A u \in Descendants[v] \union {v} : Len(Leaving(u)) <= 1) =>
           ALAP_list[v] = LatestOnChain[v]
=============================================================================
