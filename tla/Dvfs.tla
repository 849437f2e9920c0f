-------------------------------- MODULE Dvfs --------------------------------
(***************************************************************************)
(* dvfs/dvfs.cpp: the combinations of work modes are written to a file,    *)
(* one a line; read back word by word, each gives a total time and power   *)
(* for the CPU, the DMA and the BUS; the combinations that fit into        *)
(* TimeConstrain together are printed, for CPU and DMA and for CPU and BUS.*)
(* Either opening of the file may fail, which is reported and goes on.     *)
(***************************************************************************)
EXTENDS Integers, SequencesExt, FiniteSetsExt

CONSTANTS
  Work,            (* Work[unit][mode]: time and power of a work mode      *)
  TimeConstrain

Units == {"CPU", "DMA", "BUS"}
Modes == 1 .. 3    \* snum

ASSUME DvfsAssumption ==
  /\ Work \in [Units -> [Modes -> [time : Nat, power : Nat]]]
  /\ TimeConstrain \in Nat

VARIABLES
  file,            \* the lines of tmp.f that are not read yet; none: no file
  openErrors,      \* the streams whose opening failed
  word,            \* words of its first line read so far
  total,           \* the running totals of each unit
  cSOLSPClist,     \* of each unit: the totals of the lines read
  answers,         \* printed: pairs of positions in the lists
  phase

dvfsVars == <<file, openErrors, word, total, cSOLSPClist, answers, phase>>

Zero == [u \in Units |-> [time |-> 0, power |-> 0]]

-----------------------------------------------------------------------------
Prefixed(mode, lines) == [k \in DOMAIN lines |-> <<mode>> \o lines[k]]

Downwards(r) == [k \in 1 .. r |-> r + 1 - k]

(* The r-combinations of the first n modes, with those that contain n      *)
(* first.                                                                  *)
combination(n, r) ==
  LET of[m \in 0 .. n] ==
        [k \in 0 .. m |->
           IF k = m \/ k = 0 THEN <<Downwards(k)>>
           ELSE Prefixed(m, of[m - 1][k - 1]) \o of[m - 1][k]]
  IN  of[n][r]

Lines == combination(3, 1) \o combination(3, 2) \o combination(3, 3)

(* An earlier run may have left the file behind.                           *)
DvfsInit ==
  /\ file \in {<<>>, Lines} /\ openErrors = {}
  /\ word = 0 /\ total = Zero
  /\ cSOLSPClist = [u \in Units |-> <<>>]
  /\ answers = [u \in Units \ {"CPU"} |-> <<>>]
  /\ phase = "write"

SetModel_WorkSolSpaceWt ==
  /\ phase = "write"
  /\ file' = Lines
  /\ phase' = "open"
  /\ UNCHANGED <<openErrors, word, total, cSOLSPClist, answers>>

(* main ignores the result, and an older file is read instead.             *)
Wt_CannotOpen ==
  /\ phase = "write"
  /\ openErrors' = openErrors \union {"oFilePtr"}
  /\ phase' = "open"
  /\ UNCHANGED <<file, word, total, cSOLSPClist, answers>>

Rd_Open ==
  /\ phase = "open" /\ file # <<>>
  /\ phase' = "read"
  /\ UNCHANGED <<file, openErrors, word, total, cSOLSPClist, answers>>

(* main ignores this, too: the answers are those of empty lists.           *)
Rd_CannotOpen ==
  /\ phase = "open"
  /\ openErrors' = openErrors \union {"iFilePtr"}
  /\ phase' = "answer"
  /\ UNCHANGED <<file, word, total, cSOLSPClist, answers>>

(* A word is first copied to where a pointer points that was never set:    *)
(* the program may end there,                                              *)
Rd_Stray ==
  /\ phase = "read" /\ file # <<>>
  /\ word < Len(Head(file))
  /\ phase' = "crashed"
  /\ UNCHANGED <<file, openErrors, word, total, cSOLSPClist, answers>>

(* or the copy is read back as the mode.                                   *)
Rd_Word ==
  /\ phase = "read" /\ file # <<>>
  /\ word < Len(Head(file))
  /\ word' = word + 1
  /\ LET mode == Head(file)[word']
     IN  total' = [u \in Units |->
                     [time  |-> total[u].time + Work[u][mode].time,
                      power |-> total[u].power + Work[u][mode].power]]
  /\ UNCHANGED <<file, openErrors, cSOLSPClist, answers, phase>>

Rd_EndOfLine_NoReset ==
  /\ phase = "read" /\ file # <<>>
  /\ word = Len(Head(file))
  /\ cSOLSPClist' = [u \in Units |-> Append(cSOLSPClist[u], total[u])]
  /\ word' = 0 /\ file' = Tail(file)
  /\ UNCHANGED <<openErrors, total, answers, phase>>

(* The identifiers of the entries count the lines. *)
Rd_EndOfLine ==
  /\ phase = "read" /\ file # <<>>
  /\ word = Len(Head(file))
  /\ cSOLSPClist' = [u \in Units |-> Append(cSOLSPClist[u], total[u])]
  /\ total' = Zero
  /\ word' = 0 /\ file' = Tail(file)
  /\ UNCHANGED <<openErrors, answers, phase>>

Rd_EndOfFile ==
  /\ phase = "read" /\ file = <<>>
  /\ phase' = "answer"
  /\ UNCHANGED <<file, openErrors, word, total, cSOLSPClist, answers>>

(* What is printed for entry k of the CPU: the entries of the other unit    *)
(* that fit, in order;                                                     *)
FittingRow(cpu, other, k) ==
  LET of[j \in 0 .. Len(other)] ==
        IF j = 0 THEN <<>>
        ELSE IF cpu[k].time + other[j].time <= TimeConstrain
             THEN Append(of[j - 1], <<k, j>>) ELSE of[j - 1]
  IN  of[Len(other)]

(* and for all entries, one after the other.                               *)
Fitting(cpu, other) ==
  LET of[k \in 0 .. Len(cpu)] ==
        IF k = 0 THEN <<>> ELSE of[k - 1] \o FittingRow(cpu, other, k)
  IN  of[Len(cpu)]

SetModel_SolSpaceAns ==
  /\ phase = "answer"
  /\ answers' = [u \in DOMAIN answers |->
                   Fitting(cSOLSPClist["CPU"], cSOLSPClist[u])]
  /\ phase' = "done"
  /\ UNCHANGED <<file, openErrors, word, total, cSOLSPClist>>

DvfsNext ==
  \/ SetModel_WorkSolSpaceWt \/ Wt_CannotOpen
  \/ Rd_Open \/ Rd_CannotOpen
  \/ Rd_Stray \/ Rd_Word \/ Rd_EndOfLine \/ Rd_EndOfFile
  \/ SetModel_SolSpaceAns

DvfsSpec == DvfsInit /\ [][DvfsNext]_dvfsVars
-----------------------------------------------------------------------------
TimeOf(u, S) ==
  LET timeIn(m) == IF m \in S THEN Work[u][m].time ELSE 0
  IN  timeIn(1) + timeIn(2) + timeIn(3)

(* What is printed are all choices of work modes for the CPU and the other *)
(* unit that fit into the constraint together, each once: no combination   *)
(* is missed or doubled by the recursion, and none takes over time from    *)
(* the line before it; only when the file cannot be opened for reading,    *)
(* which the program reports and ignores, nothing is printed               *)
(* (dvfs.cpp:192-205, 246, 294-317, 354-389, 409-412).                     *)
AnswersAreTheFittingChoices ==
  LET NonEmpty == (SUBSET Modes) \ {{}}
      Chosen(k) == ToSet(Lines[k])
      Expected(u) == IF "iFilePtr" \in openErrors THEN {}
                     ELSE {p \in NonEmpty \X NonEmpty :
                             TimeOf("CPU", p[1]) + TimeOf(u, p[2]) <= TimeConstrain}
  IN  phase = "done" =>
        \A u \in DOMAIN answers :
          LET printed == {<<Chosen(answers[u][n][1]), Chosen(answers[u][n][2])>> :
                            n \in DOMAIN answers[u]}
          IN  /\ Cardinality(printed) = Len(answers[u])
              /\ printed = Expected(u)
=============================================================================
