-------------------------- MODULE MC_SmallPrograms --------------------------
(***************************************************************************)
(* The programs that are built on their own, for TLC in one run: a         *)
(* behaviour is one of the program chosen at the start, and the others     *)
(* stay as they begin.                                                     *)
(***************************************************************************)
EXTENDS AluPool, InOrderBus, SmartReflex, CountTwice, Booth, Dvfs, AsapAlap,
        MC_ForceDirected

VARIABLE program

ThreeAlus == 0 .. 2

(* The tasks of smart_reflex.c; like its battery they are divided by 50,   *)
(* what they consume rounded: the source has 51, 755, 1105, 955, 755, 760. *)
ShippedConsume == <<1, 15, 22, 19, 15, 15>>

(* dvfs.cpp:209-231. *)
At(power, time) == [time |-> time, power |-> power]
ShippedWork ==
  [CPU |-> <<At(20, 10), At(10, 20), At(5, 40)>>,
   DMA |-> <<At(30, 20), At(15, 40), At(10, 60)>>,
   BUS |-> <<At(40, 20), At(20, 40), At(10, 80)>>]

(* All graphs on four vertices with edges of weight 1 or 3, added in one   *)
(* order or the other.                                                     *)
FourVertices == 1 .. 4
Pairs == <<<<1, 2>>, <<1, 3>>, <<1, 4>>, <<2, 3>>, <<2, 4>>, <<3, 4>>>>

SmallGraphs ==
  LET weights == UNION {[D -> {1, 3}] : D \in SUBSET DOMAIN Pairs}
      graph(w) == LET chosen == SelectSeq(<<1, 2, 3, 4, 5, 6>>, LAMBDA p : p \in DOMAIN w)
                  IN  [k \in DOMAIN chosen |->
                         [src |-> Pairs[chosen[k]][1], dst |-> Pairs[chosen[k]][2],
                          weight |-> w[chosen[k]]]]
      graphs == {graph(w) : w \in weights}
  IN  graphs \union {Reverse(g) : g \in graphs}

allVars == <<vars, busVars, reflexVars, countVars, boothVars, dvfsVars,
             timingVars, forceVars, program>>

(* The inputs of a program that does not run are fixed. *)
ProgramsInit ==
  /\ program \in {"driver", "bus", "battery", "counter", "multiplier", "modes",
                  "timing", "scheduler"}
  /\ IF program = "multiplier" THEN TRUE ELSE a = 0 /\ b = 0
  /\ IF program = "modes" THEN TRUE ELSE file = <<>>
  /\ IF program = "timing" THEN TRUE ELSE edges = <<>>
  /\ IF program = "scheduler" THEN TRUE
     ELSE dfgPre = AnyStatements /\ beginList = <<a_, b_>>
  /\ Init /\ BusInit /\ ReflexInit /\ CountInit /\ BoothInit /\ DvfsInit
  /\ TimingInit /\ ForceInit

sequentialVars == <<boothVars, dvfsVars, timingVars, forceVars>>

DriverStep     == Next /\ UNCHANGED <<busVars, reflexVars, countVars, sequentialVars>>
BusStep(A)     == A /\ UNCHANGED <<vars, reflexVars, countVars, sequentialVars>>
BatteryStep(A) == A /\ UNCHANGED <<vars, busVars, countVars, sequentialVars>>
CounterStep(A) == A /\ UNCHANGED <<vars, busVars, reflexVars, sequentialVars>>

SequentialStep ==
  /\ \/ program = "multiplier" /\ BoothNext /\ UNCHANGED <<dvfsVars, timingVars, forceVars>>
     \/ program = "modes" /\ DvfsNext /\ UNCHANGED <<boothVars, timingVars, forceVars>>
     \/ program = "timing" /\ TimingNext /\ UNCHANGED <<boothVars, dvfsVars, forceVars>>
     \/ program = "scheduler" /\ ForceNext /\ UNCHANGED <<boothVars, dvfsVars, timingVars>>
  /\ UNCHANGED <<vars, busVars, reflexVars, countVars>>

(* The programs that come to an end; the slaves of the bus may be left     *)
(* waiting.                                                                *)
Finished ==
  /\ \/ program = "bus" /\ MastersExited /\ SlavesDone /\ ~Bus.Busy
     \/ program = "counter" /\ Returned(pc1) /\ Returned(pc2)
     \/ program = "multiplier" /\ step = BITSIZE
     \/ program = "modes" /\ phase \in {"done", "crashed"}
     \/ program = "timing" /\ flow = "report"
     \/ program = "scheduler" /\ flowStep = "scheduled"
  /\ UNCHANGED allVars

ProgramsNext ==
  \/ /\ UNCHANGED program
     /\ \/ program = "driver" /\ DriverStep
        \/ program = "bus" /\ BusStep(BusNext)
        \/ program = "battery" /\ BatteryStep(ReflexNext)
        \/ program = "counter" /\ CounterStep(CountNext)
        \/ SequentialStep
  \/ Finished

(* The threads of the bus, of the battery and of the counter run on; a     *)
(* wait that ends without a signal is no promise.                          *)
ProgramsSpec ==
  /\ ProgramsInit /\ [][ProgramsNext]_allVars
  /\ WF_allVars(program = "bus" /\ BusStep(MASTER_1_Transmitter) /\ UNCHANGED program)
  /\ WF_allVars(program = "bus" /\ BusStep(MASTER_1_Receiver) /\ UNCHANGED program)
  /\ \A n \in Slaves :
       WF_allVars(program = "bus" /\ BusStep(SLAVE_DO(n)) /\ UNCHANGED program)
  /\ WF_allVars(program = "battery" /\ BatteryStep(Emulator_BATTERY) /\ UNCHANGED program)
  /\ WF_allVars(program = "battery" /\ BatteryStep(Emulator_TASK) /\ UNCHANGED program)
  /\ WF_allVars(program = "counter" /\ CounterStep(functionCount1) /\ UNCHANGED program)
  /\ WF_allVars(program = "counter" /\ CounterStep(functionCount2) /\ UNCHANGED program)

(* See ComesToRest of InOrderBus. *)
BusComesToRest == program = "bus" => ComesToRest

(* See RunsAreAfforded of SmartReflex. *)
BatteryAffordsRuns == program = "battery" => RunsAreAfforded

(* See BothReturn of CountTwice. *)
CounterReturns == program = "counter" => BothReturn
=============================================================================
