# Verification of SOC_c_model

SOC_c_model is a collection of small, independent emulators of parts of a
system on chip, most of them one or two files of C with POSIX threads, plus a
few high-level-synthesis algorithms in Perl and C++. There are no tests, and the
only documentation is in comments and in the messages the programs print, so the
source is the reference for everything here.

This directory holds TLA+ models of the concurrent emulators and of the
algorithms, the TLC configurations that check them, and TLAPS proofs about every
concurrent emulator, about the Booth multiplier, about what `dvfs` prints, about
the ASAP and ALAP times of a graph, and about the split of a data-flow graph into
cycles and its schedule. It needs the TLA+ tools, the community modules and TLAPS; nothing else.

## 1. Inventory

| Component | State | Operations | Hard behaviour | What makes it correct |
|---|---|---|---|---|
| `network/network.c`, network on chip | `TaskList` (where each task is, whether it is done), 9 `NetNode` FIFOs with flags | two threads per node: Set pushes the node's tasks, Get takes the oldest entry and moves the task a hop; routing, address decoding | flags polled outside the mutex, duplicates of entries, back-pressure, a loop that can spin with the mutex | FIFOs are queues, dependencies are kept, tasks stay on their paths, are delivered at the destination, threads end |
| `out_of_order/out_of_order.c`, read channel | request and read-data buffers, `TEST_COT` | master's Transmitter and Receiver, two slaves | unlocked range tests on a slot other threads shift, waits with a limit, overrun of an array | a slave serves only its own requests, one answer per request in order, the run ends |
| `out_of_order/in_order.c`, single bus | one bus with `Busy` and `Lock`, `TEST_COT` | the same four threads | the same, on a single resource; a counter that is never reset | a pending transfer is not overwritten, data come from the addressed slave, the run comes to rest |
| `iOS/iOS.c`, micro-kernel | normal and emergency queue, `SYS_STATUS` | three task threads, the scheduler, main | ageing, moving entries between queues, exits with the mutex locked | a task waits at most once, no request is lost, urgent work is done, nothing moves after a failure |
| `iOS/queue.h`, task lists | doubly linked lists | push, pop, delete, sort by two keys, age, expire, move | dangling `pre` pointer after a pop, sort with a fixed number of passes | the list is the queue its users think it is, no freed memory is touched |
| `CUDA/main.c`, `CUDA/queue.h`, ALU driver | three ALUs, a work list, `gid`, `DONE` | ALU threads, a thread that finds a free ALU, a thread that hands out commands | unlocked test of command and status, stale `gid`, exits with the mutex locked | the list is the set of working ALUs, no spurious failure |
| `Algorithm/Force_Directed_Scheduling` | data-flow graphs, cycle lists, control steps | split at cycle boundaries, ASAP, ALAP, forces, code emission | vertices reached several times, weights reset on the way, propagation in stack order, repeated rescheduling | chains fit into a cycle, cycles are exact, moving operators does not lengthen the schedule |
| `ASALAP` | a weighted graph with stacks | ASAP, ALAP, critical-path report | stacks that are used up and never refilled, the direction of the maximum | the times are those of the longest paths, at least on trees |
| `Smart_Reflex/smart_reflex.c` | battery charge, `COT` | charging thread, task thread | unsigned subtraction, three runs in a row, end condition | the charge stays in range, refusals do not go on for ever |
| `MESI` | two caches, two interfaces | one cpu and one cache thread | waits for an interface nobody drives | (the protocol never runs) |
| `thread_smp` | a counter | two counting threads with a condition variable | lost signals, two mutexes for one counter | the counter ends at its limit, both threads return |
| `dvfs` | lists of totals per unit, a file | write combinations, read them back, filter by time | totals that pass from line to line, a recursion that must miss nothing | the printed answers are the choices that fit, each once |
| `Boot_alg` | two representations of a product | one Booth step per bit | widths, sign bits | both representations agree, the result is the product |
| `BIST`, `PCI`, `CPU`, `ARM_NEON` | local data of single-threaded programs | bit counts and remapping, a stack, register packing, sums | widths and boundaries | agreement with a reference definition |
| `SysVeiPerl`, `DFG`, `3D_IC`, `encoder`, `test` | - | an older scheduler, drawing, stubs, scratch files | - | - |

The emulators do not call each other. Inside one program the threads interact
through global variables, nearly always under one mutex `count_mutex`, and
through flags they poll without it. `PROJECT.json` lists every component with
its status, and under `hazards` what is hard to test, at its line.

## 2. Modules

| Module | Models | Notes |
|---|---|---|
| `NetworkOnChip` | `network/network.c` | both threads of every node; theorems in `NetworkOnChip_proofs` |
| `AddressQueue` | - | abstract bounded queue; refined by the FIFOs of `NetworkOnChip` and by the two buffers of `OutOfOrderBus` |
| `TaskDelivery` | - | abstract: tasks complete once, after the task they depend on; refined by `NetworkOnChip` |
| `OutOfOrderBus` | `out_of_order/out_of_order.c` | theorems in `OutOfOrderBus_proofs` |
| `InOrderBus` | `out_of_order/in_order.c` | theorems in `SmallPrograms_proofs` |
| `TaskQueue` | `iOS/queue.h` as functions on sequences | used by the two below |
| `LinkedQueue` | `iOS/queue.h` pointer by pointer | runs beside `TaskQueue` and is compared with it; theorems in `LinkedQueue_proofs` |
| `MicroKernel` | `iOS/iOS.c` over `TaskQueue` | theorems in `MicroKernel_proofs` |
| `AluPool` | `CUDA/main.c`, `CUDA/queue.h` | theorems in `AluPool_proofs` |
| `SmartReflex` | `Smart_Reflex/smart_reflex.c` | theorems in `SmallPrograms_proofs` |
| `CountTwice` | `thread_smp/cond1.c` | theorem in `SmallPrograms_proofs` |
| `Booth` | `Boot_alg/boot.cpp` | theorems in `SmallPrograms_proofs` |
| `Dvfs` | `dvfs/dvfs.cpp` | theorem in `SmallPrograms_proofs` |
| `AsapAlap` | `ASALAP/CDFG.pm`, `ASALAP/main.pl` | theorem in `SmallPrograms_proofs` |
| `ForceDirected` | `constrain2DFG.pm`, `schedule2DFG.pm`, `DFG.pm` of `Algorithm/Force_Directed_Scheduling/SysPerl` | theorems in `ForceDirected_proofs` |
| `SmallPrograms_proofs` | - | theorems about `InOrderBus`, `SmartReflex`, `CountTwice`, `Booth`, `Dvfs` and `AsapAlap` |
| `ProofLemmas` | - | lemmas that several of the proofs need |
| `MC_iOS` | - | `MicroKernel` or `LinkedQueue`, one of them in each behaviour |
| `MC_ForceDirected` | - | the tables and graphs for `ForceDirected` |
| `MC_SmallPrograms` | - | one of eight programs in each behaviour: `InOrderBus`, or one of those from `AluPool` to `ForceDirected` |
| other `MC_...` | - | constants for TLC |

Definitions whose name ends in `_Something` after the name of another one
(`Forward_NoRebase`, `Top_KeepsCot`) are not part of a model: each is the
neighbouring definition with a plausible bug in it, and is there to show that a
property would notice that bug.

### Common conventions

*Steps.* What a thread does while it holds the mutex is one step. A read of a
shared flag or word without the mutex is a step of its own; a condition with two
such reads takes two. A thread's place in its loop is its `pc`, and `cot` is the
program's own counter of polls. `sleep` gives no order between threads.

*Exits with the mutex.* In `iOS.c` and `CUDA/main.c` a thread may call
`pthread_exit` with the mutex locked. `held` says so, and every step that takes
the mutex is guarded by it.

*Undefined behaviour.* The models follow an access only as far as the layout of
the object determines it (the first entry past the read-data buffer lands on the
next member of the same struct). An access to freed memory sets `freed` and the
model ends there. An unlocked word that a condition uses twice is loaded once or
twice, as the compiler likes; `ReadsOnce` selects which.

### NetworkOnChip

`NId`, `FromAddr`, `AddrDone` are the fields of `TaskList`; `AddrFIFO`,
`Addr_INX`, `Addr_EMPTY`, `Addr_FULL` those of `NetNode`. `SetTop`, `SetPoll`
and `SetAct` are the loop test, one poll and the critical section of
`SetAddrInf2NetNodeId_n`; `GetTop`, `GetPoll`, `GetAct` those of
`GetAddrInf2NetNodeId_n`. The nine copies of each thread function in the source
differ in the node number only (the map names a copy for each part of a thread). A node is given threads
only if it is in `Nodes`; nodes that no task can reach have nothing to do. `hung`
is set when the routing loop of `CheckAddrInfNetNode2NetNode` cannot return,
which happens inside the critical section, so nobody gets the mutex again.

A task in a FIFO is not marked as issued. The Set thread therefore pushes it on
every pass, and each duplicate later moves the task to where that duplicate is.
This is why the delivery properties are not obvious, and why `EntriesOnPath`
speaks about entries and tasks together.

### OutOfOrderBus and InOrderBus

An address is represented by its page of 0x100, which is what the range tests
look at, and a data burst by the slave that wrote it. `TestRange` is the pair of
comparisons `ST <= x && x <= ED`. In `OutOfOrderBus` the words behind the last
entry are kept as the shifting loop leaves them, including the read of the word
behind the array when the buffer is full.

### TaskQueue, LinkedQueue and MicroKernel

`pop_queue_head` does not clear `pre` of the new head. A list is therefore
represented by the sequence of its entries and a bit `stale`, and `TaskQueue`
says which operations follow that pointer. `LinkedQueue` runs the pointer code
beside these functions, and both agree (proved in `LinkedQueue_proofs`), so
`MicroKernel` can use the functions. Its actions are the critical sections of `iTASK_k` and `iOS`;
`iOS_Tick` is the whole tick: age, sort, expire, move, sort, work. A tick may stop
in the middle, with the mutex, and what it has done by then stays:

* When the normal queue runs empty before the move is through (`queue.h:302`), all
  its entries have been freed, and `qptr`, which is assigned only at the end, still
  points at them (`dangling`). The expired ones have been copied before.
* When `malloc` fails for a copy (`iOS_TickNoMemory`), the normal queue is aged and
  sorted. The copies made so far are lost, since `emgcy_qptr` is assigned only at
  the end, but the first of them has become the predecessor of its first entry,
  which therefore no longer is stale.

`NoRequestLost` covers both, and `FrozenAfterFailure` says that nobody uses what is
left.

### AluPool

`iALU_Check` is the unlocked test of command and status, `iALU_Start` and
`iALU_Finish` the two critical sections of an ALU thread. A command is its index
in `CMD`; ALUs keep executing their last command, as in the source. An entry of
the work list is identified with its ALU, since nothing is ever freed and an ALU
has at most one entry (`WorkersListed`).

### SmartReflex

`BATTERY_Charge` and `TASK_Run` are the critical sections of the two threads.
`Minus` is the subtraction of unsigned words. A charge and the consumptions are
divided by 50 in the run; 50 divides the numbers of the battery, and the
consumptions 51, 755, 1105, 955, 755 and 760 are rounded. `ChargeStaysInRange` is
proved for all of them as they are. The task thread adds
1 to `COT` once and returns; `COT` never exceeds `TEST_COT` (`Rounds` in the module), so the charging
thread goes on for ever and main never returns. That a task gets three runs in a
row is not promised by anything (another refusal may always come between) and is
not claimed; that a run is afforded again and again is.

### CountTwice

One step is a critical section of `condition_mutex`, one of `count_mutex`, or the
test outside both. A signal wakes the waiting thread or is lost;
`Count1_SpuriousWakeup` is the wakeup POSIX allows, without fairness.

### Booth

`upper` and `lower` are the numbers that the halves of `c_str` spell, `c` is the
number that main carries along; `BoothStep` is one round of the loop. The bit
that extends `b` to the right is `FirstBit(a)`, as in the source, where the
algorithm wants 0. `ProductOfExtended` says what comes out with it, `BinIsDec`
what the last line of the output says.

### Dvfs

`file` is `tmp.f`, a sequence of lines of modes. `Rd_Word` is one word of a line,
`Rd_EndOfLine` the newline. `strcpy` writes through a pointer that was never set:
`Rd_Stray` is the program ending there, `Rd_Word` the copy working. Each opening of
the file may fail; the function returns -1 and main goes on (`Wt_CannotOpen`,
`Rd_CannotOpen`, remembered in `openErrors`). If the file cannot be opened for
writing, one that an earlier run left behind is read, and without one the opening
for reading fails too; then the lists stay empty and nothing is printed as an
answer. The property speaks of runs that get to the end. The two nested loops that print are recursive
functions, one over the list of the CPU and one over that of the DMA and the BUS.

### AsapAlap

One step takes one vertex from the list, with all edges left in its stack; the
recursive call in the source continues with the same lists, so recursion adds
nothing. The order of the lists after `find_begin_list` is that of a hash and
left open. A vertex reached again has no edges left: the refill at
`CDFG.pm:441` is for ends, which are never on the list. So ASAP is exact behind a
tree and otherwise may be too early, and ALAP, which keeps the larger time, is
exact before a chain; `ExactOnTrees` says both. `Kept` is `SelectSeq` with a set
for a test, written as a recursive function because the proof system knows
nothing of `SelectSeq`.

### ForceDirected

`SplitEdge` and `SplitReturn` are the rounds and the return of the recursion
`run_NewDFG_by_time_weighted_constrain`; `splitting` is its stack. A vertex is a
pair of its kind and a number. `Doubled` is `clr_time_weighted_edges`, which
pushes every edge once more in the order of a hash, so that the edges of each vertex
come in any order of their own; edges between the same two vertices are one there. The order of the begins and the ends is open. `Scale`
makes the divisions of powers exact. `FrontAssumption` says what graphs the front
end builds for programs in which no variable depends on itself: there is no cycle,
and what an operator or an assignment computes is used at one place, since a variable
that is read after its assignment has become a register. A statement like
`e = e + 1` would close a cycle, which the recursion of the split would follow round;
the only ones in the sources' program (`main.pl`) are commented out. `Longest` is the
reference that the properties compare with: the longest way to each vertex. `run_forece_directed_scheduling` is the rest
of a round after both walks: control steps, distribution, force, and the test
for another round. The bound of the rounds is read while `deep_cycle` still is 1,
so there are at most three. `deep_cycle` is commented as the 'max deep cycle @
schedule' (`constrain2DFG.pm:26`) but holds the cycle of the register crossed
last; where it is smaller than the schedule, latest cycles come before earliest
ones (`DeepCycleIsMax`, which `deep_cycle` shows violated). What the program computes
from a `deep_cycle` that is too small is stated all the same:

* `CyclesExact`: it is too small or right, never too large, and the walk back gives
  every vertex its latest cycle counted from there, as long as there is a cycle left
  for it; the other vertices may get anything.
* `MovingKeepsLength`: after operators were moved the schedule is exactly as long as the
  one of them that needs most, with all that must follow it, and not longer than the
  shortest one if every margin lies within that (`Shortest`). When `deep_cycle` was
  right in the round before, the margins are those of the schedule. With one that was
  too small in the first round, the second round moves an operator that has no margin,
  and the third one finds margins in a schedule that has become longer, and uses them.

## 3. Runs

| Run | Instance | Shows |
|---|---|---|
| `net_pair` | two nodes, three tasks of the shipped list with one dependency, two slots | `TypeOK`, `PollStillValid`, `DependencyRespected`, `DoneAtDestination`; refinement of `AddressQueue` and `TaskDelivery` |
| `net_row` | three nodes, one task with two hops, two slots | under fairness the task is delivered and every thread leaves its loop |
| `net_opposed` | a square of four nodes, two tasks that cross it against each other, one slot | detours stay on the shortest paths; the routing loop spins only for LEFT |
| `axi_buffers` | buffers of two, three transfers, one load per range test | `RequestInOwnRange`, `MasterPollStillValid`, both buffers are one queue, every thread returns unless the read-data buffer is overrun |
| `axi_overrun` | shipped sizes | violation: a fifth entry is written into a buffer of four |
| `axi_torn` | shipped sizes, two loads per range test | violation: a slave serves a request that is not there |
| `bus_data` | three transfers, shipped wait | violation: data are taken that the addressed slave has not driven |
| `ios` | four entries, two of equal priority, three passes; the three tasks with times 4, 2, 3 and work 2; malloc may fail | the linked list is the queue of `TaskQueue`, freed memory is accessed exactly where it says; `TypeOK`, `TickSeparatesQueues`, `NoRequestLost`, also in ticks that stop in the middle, `FrozenAfterFailure`, `EmergencyServed` of the scheduler |
| `kernel_freed` | shipped times | violation: freed memory is accessed |
| `small_programs` | see below | ALU driver: the work list is the set of working ALUs, threads give up for memory only. Single bus (three transfers): a pending transfer is not overwritten; masters return unless the Receiver has used up its counter. Battery: the charge never reaches 0, wraps or overflows; runs are afforded again and again. Counter: ends at its limit or one above, both threads return. Booth: string and number agree, the result is that of the extended operand. Combinations: what is printed are the choices that fit, or nothing if the file cannot be read. Timing: exact on trees. Scheduler: chains fit, cycles are exact, the schedule is as long as the moved operators need |
| `deep_cycle` | graphs of two and three statements | violation: the walk back starts before the end of the schedule |
| `booth_sign` | registers of the shipped width, every operand they can hold | violation: for a negative `a` the binary result is not the product |

The violation runs are disagreements between the code and what its own
declarations and messages say; `PROJECT.json` quotes them under `findings`.

### Bounds

* `MaxWait` (the program's `cot`) is 1 to 3 instead of 10 in most runs: a poll
  that may succeed, one that may fail, and the give-up are all there, and the
  polls in between are alike. It is 10 where the violation is about time.
* FIFOs have one or two slots instead of `MAX_FIFO_DEEP`: one slot makes FULL
  frequent, two are needed for order and for the stale copy a shift leaves.
  The proofs hold for every depth.
* Two or three transfers on the buses let both slaves be addressed, the buffers
  fill, and a stale slot be seen. The overrun needs the shipped sizes and has
  them.
* The scheduler has its three tasks (`KernelAssumption` admits as many as
  `QUEUE_MAX` passes can sort, `QUEUE_MAX` + 1); shorter times keep the ratio of deadline
  to work that makes tasks expire while others work.
* Three ALUs are needed for an entry in the middle of the list; three commands
  let every ALU have one.
* The battery has its shipped tasks and its shipped size, divided by 50 and rounded. It is
  charged twice between two looks at `COT` instead of thirty times; `COT` does
  not change the outcome of a look. `UINT` is 2^16, far above the charge, so that
  a wrap would be seen.
* The counter has its shipped limits.
* Booth's registers have 4 bits and the operands 5, so that operands that do not
  fit, which the range test admits, are among them. The shipped widths, 5 and
  16, have the same relation. `booth_sign` uses 5 bits for both.
* The combinations have their shipped tables and constraint; a file that is there at
  the start is that of an earlier run.
* ASALAP gets every graph on four vertices with edges of weight 1 or 3, in
  either order (`TimingAssumption` excludes cycles): diamonds, chains and vertices reached twice are all there.
* The scheduler gets the graphs of two statements of two operators each, the
  second one using the result of the first, with `+` of delay 1 and `*` of
  delay 2: chains that fit and chains that do not, registers with one and two
  readers, edges that are there twice. In the graphs of three statements
  (`ThreeStatements`) the third one has two cycles to go to, and the force pulls its
  one or two operators, which follow each other, into the later one: the only graphs
  in which something is moved. Every vertex with several successors gets its edges in
  every order, so that `deep_cycle` comes out right in some behaviours and too small
  in others.

### Fairness

`FairSpec` gives every thread weak fairness for its steps as a whole: a thread
is never stopped by the program, only delayed by sleeps of bounded length, and a
mutex that is free most of the time is granted to a thread that asks for it. In
the network and in the buses a critical section is one step and is enabled for
as long as the thread is at it, so weak fairness is enough. In `MicroKernel` the
enabling conditions are written out (`iTASKReady`, `iOSReady`), which says the
same as weak fairness of the threads until a failure. In `MC_SmallPrograms` the
threads of the bus, of the battery and of the counter have weak fairness, for the same
reasons. No fairness is assumed of main, of malloc or of spurious wakeups.

### Deadlock

Deadlock is checked in `net_pair`, `net_row`, `axi_buffers` and `small_programs`;
a program whose main has returned stutters, which for the programs of
`MC_SmallPrograms` is `Finished`; for the bus this includes slaves that wait for
`Busy` for ever (`SlavesDone`). It is not checked where the code
really stops: in `net_opposed` a thread spins with the mutex, in `ios` a thread exits with the mutex and the
list ends at the first access to freed memory.

## 4. Proofs

`NetworkOnChip_proofs` proves, for every set of tasks and nodes that satisfies
`NetAssumption`, every FIFO depth and every number of polls:

| Theorem | Statement |
|---|---|
| `TypeCorrect` | `Spec => []TypeOK` |
| `PollsStayValid` | `Spec => []PollStillValid` |
| `Dependencies` | `Spec => []DependencyRespected` |
| `OnPath` | `Spec => []EntriesOnPath` |
| `SpinsLeft` | `Spec => []SpinsOnlyLeft` |
| `CompletedAtDestination` | `Spec => DoneAtDestination` |
| `Delivery` | `Spec => ImplementsTaskDelivery` |
| `FifosImplementQueues` | `Spec => FifosAreQueues` |

`NetAssumption` says what the compiled `TaskList` satisfies: addresses are base
addresses of nodes, `DepTId` names a task of the list or none, and the nodes on
the shortest paths have threads.

The inductive invariant is `IInv`: the type invariant, the agreement of the
flags with the index, and the four safety invariants together. They need each
other. A push keeps `PollStillValid` because only the node's own Set thread
pushes into its FIFO and the flag it polled is the index's; a pop keeps
`EntriesOnPath` because the entry decodes to the popping node, which is part of
`EntriesOnPath` itself, and because a hop that is found stays in the rectangle
of shortest paths whatever the FULL flags are (`HopOnPath`);
`DependencyRespected` needs `EntriesOnPath` for a task that cannot be completed
by an entry it does not have; and `SpinsOnlyLeft` needs that a hung thread's
entry and its neighbour's flag are frozen. `PushStep`, `ForwardStep` and
`TakeStep` do the work once per critical section; `SetLoopStep` and
`GetLoopStep` dispose of polling; `NextIInv` puts them together. The two
refinements and `DoneAtDestination` are step properties proved under `IInv`.

`SmallPrograms_proofs` proves of `InOrderBus`, for every wait and every number of transfers, with
one load or two in a range test:

| Theorem | Statement |
|---|---|
| `TypesHold` | `BusSpec => []BusTypeOK` |
| `TransfersSurvive` | `BusSpec => []RequestNotOverwritten` |

`BusTypeOK` says that no counter wraps, which is not obvious of the Receiver's, as
it is never set again. It needs `ReceiverMayCount`: the Receiver that is past
its loop test still has a transfer to count, because nobody else counts.

`OutOfOrderBus_proofs` proves, for every depth of the buffers, wait and number of
transfers, if a range test loads the address once:

| Theorem | Statement |
|---|---|
| `TypesHold` | `Spec => []TypeOK` |
| `SlaveServesItsOwn` | `Spec => []RequestInOwnRange` |
| `MasterFindsWhatItPolled` | `Spec => []MasterPollStillValid` |
| `BuffersAreOneQueue` | `Spec => ReadsInRequestOrder`, the refinement of `AddressQueue` |

`ReadsOnce` is a hypothesis of each, and `axi_torn` shows that it is needed: with
two loads a slave serves a request that is not there, after which the buffers no
longer hold what the index says. The inductive invariant describes what the arrays
hold, `AddressesInPlace` and `ReadDataInPlace`: entries up to the index, zeros
behind it. A slave tests slot 0 of `ToAddr` and nothing else, so that an empty
buffer must show it a zero there; that the shifting loop leaves one, although it
copies the word behind the array into a full buffer, is the reason for the
invariant. What lies behind `ToAddr` is the index in page 0, which is 0, and what
lies behind `FmAddr`, the first word of `ToAddr`, is copied into an array that
nobody tests. The read-data buffer has room for one entry too many; the refinement holds
in that state too. A slave's step moves an entry from one buffer to the other and
is a stutter of the abstract queue; the Transmitter's is a `Put`, the Receiver's a
`Take`.

`MicroKernel_proofs` proves, for every set of tasks that `KernelAssumption`
admits, with their times, priorities and work, and for every `QUEUE_MAX`:

| Theorem | Statement |
|---|---|
| `TypesHold` | `Spec => []TypeOK` |
| `TicksSeparate` | `Spec => TickSeparatesQueues` |
| `RequestsSurvive` | `Spec => NoRequestLost` |
| `FailureFreezes` | `Spec => FrozenAfterFailure` |

The inductive invariant is `QueuesOK /\ ControlOK`. Each queue holds at most one
entry of a task, and `Fresh`: an entry whose task is in the emergency queue as
well is not about to expire. `Fresh` is what keeps the emergency queue from
getting a second entry of a task: a task asks again while its old entry is being
worked on, its new entry starts with its whole time, and the next tick takes it
out before its time is up. Most of the module is lemmas about `TaskQueue`: what
every operation does to the entries of a queue, whatever their number. That a
sort is a permutation (`RankIsPermutation`) is where the entries must be counted;
moving and expiring are loops over the emergency queue and are argued about by
least counterexample. A move that fails has met, for every entry of the normal queue,
an entry of its task in the emergency queue (`FailedMove`), so the freed entries have
been copied (`GivenUpKeepsTasks`). After a failure `Fresh` is no longer claimed, as a
sorted and aged queue is left behind that no tick will look at.

`LinkedQueue_proofs` proves, for every set of at most `QUEUE_MAX` + 1 entries with
any priorities and every `QUEUE_MAX`:

| Theorem | Statement |
|---|---|
| `ListIsTheQueue` | `ListSpec => []ListIsQueue` |
| `AccessesAsForeseen` | `ListSpec => []FreedAsForeseen` |

The bound on the entries (`NodeAssumption`, the counterpart of
`KernelAssumption`) is what a fixed number of passes can sort; a list of the program
holds each of its three tasks at most once, and `QUEUE_MAX` is 3. While a sort runs, the
list is not the queue before it nor the one after it. The inductive invariant
`ListIInv` says that the entries are linked in *some* order of the positions of
the queue (`Links`), and of that order two things. `Stable`: entries of equal
priority still are in the order of the queue, because only neighbours out of order
are exchanged, and a first entry with a stale `pre` has not moved. `Settled`: after
`d` passes the last `d` places hold what belongs there, and the pass under way
carries the largest entry it has met. `AdvanceSettles`, `ExchangeSettles` and
`PassSettles` are the three steps of that argument; `ExchangeLinks` is the pointer
code of an exchange, with its cases for the first and the last pair.
`SettledIsSorted` says that an order that is stable and settled everywhere is that
of `SortBy`, which places an entry by the number of those that come before it.
Once freed memory has been accessed nothing is claimed of the list: the program's
behaviour is undefined from there on.

`AluPool_proofs` proves, for every finite set of ALUs and number of commands:

| Theorem | Statement |
|---|---|
| `TypesHold` | `Spec => []TypeOK` |
| `ListStaysIntact` | `Spec => []ListIntact` |
| `ListedAreWorking` | `Spec => []WorkersListed` |
| `OnlyMemoryEndsEarly` | `Spec => []GivesUpForMemoryOnly` |

The inductive invariant says of the pointers that some sequence of the working
ALUs, each once, is linked forwards by `nxt` and backwards by `pre` (`Linked`).
`PutLinks` and `DelLinks` give the sequence after an insertion at the head and
after taking out an entry anywhere; `EntriesOfLinks` says that walking along
`nxt`, as the program does, finds the entries of the sequence and no others.

Of the battery it proves `ChargeStaysInRange` (`ReflexSpec => []ChargeInRange`)
and `MutexNeverKept` for every battery, list of tasks and step of charging that
satisfies `ReflexAssumption`: the compiled battery is neither empty nor full, the
list is not empty, and a full battery takes one more charging without a wrap.
The invariant adds that a thread that runs a task runs one of the list. A run is
refused unless nine tenths of the charge exceed it, so subtraction never borrows
and never empties the battery (`AffordedLeavesCharge`); with that, no thread
exits with the mutex.

It proves `CountEnds` (`CountSpec => []CountsToDone`) for every
limit and every pair of halts below it. `CountsToDone` alone is not inductive: a
thread that passed its last test counts without another one. `CountersLeft` says
that at the limit one thread at most is past its test, and above it none.

And it proves of the multiplier, for every width of the registers and every range
of the operands, `ColumnsAgree` (`BoothSpec => []UpperHalfIsC`) and
`MultipliesExtended` (`BoothSpec => []ProductOfExtended`). The inductive invariant
is the argument for Booth's algorithm: additions and subtractions of `a`
alternate, so that the sum stays between 0 and `a` or between `-a` and 0 and fits
into its half (`Balanced`); and the number so far is the multiple of `a` by the
bits of `b` that have been read, those with the highest one negative, plus the
bit `b` was extended with (`PartialProduct`). Shifting the bits of a number shifts
the number only if it fits (`ShiftedNumber`).

It proves `AnswersFit` (`DvfsSpec => []AnswersAreTheFittingChoices`) for all times of
the work modes and every constraint, with failing openings of the file. What `combination` writes is computed from its
definition (`LinesAre`): seven lines, which are all choices of modes, each once
(`ChosenFacts`). The invariant `DvfsIInv` says how far the file has been read: the
lists hold the time of every line read, and inside a line the totals are the times
of the modes taken so far, which grow by one mode that is new (`TakenFacts`,
`TimeOfFacts`). The two loops that print are lists of pairs that grow by a pair, or
by a row of pairs, that was not there (`FittingRowFacts`, `FittingFacts`).

It proves `ReportIsExactOnTrees` (`TimingSpec => []ExactOnTrees`) for every finite
acyclic graph without double edges, every order of its edges and every order of
the two lists. `TimingInv` says what is known at each point of `main.pl`:

* During the walk to the ends (`AsapInv`) no time is too late (`NotLate`); every
  edge that has been used behind a tree counts in full (`Counted`); a vertex on
  the list is a begin or the end of a used edge (`Reached`), so that the only edge
  into a vertex of a tree has been used when the vertex is taken; and a vertex
  with unused edges is on the list or behind another such vertex (`Waiting`), so
  that an empty list means that none is left, else the one of least rank would
  contradict it (`AsapEnds`).
* The second walk repeats the first (`RunRepeats`): a step is a function of the
  lists, the stacks and the times (`AsapIsNextState`), so that the second walk
  passes through the same states and gives the ends the times in `ASAP_list`.
* The walk back (`AlapInv`) mirrors the first, before chains instead of behind
  trees. There the invariant is an equality (`CountedBack`): before a chain a time
  is 0 until the only edge from the vertex is used, and exact from then on.

The true times are recursive functions over the graph. They have a solution
because each value depends on vertices of lower rank only (`RecursionOverRanks`).

`ForceDirected_proofs` proves `ChainsFit` (`ForceSpec => []ChainsFitCycle`) for every
graph that `FrontAssumption` admits, all delays, and every order of the ends: no
chain of operators is longer than a cycle, and a register stands only where the
operator before it does not fit to the chain behind it.

The weights that the recursion works with are lost on the way (a vertex has 0 when it
returns), so the invariant `SplitInv` is about what the program does not keep, whose
existence is `SplitSafe`: the graph `g` that the front end built, the ranks `R` of
its vertices, and the delay `T` of the chain that starts in each as far as the split
has got. It says

* of the recursion, that the stacks and the rest of `g` are the edges still to go,
  that ranks fall along `splitting`, and that weights are 0 or those of the chains on
  the path (`OnThePath`); that an operator is reached over one edge only
  (`LeftToSplit`) and until then has its own delay and no new edges (`FreshAlone`);
* of the new graph, that its edges match in both directions (`Edges`), that a register
  is between two vertices that do not fit (`RegistersMade`), and that there are fewer
  registers than operators, so that the names suffice (an injection, `RegisterLeft`);
* of `T`, that an operator has its own delay until an edge leaves it, and from then on
  that plus the delay of the chain behind it, which is 0 behind a register, and never
  more than a cycle (`Chains`).

When the recursion is done, `T` is `ChainFrom` for all operators, or the
counterexample of greatest rank would contradict it (`ChainFromIsT`), and the chain to
a vertex and the one behind it fit into a cycle together (`ChainToFits`). `LongestFacts`
says that `Longest` is what it claims to be: the recursion has a solution, and a value
is the base, or comes from a vertex before, and is not below either. The invariant was
checked with TLC, conjunct by conjunct, before it was proved.

It proves `WalksAreExact` (`ForceSpec => []CyclesExact`) of the rounds, for the same
graphs and every order in which the edges are pushed again. Both walks are one kind of walk (`Walking`), the
walk back along the reversed edges with cycles counted from the end (`FromEnd`), so the
argument is made once:

* The keys of the vertices grow, up to those of the longest ways, since a step hands on
  what is the key of a way.
* A vertex whose stack has been used up comes, in rank, before all that the walk may take
  before the next end refills the stacks. So the vertex that is taken always has all its
  edges (`WalkTakes`), although stacks are emptied on the way.
* Some set of vertices is settled (`Settled`): they passed their key on to all that
  follow and kept it since. Every other vertex is on the list or behind another one that
  is not settled. An empty list therefore leaves none unsettled, as the one of least rank
  would have to be on it, and settled keys are those of the longest ways (`WalkEnds`).

The walks come to the vertices with new edges only because the split leaves no edge of
the old graph behind (`AllSplit`). On the way back 0 means that a vertex has no cycle
yet, so what the walk does where it runs out of cycles is beyond the argument. It is
made for the vertices that have a cycle left (`Fit`): they are reached through such
vertices only (`FitClosed`), and a walk that is exact on a set closed in this way need
not be on the rest (`Closed`, `Settled`). That all vertices fit when the walk starts from
the length of the schedule is `CyclesFollow`: no more cycles must follow than the
schedule is long. That `deep_cycle` is never too large is `DeepKept`: what is assigned
is a cycle that the vertex behind the register reaches (`DeepGoesOn`), and every walk
crosses every register, so that a value of the round before does not survive it.

And it proves `MovesKeepLength` (`ForceSpec => []MovingKeepsLength`). The schedule is not
shorter than any of the moved operators needs (`Needed`), since the cycles after them
must follow (`WaysFit`), nor than the shortest schedule, since no vertex comes earlier
than there (`LaterStarts`). And it is not longer than the greatest of these: every start
leaves room in it for what must follow, and then every vertex does, also behind several
that were moved (`RoomKept`). `LongestAlone` puts the two together. When all that is moved stays within its margin of the
shortest schedule, none needs more than that (`RoundSafeKeepsLength`). That the margins are those of the schedule when
`deep_cycle` is its length follows from `CyclesExact` once control steps have been
assigned (`MarginsMade`, `MarginsKept`).

`ProofLemmas` holds what the library does not state in a usable form: a set of
natural numbers has a least element and a finite one a greatest, the vertices of a
finite graph without cycles have ranks, a function defined by recursion over
`0 .. n` or over the ranks of a graph exists, sequences given by their elements,
with a new first or last one or with one taken out, the permutations of a finite set,
powers of two double, and quotient and remainder are unique. With the first two, the loops of the source that the
models write as recursive functions can be reasoned about, by least
counterexample instead of induction.

Only model-checked is all liveness (`AllDelivered`, `AllThreadsExit`,
`EndsUnlessOverrun`, `BusComesToRest`, `EmergencyServed`, `BatteryAffordsRuns`,
`CounterReturns`), which TLAPS cannot prove.

## 5. Not modelled

* In the network, the data phase (`DataFIFO`, `Data_*`) is declared and
  initialised but used by nothing, and the `Nxt` tables are written and never
  read.
* Printing is left out everywhere.
* In `dvfs.cpp`, a `tmp.f` with other contents than an earlier run writes, and writes
  that fail after the file was opened (no space on the disk).
* `free_queue` in `iOS/queue.h` and the `empty` and `full` tests of
  `CUDA/queue.h` are never called.
* In `constrain2DFG.pm`, the ALUDFG part, which prepares the printing of the
  state machine; in `CDFG.pm`, the report, which sorts the results into two
  lists, and the functions nobody calls.
* `MESI`: main starts `cpu0` and `cache0` only. `struct interface` has seven
  members and six initialisers, so `MISS` goes to `rw` and `hit_or_not` is 0,
  which is `HIT`: `cpu0` walks through its ten tasks unanswered and exits.
  `cache0` waits for the request of the second interface, which nobody drives,
  for ever. No step of the cache protocol is ever taken, so there is no
  behaviour to model.
* `BIST`, `PCI`, `CPU`, `ARM_NEON` make a fixed sequence of calls on fixed data.
* The front and back end of the scheduler, `SysVeiPerl`, `DFG` and the rest are
  string processing, drawing, Verilog and scratch files; `PROJECT.json` gives the
  reason for each.

## 6. Plan

In order of importance; all stages are done.

1. `NetworkOnChip` with its two abstract specifications, and its proofs.
2. `OutOfOrderBus` and `InOrderBus`.
3. `TaskQueue`, `LinkedQueue`, `MicroKernel`.
4. `AluPool`.
5. `ForceDirected` and `AsapAlap`.
6. `SmartReflex`, `CountTwice`, `Booth`, `Dvfs`.
7. Proofs: the safety invariants, action properties and refinements of the
   network, both buses, the linked lists, the scheduler, the ALU driver, the
   battery, the counter and the multiplier, what `Dvfs` prints, the times of
   `AsapAlap`, and the chains, cycles and length of the force-directed schedule.
