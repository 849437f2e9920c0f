---------------------------- MODULE MicroKernel ----------------------------
(***************************************************************************)
(* The task scheduler of iOS/iOS.c over the linked lists of iOS/queue.h.   *)
(* The threads iTASK_k put their task into the normal queue; the thread    *)
(* iOS ages the entries once a tick, moves those that timed out to the     *)
(* emergency queue and works one unit on the head of the queue it prefers. *)
(*                                                                         *)
(* The queues are those of TaskQueue.  When an operation follows the stale *)
(* pre pointer of a first entry into freed memory its effect is undefined: *)
(* freed becomes TRUE and the model ends there.                            *)
(***************************************************************************)
EXTENDS TaskQueue

CONSTANTS
  TaskIds,                       (* the indices of TASK                    *)
  TimeOut, Priority, WorkTime,   (* the fields of TASK[id]                 *)
  MallocFails                    (* whether malloc may return NULL         *)

(* No queue ever gets longer than QUEUE_MAX passes can sort.               *)
ASSUME KernelAssumption ==
  /\ TaskIds \subseteq Nat
  /\ IsFiniteSet(TaskIds) /\ Cardinality(TaskIds) <= QUEUE_MAX + 1
  /\ TimeOut  \in [TaskIds -> Nat]
  /\ Priority \in [TaskIds -> Nat]
  /\ WorkTime \in [TaskIds -> Nat]
  /\ \A id \in TaskIds : TimeOut[id] > SYS_TIME /\ WorkTime[id] > 0
  /\ MallocFails \in BOOLEAN

VARIABLES
  qptr, emgcy_qptr,   \* the queues
  dangling,           \* the entries qptr points at have been freed
  failed,             \* SYS_STATUS = OS_QUEUE_FAIL
  held,               \* a thread has exited with count_mutex locked
  taskPc, osPc, mainPc,
  freed               \* freed memory has been accessed

vars == <<qptr, emgcy_qptr, dangling, failed, held, taskPc, osPc, mainPc, freed>>

Init ==
  /\ qptr = EmptyQueue /\ emgcy_qptr = EmptyQueue /\ dangling = FALSE
  /\ failed = FALSE /\ held = FALSE /\ freed = FALSE
  /\ taskPc = [id \in TaskIds |-> "check"]
  /\ osPc = "check"
  /\ mainPc = "poll"
-----------------------------------------------------------------------------
(* iOS.c *)

Entry(id) == [id |-> id, time_out |-> TimeOut[id], priority |-> Priority[id],
              work_time |-> WorkTime[id]]

(* SYS_STATUS is looked at before the mutex is requested.                  *)
iTASK_Check(id) ==
  /\ taskPc[id] = "check"
  /\ taskPc' = [taskPc EXCEPT ![id] = IF failed THEN "exited" ELSE "lock"]
  /\ UNCHANGED <<qptr, emgcy_qptr, dangling, failed, held, osPc, mainPc, freed>>

iTASK_Push_Again(id) ==
  /\ taskPc[id] = "lock" /\ ~held
  /\ qptr' = IF is_queue_full(qptr) THEN qptr ELSE push_queue_head(qptr, Entry(id))
  /\ taskPc' = [taskPc EXCEPT ![id] = "check"]
  /\ UNCHANGED <<emgcy_qptr, dangling, failed, held, osPc, mainPc, freed>>

iTASK_Push(id) ==
  /\ taskPc[id] = "lock" /\ ~held
  /\ qptr' = IF is_queue_full(qptr) \/ id \in Ids(qptr)
             THEN qptr ELSE push_queue_head(qptr, Entry(id))
  /\ taskPc' = [taskPc EXCEPT ![id] = "check"]
  /\ UNCHANGED <<emgcy_qptr, dangling, failed, held, osPc, mainPc, freed>>

(* pthread_exit with the mutex locked.                                     *)
iTASK_PushFails(id) ==
  /\ MallocFails
  /\ taskPc[id] = "lock" /\ ~held
  /\ ~is_queue_full(qptr) /\ id \notin Ids(qptr)
  /\ failed' = TRUE /\ held' = TRUE
  /\ taskPc' = [taskPc EXCEPT ![id] = "exited"]
  /\ UNCHANGED <<qptr, emgcy_qptr, dangling, osPc, mainPc, freed>>

iOS_Check ==
  /\ osPc = "check"
  /\ osPc' = IF failed THEN "exited" ELSE "lock"
  /\ UNCHANGED <<qptr, emgcy_qptr, dangling, failed, held, taskPc, mainPc, freed>>

Breaks ==
  /\ freed' = TRUE
  /\ UNCHANGED <<qptr, emgcy_qptr, dangling, failed, held, taskPc, osPc, mainPc>>

iOS_Fail_Unlocks(q, emgcy, dangles) ==
  /\ qptr' = q /\ emgcy_qptr' = emgcy /\ dangling' = dangles
  /\ failed' = TRUE /\ osPc' = "exited"
  /\ UNCHANGED <<held, taskPc, mainPc, freed>>

iOS_Fail_CopiesDropped(q, emgcy, dangles) ==
  /\ qptr' = q /\ dangling' = dangles
  /\ failed' = TRUE /\ held' = TRUE /\ osPc' = "exited"
  /\ UNCHANGED <<emgcy_qptr, taskPc, mainPc, freed>>

(* The tick is given up and the queues stay as it has left them so far:    *)
(* nobody gets the mutex any more.                                         *)
iOS_Fail(q, emgcy, dangles) ==
  /\ qptr' = q /\ emgcy_qptr' = emgcy /\ dangling' = dangles
  /\ failed' = TRUE /\ held' = TRUE /\ osPc' = "exited"
  /\ UNCHANGED <<taskPc, mainPc, freed>>

Ticked(q, emgcy) ==
  /\ qptr' = q /\ emgcy_qptr' = emgcy
  /\ osPc' = "check"
  /\ UNCHANGED <<dangling, failed, held, taskPc, mainPc, freed>>

Work_NormalFirst(q, emgcy) ==
  LET chosen == IF is_queue_empty(q) THEN emgcy ELSE q
  IN  IF SortFollowsStale(chosen, ByPriority) THEN Breaks
      ELSE \E worked \in {WorkOnHead(SortBy(chosen, ByPriority))} :
             IF is_queue_empty(q) THEN Ticked(q, worked)
             ELSE Ticked(worked, emgcy)

(* Work on the emergency queue if it has an entry, else on the normal one. *)
Work(q, emgcy) ==
  LET chosen == IF is_queue_empty(emgcy) THEN q ELSE emgcy
  IN  IF SortFollowsStale(chosen, ByPriority) THEN Breaks
      ELSE \E worked \in {WorkOnHead(SortBy(chosen, ByPriority))} :
             IF is_queue_empty(emgcy) THEN Ticked(worked, emgcy)
             ELSE Ticked(q, worked)

(* With the normal queue empty nothing is done, not even on the emergency  *)
(* queue.                                                                  *)
iOS_TickEmpty ==
  /\ osPc = "lock" /\ ~held
  /\ is_queue_empty(qptr)
  /\ Ticked(qptr, emgcy_qptr)

(* When del_queue is called on a queue that has become empty, all entries  *)
(* of the normal queue are freed, and qptr, assigned only at the end,      *)
(* still points at them; the expired ones have been copied before.         *)
iOS_Tick ==
  /\ osPc = "lock" /\ ~held
  /\ ~is_queue_empty(qptr)
  /\ \E aged \in {update_queue_time_out(qptr)} :
     \E sorted \in {SortBy(aged, ByTimeOut)} :
     \E emgcy \in {check_queue_time_out(sorted, emgcy_qptr)} :
       IF SortFollowsStale(aged, ByTimeOut) \/ mv_queue_follows_stale(sorted, emgcy)
       THEN Breaks
       ELSE IF mv_queue_fails(sorted, emgcy) THEN iOS_Fail(EmptyQueue, emgcy, TRUE)
       ELSE \E kept \in {mv_queue_to_queue(sorted, emgcy)} : Work(kept, emgcy)

(* push_queue_head of check_queue_time_out finds no memory for an expired  *)
(* entry.  The normal queue is aged and sorted; the copies made before     *)
(* are lost, as emgcy_qptr is assigned only at the end, but the first of   *)
(* them has become the predecessor of its first entry.                     *)
iOS_TickNoMemory ==
  /\ MallocFails
  /\ osPc = "lock" /\ ~held
  /\ \E aged \in {update_queue_time_out(qptr)} :
       /\ ~SortFollowsStale(aged, ByTimeOut)
       /\ \E copies \in 0 .. Cardinality({i \in DOMAIN aged.es : aged.es[i].time_out = 0}) - 1 :
            iOS_Fail(SortBy(aged, ByTimeOut),
                     [emgcy_qptr EXCEPT !.stale = @ /\ copies = 0], FALSE)

(* main destroys the mutex and joins all threads once it sees the failure. *)
MainPoll ==
  /\ mainPc = "poll" /\ failed
  /\ mainPc' = "join"
  /\ UNCHANGED <<qptr, emgcy_qptr, dangling, failed, held, taskPc, osPc, freed>>

MainJoin ==
  /\ mainPc = "join"
  /\ osPc = "exited" /\ \A id \in TaskIds : taskPc[id] = "exited"
  /\ mainPc' = "exited"
  /\ UNCHANGED <<qptr, emgcy_qptr, dangling, failed, held, taskPc, osPc, freed>>

iTASK(id) == iTASK_Check(id) \/ iTASK_Push(id) \/ iTASK_PushFails(id)
iOS == iOS_Check \/ iOS_TickEmpty \/ iOS_Tick \/ iOS_TickNoMemory

Next ==
  /\ ~freed
  /\ (\E id \in TaskIds : iTASK(id)) \/ iOS \/ MainPoll \/ MainJoin

Spec == Init /\ [][Next]_vars

(* When a thread has a step to make. *)
iTASKReady(id) == taskPc[id] = "check" \/ (taskPc[id] = "lock" /\ ~held)
iOSReady       == osPc = "check" \/ (osPc = "lock" /\ ~held)

(* Every thread sleeps for a bounded time; a step that takes the mutex     *)
(* gives it back unless the thread exits with it.  (Weak fairness, with    *)
(* ENABLED spelled out.)                                                   *)
Fairness ==
  /\ \A id \in TaskIds :
       []<>(freed \/ ~iTASKReady(id)) \/ []<><<iTASK(id)>>_taskPc
  /\ []<>(freed \/ ~iOSReady) \/ []<><<iOS>>_<<osPc, freed>>

FairSpec == Spec /\ Fairness
-----------------------------------------------------------------------------
QueueOK(q) ==
  /\ q.stale \in BOOLEAN
  /\ \A i \in DOMAIN q.es :
       /\ q.es[i].id \in TaskIds
       /\ q.es[i].priority = Priority[q.es[i].id]
       /\ q.es[i].time_out \in 0 .. TimeOut[q.es[i].id]
       /\ q.es[i].work_time \in 1 .. WorkTime[q.es[i].id]
  /\ \A i, j \in DOMAIN q.es : q.es[i].id = q.es[j].id => i = j

(* Types; in each queue a task has at most one entry, none of them without *)
(* work left, and neither queue gets longer than QUEUE_MAX passes can      *)
(* sort: a task that is queued again while it waits in the emergency queue *)
(* is removed before it can expire a second time (queue.h:216-224,         *)
(* 293-304, iOS.c:74-83).                                                  *)
TypeOK ==
  /\ QueueOK(qptr) /\ QueueOK(emgcy_qptr)
  /\ Len(qptr.es) <= QUEUE_MAX /\ Len(emgcy_qptr.es) <= QUEUE_MAX + 1
  /\ failed \in BOOLEAN /\ held \in BOOLEAN /\ freed \in BOOLEAN
  /\ dangling \in BOOLEAN
  /\ taskPc \in [TaskIds -> {"check", "lock", "exited"}]
  /\ osPc \in {"check", "lock", "exited"}
  /\ mainPc \in {"poll", "join", "exited"}

(* After a tick no task is in both queues, whatever was queued again since *)
(* the last one (queue.h:293-304).                                         *)
TickSeparatesQueues ==
  [][osPc = "lock" /\ osPc' = "check" =>
       Ids(qptr') \intersect Ids(emgcy_qptr') = {}]_vars

Finished(q, id) ==
  \E i \in DOMAIN q.es : q.es[i].id = id /\ q.es[i].work_time <= SYS_TIME

(* No request is lost: a task leaves the normal queue because its work is  *)
(* done, because it moves to the emergency queue, or because it waits in   *)
(* the emergency queue already; it leaves that one only when its work is   *)
(* done.  This holds of the tick that stops in the middle, too: whatever   *)
(* it has freed is in the emergency queue (queue.h:113-144, 293-335,       *)
(* iOS.c:142-173).                                                         *)
NoRequestLost ==
  [][\A id \in TaskIds :
       /\ id \in Ids(qptr) \ Ids(qptr') =>
            \/ id \in Ids(emgcy_qptr) \union Ids(emgcy_qptr')
            \/ Finished(qptr, id)
       /\ id \in Ids(emgcy_qptr) \ Ids(emgcy_qptr') => Finished(emgcy_qptr, id)
    ]_vars

(* Once a thread has given up, no thread touches the queues, not even one  *)
(* that looked at SYS_STATUS before: it would use a qptr that may point at *)
(* freed entries (iOS.c:71-82, 135-145, queue.h:302).                      *)
FrozenAfterFailure == [][failed => UNCHANGED <<qptr, emgcy_qptr, dangling>>]_vars

(* A task in the emergency queue gets its work done, although the queue is *)
(* only served while the normal queue has an entry and the urgent tasks    *)
(* keep coming back, unless the scheduler gives up or breaks               *)
(* (iOS.c:139-140, 147-157).                                               *)
EmergencyServed ==
  \A id \in TaskIds :
    id \in Ids(emgcy_qptr) ~> id \notin Ids(emgcy_qptr) \/ failed \/ freed

(* "delete head": taking out or exchanging the first entry of a list       *)
(* follows no pointer to freed memory (queue.h:124-127, 195-198).          *)
NoFreedAccess == ~freed
=============================================================================
