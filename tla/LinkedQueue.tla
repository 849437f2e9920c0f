---------------------------- MODULE LinkedQueue ----------------------------
(***************************************************************************)
(* The doubly linked list of iOS/queue.h, pointer by pointer: what each    *)
(* operation leaves in nxt and pre, next to what TaskQueue says it does.   *)
(* An entry is identified with its task; malloc gives memory that is not   *)
(* in use, free takes it back.  push, pop and del run in one step, the     *)
(* sort one comparison at a time.                                          *)
(***************************************************************************)
EXTENDS TaskQueue

CONSTANTS Node, NodePriority

(* QUEUE_MAX passes sort no longer list.                                   *)
ASSUME NodeAssumption ==
  /\ Node \subseteq Nat \ {0}
  /\ IsFiniteSet(Node) /\ Cardinality(Node) <= QUEUE_MAX + 1
  /\ NodePriority \in [Node -> Nat]

NULL == 0

VARIABLES
  nxt, pre, live, qulist,    \* the memory, what is allocated, and the list
  sortPc, i, hqu, qu_1,      \* of the sort that is running
  misused,                   \* freed memory has been accessed
  q, doomed                  \* TaskQueue's queue and whether it foresees that

mem  == <<nxt, pre, live>>
sort == <<sortPc, i, hqu, qu_1>>
listVars == <<nxt, pre, live, qulist, sortPc, i, hqu, qu_1, misused, q, doomed>>

QueueEntry(n) == [id |-> n, priority |-> NodePriority[n]]

ListInit ==
  /\ nxt = [n \in Node |-> NULL] /\ pre = [n \in Node |-> NULL]
  /\ live = {} /\ qulist = NULL
  /\ sortPc = "idle" /\ i = 0 /\ hqu = NULL /\ qu_1 = NULL
  /\ misused = FALSE
  /\ q = EmptyQueue /\ doomed = FALSE
-----------------------------------------------------------------------------
push(n) ==
  /\ sortPc = "idle" /\ n \notin live
  /\ live' = live \union {n}
  /\ nxt' = [nxt EXCEPT ![n] = qulist]
  /\ pre' = [m \in Node |-> IF m = n THEN NULL
                            ELSE IF m = qulist THEN n ELSE pre[m]]
  /\ qulist' = n
  /\ q' = push_queue_head(q, QueueEntry(n))
  /\ UNCHANGED <<sort, misused, doomed>>

(* The pre pointer of the next entry is left as it is. *)
pop ==
  /\ sortPc = "idle" /\ qulist # NULL
  /\ qulist' = nxt[qulist]
  /\ live' = live \ {qulist}
  /\ q' = pop_queue_head(q)
  /\ UNCHANGED <<nxt, pre, sort, misused, doomed>>

(* Only the entry's own pointers tell where it is. *)
del_StalePre(n) ==
  /\ sortPc = "idle" /\ n \in live
  /\ doomed' = DelFollowsStale(q, n)
  /\ q' = del_queue(q, n)
  /\ live' = live \ {n}
  /\ nxt' = [m \in Node |-> IF m = pre[n] THEN nxt[n] ELSE nxt[m]]
  /\ qulist' = IF pre[n] = NULL THEN nxt[n] ELSE qulist
  /\ misused' = (pre[n] # NULL /\ pre[n] \notin live)
  /\ UNCHANGED <<pre, sort>>

del(n) ==
  /\ sortPc = "idle" /\ n \in live
  /\ doomed' = DelFollowsStale(q, n)
  /\ q' = del_queue(q, n)
  /\ live' = live \ {n}
  /\ nxt' = [m \in Node |-> IF m = pre[n] THEN nxt[n] ELSE nxt[m]]
  /\ pre' = [m \in Node |-> IF m = nxt[n] THEN pre[n] ELSE pre[m]]
  /\ qulist' = IF pre[n] = NULL THEN nxt[n] ELSE qulist
  /\ misused' = (pre[n] # NULL /\ pre[n] \notin live)
  /\ UNCHANGED sort

(* An empty list cannot be sorted. *)
sort_begin ==
  /\ sortPc = "idle" /\ qulist # NULL
  /\ sortPc' = "swap" /\ i' = 0 /\ hqu' = qulist /\ qu_1' = qulist
  /\ doomed' = SortFollowsStale(q, ByPriority)
  /\ UNCHANGED <<mem, qulist, misused, q>>

(* qu_1 is exchanged with its successor and compared again, *)
swap_exchange ==
  LET b == nxt[qu_1]
      p == pre[qu_1]
      c == nxt[b]
  IN  /\ sortPc = "swap" /\ qu_1 # NULL /\ b # NULL
      /\ NodePriority[qu_1] > NodePriority[b]
      /\ nxt' = [m \in Node |-> IF m = qu_1 THEN c
                                ELSE IF m = b THEN qu_1
                                ELSE IF m = p THEN b ELSE nxt[m]]
      /\ pre' = [m \in Node |-> IF m = b THEN p
                                ELSE IF m = qu_1 THEN b
                                ELSE IF m = c THEN qu_1 ELSE pre[m]]
      /\ hqu' = IF p = NULL THEN b ELSE hqu
      /\ misused' = (p # NULL /\ p \notin live)
      /\ UNCHANGED <<live, qulist, sortPc, i, qu_1, q, doomed>>

(* or the pass moves on. *)
swap_advance ==
  /\ sortPc = "swap" /\ qu_1 # NULL /\ nxt[qu_1] # NULL
  /\ NodePriority[qu_1] <= NodePriority[nxt[qu_1]]
  /\ qu_1' = nxt[qu_1]
  /\ UNCHANGED <<mem, qulist, sortPc, i, hqu, misused, q, doomed>>

pass_end_OneLess ==
  /\ sortPc = "swap" /\ nxt[qu_1] = NULL
  /\ i' = i + 1 /\ qu_1' = hqu
  /\ IF i' < QUEUE_MAX - 1
     THEN UNCHANGED <<sortPc, qulist, q>>
     ELSE sortPc' = "idle" /\ qulist' = hqu /\ q' = SortBy(q, ByPriority)
  /\ UNCHANGED <<mem, hqu, misused, doomed>>

pass_end ==
  /\ sortPc = "swap" /\ nxt[qu_1] = NULL
  /\ i' = i + 1 /\ qu_1' = hqu
  /\ IF i' < QUEUE_MAX
     THEN UNCHANGED <<sortPc, qulist, q>>
     ELSE sortPc' = "idle" /\ qulist' = hqu /\ q' = SortBy(q, ByPriority)
  /\ UNCHANGED <<mem, hqu, misused, doomed>>

ListNext ==
  /\ ~misused
  /\ \/ \E n \in Node : push(n) \/ del(n)
     \/ pop
     \/ sort_begin \/ swap_exchange \/ swap_advance \/ pass_end

ListSpec == ListInit /\ [][ListNext]_listVars
-----------------------------------------------------------------------------
IdOr(k) == IF k \in DOMAIN q.es THEN q.es[k].id ELSE NULL

(* Between operations the list is the queue of TaskQueue: nxt leads through *)
(* its entries in order, pre is the inverse of nxt, and the first entry's  *)
(* pre is NULL unless it is stale, when it points at no entry              *)
(* (queue.h:57-144, 182-272).                                              *)
ListIsQueue ==
  sortPc = "idle" /\ ~misused =>
    /\ qulist = IdOr(1)
    /\ live = Ids(q)
    /\ \A k \in DOMAIN q.es :
         /\ nxt[q.es[k].id] = IdOr(k + 1)
         /\ k > 1 => pre[q.es[k].id] = IdOr(k - 1)
    /\ q.stale => pre[qulist] # NULL /\ pre[qulist] \notin live
    /\ ~q.stale /\ qulist # NULL => pre[qulist] = NULL

(* Freed memory is accessed exactly by the operations of which TaskQueue   *)
(* says so: taking out the first entry or sorting it away while its pre    *)
(* still points at an entry popped before it (queue.h:57-68, 122-135,      *)
(* 192-198).                                                               *)
FreedAsForeseen ==
  /\ misused => doomed
  /\ sortPc = "idle" /\ doomed => misused
=============================================================================
