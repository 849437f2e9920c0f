------------------------------ MODULE TaskQueue ------------------------------
(***************************************************************************)
(* The operations of iOS/queue.h as functions of a queue.                  *)
(*                                                                         *)
(* A queue is the sequence of its entries and one bit, stale: whether the  *)
(* pre pointer of the first entry still points at a freed entry, which     *)
(* pop_queue_head leaves behind.  Every other pre pointer is the inverse   *)
(* of nxt after each operation.  LinkedQueue shows that the linked lists   *)
(* of the source are represented faithfully.                               *)
(***************************************************************************)
EXTENDS Integers, SequencesExt

CONSTANT QUEUE_MAX

ASSUME QueueAssumption == QUEUE_MAX \in Nat \ {0}

SYS_TIME == 1

EmptyQueue == [es |-> <<>>, stale |-> FALSE]

Ids(q) == {q.es[i].id : i \in DOMAIN q.es}

is_queue_empty(q) == q.es = <<>>
is_queue_full(q)  == Len(q.es) >= QUEUE_MAX

push_queue_head(q, e) == [es |-> <<e>> \o q.es, stale |-> FALSE]

pop_queue_head(q) == [es |-> Tail(q.es), stale |-> Len(q.es) > 1]

(* The first entry with this identifier is taken out.                      *)
del_queue(q, id) ==
  LET k == SelectInSeq(q.es, LAMBDA e : e.id = id)
  IN  IF k = 0 THEN q
      ELSE [es |-> RemoveAt(q.es, k), stale |-> q.stale /\ k # 1]

(* A first entry with a stale pre is taken for the tail or the middle.     *)
DelFollowsStale(q, id) == q.stale /\ q.es # <<>> /\ q.es[1].id = id

(* The fields the two sorts compare. *)
ByTimeOut  == "time_out"
ByPriority == "priority"

(* QUEUE_MAX passes that exchange neighbours when the first has the        *)
(* larger key sort a list of at most QUEUE_MAX + 1 entries and keep the    *)
(* order of equal ones.                                                    *)
SortBy(q, key) ==
  LET before(i, j) == q.es[i][key] < q.es[j][key]
                      \/ (q.es[i][key] = q.es[j][key] /\ i < j)
      rank(i) == 1 + Cardinality({j \in DOMAIN q.es : before(j, i)})
  IN  [q EXCEPT !.es = [k \in DOMAIN q.es |->
                          q.es[CHOOSE i \in DOMAIN q.es : rank(i) = k]]]

(* Some pass exchanges the first entry and writes through its stale pre.   *)
SortFollowsStale(q, key) ==
  q.stale /\ \E i \in DOMAIN q.es : q.es[i][key] < q.es[1][key]

Less(n) == IF n >= SYS_TIME THEN n - SYS_TIME ELSE 0

update_queue_time_out(q) ==
  [q EXCEPT !.es = [i \in DOMAIN q.es |-> [q.es[i] EXCEPT !.time_out = Less(@)]]]

(* The expired entries are copied to the head of the emergency queue one   *)
(* after the other.                                                        *)
check_queue_time_out(q, emgcy) ==
  LET moved[i \in 0 .. Len(q.es)] ==
        IF i = 0 THEN emgcy
        ELSE IF q.es[i].time_out = 0 THEN push_queue_head(moved[i - 1], q.es[i])
        ELSE moved[i - 1]
  IN  moved[Len(q.es)]

(* The queue after del_queue of the first n identifiers of the emergency   *)
(* queue, which is no longer sorted when this is called.                   *)
Without_HeadOnly(q, emgcy, n) ==
  IF n = 0 THEN q ELSE del_queue(q, emgcy.es[1].id)

Without(q, emgcy, n) ==
  LET left[i \in 0 .. n] ==
        IF i = 0 THEN q ELSE del_queue(left[i - 1], emgcy.es[i].id)
  IN  left[n]

(* del_queue is called on a queue that has become empty.                   *)
mv_queue_fails(q, emgcy) ==
  \E i \in DOMAIN emgcy.es : is_queue_empty(Without(q, emgcy, i - 1))

mv_queue_follows_stale(q, emgcy) ==
  \E i \in DOMAIN emgcy.es :
    DelFollowsStale(Without(q, emgcy, i - 1), emgcy.es[i].id)

mv_queue_to_queue(q, emgcy) == Without(q, emgcy, Len(emgcy.es))

(* One unit of work on the head, which leaves when its work is done.       *)
WorkOnHead(q) ==
  LET e == [Head(q.es) EXCEPT !.work_time = Less(@)]
  IN  IF e.work_time = 0 THEN pop_queue_head(q)
      ELSE [q EXCEPT !.es = <<e>> \o Tail(@)]
=============================================================================
