------------------------- MODULE MicroKernel_proofs -------------------------
(***************************************************************************)
(* The scheduler of iOS.c, for every set of tasks and every QUEUE_MAX.     *)
(***************************************************************************)
EXTENDS MicroKernel, FiniteSetTheorems, ProofLemmas

(* An entry that push_queue_head made for a task and that has work left.   *)
TaskEntry ==
  {e \in [id : TaskIds, time_out : Nat, priority : Nat, work_time : Nat] :
     /\ e.priority = Priority[e.id]
     /\ e.time_out <= TimeOut[e.id]
     /\ e.work_time \in 1 .. WorkTime[e.id]}

(* A queue of such entries, at most one for each task.                     *)
Queue ==
  {q \in [es : Seq(TaskEntry), stale : BOOLEAN] :
     \A a, b \in 1 .. Len(q.es) : q.es[a].id = q.es[b].id => a = b}

Entries(q) == {q.es[a] : a \in 1 .. Len(q.es)}

(* What is known of a queue.                                               *)
LEMMA QueueFacts ==
  ASSUME NEW q \in Queue
  PROVE  /\ q.es \in Seq(TaskEntry) /\ Len(q.es) \in Nat
         /\ DOMAIN q.es = 1 .. Len(q.es)
         /\ \A a \in 1 .. Len(q.es) : q.es[a] \in TaskEntry
         /\ \A a, b \in 1 .. Len(q.es) : q.es[a].id = q.es[b].id => a = b
         /\ Entries(q) \subseteq TaskEntry
         /\ Ids(q) = {e.id : e \in Entries(q)}
         /\ q = [es |-> q.es, stale |-> q.stale] /\ q.stale \in BOOLEAN
<1>1. q.es \in Seq(TaskEntry) /\ Len(q.es) \in Nat /\ DOMAIN q.es = 1 .. Len(q.es)
  BY LenProperties DEF Queue
<1>2. \A a \in 1 .. Len(q.es) : q.es[a] \in TaskEntry
  BY <1>1, ElementOfSeq
<1>3. Ids(q) = {e.id : e \in Entries(q)}
  BY <1>1 DEF Ids, Entries
<1>4. Entries(q) \subseteq TaskEntry
  BY <1>2 DEF Entries
<1>5. \A a, b \in 1 .. Len(q.es) : q.es[a].id = q.es[b].id => a = b
  BY DEF Queue
<1>6. q = [es |-> q.es, stale |-> q.stale] /\ q.stale \in BOOLEAN
  BY DEF Queue
<1> QED
  BY <1>1, <1>2, <1>3, <1>4, <1>5, <1>6

(* How a queue is given by its entries.                                    *)
LEMMA QueueByEntries ==
  ASSUME NEW s \in Seq(TaskEntry), NEW st \in BOOLEAN,
         \A a, b \in 1 .. Len(s) : s[a].id = s[b].id => a = b
  PROVE  /\ [es |-> s, stale |-> st] \in Queue
         /\ Entries([es |-> s, stale |-> st]) = {s[a] : a \in 1 .. Len(s)}
         /\ [es |-> s, stale |-> st].es = s
BY DEF Queue, Entries

(* Two queues with the same tasks are of the same length.                  *)
LEMMA LengthIsCount ==
  ASSUME NEW q \in Queue
  PROVE  IsFiniteSet(Ids(q)) /\ Cardinality(Ids(q)) = Len(q.es)
<1> DEFINE f == [a \in 1 .. Len(q.es) |-> q.es[a].id]
<1>1. f \in Injection(1 .. Len(q.es), Ids(q))
  BY QueueFacts DEF Ids, Injection, IsInjective
<1>2. f \in Surjection(1 .. Len(q.es), Ids(q))
  BY QueueFacts DEF Ids, Surjection
<1>3. IsFiniteSet(1 .. Len(q.es)) /\ Cardinality(1 .. Len(q.es)) = Len(q.es)
  <2>1. Len(q.es) \in Nat
    BY QueueFacts
  <2> QED
    BY <2>1, FS_Interval
<1> QED
  BY <1>1, <1>2, <1>3, FS_Surjection

LEMMA FewerTasksShorter ==
  ASSUME NEW q \in Queue, NEW r \in Queue, Ids(r) \subseteq Ids(q)
  PROVE  Len(r.es) <= Len(q.es)
BY LengthIsCount, FS_Subset

(* The queues the model begins with.                                       *)
LEMMA EmptyIsQueue == EmptyQueue \in Queue /\ Entries(EmptyQueue) = {}
BY EmptySeq DEF EmptyQueue, Queue, Entries

(* push_queue_head of an entry for a task that has none.                   *)
LEMMA PushIsQueue ==
  ASSUME NEW q \in Queue, NEW e \in TaskEntry, e.id \notin Ids(q)
  PROVE  /\ push_queue_head(q, e) \in Queue
         /\ Entries(push_queue_head(q, e)) = Entries(q) \union {e}
         /\ Len(push_queue_head(q, e).es) = Len(q.es) + 1
<1> DEFINE s == <<e>> \o q.es
<1>1. /\ s \in Seq(TaskEntry) /\ Len(s) = Len(q.es) + 1
      /\ \A a \in 1 .. Len(s) : s[a] = IF a = 1 THEN e ELSE q.es[a - 1]
  BY QueueFacts, NewFirst
<1>2. push_queue_head(q, e) = [es |-> s, stale |-> FALSE]
  BY DEF push_queue_head
<1> HIDE DEF s
<1>0. Len(q.es) \in Nat
  BY QueueFacts
<1>3. \A a \in 1 .. Len(q.es) : a + 1 \in 1 .. Len(s) /\ s[a + 1] = q.es[a]
  <2> SUFFICES ASSUME NEW a \in 1 .. Len(q.es)
               PROVE  a + 1 \in 1 .. Len(s) /\ s[a + 1] = q.es[a]
    OBVIOUS
  <2>1. a + 1 \in 1 .. Len(s) /\ a + 1 # 1 /\ (a + 1) - 1 = a
    BY <1>0, <1>1
  <2> QED
    BY <1>1, <2>1
<1>4. \A a \in 1 .. Len(s) : a = 1 \/ a - 1 \in 1 .. Len(q.es)
  BY <1>0, <1>1
<1>5. \A a, b \in 1 .. Len(s) : s[a].id = s[b].id => a = b
  <2> SUFFICES ASSUME NEW a \in 1 .. Len(s), NEW b \in 1 .. Len(s), s[a].id = s[b].id
               PROVE  a = b
    OBVIOUS
  <2>1. \A c \in 1 .. Len(q.es) : q.es[c].id # e.id
    BY QueueFacts DEF Ids
  <2>2. CASE a = 1 \/ b = 1
    BY <1>1, <1>4, <2>1, <2>2
  <2>3. CASE a # 1 /\ b # 1
    <3>1. a - 1 \in 1 .. Len(q.es) /\ b - 1 \in 1 .. Len(q.es)
      BY <1>4, <2>3
    <3>2. q.es[a - 1].id = q.es[b - 1].id
      BY <1>1, <2>3
    <3>3. a - 1 = b - 1
      BY <3>1, <3>2, QueueFacts
    <3> QED
      BY <3>3
  <2> QED
    BY <2>2, <2>3
<1>6. {s[a] : a \in 1 .. Len(s)} = Entries(q) \union {e}
  <2>1. 1 \in 1 .. Len(s) /\ s[1] = e
    BY <1>0, <1>1
  <2>2. \A a \in 1 .. Len(s) : s[a] = e \/ s[a] \in Entries(q)
    BY <1>1, <1>4 DEF Entries
  <2>3. \A a \in 1 .. Len(q.es) : q.es[a] \in {s[c] : c \in 1 .. Len(s)}
    BY <1>3, Zenon
  <2> QED
    BY <2>1, <2>2, <2>3, Zenon DEF Entries
<1>7. s \in Seq(TaskEntry) /\ Len(s) = Len(q.es) + 1 /\ FALSE \in BOOLEAN
  BY <1>1
<1> QED
  BY <1>2, <1>5, <1>6, <1>7, QueueByEntries, Zenon

(* A sequence without its element number k.                                *)
LEMMA RemoveAtFacts ==
  ASSUME NEW S, NEW s \in Seq(S), NEW k \in 1 .. Len(s)
  PROVE  /\ RemoveAt(s, k) \in Seq(S)
         /\ Len(RemoveAt(s, k)) = Len(s) - 1
         /\ \A a \in 1 .. Len(s) - 1 :
              RemoveAt(s, k)[a] = IF a < k THEN s[a] ELSE s[a + 1]
BY CutOut DEF RemoveAt

(* A queue without its entry number k.                                     *)
LEMMA RemovedIsQueue ==
  ASSUME NEW q \in Queue, NEW k \in 1 .. Len(q.es), NEW st \in BOOLEAN
  PROVE  /\ [es |-> RemoveAt(q.es, k), stale |-> st] \in Queue
         /\ Entries([es |-> RemoveAt(q.es, k), stale |-> st]) = Entries(q) \ {q.es[k]}
<1> DEFINE r == RemoveAt(q.es, k)
           n == Len(q.es)
<1>1. /\ r \in Seq(TaskEntry) /\ Len(r) = n - 1
      /\ \A a \in 1 .. n - 1 : r[a] = IF a < k THEN q.es[a] ELSE q.es[a + 1]
  BY QueueFacts, RemoveAtFacts
<1>2. /\ n \in Nat /\ k \in Nat /\ 1 <= k /\ k <= n
      /\ \A a, b \in 1 .. n : q.es[a].id = q.es[b].id => a = b
  BY QueueFacts
<1> HIDE DEF r, n
<1>3. \A a \in 1 .. n - 1 :
        /\ a \in Nat /\ a \in 1 .. n /\ a + 1 \in 1 .. n
        /\ a < k => r[a] = q.es[a]
        /\ ~(a < k) => r[a] = q.es[a + 1]
  BY <1>1, <1>2
<1>4. \A a, b \in 1 .. Len(r) : r[a].id = r[b].id => a = b
  <2> SUFFICES ASSUME NEW a \in 1 .. n - 1, NEW b \in 1 .. n - 1, r[a].id = r[b].id
               PROVE  a = b
    BY <1>1
  <2> DEFINE ka == IF a < k THEN a ELSE a + 1
             kb == IF b < k THEN b ELSE b + 1
  <2>1. ka \in 1 .. n /\ kb \in 1 .. n /\ r[a] = q.es[ka] /\ r[b] = q.es[kb]
    BY <1>3
  <2>2. ka = kb
    <3> HIDE DEF ka, kb
    <3> QED
      BY <1>2, <2>1
  <2> QED
    BY <1>2, <1>3, <2>2
<1>5. {r[a] : a \in 1 .. Len(r)} = Entries(q) \ {q.es[k]}
  <2>1. ASSUME NEW a \in 1 .. n - 1
        PROVE  r[a] \in Entries(q) \ {q.es[k]}
    <3> DEFINE ka == IF a < k THEN a ELSE a + 1
    <3>1. ka \in 1 .. n /\ ka # k /\ r[a] = q.es[ka]
      BY <1>2, <1>3
    <3> HIDE DEF ka
    <3>2. k \in 1 .. n
      BY <1>2
    <3> QED
      BY <1>2, <3>1, <3>2 DEF Entries, n
  <2>2. ASSUME NEW b \in 1 .. n, q.es[b] # q.es[k]
        PROVE  q.es[b] \in {r[a] : a \in 1 .. n - 1}
    <3>1. CASE b < k
      <4>1. b \in 1 .. n - 1
        BY <1>2, <3>1
      <4> QED
        BY <1>3, <3>1, <4>1
    <3>2. CASE b > k
      <4>1. b - 1 \in 1 .. n - 1 /\ ~(b - 1 < k) /\ (b - 1) + 1 = b
        BY <1>2, <3>2
      <4> QED
        BY <1>3, <4>1
    <3> QED
      BY <1>2, <2>2, <3>1, <3>2
  <2> QED
    BY <1>1, <2>1, <2>2 DEF Entries, n
<1> QED
  BY <1>1, <1>4, <1>5, QueueByEntries DEF r

(* del_queue takes the entry of a task out.                                *)
LEMMA DelIsQueue ==
  ASSUME NEW q \in Queue, NEW id
  PROVE  /\ del_queue(q, id) \in Queue
         /\ Entries(del_queue(q, id)) = {e \in Entries(q) : e.id # id}
<1> DEFINE I == {a \in 1 .. Len(q.es) : q.es[a].id = id}
           k == IF I # {} THEN Min(I) ELSE 0
<1>1. del_queue(q, id) = IF k = 0 THEN q
                         ELSE [es |-> RemoveAt(q.es, k), stale |-> q.stale /\ k # 1]
  BY DEF del_queue, SelectInSeq
<1>2. CASE I = {}
  <2>1. k = 0
    BY <1>2
  <2>2. \A e \in Entries(q) : e.id # id
    BY <1>2 DEF Entries
  <2> QED
    BY <1>1, <2>1, <2>2
<1>3. CASE I # {}
  <2>1. k \in I
    <3>1. I \subseteq Nat
      OBVIOUS
    <3> HIDE DEF I
    <3>2. \E x \in I : \A y \in I : x <= y
      BY <1>3, <3>1, LeastElement
    <3> QED
      BY <1>3, <3>2 DEF Min
  <2> HIDE DEF k
  <2>2. k \in 1 .. Len(q.es) /\ k # 0 /\ q.es[k].id = id
    BY <2>1
  <2>3. \A e \in Entries(q) : e.id # id <=> e # q.es[k]
    BY <2>2, QueueFacts DEF Entries
  <2>4. (q.stale /\ k # 1) \in BOOLEAN
    OBVIOUS
  <2> DEFINE st == q.stale /\ k # 1
  <2>5. del_queue(q, id) = [es |-> RemoveAt(q.es, k), stale |-> st]
    BY <1>1, <2>2
  <2>6. st \in BOOLEAN
    OBVIOUS
  <2> HIDE DEF st
  <2>7. /\ [es |-> RemoveAt(q.es, k), stale |-> st] \in Queue
        /\ Entries([es |-> RemoveAt(q.es, k), stale |-> st]) = Entries(q) \ {q.es[k]}
    BY <2>2, <2>6, RemovedIsQueue
  <2> QED
    BY <2>3, <2>5, <2>7
<1> QED
  BY <1>2, <1>3

(* pop_queue_head takes the first entry out.                               *)
LEMMA PopIsQueue ==
  ASSUME NEW q \in Queue, q.es # << >>
  PROVE  /\ pop_queue_head(q) \in Queue
         /\ Entries(pop_queue_head(q)) = Entries(q) \ {Head(q.es)}
         /\ Head(q.es) \in Entries(q)
<1>1. 1 \in 1 .. Len(q.es) /\ Head(q.es) = q.es[1]
  BY QueueFacts, EmptySeq
<1>2. Tail(q.es) = RemoveAt(q.es, 1)
  <2>1. /\ RemoveAt(q.es, 1) \in Seq(TaskEntry) /\ Len(RemoveAt(q.es, 1)) = Len(q.es) - 1
        /\ \A a \in 1 .. Len(q.es) - 1 : RemoveAt(q.es, 1)[a] = q.es[a + 1]
    <3>1. \A a \in 1 .. Len(q.es) - 1 : ~(a < 1)
      BY QueueFacts
    <3> QED
      BY <1>1, <3>1, QueueFacts, RemoveAtFacts
  <2>2. q.es \in Seq(TaskEntry)
    BY QueueFacts
  <2> QED
    BY <2>1, <2>2, TailByIndex
<1> DEFINE st == Len(q.es) > 1
<1>3. pop_queue_head(q) = [es |-> RemoveAt(q.es, 1), stale |-> st]
  BY <1>2 DEF pop_queue_head
<1>4. st \in BOOLEAN
  OBVIOUS
<1> HIDE DEF st
<1>5. /\ [es |-> RemoveAt(q.es, 1), stale |-> st] \in Queue
      /\ Entries([es |-> RemoveAt(q.es, 1), stale |-> st]) = Entries(q) \ {q.es[1]}
  BY <1>1, <1>4, RemovedIsQueue
<1>6. Head(q.es) \in Entries(q)
  BY <1>1 DEF Entries
<1> QED
  BY <1>1, <1>3, <1>5, <1>6

Worked(e) == [e EXCEPT !.work_time = Less(@)]
Aged(e)   == [e EXCEPT !.time_out = Less(@)]

(* The entries after a unit of work on the entry e.                        *)
AfterWork(E, e) ==
  (E \ {e}) \union (IF e.work_time <= SYS_TIME THEN {} ELSE {Worked(e)})

(* An entry that is worked on and not done remains an entry.               *)
LEMMA WorkedIsEntry ==
  ASSUME NEW e \in TaskEntry
  PROVE  /\ Worked(e).id = e.id
         /\ Worked(e).work_time = 0 <=> e.work_time <= SYS_TIME
         /\ e.work_time > SYS_TIME => Worked(e) \in TaskEntry
BY KernelAssumption DEF Worked, TaskEntry, Less, SYS_TIME

LEMMA AgedIsEntry ==
  ASSUME NEW e \in TaskEntry
  PROVE  /\ Aged(e) \in TaskEntry /\ Aged(e).id = e.id
         /\ Aged(e).work_time = e.work_time
         /\ Aged(e).time_out = 0 <=> e.time_out <= SYS_TIME
BY KernelAssumption DEF Aged, TaskEntry, Less, SYS_TIME

(* A unit of work changes the first entry or takes it out.                 *)
LEMMA WorkIsQueue ==
  ASSUME NEW q \in Queue, q.es # << >>
  PROVE  /\ WorkOnHead(q) \in Queue
         /\ \E e \in Entries(q) : Entries(WorkOnHead(q)) = AfterWork(Entries(q), e)
<1> DEFINE e == Head(q.es)
<1>1. 1 \in 1 .. Len(q.es) /\ e = q.es[1] /\ e \in Entries(q) /\ e \in TaskEntry
  BY QueueFacts, EmptySeq DEF Entries
<1>2. WorkOnHead(q) = IF Worked(e).work_time = 0 THEN pop_queue_head(q)
                      ELSE [q EXCEPT !.es = <<Worked(e)>> \o Tail(@)]
  BY DEF WorkOnHead, Worked
<1> HIDE DEF e
<1>3. CASE e.work_time <= SYS_TIME
  <2>1. WorkOnHead(q) = pop_queue_head(q)
    BY <1>1, <1>2, <1>3, WorkedIsEntry
  <2>2. AfterWork(Entries(q), e) = Entries(q) \ {e}
    BY <1>3 DEF AfterWork
  <2> QED
    BY <1>1, <2>1, <2>2, PopIsQueue DEF e
<1>4. CASE ~(e.work_time <= SYS_TIME)
  <2>0. e.work_time > SYS_TIME
    BY <1>1, <1>4 DEF TaskEntry, SYS_TIME
  <2>1. Worked(e) \in TaskEntry /\ Worked(e).id = e.id
    BY <1>1, <2>0, WorkedIsEntry
  <2> DEFINE s == <<Worked(e)>> \o Tail(q.es)
  <2>2. /\ s \in Seq(TaskEntry) /\ Len(s) = Len(q.es)
        /\ \A a \in 1 .. Len(s) : s[a] = IF a = 1 THEN Worked(e) ELSE q.es[a]
    <3>1. /\ Tail(q.es) \in Seq(TaskEntry) /\ Len(Tail(q.es)) = Len(q.es) - 1
          /\ \A a \in 1 .. Len(q.es) - 1 : Tail(q.es)[a] = q.es[a + 1]
      BY QueueFacts, HeadTailProperties
    <3>2. <<Worked(e)>> \in Seq(TaskEntry) /\ Len(<<Worked(e)>>) = 1
          /\ <<Worked(e)>>[1] = Worked(e)
      BY <2>1
    <3>3. /\ s \in Seq(TaskEntry) /\ Len(s) = 1 + (Len(q.es) - 1)
          /\ \A a \in 1 .. 1 + (Len(q.es) - 1) :
               s[a] = IF a <= 1 THEN <<Worked(e)>>[a] ELSE Tail(q.es)[a - 1]
      BY <3>1, <3>2, ConcatProperties
    <3> HIDE DEF s
    <3>4. ASSUME NEW a \in 1 .. Len(q.es)
          PROVE  s[a] = IF a = 1 THEN Worked(e) ELSE q.es[a]
      <4>1. a \in 1 .. 1 + (Len(q.es) - 1) /\ (a <= 1 <=> a = 1)
        BY QueueFacts
      <4>2. a # 1 => a - 1 \in 1 .. Len(q.es) - 1 /\ (a - 1) + 1 = a
        BY QueueFacts
      <4> QED
        BY <3>1, <3>2, <3>3, <4>1, <4>2
    <3> QED
      BY <3>3, <3>4, QueueFacts
  <2>3. WorkOnHead(q) = [es |-> s, stale |-> q.stale]
    <3>1. WorkOnHead(q) = [q EXCEPT !.es = <<Worked(e)>> \o Tail(@)]
      BY <1>1, <1>2, <1>4, WorkedIsEntry
    <3> QED
      BY <3>1 DEF Queue
  <2> HIDE DEF s
  <2>4. \A a, b \in 1 .. Len(s) : s[a].id = s[b].id => a = b
    <3>1. \A a \in 1 .. Len(s) : s[a].id = q.es[a].id
      BY <1>1, <2>1, <2>2
    <3> QED
      BY <2>2, <3>1, QueueFacts
  <2>5. {s[a] : a \in 1 .. Len(s)} = (Entries(q) \ {e}) \union {Worked(e)}
    <3>1. \A a \in 1 .. Len(q.es) : a # 1 => q.es[a] # e
      BY <1>1, QueueFacts
    <3> QED
      BY <1>1, <2>2, <3>1 DEF Entries
  <2>6. AfterWork(Entries(q), e) = (Entries(q) \ {e}) \union {Worked(e)}
    BY <1>4 DEF AfterWork
  <2>7. q.stale \in BOOLEAN
    BY QueueFacts
  <2>8. /\ [es |-> s, stale |-> q.stale] \in Queue
        /\ Entries([es |-> s, stale |-> q.stale]) = {s[a] : a \in 1 .. Len(s)}
    BY <2>2, <2>4, <2>7, QueueByEntries
  <2> QED
    BY <1>1, <2>3, <2>5, <2>6, <2>8
<1> QED
  BY <1>3, <1>4

(* update_queue_time_out ages every entry.                                 *)
LEMMA AgedIsQueue ==
  ASSUME NEW q \in Queue
  PROVE  /\ update_queue_time_out(q) \in Queue
         /\ Entries(update_queue_time_out(q)) = {Aged(e) : e \in Entries(q)}
<1> DEFINE s == [a \in 1 .. Len(q.es) |-> Aged(q.es[a])]
<1>1. s \in [1 .. Len(q.es) -> TaskEntry]
  BY QueueFacts, AgedIsEntry
<1>2. s \in Seq(TaskEntry) /\ Len(s) = Len(q.es)
  BY <1>1, QueueFacts, FunctionIsSequence
<1>3. update_queue_time_out(q) = [es |-> s, stale |-> q.stale]
  <2>1. update_queue_time_out(q) = [q EXCEPT !.es = s]
    BY QueueFacts DEF update_queue_time_out, Aged
  <2> HIDE DEF s
  <2> QED
    BY <2>1 DEF Queue
<1>4. \A a \in 1 .. Len(s) : s[a] = Aged(q.es[a]) /\ s[a].id = q.es[a].id
  BY <1>2, QueueFacts, AgedIsEntry
<1> HIDE DEF s
<1>5. \A a, b \in 1 .. Len(s) : s[a].id = s[b].id => a = b
  BY <1>2, <1>4, QueueFacts
<1>6. {s[a] : a \in 1 .. Len(s)} = {Aged(e) : e \in Entries(q)}
  BY <1>2, <1>4 DEF Entries
<1>7. q.stale \in BOOLEAN
  BY QueueFacts
<1>8. /\ [es |-> s, stale |-> q.stale] \in Queue
      /\ Entries([es |-> s, stale |-> q.stale]) = {s[a] : a \in 1 .. Len(s)}
  BY <1>2, <1>5, <1>7, QueueByEntries
<1> QED
  BY <1>3, <1>6, <1>8

-----------------------------------------------------------------------------
(* The order the sorts establish, and the place of an element in it.       *)
Before(s, key, i, j) ==
  s[i][key] < s[j][key] \/ (s[i][key] = s[j][key] /\ i < j)

Rank(s, key, i) == 1 + Cardinality({j \in DOMAIN s : Before(s, key, j, i)})

(* Every element has a place of its own.                                   *)
LEMMA RankIsPermutation ==
  ASSUME NEW s \in Seq(TaskEntry), NEW key \in {ByTimeOut, ByPriority}
  PROVE  [i \in 1 .. Len(s) |-> Rank(s, key, i)] \in Bijection(1 .. Len(s), 1 .. Len(s))
<1> DEFINE n == Len(s)
           P(i) == {j \in 1 .. n : Before(s, key, j, i)}
           f == [i \in 1 .. n |-> Rank(s, key, i)]
<1>1. n \in Nat /\ \A i \in 1 .. n : s[i][key] \in Nat
  BY LenProperties, ElementOfSeq DEF TaskEntry, ByTimeOut, ByPriority
<1> HIDE DEF n
<1>2. \A i \in 1 .. n : ~Before(s, key, i, i)
  BY <1>1 DEF Before
<1>3. \A i, j \in 1 .. n : i # j => Before(s, key, i, j) \/ Before(s, key, j, i)
  BY <1>1 DEF Before
<1>4. \A i, j, k \in 1 .. n :
        Before(s, key, i, j) /\ Before(s, key, j, k) => Before(s, key, i, k)
  BY <1>1 DEF Before
<1>5. IsFiniteSet(1 .. n) /\ Cardinality(1 .. n) = n
  BY <1>1, FS_Interval
<1>6. ASSUME NEW i \in 1 .. n
      PROVE  /\ IsFiniteSet(P(i)) /\ Cardinality(P(i)) \in Nat
             /\ Cardinality(P(i)) < n
  <2>1. P(i) \in SUBSET (1 .. n) /\ P(i) # 1 .. n
    BY <1>2
  <2> HIDE DEF P
  <2>2. IsFiniteSet(P(i)) /\ Cardinality(P(i)) <= n /\ Cardinality(P(i)) # n
    BY <1>5, <2>1, FS_Subset
  <2> QED
    BY <1>1, <2>2, FS_CardinalityType
<1>7. ASSUME NEW i \in 1 .. n, NEW j \in 1 .. n, Before(s, key, i, j)
      PROVE  Cardinality(P(i)) < Cardinality(P(j))
  <2>1. P(i) \in SUBSET P(j) /\ i \in P(j) /\ i \notin P(i)
    BY <1>2, <1>4, <1>7
  <2>2. IsFiniteSet(P(j)) /\ Cardinality(P(i)) \in Nat /\ Cardinality(P(j)) \in Nat
    BY <1>6
  <2> HIDE DEF P
  <2>3. Cardinality(P(i)) <= Cardinality(P(j)) /\ Cardinality(P(i)) # Cardinality(P(j))
    BY <2>1, <2>2, FS_Subset
  <2> QED
    BY <2>2, <2>3
<1>8. \A i \in 1 .. n : Rank(s, key, i) = 1 + Cardinality(P(i))
  <2>1. DOMAIN s = 1 .. n
    BY LenProperties DEF n
  <2> QED
    BY <2>1 DEF Rank
<1> HIDE DEF P
<1>9. \A i \in 1 .. n : f[i] = 1 + Cardinality(P(i)) /\ f[i] \in 1 .. n
  BY <1>1, <1>6, <1>8
<1>10. f \in Injection(1 .. n, 1 .. n)
  <2>1. f \in [1 .. n -> 1 .. n]
    BY <1>9
  <2> HIDE DEF f
  <2>2. ASSUME NEW i \in 1 .. n, NEW j \in 1 .. n, f[i] = f[j]
        PROVE  i = j
    <3>1. /\ Cardinality(P(i)) \in Nat /\ Cardinality(P(j)) \in Nat
          /\ f[i] = 1 + Cardinality(P(i)) /\ f[j] = 1 + Cardinality(P(j))
      BY <1>6, <1>9
    <3>2. Cardinality(P(i)) = Cardinality(P(j))
      <4>1. 1 + Cardinality(P(i)) = 1 + Cardinality(P(j))
        BY <2>2, <3>1, Zenon
      <4>2. \A x, y \in Nat : 1 + x = 1 + y => x = y
        OBVIOUS
      <4> QED
        BY <3>1, <4>1, <4>2, Zenon
    <3> QED
      BY <1>3, <1>7, <3>1, <3>2
  <2> QED
    BY <2>1, <2>2 DEF Injection, IsInjective
<1> HIDE DEF f
<1>11. f \in Surjection(1 .. n, 1 .. n)
  BY <1>5, <1>10, FS_Injection
<1> QED
  BY <1>10, <1>11 DEF Bijection, f, n

(* A sort puts the entries of a queue into another order.                  *)
LEMMA SortIsQueue ==
  ASSUME NEW q \in Queue, NEW key \in {ByTimeOut, ByPriority}
  PROVE  /\ SortBy(q, key) \in Queue
         /\ Entries(SortBy(q, key)) = Entries(q)
         /\ Len(SortBy(q, key).es) = Len(q.es)
<1> DEFINE n == Len(q.es)
           f == [i \in 1 .. n |-> Rank(q.es, key, i)]
           p(k) == CHOOSE i \in DOMAIN q.es : Rank(q.es, key, i) = k
           s == [k \in DOMAIN q.es |-> q.es[p(k)]]
<1>1. SortBy(q, key) = [q EXCEPT !.es = s]
  BY Zenon DEF SortBy, Rank, Before
<1>0. DOMAIN q.es = 1 .. n
  BY QueueFacts
<1>2. f \in Bijection(1 .. n, 1 .. n) /\ n \in Nat
  BY QueueFacts, RankIsPermutation
<1>3. \A k \in 1 .. n : \E i \in 1 .. n : f[i] = k
  <2> HIDE DEF f
  <2> QED
    BY <1>2 DEF Bijection, Surjection
<1>4. \A i, j \in 1 .. n : f[i] = f[j] => i = j
  <2> HIDE DEF f
  <2> QED
    BY <1>2 DEF Bijection, Injection, IsInjective
<1>5. \A i \in 1 .. n : f[i] \in 1 .. n
  <2> HIDE DEF f
  <2> QED
    BY <1>2 DEF Bijection, Injection
<1>6. \A k \in 1 .. n : p(k) \in 1 .. n /\ f[p(k)] = k
  <2> SUFFICES ASSUME NEW k \in 1 .. n PROVE p(k) \in 1 .. n /\ f[p(k)] = k
    OBVIOUS
  <2>1. \E i \in DOMAIN q.es : Rank(q.es, key, i) = k
    BY <1>0, <1>3
  <2>2. p(k) \in DOMAIN q.es /\ Rank(q.es, key, p(k)) = k
    BY <2>1, Zenon
  <2>3. p(k) \in 1 .. n /\ Rank(q.es, key, p(k)) = k
    BY <1>0, <2>2
  <2> HIDE DEF p
  <2> QED
    BY <2>3
<1> HIDE DEF p
<1>7. \A i \in 1 .. n : p(f[i]) = i
  BY <1>4, <1>5, <1>6
<1> HIDE DEF f
<1>8. s \in [1 .. n -> TaskEntry]
  BY <1>0, <1>6, QueueFacts
<1>9. s \in Seq(TaskEntry) /\ Len(s) = n
  BY <1>2, <1>8, FunctionIsSequence
<1>10. \A k \in 1 .. n : s[k] = q.es[p(k)]
  BY <1>0
<1>11. SortBy(q, key) = [es |-> s, stale |-> q.stale] /\ q.stale \in BOOLEAN
  <2> HIDE DEF s
  <2> QED
    BY <1>1 DEF Queue
<1> HIDE DEF s
<1>12. \A a, b \in 1 .. Len(s) : s[a].id = s[b].id => a = b
  <2> SUFFICES ASSUME NEW a \in 1 .. n, NEW b \in 1 .. n, s[a].id = s[b].id
               PROVE  a = b
    BY <1>9
  <2>1. q.es[p(a)].id = q.es[p(b)].id
    BY <1>10
  <2>2. p(a) = p(b)
    BY <1>6, <2>1, QueueFacts
  <2>3. f[p(a)] = a /\ f[p(b)] = b
    BY <1>6
  <2> QED
    BY <2>2, <2>3, Zenon
<1>13. {s[a] : a \in 1 .. Len(s)} = Entries(q)
  <2>1. \A k \in 1 .. n : s[k] \in Entries(q)
    BY <1>6, <1>10 DEF Entries
  <2>2. \A i \in 1 .. n : f[i] \in 1 .. n /\ s[f[i]] = q.es[i]
    BY <1>5, <1>7, <1>10
  <2> QED
    BY <1>9, <2>1, <2>2 DEF Entries
<1>14. /\ [es |-> s, stale |-> q.stale] \in Queue
       /\ Entries([es |-> s, stale |-> q.stale]) = {s[a] : a \in 1 .. Len(s)}
       /\ [es |-> s, stale |-> q.stale].es = s
  BY <1>9, <1>11, <1>12, QueueByEntries
<1> QED
  BY <1>9, <1>11, <1>13, <1>14

-----------------------------------------------------------------------------
(* check_queue_time_out adds the entries that have expired, provided none  *)
(* of their tasks is in the emergency queue yet.                           *)
LEMMA CheckIsQueue ==
  ASSUME NEW q \in Queue, NEW emgcy \in Queue,
         \A e \in Entries(q) : e.time_out = 0 => e.id \notin Ids(emgcy)
  PROVE  /\ check_queue_time_out(q, emgcy) \in Queue
         /\ Entries(check_queue_time_out(q, emgcy)) =
              Entries(emgcy) \union {e \in Entries(q) : e.time_out = 0}
<1> DEFINE n == Len(q.es)
           S == [es : Seq(TaskEntry), stale : BOOLEAN]
           Step(i, w) == IF q.es[i].time_out = 0 THEN push_queue_head(w, q.es[i]) ELSE w
           F == [x \in (1 .. n) \X S |-> Step(x[1], x[2])]
           at == CHOOSE g : g = [i \in 0 .. n |->
                   IF i = 0 THEN emgcy
                   ELSE IF q.es[i].time_out = 0 THEN push_queue_head(g[i - 1], q.es[i])
                   ELSE g[i - 1]]
           Moved(i) == {q.es[a] : a \in {b \in 1 .. i : q.es[b].time_out = 0}}
           Fine(i) == at[i] \in Queue /\ Entries(at[i]) = Entries(emgcy) \union Moved(i)
<1>1. check_queue_time_out(q, emgcy) = at[n]
  BY Zenon DEF check_queue_time_out
<1>2. n \in Nat /\ emgcy \in S
  BY QueueFacts DEF Queue
<1>3. F \in [(1 .. n) \X S -> S]
  <2>1. ASSUME NEW i \in 1 .. n, NEW w \in S
        PROVE  Step(i, w) \in S
    <3>1. q.es[i] \in TaskEntry
      BY QueueFacts
    <3>2. <<q.es[i]>> \in Seq(TaskEntry)
      BY <3>1
    <3>3. <<q.es[i]>> \o w.es \in Seq(TaskEntry)
      BY <3>2, ConcatProperties
    <3> QED
      BY <3>3 DEF push_queue_head
  <2> HIDE DEF S, Step
  <2> QED
    BY <2>1
<1>4. PICK g \in [0 .. n -> S] : IsRecursion(g, n, emgcy, F)
  <2> HIDE DEF F, S, n
  <2> QED
    BY <1>2, <1>3, RecursionExists, Zenon
<1>5. g = [i \in 0 .. n |->
             IF i = 0 THEN emgcy
             ELSE IF q.es[i].time_out = 0 THEN push_queue_head(g[i - 1], q.es[i])
             ELSE g[i - 1]]
  <2>1. ASSUME NEW i \in 0 .. n, i # 0
        PROVE  F[<<i, g[i - 1]>>] = Step(i, g[i - 1])
    <3>1. i \in 1 .. n /\ i - 1 \in 0 .. n
      BY <1>2, <2>1
    <3>2. g[i - 1] \in S
      BY <3>1
    <3> HIDE DEF S, Step
    <3> QED
      BY <3>1, <3>2
  <2> HIDE DEF F, S, n
  <2> QED
    BY <1>4, <2>1 DEF IsRecursion
<1>6. at = [i \in 0 .. n |->
             IF i = 0 THEN emgcy
             ELSE IF q.es[i].time_out = 0 THEN push_queue_head(at[i - 1], q.es[i])
             ELSE at[i - 1]]
  BY <1>5, Zenon
<1> HIDE DEF at, F, S, n
<1>7. \A i \in 0 .. n : Fine(i)
  <2> DEFINE Bad == {i \in 0 .. n : ~Fine(i)}
  <2> SUFFICES ASSUME Bad # {} PROVE FALSE
    OBVIOUS
  <2> HIDE DEF Fine
  <2>1. PICK i \in Bad : \A l \in Bad : i <= l
    <3>1. Bad \subseteq Nat
      BY <1>2
    <3> HIDE DEF Bad
    <3> QED
      BY <3>1, LeastElement
  <2>2. i \in 0 .. n /\ ~Fine(i)
    BY <2>1
  <2>3. i # 0
    <3>1. at[0] = emgcy
      BY <1>2, <1>6
    <3>2. Moved(0) = {}
      OBVIOUS
    <3>3. Fine(0)
      BY <3>1, <3>2 DEF Fine
    <3> QED
      BY <2>2, <3>3
  <2>4. i \in 1 .. n /\ i - 1 \in 0 .. n /\ Fine(i - 1)
    <3>1. i \in 1 .. n /\ i - 1 \in 0 .. n /\ ~(i <= i - 1)
      BY <1>2, <2>2, <2>3
    <3>2. i - 1 \notin Bad
      <4> HIDE DEF Bad
      <4> QED
        BY <2>1, <3>1
    <3> QED
      BY <3>1, <3>2
  <2>5. at[i] = Step(i, at[i - 1])
    BY <1>6, <2>3, <2>4
  <2>6. q.es[i] \in TaskEntry /\ q.es[i] \in Entries(q)
    BY <2>4, QueueFacts DEF Entries, n
  <2>7. CASE q.es[i].time_out = 0
    <3>1. Moved(i) = Moved(i - 1) \union {q.es[i]}
      <4>1. \A b \in 1 .. i : b \in 1 .. i - 1 \/ b = i
        BY <2>2
      <4>2. i \in 1 .. i /\ \A b \in 1 .. i - 1 : b \in 1 .. i
        BY <2>4
      <4> QED
        BY <2>7, <4>1, <4>2
    <3>2. q.es[i].id \notin Ids(at[i - 1])
      <4>1. q.es[i].id \notin Ids(emgcy)
        BY <2>6, <2>7
      <4>2. ASSUME NEW e \in Moved(i - 1), e.id = q.es[i].id
            PROVE  FALSE
        <5>1. PICK b \in 1 .. i - 1 : e = q.es[b]
          OBVIOUS
        <5>2. b \in 1 .. n /\ b # i
          BY <1>2, <2>4, <5>1
        <5> QED
          BY <2>4, <4>2, <5>1, <5>2, QueueFacts DEF n
      <4>3. Ids(at[i - 1]) = {e.id : e \in Entries(at[i - 1])}
        BY <2>4, QueueFacts DEF Fine
      <4>4. Entries(at[i - 1]) = Entries(emgcy) \union Moved(i - 1)
        BY <2>4 DEF Fine
      <4>5. Ids(emgcy) = {e.id : e \in Entries(emgcy)}
        BY QueueFacts
      <4> HIDE DEF Moved
      <4> QED
        BY <4>1, <4>2, <4>3, <4>4, <4>5
    <3>3. at[i] = push_queue_head(at[i - 1], q.es[i])
      BY <2>5, <2>7
    <3>4. at[i - 1] \in Queue /\ Entries(at[i - 1]) = Entries(emgcy) \union Moved(i - 1)
      BY <2>4 DEF Fine
    <3> HIDE DEF Moved
    <3>5. /\ at[i] \in Queue
          /\ Entries(at[i]) = Entries(at[i - 1]) \union {q.es[i]}
      BY <2>6, <3>2, <3>3, <3>4, PushIsQueue
    <3> QED
      BY <2>2, <3>1, <3>4, <3>5 DEF Fine
  <2>8. CASE q.es[i].time_out # 0
    <3>1. Moved(i) = Moved(i - 1)
      <4>1. \A b \in 1 .. i : b \in 1 .. i - 1 \/ b = i
        BY <2>2
      <4>2. \A b \in 1 .. i - 1 : b \in 1 .. i
        BY <2>4
      <4> QED
        BY <2>8, <4>1, <4>2
    <3>2. at[i] = at[i - 1]
      BY <2>5, <2>8
    <3> HIDE DEF Moved
    <3> QED
      BY <2>2, <2>4, <3>1, <3>2 DEF Fine
  <2> QED
    BY <2>7, <2>8
<1>8. Moved(n) = {e \in Entries(q) : e.time_out = 0}
  BY DEF Entries, n
<1>9. n \in 0 .. n
  BY <1>2
<1> HIDE DEF Moved
<1> QED
  BY <1>1, <1>7, <1>8, <1>9

(* del_queue, once for each of the first entries of the emergency queue,   *)
(* leaves the entries of the other tasks.                                  *)
LEMMA WithoutIsQueue ==
  ASSUME NEW q \in Queue, NEW emgcy, NEW n \in Nat
  PROVE  /\ Without(q, emgcy, n) \in Queue
         /\ Entries(Without(q, emgcy, n)) =
              {e \in Entries(q) : \A a \in 1 .. n : e.id # emgcy.es[a].id}
<1> DEFINE F == [x \in (1 .. n) \X Queue |-> del_queue(x[2], emgcy.es[x[1]].id)]
           at == CHOOSE g : g = [i \in 0 .. n |->
                   IF i = 0 THEN q ELSE del_queue(g[i - 1], emgcy.es[i].id)]
           Left(i) == {e \in Entries(q) : \A a \in 1 .. i : e.id # emgcy.es[a].id}
           Fine(i) == at[i] \in Queue /\ Entries(at[i]) = Left(i)
<1>1. Without(q, emgcy, n) = at[n]
  BY Zenon DEF Without
<1>2. F \in [(1 .. n) \X Queue -> Queue]
  BY DelIsQueue
<1>3. PICK g \in [0 .. n -> Queue] : IsRecursion(g, n, q, F)
  <2> HIDE DEF F
  <2> QED
    <3>1. n \in Nat /\ q \in Queue
      OBVIOUS
    <3> QED
      BY <1>2, <3>1, RecursionExists, Zenon
<1>4. g = [i \in 0 .. n |-> IF i = 0 THEN q ELSE del_queue(g[i - 1], emgcy.es[i].id)]
  <2>1. ASSUME NEW i \in 0 .. n, i # 0
        PROVE  F[<<i, g[i - 1]>>] = del_queue(g[i - 1], emgcy.es[i].id)
    <3>1. i \in 1 .. n /\ g[i - 1] \in Queue
      BY <2>1
    <3> QED
      BY <3>1
  <2> HIDE DEF F
  <2> QED
    BY <1>3, <2>1 DEF IsRecursion
<1>5. at = [i \in 0 .. n |-> IF i = 0 THEN q ELSE del_queue(at[i - 1], emgcy.es[i].id)]
  BY <1>4, Zenon
<1> HIDE DEF at, F
<1>6. \A i \in 0 .. n : Fine(i)
  <2> DEFINE Bad == {i \in 0 .. n : ~Fine(i)}
  <2> SUFFICES ASSUME Bad # {} PROVE FALSE
    OBVIOUS
  <2> HIDE DEF Fine
  <2>1. PICK i \in Bad : \A l \in Bad : i <= l
    <3>1. Bad \subseteq Nat
      OBVIOUS
    <3> HIDE DEF Bad
    <3> QED
      BY <3>1, LeastElement
  <2>2. i \in 0 .. n /\ ~Fine(i)
    BY <2>1
  <2>3. i # 0
    <3>1. at[0] = q
      BY <1>5
    <3>2. Left(0) = Entries(q)
      OBVIOUS
    <3>3. Fine(0)
      BY <3>1, <3>2 DEF Fine
    <3> QED
      BY <2>2, <3>3
  <2>4. i \in 1 .. n /\ i - 1 \in 0 .. n /\ Fine(i - 1)
    <3>1. i \in 1 .. n /\ i - 1 \in 0 .. n /\ ~(i <= i - 1)
      BY <2>2, <2>3
    <3>2. i - 1 \notin Bad
      <4> HIDE DEF Bad
      <4> QED
        BY <2>1, <3>1
    <3> QED
      BY <3>1, <3>2
  <2>5. at[i] = del_queue(at[i - 1], emgcy.es[i].id)
    BY <1>5, <2>3, <2>4
  <2>6. at[i - 1] \in Queue /\ Entries(at[i - 1]) = Left(i - 1)
    BY <2>4 DEF Fine
  <2>7. /\ at[i] \in Queue
        /\ Entries(at[i]) = {e \in Left(i - 1) : e.id # emgcy.es[i].id}
    <3> HIDE DEF Left
    <3> QED
      BY <2>5, <2>6, DelIsQueue
  <2>8. Left(i) = {e \in Left(i - 1) : e.id # emgcy.es[i].id}
    <3>1. \A b \in 1 .. i : b \in 1 .. i - 1 \/ b = i
      BY <2>2
    <3>2. i \in 1 .. i /\ \A b \in 1 .. i - 1 : b \in 1 .. i
      BY <2>4
    <3> QED
      BY <3>1, <3>2
  <2> HIDE DEF Left
  <2> QED
    BY <2>2, <2>7, <2>8 DEF Fine
<1>7. n \in 0 .. n
  OBVIOUS
<1> HIDE DEF Left
<1> QED
  BY <1>1, <1>6, <1>7 DEF Left

(* mv_queue_to_queue leaves the tasks that are not in the emergency queue. *)
LEMMA MoveIsQueue ==
  ASSUME NEW q \in Queue, NEW emgcy \in Queue
  PROVE  /\ mv_queue_to_queue(q, emgcy) \in Queue
         /\ Entries(mv_queue_to_queue(q, emgcy)) =
              {e \in Entries(q) : e.id \notin Ids(emgcy)}
<1>1. /\ mv_queue_to_queue(q, emgcy) \in Queue
      /\ Entries(mv_queue_to_queue(q, emgcy)) =
           {e \in Entries(q) : \A a \in 1 .. Len(emgcy.es) : e.id # emgcy.es[a].id}
  BY QueueFacts, WithoutIsQueue DEF mv_queue_to_queue
<1>2. \A e : e.id \notin Ids(emgcy) <=> \A a \in 1 .. Len(emgcy.es) : e.id # emgcy.es[a].id
  BY QueueFacts DEF Ids
<1> QED
  BY <1>1, <1>2

-----------------------------------------------------------------------------
(* The inductive invariant: beside the types, an entry whose task waits in *)
(* the emergency queue as well has been queued since the last tick, so it  *)
(* does not expire in the next one; and who fails keeps the mutex.         *)
Fresh ==
  \A e \in Entries(qptr) : e.id \in Ids(emgcy_qptr) => e.time_out > SYS_TIME

ControlOK ==
  /\ failed \in BOOLEAN /\ held = failed /\ freed \in BOOLEAN
  /\ dangling \in BOOLEAN
  /\ taskPc \in [TaskIds -> {"check", "lock", "exited"}]
  /\ osPc \in {"check", "lock", "exited"}
  /\ mainPc \in {"poll", "join", "exited"}

QueuesOK ==
  /\ qptr \in Queue /\ emgcy_qptr \in Queue
  /\ Len(qptr.es) <= QUEUE_MAX
  /\ held \/ Fresh

IInv == QueuesOK /\ ControlOK

(* A queue of the inductive invariant is one of TypeOK.                    *)
LEMMA QueueIsOK == ASSUME NEW q \in Queue PROVE QueueOK(q)
<1>1. \A i \in DOMAIN q.es :
        /\ q.es[i].id \in TaskIds
        /\ q.es[i].priority = Priority[q.es[i].id]
        /\ q.es[i].time_out \in 0 .. TimeOut[q.es[i].id]
        /\ q.es[i].work_time \in 1 .. WorkTime[q.es[i].id]
  <2> SUFFICES ASSUME NEW i \in DOMAIN q.es
               PROVE  /\ q.es[i].id \in TaskIds
                      /\ q.es[i].priority = Priority[q.es[i].id]
                      /\ q.es[i].time_out \in 0 .. TimeOut[q.es[i].id]
                      /\ q.es[i].work_time \in 1 .. WorkTime[q.es[i].id]
    OBVIOUS
  <2>1. q.es[i] \in TaskEntry
    BY QueueFacts
  <2> QED
    BY <2>1, KernelAssumption DEF TaskEntry
<1>2. \A i, j \in DOMAIN q.es : q.es[i].id = q.es[j].id => i = j
  BY QueueFacts
<1>3. q.stale \in BOOLEAN
  BY QueueFacts
<1> QED
  BY <1>1, <1>2, <1>3 DEF QueueOK

LEMMA IInvTypeOK == IInv => TypeOK
<1> SUFFICES ASSUME IInv PROVE TypeOK
  OBVIOUS
<1>1. /\ qptr \in Queue /\ emgcy_qptr \in Queue
      /\ Len(qptr.es) <= QUEUE_MAX /\ ControlOK
  BY DEF IInv, QueuesOK
<1>2. Len(emgcy_qptr.es) <= QUEUE_MAX + 1
  <2>1. Ids(emgcy_qptr) \in SUBSET TaskIds
    <3>1. Ids(emgcy_qptr) = {e.id : e \in Entries(emgcy_qptr)}
      BY <1>1, QueueFacts
    <3>2. \A e \in Entries(emgcy_qptr) : e \in TaskEntry
      BY <1>1, QueueFacts
    <3>3. \A e \in TaskEntry : e.id \in TaskIds
      BY DEF TaskEntry
    <3> QED
      BY <3>1, <3>2, <3>3
  <2>2. Cardinality(Ids(emgcy_qptr)) <= Cardinality(TaskIds)
    BY <2>1, KernelAssumption, FS_Subset
  <2>3. Cardinality(Ids(emgcy_qptr)) = Len(emgcy_qptr.es) /\ Len(emgcy_qptr.es) \in Nat
    BY <1>1, LengthIsCount, QueueFacts
  <2>4. Cardinality(TaskIds) \in Nat /\ Cardinality(TaskIds) <= QUEUE_MAX + 1
    BY KernelAssumption, FS_CardinalityType
  <2>5. \A l, c, m \in Nat : l <= c /\ c <= m + 1 => l <= m + 1
    OBVIOUS
  <2> QED
    BY <2>2, <2>3, <2>4, <2>5, QueueAssumption
<1> QED
  BY <1>1, <1>2, QueueIsOK DEF ControlOK, TypeOK

(* The tasks of a set of entries. *)
TasksOf(E) == {e.id : e \in E}

LEMMA TasksOfQueue ==
  ASSUME NEW q \in Queue
  PROVE  /\ Ids(q) = TasksOf(Entries(q))
         /\ is_queue_empty(q) <=> Entries(q) = {}
         /\ \A id : Finished(q, id) <=>
              \E e \in Entries(q) : e.id = id /\ e.work_time <= SYS_TIME
<1>1. is_queue_empty(q) <=> Entries(q) = {}
  <2>1. CASE q.es = << >>
    BY <2>1 DEF is_queue_empty, Entries
  <2>2. CASE q.es # << >>
    <3>1. 1 \in 1 .. Len(q.es)
      BY <2>2, QueueFacts, EmptySeq
    <3> QED
      BY <2>2, <3>1 DEF is_queue_empty, Entries
  <2> QED
    BY <2>1, <2>2
<1>2. \A id : Finished(q, id) <=>
        \E e \in Entries(q) : e.id = id /\ e.work_time <= SYS_TIME
  BY QueueFacts DEF Finished, Entries
<1> QED
  BY <1>1, <1>2, QueueFacts DEF TasksOf

(* After a unit of work at most the entry worked on has gone, and only     *)
(* when it was done.                                                       *)
LEMMA WorkKeepsTasks ==
  ASSUME NEW E, E \subseteq TaskEntry, NEW w \in E
  PROVE  /\ TasksOf(AfterWork(E, w)) \subseteq TasksOf(E)
         /\ \A id \in TasksOf(E) \ TasksOf(AfterWork(E, w)) :
              w.id = id /\ w.work_time <= SYS_TIME
<1>1. Worked(w).id = w.id
  BY WorkedIsEntry
<1>2. \A e \in AfterWork(E, w) : e \in E \/ e = Worked(w)
  BY DEF AfterWork
<1>3. TasksOf(AfterWork(E, w)) \subseteq TasksOf(E)
  BY <1>1, <1>2 DEF TasksOf
<1>4. ASSUME NEW e \in E, e.id \notin TasksOf(AfterWork(E, w))
      PROVE  w.id = e.id /\ w.work_time <= SYS_TIME
  <2>1. e = w
    BY <1>4 DEF TasksOf, AfterWork
  <2>2. CASE ~(w.work_time <= SYS_TIME)
    <3>1. Worked(w) \in AfterWork(E, w)
      BY <2>2 DEF AfterWork
    <3> QED
      BY <1>1, <1>4, <2>1, <3>1 DEF TasksOf
  <2> QED
    BY <2>1, <2>2
<1> QED
  BY <1>3, <1>4 DEF TasksOf

(* What a tick that neither fails nor breaks makes of the queues.          *)
Expired(E)  == {e \in E : e.time_out = 0}
Others(E, M) == {e \in E : e.id \notin TasksOf(M)}

(* A and M stand for the aged entries and for those that are urgent.       *)
Served(A, M) ==
  /\ qptr' \in Queue /\ emgcy_qptr' \in Queue
  /\ \/ /\ Entries(qptr') = Others(A, M)
        /\ \E w \in M : Entries(emgcy_qptr') = AfterWork(M, w)
     \/ /\ M = {} /\ Entries(emgcy_qptr') = {}
        /\ \E w \in A : Entries(qptr') = AfterWork(A, w)

AgedEntries   == {Aged(e) : e \in Entries(qptr)}
UrgentEntries == Entries(emgcy_qptr) \union Expired(AgedEntries)

(* Work serves one of the queues.                                          *)
LEMMA WorkServes ==
  ASSUME NEW q \in Queue, NEW emgcy \in Queue, Work(q, emgcy),
         ~is_queue_empty(q) \/ ~is_queue_empty(emgcy)
  PROVE  \/ Breaks
         \/ /\ osPc' = "check" /\ UNCHANGED <<dangling, failed, held, taskPc, mainPc, freed>>
            /\ qptr' \in Queue /\ emgcy_qptr' \in Queue
            /\ \/ /\ Entries(qptr') = Entries(q)
                  /\ \E w \in Entries(emgcy) :
                       Entries(emgcy_qptr') = AfterWork(Entries(emgcy), w)
               \/ /\ Entries(emgcy) = {} /\ Entries(emgcy_qptr') = {}
                  /\ \E w \in Entries(q) : Entries(qptr') = AfterWork(Entries(q), w)
<1> DEFINE chosen == IF is_queue_empty(emgcy) THEN q ELSE emgcy
           worked == WorkOnHead(SortBy(chosen, ByPriority))
<1>1. \/ Breaks
      \/ IF is_queue_empty(emgcy) THEN Ticked(worked, emgcy) ELSE Ticked(q, worked)
  BY DEF Work
<1>2. chosen \in Queue /\ Entries(chosen) # {}
  BY TasksOfQueue
<1> HIDE DEF chosen
<1>3. /\ SortBy(chosen, ByPriority) \in Queue
      /\ Entries(SortBy(chosen, ByPriority)) = Entries(chosen)
  BY <1>2, SortIsQueue
<1>4. SortBy(chosen, ByPriority).es # << >>
  BY <1>2, <1>3, TasksOfQueue DEF is_queue_empty
<1>5. worked \in Queue /\ \E w \in Entries(chosen) :
        Entries(worked) = AfterWork(Entries(chosen), w)
  BY <1>3, <1>4, WorkIsQueue
<1> HIDE DEF worked
<1>6. CASE Breaks
  BY <1>6
<1>7. CASE is_queue_empty(emgcy) /\ Ticked(worked, emgcy)
  <2>1. chosen = q /\ Entries(emgcy) = {}
    BY <1>7, TasksOfQueue DEF chosen
  <2>2. /\ qptr' = worked /\ emgcy_qptr' = emgcy /\ osPc' = "check"
        /\ UNCHANGED <<dangling, failed, held, taskPc, mainPc, freed>>
    BY <1>7 DEF Ticked
  <2> QED
    BY <1>5, <2>1, <2>2
<1>8. CASE ~is_queue_empty(emgcy) /\ Ticked(q, worked)
  <2>1. chosen = emgcy
    BY <1>8 DEF chosen
  <2>2. /\ qptr' = q /\ emgcy_qptr' = worked /\ osPc' = "check"
        /\ UNCHANGED <<dangling, failed, held, taskPc, mainPc, freed>>
    BY <1>8 DEF Ticked
  <2> QED
    BY <1>5, <2>1, <2>2
<1> QED
  BY <1>1, <1>6, <1>7, <1>8

(* When del_queue fails, each of the entries has the task of an emergency  *)
(* entry.                                                                  *)
LEMMA FailedMove ==
  ASSUME NEW q \in Queue, NEW emgcy \in Queue, mv_queue_fails(q, emgcy)
  PROVE  \A e \in Entries(q) : e.id \in Ids(emgcy)
<1>1. PICK n \in 0 .. Len(emgcy.es) : is_queue_empty(Without(q, emgcy, n))
  <2>1. PICK i \in DOMAIN emgcy.es : is_queue_empty(Without(q, emgcy, i - 1))
    BY DEF mv_queue_fails
  <2>2. i \in 1 .. Len(emgcy.es) /\ Len(emgcy.es) \in Nat
    BY QueueFacts
  <2>3. i - 1 \in 0 .. Len(emgcy.es)
    BY <2>2
  <2> QED
    BY <2>1, <2>3
<1>2. /\ Without(q, emgcy, n) \in Queue
      /\ Entries(Without(q, emgcy, n)) =
           {e \in Entries(q) : \A a \in 1 .. n : e.id # emgcy.es[a].id}
  <2>1. n \in Nat
    OBVIOUS
  <2> QED
    BY <2>1, WithoutIsQueue
<1>3. \A e \in Entries(q) : \E a \in 1 .. n : e.id = emgcy.es[a].id
  BY <1>1, <1>2, TasksOfQueue
<1>4. \A a \in 1 .. n : emgcy.es[a].id \in Ids(emgcy)
  <2>1. Len(emgcy.es) \in Nat /\ DOMAIN emgcy.es = 1 .. Len(emgcy.es)
    BY QueueFacts
  <2>2. \A a \in 1 .. n : a \in DOMAIN emgcy.es
    BY <2>1
  <2> QED
    BY <2>2 DEF Ids
<1> QED
  BY <1>3, <1>4

(* What a tick leaves that stops when the normal queue runs empty.         *)
GivesUp(emgcy) ==
  /\ iOS_Fail(EmptyQueue, emgcy, TRUE)
  /\ Entries(emgcy) = UrgentEntries
  /\ \A e \in AgedEntries : e.id \in TasksOf(UrgentEntries)

(* The tick as a whole. *)
LEMMA TickServes ==
  ASSUME IInv, iOS_Tick
  PROVE  \/ Breaks
         \/ \E urgent \in Queue : GivesUp(urgent)
         \/ /\ osPc' = "check" /\ UNCHANGED <<dangling, failed, held, taskPc, mainPc, freed>>
            /\ Served(AgedEntries, UrgentEntries)
<1> DEFINE aged   == update_queue_time_out(qptr)
           sorted == SortBy(aged, ByTimeOut)
           emgcy  == check_queue_time_out(sorted, emgcy_qptr)
           kept   == mv_queue_to_queue(sorted, emgcy)
<1>1. \/ Breaks
      \/ mv_queue_fails(sorted, emgcy) /\ iOS_Fail(EmptyQueue, emgcy, TRUE)
      \/ Work(kept, emgcy)
  BY DEF iOS_Tick
<1>2. ~is_queue_empty(qptr) /\ qptr \in Queue /\ emgcy_qptr \in Queue /\ Fresh
  BY DEF iOS_Tick, IInv, QueuesOK
<1>3. aged \in Queue /\ Entries(aged) = AgedEntries
  BY <1>2, AgedIsQueue DEF AgedEntries
<1> HIDE DEF aged
<1>4. sorted \in Queue /\ Entries(sorted) = AgedEntries
  BY <1>3, SortIsQueue
<1> HIDE DEF sorted
<1>5. \A e \in Entries(sorted) : e.time_out = 0 => e.id \notin Ids(emgcy_qptr)
  <2> SUFFICES ASSUME NEW f \in Entries(qptr), Aged(f).time_out = 0,
                      Aged(f).id \in Ids(emgcy_qptr)
               PROVE  FALSE
    BY <1>4 DEF AgedEntries
  <2>1. f \in TaskEntry
    BY <1>2, QueueFacts
  <2>2. f.time_out <= SYS_TIME /\ f.id \in Ids(emgcy_qptr) /\ f.time_out \in Nat
    BY <2>1, AgedIsEntry DEF TaskEntry
  <2>3. f.time_out > SYS_TIME
    BY <1>2, <2>2 DEF Fresh
  <2> QED
    BY <2>2, <2>3 DEF SYS_TIME
<1>6. emgcy \in Queue /\ Entries(emgcy) = UrgentEntries
  BY <1>2, <1>4, <1>5, CheckIsQueue DEF UrgentEntries, Expired
<1> HIDE DEF emgcy
<1>7. kept \in Queue /\ Entries(kept) = Others(AgedEntries, UrgentEntries)
  <2>1. Ids(emgcy) = TasksOf(UrgentEntries)
    BY <1>6, TasksOfQueue
  <2> QED
    BY <1>4, <1>6, <2>1, MoveIsQueue DEF Others
<1> HIDE DEF kept
(* All that was in the normal queue has been deleted.                      *)
<1>11. CASE mv_queue_fails(sorted, emgcy) /\ iOS_Fail(EmptyQueue, emgcy, TRUE)
  <2>1. \A e \in Entries(sorted) : e.id \in Ids(emgcy)
    BY <1>4, <1>6, <1>11, FailedMove
  <2>2. \A e \in AgedEntries : e.id \in TasksOf(UrgentEntries)
    BY <1>4, <1>6, <2>1, TasksOfQueue
  <2> QED
    BY <1>6, <1>11, <2>2 DEF GivesUp
<1>8. UrgentEntries = {} => Entries(kept) = AgedEntries
  BY <1>7 DEF Others, TasksOf
<1>9. ~is_queue_empty(kept) \/ ~is_queue_empty(emgcy)
  <2>1. AgedEntries # {}
    BY <1>2, TasksOfQueue DEF AgedEntries
  <2> QED
    BY <1>6, <1>7, <1>8, <2>1, TasksOfQueue
<1>10. CASE Work(kept, emgcy)
  <2>1. \/ Breaks
        \/ /\ osPc' = "check" /\ UNCHANGED <<dangling, failed, held, taskPc, mainPc, freed>>
           /\ qptr' \in Queue /\ emgcy_qptr' \in Queue
           /\ \/ /\ Entries(qptr') = Entries(kept)
                 /\ \E w \in Entries(emgcy) :
                      Entries(emgcy_qptr') = AfterWork(Entries(emgcy), w)
              \/ /\ Entries(emgcy) = {} /\ Entries(emgcy_qptr') = {}
                 /\ \E w \in Entries(kept) : Entries(qptr') = AfterWork(Entries(kept), w)
    BY <1>6, <1>7, <1>9, <1>10, WorkServes
  <2> QED
    BY <1>6, <1>7, <1>8, <2>1 DEF Served
<1> QED
  BY <1>1, <1>10, <1>11

(* No task is in both queues after a tick, and none is lost in it.         *)
LEMMA ServedKeepsTasks ==
  ASSUME IInv, ~held, Served(AgedEntries, UrgentEntries)
  PROVE  /\ Ids(qptr') \subseteq Ids(qptr)
         /\ Ids(qptr') \intersect Ids(emgcy_qptr') = {}
         /\ \A id \in Ids(qptr) \ Ids(qptr') :
              \/ id \in Ids(emgcy_qptr) \union Ids(emgcy_qptr')
              \/ Finished(qptr, id)
         /\ \A id \in Ids(emgcy_qptr) \ Ids(emgcy_qptr') : Finished(emgcy_qptr, id)
<1> DEFINE A == AgedEntries
           M == UrgentEntries
           Q == Entries(qptr)
           G == Entries(emgcy_qptr)
<1>1. /\ qptr \in Queue /\ emgcy_qptr \in Queue /\ Fresh
      /\ qptr' \in Queue /\ emgcy_qptr' \in Queue
  BY DEF IInv, QueuesOK, Served
<1>2. /\ Ids(qptr) = TasksOf(Q) /\ Ids(emgcy_qptr) = TasksOf(G)
      /\ Ids(qptr') = TasksOf(Entries(qptr'))
      /\ Ids(emgcy_qptr') = TasksOf(Entries(emgcy_qptr'))
  BY <1>1, TasksOfQueue
<1>3. /\ Q \subseteq TaskEntry /\ G \subseteq TaskEntry
      /\ A \subseteq TaskEntry /\ M \subseteq TaskEntry
  <2>1. Q \subseteq TaskEntry /\ G \subseteq TaskEntry
    BY <1>1, QueueFacts
  <2>2. A \subseteq TaskEntry
    BY <2>1, AgedIsEntry DEF AgedEntries
  <2> QED
    BY <2>1, <2>2 DEF UrgentEntries, Expired
<1>4. \A a \in A : \E f \in Q : /\ a = Aged(f) /\ a.id = f.id
                                /\ a.work_time = f.work_time
                                /\ a.time_out = 0 => f.time_out <= SYS_TIME
  BY <1>3, AgedIsEntry DEF AgedEntries
<1>5. TasksOf(A) = TasksOf(Q)
  <2>1. \A f \in Q : Aged(f) \in A /\ Aged(f).id = f.id
    BY <1>3, AgedIsEntry DEF AgedEntries
  <2> QED
    BY <1>4, <2>1 DEF TasksOf
(* An urgent entry with the task of an emergency entry is not an expired   *)
(* one.                                                                    *)
<1>6. \A w \in M : w.id \in TasksOf(G) => w \in G
  <2> SUFFICES ASSUME NEW w \in Expired(A), w.id \in TasksOf(G) PROVE FALSE
    BY DEF UrgentEntries
  <2>1. PICK f \in Q : w.id = f.id /\ f.time_out <= SYS_TIME
    BY <1>4 DEF Expired
  <2>2. f.time_out > SYS_TIME /\ f.time_out \in Nat
    BY <1>1, <1>2, <1>3, <2>1 DEF Fresh, TaskEntry
  <2> QED
    BY <2>1, <2>2 DEF SYS_TIME
<1>7. \A w \in M : w \in G \/ w \in A
  BY DEF UrgentEntries, Expired
<1>8. /\ \A f \in Q : f.work_time <= SYS_TIME => Finished(qptr, f.id)
      /\ \A f \in G : f.work_time <= SYS_TIME => Finished(emgcy_qptr, f.id)
  BY <1>1, TasksOfQueue
<1>9. G \subseteq M
  BY DEF UrgentEntries
<1>10. CASE /\ Entries(qptr') = Others(A, M)
            /\ \E w \in M : Entries(emgcy_qptr') = AfterWork(M, w)
  <2>1. PICK w \in M : Entries(emgcy_qptr') = AfterWork(M, w)
    BY <1>10
  <2>2. /\ TasksOf(AfterWork(M, w)) \subseteq TasksOf(M)
        /\ \A id \in TasksOf(M) \ TasksOf(AfterWork(M, w)) :
             w.id = id /\ w.work_time <= SYS_TIME
    BY <1>3, WorkKeepsTasks
  <2>3. /\ TasksOf(Others(A, M)) \subseteq TasksOf(A)
        /\ TasksOf(Others(A, M)) \intersect TasksOf(M) = {}
        /\ \A id \in TasksOf(A) \ TasksOf(Others(A, M)) : id \in TasksOf(M)
    BY DEF Others, TasksOf
  <2>4. ASSUME NEW id \in Ids(qptr) \ Ids(qptr'),
               id \notin Ids(emgcy_qptr) \union Ids(emgcy_qptr')
        PROVE  Finished(qptr, id)
    <3>1. id \in TasksOf(M) \ TasksOf(AfterWork(M, w))
      BY <1>2, <1>5, <1>10, <2>1, <2>3, <2>4
    <3>2. w.id = id /\ w.work_time <= SYS_TIME
      BY <2>2, <3>1
    <3>3. w \in A
      <4>1. w \notin G
        BY <1>2, <2>4, <3>2 DEF TasksOf
      <4> QED
        BY <1>7, <4>1
    <3> QED
      BY <1>4, <1>8, <3>2, <3>3
  <2>5. ASSUME NEW id \in Ids(emgcy_qptr) \ Ids(emgcy_qptr')
        PROVE  Finished(emgcy_qptr, id)
    <3>1. id \in TasksOf(M) \ TasksOf(AfterWork(M, w))
      BY <1>2, <1>9, <2>1 DEF TasksOf
    <3>2. w.id = id /\ w.work_time <= SYS_TIME
      BY <2>2, <3>1
    <3> QED
      BY <1>2, <1>6, <1>8, <3>2
  <2> QED
    BY <1>2, <1>5, <1>10, <2>1, <2>2, <2>3, <2>4, <2>5
<1>11. CASE /\ M = {} /\ Entries(emgcy_qptr') = {}
            /\ \E w \in A : Entries(qptr') = AfterWork(A, w)
  <2>1. PICK w \in A : Entries(qptr') = AfterWork(A, w)
    BY <1>11
  <2>2. /\ TasksOf(AfterWork(A, w)) \subseteq TasksOf(A)
        /\ \A id \in TasksOf(A) \ TasksOf(AfterWork(A, w)) :
             w.id = id /\ w.work_time <= SYS_TIME
    BY <1>3, WorkKeepsTasks
  <2>3. Ids(emgcy_qptr') = {} /\ Ids(emgcy_qptr) = {}
    BY <1>2, <1>9, <1>11 DEF TasksOf
  <2>4. ASSUME NEW id \in Ids(qptr) \ Ids(qptr')
        PROVE  Finished(qptr, id)
    <3>1. w.id = id /\ w.work_time <= SYS_TIME
      BY <1>2, <1>5, <2>1, <2>2
    <3> QED
      BY <1>4, <1>8, <3>1
  <2> QED
    BY <1>2, <1>5, <2>1, <2>2, <2>3, <2>4
<1> QED
  BY <1>10, <1>11 DEF Served

(* Nor is one lost in a tick that stops in the middle of the move.         *)
LEMMA GivenUpKeepsTasks ==
  ASSUME IInv, NEW urgent \in Queue, GivesUp(urgent)
  PROVE  /\ IInv' /\ osPc' = "exited"
         /\ Ids(qptr) \subseteq Ids(emgcy_qptr')
         /\ Ids(emgcy_qptr) \subseteq Ids(emgcy_qptr')
<1>1. /\ qptr \in Queue /\ emgcy_qptr \in Queue /\ ControlOK
  BY DEF IInv, QueuesOK
<1>2. /\ qptr' = EmptyQueue /\ emgcy_qptr' = urgent /\ dangling' = TRUE
      /\ failed' = TRUE /\ held' = TRUE /\ osPc' = "exited"
      /\ UNCHANGED <<taskPc, mainPc, freed>>
  BY DEF GivesUp, iOS_Fail
<1>3. /\ Entries(urgent) = UrgentEntries
      /\ \A e \in AgedEntries : e.id \in TasksOf(UrgentEntries)
  BY DEF GivesUp
<1>4. Ids(emgcy_qptr') = TasksOf(UrgentEntries)
  BY <1>2, <1>3, TasksOfQueue
<1>5. Ids(emgcy_qptr) \subseteq TasksOf(UrgentEntries)
  BY <1>1, TasksOfQueue DEF UrgentEntries, TasksOf
<1>6. Ids(qptr) \subseteq TasksOf(UrgentEntries)
  <2>1. \A e \in Entries(qptr) : Aged(e) \in AgedEntries /\ Aged(e).id = e.id
    BY <1>1, QueueFacts, AgedIsEntry DEF AgedEntries
  <2>2. \A e \in Entries(qptr) : e.id \in TasksOf(UrgentEntries)
    BY <1>3, <2>1
  <2> QED
    BY <1>1, <2>2, QueueFacts
<1>7. QueuesOK'
  <2>1. Len(EmptyQueue.es) = 0 /\ 0 <= QUEUE_MAX
    BY EmptySeq, QueueAssumption DEF EmptyQueue
  <2> QED
    BY <1>2, <2>1, EmptyIsQueue DEF QueuesOK
<1>8. ControlOK'
  BY <1>1, <1>2 DEF ControlOK
<1> QED
  BY <1>2, <1>4, <1>5, <1>6, <1>7, <1>8 DEF IInv

(* Nor in one that finds no memory for a copy.                             *)
LEMMA NoMemoryKeepsTasks ==
  ASSUME IInv, iOS_TickNoMemory
  PROVE  /\ IInv' /\ osPc' = "exited"
         /\ Ids(qptr') = Ids(qptr) /\ Ids(emgcy_qptr') = Ids(emgcy_qptr)
<1> DEFINE aged   == update_queue_time_out(qptr)
           sorted == SortBy(aged, ByTimeOut)
<1>1. /\ qptr \in Queue /\ emgcy_qptr \in Queue /\ ControlOK
      /\ Len(qptr.es) <= QUEUE_MAX
  BY DEF IInv, QueuesOK
<1>2. PICK copies :
        iOS_Fail(sorted, [emgcy_qptr EXCEPT !.stale = @ /\ copies = 0], FALSE)
  BY DEF iOS_TickNoMemory
<1>3. aged \in Queue /\ Entries(aged) = AgedEntries
  BY <1>1, AgedIsQueue DEF AgedEntries
<1> HIDE DEF aged
<1>4. Ids(aged) = Ids(qptr) /\ Len(aged.es) = Len(qptr.es)
  <2>1. \A e \in Entries(qptr) : Aged(e) \in AgedEntries /\ Aged(e).id = e.id
    BY <1>1, QueueFacts, AgedIsEntry DEF AgedEntries
  <2>2. \A f \in AgedEntries : \E e \in Entries(qptr) : f = Aged(e)
    BY DEF AgedEntries
  <2>3. TasksOf(AgedEntries) = TasksOf(Entries(qptr))
    BY <2>1, <2>2 DEF TasksOf
  <2>4. Ids(aged) = Ids(qptr)
    BY <1>1, <1>3, <2>3, TasksOfQueue
  <2> QED
    BY <1>1, <1>3, <2>4, LengthIsCount
<1>5. /\ sorted \in Queue /\ Ids(sorted) = Ids(qptr)
      /\ Len(sorted.es) <= QUEUE_MAX
  <2>1. /\ sorted \in Queue /\ Entries(sorted) = Entries(aged)
        /\ Len(sorted.es) = Len(aged.es)
    BY <1>3, SortIsQueue
  <2>2. Ids(sorted) = Ids(aged)
    BY <1>3, <2>1, TasksOfQueue
  <2> QED
    BY <1>1, <1>3, <1>4, <2>1, <2>2
<1> HIDE DEF sorted
<1>6. /\ qptr' = sorted /\ dangling' = FALSE
      /\ emgcy_qptr' = [emgcy_qptr EXCEPT !.stale = @ /\ copies = 0]
      /\ failed' = TRUE /\ held' = TRUE /\ osPc' = "exited"
      /\ UNCHANGED <<taskPc, mainPc, freed>>
  BY <1>2 DEF iOS_Fail
<1>7. emgcy_qptr' \in Queue /\ Ids(emgcy_qptr') = Ids(emgcy_qptr)
  <2> DEFINE st == emgcy_qptr.stale /\ copies = 0
  <2>1. /\ emgcy_qptr = [es |-> emgcy_qptr.es, stale |-> emgcy_qptr.stale]
        /\ emgcy_qptr.es \in Seq(TaskEntry) /\ st \in BOOLEAN
        /\ \A a, b \in 1 .. Len(emgcy_qptr.es) :
             emgcy_qptr.es[a].id = emgcy_qptr.es[b].id => a = b
    BY <1>1, QueueFacts
  <2>2. emgcy_qptr' = [es |-> emgcy_qptr.es, stale |-> st]
    BY <1>6, <2>1
  <2> HIDE DEF st
  <2>3. emgcy_qptr' \in Queue /\ emgcy_qptr'.es = emgcy_qptr.es
    BY <2>1, <2>2, QueueByEntries
  <2> QED
    BY <2>3 DEF Ids
<1>8. QueuesOK'
  BY <1>5, <1>6, <1>7 DEF QueuesOK
<1>9. ControlOK'
  BY <1>1, <1>6 DEF ControlOK
<1> QED
  BY <1>5, <1>6, <1>7, <1>8, <1>9 DEF IInv

-----------------------------------------------------------------------------
LEMMA InitIInv == Init => IInv
<1> SUFFICES ASSUME Init PROVE IInv
  OBVIOUS
<1>1. QueuesOK
  <2>1. Len(<< >>) = 0 /\ 0 <= QUEUE_MAX
    BY QueueAssumption
  <2> QED
    BY <2>1, EmptyIsQueue DEF Init, QueuesOK, Fresh, EmptyQueue
<1>2. ControlOK
  BY DEF Init, ControlOK
<1> QED
  BY <1>1, <1>2 DEF IInv

(* The queues stay as they are.                                            *)
LEMMA QueuesUntouched ==
  ASSUME QueuesOK, UNCHANGED <<qptr, emgcy_qptr>>
  PROVE  (held => held') => QueuesOK'
BY DEF QueuesOK, Fresh

(* A task that is queued again has all its time.                           *)
LEMMA PushIInv ==
  ASSUME IInv, NEW id \in TaskIds, iTASK_Push(id)
  PROVE  QueuesOK' /\ Ids(qptr) \subseteq Ids(qptr')
<1>1. qptr \in Queue /\ emgcy_qptr \in Queue /\ Len(qptr.es) <= QUEUE_MAX /\ Fresh
  BY DEF IInv, QueuesOK, iTASK_Push
<1>2. CASE is_queue_full(qptr) \/ id \in Ids(qptr)
  <2>1. UNCHANGED <<qptr, emgcy_qptr, held>>
    BY <1>2 DEF iTASK_Push
  <2> QED
    BY <2>1, QueuesUntouched DEF IInv
<1>3. CASE ~is_queue_full(qptr) /\ id \notin Ids(qptr)
  <2>1. qptr' = push_queue_head(qptr, Entry(id)) /\ emgcy_qptr' = emgcy_qptr
    BY <1>3 DEF iTASK_Push
  <2>2. /\ Entry(id) \in TaskEntry /\ Entry(id).id = id
        /\ Entry(id).time_out > SYS_TIME
    BY KernelAssumption DEF Entry, TaskEntry, SYS_TIME
  <2>3. /\ qptr' \in Queue /\ Entries(qptr') = Entries(qptr) \union {Entry(id)}
        /\ Len(qptr'.es) = Len(qptr.es) + 1
    BY <1>1, <1>3, <2>1, <2>2, PushIsQueue
  <2>4. Len(qptr'.es) <= QUEUE_MAX
    BY <1>1, <1>3, <2>3, QueueFacts, QueueAssumption DEF is_queue_full
  <2>5. Fresh'
    BY <1>1, <2>1, <2>2, <2>3 DEF Fresh
  <2>6. Ids(qptr) \subseteq Ids(qptr')
    BY <1>1, <2>3, TasksOfQueue DEF TasksOf
  <2> QED
    BY <1>1, <2>1, <2>3, <2>4, <2>5, <2>6 DEF QueuesOK
<1> QED
  BY <1>2, <1>3

(* After a tick no entry of the normal queue has its task in the other.    *)
LEMMA TickIInv ==
  ASSUME IInv, iOS_Tick
  PROVE  IInv'
<1>1. CASE Breaks
  BY <1>1, QueuesUntouched DEF Breaks, IInv, ControlOK
<1>2. CASE \E urgent \in Queue : GivesUp(urgent)
  BY <1>2, GivenUpKeepsTasks
<1>4. ~held
  BY DEF iOS_Tick
<1>3. CASE /\ osPc' = "check" /\ UNCHANGED <<dangling, failed, held, taskPc, mainPc, freed>>
           /\ Served(AgedEntries, UrgentEntries)
  <2>1. qptr \in Queue /\ qptr' \in Queue /\ emgcy_qptr' \in Queue
    BY <1>3 DEF IInv, QueuesOK, Served
  <2>2. /\ Ids(qptr') \subseteq Ids(qptr)
        /\ Ids(qptr') \intersect Ids(emgcy_qptr') = {}
    BY <1>3, <1>4, ServedKeepsTasks
  <2>3. Len(qptr'.es) <= QUEUE_MAX
    <3>1. Len(qptr'.es) <= Len(qptr.es)
      BY <2>1, <2>2, FewerTasksShorter
    <3>2. Len(qptr.es) <= QUEUE_MAX
      BY DEF IInv, QueuesOK
    <3> QED
      BY <2>1, <3>1, <3>2, QueueFacts, QueueAssumption
  <2>4. Fresh'
    <3>1. \A e \in Entries(qptr') : e.id \in Ids(qptr')
      BY <2>1, TasksOfQueue DEF TasksOf
    <3> QED
      BY <2>2, <3>1 DEF Fresh
  <2>5. QueuesOK'
    BY <2>1, <2>3, <2>4 DEF QueuesOK
  <2>6. ControlOK'
    BY <1>3 DEF IInv, ControlOK
  <2> QED
    BY <2>5, <2>6 DEF IInv
<1> QED
  BY <1>1, <1>2, <1>3, TickServes

(* The steps that touch no queue.                                          *)
QuietStep ==
  \/ \E id \in TaskIds : iTASK_Check(id) \/ iTASK_PushFails(id)
  \/ iOS_Check \/ iOS_TickEmpty
  \/ MainPoll \/ MainJoin \/ UNCHANGED vars

LEMMA QuietStepLeaves ==
  ASSUME IInv, QuietStep
  PROVE  /\ UNCHANGED <<qptr, emgcy_qptr, dangling>>
         /\ ControlOK' /\ (held => held')
         /\ osPc = "lock" /\ osPc' = "check" => is_queue_empty(qptr)
<1>1. ControlOK
  BY DEF IInv
<1>2. ASSUME NEW id \in TaskIds, iTASK_Check(id) \/ iTASK_PushFails(id)
      PROVE  UNCHANGED <<qptr, emgcy_qptr, dangling, osPc>> /\ ControlOK' /\ (held => held')
  BY <1>1, <1>2 DEF iTASK_Check, iTASK_PushFails, ControlOK
<1>3. CASE iOS_Check
  BY <1>1, <1>3 DEF iOS_Check, ControlOK
<1>4. CASE iOS_TickEmpty
  BY <1>1, <1>4 DEF iOS_TickEmpty, Ticked, ControlOK
<1>6. CASE MainPoll \/ MainJoin
  BY <1>1, <1>6 DEF MainPoll, MainJoin, ControlOK
<1>7. CASE UNCHANGED vars
  BY <1>1, <1>7 DEF vars, ControlOK
<1>8. \A id \in TaskIds : iTASK_Check(id) \/ iTASK_PushFails(id) =>
        UNCHANGED <<qptr, emgcy_qptr, dangling, osPc>> /\ ControlOK' /\ (held => held')
  BY <1>2
<1> QED
  BY <1>1, <1>3, <1>4, <1>6, <1>7, <1>8 DEF QuietStep

LEMMA StepIsOneOf ==
  [Next]_vars =>
    QuietStep \/ iOS_Tick \/ iOS_TickNoMemory \/ \E id \in TaskIds : iTASK_Push(id)
BY DEF Next, iTASK, iOS, QuietStep

LEMMA NextIInv == IInv /\ [Next]_vars => IInv'
<1> SUFFICES ASSUME IInv, [Next]_vars PROVE IInv'
  OBVIOUS
<1>1. CASE QuietStep
  BY <1>1, QuietStepLeaves, QueuesUntouched DEF IInv
<1>2. CASE iOS_Tick \/ iOS_TickNoMemory
  BY <1>2, TickIInv, NoMemoryKeepsTasks
<1>3. ASSUME NEW id \in TaskIds, iTASK_Push(id)
      PROVE  IInv'
  <2>1. ControlOK'
    BY <1>3 DEF iTASK_Push, IInv, ControlOK
  <2> QED
    BY <1>3, <2>1, PushIInv DEF IInv
<1> QED
  BY <1>1, <1>2, <1>3, StepIsOneOf
-----------------------------------------------------------------------------
(* Neither queue ever holds two entries of a task, nor the normal one more *)
(* than the sorts can sort (queue.h:216-224, 293-304, iOS.c:74-83).        *)
THEOREM TypesHold == Spec => []TypeOK
BY InitIInv, NextIInv, IInvTypeOK, PTL DEF Spec

(* A tick leaves no task in both queues (queue.h:293-304).                 *)
THEOREM TicksSeparate == Spec => TickSeparatesQueues
<1>1. ASSUME IInv, [Next]_vars, osPc = "lock", osPc' = "check"
      PROVE  Ids(qptr') \intersect Ids(emgcy_qptr') = {}
  <2>1. CASE QuietStep
    <3>1. qptr \in Queue /\ qptr' = qptr /\ is_queue_empty(qptr)
      BY <1>1, <2>1, QuietStepLeaves DEF IInv, QueuesOK
    <3> QED
      BY <3>1, TasksOfQueue DEF TasksOf
  <2>2. CASE iOS_Tick
    <3>1. CASE Breaks
      BY <1>1, <3>1 DEF Breaks
    <3>2. CASE \E urgent \in Queue : GivesUp(urgent)
      BY <1>1, <3>2, GivenUpKeepsTasks
    <3>3. ~held
      BY <2>2 DEF iOS_Tick
    <3> QED
      BY <1>1, <2>2, <3>1, <3>2, <3>3, TickServes, ServedKeepsTasks
  <2>4. CASE iOS_TickNoMemory
    BY <1>1, <2>4, NoMemoryKeepsTasks
  <2>3. CASE \E id \in TaskIds : iTASK_Push(id)
    BY <1>1, <2>3 DEF iTASK_Push
  <2> QED
    BY <1>1, <2>1, <2>2, <2>3, <2>4, StepIsOneOf
<1>2. IInv /\ [Next]_vars =>
        [osPc = "lock" /\ osPc' = "check" =>
           Ids(qptr') \intersect Ids(emgcy_qptr') = {}]_vars
  BY <1>1
<1> QED
  BY <1>2, InitIInv, NextIInv, PTL DEF Spec, TickSeparatesQueues

(* A task leaves a queue for one of the reasons there are (queue.h:113-144,*)
(* 293-335, iOS.c:142-173).                                                *)
THEOREM RequestsSurvive == Spec => NoRequestLost
<1> DEFINE Kept(id) ==
      /\ id \in Ids(qptr) \ Ids(qptr') =>
           \/ id \in Ids(emgcy_qptr) \union Ids(emgcy_qptr')
           \/ Finished(qptr, id)
      /\ id \in Ids(emgcy_qptr) \ Ids(emgcy_qptr') => Finished(emgcy_qptr, id)
<1>1. ASSUME IInv, [Next]_vars, NEW id \in TaskIds
      PROVE  Kept(id)
  <2>1. CASE UNCHANGED <<qptr, emgcy_qptr>>
    BY <2>1
  <2>2. CASE QuietStep
    BY <1>1, <2>1, <2>2, QuietStepLeaves
  <2>3. CASE iOS_Tick
    <3>1. CASE Breaks
      BY <2>1, <3>1 DEF Breaks
    <3>2. CASE \E urgent \in Queue : GivesUp(urgent)
      BY <1>1, <3>2, GivenUpKeepsTasks
    <3>3. CASE Served(AgedEntries, UrgentEntries)
      <4>1. ~held
        BY <2>3 DEF iOS_Tick
      <4> QED
        BY <1>1, <3>3, <4>1, ServedKeepsTasks
    <3> QED
      BY <1>1, <2>3, <3>1, <3>2, <3>3, TickServes
  <2>4. ASSUME NEW t \in TaskIds, iTASK_Push(t)
        PROVE  Kept(id)
    <3>1. Ids(qptr) \subseteq Ids(qptr') /\ emgcy_qptr' = emgcy_qptr
      BY <1>1, <2>4, PushIInv DEF iTASK_Push
    <3> QED
      BY <3>1
  <2>5. CASE iOS_TickNoMemory
    BY <1>1, <2>5, NoMemoryKeepsTasks
  <2> HIDE DEF Kept
  <2> QED
    BY <1>1, <2>2, <2>3, <2>4, <2>5, StepIsOneOf
<1>2. IInv /\ [Next]_vars => [\A id \in TaskIds : Kept(id)]_vars
  <2> HIDE DEF Kept
  <2> QED
    BY <1>1
<1> QED
  BY <1>2, InitIInv, NextIInv, PTL DEF Spec, NoRequestLost

(* Who fails keeps the mutex, and every step that touches a queue takes it *)
(* (iOS.c:71-82, 135-145).                                                 *)
THEOREM FailureFreezes == Spec => FrozenAfterFailure
<1>1. ASSUME IInv, [Next]_vars, failed
      PROVE  UNCHANGED <<qptr, emgcy_qptr, dangling>>
  <2>1. held
    BY <1>1 DEF IInv, ControlOK
  <2>2. CASE QuietStep
    BY <1>1, <2>2, QuietStepLeaves
  <2>3. CASE iOS_Tick \/ iOS_TickNoMemory \/ \E id \in TaskIds : iTASK_Push(id)
    BY <2>1, <2>3 DEF iOS_Tick, iOS_TickNoMemory, iTASK_Push
  <2> QED
    BY <1>1, <2>2, <2>3, StepIsOneOf
<1>2. IInv /\ [Next]_vars => [failed => UNCHANGED <<qptr, emgcy_qptr, dangling>>]_vars
  BY <1>1
<1> QED
  BY <1>2, InitIInv, NextIInv, PTL DEF Spec, FrozenAfterFailure
=============================================================================
