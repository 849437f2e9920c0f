------------------------- MODULE LinkedQueue_proofs -------------------------
(***************************************************************************)
(* The linked list of iOS/queue.h, for every set of entries that QUEUE_MAX *)
(* passes can sort, with any priorities.                                   *)
(***************************************************************************)
EXTENDS LinkedQueue, FiniteSetTheorems, ProofLemmas

(* A queue of entries, at most one for each node.                          *)
Entry == {QueueEntry(m) : m \in Node}

Queue ==
  {r \in [es : Seq(Entry), stale : BOOLEAN] :
     /\ \A a, b \in 1 .. Len(r.es) : r.es[a].id = r.es[b].id => a = b
     /\ r.stale => r.es # << >>}

(* The orders in which the entries of a queue of length n can be linked,   *)
(* and the one that has not been changed.                                  *)
Orders(n) == {o \in [1 .. n -> 1 .. n] : \A a, b \in 1 .. n : o[a] = o[b] => a = b}

InPlace(n) == [a \in 1 .. n |-> a]

(* From h on, the pointers link the entries of r in the order o.           *)
Links(r, o, h, nx, pr) ==
  LET n == Len(r.es)
      L(a) == r.es[o[a]].id
  IN  /\ h = IF n = 0 THEN NULL ELSE L(1)
      /\ \A a \in 1 .. n : nx[L(a)] = IF a = n THEN NULL ELSE L(a + 1)
      /\ \A a \in 2 .. n : pr[L(a)] = L(a - 1)

(* The pre of the first entry is NULL, or points at no entry.              *)
FirstPre(r, h, pr, lv) ==
  r.es # << >> => IF r.stale THEN pr[h] # NULL /\ pr[h] \notin lv
                  ELSE pr[h] = NULL

(* The entry at b is not less than any before it.                          *)
Largest(r, o, b) ==
  \A a \in 1 .. Len(r.es) : a < b => r.es[o[a]].priority <= r.es[o[b]].priority

(* Entries that are alike have kept their order, and a first entry with a  *)
(* stale pre its place.                                                    *)
Stable(r, o) ==
  /\ \A a, b \in 1 .. Len(r.es) :
       a < b /\ r.es[o[a]].priority = r.es[o[b]].priority => o[a] < o[b]
  /\ r.stale => o[1] = 1

(* After d passes the last d entries are where they belong; the pass that  *)
(* has come to k carries the largest entry so far, up to the last place    *)
(* that is not settled.                                                    *)
Settled(r, o, k, d) ==
  LET n == Len(r.es)
  IN  /\ Largest(r, o, k)
      /\ \A b \in 1 .. n : b > n - d => Largest(r, o, b)
      /\ k >= n - d /\ n - d \in 1 .. n => Largest(r, o, n - d)

ListOK ==
  /\ nxt \in [Node -> Node \union {NULL}] /\ pre \in [Node -> Node \union {NULL}]
  /\ q \in Queue /\ live = Ids(q)
  /\ sortPc \in {"idle", "swap"}
  /\ sortPc = "idle" =>
       /\ ~doomed
       /\ Links(q, InPlace(Len(q.es)), qulist, nxt, pre)
       /\ FirstPre(q, qulist, pre, live)
  /\ sortPc = "swap" =>
       /\ q.es # << >> /\ i \in 0 .. QUEUE_MAX - 1
       /\ doomed = SortFollowsStale(q, ByPriority)
       /\ FirstPre(q, hqu, pre, live)
       /\ \E o \in Orders(Len(q.es)) : \E k \in 1 .. Len(q.es) :
            /\ Links(q, o, hqu, nxt, pre) /\ qu_1 = q.es[o[k]].id
            /\ Stable(q, o) /\ Settled(q, o, k, i)

ListIInv == (misused => doomed) /\ (~misused => ListOK)
-----------------------------------------------------------------------------
(* What is known of a queue.                                               *)
LEMMA QueueFacts ==
  ASSUME NEW r \in Queue
  PROVE  /\ r.es \in Seq(Entry) /\ Len(r.es) \in Nat
         /\ DOMAIN r.es = 1 .. Len(r.es)
         /\ \A a \in 1 .. Len(r.es) :
              /\ r.es[a] \in Entry
              /\ r.es[a].id \in Node /\ r.es[a].id # NULL
              /\ r.es[a].priority = NodePriority[r.es[a].id]
              /\ r.es[a].priority \in Nat
         /\ \A a, b \in 1 .. Len(r.es) : r.es[a].id = r.es[b].id => a = b
         /\ Ids(r) = {r.es[a].id : a \in 1 .. Len(r.es)}
         /\ r = [es |-> r.es, stale |-> r.stale] /\ r.stale \in BOOLEAN
         /\ (r.es = << >> <=> Len(r.es) = 0)
         /\ r.stale => r.es # << >>
<1>1. r.es \in Seq(Entry) /\ Len(r.es) \in Nat /\ DOMAIN r.es = 1 .. Len(r.es)
  BY LenProperties DEF Queue
<1>2. \A a \in 1 .. Len(r.es) : r.es[a] \in Entry
  BY <1>1, ElementOfSeq
<1>3. \A e \in Entry : /\ e.id \in Node /\ e.id # NULL
                       /\ e.priority = NodePriority[e.id] /\ e.priority \in Nat
  BY NodeAssumption DEF Entry, QueueEntry, NULL
<1>4. Ids(r) = {r.es[a].id : a \in 1 .. Len(r.es)}
  BY <1>1 DEF Ids
<1>5. \A a, b \in 1 .. Len(r.es) : r.es[a].id = r.es[b].id => a = b
  BY DEF Queue
<1>6. /\ r = [es |-> r.es, stale |-> r.stale] /\ r.stale \in BOOLEAN
      /\ r.stale => r.es # << >>
  BY DEF Queue
<1>7. r.es = << >> <=> Len(r.es) = 0
  BY <1>1, EmptySeq
<1> QED
  BY <1>1, <1>2, <1>3, <1>4, <1>5, <1>6, <1>7, Zenon

(* QUEUE_MAX passes are enough for a queue.                                *)
LEMMA QueueLength ==
  ASSUME NEW r \in Queue
  PROVE  Len(r.es) <= QUEUE_MAX + 1
<1> DEFINE n == Len(r.es)
           f == [a \in 1 .. n |-> r.es[a].id]
<1>1. n \in Nat
  BY QueueFacts
<1>2. f \in Injection(1 .. n, Node)
  BY QueueFacts DEF Injection, IsInjective
<1> HIDE DEF f, n
<1>3. Cardinality(1 .. n) = n
  BY <1>1, FS_Interval
<1>4. IsFiniteSet(Node) /\ Cardinality(Node) <= QUEUE_MAX + 1 /\ Cardinality(Node) \in Nat
  BY NodeAssumption, FS_CardinalityType
<1>5. Cardinality(1 .. n) <= Cardinality(Node)
  BY <1>2, <1>4, FS_Injection
<1> QED
  BY <1>1, <1>3, <1>4, <1>5, QueueAssumption DEF n

(* How a queue is given by its entries.                                    *)
LEMMA QueueByEntries ==
  ASSUME NEW s \in Seq(Entry), NEW st \in BOOLEAN, st => Len(s) # 0,
         \A a, b \in 1 .. Len(s) : s[a].id = s[b].id => a = b
  PROVE  [es |-> s, stale |-> st] \in Queue
<1>1. s = << >> => Len(s) = 0
  OBVIOUS
<1> QED
  BY <1>1 DEF Queue

(* The unchanged order leads through the queue itself.                     *)
Straight(s, h, nx, pr) ==
  /\ h = IF Len(s) = 0 THEN NULL ELSE s[1].id
  /\ \A a \in 1 .. Len(s) : nx[s[a].id] = IF a = Len(s) THEN NULL ELSE s[a + 1].id
  /\ \A a \in 2 .. Len(s) : pr[s[a].id] = s[a - 1].id

LEMMA LinksInPlace ==
  ASSUME NEW r \in Queue, NEW h, NEW nx, NEW pr
  PROVE  Links(r, InPlace(Len(r.es)), h, nx, pr) <=> Straight(r.es, h, nx, pr)
<1> DEFINE n == Len(r.es)
           o == InPlace(n)
<1>1. n \in Nat
  BY QueueFacts
<1>2. \A a \in 1 .. n : o[a] = a
  BY DEF InPlace
<1> HIDE DEF n, o
<1>3. /\ n # 0 => 1 \in 1 .. n
      /\ \A a \in 1 .. n : a # n => a + 1 \in 1 .. n
      /\ \A a \in 2 .. n : a \in 1 .. n /\ a - 1 \in 1 .. n
  BY <1>1
<1>4. Links(r, o, h, nx, pr) <=>
        /\ h = IF n = 0 THEN NULL ELSE r.es[o[1]].id
        /\ \A a \in 1 .. n :
             nx[r.es[o[a]].id] = IF a = n THEN NULL ELSE r.es[o[a + 1]].id
        /\ \A a \in 2 .. n : pr[r.es[o[a]].id] = r.es[o[a - 1]].id
  BY DEF Links, n
<1>5. /\ n # 0 => r.es[o[1]].id = r.es[1].id
      /\ \A a \in 1 .. n : r.es[o[a]].id = r.es[a].id
      /\ \A a \in 1 .. n : a # n => r.es[o[a + 1]].id = r.es[a + 1].id
      /\ \A a \in 2 .. n : /\ r.es[o[a]].id = r.es[a].id
                          /\ r.es[o[a - 1]].id = r.es[a - 1].id
  BY <1>2, <1>3
<1>6. Links(r, o, h, nx, pr) <=>
        /\ h = IF n = 0 THEN NULL ELSE r.es[1].id
        /\ \A a \in 1 .. n : nx[r.es[a].id] = IF a = n THEN NULL ELSE r.es[a + 1].id
        /\ \A a \in 2 .. n : pr[r.es[a].id] = r.es[a - 1].id
  BY <1>4, <1>5
<1> QED
  BY <1>6 DEF n, o, Straight
-----------------------------------------------------------------------------
(* push_queue_head links a new first entry.                                *)
LEMMA PushOK == \A m \in Node : ListOK /\ push(m) => ListOK'
<1> SUFFICES ASSUME NEW m \in Node, ListOK, push(m)
             PROVE  ListOK'
  OBVIOUS
<1> DEFINE n == Len(q.es)
           s == <<QueueEntry(m)>> \o q.es
           r == [es |-> s, stale |-> FALSE]
<1>1. /\ nxt \in [Node -> Node \union {NULL}] /\ pre \in [Node -> Node \union {NULL}]
      /\ q \in Queue /\ live = Ids(q) /\ sortPc = "idle" /\ ~doomed
      /\ Links(q, InPlace(n), qulist, nxt, pre)
  BY DEF ListOK, push
<1>2. /\ m \notin live /\ live' = live \union {m}
      /\ nxt' = [nxt EXCEPT ![m] = qulist]
      /\ pre' = [x \in Node |-> IF x = m THEN NULL
                                ELSE IF x = qulist THEN m ELSE pre[x]]
      /\ qulist' = m /\ q' = r
      /\ sortPc' = "idle" /\ ~doomed'
  BY <1>1 DEF push, push_queue_head, sort
<1>3. /\ n \in Nat /\ DOMAIN q.es = 1 .. n /\ q.es \in Seq(Entry)
      /\ \A a \in 1 .. n : q.es[a].id \in Node /\ q.es[a].id # NULL /\ q.es[a].id # m
      /\ \A a, b \in 1 .. n : q.es[a].id = q.es[b].id => a = b
      /\ Ids(q) = {q.es[a].id : a \in 1 .. n}
  BY <1>1, <1>2, QueueFacts
<1>4. /\ s \in Seq(Entry) /\ Len(s) = n + 1
      /\ \A a \in 1 .. n + 1 : s[a] = IF a = 1 THEN QueueEntry(m) ELSE q.es[a - 1]
  <2>1. QueueEntry(m) \in Entry
    BY DEF Entry
  <2> QED
    BY <1>3, <2>1, NewFirst
<1>5. QueueEntry(m).id = m
  BY DEF QueueEntry
<1> HIDE DEF s
<1>6. s[1].id = m /\ \A a \in 2 .. n + 1 : s[a].id = q.es[a - 1].id /\ a - 1 \in 1 .. n
  BY <1>3, <1>4, <1>5
<1>7. /\ qulist = IF n = 0 THEN NULL ELSE q.es[1].id
      /\ \A a \in 1 .. n : nxt[q.es[a].id] = IF a = n THEN NULL ELSE q.es[a + 1].id
      /\ \A a \in 2 .. n : pre[q.es[a].id] = q.es[a - 1].id
  <2>1. Straight(q.es, qulist, nxt, pre)
    BY <1>1, LinksInPlace, Zenon
  <2> QED
    BY <2>1 DEF Straight
<1> HIDE DEF n
<1>8. r \in Queue /\ r.es = s /\ r.stale = FALSE
  <2>1. \A a, b \in 1 .. Len(s) : s[a].id = s[b].id => a = b
    <3> SUFFICES ASSUME NEW a \in 1 .. n + 1, NEW b \in 1 .. n + 1, s[a].id = s[b].id
                 PROVE  a = b
      BY <1>4
    <3>1. CASE a = 1 \/ b = 1
      <4>1. a = 1 \/ a \in 2 .. n + 1
        BY <1>3
      <4>2. b = 1 \/ b \in 2 .. n + 1
        BY <1>3
      <4> QED
        BY <1>3, <1>6, <3>1, <4>1, <4>2
    <3>2. CASE a # 1 /\ b # 1
      <4>1. a \in 2 .. n + 1 /\ b \in 2 .. n + 1
        BY <1>3, <3>2
      <4>2. a - 1 = b - 1
        BY <1>3, <1>6, <4>1
      <4> QED
        BY <4>2
    <3> QED
      BY <3>1, <3>2
  <2> QED
    BY <1>4, <2>1, QueueByEntries
<1>9. Ids(r) = Ids(q) \union {m}
  <2>1. Ids(r) = {s[a].id : a \in 1 .. n + 1}
    BY <1>4, <1>8, QueueFacts
  <2>2. \A a \in 1 .. n : a + 1 \in 1 .. n + 1 /\ s[a + 1].id = q.es[a].id
    <3> SUFFICES ASSUME NEW a \in 1 .. n
                 PROVE  a + 1 \in 1 .. n + 1 /\ s[a + 1].id = q.es[a].id
      OBVIOUS
    <3>1. a + 1 \in 2 .. n + 1 /\ a + 1 \in 1 .. n + 1 /\ (a + 1) - 1 = a
      BY <1>3
    <3> QED
      BY <1>6, <3>1
  <2>3. \A a \in 1 .. n + 1 : s[a].id = m \/ s[a].id \in Ids(q)
    <3> SUFFICES ASSUME NEW a \in 1 .. n + 1
                 PROVE  s[a].id = m \/ s[a].id \in Ids(q)
      OBVIOUS
    <3>1. a = 1 \/ a \in 2 .. n + 1
      BY <1>3
    <3> QED
      BY <1>3, <1>6, <3>1
  <2>4. 1 \in 1 .. n + 1
    BY <1>3
  <2> QED
    <3> HIDE DEF r
    <3>1. \A x \in Ids(r) : x \in Ids(q) \union {m}
      BY <2>1, <2>3
    <3>2. ASSUME NEW a \in 1 .. n PROVE q.es[a].id \in Ids(r)
      BY <2>1, <2>2
    <3>3. m \in Ids(r)
      BY <1>6, <2>1, <2>4
    <3>4. \A x \in Ids(q) : x \in Ids(r)
      BY <1>3, <3>2
    <3> QED
      BY <3>1, <3>3, <3>4
<1>10. Links(r, InPlace(n + 1), m, nxt', pre')
  <2>1. \A a \in 1 .. n + 1 : nxt'[s[a].id] = IF a = n + 1 THEN NULL ELSE s[a + 1].id
    <3> SUFFICES ASSUME NEW a \in 1 .. n + 1
                 PROVE  nxt'[s[a].id] = IF a = n + 1 THEN NULL ELSE s[a + 1].id
      OBVIOUS
    <3>1. CASE a = 1
      <4>1. nxt'[s[1].id] = qulist
        BY <1>1, <1>2, <1>6
      <4>2. n # 0 => s[2].id = q.es[1].id
        <5>1. n # 0 => 2 \in 2 .. n + 1 /\ 2 - 1 = 1
          BY <1>3
        <5> QED
          BY <1>6, <5>1
      <4>3. 1 = n + 1 <=> n = 0
        BY <1>3
      <4>4. 1 + 1 = 2
        OBVIOUS
      <4> QED
        BY <1>7, <3>1, <4>1, <4>2, <4>3, <4>4
    <3>2. CASE a # 1
      <4>1. a \in 2 .. n + 1 /\ a - 1 \in 1 .. n /\ (a - 1) + 1 = a
        BY <1>3, <3>2
      <4>2. nxt'[s[a].id] = IF a - 1 = n THEN NULL ELSE q.es[a].id
        BY <1>1, <1>2, <1>3, <1>6, <1>7, <4>1
      <4>3. a - 1 # n => a + 1 \in 2 .. n + 1 /\ (a + 1) - 1 = a
        BY <1>3, <4>1
      <4>4. a - 1 = n <=> a = n + 1
        BY <1>3, <4>1
      <4> QED
        BY <1>6, <4>2, <4>3, <4>4
    <3> QED
      BY <3>1, <3>2
  <2>2. \A a \in 2 .. n + 1 : pre'[s[a].id] = s[a - 1].id
    <3> SUFFICES ASSUME NEW a \in 2 .. n + 1
                 PROVE  pre'[s[a].id] = s[a - 1].id
      OBVIOUS
    <3>1. /\ a - 1 \in 1 .. n /\ s[a].id = q.es[a - 1].id
          /\ s[a].id \in Node /\ s[a].id # m
      BY <1>3, <1>6
    <3>2. CASE a = 2
      <4>1. a - 1 = 1 /\ n # 0
        BY <1>3, <3>2
      <4>2. s[a].id = qulist
        BY <1>7, <3>1, <4>1
      <4> QED
        BY <1>2, <1>6, <3>1, <4>1, <4>2
    <3>3. CASE a # 2
      <4>1. /\ a - 1 \in 2 .. n /\ 1 \in 1 .. n /\ a - 1 # 1 /\ n # 0
            /\ a - 1 \in 2 .. n + 1
        BY <1>3, <3>1, <3>3
      <4>2. s[a].id # qulist
        BY <1>3, <1>7, <3>1, <4>1
      <4>3. pre'[s[a].id] = pre[q.es[a - 1].id]
        BY <1>2, <3>1, <4>2
      <4> QED
        BY <1>6, <1>7, <4>1, <4>3
    <3> QED
      BY <3>2, <3>3
  <2>3. n + 1 # 0 /\ Len(r.es) = n + 1
    BY <1>3, <1>4, <1>8
  <2>4. m = IF n + 1 = 0 THEN NULL ELSE s[1].id
    BY <1>6, <2>3
  <2> HIDE DEF r
  <2>5. Straight(s, m, nxt', pre')
    BY <1>4, <2>1, <2>2, <2>3, <2>4 DEF Straight
  <2> QED
    BY <1>8, <2>3, <2>5, LinksInPlace, Zenon
<1>11. /\ nxt' \in [Node -> Node \union {NULL}] /\ pre' \in [Node -> Node \union {NULL}]
       /\ pre'[m] = NULL
  <2>1. qulist \in Node \union {NULL}
    <3>1. n # 0 => 1 \in 1 .. n
      BY <1>3
    <3> QED
      BY <1>3, <1>7, <3>1
  <2> QED
    BY <1>1, <1>2, <2>1
<1>12. FirstPre(q', qulist', pre', live')
  BY <1>2, <1>8, <1>11 DEF FirstPre
<1>13. Links(q', InPlace(Len(q'.es)), qulist', nxt', pre')
  BY <1>2, <1>4, <1>8, <1>10
<1>14. q' \in Queue /\ live' = Ids(q')
  BY <1>1, <1>2, <1>8, <1>9
<1> HIDE DEF r
<1> QED
  BY <1>2, <1>11, <1>12, <1>13, <1>14 DEF ListOK

(* pop_queue_head unlinks the first entry and leaves a stale pre behind.   *)
LEMMA PopOK == ListOK /\ pop => ListOK'
<1> SUFFICES ASSUME ListOK, pop
             PROVE  ListOK'
  OBVIOUS
<1> DEFINE n == Len(q.es)
           s == Tail(q.es)
           st == n > 1
           r == [es |-> s, stale |-> st]
<1>1. /\ nxt \in [Node -> Node \union {NULL}] /\ pre \in [Node -> Node \union {NULL}]
      /\ q \in Queue /\ live = Ids(q) /\ sortPc = "idle" /\ ~doomed
      /\ Links(q, InPlace(n), qulist, nxt, pre)
  BY DEF ListOK, pop
<1>2. /\ qulist # NULL /\ qulist' = nxt[qulist] /\ live' = live \ {qulist}
      /\ nxt' = nxt /\ pre' = pre /\ sortPc' = "idle" /\ ~doomed'
      /\ q' = r
  BY <1>1 DEF pop, sort, pop_queue_head
<1>3. /\ n \in Nat /\ DOMAIN q.es = 1 .. n /\ q.es \in Seq(Entry)
      /\ \A a \in 1 .. n : q.es[a].id \in Node /\ q.es[a].id # NULL
      /\ \A a, b \in 1 .. n : q.es[a].id = q.es[b].id => a = b
      /\ Ids(q) = {q.es[a].id : a \in 1 .. n}
      /\ (q.es = << >> <=> n = 0)
  BY <1>1, QueueFacts
<1>4. /\ qulist = IF n = 0 THEN NULL ELSE q.es[1].id
      /\ \A a \in 1 .. n : nxt[q.es[a].id] = IF a = n THEN NULL ELSE q.es[a + 1].id
      /\ \A a \in 2 .. n : pre[q.es[a].id] = q.es[a - 1].id
  <2>1. Straight(q.es, qulist, nxt, pre)
    BY <1>1, LinksInPlace, Zenon
  <2> QED
    BY <2>1 DEF Straight
<1>5. n # 0 /\ qulist = q.es[1].id /\ 1 \in 1 .. n
  BY <1>2, <1>3, <1>4
<1>6. /\ s \in Seq(Entry) /\ Len(s) = n - 1
      /\ \A a \in 1 .. n - 1 : s[a] = q.es[a + 1]
  BY <1>3, <1>5, HeadTailProperties
<1> HIDE DEF n, s
<1>7. \A a \in 1 .. n - 1 : a + 1 \in 1 .. n /\ a + 1 \in 2 .. n /\ s[a].id = q.es[a + 1].id
  BY <1>3, <1>6
<1>8. r \in Queue /\ r.es = s /\ r.stale = st
  <2>1. \A a, b \in 1 .. Len(s) : s[a].id = s[b].id => a = b
    <3> SUFFICES ASSUME NEW a \in 1 .. n - 1, NEW b \in 1 .. n - 1, s[a].id = s[b].id
                 PROVE  a = b
      BY <1>6
    <3>1. a + 1 = b + 1
      BY <1>3, <1>7
    <3> QED
      BY <3>1
  <2>2. st \in BOOLEAN /\ (st => Len(s) # 0)
    BY <1>3, <1>6
  <2> QED
    BY <1>6, <2>1, <2>2, QueueByEntries
<1> HIDE DEF r
<1>9. Ids(r) = Ids(q) \ {qulist}
  <2>1. Ids(r) = {s[a].id : a \in 1 .. n - 1}
    BY <1>6, <1>8, QueueFacts
  <2>2. ASSUME NEW a \in 1 .. n - 1
        PROVE  s[a].id \in Ids(q) \ {qulist}
    <3>1. a + 1 # 1
      BY <1>3
    <3>2. s[a].id = q.es[a + 1].id /\ a + 1 \in 1 .. n
      BY <1>7
    <3>3. q.es[a + 1].id # qulist
      BY <1>3, <1>5, <3>1, <3>2
    <3> QED
      BY <1>3, <3>2, <3>3
  <2>3. ASSUME NEW a \in 1 .. n, a # 1
        PROVE  q.es[a].id \in {s[b].id : b \in 1 .. n - 1}
    <3>1. a - 1 \in 1 .. n - 1 /\ (a - 1) + 1 = a
      BY <1>3, <2>3
    <3>2. s[a - 1].id = q.es[a].id
      BY <1>7, <3>1
    <3> QED
      BY <3>1, <3>2
  <2>4. \A y \in Ids(r) : y \in Ids(q) \ {qulist}
    BY <2>1, <2>2
  <2>5. \A y \in Ids(q) \ {qulist} : y \in Ids(r)
    <3> SUFFICES ASSUME NEW y \in Ids(q) \ {qulist} PROVE y \in Ids(r)
      OBVIOUS
    <3>1. PICK a \in 1 .. n : y = q.es[a].id
      BY <1>3
    <3>2. a # 1
      BY <1>5, <3>1
    <3> QED
      BY <2>1, <2>3, <3>1, <3>2
  <2> QED
    BY <2>4, <2>5
<1>10. Straight(s, qulist', nxt, pre)
  <2>1. qulist' = IF n - 1 = 0 THEN NULL ELSE s[1].id
    <3>1. qulist' = IF n = 1 THEN NULL ELSE q.es[1 + 1].id
      BY <1>2, <1>4, <1>5
    <3>2. n # 1 => 1 \in 1 .. n - 1
      BY <1>3, <1>5
    <3> QED
      BY <1>3, <1>7, <3>1, <3>2
  <2>2. ASSUME NEW a \in 1 .. n - 1
        PROVE  nxt[s[a].id] = IF a = n - 1 THEN NULL ELSE s[a + 1].id
    <3>1. nxt[s[a].id] = IF a + 1 = n THEN NULL ELSE q.es[(a + 1) + 1].id
      BY <1>4, <1>7
    <3>2. a + 1 = n <=> a = n - 1
      BY <1>3
    <3>3. a # n - 1 => a + 1 \in 1 .. n - 1
      BY <1>3
    <3> QED
      BY <1>7, <3>1, <3>2, <3>3
  <2>3. ASSUME NEW a \in 2 .. n - 1
        PROVE  pre[s[a].id] = s[a - 1].id
    <3>1. a \in 1 .. n - 1 /\ a - 1 \in 1 .. n - 1 /\ (a + 1) - 1 = a /\ (a - 1) + 1 = a
      BY <1>3
    <3>2. pre[s[a].id] = q.es[a].id
      BY <1>4, <1>7, <3>1
    <3>3. s[a - 1].id = q.es[a].id
      BY <1>7, <3>1
    <3> QED
      BY <3>2, <3>3
  <2> QED
    BY <1>6, <2>1, <2>2, <2>3 DEF Straight
<1>11. FirstPre(r, qulist', pre, live')
  <2> SUFFICES ASSUME r.es # << >>
               PROVE  st /\ pre[qulist'] # NULL /\ pre[qulist'] \notin live'
    BY <1>8 DEF FirstPre
  <2>1. n - 1 # 0
    BY <1>6, <1>8, QueueFacts
  <2>2. n > 1 /\ 2 \in 2 .. n /\ 1 + 1 = 2 /\ 2 - 1 = 1
    BY <1>3, <1>5, <2>1
  <2>3. qulist' = q.es[2].id
    BY <1>2, <1>4, <1>5, <2>2
  <2>4. pre[qulist'] = q.es[1].id
    BY <1>4, <2>2, <2>3
  <2> QED
    BY <1>2, <1>3, <1>5, <2>2, <2>4
<1>12. Links(r, InPlace(Len(r.es)), qulist', nxt, pre)
  BY <1>8, <1>10, LinksInPlace, Zenon
<1> QED
  BY <1>1, <1>2, <1>8, <1>9, <1>11, <1>12 DEF ListOK

(* del_queue looks for the first entry of a node, which is the only one.   *)
LEMMA DelTakesOut ==
  ASSUME NEW r \in Queue, NEW k \in 1 .. Len(r.es)
  PROVE  del_queue(r, r.es[k].id)
           = [es |-> RemoveAt(r.es, k), stale |-> r.stale /\ k # 1]
<1> DEFINE m == r.es[k].id
           I == {a \in 1 .. Len(r.es) : r.es[a].id = m}
           f == IF I # {} THEN Min(I) ELSE 0
<1>1. del_queue(r, m) = IF f = 0 THEN r
                        ELSE [es |-> RemoveAt(r.es, f), stale |-> r.stale /\ f # 1]
  BY DEF del_queue, SelectInSeq
<1>2. I = {k} /\ k \in Nat /\ k # 0
  BY QueueFacts
<1>3. f = k
  <2> HIDE DEF I
  <2>1. Min(I) = k
    BY <1>2 DEF Min
  <2> QED
    BY <1>2, <2>1
<1> HIDE DEF f
<1> QED
  BY <1>1, <1>2, <1>3

(* del_queue unlinks the entry, unless that means to follow a stale pre.   *)
LEMMA DelOK == \A m \in Node : ListOK /\ ~misused /\ del(m) => ListIInv'
<1> SUFFICES ASSUME NEW m \in Node, ListOK, ~misused, del(m)
             PROVE  ListIInv'
  OBVIOUS
<1> DEFINE n == Len(q.es)
<1>1. /\ nxt \in [Node -> Node \union {NULL}] /\ pre \in [Node -> Node \union {NULL}]
      /\ q \in Queue /\ live = Ids(q) /\ sortPc = "idle"
      /\ Links(q, InPlace(n), qulist, nxt, pre) /\ FirstPre(q, qulist, pre, live)
  BY DEF ListOK, del
<1>2. /\ m \in live /\ live' = live \ {m}
      /\ doomed' = DelFollowsStale(q, m) /\ q' = del_queue(q, m)
      /\ nxt' = [x \in Node |-> IF x = pre[m] THEN nxt[m] ELSE nxt[x]]
      /\ pre' = [x \in Node |-> IF x = nxt[m] THEN pre[m] ELSE pre[x]]
      /\ qulist' = IF pre[m] = NULL THEN nxt[m] ELSE qulist
      /\ misused' = (pre[m] # NULL /\ pre[m] \notin live)
      /\ sortPc' = "idle"
  BY <1>1 DEF del, sort
<1>3. /\ n \in Nat /\ DOMAIN q.es = 1 .. n /\ q.es \in Seq(Entry)
      /\ \A a \in 1 .. n : q.es[a].id \in Node /\ q.es[a].id # NULL
      /\ \A a, b \in 1 .. n : q.es[a].id = q.es[b].id => a = b
      /\ Ids(q) = {q.es[a].id : a \in 1 .. n}
      /\ q.stale \in BOOLEAN /\ (q.es = << >> <=> n = 0)
  BY <1>1, QueueFacts
<1>4. /\ qulist = IF n = 0 THEN NULL ELSE q.es[1].id
      /\ \A a \in 1 .. n : nxt[q.es[a].id] = IF a = n THEN NULL ELSE q.es[a + 1].id
      /\ \A a \in 2 .. n : pre[q.es[a].id] = q.es[a - 1].id
  <2>1. Straight(q.es, qulist, nxt, pre)
    BY <1>1, LinksInPlace, Zenon
  <2> QED
    BY <2>1 DEF Straight
<1>5. PICK k \in 1 .. n : m = q.es[k].id
  BY <1>1, <1>2, <1>3
<1>6. n \in Nat /\ n # 0 /\ 1 \in 1 .. n /\ qulist = q.es[1].id /\ k \in Nat /\ 1 <= k /\ k <= n
  BY <1>3, <1>4, <1>5
<1>7. /\ q.stale => pre[qulist] # NULL /\ pre[qulist] \notin live
      /\ ~q.stale => pre[qulist] = NULL
  BY <1>1, <1>3, <1>6 DEF FirstPre
<1>8. CASE k = 1 /\ q.stale
  <2>1. misused'
    BY <1>2, <1>5, <1>6, <1>7, <1>8
  <2>2. doomed'
    BY <1>2, <1>3, <1>5, <1>6, <1>8 DEF DelFollowsStale
  <2> QED
    BY <2>1, <2>2 DEF ListIInv
<1>9. CASE ~(k = 1 /\ q.stale)
  <2> DEFINE s == RemoveAt(q.es, k)
             st == q.stale /\ k # 1
             r == [es |-> s, stale |-> st]
  (* What the entry itself points at.                                      *)
  <2>1. /\ k = n => nxt[m] = NULL
        /\ k # n => nxt[m] = q.es[k + 1].id /\ k + 1 \in 1 .. n
        /\ k = 1 => pre[m] = NULL
        /\ k # 1 => pre[m] = q.es[k - 1].id /\ k - 1 \in 1 .. n /\ k \in 2 .. n
    BY <1>3, <1>4, <1>5, <1>6, <1>7, <1>9
  <2>2. pre[m] = NULL \/ pre[m] \in live
    BY <1>1, <1>3, <2>1
  <2>3. ~misused' /\ ~doomed'
    <3>1. ~(q.stale /\ q.es[1].id = m)
      BY <1>3, <1>5, <1>6, <1>9
    <3> QED
      BY <1>2, <2>2, <3>1 DEF DelFollowsStale
  <2>4. /\ s \in Seq(Entry) /\ Len(s) = n - 1
        /\ \A a \in 1 .. n - 1 : s[a] = IF a < k THEN q.es[a] ELSE q.es[a + 1]
    <3>1. q.es \in Seq(Entry) /\ k \in 1 .. Len(q.es)
      BY <1>3
    <3> HIDE DEF n
    <3> QED
      BY <3>1, CutOut DEF RemoveAt, n
  <2>5. q' = r
    BY <1>1, <1>2, <1>5, DelTakesOut
  <2> HIDE DEF n, s
  <2>6. \A a \in 1 .. n - 1 : /\ a \in Nat /\ a \in 1 .. n /\ a + 1 \in 1 .. n
                              /\ a < k => s[a].id = q.es[a].id
                              /\ ~(a < k) => s[a].id = q.es[a + 1].id
    BY <1>3, <2>4
  <2>7. r \in Queue /\ r.es = s /\ r.stale = st
    <3>1. \A a, b \in 1 .. Len(s) : s[a].id = s[b].id => a = b
      <4> SUFFICES ASSUME NEW a \in 1 .. n - 1, NEW b \in 1 .. n - 1, s[a].id = s[b].id
                   PROVE  a = b
        BY <2>4
      <4>1. CASE a < k /\ b < k
        BY <1>3, <2>6, <4>1
      <4>2. CASE ~(a < k) /\ ~(b < k)
        <5>1. a + 1 = b + 1
          BY <1>3, <2>6, <4>2
        <5> QED
          BY <5>1
      <4>3. CASE a < k /\ ~(b < k)
        <5>1. a = b + 1
          BY <1>3, <2>6, <4>3
        <5> QED
          BY <1>6, <4>3, <5>1
      <4>4. CASE ~(a < k) /\ b < k
        <5>1. a + 1 = b
          BY <1>3, <2>6, <4>4
        <5> QED
          BY <1>6, <4>4, <5>1
      <4> QED
        BY <4>1, <4>2, <4>3, <4>4, Zenon
    <3>2. st \in BOOLEAN /\ (st => Len(s) # 0)
      BY <1>6, <2>4
    <3> QED
      BY <2>4, <3>1, <3>2, QueueByEntries
  <2> HIDE DEF r
  <2>8. Ids(r) = Ids(q) \ {m}
    <3>1. Ids(r) = {s[a].id : a \in 1 .. n - 1}
      BY <2>4, <2>7, QueueFacts
    <3>2. ASSUME NEW a \in 1 .. n - 1
          PROVE  s[a].id \in Ids(q) \ {m}
      <4>1. CASE a < k
        BY <1>3, <1>5, <2>6, <4>1
      <4>2. CASE ~(a < k)
        <5>1. a + 1 # k /\ a + 1 \in 1 .. n /\ s[a].id = q.es[a + 1].id
          BY <1>6, <2>6, <4>2
        <5>2. q.es[a + 1].id # m
          BY <1>3, <1>5, <5>1
        <5> QED
          BY <1>3, <5>1, <5>2
      <4> QED
        BY <4>1, <4>2
    <3>3. ASSUME NEW a \in 1 .. n, a # k
          PROVE  q.es[a].id \in {s[b].id : b \in 1 .. n - 1}
      <4>1. CASE a < k
        <5>1. a \in 1 .. n - 1
          BY <1>6, <4>1
        <5> QED
          BY <2>6, <4>1, <5>1
      <4>2. CASE a > k
        <5>1. a - 1 \in 1 .. n - 1 /\ ~(a - 1 < k) /\ (a - 1) + 1 = a
          BY <1>6, <4>2
        <5>2. s[a - 1].id = q.es[a].id
          BY <2>6, <5>1
        <5> QED
          BY <5>1, <5>2
      <4>3. a < k \/ a > k
        BY <1>6, <3>3
      <4> QED
        BY <4>1, <4>2, <4>3
    <3>4. \A x \in Ids(q) \ {m} : x \in Ids(r)
      BY <1>3, <1>5, <3>1, <3>3
    <3>5. \A x \in Ids(r) : x \in Ids(q) \ {m}
      BY <3>1, <3>2
    <3> QED
      BY <3>4, <3>5
  (* The two neighbours are all that changes.                              *)
  <2>9. ASSUME NEW a \in 1 .. n, a # k
        PROVE  /\ nxt'[q.es[a].id] = IF a = k - 1 THEN nxt[m] ELSE nxt[q.es[a].id]
               /\ pre'[q.es[a].id] = IF a = k + 1 THEN pre[m] ELSE pre[q.es[a].id]
    <3>1. q.es[a].id = pre[m] <=> a = k - 1
      BY <1>3, <1>6, <2>1
    <3>2. q.es[a].id = nxt[m] <=> a = k + 1
      BY <1>3, <1>6, <2>1
    <3> QED
      BY <1>2, <1>3, <3>1, <3>2
  <2>10. qulist' = IF n - 1 = 0 THEN NULL ELSE s[1].id
    <3>1. CASE k = 1
      <4>1. qulist' = nxt[m]
        BY <1>2, <2>1, <3>1
      <4>2. CASE n = 1
        BY <2>1, <3>1, <4>1, <4>2
      <4>3. CASE n # 1
        <5>1. n - 1 # 0 /\ 1 \in 1 .. n - 1 /\ ~(1 < k)
          BY <1>6, <1>3, <3>1, <4>3
        <5> QED
          BY <2>1, <2>6, <3>1, <4>1, <4>3, <5>1
      <4> QED
        BY <4>2, <4>3
    <3>2. CASE k # 1
      <4>1. qulist' = qulist
        BY <1>2, <1>3, <2>1, <3>2
      <4>2. n - 1 # 0 /\ 1 \in 1 .. n - 1 /\ 1 < k
        BY <1>6, <3>2
      <4> QED
        BY <1>6, <2>6, <4>1, <4>2
    <3> QED
      BY <3>1, <3>2
  <2>11. ASSUME NEW a \in 1 .. n - 1
         PROVE  nxt'[s[a].id] = IF a = n - 1 THEN NULL ELSE s[a + 1].id
    <3>1. CASE a < k
      <4>1. a \in 1 .. n /\ a # k /\ s[a].id = q.es[a].id /\ a # n
        BY <1>6, <2>6, <3>1
      <4>2. CASE a = k - 1
        <5>1. nxt'[s[a].id] = nxt[m]
          BY <2>9, <4>1, <4>2
        <5>2. a = n - 1 <=> k = n
          BY <1>6, <4>2
        <5>3. a # n - 1 => a + 1 \in 1 .. n - 1 /\ ~(a + 1 < k) /\ (a + 1) + 1 = k + 1
          BY <1>6, <4>2
        <5> QED
          BY <2>1, <2>6, <5>1, <5>2, <5>3
      <4>3. CASE a # k - 1
        <5>1. nxt'[s[a].id] = q.es[a + 1].id
          BY <1>4, <2>9, <4>1, <4>3
        <5>2. a + 1 \in 1 .. n - 1 /\ a + 1 < k /\ a # n - 1
          BY <1>6, <3>1, <4>3
        <5> QED
          BY <2>6, <5>1, <5>2
      <4> QED
        BY <4>2, <4>3
    <3>2. CASE ~(a < k)
      <4>1. a + 1 \in 1 .. n /\ a + 1 # k /\ a + 1 # k - 1 /\ s[a].id = q.es[a + 1].id
        BY <1>6, <2>6, <3>2
      <4>2. nxt'[s[a].id] = IF a + 1 = n THEN NULL ELSE q.es[(a + 1) + 1].id
        BY <1>4, <2>9, <4>1
      <4>3. a + 1 = n <=> a = n - 1
        BY <1>6
      <4>4. a # n - 1 => a + 1 \in 1 .. n - 1 /\ ~(a + 1 < k)
        BY <1>6, <3>2
      <4> QED
        BY <2>6, <4>2, <4>3, <4>4
    <3> QED
      BY <3>1, <3>2
  <2>12. ASSUME NEW a \in 2 .. n - 1
         PROVE  pre'[s[a].id] = s[a - 1].id
    <3>0. a \in 1 .. n - 1 /\ a - 1 \in 1 .. n - 1 /\ a \in 2 .. n /\ (a - 1) + 1 = a
      BY <1>6
    <3>1. CASE a < k
      <4>1. /\ a \in 1 .. n /\ a # k /\ a # k + 1 /\ a - 1 < k
            /\ s[a].id = q.es[a].id
        BY <1>6, <2>6, <3>0, <3>1
      <4>2. pre'[s[a].id] = q.es[a - 1].id
        BY <1>4, <2>9, <3>0, <4>1
      <4> QED
        BY <2>6, <3>0, <4>1, <4>2
    <3>2. CASE ~(a < k)
      <4>1. a + 1 \in 1 .. n /\ a + 1 # k /\ s[a].id = q.es[a + 1].id
        BY <1>6, <2>6, <3>0, <3>2
      <4>2. CASE a = k
        <5>1. pre'[s[a].id] = pre[m]
          BY <2>9, <4>1, <4>2
        <5>2. a - 1 < k /\ k # 1
          BY <1>6, <4>2
        <5> QED
          BY <2>1, <2>6, <3>0, <4>2, <5>1, <5>2
      <4>3. CASE a # k
        <5>1. a + 1 # k + 1 /\ ~(a - 1 < k) /\ a + 1 \in 2 .. n /\ (a + 1) - 1 = a
          BY <1>6, <3>2, <4>3
        <5>2. pre'[s[a].id] = q.es[a].id
          BY <1>4, <2>9, <4>1, <5>1
        <5> QED
          BY <2>6, <3>0, <5>1, <5>2
      <4> QED
        BY <4>2, <4>3
    <3> QED
      BY <3>1, <3>2
  <2>13. Straight(s, qulist', nxt', pre')
    BY <2>4, <2>10, <2>11, <2>12 DEF Straight
  <2>14. Links(r, InPlace(Len(r.es)), qulist', nxt', pre')
    BY <2>7, <2>13, LinksInPlace, Zenon
  <2>15. FirstPre(r, qulist', pre', live')
    <3> SUFFICES ASSUME r.es # << >>
                 PROVE  IF st THEN pre'[qulist'] # NULL /\ pre'[qulist'] \notin live'
                        ELSE pre'[qulist'] = NULL
      BY <2>7 DEF FirstPre
    <3>1. n - 1 # 0 /\ 1 \in 1 .. n - 1 /\ n # 1
      <4>1. n - 1 # 0
        BY <2>4, <2>7, QueueFacts
      <4> QED
        BY <1>6, <4>1
    <3>2. CASE k = 1
      <4>1. qulist' = q.es[2].id /\ 2 \in 1 .. n /\ 2 # k /\ 2 = k + 1
        <5>1. ~(1 < k) /\ 1 + 1 = 2 /\ 2 \in 1 .. n
          BY <1>6, <3>1, <3>2
        <5> QED
          BY <2>6, <2>10, <3>1, <3>2, <5>1
      <4>2. pre'[qulist'] = pre[m]
        BY <2>9, <4>1
      <4> QED
        BY <2>1, <3>2, <4>2
    <3>3. CASE k # 1
      <4>1. 1 # k + 1 /\ qulist' = qulist /\ 1 # k /\ 1 < k
        BY <1>6, <2>1, <1>2, <1>3, <3>3
      <4>2. pre'[qulist'] = pre[qulist]
        BY <1>6, <2>9, <4>1
      <4> QED
        BY <1>2, <1>3, <1>7, <3>3, <4>1, <4>2
    <3> QED
      BY <3>2, <3>3
  <2>16. nxt' \in [Node -> Node \union {NULL}] /\ pre' \in [Node -> Node \union {NULL}]
    BY <1>1, <1>2
  <2> QED
    BY <1>1, <1>2, <2>3, <2>5, <2>7, <2>8, <2>14, <2>15, <2>16 DEF ListIInv, ListOK
<1> QED
  BY <1>8, <1>9
-----------------------------------------------------------------------------
(* The priorities in an order, as numbers.                                 *)
LEMMA OrderFacts ==
  ASSUME NEW r \in Queue, NEW o \in Orders(Len(r.es))
  PROVE  /\ Len(r.es) \in Nat
         /\ \A a \in 1 .. Len(r.es) :
              /\ o[a] \in 1 .. Len(r.es)
              /\ r.es[o[a]].id \in Node /\ r.es[o[a]].id # NULL
              /\ r.es[o[a]].id \in Ids(r)
              /\ r.es[o[a]].priority = NodePriority[r.es[o[a]].id]
              /\ r.es[o[a]].priority \in Nat
         /\ \A a, b \in 1 .. Len(r.es) : o[a] = o[b] => a = b
         /\ \A a, b \in 1 .. Len(r.es) : r.es[o[a]].id = r.es[o[b]].id => a = b
<1> DEFINE n == Len(r.es)
           e(a) == r.es[a].id
           v(a) == r.es[a].priority
<1>1. /\ n \in Nat
      /\ \A a \in 1 .. n : /\ e(a) \in Node /\ e(a) # NULL
                          /\ v(a) = NodePriority[e(a)] /\ v(a) \in Nat
      /\ \A a, b \in 1 .. n : e(a) = e(b) => a = b
      /\ Ids(r) = {e(a) : a \in 1 .. n}
  BY QueueFacts
<1>2. /\ \A a \in 1 .. n : o[a] \in 1 .. n
      /\ \A a, b \in 1 .. n : o[a] = o[b] => a = b
  BY DEF Orders
<1>3. \A a \in 1 .. n : e(a) \in Ids(r)
  BY <1>1
<1> HIDE DEF n, e, v
<1>4. \A a \in 1 .. n : /\ o[a] \in 1 .. n
                        /\ e(o[a]) \in Node /\ e(o[a]) # NULL /\ e(o[a]) \in Ids(r)
                        /\ v(o[a]) = NodePriority[e(o[a])] /\ v(o[a]) \in Nat
  BY <1>1, <1>2, <1>3, Zenon
<1>5. \A a, b \in 1 .. n : e(o[a]) = e(o[b]) => a = b
  BY <1>1, <1>2, Zenon
<1> QED
  BY <1>1, <1>2, <1>4, <1>5, Zenon DEF n, e, v

(* The pass moves on to an entry that is not less.                         *)
LEMMA AdvanceSettles ==
  ASSUME NEW r \in Queue, NEW o \in Orders(Len(r.es)),
         NEW k \in 1 .. Len(r.es) - 1, NEW d \in Nat,
         Settled(r, o, k, d), r.es[o[k]].priority <= r.es[o[k + 1]].priority
  PROVE  Settled(r, o, k + 1, d)
<1> DEFINE n == Len(r.es)
           v(a) == r.es[o[a]].priority
<1>1. n \in Nat /\ \A a \in 1 .. n : v(a) \in Nat
  BY OrderFacts
<1>2. \A b : Largest(r, o, b) <=> \A a \in 1 .. n : a < b => v(a) <= v(b)
  BY DEF Largest
<1>3. /\ Largest(r, o, k) /\ \A b \in 1 .. n : b > n - d => Largest(r, o, b)
      /\ k >= n - d /\ n - d \in 1 .. n => Largest(r, o, n - d)
      /\ v(k) <= v(k + 1) /\ k \in 1 .. n - 1
  BY DEF Settled
<1> HIDE DEF n, v
<1>4. Largest(r, o, k + 1)
  <2> SUFFICES ASSUME NEW a \in 1 .. n, a < k + 1 PROVE v(a) <= v(k + 1)
    BY <1>2
  <2>1. CASE a = k
    BY <1>3, <2>1
  <2>2. CASE a < k
    <3>1. v(a) <= v(k)
      BY <1>2, <1>3, <2>2
    <3>2. k \in 1 .. n /\ k + 1 \in 1 .. n
      BY <1>1, <1>3
    <3> QED
      BY <1>1, <1>3, <3>1, <3>2
  <2> QED
    BY <1>3, <2>1, <2>2
<1>5. k + 1 >= n - d => k >= n - d \/ n - d = k + 1
  BY <1>1, <1>3
<1> QED
  BY <1>3, <1>4, <1>5 DEF Settled, n

(* The end of a pass settles one place more.                               *)
LEMMA PassSettles ==
  ASSUME NEW r \in Queue, NEW o \in Orders(Len(r.es)), Len(r.es) # 0, NEW d \in Nat,
         Settled(r, o, Len(r.es), d)
  PROVE  Settled(r, o, 1, d + 1)
<1> DEFINE n == Len(r.es)
<1>1. n \in Nat
  BY OrderFacts
<1>2. Largest(r, o, 1)
  BY <1>1 DEF Largest
<1>3. /\ \A b \in 1 .. n : b > n - d => Largest(r, o, b)
      /\ n - d \in 1 .. n => Largest(r, o, n - d)
  BY <1>1 DEF Settled
<1> HIDE DEF n
<1>4. \A b \in 1 .. n : b > n - (d + 1) => b > n - d \/ b = n - d
  BY <1>1
<1>5. 1 >= n - (d + 1) /\ n - (d + 1) \in 1 .. n => n - (d + 1) = 1
  BY <1>1
<1> QED
  BY <1>2, <1>3, <1>4, <1>5 DEF Settled, n

(* Two neighbours out of order are exchanged.                              *)
Exchanged(o, k) == [o EXCEPT ![k] = o[k + 1], ![k + 1] = o[k]]

LEMMA ExchangedFacts ==
  ASSUME NEW n \in Nat, NEW o \in Orders(n), NEW k \in 1 .. n - 1
  PROVE  /\ Exchanged(o, k) \in Orders(n)
         /\ Exchanged(o, k)[k] = o[k + 1] /\ Exchanged(o, k)[k + 1] = o[k]
         /\ \A a \in 1 .. n : a # k /\ a # k + 1 => Exchanged(o, k)[a] = o[a]
<1> DEFINE o2 == Exchanged(o, k)
<1>1. k \in 1 .. n /\ k + 1 \in 1 .. n /\ k # k + 1
  OBVIOUS
<1>2. o \in [1 .. n -> 1 .. n] /\ \A a, b \in 1 .. n : o[a] = o[b] => a = b
  BY DEF Orders
<1>3. /\ o2 \in [1 .. n -> 1 .. n] /\ o2[k] = o[k + 1] /\ o2[k + 1] = o[k]
      /\ \A a \in 1 .. n : a # k /\ a # k + 1 => o2[a] = o[a]
  BY <1>1, <1>2 DEF Exchanged
<1> HIDE DEF o2
<1>4. \A a, b \in 1 .. n : o2[a] = o2[b] => a = b
  BY <1>1, <1>2, <1>3
<1> QED
  BY <1>3, <1>4 DEF Orders, o2

LEMMA ExchangeSettles ==
  ASSUME NEW r \in Queue, NEW o \in Orders(Len(r.es)),
         NEW k \in 1 .. Len(r.es) - 1, NEW d \in Nat,
         Stable(r, o), r.stale => k # 1,
         Settled(r, o, k, d), r.es[o[k]].priority > r.es[o[k + 1]].priority
  PROVE  Stable(r, Exchanged(o, k)) /\ Settled(r, Exchanged(o, k), k + 1, d)
<1> DEFINE n == Len(r.es)
           o2 == Exchanged(o, k)
           v(a) == r.es[o[a]].priority
           w(a) == r.es[o2[a]].priority
<1>1. n \in Nat /\ k \in 1 .. n - 1 /\ \A a \in 1 .. n : v(a) \in Nat
  BY OrderFacts
<1>0. k \in Nat /\ k \in 1 .. n /\ k + 1 \in 1 .. n /\ d \in Nat
  BY <1>1
<1>2. \A b : Largest(r, o, b) <=> \A a \in 1 .. n : a < b => v(a) <= v(b)
  BY DEF Largest
<1>3. \A b : Largest(r, o2, b) <=> \A a \in 1 .. n : a < b => w(a) <= w(b)
  BY DEF Largest
<1>4. /\ Largest(r, o, k) /\ \A b \in 1 .. n : b > n - d => Largest(r, o, b)
      /\ k >= n - d /\ n - d \in 1 .. n => Largest(r, o, n - d)
      /\ v(k) > v(k + 1)
  BY DEF Settled
<1>5. /\ o2[k] = o[k + 1] /\ o2[k + 1] = o[k]
      /\ \A a \in 1 .. n : a # k /\ a # k + 1 => o2[a] = o[a]
  BY <1>1, ExchangedFacts
<1>6. /\ w(k) = v(k + 1) /\ w(k + 1) = v(k)
      /\ \A a \in 1 .. n : a # k /\ a # k + 1 => w(a) = v(a)
  BY <1>5
<1>7. /\ \A a, b \in 1 .. n : a < b /\ v(a) = v(b) => o[a] < o[b]
      /\ r.stale => o[1] = 1
  BY DEF Stable
<1>8. Stable(r, o2)
  <2>1. r.stale => o2[1] = 1
    <3>1. r.stale => 1 \in 1 .. n /\ 1 # k /\ 1 # k + 1
      BY <1>1
    <3> QED
      BY <1>5, <1>7, <3>1
  <2>2. \A a, b \in 1 .. n : a < b /\ w(a) = w(b) => o2[a] < o2[b]
    <3> HIDE DEF o2, v, w, n
    <3> SUFFICES ASSUME NEW a \in 1 .. n, NEW b \in 1 .. n, a < b, w(a) = w(b)
                 PROVE  o2[a] < o2[b]
      OBVIOUS
    <3>0. a \in Nat /\ b \in Nat
      BY <1>1
    <3>1. ~(a = k /\ b = k + 1)
      BY <1>0, <1>1, <1>4, <1>6
    <3>2. CASE a # k /\ a # k + 1 /\ b # k /\ b # k + 1
      BY <1>5, <1>6, <1>7, <3>2
    <3>3. CASE a = k /\ b # k + 1
      <4>1. b # k /\ k + 1 < b
        BY <1>0, <3>0, <3>3
      <4>2. o2[a] = o[k + 1] /\ o2[b] = o[b] /\ w(a) = v(k + 1) /\ w(b) = v(b)
        BY <1>5, <1>6, <3>3, <4>1
      <4> QED
        BY <1>0, <1>7, <4>1, <4>2
    <3>4. CASE a = k + 1
      <4>1. b # k /\ b # k + 1 /\ k < b
        BY <1>0, <3>0, <3>4
      <4>2. o2[a] = o[k] /\ o2[b] = o[b] /\ w(a) = v(k) /\ w(b) = v(b)
        BY <1>5, <1>6, <3>4, <4>1
      <4> QED
        BY <1>0, <1>7, <4>1, <4>2
    <3>5. CASE b = k
      <4>1. a # k /\ a # k + 1 /\ a < k + 1
        BY <1>0, <3>0, <3>5
      <4>2. o2[b] = o[k + 1] /\ o2[a] = o[a] /\ w(b) = v(k + 1) /\ w(a) = v(a)
        BY <1>5, <1>6, <3>5, <4>1
      <4> QED
        BY <1>0, <1>7, <4>1, <4>2
    <3>6. CASE b = k + 1 /\ a # k
      <4>1. a # k + 1 /\ a < k
        BY <1>0, <3>0, <3>6
      <4>2. o2[b] = o[k] /\ o2[a] = o[a] /\ w(b) = v(k) /\ w(a) = v(a)
        BY <1>5, <1>6, <3>6, <4>1
      <4> QED
        BY <1>0, <1>7, <4>1, <4>2
    <3> QED
      BY <3>1, <3>2, <3>3, <3>4, <3>5, <3>6, Zenon
  <2> QED
    BY <2>1, <2>2 DEF Stable
<1> HIDE DEF o2, v, w, n
(* The place k + 1 is not among those that are settled.                    *)
<1>9. k + 1 <= n - d /\ ~(k >= n - d)
  <2>1. ~Largest(r, o, k + 1)
    <3> SUFFICES ASSUME \A a \in 1 .. n : a < k + 1 => v(a) <= v(k + 1)
                 PROVE  FALSE
      BY <1>2
    <3>1. v(k) <= v(k + 1)
      BY <1>0
    <3> QED
      BY <1>0, <1>1, <1>4, <3>1
  <2>2. ~(k + 1 > n - d)
    BY <1>0, <1>4, <2>1
  <2>3. n - d = k + 1 \/ k + 1 < n - d
    BY <1>0, <1>1, <2>2
  <2> QED
    BY <1>0, <1>1, <2>2, <2>3
<1>10. Largest(r, o2, k + 1)
  <2> SUFFICES ASSUME NEW a \in 1 .. n, a < k + 1 PROVE w(a) <= w(k + 1)
    BY <1>3
  <2>1. CASE a = k
    BY <1>0, <1>1, <1>4, <1>6, <2>1
  <2>2. CASE a # k
    <3>1. a < k /\ a # k + 1
      BY <1>0, <2>2
    <3>2. v(a) <= v(k)
      BY <1>2, <1>4, <3>1
    <3> QED
      BY <1>6, <2>2, <3>1, <3>2
  <2> QED
    BY <2>1, <2>2
<1>11. ASSUME NEW b \in 1 .. n, b > n - d
       PROVE  Largest(r, o2, b)
  <2> SUFFICES ASSUME NEW a \in 1 .. n, a < b PROVE w(a) <= w(b)
    BY <1>3
  <2>1. b # k /\ b # k + 1 /\ k < b /\ k + 1 < b
    BY <1>0, <1>1, <1>9, <1>11
  <2>2. w(b) = v(b) /\ Largest(r, o, b)
    BY <1>4, <1>6, <1>11, <2>1
  <2>3. \A x \in 1 .. n : x < b => v(x) <= v(b)
    BY <1>2, <2>2
  <2>4. w(a) = v(a) \/ w(a) = v(k) \/ w(a) = v(k + 1)
    BY <1>6
  <2> QED
    BY <1>0, <2>1, <2>2, <2>3, <2>4
<1>12. k + 1 >= n - d => n - d = k + 1
  BY <1>0, <1>1, <1>9
<1> QED
  BY <1>8, <1>10, <1>11, <1>12 DEF Settled, n, o2

(* An order leaves no entry out.                                           *)
LEMMA OrderIsOnto ==
  ASSUME NEW n \in Nat, NEW o \in Orders(n)
  PROVE  \A x \in 1 .. n : \E a \in 1 .. n : o[a] = x
<1>1. o \in Injection(1 .. n, 1 .. n)
  BY DEF Orders, Injection, IsInjective
<1>2. IsFiniteSet(1 .. n)
  BY FS_Interval
<1>3. o \in Surjection(1 .. n, 1 .. n)
  BY <1>1, <1>2, FS_Injection
<1> QED
  BY <1>3 DEF Surjection

(* Of a sort by priority: what comes before what, and where.               *)
Before(s, x, y) ==
  s[x].priority < s[y].priority \/ (s[x].priority = s[y].priority /\ x < y)

Rank(s, x) == 1 + Cardinality({y \in DOMAIN s : Before(s, y, x)})

(* When everything is settled, the order is that of SortBy.                *)
LEMMA SettledIsSorted ==
  ASSUME NEW r \in Queue, NEW o \in Orders(Len(r.es)), Stable(r, o),
         \A b \in 1 .. Len(r.es) : b > 1 => Largest(r, o, b)
  PROVE  SortBy(r, ByPriority)
           = [es |-> [a \in 1 .. Len(r.es) |-> r.es[o[a]]], stale |-> r.stale]
<1> DEFINE n == Len(r.es)
           v(a) == r.es[o[a]].priority
<1>1. /\ n \in Nat /\ DOMAIN r.es = 1 .. n
      /\ \A a \in 1 .. n : o[a] \in 1 .. n /\ v(a) \in Nat
      /\ \A a, b \in 1 .. n : o[a] = o[b] => a = b
      /\ r = [es |-> r.es, stale |-> r.stale]
  BY OrderFacts, QueueFacts
<1>2. \A a, b \in 1 .. n : a < b => v(a) < v(b) \/ (v(a) = v(b) /\ o[a] < o[b])
  <2> SUFFICES ASSUME NEW a \in 1 .. n, NEW b \in 1 .. n, a < b
               PROVE  v(a) < v(b) \/ (v(a) = v(b) /\ o[a] < o[b])
    OBVIOUS
  <2>1. b > 1
    BY <1>1
  <2>2. v(a) <= v(b)
    BY <2>1 DEF Largest
  <2>3. v(a) = v(b) => o[a] < o[b]
    BY DEF Stable
  <2> HIDE DEF v
  <2> QED
    BY <1>1, <2>2, <2>3
<1>3. \A a, b \in 1 .. n : Before(r.es, o[a], o[b]) <=>
                             v(a) < v(b) \/ (v(a) = v(b) /\ o[a] < o[b])
  BY DEF Before
<1>4. \A x \in 1 .. n : \E a \in 1 .. n : o[a] = x
  BY <1>1, OrderIsOnto
<1> HIDE DEF n, v
<1>5. \A a, b \in 1 .. n : Before(r.es, o[a], o[b]) <=> a < b
  BY <1>1, <1>2, <1>3
<1>6. ASSUME NEW b \in 1 .. n
      PROVE  Rank(r.es, o[b]) = b
  <2> DEFINE P == {y \in 1 .. n : Before(r.es, y, o[b])}
             f == [a \in 1 .. b - 1 |-> o[a]]
  <2>1. \A a \in 1 .. b - 1 : a \in 1 .. n /\ a < b
    BY <1>1
  <2>2. f \in Injection(1 .. b - 1, P)
    BY <1>1, <1>5, <2>1 DEF Injection, IsInjective
  <2>3. \A y \in P : \E a \in 1 .. b - 1 : f[a] = y
    <3> SUFFICES ASSUME NEW y \in P PROVE \E a \in 1 .. b - 1 : f[a] = y
      OBVIOUS
    <3>1. PICK a \in 1 .. n : o[a] = y
      BY <1>4
    <3>2. a < b
      BY <1>5, <3>1
    <3>3. a \in 1 .. b - 1
      BY <1>1, <3>2
    <3> QED
      BY <3>1, <3>3
  <2>4. f \in Surjection(1 .. b - 1, P)
    <3>1. f \in [1 .. b - 1 -> P]
      BY <2>2 DEF Injection
    <3> HIDE DEF f, P
    <3> QED
      BY <2>3, <3>1 DEF Surjection
  <2>5. IsFiniteSet(1 .. b - 1) /\ Cardinality(1 .. b - 1) = b - 1
    <3>1. b - 1 \in Nat
      BY <1>1
    <3>2. \A c \in Nat : IsFiniteSet(1 .. c) /\ Cardinality(1 .. c) = c
      BY FS_Interval
    <3> QED
      BY <3>1, <3>2
  <2>6. Rank(r.es, o[b]) = 1 + Cardinality(P)
    BY <1>1 DEF Rank
  <2> HIDE DEF f, P
  <2>7. Cardinality(P) = b - 1
    BY <2>2, <2>4, <2>5, FS_Surjection
  <2> QED
    BY <1>1, <2>6, <2>7
<1> DEFINE p(k) == CHOOSE x \in DOMAIN r.es : Rank(r.es, x) = k
<1>7. \A k \in 1 .. n : p(k) = o[k]
  <2> SUFFICES ASSUME NEW k \in 1 .. n PROVE p(k) = o[k]
    OBVIOUS
  <2>1. o[k] \in DOMAIN r.es /\ Rank(r.es, o[k]) = k
    BY <1>1, <1>6
  <2>2. p(k) \in DOMAIN r.es /\ Rank(r.es, p(k)) = k
    BY <2>1, Zenon
  <2> HIDE DEF p
  <2>3. PICK a \in 1 .. n : o[a] = p(k)
    BY <1>1, <1>4, <2>2
  <2> QED
    BY <1>6, <2>2, <2>3
<1>8. SortBy(r, ByPriority) = [r EXCEPT !.es = [k \in DOMAIN r.es |-> r.es[p(k)]]]
  BY Zenon DEF SortBy, ByPriority, Rank, Before
<1> HIDE DEF p
<1>9. [k \in DOMAIN r.es |-> r.es[p(k)]] = [a \in 1 .. n |-> r.es[o[a]]]
  BY <1>1, <1>7
<1>10. \A t : [r EXCEPT !.es = t] = [es |-> t, stale |-> r.stale]
  BY <1>1
<1> QED
  BY <1>8, <1>9, <1>10 DEF n
-----------------------------------------------------------------------------
(* The pointers after an exchange of x with its successor.                 *)
SwapNext(x, nx, pr) ==
  [m \in Node |-> IF m = x THEN nx[nx[x]]
                  ELSE IF m = nx[x] THEN x
                  ELSE IF m = pr[x] THEN nx[x] ELSE nx[m]]
SwapPrevious(x, nx, pr) ==
  [m \in Node |-> IF m = nx[x] THEN pr[x]
                  ELSE IF m = x THEN nx[x]
                  ELSE IF m = nx[nx[x]] THEN x ELSE pr[m]]

(* What an exchange leaves behind, and what it was led by.                 *)
Swapped(r, o, k, h, nx, pr, x) ==
  /\ Links(r, Exchanged(o, k), IF pr[x] = NULL THEN nx[x] ELSE h,
           SwapNext(x, nx, pr), SwapPrevious(x, nx, pr))
  /\ nx[x] = r.es[o[k + 1]].id /\ x \in Node /\ nx[x] \in Node
  /\ SwapPrevious(x, nx, pr)[nx[x]] = pr[x]
  /\ h = r.es[o[1]].id
  /\ k # 1 => /\ pr[x] \in Ids(r) /\ pr[x] # NULL
              /\ SwapPrevious(x, nx, pr)[h] = pr[h]

(* An exchange links the entries in the order with two neighbours          *)
(* exchanged.                                                              *)
LEMMA ExchangeLinks ==
  ASSUME NEW r \in Queue, NEW o \in Orders(Len(r.es)), NEW k \in 1 .. Len(r.es) - 1,
         NEW h, NEW nx, NEW pr, NEW x, x = r.es[o[k]].id,
         Links(r, o, h, nx, pr), k = 1 => pr[x] = NULL
  PROVE  Swapped(r, o, k, h, nx, pr, x)
<1> DEFINE n == Len(r.es)
           o2 == Exchanged(o, k)
           L(a) == r.es[o[a]].id
           M(a) == r.es[o2[a]].id
           b == nx[x]
           c == nx[b]
           p == pr[x]
           nx2 == SwapNext(x, nx, pr)
           pr2 == SwapPrevious(x, nx, pr)
           h2 == IF p = NULL THEN b ELSE h
<1>1. /\ n \in Nat /\ k \in 1 .. n - 1 /\ k \in Nat /\ 1 <= k /\ k + 1 <= n
      /\ k \in 1 .. n /\ k + 1 \in 1 .. n
      /\ k # n /\ n # 0 /\ 1 \in 1 .. n
  <2>1. n \in Nat /\ k \in 1 .. n - 1
    BY QueueFacts
  <2> HIDE DEF n
  <2> QED
    BY <2>1
<1>2. /\ \A a \in 1 .. n : L(a) \in Node /\ L(a) # NULL /\ L(a) \in Ids(r)
      /\ \A a1, a2 \in 1 .. n : L(a1) = L(a2) => a1 = a2
  BY OrderFacts
<1>3. /\ h = IF n = 0 THEN NULL ELSE L(1)
      /\ \A a \in 1 .. n : nx[L(a)] = IF a = n THEN NULL ELSE L(a + 1)
      /\ \A a \in 2 .. n : pr[L(a)] = L(a - 1)
  BY DEF Links
<1>4. /\ M(k) = L(k + 1) /\ M(k + 1) = L(k)
      /\ \A a \in 1 .. n : a # k /\ a # k + 1 => M(a) = L(a)
  <2>1. /\ o2[k] = o[k + 1] /\ o2[k + 1] = o[k]
        /\ \A a \in 1 .. n : a # k /\ a # k + 1 => o2[a] = o[a]
    BY <1>1, ExchangedFacts
  <2> QED
    BY <2>1
<1>5. nx2 = [m \in Node |-> IF m = x THEN c ELSE IF m = b THEN x
                            ELSE IF m = p THEN b ELSE nx[m]]
  BY DEF SwapNext
<1>6. pr2 = [m \in Node |-> IF m = b THEN p ELSE IF m = x THEN b
                            ELSE IF m = c THEN x ELSE pr[m]]
  BY DEF SwapPrevious
<1>7. x = L(k) /\ (k = 1 => p = NULL)
  OBVIOUS
<1> HIDE DEF n, L, M, o2
<1>8. /\ b = L(k + 1)
      /\ k + 1 = n => c = NULL
      /\ k + 1 # n => k + 2 \in 1 .. n /\ c = L(k + 2)
      /\ k # 1 => k - 1 \in 1 .. n /\ p = L(k - 1)
  <2>1. b = L(k + 1)
    BY <1>1, <1>3, <1>7
  <2>2. c = IF k + 1 = n THEN NULL ELSE L((k + 1) + 1)
    BY <1>1, <1>3, <2>1
  <2>3. (k + 1) + 1 = k + 2 /\ (k + 1 # n => k + 2 \in 1 .. n)
    BY <1>1
  <2>4. k # 1 => k \in 2 .. n /\ k - 1 \in 1 .. n
    BY <1>1
  <2> QED
    BY <1>3, <1>7, <2>1, <2>2, <2>3, <2>4
<1> HIDE DEF b, c, p, nx2, pr2
<1>9. h2 = M(1)
  <2>1. h = L(1)
    BY <1>1, <1>3
  <2>2. CASE k = 1
    BY <1>4, <1>7, <1>8, <2>2
  <2>3. CASE k # 1
    <3>1. p # NULL /\ 1 # k /\ 1 # k + 1
      BY <1>1, <1>2, <1>8, <2>3
    <3> QED
      BY <1>1, <1>4, <2>1, <3>1
  <2> QED
    BY <2>2, <2>3
<1>10. ASSUME NEW a \in 1 .. n
       PROVE  nx2[M(a)] = IF a = n THEN NULL ELSE M(a + 1)
  <2>0. a \in Nat /\ 1 <= a /\ a <= n
    BY <1>1
  <2>1. CASE a = k
    <3>1. nx2[b] = x
      BY <1>1, <1>2, <1>5, <1>7, <1>8
    <3> QED
      BY <1>1, <1>4, <1>7, <1>8, <2>1, <3>1
  <2>2. CASE a = k + 1
    <3>1. nx2[x] = c
      BY <1>1, <1>2, <1>5, <1>7
    <3>2. (k + 1) + 1 = k + 2 /\ k + 2 # k /\ k + 2 # k + 1
      BY <1>1
    <3>3. k + 1 # n => M(k + 2) = c
      BY <1>4, <1>8, <3>2
    <3> QED
      BY <1>4, <1>7, <1>8, <2>2, <3>1, <3>2, <3>3
  <2>3. CASE a = k - 1
    <3>1. k # 1 /\ a # k /\ a # k + 1 /\ a # n /\ a + 1 = k
      BY <1>1, <2>0, <2>3
    <3>2. M(a) = p /\ p = L(k - 1) /\ k - 1 \in 1 .. n
      BY <1>4, <1>8, <2>3, <3>1
    <3>3. p # x /\ p # b /\ p \in Node
      BY <1>1, <1>2, <1>7, <1>8, <2>3, <3>1, <3>2
    <3>4. nx2[p] = b
      BY <1>5, <3>3
    <3> QED
      BY <1>4, <1>8, <3>1, <3>2, <3>4
  <2>4. CASE a # k /\ a # k + 1 /\ a # k - 1
    <3>1. M(a) = L(a) /\ L(a) # x /\ L(a) # b
      BY <1>1, <1>2, <1>4, <1>7, <1>8, <2>4
    <3>2. L(a) # p
      BY <1>2, <1>7, <1>8, <2>4
    <3>3. nx2[M(a)] = nx[L(a)]
      BY <1>2, <1>5, <3>1, <3>2
    <3>4. a # n => a + 1 \in 1 .. n /\ a + 1 # k /\ a + 1 # k + 1
      BY <1>1, <2>0, <2>4
    <3> QED
      BY <1>3, <1>4, <3>3, <3>4
  <2> QED
    BY <2>1, <2>2, <2>3, <2>4
<1>11. ASSUME NEW a \in 2 .. n
       PROVE  pr2[M(a)] = M(a - 1)
  <2>0. a \in Nat /\ 2 <= a /\ a <= n /\ a \in 1 .. n /\ a - 1 \in 1 .. n
    BY <1>1
  <2>1. CASE a = k
    <3>1. k # 1 /\ k - 1 # k /\ k - 1 # k + 1
      BY <1>1, <2>0, <2>1
    <3>2. M(k - 1) = p
      BY <1>4, <1>8, <3>1
    <3>3. pr2[b] = p
      BY <1>1, <1>2, <1>6, <1>8
    <3> QED
      BY <1>4, <1>8, <2>1, <3>2, <3>3
  <2>2. CASE a = k + 1
    <3>1. x # b /\ x \in Node
      BY <1>1, <1>2, <1>7, <1>8
    <3>2. pr2[x] = b /\ (k + 1) - 1 = k
      BY <1>1, <1>6, <3>1
    <3> QED
      BY <1>4, <1>7, <1>8, <2>2, <3>2
  <2>3. CASE a = k + 2
    <3>1. k + 1 # n /\ a # k /\ a # k + 1 /\ a - 1 = k + 1
      BY <1>1, <2>0, <2>3
    <3>2. M(a) = c /\ c = L(k + 2) /\ k + 2 \in 1 .. n
      BY <1>4, <1>8, <2>3, <3>1
    <3>3. c # x /\ c # b /\ c \in Node
      BY <1>1, <1>2, <1>7, <1>8, <2>3, <3>1, <3>2
    <3>4. pr2[c] = x
      BY <1>6, <3>3
    <3> QED
      BY <1>4, <1>7, <3>1, <3>2, <3>4
  <2>4. CASE a # k /\ a # k + 1 /\ a # k + 2
    <3>1. M(a) = L(a) /\ L(a) # x /\ L(a) # b
      BY <1>1, <1>2, <1>4, <1>7, <1>8, <2>0, <2>4
    <3>2. L(a) # c
      BY <1>2, <1>8, <2>0, <2>4
    <3>3. pr2[M(a)] = pr[L(a)]
      BY <1>2, <1>6, <2>0, <3>1, <3>2
    <3>4. a - 1 # k /\ a - 1 # k + 1
      BY <1>1, <2>0, <2>4
    <3> QED
      BY <1>3, <1>4, <2>0, <3>3, <3>4
  <2> QED
    BY <2>1, <2>2, <2>3, <2>4
<1>12. Links(r, o2, h2, nx2, pr2)
  BY <1>1, <1>9, <1>10, <1>11 DEF Links, M, n
<1>13. /\ x \in Node /\ b \in Node /\ pr2[b] = p /\ h = L(1)
       /\ k # 1 => p \in Ids(r) /\ p # NULL
  BY <1>1, <1>2, <1>3, <1>6, <1>7, <1>8
<1>14. k # 1 => pr2[h] = pr[h]
  <2> SUFFICES ASSUME k # 1 PROVE pr2[h] = pr[h]
    OBVIOUS
  <2>1. 1 # k /\ 1 # k + 1 /\ 1 # k + 2
    BY <1>1
  <2>2. h # b /\ h # x /\ h # c /\ h \in Node
    BY <1>1, <1>2, <1>7, <1>8, <1>13, <2>1
  <2> QED
    BY <1>6, <2>2
<1> QED
  BY <1>8, <1>12, <1>13, <1>14 DEF Swapped, b, p, nx2, pr2, o2, L

(* Where the pointers lead from the entry at k.                            *)
LeadsOn(r, o, k, h, nx) ==
  /\ h = r.es[o[1]].id /\ 1 \in 1 .. Len(r.es)
  /\ nx[r.es[o[k]].id] = NULL <=> k = Len(r.es)
  /\ k # Len(r.es) => /\ k \in 1 .. Len(r.es) - 1 /\ k + 1 \in 1 .. Len(r.es)
                      /\ nx[r.es[o[k]].id] = r.es[o[k + 1]].id

(* The last entry in the order, and no other, has no successor.            *)
LEMMA LastHasNoNext ==
  ASSUME NEW r \in Queue, NEW o \in Orders(Len(r.es)), NEW k \in 1 .. Len(r.es),
         NEW h, NEW nx, NEW pr, Links(r, o, h, nx, pr)
  PROVE  LeadsOn(r, o, k, h, nx)
<1> DEFINE n == Len(r.es)
           L(a) == r.es[o[a]].id
<1>1. n \in Nat /\ k \in 1 .. n
  BY QueueFacts
<1>2. \A a \in 1 .. n : L(a) # NULL
  BY OrderFacts
<1>3. h = (IF n = 0 THEN NULL ELSE L(1)) /\ nx[L(k)] = IF k = n THEN NULL ELSE L(k + 1)
  BY DEF Links
<1> HIDE DEF n, L
<1>4. n # 0 /\ 1 \in 1 .. n /\ (k # n => k \in 1 .. n - 1 /\ k + 1 \in 1 .. n)
  BY <1>1
<1> QED
  BY <1>2, <1>3, <1>4 DEF LeadsOn, n, L

(* The sort begins with the list as it is.                                 *)
LEMMA BeginOK == ListOK /\ sort_begin => ListOK'
<1> SUFFICES ASSUME ListOK, sort_begin
             PROVE  ListOK'
  OBVIOUS
<1> DEFINE n == Len(q.es)
           o == InPlace(n)
<1>1. /\ nxt \in [Node -> Node \union {NULL}] /\ pre \in [Node -> Node \union {NULL}]
      /\ q \in Queue /\ live = Ids(q)
      /\ Links(q, o, qulist, nxt, pre) /\ FirstPre(q, qulist, pre, live)
  BY DEF ListOK, sort_begin
<1>2. /\ qulist # NULL /\ sortPc' = "swap" /\ i' = 0 /\ hqu' = qulist /\ qu_1' = qulist
      /\ doomed' = SortFollowsStale(q, ByPriority)
      /\ nxt' = nxt /\ pre' = pre /\ live' = live /\ q' = q
  BY DEF sort_begin, mem
<1>3. o \in Orders(n) /\ \A a \in 1 .. n : o[a] = a
  BY DEF Orders, InPlace
<1>4. n \in Nat /\ (q.es = << >> <=> n = 0)
  BY <1>1, QueueFacts
<1>5. n # 0
  BY <1>1, <1>2 DEF Links
<1> HIDE DEF n, o
<1>6. 1 \in 1 .. n /\ 1 \in Nat
  BY <1>4, <1>5
<1>7. qulist = q.es[o[1]].id
  BY <1>1, <1>5 DEF Links, n
<1>8. Stable(q, o)
  BY <1>3, <1>6 DEF Stable, n
<1>9. Settled(q, o, 1, 0)
  <2>1. Largest(q, o, 1)
    BY <1>4 DEF Largest, n
  <2>2. \A b \in 1 .. n : ~(b > n - 0)
    BY <1>4
  <2>3. 1 >= n - 0 => n - 0 = 1
    BY <1>4, <1>5
  <2> QED
    BY <2>1, <2>2, <2>3 DEF Settled, n
<1>10. 0 \in 0 .. QUEUE_MAX - 1
  BY QueueAssumption
<1>11. /\ FirstPre(q', hqu', pre', live') /\ Links(q', o, hqu', nxt', pre')
       /\ qu_1' = q'.es[o[1]].id /\ Stable(q', o) /\ Settled(q', o, 1, i')
       /\ o \in Orders(Len(q'.es)) /\ 1 \in 1 .. Len(q'.es)
  BY <1>1, <1>2, <1>3, <1>6, <1>7, <1>8, <1>9 DEF n
<1> QED
  BY <1>1, <1>2, <1>4, <1>5, <1>10, <1>11 DEF ListOK

(* What is known of a sort.                                                *)
LEMMA SortFacts ==
  ASSUME ListOK, sortPc = "swap"
  PROVE  /\ nxt \in [Node -> Node \union {NULL}] /\ pre \in [Node -> Node \union {NULL}]
         /\ q \in Queue /\ live = Ids(q)
         /\ q.es # << >> /\ i \in 0 .. QUEUE_MAX - 1
         /\ doomed = SortFollowsStale(q, ByPriority)
         /\ FirstPre(q, hqu, pre, live)
         /\ \E o \in Orders(Len(q.es)) : \E k \in 1 .. Len(q.es) :
              /\ Links(q, o, hqu, nxt, pre) /\ qu_1 = q.es[o[k]].id
              /\ Stable(q, o) /\ Settled(q, o, k, i)
BY DEF ListOK

(* A comparison that exchanges nothing.                                    *)
LEMMA AdvanceOK == ListOK /\ swap_advance => ListOK'
<1> SUFFICES ASSUME ListOK, swap_advance
             PROVE  ListOK'
  OBVIOUS
<1>1. /\ sortPc = "swap" /\ nxt[qu_1] # NULL
      /\ NodePriority[qu_1] <= NodePriority[nxt[qu_1]] /\ qu_1' = nxt[qu_1]
      /\ nxt' = nxt /\ pre' = pre /\ live' = live /\ qulist' = qulist
      /\ sortPc' = sortPc /\ i' = i /\ hqu' = hqu /\ q' = q /\ doomed' = doomed
  BY DEF swap_advance, mem
<1>2. PICK o \in Orders(Len(q.es)) : \E k \in 1 .. Len(q.es) :
        /\ Links(q, o, hqu, nxt, pre) /\ qu_1 = q.es[o[k]].id
        /\ Stable(q, o) /\ Settled(q, o, k, i)
  BY <1>1, SortFacts
<1>3. PICK k \in 1 .. Len(q.es) :
        /\ Links(q, o, hqu, nxt, pre) /\ qu_1 = q.es[o[k]].id
        /\ Stable(q, o) /\ Settled(q, o, k, i)
  BY <1>2
<1>4. q \in Queue /\ i \in Nat
  BY <1>1, SortFacts
<1>5. /\ k \in 1 .. Len(q.es) - 1 /\ k + 1 \in 1 .. Len(q.es)
      /\ nxt[qu_1] = q.es[o[k + 1]].id
  <2>1. LeadsOn(q, o, k, hqu, nxt)
    BY <1>3, <1>4, LastHasNoNext, Zenon
  <2> QED
    BY <1>1, <1>3, <2>1, Zenon DEF LeadsOn
<1>6. \A a \in 1 .. Len(q.es) : q.es[o[a]].priority = NodePriority[q.es[o[a]].id]
  BY <1>4, OrderFacts
<1>7. q.es[o[k]].priority <= q.es[o[k + 1]].priority
  BY <1>1, <1>3, <1>5, <1>6
<1>8. Settled(q, o, k + 1, i)
  BY <1>3, <1>4, <1>5, <1>7, AdvanceSettles
<1>9. /\ Links(q', o, hqu', nxt', pre') /\ qu_1' = q'.es[o[k + 1]].id
      /\ Stable(q', o) /\ Settled(q', o, k + 1, i')
      /\ o \in Orders(Len(q'.es)) /\ k + 1 \in 1 .. Len(q'.es)
  BY <1>1, <1>3, <1>5, <1>8
<1> QED
  BY <1>1, <1>9, SortFacts DEF ListOK

(* A comparison that exchanges two entries; exchanging the first one       *)
(* follows its pre if that is stale.                                       *)
LEMMA ExchangeOK == ListOK /\ ~misused /\ swap_exchange => ListIInv'
<1> SUFFICES ASSUME ListOK, ~misused, swap_exchange
             PROVE  ListIInv'
  OBVIOUS
<1> DEFINE x == qu_1
           p == pre[x]
<1>1. /\ sortPc = "swap" /\ nxt[x] # NULL /\ NodePriority[x] > NodePriority[nxt[x]]
      /\ nxt' = SwapNext(x, nxt, pre) /\ pre' = SwapPrevious(x, nxt, pre)
      /\ hqu' = (IF p = NULL THEN nxt[x] ELSE hqu)
      /\ misused' = (p # NULL /\ p \notin live)
      /\ live' = live /\ qulist' = qulist /\ sortPc' = sortPc /\ i' = i
      /\ qu_1' = x /\ q' = q /\ doomed' = doomed
  BY DEF swap_exchange, SwapNext, SwapPrevious
<1>2. PICK o \in Orders(Len(q.es)) : \E k \in 1 .. Len(q.es) :
        /\ Links(q, o, hqu, nxt, pre) /\ qu_1 = q.es[o[k]].id
        /\ Stable(q, o) /\ Settled(q, o, k, i)
  BY <1>1, SortFacts
<1>3. PICK k \in 1 .. Len(q.es) :
        /\ Links(q, o, hqu, nxt, pre) /\ x = q.es[o[k]].id
        /\ Stable(q, o) /\ Settled(q, o, k, i)
  BY <1>2
<1>4. /\ q \in Queue /\ live = Ids(q) /\ i \in Nat /\ q.es # << >>
      /\ nxt \in [Node -> Node \union {NULL}] /\ pre \in [Node -> Node \union {NULL}]
      /\ doomed = SortFollowsStale(q, ByPriority) /\ FirstPre(q, hqu, pre, live)
  BY <1>1, SortFacts
<1>5. /\ k \in 1 .. Len(q.es) - 1 /\ k + 1 \in 1 .. Len(q.es)
      /\ nxt[x] = q.es[o[k + 1]].id /\ hqu = q.es[o[1]].id
  <2>1. LeadsOn(q, o, k, hqu, nxt)
    BY <1>3, <1>4, LastHasNoNext, Zenon
  <2> QED
    BY <1>1, <1>3, <2>1, Zenon DEF LeadsOn
<1>6. \A a \in 1 .. Len(q.es) : q.es[o[a]].priority = NodePriority[q.es[o[a]].id]
  BY <1>4, OrderFacts
<1>7. q.es[o[k]].priority > q.es[o[k + 1]].priority
  BY <1>1, <1>3, <1>5, <1>6
<1>8. IF q.stale THEN pre[hqu] # NULL /\ pre[hqu] \notin live ELSE pre[hqu] = NULL
  BY <1>4 DEF FirstPre
<1> HIDE DEF x, p
<1>9. CASE k = 1 /\ q.stale
  <2>1. misused'
    BY <1>1, <1>3, <1>5, <1>8, <1>9 DEF p
  <2>2. doomed'
    <3>1. o[1] = 1
      BY <1>3, <1>9 DEF Stable
    <3>2. q.es[o[2]].priority < q.es[1].priority /\ o[2] \in DOMAIN q.es
      <4>1. 1 + 1 = 2
        OBVIOUS
      <4>2. \A a, b \in Nat : a > b => b < a
        OBVIOUS
      <4> QED
        BY <1>4, <1>5, <1>7, <1>9, <3>1, <4>1, <4>2, QueueFacts, OrderFacts
    <3>3. SortFollowsStale(q, ByPriority)
      BY <1>9, <3>2 DEF SortFollowsStale, ByPriority
    <3> QED
      BY <1>1, <1>4, <3>3
  <2> QED
    BY <2>1, <2>2 DEF ListIInv
<1>10. CASE ~(k = 1 /\ q.stale)
  <2> DEFINE h2 == IF p = NULL THEN nxt[x] ELSE hqu
             o2 == Exchanged(o, k)
  <2>1. k = 1 => p = NULL
    BY <1>3, <1>5, <1>8, <1>10 DEF p
  <2>2. /\ Links(q, o2, h2, nxt', pre') /\ x \in Node /\ nxt[x] \in Node
        /\ pre'[nxt[x]] = p
        /\ k # 1 => p \in Ids(q) /\ p # NULL /\ pre'[hqu] = pre[hqu]
    <3>1. k = 1 => pre[x] = NULL
      BY <2>1 DEF p
    <3>2. Swapped(q, o, k, hqu, nxt, pre, x)
      BY <1>3, <1>4, <1>5, <3>1, ExchangeLinks, Zenon
    <3> QED
      BY <1>1, <3>2, Zenon DEF Swapped, p
  <2>3. ~misused'
    <3>1. p = NULL \/ p \in live
      BY <1>4, <2>1, <2>2, Zenon
    <3> QED
      BY <1>1, <3>1, Zenon
  <2>4. Stable(q, o2) /\ Settled(q, o2, k + 1, i)
    BY <1>3, <1>4, <1>5, <1>7, <1>10, ExchangeSettles
  <2>5. o2 \in Orders(Len(q.es)) /\ o2[k + 1] = o[k]
    <3>1. Len(q.es) \in Nat
      BY <1>4, QueueFacts, Zenon
    <3>2. Exchanged(o, k) \in Orders(Len(q.es)) /\ Exchanged(o, k)[k + 1] = o[k]
      BY <1>5, <3>1, ExchangedFacts, Zenon
    <3> QED
      BY <3>2, Zenon
  <2> HIDE DEF o2
  <2>6. FirstPre(q, h2, pre', live)
    <3>1. CASE k = 1
      BY <1>4, <1>10, <2>1, <2>2, <3>1 DEF FirstPre
    <3>2. CASE k # 1
      BY <1>4, <2>2, <3>2 DEF FirstPre
    <3> QED
      BY <3>1, <3>2
  <2>7. nxt' \in [Node -> Node \union {NULL}] /\ pre' \in [Node -> Node \union {NULL}]
    <3>1. nxt[nxt[x]] \in Node \union {NULL} /\ p \in Node \union {NULL}
      BY <1>4, <2>2 DEF p
    <3> QED
      BY <1>1, <1>4, <2>2, <3>1 DEF SwapNext, SwapPrevious, p
  <2>8. /\ hqu' = h2 /\ qu_1' = q'.es[o2[k + 1]].id
        /\ Links(q', o2, hqu', nxt', pre') /\ Stable(q', o2) /\ Settled(q', o2, k + 1, i')
        /\ FirstPre(q', hqu', pre', live')
        /\ o2 \in Orders(Len(q'.es)) /\ k + 1 \in 1 .. Len(q'.es)
    BY <1>1, <1>3, <1>5, <2>2, <2>4, <2>5, <2>6
  <2> HIDE DEF h2
  <2>9. ListOK'
    BY <1>1, <2>7, <2>8, SortFacts DEF ListOK
  <2> QED
    BY <2>3, <2>9 DEF ListIInv
<1> QED
  BY <1>9, <1>10

(* The end of a pass, and after the last one of the sort.                  *)
LEMMA PassEndOK == ListOK /\ pass_end => ListOK'
<1> SUFFICES ASSUME ListOK, pass_end
             PROVE  ListOK'
  OBVIOUS
<1> DEFINE n == Len(q.es)
<1>1. /\ sortPc = "swap" /\ nxt[qu_1] = NULL /\ i' = i + 1 /\ qu_1' = hqu
      /\ IF i' < QUEUE_MAX
         THEN sortPc' = sortPc /\ qulist' = qulist /\ q' = q
         ELSE sortPc' = "idle" /\ qulist' = hqu /\ q' = SortBy(q, ByPriority)
      /\ nxt' = nxt /\ pre' = pre /\ live' = live /\ hqu' = hqu /\ doomed' = doomed
  BY DEF pass_end, mem
<1>2. PICK o \in Orders(n) : \E k \in 1 .. n :
        /\ Links(q, o, hqu, nxt, pre) /\ qu_1 = q.es[o[k]].id
        /\ Stable(q, o) /\ Settled(q, o, k, i)
  BY <1>1, SortFacts
<1>3. PICK k \in 1 .. n :
        /\ Links(q, o, hqu, nxt, pre) /\ qu_1 = q.es[o[k]].id
        /\ Stable(q, o) /\ Settled(q, o, k, i)
  BY <1>2
<1>4. /\ q \in Queue /\ live = Ids(q) /\ q.es # << >>
      /\ i \in Nat /\ i + 1 \in Nat /\ i + 1 <= QUEUE_MAX /\ QUEUE_MAX \in Nat
      /\ nxt \in [Node -> Node \union {NULL}] /\ pre \in [Node -> Node \union {NULL}]
      /\ doomed = SortFollowsStale(q, ByPriority) /\ FirstPre(q, hqu, pre, live)
  BY <1>1, SortFacts, QueueAssumption
<1>5. k = n /\ hqu = q.es[o[1]].id /\ 1 \in 1 .. n
  <2>1. LeadsOn(q, o, k, hqu, nxt)
    BY <1>3, <1>4, LastHasNoNext, Zenon
  <2> QED
    BY <1>1, <1>3, <2>1, Zenon DEF LeadsOn
<1>6. Settled(q, o, 1, i + 1)
  <2>1. Len(q.es) # 0
    BY <1>4, QueueFacts
  <2> QED
    BY <1>3, <1>4, <1>5, <2>1, PassSettles
<1>7. CASE i + 1 < QUEUE_MAX
  <2>1. /\ sortPc' = "swap" /\ q' = q /\ i' \in 0 .. QUEUE_MAX - 1
        /\ Links(q', o, hqu', nxt', pre') /\ qu_1' = q'.es[o[1]].id
        /\ Stable(q', o) /\ Settled(q', o, 1, i')
        /\ o \in Orders(Len(q'.es)) /\ 1 \in 1 .. Len(q'.es)
        /\ FirstPre(q', hqu', pre', live')
    BY <1>1, <1>3, <1>4, <1>5, <1>6, <1>7
  <2> QED
    BY <1>1, <1>4, <2>1 DEF ListOK
<1>8. CASE ~(i + 1 < QUEUE_MAX)
  <2>1. /\ i + 1 = QUEUE_MAX
        /\ sortPc' = "idle" /\ qulist' = hqu /\ q' = SortBy(q, ByPriority)
    BY <1>1, <1>4, <1>8
  <2>2. \A b \in 1 .. n : b > 1 => Largest(q, o, b)
    <3>1. n <= QUEUE_MAX + 1 /\ n \in Nat
      BY <1>4, QueueFacts, QueueLength
    <3>2. \A b \in 1 .. n : b > n - QUEUE_MAX => Largest(q, o, b)
      BY <1>6, <2>1 DEF Settled
    <3> HIDE DEF n
    <3>3. \A b \in 1 .. n : b > 1 => b > n - QUEUE_MAX
      BY <1>4, <3>1
    <3> QED
      BY <3>2, <3>3
  <2> DEFINE s == [a \in 1 .. n |-> q.es[o[a]]]
             r == [es |-> s, stale |-> q.stale]
  <2>3. q' = r
    BY <1>3, <1>4, <2>1, <2>2, SettledIsSorted
  <2>4. /\ n \in Nat /\ n # 0
        /\ \A a \in 1 .. n : o[a] \in 1 .. n /\ q.es[a] \in Entry
        /\ \A a, b \in 1 .. n : o[a] = o[b] => a = b
        /\ \A a, b \in 1 .. n : q.es[a].id = q.es[b].id => a = b
        /\ Ids(q) = {q.es[a].id : a \in 1 .. n} /\ q.stale \in BOOLEAN
    <3>1. /\ n \in Nat /\ \A a \in 1 .. n : q.es[a] \in Entry
          /\ \A a, b \in 1 .. n : q.es[a].id = q.es[b].id => a = b
          /\ Ids(q) = {q.es[a].id : a \in 1 .. n} /\ q.stale \in BOOLEAN
          /\ (q.es = << >> <=> n = 0)
      BY <1>4, QueueFacts, Zenon
    <3>2. /\ \A a \in 1 .. n : o[a] \in 1 .. n
          /\ \A a, b \in 1 .. n : o[a] = o[b] => a = b
      <4> HIDE DEF n
      <4> QED
        BY DEF Orders
    <3>3. n # 0
      BY <1>4, <3>1
    <3> HIDE DEF n
    <3> QED
      BY <3>1, <3>2, <3>3
  <2>5. \A y \in 1 .. n : \E a \in 1 .. n : o[a] = y
    BY <2>4, OrderIsOnto
  <2>6. s \in Seq(Entry) /\ Len(s) = n /\ \A a \in 1 .. n : s[a] = q.es[o[a]]
    <3>1. s \in [1 .. n -> Entry]
      BY <2>4
    <3>2. s \in Seq(Entry) /\ Len(s) = n
      <4>1. n \in Nat
        BY <2>4
      <4> HIDE DEF n, s
      <4> QED
        BY <3>1, <4>1, FunctionIsSequence
    <3> QED
      BY <3>2
  <2> HIDE DEF s
  <2>7. r \in Queue /\ r.es = s /\ r.stale = q.stale
    <3>1. \A a, b \in 1 .. Len(s) : s[a].id = s[b].id => a = b
      <4> SUFFICES ASSUME NEW a \in 1 .. n, NEW b \in 1 .. n, s[a].id = s[b].id
                   PROVE  a = b
        BY <2>6
      <4>1. o[a] \in 1 .. n /\ o[b] \in 1 .. n /\ q.es[o[a]].id = q.es[o[b]].id
        BY <2>4, <2>6
      <4>2. o[a] = o[b]
        BY <2>4, <4>1, Zenon
      <4> QED
        BY <2>4, <4>2, Zenon
    <3>2. q.stale => Len(s) # 0
      BY <2>4, <2>6
    <3> QED
      BY <2>4, <2>6, <3>1, <3>2, QueueByEntries
  <2> HIDE DEF r
  <2>8. Ids(r) = Ids(q)
    <3>1. Ids(r) = {s[a].id : a \in 1 .. n}
      BY <2>6, <2>7, QueueFacts
    <3>2. ASSUME NEW a \in 1 .. n PROVE s[a].id \in Ids(q)
      <4>1. o[a] \in 1 .. n /\ s[a].id = q.es[o[a]].id
        BY <2>4, <2>6
      <4> HIDE DEF n
      <4> QED
        BY <2>4, <4>1
    <3>3. ASSUME NEW y \in 1 .. n PROVE q.es[y].id \in Ids(r)
      <4>1. PICK a \in 1 .. n : o[a] = y
        BY <2>5
      <4>2. s[a].id = q.es[y].id
        BY <2>6, <4>1
      <4> QED
        BY <3>1, <4>2, Zenon
    <3> HIDE DEF n
    <3>4. \A e \in Ids(r) : e \in Ids(q)
      BY <3>1, <3>2
    <3>5. \A e \in Ids(q) : e \in Ids(r)
      BY <2>4, <3>3
    <3> QED
      BY <3>4, <3>5
  <2>9. Straight(s, hqu, nxt, pre)
    <3>1. /\ hqu = IF n = 0 THEN NULL ELSE q.es[o[1]].id
          /\ \A a \in 1 .. n :
               nxt[q.es[o[a]].id] = IF a = n THEN NULL ELSE q.es[o[a + 1]].id
          /\ \A a \in 2 .. n : pre[q.es[o[a]].id] = q.es[o[a - 1]].id
      BY <1>3 DEF Links
    <3> HIDE DEF n
    <3>2. /\ \A a \in 1 .. n : a # n => a + 1 \in 1 .. n
          /\ \A a \in 2 .. n : a \in 1 .. n /\ a - 1 \in 1 .. n
      BY <2>4
    <3>3. \A a \in 1 .. n : nxt[s[a].id] = IF a = n THEN NULL ELSE s[a + 1].id
      <4> SUFFICES ASSUME NEW a \in 1 .. n
                   PROVE  nxt[s[a].id] = IF a = n THEN NULL ELSE s[a + 1].id
        OBVIOUS
      <4>1. s[a].id = q.es[o[a]].id /\ (a # n => s[a + 1].id = q.es[o[a + 1]].id)
        BY <2>6, <3>2
      <4> QED
        BY <3>1, <4>1
    <3>4. \A a \in 2 .. n : pre[s[a].id] = s[a - 1].id
      <4> SUFFICES ASSUME NEW a \in 2 .. n PROVE pre[s[a].id] = s[a - 1].id
        OBVIOUS
      <4>1. s[a].id = q.es[o[a]].id /\ s[a - 1].id = q.es[o[a - 1]].id
        BY <2>6, <3>2
      <4> QED
        BY <3>1, <4>1
    <3>5. hqu = s[1].id
      BY <1>5, <2>6
    <3> QED
      BY <2>4, <2>6, <3>3, <3>4, <3>5 DEF Straight
  <2>10. Links(r, InPlace(Len(r.es)), hqu, nxt, pre)
    BY <2>7, <2>9, LinksInPlace, Zenon
  <2>11. FirstPre(r, hqu, pre, live)
    BY <1>4, <2>7 DEF FirstPre
  <2>12. ~doomed
    <3> SUFFICES ASSUME doomed PROVE FALSE
      OBVIOUS
    <3>1. PICK y \in DOMAIN q.es : q.es[y].priority < q.es[1].priority
      BY <1>4, Zenon DEF SortFollowsStale, ByPriority
    <3>2. q.stale /\ o[1] = 1
      BY <1>3, <1>4 DEF SortFollowsStale, Stable
    <3>0. DOMAIN q.es = 1 .. n
      BY <1>4, QueueFacts, Zenon
    <3>3. PICK a \in 1 .. n : o[a] = y
      BY <2>5, <3>0
    <3>4. q.es[o[a]].priority \in Nat /\ q.es[o[1]].priority \in Nat
      BY <1>4, <1>5, OrderFacts
    <3>5. a # 1
      BY <3>1, <3>2, <3>3, <3>4
    <3>6. 1 < a /\ a > 1
      BY <2>4, <3>5
    <3>7. q.es[o[1]].priority <= q.es[o[a]].priority
      BY <1>5, <2>2, <3>6 DEF Largest
    <3> QED
      BY <3>1, <3>2, <3>3, <3>4, <3>7
  <2> QED
    BY <1>1, <1>4, <2>1, <2>3, <2>7, <2>8, <2>10, <2>11, <2>12 DEF ListOK
<1> QED
  BY <1>7, <1>8
-----------------------------------------------------------------------------
LEMMA ListInitIInv == ListInit => ListIInv
<1> SUFFICES ASSUME ListInit PROVE ListIInv
  OBVIOUS
<1>1. q = [es |-> << >>, stale |-> FALSE] /\ q.es = << >> /\ Len(q.es) = 0
  BY DEF ListInit, EmptyQueue
<1>2. q \in Queue /\ live = Ids(q)
  <2>1. << >> \in Seq(Entry) /\ Len(<< >>) = 0
    BY EmptySeq
  <2>2. q \in Queue
    BY <1>1, <2>1 DEF Queue
  <2>3. Ids(q) = {}
    BY <1>1, <2>2, QueueFacts
  <2> QED
    BY <2>2, <2>3 DEF ListInit
<1>0. sortPc = "idle"
  BY DEF ListInit
<1>3. Links(q, InPlace(Len(q.es)), qulist, nxt, pre) /\ FirstPre(q, qulist, pre, live)
  BY <1>1 DEF Links, FirstPre, ListInit
<1>4. /\ nxt \in [Node -> Node \union {NULL}] /\ pre \in [Node -> Node \union {NULL}]
      /\ ~doomed /\ ~misused
  BY DEF ListInit
<1>5. sortPc \in {"idle", "swap"} /\ sortPc # "swap"
  BY <1>0
<1> QED
  BY <1>2, <1>3, <1>4, <1>5, Zenon DEF ListIInv, ListOK

LEMMA ListNextIInv == ListIInv /\ [ListNext]_listVars => ListIInv'
<1> SUFFICES ASSUME ListIInv, [ListNext]_listVars PROVE ListIInv'
  OBVIOUS
<1>1. CASE UNCHANGED listVars
  BY <1>1 DEF ListIInv, ListOK, listVars
<1>2. CASE ListNext
  <2>1. ~misused /\ ListOK
    BY <1>2 DEF ListNext, ListIInv
  <2>2. ASSUME NEW m \in Node, push(m) PROVE ListIInv'
    <3>1. misused' = misused
      BY <2>2 DEF push
    <3> QED
      BY <2>1, <2>2, <3>1, PushOK DEF ListIInv
  <2>3. ASSUME NEW m \in Node, del(m) PROVE ListIInv'
    BY <2>1, <2>3, DelOK
  <2>4. CASE pop
    <3>1. misused' = misused
      BY <2>4 DEF pop
    <3> QED
      BY <2>1, <2>4, <3>1, PopOK DEF ListIInv
  <2>5. CASE sort_begin
    <3>1. misused' = misused
      BY <2>5 DEF sort_begin
    <3> QED
      BY <2>1, <2>5, <3>1, BeginOK DEF ListIInv
  <2>6. CASE swap_exchange
    BY <2>1, <2>6, ExchangeOK
  <2>7. CASE swap_advance
    <3>1. misused' = misused
      BY <2>7 DEF swap_advance
    <3> QED
      BY <2>1, <2>7, <3>1, AdvanceOK DEF ListIInv
  <2>8. CASE pass_end
    <3>1. misused' = misused
      BY <2>8 DEF pass_end
    <3> QED
      BY <2>1, <2>8, <3>1, PassEndOK DEF ListIInv
  <2> QED
    BY <1>2, <2>2, <2>3, <2>4, <2>5, <2>6, <2>7, <2>8, Zenon DEF ListNext
<1> QED
  BY <1>1, <1>2

LEMMA IInvListIsQueue == ListIInv => ListIsQueue
<1> SUFFICES ASSUME ListIInv, sortPc = "idle", ~misused
             PROVE  /\ qulist = IdOr(1)
                    /\ live = Ids(q)
                    /\ \A k \in DOMAIN q.es :
                         /\ nxt[q.es[k].id] = IdOr(k + 1)
                         /\ k > 1 => pre[q.es[k].id] = IdOr(k - 1)
                    /\ q.stale => pre[qulist] # NULL /\ pre[qulist] \notin live
                    /\ ~q.stale /\ qulist # NULL => pre[qulist] = NULL
  BY DEF ListIsQueue
<1> DEFINE n == Len(q.es)
<1>1. /\ q \in Queue /\ live = Ids(q)
      /\ Links(q, InPlace(n), qulist, nxt, pre) /\ FirstPre(q, qulist, pre, live)
  BY DEF ListIInv, ListOK
<1>2. /\ n \in Nat /\ DOMAIN q.es = 1 .. n /\ (q.es = << >> <=> n = 0)
      /\ q.stale => q.es # << >>
  BY <1>1, QueueFacts
<1>3. /\ qulist = IF n = 0 THEN NULL ELSE q.es[1].id
      /\ \A a \in 1 .. n : nxt[q.es[a].id] = IF a = n THEN NULL ELSE q.es[a + 1].id
      /\ \A a \in 2 .. n : pre[q.es[a].id] = q.es[a - 1].id
  <2>1. Straight(q.es, qulist, nxt, pre)
    BY <1>1, LinksInPlace, Zenon
  <2> QED
    BY <2>1 DEF Straight
<1>4. \A k : IdOr(k) = IF k \in 1 .. n THEN q.es[k].id ELSE NULL
  BY <1>2 DEF IdOr
<1>5. n # 0 => IF q.stale THEN pre[qulist] # NULL /\ pre[qulist] \notin live
               ELSE pre[qulist] = NULL
  BY <1>1, <1>2 DEF FirstPre
<1> HIDE DEF n
<1>6. qulist = IdOr(1)
  <2>1. 1 \in 1 .. n <=> n # 0
    BY <1>2
  <2> QED
    BY <1>3, <1>4, <2>1
<1>7. ASSUME NEW k \in 1 .. n
      PROVE  /\ nxt[q.es[k].id] = IdOr(k + 1)
             /\ k > 1 => pre[q.es[k].id] = IdOr(k - 1)
  <2>1. k + 1 \in 1 .. n <=> k # n
    BY <1>2
  <2>2. k > 1 => k \in 2 .. n /\ k - 1 \in 1 .. n
    BY <1>2
  <2> QED
    BY <1>3, <1>4, <2>1, <2>2
<1> QED
  BY <1>1, <1>2, <1>3, <1>5, <1>6, <1>7

LEMMA IInvFreedAsForeseen == ListIInv => FreedAsForeseen
BY DEF ListIInv, ListOK, FreedAsForeseen

(* Whatever is pushed, popped, deleted and sorted, in any order, the       *)
(* pointers are those of the queue that TaskQueue describes: iOS/queue.h   *)
(* implements the queues the scheduler is modelled with.                   *)
THEOREM ListIsTheQueue == ListSpec => []ListIsQueue
<1> QED
  BY ListInitIInv, ListNextIInv, IInvListIsQueue, PTL DEF ListSpec

(* Freed memory is accessed by an operation exactly if TaskQueue says so   *)
(* of the queue it is called with.                                         *)
THEOREM AccessesAsForeseen == ListSpec => []FreedAsForeseen
<1> QED
  BY ListInitIInv, ListNextIInv, IInvFreedAsForeseen, PTL DEF ListSpec
=============================================================================
