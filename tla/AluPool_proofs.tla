--------------------------- MODULE AluPool_proofs ---------------------------
(***************************************************************************)
(* The driver emulator of CUDA/main.c, for every number of ALUs and of     *)
(* commands.                                                               *)
(***************************************************************************)
EXTENDS AluPool, FiniteSetTheorems, ProofLemmas

(* The entries of a list that begins at q, by its next pointers.           *)
Entries(q, nx) ==
  LET at[k \in Nat] == IF k = 0 THEN q
                       ELSE IF at[k - 1] = NULL THEN NULL ELSE nx[at[k - 1]]
  IN  {at[k] : k \in 0 .. Cardinality(Alus)} \ {NULL}

(* The pointers q, nx and pr link the n ALUs of L in this order.           *)
Links(n, L, q, nx, pr) ==
  /\ L \in [1 .. n -> Alus]
  /\ \A a, b \in 1 .. n : L[a] = L[b] => a = b
  /\ q = IF n = 0 THEN NULL ELSE L[1]
  /\ \A a \in 1 .. n : /\ nx[L[a]] = IF a = n THEN NULL ELSE L[a + 1]
                       /\ pr[L[a]] = IF a = 1 THEN NULL ELSE L[a - 1]

(* There are no more of them than ALUs.                                    *)
LEMMA LinksBound ==
  ASSUME NEW n \in Nat, NEW L, NEW q, NEW nx, NEW pr, Links(n, L, q, nx, pr)
  PROVE  n <= Cardinality(Alus) /\ Cardinality(Alus) \in Nat
<1>1. L \in Injection(1 .. n, Alus)
  BY DEF Links, Injection, IsInjective
<1>2. Cardinality(1 .. n) = n
  BY FS_Interval
<1> QED
  BY <1>1, <1>2, FS_Injection, FS_CardinalityType, PoolAssumption

(* A walk along nxt meets exactly the ALUs that are linked.                *)
LEMMA EntriesOfLinks ==
  ASSUME NEW n \in Nat, NEW L, NEW q, NEW nx, NEW pr, Links(n, L, q, nx, pr)
  PROVE  Entries(q, nx) = {L[a] : a \in 1 .. n}
<1> DEFINE at == CHOOSE f : f = [k \in Nat |-> IF k = 0 THEN q
                          ELSE IF f[k - 1] = NULL THEN NULL ELSE nx[f[k - 1]]]
           g == [k \in Nat |-> IF k < n THEN L[k + 1] ELSE NULL]
<1>1. Entries(q, nx) = {at[k] : k \in 0 .. Cardinality(Alus)} \ {NULL}
  BY Zenon DEF Entries
<1>2. g = [k \in Nat |-> IF k = 0 THEN q
                         ELSE IF g[k - 1] = NULL THEN NULL ELSE nx[g[k - 1]]]
  <2>1. ASSUME NEW k \in Nat
        PROVE  g[k] = IF k = 0 THEN q
                      ELSE IF g[k - 1] = NULL THEN NULL ELSE nx[g[k - 1]]
    <3>1. \A a \in 1 .. n : L[a] # NULL
      BY PoolAssumption DEF Links, NULL
    <3>2. CASE k = 0
      BY <3>2 DEF Links
    <3>3. CASE k > 0
      <4>1. k - 1 \in Nat /\ g[k - 1] = IF k - 1 < n THEN L[k] ELSE NULL
        BY <3>3
      <4> QED
        BY <3>1, <3>3, <4>1 DEF Links
    <3> QED
      BY <3>2, <3>3
  <2> QED
    BY <2>1
<1>3. at = [k \in Nat |-> IF k = 0 THEN q
                          ELSE IF at[k - 1] = NULL THEN NULL ELSE nx[at[k - 1]]]
  BY <1>2, Zenon
<1> HIDE DEF at
<1>4. \A k \in Nat : at[k] = g[k]
  <2> DEFINE Bad == {k \in Nat : at[k] # g[k]}
  <2> SUFFICES ASSUME Bad # {} PROVE FALSE
    OBVIOUS
  <2>1. PICK k \in Bad : \A l \in Bad : k <= l
    <3> HIDE DEF g
    <3>1. Bad \subseteq Nat
      OBVIOUS
    <3> HIDE DEF Bad
    <3> QED
      BY <3>1, LeastElement
  <2> HIDE DEF g
  <2>2. k # 0
    BY <1>2, <1>3
  <2>3. k - 1 \in Nat /\ k - 1 \notin Bad
    BY <2>1, <2>2
  <2> QED
    BY <1>2, <1>3, <2>2, <2>3
<1>5. \A k \in Nat : g[k] = IF k < n THEN L[k + 1] ELSE NULL
  OBVIOUS
<1> HIDE DEF g
<1>6. ASSUME NEW e \in Entries(q, nx)
      PROVE  e \in {L[a] : a \in 1 .. n}
  <2>1. PICK k \in 0 .. Cardinality(Alus) : e = at[k] /\ e # NULL
    BY <1>1, <1>6
  <2>2. k \in Nat /\ k < n /\ e = L[k + 1]
    BY <1>4, <1>5, <2>1
  <2> QED
    BY <2>2
<1>7. ASSUME NEW a \in 1 .. n
      PROVE  L[a] \in Entries(q, nx)
  <2>1. a - 1 \in 0 .. Cardinality(Alus) /\ a - 1 \in Nat /\ a - 1 < n /\ (a - 1) + 1 = a
    BY LinksBound
  <2>2. L[a] = at[a - 1]
    BY <1>4, <1>5, <2>1
  <2>3. L[a] # NULL
    BY PoolAssumption DEF Links, NULL
  <2> QED
    BY <1>1, <2>1, <2>2, <2>3
<1> QED
  BY <1>6, <1>7

(* The pointers link the ALUs of S, in some order.                         *)
Linked(S, q, nx, pr) ==
  \E n \in Nat : \E L \in [1 .. n -> Alus] :
    Links(n, L, q, nx, pr) /\ {L[a] : a \in 1 .. n} = S

(* The pointers after put_work_queue and after del_work_queue.             *)
PutNext(id, q, nx) == [nx EXCEPT ![id] = q]
PutPrevious(id, q, pr) ==
  [m \in Alus |-> IF m = id THEN NULL ELSE IF m = q THEN id ELSE pr[m]]
DelHead(id, q, nx, pr) == IF pr[id] = NULL THEN nx[id] ELSE q
DelNext(id, nx, pr) == [m \in Alus |-> IF m = pr[id] THEN nx[id] ELSE nx[m]]
DelPrevious(id, nx, pr) == [m \in Alus |-> IF m = nx[id] THEN pr[id] ELSE pr[m]]

(* put_work_queue makes a new entry the first.                             *)
LEMMA PutLinks ==
  ASSUME NEW S, NEW q, NEW nx \in [Alus -> Alus \union {NULL}], NEW pr,
         Linked(S, q, nx, pr), NEW id \in Alus, id \notin S
  PROVE  Linked(S \union {id}, id, PutNext(id, q, nx), PutPrevious(id, q, pr))
<1>a. PICK n \in Nat : \E L \in [1 .. n -> Alus] :
        Links(n, L, q, nx, pr) /\ {L[a] : a \in 1 .. n} = S
  BY DEF Linked
<1>b. PICK L \in [1 .. n -> Alus] : Links(n, L, q, nx, pr) /\ {L[a] : a \in 1 .. n} = S
  BY <1>a
<1>c. Links(n, L, q, nx, pr) /\ id \notin {L[a] : a \in 1 .. n}
  BY <1>b
<1> DEFINE nx2 == PutNext(id, q, nx)
           pr2 == PutPrevious(id, q, pr)
<1> DEFINE L2 == [a \in 1 .. n + 1 |-> IF a = 1 THEN id ELSE L[a - 1]]
<1>1. \A a \in 1 .. n : L[a] \in Alus /\ L[a] # id
  BY <1>c DEF Links
<1>2. \A a \in 2 .. n + 1 : a - 1 \in 1 .. n /\ L2[a] = L[a - 1]
  OBVIOUS
<1>3. L2[1] = id /\ 1 \in 1 .. n + 1 /\ \A a \in 1 .. n + 1 : a = 1 \/ a \in 2 .. n + 1
  OBVIOUS
<1>4. \A a \in 1 .. n : a + 1 \in 2 .. n + 1 /\ L2[a + 1] = L[a]
  OBVIOUS
<1>5. L2 \in [1 .. n + 1 -> Alus]
  BY <1>1
<1> HIDE DEF L2
<1>6. \A a, b \in 1 .. n + 1 : L2[a] = L2[b] => a = b
  <2> SUFFICES ASSUME NEW a \in 1 .. n + 1, NEW b \in 1 .. n + 1, L2[a] = L2[b]
               PROVE  a = b
    OBVIOUS
  <2>1. CASE a = 1 \/ b = 1
    BY <1>1, <1>2, <1>3, <2>1
  <2>2. CASE a # 1 /\ b # 1
    <3>1. a - 1 \in 1 .. n /\ b - 1 \in 1 .. n /\ L[a - 1] = L[b - 1]
      BY <1>2, <1>3, <2>2
    <3>2. a - 1 = b - 1
      BY <3>1, <1>c DEF Links
    <3> QED
      BY <3>2
  <2> QED
    BY <2>1, <2>2
<1>7. ASSUME NEW a \in 1 .. n + 1
      PROVE  /\ nx2[L2[a]] = IF a = n + 1 THEN NULL ELSE L2[a + 1]
             /\ pr2[L2[a]] = IF a = 1 THEN NULL ELSE L2[a - 1]
  <2>1. CASE a = 1
    <3>1. nx2[id] = q /\ pr2[id] = NULL
      BY DEF PutNext, PutPrevious
    <3>2. n # 0 => q = L[1] /\ L2[2] = L[1]
      BY <1>4, <1>c DEF Links
    <3>3. n = 0 => q = NULL
      BY <1>c DEF Links
    <3> QED
      BY <1>3, <2>1, <3>1, <3>2, <3>3
  <2>2. CASE a # 1
    <3>1. a - 1 \in 1 .. n /\ L2[a] = L[a - 1] /\ L[a - 1] # id /\ L[a - 1] \in Alus
      BY <1>1, <1>2, <1>3, <2>2
    <3>2. nx2[L2[a]] = nx[L[a - 1]]
      BY <3>1 DEF PutNext
    <3>3. nx[L[a - 1]] = IF a - 1 = n THEN NULL ELSE L[(a - 1) + 1]
      BY <3>1, <1>c DEF Links
    <3>4. a # n + 1 => L2[a + 1] = L[a]
      BY <1>4, <3>1
    <3>5. pr2[L2[a]] = L2[a - 1]
      <4>1. CASE a = 2
        <5>1. L[a - 1] = q
          BY <3>1, <4>1, <1>c DEF Links
        <5> QED
          BY <1>3, <3>1, <4>1, <5>1 DEF PutPrevious
      <4>2. CASE a # 2
        <5>1. L[a - 1] # q
          <6>1. 1 \in 1 .. n /\ q = L[1] /\ a - 1 # 1
            BY <3>1, <4>2, <1>c DEF Links
          <6> QED
            BY <3>1, <6>1, <1>c DEF Links
        <5>2. pr2[L2[a]] = pr[L[a - 1]]
          BY <3>1, <5>1 DEF PutPrevious
        <5>3. pr[L[a - 1]] = L[(a - 1) - 1]
          BY <2>2, <3>1, <4>2, <1>c DEF Links
        <5>4. a - 1 \in 2 .. n + 1 /\ L2[a - 1] = L[(a - 1) - 1]
          BY <1>2, <2>2, <3>1, <4>2
        <5> QED
          BY <5>2, <5>3, <5>4
      <4> QED
        BY <4>1, <4>2
    <3>6. a - 1 = n <=> a = n + 1
      BY <3>1
    <3>7. (a - 1) + 1 = a
      BY <3>1
    <3> QED
      BY <2>2, <3>2, <3>3, <3>4, <3>5, <3>6, <3>7
  <2> QED
    BY <2>1, <2>2
<1>8. {L2[a] : a \in 1 .. n + 1} = {L[a] : a \in 1 .. n} \union {id}
  BY <1>2, <1>3, <1>4
<1>9. Links(n + 1, L2, id, nx2, pr2)
  <2>1. n + 1 # 0
    OBVIOUS
  <2> QED
    BY <1>3, <1>5, <1>6, <1>7, <2>1, Zenon DEF Links
<1>10. {L2[a] : a \in 1 .. n + 1} = S \union {id} /\ n + 1 \in Nat
  BY <1>b, <1>8
<1> QED
  BY <1>5, <1>9, <1>10 DEF Linked

(* del_work_queue tells the head, the tail and the middle apart by the     *)
(* pointers of the entry and leaves the others linked.                     *)
LEMMA DelLinks ==
  ASSUME NEW S, NEW q, NEW nx \in [Alus -> Alus \union {NULL}],
         NEW pr \in [Alus -> Alus \union {NULL}],
         Linked(S, q, nx, pr), NEW id \in S
  PROVE  Linked(S \ {id}, DelHead(id, q, nx, pr), DelNext(id, nx, pr),
                DelPrevious(id, nx, pr))
<1>a. PICK n \in Nat : \E L \in [1 .. n -> Alus] :
        Links(n, L, q, nx, pr) /\ {L[a] : a \in 1 .. n} = S
  BY DEF Linked
<1>b. PICK L \in [1 .. n -> Alus] : Links(n, L, q, nx, pr) /\ {L[a] : a \in 1 .. n} = S
  BY <1>a
<1>c. PICK p \in 1 .. n : id = L[p]
  BY <1>b
<1>d. Links(n, L, q, nx, pr)
  BY <1>b
<1> DEFINE nx2 == DelNext(id, nx, pr)
           pr2 == DelPrevious(id, nx, pr)
           q2  == DelHead(id, q, nx, pr)
<1> DEFINE L2 == [a \in 1 .. n - 1 |-> IF a < p THEN L[a] ELSE L[a + 1]]
<1>1. /\ n - 1 \in Nat /\ p \in Nat /\ p >= 1 /\ p <= n
      /\ \A a \in 1 .. n - 1 : a \in 1 .. n /\ a + 1 \in 1 .. n /\ a \in Nat
  OBVIOUS
<1>2. /\ \A a \in 1 .. n : L[a] \in Alus /\ L[a] # NULL
      /\ \A a, b \in 1 .. n : L[a] = L[b] => a = b
      /\ \A a \in 1 .. n : /\ nx[L[a]] = IF a = n THEN NULL ELSE L[a + 1]
                           /\ pr[L[a]] = IF a = 1 THEN NULL ELSE L[a - 1]
      /\ q = L[1]
  BY <1>d, PoolAssumption DEF Links, NULL
<1>3. \A a \in 1 .. n - 1 : /\ a < p => L2[a] = L[a]
                            /\ a >= p => L2[a] = L[a + 1]
  OBVIOUS
<1>4. L2 \in [1 .. n - 1 -> Alus]
  BY <1>1, <1>2, <1>c
<1> HIDE DEF L2
<1>5. \A a, b \in 1 .. n - 1 : L2[a] = L2[b] => a = b
  <2> SUFFICES ASSUME NEW a \in 1 .. n - 1, NEW b \in 1 .. n - 1, L2[a] = L2[b]
               PROVE  a = b
    OBVIOUS
  <2>1. CASE a < p /\ b < p
    BY <1>1, <1>2, <1>3, <2>1
  <2>2. CASE a >= p /\ b >= p
    <3>1. L[a + 1] = L[b + 1]
      BY <1>3, <2>2
    <3>2. a + 1 = b + 1
      BY <1>1, <1>2, <3>1
    <3> QED
      BY <3>2
  <2>3. CASE a < p /\ b >= p
    <3>1. L[a] = L[b + 1]
      BY <1>3, <2>3
    <3>2. a = b + 1
      BY <1>1, <1>2, <3>1
    <3> QED
      BY <2>3, <3>2
  <2>4. CASE a >= p /\ b < p
    <3>1. L[a + 1] = L[b]
      BY <1>3, <2>4
    <3>2. a + 1 = b
      BY <1>1, <1>2, <3>1
    <3> QED
      BY <2>4, <3>2
  <2> QED
    BY <1>1, <2>1, <2>2, <2>3, <2>4
(* What the entry itself points at.                                        *)
<1>6. /\ p = n => nx[id] = NULL
      /\ p < n => nx[id] = L[p + 1] /\ p + 1 \in 1 .. n
      /\ p = 1 => pr[id] = NULL
      /\ p > 1 => pr[id] = L[p - 1] /\ p - 1 \in 1 .. n
  BY <1>1, <1>2, <1>c
<1>7. q2 = IF n - 1 = 0 THEN NULL ELSE L2[1]
  <2>1. CASE p = 1
    <3>1. q2 = nx[id]
      BY <1>6, <2>1 DEF DelHead
    <3>2. CASE n = 1
      BY <1>6, <2>1, <3>1, <3>2
    <3>3. CASE n > 1
      <4>1. 1 \in 1 .. n - 1 /\ L2[1] = L[1 + 1]
        BY <1>3, <2>1, <3>3
      <4> QED
        BY <1>6, <2>1, <3>1, <3>3, <4>1
    <3> QED
      BY <3>2, <3>3
  <2>2. CASE p > 1
    <3>1. 1 \in 1 .. n - 1 /\ L2[1] = L[1] /\ n - 1 # 0
      BY <1>1, <1>3, <2>2
    <3>2. q2 = q
      BY <1>2, <1>6, <2>2 DEF DelHead
    <3> QED
      BY <1>2, <3>1, <3>2
  <2> QED
    BY <1>1, <2>1, <2>2
<1>8. ASSUME NEW a \in 1 .. n, a # p
      PROVE  /\ nx2[L[a]] = IF a = p - 1 THEN nx[id] ELSE nx[L[a]]
             /\ pr2[L[a]] = IF a = p + 1 THEN pr[id] ELSE pr[L[a]]
  <2>1. L[a] = pr[id] <=> a = p - 1
    BY <1>1, <1>2, <1>6, <1>c
  <2>2. L[a] = nx[id] <=> a = p + 1
    BY <1>1, <1>2, <1>6, <1>c
  <2> QED
    BY <1>2, <1>c, <2>1, <2>2 DEF DelNext, DelPrevious
<1>9. ASSUME NEW a \in 1 .. n - 1
      PROVE  /\ nx2[L2[a]] = IF a = n - 1 THEN NULL ELSE L2[a + 1]
             /\ pr2[L2[a]] = IF a = 1 THEN NULL ELSE L2[a - 1]
  <2>1. a \in Nat /\ a >= 1 /\ a <= n - 1 /\ a \in 1 .. n /\ a + 1 \in 1 .. n
    OBVIOUS
  <2>2. a # n - 1 => a + 1 \in 1 .. n - 1
    OBVIOUS
  <2>3. a # 1 => a - 1 \in 1 .. n - 1
    OBVIOUS
  <2>4. CASE a < p
    <3>1. L2[a] = L[a] /\ a # p /\ a # p + 1
      BY <1>1, <1>3, <2>4
    <3>2. pr2[L2[a]] = IF a = 1 THEN NULL ELSE L[a - 1]
      BY <1>2, <1>8, <2>1, <3>1
    <3>3. a # 1 => L2[a - 1] = L[a - 1]
      BY <1>1, <1>3, <2>1, <2>3, <2>4
    <3>4. CASE a = p - 1
      <4>1. nx2[L2[a]] = nx[id] /\ (a = n - 1 <=> p = n)
        BY <1>1, <1>8, <2>1, <3>1, <3>4
      <4>2. p < n => L2[a + 1] = L[p + 1]
        <5>1. a + 1 = p /\ (p < n => p \in 1 .. n - 1)
          BY <1>1, <3>4
        <5> QED
          BY <1>1, <1>3, <5>1
      <4> QED
        BY <1>1, <1>6, <3>2, <3>3, <4>1, <4>2
    <3>5. CASE a # p - 1
      <4>1. nx2[L2[a]] = L[a + 1] /\ a # n - 1
        BY <1>1, <1>2, <1>8, <2>1, <2>4, <3>1, <3>5
      <4>2. L2[a + 1] = L[a + 1]
        <5>1. a + 1 < p
          BY <1>1, <2>1, <2>4, <3>5
        <5> QED
          BY <1>3, <2>2, <4>1, <5>1
      <4> QED
        BY <3>2, <3>3, <4>1, <4>2
    <3> QED
      BY <3>4, <3>5
  <2>5. CASE a >= p
    <3>1. L2[a] = L[a + 1] /\ a + 1 # p /\ a + 1 # p - 1
      BY <1>1, <1>3, <2>1, <2>5
    <3>2. nx2[L2[a]] = IF a + 1 = n THEN NULL ELSE L[(a + 1) + 1]
      BY <1>2, <1>8, <2>1, <3>1
    <3>3. /\ a # n - 1 => L2[a + 1] = L[(a + 1) + 1]
          /\ a + 1 = n <=> a = n - 1
      <4>1. a + 1 >= p
        BY <1>1, <2>1, <2>5
      <4> QED
        BY <1>3, <2>1, <2>2, <4>1
    <3>4. CASE a = p
      <4>1. pr2[L2[a]] = pr[id]
        BY <1>8, <2>1, <3>1, <3>4
      <4>2. a # 1 => L2[a - 1] = L[p - 1]
        <5>1. a # 1 => a - 1 < p /\ a - 1 = p - 1
          BY <1>1, <3>4
        <5> QED
          BY <1>3, <2>3, <5>1
      <4> QED
        BY <1>1, <1>6, <2>1, <3>2, <3>3, <3>4, <4>1, <4>2
    <3>5. CASE a # p
      <4>1. /\ a + 1 # 1 /\ a # 1 /\ (a + 1) - 1 = a /\ a - 1 >= p /\ (a - 1) + 1 = a
            /\ a + 1 # p + 1
        BY <1>1, <2>1, <2>5, <3>5
      <4>2. pr2[L2[a]] = L[a]
        BY <1>2, <1>8, <2>1, <3>1, <4>1
      <4>3. L2[a - 1] = L[a]
        BY <1>3, <2>3, <4>1
      <4> QED
        BY <3>2, <3>3, <4>1, <4>2, <4>3
    <3> QED
      BY <3>4, <3>5
  <2> QED
    BY <1>1, <2>1, <2>4, <2>5
<1>10. Links(n - 1, L2, q2, nx2, pr2)
  BY <1>4, <1>5, <1>7, <1>9, Zenon DEF Links
<1>11. {L2[a] : a \in 1 .. n - 1} = {L[a] : a \in 1 .. n} \ {id}
  <2>1. ASSUME NEW a \in 1 .. n - 1
        PROVE  L2[a] \in {L[b] : b \in 1 .. n} \ {id}
    <3>1. CASE a < p
      BY <1>1, <1>2, <1>3, <1>c, <3>1
    <3>2. CASE a >= p
      <4>1. L2[a] = L[a + 1] /\ a + 1 \in 1 .. n /\ a + 1 # p
        BY <1>1, <1>3, <3>2
      <4> QED
        BY <1>2, <1>c, <4>1
    <3> QED
      BY <1>1, <3>1, <3>2
  <2>2. ASSUME NEW b \in 1 .. n, L[b] # id
        PROVE  L[b] \in {L2[a] : a \in 1 .. n - 1}
    <3>1. CASE b < p
      <4>1. b \in 1 .. n - 1 /\ L2[b] = L[b]
        BY <1>1, <1>3, <3>1
      <4> QED
        BY <4>1
    <3>2. CASE b > p
      <4>1. b - 1 \in 1 .. n - 1 /\ b - 1 >= p /\ (b - 1) + 1 = b
        BY <1>1, <3>2
      <4>2. L2[b - 1] = L[b]
        BY <1>3, <4>1
      <4> QED
        BY <4>1, <4>2
    <3> QED
      BY <1>1, <1>c, <2>2, <3>1, <3>2
  <2> QED
    BY <2>1, <2>2
<1>12. {L2[a] : a \in 1 .. n - 1} = S \ {id}
  BY <1>b, <1>11
<1> QED
  BY <1>1, <1>4, <1>10, <1>12 DEF Linked
-----------------------------------------------------------------------------
Delaying == {id \in Alus : pc[id] = "delay"}

(* The pointers link the ALUs that execute a command, in some order.       *)
ListOK == Linked(Delaying, qulist, nxt, pre)

(* An ALU works while it executes, or when its thread has given up for     *)
(* lack of memory; a thread that waits for the lock has a command.         *)
ThreadsOK ==
  /\ pc \in [Alus -> {"check", "lock", "sleep", "delay", "exited", "QUEUE_ER_PUT"}]
  /\ working = {id \in Alus : pc[id] \in {"delay", "QUEUE_ER_PUT"}}
  /\ \A id \in Alus : pc[id] = "lock" => command[id] # DUMMY
  /\ DONE => i = Commands \/ \E id \in Alus : pc[id] = "QUEUE_ER_PUT"

IInv == TypeOK /\ ListOK /\ ThreadsOK

(* Listed are the ALUs that execute a command.                             *)
LEMMA ListedAreDelaying == ListOK => Listed = Delaying
<1> SUFFICES ASSUME ListOK PROVE Listed = Delaying
  OBVIOUS
<1>1. PICK n \in Nat : \E L \in [1 .. n -> Alus] :
        Links(n, L, qulist, nxt, pre) /\ {L[a] : a \in 1 .. n} = Delaying
  BY DEF ListOK, Linked
<1>2. PICK L \in [1 .. n -> Alus] :
        Links(n, L, qulist, nxt, pre) /\ {L[a] : a \in 1 .. n} = Delaying
  BY <1>1
<1>3. Entries(qulist, nxt) = Delaying
  BY <1>2, EntriesOfLinks
<1> QED
  BY <1>3, Zenon DEF Listed, Entries

(* The invariant gives the properties of the emulator.                     *)
LEMMA IInvListIntact == IInv => ListIntact
<1> SUFFICES ASSUME IInv PROVE ListIntact
  OBVIOUS
<1>1. PICK n \in Nat : \E L \in [1 .. n -> Alus] :
        Links(n, L, qulist, nxt, pre) /\ {L[a] : a \in 1 .. n} = Delaying
  BY DEF IInv, ListOK, Linked
<1>2. PICK L \in [1 .. n -> Alus] :
        Links(n, L, qulist, nxt, pre) /\ {L[a] : a \in 1 .. n} = Delaying
  BY <1>1
<1>3. Listed = {L[a] : a \in 1 .. n}
  BY <1>2, ListedAreDelaying DEF IInv
<1>4. qulist # NULL => pre[qulist] = NULL
  <2>1. qulist # NULL => 1 \in 1 .. n /\ qulist = L[1]
    BY <1>2 DEF Links
  <2> QED
    BY <1>2, <2>1 DEF Links
<1>5. ASSUME NEW a \in Listed, nxt[a] # NULL
      PROVE  pre[nxt[a]] = a
  <2>1. PICK b \in 1 .. n : a = L[b]
    BY <1>3, <1>5
  <2>2. b # n /\ nxt[a] = L[b + 1]
    BY <1>2, <1>5, <2>1 DEF Links
  <2>3. b + 1 \in 1 .. n /\ b + 1 # 1 /\ (b + 1) - 1 = b
    BY <2>1, <2>2
  <2>4. pre[L[b + 1]] = L[(b + 1) - 1]
    BY <1>2, <2>3 DEF Links
  <2> QED
    BY <2>1, <2>2, <2>3, <2>4
<1> QED
  BY <1>4, <1>5 DEF ListIntact

(* The ALUs that execute are those that work and did not run out of memory. *)
LEMMA IInvWorkersListed == IInv => WorkersListed
<1> SUFFICES ASSUME IInv PROVE WorkersListed
  OBVIOUS
<1>1. Listed = Delaying
  BY ListedAreDelaying DEF IInv
<1> QED
  BY <1>1 DEF IInv, ThreadsOK, WorkersListed, Delaying

(* No thread is where it has given up for another reason.                  *)
LEMMA IInvGivesUp == IInv => GivesUpForMemoryOnly
BY DEF IInv, ThreadsOK, GivesUpForMemoryOnly

(* Nobody is listed or working at first.                                   *)
LEMMA InitIInv == Init => IInv
<1> SUFFICES ASSUME Init PROVE IInv
  OBVIOUS
<1>1. TypeOK
  <2>1. command \in [Alus -> 0 .. Commands] /\ i \in 0 .. Commands
    BY PoolAssumption DEF Init, DUMMY
  <2>2. /\ working \subseteq Alus /\ gid \in Alus \union {NULL}
        /\ qulist \in Alus \union {NULL}
        /\ DONE \in BOOLEAN /\ held \in BOOLEAN
    BY PoolAssumption DEF Init
  <2>3. nxt \in [Alus -> Alus \union {NULL}] /\ pre \in [Alus -> Alus \union {NULL}]
    BY DEF Init
  <2> QED
    BY <2>1, <2>2, <2>3 DEF TypeOK
<1>2. ListOK
  <2> DEFINE L == [a \in 1 .. 0 |-> 0]
  <2>1. /\ L \in [1 .. 0 -> Alus] /\ 0 \in Nat
        /\ \A a \in 1 .. 0 : FALSE
    OBVIOUS
  <2>2. Links(0, L, qulist, nxt, pre)
    BY <2>1 DEF Init, Links
  <2>3. {L[a] : a \in 1 .. 0} = Delaying
    BY <2>1 DEF Init, Delaying
  <2> QED
    BY <2>1, <2>2, <2>3 DEF ListOK, Linked
<1>3. ThreadsOK
  BY DEF Init, ThreadsOK
<1> QED
  BY <1>1, <1>2, <1>3 DEF IInv

(* A step that leaves the list and the executing threads alone keeps it.   *)
LEMMA ListUntouched ==
  ASSUME ListOK, UNCHANGED list, Delaying' = Delaying
  PROVE  ListOK'
BY Zenon DEF ListOK, list

(* iALU_Start puts the ALU into the list as it begins to execute.          *)
LEMMA StartIInv == \A id \in Alus : IInv /\ iALU_Start(id) => IInv'
<1> SUFFICES ASSUME NEW id \in Alus, IInv, iALU_Start(id) PROVE IInv'
  OBVIOUS
<1>1. /\ pc[id] = "lock" /\ command[id] # DUMMY
      /\ working' = working \union {id}
      /\ put_work_queue(id)
      /\ pc' = [pc EXCEPT ![id] = "delay"]
      /\ UNCHANGED <<DONE, held, command, gid, i, checkerPc, icommandPc, mainPc>>
  BY DEF IInv, ThreadsOK, iALU_Start, Goto
<1>2. TypeOK'
  BY <1>1 DEF IInv, TypeOK, put_work_queue
<1>3. Delaying' = Delaying \union {id} /\ id \notin Delaying
  BY <1>1 DEF IInv, ThreadsOK, Delaying
<1>4. ListOK'
  <2>1. /\ qulist' = id
        /\ nxt' = PutNext(id, qulist, nxt)
        /\ pre' = PutPrevious(id, qulist, pre)
    BY <1>1, Zenon DEF put_work_queue, PutNext, PutPrevious
  <2>2. Linked(Delaying, qulist, nxt, pre) /\ nxt \in [Alus -> Alus \union {NULL}]
    BY DEF IInv, ListOK, TypeOK
  <2>3. Linked(Delaying \union {id}, id, PutNext(id, qulist, nxt),
               PutPrevious(id, qulist, pre))
    BY <1>3, <2>2, PutLinks, Zenon
  <2> QED
    BY <1>3, <2>1, <2>3, Zenon DEF ListOK
<1>5. ThreadsOK'
  BY <1>1 DEF IInv, ThreadsOK
<1> QED
  BY <1>2, <1>4, <1>5 DEF IInv

(* iALU_Finish finds the ALU listed and takes it out.                      *)
LEMMA FinishIInv == \A id \in Alus : IInv /\ iALU_Finish(id) => IInv'
<1> SUFFICES ASSUME NEW id \in Alus, IInv, iALU_Finish(id) PROVE IInv'
  OBVIOUS
<1>1. id \in Listed
  BY ListedAreDelaying DEF IInv, Delaying, iALU_Finish
<1>2. /\ pc[id] = "delay"
      /\ working' = working \ {id}
      /\ del_work_queue(id)
      /\ pc' = [pc EXCEPT ![id] = "sleep"]
      /\ UNCHANGED <<DONE, held, command, gid, i, checkerPc, icommandPc, mainPc>>
  BY <1>1 DEF iALU_Finish, Goto
<1>3. TypeOK'
  BY <1>2 DEF IInv, TypeOK, del_work_queue
<1>4. Delaying' = Delaying \ {id} /\ id \in Delaying
  BY <1>2 DEF IInv, ThreadsOK, Delaying
<1>5. ListOK'
  <2>1. /\ qulist' = DelHead(id, qulist, nxt, pre)
        /\ nxt' = DelNext(id, nxt, pre)
        /\ pre' = DelPrevious(id, nxt, pre)
    BY <1>2, Zenon DEF del_work_queue, DelHead, DelNext, DelPrevious
  <2>2. /\ Linked(Delaying, qulist, nxt, pre)
        /\ nxt \in [Alus -> Alus \union {NULL}]
        /\ pre \in [Alus -> Alus \union {NULL}]
    BY DEF IInv, ListOK, TypeOK
  <2>3. Linked(Delaying \ {id}, DelHead(id, qulist, nxt, pre),
               DelNext(id, nxt, pre), DelPrevious(id, nxt, pre))
    BY <1>4, <2>2, DelLinks, Zenon
  <2> QED
    BY <1>4, <2>1, <2>3, Zenon DEF ListOK
<1>6. ThreadsOK'
  BY <1>2 DEF IInv, ThreadsOK
<1> QED
  BY <1>3, <1>5, <1>6 DEF IInv

(* check_work_queue finds a lowest ALU that is not listed, if there is one.*)
LEMMA CheckerIInv == IInv /\ check_work_queue => IInv'
<1> SUFFICES ASSUME IInv, check_work_queue PROVE IInv'
  OBVIOUS
<1>1. gid' \in Alus \union {NULL}
  <2>1. CASE gid' = gid
    BY <2>1 DEF IInv, TypeOK
  <2>2. CASE gid' = IF Alus \subseteq Listed THEN NULL
                    ELSE CHOOSE n \in Alus \ Listed : \A o \in Alus \ Listed : n <= o
    <3>1. CASE Alus \subseteq Listed
      BY <2>2, <3>1
    <3>2. CASE ~(Alus \subseteq Listed)
      <4>1. Alus \ Listed \subseteq Nat /\ Alus \ Listed # {}
        BY <3>2, PoolAssumption
      <4>2. \E n \in Alus \ Listed : \A o \in Alus \ Listed : n <= o
        BY <4>1, LeastElement
      <4> QED
        BY <2>2, <3>2, <4>2, Zenon
    <3> QED
      BY <3>1, <3>2
  <2> QED
    BY <2>1, <2>2 DEF check_work_queue
<1>2. UNCHANGED <<command, working, list, DONE, i, pc>>
  BY DEF check_work_queue
<1>3. TypeOK'
  BY <1>1, <1>2 DEF IInv, TypeOK, list, check_work_queue
<1>4. ListOK'
  BY <1>2, ListUntouched DEF IInv, Delaying
<1>5. ThreadsOK'
  BY <1>2 DEF IInv, ThreadsOK
<1> QED
  BY <1>3, <1>4, <1>5 DEF IInv

(* icommand stops at the last command, and what it hands out is no dummy.  *)
LEMMA CommandIInv == IInv /\ icommand => IInv'
<1> SUFFICES ASSUME IInv, icommand PROVE IInv'
  OBVIOUS
<1> USE PoolAssumption
<1>1. UNCHANGED <<working, list, gid, pc>>
  BY DEF icommand
<1>2. CASE UNCHANGED <<command, i, DONE, held>>
  <2>1. TypeOK'
    BY <1>1, <1>2 DEF IInv, TypeOK, list
  <2>2. ThreadsOK'
    BY <1>1, <1>2 DEF IInv, ThreadsOK
  <2>3. ListOK'
    BY <1>1, ListUntouched DEF IInv, Delaying
  <2> QED
    BY <2>1, <2>2, <2>3 DEF IInv
<1>3. CASE i = Commands /\ DONE' = TRUE /\ held' = TRUE /\ UNCHANGED <<command, i>>
  <2>1. TypeOK'
    BY <1>1, <1>3 DEF IInv, TypeOK, list
  <2>2. ThreadsOK'
    BY <1>1, <1>3 DEF IInv, ThreadsOK
  <2>3. ListOK'
    BY <1>1, ListUntouched DEF IInv, Delaying
  <2> QED
    BY <2>1, <2>2, <2>3 DEF IInv
<1>4. CASE /\ gid # NULL /\ i # Commands
           /\ command' = [command EXCEPT ![gid] = i + 1]
           /\ i' = i + 1 /\ UNCHANGED <<DONE, held>>
  <2>1. i' \in 0 .. Commands /\ i' # DUMMY /\ gid \in Alus
    BY <1>4 DEF IInv, TypeOK, DUMMY
  <2>2. TypeOK'
    BY <1>1, <1>4, <2>1 DEF IInv, TypeOK, list
  <2>3. \A id \in Alus : command[id] # DUMMY => command'[id] # DUMMY
    BY <1>4, <2>1 DEF IInv, TypeOK
  <2>4. ThreadsOK'
    BY <1>1, <1>4, <2>3 DEF IInv, ThreadsOK
  <2>5. ListOK'
    BY <1>1, ListUntouched DEF IInv, Delaying
  <2> QED
    BY <2>2, <2>4, <2>5 DEF IInv
<1> QED
  BY <1>2, <1>3, <1>4 DEF icommand

(* Every step keeps the invariant.                                         *)
LEMMA NextIInv == IInv /\ [Next]_vars => IInv'
<1> SUFFICES ASSUME IInv, [Next]_vars PROVE IInv'
  OBVIOUS
<1>1. ASSUME NEW id \in Alus, iALU_Check(id)
      PROVE  IInv'
  <2>1. UNCHANGED <<command, working, list, gid, DONE, i, held>>
        /\ pc[id] = "check"
        /\ pc' = [pc EXCEPT ![id] = IF command[id] # DUMMY /\ id \notin working
                                    THEN "lock" ELSE "sleep"]
    BY <1>1 DEF iALU_Check, Goto
  <2>2. TypeOK'
    BY <2>1 DEF IInv, TypeOK, list
  <2>3. ThreadsOK'
    BY <2>1 DEF IInv, ThreadsOK
  <2>4. Delaying' = Delaying
    BY <2>1 DEF IInv, ThreadsOK, Delaying
  <2> QED
    BY <2>1, <2>2, <2>3, <2>4, ListUntouched DEF IInv
<1>2. ASSUME NEW id \in Alus, iALU_StartNoMemory(id)
      PROVE  IInv'
  <2>1. /\ UNCHANGED <<command, list, gid, i>>
        /\ pc[id] = "lock" /\ pc' = [pc EXCEPT ![id] = "QUEUE_ER_PUT"]
        /\ working' = working \union {id}
        /\ DONE' = TRUE /\ held' = TRUE
    BY <1>2 DEF iALU_StartNoMemory, GiveUp, Goto
  <2>2. TypeOK'
    BY <2>1 DEF IInv, TypeOK, list
  <2>3. ThreadsOK'
    BY <2>1 DEF IInv, ThreadsOK
  <2>4. Delaying' = Delaying
    BY <2>1 DEF IInv, ThreadsOK, Delaying
  <2> QED
    BY <2>1, <2>2, <2>3, <2>4, ListUntouched DEF IInv
<1>3. ASSUME NEW id \in Alus, iALU_Again(id)
      PROVE  IInv'
  <2>1. /\ UNCHANGED <<command, working, list, gid, DONE, i, held>>
        /\ pc[id] = "sleep"
        /\ pc' = [pc EXCEPT ![id] = IF DONE THEN "exited" ELSE "check"]
    BY <1>3 DEF iALU_Again, Goto
  <2>2. TypeOK'
    BY <2>1 DEF IInv, TypeOK, list
  <2>3. ThreadsOK'
    BY <2>1 DEF IInv, ThreadsOK
  <2>4. Delaying' = Delaying
    BY <2>1 DEF IInv, ThreadsOK, Delaying
  <2> QED
    BY <2>1, <2>2, <2>3, <2>4, ListUntouched DEF IInv
<1>4. ASSUME UNCHANGED <<command, working, list, gid, DONE, i, held, pc>>
      PROVE  IInv'
  <2>1. TypeOK' /\ ThreadsOK'
    BY <1>4 DEF IInv, TypeOK, ThreadsOK, list
  <2> QED
    BY <1>4, <2>1, ListUntouched DEF IInv, Delaying
<1>5. CASE main \/ Ended \/ UNCHANGED vars
  <2>1. UNCHANGED <<command, working, list, gid, DONE, i, held, pc>>
    <3>1. CASE main
      BY <3>1 DEF main
    <3>2. CASE Ended \/ UNCHANGED vars
      BY <3>2 DEF Ended, vars, pcs, list
    <3> QED
      BY <1>5, <3>1, <3>2
  <2> QED
    BY <1>4, <2>1
<1> QED
  BY <1>1, <1>2, <1>3, <1>5, StartIInv, FinishIInv, CheckerIInv, CommandIInv
     DEF Next, iALU_do
-----------------------------------------------------------------------------
(* Types: icommand never reads a command past the end of CMD.              *)
THEOREM TypesHold == Spec => []TypeOK
<1>1. IInv => TypeOK
  BY DEF IInv
<1> QED
  BY <1>1, InitIInv, NextIInv, PTL DEF Spec

(* The work queue stays doubly linked without a loop, whichever ALU        *)
(* finishes first.                                                         *)
THEOREM ListStaysIntact == Spec => []ListIntact
BY InitIInv, NextIInv, IInvListIntact, PTL DEF Spec

(* The work queue lists exactly the ALUs that execute a command.           *)
THEOREM ListedAreWorking == Spec => []WorkersListed
BY InitIInv, NextIInv, IInvWorkersListed, PTL DEF Spec

(* No thread finds its command or its list entry gone, and the emulation   *)
(* ends early for lack of memory only.                                     *)
THEOREM OnlyMemoryEndsEarly == Spec => []GivesUpForMemoryOnly
BY InitIInv, NextIInv, IInvGivesUp, PTL DEF Spec
=============================================================================
