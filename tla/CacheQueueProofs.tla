--------------------------- MODULE CacheQueueProofs ---------------------------
(***************************************************************************)
(* For every set of cache items: the doubly linked update queue of         *)
(* rrd_daemon.c always stands for one sequence without repetition          *)
(* (ListRepresents), whose items are allocated and hold values, and it     *)
(* implements the queue of WriteQueue.                                     *)
(***************************************************************************)
EXTENDS CacheQueue, NaturalLemmas, SequenceTheorems, TLAPS

ListType(l) ==
    l \in [head : Items \cup {NULL}, tail : Items \cup {NULL},
           next : [Items -> Items \cup {NULL}],
           prev : [Items -> Items \cup {NULL}],
           queued : SUBSET Items, length : Nat]

\* The strengthening: TypeOK with the list a record, what the pointers stand
\* for, and that what is queued can be written.
IInv ==
    /\ tree \subseteq Items
    /\ values_num \in [Items -> Nat]
    /\ order \in Seq(Items)
    /\ ListType(list)
    /\ ListRepresents
    /\ QueuedItemsAreLive
    /\ FreedItemsAreEmpty

-------------------------------------------------------------------------------
(* Sequences without repetition.                                           *)

NoDup(q) == \A i, j \in 1 .. Len(q) : q[i] = q[j] => i = j

\* What is left of a sequence when its element number k goes.
LEMMA WithoutProperties ==
    ASSUME NEW q \in Seq(Items), NoDup(q), NEW k \in 1 .. Len(q)
    PROVE  LET r == WQ!Without(q, q[k])
           IN  /\ r = [i \in 1 .. Len(q) - 1 |-> IF i < k THEN q[i] ELSE q[i + 1]]
               /\ r \in Seq(Items)
               /\ Len(r) = Len(q) - 1
               /\ NoDup(r)
               /\ WQ!ElementsOf(r) = WQ!ElementsOf(q) \ {q[k]}
<1> DEFINE r == WQ!Without(q, q[k])
<1>1. q[k] \in WQ!ElementsOf(q)
  BY DEF WQ!ElementsOf
<1>2. (CHOOSE i \in 1 .. Len(q) : q[i] = q[k]) = k
  BY DEF NoDup
<1>3. r = [i \in 1 .. Len(q) - 1 |-> IF i < k THEN q[i] ELSE q[i + 1]]
  BY <1>1, <1>2 DEF WQ!Without
<1>4. Len(q) - 1 \in Nat /\ Len(q) \in Nat
  OBVIOUS
<1>5. \A i \in 1 .. Len(q) - 1 : (IF i < k THEN q[i] ELSE q[i + 1]) \in Items
  BY <1>4
<1>6. r \in Seq(Items) /\ Len(r) = Len(q) - 1
  BY <1>3, <1>4, <1>5
<1>7. NoDup(r)
  BY <1>3, <1>4, <1>6 DEF NoDup
<1>8. \A j \in 1 .. Len(q) : j # k =>
        \E i \in 1 .. Len(q) - 1 : q[j] = IF i < k THEN q[i] ELSE q[i + 1]
  <2> SUFFICES ASSUME NEW j \in 1 .. Len(q), j # k
               PROVE  \E i \in 1 .. Len(q) - 1 :
                         q[j] = IF i < k THEN q[i] ELSE q[i + 1]
    OBVIOUS
  <2>1. CASE j < k
    <3>1. j \in 1 .. Len(q) - 1 /\ q[j] = IF j < k THEN q[j] ELSE q[j + 1]
      BY <2>1, <1>4
    <3> QED BY <3>1
  <2>2. CASE j > k
    <3>1. /\ j - 1 \in 1 .. Len(q) - 1
          /\ q[j] = IF j - 1 < k THEN q[j - 1] ELSE q[(j - 1) + 1]
      BY <2>2, <1>4
    <3> QED BY <3>1
  <2> QED BY <2>1, <2>2, <1>4
<1>9. WQ!ElementsOf(r) = WQ!ElementsOf(q) \ {q[k]}
  <2>1. \A i \in 1 .. Len(q) - 1 : r[i] = IF i < k THEN q[i] ELSE q[i + 1]
    BY <1>3
  <2>2. \A i \in 1 .. Len(q) - 1 : r[i] \in WQ!ElementsOf(q) \ {q[k]}
    BY <2>1, <1>4 DEF WQ!ElementsOf, NoDup
  <2>3. \A x \in WQ!ElementsOf(q) \ {q[k]} : \E i \in 1 .. Len(q) - 1 : x = r[i]
    <3> SUFFICES ASSUME NEW x \in WQ!ElementsOf(q) \ {q[k]}
                 PROVE  \E i \in 1 .. Len(q) - 1 : x = r[i]
      OBVIOUS
    <3>1. PICK j \in 1 .. Len(q) : x = q[j] /\ j # k
      BY DEF WQ!ElementsOf
    <3>2. PICK i \in 1 .. Len(q) - 1 : q[j] = IF i < k THEN q[i] ELSE q[i + 1]
      BY <3>1, <1>8
    <3> QED BY <3>1, <3>2, <2>1
  <2> QED BY <2>2, <2>3, <1>6 DEF WQ!ElementsOf
<1> QED BY <1>3, <1>6, <1>7, <1>9

\* Removing the first element leaves the tail.
LEMMA WithoutHead ==
    ASSUME NEW q \in Seq(Items), NoDup(q), q # <<>>
    PROVE  WQ!Without(q, q[1]) = Tail(q)
<1> DEFINE r == WQ!Without(q, q[1])
<1>1. Len(q) \in Nat /\ 1 \in 1 .. Len(q)
  OBVIOUS
<1>2. PICK k \in 1 .. Len(q) : k = 1
  BY <1>1
<1>3. /\ r = [i \in 1 .. Len(q) - 1 |-> IF i < k THEN q[i] ELSE q[i + 1]]
      /\ r \in Seq(Items)
      /\ Len(r) = Len(q) - 1
  BY <1>2, WithoutProperties
<1>4. \A i \in 1 .. Len(q) - 1 : r[i] = q[i + 1]
  BY <1>1, <1>2, <1>3
<1>5. /\ Tail(q) \in Seq(Items) /\ Len(Tail(q)) = Len(q) - 1
      /\ \A i \in 1 .. Len(q) - 1 : Tail(q)[i] = q[i + 1]
  BY HeadTailProperties
<1>6. Len(r) = Len(Tail(q)) /\ \A i \in 1 .. Len(r) : r[i] = Tail(q)[i]
  BY <1>3, <1>4, <1>5
<1> HIDE DEF r
<1>7. r = Tail(q)
  BY <1>3, <1>5, <1>6, SeqEqual
<1> QED BY <1>7 DEF r

-------------------------------------------------------------------------------
(* What each pointer operation does to the sequence.                       *)

\* Unlinking element number k of the list removes it from the sequence.
LEMMA UnlinkRepresents ==
    ASSUME NEW l, NEW q \in Seq(Items), ListType(l), Represents(l, q),
           NEW ci \in l.queued
    PROVE  /\ ListType(unlink(l, ci))
           /\ Represents(unlink(l, ci), WQ!Without(q, ci))
           /\ WQ!Without(q, ci) \in Seq(Items)
<1> DEFINE r == WQ!Without(q, ci)
           u == unlink(l, ci)
<1> USE CacheQueueAssumption
<1>1. PICK k \in 1 .. Len(q) : q[k] = ci
  BY DEF Represents, WQ!ElementsOf
<1>2. NoDup(q)
  BY DEF Represents, NoDup
<1>3. /\ r = [i \in 1 .. Len(q) - 1 |-> IF i < k THEN q[i] ELSE q[i + 1]]
      /\ r \in Seq(Items)
      /\ Len(r) = Len(q) - 1
      /\ NoDup(r)
      /\ WQ!ElementsOf(r) = WQ!ElementsOf(q) \ {ci}
  BY <1>1, <1>2, WithoutProperties
<1>4. /\ Len(q) \in Nat /\ Len(q) # 0 /\ q # <<>>
      /\ \A i \in 1 .. Len(q) : q[i] \in Items /\ q[i] # NULL
  BY <1>1
<1>5. /\ l.prev[ci] = IF k = 1 THEN NULL ELSE q[k - 1]
      /\ l.next[ci] = IF k = Len(q) THEN NULL ELSE q[k + 1]
  BY <1>1 DEF Represents
<1>6. ListType(u)
  <2>1. ci \in Items /\ l.length - 1 \in Nat
    BY <1>1, <1>4 DEF Represents, ListType
  <2>2. l.prev[ci] \in Items \cup {NULL} /\ l.next[ci] \in Items \cup {NULL}
    BY <2>1 DEF ListType
  <2> QED BY <2>1, <2>2 DEF ListType, unlink, relink
<1>7. u.queued = WQ!ElementsOf(r) /\ u.length = Len(r)
  BY <1>3 DEF unlink, relink, Represents
<1>8. \A i \in 1 .. Len(r) : r[i] = IF i < k THEN q[i] ELSE q[i + 1]
  BY <1>3
<1>9. (r = <<>>) <=> Len(q) = 1
  <2>1. r \in Seq(Items) /\ Len(r) = Len(q) - 1
    BY <1>3
  <2>2. \A s \in Seq(Items) : (s = <<>>) <=> Len(s) = 0
    OBVIOUS
  <2>3. (r = <<>>) <=> Len(r) = 0
    BY <2>1, <2>2
  <2> QED BY <2>1, <2>3, <1>4
<1>10. u.head = IF r = <<>> THEN NULL ELSE r[1]
  <2>1. u.head = IF l.prev[ci] = NULL THEN l.next[ci] ELSE l.head
    BY DEF unlink, relink
  <2>2. l.head = q[1]
    BY <1>4 DEF Represents
  <2> QED BY <2>1, <2>2, <1>3, <1>4, <1>5, <1>8, <1>9
<1>11. u.tail = IF r = <<>> THEN NULL ELSE r[Len(r)]
  <2>1. u.tail = IF l.next[ci] = NULL THEN l.prev[ci] ELSE l.tail
    BY DEF unlink, relink
  <2>2. l.tail = q[Len(q)]
    BY <1>4 DEF Represents
  <2> QED BY <2>1, <2>2, <1>3, <1>4, <1>5, <1>8, <1>9
<1>12. \A i \in 1 .. Len(r) :
          /\ u.next[r[i]] = IF i = Len(r) THEN NULL ELSE r[i + 1]
          /\ u.prev[r[i]] = IF i = 1 THEN NULL ELSE r[i - 1]
  <2> SUFFICES ASSUME NEW i \in 1 .. Len(r)
               PROVE  /\ u.next[r[i]] = IF i = Len(r) THEN NULL ELSE r[i + 1]
                      /\ u.prev[r[i]] = IF i = 1 THEN NULL ELSE r[i - 1]
    OBVIOUS
  <2>1. r[i] \in Items /\ r[i] # ci
    <3>1. r[i] \in WQ!ElementsOf(r)
      BY DEF WQ!ElementsOf
    <3>2. \A s \in Seq(Items) : \A j \in 1 .. Len(s) : s[j] \in Items
      OBVIOUS
    <3>3. r \in Seq(Items) /\ WQ!ElementsOf(r) = WQ!ElementsOf(q) \ {ci}
      BY <1>3
    <3> QED BY <3>1, <3>2, <3>3
  <2>2. /\ u.next[r[i]] = IF r[i] = l.prev[ci] THEN l.next[ci] ELSE l.next[r[i]]
        /\ u.prev[r[i]] = IF r[i] = l.next[ci] THEN l.prev[ci] ELSE l.prev[r[i]]
    BY <2>1 DEF unlink, relink
  <2>3. \A j \in 1 .. Len(q) :
           /\ l.next[q[j]] = IF j = Len(q) THEN NULL ELSE q[j + 1]
           /\ l.prev[q[j]] = IF j = 1 THEN NULL ELSE q[j - 1]
    BY DEF Represents
  <2>4. CASE i < k
    <3>1. r[i] = q[i] /\ i \in 1 .. Len(q)
      BY <2>4, <1>3, <1>8, <1>4
    <3>2. (r[i] = l.prev[ci]) <=> (i = k - 1)
      <4>1. k - 1 \in 1 .. Len(q) /\ l.prev[ci] = q[k - 1]
        BY <2>4, <1>5, <1>4
      <4>2. (q[i] = q[k - 1]) <=> (i = k - 1)
        BY <4>1, <3>1, <1>2 DEF NoDup
      <4> QED BY <4>1, <4>2, <3>1
    <3>3. r[i] # l.next[ci]
      <4>1. CASE k = Len(q)
        BY <4>1, <3>1, <1>5, <1>4
      <4>2. CASE k # Len(q)
        <5>1. k + 1 \in 1 .. Len(q) /\ i # k + 1 /\ l.next[ci] = q[k + 1]
          BY <4>2, <2>4, <1>5, <1>4
        <5>2. q[i] # q[k + 1]
          BY <5>1, <3>1, <1>2 DEF NoDup
        <5> QED BY <5>1, <5>2, <3>1
      <4> QED BY <4>1, <4>2
    <3>4. i - 1 \in 1 .. Len(r) => r[i - 1] = q[i - 1]
      BY <2>4, <1>8
    <3>5. i + 1 \in 1 .. Len(r) => r[i + 1] = IF i + 1 < k THEN q[i + 1] ELSE q[i + 2]
      BY <1>8
    <3>6. u.prev[r[i]] = IF i = 1 THEN NULL ELSE r[i - 1]
      BY <3>1, <3>3, <3>4, <2>2, <2>3, <2>4, <1>3
    <3>7. CASE i = k - 1
      <4>1. u.next[r[i]] = IF k = Len(q) THEN NULL ELSE q[k + 1]
        BY <3>2, <3>7, <2>2, <1>5
      <4>2. (i = Len(r)) <=> (k = Len(q))
        BY <3>7, <1>3, <1>4
      <4>3. k # Len(q) => r[i + 1] = q[k + 1]
        BY <3>5, <3>7, <4>2, <1>3, <1>4
      <4> QED BY <4>1, <4>2, <4>3, <3>6
    <3>8. CASE i # k - 1
      <4>1. u.next[r[i]] = q[i + 1]
        BY <3>1, <3>2, <3>8, <2>2, <2>3, <2>4, <1>4
      <4>2. i # Len(r) /\ i + 1 < k /\ i + 1 \in 1 .. Len(r)
        BY <3>8, <2>4, <1>3, <1>4
      <4> QED BY <4>1, <4>2, <3>5, <3>6
    <3> QED BY <3>7, <3>8
  <2>5. CASE i >= k
    <3>1. r[i] = q[i + 1] /\ i + 1 \in 1 .. Len(q)
      BY <2>5, <1>3, <1>8, <1>4
    <3>2. r[i] # l.prev[ci]
      <4>1. CASE k = 1
        BY <4>1, <3>1, <1>5, <1>4
      <4>2. CASE k # 1
        <5>1. k - 1 \in 1 .. Len(q) /\ i + 1 # k - 1 /\ l.prev[ci] = q[k - 1]
          BY <4>2, <2>5, <1>5, <1>4
        <5>2. q[i + 1] # q[k - 1]
          BY <5>1, <3>1, <1>2 DEF NoDup
        <5> QED BY <5>1, <5>2, <3>1
      <4> QED BY <4>1, <4>2
    <3>3. (r[i] = l.next[ci]) <=> (i = k)
      <4>1. k # Len(q)
        BY <3>1, <2>5, <1>4
      <4>2. k + 1 \in 1 .. Len(q) /\ l.next[ci] = q[k + 1]
        BY <4>1, <1>5, <1>4
      <4>3. (q[i + 1] = q[k + 1]) <=> (i + 1 = k + 1)
        BY <4>2, <3>1, <1>2 DEF NoDup
      <4>4. (i + 1 = k + 1) <=> (i = k)
        BY <1>4
      <4> QED BY <4>2, <4>3, <4>4, <3>1
    <3>4. i # 1 => i - 1 \in 1 .. Len(r)
      BY <1>3, <1>4
    <3>5. i # 1 => r[i - 1] = IF i = k THEN q[i - 1] ELSE q[i]
      <4>1. ASSUME i # 1 PROVE r[i - 1] = IF i - 1 < k THEN q[i - 1] ELSE q[(i - 1) + 1]
        BY <4>1, <3>4, <1>8
      <4>2. (i - 1 < k) <=> i = k
        BY <2>5, <1>3, <1>4
      <4>3. (i - 1) + 1 = i
        BY <1>3, <1>4
      <4> QED BY <4>1, <4>2, <4>3
    <3>6. i # Len(r) => r[i + 1] = q[(i + 1) + 1]
      BY <2>5, <1>8, <1>3, <1>4
    <3>7. u.next[r[i]] = IF i = Len(r) THEN NULL ELSE r[i + 1]
      <4>1. u.next[r[i]] = l.next[q[i + 1]]
        BY <3>1, <3>2, <2>2
      <4>2. u.next[r[i]] = IF i + 1 = Len(q) THEN NULL ELSE q[(i + 1) + 1]
        BY <4>1, <3>1, <2>3
      <4> QED BY <4>2, <3>6, <1>3, <1>4
    <3>8. u.prev[r[i]] = IF i = 1 THEN NULL ELSE r[i - 1]
      <4>1. CASE i = k
        <5>1. u.prev[r[i]] = l.prev[ci]
          BY <4>1, <3>3, <2>2
        <5> QED BY <5>1, <4>1, <1>5, <3>5
      <4>2. CASE i # k
        <5>1. u.prev[r[i]] = l.prev[q[i + 1]]
          BY <4>2, <3>1, <3>3, <2>2
        <5>2. u.prev[r[i]] = IF i + 1 = 1 THEN NULL ELSE q[(i + 1) - 1]
          BY <5>1, <3>1, <2>3
        <5>3. i # 1 /\ i + 1 # 1 /\ (i + 1) - 1 = i
          BY <4>2, <2>5, <1>3, <1>4
        <5> QED BY <5>2, <5>3, <4>2, <3>5
      <4> QED BY <4>1, <4>2
    <3> QED BY <3>7, <3>8
  <2> QED BY <2>4, <2>5, <1>3, <1>4
<1>13. \A x \in Items \ u.queued : u.next[x] = NULL /\ u.prev[x] = NULL
  <2> SUFFICES ASSUME NEW x \in Items \ u.queued
               PROVE  u.next[x] = NULL /\ u.prev[x] = NULL
    OBVIOUS
  <2>1. CASE x = ci
    BY <2>1 DEF unlink, relink
  <2>2. CASE x # ci
    <3>1. x \notin l.queued
      BY <2>2 DEF unlink, relink
    <3>2. l.next[x] = NULL /\ l.prev[x] = NULL
      BY <3>1 DEF Represents
    <3>3. x # l.prev[ci] /\ x # l.next[ci]
      BY <3>1, <1>4, <1>5 DEF Represents, WQ!ElementsOf
    <3> QED BY <2>2, <3>2, <3>3 DEF unlink, relink
  <2> QED BY <2>1, <2>2
<1> QED
  BY <1>3, <1>6, <1>7, <1>10, <1>11, <1>12, <1>13 DEF Represents, NoDup

\* remove_from_queue, whether or not the item is linked.
LEMMA RemoveRepresents ==
    ASSUME NEW l, NEW q \in Seq(Items), ListType(l), Represents(l, q), NEW ci
    PROVE  /\ ListType(remove_from_queue(l, ci))
           /\ Represents(remove_from_queue(l, ci), WQ!Without(q, ci))
           /\ WQ!Without(q, ci) \in Seq(Items)
           /\ remove_from_queue(l, ci).queued = l.queued \ {ci}
<1>1. CASE ci \in l.queued
  BY <1>1, UnlinkRepresents DEF remove_from_queue, unlink, relink
<1>2. CASE ci \notin l.queued
  <2>1. WQ!Without(q, ci) = q
    BY <1>2 DEF Represents, WQ!Without
  <2> QED BY <1>2, <2>1 DEF remove_from_queue
<1> QED BY <1>1, <1>2

\* Linking an unlinked item before the head.
LEMMA LinkAtHeadRepresents ==
    ASSUME NEW l, NEW q \in Seq(Items), ListType(l), Represents(l, q),
           NEW ci \in Items \ l.queued
    PROVE  /\ ListType(link_at_head(l, ci))
           /\ Represents(link_at_head(l, ci), <<ci>> \o q)
           /\ <<ci>> \o q \in Seq(Items)
<1> DEFINE r == <<ci>> \o q
           u == link_at_head(l, ci)
<1> USE CacheQueueAssumption
<1>1. /\ r \in Seq(Items) /\ Len(q) \in Nat /\ Len(r) = Len(q) + 1 /\ r # <<>>
      /\ r[1] = ci /\ \A i \in 1 .. Len(q) : r[i + 1] = q[i]
  OBVIOUS
<1>2. \A i \in 2 .. Len(r) : r[i] = q[i - 1] /\ i - 1 \in 1 .. Len(q)
  BY <1>1
<1>3. \A i \in 1 .. Len(q) : q[i] # ci /\ q[i] \in Items /\ q[i] # NULL
  BY DEF Represents, WQ!ElementsOf
<1>4. l.head = IF q = <<>> THEN NULL ELSE q[1]
  BY DEF Represents
<1>5. ListType(u)
  BY DEF ListType, link_at_head, relink
<1>6. NoDup(r)
  <2> SUFFICES ASSUME NEW i \in 1 .. Len(r), NEW j \in 1 .. Len(r), r[i] = r[j]
               PROVE  i = j
    BY DEF NoDup
  <2>1. i \in Nat /\ j \in Nat /\ (i = 1 \/ i \in 2 .. Len(r)) /\ (j = 1 \/ j \in 2 .. Len(r))
    BY <1>1
  <2>2. CASE i = 1 \/ j = 1
    BY <2>1, <2>2, <1>1, <1>2, <1>3
  <2>3. CASE i # 1 /\ j # 1
    <3>1. q[i - 1] = q[j - 1] /\ i - 1 \in 1 .. Len(q) /\ j - 1 \in 1 .. Len(q)
      BY <2>1, <2>3, <1>2
    <3>2. i - 1 = j - 1
      BY <3>1 DEF Represents
    <3> QED BY <3>2, <2>1
  <2> QED BY <2>2, <2>3
<1>7. u.queued = WQ!ElementsOf(r)
  <2>1. WQ!ElementsOf(r) = {ci} \cup WQ!ElementsOf(q)
    <3>1. ASSUME NEW x \in WQ!ElementsOf(r) PROVE x \in {ci} \cup WQ!ElementsOf(q)
      <4>1. PICK i \in 1 .. Len(r) : x = r[i]
        BY DEF WQ!ElementsOf
      <4>2. i = 1 \/ i \in 2 .. Len(r)
        BY <1>1
      <4> QED BY <4>1, <4>2, <1>1, <1>2 DEF WQ!ElementsOf
    <3>2. ASSUME NEW x \in {ci} \cup WQ!ElementsOf(q) PROVE x \in WQ!ElementsOf(r)
      <4>1. CASE x = ci
        BY <4>1, <1>1 DEF WQ!ElementsOf
      <4>2. CASE x \in WQ!ElementsOf(q)
        <5>1. PICK i \in 1 .. Len(q) : x = q[i]
          BY <4>2 DEF WQ!ElementsOf
        <5>2. x = r[i + 1] /\ i + 1 \in 1 .. Len(r)
          BY <5>1, <1>1
        <5> QED BY <5>2 DEF WQ!ElementsOf
      <4> QED BY <4>1, <4>2
    <3> QED BY <3>1, <3>2
  <2> QED BY <2>1 DEF Represents, link_at_head, relink
<1>8. u.length = Len(r) /\ u.head = r[1] /\ u.tail = r[Len(r)]
  <2>1. u.length = Len(r) /\ u.head = r[1]
    BY <1>1 DEF Represents, link_at_head, relink
  <2>2. CASE q = <<>>
    BY <2>2, <1>1 DEF Represents, link_at_head, relink
  <2>3. CASE q # <<>>
    <3>1. l.tail = q[Len(q)] /\ l.tail # NULL /\ Len(q) \in 1 .. Len(q)
      BY <2>3, <1>1, <1>3 DEF Represents
    <3>2. r[Len(r)] = q[Len(q)]
      BY <3>1, <1>1
    <3> QED BY <2>1, <3>1, <3>2 DEF link_at_head, relink
  <2> QED BY <2>1, <2>2, <2>3
<1>9. \A i \in 1 .. Len(r) :
         /\ u.next[r[i]] = IF i = Len(r) THEN NULL ELSE r[i + 1]
         /\ u.prev[r[i]] = IF i = 1 THEN NULL ELSE r[i - 1]
  <2> SUFFICES ASSUME NEW i \in 1 .. Len(r)
               PROVE  /\ u.next[r[i]] = IF i = Len(r) THEN NULL ELSE r[i + 1]
                      /\ u.prev[r[i]] = IF i = 1 THEN NULL ELSE r[i - 1]
    OBVIOUS
  <2>1. CASE i = 1
    <3>1. u.next[ci] = l.head /\ u.prev[ci] = NULL
      BY DEF link_at_head, relink, ListType
    <3>2. q # <<>> => r[2] = q[1]
      BY <1>1
    <3> QED BY <2>1, <3>1, <3>2, <1>1, <1>4
  <2>2. CASE i # 1
    <3>1. i - 1 \in 1 .. Len(q) /\ r[i] = q[i - 1]
      BY <2>2, <1>2, <1>1
    <3>2. r[i] # ci /\ r[i] \in Items
      BY <3>1, <1>3
    <3>3. /\ l.next[q[i - 1]] = IF i - 1 = Len(q) THEN NULL ELSE q[i]
          /\ l.prev[q[i - 1]] = IF i - 1 = 1 THEN NULL ELSE q[i - 2]
      BY <3>1 DEF Represents
    <3>4. (r[i] = l.head) <=> i = 2
      BY <3>1, <1>4, <1>1 DEF Represents
    <3>5. /\ u.next[r[i]] = l.next[r[i]]
          /\ u.prev[r[i]] = IF r[i] = l.head THEN ci ELSE l.prev[r[i]]
      BY <3>2 DEF link_at_head, relink, ListType
    <3>6. i # Len(r) => r[i + 1] = q[i]
      BY <3>1, <1>1
    <3>7. i # 2 => r[i - 1] = q[i - 2]
      BY <3>1, <2>2, <1>2
    <3> QED BY <3>1, <3>3, <3>4, <3>5, <3>6, <3>7, <1>1, <2>2
  <2> QED BY <2>1, <2>2
<1>10. \A x \in Items \ u.queued : u.next[x] = NULL /\ u.prev[x] = NULL
  <2> SUFFICES ASSUME NEW x \in Items \ u.queued
               PROVE  u.next[x] = NULL /\ u.prev[x] = NULL
    OBVIOUS
  <2>1. x # ci /\ x \notin l.queued
    BY DEF link_at_head, relink
  <2>2. x # l.head
    BY <2>1, <1>4, <1>1 DEF Represents, WQ!ElementsOf
  <2> QED BY <2>1, <2>2 DEF link_at_head, relink, Represents, ListType
<1> QED BY <1>1, <1>5, <1>6, <1>7, <1>8, <1>9, <1>10 DEF Represents, NoDup

\* Linking an unlinked item behind the tail.
LEMMA LinkAtTailRepresents ==
    ASSUME NEW l, NEW q \in Seq(Items), ListType(l), Represents(l, q),
           NEW ci \in Items \ l.queued
    PROVE  /\ ListType(link_at_tail(l, ci))
           /\ Represents(link_at_tail(l, ci), Append(q, ci))
           /\ Append(q, ci) \in Seq(Items)
<1> DEFINE r == Append(q, ci)
           u == link_at_tail(l, ci)
<1> USE CacheQueueAssumption
<1>1. /\ r \in Seq(Items) /\ Len(q) \in Nat /\ Len(r) = Len(q) + 1 /\ r # <<>>
      /\ r[Len(r)] = ci /\ \A i \in 1 .. Len(q) : r[i] = q[i]
  OBVIOUS
<1>2. \A i \in 1 .. Len(q) : q[i] # ci /\ q[i] \in Items /\ q[i] # NULL
  BY DEF Represents, WQ!ElementsOf
<1>3. l.tail = IF q = <<>> THEN NULL ELSE q[Len(q)]
  BY DEF Represents
<1>4. ListType(u)
  BY DEF ListType, link_at_tail, relink
<1>5. NoDup(r)
  BY <1>1, <1>2 DEF NoDup, Represents
<1>6. u.queued = WQ!ElementsOf(r)
  <2>1. WQ!ElementsOf(r) = {ci} \cup WQ!ElementsOf(q)
    BY <1>1 DEF WQ!ElementsOf
  <2> QED BY <2>1 DEF Represents, link_at_tail, relink
<1>7. u.length = Len(r) /\ u.tail = r[Len(r)]
  BY <1>1 DEF Represents, link_at_tail, relink
<1>8. u.head = r[1]
  <2>1. CASE q = <<>>
    BY <2>1, <1>1, <1>3 DEF link_at_tail, relink
  <2>2. CASE q # <<>>
    <3>1. l.tail # NULL /\ l.head = q[1] /\ r[1] = q[1]
      BY <2>2, <1>1, <1>2, <1>3 DEF Represents
    <3> QED BY <3>1 DEF link_at_tail, relink
  <2> QED BY <2>1, <2>2
<1>9. \A i \in 1 .. Len(r) :
         /\ u.next[r[i]] = IF i = Len(r) THEN NULL ELSE r[i + 1]
         /\ u.prev[r[i]] = IF i = 1 THEN NULL ELSE r[i - 1]
  <2> SUFFICES ASSUME NEW i \in 1 .. Len(r)
               PROVE  /\ u.next[r[i]] = IF i = Len(r) THEN NULL ELSE r[i + 1]
                      /\ u.prev[r[i]] = IF i = 1 THEN NULL ELSE r[i - 1]
    OBVIOUS
  <2>1. CASE i = Len(r)
    <3>1. u.prev[ci] = l.tail
      BY DEF link_at_tail, relink, ListType
    <3>2. ci # l.tail
      BY <1>2, <1>3, <1>1
    <3>3. u.next[ci] = NULL
      BY <3>2 DEF link_at_tail, relink, Represents
    <3>4. i # 1 => r[i - 1] = q[Len(q)]
      BY <2>1, <1>1
    <3> QED BY <2>1, <3>1, <3>3, <3>4, <1>1, <1>3
  <2>2. CASE i # Len(r)
    <3>1. i \in 1 .. Len(q) /\ r[i] = q[i] /\ r[i] # ci /\ r[i] \in Items
      BY <2>2, <1>1, <1>2
    <3>2. /\ l.next[q[i]] = IF i = Len(q) THEN NULL ELSE q[i + 1]
          /\ l.prev[q[i]] = IF i = 1 THEN NULL ELSE q[i - 1]
      BY <3>1 DEF Represents
    <3>3. (r[i] = l.tail) <=> i = Len(q)
      BY <3>1, <1>3, <1>1 DEF Represents
    <3>4. /\ u.next[r[i]] = IF r[i] = l.tail THEN ci ELSE l.next[r[i]]
          /\ u.prev[r[i]] = l.prev[r[i]]
      BY <3>1 DEF link_at_tail, relink, ListType
    <3>5. r[i + 1] = IF i = Len(q) THEN ci ELSE q[i + 1]
      BY <3>1, <1>1
    <3>6. i # 1 => r[i - 1] = q[i - 1]
      BY <3>1, <1>1
    <3> QED BY <3>1, <3>2, <3>3, <3>4, <3>5, <3>6, <2>2
  <2> QED BY <2>1, <2>2
<1>10. \A x \in Items \ u.queued : u.next[x] = NULL /\ u.prev[x] = NULL
  <2> SUFFICES ASSUME NEW x \in Items \ u.queued
               PROVE  u.next[x] = NULL /\ u.prev[x] = NULL
    OBVIOUS
  <2>1. x # ci /\ x \notin l.queued
    BY DEF link_at_tail, relink
  <2>2. x # l.tail
    BY <2>1, <1>3, <1>1 DEF Represents, WQ!ElementsOf
  <2> QED BY <2>1, <2>2 DEF link_at_tail, relink, Represents, ListType
<1> QED BY <1>1, <1>4, <1>5, <1>6, <1>7, <1>8, <1>9, <1>10 DEF Represents, NoDup

\* enqueue_cache_item (ci, TAIL) does what WriteQueue's AtTail says.
LEMMA EnqueueTailRepresents ==
    ASSUME NEW l, NEW q \in Seq(Items), ListType(l), Represents(l, q), NEW ci \in Items
    PROVE  /\ ListType(enqueue_tail(l, ci))
           /\ Represents(enqueue_tail(l, ci), WQ!AtTail(q, ci))
           /\ WQ!AtTail(q, ci) \in Seq(Items)
           /\ enqueue_tail(l, ci).queued = l.queued \cup {ci}
<1>1. l.queued = WQ!ElementsOf(q)
  BY DEF Represents
<1>2. CASE ci \in l.queued
  BY <1>1, <1>2 DEF enqueue_tail, WQ!AtTail
<1>3. CASE ci \notin l.queued
  <2>1. /\ ListType(link_at_tail(l, ci))
        /\ Represents(link_at_tail(l, ci), Append(q, ci))
        /\ Append(q, ci) \in Seq(Items)
    BY <1>3, LinkAtTailRepresents
  <2>2. enqueue_tail(l, ci) = link_at_tail(l, ci) /\ WQ!AtTail(q, ci) = Append(q, ci)
    BY <1>1, <1>3 DEF enqueue_tail, WQ!AtTail
  <2>3. link_at_tail(l, ci).queued = l.queued \cup {ci}
    BY DEF link_at_tail
  <2> QED BY <2>1, <2>2, <2>3
<1> QED BY <1>2, <1>3

\* enqueue_cache_item (ci, HEAD) does what WriteQueue's AtHead says.
LEMMA EnqueueHeadRepresents ==
    ASSUME NEW l, NEW q \in Seq(Items), ListType(l), Represents(l, q), NEW ci \in Items
    PROVE  /\ ListType(enqueue_head(l, ci))
           /\ Represents(enqueue_head(l, ci), WQ!AtHead(q, ci))
           /\ WQ!AtHead(q, ci) \in Seq(Items)
           /\ enqueue_head(l, ci).queued = l.queued \cup {ci}
<1> USE CacheQueueAssumption
<1>1. CASE l.head = ci
  <2>1. q # <<>> /\ q[1] = ci /\ Len(q) \in Nat /\ Len(q) >= 1
    BY <1>1 DEF Represents
  <2>2. NoDup(q)
    BY DEF Represents, NoDup
  <2> DEFINE r == WQ!Without(q, ci)
  <2>4. r = Tail(q)
    BY <2>1, <2>2, WithoutHead
  <2>5. <<ci>> \o Tail(q) = q
    BY <2>1
  <2>6. WQ!AtHead(q, ci) = q
    BY <2>4, <2>5 DEF WQ!AtHead
  <2>7. ci \in l.queued
    BY <2>1 DEF Represents, WQ!ElementsOf
  <2> QED BY <1>1, <2>6, <2>7 DEF enqueue_head
<1>2. CASE l.head # ci
  <2> DEFINE m == remove_from_queue(l, ci)
             r == WQ!Without(q, ci)
  <2>1. /\ ListType(m) /\ Represents(m, r) /\ r \in Seq(Items)
        /\ m.queued = l.queued \ {ci}
    BY RemoveRepresents
  <2>2. ci \in Items \ m.queued
    BY <2>1
  <2> HIDE DEF m, r
  <2>3. /\ ListType(link_at_head(m, ci))
        /\ Represents(link_at_head(m, ci), <<ci>> \o r)
        /\ <<ci>> \o r \in Seq(Items)
    BY <2>1, <2>2, LinkAtHeadRepresents
  <2>4. link_at_head(m, ci).queued = l.queued \cup {ci}
    BY <2>1 DEF link_at_head
  <2>5. enqueue_head(l, ci) = link_at_head(m, ci)
    BY <1>2 DEF enqueue_head, m
  <2>6. WQ!AtHead(q, ci) = <<ci>> \o r
    BY DEF WQ!AtHead, r
  <2> QED BY <2>3, <2>4, <2>5, <2>6
<1> QED BY <1>1, <1>2

\* remove_from_queue on the head, as queue_thread_main calls it.
LEMMA TakeRepresents ==
    ASSUME NEW l, NEW q \in Seq(Items), ListType(l), Represents(l, q), l.head # NULL
    PROVE  /\ q # <<>>
           /\ l.head = Head(q)
           /\ l.head \in l.queued
           /\ WQ!Without(q, l.head) = Tail(q)
<1>1. q # <<>> /\ l.head = q[1] /\ Len(q) \in Nat /\ Len(q) >= 1
  BY DEF Represents
<1>2. NoDup(q)
  BY DEF Represents, NoDup
<1>4. WQ!Without(q, q[1]) = Tail(q)
  BY <1>1, <1>2, WithoutHead
<1>5. l.head \in l.queued
  BY <1>1 DEF Represents, WQ!ElementsOf
<1> QED BY <1>1, <1>4, <1>5

-------------------------------------------------------------------------------
\* The empty queue satisfies the invariant.
LEMMA InitIInv == Init => IInv
<1> SUFFICES ASSUME Init PROVE IInv
  OBVIOUS
<1> USE DEF Init
<1>1. ListType(list)
  BY DEF ListType, EmptyList
<1>2. ListRepresents
  BY DEF ListRepresents, Represents, EmptyList, WQ!ElementsOf
<1>3. QueuedItemsAreLive /\ FreedItemsAreEmpty
  BY DEF QueuedItemsAreLive, FreedItemsAreEmpty, EmptyList
<1> QED BY <1>1, <1>2, <1>3 DEF IInv

\* Every operation on the queue preserves the invariant.
LEMMA NextIInv == IInv /\ [Next]_vars => IInv'
<1> SUFFICES ASSUME IInv, [Next]_vars PROVE IInv'
  OBVIOUS
<1> USE DEF IInv, QueuedItemsAreLive, FreedItemsAreEmpty
<1>0. order \in Seq(Items) /\ ListType(list) /\ Represents(list, order)
  BY DEF ListRepresents
<1>1. ASSUME NEW ci \in Items, Insert(ci) PROVE IInv'
  BY <1>1 DEF Insert, ListRepresents
<1>2. ASSUME NEW ci \in Items, NEW due \in BOOLEAN, Update(ci, due) PROVE IInv'
  <2>1. /\ values_num' \in [Items -> Nat]
        /\ values_num'[ci] > 0
        /\ \A x \in Items : x # ci => values_num'[x] = values_num[x]
    BY <1>2 DEF Update
  <2>2. CASE due
    <3>1. /\ ListType(list') /\ Represents(list', order') /\ order' \in Seq(Items)
          /\ list'.queued = list.queued \cup {ci}
      BY <1>0, <1>2, <2>2, EnqueueTailRepresents DEF Update
    <3> QED BY <1>2, <2>1, <3>1 DEF Update, ListRepresents, ListType
  <2>3. CASE ~due
    BY <1>2, <2>1, <2>3 DEF Update, ListRepresents, ListType
  <2> QED BY <2>2, <2>3
<1>3. ASSUME NEW ci \in Items, FlushOld(ci) PROVE IInv'
  <2>1. /\ ListType(list') /\ Represents(list', order') /\ order' \in Seq(Items)
        /\ list'.queued = list.queued \cup {ci}
    BY <1>0, <1>3, EnqueueTailRepresents DEF FlushOld
  <2> QED BY <1>3, <2>1 DEF FlushOld, ListRepresents
<1>4. ASSUME NEW ci \in Items, Flush(ci) PROVE IInv'
  <2>1. /\ ListType(list') /\ Represents(list', order') /\ order' \in Seq(Items)
        /\ list'.queued = list.queued \cup {ci}
    BY <1>0, <1>4, EnqueueHeadRepresents DEF Flush
  <2> QED BY <1>4, <2>1 DEF Flush, ListRepresents
<1>5. ASSUME NEW ci \in Items, Free(ci) PROVE IInv'
  <2>1. /\ ListType(list') /\ Represents(list', order') /\ order' \in Seq(Items)
        /\ list'.queued = list.queued \ {ci}
    BY <1>0, <1>5, RemoveRepresents DEF Free
  <2> QED BY <1>5, <2>1 DEF Free, ListRepresents
<1>6. ASSUME NEW ci \in Items, Wrote(ci) PROVE IInv'
  <2>1. /\ ListType(list') /\ Represents(list', order') /\ order' \in Seq(Items)
        /\ list'.queued = list.queued \ {ci}
    BY <1>0, <1>6, RemoveRepresents DEF Wrote
  <2> QED BY <1>6, <2>1 DEF Wrote, ListRepresents
<1>7. ASSUME Take PROVE IInv'
  <2>1. list.head \in list.queued /\ WQ!Without(order, list.head) = Tail(order)
    BY <1>0, <1>7, TakeRepresents DEF Take
  <2> DEFINE l == remove_from_queue(list, list.head)
  <2>2a. /\ ListType(l) /\ Represents(l, WQ!Without(order, list.head))
         /\ WQ!Without(order, list.head) \in Seq(Items)
         /\ l.queued = list.queued \ {list.head}
    BY <1>0, RemoveRepresents
  <2>2. /\ ListType(list') /\ Represents(list', order') /\ order' \in Seq(Items)
        /\ list'.queued = list.queued \ {list.head}
    <3>1. list' = l /\ order' = WQ!Without(order, list.head)
      BY <1>7, <2>1 DEF Take
    <3> HIDE DEF l
    <3> QED BY <2>2a, <3>1
  <2>3. list.head \in Items
    BY <2>1 DEF ListType
  <2> QED BY <1>7, <2>2, <2>3 DEF Take, ListRepresents
<1>8. CASE UNCHANGED vars
  BY <1>8 DEF vars, ListRepresents
<1> QED
  BY <1>1, <1>2, <1>3, <1>4, <1>5, <1>6, <1>7, <1>8 DEF Next

\* The invariant gives the types.
LEMMA IInvImpliesTypeOK == IInv => TypeOK
  BY DEF IInv, TypeOK, ListType

\* The invariant of the queue, for every set of items.
LEMMA Inductive == Spec => []IInv
  BY InitIInv, NextIInv, PTL DEF Spec

\* Every variable of the queue keeps its type; in particular
\* stats_queue_length never falls below zero, which remove_from_queue asserts.
THEOREM TypeCorrect == Spec => []TypeOK
  BY Inductive, IInvImpliesTypeOK, PTL

\* Pointers, flags, ends and counter of the linked list always describe one
\* and the same sequence without repetition.
THEOREM ListCorrect == Spec => []ListRepresents
<1>1. IInv => ListRepresents
  BY DEF IInv
<1> QED BY <1>1, Inductive, PTL

\* Everything in the queue is allocated and holds values: a writer never
\* finds a freed or an empty item at the head.
THEOREM QueueCorrect == Spec => []QueuedItemsAreLive
<1>1. IInv => QueuedItemsAreLive
  BY DEF IInv
<1> QED BY <1>1, Inductive, PTL

-------------------------------------------------------------------------------
(* The walk along next, which QUEUE takes.                                 *)

\* The equation of walk has a solution: n + 1 items from ci are ci and n items
\* from the next one.
LEMMA WalkDefined ==
    ASSUME NEW next \in [Items -> Items \cup {NULL}]
    PROVE  \E g : g = [n \in Nat |-> [ci \in Items \cup {NULL} |->
                         IF n = 0 \/ ci = NULL THEN <<>>
                         ELSE <<ci>> \o g[n - 1][next[ci]]]]
<1> DEFINE T == [Items \cup {NULL} -> Seq(Items)]
           start == [ci \in Items \cup {NULL} |-> <<>>]
           longer(w) == [ci \in Items \cup {NULL} |->
                            IF ci = NULL THEN <<>> ELSE <<ci>> \o w[next[ci]]]
           step == [w \in T |-> longer(w)]
           Solves(w) == w = [n \in Nat |-> [ci \in Items \cup {NULL} |->
                               IF n = 0 \/ ci = NULL THEN <<>>
                               ELSE <<ci>> \o w[n - 1][next[ci]]]]
<1>1. start \in T
  OBVIOUS
<1>2. ASSUME NEW w \in T PROVE longer(w) \in T
  <2>1. ASSUME NEW ci \in Items \cup {NULL}, ci # NULL
        PROVE  <<ci>> \o w[next[ci]] \in Seq(Items)
    <3>1. ci \in Items /\ next[ci] \in Items \cup {NULL}
      BY <2>1
    <3>2. w[next[ci]] \in Seq(Items) /\ <<ci>> \in Seq(Items)
      BY <3>1
    <3> QED BY <3>2
  <2> QED BY <2>1
<1>3. step \in [T -> T]
  <2> HIDE DEF T, longer
  <2> QED BY <1>2
<1>4. PICK g \in [Nat -> T] :
         g[0] = start /\ \A n \in Nat : n # 0 => g[n] = step[g[n - 1]]
  <2> HIDE DEF T, start, step
  <2> QED BY <1>1, <1>3, Iteration
<1>5. ASSUME NEW n \in Nat, n # 0 PROVE g[n] = longer(g[n - 1])
  <2>1. n - 1 \in Nat
    BY <1>5
  <2>2. g[n - 1] \in T
    <3> HIDE DEF T
    <3> QED BY <2>1
  <2>3. step[g[n - 1]] = longer(g[n - 1])
    <3> HIDE DEF T, longer
    <3> QED BY <2>2
  <2> HIDE DEF step, longer
  <2> QED BY <1>4, <1>5, <2>3
<1> DEFINE g2 == [n \in Nat |-> [ci \in Items \cup {NULL} |->
                     IF n = 0 \/ ci = NULL THEN <<>>
                     ELSE <<ci>> \o g[n - 1][next[ci]]]]
<1>6. \A n \in Nat : g[n] = g2[n]
  <2> SUFFICES ASSUME NEW n \in Nat PROVE g[n] = g2[n]
    OBVIOUS
  <2>1. CASE n = 0
    BY <1>4, <2>1
  <2>2. CASE n # 0
    BY <1>5, <2>2
  <2> QED BY <2>1, <2>2
<1>7. Solves(g)
  <2>1. g = [n \in Nat |-> g[n]]
    OBVIOUS
  <2>2. g2 = [n \in Nat |-> g2[n]]
    OBVIOUS
  <2> HIDE DEF g2
  <2>3. g = g2
    BY <1>6, <2>1, <2>2
  <2> QED BY <2>3 DEF g2
<1> QED BY <1>7

\* Each step of the walk.
LEMMA WalkSteps ==
    ASSUME list.next \in [Items -> Items \cup {NULL}]
    PROVE  \A n \in Nat, ci \in Items \cup {NULL} :
              walk[n][ci] = IF n = 0 \/ ci = NULL THEN <<>>
                            ELSE <<ci>> \o walk[n - 1][list.next[ci]]
<1>1. walk = [n \in Nat |-> [ci \in Items \cup {NULL} |->
                 IF n = 0 \/ ci = NULL THEN <<>>
                 ELSE <<ci>> \o walk[n - 1][list.next[ci]]]]
  BY WalkDefined DEF walk
<1> SUFFICES ASSUME NEW n \in Nat, NEW ci \in Items \cup {NULL}
             PROVE  walk[n][ci] = IF n = 0 \/ ci = NULL THEN <<>>
                                  ELSE <<ci>> \o walk[n - 1][list.next[ci]]
  OBVIOUS
<1> DEFINE after == [x \in Items \cup {NULL} |->
                       IF n = 0 \/ x = NULL THEN <<>>
                       ELSE <<x>> \o walk[n - 1][list.next[x]]]
<1>2. walk[n] = after
  BY <1>1, Zenon
<1> QED BY <1>2

\* What a queue holds from number k on.
LEMMA FromOn ==
    ASSUME NEW q \in Seq(Items), NEW k \in 1 .. Len(q) + 1
    PROVE  /\ SubSeq(q, k, Len(q)) \in Seq(Items)
           /\ Len(SubSeq(q, k, Len(q))) = Len(q) - k + 1
           /\ \A i \in 1 .. Len(q) - k + 1 : SubSeq(q, k, Len(q))[i] = q[k + i - 1]
<1>1. Len(q) \in Nat /\ \A i \in 1 .. Len(q) : q[i] \in Items
  OBVIOUS
<1>2. PICK n \in Nat : n = Len(q)
  BY <1>1
<1>3. PICK rest : rest = SubSeq(q, k, n)
  OBVIOUS
<1>4. k \in Int /\ n \in Int /\ k \in 1 .. n + 1 /\ \A i \in k .. n : q[i] \in Items
  BY <1>1, <1>2
<1>5. /\ rest \in Seq(Items) /\ Len(rest) = IF k <= n THEN n - k + 1 ELSE 0
      /\ \A i \in 1 .. n - k + 1 : rest[i] = q[k + i - 1]
  BY <1>3, <1>4, SubSeqProperties
<1>6. Len(rest) = n - k + 1
  BY <1>4, <1>5
<1> QED BY <1>2, <1>3, <1>5, <1>6

\* From item number k of the list, a walk that is long enough gives what the
\* queue holds from there on.
LEMMA WalkFollowsQueue ==
    ASSUME NEW q \in Seq(Items), ListType(list), Represents(list, q)
    PROVE  \A n \in Nat : Len(q) <= n => walk[n][list.head] = q
<1> DEFINE at(k) == IF k = Len(q) + 1 THEN NULL ELSE q[k]
           Follows(n) == \A k \in 1 .. Len(q) + 1 :
                            Len(q) + 1 - k <= n => walk[n][at(k)] = SubSeq(q, k, Len(q))
           Bad == {n \in Nat : ~Follows(n)}
<1>0. Len(q) \in Nat /\ \A k \in 1 .. Len(q) : q[k] \in Items
  OBVIOUS
<1>1. NULL \notin Items /\ list.next \in [Items -> Items \cup {NULL}]
  BY CacheQueueAssumption DEF ListType
<1>2. \A k \in 1 .. Len(q) : list.next[q[k]] = at(k + 1)
  BY <1>0 DEF Represents
<1>3. \A n \in Nat, ci \in Items \cup {NULL} :
         walk[n][ci] = IF n = 0 \/ ci = NULL THEN <<>>
                       ELSE <<ci>> \o walk[n - 1][list.next[ci]]
  BY <1>1, WalkSteps
<1>4. \A n \in Nat : walk[n][NULL] = <<>>
  BY <1>3
<1>5. Bad = {}
  <2> SUFFICES ASSUME Bad # {} PROVE FALSE
    OBVIOUS
  <2>1. PICK n \in Bad : \A m \in Bad : n <= m
    <3>1. Bad \in SUBSET Nat  OBVIOUS
    <3> HIDE DEF Bad
    <3> QED BY <3>1, Least
  <2>2. PICK k \in 1 .. Len(q) + 1 :
           Len(q) + 1 - k <= n /\ walk[n][at(k)] # SubSeq(q, k, Len(q))
    BY <2>1
  <2>3. n \in Nat
    BY <2>1
  <2>4. k \in 1 .. Len(q) /\ n # 0 /\ n - 1 \in Nat
    <3>1. SubSeq(q, Len(q) + 1, Len(q)) = <<>>
      BY <1>0
    <3>2. k # Len(q) + 1
      BY <1>4, <2>2, <2>3, <3>1
    <3>3. k \in 1 .. Len(q)
      BY <1>0, <3>2
    <3>4. Len(q) + 1 - k <= n
      BY <2>2
    <3> QED BY <1>0, <2>3, <3>3, <3>4
  <2>5. n - 1 \notin Bad
    <3> HIDE DEF Bad
    <3> QED BY <2>1, <2>3, <2>4
  <2>6. k + 1 \in 1 .. Len(q) + 1 /\ Len(q) + 1 - (k + 1) <= n - 1
    BY <1>0, <2>2, <2>3, <2>4
  <2>7. walk[n - 1][at(k + 1)] = SubSeq(q, k + 1, Len(q))
    <3>1. Follows(n - 1)
      BY <2>4, <2>5
    <3> QED BY <2>6, <3>1
  <2>8. at(k) = q[k] /\ q[k] \in Items /\ q[k] # NULL
    BY <1>0, <1>1, <2>4
  <2>9. walk[n][at(k)] = <<q[k]>> \o SubSeq(q, k + 1, Len(q))
    <3>1. list.next[q[k]] = at(k + 1)
      BY <1>2, <2>4
    <3> HIDE DEF at
    <3>2. walk[n][q[k]] = <<q[k]>> \o walk[n - 1][list.next[q[k]]]
      BY <1>3, <2>3, <2>4, <2>8
    <3> QED BY <2>7, <2>8, <3>1, <3>2
  <2>10. SubSeq(q, k, Len(q)) = <<q[k]>> \o SubSeq(q, k + 1, Len(q))
    <3> DEFINE rest == SubSeq(q, k + 1, Len(q))
    <3> HIDE DEF rest
    <3>1. rest \in Seq(Items) /\ Len(rest) = Len(q) - k
          /\ \A i \in 1 .. Len(q) - k : rest[i] = q[k + i]
      <4>1. /\ k + 1 \in 1 .. Len(q) + 1 /\ Len(q) - (k + 1) + 1 = Len(q) - k
            /\ \A i \in 1 .. Len(q) - k : (k + 1) + i - 1 = k + i
        BY <1>0, <2>4
      <4>2. /\ rest \in Seq(Items) /\ Len(rest) = Len(q) - (k + 1) + 1
            /\ \A i \in 1 .. Len(q) - (k + 1) + 1 : rest[i] = q[(k + 1) + i - 1]
        BY <4>1, FromOn DEF rest
      <4> QED BY <4>1, <4>2
    <3>2. SubSeq(q, k, Len(q)) \in Seq(Items) /\ Len(SubSeq(q, k, Len(q))) = Len(q) - k + 1
          /\ \A i \in 1 .. Len(q) - k + 1 : SubSeq(q, k, Len(q))[i] = q[k + i - 1]
      BY FromOn
    <3>0. <<q[k]>> \in Seq(Items) /\ Len(<<q[k]>>) = 1 /\ <<q[k]>>[1] = q[k]
      BY <2>8
    <3>3. <<q[k]>> \o rest \in Seq(Items) /\ Len(<<q[k]>> \o rest) = Len(q) - k + 1
      <4>1. <<q[k]>> \o rest \in Seq(Items) /\ Len(<<q[k]>> \o rest) = 1 + Len(rest)
        BY <3>0, <3>1, ConcatProperties
      <4> QED BY <1>0, <2>4, <3>1, <4>1
    <3>4. ASSUME NEW i \in 1 .. Len(q) - k + 1
          PROVE  (<<q[k]>> \o rest)[i] = q[k + i - 1]
      <4>1. CASE i = 1
        BY <3>0, <3>1, <4>1, <1>0
      <4>2. CASE i # 1
        <5>1. i - 1 \in 1 .. Len(q) - k
          BY <1>0, <2>4, <4>2
        <5>2. (<<q[k]>> \o rest)[i] = rest[i - 1]
          BY <1>0, <2>4, <3>0, <3>1, <5>1
        <5> QED BY <3>1, <5>1, <5>2, <1>0, <2>4
      <4> QED BY <4>1, <4>2
    <3>5. \A i \in 1 .. Len(q) - k + 1 : SubSeq(q, k, Len(q))[i] = (<<q[k]>> \o rest)[i]
      BY <3>2, <3>4
    <3>6. SubSeq(q, k, Len(q)) = <<q[k]>> \o rest
      BY <3>2, <3>3, <3>5, SeqEqual
    <3> QED BY <3>6 DEF rest
  <2> QED BY <2>2, <2>9, <2>10
<1>6. at(1) = list.head /\ SubSeq(q, 1, Len(q)) = q
  BY <1>0 DEF Represents
<1>7. ASSUME NEW n \in Nat, Len(q) <= n PROVE walk[n][list.head] = q
  <2>1. Follows(n)
    BY <1>5
  <2>2. 1 \in 1 .. Len(q) + 1 /\ Len(q) + 1 - 1 <= n
    BY <1>0, <1>7
  <2> QED BY <1>6, <2>1, <2>2
<1> QED BY <1>7

\* QUEUE prints every queued item exactly once and in the order of writing, and
\* its walk along next ends at NULL after stats_queue_length items.
THEOREM QueuePrinted == Spec => []QueueCommandShowsOrder
<1>1. IInv => QueueCommandShowsOrder
  <2> SUFFICES ASSUME IInv PROVE QueueCommandShowsOrder
    OBVIOUS
  <2>1. order \in Seq(Items) /\ ListType(list) /\ Represents(list, order)
    BY DEF IInv, ListRepresents
  <2>2. list.length = Len(order) /\ Len(order) \in Nat
    BY <2>1 DEF Represents
  <2> QED BY <2>1, <2>2, WalkFollowsQueue DEF QueueCommandShowsOrder
<1> QED BY <1>1, Inductive, PTL

\* The linked list implements the abstract queue.
THEOREM Implementation == Spec => ImplementsWriteQueue
<1> DEFINE ready == {ci \in Items : values_num[ci] > 0}
<1>1. Init => WQ!Init
  BY DEF Init, WQ!Init
<1>2. IInv /\ [Next]_vars => [WQ!Next]_(WQ!wqvars)
  <2> SUFFICES ASSUME IInv, [Next]_vars PROVE WQ!Next \/ UNCHANGED <<order, ready>>
    BY DEF WQ!wqvars
  <2>0. order \in Seq(Items) /\ ListType(list) /\ Represents(list, order)
        /\ values_num \in [Items -> Nat]
    BY DEF IInv, ListRepresents
  <2>1. ASSUME NEW ci \in Items, Insert(ci) PROVE UNCHANGED <<order, ready>>
    BY <2>1 DEF Insert
  <2>2. ASSUME NEW ci \in Items, NEW due \in BOOLEAN, Update(ci, due)
        PROVE  WQ!Submit(ci)
    <3>1. ready' = ready \cup {ci}
      BY <2>0, <2>2 DEF Update
    <3> QED BY <2>2, <3>1 DEF Update, WQ!Submit
  <2>3. ASSUME NEW ci \in Items, FlushOld(ci) PROVE WQ!PutAtTail(ci)
    BY <2>3 DEF FlushOld, WQ!PutAtTail
  <2>4. ASSUME NEW ci \in Items, Flush(ci) PROVE WQ!PutAtHead(ci)
    BY <2>4 DEF Flush, WQ!PutAtHead
  <2>5. ASSUME NEW ci \in Items, Free(ci) \/ Wrote(ci) PROVE WQ!Discard(ci)
    <3>1. ready' = ready \ {ci} /\ order' = WQ!Without(order, ci)
      BY <2>0, <2>5 DEF Free, Wrote
    <3> QED BY <3>1 DEF WQ!Discard
  <2>6. ASSUME Take PROVE WQ!Take
    <3>1. order # <<>> /\ list.head = Head(order) /\ list.head \in list.queued
      BY <2>0, <2>6, TakeRepresents DEF Take
    <3>2. ready' = ready \ {list.head}
      BY <2>0, <2>6, <3>1 DEF Take, ListType
    <3> QED BY <2>6, <3>1, <3>2 DEF Take, WQ!Take
  <2>7. CASE UNCHANGED vars
    BY <2>7 DEF vars
  <2> QED
    BY <2>1, <2>2, <2>3, <2>4, <2>5, <2>6, <2>7 DEF Next, WQ!Next
<1> QED
  BY <1>1, <1>2, Inductive, PTL DEF Spec, ImplementsWriteQueue, WQ!Spec
===============================================================================
