-------------------------- MODULE CheckQueue_proofs --------------------------
(***************************************************************************)
(* Proofs about CheckQueue for every set of tasks, every waiting time and  *)
(* page size and every bound: the inductive invariant IInv, and from it    *)
(* that the queue stays in order and that pages of results fit together.   *)
(***************************************************************************)
EXTENDS CheckQueue, SequenceTheorems, FiniteSetTheorems, TLAPS

----------------------------------------------------------------------------
(* Queues.                                                                 *)

Once(q) == \A i, j \in 1..Len(q) : q[i] = q[j] => i = j

Ordered(q, time) == \A i, j \in 1..Len(q) : i < j => time[q[i]] <= time[q[j]]

\* A set of numbers that is bounded, and not empty, has a greatest one.
LEMMA Greatest ==
    ASSUME NEW n \in Nat, NEW S \in SUBSET (1..n), S # {}
    PROVE  \E i \in S : \A j \in S : j <= i
  <1> DEFINE R == OpToRel(<, Nat)
             T == {n - i : i \in S}
  <1>1. T \subseteq Nat /\ T # {}
    <2>1. \A i \in S : i \in 1..n
      OBVIOUS
    <2>2. \A i \in S : n - i \in Nat
      BY <2>1
    <2> QED
      BY <2>2
  <1>2. PICK x \in T : \A y \in T : ~ (<<y, x>> \in R)
    BY <1>1, NatLessThanWellFounded, WFMin
  <1>3. \A y \in T : x <= y
    <2>1. R = {ss \in Nat \X Nat : ss[1] < ss[2]}
      BY DEF OpToRel
    <2> HIDE DEF R
    <2>2. \A a, b \in Nat : a < b => <<a, b>> \in R
      BY <2>1
    <2> HIDE DEF T
    <2>3. \A y \in T : ~ (y < x)
      BY <1>1, <1>2, <2>2
    <2> QED
      BY <1>1, <2>3
  <1>4. PICK i \in S : x = n - i
    OBVIOUS
  <1>5. ASSUME NEW j \in S PROVE j <= i
    <2>1. n - j \in T
      OBVIOUS
    <2> HIDE DEF T
    <2>2. n - i <= n - j
      BY <1>3, <1>4, <2>1
    <2> QED
      BY <2>2
  <1> QED
    BY <1>5

\* Unlinking a task leaves the others as they were (del_item).
LEMMA WithoutAt ==
    ASSUME NEW S, NEW q \in Seq(S), NEW t \in Range(q)
    PROVE  \E p \in 1..Len(q) :
              /\ q[p] = t
              /\ Without(q, t) \in Seq(S)
              /\ Len(Without(q, t)) = Len(q) - 1
              /\ \A i \in 1..Len(q) - 1 : Without(q, t)[i] = IF i < p THEN q[i] ELSE q[i + 1]
  <1> DEFINE p == CHOOSE i \in DOMAIN q : q[i] = t
             a == SubSeq(q, 1, p - 1)
             b == SubSeq(q, p + 1, Len(q))
  <1>1. Len(q) \in Nat /\ DOMAIN q = 1..Len(q) /\ \A i \in 1..Len(q) : q[i] \in S
    BY LenProperties, ElementOfSeq
  <1>2. p \in 1..Len(q) /\ q[p] = t
    BY <1>1 DEF Range
  <1>3. Without(q, t) = a \o b
    BY DEF Without, RemoveAt
  <1> HIDE DEF p
  <1>4. /\ a \in Seq(S) /\ Len(a) = p - 1
        /\ \A i \in 1..p - 1 : a[i] = q[i]
    BY <1>1, <1>2, SubSeqProperties
  <1>5. /\ b \in Seq(S) /\ Len(b) = Len(q) - p
        /\ \A i \in 1..Len(q) - p : b[i] = q[p + i]
    <2>1. p + 1 \in Int /\ Len(q) \in Int /\ \A i \in p + 1..Len(q) : q[i] \in S
      BY <1>1, <1>2
    <2>2. /\ b \in Seq(S)
          /\ Len(b) = IF p + 1 <= Len(q) THEN Len(q) - (p + 1) + 1 ELSE 0
          /\ \A i \in 1..Len(q) - (p + 1) + 1 : b[i] = q[(p + 1) + i - 1]
      BY <2>1, SubSeqProperties
    <2> HIDE DEF b
    <2>3. \A i \in 1..Len(q) - p : b[i] = q[(p + 1) + i - 1] /\ (p + 1) + i - 1 = p + i
      <3>1. p \in Nat /\ Len(q) \in Nat
        BY <1>1, <1>2
      <3> SUFFICES ASSUME NEW i \in 1..Len(q) - p
                   PROVE  b[i] = q[(p + 1) + i - 1] /\ (p + 1) + i - 1 = p + i
        OBVIOUS
      <3>2. i \in 1..Len(q) - (p + 1) + 1 /\ (p + 1) + i - 1 = p + i
        BY <3>1
      <3>3. b[i] = q[(p + 1) + i - 1]
        BY <2>2, <3>2
      <3> QED
        BY <3>2, <3>3
    <2>4. Len(b) = Len(q) - p
      <3>1. p \in Nat /\ Len(q) \in Nat /\ p <= Len(q)
        BY <1>1, <1>2
      <3>2. Len(b) = IF p + 1 <= Len(q) THEN Len(q) - (p + 1) + 1 ELSE 0
        BY <2>2
      <3> QED
        BY <3>1, <3>2
    <2> QED
      BY <2>2, <2>3, <2>4
  <1> HIDE DEF a, b
  <1>6. /\ a \o b \in Seq(S) /\ Len(a \o b) = Len(q) - 1
        /\ \A i \in 1..Len(q) - 1 : (a \o b)[i] = IF i <= p - 1 THEN a[i] ELSE b[i - (p - 1)]
    <2>1. /\ a \o b \in Seq(S) /\ Len(a \o b) = Len(a) + Len(b)
          /\ \A i \in 1..Len(a) + Len(b) :
                (a \o b)[i] = IF i <= Len(a) THEN a[i] ELSE b[i - Len(a)]
      BY <1>4, <1>5, ConcatProperties
    <2>2. Len(a) = p - 1 /\ Len(a) + Len(b) = Len(q) - 1
      BY <1>1, <1>2, <1>4, <1>5
    <2> QED
      BY <2>1, <2>2
  <1>7. ASSUME NEW i \in 1..Len(q) - 1
        PROVE  (a \o b)[i] = IF i < p THEN q[i] ELSE q[i + 1]
    <2>1. CASE i < p
      BY <1>1, <1>2, <1>4, <1>6, <2>1
    <2>2. CASE ~ (i < p)
      <3>1. i - (p - 1) \in 1..Len(q) - p /\ p + (i - (p - 1)) = i + 1
        BY <1>1, <1>2, <2>2
      <3>2. (a \o b)[i] = b[i - (p - 1)]
        BY <1>1, <1>2, <1>6, <2>2
      <3> QED
        BY <1>5, <2>2, <3>1, <3>2
    <2> QED
      BY <2>1, <2>2
  <1> QED
    BY <1>2, <1>3, <1>6, <1>7

LEMMA WithoutKeeps ==
    ASSUME NEW S, NEW q \in Seq(S), Once(q), NEW t \in Range(q)
    PROVE  /\ Without(q, t) \in Seq(S) /\ Once(Without(q, t))
           /\ Range(Without(q, t)) = Range(q) \ {t}
           /\ \A time : Ordered(q, time) => Ordered(Without(q, t), time)
  <1> DEFINE w == Without(q, t)
  <1>1. PICK p \in 1..Len(q) :
              /\ q[p] = t
              /\ w \in Seq(S)
              /\ Len(w) = Len(q) - 1
              /\ \A i \in 1..Len(q) - 1 : w[i] = IF i < p THEN q[i] ELSE q[i + 1]
    BY WithoutAt
  <1> HIDE DEF w
  <1>2. Len(q) \in Nat
    BY LenProperties
  <1> DEFINE at(i) == IF i < p THEN i ELSE i + 1
  <1>3. \A i \in 1..Len(w) : at(i) \in 1..Len(q) /\ at(i) # p /\ w[i] = q[at(i)]
    BY <1>1, <1>2
  <1>4. \A i, j \in 1..Len(w) : /\ i < j => at(i) < at(j)
                                /\ at(i) = at(j) => i = j
    BY <1>1, <1>2
  <1>5. \A k \in 1..Len(q) : k # p => \E i \in 1..Len(w) : k = at(i)
    <2> SUFFICES ASSUME NEW k \in 1..Len(q), k # p
                 PROVE  \E i \in 1..Len(w) : k = at(i)
      OBVIOUS
    <2>1. CASE k < p
      <3>1. k \in 1..Len(w) /\ k = at(k)
        BY <1>1, <1>2, <2>1
      <3> QED
        BY <3>1
    <2>2. CASE k > p
      <3>1. k - 1 \in 1..Len(w) /\ k = at(k - 1)
        BY <1>1, <1>2, <2>2
      <3> QED
        BY <3>1
    <2> QED
      BY <1>2, <2>1, <2>2
  <1> HIDE DEF at
  <1>6. Once(w)
    BY <1>3, <1>4 DEF Once
  <1>7. ASSUME NEW time, Ordered(q, time) PROVE Ordered(w, time)
    BY <1>3, <1>4, <1>7 DEF Ordered
  <1>8. Range(w) = Range(q) \ {t}
    <2>1. Range(w) = {w[i] : i \in 1..Len(w)} /\ Range(q) = {q[i] : i \in 1..Len(q)}
      BY <1>1, RangeEquality
    <2>2. \A i \in 1..Len(q) : q[i] = t <=> i = p
      BY <1>1 DEF Once
    <2>3. \A i \in 1..Len(w) : w[i] \in Range(q) /\ w[i] # t
      BY <1>3, <2>1, <2>2
    <2>4. ASSUME NEW x \in Range(q), x # t PROVE x \in Range(w)
      <3>1. PICK k \in 1..Len(q) : x = q[k]
        BY <2>1
      <3>2. PICK i \in 1..Len(w) : k = at(i)
        BY <1>5, <2>2, <2>4, <3>1
      <3> QED
        BY <1>3, <2>1, <3>1, <3>2
    <2> QED
      BY <2>1, <2>3, <2>4
  <1> QED
    BY <1>1, <1>6, <1>7, <1>8 DEF w

\* Inserting an element behind position p leaves the others in their order.
LEMMA InsertBehind ==
    ASSUME NEW S, NEW q \in Seq(S), NEW t \in S, NEW p \in 0..Len(q)
    PROVE  LET w == InsertAt(q, p + 1, t)
           IN  /\ w \in Seq(S) /\ Len(w) = Len(q) + 1 /\ w[p + 1] = t
               /\ \A i \in 1..Len(q) + 1 :
                     w[i] = IF i <= p THEN q[i] ELSE IF i = p + 1 THEN t ELSE q[i - 1]
  <1> DEFINE a == SubSeq(q, 1, p)
             b == SubSeq(q, p + 1, Len(q))
             c == a \o <<t>>
             w == InsertAt(q, p + 1, t)
             n == Len(q)
  <1>1. n \in Nat /\ \A i \in 1..n : q[i] \in S
    BY LenProperties, ElementOfSeq
  <1>2. w = c \o b
    <2>1. (p + 1) - 1 = p
      BY <1>1
    <2> QED
      BY <2>1 DEF InsertAt
  <1>3. /\ a \in Seq(S) /\ Len(a) = p
        /\ \A i \in 1..p : a[i] = q[i]
    BY <1>1, SubSeqProperties
  <1>4. /\ b \in Seq(S) /\ Len(b) = n - p
        /\ \A i \in 1..n - p : b[i] = q[p + i]
    BY <1>1, SubSeqProperties
  <1>5. <<t>> \in Seq(S) /\ Len(<<t>>) = 1 /\ <<t>>[1] = t
    OBVIOUS
  <1> HIDE DEF a, b, w, n
  <1>6. /\ c \in Seq(S) /\ Len(c) = p + 1
        /\ \A i \in 1..p + 1 : c[i] = IF i <= p THEN a[i] ELSE <<t>>[i - p]
    BY <1>3, <1>5, ConcatProperties
  <1> HIDE DEF c
  <1>7. /\ w \in Seq(S) /\ Len(w) = p + 1 + (n - p)
        /\ \A i \in 1..p + 1 + (n - p) :
              w[i] = IF i <= p + 1 THEN c[i] ELSE b[i - (p + 1)]
    <2>1. /\ w \in Seq(S) /\ Len(w) = Len(c) + Len(b)
          /\ \A i \in 1..Len(c) + Len(b) :
                w[i] = IF i <= Len(c) THEN c[i] ELSE b[i - Len(c)]
      BY <1>2, <1>4, <1>6, ConcatProperties
    <2> QED
      BY <1>4, <1>6, <2>1
  <1>8. p \in 0..n /\ p + 1 + (n - p) = n + 1
    BY <1>1 DEF n
  <1>9. ASSUME NEW i \in 1..n + 1
        PROVE  w[i] = IF i <= p THEN q[i] ELSE IF i = p + 1 THEN t ELSE q[i - 1]
    <2>1. CASE i <= p
      BY <1>1, <1>3, <1>6, <1>7, <1>8, <2>1
    <2>2. CASE i = p + 1
      BY <1>1, <1>5, <1>6, <1>7, <1>8, <2>2
    <2>3. CASE i > p + 1
      <3>1. i - (p + 1) \in 1..n - p /\ p + (i - (p + 1)) = i - 1
        BY <1>1, <1>8, <2>3
      <3>2. w[i] = b[i - (p + 1)]
        BY <1>1, <1>7, <1>8, <2>3
      <3> QED
        BY <1>1, <1>4, <1>8, <2>3, <3>1, <3>2
    <2> QED
      BY <1>8, <2>1, <2>2, <2>3
  <1>10. w[p + 1] = t
    BY <1>1, <1>8, <1>9
  <1> QED
    BY <1>1, <1>7, <1>8, <1>9, <1>10 DEF w, n

\* A task is put behind all that are due no later, and before all others: the
\* queue stays in order (push_back).
LEMMA PushBackKeeps ==
    ASSUME NEW S, NEW q \in Seq(S), NEW t \in S, t \notin Range(q), Once(q),
           NEW time \in [S -> Int], Ordered(q, time)
    PROVE  /\ PushBack(q, t, time) \in Seq(S) /\ Once(PushBack(q, t, time))
           /\ Range(PushBack(q, t, time)) = Range(q) \cup {t}
           /\ Ordered(PushBack(q, t, time), time)
  <1> DEFINE n == Len(q)
             before == {i \in DOMAIN q : time[q[i]] <= time[t]}
             p == IF before = {} THEN 0 ELSE CHOOSE i \in before : \A j \in before : j <= i
             w == InsertAt(q, p + 1, t)
  <1>1. n \in Nat /\ DOMAIN q = 1..n /\ \A i \in 1..n : q[i] \in S /\ time[q[i]] \in Int
    BY LenProperties, ElementOfSeq
  <1>2. PushBack(q, t, time) = w
    BY DEF PushBack
  <1>3. /\ p \in 0..n
        /\ \A i \in 1..p : time[q[i]] <= time[t]
        /\ \A i \in p + 1..n : time[t] <= time[q[i]]
    <2>1. CASE before = {}
      BY <1>1, <2>1
    <2>2. CASE before # {}
      <3>1. before \in SUBSET (1..n)
        BY <1>1
      <3>2. \E i \in before : \A j \in before : j <= i
        BY <1>1, <2>2, <3>1, Greatest
      <3>3. p \in before /\ \A j \in before : j <= p
        BY <2>2, <3>2
      <3>4. p \in 1..n /\ time[q[p]] <= time[t]
        BY <1>1, <3>3
      <3>5. \A i \in 1..n : i \in before <=> time[q[i]] <= time[t]
        BY <1>1
      <3> HIDE DEF p, before
      <3>6. ASSUME NEW i \in 1..p PROVE time[q[i]] <= time[t]
        <4>1. i \in 1..n /\ (i < p \/ i = p)
          BY <1>1, <3>4
        <4>2. time[q[i]] <= time[q[p]]
          BY <1>1, <3>4, <4>1 DEF Ordered
        <4> QED
          BY <1>1, <3>4, <4>1, <4>2
      <3>7. ASSUME NEW i \in p + 1..n PROVE time[t] <= time[q[i]]
        <4>1. i \in 1..n /\ ~ (i <= p)
          BY <1>1, <3>4
        <4> QED
          BY <1>1, <3>3, <3>5, <4>1
      <3> QED
        BY <1>1, <3>4, <3>6, <3>7
    <2> QED
      BY <2>1, <2>2
  <1> HIDE DEF p
  <1>4. /\ w \in Seq(S) /\ Len(w) = n + 1 /\ w[p + 1] = t
        /\ \A i \in 1..n + 1 :
              w[i] = IF i <= p THEN q[i] ELSE IF i = p + 1 THEN t ELSE q[i - 1]
    BY <1>3, InsertBehind
  <1> HIDE DEF w, before
  <1>5. \A i \in 1..n : q[i] # t
    <2>1. Range(q) = {q[i] : i \in 1..n}
      BY RangeEquality
    <2> QED
      BY <2>1
  <1> HIDE DEF n
  <1>6. \A i \in 1..n + 1 :
            \/ i <= p /\ i \in 1..n /\ w[i] = q[i]
            \/ i = p + 1 /\ w[i] = t
            \/ i > p + 1 /\ i - 1 \in 1..n /\ i - 1 \in p + 1..n /\ w[i] = q[i - 1]
    <2> SUFFICES ASSUME NEW i \in 1..n + 1
                 PROVE  \/ i <= p /\ i \in 1..n /\ w[i] = q[i]
                        \/ i = p + 1 /\ w[i] = t
                        \/ i > p + 1 /\ i - 1 \in 1..n /\ i - 1 \in p + 1..n /\ w[i] = q[i - 1]
      OBVIOUS
    <2>1. n \in Nat /\ p \in Nat /\ p <= n /\ i \in Nat /\ i >= 1 /\ i <= n + 1
      BY <1>1, <1>3
    <2>2. w[i] = IF i <= p THEN q[i] ELSE IF i = p + 1 THEN t ELSE q[i - 1]
      BY <1>4
    <2>3. CASE i <= p
      BY <2>1, <2>2, <2>3
    <2>4. CASE i = p + 1
      BY <2>1, <2>2, <2>4
    <2>5. CASE i > p + 1
      <3>1. i - 1 \in 1..n /\ i - 1 \in p + 1..n /\ ~ (i <= p) /\ i # p + 1
        BY <2>1, <2>5
      <3> QED
        BY <2>2, <2>5, <3>1
    <2> QED
      BY <2>1, <2>3, <2>4, <2>5
  <1>7. Once(w)
    <2> SUFFICES ASSUME NEW i \in 1..n + 1, NEW j \in 1..n + 1, w[i] = w[j]
                 PROVE  i = j
      BY <1>4 DEF Once
    <2>1. \A k, l \in 1..n : q[k] = q[l] => k = l
      BY DEF Once, n
    <2>2. CASE i = p + 1 \/ j = p + 1
      <3>1. ASSUME NEW k \in 1..n + 1, k # p + 1 PROVE w[k] # t
        BY <1>5, <1>6, <3>1
      <3>2. w[p + 1] = t
        BY <1>4
      <3> QED
        BY <2>2, <3>1, <3>2
    <2>3. CASE i # p + 1 /\ j # p + 1
      BY <1>1, <1>3, <1>4, <1>6, <2>1, <2>3
    <2> QED
      BY <2>2, <2>3
  <1>8. Ordered(w, time)
    <2> SUFFICES ASSUME NEW i \in 1..n + 1, NEW j \in 1..n + 1, i < j
                 PROVE  time[w[i]] <= time[w[j]]
      BY <1>4 DEF Ordered
    <2>1. \A k, l \in 1..n : k < l => time[q[k]] <= time[q[l]]
      BY DEF Ordered, n
    <2>2. CASE i = p + 1
      <3>1. w[i] = t /\ w[j] = q[j - 1] /\ j - 1 \in p + 1..n
        BY <1>1, <1>3, <1>4, <1>6, <2>2
      <3> QED
        BY <1>3, <3>1
    <2>3. CASE j = p + 1
      <3>1. w[j] = t /\ w[i] = q[i] /\ i \in 1..p
        BY <1>1, <1>3, <1>4, <1>6, <2>3
      <3> QED
        BY <1>3, <3>1
    <2>4. CASE i # p + 1 /\ j # p + 1
      <3>1. CASE j <= p
        <4>1. w[i] = q[i] /\ w[j] = q[j] /\ i \in 1..n /\ j \in 1..n
          <5>1. p \in Int /\ i \in Int /\ j \in Int /\ i <= p /\ j <= p
            BY <1>1, <1>3, <3>1
          <5>2. i # p + 1 /\ ~ (i > p + 1) /\ j # p + 1 /\ ~ (j > p + 1)
            BY <5>1
          <5> QED
            BY <1>6, <5>2
        <4> QED
          BY <2>1, <4>1
      <3>2. CASE i > p + 1
        <4>1. /\ w[i] = q[i - 1] /\ w[j] = q[j - 1] /\ i - 1 \in 1..n /\ j - 1 \in 1..n
              /\ i - 1 < j - 1
          BY <1>1, <1>3, <1>6, <3>2
        <4> QED
          BY <2>1, <4>1
      <3>3. CASE i <= p /\ j > p + 1
        <4>1. w[i] = q[i] /\ w[j] = q[j - 1] /\ i \in 1..n /\ j - 1 \in 1..n /\ i < j - 1
          BY <1>1, <1>3, <1>4, <1>6, <3>3
        <4> QED
          BY <2>1, <4>1
      <3> QED
        <4>1. i \in Int /\ j \in Int /\ p \in Int
          BY <1>1, <1>3
        <4> QED
          BY <2>4, <3>1, <3>2, <3>3, <4>1
    <2> QED
      BY <2>2, <2>3, <2>4
  <1>9. Range(w) = Range(q) \cup {t}
    <2>1. Range(w) = {w[i] : i \in 1..n + 1}
      BY <1>4, RangeEquality
    <2>2. Range(q) = {q[i] : i \in 1..n}
      BY RangeEquality DEF n
    <2>3. ASSUME NEW x \in Range(w) PROVE x \in Range(q) \cup {t}
      <3>1. PICK i \in 1..n + 1 : x = w[i]
        BY <2>1
      <3> QED
        BY <1>1, <1>3, <1>4, <1>6, <2>2, <3>1
    <2>4. t \in Range(w)
      <3>1. p + 1 \in 1..n + 1
        BY <1>1, <1>3
      <3> QED
        BY <1>4, <2>1, <3>1
    <2>5. ASSUME NEW x \in Range(q) PROVE x \in Range(w)
      <3>1. PICK i \in 1..n : x = q[i]
        BY <2>2
      <3>2. CASE i <= p
        <4>1. i \in 1..n + 1 /\ w[i] = x
          BY <1>1, <1>3, <1>4, <3>1, <3>2
        <4> QED
          BY <2>1, <4>1
      <3>3. CASE i > p
        <4>1. i + 1 \in 1..n + 1 /\ w[i + 1] = q[(i + 1) - 1] /\ (i + 1) - 1 = i
          BY <1>1, <1>3, <1>4, <3>3
        <4> QED
          BY <2>1, <3>1, <4>1
      <3> QED
        BY <1>1, <1>3, <3>2, <3>3
    <2> QED
      BY <2>3, <2>4, <2>5
  <1> QED
    BY <1>2, <1>4, <1>7, <1>8, <1>9

----------------------------------------------------------------------------
(* Steps around the queue.                                                 *)

\* The parts of the invariant that speak of the queue, before and after a step.
LEMMA QueueDef == /\ NoTwice <=> Once(runq)
                  /\ NoTwice' <=> Once(runq')
                  /\ InTime <=> Ordered(runq, left)
                  /\ InTime' <=> Ordered(runq', left')
                  /\ Queued = Range(runq) /\ Queued' = Range(runq')
  BY DEF NoTwice, InTime, Queued, Once, Ordered

\* Times of tasks are numbers.
LEMMA TimeType ==
    ASSUME TypeOK
    PROVE  /\ left \in [Tasks -> {AtOnce} \cup 0..TaskWait] /\ left \in [Tasks -> Int]
           /\ runq \in Seq(Tasks) /\ Queued \subseteq Tasks
  <1>1. left \in [Tasks -> {AtOnce} \cup 0..TaskWait] /\ runq \in Seq(Tasks)
    BY DEF TypeOK
  <1>2. left \in [Tasks -> Int]
    BY <1>1 DEF AtOnce
  <1> QED
    BY <1>1, <1>2, RangeOfSeq DEF Queued

\* A queue in order stays so when the times change only of a task outside it.
LEMMA OthersTime ==
    ASSUME NEW S, NEW q \in Seq(S), NEW t, NEW time, NEW new,
           t \notin Range(q), \A s \in S : s # t => new[s] = time[s], Ordered(q, time)
    PROVE  Ordered(q, new)
  <1>1. \A i \in 1..Len(q) : q[i] \in S /\ q[i] # t
    BY ElementOfSeq, RangeEquality
  <1> QED
    BY <1>1 DEF Ordered

\* A time that a check is given fits.
LEMMA WaitType == \A wait \in 0..TaskWait : NextChkTime(wait) \in {AtOnce} \cup 0..TaskWait
  BY CheckQueueAssumption DEF NextChkTime

\* A new check time and the place that goes with it (reque_list).
LEMMA Requeued ==
    ASSUME TypeOK, NoTwice, InTime, NEW t \in Queued, NEW wait \in 0..TaskWait, Requeue(t, wait)
    PROVE  /\ left' \in [Tasks -> {AtOnce} \cup 0..TaskWait] /\ runq' \in Seq(Tasks)
           /\ NoTwice' /\ InTime' /\ Queued' = Queued
  <1> DEFINE w == Without(runq, t)
  <1>0. /\ runq \in Seq(Tasks) /\ t \in Tasks /\ Once(runq) /\ Ordered(runq, left)
        /\ t \in Range(runq)
        /\ left' = [left EXCEPT ![t] = NextChkTime(wait)] /\ runq' = PushBack(w, t, left')
    BY TimeType, QueueDef DEF Requeue
  <1>1. /\ left' \in [Tasks -> {AtOnce} \cup 0..TaskWait] /\ left' \in [Tasks -> Int]
        /\ \A s \in Tasks : s # t => left'[s] = left[s]
    <2>1. left' \in [Tasks -> {AtOnce} \cup 0..TaskWait]
      BY <1>0, TimeType, WaitType
    <2> QED
      BY <1>0, <2>1, TimeType DEF AtOnce
  <1>2. w \in Seq(Tasks) /\ Once(w) /\ Range(w) = Range(runq) \ {t} /\ Ordered(w, left)
    BY <1>0, WithoutKeeps
  <1> HIDE DEF w
  <1>3. Ordered(w, left')
    BY <1>1, <1>2, OthersTime
  <1>4. /\ runq' \in Seq(Tasks) /\ Once(runq') /\ Range(runq') = Range(w) \cup {t}
        /\ Ordered(runq', left')
    <2>1. t \notin Range(w) /\ t \in Tasks
      BY <1>0, <1>2
    <2>2. /\ PushBack(w, t, left') \in Seq(Tasks) /\ Once(PushBack(w, t, left'))
          /\ Range(PushBack(w, t, left')) = Range(w) \cup {t}
          /\ Ordered(PushBack(w, t, left'), left')
      BY <1>1, <1>2, <1>3, <2>1, PushBackKeeps
    <2> QED
      BY <1>0, <2>2
  <1> QED
    BY <1>0, <1>1, <1>2, <1>4, QueueDef

----------------------------------------------------------------------------
(* Steps around what was read.                                             *)

\* ReadSound and FetchSound for one task.
ReadOk(t) ==
    /\ chk[t] # "RESULT" => info[t] = NoInfo /\ late[t] = 0
    /\ t \notin Queued => chk[t] # "RESULT"
    /\ info[t].first = Len(info[t].read) + 1
    /\ Len(results[t]) <= MaxResults
    /\ chk[t] = "RESULT" => Len(info[t].read) <= Len(results[t])

FetchOk(t) ==
    late[t] = 0 /\ chk[t] = "RESULT" =>
        /\ IsPrefix(info[t].read, results[t])
        /\ info[t].total \in {Unknown, Len(results[t])}
        /\ info[t].done => info[t].read = results[t]

LEMMA SoundDef == /\ ReadSound <=> \A t \in Tasks : ReadOk(t)
                  /\ ReadSound' <=> \A t \in Tasks : ReadOk(t)'
                  /\ FetchSound <=> \A t \in Tasks : FetchOk(t)
                  /\ FetchSound' <=> \A t \in Tasks : FetchOk(t)'
  BY DEF ReadSound, FetchSound, ReadOk, FetchOk

\* Nothing read.
LEMMA Nothing ==
    /\ NoInfo \in InfoRec /\ NoInfo.read = <<>> /\ NoInfo.first = 1
    /\ NoInfo.total = Unknown /\ NoInfo.done = FALSE
    /\ Len(NoInfo.read) = 0
    /\ \A S : \A s \in Seq(S) : IsPrefix(NoInfo.read, s)
  <1>1. /\ NoInfo \in InfoRec /\ NoInfo.read = <<>> /\ NoInfo.first = 1
        /\ NoInfo.total = Unknown /\ NoInfo.done = FALSE
    BY EmptySeq DEF NoInfo, InfoRec
  <1>2. Len(<<>>) = 0
    BY EmptySeq
  <1>3. ASSUME NEW S, NEW s \in Seq(S)
        PROVE  IsPrefix(<<>>, s)
    <2>1. Len(s) \in Nat
      BY LenProperties
    <2>2. SubSeq(<<>>, 1, 0) = <<>> /\ SubSeq(s, 1, 0) = <<>>
      BY SubSeqEmpty
    <2> QED
      BY <1>2, <2>1, <2>2 DEF IsPrefix
  <1> QED
    BY <1>1, <1>2, <1>3

\* What is known of one task's results.
LEMMA TaskType ==
    ASSUME TypeOK, NEW t \in Tasks
    PROVE  /\ info[t] \in InfoRec /\ info[t].read \in Seq(Results) /\ info[t].first \in Nat
           /\ info[t].total \in {Unknown} \cup Nat /\ info[t].done \in BOOLEAN
           /\ Len(info[t].read) \in Nat
           /\ results[t] \in Seq(Results) /\ Len(results[t]) \in Nat
           /\ chk[t] \in ChkType /\ late[t] \in 0..MaxLate
  <1>1. /\ info[t] \in InfoRec /\ results[t] \in Seq(Results)
        /\ chk[t] \in ChkType /\ late[t] \in 0..MaxLate
    BY DEF TypeOK
  <1>2. /\ info[t].read \in Seq(Results) /\ info[t].first \in Nat
        /\ info[t].total \in {Unknown} \cup Nat /\ info[t].done \in BOOLEAN
    BY <1>1 DEF InfoRec
  <1> QED
    BY <1>1, <1>2, LenProperties

\* A step that moves tasks in the queue and reads nothing.
LEMMA QueueStep ==
    ASSUME IInv,
           left' \in [Tasks -> {AtOnce} \cup 0..TaskWait], runq' \in Seq(Tasks),
           NoTwice', InTime', Queued' = Queued,
           UNCHANGED <<chk, info, results, late>>,
           hurried' \in 0..MaxHurry, crashes' \in 0..MaxCrashes
    PROVE  IInv'
  <1>1. TypeOK'
    BY DEF IInv, TypeOK
  <1>2. ReadSound' /\ FetchSound'
    BY DEF IInv, ReadSound, FetchSound
  <1> QED
    BY <1>1, <1>2 DEF IInv

\* A step that changes what is known of one task.
LEMMA TaskStep ==
    ASSUME IInv, NEW t \in Tasks,
           left' \in [Tasks -> {AtOnce} \cup 0..TaskWait], runq' \in Seq(Tasks),
           NoTwice', InTime', \A s \in Tasks : s # t => (s \in Queued' <=> s \in Queued),
           chk' \in [Tasks -> ChkType], info' \in [Tasks -> InfoRec],
           results' \in [Tasks -> Seq(Results)], late' \in [Tasks -> 0..MaxLate],
           \A s \in Tasks : s # t => /\ chk'[s] = chk[s] /\ info'[s] = info[s]
                                     /\ results'[s] = results[s] /\ late'[s] = late[s],
           ReadOk(t)', FetchOk(t)',
           hurried' \in 0..MaxHurry, crashes' \in 0..MaxCrashes
    PROVE  IInv'
  <1>1. \A s \in Tasks : s # t => ReadOk(s)' /\ FetchOk(s)'
    <2> SUFFICES ASSUME NEW s \in Tasks, s # t PROVE ReadOk(s)' /\ FetchOk(s)'
      OBVIOUS
    <2>1. ReadOk(s) /\ FetchOk(s)
      BY SoundDef DEF IInv
    <2> QED
      BY <2>1 DEF ReadOk, FetchOk
  <1>2. ReadSound' /\ FetchSound'
    BY <1>1, SoundDef
  <1>3. \A s \in Tasks : Len(info'[s].read) <= MaxResults
    <2> SUFFICES ASSUME NEW s \in Tasks PROVE Len(info'[s].read) <= MaxResults
      OBVIOUS
    <2>1. /\ chk'[s] # "RESULT" => info'[s] = NoInfo
          /\ Len(results'[s]) <= MaxResults
          /\ chk'[s] = "RESULT" => Len(info'[s].read) <= Len(results'[s])
      BY <1>2 DEF ReadSound
    <2>2. Len(results'[s]) \in Nat /\ MaxResults \in Nat
      BY LenProperties, CheckQueueAssumption
    <2>3. info'[s].read \in Seq(Results)
      BY DEF InfoRec
    <2>4. Len(info'[s].read) \in Nat
      BY <2>3, LenProperties
    <2>5. CASE chk'[s] = "RESULT"
      BY <2>1, <2>2, <2>4, <2>5
    <2>6. CASE chk'[s] # "RESULT"
      BY <2>1, <2>2, <2>6, Nothing
    <2> QED
      BY <2>5, <2>6
  <1>4. TypeOK'
    BY <1>3 DEF TypeOK
  <1> QED
    BY <1>2, <1>4 DEF IInv

\* A task in whose check nothing is read has read nothing.
LEMMA NothingRead ==
    ASSUME NEW t \in Tasks, chk[t] # "RESULT", info[t] = NoInfo, late[t] = 0,
           Len(results[t]) <= MaxResults
    PROVE  ReadOk(t) /\ FetchOk(t)
  BY Nothing DEF ReadOk, FetchOk

\* The check at the head is of a task in the queue.
LEMMA DueQueued ==
    ASSUME TypeOK, NEW t \in Tasks, Due(t)
    PROVE  t \in Queued
  <1>1. runq \in Seq(Tasks) /\ runq # <<>> /\ Head(runq) = t
    BY DEF Due, TypeOK
  <1>2. Len(runq) \in Nat /\ Len(runq) # 0 /\ Head(runq) = runq[1]
    BY <1>1, EmptySeq, LenProperties
  <1>3. 1 \in 1..Len(runq)
    BY <1>2
  <1> QED
    BY <1>1, <1>2, <1>3, RangeEquality DEF Queued

\* Nothing is due or queued at first.
LEMMA InitIInv == Init => IInv
  <1> SUFFICES ASSUME Init PROVE IInv
    OBVIOUS
  <1> USE DEF Init
  <1>1. runq = <<>> /\ Len(runq) = 0 /\ runq \in Seq(Tasks) /\ <<>> \in Seq(Results)
        /\ Len(<<>>) = 0 /\ Queued = {}
    BY EmptySeq, RangeEquality DEF Queued, Range
  <1>2. TypeOK
    BY <1>1, Nothing, CheckQueueAssumption DEF TypeOK, ChkType, AtOnce
  <1>3. NoTwice /\ InTime
    BY <1>1 DEF NoTwice, InTime
  <1>4. ReadSound /\ FetchSound
    BY <1>1, Nothing, CheckQueueAssumption DEF ReadSound, FetchSound
  <1> QED
    BY <1>2, <1>3, <1>4 DEF IInv

\* What a step needs to know of the state before it.
LEMMA Before ==
    ASSUME IInv
    PROVE  /\ TypeOK /\ NoTwice /\ InTime
           /\ hurried \in 0..MaxHurry /\ crashes \in 0..MaxCrashes
           /\ chk \in [Tasks -> ChkType] /\ info \in [Tasks -> InfoRec]
           /\ results \in [Tasks -> Seq(Results)] /\ late \in [Tasks -> 0..MaxLate]
           /\ \A t \in Tasks : ReadOk(t) /\ FetchOk(t)
           /\ 0 \in 0..TaskWait /\ TaskWait \in 0..TaskWait
           /\ ReportWait \in 0..TaskWait /\ ResultWait \in 0..TaskWait
  <1>1. TypeOK /\ NoTwice /\ InTime /\ \A t \in Tasks : ReadOk(t) /\ FetchOk(t)
    BY SoundDef DEF IInv
  <1>2. /\ 0 \in 0..TaskWait /\ TaskWait \in 0..TaskWait
        /\ ReportWait \in 0..TaskWait /\ ResultWait \in 0..TaskWait
    BY CheckQueueAssumption
  <1> QED
    BY <1>1, <1>2 DEF TypeOK

\* A new task comes into the queue with nothing read (addTaskChecks).
LEMMA AddTaskIInv == ASSUME IInv, NEW t \in Tasks, AddTask(t) PROVE IInv'
  <1>0. t \notin Queued /\ UNCHANGED <<info, results, late, hurried, crashes>>
    BY DEF AddTask
  <1>1. /\ left' \in [Tasks -> {AtOnce} \cup 0..TaskWait] /\ left' \in [Tasks -> Int]
        /\ \A s \in Tasks : s # t => left'[s] = left[s]
    <2>1. NextChkTime(TaskWait) \in {AtOnce} \cup 0..TaskWait
      BY Before, WaitType
    <2>2. left' \in [Tasks -> {AtOnce} \cup 0..TaskWait]
      BY <2>1, Before, TimeType DEF AddTask
    <2> QED
      BY <2>2, Before, TimeType DEF AddTask, AtOnce
  <1>2. /\ runq \in Seq(Tasks) /\ Once(runq) /\ Ordered(runq, left) /\ t \notin Range(runq)
        /\ runq' = PushBack(runq, t, left')
    BY <1>0, Before, TimeType, QueueDef DEF AddTask
  <1>3. Ordered(runq, left')
    BY <1>1, <1>2, OthersTime
  <1>4. /\ runq' \in Seq(Tasks) /\ Once(runq') /\ Range(runq') = Range(runq) \cup {t}
        /\ Ordered(runq', left')
    BY <1>1, <1>2, <1>3, PushBackKeeps
  <1>5. /\ NoTwice' /\ InTime' /\ \A s \in Tasks : s # t => (s \in Queued' <=> s \in Queued)
    BY <1>4, QueueDef
  <1>6. /\ chk' \in [Tasks -> ChkType] /\ chk'[t] = "TASK"
        /\ \A s \in Tasks : s # t => chk'[s] = chk[s]
    BY Before DEF AddTask, ChkType
  <1>7. info[t] = NoInfo /\ late[t] = 0 /\ Len(results[t]) <= MaxResults
    BY <1>0, Before DEF ReadOk
  <1>8. ReadOk(t)' /\ FetchOk(t)'
    BY <1>0, <1>6, <1>7, Nothing DEF ReadOk, FetchOk
  <1> QED
    BY <1>0, <1>1, <1>4, <1>5, <1>6, <1>8, Before, TaskStep

\* A task that is gone leaves nothing behind (delGvmTask).
LEMMA ForgetIInv ==
    ASSUME IInv, NEW t \in Queued, Forget(t), UNCHANGED <<hurried, crashes>>
    PROVE  IInv'
  <1>0. /\ runq \in Seq(Tasks) /\ t \in Tasks /\ Once(runq) /\ Ordered(runq, left)
        /\ t \in Range(runq) /\ runq' = Without(runq, t)
    BY Before, TimeType, QueueDef DEF Forget
  <1>1. /\ left' \in [Tasks -> {AtOnce} \cup 0..TaskWait]
        /\ \A s \in Tasks : s # t => left'[s] = left[s]
    BY <1>0, Before, TimeType DEF Forget
  <1>2. /\ runq' \in Seq(Tasks) /\ Once(runq') /\ Range(runq') = Range(runq) \ {t}
        /\ Ordered(runq', left)
    BY <1>0, WithoutKeeps
  <1>3. Ordered(runq', left')
    BY <1>1, <1>2, OthersTime
  <1>4. /\ NoTwice' /\ InTime' /\ \A s \in Tasks : s # t => (s \in Queued' <=> s \in Queued)
    BY <1>2, <1>3, QueueDef
  <1>5. /\ chk' \in [Tasks -> ChkType] /\ info' \in [Tasks -> InfoRec]
        /\ results' \in [Tasks -> Seq(Results)] /\ late' \in [Tasks -> 0..MaxLate]
        /\ chk'[t] = "TASK" /\ info'[t] = NoInfo /\ results'[t] = <<>> /\ late'[t] = 0
        /\ \A s \in Tasks : s # t => /\ chk'[s] = chk[s] /\ info'[s] = info[s]
                                     /\ results'[s] = results[s] /\ late'[s] = late[s]
    <2>1. <<>> \in Seq(Results) /\ 0 \in 0..MaxLate /\ "TASK" \in ChkType /\ NoInfo \in InfoRec
      BY EmptySeq, Nothing, CheckQueueAssumption DEF ChkType
    <2> QED
      BY <1>0, <2>1, Before DEF Forget
  <1>6. ReadOk(t)' /\ FetchOk(t)'
    <2>1. Len(<<>>) = 0 /\ 0 <= MaxResults
      BY EmptySeq, CheckQueueAssumption
    <2> QED
      BY <1>5, <2>1, Nothing DEF ReadOk, FetchOk
  <1> QED
    BY <1>0, <1>1, <1>2, <1>4, <1>5, <1>6, Before, TaskStep

\* A check that only gives its task a new check time and a new kind of check, and
\* a start or stop request.
LEMMA RequeueIInv ==
    ASSUME IInv, NEW t \in Queued, NEW wait \in 0..TaskWait, Requeue(t, wait),
           UNCHANGED <<info, results, late, crashes>>, hurried' \in 0..MaxHurry,
           \/ chk' = chk
           \/ /\ chk[t] # "RESULT"
              /\ \E c \in ChkType \ {"RESULT"} : chk' = [chk EXCEPT ![t] = c]
    PROVE  IInv'
  <1>0. /\ left' \in [Tasks -> {AtOnce} \cup 0..TaskWait] /\ runq' \in Seq(Tasks)
        /\ NoTwice' /\ InTime' /\ Queued' = Queued
    BY Before, Requeued
  <1>1. CASE chk' = chk
    BY <1>0, <1>1, Before, QueueStep
  <1>2. ASSUME chk[t] # "RESULT",
               NEW c \in ChkType \ {"RESULT"}, chk' = [chk EXCEPT ![t] = c]
        PROVE  IInv'
    <2>1. t \in Tasks
      BY Before, TimeType
    <2>2. /\ chk' \in [Tasks -> ChkType] /\ chk'[t] # "RESULT"
          /\ \A s \in Tasks : s # t => chk'[s] = chk[s]
      BY <1>2, <2>1, Before
    <2>3. info[t] = NoInfo /\ late[t] = 0 /\ Len(results[t]) <= MaxResults
      BY <1>2, <2>1, Before DEF ReadOk
    <2>4. ReadOk(t)' /\ FetchOk(t)'
      BY <2>2, <2>3, Nothing DEF ReadOk, FetchOk
    <2> QED
      BY <1>0, <2>1, <2>2, <2>4, Before, TaskStep
  <1> QED
    BY <1>1, <1>2

LEMMA HurryIInv == ASSUME IInv, NEW t \in Tasks, Hurry(t) PROVE IInv'
  <1>1. /\ t \in Queued /\ Requeue(t, 0) /\ UNCHANGED <<chk, info, results, late, crashes>>
        /\ hurried < MaxHurry /\ hurried' = hurried + 1
    BY DEF Hurry
  <1>2. hurried' \in 0..MaxHurry
    BY <1>1, Before, CheckQueueAssumption
  <1> QED
    BY <1>1, <1>2, Before, RequeueIInv

LEMMA CheckTaskIInv ==
    ASSUME IInv, NEW t \in Tasks, NEW new \in BOOLEAN, CheckTask(t, new)
    PROVE  IInv'
  <1>1. /\ t \in Queued /\ chk[t] = "TASK"
        /\ UNCHANGED <<info, results, late, hurried, crashes>>
        /\ \/ chk' = [chk EXCEPT ![t] = "REPORT"] /\ Requeue(t, 0)
           \/ chk' = chk /\ Requeue(t, TaskWait)
    BY Before, DueQueued DEF CheckTask
  <1>2. "REPORT" \in ChkType \ {"RESULT"} /\ hurried' \in 0..MaxHurry
    BY <1>1, Before DEF ChkType
  <1> QED
    BY <1>1, <1>2, Before, RequeueIInv

\* A task marked as deleted stays where it is (daemon_delete_task).
LEMMA DeleteTaskIInv ==
    ASSUME IInv, NEW t \in Tasks, NEW ok \in BOOLEAN, DeleteTask(t, ok)
    PROVE  IInv'
  <1>1. CASE ok
    BY <1>1, ForgetIInv DEF DeleteTask
  <1>2. CASE ~ ok
    <2>1. /\ chk[t] = "TASK" /\ chk' = [chk EXCEPT ![t] = "DELETED"]
          /\ UNCHANGED <<runq, left, info, results, late, hurried, crashes>>
      BY <1>2 DEF DeleteTask
    <2>2. /\ chk' \in [Tasks -> ChkType] /\ chk'[t] # "RESULT"
          /\ \A s \in Tasks : s # t => chk'[s] = chk[s]
      BY <2>1, Before DEF ChkType
    <2>3. info[t] = NoInfo /\ late[t] = 0 /\ Len(results[t]) <= MaxResults
      BY <2>1, Before DEF ReadOk
    <2>4. ReadOk(t)' /\ FetchOk(t)'
      BY <2>1, <2>2, <2>3, Nothing DEF ReadOk, FetchOk
    <2>5. /\ left' \in [Tasks -> {AtOnce} \cup 0..TaskWait] /\ runq' \in Seq(Tasks)
          /\ NoTwice' /\ InTime' /\ Queued' = Queued
      BY <2>1, Before, TimeType DEF NoTwice, InTime, Queued
    <2> QED
      BY <2>1, <2>2, <2>4, <2>5, Before, TaskStep
  <1> QED
    BY <1>1, <1>2

\* The files of a deleted task are tried again (runGvmChecks).
LEMMA RetryDeleteIInv ==
    ASSUME IInv, NEW t \in Tasks, NEW ok \in BOOLEAN, RetryDelete(t, ok)
    PROVE  IInv'
  <1>1. t \in Queued /\ UNCHANGED <<hurried, crashes>>
    BY Before, DueQueued DEF RetryDelete
  <1>2. CASE ok
    BY <1>1, <1>2, ForgetIInv DEF RetryDelete
  <1>3. CASE ~ ok
    <2>1. Requeue(t, TaskWait) /\ UNCHANGED <<chk, info, results, late>>
      BY <1>3 DEF RetryDelete
    <2> QED
      BY <1>1, <2>1, Before, RequeueIInv
  <1> QED
    BY <1>2, <1>3

\* A report's check: it runs on, its results are fetched, or it is done with.
LEMMA CheckReportIInv == ASSUME IInv, NEW t \in Tasks, CheckReport(t) PROVE IInv'
  <1>1. /\ t \in Queued /\ chk[t] = "REPORT"
        /\ UNCHANGED <<info, late, hurried, crashes>> /\ hurried' \in 0..MaxHurry
    BY Before, DueQueued DEF CheckReport
  <1>2. CASE Requeue(t, ReportWait) /\ UNCHANGED <<chk, results>>
    BY <1>1, <1>2, Before, RequeueIInv
  <1>3. CASE /\ chk' = [chk EXCEPT ![t] = "TASK"]
             /\ Requeue(t, TaskWait) /\ UNCHANGED results
    <2>1. "TASK" \in ChkType \ {"RESULT"}
      BY DEF ChkType
    <2> QED
      BY <1>1, <1>3, <2>1, Before, RequeueIInv
  <1>4. ASSUME chk' = [chk EXCEPT ![t] = "RESULT"],
               NEW n \in 0..MaxResults, results' = [results EXCEPT ![t] = [i \in 1..n |-> i]],
               Requeue(t, 0)
        PROVE  IInv'
    <2>1. [i \in 1..n |-> i] \in Seq(Results) /\ Len([i \in 1..n |-> i]) = n /\ n <= MaxResults
      BY CheckQueueAssumption DEF Results
    <2>2. /\ left' \in [Tasks -> {AtOnce} \cup 0..TaskWait] /\ runq' \in Seq(Tasks)
          /\ NoTwice' /\ InTime' /\ Queued' = Queued
      BY <1>1, <1>4, Before, Requeued
    <2>3. /\ chk' \in [Tasks -> ChkType] /\ chk'[t] = "RESULT"
          /\ \A s \in Tasks : s # t => chk'[s] = chk[s]
      BY <1>4, Before DEF ChkType
    <2>4. /\ results' \in [Tasks -> Seq(Results)] /\ results'[t] \in Seq(Results)
          /\ Len(results'[t]) \in 0..MaxResults
          /\ \A s \in Tasks : s # t => results'[s] = results[s]
      <3> HIDE DEF Results
      <3> DEFINE r == [i \in 1..n |-> i]
      <3>1. r \in Seq(Results) /\ Len(r) \in 0..MaxResults
        BY <2>1
      <3>2. results' = [results EXCEPT ![t] = r]
        BY <1>4
      <3> HIDE DEF r
      <3> QED
        BY <3>1, <3>2, Before
    <2>5. info[t] = NoInfo
      BY <1>1, Before DEF ReadOk
    <2>6. ReadOk(t)' /\ FetchOk(t)'
      <3>1. info'[t] = NoInfo /\ t \in Queued'
        BY <1>1, <2>2, <2>5
      <3>2. 0 <= Len(results'[t]) /\ Len(results'[t]) <= MaxResults
        BY <2>4, CheckQueueAssumption
      <3> QED
        BY <2>3, <2>4, <3>1, <3>2, Nothing DEF ReadOk, FetchOk
    <2> QED
      BY <1>1, <2>2, <2>3, <2>4, <2>6, Before, TaskStep
  <1>5. Sizes[t] \subseteq 0..MaxResults
    BY CheckQueueAssumption
  <1> QED
    BY <1>2, <1>3, <1>4, <1>5 DEF CheckReport

\* A second that passes leaves the order as it is.
LEMMA TickIInv == ASSUME IInv, Tick PROVE IInv'
  <1>0. /\ left \in [Tasks -> {AtOnce} \cup 0..TaskWait] /\ runq \in Seq(Tasks)
        /\ NoTwice /\ InTime /\ TaskWait \in Nat
        /\ \A t \in Tasks : left[t] \in {AtOnce} \cup 0..TaskWait
        /\ \A i \in 1..Len(runq) : runq[i] \in Tasks
    BY Before, TimeType, ElementOfSeq, CheckQueueAssumption
  <1>1. /\ left' = [t \in Tasks |-> IF left[t] > 0 THEN left[t] - 1 ELSE left[t]]
        /\ UNCHANGED <<runq, chk, info, results, late, hurried, crashes>>
    BY DEF Tick
  <1>2. left' \in [Tasks -> {AtOnce} \cup 0..TaskWait]
    BY <1>0, <1>1 DEF AtOnce
  <1>3. \A s, t \in Tasks : left[s] <= left[t] => left'[s] <= left'[t]
    BY <1>0, <1>1 DEF AtOnce
  <1>4. NoTwice' /\ InTime'
    BY <1>0, <1>1, <1>3 DEF NoTwice, InTime
  <1> QED
    BY <1>0, <1>1, <1>2, <1>4, Before, QueueStep DEF Queued

----------------------------------------------------------------------------
(* Pages.                                                                  *)

\* A beginning of a list, element by element.
LEMMA PrefixDef ==
    ASSUME NEW S, NEW s \in Seq(S), NEW l \in Seq(S)
    PROVE  IsPrefix(s, l) <=> Len(s) <= Len(l) /\ \A i \in 1..Len(s) : s[i] = l[i]
  <1> DEFINE n == Len(s)
  <1>1. /\ n \in Nat /\ Len(l) \in Nat
        /\ \A i \in 1..n : s[i] \in S
        /\ \A i \in 1..Len(l) : l[i] \in S
    BY LenProperties, ElementOfSeq
  <1> HIDE DEF n
  <1>2. CASE n <= Len(l)
    <2>1. /\ SubSeq(s, 1, n) \in Seq(S) /\ Len(SubSeq(s, 1, n)) = n
          /\ \A i \in 1..n : SubSeq(s, 1, n)[i] = s[i]
      BY <1>1, SubSeqProperties
    <2>2. /\ SubSeq(l, 1, n) \in Seq(S) /\ Len(SubSeq(l, 1, n)) = n
          /\ \A i \in 1..n : SubSeq(l, 1, n)[i] = l[i]
      <3>1. \A i \in 1..n : l[i] \in S
        BY <1>1, <1>2
      <3> QED
        BY <1>1, <3>1, SubSeqProperties
    <2>3. ASSUME \A i \in 1..n : s[i] = l[i] PROVE SubSeq(s, 1, n) = SubSeq(l, 1, n)
      BY <2>1, <2>2, <2>3, SeqEqual
    <2> QED
      BY <1>2, <2>1, <2>2, <2>3 DEF IsPrefix, n
  <1> QED
    BY <1>2 DEF IsPrefix, n

\* A page holds the results from number first on, as many as there are of Rows.
LEMMA PageIs ==
    ASSUME TypeOK, NEW t \in Tasks, info[t].first <= Len(results[t]) + 1,
           info[t].first \in Nat \ {0}
    PROVE  /\ Page(t) \in Seq(Results) /\ Len(Page(t)) \in Nat
           /\ info[t].first - 1 + Len(Page(t)) <= Len(results[t])
           /\ \A i \in 1..Len(Page(t)) : Page(t)[i] = results[t][info[t].first - 1 + i]
  <1> DEFINE f == info[t].first
             n == Len(results[t])
             e == IF f + Rows - 1 < n THEN f + Rows - 1 ELSE n
  <1>1. Page(t) = SubSeq(results[t], f, e)
    BY DEF Page
  <1>2. /\ results[t] \in Seq(Results) /\ n \in Nat /\ Rows \in Nat \ {0}
        /\ \A i \in 1..n : results[t][i] \in Results
    BY TaskType, ElementOfSeq, CheckQueueAssumption
  <1> HIDE DEF f, n
  <1>3. f \in Nat /\ f >= 1 /\ f <= n + 1
    BY DEF f, n
  <1>4. e \in Nat /\ e <= n /\ e >= f - 1
    BY <1>2, <1>3
  <1> HIDE DEF e
  <1>5. /\ SubSeq(results[t], f, e) \in Seq(Results)
        /\ Len(SubSeq(results[t], f, e)) = IF f <= e THEN e - f + 1 ELSE 0
        /\ \A i \in 1..e - f + 1 : SubSeq(results[t], f, e)[i] = results[t][f + i - 1]
    <2>1. \A i \in f..e : results[t][i] \in Results
      BY <1>2, <1>3, <1>4
    <2> QED
      BY <1>3, <1>4, <2>1, SubSeqProperties
  <1>6. Len(Page(t)) = e - f + 1
    <2>1. Len(Page(t)) = IF f <= e THEN e - f + 1 ELSE 0
      BY <1>1, <1>5
    <2> QED
      BY <1>3, <1>4, <2>1
  <1>7. \A i \in 1..e - f + 1 : Page(t)[i] = results[t][f - 1 + i]
    <2>1. \A i \in 1..e - f + 1 : f + i - 1 = f - 1 + i
      BY <1>3, <1>4
    <2> QED
      BY <1>1, <1>5, <2>1
  <1>8. Len(Page(t)) \in Nat /\ f - 1 + Len(Page(t)) <= n
    BY <1>3, <1>4, <1>6
  <1> QED
    BY <1>1, <1>5, <1>6, <1>7, <1>8 DEF f, n

\* What is read of a page goes on where what was read before ends.
LEMMA ReadOn ==
    ASSUME TypeOK, NEW t \in Tasks, ReadOk(t), chk[t] = "RESULT", NEW k \in 0..Len(Page(t))
    PROVE  LET read == info[t].read \o SubSeq(Page(t), 1, k)
           IN  /\ read \in Seq(Results) /\ Len(read) = Len(info[t].read) + k
               /\ Len(read) <= Len(results[t])
               /\ IsPrefix(info[t].read, results[t]) => IsPrefix(read, results[t])
  <1> DEFINE r == info[t].read
             l == results[t]
             p == Page(t)
             b == SubSeq(p, 1, k)
             read == r \o b
  <1>1. /\ r \in Seq(Results) /\ Len(r) \in Nat /\ l \in Seq(Results) /\ Len(l) \in Nat
        /\ Len(r) <= Len(l) /\ info[t].first = Len(r) + 1
    BY TaskType DEF ReadOk
  <1>2. /\ p \in Seq(Results) /\ Len(p) \in Nat /\ Len(r) + Len(p) <= Len(l)
        /\ \A i \in 1..Len(p) : p[i] = l[Len(r) + i] /\ p[i] \in Results
    <2> HIDE DEF r, l, p
    <2>1. info[t].first <= Len(l) + 1 /\ info[t].first \in Nat \ {0} /\ info[t].first - 1 = Len(r)
      BY <1>1
    <2>2. /\ p \in Seq(Results) /\ Len(p) \in Nat
          /\ info[t].first - 1 + Len(p) <= Len(l)
          /\ \A i \in 1..Len(p) : p[i] = l[info[t].first - 1 + i]
      BY <2>1, PageIs DEF l, p
    <2>3. \A i \in 1..Len(p) : p[i] \in Results
      BY <2>2, ElementOfSeq
    <2> QED
      BY <2>1, <2>2, <2>3
  <1>3. k \in Nat /\ k <= Len(p)
    BY <1>2
  <1> HIDE DEF r, l, p
  <1>4. /\ b \in Seq(Results) /\ Len(b) = k
        /\ \A i \in 1..k : b[i] = p[i]
    BY <1>2, <1>3, SubSeqProperties
  <1> HIDE DEF b
  <1>5. /\ read \in Seq(Results) /\ Len(read) = Len(r) + k
        /\ \A i \in 1..Len(r) + k : read[i] = IF i <= Len(r) THEN r[i] ELSE b[i - Len(r)]
    BY <1>1, <1>4, ConcatProperties
  <1> HIDE DEF read
  <1>6. Len(read) <= Len(l)
    BY <1>1, <1>2, <1>3, <1>5
  <1>7. ASSUME IsPrefix(r, l) PROVE IsPrefix(read, l)
    <2>1. \A i \in 1..Len(r) : r[i] = l[i]
      BY <1>1, <1>7, PrefixDef
    <2>2. ASSUME NEW i \in 1..Len(r) + k PROVE read[i] = l[i]
      <3>1. CASE i <= Len(r)
        BY <1>1, <1>3, <1>5, <2>1, <3>1
      <3>2. CASE i > Len(r)
        <4>1. i - Len(r) \in 1..k /\ Len(r) + (i - Len(r)) = i
          BY <1>1, <1>3, <3>2
        <4>2. i - Len(r) \in 1..Len(p) /\ ~ (i <= Len(r))
          BY <1>1, <1>2, <1>3, <3>2, <4>1
        <4> QED
          BY <1>2, <1>4, <1>5, <4>1, <4>2
      <3> QED
        BY <1>1, <3>1, <3>2
    <2> QED
      BY <1>1, <1>5, <1>6, <2>2, PrefixDef
  <1> QED
    BY <1>5, <1>6, <1>7 DEF read, b, r, l, p

\* However a page is read, what is known of the results stays sound (parseResult).
LEMMA ParsedSound ==
    ASSUME TypeOK, NEW t \in Tasks, ReadOk(t), FetchOk(t), chk[t] = "RESULT",
           NEW k \in 0..Len(Page(t))
    PROVE  /\ Parsed(t, k) \in InfoRec
           /\ Parsed(t, k).first = Len(Parsed(t, k).read) + 1
           /\ Len(Parsed(t, k).read) <= Len(results[t])
           /\ late[t] = 0 => /\ IsPrefix(Parsed(t, k).read, results[t])
                             /\ Parsed(t, k).total = Len(results[t])
                             /\ Parsed(t, k).done => Parsed(t, k).read = results[t]
  <1> DEFINE n == Len(results[t])
             total == IF info[t].total = Unknown THEN n ELSE info[t].total
             read == info[t].read \o SubSeq(Page(t), 1, k)
             whole == Page(t) # <<>> /\ k = Len(Page(t))
             done == total = 0 \/ (whole /\ Len(read) = total)
  <1>1. /\ info[t].total \in {Unknown} \cup Nat /\ n \in Nat /\ results[t] \in Seq(Results)
    BY TaskType
  <1>2. /\ read \in Seq(Results) /\ Len(read) \in Nat /\ Len(read) <= n
        /\ IsPrefix(info[t].read, results[t]) => IsPrefix(read, results[t])
    <2>1. /\ read \in Seq(Results) /\ Len(read) <= n
          /\ IsPrefix(info[t].read, results[t]) => IsPrefix(read, results[t])
      BY ReadOn
    <2> QED
      BY <2>1, LenProperties
  <1>3. Parsed(t, k) = [total |-> total, first |-> Len(read) + 1, read |-> read, done |-> done]
    BY DEF Parsed
  <1> HIDE DEF read, whole
  <1>4. total \in Nat
    BY <1>1
  <1>5. /\ Parsed(t, k) \in InfoRec
        /\ Parsed(t, k).first = Len(read) + 1 /\ Parsed(t, k).read = read
        /\ Parsed(t, k).total = total /\ Parsed(t, k).done = done
    <2> HIDE DEF total, n
    <2>1. done \in BOOLEAN /\ Len(read) + 1 \in Nat
      BY <1>2
    <2> HIDE DEF done
    <2> QED
      BY <1>2, <1>3, <1>4, <2>1 DEF InfoRec
  <1>6. ASSUME late[t] = 0
        PROVE  IsPrefix(read, results[t]) /\ total = n /\ (done => read = results[t])
    <2>1. IsPrefix(read, results[t]) /\ info[t].total \in {Unknown, n}
      BY <1>2, <1>6 DEF FetchOk
    <2>2. total = n
      BY <2>1
    <2>3. ASSUME done PROVE read = results[t]
      <3>1. Len(read) = n
        <4> HIDE DEF n, total
        <4>1. total = 0 \/ Len(read) = total
          BY <2>3
        <4> QED
          BY <1>1, <1>2, <2>2, <4>1
      <3>2. \A i \in 1..Len(read) : read[i] = results[t][i]
        BY <1>1, <1>2, <2>1, PrefixDef
      <3> QED
        BY <1>1, <1>2, <3>1, <3>2, SeqEqual
    <2> QED
      BY <2>1, <2>2, <2>3
  <1> QED
    BY <1>2, <1>5, <1>6

\* The end of a check of results: they are in the file and forgotten, or the check
\* is repeated with what is known now.
LEMMA FinishIInv ==
    ASSUME IInv, NEW t \in Queued, chk[t] = "RESULT", NEW rec \in InfoRec,
           rec.first = Len(rec.read) + 1, Len(rec.read) <= Len(results[t]),
           late[t] = 0 => /\ IsPrefix(rec.read, results[t])
                          /\ rec.total \in {Unknown, Len(results[t])}
                          /\ rec.done => rec.read = results[t],
           Finish(t, rec), UNCHANGED <<hurried, crashes>>
    PROVE  IInv'
  <1>0. t \in Tasks
    BY Before, TimeType
  <1>1. ASSUME NEW wait \in 0..TaskWait, Requeue(t, wait)
        PROVE  /\ left' \in [Tasks -> {AtOnce} \cup 0..TaskWait] /\ runq' \in Seq(Tasks)
               /\ NoTwice' /\ InTime' /\ Queued' = Queued
    BY <1>1, Before, Requeued
  <1>2. CASE rec.done /\ Len(rec.read) <= Capacity
    <2>1. /\ chk' = [chk EXCEPT ![t] = "TASK"] /\ info' = [info EXCEPT ![t] = NoInfo]
          /\ results' = [results EXCEPT ![t] = <<>>] /\ late' = [late EXCEPT ![t] = 0]
          /\ Requeue(t, TaskWait)
      BY <1>2 DEF Finish
    <2>2. /\ chk' \in [Tasks -> ChkType] /\ info' \in [Tasks -> InfoRec]
          /\ results' \in [Tasks -> Seq(Results)] /\ late' \in [Tasks -> 0..MaxLate]
          /\ chk'[t] = "TASK" /\ info'[t] = NoInfo /\ results'[t] = <<>> /\ late'[t] = 0
          /\ \A s \in Tasks : s # t => /\ chk'[s] = chk[s] /\ info'[s] = info[s]
                                       /\ results'[s] = results[s] /\ late'[s] = late[s]
      <3>1. <<>> \in Seq(Results) /\ 0 \in 0..MaxLate /\ "TASK" \in ChkType /\ NoInfo \in InfoRec
        BY EmptySeq, Nothing, CheckQueueAssumption DEF ChkType
      <3> QED
        BY <1>0, <2>1, <3>1, Before
    <2>3. ReadOk(t)' /\ FetchOk(t)'
      <3>1. Len(<<>>) = 0 /\ 0 <= MaxResults
        BY EmptySeq, CheckQueueAssumption
      <3> QED
        BY <2>2, <3>1, Nothing DEF ReadOk, FetchOk
    <2>4. /\ left' \in [Tasks -> {AtOnce} \cup 0..TaskWait] /\ runq' \in Seq(Tasks)
          /\ NoTwice' /\ InTime' /\ Queued' = Queued
      BY <1>1, <2>1, Before
    <2> QED
      BY <1>0, <2>2, <2>3, <2>4, Before, TaskStep
  <1>3. CASE ~ (rec.done /\ Len(rec.read) <= Capacity)
    <2>1. /\ info' = [info EXCEPT ![t] = rec] /\ Requeue(t, ResultWait)
          /\ UNCHANGED <<chk, results, late>>
      BY <1>3 DEF Finish
    <2>2. /\ info' \in [Tasks -> InfoRec] /\ info'[t] = rec
          /\ \A s \in Tasks : s # t => info'[s] = info[s]
      BY <1>0, <2>1, Before
    <2>3. /\ left' \in [Tasks -> {AtOnce} \cup 0..TaskWait] /\ runq' \in Seq(Tasks)
          /\ NoTwice' /\ InTime' /\ Queued' = Queued
      BY <1>1, <2>1, Before
    <2>4. ReadOk(t)' /\ FetchOk(t)'
      <3>1. Len(results[t]) <= MaxResults
        BY <1>0, Before DEF ReadOk
      <3>2. /\ info'[t] = rec /\ chk'[t] = "RESULT" /\ results'[t] = results[t]
            /\ late'[t] = late[t] /\ t \in Queued'
        BY <2>1, <2>2, <2>3
      <3> QED
        BY <3>1, <3>2 DEF ReadOk, FetchOk
    <2> QED
      BY <1>0, <2>1, <2>2, <2>3, <2>4, Before, TaskStep
  <1> QED
    BY <1>2, <1>3

LEMMA CheckResultIInv ==
    ASSUME IInv, NEW t \in Tasks, NEW k \in 0..Len(Page(t)), CheckResult(t, k)
    PROVE  IInv'
  <1> DEFINE rec == IF info[t].done THEN info[t] ELSE Parsed(t, k)
  <1>1. /\ t \in Queued /\ chk[t] = "RESULT" /\ Finish(t, rec) /\ UNCHANGED <<hurried, crashes>>
    BY Before, DueQueued DEF CheckResult
  <1>2. /\ rec \in InfoRec /\ rec.first = Len(rec.read) + 1 /\ Len(rec.read) <= Len(results[t])
        /\ late[t] = 0 => /\ IsPrefix(rec.read, results[t])
                          /\ rec.total \in {Unknown, Len(results[t])}
                          /\ rec.done => rec.read = results[t]
    <2>1. CASE info[t].done
      BY <1>1, <2>1, Before DEF ReadOk, FetchOk
    <2>2. CASE ~ info[t].done
      BY <1>1, <2>2, Before, ParsedSound
    <2> QED
      BY <2>1, <2>2
  <1> HIDE DEF rec
  <1> QED
    BY <1>1, <1>2, FinishIInv

LEMMA CheckResultFailsIInv ==
    ASSUME IInv, NEW t \in Tasks, CheckResultFails(t)
    PROVE  IInv'
  <1>1. /\ t \in Queued /\ Requeue(t, ResultWait)
        /\ UNCHANGED <<chk, info, results, late, hurried, crashes>>
    BY Before, DueQueued DEF CheckResultFails
  <1> QED
    BY <1>1, Before, RequeueIInv

\* A late result of a report taken for ended lengthens gvmd's list.
LEMMA LateResultIInv ==
    ASSUME IInv, NEW t \in Tasks, NEW i \in 1..Len(results[t]) + 1, LateResult(t, i)
    PROVE  IInv'
  <1> DEFINE n == Len(results[t])
             new == InsertAt(results[t], i, n + 1)
  <1>1. /\ chk[t] = "RESULT" /\ late[t] < MaxLate /\ n < MaxResults
        /\ results' = [results EXCEPT ![t] = new] /\ late' = [late EXCEPT ![t] = late[t] + 1]
        /\ UNCHANGED <<runq, left, chk, info, hurried, crashes>>
    BY Before DEF LateResult
  <1>2. /\ results[t] \in Seq(Results) /\ n \in Nat /\ late[t] \in Nat /\ MaxLate \in Nat
        /\ MaxResults \in Nat /\ Len(info[t].read) \in Nat
    BY Before, TaskType, CheckQueueAssumption
  <1>3. new \in Seq(Results) /\ Len(new) = n + 1
    <2> HIDE DEF n
    <2>1. n + 1 \in Results /\ i - 1 \in 0..n /\ (i - 1) + 1 = i
      BY <1>1, <1>2 DEF Results, n
    <2>2. \A p \in 0..Len(results[t]), x \in Results :
             /\ InsertAt(results[t], p + 1, x) \in Seq(Results)
             /\ Len(InsertAt(results[t], p + 1, x)) = Len(results[t]) + 1
      BY <1>2, InsertBehind
    <2>3. /\ InsertAt(results[t], (i - 1) + 1, n + 1) \in Seq(Results)
          /\ Len(InsertAt(results[t], (i - 1) + 1, n + 1)) = n + 1
      BY <2>1, <2>2 DEF n
    <2> QED
      BY <2>1, <2>3
  <1> HIDE DEF new, n
  <1>4. /\ results' \in [Tasks -> Seq(Results)] /\ results'[t] = new
        /\ late' \in [Tasks -> 0..MaxLate] /\ late'[t] = late[t] + 1 /\ late'[t] # 0
        /\ \A s \in Tasks : s # t => results'[s] = results[s] /\ late'[s] = late[s]
    <2>1. late[t] + 1 \in 0..MaxLate /\ late[t] + 1 # 0
      BY <1>1, <1>2
    <2> QED
      BY <1>1, <1>3, <2>1, Before
  <1>5. /\ left' \in [Tasks -> {AtOnce} \cup 0..TaskWait] /\ runq' \in Seq(Tasks)
        /\ NoTwice' /\ InTime' /\ Queued' = Queued
    BY <1>1, Before, TimeType DEF NoTwice, InTime, Queued
  <1>6. ReadOk(t)' /\ FetchOk(t)'
    <2>1. Len(info[t].read) <= n /\ ReadOk(t)
      BY <1>1, Before DEF ReadOk, n
    <2>2. Len(info[t].read) <= n + 1 /\ n + 1 <= MaxResults
      BY <1>1, <1>2, <2>1
    <2> QED
      BY <1>1, <1>3, <1>4, <1>5, <2>1, <2>2 DEF ReadOk, FetchOk
  <1> QED
    BY <1>1, <1>4, <1>5, <1>6, Before, TaskStep

\* A queue that holds each task once is as long as it has tasks.
LEMMA OnceCounted ==
    ASSUME NEW S, NEW q \in Seq(S)
    PROVE  /\ q \in Surjection(1..Len(q), Range(q))
           /\ IsFiniteSet(Range(q))
           /\ Cardinality(Range(q)) = Len(q) <=> Once(q)
  <1>1. Len(q) \in Nat /\ q \in [1..Len(q) -> Range(q)]
    BY LenProperties, RangeEquality
  <1>2. q \in Surjection(1..Len(q), Range(q))
    BY <1>1, RangeEquality DEF Surjection
  <1>3. IsFiniteSet(1..Len(q)) /\ Cardinality(1..Len(q)) = Len(q)
    <2>1. /\ IsFiniteSet(1..Len(q))
          /\ Cardinality(1..Len(q)) = IF 1 > Len(q) THEN 0 ELSE Len(q) - 1 + 1
      BY <1>1, FS_Interval
    <2> QED
      BY <1>1, <2>1
  <1>4. Once(q) <=> q \in Injection(1..Len(q), Range(q))
    BY <1>1 DEF Once, Injection, IsInjective
  <1>5. /\ IsFiniteSet(Range(q))
        /\ Cardinality(Range(q)) = Cardinality(1..Len(q))
              <=> q \in Injection(1..Len(q), Range(q))
    BY <1>2, <1>3, FS_Surjection
  <1> QED
    BY <1>2, <1>3, <1>4, <1>5

\* After a crash the same tasks are queued, in any order, all for the longest time.
LEMMA CrashIInv == ASSUME IInv, Crash PROVE IInv'
  <1> DEFINE n == Len(runq)
             set == Queued
  <1>1. runq \in Seq(Tasks) /\ n \in Nat /\ set \subseteq Tasks
    BY Before, TimeType, LenProperties
  <1>2. /\ crashes < MaxCrashes /\ crashes' = crashes + 1
        /\ runq' \in [1..n -> set] /\ Range(runq') = set
        /\ left' = [t \in Tasks |-> IF t \in set THEN NextChkTime(TaskWait) ELSE 0]
        /\ chk' = [t \in Tasks |-> IF chk[t] = "DELETED" THEN "TASK" ELSE chk[t]]
        /\ info' = [t \in Tasks |-> NoInfo]
        /\ UNCHANGED <<results, late, hurried>>
    BY DEF Crash
  <1>3. runq' \in Seq(set) /\ runq' \in Seq(Tasks) /\ Len(runq') = n
    BY <1>1, <1>2
  <1>4. Once(runq')
    <2>1. Cardinality(set) = n
      BY <1>1, Before, QueueDef, OnceCounted
    <2> QED
      BY <1>2, <1>3, <2>1, OnceCounted
  <1>5. Queued' = set
    BY <1>2 DEF Queued
  <1> HIDE DEF n, set
  <1>6. left' \in [Tasks -> {AtOnce} \cup 0..TaskWait]
    <2>1. NextChkTime(TaskWait) \in {AtOnce} \cup 0..TaskWait /\ 0 \in 0..TaskWait
      BY Before, WaitType
    <2> QED
      BY <1>2, <2>1
  <1>7. Ordered(runq', left')
    <2>1. \A i \in 1..Len(runq') : runq'[i] \in set /\ runq'[i] \in Tasks
      BY <1>3, ElementOfSeq
    <2>2. \A i \in 1..Len(runq') : left'[runq'[i]] = TaskWait
      BY <1>2, <2>1, CheckQueueAssumption DEF NextChkTime
    <2> QED
      BY <2>2, CheckQueueAssumption DEF Ordered
  <1>8. /\ chk' \in [Tasks -> ChkType] /\ info' \in [Tasks -> InfoRec]
        /\ \A t \in Tasks : /\ info'[t] = NoInfo
                            /\ chk'[t] = "RESULT" <=> chk[t] = "RESULT"
    BY <1>2, Before, Nothing DEF ChkType
  <1>9. ASSUME NEW t \in Tasks PROVE ReadOk(t)' /\ FetchOk(t)'
    <2>1. /\ results'[t] = results[t] /\ results[t] \in Seq(Results) /\ Len(results[t]) \in Nat
          /\ late'[t] = late[t] /\ ReadOk(t)
      BY <1>2, Before, TaskType
    <2>2. 0 <= Len(results[t])
      BY <2>1
    <2> QED
      BY <1>5, <1>8, <2>1, <2>2, Nothing DEF ReadOk, FetchOk, set
  <1>10. TypeOK'
    <2>1. crashes' \in 0..MaxCrashes /\ 0 <= MaxResults
      BY <1>2, Before, CheckQueueAssumption
    <2>2. /\ results' \in [Tasks -> Seq(Results)] /\ late' \in [Tasks -> 0..MaxLate]
          /\ hurried' \in 0..MaxHurry
      BY <1>2, Before
    <2> QED
      BY <1>3, <1>6, <1>8, <2>1, <2>2, Nothing DEF TypeOK
  <1> QED
    BY <1>4, <1>7, <1>9, <1>10, QueueDef, SoundDef DEF IInv

----------------------------------------------------------------------------
(* The invariant and what follows from it.                                 *)

LEMMA NextIInv == IInv /\ [Next]_vars => IInv'
  <1> SUFFICES ASSUME IInv, [Next]_vars PROVE IInv'
    OBVIOUS
  <1>1. ASSUME NEW t \in Tasks, AddTask(t) PROVE IInv'
    BY <1>1, AddTaskIInv
  <1>2. ASSUME NEW t \in Tasks, NEW ok \in BOOLEAN, DeleteTask(t, ok) PROVE IInv'
    BY <1>2, DeleteTaskIInv
  <1>3. ASSUME NEW t \in Tasks, Hurry(t) PROVE IInv'
    BY <1>3, HurryIInv
  <1>4. ASSUME NEW t \in Tasks, RunCheck(t) PROVE IInv'
    BY <1>4, CheckTaskIInv, CheckReportIInv, CheckResultIInv, CheckResultFailsIInv,
       RetryDeleteIInv DEF RunCheck
  <1>5. ASSUME NEW t \in Tasks, NEW i \in 1..Len(results[t]) + 1, LateResult(t, i) PROVE IInv'
    BY <1>5, LateResultIInv
  <1>6. ASSUME Tick PROVE IInv'
    BY <1>6, TickIInv
  <1>7. ASSUME Crash PROVE IInv'
    BY <1>7, CrashIInv
  <1>8. CASE UNCHANGED vars
    BY <1>8 DEF vars, IInv, TypeOK, NoTwice, InTime, ReadSound, FetchSound, Queued
  <1> QED
    BY <1>1, <1>2, <1>3, <1>4, <1>5, <1>6, <1>7, <1>8 DEF Next

\* The queue is in order and reads go on where they ended, whatever is asked of the
\* daemon, whatever fails and whenever it crashes.
THEOREM Inductive == Spec => []IInv
  <1>1. Init => IInv
    BY InitIInv
  <1>2. IInv /\ [Next]_vars => IInv'
    BY NextIInv
  <1> QED
    BY <1>1, <1>2, PTL DEF Spec

\* Every variable keeps to its values (the lists and records of a scan task).
THEOREM TypeCorrect == Spec => []TypeOK
  <1>1. IInv => TypeOK
    BY DEF IInv
  <1> QED
    BY <1>1, Inductive, PTL

\* The queue holds each task once, in the order of the check times: a head that is
\* not due means that no task is (runGvmChecks, reque_list).
THEOREM QueueStaysSorted == Spec => []QueueSorted
  <1>1. ASSUME IInv PROVE QueueSorted
    <2>1. runq \in Seq(Tasks) /\ Once(runq) /\ InTime
      BY <1>1, Before, TimeType, QueueDef
    <2>2. Cardinality(Queued) = Len(runq)
      BY <2>1, OnceCounted DEF Queued
    <2> QED
      BY <2>1, <2>2 DEF QueueSorted, InTime
  <1> QED
    BY <1>1, Inductive, PTL

\* What was read of a report is a beginning of gvmd's list and the next page starts
\* right behind it, whatever pages failed half way (parseResult).
THEOREM PagesDoFit == Spec => []PagesFit
  <1>1. IInv => PagesFit
    BY DEF IInv, ReadSound, FetchSound, PagesFit
  <1> QED
    BY <1>1, Inductive, PTL

\* However a page is answered, results go to the file only when all of them are
\* there (parseResult).
THEOREM DoneIsReallyAll == Spec => []DoneIsAll
  <1>1. ASSUME IInv PROVE DoneIsAll
    <2> SUFFICES ASSUME NEW t \in Tasks, late[t] = 0, chk[t] = "RESULT",
                        NEW k \in 0..Len(Page(t))
                 PROVE  LET rec == IF info[t].done THEN info[t] ELSE Parsed(t, k)
                        IN  rec.done => rec.read = results[t]
      BY DEF DoneIsAll
    <2>1. CASE info[t].done
      BY <1>1, <2>1, Before DEF FetchOk
    <2>2. CASE ~ info[t].done
      BY <1>1, <2>2, Before, ParsedSound
    <2> QED
      BY <2>1, <2>2
  <1> QED
    BY <1>1, Inductive, PTL

=============================================================================
