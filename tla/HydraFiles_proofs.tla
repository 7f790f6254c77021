-------------------------- MODULE HydraFiles_proofs --------------------------
(***************************************************************************)
(* Proofs about HydraFiles for every set of texts, schedules and services: *)
(* no request the client lets through is rejected by the daemon; each      *)
(* hydra process gets its command line, but for blocks with a port; the    *)
(* files of hosts and logins have all that was asked for; and cron starts  *)
(* the task on every day of its schedule, but for Tuesdays and days behind *)
(* a "-1".                                                                 *)
(***************************************************************************)
EXTENDS HydraFiles, SequenceTheorems, WellFoundedInduction, TLAPS

(* Induction and recursion over the natural numbers.  The library states   *)
(* them for operators; what follows states them for sets and functions.    *)

\* Every set of natural numbers but the empty one has a least member.
LEMMA Least ==
    ASSUME NEW T, T \subseteq Nat, T # {}
    PROVE  \E x \in T : \A y \in T : x <= y
  <1> DEFINE R == OpToRel(<, Nat)
  <1>1. IsWellFoundedOn(R, Nat)
    BY NatLessThanWellFounded
  <1>2. \A x, y \in Nat : y < x => <<y, x>> \in R
    BY DEF OpToRel
  <1> HIDE DEF R
  <1>3. PICK x \in T : \A y \in T : ~ (<<y, x>> \in R)
    BY <1>1, WFMin
  <1>4. ASSUME NEW y \in T
        PROVE  x <= y
    <2>1. x \in Nat /\ y \in Nat
      OBVIOUS
    <2>2. ~ (y < x)
      BY <1>2, <1>3, <2>1
    <2> QED
      BY <2>1, <2>2
  <1> QED
    BY <1>4

\* Induction over the natural numbers, on a set.
LEMMA InductionOnSet ==
    ASSUME NEW G, 0 \in G, \A n \in Nat : n \in G => n + 1 \in G
    PROVE  Nat \subseteq G
  <1> SUFFICES ASSUME Nat \ G # {} PROVE FALSE
    OBVIOUS
  <1>1. PICK n \in Nat \ G : \A m \in Nat \ G : n <= m
    BY Least
  <1>2. n # 0 /\ n - 1 \in Nat
    BY <1>1
  <1>3. n - 1 \in G
    BY <1>1, <1>2
  <1> QED
    BY <1>1, <1>2, <1>3

StaysIn(h, S) == \A n \in Nat : \A c \in S : h[n][c] \in S
Iterates(g, h, a, S) ==
    /\ g \in [Nat -> S]
    /\ g[0] = a
    /\ \A n \in Nat : g[n + 1] = h[n][g[n]]

\* A value for every natural number from the one before it.
LEMMA Recursion ==
    ASSUME NEW S, NEW a \in S, NEW h, StaysIn(h, S)
    PROVE  \E g : Iterates(g, h, a, S)
  <1> DEFINE A(n) == {g \in [0..n -> S] : g[0] = a /\ \A m \in 0..n - 1 : g[m + 1] = h[m][g[m]]}
             G == {n \in Nat : A(n) # {}}
             same(m) == \A i, j \in Nat : m <= i /\ m <= j =>
                          \A f \in A(i), g \in A(j) : f[m] = g[m]
             H == {m \in Nat : same(m)}
  <1> USE DEF StaysIn
  <1>1. Nat \subseteq G
    <2>1. 0 \in G
      <3>1. [i \in 0..0 |-> a] \in A(0)
        OBVIOUS
      <3> QED
        BY <3>1
    <2>2. ASSUME NEW n \in Nat, n \in G
          PROVE  n + 1 \in G
      <3> PICK g \in A(n) : TRUE
        BY <2>2
      <3> DEFINE f == [i \in 0..n + 1 |-> IF i <= n THEN g[i] ELSE h[n][g[n]]]
      <3>1. g[n] \in S /\ h[n][g[n]] \in S /\ g \in [0..n -> S] /\ g[0] = a
            /\ \A m \in 0..n - 1 : g[m + 1] = h[m][g[m]]
        OBVIOUS
      <3>2. f \in [0..n + 1 -> S]
        BY <3>1
      <3>3. f[0] = a
        BY <3>1
      <3>4. \A m \in 0..n : f[m + 1] = h[m][f[m]]
        <4> TAKE m \in 0..n
        <4>1. CASE m < n
          BY <3>1, <4>1
        <4>2. CASE m = n
          BY <3>1, <4>2
        <4> QED
          BY <4>1, <4>2
      <3>5. (n + 1) - 1 = n
        OBVIOUS
      <3>6. f \in A(n + 1)
        BY <3>2, <3>3, <3>4, <3>5
      <3> QED
        BY <3>6
    <2> HIDE DEF G
    <2> QED
      BY <2>1, <2>2, InductionOnSet
  <1>2. Nat \subseteq H
    <2>1. 0 \in H
      OBVIOUS
    <2>2. ASSUME NEW m \in Nat, m \in H
          PROVE  m + 1 \in H
      <3>0. same(m)
        BY <2>2
      <3> SUFFICES ASSUME NEW i \in Nat, NEW j \in Nat, m + 1 <= i, m + 1 <= j,
                          NEW f \in A(i), NEW g \in A(j)
                   PROVE  f[m + 1] = g[m + 1]
        <4>1. same(m + 1) => m + 1 \in H
          <5> HIDE DEF same
          <5> QED
            OBVIOUS
        <4> HIDE DEF A, H
        <4> QED
          BY <4>1
      <3>1. m \in 0..i - 1 /\ m \in 0..j - 1 /\ m <= i /\ m <= j
        OBVIOUS
      <3>2. f[m] = g[m]
        <4> HIDE DEF A
        <4> QED
          BY <3>0, <3>1
      <3>3. f[m + 1] = h[m][f[m]] /\ g[m + 1] = h[m][g[m]]
        BY <3>1
      <3> QED
        BY <3>2, <3>3
    <2> HIDE DEF H
    <2> QED
      BY <2>1, <2>2, InductionOnSet
  <1>3. \A n \in Nat : \E g : g \in A(n)
    BY <1>1
  <1>4. \A n \in Nat, m \in Nat : \A f \in A(n), g \in A(m) : n <= m => f[n] = g[n]
    <2>1. \A n \in Nat : same(n)
      BY <1>2
    <2> HIDE DEF A
    <2> QED
      BY <2>1
  <1> DEFINE w(n) == CHOOSE g : g \in A(n)
             c == [n \in Nat |-> w(n)[n]]
  <1>5. \A n \in Nat : w(n) \in A(n)
    <2> HIDE DEF A
    <2> QED
      BY <1>3
  <1>6. ASSUME NEW n \in Nat
        PROVE  c[n] \in S /\ c[n + 1] = h[n][c[n]] /\ c[0] = a
    <2> HIDE DEF w
    <2>1. c[n] = w(n)[n] /\ c[n + 1] = w(n + 1)[n + 1] /\ c[0] = w(0)[0]
      OBVIOUS
    <2>2. w(n) \in A(n) /\ w(n + 1) \in A(n + 1) /\ w(0) \in A(0)
      <3> HIDE DEF A
      <3> QED
        BY <1>5
    <2> HIDE DEF c
    <2>3. w(n)[n] = w(n + 1)[n]
      <3> HIDE DEF A
      <3> QED
        BY <1>4, <2>2
    <2>4. w(n + 1)[n + 1] = h[n][w(n + 1)[n]] /\ w(n)[n] \in S /\ w(0)[0] = a
      BY <2>2
    <2> QED
      BY <2>1, <2>3, <2>4
  <1>7. c \in [Nat -> S]
    BY <1>6
  <1>8. c[0] = a /\ \A n \in Nat : c[n + 1] = h[n][c[n]]
    BY <1>6
  <1> HIDE DEF c
  <1> QED
    BY <1>7, <1>8 DEF Iterates

----------------------------------------------------------------------------
(* Texts with something left out, and texts put together.                  *)

\* A sequence that is not empty is its front and its last.
LEMMA FrontAndLast ==
    ASSUME NEW T, NEW s \in Seq(T), s # <<>>
    PROVE  /\ Front(s) \in Seq(T) /\ Len(Front(s)) = Len(s) - 1
           /\ Last(s) \in T /\ Last(s) = s[Len(s)]
           /\ s = Append(Front(s), Last(s))
  <1>1. Len(s) \in Nat /\ Len(s) >= 1
    BY EmptySeq
  <1>2. Front(s) = SubSeq(s, 1, Len(s) - 1)
    BY DEF Front
  <1>3. Front(s) \in Seq(T) /\ Len(Front(s)) = Len(s) - 1
        /\ \A i \in 1..Len(s) - 1 : Front(s)[i] = s[i]
    <2> DEFINE m == Len(s) - 1
    <2>1. m \in Nat /\ \A i \in 1..m : s[i] \in T
      BY <1>1
    <2> HIDE DEF m
    <2>2. SubSeq(s, 1, m) \in Seq(T) /\ Len(SubSeq(s, 1, m)) = m
          /\ \A i \in 1..m : SubSeq(s, 1, m)[i] = s[i]
      BY <2>1
    <2> QED
      BY <1>2, <2>2 DEF m
  <1>4. Last(s) = s[Len(s)] /\ Last(s) \in T
    BY <1>1 DEF Last
  <1>5. s = Append(Front(s), Last(s))
    <2> DEFINE p == Append(Front(s), Last(s))
    <2>1. p \in Seq(T) /\ Len(p) = Len(s) /\ p[Len(s)] = s[Len(s)]
          /\ \A i \in 1..Len(s) - 1 : p[i] = s[i]
      BY <1>1, <1>3, <1>4, AppendProperties
    <2> HIDE DEF p
    <2>2. \A i \in 1..Len(s) : p[i] = s[i]
      BY <1>1, <2>1
    <2>3. p = s
      BY <2>1, <2>2, SeqEqual
    <2> QED
      BY <2>3 DEF p
  <1> QED
    BY <1>3, <1>4, <1>5

\* Induction over sequences, on a set: a sequence is the empty one or has a last.
LEMMA InductionOnSeq ==
    ASSUME NEW T, NEW G, <<>> \in G,
           \A s \in Seq(T), x \in T : s \in G => Append(s, x) \in G
    PROVE  Seq(T) \subseteq G
  <1> DEFINE H == {n \in Nat : \A s \in Seq(T) : Len(s) = n => s \in G}
  <1>1. 0 \in H
    <2>1. \A s \in Seq(T) : Len(s) = 0 => s = <<>>
      BY EmptySeq
    <2> QED
      BY <2>1
  <1>2. ASSUME NEW n \in Nat, n \in H
        PROVE  n + 1 \in H
    <2> SUFFICES ASSUME NEW s \in Seq(T), Len(s) = n + 1
                 PROVE  s \in G
      OBVIOUS
    <2>1. s # <<>>
      BY EmptySeq
    <2>2. Front(s) \in Seq(T) /\ Len(Front(s)) = n /\ Last(s) \in T
          /\ s = Append(Front(s), Last(s))
      BY <2>1, FrontAndLast
    <2>3. Front(s) \in G
      BY <1>2, <2>2
    <2> QED
      BY <2>2, <2>3
  <1> HIDE DEF H
  <1>3. Nat \subseteq H
    BY <1>1, <1>2, InductionOnSet
  <1> SUFFICES ASSUME NEW s \in Seq(T) PROVE s \in G
    OBVIOUS
  <1>4. Len(s) \in Nat
    OBVIOUS
  <1> QED
    BY <1>3, <1>4 DEF H

\* The copy made so far and the next of the text.
KeepNext(D, c, x) == IF x \in D THEN c ELSE Append(c, x)

LEMMA KeepNextType ==
    ASSUME NEW T, NEW D, NEW c \in Seq(T), NEW x \in T
    PROVE  KeepNext(D, c, x) \in Seq(T)
  BY DEF KeepNext

\* A text without what is in D is the copy of all of it but that: the copies of its
\* beginnings exist, each made of the one before it.
CopiesKept(k, T, D, t) ==
    /\ k \in [Nat -> Seq(T)] /\ k[0] = <<>>
    /\ \A n \in 0..Len(t) - 1 : k[n + 1] = KeepNext(D, k[n], t[n + 1])
    /\ Without(t, D) = k[Len(t)]
LEMMA WithoutIsKept ==
    ASSUME NEW T, NEW D, NEW t \in Seq(T)
    PROVE  \E k : CopiesKept(k, T, D, t)
  <1> DEFINE S == Seq(T)
             next(n, c) == IF n < Len(t) THEN KeepNext(D, c, t[n + 1]) ELSE c
             h == [n \in Nat |-> [c \in S |-> next(n, c)]]
  <1>0. Len(t) \in Nat /\ \A n \in Nat : n < Len(t) => t[n + 1] \in T
    OBVIOUS
  <1>1. StaysIn(h, S)
    <2>1. ASSUME NEW n \in Nat, NEW c \in S
          PROVE  next(n, c) \in S
      BY <1>0, KeepNextType
    <2> HIDE DEF S, next
    <2> QED
      BY <2>1 DEF StaysIn
  <1>2. <<>> \in S
    OBVIOUS
  <1>3. \A n \in Nat, c \in S : n < Len(t) => h[n][c] = KeepNext(D, c, t[n + 1])
    <2> HIDE DEF S
    <2> QED
      OBVIOUS
  <1> HIDE DEF h
  <1>4. \E g : Iterates(g, h, <<>>, S)
    <2> HIDE DEF S
    <2> QED
      BY <1>1, <1>2, Recursion
  <1> PICK g : Iterates(g, h, <<>>, S)
    BY <1>4
  <1> g \in [Nat -> S] /\ g[0] = <<>> /\ \A n \in Nat : g[n + 1] = h[n][g[n]]
    BY DEF Iterates
  <1>5. \A n \in 0..Len(t) - 1 : g[n + 1] = KeepNext(D, g[n], t[n + 1])
    <2> TAKE n \in 0..Len(t) - 1
    <2>1. n \in Nat /\ n < Len(t)
      BY <1>0
    <2>2. g[n + 1] = h[n][g[n]]
      BY <2>1
    <2> HIDE DEF S
    <2>3. g[n] \in S
      BY <2>1
    <2> QED
      BY <1>3, <2>1, <2>2, <2>3
  <1> DEFINE c == CHOOSE c : c = [n \in 0..Len(t) |->
                                    IF n = 0 THEN <<>> ELSE KeepNext(D, c[n - 1], t[n])]
             f == [n \in 0..Len(t) |-> g[n]]
             made(n) == IF n = 0 THEN <<>> ELSE KeepNext(D, f[n - 1], t[n])
  <1>6. f = [n \in 0..Len(t) |-> IF n = 0 THEN <<>> ELSE KeepNext(D, f[n - 1], t[n])]
    <2>1. ASSUME NEW n \in 0..Len(t)
          PROVE  g[n] = made(n)
      <3>1. CASE n = 0
        BY <3>1
      <3>2. CASE n # 0
        <4>1. n - 1 \in 0..Len(t) - 1 /\ (n - 1) + 1 = n /\ n - 1 \in 0..Len(t)
          BY <1>0, <3>2
        <4>2. g[n] = KeepNext(D, g[n - 1], t[n])
          BY <1>5, <4>1
        <4>3. f[n - 1] = g[n - 1]
          BY <4>1
        <4> QED
          BY <3>2, <4>2, <4>3
      <3> QED
        BY <3>1, <3>2
    <2>2. f = [n \in 0..Len(t) |-> made(n)]
      <3> HIDE DEF made
      <3> QED
        BY <2>1
    <2> QED
      BY <2>2
  <1>7. c = [n \in 0..Len(t) |-> IF n = 0 THEN <<>> ELSE KeepNext(D, c[n - 1], t[n])]
    <2> HIDE DEF f
    <2> QED
      BY <1>6, Zenon
  <1>8. Without(t, D) = c[Len(t)]
    BY Zenon DEF Without, KeepNext
  <1> HIDE DEF c
  <1>9. \A n \in 0..Len(t) : c[n] = g[n]
    <2> DEFINE G == {n \in Nat : n <= Len(t) => c[n] = g[n]}
    <2>1. 0 \in G
      BY <1>0, <1>7
    <2>2. ASSUME NEW n \in Nat, n \in G
          PROVE  n + 1 \in G
      <3> SUFFICES ASSUME n + 1 <= Len(t) PROVE c[n + 1] = g[n + 1]
        OBVIOUS
      <3>1. n \in 0..Len(t) - 1 /\ n + 1 \in 0..Len(t) /\ (n + 1) - 1 = n /\ n + 1 # 0
        BY <1>0
      <3>2. c[n + 1] = KeepNext(D, c[n], t[n + 1])
        BY <1>7, <3>1
      <3>3. c[n] = g[n]
        BY <1>0, <2>2
      <3> QED
        BY <1>5, <3>1, <3>2, <3>3
    <2> HIDE DEF G
    <2>3. Nat \subseteq G
      BY <2>1, <2>2, InductionOnSet
    <2> QED
      BY <1>0, <2>3 DEF G
  <1>10. Len(t) \in 0..Len(t)
    BY <1>0
  <1>11. CopiesKept(g, T, D, t)
    BY <1>5, <1>8, <1>9, <1>10 DEF CopiesKept
  <1> QED
    BY <1>11


\* Nothing is left of nothing.
LEMMA WithoutNone == \A D : Without(<<>>, D) = <<>>
  <1> SUFFICES ASSUME NEW D PROVE Without(<<>>, D) = <<>>
    OBVIOUS
  <1>1. <<>> \in Seq({})
    OBVIOUS
  <1>2. Without(<<>>, D) = <<>>
    <2>1. PICK k : CopiesKept(k, {}, D, <<>>)
      BY <1>1, WithoutIsKept
    <2> QED
      BY <2>1 DEF CopiesKept
  <1> QED
    BY <1>2

\* What follows a text is left out or follows what is left of it.
LEMMA WithoutNext ==
    ASSUME NEW T, NEW D, NEW t \in Seq(T), NEW x \in T
    PROVE  /\ Without(t, D) \in Seq(T)
           /\ Without(Append(t, x), D) = KeepNext(D, Without(t, D), x)
  <1> DEFINE u == Append(t, x)
             N == Len(t)
  <1>1. u \in Seq(T) /\ N \in Nat /\ Len(u) = N + 1 /\ u[N + 1] = x
        /\ \A i \in 1..N : u[i] = t[i]
    BY AppendProperties
  <1> HIDE DEF u
  <1>2. PICK g : CopiesKept(g, T, D, t)
    BY WithoutIsKept
  <1>3. PICK k : CopiesKept(k, T, D, u)
    BY <1>1, WithoutIsKept
  <1> USE DEF CopiesKept
  <1>a. /\ g[0] = <<>> /\ Without(t, D) = g[N] /\ g \in [Nat -> Seq(T)]
        /\ \A n \in 0..N - 1 : g[n + 1] = KeepNext(D, g[n], t[n + 1])
    BY <1>2
  <1>b. /\ k[0] = <<>> /\ Without(u, D) = k[N + 1]
        /\ \A n \in 0..N : k[n + 1] = KeepNext(D, k[n], u[n + 1])
    BY <1>1, <1>3
  <1> HIDE DEF N, CopiesKept
  <1> DEFINE G == {n \in Nat : n <= N => k[n] = g[n]}
  <1>4. 0 \in G
    BY <1>a, <1>b
  <1>5. ASSUME NEW n \in Nat, n \in G
        PROVE  n + 1 \in G
    <2> SUFFICES ASSUME n + 1 <= N PROVE k[n + 1] = g[n + 1]
      OBVIOUS
    <2>1. n \in 0..N - 1 /\ n \in 0..N /\ n + 1 \in 1..N
      BY <1>1
    <2>2. k[n] = g[n]
      BY <1>1, <1>5
    <2>3. u[n + 1] = t[n + 1]
      BY <1>1, <2>1
    <2>4. g[n + 1] = KeepNext(D, g[n], t[n + 1]) /\ k[n + 1] = KeepNext(D, k[n], u[n + 1])
      BY <1>a, <1>b, <2>1
    <2> QED
      BY <2>2, <2>3, <2>4
  <1> HIDE DEF G
  <1>6. k[N] = g[N]
    <2>1. Nat \subseteq G
      BY <1>4, <1>5, InductionOnSet
    <2> QED
      BY <1>1, <2>1 DEF G
  <1>7. k[N + 1] = KeepNext(D, k[N], u[N + 1])
    BY <1>1, <1>b
  <1>8. Without(u, D) = KeepNext(D, Without(t, D), x)
    BY <1>1, <1>6, <1>7, <1>a, <1>b
  <1>9. Without(t, D) \in Seq(T)
    BY <1>1, <1>a
  <1> QED
    BY <1>8, <1>9 DEF u

\* Leaving something out of two texts in a row leaves it out of each.
LEMMA WithoutBoth ==
    ASSUME NEW T, NEW D, NEW s \in Seq(T), NEW t \in Seq(T)
    PROVE  Without(s \o t, D) = Without(s, D) \o Without(t, D)
  <1> DEFINE both(u) == Without(s \o u, D) = Without(s, D) \o Without(u, D)
             G == {u \in Seq(T) : both(u)}
  <1>0. Without(s, D) \in Seq(T)
    <2>1. Without(<<>>, D) \in Seq(T)
      BY WithoutNone, EmptySeq
    <2>2. ASSUME s # <<>> PROVE Without(s, D) \in Seq(T)
      <3>1. PICK f \in Seq(T), l \in T : s = Append(f, l)
        BY <2>2, FrontAndLast
      <3>2. Without(f, D) \in Seq(T) /\ Without(s, D) = KeepNext(D, Without(f, D), l)
        BY <3>1, WithoutNext
      <3> QED
        BY <3>2, KeepNextType
    <2> QED
      BY <2>1, <2>2
  <1>n. ASSUME NEW v \in Seq(T), NEW y \in T
        PROVE  /\ Without(v, D) \in Seq(T)
               /\ Without(Append(v, y), D) = KeepNext(D, Without(v, D), y)
    BY WithoutNext
  <1>1. <<>> \in G
    <2>1. s \o <<>> = s /\ Without(s, D) \o <<>> = Without(s, D)
      BY <1>0, ConcatEmptySeq
    <2> QED
      BY <2>1, WithoutNone, EmptySeq
  <1>2. ASSUME NEW u \in Seq(T), NEW x \in T, u \in G
        PROVE  Append(u, x) \in G
    <2> DEFINE a == Without(s, D)
               b == Without(u, D)
    <2>1. s \o Append(u, x) = Append(s \o u, x) /\ s \o u \in Seq(T)
      OBVIOUS
    <2> HIDE DEF G
    <2>2. /\ Without(Append(u, x), D) = KeepNext(D, b, x) /\ b \in Seq(T)
          /\ Without(Append(s \o u, x), D) = KeepNext(D, Without(s \o u, D), x)
      BY <1>n, <2>1
    <2>3. Without(s \o u, D) = a \o b
      BY <1>2 DEF G
    <2> HIDE DEF a, b
    <2>4. a \o Append(b, x) = Append(a \o b, x)
      <3>1. a \in Seq(T)
        BY <1>0 DEF a
      <3> QED
        BY <2>2, <3>1
    <2>5. KeepNext(D, a \o b, x) = a \o KeepNext(D, b, x)
      BY <2>4 DEF KeepNext
    <2>6. both(Append(u, x))
      BY <2>1, <2>2, <2>3, <2>5 DEF a
    <2> QED
      BY <2>6 DEF G
  <1> HIDE DEF G
  <1>3. Seq(T) \subseteq G
    BY <1>1, <1>2, InductionOnSeq
  <1> QED
    BY <1>3 DEF G

\* Texts put together, one after the other: what the beginnings make exists, each made
\* of the one before it.
JoinedUpTo(k, T, ss) ==
    /\ k \in [Nat -> Seq(T)] /\ k[0] = <<>>
    /\ \A n \in 0..Len(ss) - 1 : k[n + 1] = k[n] \o ss[n + 1]
    /\ FlattenSeq(ss) = k[Len(ss)]
Join(c, x) == c \o x
LEMMA FlattenIsJoined ==
    ASSUME NEW T, NEW ss \in Seq(Seq(T))
    PROVE  \E k : JoinedUpTo(k, T, ss)
  <1> DEFINE S == Seq(T)
             N == Len(ss)
             next(n, c) == IF n < N THEN Join(c, ss[n + 1]) ELSE c
             h == [n \in Nat |-> [c \in S |-> next(n, c)]]
  <1>0. N \in Nat /\ \A n \in Nat : n < N => ss[n + 1] \in S
    OBVIOUS
  <1>1. StaysIn(h, S)
    <2>1. ASSUME NEW n \in Nat, NEW c \in S
          PROVE  next(n, c) \in S
      <3>1. ASSUME NEW x \in S PROVE Join(c, x) \in S
        BY ConcatProperties DEF Join
      <3> HIDE DEF S, N
      <3> QED
        BY <1>0, <3>1
    <2> HIDE DEF S, next
    <2> QED
      BY <2>1 DEF StaysIn
  <1>2. <<>> \in S
    OBVIOUS
  <1>3. \A n \in Nat, c \in S : n < N => h[n][c] = Join(c, ss[n + 1])
    <2> HIDE DEF S
    <2> QED
      OBVIOUS
  <1> HIDE DEF h
  <1>4. \E g : Iterates(g, h, <<>>, S)
    <2> HIDE DEF S
    <2> QED
      BY <1>1, <1>2, Recursion
  <1> PICK g : Iterates(g, h, <<>>, S)
    BY <1>4
  <1>g. g \in [Nat -> S] /\ g[0] = <<>> /\ \A n \in Nat : g[n + 1] = h[n][g[n]]
    BY DEF Iterates
  <1>5. \A n \in 0..N - 1 : g[n + 1] = Join(g[n], ss[n + 1])
    <2> TAKE n \in 0..N - 1
    <2>1. n \in Nat /\ n < N
      BY <1>0
    <2>2. g[n + 1] = h[n][g[n]]
      BY <1>g, <2>1
    <2> HIDE DEF S
    <2>3. g[n] \in S
      BY <1>g, <2>1
    <2> QED
      BY <1>3, <2>1, <2>2, <2>3
  <1>6. FlattenSeq(ss) = g[N]
    <2>1. CASE N = 0
      <3>1. FlattenSeq(ss) = ss
        BY <2>1 DEF FlattenSeq
      <3>2. ss = <<>>
        BY <2>1, EmptySeq
      <3> QED
        BY <1>g, <2>1, <3>1, <3>2
    <2>2. CASE N # 0
      <3> DEFINE c == CHOOSE c : c = [i \in 1..N |-> IF i = 1 THEN ss[i] ELSE c[i - 1] \o ss[i]]
                 f == [n \in 1..N |-> g[n]]
                 made(n) == IF n = 1 THEN ss[n] ELSE f[n - 1] \o ss[n]
      <3>1. FlattenSeq(ss) = c[N]
        BY <2>2, Zenon DEF FlattenSeq
      <3>2. ASSUME NEW n \in 1..N PROVE g[n] = made(n)
        <4>1. n - 1 \in 0..N - 1 /\ (n - 1) + 1 = n /\ n - 1 \in Nat /\ ss[n] \in S
          BY <1>0
        <4>2. g[n] = Join(g[n - 1], ss[n])
          BY <1>5, <4>1
        <4>3. CASE n = 1
          <5>1. g[n] = Join(<<>>, ss[n])
            BY <1>g, <4>2, <4>3
          <5> QED
            BY <4>1, <4>3, <5>1, ConcatEmptySeq DEF Join
        <4>4. CASE n # 1
          <5>1. f[n - 1] = g[n - 1]
            BY <1>0, <4>1, <4>4
          <5> QED
            BY <4>2, <4>4, <5>1 DEF Join
        <4> QED
          BY <4>3, <4>4
      <3>3. f = [n \in 1..N |-> made(n)]
        <4> HIDE DEF made
        <4> QED
          BY <3>2
      <3>4. f = [i \in 1..N |-> IF i = 1 THEN ss[i] ELSE f[i - 1] \o ss[i]]
        <4> HIDE DEF f
        <4> QED
          BY <3>3
      <3>5. c = [i \in 1..N |-> IF i = 1 THEN ss[i] ELSE c[i - 1] \o ss[i]]
        <4> HIDE DEF f
        <4> QED
          BY <3>4, Zenon
      <3> HIDE DEF c
      <3> DEFINE G == {n \in Nat : n + 1 <= N => c[n + 1] = g[n + 1]}
      <3>6. 0 \in G
        <4>1. 1 \in 1..N /\ c[1] = ss[1]
          BY <1>0, <2>2, <3>5
        <4>2. g[1] = made(1)
          BY <3>2, <4>1
        <4> QED
          BY <4>1, <4>2
      <3>7. ASSUME NEW n \in Nat, n \in G PROVE n + 1 \in G
        <4> SUFFICES ASSUME (n + 1) + 1 <= N PROVE c[(n + 1) + 1] = g[(n + 1) + 1]
          OBVIOUS
        <4> PICK m \in Nat : m = n + 1
          OBVIOUS
        <4>1. m + 1 \in 1..N /\ (m + 1) - 1 = m /\ m + 1 # 1 /\ m \in 1..N /\ m + 1 <= N
          BY <1>0
        <4>2. c[m + 1] = c[m] \o ss[m + 1]
          BY <3>5, <4>1
        <4>3. g[m + 1] = made(m + 1) /\ f[m] = g[m]
          BY <3>2, <4>1
        <4>4. made(m + 1) = f[m] \o ss[m + 1]
          <5> HIDE DEF f
          <5> QED
            BY <4>1
        <4>5. c[m] = g[m]
          BY <1>0, <3>7, <4>1
        <4> QED
          BY <4>2, <4>3, <4>4, <4>5
      <3> HIDE DEF G
      <3>8. Nat \subseteq G
        BY <3>6, <3>7, InductionOnSet
      <3>9. N - 1 \in G /\ (N - 1) + 1 = N
        BY <1>0, <2>2, <3>8
      <3> QED
        BY <1>0, <3>1, <3>9 DEF G
    <2> QED
      BY <2>1, <2>2
  <1>7. JoinedUpTo(g, T, ss)
    BY <1>5, <1>6, <1>g DEF JoinedUpTo, Join
  <1> QED
    BY <1>7

\* A file or several, each closed by a line end, and nothing but lines.
Texts == STRING \cup {"nl"}
InLines(f) == WordsApart(f) /\ (f = <<>> \/ Last(f) = "nl")

\* A closed file consists of lines and has the words of the file (copyFileList).
LEMMA ClosedIsInLines ==
    ASSUME NEW f \in Seq(Texts), WordsApart(f)
    PROVE  /\ Closed(f) \in Seq(Texts)
           /\ InLines(Closed(f))
           /\ Without(Closed(f), {"nl"}) = Without(f, {"nl"})
  <1> DEFINE d == Append(f, "nl")
  <1>1. CASE f = <<>> \/ Last(f) = "nl"
    BY <1>1 DEF Closed, InLines
  <1>2. CASE ~ (f = <<>> \/ Last(f) = "nl")
    <2>1. "nl" \in Texts
      BY DEF Texts
    <2>2. d \in Seq(Texts) /\ Len(f) \in Nat /\ Len(d) = Len(f) + 1 /\ d[Len(f) + 1] = "nl"
          /\ \A i \in 1..Len(f) : d[i] = f[i]
      <3> HIDE DEF Texts
      <3> QED
        BY <2>1, AppendProperties
    <2>3. Closed(f) = d
      BY <1>2 DEF Closed
    <2>4. Without(d, {"nl"}) = Without(f, {"nl"})
      <3>1. Without(d, {"nl"}) = KeepNext({"nl"}, Without(f, {"nl"}), "nl")
        BY <2>1, WithoutNext
      <3> QED
        BY <3>1 DEF KeepNext
    <2> HIDE DEF d
    <2>5. Last(d) = "nl"
      BY <2>2 DEF Last
    <2>6. WordsApart(d)
      <3> SUFFICES ASSUME NEW i \in 1..Len(d) - 1, d[i] # "nl" PROVE d[i + 1] = "nl"
        BY DEF WordsApart
      <3>1. CASE i = Len(f)
        BY <2>2, <3>1
      <3>2. CASE i # Len(f)
        <4>1. i \in 1..Len(f) - 1 /\ d[i] = f[i] /\ d[i + 1] = f[i + 1]
          BY <2>2, <3>2
        <4> QED
          BY <4>1 DEF WordsApart
      <3> QED
        BY <3>1, <3>2
    <2> QED
      BY <2>2, <2>3, <2>4, <2>5, <2>6 DEF InLines
  <1> QED
    BY <1>1, <1>2

\* Lines behind lines are lines.
LEMMA LinesBehindLines ==
    ASSUME NEW a \in Seq(Texts), NEW b \in Seq(Texts), InLines(a), InLines(b)
    PROVE  a \o b \in Seq(Texts) /\ InLines(a \o b)
  <1> HIDE DEF Texts
  <1> DEFINE c == a \o b
             m == Len(a)
             n == Len(b)
  <1>1. m \in Nat /\ n \in Nat /\ c \in Seq(Texts) /\ Len(c) = m + n
        /\ \A i \in 1..m + n : c[i] = IF i <= m THEN a[i] ELSE b[i - m]
    BY ConcatProperties
  <1>2. (a # <<>> => m >= 1 /\ a[m] = "nl") /\ (b # <<>> => n >= 1 /\ b[n] = "nl")
    BY EmptySeq DEF InLines, Last
  <1>3. (m = 0 => a = <<>>) /\ (n = 0 => b = <<>>)
    BY EmptySeq
  <1>4. /\ \A i \in 1..m - 1 : a[i] # "nl" => a[i + 1] = "nl"
        /\ \A i \in 1..n - 1 : b[i] # "nl" => b[i + 1] = "nl"
    BY DEF InLines, WordsApart
  <1>5. (m # 0 => a # <<>>) /\ (n # 0 => b # <<>>) /\ (c # <<>> => Len(c) >= 1)
    BY <1>1, EmptySeq
  <1> HIDE DEF c, m, n
  <1>6. c = <<>> \/ Last(c) = "nl"
    <2> SUFFICES ASSUME c # <<>> PROVE c[Len(c)] = "nl"
      BY DEF Last
    <2>1. CASE n = 0
      <3>1. m >= 1 /\ m + n = m /\ m \in 1..m + n /\ m <= m /\ m # 0
        BY <1>1, <1>5, <2>1
      <3>2. c[m] = a[m] /\ a # <<>>
        BY <1>1, <1>5, <3>1
      <3> QED
        BY <1>1, <1>2, <3>1, <3>2
    <2>2. CASE n # 0
      <3>1. b # <<>>
        BY <1>5, <2>2
      <3>2. m + n \in 1..m + n /\ ~ (m + n <= m) /\ (m + n) - m = n
        BY <1>1, <2>2
      <3> QED
        BY <1>1, <1>2, <3>1, <3>2
    <2> QED
      BY <2>1, <2>2
  <1>7. WordsApart(c)
    <2> SUFFICES ASSUME NEW i \in 1..Len(c) - 1, c[i] # "nl" PROVE c[i + 1] = "nl"
      BY DEF WordsApart
    <2>0. i \in 1..m + n /\ i + 1 \in 1..m + n /\ i \in Nat
      BY <1>1
    <2>1. CASE i < m
      <3>1. i \in 1..m - 1 /\ c[i] = a[i] /\ c[i + 1] = a[i + 1]
        BY <1>1, <2>0, <2>1
      <3> QED
        BY <1>4, <3>1
    <2>2. CASE i = m
      <3>1. c[i] = a[m] /\ m # 0 /\ m <= m
        BY <1>1, <2>0, <2>2
      <3> QED
        BY <1>2, <1>5, <3>1
    <2>3. CASE i > m
      <3>1. i - m \in 1..n - 1 /\ c[i] = b[i - m] /\ c[i + 1] = b[(i - m) + 1]
        <4>1. i - m \in 1..n - 1 /\ (i + 1) - m = (i - m) + 1 /\ ~ (i <= m) /\ ~ (i + 1 <= m)
          BY <1>1, <2>0, <2>3
        <4> QED
          BY <1>1, <2>0, <4>1
      <3> QED
        BY <1>4, <3>1
    <2> QED
      BY <1>1, <2>0, <2>1, <2>2, <2>3
  <1> QED
    BY <1>1, <1>6, <1>7 DEF InLines, c

----------------------------------------------------------------------------
(* The rewriting of the hosts.                                             *)

\* What a rewritten text consists of.
Copied == HostRec \cup {Comma}

\* The next of the text leaves a copy a sequence of hosts and separators.
LEMMA CopyNextType ==
    ASSUME NEW copy \in Seq(Copied), NEW x \in HostRec
    PROVE  CopyNext(copy, x) \in Seq(Copied)
  <1>1. x \in Copied /\ Comma \in Copied
    BY DEF Copied
  <1> HIDE DEF Copied
  <1>2. Append(copy, x) \in Seq(Copied) /\ Append(copy, Comma) \in Seq(Copied)
    BY <1>1
  <1> QED
    BY <1>2 DEF CopyNext

\* The rewritten text is the copy of all of it, less a comma at the end: the copies
\* of its beginnings exist, each made of the one before it (escapeHydraHosts).
LEMMA EscapedIsCopied ==
    ASSUME NEW t \in Seq(HostRec)
    PROVE  \E copied \in [Nat -> Seq(Copied)] :
              /\ copied[0] = <<>>
              /\ \A n \in 0..Len(t) - 1 : copied[n + 1] = CopyNext(copied[n], t[n + 1])
              /\ Escaped(t) = LET copy == copied[Len(t)]
                              IN  IF copy # <<>> /\ IsSep(Last(copy)) THEN Front(copy) ELSE copy
  <1> DEFINE S == Seq(Copied)
             next(n, c) == IF n < Len(t) THEN CopyNext(c, t[n + 1]) ELSE c
             h == [n \in Nat |-> [c \in S |-> next(n, c)]]
  <1>0. Len(t) \in Nat /\ \A n \in Nat : n < Len(t) => t[n + 1] \in HostRec
    OBVIOUS
  <1>1. StaysIn(h, S)
    <2>1. ASSUME NEW n \in Nat, NEW c \in S
          PROVE  next(n, c) \in S
      BY <1>0, CopyNextType
    <2> HIDE DEF S, next
    <2> QED
      BY <2>1 DEF StaysIn
  <1>2. <<>> \in S
    OBVIOUS
  <1>3. \A n \in Nat, c \in S : n < Len(t) => h[n][c] = CopyNext(c, t[n + 1])
    <2> HIDE DEF S
    <2> QED
      OBVIOUS
  <1> HIDE DEF h
  <1>4. \E g : Iterates(g, h, <<>>, S)
    <2> HIDE DEF S
    <2> QED
      BY <1>1, <1>2, Recursion
  <1> PICK g : Iterates(g, h, <<>>, S)
    BY <1>4
  <1> g \in [Nat -> S] /\ g[0] = <<>> /\ \A n \in Nat : g[n + 1] = h[n][g[n]]
    BY DEF Iterates
  <1>5. \A n \in 0..Len(t) - 1 : g[n + 1] = CopyNext(g[n], t[n + 1])
    <2> TAKE n \in 0..Len(t) - 1
    <2>1. n \in Nat /\ n < Len(t)
      BY <1>0
    <2>2. g[n + 1] = h[n][g[n]]
      BY <2>1
    <2> HIDE DEF S
    <2>3. g[n] \in S
      BY <2>1
    <2> QED
      BY <1>3, <2>1, <2>2, <2>3
  <1> DEFINE c == CHOOSE c : c = [n \in 0..Len(t) |->
                                    IF n = 0 THEN <<>> ELSE CopyNext(c[n - 1], t[n])]
             f == [n \in 0..Len(t) |-> g[n]]
             made(n) == IF n = 0 THEN <<>> ELSE CopyNext(f[n - 1], t[n])
  <1>6. f = [n \in 0..Len(t) |-> IF n = 0 THEN <<>> ELSE CopyNext(f[n - 1], t[n])]
    <2>1. ASSUME NEW n \in 0..Len(t)
          PROVE  g[n] = made(n)
      <3>1. CASE n = 0
        BY <3>1
      <3>2. CASE n # 0
        <4>1. n - 1 \in 0..Len(t) - 1 /\ (n - 1) + 1 = n /\ n - 1 \in 0..Len(t)
          BY <1>0, <3>2
        <4>2. g[n] = CopyNext(g[n - 1], t[n])
          BY <1>5, <4>1
        <4>3. f[n - 1] = g[n - 1]
          BY <4>1
        <4> QED
          BY <3>2, <4>2, <4>3
      <3> QED
        BY <3>1, <3>2
    <2>2. f = [n \in 0..Len(t) |-> made(n)]
      <3> HIDE DEF made
      <3> QED
        BY <2>1
    <2> QED
      BY <2>2
  <1>7. c = [n \in 0..Len(t) |-> IF n = 0 THEN <<>> ELSE CopyNext(c[n - 1], t[n])]
    <2> HIDE DEF f
    <2> QED
      BY <1>6, Zenon
  <1>8. Escaped(t) = LET copy == c[Len(t)]
                     IN  IF copy # <<>> /\ IsSep(Last(copy)) THEN Front(copy) ELSE copy
    BY Zenon DEF Escaped
  <1> HIDE DEF c
  <1>9. \A n \in 0..Len(t) : c[n] = g[n]
    <2> DEFINE G == {n \in Nat : n <= Len(t) => c[n] = g[n]}
    <2>1. 0 \in G
      BY <1>0, <1>7
    <2>2. ASSUME NEW n \in Nat, n \in G
          PROVE  n + 1 \in G
      <3> SUFFICES ASSUME n + 1 <= Len(t) PROVE c[n + 1] = g[n + 1]
        OBVIOUS
      <3>1. n \in 0..Len(t) - 1 /\ n + 1 \in 0..Len(t) /\ (n + 1) - 1 = n /\ n + 1 # 0
        BY <1>0
      <3>2. c[n + 1] = CopyNext(c[n], t[n + 1])
        BY <1>7, <3>1
      <3>3. c[n] = g[n]
        BY <1>0, <2>2
      <3> QED
        BY <1>5, <3>1, <3>2, <3>3
    <2> HIDE DEF G
    <2>3. Nat \subseteq G
      BY <2>1, <2>2, InductionOnSet
    <2> QED
      BY <1>0, <2>3 DEF G
  <1>10. Len(t) \in 0..Len(t)
    BY <1>0
  <1> QED
    BY <1>5, <1>8, <1>9, <1>10

\* Rewriting the hosts keeps every host in its place (escapeHydraHosts).
LEMMA EscapedKeepsHosts ==
    ASSUME NEW t \in Seq(HostRec)
    PROVE  Without(Escaped(t), Separators) = Without(t, Separators)
  <1> DEFINE D == Separators
             N == Len(t)
  <1>0. N \in Nat /\ \A n \in Nat : n < N => t[n + 1] \in HostRec
    OBVIOUS
  <1>1. PICK g \in [Nat -> Seq(Copied)] :
              /\ g[0] = <<>>
              /\ \A n \in 0..Len(t) - 1 : g[n + 1] = CopyNext(g[n], t[n + 1])
              /\ Escaped(t) = LET copy == g[Len(t)]
                              IN  IF copy # <<>> /\ IsSep(Last(copy)) THEN Front(copy) ELSE copy
    BY EscapedIsCopied
  <1>2. PICK k : CopiesKept(k, HostRec, D, t)
    BY WithoutIsKept
  <1>3. /\ k[0] = <<>> /\ Without(t, D) = k[N]
        /\ \A n \in 0..N - 1 : k[n + 1] = KeepNext(D, k[n], t[n + 1])
    BY <1>2 DEF CopiesKept
  <1>4. \A x : IsSep(x) <=> x \in D
    BY DEF IsSep
  <1>5. Comma \in D /\ Comma \in Copied /\ HostRec \subseteq Copied
    BY DEF Comma, Separators, Copied
  <1> HIDE DEF D, N
  <1>6. ASSUME NEW c \in Seq(Copied), NEW x \in Copied
        PROVE  Without(Append(c, x), D) = KeepNext(D, Without(c, D), x)
    BY WithoutNext
  <1>7. ASSUME NEW c \in Seq(Copied), NEW x \in HostRec
        PROVE  Without(CopyNext(c, x), D) = KeepNext(D, Without(c, D), x)
    <2>0. x \in Copied
      BY <1>5
    <2>1. CASE ~ IsSep(x)
      <3>1. CopyNext(c, x) = Append(c, x)
        BY <2>1 DEF CopyNext
      <3> QED
        BY <1>6, <2>0, <3>1
    <2>2. CASE IsSep(x)
      <3>1. KeepNext(D, Without(c, D), x) = Without(c, D)
        BY <1>4, <2>2 DEF KeepNext
      <3>2. Without(Append(c, Comma), D) = Without(c, D)
        BY <1>5, <1>6 DEF KeepNext
      <3>3. CopyNext(c, x) \in {c, Append(c, Comma)}
        BY <2>2 DEF CopyNext
      <3> QED
        BY <3>1, <3>2, <3>3
    <2> QED
      BY <2>1, <2>2
  <1> DEFINE G == {n \in Nat : n <= N => Without(g[n], D) = k[n]}
  <1>8. 0 \in G
    BY <1>1, <1>3, WithoutNone
  <1>9. ASSUME NEW n \in Nat, n \in G
        PROVE  n + 1 \in G
    <2> SUFFICES ASSUME n + 1 <= N PROVE Without(g[n + 1], D) = k[n + 1]
      OBVIOUS
    <2>1. n \in 0..N - 1 /\ n < N /\ n <= N /\ g[n] \in Seq(Copied)
      BY <1>0
    <2>2. Without(g[n], D) = k[n]
      BY <1>9, <2>1
    <2>3. g[n + 1] = CopyNext(g[n], t[n + 1]) /\ t[n + 1] \in HostRec
      BY <1>0, <1>1, <2>1 DEF N
    <2>4. Without(g[n + 1], D) = KeepNext(D, Without(g[n], D), t[n + 1])
      BY <1>7, <2>1, <2>3
    <2>5. k[n + 1] = KeepNext(D, k[n], t[n + 1])
      BY <1>3, <2>1
    <2> QED
      BY <2>2, <2>4, <2>5
  <1> HIDE DEF G
  <1>10. Without(g[N], D) = Without(t, D)
    <2>1. Nat \subseteq G
      BY <1>8, <1>9, InductionOnSet
    <2>2. N \in G
      BY <1>0, <2>1
    <2> QED
      BY <1>0, <1>3, <2>2 DEF G
  <1>11. Without(Escaped(t), D) = Without(g[N], D)
    <2> PICK c \in Seq(Copied) : c = g[N]
      BY <1>0, <1>1
    <2>1. CASE c # <<>> /\ IsSep(Last(c))
      <3>1. PICK f \in Seq(Copied), x \in Copied : f = Front(c) /\ x = Last(c) /\ c = Append(f, x)
        BY <2>1, FrontAndLast
      <3>2. Without(c, D) = Without(f, D)
        BY <1>4, <1>6, <2>1, <3>1 DEF KeepNext
      <3>3. Escaped(t) = f
        BY <1>1, <2>1, <3>1 DEF N
      <3> QED
        BY <3>2, <3>3
    <2>2. CASE ~ (c # <<>> /\ IsSep(Last(c)))
      <3>1. Escaped(t) = c
        BY <1>1, <2>2 DEF N
      <3> QED
        BY <3>1
    <2> QED
      BY <2>1, <2>2
  <1> QED
    BY <1>10, <1>11 DEF D

\* What can be said of the copy of the first n of a text of hosts: hosts and commas
\* in turn, from a host to what stands at n.
FairCopy(c, x) ==
    /\ c \in Seq(Copied)
    /\ Len(c) >= 1
    /\ ~ IsSep(c[1])
    /\ IsSep(c[Len(c)]) <=> IsSep(x)
    /\ \A i \in 1..Len(c) : IsSep(c[i]) => c[i] = Comma
    /\ \A i \in 1..Len(c) - 1 : IsSep(c[i]) <=> ~ IsSep(c[i + 1])

\* The next of the text leaves the copy a fair one, as long as no two hosts follow
\* each other.
LEMMA CopyNextFair ==
    ASSUME NEW c, NEW x, NEW y \in HostRec, FairCopy(c, x), IsSep(x) \/ IsSep(y)
    PROVE  FairCopy(CopyNext(c, y), y)
  <1> USE DEF FairCopy
  <1>0. c \in Seq(Copied) /\ Len(c) \in Nat /\ Len(c) >= 1 /\ c # <<>>
    OBVIOUS
  <1>1. Last(c) = c[Len(c)]
    BY DEF Last
  <1>2. IsSep(Comma)
    BY DEF IsSep, Separators, Comma
  <1>3. CopyNext(c, y) \in Seq(Copied)
    BY <1>0, CopyNextType
  <1>4. CASE IsSep(y) /\ IsSep(x)
    <2>1. CopyNext(c, y) = c
      BY <1>1, <1>4 DEF CopyNext
    <2> QED
      BY <1>4, <2>1
  <1>5. ASSUME NEW z \in Copied, CopyNext(c, y) = Append(c, z),
               IsSep(z) <=> IsSep(y), IsSep(z) => z = Comma, IsSep(z) <=> ~ IsSep(x)
        PROVE  FairCopy(CopyNext(c, y), y)
    <2> DEFINE d == Append(c, z)
    <2>1. d \in Seq(Copied) /\ Len(d) = Len(c) + 1 /\ d[Len(c) + 1] = z
          /\ \A i \in 1..Len(c) : d[i] = c[i]
      BY <1>0
    <2> HIDE DEF d
    <2>2. ~ IsSep(d[1])
      BY <1>0, <2>1
    <2>3. IsSep(d[Len(d)]) <=> IsSep(y)
      BY <1>5, <2>1
    <2>4. ASSUME NEW i \in 1..Len(d), IsSep(d[i])
          PROVE  d[i] = Comma
      <3>1. CASE i <= Len(c)
        BY <1>0, <2>1, <2>4, <3>1
      <3>2. CASE i = Len(c) + 1
        BY <1>5, <2>1, <2>4, <3>2
      <3> QED
        BY <1>0, <2>1, <3>1, <3>2
    <2>5. ASSUME NEW i \in 1..Len(d) - 1
          PROVE  IsSep(d[i]) <=> ~ IsSep(d[i + 1])
      <3>1. CASE i < Len(c)
        <4>1. i \in 1..Len(c) - 1 /\ i \in 1..Len(c) /\ i + 1 \in 1..Len(c)
          BY <1>0, <2>1, <3>1
        <4> QED
          BY <2>1, <4>1
      <3>2. CASE i = Len(c)
        <4>1. d[i] = c[Len(c)] /\ d[i + 1] = z
          BY <1>0, <2>1, <3>2
        <4> QED
          BY <1>5, <4>1
      <3> QED
        BY <1>0, <2>1, <3>1, <3>2
    <2>6. CopyNext(c, y) = d
      BY <1>5 DEF d
    <2> QED
      BY <1>0, <2>1, <2>2, <2>3, <2>4, <2>5, <2>6
  <1>6. CASE IsSep(y) /\ ~ IsSep(x)
    <2>1. CopyNext(c, y) = Append(c, Comma) /\ Comma \in Copied
      BY <1>0, <1>1, <1>6 DEF CopyNext, Copied
    <2> QED
      BY <1>2, <1>5, <1>6, <2>1
  <1>7. CASE ~ IsSep(y) /\ IsSep(x)
    <2>1. CopyNext(c, y) = Append(c, y) /\ y \in Copied
      BY <1>7 DEF CopyNext, Copied
    <2> QED
      BY <1>5, <1>7, <2>1
  <1> QED
    BY <1>4, <1>6, <1>7

\* Hosts with separators between them become hosts with one comma between them.
LEMMA EscapedIsFair ==
    ASSUME NEW t \in Seq(HostRec), HostsAlternate(t)
    PROVE  FairCopy(Escaped(t), t[Len(t)]) /\ ~ IsSep(t[Len(t)])
  <1>0. Len(t) \in Nat /\ Len(t) >= 1 /\ t[1] \in HostRec
        /\ \A n \in Nat : n < Len(t) => t[n + 1] \in HostRec
    BY DEF HostsAlternate
  <1>1. ~ IsSep(t[1]) /\ ~ IsSep(t[Len(t)])
        /\ \A i \in 1..Len(t) - 1 : IsSep(t[i]) \/ IsSep(t[i + 1])
    BY DEF HostsAlternate, Last
  <1>2. PICK g \in [Nat -> Seq(Copied)] :
              /\ g[0] = <<>>
              /\ \A n \in 0..Len(t) - 1 : g[n + 1] = CopyNext(g[n], t[n + 1])
              /\ Escaped(t) = LET copy == g[Len(t)]
                              IN  IF copy # <<>> /\ IsSep(Last(copy)) THEN Front(copy) ELSE copy
    BY EscapedIsCopied
  <1> DEFINE G == {n \in Nat : n < Len(t) => FairCopy(g[n + 1], t[n + 1])}
  <1>3. 0 \in G
    <2>1. g[1] = CopyNext(<<>>, t[1])
      <3>1. 0 \in 0..Len(t) - 1 /\ 0 + 1 = 1
        BY <1>0
      <3> QED
        BY <1>2, <3>1
    <2>2. g[1] = Append(<<>>, t[1])
      BY <1>1, <2>1 DEF CopyNext
    <2>3. t[1] \in Copied
      BY <1>0 DEF Copied
    <2>4. g[1] = <<t[1]>> /\ g[1] \in Seq(Copied) /\ Len(g[1]) = 1 /\ g[1][1] = t[1]
      <3> HIDE DEF Copied
      <3> QED
        BY <2>2, <2>3
    <2>5. FairCopy(g[1], t[1])
      BY <1>1, <2>4 DEF FairCopy
    <2> QED
      BY <2>5
  <1>4. ASSUME NEW n \in Nat, n \in G
        PROVE  n + 1 \in G
    <2> SUFFICES ASSUME n + 1 < Len(t)
                 PROVE  FairCopy(g[(n + 1) + 1], t[(n + 1) + 1])
      OBVIOUS
    <2> PICK m \in Nat : m = n + 1
      OBVIOUS
    <2>1. m \in 0..Len(t) - 1 /\ m \in 1..Len(t) - 1 /\ n < Len(t)
      <3> HIDE DEF G
      <3>1. Len(t) \in Nat /\ m < Len(t) /\ m >= 1
        BY <1>0
      <3> QED
        BY <3>1
    <2>2. FairCopy(g[m], t[m])
      BY <1>4, <2>1
    <2>3. g[m + 1] = CopyNext(g[m], t[m + 1])
      BY <1>2, <2>1
    <2>4. IsSep(t[m]) \/ IsSep(t[m + 1])
      BY <1>1, <2>1
    <2>5. t[m + 1] \in HostRec
      BY <1>0
    <2>6. FairCopy(g[m + 1], t[m + 1])
      BY <2>2, <2>3, <2>4, <2>5, CopyNextFair
    <2> QED
      BY <2>6
  <1>5. FairCopy(g[Len(t)], t[Len(t)])
    <2> HIDE DEF G
    <2>1. Nat \subseteq G
      BY <1>3, <1>4, InductionOnSet
    <2>2. Len(t) - 1 \in Nat /\ Len(t) - 1 < Len(t) /\ (Len(t) - 1) + 1 = Len(t)
      BY <1>0
    <2>3. Len(t) - 1 \in G
      BY <2>1, <2>2
    <2> QED
      BY <2>2, <2>3 DEF G
  <1>6. ~ IsSep(Last(g[Len(t)]))
    BY <1>1, <1>5 DEF FairCopy, Last
  <1>7. Escaped(t) = g[Len(t)]
    BY <1>2, <1>6
  <1> QED
    BY <1>1, <1>5, <1>7

\* A host or a block that stands alone stays as it is.
LEMMA AloneStays ==
    ASSUME NEW t \in Seq(HostRec), Len(t) = 1, ~ IsSep(t[1])
    PROVE  Escaped(t) = t
  <1>0. t[1] \in HostRec
    OBVIOUS
  <1>2. PICK g \in [Nat -> Seq(Copied)] :
              /\ g[0] = <<>>
              /\ \A n \in 0..Len(t) - 1 : g[n + 1] = CopyNext(g[n], t[n + 1])
              /\ Escaped(t) = LET copy == g[Len(t)]
                              IN  IF copy # <<>> /\ IsSep(Last(copy)) THEN Front(copy) ELSE copy
    BY EscapedIsCopied
  <1>3. 0 \in 0..Len(t) - 1 /\ 0 + 1 = 1
    OBVIOUS
  <1>4. g[1] = CopyNext(<<>>, t[1])
    BY <1>2, <1>3
  <1>5. g[1] = Append(<<>>, t[1])
    BY <1>4 DEF CopyNext
  <1>6. g[1] = t
    <2>1. Append(<<>>, t[1]) = <<t[1]>>
      OBVIOUS
    <2>2. t = <<t[1]>>
      OBVIOUS
    <2> QED
      BY <1>5, <2>1, <2>2
  <1>7. Last(g[1]) = t[1]
    BY <1>6 DEF Last
  <1> QED
    BY <1>2, <1>6, <1>7

\* What the client lets through, rewritten, fits the daemon's pattern.
LEMMA RewrittenFits ==
    ASSUME NEW h \in [type : STRING, text : Seq(HostRec)], ChkHydraHosts(h)
    PROVE  ChkHydraHostsIntern([h EXCEPT !.text = Escaped(h.text)])
  <1> DEFINE e == Escaped(h.text)
             k == [h EXCEPT !.text = e]
  <1>1. h.text \in Seq(HostRec) /\ k.type = h.type /\ k.text = e
    OBVIOUS
  <1> HIDE DEF k
  <1>2. CASE h.type = "list"
    <2>1. HostsAlternate(h.text)
      BY <1>2 DEF ChkHydraHosts
    <2>2. FairCopy(e, h.text[Len(h.text)]) /\ ~ IsSep(h.text[Len(h.text)])
      BY <1>1, <2>1, EscapedIsFair
    <2> HIDE DEF e
    <2>3. e \in Seq(Copied) /\ Len(e) \in Nat /\ Len(e) >= 1
      BY <2>2 DEF FairCopy
    <2>4. Head(e) = e[1] /\ Last(e) = e[Len(e)] /\ e # <<>>
      BY <2>3 DEF Last
    <2>5. HostsAlternate(e)
      BY <2>2, <2>4 DEF FairCopy, HostsAlternate
    <2>6. ASSUME NEW i \in 1..Len(e) - 1, IsSep(e[i])
          PROVE  e[i].ip = "," /\ ~ IsSep(e[i + 1])
      <3>1. i \in 1..Len(e)
        BY <2>3
      <3>2. e[i] = Comma /\ ~ IsSep(e[i + 1])
        BY <2>2, <2>6, <3>1 DEF FairCopy
      <3>3. Comma.ip = ","
        BY DEF Comma
      <3> QED
        BY <3>2, <3>3
    <2>7. ChkHydraHosts(k)
      BY <1>1, <1>2, <2>5 DEF ChkHydraHosts
    <2>8. \A i \in 1..Len(k.text) - 1 : IsSep(k.text[i]) =>
              k.text[i].ip = "," /\ ~ IsSep(k.text[i + 1])
      BY <1>1, <2>6
    <2>9. ChkHydraHostsIntern(k)
      BY <2>7, <2>8 DEF ChkHydraHostsIntern
    <2> QED
      BY <2>9 DEF k, e
  <1>3. CASE h.type # "list"
    <2>1. Len(h.text) = 1 /\ ~ IsSep(h.text[1])
      BY <1>3 DEF ChkHydraHosts
    <2>2. e = h.text
      BY <1>1, <2>1, AloneStays
    <2> HIDE DEF e
    <2>3. 1..Len(e) - 1 = {}
      BY <2>1, <2>2
    <2>4. ChkHydraHosts(k)
      BY <1>1, <1>3, <2>1, <2>2 DEF ChkHydraHosts
    <2>5. \A i \in 1..Len(k.text) - 1 : IsSep(k.text[i]) =>
              k.text[i].ip = "," /\ ~ IsSep(k.text[i + 1])
      BY <1>1, <2>3
    <2>6. ChkHydraHostsIntern(k)
      BY <2>4, <2>5 DEF ChkHydraHostsIntern
    <2> QED
      BY <2>6 DEF k, e
  <1> QED
    BY <1>2, <1>3

----------------------------------------------------------------------------
(* The inductive invariant.                                                *)

\* A sequence that is made of one more by Append is made of one less.
LEMMA OneMore ==
    ASSUME NEW n \in Nat, NEW f, NEW s, s = [i \in 1..n |-> f[i]]
    PROVE  Append(s, f[n + 1]) = [i \in 1..n + 1 |-> f[i]]
  <1> DEFINE S == {f[i] : i \in 1..n + 1}
             d == Append(s, f[n + 1])
             e == [i \in 1..n + 1 |-> f[i]]
  <1>1. f[n + 1] \in S /\ \A i \in 1..n : f[i] \in S
    OBVIOUS
  <1>2. \A i \in 1..n + 1 : f[i] \in S
    OBVIOUS
  <1> HIDE DEF S
  <1>3. s \in Seq(S) /\ Len(s) = n
    BY <1>1
  <1>4. e \in Seq(S) /\ Len(e) = n + 1
    BY <1>2
  <1>5. d \in Seq(S) /\ Len(d) = n + 1 /\ d[n + 1] = f[n + 1] /\ \A i \in 1..n : d[i] = s[i]
    BY <1>1, <1>3
  <1>6. \A i \in 1..n + 1 : d[i] = e[i]
    <2> TAKE i \in 1..n + 1
    <2>1. CASE i = n + 1
      BY <1>5, <2>1
    <2>2. CASE i \in 1..n
      <3> HIDE DEF d
      <3> QED
        BY <1>5, <2>2
    <2> QED
      BY <2>1, <2>2
  <1> HIDE DEF d, e
  <1>7. d = e
    BY <1>4, <1>5, <1>6, SeqEqual
  <1> QED
    BY <1>7 DEF d, e

\* Without a rewriting there is nothing to reject and nothing has run.
LEMMA InitInv == Init => IInv
  <1> SUFFICES ASSUME Init PROVE IInv
    OBVIOUS
  <1>1. stage = "sent" /\ req = asked /\ asked \in Requests /\ ran = <<>>
    BY DEF Init
  <1> QED
    BY <1>1 DEF IInv, FilesTypeOK, Rewritten, PassedClient, FilesMade, CronMade, RanInTurn, Accepted

\* What a request is.
LEMMA AskedType ==
    ASSUME FilesTypeOK
    PROVE  /\ asked \in [hosts : HostTexts, services : ServiceTexts, opts : OptTexts,
                         logins : LoginTexts, sched : Schedules]
           /\ asked.hosts \in [type : STRING, text : Seq(HostRec)]
           /\ asked.services \in Seq(STRING)
           /\ Len(asked.services) \in Nat
           /\ asked.opts \in Word
           /\ asked.sched.list \in Seq(STRING)
  <1>1. asked \in [hosts : HostTexts, services : ServiceTexts, opts : OptTexts,
                   logins : LoginTexts, sched : Schedules]
    BY DEF FilesTypeOK, Requests
  <1>2. asked.hosts \in HostTexts /\ asked.services \in ServiceTexts
        /\ asked.opts \in OptTexts /\ asked.sched \in Schedules
    BY <1>1
  <1>3. asked.services \in Seq(STRING)
    BY <1>2, HydraFilesAssumption
  <1>4. asked.sched \in [type : STRING, first : [year : Nat, month : Nat, day : STRING],
                         list : Seq(STRING)]
    BY <1>2, HydraFilesAssumption
  <1>5. asked.hosts \in [type : STRING, text : Seq(HostRec)] /\ asked.opts \in Word
    BY <1>2, HydraFilesAssumption
  <1>6. asked.sched.list \in Seq(STRING)
    BY <1>4
  <1> QED
    BY <1>1, <1>3, <1>5, <1>6, LenProperties

\* A request that is sent on keeps all but its hosts' text.
LEMMA RewrittenKeeps ==
    ASSUME FilesTypeOK, Rewritten, stage \notin {"sent", "refused"}
    PROVE  /\ req.services = asked.services
           /\ req.sched = asked.sched
           /\ req.opts = asked.opts
           /\ req.logins = asked.logins
           /\ req.hosts = [asked.hosts EXCEPT !.text = Escaped(asked.hosts.text)]
  <1>1. asked \in [hosts : HostTexts, services : ServiceTexts, opts : OptTexts,
                   logins : LoginTexts, sched : Schedules]
    BY AskedType
  <1>2. req = [asked EXCEPT !.hosts.text = Escaped(asked.hosts.text)]
    BY DEF Rewritten
  <1> QED
    BY <1>1, <1>2

\* The client's check and its rewriting.
LEMMA SendCreateKeeps ==
    ASSUME IInv, SendCreate
    PROVE  IInv'
  <1> USE DEF IInv, SendCreate
  <1>1. req = asked /\ ran = <<>> /\ ran' = ran /\ asked' = asked
        /\ stage' \in {"queued", "refused"} /\ stage = "sent"
    BY DEF Rewritten, RanInTurn
  <1>2. FilesTypeOK'
    BY <1>1 DEF FilesTypeOK, Requests
  <1>3. Rewritten'
    <2>1. CASE stage' = "queued"
      <3>1. req' = [req EXCEPT !.hosts.text = Escaped(req.hosts.text)]
        BY <2>1
      <3> QED
        BY <1>1, <2>1, <3>1 DEF Rewritten
    <2>2. CASE stage' = "refused"
      BY <1>1, <2>2 DEF Rewritten
    <2> QED
      BY <1>1, <2>1, <2>2
  <1>4. PassedClient'
    BY <1>1 DEF PassedClient, ChkHydraHosts, ChkServices, ChkScheduleParam, HostsAlternate
  <1>5. FilesMade' /\ CronMade' /\ RanInTurn' /\ Accepted'
    BY <1>1 DEF FilesMade, CronMade, RanInTurn, Accepted
  <1> QED
    BY <1>2, <1>3, <1>4, <1>5

\* The daemon's check finds nothing to reject.
LEMMA CheckCreateKeeps ==
    ASSUME IInv, CheckCreate
    PROVE  IInv'
  <1> USE DEF IInv, CheckCreate
  <1>1. stage = "queued" /\ asked' = asked /\ req' = req /\ ran' = ran /\ ran = <<>>
    BY DEF RanInTurn
  <1>2. ChkHydraHosts(asked.hosts) /\ ChkServices(asked.services) /\ ChkScheduleParam(asked.sched)
    BY <1>1 DEF PassedClient
  <1>3. req.services = asked.services /\ req.sched = asked.sched
        /\ req.hosts = [asked.hosts EXCEPT !.text = Escaped(asked.hosts.text)]
    BY <1>1, RewrittenKeeps
  <1>4. asked.hosts \in [type : STRING, text : Seq(HostRec)]
    BY AskedType
  <1>5. ChkHydraHostsIntern(req.hosts)
    BY <1>2, <1>3, <1>4, RewrittenFits
  <1>6. stage' = "checked"
    BY <1>2, <1>3, <1>5
  <1>7. FilesTypeOK' /\ Rewritten'
    BY <1>1, <1>6 DEF FilesTypeOK, Rewritten, Requests
  <1>8. PassedClient'
    BY <1>1, <1>2
       DEF PassedClient, ChkHydraHosts, ChkServices, ChkScheduleParam, HostsAlternate
  <1>9. FilesMade' /\ CronMade' /\ RanInTurn' /\ Accepted'
    BY <1>1, <1>6 DEF FilesMade, CronMade, RanInTurn, Accepted
  <1> QED
    BY <1>7, <1>8, <1>9

\* The files are made as the request says, or there are none.
LEMMA WriteFilesKeeps ==
    ASSUME IInv, WriteFiles
    PROVE  IInv'
  <1> USE DEF IInv, WriteFiles
  <1>1. stage = "checked" /\ asked' = asked /\ req' = req /\ ran' = ran /\ ran = <<>>
        /\ stage' \in {"failed", "created"}
    BY DEF RanInTurn
  <1>2. FilesTypeOK' /\ Rewritten'
    BY <1>1 DEF FilesTypeOK, Rewritten, Requests
  <1>3. PassedClient'
    BY <1>1 DEF PassedClient, ChkHydraHosts, ChkServices, ChkScheduleParam, HostsAlternate
  <1>4. CronMade'
    <2>1. req.sched = asked.sched
      BY <1>1, RewrittenKeeps
    <2>2. stage' = "created" =>
             cron' = IF req.sched.type # "none" THEN FormatCronTask(req.sched) ELSE <<>>
      BY <1>1
    <2>3. stage' = "created" =>
             cron' = IF asked'.sched.type # "none" THEN FormatCronTask(asked'.sched) ELSE <<>>
      BY <1>1, <2>1, <2>2
    <2> QED
      BY <2>3 DEF CronMade
  <1>5. RanInTurn' /\ Accepted'
    BY <1>1 DEF RanInTurn, Accepted
  <1>6. FilesMade'
    BY <1>1 DEF FilesMade
  <1> QED
    BY <1>2, <1>3, <1>4, <1>5, <1>6

\* Where nothing but the runner's state changes, what was made and passed stays.
LEMMA RunnerKeeps ==
    ASSUME IInv, asked' = asked, req' = req, login' = login, ipList' = ipList,
           stage \in {"created", "running"}, stage' \in {"running", "ended"}
    PROVE  FilesTypeOK' /\ Rewritten' /\ PassedClient' /\ FilesMade' /\ CronMade' /\ Accepted'
  <1> USE DEF IInv
  <1>1. FilesTypeOK' /\ Rewritten'
    BY DEF FilesTypeOK, Rewritten, Requests
  <1>2. PassedClient'
    BY DEF PassedClient, ChkHydraHosts, ChkServices, ChkScheduleParam, HostsAlternate
  <1>3. CronMade' /\ Accepted'
    BY DEF CronMade, Accepted
  <1>4. FilesMade'
    BY DEF FilesMade, ConvIPsByLine, CopyFileList
  <1> QED
    BY <1>1, <1>2, <1>3, <1>4

\* A runner starts in front of all services.
LEMMA RunHydraKeeps ==
    ASSUME IInv, RunHydra
    PROVE  IInv'
  <1> USE DEF RunHydra
  <1>1. stage = "created" /\ stage' = "running" /\ asked' = asked /\ req' = req
        /\ ran' = ran /\ ran = <<>>
    BY DEF IInv, RanInTurn
  <1>2. FilesTypeOK' /\ Rewritten' /\ PassedClient' /\ FilesMade' /\ CronMade' /\ Accepted'
    BY <1>1, RunnerKeeps
  <1>3. RanInTurn'
    <2>1. params' = GenCmdParams(req')
      BY <1>1
    <2>2. asked.services \in Seq(STRING) /\ Len(asked.services) \in Nat
      BY AskedType DEF IInv
    <2>3. ran' = [i \in 1..0 |-> RunOf(params', asked'.services[i])]
      BY <1>1
    <2>4. rest' = SubSeq(asked'.services, 0 + 1, Len(asked'.services))
      <3>1. rest' = asked.services
        BY <1>1, RewrittenKeeps DEF IInv
      <3> QED
        BY <1>1, <2>2, <3>1
    <2>5. 0 \in 0..Len(asked'.services)
      BY <1>1, <2>2
    <2> QED
      BY <1>1, <2>1, <2>3, <2>4, <2>5 DEF RanInTurn
  <1> QED
    BY <1>2, <1>3 DEF IInv

\* The next service is the one at the runner's place, and is behind it then.
LEMMA NextServiceKeeps ==
    ASSUME IInv, NextService
    PROVE  IInv'
  <1> USE DEF NextService
  <1>1. stage = "running" /\ stage' = stage /\ asked' = asked /\ req' = req /\ params' = params
    OBVIOUS
  <1>2. FilesTypeOK' /\ Rewritten' /\ PassedClient' /\ FilesMade' /\ CronMade' /\ Accepted'
    BY <1>1, RunnerKeeps
  <1>3. RanInTurn'
    <2> DEFINE s == asked.services
               f == [i \in Nat |-> RunOf(params, s[i])]
    <2>1. s \in Seq(STRING) /\ Len(s) \in Nat
      BY AskedType DEF IInv
    <2>2. params = GenCmdParams(req)
      BY <1>1 DEF IInv, RanInTurn
    <2> PICK n \in 0..Len(s) : ran = [i \in 1..n |-> RunOf(params, s[i])]
                               /\ rest = SubSeq(s, n + 1, Len(s))
      BY <1>1 DEF IInv, RanInTurn
    <2> HIDE DEF s
    <2>3. rest # <<>>
      BY DEF Tokens
    <2>4. n < Len(s) /\ n + 1 \in 0..Len(s) /\ n + 1 \in 1..Len(s)
      BY <2>1, <2>3
    <2>5. Head(rest) = s[n + 1] /\ Tail(rest) = SubSeq(s, (n + 1) + 1, Len(s))
      BY <2>1, <2>4
    <2>6. ran = [i \in 1..n |-> f[i]]
      OBVIOUS
    <2>7. ran' = Append(ran, f[n + 1])
      BY <2>4, <2>5 DEF RunOf
    <2> PICK k \in 0..Len(s) : k = n + 1
      BY <2>4
    <2>8. ran' = [i \in 1..k |-> f[i]]
      <3> HIDE DEF f
      <3> QED
        BY <2>6, <2>7, OneMore
    <2>9. ran' = [i \in 1..k |-> RunOf(params', asked'.services[i])]
      <3>1. \A i \in 1..k : f[i] = RunOf(params', asked'.services[i])
        BY <1>1 DEF s
      <3> HIDE DEF f
      <3> QED
        BY <2>8, <3>1
    <2>10. rest' = SubSeq(asked'.services, k + 1, Len(asked'.services))
      BY <1>1, <2>5 DEF s
    <2>11. params' = GenCmdParams(req')
      BY <1>1, <2>2
    <2>12. k \in 0..Len(asked'.services)
      BY <1>1 DEF s
    <2> QED
      BY <1>1, <2>9, <2>10, <2>11, <2>12 DEF RanInTurn
  <1> QED
    BY <1>2, <1>3 DEF IInv

\* The runner ends with no service left.
LEMMA NoMoreServicesKeeps ==
    ASSUME IInv, NoMoreServices
    PROVE  IInv'
  <1> USE DEF NoMoreServices
  <1>1. stage = "running" /\ stage' = "ended" /\ asked' = asked /\ req' = req
        /\ params' = params /\ rest' = rest /\ ran' = ran /\ Tokens(rest) = <<>>
    OBVIOUS
  <1>2. FilesTypeOK' /\ Rewritten' /\ PassedClient' /\ FilesMade' /\ CronMade' /\ Accepted'
    BY <1>1, RunnerKeeps
  <1>3. RanInTurn'
    <2>1. params = GenCmdParams(req)
      BY <1>1 DEF IInv, RanInTurn
    <2> PICK n \in 0..Len(asked.services) :
               ran = [i \in 1..n |-> RunOf(params, asked.services[i])]
               /\ rest = SubSeq(asked.services, n + 1, Len(asked.services))
      BY <1>1 DEF IInv, RanInTurn
    <2>2. Tokens(rest') = <<>>
      BY <1>1
    <2>3. n \in 0..Len(asked'.services)
          /\ ran' = [i \in 1..n |-> RunOf(params', asked'.services[i])]
          /\ rest' = SubSeq(asked'.services, n + 1, Len(asked'.services))
      BY <1>1
    <2>4. params' = GenCmdParams(req')
      BY <1>1, <2>1
    <2> QED
      BY <1>1, <2>2, <2>3, <2>4 DEF RanInTurn
  <1> QED
    BY <1>2, <1>3 DEF IInv

\* Nothing happens.
LEMMA StutterKeeps ==
    ASSUME IInv, UNCHANGED vars
    PROVE  IInv'
  <1>1. stage' = stage /\ asked' = asked /\ req' = req /\ cron' = cron
        /\ params' = params /\ rest' = rest /\ ran' = ran
    BY DEF vars
  <1>2. FilesTypeOK' /\ Rewritten' /\ Accepted'
    BY <1>1 DEF IInv, FilesTypeOK, Rewritten, Accepted, Requests
  <1>3. PassedClient'
    BY <1>1 DEF IInv, PassedClient, ChkHydraHosts, ChkServices, ChkScheduleParam, HostsAlternate
  <1>4. CronMade'
    BY <1>1 DEF IInv, CronMade
  <1>f. FilesMade'
    BY DEF IInv, FilesMade, ConvIPsByLine, CopyFileList, vars
  <1>5. RanInTurn'
    <2>1. CASE stage \notin {"running", "ended"}
      BY <1>1, <2>1 DEF IInv, RanInTurn
    <2>2. CASE stage \in {"running", "ended"}
      <3>1. params = GenCmdParams(req) /\ (stage = "ended" => Tokens(rest) = <<>>)
        BY <2>2 DEF IInv, RanInTurn
      <3> PICK n \in 0..Len(asked.services) :
                 ran = [i \in 1..n |-> RunOf(params, asked.services[i])]
                 /\ rest = SubSeq(asked.services, n + 1, Len(asked.services))
        BY <2>2 DEF IInv, RanInTurn
      <3>2. n \in 0..Len(asked'.services)
            /\ ran' = [i \in 1..n |-> RunOf(params', asked'.services[i])]
            /\ rest' = SubSeq(asked'.services, n + 1, Len(asked'.services))
        BY <1>1
      <3>3. params' = GenCmdParams(req') /\ (stage' = "ended" => Tokens(rest') = <<>>)
        BY <1>1, <3>1
      <3> QED
        BY <1>1, <2>2, <3>2, <3>3 DEF RanInTurn
    <2> QED
      BY <2>1, <2>2
  <1> QED
    BY <1>2, <1>3, <1>4, <1>5, <1>f DEF IInv

\* The invariant holds of every step.
THEOREM Inductive == Spec => []IInv
  <1>1. IInv /\ [Next]_vars => IInv'
    <2> SUFFICES ASSUME IInv, [Next]_vars
                 PROVE  IInv'
      OBVIOUS
    <2>1. CASE SendCreate
      BY <2>1, SendCreateKeeps
    <2>2. CASE CheckCreate
      BY <2>2, CheckCreateKeeps
    <2>3. CASE WriteFiles
      BY <2>3, WriteFilesKeeps
    <2>4. CASE RunHydra
      BY <2>4, RunHydraKeeps
    <2>5. CASE NextService
      BY <2>5, NextServiceKeeps
    <2>6. CASE NoMoreServices
      BY <2>6, NoMoreServicesKeeps
    <2>7. CASE UNCHANGED vars
      BY <2>7, StutterKeeps
    <2> QED
      BY <2>1, <2>2, <2>3, <2>4, <2>5, <2>6, <2>7 DEF Next
  <1> QED
    BY <1>1, InitInv, PTL DEF Spec

\* No request the client lets through is rejected by the daemon: what escapeHydraHosts
\* makes of the hosts fits the daemon's pattern, for hosts of every length
\* (chkHydraHosts, chkHydraHostsIntern).
THEOREM NoneRejected == Spec => []Accepted
  <1>1. IInv => Accepted
    BY DEF IInv
  <1> QED
    BY <1>1, Inductive, PTL

----------------------------------------------------------------------------
(* The command line.                                                       *)

\* The arguments all command lines have in common.
CommonWords == {Common[i] : i \in 1..17}
LEMMA CommonFacts ==
    /\ Len(Common) = 17
    /\ Common \in Seq(CommonWords)
    /\ \A i \in 1..17 : Common[i] # Null /\ Common[i] # "service"
  <1>1. Len(Common) = 17
    BY DEF Common
  <1>2. \A i \in 1..17 : Common[i] \in {"hydra", "-I", "-t", "4", "-T", "8", "-w", "10", "-o",
                            "outfile", "-b", "json", "-L", "login", "-P", "passwd", "-f"}
    BY DEF Common
  <1>3. Common = [i \in 1..17 |-> Common[i]]
    BY DEF Common
  <1>4. Common \in Seq(CommonWords)
    <2>1. \A i \in 1..17 : Common[i] \in CommonWords
      BY DEF CommonWords
    <2> HIDE DEF CommonWords
    <2>2. [i \in 1..17 |-> Common[i]] \in Seq(CommonWords)
      BY <2>1
    <2> QED
      BY <1>3, <2>2
  <1> QED
    BY <1>1, <1>2, <1>4 DEF Null

\* hydra gets what stands before the first NULL, with the service in its place.
FirstNull(a, k) ==
    /\ k \in 1..Len(a)
    /\ a[k] = Null
    /\ \A i \in 1..k - 1 : a[i] # Null
Filled(a, k, s) == [i \in 1..k - 1 |-> IF a[i] = "service" THEN s ELSE a[i]]
LEMMA SeenIs ==
    ASSUME NEW V, NEW a \in Seq(V), NEW k, FirstNull(a, k), NEW s
    PROVE  SeenByHydra(a, s) = Filled(a, k, s)
  <1> USE DEF FirstNull, Filled
  <1> DEFINE I == {i \in 1..Len(a) : a[i] = Null}
             n == SelectInSeq(a, LAMBDA x : x = Null)
             argv == SubSeq(a, 1, n - 1)
  <1>1. k \in I /\ \A i \in I : k <= i
    OBVIOUS
  <1>2. Min(I) = k
    <2>1. \A x \in I : (\A y \in I : x <= y) => x = k
      BY <1>1
    <2> HIDE DEF I
    <2> QED
      BY <1>1, <2>1 DEF Min
  <1>3. n = Min(I)
    BY <1>1 DEF SelectInSeq
  <1> HIDE DEF I
  <1>4. n = k
    BY <1>2, <1>3
  <1>5. Len(argv) = k - 1 /\ \A i \in 1..k - 1 : argv[i] = a[i]
    <2>1. argv = SubSeq(a, 1, k - 1)
      BY <1>4
    <2>2. Len(SubSeq(a, 1, k - 1)) = k - 1
      OBVIOUS
    <2>3. \A i \in 1..k - 1 : SubSeq(a, 1, k - 1)[i] = a[i]
      OBVIOUS
    <2> HIDE DEF argv
    <2> QED
      BY <2>1, <2>2, <2>3
  <1>6. SeenByHydra(a, s) = [i \in 1..Len(argv) |-> IF argv[i] = "service" THEN s ELSE argv[i]]
    BY DEF SeenByHydra
  <1> HIDE DEF argv
  <1> QED
    BY <1>5, <1>6

\* A host or a block that stands alone is a word.
LEMMA AloneIsWord ==
    ASSUME NEW t \in Seq(HostRec), Len(t) = 1
    PROVE  t[1].ip \in Word
  <1>1. t[1] \in HostRec
    OBVIOUS
  <1> QED
    BY <1>1 DEF HostRec

\* Requests hydra gets right: the block has no port.
NoPort(h) == h.type = "list" \/ h.text[1].port = ""

\* Something stands at each of the 24 places.
Vector(a) == a \in Seq({a[i] : i \in 1..24}) /\ Len(a) = 24

\* The options stand at a place, or NULL does for none.
OptionsAt(a, i) ==
    /\ asked.opts = "" => a[i] = Null
    /\ asked.opts # "" => a[i] = asked.opts

\* The vector is: the common arguments, the hosts, the service, the options or NULL,
\* and NULL from there on.
LEMMA VectorIs ==
    ASSUME FilesTypeOK, Rewritten, PassedClient, stage \notin {"sent", "refused"},
           NoPort(asked.hosts)
    PROVE  LET a == GenCmdParams(req)
               m == Len(HostsMeant)
           IN  /\ Vector(a)
               /\ m \in {1, 2}
               /\ \A i \in 1..17 : a[i] = Common[i]
               /\ \A i \in 1..m : a[17 + i] = HostsMeant[i]
                                  /\ HostsMeant[i] # Null /\ HostsMeant[i] # "service"
               /\ a[m + 18] = "service"
               /\ OptionsAt(a, m + 19)
               /\ a[m + 20] = Null
  <1> DEFINE a == GenCmdParams(req)
             m == Len(HostsMeant)
             common == [i \in DOMAIN NoArgs |-> IF i <= Len(Common) THEN Common[i] ELSE Null]
             h == HostArgs(common, Len(Common) + 1, req.hosts)
             t == asked.hosts.text
  <1>1. Len(Common) = 17
    BY CommonFacts
  <1>2. common = [i \in 1..24 |-> IF i <= 17 THEN Common[i] ELSE Null]
    BY <1>1 DEF NoArgs
  <1>3. a = LET s == Put(h.args, h.cnt, "service")
            IN  IF req.opts = "" THEN s ELSE Put(s, h.cnt + 1, req.opts)
    BY DEF GenCmdParams
  <1>4. h = HostArgs(common, 18, req.hosts)
    BY <1>1
  <1>5. req.opts = asked.opts /\ req.hosts = [asked.hosts EXCEPT !.text = Escaped(t)]
    BY RewrittenKeeps
  <1>6. asked.hosts \in [type : STRING, text : Seq(HostRec)] /\ asked.opts \in Word
    BY AskedType
  <1>7. req.hosts.type = asked.hosts.type /\ req.hosts.text = Escaped(t)
    BY <1>5, <1>6
  <1>8. asked.opts # Null /\ asked.opts # "service"
    BY <1>6 DEF Word
  <1> HIDE DEF common, h, a
  <1> DEFINE b == [i \in 1..24 |-> IF i <= 17 THEN Common[i] ELSE Null]
  <1>9. ASSUME NEW c \in {19, 20}, NEW args, h = [args |-> args, cnt |-> c],
               DOMAIN args = 1..24, args = [i \in 1..24 |-> args[i]],
               \A i \in 1..17 : args[i] = Common[i],
               \A i \in c + 1..24 : args[i] = Null
        PROVE  /\ Vector(a)
               /\ \A i \in 1..c - 1 : a[i] = args[i]
               /\ a[c] = "service"
               /\ OptionsAt(a, c + 1)
               /\ a[c + 2] = Null
    <2>1. h.args = args /\ h.cnt = c
      BY <1>9
    <2>2. a = IF asked.opts = "" THEN [args EXCEPT ![c] = "service"]
              ELSE [[args EXCEPT ![c] = "service"] EXCEPT ![c + 1] = asked.opts]
      BY <1>3, <1>5, <2>1 DEF Put
    <2> DEFINE d == [args EXCEPT ![c] = "service"]
    <2>3. DOMAIN d = 1..24 /\ d = [i \in 1..24 |-> d[i]]
      BY <1>9
    <2>0. c \in 1..24 /\ c + 1 \in c + 1..24 /\ c + 2 \in c + 1..24 /\ c + 1 # c /\ c + 2 # c
          /\ c + 1 \in 1..24 /\ c + 2 \in 1..24 /\ \A i \in 1..c - 1 : i \in 1..24 /\ i # c
      OBVIOUS
    <2>4. /\ \A i \in 1..c - 1 : d[i] = args[i]
          /\ d[c] = "service"
          /\ d[c + 1] = Null /\ d[c + 2] = Null
      <3>1. \A i \in 1..24 : d[i] = IF i = c THEN "service" ELSE args[i]
        BY <1>9
      <3>2. args[c + 1] = Null /\ args[c + 2] = Null
        BY <1>9, <2>0
      <3> HIDE DEF d
      <3> QED
        BY <2>0, <3>1, <3>2
    <2>5. a = [i \in 1..24 |-> a[i]]
      <3>1. CASE asked.opts = ""
        BY <2>2, <2>3, <3>1
      <3>2. CASE asked.opts # ""
        <4> HIDE DEF d
        <4>1. a = [d EXCEPT ![c + 1] = asked.opts]
          BY <2>2, <3>2 DEF d
        <4> QED
          BY <2>3, <4>1
      <3> QED
        BY <3>1, <3>2
    <2>6. /\ \A i \in 1..c - 1 : a[i] = args[i]
          /\ a[c] = "service"
          /\ OptionsAt(a, c + 1)
          /\ a[c + 2] = Null
      <3> HIDE DEF d
      <3>1. CASE asked.opts = ""
        <4>1. a = d
          BY <2>2, <3>1 DEF d
        <4> QED
          BY <2>4, <3>1, <4>1 DEF OptionsAt
      <3>2. CASE asked.opts # ""
        <4>1. a = [d EXCEPT ![c + 1] = asked.opts]
          BY <2>2, <3>2 DEF d
        <4>2. \A i \in 1..24 : a[i] = IF i = c + 1 THEN asked.opts ELSE d[i]
          BY <2>3, <4>1
        <4>3. \A i \in 1..c - 1 : i # c + 1
          OBVIOUS
        <4>4. c + 2 # c + 1
          OBVIOUS
        <4> QED
          BY <2>0, <2>4, <3>2, <4>2, <4>3, <4>4 DEF OptionsAt
      <3> QED
        BY <3>1, <3>2
    <2>7. Vector(a)
      <3> DEFINE V == {a[i] : i \in 1..24}
      <3>1. \A i \in 1..24 : a[i] \in V
        OBVIOUS
      <3> HIDE DEF V
      <3>2. [i \in 1..24 |-> a[i]] \in Seq(V) /\ Len([i \in 1..24 |-> a[i]]) = 24
        BY <3>1
      <3>3. a \in Seq(V) /\ Len(a) = 24
        BY <2>5, <3>2
      <3> QED
        BY <3>3 DEF V, Vector
    <2> QED
      BY <2>6, <2>7
  <1>10. CASE asked.hosts.type = "list"
    <2> DEFINE args == Put(Put(b, 18, "-M"), 19, "iplist")
    <2>0. 18 + 1 = 19 /\ 18 + 2 = 20
      OBVIOUS
    <2>1. h = [args |-> args, cnt |-> 20]
      BY <1>2, <1>4, <1>7, <1>10, <2>0 DEF HostArgs
    <2>2. HostsMeant = <<"-M", "iplist">>
      BY <1>10 DEF HostsMeant
    <2>3. /\ DOMAIN args = 1..24 /\ args = [i \in 1..24 |-> args[i]]
          /\ \A i \in 1..17 : args[i] = Common[i]
          /\ args[18] = "-M" /\ args[19] = "iplist"
          /\ \A i \in 20 + 1..24 : args[i] = Null
      <3> DEFINE d == Put(b, 18, "-M")
      <3>1. DOMAIN d = 1..24 /\ \A i \in 1..24 : d[i] = IF i = 18 THEN "-M" ELSE b[i]
        BY DEF Put
      <3> HIDE DEF d
      <3>2. args = [d EXCEPT ![19] = "iplist"]
        BY DEF Put, d
      <3>3. DOMAIN args = 1..24 /\ args = [i \in 1..24 |-> args[i]]
            /\ \A i \in 1..24 : args[i] = IF i = 19 THEN "iplist" ELSE d[i]
        BY <3>1, <3>2
      <3> HIDE DEF args
      <3> QED
        BY <3>1, <3>3
    <2> HIDE DEF args
    <2>4. /\ Vector(a)
          /\ \A i \in 1..19 : a[i] = args[i]
          /\ a[20] = "service"
          /\ OptionsAt(a, 21)
          /\ a[22] = Null
      <3>1. 20 \in {19, 20}
        OBVIOUS
      <3>2. /\ Vector(a)
            /\ \A i \in 1..20 - 1 : a[i] = args[i]
            /\ a[20] = "service"
            /\ OptionsAt(a, 20 + 1)
            /\ a[20 + 2] = Null
        BY ONLY <1>9, <2>1, <2>3, <3>1
      <3> QED
        BY <3>2
    <2>5. m = 2 /\ HostsMeant[1] = "-M" /\ HostsMeant[2] = "iplist"
      BY <2>2
    <2> HIDE DEF m
    <2>6. \A i \in 1..m : a[17 + i] = HostsMeant[i]
                          /\ HostsMeant[i] # Null /\ HostsMeant[i] # "service"
      <3>1. a[17 + 1] = HostsMeant[1] /\ a[17 + 2] = HostsMeant[2]
        <4>1. a[18] = args[18] /\ a[19] = args[19]
          BY <2>4
        <4> QED
          BY <2>3, <2>5, <4>1
      <3>2. "-M" # Null /\ "-M" # "service" /\ "iplist" # Null /\ "iplist" # "service"
        BY DEF Null
      <3>3. \A i \in 1..m : i = 1 \/ i = 2
        BY <2>5
      <3> QED
        BY <2>5, <3>1, <3>2, <3>3
    <2>7. /\ \A i \in 1..17 : a[i] = Common[i]
          /\ m \in {1, 2} /\ a[m + 18] = "service" /\ a[m + 20] = Null
          /\ OptionsAt(a, m + 19)
      <3>1. \A i \in 1..17 : a[i] = Common[i]
        BY <2>3, <2>4
      <3>2. m + 18 = 20 /\ m + 19 = 21 /\ m + 20 = 22
        BY <2>5
      <3> QED
        BY <2>4, <2>5, <3>1, <3>2
    <2> QED
      BY <2>4, <2>6, <2>7 DEF a, m
  <1>11. CASE asked.hosts.type # "list"
    <2> DEFINE ip == t[1].ip
               args == Put(Put(b, 19, "-s"), 18, ip)
    <2>0. 18 + 1 = 19
      OBVIOUS
    <2>9. t \in Seq(HostRec)
      BY <1>6
    <2>1. Len(t) = 1 /\ ~ IsSep(t[1]) /\ t[1].port = "" /\ Escaped(t) = t
      BY <1>6, <1>11, AloneStays DEF PassedClient, ChkHydraHosts, NoPort
    <2>2. ip \in Word
      BY <2>1, <2>9, AloneIsWord
    <2>3. ip # Null /\ ip # "service"
      BY <2>2 DEF Word
    <2> HIDE DEF ip
    <2>4. h = [args |-> args, cnt |-> 19]
      BY <1>2, <1>4, <1>7, <1>11, <2>0, <2>1 DEF HostArgs, ip
    <2>5. HostsMeant = <<ip>>
      <3>1. HostsMeant = <<>> \o <<ip>>
        BY <1>11, <2>1 DEF HostsMeant, ip
      <3>2. <<ip>> \in Seq({ip})
        OBVIOUS
      <3>3. <<>> \o <<ip>> = <<ip>>
        BY <3>2, ConcatProperties
      <3> QED
        BY <3>1, <3>3
    <2>6. /\ DOMAIN args = 1..24 /\ args = [i \in 1..24 |-> args[i]]
          /\ \A i \in 1..17 : args[i] = Common[i]
          /\ args[18] = ip
          /\ \A i \in 19 + 1..24 : args[i] = Null
      <3> DEFINE d == Put(b, 19, "-s")
      <3>1. DOMAIN d = 1..24 /\ \A i \in 1..24 : d[i] = IF i = 19 THEN "-s" ELSE b[i]
        BY DEF Put
      <3> HIDE DEF d
      <3>2. args = [d EXCEPT ![18] = ip]
        BY DEF Put, d
      <3>3. DOMAIN args = 1..24 /\ args = [i \in 1..24 |-> args[i]]
            /\ \A i \in 1..24 : args[i] = IF i = 18 THEN ip ELSE d[i]
        BY <3>1, <3>2
      <3> HIDE DEF args
      <3> QED
        BY <3>1, <3>3
    <2> HIDE DEF args
    <2>7. /\ Vector(a)
          /\ \A i \in 1..18 : a[i] = args[i]
          /\ a[19] = "service"
          /\ OptionsAt(a, 20)
          /\ a[21] = Null
      <3>1. 19 \in {19, 20}
        OBVIOUS
      <3>2. /\ Vector(a)
            /\ \A i \in 1..19 - 1 : a[i] = args[i]
            /\ a[19] = "service"
            /\ OptionsAt(a, 19 + 1)
            /\ a[19 + 2] = Null
        BY ONLY <1>9, <2>4, <2>6, <3>1
      <3> QED
        BY <3>2
    <2>8. m = 1 /\ HostsMeant[1] = ip
      BY <2>5
    <2> HIDE DEF m
    <2>11. \A i \in 1..m : a[17 + i] = HostsMeant[i]
                          /\ HostsMeant[i] # Null /\ HostsMeant[i] # "service"
      <3>1. a[17 + 1] = HostsMeant[1]
        <4>1. a[18] = args[18]
          BY <2>7
        <4> QED
          BY <2>6, <2>8, <4>1
      <3>2. \A i \in 1..m : i = 1
        BY <2>8
      <3> QED
        BY <2>3, <2>8, <3>1, <3>2
    <2>10. /\ \A i \in 1..17 : a[i] = Common[i]
           /\ m \in {1, 2} /\ a[m + 18] = "service" /\ a[m + 20] = Null
           /\ OptionsAt(a, m + 19)
      <3>1. \A i \in 1..17 : a[i] = Common[i]
        BY <2>6, <2>7
      <3>2. m + 18 = 19 /\ m + 19 = 20 /\ m + 20 = 21
        BY <2>8
      <3> QED
        BY <2>7, <2>8, <3>1, <3>2
    <2> QED
      BY <2>7, <2>10, <2>11 DEF a, m
  <1> QED
    BY <1>10, <1>11

\* What stands where in two sequences put together.
JoinOf(z, x, y) ==
    /\ Len(z) = Len(x) + Len(y)
    /\ \A i \in 1..Len(x) : z[i] = x[i]
    /\ \A i \in 1..Len(y) : z[Len(x) + i] = y[i]
LEMMA Joined ==
    ASSUME NEW W, NEW x \in Seq(W), NEW y \in Seq(W)
    PROVE  x \o y \in Seq(W) /\ JoinOf(x \o y, x, y)
  <1>1. Len(x) \in Nat /\ Len(y) \in Nat
    OBVIOUS
  <1>2. x \o y \in Seq(W) /\ Len(x \o y) = Len(x) + Len(y)
    OBVIOUS
  <1>3. \A i \in 1..Len(x) : (x \o y)[i] = x[i]
    OBVIOUS
  <1>4. \A i \in 1..Len(y) : (x \o y)[Len(x) + i] = y[i]
    OBVIOUS
  <1> QED
    BY <1>2, <1>3, <1>4 DEF JoinOf

\* The options as they are meant.
LEMMA OptionsMeant ==
    /\ OptsMeant \in Seq({asked.opts})
    /\ asked.opts = "" => Len(OptsMeant) = 0
    /\ asked.opts # "" => Len(OptsMeant) = 1 /\ OptsMeant[1] = asked.opts
  <1>1. CASE asked.opts = ""
    <2>1. OptsMeant = <<>>
      BY <1>1 DEF OptsMeant
    <2>2. OptsMeant \in Seq({asked.opts}) /\ Len(OptsMeant) = 0
      BY <2>1
    <2> QED
      BY <1>1, <2>2
  <1>2. CASE asked.opts # ""
    <2>1. OptsMeant = <<asked.opts>>
      BY <1>2 DEF OptsMeant
    <2>2. OptsMeant \in Seq({asked.opts}) /\ Len(OptsMeant) = 1 /\ OptsMeant[1] = asked.opts
      BY <2>1
    <2> QED
      BY <1>2, <2>2
  <1> QED
    BY <1>1, <1>2

\* hydra gets the arguments, the hosts, the service and the options of a vector that
\* has them one after the other and NULL behind them.
InParts(a, C, H, O, c, m, n) ==
    /\ Len(C) = c /\ Len(H) = m /\ Len(O) = n /\ c + m + n + 2 <= Len(a)
    /\ \A i \in 1..c : a[i] = C[i] /\ C[i] # Null /\ C[i] # "service"
    /\ \A i \in 1..m : a[c + i] = H[i] /\ H[i] # Null /\ H[i] # "service"
    /\ a[c + m + 1] = "service"
    /\ \A i \in 1..n : a[c + m + 1 + i] = O[i] /\ O[i] # Null /\ O[i] # "service"
    /\ a[c + m + n + 2] = Null
SeenWhole(a, s, C, H, O) == SeenByHydra(a, s) = C \o H \o <<s>> \o O
LEMMA SeenInParts ==
    ASSUME NEW V, NEW W, NEW a \in Seq(V), NEW s \in W,
           NEW C \in Seq(W), NEW H \in Seq(W), NEW O \in Seq(W),
           NEW c \in Nat, NEW m \in Nat, NEW n \in Nat, InParts(a, C, H, O, c, m, n)
    PROVE  SeenWhole(a, s, C, H, O)
  <1> USE DEF InParts
  <1> DEFINE p == C \o H
             q == p \o <<s>>
             r == q \o O
             z == c + m + n + 1
  <1>1. p \in Seq(W) /\ Len(p) = c + m
        /\ (\A i \in 1..c : p[i] = C[i]) /\ (\A i \in 1..m : p[c + i] = H[i])
    <2>1. C \o H \in Seq(W) /\ JoinOf(C \o H, C, H)
      BY Joined
    <2> QED
      BY <2>1 DEF JoinOf
  <1> HIDE DEF p
  <1>2. <<s>> \in Seq(W) /\ Len(<<s>>) = 1 /\ <<s>>[1] = s
    OBVIOUS
  <1>3. q \in Seq(W) /\ Len(q) = c + m + 1 /\ q[c + m + 1] = s /\ \A i \in 1..c + m : q[i] = p[i]
    <2>3. p \o <<s>> \in Seq(W) /\ JoinOf(p \o <<s>>, p, <<s>>)
      BY <1>1, <1>2, Joined
    <2>1. q \in Seq(W) /\ Len(q) = Len(p) + Len(<<s>>) /\ (\A i \in 1..Len(p) : q[i] = p[i])
          /\ (\A i \in 1..Len(<<s>>) : q[Len(p) + i] = <<s>>[i])
      BY <2>3 DEF JoinOf
    <2> HIDE DEF q
    <2>2. q[Len(p) + 1] = s
      BY <1>2, <2>1
    <2> QED
      BY <1>1, <1>2, <2>1, <2>2
  <1> HIDE DEF q
  <1>4. r \in Seq(W) /\ Len(r) = z /\ (\A i \in 1..c + m + 1 : r[i] = q[i])
        /\ (\A i \in 1..n : r[c + m + 1 + i] = O[i])
    <2>1. q \o O \in Seq(W) /\ JoinOf(q \o O, q, O)
      BY <1>3, Joined
    <2> QED
      BY <1>3, <2>1 DEF JoinOf
  <1> HIDE DEF r
  <1>5. \A i \in 1..z : \/ i \in 1..c
                        \/ \E j \in 1..m : i = c + j
                        \/ i = c + m + 1
                        \/ \E j \in 1..n : i = c + m + 1 + j
    <2> TAKE i \in 1..z
    <2>1. CASE i > c /\ i <= c + m
      <3>1. i - c \in 1..m /\ i = c + (i - c)
        BY <2>1
      <3> QED
        BY <3>1
    <2>2. CASE i > c + m + 1
      <3>1. i - (c + m + 1) \in 1..n /\ i = c + m + 1 + (i - (c + m + 1))
        BY <2>2
      <3> QED
        BY <3>1
    <2> QED
      BY <2>1, <2>2
  <1>6. ASSUME NEW i \in 1..z
        PROVE  a[i] # Null /\ r[i] = IF a[i] = "service" THEN s ELSE a[i]
    <2>1. CASE i \in 1..c
      <3>1. i \in 1..c + m /\ i \in 1..c + m + 1
        BY <2>1
      <3>2. r[i] = C[i]
        BY <1>1, <1>3, <1>4, <2>1, <3>1
      <3>3. a[i] = C[i] /\ C[i] # Null /\ C[i] # "service"
        BY <2>1
      <3> QED
        BY <3>2, <3>3
    <2>2. ASSUME NEW j \in 1..m, i = c + j
          PROVE  a[i] # Null /\ r[i] = IF a[i] = "service" THEN s ELSE a[i]
      <3>1. i \in 1..c + m /\ i \in 1..c + m + 1
        BY <2>2
      <3>2. r[i] = H[j]
        BY <1>1, <1>3, <1>4, <2>2, <3>1
      <3>3. a[i] = H[j] /\ H[j] # Null /\ H[j] # "service"
        BY <2>2
      <3> QED
        BY <3>2, <3>3
    <2>3. CASE i = c + m + 1
      <3>1. i \in 1..c + m + 1
        BY <2>3
      <3>2. r[i] = s /\ a[i] = "service"
        BY <1>3, <1>4, <2>3, <3>1
      <3>3. "service" # Null
        BY DEF Null
      <3> QED
        BY <3>2, <3>3
    <2>4. ASSUME NEW j \in 1..n, i = c + m + 1 + j
          PROVE  a[i] # Null /\ r[i] = IF a[i] = "service" THEN s ELSE a[i]
      <3>1. r[i] = O[j]
        BY <1>4, <2>4
      <3>2. a[i] = O[j] /\ O[j] # Null /\ O[j] # "service"
        BY <2>4
      <3> QED
        BY <3>1, <3>2
    <2> QED
      BY <1>5, <2>1, <2>2, <2>3, <2>4
  <1>7. z \in Nat /\ z + 1 \in 1..Len(a) /\ a[z + 1] = Null
    OBVIOUS
  <1> HIDE DEF z
  <1>8. (z + 1) - 1 = z
    BY <1>7
  <1>9. SeenByHydra(a, s) = Filled(a, z + 1, s)
    <2>1. FirstNull(a, z + 1)
      BY <1>6, <1>7, <1>8 DEF FirstNull
    <2> QED
      BY <2>1, SeenIs
  <1>10. r = [i \in 1..z |-> r[i]]
    BY <1>4
  <1>11. r = [i \in 1..z |-> IF a[i] = "service" THEN s ELSE a[i]]
    BY <1>6, <1>10
  <1> QED
    BY <1>8, <1>9, <1>11 DEF p, q, r, Filled, SeenWhole

\* The hosts as they are meant.
LEMMA HostsMeantSeq ==
    ASSUME NoPort(asked.hosts)
    PROVE  HostsMeant \in Seq({HostsMeant[i] : i \in 1..Len(HostsMeant)})
  <1>1. CASE asked.hosts.type = "list"
    <2>1. HostsMeant = <<"-M", "iplist">>
      BY <1>1 DEF HostsMeant
    <2> QED
      BY <2>1
  <1>2. CASE asked.hosts.type # "list"
    <2>1. HostsMeant = <<>> \o <<asked.hosts.text[1].ip>>
      BY <1>2 DEF HostsMeant, NoPort
    <2>2. ASSUME NEW x
          PROVE  <<>> \o <<x>> = <<x>>
      <3>1. <<x>> \in Seq({x})
        OBVIOUS
      <3> QED
        BY <3>1, ConcatProperties
    <2>3. HostsMeant = <<asked.hosts.text[1].ip>>
      BY <2>1, <2>2
    <2> QED
      BY <2>3
  <1> QED
    BY <1>1, <1>2

\* Each service gets the command line it is meant to get.
LEMMA CommandIs ==
    ASSUME FilesTypeOK, Rewritten, PassedClient, stage \notin {"sent", "refused"},
           NoPort(asked.hosts), NEW s
    PROVE  SeenByHydra(GenCmdParams(req), s) = CommandMeant(s)
  <1> DEFINE a == GenCmdParams(req)
             HW == {HostsMeant[i] : i \in 1..Len(HostsMeant)}
             W == CommonWords \cup HW \cup {s, asked.opts}
             m == Len(HostsMeant)
             n == Len(OptsMeant)
  <1>1. /\ Vector(a) /\ m \in {1, 2}
        /\ \A i \in 1..17 : a[i] = Common[i]
        /\ \A i \in 1..m : a[17 + i] = HostsMeant[i]
                           /\ HostsMeant[i] # Null /\ HostsMeant[i] # "service"
        /\ a[m + 18] = "service"
        /\ OptionsAt(a, m + 19)
        /\ a[m + 20] = Null
    BY VectorIs
  <1> HIDE DEF a
  <1>2. a \in Seq({a[i] : i \in 1..24}) /\ Len(a) = 24
    BY <1>1 DEF Vector
  <1>3. asked.opts # Null /\ asked.opts # "service"
    BY AskedType DEF Word
  <1>4. HostsMeant \in Seq(W) /\ Common \in Seq(W) /\ OptsMeant \in Seq(W) /\ s \in W
    <2>1. HostsMeant \in Seq(HW)
      BY HostsMeantSeq
    <2>2. Common \in Seq(CommonWords)
      BY CommonFacts
    <2>3. OptsMeant \in Seq({asked.opts})
      BY OptionsMeant
    <2>4. HW \subseteq W /\ CommonWords \subseteq W /\ {asked.opts} \subseteq W /\ s \in W
      OBVIOUS
    <2> HIDE DEF HW, W
    <2>5. ASSUME NEW A, NEW B, A \subseteq B, NEW x \in Seq(A)
          PROVE  x \in Seq(B)
      BY <2>5
    <2> QED
      BY <2>1, <2>2, <2>3, <2>4, <2>5
  <1>5. n \in {0, 1} /\ \A i \in 1..n : a[17 + m + 1 + i] = OptsMeant[i]
                          /\ OptsMeant[i] # Null /\ OptsMeant[i] # "service"
    <2>1. CASE asked.opts = ""
      <3>1. n = 0
        BY <2>1, OptionsMeant
      <3> HIDE DEF n
      <3> QED
        BY <3>1
    <2>2. CASE asked.opts # ""
      <3>1. n = 1 /\ OptsMeant[1] = asked.opts
        BY <2>2, OptionsMeant
      <3>2. a[m + 19] = asked.opts
        BY <1>1, <2>2 DEF OptionsAt
      <3> HIDE DEF n, m
      <3>3. \A i \in 1..n : i = 1
        BY <3>1
      <3>4. 17 + m + 1 + 1 = m + 19
        BY <1>1
      <3>5. a[17 + m + 1 + 1] = asked.opts
        BY <3>2, <3>4
      <3> QED
        BY <1>3, <3>1, <3>3, <3>5
    <2> QED
      BY <2>1, <2>2
  <1>6. a[17 + m + n + 2] = Null
    <2>1. CASE asked.opts = ""
      <3>1. n = 0
        BY <2>1, OptionsMeant
      <3>2. a[m + 19] = Null
        BY <1>1, <2>1 DEF OptionsAt
      <3> HIDE DEF n, m
      <3>3. 17 + m + n + 2 = m + 19
        BY <1>1, <3>1
      <3> QED
        BY <3>2, <3>3
    <2>2. CASE asked.opts # ""
      <3>1. n = 1
        BY <2>2, OptionsMeant
      <3>2. a[m + 20] = Null
        BY <1>1
      <3> HIDE DEF n, m
      <3>3. 17 + m + n + 2 = m + 20
        BY <1>1, <3>1
      <3> QED
        BY <3>2, <3>3
    <2> QED
      BY <2>1, <2>2
  <1>7. Len(Common) = 17 /\ \A i \in 1..17 : Common[i] # Null /\ Common[i] # "service"
    BY CommonFacts
  <1> DEFINE V == {a[i] : i \in 1..24}
  <1>8. Len(HostsMeant) = m /\ Len(OptsMeant) = n /\ a \in Seq(V)
    BY <1>2
  <1> HIDE DEF m, n, W, V
  <1>9. m \in Nat /\ n \in Nat /\ 17 \in Nat /\ 17 + m + n + 2 <= Len(a)
    BY <1>1, <1>2, <1>5
  <1>10. a[17 + m + 1] = "service"
    <2>1. 17 + m + 1 = m + 18
      BY <1>9
    <2> QED
      BY <1>1, <2>1
  <1>11. \A i \in 1..17 : a[i] = Common[i] /\ Common[i] # Null /\ Common[i] # "service"
    BY <1>1, <1>7
  <1>12. SeenWhole(a, s, Common, HostsMeant, OptsMeant)
    <2>1. InParts(a, Common, HostsMeant, OptsMeant, 17, m, n)
      BY <1>1, <1>5, <1>6, <1>7, <1>8, <1>9, <1>10, <1>11 DEF InParts
    <2> QED
      <3> HIDE DEF HW
      <3>1. a \in Seq(V) /\ s \in W /\ m \in Nat /\ n \in Nat /\ 17 \in Nat
        BY <1>4, <1>8, <1>9
      <3>2. Common \in Seq(W) /\ HostsMeant \in Seq(W) /\ OptsMeant \in Seq(W)
        BY <1>4
      <3> QED
        BY <2>1, <3>1, <3>2, SeenInParts
  <1> QED
    BY <1>12 DEF a, CommandMeant, SeenWhole

\* A runner with no service left has run all that are not empty, and one at least.
RanAll(s, n) == n >= 1 /\ \A x \in ToSet(s) \ {""} : \E i \in 1..n : s[i] = x
LEMMA NoneLeft ==
    ASSUME NEW T, NEW s \in Seq(T), NEW n \in 0..Len(s),
           Tokens(SubSeq(s, n + 1, Len(s))) = <<>>, Tokens(s) # <<>>
    PROVE  RanAll(s, n)
  <1> DEFINE r == SubSeq(s, n + 1, Len(s))
  <1>0. Len(s) \in Nat /\ DOMAIN s = 1..Len(s)
    OBVIOUS
  <1>1. r \in Seq(T) /\ Len(r) = Len(s) - n /\ \A j \in 1..Len(s) - n : r[j] = s[n + j]
    BY SubSeqProperties
  <1>2. Tokens(r) = <<>>
    OBVIOUS
  <1>3. n = 0 => r = s
    OBVIOUS
  <1> HIDE DEF r
  <1>4. r = <<>> \/ (Len(r) = 1 /\ r[1] = "")
    <2> SUFFICES ASSUME r # <<>>
                 PROVE  Len(r) = 1 /\ r[1] = ""
      OBVIOUS
    <2>1. r[Len(r)] = ""
      BY <1>2 DEF Tokens, Last
    <2>2. SubSeq(r, 1, Len(r) - 1) = <<>>
      BY <1>2 DEF Tokens, Front
    <2>3. Len(r) \in Nat /\ Len(r) >= 1
      BY <1>1
    <2>4. Len(SubSeq(r, 1, Len(r) - 1)) = Len(r) - 1
      BY <1>1, <2>3
    <2>5. Len(r) = 1
      <3> DEFINE f == SubSeq(r, 1, Len(r) - 1)
      <3>1. f = <<>> /\ Len(f) = Len(r) - 1
        BY <2>2, <2>4
      <3> HIDE DEF f
      <3>2. Len(f) = 0
        BY <3>1
      <3> QED
        BY <2>3, <3>1, <3>2
    <2> QED
      BY <2>1, <2>5
  <1>5. n >= 1
    BY <1>0, <1>2, <1>3
  <1>6. ASSUME NEW x \in ToSet(s), x # ""
        PROVE  \E i \in 1..n : s[i] = x
    <2>1. PICK k \in 1..Len(s) : s[k] = x
      BY <1>0 DEF ToSet
    <2>2. CASE k <= n
      BY <1>0, <2>1, <2>2
    <2>3. CASE k > n
      <3>1. k - n \in 1..Len(s) - n /\ n + (k - n) = k
        BY <1>0, <2>3
      <3>2. r[k - n] = x
        BY <1>1, <2>1, <3>1
      <3>3. r # <<>> /\ Len(r) = Len(s) - n
        BY <1>0, <1>1, <3>1
      <3>4. Len(r) = 1 /\ r[1] = ""
        BY <1>4, <3>3
      <3>5. k - n = 1
        <4>1. Len(r) = 1
          BY <3>4
        <4>2. Len(s) - n = 1
          BY <3>3, <4>1
        <4> QED
          BY <3>1, <4>2
      <3> QED
        BY <1>6, <3>2, <3>4, <3>5
    <2> QED
      BY <1>0, <2>2, <2>3
  <1> QED
    BY <1>5, <1>6 DEF RanAll

\* What the runs come to: each service its command line, and at the end all of them.
LEMMA RunsRight ==
    ASSUME IInv, NoPort(asked.hosts)
    PROVE  CommandsRight
  <1> DEFINE s == asked.services
  <1>1. s \in Seq(STRING) /\ Len(s) \in Nat
    BY AskedType DEF IInv
  <1>2. CASE stage \notin {"running", "ended"}
    <2>1. ran = <<>> /\ stage # "ended"
      BY <1>2 DEF IInv, RanInTurn
    <2>2. Len(ran) = 0
      BY <2>1
    <2>3. 1..Len(ran) = {}
      BY <2>2
    <2> QED
      BY <2>1, <2>3 DEF CommandsRight
  <1>3. CASE stage \in {"running", "ended"}
    <2> DEFINE run(i) == RunOf(params, s[i])
    <2>1. PICK n \in 0..Len(s) : ran = [i \in 1..n |-> run(i)]
                                 /\ rest = SubSeq(s, n + 1, Len(s))
      BY <1>3 DEF IInv, RanInTurn
    <2>2. params = GenCmdParams(req) /\ (stage = "ended" => Tokens(rest) = <<>>)
      BY <1>3 DEF IInv, RanInTurn
    <2>3. \A i \in 1..n : run(i) = [argv |-> CommandMeant(s[i]), out |-> s[i]]
      <3> TAKE i \in 1..n
      <3>1. SeenByHydra(params, s[i]) = CommandMeant(s[i])
        BY <1>3, <2>2, CommandIs DEF IInv
      <3> QED
        BY <3>1 DEF RunOf
    <2> HIDE DEF run
    <2>4. Len(ran) = n /\ \A i \in 1..n : ran[i] = run(i)
      <3> DEFINE R == {run(j) : j \in 1..n}
                 w == [i \in 1..n |-> run(i)]
      <3>1. \A i \in 1..n : run(i) \in R
        OBVIOUS
      <3> HIDE DEF R
      <3>2. w \in Seq(R) /\ Len(w) = n /\ \A i \in 1..n : w[i] = run(i)
        BY <3>1
      <3>3. ran = w
        BY <2>1
      <3> HIDE DEF w
      <3> QED
        BY <3>2, <3>3
    <2>5. stage = "ended" => RanAll(s, n)
      <3>1. Tokens(s) # <<>>
        BY <1>3 DEF IInv, PassedClient, ChkServices
      <3> HIDE DEF s
      <3> QED
        BY <1>1, <2>1, <2>2, <3>1, NoneLeft
    <2> HIDE DEF s
    <2>6. \A i \in 1..Len(ran) : ran[i] = [argv |-> CommandMeant(s[i]), out |-> s[i]]
      BY <2>3, <2>4
    <2>7. \A i \in 1..Len(ran) : ran[i].out = s[i]
      <3> TAKE i \in 1..Len(ran)
      <3>1. ran[i] = [argv |-> CommandMeant(s[i]), out |-> s[i]]
        BY <2>6
      <3> QED
        BY <3>1
    <2>8. stage = "ended" => /\ Len(ran) >= 1
                             /\ \A x \in ToSet(s) \ {""} : \E i \in 1..Len(ran) : ran[i].out = x
      BY <2>4, <2>5, <2>7 DEF RanAll
    <2> QED
      BY <2>6, <2>8 DEF CommandsRight, s
  <1> QED
    BY <1>2, <1>3

\* Each hydra process of a request for a list of hosts, or for a host or block without a
\* port, gets its command line, and at the end each service of the request has had its
\* own (genCmdParams, runHydraTask).  With a port it is not so: HydraPort.
THEOREM CommandsAreRight == Spec => [](NoPort(asked.hosts) => CommandsRight)
  <1>1. IInv => (NoPort(asked.hosts) => CommandsRight)
    BY RunsRight
  <1> QED
    BY <1>1, Inductive, PTL

----------------------------------------------------------------------------
(* The cron file.                                                          *)

\* cron reads the names of all days but Tuesday, and as the days they are.
LEMMA NamesRead ==
    ASSUME NEW x \in WeekDays \ {"TU"}
    PROVE  CronName[x] \in DOMAIN CronDays /\ CronDays[CronName[x]] = x
  <1>1. CASE x = "SU"
    BY <1>1 DEF CronName, CronDays
  <1>2. CASE x = "MO"
    BY <1>2 DEF CronName, CronDays
  <1>3. CASE x = "WE"
    BY <1>3 DEF CronName, CronDays
  <1>4. CASE x = "TH"
    BY <1>4 DEF CronName, CronDays
  <1>5. CASE x = "FR"
    BY <1>5 DEF CronName, CronDays
  <1>6. CASE x = "SA"
    BY <1>6 DEF CronName, CronDays
  <1> QED
    BY <1>1, <1>2, <1>3, <1>4, <1>5, <1>6 DEF WeekDays

\* A line with neither weekdays nor a month fires on its days.
LEMMA FiresOnDays ==
    ASSUME NEW line, NEW d, line.wday = <<>>, line.month = 0,
           line.day = <<>> \/ d.day \in ToSet(line.day),
           line.lastOnly => d.last
    PROVE  Fires(line, d)
  <1>1. ToSet(line.wday) = {}
    BY DEF ToSet
  <1> QED
    BY <1>1 DEF Fires, Readable

\* Something fires of one line.
LEMMA OneLine ==
    ASSUME NEW line, NEW d, Fires(line, d), cron = <<line>>
    PROVE  \E i \in 1..Len(cron) : Fires(cron[i], d)
  <1>1. Len(cron) = 1 /\ cron[1] = line
    OBVIOUS
  <1> QED
    BY <1>1

\* A weekly schedule without a Tuesday.
LEMMA WeeklyFires ==
    ASSUME NEW T, NEW l \in Seq(T), ToSet(l) \subseteq WeekDays, "TU" \notin ToSet(l),
           NEW d, d.wday \in ToSet(l)
    PROVE  Fires([Line EXCEPT !.wday = ConvWeekDay(l)], d)
  <1> DEFINE c == ConvWeekDay(l)
             line == [Line EXCEPT !.wday = c]
  <1>1. line.day = <<>> /\ line.month = 0 /\ line.wday = c /\ line.lastOnly = FALSE
    BY DEF Line
  <1>2. DOMAIN l = 1..Len(l) /\ Len(l) \in Nat
    OBVIOUS
  <1>3. DOMAIN c = 1..Len(l) /\ \A i \in 1..Len(l) : c[i] = CronName[l[i]]
    BY DEF ConvWeekDay
  <1> HIDE DEF c, line
  <1>4. ASSUME NEW i \in 1..Len(l)
        PROVE  c[i] \in DOMAIN CronDays /\ CronDays[c[i]] = l[i]
    <2>1. l[i] \in WeekDays \ {"TU"}
      BY <1>2 DEF ToSet
    <2> QED
      BY <1>3, <2>1, NamesRead
  <1>5. ToSet(c) \subseteq DOMAIN CronDays
    BY <1>3, <1>4 DEF ToSet
  <1>6. \E w \in ToSet(c) : CronDays[w] = d.wday
    <2> PICK i \in 1..Len(l) : l[i] = d.wday
      BY <1>2 DEF ToSet
    <2>1. c[i] \in ToSet(c)
      BY <1>3 DEF ToSet
    <2> QED
      BY <1>4, <2>1
  <1>7. Fires(line, d)
    BY <1>1, <1>5, <1>6 DEF Fires, Readable
  <1> QED
    BY <1>7 DEF line, c

\* Lines put together.
FiresOne(c, d) == \E i \in 1..Len(c) : Fires(c[i], d)
LEMMA LinesTogether ==
    ASSUME NEW x, NEW y, NEW d
    PROVE  /\ Fires(x, d) => FiresOne(<<x>> \o <<>>, d)
           /\ Fires(x, d) => FiresOne(<<>> \o <<x>>, d)
           /\ Fires(x, d) \/ Fires(y, d) => FiresOne(<<x>> \o <<y>>, d)
  <1> DEFINE S == {x, y}
  <1>1. <<x>> \in Seq(S) /\ <<y>> \in Seq(S) /\ <<>> \in Seq(S)
        /\ Len(<<x>>) = 1 /\ <<x>>[1] = x /\ Len(<<y>>) = 1 /\ <<y>>[1] = y /\ Len(<<>>) = 0
    OBVIOUS
  <1>2. JoinOf(<<x>> \o <<y>>, <<x>>, <<y>>)
    BY <1>1, Joined
  <1>3. <<>> \o <<x>> = <<x>> /\ <<x>> \o <<>> = <<x>>
    BY <1>1, ConcatProperties
  <1>4. FiresOne(<<x>>, d) <=> Fires(x, d)
    BY <1>1 DEF FiresOne
  <1> DEFINE z == <<x>> \o <<y>>
             u == <<x>>
             v == <<y>>
  <1>5. Len(z) = Len(u) + Len(v) /\ (\A i \in 1..Len(u) : z[i] = u[i])
        /\ (\A i \in 1..Len(v) : z[Len(u) + i] = v[i])
    BY <1>2 DEF JoinOf
  <1>6. Len(u) = 1 /\ u[1] = x /\ Len(v) = 1 /\ v[1] = y
    BY <1>1
  <1> HIDE DEF z, u, v
  <1>7. Len(z) = 2 /\ z[1] = x /\ z[2] = y
    <2>1. 1 \in 1..Len(u) /\ 1 \in 1..Len(v) /\ Len(u) + 1 = 2
      BY <1>6
    <2>2. z[1] = u[1] /\ z[Len(u) + 1] = v[1]
      BY <1>5, <2>1
    <2> QED
      BY <1>5, <1>6, <2>1, <2>2
  <1>8. Fires(x, d) \/ Fires(y, d) => FiresOne(z, d)
    BY <1>7 DEF FiresOne
  <1> QED
    BY <1>3, <1>4, <1>8 DEF z

\* Days of the month up to a last "-1".
LEMMA MonthlyFires ==
    ASSUME NEW T, NEW l \in Seq(T), l # <<>>, \A i \in 1..Len(l) - 1 : l[i] # LastDay,
           NEW d \in Dates, d.day \in ToSet(l) \/ (LastDay \in ToSet(l) /\ d.last)
    PROVE  FiresOne(MonthlyLines(l), d)
  <1> DEFINE ends == <<"28", "29", "30", "31">>
             last == [Line EXCEPT !.day = ends, !.lastOnly = TRUE]
             n == SelectInSeq(l, LAMBDA x : x = LastDay)
             front == SubSeq(l, 1, Len(l) - 1)
             ofDays(days) == [Line EXCEPT !.day = days]
  <1>1. DOMAIN l = 1..Len(l) /\ Len(l) \in Nat /\ Len(l) >= 1
    OBVIOUS
  <1>2. d.day # LastDay /\ (d.last => d.day \in {"28", "29", "30", "31"})
    BY HydraFilesAssumption
  <1>3. ASSUME d.last
        PROVE  Fires(last, d)
    <2>1. last.wday = <<>> /\ last.month = 0 /\ last.day = ends
      BY DEF Line
    <2>2. d.day \in ToSet(ends)
      BY <1>2, <1>3 DEF ToSet
    <2> HIDE DEF last
    <2> QED
      BY <1>3, <2>1, <2>2, FiresOnDays
  <1>4. ASSUME NEW days, d.day \in ToSet(days)
        PROVE  Fires(ofDays(days), d)
    <2>1. ofDays(days).wday = <<>> /\ ofDays(days).month = 0 /\ ofDays(days).day = days
          /\ ofDays(days).lastOnly = FALSE
      BY DEF Line
    <2> HIDE DEF ofDays
    <2> QED
      BY <1>4, <2>1, FiresOnDays
  <1>5. CASE ~ Contains(l, LastDay)
    <2>1. ConvMonthDay(l) = [days |-> l, last |-> FALSE]
      BY <1>5 DEF ConvMonthDay
    <2>2. MonthlyLines(l) = <<ofDays(l)>> \o <<>>
      BY <2>1 DEF MonthlyLines
    <2>3. LastDay \notin ToSet(l)
      BY <1>1, <1>5 DEF Contains, ToSet
    <2>4. Fires(ofDays(l), d)
      BY <1>4, <2>3
    <2> HIDE DEF ofDays
    <2> QED
      BY <2>2, <2>4, LinesTogether
  <1>6. CASE Contains(l, LastDay)
    <2>1. l[Len(l)] = LastDay
      <3> PICK k \in Nat : k = Len(l)
        BY <1>1
      <3>1. PICK i \in 1..k : l[i] = LastDay
        BY <1>6 DEF Contains
      <3>2. ~ (i \in 1..k - 1)
        BY <3>1
      <3>3. i = k
        BY <3>2
      <3> QED
        BY <3>1, <3>3
    <2>2. n = Len(l)
      <3> DEFINE I == {i \in 1..Len(l) : l[i] = LastDay}
      <3>1. I = {Len(l)}
        BY <1>1, <2>1
      <3>2. n = Min(I)
        BY <3>1 DEF SelectInSeq
      <3> HIDE DEF I
      <3>3. Min(I) = Len(l)
        BY <1>1, <3>1 DEF Min
      <3> QED
        BY <3>2, <3>3
    <2>3. ConvMonthDay(l) = [days |-> front, last |-> TRUE]
      <3>1. ConvMonthDay(l) = [days |-> SubSeq(l, 1, n - 1), last |-> TRUE]
        BY <1>6 DEF ConvMonthDay
      <3> HIDE DEF n
      <3> QED
        BY <2>2, <3>1
    <2>4. d.day \in ToSet(l) => d.day \in ToSet(front)
      <3> SUFFICES ASSUME d.day \in ToSet(l)
                   PROVE  d.day \in ToSet(front)
        OBVIOUS
      <3> PICK i \in 1..Len(l) : l[i] = d.day
        BY <1>1 DEF ToSet
      <3>1. i \in 1..Len(l) - 1
        BY <1>1, <1>2, <2>1
      <3>2. front \in Seq(T) /\ Len(front) = Len(l) - 1 /\ front[i] = l[i]
        BY <1>1, <3>1
      <3> HIDE DEF front
      <3>3. DOMAIN front = 1..Len(l) - 1
        BY <3>2
      <3> QED
        BY <3>1, <3>2, <3>3 DEF ToSet
    <2> HIDE DEF last, n, ofDays, front
    <2>5. CASE front = <<>>
      <3>1. MonthlyLines(l) = <<>> \o <<last>>
        BY <2>3, <2>5 DEF MonthlyLines, last
      <3>2. ToSet(front) = {}
        BY <2>5 DEF ToSet
      <3>3. Fires(last, d)
        BY <1>3, <2>4, <3>2
      <3> QED
        BY <3>1, <3>3, LinesTogether
    <2>6. CASE front # <<>>
      <3>1. MonthlyLines(l) = <<ofDays(front)>> \o <<last>>
        BY <2>3, <2>6 DEF MonthlyLines, last, ofDays
      <3>2. Fires(ofDays(front), d) \/ Fires(last, d)
        BY <1>3, <1>4, <2>4
      <3> QED
        BY <3>1, <3>2, LinesTogether
    <2> QED
      BY <2>5, <2>6
  <1> QED
    BY <1>5, <1>6

\* A created task has a line for each day wanted.
LEMMA DaysFire ==
    ASSUME IInv, Whole(asked.sched)
    PROVE  EveryDayFires
  <1> DEFINE s == asked.sched
             l == s.list
  <1> SUFFICES ASSUME stage = "created", NEW d \in Dates, Wanted(s, d)
               PROVE  FiresOne(cron, d)
    BY DEF EveryDayFires, FiresOne
  <1>1. cron = IF s.type # "none" THEN FormatCronTask(s) ELSE <<>>
    BY DEF IInv, CronMade
  <1>2. ChkScheduleParam(s)
    BY DEF IInv, PassedClient
  <1>3. l \in Seq(STRING)
    BY AskedType DEF IInv
  <1>4. Whole(s)
    OBVIOUS
  <1>5. s.type \in {"once", "daily", "weekly", "monthly"}
    BY Zenon DEF Wanted
  <1>6. cron = FormatCronTask(s)
    BY <1>1, <1>5
  <1> HIDE DEF s
  <1>7. CASE s.type = "once"
    <2> DEFINE line == [Line EXCEPT !.day = <<s.first.day>>, !.month = s.first.month]
    <2>1. cron = <<line>>
      BY <1>6, <1>7 DEF FormatCronTask
    <2>2. d.month = s.first.month /\ d.day = s.first.day
      BY <1>7 DEF Wanted
    <2>3. line.day = <<s.first.day>> /\ line.month = s.first.month /\ line.wday = <<>>
          /\ line.lastOnly = FALSE
      BY DEF Line
    <2> HIDE DEF line
    <2>4. ToSet(line.wday) = {} /\ d.day \in ToSet(line.day)
      BY <2>2, <2>3 DEF ToSet
    <2>5. Fires(line, d)
      BY <2>2, <2>3, <2>4 DEF Fires, Readable
    <2> QED
      BY <2>1, <2>5, OneLine DEF FiresOne
  <1>8. CASE s.type = "daily"
    <2>1. cron = <<Line>>
      BY <1>6, <1>8 DEF FormatCronTask
    <2>2. Line.wday = <<>> /\ Line.month = 0 /\ Line.day = <<>> /\ Line.lastOnly = FALSE
      BY DEF Line
    <2>3. Fires(Line, d)
      BY <2>2, FiresOnDays
    <2> QED
      BY <2>1, <2>3, OneLine DEF FiresOne
  <1>9. CASE s.type = "weekly"
    <2>1. cron = << [Line EXCEPT !.wday = ConvWeekDay(l)] >>
      BY <1>6, <1>9 DEF FormatCronTask
    <2>2. ToSet(l) \subseteq WeekDays
      BY <1>2, <1>9 DEF ChkScheduleParam
    <2>3. d.wday \in ToSet(l) /\ "TU" \notin ToSet(l)
      BY <1>4, <1>9 DEF Wanted, Whole
    <2> HIDE DEF l
    <2>4. Fires([Line EXCEPT !.wday = ConvWeekDay(l)], d)
      BY <1>3, <2>2, <2>3, WeeklyFires
    <2> QED
      BY <2>1, <2>4, OneLine DEF FiresOne
  <1>10. CASE s.type = "monthly"
    <2>1. cron = MonthlyLines(l)
      BY <1>6, <1>10 DEF FormatCronTask
    <2>2. l # <<>>
      BY <1>2, <1>10 DEF ChkScheduleParam
    <2>3. d.day \in ToSet(l) \/ (LastDay \in ToSet(l) /\ d.last)
      BY <1>10 DEF Wanted
    <2>4. \A i \in 1..Len(l) - 1 : l[i] # LastDay
      BY <1>4, <1>10 DEF Whole
    <2> HIDE DEF l
    <2> QED
      BY <1>3, <2>1, <2>2, <2>3, <2>4, MonthlyFires
  <1> QED
    BY <1>5, <1>7, <1>8, <1>9, <1>10

\* cron starts a created task on every day its schedule names, if the schedule names no
\* Tuesday and no day behind "-1" (formatCronTask, convWeekDay, convMonthDay).
THEOREM DaysDoFire == Spec => []WholeDaysFire
  <1>1. IInv => WholeDaysFire
    BY DaysFire DEF WholeDaysFire
  <1> QED
    BY <1>1, Inductive, PTL

----------------------------------------------------------------------------
(* The files of hosts and logins.                                          *)

\* The files of a list, each closed and put together, are lines and have all words of
\* the files in their order (copyFileList).
WordsOf(list) == FlattenSeq([i \in 1..Len(list) |-> Without(Files[list[i]], {"nl"})])
LoginsRight(l, list) == InLines(l) /\ Without(l, {"nl"}) = WordsOf(list)
LEMMA LoginsAreRight ==
    ASSUME NEW list \in Seq(STRING), \A i \in 1..Len(list) : list[i] \in DOMAIN Files
    PROVE  LoginsRight(FlattenSeq([i \in 1..Len(list) |-> Closed(Files[list[i]])]), list)
  <1> DEFINE T == Texts
             N == Len(list)
             F(i) == Files[list[i]]
             closed(i) == Closed(F(i))
             words(i) == Without(F(i), {"nl"})
             A == [i \in 1..N |-> closed(i)]
             B == [i \in 1..N |-> words(i)]
  <1>0. N \in Nat
    OBVIOUS
  <1>1. ASSUME NEW f, f \in DOMAIN Files
        PROVE  Files[f] \in Seq(T) /\ WordsApart(Files[f])
    <2>1. Files[f] \in Seq(STRING) /\ WordsApart(Files[f])
      BY <1>1, HydraFilesAssumption
    <2>2. STRING \subseteq T
      BY DEF Texts
    <2> HIDE DEF T
    <2> QED
      BY <2>1, <2>2, SeqMonotonic
  <1>2. ASSUME NEW f, f \in DOMAIN Files
        PROVE  /\ Closed(Files[f]) \in Seq(T) /\ InLines(Closed(Files[f]))
               /\ Without(Closed(Files[f]), {"nl"}) = Without(Files[f], {"nl"})
    <2> PICK t \in Seq(Texts) : t = Files[f] /\ WordsApart(t)
      BY <1>1, <1>2
    <2> QED
      BY ClosedIsInLines
  <1>3. ASSUME NEW t \in Seq(T)
        PROVE  Without(t, {"nl"}) \in Seq(T)
    <2>1. CASE t = <<>>
      BY <2>1, WithoutNone, EmptySeq
    <2>2. CASE t # <<>>
      <3>1. Last(t) \in T
        BY <2>2, FrontAndLast
      <3> PICK x \in Texts : x = Last(t)
        BY <3>1
      <3> QED
        BY WithoutNext
    <2> QED
      BY <2>1, <2>2
  <1>4. ASSUME NEW i \in 1..N
        PROVE  /\ closed(i) \in Seq(T) /\ InLines(closed(i))
               /\ words(i) \in Seq(T) /\ Without(closed(i), {"nl"}) = words(i)
    <2>1. list[i] \in DOMAIN Files
      OBVIOUS
    <2> QED
      BY <1>2, <1>3, <2>1
  <1> HIDE DEF T, closed, words
  <1>5. A \in Seq(Seq(T)) /\ B \in Seq(Seq(T)) /\ Len(A) = N /\ Len(B) = N
    BY <1>0, <1>4
  <1>6. PICK k : JoinedUpTo(k, T, A)
    BY <1>5, FlattenIsJoined
  <1>7. PICK m : JoinedUpTo(m, T, B)
    BY <1>5, FlattenIsJoined
  <1>8. \A i \in 1..N : A[i] = closed(i) /\ B[i] = words(i)
    OBVIOUS
  <1> HIDE DEF A, B, N
  <1>9. /\ k \in [Nat -> Seq(T)] /\ k[0] = <<>> /\ FlattenSeq(A) = k[N]
        /\ \A n \in 0..N - 1 : k[n + 1] = k[n] \o A[n + 1]
    BY <1>5, <1>6 DEF JoinedUpTo
  <1>10. /\ m \in [Nat -> Seq(T)] /\ m[0] = <<>> /\ FlattenSeq(B) = m[N]
         /\ \A n \in 0..N - 1 : m[n + 1] = m[n] \o B[n + 1]
    BY <1>5, <1>7 DEF JoinedUpTo
  <1> DEFINE good(n) == InLines(k[n]) /\ Without(k[n], {"nl"}) = m[n]
             G == {n \in Nat : n <= N => good(n)}
  <1>11. 0 \in G
    <2>1. InLines(<<>>)
      BY DEF InLines, WordsApart
    <2> QED
      BY <1>9, <1>10, <2>1, WithoutNone
  <1>12. ASSUME NEW n \in Nat, n \in G
         PROVE  n + 1 \in G
    <2> SUFFICES ASSUME n + 1 <= N PROVE good(n + 1)
      OBVIOUS
    <2>1. n \in 0..N - 1 /\ n + 1 \in 1..N /\ n <= N
      BY <1>0
    <2>2. good(n)
      BY <1>12, <2>1
    <2> PICK a \in Seq(Texts) : a = k[n]
      BY <1>9 DEF T
    <2> PICK b \in Seq(Texts) : b = closed(n + 1) /\ InLines(b) /\ Without(b, {"nl"}) = words(n + 1)
      BY <1>4, <2>1 DEF T
    <2>3. k[n + 1] = a \o b /\ m[n + 1] = m[n] \o words(n + 1)
      BY <1>8, <1>9, <1>10, <2>1
    <2>4. InLines(a \o b)
      BY <2>2, LinesBehindLines
    <2>5. Without(a \o b, {"nl"}) = Without(a, {"nl"}) \o Without(b, {"nl"})
      BY WithoutBoth
    <2>6. Without(a \o b, {"nl"}) = m[n] \o words(n + 1)
      BY <2>2, <2>5
    <2> QED
      BY <2>3, <2>4, <2>6
  <1> HIDE DEF G
  <1>13. Nat \subseteq G
    BY <1>11, <1>12, InductionOnSet
  <1>14. good(N)
    <2>1. N \in G /\ N <= N
      BY <1>0, <1>13
    <2> QED
      BY <2>1 DEF G
  <1>15. InLines(FlattenSeq(A)) /\ Without(FlattenSeq(A), {"nl"}) = FlattenSeq(B)
    BY <1>9, <1>10, <1>14
  <1> QED
    BY <1>15 DEF LoginsRight, WordsOf, A, B, N, closed, words

\* The files have what was asked for.
LEMMA FilesAreMeant ==
    ASSUME IInv
    PROVE  FilesRight
  <1> SUFFICES ASSUME stage \in {"created", "running", "ended"}
               PROVE  /\ asked.hosts.type = "list" =>
                            ipList = Without(asked.hosts.text, Separators)
                      /\ WordsApart(login) /\ Last(login) = "nl"
                      /\ Without(login, {"nl"}) = WordsOf(asked.logins)
    BY DEF FilesRight, WordsOf
  <1>1. /\ req.hosts = [asked.hosts EXCEPT !.text = Escaped(asked.hosts.text)]
        /\ req.logins = asked.logins
    BY RewrittenKeeps DEF IInv
  <1>2. asked.hosts \in [type : STRING, text : Seq(HostRec)] /\ asked.logins \in LoginTexts
    BY AskedType DEF IInv
  <1>3. asked.logins \in Seq(STRING)
    BY <1>2, HydraFilesAssumption
  <1>4. ASSUME asked.hosts.type = "list"
        PROVE  ipList = Without(asked.hosts.text, Separators)
    <2>1. req.hosts.type = "list" /\ req.hosts.text = Escaped(asked.hosts.text)
      BY <1>1, <1>2, <1>4
    <2>2. ipList = ConvIPsByLine(req.hosts.text) /\ ipList # Failed
      BY <2>1 DEF IInv, FilesMade
    <2>3. ipList = Without(req.hosts.text, Separators)
      BY <2>2 DEF ConvIPsByLine
    <2> PICK t \in Seq(HostRec) : t = asked.hosts.text
      BY <1>2
    <2>4. Without(Escaped(t), Separators) = Without(t, Separators)
      BY EscapedKeepsHosts
    <2> QED
      BY <2>1, <2>3, <2>4
  <1> PICK list \in Seq(STRING) : list = asked.logins
    BY <1>3
  <1>5. login = CopyFileList(list) /\ login # Failed
    BY <1>1 DEF IInv, FilesMade
  <1>6. \A i \in 1..Len(list) : list[i] \in DOMAIN Files
    BY <1>5 DEF CopyFileList
  <1>7. login = FlattenSeq([i \in 1..Len(list) |-> Closed(Files[list[i]])])
    BY <1>5, <1>6 DEF CopyFileList
  <1>8. LoginsRight(login, list)
    BY <1>6, <1>7, LoginsAreRight
  <1>9. login # <<>>
    BY <1>5 DEF Failed
  <1> QED
    BY <1>4, <1>8, <1>9 DEF LoginsRight, InLines

\* hydra finds every host of the request in the file of hosts, and all words of the
\* template files, each on a line of its own, in the login file, for texts and files of
\* every length (escapeHydraHosts, convIPsByLine, copyFileList).
THEOREM FilesAreRight == Spec => []FilesRight
  <1>1. IInv => FilesRight
    BY FilesAreMeant
  <1> QED
    BY <1>1, Inductive, PTL

=============================================================================
