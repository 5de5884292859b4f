-------------------------- MODULE PorcupineProofs --------------------------
(***************************************************************************)
(* Proofs about the linearizability checker of Porcupine.tla, for every    *)
(* set of checks: histories of any length, any number of keys.             *)
(*                                                                         *)
(* TakenBack: SearchInv says of every search that the list holds exactly   *)
(* the entries of the operations not yet placed (IsList), that each choice *)
(* on the stack was possible where it was made, and that the pointers of a *)
(* lifted call and return are still those unlift needs (CanUnlift).        *)
(*                                                                         *)
(* RightVerdict, Illegal: CacheInv says that a configuration in the cache  *)
(* is on the stack, or every choice it has leads to one in the cache.  A   *)
(* search that ends with an empty stack leaves a cache closed under        *)
(* choices, so that the linearization of a history would be walked through *)
(* it to the end (NoneExplains), where no operation is left to return.     *)
(*                                                                         *)
(* RightVerdict, Ok: the searches of the keys give an order of each key's  *)
(* operations (OrderFound); Locality makes one order of them all.          *)
(***************************************************************************)
EXTENDS Porcupine, WellFoundedInduction, TLAPS

\* A set of numbers that has 0 and, with a number, the next one, has them all.
LEMMA Induct ==
  \A N \in Nat : \A P :
    /\ 0 \in P
    /\ (\A n \in 1..N : n - 1 \in P => n \in P)
    => \A n \in 0..N : n \in P
\* A nonempty set of natural numbers has a least element.
<1>LeastNatural. ASSUME NEW S \in SUBSET Nat, S # {}
                 PROVE  \E x \in S : \A y \in S : x <= y
  <2> USE <1>LeastNatural
  <2> DEFINE R == OpToRel(<, Nat)
  <2>1. IsWellFoundedOn(R, Nat)
    BY NatLessThanWellFounded, Zenon
  <2>2. PICK x \in S : \A y \in S : ~ (<<y, x>> \in R)
    <3> HIDE DEF R
    <3> QED
      BY <2>1, WFMin, Zenon
  <2>3. \A y \in S : ~ (y < x)
    BY <2>2, Zenon DEF OpToRel
  <2> QED
    BY <2>3
<1>Induct. ASSUME NEW N \in Nat, NEW P, 0 \in P, \A n \in 1..N : n - 1 \in P => n \in P
           PROVE  \A n \in 0..N : n \in P
  <2> USE <1>Induct
  <2> DEFINE bad == {n \in 0..N : n \notin P}
  <2> SUFFICES ASSUME bad # {} PROVE FALSE
    OBVIOUS
  <2>1. bad \in SUBSET Nat
    OBVIOUS
  <2>2. PICK x \in bad : \A y \in bad : x <= y
    <3> HIDE DEF bad
    <3> QED
      BY <2>1, <1>LeastNatural
  <2>3. x \in 0..N /\ x \notin P
    OBVIOUS
  <2>4. x # 0
    BY <2>3
  <2>5. x \in 1..N /\ x - 1 \in 0..N /\ ~ (x <= x - 1)
    BY <2>3, <2>4
  <2>6. x - 1 \in P
    BY <2>2, <2>5
  <2> QED
    BY <2>3, <2>5, <2>6
<1> QED
  BY <1>Induct, Zenon

\* A sequence without repetitions is no longer than what it is taken from, and one that
\* is as long has all of it.
LEMMA Pigeonhole ==
  /\ \A n, m \in Nat : \A f \in Injections(n, 1..m) : n <= m
  /\ \A n \in Nat : \A f \in Injections(n, 1..n) : \A y \in 1..n : \E i \in 1..n : f[i] = y
\* By induction on m: what is last can be put where m was.
<1>ShortInjection. ASSUME NEW n \in Nat, NEW m \in Nat, NEW f \in Injections(n, 1..m)
                   PROVE  n <= m
  <2> USE <1>ShortInjection
  <2> DEFINE P == {k \in 0..m : \A x \in Nat : \A g \in Injections(x, 1..k) : x <= k}
  <2>1. 0 \in P
    <3>1. ASSUME NEW x \in Nat, NEW g \in Injections(x, 1..0) PROVE x <= 0
      BY DEF Injections
    <3> QED
      BY <3>1
  <2>2. ASSUME NEW k \in 1..m, k - 1 \in P PROVE k \in P
    <3> SUFFICES ASSUME NEW x \in Nat, NEW g \in Injections(x, 1..k) PROVE x <= k
      OBVIOUS
    <3>1. CASE x = 0
      BY <3>1
    <3>2. CASE x # 0
      <4> DEFINE q == [i \in 1..(x - 1) |-> IF g[i] = k THEN g[x] ELSE g[i]]
      <4>a. g \in [1..x -> 1..k] /\ \A i, j \in 1..x : i # j => g[i] # g[j]
        BY Zenon DEF Injections
      <4>b. x \in 1..x /\ x - 1 \in Nat /\ k - 1 \in Nat /\ \A i \in 1..(x - 1) : i \in 1..x /\ i # x
        BY <3>2
      <4>1. /\ g \in [1..x -> 1..k] /\ x \in 1..x /\ x - 1 \in Nat /\ k - 1 \in Nat
            /\ \A i \in 1..(x - 1) : i \in 1..x /\ i # x
            /\ \A i, j \in 1..x : i # j => g[i] # g[j]
        BY <4>a, <4>b, Zenon
      <4>2. \A i \in 1..(x - 1) : q[i] \in 1..(k - 1) /\ q[i] = IF g[i] = k THEN g[x] ELSE g[i]
        BY <4>1
      <4>3. q \in [1..(x - 1) -> 1..(k - 1)]
        BY <4>2
      <4> HIDE DEF q
      <4>4. \A i, j \in 1..(x - 1) : i # j => q[i] # q[j]
        BY <4>1, <4>2, Zenon
      <4>5. q \in Injections(x - 1, 1..(k - 1))
        BY <4>3, <4>4, Zenon DEF Injections
      <4>6. x - 1 <= k - 1
        BY <2>2, <4>1, <4>5, Zenon
      <4> QED
        BY <4>6
    <3> QED
      BY <3>1, <3>2
  <2>3. \A k \in 1..m : k - 1 \in P => k \in P
    BY <2>2
  <2>4. m \in P
    <3> HIDE DEF P
    <3>1. m \in 0..m
      OBVIOUS
    <3> QED
      BY <2>1, <2>3, <3>1, Induct, Zenon
  <2> QED
    BY <2>4
\* If y were missed, y could be put where n was.
<1>AllInOrder. ASSUME NEW n \in Nat, NEW f \in Injections(n, 1..n), NEW y \in 1..n
               PROVE  \E i \in 1..n : f[i] = y
  <2> USE <1>AllInOrder
  <2> SUFFICES ASSUME \A i \in 1..n : f[i] # y PROVE FALSE
    BY Zenon
  <2> DEFINE g == [i \in 1..n |-> IF f[i] = n THEN y ELSE f[i]]
  <2>1. f \in [1..n -> 1..n] /\ \A i, j \in 1..n : i # j => f[i] # f[j]
    BY Zenon DEF Injections
  <2>2. \A i \in 1..n : g[i] \in 1..(n - 1) /\ g[i] = IF f[i] = n THEN y ELSE f[i]
    BY <2>1
  <2>3. g \in [1..n -> 1..(n - 1)]
    BY <2>2
  <2> HIDE DEF g
  <2>4. \A i, j \in 1..n : i # j => g[i] # g[j]
    BY <2>1, <2>2, Zenon
  <2>5. g \in Injections(n, 1..(n - 1))
    BY <2>3, <2>4, Zenon DEF Injections
  <2>6. n - 1 \in Nat /\ ~ (n <= n - 1)
    OBVIOUS
  <2> QED
    BY <2>5, <2>6, <1>ShortInjection, Zenon
<1> QED
  BY <1>ShortInjection, <1>AllInOrder, Zenon

\* b lists S, without repetitions
Lists(b, n, S) == b \in [1..n -> S] /\ \A y \in S : \E i \in 1..n : b[i] = y

Bijects(b, n, S) == b \in [1..n -> S] /\ (\A i, j \in 1..n : i # j => b[i] # b[j])
                    /\ \A y \in S : \E i \in 1..n : b[i] = y

HasSize(S, n) == \E b : Bijects(b, n, S)

\* What can be listed is finite, and so are its parts; a set has the size its lists without
\* repetitions have, and a part that is as large is all of it.
LEMMA Counting ==
  /\ \A S : \A n \in Nat : \A b : Lists(b, n, S) => IsFiniteSet(S)
  /\ \A S : \A T \in SUBSET S : IsFiniteSet(S) => IsFiniteSet(T)
  /\ \A S : IsFiniteSet(S) => Cardinality(S) \in Nat /\ HasSize(S, Cardinality(S))
  /\ \A S : \A n \in Nat : HasSize(S, n) => Cardinality(S) = n
  /\ \A S : \A T \in SUBSET S : IsFiniteSet(S) /\ Cardinality(T) >= Cardinality(S) => T = S
\* A part of a set is no larger.
<1>SizeLeq. ASSUME NEW T, NEW S, T \in SUBSET S, NEW p \in Nat, NEW q \in Nat, HasSize(T, p), HasSize(S, q)
            PROVE  p <= q
  <2> USE <1>SizeLeq
  <2>0. PICK b : Bijects(b, p, T)
    BY Zenon DEF HasSize
  <2>1. PICK c : Bijects(c, q, S)
    BY Zenon DEF HasSize
  <2> DEFINE f == [i \in 1..p |-> CHOOSE j \in 1..q : c[j] = b[i]]
  <2>2. ASSUME NEW i \in 1..p PROVE f[i] \in 1..q /\ c[f[i]] = b[i]
    <3>1. b[i] \in S /\ \A y \in S : \E j \in 1..q : c[j] = y
      BY <2>0, <2>1, Zenon DEF Bijects
    <3>2. \E j \in 1..q : c[j] = b[i]
      BY <3>1, Zenon
    <3>3. f[i] = CHOOSE j \in 1..q : c[j] = b[i]
      BY Zenon
    <3> QED
      BY <3>2, <3>3, Zenon
  <2>3. f \in [1..p -> 1..q]
    BY <2>2
  <2> HIDE DEF f
  <2>4. ASSUME NEW i \in 1..p, NEW j \in 1..p, f[i] = f[j] PROVE i = j
    <3>1. b[i] = b[j]
      BY <2>2, <2>4, Zenon
    <3> QED
      BY <2>0, <3>1, Zenon DEF Bijects
  <2>5. f \in Injections(p, 1..q)
    BY <2>3, <2>4, Zenon DEF Injections
  <2> QED
    BY <2>5, Pigeonhole, Zenon
\* A set has one size.
<1>SizeUnique. ASSUME NEW S, NEW n \in Nat, NEW m \in Nat, HasSize(S, n), HasSize(S, m)
               PROVE  n = m
  <2> USE <1>SizeUnique
  <2>1. S \in SUBSET S
    BY Zenon
  <2>2. n <= m /\ m <= n
    BY <2>1, <1>SizeLeq, Zenon
  <2> QED
    BY <2>2
\* Without one of its elements a set has one less.
<1>SizeLess. ASSUME NEW S, NEW n \in Nat, HasSize(S, n), NEW x \in S
             PROVE  n - 1 \in Nat /\ HasSize(S \ {x}, n - 1)
  <2> USE <1>SizeLess
  <2>1. PICK b : Bijects(b, n, S)
    BY Zenon DEF HasSize
  <2>a. b \in [1..n -> S] /\ (\A i, j \in 1..n : i # j => b[i] # b[j]) /\ \A y \in S : \E i \in 1..n : b[i] = y
    BY <2>1, Zenon DEF Bijects
  <2>2. PICK m \in 1..n : b[m] = x
    BY <2>a, Zenon
  <2>3. n \in 1..n /\ n - 1 \in Nat /\ (\A i \in 1..(n - 1) : i \in 1..n /\ i # n)
        /\ (\A i \in 1..n : i # n => i \in 1..(n - 1))
    OBVIOUS
  <2> DEFINE c == [i \in 1..(n - 1) |-> IF i = m THEN b[n] ELSE b[i]]
  <2>4. \A i \in 1..(n - 1) : c[i] = (IF i = m THEN b[n] ELSE b[i])
    BY Zenon
  <2>5. c \in [1..(n - 1) -> S \ {x}]
    <3>1. ASSUME NEW i \in 1..(n - 1) PROVE c[i] \in S \ {x}
      <4> HIDE DEF c
      <4>1. i \in 1..n /\ i # n /\ c[i] = (IF i = m THEN b[n] ELSE b[i])
        BY <2>3, <2>4, Zenon
      <4>2. CASE i = m
        BY <2>2, <2>a, <2>3, <4>1, <4>2, Zenon
      <4>3. CASE i # m
        BY <2>2, <2>a, <2>3, <4>1, <4>3, Zenon
      <4> QED
        BY <4>2, <4>3, Zenon
    <3> QED
      BY <3>1, Zenon
  <2> HIDE DEF c
  <2>6. \A i, j \in 1..(n - 1) : i # j => c[i] # c[j]
    BY <2>a, <2>3, <2>4, ZenonT(30)
  <2>7. ASSUME NEW y \in S \ {x} PROVE \E i \in 1..(n - 1) : c[i] = y
    <3>1. PICK i \in 1..n : b[i] = y
      BY <2>a, Zenon
    <3>2. i # m /\ y # x
      BY <2>2, <3>1, Zenon
    <3>3. CASE i = n
      <4>1. m \in 1..(n - 1) /\ c[m] = b[n]
        BY <2>3, <2>4, <3>2, <3>3, Zenon
      <4> QED
        BY <3>1, <3>3, <4>1, Zenon
    <3>4. CASE i # n
      <4>1. i \in 1..(n - 1) /\ c[i] = b[i]
        BY <2>3, <2>4, <3>2, <3>4, Zenon
      <4> QED
        BY <3>1, <4>1, Zenon
    <3> QED
      BY <3>3, <3>4, Zenon
  <2>8. Bijects(c, n - 1, S \ {x})
    BY <2>5, <2>6, <2>7, Zenon DEF Bijects
  <2> QED
    BY <2>3, <2>8, Zenon DEF HasSize
\* With an element more a set has one more.
<1>SizeMore. ASSUME NEW S, NEW n \in Nat, HasSize(S, n), NEW x, x \notin S
             PROVE  HasSize(S \cup {x}, n + 1)
  <2> USE <1>SizeMore
  <2>1. PICK b : Bijects(b, n, S)
    BY Zenon DEF HasSize
  <2>a. b \in [1..n -> S] /\ (\A i, j \in 1..n : i # j => b[i] # b[j]) /\ \A y \in S : \E i \in 1..n : b[i] = y
    BY <2>1, Zenon DEF Bijects
  <2>3. n + 1 \in 1..(n + 1) /\ n + 1 \notin 1..n /\ (\A i \in 1..(n + 1) : i = n + 1 \/ i \in 1..n)
        /\ (\A i \in 1..n : i \in 1..(n + 1))
    OBVIOUS
  <2> DEFINE c == [i \in 1..(n + 1) |-> IF i \in 1..n THEN b[i] ELSE x]
  <2>4. c[n + 1] = x /\ \A i \in 1..n : c[i] = b[i]
    BY <2>3, Zenon
  <2>5. c \in [1..(n + 1) -> S \cup {x}]
    BY <2>a, Zenon
  <2> HIDE DEF c
  <2>6. \A i, j \in 1..(n + 1) : i # j => c[i] # c[j]
    BY <2>a, <2>3, <2>4, ZenonT(30)
  <2>7. \A y \in S \cup {x} : \E i \in 1..(n + 1) : c[i] = y
    BY <2>a, <2>3, <2>4, Zenon
  <2>8. Bijects(c, n + 1, S \cup {x})
    BY <2>5, <2>6, <2>7, Zenon DEF Bijects
  <2> QED
    BY <2>8, Zenon DEF HasSize
\* The empty set has size 0.
<1>SizeNone. \A S : HasSize(S, 0) <=> S = {}
  <2>1. 1..0 = {}
    OBVIOUS
  <2>2. ASSUME NEW S, HasSize(S, 0) PROVE S = {}
    BY <2>1, <2>2, Zenon DEF HasSize, Bijects
  <2>3. HasSize({}, 0)
    <3>1. Bijects([i \in 1..0 |-> 1], 0, {})
      BY <2>1, Zenon DEF Bijects
    <3> QED
      BY <3>1, Zenon DEF HasSize
  <2> QED
    BY <2>2, <2>3, Zenon
\* The parts of a finite set have a size, by induction on the places of its list.
<1>SizeExists. ASSUME NEW S, IsFiniteSet(S), NEW T \in SUBSET S
               PROVE  \E n \in Nat : HasSize(T, n)
  <2> USE <1>SizeExists
  <2>1. PICK b \in Seq(S) : \A s \in S : \E n \in 1..Len(b) : b[n] = s
    BY Zenon DEF IsFiniteSet
  <2> DEFINE N == Len(b)
             Within(m) == {U \in SUBSET S : \A y \in U : \E i \in 1..m : b[i] = y}
             P == {m \in 0..N : \A U \in Within(m) : \E n \in Nat : HasSize(U, n)}
  <2>a. N \in Nat
    OBVIOUS
  <2>2. 0 \in P
    <3>1. 1..0 = {} /\ 0 \in 0..N /\ 0 \in Nat
      BY <2>a
    <3>2. \A U \in Within(0) : U = {}
      BY <3>1, Zenon
    <3> QED
      BY <3>1, <3>2, <1>SizeNone, Zenon
  <2>3. ASSUME NEW m \in 1..N, m - 1 \in P PROVE m \in P
    <3>1. m \in 0..N /\ (\A i \in 1..m : i = m \/ i \in 1..(m - 1)) /\ \A n \in Nat : n + 1 \in Nat
      BY <2>a
    <3>2. ASSUME NEW U \in Within(m) PROVE \E n \in Nat : HasSize(U, n)
      <4>1. U \ {b[m]} \in Within(m - 1)
        BY <3>1, Zenon
      <4>2. PICK n \in Nat : HasSize(U \ {b[m]}, n)
        BY <2>3, <4>1, Zenon
      <4>3. CASE b[m] \in U
        <5>1. U = (U \ {b[m]}) \cup {b[m]}
          BY <4>3, Zenon
        <5>2. HasSize((U \ {b[m]}) \cup {b[m]}, n + 1)
          BY <4>2, <1>SizeMore, Zenon
        <5> QED
          BY <3>1, <5>1, <5>2, Zenon
      <4>4. CASE b[m] \notin U
        <5>1. U = U \ {b[m]}
          BY <4>4, Zenon
        <5> QED
          BY <4>2, <5>1, Zenon
      <4> QED
        BY <4>3, <4>4, Zenon
    <3> QED
      BY <3>1, <3>2, Zenon
  <2>4. N \in P
    <3> HIDE DEF P, N
    <3>1. N \in 0..N
      BY <2>a
    <3>2. \A m \in 1..N : m - 1 \in P => m \in P
      BY <2>3, Zenon
    <3> QED
      BY <2>a, <2>2, <3>1, <3>2, Induct, Zenon
  <2>5. T \in Within(N)
    BY <2>1, Zenon
  <2> QED
    BY <2>4, <2>5, Zenon
\* Cardinality counts, by induction on the size.
<1>CountOf. ASSUME NEW S, NEW n \in Nat, HasSize(S, n)
            PROVE  Cardinality(S) = n
  <2> USE <1>CountOf
  <2> DEFINE pick(T) == CHOOSE x : x \in T
             Step(f, T) == IF T = {} THEN 0 ELSE 1 + f[T \ {pick(T)}]
             Eq(f) == f = [T \in SUBSET S |-> Step(f, T)]
             CS == CHOOSE f : Eq(f)
             g == [T \in SUBSET S |-> CHOOSE m \in Nat : HasSize(T, m)]
  <2>1. Cardinality(S) = CS[S]
    BY DEF Cardinality
  <2>a. IsFiniteSet(S)
    <3>1. PICK b : Bijects(b, n, S)
      BY Zenon DEF HasSize
    <3>2. b \in [1..n -> S] /\ \A y \in S : \E i \in 1..n : b[i] = y
      BY <3>1, Zenon DEF Bijects
    <3>3. b \in Seq(S) /\ Len(b) = n
      BY <3>2
    <3> QED
      BY <3>2, <3>3, Zenon DEF IsFiniteSet
  <2>2. ASSUME NEW T \in SUBSET S PROVE g[T] \in Nat /\ HasSize(T, g[T])
    <3>1. \E m \in Nat : HasSize(T, m)
      BY <2>a, <1>SizeExists, Zenon
    <3>2. g[T] = CHOOSE m \in Nat : HasSize(T, m)
      BY Zenon
    <3> QED
      BY <3>1, <3>2, Zenon
  <2>b. g = [T \in SUBSET S |-> g[T]]
    OBVIOUS
  <2> HIDE DEF g
  <2>3. ASSUME NEW T \in SUBSET S, T # {} PROVE pick(T) \in T
    BY <2>3, Zenon
  <2> HIDE DEF pick
  <2>4. ASSUME NEW T \in SUBSET S PROVE g[T] = Step(g, T)
    <3>1. CASE T = {}
      <4>1. HasSize(T, 0) /\ 0 \in Nat
        BY <3>1, <1>SizeNone
      <4>2. g[T] = 0
        BY <2>2, <4>1, <1>SizeUnique, Zenon
      <4> QED
        BY <3>1, <4>2
    <3>2. CASE T # {}
      <4> DEFINE U == T \ {pick(T)}
      <4>1. U \in SUBSET S /\ pick(T) \in T
        BY <2>3, <3>2, Zenon
      <4>2. g[T] - 1 \in Nat /\ HasSize(U, g[T] - 1)
        BY <2>2, <4>1, <1>SizeLess, Zenon
      <4>3. g[U] = g[T] - 1
        <5>1. g[U] \in Nat /\ HasSize(U, g[U])
          BY <2>2, <4>1, Zenon
        <5> HIDE DEF U
        <5> QED
          BY <4>2, <5>1, <1>SizeUnique, Zenon
      <4>4. g[T] = 1 + g[U]
        BY <2>2, <4>3
      <4> QED
        BY <3>2, <4>4, Zenon
    <3> QED
      BY <3>1, <3>2, Zenon
  <2>5. Eq(g)
    BY <2>b, <2>4, Zenon
  <2>6. Eq(CS)
    <3> HIDE DEF Eq
    <3> QED
      BY <2>5, Zenon
  <2> HIDE DEF CS
  <2>7. \A T \in SUBSET S : CS[T] = Step(CS, T)
    BY <2>6, Zenon
  <2> DEFINE P == {m \in 0..n : \A T \in SUBSET S : HasSize(T, m) => CS[T] = m}
  <2>8. 0 \in P
    <3>1. 0 \in 0..n
      OBVIOUS
    <3>2. ASSUME NEW T \in SUBSET S, HasSize(T, 0) PROVE CS[T] = 0
      BY <2>7, <3>2, <1>SizeNone, Zenon
    <3> QED
      BY <3>1, <3>2, Zenon
  <2>9. ASSUME NEW m \in 1..n, m - 1 \in P PROVE m \in P
    <3>1. m \in 0..n /\ m \in Nat /\ 0 \in Nat /\ m # 0
      OBVIOUS
    <3>2. ASSUME NEW T \in SUBSET S, HasSize(T, m) PROVE CS[T] = m
      <4>1. T # {}
        BY <3>1, <3>2, <1>SizeNone, <1>SizeUnique, Zenon
      <4> DEFINE U == T \ {pick(T)}
      <4>2. U \in SUBSET S /\ HasSize(U, m - 1)
        BY <2>3, <3>1, <3>2, <4>1, <1>SizeLess, Zenon
      <4>3. CS[U] = m - 1
        BY <2>9, <4>2, Zenon
      <4>4. CS[T] = 1 + CS[U]
        BY <2>7, <4>1, Zenon
      <4> HIDE DEF U
      <4> QED
        BY <4>3, <4>4
    <3> QED
      BY <3>1, <3>2, Zenon
  <2>10. n \in P
    <3> HIDE DEF P
    <3>1. n \in 0..n
      OBVIOUS
    <3>2. \A m \in 1..n : m - 1 \in P => m \in P
      BY <2>9, Zenon
    <3> QED
      BY <2>8, <3>1, <3>2, Induct, Zenon
  <2>11. S \in SUBSET S
    BY Zenon
  <2> QED
    BY <2>1, <2>10, <2>11, Zenon
<1>Listing. \A S : \A n \in Nat : \A b : Lists(b, n, S) => IsFiniteSet(S)
  <2> SUFFICES ASSUME NEW S, NEW n \in Nat, NEW b, Lists(b, n, S) PROVE IsFiniteSet(S)
    BY Zenon
  <2>1. b \in [1..n -> S] /\ \A y \in S : \E i \in 1..n : b[i] = y
    BY Zenon DEF Lists
  <2>2. b \in Seq(S) /\ Len(b) = n
    BY <2>1
  <2> QED
    BY <2>1, <2>2, Zenon DEF IsFiniteSet
<1>Sized. \A S : \A n \in Nat : HasSize(S, n) => IsFiniteSet(S)
  BY <1>Listing, ZenonT(30) DEF HasSize, Bijects, Lists
<1>1. \A S : \A T \in SUBSET S : IsFiniteSet(S) => IsFiniteSet(T)
  BY <1>SizeExists, <1>Sized, Zenon
<1>2. ASSUME NEW S, IsFiniteSet(S) PROVE Cardinality(S) \in Nat /\ HasSize(S, Cardinality(S))
  <2>1. PICK n \in Nat : HasSize(S, n)
    BY <1>2, <1>SizeExists, Zenon
  <2>2. Cardinality(S) = n
    BY <2>1, <1>CountOf, Zenon
  <2> QED
    BY <2>1, <2>2, Zenon
<1>3. ASSUME NEW S, NEW T \in SUBSET S, IsFiniteSet(S), Cardinality(T) >= Cardinality(S) PROVE T = S
  <2> SUFFICES ASSUME NEW y \in S, y \notin T PROVE FALSE
    BY Zenon
  <2> DEFINE t == Cardinality(T)
             c == Cardinality(S)
  <2>1. t \in Nat /\ HasSize(T, t) /\ c \in Nat /\ HasSize(S, c)
    BY <1>1, <1>2, <1>3, Zenon
  <2>2. HasSize(T \cup {y}, t + 1) /\ T \cup {y} \in SUBSET S
    BY <2>1, <1>SizeMore, Zenon
  <2>4. t >= c
    BY <1>3, Zenon
  <2> HIDE DEF t, c
  <2>3. t + 1 \in Nat
    BY <2>1
  <2>5. t + 1 <= c
    BY <2>1, <2>2, <2>3, <1>SizeLeq, Zenon
  <2> QED
    BY <2>1, <2>4, <2>5
<1> QED
  BY <1>Listing, <1>1, <1>2, <1>3, <1>CountOf, Zenon

\* f goes on from a by the functions G
Solves(f, N, a, G) == f[0] = a /\ \A n \in 1..N : f[n] = G[n][f[n - 1]]

\* A recursion over 0..N has a solution.
LEMMA Recursion ==
  ASSUME NEW N \in Nat, NEW X, NEW a \in X, NEW G \in [1..N -> [X -> X]]
  PROVE  \E f \in [0..N -> X] : Solves(f, N, a, G)
<1> DEFINE Good == {m \in 0..N : \E f \in [0..N -> X] :
                      f[0] = a /\ \A n \in 1..m : f[n] = G[n][f[n - 1]]}
<1>1. 0 \in Good
  <2> DEFINE f == [n \in 0..N |-> a]
  <2>1. 0 \in 0..N /\ \A n \in 1..0 : FALSE
    OBVIOUS
  <2>2. f \in [0..N -> X] /\ f[0] = a
    BY <2>1
  <2> HIDE DEF f
  <2> QED
    BY <2>1, <2>2, Zenon
<1>2. ASSUME NEW m \in 1..N, m - 1 \in Good PROVE m \in Good
  <2>1. PICK f \in [0..N -> X] : f[0] = a /\ \A n \in 1..(m - 1) : f[n] = G[n][f[n - 1]]
    BY <1>2
  <2> DEFINE x == G[m][f[m - 1]]
             g == [f EXCEPT ![m] = x]
  <2>2. m \in 0..N /\ m - 1 \in 0..N /\ m # 0
    OBVIOUS
  <2>3. x \in X
    BY <2>2
  <2> HIDE DEF x
  <2>4. g \in [0..N -> X] /\ g[m] = x /\ \A n \in 0..N : n # m => g[n] = f[n]
    BY <2>2, <2>3
  <2> HIDE DEF g
  <2>5. g[0] = a
    BY <2>1, <2>2, <2>4
  <2>6. ASSUME NEW n \in 1..m PROVE g[n] = G[n][g[n - 1]]
    <3>1. n \in 0..N /\ n - 1 \in 0..N /\ n - 1 # m /\ (n # m => n \in 1..(m - 1))
      OBVIOUS
    <3>2. g[n - 1] = f[n - 1]
      BY <2>4, <3>1, Zenon
    <3>3. CASE n = m
      BY <2>4, <3>2, <3>3 DEF x
    <3>4. CASE n # m
      BY <2>1, <2>4, <3>1, <3>2, <3>4, Zenon
    <3> QED
      BY <3>3, <3>4
  <2> QED
    BY SMTT(30), <2>2, <2>4, <2>5, <2>6
<1>3. N \in Good
  <2> HIDE DEF Good
  <2>1. \A m \in 1..N : m - 1 \in Good => m \in Good
    BY <1>2, Zenon
  <2>2. N \in 0..N
    OBVIOUS
  <2> QED
    BY <1>1, <2>1, <2>2, Induct, Zenon
<1> QED
  BY <1>3, Zenon DEF Solves

----------------------------------------------------------------------------
(* The doubly linked list.                                                 *)

\* x is the node that follows node i among the nodes R, or Nil
NextIn(R, i, x) ==
  \/ x = Nil /\ \A j \in R : j <= i
  \/ x \in R /\ x > i /\ \A j \in R : j > i => x <= j

\* x is the node before node i among the nodes R, or headEntry
PrevIn(R, i, x) == x \in R \cup {Head0} /\ x < i /\ \A j \in R : j < i => j <= x

\* the pointers of node i are those it has in a list of the nodes R
Linked(l, R, i) == NextIn(R, i, l.next[i]) /\ PrevIn(R, i, l.prev[i])

\* l is a list of the nodes R out of n, behind headEntry
IsList(l, n, R) ==
  /\ l.next \in [0..n -> Int] /\ l.prev \in [0..n -> Int]
  /\ NextIn(R, Head0, l.next[Head0])
  /\ \A i \in R : Linked(l, R, i)

\* the nodes that are not among R have the same pointers in u and in l
SameOutside(u, l, n, R) ==
  \A j \in (1..n) \ R : u.next[j] = l.next[j] /\ u.prev[j] = l.prev[j]

----------------------------------------------------------------------------
(* Orders.                                                                 *)

\* B is a strict partial order of S
StrictOrder(S, B) ==
  /\ \A x \in S : <<x, x>> \notin B
  /\ \A x, y, z \in S : <<x, y>> \in B /\ <<y, z>> \in B => <<x, z>> \in B

NoneBefore(S, B, x) == \A y \in S : <<y, x>> \notin B

\* A nonempty finite set has an element that comes before none of the others, when
\* no element comes before itself and coming before is transitive.
LEMMA Minimal ==
  ASSUME NEW S, IsFiniteSet(S), S # {}, NEW B, StrictOrder(S, B)
  PROVE  \E x \in S : NoneBefore(S, B, x)
<1>0. /\ \A x \in S : <<x, x>> \notin B
      /\ \A x, y, z \in S : <<x, y>> \in B /\ <<y, z>> \in B => <<x, z>> \in B
  BY Zenon DEF StrictOrder
<1>1. PICK sq \in Seq(S) : \A y \in S : \E i \in 1..Len(sq) : sq[i] = y
  BY Zenon DEF IsFiniteSet
<1> DEFINE N == Len(sq)
           b == sq
<1>2. N \in Nat /\ N # 0
  BY <1>1
<1>3. b \in [1..N -> S] /\ \A y \in S : \E i \in 1..N : b[i] = y
  BY <1>1
<1> HIDE DEF N, b
<1> DEFINE P == {m \in 0..N : m = 0 \/ \E x \in S : \A i \in 1..m : <<b[i], x>> \notin B}
<1>4. 0 \in P
  BY <1>2
<1>5. ASSUME NEW m \in 1..N, m - 1 \in P PROVE m \in P
  <2>1. \A i : i \in 1..m <=> i \in 1..(m - 1) \/ i = m
    BY <1>2
  <2>2. b[m] \in S /\ \A i \in 1..(m - 1) : b[i] \in S
    BY <1>2, <1>3
  <2>3. CASE m = 1
    <3>1. \A i \in 1..m : <<b[i], b[m]>> \notin B
      BY <1>0, <2>2, <2>3
    <3> QED
      BY <1>2, <2>2, <3>1
  <2>4. CASE m # 1
    <3>1. PICK x \in S : \A i \in 1..(m - 1) : <<b[i], x>> \notin B
      BY <1>5, <2>4
    <3>2. CASE <<b[m], x>> \in B
      <4>1. \A i \in 1..m : <<b[i], b[m]>> \notin B
        BY <1>0, <2>1, <2>2, <3>1, <3>2, Zenon
      <4> QED
        BY <1>2, <2>2, <4>1
    <3>3. CASE <<b[m], x>> \notin B
      <4>1. \A i \in 1..m : <<b[i], x>> \notin B
        BY <2>1, <3>1, <3>3, Zenon
      <4> QED
        BY <1>2, <4>1
    <3> QED
      BY <3>2, <3>3
  <2> QED
    BY <2>3, <2>4
<1>6. N \in P
  <2> HIDE DEF P
  <2>1. \A m \in 1..N : m - 1 \in P => m \in P
    BY <1>5, Zenon
  <2>2. N \in 0..N
    BY <1>2
  <2> QED
    BY <1>2, <1>4, <2>1, <2>2, Induct, Zenon
<1>7. PICK x \in S : \A i \in 1..N : <<b[i], x>> \notin B
  BY <1>2, <1>6
<1> QED
  BY <1>3, <1>7, Zenon DEF NoneBefore

----------------------------------------------------------------------------
(* The states along a sequence of operations.                              *)

\* A state is a string.
LEMMA StepType ==
  ASSUME NEW st \in Seq(Nat), NEW o \in Operation
  PROVE  StepState(st, o) \in Seq(Nat)
<1>1. o.op \in {"get", "put", "append"} /\ o.value \in Seq(Nat)
  BY DEF Operation
<1> QED
  BY <1>1 DEF StepState

\* f are the states of the store along the operations q
StoreOf(q, f) ==
  /\ f \in [0..Len(q) -> [Keys -> Seq(Nat)]]
  /\ f[0] = [k \in Keys |-> KvInit]
  /\ \A i \in 1..Len(q) :
       f[i] = [f[i - 1] EXCEPT ![q[i].key] = StepState(f[i - 1][q[i].key], q[i])]
  /\ Legal(q) <=> \A i \in 1..Len(q) : StepOk(f[i - 1][q[i].key], q[i])

\* There are such states, and they are the ones Legal looks at.
LEMMA StoreExists ==
  ASSUME NEW q \in Seq(Operation), \A i \in 1..Len(q) : q[i].key \in Keys
  PROVE  \E f : StoreOf(q, f)
<1> DEFINE N == Len(q)
           X == [Keys -> Seq(Nat)]
           a == [k \in Keys |-> KvInit]
           next(x, i) == [x EXCEPT ![q[i].key] = StepState(x[q[i].key], q[i])]
           g(i) == [x \in X |-> next(x, i)]
           G == [i \in 1..N |-> g(i)]
           Eq(f) == f = [i \in 0..N |-> IF i = 0 THEN a ELSE next(f[i - 1], i)]
           store == CHOOSE f : Eq(f)
<1>1. N \in Nat /\ DOMAIN q = 1..N /\ \A i \in 1..N : q[i] \in Operation
  OBVIOUS
<1>2. a \in X
  BY DEF KvInit
<1>3. ASSUME NEW x \in X, NEW i \in 1..N PROVE next(x, i) \in X
  <2>1. q[i].key \in Keys /\ q[i] \in Operation
    BY <1>1
  <2>2. StepState(x[q[i].key], q[i]) \in Seq(Nat)
    BY <2>1, StepType
  <2> QED
    BY <2>1, <2>2
<1> HIDE DEF X, a, next
<1>4. G \in [1..N -> [X -> X]]
  <2>1. \A i \in 1..N : g(i) \in [X -> X]
    BY <1>3
  <2> HIDE DEF g
  <2> QED
    BY <2>1, Zenon
<1>5. PICK f \in [0..N -> X] : f[0] = a /\ \A i \in 1..N : f[i] = G[i][f[i - 1]]
  <2> HIDE DEF N, G, g
  <2>1. \E f \in [0..N -> X] : Solves(f, N, a, G)
    BY <1>1, <1>2, <1>4, Recursion, Zenon
  <2> QED
    BY <2>1, Zenon DEF Solves
<1>6. \A i \in 1..N : f[i] = next(f[i - 1], i)
  <2> TAKE i \in 1..N
  <2>1. i - 1 \in 0..N
    BY <1>1
  <2>2. f[i - 1] \in X
    BY <2>1
  <2> QED
    BY <1>5, <2>2, Zenon
<1>7. Eq(f)
  BY <1>1, <1>5, <1>6
<1>8. Eq(store)
  <2> HIDE DEF Eq
  <2> QED
    BY <1>7
<1>9. Legal(q) <=> \A i \in 1..N : StepOk(store[i - 1][q[i].key], q[i])
  BY <1>1 DEF Legal, next, a
<1> HIDE DEF store
<1>10. /\ store[0] = a /\ \A i \in 1..N : store[i] = next(store[i - 1], i)
       /\ DOMAIN store = 0..N
  <2>1. 0 \in 0..N /\ \A i \in 1..N : i \in 0..N /\ i # 0
    BY <1>1
  <2> QED
    BY <1>8, <2>1, Zenon
<1>11. \A i \in 0..N : store[i] \in X
  <2> DEFINE P == {i \in 0..N : store[i] \in X}
  <2>0. 0 \in 0..N /\ \A i \in 1..N : i \in 0..N
    BY <1>1
  <2>1. 0 \in P
    BY <1>2, <1>10, <2>0, Zenon
  <2>2. \A i \in 1..N : i - 1 \in P => i \in P
    BY <1>3, <1>10, <2>0, Zenon
  <2>3. \A i \in 0..N : i \in P
    <3> HIDE DEF P
    <3> QED
      BY <1>1, <2>1, <2>2, Induct, Zenon
  <2> QED
    BY <2>3
<1>12. store \in [0..N -> X]
  BY <1>8, <1>11, Zenon
<1> QED
  BY <1>9, <1>10, <1>12, Zenon DEF StoreOf, next, a, X

----------------------------------------------------------------------------
(* Locality: orders of the operations of every key make one of all.        *)

AllReturn(h) == \A o \in DOMAIN h : h[o].call < h[o].ret

OpsWith(k) == {i \in 1..Len(history) : history[i].key = k}

\* x orders the operations of key k: their places, how many there are, and the states
\* along them
IsOrder(k, x) ==
  /\ x.size \in Nat
  /\ \A i \in OpsWith(k) : x.rank[i] \in 1..x.size
  /\ \A m \in 1..x.size : \E i \in OpsWith(k) : x.rank[i] = m
  /\ \A i, j \in OpsWith(k) : x.rank[i] = x.rank[j] => i = j
  /\ \A i, j \in OpsWith(k) : history[i].ret < history[j].call => x.rank[i] < x.rank[j]
  /\ x.run[0] = KvInit
  /\ \A i \in OpsWith(k) :
       /\ StepOk(x.run[x.rank[i] - 1], history[i])
       /\ x.run[x.rank[i]] = StepState(x.run[x.rank[i] - 1], history[i])

\* Orders of the operations of every key make a linearization of the history.
LEMMA Locality ==
  \A F :
    /\ check \in Checks
    /\ history \in Seq(Operation)
    /\ AllReturn(history)
    /\ (\A k \in Keys : IsOrder(k, F[k]))
    => \E f \in Injections(Len(history), DOMAIN history) :
         /\ \A i, j \in DOMAIN f : history[f[j]].ret < history[f[i]].call => j < i
         /\ Legal([i \in DOMAIN f |-> history[f[i]]])
<1> DEFINE
  \* f is an order of m of the elements 1..n in which those before an element by B come
  \* before it
  Extends(f, m, n, B) ==
    /\ f \in Injections(m, 1..n)
    /\ \A d \in 1..m : \A x \in 1..n : <<x, f[d]>> \in B => \E e \in 1..(d - 1) : f[e] = x
  \* rk orders the operations of every key of h as they were called
  Ordered(h, rk) ==
    \A i, j \in 1..Len(h) : h[i].key = h[j].key /\ h[i].ret < h[j].call => rk[i] < rk[j]
  \* t are points in time, each between the call and the return of its operation, at
  \* which the operations of a key take effect in the order of rk
  Points(h, rk, t) ==
    /\ t \in [1..Len(h) -> Int]
    /\ \A i \in 1..Len(h) : h[i].call <= t[i] /\ t[i] <= h[i].ret
    /\ \A i, j \in 1..Len(h) : h[i].key = h[j].key /\ rk[i] <= rk[j] => t[i] <= t[j]
  \* the latest call of i and the operations of its key before it
  LatestCall(h, rk, i, x) ==
    /\ \E j \in 1..Len(h) : h[j].key = h[i].key /\ rk[j] <= rk[i] /\ x = h[j].call
    /\ \A j \in 1..Len(h) : h[j].key = h[i].key /\ rk[j] <= rk[i] => h[j].call <= x
  \* the first m operations of key k, and no other of that key, are among the first d of
  \* the order f
  UpTo(f, d, k, x, m) ==
    m \in 0..x.size /\ \A j \in OpsWith(k) : (\E y \in 1..d : f[y] = j) <=> x.rank[j] <= m
  \* in the order f the operations of every key come as F has them
  Keeps(f, F) ==
    \A d \in 1..Len(history) : \A k \in Keys : \A j \in OpsWith(k) :
      f[d] \in OpsWith(k) /\ F[k].rank[j] < F[k].rank[f[d]] => \E y \in 1..(d - 1) : f[y] = j
<1> HIDE DEF Extends, Ordered, Points, LatestCall, UpTo, Keeps
\* There are n numbers from 1 to n.
<1>Interval. \A n \in Nat : IsFiniteSet(1..n) /\ Cardinality(1..n) = n
  <2> SUFFICES ASSUME NEW n \in Nat PROVE IsFiniteSet(1..n) /\ Cardinality(1..n) = n
    BY Zenon
  <2> DEFINE b == [i \in 1..n |-> i]
  <2>1. Bijects(b, n, 1..n) /\ Lists(b, n, 1..n)
    BY DEF Bijects, Lists
  <2> HIDE DEF b
  <2> QED
    BY <2>1, Counting, Zenon DEF HasSize
\* One element more: one that no element left is before.
<1>ExtendsMore. ASSUME NEW n \in Nat, NEW B, StrictOrder(1..n, B), NEW m \in 1..n, NEW f,
                       Extends(f, m - 1, n, B)
                PROVE  \E g : Extends(g, m, n, B)
  <2> USE <1>ExtendsMore
  <2> DEFINE used == {f[d] : d \in 1..(m - 1)}
             S == (1..n) \ used
  <2>1. /\ f \in [1..(m - 1) -> 1..n] /\ f \in Injections(m - 1, 1..n)
        /\ \A i, j \in 1..(m - 1) : i # j => f[i] # f[j]
        /\ \A d \in 1..(m - 1) : \A x \in 1..n : <<x, f[d]>> \in B => \E e \in 1..(d - 1) : f[e] = x
    BY Zenon DEF Extends, Injections
  <2>2. IsFiniteSet(1..n) /\ Cardinality(1..n) = n
    BY <1>Interval, Zenon
  <2>3. S # {}
    <3> SUFFICES ASSUME S = {} PROVE FALSE
      OBVIOUS
    <3>1. \A x \in 1..n : \E d \in 1..(m - 1) : f[d] = x
      BY Zenon
    <3>2. Bijects(f, m - 1, 1..n)
      BY <2>1, <3>1, Zenon DEF Bijects
    <3>3. m - 1 \in Nat /\ m - 1 # n
      OBVIOUS
    <3> QED
      <4>1. HasSize(1..n, m - 1)
        BY <3>2, Zenon DEF HasSize
      <4> QED
        BY <2>2, <3>3, <4>1, Counting
  <2>4. IsFiniteSet(S)
    <3>1. S \in SUBSET (1..n)
      BY Zenon
    <3> HIDE DEF S
    <3> QED
      BY <2>2, <3>1, Counting, ZenonT(30)
  <2>5. S \subseteq 1..n /\ \A x \in S : \A d \in 1..(m - 1) : f[d] # x
    OBVIOUS
  <2>6. \A x \in 1..n : x \in S \/ \E d \in 1..(m - 1) : f[d] = x
    OBVIOUS
  <2> HIDE DEF S
  <2>7. StrictOrder(S, B)
    BY <2>5 DEF StrictOrder
  <2>8. PICK x \in S : NoneBefore(S, B, x)
    BY <2>3, <2>4, <2>7, Minimal, Zenon
  <2> DEFINE g == [d \in 1..m |-> IF d = m THEN x ELSE f[d]]
  <2>9. /\ \A d \in 1..m : d # m => d \in 1..(m - 1)
        /\ \A d \in 1..(m - 1) : d \in 1..m /\ d # m
        /\ \A d \in 1..(m - 1) : \A e \in 1..(d - 1) : e \in 1..(m - 1)
        /\ m \in 1..m
    OBVIOUS
  <2>10. /\ g[m] = x /\ \A d \in 1..(m - 1) : g[d] = f[d]
    BY <2>9, Zenon
  <2>11. g \in [1..m -> 1..n]
    <3>1. \A d \in 1..m : g[d] \in 1..n
      BY <2>1, <2>5, <2>9, <2>10
    <3> QED
      BY <3>1, Zenon
  <2> HIDE DEF g
  <2>12. \A i, j \in 1..m : i # j => g[i] # g[j]
    BY <2>1, <2>5, <2>9, <2>10, Zenon
  <2>13. ASSUME NEW d \in 1..m, NEW y \in 1..n, <<y, g[d]>> \in B
         PROVE  \E e \in 1..(d - 1) : g[e] = y
    <3>1. CASE d = m
      <4>1. y \notin S
        BY <2>8, <2>10, <2>13, <3>1, Zenon DEF NoneBefore
      <4> QED
        BY <2>6, <2>10, <3>1, <4>1, Zenon
    <3>2. CASE d # m
      <4>1. d \in 1..(m - 1) /\ g[d] = f[d]
        BY <2>9, <2>10, <3>2, Zenon
      <4>2. PICK e \in 1..(d - 1) : f[e] = y
        BY <2>1, <2>13, <4>1, Zenon
      <4> QED
        BY <2>9, <2>10, <4>1, <4>2, Zenon
    <3> QED
      BY <3>1, <3>2
  <2>14. g \in Injections(m, 1..n)
    BY <2>11, <2>12, Zenon DEF Injections
  <2> QED
    BY <2>13, <2>14, Zenon DEF Extends
\* A strict order of finitely many elements has a sequence of them in that order.
<1>Extension. ASSUME NEW n \in Nat, NEW B, StrictOrder(1..n, B)
              PROVE  \E f : Extends(f, n, n, B)
  <2> USE <1>Extension
  <2> DEFINE P == {m \in 0..n : \E f : Extends(f, m, n, B)}
  <2>1. 0 \in P
    <3> DEFINE f == [d \in 1..0 |-> 0]
    <3>1. 1..0 = {} /\ 0 \in 0..n
      OBVIOUS
    <3>2. f \in [1..0 -> 1..n]
      BY <3>1
    <3> HIDE DEF f
    <3>3. Extends(f, 0, n, B)
      BY <3>1, <3>2, Zenon DEF Extends, Injections
    <3> QED
      BY <3>1, <3>3, Zenon
  <2>2. \A m \in 1..n : m - 1 \in P => m \in P
    <3>1. \A m \in 1..n : m \in 0..n
      OBVIOUS
    <3> QED
      BY <3>1, <1>ExtendsMore, Zenon
  <2>3. n \in 0..n
    OBVIOUS
  <2>4. n \in P
    <3> HIDE DEF P
    <3> QED
      BY <2>1, <2>2, <2>3, Induct, Zenon
  <2> QED
    BY <2>4
\* There are such points: the latest call so far.
<1>PointsExist. ASSUME NEW h \in Seq(Operation), AllReturn(h), NEW rk \in [1..Len(h) -> Nat], Ordered(h, rk)
                PROVE  \E t : Points(h, rk, t)
  <2> USE <1>PointsExist
  <2> DEFINE n == Len(h)
  <2>1. /\ n \in Nat /\ DOMAIN h = 1..n
        /\ \A i \in 1..n : h[i].call \in Int /\ h[i].ret \in Int
    <3>1. n \in Nat /\ DOMAIN h = 1..n /\ \A i \in 1..n : h[i] \in Operation
      OBVIOUS
    <3> QED
      BY SMTT(30), <3>1 DEF Operation
  <2>2. \A i \in 1..n : rk[i] \in Nat
    OBVIOUS
  <2> HIDE DEF n
  <2>3. ASSUME NEW i \in 1..n PROVE \E x : LatestCall(h, rk, i, x)
    <3> DEFINE S == {j \in 1..n : h[j].key = h[i].key /\ rk[j] <= rk[i]}
               B == {e \in (1..n) \X (1..n) : h[e[1]].call > h[e[2]].call}
    <3>1. \A x, y \in 1..n : <<x, y>> \in B <=> h[x].call > h[y].call
      OBVIOUS
    <3>2. S \subseteq 1..n /\ i \in S
      BY <2>2
    <3>3. IsFiniteSet(S)
      <4>1. IsFiniteSet(1..n)
        BY <2>1, <1>Interval, Zenon
      <4> QED
        BY <3>2, <4>1, Counting, Zenon
    <3> HIDE DEF B
    <3>4. StrictOrder(S, B)
      <4>1. \A x \in S : <<x, x>> \notin B
        BY <2>1, <3>1, <3>2
      <4>2. ASSUME NEW x \in S, NEW y \in S, NEW z \in S, <<x, y>> \in B, <<y, z>> \in B
            PROVE  <<x, z>> \in B
        <5>1. x \in 1..n /\ y \in 1..n /\ z \in 1..n
          BY <3>2
        <5>2. h[x].call > h[y].call /\ h[y].call > h[z].call
          BY <3>1, <4>2, <5>1, Zenon
        <5>3. h[x].call > h[z].call
          BY <2>1, <5>1, <5>2
        <5> QED
          BY <3>1, <5>1, <5>3, Zenon
      <4> QED
        BY <4>1, <4>2, Zenon DEF StrictOrder
    <3>5. PICK x \in S : NoneBefore(S, B, x)
      <4> HIDE DEF S
      <4> QED
        BY <3>2, <3>3, <3>4, Minimal, Zenon
    <3>6. \A y \in S : ~ (h[y].call > h[x].call)
      BY <3>1, <3>2, <3>5, Zenon DEF NoneBefore
    <3>7. \A y \in S : h[y].call <= h[x].call
      BY <2>1, <3>2, <3>6
    <3>8. LatestCall(h, rk, i, h[x].call)
      BY <3>7, Zenon DEF LatestCall, n
    <3> QED
      BY <3>8
  <2> DEFINE t == [i \in 1..n |-> CHOOSE x : LatestCall(h, rk, i, x)]
  <2>4. \A i \in 1..n : LatestCall(h, rk, i, t[i])
    BY <2>3, Zenon
  <2>5. \E T : t \in [1..n -> T]
    <3>1. t \in [1..n -> {CHOOSE x : LatestCall(h, rk, i, x) : i \in 1..n}]
      BY Zenon
    <3> QED
      BY <3>1, Zenon
  <2> HIDE DEF t
  <2>6. ASSUME NEW i \in 1..n PROVE t[i] \in Int
    <3>1. PICK j \in 1..n : t[i] = h[j].call
      BY <2>4, Zenon DEF LatestCall, n
    <3> QED
      BY <2>1, <3>1
  <2>7. t \in [1..n -> Int]
    BY <2>5, <2>6, Zenon
  <2>8. ASSUME NEW i \in 1..n PROVE h[i].call <= t[i] /\ t[i] <= h[i].ret
    <3>1. PICK j \in 1..n : h[j].key = h[i].key /\ rk[j] <= rk[i] /\ t[i] = h[j].call
      BY <2>4, Zenon DEF LatestCall, n
    <3>2. ~ (h[i].ret < h[j].call)
      <4>1. ~ (rk[i] < rk[j])
        BY <2>2, <3>1
      <4> QED
        BY <3>1, <4>1, Zenon DEF Ordered, n
    <3>3. t[i] <= h[i].ret
      BY <2>1, <3>1, <3>2
    <3>4. rk[i] <= rk[i]
      BY <2>2
    <3>5. h[i].call <= t[i]
      BY <2>4, <3>4, Zenon DEF LatestCall, n
    <3> QED
      BY <3>3, <3>5
  <2>9. ASSUME NEW i \in 1..n, NEW j \in 1..n, h[i].key = h[j].key, rk[i] <= rk[j]
        PROVE  t[i] <= t[j]
    <3>1. PICK x \in 1..n : h[x].key = h[i].key /\ rk[x] <= rk[i] /\ t[i] = h[x].call
      BY <2>4, Zenon DEF LatestCall, n
    <3>2. rk[x] <= rk[j]
      BY <2>2, <2>9, <3>1
    <3>3. h[x].key = h[j].key
      BY <2>9, <3>1, Zenon
    <3>4. h[x].call <= t[j]
      BY <2>4, <3>2, <3>3, Zenon DEF LatestCall, n
    <3> QED
      BY <3>1, <3>4, Zenon
  <2> QED
    BY <2>7, <2>8, <2>9, Zenon DEF Points, n
\* One operation more of an order that keeps the order of key k.
<1>NextOfKey. ASSUME NEW k, NEW x, IsOrder(k, x), NEW f, NEW d \in Nat, d # 0, NEW m, UpTo(f, d - 1, k, x, m),
                     f[d] \in OpsWith(k), \A y \in 1..(d - 1) : f[y] # f[d],
                     \A j \in OpsWith(k) : x.rank[j] < x.rank[f[d]] => \E y \in 1..(d - 1) : f[y] = j
              PROVE  x.rank[f[d]] = m + 1 /\ UpTo(f, d, k, x, m + 1)
  <2> USE <1>NextOfKey
  <2> DEFINE i == f[d]
  <2>1. /\ x.size \in Nat /\ m \in 0..x.size /\ i \in OpsWith(k)
        /\ \A j \in OpsWith(k) : x.rank[j] \in 1..x.size
        /\ \A j \in OpsWith(k) : (\E y \in 1..(d - 1) : f[y] = j) <=> x.rank[j] <= m
        /\ \A l \in 1..x.size : \E j \in OpsWith(k) : x.rank[j] = l
        /\ \A j \in OpsWith(k) : x.rank[j] = x.rank[i] => j = i
    BY Zenon DEF IsOrder, UpTo
  <2>2. /\ \A y \in 1..d : y = d \/ y \in 1..(d - 1)
        /\ \A y \in 1..(d - 1) : y \in 1..d
        /\ d \in 1..d
    OBVIOUS
  <2> HIDE DEF i
  <2>3. ~ (x.rank[i] <= m)
    BY <2>1, Zenon DEF i
  <2>4. x.rank[i] \in 1..x.size
    BY <2>1, Zenon
  <2>5. m + 1 \in 1..x.size /\ m + 1 <= x.rank[i]
    BY <2>1, <2>3, <2>4
  <2>6. x.rank[i] = m + 1
    <3>1. PICK j \in OpsWith(k) : x.rank[j] = m + 1
      BY <2>1, <2>5, Zenon
    <3>2. ~ (x.rank[j] <= m)
      BY <2>1, <3>1
    <3>3. ~ (x.rank[j] < x.rank[i])
      BY <2>1, <3>2, Zenon DEF i
    <3> QED
      BY <2>1, <2>4, <2>5, <3>1, <3>3
  <2>7. ASSUME NEW j \in OpsWith(k) PROVE (\E y \in 1..d : f[y] = j) <=> x.rank[j] <= m + 1
    <3>1. x.rank[j] <= m + 1 <=> x.rank[j] <= m \/ x.rank[j] = m + 1
      BY <2>1
    <3>2. x.rank[j] = m + 1 <=> j = i
      BY <2>1, <2>6, Zenon
    <3>3. (\E y \in 1..d : f[y] = j) <=> (\E y \in 1..(d - 1) : f[y] = j) \/ j = i
      BY <2>2, Zenon DEF i
    <3> QED
      BY <2>1, <3>1, <3>2, <3>3, Zenon
  <2>8. m + 1 \in 0..x.size
    BY <2>1, <2>5
  <2> QED
    BY <2>6, <2>7, <2>8, Zenon DEF UpTo, i
\* An order of all operations that keeps the orders of the keys is legal on the store.
<1>LegalTogether. ASSUME check \in Checks, history \in Seq(Operation), NEW F, \A k \in Keys : IsOrder(k, F[k]),
                         NEW f \in Injections(Len(history), 1..Len(history)), Keeps(f, F)
                  PROVE  Legal([i \in DOMAIN f |-> history[f[i]]])
  <2> USE <1>LegalTogether
  <2> DEFINE H == history
             n == Len(H)
             q == [i \in DOMAIN f |-> H[f[i]]]
  <2>1. /\ H \in Seq(Operation) /\ n \in Nat /\ DOMAIN H = 1..n
    OBVIOUS
  <2> HIDE DEF H, n
  <2>2. /\ f \in [1..n -> 1..n] /\ DOMAIN f = 1..n /\ \A i, j \in 1..n : i # j => f[i] # f[j]
    BY DEF Injections, n, H
  <2>3. /\ q \in Seq(Operation) /\ Len(q) = n /\ \A d \in 1..n : q[d] = H[f[d]]
    <3>1. q = [d \in 1..n |-> H[f[d]]]
      BY <2>2, Zenon
    <3>2. \A d \in 1..n : H[f[d]] \in Operation
      BY <2>1, <2>2
    <3> HIDE DEF q
    <3>3. q \in [1..n -> Operation] /\ \A d \in 1..n : q[d] = H[f[d]]
      BY <3>1, <3>2, Zenon
    <3> QED
      BY <2>1, <3>3
  <2>4. \A i \in 1..n : H[i].key \in Keys /\ i \in OpsWith(H[i].key)
    BY <2>1, Zenon DEF Keys, OpsWith, H, n
  <2>5. \A d \in 1..Len(q) : q[d].key \in Keys
    BY <2>2, <2>3, <2>4, Zenon
  <2> HIDE DEF q
  <2>6. PICK s : StoreOf(q, s)
    BY <2>3, <2>5, StoreExists, Zenon
  <2>7. /\ s \in [0..n -> [Keys -> Seq(Nat)]] /\ s[0] = [x \in Keys |-> KvInit]
        /\ \A d \in 1..n : s[d] = [s[d - 1] EXCEPT ![q[d].key] = StepState(s[d - 1][q[d].key], q[d])]
        /\ Legal(q) <=> \A d \in 1..n : StepOk(s[d - 1][q[d].key], q[d])
    BY <2>3, <2>6, Zenon DEF StoreOf
  <2> DEFINE P == {d \in 0..n : \A k \in Keys : \E m : UpTo(f, d, k, F[k], m) /\ s[d][k] = F[k].run[m]}
  <2>8. 0 \in P
    <3>1. 0 \in 0..n /\ 1..0 = {}
      BY <2>1
    <3>2. ASSUME NEW k \in Keys PROVE UpTo(f, 0, k, F[k], 0) /\ s[0][k] = F[k].run[0]
      <4>1. /\ F[k].size \in Nat /\ \A j \in OpsWith(k) : F[k].rank[j] \in 1..F[k].size
            /\ F[k].run[0] = KvInit
        BY Zenon DEF IsOrder
      <4>2. 0 \in 0..F[k].size /\ \A j \in OpsWith(k) : ~ (F[k].rank[j] <= 0)
        BY <4>1
      <4>3. UpTo(f, 0, k, F[k], 0)
        BY <3>1, <4>2, Zenon DEF UpTo
      <4> QED
        BY <2>7, <4>1, <4>3, Zenon
    <3> QED
      BY <3>1, <3>2, Zenon
  <2>9. ASSUME NEW d \in 1..n, d - 1 \in P
        PROVE  d \in P /\ StepOk(s[d - 1][q[d].key], q[d])
    <3> DEFINE i == f[d]
               k == H[i].key
               x == F[k]
    <3>1. /\ d \in 0..n /\ d - 1 \in 0..n /\ d \in Nat /\ d # 0
          /\ \A y \in 1..d : y = d \/ y \in 1..(d - 1)
          /\ \A y \in 1..(d - 1) : y \in 1..d /\ y \in 1..n /\ y # d
      BY <2>1
    <3>2. /\ i \in 1..n /\ k \in Keys /\ i \in OpsWith(k) /\ q[d] = H[i] /\ q[d].key = k
      BY SMTT(30), <2>2, <2>3, <2>4
    <3>3. IsOrder(k, x) /\ s[d - 1] \in [Keys -> Seq(Nat)]
      BY <2>7, <3>1, <3>2, Zenon
    <3> HIDE DEF k, x
    <3>4. PICK m : UpTo(f, d - 1, k, x, m) /\ s[d - 1][k] = x.run[m]
      BY <2>9, <3>2, Zenon DEF x
    <3>5. \A y \in 1..(d - 1) : f[y] # f[d]
      BY <2>2, <3>1, Zenon
    <3>6. \A j \in OpsWith(k) : x.rank[j] < x.rank[f[d]] => \E y \in 1..(d - 1) : f[y] = j
      BY <3>2, ZenonT(30) DEF Keeps, x, n, H
    <3>7. x.rank[i] = m + 1 /\ UpTo(f, d, k, x, m + 1)
      BY <3>1, <3>2, <3>3, <3>4, <3>5, <3>6, <1>NextOfKey
    <3>8. (m + 1) - 1 = m
      <4>1. m \in 0..x.size /\ x.size \in Nat
        BY <3>3, <3>4, Zenon DEF UpTo, IsOrder
      <4> QED
        BY <4>1
    <3>9. StepOk(x.run[m], H[i]) /\ x.run[m + 1] = StepState(x.run[m], H[i])
      <4>1. /\ StepOk(x.run[x.rank[i] - 1], H[i])
            /\ x.run[x.rank[i]] = StepState(x.run[x.rank[i] - 1], H[i])
        BY <3>2, <3>3, Zenon DEF IsOrder, H
      <4> QED
        BY <3>7, <3>8, <4>1, Zenon
    <3>10. s[d] = [s[d - 1] EXCEPT ![k] = StepState(s[d - 1][k], H[i])]
      BY <2>7, <3>2, Zenon
    <3>11. ASSUME NEW z \in Keys
           PROVE  \E l : UpTo(f, d, z, F[z], l) /\ s[d][z] = F[z].run[l]
      <4>1. CASE z = k
        <5>1. s[d][k] = x.run[m + 1]
          BY <3>2, <3>3, <3>4, <3>9, <3>10, Zenon
        <5> QED
          BY <3>7, <4>1, <5>1, Zenon DEF x
      <4>2. CASE z # k
        <5>1. PICK l : UpTo(f, d - 1, z, F[z], l) /\ s[d - 1][z] = F[z].run[l]
          BY <2>9, Zenon
        <5>2. s[d][z] = s[d - 1][z]
          BY <3>3, <3>10, <4>2, Zenon
        <5>3. f[d] \notin OpsWith(z)
          BY <3>2, <4>2, Zenon DEF OpsWith, H, k
        <5>4. UpTo(f, d, z, F[z], l)
          BY <3>1, <5>1, <5>3, ZenonT(30) DEF UpTo
        <5> QED
          BY <5>1, <5>2, <5>4, Zenon
      <4> QED
        BY <4>1, <4>2, Zenon
    <3>12. StepOk(s[d - 1][q[d].key], q[d])
      BY <3>2, <3>4, <3>9, Zenon
    <3> QED
      BY <3>1, <3>11, <3>12, Zenon
  <2>10. \A d \in 0..n : d \in P
    <3> HIDE DEF P
    <3>1. \A d \in 1..n : d - 1 \in P => d \in P
      BY <2>9, Zenon
    <3> QED
      BY <2>1, <2>8, <3>1, Induct, Zenon
  <2>11. Legal(q)
    <3> HIDE DEF P
    <3>1. \A d \in 1..n : d - 1 \in 0..n
      BY <2>1
    <3> QED
      BY <2>7, <2>9, <2>10, <3>1, Zenon
  <2> QED
    BY <2>11 DEF q, H
<1>Locality. ASSUME check \in Checks, history \in Seq(Operation), AllReturn(history),
                    NEW F, \A k \in Keys : IsOrder(k, F[k])
             PROVE  \E f \in Injections(Len(history), DOMAIN history) :
                      /\ \A i, j \in DOMAIN f : history[f[j]].ret < history[f[i]].call => j < i
                      /\ Legal([i \in DOMAIN f |-> history[f[i]]])
  <2> USE <1>Locality
  <2> DEFINE H == history
             n == Len(H)
             rk == [i \in 1..n |-> F[H[i].key].rank[i]]
  <2>1. /\ H \in Seq(Operation) /\ n \in Nat /\ DOMAIN H = 1..n
    OBVIOUS
  <2>2. \A i \in 1..n : H[i].key \in Keys /\ i \in OpsWith(H[i].key)
    BY <2>1, Zenon DEF Keys, OpsWith
  <2>3. \A k \in Keys : \A i \in OpsWith(k) : i \in 1..n /\ H[i].key = k /\ rk[i] = F[k].rank[i]
    BY Zenon DEF OpsWith
  <2>4. \A i \in 1..n : rk[i] \in Nat
    <3> TAKE i \in 1..n
    <3>1. rk[i] \in 1..F[H[i].key].size /\ F[H[i].key].size \in Nat
      BY <2>2, <2>3, Zenon DEF IsOrder
    <3> QED
      BY <3>1
  <2>5. rk \in [1..n -> Nat]
    BY <2>4, Zenon
  <2> HIDE DEF rk
  <2>6. Ordered(H, rk)
    <3> SUFFICES ASSUME NEW i \in 1..n, NEW j \in 1..n, H[i].key = H[j].key, H[i].ret < H[j].call
                 PROVE  rk[i] < rk[j]
      BY Zenon DEF Ordered
    <3> DEFINE k == H[i].key
    <3>1. k \in Keys /\ i \in OpsWith(k) /\ j \in OpsWith(k)
      BY <2>2, Zenon
    <3>2. F[k].rank[i] < F[k].rank[j]
      BY <3>1, Zenon DEF IsOrder
    <3> QED
      BY <2>3, <3>1, <3>2, Zenon
  <2>7. PICK t : Points(H, rk, t)
    <3> HIDE DEF H
    <3> QED
      BY <2>1, <2>5, <2>6, <1>PointsExist, Zenon DEF H
  <2> HIDE DEF H, n
  <2>8. /\ t \in [1..n -> Int]
        /\ \A i \in 1..n : H[i].call <= t[i] /\ t[i] <= H[i].ret
        /\ \A i, j \in 1..n : H[i].key = H[j].key /\ rk[i] <= rk[j] => t[i] <= t[j]
    BY <2>7, Zenon DEF Points, n
  <2> DEFINE B == {e \in (1..n) \X (1..n) :
                     t[e[1]] < t[e[2]] \/ (t[e[1]] = t[e[2]] /\ rk[e[1]] < rk[e[2]])}
  <2>9. \A x, y \in 1..n : <<x, y>> \in B <=> t[x] < t[y] \/ (t[x] = t[y] /\ rk[x] < rk[y])
    OBVIOUS
  <2> HIDE DEF B
  <2>10. StrictOrder(1..n, B)
    <3>1. \A x \in 1..n : t[x] \in Int /\ rk[x] \in Nat
      BY <2>5, <2>8
    <3>2. ASSUME NEW x \in 1..n PROVE <<x, x>> \notin B
      <4>1. ~ (t[x] < t[x]) /\ ~ (rk[x] < rk[x])
        BY <3>1
      <4> QED
        BY <2>9, <4>1, Zenon
    <3>3. ASSUME NEW x \in 1..n, NEW y \in 1..n, NEW z \in 1..n, <<x, y>> \in B, <<y, z>> \in B
          PROVE  <<x, z>> \in B
      <4>1. /\ t[x] < t[y] \/ (t[x] = t[y] /\ rk[x] < rk[y])
            /\ t[y] < t[z] \/ (t[y] = t[z] /\ rk[y] < rk[z])
        BY <2>9, <3>3, Zenon
      <4>2. t[x] < t[z] \/ (t[x] = t[z] /\ rk[x] < rk[z])
        BY SMTT(30), <3>1, <4>1
      <4> QED
        BY <2>9, <4>2, Zenon
    <3> QED
      BY <3>2, <3>3, Zenon DEF StrictOrder
  <2>11. PICK f : Extends(f, n, n, B)
    BY <2>1, <2>10, <1>Extension, Zenon DEF n
  <2>12. /\ f \in Injections(n, 1..n) /\ f \in [1..n -> 1..n] /\ DOMAIN f = 1..n
         /\ \A i, j \in 1..n : i # j => f[i] # f[j]
         /\ \A d \in 1..n : \A x \in 1..n : <<x, f[d]>> \in B => \E e \in 1..(d - 1) : f[e] = x
    BY <2>11 DEF Extends, Injections
  <2>13. n \in Nat /\ \A i \in 1..n : /\ t[i] \in Int /\ H[i].call \in Int /\ H[i].ret \in Int
                                      /\ rk[i] \in Nat /\ f[i] \in 1..n
    <3>1. \A i \in 1..n : H[i] \in Operation
      BY <2>1 DEF n
    <3>2. \A i \in 1..n : H[i].call \in Int /\ H[i].ret \in Int
      BY <3>1 DEF Operation
    <3> QED
      BY <2>1, <2>5, <2>8, <2>12, <3>2 DEF n
  <2>14. ASSUME NEW i \in 1..n, NEW j \in 1..n, H[f[j]].ret < H[f[i]].call PROVE j < i
    <3>1. t[f[j]] < t[f[i]]
      <4>1. f[i] \in 1..n /\ f[j] \in 1..n
        BY <2>13, Zenon
      <4>2. t[f[j]] <= H[f[j]].ret /\ H[f[i]].call <= t[f[i]]
        BY <2>8, <4>1, Zenon
      <4> QED
        BY SMTT(30), <2>13, <2>14, <4>1, <4>2
    <3>2. <<f[j], f[i]>> \in B
      BY <2>9, <2>13, <3>1, Zenon
    <3>3. PICK e \in 1..(i - 1) : f[e] = f[j]
      BY <2>12, <2>13, <3>2, Zenon
    <3>4. e \in 1..n /\ e < i
      BY <2>13
    <3> QED
      BY <2>12, <3>3, <3>4, Zenon
  <2>15. Keeps(f, F)
    <3> SUFFICES ASSUME NEW d \in 1..n, NEW k \in Keys, NEW j \in OpsWith(k), f[d] \in OpsWith(k),
                        F[k].rank[j] < F[k].rank[f[d]]
                 PROVE  \E y \in 1..(d - 1) : f[y] = j
      BY Zenon DEF Keeps, n, H
    <3> DEFINE i == f[d]
    <3>1. /\ i \in 1..n /\ j \in 1..n /\ H[i].key = k /\ H[j].key = k
          /\ rk[j] = F[k].rank[j] /\ rk[i] = F[k].rank[i]
      BY <2>3, ZenonT(30) DEF n, H
    <3> HIDE DEF i
    <3>2. rk[j] < rk[i]
      BY <3>1, Zenon DEF i
    <3>3. rk[j] <= rk[i]
      BY <2>13, <3>1, <3>2
    <3>4. t[j] <= t[i]
      BY <2>8, <3>1, <3>3, Zenon
    <3>5. t[j] < t[i] \/ t[j] = t[i]
      BY <2>13, <3>1, <3>4
    <3>6. <<j, i>> \in B
      BY <2>9, <3>1, <3>2, <3>5, Zenon
    <3> QED
      BY <2>12, <3>1, <3>6, Zenon DEF i
  <2>16. Legal([i \in DOMAIN f |-> history[f[i]]])
    BY <2>12, <2>15, <1>LegalTogether, Zenon DEF n, H
  <2>17. f \in Injections(Len(history), DOMAIN history)
    BY <2>1, <2>12, Zenon DEF n, H
  <2> QED
    BY <2>12, <2>14, <2>16, <2>17, Zenon DEF n, H
<1> QED
  BY <1>Locality, Zenon

----------------------------------------------------------------------------
(* The entries of a partition.                                             *)

\* Times are integers.
LEMMA TimeType ==
  ASSUME NEW h \in Seq(Operation), NEW e \in CallAndReturn(h)
  PROVE  Time(h, e) \in Int
<1>1. e.id \in DOMAIN h /\ h[e.id] \in Operation
  BY DEF CallAndReturn, Ids
<1> QED
  BY SMTT(30), <1>1 DEF Time, Operation

NoRepeat(es) == \A i, j \in DOMAIN es : es[i] = es[j] => i = j

InOrder(h, es) == \A i, j \in DOMAIN es : i < j => Time(h, es[i]) <= Time(h, es[j])

\* es are the entries of the operations h, each once and in the order of time
IsEntries(h, es) ==
  /\ es \in Seq(CallAndReturn(h)) /\ NoRepeat(es) /\ InOrder(h, es)
  /\ \A e \in CallAndReturn(h) : \E i \in DOMAIN es : es[i] = e

----------------------------------------------------------------------------
(* The partition of a history by keys.                                     *)

\* q are the operations of key k among the first m of h, and p their places there
IsPart(h, k, q, p, m) ==
  /\ q \in Seq(Operation) /\ p \in [1..Len(q) -> 1..m]
  /\ \A r \in 1..Len(q) : q[r] = h[p[r]]
  /\ \A r, t \in 1..Len(q) : r < t => p[r] < p[t]
  /\ \A i \in 1..m : h[i].key = k <=> \E r \in 1..Len(q) : p[r] = i

\* PartitionOperations keeps the operations of a key, in their order.
LEMMA PartitionOf ==
  \A h \in Seq(Operation) : \A k :
    \E p : IsPart(h, k, Partition(h, k), p, Len(h))
\* One operation more of the history.
<1>PartGrows. ASSUME NEW h \in Seq(Operation), NEW k, NEW m \in 1..Len(h), NEW q, NEW p,
                     IsPart(h, k, q, p, m - 1)
              PROVE  \E r : IsPart(h, k, IF h[m].key = k THEN Append(q, h[m]) ELSE q, r, m)
  <2> USE <1>PartGrows
  <2>0. Len(h) \in Nat /\ m \in Int /\ h[m] \in Operation
    OBVIOUS
  <2> DEFINE n == Len(q)
  <2>1. /\ q \in Seq(Operation) /\ n \in Nat /\ p \in [1..n -> 1..(m - 1)]
        /\ \A r \in 1..n : q[r] = h[p[r]]
        /\ \A r, t \in 1..n : r < t => p[r] < p[t]
        /\ \A i \in 1..(m - 1) : h[i].key = k <=> \E r \in 1..n : p[r] = i
    BY DEF IsPart
  <2>2. \A i : i \in 1..m <=> i \in 1..(m - 1) \/ i = m
    BY <2>0
  <2>3. \A r \in 1..n : p[r] \in 1..(m - 1) /\ p[r] < m /\ p[r] # m
    BY <2>0, <2>1
  <2>4. CASE h[m].key = k
    <3> DEFINE t == Append(q, h[m])
               u == [r \in 1..(n + 1) |-> IF r = n + 1 THEN m ELSE p[r]]
    <3>1. /\ t \in Seq(Operation) /\ Len(t) = n + 1 /\ t[n + 1] = h[m]
          /\ \A r \in 1..n : t[r] = q[r]
      BY <2>0, <2>1
    <3>2. \A r : r \in 1..(n + 1) <=> r \in 1..n \/ r = n + 1
      BY <2>1
    <3>3. \A r \in 1..n : r # n + 1
      BY <2>1
    <3> HIDE DEF n, t
    <3>4. u[n + 1] = m /\ \A r \in 1..n : u[r] = p[r]
      BY <3>2, <3>3
    <3>5. u \in [1..(n + 1) -> 1..m]
      BY <2>2, <2>3, <3>2
    <3> HIDE DEF u
    <3>6. \A r \in 1..(n + 1) : t[r] = h[u[r]]
      BY <2>1, <3>1, <3>2, <3>4, Zenon
    <3>7. ASSUME NEW r \in 1..(n + 1), NEW x \in 1..(n + 1), r < x PROVE u[r] < u[x]
      <4>1. r \in 1..n /\ (x \in 1..n \/ x = n + 1)
        BY <2>1, <3>7
      <4> QED
        BY <2>1, <2>3, <3>4, <3>7, <4>1, Zenon
    <3>8. ASSUME NEW i \in 1..m PROVE h[i].key = k <=> \E r \in 1..(n + 1) : u[r] = i
      <4>1. CASE i = m
        BY <2>4, <3>2, <3>4, <4>1, Zenon
      <4>2. CASE i # m
        BY <2>1, <2>2, <3>2, <3>4, <4>2, ZenonT(30)
      <4> QED
        BY <4>1, <4>2
    <3>9. IsPart(h, k, t, u, m)
      BY <3>1, <3>5, <3>6, <3>7, <3>8, Zenon DEF IsPart
    <3> QED
      BY <2>4, <3>9 DEF t
  <2>5. CASE h[m].key # k
    <3> HIDE DEF n
    <3>1. p \in [1..n -> 1..m]
      BY <2>1, <2>2
    <3>2. ASSUME NEW i \in 1..m PROVE h[i].key = k <=> \E r \in 1..n : p[r] = i
      BY <2>1, <2>2, <2>3, <2>5, Zenon
    <3>3. IsPart(h, k, q, p, m)
      BY <2>1, <3>1, <3>2, Zenon DEF IsPart, n
    <3> QED
      BY <2>5, <3>3
  <2> QED
    BY <2>4, <2>5
<1>PartitionOf. ASSUME NEW h \in Seq(Operation), NEW k
                PROVE  \E p : IsPart(h, k, Partition(h, k), p, Len(h))
  <2> USE <1>PartitionOf
  <2> DEFINE N == Len(h)
             X == Seq(Operation)
             g(n) == [s \in X |-> IF h[n].key = k THEN Append(s, h[n]) ELSE s]
             G == [n \in 1..N |-> g(n)]
             Eq(f) == f = [n \in 0..N |-> IF n = 0 THEN <<>>
                                          ELSE IF h[n].key = k THEN Append(f[n - 1], h[n])
                                          ELSE f[n - 1]]
             part == CHOOSE f : Eq(f)
  <2>1. N \in Nat /\ <<>> \in X /\ \A n \in 1..N : h[n] \in Operation
    OBVIOUS
  <2>2. G \in [1..N -> [X -> X]]
    <3>1. ASSUME NEW n \in 1..N PROVE g(n) \in [X -> X]
      BY <2>1
    <3> HIDE DEF X, g
    <3> QED
      BY <3>1, Zenon
  <2>3. PICK f \in [0..N -> X] : Solves(f, N, <<>>, G)
    <3> DEFINE a == <<>>
    <3>1. a \in X
      BY <2>1
    <3> HIDE DEF N, X, G, a
    <3>2. \E f \in [0..N -> X] : Solves(f, N, a, G)
      BY <2>1, <2>2, <3>1, Recursion, Zenon
    <3> QED
      BY <3>2, Zenon DEF a
  <2>4. f[0] = <<>> /\ \A n \in 1..N :
           f[n] = IF h[n].key = k THEN Append(f[n - 1], h[n]) ELSE f[n - 1]
    <3>1. f[0] = <<>> /\ \A n \in 1..N : f[n] = G[n][f[n - 1]]
      BY <2>3, Zenon DEF Solves
    <3> SUFFICES ASSUME NEW n \in 1..N
                 PROVE  f[n] = IF h[n].key = k THEN Append(f[n - 1], h[n]) ELSE f[n - 1]
      BY <3>1, Zenon
    <3>2. f[n - 1] \in X
      BY SMTT(30), <2>1
    <3>3. f[n] = g(n)[f[n - 1]]
      BY <3>1
    <3> HIDE DEF X
    <3> QED
      BY <3>2, <3>3, Zenon
  <2>5. Eq(f)
    <3>1. \A n \in 0..N : n # 0 => n \in 1..N
      BY <2>1
    <3>2. ASSUME NEW n \in 0..N
          PROVE  f[n] = IF n = 0 THEN <<>> ELSE IF h[n].key = k THEN Append(f[n - 1], h[n])
                        ELSE f[n - 1]
      BY <2>4, <3>1, Zenon
    <3> HIDE DEF X, N
    <3> QED
      BY <3>2, Zenon
  <2>6. Eq(part)
    <3> HIDE DEF Eq
    <3> QED
      BY <2>5
  <2>7. Partition(h, k) = part[N]
    BY Zenon DEF Partition
  <2> HIDE DEF part
  <2>8. /\ part[0] = <<>>
        /\ \A n \in 1..N :
             part[n] = IF h[n].key = k THEN Append(part[n - 1], h[n]) ELSE part[n - 1]
    <3>1. 0 \in 0..N /\ \A n \in 1..N : n \in 0..N /\ n # 0
      BY <2>1
    <3> QED
      BY <2>6, <3>1, Zenon
  <2> DEFINE P == {n \in 0..N : \E p : IsPart(h, k, part[n], p, n)}
  <2>9. 0 \in P
    <3>1. IsPart(h, k, <<>>, [i \in {} |-> 0], 0)
      BY DEF IsPart
    <3>2. 0 \in 0..N
      BY <2>1
    <3> QED
      BY <2>8, <3>1, <3>2, Zenon
  <2>10. ASSUME NEW n \in 1..N, n - 1 \in P PROVE n \in P
    <3>1. PICK p : IsPart(h, k, part[n - 1], p, n - 1)
      BY <2>10
    <3>2. \E p2 : IsPart(h, k, IF h[n].key = k THEN Append(part[n - 1], h[n])
                               ELSE part[n - 1], p2, n)
      BY <3>1, <1>PartGrows, Zenon
    <3>3. \E p2 : IsPart(h, k, part[n], p2, n)
      BY <2>8, <3>2
    <3>4. n \in 0..N
      BY <2>1
    <3> QED
      BY <3>3, <3>4, Zenon
  <2>11. N \in P
    <3> HIDE DEF P
    <3>1. \A n \in 1..N : n - 1 \in P => n \in P
      BY <2>10, Zenon
    <3>2. N \in 0..N
      BY <2>1
    <3> QED
      BY <2>1, <2>9, <3>1, <3>2, Induct, Zenon
  <2> QED
    BY <2>7, <2>11, Zenon
<1> QED
  BY <1>PartitionOf, Zenon

----------------------------------------------------------------------------
(* Calls and returns.                                                      *)

CallEntry(o) == [id |-> o, kind |-> "call"]

ReturnEntry(o) == [id |-> o, kind |-> "return"]

\* The fields of an entry.
LEMMA EntryFields ==
  ASSUME NEW o
  PROVE  /\ CallEntry(o).id = o /\ CallEntry(o).kind = "call"
         /\ ReturnEntry(o).id = o /\ ReturnEntry(o).kind = "return"
BY DEF CallEntry, ReturnEntry

\* The time of an entry.
LEMMA EntryTime ==
  ASSUME NEW h, NEW o
  PROVE  Time(h, CallEntry(o)) = h[o].call /\ Time(h, ReturnEntry(o)) = h[o].ret
BY DEF CallEntry, ReturnEntry, Time

\* c[o] and r[o] are the nodes of the call and of the return of operation o
IsPairs(h, es, c, r) ==
  /\ c \in [DOMAIN h -> 1..Len(es)] /\ r \in [DOMAIN h -> 1..Len(es)]
  /\ \A o \in DOMAIN h : es[c[o]] = CallEntry(o) /\ es[r[o]] = ReturnEntry(o) /\ c[o] < r[o]
  /\ \A i \in 1..Len(es) :
       /\ es[i].id \in DOMAIN h
       /\ \/ es[i].kind = "call" /\ c[es[i].id] = i
          \/ es[i].kind = "return" /\ r[es[i].id] = i

\* An entry that is strictly earlier than another comes before it.
LEMMA EarlierBefore ==
  ASSUME NEW h \in Seq(Operation), NEW es, IsEntries(h, es),
         NEW i \in 1..Len(es), NEW j \in 1..Len(es), Time(h, es[i]) < Time(h, es[j])
  PROVE  i < j
<1>1. es \in Seq(CallAndReturn(h)) /\ Len(es) \in Nat /\ DOMAIN es = 1..Len(es)
  BY DEF IsEntries
<1>2. Time(h, es[i]) \in Int /\ Time(h, es[j]) \in Int
  BY <1>1, TimeType
<1>3. j < i => Time(h, es[j]) <= Time(h, es[i])
  BY <1>1, Zenon DEF IsEntries, InOrder
<1> QED
  BY <1>1, <1>2, <1>3

\* Every operation has the node of its call and, behind it, that of its return.
LEMMA Pairs ==
  ASSUME NEW h \in Seq(Operation), NEW es, IsEntries(h, es), AllReturn(h)
  PROVE  \E c, r : IsPairs(h, es, c, r)
<1> DEFINE D == DOMAIN h
           N == 1..Len(es)
           c == [o \in D |-> CHOOSE i \in N : es[i] = CallEntry(o)]
           r == [o \in D |-> CHOOSE i \in N : es[i] = ReturnEntry(o)]
<1>1. /\ es \in Seq(CallAndReturn(h)) /\ Len(es) \in Nat /\ DOMAIN es = N
      /\ \A i, j \in N : es[i] = es[j] => i = j
      /\ \A e \in CallAndReturn(h) : \E i \in N : es[i] = e
  BY DEF IsEntries, NoRepeat
<1>2. \A o \in D : CallEntry(o) \in CallAndReturn(h) /\ ReturnEntry(o) \in CallAndReturn(h)
  BY DEF CallEntry, ReturnEntry, CallAndReturn, Ids
<1>3. ASSUME NEW o \in D PROVE c[o] \in N /\ es[c[o]] = CallEntry(o)
  <2>1. \E i \in N : es[i] = CallEntry(o)
    BY <1>1, <1>2, Zenon
  <2> QED
    BY <2>1, Zenon
<1>4. ASSUME NEW o \in D PROVE r[o] \in N /\ es[r[o]] = ReturnEntry(o)
  <2>1. \E i \in N : es[i] = ReturnEntry(o)
    BY <1>1, <1>2, Zenon
  <2> QED
    BY <2>1, Zenon
<1>5. c \in [D -> N] /\ r \in [D -> N]
  BY <1>3, <1>4, Zenon
<1> HIDE DEF c, r
<1>C. /\ \A o \in D : c[o] \in N /\ es[c[o]] = CallEntry(o)
      /\ \A o \in D : r[o] \in N /\ es[r[o]] = ReturnEntry(o)
  BY <1>3, <1>4, Zenon
<1>6. ASSUME NEW o \in D PROVE c[o] < r[o]
  <2>1. Time(h, es[c[o]]) = h[o].call /\ Time(h, es[r[o]]) = h[o].ret
    <3>1. es[c[o]] = CallEntry(o) /\ es[r[o]] = ReturnEntry(o)
      BY <1>C, Zenon
    <3>2. Time(h, CallEntry(o)) = h[o].call /\ Time(h, ReturnEntry(o)) = h[o].ret
      BY DEF Time, CallEntry, ReturnEntry
    <3> QED
      BY <3>1, <3>2, Zenon
  <2>2. Time(h, es[c[o]]) < Time(h, es[r[o]])
    BY <2>1 DEF AllReturn
  <2> QED
    <3>1. c[o] \in 1..Len(es) /\ r[o] \in 1..Len(es)
      BY <1>C, Zenon
    <3> HIDE DEF D
    <3> QED
      BY <2>2, <3>1, EarlierBefore
<1>7. ASSUME NEW i \in N
      PROVE  /\ es[i].id \in D
             /\ \/ es[i].kind = "call" /\ c[es[i].id] = i
                \/ es[i].kind = "return" /\ r[es[i].id] = i
  <2>1. es[i] \in CallAndReturn(h)
    BY <1>1
  <2>2. es[i].id \in D /\ (es[i] = CallEntry(es[i].id) \/ es[i] = ReturnEntry(es[i].id))
    BY <2>1 DEF CallAndReturn, Ids, CallEntry, ReturnEntry
  <2>3. CASE es[i] = CallEntry(es[i].id)
    <3>1. es[i].kind = "call"
      BY <2>3 DEF CallEntry
    <3> QED
      BY <1>1, <1>C, <2>2, <2>3, <3>1, ZenonT(30)
  <2>4. CASE es[i] = ReturnEntry(es[i].id)
    <3>1. es[i].kind = "return"
      BY <2>4 DEF ReturnEntry
    <3> QED
      BY <1>1, <1>C, <2>2, <2>4, <3>1, ZenonT(30)
  <2> QED
    BY <2>2, <2>3, <2>4
<1> QED
  <2>1. \A o \in D : es[c[o]] = CallEntry(o) /\ es[r[o]] = ReturnEntry(o) /\ c[o] < r[o]
    BY <1>C, <1>6, Zenon
  <2> QED
    <3>1. IsPairs(h, es, c, r)
      BY <1>5, <1>7, <2>1, Zenon DEF IsPairs
    <3> QED
      BY <3>1, Zenon

\* The match of a call is its return, and a return has none.
MatchesPairs(h, es, c, r) ==
  \A o \in DOMAIN h : Match(es, c[o]) = r[o] /\ Match(es, r[o]) = Nil

----------------------------------------------------------------------------
(* The search of one partition: operations h with entries es, the list l,  *)
(* the entry e, the bitset lin, the stack cl and the state st.             *)

\* the nodes of the operations that are not among L
Rest(es, L) == {i \in 1..Len(es) : es[i].id \notin L}

\* the operations of the first d choices on the stack
Placed(es, cl, d) == {es[cl[x].entry].id : x \in 1..d}

\* the state after the first d choices
After(cl, st, d) == IF d < Len(cl) THEN cl[d + 1].state ELSE st

Frame(n) == [entry : 1..n, state : Seq(Nat)]

\* among the nodes R no return comes before node i
CallsUpTo(es, R, i) == \A j \in R : j < i => es[j].kind = "call"

\* call i may come next after the operations L, and leads from state s to t
IsChoice(h, es, L, s, t, i) ==
  /\ i \in Rest(es, L) /\ es[i].kind = "call" /\ CallsUpTo(es, Rest(es, L), i)
  /\ StepOk(s, h[es[i].id]) /\ t = StepState(s, h[es[i].id])

\* call i and its return have the pointers with which they were in the list when
\* the operations L had their place
CanUnlift(es, l, L, i) ==
  Linked(l, Rest(es, L), i) /\ Linked(l, Rest(es, L) \ {i}, Match(es, i))

StackOK(h, es, l, cl, st) ==
  /\ cl \in Seq(Frame(Len(es))) /\ st \in Seq(Nat) /\ After(cl, st, 0) = KvInit
  /\ \A d \in 1..Len(cl) :
       /\ IsChoice(h, es, Placed(es, cl, d - 1), After(cl, st, d - 1), After(cl, st, d),
                   cl[d].entry)
       /\ CanUnlift(es, l, Placed(es, cl, d - 1), cl[d].entry)

SearchOK(h, es, l, e, lin, cl, st) ==
  /\ StackOK(h, es, l, cl, st)
  /\ lin = Placed(es, cl, Len(cl))
  /\ IsList(l, Len(es), Rest(es, lin))
  /\ Rest(es, lin) # {} => e \in Rest(es, lin) /\ CallsUpTo(es, Rest(es, lin), e)

\* What is known of the entries: the calls and returns are in pairs.
EntriesOK(h, es) ==
  /\ h \in Seq(Operation) /\ Len(es) \in Nat /\ DOMAIN es = 1..Len(es)
  /\ \E c, r : IsPairs(h, es, c, r)

----------------------------------------------------------------------------
(* The search of each partition, from the start of a check.                *)

\* what the search of key k works on, and where it is
EntriesKept(k) == IsEntries(ops(k), entries[k])

SearchKept(k) ==
  SearchOK(ops(k), entries[k], list[k], entry[k], linearized[k], calls[k], state[k])

OverKeys(f) == f = [k \in Keys |-> f[k]]

\* the variables that are functions of the key
AllOverKeys ==
  /\ OverKeys(entries) /\ OverKeys(list) /\ OverKeys(entry) /\ OverKeys(linearized)
  /\ OverKeys(cache) /\ OverKeys(calls) /\ OverKeys(state) /\ OverKeys(longest)
  /\ OverKeys(outcome)

SearchInv ==
  /\ check \in Checks /\ AllOverKeys
  /\ \A k \in Keys : EntriesKept(k) /\ SearchKept(k)

\* The operations of a partition are operations of the history with its key.
LEMMA OpsFacts ==
  ASSUME check \in Checks, NEW k \in Keys
  PROVE  /\ history \in Seq(Operation) /\ AllReturn(history)
         /\ ops(k) \in Seq(Operation) /\ AllReturn(ops(k))
         /\ \A i \in DOMAIN ops(k) : ops(k)[i].key = k
<1> DEFINE h == history
           q == ops(k)
<1>1. h \in Seq(Operation) /\ \A i \in DOMAIN h : h[i].call < h[i].ret
  BY ChecksAssumption DEF history
<1> HIDE DEF h
<1>2. PICK p : IsPart(h, k, q, p, Len(h))
  BY <1>1, PartitionOf DEF ops, h
<1> HIDE DEF q
<1>3. /\ q \in Seq(Operation) /\ p \in [1..Len(q) -> 1..Len(h)]
      /\ \A r \in 1..Len(q) : q[r] = h[p[r]]
      /\ \A i \in 1..Len(h) : h[i].key = k <=> \E r \in 1..Len(q) : p[r] = i
  BY <1>2, Zenon DEF IsPart
<1>4. DOMAIN q = 1..Len(q) /\ DOMAIN h = 1..Len(h)
  BY <1>1, <1>3
<1>5. ASSUME NEW r \in 1..Len(q) PROVE q[r].key = k /\ q[r].call < q[r].ret
  <2>1. p[r] \in 1..Len(h) /\ q[r] = h[p[r]]
    BY <1>3
  <2>2. h[p[r]].key = k
    BY <1>3, <2>1, Zenon
  <2>3. h[p[r]].call < h[p[r]].ret
    BY <1>1, <1>4, <2>1, Zenon
  <2> QED
    BY <2>1, <2>2, <2>3
<1> QED
  BY <1>1, <1>3, <1>4, <1>5, Zenon DEF AllReturn, h, q

\* What SearchOK needs of the entries.
LEMMA EntriesFacts ==
  ASSUME check \in Checks, NEW k \in Keys, EntriesKept(k)
  PROVE  EntriesOK(ops(k), entries[k])
<1> DEFINE h == ops(k)
           es == entries[k]
<1> HIDE DEF h, es
<1>1. h \in Seq(Operation) /\ AllReturn(h) /\ IsEntries(h, es)
  BY OpsFacts, Zenon DEF EntriesKept, h, es
<1>2. \E c, r : IsPairs(h, es, c, r)
  BY <1>1, Pairs, Zenon
<1>3. Len(es) \in Nat /\ DOMAIN es = 1..Len(es)
  BY <1>1 DEF IsEntries
<1> QED
  BY <1>1, <1>2, <1>3, Zenon DEF EntriesOK, h, es

\* A check starts with the searches at their start.
LEMMA StartInv == Init => SearchInv
\* The list as it is made has all entries in it.
<1>MadeList. ASSUME NEW es, Len(es) \in Nat
             PROVE  IsList(makeLinkedEntries(es), Len(es), 1..Len(es))
  <2> USE <1>MadeList
  <2> DEFINE n == Len(es)
             l == makeLinkedEntries(es)
  <2>1. /\ l.next = [i \in 0..n |-> IF i = n THEN Nil ELSE i + 1]
        /\ l.prev = [i \in 0..n |-> i - 1]
    BY DEF makeLinkedEntries
  <2> HIDE DEF l
  <2>2. l.next \in [0..n -> Int] /\ l.prev \in [0..n -> Int]
    BY <2>1 DEF Nil
  <2>3. \A i \in 0..n : NextIn(1..n, i, l.next[i])
    BY <2>1 DEF NextIn
  <2>4. \A i \in 1..n : PrevIn(1..n, i, l.prev[i])
    BY <2>1 DEF PrevIn, Head0
  <2> QED
    BY <2>2, <2>3, <2>4 DEF IsList, Linked, Head0, l
\* makeEntries gives the entries in the order of time, and there is such an order.
<1>MadeEntries. \A h \in Seq(Operation) :
                  makeEntries(h) # {} /\ \A es \in makeEntries(h) : IsEntries(h, es)
  <2> DEFINE
    Earliest(h, left) == {e \in left : \A f \in left : Time(h, e) <= Time(h, f)}
    Range(s) == {s[i] : i \in DOMAIN s}
    \* the ways to go on with the sequences ss of entries of S
    Extended(h, S, ss) ==
      UNION {{Append(s, e) : e \in Earliest(h, S \ Range(s))} : s \in ss}
    \* s are n entries of S in the order of time, and none of the others is earlier
    IsStart(h, S, s, n) ==
      /\ s \in Seq(S) /\ Len(s) = n /\ NoRepeat(s) /\ InOrder(h, s)
      /\ \A i \in DOMAIN s : \A e \in S \ Range(s) : Time(h, s[i]) <= Time(h, e)
  <2> HIDE DEF Earliest, Range, Extended, IsStart
  \* Sorting goes by repeatedly taking an earliest entry.
  <2>SortingSteps. ASSUME NEW h, NEW S, Cardinality(S) \in Nat
                   PROVE  \E f \in [0..Cardinality(S) -> SUBSET Seq(S)] :
                            /\ f[0] = {<<>>}
                            /\ \A n \in 1..Cardinality(S) : f[n] = Extended(h, S, f[n - 1])
                            /\ SortedByTime(h, S) = f[Cardinality(S)]
    <3> USE <2>SortingSteps
    <3> DEFINE N == Cardinality(S)
               X == SUBSET Seq(S)
               g == [ss \in X |-> Extended(h, S, ss)]
               G == [n \in 1..N |-> g]
               Eq(f) == f = [n \in 0..N |-> IF n = 0 THEN {<<>>}
                                            ELSE Extended(h, S, f[n - 1])]
               sorted == CHOOSE f : Eq(f)
    <3>1. \A ss \in X : Extended(h, S, ss) \in X
      <4> SUFFICES ASSUME NEW ss \in X, NEW t \in Extended(h, S, ss) PROVE t \in Seq(S)
        BY Zenon
      <4>1. PICK s \in ss : \E e \in Earliest(h, S \ Range(s)) : t = Append(s, e)
        BY Zenon DEF Extended
      <4>2. PICK e \in Earliest(h, S \ Range(s)) : t = Append(s, e)
        BY <4>1
      <4>3. s \in Seq(S) /\ e \in S
        BY DEF Earliest
      <4> QED
        BY <4>2, <4>3
    <3>2. N \in Nat /\ {<<>>} \in X /\ G \in [1..N -> [X -> X]]
      <4>1. {<<>>} \in X
        OBVIOUS
      <4>2. g \in [X -> X]
        <5> HIDE DEF X
        <5> QED
          BY <3>1
      <4> HIDE DEF X, g
      <4>3. G \in [1..N -> [X -> X]]
        BY <4>2, Zenon
      <4>4. N \in Nat
        OBVIOUS
      <4> HIDE DEF N, G
      <4> QED
        BY <4>1, <4>3, <4>4, Zenon
    <3>3. PICK f \in [0..N -> X] : f[0] = {<<>>} /\ \A n \in 1..N : f[n] = G[n][f[n - 1]]
      <4> DEFINE a == {<<>>}
      <4>1. a \in X
        BY <3>2
      <4> HIDE DEF N, X, G, g, a
      <4>2. \E f \in [0..N -> X] : Solves(f, N, a, G)
        BY <3>2, <4>1, Recursion, Zenon
      <4> QED
        BY <4>2, Zenon DEF a, Solves
    <3>4. \A n \in 1..N : f[n] = Extended(h, S, f[n - 1])
      <4> TAKE n \in 1..N
      <4>1. n - 1 \in 0..N
        BY <3>2
      <4>2. f[n - 1] \in X
        BY <4>1
      <4> QED
        BY <3>3, <4>2, Zenon
    <3>5. Eq(f)
      BY <3>2, <3>3, <3>4
    <3>6. Eq(sorted)
      <4> HIDE DEF Eq
      <4> QED
        BY <3>5
    <3>7. SortedByTime(h, S) = sorted[N]
      BY DEF SortedByTime, Extended, Earliest, Range
    <3> HIDE DEF sorted
    <3>8. /\ sorted[0] = {<<>>}
          /\ \A n \in 1..N : sorted[n] = Extended(h, S, sorted[n - 1])
          /\ DOMAIN sorted = 0..N
      <4>1. 0 \in 0..N /\ \A n \in 1..N : n \in 0..N /\ n # 0
        BY <3>2
      <4> QED
        BY <3>6, <4>1, Zenon
    <3>9. \A n \in 0..N : sorted[n] \in X
      <4> DEFINE P == {n \in 0..N : sorted[n] \in X}
      <4> HIDE DEF X
      <4>0. 0 \in 0..N /\ \A n \in 1..N : n \in 0..N
        BY <3>2
      <4>1. 0 \in P
        BY <3>2, <3>8, <4>0, Zenon
      <4>2. \A n \in 1..N : n - 1 \in P => n \in P
        BY <3>1, <3>8, <4>0, Zenon
      <4>3. \A n \in 0..N : n \in P
        <5> HIDE DEF P
        <5> QED
          BY <3>2, <4>1, <4>2, Induct, Zenon
      <4> QED
        BY <4>3
    <3>10. sorted \in [0..N -> X]
      BY <3>6, <3>9, Zenon
    <3> QED
      BY <3>7, <3>8, <3>10, Zenon
  \* There are two entries for every operation.
  <2>EntriesFinite. ASSUME NEW h \in Seq(Operation)
                    PROVE  IsFiniteSet(CallAndReturn(h))
    <3> USE <2>EntriesFinite
    <3> DEFINE L == Len(h)
               S == CallAndReturn(h)
               b == [i \in 1..(L + L) |-> IF i <= L THEN [id |-> i, kind |-> "call"]
                                        ELSE [id |-> i - L, kind |-> "return"]]
    <3>1. L \in Nat /\ S = [id : 1..L, kind : {"call", "return"}]
      <4>1. L \in Nat /\ DOMAIN h = 1..L
        OBVIOUS
      <4> QED
        BY <4>1, Zenon DEF CallAndReturn, Ids
    <3> HIDE DEF L, S
    <3>2. L + L \in Nat /\ b \in [1..(L + L) -> S]
      BY <3>1
    <3>3. ASSUME NEW y \in S PROVE \E i \in 1..(L + L) : b[i] = y
      <4>1. CASE y.kind = "call"
        <5>1. y.id \in 1..(L + L) /\ b[y.id] = y
          BY <3>1, <4>1
        <5> QED
          BY <5>1, Zenon
      <4>2. CASE y.kind = "return"
        <5>1. y.id + L \in 1..(L + L) /\ b[y.id + L] = y
          BY <3>1, <4>2
        <5> QED
          BY <5>1, Zenon
      <4> QED
        BY <3>1, <4>1, <4>2
    <3> HIDE DEF b
    <3>4. Lists(b, L + L, S)
      BY <3>2, <3>3, Zenon DEF Lists
    <3>5. IsFiniteSet(S)
      BY <3>2, <3>4, Counting, Zenon
    <3> QED
      BY <3>5 DEF S
  \* One more of the earliest entries keeps a start a start.
  <2>StartGrows. ASSUME NEW h \in Seq(Operation), NEW S \in SUBSET CallAndReturn(h),
                        NEW n \in Nat, NEW s, IsStart(h, S, s, n),
                        NEW e \in Earliest(h, S \ Range(s))
                 PROVE  IsStart(h, S, Append(s, e), n + 1)
    <3> USE <2>StartGrows
    <3> DEFINE t == Append(s, e)
               T(x) == Time(h, x)
    <3>1. s \in Seq(S) /\ Len(s) = n /\ DOMAIN s = 1..n /\ e \in S /\ e \notin Range(s)
      BY DEF IsStart, Earliest
    <3>2. /\ t \in Seq(S) /\ Len(t) = n + 1 /\ DOMAIN t = 1..(n + 1)
          /\ t[n + 1] = e /\ \A i \in 1..n : t[i] = s[i]
      BY <3>1
    <3> HIDE DEF t
    <3>3. \A i \in 1..n : s[i] \in S /\ s[i] \in Range(s)
      BY <3>1 DEF Range
    <3>4. Range(t) = Range(s) \cup {e}
      <4>1. \A i : i \in 1..(n + 1) <=> i \in 1..n \/ i = n + 1
        OBVIOUS
      <4> QED
        BY <3>1, <3>2, <4>1 DEF Range
    <3>5. NoRepeat(t)
      <4> SUFFICES ASSUME NEW i \in 1..(n + 1), NEW j \in 1..(n + 1), t[i] = t[j] PROVE i = j
        BY <3>2, Zenon DEF NoRepeat
      <4>1. i \in 1..n \/ i = n + 1
        OBVIOUS
      <4>2. j \in 1..n \/ j = n + 1
        OBVIOUS
      <4> QED
        BY <3>1, <3>2, <3>3, <4>1, <4>2, Zenon DEF IsStart, NoRepeat
    <3>6. \A x \in S : T(x) \in Int
      BY TimeType
    <3>7. \A f \in S \ Range(s) : T(e) <= T(f)
      BY DEF Earliest
    <3>8. \A i \in 1..n : T(s[i]) <= T(e)
      BY <3>1 DEF IsStart
    <3>9. InOrder(h, t)
      <4> SUFFICES ASSUME NEW i \in 1..(n + 1), NEW j \in 1..(n + 1), i < j PROVE T(t[i]) <= T(t[j])
        BY <3>2, Zenon DEF InOrder
      <4>1. i \in 1..n
        OBVIOUS
      <4>2. j \in 1..n \/ j = n + 1
        OBVIOUS
      <4> QED
        BY <3>1, <3>2, <3>8, <4>1, <4>2, Zenon DEF IsStart, InOrder
    <3>10. ASSUME NEW i \in 1..(n + 1), NEW f \in S \ Range(t) PROVE T(t[i]) <= T(f)
      <4>1. f \in S \ Range(s)
        BY <3>4
      <4>2. i \in 1..n \/ i = n + 1
        OBVIOUS
      <4> QED
        BY <3>1, <3>2, <3>7, <4>1, <4>2, Zenon DEF IsStart
    <3> QED
      BY <3>2, <3>5, <3>9, <3>10, Zenon DEF t, IsStart
  \* There is an earliest entry while entries are left.
  <2>EarliestExists. ASSUME NEW h \in Seq(Operation), NEW S \in SUBSET CallAndReturn(h), S # {}
                     PROVE  Earliest(h, S) # {}
    <3> USE <2>EarliestExists
    <3> DEFINE B == {x \in S \X S : Time(h, x[1]) < Time(h, x[2])}
    <3>1. \A x \in S : Time(h, x) \in Int
      BY TimeType
    <3>2. IsFiniteSet(S)
      BY <2>EntriesFinite, Counting, Zenon
    <3>3. \A x, y \in S : <<x, y>> \in B <=> Time(h, x) < Time(h, y)
      OBVIOUS
    <3>4. StrictOrder(S, B)
      BY <3>1, <3>3 DEF StrictOrder
    <3> HIDE DEF B
    <3>5. PICK x \in S : NoneBefore(S, B, x)
      BY <3>2, <3>4, Minimal, Zenon
    <3>6. \A y \in S : Time(h, x) <= Time(h, y)
      <4>1. \A y \in S : ~ (Time(h, y) < Time(h, x))
        BY <3>3, <3>5, Zenon DEF NoneBefore
      <4>2. \A a, b \in Int : ~ (a < b) => b <= a
        OBVIOUS
      <4> QED
        BY <3>1, <4>1, <4>2, Zenon
    <3> QED
      BY <3>6 DEF Earliest
  <2>MadeEntries. ASSUME NEW h \in Seq(Operation)
                  PROVE  makeEntries(h) # {} /\ \A es \in makeEntries(h) : IsEntries(h, es)
    <3> USE <2>MadeEntries
    <3> DEFINE S == CallAndReturn(h)
               N == Cardinality(S)
    <3>1. IsFiniteSet(S) /\ N \in Nat
      BY <2>EntriesFinite, Counting, Zenon
    <3>2. PICK f \in [0..N -> SUBSET Seq(S)] :
               /\ f[0] = {<<>>}
               /\ \A n \in 1..N : f[n] = Extended(h, S, f[n - 1])
               /\ SortedByTime(h, S) = f[N]
      <4> HIDE DEF S
      <4> QED
        BY <3>1, <2>SortingSteps, Zenon
    <3> HIDE DEF S, N
    <3>S. S \in SUBSET CallAndReturn(h)
      BY DEF S
    <3> DEFINE P == {n \in 0..N : f[n] # {} /\ \A s \in f[n] : IsStart(h, S, s, n)}
    <3>3. \A s, n : n \in Nat /\ IsStart(h, S, s, n) => Cardinality(Range(s)) = n
      <4> SUFFICES ASSUME NEW s, NEW n \in Nat, IsStart(h, S, s, n)
                   PROVE  Cardinality(Range(s)) = n
        BY Zenon
      <4>1. s \in [1..n -> Range(s)] /\ DOMAIN s = 1..n
        BY DEF IsStart, Range
      <4>2. Bijects(s, n, Range(s))
        <5>1. \A y \in Range(s) : \E i \in 1..n : s[i] = y
          BY <4>1, Zenon DEF Range
        <5>2. \A i, j \in 1..n : s[i] = s[j] => i = j
          BY <4>1, Zenon DEF IsStart, NoRepeat
        <5> QED
          BY <4>1, <5>1, <5>2, Zenon DEF Bijects
      <4> QED
        BY <4>2, Counting, Zenon DEF HasSize
    <3>4. 0 \in P
      <4>1. IsStart(h, S, <<>>, 0)
        BY DEF IsStart, NoRepeat, InOrder
      <4>2. 0 \in 0..N
        BY <3>1
      <4> QED
        BY <3>2, <4>1, <4>2, Zenon
    <3>5. ASSUME NEW n \in 1..N, n - 1 \in P PROVE n \in P
      <4>1. /\ f[n - 1] # {} /\ \A s \in f[n - 1] : IsStart(h, S, s, n - 1)
            /\ f[n] = Extended(h, S, f[n - 1]) /\ n - 1 \in Nat /\ (n - 1) + 1 = n /\ n \in 0..N
        BY <3>1, <3>2, <3>5
      <4>2. ASSUME NEW t \in f[n] PROVE IsStart(h, S, t, n)
        <5>1. PICK s \in f[n - 1] : \E e \in Earliest(h, S \ Range(s)) : t = Append(s, e)
          BY <4>1, Zenon DEF Extended
        <5>2. PICK e \in Earliest(h, S \ Range(s)) : t = Append(s, e)
          BY <5>1
        <5>3. IsStart(h, S, t, (n - 1) + 1)
          BY <3>S, <4>1, <5>2, <2>StartGrows, Zenon
        <5> QED
          BY <4>1, <5>3, Zenon
      <4>3. f[n] # {}
        <5>1. PICK s \in f[n - 1] : IsStart(h, S, s, n - 1)
          BY <4>1
        <5>2. Cardinality(Range(s)) # N
          <6>1. Cardinality(Range(s)) = n - 1
            BY <3>3, <4>1, <5>1, Zenon
          <6> QED
            BY <3>1, <6>1
        <5>3. S \ Range(s) # {}
          <6> SUFFICES ASSUME S \subseteq Range(s) PROVE FALSE
            OBVIOUS
          <6>1. Range(s) \subseteq S
            BY <5>1 DEF IsStart, Range
          <6>2. Range(s) = S
            BY <6>1, Zenon
          <6> QED
            BY <5>2, <6>2 DEF N
        <5>4. PICK e : e \in Earliest(h, S \ Range(s))
          BY <3>S, <5>3, <2>EarliestExists, Zenon
        <5>5. Append(s, e) \in Extended(h, S, f[n - 1])
          <6>1. Append(s, e) \in {Append(s, x) : x \in Earliest(h, S \ Range(s))}
            BY <5>4, Zenon
          <6> QED
            BY <6>1, ZenonT(30) DEF Extended
        <5> QED
          BY <4>1, <5>5
      <4> QED
        BY <4>1, <4>2, <4>3
    <3>6. N \in P
      <4> HIDE DEF P
      <4>1. \A n \in 1..N : n - 1 \in P => n \in P
        BY <3>5, Zenon
      <4>2. N \in 0..N
        BY <3>1
      <4> QED
        BY <3>1, <3>4, <4>1, <4>2, Induct, Zenon
    <3>7. makeEntries(h) = f[N]
      BY <3>2, Zenon DEF makeEntries, S
    <3>8. ASSUME NEW es \in f[N] PROVE IsEntries(h, es)
      <4>1. IsStart(h, S, es, N)
        BY <3>6
      <4>2. Range(es) \in SUBSET S
        BY <4>1 DEF IsStart, Range
      <4>3. Range(es) = S
        <5>1. Cardinality(Range(es)) = Cardinality(S)
          BY <3>1, <3>3, <4>1, Zenon DEF N
        <5>2. Cardinality(Range(es)) >= Cardinality(S)
          BY <3>1, <5>1 DEF N
        <5> QED
          BY <3>1, <4>2, <5>2, Counting, Zenon
      <4> QED
        BY <4>1, <4>3, Zenon DEF IsStart, IsEntries, Range, S
    <3> QED
      BY <3>6, <3>7, <3>8
  <2> QED
    BY <2>MadeEntries, Zenon
\* A history about one key is its only partition.
<1>OneKeyPartition. ASSUME NEW h \in Seq(Operation), NEW k, \A i \in DOMAIN h : h[i].key = k
                    PROVE  Partition(h, k) = h
  <2> USE <1>OneKeyPartition
  <2> DEFINE q == Partition(h, k)
             n == Len(q)
             m == Len(h)
  <2>1. PICK p : IsPart(h, k, q, p, m)
    BY PartitionOf
  <2> HIDE DEF q
  <2>2. /\ q \in Seq(Operation) /\ n \in Nat /\ m \in Nat /\ p \in [1..n -> 1..m]
        /\ \A r \in 1..n : q[r] = h[p[r]]
        /\ \A r, t \in 1..n : r < t => p[r] < p[t]
        /\ \A i \in 1..m : \E r \in 1..n : p[r] = i
    BY SMTT(30), <2>1 DEF IsPart
  <2>3. q = [i \in 1..n |-> q[i]] /\ h = [i \in 1..m |-> h[i]]
    BY <2>2
  <2> HIDE DEF n, m
  <2> DEFINE P == {r \in 0..m : r <= n /\ \A t \in 1..r : p[t] = t}
  <2>4. 0 \in P
    BY <2>2
  <2>5. ASSUME NEW r \in 1..m, r - 1 \in P PROVE r \in P
    <3>1. r - 1 <= n /\ \A t \in 1..(r - 1) : p[t] = t
      BY <2>5
    <3>2. PICK t \in 1..n : p[t] = r
      BY <2>2
    <3>3. t \notin 1..(r - 1)
      BY <3>1, <3>2
    <3>4. t >= r /\ r <= n /\ r \in 1..n /\ r - 1 \in Nat
      BY <2>2, <3>3
    <3>5. p[r] <= r
      BY SMTT(30), <2>2, <3>2, <3>4
    <3>6. p[r] >= r
      <4>1. CASE r = 1
        BY <2>2, <3>4, <4>1
      <4>2. CASE r # 1
        <5>1. r - 1 \in 1..(r - 1) /\ r - 1 \in 1..n /\ r - 1 < r
          BY <2>2, <3>4, <4>2
        <5>2. p[r - 1] < p[r] /\ p[r - 1] = r - 1
          BY <2>2, <3>1, <3>4, <5>1
        <5> QED
          BY <2>2, <3>4, <5>2
      <4> QED
        BY <4>1, <4>2
    <3>7. p[r] = r
      BY <2>2, <3>4, <3>5, <3>6
    <3>8. \A x \in 1..r : x \in 1..(r - 1) \/ x = r
      BY <3>4
    <3> QED
      BY <2>2, <3>1, <3>4, <3>7, <3>8
  <2>6. m \in P
    <3> HIDE DEF P
    <3>1. \A r \in 1..m : r - 1 \in P => r \in P
      BY <2>5, Zenon
    <3>2. m \in 0..m
      BY <2>2
    <3> QED
      BY <2>2, <2>4, <3>1, <3>2, Induct, Zenon
  <2>7. n = m
    <3> SUFFICES ASSUME n > m PROVE FALSE
      BY <2>2, <2>6
    <3>1. m + 1 \in 1..n /\ p[m + 1] \in 1..m
      BY <2>2
    <3>2. m \in 1..n /\ m \in 1..m /\ m < m + 1
      BY <2>2, <3>1
    <3>3. p[m] < p[m + 1] /\ p[m] = m
      BY <2>2, <2>6, <3>1, <3>2
    <3> QED
      BY <2>2, <3>1, <3>3
  <2>8. \A i \in 1..n : q[i] = h[i]
    BY <2>2, <2>6, <2>7
  <2> QED
    BY <2>3, <2>7, <2>8, Zenon DEF q
\* Renumbered and converted, the events of a history are its entries again.
<1>EventsAreEntries. \A c0 \in Checks :
                       /\ check = c0
                       /\ check.ids # <<>>
                       => IsEntries(history, convertEntries(renumber(Events)))
  \* the number of ids up to the call of an operation, when the calls come in the
  \* order of the operations
  <2>IdsUpToCall. ASSUME NEW h \in Seq(Operation), NEW es, IsEntries(h, es), NEW c, NEW r,
                         IsPairs(h, es, c, r), OneAfterTheOther(h),
                         NEW ids, DOMAIN ids = DOMAIN h, \A i, j \in DOMAIN ids : ids[i] = ids[j] => i = j,
                         NEW o \in DOMAIN h
                  PROVE  Cardinality({ids[es[m].id] : m \in 1..c[o]}) = o
    <3> USE <2>IdsUpToCall
    <3> DEFINE N == Len(es)
               T == {ids[es[m].id] : m \in 1..c[o]}
               b == [x \in 1..o |-> ids[x]]
    <3>1. /\ es \in Seq(CallAndReturn(h)) /\ N \in Nat /\ DOMAIN h = 1..Len(h) /\ Len(h) \in Nat
      BY DEF IsEntries
    <3>2. /\ c \in [DOMAIN h -> 1..N] /\ r \in [DOMAIN h -> 1..N]
          /\ \A x \in DOMAIN h : es[c[x]] = CallEntry(x) /\ c[x] < r[x]
          /\ \A i \in 1..N : es[i].id \in DOMAIN h /\ (c[es[i].id] = i \/ r[es[i].id] = i)
      BY Zenon DEF IsPairs
    <3>3. \A x \in DOMAIN h : es[c[x]].id = x /\ Time(h, es[c[x]]) = h[x].call
      <4> SUFFICES ASSUME NEW x \in DOMAIN h
                   PROVE  es[c[x]].id = x /\ Time(h, es[c[x]]) = h[x].call
        BY Zenon
      <4>1. es[c[x]] = CallEntry(x)
        BY <3>2, Zenon
      <4>2. CallEntry(x).id = x /\ Time(h, CallEntry(x)) = h[x].call
        BY EntryFields, EntryTime
      <4> QED
        BY <4>1, <4>2
    <3>4. ASSUME NEW x \in DOMAIN h, NEW y \in DOMAIN h, x < y PROVE c[x] < c[y]
      <4>1. Time(h, es[c[x]]) < Time(h, es[c[y]])
        BY <3>3, <3>4 DEF OneAfterTheOther
      <4>2. c[x] \in 1..Len(es) /\ c[y] \in 1..Len(es)
        BY <3>2
      <4> HIDE DEF N
      <4> QED
        BY <4>1, <4>2, EarlierBefore
    <3>5. ASSUME NEW x \in 1..o PROVE x \in DOMAIN h /\ c[x] \in 1..c[o] /\ es[c[x]].id = x
      <4>1. x \in DOMAIN h /\ (x = o \/ x < o)
        BY <3>1
      <4>2. c[x] \in 1..N /\ c[o] \in 1..N /\ (x = o \/ c[x] < c[o])
        BY <3>2, <3>4, <4>1
      <4> QED
        BY <3>1, <3>3, <4>1, <4>2
    <3>6. ASSUME NEW m \in 1..c[o] PROVE es[m].id \in 1..o
      <4>1. m \in 1..N
        BY <3>1, <3>2
      <4>2. es[m].id \in DOMAIN h /\ (c[es[m].id] = m \/ r[es[m].id] = m)
        BY <3>2, <4>1
      <4> DEFINE x == es[m].id
      <4> HIDE DEF x
      <4>3. c[x] \in 1..N /\ r[x] \in 1..N /\ c[x] < r[x]
        BY <3>2, <4>2, Zenon DEF x
      <4>4. c[x] <= m
        BY <3>1, <4>1, <4>2, <4>3 DEF x
      <4>5. c[o] \in 1..N /\ x \in DOMAIN h
        BY <3>2, <4>2 DEF x
      <4>6. ~ (c[o] < c[x])
        BY <3>1, <4>3, <4>4, <4>5
      <4>7. ~ (o < x)
        BY <3>4, <4>5, <4>6
      <4> QED
        BY <3>1, <4>5, <4>7 DEF x
    <3>7. T = {ids[x] : x \in 1..o}
      BY <3>5, <3>6
    <3>8. Bijects(b, o, T)
      <4>1. b \in [1..o -> T] /\ \A y \in T : \E x \in 1..o : b[x] = y
        <5> HIDE DEF T
        <5> QED
          BY <3>7
      <4>2. \A x, y \in 1..o : b[x] = b[y] => x = y
        BY <3>5
      <4> HIDE DEF b, T
      <4> QED
        BY <4>1, <4>2, Zenon DEF Bijects
    <3>9. o \in Nat
      BY <3>1
    <3> HIDE DEF T, b
    <3>10. Cardinality(T) = o
      BY <3>8, <3>9, Counting, Zenon DEF HasSize
    <3> QED
      BY <3>10 DEF T
  <2>EventsAreEntries. ASSUME NEW c0 \in Checks, check = c0, check.ids # <<>>
                       PROVE  IsEntries(history, convertEntries(renumber(Events)))
    <3> USE <2>EventsAreEntries
    <3> DEFINE h == history
               ids == check.ids
    <3>1. /\ h \in Seq(Operation) /\ AllReturn(h) /\ DOMAIN ids = DOMAIN h
          /\ \A i, j \in DOMAIN ids : ids[i] = ids[j] => i = j
          /\ OneAfterTheOther(h)
      BY ChecksAssumption DEF history, AllReturn
    <3> HIDE DEF h, ids
    <3> DEFINE es == CHOOSE es \in makeEntries(h) : TRUE
    <3>2. IsEntries(h, es)
      <4>1. makeEntries(h) # {} /\ \A e \in makeEntries(h) : IsEntries(h, e)
        BY <3>1, <1>MadeEntries, Zenon
      <4>2. es \in makeEntries(h)
        BY <4>1, Zenon
      <4> QED
        BY <4>1, <4>2, Zenon
    <3> DEFINE ev == [n \in DOMAIN es |->
                        [Id |-> ids[es[n].id],
                         Kind |-> IF es[n].kind = "call" THEN "CallEvent" ELSE "ReturnEvent"]]
    <3>3. Events = ev
      BY Zenon DEF Events, h, ids
    <3> HIDE DEF es
    <3>4. PICK c, r : IsPairs(h, es, c, r)
      BY <3>1, <3>2, Pairs, Zenon
    <3>5. /\ es \in Seq(CallAndReturn(h)) /\ Len(es) \in Nat /\ DOMAIN es = 1..Len(es)
          /\ es = [n \in 1..Len(es) |-> es[n]]
      BY <3>2 DEF IsEntries
    <3>6. /\ c \in [DOMAIN h -> 1..Len(es)] /\ r \in [DOMAIN h -> 1..Len(es)]
          /\ \A x \in DOMAIN h : es[c[x]] = CallEntry(x) /\ c[x] < r[x]
          /\ \A i \in 1..Len(es) : es[i].id \in DOMAIN h /\ (c[es[i].id] = i \/ r[es[i].id] = i)
          /\ \A x \in DOMAIN h : es[c[x]].id = x /\ es[r[x]].id = x
      BY <3>4, EntryFields, ZenonT(30) DEF IsPairs
    <3> DEFINE seen(n) == {ev[m].Id : m \in 1..n}
               first(n) == CHOOSE m \in 1..n : ev[m].Id = ev[n].Id /\ ev[n].Id \notin seen(m - 1)
    <3>7. \A n \in 1..Len(es) : ev[n].Id = ids[es[n].id]
      BY <3>5
    <3>8. renumber(ev) = [n \in DOMAIN ev |-> [ev[n] EXCEPT !.Id = Cardinality(seen(first(n)))]]
      BY Zenon DEF renumber
    <3>9. ASSUME NEW n \in 1..Len(es) PROVE Cardinality(seen(first(n))) = es[n].id
      <4> HIDE DEF ev
      <4> DEFINE o == es[n].id
      <4>1. /\ o \in DOMAIN h /\ c[o] \in 1..Len(es) /\ es[c[o]].id = o /\ c[o] < r[o]
            /\ r[o] \in 1..Len(es) /\ (n = c[o] \/ n = r[o])
        BY <3>6, Zenon
      <4>2. c[o] \in 1..n
        BY <3>5, <4>1
      <4>3. \A m \in 1..n : ev[m].Id = ev[n].Id <=> m = c[o] \/ m = r[o]
        <5> TAKE m \in 1..n
        <5>1. m \in 1..Len(es)
          BY <3>5
        <5>2. ev[m].Id = ev[n].Id <=> es[m].id = o
          <6>1. ev[m].Id = ids[es[m].id] /\ ev[n].Id = ids[es[n].id]
            BY <3>7, <5>1, Zenon
          <6>2. es[m].id \in DOMAIN ids /\ es[n].id \in DOMAIN ids
            BY <3>1, <3>6, <5>1, Zenon
          <6> QED
            BY <3>1, <6>1, <6>2, Zenon
        <5> QED
          BY <3>6, <4>1, <5>1, <5>2, Zenon
      <4>4. ev[n].Id \notin seen(c[o] - 1)
        <5> SUFFICES ASSUME NEW m \in 1..(c[o] - 1), ev[m].Id = ev[n].Id PROVE FALSE
          BY Zenon
        <5>1. m \in 1..n /\ m # c[o] /\ m # r[o]
          BY <3>5, <4>1, <4>2
        <5> QED
          BY <4>3, <5>1, Zenon
      <4>5. ASSUME NEW m \in 1..n, ev[m].Id = ev[n].Id, ev[n].Id \notin seen(m - 1)
            PROVE  m = c[o]
        <5> SUFFICES ASSUME m = r[o] PROVE FALSE
          BY <4>3, <4>5, Zenon
        <5>1. c[o] \in 1..(m - 1)
          <6>1. \A a \in 1..Len(es), b \in 1..Len(es) : a < b => a \in 1..(b - 1)
            BY <3>5
          <6> QED
            BY <4>1, <6>1, Zenon
        <5>2. ev[c[o]].Id = ev[n].Id
          BY <4>2, <4>3, Zenon
        <5>3. ev[n].Id \in seen(m - 1)
          BY <5>1, <5>2, Zenon
        <5> QED
          BY <4>5, <5>3, Zenon
      <4>6. ev[c[o]].Id = ev[n].Id
        BY <4>2, <4>3, Zenon
      <4>7. first(n) = c[o]
        <5> HIDE DEF seen, o
        <5> QED
          BY <4>2, <4>4, <4>5, <4>6
      <4>8. seen(c[o]) = {ids[es[m].id] : m \in 1..c[o]}
        <5>1. \A m \in 1..c[o] : m \in 1..Len(es)
          BY <3>5, <4>1
        <5>2. \A m \in 1..c[o] : ev[m].Id = ids[es[m].id]
          BY <3>7, <5>1, Zenon
        <5> QED
          BY <5>2, Zenon
      <4>9. Cardinality({ids[es[m].id] : m \in 1..c[o]}) = o
        <5> HIDE DEF o
        <5> QED
          BY <3>1, <3>2, <3>4, <4>1, <2>IdsUpToCall
      <4> HIDE DEF seen, first
      <4> QED
        BY <4>7, <4>8, <4>9, Zenon
    <3> DEFINE re == [n \in DOMAIN ev |-> [ev[n] EXCEPT !.Id = es[n].id]]
    <3>10. renumber(ev) = re
      <4> HIDE DEF seen, first
      <4>1. DOMAIN ev = 1..Len(es)
        BY <3>5
      <4> HIDE DEF ev
      <4> QED
        BY <3>8, <3>9, <4>1, Zenon
    <3>11. convertEntries(re) = es
      <4>1. DOMAIN re = 1..Len(es)
        BY <3>5
      <4>2. ASSUME NEW n \in 1..Len(es)
            PROVE  /\ re[n].Id = es[n].id
                   /\ (re[n].Kind = "ReturnEvent") = (es[n].kind # "call")
        BY <3>5
      <4>3. ASSUME NEW n \in 1..Len(es)
            PROVE  [id |-> re[n].Id,
                    kind |-> IF re[n].Kind = "ReturnEvent" THEN "return" ELSE "call"] = es[n]
        <5>0. es[n] \in CallAndReturn(h)
          BY <3>5
        <5>1. es[n] \in [id : Ids(h), kind : {"call", "return"}]
          BY <5>0, Zenon DEF CallAndReturn
        <5>2. es[n] = [id |-> es[n].id, kind |-> es[n].kind]
          BY <5>1
        <5>3. es[n].kind = "call" \/ es[n].kind = "return"
          BY <5>1
        <5> HIDE DEF re
        <5>4. (IF re[n].Kind = "ReturnEvent" THEN "return" ELSE "call") = es[n].kind
          BY <4>2, <5>3
        <5> QED
          BY <4>2, <5>2, <5>4, Zenon
      <4> HIDE DEF re
      <4> QED
        BY <3>5, <4>1, <4>3, Zenon DEF convertEntries
    <3> QED
      BY <3>2, <3>3, <3>10, <3>11, Zenon DEF h
  <2> QED
    BY <2>EventsAreEntries, Zenon
\* The entries made at the start are those of the operations of the key.
<1>StartEntries. ASSUME check \in Checks, NEW k \in Keys, NEW es \in EntriesOf(k)
                 PROVE  IsEntries(ops(k), es)
  <2> USE <1>StartEntries
  <2>1. history \in Seq(Operation) /\ ops(k) \in Seq(Operation)
    BY OpsFacts, Zenon
  <2>2. CASE check.ids = <<>>
    BY <2>1, <2>2, <1>MadeEntries, Zenon DEF EntriesOf, ops
  <2>3. CASE check.ids # <<>>
    <3>1. IsEntries(history, es)
      <4>1. IsEntries(history, convertEntries(renumber(Events)))
        BY <2>3, <1>EventsAreEntries
      <4> QED
        BY <2>3, <4>1, Zenon DEF EntriesOf
    <3>2. OneAfterTheOther(history)
      BY <2>3, ChecksAssumption DEF history
    <3>3. \A i \in DOMAIN history : history[i].key = k
      <4>1. PICK j \in DOMAIN history : k = history[j].key
        BY DEF Keys
      <4>2. \A i \in DOMAIN history : history[i].key = history[j].key
        BY <3>2, <4>1, Zenon DEF OneAfterTheOther
      <4> QED
        BY <4>1, <4>2, Zenon
    <3>4. ops(k) = history
      BY <2>1, <3>3, <1>OneKeyPartition, Zenon DEF ops
    <3> QED
      BY <3>1, <3>4, Zenon
  <2> QED
    BY <2>2, <2>3, Zenon
\* The search starts with an empty stack and all entries in the list.
<1>StartSearch. ASSUME NEW h, NEW es, EntriesOK(h, es)
                PROVE  SearchOK(h, es, makeLinkedEntries(es), 1, {}, <<>>, KvInit)
  <2> USE <1>StartSearch
  <2> DEFINE n == Len(es)
             l == makeLinkedEntries(es)
  <2>1. n \in Nat
    BY DEF EntriesOK
  <2> HIDE DEF l
  <2>2. IsList(l, n, 1..n)
    BY <2>1, <1>MadeList DEF l
  <2>3. Rest(es, {}) = 1..n
    BY DEF Rest
  <2>4. Len(<<>>) = 0 /\ 1..0 = {}
    OBVIOUS
  <2>5. Placed(es, <<>>, Len(<<>>)) = {}
    BY <2>4 DEF Placed
  <2>6. 1..n # {} => 1 \in 1..n /\ \A j \in 1..n : ~ (j < 1)
    BY <2>1
  <2>7. StackOK(h, es, l, <<>>, KvInit)
    <3>1. <<>> \in Seq(Frame(n)) /\ KvInit \in Seq(Nat)
      BY DEF KvInit
    <3>2. After(<<>>, KvInit, 0) = KvInit
      BY <2>4 DEF After
    <3> QED
      BY <2>4, <3>1, <3>2 DEF StackOK
  <2> QED
    BY <2>2, <2>3, <2>5, <2>6, <2>7, Zenon DEF SearchOK, CallsUpTo, l
<1> SUFFICES ASSUME Init PROVE SearchInv
  OBVIOUS
<1>1. check \in Checks
  BY DEF Init
<1>a. PICK made : /\ made = [k \in Keys |-> EntriesOf(k)]
                  /\ entries \in [Keys -> UNION {made[k] : k \in Keys}]
                  /\ \A k \in Keys : entries[k] \in made[k]
  BY Zenon DEF Init
<1>2. AllOverKeys
  <2>1. OverKeys(entries)
    BY <1>a, Zenon DEF OverKeys
  <2> QED
    BY <2>1 DEF Init, AllOverKeys, OverKeys
<1>3. ASSUME NEW k \in Keys PROVE EntriesKept(k) /\ SearchKept(k)
  <2>1. entries[k] \in EntriesOf(k)
    BY <1>a, Zenon
  <2>2. EntriesKept(k)
    BY <1>1, <2>1, <1>StartEntries, Zenon DEF EntriesKept
  <2>3. EntriesOK(ops(k), entries[k])
    BY <1>1, <2>2, EntriesFacts, Zenon
  <2>4. SearchOK(ops(k), entries[k], makeLinkedEntries(entries[k]), 1, {}, <<>>, KvInit)
    BY <2>3, <1>StartSearch, Zenon
  <2>5. /\ list[k] = makeLinkedEntries(entries[k]) /\ entry[k] = 1 /\ linearized[k] = {}
        /\ calls[k] = <<>> /\ state[k] = KvInit
    BY Zenon DEF Init, newBitset
  <2> QED
    BY <2>2, <2>4, <2>5, Zenon DEF SearchKept
<1> QED
  BY <1>1, <1>2, <1>3, Zenon DEF SearchInv

----------------------------------------------------------------------------
(* Steps of a search.                                                      *)

\* The return of the call i is behind it among the entries left.
HasReturn(h, es, L, i) ==
  /\ Match(es, i) \in Rest(es, L) /\ i < Match(es, i) /\ i # Match(es, i)
  /\ Match(es, i) \in Nat /\ es[Match(es, i)].kind = "return"
  /\ es[Match(es, i)].id = es[i].id /\ es[i].id \in DOMAIN h
  /\ \A L2 : Rest(es, L2 \cup {es[i].id}) = Rest(es, L2) \ {i, Match(es, i)}

\* A call in the list has its return behind it in the list.
LEMMA ReturnInRest ==
  \A h, es, L : \A i \in Rest(es, L) :
    /\ EntriesOK(h, es)
    /\ es[i].kind = "call"
    => HasReturn(h, es, L, i)
\* Match finds the pairs.
<1>Matches. ASSUME NEW h, NEW es, NEW c, NEW r, IsPairs(h, es, c, r), Len(es) \in Nat
            PROVE  MatchesPairs(h, es, c, r)
  <2> USE <1>Matches
  <2> SUFFICES ASSUME NEW o \in DOMAIN h PROVE Match(es, c[o]) = r[o] /\ Match(es, r[o]) = Nil
    BY Zenon DEF MatchesPairs
  <2>1. /\ c[o] \in 1..Len(es) /\ r[o] \in 1..Len(es) /\ c[o] < r[o]
        /\ es[c[o]] = CallEntry(o) /\ es[r[o]] = ReturnEntry(o)
    BY DEF IsPairs
  <2>2. /\ es[c[o]].kind = "call" /\ es[c[o]].id = o
        /\ es[r[o]].kind = "return" /\ es[r[o]].id = o
    BY <2>1, EntryFields
  <2> DEFINE later(i) == {j \in i..Len(es) : /\ es[i].kind = "call" /\ es[j].kind = "return"
                                             /\ es[j].id = es[i].id}
  <2>3. \A i : Match(es, i) = IF later(i) = {} THEN Nil ELSE CHOOSE j \in later(i) : TRUE
    BY Zenon DEF Match
  <2>4. later(r[o]) = {}
    BY <2>2
  <2>5. r[o] \in later(c[o])
    BY <2>1, <2>2
  <2>6. \A j \in later(c[o]) : j = r[o]
    <3>1. \A j \in later(c[o]) : j \in 1..Len(es) /\ es[j].kind = "return" /\ es[j].id = o
      BY <2>1, <2>2
    <3>2. "call" # "return"
      OBVIOUS
    <3> HIDE DEF later
    <3> QED
      BY <3>1, <3>2, Zenon DEF IsPairs
  <2> HIDE DEF later
  <2>7. Match(es, r[o]) = Nil
    BY <2>3, <2>4
  <2>8. Match(es, c[o]) = r[o]
    BY <2>3, <2>5, <2>6
  <2> QED
    BY <2>7, <2>8
<1>ReturnInRest. ASSUME NEW h, NEW es, EntriesOK(h, es), NEW L, NEW i \in Rest(es, L), es[i].kind = "call"
                 PROVE  HasReturn(h, es, L, i)
  <2> USE <1>ReturnInRest
  <2>1. PICK c, r : IsPairs(h, es, c, r)
    BY DEF EntriesOK
  <2>2. i \in 1..Len(es) /\ Len(es) \in Nat /\ es[i].id \notin L
    BY DEF Rest, EntriesOK
  <2> DEFINE o == es[i].id
             m == Match(es, i)
  <2>4. "call" # "return"
    OBVIOUS
  <2>5. /\ o \in DOMAIN h /\ c[o] = i /\ c[o] < r[o] /\ es[r[o]] = ReturnEntry(o)
        /\ r[o] \in 1..Len(es)
    BY <2>1, <2>2, <2>4, Zenon DEF IsPairs
  <2>3. m = r[o]
    <3>1. o \in DOMAIN h /\ Len(es) \in Nat /\ i = c[o]
      BY <2>2, <2>5
    <3>2. Match(es, c[o]) = r[o]
      <4> HIDE DEF o, m
      <4> QED
        BY <2>1, <3>1, <1>Matches DEF MatchesPairs
    <3> QED
      BY <3>1, <3>2, Zenon
  <2>6. es[m].id = o /\ es[m].kind = "return"
    BY <2>3, <2>5, EntryFields
  <2>7. \A x \in 1..Len(es) : es[x].id = o <=> x = i \/ x = m
    <3>1. \A x \in 1..Len(es) : es[x].id = o => x = i \/ x = m
      BY <2>1, <2>3, <2>5, ZenonT(30) DEF IsPairs
    <3> QED
      BY <2>6, <3>1, Zenon
  <2> HIDE DEF o, m
  <2>8. ASSUME NEW L2 PROVE Rest(es, L2 \cup {o}) = Rest(es, L2) \ {i, m}
    BY <2>7 DEF Rest
  <2>9. m \in 1..Len(es) /\ i < m /\ m \in Nat /\ i # m
    BY <2>2, <2>3, <2>5
  <2>10. m \in Rest(es, L)
    BY <2>2, <2>6, <2>9 DEF Rest, o
  <2> QED
    BY <2>5, <2>6, <2>8, <2>9, <2>10, Zenon DEF HasReturn, o, m
<1> QED
  BY <1>ReturnInRest, Zenon

\* The stack q and state t, with a choice i more than the stack cl and state st.
Pushed(es, n, cl, st, i, q, t) ==
  /\ Len(cl) \in Nat /\ Len(q) = Len(cl) + 1 /\ q[Len(q)].entry = i
  /\ \A d \in 1..Len(cl) : q[d] = cl[d]
  /\ \A d \in 0..Len(cl) : Placed(es, q, d) = Placed(es, cl, d)
  /\ \A d \in 0..Len(cl) : After(q, t, d) = After(cl, st, d)
  /\ Placed(es, q, Len(q)) = Placed(es, cl, Len(cl)) \cup {es[i].id}
  /\ After(q, t, Len(q)) = t /\ After(cl, st, Len(cl)) = st
  /\ st \in Seq(Nat) => q \in Seq(Frame(n))

\* What a choice more on the stack changes.
LEMMA Push ==
  ASSUME NEW es, NEW n, NEW cl \in Seq(Frame(n)), NEW st, NEW i \in 1..n,
         NEW q, q = Append(cl, [entry |-> i, state |-> st]), NEW t
  PROVE  Pushed(es, n, cl, st, i, q, t)
<1>1. /\ Len(cl) \in Nat /\ Len(q) = Len(cl) + 1 /\ DOMAIN cl = 1..Len(cl)
      /\ q[Len(cl) + 1] = [entry |-> i, state |-> st]
      /\ \A d \in 1..Len(cl) : q[d] = cl[d]
  OBVIOUS
<1> DEFINE m == Len(cl)
<1>2. q[m + 1].entry = i /\ q[m + 1].state = st
  BY <1>1
<1>3. ASSUME NEW d \in 0..m PROVE Placed(es, q, d) = Placed(es, cl, d)
  <2>1. \A x \in 1..d : q[x] = cl[x]
    BY <1>1
  <2> QED
    BY <2>1, Zenon DEF Placed
<1>4. ASSUME NEW d \in 0..m PROVE After(q, t, d) = After(cl, st, d)
  <2>1. CASE d < m
    <3>1. d + 1 \in 1..m /\ d < m + 1
      BY <1>1, <2>1
    <3>2. q[d + 1] = cl[d + 1]
      BY <1>1, <3>1
    <3> QED
      BY <1>1, <2>1, <3>1, <3>2 DEF After
  <2>2. CASE d = m
    <3>1. After(q, t, d) = q[m + 1].state
      BY <1>1, <2>2 DEF After
    <3>2. After(cl, st, d) = st
      BY <1>1, <2>2 DEF After
    <3> QED
      BY <1>2, <3>1, <3>2
  <2>3. d < m \/ d = m
    <3>1. m \in Nat
      BY <1>1
    <3> HIDE DEF m
    <3> QED
      BY <3>1
  <2> QED
    BY <2>1, <2>2, <2>3, Zenon
<1>5. Placed(es, q, m + 1) = Placed(es, cl, m) \cup {es[i].id}
  <2>1. \A x : x \in 1..(m + 1) <=> x \in 1..m \/ x = m + 1
    BY <1>1
  <2>2. Placed(es, q, m + 1) = {es[q[x].entry].id : x \in 1..m} \cup {es[q[m + 1].entry].id}
    BY <2>1 DEF Placed
  <2>3. {es[q[x].entry].id : x \in 1..m} = Placed(es, cl, m)
    BY <1>1, Zenon DEF Placed
  <2> QED
    BY <1>2, <2>2, <2>3
<1>6. After(q, t, m + 1) = t /\ After(cl, st, m) = st
  BY <1>1 DEF After
<1>7. ASSUME st \in Seq(Nat) PROVE q \in Seq(Frame(n))
  <2>1. [entry |-> i, state |-> st] \in Frame(n)
    BY <1>7 DEF Frame
  <2> QED
    BY <2>1
<1> QED
  BY <1>1, <1>2, <1>3, <1>4, <1>5, <1>6, <1>7, Zenon DEF Pushed

\* The stack q, without the last choice of the stack cl.
Popped(es, n, cl, st, q) ==
  /\ Len(cl) \in Nat /\ Len(q) \in Nat /\ Len(q) = Len(cl) - 1 /\ Len(cl) = Len(q) + 1
  /\ q \in Seq(Frame(n)) /\ \A d \in 1..Len(q) : q[d] = cl[d]
  /\ \A d \in 0..Len(q) : Placed(es, q, d) = Placed(es, cl, d)
  /\ \A d \in 0..Len(q) : After(q, cl[Len(cl)].state, d) = After(cl, st, d)
  /\ Placed(es, cl, Len(cl)) = Placed(es, cl, Len(q)) \cup {es[cl[Len(cl)].entry].id}
  /\ cl[Len(cl)] \in Frame(n) /\ After(cl, st, Len(q)) = cl[Len(cl)].state

\* Behind headEntry is the first node of the list.
LEMMA HeadFirst ==
  ASSUME NEW n \in Nat, NEW R \in SUBSET (1..n), NEW l, IsList(l, n, R), R # {}
  PROVE  l.next[Head0] \in R /\ \A j \in R : ~ (j < l.next[Head0])
<1>1. NextIn(R, 0, l.next[0])
  BY DEF IsList, Head0
<1>2. \A j \in R : j > 0 /\ ~ (j <= 0) /\ \A x \in R : x <= j => ~ (j < x)
  OBVIOUS
<1> QED
  BY <1>1, <1>2, Zenon DEF NextIn, Head0

\* Behind a call that has its return in the list is a node of the list.
LEMMA NextNode ==
  ASSUME NEW n \in Nat, NEW R \in SUBSET (1..n), NEW l, IsList(l, n, R),
         NEW es, NEW e \in R, CallsUpTo(es, R, e), es[e].kind = "call",
         NEW m \in R, e < m
  PROVE  /\ l.next[e] \in R /\ e < l.next[e] /\ CallsUpTo(es, R, l.next[e])
         /\ \A j \in R : j < l.next[e] => j = e \/ j < e
<1>1. NextIn(R, e, l.next[e])
  BY Zenon DEF IsList, Linked
<1>2. \A j, x \in R : /\ x < j => ~ (j <= x)
                      /\ j > x <=> x < j
                      /\ x < j \/ x = j \/ j < x
  OBVIOUS
<1>3. l.next[e] \in R /\ e < l.next[e] /\ \A j \in R : j > e => l.next[e] <= j
  BY <1>1, <1>2, Zenon DEF NextIn
<1>4. \A j \in R : j < l.next[e] => j = e \/ j < e
  BY <1>2, <1>3, Zenon
<1> QED
  BY <1>3, <1>4, Zenon DEF CallsUpTo

\* What a search that has nodes left knows.
LEMMA SearchFacts ==
  ASSUME NEW h, NEW es, EntriesOK(h, es), NEW l, NEW e, NEW lin, NEW cl, NEW st,
         SearchOK(h, es, l, e, lin, cl, st), Rest(es, lin) # {}
  PROVE  /\ Len(es) \in Nat /\ Rest(es, lin) \in SUBSET (1..Len(es))
         /\ e \in Rest(es, lin) /\ CallsUpTo(es, Rest(es, lin), e)
         /\ IsList(l, Len(es), Rest(es, lin)) /\ lin = Placed(es, cl, Len(cl))
         /\ StackOK(h, es, l, cl, st) /\ cl \in Seq(Frame(Len(es))) /\ st \in Seq(Nat)
         /\ h \in Seq(Operation)
<1>1. Rest(es, lin) \in SUBSET (1..Len(es))
  BY DEF Rest
<1> QED
  BY <1>1, Zenon DEF SearchOK, StackOK, EntriesOK

\* The pointers of a choice are not touched by what is done to nodes R that it and
\* its return are not among.
LEMMA UnliftStays ==
  ASSUME NEW h, NEW es, EntriesOK(h, es), NEW L, NEW i \in Rest(es, L), es[i].kind = "call",
         NEW l, NEW u, NEW R, CanUnlift(es, l, L, i), SameOutside(u, l, Len(es), R),
         i \notin R, Match(es, i) \notin R
  PROVE  CanUnlift(es, u, L, i)
<1>1. i \in (1..Len(es)) \ R /\ Match(es, i) \in (1..Len(es)) \ R
  BY ReturnInRest, Zenon DEF HasReturn, Rest
<1> QED
  BY <1>1, Zenon DEF CanUnlift, Linked, SameOutside

\* A choice and its return are not among the nodes left.
LEMMA ChoiceGone ==
  ASSUME NEW h, NEW es, EntriesOK(h, es), NEW cl, NEW d \in Nat, NEW x \in 1..d,
         NEW L, NEW i \in Rest(es, L), i = cl[x].entry, es[i].kind = "call"
  PROVE  i \notin Rest(es, Placed(es, cl, d)) /\ Match(es, i) \notin Rest(es, Placed(es, cl, d))
<1>0. HasReturn(h, es, L, i)
  BY ReturnInRest, Zenon
<1>1. es[Match(es, i)].id = es[i].id
  BY <1>0, Zenon DEF HasReturn
<1>2. es[i].id \in Placed(es, cl, d)
  BY Zenon DEF Placed
<1> QED
  BY <1>1, <1>2, Zenon DEF Rest

\* The search places the call it looks at.
LEMMA Forward ==
  \A h, es, l, e, lin, cl, st :
    /\ EntriesOK(h, es)
    /\ SearchOK(h, es, l, e, lin, cl, st)
    /\ Rest(es, lin) # {}
    /\ es[e].kind = "call"
    /\ StepOk(st, h[es[e].id])
    => SearchOK(h, es, lift(l, e, Match(es, e)), lift(l, e, Match(es, e)).next[Head0],
                lin \cup {es[e].id}, Append(cl, [entry |-> e, state |-> st]),
                StepState(st, h[es[e].id]))
\* lift takes a call and its return out of the list, and leaves them the pointers
\* with which unlift can put them back.
<1>LiftList. \A n \in Nat : \A R \in SUBSET (1..n) : \A l : \A i, m \in R :
               /\ IsList(l, n, R)
               /\ i # m
               => /\ IsList(lift(l, i, m), n, R \ {i, m})
                  /\ Linked(lift(l, i, m), R, i) /\ Linked(lift(l, i, m), R \ {i}, m)
                  /\ SameOutside(lift(l, i, m), l, n, R)
  \* A node is taken out of the list: its own pointers, and those of nodes that are
  \* not in the list, stay as they were.
  <2>UnlinkList. ASSUME NEW n \in Nat, NEW R \in SUBSET (1..n), NEW l, IsList(l, n, R), NEW i \in R
                 PROVE  /\ IsList(Unlink(l, i), n, R \ {i})
                        /\ SameOutside(Unlink(l, i), l, n, R \ {i})
    <3> USE <2>UnlinkList
    <3> DEFINE u == Unlink(l, i)
               a == l.prev[i]
               b == l.next[i]
    <3>1. /\ l.next \in [0..n -> Int] /\ l.prev \in [0..n -> Int]
          /\ NextIn(R, 0, l.next[0])
          /\ \A j \in R : NextIn(R, j, l.next[j]) /\ PrevIn(R, j, l.prev[j])
      BY SMTT(30) DEF IsList, Linked, Head0
    <3>2. /\ a \in R \cup {0} /\ a < i /\ \A j \in R : j < i => j <= a
          /\ \/ b = Nil /\ \A j \in R : j <= i
             \/ b \in R /\ b > i /\ \A j \in R : j > i => b <= j
      BY <3>1 DEF NextIn, PrevIn, Head0
    <3>3. /\ u.next = [l.next EXCEPT ![a] = b]
          /\ u.prev = IF b = Nil THEN l.prev ELSE [l.prev EXCEPT ![b] = a]
      BY DEF Unlink
    <3> HIDE DEF u, a, b
    <3>4. /\ \A j \in R : j \in 1..n /\ j \in 0..n /\ j \in Int /\ j > 0 /\ j # Nil
          /\ a \in Int /\ i \in Int /\ a \in 0..n /\ i \in 1..n /\ i \in 0..n
          /\ b \in Int /\ (b # Nil => b \in 0..n)
      <4>1. /\ \A x \in 1..n : x \in 0..n /\ x \in Int /\ x > 0 /\ x # Nil
            /\ 0 \in 0..n /\ 0 \in Int /\ Nil \in Int
        BY DEF Nil
      <4> QED
        BY <3>2, <4>1, Zenon
    <3>5. u.next \in [0..n -> Int] /\ u.prev \in [0..n -> Int]
      BY SMTT(30), <3>1, <3>3, <3>4
    <3>6. /\ u.next[a] = b /\ \A j \in 0..n : j # a => u.next[j] = l.next[j]
          /\ b # Nil => u.prev[b] = a
          /\ \A j \in 0..n : j # b => u.prev[j] = l.prev[j]
      <4>1. u.next[a] = b /\ \A j \in 0..n : j # a => u.next[j] = l.next[j]
        BY <3>1, <3>3, <3>4, Zenon
      <4>2. CASE b = Nil
        BY <3>3, <4>1, <4>2, Zenon
      <4>3. CASE b # Nil
        BY <3>1, <3>3, <3>4, <4>1, <4>3, Zenon
      <4> QED
        BY <4>2, <4>3
    <3>7. ASSUME NEW j \in (R \ {i}) \cup {0} PROVE NextIn(R \ {i}, j, u.next[j])
      <4>0. NextIn(R, j, l.next[j]) /\ j \in 0..n /\ j \in Int
        BY <3>1, <3>4
      <4>1. CASE j = a
        BY <3>2, <3>4, <3>6, <4>1 DEF NextIn
      <4>2. CASE j # a
        <5>1. u.next[j] = l.next[j]
          BY <3>6, <4>0, <4>2
        <5>2. l.next[j] # i
          <6>1. j < i => j <= a
            BY <3>2, <3>4
          <6>2. j < i => j < a
            BY <3>4, <4>0, <4>2, <6>1
          <6> QED
            BY <3>2, <3>4, <4>0, <6>2 DEF NextIn, Nil
        <5> QED
          BY <4>0, <5>1, <5>2 DEF NextIn
      <4> QED
        BY <4>1, <4>2
    <3>8. ASSUME NEW j \in R \ {i} PROVE PrevIn(R \ {i}, j, u.prev[j])
      <4>0. PrevIn(R, j, l.prev[j]) /\ j \in 0..n /\ j \in Int
        BY <3>1, <3>4, Zenon
      <4>1. CASE j = b
        <5>1. b # Nil
          BY <3>4, <4>1 DEF Nil
        <5> QED
          BY <3>2, <3>4, <3>6, <4>1, <5>1 DEF PrevIn, Head0
      <4>2. CASE j # b
        <5>1. u.prev[j] = l.prev[j]
          BY <3>6, <4>0, <4>2
        <5>2. l.prev[j] # i
          <6>1. j > i => j > b /\ b \in R
            BY <3>2, <3>4, <4>0, <4>2
          <6> QED
            BY <3>2, <3>4, <4>0, <6>1 DEF PrevIn, Head0
        <5> QED
          BY <4>0, <5>1, <5>2, Zenon DEF PrevIn, Head0
      <4> QED
        BY <4>1, <4>2
    <3>9. IsList(u, n, R \ {i})
      BY <3>5, <3>7, <3>8, Zenon DEF IsList, Linked, Head0
    <3>10. \A j \in (1..n) \ R : u.next[j] = l.next[j] /\ u.prev[j] = l.prev[j]
      <4>1. \A x \in 1..n : x \in 0..n /\ x # 0 /\ x # Nil
        BY DEF Nil
      <4> QED
        BY <3>2, <3>6, <4>1, Zenon
    <3>11. u.next[i] = l.next[i] /\ u.prev[i] = l.prev[i]
      <4>1. i # a /\ i # b
        BY <3>2, <3>4
      <4> QED
        BY <3>4, <3>6, <4>1, Zenon
    <3> QED
      BY <3>9, <3>10, <3>11, Zenon DEF u, SameOutside
  <2>LiftList. ASSUME NEW n \in Nat, NEW R \in SUBSET (1..n), NEW l, IsList(l, n, R),
                      NEW i \in R, NEW m \in R, i # m
               PROVE  /\ IsList(lift(l, i, m), n, R \ {i, m})
                      /\ Linked(lift(l, i, m), R, i) /\ Linked(lift(l, i, m), R \ {i}, m)
                      /\ SameOutside(lift(l, i, m), l, n, R)
    <3> USE <2>LiftList
    <3> DEFINE v == Unlink(l, i)
               u == Unlink(v, m)
               Q == R \ {i}
    <3>1. IsList(v, n, Q) /\ SameOutside(v, l, n, Q)
      BY <2>UnlinkList, Zenon
    <3>2. /\ Q \in SUBSET (1..n) /\ m \in Q /\ Q \ {m} = R \ {i, m}
          /\ i \in (1..n) \ Q /\ i \in (1..n) \ (Q \ {m}) /\ m \in (1..n) \ (Q \ {m})
          /\ \A j \in (1..n) \ R : j \in (1..n) \ Q /\ j \in (1..n) \ (Q \ {m})
      OBVIOUS
    <3> HIDE DEF v, Q
    <3>3. IsList(u, n, Q \ {m}) /\ SameOutside(u, v, n, Q \ {m})
      BY <3>1, <3>2, <2>UnlinkList, Zenon
    <3> HIDE DEF u
    <3>4. Linked(l, R, i) /\ Linked(v, Q, m)
      BY <3>1, <3>2, Zenon DEF IsList
    <3>5. Linked(u, R, i) /\ Linked(u, Q, m)
      BY <3>1, <3>2, <3>3, <3>4, Zenon DEF Linked, SameOutside
    <3>6. SameOutside(u, l, n, R)
      BY <3>1, <3>2, <3>3, Zenon DEF SameOutside
    <3>7. lift(l, i, m) = u
      BY Zenon DEF u, v, lift
    <3> QED
      BY <3>2, <3>3, <3>5, <3>6, <3>7, Zenon DEF Q
  <2> QED
    <3> TAKE n \in Nat
    <3> TAKE R \in SUBSET (1..n)
    <3> TAKE l
    <3> TAKE i, m \in R
    <3> HAVE IsList(l, n, R) /\ i # m
    <3> QED
      BY <2>LiftList, Zenon
<1>Forward. ASSUME NEW h, NEW es, EntriesOK(h, es), NEW l, NEW e, NEW lin, NEW cl, NEW st,
                   SearchOK(h, es, l, e, lin, cl, st), Rest(es, lin) # {}, es[e].kind = "call",
                   StepOk(st, h[es[e].id])
            PROVE  SearchOK(h, es, lift(l, e, Match(es, e)), lift(l, e, Match(es, e)).next[Head0],
                            lin \cup {es[e].id}, Append(cl, [entry |-> e, state |-> st]),
                            StepState(st, h[es[e].id]))
  <2> USE <1>Forward
  <2> DEFINE n == Len(es)
             R == Rest(es, lin)
             m == Match(es, e)
             L == lin \cup {es[e].id}
             k == Len(cl)
             q == Append(cl, [entry |-> e, state |-> st])
             t == StepState(st, h[es[e].id])
             u == lift(l, e, m)
  <2> HIDE DEF n, R, m, L, k, q, t, u
  <2>1. /\ n \in Nat /\ R \in SUBSET (1..n) /\ e \in R /\ CallsUpTo(es, R, e)
        /\ IsList(l, n, R) /\ lin = Placed(es, cl, k)
        /\ StackOK(h, es, l, cl, st) /\ cl \in Seq(Frame(n)) /\ st \in Seq(Nat)
        /\ h \in Seq(Operation)
    <3>1. R \in SUBSET (1..n)
      BY DEF Rest, R, n
    <3> QED
      BY <3>1, Zenon DEF SearchOK, StackOK, EntriesOK, n, R, k
  <2>2. m \in R /\ e # m /\ es[e].id \in DOMAIN h /\ Rest(es, L) = R \ {e, m}
    <3>1. e \in Rest(es, lin)
      BY <2>1 DEF R
    <3>2. HasReturn(h, es, lin, e)
      BY <3>1, ReturnInRest, Zenon
    <3> QED
      BY <3>2, Zenon DEF HasReturn, R, m, L
  <2>3. t \in Seq(Nat)
    <3>1. h[es[e].id] \in Operation
      BY <2>1, <2>2
    <3> QED
      BY <2>1, <3>1, StepType, Zenon DEF t
  <2>4. /\ IsList(u, n, Rest(es, L)) /\ Linked(u, R, e) /\ Linked(u, R \ {e}, m)
        /\ SameOutside(u, l, n, R)
    <3>1. /\ IsList(lift(l, e, m), n, R \ {e, m})
          /\ Linked(lift(l, e, m), R, e) /\ Linked(lift(l, e, m), R \ {e}, m)
          /\ SameOutside(lift(l, e, m), l, n, R)
      BY <2>1, <2>2, <1>LiftList, Zenon
    <3> QED
      BY <2>2, <3>1, Zenon DEF u
  <2>5. e \in 1..n
    BY <2>1, ZenonT(30)
  <2>6. /\ k \in Nat /\ Len(q) = k + 1 /\ q[Len(q)].entry = e
        /\ \A d \in 1..k : q[d] = cl[d]
        /\ \A d \in 0..k : Placed(es, q, d) = Placed(es, cl, d)
        /\ \A d \in 0..k : After(q, t, d) = After(cl, st, d)
        /\ Placed(es, q, Len(q)) = Placed(es, cl, k) \cup {es[e].id}
        /\ After(q, t, Len(q)) = t /\ After(cl, st, k) = st
        /\ q \in Seq(Frame(n))
    <3>1. cl \in Seq(Frame(n)) /\ st \in Seq(Nat) /\ q = Append(cl, [entry |-> e, state |-> st])
      BY <2>1 DEF q
    <3>2. Pushed(es, n, cl, st, e, q, t)
      BY <2>5, <3>1, Push, Zenon
    <3> QED
      BY <3>1, <3>2, Zenon DEF Pushed, k
  <2>7. ASSUME NEW d \in 1..k
        PROVE  /\ IsChoice(h, es, Placed(es, q, d - 1), After(q, t, d - 1), After(q, t, d),
                           q[d].entry)
               /\ CanUnlift(es, u, Placed(es, q, d - 1), q[d].entry)
    <3>1. d - 1 \in 0..k /\ d \in 0..k
      BY <2>6
    <3>2. /\ Placed(es, q, d - 1) = Placed(es, cl, d - 1) /\ After(q, t, d - 1) = After(cl, st, d - 1)
          /\ After(q, t, d) = After(cl, st, d) /\ q[d] = cl[d]
      BY <2>6, <3>1, Zenon
    <3>3. /\ IsChoice(h, es, Placed(es, cl, d - 1), After(cl, st, d - 1), After(cl, st, d), cl[d].entry)
          /\ CanUnlift(es, l, Placed(es, cl, d - 1), cl[d].entry)
      BY <2>1, Zenon DEF StackOK, k
    <3>4. cl[d].entry \in Rest(es, Placed(es, cl, d - 1)) /\ es[cl[d].entry].kind = "call"
      BY <3>3, Zenon DEF IsChoice
    <3>5. cl[d].entry \notin R /\ Match(es, cl[d].entry) \notin R
      BY <2>1, <2>6, <3>4, ChoiceGone, Zenon DEF R
    <3>6. CanUnlift(es, u, Placed(es, cl, d - 1), cl[d].entry)
      BY <2>4, <3>3, <3>4, <3>5, UnliftStays, Zenon DEF n
    <3> QED
      BY <3>2, <3>3, <3>6, Zenon
  <2>8. IsChoice(h, es, lin, st, t, e) /\ CanUnlift(es, u, lin, e)
    BY <2>1, <2>4, Zenon DEF IsChoice, CanUnlift, R, m, t
  <2>9. StackOK(h, es, u, q, t)
    <3>1. \A d \in 1..Len(q) : d \in 1..k \/ d = Len(q)
      BY <2>6
    <3>2. (k + 1) - 1 = k /\ k \in 0..k /\ 0 \in 0..k
      BY <2>6
    <3>3. Placed(es, q, Len(q) - 1) = lin /\ After(q, t, Len(q) - 1) = st
      BY <2>1, <2>6, <3>2, Zenon
    <3>4. After(q, t, 0) = KvInit
      BY <2>1, <2>6, <3>2, Zenon DEF StackOK
    <3>5. ASSUME NEW d \in 1..Len(q)
          PROVE  /\ IsChoice(h, es, Placed(es, q, d - 1), After(q, t, d - 1), After(q, t, d),
                             q[d].entry)
                 /\ CanUnlift(es, u, Placed(es, q, d - 1), q[d].entry)
      <4>1. CASE d \in 1..k
        BY <2>7, <4>1, Zenon
      <4>2. CASE d = Len(q)
        BY <2>6, <2>8, <3>3, <4>2, Zenon
      <4> QED
        BY <3>1, <4>1, <4>2, Zenon
    <3> QED
      BY <2>3, <2>6, <3>4, <3>5, Zenon DEF StackOK, n
  <2>10. L = Placed(es, q, Len(q))
    BY <2>1, <2>6, Zenon DEF L
  <2>11. ASSUME Rest(es, L) # {}
         PROVE  u.next[Head0] \in Rest(es, L) /\ CallsUpTo(es, Rest(es, L), u.next[Head0])
    <3>1. Rest(es, L) \in SUBSET (1..n)
      BY DEF Rest, n
    <3> QED
      BY <2>1, <2>4, <2>11, <3>1, HeadFirst, Zenon DEF CallsUpTo
  <2> QED
    BY <2>4, <2>9, <2>10, <2>11, Zenon DEF SearchOK, L, n, q, t, u, m
<1> QED
  <2> TAKE h, es, l, e, lin, cl, st
  <2> HAVE /\ EntriesOK(h, es) /\ SearchOK(h, es, l, e, lin, cl, st) /\ Rest(es, lin) # {}
           /\ es[e].kind = "call" /\ StepOk(st, h[es[e].id])
  <2> QED
    BY <1>Forward, Zenon

\* What is known of the last choice i on the stack cl; q is the stack without it, lin
\* the operations placed with it and L those placed without it.
LastChoice(h, es, l, cl, st, q, i, lin, L) ==
  /\ Popped(es, Len(es), cl, st, q) /\ i = cl[Len(cl)].entry
  /\ L = Placed(es, q, Len(q)) /\ L = lin \ {es[i].id} /\ lin = L \cup {es[i].id}
  /\ IsChoice(h, es, L, cl[Len(cl)].state, st, i) /\ CanUnlift(es, l, L, i)
  /\ HasReturn(h, es, L, i) /\ Rest(es, lin) = Rest(es, L) \ {i, Match(es, i)}
  /\ cl[Len(cl)].state \in Seq(Nat)

\* When checkSingle pops its stack, its last choice is in order.
LEMMA LastChoiceFacts ==
  \A h, es, l, e, lin, cl, st :
    /\ EntriesOK(h, es)
    /\ SearchOK(h, es, l, e, lin, cl, st)
    /\ cl # <<>>
    => LastChoice(h, es, l, cl, st, SubSeq(cl, 1, Len(cl) - 1), cl[Len(cl)].entry, lin,
                  lin \ {es[cl[Len(cl)].entry].id})
\* What taking the last choice back changes.
<1>Pop. ASSUME NEW es, NEW n, NEW cl \in Seq(Frame(n)), cl # <<>>, NEW st,
               NEW q, q = SubSeq(cl, 1, Len(cl) - 1)
        PROVE  Popped(es, n, cl, st, q)
  <2> USE <1>Pop
  <2>1. /\ Len(cl) \in Nat /\ Len(cl) > 0 /\ Len(q) = Len(cl) - 1 /\ q \in Seq(Frame(n))
        /\ \A d \in 1..(Len(cl) - 1) : q[d] = cl[d]
    <3>1. Len(cl) \in Nat /\ Len(cl) > 0
      OBVIOUS
    <3>2. Len(cl) - 1 \in 0..Len(cl) /\ \A d \in 1..(Len(cl) - 1) : d \in 1..Len(cl)
      BY <3>1
    <3>3. q \in Seq(Frame(n))
      BY <3>1
    <3>4. Len(q) = Len(cl) - 1 /\ \A d \in 1..(Len(cl) - 1) : q[d] = cl[d]
      <4>1. \A s \in Seq(Frame(n)) : \A z \in 0..Len(s) :
              Len(SubSeq(s, 1, z)) = z /\ \A d \in 1..z : SubSeq(s, 1, z)[d] = s[d]
        OBVIOUS
      <4> QED
        BY <3>2, <4>1, Zenon
    <3> QED
      BY <3>1, <3>3, <3>4
  <2> DEFINE m == Len(q)
  <2>2. /\ m \in Nat /\ Len(cl) = m + 1 /\ \A d \in 1..m : q[d] = cl[d]
    BY <2>1
  <2>3. cl[m + 1] \in Frame(n)
    BY <2>2
  <2>4. ASSUME NEW d \in 0..m PROVE Placed(es, q, d) = Placed(es, cl, d)
    <3>1. \A x \in 1..d : q[x] = cl[x]
      BY <2>2
    <3> QED
      BY <3>1, Zenon DEF Placed
  <2>5. ASSUME NEW d \in 0..m PROVE After(q, cl[m + 1].state, d) = After(cl, st, d)
    <3>1. CASE d < m
      <4>1. d + 1 \in 1..m /\ d < m + 1
        BY <2>2, <3>1
      <4>2. q[d + 1] = cl[d + 1]
        BY <2>2, <4>1
      <4> QED
        BY <2>2, <3>1, <4>1, <4>2 DEF After
    <3>2. CASE d = m
      BY <2>2, <3>2 DEF After
    <3> QED
      BY <2>2, <3>1, <3>2
  <2>6. Placed(es, cl, m + 1) = Placed(es, cl, m) \cup {es[cl[m + 1].entry].id}
    <3>1. \A x : x \in 1..(m + 1) <=> x \in 1..m \/ x = m + 1
      BY <2>2
    <3> QED
      BY <3>1 DEF Placed
  <2>7. After(cl, st, m) = cl[m + 1].state
    BY <2>2 DEF After
  <2> QED
    BY <2>1, <2>2, <2>3, <2>4, <2>5, <2>6, <2>7, Zenon DEF Popped
<1>LastChoiceFacts. ASSUME NEW h, NEW es, EntriesOK(h, es), NEW l, NEW e, NEW lin, NEW cl, NEW st,
                           SearchOK(h, es, l, e, lin, cl, st), cl # <<>>
                    PROVE  LastChoice(h, es, l, cl, st, SubSeq(cl, 1, Len(cl) - 1), cl[Len(cl)].entry, lin,
                                      lin \ {es[cl[Len(cl)].entry].id})
  <2> USE <1>LastChoiceFacts
  <2> DEFINE n == Len(es)
             k == Len(cl)
             q == SubSeq(cl, 1, k - 1)
             i == cl[k].entry
             L == Placed(es, q, Len(q))
             s == cl[k].state
  <2> HIDE DEF n, k, q, i, L, s
  <2>1. /\ StackOK(h, es, l, cl, st) /\ cl \in Seq(Frame(n)) /\ st \in Seq(Nat)
        /\ lin = Placed(es, cl, k) /\ n \in Nat
    BY Zenon DEF SearchOK, StackOK, EntriesOK, n, k
  <2>2. Popped(es, n, cl, st, q)
    <3>1. q = SubSeq(cl, 1, Len(cl) - 1)
      BY Zenon DEF q, k
    <3> QED
      BY <2>1, <3>1, <1>Pop, Zenon
  <2>3. /\ k \in Nat /\ Len(q) \in Nat /\ Len(q) = k - 1 /\ k = Len(q) + 1
        /\ \A d \in 0..Len(q) : Placed(es, q, d) = Placed(es, cl, d)
        /\ Placed(es, cl, k) = Placed(es, cl, Len(q)) \cup {es[i].id}
        /\ cl[k] \in Frame(n) /\ After(cl, st, Len(q)) = s
    BY <2>2, Zenon DEF Popped, k, i, s
  <2>4. k \in 1..k /\ Len(q) \in 0..Len(q)
    BY <2>3
  <2>5. L = Placed(es, cl, k - 1) /\ After(cl, st, k - 1) = s /\ lin = L \cup {es[i].id}
    BY <2>1, <2>3, <2>4, Zenon DEF L
  <2>6. After(cl, st, k) = st
    BY <2>3 DEF After, k
  <2>7. IsChoice(h, es, L, s, st, i) /\ CanUnlift(es, l, L, i)
    <3>1. /\ IsChoice(h, es, Placed(es, cl, k - 1), After(cl, st, k - 1), After(cl, st, k), cl[k].entry)
          /\ CanUnlift(es, l, Placed(es, cl, k - 1), cl[k].entry)
      BY <2>1, <2>4, Zenon DEF StackOK, k
    <3> QED
      BY <2>5, <2>6, <3>1, Zenon DEF i
  <2>8. i \in Rest(es, L) /\ es[i].kind = "call"
    BY <2>7, Zenon DEF IsChoice
  <2>9. HasReturn(h, es, L, i)
    BY <2>8, ReturnInRest, Zenon
  <2>10. Rest(es, lin) = Rest(es, L) \ {i, Match(es, i)}
    BY <2>5, <2>9, Zenon DEF HasReturn
  <2>11. L = lin \ {es[i].id}
    <3>1. es[i].id \notin L
      BY <2>8, Zenon DEF Rest
    <3> QED
      BY <2>5, <3>1
  <2>12. s \in Seq(Nat)
    BY <2>3 DEF Frame, s
  <2>13. LastChoice(h, es, l, cl, st, q, i, lin, L)
    BY <2>2, <2>5, <2>7, <2>9, <2>10, <2>11, <2>12, Zenon DEF LastChoice, n, k, L, s, i
  <2> QED
    BY <2>11, <2>13, Zenon DEF q, i, k
<1> QED
  <2> TAKE h, es, l, e, lin, cl, st
  <2> HAVE EntriesOK(h, es) /\ SearchOK(h, es, l, e, lin, cl, st) /\ cl # <<>>
  <2> QED
    BY <1>LastChoiceFacts, Zenon

\* The search takes the last choice back.
LEMMA Back ==
  \A h, es, l, e, lin, cl, st, q, i, L :
    /\ EntriesOK(h, es)
    /\ SearchOK(h, es, l, e, lin, cl, st)
    /\ LastChoice(h, es, l, cl, st, q, i, lin, L)
    => /\ SearchOK(h, es, unlift(l, i, Match(es, i)), unlift(l, i, Match(es, i)).next[i],
                   L, q, cl[Len(cl)].state)
       /\ \A j \in Rest(es, L) : j < unlift(l, i, Match(es, i)).next[i] => j = i \/ j < i
\* unlift undoes lift.
<1>UnliftList. \A n \in Nat : \A R \in SUBSET (1..n) : \A l : \A i, m \in R :
                 /\ i # m
                 /\ IsList(l, n, R \ {i, m})
                 /\ Linked(l, R, i)
                 /\ Linked(l, R \ {i}, m)
                 => IsList(unlift(l, i, m), n, R) /\ SameOutside(unlift(l, i, m), l, n, R)
  \* A node that still has the pointers it had goes back to its place; nodes that
  \* are not in the list keep theirs.
  <2>RelinkList. ASSUME NEW n \in Nat, NEW R \in SUBSET (1..n), NEW l, NEW i \in R,
                        IsList(l, n, R \ {i}), Linked(l, R, i)
                 PROVE  IsList(Relink(l, i), n, R) /\ SameOutside(Relink(l, i), l, n, R)
    <3> USE <2>RelinkList
    <3> DEFINE u == Relink(l, i)
               a == l.prev[i]
               b == l.next[i]
               Q == R \ {i}
    <3>1. /\ l.next \in [0..n -> Int] /\ l.prev \in [0..n -> Int]
          /\ NextIn(Q, 0, l.next[0])
          /\ \A j \in Q : NextIn(Q, j, l.next[j]) /\ PrevIn(Q, j, l.prev[j])
      BY Zenon DEF IsList, Linked, Head0
    <3>2. /\ a \in R \cup {0} /\ a < i /\ \A j \in R : j < i => j <= a
          /\ \/ b = Nil /\ \A j \in R : j <= i
             \/ b \in R /\ b > i /\ \A j \in R : j > i => b <= j
      BY ZenonT(30) DEF Linked, NextIn, PrevIn, Head0
    <3>3. /\ u.next = [l.next EXCEPT ![a] = i]
          /\ u.prev = IF b = Nil THEN l.prev ELSE [l.prev EXCEPT ![b] = i]
      BY DEF Relink
    <3> HIDE DEF u, a, b
    <3>4. /\ \A j \in R : j \in 1..n /\ j \in 0..n /\ j \in Int /\ j > 0 /\ j # Nil
          /\ a \in Int /\ i \in Int /\ a \in 0..n /\ i \in 1..n /\ i \in 0..n
          /\ b \in Int /\ (b # Nil => b \in 0..n)
      <4>1. /\ \A x \in 1..n : x \in 0..n /\ x \in Int /\ x > 0 /\ x # Nil
            /\ 0 \in 0..n /\ 0 \in Int /\ Nil \in Int
        BY DEF Nil
      <4> QED
        BY <3>2, <4>1, Zenon
    <3>5. u.next \in [0..n -> Int] /\ u.prev \in [0..n -> Int]
      <4>1. \A f \in [0..n -> Int], x \in 0..n, y \in Int : [f EXCEPT ![x] = y] \in [0..n -> Int]
        OBVIOUS
      <4>2. u.next \in [0..n -> Int]
        BY <3>1, <3>3, <3>4, <4>1, Zenon
      <4>3. CASE b = Nil
        BY <3>1, <3>3, <4>2, <4>3
      <4>4. CASE b # Nil
        <5>1. u.prev = [l.prev EXCEPT ![b] = i] /\ b \in 0..n /\ i \in Int
          BY <3>3, <3>4, <4>4
        <5>2. u.prev \in [0..n -> Int]
          BY <3>1, <5>1
        <5> QED
          BY <4>2, <5>2
      <4> QED
        BY <4>3, <4>4
    <3>6. /\ u.next[a] = i /\ \A j \in 0..n : j # a => u.next[j] = l.next[j]
          /\ b # Nil => u.prev[b] = i
          /\ \A j \in 0..n : j # b => u.prev[j] = l.prev[j]
      <4>1. u.next[a] = i /\ \A j \in 0..n : j # a => u.next[j] = l.next[j]
        BY <3>1, <3>3, <3>4, Zenon
      <4>2. CASE b = Nil
        BY <3>3, <4>1, <4>2, Zenon
      <4>3. CASE b # Nil
        BY <3>1, <3>3, <3>4, <4>1, <4>3, Zenon
      <4> QED
        BY <4>2, <4>3
    <3>6a. i # a /\ i # b
      BY <3>2, <3>4
    <3>7. ASSUME NEW j \in R \cup {0} PROVE NextIn(R, j, u.next[j])
      <4>0. j \in 0..n /\ j \in Int
        BY <3>4
      <4>1. CASE j = a
        BY <3>2, <3>4, <3>6, <4>1 DEF NextIn
      <4>2. CASE j = i
        <5>1. u.next[j] = b
          BY <3>4, <3>6, <3>6a, <4>2, Zenon DEF b
        <5> QED
          BY <3>2, <4>2, <5>1, Zenon DEF NextIn
      <4>3. CASE j # a /\ j # i
        <5>1. u.next[j] = l.next[j] /\ NextIn(Q, j, l.next[j])
          BY <3>1, <3>6, <4>0, <4>3, Zenon
        <5>2. j < i => j < a /\ a \in Q
          BY <3>2, <3>4, <4>0, <4>3
        <5>3. CASE j < i
          <6>1. l.next[j] \in Q /\ l.next[j] > j /\ l.next[j] <= a /\ \A x \in Q : x > j => l.next[j] <= x
            BY <3>4, <4>0, <5>1, <5>2, <5>3 DEF NextIn, Nil
          <6>2. l.next[j] <= i
            <7>1. \A x, y, z \in Int : x <= y /\ y < z => x <= z
              OBVIOUS
            <7> QED
              BY <3>2, <3>4, <6>1, <7>1, Zenon
          <6> QED
            BY <5>1, <6>1, <6>2 DEF NextIn
        <5>4. CASE j > i
          <6>1. \A x \in R : x \in Q \/ (x <= j /\ ~(x > j))
            BY <3>4, <4>0, <5>4
          <6> QED
            BY <5>1, <6>1, Zenon DEF NextIn
        <5> QED
          BY <3>4, <4>0, <4>3, <5>3, <5>4
      <4> QED
        BY <4>1, <4>2, <4>3
    <3>8. ASSUME NEW j \in R PROVE PrevIn(R, j, u.prev[j])
      <4>0. j \in 0..n /\ j \in Int /\ j > 0
        BY <3>4, Zenon
      <4>1. CASE j = b
        <5>1. b # Nil
          BY <3>4, <4>1, Zenon
        <5>2. u.prev[j] = i
          BY <3>6, <4>1, <5>1, Zenon
        <5>3. b > i /\ \A x \in R : x > i => b <= x
          BY <3>2, <5>1, Zenon
        <5>4. \A x \in R : x < b => x <= i
          BY <3>4, <5>3
        <5> QED
          BY <3>4, <4>1, <5>2, <5>3, <5>4 DEF PrevIn, Head0
      <4>2. CASE j = i
        <5>1. u.prev[j] = a
          BY <3>4, <3>6, <3>6a, <4>2, Zenon DEF a
        <5> QED
          BY <3>2, <4>2, <5>1, Zenon DEF PrevIn, Head0
      <4>3. CASE j # b /\ j # i
        <5>1. u.prev[j] = l.prev[j] /\ PrevIn(Q, j, l.prev[j])
          BY <3>1, <3>6, <4>0, <4>3, Zenon
        <5>2. CASE j > i
          <6>1. b \in Q /\ b < j /\ b > i
            BY <3>2, <3>4, <4>0, <4>3, <5>2
          <6>2. b <= l.prev[j]
            BY <5>1, <6>1, Zenon DEF PrevIn
          <6>2a. l.prev[j] \in Int
            BY <3>1, <4>0
          <6>3. i <= l.prev[j]
            BY <3>4, <6>1, <6>2, <6>2a
          <6> QED
            BY <5>1, <6>3 DEF PrevIn, Head0
        <5>3. CASE j < i
          BY <3>4, <4>0, <5>1, <5>3 DEF PrevIn, Head0
        <5> QED
          BY <3>4, <4>0, <4>3, <5>2, <5>3
      <4> QED
        BY <4>1, <4>2, <4>3
    <3>9. IsList(u, n, R)
      BY SMTT(30), <3>5, <3>7, <3>8 DEF IsList, Linked, Head0
    <3>10. \A j \in (1..n) \ R : u.next[j] = l.next[j] /\ u.prev[j] = l.prev[j]
      <4>1. \A x \in 1..n : x \in 0..n /\ x # 0 /\ x # Nil
        BY DEF Nil
      <4> QED
        BY <3>2, <3>6, <4>1, Zenon
    <3> QED
      BY <3>9, <3>10, Zenon DEF u, SameOutside
  <2>UnliftList. ASSUME NEW n \in Nat, NEW R \in SUBSET (1..n), NEW l, NEW i \in R, NEW m \in R, i # m,
                        IsList(l, n, R \ {i, m}), Linked(l, R, i), Linked(l, R \ {i}, m)
                 PROVE  IsList(unlift(l, i, m), n, R) /\ SameOutside(unlift(l, i, m), l, n, R)
    <3> USE <2>UnliftList
    <3> DEFINE v == Relink(l, m)
               u == Relink(v, i)
               Q == R \ {i}
    <3>1. /\ Q \in SUBSET (1..n) /\ m \in Q /\ Q \ {m} = R \ {i, m} /\ i \in (1..n) \ Q
          /\ \A j \in (1..n) \ R : j \in (1..n) \ Q
      OBVIOUS
    <3>2. IsList(l, n, Q \ {m}) /\ Linked(l, Q, m)
      BY <3>1, Zenon
    <3> HIDE DEF Q
    <3>3. IsList(v, n, Q) /\ SameOutside(v, l, n, Q)
      BY <3>1, <3>2, <2>RelinkList, Zenon
    <3> HIDE DEF v
    <3>4. Linked(v, R, i)
      BY <3>1, <3>3, Zenon DEF Linked, SameOutside
    <3>5. IsList(u, n, R) /\ SameOutside(u, v, n, R)
      BY <3>3, <3>4, <2>RelinkList, Zenon DEF Q
    <3>6. SameOutside(u, l, n, R)
      BY <3>1, <3>3, <3>5, Zenon DEF SameOutside
    <3>7. unlift(l, i, m) = u
      BY Zenon DEF u, v, unlift
    <3> QED
      BY <3>5, <3>6, <3>7, Zenon
  <2> QED
    <3> TAKE n \in Nat
    <3> TAKE R \in SUBSET (1..n)
    <3> TAKE l
    <3> TAKE i, m \in R
    <3> HAVE i # m /\ IsList(l, n, R \ {i, m}) /\ Linked(l, R, i) /\ Linked(l, R \ {i}, m)
    <3> QED
      BY <2>UnliftList, Zenon
<1>Back. ASSUME NEW h, NEW es, EntriesOK(h, es), NEW l, NEW e, NEW lin, NEW cl, NEW st,
                SearchOK(h, es, l, e, lin, cl, st),
                NEW q, NEW i, NEW L, LastChoice(h, es, l, cl, st, q, i, lin, L)
         PROVE  /\ SearchOK(h, es, unlift(l, i, Match(es, i)), unlift(l, i, Match(es, i)).next[i],
                            L, q, cl[Len(cl)].state)
                /\ \A j \in Rest(es, L) : j < unlift(l, i, Match(es, i)).next[i] => j = i \/ j < i
  <2> USE <1>Back
  <2> DEFINE n == Len(es)
             R == Rest(es, L)
             m == Match(es, i)
             u == unlift(l, i, m)
             s == cl[Len(cl)].state
             k == Len(q)
  <2> HIDE DEF n, R, m, u, s, k
  <2>1. n \in Nat /\ R \in SUBSET (1..n) /\ IsList(l, n, R \ {i, m})
    BY Zenon DEF SearchOK, EntriesOK, Rest, LastChoice, n, R, m
  <2>2. /\ i \in R /\ m \in R /\ i # m /\ i < m /\ es[i].kind = "call" /\ CallsUpTo(es, R, i)
        /\ Linked(l, R, i) /\ Linked(l, R \ {i}, m)
    BY Zenon DEF LastChoice, IsChoice, CanUnlift, HasReturn, R, m
  <2>3. IsList(u, n, R) /\ SameOutside(u, l, n, R)
    BY <2>1, <2>2, <1>UnliftList, Zenon DEF u
  <2>4. /\ u.next[i] \in R /\ CallsUpTo(es, R, u.next[i])
        /\ \A j \in R : j < u.next[i] => j = i \/ j < i
    BY <2>1, <2>2, <2>3, NextNode, Zenon
  <2>5. /\ k \in Nat /\ Len(cl) = k + 1 /\ q \in Seq(Frame(n)) /\ L = Placed(es, q, k)
        /\ \A d \in 1..k : q[d] = cl[d]
        /\ \A d \in 0..k : Placed(es, q, d) = Placed(es, cl, d)
        /\ \A d \in 0..k : After(q, s, d) = After(cl, st, d)
        /\ s \in Seq(Nat)
    BY Zenon DEF LastChoice, Popped, n, s, k
  <2>6. ASSUME NEW d \in 1..k
        PROVE  /\ IsChoice(h, es, Placed(es, q, d - 1), After(q, s, d - 1), After(q, s, d),
                           q[d].entry)
               /\ CanUnlift(es, u, Placed(es, q, d - 1), q[d].entry)
    <3>1. d - 1 \in 0..k /\ d \in 0..k /\ d \in 1..(k + 1)
      BY <2>5
    <3>2. /\ Placed(es, q, d - 1) = Placed(es, cl, d - 1) /\ After(q, s, d - 1) = After(cl, st, d - 1)
          /\ After(q, s, d) = After(cl, st, d) /\ q[d] = cl[d]
      BY <2>5, <3>1, Zenon
    <3>3. /\ IsChoice(h, es, Placed(es, cl, d - 1), After(cl, st, d - 1), After(cl, st, d), cl[d].entry)
          /\ CanUnlift(es, l, Placed(es, cl, d - 1), cl[d].entry)
      BY <2>5, <3>1, Zenon DEF SearchOK, StackOK
    <3>4. q[d].entry \in Rest(es, Placed(es, q, d - 1)) /\ es[q[d].entry].kind = "call"
      BY <3>2, <3>3, Zenon DEF IsChoice
    <3>5. q[d].entry \notin R /\ Match(es, q[d].entry) \notin R
      BY <2>5, <3>4, ChoiceGone, Zenon DEF R
    <3>6. CanUnlift(es, u, Placed(es, q, d - 1), q[d].entry)
      BY <2>3, <3>2, <3>3, <3>4, <3>5, UnliftStays, Zenon DEF n
    <3> QED
      BY <3>2, <3>3, <3>6, Zenon
  <2>7. After(q, s, 0) = KvInit
    <3>1. 0 \in 0..k
      BY <2>5
    <3> QED
      BY <2>5, <3>1, Zenon DEF SearchOK, StackOK
  <2>8. StackOK(h, es, u, q, s)
    BY <2>5, <2>6, <2>7, Zenon DEF StackOK, n, k
  <2>9. SearchOK(h, es, u, u.next[i], L, q, s)
    BY <2>3, <2>4, <2>5, <2>8, Zenon DEF SearchOK, n, R, k
  <2> QED
    BY <2>4, <2>9, Zenon DEF u, m, s, R
<1> QED
  <2> TAKE h, es, l, e, lin, cl, st, q, i, L
  <2> HAVE /\ EntriesOK(h, es) /\ SearchOK(h, es, l, e, lin, cl, st)
           /\ LastChoice(h, es, l, cl, st, q, i, lin, L)
  <2> QED
    BY <1>Back, Zenon

----------------------------------------------------------------------------
(* The calls on the stack.                                                 *)

\* f are the states of one key along the operations q
Steps(q, f) == f[0] = KvInit /\ \A i \in 1..Len(q) : f[i] = StepState(f[i - 1], q[i])

\* The states are determined by the operations.
LEMMA SameSteps ==
  ASSUME NEW q, Len(q) \in Nat, NEW f, NEW g, Steps(q, f), Steps(q, g)
  PROVE  \A i \in 0..Len(q) : f[i] = g[i]
<1> DEFINE N == Len(q)
           P == {i \in 0..N : f[i] = g[i]}
<1>0. 0 \in 0..N /\ \A i \in 1..N : i \in 0..N
  OBVIOUS
<1>1. 0 \in P
  BY <1>0, Zenon DEF Steps
<1>2. \A i \in 1..N : i - 1 \in P => i \in P
  BY <1>0, Zenon DEF Steps
<1>3. N \in Nat
  OBVIOUS
<1>4. \A i \in 0..N : i \in P
  <2> HIDE DEF P, N
  <2> QED
    BY <1>1, <1>2, <1>3, Induct, Zenon
<1> QED
  BY <1>4

\* the operations of the calls on the stack, in their order
IdsOf(es, cl) == [d \in 1..Len(cl) |-> es[cl[d].entry].id]

OpsOf(h, s) == [d \in DOMAIN s |-> h[s[d]]]

\* s respects the order of the entries: an operation that returned before the call of
\* another comes before it
Respects(es, s) ==
  \A d \in DOMAIN s : \A o : \A m, n \in DOMAIN es :
    m < n /\ es[m] = ReturnEntry(o) /\ es[n] = CallEntry(s[d]) =>
      \E j \in 1..(d - 1) : s[j] = o

\* What is known of the calls on the stack: they are different, in an order that can
\* be, and the states in the frames are those they lead to.
IsPath(h, es, cl, st, s, f) ==
  /\ s \in Injections(Len(cl), DOMAIN h) /\ s \in Seq(DOMAIN h) /\ Len(s) = Len(cl)
  /\ Len(cl) \in Nat /\ Len(cl) <= Len(h)
  /\ Placed(es, cl, Len(cl)) = {s[d] : d \in DOMAIN s}
  /\ Respects(es, s)
  /\ OpsOf(h, s) \in Seq(Operation) /\ Len(OpsOf(h, s)) = Len(cl)
  /\ Steps(OpsOf(h, s), f) /\ f[Len(cl)] = st
  /\ \A d \in 1..Len(cl) : StepOk(f[d - 1], OpsOf(h, s)[d])

----------------------------------------------------------------------------
(* The searches keep what they know.                                       *)

\* A check does not change its arguments.
LEMMA SameKeys ==
  ASSUME UNCHANGED check
  PROVE  Keys' = Keys /\ history' = history /\ \A k : ops(k)' = ops(k)
<1>1. history' = history
  BY DEF history
<1> QED
  BY <1>1, Zenon DEF Keys, ops

\* g has another value than f for key k at most
Changes(f, g, k) == g = f \/ \E v : g = [f EXCEPT ![k] = v]

\* Another value for a key.
LEMMA OverKeysExcept ==
  ASSUME NEW f, OverKeys(f), NEW k, NEW g, Changes(f, g, k)
  PROVE  OverKeys(g) /\ \A j \in Keys : j # k => g[j] = f[j]
<1>1. DOMAIN f = Keys
  BY Zenon DEF OverKeys
<1>2. CASE g = f
  BY <1>2, Zenon
<1>3. CASE \E v : g = [f EXCEPT ![k] = v]
  <2>1. PICK v : g = [f EXCEPT ![k] = v]
    BY <1>3, Zenon
  <2> QED
    BY <1>1, <2>1 DEF OverKeys
<1> QED
  BY <1>2, <1>3, Zenon DEF Changes

\* A step of checkSingle for key k leaves the searches of the other keys alone.
LEMMA SingleChanges ==
  ASSUME NEW k, checkSingle(k)
  PROVE  /\ UNCHANGED <<check, entries, verdict>>
         /\ Changes(list, list', k) /\ Changes(entry, entry', k)
         /\ Changes(linearized, linearized', k) /\ Changes(cache, cache', k)
         /\ Changes(calls, calls', k) /\ Changes(state, state', k)
         /\ Changes(longest, longest', k) /\ Changes(outcome, outcome', k)
<1>1. CASE AllLinearized(k)
  BY <1>1, Zenon DEF AllLinearized, Changes
<1>2. CASE Killed(k)
  BY <1>2, Zenon DEF Killed, Changes
<1>3. CASE TryCall(k)
  BY <1>3, Zenon DEF TryCall, Changes
<1>4. CASE Backtrack(k)
  BY <1>4, Zenon DEF Backtrack, Changes
<1> QED
  BY <1>1, <1>2, <1>3, <1>4, Zenon DEF checkSingle

\* What the pointers say of the list, and Match of the entry.
LEMMA AtEntry ==
  ASSUME NEW h, NEW es, EntriesOK(h, es), NEW l, NEW e, NEW lin, NEW cl, NEW st,
         SearchOK(h, es, l, e, lin, cl, st)
  PROVE  /\ l.next[Head0] = Nil <=> Rest(es, lin) = {}
         /\ Rest(es, lin) # {} => /\ e \in Rest(es, lin)
                                  /\ Match(es, e) # Nil => es[e].kind = "call"
                                  /\ Match(es, e) = Nil => es[e].kind = "return"
<1>1. PICK c, r : IsPairs(h, es, c, r)
  BY DEF EntriesOK
<1> DEFINE R == Rest(es, lin)
<1>2. IsList(l, Len(es), R) /\ R \in SUBSET (1..Len(es)) /\ Len(es) \in Nat
  BY DEF SearchOK, EntriesOK, Rest
<1> HIDE DEF R
<1>3. l.next[Head0] = Nil <=> R = {}
  <2>1. NextIn(R, Head0, l.next[Head0])
    BY <1>2, Zenon DEF IsList
  <2>2. \A j \in R : j > Head0 /\ ~ (j <= Head0) /\ j # Nil
    BY <1>2 DEF Head0, Nil
  <2> QED
    BY <2>1, <2>2, Zenon DEF NextIn
<1>4. ASSUME R # {}
      PROVE  /\ e \in R /\ Match(es, e) # Nil => es[e].kind = "call"
             /\ Match(es, e) = Nil => es[e].kind = "return"
  <2>1. e \in R
    BY <1>4, Zenon DEF SearchOK, R
  <2>2. e \in 1..Len(es)
    BY <1>2, <2>1
  <2>3. es[e].kind = "call" \/ es[e].kind = "return"
    BY <1>1, <2>2, Zenon DEF IsPairs
  <2>4. ASSUME es[e].kind = "call" PROVE Match(es, e) # Nil
    <3>1. HasReturn(h, es, lin, e)
      BY <2>1, <2>4, ReturnInRest, Zenon DEF R
    <3>2. Match(es, e) \in Nat
      BY <3>1, Zenon DEF HasReturn
    <3> QED
      BY <3>2 DEF Nil
  <2>5. ASSUME es[e].kind = "return" PROVE Match(es, e) = Nil
    BY <2>5 DEF Match
  <2> QED
    BY <2>3, <2>4, <2>5, Zenon
<1>5. R # {} => e \in R
  BY Zenon DEF SearchOK, R
<1> QED
  BY <1>3, <1>4, <1>5, Zenon DEF R

\* The cases of checkSingle that go on, with the values for the key.
Placing(k) ==
  /\ StepOk(state[k], ops(k)[Id(k, entry[k])])
  /\ <<linearized[k] \cup {Id(k, entry[k])},
       StepState(state[k], ops(k)[Id(k, entry[k])])>> \notin cache[k]
  /\ cache'[k] = cache[k] \cup {<<linearized[k] \cup {Id(k, entry[k])},
                                  StepState(state[k], ops(k)[Id(k, entry[k])])>>}
  /\ calls'[k] = Append(calls[k], [entry |-> entry[k], state |-> state[k]])
  /\ state'[k] = StepState(state[k], ops(k)[Id(k, entry[k])])
  /\ linearized'[k] = linearized[k] \cup {Id(k, entry[k])}
  /\ list'[k] = lift(list[k], entry[k], Match(entries[k], entry[k]))
  /\ entry'[k] = lift(list[k], entry[k], Match(entries[k], entry[k])).next[Head0]

Skipping(k) ==
  /\ StepOk(state[k], ops(k)[Id(k, entry[k])]) =>
       cacheContains(cache[k], linearized[k] \cup {Id(k, entry[k])},
                     StepState(state[k], ops(k)[Id(k, entry[k])]))
  /\ entry'[k] = list[k].next[entry[k]]
  /\ UNCHANGED <<cache, calls, state, linearized, list>>

\* TryCall places the call or skips it.
LEMMA TryCallCases ==
  ASSUME AllOverKeys, NEW k \in Keys, TryCall(k)
  PROVE  /\ Goes(k) /\ Match(entries[k], entry[k]) # Nil
         /\ UNCHANGED <<check, entries, longest, outcome, verdict>>
         /\ Placing(k) \/ Skipping(k)
<1>1. /\ DOMAIN list = Keys /\ DOMAIN entry = Keys /\ DOMAIN linearized = Keys
      /\ DOMAIN cache = Keys /\ DOMAIN calls = Keys /\ DOMAIN state = Keys
  BY Zenon DEF AllOverKeys, OverKeys
<1> DEFINE i == entry[k]
           match == Match(entries[k], i)
           o == ops(k)[Id(k, i)]
           lin == set(linearized[k], Id(k, i))
           st == StepState(state[k], o)
<1>2. CASE StepOk(state[k], o) /\ ~cacheContains(cache[k], lin, st)
  <2>1. /\ cache' = [cache EXCEPT ![k] = cache[k] \cup {<<lin, st>>}]
        /\ calls' = [calls EXCEPT ![k] = Append(calls[k], [entry |-> i, state |-> state[k]])]
        /\ state' = [state EXCEPT ![k] = st]
        /\ linearized' = [linearized EXCEPT ![k] = lin]
        /\ list' = [list EXCEPT ![k] = lift(list[k], i, match)]
        /\ entry' = [entry EXCEPT ![k] = list'[k].next[Head0]]
    BY <1>2, Zenon DEF TryCall
  <2> HIDE DEF i, match, o, lin, st
  <2>2. /\ cache'[k] = cache[k] \cup {<<lin, st>>}
        /\ calls'[k] = Append(calls[k], [entry |-> i, state |-> state[k]])
        /\ state'[k] = st /\ linearized'[k] = lin
        /\ list'[k] = lift(list[k], i, match)
        /\ entry'[k] = lift(list[k], i, match).next[Head0]
    BY <1>1, <2>1, Zenon
  <2>3. <<lin, st>> \notin cache[k]
    <3>1. <<lin, st>>[1] = lin /\ <<lin, st>>[2] = st
      OBVIOUS
    <3> QED
      BY <1>2, <3>1, Zenon DEF cacheContains, equals
  <2>4. Placing(k)
    BY <1>2, <2>2, <2>3, Zenon DEF Placing, i, match, o, lin, st, set
  <2> QED
    BY <2>4, Zenon DEF TryCall
<1>3. CASE ~ (StepOk(state[k], o) /\ ~cacheContains(cache[k], lin, st))
  <2>1. /\ entry' = [entry EXCEPT ![k] = list[k].next[i]]
        /\ UNCHANGED <<cache, calls, state, linearized, list>>
    BY <1>3, Zenon DEF TryCall
  <2>2. Skipping(k)
    BY <1>1, <1>3, <2>1, Zenon DEF Skipping, set
  <2> QED
    BY <2>2, Zenon DEF TryCall
<1> QED
  BY <1>2, <1>3, Zenon

Top(k) == calls[k][Len(calls[k])].entry

Popping(k) ==
  /\ calls[k] # <<>>
  /\ longest' = IF check.verbose THEN [longest EXCEPT ![k] = Record(k)] ELSE longest
  /\ state'[k] = calls[k][Len(calls[k])].state
  /\ linearized'[k] = linearized[k] \ {Id(k, Top(k))}
  /\ calls'[k] = SubSeq(calls[k], 1, Len(calls[k]) - 1)
  /\ list'[k] = unlift(list[k], Top(k), Match(entries[k], Top(k)))
  /\ entry'[k] = unlift(list[k], Top(k), Match(entries[k], Top(k))).next[Top(k)]
  /\ UNCHANGED outcome

Failing(k) ==
  /\ calls[k] = <<>> /\ outcome' = [outcome EXCEPT ![k] = "false"]
  /\ UNCHANGED <<list, entry, linearized, calls, state, longest>>

\* Backtrack takes the last choice back or gives up.
LEMMA BacktrackCases ==
  ASSUME AllOverKeys, NEW k \in Keys, Backtrack(k)
  PROVE  /\ Goes(k) /\ Match(entries[k], entry[k]) = Nil
         /\ UNCHANGED <<check, entries, cache, verdict>>
         /\ Popping(k) \/ Failing(k)
<1>1. /\ DOMAIN list = Keys /\ DOMAIN entry = Keys /\ DOMAIN linearized = Keys
      /\ DOMAIN calls = Keys /\ DOMAIN state = Keys
  BY Zenon DEF AllOverKeys, OverKeys
<1>2. CASE calls[k] = <<>>
  BY <1>2, Zenon DEF Backtrack, Failing
<1>3. CASE calls[k] # <<>>
  <2> DEFINE i == Top(k)
  <2>1. /\ longest' = IF check.verbose THEN [longest EXCEPT ![k] = Record(k)] ELSE longest
        /\ state' = [state EXCEPT ![k] = StateBefore(k)]
        /\ linearized' = [linearized EXCEPT ![k] = clear(linearized[k], Id(k, i))]
        /\ calls' = [calls EXCEPT ![k] = SubSeq(calls[k], 1, Len(calls[k]) - 1)]
        /\ list' = [list EXCEPT ![k] = unlift(list[k], i, Match(entries[k], i))]
        /\ entry' = [entry EXCEPT ![k] = list'[k].next[i]]
        /\ UNCHANGED outcome
    BY <1>3, Zenon DEF Backtrack, Top
  <2> HIDE DEF i
  <2>2. /\ state'[k] = StateBefore(k) /\ linearized'[k] = clear(linearized[k], Id(k, i))
        /\ calls'[k] = SubSeq(calls[k], 1, Len(calls[k]) - 1)
        /\ list'[k] = unlift(list[k], i, Match(entries[k], i))
        /\ entry'[k] = unlift(list[k], i, Match(entries[k], i)).next[i]
    BY <1>1, <2>1, Zenon
  <2>3. Popping(k)
    BY <1>3, <2>1, <2>2, Zenon DEF Popping, StateBefore, clear, i
  <2> QED
    BY <2>3, Zenon DEF Backtrack
<1> QED
  BY <1>2, <1>3, Zenon

\* Every step keeps the searches in order.
LEMMA SearchStep ==
  /\ SearchInv
  /\ [Next]_vars
  => SearchInv'
\* The search of a key that a step leaves alone.
<1>KeyFrame. ASSUME NEW k, UNCHANGED <<check, entries>>, EntriesKept(k), SearchKept(k),
                    list'[k] = list[k], entry'[k] = entry[k], linearized'[k] = linearized[k],
                    calls'[k] = calls[k], state'[k] = state[k]
             PROVE  EntriesKept(k)' /\ SearchKept(k)'
  <2> USE <1>KeyFrame
  <2>1. ops(k)' = ops(k) /\ entries'[k] = entries[k]
    BY SameKeys, Zenon
  <2> QED
    BY <2>1, Zenon DEF EntriesKept, SearchKept
\* The search looks at the next entry.
<1>Skip. ASSUME NEW h, NEW es, EntriesOK(h, es), NEW l, NEW e, NEW lin, NEW cl, NEW st,
                SearchOK(h, es, l, e, lin, cl, st), Rest(es, lin) # {}, es[e].kind = "call"
         PROVE  SearchOK(h, es, l, l.next[e], lin, cl, st)
  <2> USE <1>Skip
  <2> DEFINE R == Rest(es, lin)
             m == Match(es, e)
  <2>1. /\ Len(es) \in Nat /\ R \in SUBSET (1..Len(es)) /\ e \in R /\ CallsUpTo(es, R, e)
        /\ IsList(l, Len(es), R)
    BY SearchFacts, Zenon
  <2>2. m \in R /\ e < m
    BY <2>1, ReturnInRest, Zenon DEF HasReturn
  <2> HIDE DEF R, m
  <2>3. l.next[e] \in R /\ CallsUpTo(es, R, l.next[e])
    BY <2>1, <2>2, NextNode, Zenon
  <2> QED
    BY <2>3, Zenon DEF SearchOK, R
\* A step of checkSingle keeps the search of its key in order.
<1>SingleKept. ASSUME SearchInv, NEW k \in Keys, checkSingle(k)
               PROVE  EntriesKept(k)' /\ SearchKept(k)'
  <2> USE <1>SingleKept
  <2> DEFINE h == ops(k)
             es == entries[k]
             l == list[k]
             e == entry[k]
             lin == linearized[k]
             cl == calls[k]
             st == state[k]
  <2>1. /\ AllOverKeys /\ EntriesKept(k) /\ EntriesOK(h, es) /\ SearchOK(h, es, l, e, lin, cl, st)
    BY EntriesFacts, Zenon DEF SearchInv, SearchKept
  <2>2. UNCHANGED <<check, entries>>
    BY SingleChanges, Zenon
  <2>3. ops(k)' = h /\ entries'[k] = es /\ EntriesKept(k)'
    BY <2>1, <2>2, SameKeys, Zenon DEF EntriesKept
  <2>4. /\ Goes(k) => Rest(es, lin) # {} /\ e \in Rest(es, lin)
        /\ Goes(k) /\ Match(es, e) # Nil => es[e].kind = "call"
    <3> HIDE DEF h, es, l, e, lin, cl, st
    <3>1. /\ l.next[Head0] = Nil <=> Rest(es, lin) = {}
          /\ Rest(es, lin) # {} => /\ e \in Rest(es, lin)
                                   /\ Match(es, e) # Nil => es[e].kind = "call"
      BY <2>1, AtEntry
    <3> QED
      BY <3>1, Zenon DEF Goes, l
  <2>5. CASE UNCHANGED <<list, entry, linearized, calls, state>>
    BY <2>1, <2>2, <2>5, <1>KeyFrame, Zenon DEF SearchInv
  <2>6. CASE AllLinearized(k) \/ Killed(k)
    BY <2>5, <2>6, Zenon DEF AllLinearized, Killed
  <2>7. CASE TryCall(k)
    <3>1. Goes(k) /\ Match(es, e) # Nil /\ (Placing(k) \/ Skipping(k))
      BY <2>1, <2>7, TryCallCases, Zenon
    <3>2. Rest(es, lin) # {} /\ es[e].kind = "call"
      BY <2>4, <3>1, Zenon
    <3>3. CASE Placing(k)
      <4>1. /\ StepOk(st, h[es[e].id]) /\ state'[k] = StepState(st, h[es[e].id])
            /\ calls'[k] = Append(cl, [entry |-> e, state |-> st])
            /\ linearized'[k] = lin \cup {es[e].id}
            /\ list'[k] = lift(l, e, Match(es, e))
            /\ entry'[k] = lift(l, e, Match(es, e)).next[Head0]
        BY <3>3, Zenon DEF Placing, Id
      <4>2. SearchOK(h, es, lift(l, e, Match(es, e)), lift(l, e, Match(es, e)).next[Head0],
                     lin \cup {es[e].id}, Append(cl, [entry |-> e, state |-> st]),
                     StepState(st, h[es[e].id]))
        <5> HIDE DEF h, es, l, e, lin, cl, st
        <5> QED
          BY <2>1, <3>2, <4>1, Forward, Zenon
      <4> QED
        BY <2>3, <4>1, <4>2, Zenon DEF SearchKept
    <3>4. CASE Skipping(k)
      <4>1. entry'[k] = l.next[e] /\ UNCHANGED <<calls, state, linearized, list>>
        BY <3>4, Zenon DEF Skipping
      <4>2. SearchOK(h, es, l, l.next[e], lin, cl, st)
        <5> HIDE DEF h, es, l, e, lin, cl, st
        <5> QED
          BY <2>1, <3>2, <1>Skip, Zenon
      <4> QED
        BY <2>3, <4>1, <4>2, Zenon DEF SearchKept
    <3> QED
      BY <3>1, <3>3, <3>4, Zenon
  <2>8. CASE Backtrack(k)
    <3>1. Popping(k) \/ Failing(k)
      BY <2>1, <2>8, BacktrackCases, Zenon
    <3>2. CASE Failing(k)
      BY <2>5, <3>2, Zenon DEF Failing
    <3>3. CASE Popping(k)
      <4> DEFINE q == SubSeq(cl, 1, Len(cl) - 1)
                 i == cl[Len(cl)].entry
                 L == lin \ {es[i].id}
      <4>1. /\ cl # <<>> /\ state'[k] = cl[Len(cl)].state /\ linearized'[k] = L
            /\ calls'[k] = q /\ list'[k] = unlift(l, i, Match(es, i))
            /\ entry'[k] = unlift(l, i, Match(es, i)).next[i]
        BY <3>3, Zenon DEF Popping, Id, Top
      <4>2. LastChoice(h, es, l, cl, st, q, i, lin, L)
        <5> HIDE DEF h, es, l, e, lin, cl, st
        <5> QED
          BY <2>1, <4>1, LastChoiceFacts, Zenon
      <4>3. SearchOK(h, es, unlift(l, i, Match(es, i)), unlift(l, i, Match(es, i)).next[i],
                     L, q, cl[Len(cl)].state)
        <5> HIDE DEF h, es, l, e, lin, cl, st, q, i, L
        <5> QED
          BY <2>1, <4>2, Back, Zenon
      <4> QED
        BY <2>3, <4>1, <4>3, Zenon DEF SearchKept
    <3> QED
      BY <3>1, <3>2, <3>3, Zenon
  <2> QED
    BY <2>6, <2>7, <2>8, Zenon DEF checkSingle
<1>SearchStep. ASSUME SearchInv, [Next]_vars PROVE SearchInv'
  <2> USE <1>SearchStep
  <2>0. check \in Checks /\ AllOverKeys /\ \A k \in Keys : EntriesKept(k) /\ SearchKept(k)
    BY Zenon DEF SearchInv
  <2>1. CASE UNCHANGED <<check, entries, search>>
    <3>1. Keys' = Keys /\ check' \in Checks
      BY <2>0, <2>1, SameKeys, Zenon
    <3>2. AllOverKeys'
      BY <2>0, <2>1, <3>1, Zenon DEF AllOverKeys, OverKeys, search
    <3>3. ASSUME NEW k \in Keys PROVE EntriesKept(k)' /\ SearchKept(k)'
      BY <2>0, <2>1, <1>KeyFrame, Zenon DEF search
    <3> QED
      BY <3>1, <3>2, <3>3, Zenon DEF SearchInv
  <2>2. ASSUME NEW k \in Keys, checkSingle(k) PROVE SearchInv'
    <3>1. /\ UNCHANGED <<check, entries>>
          /\ Changes(list, list', k) /\ Changes(entry, entry', k)
          /\ Changes(linearized, linearized', k) /\ Changes(cache, cache', k)
          /\ Changes(calls, calls', k) /\ Changes(state, state', k)
          /\ Changes(longest, longest', k) /\ Changes(outcome, outcome', k)
      BY <2>2, SingleChanges, Zenon
    <3>2. Keys' = Keys /\ check' \in Checks
      BY <2>0, <3>1, SameKeys, Zenon
    <3>3. AllOverKeys'
      <4>1. /\ OverKeys(list') /\ OverKeys(entry') /\ OverKeys(linearized') /\ OverKeys(cache')
            /\ OverKeys(calls') /\ OverKeys(state') /\ OverKeys(longest') /\ OverKeys(outcome')
        BY <2>0, <3>1, OverKeysExcept, Zenon DEF AllOverKeys
      <4> QED
        BY <2>0, <3>1, <3>2, <4>1, Zenon DEF AllOverKeys, OverKeys
    <3>4. ASSUME NEW j \in Keys PROVE EntriesKept(j)' /\ SearchKept(j)'
      <4>1. CASE j = k
        BY <2>2, <4>1, <1>SingleKept, Zenon
      <4>2. CASE j # k
        <5>0. /\ OverKeys(list) /\ OverKeys(entry) /\ OverKeys(linearized) /\ OverKeys(calls)
              /\ OverKeys(state)
          BY <2>0, Zenon DEF AllOverKeys
        <5>1. /\ list'[j] = list[j] /\ entry'[j] = entry[j] /\ linearized'[j] = linearized[j]
              /\ calls'[j] = calls[j] /\ state'[j] = state[j]
          BY <3>1, <4>2, <5>0, OverKeysExcept
        <5> QED
          BY <2>0, <3>1, <5>1, <1>KeyFrame, Zenon
      <4> QED
        BY <4>1, <4>2, Zenon
    <3> QED
      BY <3>2, <3>3, <3>4, Zenon DEF SearchInv
  <2>3. CASE checkParallel
    BY <2>1, <2>3, Zenon DEF checkParallel, Timeout, Return, Receive, Drain
  <2>4. CASE UNCHANGED vars
    BY <2>1, <2>4, Zenon DEF vars
  <2> QED
    BY <2>2, <2>3, <2>4, Zenon DEF Next
<1> QED
  BY <1>SearchStep, Zenon

\* The searches stay in order.
LEMMA SearchInvariant == Spec => []SearchInv
<1>1. SearchInv /\ [Next]_vars => SearchInv'
  BY SearchStep
<1> QED
  BY <1>1, StartInv, PTL DEF Spec

\* behind node i comes the first of the nodes after it, if any, and links back
LinksTo(l, i, after) ==
  /\ (l.next[i] = Nil) = (after = {})
  /\ after # {} => /\ l.next[i] \in after /\ \A j \in after : l.next[i] <= j
                   /\ l.prev[l.next[i]] = i

\* The stack holds a linearizable prefix, its state and its set.
LEMMA StackIsPrefix ==
  \A k \in Keys :
    /\ check \in Checks
    /\ EntriesKept(k)
    /\ SearchKept(k)
    => /\ SeqOfCalls(k) = IdsOf(entries[k], calls[k])
       /\ IsPath(ops(k), entries[k], calls[k], state[k], SeqOfCalls(k),
                 [d \in 0..Len(calls[k]) |-> After(calls[k], state[k], d)])
       /\ SeqOfCalls(k) = <<>> \/ SeqOfCalls(k) \in Prefixes(k)
       /\ linearized[k] = {SeqOfCalls(k)[i] : i \in DOMAIN SeqOfCalls(k)}
\* Along operations of one key the store is the state of that key.
<1>OneKeySteps. ASSUME NEW q \in Seq(Operation), NEW k \in Keys, \A i \in 1..Len(q) : q[i].key = k
                PROVE  \E f \in [0..Len(q) -> Seq(Nat)] :
                         /\ Steps(q, f)
                         /\ Legal(q) <=> \A i \in 1..Len(q) : StepOk(f[i - 1], q[i])
  <2> USE <1>OneKeySteps
  <2>1. PICK s : StoreOf(q, s)
    BY StoreExists, Zenon
  <2> DEFINE N == Len(q)
             f == [i \in 0..N |-> s[i][k]]
  <2>2. N \in Nat /\ 0 \in 0..N /\ \A i \in 1..N : i \in 0..N /\ i - 1 \in 0..N
    OBVIOUS
  <2>3. \A i \in 0..N : s[i] \in [Keys -> Seq(Nat)]
    BY <2>1 DEF StoreOf
  <2>4. f \in [0..N -> Seq(Nat)]
    BY <2>3
  <2>5. f[0] = KvInit
    <3>1. s[0] = [x \in Keys |-> KvInit]
      BY <2>1, Zenon DEF StoreOf
    <3> QED
      BY <2>2, <3>1, Zenon
  <2>6. ASSUME NEW i \in 1..N PROVE f[i] = StepState(f[i - 1], q[i])
    <3>1. s[i] = [s[i - 1] EXCEPT ![k] = StepState(s[i - 1][k], q[i])]
      BY <2>1, Zenon DEF StoreOf
    <3>2. s[i - 1] \in [Keys -> Seq(Nat)]
      BY <2>2, <2>3, Zenon
    <3>3. s[i][k] = StepState(s[i - 1][k], q[i])
      BY <3>1, <3>2, Zenon
    <3> QED
      BY <2>2, <3>3, Zenon
  <2>7. Legal(q) <=> \A i \in 1..N : StepOk(f[i - 1], q[i])
    BY <2>1, <2>2, Zenon DEF StoreOf
  <2> HIDE DEF f
  <2> QED
    BY <2>4, <2>5, <2>6, <2>7, Zenon DEF Steps
\* What Legal says of operations of one key.
<1>LegalSteps. ASSUME NEW q \in Seq(Operation), NEW k \in Keys, \A i \in 1..Len(q) : q[i].key = k,
                      NEW f, Steps(q, f)
               PROVE  Legal(q) <=> \A i \in 1..Len(q) : StepOk(f[i - 1], q[i])
  <2> USE <1>LegalSteps
  <2>1. PICK g \in [0..Len(q) -> Seq(Nat)] :
             /\ Steps(q, g)
             /\ Legal(q) <=> \A i \in 1..Len(q) : StepOk(g[i - 1], q[i])
    BY <1>OneKeySteps, Zenon
  <2>2. Len(q) \in Nat /\ \A i \in 1..Len(q) : i - 1 \in 0..Len(q)
    OBVIOUS
  <2>3. \A i \in 0..Len(q) : f[i] = g[i]
    BY <2>1, <2>2, SameSteps
  <2> QED
    BY <2>1, <2>2, <2>3, Zenon
<1>Path. ASSUME NEW h, NEW es, EntriesOK(h, es), NEW l, NEW cl, NEW st, StackOK(h, es, l, cl, st)
         PROVE  IsPath(h, es, cl, st, IdsOf(es, cl), [d \in 0..Len(cl) |-> After(cl, st, d)])
  <2> USE <1>Path
  <2> DEFINE k == Len(cl)
             s == IdsOf(es, cl)
             f == [d \in 0..k |-> After(cl, st, d)]
             q == OpsOf(h, s)
             D == DOMAIN h
  <2> HIDE DEF s, f, q, k
  <2>1. PICK c, r : IsPairs(h, es, c, r)
    BY DEF EntriesOK
  <2>2. /\ h \in Seq(Operation) /\ Len(es) \in Nat /\ k \in Nat /\ Len(h) \in Nat
        /\ D = 1..Len(h) /\ \A d \in 1..k : cl[d].entry \in 1..Len(es)
    <3>1. h \in Seq(Operation) /\ Len(es) \in Nat /\ cl \in Seq(Frame(Len(es)))
      BY DEF EntriesOK, StackOK
    <3>2. \A d \in 1..k : cl[d] \in Frame(Len(es))
      BY <3>1 DEF k
    <3> QED
      BY <3>1, <3>2 DEF Frame, k
  <2>3. \A d \in 1..k : s[d] = es[cl[d].entry].id /\ s[d] \in D
    BY <2>1, <2>2, Zenon DEF IdsOf, IsPairs, s, k
  <2>4. s \in [1..k -> D] /\ DOMAIN s = 1..k
    BY <2>3, Zenon DEF IdsOf, s, k
  <2>5. s \in Seq(D) /\ Len(s) = k
    BY <2>2, <2>4
  <2>6. \A d \in 1..k : /\ IsChoice(h, es, Placed(es, cl, d - 1), After(cl, st, d - 1),
                                    After(cl, st, d), cl[d].entry)
    BY Zenon DEF StackOK, k
  <2>7. ASSUME NEW d \in 1..k, NEW j \in 1..k, j < d PROVE s[j] # s[d]
    <3>1. j \in 1..(d - 1)
      BY <2>2, <2>7
    <3>2. s[j] \in Placed(es, cl, d - 1)
      BY <2>3, <3>1, Zenon DEF Placed
    <3>3. s[d] \notin Placed(es, cl, d - 1)
      BY <2>3, <2>6, Zenon DEF IsChoice, Rest
    <3> QED
      BY <3>2, <3>3, Zenon
  <2>8. s \in Injections(k, D)
    <3>1. \A i, j \in 1..k : i # j => i < j \/ j < i
      BY <2>2
    <3>2. \A i, j \in 1..k : i # j => s[i] # s[j]
      BY <2>7, <3>1, Zenon
    <3> QED
      BY <2>4, <3>2, Zenon DEF Injections
  <2>9. k <= Len(h)
    BY <2>2, <2>8, Pigeonhole, Zenon
  <2>10. Placed(es, cl, k) = {s[d] : d \in DOMAIN s}
    BY <2>3, <2>4, Zenon DEF Placed
  <2>11. Respects(es, s)
    <3> SUFFICES ASSUME NEW d \in 1..k, NEW o, NEW m \in DOMAIN es, NEW n \in DOMAIN es, m < n,
                        es[m] = ReturnEntry(o), es[n] = CallEntry(s[d])
                 PROVE  \E j \in 1..(d - 1) : s[j] = o
      BY <2>4, Zenon DEF Respects
    <3>0. m \in 1..Len(es) /\ n \in 1..Len(es)
      BY Zenon DEF EntriesOK
    <3>1. es[m].kind = "return" /\ es[m].id = o /\ es[n].kind = "call" /\ es[n].id = s[d]
      BY EntryFields
    <3>2. n = cl[d].entry
      <4>1. es[cl[d].entry].kind = "call" /\ es[cl[d].entry].id = s[d]
        BY <2>3, <2>6, Zenon DEF IsChoice
      <4>2. "call" # "return"
        OBVIOUS
      <4>3. c[es[n].id] = n /\ c[es[cl[d].entry].id] = cl[d].entry
        BY <2>1, <2>2, <3>0, <3>1, <4>1, <4>2, Zenon DEF IsPairs
      <4> QED
        BY <3>1, <4>1, <4>3, Zenon
    <3>3. es[m].id \in Placed(es, cl, d - 1)
      <4>1. CallsUpTo(es, Rest(es, Placed(es, cl, d - 1)), n)
        BY <2>6, <3>2, Zenon DEF IsChoice
      <4>2. "call" # "return"
        OBVIOUS
      <4> QED
        BY <3>0, <3>1, <4>1, <4>2, Zenon DEF CallsUpTo, Rest
    <3>4. PICK x \in 1..(d - 1) : es[m].id = es[cl[x].entry].id
      BY <3>3, Zenon DEF Placed
    <3>5. x \in 1..k
      BY <2>2
    <3> QED
      BY <2>3, <3>1, <3>4, <3>5, Zenon
  <2>12. /\ q \in Seq(Operation) /\ Len(q) = k /\ \A d \in 1..k : q[d] = h[es[cl[d].entry].id]
    <3>1. q = [d \in 1..k |-> h[s[d]]]
      BY <2>4, Zenon DEF OpsOf, q
    <3>2. \A d \in 1..k : h[s[d]] \in Operation
      BY <2>2, <2>3
    <3>3. q \in [1..k -> Operation] /\ \A d \in 1..k : q[d] = h[es[cl[d].entry].id]
      BY <2>3, <3>1, <3>2, Zenon
    <3> QED
      BY <2>2, <3>3
  <2>13. \A d \in 1..k : d \in 0..k /\ d - 1 \in 0..k
    BY <2>2
  <2>14. Steps(q, f) /\ \A d \in 1..k : StepOk(f[d - 1], q[d])
    <3>1. f[0] = KvInit
      <4>1. 0 \in 0..k
        BY <2>2
      <4> QED
        BY <4>1, Zenon DEF StackOK, f
    <3>2. ASSUME NEW d \in 1..k PROVE f[d] = StepState(f[d - 1], q[d]) /\ StepOk(f[d - 1], q[d])
      <4>1. f[d] = After(cl, st, d) /\ f[d - 1] = After(cl, st, d - 1)
        BY <2>13, Zenon DEF f
      <4> QED
        BY <2>6, <2>12, <4>1, Zenon DEF IsChoice
    <3> QED
      BY <2>12, <3>1, <3>2, Zenon DEF Steps
  <2>15. f[k] = st
    <3>1. k \in 0..k /\ ~ (k < k)
      BY <2>2
    <3> QED
      BY <3>1, Zenon DEF f, After, k
  <2>16. IsPath(h, es, cl, st, s, f)
    BY <2>2, <2>5, <2>8, <2>9, <2>10, <2>11, <2>12, <2>14, <2>15, Zenon DEF IsPath, k, q
  <2> QED
    BY <2>16, Zenon DEF s, f, k
\* What a linearizable prefix is.
<1>PrefixIff. ASSUME check \in Checks, NEW k \in Keys, EntriesKept(k),
                     NEW s \in Seq(DOMAIN ops(k)), s # <<>>
              PROVE  s \in Prefixes(k) <=> /\ s \in Injections(Len(s), DOMAIN ops(k))
                                           /\ Respects(entries[k], s) /\ Explains(k, s)
  <2> USE <1>PrefixIff
  <2> DEFINE h == ops(k)
             es == entries[k]
             order == \A i \in DOMAIN s, o \in Ids(h) :
                        ReturnedBefore(k, o, s[i]) => \E j \in 1..(i - 1) : s[j] = o
  <2>1. h \in Seq(Operation) /\ IsEntries(h, es)
    BY OpsFacts, Zenon DEF EntriesKept
  <2>2. /\ Len(s) \in Nat /\ Len(s) # 0 /\ Len(h) \in Nat /\ DOMAIN h = 1..Len(h) /\ Ids(h) = DOMAIN h
        /\ s \in [1..Len(s) -> DOMAIN h] /\ DOMAIN s = 1..Len(s)
    BY <2>1 DEF Ids
  <2>3. order <=> Respects(es, s)
    <3>1. ASSUME NEW o \in Ids(h), NEW i \in DOMAIN s
          PROVE  ReturnedBefore(k, o, s[i]) <=>
                   \E m, n \in DOMAIN es : m < n /\ es[m] = ReturnEntry(o) /\ es[n] = CallEntry(s[i])
      BY Zenon DEF ReturnedBefore, ReturnEntry, CallEntry
    <3>2. ASSUME NEW m \in DOMAIN es, NEW o, es[m] = ReturnEntry(o) PROVE o \in Ids(h)
      <4>1. es[m] \in CallAndReturn(h)
        BY <2>1 DEF IsEntries
      <4>2. es[m].id \in Ids(h)
        BY <4>1 DEF CallAndReturn
      <4> QED
        BY <3>2, <4>2, EntryFields
    <3> QED
      BY <3>1, <3>2, ZenonT(30) DEF Respects
  <2> HIDE DEF order
  <2>4. ASSUME s \in Injections(Len(s), DOMAIN h) PROVE Len(s) \in 1..Len(h)
    <3>1. Len(s) <= Len(h)
      BY <2>2, <2>4, Pigeonhole
    <3> QED
      BY <2>2, <3>1
  <2>5. \A n \in 1..Len(h) : s \in Injections(n, Ids(h)) => n = Len(s)
    <3> SUFFICES ASSUME NEW n \in 1..Len(h), s \in Injections(n, Ids(h)) PROVE n = Len(s)
      BY Zenon
    <3>1. DOMAIN s = 1..n /\ n \in Nat
      BY DEF Injections
    <3>2. 1..n = 1..Len(s)
      BY <2>2, <3>1, Zenon
    <3>3. n \in 1..n /\ Len(s) \in 1..Len(s)
      BY <2>2
    <3>4. n \in 1..Len(s) /\ Len(s) \in 1..n
      BY <3>2, <3>3, Zenon
    <3>5. \A x, y \in Nat : x \in 1..y /\ y \in 1..x => x = y
      OBVIOUS
    <3> QED
      BY <2>2, <3>1, <3>4, <3>5, Zenon
  <2>6. s \in Prefixes(k) <=> /\ \E n \in 1..Len(h) : s \in Injections(n, Ids(h))
                              /\ order /\ Explains(k, s)
    BY Zenon DEF Prefixes, order
  <2> QED
    BY <2>2, <2>3, <2>4, <2>5, <2>6, Zenon
<1>StackIsPrefix. ASSUME check \in Checks, NEW k \in Keys, EntriesKept(k), SearchKept(k)
                  PROVE  /\ SeqOfCalls(k) = IdsOf(entries[k], calls[k])
                         /\ IsPath(ops(k), entries[k], calls[k], state[k], SeqOfCalls(k),
                                   [d \in 0..Len(calls[k]) |-> After(calls[k], state[k], d)])
                         /\ SeqOfCalls(k) = <<>> \/ SeqOfCalls(k) \in Prefixes(k)
                         /\ linearized[k] = {SeqOfCalls(k)[i] : i \in DOMAIN SeqOfCalls(k)}
  <2> USE <1>StackIsPrefix
  <2> DEFINE h == ops(k)
             es == entries[k]
             cl == calls[k]
             st == state[k]
             s == SeqOfCalls(k)
             f == [d \in 0..Len(cl) |-> After(cl, st, d)]
             q == OpsOf(h, s)
  <2>1. /\ EntriesOK(h, es) /\ StackOK(h, es, list[k], cl, st)
        /\ linearized[k] = Placed(es, cl, Len(cl))
    BY EntriesFacts, Zenon DEF SearchKept, SearchOK
  <2>2. cl \in Seq(Frame(Len(es)))
    BY <2>1, Zenon DEF StackOK
  <2>3. DOMAIN cl = 1..Len(cl)
    BY <2>2
  <2>4. s = IdsOf(es, cl)
    BY <2>3, Zenon DEF SeqOfCalls, IdsOf, Id
  <2>5. IsPath(h, es, cl, st, s, f)
    <3>1. IsPath(h, es, cl, st, IdsOf(es, cl), f)
      <4> HIDE DEF h, es, cl, st
      <4> QED
        BY <2>1, <1>Path, Zenon
    <3> QED
      BY <2>4, <3>1, Zenon
  <2> HIDE DEF h, es, cl, st, s, f, q
  <2>6. linearized[k] = {s[i] : i \in DOMAIN s}
    BY <2>1, <2>5, Zenon DEF IsPath
  <2>7. ASSUME s # <<>> PROVE s \in Prefixes(k)
    <3>1. /\ s \in Injections(Len(s), DOMAIN h) /\ s \in Seq(DOMAIN h) /\ Respects(es, s)
          /\ q \in Seq(Operation) /\ Len(q) = Len(cl) /\ Steps(q, f)
          /\ \A d \in 1..Len(cl) : StepOk(f[d - 1], q[d])
          /\ Len(s) = Len(cl)
      BY <2>5, Zenon DEF IsPath, q
    <3>2. \A d \in 1..Len(q) : q[d].key = k
      <4>1. \A i \in DOMAIN h : h[i].key = k
        BY OpsFacts, Zenon DEF h
      <4>2. DOMAIN s = 1..Len(s) /\ \A d \in 1..Len(s) : s[d] \in DOMAIN h
        BY <3>1
      <4>3. \A d \in 1..Len(s) : q[d] = h[s[d]]
        BY <4>2, Zenon DEF q, OpsOf
      <4>4. \A d \in 1..Len(s) : q[d].key = k
        BY <4>1, <4>2, <4>3
      <4> QED
        BY <3>1, <4>4, Zenon
    <3>3. Legal(q)
      BY <3>1, <3>2, <1>LegalSteps
    <3>4. Explains(k, s)
      BY <3>3, Zenon DEF Explains, OpsOf, q, h
    <3> QED
      BY <2>7, <3>1, <3>4, <1>PrefixIff, Zenon DEF h, es
  <2> QED
    BY <2>4, <2>5, <2>6, <2>7, Zenon DEF h, es, cl, st, s, f
<1> QED
  BY <1>StackIsPrefix, Zenon

\* checkSingle takes its choices back completely: however often the search goes forward
\* and back, the list, the stack, the state and the bitset agree.
THEOREM TakenBack == Spec => []ChoicesTakenBack
\* The list, the stack, the state and the bitset of every search agree.
<1>InStep. SearchInv => ChoicesTakenBack
  \* A list of the entries left has them doubly linked, in their order.
  <2>ListLinks. ASSUME NEW n \in Nat, NEW R \in SUBSET (1..n), NEW l, IsList(l, n, R),
                       NEW i \in R \cup {Head0}, NEW after, after = {j \in R : j > i}
                PROVE  LinksTo(l, i, after)
    <3> USE <2>ListLinks
    <3>1. NextIn(R, i, l.next[i])
      BY Zenon DEF IsList, Linked
    <3>2. /\ \A j \in R : j \in Nat /\ j > 0 /\ j # Nil /\ ~ (j < 0) /\ (j > i <=> ~ (j <= i))
          /\ i \in Nat
      BY DEF Head0, Nil
    <3>3. (l.next[i] = Nil) = (after = {})
      BY <3>1, <3>2, Zenon DEF NextIn
    <3>4. ASSUME after # {}
          PROVE  /\ l.next[i] \in after /\ \A j \in after : l.next[i] <= j
                 /\ l.prev[l.next[i]] = i
      <4>1. l.next[i] \in R /\ l.next[i] > i /\ \A j \in R : j > i => l.next[i] <= j
        BY <3>1, <3>2, <3>4, Zenon DEF NextIn
      <4>2. PrevIn(R, l.next[i], l.prev[l.next[i]])
        BY <4>1, Zenon DEF IsList, Linked
      <4>3. l.prev[l.next[i]] = i
        <5> DEFINE x == l.next[i]
                   p == l.prev[x]
        <5>1. /\ x \in R /\ x > i /\ \A j \in R : j > i => x <= j
              /\ p \in R \cup {0} /\ p < x /\ \A j \in R : j < x => j <= p
          BY <4>1, <4>2, Zenon DEF PrevIn, Head0
        <5> HIDE DEF x, p
        <5>2. x \in Nat /\ p \in Nat /\ i \in Nat /\ i \in R \cup {0}
          BY <3>2, <5>1 DEF Head0
        <5>3. ~ (p > i)
          BY <5>1, <5>2
        <5>4. i <= p
          BY <5>1, <5>2
        <5>5. p = i
          BY <5>2, <5>3, <5>4
        <5> QED
          BY <5>5, Zenon DEF p, x
      <4> QED
        BY <4>1, <4>3, Zenon
    <3> QED
      BY <3>3, <3>4, Zenon DEF LinksTo
  \* The state of the search is the one the calls on the stack lead to.
  <2>StateOfCalls. ASSUME check \in Checks, NEW k \in Keys, EntriesKept(k), SearchKept(k)
                   PROVE  LET s == SeqOfCalls(k)
                              st[i \in 0..Len(s)] ==
                                IF i = 0 THEN KvInit ELSE StepState(st[i - 1], ops(k)[s[i]])
                          IN  state[k] = st[Len(s)]
    <3> USE <2>StateOfCalls
    <3> DEFINE s == SeqOfCalls(k)
               q == OpsOf(ops(k), s)
               N == Len(s)
               f == [d \in 0..Len(calls[k]) |-> After(calls[k], state[k], d)]
               Eq(g) == g = [i \in 0..N |-> IF i = 0 THEN KvInit
                                            ELSE StepState(g[i - 1], ops(k)[s[i]])]
               st == CHOOSE g : Eq(g)
    <3>1. IsPath(ops(k), entries[k], calls[k], state[k], s, f)
      BY StackIsPrefix, Zenon
    <3>2. /\ N = Len(calls[k]) /\ N \in Nat /\ s \in Seq(DOMAIN ops(k)) /\ Len(q) = N
          /\ f[0] = KvInit /\ \A i \in 1..N : f[i] = StepState(f[i - 1], q[i])
          /\ f[N] = state[k]
      BY <3>1, Zenon DEF IsPath, Steps
    <3>3. DOMAIN s = 1..N
      BY <3>2
    <3>4. \A i \in 1..N : q[i] = ops(k)[s[i]]
      BY <3>3, Zenon DEF OpsOf
    <3>5. DOMAIN f = 0..N /\ f = [i \in 0..N |-> f[i]]
      BY <3>2, Zenon
    <3> HIDE DEF s, q, N, f
    <3>6. Eq(f)
      <4>1. \A i \in 0..N : i # 0 => i \in 1..N
        BY <3>2
      <4>2. \A i \in 0..N : f[i] = IF i = 0 THEN KvInit ELSE StepState(f[i - 1], ops(k)[s[i]])
        BY <3>2, <3>4, <4>1, Zenon
      <4> QED
        BY <3>5, <4>2, Zenon
    <3>7. Eq(st)
      <4> HIDE DEF Eq
      <4> QED
        BY <3>6
    <3>8. Steps(q, st)
      <4> HIDE DEF st
      <4>1. 0 \in 0..N /\ \A i \in 1..N : i \in 0..N /\ i # 0
        BY <3>2
      <4>2. st[0] = KvInit /\ \A i \in 1..N : st[i] = StepState(st[i - 1], ops(k)[s[i]])
        BY <3>7, <4>1, Zenon
      <4> QED
        BY <3>2, <3>4, <4>2, Zenon DEF Steps
    <3>9. st[N] = f[N]
      <4> HIDE DEF st
      <4>1. Steps(q, f) /\ Len(q) \in Nat /\ N \in 0..Len(q)
        BY <3>2 DEF Steps
      <4> QED
        BY <3>8, <4>1, SameSteps
    <3>10. state[k] = st[N]
      BY <3>2, <3>9
    <3> QED
      BY <3>10 DEF s, N
  <2> SUFFICES ASSUME SearchInv PROVE ChoicesTakenBack
    OBVIOUS
  <2>1. check \in Checks /\ \A k \in Keys : EntriesKept(k) /\ SearchKept(k)
    BY Zenon DEF SearchInv
  <2>2. ListIsRest
    <3> SUFFICES ASSUME NEW k \in Keys,
                        NEW i \in {j \in DOMAIN entries[k] : Id(k, j) \notin linearized[k]} \cup {Head0}
                 PROVE  LET l == list[k]
                            rest == {j \in DOMAIN entries[k] : Id(k, j) \notin linearized[k]}
                            after == {j \in rest : j > i}
                        IN  /\ (l.next[i] = Nil) = (after = {})
                            /\ after # {} => /\ l.next[i] \in after
                                             /\ \A j \in after : l.next[i] <= j
                                             /\ l.prev[l.next[i]] = i
      BY DEF ListIsRest
    <3> DEFINE l == list[k]
               es == entries[k]
               R == Rest(es, linearized[k])
               rest == {j \in DOMAIN entries[k] : Id(k, j) \notin linearized[k]}
               after == {j \in R : j > i}
    <3>1. EntriesOK(ops(k), es)
      BY <2>1, EntriesFacts, Zenon
    <3>2. Len(es) \in Nat /\ DOMAIN es = 1..Len(es)
      BY <3>1, Zenon DEF EntriesOK
    <3>3. IsList(l, Len(es), R)
      BY <2>1, Zenon DEF SearchKept, SearchOK
    <3>4. rest = R /\ R \in SUBSET (1..Len(es))
      BY <3>2 DEF Rest, Id
    <3>5. i \in R \cup {Head0}
      BY <3>4
    <3> HIDE DEF R
    <3> HIDE DEF l, es, after
    <3>6. LinksTo(l, i, after)
      BY <3>2, <3>3, <3>4, <3>5, <2>ListLinks, Zenon DEF after
    <3>7. {j \in rest : j > i} = after
      BY <3>4, Zenon DEF after
    <3> QED
      BY <3>6, <3>7, Zenon DEF LinksTo, rest, l
  <2>3. PathIsPrefix
    <3> SUFFICES ASSUME NEW k \in Keys
                 PROVE  LET s == SeqOfCalls(k)
                            st[i \in 0..Len(s)] ==
                              IF i = 0 THEN KvInit ELSE StepState(st[i - 1], ops(k)[s[i]])
                        IN  /\ s = <<>> \/ s \in Prefixes(k)
                            /\ state[k] = st[Len(s)]
                            /\ linearized[k] = {s[i] : i \in DOMAIN s}
      BY DEF PathIsPrefix
    <3> QED
      BY <2>1, StackIsPrefix, <2>StateOfCalls, Zenon
  <2> QED
    BY <2>2, <2>3, Zenon DEF ChoicesTakenBack
<1> QED
  BY SearchInvariant, <1>InStep, PTL

----------------------------------------------------------------------------
(* The cache.  A configuration is a set of operations that have their place *)
(* and the state they lead to.                                             *)

\* call j was tried in configuration <<L, s>>: if the model allows it there, the
\* configuration it leads to is in the cache c
Tried(h, es, c, L, s, j) ==
  /\ es[j].kind = "call"
  /\ StepOk(s, h[es[j].id]) => <<L \cup {es[j].id}, StepState(s, h[es[j].id])>> \in c

TriedUpTo(h, es, c, L, s, i) == \A j \in Rest(es, L) : j < i => Tried(h, es, c, L, s, j)

\* all calls that may come next in configuration <<L, s>> were tried: those before
\* the first return
Closed(h, es, c, L, s) ==
  \E i \in Rest(es, L) : es[i].kind = "return" /\ TriedUpTo(h, es, c, L, s, i)

OnStack(es, cl, st, x) ==
  \E d \in 1..Len(cl) : x = <<Placed(es, cl, d), After(cl, st, d)>>

\* The search has been in the configurations of the cache: it is done with them, or
\* they are on the stack, with the calls before the one chosen tried.
CacheOK(h, es, c, cl, st) ==
  /\ \A x \in c : x = <<x[1], x[2]>>
  /\ \A x \in c : OnStack(es, cl, st, x) \/ Closed(h, es, c, x[1], x[2])
  /\ \A d \in 1..Len(cl) :
       /\ TriedUpTo(h, es, c, Placed(es, cl, d - 1), After(cl, st, d - 1), cl[d].entry)
       /\ <<Placed(es, cl, d), After(cl, st, d)>> \in c

EntryTried(h, es, c, e, lin, st) == Rest(es, lin) # {} => TriedUpTo(h, es, c, lin, st, e)

\* the cache of key k
CacheKept(k) ==
  /\ CacheOK(ops(k), entries[k], cache[k], calls[k], state[k])
  /\ EntryTried(ops(k), entries[k], cache[k], entry[k], linearized[k], state[k])

\* the search of key k has been everywhere, and everywhere came to an end
Exhausted(k) ==
  /\ Closed(ops(k), entries[k], cache[k], {}, KvInit)
  /\ \A x \in cache[k] : x = <<x[1], x[2]>> /\ Closed(ops(k), entries[k], cache[k], x[1], x[2])

\* what the outcome of key k says
OutcomeKept(k) ==
  /\ outcome[k] \in {"running", "true", "false"}
  /\ outcome[k] = "true" => Rest(entries[k], linearized[k]) = {}
  /\ outcome[k] = "false" => kill \/ Exhausted(k)

CacheInv == SearchInv /\ \A k \in Keys : CacheKept(k) /\ OutcomeKept(k)

\* Every step keeps the caches in order.
LEMMA CacheStep ==
  /\ CacheInv
  /\ [Next]_vars
  => CacheInv'
\* The cache of a key that a step leaves alone.
<1>CacheFrame. ASSUME NEW k, UNCHANGED <<check, entries>>, CacheKept(k), OutcomeKept(k),
                      entry'[k] = entry[k], linearized'[k] = linearized[k], cache'[k] = cache[k],
                      calls'[k] = calls[k], state'[k] = state[k], outcome'[k] = outcome[k], kill => kill'
               PROVE  CacheKept(k)' /\ OutcomeKept(k)'
  <2> USE <1>CacheFrame
  <2>1. ops(k)' = ops(k) /\ entries'[k] = entries[k]
    BY SameKeys, Zenon
  <2>2. CacheKept(k)'
    BY <2>1, Zenon DEF CacheKept
  <2>3. Exhausted(k)' <=> Exhausted(k)
    BY <2>1, Zenon DEF Exhausted
  <2> QED
    BY <2>1, <2>2, <2>3, Zenon DEF OutcomeKept
\* What was tried stays tried when the cache grows.
<1>TriedGrows. ASSUME NEW h, NEW es, NEW c, NEW c2, c \subseteq c2, NEW L, NEW s
               PROVE  /\ \A i : TriedUpTo(h, es, c, L, s, i) => TriedUpTo(h, es, c2, L, s, i)
                      /\ Closed(h, es, c, L, s) => Closed(h, es, c2, L, s)
  <2> USE <1>TriedGrows
  <2>1. \A x : x \in c => x \in c2
    OBVIOUS
  <2>2. \A j : Tried(h, es, c, L, s, j) => Tried(h, es, c2, L, s, j)
    BY <2>1, Zenon DEF Tried
  <2>3. \A i : TriedUpTo(h, es, c, L, s, i) => TriedUpTo(h, es, c2, L, s, i)
    BY <2>2, Zenon DEF TriedUpTo
  <2> QED
    BY <2>3, Zenon DEF Closed
\* A call placed: its configuration is new in the cache and on the stack.
<1>CacheForward. ASSUME NEW h, NEW es, EntriesOK(h, es), NEW l, NEW e, NEW lin, NEW cl, NEW st, NEW c,
                        SearchOK(h, es, l, e, lin, cl, st), Rest(es, lin) # {}, es[e].kind = "call",
                        StepOk(st, h[es[e].id]), CacheOK(h, es, c, cl, st), EntryTried(h, es, c, e, lin, st)
                 PROVE  /\ CacheOK(h, es, c \cup {<<lin \cup {es[e].id}, StepState(st, h[es[e].id])>>},
                                   Append(cl, [entry |-> e, state |-> st]), StepState(st, h[es[e].id]))
                        /\ EntryTried(h, es, c \cup {<<lin \cup {es[e].id}, StepState(st, h[es[e].id])>>},
                                      lift(l, e, Match(es, e)).next[Head0], lin \cup {es[e].id},
                                      StepState(st, h[es[e].id]))
  <2> USE <1>CacheForward
  <2> DEFINE n == Len(es)
             L == lin \cup {es[e].id}
             k == Len(cl)
             q == Append(cl, [entry |-> e, state |-> st])
             t == StepState(st, h[es[e].id])
             x0 == <<L, t>>
             c2 == c \cup {x0}
             u == lift(l, e, Match(es, e))
  <2> HIDE DEF n, L, k, q, t, x0, c2, u
  <2>1. cl \in Seq(Frame(n)) /\ e \in 1..n /\ lin = Placed(es, cl, k)
    <3>1. e \in Rest(es, lin)
      BY Zenon DEF SearchOK
    <3> QED
      BY <3>1, Zenon DEF SearchOK, StackOK, Rest, n, k
  <2>2. Pushed(es, n, cl, st, e, q, t)
    <3>1. q = Append(cl, [entry |-> e, state |-> st])
      BY DEF q
    <3> QED
      BY <2>1, <3>1, Push, Zenon
  <2>3. /\ k \in Nat /\ Len(q) = k + 1 /\ q[Len(q)].entry = e
        /\ \A d \in 1..k : q[d] = cl[d]
        /\ \A d \in 0..k : Placed(es, q, d) = Placed(es, cl, d)
        /\ \A d \in 0..k : After(q, t, d) = After(cl, st, d)
        /\ Placed(es, q, Len(q)) = L /\ After(q, t, Len(q)) = t /\ After(cl, st, k) = st
    BY <2>1, <2>2, Zenon DEF Pushed, k, L
  <2>4. c \subseteq c2 /\ x0 \in c2 /\ \A x \in c2 : x \in c \/ x = x0
    BY Zenon DEF c2
  <2>5. /\ \A L2, s, i : TriedUpTo(h, es, c, L2, s, i) => TriedUpTo(h, es, c2, L2, s, i)
        /\ \A L2, s : Closed(h, es, c, L2, s) => Closed(h, es, c2, L2, s)
    BY <2>4, <1>TriedGrows, Zenon
  <2>6. /\ \A d \in 1..k : d \in 0..k /\ d - 1 \in 0..k /\ d \in 1..Len(q)
        /\ Len(q) \in 1..Len(q) /\ Len(q) - 1 = k /\ k \in 0..k
        /\ \A d \in 1..Len(q) : d \in 1..k \/ d = Len(q)
    <3>1. k \in Nat /\ Len(q) = k + 1
      BY <2>3, Zenon
    <3> QED
      BY ONLY <3>1
  <2>7. OnStack(es, q, t, x0)
    BY <2>3, <2>6, Zenon DEF OnStack, x0
  <2>8. \A x \in c2 : x = <<x[1], x[2]>>
    <3>1. x0 = <<x0[1], x0[2]>>
      BY DEF x0
    <3> QED
      BY <2>4, <3>1, Zenon DEF CacheOK
  <2>9. ASSUME NEW x \in c2 PROVE OnStack(es, q, t, x) \/ Closed(h, es, c2, x[1], x[2])
    <3>1. CASE x = x0
      BY <2>7, <3>1, Zenon
    <3>2. CASE x \in c
      <4>1. OnStack(es, cl, st, x) \/ Closed(h, es, c, x[1], x[2])
        BY <3>2, Zenon DEF CacheOK
      <4>2. OnStack(es, cl, st, x) => OnStack(es, q, t, x)
        BY <2>3, <2>6, Zenon DEF OnStack, k
      <4> QED
        BY <2>5, <4>1, <4>2, Zenon
    <3> QED
      BY <2>4, <3>1, <3>2, Zenon
  <2>10. ASSUME NEW d \in 1..Len(q)
         PROVE  /\ TriedUpTo(h, es, c2, Placed(es, q, d - 1), After(q, t, d - 1), q[d].entry)
                /\ <<Placed(es, q, d), After(q, t, d)>> \in c2
    <3>1. CASE d \in 1..k
      <4>1. /\ TriedUpTo(h, es, c, Placed(es, cl, d - 1), After(cl, st, d - 1), cl[d].entry)
            /\ <<Placed(es, cl, d), After(cl, st, d)>> \in c
        BY <3>1, Zenon DEF CacheOK, k
      <4>2. /\ Placed(es, q, d - 1) = Placed(es, cl, d - 1) /\ Placed(es, q, d) = Placed(es, cl, d)
            /\ After(q, t, d - 1) = After(cl, st, d - 1) /\ After(q, t, d) = After(cl, st, d)
            /\ q[d] = cl[d]
        BY <2>3, <2>6, <3>1, Zenon
      <4> QED
        BY <2>4, <2>5, <4>1, <4>2, Zenon
    <3>2. CASE d = Len(q)
      <4>1. TriedUpTo(h, es, c, lin, st, e)
        BY Zenon DEF EntryTried
      <4>2. Placed(es, q, d - 1) = lin /\ After(q, t, d - 1) = st
        BY <2>1, <2>3, <2>6, <3>2, Zenon
      <4> QED
        BY <2>3, <2>4, <2>5, <3>2, <4>1, <4>2, Zenon DEF x0
    <3> QED
      BY <2>6, <3>1, <3>2, Zenon
  <2>11. CacheOK(h, es, c2, q, t)
    BY <2>8, <2>9, <2>10, Zenon DEF CacheOK
  <2>12. EntryTried(h, es, c2, u.next[Head0], L, t)
    <3> SUFFICES ASSUME Rest(es, L) # {} PROVE TriedUpTo(h, es, c2, L, t, u.next[Head0])
      BY Zenon DEF EntryTried
    <3>1. SearchOK(h, es, u, u.next[Head0], L, q, t)
      BY Forward, Zenon DEF u, L, q, t
    <3>2. IsList(u, n, Rest(es, L)) /\ n \in Nat
      BY <3>1, Zenon DEF SearchOK, EntriesOK, n
    <3>3. Rest(es, L) \in SUBSET (1..n)
      BY Zenon DEF Rest, n
    <3>4. \A j \in Rest(es, L) : ~ (j < u.next[Head0])
      BY <3>2, <3>3, HeadFirst, Zenon
    <3> QED
      BY <3>4, Zenon DEF TriedUpTo
  <2> QED
    BY <2>11, <2>12, Zenon DEF c2, x0, L, q, t, u
\* A call skipped was tried.
<1>CacheSkip. ASSUME NEW h, NEW es, EntriesOK(h, es), NEW l, NEW e, NEW lin, NEW cl, NEW st, NEW c,
                     SearchOK(h, es, l, e, lin, cl, st), Rest(es, lin) # {}, es[e].kind = "call",
                     CacheOK(h, es, c, cl, st), EntryTried(h, es, c, e, lin, st),
                     StepOk(st, h[es[e].id]) =>
                       cacheContains(c, lin \cup {es[e].id}, StepState(st, h[es[e].id]))
              PROVE  EntryTried(h, es, c, l.next[e], lin, st)
  <2> USE <1>CacheSkip
  <2> DEFINE R == Rest(es, lin)
             m == Match(es, e)
  <2>1. /\ Len(es) \in Nat /\ R \in SUBSET (1..Len(es)) /\ e \in R /\ CallsUpTo(es, R, e)
        /\ IsList(l, Len(es), R)
    BY SearchFacts, Zenon
  <2>2. m \in R /\ e < m
    <3>1. HasReturn(h, es, lin, e)
      BY <2>1, ReturnInRest, Zenon
    <3> QED
      BY <3>1, Zenon DEF HasReturn
  <2> HIDE DEF R, m
  <2>3. \A j \in R : j < l.next[e] => j = e \/ j < e
    BY <2>1, <2>2, NextNode, Zenon
  <2>4. Tried(h, es, c, lin, st, e)
    <3> SUFFICES ASSUME StepOk(st, h[es[e].id])
                 PROVE  <<lin \cup {es[e].id}, StepState(st, h[es[e].id])>> \in c
      BY Zenon DEF Tried
    <3>1. PICK x \in c : lin \cup {es[e].id} = x[1] /\ x[2] = StepState(st, h[es[e].id])
      BY Zenon DEF cacheContains, equals
    <3>2. x = <<x[1], x[2]>>
      BY Zenon DEF CacheOK
    <3> QED
      BY SMTT(30), <3>1, <3>2
  <2>5. TriedUpTo(h, es, c, lin, st, e)
    BY Zenon DEF EntryTried
  <2> QED
    BY <2>3, <2>4, <2>5, Zenon DEF EntryTried, TriedUpTo, R
\* A return: all calls that may come next were tried.
<1>CacheClosed. ASSUME NEW h, NEW es, NEW l, NEW e, NEW lin, NEW cl, NEW st, NEW c,
                       SearchOK(h, es, l, e, lin, cl, st), Rest(es, lin) # {}, es[e].kind = "return",
                       EntryTried(h, es, c, e, lin, st)
                PROVE  Closed(h, es, c, lin, st)
  <2> USE <1>CacheClosed
  <2>1. e \in Rest(es, lin)
    BY Zenon DEF SearchOK
  <2> QED
    BY <2>1, Zenon DEF EntryTried, Closed
\* The last choice taken back: the search is done with its configuration.
<1>CacheBack. ASSUME NEW h, NEW es, EntriesOK(h, es), NEW l, NEW e, NEW lin, NEW cl, NEW st, NEW c,
                     SearchOK(h, es, l, e, lin, cl, st), Closed(h, es, c, lin, st),
                     CacheOK(h, es, c, cl, st),
                     NEW q, NEW i, NEW L, LastChoice(h, es, l, cl, st, q, i, lin, L)
              PROVE  /\ CacheOK(h, es, c, q, cl[Len(cl)].state)
                     /\ EntryTried(h, es, c, unlift(l, i, Match(es, i)).next[i], L, cl[Len(cl)].state)
  <2> USE <1>CacheBack
  <2> DEFINE n == Len(es)
             s == cl[Len(cl)].state
             k == Len(q)
             u == unlift(l, i, Match(es, i))
  <2> HIDE DEF n, s, k, u
  <2>1. /\ k \in Nat /\ Len(cl) = k + 1 /\ L = Placed(es, q, k) /\ i = cl[Len(cl)].entry
        /\ \A d \in 1..k : q[d] = cl[d]
        /\ \A d \in 0..k : Placed(es, q, d) = Placed(es, cl, d)
        /\ \A d \in 0..k : After(q, s, d) = After(cl, st, d)
        /\ lin = Placed(es, cl, Len(cl)) /\ After(cl, st, k) = s
    BY Zenon DEF LastChoice, Popped, SearchOK, n, s, k
  <2>2. /\ \A d \in 1..k : d \in 0..k /\ d - 1 \in 0..k /\ d \in 1..Len(cl)
        /\ Len(cl) \in 1..Len(cl) /\ Len(cl) - 1 = k /\ k \in 0..k
        /\ \A d \in 1..Len(cl) : d \in 1..k \/ d = Len(cl)
        /\ ~ (Len(cl) < Len(cl))
    BY <2>1
  <2>3. After(cl, st, Len(cl)) = st
    BY <2>2, Zenon DEF After
  <2>4. ASSUME NEW x \in c PROVE OnStack(es, q, s, x) \/ Closed(h, es, c, x[1], x[2])
    <3>1. CASE OnStack(es, cl, st, x)
      <4>1. PICK d \in 1..Len(cl) : x = <<Placed(es, cl, d), After(cl, st, d)>>
        BY <3>1, Zenon DEF OnStack
      <4>2. CASE d \in 1..k
        <5>1. x = <<Placed(es, q, d), After(q, s, d)>>
          BY <2>1, <2>2, <4>1, <4>2, Zenon
        <5> QED
          BY <4>2, <5>1, Zenon DEF OnStack, k
      <4>3. CASE d = Len(cl)
        <5>1. x = <<lin, st>>
          BY <2>1, <2>3, <4>1, <4>3, Zenon
        <5>2. x[1] = lin /\ x[2] = st
          BY <5>1
        <5> QED
          BY <5>2, Zenon
      <4> QED
        BY <2>2, <4>2, <4>3, Zenon
    <3>2. CASE Closed(h, es, c, x[1], x[2])
      BY <3>2, Zenon
    <3> QED
      BY <3>1, <3>2, Zenon DEF CacheOK
  <2>5. ASSUME NEW d \in 1..k
        PROVE  /\ TriedUpTo(h, es, c, Placed(es, q, d - 1), After(q, s, d - 1), q[d].entry)
               /\ <<Placed(es, q, d), After(q, s, d)>> \in c
    <3>1. /\ TriedUpTo(h, es, c, Placed(es, cl, d - 1), After(cl, st, d - 1), cl[d].entry)
          /\ <<Placed(es, cl, d), After(cl, st, d)>> \in c
      BY <2>2, Zenon DEF CacheOK
    <3>2. /\ Placed(es, q, d - 1) = Placed(es, cl, d - 1) /\ Placed(es, q, d) = Placed(es, cl, d)
          /\ After(q, s, d - 1) = After(cl, st, d - 1) /\ After(q, s, d) = After(cl, st, d)
          /\ q[d] = cl[d]
      BY <2>1, <2>2, Zenon
    <3> QED
      BY <3>1, <3>2
  <2>6. CacheOK(h, es, c, q, s)
    BY <2>4, <2>5, Zenon DEF CacheOK, k
  <2>7. TriedUpTo(h, es, c, L, s, i) /\ Tried(h, es, c, L, s, i)
    <3>1. /\ TriedUpTo(h, es, c, Placed(es, cl, k), After(cl, st, k), cl[Len(cl)].entry)
          /\ <<Placed(es, cl, Len(cl)), After(cl, st, Len(cl))>> \in c
      BY <2>2, Zenon DEF CacheOK
    <3>2. TriedUpTo(h, es, c, L, s, i) /\ <<lin, st>> \in c
      BY <2>1, <2>2, <2>3, <3>1, Zenon
    <3>3. lin = L \cup {es[i].id} /\ st = StepState(s, h[es[i].id]) /\ es[i].kind = "call"
      BY Zenon DEF LastChoice, IsChoice, s
    <3> QED
      BY <3>2, <3>3, Zenon DEF Tried
  <2>8. \A j \in Rest(es, L) : j < u.next[i] => j = i \/ j < i
    BY Back, Zenon DEF u
  <2>9. EntryTried(h, es, c, u.next[i], L, s)
    BY <2>7, <2>8, Zenon DEF EntryTried, TriedUpTo
  <2> QED
    BY <2>6, <2>9, Zenon DEF s, u
\* The cache of a key after a step of its search.
<1>SingleCache. ASSUME CacheInv, NEW k \in Keys, checkSingle(k)
                PROVE  CacheKept(k)' /\ OutcomeKept(k)'
  <2> USE <1>SingleCache
  <2> DEFINE h == ops(k)
             es == entries[k]
             l == list[k]
             e == entry[k]
             lin == linearized[k]
             cl == calls[k]
             st == state[k]
             c == cache[k]
  <2>1. /\ AllOverKeys /\ EntriesKept(k) /\ EntriesOK(h, es) /\ SearchOK(h, es, l, e, lin, cl, st)
        /\ CacheOK(h, es, c, cl, st) /\ EntryTried(h, es, c, e, lin, st)
        /\ CacheKept(k) /\ OutcomeKept(k)
    BY EntriesFacts, Zenon DEF CacheInv, SearchInv, SearchKept, CacheKept
  <2>2. UNCHANGED <<check, entries>> /\ kill' = kill
    BY SingleChanges, Zenon DEF verdict
  <2>3. ops(k)' = h /\ entries'[k] = es
    BY <2>1, <2>2, SameKeys, Zenon
  <2>4. /\ l.next[Head0] = Nil <=> Rest(es, lin) = {}
        /\ Goes(k) => Rest(es, lin) # {} /\ e \in Rest(es, lin)
        /\ Goes(k) /\ Match(es, e) # Nil => es[e].kind = "call"
        /\ Goes(k) /\ Match(es, e) = Nil => es[e].kind = "return"
    <3> HIDE DEF h, es, l, e, lin, cl, st
    <3>1. /\ l.next[Head0] = Nil <=> Rest(es, lin) = {}
          /\ Rest(es, lin) # {} => /\ e \in Rest(es, lin)
                                   /\ Match(es, e) # Nil => es[e].kind = "call"
                                   /\ Match(es, e) = Nil => es[e].kind = "return"
      BY <2>1, AtEntry, Zenon
    <3> QED
      BY <3>1, Zenon DEF Goes, l
  <2>5. /\ DOMAIN outcome = Keys /\ "running" # "true" /\ "running" # "false"
        /\ "true" # "false"
    BY <2>1 DEF AllOverKeys, OverKeys
  <2>6. CASE UNCHANGED <<entry, linearized, cache, calls, state>>
    <3>1. CacheKept(k)'
      BY <2>1, <2>3, <2>6, Zenon DEF CacheKept
    <3>2. Exhausted(k)' <=> Exhausted(k)
      BY <2>3, <2>6, Zenon DEF Exhausted
    <3>3. CASE AllLinearized(k)
      <4>1. outcome' = [outcome EXCEPT ![k] = "true"] /\ list[k].next[Head0] = Nil
        BY <3>3, Zenon DEF AllLinearized
      <4>2. outcome'[k] = "true" /\ Rest(es, lin) = {}
        BY <2>4, <2>5, <4>1, Zenon
      <4> QED
        BY <2>3, <2>5, <2>6, <3>1, <4>2, Zenon DEF OutcomeKept
    <3>4. CASE Killed(k)
      <4>1. outcome' = [outcome EXCEPT ![k] = "false"] /\ kill
        BY <3>4, Zenon DEF Killed
      <4>2. outcome'[k] = "false" /\ kill'
        BY <2>2, <2>5, <4>1, Zenon
      <4> QED
        BY <2>5, <3>1, <4>2, Zenon DEF OutcomeKept
    <3>5. CASE Failing(k) /\ Backtrack(k)
      <4>1. outcome' = [outcome EXCEPT ![k] = "false"] /\ cl = <<>>
        BY <3>5, Zenon DEF Failing
      <4>2. outcome'[k] = "false"
        BY <2>5, <4>1, Zenon
      <4>3. Goes(k) /\ Match(es, e) = Nil
        BY <2>1, <3>5, BacktrackCases, Zenon
      <4>4. Rest(es, lin) # {} /\ es[e].kind = "return"
        BY <2>4, <4>3, Zenon
      <4>5. Closed(h, es, c, lin, st)
        <5> HIDE DEF h, es, l, e, lin, cl, st, c
        <5> QED
          BY <2>1, <4>4, <1>CacheClosed, Zenon
      <4>6. Len(cl) = 0 /\ 1..0 = {}
        BY <4>1
      <4>7. lin = {} /\ st = KvInit
        <5>1. lin = Placed(es, cl, 0) /\ After(cl, st, 0) = KvInit
          BY <2>1, <4>6, Zenon DEF SearchOK, StackOK
        <5> QED
          BY <4>6, <5>1 DEF Placed, After
      <4>8. \A x \in c : x = <<x[1], x[2]>> /\ Closed(h, es, c, x[1], x[2])
        BY <2>1, <4>6, Zenon DEF CacheOK, OnStack
      <4>9. Exhausted(k)
        BY <4>5, <4>7, <4>8, Zenon DEF Exhausted
      <4> QED
        BY <2>5, <3>1, <3>2, <4>2, <4>9, Zenon DEF OutcomeKept
    <3> QED
      <4>1. CASE TryCall(k)
        <5>1. UNCHANGED outcome
          BY <4>1, Zenon DEF TryCall
        <5> QED
          BY <2>1, <2>2, <2>6, <5>1, <1>CacheFrame, Zenon
      <4>2. CASE Backtrack(k) /\ Popping(k)
        <5>1. UNCHANGED outcome
          BY <4>2, Zenon DEF Popping
        <5> QED
          BY <2>1, <2>2, <2>6, <5>1, <1>CacheFrame, Zenon
      <4>3. Backtrack(k) => Popping(k) \/ Failing(k)
        BY <2>1, BacktrackCases, Zenon
      <4> QED
        BY <3>3, <3>4, <3>5, <4>1, <4>2, <4>3, Zenon DEF checkSingle
  <2>7. ASSUME UNCHANGED outcome, Goes(k) PROVE OutcomeKept(k)'
    BY <2>5, <2>7, Zenon DEF OutcomeKept, Goes, Running
  <2>8. CASE TryCall(k)
    <3>1. /\ Goes(k) /\ Match(es, e) # Nil /\ (Placing(k) \/ Skipping(k)) /\ UNCHANGED outcome
      BY <2>1, <2>8, TryCallCases, Zenon
    <3>2. Rest(es, lin) # {} /\ es[e].kind = "call" /\ OutcomeKept(k)'
      BY <2>4, <2>7, <3>1, Zenon
    <3>3. CASE Placing(k)
      <4>1. /\ StepOk(st, h[es[e].id]) /\ state'[k] = StepState(st, h[es[e].id])
            /\ calls'[k] = Append(cl, [entry |-> e, state |-> st])
            /\ linearized'[k] = lin \cup {es[e].id}
            /\ cache'[k] = c \cup {<<lin \cup {es[e].id}, StepState(st, h[es[e].id])>>}
            /\ entry'[k] = lift(l, e, Match(es, e)).next[Head0]
        BY <3>3, Zenon DEF Placing, Id
      <4>2. /\ CacheOK(h, es, c \cup {<<lin \cup {es[e].id}, StepState(st, h[es[e].id])>>},
                       Append(cl, [entry |-> e, state |-> st]), StepState(st, h[es[e].id]))
            /\ EntryTried(h, es, c \cup {<<lin \cup {es[e].id}, StepState(st, h[es[e].id])>>},
                          lift(l, e, Match(es, e)).next[Head0], lin \cup {es[e].id},
                          StepState(st, h[es[e].id]))
        <5> HIDE DEF h, es, l, e, lin, cl, st, c
        <5> QED
          BY <2>1, <3>2, <4>1, <1>CacheForward, Zenon
      <4> QED
        BY <2>3, <3>2, <4>1, <4>2, Zenon DEF CacheKept
    <3>4. CASE Skipping(k)
      <4>1. /\ entry'[k] = l.next[e] /\ UNCHANGED <<cache, calls, state, linearized, list>>
            /\ StepOk(st, h[es[e].id]) =>
                 cacheContains(c, lin \cup {es[e].id}, StepState(st, h[es[e].id]))
        BY <3>4, Zenon DEF Skipping, Id
      <4>2. EntryTried(h, es, c, l.next[e], lin, st)
        <5> HIDE DEF h, es, l, e, lin, cl, st, c
        <5> QED
          BY <2>1, <3>2, <4>1, <1>CacheSkip, Zenon
      <4> QED
        BY <2>1, <2>3, <3>2, <4>1, <4>2, Zenon DEF CacheKept
    <3> QED
      BY <3>1, <3>3, <3>4, Zenon
  <2>9. CASE Backtrack(k)
    <3>1. /\ Goes(k) /\ Match(es, e) = Nil /\ (Popping(k) \/ Failing(k)) /\ UNCHANGED cache
      BY <2>1, <2>9, BacktrackCases, Zenon
    <3>2. Rest(es, lin) # {} /\ es[e].kind = "return"
      BY <2>4, <3>1, Zenon
    <3>3. CASE Failing(k)
      BY <2>6, <3>1, <3>3, Zenon DEF Failing
    <3>4. CASE Popping(k)
      <4> DEFINE q == SubSeq(cl, 1, Len(cl) - 1)
                 i == cl[Len(cl)].entry
                 L == lin \ {es[i].id}
      <4>1. /\ cl # <<>> /\ state'[k] = cl[Len(cl)].state /\ linearized'[k] = L
            /\ calls'[k] = q /\ entry'[k] = unlift(l, i, Match(es, i)).next[i]
            /\ UNCHANGED outcome
        BY <3>4, Zenon DEF Popping, Id, Top
      <4>2. LastChoice(h, es, l, cl, st, q, i, lin, L) /\ Closed(h, es, c, lin, st)
        <5> HIDE DEF h, es, l, e, lin, cl, st, c
        <5> QED
          BY <2>1, <3>2, <4>1, LastChoiceFacts, <1>CacheClosed, Zenon
      <4>3. /\ CacheOK(h, es, c, q, cl[Len(cl)].state)
            /\ EntryTried(h, es, c, unlift(l, i, Match(es, i)).next[i], L, cl[Len(cl)].state)
        <5> HIDE DEF h, es, l, e, lin, cl, st, q, i, L, c
        <5> QED
          BY <2>1, <4>2, <1>CacheBack, Zenon
      <4>4. CacheKept(k)'
        BY <2>3, <3>1, <4>1, <4>3, Zenon DEF CacheKept
      <4> QED
        BY <2>7, <3>1, <4>1, <4>4, Zenon
    <3> QED
      BY <3>1, <3>3, <3>4, Zenon
  <2> QED
    BY <2>6, <2>8, <2>9, Zenon DEF checkSingle, AllLinearized, Killed
<1>CacheStep. ASSUME CacheInv, [Next]_vars PROVE CacheInv'
  <2> USE <1>CacheStep
  <2>0. SearchInv /\ AllOverKeys /\ \A k \in Keys : CacheKept(k) /\ OutcomeKept(k)
    BY Zenon DEF CacheInv, SearchInv
  <2>1. SearchInv'
    BY <2>0, SearchStep, Zenon
  <2>2. ASSUME UNCHANGED <<check, entries, search>>, kill => kill' PROVE CacheInv'
    <3>1. Keys' = Keys
      BY <2>2, SameKeys, Zenon
    <3>2. ASSUME NEW k \in Keys PROVE CacheKept(k)' /\ OutcomeKept(k)'
      BY <2>0, <2>2, <1>CacheFrame, Zenon DEF search
    <3> QED
      BY <2>1, <3>1, <3>2, Zenon DEF CacheInv
  <2>3. ASSUME NEW k \in Keys, checkSingle(k) PROVE CacheInv'
    <3>1. /\ UNCHANGED <<check, entries, verdict>> /\ Changes(entry, entry', k)
          /\ Changes(linearized, linearized', k) /\ Changes(cache, cache', k)
          /\ Changes(calls, calls', k) /\ Changes(state, state', k)
          /\ Changes(outcome, outcome', k)
      BY <2>3, SingleChanges, Zenon
    <3>2. Keys' = Keys /\ kill' = kill
      BY <3>1, SameKeys, Zenon DEF verdict
    <3>3. ASSUME NEW j \in Keys PROVE CacheKept(j)' /\ OutcomeKept(j)'
      <4>1. CASE j = k
        BY <2>3, <4>1, <1>SingleCache, Zenon
      <4>2. CASE j # k
        <5>0. /\ OverKeys(entry) /\ OverKeys(linearized) /\ OverKeys(cache) /\ OverKeys(calls)
              /\ OverKeys(state) /\ OverKeys(outcome)
          BY <2>0, Zenon DEF AllOverKeys
        <5>1. /\ entry'[j] = entry[j] /\ linearized'[j] = linearized[j] /\ cache'[j] = cache[j]
              /\ calls'[j] = calls[j] /\ state'[j] = state[j] /\ outcome'[j] = outcome[j]
          BY <3>1, <4>2, <5>0, OverKeysExcept
        <5> QED
          BY <2>0, <3>1, <3>2, <5>1, <1>CacheFrame, Zenon
      <4> QED
        BY <4>1, <4>2, Zenon
    <3> QED
      BY <2>1, <3>2, <3>3, Zenon DEF CacheInv
  <2>4. CASE checkParallel
    <3>1. UNCHANGED <<check, entries, search>>
      BY <2>4, Zenon DEF checkParallel, Timeout, Return, Receive, Drain
    <3>2. kill => kill'
      BY <2>4, Zenon DEF checkParallel, Timeout, Return, Receive, Drain
    <3> QED
      BY <2>2, <3>1, <3>2, Zenon
  <2>5. CASE UNCHANGED vars
    BY <2>2, <2>5, Zenon DEF vars, verdict
  <2> QED
    BY <2>3, <2>4, <2>5, Zenon DEF Next
<1> QED
  BY <1>CacheStep, Zenon

----------------------------------------------------------------------------
(* checkParallel.                                                          *)

\* the search of key k has ended, and there is no linearization
Fails(k) == outcome[k] # "running" /\ Exhausted(k)

\* What the results received so far say of the searches.
ParInv ==
  /\ pc \in {"loop", "drain", "done"}
  /\ pc = "loop" => ~kill /\ ~timedOut
  /\ \A k \in received : k \in Keys /\ outcome[k] # "running"
  /\ ok /\ pc = "loop" => \A k \in received : outcome[k] = "true"
  /\ ok /\ pc # "loop" /\ ~timedOut => \A k \in Keys : outcome[k] = "true"
  /\ ~ok => \E k \in Keys : Fails(k)
  /\ check.verbose /\ kill => timedOut
  /\ check.verbose /\ pc = "done" => \A k \in Keys : outcome[k] # "running"
  /\ result # "none" => pc = "done"
  /\ result = "Illegal" => ~ok
  /\ result = "Ok" => ok /\ ~timedOut
  /\ result = "Unknown" => timedOut

\* What the searches and checkParallel know, in every state.
LEMMA ParInvariant == Spec => [](CacheInv /\ ParInv)
\* A check starts with empty caches.
<1>StartCache. Init => CacheInv
  <2> SUFFICES ASSUME Init PROVE CacheInv
    OBVIOUS
  <2>1. SearchInv
    BY StartInv, Zenon
  <2>2. ASSUME NEW k \in Keys PROVE CacheKept(k) /\ OutcomeKept(k)
    <3>1. /\ entry[k] = 1 /\ linearized[k] = {} /\ cache[k] = {} /\ calls[k] = <<>>
          /\ state[k] = KvInit /\ outcome[k] = "running"
      BY Zenon DEF Init, newBitset
    <3>2. Len(<<>>) = 0 /\ 1..0 = {}
      OBVIOUS
    <3>3. CacheOK(ops(k), entries[k], {}, <<>>, KvInit)
      BY <3>2, Zenon DEF CacheOK
    <3>4. \A j \in Rest(entries[k], {}) : ~ (j < 1)
      <4>1. EntriesOK(ops(k), entries[k])
        BY <2>1, EntriesFacts, Zenon DEF SearchInv
      <4>2. Len(entries[k]) \in Nat
        BY <4>1, Zenon DEF EntriesOK
      <4> QED
        BY <4>2 DEF Rest
    <3>5. EntryTried(ops(k), entries[k], {}, 1, {}, KvInit)
      BY <3>4, Zenon DEF EntryTried, TriedUpTo
    <3>6. CacheKept(k)
      BY <3>1, <3>3, <3>5, Zenon DEF CacheKept
    <3>7. OutcomeKept(k)
      <4>1. "running" # "true" /\ "running" # "false"
        OBVIOUS
      <4> QED
        BY <3>1, <4>1, Zenon DEF OutcomeKept
    <3> QED
      BY <3>6, <3>7
  <2> QED
    BY <2>1, <2>2, Zenon DEF CacheInv
\* A search that has ended stays as it is.
<1>EndedStays. ASSUME SearchInv, NEW k \in Keys, checkSingle(k), NEW j \in Keys, outcome[j] # "running"
               PROVE  outcome'[j] = outcome[j] /\ (Exhausted(j) => Exhausted(j)')
  <2> USE <1>EndedStays
  <2>1. j # k
    BY Zenon DEF checkSingle, AllLinearized, Killed, TryCall, Backtrack, Goes, Running
  <2>2. /\ UNCHANGED <<check, entries>> /\ Changes(cache, cache', k)
        /\ Changes(outcome, outcome', k)
    BY SingleChanges, Zenon
  <2>3. OverKeys(cache) /\ OverKeys(outcome)
    BY Zenon DEF SearchInv, AllOverKeys
  <2>4. cache'[j] = cache[j] /\ outcome'[j] = outcome[j]
    BY <2>1, <2>2, <2>3, OverKeysExcept
  <2>5. ops(j)' = ops(j) /\ entries'[j] = entries[j]
    BY <2>2, SameKeys, Zenon
  <2> QED
    BY <2>4, <2>5, Zenon DEF Exhausted
\* All results are in when there are as many as partitions.
<1>AllIn. ASSUME check \in Checks, NEW r \in SUBSET Keys, AllReceived(Cardinality(r)) PROVE r = Keys
  <2> USE <1>AllIn
  <2>1. history \in Seq(Operation)
    BY ChecksAssumption, Zenon DEF history
  <2>2. DOMAIN history = 1..Len(history) /\ Len(history) \in Nat
    BY <2>1
  <2>3. IsFiniteSet(Keys)
    <3> DEFINE F == [i \in 1..Len(history) |-> history[i].key]
    <3>1. Lists(F, Len(history), Keys)
      BY <2>2 DEF Lists, Keys
    <3> HIDE DEF F
    <3> QED
      BY <2>2, <3>1, Counting
  <2>4. Cardinality(r) >= Cardinality(Keys)
    BY Zenon DEF AllReceived
  <2> QED
    BY <2>3, <2>4, Counting, Zenon
\* Nothing is known at the start.
<1>StartPar. Init => ParInv
  BY DEF Init, ParInv
\* A step of a search keeps what checkParallel knows.
<1>ParSingle. ASSUME SearchInv, ParInv, NEW k \in Keys, checkSingle(k) PROVE ParInv'
  <2> USE <1>ParSingle
  <2>1. UNCHANGED <<check, verdict>>
    BY SingleChanges, Zenon
  <2>2. Keys' = Keys
    BY <2>1, SameKeys, Zenon
  <2>3. UNCHANGED <<check, pc, ok, timedOut, kill, received, result>>
    BY <2>1, Zenon DEF verdict
  <2>4. \A j \in Keys : outcome[j] # "running" =>
          outcome'[j] = outcome[j] /\ (Exhausted(j) => Exhausted(j)')
    BY <1>EndedStays, Zenon
  <2>5. "true" # "running"
    OBVIOUS
  <2>6. \A j \in Keys : /\ outcome[j] = "true" => outcome'[j] = "true"
                        /\ outcome[j] # "running" => outcome'[j] # "running"
                        /\ Fails(j) => Fails(j)'
    BY <2>4, <2>5, Zenon DEF Fails
  <2>7. \A j \in received : j \in Keys
    BY Zenon DEF ParInv
  <2> QED
    BY <2>2, <2>3, <2>6, <2>7, Zenon DEF ParInv
\* A step of checkParallel.
<1>ParParallel. ASSUME CacheInv, ParInv, checkParallel PROVE ParInv'
  <2> USE <1>ParParallel
  <2>1. UNCHANGED <<check, entries, search>>
    BY Zenon DEF checkParallel, Timeout, Return, Receive, Drain
  <2>2. Keys' = Keys /\ \A k : ops(k)' = ops(k)
    BY <2>1, SameKeys, Zenon
  <2>3. /\ \A k : outcome'[k] = outcome[k]
        /\ \A k \in Keys : Fails(k)' <=> Fails(k)
    BY <2>1, <2>2, Zenon DEF search, Fails, Exhausted
  <2>4. check \in Checks /\ check' = check /\ \A k \in Keys : OutcomeKept(k)
    BY <2>1, Zenon DEF CacheInv, SearchInv
  <2>5. /\ pc \in {"loop", "drain", "done"} /\ (pc = "loop" => ~kill /\ ~timedOut)
        /\ \A k \in received : k \in Keys /\ outcome[k] # "running"
        /\ ok /\ pc = "loop" => \A k \in received : outcome[k] = "true"
        /\ ok /\ pc # "loop" /\ ~timedOut => \A k \in Keys : outcome[k] = "true"
        /\ ~ok => \E k \in Keys : Fails(k)
        /\ check.verbose /\ kill => timedOut
        /\ result # "none" => pc = "done"
    BY Zenon DEF ParInv
  <2>6. received \in SUBSET Keys
    BY <2>5
  <2>7. "loop" # "drain" /\ "loop" # "done" /\ "drain" # "done"
    OBVIOUS
  <2>8. CASE Timeout
    <3>1. /\ pc = "loop" /\ timedOut' = TRUE /\ kill' = TRUE /\ pc' = "drain"
          /\ UNCHANGED <<ok, received, result>>
      BY <2>8, Zenon DEF Timeout
    <3>2. result = "none" /\ result # "Illegal" /\ result # "Ok" /\ result # "Unknown"
      BY <2>5, <2>7, <3>1
    <3> QED
      BY <2>2, <2>3, <2>4, <2>5, <2>7, <3>1, <3>2, Zenon DEF ParInv
  <2>9. CASE Return
    <3>1. /\ pc = "drain" /\ (check.verbose => AllReceived(Cardinality(received)))
          /\ result' = (IF ~ok THEN "Illegal" ELSE IF timedOut THEN "Unknown" ELSE "Ok")
          /\ pc' = "done" /\ UNCHANGED <<ok, timedOut, kill, received>>
      BY <2>9, Zenon DEF Return
    <3>2. check.verbose => received = Keys
      BY <2>4, <2>6, <3>1, <1>AllIn, Zenon
    <3>3. /\ result' = "Illegal" => ~ok
          /\ result' = "Ok" => ok /\ ~timedOut
          /\ result' = "Unknown" => timedOut
      BY <3>1
    <3> QED
      BY <2>2, <2>3, <2>4, <2>5, <2>7, <3>1, <3>2, <3>3, Zenon DEF ParInv
  <2>10. ASSUME NEW k \in Keys, Receive(k) PROVE ParInv'
    <3> DEFINE failed == ~ok' /\ ~check.verbose
    <3>1. /\ pc = "loop" /\ k \in Results /\ received' = received \cup {k}
          /\ ok' = (ok /\ outcome[k] = "true") /\ kill' = (kill \/ failed)
          /\ pc' = (IF failed \/ AllReceived(Cardinality(received')) THEN "drain" ELSE pc)
          /\ UNCHANGED <<timedOut, result>>
      BY <2>10, Zenon DEF Receive
    <3>2. outcome[k] # "running" /\ ~kill /\ ~timedOut
      BY <2>5, <3>1, Zenon DEF Results
    <3>3. result = "none" /\ result # "Illegal" /\ result # "Ok" /\ result # "Unknown"
      BY <2>5, <2>7, <3>1
    <3>4. outcome[k] # "true" => Fails(k)
      <4>1. outcome[k] \in {"running", "true", "false"} /\ (outcome[k] = "false" => kill \/ Exhausted(k))
        BY <2>4, Zenon DEF OutcomeKept
      <4> QED
        BY <3>2, <4>1, Zenon DEF Fails
    <3>5. /\ ok' <=> (ok /\ outcome[k] = "true") 
          /\ kill' <=> failed
      BY <3>1, <3>2, Zenon
    <3>6. received' \in SUBSET Keys
      BY <2>6, <3>1
    <3>7. ok' => \A j \in received' : outcome[j] = "true"
      BY <2>5, <3>1, <3>5
    <3>8. ok' /\ pc' # "loop" => \A j \in Keys : outcome[j] = "true"
      <4> SUFFICES ASSUME ok', pc' # "loop" PROVE \A j \in Keys : outcome[j] = "true"
        BY Zenon
      <4>1. AllReceived(Cardinality(received'))
        BY <3>1, Zenon
      <4>2. received' = Keys
        BY <2>4, <3>6, <4>1, <1>AllIn, Zenon
      <4> QED
        BY <3>7, <4>2, Zenon
    <3>9. /\ pc' \in {"loop", "drain", "done"} /\ pc' # "done"
          /\ pc' = "loop" => ~failed
      BY <2>7, <3>1, Zenon
    <3>10. \A j \in received' : j \in Keys /\ outcome[j] # "running"
      BY <2>5, <3>1, <3>2
    <3>11. ~ok' => \E j \in Keys : Fails(j)
      BY <2>5, <3>4, <3>5, Zenon
    <3> HIDE DEF failed
    <3>12. pc' = "loop" => ~kill' /\ ~timedOut'
      BY <3>1, <3>2, <3>5, <3>9, Zenon
    <3>13. check.verbose => ~kill'
      BY <3>5, Zenon DEF failed
    <3> QED
      BY <2>2, <2>3, <2>4, <3>1, <3>3, <3>7, <3>8, <3>9, <3>10, <3>11, <3>12, <3>13, Zenon DEF ParInv
  <2>11. ASSUME NEW k \in Keys, Drain(k) PROVE ParInv'
    <3>1. /\ pc = "drain" /\ k \in Results /\ received' = received \cup {k} /\ ok' = ok
          /\ UNCHANGED <<pc, timedOut, kill, result>>
      BY <2>11, Zenon DEF Drain, OkAfter
    <3>2. \A j \in received' : j \in Keys /\ outcome[j] # "running"
      BY <2>5, <3>1 DEF Results
    <3> QED
      BY <2>2, <2>3, <2>4, <2>7, <3>1, <3>2, Zenon DEF ParInv
  <2> QED
    BY <2>8, <2>9, <2>10, <2>11, Zenon DEF checkParallel
<1>1. Init => CacheInv /\ ParInv
  BY <1>StartCache, <1>StartPar, Zenon
<1>2. CacheInv /\ ParInv /\ [Next]_vars => (CacheInv /\ ParInv)'
  <2> SUFFICES ASSUME CacheInv, ParInv, [Next]_vars PROVE CacheInv' /\ ParInv'
    OBVIOUS
  <2>1. CacheInv'
    BY CacheStep, Zenon
  <2>2. CASE UNCHANGED vars
    <3>1. UNCHANGED <<check, entries, search, verdict>>
      BY <2>2, Zenon DEF vars
    <3>2. Keys' = Keys /\ \A k : ops(k)' = ops(k)
      BY <3>1, SameKeys, Zenon
    <3>3. \A k \in Keys : Fails(k)' <=> Fails(k)
      BY <3>1, <3>2, Zenon DEF search, Fails, Exhausted
    <3> QED
      BY <2>1, <3>1, <3>2, <3>3, Zenon DEF ParInv, search, verdict
  <2>3. ASSUME NEW k \in Keys, checkSingle(k) PROVE ParInv'
    BY <2>3, <1>ParSingle, Zenon DEF CacheInv
  <2> QED
    BY <2>1, <2>2, <2>3, <1>ParParallel, Zenon DEF Next
<1> QED
  BY <1>1, <1>2, PTL DEF Spec

----------------------------------------------------------------------------
(* A search that has been everywhere has missed no linearization.          *)

\* operation o may be the next after the operations L: all that returned before its
\* call are among them
MayFollow(es, L, o) ==
  \A x : \A m, n \in DOMAIN es :
    m < n /\ es[m] = ReturnEntry(x) /\ es[n] = CallEntry(o) => x \in L

\* No order of the operations explains a history with a partition that has none.
LEMMA NoneExplains ==
  \A k \in Keys, f \in Injections(Len(history), DOMAIN history) :
    /\ check \in Checks
    /\ EntriesKept(k)
    /\ Exhausted(k)
    /\ (\A i, j \in DOMAIN f : history[f[j]].ret <= history[f[i]].call => j < i)
    /\ Legal([i \in DOMAIN f |-> history[f[i]]])
    => FALSE
\* From a configuration the search is done with, every operation that may be the next
\* leads to a configuration of the cache.
<1>ClosedStep. ASSUME NEW h, NEW es, EntriesOK(h, es), NEW c, NEW L, NEW s, Closed(h, es, c, L, s),
                      NEW o \in DOMAIN h, o \notin L, MayFollow(es, L, o), StepOk(s, h[o])
               PROVE  <<L \cup {o}, StepState(s, h[o])>> \in c
  <2> USE <1>ClosedStep
  <2>1. PICK cn, rn : IsPairs(h, es, cn, rn)
    BY DEF EntriesOK
  <2>2. PICK i \in Rest(es, L) : es[i].kind = "return" /\ TriedUpTo(h, es, c, L, s, i)
    BY Zenon DEF Closed
  <2> DEFINE j == cn[o]
             x == es[i].id
  <2>3. /\ Len(es) \in Nat /\ DOMAIN es = 1..Len(es) /\ i \in 1..Len(es) /\ x \notin L
    BY Zenon DEF EntriesOK, Rest
  <2>4. /\ j \in 1..Len(es) /\ es[j] = CallEntry(o)
    BY <2>1 DEF IsPairs
  <2>5. es[j].id = o /\ es[j].kind = "call" /\ "call" # "return"
    BY <2>4, EntryFields, Zenon
  <2>6. j \in Rest(es, L)
    BY <2>4, <2>5 DEF Rest
  <2>7. es[i] = ReturnEntry(x)
    <3>1. x \in DOMAIN h /\ rn[x] = i
      BY <2>1, <2>2, <2>3, <2>5, Zenon DEF IsPairs
    <3> QED
      BY <2>1, <3>1, Zenon DEF IsPairs
  <2> HIDE DEF j, x
  <2>8. ~ (i < j)
    BY <2>3, <2>4, <2>7, Zenon DEF MayFollow
  <2>9. i # j
    BY <2>2, <2>5, Zenon
  <2>10. j < i
    BY <2>3, <2>4, <2>8, <2>9
  <2>11. Tried(h, es, c, L, s, j)
    BY <2>2, <2>6, <2>10, Zenon DEF TriedUpTo
  <2> QED
    BY <2>5, <2>11, Zenon DEF Tried
\* Places that are in order are the places of operations in order.
<1>ReturnedInTime. ASSUME NEW h \in Seq(Operation), NEW es, IsEntries(h, es), NEW m \in DOMAIN es,
                          NEW n \in DOMAIN es, m < n, NEW x, NEW o, es[m] = ReturnEntry(x), es[n] = CallEntry(o)
                   PROVE  x \in DOMAIN h /\ o \in DOMAIN h /\ h[x].ret <= h[o].call
  <2> USE <1>ReturnedInTime
  <2>1. es \in Seq(CallAndReturn(h)) /\ InOrder(h, es)
    BY Zenon DEF IsEntries
  <2>2. es[m].id \in DOMAIN h /\ es[n].id \in DOMAIN h
    <3>1. es[m] \in CallAndReturn(h) /\ es[n] \in CallAndReturn(h)
      BY <2>1
    <3> QED
      BY ONLY <3>1 DEF CallAndReturn, Ids
  <2>3. es[m].id = x /\ es[n].id = o
    BY EntryFields
  <2>4. Time(h, es[m]) <= Time(h, es[n])
    BY <2>1, Zenon DEF InOrder
  <2>5. Time(h, es[m]) = h[x].ret /\ Time(h, es[n]) = h[o].call
    BY EntryTime
  <2> QED
    BY <2>2, <2>3, <2>4, <2>5
<1>NoneExplains. ASSUME check \in Checks, NEW k \in Keys, EntriesKept(k), Exhausted(k),
                        NEW f \in Injections(Len(history), DOMAIN history),
                        \A i, j \in DOMAIN f : history[f[j]].ret <= history[f[i]].call => j < i,
                        Legal([i \in DOMAIN f |-> history[f[i]]])
                 PROVE  FALSE
  <2> USE <1>NoneExplains
  <2> DEFINE H == history
             h == ops(k)
             es == entries[k]
             n == Len(H)
             ca == cache[k]
  <2>1. /\ H \in Seq(Operation) /\ h \in Seq(Operation) /\ IsEntries(h, es) /\ EntriesOK(h, es)
    BY OpsFacts, EntriesFacts, Zenon DEF EntriesKept
  <2>2. n \in Nat /\ DOMAIN H = 1..n /\ DOMAIN h = 1..Len(h)
    BY <2>1
  <2>3. PICK p : IsPart(H, k, h, p, n)
    BY <2>1, PartitionOf, Zenon DEF ops
  <2>4. /\ f \in Injections(n, DOMAIN H)
        /\ \A i, j \in DOMAIN f : H[f[j]].ret <= H[f[i]].call => j < i
        /\ Legal([i \in DOMAIN f |-> H[f[i]]])
    BY Zenon
  <2> DEFINE q == [i \in DOMAIN f |-> H[f[i]]]
  <2> HIDE DEF H, h, es, n, ca
  <2>5. /\ f \in [1..n -> 1..n] /\ DOMAIN f = 1..n /\ f \in Injections(n, 1..n)
        /\ \A i, j \in 1..n : i # j => f[i] # f[j]
    BY <2>2, <2>4 DEF Injections
  <2>6. /\ q \in Seq(Operation) /\ Len(q) = n /\ \A d \in 1..n : q[d] = H[f[d]]
    <3>1. q = [d \in 1..n |-> H[f[d]]]
      BY <2>5, Zenon
    <3>2. \A d \in 1..n : H[f[d]] \in Operation
      BY <2>1, <2>2, <2>5
    <3> HIDE DEF q
    <3>3. q \in [1..n -> Operation] /\ \A d \in 1..n : q[d] = H[f[d]]
      BY <3>1, <3>2, Zenon
    <3> QED
      BY <2>2, <3>3
  <2>7. \A d \in 1..Len(q) : q[d].key \in Keys
    <3>1. \A i \in DOMAIN H : H[i].key \in Keys
      BY Zenon DEF Keys, H
    <3> QED
      BY <2>2, <2>5, <2>6, <3>1
  <2> HIDE DEF q
  <2>8. PICK s : StoreOf(q, s)
    BY <2>6, <2>7, StoreExists, Zenon
  <2>9. /\ s \in [0..n -> [Keys -> Seq(Nat)]] /\ s[0] = [x \in Keys |-> KvInit]
        /\ \A d \in 1..n : s[d] = [s[d - 1] EXCEPT ![q[d].key] = StepState(s[d - 1][q[d].key], q[d])]
        /\ \A d \in 1..n : StepOk(s[d - 1][q[d].key], q[d])
    BY <2>4, <2>6, <2>8, Zenon DEF StoreOf, q
  <2>10. /\ p \in [1..Len(h) -> 1..n] /\ \A x \in 1..Len(h) : h[x] = H[p[x]]
         /\ \A i \in 1..n : H[i].key = k <=> \E x \in 1..Len(h) : p[x] = i
         /\ \A x, y \in 1..Len(h) : x < y => p[x] < p[y]
         /\ Len(h) \in Nat
    <3>1. Len(h) \in Nat
      BY <2>1
    <3> QED
      BY <2>3, <3>1, Zenon DEF IsPart
  <2> DEFINE C(d) == {x \in 1..Len(h) : \E y \in 1..d : f[y] = p[x]}
             S(d) == s[d][k]
             P == {d \in 0..n : Closed(h, es, ca, C(d), S(d))}
  <2>11. 0 \in P
    <3>1. C(0) = {} /\ 0 \in 0..n
      BY <2>2
    <3>2. S(0) = KvInit
      BY <2>9, Zenon
    <3>3. Closed(h, es, ca, {}, KvInit)
      BY Zenon DEF Exhausted, h, es, ca
    <3> HIDE DEF C, S
    <3> QED
      BY <3>1, <3>2, <3>3, Zenon
  <2>12. ASSUME NEW d \in 1..n, d - 1 \in P PROVE d \in P
    <3>1. /\ Closed(h, es, ca, C(d - 1), S(d - 1)) /\ d \in 0..n /\ d - 1 \in 0..n /\ d \in 1..d
          /\ \A y \in 1..d : y = d \/ y \in 1..(d - 1)
          /\ \A y \in 1..(d - 1) : y \in 1..d /\ y # d /\ y \in 1..n
      BY <2>2, <2>12
    <3>2. s[d - 1] \in [Keys -> Seq(Nat)] /\ q[d].key \in Keys
      BY <2>6, <2>7, <2>9, <3>1, Zenon
    <3>3. f[d] \in 1..n /\ q[d] = H[f[d]]
      BY <2>5, <2>6
    <3>4. CASE H[f[d]].key # k
      <4>1. \A x \in 1..Len(h) : p[x] # f[d]
        BY <2>10, <3>3, <3>4, Zenon
      <4>2. C(d) = C(d - 1)
        BY <3>1, <4>1
      <4>3. S(d) = S(d - 1)
        <5>1. s[d] = [s[d - 1] EXCEPT ![q[d].key] = StepState(s[d - 1][q[d].key], q[d])]
          BY <2>9, Zenon
        <5>2. q[d].key # k
          BY <3>3, <3>4, Zenon
        <5> QED
          BY <3>2, <5>1, <5>2, Zenon
      <4> HIDE DEF C, S
      <4> QED
        BY <3>1, <4>2, <4>3, Zenon
    <3>5. CASE H[f[d]].key = k
      <4>1. PICK o \in 1..Len(h) : p[o] = f[d]
        BY <2>10, <3>3, <3>5, Zenon
      <4>2. h[o] = q[d] /\ q[d].key = k
        BY <2>10, <3>3, <3>5, <4>1, Zenon
      <4>3. S(d) = StepState(S(d - 1), h[o]) /\ StepOk(S(d - 1), h[o])
        <5>1. s[d] = [s[d - 1] EXCEPT ![k] = StepState(s[d - 1][k], h[o])]
          BY <2>9, <4>2, Zenon
        <5>2. s[d][k] = StepState(s[d - 1][k], h[o])
          BY <3>2, <5>1, Zenon
        <5> QED
          BY <2>9, <4>2, <5>2, Zenon
      <4>4. o \notin C(d - 1)
        BY <2>5, <3>1, <4>1
      <4>5. C(d) = C(d - 1) \cup {o}
        <5>1. \A x \in 1..Len(h) : p[x] = p[o] => x = o
          BY <2>10
        <5> QED
          BY <3>1, <4>1, <5>1, Zenon
      <4>6. MayFollow(es, C(d - 1), o)
        <5> SUFFICES ASSUME NEW x, NEW m \in DOMAIN es, NEW l \in DOMAIN es, m < l,
                            es[m] = ReturnEntry(x), es[l] = CallEntry(o)
                     PROVE  x \in C(d - 1)
          BY Zenon DEF MayFollow
        <5>1. x \in 1..Len(h) /\ h[x].ret <= h[o].call
          BY <2>1, <2>2, <1>ReturnedInTime, Zenon
        <5>2. p[x] \in 1..n
          BY <2>10, <5>1
        <5>3. PICK y \in 1..n : f[y] = p[x]
          BY <2>2, <2>5, <5>2, Pigeonhole
        <5>4. H[f[y]].ret <= H[f[d]].call
          BY <2>10, <4>1, <5>1, <5>3
        <5>5. y < d
          BY <2>4, <2>5, <5>4, Zenon
        <5>6. y \in 1..(d - 1)
          BY <2>2, <5>5
        <5> QED
          BY <5>1, <5>3, <5>6
      <4> HIDE DEF C, S, P
      <4>7. <<C(d), S(d)>> \in ca
        <5>1. o \in DOMAIN h
          BY <2>2
        <5>2. <<C(d - 1) \cup {o}, StepState(S(d - 1), h[o])>> \in ca
          BY <2>1, <3>1, <4>3, <4>4, <4>6, <5>1, <1>ClosedStep, Zenon
        <5> QED
          BY <4>3, <4>5, <5>2, Zenon
      <4>8. <<C(d), S(d)>>[1] = C(d) /\ <<C(d), S(d)>>[2] = S(d)
        OBVIOUS
      <4>9. Closed(h, es, ca, C(d), S(d))
        BY <4>7, <4>8, Zenon DEF Exhausted, h, es, ca
      <4> QED
        BY <3>1, <4>9, Zenon DEF P
    <3> QED
      BY <3>4, <3>5
  <2>13. n \in P
    <3> HIDE DEF P
    <3>1. \A d \in 1..n : d - 1 \in P => d \in P
      BY <2>12
    <3>2. n \in 0..n
      BY <2>2
    <3> QED
      BY <2>2, <2>11, <3>1, <3>2, Induct, Zenon
  <2>14. \A x \in 1..Len(h) : x \in C(n)
    <3>1. \A x \in 1..Len(h) : p[x] \in 1..n
      BY <2>10
    <3>a. \A y \in 1..n : \E i \in 1..n : f[i] = y
      BY <2>2, <2>5, Pigeonhole, ZenonT(30)
    <3>2. ASSUME NEW x \in 1..Len(h) PROVE \E y \in 1..n : f[y] = p[x]
      BY <3>a, <3>1, Zenon
    <3> QED
      BY <3>2
  <2> HIDE DEF C, S
  <2>15. Rest(es, C(n)) = {}
    <3>1. \A i \in 1..Len(es) : es[i].id \in DOMAIN h
      BY <2>1, Zenon DEF EntriesOK, IsPairs
    <3> QED
      BY <2>2, <2>14, <3>1 DEF Rest
  <2> QED
    BY <2>13, <2>15, Zenon DEF Closed
<1> QED
  BY <1>NoneExplains, Zenon

\* A partition without a linearization leaves none for the history.
LEMMA NoOrder ==
  ASSUME check \in Checks, NEW k \in Keys, EntriesKept(k), Exhausted(k)
  PROVE  ~Linearizable(LAMBDA r, c : r <= c)
BY NoneExplains, Zenon DEF Linearizable

\* Searches that have placed all operations have found a linearization of the history.
LEMMA OrderFound ==
  /\ SearchInv
  /\ (\A k \in Keys : Rest(entries[k], linearized[k]) = {})
  => Linearizable(LAMBDA r, c : r < c)
\* A search that has placed all operations has an order of those of its key.
<1>SearchOrders. ASSUME check \in Checks, NEW k \in Keys, EntriesKept(k), SearchKept(k),
                        Rest(entries[k], linearized[k]) = {}
                 PROVE  \E x : IsOrder(k, x)
  <2> USE <1>SearchOrders
  <2> DEFINE H == history
             n == Len(H)
             h == ops(k)
             es == entries[k]
             s == SeqOfCalls(k)
             N == Len(s)
             q == OpsOf(h, s)
             f == [d \in 0..Len(calls[k]) |-> After(calls[k], state[k], d)]
  <2>1. /\ H \in Seq(Operation) /\ h \in Seq(Operation) /\ IsEntries(h, es) /\ EntriesOK(h, es)
    BY OpsFacts, EntriesFacts, Zenon DEF EntriesKept
  <2>2. /\ IsPath(h, es, calls[k], state[k], s, f) /\ linearized[k] = {s[i] : i \in DOMAIN s}
    BY StackIsPrefix, Zenon
  <2>3. PICK p : IsPart(H, k, h, p, n)
    BY <2>1, PartitionOf, Zenon DEF ops
  <2>4. PICK cn, rn : IsPairs(h, es, cn, rn)
    BY <2>1, Zenon DEF EntriesOK
  <2> HIDE DEF H, n, h, es, s, N, q, f
  <2>5. /\ n \in Nat /\ DOMAIN h = 1..Len(h) /\ Len(h) \in Nat
        /\ Len(es) \in Nat /\ DOMAIN es = 1..Len(es)
    BY <2>1 DEF n, EntriesOK
  <2>6. /\ s \in Seq(DOMAIN h) /\ Len(s) = N /\ N = Len(calls[k]) /\ s \in Injections(N, DOMAIN h)
        /\ Respects(es, s) /\ Len(q) = N /\ Steps(q, f)
        /\ \A m \in 1..N : StepOk(f[m - 1], q[m])
    BY <2>2, Zenon DEF IsPath, N, q
  <2>7. /\ N \in Nat /\ DOMAIN s = 1..N /\ \A m \in 1..N : s[m] \in DOMAIN h
        /\ \A i, j \in 1..N : s[i] = s[j] => i = j
    <3>1. N \in Nat /\ DOMAIN s = 1..N /\ \A m \in 1..N : s[m] \in DOMAIN h
      BY <2>6
    <3> QED
      BY <2>6, <3>1, Zenon DEF Injections
  <2>8. /\ p \in [1..Len(h) -> 1..n] /\ \A x \in 1..Len(h) : h[x] = H[p[x]]
        /\ \A i \in 1..n : H[i].key = k <=> \E x \in 1..Len(h) : p[x] = i
        /\ \A x, y \in 1..Len(h) : x < y => p[x] < p[y]
    BY <2>3, Zenon DEF IsPart
  <2>9. \A x, y \in 1..Len(h) : p[x] = p[y] => x = y
    BY <2>5, <2>8
  <2>10. ASSUME NEW o \in DOMAIN h PROVE \E m \in 1..N : s[m] = o
    <3>1. cn[o] \in 1..Len(es) /\ es[cn[o]] = CallEntry(o)
      BY <2>4 DEF IsPairs
    <3>2. es[cn[o]].id = o
      BY <3>1, EntryFields
    <3>3. o \in linearized[k]
      BY <3>1, <3>2, Zenon DEF Rest, es
    <3>4. o \in {s[i] : i \in DOMAIN s}
      BY <2>2, <3>3, Zenon
    <3> QED
      BY <2>7, <3>4
  <2>11. \A i \in OpsWith(k) : \E m \in 1..N : p[s[m]] = i
    <3> TAKE i \in OpsWith(k)
    <3>1. i \in 1..n /\ H[i].key = k
      BY Zenon DEF OpsWith, n, H
    <3>2. PICK x \in 1..Len(h) : p[x] = i
      BY <2>8, <3>1, Zenon
    <3>3. PICK m \in 1..N : s[m] = x
      BY <2>5, <2>10, Zenon
    <3> QED
      BY <3>2, <3>3, Zenon
  <2> DEFINE rank == [i \in 1..n |-> CHOOSE m \in 1..N : p[s[m]] = i]
             x == [size |-> N, rank |-> rank, run |-> f]
  <2>12. \A i \in OpsWith(k) : i \in 1..n /\ rank[i] \in 1..N /\ p[s[rank[i]]] = i
    <3>1. \A i \in OpsWith(k) : i \in 1..n
      BY Zenon DEF OpsWith, n, H
    <3>2. \A i \in OpsWith(k) : rank[i] = CHOOSE m \in 1..N : p[s[m]] = i
      BY <3>1, Zenon
    <3> HIDE DEF rank
    <3> QED
      BY <2>11, <3>1, <3>2, ZenonT(30)
  <2>13. x.size = N /\ x.rank = rank /\ x.run = f
    BY Zenon
  <2> HIDE DEF rank, x
  <2>14. ASSUME NEW m \in 1..N PROVE \E i \in OpsWith(k) : rank[i] = m
    <3> DEFINE i == p[s[m]]
    <3>1. s[m] \in 1..Len(h)
      BY <2>5, <2>7, Zenon
    <3>2. i \in 1..n
      BY <2>8, <3>1
    <3>3. H[i].key = k
      BY <2>8, <3>1, <3>2, Zenon
    <3>4. i \in OpsWith(k)
      BY <3>2, <3>3, Zenon DEF OpsWith, n, H
    <3>5. rank[i] \in 1..N /\ p[s[rank[i]]] = p[s[m]]
      BY <2>12, <3>4, Zenon
    <3>6. s[rank[i]] \in 1..Len(h)
      BY <2>5, <2>7, <3>5, Zenon
    <3>7. rank[i] = m
      BY <2>7, <2>9, <3>1, <3>5, <3>6, Zenon
    <3> QED
      BY <3>4, <3>7, Zenon
  <2>15. \A i, j \in OpsWith(k) : rank[i] = rank[j] => i = j
    BY <2>12, Zenon
  <2>16. \A i \in OpsWith(k) : h[s[rank[i]]] = H[i] /\ s[rank[i]] \in DOMAIN h
    <3>1. \A i \in OpsWith(k) : s[rank[i]] \in DOMAIN h
      BY <2>7, <2>12, Zenon
    <3> QED
      BY <2>5, <2>8, <2>12, <3>1, ZenonT(30)
  <2>17. ASSUME NEW i \in OpsWith(k), NEW j \in OpsWith(k), H[i].ret < H[j].call
         PROVE  rank[i] < rank[j]
    <3> DEFINE o == s[rank[i]]
               u == s[rank[j]]
    <3>1. o \in DOMAIN h /\ u \in DOMAIN h /\ h[o].ret < h[u].call
      BY <2>16, <2>17, Zenon
    <3> HIDE DEF o, u
    <3>2. /\ cn[u] \in 1..Len(es) /\ rn[o] \in 1..Len(es) /\ es[cn[u]] = CallEntry(u)
          /\ es[rn[o]] = ReturnEntry(o)
      BY <2>4, <3>1 DEF IsPairs
    <3>3. Time(h, es[rn[o]]) < Time(h, es[cn[u]])
      BY <3>1, <3>2, EntryTime
    <3>4. rn[o] < cn[u]
      BY <2>1, <3>2, <3>3, EarlierBefore, Zenon
    <3>5. rank[j] \in 1..N /\ rank[i] \in 1..N
      BY <2>12, Zenon
    <3>6. \E y \in 1..(rank[j] - 1) : s[y] = o
      <4>1. rank[j] \in DOMAIN s /\ rn[o] \in DOMAIN es /\ cn[u] \in DOMAIN es
        BY <2>5, <2>7, <3>2, <3>5, Zenon
      <4>2. es[rn[o]] = ReturnEntry(o) /\ es[cn[u]] = CallEntry(s[rank[j]])
        BY <3>2, Zenon DEF u
      <4> QED
        BY <2>6, <3>4, <4>1, <4>2, Zenon DEF Respects
    <3>7. PICK y \in 1..(rank[j] - 1) : s[y] = s[rank[i]]
      BY <3>6, Zenon DEF o
    <3>8. y \in 1..N /\ y < rank[j]
      BY <2>7, <3>5
    <3> QED
      BY <2>7, <3>5, <3>7, <3>8, Zenon
  <2>18. ASSUME NEW i \in OpsWith(k)
         PROVE  StepOk(f[rank[i] - 1], H[i]) /\ f[rank[i]] = StepState(f[rank[i] - 1], H[i])
    <3>1. rank[i] \in 1..N
      BY <2>12, Zenon
    <3>2. q[rank[i]] = H[i]
      BY <2>7, <2>16, <3>1, Zenon DEF q, OpsOf
    <3> QED
      BY <2>6, <3>1, <3>2, Zenon DEF Steps
  <2>19. f[0] = KvInit
    BY <2>6, Zenon DEF Steps
  <2>20. IsOrder(k, x)
    BY <2>7, <2>12, <2>13, <2>14, <2>15, <2>17, <2>18, <2>19, Zenon DEF IsOrder, H
  <2> QED
    BY <2>20, Zenon
<1>OrderFound. ASSUME SearchInv, \A k \in Keys : Rest(entries[k], linearized[k]) = {}
               PROVE  Linearizable(LAMBDA r, c : r < c)
  <2> USE <1>OrderFound
  <2>1. check \in Checks /\ \A k \in Keys : EntriesKept(k) /\ SearchKept(k)
    BY Zenon DEF SearchInv
  <2>2. \A k \in Keys : \E x : IsOrder(k, x)
    BY <2>1, <1>SearchOrders, Zenon
  <2> DEFINE F == [k \in Keys |-> CHOOSE x : IsOrder(k, x)]
  <2>3. \A k \in Keys : IsOrder(k, F[k])
    BY <2>2, Zenon
  <2> HIDE DEF F
  <2>4. history \in Seq(Operation) /\ AllReturn(history)
    BY <2>1, ChecksAssumption, Zenon DEF history, AllReturn
  <2>5. \E f \in Injections(Len(history), DOMAIN history) :
          /\ \A i, j \in DOMAIN f : history[f[j]].ret < history[f[i]].call => j < i
          /\ Legal([i \in DOMAIN f |-> history[f[i]]])
    BY <2>1, <2>3, <2>4, Locality, Zenon
  <2> QED
    BY <2>5, Zenon DEF Linearizable
<1> QED
  BY <1>OrderFound, Zenon

\* The verdict follows from what checkParallel and the searches know.
LEMMA VerdictFollows == CacheInv /\ ParInv => VerdictIsRight
<1> SUFFICES ASSUME CacheInv, ParInv PROVE VerdictIsRight
  OBVIOUS
<1>1. /\ SearchInv /\ check \in Checks
      /\ \A k \in Keys : EntriesKept(k) /\ OutcomeKept(k)
  BY Zenon DEF CacheInv, SearchInv
<1>2. "done" # "loop" /\ "Ok" # "none"
  OBVIOUS
<1>3. ASSUME result = "Ok" PROVE Linearizable(LAMBDA r, c : r < c)
  <2>1. \A k \in Keys : outcome[k] = "true"
    BY <1>2, <1>3, Zenon DEF ParInv
  <2>2. \A k \in Keys : Rest(entries[k], linearized[k]) = {}
    BY <1>1, <2>1, Zenon DEF OutcomeKept
  <2> QED
    BY <1>1, <2>2, OrderFound, Zenon
<1>4. ASSUME result = "Illegal" PROVE ~Linearizable(LAMBDA r, c : r <= c)
  <2>1. PICK k \in Keys : Exhausted(k)
    BY <1>4, Zenon DEF ParInv, Fails
  <2> QED
    BY <1>1, <2>1, NoOrder, Zenon
<1>5. result = "Unknown" => timedOut
  BY Zenon DEF ParInv
<1> QED
  BY <1>3, <1>4, <1>5, Zenon DEF VerdictIsRight

\* The verdict of checkParallel is right: Ok only for a history that is linearizable on
\* the whole store, Illegal only for one that is not, Unknown only after the timeout.
THEOREM RightVerdict == Spec => []VerdictIsRight
BY ParInvariant, VerdictFollows, PTL

============================================================================
