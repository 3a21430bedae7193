--------------------------- MODULE Listing_proofs ---------------------------
(***************************************************************************)
(* Lemmas about data that the proofs of the components share: induction    *)
(* and recursion over the numbers, with sets and functions in the place of *)
(* predicates and operators, and what the operators of Listing are.        *)
(***************************************************************************)
EXTENDS Listing, SequencesExt, FiniteSetsExt, FiniteSetTheorems, WellFoundedInduction, TLAPS

\* Induction: a set that has 0 and with each number the next one has them all.
LEMMA Inductive ==
    ASSUME NEW S, 0 \in S, \A n \in Nat : n \in S => n + 1 \in S
    PROVE  Nat \subseteq S
  <1> SUFFICES ASSUME NEW k \in Nat, k \notin S PROVE FALSE
    OBVIOUS
  <1> DEFINE left == Nat \ S
  <1>1. PICK n \in left : \A m \in left : ~(<<m, n>> \in OpToRel(<, Nat))
    <2>1. left \subseteq Nat /\ left # {}
      OBVIOUS
    <2> HIDE DEF left
    <2> QED  BY <2>1, NatLessThanWellFounded, WFMin
  <1>2. n \in Nat /\ n \notin S /\ n # 0
    OBVIOUS
  <1>3. n - 1 \in Nat /\ n - 1 + 1 = n /\ n - 1 < n
    BY <1>2
  <1>4. n - 1 \in left
    BY <1>2, <1>3
  <1>5. <<n - 1, n>> \in OpToRel(<, Nat)
    BY <1>2, <1>3 DEF OpToRel
  <1> QED  BY <1>1, <1>4, <1>5

\* The same up to a bound.
LEMMA InductiveUpTo ==
    ASSUME NEW N \in Nat, NEW S, 0 \in S, \A n \in 0 .. N : n < N /\ n \in S => n + 1 \in S
    PROVE  0 .. N \subseteq S
  <1> DEFINE all == {n \in Nat : n <= N => n \in S}
  <1>1. Nat \subseteq all
    <2>1. 0 \in all
      OBVIOUS
    <2>2. \A n \in Nat : n \in all => n + 1 \in all
      OBVIOUS
    <2> HIDE DEF all
    <2> QED  BY <2>1, <2>2, Inductive
  <1> QED  BY <1>1

\* What a recursion along steps, each a function on T, goes through.
Runs(T, base, N, step) ==
    {f \in [0 .. N -> T] : f[0] = base /\ \A i \in 1 .. N : f[i] = step[i][f[i - 1]]}
IsSteps(T, N, step) == step \in [1 .. N -> [T -> T]]

LEMMA StepsExist ==
    ASSUME NEW T, NEW base \in T, NEW N \in Nat, NEW step, IsSteps(T, N, step)
    PROVE  \E f : f \in Runs(T, base, N, step)
  <1> DEFINE Upto(n, f) == f[0] = base /\ \A i \in 1 .. n : f[i] = step[i][f[i - 1]]
             S == {n \in 0 .. N : \E f \in [0 .. n -> T] : Upto(n, f)}
  <1>1. 0 \in S
    <2> DEFINE f == [i \in 0 .. 0 |-> base]
    <2>1. f \in [0 .. 0 -> T] /\ f[0] = base
      OBVIOUS
    <2>2. \A i \in 1 .. 0 : FALSE
      OBVIOUS
    <2> HIDE DEF f
    <2>3. Upto(0, f)
      BY <2>1, <2>2
    <2> HIDE DEF Upto
    <2> QED  BY <2>1, <2>3
  <1>2. ASSUME NEW n \in 0 .. N, n < N, n \in S
        PROVE  n + 1 \in S
    <2>1. PICK f \in [0 .. n -> T] : Upto(n, f)
      BY <1>2
    <2> DEFINE g == [i \in 0 .. n + 1 |-> IF i = n + 1 THEN step[n + 1][f[n]] ELSE f[i]]
    <2>2. g \in [0 .. n + 1 -> T]
      <3>1. step[n + 1] \in [T -> T] /\ f[n] \in T
        BY <1>2 DEF IsSteps
      <3> QED  BY <3>1
    <2>3. g[0] = base
      BY <2>1
    <2>4. ASSUME NEW i \in 1 .. n + 1
          PROVE  g[i] = step[i][g[i - 1]]
      <3>1. CASE i = n + 1
        BY <3>1
      <3>2. CASE i # n + 1
        BY <2>1, <3>2
      <3> QED  BY <3>1, <3>2
    <2>5. n + 1 \in 0 .. N
      BY <1>2
    <2> HIDE DEF g
    <2> QED  BY <2>2, <2>3, <2>4, <2>5
  <1>3. 0 .. N \subseteq S
    <2> HIDE DEF S
    <2> QED  BY <1>1, <1>2, InductiveUpTo
  <1>4. PICK f \in [0 .. N -> T] : Upto(N, f)
    BY <1>3
  <1> QED  BY <1>4 DEF Runs

\* A recursion that makes these steps as long as it is in T stays in T.
LEMMA StepsType ==
    ASSUME NEW T, NEW N \in Nat, NEW step, IsSteps(T, N, step), NEW F, F[0] \in T,
           \A n \in 1 .. N : F[n - 1] \in T => F[n] = step[n][F[n - 1]]
    PROVE  \A n \in 0 .. N : F[n] \in T
  <1> DEFINE S == {n \in 0 .. N : F[n] \in T}
  <1>1. 0 \in S
    OBVIOUS
  <1>2. ASSUME NEW n \in 0 .. N, n < N, n \in S
        PROVE  n + 1 \in S
    <2>1. n + 1 \in 1 .. N /\ (n + 1) - 1 = n /\ n + 1 \in 0 .. N
      BY <1>2
    <2>2. F[n] \in T /\ F[n + 1] = step[n + 1][F[n]]
      BY <1>2, <2>1
    <2>3. step[n + 1] \in [T -> T]
      BY <2>1 DEF IsSteps
    <2> QED  BY <2>1, <2>2, <2>3
  <1>3. 0 .. N \subseteq S
    <2> HIDE DEF S
    <2> QED  BY <1>1, <1>2, InductiveUpTo
  <1> QED  BY <1>3

----------------------------------------------------------------------------
(* Keep *)

\* The sequence that Keep builds grows by the next element if it is in S.
Keeps(X, s, S, f) ==
    /\ f \in [0 .. Len(s) -> Seq(X)]
    /\ Keep(s, S) = f[Len(s)]
    /\ f[0] = <<>>
    /\ \A n \in 1 .. Len(s) : f[n] = IF s[n] \in S THEN Append(f[n - 1], s[n]) ELSE f[n - 1]

LEMMA KeepRecursion ==
    ASSUME NEW X, NEW s \in Seq(X), NEW S
    PROVE  \E f : Keeps(X, s, S, f)
  <1> DEFINE N == Len(s)
             T == Seq(X)
             step == [n \in 1 .. N |-> [r \in T |-> IF s[n] \in S THEN Append(r, s[n]) ELSE r]]
             next(n, r) == IF n = 0 THEN <<>> ELSE IF s[n] \in S THEN Append(r, s[n]) ELSE r
             F == CHOOSE h : h = [n \in 0 .. N |-> next(n, h[n - 1])]
  <1>1. N \in Nat /\ (\A n \in 1 .. N : s[n] \in X) /\ <<>> \in T
    OBVIOUS
  <1>2. IsSteps(T, N, step)
    BY <1>1 DEF IsSteps
  <1>3. \A n \in 1 .. N, r \in T : step[n][r] = next(n, r)
    BY <1>1
  <1>4. PICK f : f \in Runs(T, <<>>, N, step)
    <2> HIDE DEF step, N, T
    <2> QED  BY <1>1, <1>2, StepsExist
  <1>5. f = [n \in 0 .. N |-> next(n, f[n - 1])]
    <2> HIDE DEF step, T
    <2>1. f \in [0 .. N -> T] /\ f[0] = <<>> /\ \A n \in 1 .. N : f[n] = step[n][f[n - 1]]
      BY <1>4 DEF Runs
    <2>2. ASSUME NEW n \in 0 .. N
          PROVE  f[n] = next(n, f[n - 1])
      <3>1. n = 0 \/ (n \in 1 .. N /\ n - 1 \in 0 .. N)
        BY <1>1
      <3>2. CASE n = 0
        BY <2>1, <3>2
      <3>3. CASE n \in 1 .. N /\ n - 1 \in 0 .. N
        BY <1>3, <2>1, <3>3
      <3> QED  BY <3>1, <3>2, <3>3
    <2> HIDE DEF next
    <2> QED  BY <2>1, <2>2
  <1>6. F = [n \in 0 .. N |-> next(n, F[n - 1])]
    <2> HIDE DEF next
    <2> QED  BY <1>5
  <1>7. Keep(s, S) = F[N]
    BY DEF Keep
  <1> HIDE DEF F
  <1>8. F[0] = <<>> /\ \A n \in 1 .. N : F[n] = next(n, F[n - 1])
    <2>1. \A n \in 0 .. N : F[n] = next(n, F[n - 1])
      <3> HIDE DEF next, N
      <3> QED  BY <1>6
    <2>2. 0 \in 0 .. N /\ \A n \in 1 .. N : n \in 0 .. N
      BY <1>1
    <2>3. \A r : next(0, r) = <<>>
      OBVIOUS
    <2> HIDE DEF next, N
    <2> QED  BY <2>1, <2>2, <2>3
  <1>9. \A n \in 0 .. N : F[n] \in T
    <2>1. \A n \in 1 .. N : F[n - 1] \in T => F[n] = step[n][F[n - 1]]
      <3> HIDE DEF step, next, T
      <3> QED  BY <1>3, <1>8
    <2>2. F[0] \in T
      BY <1>1, <1>8
    <2> HIDE DEF step, T, N
    <2> QED  BY <1>1, <1>2, <2>1, <2>2, StepsType
  <1>10. F \in [0 .. N -> T]
    <2>1. F = [n \in 0 .. N |-> F[n]]
      BY <1>6
    <2> HIDE DEF T
    <2> QED  BY <1>9, <2>1
  <1>11. \A n \in 1 .. N : F[n] = IF s[n] \in S THEN Append(F[n - 1], s[n]) ELSE F[n - 1]
    BY <1>1, <1>8
  <1> QED  BY <1>7, <1>8, <1>10, <1>11 DEF Keeps

\* Where the elements that Keep takes stand in s.
IsPlaces(s, S, n, r, place) ==
    /\ Len(r) <= n
    /\ place \in [1 .. Len(r) -> 1 .. n]
    /\ \A i \in 1 .. Len(r) : r[i] = s[place[i]] /\ r[i] \in S
    /\ \A i, j \in 1 .. Len(r) : i < j => place[i] < place[j]
    /\ \A k \in 1 .. n : s[k] \in S => \E i \in 1 .. Len(r) : place[i] = k

LEMMA PlacesGrow ==
    ASSUME NEW X, NEW s \in Seq(X), NEW S, NEW n \in 0 .. Len(s), n < Len(s), NEW r \in Seq(X),
           NEW place, IsPlaces(s, S, n, r, place)
    PROVE  /\ s[n + 1] \notin S => IsPlaces(s, S, n + 1, r, place)
           /\ s[n + 1] \in S =>
                IsPlaces(s, S, n + 1, Append(r, s[n + 1]),
                         [i \in 1 .. Len(r) + 1 |-> IF i = Len(r) + 1 THEN n + 1 ELSE place[i]])
  <1>1. Len(r) \in Nat /\ n \in Nat /\ s[n + 1] \in X
    OBVIOUS
  <1>2. ASSUME s[n + 1] \notin S
        PROVE  IsPlaces(s, S, n + 1, r, place)
    BY <1>1, <1>2 DEF IsPlaces
  <1>3. ASSUME s[n + 1] \in S
        PROVE  IsPlaces(s, S, n + 1, Append(r, s[n + 1]),
                        [i \in 1 .. Len(r) + 1 |-> IF i = Len(r) + 1 THEN n + 1 ELSE place[i]])
    <2> DEFINE l == Len(r)
               q == Append(r, s[n + 1])
               p == [i \in 1 .. l + 1 |-> IF i = l + 1 THEN n + 1 ELSE place[i]]
    <2>1. Len(q) = l + 1 /\ q[l + 1] = s[n + 1] /\ \A i \in 1 .. l : q[i] = r[i]
      BY <1>1
    <2>2. p[l + 1] = n + 1 /\ \A i \in 1 .. l : p[i] = place[i] /\ p[i] \in 1 .. n
      <3>1. l + 1 \in 1 .. l + 1 /\ \A i \in 1 .. l : i \in 1 .. l + 1 /\ i # l + 1
        BY <1>1
      <3>2. \A i \in 1 .. l : place[i] \in 1 .. n
        BY DEF IsPlaces
      <3> HIDE DEF l, q
      <3> QED  BY ONLY <3>1, <3>2 DEF p
    <2>3. \A i \in 1 .. l + 1 : i \in 1 .. l \/ i = l + 1
      BY <1>1
    <2>4. p \in [1 .. l + 1 -> 1 .. n + 1]
      BY <1>1 DEF IsPlaces
    <2>5. \A i \in 1 .. l + 1 : q[i] = s[p[i]] /\ q[i] \in S
      BY <1>3, <2>1, <2>2, <2>3 DEF IsPlaces
    <2> HIDE DEF p, q
    <2>6. \A i, j \in 1 .. l + 1 : i < j => p[i] < p[j]
      <3> SUFFICES ASSUME NEW i \in 1 .. l + 1, NEW j \in 1 .. l + 1, i < j PROVE p[i] < p[j]
        OBVIOUS
      <3>1. i \in 1 .. l
        BY <1>1
      <3>2. CASE j \in 1 .. l
        <4>1. place[i] < place[j]
          BY <3>1, <3>2 DEF IsPlaces
        <4> QED  BY <2>2, <3>1, <3>2, <4>1
      <3>3. CASE j = l + 1
        BY <2>2, <3>1, <3>3
      <3> QED  BY <2>3, <3>2, <3>3
    <2>7. \A k \in 1 .. n + 1 : s[k] \in S => \E i \in 1 .. l + 1 : p[i] = k
      <3> SUFFICES ASSUME NEW k \in 1 .. n + 1, s[k] \in S
                   PROVE  \E i \in 1 .. l + 1 : p[i] = k
        OBVIOUS
      <3>1. CASE k = n + 1
        BY <1>1, <2>2, <3>1
      <3>2. CASE k # n + 1
        <4>1. PICK i \in 1 .. l : place[i] = k
          BY <1>1, <3>2 DEF IsPlaces
        <4> QED  BY <1>1, <2>2, <4>1
      <3> QED  BY <3>1, <3>2
    <2>8. IsPlaces(s, S, n + 1, q, p)
      <3>1. Len(q) <= n + 1
        BY <1>1, <2>1 DEF IsPlaces
      <3> QED  BY <3>1, <2>1, <2>4, <2>5, <2>6, <2>7 DEF IsPlaces
    <2> QED  BY <2>8 DEF p, q
  <1> QED  BY <1>2, <1>3

\* What Keep returns: the elements of s in S, each once for each of its places, in order.
LEMMA KeepPlaces ==
    ASSUME NEW X, NEW s \in Seq(X), NEW S
    PROVE  /\ Keep(s, S) \in Seq(X)
           /\ \E place : IsPlaces(s, S, Len(s), Keep(s, S), place)
  <1>1. PICK f : Keeps(X, s, S, f)
    BY KeepRecursion
  <1> DEFINE N == Len(s)
             good == {n \in 0 .. N : \E place : IsPlaces(s, S, n, f[n], place)}
  <1>2. N \in Nat /\ f \in [0 .. N -> Seq(X)]
    BY <1>1 DEF Keeps
  <1>3. 0 \in good
    <2>1. f[0] = <<>> /\ Len(f[0]) = 0
      BY <1>1 DEF Keeps
    <2>2. IsPlaces(s, S, 0, f[0], [i \in 1 .. 0 |-> i])
      BY <2>1 DEF IsPlaces
    <2> QED  BY <1>2, <2>2
  <1>4. ASSUME NEW n \in 0 .. N, n < N, n \in good
        PROVE  n + 1 \in good
    <2>1. PICK place : IsPlaces(s, S, n, f[n], place)
      BY <1>4
    <2>2. n + 1 \in 1 .. N /\ (n + 1) - 1 = n /\ n + 1 \in 0 .. N /\ f[n] \in Seq(X)
      BY <1>2, <1>4
    <2>3. f[n + 1] = IF s[n + 1] \in S THEN Append(f[n], s[n + 1]) ELSE f[n]
      BY <1>1, <2>2 DEF Keeps
    <2>4. \E q : IsPlaces(s, S, n + 1, f[n + 1], q)
      <3>1. CASE s[n + 1] \in S
        <4> DEFINE r == f[n]
                   p == [i \in 1 .. Len(r) + 1 |-> IF i = Len(r) + 1 THEN n + 1 ELSE place[i]]
        <4>1. r \in Seq(X) /\ IsPlaces(s, S, n, r, place) /\ f[n + 1] = Append(r, s[n + 1])
          BY <2>1, <2>2, <2>3, <3>1
        <4> HIDE DEF r
        <4>2. IsPlaces(s, S, n + 1, Append(r, s[n + 1]), p)
          BY <1>4, <4>1, <3>1, PlacesGrow
        <4> HIDE DEF p
        <4> QED  BY <4>1, <4>2
      <3>2. CASE s[n + 1] \notin S
        BY <1>4, <2>1, <2>2, <2>3, <3>2, PlacesGrow
      <3> QED  BY <3>1, <3>2
    <2> QED  BY <2>2, <2>4
  <1>5. 0 .. N \subseteq good
    <2> HIDE DEF good, N
    <2> QED  BY <1>2, <1>3, <1>4, InductiveUpTo
  <1>6. N \in good
    BY <1>2, <1>5
  <1> QED  BY <1>1, <1>2, <1>6 DEF Keeps

----------------------------------------------------------------------------
(* Sequences and finite sets *)

IsSeq(s) == s \in Seq(ToSet(s))

LEMMA SeqIs ==
    ASSUME NEW X, NEW s \in Seq(X)
    PROVE  IsSeq(s) /\ ToSet(s) \subseteq X
  BY DEF IsSeq, ToSet

LEMMA BuiltSeq ==
    ASSUME NEW n \in Nat, NEW s, s = [i \in 1 .. n |-> s[i]]
    PROVE  IsSeq(s) /\ Len(s) = n
  <1> DEFINE X == {s[i] : i \in 1 .. n}
  <1>1. \A i \in 1 .. n : s[i] \in X
    OBVIOUS
  <1>2. s \in [1 .. n -> X]
    <2> HIDE DEF X
    <2> QED  BY <1>1
  <1> HIDE DEF X
  <1>3. s \in Seq(X) /\ Len(s) = n
    BY <1>2
  <1> QED  BY <1>3, SeqIs

LEMMA SeqDomain ==
    ASSUME NEW s, IsSeq(s)
    PROVE  Len(s) \in Nat /\ DOMAIN s = 1 .. Len(s) /\ s = [i \in 1 .. Len(s) |-> s[i]]
           /\ \A i \in 1 .. Len(s) : s[i] \in ToSet(s)
  <1> DEFINE X == ToSet(s)
  <1>1. s \in Seq(X)
    BY DEF IsSeq
  <1> HIDE DEF X
  <1>2. Len(s) \in Nat /\ DOMAIN s = 1 .. Len(s) /\ s = [i \in 1 .. Len(s) |-> s[i]]
        /\ \A i \in 1 .. Len(s) : s[i] \in X
    BY <1>1
  <1> QED  BY <1>2 DEF X

LEMMA ImageFinite ==
    ASSUME NEW A, IsFiniteSet(A), NEW g, DOMAIN g = A
    PROVE  IsFiniteSet({g[x] : x \in A})
  <1> DEFINE B == {g[x] : x \in A}
             f == [x \in A |-> g[x]]
  <1>1. f \in Surjection(A, B)
    BY DEF Surjection
  <1> HIDE DEF f, B
  <1> QED  BY <1>1, FS_Surjection DEF B

LEMMA ValuesFinite ==
    ASSUME NEW s, IsSeq(s)
    PROVE  IsFiniteSet(ToSet(s)) /\ IsFiniteSet(DOMAIN s)
  <1>1. Len(s) \in Nat /\ DOMAIN s = 1 .. Len(s)
    BY SeqDomain
  <1>2. IsFiniteSet(1 .. Len(s))
    BY <1>1, FS_Interval
  <1> QED  BY <1>1, <1>2, ImageFinite DEF ToSet

\* A set of numbers up to a bound has a largest one.
LEMMA BoundedMax ==
    ASSUME NEW N \in Nat, NEW A \in SUBSET (0 .. N), A # {}
    PROVE  Max(A) \in A /\ \A y \in A : y <= Max(A)
  <1> DEFINE Largest(B) == \E x \in B : \A y \in B : y <= x
             S == {n \in 0 .. N : \A B \in SUBSET (0 .. n) : B = {} \/ Largest(B)}
  <1>1. 0 \in S
    BY DEF Largest
  <1>2. ASSUME NEW n \in 0 .. N, n < N, n \in S
        PROVE  n + 1 \in S
    <2>1. n + 1 \in 0 .. N /\ \A m \in 0 .. n + 1 : m = n + 1 \/ m \in 0 .. n
      BY <1>2
    <2>2. ASSUME NEW B \in SUBSET (0 .. n + 1)
          PROVE  B = {} \/ Largest(B)
      <3>1. CASE n + 1 \in B
        BY <2>1, <3>1
      <3>2. CASE n + 1 \notin B
        BY <1>2, <2>1, <3>2
      <3> QED  BY <3>1, <3>2
    <2> QED  BY <2>1, <2>2
  <1>3. Largest(A)
    <2>1. 0 .. N \subseteq S
      <3> HIDE DEF S
      <3> QED  BY <1>1, <1>2, InductiveUpTo
    <2>2. N \in S
      <3> HIDE DEF S
      <3> QED  BY <2>1
    <2> HIDE DEF Largest
    <2> QED  BY <2>2
  <1> QED  BY <1>3 DEF Max

----------------------------------------------------------------------------
(* Ascending *)

\* A finite set of numbers is listed upwards, each number once.
LEMMA AscendingIs ==
    ASSUME NEW A \in SUBSET Nat, IsFiniteSet(A)
    PROVE  /\ Ascending(A) \in [1 .. Cardinality(A) -> A] /\ Cardinality(A) \in Nat
           /\ \A x \in A : \E i \in 1 .. Cardinality(A) : Ascending(A)[i] = x
           /\ \A i, j \in 1 .. Cardinality(A) : i < j => Ascending(A)[i] < Ascending(A)[j]
  <1> DEFINE n == Cardinality(A)
             below(x) == {y \in A : y < x}
             rank == [x \in A |-> Cardinality(below(x))]
             R == {rank[x] : x \in A}
             s == Ascending(A)
  <1>1. n \in Nat
    BY FS_CardinalityType
  <1>2. ASSUME NEW x \in A
        PROVE  rank[x] \in Nat /\ rank[x] < n /\ IsFiniteSet(below(x))
    <2> DEFINE b == below(x)
    <2>1. b \in SUBSET A /\ b # A
      OBVIOUS
    <2>2. rank[x] = Cardinality(b)
      OBVIOUS
    <2> HIDE DEF b, rank
    <2>3. IsFiniteSet(b) /\ Cardinality(b) <= n /\ (n = Cardinality(b) => A = b)
      BY <2>1, FS_Subset
    <2>4. Cardinality(b) \in Nat
      BY <2>3, FS_CardinalityType
    <2>5. rank[x] \in Nat /\ rank[x] < n
      <3> HIDE DEF n
      <3> QED  BY <1>1, <2>1, <2>2, <2>3, <2>4
    <2> QED  BY <2>3, <2>5 DEF b
  <1>3. ASSUME NEW x \in A, NEW y \in A, x < y
        PROVE  rank[x] < rank[y]
    <2> DEFINE b == below(x)
               c == below(y)
    <2>0. x \in Nat /\ y \in Nat
      OBVIOUS
    <2>1. b \in SUBSET c /\ b # c
      <3>1. \A z \in A : z < x => z < y
        BY <1>3, <2>0
      <3>2. x \in c /\ x \notin b
        BY <1>3, <2>0
      <3> QED  BY <3>1, <3>2
    <2>2. rank[x] = Cardinality(b) /\ rank[y] = Cardinality(c) /\ IsFiniteSet(c)
      BY <1>2
    <2>3. rank[x] \in Nat /\ rank[y] \in Nat
      BY <1>2
    <2> HIDE DEF b, c, rank
    <2>4. Cardinality(b) <= Cardinality(c) /\ (Cardinality(c) = Cardinality(b) => c = b)
      BY <2>1, <2>2, FS_Subset
    <2> QED  BY <2>1, <2>2, <2>3, <2>4
  <1>4. rank \in Bijection(A, R)
    <2>1. \A x, y \in A : rank[x] = rank[y] => x = y
      <3> SUFFICES ASSUME NEW x \in A, NEW y \in A, rank[x] = rank[y], x # y PROVE FALSE
        OBVIOUS
      <3>1. x < y \/ y < x
        OBVIOUS
      <3>2. rank[x] \in Nat /\ rank[y] \in Nat
        BY <1>2
      <3> HIDE DEF rank
      <3> QED  BY <1>3, <3>1, <3>2
    <2>2. rank \in [A -> R] /\ \A r \in R : \E x \in A : rank[x] = r
      OBVIOUS
    <2> HIDE DEF rank, R
    <2>3. rank \in Injection(A, R)
      BY <2>1, <2>2 DEF Injection, IsInjective
    <2>4. rank \in Surjection(A, R)
      BY <2>2 DEF Surjection
    <2> QED  BY <2>3, <2>4 DEF Bijection
  <1>5. R = 0 .. n - 1
    <2>1. IsFiniteSet(R) /\ Cardinality(R) = n
      <3> HIDE DEF rank, R
      <3>1. ExistsBijection(A, R)
        BY <1>4 DEF ExistsBijection
      <3> QED  BY <3>1, FS_Bijection
    <2>2. R \in SUBSET (0 .. n - 1)
      <3>1. \A x \in A : rank[x] \in 0 .. n - 1
        <4> TAKE x \in A
        <4>1. rank[x] \in Nat /\ rank[x] < n
          BY <1>2
        <4> HIDE DEF rank, n
        <4> QED  BY <1>1, <4>1
      <3> HIDE DEF rank, n
      <3> QED  BY <3>1
    <2>3. IsFiniteSet(0 .. n - 1) /\ Cardinality(0 .. n - 1) = n
      <3> HIDE DEF n
      <3> QED  BY <1>1, FS_Interval
    <2> HIDE DEF R, n
    <2> QED  BY <2>1, <2>2, <2>3, FS_Subset
  <1>6. \A i \in 1 .. n : s[i] \in A /\ rank[s[i]] = i - 1
    <2> SUFFICES ASSUME NEW i \in 1 .. n PROVE s[i] \in A /\ rank[s[i]] = i - 1
      OBVIOUS
    <2>1. i - 1 \in R
      <3> HIDE DEF R, n
      <3> QED  BY <1>1, <1>5
    <2>2. PICK x \in A : rank[x] = i - 1
      BY <2>1
    <2>3. Cardinality(below(x)) = i - 1
      BY <2>2
    <2>4. s[i] = CHOOSE z \in A : Cardinality(below(z)) = i - 1
      BY DEF Ascending
    <2> HIDE DEF s, n, R
    <2>5. s[i] \in A /\ Cardinality(below(s[i])) = i - 1
      <3> HIDE DEF below, rank
      <3> QED  BY <2>3, <2>4
    <2> QED  BY <2>5
  <1>7. s = [i \in 1 .. n |-> s[i]]
    <2> DEFINE pick(i) == CHOOSE x \in A : Cardinality({y \in A : y < x}) = i - 1
    <2>1. s = [i \in 1 .. n |-> pick(i)]
      BY DEF Ascending
    <2> HIDE DEF s, n, pick
    <2> QED  BY <2>1
  <1> HIDE DEF s, rank, R, below
  <1>8. s \in [1 .. n -> A]
    <2> HIDE DEF n
    <2> QED  BY <1>6, <1>7
  <1>9. \A x \in A : \E i \in 1 .. n : s[i] = x
    <2> TAKE x \in A
    <2>1. rank[x] \in 0 .. n - 1
      BY <1>1, <1>2
    <2> DEFINE i == rank[x] + 1
    <2>2. i \in 1 .. n /\ i - 1 = rank[x]
      <3> HIDE DEF n
      <3> QED  BY <1>1, <2>1
    <2>3. s[i] \in A /\ rank[s[i]] = rank[x]
      <3> HIDE DEF i, n
      <3> QED  BY <1>6, <2>2
    <2>4. s[i] = x
      <3> HIDE DEF i, n
      <3>1. rank \in Injection(A, R)
        BY <1>4 DEF Bijection
      <3> QED  BY <2>3, <3>1 DEF Injection, IsInjective
    <2> QED  BY <2>2, <2>4
  <1>10. \A i, j \in 1 .. n : i < j => s[i] < s[j]
    <2> SUFFICES ASSUME NEW i \in 1 .. n, NEW j \in 1 .. n, i < j, ~(s[i] < s[j]) PROVE FALSE
      OBVIOUS
    <2>1. s[i] \in A /\ s[j] \in A /\ rank[s[i]] = i - 1 /\ rank[s[j]] = j - 1
      BY <1>6
    <2> HIDE DEF n
    <2>2. s[j] < s[i] \/ s[j] = s[i]
      <3>1. s[i] \in Nat /\ s[j] \in Nat
        BY <2>1
      <3> QED  BY <3>1
    <2>3. s[j] < s[i] => rank[s[j]] < rank[s[i]]
      BY <1>3, <2>1
    <2>4. i \in Nat /\ j \in Nat
      BY <1>1
    <2> QED  BY <2>1, <2>2, <2>3, <2>4
  <1> QED  BY <1>1, <1>8, <1>9, <1>10 DEF s
=============================================================================
