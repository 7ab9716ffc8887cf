--------------------------- MODULE SequenceLemmas ---------------------------
(***************************************************************************)
(* Lemmas about short sequences and parts of sequences, about remainders,  *)
(* and about the folds of the community modules. FoldLeft is defined by    *)
(* recursion over sets of indices, with a CHOOSE: here it is shown that    *)
(* the recursion has a solution, by induction over the naturals, which is  *)
(* stated of sets of naturals and comes from their least elements.         *)
(***************************************************************************)
EXTENDS SequencesExt, FiniteSetTheorems, WellFoundedInduction, TLAPS

\* A sequence of none.
LEMMA IsNone ==
    ASSUME NEW S, NEW s \in Seq(S)
    PROVE  Len(s) \in Nat /\ (s = <<>> <=> Len(s) = 0)
OBVIOUS

\* A sequence of one element, and of two.
LEMMA IsOne ==
    ASSUME NEW S, NEW s \in Seq(S), NEW e
    PROVE  s = <<e>> <=> Len(s) = 1 /\ s[1] = e
<1>1. ASSUME Len(s) = 1, s[1] = e PROVE s = <<e>>
  <2>1. s = [i \in 1 .. Len(s) |-> s[i]]
    OBVIOUS
  <2>2. <<e>> = [i \in 1 .. 1 |-> e]
    OBVIOUS
  <2>3. [i \in 1 .. 1 |-> s[i]] = [i \in 1 .. 1 |-> e]
    BY <1>1
  <2>. QED
    BY <1>1, <2>1, <2>2, <2>3
<1>. QED
  BY <1>1

\* A sequence of two elements.
LEMMA IsTwo ==
    ASSUME NEW S, NEW s \in Seq(S), NEW d, NEW e
    PROVE  s = <<d, e>> <=> Len(s) = 2 /\ s[1] = d /\ s[2] = e
<1>1. ASSUME Len(s) = 2, s[1] = d, s[2] = e PROVE s = <<d, e>>
  <2>1. s = [i \in 1 .. 2 |-> s[i]]
    BY <1>1
  <2>2. <<d, e>> = [i \in 1 .. 2 |-> IF i = 1 THEN d ELSE e]
    OBVIOUS
  <2>3. \A i \in 1 .. 2 : s[i] = IF i = 1 THEN d ELSE e
    BY <1>1
  <2>. QED
    BY <2>1, <2>2, <2>3
<1>. QED
  BY <1>1

\* What comes behind the first m elements, and what comes first.
LEMMA RestFacts ==
    ASSUME NEW S, NEW s \in Seq(S), NEW m \in Nat, NEW n \in Nat, Len(s) = m + n
    PROVE  /\ SubSeq(s, m + 1, Len(s)) \in Seq(S)
           /\ Len(SubSeq(s, m + 1, Len(s))) = n
           /\ \A k \in 1 .. n : SubSeq(s, m + 1, Len(s))[k] = s[m + k]
<1>1. 1 + Len(s) - (m + 1) = n /\ \A k \in Int : (m + 1) + k - 1 = m + k
  OBVIOUS
<1>2. SubSeq(s, m + 1, Len(s)) = [k \in 1 .. n |-> s[m + k]]
  BY <1>1
<1>3. \A k \in 1 .. n : m + k \in 1 .. Len(s) /\ s[m + k] \in S
  OBVIOUS
<1>4. [k \in 1 .. n |-> s[m + k]] \in Seq(S)
  BY <1>3
<1>. QED
  BY <1>2, <1>4

\* The first m elements.
LEMMA FrontFacts ==
    ASSUME NEW S, NEW s \in Seq(S), NEW m \in 0 .. Len(s)
    PROVE  /\ SubSeq(s, 1, m) \in Seq(S)
           /\ Len(SubSeq(s, 1, m)) = m
           /\ \A k \in 1 .. m : SubSeq(s, 1, m)[k] = s[k]
OBVIOUS

\* What a sequence has, with one element more.
LEMMA AppendFacts ==
    ASSUME NEW E, NEW s \in Seq(E), NEW e \in E
    PROVE  s \o <<e>> \in Seq(E) /\ ToSet(s \o <<e>>) = ToSet(s) \cup {e}
<1>. DEFINE t == s \o <<e>>
            l == Len(s)
<1>1. l \in Nat /\ t \in Seq(E) /\ Len(t) = l + 1 /\ t[l + 1] = e /\ \A j \in 1 .. l : t[j] = s[j]
  OBVIOUS
<1>2. DOMAIN s = 1 .. l /\ DOMAIN t = 1 .. l + 1
  BY <1>1
<1>. HIDE DEF t, l
<1>3. 1 .. l + 1 = (1 .. l) \cup {l + 1}
  BY <1>1
<1>4. ToSet(t) = ToSet(s) \cup {e}
  BY <1>1, <1>2, <1>3 DEF ToSet
<1>. QED
  BY <1>1, <1>4 DEF t

-----------------------------------------------------------------------------
(* Induction, and the folds.                                               *)

\* The pairs of a natural and a greater one.
Less == {pair \in Nat \X Nat : pair[1] < pair[2]}

\* A set of naturals has a least element.
LEMMA LeastNat ==
    ASSUME NEW T \in SUBSET Nat, T # {}
    PROVE  \E n \in T : \A m \in T : n <= m
<1>1. IsWellFoundedOn(Less, Nat)
  BY NatLessThanWellFounded DEF OpToRel, Less
<1>2. PICK n \in T : \A m \in T : <<m, n>> \notin Less
  BY <1>1, WFMin
<1>3. \A m \in T : ~ (m < n)
  BY <1>2 DEF Less
<1>. QED
  BY <1>3

\* Induction: a set that has 0, and with each number the next, has them all.
LEMMA Induction ==
    ASSUME NEW T, 0 \in T, \A k \in Nat : k \in T => k + 1 \in T
    PROVE  \A k \in Nat : k \in T
<1>. SUFFICES ASSUME Nat \ T # {} PROVE FALSE
  OBVIOUS
<1>1. PICK k \in Nat \ T : \A m \in Nat \ T : k <= m
  BY LeastNat
<1>2. k - 1 \in Nat /\ k - 1 \in T
  BY <1>1
<1>. QED
  BY <1>1, <1>2

\* Each set of numbers up to n that is not empty has a greatest.
LEMMA MaxFacts ==
    ASSUME NEW n \in Nat, NEW S \in SUBSET (1 .. n), S # {}
    PROVE  Max(S) \in S /\ \A m \in S : m <= Max(S)
<1>. DEFINE T == {b \in Nat : \A m \in S : m <= b}
<1>1. n \in T
  OBVIOUS
<1>2. PICK b \in T : \A c \in T : b <= c
  BY <1>1, LeastNat
<1>3. b \in S
  <2>. SUFFICES ASSUME b \notin S PROVE FALSE
    OBVIOUS
  <2>1. b \in Nat /\ \A m \in S : m \in 1 .. n /\ m <= b /\ m # b
    OBVIOUS
  <2>2. b - 1 \in Nat /\ \A m \in S : m <= b - 1
    <3>1. PICK m \in S : TRUE
      OBVIOUS
    <3>2. b >= 1
      BY <2>1, <3>1
    <3>3. \A i \in Int : i <= b /\ i # b => i <= b - 1
      BY <2>1
    <3>. QED
      BY <2>1, <3>2, <3>3
  <2>3. b <= b - 1
    BY <1>2, <2>2
  <2>. QED
    BY <2>1, <2>3
<1>4. b \in S /\ \A m \in S : b >= m
  BY <1>2, <1>3
<1>. QED
  BY <1>4 DEF Max

\* With the numbers of D, next goes from values of A to values of A.
Stays(next, D, A) == \A k \in D, a \in A : next[k][a] \in A

\* f starts at base and takes the step of each number in S.
Follows(f, S, A, base, next) ==
    /\ f \in [Nat -> A]
    /\ f[0] = base
    /\ \A k \in Nat : f[k + 1] = IF k + 1 \in S THEN next[k + 1][f[k]] ELSE f[k]

\* A function may be defined by recursion over the naturals.
LEMMA Recursion ==
    ASSUME NEW A, NEW base \in A, NEW next, Stays(next, Nat, A)
    PROVE  \E f : Follows(f, Nat, A, base, next)
<1>. USE DEF Stays
<1>. DEFINE Up(g, n) == g[0] = base /\ \A k \in 0 .. n - 1 : g[k + 1] = next[k + 1][g[k]]
            T == {n \in Nat : \E g \in [0 .. n -> A] : Up(g, n)}
<1>1. \A n \in Nat : n \in T
  <2>1. 0 \in T
    <3>1. [i \in 0 .. 0 |-> base] \in [0 .. 0 -> A] /\ Up([i \in 0 .. 0 |-> base], 0)
      OBVIOUS
    <3>. QED
      BY <3>1
  <2>2. ASSUME NEW n \in Nat, n \in T PROVE n + 1 \in T
    <3>1. PICK g \in [0 .. n -> A] : Up(g, n)
      BY <2>2
    <3>. DEFINE h == [i \in 0 .. n + 1 |-> IF i = n + 1 THEN next[n + 1][g[n]] ELSE g[i]]
    <3>2. g[n] \in A /\ next[n + 1][g[n]] \in A
      OBVIOUS
    <3>3. h \in [0 .. n + 1 -> A]
      BY <3>2
    <3>4. h[0] = base
      BY <3>1
    <3>5. ASSUME NEW k \in 0 .. n PROVE h[k + 1] = next[k + 1][h[k]]
      BY <3>1, k = n \/ k \in 0 .. n - 1
    <3>6. Up(h, n + 1)
      <4>1. 0 .. (n + 1) - 1 = 0 .. n
        OBVIOUS
      <4>. HIDE DEF h
      <4>. QED
        BY <3>4, <3>5, <4>1
    <3>. HIDE DEF h, Up
    <3>. QED
      BY <3>3, <3>6
  <2>. HIDE DEF T
  <2>. QED
    BY <2>1, <2>2, Induction
<1>. DEFINE G(n) == CHOOSE g \in [0 .. n -> A] : Up(g, n)
<1>2. \A n \in Nat : G(n) \in [0 .. n -> A] /\ Up(G(n), n)
  BY <1>1
<1>. HIDE DEF G
<1>3. ASSUME NEW n \in Nat PROVE G(n)[n] = G(n + 1)[n]
  <2>. DEFINE E == {k \in Nat : k <= n => G(n)[k] = G(n + 1)[k]}
  <2>1. 0 \in E
    BY <1>2
  <2>2. ASSUME NEW k \in Nat, k \in E PROVE k + 1 \in E
    <3>. SUFFICES ASSUME k + 1 <= n PROVE G(n)[k + 1] = G(n + 1)[k + 1]
      OBVIOUS
    <3>1. k \in 0 .. n - 1 /\ k \in 0 .. (n + 1) - 1 /\ n + 1 \in Nat
      OBVIOUS
    <3>2. G(n)[k] = G(n + 1)[k]
      BY <2>2, <3>1
    <3>3. Up(G(n), n) /\ Up(G(n + 1), n + 1)
      BY <1>2
    <3>. QED
      BY <3>1, <3>2, <3>3
  <2>3. n \in E
    <3>. HIDE DEF E
    <3>. QED
      BY <2>1, <2>2, Induction
  <2>. QED
    BY <2>3
<1>. DEFINE f == [n \in Nat |-> G(n)[n]]
<1>4. f \in [Nat -> A] /\ f[0] = base
  BY <1>2
<1>5. ASSUME NEW k \in Nat PROVE f[k + 1] = next[k + 1][f[k]]
  <2>1. Up(G(k + 1), k + 1) /\ k \in 0 .. (k + 1) - 1
    BY <1>2
  <2>2. G(k + 1)[k + 1] = next[k + 1][G(k + 1)[k]]
    BY <2>1
  <2>. QED
    BY <2>2, <1>3
<1>6. \A k \in Nat : k + 1 \in Nat
  OBVIOUS
<1>. HIDE DEF f
<1>. QED
  BY <1>4, <1>5, <1>6 DEF Follows

\* Recursion over those of the numbers up to n that are in a set.
LEMMA SparseRecursion ==
    ASSUME NEW n \in Nat, NEW A, NEW base \in A, NEW next,
           Stays(next, 1 .. n, A), NEW S \in SUBSET (1 .. n)
    PROVE  \E f : Follows(f, S, A, base, next)
<1>. DEFINE step == [k \in Nat |-> [a \in A |-> IF k \in S THEN next[k][a] ELSE a]]
<1>1. \A k \in Nat, a \in A : step[k][a] = IF k \in S THEN next[k][a] ELSE a
  OBVIOUS
<1>. HIDE DEF step
<1>2. Stays(step, Nat, A)
  BY <1>1 DEF Stays
<1>3. PICK f : Follows(f, Nat, A, base, step)
  BY <1>2, Recursion
<1>4. ASSUME NEW k \in Nat
      PROVE  f[k + 1] = IF k + 1 \in S THEN next[k + 1][f[k]] ELSE f[k]
  BY <1>1, <1>3, k + 1 \in Nat, f[k] \in A DEF Follows
<1>. QED
  BY <1>3, <1>4 DEF Follows

\* iter solves the recursion of MapThenFoldSet over the numbers up to n, of which
\* the greatest is taken first.
SolvesFold(iter, n, A, base, next) ==
    /\ iter \in [SUBSET (1 .. n) -> A]
    /\ \A S \in SUBSET (1 .. n) :
          iter[S] = IF S = {} THEN base ELSE next[Max(S)][iter[S \ {Max(S)}]]

\* The recursion of MapThenFoldSet over the indices of a list, with the greatest
\* one taken first, has a solution: of a set S it is the recursion over 1 .. n
\* that passes over what is not in S.
THEOREM FoldExists ==
    ASSUME NEW n \in Nat, NEW A, NEW base \in A, NEW next,
           Stays(next, 1 .. n, A)
    PROVE  \E iter : SolvesFold(iter, n, A, base, next)
<1>. DEFINE G(S) == CHOOSE f : Follows(f, S, A, base, next)
<1>1. ASSUME NEW S \in SUBSET (1 .. n)
      PROVE  /\ G(S) \in [Nat -> A]
             /\ G(S)[0] = base
             /\ \A k \in Nat : G(S)[k + 1] = IF k + 1 \in S THEN next[k + 1][G(S)[k]] ELSE G(S)[k]
  <2>1. Follows(G(S), S, A, base, next)
    BY SparseRecursion
  <2>. QED
    BY <2>1 DEF Follows
<1>. HIDE DEF G
<1>2. ASSUME NEW S \in SUBSET (1 .. n), NEW x \in Nat, \A m \in S : m <= x,
             NEW y \in Nat, x <= y
      PROVE  G(S)[y] = G(S)[x]
  <2>. DEFINE E == {j \in Nat : x <= j => G(S)[j] = G(S)[x]}
  <2>1. 0 \in E
    OBVIOUS
  <2>2. ASSUME NEW j \in Nat, j \in E PROVE j + 1 \in E
    <3>. SUFFICES ASSUME x <= j + 1, j + 1 # x PROVE G(S)[j + 1] = G(S)[x]
      OBVIOUS
    <3>1. j + 1 \notin S /\ x <= j
      BY <1>2
    <3>2. G(S)[j + 1] = G(S)[j]
      BY <1>1, <3>1
    <3>. QED
      BY <2>2, <3>1, <3>2
  <2>. HIDE DEF E
  <2>3. y \in E
    BY <2>1, <2>2, Induction
  <2>. QED
    BY <1>2, <2>3 DEF E
<1>3. ASSUME NEW S \in SUBSET (1 .. n), NEW R \in SUBSET (1 .. n), NEW x \in Nat,
             \A m \in 1 .. x : m \in S <=> m \in R
      PROVE  G(S)[x] = G(R)[x]
  <2>. DEFINE E == {j \in Nat : j <= x => G(S)[j] = G(R)[j]}
  <2>1. 0 \in E
    BY <1>1
  <2>2. ASSUME NEW j \in Nat, j \in E PROVE j + 1 \in E
    <3>. SUFFICES ASSUME j + 1 <= x PROVE G(S)[j + 1] = G(R)[j + 1]
      OBVIOUS
    <3>1. j + 1 \in S <=> j + 1 \in R
      BY <1>3
    <3>2. G(S)[j] = G(R)[j]
      BY <2>2
    <3>3. G(S)[j + 1] = IF j + 1 \in S THEN next[j + 1][G(S)[j]] ELSE G(S)[j]
      BY <1>1
    <3>4. G(R)[j + 1] = IF j + 1 \in R THEN next[j + 1][G(R)[j]] ELSE G(R)[j]
      BY <1>1
    <3>. QED
      BY <3>1, <3>2, <3>3, <3>4
  <2>. HIDE DEF E
  <2>3. x \in E
    BY <2>1, <2>2, Induction
  <2>. QED
    BY <2>3 DEF E
<1>. DEFINE iter == [S \in SUBSET (1 .. n) |-> G(S)[n]]
<1>4. iter \in [SUBSET (1 .. n) -> A]
  BY <1>1
<1>5. ASSUME NEW S \in SUBSET (1 .. n)
      PROVE  iter[S] = IF S = {} THEN base ELSE next[Max(S)][iter[S \ {Max(S)}]]
  <2>1. CASE S = {}
    <3>1. G(S)[n] = G(S)[0]
      <4>1. 0 \in Nat /\ 0 <= n /\ \A m \in S : m <= 0
        BY <2>1
      <4>. QED
        BY <1>2, <4>1
    <3>2. G(S)[0] = base
      BY <1>1
    <3>. QED
      BY <2>1, <3>1, <3>2
  <2>2. CASE S # {}
    <3>. DEFINE x == Max(S)
                R == S \ {x}
    <3>1. x \in S /\ \A m \in S : m <= x
      BY <2>2, MaxFacts
    <3>. HIDE DEF x
    <3>2. PICK y \in Nat : x = y + 1
      <4>1. x - 1 \in Nat /\ x = (x - 1) + 1
        BY <3>1
      <4>. QED
        BY <4>1
    <3>3. x \in Nat /\ x <= n /\ y <= n
      BY <3>1, <3>2
    <3>4. G(S)[n] = G(S)[x]
      BY <1>2, <3>1, <3>3
    <3>5. G(S)[x] = next[x][G(S)[y]]
      BY <1>1, <3>1, <3>2
    <3>6. G(S)[y] = G(R)[y]
      <4>1. \A m \in 1 .. y : m \in S <=> m \in R
        BY <3>2
      <4>. QED
        BY <1>3, <4>1
    <3>7. G(R)[n] = G(R)[y]
      <4>1. \A m \in R : m <= y
        BY <3>1, <3>2
      <4>. QED
        BY <1>2, <3>3, <4>1
    <3>8. iter[S] = next[x][iter[R]]
      BY <3>4, <3>5, <3>6, <3>7
    <3>. QED
      BY <2>2, <3>8 DEF x
  <2>. QED
    BY <2>1, <2>2
<1>. HIDE DEF iter
<1>. QED
  BY <1>4, <1>5 DEF SolvesFold

\* MapThenFoldSet takes the greatest number first: of those up to k it is k, and
\* those up to k - 1 are left.
LEMMA FoldSteps ==
    ASSUME NEW n \in Nat, NEW k \in 1 .. n
    PROVE  Max(1 .. k) = k /\ (1 .. k) \ {k} = 1 .. k - 1
<1>1. 1 .. k \in SUBSET (1 .. n) /\ k \in 1 .. k
  OBVIOUS
<1>2. Max(1 .. k) \in 1 .. k /\ \A m \in 1 .. k : m <= Max(1 .. k)
  BY <1>1, MaxFacts
<1>. HIDE DEF Max
<1>. QED
  BY <1>1, <1>2

-----------------------------------------------------------------------------
(* Remainders.                                                             *)

\* Division with a remainder.
LEMMA Division ==
    ASSUME NEW m \in Nat \ {0}, NEW a \in Int
    PROVE  \E q \in Int : a = q * m + (a % m) /\ a % m \in 0 .. m - 1
<1>. DEFINE q == a \div m
            r == a % m
<1>1. q \in Int /\ r \in 0 .. m - 1
  OBVIOUS
<1>2. a = q * m + r
  OBVIOUS
<1>. HIDE DEF q
<1>. QED
  BY <1>1, <1>2

\* Between -m and m there is one multiple of m.
LEMMA SmallMultiple ==
    ASSUME NEW m \in Nat \ {0}, NEW q \in Int, q * m < m, -m < q * m
    PROVE  q = 0
<1>1. CASE q >= 1
  <2>1. q * m = (q - 1) * m + m /\ (q - 1) * m >= 0
    BY <1>1
  <2>. QED
    BY <2>1
<1>2. CASE q <= -1
  <2>1. q * m = (q + 1) * m - m /\ (q + 1) * m <= 0
    BY <1>2
  <2>. QED
    BY <2>1
<1>. QED
  BY <1>1, <1>2

\* The remainder is the only one.
LEMMA Remainder ==
    ASSUME NEW m \in Nat \ {0}, NEW a \in Int, NEW q \in Int, NEW r \in 0 .. m - 1,
           a = q * m + r
    PROVE  a % m = r
<1>1. PICK p \in Int : a = p * m + (a % m) /\ a % m \in 0 .. m - 1
  BY Division
<1>2. (p - q) * m = r - (a % m)
  BY <1>1
<1>3. p - q = 0
  BY <1>1, <1>2, SmallMultiple
<1>. QED
  BY <1>1, <1>3
=============================================================================
