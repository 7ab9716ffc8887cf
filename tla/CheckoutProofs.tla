--------------------------- MODULE CheckoutProofs ---------------------------
(***************************************************************************)
(* Proofs about Checkout and the service of parts it asks, for any parts,  *)
(* requests and faults: a list is as it was asked for, an order appears    *)
(* with all its items or not at all, and what Create answers is true of    *)
(* the parts.                                                              *)
(***************************************************************************)
EXTENDS Checkout, SequenceLemmas

-----------------------------------------------------------------------------
(* int64 sums, and the folds of Total and PartOf.                          *)

\* A sum fits.
LEMMA AddType ==
    ASSUME NEW a \in Int, NEW b \in Int
    PROVE  Add(a, b) \in -Limit .. Limit - 1 /\ Add(a, b) \in Int
BY LimitAssumption DEF Add

\* A remainder may be taken before or after an addition.
LEMMA RemainderOfSum ==
    ASSUME NEW m \in Nat \ {0}, NEW x \in Int, NEW y \in Int
    PROVE  ((x % m) + y) % m = (x + y) % m
<1>1. PICK p \in Int : x = p * m + (x % m) /\ x % m \in 0 .. m - 1
  BY Division
<1>. DEFINE z == (x % m) + y
            r == z % m
<1>2. z \in Int
  BY <1>1
<1>3. PICK q \in Int : z = q * m + (z % m) /\ z % m \in 0 .. m - 1
  BY <1>2, Division
<1>4. x + y = (p + q) * m + (z % m)
  BY <1>1, <1>3
<1>5. x + y \in Int /\ p + q \in Int
  OBVIOUS
<1>. HIDE DEF r
<1>6. (x + y) % m = r
  BY <1>3, <1>4, <1>5, Remainder DEF r
<1>. QED
  BY <1>6 DEF r

\* Additions that wrap around are one that does.
LEMMA AddAdd ==
    ASSUME NEW a \in Int, NEW b \in Int, NEW c \in Int
    PROVE  Add(Add(a, b), c) = Add(a, b + c)
<1>. DEFINE m == 2 * Limit
            x == a + b + Limit
<1>1. m \in Nat \ {0} /\ x \in Int
  BY LimitAssumption
<1>2. ((x % m) + c) % m = (x + c) % m
  BY <1>1, RemainderOfSum
<1>3. x % m \in Int
  BY <1>1
<1>4. Add(Add(a, b), c) = (((x % m) - Limit + c + Limit) % m) - Limit
  BY DEF Add
<1>5. (x % m) - Limit + c + Limit = (x % m) + c
  BY <1>3, LimitAssumption
<1>6. x + c = a + (b + c) + Limit
  BY LimitAssumption
<1>. QED
  BY <1>2, <1>4, <1>5, <1>6 DEF Add

\* Total adds the prices up from the first to the last.
LEMMA TotalFacts ==
    ASSUME NEW n \in Nat, NEW list, DOMAIN list = 1 .. n,
           \A k \in 1 .. n : list[k].price \in Int
    PROVE  \E sum : /\ sum[0] = 0
                    /\ \A k \in 1 .. n : sum[k] = Add(sum[k - 1], list[k].price)
                    /\ Total(list) = sum[n]
<1>. DEFINE next == [k \in 1 .. n |-> [a \in Int |-> Add(a, list[k].price)]]
            Eq(iter) == iter = [S \in SUBSET DOMAIN list |->
                                   IF S = {} THEN 0
                                   ELSE Add(iter[S \ {Max(S)}], list[Max(S)].price)]
<1>1. \A k \in 1 .. n, a \in Int : next[k][a] = Add(a, list[k].price)
  OBVIOUS
<1>2. Total(list) = (CHOOSE f : Eq(f))[DOMAIN list]
  BY DEF Total, FoldLeft, MapThenFoldSet
<1>. HIDE DEF next
<1>3. Stays(next, 1 .. n, Int)
  BY <1>1, AddType DEF Stays
<1>4. PICK iter : SolvesFold(iter, n, Int, 0, next)
  BY <1>3, FoldExists, 0 \in Int
<1>5. Eq(iter)
  <2>1. ASSUME NEW S \in SUBSET (1 .. n), S # {}
        PROVE  iter[S] = Add(iter[S \ {Max(S)}], list[Max(S)].price)
    BY <1>1, <1>4, <2>1, MaxFacts DEF SolvesFold
  <2>. QED
    BY <1>4, <2>1 DEF SolvesFold
<1>. DEFINE it == CHOOSE f : Eq(f)
            sum == [k \in 0 .. n |-> it[1 .. k]]
<1>6. Eq(it)
  BY <1>5, Zenon
<1>. HIDE DEF it
<1>7. sum[0] = 0
  BY <1>6
<1>8. ASSUME NEW k \in 1 .. n PROVE sum[k] = Add(sum[k - 1], list[k].price)
  <2>1. it[1 .. k] = Add(it[(1 .. k) \ {Max(1 .. k)}], list[Max(1 .. k)].price)
    <3>1. 1 .. k \in SUBSET DOMAIN list /\ k \in 1 .. k
      OBVIOUS
    <3>. QED
      BY <1>6, <3>1
  <2>2. Max(1 .. k) = k /\ (1 .. k) \ {k} = 1 .. k - 1
    BY FoldSteps
  <2>3. k - 1 \in 0 .. n /\ k \in 0 .. n
    OBVIOUS
  <2>. QED
    BY <2>1, <2>2, <2>3
<1>9. Total(list) = sum[n]
  BY <1>2 DEF it
<1>. QED
  BY <1>7, <1>8, <1>9

\* PartOf goes through the rows from the first to the last.
LEMMA PartOfFacts ==
    ASSUME NEW n \in Nat, NEW rows, DOMAIN rows = 1 .. n, NEW part_type
    PROVE  \E uuid : /\ uuid[0] = None
                     /\ \A k \in 1 .. n :
                           uuid[k] = IF rows[k].part_type = part_type THEN rows[k].part
                                     ELSE uuid[k - 1]
                     /\ PartOf(rows, part_type) = uuid[n]
<1>. DEFINE A == {None} \cup {rows[k].part : k \in 1 .. n}
            Pass(a, row) == IF row.part_type = part_type THEN row.part ELSE a
            next == [k \in 1 .. n |-> [a \in A |-> Pass(a, rows[k])]]
            Eq(iter) == iter = [S \in SUBSET DOMAIN rows |->
                                   IF S = {} THEN None
                                   ELSE Pass(iter[S \ {Max(S)}], rows[Max(S)])]
<1>1. \A k \in 1 .. n, a \in A : next[k][a] = Pass(a, rows[k]) /\ next[k][a] \in A
  OBVIOUS
<1>2. PartOf(rows, part_type) = (CHOOSE f : Eq(f))[DOMAIN rows]
  BY DEF PartOf, FoldLeft, MapThenFoldSet
<1>3. None \in A
  OBVIOUS
<1>. HIDE DEF next, A, Pass
<1>4. Stays(next, 1 .. n, A)
  BY <1>1 DEF Stays
<1>5. PICK iter : SolvesFold(iter, n, A, None, next)
  BY <1>3, <1>4, FoldExists
<1>6. Eq(iter)
  <2>1. ASSUME NEW S \in SUBSET (1 .. n), S # {}
        PROVE  iter[S] = Pass(iter[S \ {Max(S)}], rows[Max(S)])
    BY <1>1, <1>5, <2>1, MaxFacts DEF SolvesFold
  <2>. QED
    BY <1>5, <2>1 DEF SolvesFold
<1>. DEFINE it == CHOOSE f : Eq(f)
            uuid == [k \in 0 .. n |-> it[1 .. k]]
<1>7. Eq(it)
  BY <1>6, Zenon
<1>. HIDE DEF it
<1>8. uuid[0] = None
  BY <1>7
<1>9. ASSUME NEW k \in 1 .. n PROVE uuid[k] = Pass(uuid[k - 1], rows[k])
  <2>1. it[1 .. k] = Pass(it[(1 .. k) \ {Max(1 .. k)}], rows[Max(1 .. k)])
    <3>1. 1 .. k \in SUBSET DOMAIN rows /\ k \in 1 .. k
      OBVIOUS
    <3>. QED
      BY <1>7, <3>1
  <2>2. Max(1 .. k) = k /\ (1 .. k) \ {k} = 1 .. k - 1
    BY FoldSteps
  <2>3. k - 1 \in 0 .. n /\ k \in 0 .. n
    OBVIOUS
  <2>. QED
    BY <2>1, <2>2, <2>3
<1>10. PartOf(rows, part_type) = uuid[n]
  BY <1>2 DEF it
<1>. HIDE DEF uuid
<1>. QED
  BY <1>8, <1>9, <1>10 DEF Pass

\* PartOf is the part of the only row of the type, or None.
LEMMA PartOfOne ==
    ASSUME NEW n \in Nat, NEW rows, DOMAIN rows = 1 .. n, NEW part_type,
           NEW i \in 0 .. n, \A k \in 1 .. n : rows[k].part_type = part_type <=> k = i
    PROVE  PartOf(rows, part_type) = IF i = 0 THEN None ELSE rows[i].part
<1>1. PICK uuid : /\ uuid[0] = None
                  /\ \A k \in 1 .. n :
                        uuid[k] = IF rows[k].part_type = part_type THEN rows[k].part
                                  ELSE uuid[k - 1]
                  /\ PartOf(rows, part_type) = uuid[n]
  BY PartOfFacts
<1>. DEFINE one == IF i = 0 THEN None ELSE rows[i].part
            T == {k \in Nat : i <= k /\ k <= n => uuid[k] = one}
<1>2. 0 \in T
  BY <1>1
<1>3. ASSUME NEW k \in Nat, k \in T PROVE k + 1 \in T
  <2>. SUFFICES ASSUME i <= k + 1, k + 1 <= n PROVE uuid[k + 1] = one
    OBVIOUS
  <2>1. k + 1 \in 1 .. n /\ (k + 1) - 1 = k
    OBVIOUS
  <2>2. uuid[k + 1] = IF k + 1 = i THEN rows[k + 1].part ELSE uuid[k]
    BY <1>1, <2>1
  <2>3. CASE k + 1 = i
    BY <2>2, <2>3
  <2>4. CASE k + 1 # i
    <3>1. i <= k /\ k <= n
      BY <2>4
    <3>. QED
      BY <1>3, <2>2, <2>4, <3>1
  <2>. QED
    BY <2>3, <2>4
<1>. HIDE DEF T, one
<1>4. n \in T
  BY <1>2, <1>3, Induction
<1>. QED
  BY <1>1, <1>4 DEF T, one

\* The sum of 2, 3 or 4 prices.
Sum(n, p) ==
    p[1] + p[2] + (IF n > 2 THEN p[3] ELSE 0) + (IF n > 3 THEN p[4] ELSE 0)

\* The total of an order is the sum of its prices, and wraps around once at most.
LEMMA TotalIsSum ==
    ASSUME NEW n \in 2 .. 4, NEW list, DOMAIN list = 1 .. n, NEW p \in [1 .. n -> Int],
           \A k \in 1 .. n : list[k].price = p[k]
    PROVE  Total(list) = Add(0, Sum(n, p)) /\ Total(list) \in -Limit .. Limit - 1
<1>1. PICK sum : /\ sum[0] = 0
                 /\ \A k \in 1 .. n : sum[k] = Add(sum[k - 1], p[k])
                 /\ Total(list) = sum[n]
  <2>1. /\ n \in Nat /\ \A k \in 1 .. n : list[k].price \in Int
    OBVIOUS
  <2>2. PICK sum : /\ sum[0] = 0
                   /\ \A k \in 1 .. n : sum[k] = Add(sum[k - 1], list[k].price)
                   /\ Total(list) = sum[n]
    BY <2>1, TotalFacts
  <2>. QED
    BY <2>2
<1>2. \A a, b \in Int : Add(Add(0, a), b) = Add(0, a + b) /\ Add(0, a) \in -Limit .. Limit - 1
  BY AddAdd, AddType, 0 \in Int
<1>3. sum[2] = Add(0, p[1] + p[2])
  <2>1. 1 \in 1 .. n /\ 2 \in 1 .. n /\ 1 - 1 = 0 /\ 2 - 1 = 1
    OBVIOUS
  <2>2. sum[1] = Add(0, p[1]) /\ sum[2] = Add(sum[1], p[2]) /\ p[1] \in Int /\ p[2] \in Int
    BY <1>1, <2>1
  <2>. QED
    BY <1>2, <2>2
<1>4. ASSUME n > 2 PROVE sum[3] = Add(0, p[1] + p[2] + p[3])
  <2>1. 1 \in 1 .. n /\ 2 \in 1 .. n /\ 3 \in 1 .. n /\ 3 - 1 = 2
    BY <1>4
  <2>2. sum[3] = Add(sum[2], p[3]) /\ p[1] + p[2] \in Int /\ p[3] \in Int
    BY <1>1, <2>1
  <2>. QED
    BY <1>2, <1>3, <2>2
<1>5. ASSUME n > 3 PROVE sum[4] = Add(0, p[1] + p[2] + p[3] + p[4])
  <2>1. 1 \in 1 .. n /\ 2 \in 1 .. n /\ 3 \in 1 .. n /\ 4 \in 1 .. n /\ 4 - 1 = 3 /\ n > 2
    BY <1>5
  <2>2. sum[4] = Add(sum[3], p[4]) /\ p[1] + p[2] + p[3] \in Int /\ p[4] \in Int
    BY <1>1, <2>1
  <2>. QED
    BY <1>2, <1>4, <2>1, <2>2
<1>6. 1 \in 1 .. n /\ 2 \in 1 .. n /\ (n > 2 => 3 \in 1 .. n) /\ (n > 3 => 4 \in 1 .. n)
  OBVIOUS
<1>7. p[1] + p[2] \in Int /\ (n > 2 => p[3] \in Int) /\ (n > 3 => p[4] \in Int)
  BY <1>6
<1>8. Total(list) = Add(0, Sum(n, p))
  <2>1. CASE n = 2
    <3>1. Sum(n, p) = p[1] + p[2]
      BY <1>7, <2>1 DEF Sum
    <3>. QED
      BY <1>1, <1>3, <2>1, <3>1
  <2>2. CASE n = 3
    <3>1. Sum(n, p) = p[1] + p[2] + p[3]
      BY <1>7, <2>2 DEF Sum
    <3>. QED
      BY <1>1, <1>4, <2>2, <3>1
  <2>3. CASE n = 4
    <3>1. Sum(n, p) = p[1] + p[2] + p[3] + p[4]
      BY <1>7, <2>3 DEF Sum
    <3>. QED
      BY <1>1, <1>5, <2>3, <3>1
  <2>. QED
    BY <2>1, <2>2, <2>3
<1>9. Sum(n, p) \in Int
  BY <1>7 DEF Sum
<1>. QED
  BY <1>2, <1>8, <1>9

\* The order of 2, 3 or 4 numbers makes no difference to their sum.
LEMMA SumOfTwo ==
    ASSUME NEW p, p[1] \in Int, p[2] \in Int,
           NEW i \in 1 .. 2, NEW j \in 1 .. 2, i # j
    PROVE  p[i] + p[j] = p[1] + p[2]
OBVIOUS

LEMMA SumOfThree ==
    ASSUME NEW p, p[1] \in Int, p[2] \in Int, p[3] \in Int,
           NEW i \in 1 .. 3, NEW j \in 1 .. 3, NEW k \in 1 .. 3, i # j, i # k, j # k
    PROVE  p[i] + p[j] + p[k] = p[1] + p[2] + p[3]
OBVIOUS

LEMMA SumOfFour ==
    ASSUME NEW p, p[1] \in Int, p[2] \in Int, p[3] \in Int, p[4] \in Int,
           NEW i \in 1 .. 4, NEW j \in 1 .. 4, NEW k \in 1 .. 4, NEW l \in 1 .. 4,
           i # j, i # k, i # l, j # k, j # l, k # l
    PROVE  p[i] + p[j] + p[k] + p[l] = p[1] + p[2] + p[3] + p[4]
OBVIOUS

\* The order of the prices makes no difference to their sum.
LEMMA SumOfPermutation ==
    ASSUME NEW n \in 2 .. 4, NEW p \in [1 .. n -> Int], NEW q \in [1 .. n -> Int],
           NEW s \in [1 .. n -> 1 .. n], IsInjective(s),
           \A k \in 1 .. n : q[k] = p[s[k]]
    PROVE  Sum(n, q) = Sum(n, p)
<1>1. CASE n = 2
  <2>1. /\ s[1] \in 1 .. 2 /\ s[2] \in 1 .. 2
        /\ s[1] # s[2]
    BY <1>1 DEF IsInjective
  <2>2. /\ p[1] \in Int /\ p[2] \in Int
        /\ q[1] \in Int /\ q[2] \in Int
        /\ q[1] = p[s[1]] /\ q[2] = p[s[2]]
    BY <1>1
  <2>3. p[s[1]] + p[s[2]] = p[1] + p[2]
    BY <2>1, <2>2, SumOfTwo
  <2>4. q[1] + q[2] = p[1] + p[2]
    BY <2>2, <2>3
  <2>5. Sum(n, q) = q[1] + q[2]
    BY <1>1, <2>2 DEF Sum
  <2>6. Sum(n, p) = p[1] + p[2]
    BY <1>1, <2>2 DEF Sum
  <2>. QED
    BY <2>4, <2>5, <2>6
<1>2. CASE n = 3
  <2>1. /\ s[1] \in 1 .. 3 /\ s[2] \in 1 .. 3 /\ s[3] \in 1 .. 3
        /\ s[1] # s[2] /\ s[1] # s[3] /\ s[2] # s[3]
    BY <1>2 DEF IsInjective
  <2>2. /\ p[1] \in Int /\ p[2] \in Int /\ p[3] \in Int
        /\ q[1] \in Int /\ q[2] \in Int /\ q[3] \in Int
        /\ q[1] = p[s[1]] /\ q[2] = p[s[2]] /\ q[3] = p[s[3]]
    BY <1>2
  <2>3. p[s[1]] + p[s[2]] + p[s[3]] = p[1] + p[2] + p[3]
    BY <2>1, <2>2, SumOfThree
  <2>4. q[1] + q[2] + q[3] = p[1] + p[2] + p[3]
    BY <2>2, <2>3
  <2>5. Sum(n, q) = q[1] + q[2] + q[3]
    BY <1>2, <2>2 DEF Sum
  <2>6. Sum(n, p) = p[1] + p[2] + p[3]
    BY <1>2, <2>2 DEF Sum
  <2>. QED
    BY <2>4, <2>5, <2>6
<1>3. CASE n = 4
  <2>1. /\ s[1] \in 1 .. 4 /\ s[2] \in 1 .. 4 /\ s[3] \in 1 .. 4 /\ s[4] \in 1 .. 4
        /\ s[1] # s[2] /\ s[1] # s[3] /\ s[1] # s[4] /\ s[2] # s[3] /\ s[2] # s[4] /\ s[3] # s[4]
    BY <1>3 DEF IsInjective
  <2>2. /\ p[1] \in Int /\ p[2] \in Int /\ p[3] \in Int /\ p[4] \in Int
        /\ q[1] \in Int /\ q[2] \in Int /\ q[3] \in Int /\ q[4] \in Int
        /\ q[1] = p[s[1]] /\ q[2] = p[s[2]] /\ q[3] = p[s[3]] /\ q[4] = p[s[4]]
    BY <1>3
  <2>3. p[s[1]] + p[s[2]] + p[s[3]] + p[s[4]] = p[1] + p[2] + p[3] + p[4]
    BY <2>1, <2>2, SumOfFour
  <2>4. q[1] + q[2] + q[3] + q[4] = p[1] + p[2] + p[3] + p[4]
    BY <2>2, <2>3
  <2>5. Sum(n, q) = q[1] + q[2] + q[3] + q[4]
    BY <1>3, <2>2 DEF Sum
  <2>6. Sum(n, p) = p[1] + p[2] + p[3] + p[4]
    BY <1>3, <2>2 DEF Sum
  <2>. QED
    BY <2>4, <2>5, <2>6
<1>. QED
  BY <1>1, <1>2, <1>3

\* rows has the n prices of list, in the order of s.
Permutes(s, n, list, rows) ==
    /\ n \in 2 .. 4 /\ DOMAIN list = 1 .. n /\ DOMAIN rows = 1 .. n
    /\ s \in Injection(1 .. n, 1 .. n)
    /\ \A k \in 1 .. n : list[k].price \in Int /\ rows[k].price = list[s[k]].price

\* ... nor to the total.
LEMMA TotalOfPermutation ==
    ASSUME NEW s, NEW n, NEW list, NEW rows, Permutes(s, n, list, rows)
    PROVE  Total(rows) = Total(list)
<1>. DEFINE p == [k \in 1 .. n |-> list[k].price]
            q == [k \in 1 .. n |-> p[s[k]]]
<1>1. /\ n \in 2 .. 4 /\ DOMAIN list = 1 .. n /\ DOMAIN rows = 1 .. n
      /\ s \in [1 .. n -> 1 .. n] /\ IsInjective(s)
      /\ \A k \in 1 .. n : list[k].price \in Int /\ rows[k].price = list[s[k]].price
  BY DEF Permutes, Injection
<1>2. p \in [1 .. n -> Int] /\ q \in [1 .. n -> Int]
  BY <1>1
<1>3. /\ \A k \in 1 .. n : list[k].price = p[k] /\ rows[k].price = q[k]
      /\ \A k \in 1 .. n : q[k] = p[s[k]]
  BY <1>1
<1>. HIDE DEF p, q
<1>4. Sum(n, q) = Sum(n, p)
  BY <1>1, <1>2, <1>3, SumOfPermutation
<1>5. Total(list) = Add(0, Sum(n, p))
  BY <1>1, <1>2, <1>3, TotalIsSum
<1>6. Total(rows) = Add(0, Sum(n, q))
  BY <1>1, <1>2, <1>3, TotalIsSum
<1>. QED
  BY <1>4, <1>5, <1>6

-----------------------------------------------------------------------------
(* What is asked of InventoryService, and what it may answer.              *)

\* What is asked for one part.
Entry(uuid, part_type) == [uuid |-> uuid, part_type |-> part_type]

\* t is s with one entry more at its end, or none.
Extends(t, s, S, uuid, part_type) ==
    /\ t \in Seq(S)
    /\ Len(t) = IF uuid = None THEN Len(s) ELSE Len(s) + 1
    /\ \A i \in 1 .. Len(s) : t[i] = s[i]
    /\ uuid # None => t[Len(s) + 1] = Entry(uuid, part_type)

\* A part that is asked for comes at the end of the list.
LEMMA RequestedFacts ==
    ASSUME NEW S, NEW s \in Seq(S), NEW uuid, NEW part_type, Entry(uuid, part_type) \in S
    PROVE  Extends(s \o Requested(uuid, part_type), s, S, uuid, part_type)
<1>. DEFINE e == Entry(uuid, part_type)
            t == Requested(uuid, part_type)
<1>1. CASE uuid = None
  <2>1. t = <<>>
    BY <1>1 DEF Requested
  <2>2. s \o <<>> = s
    OBVIOUS
  <2>. QED
    BY <1>1, <2>1, <2>2 DEF Extends
<1>2. CASE uuid # None
  <2>1. t = <<e>>
    BY <1>2 DEF Requested, Entry
  <2>. HIDE DEF e, t
  <2>2. <<e>> \in Seq(S) /\ Len(<<e>>) = 1 /\ <<e>>[1] = e
    BY DEF e
  <2>3. s \o <<e>> \in Seq(S) /\ Len(s \o <<e>>) = Len(s) + 1 /\ Len(s) \in Nat
    BY <2>2
  <2>4. \A i \in 1 .. Len(s) : (s \o <<e>>)[i] = s[i]
    BY <2>2
  <2>5. (s \o <<e>>)[Len(s) + 1] = e
    <3>1. PICK k \in Nat : k = Len(s) + 1
      BY <2>3
    <3>2. k \in Len(s) + 1 .. Len(s) + Len(<<e>>) /\ k - Len(s) = 1
      BY <2>2, <2>3, <3>1
    <3>3. (s \o <<e>>)[k] = <<e>>[k - Len(s)]
      BY <2>2, <3>2
    <3>. QED
      BY <2>2, <3>1, <3>2, <3>3
  <2>. QED
    BY <1>2, <2>1, <2>3, <2>4, <2>5 DEF e, t, Extends
<1>. QED
  BY <1>1, <1>2

\* The list of the parts asked for, a place at a time.
LEMMA RequestList ==
    ASSUME NEW in \in Inputs, NEW n, n = Len(requestedParts(in))
    PROVE  /\ DOMAIN requestedParts(in) = 1 .. n
           /\ n = IF in.shield = None THEN IF in.weapon = None THEN 2 ELSE 3
                                      ELSE IF in.weapon = None THEN 3 ELSE 4
           /\ requestedParts(in)[1] = Entry(in.hull, "HULL")
           /\ requestedParts(in)[2] = Entry(in.engine, "ENGINE")
           /\ in.shield # None => requestedParts(in)[3] = Entry(in.shield, "SHIELD")
           /\ in.weapon # None => requestedParts(in)[n] = Entry(in.weapon, "WEAPON")
<1>. DEFINE S == {Entry(in.hull, "HULL"), Entry(in.engine, "ENGINE"),
                  Entry(in.shield, "SHIELD"), Entry(in.weapon, "WEAPON")}
            h == Requested(in.hull, "HULL")
            he == h \o Requested(in.engine, "ENGINE")
            hes == he \o Requested(in.shield, "SHIELD")
            hesw == hes \o Requested(in.weapon, "WEAPON")
<1>1. /\ in.hull # None /\ in.engine # None
      /\ Entry(in.hull, "HULL") \in S /\ Entry(in.engine, "ENGINE") \in S
      /\ Entry(in.shield, "SHIELD") \in S /\ Entry(in.weapon, "WEAPON") \in S
  BY InputsAssumption
<1>. HIDE DEF S
<1>2. h \in Seq(S) /\ Len(h) = 1 /\ h[1] = Entry(in.hull, "HULL")
  <2>1. h = <<Entry(in.hull, "HULL")>>
    BY <1>1 DEF Requested, Entry
  <2>. HIDE DEF h
  <2>. QED
    BY <1>1, <2>1
<1>. HIDE DEF h
<1>3. /\ he \in Seq(S) /\ Len(he) = 2
      /\ he[1] = Entry(in.hull, "HULL") /\ he[2] = Entry(in.engine, "ENGINE")
  <2>1. Extends(he, h, S, in.engine, "ENGINE")
    BY <1>1, <1>2, RequestedFacts
  <2>. HIDE DEF he
  <2>. QED
    BY <1>1, <1>2, <2>1 DEF Extends
<1>. HIDE DEF he
<1>4. /\ hes \in Seq(S) /\ Len(hes) = IF in.shield = None THEN 2 ELSE 3
      /\ hes[1] = Entry(in.hull, "HULL") /\ hes[2] = Entry(in.engine, "ENGINE")
      /\ in.shield # None => hes[3] = Entry(in.shield, "SHIELD")
  <2>1. Extends(hes, he, S, in.shield, "SHIELD")
    BY <1>1, <1>3, RequestedFacts
  <2>. HIDE DEF hes
  <2>. QED
    BY <1>3, <2>1 DEF Extends
<1>. HIDE DEF hes
<1>5. Extends(hesw, hes, S, in.weapon, "WEAPON")
  BY <1>1, <1>4, RequestedFacts
<1>. HIDE DEF hesw
<1>6. requestedParts(in) = hesw
  BY DEF requestedParts, hesw, hes, he, h
<1>7. DOMAIN hesw = 1 .. Len(hesw)
  BY <1>5 DEF Extends
<1>. QED
  BY <1>4, <1>5, <1>6, <1>7 DEF Extends

\* The list has every part that is asked for, and no other.
LEMMA RequestFacts ==
    ASSUME NEW in \in Inputs
    PROVE  /\ Len(requestedParts(in)) \in 2 .. 4
           /\ DOMAIN requestedParts(in) = 1 .. Len(requestedParts(in))
           /\ \A i \in DOMAIN requestedParts(in) :
                 requestedParts(in)[i] \in [uuid : Asked(in), part_type : PartTypes]
           /\ \A u \in Asked(in) : \E i \in 1 .. Len(requestedParts(in)) :
                 requestedParts(in)[i].uuid = u
<1>. DEFINE req == requestedParts(in)
            n == Len(req)
            Entries == [uuid : Asked(in), part_type : PartTypes]
<1>1. /\ DOMAIN req = 1 .. n
      /\ n = IF in.shield = None THEN IF in.weapon = None THEN 2 ELSE 3
                                 ELSE IF in.weapon = None THEN 3 ELSE 4
      /\ req[1] = Entry(in.hull, "HULL")
      /\ req[2] = Entry(in.engine, "ENGINE")
      /\ in.shield # None => req[3] = Entry(in.shield, "SHIELD")
      /\ in.weapon # None => req[n] = Entry(in.weapon, "WEAPON")
  BY RequestList
<1>2. /\ \A u \in {in.hull, in.engine, in.shield, in.weapon} \ {None} :
            u \in Asked(in) /\ \A t \in PartTypes : Entry(u, t) \in Entries /\ Entry(u, t).uuid = u
      /\ \A u \in Asked(in) : u \in {in.hull, in.engine, in.shield, in.weapon} \ {None}
      /\ in.hull # None /\ in.engine # None
  BY InputsAssumption DEF Asked, Fields, Entry
<1>. HIDE DEF req, n, Entries
<1>3. n \in 2 .. 4
  BY <1>1
<1>4. ASSUME NEW i \in 1 .. n PROVE req[i] \in Entries
  <2>1. i = 1 \/ i = 2 \/ (in.shield # None /\ i = 3) \/ (in.weapon # None /\ i = n)
    BY <1>1
  <2>. QED
    BY <1>1, <1>2, <2>1 DEF PartTypes
<1>5. ASSUME NEW u \in Asked(in) PROVE \E i \in 1 .. n : req[i].uuid = u
  <2>1. 1 \in 1 .. n /\ 2 \in 1 .. n /\ n \in 1 .. n /\ (in.shield # None => 3 \in 1 .. n)
    BY <1>1
  <2>2. /\ req[1].uuid = in.hull /\ req[2].uuid = in.engine
        /\ in.shield # None => req[3].uuid = in.shield
        /\ in.weapon # None => req[n].uuid = in.weapon
    BY <1>1 DEF Entry
  <2>. QED
    BY <1>2, <2>1, <2>2
<1>. QED
  BY <1>1, <1>3, <1>4, <1>5 DEF req, n, Entries

\* The type under which each field of a body is requested.
TypeOf == [hull |-> "HULL", engine |-> "ENGINE", shield |-> "SHIELD", weapon |-> "WEAPON"]

\* Each field that is set is requested once under its type, and the others are not.
LEMMA RequestTypes ==
    ASSUME NEW in \in Inputs, NEW f \in Fields
    PROVE  \E i \in 0 .. Len(requestedParts(in)) :
              /\ i = 0 <=> in[f] = None
              /\ i # 0 => requestedParts(in)[i].uuid = in[f]
              /\ \A k \in 1 .. Len(requestedParts(in)) :
                    requestedParts(in)[k].part_type = TypeOf[f] <=> k = i
<1>. DEFINE req == requestedParts(in)
            n == Len(req)
            at == IF in[f] = None THEN 0
                  ELSE CASE f = "hull" -> 1 [] f = "engine" -> 2
                         [] f = "shield" -> 3 [] f = "weapon" -> n
<1>1. /\ n = IF in.shield = None THEN IF in.weapon = None THEN 2 ELSE 3
                                 ELSE IF in.weapon = None THEN 3 ELSE 4
      /\ req[1] = Entry(in.hull, "HULL")
      /\ req[2] = Entry(in.engine, "ENGINE")
      /\ in.shield # None => req[3] = Entry(in.shield, "SHIELD")
      /\ in.weapon # None => req[n] = Entry(in.weapon, "WEAPON")
  BY RequestList
<1>. HIDE DEF req, n
<1>2. /\ req[1].uuid = in.hull /\ req[1].part_type = "HULL"
      /\ req[2].uuid = in.engine /\ req[2].part_type = "ENGINE"
      /\ in.shield # None => req[3].uuid = in.shield /\ req[3].part_type = "SHIELD"
      /\ in.weapon # None => req[n].uuid = in.weapon /\ req[n].part_type = "WEAPON"
  BY <1>1 DEF Entry
<1>3. in.hull # None /\ in.engine # None
  BY InputsAssumption
<1>4. at \in 0 .. n /\ (at = 0 <=> in[f] = None) /\ (at # 0 => req[at].uuid = in[f])
  BY <1>1, <1>2, <1>3 DEF Fields
<1>5. ASSUME NEW k \in 1 .. n PROVE req[k].part_type = TypeOf[f] <=> k = at
  <2>1. k = 1 \/ k = 2 \/ (in.shield # None /\ k = 3) \/ (in.weapon # None /\ k = n)
    BY <1>1
  <2>. QED
    BY <1>1, <1>2, <1>3, <2>1 DEF Fields, TypeOf
<1>. HIDE DEF at
<1>. QED
  BY <1>4, <1>5 DEF req, n

\* The UUIDs that are sent are those asked for.
LEMMA SentFacts ==
    ASSUME NEW in \in Inputs
    PROVE  /\ partUUIDs(in) # <<>>
           /\ DOMAIN partUUIDs(in) = 1 .. Len(requestedParts(in))
           /\ ToSet(partUUIDs(in)) = Asked(in)
           /\ IsFiniteSet(Asked(in))
           /\ Cardinality(Asked(in)) <= Len(requestedParts(in))
           /\ (\A i, j \in 1 .. Len(requestedParts(in)) :
                  i # j => requestedParts(in)[i].uuid # requestedParts(in)[j].uuid)
                 <=> Cardinality(Asked(in)) = Len(requestedParts(in))
<1>. DEFINE n == Len(requestedParts(in))
            f == [i \in 1 .. n |-> requestedParts(in)[i].uuid]
<1>1. /\ n \in 2 .. 4 /\ DOMAIN requestedParts(in) = 1 .. n
      /\ \A i \in 1 .. n : requestedParts(in)[i].uuid \in Asked(in)
      /\ \A u \in Asked(in) : \E i \in 1 .. n : requestedParts(in)[i].uuid = u
  BY RequestFacts
<1>2. partUUIDs(in) = f
  BY <1>1 DEF partUUIDs
<1>. HIDE DEF n
<1>3. f # <<>> /\ DOMAIN f = 1 .. n
  <2>1. 1 \in DOMAIN f
    BY <1>1
  <2>2. DOMAIN <<>> = {}
    OBVIOUS
  <2>. QED
    BY <2>1, <2>2
<1>4. ToSet(f) = Asked(in)
  BY <1>1 DEF ToSet
<1>5. f \in Surjection(1 .. n, Asked(in))
  BY <1>1 DEF Surjection
<1>6. IsFiniteSet(1 .. n) /\ Cardinality(1 .. n) = n
  <2>1. n \in Int /\ ~ (1 > n) /\ n - 1 + 1 = n
    BY <1>1
  <2>. QED
    BY <2>1, FS_Interval
<1>7. f \in Injection(1 .. n, Asked(in))
         <=> \A i, j \in 1 .. n :
                i # j => requestedParts(in)[i].uuid # requestedParts(in)[j].uuid
  BY <1>1, <1>5 DEF Injection, IsInjective, Surjection
<1>. HIDE DEF f
<1>8. /\ IsFiniteSet(Asked(in))
      /\ Cardinality(Asked(in)) <= n
      /\ Cardinality(Asked(in)) = n <=> f \in Injection(1 .. n, Asked(in))
  <2>1. /\ IsFiniteSet(Asked(in))
        /\ Cardinality(Asked(in)) <= Cardinality(1 .. n)
        /\ Cardinality(Asked(in)) = Cardinality(1 .. n)
              <=> f \in Injection(1 .. n, Asked(in))
    BY <1>5, <1>6, FS_Surjection, Zenon
  <2>. QED
    BY <1>6, <2>1
<1>. QED
  BY <1>1, <1>2, <1>3, <1>4, <1>7, <1>8 DEF n

\* An enumeration of a finite set has all of it.
LEMMA Enumeration ==
    ASSUME NEW S, IsFiniteSet(S), NEW s \in SetToSeqs(S)
    PROVE  ToSet(s) = S
<1>. DEFINE n == Cardinality(S)
<1>1. n \in Nat
  BY FS_CardinalityType
<1>. HIDE DEF n
<1>2. s \in Injection(1 .. n, S)
  BY DEF SetToSeqs, Injection, IsInjective, n
<1>3. IsFiniteSet(1 .. n) /\ Cardinality(1 .. n) = n
  <2>1. IsFiniteSet(1 .. n) /\ Cardinality(1 .. n) = IF 1 > n THEN 0 ELSE n - 1 + 1
    BY <1>1, FS_Interval
  <2>. QED
    BY <1>1, <2>1
<1>4. s \in Surjection(1 .. n, S)
  <2>1. Cardinality(1 .. n) = Cardinality(S)
    BY <1>3 DEF n
  <2>. QED
    BY <1>2, <2>1, FS_Injection, Zenon
<1>. QED
  BY <1>4 DEF Surjection, ToSet

\* The map of a list of parts has each part of the list under its own UUID.
LEMMA MapFacts ==
    ASSUME NEW S, NEW parts, ToSet(parts) = {PartToModel(u) : u \in S}
    PROVE  /\ DOMAIN PartsByUUID(parts) = S
           /\ \A u \in S : PartsByUUID(parts)[u] = PartToModel(u)
<1>1. ASSUME NEW u PROVE PartToModel(u).uuid = u
  BY DEF PartToModel
<1>2. {part.uuid : part \in ToSet(parts)} = S
  BY <1>1
<1>3. ASSUME NEW u \in S
      PROVE  (CHOOSE part \in ToSet(parts) : part.uuid = u) = PartToModel(u)
  <2>1. PartToModel(u) \in ToSet(parts) /\ PartToModel(u).uuid = u
    BY <1>1
  <2>2. ASSUME NEW part \in ToSet(parts), part.uuid = u PROVE part = PartToModel(u)
    <3>1. PICK v \in S : part = PartToModel(v)
      OBVIOUS
    <3>. QED
      BY <1>1, <2>2, <3>1
  <2>. QED
    BY <2>1, <2>2
<1>. QED
  BY <1>2, <1>3 DEF PartsByUUID

\* What is scanned is the parts that the query selects.
LEMMA ScannedFacts ==
    ASSUME NEW q, IsFiniteSet(Selected(q)), NEW parts \in Scanned(q)
    PROVE  ToSet(parts) = {PartToModel(u) : u \in Selected(q)}
<1>1. PICK uuids \in SetToSeqs(Selected(q)) :
         parts = [i \in DOMAIN uuids |-> PartToModel(uuids[i])]
  BY DEF Scanned
<1>2. ToSet(uuids) = Selected(q)
  BY Enumeration
<1>. QED
  BY <1>1, <1>2 DEF ToSet

\* The parts asked for, each at its place.
InPlace(uuids) == [i \in DOMAIN uuids |-> PartToModel(uuids[i])]

\* A list by UUIDs is what was asked for, or nothing and for a reason.
LEMMA ListFacts ==
    ASSUME NEW q, q.uuids # <<>>, IsFiniteSet(ToSet(q.uuids)), NEW answer \in ListParts(q)
    PROVE  /\ answer.code = "OK" =>
                 answer.parts = InPlace(q.uuids) /\ ToSet(q.uuids) \subseteq Part
           /\ answer.code = "NotFound" => ~ (ToSet(q.uuids) \subseteq Part)
           /\ answer.code = "InvalidArgument" => BadUUID \in ToSet(q.uuids)
<1>1. Selected(q) = ToSet(q.uuids) \cap Part
  BY DEF Selected, Part
<1>2. IsFiniteSet(Selected(q))
  BY <1>1, FS_Subset
<1>3. ASSUME NEW parts \in Scanned(q), answer \in ListByUUIDs(q, parts)
      PROVE  \/ answer = Listed(InPlace(q.uuids)) /\ ToSet(q.uuids) \subseteq Part
             \/ answer = Status("NotFound") /\ ~ (ToSet(q.uuids) \subseteq Part)
  <2>. DEFINE partsByUUID == PartsByUUID(parts)
  <2>1. ToSet(parts) = {PartToModel(u) : u \in Selected(q)}
    BY <1>2, ScannedFacts
  <2>2. /\ DOMAIN partsByUUID = ToSet(q.uuids) \cap Part
        /\ \A u \in ToSet(q.uuids) \cap Part : partsByUUID[u] = PartToModel(u)
    BY <1>1, <2>1, MapFacts
  <2>3. \/ /\ answer = Listed([i \in DOMAIN q.uuids |-> partsByUUID[q.uuids[i]]])
           /\ ToSet(q.uuids) \subseteq DOMAIN partsByUUID
        \/ answer = Status("NotFound") /\ ~ (ToSet(q.uuids) \subseteq DOMAIN partsByUUID)
    BY <1>3 DEF ListByUUIDs
  <2>. HIDE DEF partsByUUID
  <2>4. ASSUME ToSet(q.uuids) \subseteq Part
        PROVE  [i \in DOMAIN q.uuids |-> partsByUUID[q.uuids[i]]] = InPlace(q.uuids)
    <3>1. \A i \in DOMAIN q.uuids : partsByUUID[q.uuids[i]] = PartToModel(q.uuids[i])
      BY <2>2, <2>4 DEF ToSet
    <3>. QED
      BY <3>1 DEF InPlace
  <2>5. ToSet(q.uuids) \subseteq DOMAIN partsByUUID <=> ToSet(q.uuids) \subseteq Part
    BY <2>2
  <2>. QED
    BY <2>3, <2>4, <2>5
<1>4. \/ answer = Status("InvalidArgument") /\ BadUUID \in ToSet(q.uuids)
      \/ answer = Status("Internal")
      \/ \E parts \in Scanned(q) : answer \in ListByUUIDs(q, parts)
  BY DEF ListParts
<1>. QED
  BY <1>3, <1>4 DEF Status, Listed

\* What Create gets for the parts it asked for.
LEMMA ListingFacts ==
    ASSUME NEW in \in Inputs,
           NEW answer \in ListParts([uuids |-> partUUIDs(in), part_type |-> "UNSPECIFIED"])
    PROVE  /\ answer.code = "OK" =>
                 /\ ToSet(answer.parts) = {PartToModel(u) : u \in Asked(in)}
                 /\ Asked(in) \subseteq Part
           /\ answer.code = "NotFound" => ~ (Asked(in) \subseteq Part)
           /\ answer.code = "InvalidArgument" => BadUUID \in Asked(in)
<1>. DEFINE q == [uuids |-> partUUIDs(in), part_type |-> "UNSPECIFIED"]
<1>1. /\ q.uuids # <<>> /\ ToSet(q.uuids) = Asked(in) /\ IsFiniteSet(ToSet(q.uuids))
      /\ answer \in ListParts(q)
  BY SentFacts
<1>. HIDE DEF q
<1>2. ToSet(InPlace(q.uuids)) = {PartToModel(u) : u \in ToSet(q.uuids)}
  BY DEF InPlace, ToSet
<1>. QED
  BY <1>1, <1>2, ListFacts

\* s has each part of S once, in the order of the names.
Enumerates(s, S) ==
    /\ IsInjective(s) /\ DOMAIN s \subseteq Int
    /\ ToSet(s) = {PartToModel(u) : u \in S}
    /\ \A i, j \in DOMAIN s : i < j => s[i].name <= s[j].name

\* A list of a type has each of its parts once, by name.
LEMMA SortedFacts ==
    ASSUME NEW q, q.uuids = <<>>, NEW answer \in ListParts(q), answer.code = "OK"
    PROVE  Enumerates(answer.parts, Selected(q))
<1>. DEFINE S == {PartToModel(u) : u \in Selected(q)}
            n == Cardinality(S)
<1>1. IsFiniteSet(Selected(q)) /\ IsFiniteSet(S)
  <2>1. Selected(q) \subseteq DOMAIN Catalog
    BY DEF Selected
  <2>2. IsFiniteSet(Selected(q))
    BY <2>1, CatalogAssumption, FS_Subset
  <2>. DEFINE f == [u \in Selected(q) |-> PartToModel(u)]
  <2>3. f \in Surjection(Selected(q), S)
    BY DEF Surjection
  <2>. HIDE DEF f, S
  <2>. QED
    BY <2>2, <2>3, FS_Surjection
<1>2. PICK parts \in Scanned(q) : answer \in ListByName(parts)
  BY DEF ListParts, Status
<1>3. ToSet(parts) = S
  BY <1>1, <1>2, ScannedFacts
<1>. HIDE DEF S
<1>4. PICK s \in SetToSeqs(S) : answer = Listed(s) /\ IsSorted(s, ByName)
  BY <1>2, <1>3 DEF ListByName
<1>5. answer.parts = s
  BY <1>4 DEF Listed
<1>6. ToSet(s) = S
  BY <1>1, <1>4, Enumeration
<1>7. n \in Nat
  BY <1>1, FS_CardinalityType
<1>8. s \in [1 .. n -> S] /\ IsInjective(s)
  BY <1>4 DEF SetToSeqs, IsInjective
<1>. HIDE DEF n
<1>9. DOMAIN s = 1 .. Len(s)
  BY <1>7, <1>8
<1>10. \A i, j \in DOMAIN s : i < j => s[i].name <= s[j].name
  BY <1>4, <1>9 DEF IsSorted, ByName
<1>. QED
  BY <1>5, <1>6, <1>8, <1>9, <1>10 DEF Enumerates, S

\* An answer that is as asked, of a list or of a single part.
AsAsked(q, answer) ==
    /\ q.uuids # <<>> =>
          /\ answer.code = "OK" => answer.parts = InPlace(q.uuids)
          /\ answer.code = "NotFound" => ~ (ToSet(q.uuids) \subseteq Part)
    /\ q.uuids = <<>> /\ answer.code = "OK" => Enumerates(answer.parts, Selected(q))

AllAsAsked ==
    /\ DOMAIN query = Callers /\ DOMAIN listing = Callers
    /\ \A c \in Callers : AsAsked(query[c], listing[c])

\* An answered call is never answered again.
LEMMA CallKeeps ==
    ASSUME AllAsAsked, NEW c \in Callers, NEW q, NEW answers, Call(c, q, answers),
           \A answer \in answers : AsAsked(q, answer)
    PROVE  AllAsAsked'
<1>1. PICK answer \in answers : listing' = [listing EXCEPT ![c] = answer]
  BY DEF Call
<1>2. query' = [query EXCEPT ![c] = q]
  BY DEF Call
<1>3. DOMAIN query' = Callers /\ DOMAIN listing' = Callers
  BY <1>1, <1>2 DEF AllAsAsked
<1>4. ASSUME NEW d \in Callers PROVE AsAsked(query'[d], listing'[d])
  <2>1. CASE d = c
    BY <1>1, <1>2, <2>1 DEF AllAsAsked
  <2>2. CASE d # c
    BY <1>1, <1>2, <2>2 DEF AllAsAsked
  <2>. QED
    BY <2>1, <2>2
<1>. QED
  BY <1>3, <1>4 DEF AllAsAsked, AsAsked

\* Every answer is as asked.
LEMMA InventoryInvHolds == InventorySpec => []AllAsAsked
<1>1. InventoryInit => AllAsAsked
  BY DEF InventoryInit, AllAsAsked, AsAsked, NoQuery, Status
<1>2. AllAsAsked /\ [InventoryNext]_inventoryVars => AllAsAsked'
  <2>. SUFFICES ASSUME AllAsAsked, [InventoryNext]_inventoryVars PROVE AllAsAsked'
    OBVIOUS
  <2>1. CASE UNCHANGED inventoryVars
    BY <2>1 DEF inventoryVars, AllAsAsked
  <2>2. ASSUME NEW c \in Callers, NEW q \in Queries, Call(c, q, ListParts(q))
        PROVE  AllAsAsked'
    <3>1. \A answer \in ListParts(q) : AsAsked(q, answer)
      BY ListFacts, SortedFacts, QueriesAssumption DEF AsAsked
    <3>. QED
      BY <2>2, <3>1, CallKeeps
  <2>3. ASSUME NEW c \in Callers, NEW u,
               Call(c, [uuids |-> <<u>>, part_type |-> "none"], GetPart(u))
        PROVE  AllAsAsked'
    <3>. DEFINE q == [uuids |-> <<u>>, part_type |-> "none"]
    <3>1. q.uuids = <<u>> /\ q.uuids # <<>> /\ ToSet(<<u>>) = {u}
      BY DEF ToSet
    <3>. HIDE DEF q
    <3>2. \A answer \in GetPart(u) : AsAsked(q, answer)
      <4>1. InPlace(<<u>>) = <<PartToModel(u)>>
        BY DEF InPlace
      <4>. QED
        BY <3>1, <4>1 DEF AsAsked, GetPart, Listed, Status, Part
    <3>3. Call(c, q, GetPart(u))
      BY <2>3 DEF q
    <3>. QED
      BY <3>2, <3>3, CallKeeps
  <2>. QED
    BY <2>1, <2>2, <2>3 DEF InventoryNext
<1>. QED
  BY <1>1, <1>2, PTL DEF InventorySpec

\* In whatever order the rows come, a list by UUIDs has at each place the part asked
\* for there, or is refused because one of them is unknown (list.go:56-71).
THEOREM ListsHold == InventorySpec => []ListsAsAsked
<1>1. AllAsAsked => ListsAsAsked
  BY DEF AllAsAsked, AsAsked, ListsAsAsked, InPlace, Part
<1>. QED
  BY <1>1, InventoryInvHolds, PTL

\* The list of a type is a piece of the list of everything (list.go:25-28, 74-76).
THEOREM ListingsHold == InventorySpec => []ListingsAgree
<1>1. ASSUME AllAsAsked PROVE ListingsAgree
  <2>. SUFFICES ASSUME NEW c \in Callers, NEW d \in Callers,
                       query[c] = [uuids |-> <<>>, part_type |-> "UNSPECIFIED"],
                       query[d].uuids = <<>>, query[d].part_type \in PartTypes,
                       listing[c].code = "OK", listing[d].code = "OK"
                PROVE  LET all   == listing[c].parts
                           piece == listing[d].parts
                       IN  /\ IsInjective(all) /\ IsInjective(piece)
                           /\ ToSet(all) = {PartToModel(u) : u \in DOMAIN Catalog}
                           /\ ToSet(piece) = {p \in ToSet(all) :
                                                 p.part_type = query[d].part_type}
                           /\ \A p, q \in ToSet(piece) :
                                 Before(piece, p, q) =>
                                    Before(all, p, q) \/ p.name = q.name
    BY Zenon DEF ListingsAgree
  <2>. DEFINE all   == listing[c].parts
              piece == listing[d].parts
              type  == query[d].part_type
  <2>1. Enumerates(all, Selected(query[c])) /\ Enumerates(piece, Selected(query[d]))
    BY <1>1 DEF AllAsAsked, AsAsked
  <2>2. query[c].uuids = <<>> /\ query[c].part_type = "UNSPECIFIED"
    OBVIOUS
  <2>3. Selected(query[c]) = DOMAIN Catalog
    BY <2>2 DEF Selected
  <2>4. Selected(query[d]) = {p \in DOMAIN Catalog : Catalog[p].part_type = type}
    BY DEF Selected, PartTypes
  <2>6. ToSet(all) = {PartToModel(u) : u \in DOMAIN Catalog}
    BY <2>1, <2>3 DEF Enumerates
  <2>7. ASSUME NEW u \in DOMAIN Catalog
        PROVE  /\ PartToModel(u).part_type = Catalog[u].part_type
               /\ PartToModel(u).name \in Nat
    BY CatalogAssumption DEF PartToModel
  <2>. HIDE DEF all, piece, type
  <2>8. ToSet(piece) = {p \in ToSet(all) : p.part_type = type}
    <3>1. ToSet(piece) = {PartToModel(u) : u \in {p \in DOMAIN Catalog :
                                                    Catalog[p].part_type = type}}
      BY <2>1, <2>4 DEF Enumerates
    <3>. QED
      BY <2>6, <2>7, <3>1
  <2>5. ASSUME NEW p \in ToSet(piece), NEW q \in ToSet(piece), Before(piece, p, q),
               p.name # q.name
        PROVE  Before(all, p, q)
    <3>1. PICK i, j \in DOMAIN all : all[i] = p /\ all[j] = q
      BY <2>8 DEF ToSet
    <3>2. p.name <= q.name
      BY <2>1, <2>5 DEF Before, Enumerates
    <3>3. p.name \in Nat /\ q.name \in Nat
      BY <2>6, <2>7, <2>8
    <3>4. ~ (j < i)
      BY <2>1, <2>5, <3>1, <3>2, <3>3 DEF Enumerates
    <3>5. i < j
      BY <2>1, <2>5, <3>1, <3>4 DEF Enumerates
    <3>. QED
      BY <3>1, <3>5 DEF Before
  <2>. QED
    BY <2>1, <2>5, <2>6, <2>8 DEF Enumerates, all, piece, type
<1>. QED
  BY <1>1, InventoryInvHolds, PTL

-----------------------------------------------------------------------------
(* The inductive invariant: what is true of a request at each of its steps,*)
(* and of the tables.                                                      *)

Creating == {"ListParts", "Price", "InsertOrder", "InsertItem", "Commit"}
Inserting == {"InsertOrder", "InsertItem", "Commit"}
Reading == {"GetOrder", "GetItems", "OrderToModel"}

Labels == {"idle", "done", "lost"} \cup Creating \cup Reading

\* A request to create an order has a body whose UUIDs are well formed, and one
\* to read an order has a UUID.
Asking(r) ==
    /\ pc[r] \in Creating => input[r] \in Inputs /\ BadUUID \notin Asked(input[r])
    /\ pc[r] \in Reading => input[r] \in OrderUUIDs

\* What InventoryService answered is true of the parts that were asked for.
Priced(r) ==
    pc[r] = "Price" =>
        /\ listing[r].code = "OK" =>
              /\ ToSet(listing[r].parts) = {PartToModel(u) : u \in Asked(input[r])}
              /\ Asked(input[r]) \subseteq Part
        /\ listing[r].code = "NotFound" => ~ (Asked(input[r]) \subseteq Part)
        /\ listing[r].code = "InvalidArgument" => BadUUID \in Asked(input[r])

Available(in) ==
    /\ Asked(in) \subseteq Part
    /\ \A p \in Asked(in) : ~ (Catalog[p].stock_quantity <= 0)

\* An item at the price of its part.
PricedItem(requested) == Item(requested, Catalog[requested.uuid].price)

\* An order that is being inserted is the one that was asked for, under a UUID
\* that is not in the table.
Drafted(r) ==
    pc[r] \in Inserting =>
        /\ draft[r].uuid \in OrderUUIDs \ orders
        /\ Available(input[r])
        /\ draft[r].items = [i \in DOMAIN requestedParts(input[r]) |->
                                PricedItem(requestedParts(input[r])[i])]

Rows(r, k) == {ItemRow(r, i) : i \in 1 .. k}

\* The transaction holds the first k items, no part twice.
Written(r, k) ==
    /\ k \in 0 .. Len(draft[r].items)
    /\ tx[r] = [orders |-> {draft[r].uuid}, items |-> Rows(r, k)]
    /\ IsFiniteSet(Rows(r, k)) /\ Cardinality(Rows(r, k)) = k
    /\ \A i, j \in 1 .. k : i # j => draft[r].items[i].part # draft[r].items[j].part

Writing(r) ==
    /\ pc[r] \notin {"InsertItem", "Commit"} => tx[r] = NoRows
    /\ pc[r] = "InsertItem" => \E k \in Nat : k < Len(draft[r].items) /\ Written(r, k)
    /\ pc[r] = "Commit" => Written(r, Len(draft[r].items))

\* AnswersAreTrue of one request.
Truthful(r) ==
    input[r] \in Inputs /\ pc[r] = "done" =>
        LET asked == Asked(input[r])
            known == asked \subseteq Part
            exhausted == \E p \in asked \cap Part : Catalog[p].stock_quantity <= 0
            twice == Cardinality(asked) < Len(requestedParts(input[r]))
        IN  CASE response[r].code = 201 -> known /\ ~ exhausted /\ ~ twice
              [] response[r].code = 400 -> BadUUID \in asked
              [] response[r].code = 404 -> ~ known /\ BadUUID \notin asked
              [] response[r].code = 409 -> known /\ exhausted
              [] response[r].code = 500 -> BadUUID \notin asked
              [] OTHER -> FALSE

Local(r) == Asking(r) /\ Priced(r) /\ Drafted(r) /\ Writing(r) /\ Truthful(r)

Shapes ==
    /\ pc \in [Callers -> Labels]
    /\ Callers = DOMAIN input /\ Callers = DOMAIN draft /\ Callers = DOMAIN tx
    /\ Callers = DOMAIN listing /\ Callers = DOMAIN response

\* No two requests have drawn one UUID.
DraftsDiffer ==
    \A r, q \in Callers : r # q /\ draft[r].uuid = draft[q].uuid => draft[r].uuid = None

\* OrdersAreWhole, of requests that are done.
MadeBy(r, o) ==
    /\ pc[r] = "done"
    /\ draft[r].uuid = o
    /\ {row \in items : row.order = o} = {ItemRow(r, i) : i \in DOMAIN draft[r].items}
    /\ Cardinality(Asked(input[r])) = Len(draft[r].items)

Committed ==
    /\ \A row \in items : row.order \in orders
    /\ \A o \in orders : \E r \in Callers : MadeBy(r, o)

Inv ==
    /\ Shapes
    /\ \A r \in Callers : Local(r)
    /\ DraftsDiffer
    /\ Committed

\* At the start there is no request, and no order.
LEMMA InitInv == Init => Inv
<1>. SUFFICES ASSUME Init PROVE Inv
  OBVIOUS
<1>1. Shapes
  BY DEF Init, InventoryInit, Shapes, Labels
<1>2. ASSUME NEW r \in Callers PROVE Local(r)
  BY DEF Init, Local, Asking, Priced, Drafted, Writing, Truthful,
         Creating, Inserting, Reading
<1>3. DraftsDiffer
  BY DEF Init, DraftsDiffer, NoDraft
<1>4. Committed
  BY DEF Init, Committed
<1>. QED
  BY <1>1, <1>2, <1>3, <1>4 DEF Inv

\* What an order in hand is made of.
LEMMA DraftFacts ==
    ASSUME NEW r \in Callers, Inv, pc[r] \in Inserting
    PROVE  /\ Len(draft[r].items) \in 2 .. 4
           /\ Len(draft[r].items) = Len(requestedParts(input[r]))
           /\ DOMAIN draft[r].items = 1 .. Len(draft[r].items)
           /\ \A i \in 1 .. Len(draft[r].items) :
                 draft[r].items[i].part = requestedParts(input[r])[i].uuid
<1>1. /\ input[r] \in Inputs
      /\ draft[r].items = [i \in DOMAIN requestedParts(input[r]) |->
                              PricedItem(requestedParts(input[r])[i])]
  BY DEF Inv, Local, Asking, Drafted, Creating, Inserting
<1>. DEFINE n == Len(requestedParts(input[r]))
<1>2. n \in 2 .. 4 /\ DOMAIN requestedParts(input[r]) = 1 .. n
  BY <1>1, RequestFacts
<1>3. DOMAIN draft[r].items = 1 .. n
  BY <1>1, <1>2
<1>4. \A i \in 1 .. n : draft[r].items[i].part = requestedParts(input[r])[i].uuid
  BY <1>1, <1>2 DEF PricedItem, Item
<1>5. Len(draft[r].items) = n
  <2>. HIDE DEF n
  <2>1. draft[r].items \in Seq({draft[r].items[i] : i \in 1 .. n})
    BY <1>1, <1>2 DEF n
  <2>. QED
    BY <1>2, <1>3, <2>1
<1>. QED
  BY <1>2, <1>3, <1>4, <1>5

-----------------------------------------------------------------------------
(* Steps.                                                                  *)

\* A step of a request, as the others see it: it leaves their variables alone,
\* and the tables too unless it commits.
Alone(r) ==
    /\ pc[r] # "done" /\ pc' \in [Callers -> Labels]
    /\ Callers = DOMAIN input' /\ Callers = DOMAIN draft' /\ Callers = DOMAIN tx'
    /\ Callers = DOMAIN listing' /\ Callers = DOMAIN response'
    /\ \A q \in Callers : q # r =>
          /\ pc'[q] = pc[q] /\ input'[q] = input[q] /\ draft'[q] = draft[q]
          /\ tx'[q] = tx[q] /\ listing'[q] = listing[q] /\ response'[q] = response[q]

Quiet(r) == Alone(r) /\ UNCHANGED <<orders, items>>

Commits(r) ==
    /\ Alone(r)
    /\ pc[r] = "Commit" /\ pc'[r] = "done"
    /\ orders' = orders \cup {draft[r].uuid}
    /\ items' = items \cup Rows(r, Len(draft[r].items))
    /\ UNCHANGED <<draft, input>>

\* The drafts of others stay; a new one has a UUID of its own.
Draws(r) ==
    \/ UNCHANGED draft
    \/ \A q \in Callers : draft'[r].uuid # draft[q].uuid

\* A refusal, of a request that has written nothing or is rolled back.
LEMMA RefuseFacts ==
    ASSUME NEW r \in Callers, NEW code, Inv, pc[r] # "done", Refuse(r, code),
           listing' = listing, orders' = orders, items' = items, draft' = draft,
           Callers = DOMAIN input' /\ Callers = DOMAIN tx',
           \A q \in Callers : q # r => input'[q] = input[q] /\ tx'[q] = tx[q]
    PROVE  Quiet(r) /\ Draws(r) /\ pc'[r] = "done" /\ response'[r].code = code
<1>. USE DEF Inv, Shapes
<1>1. /\ pc' = [pc EXCEPT ![r] = "done"]
      /\ response' = [response EXCEPT ![r] = [NoResponse EXCEPT !.code = code]]
  BY DEF Refuse, Reply, Goto
<1>2. pc'[r] = "done" /\ response'[r] = [NoResponse EXCEPT !.code = code]
  BY <1>1
<1>3. response'[r].code = code
  BY <1>2 DEF NoResponse
<1>4. /\ pc' \in [Callers -> Labels] /\ Callers = DOMAIN response'
      /\ \A q \in Callers : q # r => pc'[q] = pc[q] /\ response'[q] = response[q]
  BY <1>1 DEF Labels
<1>. QED
  BY <1>2, <1>3, <1>4 DEF Quiet, Alone, Draws

\* Create checks the UUIDs, before it asks for the parts.
LEMMA BeginSteps ==
    ASSUME NEW r \in Callers, NEW in \in Inputs, Inv, Begin(r, in)
    PROVE  Quiet(r) /\ Draws(r) /\ Local(r)'
<1>. USE DEF Inv, Shapes
<1>1. Local(r)
  OBVIOUS
<1>2. CASE BadUUID \in {in[f] : f \in Fields}
  <2>1. Refuse(r, 400)
    BY <1>2 DEF Begin
  <2>6. /\ listing' = listing /\ orders' = orders /\ items' = items /\ draft' = draft
        /\ pc[r] # "done" /\ Callers = DOMAIN input' /\ Callers = DOMAIN tx'
        /\ \A q \in Callers : q # r => input'[q] = input[q] /\ tx'[q] = tx[q]
    BY DEF Begin, inventoryVars
  <2>2. pc'[r] = "done" /\ response'[r].code = 400 /\ Quiet(r) /\ Draws(r)
    BY <2>1, <2>6, RefuseFacts
  <2>5. input'[r] = in /\ tx'[r] = tx[r]
    BY DEF Begin
  <2>3. BadUUID \in Asked(in)
    BY <1>2, NoneAssumption DEF Asked
  <2>4. tx[r] = NoRows
    BY <1>1 DEF Local, Writing, Begin
  <2>. QED
    BY <2>2, <2>3, <2>4, <2>5 DEF Quiet, Local, Asking, Priced, Drafted, Writing, Truthful,
                            Creating, Reading, Inserting
<1>3. CASE BadUUID \notin {in[f] : f \in Fields}
  <2>1. pc'[r] = "ListParts" /\ Alone(r) /\ Draws(r)
        /\ UNCHANGED <<orders, items>> /\ input'[r] = in /\ tx'[r] = tx[r]
    BY <1>3 DEF Begin, Goto, Alone, Draws, Labels, Creating, inventoryVars
  <2>2. BadUUID \notin Asked(in)
    BY <1>3 DEF Asked
  <2>3. tx[r] = NoRows
    BY <1>1 DEF Local, Writing, Begin
  <2>. QED
    BY <2>1, <2>2, <2>3 DEF Quiet, Local, Asking, Priced, Drafted, Writing, Truthful,
                            Creating, Reading, Inserting
<1>. QED
  BY <1>2, <1>3

\* What InventoryService answers is true of the parts.
LEMMA CallSteps ==
    ASSUME NEW r \in Callers, Inv, CallListParts(r)
    PROVE  Quiet(r) /\ Draws(r) /\ Local(r)'
<1>. USE DEF Inv, Shapes
<1>. DEFINE q == [uuids |-> partUUIDs(input[r]), part_type |-> "UNSPECIFIED"]
<1>1. Local(r) /\ pc[r] = "ListParts" /\ input[r] \in Inputs
  BY DEF Local, Asking, Creating, CallListParts
<1>2. PICK answer \in ListParts(q) : listing' = [listing EXCEPT ![r] = answer]
  BY DEF CallListParts, Call
<1>3. /\ answer.code = "OK" =>
            /\ ToSet(answer.parts) = {PartToModel(u) : u \in Asked(input[r])}
            /\ Asked(input[r]) \subseteq Part
      /\ answer.code = "NotFound" => ~ (Asked(input[r]) \subseteq Part)
      /\ answer.code = "InvalidArgument" => BadUUID \in Asked(input[r])
  <2>1. PICK in \in Inputs : in = input[r]
    BY <1>1
  <2>. QED
    BY <2>1, ListingFacts
<1>. HIDE DEF q
<1>4. Quiet(r) /\ Draws(r) /\ pc'[r] = "Price" /\ listing'[r] = answer
      /\ UNCHANGED <<input, draft, tx>>
  BY <1>2 DEF CallListParts, Goto, Quiet, Alone, Draws, Labels, Creating
<1>. QED
  BY <1>1, <1>3, <1>4 DEF Local, Asking, Priced, Drafted, Writing, Truthful,
                          Creating, Reading, Inserting

\* A list that failed is refused for its reason.
LEMMA RefuseListingSteps ==
    ASSUME NEW r \in Callers, Inv, RefuseListing(r)
    PROVE  Quiet(r) /\ Draws(r) /\ Local(r)'
<1>. USE DEF Inv, Shapes
<1>. DEFINE code == CASE listing[r].code = "NotFound"        -> 404
                      [] listing[r].code = "InvalidArgument" -> 400
                      [] OTHER                               -> 500
<1>1. Local(r) /\ pc[r] = "Price" /\ Refuse(r, code)
  BY DEF RefuseListing
<1>2. \/ code = 404 /\ listing[r].code = "NotFound"
      \/ code = 400 /\ listing[r].code = "InvalidArgument"
      \/ code = 500
  BY SMTT(30)
<1>. HIDE DEF code
<1>3. Quiet(r) /\ Draws(r) /\ pc'[r] = "done" /\ response'[r].code = code
      /\ UNCHANGED <<input, draft, tx>>
  BY <1>1, RefuseFacts DEF RefuseListing, inventoryVars
<1>4. input[r] \in Inputs /\ BadUUID \notin Asked(input[r]) /\ tx[r] = NoRows
  BY <1>1 DEF Local, Asking, Writing, Creating
<1>5. code = 404 => ~ (Asked(input[r]) \subseteq Part)
  BY <1>1, <1>2 DEF Local, Priced
<1>6. code # 400
  BY <1>1, <1>2, <1>4 DEF Local, Priced
<1>. QED
  BY <1>2, <1>3, <1>4, <1>5, <1>6 DEF Local, Asking, Priced, Drafted, Writing, Truthful,
                          Creating, Reading, Inserting

\* A list that came has all that was asked for, so that only stock can fail.
LEMMA RefusePartsSteps ==
    ASSUME NEW r \in Callers, Inv, RefuseParts(r)
    PROVE  Quiet(r) /\ Draws(r) /\ Local(r)'
<1>. USE DEF Inv, Shapes
<1>1. Local(r) /\ pc[r] = "Price" /\ listing[r].code = "OK"
  BY DEF RefuseParts
<1>2. input[r] \in Inputs /\ BadUUID \notin Asked(input[r]) /\ tx[r] = NoRows
      /\ ToSet(listing[r].parts) = {PartToModel(u) : u \in Asked(input[r])}
      /\ Asked(input[r]) \subseteq Part
  BY <1>1 DEF Local, Asking, Priced, Writing, Creating
<1>3. ToSet(partUUIDs(input[r])) = Asked(input[r]) /\ DOMAIN partByUUID(r) = Asked(input[r])
  BY <1>2, SentFacts, MapFacts DEF partByUUID
<1>4. OutOfStock(r) /\ Refuse(r, 409)
  BY <1>2, <1>3 DEF RefuseParts, Missing
<1>5. \E p \in Asked(input[r]) \cap Part : Catalog[p].stock_quantity <= 0
  BY <1>2, <1>4 DEF OutOfStock, PartToModel
<1>6. Quiet(r) /\ Draws(r) /\ pc'[r] = "done" /\ response'[r].code = 409
      /\ UNCHANGED <<input, draft, tx>>
  <2>1. /\ listing' = listing /\ orders' = orders /\ items' = items /\ draft' = draft
        /\ input' = input /\ tx' = tx /\ pc[r] # "done"
        /\ Callers = DOMAIN input' /\ Callers = DOMAIN tx'
        /\ \A q \in Callers : q # r => input'[q] = input[q] /\ tx'[q] = tx[q]
    BY <1>1 DEF RefuseParts, inventoryVars
  <2>. QED
    BY <1>4, <2>1, RefuseFacts
<1>. QED
  BY <1>2, <1>5, <1>6 DEF Local, Asking, Priced, Drafted, Writing, Truthful,
                          Creating, Reading, Inserting

\* The items of a draft are at the prices of their parts.
LEMMA PricedFacts ==
    ASSUME NEW r \in Callers, input[r] \in Inputs,
           ToSet(listing[r].parts) = {PartToModel(u) : u \in Asked(input[r])}
    PROVE  pricedItems(r) = [i \in DOMAIN requestedParts(input[r]) |->
                                PricedItem(requestedParts(input[r])[i])]
<1>1. \A u \in Asked(input[r]) : partByUUID(r)[u] = PartToModel(u)
  BY MapFacts DEF partByUUID
<1>2. \A u : PartToModel(u).price = Catalog[u].price
  BY DEF PartToModel
<1>3. \A i \in DOMAIN requestedParts(input[r]) : requestedParts(input[r])[i].uuid \in Asked(input[r])
  BY RequestFacts
<1>. DEFINE req == requestedParts(input[r])
<1>4. \A i \in DOMAIN req : partByUUID(r)[req[i].uuid] = PartToModel(req[i].uuid)
  BY <1>1, <1>3
<1>5. \A i \in DOMAIN req : partByUUID(r)[req[i].uuid].price = Catalog[req[i].uuid].price
  BY <1>2, <1>4, Zenon
<1>. HIDE DEF req
<1>6. \A i \in DOMAIN req :
         Item(req[i], partByUUID(r)[req[i].uuid].price) = PricedItem(req[i])
  BY <1>5 DEF PricedItem
<1>7. pricedItems(r) = [i \in DOMAIN req |-> Item(req[i], partByUUID(r)[req[i].uuid].price)]
  BY Zenon DEF pricedItems, req
<1>8. pricedItems(r) = [i \in DOMAIN req |-> PricedItem(req[i])]
  BY <1>6, <1>7, Zenon
<1>. QED
  BY <1>8 DEF req

\* A UUID that is drawn is of no order in the table: those are the drafts of
\* others.
LEMMA DrawSteps ==
    ASSUME NEW r \in Callers, Inv, Draw(r)
    PROVE  Quiet(r) /\ Draws(r) /\ Local(r)'
<1>. USE DEF Inv, Shapes
<1>1. Local(r) /\ pc[r] = "Price" /\ listing[r].code = "OK"
  BY DEF Draw
<1>2. input[r] \in Inputs /\ BadUUID \notin Asked(input[r]) /\ tx[r] = NoRows
      /\ ToSet(listing[r].parts) = {PartToModel(u) : u \in Asked(input[r])}
      /\ Asked(input[r]) \subseteq Part
  BY <1>1 DEF Local, Asking, Priced, Writing, Creating
<1>3. PICK o \in OrderUUIDs : NewRandom(o) /\ draft' = [draft EXCEPT ![r] = Draft(r, o)]
  BY DEF Draw
<1>4. Available(input[r])
  <2>1. ASSUME NEW p \in Asked(input[r]) PROVE ~ (Catalog[p].stock_quantity <= 0)
    <3>1. PartToModel(p) \in ToSet(listing[r].parts)
      BY <1>2
    <3>2. ~ (PartToModel(p).stock_quantity <= 0)
      BY <3>1 DEF Draw, OutOfStock
    <3>. QED
      BY <3>2 DEF PartToModel
  <2>. QED
    BY <1>2, <2>1 DEF Available
<1>5. o \notin orders
  BY <1>3 DEF NewRandom, Committed, MadeBy
<1>6. /\ draft'[r].uuid = o
      /\ draft'[r].items = [i \in DOMAIN requestedParts(input[r]) |->
                               PricedItem(requestedParts(input[r])[i])]
  <2>1. draft'[r] = Draft(r, o)
    BY <1>3
  <2>2. draft'[r].uuid = o /\ draft'[r].items = pricedItems(r)
    BY <2>1 DEF Draft
  <2>3. pricedItems(r) = [i \in DOMAIN requestedParts(input[r]) |->
                             PricedItem(requestedParts(input[r])[i])]
    BY <1>2, PricedFacts
  <2>. QED
    BY <2>2, <2>3
<1>7. Quiet(r) /\ pc'[r] = "InsertOrder" /\ UNCHANGED <<input, tx>>
  BY <1>1, <1>3 DEF Draw, Goto, Quiet, Alone, Labels, Creating, inventoryVars
<1>8. Draws(r)
  BY <1>3, <1>6 DEF Draws, NewRandom
<1>. QED
  BY <1>2, <1>4, <1>5, <1>6, <1>7, <1>8
     DEF Quiet, Local, Asking, Priced, Drafted, Writing, Truthful, Available,
         Creating, Reading, Inserting

-----------------------------------------------------------------------------
(* Steps of the transaction.                                               *)

\* The transaction begins with the order and no item.
LEMMA InsertOrderSteps ==
    ASSUME NEW r \in Callers, Inv, InsertOrder(r)
    PROVE  Quiet(r) /\ Draws(r) /\ Local(r)'
<1>. USE DEF Inv, Shapes
<1>1. Local(r) /\ pc[r] = "InsertOrder"
  BY DEF InsertOrder
<1>2. Quiet(r) /\ Draws(r) /\ pc'[r] = "InsertItem" /\ UNCHANGED <<input, draft>>
  BY <1>1 DEF InsertOrder, Write, Goto, Quiet, Alone, Draws, Labels, Creating, inventoryVars
<1>3. tx'[r] = [orders |-> {draft[r].uuid}, items |-> {}]
  <2>1. tx[r] = NoRows
    BY <1>1 DEF Local, Writing
  <2>2. tx'[r] = [orders |-> tx[r].orders \cup {draft[r].uuid},
                 items  |-> tx[r].items \cup {}]
    BY DEF InsertOrder, Write, NoRows
  <2>3. tx[r].orders = {} /\ tx[r].items = {}
    BY <2>1 DEF NoRows
  <2>4. {} \cup {draft[r].uuid} = {draft[r].uuid} /\ {} \cup {} = {}
    OBVIOUS
  <2>. QED
    BY <2>2, <2>3, <2>4
<1>4. Len(draft[r].items) \in Nat /\ 0 < Len(draft[r].items)
  <2>. HIDE DEF Inv, Shapes
  <2>. DEFINE n == Len(draft[r].items)
  <2>1. n \in 2 .. 4
    BY <1>1, DraftFacts DEF Inserting
  <2>. HIDE DEF n
  <2>2. n \in Nat /\ 0 < n
    BY <2>1
  <2>. QED
    BY <2>2 DEF n
<1>5. Rows(r, 0)' = {} /\ IsFiniteSet({}) /\ Cardinality({}) = 0
  <2>1. 1 .. 0 = {}
    OBVIOUS
  <2>2. Rows(r, 0)' = {}
    BY <2>1 DEF Rows
  <2>. QED
    BY <2>2, FS_EmptySet
<1>6. Written(r, 0)'
  <2>1. 1 .. 0 = {} /\ 0 \in 0 .. Len(draft'[r].items)
    BY <1>2, <1>4
  <2>2. tx'[r] = [orders |-> {draft'[r].uuid}, items |-> Rows(r, 0)']
    BY <1>2, <1>3, <1>5
  <2>. QED
    BY <1>5, <2>1, <2>2 DEF Written
<1>7. Writing(r)'
  BY <1>2, <1>4, <1>6 DEF Writing
<1>. QED
  BY <1>1, <1>2, <1>7 DEF Quiet, Local, Asking, Priced, Drafted, Truthful, Available,
                          Creating, Reading, Inserting

\* The next item is another part, so that there is one row more.
LEMMA InsertItemSteps ==
    ASSUME NEW r \in Callers, Inv, InsertItem(r)
    PROVE  Quiet(r) /\ Draws(r) /\ Local(r)'
<1>. USE DEF Inv, Shapes
<1>1. Local(r) /\ pc[r] = "InsertItem"
  BY DEF InsertItem
<1>2. PICK k \in Nat : k < Len(draft[r].items) /\ Written(r, k)
  BY <1>1 DEF Local, Writing
<1>3. Len(draft[r].items) \in Nat
  BY <1>1, DraftFacts DEF Inserting
<1>4. tx[r].orders = {draft[r].uuid} /\ tx[r].items = Rows(r, k) /\ NextItem(r) = k + 1
  BY <1>2 DEF Written, NextItem
<1>5. \A i \in 1 .. k : draft[r].items[i].part # draft[r].items[k + 1].part
  <2>. SUFFICES ASSUME NEW i \in 1 .. k,
                       draft[r].items[i].part = draft[r].items[k + 1].part
                PROVE  FALSE
    OBVIOUS
  <2>1. ItemRow(r, i) \in tx[r].items
    BY <1>4 DEF Rows
  <2>2. /\ ItemRow(r, i).order = draft[r].uuid
        /\ ItemRow(r, i).part = draft[r].items[k + 1].part
    BY DEF ItemRow
  <2>. QED
    BY <1>4, <2>1, <2>2 DEF InsertItem, Duplicate
<1>6. Quiet(r) /\ Draws(r) /\ UNCHANGED <<input, draft>>
      /\ pc'[r] = IF k + 1 = Len(draft[r].items) THEN "Commit" ELSE "InsertItem"
  BY <1>1, <1>4
     DEF InsertItem, Write, Goto, Quiet, Alone, Draws, Labels, Creating, inventoryVars
<1>7. tx'[r] = [orders |-> {draft[r].uuid}, items |-> Rows(r, k) \cup {ItemRow(r, k + 1)}]
  BY <1>4 DEF InsertItem, Write, NoRows
<1>8. /\ Rows(r, k + 1) = Rows(r, k) \cup {ItemRow(r, k + 1)}
      /\ ItemRow(r, k + 1) \notin Rows(r, k)
  <2>1. \A i \in 1 .. k : ItemRow(r, i) # ItemRow(r, k + 1)
    BY <1>5 DEF ItemRow
  <2>2. \A i : i \in 1 .. k + 1 <=> i \in 1 .. k \/ i = k + 1
    OBVIOUS
  <2>. QED
    BY <2>1, <2>2 DEF Rows
<1>9. IsFiniteSet(Rows(r, k + 1)) /\ Cardinality(Rows(r, k + 1)) = k + 1
  <2>1. IsFiniteSet(Rows(r, k)) /\ Cardinality(Rows(r, k)) = k
    BY <1>2 DEF Written
  <2>. HIDE DEF Inv, Shapes
  <2>2. /\ IsFiniteSet(Rows(r, k) \cup {ItemRow(r, k + 1)})
        /\ Cardinality(Rows(r, k) \cup {ItemRow(r, k + 1)}) = Cardinality(Rows(r, k)) + 1
    BY <1>8, <2>1, FS_AddElement
  <2>. QED
    BY <1>8, <2>1, <2>2
<1>10. \A i, j \in 1 .. k + 1 : i # j => draft[r].items[i].part # draft[r].items[j].part
  BY <1>2, <1>5 DEF Written
<1>11. Rows(r, k + 1)' = Rows(r, k + 1)
  BY <1>6 DEF Rows, ItemRow
<1>12. Written(r, k + 1)'
  <2>1. k + 1 \in 0 .. Len(draft'[r].items)
    BY <1>2, <1>3, <1>6
  <2>2. tx'[r] = [orders |-> {draft'[r].uuid}, items |-> Rows(r, k + 1)']
    BY <1>6, <1>7, <1>8, <1>11
  <2>3. IsFiniteSet(Rows(r, k + 1)') /\ Cardinality(Rows(r, k + 1)') = k + 1
    BY <1>9, <1>11
  <2>4. \A i, j \in 1 .. k + 1 : i # j => draft'[r].items[i].part # draft'[r].items[j].part
    BY <1>6, <1>10
  <2>. QED
    BY <2>1, <2>2, <2>3, <2>4 DEF Written
<1>13. Writing(r)'
  <2>1. CASE k + 1 = Len(draft[r].items)
    BY <1>6, <1>12, <2>1 DEF Writing
  <2>2. CASE k + 1 # Len(draft[r].items)
    BY <1>2, <1>3, <1>6, <1>12, <2>2 DEF Writing
  <2>. QED
    BY <2>1, <2>2
<1>. QED
  BY <1>1, <1>6, <1>13 DEF Quiet, Local, Asking, Priced, Drafted, Truthful, Available,
                           Creating, Reading, Inserting

\* A COMMIT puts the items of the order into the table, each part once.
LEMMA CommitFacts ==
    ASSUME NEW r \in Callers, Inv, CommitTx(r), Alone(r), pc'[r] = "done"
    PROVE  /\ Commits(r) /\ Draws(r) /\ Local(r) /\ tx'[r] = NoRows
           /\ input[r] \in Inputs /\ BadUUID \notin Asked(input[r]) /\ Available(input[r])
           /\ Cardinality(Asked(input[r])) = Len(requestedParts(input[r]))
<1>. USE DEF Inv, Shapes
<1>1. Local(r) /\ pc[r] = "Commit"
  BY DEF CommitTx
<1>2. Written(r, Len(draft[r].items))
  BY <1>1 DEF Local, Writing
<1>3. Commits(r) /\ Draws(r) /\ tx'[r] = NoRows
  <2>1. tx[r].orders = {draft[r].uuid} /\ tx[r].items = Rows(r, Len(draft[r].items))
    BY <1>2 DEF Written
  <2>. QED
    BY <1>1, <2>1 DEF CommitTx, Commits, Draws
<1>4. input[r] \in Inputs /\ BadUUID \notin Asked(input[r]) /\ Available(input[r])
  BY <1>1 DEF Local, Asking, Drafted, Creating, Inserting
<1>5. \A i, j \in 1 .. Len(requestedParts(input[r])) :
         i # j => requestedParts(input[r])[i].uuid # requestedParts(input[r])[j].uuid
  BY <1>1, <1>2, DraftFacts DEF Written, Inserting
<1>6. Cardinality(Asked(input[r])) = Len(requestedParts(input[r]))
  BY <1>4, <1>5, SentFacts
<1>. QED
  BY <1>1, <1>3, <1>4, <1>6

\* Whatever the client is told of the COMMIT.
LEMMA CommitSteps ==
    ASSUME NEW r \in Callers, Inv, Commit(r) \/ CommitUnknown(r)
    PROVE  /\ Commits(r) /\ Draws(r) /\ Local(r)'
           /\ Cardinality(Asked(input[r])) = Len(requestedParts(input[r]))
<1>. USE DEF Inv, Shapes
<1>1. CommitTx(r) /\ pc[r] = "Commit"
  BY DEF Commit, CommitUnknown, CommitTx
<1>2. /\ pc' = [pc EXCEPT ![r] = "done"]
      /\ Callers = DOMAIN response'
      /\ \A q \in Callers : q # r => response'[q] = response[q]
      /\ response'[r].code \in {201, 500}
  <2>1. CASE Commit(r)
    <3>. DEFINE answer == [NoResponse EXCEPT !.code = 201, !.order = draft[r].uuid,
                                             !.total = draft[r].total]
    <3>1. answer.code = 201
      BY DEF NoResponse
    <3>2. pc' = [pc EXCEPT ![r] = "done"] /\ response' = [response EXCEPT ![r] = answer]
      BY <2>1 DEF Commit, Reply, Goto
    <3>. HIDE DEF answer
    <3>. QED
      BY <3>1, <3>2
  <2>2. CASE CommitUnknown(r)
    <3>. DEFINE answer == [NoResponse EXCEPT !.code = 500]
    <3>1. answer.code = 500
      BY DEF NoResponse
    <3>2. pc' = [pc EXCEPT ![r] = "done"] /\ response' = [response EXCEPT ![r] = answer]
      BY <2>2 DEF CommitUnknown, Refuse, Reply, Goto
    <3>. HIDE DEF answer
    <3>. QED
      BY <3>1, <3>2
  <2>. QED
    BY <2>1, <2>2
<1>3. Alone(r) /\ pc'[r] = "done"
  BY <1>1, <1>2 DEF Alone, CommitTx, inventoryVars, Labels
<1>4. /\ Commits(r) /\ Draws(r) /\ Local(r) /\ tx'[r] = NoRows
      /\ input[r] \in Inputs /\ BadUUID \notin Asked(input[r]) /\ Available(input[r])
      /\ Cardinality(Asked(input[r])) = Len(requestedParts(input[r]))
  BY <1>1, <1>3, CommitFacts
<1>5. Truthful(r)'
  <2>1. Len(requestedParts(input[r])) \in Nat
    BY <1>4, RequestFacts
  <2>. QED
    BY <1>2, <1>4, <2>1 DEF Truthful, Available, Commits
<1>. QED
  BY <1>3, <1>4, <1>5 DEF Local, Asking, Priced, Drafted, Writing,
                          Creating, Reading, Inserting

\* A statement that fails leaves nothing.
LEMMA StatementFailsSteps ==
    ASSUME NEW r \in Callers, Inv, StatementFails(r)
    PROVE  Quiet(r) /\ Draws(r) /\ Local(r)'
<1>. USE DEF Inv, Shapes
<1>1. Local(r) /\ pc[r] \in Statements /\ Refuse(r, 500)
  BY DEF StatementFails
<1>2. /\ listing' = listing /\ orders' = orders /\ items' = items /\ draft' = draft
      /\ input' = input /\ tx'[r] = NoRows /\ pc[r] # "done"
      /\ Callers = DOMAIN input' /\ Callers = DOMAIN tx'
      /\ \A q \in Callers : q # r => input'[q] = input[q] /\ tx'[q] = tx[q]
  BY <1>1 DEF StatementFails, Statements, inventoryVars
<1>3. Quiet(r) /\ Draws(r) /\ pc'[r] = "done" /\ response'[r].code = 500
  BY <1>1, <1>2, RefuseFacts
<1>4. input[r] \in Inputs => BadUUID \notin Asked(input[r])
  BY <1>1, InputsAreNoUUIDs DEF Local, Asking, Statements, Creating, Reading
<1>. QED
  BY <1>2, <1>3, <1>4 DEF Local, Asking, Priced, Drafted, Writing, Truthful,
                          Creating, Reading, Inserting

-----------------------------------------------------------------------------
(* Steps of Get, which answers no body.                                    *)

GetStep(r) ==
    \/ \E o \in OrderUUIDs : BeginGet(r, o)
    \/ GetOrder(r) \/ GetItems(r) \/ Show(r)

\* Get writes nothing.
LEMMA GetSteps ==
    ASSUME NEW r \in Callers, Inv, GetStep(r)
    PROVE  Quiet(r) /\ Draws(r) /\ Local(r)'
<1>. USE DEF Inv, Shapes
<1>1. Local(r) /\ pc[r] \in {"idle"} \cup Reading
  BY DEF GetStep, BeginGet, GetOrder, GetItems, Show, Reading
<1>2. /\ listing' = listing /\ orders' = orders /\ items' = items /\ draft' = draft
      /\ tx' = tx /\ Callers = DOMAIN input'
      /\ \A q \in Callers : q # r => input'[q] = input[q]
      /\ input'[r] \in OrderUUIDs
  BY <1>1 DEF GetStep, BeginGet, GetOrder, GetItems, Show, inventoryVars, Local, Asking
<1>3. /\ pc' = [pc EXCEPT ![r] = pc'[r]] /\ pc'[r] \in Reading \cup {"done"}
      /\ Callers = DOMAIN response'
      /\ \A q \in Callers : q # r => response'[q] = response[q]
  BY DEF GetStep, BeginGet, GetOrder, GetItems, Show, Refuse, Reply, Goto, Reading
<1>4. Quiet(r) /\ Draws(r)
  <2>1. pc' \in [Callers -> Labels] /\ \A q \in Callers : q # r => pc'[q] = pc[q]
    BY <1>3 DEF Labels
  <2>. QED
    BY <1>1, <1>2, <1>3, <2>1 DEF Quiet, Alone, Draws, Reading
<1>5. input'[r] \notin Inputs /\ tx'[r] = NoRows
  BY <1>1, <1>2, InputsAreNoUUIDs DEF Local, Writing, Reading
<1>. QED
  BY <1>2, <1>3, <1>4, <1>5 DEF Local, Asking, Priced, Drafted, Writing, Truthful,
                                Creating, Reading, Inserting

-----------------------------------------------------------------------------
(* Every step keeps the invariant.                                         *)

\* A commit takes no UUID from another request in hand.
LEMMA OthersKeep ==
    ASSUME NEW r \in Callers, NEW q \in Callers, q # r, Inv, Quiet(r) \/ Commits(r)
    PROVE  Local(q)'
<1>1. /\ Local(q) /\ Alone(r)
      /\ pc'[q] = pc[q] /\ input'[q] = input[q] /\ draft'[q] = draft[q]
      /\ tx'[q] = tx[q] /\ listing'[q] = listing[q] /\ response'[q] = response[q]
  BY DEF Inv, Quiet, Commits, Alone
<1>2. Drafted(q)'
  <2>1. CASE pc[q] \in Inserting
    <3>1. draft[q].uuid \in OrderUUIDs \ orders
      BY <1>1, <2>1 DEF Local, Drafted
    <3>2. draft[q].uuid # draft[r].uuid
      BY <3>1, NoneAssumption DEF Inv, DraftsDiffer
    <3>3. draft[q].uuid \notin orders'
      BY <3>1, <3>2 DEF Quiet, Commits
    <3>. QED
      BY <1>1, <3>1, <3>3 DEF Local, Drafted, Available
  <2>2. CASE pc[q] \notin Inserting
    BY <1>1, <2>2 DEF Drafted
  <2>. QED
    BY <2>1, <2>2
<1>3. Writing(q)'
  <2>1. \A k : Rows(q, k)' = Rows(q, k)
    BY <1>1 DEF Rows, ItemRow
  <2>2. \A k : Written(q, k) => Written(q, k)'
    BY <1>1, <2>1 DEF Written
  <2>. QED
    BY <1>1, <2>2 DEF Local, Writing
<1>4. Asking(q)' /\ Priced(q)'
  BY <1>1 DEF Local, Asking, Priced
<1>5. Truthful(q)'
  BY <1>1 DEF Local, Truthful
<1>. QED
  BY <1>2, <1>3, <1>4, <1>5 DEF Local

\* A step that writes no table leaves the orders whole.
LEMMA QuietKeepsCommitted ==
    ASSUME NEW r \in Callers, Inv, Quiet(r)
    PROVE  Committed'
<1>1. ASSUME NEW o \in orders' PROVE \E c \in Callers : MadeBy(c, o)'
  <2>1. PICK c \in Callers : MadeBy(c, o)
    BY <1>1 DEF Inv, Committed, Quiet
  <2>2. /\ pc'[c] = "done" /\ draft'[c] = draft[c] /\ input'[c] = input[c] /\ items' = items
    BY <2>1 DEF MadeBy, Quiet, Alone
  <2>3. MadeBy(c, o)'
    BY <2>1, <2>2 DEF MadeBy, ItemRow
  <2>. QED
    BY <2>3
<1>. QED
  BY <1>1 DEF Inv, Committed, Quiet

\* The rows of the new order are those of its draft: the tables had none.
LEMMA CommitKeepsCommitted ==
    ASSUME NEW r \in Callers, Inv, Commits(r),
           Cardinality(Asked(input[r])) = Len(requestedParts(input[r]))
    PROVE  Committed'
<1>. DEFINE n == Len(draft[r].items)
<1>1. /\ pc[r] \in Inserting /\ draft[r].uuid \notin orders
      /\ n = Len(requestedParts(input[r])) /\ DOMAIN draft[r].items = 1 .. n
  BY DraftFacts DEF Inv, Local, Drafted, Commits, Inserting
<1>2. \A row \in Rows(r, n) : row.order = draft[r].uuid
  BY DEF Rows, ItemRow
<1>3. \A row \in items : row.order \in orders
  BY DEF Inv, Committed
<1>4. \A row \in items' : row.order \in orders'
  BY <1>2, <1>3 DEF Commits
<1>5. ASSUME NEW o \in orders PROVE \E c \in Callers : MadeBy(c, o)'
  <2>1. PICK c \in Callers : MadeBy(c, o)
    BY <1>5 DEF Inv, Committed
  <2>2. pc'[c] = "done" /\ draft'[c] = draft[c] /\ input'[c] = input[c]
    BY <2>1 DEF MadeBy, Commits, Alone
  <2>3. {row \in items' : row.order = o} = {row \in items : row.order = o}
    BY <1>1, <1>2, <1>5 DEF Commits
  <2>4. MadeBy(c, o)'
    BY <2>1, <2>2, <2>3 DEF MadeBy, ItemRow
  <2>. QED
    BY <2>4
<1>6. ASSUME NEW o, o = draft[r].uuid PROVE MadeBy(r, o)'
  <2>1. {row \in items' : row.order = draft[r].uuid} = Rows(r, n)
    BY <1>1, <1>2, <1>3 DEF Commits
  <2>2. Rows(r, n) = {ItemRow(r, i) : i \in DOMAIN draft[r].items}
    BY <1>1 DEF Rows
  <2>3. pc'[r] = "done" /\ draft' = draft /\ input' = input
    BY DEF Commits
  <2>. QED
    BY <1>1, <1>6, <2>1, <2>2, <2>3 DEF MadeBy, ItemRow
<1>7. orders' = orders \cup {draft[r].uuid}
  BY DEF Commits
<1>. QED
  <2>1. \A o \in orders' : \E c \in Callers : MadeBy(c, o)'
    BY <1>5, <1>6, <1>7
  <2>. QED
    BY <1>4, <2>1 DEF Committed

\* A step of one request keeps the invariant if it keeps its own part.
LEMMA RequestSteps ==
    ASSUME NEW r \in Callers, Inv, Draws(r), Local(r)',
           \/ Quiet(r)
           \/ /\ Commits(r)
              /\ Cardinality(Asked(input[r])) = Len(requestedParts(input[r]))
    PROVE  Inv'
<1>1. Alone(r)
  BY DEF Quiet, Commits
<1>2. Shapes'
  BY <1>1 DEF Alone, Shapes
<1>3. ASSUME NEW q \in Callers PROVE Local(q)'
  BY <1>3, OthersKeep
<1>4. DraftsDiffer'
  BY <1>1 DEF Alone, Draws, Inv, DraftsDiffer
<1>5. Committed'
  BY QuietKeepsCommitted, CommitKeepsCommitted
<1>. QED
  BY <1>2, <1>3, <1>4, <1>5 DEF Inv

\* A stop of the process ends all transactions, and no order.
LEMMA CrashKeeps == Inv /\ Crash => Inv'
<1>. SUFFICES ASSUME Inv, Crash PROVE Inv'
  OBVIOUS
<1>1. /\ pc' = [r \in Callers |-> IF pc[r] \in {"idle", "done"} THEN pc[r] ELSE "lost"]
      /\ tx' = [r \in Callers |-> NoRows]
      /\ UNCHANGED <<listing, orders, items, input, draft, response>>
  BY DEF Crash, inventoryVars
<1>2. Shapes'
  BY <1>1 DEF Inv, Shapes, Labels
<1>3. ASSUME NEW r \in Callers PROVE Local(r)'
  <2>1. /\ pc'[r] \in {"idle", "done", "lost"} /\ tx'[r] = NoRows
        /\ pc'[r] = "done" => pc[r] = "done"
    BY <1>1
  <2>2. Truthful(r)'
    BY <1>1, <2>1 DEF Inv, Local, Truthful
  <2>. QED
    BY <2>1, <2>2 DEF Local, Asking, Priced, Drafted, Writing, Creating, Reading, Inserting
<1>4. DraftsDiffer'
  BY <1>1 DEF Inv, DraftsDiffer
<1>5. Committed'
  <2>1. \A c \in Callers, o \in orders : MadeBy(c, o) => MadeBy(c, o)'
    BY <1>1 DEF MadeBy, ItemRow
  <2>. QED
    BY <1>1, <2>1 DEF Inv, Committed
<1>. QED
  BY <1>2, <1>3, <1>4, <1>5 DEF Inv

\* The invariant is inductive.
LEMMA NextInv == Inv /\ [Next]_vars => Inv'
<1>. SUFFICES ASSUME Inv, [Next]_vars PROVE Inv'
  OBVIOUS
<1>1. CASE Crash
  BY <1>1, CrashKeeps
<1>2. ASSUME NEW r \in Callers, NEW in \in Inputs, Begin(r, in) PROVE Inv'
  BY <1>2, BeginSteps, RequestSteps
<1>3. ASSUME NEW r \in Callers, CallListParts(r) PROVE Inv'
  BY <1>3, CallSteps, RequestSteps
<1>4. ASSUME NEW r \in Callers, RefuseListing(r) \/ RefuseParts(r) PROVE Inv'
  BY <1>4, RefuseListingSteps, RefusePartsSteps, RequestSteps
<1>5. ASSUME NEW r \in Callers, Draw(r) PROVE Inv'
  BY <1>5, DrawSteps, RequestSteps
<1>6. ASSUME NEW r \in Callers, InsertOrder(r) \/ InsertItem(r) \/ StatementFails(r)
      PROVE  Inv'
  BY <1>6, InsertOrderSteps, InsertItemSteps, StatementFailsSteps, RequestSteps
<1>7. ASSUME NEW r \in Callers, Commit(r) \/ CommitUnknown(r) PROVE Inv'
  BY <1>7, CommitSteps, RequestSteps
<1>8. ASSUME NEW r \in Callers, GetStep(r) PROVE Inv'
  BY <1>8, GetSteps, RequestSteps
<1>9. CASE UNCHANGED vars
  <2>1. UNCHANGED <<listing, orders, items, pc, input, draft, tx, response>>
    BY <1>9 DEF vars, inventoryVars, checkoutVars
  <2>2. Shapes' /\ DraftsDiffer'
    BY <2>1 DEF Inv, Shapes, DraftsDiffer
  <2>3. Committed'
    <3>1. \A c \in Callers, o \in orders : MadeBy(c, o) => MadeBy(c, o)'
      BY <2>1 DEF MadeBy, ItemRow
    <3>. QED
      BY <2>1, <3>1 DEF Inv, Committed
  <2>4. ASSUME NEW r \in Callers PROVE Local(r)'
    <3>1. \A k : Written(r, k) => Written(r, k)'
      BY <2>1 DEF Written, Rows, ItemRow
    <3>. QED
      BY <2>1, <3>1 DEF Inv, Local, Asking, Priced, Drafted, Available, Writing, Truthful
  <2>. QED
    BY <2>2, <2>3, <2>4 DEF Inv
<1>. QED
  BY <1>1, <1>2, <1>3, <1>4, <1>5, <1>6, <1>7, <1>8, <1>9 DEF Next, GetStep

-----------------------------------------------------------------------------
(* Theorems.                                                               *)

\* Each request, at each of its steps, has what the code before that step has
\* checked, drawn and written, and nobody else has its UUID (create.go:15-120).
THEOREM CheckoutInvHolds == Spec => []Inv
<1>. QED
  BY InitInv, NextInv, PTL DEF Spec

\* What Create answers is true of the parts (create.go:15-86).
THEOREM TruthHolds == Spec => []AnswersAreTrue
<1>1. Inv => AnswersAreTrue
  BY DEF Inv, Local, Truthful, AnswersAreTrue
<1>. QED
  BY <1>1, CheckoutInvHolds, PTL

-----------------------------------------------------------------------------
(* What Get shows of an order: a second invariant, on top of the first.    *)

RowsOf(o) == {row \in items : row.order = o}

\* The draft is what was asked for, at the prices of the parts.
Made(r) ==
    /\ input[r] \in Inputs /\ Available(input[r])
    /\ draft[r].uuid \in OrderUUIDs
    /\ draft[r].items = [i \in DOMAIN requestedParts(input[r]) |->
                            PricedItem(requestedParts(input[r])[i])]
    /\ draft[r].total = Total(draft[r].items)

\* The values of a request; an order is answered at the end.
Settled(r) ==
    /\ input[r] \in Inputs \cup OrderUUIDs \cup {None}
    /\ draft[r].total \in -Limit .. Limit - 1
    /\ response[r].code \in {0, 200, 201, 400, 404, 409, 500}
    /\ response[r].code \in {200, 201} => pc[r] = "done"

\* A draft that is inserted, or in the tables, is what was asked for; and the
\* answer 201 names it.
Kept(r) ==
    /\ pc[r] \in Inserting \/ draft[r].uuid \in orders => Made(r)
    /\ response[r].code = 201 =>
          /\ response[r].order = draft[r].uuid /\ draft[r].uuid \in orders
          /\ response[r].total = draft[r].total

\* What is read, and shown, is of an order in the tables, and all of it.
Shown(r) ==
    /\ pc[r] \in {"GetItems", "OrderToModel"} => input[r] \in orders
    /\ pc[r] = "OrderToModel" => found[r] \in SetToSeqs(RowsOf(input[r]))
    /\ response[r].code = 200 =>
          /\ input[r] \in orders
          /\ \E rows \in SetToSeqs(RowsOf(input[r])) :
                response[r].total = Total(rows) /\ response[r].shown = OrderToModel(rows)

ShownInv ==
    /\ Callers = DOMAIN found
    /\ orders \subseteq OrderUUIDs
    /\ \A r \in Callers : Settled(r) /\ Kept(r) /\ Shown(r)

\* The rows of an order, each once and in any order, have its total and show it
\* as it was asked for.
LEMMA RowsShowOrder ==
    ASSUME NEW r \in Callers, Made(r),
           Cardinality(Asked(input[r])) = Len(requestedParts(input[r])),
           NEW rows \in SetToSeqs({ItemRow(r, i) : i \in DOMAIN draft[r].items})
    PROVE  Total(rows) = draft[r].total /\ OrderToModel(rows) = input[r]
<1>. DEFINE in   == input[r]
            req  == requestedParts(in)
            n    == Len(req)
            list == draft[r].items
            R    == {ItemRow(r, i) : i \in DOMAIN list}
<1>1. /\ in \in Inputs /\ Asked(in) \subseteq Part
      /\ list = [i \in DOMAIN req |-> PricedItem(req[i])] /\ draft[r].total = Total(list)
  BY DEF Made, Available
<1>2. /\ n \in 2 .. 4 /\ DOMAIN req = 1 .. n /\ n \in Nat
      /\ \A i \in 1 .. n : req[i].uuid \in Asked(in)
  BY <1>1, RequestFacts
<1>3. /\ DOMAIN list = 1 .. n
      /\ \A i \in 1 .. n : list[i].part = req[i].uuid /\ list[i].part_type = req[i].part_type
      /\ \A i \in 1 .. n : list[i].price \in Int
  <2>1. \A i \in 1 .. n : list[i] = PricedItem(req[i])
    BY <1>1, <1>2
  <2>2. \A i \in 1 .. n : Catalog[req[i].uuid].price \in Int
    BY <1>1, <1>2, CatalogAssumption DEF Part
  <2>. HIDE DEF req, n, list
  <2>. QED
    BY <1>1, <1>2, <2>1, <2>2 DEF PricedItem, Item
<1>4. \A i \in 1 .. n : /\ ItemRow(r, i).part = list[i].part
                        /\ ItemRow(r, i).part_type = list[i].part_type
                        /\ ItemRow(r, i).price = list[i].price
  BY DEF ItemRow
<1>5. \A i, j \in 1 .. n : i # j => req[i].uuid # req[j].uuid
  BY <1>1, SentFacts
<1>6. \A i, j \in 1 .. n : i # j => ItemRow(r, i) # ItemRow(r, j)
  BY <1>3, <1>4, <1>5
<1>7. rows \in SetToSeqs(R)
  OBVIOUS
<1>. HIDE DEF in, req, n, list
<1>8. IsFiniteSet(R) /\ Cardinality(R) = n
  <2>. DEFINE f == [i \in 1 .. n |-> ItemRow(r, i)]
  <2>1. f \in Surjection(1 .. n, R) /\ f \in Injection(1 .. n, R)
    <3>1. f \in [1 .. n -> R] /\ \A x \in R : \E i \in 1 .. n : f[i] = x
      BY <1>3
    <3>2. \A i, j \in 1 .. n : i # j => f[i] # f[j]
      BY <1>6
    <3>. HIDE DEF f, R
    <3>3. DOMAIN f = 1 .. n
      BY <3>1
    <3>. QED
      BY <3>1, <3>2, <3>3 DEF Surjection, Injection, IsInjective
  <2>2. IsFiniteSet(1 .. n) /\ Cardinality(1 .. n) = n
    <3>1. n \in Int /\ ~ (1 > n) /\ n - 1 + 1 = n
      BY <1>2
    <3>. QED
      BY <3>1, FS_Interval
  <2>. HIDE DEF f, R
  <2>3. IsFiniteSet(R) /\ (Cardinality(R) = Cardinality(1 .. n) <=> f \in Injection(1 .. n, R))
    BY <2>1, <2>2, FS_Surjection, Zenon
  <2>. QED
    BY <2>1, <2>2, <2>3
<1>9. /\ rows \in [1 .. n -> R] /\ DOMAIN rows = 1 .. n
      /\ \A i, j \in 1 .. n : i # j => rows[i] # rows[j]
      /\ \A x \in R : \E k \in 1 .. n : rows[k] = x
  <2>. HIDE DEF R
  <2>1. rows \in [1 .. n -> R] /\ \A i, j \in 1 .. n : i # j => rows[i] # rows[j]
    BY <1>7, <1>8 DEF SetToSeqs
  <2>2. ToSet(rows) = R
    BY <1>7, <1>8, Enumeration
  <2>. QED
    BY <2>1, <2>2 DEF ToSet
<1>. DEFINE s == [k \in 1 .. n |-> CHOOSE i \in 1 .. n : rows[k] = ItemRow(r, i)]
<1>10. \A k \in 1 .. n : s[k] \in 1 .. n /\ rows[k] = ItemRow(r, s[k])
  BY <1>3, <1>9
<1>11. s \in [1 .. n -> 1 .. n] /\ IsInjective(s)
  <2>1. s \in [1 .. n -> 1 .. n] /\ DOMAIN s = 1 .. n
    BY <1>10
  <2>. HIDE DEF s
  <2>. QED
    BY <1>9, <1>10, <2>1 DEF IsInjective
<1>12. \A i \in 1 .. n : \E k \in 1 .. n : s[k] = i
  <2>. HIDE DEF s
  <2>. TAKE i \in 1 .. n
  <2>1. ItemRow(r, i) \in R
    BY <1>3
  <2>2. PICK k \in 1 .. n : rows[k] = ItemRow(r, i)
    BY <1>9, <2>1
  <2>. QED
    BY <1>6, <1>10, <2>2
<1>. HIDE DEF s, R
<1>13. Total(rows) = draft[r].total
  <2>1. \A k \in 1 .. n : rows[k].price = list[s[k]].price
    BY <1>4, <1>10
  <2>2. s \in Injection(1 .. n, 1 .. n)
    BY <1>11 DEF Injection
  <2>3. Permutes(s, n, list, rows)
    BY <1>2, <1>3, <1>9, <2>1, <2>2 DEF Permutes
  <2>4. Total(rows) = Total(list)
    BY <2>3, TotalOfPermutation
  <2>. QED
    BY <1>1, <2>4
<1>14. ASSUME NEW f \in Fields PROVE PartOf(rows, TypeOf[f]) = in[f]
  <2>1. PICK i \in 0 .. n : /\ i = 0 <=> in[f] = None
                            /\ i # 0 => req[i].uuid = in[f]
                            /\ \A k \in 1 .. n : req[k].part_type = TypeOf[f] <=> k = i
    BY <1>1, RequestTypes DEF req, n
  <2>2. \A k \in 1 .. n : rows[k].part_type = TypeOf[f] <=> s[k] = i
    BY <1>3, <1>4, <1>10, <2>1
  <2>3. CASE i = 0
    <3>1. \A k \in 1 .. n : rows[k].part_type = TypeOf[f] <=> k = 0
      BY <1>10, <2>2, <2>3
    <3>2. 0 \in 0 .. n
      BY <1>2
    <3>3. PartOf(rows, TypeOf[f]) = None
      BY <1>2, <1>9, <3>1, <3>2, PartOfOne
    <3>. QED
      BY <2>1, <2>3, <3>3
  <2>4. CASE i # 0
    <3>1. i \in 1 .. n
      BY <1>2, <2>4
    <3>2. PICK k \in 1 .. n : s[k] = i
      BY <1>12, <3>1
    <3>3. \A j \in 1 .. n : rows[j].part_type = TypeOf[f] <=> j = k
      BY <1>6, <1>9, <1>10, <2>2, <3>2
    <3>4. k \in 0 .. n /\ k # 0
      BY <1>2
    <3>5. PartOf(rows, TypeOf[f]) = rows[k].part
      BY <1>2, <1>9, <3>3, <3>4, PartOfOne
    <3>6. rows[k].part = req[i].uuid
      BY <1>3, <1>4, <1>10, <3>1, <3>2
    <3>. QED
      BY <2>1, <2>4, <3>5, <3>6
  <2>. QED
    BY <2>3, <2>4
<1>15. OrderToModel(rows) = in
  <2>1. in = [f \in Fields |-> in[f]]
    BY <1>1, InputsAssumption
  <2>2. /\ PartOf(rows, "HULL") = in.hull /\ PartOf(rows, "ENGINE") = in.engine
        /\ PartOf(rows, "SHIELD") = in.shield /\ PartOf(rows, "WEAPON") = in.weapon
    BY <1>14 DEF Fields, TypeOf
  <2>3. OrderToModel(rows) = [hull |-> in.hull, engine |-> in.engine,
                              shield |-> in.shield, weapon |-> in.weapon]
    BY <2>2 DEF OrderToModel
  <2>4. [f \in Fields |-> in[f]] = [hull |-> in.hull, engine |-> in.engine,
                                    shield |-> in.shield, weapon |-> in.weapon]
    BY DEF Fields
  <2>. QED
    BY <2>1, <2>3, <2>4
<1>. QED
  BY <1>13, <1>15 DEF in

\* A UUID in the tables is the draft of one request, and that one is done.
LEMMA CommittedIsDone ==
    ASSUME Inv, ShownInv, NEW r \in Callers, draft[r].uuid \in orders
    PROVE  MadeBy(r, draft[r].uuid)
<1>1. PICK c \in Callers : MadeBy(c, draft[r].uuid)
  BY DEF Inv, Committed
<1>2. draft[r].uuid # None
  BY NoneAssumption DEF ShownInv
<1>3. c = r
  BY <1>1, <1>2 DEF Inv, DraftsDiffer, MadeBy
<1>. QED
  BY <1>1, <1>3

\* A step of r leaves the orders in the tables, and their rows.
LEMMA RowsStay ==
    ASSUME NEW r \in Callers, Inv, Quiet(r) \/ Commits(r), NEW o \in orders
    PROVE  RowsOf(o)' = RowsOf(o) /\ o \in orders'
<1>1. CASE Quiet(r)
  BY <1>1 DEF Quiet, RowsOf
<1>2. CASE Commits(r)
  <2>1. draft[r].uuid \notin orders
    BY <1>2 DEF Commits, Inv, Local, Drafted, Inserting
  <2>2. \A row \in Rows(r, Len(draft[r].items)) : row.order = draft[r].uuid
    BY DEF Rows, ItemRow
  <2>. QED
    BY <1>2, <2>1, <2>2 DEF Commits, RowsOf
<1>. QED
  BY <1>1, <1>2

\* A request that r leaves alone goes on to see its order.
LEMMA OthersKeepShown ==
    ASSUME NEW r \in Callers, NEW q \in Callers, q # r, Inv, ShownInv,
           Quiet(r) \/ Commits(r), found'[q] = found[q]
    PROVE  Settled(q)' /\ Kept(q)' /\ Shown(q)'
<1>1. /\ Settled(q) /\ Kept(q) /\ Shown(q)
      /\ pc'[q] = pc[q] /\ input'[q] = input[q] /\ draft'[q] = draft[q]
      /\ response'[q] = response[q]
  BY DEF ShownInv, Quiet, Commits, Alone
<1>2. Settled(q)'
  BY <1>1 DEF Settled
<1>3. \A o \in orders : RowsOf(o)' = RowsOf(o) /\ o \in orders'
  BY RowsStay
<1>4. draft[q].uuid \in orders' => draft[q].uuid \in orders
  <2>1. CASE Quiet(r)
    BY <2>1 DEF Quiet
  <2>2. CASE Commits(r)
    <3>1. draft[r].uuid \in OrderUUIDs
      BY <2>2 DEF Commits, Inv, Local, Drafted, Inserting
    <3>2. draft[q].uuid # draft[r].uuid
      BY <3>1, NoneAssumption DEF Inv, DraftsDiffer
    <3>. QED
      BY <2>2, <3>2 DEF Commits
  <2>. QED
    BY <2>1, <2>2
<1>5. Made(q) => Made(q)'
  BY <1>1 DEF Made, Available
<1>6. Kept(q)'
  BY <1>1, <1>3, <1>4, <1>5 DEF Kept
<1>7. Shown(q)'
  BY <1>1, <1>3 DEF Shown
<1>. QED
  BY <1>2, <1>6, <1>7

\* The same of all: a step of r keeps the invariant if it keeps r's part of it.
LEMMA StepKeepsShown ==
    ASSUME NEW r \in Callers, Inv, ShownInv, Quiet(r) \/ Commits(r),
           Callers = DOMAIN found', \A q \in Callers : q # r => found'[q] = found[q],
           orders' \subseteq OrderUUIDs, Settled(r)', Kept(r)', Shown(r)'
    PROVE  ShownInv'
<1>1. ASSUME NEW q \in Callers PROVE Settled(q)' /\ Kept(q)' /\ Shown(q)'
  BY OthersKeepShown
<1>. QED
  BY <1>1 DEF ShownInv

\* A step of r that draws no UUID, writes no table and shows no order.
Plain(r) ==
    /\ Quiet(r) /\ draft' = draft
    /\ Callers = DOMAIN found' /\ \A q \in Callers : q # r => found'[q] = found[q]
    /\ input'[r] \in Inputs \cup OrderUUIDs \cup {None}
    /\ response'[r] = response[r] \/ response'[r].code \in {400, 404, 409, 500}
    /\ pc'[r] \in Inserting => pc[r] \in Inserting /\ input'[r] = input[r]
    /\ pc'[r] \in {"GetItems", "OrderToModel"} => input'[r] \in orders
    /\ pc'[r] = "OrderToModel" => found'[r] \in SetToSeqs(RowsOf(input'[r]))

\* Such a step keeps the invariant: r had no order yet.
LEMMA PlainKeepsShown ==
    ASSUME NEW r \in Callers, Inv, ShownInv, Plain(r)
    PROVE  ShownInv'
<1>1. /\ Settled(r) /\ Kept(r) /\ Shown(r)
      /\ Quiet(r) /\ pc[r] # "done" /\ orders' = orders /\ items' = items /\ draft' = draft
  BY DEF ShownInv, Plain, Quiet, Alone
<1>2. draft[r].uuid \notin orders
  BY <1>1, CommittedIsDone DEF MadeBy
<1>3. response'[r].code \in {0, 400, 404, 409, 500}
  BY <1>1 DEF Plain, Settled
<1>4. Settled(r)'
  BY <1>1, <1>3 DEF Plain, Settled
<1>5. Kept(r)'
  <2>1. pc'[r] \in Inserting => Made(r)'
    BY <1>1 DEF Plain, Kept, Made, Available
  <2>. QED
    BY <1>1, <1>2, <1>3, <2>1 DEF Kept
<1>6. Shown(r)'
  BY <1>1, <1>3 DEF Plain, Shown, RowsOf
<1>7. orders' \subseteq OrderUUIDs
  BY <1>1 DEF ShownInv
<1>. QED
  BY <1>1, <1>4, <1>5, <1>6, <1>7, StepKeepsShown DEF Plain

\* A refusal, or a step to another label.
LEMMA ReplyFacts ==
    ASSUME NEW r \in Callers, Inv, NEW code
    PROVE  /\ Refuse(r, code) => pc'[r] = "done" /\ response'[r].code = code
           /\ \A label : Goto(r, label) => pc'[r] = label
<1>1. Refuse(r, code) => pc'[r] = "done" /\ response'[r].code = code
  <2>. SUFFICES ASSUME Refuse(r, code) PROVE pc'[r] = "done" /\ response'[r].code = code
    OBVIOUS
  <2>1. pc'[r] = "done" /\ response'[r] = [NoResponse EXCEPT !.code = code]
    BY DEF Refuse, Reply, Goto, Inv, Shapes
  <2>. QED
    BY <2>1 DEF NoResponse
<1>2. \A label : Goto(r, label) => pc'[r] = label
  BY DEF Goto, Inv, Shapes
<1>. QED
  BY <1>1, <1>2

\* Create, up to the point where it draws a UUID, and its INSERTs.
LEMMA CreateIsPlain ==
    ASSUME NEW r \in Callers, Inv, ShownInv,
           \/ \E in \in Inputs : Begin(r, in)
           \/ CallListParts(r) \/ RefuseListing(r) \/ RefuseParts(r)
           \/ InsertOrder(r) \/ InsertItem(r) \/ StatementFails(r)
    PROVE  Plain(r)
<1>1. /\ Callers = DOMAIN found /\ Callers = DOMAIN input
      /\ input[r] \in Inputs \cup OrderUUIDs \cup {None}
  BY DEF Inv, Shapes, ShownInv, Settled
<1>2. ASSUME NEW in \in Inputs, Begin(r, in) PROVE Plain(r)
  <2>1. Quiet(r)
    BY <1>2, BeginSteps
  <2>2. \/ pc'[r] = "done" /\ response'[r].code = 400
        \/ pc'[r] = "ListParts" /\ response' = response
    BY <1>2, ReplyFacts DEF Begin
  <2>3. draft' = draft /\ found' = found /\ input'[r] = in
    BY <1>1, <1>2 DEF Begin
  <2>. QED
    BY <1>1, <2>1, <2>2, <2>3 DEF Plain, Inserting
<1>3. CASE CallListParts(r)
  <2>1. Quiet(r)
    BY <1>3, CallSteps
  <2>2. pc'[r] = "Price"
    BY <1>3, ReplyFacts DEF CallListParts
  <2>. QED
    BY <1>1, <1>3, <2>1, <2>2 DEF Plain, Inserting, CallListParts
<1>4. CASE RefuseListing(r)
  <2>. DEFINE code == CASE listing[r].code = "NotFound"        -> 404
                        [] listing[r].code = "InvalidArgument" -> 400
                        [] OTHER                               -> 500
  <2>1. Quiet(r)
    BY <1>4, RefuseListingSteps
  <2>2. code \in {400, 404, 500}
    OBVIOUS
  <2>3. Refuse(r, code)
    BY <1>4 DEF RefuseListing
  <2>. HIDE DEF code
  <2>4. pc'[r] = "done" /\ response'[r].code = code
    BY <2>3, ReplyFacts
  <2>5. UNCHANGED <<input, draft, found>>
    BY <1>4 DEF RefuseListing
  <2>6. pc'[r] = "done" /\ response'[r].code \in {400, 404, 409, 500}
    BY <2>2, <2>4
  <2>7. draft' = draft /\ found' = found /\ input' = input
    BY <2>5
  <2>. QED
    BY <1>1, <2>1, <2>6, <2>7 DEF Plain, Inserting
<1>5. CASE RefuseParts(r)
  <2>1. Quiet(r)
    BY <1>5, RefusePartsSteps
  <2>2. pc'[r] = "done" /\ response'[r].code \in {404, 409}
    BY <1>5, ReplyFacts DEF RefuseParts
  <2>3. UNCHANGED <<input, draft, found>>
    BY <1>5 DEF RefuseParts
  <2>. QED
    BY <1>1, <2>1, <2>2, <2>3 DEF Plain, Inserting
<1>6. CASE InsertOrder(r)
  <2>1. Quiet(r)
    BY <1>6, InsertOrderSteps
  <2>2. pc[r] \in Inserting /\ pc'[r] = "InsertItem"
    BY <1>6, ReplyFacts DEF InsertOrder, Inserting
  <2>. QED
    BY <1>1, <1>6, <2>1, <2>2 DEF Plain, InsertOrder
<1>7. CASE InsertItem(r)
  <2>1. Quiet(r)
    BY <1>7, InsertItemSteps
  <2>2. pc[r] \in Inserting /\ pc'[r] \in {"InsertItem", "Commit"}
    BY <1>7, ReplyFacts DEF InsertItem, Inserting
  <2>. QED
    BY <1>1, <1>7, <2>1, <2>2 DEF Plain, InsertItem
<1>8. CASE StatementFails(r)
  <2>1. Quiet(r)
    BY <1>8, StatementFailsSteps
  <2>2. pc'[r] = "done" /\ response'[r].code = 500
    BY <1>8, ReplyFacts DEF StatementFails
  <2>3. UNCHANGED <<input, draft, found>>
    BY <1>8 DEF StatementFails
  <2>. QED
    BY <1>1, <2>1, <2>2, <2>3 DEF Plain, Inserting
<1>. QED
  BY <1>2, <1>3, <1>4, <1>5, <1>6, <1>7, <1>8

\* Get, up to the point where it has read the rows: it goes on only with an
\* order that is in the tables.
LEMMA GetIsPlain ==
    ASSUME NEW r \in Callers, Inv, ShownInv,
           (\E o \in OrderUUIDs : BeginGet(r, o)) \/ GetOrder(r) \/ GetItems(r)
    PROVE  Plain(r)
<1>1. /\ Callers = DOMAIN found /\ Callers = DOMAIN input
      /\ input[r] \in Inputs \cup OrderUUIDs \cup {None} /\ Shown(r)
  BY DEF Inv, Shapes, ShownInv, Settled
<1>2. Quiet(r)
  BY GetSteps DEF GetStep
<1>3. ASSUME NEW o \in OrderUUIDs, BeginGet(r, o) PROVE Plain(r)
  <2>1. pc'[r] = "GetOrder" /\ input'[r] = o
    BY <1>1, <1>3, ReplyFacts DEF BeginGet
  <2>. QED
    BY <1>1, <1>2, <1>3, <2>1 DEF Plain, Inserting, BeginGet
<1>4. CASE GetOrder(r)
  <2>1. \/ pc'[r] = "GetItems" /\ input[r] \in orders /\ response' = response
        \/ pc'[r] = "done" /\ response'[r].code = 404
    BY <1>4, ReplyFacts DEF GetOrder
  <2>2. UNCHANGED <<input, draft, found>>
    BY <1>4 DEF GetOrder
  <2>. QED
    BY <1>1, <1>2, <2>1, <2>2 DEF Plain, Inserting
<1>5. CASE GetItems(r)
  <2>1. pc'[r] = "OrderToModel" /\ input[r] \in orders
    BY <1>1, <1>5, ReplyFacts DEF GetItems, Shown
  <2>2. PICK rows \in SetToSeqs(RowsOf(input[r])) : found' = [found EXCEPT ![r] = rows]
    BY <1>5 DEF GetItems, RowsOf
  <2>3. /\ Callers = DOMAIN found' /\ found'[r] \in SetToSeqs(RowsOf(input[r]))
        /\ \A q \in Callers : q # r => found'[q] = found[q]
    BY <1>1, <2>2
  <2>. QED
    BY <1>1, <1>2, <1>5, <2>1, <2>3 DEF Plain, Inserting, GetItems
<1>. QED
  BY <1>3, <1>4, <1>5

\* The UUID that is drawn comes with what was asked for, and its total.
LEMMA DrawKeepsShown ==
    ASSUME NEW r \in Callers, Inv, ShownInv, Draw(r)
    PROVE  ShownInv'
<1>1. Quiet(r) /\ Local(r)' /\ Settled(r) /\ Kept(r) /\ Shown(r)
  BY DrawSteps DEF ShownInv
<1>2. /\ pc[r] = "Price" /\ input[r] \in Inputs /\ Callers = DOMAIN draft
      /\ UNCHANGED <<input, found, response, orders, items>>
  BY <1>1 DEF Draw, Inv, Shapes, Local, Asking, Creating
<1>3. PICK o \in OrderUUIDs : draft' = [draft EXCEPT ![r] = Draft(r, o)]
  BY DEF Draw
<1>4. /\ draft'[r].uuid = o
      /\ draft'[r].items = [i \in DOMAIN requestedParts(input[r]) |->
                               PricedItem(requestedParts(input[r])[i])]
      /\ draft'[r].total = Total(draft'[r].items)
  <2>1. draft'[r] = Draft(r, o)
    BY <1>2, <1>3
  <2>2. ToSet(listing[r].parts) = {PartToModel(u) : u \in Asked(input[r])}
    BY <1>2 DEF Draw, Inv, Local, Priced
  <2>. QED
    BY <1>2, <2>1, <2>2, PricedFacts DEF Draft
<1>5. pc'[r] = "InsertOrder"
  BY ReplyFacts DEF Draw
<1>6. Available(input[r]) /\ o \notin orders'
  BY <1>1, <1>2, <1>4, <1>5 DEF Local, Drafted, Inserting
<1>7. Made(r)'
  BY <1>2, <1>4, <1>6 DEF Made, Available
<1>8. draft'[r].total \in -Limit .. Limit - 1
  <2>. DEFINE in   == input[r]
              req  == requestedParts(in)
              n    == Len(req)
              list == [i \in DOMAIN req |-> PricedItem(req[i])]
              p    == [i \in 1 .. n |-> Catalog[req[i].uuid].price]
  <2>1. /\ n \in 2 .. 4 /\ DOMAIN req = 1 .. n
        /\ \A i \in 1 .. n : req[i].uuid \in Asked(in)
    BY <1>2, RequestFacts
  <2>2. p \in [1 .. n -> Int]
    BY <1>6, <2>1, CatalogAssumption DEF Available, Part
  <2>3. DOMAIN list = 1 .. n /\ \A i \in 1 .. n : list[i].price = p[i]
    BY <2>1 DEF PricedItem, Item
  <2>4. draft'[r].total = Total(list)
    BY <1>4
  <2>. HIDE DEF n, list, p
  <2>5. Total(list) \in -Limit .. Limit - 1
    BY <2>1, <2>2, <2>3, TotalIsSum
  <2>. QED
    BY <2>4, <2>5
<1>9. Settled(r)' /\ Kept(r)' /\ Shown(r)'
  <2>1. Settled(r)' /\ Shown(r)'
    BY <1>1, <1>2, <1>5, <1>8 DEF Settled, Shown
  <2>2. Kept(r)'
    BY <1>1, <1>2, <1>5, <1>7 DEF Kept, Settled
  <2>. QED
    BY <2>1, <2>2
<1>. QED
  BY <1>1, <1>2, <1>9, StepKeepsShown DEF ShownInv

\* A COMMIT puts the order in the tables that the answer names.
LEMMA CommitKeepsShown ==
    ASSUME NEW r \in Callers, Inv, ShownInv, Commit(r) \/ CommitUnknown(r)
    PROVE  ShownInv'
<1>1. Commits(r) /\ Settled(r) /\ Kept(r) /\ Made(r)
  BY CommitSteps DEF ShownInv, Commits, Kept, Inserting
<1>2. UNCHANGED <<input, draft, found>> /\ orders' = orders \cup {draft[r].uuid}
      /\ pc'[r] = "done"
  BY <1>1 DEF Commit, CommitUnknown, CommitTx, Commits
<1>3. \/ response'[r].code = 500
      \/ /\ response'[r].code = 201 /\ response'[r].order = draft[r].uuid
         /\ response'[r].total = draft[r].total
  <2>1. CASE CommitUnknown(r)
    BY <2>1, ReplyFacts DEF CommitUnknown
  <2>2. CASE Commit(r)
    <3>1. response'[r] = [NoResponse EXCEPT !.code = 201, !.order = draft[r].uuid,
                                            !.total = draft[r].total]
      BY <2>2 DEF Commit, Reply, Inv, Shapes
    <3>. QED
      BY <3>1 DEF NoResponse
  <2>. QED
    BY <2>1, <2>2
<1>4. Made(r)' /\ draft[r].uuid \in OrderUUIDs
  BY <1>1, <1>2 DEF Made, Available
<1>5. Settled(r)' /\ Kept(r)' /\ Shown(r)'
  BY <1>1, <1>2, <1>3, <1>4 DEF Settled, Kept, Shown
<1>6. orders' \subseteq OrderUUIDs
  BY <1>2, <1>4 DEF ShownInv
<1>. QED
  BY <1>1, <1>2, <1>5, <1>6, StepKeepsShown DEF ShownInv

\* What Get shows is what it has read.
LEMMA ShowKeepsShown ==
    ASSUME NEW r \in Callers, Inv, ShownInv, Show(r)
    PROVE  ShownInv'
<1>1. Quiet(r) /\ Settled(r) /\ Kept(r) /\ Shown(r)
  BY GetSteps DEF GetStep, ShownInv
<1>2. /\ pc[r] = "OrderToModel" /\ pc'[r] = "done"
      /\ UNCHANGED <<input, draft, found, orders, items>>
  BY DEF Show, Reply, Goto, Inv, Shapes
<1>3. /\ response'[r].code = 200 /\ response'[r].total = Total(found[r])
      /\ response'[r].shown = OrderToModel(found[r])
  <2>. DEFINE total == Total(found[r])
              shown == OrderToModel(found[r])
              answer == [code |-> 200, order |-> input[r], total |-> total, shown |-> shown]
  <2>. HIDE DEF total, shown
  <2>1. response'[r] = answer
    BY DEF Show, Reply, Inv, Shapes, total, shown
  <2>2. answer.code = 200 /\ answer.total = total /\ answer.shown = shown
    OBVIOUS
  <2>. QED
    BY <2>1, <2>2 DEF total, shown
<1>4. draft[r].uuid \notin orders
  BY <1>2, CommittedIsDone DEF MadeBy
<1>5. Settled(r)' /\ Kept(r)'
  BY <1>1, <1>2, <1>3, <1>4 DEF Settled, Kept, Inserting
<1>6. Shown(r)'
  <2>1. found[r] \in SetToSeqs(RowsOf(input[r])') /\ input[r] \in orders
    BY <1>1, <1>2 DEF Shown, RowsOf
  <2>. QED
    BY <1>2, <1>3, <2>1 DEF Shown, RowsOf
<1>. QED
  BY <1>1, <1>2, <1>5, <1>6, StepKeepsShown DEF ShownInv

\* A stop of the process takes no answer back.
LEMMA CrashKeepsShown == Inv /\ ShownInv /\ Crash => ShownInv'
<1>. SUFFICES ASSUME Inv, ShownInv, Crash PROVE ShownInv'
  OBVIOUS
<1>1. /\ \A r \in Callers : /\ pc'[r] \in {"idle", "done", "lost"}
                            /\ pc[r] = "done" => pc'[r] = "done"
      /\ UNCHANGED <<orders, items, input, draft, found, response>>
  BY DEF Crash
<1>2. ASSUME NEW r \in Callers PROVE Settled(r)' /\ Kept(r)' /\ Shown(r)'
  <2>1. Settled(r) /\ Kept(r) /\ Shown(r)
    BY DEF ShownInv
  <2>. QED
    BY <1>1, <2>1 DEF Settled, Kept, Made, Available, Inserting, Shown, RowsOf
<1>. QED
  BY <1>1, <1>2 DEF ShownInv

\* The second invariant is inductive, given the first.
LEMMA NextShownInv == Inv /\ ShownInv /\ [Next]_vars => ShownInv'
<1>. SUFFICES ASSUME Inv, ShownInv, [Next]_vars PROVE ShownInv'
  OBVIOUS
<1>1. CASE Crash
  BY <1>1, CrashKeepsShown
<1>2. ASSUME NEW r \in Callers,
             \/ \E in \in Inputs : Begin(r, in)
             \/ CallListParts(r) \/ RefuseListing(r) \/ RefuseParts(r)
             \/ InsertOrder(r) \/ InsertItem(r) \/ StatementFails(r)
      PROVE  ShownInv'
  BY <1>2, CreateIsPlain, PlainKeepsShown
<1>3. ASSUME NEW r \in Callers,
             (\E o \in OrderUUIDs : BeginGet(r, o)) \/ GetOrder(r) \/ GetItems(r)
      PROVE  ShownInv'
  BY <1>3, GetIsPlain, PlainKeepsShown
<1>4. ASSUME NEW r \in Callers, Draw(r) PROVE ShownInv'
  BY <1>4, DrawKeepsShown
<1>5. ASSUME NEW r \in Callers, Commit(r) \/ CommitUnknown(r) PROVE ShownInv'
  BY <1>5, CommitKeepsShown
<1>6. ASSUME NEW r \in Callers, Show(r) PROVE ShownInv'
  BY <1>6, ShowKeepsShown
<1>7. CASE UNCHANGED vars
  <2>1. UNCHANGED <<orders, items, pc, input, draft, found, response>>
    BY <1>7 DEF vars, checkoutVars
  <2>2. ASSUME NEW r \in Callers PROVE Settled(r)' /\ Kept(r)' /\ Shown(r)'
    <3>1. Settled(r) /\ Kept(r) /\ Shown(r)
      BY DEF ShownInv
    <3>2. Settled(r)' /\ Kept(r)'
      BY <2>1, <3>1 DEF Settled, Kept, Made, Available
    <3>3. Shown(r)'
      BY <2>1, <3>1 DEF Shown, RowsOf
    <3>. QED
      BY <3>2, <3>3
  <2>. QED
    BY <2>1, <2>2 DEF ShownInv
<1>. QED
  BY <1>1, <1>2, <1>3, <1>4, <1>5, <1>6, <1>7 DEF Next

\* At the start nothing is shown.
LEMMA InitShownInv == Init => ShownInv
<1>. SUFFICES ASSUME Init PROVE ShownInv
  OBVIOUS
<1>1. ASSUME NEW r \in Callers PROVE Settled(r) /\ Kept(r) /\ Shown(r)
  <2>1. /\ pc[r] = "idle" /\ orders = {} /\ input[r] = None
        /\ draft[r].total = 0 /\ response[r].code = 0
    BY <1>1 DEF Init, NoDraft, NoResponse
  <2>2. 0 \in -Limit .. Limit - 1
    BY LimitAssumption
  <2>. QED
    BY <2>1, <2>2 DEF Settled, Kept, Shown, Inserting
<1>. QED
  BY <1>1 DEF Init, ShownInv

\* A draft that is in the tables is what was asked for, and what Get has read of
\* an order is all of it.
THEOREM ShownInvHolds == Spec => []ShownInv
<1>. QED
  BY InitShownInv, NextShownInv, CheckoutInvHolds, PTL DEF Spec

\* Every row in the tables is of a part that is known, under a type and at a price.
LEMMA RowTypes ==
    ASSUME Inv, ShownInv, NEW row \in items
    PROVE  /\ row \in [order : OrderUUIDs, part : Part, part_type : PartTypes, price : Int]
           /\ row.price = Catalog[row.part].price
<1>1. row.order \in orders
  BY DEF Inv, Committed
<1>2. PICK r \in Callers : MadeBy(r, row.order)
  BY <1>1 DEF Inv, Committed
<1>3. Made(r) /\ row.order \in OrderUUIDs
  BY <1>1, <1>2 DEF ShownInv, Kept, MadeBy
<1>4. PICK i \in DOMAIN draft[r].items : row = ItemRow(r, i)
  BY <1>2 DEF MadeBy
<1>. DEFINE req == requestedParts(input[r])
<1>5. /\ i \in DOMAIN req /\ draft[r].items[i] = PricedItem(req[i])
      /\ draft[r].uuid = row.order
  BY <1>2, <1>3, <1>4 DEF Made, MadeBy
<1>6. req[i].uuid \in Part /\ req[i].part_type \in PartTypes
  BY <1>3, <1>5, RequestFacts DEF Made, Available
<1>7. Catalog[req[i].uuid].price \in Int
  BY <1>6, CatalogAssumption DEF Part
<1>. HIDE DEF req
<1>8. row = [order |-> row.order, part |-> req[i].uuid,
             part_type |-> req[i].part_type, price |-> Catalog[req[i].uuid].price]
  <2>. DEFINE o == draft[r].uuid
  <2>1. row = [order |-> o, part |-> PricedItem(req[i]).part,
               part_type |-> PricedItem(req[i]).part_type, price |-> PricedItem(req[i]).price]
    BY <1>4, <1>5 DEF ItemRow
  <2>2. o = row.order
    BY <1>5
  <2>. HIDE DEF o
  <2>. QED
    BY <2>1, <2>2 DEF PricedItem, Item
<1>. QED
  BY <1>3, <1>6, <1>7, <1>8

\* A draft has an item for each part that is asked for.
LEMMA MadeLength ==
    ASSUME NEW r \in Callers, Made(r)
    PROVE  Len(draft[r].items) = Len(requestedParts(input[r]))
<1>. DEFINE n == Len(requestedParts(input[r]))
<1>1. /\ input[r] \in Inputs
      /\ draft[r].items = [i \in DOMAIN requestedParts(input[r]) |->
                              PricedItem(requestedParts(input[r])[i])]
  BY DEF Made
<1>2. n \in Nat /\ DOMAIN requestedParts(input[r]) = 1 .. n
  BY <1>1, RequestFacts
<1>3. DOMAIN draft[r].items = 1 .. n
  BY <1>1, <1>2
<1>. HIDE DEF n
<1>4. draft[r].items \in Seq({draft[r].items[i] : i \in 1 .. n})
  BY <1>1, <1>2 DEF n
<1>. QED
  BY <1>2, <1>3, <1>4 DEF n

\* The tables and the requests have their types: each item is a part of the
\* catalog at its price, and the total of every draft is an int64.
THEOREM CheckoutTypes == Spec => []Types
<1>1. Inv /\ ShownInv => Types
  <2>. SUFFICES ASSUME Inv, ShownInv PROVE Types
    OBVIOUS
  <2>1. items \subseteq [order : OrderUUIDs, part : Part, part_type : PartTypes, price : Int]
    BY RowTypes
  <2>. QED
    BY <2>1 DEF ShownInv, Settled, Types
<1>. QED
  BY <1>1, CheckoutInvHolds, ShownInvHolds, PTL

\* An order is in the tables with every item that was asked for, no part twice and
\* each at its own price, or not at all, whatever fails (create.go:57-100,
\* repository.go:35-73).
THEOREM WholeHolds == Spec => []OrdersAreWhole
<1>1. Inv /\ ShownInv => OrdersAreWhole
  BY RowTypes DEF Inv, Committed, MadeBy, OrdersAreWhole
<1>. QED
  BY <1>1, CheckoutInvHolds, ShownInvHolds, PTL

\* An order that was created is there, and Get shows it as it was asked for and at
\* the price that Create answered, in whatever order its rows are read
\* (converter/order.go:17-60, create.go:66-81).
THEOREM ShownHolds == Spec => []ShownAsOrdered
<1>1. ASSUME Inv, ShownInv, NEW c \in Callers, response[c].code = 201
      PROVE  response[c].order \in orders
  BY <1>1 DEF ShownInv, Kept
<1>2. ASSUME Inv, ShownInv, NEW c \in Callers, response[c].code = 201,
             NEW g \in Callers, response[g].code = 200, input[g] = response[c].order
      PROVE  response[g].shown = input[c] /\ response[g].total = response[c].total
  <2>1. /\ response[c].order = draft[c].uuid /\ draft[c].uuid \in orders
        /\ response[c].total = draft[c].total
    BY <1>2 DEF ShownInv, Kept
  <2>2. Made(c)
    BY <1>2, <2>1 DEF ShownInv, Kept
  <2>3. MadeBy(c, draft[c].uuid)
    BY <1>2, <2>1, CommittedIsDone
  <2>4. PICK rows \in SetToSeqs(RowsOf(input[g])) :
           response[g].total = Total(rows) /\ response[g].shown = OrderToModel(rows)
    BY <1>2 DEF ShownInv, Shown
  <2>5. RowsOf(input[g]) = {ItemRow(c, i) : i \in DOMAIN draft[c].items}
    BY <1>2, <2>1, <2>3 DEF MadeBy, RowsOf
  <2>6. Cardinality(Asked(input[c])) = Len(requestedParts(input[c]))
    <3>1. Len(draft[c].items) = Len(requestedParts(input[c]))
      BY <2>2, MadeLength
    <3>. QED
      BY <2>3, <3>1 DEF MadeBy
  <2>7. Total(rows) = draft[c].total /\ OrderToModel(rows) = input[c]
    BY <2>2, <2>4, <2>5, <2>6, RowsShowOrder
  <2>. QED
    BY <2>1, <2>4, <2>7
<1>3. Inv /\ ShownInv => ShownAsOrdered
  BY <1>1, <1>2 DEF ShownAsOrdered
<1>. QED
  BY <1>3, CheckoutInvHolds, ShownInvHolds, PTL
=============================================================================
