-------------------------- MODULE SleeptimerProofs --------------------------
(***************************************************************************)
(* Proofs about Sleeptimer, for every value of its constants: the delta    *)
(* list, the invariant of the timers, the comparator, the promise to the   *)
(* callers, the plans that are in time, and the 64-bit tick count.         *)
(***************************************************************************)
EXTENDS Sleeptimer, FiniteSetTheorems, FunctionTheorems, WellFoundedInduction, TLAPS

-----------------------------------------------------------------------------
(* Numbers.                                                                *)

\* The numbers of the counter.
LEMMA TimeTypes == Width \in Nat /\ Width > 1 /\ Latency \in Nat
BY TimeAssumption DEF TimeAssumption

\* Every nonempty set of natural numbers has a least one.
LEMMA LeastNumber ==
  ASSUME NEW S, S \subseteq Nat, S # {}
  PROVE  \E x \in S : \A y \in S : x <= y
<1> DEFINE R == OpToRel(<, Nat)
<1>1. IsWellFoundedOn(R, Nat)
  BY NatLessThanWellFounded
<1>2. \A m, n \in Nat : <<m, n>> \in R <=> m < n
  BY DEF OpToRel
<1> HIDE DEF R
<1>0. S \subseteq Nat /\ S # {}
  OBVIOUS
<1>3. PICK x \in S : \A y \in S : ~(<<y, x>> \in R)
  BY <1>0, <1>1, WFMin
<1>4. ASSUME NEW y \in S PROVE x <= y
  <2>1. x \in Nat /\ y \in Nat /\ ~(y < x)
    BY <1>0, <1>2, <1>3
  <2>2. QED
    BY <2>1
<1>5. QED
  BY <1>4

\* Induction along the places of a list.
LEMMA UpTo ==
  ASSUME NEW n \in Nat, NEW Good, 0 \in Good, \A i \in 1..n : i - 1 \in Good => i \in Good
  PROVE  \A i \in 0..n : i \in Good
<1> DEFINE U == (0..n) \ Good
<1>1. ASSUME U # {} PROVE FALSE
  <2>1. U \subseteq Nat
    OBVIOUS
  <2>2. PICK x \in U : \A y \in U : x <= y
    <3> HIDE DEF U
    <3>1. QED
      BY <1>1, <2>1, LeastNumber
  <2>3. x \in 0..n /\ x # 0 /\ x \notin Good
    BY <2>2
  <2>4. x \in 1..n /\ x - 1 \in 0..n /\ ~(x <= x - 1)
    BY <2>3
  <2>5. x - 1 \in Good
    BY <2>2, <2>4
  <2>6. QED
    BY <2>3, <2>4, <2>5
<1>2. QED
  BY <1>1

\* A number and its remainder.
LEMMA Remainder ==
  ASSUME NEW W \in Nat \ {0}, NEW a \in Int
  PROVE  /\ a = W * (a \div W) + (a % W)
         /\ a \div W \in Int /\ a % W \in 0..(W - 1)
         /\ a \in Nat => a \div W \in Nat
OBVIOUS

\* Two remainders do not differ by a multiple of the divisor.
LEMMA NoMultipleBetween ==
  ASSUME NEW W \in Nat \ {0}, NEW k \in Int,
         NEW r \in 0..(W - 1), NEW q \in 0..(W - 1), W * k = r - q
  PROVE  k = 0
<1>1. k >= 1 => W * k >= W
  OBVIOUS
<1>2. k <= -1 => W * k <= -W
  OBVIOUS
<1>3. QED
  BY <1>1, <1>2

\* A remainder is told by what it leaves.
LEMMA RemainderIs ==
  ASSUME NEW W \in Nat \ {0}, NEW k \in Int, NEW r \in 0..(W - 1)
  PROVE  (W * k + r) % W = r
<1> DEFINE a == W * k + r
           d == a \div W
<1>1. a \in Int
  OBVIOUS
<1>2. a = W * d + (a % W) /\ d \in Int /\ a % W \in 0..(W - 1)
  BY <1>1, Remainder
<1>3. W * (k - d) = (a % W) - r
  <2> HIDE DEF d
  <2>1. W * (k - d) = W * k - W * d
    BY <1>2
  <2>2. QED
    BY <1>2, <2>1
<1>4. k - d \in Int
  BY <1>2
<1>5. k - d = 0
  <2> DEFINE j == k - d
             q == a % W
  <2>1. W * j = q - r /\ j \in Int /\ q \in 0..(W - 1)
    BY <1>2, <1>3, <1>4
  <2> HIDE DEF j, q
  <2>2. j = 0
    BY <2>1, NoMultipleBetween
  <2>3. QED
    BY <2>2 DEF j
<1>6. QED
  <2> HIDE DEF d
  <2>1. k = d
    BY <1>2, <1>5
  <2>2. QED
    BY <1>2, <2>1

\* Counting on by n from c, and how far c is behind then.
LEMMA Ahead ==
  ASSUME NEW c \in 0..(Width - 1), NEW n \in Nat
  PROVE  /\ (c + n) % Width \in 0..(Width - 1)
         /\ Diff((c + n) % Width, c) <= n
<1> DEFINE v == (c + n) % Width
           k == (c + n) \div Width
<1>0. c + n \in Nat /\ c + n \in Int /\ Width \in Nat \ {0}
  BY TimeTypes
<1>1. c + n = Width * k + v /\ k \in Nat /\ v \in 0..(Width - 1)
  BY <1>0, Remainder, Zenon
<1> HIDE DEF v, k
<1>2. Diff(v, c) = IF v >= c THEN v - c ELSE v - c + Width
  BY <1>1, TimeTypes DEF Diff
<1>3. k >= 1 => Width * k >= Width
  BY <1>1, TimeTypes
<1>4. k = 0 => Width * k = 0
  BY TimeTypes
<1>5. v <= c + n
  BY <1>1, <1>3, <1>4, TimeTypes
<1>6. v < c => k >= 1
  BY <1>1, <1>4, TimeTypes
<1>7. QED
  BY <1>1, <1>2, <1>3, <1>5, <1>6, TimeTypes DEF v

\* The difference of two counter values, over the wrap or not.
LEMMA DiffIs ==
  ASSUME NEW a \in 0..(Width - 1), NEW b \in 0..(Width - 1)
  PROVE  /\ Diff(a, b) = IF a >= b THEN a - b ELSE a - b + Width
         /\ Diff(a, b) \in 0..(Width - 1)
BY TimeTypes DEF Diff

-----------------------------------------------------------------------------
(* The delta list.                                                         *)

Item  == [timer : Timer, delta : Nat]
Items == Seq(Item)

IsSum(f, list, n) ==
  f = [k \in 0..n |-> IF k = 0 THEN 0 ELSE f[k - 1] + list[k].delta]

\* There is a function that sums the deltas.
LEMMA SumExists ==
  ASSUME NEW list, NEW n \in Nat
  PROVE  \E f : IsSum(f, list, n)
<1> DEFINE Good == {m \in 0..n : \E f : IsSum(f, list, m)}
<1>1. 0 \in Good
  <2>1. IsSum([k \in 0..0 |-> 0], list, 0)
    BY DEF IsSum
  <2>2. QED
    BY <2>1
<1>2. ASSUME NEW i \in 1..n, i - 1 \in Good
      PROVE  i \in Good
  <2> DEFINE m == i - 1
  <2>1. PICK f : IsSum(f, list, m)
    BY <1>2
  <2>0. m \in Nat /\ i = m + 1 /\ i \in 0..n
    OBVIOUS
  <2> HIDE DEF m
  <2> DEFINE F(k) == IF k = 0 THEN 0 ELSE f[k - 1] + list[k].delta
             g == [k \in 0..i |-> IF k = i THEN f[i - 1] + list[i].delta ELSE f[k]]
  <2>2. f = [k \in 0..m |-> F(k)]
    BY <2>1 DEF IsSum
  <2>3. \A k \in 0..m : f[k] = F(k)
    <3> HIDE DEF F
    <3>1. QED
      BY <2>2
  <2>4. \A k \in 0..m : g[k] = f[k]
    BY <2>0
  <2>5. g[i] = f[i - 1] + list[i].delta
    BY <2>0
  <2>6. g = [k \in 0..i |-> g[k]]
    OBVIOUS
  <2> HIDE DEF g
  <2>7. ASSUME NEW k \in 0..i
        PROVE  g[k] = IF k = 0 THEN 0 ELSE g[k - 1] + list[k].delta
    <3>1. CASE k = 0
      BY <2>0, <2>3, <2>4, <3>1
    <3>2. CASE k \in 1..m
      <4>1. k \in 0..m /\ k - 1 \in 0..m /\ k # 0
        BY <2>0, <3>2
      <4>2. g[k] = F(k) /\ g[k - 1] = f[k - 1]
        BY <2>3, <2>4, <4>1
      <4>3. QED
        BY <4>1, <4>2
    <3>3. CASE k = i
      <4>1. k - 1 = m /\ k # 0 /\ m \in 0..m
        BY <2>0, <3>3
      <4>2. QED
        BY <2>0, <2>4, <2>5, <3>3, <4>1
    <3>4. QED
      BY <2>0, <3>1, <3>2, <3>3
  <2>8. IsSum(g, list, i)
    BY <2>6, <2>7 DEF IsSum
  <2>9. QED
    BY <2>0, <2>8
<1> HIDE DEF Good
<1>3. \A m \in 0..n : m \in Good
  BY <1>1, <1>2, UpTo
<1>4. n \in Good
  BY <1>3
<1>5. QED
  BY <1>4 DEF Good

\* Expiry adds up the deltas.
LEMMA ExpirySums ==
  ASSUME NEW list, Len(list) \in Nat
  PROVE  /\ Expiry(list, 0) = 0
         /\ \A i \in 1..Len(list) : Expiry(list, i) = Expiry(list, i - 1) + list[i].delta
<1>1. PICK f : IsSum(f, list, Len(list)) /\ \A i : Expiry(list, i) = f[i]
  <2> DEFINE f == CHOOSE f : IsSum(f, list, Len(list))
  <2>1. IsSum(f, list, Len(list))
    BY SumExists
  <2>2. \A i : Expiry(list, i) = f[i]
    BY DEF Expiry, IsSum
  <2>3. QED
    BY <2>1, <2>2
<1> DEFINE F(k) == IF k = 0 THEN 0 ELSE f[k - 1] + list[k].delta
<1>2. f = [k \in 0..Len(list) |-> F(k)]
  BY <1>1 DEF IsSum
<1>3. \A k \in 0..Len(list) : f[k] = F(k)
  <2> HIDE DEF F
  <2>1. QED
    BY <1>2
<1>4. 0 \in 0..Len(list) /\ \A i \in 1..Len(list) : i \in 0..Len(list) /\ i # 0
  OBVIOUS
<1>5. QED
  BY <1>1, <1>3, <1>4

\* A list's timers, deltas and expiries are what they should be.
LEMMA ExpiryTypes ==
  ASSUME NEW list \in Items
  PROVE  /\ Len(list) \in Nat /\ DOMAIN list = 1..Len(list)
         /\ \A i \in 1..Len(list) : list[i] \in Item /\ list[i].delta \in Nat
                                    /\ list[i].timer \in Timer
         /\ \A i \in 0..Len(list) : Expiry(list, i) \in Nat
<1>1. Len(list) \in Nat /\ DOMAIN list = 1..Len(list)
  BY DEF Items
<1>2. \A i \in 1..Len(list) : list[i] \in Item /\ list[i].delta \in Nat /\ list[i].timer \in Timer
  <2>1. \A i \in 1..Len(list) : list[i] \in Item
    BY DEF Items
  <2>2. \A x \in Item : x.delta \in Nat /\ x.timer \in Timer
    BY DEF Item
  <2>3. QED
    BY <2>1, <2>2
<1> DEFINE Good == {i \in 0..Len(list) : Expiry(list, i) \in Nat}
<1>3. 0 \in Good
  BY <1>1, ExpirySums
<1>4. ASSUME NEW i \in 1..Len(list), i - 1 \in Good PROVE i \in Good
  <2>1. Expiry(list, i) = Expiry(list, i - 1) + list[i].delta
    BY <1>1, ExpirySums
  <2>2. Expiry(list, i - 1) \in Nat /\ list[i].delta \in Nat /\ i \in 0..Len(list)
    BY <1>1, <1>2, <1>4
  <2>3. QED
    BY <2>1, <2>2
<1> HIDE DEF Good
<1>5. \A i \in 0..Len(list) : i \in Good
  BY <1>1, <1>3, <1>4, UpTo
<1>6. QED
  BY <1>1, <1>2, <1>5 DEF Good

\* What adds up the deltas is Expiry.
LEMMA ExpiryIs ==
  ASSUME NEW list, Len(list) \in Nat, NEW f, f[0] = 0,
         \A i \in 1..Len(list) : f[i] = f[i - 1] + list[i].delta
  PROVE  \A i \in 0..Len(list) : Expiry(list, i) = f[i]
<1> DEFINE Good == {i \in 0..Len(list) : Expiry(list, i) = f[i]}
<1>1. 0 \in Good
  BY ExpirySums
<1>2. ASSUME NEW i \in 1..Len(list), i - 1 \in Good PROVE i \in Good
  <2>1. Expiry(list, i) = Expiry(list, i - 1) + list[i].delta
    BY ExpirySums
  <2>2. QED
    BY <1>2, <2>1
<1> HIDE DEF Good
<1>3. \A i \in 0..Len(list) : i \in Good
  BY <1>1, <1>2, UpTo
<1>4. QED
  BY <1>3 DEF Good

\* No timer expires before the ones in front of it.
LEMMA ExpiryGrows ==
  ASSUME NEW list \in Items, NEW i \in 0..Len(list), NEW j \in 0..Len(list), i <= j
  PROVE  Expiry(list, i) <= Expiry(list, j)
<1>1. Len(list) \in Nat
  BY ExpiryTypes
<1> DEFINE Good == {k \in 0..Len(list) : i <= k => Expiry(list, i) <= Expiry(list, k)}
<1>2. 0 \in Good
  <2>1. i <= 0 => i = 0
    BY <1>1
  <2>2. Expiry(list, 0) \in Nat
    BY <1>1, ExpiryTypes
  <2>3. QED
    BY <1>1, <2>1, <2>2
<1>3. ASSUME NEW k \in 1..Len(list), k - 1 \in Good PROVE k \in Good
  <2>1. Expiry(list, k) = Expiry(list, k - 1) + list[k].delta
    BY <1>1, ExpirySums
  <2>2. /\ Expiry(list, k - 1) \in Nat /\ list[k].delta \in Nat /\ Expiry(list, i) \in Nat
        /\ Expiry(list, k) \in Nat
    BY <1>1, ExpiryTypes
  <2>3. CASE i <= k - 1
    BY <1>1, <1>3, <2>1, <2>2, <2>3
  <2>4. CASE ~(i <= k - 1)
    <3>1. i <= k => i = k
      BY <1>1, <2>4
    <3>2. QED
      BY <1>1, <2>2, <3>1
  <2>5. QED
    BY <2>3, <2>4
<1> HIDE DEF Good
<1>4. \A k \in 0..Len(list) : k \in Good
  BY <1>1, <1>2, <1>3, UpTo
<1>5. j \in Good
  BY <1>4
<1>6. QED
  BY <1>5 DEF Good

\* The entries of two sequences one behind the other.
LEMMA JoinedAt ==
  ASSUME NEW S, NEW p \in Seq(S), NEW q \in Seq(S), NEW v, v = p \o q
  PROVE  /\ v \in Seq(S)
         /\ Len(v) = Len(p) + Len(q)
         /\ \A i \in 1..Len(p) : v[i] = p[i]
         /\ \A i \in 1..Len(q) : v[Len(p) + i] = q[i]
OBVIOUS

\* The entries of a part of a sequence.
LEMMA PartAt ==
  ASSUME NEW S, NEW s \in Seq(S), NEW m \in 1..(Len(s) + 1), NEW n \in (m - 1)..Len(s)
  PROVE  /\ SubSeq(s, m, n) \in Seq(S)
         /\ Len(SubSeq(s, m, n)) = n - m + 1
         /\ \A i \in 1..(n - m + 1) : SubSeq(s, m, n)[i] = s[m + i - 1]
OBVIOUS

\* An entry put in behind the first b, and the r-th taken out.
LEMMA InsertedAt ==
  ASSUME NEW s \in Seq(Item), NEW k \in 1..(Len(s) + 1), NEW item \in Item,
         NEW new, new = InsertAt(s, k, item)
  PROVE  /\ new \in Seq(Item) /\ Len(new) = Len(s) + 1
         /\ \A i \in 1..(k - 1) : new[i] = s[i]
         /\ new[k] = item
         /\ \A i \in k..Len(s) : new[i + 1] = s[i]
<1> DEFINE b == k - 1
<1>a. b \in 0..Len(s) /\ k = b + 1
  OBVIOUS
<1> HIDE DEF b
<1>0. /\ 1 \in 1..(Len(s) + 1) /\ b \in (1 - 1)..Len(s) /\ b + 1 \in 1..(Len(s) + 1)
      /\ Len(s) \in ((b + 1) - 1)..Len(s) /\ (b + 1) - 1 = b /\ b - 1 + 1 = b
      /\ Len(s) - (b + 1) + 1 = Len(s) - b
  BY <1>a
<1>1. PICK p : p = SubSeq(s, 1, b)
  OBVIOUS
<1>2. PICK q : q = SubSeq(s, b + 1, Len(s))
  OBVIOUS
<1>3. p \in Seq(Item) /\ Len(p) = b /\ \A i \in 1..b : p[i] = s[i]
  <2>1. p \in Seq(Item) /\ Len(p) = b - 1 + 1 /\ \A i \in 1..(b - 1 + 1) : p[i] = s[1 + i - 1]
    BY <1>0, <1>1, PartAt
  <2>2. \A i \in 1..b : 1 + i - 1 = i
    BY <1>a
  <2>3. QED
    BY <1>0, <2>1, <2>2
<1>4. /\ q \in Seq(Item) /\ Len(q) = Len(s) - b
      /\ \A i \in 1..(Len(s) - b) : q[i] = s[(b + 1) + i - 1]
  <2>1. /\ q \in Seq(Item) /\ Len(q) = Len(s) - (b + 1) + 1
        /\ \A i \in 1..(Len(s) - (b + 1) + 1) : q[i] = s[(b + 1) + i - 1]
    BY <1>0, <1>2, PartAt, Zenon
  <2>2. QED
    BY <1>0, <2>1, Zenon
<1>5. PICK u : u = p \o <<item>>
  OBVIOUS
<1>6. /\ u \in Seq(Item) /\ Len(u) = b + 1
      /\ \A i \in 1..b : u[i] = s[i]
      /\ u[b + 1] = item
  <2>1. <<item>> \in Seq(Item) /\ Len(<<item>>) = 1 /\ <<item>>[1] = item
    OBVIOUS
  <2>2. 1 \in 1..1
    OBVIOUS
  <2>3. PICK w : w = <<item>>
    OBVIOUS
  <2>4. /\ u \in Seq(Item) /\ Len(u) = Len(p) + Len(w)
        /\ \A i \in 1..Len(p) : u[i] = p[i]
        /\ \A i \in 1..Len(w) : u[Len(p) + i] = w[i]
    <3>1. u = p \o w /\ w \in Seq(Item) /\ p \in Seq(Item)
      BY <1>3, <1>5, <2>1, <2>3
    <3>2. QED
      BY <3>1, JoinedAt
  <2>5. QED
    BY <1>3, <2>1, <2>2, <2>3, <2>4
<1>7. PICK v : v = u \o q
  OBVIOUS
<1>8. /\ v \in Seq(Item) /\ Len(v) = Len(u) + Len(q)
      /\ \A i \in 1..Len(u) : v[i] = u[i]
      /\ \A i \in 1..Len(q) : v[Len(u) + i] = q[i]
  <2>1. v = u \o q /\ u \in Seq(Item) /\ q \in Seq(Item)
    BY <1>4, <1>6, <1>7
  <2>2. QED
    BY <2>1, JoinedAt
<1>9. new = v
  BY <1>a, <1>0, <1>1, <1>2, <1>5, <1>7 DEF InsertAt
<1>10. Len(v) = Len(s) + 1
  BY <1>a, <1>4, <1>6, <1>8
<1>11. ASSUME NEW i \in (b + 1)..Len(s) PROVE v[i + 1] = s[i]
  <2>1. /\ i - b \in 1..Len(q) /\ i - b \in 1..(Len(s) - b)
        /\ Len(u) + (i - b) = i + 1 /\ (b + 1) + (i - b) - 1 = i
    BY <1>a, <1>4, <1>6
  <2>2. v[i + 1] = q[i - b]
    BY <1>8, <2>1
  <2>3. q[i - b] = s[i]
    BY <1>4, <2>1
  <2>4. QED
    BY <2>2, <2>3
<1>12. \A i \in 1..b : i \in 1..Len(u)
  BY <1>a, <1>6
<1>13. b + 1 \in 1..Len(u)
  BY <1>a, <1>6
<1>14. QED
  BY <1>a, <1>6, <1>8, <1>9, <1>10, <1>11, <1>12, <1>13

\* The entries behind one that is taken out move up by one.
LEMMA RemovedAt ==
  ASSUME NEW s \in Seq(Item), NEW r \in 1..Len(s), NEW new, new = RemoveAt(s, r)
  PROVE  /\ new \in Seq(Item) /\ Len(new) = Len(s) - 1
         /\ \A i \in 1..(r - 1) : new[i] = s[i]
         /\ \A i \in r..(Len(s) - 1) : new[i] = s[i + 1]
<1>0. /\ 1 \in 1..(Len(s) + 1) /\ r - 1 \in (1 - 1)..Len(s) /\ r + 1 \in 1..(Len(s) + 1)
      /\ Len(s) \in ((r + 1) - 1)..Len(s) /\ (r - 1) - 1 + 1 = r - 1
      /\ Len(s) - (r + 1) + 1 = Len(s) - r
  OBVIOUS
<1>1. PICK p : p = SubSeq(s, 1, r - 1)
  OBVIOUS
<1>2. PICK q : q = SubSeq(s, r + 1, Len(s))
  OBVIOUS
<1>3. p \in Seq(Item) /\ Len(p) = r - 1 /\ \A i \in 1..(r - 1) : p[i] = s[i]
  <2>1. /\ p \in Seq(Item) /\ Len(p) = (r - 1) - 1 + 1
        /\ \A i \in 1..((r - 1) - 1 + 1) : p[i] = s[1 + i - 1]
    BY <1>0, <1>1, PartAt
  <2>2. \A i \in 1..(r - 1) : 1 + i - 1 = i
    OBVIOUS
  <2>3. QED
    BY <1>0, <2>1, <2>2
<1>4. /\ q \in Seq(Item) /\ Len(q) = Len(s) - r
      /\ \A i \in 1..(Len(s) - r) : q[i] = s[(r + 1) + i - 1]
  <2>1. /\ q \in Seq(Item) /\ Len(q) = Len(s) - (r + 1) + 1
        /\ \A i \in 1..(Len(s) - (r + 1) + 1) : q[i] = s[(r + 1) + i - 1]
    BY <1>0, <1>2, PartAt, Zenon
  <2>2. QED
    BY <1>0, <2>1, Zenon
<1>5. PICK v : v = p \o q
  OBVIOUS
<1>6. /\ v \in Seq(Item) /\ Len(v) = Len(p) + Len(q)
      /\ \A i \in 1..Len(p) : v[i] = p[i]
      /\ \A i \in 1..Len(q) : v[Len(p) + i] = q[i]
  <2>1. v = p \o q /\ p \in Seq(Item) /\ q \in Seq(Item)
    BY <1>3, <1>4, <1>5
  <2>2. QED
    BY <2>1, JoinedAt
<1>7. new = v
  BY <1>1, <1>2, <1>5 DEF RemoveAt
<1>8. Len(v) = Len(s) - 1
  BY <1>3, <1>4, <1>6
<1>9. ASSUME NEW i \in r..(Len(s) - 1) PROVE v[i] = s[i + 1]
  <2>1. /\ i - (r - 1) \in 1..Len(q) /\ i - (r - 1) \in 1..(Len(s) - r)
        /\ Len(p) + (i - (r - 1)) = i /\ (r + 1) + (i - (r - 1)) - 1 = i + 1
    BY <1>3, <1>4
  <2>2. v[i] = q[i - (r - 1)]
    BY <1>6, <2>1
  <2>3. q[i - (r - 1)] = s[i + 1]
    BY <1>4, <2>1
  <2>4. QED
    BY <2>2, <2>3
<1>10. QED
  BY <1>3, <1>6, <1>7, <1>8, <1>9

\* What is left of an expiry.
LEMMA LeftIs ==
  ASSUME NEW list \in Items, NEW e \in Nat, NEW i \in 0..Len(list)
  PROVE  /\ Left(list, i, e) \in Nat
         /\ Left(list, i, e) = IF Expiry(list, i) > e THEN Expiry(list, i) - e ELSE 0
BY ExpiryTypes DEF Left

\* Updating the list keeps its timers and takes the elapsed ticks off each expiry.
LEMMA UpdatedIs ==
  ASSUME NEW list \in Items, NEW new, new = Updated(list),
         counter \in 0..(Width - 1), last_delta_update_count \in 0..(Width - 1)
  PROVE  /\ new \in Items /\ Len(new) = Len(list)
         /\ \A i \in 1..Len(list) : new[i].timer = list[i].timer
         /\ \A i \in 0..Len(list) :
              Expiry(new, i) = Left(list, i, Diff(counter, last_delta_update_count))
<1> DEFINE e == Diff(counter, last_delta_update_count)
<1>1. e \in Nat
  BY DiffIs, TimeTypes
<1>2. Len(list) \in Nat /\ DOMAIN list = 1..Len(list)
  BY ExpiryTypes
<1>3. new = [i \in 1..Len(list) |->
               [list[i] EXCEPT !.delta = Left(list, i, e) - Left(list, i - 1, e)]]
  BY <1>2 DEF Updated
<1> HIDE DEF e
<1>4. ASSUME NEW i \in 1..Len(list)
      PROVE  /\ i \in 0..Len(list) /\ i - 1 \in 0..Len(list)
             /\ Left(list, i, e) - Left(list, i - 1, e) \in Nat
  <2>1. i \in 0..Len(list) /\ i - 1 \in 0..Len(list) /\ i - 1 <= i
    BY <1>2
  <2>2. Expiry(list, i - 1) <= Expiry(list, i)
    BY <2>1, ExpiryGrows
  <2>3. Expiry(list, i - 1) \in Nat /\ Expiry(list, i) \in Nat
    BY <2>1, ExpiryTypes
  <2>4. /\ Left(list, i, e) = IF Expiry(list, i) > e THEN Expiry(list, i) - e ELSE 0
        /\ Left(list, i - 1, e)
             = IF Expiry(list, i - 1) > e THEN Expiry(list, i - 1) - e ELSE 0
    BY <1>1, <2>1, LeftIs
  <2>5. QED
    BY <1>1, <2>1, <2>2, <2>3, <2>4
<1>5. ASSUME NEW i \in 1..Len(list)
      PROVE  /\ new[i] \in Item
             /\ new[i].timer = list[i].timer
             /\ new[i].delta = Left(list, i, e) - Left(list, i - 1, e)
  <2> DEFINE d == Left(list, i, e) - Left(list, i - 1, e)
  <2>1. new[i] = [list[i] EXCEPT !.delta = d]
    BY <1>3
  <2>2. d \in Nat /\ list[i] \in Item
    BY <1>4, ExpiryTypes
  <2> HIDE DEF d
  <2>3. new[i] \in Item /\ new[i].timer = list[i].timer /\ new[i].delta = d
    BY <2>1, <2>2 DEF Item
  <2>4. QED
    BY <2>3 DEF d
<1>6. new \in Items /\ Len(new) = Len(list)
  <2>1. new \in [1..Len(list) -> Item]
    BY <1>3, <1>5
  <2>2. QED
    BY <1>2, <2>1 DEF Items
<1> DEFINE f == [i \in 0..Len(list) |-> Left(list, i, e)]
<1>7. f[0] = 0
  <2>1. Left(list, 0, e) = 0
    BY <1>1, <1>2, ExpirySums DEF Left
  <2>2. QED
    BY <1>2, <2>1
<1>8. ASSUME NEW i \in 1..Len(new) PROVE f[i] = f[i - 1] + new[i].delta
  <2>1. f[i] = Left(list, i, e) /\ f[i - 1] = Left(list, i - 1, e)
    BY <1>4, <1>6
  <2>2. Left(list, i, e) \in Nat /\ Left(list, i - 1, e) \in Nat
    BY <1>1, <1>4, <1>6, LeftIs
  <2>3. new[i].delta = Left(list, i, e) - Left(list, i - 1, e)
    BY <1>5, <1>6
  <2>4. QED
    BY <2>1, <2>2, <2>3
<1>9. \A i \in 0..Len(list) : f[i] = Left(list, i, e)
  OBVIOUS
<1> HIDE DEF f
<1>10. \A i \in 0..Len(new) : Expiry(new, i) = f[i]
  BY <1>2, <1>6, <1>7, <1>8, ExpiryIs
<1>11. QED
  BY <1>5, <1>6, <1>9, <1>10 DEF e

\* The timers that expire by n are the first ones.
LEMMA FirstOnes ==
  ASSUME NEW list \in Items, NEW n \in Nat, NEW b,
         b = Cardinality({i \in DOMAIN list : Expiry(list, i) <= n})
  PROVE  /\ b \in 0..Len(list)
         /\ Expiry(list, b) <= n
         /\ \A i \in (b + 1)..Len(list) : Expiry(list, i) > n
<1>1. Len(list) \in Nat /\ DOMAIN list = 1..Len(list)
  BY ExpiryTypes
<1> DEFINE U == {i \in 1..(Len(list) + 1) : i = Len(list) + 1 \/ ~(Expiry(list, i) <= n)}
           S == {i \in DOMAIN list : Expiry(list, i) <= n}
<1>2. PICK x \in U : \A y \in U : x <= y
  <2>1. Len(list) + 1 \in U
    BY <1>1
  <2>2. U \subseteq Nat /\ U # {}
    BY <1>1, <2>1
  <2> HIDE DEF U
  <2>3. QED
    BY <2>2, LeastNumber
<1>3. x \in 1..(Len(list) + 1)
  OBVIOUS
<1>4. S = 1..(x - 1)
  <2>1. ASSUME NEW i \in S PROVE i \in 1..(x - 1)
    <3>1. i \in 1..Len(list) /\ Expiry(list, i) <= n
      BY <1>1
    <3>2. ASSUME x <= i PROVE FALSE
      <4>1. x \in 0..Len(list) /\ i \in 0..Len(list) /\ x # Len(list) + 1
        BY <1>1, <1>3, <3>1, <3>2
      <4>2. Expiry(list, x) <= Expiry(list, i)
        BY <3>2, <4>1, ExpiryGrows
      <4>3. Expiry(list, x) \in Nat /\ Expiry(list, i) \in Nat /\ ~(Expiry(list, x) <= n)
        BY <1>2, <4>1, ExpiryTypes
      <4>4. QED
        BY <3>1, <4>2, <4>3
    <3>3. QED
      BY <1>1, <1>3, <3>1, <3>2
  <2>2. ASSUME NEW i \in 1..(x - 1) PROVE i \in S
    <3>1. i \in 1..Len(list) /\ i \in 1..(Len(list) + 1) /\ i # Len(list) + 1 /\ ~(x <= i)
      BY <1>1, <1>3
    <3>2. i \notin U
      BY <1>2, <3>1
    <3>3. QED
      BY <1>1, <3>1, <3>2
  <2>3. QED
    BY <2>1, <2>2
<1>5. b = x - 1
  <2>1. x - 1 \in Int /\ 1 \in Int
    BY <1>3
  <2>2. Cardinality(1..(x - 1)) = IF 1 > x - 1 THEN 0 ELSE (x - 1) - 1 + 1
    BY <2>1, FS_Interval
  <2>3. b = Cardinality(1..(x - 1))
    BY <1>4
  <2>4. QED
    BY <1>3, <2>2, <2>3
<1>6. b \in 0..Len(list)
  BY <1>1, <1>3, <1>5
<1>7. Expiry(list, b) <= n
  <2>1. CASE b = 0
    BY <1>1, <2>1, ExpirySums
  <2>2. CASE b # 0
    <3>1. b \in S
      <4> HIDE DEF S
      <4>1. QED
        BY <1>4, <1>5, <1>6, <2>2
    <3>2. QED
      BY <3>1
  <2>3. QED
    BY <2>1, <2>2
<1>8. ASSUME NEW i \in (b + 1)..Len(list) PROVE Expiry(list, i) > n
  <2>1. i \in 1..Len(list) /\ ~(i \in 1..(x - 1)) /\ i \in 0..Len(list)
    BY <1>3, <1>5, <1>6
  <2>2. i \notin S
    <3> HIDE DEF S
    <3>1. QED
      BY <1>4, <2>1
  <2>3. ~(Expiry(list, i) <= n)
    BY <1>1, <2>1, <2>2
  <2>4. Expiry(list, i) \in Nat
    BY <2>1, ExpiryTypes
  <2>5. QED
    BY <2>3, <2>4
<1>9. QED
  BY <1>6, <1>7, <1>8

\* Timer t is behind the first b of a list and expires after n ticks; every other one
\* expires when it did.
Behind(list, t, n, new, b) ==
  /\ new \in Items /\ Len(new) = Len(list) + 1
  /\ \A i \in 1..b : new[i].timer = list[i].timer /\ Expiry(new, i) = Expiry(list, i)
  /\ new[b + 1].timer = t /\ Expiry(new, b + 1) = n
  /\ \A i \in (b + 1)..Len(list) :
       new[i + 1].timer = list[i].timer /\ Expiry(new, i + 1) = Expiry(list, i)

\* delta_list_insert_timer() keeps the expiries of the timers that were there.
LEMMA InsertedIs ==
  ASSUME NEW list \in Items, NEW t \in Timer, NEW n \in Nat,
         NEW new, new = Inserted(list, t, n)
  PROVE  \E b \in 0..Len(list) : Behind(list, t, n, new, b)
<1>1. PICK b : b = Cardinality({i \in DOMAIN list : Expiry(list, i) <= n})
  OBVIOUS
<1>2. /\ b \in 0..Len(list) /\ Expiry(list, b) <= n
      /\ \A i \in (b + 1)..Len(list) : Expiry(list, i) > n
  BY <1>1, FirstOnes
<1>3. /\ Len(list) \in Nat /\ DOMAIN list = 1..Len(list)
      /\ \A i \in 1..Len(list) : list[i] \in Item /\ list[i].delta \in Nat
                                 /\ list[i].timer \in Timer
      /\ \A i \in 0..Len(list) : Expiry(list, i) \in Nat
  BY ExpiryTypes
<1>4. /\ Expiry(list, 0) = 0
      /\ \A i \in 1..Len(list) : Expiry(list, i) = Expiry(list, i - 1) + list[i].delta
  BY <1>3, ExpirySums
<1>5. PICK d : d = n - Expiry(list, b)
  OBVIOUS
<1>6. d \in Nat
  BY <1>2, <1>3, <1>5
<1>7. PICK behind : behind = IF b < Len(list) THEN [list EXCEPT ![b + 1].delta = @ - d] ELSE list
  OBVIOUS
<1>8. new = InsertAt(behind, b + 1, [timer |-> t, delta |-> d])
  BY <1>1, <1>5, <1>7 DEF Inserted
<1>9. /\ behind \in Items /\ Len(behind) = Len(list)
      /\ \A i \in 1..Len(list) : i # b + 1 => behind[i] = list[i]
      /\ b < Len(list) => /\ behind[b + 1].timer = list[b + 1].timer
                          /\ behind[b + 1].delta = list[b + 1].delta - d
  <2>1. CASE b < Len(list)
    <3>1. b + 1 \in 1..Len(list) /\ b + 1 \in (b + 1)..Len(list) /\ (b + 1) - 1 = b
      BY <1>2, <1>3, <2>1
    <3>2. Expiry(list, b + 1) = Expiry(list, b) + list[b + 1].delta /\ Expiry(list, b + 1) > n
      BY <1>2, <1>4, <3>1
    <3>3. list[b + 1].delta - d \in Nat
      BY <1>2, <1>3, <1>5, <3>1, <3>2
    <3>4. PICK x : x = [list[b + 1] EXCEPT !.delta = list[b + 1].delta - d]
      OBVIOUS
    <3>5. x \in Item /\ x.timer = list[b + 1].timer /\ x.delta = list[b + 1].delta - d
      <4>1. list[b + 1] \in Item
        BY <1>3, <3>1
      <4>2. QED
        BY <3>3, <3>4, <4>1 DEF Item
    <3>6. behind = [list EXCEPT ![b + 1] = x]
      BY <1>7, <2>1, <3>4
    <3>7. list \in [1..Len(list) -> Item]
      BY <1>3 DEF Items
    <3>8. /\ behind \in [1..Len(list) -> Item]
          /\ behind[b + 1] = x
          /\ \A i \in 1..Len(list) : i # b + 1 => behind[i] = list[i]
      BY <3>1, <3>5, <3>6, <3>7
    <3>9. behind \in Items /\ Len(behind) = Len(list)
      BY <1>3, <3>8 DEF Items
    <3>10. QED
      BY <3>5, <3>8, <3>9
  <2>2. CASE ~(b < Len(list))
    BY <1>7, <2>2
  <2>3. QED
    BY <2>1, <2>2
<1>10. PICK e : e = [timer |-> t, delta |-> d]
  OBVIOUS
<1>11. e \in Item /\ e.timer = t /\ e.delta = d
  BY <1>6, <1>10 DEF Item
<1>12. /\ new \in Seq(Item) /\ Len(new) = Len(list) + 1
       /\ \A i \in 1..b : new[i] = behind[i]
       /\ new[b + 1] = e
       /\ \A i \in (b + 1)..Len(list) : new[i + 1] = behind[i]
  <2>1. PICK k : k = b + 1
    OBVIOUS
  <2>2. /\ behind \in Seq(Item) /\ k \in 1..(Len(behind) + 1) /\ e \in Item
        /\ new = InsertAt(behind, k, e)
    BY <1>2, <1>8, <1>9, <1>10, <1>11, <2>1 DEF Items
  <2>3. /\ new \in Seq(Item) /\ Len(new) = Len(behind) + 1
        /\ \A i \in 1..(k - 1) : new[i] = behind[i]
        /\ new[k] = e
        /\ \A i \in k..Len(behind) : new[i + 1] = behind[i]
    <3>1. new \in Seq(Item) /\ Len(new) = Len(behind) + 1
      BY <2>2, InsertedAt
    <3>2. \A i \in 1..(k - 1) : new[i] = behind[i]
      BY <2>2, InsertedAt
    <3>3. new[k] = e
      BY <2>2, InsertedAt
    <3>4. \A i \in k..Len(behind) : new[i + 1] = behind[i]
      BY <2>2, InsertedAt
    <3>5. QED
      BY <3>1, <3>2, <3>3, <3>4
  <2>4. k - 1 = b
    BY <1>2, <2>1
  <2>5. QED
    BY <1>9, <2>1, <2>3, <2>4
<1> DEFINE E(i) == Expiry(list, i)
           g == [i \in 0..(Len(list) + 1) |->
                   IF i <= b THEN E(i) ELSE IF i = b + 1 THEN n ELSE E(i - 1)]
<1>13. /\ \A i \in 0..b : g[i] = E(i)
       /\ g[b + 1] = n
       /\ \A i \in (b + 1)..Len(list) : g[i + 1] = E(i)
  <2> HIDE DEF E
  <2>1. \A i \in 0..b : i \in 0..(Len(list) + 1) /\ i <= b
    BY <1>2, <1>3
  <2>2. b + 1 \in 0..(Len(list) + 1) /\ ~(b + 1 <= b)
    BY <1>2, <1>3
  <2>3. \A i \in (b + 1)..Len(list) : /\ i + 1 \in 0..(Len(list) + 1) /\ ~(i + 1 <= b)
                                      /\ i + 1 # b + 1 /\ (i + 1) - 1 = i
    BY <1>2, <1>3
  <2>4. QED
    BY <2>1, <2>2, <2>3
<1> HIDE DEF g
<1>14. ASSUME NEW i \in 1..Len(new) PROVE g[i] = g[i - 1] + new[i].delta
  <2>1. CASE i \in 1..b
    <3>1. i \in 0..b /\ i - 1 \in 0..b /\ i \in 1..Len(list) /\ i # b + 1
      BY <1>2, <1>3, <2>1
    <3>2. g[i] = E(i) /\ g[i - 1] = E(i - 1) /\ new[i] = list[i]
      BY <1>9, <1>12, <1>13, <2>1, <3>1
    <3>3. QED
      BY <1>4, <3>1, <3>2
  <2>2. CASE i = b + 1
    <3>1. i - 1 = b /\ b \in 0..b
      BY <1>2, <2>2
    <3>2. g[i] = n /\ g[i - 1] = E(b) /\ new[i].delta = d
      BY <1>11, <1>12, <1>13, <2>2, <3>1
    <3>3. E(b) \in Nat
      BY <1>2, <1>3
    <3>4. QED
      BY <1>5, <3>2, <3>3
  <2>3. CASE i = b + 2
    <3>1. /\ b < Len(list) /\ b + 1 \in (b + 1)..Len(list) /\ b + 1 \in 1..Len(list)
          /\ (b + 1) + 1 = i /\ i - 1 = b + 1 /\ (b + 1) - 1 = b
      BY <1>2, <1>3, <1>12, <2>3
    <3>2. g[i] = E(b + 1) /\ g[i - 1] = n
      BY <1>13, <3>1
    <3>3. new[i].delta = list[b + 1].delta - d
      BY <1>9, <1>12, <3>1
    <3>4. E(b + 1) = E(b) + list[b + 1].delta
      BY <1>4, <3>1
    <3>5. E(b) \in Nat /\ list[b + 1].delta \in Nat
      BY <1>2, <1>3, <3>1
    <3> HIDE DEF E
    <3>6. d = n - E(b)
      BY <1>5 DEF E
    <3>7. QED
      BY <1>6, <3>2, <3>3, <3>4, <3>5, <3>6
  <2>4. CASE i > b + 2
    <3>1. /\ i - 1 \in (b + 1)..Len(list) /\ (i - 1) + 1 = i /\ i - 1 \in 1..Len(list)
          /\ i - 2 \in (b + 1)..Len(list) /\ (i - 2) + 1 = i - 1 /\ i - 1 # b + 1
          /\ (i - 1) - 1 = i - 2
      BY <1>2, <1>3, <1>12, <2>4
    <3>2. g[i] = E(i - 1) /\ g[i - 1] = E(i - 2)
      <4> HIDE DEF E
      <4>1. g[(i - 1) + 1] = E(i - 1) /\ g[(i - 2) + 1] = E(i - 2)
        BY <1>13, <3>1
      <4>2. QED
        BY <3>1, <4>1
    <3>3. new[i] = list[i - 1]
      <4>1. new[(i - 1) + 1] = behind[i - 1] /\ behind[i - 1] = list[i - 1]
        BY <1>9, <1>12, <3>1
      <4>2. QED
        BY <3>1, <4>1
    <3>4. E(i - 1) = E(i - 2) + list[i - 1].delta
      <4>1. Expiry(list, i - 1) = Expiry(list, (i - 1) - 1) + list[i - 1].delta
        BY <1>4, <3>1
      <4>2. QED
        BY <3>1, <4>1
    <3>5. QED
      BY <3>2, <3>3, <3>4
  <2>5. QED
    BY <1>2, <1>3, <1>12, <2>1, <2>2, <2>3, <2>4
<1>15. \A i \in 0..Len(new) : Expiry(new, i) = g[i]
  <2>1. g[0] = 0
    <3>1. 0 \in 0..b
      BY <1>2
    <3>2. QED
      BY <1>4, <1>13, <3>1
  <2>2. Len(new) \in Nat
    BY <1>3, <1>12
  <2> HIDE DEF E
  <2>3. QED
    BY <1>14, <2>1, <2>2, ExpiryIs
<1>16. ASSUME NEW i \in 1..b
       PROVE  new[i].timer = list[i].timer /\ Expiry(new, i) = E(i)
  <2>1. i \in 0..b /\ i \in 1..Len(list) /\ i # b + 1 /\ i \in 0..Len(new)
    BY <1>2, <1>3, <1>12
  <2>2. QED
    BY <1>9, <1>12, <1>13, <1>15, <2>1
<1>17. new[b + 1].timer = t /\ Expiry(new, b + 1) = n
  <2>1. b + 1 \in 0..Len(new)
    BY <1>2, <1>3, <1>12
  <2>2. QED
    BY <1>11, <1>12, <1>13, <1>15, <2>1
<1>18. ASSUME NEW i \in (b + 1)..Len(list)
       PROVE  new[i + 1].timer = list[i].timer /\ Expiry(new, i + 1) = E(i)
  <2>1. i + 1 \in 0..Len(new) /\ i \in 1..Len(list)
    BY <1>2, <1>3, <1>12
  <2>2. behind[i].timer = list[i].timer
    <3>1. CASE i = b + 1
      BY <1>2, <1>3, <1>9, <3>1
    <3>2. CASE i # b + 1
      BY <1>9, <2>1, <3>2
    <3>3. QED
      BY <3>1, <3>2
  <2>3. QED
    BY <1>12, <1>13, <1>15, <2>1, <2>2
<1>19. QED
  <2>1. Behind(list, t, n, new, b)
    BY <1>12, <1>16, <1>17, <1>18 DEF Behind, Items
  <2>2. QED
    BY <1>2, <2>1

\* The r-th timer is taken out; every other one expires when it did.
Without(list, new, r) ==
  /\ new \in Items /\ Len(new) = Len(list) - 1
  /\ \A i \in 1..(r - 1) : new[i].timer = list[i].timer /\ Expiry(new, i) = Expiry(list, i)
  /\ \A i \in (r + 1)..Len(list) :
       new[i - 1].timer = list[i].timer /\ Expiry(new, i - 1) = Expiry(list, i)

\* delta_list_remove_timer() keeps the expiries of the timers that stay.
LEMMA RemovedIs ==
  ASSUME NEW list \in Items, NEW t, \E i \in 1..Len(list) : list[i].timer = t,
         NEW new, new = Removed(list, t)
  PROVE  \E r \in 1..Len(list) : list[r].timer = t /\ Without(list, new, r)
<1>1. /\ Len(list) \in Nat /\ DOMAIN list = 1..Len(list)
      /\ \A i \in 1..Len(list) : list[i] \in Item /\ list[i].delta \in Nat
                                 /\ list[i].timer \in Timer
      /\ \A i \in 0..Len(list) : Expiry(list, i) \in Nat
  BY ExpiryTypes
<1>2. /\ Expiry(list, 0) = 0
      /\ \A i \in 1..Len(list) : Expiry(list, i) = Expiry(list, i - 1) + list[i].delta
  BY <1>1, ExpirySums
<1>3. PICK r : r = CHOOSE k \in DOMAIN list : list[k].timer = t
  OBVIOUS
<1>4. r \in 1..Len(list) /\ list[r].timer = t
  BY <1>1, <1>3
<1>5. PICK d : d = list[r].delta
  OBVIOUS
<1>6. PICK on : on = IF r < Len(list) THEN [list EXCEPT ![r + 1].delta = @ + d] ELSE list
  OBVIOUS
<1>7. new = RemoveAt(on, r)
  BY <1>3, <1>5, <1>6 DEF Removed
<1>8. d \in Nat
  BY <1>1, <1>4, <1>5
<1>9. /\ on \in Items /\ Len(on) = Len(list)
      /\ \A i \in 1..Len(list) : i # r + 1 => on[i] = list[i]
      /\ r < Len(list) => /\ on[r + 1].timer = list[r + 1].timer
                          /\ on[r + 1].delta = list[r + 1].delta + d
  <2>1. CASE r < Len(list)
    <3>1. r + 1 \in 1..Len(list)
      BY <1>1, <1>4, <2>1
    <3>2. list[r + 1].delta + d \in Nat
      BY <1>1, <1>8, <3>1
    <3>3. PICK x : x = [list[r + 1] EXCEPT !.delta = list[r + 1].delta + d]
      OBVIOUS
    <3>4. x \in Item /\ x.timer = list[r + 1].timer /\ x.delta = list[r + 1].delta + d
      <4>1. list[r + 1] \in Item
        BY <1>1, <3>1
      <4>2. QED
        BY <3>2, <3>3, <4>1 DEF Item
    <3>5. on = [list EXCEPT ![r + 1] = x]
      BY <1>6, <2>1, <3>3
    <3>6. list \in [1..Len(list) -> Item]
      BY <1>1 DEF Items
    <3>7. /\ on \in [1..Len(list) -> Item]
          /\ on[r + 1] = x
          /\ \A i \in 1..Len(list) : i # r + 1 => on[i] = list[i]
      BY <3>1, <3>4, <3>5, <3>6
    <3>8. on \in Items /\ Len(on) = Len(list)
      BY <1>1, <3>7 DEF Items
    <3>9. QED
      BY <3>4, <3>7, <3>8
  <2>2. CASE ~(r < Len(list))
    BY <1>6, <2>2
  <2>3. QED
    BY <2>1, <2>2
<1>10. /\ new \in Seq(Item) /\ Len(new) = Len(list) - 1
       /\ \A i \in 1..(r - 1) : new[i] = on[i]
       /\ \A i \in r..(Len(list) - 1) : new[i] = on[i + 1]
  <2>1. on \in Seq(Item) /\ r \in 1..Len(on)
    BY <1>4, <1>9 DEF Items
  <2>2. /\ new \in Seq(Item) /\ Len(new) = Len(on) - 1
        /\ \A i \in 1..(r - 1) : new[i] = on[i]
        /\ \A i \in r..(Len(on) - 1) : new[i] = on[i + 1]
    BY <1>7, <2>1, RemovedAt
  <2>3. QED
    BY <1>9, <2>2
<1> DEFINE E(i) == Expiry(list, i)
           g == [i \in 0..(Len(list) - 1) |-> IF i <= r - 1 THEN E(i) ELSE E(i + 1)]
<1>11. /\ \A i \in 0..(r - 1) : g[i] = E(i)
       /\ \A i \in r..(Len(list) - 1) : g[i] = E(i + 1)
  <2> HIDE DEF E
  <2>1. \A i \in 0..(r - 1) : i \in 0..(Len(list) - 1) /\ i <= r - 1
    BY <1>1, <1>4
  <2>2. \A i \in r..(Len(list) - 1) : i \in 0..(Len(list) - 1) /\ ~(i <= r - 1)
    BY <1>1, <1>4
  <2>3. QED
    BY <2>1, <2>2
<1> HIDE DEF g
<1>12. ASSUME NEW i \in 1..Len(new) PROVE g[i] = g[i - 1] + new[i].delta
  <2>1. CASE i \in 1..(r - 1)
    <3>1. i \in 0..(r - 1) /\ i - 1 \in 0..(r - 1) /\ i \in 1..Len(list) /\ i # r + 1
      BY <1>1, <1>4, <2>1
    <3>2. g[i] = E(i) /\ g[i - 1] = E(i - 1) /\ new[i] = list[i]
      BY <1>9, <1>10, <1>11, <2>1, <3>1
    <3>3. QED
      BY <1>2, <3>1, <3>2
  <2>2. CASE i = r
    <3>1. /\ r < Len(list) /\ r \in r..(Len(list) - 1) /\ r - 1 \in 0..(r - 1)
          /\ r + 1 \in 1..Len(list) /\ (r + 1) - 1 = r
      BY <1>1, <1>4, <1>10, <2>2
    <3>2. g[i] = E(r + 1) /\ g[i - 1] = E(r - 1) /\ new[i].delta = list[r + 1].delta + d
      BY <1>9, <1>10, <1>11, <2>2, <3>1
    <3>3. E(r + 1) = E(r) + list[r + 1].delta /\ E(r) = E(r - 1) + d
      <4>1. Expiry(list, r + 1) = Expiry(list, (r + 1) - 1) + list[r + 1].delta
        BY <1>2, <3>1
      <4>2. Expiry(list, r) = Expiry(list, r - 1) + list[r].delta
        BY <1>2, <1>4
      <4>3. QED
        BY <1>5, <3>1, <4>1, <4>2
    <3>4. E(r - 1) \in Nat /\ list[r + 1].delta \in Nat
      <4>1. r - 1 \in 0..Len(list)
        BY <1>1, <1>4
      <4>2. QED
        BY <1>1, <3>1, <4>1
    <3> HIDE DEF E
    <3>5. QED
      BY <1>8, <3>2, <3>3, <3>4
  <2>3. CASE i > r
    <3>1. /\ i \in r..(Len(list) - 1) /\ i - 1 \in r..(Len(list) - 1) /\ (i - 1) + 1 = i
          /\ i + 1 \in 1..Len(list) /\ i + 1 # r + 1 /\ (i + 1) - 1 = i
      BY <1>1, <1>4, <1>10, <2>3
    <3>2. g[i] = E(i + 1) /\ g[i - 1] = E(i) /\ new[i] = list[i + 1]
      <4> HIDE DEF E
      <4>1. g[i] = E(i + 1) /\ g[i - 1] = E((i - 1) + 1) /\ new[i] = on[i + 1]
        BY <1>10, <1>11, <3>1
      <4>2. on[i + 1] = list[i + 1]
        BY <1>9, <3>1
      <4>3. QED
        BY <3>1, <4>1, <4>2
    <3>3. E(i + 1) = E(i) + list[i + 1].delta
      <4>1. Expiry(list, i + 1) = Expiry(list, (i + 1) - 1) + list[i + 1].delta
        BY <1>2, <3>1
      <4>2. QED
        BY <3>1, <4>1
    <3>4. QED
      BY <3>2, <3>3
  <2>4. QED
    BY <1>1, <1>4, <1>10, <2>1, <2>2, <2>3
<1>13. \A i \in 0..Len(new) : Expiry(new, i) = g[i]
  <2>1. g[0] = 0
    <3>1. 0 \in 0..(r - 1)
      BY <1>4
    <3>2. QED
      BY <1>2, <1>11, <3>1
  <2>2. Len(new) \in Nat
    BY <1>1, <1>4, <1>10
  <2> HIDE DEF E
  <2>3. QED
    BY <1>12, <2>1, <2>2, ExpiryIs
<1>14. ASSUME NEW i \in 1..(r - 1)
       PROVE  new[i].timer = list[i].timer /\ Expiry(new, i) = E(i)
  <2>1. i \in 0..(r - 1) /\ i \in 1..Len(list) /\ i # r + 1 /\ i \in 0..Len(new)
    BY <1>1, <1>4, <1>10
  <2>2. QED
    BY <1>9, <1>10, <1>11, <1>13, <2>1
<1>15. ASSUME NEW i \in (r + 1)..Len(list)
       PROVE  new[i - 1].timer = list[i].timer /\ Expiry(new, i - 1) = E(i)
  <2>1. i - 1 \in r..(Len(list) - 1) /\ i - 1 \in 0..Len(new) /\ (i - 1) + 1 = i /\ i \in 1..Len(list)
    BY <1>1, <1>4, <1>10
  <2>2. on[i].timer = list[i].timer
    <3>1. CASE i = r + 1
      BY <1>1, <1>4, <1>9, <3>1
    <3>2. CASE i # r + 1
      BY <1>9, <2>1, <3>2
    <3>3. QED
      BY <3>1, <3>2
  <2>3. new[i - 1] = on[i]
    <3>1. new[i - 1] = on[(i - 1) + 1]
      BY <1>10, <2>1
    <3>2. QED
      BY <2>1, <3>1
  <2>4. Expiry(new, i - 1) = E(i)
    <3> HIDE DEF E
    <3>1. Expiry(new, i - 1) = E((i - 1) + 1)
      BY <1>11, <1>13, <2>1
    <3>2. QED
      BY <2>1, <3>1
  <2>5. QED
    BY <2>2, <2>3, <2>4
<1>16. QED
  <2>1. Without(list, new, r)
    BY <1>10, <1>14, <1>15 DEF Without, Items
  <2>2. QED
    BY <1>4, <2>1

\* A list plans timer t after n ticks.
Plans(list, t, n) == \E i \in 1..Len(list) : list[i].timer = t /\ Expiry(list, i) = n
Timers(list)      == {list[i].timer : i \in 1..Len(list)}
Distinct(list)    == \A i, j \in 1..Len(list) : list[i].timer = list[j].timer => i = j

Clipped(n, e) == IF n > e THEN n - e ELSE 0

\* What a list plans are its own timers, at a natural number of ticks.
LEMMA PlansTypes ==
  ASSUME NEW list \in Items
  PROVE  /\ Len(list) \in Nat
         /\ \A t, n : Plans(list, t, n) => t \in Timers(list) /\ n \in Nat
         /\ \A t \in Timers(list) : \E n \in Nat : Plans(list, t, n)
         /\ Timers(list) \subseteq Timer
         /\ list = <<>> <=> Len(list) = 0
         /\ list # <<>> => 1 \in 1..Len(list) /\ Plans(list, list[1].timer, Expiry(list, 1))
<1>1. /\ Len(list) \in Nat
      /\ \A i \in 1..Len(list) : list[i].timer \in Timer
      /\ \A i \in 0..Len(list) : Expiry(list, i) \in Nat
      /\ \A i \in 1..Len(list) : i \in 0..Len(list)
  BY ExpiryTypes
<1>2. list = <<>> <=> Len(list) = 0
  BY DEF Items
<1>3. list # <<>> => 1 \in 1..Len(list)
  BY <1>1, <1>2
<1>4. QED
  BY <1>1, <1>2, <1>3 DEF Plans, Timers

\* A list with one more timer plans the others as before.
LEMMA InsertedPlans ==
  ASSUME NEW list \in Items, NEW t \in Timer, NEW n \in Nat,
         NEW new, new = Inserted(list, t, n)
  PROVE  /\ new \in Items /\ new # <<>>
         /\ \A u, m : Plans(new, u, m) <=> Plans(list, u, m) \/ (u = t /\ m = n)
         /\ Timers(new) = Timers(list) \cup {t}
         /\ Distinct(list) /\ t \notin Timers(list) => Distinct(new)
         /\ \/ new[1].timer = t
            \/ list # <<>> /\ Expiry(new, 1) = Expiry(list, 1)
<1>0. PICK b \in 0..Len(list) : Behind(list, t, n, new, b)
  BY InsertedIs
<1>1. /\ new \in Items /\ Len(new) = Len(list) + 1
      /\ \A i \in 1..b : new[i].timer = list[i].timer /\ Expiry(new, i) = Expiry(list, i)
      /\ new[b + 1].timer = t /\ Expiry(new, b + 1) = n
      /\ \A i \in (b + 1)..Len(list) :
           new[i + 1].timer = list[i].timer /\ Expiry(new, i + 1) = Expiry(list, i)
  BY <1>0 DEF Behind
<1>2. Len(list) \in Nat
  BY PlansTypes
<1>3. /\ \A i \in 1..Len(list) : i \in 1..b \/ i \in (b + 1)..Len(list)
      /\ \A i \in 1..b : i \in 1..Len(list) /\ i \in 1..Len(new)
      /\ \A i \in (b + 1)..Len(list) : i \in 1..Len(list) /\ i + 1 \in 1..Len(new)
      /\ b + 1 \in 1..Len(new)
      /\ \A j \in 1..Len(new) : \/ j \in 1..b \/ j = b + 1
                                \/ j - 1 \in (b + 1)..Len(list) /\ (j - 1) + 1 = j
  BY <1>1, <1>2
<1>4. ASSUME NEW j \in 1..Len(new)
      PROVE  \/ j = b + 1 /\ new[j].timer = t /\ Expiry(new, j) = n
             \/ /\ j # b + 1
                /\ \E i \in 1..Len(list) :
                     /\ new[j].timer = list[i].timer /\ Expiry(new, j) = Expiry(list, i)
                     /\ i = IF j <= b THEN j ELSE j - 1
  <2>1. CASE j \in 1..b
    <3>1. j <= b /\ j # b + 1
      BY <1>1, <1>2, <2>1
    <3>2. QED
      BY <1>1, <1>3, <2>1, <3>1
  <2>2. CASE j = b + 1
    BY <1>1, <2>2
  <2>3. CASE j - 1 \in (b + 1)..Len(list) /\ (j - 1) + 1 = j
    <3>1. ~(j <= b) /\ j # b + 1
      BY <1>1, <1>2, <2>3
    <3>2. new[(j - 1) + 1].timer = list[j - 1].timer /\ Expiry(new, (j - 1) + 1) = Expiry(list, j - 1)
      BY <1>1, <2>3
    <3>3. QED
      BY <1>3, <2>3, <3>1, <3>2
  <2>4. QED
    BY <1>3, <2>1, <2>2, <2>3
<1>5. ASSUME NEW i \in 1..Len(list)
      PROVE  \E j \in 1..Len(new) :
               new[j].timer = list[i].timer /\ Expiry(new, j) = Expiry(list, i)
  BY <1>1, <1>3
<1>6. \A u, m : Plans(new, u, m) <=> Plans(list, u, m) \/ (u = t /\ m = n)
  <2>1. ASSUME NEW u, NEW m, Plans(new, u, m) PROVE Plans(list, u, m) \/ (u = t /\ m = n)
    <3>1. PICK j \in 1..Len(new) : new[j].timer = u /\ Expiry(new, j) = m
      BY <2>1 DEF Plans
    <3>2. QED
      BY <1>4, <3>1 DEF Plans
  <2>2. ASSUME NEW u, NEW m, Plans(list, u, m) PROVE Plans(new, u, m)
    <3>1. PICK i \in 1..Len(list) : list[i].timer = u /\ Expiry(list, i) = m
      BY <2>2 DEF Plans
    <3>2. PICK j \in 1..Len(new) : new[j].timer = u /\ Expiry(new, j) = m
      BY <1>5, <3>1
    <3>3. QED
      BY <3>2 DEF Plans
  <2>3. Plans(new, t, n)
    BY <1>1, <1>3 DEF Plans
  <2>4. QED
    BY <2>1, <2>2, <2>3
<1>7. Timers(new) = Timers(list) \cup {t}
  <2>1. \A j \in 1..Len(new) : new[j].timer = t \/ \E i \in 1..Len(list) : new[j].timer = list[i].timer
    BY <1>4
  <2>2. \A i \in 1..Len(list) : \E j \in 1..Len(new) : new[j].timer = list[i].timer
    BY <1>5
  <2>3. \E j \in 1..Len(new) : new[j].timer = t
    BY <1>1, <1>3
  <2>4. ASSUME NEW u PROVE u \in Timers(new) <=> u \in Timers(list) \/ u = t
    <3>1. /\ u \in Timers(new) <=> \E j \in 1..Len(new) : new[j].timer = u
          /\ u \in Timers(list) <=> \E i \in 1..Len(list) : list[i].timer = u
      BY Zenon DEF Timers
    <3>2. QED
      BY <2>1, <2>2, <2>3, <3>1, Zenon
  <2>5. QED
    BY <2>4
<1>8. ASSUME Distinct(list), t \notin Timers(list) PROVE Distinct(new)
  <2>1. SUFFICES ASSUME NEW j \in 1..Len(new), NEW k \in 1..Len(new),
                        new[j].timer = new[k].timer
                 PROVE  j = k
    BY DEF Distinct
  <2>2. \A i \in 1..Len(list) : list[i].timer # t
    BY <1>8 DEF Timers
  <2>3. CASE j = b + 1 \/ k = b + 1
    BY <1>4, <2>1, <2>2, <2>3
  <2>4. CASE j # b + 1 /\ k # b + 1
    <3> DEFINE x == IF j <= b THEN j ELSE j - 1
               y == IF k <= b THEN k ELSE k - 1
    <3>1. x \in 1..Len(list) /\ new[j].timer = list[x].timer
      BY <1>4, <2>4
    <3>2. y \in 1..Len(list) /\ new[k].timer = list[y].timer
      BY <1>4, <2>4
    <3>3. x = y
      <4> HIDE DEF x, y
      <4>1. QED
        BY <1>8, <2>1, <3>1, <3>2 DEF Distinct
    <3>4. QED
      BY <1>1, <1>2, <2>4, <3>3
  <2>5. QED
    BY <2>3, <2>4
<1>9. \/ new[1].timer = t
      \/ list # <<>> /\ Expiry(new, 1) = Expiry(list, 1)
  <2>1. CASE b = 0
    <3>1. b + 1 = 1
      BY <2>1
    <3>2. QED
      BY <1>1, <3>1
  <2>2. CASE b # 0
    <3>1. 1 \in 1..b /\ Len(list) # 0
      BY <1>1, <1>2, <2>2
    <3>2. QED
      BY <1>1, <3>1, PlansTypes
  <2>3. QED
    BY <2>1, <2>2
<1>10. new # <<>>
  <2>1. Len(new) # 0
    BY <1>1, <1>2
  <2>2. QED
    BY <1>1, <2>1, PlansTypes
<1>11. QED
  BY <1>1, <1>6, <1>7, <1>8, <1>9, <1>10

\* A list without a timer plans the others as before.
LEMMA RemovedPlans ==
  ASSUME NEW list \in Items, NEW t \in Timers(list), Distinct(list),
         NEW new, new = Removed(list, t)
  PROVE  /\ new \in Items
         /\ \A u, m : Plans(new, u, m) <=> Plans(list, u, m) /\ u # t
         /\ Timers(new) = Timers(list) \ {t}
         /\ Distinct(new)
         /\ \/ list[1].timer = t
            \/ new # <<>> /\ Expiry(new, 1) = Expiry(list, 1)
<1>0. \E i \in 1..Len(list) : list[i].timer = t
  BY DEF Timers
<1>a. PICK r \in 1..Len(list) : list[r].timer = t /\ Without(list, new, r)
  BY <1>0, RemovedIs
<1>1. /\ list[r].timer = t
      /\ new \in Items /\ Len(new) = Len(list) - 1
      /\ \A i \in 1..(r - 1) : new[i].timer = list[i].timer /\ Expiry(new, i) = Expiry(list, i)
      /\ \A i \in (r + 1)..Len(list) :
           new[i - 1].timer = list[i].timer /\ Expiry(new, i - 1) = Expiry(list, i)
  BY <1>a DEF Without
<1>2. Len(list) \in Nat
  BY PlansTypes
<1>3. /\ \A i \in 1..Len(list) : i \in 1..(r - 1) \/ i = r \/ i \in (r + 1)..Len(list)
      /\ \A i \in 1..(r - 1) : i \in 1..Len(list) /\ i \in 1..Len(new)
      /\ \A i \in (r + 1)..Len(list) : i \in 1..Len(list) /\ i - 1 \in 1..Len(new)
      /\ \A j \in 1..Len(new) : \/ j \in 1..(r - 1)
                                \/ j + 1 \in (r + 1)..Len(list) /\ (j + 1) - 1 = j
  BY <1>1, <1>2
<1>4. ASSUME NEW j \in 1..Len(new)
      PROVE  \E i \in 1..Len(list) :
               /\ i # r
               /\ new[j].timer = list[i].timer /\ Expiry(new, j) = Expiry(list, i)
               /\ i = IF j <= r - 1 THEN j ELSE j + 1
  <2>1. CASE j \in 1..(r - 1)
    <3>1. j <= r - 1 /\ j # r
      BY <1>1, <1>2, <2>1
    <3>2. QED
      BY <1>1, <1>3, <2>1, <3>1
  <2>2. CASE j + 1 \in (r + 1)..Len(list) /\ (j + 1) - 1 = j
    <3>1. ~(j <= r - 1) /\ j + 1 # r
      BY <1>1, <1>2, <2>2
    <3>2. new[(j + 1) - 1].timer = list[j + 1].timer /\ Expiry(new, (j + 1) - 1) = Expiry(list, j + 1)
      BY <1>1, <2>2
    <3>3. QED
      BY <1>3, <2>2, <3>1, <3>2
  <2>3. QED
    BY <1>3, <2>1, <2>2
<1>5. ASSUME NEW i \in 1..Len(list), i # r
      PROVE  /\ list[i].timer # t
             /\ \E j \in 1..Len(new) :
                  new[j].timer = list[i].timer /\ Expiry(new, j) = Expiry(list, i)
  <2>1. list[i].timer # t
    BY <1>1, <1>5 DEF Distinct
  <2>2. QED
    BY <1>1, <1>3, <1>5, <2>1
<1>6. \A u, m : Plans(new, u, m) <=> Plans(list, u, m) /\ u # t
  <2>1. ASSUME NEW u, NEW m, Plans(new, u, m) PROVE Plans(list, u, m) /\ u # t
    <3>1. PICK j \in 1..Len(new) : new[j].timer = u /\ Expiry(new, j) = m
      BY <2>1 DEF Plans
    <3>2. PICK i \in 1..Len(list) : i # r /\ list[i].timer = u /\ Expiry(list, i) = m
      BY <1>4, <3>1
    <3>3. u # t
      BY <1>5, <3>2
    <3>4. QED
      BY <3>2, <3>3 DEF Plans
  <2>2. ASSUME NEW u, NEW m, Plans(list, u, m), u # t PROVE Plans(new, u, m)
    <3>1. PICK i \in 1..Len(list) : list[i].timer = u /\ Expiry(list, i) = m
      BY <2>2 DEF Plans
    <3>2. i # r
      BY <1>1, <2>2, <3>1
    <3>3. QED
      BY <1>5, <3>1, <3>2 DEF Plans
  <2>3. QED
    BY <2>1, <2>2
<1>7. Timers(new) = Timers(list) \ {t}
  <2>1. \A j \in 1..Len(new) : \E i \in 1..Len(list) : new[j].timer = list[i].timer /\ list[i].timer # t
    BY <1>4, <1>5
  <2>2. \A i \in 1..Len(list) : list[i].timer = t \/ \E j \in 1..Len(new) : new[j].timer = list[i].timer
    BY <1>1, <1>5
  <2>3. ASSUME NEW u PROVE u \in Timers(new) <=> u \in Timers(list) /\ u # t
    <3>1. /\ u \in Timers(new) <=> \E j \in 1..Len(new) : new[j].timer = u
          /\ u \in Timers(list) <=> \E i \in 1..Len(list) : list[i].timer = u
      BY Zenon DEF Timers
    <3>2. ASSUME u \in Timers(new) PROVE u \in Timers(list) /\ u # t
      <4>1. PICK j \in 1..Len(new) : new[j].timer = u
        BY <3>1, <3>2
      <4>2. QED
        BY <2>1, <3>1, <4>1
    <3>3. ASSUME u \in Timers(list), u # t PROVE u \in Timers(new)
      <4>1. PICK i \in 1..Len(list) : list[i].timer = u
        BY <3>1, <3>3
      <4>2. QED
        BY <2>2, <3>1, <3>3, <4>1
    <3>4. QED
      BY <3>2, <3>3
  <2>4. QED
    BY <2>3
<1>8. Distinct(new)
  <2>1. SUFFICES ASSUME NEW j \in 1..Len(new), NEW k \in 1..Len(new),
                        new[j].timer = new[k].timer
                 PROVE  j = k
    BY DEF Distinct
  <2> DEFINE x == IF j <= r - 1 THEN j ELSE j + 1
             y == IF k <= r - 1 THEN k ELSE k + 1
  <2>2. x \in 1..Len(list) /\ new[j].timer = list[x].timer
    BY <1>4
  <2>3. y \in 1..Len(list) /\ new[k].timer = list[y].timer
    BY <1>4
  <2>4. x = y
    <3> HIDE DEF x, y
    <3>1. QED
      BY <2>1, <2>2, <2>3 DEF Distinct
  <2>5. QED
    BY <1>1, <1>2, <2>4
<1>9. \/ list[1].timer = t
      \/ new # <<>> /\ Expiry(new, 1) = Expiry(list, 1)
  <2>1. CASE r = 1
    BY <1>1, <2>1
  <2>2. CASE r # 1
    <3>1. 1 \in 1..(r - 1) /\ Len(new) # 0
      BY <1>1, <1>2, <2>2
    <3>2. QED
      BY <1>1, <3>1, PlansTypes
  <2>3. QED
    BY <2>1, <2>2
<1>10. QED
  BY <1>1, <1>6, <1>7, <1>8, <1>9

\* update_delta_list() takes what has elapsed off every plan.
LEMMA UpdatedPlans ==
  ASSUME NEW list \in Items, NEW new, new = Updated(list),
         counter \in 0..(Width - 1), last_delta_update_count \in 0..(Width - 1)
  PROVE  /\ new \in Items /\ (new = <<>> <=> list = <<>>)
         /\ \A u, m : Plans(new, u, m) <=>
              \E k \in Nat : /\ Plans(list, u, k)
                             /\ m = Clipped(k, Diff(counter, last_delta_update_count))
         /\ Timers(new) = Timers(list)
         /\ Distinct(list) => Distinct(new)
         /\ list # <<>> => /\ Expiry(new, 1) = Left(list, 1, Diff(counter, last_delta_update_count))
                           /\ new[1].timer = list[1].timer
<1> DEFINE e == Diff(counter, last_delta_update_count)
<1>1. /\ new \in Items /\ Len(new) = Len(list)
      /\ \A i \in 1..Len(list) : new[i].timer = list[i].timer
      /\ \A i \in 0..Len(list) : Expiry(new, i) = Left(list, i, e)
  BY UpdatedIs
<1>2. /\ Len(list) \in Nat
      /\ \A i \in 1..Len(list) : i \in 0..Len(list)
      /\ \A i \in 0..Len(list) : Expiry(list, i) \in Nat
  BY ExpiryTypes
<1> HIDE DEF e
<1>3. \A i \in 0..Len(list) : Expiry(new, i) = Clipped(Expiry(list, i), e)
  BY <1>1 DEF Left, Clipped
<1>4. \A u, m : Plans(new, u, m) <=> \E k \in Nat : Plans(list, u, k) /\ m = Clipped(k, e)
  BY <1>1, <1>2, <1>3 DEF Plans
<1>5. Timers(new) = Timers(list)
  BY <1>1 DEF Timers
<1>6. Distinct(list) => Distinct(new)
  BY <1>1 DEF Distinct
<1>7. new = <<>> <=> list = <<>>
  BY <1>1, PlansTypes
<1>8. list # <<>> => Expiry(new, 1) = Left(list, 1, e) /\ new[1].timer = list[1].timer
  BY <1>1, <1>2, PlansTypes
<1>9. QED
  BY <1>1, <1>4, <1>5, <1>6, <1>7, <1>8 DEF e

-----------------------------------------------------------------------------
(* The steps.                                                              *)

Elapsed == Diff(counter, last_delta_update_count)

\* The types without the bound on deltas.
SleepTypes ==
  /\ counter \in 0..(Width - 1) /\ compare \in 0..(Width - 1)
  /\ last_delta_update_count \in 0..(Width - 1)
  /\ armed \in BOOLEAN /\ comp_flag \in BOOLEAN /\ of_flag \in BOOLEAN
  /\ chain \in Items
  /\ overflow_counter \in 0..1 /\ wraps \in 0..1 /\ waited \in 0..Latency
  /\ timeout_periodic \in [Timer -> Timeouts \cup {0}]
  /\ timeout_expected_tc \in [Timer -> 0..(Width - 1)]
  /\ creating \in [timer : Timer, timeout : Timeouts] \cup {Idle}
  /\ handler \in {"none", "loop", "callback"}
  /\ due \in [Timer -> Int]

\* A timer is in the list once, and the one being created is not, unless a callback
\* has started it.
OncePlanned ==
  /\ Distinct(chain)
  /\ creating # Idle /\ shared # "started" => creating.timer \notin Timers(chain)

\* In the loop the list is up to date, but for one tick.
Fresh == handler = "loop" => Elapsed \in 0..1

SleepInv == SleepTypes /\ OncePlanned /\ Fresh

\* The numbers the callers and the clock give.
LEMMA TimeoutTypes ==
  /\ \A n \in Timeouts : n \in Nat /\ n \in 1..(Width - 1)
  /\ RestoreDelay \in Nat /\ MaxLate \in Nat
BY TimeAssumption DEF TimeAssumption

\* The absent timer is no handle.
LEMMA Handles == NoTimer \notin Timer
BY TimerAssumption DEF TimerAssumption

\* The timers listed are those of the list.
LEMMA ListedTimers ==
  ASSUME chain \in Items
  PROVE  Listed = Timers(chain) /\ DOMAIN chain = 1..Len(chain)
BY ExpiryTypes DEF Listed, Timers

\* What has elapsed is a difference of the counter.
LEMMA ElapsedTypes ==
  ASSUME counter \in 0..(Width - 1), last_delta_update_count \in 0..(Width - 1)
  PROVE  Elapsed \in 0..(Width - 1) /\ Elapsed \in Nat
BY DiffIs, TimeTypes DEF Elapsed

\* In deep sleep a timeout gets no shorter.
LEMMA TicksTypes ==
  ASSUME NEW t, NEW n \in Nat, NEW ticks \in Timeout(t, n)
  PROVE  ticks \in Nat /\ ticks >= n
         /\ (ticks = n \/ (t \in HfTimers /\ ticks = RestoreDelay))
BY TimeoutTypes DEF Timeout

\* The list after a timer was enlisted, and what is done to the comparator.
Enlisted(t, ticks) ==
  /\ ticks \in Nat
  /\ chain' \in Items /\ chain' # <<>>
  /\ last_delta_update_count' = counter
  /\ \A u, m : Plans(chain', u, m) <=>
       \/ u = t /\ m = ticks
       \/ \E k \in Nat : Plans(chain, u, k) /\ m = Clipped(k, Elapsed)
  /\ Timers(chain') = Timers(chain) \cup {t}
  /\ Distinct(chain) /\ t \notin Timers(chain) => Distinct(chain')
  /\ \/ armed' = TRUE
        /\ sleeptimer_hal_set_compare((counter + chain'[1].delta) % Width, comp_flag)
     \/ /\ UNCHANGED <<compare, armed>>
        /\ chain # <<>> /\ Expiry(chain', 1) = Left(chain, 1, Elapsed)

\* The critical section of create_timer().
LEMMA EnlistIs ==
  ASSUME SleepTypes, NEW t \in Timer, NEW timeout \in Nat, Enlist(t, timeout),
         t \notin Timers(chain)
  PROVE  \E ticks \in Timeout(t, timeout) : Enlisted(t, ticks)
<1>1. PICK ticks \in Timeout(t, timeout) :
        /\ chain' = Inserted(Updated(chain), t, ticks)
        /\ last_delta_update_count' = counter
        /\ IF chain'[1].timer = t
           THEN set_comparator_for_next_timer(chain', counter, comp_flag)
           ELSE UNCHANGED <<compare, armed>>
  BY ListedTimers DEF Enlist, SleepTypes
<1>2. ticks \in Nat
  BY TicksTypes
<1>3. PICK list : list = Updated(chain)
  OBVIOUS
<1>4. /\ list \in Items /\ (list = <<>> <=> chain = <<>>)
      /\ \A u, m : Plans(list, u, m) <=> \E k \in Nat : Plans(chain, u, k) /\ m = Clipped(k, Elapsed)
      /\ Timers(list) = Timers(chain)
      /\ Distinct(chain) => Distinct(list)
      /\ chain # <<>> => Expiry(list, 1) = Left(chain, 1, Elapsed) /\ list[1].timer = chain[1].timer
  BY <1>3, UpdatedPlans DEF SleepTypes, Elapsed
<1>5. PICK new : new = Inserted(list, t, ticks)
  OBVIOUS
<1>6. /\ new \in Items /\ new # <<>>
      /\ \A u, m : Plans(new, u, m) <=> Plans(list, u, m) \/ (u = t /\ m = ticks)
      /\ Timers(new) = Timers(list) \cup {t}
      /\ Distinct(list) /\ t \notin Timers(list) => Distinct(new)
      /\ new[1].timer = t \/ (list # <<>> /\ Expiry(new, 1) = Expiry(list, 1))
  BY <1>2, <1>4, <1>5, InsertedPlans
<1>7. chain' = new
  BY <1>1, <1>3, <1>5
<1>8. \/ armed' = TRUE
         /\ sleeptimer_hal_set_compare((counter + chain'[1].delta) % Width, comp_flag)
      \/ /\ UNCHANGED <<compare, armed>>
         /\ chain # <<>> /\ Expiry(chain', 1) = Left(chain, 1, Elapsed)
  <2>1. CASE chain'[1].timer = t
    BY <1>1, <2>1 DEF set_comparator_for_next_timer
  <2>2. CASE chain'[1].timer # t
    BY <1>1, <1>4, <1>6, <1>7, <2>2
  <2>3. QED
    BY <2>1, <2>2
<1>9. Enlisted(t, ticks)
  BY <1>1, <1>2, <1>4, <1>6, <1>7, <1>8 DEF Enlisted
<1>10. QED
  BY <1>9

\* The list after a timer was stopped.
Stopped(t) ==
  /\ chain' \in Items
  /\ last_delta_update_count' = counter
  /\ \A u, m : Plans(chain', u, m) <=>
       u # t /\ \E k \in Nat : Plans(chain, u, k) /\ m = Clipped(k, Elapsed)
  /\ Timers(chain') = Timers(chain) \ {t}
  /\ Distinct(chain')
  /\ \/ chain' = <<>> /\ armed' = FALSE /\ UNCHANGED compare
     \/ armed' = TRUE
        /\ sleeptimer_hal_set_compare((counter + chain'[1].delta) % Width, comp_flag)
     \/ /\ UNCHANGED <<compare, armed>>
        /\ chain # <<>> /\ Expiry(chain', 1) = Left(chain, 1, Elapsed)

\* The critical section of sl_sleeptimer_stop_timer().
LEMMA StopIs ==
  ASSUME SleepTypes, Distinct(chain), NEW t \in Timer, StopTimer(t)
  PROVE  t \in Timers(chain) /\ Stopped(t)
<1>1. /\ t \in Listed
      /\ chain' = Removed(Updated(chain), t)
      /\ last_delta_update_count' = counter
      /\ IF chain' = <<>> THEN armed' = FALSE /\ UNCHANGED compare
         ELSE IF Updated(chain)[1].timer = t
              THEN set_comparator_for_next_timer(chain', counter, comp_flag)
              ELSE UNCHANGED <<compare, armed>>
  BY DEF StopTimer
<1>2. t \in Timers(chain)
  BY <1>1, ListedTimers DEF SleepTypes
<1>3. PICK list : list = Updated(chain)
  OBVIOUS
<1>4. /\ list \in Items /\ (list = <<>> <=> chain = <<>>)
      /\ \A u, m : Plans(list, u, m) <=> \E k \in Nat : Plans(chain, u, k) /\ m = Clipped(k, Elapsed)
      /\ Timers(list) = Timers(chain)
      /\ Distinct(list)
      /\ chain # <<>> => Expiry(list, 1) = Left(chain, 1, Elapsed)
  BY <1>3, UpdatedPlans DEF SleepTypes, Elapsed
<1>5. PICK new : new = Removed(list, t)
  OBVIOUS
<1>6. /\ new \in Items
      /\ \A u, m : Plans(new, u, m) <=> Plans(list, u, m) /\ u # t
      /\ Timers(new) = Timers(list) \ {t}
      /\ Distinct(new)
      /\ list[1].timer = t \/ (new # <<>> /\ Expiry(new, 1) = Expiry(list, 1))
  BY <1>2, <1>4, <1>5, RemovedPlans
<1>7. chain' = new
  BY <1>1, <1>3, <1>5
<1>8. \/ chain' = <<>> /\ armed' = FALSE /\ UNCHANGED compare
      \/ armed' = TRUE
         /\ sleeptimer_hal_set_compare((counter + chain'[1].delta) % Width, comp_flag)
      \/ /\ UNCHANGED <<compare, armed>>
         /\ chain # <<>> /\ Expiry(chain', 1) = Left(chain, 1, Elapsed)
  <2>1. CASE chain' = <<>>
    BY <1>1, <2>1
  <2>2. CASE chain' # <<>> /\ list[1].timer = t
    BY <1>1, <1>3, <2>2 DEF set_comparator_for_next_timer
  <2>3. CASE chain' # <<>> /\ list[1].timer # t
    <3>1. chain # <<>>
      BY <1>2, PlansTypes DEF Timers, SleepTypes
    <3>2. UNCHANGED <<compare, armed>>
      BY <1>1, <1>3, <2>3
    <3>3. QED
      BY <1>4, <1>6, <1>7, <2>3, <3>1, <3>2
  <2>4. QED
    BY <2>1, <2>2, <2>3
<1>9. QED
  BY <1>1, <1>2, <1>4, <1>6, <1>7, <1>8 DEF Stopped

\* The list after an update.
Refreshed ==
  /\ chain' \in Items
  /\ last_delta_update_count' = counter
  /\ \A u, m : Plans(chain', u, m) <=>
       \E k \in Nat : Plans(chain, u, k) /\ m = Clipped(k, Elapsed)
  /\ Timers(chain') = Timers(chain)
  /\ Distinct(chain) => Distinct(chain')
  /\ chain' = <<>> <=> chain = <<>>
  /\ chain # <<>> => Expiry(chain', 1) = Left(chain, 1, Elapsed)

\* A step that only updates the list.
LEMMA UpdateIs ==
  ASSUME SleepTypes, chain' = Updated(chain), last_delta_update_count' = counter
  PROVE  Refreshed
<1>1. PICK list : list = Updated(chain)
  OBVIOUS
<1>2. /\ list \in Items /\ (list = <<>> <=> chain = <<>>)
      /\ \A u, m : Plans(list, u, m) <=> \E k \in Nat : Plans(chain, u, k) /\ m = Clipped(k, Elapsed)
      /\ Timers(list) = Timers(chain)
      /\ Distinct(chain) => Distinct(list)
      /\ chain # <<>> => Expiry(list, 1) = Left(chain, 1, Elapsed)
  BY <1>1, UpdatedPlans DEF SleepTypes, Elapsed
<1>3. chain' = list
  BY <1>1
<1>4. QED
  BY <1>2, <1>3 DEF Refreshed

\* The expired timers are planned for now; if there are none, the head waits.
LEMMA ExpiredIs ==
  ASSUME chain \in Items
  PROVE  /\ \A i \in Expired : i \in 1..Len(chain) /\ Expiry(chain, i) = 0
         /\ Expired = {} /\ chain # <<>> => chain[1].delta \in Nat \ {0}
<1>1. /\ Len(chain) \in Nat /\ DOMAIN chain = 1..Len(chain)
      /\ \A i \in 1..Len(chain) : chain[i].delta \in Nat
  BY ExpiryTypes
<1>2. ASSUME NEW i \in Expired PROVE i \in 1..Len(chain) /\ Expiry(chain, i) = 0
  <2>1. i \in 1..Len(chain) /\ i \in Nat /\ \A k \in 1..i : chain[k].delta = 0
    BY <1>1 DEF Expired
  <2> DEFINE Good == {k \in 0..i : Expiry(chain, k) = 0}
  <2>2. 0 \in Good
    BY <1>1, <2>1, ExpirySums
  <2>3. ASSUME NEW k \in 1..i, k - 1 \in Good PROVE k \in Good
    <3>1. k \in 1..Len(chain) /\ k \in 0..i
      BY <1>1, <2>1
    <3>2. Expiry(chain, k) = Expiry(chain, k - 1) + chain[k].delta
      BY <1>1, <3>1, ExpirySums
    <3>3. QED
      BY <2>1, <2>3, <3>1, <3>2
  <2> HIDE DEF Good
  <2>4. \A k \in 0..i : k \in Good
    BY <2>1, <2>2, <2>3, UpTo
  <2>5. i \in Good
    BY <2>1, <2>4
  <2>6. QED
    BY <2>1, <2>5 DEF Good
<1>3. ASSUME Expired = {}, chain # <<>> PROVE chain[1].delta \in Nat \ {0}
  <2>1. 1 \in 1..Len(chain)
    BY <1>3, PlansTypes
  <2>2. ASSUME chain[1].delta = 0 PROVE FALSE
    <3>1. \A k \in 1..1 : chain[k].delta = 0
      BY <2>2
    <3>2. 1 \in Expired
      BY <1>1, <2>1, <3>1 DEF Expired
    <3>3. QED
      BY <1>3, <3>2
  <2>3. QED
    BY <1>1, <2>1, <2>2
<1>4. QED
  BY <1>2, <1>3

\* The loop picks a timer that has expired.
LEMMA CurrentIs ==
  ASSUME chain \in Items, Expired # {}
  PROVE  Current \in Timers(chain) /\ Plans(chain, Current, 0)
<1> DEFINE First(i) == \A k \in Expired : \/ Priority[chain[i].timer] < Priority[chain[k].timer]
                                          \/ /\ Priority[chain[i].timer] = Priority[chain[k].timer]
                                             /\ i <= k
<1>1. \A i \in Expired : i \in 1..Len(chain) /\ Expiry(chain, i) = 0 /\ i \in Nat
  BY ExpiredIs
<1>2. \A i \in Expired : Priority[chain[i].timer] \in Nat
  <2>1. \A i \in 1..Len(chain) : chain[i].timer \in Timer
    BY ExpiryTypes
  <2>2. QED
    BY <1>1, <2>1, PriorityAssumption DEF PriorityAssumption
<1>3. PICK p \in {Priority[chain[i].timer] : i \in Expired} :
        \A q \in {Priority[chain[i].timer] : i \in Expired} : p <= q
  <2> DEFINE Q == {Priority[chain[i].timer] : i \in Expired}
  <2>1. Q \subseteq Nat /\ Q # {}
    BY <1>2
  <2> HIDE DEF Q
  <2>2. \E x \in Q : \A y \in Q : x <= y
    BY <2>1, LeastNumber
  <2>3. QED
    BY <2>2 DEF Q
<1>4. PICK i \in {k \in Expired : Priority[chain[k].timer] = p} :
        \A j \in {k \in Expired : Priority[chain[k].timer] = p} : i <= j
  <2> DEFINE Q == {k \in Expired : Priority[chain[k].timer] = p}
  <2>1. Q \subseteq Nat /\ Q # {}
    BY <1>1, <1>3
  <2> HIDE DEF Q
  <2>2. \E x \in Q : \A y \in Q : x <= y
    BY <2>1, LeastNumber
  <2>3. QED
    BY <2>2 DEF Q
<1>5. First(i)
  <2>1. SUFFICES ASSUME NEW k \in Expired
                 PROVE  \/ Priority[chain[i].timer] < Priority[chain[k].timer]
                        \/ /\ Priority[chain[i].timer] = Priority[chain[k].timer]
                           /\ i <= k
    OBVIOUS
  <2>2. p <= Priority[chain[k].timer] /\ Priority[chain[i].timer] = p
    BY <1>3, <1>4
  <2>3. p \in Nat /\ Priority[chain[k].timer] \in Nat
    BY <1>2, <1>3
  <2>4. Priority[chain[k].timer] = p => i <= k
    BY <1>4
  <2>5. QED
    BY <2>2, <2>3, <2>4
<1>6. PICK j : j = CHOOSE x \in Expired : First(x)
  OBVIOUS
<1>7. j \in Expired
  <2> HIDE DEF First
  <2>1. QED
    BY <1>4, <1>5, <1>6
<1>8. Current = chain[j].timer
  BY <1>6 DEF Current
<1>9. QED
  BY <1>1, <1>7, <1>8 DEF Timers, Plans

\* The list after a one-shot timer has called back.
LEMMA OnceIs ==
  ASSUME SleepTypes, Distinct(chain), NEW t \in Timers(chain), ExpireOnce(t)
  PROVE  /\ chain' \in Items
         /\ \A u, m : Plans(chain', u, m) <=> Plans(chain, u, m) /\ u # t
         /\ Timers(chain') = Timers(chain) \ {t}
         /\ Distinct(chain')
<1>1. PICK list : list = chain /\ list \in Items /\ Distinct(list) /\ t \in Timers(list)
  BY DEF SleepTypes
<1>2. PICK new : new = Removed(list, t)
  OBVIOUS
<1>3. chain' = new
  BY <1>1, <1>2 DEF ExpireOnce
<1>4. /\ new \in Items
      /\ \A u, m : Plans(new, u, m) <=> Plans(list, u, m) /\ u # t
      /\ Timers(new) = Timers(list) \ {t}
      /\ Distinct(new)
  BY <1>1, <1>2, RemovedPlans
<1>5. QED
  BY <1>1, <1>3, <1>4

\* How late the callback of a periodic timer is.
LEMMA CorrectionTypes ==
  ASSUME SleepTypes, NEW t \in Timer
  PROVE  /\ timeout_periodic[t] \in Nat /\ timeout_periodic[t] < Width
         /\ timeout_expected_tc[t] \in 0..(Width - 1)
         /\ Correction(t) \in Int
<1>1. timeout_periodic[t] \in Timeouts \cup {0} /\ timeout_expected_tc[t] \in 0..(Width - 1)
  BY DEF SleepTypes
<1>2. Diff(counter, timeout_expected_tc[t]) \in 0..(Width - 1)
  BY <1>1, DiffIs DEF SleepTypes
<1>3. QED
  BY <1>1, <1>2, TimeTypes, TimeoutTypes DEF Correction, Signed

\* The list after a periodic timer has called back.
LEMMA PeriodicIs ==
  ASSUME SleepTypes, Distinct(chain), NEW t \in Timers(chain), ExpirePeriodic(t)
  PROVE  /\ chain' \in Items
         /\ Timers(chain') = Timers(chain)
         /\ Distinct(chain')
         /\ \/ Correction(t) > timeout_periodic[t] /\ chain' = chain
            \/ /\ ~(Correction(t) > timeout_periodic[t])
               /\ \E ticks \in Timeout(t, timeout_periodic[t] - Correction(t)) :
                    \A u, m : Plans(chain', u, m) <=> \/ Plans(chain, u, m) /\ u # t
                                                      \/ u = t /\ m = ticks
<1>1. PICK list : list = chain /\ list \in Items /\ Distinct(list) /\ t \in Timers(list)
  BY DEF SleepTypes
<1>2. t \in Timer
  BY <1>1, PlansTypes
<1>3. timeout_periodic[t] \in Nat /\ Correction(t) \in Int
  BY <1>2, CorrectionTypes
<1>4. CASE Correction(t) > timeout_periodic[t]
  <2>1. chain' = chain
    BY <1>4 DEF ExpirePeriodic
  <2>2. QED
    BY <1>1, <1>4, <2>1
<1>5. CASE ~(Correction(t) > timeout_periodic[t])
  <2>1. PICK n : n = timeout_periodic[t] - Correction(t)
    OBVIOUS
  <2>2. n \in Nat
    BY <1>3, <1>5, <2>1
  <2>3. PICK ticks \in Timeout(t, n) : chain' = Inserted(Removed(chain, t), t, ticks)
    BY <1>5, <2>1 DEF ExpirePeriodic
  <2>4. ticks \in Nat
    BY <2>2, <2>3, TicksTypes
  <2>5. PICK less : less = Removed(list, t)
    OBVIOUS
  <2>6. /\ less \in Items
        /\ \A u, m : Plans(less, u, m) <=> Plans(list, u, m) /\ u # t
        /\ Timers(less) = Timers(list) \ {t}
        /\ Distinct(less)
    BY <1>1, <2>5, RemovedPlans
  <2>7. PICK new : new = Inserted(less, t, ticks)
    OBVIOUS
  <2>8. /\ new \in Items
        /\ \A u, m : Plans(new, u, m) <=> Plans(less, u, m) \/ (u = t /\ m = ticks)
        /\ Timers(new) = Timers(less) \cup {t}
        /\ Distinct(less) /\ t \notin Timers(less) => Distinct(new)
    BY <1>2, <2>4, <2>6, <2>7, InsertedPlans
  <2>9. chain' = new
    BY <1>1, <2>3, <2>5, <2>7
  <2>10. Timers(chain') = Timers(chain) /\ Distinct(chain')
    BY <1>1, <2>6, <2>8, <2>9
  <2>11. \A u, m : Plans(chain', u, m) <=> (Plans(chain, u, m) /\ u # t) \/ (u = t /\ m = ticks)
    BY <1>1, <2>6, <2>8, <2>9
  <2>12. QED
    BY <1>5, <2>1, <2>3, <2>8, <2>9, <2>10, <2>11
<1>6. QED
  BY <1>4, <1>5

\* The match that is set comes by the time asked for, or within the margin.
LEMMA CompareSet ==
  ASSUME SleepTypes, NEW n \in Nat, NEW value, value = (counter + n) % Width,
         NEW matched, sleeptimer_hal_set_compare(value, matched)
  PROVE  /\ compare' \in 0..(Width - 1)
         /\ \/ Diff(compare', counter) <= SLEEPTIMER_COMPARE_MIN_DIFF
            \/ Diff(compare', counter) <= n
<1>1. counter \in 0..(Width - 1) /\ compare \in 0..(Width - 1)
  BY DEF SleepTypes
<1>2. value \in 0..(Width - 1) /\ Diff(value, counter) <= n
  BY <1>1, Ahead
<1>3. CASE compare' = compare /\ ~(Diff(compare, counter) > SLEEPTIMER_COMPARE_MIN_DIFF)
  <2>1. Diff(compare, counter) \in 0..(Width - 1)
    BY <1>1, DiffIs
  <2>2. QED
    BY <1>1, <1>3, <2>1, TimeTypes DEF SLEEPTIMER_COMPARE_MIN_DIFF
<1>4. ASSUME NEW wanted \in 0..(Width - 1),
             Diff(wanted, counter) <= SLEEPTIMER_COMPARE_MIN_DIFF \/ Diff(wanted, counter) <= n,
             Diff(wanted, counter) >= 1 \/ Width <= 4,
             compare' = ((wanted % (Width - 1)) - 1) % Width
      PROVE  /\ compare' \in 0..(Width - 1)
             /\ \/ Diff(compare', counter) <= SLEEPTIMER_COMPARE_MIN_DIFF
                \/ Diff(compare', counter) <= n
  <2>1. Diff(wanted, counter) = IF wanted >= counter THEN wanted - counter
                                ELSE wanted - counter + Width
    BY <1>1, DiffIs
  <2>2. PICK x : x = wanted % (Width - 1)
    OBVIOUS
  <2>3. x = IF wanted = Width - 1 THEN 0 ELSE wanted
    <3>1. CASE wanted = Width - 1
      <4>1. ((Width - 1) * 1 + 0) % (Width - 1) = 0
        BY TimeTypes, RemainderIs
      <4>2. (Width - 1) * 1 + 0 = Width - 1
        BY TimeTypes
      <4>3. QED
        BY <2>2, <3>1, <4>1, <4>2
    <3>2. CASE wanted # Width - 1
      BY <2>2, <3>2, TimeTypes
    <3>3. QED
      BY <3>1, <3>2
  <2>4. compare' = IF x = 0 THEN Width - 1 ELSE x - 1
    <3>1. x \in 0..(Width - 1) /\ compare' = (x - 1) % Width
      BY <1>4, <2>2, <2>3, TimeTypes
    <3>2. QED
      BY <3>1, TimeTypes
  <2>5. compare' \in 0..(Width - 1)
    BY <2>3, <2>4, TimeTypes
  <2>6. /\ Diff(compare', counter) = IF compare' >= counter THEN compare' - counter
                                     ELSE compare' - counter + Width
        /\ Diff(compare', counter) \in 0..(Width - 1)
    BY <1>1, <2>5, DiffIs
  <2>7. CASE Width <= 4
    BY <2>5, <2>6, <2>7, TimeTypes DEF SLEEPTIMER_COMPARE_MIN_DIFF
  <2>8. CASE Diff(wanted, counter) >= 1
    <3>1. Diff(compare', counter) <= Diff(wanted, counter)
      BY <1>1, <2>1, <2>3, <2>4, <2>6, <2>8, TimeTypes
    <3>2. Diff(wanted, counter) \in Nat /\ Diff(compare', counter) \in Nat
      BY <1>1, <2>6, DiffIs, TimeTypes
    <3>3. QED
      BY <1>4, <2>5, <3>1, <3>2 DEF SLEEPTIMER_COMPARE_MIN_DIFF
  <2>9. QED
    BY <1>4, <2>7, <2>8
<1>5. CASE compare' = ((value % (Width - 1)) - 1) % Width
           /\ ~(Diff(value, counter) < SLEEPTIMER_COMPARE_MIN_DIFF)
  <2>1. Diff(value, counter) >= 1
    <3>1. Diff(value, counter) \in 0..(Width - 1)
      BY <1>1, <1>2, DiffIs
    <3>2. QED
      BY <1>5, <3>1, TimeTypes DEF SLEEPTIMER_COMPARE_MIN_DIFF
  <2>2. QED
    BY <1>2, <1>4, <1>5, <2>1
<1>6. ASSUME NEW wanted, wanted = (counter + SLEEPTIMER_COMPARE_MIN_DIFF) % Width,
             compare' = ((wanted % (Width - 1)) - 1) % Width
      PROVE  /\ compare' \in 0..(Width - 1)
             /\ \/ Diff(compare', counter) <= SLEEPTIMER_COMPARE_MIN_DIFF
                \/ Diff(compare', counter) <= n
  <2>1. SLEEPTIMER_COMPARE_MIN_DIFF \in Nat
    BY DEF SLEEPTIMER_COMPARE_MIN_DIFF
  <2>2. wanted \in 0..(Width - 1) /\ Diff(wanted, counter) <= SLEEPTIMER_COMPARE_MIN_DIFF
    BY <1>1, <1>6, <2>1, Ahead
  <2>3. CASE Width <= 4
    BY <1>4, <1>6, <2>2, <2>3
  <2>4. CASE Width > 4
    <3>1. Diff(wanted, counter) = IF wanted >= counter THEN wanted - counter
                                  ELSE wanted - counter + Width
      BY <1>1, <2>2, DiffIs
    <3>2. wanted # counter
      <4>1. CASE counter + 3 < Width
        <5>1. wanted = counter + 3
          BY <1>1, <1>6, <4>1, TimeTypes DEF SLEEPTIMER_COMPARE_MIN_DIFF
        <5>2. QED
          BY <1>1, <5>1
      <4>2. CASE ~(counter + 3 < Width)
        <5>1. wanted = counter + 3 - Width
          <6>1. counter + 3 - Width \in 0..(Width - 1)
            BY <1>1, <2>4, <4>2, TimeTypes
          <6>2. (Width * 1 + (counter + 3 - Width)) % Width = counter + 3 - Width
            BY <6>1, TimeTypes, RemainderIs
          <6>3. Width * 1 + (counter + 3 - Width) = counter + 3
            BY <1>1, TimeTypes
          <6>4. QED
            BY <1>6, <6>2, <6>3 DEF SLEEPTIMER_COMPARE_MIN_DIFF
        <5>2. QED
          BY <1>1, <2>4, <5>1, TimeTypes
      <4>3. QED
        BY <4>1, <4>2
    <3>3. Diff(wanted, counter) >= 1
      BY <1>1, <2>2, <3>1, <3>2, TimeTypes
    <3>4. QED
      BY <1>4, <1>6, <2>2, <3>3
  <2>5. QED
    BY <2>3, <2>4, TimeTypes
<1>7. QED
  BY <1>3, <1>5, <1>6 DEF sleeptimer_hal_set_compare

-----------------------------------------------------------------------------
(* The invariant of the timers.                                            *)

\* sl_sleeptimer_init() establishes the invariant of the timers.
LEMMA InitSleep == Init => SleepInv
<1> SUFFICES ASSUME Init PROVE SleepInv
  OBVIOUS
<1>1. chain = <<>> /\ chain \in Items /\ Len(chain) = 0
  BY DEF Init, Items
<1>a. /\ timeout_periodic \in [Timer -> Timeouts \cup {0}]
      /\ timeout_expected_tc \in [Timer -> 0..(Width - 1)]
      /\ due \in [Timer -> Int]
  BY TimeTypes DEF Init
<1>b. creating \in [timer : Timer, timeout : Timeouts] \cup {Idle}
  BY DEF Init
<1>c. 0 \in 0..(Width - 1) /\ 0 \in 0..Latency
  BY TimeTypes, TimeAssumption DEF TimeAssumption
<1>d. /\ counter = 0 /\ compare = 0 /\ last_delta_update_count = 0
      /\ armed = FALSE /\ comp_flag = FALSE /\ of_flag = FALSE
      /\ overflow_counter = 0 /\ wraps = 0 /\ waited = 0 /\ handler = "none"
  BY DEF Init
<1>2. SleepTypes
  <2>1. /\ overflow_counter \in 0..1 /\ wraps \in 0..1 /\ waited \in 0..Latency
        /\ counter \in 0..(Width - 1) /\ compare \in 0..(Width - 1)
        /\ last_delta_update_count \in 0..(Width - 1)
    BY <1>c, <1>d
  <2>2. /\ armed \in BOOLEAN /\ comp_flag \in BOOLEAN /\ of_flag \in BOOLEAN
        /\ handler \in {"none", "loop", "callback"}
    BY <1>d, Zenon
  <2>3. QED
    BY <1>1, <1>a, <1>b, <2>1, <2>2, Zenon DEF SleepTypes
<1>3. Distinct(chain)
  BY <1>1 DEF Distinct
<1>4. QED
  BY <1>2, <1>3 DEF Init, SleepInv, OncePlanned, Fresh

\* The comparator's types after it was set.
LEMMA ComparatorTypes ==
  ASSUME SleepTypes, chain' \in Items, chain' # <<>>, NEW matched,
         sleeptimer_hal_set_compare((counter + chain'[1].delta) % Width, matched)
  PROVE  /\ compare' \in 0..(Width - 1)
         /\ \/ Diff(compare', counter) <= SLEEPTIMER_COMPARE_MIN_DIFF
            \/ Diff(compare', counter) <= Expiry(chain', 1)
<1>1. PICK list : list = chain' /\ list \in Items /\ list # <<>>
  OBVIOUS
<1>2. 1 \in 1..Len(list) /\ Len(list) \in Nat
  BY <1>1, PlansTypes
<1>3. list[1].delta \in Nat
  BY <1>1, <1>2, ExpiryTypes
<1>4. Expiry(list, 1) = list[1].delta
  BY <1>2, <1>3, ExpirySums
<1>5. PICK value : value = (counter + list[1].delta) % Width
  OBVIOUS
<1>6. sleeptimer_hal_set_compare(value, matched)
  BY <1>1, <1>5
<1>7. /\ compare' \in 0..(Width - 1)
      /\ \/ Diff(compare', counter) <= SLEEPTIMER_COMPARE_MIN_DIFF
         \/ Diff(compare', counter) <= list[1].delta
  BY <1>3, <1>5, <1>6, CompareSet
<1>8. QED
  BY <1>1, <1>4, <1>7

\* The comparator after a timer was enlisted.
LEMMA EnlistedTypes ==
  ASSUME SleepTypes, NEW t, NEW ticks, Enlisted(t, ticks)
  PROVE  compare' \in 0..(Width - 1) /\ armed' \in BOOLEAN
<1>1. CASE /\ armed' = TRUE
           /\ sleeptimer_hal_set_compare((counter + chain'[1].delta) % Width, comp_flag)
  BY <1>1, ComparatorTypes DEF Enlisted
<1>2. CASE UNCHANGED <<compare, armed>>
  BY <1>2 DEF SleepTypes
<1>3. QED
  BY <1>1, <1>2 DEF Enlisted

\* The fields create_timer() sets.
LEMMA PrepareTypes ==
  ASSUME SleepTypes, NEW t \in Timer, NEW timeout \in Timeouts, NEW every \in {0, timeout},
         Prepare(t, timeout, every)
  PROVE  /\ timeout_periodic' \in [Timer -> Timeouts \cup {0}]
         /\ timeout_expected_tc' \in [Timer -> 0..(Width - 1)]
         /\ due' \in [Timer -> Int]
<1>1. timeout \in Nat /\ every \in Nat /\ every \in Timeouts \cup {0}
  BY TimeoutTypes
<1>2. (counter + every) % Width \in 0..(Width - 1)
  BY <1>1, Ahead DEF SleepTypes
<1>3. PICK c : c = (IF every = 0 THEN 0 ELSE (counter + every) % Width) /\ c \in 0..(Width - 1)
  BY <1>2, TimeTypes
<1>4. timeout_expected_tc' = [timeout_expected_tc EXCEPT ![t] = c]
  BY <1>3 DEF Prepare
<1>5. QED
  BY <1>1, <1>3, <1>4 DEF Prepare, SleepTypes

\* The fields of a timer that has left.
LEMMA ForgetTypes ==
  ASSUME SleepTypes, NEW t \in Timer, Forget(t)
  PROVE  /\ timeout_periodic' \in [Timer -> Timeouts \cup {0}]
         /\ timeout_expected_tc' \in [Timer -> 0..(Width - 1)]
         /\ due' \in [Timer -> Int]
<1>1. 0 \in 0..(Width - 1)
  BY TimeTypes
<1>2. /\ timeout_periodic \in [Timer -> Timeouts \cup {0}]
      /\ timeout_expected_tc \in [Timer -> 0..(Width - 1)]
      /\ due \in [Timer -> Int]
  BY DEF SleepTypes
<1>3. QED
  BY <1>1, <1>2 DEF Forget

\* The timer in create_timer() is a handle with its timeout.
LEMMA CreatingIs ==
  ASSUME SleepTypes, creating # Idle
  PROVE  creating.timer \in Timer /\ creating.timeout \in Timeouts /\ creating.timeout \in Nat
<1>1. creating \in [timer : Timer, timeout : Timeouts] \cup {Idle}
  BY DEF SleepTypes
<1>2. creating \in [timer : Timer, timeout : Timeouts]
  BY <1>1
<1>3. creating.timer \in Timer /\ creating.timeout \in Timeouts
  BY <1>2
<1>4. QED
  BY <1>3, TimeoutTypes

\* The steps keep the invariant of the timers, one by one.
LEMMA StartSleep ==
  ASSUME SleepInv, NEW t \in Timer, NEW timeout \in Timeouts, NEW every \in {0, timeout},
         StartTimer(t, timeout, every), shared' # "spoiled"
  PROVE  SleepInv'
<1>1. /\ handler = "none" /\ t \notin Listed
      /\ Prepare(t, timeout, every)
      /\ creating' = [timer |-> t, timeout |-> timeout]
      /\ UNCHANGED <<counter, compare, armed, comp_flag, of_flag, chain,
                     last_delta_update_count, overflow_counter, handler, waited, wraps>>
  BY DEF StartTimer, rtcc
<1>2. creating' \in [timer : Timer, timeout : Timeouts]
  BY <1>1
<1>3. SleepTypes'
  BY <1>1, <1>2, PrepareTypes DEF SleepInv, SleepTypes
<1>4. t \notin Timers(chain)
  BY <1>1, ListedTimers DEF SleepInv, SleepTypes
<1>5. OncePlanned'
  BY <1>1, <1>4 DEF SleepInv, OncePlanned
<1>6. Fresh'
  BY <1>1 DEF Fresh
<1>7. QED
  BY <1>3, <1>5, <1>6 DEF SleepInv

\* The timer in create_timer() goes into the list.
LEMMA EnlistSleep ==
  ASSUME SleepInv, EnlistTimer, shared' # "spoiled"
  PROVE  SleepInv'
<1>1. /\ handler = "none" /\ creating # Idle /\ creating' = Idle /\ shared # "started"
      /\ Enlist(creating.timer, creating.timeout)
      /\ UNCHANGED <<counter, comp_flag, of_flag, overflow_counter, timeout_periodic,
                     timeout_expected_tc, handler, due, waited, wraps>>
  BY DEF EnlistTimer
<1>2. PICK t \in Timer : t = creating.timer /\ creating.timeout \in Nat
  BY <1>1, CreatingIs DEF SleepInv
<1>3. PICK ticks : Enlisted(t, ticks)
  BY <1>1, <1>2, EnlistIs DEF SleepInv, OncePlanned
<1>4. SleepTypes'
  BY <1>1, <1>3, EnlistedTypes DEF SleepInv, SleepTypes, Enlisted
<1>5. OncePlanned'
  BY <1>1, <1>2, <1>3 DEF SleepInv, OncePlanned, Enlisted
<1>6. Fresh'
  BY <1>1 DEF Fresh
<1>7. QED
  BY <1>4, <1>5, <1>6 DEF SleepInv

\* A callback starts a timer that does not run.
LEMMA CallbackStartSleep ==
  ASSUME SleepInv, NEW t \in Timer, NEW timeout \in Timeouts, NEW every \in {0, timeout},
         CallbackStarts(t, timeout, every)
  PROVE  SleepInv'
<1>1. /\ handler = "callback" /\ t \notin Listed
      /\ Prepare(t, timeout, every)
      /\ Enlist(t, timeout)
      /\ shared' = IF t = creating.timer THEN "started" ELSE shared
      /\ UNCHANGED <<counter, comp_flag, of_flag, overflow_counter, creating, handler,
                     waited, wraps>>
  BY DEF CallbackStarts
<1>2. timeout \in Nat /\ t \notin Timers(chain)
  BY <1>1, TimeoutTypes, ListedTimers DEF SleepInv, SleepTypes
<1>3. PICK ticks : Enlisted(t, ticks)
  BY <1>1, <1>2, EnlistIs DEF SleepInv
<1>a. chain' \in Items /\ last_delta_update_count' = counter
  BY <1>3 DEF Enlisted
<1>b. compare' \in 0..(Width - 1) /\ armed' \in BOOLEAN
  BY <1>3, EnlistedTypes DEF SleepInv
<1>c. /\ timeout_periodic' \in [Timer -> Timeouts \cup {0}]
      /\ timeout_expected_tc' \in [Timer -> 0..(Width - 1)]
      /\ due' \in [Timer -> Int]
  BY <1>1, PrepareTypes DEF SleepInv
<1>4. SleepTypes'
  BY <1>1, <1>a, <1>b, <1>c DEF SleepInv, SleepTypes
<1>5. shared' # "started" => t # creating.timer /\ shared # "started"
  BY <1>1
<1>6. OncePlanned'
  BY <1>1, <1>2, <1>3, <1>5 DEF SleepInv, OncePlanned, Enlisted
<1>7. Fresh'
  BY <1>1 DEF Fresh
<1>8. QED
  BY <1>4, <1>6, <1>7 DEF SleepInv

\* A timer is stopped.
LEMMA StopSleep ==
  ASSUME SleepInv, NEW t \in Timer, StopTimer(t)
  PROVE  SleepInv'
<1>1. /\ handler \in {"none", "callback"} /\ Forget(t)
      /\ UNCHANGED <<counter, comp_flag, of_flag, overflow_counter, creating, handler,
                     shared, waited, wraps>>
  BY DEF StopTimer, ThreadFree
<1>2. Stopped(t)
  BY StopIs DEF SleepInv, OncePlanned
<1>3. compare' \in 0..(Width - 1) /\ armed' \in BOOLEAN
  <2>1. CASE chain' # <<>> /\ armed' = TRUE
             /\ sleeptimer_hal_set_compare((counter + chain'[1].delta) % Width, comp_flag)
    BY <1>2, <2>1, ComparatorTypes DEF Stopped, SleepInv
  <2>2. CASE UNCHANGED compare /\ (armed' = FALSE \/ UNCHANGED armed)
    BY <2>2 DEF SleepInv, SleepTypes
  <2>3. CASE chain' = <<>>
    <3>1. armed' = FALSE /\ UNCHANGED compare
      BY <2>3 DEF StopTimer
    <3>2. QED
      BY <3>1 DEF SleepInv, SleepTypes
  <2>4. QED
    BY <1>2, <2>1, <2>2, <2>3 DEF Stopped
<1>4. SleepTypes'
  BY <1>1, <1>2, <1>3, ForgetTypes DEF SleepInv, SleepTypes, Stopped
<1>5. OncePlanned'
  BY <1>1, <1>2 DEF SleepInv, OncePlanned, Stopped
<1>6. Fresh'
  BY <1>1 DEF Fresh
<1>7. QED
  BY <1>4, <1>5, <1>6 DEF SleepInv

\* A timer that is not in the list is stopped: the list is updated.
LEMMA StopUnlistedSleep ==
  ASSUME SleepInv, NEW t \in Timer, StopUnlisted(t)
  PROVE  SleepInv' /\ Refreshed
<1>1. /\ chain' = Updated(chain)
      /\ last_delta_update_count' = counter
      /\ handler # "loop"
      /\ UNCHANGED <<counter, compare, armed, comp_flag, of_flag, overflow_counter,
                     timeout_periodic, timeout_expected_tc, creating, handler, shared, due,
                     waited, wraps>>
  BY DEF StopUnlisted, ThreadFree, rtcc
<1>2. Refreshed
  BY <1>1, UpdateIs DEF SleepInv
<1>3. SleepTypes'
  BY <1>1, <1>2 DEF SleepInv, SleepTypes, Refreshed
<1>4. OncePlanned'
  BY <1>1, <1>2 DEF SleepInv, OncePlanned, Refreshed
<1>5. Fresh'
  BY <1>1 DEF Fresh
<1>6. QED
  BY <1>2, <1>3, <1>4, <1>5 DEF SleepInv

\* The steps that leave the timers, the list and the clock alone.
Aside == (\E t \in Timer : CheckTimer(t)) \/ GetTickCount64 \/ TickCountReturns \/ Spoiled

LEMMA AsideIs ==
  ASSUME Aside \/ UNCHANGED vars
  PROVE  UNCHANGED <<counter, compare, armed, comp_flag, of_flag, chain,
                     last_delta_update_count, overflow_counter, timeout_periodic,
                     timeout_expected_tc, creating, handler, shared, due, waited, wraps>>
BY DEF Aside, CheckTimer, GetTickCount64, TickCountReturns, Spoiled, vars, rtcc

LEMMA AsideSleep ==
  ASSUME SleepInv, Aside \/ UNCHANGED vars
  PROVE  SleepInv'
BY AsideIs DEF SleepInv, SleepTypes, OncePlanned, Fresh, Elapsed

\* Up to date, the list is no tick behind.
LEMMA NothingElapsed ==
  ASSUME SleepTypes, last_delta_update_count' = counter, counter' = counter
  PROVE  Elapsed' = 0
<1>1. Diff(counter, counter) = 0
  BY DiffIs, TimeTypes DEF SleepTypes
<1>2. QED
  BY <1>1 DEF Elapsed

\* The interrupt handler begins.
LEMMA IrqSleep ==
  ASSUME SleepInv, RTCC_IRQHandler
  PROVE  SleepInv' /\ Refreshed
<1>1. /\ comp_flag' = FALSE /\ of_flag' = FALSE
      /\ overflow_counter' \in {(overflow_counter + 1) % 2, overflow_counter}
      /\ chain' = Updated(chain)
      /\ last_delta_update_count' = counter
      /\ \/ of_flag /\ chain # <<>>
            /\ set_comparator_for_next_timer(Updated(chain), counter, FALSE)
         \/ ~(of_flag /\ chain # <<>>) /\ UNCHANGED <<compare, armed>>
      /\ handler' \in {"loop", "none"}
      /\ waited' \in {waited, 0}
      /\ UNCHANGED <<counter, timeout_periodic, timeout_expected_tc, creating, shared, due,
                     wraps>>
  BY DEF RTCC_IRQHandler
<1>2. Refreshed
  BY <1>1, UpdateIs DEF SleepInv
<1>3. compare' \in 0..(Width - 1) /\ armed' \in BOOLEAN
  <2>1. CASE of_flag /\ chain # <<>>
             /\ set_comparator_for_next_timer(Updated(chain), counter, FALSE)
    <3>1. chain' # <<>> /\ chain' \in Items
      BY <1>2, <2>1 DEF Refreshed
    <3>2. armed' = TRUE /\ sleeptimer_hal_set_compare((counter + chain'[1].delta) % Width, FALSE)
      BY <1>1, <2>1 DEF set_comparator_for_next_timer
    <3>3. QED
      BY <3>1, <3>2, ComparatorTypes DEF SleepInv
  <2>2. CASE UNCHANGED <<compare, armed>>
    BY <2>2 DEF SleepInv, SleepTypes
  <2>3. QED
    BY <1>1, <2>1, <2>2
<1>4. overflow_counter' \in 0..1 /\ waited' \in 0..Latency
  BY <1>1, TimeTypes DEF SleepInv, SleepTypes
<1>5. SleepTypes'
  BY <1>1, <1>2, <1>3, <1>4 DEF SleepInv, SleepTypes, Refreshed
<1>6. OncePlanned'
  BY <1>1, <1>2 DEF SleepInv, OncePlanned, Refreshed
<1>7. Fresh'
  <2>1. Elapsed' = 0
    BY <1>1, NothingElapsed DEF SleepInv
  <2>2. QED
    BY <2>1 DEF Fresh
<1>8. QED
  BY <1>2, <1>5, <1>6, <1>7 DEF SleepInv

\* A callback has returned.
LEMMA ReturnSleep ==
  ASSUME SleepInv, CallbackReturns
  PROVE  SleepInv' /\ Refreshed
<1>1. /\ chain' = Updated(chain)
      /\ last_delta_update_count' = counter
      /\ handler' = "loop"
      /\ UNCHANGED <<counter, compare, armed, comp_flag, of_flag, overflow_counter,
                     timeout_periodic, timeout_expected_tc, creating, shared, due, waited,
                     wraps>>
  BY DEF CallbackReturns, rtcc
<1>2. Refreshed
  BY <1>1, UpdateIs DEF SleepInv
<1>3. SleepTypes'
  BY <1>1, <1>2 DEF SleepInv, SleepTypes, Refreshed
<1>4. OncePlanned'
  BY <1>1, <1>2 DEF SleepInv, OncePlanned, Refreshed
<1>5. Fresh'
  <2>1. Elapsed' = 0
    BY <1>1, NothingElapsed DEF SleepInv
  <2>2. QED
    BY <2>1 DEF Fresh
<1>6. QED
  BY <1>2, <1>3, <1>4, <1>5 DEF SleepInv

\* A timer calls back: it leaves the list, or goes back into it.
LEMMA ExpireSleep ==
  ASSUME SleepInv, Expire
  PROVE  SleepInv'
<1>1. /\ handler = "loop" /\ Expired # {} /\ handler' = "callback"
      /\ ExpireOnce(Current) \/ ExpirePeriodic(Current)
      /\ UNCHANGED <<counter, compare, armed, comp_flag, of_flag, last_delta_update_count,
                     overflow_counter, creating, shared, waited, wraps>>
  BY DEF Expire, rtcc
<1>2. PICK t \in Timers(chain) : t = Current /\ t \in Timer
  BY <1>1, CurrentIs, PlansTypes DEF SleepInv, SleepTypes
<1>3. Distinct(chain) /\ SleepTypes
  BY DEF SleepInv, OncePlanned
<1>4. CASE ExpireOnce(t)
  <2>1. /\ chain' \in Items
        /\ Timers(chain') = Timers(chain) \ {t}
        /\ Distinct(chain')
    BY <1>3, <1>4, OnceIs
  <2>2. Forget(t)
    BY <1>4 DEF ExpireOnce
  <2>3. SleepTypes'
    BY <1>1, <1>2, <1>3, <2>1, <2>2, ForgetTypes DEF SleepTypes
  <2>4. QED
    BY <1>1, <2>1, <2>3 DEF SleepInv, OncePlanned, Fresh
<1>5. CASE ExpirePeriodic(t)
  <2>1. chain' \in Items /\ Timers(chain') = Timers(chain) /\ Distinct(chain')
    BY <1>3, <1>5, PeriodicIs
  <2>2. /\ timeout_expected_tc' =
             [timeout_expected_tc EXCEPT ![t] = (@ + timeout_periodic[t]) % Width]
        /\ due' = [due EXCEPT ![t] = @ + timeout_periodic[t]]
        /\ UNCHANGED timeout_periodic
    BY <1>5 DEF ExpirePeriodic
  <2>3. timeout_periodic[t] \in Nat /\ timeout_expected_tc[t] \in 0..(Width - 1)
    BY <1>2, <1>3, CorrectionTypes
  <2>4. (timeout_expected_tc[t] + timeout_periodic[t]) % Width \in 0..(Width - 1)
    BY <2>3, Ahead
  <2>5. timeout_expected_tc' \in [Timer -> 0..(Width - 1)] /\ due' \in [Timer -> Int]
    BY <1>2, <1>3, <2>2, <2>3, <2>4 DEF SleepTypes
  <2>6. SleepTypes'
    BY <1>1, <1>3, <2>1, <2>2, <2>5 DEF SleepTypes
  <2>7. QED
    BY <1>1, <2>1, <2>6 DEF SleepInv, OncePlanned, Fresh
<1>6. QED
  BY <1>1, <1>2, <1>4, <1>5

\* What the comparator is set to when the loop has ended.
LEMMA EndCompares ==
  ASSUME SleepInv, HandlerEnds, chain # <<>>
  PROVE  /\ armed' = TRUE
         /\ compare' \in 0..(Width - 1)
         /\ \/ Diff(compare', counter) <= SLEEPTIMER_COMPARE_MIN_DIFF
            \/ Diff(compare', counter) <= Left(chain, 1, Elapsed)
<1>1. /\ handler = "loop" /\ Expired = {} /\ armed' = TRUE
      /\ sleeptimer_hal_set_compare((last_delta_update_count + chain[1].delta) % Width, comp_flag)
  BY DEF HandlerEnds, set_comparator_for_next_timer
<1>2. Elapsed \in 0..1
  BY <1>1 DEF SleepInv, Fresh
<1>3. /\ chain \in Items /\ counter \in 0..(Width - 1) /\ last_delta_update_count \in 0..(Width - 1)
      /\ SleepTypes
  BY DEF SleepInv, SleepTypes
<1>4. chain[1].delta \in Nat \ {0}
  BY <1>1, <1>3, ExpiredIs
<1>5. 1 \in 1..Len(chain) /\ Len(chain) \in Nat
  BY <1>3, PlansTypes
<1>6. Expiry(chain, 1) = chain[1].delta
  BY <1>4, <1>5, ExpirySums
<1>7. PICK d : d = chain[1].delta /\ d \in Nat \ {0}
  BY <1>4
<1>8. Elapsed = IF counter >= last_delta_update_count THEN counter - last_delta_update_count
                ELSE counter - last_delta_update_count + Width
  BY <1>3, DiffIs DEF Elapsed
<1>9. PICK n : n = d - Elapsed /\ n \in Nat
  BY <1>2, <1>7
<1>10. Left(chain, 1, Elapsed) = n
  BY <1>2, <1>6, <1>7, <1>9 DEF Left
<1>11. PICK value : value = (last_delta_update_count + d) % Width
  OBVIOUS
<1>12. value = (counter + n) % Width
  <2>1. CASE counter >= last_delta_update_count
    <3>1. last_delta_update_count + d = counter + n
      BY <1>3, <1>7, <1>8, <1>9, <2>1, TimeTypes
    <3>2. QED
      BY <1>11, <3>1
  <2>2. CASE ~(counter >= last_delta_update_count)
    <3>1. last_delta_update_count + d = counter + n + Width
      BY <1>3, <1>7, <1>8, <1>9, <2>2, TimeTypes
    <3>2. PICK m : m = counter + n /\ m \in Nat
      BY <1>3, <1>9, TimeTypes
    <3>a. Width \in Nat \ {0} /\ m \in Int
      BY <3>2, TimeTypes
    <3>3. /\ m = Width * (m \div Width) + (m % Width)
          /\ m \div Width \in Int /\ m % Width \in 0..(Width - 1)
      BY <3>a, Remainder, Zenon
    <3>4. PICK q, r : q = m \div Width /\ r = m % Width
      OBVIOUS
    <3>5. m = Width * q + r /\ q \in Int /\ r \in 0..(Width - 1)
      BY <3>3, <3>4
    <3>6. m + Width = Width * (q + 1) + r
      BY <3>5, TimeTypes
    <3>7. (Width * (q + 1) + r) % Width = r
      BY <3>5, TimeTypes, RemainderIs
    <3>8. QED
      BY <1>11, <3>1, <3>2, <3>4, <3>6, <3>7
  <2>3. QED
    BY <2>1, <2>2
<1>13. sleeptimer_hal_set_compare(value, comp_flag)
  BY <1>1, <1>7, <1>11
<1>14. /\ compare' \in 0..(Width - 1)
       /\ \/ Diff(compare', counter) <= SLEEPTIMER_COMPARE_MIN_DIFF
          \/ Diff(compare', counter) <= n
  BY <1>3, <1>9, <1>12, <1>13, CompareSet
<1>15. QED
  BY <1>1, <1>10, <1>14

\* The loop has ended.
LEMMA EndSleep ==
  ASSUME SleepInv, HandlerEnds
  PROVE  SleepInv'
<1>1. /\ handler' = "none"
      /\ waited' \in {waited, 0}
      /\ UNCHANGED <<counter, comp_flag, of_flag, chain, last_delta_update_count,
                     overflow_counter, timeout_periodic, timeout_expected_tc, creating,
                     shared, due, wraps>>
  BY DEF HandlerEnds
<1>2. compare' \in 0..(Width - 1) /\ armed' \in BOOLEAN
  <2>1. CASE chain # <<>>
    BY <2>1, EndCompares
  <2>2. CASE chain = <<>>
    BY <2>2 DEF HandlerEnds, SleepInv, SleepTypes
  <2>3. QED
    BY <2>1, <2>2
<1>3. waited' \in 0..Latency
  BY <1>1, TimeTypes DEF SleepInv, SleepTypes
<1>4. SleepTypes'
  BY <1>1, <1>2, <1>3 DEF SleepInv, SleepTypes
<1>5. QED
  BY <1>1, <1>4 DEF SleepInv, OncePlanned, Fresh

\* A tick passes; in the loop, only if the list is up to date.
LEMMA TickSleep ==
  ASSUME SleepInv, Tick
  PROVE  SleepInv'
<1>1. /\ handler = "loop" => counter = last_delta_update_count
      /\ counter' = IF counter = Width - 1 THEN 0 ELSE counter + 1
      /\ comp_flag' = (comp_flag \/ (armed /\ counter = compare))
      /\ of_flag' = (of_flag \/ counter = Width - 1)
      /\ wraps' = IF counter = Width - 1 THEN (wraps + 1) % 2 ELSE wraps
      /\ waited' = 0 \/ (waited' = waited + 1 /\ waited < Latency)
      /\ due' = [t \in Timer |-> IF t \in Running THEN due[t] - 1 ELSE 0]
      /\ UNCHANGED <<compare, armed, chain, last_delta_update_count, overflow_counter,
                     timeout_periodic, timeout_expected_tc, creating, handler, shared>>
  BY DEF Tick
<1>2. SleepTypes
  BY DEF SleepInv
<1>3. /\ counter' \in 0..(Width - 1) /\ wraps' \in 0..1 /\ waited' \in 0..Latency
      /\ comp_flag' \in BOOLEAN /\ of_flag' \in BOOLEAN /\ due' \in [Timer -> Int]
  BY <1>1, <1>2, TimeTypes DEF SleepTypes
<1>4. SleepTypes'
  BY <1>1, <1>2, <1>3 DEF SleepTypes
<1>5. Fresh'
  <2>1. ASSUME handler = "loop" PROVE Diff(counter', last_delta_update_count) \in 0..1
    <3>1. counter = last_delta_update_count
      BY <1>1, <2>1
    <3>2. Diff(counter', last_delta_update_count) =
            IF counter' >= last_delta_update_count THEN counter' - last_delta_update_count
            ELSE counter' - last_delta_update_count + Width
      BY <1>2, <1>3, DiffIs DEF SleepTypes
    <3>3. QED
      BY <1>1, <1>2, <3>1, <3>2, TimeTypes DEF SleepTypes
  <2>2. QED
    BY <1>1, <2>1 DEF Fresh, Elapsed
<1>6. QED
  BY <1>1, <1>4, <1>5 DEF SleepInv, OncePlanned

\* SleepInv is inductive, as long as the list is not spoiled.
LEMMA NextSleep ==
  ASSUME SleepInv, [Next]_vars, shared' # "spoiled"
  PROVE  SleepInv'
<1>1. ASSUME NEW t \in Timer, NEW timeout \in Timeouts, NEW again \in BOOLEAN,
             NEW every, every = IF again THEN timeout ELSE 0,
             StartTimer(t, timeout, every) \/ CallbackStarts(t, timeout, every)
      PROVE  SleepInv'
  BY <1>1, StartSleep, CallbackStartSleep
<1>2. ASSUME NEW t \in Timer, StopTimer(t) \/ StopUnlisted(t) PROVE SleepInv'
  BY <1>2, StopSleep, StopUnlistedSleep
<1>3. CASE Aside \/ UNCHANGED vars
  BY <1>3, AsideSleep
<1>4. QED
  BY <1>1, <1>2, <1>3, EnlistSleep, IrqSleep, ExpireSleep, ReturnSleep, EndSleep, TickSleep
     DEF Next, Aside

\* A handle once shared stays so, and a list once spoiled.
LEMMA SharedStays ==
  ASSUME [Next]_vars
  PROVE  /\ shared' # "spoiled" => shared # "spoiled"
         /\ shared' = "no" => shared = "no"
<1>1. ASSUME NEW t \in Timer, NEW timeout \in Timeouts, NEW every,
             StartTimer(t, timeout, every) \/ CallbackStarts(t, timeout, every)
      PROVE  /\ shared # "spoiled"
             /\ shared' = "no" => shared = "no"
  BY <1>1 DEF StartTimer, CallbackStarts, Ready
<1>2. CASE EnlistTimer
  BY <1>2 DEF EnlistTimer, Ready
<1>3. ASSUME NEW t \in Timer, StopTimer(t) \/ StopUnlisted(t) PROVE shared' = shared
  BY <1>3 DEF StopTimer, StopUnlisted
<1>4. CASE Aside \/ UNCHANGED vars
  BY <1>4, AsideIs
<1>5. CASE RTCC_IRQHandler \/ Expire \/ CallbackReturns \/ HandlerEnds \/ Tick
  BY <1>5 DEF RTCC_IRQHandler, Expire, CallbackReturns, HandlerEnds, Tick
<1>6. QED
  BY <1>1, <1>2, <1>3, <1>4, <1>5 DEF Next, Aside

-----------------------------------------------------------------------------
(* The comparator.                                                         *)

\* The comparator was set for the head of the new list.
LEMMA SetMeets ==
  ASSUME SleepTypes, chain' \in Items, chain' # <<>>, NEW matched,
         armed' = TRUE, counter' = counter, last_delta_update_count' = counter,
         sleeptimer_hal_set_compare((counter + chain'[1].delta) % Width, matched)
  PROVE  WakeupSet'
<1>1. Elapsed' = 0
  BY NothingElapsed
<1>2. 1 \in 0..Len(chain') /\ Expiry(chain', 1) \in Nat
  <2>1. PICK list \in Items : list = chain' /\ list # <<>>
    OBVIOUS
  <2>2. 1 \in 0..Len(list) /\ Expiry(list, 1) \in Nat
    BY <2>1, PlansTypes, ExpiryTypes
  <2>3. QED
    BY <2>1, <2>2
<1>3. Left(chain', 1, 0) = Expiry(chain', 1)
  BY <1>2 DEF Left
<1>4. \/ Diff(compare', counter) <= SLEEPTIMER_COMPARE_MIN_DIFF
      \/ Diff(compare', counter) <= Expiry(chain', 1)
  BY ComparatorTypes
<1>5. Diff(counter', last_delta_update_count') = 0
  BY <1>1 DEF Elapsed
<1>6. Diff(compare', counter') <= SLEEPTIMER_COMPARE_MIN_DIFF
      \/ Diff(compare', counter') <= Left(chain', 1, Diff(counter', last_delta_update_count'))
  BY <1>3, <1>4, <1>5
<1>7. QED
  BY <1>6, Zenon DEF WakeupSet

\* The comparator was left alone, and so was the head's expiry.
LEMMA KeptMeets ==
  ASSUME SleepTypes, WakeupSet, shared # "spoiled",
         handler = "none", chain # <<>>, chain' \in Items, chain' # <<>>,
         Expiry(chain', 1) = Left(chain, 1, Elapsed),
         last_delta_update_count' = counter,
         UNCHANGED <<counter, compare, armed, comp_flag, of_flag>>
  PROVE  WakeupSet'
<1>1. Elapsed' = 0
  BY NothingElapsed
<1>2. Expiry(chain', 1) \in Nat
  <2>1. PICK list \in Items : list = chain' /\ list # <<>>
    OBVIOUS
  <2>2. 1 \in 0..Len(list) /\ Expiry(list, 1) \in Nat
    BY <2>1, PlansTypes, ExpiryTypes
  <2>3. QED
    BY <2>1, <2>2
<1>3. Left(chain', 1, 0) = Expiry(chain', 1)
  BY <1>2 DEF Left
<1>4. Left(chain', 1, Diff(counter', last_delta_update_count')) = Left(chain, 1, Elapsed)
  BY <1>1, <1>3 DEF Elapsed
<1>5. /\ armed
      /\ \/ comp_flag \/ of_flag
         \/ Diff(compare, counter) <= SLEEPTIMER_COMPARE_MIN_DIFF
         \/ Diff(compare, counter) <= Left(chain, 1, Elapsed)
  BY Zenon DEF WakeupSet, Elapsed
<1>6. /\ armed'
      /\ \/ comp_flag' \/ of_flag'
         \/ Diff(compare', counter') <= SLEEPTIMER_COMPARE_MIN_DIFF
         \/ Diff(compare', counter') <= Left(chain', 1, Diff(counter', last_delta_update_count'))
  BY <1>4, <1>5, Zenon
<1>7. QED
  BY <1>6, Zenon DEF WakeupSet

\* A tick brings the match one nearer, and what is left falls by one at most.
LEMMA TickWakeup ==
  ASSUME SleepInv, WakeupSet, shared # "spoiled", Tick
  PROVE  WakeupSet'
<1>1. /\ counter' = IF counter = Width - 1 THEN 0 ELSE counter + 1
      /\ comp_flag' = (comp_flag \/ (armed /\ counter = compare))
      /\ of_flag' = (of_flag \/ counter = Width - 1)
      /\ UNCHANGED <<compare, armed, chain, last_delta_update_count, handler>>
  BY DEF Tick
<1>2. /\ counter \in 0..(Width - 1) /\ compare \in 0..(Width - 1)
      /\ last_delta_update_count \in 0..(Width - 1) /\ chain \in Items
  BY DEF SleepInv, SleepTypes
<1>3. CASE ~(handler = "none" /\ chain # <<>>)
  <2>1. ~(handler' = "none" /\ chain' # <<>>)
    BY <1>1, <1>3
  <2>2. QED
    BY <2>1, Zenon DEF WakeupSet
<1>4. CASE handler = "none" /\ chain # <<>>
  <2>1. /\ armed
        /\ \/ comp_flag \/ of_flag
           \/ Diff(compare, counter) <= SLEEPTIMER_COMPARE_MIN_DIFF
           \/ Diff(compare, counter) <= Left(chain, 1, Elapsed)
    BY <1>4, Zenon DEF WakeupSet, Elapsed
  <2>2. armed'
    BY <1>1, <2>1
  <2>3. CASE comp_flag' \/ of_flag'
    BY <2>2, <2>3, Zenon DEF WakeupSet
  <2>4. CASE ~comp_flag' /\ ~of_flag'
    <3>1. ~comp_flag /\ ~of_flag /\ counter # compare /\ counter # Width - 1
      BY <1>1, <2>1, <2>4
    <3>2. counter' = counter + 1 /\ counter' \in 0..(Width - 1)
      BY <1>1, <1>2, <3>1, TimeTypes
    <3>3. Diff(compare, counter) = IF compare >= counter THEN compare - counter
                                   ELSE compare - counter + Width
      BY <1>2, DiffIs
    <3>4. Diff(compare, counter') = IF compare >= counter' THEN compare - counter'
                                    ELSE compare - counter' + Width
      BY <1>2, <3>2, DiffIs
    <3>5. PICK d \in Nat : Diff(compare, counter) = d + 1 /\ Diff(compare, counter') = d
      <4>1. Diff(compare, counter') \in 0..(Width - 1)
        BY <1>2, <3>2, DiffIs
      <4>2. Diff(compare, counter) = Diff(compare, counter') + 1
        BY <1>2, <3>1, <3>2, <3>3, <3>4, TimeTypes
      <4>3. QED
        BY <4>1, <4>2, TimeTypes
    <3>6. Elapsed = IF counter >= last_delta_update_count THEN counter - last_delta_update_count
                    ELSE counter - last_delta_update_count + Width
      BY <1>2, DiffIs DEF Elapsed
    <3>7. PICK e : e = Diff(counter', last_delta_update_count)
      OBVIOUS
    <3>8. /\ e = IF counter' >= last_delta_update_count THEN counter' - last_delta_update_count
                 ELSE counter' - last_delta_update_count + Width
          /\ e \in 0..(Width - 1)
      BY <1>2, <3>2, <3>7, DiffIs
    <3>9. e <= Elapsed + 1 /\ e \in Nat /\ Elapsed \in Nat
      <4>1. Elapsed \in Nat
        BY <1>2, ElapsedTypes
      <4>2. QED
        BY <1>2, <3>2, <3>6, <3>8, <4>1, TimeTypes
    <3>10. Expiry(chain, 1) \in Nat
      <4>1. 1 \in 0..Len(chain)
        BY <1>2, <1>4, PlansTypes
      <4>2. QED
        BY <1>2, <4>1, ExpiryTypes
    <3>11. /\ Left(chain, 1, Elapsed) \in Nat /\ Left(chain, 1, e) \in Nat
           /\ Left(chain, 1, e) + 1 >= Left(chain, 1, Elapsed)
      BY <3>9, <3>10 DEF Left
    <3>12. \/ d <= SLEEPTIMER_COMPARE_MIN_DIFF
           \/ d <= Left(chain, 1, e)
      BY <2>1, <3>1, <3>5, <3>11 DEF SLEEPTIMER_COMPARE_MIN_DIFF
    <3>13. \/ Diff(compare', counter') <= SLEEPTIMER_COMPARE_MIN_DIFF
           \/ Diff(compare', counter') <= Left(chain', 1, Diff(counter', last_delta_update_count'))
      BY <1>1, <3>5, <3>7, <3>12
    <3>14. QED
      BY <2>2, <3>13, Zenon DEF WakeupSet
  <2>5. QED
    BY <2>3, <2>4
<1>5. QED
  BY <1>3, <1>4

\* What the steps outside the handler do to the comparator.
LEMMA EnlistWakeup ==
  ASSUME SleepInv, WakeupSet, EnlistTimer, shared' # "spoiled"
  PROVE  WakeupSet'
<1>1. /\ handler = "none" /\ creating # Idle /\ shared \notin {"started", "spoiled"}
      /\ Enlist(creating.timer, creating.timeout)
      /\ UNCHANGED <<counter, comp_flag, of_flag, handler>>
  BY DEF EnlistTimer, Ready
<1>2. PICK t \in Timer : t = creating.timer /\ creating.timeout \in Nat
  BY <1>1, CreatingIs DEF SleepInv
<1>3. PICK ticks : Enlisted(t, ticks)
  BY <1>1, <1>2, EnlistIs DEF SleepInv, OncePlanned
<1>4. chain' \in Items /\ chain' # <<>> /\ last_delta_update_count' = counter
  BY <1>3 DEF Enlisted
<1>5. CASE /\ armed' = TRUE
           /\ sleeptimer_hal_set_compare((counter + chain'[1].delta) % Width, comp_flag)
  BY <1>1, <1>4, <1>5, SetMeets DEF SleepInv
<1>6. CASE /\ UNCHANGED <<compare, armed>>
           /\ chain # <<>> /\ Expiry(chain', 1) = Left(chain, 1, Elapsed)
  BY <1>1, <1>4, <1>6, KeptMeets DEF SleepInv
<1>7. QED
  BY <1>3, <1>5, <1>6 DEF Enlisted

\* A timer is stopped, the first or another.
LEMMA StopWakeup ==
  ASSUME SleepInv, WakeupSet, NEW t \in Timer, StopTimer(t)
  PROVE  WakeupSet'
<1>1. UNCHANGED <<counter, comp_flag, of_flag, handler>> /\ shared # "spoiled"
  BY DEF StopTimer, Ready
<1>2. Stopped(t)
  BY StopIs DEF SleepInv, OncePlanned
<1>3. chain' \in Items /\ last_delta_update_count' = counter
  BY <1>2 DEF Stopped
<1>4. CASE handler # "none" \/ chain' = <<>>
  BY <1>1, <1>4, Zenon DEF WakeupSet
<1>5. CASE handler = "none" /\ chain' # <<>>
  <2>1. CASE /\ armed' = TRUE
             /\ sleeptimer_hal_set_compare((counter + chain'[1].delta) % Width, comp_flag)
    BY <1>1, <1>3, <1>5, <2>1, SetMeets DEF SleepInv
  <2>2. CASE /\ UNCHANGED <<compare, armed>>
             /\ chain # <<>> /\ Expiry(chain', 1) = Left(chain, 1, Elapsed)
    BY <1>1, <1>3, <1>5, <2>2, KeptMeets DEF SleepInv
  <2>3. QED
    BY <1>2, <1>5, <2>1, <2>2 DEF Stopped
<1>6. QED
  BY <1>4, <1>5

\* The list is updated: the first timer is what was left for it away.
LEMMA StopUnlistedWakeup ==
  ASSUME SleepInv, WakeupSet, NEW t \in Timer, StopUnlisted(t)
  PROVE  WakeupSet'
<1>1. /\ UNCHANGED <<counter, compare, armed, comp_flag, of_flag, handler>>
      /\ last_delta_update_count' = counter
      /\ shared # "spoiled"
  BY DEF StopUnlisted, Ready, rtcc
<1>2. Refreshed
  BY StopUnlistedSleep
<1>3. CASE handler # "none" \/ chain' = <<>>
  BY <1>1, <1>3, Zenon DEF WakeupSet
<1>4. CASE handler = "none" /\ chain' # <<>>
  <2>1. chain' \in Items /\ chain # <<>> /\ Expiry(chain', 1) = Left(chain, 1, Elapsed)
    BY <1>2, <1>4 DEF Refreshed
  <2>2. QED
    BY <1>1, <1>4, <2>1, KeptMeets DEF SleepInv
<1>5. QED
  BY <1>3, <1>4

\* An overflow sets the comparator again.
LEMMA IrqWakeup ==
  ASSUME SleepInv, WakeupSet, RTCC_IRQHandler
  PROVE  WakeupSet'
<1>1. /\ Pending
      /\ chain' = Updated(chain) /\ last_delta_update_count' = counter
      /\ of_flag /\ chain # <<>> =>
           set_comparator_for_next_timer(Updated(chain), counter, FALSE)
      /\ handler' = IF comp_flag THEN "loop" ELSE "none"
      /\ counter' = counter
  BY DEF RTCC_IRQHandler
<1>2. Refreshed
  BY IrqSleep
<1>3. CASE handler' # "none" \/ chain' = <<>>
  BY <1>3, Zenon DEF WakeupSet
<1>4. CASE handler' = "none" /\ chain' # <<>>
  <2>1. of_flag
    BY <1>1, <1>4 DEF Pending
  <2>2. chain' \in Items /\ chain # <<>>
    BY <1>2, <1>4 DEF Refreshed
  <2>3. armed' = TRUE /\ sleeptimer_hal_set_compare((counter + chain'[1].delta) % Width, FALSE)
    BY <1>1, <2>1, <2>2 DEF set_comparator_for_next_timer
  <2>4. QED
    BY <1>1, <1>4, <2>2, <2>3, SetMeets DEF SleepInv
<1>5. QED
  BY <1>3, <1>4

\* The end of the loop sets it for the head.
LEMMA EndWakeup ==
  ASSUME SleepInv, HandlerEnds
  PROVE  WakeupSet'
<1>1. UNCHANGED <<counter, chain, last_delta_update_count>>
  BY DEF HandlerEnds
<1>2. CASE chain = <<>>
  BY <1>1, <1>2, Zenon DEF WakeupSet
<1>3. CASE chain # <<>>
  <2>1. /\ armed' = TRUE
        /\ \/ Diff(compare', counter) <= SLEEPTIMER_COMPARE_MIN_DIFF
           \/ Diff(compare', counter) <= Left(chain, 1, Elapsed)
    BY <1>3, EndCompares
  <2>2. /\ armed'
        /\ \/ Diff(compare', counter') <= SLEEPTIMER_COMPARE_MIN_DIFF
           \/ Diff(compare', counter') <= Left(chain', 1, Diff(counter', last_delta_update_count'))
    BY <1>1, <2>1 DEF Elapsed
  <2>3. QED
    BY <2>2, Zenon DEF WakeupSet
<1>4. QED
  BY <1>2, <1>3

\* WakeupSet is inductive with SleepInv, as long as the list is not spoiled.
LEMMA NextWakeup ==
  ASSUME SleepInv, WakeupSet, [Next]_vars, shared # "spoiled", shared' # "spoiled"
  PROVE  WakeupSet'
<1>1. ASSUME NEW t \in Timer, NEW timeout \in Timeouts, NEW every,
             StartTimer(t, timeout, every) \/ CallbackStarts(t, timeout, every)
      PROVE  WakeupSet'
  <2>1. CASE StartTimer(t, timeout, every)
    <3>1. UNCHANGED <<counter, compare, armed, comp_flag, of_flag, chain,
                      last_delta_update_count, handler>>
      BY <2>1 DEF StartTimer, rtcc
    <3>2. QED
      BY <3>1 DEF WakeupSet
  <2>2. CASE CallbackStarts(t, timeout, every)
    <3>1. handler' # "none"
      BY <2>2 DEF CallbackStarts
    <3>2. QED
      BY <3>1, Zenon DEF WakeupSet
  <2>3. QED
    BY <1>1, <2>1, <2>2
<1>2. ASSUME NEW t \in Timer, StopTimer(t) \/ StopUnlisted(t) PROVE WakeupSet'
  BY <1>2, StopWakeup, StopUnlistedWakeup
<1>3. CASE Expire \/ CallbackReturns
  <2>1. handler' # "none"
    BY <1>3 DEF Expire, CallbackReturns
  <2>2. QED
    BY <2>1, Zenon DEF WakeupSet
<1>4. CASE Aside \/ UNCHANGED vars
  BY <1>4, AsideIs DEF WakeupSet
<1>5. QED
  BY <1>1, <1>2, <1>3, <1>4, EnlistWakeup, IrqWakeup, EndWakeup, TickWakeup DEF Next, Aside

\* As long as its list is not spoiled, the sleep timer always has its interrupt set for
\* the first timer, or flagged.
THEOREM WakeupIsSet == Spec => []WakeupSet
<1> DEFINE Inv == (shared # "spoiled" => SleepInv) /\ WakeupSet
<1>1. Init => Inv
  <2>1. Init => WakeupSet
    BY DEF Init, WakeupSet
  <2>2. QED
    BY <2>1, InitSleep
<1>2. ASSUME Inv, [Next]_vars PROVE Inv'
  <2>1. CASE shared' = "spoiled"
    BY <2>1, Zenon DEF WakeupSet
  <2>2. CASE shared' # "spoiled"
    BY <1>2, <2>2, SharedStays, NextSleep, NextWakeup
  <2>3. QED
    BY <2>1, <2>2
<1>3. Inv => WakeupSet
  OBVIOUS
<1> HIDE DEF Inv
<1>4. QED
  BY <1>1, <1>2, <1>3, PTL DEF Spec

-----------------------------------------------------------------------------
(* No callback comes early.                                                *)

\* A periodic timer is put back against the last update: one tick early at most.
Slack(t) == IF timeout_periodic[t] = 0 THEN 0 ELSE 1

\* A list, n ticks after the last update, plans no timer before it is due.
NonePlannedEarly == \A t, n : Plans(chain, t, n) => n - Elapsed >= due[t] - Slack(t)

\* A periodic timer is expected when it is due, whatever the counter wraps.
ExpectedWhenDue(t) == \E k \in Int : timeout_expected_tc[t] = counter + due[t] + Width * k

NotEarly ==
  /\ NonePlannedEarly
  /\ creating # Idle => creating.timeout >= due[creating.timer]
  /\ \A t \in Running : timeout_periodic[t] # 0 => ExpectedWhenDue(t)

\* The timers that run are those of the list and the one in create_timer().
LEMMA RunningIs ==
  ASSUME SleepTypes
  PROVE  /\ Running \subseteq Timer
         /\ creating = Idle => Running = Timers(chain)
         /\ creating # Idle => Running = Timers(chain) \cup {creating.timer}
<1>1. Listed = Timers(chain) /\ Timers(chain) \subseteq Timer
  BY ListedTimers, PlansTypes DEF SleepTypes
<1>2. creating = Idle => creating.timer = NoTimer
  BY DEF Idle
<1>3. creating # Idle => creating.timer \in Timer /\ creating.timer # NoTimer
  BY CreatingIs, Handles
<1>4. QED
  BY <1>1, <1>2, <1>3 DEF Running

\* The same after a step.
LEMMA RunningNext ==
  ASSUME SleepTypes'
  PROVE  /\ creating' = Idle => Running' = Timers(chain')
         /\ creating' # Idle => Running' = Timers(chain') \cup {creating'.timer}
<1>1. Listed' = Timers(chain')
  BY ExpiryTypes DEF Listed, Timers, SleepTypes
<1>2. creating' = Idle => creating'.timer = NoTimer
  BY DEF Idle
<1>3. creating' # Idle => creating'.timer \in Timer /\ creating'.timer # NoTimer
  <2>1. creating' \in [timer : Timer, timeout : Timeouts] \cup {Idle}
    BY DEF SleepTypes, Idle
  <2>2. QED
    BY <2>1, Handles
<1>4. QED
  BY <1>1, <1>2, <1>3 DEF Running

\* The types of what is kept of a timer.
LEMMA TimerTypes ==
  ASSUME SleepTypes, NEW t \in Timer
  PROVE  /\ due[t] \in Int /\ Slack(t) \in {0, 1}
         /\ timeout_periodic[t] \in Nat
         /\ counter \in Nat /\ Width \in Nat
BY CorrectionTypes, TimeTypes DEF SleepTypes, Slack

\* What an update takes off keeps a plan no earlier.
LEMMA ClippedIs ==
  ASSUME NEW k \in Nat, NEW e \in Nat
  PROVE  /\ Clipped(k, e) \in Nat /\ Clipped(k, e) >= k - e /\ Clipped(k, e) <= k
         /\ Clipped(k, e) > 0 => k > e /\ Clipped(k, e) = k - e
BY DEF Clipped

\* After an update, timers whose plans were only clipped are not early.
LEMMA RefreshedEarly ==
  ASSUME SleepTypes, NonePlannedEarly, NEW S,
         \A t, n : Plans(chain', t, n) /\ t \notin S =>
            \E k \in Nat : Plans(chain, t, k) /\ n = Clipped(k, Elapsed),
         Elapsed' = 0,
         \A t \in Timer : t \notin S => due'[t] = due[t] /\ Slack(t)' = Slack(t)
  PROVE  \A t, n : Plans(chain', t, n) /\ t \notin S => n - Elapsed' >= due'[t] - Slack(t)'
<1> SUFFICES ASSUME NEW t, NEW n, Plans(chain', t, n), t \notin S
             PROVE  n - Elapsed' >= due'[t] - Slack(t)'
  OBVIOUS
<1>1. PICK k \in Nat : Plans(chain, t, k) /\ n = Clipped(k, Elapsed)
  OBVIOUS
<1>2. t \in Timer
  BY <1>1, PlansTypes DEF SleepTypes
<1>3. k - Elapsed >= due[t] - Slack(t)
  BY <1>1 DEF NonePlannedEarly
<1>4. Elapsed \in Nat
  BY ElapsedTypes DEF SleepTypes
<1>5. n \in Nat /\ n >= k - Elapsed
  BY <1>1, <1>4, ClippedIs
<1>6. QED
  BY <1>2, <1>3, <1>4, <1>5, TimerTypes

\* A timer's expectation after a period, and after a tick.
LEMMA ExpectedLater ==
  ASSUME NEW c \in Int, NEW x \in 0..(Width - 1), NEW d \in Int, NEW n \in Nat,
         \E k \in Int : x = c + d + Width * k
  PROVE  \E k \in Int : (x + n) % Width = c + (d + n) + Width * k
<1>1. PICK k \in Int : x = c + d + Width * k
  OBVIOUS
<1>2. Width \in Nat \ {0} /\ x + n \in Int
  BY TimeTypes
<1>3. /\ x + n = Width * ((x + n) \div Width) + ((x + n) % Width)
      /\ (x + n) \div Width \in Int /\ (x + n) % Width \in 0..(Width - 1)
  BY <1>2, Remainder, Zenon
<1>4. PICK q, r : q = (x + n) \div Width /\ r = (x + n) % Width
  OBVIOUS
<1>5. x + n = Width * q + r /\ q \in Int /\ r \in Int
  BY <1>2, <1>3, <1>4
<1>6. r = c + (d + n) + Width * (k - q)
  BY <1>1, <1>2, <1>5
<1>7. k - q \in Int
  BY <1>5
<1>8. QED
  BY <1>4, <1>6, <1>7

\* A timer is prepared: it is due after its timeout, and expected then.
LEMMA PrepareEarly ==
  ASSUME SleepTypes, NEW t \in Timer, NEW timeout \in Timeouts, NEW every \in {0, timeout},
         Prepare(t, timeout, every), counter' = counter
  PROVE  /\ due'[t] = timeout /\ timeout_periodic'[t] = every
         /\ \A u \in Timer : u # t => /\ due'[u] = due[u]
                                      /\ timeout_periodic'[u] = timeout_periodic[u]
                                      /\ timeout_expected_tc'[u] = timeout_expected_tc[u]
                                      /\ Slack(u)' = Slack(u)
         /\ every # 0 => ExpectedWhenDue(t)'
<1>1. /\ timeout_periodic \in [Timer -> Timeouts \cup {0}]
      /\ timeout_expected_tc \in [Timer -> 0..(Width - 1)]
      /\ due \in [Timer -> Int]
      /\ counter \in 0..(Width - 1)
  BY DEF SleepTypes
<1>2. PICK c : c = IF every = 0 THEN 0 ELSE (counter + every) % Width
  OBVIOUS
<1>3. /\ timeout_periodic' = [timeout_periodic EXCEPT ![t] = every]
      /\ timeout_expected_tc' = [timeout_expected_tc EXCEPT ![t] = c]
      /\ due' = [due EXCEPT ![t] = timeout]
  BY <1>2 DEF Prepare
<1>4. /\ due'[t] = timeout /\ timeout_periodic'[t] = every /\ timeout_expected_tc'[t] = c
      /\ \A u \in Timer : u # t => /\ due'[u] = due[u]
                                   /\ timeout_periodic'[u] = timeout_periodic[u]
                                   /\ timeout_expected_tc'[u] = timeout_expected_tc[u]
  BY <1>1, <1>3
<1>5. \A u \in Timer : u # t => Slack(u)' = Slack(u)
  BY <1>4 DEF Slack
<1>6. ASSUME every # 0 PROVE ExpectedWhenDue(t)'
  <2>1. every = timeout /\ every \in Nat
    BY <1>6, TimeoutTypes
  <2>2. \E k \in Int : counter = counter + 0 + Width * k
    <3>1. counter = counter + 0 + Width * 0 /\ 0 \in Int
      BY <1>1, TimeTypes
    <3>2. QED
      BY <3>1
  <2>3. \E k \in Int : (counter + every) % Width = counter + (0 + every) + Width * k
    <3>1. counter \in Int /\ 0 \in Int
      BY <1>1
    <3>2. QED
      BY <1>1, <2>1, <2>2, <3>1, ExpectedLater
  <2>4. 0 + every = timeout
    BY <2>1
  <2>5. timeout_expected_tc'[t] = (counter + every) % Width /\ due'[t] = 0 + every
    BY <1>2, <1>4, <1>6, <2>1, <2>4
  <2>6. \E k \in Int : timeout_expected_tc'[t] = counter' + due'[t] + Width * k
    BY <2>3, <2>5
  <2>7. QED
    BY <2>6 DEF ExpectedWhenDue
<1>7. QED
  BY <1>4, <1>5, <1>6

\* A timer that is left alone is expected as before.
LEMMA StillExpected ==
  ASSUME NEW t, ExpectedWhenDue(t), counter' = counter, due'[t] = due[t],
         timeout_expected_tc'[t] = timeout_expected_tc[t]
  PROVE  ExpectedWhenDue(t)'
BY DEF ExpectedWhenDue

\* A timer is prepared: it is due after its timeout.
LEMMA StartEarly ==
  ASSUME SleepInv, NotEarly, NEW t \in Timer, NEW timeout \in Timeouts, NEW every \in {0, timeout},
         StartTimer(t, timeout, every), shared' # "spoiled"
  PROVE  NotEarly' /\ Running' = Running \cup {t} /\ t \notin Running
<1>1. /\ t \notin Listed /\ creating = Idle
      /\ Prepare(t, timeout, every)
      /\ creating' = [timer |-> t, timeout |-> timeout]
      /\ UNCHANGED <<counter, chain, last_delta_update_count>>
  BY DEF StartTimer, rtcc
<1>2. SleepTypes /\ SleepTypes'
  BY StartSleep DEF SleepInv
<1>3. /\ due'[t] = timeout /\ timeout_periodic'[t] = every
      /\ \A u \in Timer : u # t => /\ due'[u] = due[u]
                                   /\ timeout_periodic'[u] = timeout_periodic[u]
                                   /\ timeout_expected_tc'[u] = timeout_expected_tc[u]
                                   /\ Slack(u)' = Slack(u)
      /\ every # 0 => ExpectedWhenDue(t)'
  BY <1>1, <1>2, PrepareEarly
<1>4. /\ Running = Timers(chain) /\ Running \subseteq Timer /\ t \notin Running
      /\ creating'.timer = t /\ creating' # Idle /\ creating'.timeout = timeout
  BY <1>1, <1>2, RunningIs, ListedTimers, Handles DEF Idle, SleepTypes
<1>5. Running' = Running \cup {t}
  <2>1. Running' = Timers(chain') \cup {creating'.timer}
    BY <1>2, <1>4, RunningNext
  <2>2. QED
    BY <1>1, <1>4, <2>1
<1>6. Elapsed' = Elapsed
  BY <1>1 DEF Elapsed
<1>7. NonePlannedEarly'
  <2>1. ASSUME NEW u, NEW n, Plans(chain, u, n)
        PROVE  n - Elapsed >= due'[u] - Slack(u)'
    <3>1. u \in Timers(chain) /\ u \in Timer /\ u # t
      BY <1>2, <1>4, <2>1, PlansTypes DEF SleepTypes
    <3>2. n - Elapsed >= due[u] - Slack(u)
      BY <2>1 DEF NotEarly, NonePlannedEarly
    <3>3. QED
      BY <1>3, <3>1, <3>2
  <2>2. QED
    BY <1>1, <1>6, <2>1 DEF NonePlannedEarly
<1>8. creating'.timeout >= due'[creating'.timer]
  BY <1>3, <1>4, TimeoutTypes
<1>9. \A u \in Running' : timeout_periodic'[u] # 0 => ExpectedWhenDue(u)'
  <2>1. ASSUME NEW u \in Running, timeout_periodic'[u] # 0 PROVE ExpectedWhenDue(u)'
    <3>1. u \in Timer /\ u # t
      BY <1>1, <1>4
    <3>2. timeout_periodic[u] # 0
      BY <1>3, <2>1, <3>1
    <3>3. ExpectedWhenDue(u)
      BY <3>2 DEF NotEarly
    <3>4. QED
      BY <1>1, <1>3, <3>1, <3>3, StillExpected
  <2>2. QED
    BY <1>3, <1>5, <2>1
<1>10. QED
  BY <1>4, <1>5, <1>7, <1>8, <1>9 DEF NotEarly

\* The plans after a timer was enlisted that is due after its timeout at the latest.
LEMMA EnlistedEarly ==
  ASSUME SleepTypes, NonePlannedEarly, NEW t \in Timer, NEW timeout \in Nat,
         NEW ticks \in Timeout(t, timeout), Enlisted(t, ticks), counter' = counter,
         \A u \in Timer : u # t => due'[u] = due[u] /\ Slack(u)' = Slack(u),
         t \notin Timers(chain),
         due'[t] \in Int, Slack(t)' \in {0, 1}, timeout >= due'[t]
  PROVE  NonePlannedEarly'
<1>1. /\ last_delta_update_count' = counter
      /\ \A u, m : Plans(chain', u, m) <=>
           \/ u = t /\ m = ticks
           \/ \E k \in Nat : Plans(chain, u, k) /\ m = Clipped(k, Elapsed)
  BY DEF Enlisted
<1>2. Elapsed' = 0
  BY <1>1, NothingElapsed
<1>3. ticks \in Nat /\ ticks >= timeout
  BY TicksTypes
<1>4. ASSUME NEW u, NEW n, Plans(chain', u, n) PROVE n - Elapsed' >= due'[u] - Slack(u)'
  <2>1. CASE u = t
    <3>1. n = ticks
      <4>1. ASSUME NEW k \in Nat, Plans(chain, u, k) PROVE FALSE
        BY <2>1, <4>1, PlansTypes DEF SleepTypes
      <4>2. QED
        BY <1>1, <1>4, <4>1
    <3>2. QED
      BY <1>2, <1>3, <2>1, <3>1
  <2>2. CASE u # t
    <3>1. PICK k \in Nat : Plans(chain, u, k) /\ n = Clipped(k, Elapsed)
      BY <1>1, <1>4, <2>2
    <3>2. k - Elapsed >= due[u] - Slack(u)
      BY <3>1 DEF NonePlannedEarly
    <3>3. u \in Timer
      BY <3>1, PlansTypes DEF SleepTypes
    <3>4. Elapsed \in Nat
      BY ElapsedTypes DEF SleepTypes
    <3>5. n \in Nat /\ n >= k - Elapsed
      BY <3>1, <3>4, ClippedIs
    <3>6. QED
      BY <1>2, <2>2, <3>2, <3>3, <3>4, <3>5, TimerTypes
  <2>3. QED
    BY <2>1, <2>2
<1>5. QED
  BY <1>4 DEF NonePlannedEarly

\* The prepared timer goes into the list, for its whole timeout.
LEMMA EnlistEarly ==
  ASSUME SleepInv, NotEarly, EnlistTimer, shared' # "spoiled"
  PROVE  NotEarly' /\ Running' = Running /\ UNCHANGED <<timeout_periodic, due>>
<1>1. /\ creating # Idle /\ creating' = Idle /\ shared # "started"
      /\ Enlist(creating.timer, creating.timeout)
      /\ UNCHANGED <<counter, timeout_periodic, timeout_expected_tc, due>>
  BY DEF EnlistTimer
<1>2. SleepTypes /\ SleepTypes'
  BY EnlistSleep DEF SleepInv
<1>3. PICK t \in Timer : t = creating.timer
  BY <1>1, <1>2, CreatingIs
<1>4. PICK timeout \in Nat : timeout = creating.timeout
  BY <1>1, <1>2, CreatingIs
<1>5. t \notin Timers(chain)
  BY <1>1, <1>3 DEF SleepInv, OncePlanned
<1>6. PICK ticks \in Timeout(t, timeout) : Enlisted(t, ticks)
  BY <1>1, <1>2, <1>3, <1>4, <1>5, EnlistIs
<1>7. Running' = Running
  <2>1. Running = Timers(chain) \cup {t}
    BY <1>1, <1>2, <1>3, RunningIs
  <2>2. Running' = Timers(chain')
    BY <1>1, <1>2, RunningNext
  <2>3. QED
    BY <1>6, <2>1, <2>2 DEF Enlisted
<1>8. \A u : Slack(u)' = Slack(u)
  BY <1>1 DEF Slack
<1>9. due'[t] \in Int /\ Slack(t)' \in {0, 1} /\ timeout >= due'[t]
  BY <1>1, <1>2, <1>3, <1>4, <1>8, TimerTypes DEF NotEarly
<1>10. NonePlannedEarly'
  <2>1. \A u \in Timer : u # t => due'[u] = due[u] /\ Slack(u)' = Slack(u)
    BY <1>1, <1>8
  <2>2. counter' = counter /\ NonePlannedEarly
    BY <1>1 DEF NotEarly
  <2>3. QED
    BY <1>2, <1>5, <1>6, <1>9, <2>1, <2>2, EnlistedEarly
<1>11. \A u \in Running' : timeout_periodic'[u] # 0 => ExpectedWhenDue(u)'
  BY <1>1, <1>7, StillExpected DEF NotEarly
<1>12. QED
  BY <1>1, <1>7, <1>10, <1>11 DEF NotEarly

\* A callback starts a timer.
LEMMA CallbackStartEarly ==
  ASSUME SleepInv, NotEarly, NEW t \in Timer, NEW timeout \in Timeouts, NEW every \in {0, timeout},
         CallbackStarts(t, timeout, every), shared' = "no"
  PROVE  NotEarly' /\ Running' = Running \cup {t} /\ t \notin Running
<1>1. /\ t \notin Listed /\ t # creating.timer
      /\ Prepare(t, timeout, every)
      /\ Enlist(t, timeout)
      /\ UNCHANGED <<counter, creating>>
  BY DEF CallbackStarts
<1>2. SleepTypes /\ SleepTypes'
  BY CallbackStartSleep DEF SleepInv
<1>3. /\ due'[t] = timeout /\ timeout_periodic'[t] = every
      /\ \A u \in Timer : u # t => /\ due'[u] = due[u]
                                   /\ timeout_periodic'[u] = timeout_periodic[u]
                                   /\ timeout_expected_tc'[u] = timeout_expected_tc[u]
                                   /\ Slack(u)' = Slack(u)
      /\ every # 0 => ExpectedWhenDue(t)'
  BY <1>1, <1>2, PrepareEarly
<1>4. timeout \in Nat
  BY TimeoutTypes
<1>5. /\ Running \subseteq Timer
      /\ creating = Idle => Running = Timers(chain)
      /\ creating # Idle => Running = Timers(chain) \cup {creating.timer}
  BY <1>2, RunningIs
<1>6. t \notin Timers(chain) /\ t \notin Running
  BY <1>1, <1>2, <1>5, ListedTimers DEF SleepTypes
<1>7. PICK ticks \in Timeout(t, timeout) : Enlisted(t, ticks)
  BY <1>1, <1>2, <1>4, <1>6, EnlistIs
<1>8. Running' = Running \cup {t}
  <2>1. /\ creating = Idle => Running' = Timers(chain')
        /\ creating # Idle => Running' = Timers(chain') \cup {creating.timer}
    BY <1>1, <1>2, RunningNext
  <2>2. Timers(chain') = Timers(chain) \cup {t}
    BY <1>7 DEF Enlisted
  <2>3. QED
    BY <1>5, <2>1, <2>2
<1>9. Slack(t)' \in {0, 1} /\ due'[t] \in Int /\ timeout >= due'[t]
  BY <1>3, <1>4 DEF Slack
<1>10. NonePlannedEarly'
  <2>1. \A u \in Timer : u # t => due'[u] = due[u] /\ Slack(u)' = Slack(u)
    BY <1>3
  <2>2. counter' = counter /\ NonePlannedEarly
    BY <1>1 DEF NotEarly
  <2>3. QED
    BY <1>2, <1>4, <1>6, <1>7, <1>9, <2>1, <2>2, EnlistedEarly
<1>11. ASSUME creating' # Idle PROVE creating'.timeout >= due'[creating'.timer]
  <2>1. creating # Idle /\ creating' = creating
    BY <1>1, <1>11 DEF Idle
  <2>2. creating.timer \in Timer
    BY <1>2, <2>1, CreatingIs
  <2>3. due'[creating.timer] = due[creating.timer]
    BY <1>1, <1>3, <2>1, <2>2
  <2>4. QED
    BY <2>1, <2>3 DEF NotEarly
<1>12. \A u \in Running' : timeout_periodic'[u] # 0 => ExpectedWhenDue(u)'
  <2>1. ASSUME NEW u \in Running, timeout_periodic'[u] # 0 PROVE ExpectedWhenDue(u)'
    <3>1. u \in Timer /\ u # t
      BY <1>5, <1>6
    <3>2. timeout_periodic[u] # 0
      BY <1>3, <2>1, <3>1
    <3>3. ExpectedWhenDue(u)
      BY <3>2 DEF NotEarly
    <3>4. QED
      BY <1>1, <1>3, <3>1, <3>3, StillExpected
  <2>2. QED
    BY <1>3, <1>8, <2>1
<1>13. QED
  BY <1>6, <1>8, <1>10, <1>11, <1>12 DEF NotEarly

\* The fields of a timer that leaves.
LEMMA ForgetIs ==
  ASSUME SleepTypes, NEW t \in Timer, Forget(t)
  PROVE  \A u \in Timer : u # t => /\ due'[u] = due[u]
                                   /\ timeout_periodic'[u] = timeout_periodic[u]
                                   /\ timeout_expected_tc'[u] = timeout_expected_tc[u]
                                   /\ Slack(u)' = Slack(u)
<1>1. /\ timeout_periodic \in [Timer -> Timeouts \cup {0}]
      /\ timeout_expected_tc \in [Timer -> 0..(Width - 1)]
      /\ due \in [Timer -> Int]
  BY DEF SleepTypes
<1>2. \A u \in Timer : u # t => /\ due'[u] = due[u]
                                /\ timeout_periodic'[u] = timeout_periodic[u]
                                /\ timeout_expected_tc'[u] = timeout_expected_tc[u]
  BY <1>1 DEF Forget
<1>3. QED
  BY <1>2 DEF Slack

\* A timer that is not shared leaves: its period and what is due are cleared.
Leaves(t) == /\ timeout_periodic' = [timeout_periodic EXCEPT ![t] = 0]
             /\ due' = [due EXCEPT ![t] = 0]

LEMMA ForgetLeaves ==
  ASSUME SleepInv, shared # "started", NEW t \in Timers(chain), Forget(t)
  PROVE  Leaves(t)
<1>1. t \in Timer
  BY PlansTypes DEF SleepInv, SleepTypes
<1>2. t # creating.timer
  <2>1. CASE creating = Idle
    BY <1>1, <2>1, Handles DEF Idle
  <2>2. CASE creating # Idle
    BY <2>2 DEF SleepInv, OncePlanned
  <2>3. QED
    BY <2>1, <2>2
<1>3. QED
  BY <1>2 DEF Forget, Leaves

\* What remains when one timer has left and the others are planned no earlier.
LEMMA OthersEarly ==
  ASSUME SleepInv, NotEarly, shared # "started", SleepTypes', NEW t \in Timers(chain), Forget(t),
         Timers(chain') = Timers(chain) \ {t},
         counter' = counter, creating' = creating, NonePlannedEarly'
  PROVE  NotEarly' /\ Running' = Running \ {t}
<1>1. SleepTypes /\ t \in Timer
  BY PlansTypes DEF SleepInv, SleepTypes
<1>2. \A u \in Timer : u # t => /\ due'[u] = due[u]
                                /\ timeout_periodic'[u] = timeout_periodic[u]
                                /\ timeout_expected_tc'[u] = timeout_expected_tc[u]
  BY <1>1, ForgetIs
<1>3. /\ Running \subseteq Timer
      /\ creating = Idle => Running = Timers(chain)
      /\ creating # Idle => Running = Timers(chain) \cup {creating.timer}
  BY <1>1, RunningIs
<1>4. creating # Idle => creating.timer # t /\ creating.timer \in Timer
  BY <1>1, CreatingIs DEF SleepInv, OncePlanned
<1>5. Running' = Running \ {t}
  <2>1. /\ creating = Idle => Running' = Timers(chain')
        /\ creating # Idle => Running' = Timers(chain') \cup {creating.timer}
    BY RunningNext DEF Idle
  <2>2. QED
    BY <1>3, <1>4, <2>1
<1>6. ASSUME creating' # Idle PROVE creating'.timeout >= due'[creating'.timer]
  <2>1. creating # Idle
    BY <1>6 DEF Idle
  <2>2. due'[creating.timer] = due[creating.timer]
    BY <1>2, <1>4, <2>1
  <2>3. QED
    BY <2>1, <2>2 DEF NotEarly
<1>7. ASSUME NEW u \in Running', timeout_periodic'[u] # 0 PROVE ExpectedWhenDue(u)'
  <2>1. u \in Running /\ u \in Timer /\ u # t
    BY <1>3, <1>5
  <2>2. timeout_periodic[u] # 0
    BY <1>2, <1>7, <2>1
  <2>3. ExpectedWhenDue(u)
    BY <2>1, <2>2 DEF NotEarly
  <2>4. QED
    BY <1>2, <2>1, <2>3, StillExpected
<1>8. QED
  BY <1>5, <1>6, <1>7 DEF NotEarly

\* A timer is stopped.
LEMMA StopEarly ==
  ASSUME SleepInv, NotEarly, shared # "started", NEW t \in Timer, StopTimer(t)
  PROVE  NotEarly' /\ t \in Running /\ Running' = Running \ {t} /\ Leaves(t)
<1>1. Forget(t) /\ UNCHANGED <<counter, creating>> /\ t \in Listed
  BY DEF StopTimer
<1>2. t \in Timers(chain) /\ Stopped(t)
  BY StopIs DEF SleepInv, OncePlanned
<1>3. SleepTypes /\ SleepTypes'
  BY StopSleep DEF SleepInv
<1>4. /\ last_delta_update_count' = counter
      /\ \A u, m : Plans(chain', u, m) <=>
           u # t /\ \E k \in Nat : Plans(chain, u, k) /\ m = Clipped(k, Elapsed)
      /\ Timers(chain') = Timers(chain) \ {t}
  BY <1>2 DEF Stopped
<1>5. NonePlannedEarly'
  <2>1. Elapsed' = 0
    BY <1>1, <1>3, <1>4, NothingElapsed
  <2>2. \A u \in Timer : u \notin {t} => due'[u] = due[u] /\ Slack(u)' = Slack(u)
    BY <1>1, <1>3, ForgetIs
  <2>3. \A u, n : Plans(chain', u, n) /\ u \notin {t} =>
                    \E k \in Nat : Plans(chain, u, k) /\ n = Clipped(k, Elapsed)
    BY <1>4
  <2>4. NonePlannedEarly
    BY DEF NotEarly
  <2>5. \A u, n : Plans(chain', u, n) /\ u \notin {t} => n - Elapsed' >= due'[u] - Slack(u)'
    BY <1>3, <2>1, <2>2, <2>3, <2>4, RefreshedEarly
  <2>6. \A u, n : Plans(chain', u, n) => u \notin {t}
    BY <1>4
  <2>7. QED
    BY <2>5, <2>6 DEF NonePlannedEarly
<1>6. NotEarly' /\ Running' = Running \ {t}
  BY <1>1, <1>2, <1>3, <1>4, <1>5, OthersEarly
<1>7. Leaves(t)
  BY <1>1, <1>2, ForgetLeaves
<1>8. QED
  BY <1>1, <1>6, <1>7 DEF Running

\* The steps that leave the timers alone.
LEMMA RefreshEarly ==
  ASSUME SleepInv, NotEarly, SleepTypes', Refreshed,
         UNCHANGED <<counter, timeout_periodic, timeout_expected_tc, creating, due>>
  PROVE  NotEarly' /\ Running' = Running
<1>1. SleepTypes
  BY DEF SleepInv
<1>2. /\ last_delta_update_count' = counter
      /\ \A u, m : Plans(chain', u, m) <=>
           \E k \in Nat : Plans(chain, u, k) /\ m = Clipped(k, Elapsed)
      /\ Timers(chain') = Timers(chain)
  BY DEF Refreshed
<1>3. NonePlannedEarly'
  <2>1. Elapsed' = 0
    BY <1>1, <1>2, NothingElapsed
  <2>2. \A u \in Timer : due'[u] = due[u] /\ Slack(u)' = Slack(u)
    BY DEF Slack
  <2>3. \A u, n : Plans(chain', u, n) =>
                    \E k \in Nat : Plans(chain, u, k) /\ n = Clipped(k, Elapsed)
    BY <1>2
  <2>4. NonePlannedEarly
    BY DEF NotEarly
  <2>a. PICK S : S = {}
    OBVIOUS
  <2>b. \A u \in Timer : u \notin S => due'[u] = due[u] /\ Slack(u)' = Slack(u)
    BY <2>2
  <2>c. \A u, n : Plans(chain', u, n) /\ u \notin S =>
                    \E k \in Nat : Plans(chain, u, k) /\ n = Clipped(k, Elapsed)
    BY <2>3
  <2>5. \A u, n : Plans(chain', u, n) /\ u \notin S => n - Elapsed' >= due'[u] - Slack(u)'
    BY <1>1, <2>1, <2>b, <2>c, <2>4, RefreshedEarly
  <2>6. QED
    BY <2>5, <2>a DEF NonePlannedEarly
<1>4. Running' = Running
  <2>1. /\ creating = Idle => Running = Timers(chain)
        /\ creating # Idle => Running = Timers(chain) \cup {creating.timer}
    BY <1>1, RunningIs
  <2>2. /\ creating = Idle => Running' = Timers(chain')
        /\ creating # Idle => Running' = Timers(chain') \cup {creating.timer}
    BY RunningNext DEF Idle
  <2>3. QED
    BY <1>2, <2>1, <2>2
<1>5. \A u \in Running' : timeout_periodic'[u] # 0 => ExpectedWhenDue(u)'
  BY <1>4, StillExpected DEF NotEarly
<1>6. creating' # Idle => creating'.timeout >= due'[creating'.timer]
  BY DEF NotEarly, Idle
<1>7. QED
  BY <1>3, <1>4, <1>5, <1>6 DEF NotEarly

\* A step that touches none of this.
LEMMA EndEarly ==
  ASSUME NotEarly,
         UNCHANGED <<counter, chain, last_delta_update_count, timeout_periodic,
                     timeout_expected_tc, creating, due>>
  PROVE  NotEarly' /\ Running' = Running
<1>1. Running' = Running
  BY DEF Running, Listed
<1>2. NonePlannedEarly'
  BY DEF NotEarly, NonePlannedEarly, Elapsed, Slack
<1>3. \A u \in Running' : timeout_periodic'[u] # 0 => ExpectedWhenDue(u)'
  BY <1>1, StillExpected DEF NotEarly
<1>4. QED
  BY <1>1, <1>2, <1>3 DEF NotEarly, Idle

\* The counter, and with it what has elapsed, goes on by one, or starts over.
LEMMA TickIs ==
  ASSUME SleepTypes, Tick
  PROVE  /\ counter' \in 0..(Width - 1)
         /\ counter' = counter + 1 \/ counter' = counter + 1 - Width
         /\ Elapsed' \in Nat
         /\ Elapsed' = Elapsed + 1 \/ (Elapsed = Width - 1 /\ Elapsed' = 0)
         /\ UNCHANGED <<chain, timeout_periodic, timeout_expected_tc, creating>>
         /\ Running' = Running
         /\ due' = [t \in Timer |-> IF t \in Running THEN due[t] - 1 ELSE 0]
<1>1. /\ counter' = IF counter = Width - 1 THEN 0 ELSE counter + 1
      /\ UNCHANGED <<chain, last_delta_update_count, timeout_periodic, timeout_expected_tc, creating>>
      /\ due' = [t \in Timer |-> IF t \in Running THEN due[t] - 1 ELSE 0]
  BY DEF Tick
<1>2. counter \in 0..(Width - 1) /\ last_delta_update_count \in 0..(Width - 1)
  BY DEF SleepTypes
<1>3. /\ counter' \in 0..(Width - 1)
      /\ counter' = counter + 1 \/ counter' = counter + 1 - Width
  BY <1>1, <1>2, TimeTypes
<1>4. PICK e : e = Diff(counter', last_delta_update_count)
  OBVIOUS
<1>5. /\ e = IF counter' >= last_delta_update_count THEN counter' - last_delta_update_count
             ELSE counter' - last_delta_update_count + Width
      /\ e \in 0..(Width - 1)
  BY <1>2, <1>3, <1>4, DiffIs
<1>6. Elapsed = IF counter >= last_delta_update_count THEN counter - last_delta_update_count
                ELSE counter - last_delta_update_count + Width
  BY <1>2, DiffIs DEF Elapsed
<1>7. e \in Nat /\ (e = Elapsed + 1 \/ (Elapsed = Width - 1 /\ e = 0))
  BY <1>1, <1>2, <1>5, <1>6, TimeTypes
<1>8. Elapsed' = e
  BY <1>1, <1>4 DEF Elapsed
<1>9. Running' = Running
  BY <1>1 DEF Running, Listed
<1>10. QED
  BY <1>1, <1>3, <1>7, <1>8, <1>9

\* A tick brings plans and timers one nearer together.
LEMMA TickEarly ==
  ASSUME SleepInv, NotEarly, Tick
  PROVE  /\ NotEarly' /\ Running' = Running
         /\ due' = [t \in Timer |-> IF t \in Running THEN due[t] - 1 ELSE 0]
         /\ UNCHANGED timeout_periodic
<1>1. SleepTypes
  BY DEF SleepInv
<1>2. /\ counter' \in 0..(Width - 1)
      /\ counter' = counter + 1 \/ counter' = counter + 1 - Width
      /\ Elapsed' \in Nat
      /\ Elapsed' = Elapsed + 1 \/ (Elapsed = Width - 1 /\ Elapsed' = 0)
      /\ UNCHANGED <<chain, timeout_periodic, timeout_expected_tc, creating>>
      /\ Running' = Running
      /\ due' = [t \in Timer |-> IF t \in Running THEN due[t] - 1 ELSE 0]
  BY <1>1, TickIs
<1>3. /\ Running \subseteq Timer
      /\ creating = Idle => Running = Timers(chain)
      /\ creating # Idle => Running = Timers(chain) \cup {creating.timer}
  BY <1>1, RunningIs
<1>4. \A u \in Running : due'[u] = due[u] - 1 /\ Slack(u)' = Slack(u)
  BY <1>2, <1>3 DEF Slack
<1>5. NonePlannedEarly'
  <2>1. ASSUME NEW u, NEW n, Plans(chain, u, n) PROVE n - Elapsed' >= due'[u] - Slack(u)'
    <3>1. u \in Timers(chain) /\ n \in Nat /\ u \in Timer
      BY <1>1, <2>1, PlansTypes DEF SleepTypes
    <3>2. u \in Running
      BY <1>3, <3>1
    <3>3. n - Elapsed >= due[u] - Slack(u)
      BY <2>1 DEF NotEarly, NonePlannedEarly
    <3>4. Elapsed \in Nat /\ Elapsed' \in Nat /\ Elapsed' <= Elapsed + 1
      <4>1. Elapsed \in Nat
        BY <1>1, ElapsedTypes DEF SleepTypes
      <4>2. Elapsed' \in Nat /\ (Elapsed' = Elapsed + 1 \/ Elapsed' = 0)
        BY <1>2
      <4>3. QED
        BY <4>1, <4>2
    <3>5. due[u] \in Int /\ Slack(u) \in Int
      BY <1>1, <3>1, TimerTypes
    <3>6. due'[u] = due[u] - 1 /\ Slack(u)' = Slack(u)
      BY <1>4, <3>2
    <3>7. QED
      BY <3>1, <3>3, <3>4, <3>5, <3>6
  <2>2. QED
    BY <1>2, <2>1 DEF NonePlannedEarly
<1>6. ASSUME creating' # Idle PROVE creating'.timeout >= due'[creating'.timer]
  <2>1. creating # Idle /\ creating' = creating
    BY <1>2, <1>6 DEF Idle
  <2>2. creating.timer \in Running /\ creating.timer \in Timer /\ creating.timeout \in Nat
    BY <1>1, <1>3, <2>1, CreatingIs
  <2>3. creating.timeout >= due[creating.timer]
    BY <2>1 DEF NotEarly
  <2>4. due[creating.timer] \in Int /\ due'[creating.timer] = due[creating.timer] - 1
    BY <1>1, <1>4, <2>2, TimerTypes
  <2>5. QED
    BY <2>1, <2>2, <2>3, <2>4
<1>7. ASSUME NEW u \in Running', timeout_periodic'[u] # 0 PROVE ExpectedWhenDue(u)'
  <2>1. u \in Running /\ u \in Timer /\ timeout_periodic[u] # 0
    BY <1>2, <1>3, <1>7
  <2>2. PICK k \in Int : timeout_expected_tc[u] = counter + due[u] + Width * k
    BY <2>1 DEF NotEarly, ExpectedWhenDue
  <2>3. due[u] \in Int /\ due'[u] = due[u] - 1 /\ Width \in Nat /\ counter \in Nat
    BY <1>1, <1>4, <2>1, TimerTypes
  <2>4. CASE counter' = counter + 1
    <3>1. timeout_expected_tc[u] = counter' + due'[u] + Width * k
      BY <2>2, <2>3, <2>4
    <3>2. QED
      BY <1>2, <3>1 DEF ExpectedWhenDue
  <2>5. CASE counter' = counter + 1 - Width
    <3>1. timeout_expected_tc[u] = counter' + due'[u] + Width * (k + 1)
      BY <2>2, <2>3, <2>5
    <3>2. k + 1 \in Int
      OBVIOUS
    <3>3. QED
      BY <1>2, <3>1, <3>2 DEF ExpectedWhenDue
  <2>6. QED
    BY <1>2, <2>4, <2>5
<1>8. QED
  BY <1>2, <1>5, <1>6, <1>7 DEF NotEarly

\* Multiples of the width by their sign.
LEMMA Multiples ==
  ASSUME NEW W \in Nat \ {0}, NEW j \in Int
  PROVE  /\ j >= 1 => W * j >= W
         /\ j <= 0 => W * j <= 0
         /\ j <= -1 => W * j <= -W
         /\ W * j \in Int
OBVIOUS

\* The signed difference is how late the callback is, or less if it is later than
\* half the counter's width.
LEMMA CorrectionIs ==
  ASSUME SleepTypes, NEW t \in Timer, ExpectedWhenDue(t), due[t] <= 1
  PROVE  /\ Correction(t) <= -due[t]
         /\ -due[t] < Width \div 2 => Correction(t) = -due[t]
<1>1. PICK x \in 0..(Width - 1) : x = timeout_expected_tc[t]
  BY CorrectionTypes
<1>2. PICK late \in Int : late = -due[t] /\ late >= -1
  BY TimerTypes
<1>3. PICK k \in Int : x = counter - late + Width * k
  <2>1. PICK k \in Int : x = counter + due[t] + Width * k
    BY <1>1 DEF ExpectedWhenDue
  <2>2. due[t] = -late /\ counter \in Int
    BY <1>2, TimerTypes
  <2>3. Width * k \in Int
    BY TimeTypes
  <2>4. counter + due[t] = counter - late
    BY <1>2, <2>2
  <2>5. QED
    BY <2>1, <2>4
<1>4. PICK c \in 0..(Width - 1) : c = counter
  BY DEF SleepTypes
<1>5. PICK h \in Nat : h = Width \div 2 /\ h >= 1 /\ 2 * h <= Width
  BY TimeTypes
<1>6. PICK d \in 0..(Width - 1) : d = Diff(counter, x) /\ (d = c - x \/ d = c - x + Width)
  BY <1>4, DiffIs
<1>7. PICK w \in Nat \ {0, 1} : w = Width
  BY TimeTypes
<1>8. PICK e \in Int : Correction(t) = e /\ e = IF d < h THEN d ELSE d - w
  BY <1>1, <1>5, <1>6, <1>7 DEF Correction, Signed
<1>9. e < h /\ e >= h - w
  BY <1>5, <1>6, <1>7, <1>8
<1>10. PICK j \in Int : e = late + w * j
  <2>1. PICK m \in Int : m = w * k
    BY <1>7
  <2>2. x = c - late + m
    BY <1>3, <1>4, <1>7, <2>1
  <2>3. e = late - m \/ e = late - m + w \/ e = late - m - w
    BY <1>2, <1>6, <1>7, <1>8, <2>2
  <2>4. -m = w * (-k) /\ -m + w = w * (1 - k) /\ -m - w = w * (-1 - k)
    BY <1>7, <2>1
  <2>5. -k \in Int /\ 1 - k \in Int /\ -1 - k \in Int
    OBVIOUS
  <2>6. CASE e = late - m
    <3>1. e = late + w * (-k)
      BY <1>2, <2>1, <2>4, <2>6
    <3>2. QED
      BY <2>5, <3>1
  <2>7. CASE e = late - m + w
    <3>1. e = late + w * (1 - k)
      BY <1>2, <1>7, <2>1, <2>4, <2>7
    <3>2. QED
      BY <2>5, <3>1
  <2>8. CASE e = late - m - w
    <3>1. e = late + w * (-1 - k)
      BY <1>2, <1>7, <2>1, <2>4, <2>8
    <3>2. QED
      BY <2>5, <3>1
  <2>9. QED
    BY <2>3, <2>6, <2>7, <2>8
<1>11. PICK p \in Int : p = w * j /\ (j >= 1 => p >= w) /\ (j <= 0 => p <= 0) /\ (j <= -1 => p <= -w)
  BY <1>7, Multiples
<1>12. e = late + p
  BY <1>10, <1>11
<1>13. j <= 0
  BY <1>2, <1>5, <1>7, <1>9, <1>11, <1>12
<1>14. e <= late
  BY <1>2, <1>11, <1>12, <1>13
<1>15. ASSUME late < h PROVE e = late
  <2>1. ~(j <= -1)
    BY <1>2, <1>5, <1>7, <1>9, <1>11, <1>12, <1>15
  <2>2. j = 0
    BY <1>13, <2>1
  <2>3. p = 0
    BY <1>7, <1>11, <2>2
  <2>4. QED
    BY <1>2, <1>12, <2>3
<1>16. QED
  BY <1>2, <1>5, <1>8, <1>14, <1>15

\* The timer that calls back is due, and is planned for nothing else.
LEMMA CurrentDue ==
  ASSUME SleepInv, NotEarly, Expire
  PROVE  /\ Current \in Timers(chain) /\ Current \in Timer /\ Current \in Running
         /\ due[Current] <= Slack(Current)
         /\ Elapsed \in 0..1
<1>1. handler = "loop" /\ Expired # {}
  BY DEF Expire
<1>2. PICK t : t = Current
  OBVIOUS
<1>3. t \in Timers(chain) /\ Plans(chain, t, 0) /\ SleepTypes
  BY <1>1, <1>2, CurrentIs DEF SleepInv, SleepTypes
<1>4. t \in Timer /\ t \in Running
  BY <1>3, PlansTypes, ListedTimers DEF SleepTypes, Running
<1>5. Elapsed \in 0..1
  BY <1>1 DEF SleepInv, Fresh
<1>6. 0 - Elapsed >= due[t] - Slack(t)
  BY <1>3 DEF NotEarly, NonePlannedEarly
<1>7. due[t] <= Slack(t)
  BY <1>3, <1>4, <1>5, <1>6, TimerTypes
<1>8. QED
  BY <1>2, <1>3, <1>4, <1>5, <1>7

\* A one-shot timer calls back, no earlier than it is due.
LEMMA ExpireOnceEarly ==
  ASSUME SleepInv, NotEarly, shared # "started", Expire, ExpireOnce(Current)
  PROVE  /\ NotEarly' /\ Running' = Running \ {Current}
         /\ due[Current] <= 0 /\ timeout_periodic[Current] = 0 /\ Leaves(Current)
<1>1. PICK t \in Timer : /\ t = Current /\ t \in Timers(chain) /\ t \in Running
                         /\ due[t] <= Slack(t)
  BY CurrentDue
<1>2. ExpireOnce(t) /\ timeout_periodic[t] = 0 /\ Forget(t)
  BY <1>1 DEF ExpireOnce
<1>3. due[t] <= 0
  BY <1>1, <1>2 DEF Slack
<1>4. SleepTypes /\ SleepTypes' /\ Distinct(chain)
  BY ExpireSleep DEF SleepInv, OncePlanned
<1>5. /\ \A u, m : Plans(chain', u, m) <=> Plans(chain, u, m) /\ u # t
      /\ Timers(chain') = Timers(chain) \ {t}
  BY <1>1, <1>2, <1>4, OnceIs
<1>6. UNCHANGED <<counter, last_delta_update_count, creating>>
  BY DEF Expire, rtcc
<1>7. NonePlannedEarly'
  <2>1. Elapsed' = Elapsed
    BY <1>6 DEF Elapsed
  <2>2. \A u \in Timer : u # t => due'[u] = due[u] /\ Slack(u)' = Slack(u)
    BY <1>2, <1>4, ForgetIs
  <2>3. ASSUME NEW u, NEW n, Plans(chain', u, n) PROVE n - Elapsed' >= due'[u] - Slack(u)'
    <3>1. Plans(chain, u, n) /\ u # t
      BY <1>5, <2>3
    <3>2. u \in Timer
      BY <1>4, <3>1, PlansTypes DEF SleepTypes
    <3>3. n - Elapsed >= due[u] - Slack(u)
      BY <3>1 DEF NotEarly, NonePlannedEarly
    <3>4. QED
      BY <2>1, <2>2, <3>1, <3>2, <3>3
  <2>4. QED
    BY <2>3 DEF NonePlannedEarly
<1>8. NotEarly' /\ Running' = Running \ {t}
  BY <1>1, <1>2, <1>4, <1>5, <1>6, <1>7, OthersEarly
<1>9. Leaves(t)
  BY <1>1, <1>2, ForgetLeaves
<1>10. QED
  BY <1>1, <1>2, <1>3, <1>8, <1>9

\* A periodic timer that has called back: what is kept of it.
Recurs(t) ==
  /\ timeout_periodic[t] # 0
  /\ due' = [due EXCEPT ![t] = @ + timeout_periodic[t]]
  /\ timeout_expected_tc' = [timeout_expected_tc EXCEPT ![t] = (@ + timeout_periodic[t]) % Width]
  /\ UNCHANGED timeout_periodic

\* A period later, it is expected a period later.
LEMMA RecursExpected ==
  ASSUME SleepTypes, NEW t \in Timer, ExpectedWhenDue(t), Recurs(t), counter' = counter
  PROVE  ExpectedWhenDue(t)'
<1>1. PICK x \in 0..(Width - 1) : x = timeout_expected_tc[t]
  BY CorrectionTypes
<1>2. PICK d \in Int : d = due[t]
  BY TimerTypes
<1>3. PICK n \in Nat : n = timeout_periodic[t]
  BY TimerTypes
<1>4. timeout_expected_tc'[t] = (x + n) % Width /\ due'[t] = d + n
  BY <1>1, <1>2, <1>3 DEF Recurs, SleepTypes
<1>5. PICK c \in Int : c = counter
  BY TimerTypes
<1>6. \E k \in Int : x = c + d + Width * k
  BY <1>1, <1>2, <1>5 DEF ExpectedWhenDue
<1>7. \E k \in Int : (x + n) % Width = c + (d + n) + Width * k
  BY <1>6, ExpectedLater
<1>8. QED
  BY <1>4, <1>5, <1>7 DEF ExpectedWhenDue

\* A periodic timer calls back and is planned for the rest of its period.
LEMMA ExpirePeriodicEarly ==
  ASSUME SleepInv, NotEarly, shared # "started", Expire, ExpirePeriodic(Current)
  PROVE  /\ NotEarly' /\ Running' = Running
         /\ due[Current] <= 1 /\ Recurs(Current)
<1>1. PICK t \in Timer : /\ t = Current /\ t \in Timers(chain) /\ t \in Running
                         /\ due[t] <= Slack(t)
  BY CurrentDue
<1>2. ExpirePeriodic(t) /\ Recurs(t)
  BY <1>1 DEF ExpirePeriodic, Recurs
<1>3. SleepTypes /\ SleepTypes' /\ Distinct(chain)
  BY ExpireSleep DEF SleepInv, OncePlanned
<1>4. Elapsed \in 0..1
  BY CurrentDue
<1>5. UNCHANGED <<counter, last_delta_update_count, creating>>
  BY DEF Expire, rtcc
<1>6. Elapsed' = Elapsed
  BY <1>5 DEF Elapsed
<1>7. due[t] \in Int /\ due[t] <= 1 /\ timeout_periodic[t] \in Nat /\ Slack(t) = 1
  BY <1>1, <1>2, <1>3, TimerTypes DEF Recurs, Slack
<1>8. /\ due'[t] = due[t] + timeout_periodic[t]
      /\ \A u \in Timer : u # t => due'[u] = due[u] /\ timeout_expected_tc'[u] = timeout_expected_tc[u]
      /\ \A u : Slack(u)' = Slack(u)
      /\ timeout_periodic' = timeout_periodic
  BY <1>2, <1>3 DEF Recurs, SleepTypes, Slack
<1>9. ExpectedWhenDue(t)
  BY <1>1, <1>2 DEF Recurs, NotEarly
<1>10. Correction(t) <= -due[t] /\ Correction(t) \in Int
  BY <1>3, <1>7, <1>9, CorrectionIs, CorrectionTypes
<1>11. /\ Timers(chain') = Timers(chain)
       /\ \/ Correction(t) > timeout_periodic[t] /\ chain' = chain
          \/ /\ ~(Correction(t) > timeout_periodic[t])
             /\ \E ticks \in Timeout(t, timeout_periodic[t] - Correction(t)) :
                  \A u, m : Plans(chain', u, m) <=> \/ Plans(chain, u, m) /\ u # t
                                                    \/ u = t /\ m = ticks
  BY <1>1, <1>2, <1>3, PeriodicIs
<1>12. ASSUME NEW u, NEW n, Plans(chain, u, n), u # t
       PROVE  n - Elapsed' >= due'[u] - Slack(u)'
  <2>1. u \in Timer
    BY <1>3, <1>12, PlansTypes DEF SleepTypes
  <2>2. n - Elapsed >= due[u] - Slack(u)
    BY <1>12 DEF NotEarly, NonePlannedEarly
  <2>3. QED
    BY <1>6, <1>8, <1>12, <2>1, <2>2
<1>13. ASSUME NEW n, Plans(chain', t, n) PROVE n - Elapsed' >= due'[t] - Slack(t)'
  <2>1. CASE Correction(t) > timeout_periodic[t] /\ chain' = chain
    <3>1. n \in Nat
      BY <1>3, <1>13, <2>1, PlansTypes DEF SleepTypes
    <3>2. due'[t] <= -1
      BY <1>7, <1>8, <1>10, <2>1
    <3>3. QED
      BY <1>4, <1>6, <1>7, <1>8, <3>1, <3>2
  <2>2. CASE ~(Correction(t) > timeout_periodic[t])
    <3>1. PICK ticks \in Timeout(t, timeout_periodic[t] - Correction(t)) : n = ticks
      BY <1>11, <1>13, <2>2
    <3>2. timeout_periodic[t] - Correction(t) \in Nat
      BY <1>7, <1>10, <2>2
    <3>3. ticks \in Nat /\ ticks >= timeout_periodic[t] - Correction(t)
      BY <3>2, TicksTypes
    <3>4. QED
      BY <1>4, <1>6, <1>7, <1>8, <1>10, <3>1, <3>3
  <2>3. QED
    BY <1>11, <2>1, <2>2
<1>14. NonePlannedEarly'
  <2>1. ASSUME NEW u, NEW n, Plans(chain', u, n), u # t PROVE Plans(chain, u, n)
    BY <1>11, <2>1
  <2>2. QED
    BY <1>12, <1>13, <2>1 DEF NonePlannedEarly
<1>15. Running' = Running
  <2>1. /\ creating = Idle => Running = Timers(chain)
        /\ creating # Idle => Running = Timers(chain) \cup {creating.timer}
    BY <1>3, RunningIs
  <2>2. /\ creating = Idle => Running' = Timers(chain')
        /\ creating # Idle => Running' = Timers(chain') \cup {creating.timer}
    BY <1>3, <1>5, RunningNext DEF Idle
  <2>3. QED
    BY <1>11, <2>1, <2>2
<1>16. ASSUME creating' # Idle PROVE creating'.timeout >= due'[creating'.timer]
  <2>1. creating # Idle /\ creating' = creating
    BY <1>5, <1>16 DEF Idle
  <2>2. creating.timer \in Timer /\ creating.timer # t
    BY <1>1, <1>3, <2>1, CreatingIs DEF SleepInv, OncePlanned
  <2>3. due'[creating.timer] = due[creating.timer]
    BY <1>8, <2>2
  <2>4. QED
    BY <2>1, <2>3 DEF NotEarly
<1>17. ASSUME NEW u \in Running', timeout_periodic'[u] # 0 PROVE ExpectedWhenDue(u)'
  <2>1. u \in Running /\ u \in Timer /\ timeout_periodic[u] # 0
    BY <1>3, <1>8, <1>15, <1>17, RunningIs
  <2>2. ExpectedWhenDue(u)
    BY <2>1 DEF NotEarly
  <2>3. CASE u = t
    BY <1>2, <1>3, <1>5, <1>9, <2>3, RecursExpected
  <2>4. CASE u # t
    BY <1>5, <1>8, <2>1, <2>2, <2>4, StillExpected
  <2>5. QED
    BY <2>3, <2>4
<1>18. QED
  BY <1>1, <1>2, <1>7, <1>14, <1>15, <1>16, <1>17 DEF NotEarly

-----------------------------------------------------------------------------
(* The refinement of Timers.                                               *)

\* At the start no timer runs.
LEMMA InitEarly == Init => NotEarly /\ T!Init
<1> SUFFICES ASSUME Init PROVE NotEarly /\ T!Init
  OBVIOUS
<1>1. SleepInv /\ SleepTypes
  BY InitSleep DEF SleepInv
<1>2. /\ chain = <<>> /\ creating = Idle
      /\ timeout_periodic = [t \in Timer |-> 0] /\ due = [t \in Timer |-> 0]
  BY DEF Init
<1>3. Timers(chain) = {} /\ \A t, n : ~Plans(chain, t, n)
  <2>1. Len(chain) = 0
    BY <1>2
  <2>2. QED
    BY <2>1 DEF Timers, Plans
<1>4. Running = {}
  BY <1>1, <1>2, <1>3, RunningIs
<1>5. NotEarly
  BY <1>2, <1>3, <1>4 DEF NotEarly, NonePlannedEarly
<1>6. QED
  BY <1>2, <1>4, <1>5 DEF T!Init

\* As long as no handle is shared, every step is a step of the specification of the
\* timers, or changes nothing there.
LEMMA NextTimers ==
  ASSUME SleepInv, NotEarly, [Next]_vars, shared' = "no"
  PROVE  NotEarly' /\ [T!Next]_(T!vars)
<1>0. SleepTypes /\ shared = "no"
  BY SharedStays DEF SleepInv
<1>1. ASSUME NEW t \in Timer, NEW timeout \in Timeouts, NEW again \in BOOLEAN,
             NEW every, every = IF again THEN timeout ELSE 0,
             StartTimer(t, timeout, every) \/ CallbackStarts(t, timeout, every)
      PROVE  NotEarly' /\ T!Next
  <2>1. every \in {0, timeout}
    BY <1>1
  <2>2. NotEarly' /\ Running' = Running \cup {t} /\ t \notin Running
    BY <1>1, <2>1, StartEarly, CallbackStartEarly
  <2>3. Prepare(t, timeout, every)
    BY <1>1 DEF StartTimer, CallbackStarts
  <2>4. T!Start(t, timeout, IF again THEN timeout ELSE 0)
    BY <1>1, <2>2, <2>3 DEF T!Start, Prepare
  <2>5. QED
    BY <1>1, <2>2, <2>4 DEF T!Next
<1>2. ASSUME NEW t \in Timer, StopTimer(t) PROVE NotEarly' /\ T!Next
  <2>1. NotEarly' /\ t \in Running /\ Running' = Running \ {t} /\ Leaves(t)
    BY <1>0, <1>2, StopEarly
  <2>2. T!Stop(t)
    BY <2>1 DEF T!Stop, T!Leave, Leaves
  <2>3. QED
    BY <2>1, <2>2 DEF T!Next
<1>3. CASE Expire
  <2>1. PICK t \in Timer : t = Current /\ t \in Running
    BY <1>3, CurrentDue
  <2>2. CASE ExpireOnce(t)
    <3>1. /\ NotEarly' /\ Running' = Running \ {t}
          /\ due[t] <= 0 /\ timeout_periodic[t] = 0 /\ Leaves(t)
      BY <1>0, <1>3, <2>1, <2>2, ExpireOnceEarly
    <3>2. T!CallOnce(t)
      BY <2>1, <3>1 DEF T!CallOnce, T!Leave, Leaves
    <3>3. QED
      BY <3>1, <3>2 DEF T!Next
  <2>3. CASE ExpirePeriodic(t)
    <3>1. /\ NotEarly' /\ Running' = Running
          /\ due[t] <= 1 /\ Recurs(t)
      BY <1>0, <1>3, <2>1, <2>3, ExpirePeriodicEarly
    <3>2. T!CallAgain(t)
      BY <2>1, <3>1 DEF T!CallAgain, Recurs
    <3>3. QED
      BY <3>1, <3>2 DEF T!Next
  <2>4. QED
    BY <1>3, <2>1, <2>2, <2>3 DEF Expire
<1>4. CASE Tick
  <2>1. /\ NotEarly' /\ Running' = Running
        /\ due' = [t \in Timer |-> IF t \in Running THEN due[t] - 1 ELSE 0]
        /\ UNCHANGED timeout_periodic
    BY <1>4, TickEarly
  <2>2. T!Pass
    BY <2>1 DEF T!Pass
  <2>3. QED
    BY <2>1, <2>2 DEF T!Next
<1>5. CASE EnlistTimer
  BY <1>5, EnlistEarly DEF T!vars
<1>6. CASE RTCC_IRQHandler
  <2>1. UNCHANGED <<counter, timeout_periodic, timeout_expected_tc, creating, due>>
    BY <1>6 DEF RTCC_IRQHandler
  <2>2. SleepTypes' /\ Refreshed
    BY <1>6, IrqSleep DEF SleepInv
  <2>3. QED
    BY <2>1, <2>2, RefreshEarly DEF T!vars
<1>7. CASE CallbackReturns
  <2>1. UNCHANGED <<counter, timeout_periodic, timeout_expected_tc, creating, due>>
    BY <1>7 DEF CallbackReturns, rtcc
  <2>2. SleepTypes' /\ Refreshed
    BY <1>7, ReturnSleep DEF SleepInv
  <2>3. QED
    BY <2>1, <2>2, RefreshEarly DEF T!vars
<1>8. CASE HandlerEnds
  <2>1. UNCHANGED <<counter, chain, last_delta_update_count, timeout_periodic,
                    timeout_expected_tc, creating, due>>
    BY <1>8 DEF HandlerEnds
  <2>2. QED
    BY <2>1, EndEarly DEF T!vars
<1>9. CASE Aside \/ UNCHANGED vars
  <2>1. UNCHANGED <<counter, chain, last_delta_update_count, timeout_periodic,
                    timeout_expected_tc, creating, due>>
    BY <1>9, AsideIs
  <2>2. QED
    BY <2>1, EndEarly DEF T!vars
<1>10. ASSUME NEW t \in Timer, StopUnlisted(t) PROVE NotEarly' /\ UNCHANGED T!vars
  <2>1. UNCHANGED <<counter, timeout_periodic, timeout_expected_tc, creating, due>>
    BY <1>10 DEF StopUnlisted, rtcc
  <2>2. SleepTypes' /\ Refreshed
    BY <1>10, StopUnlistedSleep DEF SleepInv
  <2>3. QED
    BY <2>1, <2>2, RefreshEarly DEF T!vars
<1>11. QED
  BY <1>1, <1>2, <1>3, <1>4, <1>5, <1>6, <1>7, <1>8, <1>9, <1>10 DEF Next, Aside

\* Up to the first handle that the thread and a callback share, the sleep timer keeps its
\* promise to its callers, whatever the counter's width, the timers, their timeouts, and
\* however late the interrupts are handled.
THEOREM PromiseKept == Spec => TimersKept
<1> DEFINE Inv == (shared # "spoiled" => SleepInv) /\ (shared = "no" => NotEarly)
           Kept == T!Next \/ shared' # "no"
<1>1. Init => Inv /\ T!Init
  BY InitSleep, InitEarly
<1>2. ASSUME Inv, [Next]_vars PROVE Inv' /\ [Kept]_(T!vars)
  <2>1. shared' # "spoiled" => SleepInv'
    BY <1>2, SharedStays, NextSleep
  <2>2. CASE shared' = "no"
    BY <1>2, <2>1, <2>2, SharedStays, NextTimers
  <2>3. CASE shared' # "no"
    BY <2>1, <2>3
  <2>4. QED
    BY <2>2, <2>3
<1> HIDE DEF Inv
<1>3. QED
  BY <1>1, <1>2, PTL DEF Spec, TimersKept

-----------------------------------------------------------------------------
(* No callback is planned late.                                            *)

\* The counter is wider than the timeouts and what a timer may be late.
TimeScale ==
  /\ \A n \in Timeouts \cup {RestoreDelay} : n + MaxLate + 3 <= Width
  /\ 2 * MaxLate + 2 <= Width

\* Ticks the fast clock may add.
Rest(t) == IF t \in HfTimers THEN RestoreDelay ELSE 0

PlanIsInTime(t, n) ==
  /\ n + MaxLate + 2 <= Width
  /\ n > Elapsed => n - Elapsed <= due[t] + Latency + Rest(t)

NotLate ==
  /\ \A t, n : Plans(chain, t, n) => PlanIsInTime(t, n)
  /\ creating # Idle => creating.timeout <= due[creating.timer] + waited
  /\ \A t \in Running : due[t] >= -MaxLate

\* The numbers of the bounds.
LEMMA RestTypes ==
  /\ \A t : Rest(t) \in Nat
  /\ Latency \in Nat /\ MaxLate \in Nat /\ RestoreDelay \in Nat /\ Width \in Nat
BY TimeTypes, TimeoutTypes DEF Rest

\* A timer enlisted with a timeout that is at most an interrupt's time late.
LEMMA TicksInTime ==
  ASSUME TimeScale, NEW t, NEW timeout \in Nat, timeout + MaxLate + 2 <= Width,
         NEW ticks \in Timeout(t, timeout), NEW d \in Int, timeout <= d + Latency,
         NEW e \in Nat
  PROVE  ticks + MaxLate + 2 <= Width /\ (ticks > e => ticks - e <= d + Latency + Rest(t))
<1>1. ticks \in Nat /\ (ticks = timeout \/ (t \in HfTimers /\ ticks = RestoreDelay))
  BY TicksTypes
<1>2. RestoreDelay + MaxLate + 3 <= Width
  BY DEF TimeScale
<1>3. CASE ticks = timeout
  BY <1>1, <1>3, RestTypes
<1>4. CASE t \in HfTimers /\ ticks = RestoreDelay
  <2>1. Rest(t) = RestoreDelay
    BY <1>4 DEF Rest
  <2>2. d + Latency >= 0
    BY RestTypes
  <2>3. QED
    BY <1>1, <1>2, <1>4, <2>1, <2>2, RestTypes
<1>5. QED
  BY <1>1, <1>3, <1>4

\* What an update takes off keeps a plan in time.
LEMMA ClippedInTime ==
  ASSUME SleepTypes, NEW t \in Timer, NEW k \in Nat, PlanIsInTime(t, k), Elapsed' = 0,
         due'[t] = due[t], NEW n, n = Clipped(k, Elapsed)
  PROVE  PlanIsInTime(t, n)'
<1>1. Elapsed \in Nat /\ due[t] \in Int
  BY ElapsedTypes, TimerTypes DEF SleepTypes
<1>2. /\ n \in Nat /\ n <= k
      /\ n > 0 => k > Elapsed /\ n = k - Elapsed
  BY <1>1, ClippedIs
<1>3. n + MaxLate + 2 <= Width
  BY <1>2, RestTypes DEF PlanIsInTime
<1>4. ASSUME n > 0 PROVE n - 0 <= due[t] + Latency + Rest(t)
  BY <1>1, <1>2, <1>4, RestTypes DEF PlanIsInTime
<1>5. n > Elapsed' => n - Elapsed' <= due'[t] + Latency + Rest(t)
  BY <1>4
<1>6. QED
  BY <1>3, <1>5 DEF PlanIsInTime, Rest

\* A timer is prepared.
LEMMA StartLate ==
  ASSUME SleepInv, NotEarly, NotLate, NEW t \in Timer, NEW timeout \in Timeouts,
         NEW every \in {0, timeout}, StartTimer(t, timeout, every), shared' # "spoiled"
  PROVE  NotLate'
<1>1. /\ t \notin Listed /\ creating = Idle
      /\ Prepare(t, timeout, every)
      /\ creating' = [timer |-> t, timeout |-> timeout]
      /\ UNCHANGED <<counter, chain, last_delta_update_count, waited>>
  BY DEF StartTimer, rtcc
<1>2. SleepTypes
  BY DEF SleepInv
<1>3. /\ due'[t] = timeout
      /\ \A u \in Timer : u # t => due'[u] = due[u]
  BY <1>1, <1>2, PrepareEarly
<1>4. Running = Timers(chain) /\ Running \subseteq Timer
  BY <1>1, <1>2, RunningIs
<1>5. Running' = Running \cup {t} /\ t \notin Running
  BY StartEarly
<1>6. Elapsed' = Elapsed
  BY <1>1 DEF Elapsed
<1>7. ASSUME NEW u, NEW n, Plans(chain', u, n) PROVE PlanIsInTime(u, n)'
  <2>1. Plans(chain, u, n)
    BY <1>1, <1>7
  <2>2. u \in Timer /\ u # t
    BY <1>2, <1>4, <1>5, <2>1, PlansTypes DEF SleepTypes
  <2>3. PlanIsInTime(u, n)
    BY <2>1 DEF NotLate
  <2>4. QED
    BY <1>3, <1>6, <2>2, <2>3 DEF PlanIsInTime, Rest
<1>8. creating'.timeout <= due'[creating'.timer] + waited'
  <2>1. creating'.timer = t /\ creating'.timeout = timeout /\ timeout \in Nat /\ waited \in Nat
    BY <1>1, <1>2, TimeoutTypes, RestTypes DEF SleepTypes
  <2>2. QED
    BY <1>1, <1>3, <2>1
<1>9. ASSUME NEW u \in Running' PROVE due'[u] >= -MaxLate
  <2>1. CASE u = t
    BY <1>3, <2>1, TimeoutTypes
  <2>2. CASE u # t
    BY <1>3, <1>4, <1>5, <1>9, <2>2 DEF NotLate
  <2>3. QED
    BY <2>1, <2>2
<1>10. QED
  BY <1>7, <1>8, <1>9 DEF NotLate

\* The plans after a timer was enlisted.
LEMMA EnlistedLate ==
  ASSUME SleepTypes, NotLate, TimeScale, NEW t \in Timer, NEW timeout \in Timeouts,
         NEW ticks \in Timeout(t, timeout), Enlisted(t, ticks), counter' = counter,
         \A u \in Timer : u # t => due'[u] = due[u],
         t \notin Timers(chain),
         due'[t] \in Int, timeout <= due'[t] + Latency
  PROVE  \A u, n : Plans(chain', u, n) => PlanIsInTime(u, n)'
<1>1. /\ last_delta_update_count' = counter
      /\ \A u, m : Plans(chain', u, m) <=>
           \/ u = t /\ m = ticks
           \/ \E k \in Nat : Plans(chain, u, k) /\ m = Clipped(k, Elapsed)
  BY DEF Enlisted
<1>2. Elapsed' = 0
  BY <1>1, NothingElapsed
<1>3. timeout \in Nat /\ timeout + MaxLate + 2 <= Width
  BY TimeoutTypes, RestTypes DEF TimeScale
<1>4. /\ ticks + MaxLate + 2 <= Width
      /\ ticks > 0 => ticks - 0 <= due'[t] + Latency + Rest(t)
  <2>1. PICK d \in Int : d = due'[t] /\ timeout <= d + Latency
    OBVIOUS
  <2>2. 0 \in Nat
    OBVIOUS
  <2>3. ticks + MaxLate + 2 <= Width /\ (ticks > 0 => ticks - 0 <= d + Latency + Rest(t))
    BY <1>3, <2>1, <2>2, TicksInTime
  <2>4. QED
    BY <2>1, <2>3
<1>5. ASSUME NEW u, NEW n, Plans(chain', u, n) PROVE PlanIsInTime(u, n)'
  <2>1. CASE u = t
    <3>1. n = ticks
      <4>1. ASSUME NEW k \in Nat, Plans(chain, u, k) PROVE FALSE
        BY <2>1, <4>1, PlansTypes DEF SleepTypes
      <4>2. QED
        BY <1>1, <1>5, <4>1
    <3>2. QED
      BY <1>2, <1>4, <2>1, <3>1 DEF PlanIsInTime, Rest
  <2>2. CASE u # t
    <3>1. PICK k \in Nat : Plans(chain, u, k) /\ n = Clipped(k, Elapsed)
      BY <1>1, <1>5, <2>2
    <3>2. PlanIsInTime(u, k)
      BY <3>1 DEF NotLate
    <3>3. u \in Timer /\ due'[u] = due[u]
      BY <2>2, <3>1, PlansTypes DEF SleepTypes
    <3>4. QED
      BY <1>2, <3>1, <3>2, <3>3, ClippedInTime
  <2>3. QED
    BY <2>1, <2>2
<1>6. QED
  BY <1>5

\* It goes into the list, late by the interrupt that came in between.
LEMMA EnlistLate ==
  ASSUME SleepInv, NotEarly, NotLate, TimeScale, EnlistTimer, shared' # "spoiled"
  PROVE  NotLate'
<1>1. /\ creating # Idle /\ creating' = Idle /\ shared # "started"
      /\ Enlist(creating.timer, creating.timeout)
      /\ UNCHANGED <<counter, due, waited>>
  BY DEF EnlistTimer
<1>2. SleepTypes
  BY DEF SleepInv
<1>3. PICK t \in Timer : t = creating.timer
  BY <1>1, <1>2, CreatingIs
<1>4. PICK timeout \in Timeouts : timeout = creating.timeout /\ timeout \in Nat
  BY <1>1, <1>2, CreatingIs
<1>5. t \notin Timers(chain)
  BY <1>1, <1>3 DEF SleepInv, OncePlanned
<1>6. PICK ticks \in Timeout(t, timeout) : Enlisted(t, ticks)
  BY <1>1, <1>2, <1>3, <1>4, <1>5, EnlistIs
<1>7. due'[t] \in Int /\ timeout <= due'[t] + Latency
  <2>1. due[t] \in Int /\ waited \in 0..Latency
    BY <1>2, TimerTypes DEF SleepTypes
  <2>2. timeout <= due[t] + waited
    BY <1>1, <1>3, <1>4 DEF NotLate
  <2>3. QED
    BY <1>1, <1>4, <2>1, <2>2, RestTypes
<1>8. \A u, n : Plans(chain', u, n) => PlanIsInTime(u, n)'
  <2>1. counter' = counter /\ \A u \in Timer : u # t => due'[u] = due[u]
    BY <1>1
  <2>2. QED
    BY <1>2, <1>5, <1>6, <1>7, <2>1, EnlistedLate
<1>9. Running' = Running
  BY EnlistEarly
<1>10. QED
  BY <1>1, <1>8, <1>9 DEF NotLate, Idle

\* A callback starts a timer.
LEMMA CallbackStartLate ==
  ASSUME SleepInv, NotEarly, NotLate, TimeScale, NEW t \in Timer, NEW timeout \in Timeouts,
         NEW every \in {0, timeout}, CallbackStarts(t, timeout, every), shared' = "no"
  PROVE  NotLate'
<1>1. /\ t \notin Listed /\ t # creating.timer
      /\ Prepare(t, timeout, every)
      /\ Enlist(t, timeout)
      /\ UNCHANGED <<counter, creating, waited>>
  BY DEF CallbackStarts
<1>2. SleepTypes
  BY DEF SleepInv
<1>3. /\ due'[t] = timeout
      /\ \A u \in Timer : u # t => due'[u] = due[u]
  BY <1>1, <1>2, PrepareEarly
<1>4. timeout \in Nat
  BY TimeoutTypes
<1>5. t \notin Timers(chain)
  BY <1>1, <1>2, ListedTimers DEF SleepTypes
<1>6. PICK ticks \in Timeout(t, timeout) : Enlisted(t, ticks)
  BY <1>1, <1>2, <1>4, <1>5, EnlistIs
<1>7. Running \subseteq Timer
  BY <1>2, RunningIs
<1>8. Running' = Running \cup {t}
  BY CallbackStartEarly
<1>9. \A u, n : Plans(chain', u, n) => PlanIsInTime(u, n)'
  <2>1. due'[t] \in Int /\ timeout <= due'[t] + Latency
    BY <1>3, <1>4, RestTypes
  <2>2. QED
    BY <1>1, <1>2, <1>3, <1>5, <1>6, <2>1, EnlistedLate
<1>10. ASSUME creating' # Idle PROVE creating'.timeout <= due'[creating'.timer] + waited'
  <2>1. creating # Idle /\ creating' = creating
    BY <1>1, <1>10 DEF Idle
  <2>2. creating.timer \in Timer
    BY <1>2, <2>1, CreatingIs
  <2>3. due'[creating.timer] = due[creating.timer]
    BY <1>1, <1>3, <2>1, <2>2
  <2>4. QED
    BY <1>1, <2>1, <2>3 DEF NotLate
<1>11. ASSUME NEW u \in Running' PROVE due'[u] >= -MaxLate
  <2>1. CASE u = t
    BY <1>3, <2>1, TimeoutTypes
  <2>2. CASE u # t
    BY <1>3, <1>7, <1>8, <1>11, <2>2 DEF NotLate
  <2>3. QED
    BY <2>1, <2>2
<1>12. QED
  BY <1>9, <1>10, <1>11 DEF NotLate

\* The other timers stay in time when one has left.
LEMMA OthersLate ==
  ASSUME SleepInv, NotLate, NEW t \in Timer, Forget(t),
         Running' = Running \ {t}, creating' = creating, waited' = waited,
         creating # Idle => creating.timer # t
  PROVE  /\ creating' # Idle => creating'.timeout <= due'[creating'.timer] + waited'
         /\ \A u \in Running' : due'[u] >= -MaxLate
<1>1. SleepTypes /\ Running \subseteq Timer
  BY RunningIs DEF SleepInv
<1>2. \A u \in Timer : u # t => due'[u] = due[u]
  BY <1>1, ForgetIs
<1>3. ASSUME creating' # Idle PROVE creating'.timeout <= due'[creating'.timer] + waited'
  <2>1. creating # Idle
    BY <1>3 DEF Idle
  <2>2. due'[creating.timer] = due[creating.timer]
    BY <1>1, <1>2, <2>1, CreatingIs
  <2>3. QED
    BY <2>1, <2>2 DEF NotLate
<1>4. QED
  BY <1>1, <1>2, <1>3 DEF NotLate

\* A timer is stopped.
LEMMA StopLate ==
  ASSUME SleepInv, NotEarly, NotLate, shared # "started", NEW t \in Timer, StopTimer(t)
  PROVE  NotLate'
<1>1. Forget(t) /\ UNCHANGED <<counter, creating, waited>>
  BY DEF StopTimer
<1>2. t \in Timers(chain) /\ Stopped(t)
  BY StopIs DEF SleepInv, OncePlanned
<1>3. SleepTypes
  BY DEF SleepInv
<1>4. /\ last_delta_update_count' = counter
      /\ \A u, m : Plans(chain', u, m) <=>
           u # t /\ \E k \in Nat : Plans(chain, u, k) /\ m = Clipped(k, Elapsed)
  BY <1>2 DEF Stopped
<1>5. Elapsed' = 0
  BY <1>1, <1>3, <1>4, NothingElapsed
<1>6. ASSUME NEW u, NEW n, Plans(chain', u, n) PROVE PlanIsInTime(u, n)'
  <2>1. PICK k \in Nat : u # t /\ Plans(chain, u, k) /\ n = Clipped(k, Elapsed)
    BY <1>4, <1>6
  <2>2. PlanIsInTime(u, k) /\ u \in Timer
    BY <1>3, <2>1, PlansTypes DEF NotLate, SleepTypes
  <2>3. due'[u] = due[u]
    BY <1>1, <1>3, <2>1, <2>2, ForgetIs
  <2>4. QED
    BY <1>3, <1>5, <2>1, <2>2, <2>3, ClippedInTime
<1>7. Running' = Running \ {t}
  BY StopEarly
<1>8. creating # Idle => creating.timer # t
  BY <1>2 DEF SleepInv, OncePlanned
<1>9. /\ creating' # Idle => creating'.timeout <= due'[creating'.timer] + waited'
      /\ \A u \in Running' : due'[u] >= -MaxLate
  BY <1>1, <1>7, <1>8, OthersLate
<1>10. QED
  BY <1>6, <1>9 DEF NotLate

\* The steps that only update the list.
LEMMA RefreshLate ==
  ASSUME SleepInv, NotEarly, NotLate, SleepTypes', Refreshed,
         UNCHANGED <<counter, timeout_periodic, timeout_expected_tc, creating, due>>,
         creating # Idle => waited' = waited
  PROVE  NotLate'
<1>1. SleepTypes
  BY DEF SleepInv
<1>2. /\ last_delta_update_count' = counter
      /\ \A u, m : Plans(chain', u, m) <=>
           \E k \in Nat : Plans(chain, u, k) /\ m = Clipped(k, Elapsed)
  BY DEF Refreshed
<1>3. Elapsed' = 0
  BY <1>1, <1>2, NothingElapsed
<1>4. ASSUME NEW u, NEW n, Plans(chain', u, n) PROVE PlanIsInTime(u, n)'
  <2>1. PICK k \in Nat : Plans(chain, u, k) /\ n = Clipped(k, Elapsed)
    BY <1>2, <1>4
  <2>2. PlanIsInTime(u, k) /\ u \in Timer
    BY <1>1, <2>1, PlansTypes DEF NotLate, SleepTypes
  <2>3. due'[u] = due[u]
    OBVIOUS
  <2>4. QED
    BY <1>1, <1>3, <2>1, <2>2, <2>3, ClippedInTime
<1>5. Running' = Running
  BY RefreshEarly
<1>6. creating' # Idle => creating'.timeout <= due'[creating'.timer] + waited'
  BY DEF NotLate, Idle
<1>7. \A u \in Running' : due'[u] >= -MaxLate
  BY <1>5 DEF NotLate
<1>8. QED
  BY <1>4, <1>6, <1>7 DEF NotLate

\* A step that touches none of this.
LEMMA EndLate ==
  ASSUME NotLate,
         UNCHANGED <<counter, chain, last_delta_update_count, creating, due>>,
         creating # Idle => waited' = waited
  PROVE  NotLate'
<1>1. Running' = Running
  BY DEF Running, Listed
<1>2. \A u, n : PlanIsInTime(u, n)' <=> PlanIsInTime(u, n)
  BY DEF PlanIsInTime, Elapsed, Rest
<1>3. QED
  BY <1>1, <1>2 DEF NotLate, Idle

\* A tick leaves what remains to the plan and to its timer in step; what has elapsed
\* does not start over while a timer waits, for no timer is that late.
LEMMA TickLate ==
  ASSUME SleepInv, NotEarly, NotLate, TimeScale, Tick
  PROVE  NotLate'
<1>1. SleepTypes
  BY DEF SleepInv
<1>2. /\ Elapsed' \in Nat
      /\ Elapsed' = Elapsed + 1 \/ (Elapsed = Width - 1 /\ Elapsed' = 0)
      /\ UNCHANGED <<chain, creating>>
      /\ Running' = Running
      /\ due' = [t \in Timer |-> IF t \in Running THEN due[t] - 1 ELSE 0]
  BY <1>1, TickIs
<1>3. /\ \A t \in Running : due[t] > -MaxLate
      /\ creating # Idle => waited' = waited + 1
  BY DEF Tick
<1>4. /\ Running \subseteq Timer
      /\ creating = Idle => Running = Timers(chain)
      /\ creating # Idle => Running = Timers(chain) \cup {creating.timer}
  BY <1>1, RunningIs
<1>5. \A u \in Running : due'[u] = due[u] - 1 /\ due[u] \in Int
  BY <1>1, <1>2, <1>4, TimerTypes
<1>6. Elapsed \in Nat
  BY <1>1, ElapsedTypes DEF SleepTypes
<1>7. ASSUME NEW u, NEW n, Plans(chain', u, n) PROVE PlanIsInTime(u, n)'
  <2>1. Plans(chain, u, n) /\ u \in Running /\ u \in Timer /\ n \in Nat
    BY <1>1, <1>2, <1>4, <1>7, PlansTypes DEF SleepTypes
  <2>2. /\ n + MaxLate + 2 <= Width
        /\ n > Elapsed => n - Elapsed <= due[u] + Latency + Rest(u)
    BY <2>1 DEF NotLate, PlanIsInTime
  <2>3. n - Elapsed >= due[u] - Slack(u) /\ Slack(u) \in {0, 1}
    BY <1>1, <2>1, TimerTypes DEF NotEarly, NonePlannedEarly
  <2>4. due[u] > -MaxLate
    BY <1>3, <2>1
  <2>5. Elapsed # Width - 1
    BY <1>5, <1>6, <2>1, <2>2, <2>3, <2>4, RestTypes
  <2>6. Elapsed' = Elapsed + 1
    BY <1>2, <2>5
  <2>7. n > Elapsed' => n - Elapsed' <= due'[u] + Latency + Rest(u)
    BY <1>5, <1>6, <2>1, <2>2, <2>6, RestTypes
  <2>8. QED
    BY <2>2, <2>7 DEF PlanIsInTime, Rest
<1>8. ASSUME creating' # Idle PROVE creating'.timeout <= due'[creating'.timer] + waited'
  <2>1. creating # Idle /\ creating' = creating
    BY <1>2, <1>8 DEF Idle
  <2>2. creating.timer \in Running /\ creating.timeout \in Nat
    BY <1>1, <1>4, <2>1, CreatingIs
  <2>3. creating.timeout <= due[creating.timer] + waited
    BY <2>1 DEF NotLate
  <2>4. waited \in Int
    BY <1>1, RestTypes DEF SleepTypes
  <2>5. QED
    BY <1>3, <1>5, <2>1, <2>2, <2>3, <2>4
<1>9. \A u \in Running' : due'[u] >= -MaxLate
  BY <1>2, <1>3, <1>5, RestTypes
<1>10. QED
  BY <1>7, <1>8, <1>9 DEF NotLate

\* A one-shot timer leaves.
LEMMA ExpireOnceLate ==
  ASSUME SleepInv, NotEarly, NotLate, shared # "started", Expire, ExpireOnce(Current)
  PROVE  NotLate'
<1>1. PICK t \in Timer : t = Current /\ t \in Timers(chain)
  BY CurrentDue
<1>2. ExpireOnce(t) /\ Forget(t) /\ Running' = Running \ {t}
  <2>1. ExpireOnce(t) /\ Running' = Running \ {t}
    BY <1>1, ExpireOnceEarly
  <2>2. QED
    BY <2>1 DEF ExpireOnce
<1>3. SleepTypes /\ Distinct(chain)
  BY DEF SleepInv, OncePlanned
<1>4. \A u, m : Plans(chain', u, m) <=> Plans(chain, u, m) /\ u # t
  BY <1>1, <1>2, <1>3, OnceIs
<1>5. UNCHANGED <<counter, last_delta_update_count, creating, waited>>
  BY DEF Expire, rtcc
<1>6. Elapsed' = Elapsed
  BY <1>5 DEF Elapsed
<1>7. ASSUME NEW u, NEW n, Plans(chain', u, n) PROVE PlanIsInTime(u, n)'
  <2>1. Plans(chain, u, n) /\ u # t
    BY <1>4, <1>7
  <2>2. PlanIsInTime(u, n) /\ u \in Timer
    BY <1>3, <2>1, PlansTypes DEF NotLate, SleepTypes
  <2>3. due'[u] = due[u]
    BY <1>2, <1>3, <2>1, <2>2, ForgetIs
  <2>4. QED
    BY <1>6, <2>2, <2>3 DEF PlanIsInTime, Rest
<1>8. creating # Idle => creating.timer # t
  BY <1>1 DEF SleepInv, OncePlanned
<1>9. /\ creating' # Idle => creating'.timeout <= due'[creating'.timer] + waited'
      /\ \A u \in Running' : due'[u] >= -MaxLate
  BY <1>2, <1>5, <1>8, OthersLate
<1>10. QED
  BY <1>7, <1>9 DEF NotLate

\* A periodic timer is planned for what is left of its period, not for more.
LEMMA ExpirePeriodicLate ==
  ASSUME SleepInv, NotEarly, NotLate, TimeScale, shared # "started", Expire,
         ExpirePeriodic(Current)
  PROVE  NotLate'
<1>1. PICK t \in Timer : t = Current /\ t \in Timers(chain) /\ t \in Running
  BY CurrentDue
<1>2. /\ ExpirePeriodic(t) /\ Recurs(t) /\ due[t] <= 1 /\ Running' = Running
  BY <1>1, ExpirePeriodicEarly
<1>3. SleepTypes /\ Distinct(chain)
  BY DEF SleepInv, OncePlanned
<1>4. Elapsed \in 0..1
  BY CurrentDue
<1>5. UNCHANGED <<counter, last_delta_update_count, creating, waited>>
  BY DEF Expire, rtcc
<1>6. Elapsed' = Elapsed
  BY <1>5 DEF Elapsed
<1>7. due[t] \in Int /\ timeout_periodic[t] \in Nat /\ due[t] >= -MaxLate
  BY <1>1, <1>3, TimerTypes DEF NotLate
<1>8. /\ due'[t] = due[t] + timeout_periodic[t]
      /\ \A u \in Timer : u # t => due'[u] = due[u]
  BY <1>1, <1>2, <1>3 DEF Recurs, SleepTypes
<1>9. timeout_periodic[t] + MaxLate + 3 <= Width
  <2>1. timeout_periodic[t] \in Timeouts
    BY <1>1, <1>2, <1>3 DEF Recurs, SleepTypes
  <2>2. QED
    BY <2>1 DEF TimeScale
<1>10. Correction(t) = -due[t]
  <2>1. ExpectedWhenDue(t)
    BY <1>1, <1>2 DEF Recurs, NotEarly
  <2>2. -due[t] < Width \div 2
    BY <1>7, RestTypes DEF TimeScale
  <2>3. QED
    BY <1>1, <1>2, <1>3, <2>1, <2>2, CorrectionIs
<1>11. \/ Correction(t) > timeout_periodic[t] /\ chain' = chain
       \/ /\ ~(Correction(t) > timeout_periodic[t])
          /\ \E ticks \in Timeout(t, timeout_periodic[t] - Correction(t)) :
               \A u, m : Plans(chain', u, m) <=> \/ Plans(chain, u, m) /\ u # t
                                                 \/ u = t /\ m = ticks
  BY <1>1, <1>2, <1>3, PeriodicIs
<1>12. ASSUME NEW u, NEW n, Plans(chain, u, n), u # t PROVE PlanIsInTime(u, n)'
  <2>1. PlanIsInTime(u, n) /\ u \in Timer
    BY <1>3, <1>12, PlansTypes DEF NotLate, SleepTypes
  <2>2. QED
    BY <1>6, <1>8, <1>12, <2>1 DEF PlanIsInTime, Rest
<1>13. ASSUME NEW n, Plans(chain', t, n) PROVE PlanIsInTime(t, n)'
  <2>1. CASE Correction(t) > timeout_periodic[t] /\ chain' = chain
    <3>1. Plans(chain, t, n) /\ Plans(chain, t, 0)
      <4>1. Expired # {} /\ chain \in Items
        BY <1>3 DEF Expire, SleepTypes
      <4>2. QED
        BY <1>1, <1>13, <2>1, <4>1, CurrentIs
    <3>2. n = 0
      BY <1>3, <3>1 DEF Plans, Distinct
    <3>3. 0 + MaxLate + 2 <= Width
      BY <3>1 DEF NotLate, PlanIsInTime
    <3>4. ~(0 > Elapsed')
      BY <1>4, <1>6
    <3>5. QED
      BY <3>2, <3>3, <3>4 DEF PlanIsInTime
  <2>2. CASE ~(Correction(t) > timeout_periodic[t])
    <3>1. PICK ticks \in Timeout(t, timeout_periodic[t] - Correction(t)) : n = ticks
      BY <1>11, <1>13, <2>2
    <3>2. PICK timeout \in Nat : /\ timeout = timeout_periodic[t] - Correction(t)
                                 /\ timeout = due[t] + timeout_periodic[t]
      BY <1>7, <1>10, <2>2
    <3>3. timeout + MaxLate + 2 <= Width
      BY <1>2, <1>7, <1>9, <3>2, RestTypes
    <3>4. PICK d \in Int : d = due'[t] /\ timeout <= d + Latency
      BY <1>8, <3>2, RestTypes
    <3>5. Elapsed' \in Nat
      BY <1>4, <1>6
    <3>6. ticks + MaxLate + 2 <= Width /\ (ticks > Elapsed' => ticks - Elapsed' <= d + Latency + Rest(t))
      BY <3>1, <3>2, <3>3, <3>4, <3>5, TicksInTime
    <3>7. QED
      BY <3>1, <3>4, <3>6 DEF PlanIsInTime, Rest
  <2>3. QED
    BY <1>11, <2>1, <2>2
<1>14. ASSUME NEW u, NEW n, Plans(chain', u, n) PROVE PlanIsInTime(u, n)'
  <2>1. u # t => Plans(chain, u, n)
    BY <1>11, <1>14
  <2>2. QED
    BY <1>12, <1>13, <1>14, <2>1
<1>15. ASSUME creating' # Idle PROVE creating'.timeout <= due'[creating'.timer] + waited'
  <2>1. creating # Idle /\ creating' = creating
    BY <1>5, <1>15 DEF Idle
  <2>2. creating.timer \in Timer /\ creating.timer # t
    BY <1>1, <1>3, <2>1, CreatingIs DEF SleepInv, OncePlanned
  <2>3. due'[creating.timer] = due[creating.timer]
    BY <1>8, <2>2
  <2>4. QED
    BY <1>5, <2>1, <2>3 DEF NotLate
<1>16. ASSUME NEW u \in Running' PROVE due'[u] >= -MaxLate
  <2>1. CASE u = t
    BY <1>7, <1>8, <2>1, RestTypes
  <2>2. CASE u # t
    BY <1>2, <1>3, <1>8, <1>16, <2>2, RunningIs DEF NotLate
  <2>3. QED
    BY <2>1, <2>2
<1>17. QED
  BY <1>14, <1>15, <1>16 DEF NotLate

\* At the start nothing is planned.
LEMMA InitLate == Init => NotLate
<1> SUFFICES ASSUME Init PROVE NotLate
  OBVIOUS
<1>1. SleepTypes
  BY InitSleep DEF SleepInv
<1>2. chain = <<>> /\ creating = Idle
  BY DEF Init
<1>3. Timers(chain) = {} /\ \A t, n : ~Plans(chain, t, n)
  <2>1. Len(chain) = 0
    BY <1>2
  <2>2. QED
    BY <2>1 DEF Timers, Plans
<1>4. Running = {}
  BY <1>1, <1>2, <1>3, RunningIs
<1>5. QED
  BY <1>2, <1>3, <1>4 DEF NotLate

\* NotLate is inductive with SleepInv and NotEarly, on a wide counter, as long as no
\* handle is shared.
LEMMA NextLate ==
  ASSUME TimeScale, SleepInv, NotEarly, NotLate, [Next]_vars, shared' = "no"
  PROVE  NotLate'
<1>0. shared = "no"
  BY SharedStays
<1>1. ASSUME NEW t \in Timer, NEW timeout \in Timeouts, NEW again \in BOOLEAN,
             NEW every, every = IF again THEN timeout ELSE 0,
             StartTimer(t, timeout, every) \/ CallbackStarts(t, timeout, every)
      PROVE  NotLate'
  BY <1>1, StartLate, CallbackStartLate
<1>2. ASSUME NEW t \in Timer, StopTimer(t) PROVE NotLate'
  BY <1>0, <1>2, StopLate
<1>3. CASE Expire
  BY <1>0, <1>3, ExpireOnceLate, ExpirePeriodicLate DEF Expire
<1>4. CASE RTCC_IRQHandler
  <2>1. /\ UNCHANGED <<counter, timeout_periodic, timeout_expected_tc, creating, due>>
        /\ creating # Idle => waited' = waited
    BY <1>4 DEF RTCC_IRQHandler
  <2>2. SleepTypes' /\ Refreshed
    BY <1>4, IrqSleep DEF SleepInv
  <2>3. QED
    BY <2>1, <2>2, RefreshLate
<1>5. CASE CallbackReturns
  <2>1. UNCHANGED <<counter, timeout_periodic, timeout_expected_tc, creating, due, waited>>
    BY <1>5 DEF CallbackReturns, rtcc
  <2>2. SleepTypes' /\ Refreshed
    BY <1>5, ReturnSleep DEF SleepInv
  <2>3. QED
    BY <2>1, <2>2, RefreshLate
<1>6. CASE HandlerEnds
  <2>1. /\ UNCHANGED <<counter, chain, last_delta_update_count, creating, due>>
        /\ creating # Idle => waited' = waited
    BY <1>6 DEF HandlerEnds
  <2>2. QED
    BY <2>1, EndLate
<1>7. CASE Aside \/ UNCHANGED vars
  <2>1. UNCHANGED <<counter, chain, last_delta_update_count, creating, due, waited>>
    BY <1>7, AsideIs
  <2>2. QED
    BY <2>1, EndLate
<1>8. ASSUME NEW t \in Timer, StopUnlisted(t) PROVE NotLate'
  <2>1. UNCHANGED <<counter, timeout_periodic, timeout_expected_tc, creating, due, waited>>
    BY <1>8 DEF StopUnlisted, rtcc
  <2>2. SleepTypes' /\ Refreshed
    BY <1>8, StopUnlistedSleep DEF SleepInv
  <2>3. QED
    BY <2>1, <2>2, RefreshLate
<1>9. QED
  BY <1>1, <1>2, <1>3, <1>4, <1>5, <1>6, <1>7, <1>8, EnlistLate, TickLate DEF Next, Aside

-----------------------------------------------------------------------------
(* What the invariants give.                                               *)

\* In the list once, the timers are as many as its places.
LEMMA ListedCount ==
  ASSUME SleepTypes, Distinct(chain)
  PROVE  Cardinality(Listed) = Len(chain)
<1>1. Listed = Timers(chain) /\ Len(chain) \in Nat
  BY ListedTimers, ExpiryTypes DEF SleepTypes
<1> DEFINE f == [i \in 1..Len(chain) |-> chain[i].timer]
<1>2. f \in Bijection(1..Len(chain), Timers(chain))
  <2>1. f \in [1..Len(chain) -> Timers(chain)]
    BY DEF Timers
  <2>2. \A i, j \in 1..Len(chain) : f[i] = f[j] => i = j
    BY DEF Distinct
  <2>3. \A t \in Timers(chain) : \E i \in 1..Len(chain) : f[i] = t
    BY DEF Timers
  <2> HIDE DEF f
  <2>4. f \in Injection(1..Len(chain), Timers(chain))
    BY <2>1, <2>2, Fun_IsInj
  <2>5. f \in Surjection(1..Len(chain), Timers(chain))
    BY <2>1, <2>3, Fun_IsSurj
  <2>6. QED
    BY <2>4, <2>5 DEF Bijection
<1> HIDE DEF f
<1>3. IsFiniteSet(1..Len(chain)) /\ Cardinality(1..Len(chain)) = Len(chain)
  <2>1. PICK n \in Nat : n = Len(chain)
    BY <1>1
  <2>2. 1 \in Int /\ n \in Int /\ n = IF 1 > n THEN 0 ELSE n - 1 + 1
    BY <2>1
  <2>3. IsFiniteSet(1..n) /\ Cardinality(1..n) = n
    BY <2>2, FS_Interval
  <2>4. QED
    BY <2>1, <2>3
<1>4. Cardinality(Timers(chain)) = Len(chain)
  BY <1>2, <1>3, FS_Bijection DEF ExistsBijection
<1>5. QED
  BY <1>1, <1>4

\* The variables the timers do not depend on.
Marks ==
  /\ calling \in Timer \cup {NoTimer}
  /\ reading \in 0..(Width - 1) \cup {NoReading}
  /\ shared \in {"no", "started", "spoiled"}

LEMMA NextMarks ==
  ASSUME Marks, shared # "spoiled" => SleepTypes, [Next]_vars
  PROVE  Marks'
<1>1. ASSUME NEW t \in Timer, NEW timeout \in Timeouts, NEW every,
             StartTimer(t, timeout, every) \/ CallbackStarts(t, timeout, every)
      PROVE  Marks'
  <2>1. /\ calling' \in {calling, NoTimer} /\ reading' = reading
        /\ shared' \in {shared, "started", "spoiled"}
    BY <1>1 DEF StartTimer, CallbackStarts
  <2>2. QED
    BY <2>1 DEF Marks
<1>2. ASSUME NEW t \in Timer, StopTimer(t) \/ StopUnlisted(t) PROVE Marks'
  <2>1. /\ calling' \in {calling, NoTimer, t} /\ reading' = reading /\ shared' = shared
    BY <1>2 DEF StopTimer, StopUnlisted, MayRestart
  <2>2. QED
    BY <2>1 DEF Marks
<1>3. ASSUME NEW t \in Timer, CheckTimer(t) PROVE Marks'
  BY <1>3 DEF CheckTimer, Marks
<1>4. CASE EnlistTimer
  <2>1. calling' = calling /\ reading' = reading /\ shared' \in {shared, "spoiled"}
    BY <1>4 DEF EnlistTimer
  <2>2. QED
    BY <2>1 DEF Marks
<1>5. CASE GetTickCount64
  <2>1. calling' = calling /\ reading' = counter /\ shared' = shared /\ shared # "spoiled"
    BY <1>5 DEF GetTickCount64, Ready
  <2>2. counter \in 0..(Width - 1)
    BY <2>1 DEF SleepTypes
  <2>3. QED
    BY <2>1, <2>2 DEF Marks
<1>6. CASE TickCountReturns
  BY <1>6 DEF TickCountReturns, Marks
<1>7. CASE \/ RTCC_IRQHandler \/ Expire \/ CallbackReturns \/ HandlerEnds \/ Tick \/ Spoiled
           \/ UNCHANGED vars
  <2>1. calling' = calling /\ reading' = reading /\ shared' = shared
    BY <1>7 DEF RTCC_IRQHandler, Expire, CallbackReturns, HandlerEnds, Tick, Spoiled, vars
  <2>2. QED
    BY <2>1 DEF Marks
<1>8. QED
  BY <1>1, <1>2, <1>3, <1>4, <1>5, <1>6, <1>7 DEF Next

\* The invariants give the types.
LEMMA SleepTypeIs ==
  ASSUME SleepInv, Marks
  PROVE  Types
<1>1. SleepTypes /\ Distinct(chain)
  BY DEF SleepInv, OncePlanned
<1>2. Cardinality(Listed) = Len(chain)
  BY <1>1, ListedCount
<1>3. chain \in Seq([timer : Timer, delta : Nat])
  BY <1>1 DEF SleepTypes, Items, Item
<1>4. QED
  BY <1>1, <1>2, <1>3, Zenon DEF SleepTypes, Marks, Types

\* They give the bound on the deltas.
LEMMA DeltasFit ==
  ASSUME SleepInv, NotLate, NEW i \in DOMAIN chain
  PROVE  chain[i].delta < Width
<1>1. chain \in Items /\ Len(chain) \in Nat /\ i \in 1..Len(chain)
  BY ExpiryTypes DEF SleepInv, SleepTypes
<1>2. /\ chain[i] \in Item /\ chain[i].delta \in Nat
      /\ i \in 0..Len(chain) /\ i - 1 \in 0..Len(chain)
  BY <1>1, ExpiryTypes
<1>3. Expiry(chain, i) \in Nat /\ Expiry(chain, i - 1) \in Nat
  BY <1>1, <1>2, ExpiryTypes
<1>4. Expiry(chain, i) = Expiry(chain, i - 1) + chain[i].delta
  BY <1>1, ExpirySums
<1>5. Expiry(chain, i) + MaxLate + 2 <= Width
  BY <1>1 DEF NotLate, Plans, PlanIsInTime
<1>6. QED
  BY <1>2, <1>3, <1>4, <1>5, RestTypes

\* The invariants give PlannedInTime.
LEMMA InTime ==
  ASSUME SleepInv, NotLate
  PROVE  PlannedInTime
<1>1. ASSUME NEW i \in DOMAIN chain,
             Left(chain, i, Diff(counter, last_delta_update_count)) > 0
      PROVE  Left(chain, i, Diff(counter, last_delta_update_count)) <=
               due[chain[i].timer] + Latency
               + (IF chain[i].timer \in HfTimers THEN RestoreDelay ELSE 0)
  <2>1. PICK n \in Nat : n = Expiry(chain, i) /\ i \in 1..Len(chain)
    <3>1. chain \in Items /\ DOMAIN chain = 1..Len(chain) /\ Len(chain) \in Nat
      BY ExpiryTypes DEF SleepInv, SleepTypes
    <3>2. i \in 0..Len(chain) /\ i \in 1..Len(chain)
      BY <3>1
    <3>3. QED
      BY <3>1, <3>2, ExpiryTypes
  <2>2. PICK e \in Nat : e = Diff(counter, last_delta_update_count) /\ e = Elapsed
    BY ElapsedTypes DEF SleepInv, SleepTypes, Elapsed
  <2>3. Left(chain, i, e) = IF n > e THEN n - e ELSE 0
    BY <2>1 DEF Left
  <2>4. n > e /\ Left(chain, i, e) = n - e
    BY <1>1, <2>2, <2>3
  <2>5. n - e <= due[chain[i].timer] + Latency + Rest(chain[i].timer)
    BY <2>1, <2>2, <2>4 DEF NotLate, Plans, PlanIsInTime
  <2>6. QED
    BY <2>2, <2>4, <2>5 DEF Rest
<1>2. QED
  BY <1>1, Zenon DEF PlannedInTime

\* The invariants together.
LateInv ==
  /\ shared # "spoiled" => SleepInv
  /\ shared = "no" => NotEarly /\ NotLate
  /\ Marks

LEMMA LateInductive ==
  /\ Init => LateInv
  /\ TimeScale /\ LateInv /\ [Next]_vars => LateInv'
<1>1. Init => LateInv
  <2>1. Init => Marks
    BY TimeTypes DEF Init, Marks
  <2>2. QED
    BY <2>1, InitSleep, InitEarly, InitLate DEF LateInv
<1>2. ASSUME TimeScale, LateInv, [Next]_vars PROVE LateInv'
  <2>1. Marks'
    BY <1>2, NextMarks DEF LateInv, SleepInv
  <2>2. shared' # "spoiled" => SleepInv'
    BY <1>2, SharedStays, NextSleep DEF LateInv
  <2>3. ASSUME shared' = "no" PROVE NotEarly' /\ NotLate'
    <3>1. SleepInv /\ NotEarly /\ NotLate
      BY <1>2, <2>3, SharedStays DEF LateInv
    <3>2. QED
      BY <1>2, <2>3, <3>1, NextTimers, NextLate
  <2>4. QED
    BY <2>1, <2>2, <2>3 DEF LateInv
<1>3. QED
  BY <1>1, <1>2

\* The sleep timer's variables have their types: until the list is spoiled, a timer is in
\* it once; on a counter wider than the timeouts and the lateness no delta wraps, as long
\* as no handle is shared.
THEOREM SleepTypeCorrect == TimeScale => (Spec => []TypeOK)
<1> SUFFICES ASSUME TimeScale PROVE Spec => []TypeOK
  OBVIOUS
<1>1. Init => LateInv
  BY LateInductive
<1>2. LateInv /\ [Next]_vars => LateInv'
  BY LateInductive
<1>3. ASSUME LateInv PROVE TypeOK
  <2>1. shared \in {"no", "started", "spoiled"}
    BY <1>3 DEF LateInv, Marks
  <2>2. shared # "spoiled" => Types
    BY <1>3, SleepTypeIs DEF LateInv
  <2>3. shared = "no" => \A i \in DOMAIN chain : chain[i].delta < Width
    BY <1>3, DeltasFit DEF LateInv
  <2>4. QED
    BY <2>1, <2>2, <2>3, Zenon DEF TypeOK
<1>4. QED
  BY <1>1, <1>2, <1>3, PTL DEF Spec

\* As long as no handle is shared, no callback is planned later than it was asked for,
\* but for an interrupt in create_timer() and the restoring of the fast clock.
THEOREM PlansAreInTime == TimeScale => (Spec => []PlannedInTime)
<1> SUFFICES ASSUME TimeScale PROVE Spec => []PlannedInTime
  OBVIOUS
<1>1. Init => LateInv
  BY LateInductive
<1>2. LateInv /\ [Next]_vars => LateInv'
  BY LateInductive
<1>3. LateInv => PlannedInTime
  <2>1. CASE shared = "no"
    BY <2>1, InTime DEF LateInv
  <2>2. CASE shared # "no"
    BY <2>2, Zenon DEF PlannedInTime
  <2>3. QED
    BY <2>1, <2>2
<1>4. QED
  BY <1>1, <1>2, <1>3, PTL DEF Spec

-----------------------------------------------------------------------------
(* The 64-bit tick count.                                                  *)

\* A sum is no smaller than its parts.
LEMMA SumIsLarger == \A l, w, c \in Nat : c <= l => c <= l + w
OBVIOUS

\* The counter does not get round while an interrupt and the one before it are
\* being handled (a matter of a day and a half against milliseconds).
CounterOutlastsHandlers == 2 * Latency + 1 < Width

TickNumbers ==
  /\ counter \in 0..(Width - 1)
  /\ overflow_counter \in 0..1
  /\ wraps \in 0..1
  /\ waited \in 0..Latency

\* If an overflow is pending, it came while the interrupt handler that runs, or
\* the one before, was at work.
TickInv ==
  /\ TickNumbers
  /\ of_flag \in BOOLEAN
  /\ of_flag = TRUE /\ handler # "none" => counter <= waited
  /\ of_flag = TRUE /\ handler = "none" => counter <= Latency + waited
  /\ TickCountHigh = wraps

\* The high part of the tick count, without and with an overflow that waits.
LEMMA HighPart ==
  ASSUME overflow_counter \in 0..1, of_flag \in BOOLEAN
  PROVE  /\ of_flag = FALSE => TickCountHigh = overflow_counter
         /\ of_flag = TRUE => TickCountHigh = 1 - overflow_counter
BY DEF TickCountHigh

\* The overflow counter of the model, modulo 2.
LEMMA Parity == \A n \in 0..1 : (n + 0) % 2 = n /\ (n + 1) % 2 = 1 - n
OBVIOUS

\* The same after a step.
LEMMA HighPartNext ==
  ASSUME overflow_counter' \in 0..1, of_flag' \in BOOLEAN
  PROVE  /\ of_flag' = FALSE => TickCountHigh' = overflow_counter'
         /\ of_flag' = TRUE => TickCountHigh' = 1 - overflow_counter'
<1>1. /\ of_flag' = FALSE => TickCountHigh' = (overflow_counter' + 0) % 2
      /\ of_flag' = TRUE => TickCountHigh' = (overflow_counter' + 1) % 2
  BY Zenon DEF TickCountHigh
<1>2. /\ (overflow_counter' + 0) % 2 = overflow_counter'
      /\ (overflow_counter' + 1) % 2 = 1 - overflow_counter'
  BY Zenon, Parity
<1> QED
  BY <1>1, <1>2

\* At the start no overflow has been counted.
LEMMA InitTicks == Init => TickInv
<1> SUFFICES ASSUME Init PROVE TickInv
  OBVIOUS
<1>1. of_flag = FALSE /\ counter = 0 /\ overflow_counter = 0 /\ wraps = 0 /\ waited = 0
  BY DEF Init
<1>2. of_flag \in BOOLEAN /\ of_flag # TRUE
  BY <1>1
<1>3. TickNumbers
  BY <1>1, TimeTypes DEF TickNumbers
<1>4. TickCountHigh = wraps
  BY <1>1, <1>2, <1>3, HighPart DEF TickNumbers
<1> QED
  BY <1>2, <1>3, <1>4 DEF TickInv

\* An operation that reads or writes none of the tick count's variables.
LEMMA UntouchedTicks ==
  ASSUME TickInv, UNCHANGED <<counter, of_flag, overflow_counter, wraps, waited, handler>>
  PROVE  TickInv'
BY DEF TickInv, TickNumbers, TickCountHigh

\* The handler counts the overflow it takes the flag of.
LEMMA IrqTicks ==
  ASSUME TickInv, RTCC_IRQHandler
  PROVE  TickInv'
<1>1. /\ counter' = counter /\ wraps' = wraps /\ of_flag' = FALSE
      /\ of_flag = TRUE => overflow_counter' = (overflow_counter + 1) % 2
      /\ of_flag = FALSE => overflow_counter' = overflow_counter
      /\ waited' \in {waited, 0}
  BY DEF RTCC_IRQHandler
<1>2. TickNumbers /\ of_flag \in BOOLEAN /\ TickCountHigh = wraps
  BY DEF TickInv
<1>3. overflow_counter' = wraps
  <2>1. CASE of_flag = TRUE
    <3>1. overflow_counter' = (overflow_counter + 1) % 2 /\ wraps = 1 - overflow_counter
      BY <1>1, <1>2, <2>1, HighPart DEF TickNumbers
    <3> QED
      BY <1>2, <3>1 DEF TickNumbers
  <2>2. CASE of_flag = FALSE
    BY <1>1, <1>2, <2>2, HighPart DEF TickNumbers
  <2> QED
    BY <1>2, <2>1, <2>2
<1>4. TickNumbers'
  BY <1>1, <1>2, <1>3, TimeTypes DEF TickNumbers
<1>5. of_flag' \in BOOLEAN /\ of_flag' # TRUE
  BY <1>1
<1>6. TickCountHigh' = wraps'
  BY <1>1, <1>3, <1>4, <1>5, HighPartNext DEF TickNumbers
<1> QED
  BY <1>4, <1>5, <1>6 DEF TickInv

\* Between the turns of its loop the handler leaves time and flag alone.
LEMMA LoopTicks ==
  ASSUME TickInv, Expire \/ CallbackReturns
  PROVE  TickInv'
<1>1. /\ UNCHANGED <<counter, of_flag, overflow_counter, wraps, waited>>
      /\ handler # "none" /\ handler' # "none"
  BY DEF Expire, CallbackReturns, rtcc
<1> QED
  BY <1>1 DEF TickInv, TickNumbers, TickCountHigh

\* An overflow that came during the handler is at most as old as the handler.
LEMMA EndTicks ==
  ASSUME TickInv, HandlerEnds
  PROVE  TickInv'
<1>1. /\ UNCHANGED <<counter, of_flag, overflow_counter, wraps>>
      /\ handler # "none" /\ handler' = "none"
      /\ waited' \in {waited, 0}
  BY DEF HandlerEnds
<1>2. TickNumbers /\ of_flag \in BOOLEAN /\ TickCountHigh = wraps
  BY DEF TickInv
<1>3. TickNumbers'
  BY <1>1, <1>2, TimeTypes DEF TickNumbers
<1>4. of_flag' \in BOOLEAN /\ TickCountHigh' = wraps'
  BY <1>1, <1>2 DEF TickCountHigh
<1>5. ASSUME of_flag' = TRUE PROVE counter' <= Latency + waited'
  <2>1. counter' <= waited
    BY <1>1, <1>5 DEF TickInv
  <2>2. counter' \in Nat /\ waited \in Nat /\ waited <= Latency /\ waited' \in Nat
    BY <1>2, <1>3, TimeTypes DEF TickNumbers
  <2>3. counter' <= Latency
    BY <2>1, <2>2, TimeTypes
  <2> QED
    BY <2>2, <2>3, TimeTypes, SumIsLarger, Zenon
<1> QED
  BY <1>1, <1>3, <1>4, <1>5 DEF TickInv

\* The counter does not overflow again while the last overflow is pending.
LEMMA TickTicks ==
  ASSUME TickInv, Tick, CounterOutlastsHandlers
  PROVE  TickInv'
<1>1. /\ handler' = handler /\ overflow_counter' = overflow_counter
      /\ counter' = IF counter = Width - 1 THEN 0 ELSE counter + 1
      /\ wraps' = IF counter = Width - 1 THEN (wraps + 1) % 2 ELSE wraps
      /\ waited' = 0 \/ (waited' = waited + 1 /\ waited < Latency)
  BY DEF Tick, Pending
<1>2. /\ of_flag' = (of_flag \/ counter = Width - 1)
      /\ of_flag = TRUE => waited' = waited + 1
  BY DEF Tick, Pending
<1>3. TickNumbers /\ of_flag \in BOOLEAN /\ TickCountHigh = wraps
  BY DEF TickInv
<1>4. TickNumbers'
  BY <1>1, <1>3, TimeTypes DEF TickNumbers
<1>5. of_flag = TRUE => counter <= Latency + waited
  <2>1. of_flag = TRUE => counter <= waited \/ counter <= Latency + waited
    BY DEF TickInv
  <2> QED
    BY <1>3, <2>1, TimeTypes DEF TickNumbers
<1>6. CASE counter = Width - 1
  <2>1. ~(counter <= Latency + waited)
    BY <1>3, <1>6, TimeTypes DEF TickNumbers, CounterOutlastsHandlers
  <2>2. of_flag = FALSE /\ of_flag' = TRUE
    BY <1>2, <1>3, <1>5, <1>6, <2>1
  <2>3. wraps = overflow_counter
    <3>1. TickCountHigh = overflow_counter
      BY <1>3, <2>2, HighPart DEF TickNumbers
    <3> QED
      BY <1>3, <3>1
  <2>4. counter' = 0 /\ wraps' = 1 - overflow_counter'
    BY <1>1, <1>3, <1>6, <2>3 DEF TickNumbers
  <2>5. TickCountHigh' = wraps'
    BY <1>4, <2>2, <2>4, HighPartNext DEF TickNumbers
  <2>6. counter' <= waited' /\ counter' <= Latency + waited'
    <3>1. counter' \in Nat /\ waited' \in Nat /\ counter' <= waited' /\ counter' <= Latency
      BY <1>4, <2>4, TimeTypes DEF TickNumbers
    <3> QED
      BY <3>1, TimeTypes, SumIsLarger, Zenon
  <2> QED
    BY <1>4, <2>2, <2>5, <2>6 DEF TickInv
<1>7. CASE counter # Width - 1
  <2>1. of_flag' = of_flag
    BY <1>2, <1>3, <1>7
  <2>2. counter' = counter + 1 /\ wraps' = wraps
    BY <1>1, <1>7
  <2>3. of_flag' \in BOOLEAN /\ TickCountHigh' = wraps'
    BY <1>1, <1>3, <2>1, <2>2 DEF TickCountHigh
  <2>4. ASSUME of_flag' = TRUE, handler' # "none" PROVE counter' <= waited'
    <3>1. counter <= waited /\ waited' = waited + 1
      BY <1>1, <1>2, <2>1, <2>4 DEF TickInv
    <3> QED
      BY <1>3, <2>2, <3>1 DEF TickNumbers
  <2>5. ASSUME of_flag' = TRUE, handler' = "none" PROVE counter' <= Latency + waited'
    <3>1. counter <= Latency + waited /\ waited' = waited + 1
      BY <1>1, <1>2, <2>1, <2>5 DEF TickInv
    <3> QED
      BY <1>3, <2>2, <3>1, TimeTypes DEF TickNumbers
  <2> QED
    BY <1>4, <2>3, <2>4, <2>5 DEF TickInv
<1> QED
  BY <1>6, <1>7

\* TickInv is inductive if handlers are fast.
LEMMA NextTicks ==
  ASSUME TickInv, [Next]_vars, CounterOutlastsHandlers
  PROVE  TickInv'
<1>1. ASSUME NEW t \in Timer, NEW timeout \in Timeouts, NEW every,
             StartTimer(t, timeout, every) \/ CallbackStarts(t, timeout, every)
      PROVE  TickInv'
  BY <1>1, UntouchedTicks DEF StartTimer, CallbackStarts, rtcc
<1>2. CASE EnlistTimer
  BY <1>2, UntouchedTicks DEF EnlistTimer
<1>3. ASSUME NEW t \in Timer, StopTimer(t) \/ StopUnlisted(t) PROVE TickInv'
  BY <1>3, UntouchedTicks DEF StopTimer, StopUnlisted, rtcc
<1>4. CASE RTCC_IRQHandler
  BY <1>4, IrqTicks
<1>5. CASE Expire \/ CallbackReturns
  BY <1>5, LoopTicks
<1>6. CASE HandlerEnds
  BY <1>6, EndTicks
<1>7. CASE Tick
  BY <1>7, TickTicks
<1>8. CASE Aside \/ UNCHANGED vars
  BY <1>8, AsideIs, UntouchedTicks
<1> QED
  BY <1>1, <1>2, <1>3, <1>4, <1>5, <1>6, <1>7, <1>8 DEF Next, Aside

\* What has been read of the counter is of this tick or of the one before, unless the
\* counter has overflowed since: then it is read again.
ReadInv == reading # NoReading => reading \in {counter, counter - 1} \/ of_flag = TRUE

LEMMA NextReads ==
  ASSUME TickInv, ReadInv, [Next]_vars
  PROVE  ReadInv'
<1>1. ASSUME NEW t \in Timer, NEW timeout \in Timeouts, NEW every,
             StartTimer(t, timeout, every) \/ CallbackStarts(t, timeout, every)
      PROVE  ReadInv'
  BY <1>1 DEF ReadInv, StartTimer, CallbackStarts, rtcc
<1>2. ASSUME NEW t \in Timer, CheckTimer(t) \/ StopTimer(t) \/ StopUnlisted(t) PROVE ReadInv'
  BY <1>2 DEF ReadInv, CheckTimer, StopTimer, StopUnlisted, rtcc
<1>3. CASE EnlistTimer \/ Expire \/ CallbackReturns \/ HandlerEnds \/ Spoiled \/ UNCHANGED vars
  <2>1. UNCHANGED <<counter, of_flag, reading>>
    BY <1>3 DEF EnlistTimer, Expire, CallbackReturns, HandlerEnds, Spoiled, vars, rtcc
  <2>2. QED
    BY <2>1 DEF ReadInv
<1>4. CASE RTCC_IRQHandler
  BY <1>4 DEF ReadInv, RTCC_IRQHandler, Ready
<1>5. CASE GetTickCount64
  BY <1>5 DEF ReadInv, GetTickCount64, rtcc
<1>6. CASE TickCountReturns
  BY <1>6 DEF ReadInv, TickCountReturns
<1>7. CASE Tick
  <2>1. /\ reading # NoReading => counter = reading
        /\ counter' = IF counter = Width - 1 THEN 0 ELSE counter + 1
        /\ counter = Width - 1 => of_flag'
        /\ reading' = reading
    BY <1>7 DEF Tick
  <2>2. counter \in 0..(Width - 1)
    BY DEF TickInv, TickNumbers
  <2>3. counter = Width - 1 => of_flag' = TRUE
    BY <1>7 DEF Tick
  <2>4. QED
    BY <2>1, <2>2, <2>3, TimeTypes DEF ReadInv
<1>8. QED
  BY <1>1, <1>2, <1>3, <1>4, <1>5, <1>6, <1>7 DEF Next

\* The 64-bit tick count is right at any moment, an overflow that waits included, and its
\* two halves belong together, though they are read one after the other
\* (sl_sleeptimer_get_tick_count64()), if handlers are fast against the counter.
THEOREM TickCountIsRight == CounterOutlastsHandlers => (Spec => []TickCountAgrees)
<1> DEFINE Inv == TickInv /\ ReadInv
<1>1. Init => Inv
  <2>1. Init => ReadInv
    BY DEF Init, ReadInv
  <2>2. QED
    BY <2>1, InitTicks
<1>2. CounterOutlastsHandlers /\ Inv /\ [Next]_vars => Inv'
  BY NextTicks, NextReads
<1>3. ASSUME Inv PROVE TickCountAgrees
  <2>1. TickCountHigh = wraps /\ of_flag \in BOOLEAN
    BY <1>3 DEF TickInv
  <2>2. ASSUME reading # NoReading PROVE TickCountLow \in {counter, counter - 1}
    <3>1. CASE of_flag = TRUE
      BY <3>1 DEF TickCountLow
    <3>2. CASE of_flag = FALSE
      BY <1>3, <2>2, <3>2 DEF ReadInv, TickCountLow
    <3>3. QED
      BY <2>1, <3>1, <3>2
  <2>3. QED
    BY <2>1, <2>2 DEF TickCountAgrees
<1> HIDE DEF Inv
<1>4. SUFFICES ASSUME CounterOutlastsHandlers PROVE Spec => []TickCountAgrees
  OBVIOUS
<1>5. Inv /\ [Next]_vars => Inv'
  BY <1>2, <1>4
<1> QED
  BY <1>1, <1>3, <1>5, PTL DEF Spec

=============================================================================
