------------------------ MODULE KDSoapFileRanges_proofs ------------------------
(***************************************************************************)
(* Theorems about KDSoapFileRanges: what is left of the ranges of a header *)
(* when they have been resolved, sorted and coalesced, and what is written *)
(* of the file.                                                            *)
(***************************************************************************)
EXTENDS KDSoapFileRanges, SequenceLemmas

(***************************************************************************)
(* Greatest numbers.                                                       *)
(***************************************************************************)
(* The greatest of some of the first numbers.                              *)
LEMMA MaxOfSome ==
    ASSUME NEW n \in Nat, NEW t \in SUBSET (1..n), t # {}
    PROVE  Max(t) \in t /\ \A x \in t : x <= Max(t)
<1>. DEFINE Bounds == {b \in Nat : \A x \in t : x <= b}
<1>1. n \in Bounds
  OBVIOUS
<1>2. PICK b \in Bounds : \A c \in Bounds : b <= c
  <2>1. Bounds \in SUBSET Nat /\ Bounds # {}
    BY <1>1
  <2>. HIDE DEF Bounds
  <2>. QED
    BY <2>1, Least
<1>3. b \in t
  <2>. SUFFICES ASSUME b \notin t PROVE FALSE
    OBVIOUS
  <2>0. \A x \in t : x \in Nat /\ 1 <= x
    OBVIOUS
  <2>1. b # 0
    <3>1. PICK y \in t : TRUE
      OBVIOUS
    <3>. QED
      BY <1>2, <2>0, <3>1
  <2>2. b - 1 \in Bounds
    <3>1. \A x \in t : x \in Nat /\ x <= b /\ x # b
      BY <1>2
    <3>. QED
      BY <1>2, <2>1, <3>1
  <2>. QED
    BY <1>2, <2>2
<1>4. b \in t /\ \A x \in t : b >= x
  BY <1>2, <1>3
<1>. HIDE DEF Bounds
<1>5. Max(t) \in t /\ \A x \in t : Max(t) >= x
  BY <1>4, Zenon DEF Max
<1>6. \A x \in t : x \in Int
  OBVIOUS
<1>. QED
  BY <1>5, <1>6

(* The greatest of the first numbers is the last.                          *)
LEMMA MaxOfFirst ==
    ASSUME NEW n \in Nat, NEW t \in SUBSET (1..n), n \in t
    PROVE  Max(t) = n
<1>1. PICK m : m = Max(t)
  OBVIOUS
<1>2. m \in t /\ \A x \in t : x <= m
  BY <1>1, MaxOfSome
<1>3. \A x \in t : x \in Int /\ x <= n
  OBVIOUS
<1>. QED
  BY <1>1, <1>2, <1>3

(* The greater of two.                                                     *)
LEMMA MaxOfTwo ==
    ASSUME NEW a \in Int, NEW b \in Int
    PROVE  Max({a, b}) = IF a >= b THEN a ELSE b
<1>. DEFINE m == IF a >= b THEN a ELSE b
<1>1. m \in {a, b} /\ \A x \in {a, b} : m >= x
  OBVIOUS
<1>2. Max({a, b}) \in {a, b} /\ \A x \in {a, b} : Max({a, b}) >= x
  BY <1>1, Zenon DEF Max
<1>. QED
  BY <1>1, <1>2

(* The lesser of two.                                                      *)
LEMMA MinOfTwo ==
    ASSUME NEW a \in Int, NEW b \in Int
    PROVE  Min({a, b}) = IF a <= b THEN a ELSE b
<1>. DEFINE m == IF a <= b THEN a ELSE b
<1>1. m \in {a, b} /\ \A x \in {a, b} : m <= x
  OBVIOUS
<1>2. Min({a, b}) \in {a, b} /\ \A x \in {a, b} : Min({a, b}) <= x
  BY <1>1, Zenon DEF Min
<1>. QED
  BY <1>1, <1>2

(***************************************************************************)
(* Totals.                                                                 *)
(***************************************************************************)
(* FoldLeft() is defined by recursion on sets of positions.                *)
Adds(g, s, n) ==
    g = [t \in SUBSET (1..n) |-> IF t = {} THEN 0 ELSE g[t \ {Max(t)}] + s[Max(t)]]

(* One step of the recursion.                                              *)
LEMMA AddsAt ==
    ASSUME NEW g, NEW s, NEW n \in Nat, Adds(g, s, n), NEW t \in SUBSET (1..n)
    PROVE  g[t] = IF t = {} THEN 0 ELSE g[t \ {Max(t)}] + s[Max(t)]
<1>. DEFINE h == [u \in SUBSET (1..n) |-> IF u = {} THEN 0 ELSE g[u \ {Max(u)}] + s[Max(u)]]
<1>1. g = h
  BY Zenon DEF Adds
<1>2. h[t] = IF t = {} THEN 0 ELSE g[t \ {Max(t)}] + s[Max(t)]
  BY Zenon
<1>. QED
  BY <1>1, <1>2, Zenon

(* The recursion has a solution.                                           *)
LEMMA AddsExists == ASSUME NEW s, NEW n \in Nat PROVE \E g : Adds(g, s, n)
<1>. DEFINE Bad == {m \in Nat : ~ \E g : Adds(g, s, m)}
<1>. SUFFICES ASSUME Bad # {} PROVE FALSE
  OBVIOUS
<1>1. PICK m \in Bad : \A j \in Bad : m <= j
  BY Least
<1>2. m # 0
  <2>. DEFINE z == [t \in SUBSET (1..0) |-> 0]
  <2>1. z = [t \in SUBSET (1..0) |-> IF t = {} THEN 0 ELSE z[t \ {Max(t)}] + s[Max(t)]]
    <3>1. \A t \in SUBSET (1..0) : t = {}
      OBVIOUS
    <3>. QED
      BY <3>1, Zenon
  <2>. HIDE DEF z
  <2>2. Adds(z, s, 0)
    BY <2>1, Zenon DEF Adds
  <2>. QED
    BY <2>2
<1>3. PICK g : Adds(g, s, m - 1)
  BY <1>1, <1>2
<1>. DEFINE h == [t \in SUBSET (1..m) |-> IF m \in t THEN g[t \ {m}] + s[m] ELSE g[t]]
<1>4. ASSUME NEW t \in SUBSET (1..m)
      PROVE  h[t] = IF t = {} THEN 0 ELSE h[t \ {Max(t)}] + s[Max(t)]
  <2>1. CASE m \in t
    <3>1. Max(t) = m
      BY <2>1, MaxOfFirst
    <3>2. h[t] = g[t \ {m}] + s[m]
      BY <2>1, Zenon
    <3>3. m \notin t \ {m} /\ t \ {m} \in SUBSET (1..m)
      BY Zenon
    <3>4. h[t \ {m}] = g[t \ {m}]
      BY <3>3, Zenon
    <3>. QED
      BY <2>1, <3>1, <3>2, <3>4, Zenon
  <2>2. CASE m \notin t
    <3>1. t \in SUBSET (1..(m - 1)) /\ m - 1 \in Nat
      BY <1>2, <2>2
    <3>2. g[t] = IF t = {} THEN 0 ELSE g[t \ {Max(t)}] + s[Max(t)]
      BY <1>3, <3>1, AddsAt
    <3>3. h[t] = g[t] /\ h[t \ {Max(t)}] = g[t \ {Max(t)}]
      BY <2>2, Zenon
    <3>. QED
      BY <3>2, <3>3, Zenon
  <2>. QED
    BY <2>1, <2>2
<1>5. Adds(h, s, m)
  <2>1. h = [t \in SUBSET (1..m) |-> h[t]]
    BY Zenon
  <2>. HIDE DEF h
  <2>2. h = [t \in SUBSET (1..m) |-> IF t = {} THEN 0 ELSE h[t \ {Max(t)}] + s[Max(t)]]
    BY <1>4, <2>1, Zenon
  <2>. QED
    BY <2>2, Zenon DEF Adds
<1>. QED
  BY <1>1, <1>5

(* A total is a sum of the first ones, one after the other.                *)
Totals(f, s) ==
    /\ f \in [0..Len(s) -> Int] /\ f[0] = 0
    /\ \A k \in 1..Len(s) : f[k] = f[k - 1] + s[k]

(* Total() is the last of them.                                            *)
LEMMA TotalIs ==
    ASSUME NEW s \in Seq(Int)
    PROVE  \E f : Totals(f, s) /\ Total(s) = f[Len(s)]
<1>. DEFINE n == Len(s)
            g == CHOOSE it : it = [t \in SUBSET (1..n) |-> IF t = {} THEN 0 ELSE it[t \ {Max(t)}] + s[Max(t)]]
            f == [k \in 0..n |-> g[1..k]]
<1>0. n \in Nat /\ DOMAIN s = 1..n
  OBVIOUS
<1>1. Total(s) = g[1..n]
  BY <1>0, Zenon DEF Total, FoldLeft, MapThenFoldSet
<1>2. Adds(g, s, n)
  <2>1. \E it : it = [t \in SUBSET (1..n) |-> IF t = {} THEN 0 ELSE it[t \ {Max(t)}] + s[Max(t)]]
    <3>1. PICK it : Adds(it, s, n)
      BY <1>0, AddsExists
    <3>. QED
      BY <3>1, Zenon DEF Adds
  <2>2. g = [t \in SUBSET (1..n) |-> IF t = {} THEN 0 ELSE g[t \ {Max(t)}] + s[Max(t)]]
    BY <2>1, Zenon
  <2>. QED
    BY <2>2, Zenon DEF Adds
<1>. HIDE DEF g
<1>3. f[0] = 0
  <2>1. 1..0 = {} /\ {} \in SUBSET (1..n) /\ 0 \in 0..n
    OBVIOUS
  <2>2. g[{}] = 0
    BY <1>0, <1>2, <2>1, AddsAt
  <2>. QED
    BY <2>1, <2>2
<1>4. ASSUME NEW k \in 1..n PROVE f[k] = f[k - 1] + s[k]
  <2>0. k \in Nat /\ k \in 1..k /\ \A x \in 1..k : x \in 1..n
    BY <1>0
  <2>1. k \in Nat /\ 1..k \in SUBSET (1..k) /\ k \in 1..k /\ 1..k # {} /\ 1..k \in SUBSET (1..n)
    BY <2>0, Zenon
  <2>2. Max(1..k) = k
    BY <2>1, MaxOfFirst
  <2>3. (1..k) \ {k} = 1..(k - 1)
    OBVIOUS
  <2>4. PICK t : t = 1..k
    OBVIOUS
  <2>5. g[t] = IF t = {} THEN 0 ELSE g[t \ {Max(t)}] + s[Max(t)]
    <3>1. t \in SUBSET (1..n) /\ n \in Nat
      BY <1>0, <2>1, <2>4
    <3>. HIDE DEF n
    <3>. QED
      BY <1>2, <3>1, AddsAt
  <2>6. g[1..k] = g[1..(k - 1)] + s[k]
    BY <2>1, <2>2, <2>3, <2>4, <2>5, Zenon
  <2>7. k \in 0..n /\ k - 1 \in 0..n
    OBVIOUS
  <2>. QED
    BY <2>6, <2>7, Zenon
<1>5. f \in [0..n -> Int]
  <2>. DEFINE Bad == {k \in 0..n : f[k] \notin Int}
  <2>. SUFFICES ASSUME Bad # {} PROVE FALSE
    OBVIOUS
  <2>1. Bad \in SUBSET Nat
    OBVIOUS
  <2>. HIDE DEF f
  <2>2. PICK k \in Bad : \A j \in Bad : k <= j
    <3>. HIDE DEF Bad
    <3>. QED
      BY <2>1, Least
  <2>3. k # 0
    BY <1>3
  <2>4. k \in 1..n /\ k - 1 \in 0..n /\ ~ k <= k - 1
    BY <2>3
  <2>5. f[k - 1] \in Int /\ s[k] \in Int
    BY <2>2, <2>4
  <2>. QED
    BY <1>4, <2>4, <2>5
<1>. HIDE DEF f
<1>6. Totals(f, s)
  BY <1>3, <1>4, <1>5 DEF Totals
<1>7. f[n] = g[1..n]
  BY <1>0 DEF f
<1>. QED
  BY <1>1, <1>6, <1>7

(* The total of none, and with one more.                                   *)
LEMMA TotalMore ==
    ASSUME NEW s \in Seq(Int), NEW x \in Int
    PROVE  /\ Total(<<>>) = 0
           /\ Total(s) \in Int
           /\ Total(Append(s, x)) = Total(s) + x
<1>1. Total(<<>>) = 0
  <2>1. <<>> \in Seq(Int) /\ Len(<<>>) = 0
    OBVIOUS
  <2>2. PICK f : Totals(f, <<>>) /\ Total(<<>>) = f[Len(<<>>)]
    BY <2>1, TotalIs
  <2>. QED
    BY <2>1, <2>2 DEF Totals
<1>2. PICK f : Totals(f, s) /\ Total(s) = f[Len(s)]
  BY TotalIs
<1>3. PICK t : t = Append(s, x)
  OBVIOUS
<1>4. t \in Seq(Int) /\ Len(t) = Len(s) + 1 /\ t[Len(t)] = x /\ Len(s) \in Nat /\ \A i \in 1..Len(s) : t[i] = s[i]
  BY <1>3
<1>5. PICK g : Totals(g, t) /\ Total(t) = g[Len(t)]
  BY <1>4, TotalIs
<1>. DEFINE Bad == {k \in 0..Len(s) : f[k] # g[k]}
<1>6. Bad = {}
  <2>. SUFFICES ASSUME Bad # {} PROVE FALSE
    OBVIOUS
  <2>1. Bad \in SUBSET Nat
    OBVIOUS
  <2>2. PICK k \in Bad : \A j \in Bad : k <= j
    <3>. HIDE DEF Bad
    <3>. QED
      BY <2>1, Least
  <2>3. k # 0
    BY <1>2, <1>5 DEF Totals
  <2>4. k \in 1..Len(s) /\ k \in 1..Len(t) /\ k - 1 \in 0..Len(s) /\ ~ k <= k - 1
    BY <1>4, <2>3
  <2>5. f[k - 1] = g[k - 1]
    BY <2>2, <2>4
  <2>6. f[k] = f[k - 1] + s[k] /\ g[k] = g[k - 1] + t[k] /\ s[k] = t[k]
    BY <1>2, <1>4, <1>5, <2>4 DEF Totals
  <2>. QED
    BY <2>5, <2>6
<1>7. f[Len(s)] = g[Len(s)] /\ f[Len(s)] \in Int
  <2>1. Len(s) \in 0..Len(s)
    BY <1>4
  <2>. QED
    BY <1>2, <1>6, <2>1 DEF Totals
<1>8. g[Len(t)] = g[Len(s)] + x
  <2>1. Len(t) \in 1..Len(t) /\ Len(t) - 1 = Len(s)
    BY <1>4
  <2>. QED
    BY <1>4, <1>5, <2>1 DEF Totals
<1>. QED
  BY <1>1, <1>2, <1>3, <1>5, <1>7, <1>8

(* A total of natural numbers is one.                                      *)
LEMMA TotalNotNegative == ASSUME NEW s \in Seq(Nat) PROVE Total(s) \in Nat
<1>1. s \in Seq(Int) /\ Len(s) \in Nat /\ \A k \in 1..Len(s) : s[k] \in Nat
  OBVIOUS
<1>2. PICK f : Totals(f, s) /\ Total(s) = f[Len(s)]
  BY <1>1, TotalIs
<1>. DEFINE Bad == {k \in 0..Len(s) : f[k] \notin Nat}
<1>3. Bad = {}
  <2>. SUFFICES ASSUME Bad # {} PROVE FALSE
    OBVIOUS
  <2>1. Bad \in SUBSET Nat
    OBVIOUS
  <2>2. PICK k \in Bad : \A j \in Bad : k <= j
    <3>. HIDE DEF Bad
    <3>. QED
      BY <2>1, Least
  <2>3. k # 0
    BY <1>2 DEF Totals
  <2>4. k \in 1..Len(s) /\ k - 1 \in 0..Len(s) /\ ~ k <= k - 1
    BY <1>1, <2>3
  <2>5. f[k - 1] \in Nat
    BY <2>2, <2>4
  <2>6. f[k] = f[k - 1] + s[k] /\ s[k] \in Nat
    BY <1>1, <1>2, <2>4 DEF Totals
  <2>. QED
    BY <2>5, <2>6
<1>4. Len(s) \in 0..Len(s)
  BY <1>1
<1>. QED
  BY <1>2, <1>3, <1>4

(***************************************************************************)
(* Sorting.                                                                *)
(***************************************************************************)
Pairs == Int \X Int

(* Two integers.                                                           *)
LEMMA PairIs ==
    /\ \A r \in Pairs : r[1] \in Int /\ r[2] \in Int
    /\ \A x, y \in Int : <<x, y>> \in Pairs
BY DEF Pairs

(* The order of std::sort() is total.                                      *)
LEMMA LessTotal ==
    ASSUME NEW r \in Pairs, NEW q \in Pairs, NEW x \in Pairs
    PROVE  /\ Less(r, q) => ~ Less(q, r)
           /\ Less(x, r) /\ ~ Less(q, r) => ~ Less(q, x)
BY DEF Pairs, Less

(* An order of the first n ranges.                                         *)
Orders(s, n, p) ==
    /\ p \in [1..n -> 1..n]
    /\ \A i, j \in 1..n : p[i] = p[j] => i = j
    /\ \A i \in 1..n : \E j \in 1..n : p[j] = i
    /\ \A i, j \in 1..n : i < j => ~ Less(s[p[j]], s[p[i]])

(* One more range finds its place in an order.                             *)
LEMMA Inserted ==
    ASSUME NEW s \in Seq(Pairs), NEW n \in Nat, n < Len(s), NEW p, Orders(s, n, p)
    PROVE  \E q : Orders(s, n + 1, q)
<1>m. PICK m, x : m = n + 1 /\ x = s[m]
  OBVIOUS
<1>. DEFINE Places == {k \in 1..m : k = m \/ Less(x, s[p[k]])}
<1>0. m \in Nat /\ 1 <= m /\ m <= Len(s) /\ x \in Pairs /\ \A i \in 1..m : s[i] \in Pairs
  BY <1>m
<1>n. n \in Nat /\ m = n + 1 /\ \A i \in 1..m : i \in Int /\ (i # m => i \in 1..n)
  BY <1>m
<1>1. PICK place \in Places : \A k \in Places : place <= k
  <2>1. Places \in SUBSET Nat /\ m \in Places
    BY <1>0
  <2>. HIDE DEF Places
  <2>. QED
    BY <2>1, Least
<1>2. place \in 1..m /\ (place = m \/ Less(x, s[p[place]]))
      /\ \A k \in 1..m : k < place => ~ Less(x, s[p[k]])
  BY <1>1
<1>. HIDE DEF Places
<1>. DEFINE q == [i \in 1..m |-> IF i < place THEN p[i] ELSE IF i = place THEN m ELSE p[i - 1]]
<1>3. /\ \A i \in 1..m : i < place => q[i] = p[i] /\ i \in 1..n
      /\ q[place] = m
      /\ \A i \in 1..m : place < i => q[i] = p[i - 1] /\ i - 1 \in 1..n
  BY <1>2, <1>m
<1>4. \A i \in 1..n : p[i] \in 1..n /\ p[i] # m /\ p[i] \in 1..m
  <2>1. \A i \in 1..n : p[i] \in 1..n
    BY DEF Orders
  <2>2. \A k \in 1..n : k # m /\ k \in 1..m
    BY <1>m
  <2>. QED
    BY <2>1, <2>2
<1>q. q \in [1..m -> 1..m]
  <2>1. ASSUME NEW i \in 1..m PROVE q[i] \in 1..m
    BY <1>0, <1>2, <1>3, <1>4
  <2>. QED
    BY <2>1
<1>. HIDE DEF q
<1>5. ASSUME NEW i \in 1..m, NEW j \in 1..m, q[i] = q[j] PROVE i = j
  <2>1. \A a, b \in 1..n : p[a] = p[b] => a = b
    BY DEF Orders
  <2>2. CASE i < place
    <3>1. j < place \/ place < j
      BY <1>0, <1>n, <1>2, <1>3, <1>4, <1>5, <2>2
    <3>2. CASE place < j
      <4>1. i = j - 1
        BY <1>0, <1>n, <1>3, <1>5, <2>1, <2>2, <3>2
      <4>. QED
        BY <1>0, <1>n, <1>2, <2>2, <3>2, <4>1
    <3>. QED
      BY <1>0, <1>n, <1>3, <1>5, <2>1, <2>2, <3>1, <3>2
  <2>3. CASE i = place
    BY <1>0, <1>n, <1>2, <1>3, <1>4, <1>5, <2>3
  <2>4. CASE place < i
    <3>1. j < place \/ place < j
      BY <1>0, <1>n, <1>2, <1>3, <1>4, <1>5, <2>4
    <3>2. CASE j < place
      <4>1. j = i - 1
        BY <1>0, <1>n, <1>3, <1>5, <2>1, <2>4, <3>2
      <4>. QED
        BY <1>0, <1>n, <1>2, <2>4, <3>2, <4>1
    <3>3. CASE place < j
      <4>1. i - 1 = j - 1
        BY <1>0, <1>n, <1>3, <1>5, <2>1, <2>4, <3>3
      <4>. QED
        BY <4>1
    <3>. QED
      BY <3>1, <3>2, <3>3
  <2>. QED
    BY <1>0, <1>n, <1>2, <2>2, <2>3, <2>4
<1>6. ASSUME NEW i \in 1..m PROVE \E j \in 1..m : q[j] = i
  <2>1. CASE i = m
    BY <1>0, <1>n, <1>2, <1>3, <2>1
  <2>2. CASE i # m
    <3>1. i \in 1..n
      BY <1>0, <1>n, <2>2
    <3>2. PICK j \in 1..n : p[j] = i
      BY <3>1 DEF Orders
    <3>3. CASE j < place
      <4>1. j \in 1..m
        BY <1>n
      <4>. QED
        BY <1>3, <3>2, <3>3, <4>1
    <3>4. CASE place <= j
      <4>1. j + 1 \in 1..m /\ place < j + 1 /\ (j + 1) - 1 = j
        BY <1>0, <1>n, <1>2, <3>4
      <4>. QED
        BY <1>0, <1>n, <1>3, <3>2, <4>1
    <3>. QED
      BY <1>0, <1>n, <1>2, <3>3, <3>4
  <2>. QED
    BY <1>0, <1>n, <2>1, <2>2
<1>7. ASSUME NEW i \in 1..m, NEW j \in 1..m, i < j PROVE ~ Less(s[q[j]], s[q[i]])
  <2>1. \A a, b \in 1..n : a < b => ~ Less(s[p[b]], s[p[a]])
    BY DEF Orders
  <2>2. \A a \in 1..n : s[p[a]] \in Pairs
    BY <1>0, <1>4
  <2>3. CASE j < place
    <3>1. q[i] = p[i] /\ q[j] = p[j] /\ i \in 1..n /\ j \in 1..n
      BY <1>0, <1>n, <1>2, <1>3, <1>7, <2>3
    <3>. QED
      BY <1>0, <1>n, <1>7, <2>1, <3>1
  <2>4. CASE j = place
    <3>1. q[i] = p[i] /\ q[j] = m
      BY <1>0, <1>n, <1>3, <1>7, <2>4
    <3>. QED
      BY <1>0, <1>m, <1>n, <1>2, <1>7, <2>4, <3>1
  <2>5. CASE place < j /\ i < place
    <3>1. q[i] = p[i] /\ q[j] = p[j - 1] /\ i \in 1..n /\ j - 1 \in 1..n
      BY <1>0, <1>n, <1>2, <1>3, <1>7, <2>5
    <3>2. i < j - 1
      BY <1>0, <1>n, <1>2, <2>5
    <3>. QED
      BY <1>0, <1>n, <2>1, <3>1, <3>2
  <2>6. CASE place = i
    <3>1. q[i] = m /\ q[j] = p[j - 1] /\ j - 1 \in 1..n /\ place <= j - 1 /\ place # m
      BY <1>0, <1>n, <1>2, <1>3, <1>7, <2>6
    <3>2. place \in 1..n /\ Less(x, s[p[place]])
      BY <1>0, <1>n, <1>2, <3>1
    <3>3. ~ Less(s[p[j - 1]], s[p[place]])
      <4>1. CASE place = j - 1
        BY <1>0, <1>n, <2>2, <3>2, <4>1, LessTotal
      <4>2. CASE place < j - 1
        BY <1>0, <1>n, <2>1, <3>1, <3>2, <4>2
      <4>. QED
        BY <1>0, <1>n, <1>2, <3>1, <4>1, <4>2
    <3>. QED
      BY <1>0, <1>m, <2>2, <3>1, <3>2, <3>3, LessTotal
  <2>7. CASE place < i
    <3>1. q[i] = p[i - 1] /\ q[j] = p[j - 1] /\ i - 1 \in 1..n /\ j - 1 \in 1..n /\ i - 1 < j - 1
      BY <1>0, <1>n, <1>2, <1>3, <1>7, <2>7
    <3>. QED
      BY <1>0, <1>n, <2>1, <3>1
  <2>. QED
    BY <1>0, <1>n, <1>2, <1>7, <2>3, <2>4, <2>5, <2>6, <2>7
<1>. QED
  BY <1>m, <1>q, <1>5, <1>6, <1>7 DEF Orders

(* There is an order of all ranges.                                        *)
LEMMA OrderExists == ASSUME NEW s \in Seq(Pairs) PROVE \E p : Orders(s, Len(s), p)
<1>. DEFINE Bad == {n \in 0..Len(s) : ~ \E p : Orders(s, n, p)}
<1>1. Len(s) \in Nat /\ Bad \in SUBSET Nat /\ Len(s) \in 0..Len(s)
  OBVIOUS
<1>. SUFFICES ASSUME Bad # {} PROVE FALSE
  BY <1>1
<1>2. PICK n \in Bad : \A m \in Bad : n <= m
  <2>. HIDE DEF Bad
  <2>. QED
    BY <1>1, Least
<1>3. n # 0
  <2>. DEFINE z == [i \in 1..0 |-> i]
  <2>1. Orders(s, 0, z)
    BY DEF Orders
  <2>. QED
    BY <2>1
<1>4. PICK m : m = n - 1
  OBVIOUS
<1>5. m \in Nat /\ m < Len(s) /\ n = m + 1 /\ m \in 0..Len(s) /\ ~ n <= m
  BY <1>3, <1>4
<1>6. PICK p : Orders(s, m, p)
  BY <1>2, <1>5
<1>7. \E q : Orders(s, m + 1, q)
  BY <1>5, <1>6, Inserted
<1>. QED
  BY <1>2, <1>5, <1>7

(* What sorting returns: the same ranges, each beginning no earlier than   *)
(* the ones before.                                                        *)
LEMMA SortedIs ==
    ASSUME NEW s \in Seq(Pairs)
    PROVE  /\ sorted(s) \in Seq(Pairs) /\ Len(sorted(s)) = Len(s)
           /\ \A i \in 1..Len(s) : \E j \in 1..Len(s) : sorted(s)[i] = s[j]
           /\ \A i \in 1..Len(s) : \E j \in 1..Len(s) : sorted(s)[j] = s[i]
           /\ \A i, j \in 1..Len(s) : i < j => sorted(s)[i][1] <= sorted(s)[j][1]
<1>. DEFINE D == 1..Len(s)
            order == CHOOSE p \in Bijection(D, D) : Ordering(s, p)
<1>0. DOMAIN s = D /\ Len(s) \in Nat
  OBVIOUS
<1>1. PICK p : Orders(s, Len(s), p)
  BY OrderExists
<1>2. p \in Bijection(D, D) /\ Ordering(s, p)
  <2>1. p \in [D -> D] /\ IsInjective(p)
    BY <1>1 DEF Orders, IsInjective
  <2>2. p \in Injection(D, D)
    BY <2>1, Zenon DEF Injection
  <2>3. p \in Surjection(D, D)
    BY <1>1, <2>1 DEF Orders, Surjection
  <2>4. Ordering(s, p)
    BY <1>0, <1>1 DEF Orders, Ordering
  <2>. QED
    BY <2>2, <2>3, <2>4, Zenon DEF Bijection
<1>3. order \in Bijection(D, D) /\ Ordering(s, order)
  BY <1>2, Zenon
<1>4. sorted(s) = [i \in D |-> s[order[i]]]
  BY <1>0 DEF sorted
<1>. HIDE DEF order
<1>5. order \in [D -> D] /\ \A t \in D : \E u \in D : order[u] = t
  BY <1>3 DEF Bijection, Injection, Surjection
<1>6. \A i, j \in D : i < j => ~ Less(s[order[j]], s[order[i]])
  BY <1>0, <1>3 DEF Ordering
<1>7. \A i \in D : s[i] \in Pairs
  OBVIOUS
<1>. DEFINE t == [i \in D |-> s[order[i]]]
<1>a. t \in Seq(Pairs) /\ Len(t) = Len(s) /\ \A i \in D : t[i] = s[order[i]] /\ order[i] \in D
  <2>1. \A i \in D : order[i] \in D
    BY <1>5
  <2>2. \A i \in D : s[order[i]] \in Pairs
    BY <1>7, <2>1
  <2>3. t \in [1..Len(s) -> Pairs]
    BY <2>2
  <2>4. t \in Seq(Pairs) /\ Len(t) = Len(s)
    BY <1>0, <2>3
  <2>. QED
    BY <2>1, <2>4
<1>. HIDE DEF t
<1>8. sorted(s) \in Seq(Pairs) /\ Len(sorted(s)) = Len(s) /\ \A i \in D : sorted(s)[i] = s[order[i]] /\ order[i] \in D
  BY <1>4, <1>a DEF t
<1>9. ASSUME NEW i \in D, NEW j \in D, i < j PROVE sorted(s)[i][1] <= sorted(s)[j][1]
  <2>1. PICK r \in Pairs, q \in Pairs : r = s[order[i]] /\ q = s[order[j]]
    BY <1>5, <1>7
  <2>2. ~ Less(q, r)
    BY <1>6, <1>9, <2>1
  <2>3. r[1] <= q[1]
    BY <2>2 DEF Less, Pairs
  <2>. QED
    BY <1>8, <2>1, <2>3
<1>b. ASSUME NEW i \in D PROVE \E j \in D : sorted(s)[i] = s[j]
  BY <1>8
<1>c. ASSUME NEW i \in D PROVE \E j \in D : sorted(s)[j] = s[i]
  <2>1. PICK j \in D : order[j] = i
    BY <1>5
  <2>2. sorted(s)[j] = s[i]
    BY <1>8, <2>1
  <2>. QED
    BY <2>2
<1>. QED
  BY <1>8, <1>9, <1>b, <1>c

(***************************************************************************)
(* Numbers as an int.                                                      *)
(***************************************************************************)
(* A size up to the largest unsigned one, as an int.                       *)
LEMMA AsIntIs ==
    ASSUME NEW n \in Nat, n <= 2 * IntMax + 1
    PROVE  /\ n <= IntMax => AsInt(n) = n
           /\ n > IntMax => AsInt(n) \in Int /\ AsInt(n) < 0
<1>0. PICK m \in Nat : m = IntMax + 1 /\ m > 0
  BY RangesAssumption
<1>1. ASSUME NEW x \in Nat, NEW k \in Nat, x < k PROVE x % k = x
  BY <1>1
<1>2. ASSUME NEW x \in Nat, NEW k \in Nat, k > 0, k <= x, x < 2 * k PROVE x % k = x - k
  BY <1>2
<1>3. AsInt(n) = ((n + m) % (2 * m)) - m
  BY <1>0, RangesAssumption DEF AsInt
<1>4. PICK x \in Nat, k \in Nat : x = n + m /\ k = 2 * m
  BY <1>0
<1>5. CASE n <= IntMax
  <2>1. x < k
    BY <1>0, <1>4, <1>5, RangesAssumption
  <2>2. x % k = x
    BY <1>1, <2>1
  <2>3. AsInt(n) = x - m
    BY <1>3, <1>4, <2>2
  <2>. QED
    BY <1>0, <1>4, <1>5, <2>3, RangesAssumption
<1>6. CASE n > IntMax
  <2>1. k > 0 /\ k <= x /\ x < 2 * k
    BY <1>0, <1>4, <1>6, RangesAssumption
  <2>2. x % k = x - k
    BY <1>2, <2>1
  <2>3. AsInt(n) = x - k - m
    BY <1>3, <1>4, <2>2
  <2>4. x - k - m < 0 /\ x - k - m \in Int
    BY <1>0, <1>4, RangesAssumption
  <2>. QED
    BY <1>6, <2>3, <2>4, RangesAssumption
<1>. QED
  BY <1>5, <1>6, RangesAssumption

(***************************************************************************)
(* Coalescing.                                                             *)
(***************************************************************************)
(* The same recursion for the other fold.                                  *)
Joins(g, s, n) ==
    g = [t \in SUBSET (1..n) |-> IF t = {} THEN <<>> ELSE withNext(g[t \ {Max(t)}], s[Max(t)])]

(* One step of the recursion.                                              *)
LEMMA JoinsAt ==
    ASSUME NEW g, NEW s, NEW n \in Nat, Joins(g, s, n), NEW t \in SUBSET (1..n)
    PROVE  g[t] = IF t = {} THEN <<>> ELSE withNext(g[t \ {Max(t)}], s[Max(t)])
<1>. DEFINE h == [u \in SUBSET (1..n) |-> IF u = {} THEN <<>> ELSE withNext(g[u \ {Max(u)}], s[Max(u)])]
<1>1. g = h
  BY Zenon DEF Joins
<1>2. h[t] = IF t = {} THEN <<>> ELSE withNext(g[t \ {Max(t)}], s[Max(t)])
  BY Zenon
<1>. QED
  BY <1>1, <1>2, Zenon

(* The recursion has a solution.                                           *)
LEMMA JoinsExists == ASSUME NEW s, NEW n \in Nat PROVE \E g : Joins(g, s, n)
<1>. DEFINE Bad == {m \in Nat : ~ \E g : Joins(g, s, m)}
<1>. SUFFICES ASSUME Bad # {} PROVE FALSE
  OBVIOUS
<1>1. PICK m \in Bad : \A j \in Bad : m <= j
  BY Least
<1>2. m # 0
  <2>. DEFINE z == [t \in SUBSET (1..0) |-> <<>>]
  <2>1. z = [t \in SUBSET (1..0) |-> IF t = {} THEN <<>> ELSE withNext(z[t \ {Max(t)}], s[Max(t)])]
    <3>1. \A t \in SUBSET (1..0) : t = {}
      OBVIOUS
    <3>. QED
      BY <3>1, Zenon
  <2>. HIDE DEF z
  <2>2. Joins(z, s, 0)
    BY <2>1, Zenon DEF Joins
  <2>. QED
    BY <2>2
<1>3. PICK g : Joins(g, s, m - 1)
  BY <1>1, <1>2
<1>. DEFINE h == [t \in SUBSET (1..m) |-> IF m \in t THEN withNext(g[t \ {m}], s[m]) ELSE g[t]]
<1>4. ASSUME NEW t \in SUBSET (1..m)
      PROVE  h[t] = IF t = {} THEN <<>> ELSE withNext(h[t \ {Max(t)}], s[Max(t)])
  <2>1. CASE m \in t
    <3>1. Max(t) = m
      BY <2>1, MaxOfFirst
    <3>2. h[t] = withNext(g[t \ {m}], s[m])
      BY <2>1, Zenon
    <3>3. m \notin t \ {m} /\ t \ {m} \in SUBSET (1..m)
      BY Zenon
    <3>4. h[t \ {m}] = g[t \ {m}]
      BY <3>3, Zenon
    <3>. QED
      BY <2>1, <3>1, <3>2, <3>4, Zenon
  <2>2. CASE m \notin t
    <3>1. t \in SUBSET (1..(m - 1)) /\ m - 1 \in Nat
      BY <1>2, <2>2
    <3>2. g[t] = IF t = {} THEN <<>> ELSE withNext(g[t \ {Max(t)}], s[Max(t)])
      BY <1>3, <3>1, JoinsAt
    <3>3. h[t] = g[t] /\ h[t \ {Max(t)}] = g[t \ {Max(t)}]
      BY <2>2, Zenon
    <3>. QED
      BY <3>2, <3>3, Zenon
  <2>. QED
    BY <2>1, <2>2
<1>5. Joins(h, s, m)
  <2>1. h = [t \in SUBSET (1..m) |-> h[t]]
    BY Zenon
  <2>. HIDE DEF h
  <2>2. h = [t \in SUBSET (1..m) |-> IF t = {} THEN <<>> ELSE withNext(h[t \ {Max(t)}], s[Max(t)])]
    BY <1>4, <2>1, Zenon
  <2>. QED
    BY <2>2, Zenon DEF Joins
<1>. QED
  BY <1>1, <1>5

(* What is left of the first k ranges, range after range.                  *)
Coalesces(f, s) ==
    /\ f[0] = <<>>
    /\ \A k \in 1..Len(s) : f[k] = withNext(f[k - 1], s[k])

(* The fold is the last of them.                                           *)
LEMMA CoalescesIs ==
    ASSUME NEW s \in Seq(Pairs)
    PROVE  \E f : Coalesces(f, s) /\ FoldLeft(withNext, <<>>, s) = f[Len(s)]
<1>. DEFINE n == Len(s)
            g == CHOOSE it : it = [t \in SUBSET (1..n) |->
                                     IF t = {} THEN <<>> ELSE withNext(it[t \ {Max(t)}], s[Max(t)])]
            f == [k \in 0..n |-> g[1..k]]
<1>0. n \in Nat /\ DOMAIN s = 1..n
  OBVIOUS
<1>1. FoldLeft(withNext, <<>>, s) = g[1..n]
  BY <1>0, Zenon DEF FoldLeft, MapThenFoldSet
<1>2. Joins(g, s, n)
  <2>1. \E it : it = [t \in SUBSET (1..n) |-> IF t = {} THEN <<>> ELSE withNext(it[t \ {Max(t)}], s[Max(t)])]
    <3>1. PICK it : Joins(it, s, n)
      BY <1>0, JoinsExists
    <3>. QED
      BY <3>1, Zenon DEF Joins
  <2>2. g = [t \in SUBSET (1..n) |-> IF t = {} THEN <<>> ELSE withNext(g[t \ {Max(t)}], s[Max(t)])]
    BY <2>1, Zenon
  <2>. QED
    BY <2>2, Zenon DEF Joins
<1>. HIDE DEF g
<1>3. f[0] = <<>>
  <2>1. 1..0 = {} /\ {} \in SUBSET (1..n) /\ 0 \in 0..n
    OBVIOUS
  <2>2. g[{}] = <<>>
    BY <1>0, <1>2, <2>1, JoinsAt
  <2>. QED
    BY <2>1, <2>2
<1>4. ASSUME NEW k \in 1..n PROVE f[k] = withNext(f[k - 1], s[k])
  <2>0. k \in Nat /\ k \in 1..k /\ \A x \in 1..k : x \in 1..n
    BY <1>0
  <2>1. k \in Nat /\ 1..k \in SUBSET (1..k) /\ k \in 1..k /\ 1..k # {} /\ 1..k \in SUBSET (1..n)
    BY <2>0, Zenon
  <2>2. Max(1..k) = k
    BY <2>1, MaxOfFirst
  <2>3. (1..k) \ {k} = 1..(k - 1)
    OBVIOUS
  <2>4. PICK t : t = 1..k
    OBVIOUS
  <2>5. g[t] = IF t = {} THEN <<>> ELSE withNext(g[t \ {Max(t)}], s[Max(t)])
    <3>1. t \in SUBSET (1..n) /\ n \in Nat
      BY <1>0, <2>1, <2>4
    <3>. HIDE DEF n
    <3>. QED
      BY <1>2, <3>1, JoinsAt
  <2>6. g[1..k] = withNext(g[1..(k - 1)], s[k])
    BY <2>1, <2>2, <2>3, <2>4, <2>5, Zenon
  <2>7. k \in 0..n /\ k - 1 \in 0..n
    OBVIOUS
  <2>. QED
    BY <2>6, <2>7, Zenon
<1>5. f[n] = g[1..n]
  BY <1>0
<1>. HIDE DEF f
<1>6. Coalesces(f, s)
  BY <1>3, <1>4 DEF Coalesces
<1>. QED
  BY <1>1, <1>5, <1>6

(* A byte is in one of the first k ranges.                                 *)
In(s, k, b) == \E i \in 1..k : s[i][1] <= b /\ b <= s[i][2]

(* A byte is in a small gap between them.                                  *)
Between(s, k, b) ==
    \E i, l \in 1..k : s[i][2] < b /\ b < s[l][1] /\ s[l][1] - s[i][2] <= multiPartOverhead + 1

(* Ranges of a file, none of them empty.                                   *)
Within(s, size) == \A i \in 1..Len(s) : 0 <= s[i][1] /\ s[i][1] <= s[i][2] /\ s[i][2] < size

(* Ranges with more than small gaps between them.                          *)
Apart(c) == \A i \in 1..(Len(c) - 1) : c[i][2] + 1 + multiPartOverhead < c[i + 1][1]

(* What is left of the first k ranges: each is in one that is left, these  *)
(* are apart and hold nothing but the first k and small gaps between.      *)
Left(c, s, k, size) ==
    /\ c \in Seq(Pairs) /\ Within(c, size) /\ Apart(c)
    /\ \A i \in 1..k : \E j \in 1..Len(c) : c[j][1] <= s[i][1] /\ s[i][2] <= c[j][2]
    /\ \A j \in 1..Len(c) : \A b \in c[j][1]..c[j][2] : In(s, k, b) \/ Between(s, k, b)
    /\ IF k = 0 THEN c = <<>>
       ELSE /\ c # <<>> /\ c[Len(c)][1] <= s[k][1]
            /\ \E i \in 1..k : s[i][2] = c[Len(c)][2]

(* What holds of the first k ranges holds of one more.                     *)
LEMMA InMore ==
    ASSUME NEW s, NEW k \in Nat, NEW b
    PROVE  /\ In(s, k, b) => In(s, k + 1, b)
           /\ Between(s, k, b) => Between(s, k + 1, b)
<1>1. \A i \in 1..k : i \in 1..(k + 1)
  OBVIOUS
<1>2. In(s, k, b) => In(s, k + 1, b)
  BY <1>1, Zenon DEF In
<1>3. Between(s, k, b) => Between(s, k + 1, b)
  BY <1>1, Zenon DEF Between
<1>. QED
  BY <1>2, <1>3

(* A range that begins behind what is left is added to it.                 *)
LEMMA AddedLeft ==
    ASSUME NEW size \in Int, NEW s \in Seq(Pairs), Within(s, size), NEW k \in Nat, k < Len(s),
           NEW c, Left(c, s, k, size), c = <<>> \/ c[Len(c)][2] + 1 + multiPartOverhead < s[k + 1][1]
    PROVE  Left(Append(c, s[k + 1]), s, k + 1, size)
<1>1. PICK m, r, d : m = k + 1 /\ r = s[m] /\ d = Append(c, r)
  OBVIOUS
<1>2. m \in 1..Len(s) /\ r \in Pairs /\ 0 <= r[1] /\ r[1] <= r[2] /\ r[2] < size /\ r[1] \in Int /\ r[2] \in Int
  BY <1>1 DEF Within, Pairs
<1>3. c \in Seq(Pairs) /\ Len(c) \in Nat
  BY DEF Left
<1>4. d \in Seq(Pairs) /\ Len(d) = Len(c) + 1 /\ d[Len(d)] = r /\ d # <<>> /\ \A j \in 1..Len(c) : d[j] = c[j]
  BY <1>1, <1>2, <1>3
<1>5. Within(d, size)
  <2>. SUFFICES ASSUME NEW i \in 1..Len(d) PROVE 0 <= d[i][1] /\ d[i][1] <= d[i][2] /\ d[i][2] < size
    BY DEF Within
  <2>1. CASE i = Len(d)
    BY <1>2, <1>4, <2>1
  <2>2. CASE i # Len(d)
    <3>1. i \in 1..Len(c)
      BY <1>3, <1>4, <2>2
    <3>. QED
      BY <1>4, <3>1 DEF Left, Within
  <2>. QED
    BY <2>1, <2>2
<1>6. Apart(d)
  <2>. SUFFICES ASSUME NEW i \in 1..(Len(d) - 1) PROVE d[i][2] + 1 + multiPartOverhead < d[i + 1][1]
    BY DEF Apart
  <2>1. CASE i = Len(c)
    <3>1. c # <<>>
      BY <2>1
    <3>2. d[i] = c[Len(c)] /\ d[i + 1] = r
      BY <1>3, <1>4, <2>1
    <3>. QED
      BY <1>1, <3>1, <3>2
  <2>2. CASE i # Len(c)
    <3>1. i \in 1..(Len(c) - 1) /\ i \in 1..Len(c) /\ i + 1 \in 1..Len(c)
      BY <1>3, <1>4, <2>2
    <3>. QED
      BY <1>4, <3>1 DEF Left, Apart
  <2>. QED
    BY <2>1, <2>2
<1>7. ASSUME NEW i \in 1..m PROVE \E j \in 1..Len(d) : d[j][1] <= s[i][1] /\ s[i][2] <= d[j][2]
  <2>1. CASE i = m
    <3>1. PICK j \in 1..Len(d) : d[j] = r
      BY <1>3, <1>4
    <3>2. s[i] = r /\ r[1] <= r[1] /\ r[2] <= r[2]
      BY <1>1, <1>2, <2>1
    <3>. QED
      BY <3>1, <3>2, Zenon
  <2>2. CASE i # m
    <3>1. i \in 1..k
      BY <1>1, <2>2
    <3>2. PICK j \in 1..Len(c) : c[j][1] <= s[i][1] /\ s[i][2] <= c[j][2]
      BY <3>1 DEF Left
    <3>3. j \in 1..Len(d) /\ d[j] = c[j]
      BY <1>3, <1>4
    <3>. QED
      BY <3>2, <3>3
  <2>. QED
    BY <2>1, <2>2
<1>8. ASSUME NEW j \in 1..Len(d), NEW b \in d[j][1]..d[j][2] PROVE In(s, m, b) \/ Between(s, m, b)
  <2>1. CASE j = Len(d)
    <3>1. m \in 1..m /\ s[m][1] <= b /\ b <= s[m][2]
      BY <1>1, <1>2, <1>4, <2>1
    <3>. QED
      BY <3>1 DEF In
  <2>2. CASE j # Len(d)
    <3>1. j \in 1..Len(c) /\ b \in c[j][1]..c[j][2]
      BY <1>3, <1>4, <2>2
    <3>2. In(s, k, b) \/ Between(s, k, b)
      BY <3>1 DEF Left
    <3>. QED
      BY <1>1, <3>2, InMore
  <2>. QED
    BY <2>1, <2>2
<1>9. m # 0 /\ d[Len(d)][1] <= s[m][1] /\ m \in 1..m /\ s[m][2] = d[Len(d)][2]
  BY <1>1, <1>2, <1>4
<1>10. Left(d, s, m, size)
  BY <1>4, <1>5, <1>6, <1>7, <1>8, <1>9 DEF Left
<1>. QED
  BY <1>1, <1>10

(* A range that begins within the last one left, or close behind, becomes  *)
(* part of it.                                                             *)
LEMMA MergedLeft ==
    ASSUME NEW size \in Int, NEW s \in Seq(Pairs), Within(s, size), NEW k \in Nat, k < Len(s),
           NEW c, Left(c, s, k, size), c # <<>>,
           s[k + 1][1] <= c[Len(c)][2] + 1 + multiPartOverhead,
           k = 0 \/ s[k][1] <= s[k + 1][1]
    PROVE  Left(Append(Front(c), merged(Last(c), s[k + 1])), s, k + 1, size)
<1>1. PICK m, r, last, d :
        m = k + 1 /\ r = s[m] /\ last = c[Len(c)] /\ d = Append(Front(c), merged(last, r))
  OBVIOUS
<1>2. m \in 1..Len(s) /\ r \in Pairs /\ 0 <= r[1] /\ r[1] <= r[2] /\ r[2] < size /\ r[1] \in Int /\ r[2] \in Int
  <2>1. m \in 1..Len(s)
    BY <1>1
  <2>2. r \in Pairs
    BY <1>1, <2>1
  <2>3. r[1] \in Int /\ r[2] \in Int
    BY <2>2, PairIs
  <2>4. 0 <= r[1] /\ r[1] <= r[2] /\ r[2] < size
    BY <1>1, <2>1, Zenon DEF Within
  <2>. QED
    BY <2>1, <2>2, <2>3, <2>4
<1>3. c \in Seq(Pairs) /\ Len(c) \in Nat /\ Len(c) # 0 /\ last \in Pairs /\ last[1] \in Int /\ last[2] \in Int
      /\ 0 <= last[1] /\ last[1] <= last[2] /\ last[2] < size
  <2>1. c \in Seq(Pairs) /\ Len(c) \in 1..Len(c) /\ Within(c, size)
    BY DEF Left
  <2>2. last \in Pairs /\ Len(c) \in Nat /\ Len(c) # 0
    BY <1>1, <2>1
  <2>3. 0 <= last[1] /\ last[1] <= last[2] /\ last[2] < size
    BY <1>1, <2>1 DEF Within
  <2>. QED
    BY <2>1, <2>2, <2>3, PairIs
<1>k. k \in 1..k /\ k # 0 /\ last[1] <= s[k][1] /\ s[k][1] \in Int
  <2>1. k # 0
    BY <1>3 DEF Left
  <2>2. k \in 1..Len(s) /\ s[k] \in Pairs
    BY <2>1
  <2>3. c[Len(c)][1] <= s[k][1]
    BY <2>1 DEF Left
  <2>. QED
    BY <1>1, <2>1, <2>2, <2>3, PairIs
<1>b. last[1] <= r[1]
  BY <1>1, <1>2, <1>3, <1>k
<1>n. PICK new \in Int : merged(last, r) = <<last[1], new>> /\ new = IF last[2] >= r[2] THEN last[2] ELSE r[2]
  BY <1>2, <1>3, MaxOfTwo DEF merged
<1>c. <<last[1], new>> \in Pairs /\ last[2] <= new /\ r[2] <= new /\ new < size /\ (new = last[2] \/ new = r[2])
  <2>1. <<last[1], new>> \in Pairs
    BY <1>3, PairIs
  <2>. QED
    BY <1>2, <1>3, <1>n, <2>1
<1>4. d \in Seq(Pairs) /\ Len(d) = Len(c) /\ d[Len(d)] = <<last[1], new>> /\ d # <<>>
      /\ \A j \in 1..Len(c) : j # Len(c) => d[j] = c[j]
  <2>1. PICK f : f = Front(c)
    OBVIOUS
  <2>2. f \in Seq(Pairs) /\ Len(f) = Len(c) - 1 /\ \A j \in 1..(Len(c) - 1) : f[j] = c[j]
    <3>1. f = SubSeq(c, 1, Len(c) - 1)
      BY <2>1 DEF Front
    <3>2. PICK n : n = Len(c) - 1
      OBVIOUS
    <3>3. n \in Nat /\ n <= Len(c) /\ n = Len(c) - 1
      BY <1>3, <3>2
    <3>4. \A i \in 1..n : c[i] \in Pairs
      BY <1>3, <3>3
    <3>5. f = SubSeq(c, 1, n) /\ c \in Seq(Pairs)
      BY <1>3, <3>1, <3>2
    <3>6. f \in Seq(Pairs) /\ Len(f) = n /\ \A i \in 1..n : f[i] = c[i]
      <4>1. /\ SubSeq(c, 1, n) \in Seq(Pairs)
            /\ Len(SubSeq(c, 1, n)) = IF 1 <= n THEN n - 1 + 1 ELSE 0
            /\ \A i \in 1..(n - 1 + 1) : SubSeq(c, 1, n)[i] = c[1 + i - 1]
        <5>1. 1 \in Int /\ n \in Int
          BY <3>3
        <5>. QED
          BY <3>4, <5>1, SubSeqProperties
      <4>2. n - 1 + 1 = n /\ (IF 1 <= n THEN n - 1 + 1 ELSE 0) = n /\ \A i \in 1..n : 1 + i - 1 = i
        BY <3>3
      <4>. QED
        BY <3>5, <4>1, <4>2, Zenon
    <3>. QED
      BY <3>3, <3>6
  <2>3. d = Append(f, <<last[1], new>>)
    BY <1>1, <1>n, <2>1
  <2>4. PICK x \in Pairs : x = <<last[1], new>>
    BY <1>c
  <2>5. d \in Seq(Pairs) /\ Len(d) = Len(f) + 1 /\ d[Len(f) + 1] = x /\ \A j \in 1..Len(f) : d[j] = f[j]
    BY <2>2, <2>3, <2>4
  <2>6. d \in Seq(Pairs) /\ Len(d) = Len(c) /\ d[Len(d)] = x /\ d # <<>>
    BY <1>3, <2>2, <2>5
  <2>7. \A j \in 1..Len(c) : j # Len(c) => d[j] = c[j]
    BY <1>3, <2>2, <2>5
  <2>. QED
    BY <2>4, <2>6, <2>7
<1>d. d[Len(d)][1] = last[1] /\ d[Len(d)][2] = new
  BY <1>4
<1>5. Within(d, size)
  <2>. SUFFICES ASSUME NEW i \in 1..Len(d) PROVE 0 <= d[i][1] /\ d[i][1] <= d[i][2] /\ d[i][2] < size
    BY DEF Within
  <2>1. CASE i = Len(d)
    BY <1>3, <1>c, <1>d, <2>1
  <2>2. CASE i # Len(d)
    BY <1>4, <2>2 DEF Left, Within
  <2>. QED
    BY <2>1, <2>2
<1>6. Apart(d)
  <2>. SUFFICES ASSUME NEW i \in 1..(Len(d) - 1) PROVE d[i][2] + 1 + multiPartOverhead < d[i + 1][1]
    BY DEF Apart
  <2>1. c[i][2] + 1 + multiPartOverhead < c[i + 1][1]
    BY <1>4 DEF Left, Apart
  <2>2. d[i] = c[i] /\ d[i + 1][1] = c[i + 1][1]
    <3>1. i \in 1..Len(c) /\ i # Len(c) /\ i + 1 \in 1..Len(c)
      BY <1>3, <1>4
    <3>2. CASE i + 1 = Len(c)
      BY <1>1, <1>4, <1>d, <3>1, <3>2
    <3>. QED
      BY <1>4, <3>1, <3>2
  <2>. QED
    BY <2>1, <2>2
<1>7. ASSUME NEW i \in 1..m PROVE \E j \in 1..Len(d) : d[j][1] <= s[i][1] /\ s[i][2] <= d[j][2]
  <2>0. Len(d) \in 1..Len(d)
    BY <1>3, <1>4
  <2>1. CASE i = m
    <3>1. d[Len(d)][1] <= s[i][1] /\ s[i][2] <= d[Len(d)][2]
      BY <1>1, <1>b, <1>c, <1>d, <2>1
    <3>. QED
      BY <2>0, <3>1
  <2>2. CASE i # m
    <3>1. i \in 1..k
      BY <1>1, <2>2
    <3>2. PICK j \in 1..Len(c) : c[j][1] <= s[i][1] /\ s[i][2] <= c[j][2]
      BY <3>1 DEF Left
    <3>3. CASE j # Len(c)
      <4>1. j \in 1..Len(d) /\ d[j] = c[j]
        BY <1>4, <3>3
      <4>. QED
        BY <3>2, <4>1
    <3>4. CASE j = Len(c)
      <4>1. i \in 1..Len(s) /\ s[i] \in Pairs
        BY <1>2, <3>1
      <4>2. s[i][2] \in Int
        BY <4>1 DEF Pairs
      <4>3. d[Len(d)][1] <= s[i][1] /\ s[i][2] <= d[Len(d)][2]
        BY <1>1, <1>3, <1>c, <1>d, <3>2, <3>4, <4>2
      <4>. QED
        BY <2>0, <4>3
    <3>. QED
      BY <3>3, <3>4
  <2>. QED
    BY <2>1, <2>2
<1>8. ASSUME NEW j \in 1..Len(d), NEW b \in d[j][1]..d[j][2] PROVE In(s, m, b) \/ Between(s, m, b)
  <2>1. ASSUME NEW i \in 1..Len(c), b \in c[i][1]..c[i][2] PROVE In(s, m, b) \/ Between(s, m, b)
    <3>1. In(s, k, b) \/ Between(s, k, b)
      BY <2>1 DEF Left
    <3>. QED
      BY <1>1, <3>1, InMore
  <2>2. CASE j # Len(d)
    BY <1>4, <2>1, <2>2
  <2>3. CASE j = Len(d)
    <3>1. b \in last[1]..new
      BY <1>d, <2>3
    <3>2. CASE b <= last[2]
      <4>1. b \in c[Len(c)][1]..c[Len(c)][2] /\ Len(c) \in 1..Len(c)
        BY <1>1, <1>3, <3>1, <3>2
      <4>. QED
        BY <2>1, <4>1
    <3>3. CASE last[2] < b /\ r[1] <= b
      <4>1. m \in 1..m /\ s[m][1] <= b /\ b <= s[m][2]
        BY <1>1, <1>2, <1>3, <1>c, <3>1, <3>3
      <4>. QED
        BY <4>1 DEF In
    <3>4. CASE last[2] < b /\ b < r[1]
      <4>1. PICK i \in 1..k : s[i][2] = last[2]
        BY <1>1, <1>k DEF Left
      <4>2. i \in 1..m /\ m \in 1..m
        BY <1>1
      <4>3. s[m][1] - s[i][2] <= multiPartOverhead + 1
        <5>1. multiPartOverhead \in Int
          BY RangesAssumption
        <5>2. r[1] <= last[2] + 1 + multiPartOverhead
          BY <1>1
        <5>3. r[1] - last[2] <= multiPartOverhead + 1
          <6>1. \A x, y, z \in Int : x <= y + 1 + z => x - y <= z + 1
            OBVIOUS
          <6>. QED
            BY <1>2, <1>3, <5>1, <5>2, <6>1, Zenon
        <5>. QED
          BY <1>1, <4>1, <5>3
      <4>4. s[i][2] < b /\ b < s[m][1]
        BY <1>1, <3>4, <4>1
      <4>. QED
        BY <4>2, <4>3, <4>4 DEF Between
    <3>. QED
      BY <1>2, <1>3, <3>1, <3>2, <3>3, <3>4
  <2>. QED
    BY <2>2, <2>3
<1>9. m # 0 /\ d[Len(d)][1] <= s[m][1] /\ \E i \in 1..m : s[i][2] = d[Len(d)][2]
  <2>1. CASE new = r[2]
    <3>1. m \in 1..m /\ s[m][2] = d[Len(d)][2]
      BY <1>1, <1>d, <2>1
    <3>. QED
      BY <1>1, <1>b, <1>d, <3>1
  <2>2. CASE new = last[2]
    <3>1. PICK i \in 1..k : s[i][2] = last[2]
      BY <1>1, <1>k DEF Left
    <3>2. i \in 1..m /\ s[i][2] = d[Len(d)][2]
      BY <1>1, <1>d, <2>2, <3>1
    <3>. QED
      BY <1>1, <1>b, <1>d, <3>2
  <2>. QED
    BY <1>c, <2>1, <2>2
<1>10. Left(d, s, m, size)
  BY <1>4, <1>5, <1>6, <1>7, <1>8, <1>9 DEF Left
<1>. QED
  BY <1>1, <1>10 DEF Last

(* How far a range of a file reaches fits an int, if the file is not close *)
(* to the largest size.                                                    *)
Reachable(size) == size > 0 => size + multiPartOverhead <= IntMax

LEMMA ReachIs ==
    ASSUME NEW size \in Int, Reachable(size), NEW r, r[2] \in Int, 0 <= r[2], r[2] < size
    PROVE  Reach(r) = r[2] + 1 + multiPartOverhead
<1>1. PICK n \in Nat : n = r[2] + 1 + multiPartOverhead
  BY RangesAssumption
<1>2. n <= IntMax
  BY <1>1, RangesAssumption DEF Reachable
<1>3. AsInt(n) = n
  BY <1>2, AsIntIs, RangesAssumption
<1>. QED
  BY <1>1, <1>3 DEF Reach

(* What coalescing leaves of the ranges it is given.                       *)
LEMMA CoalescedIs ==
    ASSUME NEW size \in Int, Reachable(size), NEW s \in Seq(Pairs), Within(s, size),
           \A i, j \in 1..Len(s) : i < j => s[i][1] <= s[j][1]
    PROVE  Left(FoldLeft(withNext, <<>>, s), s, Len(s), size)
<1>1. PICK f : Coalesces(f, s) /\ FoldLeft(withNext, <<>>, s) = f[Len(s)]
  BY CoalescesIs
<1>. DEFINE Bad == {k \in 0..Len(s) : ~ Left(f[k], s, k, size)}
<1>2. Len(s) \in Nat /\ Bad \in SUBSET Nat /\ Len(s) \in 0..Len(s)
  OBVIOUS
<1>3. Bad = {}
  <2>. SUFFICES ASSUME Bad # {} PROVE FALSE
    OBVIOUS
  <2>1. PICK m \in Bad : \A k \in Bad : m <= k
    <3>. HIDE DEF Bad
    <3>. QED
      BY <1>2, Least
  <2>2. m # 0
    <3>1. f[0] = <<>> /\ <<>> \in Seq(Pairs) /\ Len(<<>>) = 0
      BY <1>1 DEF Coalesces
    <3>2. Left(<<>>, s, 0, size)
      BY <3>1 DEF Left, Within, Apart
    <3>. QED
      BY <3>1, <3>2
  <2>3. PICK k, c, r : k = m - 1 /\ c = f[k] /\ r = s[m]
    OBVIOUS
  <2>4. k \in Nat /\ k < Len(s) /\ m = k + 1 /\ k \in 0..Len(s) /\ m \in 1..Len(s) /\ ~ m <= k
    BY <1>2, <2>2, <2>3
  <2>5. Left(c, s, k, size)
    BY <2>1, <2>3, <2>4
  <2>6. f[m] = withNext(c, r)
    BY <1>1, <2>3, <2>4 DEF Coalesces
  <2>7. k = 0 \/ s[k][1] <= s[k + 1][1]
    BY <2>4
  <2>a. ASSUME c # <<>> PROVE Reach(Last(c)) = c[Len(c)][2] + 1 + multiPartOverhead
    <3>1. c \in Seq(Pairs) /\ Len(c) \in 1..Len(c) /\ Within(c, size)
      BY <2>5, <2>a DEF Left
    <3>2. PICK x, a, b : x = c[Len(c)] /\ a = x[1] /\ b = x[2]
      OBVIOUS
    <3>3. a \in Int /\ b \in Int
      <4>1. x \in Pairs
        BY <3>1, <3>2
      <4>. QED
        BY <3>2, <4>1, PairIs
    <3>4. 0 <= a /\ a <= b /\ b < size
      BY <3>1, <3>2 DEF Within
    <3>5. 0 <= b
      BY <3>3, <3>4
    <3>6. Reach(x) = x[2] + 1 + multiPartOverhead
      BY <3>2, <3>3, <3>4, <3>5, ReachIs
    <3>. QED
      BY <3>2, <3>6 DEF Last
  <2>8. CASE c # <<>> /\ r[1] <= Reach(Last(c))
    <3>1. s[k + 1][1] <= c[Len(c)][2] + 1 + multiPartOverhead
      BY <2>3, <2>4, <2>8, <2>a
    <3>2. Left(Append(Front(c), merged(Last(c), s[k + 1])), s, k + 1, size)
      BY <2>4, <2>5, <2>7, <2>8, <3>1, MergedLeft
    <3>3. f[m] = Append(Front(c), merged(Last(c), r))
      BY <2>6, <2>8 DEF withNext
    <3>. QED
      BY <2>1, <2>3, <2>4, <3>2, <3>3
  <2>9. CASE ~ (c # <<>> /\ r[1] <= Reach(Last(c)))
    <3>1. c = <<>> \/ c[Len(c)][2] + 1 + multiPartOverhead < s[k + 1][1]
      <4>. SUFFICES ASSUME c # <<>> PROVE c[Len(c)][2] + 1 + multiPartOverhead < s[k + 1][1]
        OBVIOUS
      <4>1. c \in Seq(Pairs) /\ Len(c) \in 1..Len(c)
        BY <2>5 DEF Left
      <4>2. c[Len(c)][2] \in Int /\ r[1] \in Int /\ multiPartOverhead \in Int
        <5>1. c[Len(c)] \in Pairs /\ r \in Pairs
          BY <2>3, <2>4, <4>1
        <5>2. multiPartOverhead \in Int
          BY RangesAssumption
        <5>. QED
          BY <5>1, <5>2, PairIs
      <4>3. ~ r[1] <= c[Len(c)][2] + 1 + multiPartOverhead
        BY <2>9, <2>a
      <4>4. PICK a \in Int, b \in Int, o \in Int : a = c[Len(c)][2] /\ b = r[1] /\ o = multiPartOverhead
        BY <4>2
      <4>5. a + 1 + o < b
        BY <4>3, <4>4
      <4>6. b = s[k + 1][1]
        BY <2>3, <2>4, <4>4
      <4>. QED
        BY <4>4, <4>5, <4>6
    <3>2. Left(Append(c, s[k + 1]), s, k + 1, size)
      BY <2>4, <2>5, <3>1, AddedLeft
    <3>3. f[m] = Append(c, r)
      BY <2>6, <2>9, Zenon DEF withNext
    <3>. QED
      BY <2>1, <2>3, <2>4, <3>2, <3>3
  <2>. QED
    BY <2>8, <2>9
<1>. QED
  BY <1>1, <1>2, <1>3

(***************************************************************************)
(* The ranges a header asks for.                                           *)
(***************************************************************************)
(* The specs of a header that asks for ranges.                             *)
SpecOk(spec) == spec \in Seq(Nat \cup {-1}) /\ WellFormed(spec)

(* The bytes a spec asks for, from its first byte to its last.             *)
FirstAsked(spec, size) == Max({0, IF spec[1] < 0 THEN size - spec[2] ELSE spec[1]})
LastAsked(spec, size) == IF spec[1] < 0 \/ spec[2] < 0 THEN size - 1 ELSE Min({spec[2], size - 1})

(* A spec becomes the range of its bytes, or none if there are none.       *)
LEMMA RequestedIs ==
    ASSUME NEW size \in Int, NEW spec, SpecOk(spec)
    PROVE  LET a == FirstAsked(spec, size)
               b == LastAsked(spec, size)
           IN  /\ a \in Nat /\ b \in Int /\ b < size
               /\ Requested(spec, size) = IF a <= b THEN <<<<a, b>>>> ELSE <<>>
<1>1. PICK x, y : x = spec[1] /\ y = spec[2]
  OBVIOUS
<1>2. x \in Nat \cup {-1} /\ y \in Nat \cup {-1} /\ (x >= 0 \/ y >= 0)
  <2>1. Len(spec) = 2 /\ spec \in Seq(Nat \cup {-1}) /\ spec # <<-1, -1>>
    BY DEF SpecOk, WellFormed
  <2>2. x \in Nat \cup {-1} /\ y \in Nat \cup {-1}
    <3>1. PICK T : T = Nat \cup {-1}
      OBVIOUS
    <3>2. spec \in Seq(T) /\ Len(spec) = 2
      BY <2>1, <3>1
    <3>3. spec[1] \in T /\ spec[2] \in T
      BY <3>2
    <3>. QED
      BY <1>1, <3>1, <3>3
  <2>3. ASSUME x = -1, y = -1 PROVE FALSE
    <3>1. spec = <<x, y>>
      BY <1>1, <2>1
    <3>. QED
      BY <2>1, <2>3, <3>1
  <2>. QED
    BY <2>2, <2>3
<1>3. CASE x < 0
  <2>1. y \in Nat /\ size - y \in Int /\ 0 \in Int
    BY <1>2, <1>3
  <2>2. PICK a \in Int : a = Max({0, size - y}) /\ a = IF 0 >= size - y THEN 0 ELSE size - y
    BY <2>1, MaxOfTwo
  <2>3. Resolved(spec, size) = <<a, size - 1>>
    BY <1>1, <1>3, <2>2 DEF Resolved
  <2>4. FirstAsked(spec, size) = a /\ LastAsked(spec, size) = size - 1
    BY <1>1, <1>3, <2>2 DEF FirstAsked, LastAsked
  <2>5. Min({size - 1, size - 1}) = size - 1
    BY MinOfTwo
  <2>6. PICK r : r = Resolved(spec, size)
    OBVIOUS
  <2>7. r[1] = a /\ r[2] = size - 1
    BY <2>3, <2>6
  <2>8. Clipped(r, size) = <<a, size - 1>> /\ (Satisfiable(r, size) <=> a <= size - 1 /\ a < size)
    BY <2>5, <2>7 DEF Clipped, Satisfiable
  <2>9. Requested(spec, size) = IF a <= size - 1 THEN <<<<a, size - 1>>>> ELSE <<>>
    BY <2>6, <2>8 DEF Requested
  <2>. QED
    BY <2>2, <2>4, <2>9
<1>4. CASE x >= 0
  <2>0. x \in Nat /\ ~ x < 0 /\ Max({0, x}) = x
    <3>1. x \in Nat /\ x \in Int
      BY <1>2, <1>4
    <3>2. Max({0, x}) = IF 0 >= x THEN 0 ELSE x
      BY <3>1, MaxOfTwo
    <3>. QED
      BY <3>1, <3>2
  <2>1. PICK z \in Int : z = (IF y < 0 THEN size - 1 ELSE y) /\ Resolved(spec, size) = <<x, z>>
    <3>1. y \in Int
      BY <1>2
    <3>. QED
      BY <1>1, <2>0, <3>1 DEF Resolved
  <2>2. PICK e \in Int : e = Min({z, size - 1}) /\ e = IF z <= size - 1 THEN z ELSE size - 1
    BY MinOfTwo
  <2>4. FirstAsked(spec, size) = x /\ LastAsked(spec, size) = e
    BY <1>1, <2>0, <2>1, <2>2 DEF FirstAsked, LastAsked
  <2>6. PICK r : r = Resolved(spec, size)
    OBVIOUS
  <2>7. r[1] = x /\ r[2] = z
    BY <2>1, <2>6
  <2>8. Clipped(r, size) = <<x, e>> /\ (Satisfiable(r, size) <=> x <= z /\ x < size)
    BY <2>2, <2>7 DEF Clipped, Satisfiable
  <2>9. (x <= z /\ x < size) <=> x <= e
    <3>1. \A a, b, c, d \in Int : d = (IF b <= c - 1 THEN b ELSE c - 1) => ((a <= b /\ a < c) <=> a <= d)
      OBVIOUS
    <3>2. x \in Int
      BY <2>0
    <3>. QED
      BY <2>1, <2>2, <3>1, <3>2, Zenon
  <2>10. Requested(spec, size) = IF x <= e THEN <<<<x, e>>>> ELSE <<>>
    BY <2>6, <2>8, <2>9 DEF Requested
  <2>11. e < size
    BY <2>2
  <2>. QED
    BY <2>0, <2>4, <2>10, <2>11
<1>. QED
  BY <1>2, <1>3, <1>4

(* The elements of the first k sequences, each of one or none.             *)
Gathers(u, s, k, S) ==
    /\ u \in Seq(S)
    /\ \A i \in 1..Len(u) : \E j \in 1..k : Len(s[j]) = 1 /\ u[i] = s[j][1]
    /\ \A j \in 1..k : Len(s[j]) = 1 => \E i \in 1..Len(u) : u[i] = s[j][1]

(* What a concatenation of sequences of one or none holds.                 *)
LEMMA PiecesOf ==
    ASSUME NEW S, NEW s \in Seq(Seq(S)), \A i \in 1..Len(s) : Len(s[i]) <= 1,
           NEW c, c = FlattenSeq(s)
    PROVE  Gathers(c, s, Len(s), S)
<1>. DEFINE Bad == {k \in 0..Len(s) : ~ Gathers(Upto(s, k), s, k, S)}
<1>1. Len(s) \in Nat /\ Bad \in SUBSET Nat /\ Len(s) \in 0..Len(s)
  OBVIOUS
<1>2. Bad = {}
  <2>. SUFFICES ASSUME Bad # {} PROVE FALSE
    OBVIOUS
  <2>1. PICK m \in Bad : \A k \in Bad : m <= k
    <3>. HIDE DEF Bad
    <3>. QED
      BY <1>1, Least
  <2>2. m # 0
    <3>1. Upto(s, 0) = <<>> /\ <<>> \in Seq(S) /\ Len(<<>>) = 0
      BY UptoIs
    <3>2. PICK u : u = Upto(s, 0)
      OBVIOUS
    <3>3. u \in Seq(S) /\ Len(u) = 0 /\ 1..0 = {}
      <4>1. u \in Seq(S) /\ Len(u) = 0
        BY <3>1, <3>2, Zenon
      <4>. QED
        BY <4>1
    <3>4. Gathers(u, s, 0, S)
      BY <3>3 DEF Gathers
    <3>. QED
      BY <3>2, <3>4
  <2>3. PICK k : k = m - 1
    OBVIOUS
  <2>4. k \in Nat /\ m = k + 1 /\ k \in 0..Len(s) /\ k \in 0..(Len(s) - 1) /\ m \in 1..Len(s) /\ ~ m <= k
    BY <1>1, <2>2, <2>3
  <2>5. Gathers(Upto(s, k), s, k, S)
    BY <2>1, <2>4
  <2>. HIDE DEF Bad
  <2>6. PICK u, v, x : u = Upto(s, k) /\ v = Upto(s, m) /\ x = s[m]
    OBVIOUS
  <2>7. u \in Seq(S) /\ x \in Seq(S) /\ v = u \o x /\ Len(x) \in {0, 1}
    <3>1. u \in Seq(S) /\ v = u \o x
      BY <2>4, <2>5, <2>6, UptoIs DEF Gathers
    <3>2. x \in Seq(S) /\ Len(x) <= 1
      BY <2>4, <2>6
    <3>3. Len(x) \in {0, 1}
      <4>1. PICK b \in Nat : b = Len(x)
        BY <3>2
      <4>. QED
        BY <3>2, <4>1
    <3>. QED
      BY <3>1, <3>2, <3>3
  <2>8. /\ v \in Seq(S) /\ Len(v) = Len(u) + Len(x) /\ Len(u) \in Nat /\ Len(x) \in Nat
        /\ \A j \in 1..Len(u) : v[j] = u[j]
        /\ \A j \in 1..Len(x) : v[Len(u) + j] = x[j]
    BY <2>7, ConcatIs
  <2>9. ASSUME NEW i \in 1..Len(v) PROVE \E j \in 1..m : Len(s[j]) = 1 /\ v[i] = s[j][1]
    <3>1. CASE i <= Len(u)
      <4>1. i \in 1..Len(u)
        BY <2>8, <3>1
      <4>2. PICK j \in 1..k : Len(s[j]) = 1 /\ u[i] = s[j][1]
        BY <2>5, <2>6, <4>1 DEF Gathers
      <4>3. j \in 1..m
        BY <2>4
      <4>. QED
        BY <2>8, <4>1, <4>2, <4>3
    <3>2. CASE ~ i <= Len(u)
      <4>1. Len(x) = 1 /\ i = Len(u) + 1 /\ 1 \in 1..Len(x) /\ m \in 1..m
        <5>1. PICK a, b \in Nat : a = Len(u) /\ b = Len(x)
          BY <2>8
        <5>2. i \in 1..(a + b) /\ b \in {0, 1} /\ ~ i <= a
          BY <2>7, <2>8, <3>2, <5>1
        <5>3. b = 1 /\ i = a + 1
          BY <5>2
        <5>4. m \in 1..m
          BY <2>4
        <5>. QED
          BY <5>1, <5>3, <5>4
      <4>. QED
        BY <2>6, <2>8, <4>1
    <3>. QED
      BY <3>1, <3>2
  <2>10. ASSUME NEW j \in 1..m, Len(s[j]) = 1 PROVE \E i \in 1..Len(v) : v[i] = s[j][1]
    <3>1. CASE j = m
      <4>0. Len(x) = 1
        BY <2>6, <2>10, <3>1
      <4>1. Len(x) = 1 /\ 1 \in 1..Len(x) /\ Len(u) + 1 \in 1..Len(v)
        BY <2>8, <4>0
      <4>. QED
        BY <2>6, <2>8, <3>1, <4>1
    <3>2. CASE j # m
      <4>1. j \in 1..k
        BY <2>4, <3>2
      <4>2. PICK i \in 1..Len(u) : u[i] = s[j][1]
        BY <2>5, <2>6, <2>10, <4>1 DEF Gathers
      <4>3. i \in 1..Len(v)
        BY <2>8
      <4>. QED
        BY <2>8, <4>2, <4>3
    <3>. QED
      BY <3>1, <3>2
  <2>11. Gathers(v, s, m, S)
    BY <2>8, <2>9, <2>10 DEF Gathers
  <2>. QED
    BY <2>1, <2>6, <2>11 DEF Bad
<1>3. Gathers(Upto(s, Len(s)), s, Len(s), S)
  BY <1>1, <1>2
<1>4. Upto(s, Len(s)) = c
  BY UptoIs
<1>. QED
  BY <1>3, <1>4

(* A byte that one of n ranges holds, which begin and end as given.        *)
Asks(first, last, n, b) == \E i \in 1..n : first[i] <= b /\ b <= last[i]

(* Ranges that hold every byte asked for, and beside these only bytes of   *)
(* small gaps.                                                             *)
Answering(c, first, last, n, size) ==
    /\ c \in Seq(Pairs) /\ Within(c, size) /\ Apart(c)
    /\ c = <<>> => \A b \in Int : ~ Asks(first, last, n, b)
    /\ \A b \in Int : Asks(first, last, n, b) => In(c, Len(c), b)
    /\ \A b \in Int : In(c, Len(c), b) =>
         \/ Asks(first, last, n, b)
         \/ \E a, e \in Int : /\ Asks(first, last, n, a) /\ Asks(first, last, n, e)
                              /\ a < b /\ b < e /\ e - a <= multiPartOverhead + 1

(* What the bounds of the ranges asked for are known to be.                *)
Bounds(first, last, n, size) ==
    \A j \in 1..n : first[j] \in Nat /\ last[j] \in Int /\ last[j] < size

(* The ranges of at least one byte, one after the other.                   *)
Alone(a, b) == IF a <= b THEN <<<<a, b>>>> ELSE <<>>
Gathered(r, first, last, n) == r = FlattenSeq([j \in 1..n |-> Alone(first[j], last[j])])

AtMostOne(q, a, b) ==
    /\ q \in Seq(Pairs) /\ Len(q) <= 1
    /\ Len(q) = 1 => a <= b /\ q[1][1] = a /\ q[1][2] = b
    /\ a <= b => Len(q) = 1

LEMMA AloneIs == ASSUME NEW a \in Int, NEW b \in Int PROVE AtMostOne(Alone(a, b), a, b)
<1>0. PICK q : q = Alone(a, b)
  OBVIOUS
<1>. SUFFICES AtMostOne(q, a, b)
  BY <1>0
<1>1. PICK x \in Pairs : x = <<a, b>>
  BY DEF Pairs
<1>2. x[1] = a /\ x[2] = b
  BY <1>1
<1>3. CASE a <= b
  <2>1. q = <<x>>
    BY <1>0, <1>1, <1>3 DEF Alone
  <2>. QED
    BY <1>2, <1>3, <2>1 DEF AtMostOne
<1>4. CASE ~ a <= b
  <2>1. q = <<>>
    BY <1>0, <1>4 DEF Alone
  <2>. QED
    BY <1>4, <2>1 DEF AtMostOne
<1>. QED
  BY <1>3, <1>4

(* The ranges requested are those that hold bytes.                         *)
RequestedAre(r, first, last, n, size) ==
    /\ r \in Seq(Pairs) /\ Within(r, size)
    /\ \A i \in 1..Len(r) : \E j \in 1..n : r[i][1] = first[j] /\ r[i][2] = last[j]
    /\ \A j \in 1..n : first[j] <= last[j] => \E i \in 1..Len(r) : r[i][1] = first[j] /\ r[i][2] = last[j]

LEMMA RangesRequested ==
    ASSUME NEW n \in Nat, NEW size \in Int, NEW first, NEW last, Bounds(first, last, n, size),
           NEW r, Gathered(r, first, last, n)
    PROVE  RequestedAre(r, first, last, n, size)
<1>1. PICK q : q = [j \in 1..n |-> Alone(first[j], last[j])]
  OBVIOUS
<1>2. ASSUME NEW j \in 1..n PROVE first[j] \in Nat /\ first[j] \in Int /\ last[j] \in Int /\ last[j] < size
  BY DEF Bounds
<1>3. ASSUME NEW j \in 1..n
      PROVE  /\ q[j] \in Seq(Pairs) /\ Len(q[j]) <= 1
             /\ Len(q[j]) = 1 => first[j] <= last[j] /\ q[j][1][1] = first[j] /\ q[j][1][2] = last[j]
             /\ first[j] <= last[j] => Len(q[j]) = 1
  <2>1. q[j] = Alone(first[j], last[j]) /\ first[j] \in Int /\ last[j] \in Int
    BY <1>1, <1>2
  <2>2. AtMostOne(q[j], first[j], last[j])
    BY <2>1, AloneIs
  <2>. QED
    BY <2>2 DEF AtMostOne
<1>4. q \in Seq(Seq(Pairs)) /\ Len(q) = n
  <2>1. PICK T : T = Seq(Pairs)
    OBVIOUS
  <2>2. \A j \in 1..n : q[j] \in T
    BY <1>3, <2>1
  <2>3. q \in [1..n -> T]
    BY <1>1, <2>2
  <2>4. q \in Seq(T) /\ Len(q) = n
    BY <2>3
  <2>. QED
    BY <2>1, <2>4
<1>5. Gathers(r, q, n, Pairs)
  <2>1. r = FlattenSeq(q)
    BY <1>1, Zenon DEF Gathered
  <2>2. \A i \in 1..Len(q) : Len(q[i]) <= 1
    BY <1>3, <1>4
  <2>3. Gathers(r, q, Len(q), Pairs)
    BY <1>4, <2>1, <2>2, PiecesOf
  <2>. QED
    BY <1>4, <2>3
<1>6. r \in Seq(Pairs)
  BY <1>5 DEF Gathers
<1>7. ASSUME NEW i \in 1..Len(r)
      PROVE  \E j \in 1..n : first[j] <= last[j] /\ r[i][1] = first[j] /\ r[i][2] = last[j]
  <2>1. PICK j \in 1..n : Len(q[j]) = 1 /\ r[i] = q[j][1]
    BY <1>5 DEF Gathers
  <2>. QED
    BY <1>3, <2>1
<1>8. ASSUME NEW j \in 1..n, first[j] <= last[j]
      PROVE  \E i \in 1..Len(r) : r[i][1] = first[j] /\ r[i][2] = last[j]
  <2>1. Len(q[j]) = 1 /\ q[j][1][1] = first[j] /\ q[j][1][2] = last[j]
    BY <1>3, <1>8
  <2>2. PICK i \in 1..Len(r) : r[i] = q[j][1]
    BY <1>5, <2>1 DEF Gathers
  <2>. QED
    BY <2>1, <2>2
<1>9. Within(r, size)
  <2>. SUFFICES ASSUME NEW i \in 1..Len(r) PROVE 0 <= r[i][1] /\ r[i][1] <= r[i][2] /\ r[i][2] < size
    BY DEF Within
  <2>1. PICK j \in 1..n : first[j] <= last[j] /\ r[i][1] = first[j] /\ r[i][2] = last[j]
    BY <1>7
  <2>2. first[j] \in Nat /\ last[j] < size
    BY <1>2
  <2>. QED
    BY <2>1, <2>2
<1>. QED
  BY <1>6, <1>7, <1>8, <1>9 DEF RequestedAre

(* Sorted and coalesced, they answer the request.                          *)
LEMMA RangesAnswer ==
    ASSUME NEW n \in Nat, NEW size \in Int, Reachable(size), NEW first, NEW last, Bounds(first, last, n, size),
           NEW r, Gathered(r, first, last, n), NEW c, c = coalesced(r)
    PROVE  Answering(c, first, last, n, size)
<1>1. PICK t : t = sorted(r)
  OBVIOUS
<1>2. /\ r \in Seq(Pairs) /\ Within(r, size)
      /\ \A i \in 1..Len(r) : \E j \in 1..n : r[i][1] = first[j] /\ r[i][2] = last[j]
      /\ \A j \in 1..n : first[j] <= last[j] => \E i \in 1..Len(r) : r[i][1] = first[j] /\ r[i][2] = last[j]
  <2>1. RequestedAre(r, first, last, n, size)
    BY RangesRequested
  <2>. QED
    BY <2>1 DEF RequestedAre
<1>3. /\ t \in Seq(Pairs) /\ Len(t) = Len(r)
      /\ \A i \in 1..Len(r) : \E j \in 1..Len(r) : t[i] = r[j]
      /\ \A i \in 1..Len(r) : \E j \in 1..Len(r) : t[j] = r[i]
      /\ \A i, j \in 1..Len(r) : i < j => t[i][1] <= t[j][1]
  BY <1>1, <1>2, SortedIs
<1>4. Within(t, size)
  BY <1>2, <1>3 DEF Within
<1>5. Left(c, t, Len(t), size)
  <2>1. c = FoldLeft(withNext, <<>>, t)
    BY <1>1, Zenon DEF coalesced
  <2>2. \A i, j \in 1..Len(t) : i < j => t[i][1] <= t[j][1]
    BY <1>3
  <2>. QED
    BY <1>3, <1>4, <2>1, <2>2, CoalescedIs
<1>6. ASSUME NEW i \in 1..Len(t)
      PROVE  \E j \in 1..n : t[i][1] = first[j] /\ t[i][2] = last[j]
  <2>1. i \in 1..Len(r)
    BY <1>3
  <2>2. PICK m \in 1..Len(r) : t[i] = r[m]
    BY <1>3, <2>1
  <2>3. PICK j \in 1..n : r[m][1] = first[j] /\ r[m][2] = last[j]
    BY <1>2
  <2>. QED
    BY <2>2, <2>3
<1>7. ASSUME NEW j \in 1..n, first[j] <= last[j]
      PROVE  \E i \in 1..Len(t) : t[i][1] = first[j] /\ t[i][2] = last[j]
  <2>1. PICK i \in 1..Len(r) : r[i][1] = first[j] /\ r[i][2] = last[j]
    BY <1>2, <1>7
  <2>2. PICK m \in 1..Len(r) : t[m] = r[i]
    BY <1>3
  <2>3. m \in 1..Len(t)
    BY <1>3
  <2>. QED
    BY <2>1, <2>2, <2>3
<1>8. ASSUME NEW j \in 1..n PROVE first[j] \in Int /\ last[j] \in Int
  BY DEF Bounds
<1>9. ASSUME NEW b \in Int, Asks(first, last, n, b) PROVE In(c, Len(c), b)
  <2>1. PICK j \in 1..n : first[j] <= b /\ b <= last[j]
    BY <1>9 DEF Asks
  <2>2. PICK i \in 1..Len(t) : t[i][1] = first[j] /\ t[i][2] = last[j]
    <3>1. first[j] <= last[j]
      BY <1>8, <2>1
    <3>. QED
      BY <1>7, <3>1
  <2>3. PICK k \in 1..Len(c) : c[k][1] <= t[i][1] /\ t[i][2] <= c[k][2]
    BY <1>5 DEF Left
  <2>4. c[k][1] \in Int /\ c[k][2] \in Int
    <3>1. c[k] \in Pairs
      BY <1>5 DEF Left
    <3>. QED
      BY <3>1, PairIs
  <2>5. c[k][1] <= first[j] /\ last[j] <= c[k][2] /\ first[j] \in Int /\ last[j] \in Int
    BY <1>8, <2>2, <2>3
  <2>6. c[k][1] <= b /\ b <= c[k][2]
    BY <2>1, <2>4, <2>5
  <2>. QED
    BY <2>6 DEF In
<1>10. ASSUME NEW b \in Int, c = <<>>, Asks(first, last, n, b) PROVE FALSE
  <2>1. In(c, Len(c), b)
    BY <1>9, <1>10
  <2>2. Len(c) = 0
    BY <1>10
  <2>. QED
    BY <2>1, <2>2 DEF In
<1>11. ASSUME NEW b \in Int, In(c, Len(c), b)
       PROVE  \/ Asks(first, last, n, b)
              \/ \E a, e \in Int : /\ Asks(first, last, n, a) /\ Asks(first, last, n, e)
                                   /\ a < b /\ b < e /\ e - a <= multiPartOverhead + 1
  <2>1. PICK k \in 1..Len(c) : c[k][1] <= b /\ b <= c[k][2]
    BY <1>11 DEF In
  <2>2. In(t, Len(t), b) \/ Between(t, Len(t), b)
    <3>1. c[k] \in Pairs
      BY <1>5 DEF Left
    <3>2. b \in c[k][1]..c[k][2]
      BY <2>1, <3>1, PairIs
    <3>. QED
      BY <1>5, <3>2 DEF Left
  <2>3. CASE In(t, Len(t), b)
    <3>1. PICK i \in 1..Len(t) : t[i][1] <= b /\ b <= t[i][2]
      BY <2>3 DEF In
    <3>. QED
      BY <1>6, <3>1 DEF Asks
  <2>4. CASE Between(t, Len(t), b)
    <3>1. PICK i \in 1..Len(t), l \in 1..Len(t) :
            t[i][2] < b /\ b < t[l][1] /\ t[l][1] - t[i][2] <= multiPartOverhead + 1
      BY <2>4 DEF Between
    <3>2. /\ t[i][2] \in Int /\ t[l][1] \in Int /\ t[i][1] <= t[i][2] /\ t[l][1] <= t[l][2]
          /\ t[i][2] <= t[i][2] /\ t[l][1] <= t[l][1]
      <4>1. \A m \in 1..Len(t) : t[m] \in Pairs
        <5>1. t \in Seq(Pairs)
          BY <1>3
        <5>. QED
          BY <5>1
      <4>2. t[i] \in Pairs /\ t[l] \in Pairs
        BY <4>1
      <4>3. t[i][1] <= t[i][2] /\ t[l][1] <= t[l][2]
        BY <1>4 DEF Within
      <4>. QED
        BY <4>2, <4>3, PairIs
    <3>3. Asks(first, last, n, t[i][2]) /\ Asks(first, last, n, t[l][1])
      BY <1>6, <3>2 DEF Asks
    <3>. QED
      BY <3>1, <3>2, <3>3
  <2>. QED
    BY <2>2, <2>3, <2>4
<1>12. c \in Seq(Pairs) /\ Within(c, size) /\ Apart(c)
  BY <1>5 DEF Left
<1>. QED
  BY <1>9, <1>10, <1>11, <1>12 DEF Answering

(* The ranges a header of well-formed specs becomes.                       *)
LEMMA SpecsAnswered ==
    ASSUME NEW size \in Int, Reachable(size), NEW specs, Len(specs) \in Nat,
           \A i \in 1..Len(specs) : SpecOk(specs[i])
    PROVE  \E first, last :
             /\ \A i \in 1..Len(specs) : first[i] = FirstAsked(specs[i], size) /\ last[i] = LastAsked(specs[i], size)
             /\ Bounds(first, last, Len(specs), size)
             /\ Answering(coalesced(requestedRanges(specs, size)), first, last, Len(specs), size)
<1>1. PICK n, first, last :
        /\ n = Len(specs)
        /\ first = [j \in 1..n |-> FirstAsked(specs[j], size)]
        /\ last = [j \in 1..n |-> LastAsked(specs[j], size)]
  OBVIOUS
<1>2. \A i \in 1..n : first[i] = FirstAsked(specs[i], size) /\ last[i] = LastAsked(specs[i], size)
  BY <1>1
<1>3. ASSUME NEW j \in 1..n
      PROVE  /\ first[j] \in Nat /\ last[j] \in Int /\ last[j] < size
             /\ Requested(specs[j], size) = Alone(first[j], last[j])
  <2>1. SpecOk(specs[j])
    BY <1>1
  <2>2. /\ FirstAsked(specs[j], size) \in Nat /\ LastAsked(specs[j], size) \in Int
        /\ LastAsked(specs[j], size) < size
        /\ Requested(specs[j], size) = Alone(FirstAsked(specs[j], size), LastAsked(specs[j], size))
    BY <2>1, RequestedIs DEF Alone
  <2>. QED
    BY <1>2, <2>2
<1>4. Bounds(first, last, n, size) /\ n \in Nat
  BY <1>1, <1>3 DEF Bounds
<1>5. [j \in 1..n |-> Alone(first[j], last[j])] = [j \in 1..n |-> Requested(specs[j], size)]
  BY <1>3
<1>6. Gathered(requestedRanges(specs, size), first, last, n)
  BY <1>1, <1>5, Zenon DEF requestedRanges, Gathered
<1>7. Answering(coalesced(requestedRanges(specs, size)), first, last, n, size)
  BY <1>4, <1>6, RangesAnswer
<1>. QED
  BY <1>1, <1>2, <1>4, <1>7

(***************************************************************************)
(* Writing.                                                                *)
(***************************************************************************)
Piece == [size : Int, bytes : Seq(Int)]

(* What the pieces hold together.                                          *)
BytesOf(body) == FlattenSeq([i \in DOMAIN body |-> body[i].bytes])
SizeOf(body) == Total([i \in DOMAIN body |-> body[i].size])

LEMMA PieceIs ==
    /\ \A x \in Piece : x.size \in Int /\ x.bytes \in Seq(Int)
    /\ \A n \in Int : TextPiece(n) \in Piece /\ TextPiece(n).size = n /\ TextPiece(n).bytes = <<>>
<1>1. ASSUME NEW x \in Piece PROVE x.size \in Int /\ x.bytes \in Seq(Int)
  BY DEF Piece
<1>2. ASSUME NEW n \in Int PROVE TextPiece(n) \in Piece /\ TextPiece(n).size = n /\ TextPiece(n).bytes = <<>>
  <2>1. <<>> \in Seq(Int)
    OBVIOUS
  <2>. QED
    BY <2>1 DEF Piece, TextPiece
<1>. QED
  BY <1>1, <1>2

(* A function of 1..m is a sequence.                                       *)
LEMMA SequenceOf ==
    ASSUME NEW T, NEW m \in Nat, NEW g, g = [i \in 1..m |-> g[i]], \A i \in 1..m : g[i] \in T
    PROVE  g \in Seq(T) /\ Len(g) = m /\ DOMAIN g = 1..m
<1>1. g \in [1..m -> T]
  OBVIOUS
<1>. QED
  BY <1>1

(* A sequence with one element more, seen through a function.              *)
LEMMA MappedMore ==
    ASSUME NEW S, NEW T, NEW s \in Seq(S), NEW x \in S, NEW f, NEW g, NEW t,
           f \in Seq(T), Len(f) = Len(s), t \in T,
           DOMAIN g = 1..(Len(s) + 1), g[Len(s) + 1] = t, \A i \in 1..Len(s) : g[i] = f[i],
           g \in Seq(T)
    PROVE  g = Append(f, t)
<1>1. PICK n \in Nat : n = Len(s)
  OBVIOUS
<1>2. Len(g) = n + 1
  BY <1>1
<1>3. PICK h : h = Append(f, t)
  OBVIOUS
<1>4. h \in Seq(T) /\ Len(h) = n + 1 /\ h[n + 1] = t /\ \A i \in 1..n : h[i] = f[i]
  BY <1>1, <1>3
<1>5. ASSUME NEW i \in 1..(n + 1) PROVE g[i] = h[i]
  <2>1. i = n + 1 \/ i \in 1..n
    BY <1>1
  <2>. QED
    BY <1>1, <1>4, <2>1
<1>6. g = h
  BY <1>2, <1>4, <1>5
<1>. QED
  BY <1>3, <1>6

(* One more piece adds its bytes and its size.                             *)
LEMMA PieceAdded ==
    ASSUME NEW body \in Seq(Piece), NEW x \in Piece, NEW d, d = Append(body, x)
    PROVE  /\ d \in Seq(Piece)
           /\ BytesOf(body) \in Seq(Int) /\ SizeOf(body) \in Int
           /\ BytesOf(d) = BytesOf(body) \o x.bytes
           /\ SizeOf(d) = SizeOf(body) + x.size
<1>1. PICK n \in Nat, m \in Nat : n = Len(body) /\ m = n + 1
  OBVIOUS
<1>2. /\ d \in Seq(Piece) /\ Len(d) = n + 1 /\ d[m] = x /\ \A i \in 1..n : d[i] = body[i]
      /\ DOMAIN body = 1..n /\ DOMAIN d = 1..m
  BY <1>1
<1>3. \A i \in 1..n : body[i] \in Piece
  BY <1>1
<1>4. \A i \in 1..m : d[i] \in Piece
  BY <1>2
<1>5. BytesOf(body) \in Seq(Int) /\ BytesOf(d) = BytesOf(body) \o x.bytes
  <2>1. PICK f, g : f = [i \in 1..n |-> body[i].bytes] /\ g = [i \in 1..m |-> d[i].bytes]
    OBVIOUS
  <2>2. PICK T : T = Seq(Int)
    OBVIOUS
  <2>3. \A y \in Piece : y.bytes \in T
    BY <2>2, PieceIs
  <2>4. f \in Seq(T) /\ Len(f) = n
    BY <1>3, <2>1, <2>3
  <2>5. g \in Seq(T) /\ DOMAIN g = 1..m
    <3>1. g = [i \in 1..m |-> g[i]]
      BY <2>1
    <3>2. \A i \in 1..m : g[i] \in T
      BY <1>4, <2>1, <2>3
    <3>. QED
      BY <3>1, <3>2, SequenceOf
  <2>6. g[m] = x.bytes /\ \A i \in 1..n : g[i] = f[i]
    BY <1>2, <2>1
  <2>7. g = Append(f, x.bytes)
    BY <1>1, <2>3, <2>4, <2>5, <2>6, MappedMore
  <2>8. f \in Seq(Seq(Int)) /\ x.bytes \in Seq(Int)
    BY <2>2, <2>3, <2>4
  <2>9. FlattenSeq(f) \in Seq(Int) /\ FlattenSeq(g) = FlattenSeq(f) \o x.bytes
    BY <2>7, <2>8, FlattenSeqMore
  <2>10. BytesOf(body) = FlattenSeq(f) /\ BytesOf(d) = FlattenSeq(g)
    BY <1>2, <2>1, Zenon DEF BytesOf
  <2>. QED
    BY <2>9, <2>10
<1>6. SizeOf(body) \in Int /\ SizeOf(d) = SizeOf(body) + x.size
  <2>1. PICK f, g : f = [i \in 1..n |-> body[i].size] /\ g = [i \in 1..m |-> d[i].size]
    OBVIOUS
  <2>3. \A y \in Piece : y.size \in Int
    BY PieceIs
  <2>4. f \in Seq(Int) /\ Len(f) = n
    BY <1>3, <2>1, <2>3
  <2>5. g \in Seq(Int) /\ DOMAIN g = 1..m
    <3>1. g = [i \in 1..m |-> g[i]]
      BY <2>1
    <3>2. \A i \in 1..m : g[i] \in Int
      BY <1>4, <2>1, <2>3
    <3>. QED
      BY <3>1, <3>2, SequenceOf
  <2>6. g[m] = x.size /\ x.size \in Int /\ \A i \in 1..n : g[i] = f[i]
    BY <1>2, <2>1, <2>3
  <2>7. g = Append(f, x.size)
    BY <1>1, <2>4, <2>5, <2>6, MappedMore
  <2>9. Total(f) \in Int /\ Total(g) = Total(f) + x.size
    BY <2>4, <2>6, <2>7, TotalMore
  <2>10. SizeOf(body) = Total(f) /\ SizeOf(d) = Total(g)
    BY <1>2, <2>1, Zenon DEF SizeOf
  <2>. QED
    BY <2>9, <2>10
<1>. QED
  BY <1>2, <1>5, <1>6

(* No pieces hold nothing.                                                 *)
LEMMA NoPieces == <<>> \in Seq(Piece) /\ BytesOf(<<>>) = <<>> /\ SizeOf(<<>>) = 0
<1>1. <<>> \in Seq(Piece) /\ <<>> \in Seq(Int)
  OBVIOUS
<1>2. [i \in DOMAIN <<>> |-> <<>>[i].bytes] = <<>>
  OBVIOUS
<1>3. [i \in DOMAIN <<>> |-> <<>>[i].size] = <<>>
  OBVIOUS
<1>4. BytesOf(<<>>) = <<>>
  BY <1>2, FlattenSeqNone, Zenon DEF BytesOf
<1>5. SizeOf(<<>>) = Total(<<>>)
  BY <1>3, Zenon DEF SizeOf
<1>6. Total(<<>>) = 0
  <2>1. 0 \in Int
    OBVIOUS
  <2>. QED
    BY <1>1, <2>1, TotalMore, Zenon
<1>. QED
  BY <1>1, <1>4, <1>5, <1>6

(* Text adds no bytes of the file.                                         *)
LEMMA TextAdded ==
    ASSUME NEW body \in Seq(Piece), NEW n \in Int, NEW d, d = Append(body, TextPiece(n))
    PROVE  d \in Seq(Piece) /\ BytesOf(d) = BytesOf(body) /\ SizeOf(d) = SizeOf(body) + n
<1>1. PICK x \in Piece : x = TextPiece(n) /\ x.size = n /\ x.bytes = <<>>
  BY PieceIs
<1>2. /\ d \in Seq(Piece) /\ BytesOf(body) \in Seq(Int)
      /\ BytesOf(d) = BytesOf(body) \o x.bytes /\ SizeOf(d) = SizeOf(body) + x.size
  BY <1>1, PieceAdded
<1>3. BytesOf(body) \o <<>> = BytesOf(body)
  BY <1>2
<1>. QED
  BY <1>1, <1>2, <1>3
(* Two elements more, one after the other.                                 *)
LEMMA TwoMore ==
    ASSUME NEW S, NEW s \in Seq(S), NEW x \in S, NEW y \in S
    PROVE  s \o <<x, y>> = Append(Append(s, x), y)
<1>1. PICK q, t, u : q = <<x, y>> /\ t = Append(s, x) /\ u = Append(t, y)
  OBVIOUS
<1>2. PICK c : c = s \o q
  OBVIOUS
<1>3. q \in Seq(S) /\ Len(q) = 2 /\ q[1] = x /\ q[2] = y
  BY <1>1
<1>4. PICK n \in Nat : n = Len(s)
  OBVIOUS
<1>5. c \in Seq(S) /\ Len(c) = n + 2 /\ c[n + 1] = x /\ c[n + 2] = y /\ \A i \in 1..n : c[i] = s[i]
  <2>1. /\ c \in Seq(S) /\ Len(c) = Len(s) + Len(q)
        /\ \A j \in 1..Len(s) : c[j] = s[j]
        /\ \A j \in 1..Len(q) : c[Len(s) + j] = q[j]
    <3>1. q \in Seq(S)
      BY <1>3
    <3>. QED
      BY <1>2, <3>1, ConcatIs
  <2>2. 1 \in 1..Len(q) /\ 2 \in 1..Len(q)
    BY <1>3
  <2>. QED
    BY <1>3, <1>4, <2>1, <2>2
<1>6. t \in Seq(S) /\ Len(t) = n + 1 /\ t[n + 1] = x /\ \A i \in 1..n : t[i] = s[i]
  BY <1>1, <1>4
<1>7. u \in Seq(S) /\ Len(u) = n + 2 /\ u[n + 2] = y /\ \A i \in 1..(n + 1) : u[i] = t[i]
  BY <1>1, <1>6
<1>8. ASSUME NEW i \in 1..(n + 2) PROVE c[i] = u[i]
  <2>1. i = n + 2 \/ i = n + 1 \/ i \in 1..n
    BY <1>4
  <2>. QED
    BY <1>4, <1>5, <1>6, <1>7, <2>1
<1>9. c = u
  BY <1>5, <1>7, <1>8
<1>. QED
  BY <1>1, <1>2, <1>9

LEMMA FourMore ==
    ASSUME NEW S, NEW s \in Seq(S), NEW w \in S, NEW x \in S, NEW y \in S, NEW z \in S
    PROVE  s \o <<w, x, y, z>> = Append(Append(Append(Append(s, w), x), y), z)
<1>1. PICK a, b : a = <<w, x>> /\ b = <<y, z>>
  OBVIOUS
<1>2. a \in Seq(S) /\ b \in Seq(S)
  BY <1>1
<1>3. <<w, x, y, z>> = a \o b
  BY <1>1
<1>4. s \o (a \o b) = (s \o a) \o b
  BY <1>2
<1>5. s \o a = Append(Append(s, w), x)
  BY <1>1, TwoMore
<1>6. s \o a \in Seq(S)
  BY <1>2
<1>7. (s \o a) \o b = Append(Append(s \o a, y), z)
  BY <1>1, <1>6, TwoMore
<1>. QED
  BY <1>3, <1>4, <1>5, <1>7

(* What one part adds, and what the end of the last one does.              *)
PartBehind(d, body, a, b, c, x) == d = body \o <<TextPiece(a), TextPiece(b), TextPiece(c), x>>

LEMMA PartAdded ==
    ASSUME NEW body \in Seq(Piece), NEW a \in Int, NEW b \in Int, NEW c \in Int, NEW x \in Piece,
           NEW d, PartBehind(d, body, a, b, c, x)
    PROVE  /\ d \in Seq(Piece)
           /\ BytesOf(d) = BytesOf(body) \o x.bytes
           /\ SizeOf(d) = SizeOf(body) + a + b + c + x.size
<1>1. PICK e, f, g : /\ e = Append(body, TextPiece(a)) /\ f = Append(e, TextPiece(b))
                     /\ g = Append(f, TextPiece(c))
  OBVIOUS
<1>0. PICK k, l, m : k = TextPiece(a) /\ l = TextPiece(b) /\ m = TextPiece(c)
  OBVIOUS
<1>2. d = Append(g, x)
  <2>1. k \in Piece /\ l \in Piece /\ m \in Piece
    BY <1>0, PieceIs
  <2>2. d = body \o <<k, l, m, x>>
    BY <1>0 DEF PartBehind
  <2>3. d = Append(Append(Append(Append(body, k), l), m), x)
    BY <2>1, <2>2, FourMore
  <2>. QED
    BY <1>0, <1>1, <2>3
<1>3. e \in Seq(Piece) /\ BytesOf(e) = BytesOf(body) /\ SizeOf(e) = SizeOf(body) + a
  BY <1>1, TextAdded
<1>4. f \in Seq(Piece) /\ BytesOf(f) = BytesOf(e) /\ SizeOf(f) = SizeOf(e) + b
  BY <1>1, <1>3, TextAdded
<1>5. g \in Seq(Piece) /\ BytesOf(g) = BytesOf(f) /\ SizeOf(g) = SizeOf(f) + c
  BY <1>1, <1>4, TextAdded
<1>6. d \in Seq(Piece) /\ BytesOf(d) = BytesOf(g) \o x.bytes /\ SizeOf(d) = SizeOf(g) + x.size
  BY <1>2, <1>5, PieceAdded
<1>. QED
  BY <1>3, <1>4, <1>5, <1>6

EndBehind(d, body, a, b) == d = body \o <<TextPiece(a), TextPiece(b)>>

LEMMA EndAdded ==
    ASSUME NEW body \in Seq(Piece), NEW a \in Int, NEW b \in Int, NEW d, EndBehind(d, body, a, b)
    PROVE  d \in Seq(Piece) /\ BytesOf(d) = BytesOf(body) /\ SizeOf(d) = SizeOf(body) + a + b
<1>1. PICK e : e = Append(body, TextPiece(a))
  OBVIOUS
<1>2. d = Append(e, TextPiece(b))
  <2>1. PICK x, y : x = TextPiece(a) /\ y = TextPiece(b)
    OBVIOUS
  <2>2. x \in Piece /\ y \in Piece
    BY <2>1, PieceIs
  <2>3. d = body \o <<x, y>>
    BY <2>1 DEF EndBehind
  <2>. QED
    BY <1>1, <2>1, <2>2, <2>3, TwoMore
<1>3. e \in Seq(Piece) /\ BytesOf(e) = BytesOf(body) /\ SizeOf(e) = SizeOf(body) + a
  BY <1>1, TextAdded
<1>4. d \in Seq(Piece) /\ BytesOf(d) = BytesOf(e) /\ SizeOf(d) = SizeOf(e) + b
  BY <1>2, <1>3, TextAdded
<1>. QED
  BY <1>3, <1>4

(* The bytes a to b - 1.                                                   *)
Run(a, b) == [j \in 1..(b - a) |-> a + j - 1]

IsRun(r, a, b) ==
    /\ r \in Seq(Int) /\ Len(r) = b - a
    /\ \A j \in 1..(b - a) : r[j] = a + j - 1

LEMMA RunIs == ASSUME NEW a \in Int, NEW b \in Int, a <= b PROVE IsRun(Run(a, b), a, b)
<1>. PICK r : r = Run(a, b)
  OBVIOUS
<1>1. PICK n \in Nat : n = b - a
  OBVIOUS
<1>2. r = [j \in 1..n |-> a + j - 1]
  BY <1>1 DEF Run
<1>3. \A j \in 1..n : r[j] = a + j - 1 /\ r[j] \in Int
  BY <1>2
<1>4. r \in [1..n -> Int]
  BY <1>2
<1>5. r \in Seq(Int) /\ Len(r) = n
  BY <1>4
<1>. QED
  BY <1>1, <1>3, <1>5 DEF IsRun

(* A range of the file is read in full.                                    *)
LEMMA FilePieceIs ==
    ASSUME NEW size \in Int, NEW r, r[1] \in Int, r[2] \in Int, 0 <= r[1], r[1] <= r[2] + 1, r[2] < size,
           NEW x, x = FilePiece(r, size)
    PROVE  x \in Piece /\ x.size = RangeSize(r) /\ x.bytes = Run(r[1], r[2] + 1)
<1>0. PICK a \in Int, b \in Int : a = r[1] /\ b = r[2]
  OBVIOUS
<1>1. PICK n \in Nat : a = r[1] /\ b = r[2] /\ n = b - a + 1
  BY <1>0
<1>2. RangeSize(r) = n
  BY <1>1 DEF RangeSize
<1>3. PICK m \in Int : m = size - a
  OBVIOUS
<1>4. Min({n, m}) = n
  BY <1>1, <1>3, MinOfTwo
<1>5. Max({0, n}) = n
  BY <1>1, MaxOfTwo
<1>6. x = [size |-> n, bytes |-> [j \in 1..n |-> r[1] + j - 1]]
  BY <1>1, <1>2, <1>3, <1>4, <1>5, Zenon DEF FilePiece
<1>7. [j \in 1..n |-> r[1] + j - 1] = Run(r[1], r[2] + 1)
  BY <1>1 DEF Run
<1>8. Run(r[1], r[2] + 1) \in Seq(Int)
  <2>1. PICK e \in Int : e = b + 1
    OBVIOUS
  <2>2. Run(a, e) \in Seq(Int)
    BY <1>1, <2>1, RunIs DEF IsRun
  <2>. QED
    BY <1>1, <2>1, <2>2
<1>. QED
  BY <1>2, <1>6, <1>7, <1>8 DEF Piece
(* The bytes of the first k ranges, once and in ascending order.           *)
Sends(bytes, c, k) ==
    /\ bytes \in Seq(Int)
    /\ \A i \in 1..(Len(bytes) - 1) : bytes[i] < bytes[i + 1]
    /\ \A i \in 1..Len(bytes) : In(c, k, bytes[i]) /\ k > 0 /\ bytes[i] <= c[k][2]
    /\ \A b \in Int : In(c, k, b) => \E i \in 1..Len(bytes) : bytes[i] = b

LEMMA NothingSent == ASSUME NEW c PROVE Sends(<<>>, c, 0)
<1>1. <<>> \in Seq(Int) /\ Len(<<>>) = 0
  OBVIOUS
<1>2. 1..0 = {} /\ 1..(0 - 1) = {}
  OBVIOUS
<1>. QED
  BY <1>1, <1>2 DEF Sends, In

(* The bytes a to e behind those sent before.                              *)
Extended(d, bytes, l, a, e) ==
    /\ l \in Nat /\ Len(bytes) = l
    /\ d \in Seq(Int) /\ Len(d) = l + (e + 1 - a)
    /\ \A j \in 1..l : d[j] = bytes[j] /\ d[j] \in Int
    /\ \A b \in Int : a <= b /\ b <= e => d[l + 1 + (b - a)] = b

LEMMA RunAdded ==
    ASSUME NEW bytes \in Seq(Int), NEW a \in Int, NEW e \in Int, a <= e,
           NEW r, IsRun(r, a, e + 1), NEW d, d = bytes \o r
    PROVE  Extended(d, bytes, Len(bytes), a, e)
<1>1. PICK l \in Nat, n \in Nat : l = Len(bytes) /\ n = e + 1 - a
  OBVIOUS
<1>2. r \in Seq(Int)
  BY DEF IsRun
<1>3. Len(r) = n /\ \A j \in 1..n : r[j] = a + j - 1
  BY <1>1 DEF IsRun
<1>5. /\ d \in Seq(Int) /\ Len(d) = Len(bytes) + Len(r)
      /\ \A j \in 1..Len(bytes) : d[j] = bytes[j]
      /\ \A j \in 1..Len(r) : d[Len(bytes) + j] = r[j]
  BY <1>2, ConcatIs
<1>6. \A j \in 1..l : bytes[j] \in Int
  BY <1>1
<1>7. ASSUME NEW b \in Int, a <= b, b <= e PROVE d[l + 1 + (b - a)] = b
  <2>1. PICK j \in 1..n : j = b - a + 1
    BY <1>1, <1>7
  <2>2. j \in 1..Len(r) /\ r[j] = b
    BY <1>3, <2>1
  <2>3. d[l + j] = b
    BY <1>1, <1>5, <2>2
  <2>4. l + j = l + 1 + (b - a)
    BY <2>1
  <2>. QED
    BY <2>3, <2>4
<1>8. Len(d) = l + (e + 1 - a)
  BY <1>1, <1>3, <1>5
<1>9. \A j \in 1..l : d[j] = bytes[j] /\ d[j] \in Int
  BY <1>1, <1>5, <1>6
<1>. QED
  BY <1>1, <1>5, <1>7, <1>8, <1>9 DEF Extended

(* The range behind the first k.                                           *)
IsNext(c, k, m, a, e) == k < Len(c) /\ m = k + 1 /\ a = c[m][1] /\ e = c[m][2]

LEMMA RangeAdded ==
    ASSUME NEW size \in Int, NEW c \in Seq(Pairs), Within(c, size), Apart(c), NEW k \in Nat,
           NEW m \in Int, NEW a \in Int, NEW e \in Int, IsNext(c, k, m, a, e),
           NEW bytes, Sends(bytes, c, k), NEW l \in Nat, NEW d, Extended(d, bytes, l, a, e)
    PROVE  Sends(d, c, m)
<1>0. k < Len(c) /\ m = k + 1 /\ a = c[m][1] /\ e = c[m][2]
  BY DEF IsNext
<1>1. m \in 1..Len(c) /\ a <= e
  <2>1. m \in 1..Len(c)
    BY <1>0
  <2>. QED
    BY <1>0, <2>1 DEF Within
<1>2. PICK n \in Nat : n = e + 1 - a /\ n > 0
  BY <1>1
<1>3. /\ Len(bytes) = l
      /\ d \in Seq(Int) /\ Len(d) = l + n
      /\ \A j \in 1..l : d[j] = bytes[j] /\ d[j] \in Int
      /\ \A b \in Int : a <= b /\ b <= e => d[l + 1 + (b - a)] = b
  BY <1>2 DEF Extended
<1>4. ASSUME NEW j \in 1..n PROVE d[l + j] = a + j - 1 /\ a + j - 1 \in Int /\ a <= a + j - 1 /\ a + j - 1 <= e
  <2>1. PICK b \in Int : b = a + j - 1
    OBVIOUS
  <2>2. a <= b /\ b <= e /\ l + 1 + (b - a) = l + j
    BY <1>2, <2>1
  <2>. QED
    BY <1>3, <2>1, <2>2
<1>5. ASSUME NEW j \in 1..l PROVE k > 0 /\ d[j] < a
  <2>1. k > 0 /\ bytes[j] <= c[k][2]
    BY <1>3 DEF Sends
  <2>2. k \in 1..Len(c) /\ k \in 1..(Len(c) - 1)
    BY <1>0, <2>1
  <2>3. c[k][2] + 1 + multiPartOverhead < a
    BY <1>0, <2>2 DEF Apart
  <2>4. c[k] \in Pairs
    BY <2>2
  <2>5. c[k][2] \in Int /\ d[j] \in Int /\ multiPartOverhead \in Nat /\ d[j] <= c[k][2]
    BY <1>3, <2>1, <2>4, PairIs, RangesAssumption
  <2>6. \A x, y \in Int : \A o \in Nat : y <= x /\ x + 1 + o < a => y < a
    OBVIOUS
  <2>. QED
    BY <2>1, <2>3, <2>5, <2>6
<1>6. ASSUME NEW j \in 1..(l + n), ~ j \in 1..l PROVE \E i \in 1..n : j = l + i
  <2>1. j - l \in 1..n /\ j = l + (j - l)
    BY <1>6
  <2>. QED
    BY <2>1
<1>7. ASSUME NEW i \in 1..(Len(d) - 1) PROVE d[i] < d[i + 1]
  <2>0. i \in 1..(l + n - 1)
    BY <1>3
  <2>1. CASE i < l
    <3>1. i \in 1..(Len(bytes) - 1) /\ i \in 1..l /\ i + 1 \in 1..l
      BY <1>3, <2>0, <2>1
    <3>2. bytes[i] < bytes[i + 1]
      BY <3>1 DEF Sends
    <3>. QED
      BY <1>3, <3>1, <3>2
  <2>2. CASE i = l
    <3>1. i \in 1..l /\ 1 \in 1..n /\ i + 1 = l + 1
      BY <1>2, <2>0, <2>2
    <3>2. d[l + 1] = a + 1 - 1
      BY <1>4, <3>1
    <3>3. d[i] < a /\ d[i] \in Int
      BY <1>3, <1>5, <3>1
    <3>. QED
      BY <3>1, <3>2, <3>3
  <2>3. CASE i > l
    <3>1. PICK j \in 1..n, h \in 1..n : j = i - l /\ h = j + 1
      BY <2>0, <2>3
    <3>2. d[l + j] = a + j - 1 /\ d[l + h] = a + h - 1
      BY <1>4
    <3>3. i = l + j /\ i + 1 = l + h /\ a + j - 1 < a + h - 1
      BY <2>0, <3>1
    <3>. QED
      BY <3>2, <3>3
  <2>. QED
    BY <2>0, <2>1, <2>2, <2>3
<1>8. ASSUME NEW i \in 1..Len(d) PROVE In(c, m, d[i]) /\ m > 0 /\ d[i] <= c[m][2]
  <2>1. CASE i \in 1..l
    <3>1. In(c, k, bytes[i])
      BY <1>3, <2>1 DEF Sends
    <3>2. In(c, m, d[i])
      BY <1>0, <1>3, <2>1, <3>1, InMore
    <3>3. d[i] < a /\ d[i] \in Int
      BY <1>3, <1>5, <2>1
    <3>4. d[i] <= e
      BY <1>1, <3>3
    <3>. QED
      BY <1>0, <3>2, <3>4
  <2>2. CASE ~ i \in 1..l
    <3>1. PICK j \in 1..n : i = l + j
      BY <1>3, <1>6, <2>2
    <3>2. d[i] \in Int /\ a <= d[i] /\ d[i] <= e
      BY <1>4, <3>1
    <3>3. m \in 1..m /\ m > 0
      BY <1>0
    <3>4. c[m][1] <= d[i] /\ d[i] <= c[m][2]
      BY <1>0, <3>2
    <3>5. In(c, m, d[i])
      BY <3>3, <3>4 DEF In
    <3>. QED
      BY <3>3, <3>4, <3>5
  <2>. QED
    BY <2>1, <2>2
<1>9. ASSUME NEW b \in Int, In(c, m, b) PROVE \E i \in 1..Len(d) : d[i] = b
  <2>1. PICK j \in 1..m : c[j][1] <= b /\ b <= c[j][2]
    BY <1>9 DEF In
  <2>2. CASE j = m
    <3>1. a <= b /\ b <= e
      BY <1>0, <2>1, <2>2
    <3>2. d[l + 1 + (b - a)] = b
      BY <1>3, <3>1
    <3>3. l + 1 + (b - a) \in 1..(l + n)
      BY <1>2, <3>1
    <3>. QED
      BY <1>3, <3>2, <3>3
  <2>3. CASE j # m
    <3>1. j \in 1..k
      BY <1>0, <2>3
    <3>2. In(c, k, b)
      BY <2>1, <3>1 DEF In
    <3>3. PICK i \in 1..Len(bytes) : bytes[i] = b
      BY <3>2 DEF Sends
    <3>4. i \in 1..l /\ i \in 1..Len(d)
      BY <1>3
    <3>. QED
      BY <1>3, <3>3, <3>4
  <2>. QED
    BY <2>2, <2>3
<1>. QED
  BY <1>3, <1>7, <1>8, <1>9 DEF Sends
(***************************************************************************)
(* The announced length.                                                   *)
(***************************************************************************)
LEMMA NumbersAre == ASSUME NEW r PROVE NumbersSize(r) \in Nat
<1>1. ASSUME NEW n PROVE Digits(n) \in Nat
  <2>1. PICK S : S = {d \in 1..9 : n >= 10 ^ d}
    OBVIOUS
  <2>2. IsFiniteSet(1..9)
    <3>1. 1 \in Int /\ 9 \in Int
      OBVIOUS
    <3>. QED
      BY <3>1, FS_Interval, Zenon
  <2>3. S \subseteq 1..9
    BY <2>1
  <2>4. IsFiniteSet(S)
    BY <2>2, <2>3, FS_Subset
  <2>5. Cardinality(S) \in Nat
    BY <2>4, FS_CardinalityType
  <2>6. 1 + Cardinality(S) \in Nat
    BY <2>5
  <2>. QED
    BY <2>1, <2>6, Zenon DEF Digits
<1>. QED
  BY <1>1 DEF NumbersSize

(* What one part holds but the boundary.                                   *)
PartSize(r) == PartHeadSize + NumbersSize(r) + RangeSize(r)
PartSizes(c, k) == Total([i \in 1..k |-> PartSize(c[i])])

LEMMA PartSizesMore ==
    ASSUME NEW c, NEW k \in Nat, NEW m, m = k + 1, \A i \in 1..m : PartSize(c[i]) \in Int
    PROVE  PartSizes(c, 0) = 0 /\ PartSizes(c, k) \in Int /\ PartSizes(c, m) = PartSizes(c, k) + PartSize(c[m])
<1>0. m \in Nat /\ m \in 1..m /\ \A i \in 1..k : i \in 1..m
  OBVIOUS
<1>1. PICK f, g, x : /\ f = [i \in 1..k |-> PartSize(c[i])] /\ g = [i \in 1..m |-> PartSize(c[i])]
                     /\ x = PartSize(c[m])
  OBVIOUS
<1>2. f \in [1..k -> Int] /\ g \in [1..m -> Int] /\ x \in Int
  BY <1>0, <1>1
<1>3. f \in Seq(Int) /\ Len(f) = k
  BY <1>2
<1>4. g \in Seq(Int) /\ DOMAIN g = 1..m
  BY <1>0, <1>2
<1>5. g[m] = x /\ \A i \in 1..k : g[i] = f[i]
  BY <1>0, <1>1
<1>6. DOMAIN g = 1..(Len(f) + 1) /\ g[Len(f) + 1] = x
  BY <1>3, <1>4, <1>5
<1>7. g = Append(f, x)
  BY <1>2, <1>3, <1>4, <1>5, <1>6, MappedMore
<1>8. Total(f) \in Int /\ Total(g) = Total(f) + x
  BY <1>2, <1>3, <1>7, TotalMore
<1>9. [i \in 1..0 |-> PartSize(c[i])] = <<>>
  OBVIOUS
<1>10. Total(<<>>) = 0
  BY <1>2, <1>3, TotalMore, Zenon
<1>11. PartSizes(c, 0) = 0 /\ PartSizes(c, k) = Total(f) /\ PartSizes(c, m) = Total(g)
  BY <1>1, <1>9, <1>10, Zenon DEF PartSizes
<1>. QED
  BY <1>1, <1>8, <1>11

(* The pieces written for the first k ranges.                              *)
Written(body, c, k) ==
    /\ body \in Seq(Piece)
    /\ Sends(BytesOf(body), c, k)
    /\ SizeOf(body) = PartSizes(c, k) + (IF k = 0 THEN 0 ELSE k * (BoundarySize + 6) - 2)

LEMMA PartWritten ==
    ASSUME NEW size \in Int, NEW c \in Seq(Pairs), Within(c, size), Apart(c), NEW k \in Nat, k < Len(c),
           NEW m \in Nat, m = k + 1, NEW body, Written(body, c, k), NEW d, d = body \o Part(c, m, size)
    PROVE  Written(d, c, m)
<1>1. m \in 1..Len(c) /\ c[m] \in Pairs
  <2>1. m \in 1..Len(c)
    OBVIOUS
  <2>. QED
    BY <2>1
<1>2. PICK a \in Int, e \in Int : a = c[m][1] /\ e = c[m][2]
  BY <1>1, PairIs
<1>3. 0 <= a /\ a <= e /\ e < size
  BY <1>1, <1>2 DEF Within
<1>4. PICK x : x = FilePiece(c[m], size)
  OBVIOUS
<1>5. x \in Piece /\ x.size = RangeSize(c[m]) /\ x.bytes = Run(a, e + 1)
  <2>1. c[m][1] \in Int /\ c[m][2] \in Int /\ 0 <= c[m][1] /\ c[m][1] <= c[m][2] + 1 /\ c[m][2] < size
    BY <1>2, <1>3
  <2>. QED
    BY <1>2, <1>4, <2>1, FilePieceIs
<1>6. PICK t, u, v :
        /\ t = (IF m = 1 THEN 0 ELSE 2) + 2 + BoundarySize
        /\ u = 2
        /\ v = PartHeadSize + NumbersSize(c[m])
  OBVIOUS
<1>7. BoundarySize \in Nat /\ PartHeadSize \in Nat /\ NumbersSize(c[m]) \in Int
  BY RangesAssumption, NumbersAre
<1>8. t \in Int /\ u \in Int /\ v \in Int
  BY <1>6, <1>7
<1>9. PartBehind(d, body, t, u, v, x)
  BY <1>4, <1>6, Zenon DEF Part, PartBehind
<1>10. body \in Seq(Piece)
  BY DEF Written
<1>11. /\ d \in Seq(Piece)
       /\ BytesOf(d) = BytesOf(body) \o x.bytes
       /\ SizeOf(d) = SizeOf(body) + t + u + v + x.size
  <2>1. x \in Piece
    BY <1>5
  <2>. QED
    <3>1. \A f : PartBehind(f, body, t, u, v, x) =>
                   /\ f \in Seq(Piece)
                   /\ BytesOf(f) = BytesOf(body) \o x.bytes
                   /\ SizeOf(f) = SizeOf(body) + t + u + v + x.size
      BY <1>8, <1>10, <2>1, PartAdded
    <3>. QED
      BY <1>9, <3>1
<1>12. Sends(BytesOf(d), c, m)
  <2>1. PICK o, p, r, l : o = BytesOf(body) /\ p = BytesOf(d) /\ r = Run(a, e + 1) /\ l = Len(o)
    OBVIOUS
  <2>2. Sends(o, c, k) /\ p = o \o r
    BY <1>5, <1>11, <2>1 DEF Written
  <2>3. IsRun(r, a, e + 1)
    <3>1. PICK g \in Int : g = e + 1
      OBVIOUS
    <3>2. a <= g
      BY <1>3, <3>1
    <3>. QED
      BY <2>1, <3>1, <3>2, RunIs
  <2>4. o \in Seq(Int) /\ l \in Nat
    BY <2>1, <2>2 DEF Sends
  <2>5. Extended(p, o, l, a, e)
    BY <1>3, <2>1, <2>2, <2>3, <2>4, RunAdded
  <2>6. IsNext(c, k, m, a, e)
    BY <1>2 DEF IsNext
  <2>7. m \in Int
    OBVIOUS
  <2>8. Sends(p, c, m)
    BY <2>2, <2>4, <2>5, <2>6, <2>7, RangeAdded
  <2>. QED
    BY <2>1, <2>8
<1>13. SizeOf(d) = PartSizes(c, m) + m * (BoundarySize + 6) - 2
  <2>1. ASSUME NEW i \in 1..m PROVE PartSize(c[i]) \in Int
    <3>1. c[i] \in Pairs
      OBVIOUS
    <3>2. RangeSize(c[i]) \in Int
      BY <3>1, PairIs DEF RangeSize
    <3>3. NumbersSize(c[i]) \in Int
      BY NumbersAre
    <3>. QED
      BY <1>7, <3>2, <3>3 DEF PartSize
  <2>2. /\ PartSizes(c, 0) = 0 /\ PartSizes(c, k) \in Int
        /\ PartSizes(c, m) = PartSizes(c, k) + PartSize(c[m])
    BY <2>1, PartSizesMore
  <2>3. SizeOf(body) = PartSizes(c, k) + (IF k = 0 THEN 0 ELSE k * (BoundarySize + 6) - 2)
    BY DEF Written
  <2>4. PICK q \in Int : q = PartSizes(c, k)
    BY <2>2
  <2>5. PICK z \in Int : z = PartSize(c[m])
    BY <2>1
  <2>6. PICK h \in Int : h = BoundarySize + 6
    BY <1>7
  <2>7. x.size \in Int /\ z = v + x.size
    <3>1. x.size \in Int
      BY <1>5, PieceIs
    <3>2. PICK n \in Int, p \in Int : n = NumbersSize(c[m]) /\ p = PartHeadSize
      BY <1>7
    <3>3. v = p + n /\ z = p + n + x.size
      BY <1>5, <1>6, <2>5, <3>2 DEF PartSize
    <3>. QED
      BY <3>1, <3>2, <3>3
  <2>8. PICK y \in Int : y = x.size
    BY <2>7
  <2>9. t + u = h - 2 + (IF k = 0 THEN 0 ELSE 2)
    BY <1>6, <1>7, <2>6
  <2>10. m * h = k * h + h
    BY <2>6
  <2>11. PICK w \in Int, w2 \in Int : w = k * h /\ w2 = m * h
    BY <2>6
  <2>12. k = 0 => w = 0
    BY <2>11
  <2>13. PICK g \in Int : g = SizeOf(body)
    BY <1>10, <1>5, PieceAdded
  <2>14. g = q + (IF k = 0 THEN 0 ELSE w - 2)
    BY <2>3, <2>4, <2>6, <2>11, <2>13
  <2>15. SizeOf(d) = g + t + u + v + y
    BY <1>11, <2>8, <2>13
  <2>16. z = v + y /\ w2 = w + h
    BY <2>7, <2>8, <2>10, <2>11
  <2>17. g + t + u + v + y = q + z + w2 - 2
    BY <1>8, <2>9, <2>12, <2>14, <2>16
  <2>18. PartSizes(c, m) = q + z
    BY <2>2, <2>4, <2>5
  <2>. QED
    BY <2>6, <2>11, <2>15, <2>17, <2>18
<1>. QED
  BY <1>11, <1>12, <1>13 DEF Written
(* A body for ranges of a file: their bytes, and the announced length.     *)
BodyFor(body, c) ==
    /\ Sends(BytesOf(body), c, Len(c))
    /\ SizeOf(body) = announced(c)

LEMMA PartsWritten ==
    ASSUME NEW size \in Int, NEW c \in Seq(Pairs), Within(c, size), Apart(c), NEW s, NEW T,
           T = Piece, s = [i \in 1..Len(c) |-> Part(c, i, size)], s \in Seq(Seq(T)), Len(s) = Len(c)
    PROVE  \A k \in 0..Len(c) : Written(Upto(s, k), c, k)
<1>0. /\ Upto(s, 0) = <<>>
      /\ \A k \in 0..(Len(s) - 1) : Upto(s, k + 1) = Upto(s, k) \o s[k + 1]
  BY UptoIs
<1>. DEFINE Bad == {k \in 0..Len(c) : ~ Written(Upto(s, k), c, k)}
<1>. SUFFICES ASSUME Bad # {} PROVE FALSE
  OBVIOUS
<1>1. PICK m \in Bad : \A j \in Bad : m <= j
  <2>1. Bad \in SUBSET Nat
    OBVIOUS
  <2>. QED
    BY <2>1, Least
<1>2. m # 0
  <2>1. PartSizes(c, 0) = 0
    <3>1. [i \in 1..0 |-> PartSize(c[i])] = <<>>
      OBVIOUS
    <3>2. Total(<<>>) = 0
      <4>1. <<>> \in Seq(Int) /\ 0 \in Int
        OBVIOUS
      <4>. QED
        BY <4>1, TotalMore, Zenon
    <3>. QED
      BY <3>1, <3>2, Zenon DEF PartSizes
  <2>2. Written(<<>>, c, 0)
    BY <2>1, NoPieces, NothingSent DEF Written
  <2>. QED
    BY <1>0, <2>2
<1>3. PICK k \in Nat : k = m - 1 /\ m = k + 1 /\ k < Len(c) /\ m \in 1..Len(c) /\ m \in Nat
  BY <1>2
<1>4. Written(Upto(s, k), c, k)
  <2>1. k \in 0..Len(c) /\ ~ m <= k
    BY <1>3
  <2>. QED
    BY <1>1, <2>1
<1>5. Upto(s, m) = Upto(s, k) \o Part(c, m, size)
  <2>1. k \in 0..(Len(s) - 1) /\ s[m] = Part(c, m, size)
    BY <1>3
  <2>. QED
    BY <1>0, <1>3, <2>1
<1>6. PICK body, d : body = Upto(s, k) /\ d = Upto(s, m)
  OBVIOUS
<1>7. Written(body, c, k) /\ d = body \o Part(c, m, size)
  BY <1>4, <1>5, <1>6
<1>8. Written(d, c, m)
  BY <1>3, <1>7, PartWritten
<1>. QED
  BY <1>6, <1>8

LEMMA BodyIs ==
    ASSUME NEW size \in Int, NEW c \in Seq(Pairs), Within(c, size), Apart(c), c # <<>>
    PROVE  BodyFor(writeFileRanges(c, size), c)
<1>. PICK body : body = writeFileRanges(c, size)
  OBVIOUS
<1>0. PICK n \in Nat : n = Len(c)
  OBVIOUS
<1>1. n # 0
  BY <1>0
<1>2. CASE n = 1
  <2>1. PICK x : x = FilePiece(c[1], size)
    OBVIOUS
  <2>2. body = <<x>> /\ announced(c) = RangeSize(c[1])
    BY <1>0, <1>2, <2>1, Zenon DEF writeFileRanges, announced
  <2>3. 1 \in 1..Len(c) /\ c[1] \in Pairs
    BY <1>0, <1>2
  <2>4. PICK a \in Int, e \in Int : a = c[1][1] /\ e = c[1][2]
    BY <2>3, PairIs
  <2>5. 0 <= a /\ a <= e /\ e < size
    BY <2>3, <2>4 DEF Within
  <2>6. x \in Piece /\ x.size = RangeSize(c[1]) /\ x.bytes = Run(a, e + 1)
    <3>1. c[1][1] \in Int /\ c[1][2] \in Int /\ 0 <= c[1][1] /\ c[1][1] <= c[1][2] + 1 /\ c[1][2] < size
      BY <2>4, <2>5
    <3>. QED
      BY <2>1, <2>4, <3>1, FilePieceIs
  <2>7. body = Append(<<>>, x)
    BY <2>2
  <2>8. BytesOf(body) = BytesOf(<<>>) \o x.bytes /\ SizeOf(body) = SizeOf(<<>>) + x.size
    <3>1. <<>> \in Seq(Piece)
      BY NoPieces
    <3>. QED
      BY <2>6, <2>7, <3>1, PieceAdded
  <2>9. SizeOf(body) = announced(c)
    <3>1. SizeOf(body) = 0 + x.size /\ x.size \in Int
      BY <2>6, <2>8, NoPieces, PieceIs
    <3>. QED
      BY <2>2, <2>6, <3>1
  <2>10. PICK r, p : r = Run(a, e + 1) /\ p = BytesOf(body)
    OBVIOUS
  <2>11. IsRun(r, a, e + 1)
    <3>1. PICK g \in Int : g = e + 1
      OBVIOUS
    <3>2. a <= g
      BY <2>5, <3>1
    <3>. QED
      BY <2>10, <3>1, <3>2, RunIs
  <2>12. p = <<>> \o r /\ <<>> \in Seq(Int) /\ Len(<<>>) = 0
    <3>1. p = <<>> \o r
      BY <2>6, <2>8, <2>10, NoPieces, Zenon
    <3>2. <<>> \in Seq(Int) /\ Len(<<>>) = 0
      OBVIOUS
    <3>. QED
      BY <3>1, <3>2
  <2>13. Extended(p, <<>>, 0, a, e)
    BY <2>5, <2>11, <2>12, RunAdded
  <2>14. IsNext(c, 0, 1, a, e)
    BY <1>0, <1>2, <2>4 DEF IsNext
  <2>15. Sends(<<>>, c, 0)
    BY NothingSent
  <2>16. 0 \in Nat /\ 1 \in Int
    OBVIOUS
  <2>17. Sends(p, c, 1)
    BY <2>13, <2>14, <2>15, <2>16, RangeAdded
  <2>. QED
    BY <1>0, <1>2, <2>9, <2>10, <2>17 DEF BodyFor
<1>3. CASE n # 1
  <2>1. PICK s : s = [i \in 1..n |-> Part(c, i, size)]
    OBVIOUS
  <2>2. s \in Seq(Seq(Piece)) /\ Len(s) = n
    <3>1. PICK T : T = Seq(Piece)
      OBVIOUS
    <3>2. ASSUME NEW i \in 1..n PROVE s[i] \in T
      <4>1. c[i] \in Pairs
        BY <1>0
      <4>2. c[i][1] \in Int /\ c[i][2] \in Int /\ 0 <= c[i][1] /\ c[i][1] <= c[i][2] + 1 /\ c[i][2] < size
        BY <1>0, <4>1, PairIs DEF Within
      <4>3. PICK x : x = FilePiece(c[i], size)
        OBVIOUS
      <4>4. x \in Piece
        BY <4>2, <4>3, FilePieceIs
      <4>5. NumbersSize(c[i]) \in Int /\ BoundarySize \in Nat /\ PartHeadSize \in Nat
        BY NumbersAre, RangesAssumption
      <4>6. PICK t, u, v : /\ t = (IF i = 1 THEN 0 ELSE 2) + 2 + BoundarySize /\ u = 2
                           /\ v = PartHeadSize + NumbersSize(c[i])
        OBVIOUS
      <4>7. t \in Int /\ u \in Int /\ v \in Int
        BY <4>5, <4>6
      <4>8. PICK a, b, d : a = TextPiece(t) /\ b = TextPiece(u) /\ d = TextPiece(v)
        OBVIOUS
      <4>9. a \in Piece /\ b \in Piece /\ d \in Piece
        BY <4>7, <4>8, PieceIs
      <4>10. <<a, b, d, x>> \in Seq(Piece)
        BY <4>4, <4>9
      <4>11. s[i] = Part(c, i, size)
        BY <2>1
      <4>12. Part(c, i, size) = <<a, b, d, x>>
        BY <4>3, <4>6, <4>8, Zenon DEF Part
      <4>. QED
        BY <3>1, <4>10, <4>11, <4>12
    <3>3. s \in [1..n -> T]
      BY <2>1, <3>2
    <3>4. s \in Seq(T) /\ Len(s) = n
      BY <3>3
    <3>. QED
      BY <3>1, <3>4
  <2>3. Written(Upto(s, n), c, n)
    <3>1. \A k \in 0..Len(c) : Written(Upto(s, k), c, k)
      BY <1>0, <2>1, <2>2, PartsWritten
    <3>. QED
      BY <1>0, <3>1
  <2>4. PICK g : g = Upto(s, n)
    OBVIOUS
  <2>5. FlattenSeq(s) = g
    BY <2>2, <2>4, UptoIs
  <2>6. PICK t, u : t = 2 + 2 + BoundarySize /\ u = 4
    OBVIOUS
  <2>7. EndBehind(body, g, t, u)
    BY <1>0, <1>3, <2>1, <2>5, <2>6, Zenon DEF writeFileRanges, EndBehind
  <2>8. g \in Seq(Piece) /\ t \in Int /\ u \in Int
    BY <2>3, <2>4, <2>6, RangesAssumption DEF Written
  <2>9. BytesOf(body) = BytesOf(g) /\ SizeOf(body) = SizeOf(g) + t + u
    <3>1. \A f : EndBehind(f, g, t, u) => BytesOf(f) = BytesOf(g) /\ SizeOf(f) = SizeOf(g) + t + u
      BY <2>8, EndAdded
    <3>. QED
      BY <2>7, <3>1
  <2>10. Sends(BytesOf(body), c, n)
    BY <2>3, <2>4, <2>9 DEF Written
  <2>11. announced(c) = SizeOf(g) + t + u
    <3>1. [i \in 1..Len(c) |-> PartHeadSize + NumbersSize(c[i]) + RangeSize(c[i])] = [i \in 1..n |-> PartSize(c[i])]
      BY <1>0 DEF PartSize
    <3>2. PICK q : q = PartSizes(c, n)
      OBVIOUS
    <3>3. q = Total([i \in 1..Len(c) |-> PartHeadSize + NumbersSize(c[i]) + RangeSize(c[i])])
      BY <3>1, <3>2, Zenon DEF PartSizes
    <3>4. PICK h \in Int : h = BoundarySize
      BY RangesAssumption
    <3>5. announced(c) = 2 + h + 2 + q + (n - 1) * (2 + (2 + h) + 2) + 2 + (2 + h) + 4
      BY <1>0, <1>3, <3>3, <3>4, Zenon DEF announced
    <3>6. SizeOf(g) = q + (n * (h + 6) - 2)
      BY <1>1, <2>3, <2>4, <3>2, <3>4 DEF Written
    <3>7. q \in Int
      <4>1. PICK k \in Nat : n = k + 1
        <5>1. n - 1 \in Nat /\ n = (n - 1) + 1
          BY <1>1
        <5>. QED
          BY <5>1
      <4>2. ASSUME NEW i \in 1..n PROVE PartSize(c[i]) \in Int
        <5>1. c[i] \in Pairs
          BY <1>0
        <5>2. RangeSize(c[i]) \in Int
          BY <5>1, PairIs DEF RangeSize
        <5>3. NumbersSize(c[i]) \in Int
          BY NumbersAre
        <5>4. PartHeadSize \in Int
          BY RangesAssumption
        <5>. QED
          BY <5>2, <5>3, <5>4 DEF PartSize
      <4>3. PartSizes(c, k) \in Int /\ PartSizes(c, n) = PartSizes(c, k) + PartSize(c[n])
        BY <4>1, <4>2, PartSizesMore
      <4>4. PartSize(c[n]) \in Int
        <5>1. n \in 1..n
          BY <1>1
        <5>. QED
          BY <4>2, <5>1
      <4>. QED
        BY <3>2, <4>3, <4>4
    <3>8. (n - 1) * (2 + (2 + h) + 2) = n * (h + 6) - (h + 6)
      BY <3>4
    <3>9. PICK w \in Int : w = n * (h + 6)
      BY <3>4
    <3>. QED
      BY <2>6, <3>4, <3>5, <3>6, <3>7, <3>8, <3>9
  <2>. QED
    BY <1>0, <2>9, <2>10, <2>11 DEF BodyFor
<1>. QED
  BY <1>0, <1>2, <1>3

(* The length is not negative before it wraps.                             *)
LEMMA AnnouncedIs ==
    ASSUME NEW size \in Int, NEW c \in Seq(Pairs), Within(c, size), c # <<>>
    PROVE  announced(c) \in Nat
<1>1. PICK n \in Nat : n = Len(c)
  OBVIOUS
<1>2. n # 0
  BY <1>1
<1>3. ASSUME NEW i \in 1..n PROVE RangeSize(c[i]) \in Nat
  <2>1. c[i] \in Pairs
    BY <1>1
  <2>2. PICK a \in Int, e \in Int : a = c[i][1] /\ e = c[i][2]
    BY <2>1, PairIs
  <2>3. a <= e
    BY <1>1, <2>2 DEF Within
  <2>. QED
    BY <2>2, <2>3 DEF RangeSize
<1>4. CASE n = 1
  <2>1. announced(c) = RangeSize(c[1])
    BY <1>1, <1>4, Zenon DEF announced
  <2>. QED
    BY <1>3, <1>4, <2>1
<1>5. CASE n # 1
  <2>1. PICK s : s = [i \in 1..Len(c) |-> PartHeadSize + NumbersSize(c[i]) + RangeSize(c[i])]
    OBVIOUS
  <2>2. ASSUME NEW i \in 1..n PROVE s[i] \in Nat
    <3>1. PICK p \in Nat, q \in Nat, r \in Nat : p = PartHeadSize /\ q = NumbersSize(c[i]) /\ r = RangeSize(c[i])
      BY <1>3, NumbersAre, RangesAssumption
    <3>2. s[i] = p + q + r
      BY <1>1, <2>1, <3>1
    <3>. QED
      BY <3>2
  <2>3. s \in [1..n -> Nat]
    BY <1>1, <2>1, <2>2
  <2>4. s \in Seq(Nat)
    BY <2>3
  <2>5. PICK q \in Nat : q = Total(s)
    BY <2>4, TotalNotNegative
  <2>6. PICK h \in Nat : h = BoundarySize
    BY RangesAssumption
  <2>7. announced(c) = 2 + h + 2 + q + (n - 1) * (2 + (2 + h) + 2) + 2 + (2 + h) + 4
    BY <1>1, <1>5, <2>1, <2>5, <2>6, Zenon DEF announced
  <2>8. PICK k \in Nat, w \in Nat : k = n - 1 /\ w = k * (h + 6)
    BY <1>2
  <2>9. (n - 1) * (2 + (2 + h) + 2) = w
    <3>1. 2 + (2 + h) + 2 = h + 6
      OBVIOUS
    <3>. QED
      BY <2>8, <3>1
  <2>. QED
    BY <2>7, <2>9
<1>. QED
  BY <1>4, <1>5

(***************************************************************************)
(* Downloads.                                                              *)
(***************************************************************************)
(* Specs that are accepted.                                                *)
Sane(h) == Len(h.specs) <= MaxSpecs /\ \A i \in DOMAIN h.specs : WellFormed(h.specs[i])

LEMMA DeterminedIs ==
    ASSUME NEW h, NEW size, NEW c, c = coalesced(requestedRanges(h.specs, size)),
           NEW d, d = determineFileRanges(h, size), Len(h.specs) \in Nat
    PROVE  /\ Ignored(h) => d = FullFile
           /\ ~ Ignored(h) /\ ~ Sane(h) => d = InvalidRange
           /\ ~ Ignored(h) /\ Sane(h) =>
                \/ c = <<>> /\ d = InvalidRange
                \/ c = <<<<0, size - 1>>>> /\ d = FullFile
                \/ c # <<>> /\ c # <<<<0, size - 1>>>> /\ d = [type |-> "ValidRanges", ranges |-> c]
<1>1. CASE Ignored(h)
  BY <1>1, Zenon DEF determineFileRanges
<1>2. ASSUME ~ Ignored(h), ~ Sane(h) PROVE d = InvalidRange
  <2>1. (\E i \in DOMAIN h.specs : ~ WellFormed(h.specs[i])) \/ Len(h.specs) > MaxSpecs
    BY <1>2 DEF Sane, MaxSpecs
  <2>. QED
    BY <1>2, <2>1, Zenon DEF determineFileRanges
<1>3. ASSUME ~ Ignored(h), Sane(h)
      PROVE  \/ c = <<>> /\ d = InvalidRange
             \/ c = <<<<0, size - 1>>>> /\ d = FullFile
             \/ c # <<>> /\ c # <<<<0, size - 1>>>> /\ d = [type |-> "ValidRanges", ranges |-> c]
  <2>1. ~ ((\E i \in DOMAIN h.specs : ~ WellFormed(h.specs[i])) \/ Len(h.specs) > MaxSpecs)
    BY <1>3 DEF Sane, MaxSpecs
  <2>2. d = CASE c = <<>> -> InvalidRange
              [] c = <<<<0, size - 1>>>> -> FullFile
              [] OTHER -> [type |-> "ValidRanges", ranges |-> c]
    BY <1>3, <2>1, Zenon DEF determineFileRanges
  <2>3. CASE c = <<>>
    <3>1. c # <<<<0, size - 1>>>>
      BY <2>3
    <3>. QED
      BY <2>2, <2>3, <3>1, Zenon
  <2>4. CASE c = <<<<0, size - 1>>>>
    <3>1. c # <<>>
      BY <2>4
    <3>. QED
      BY <2>2, <2>4, <3>1, Zenon
  <2>5. CASE c # <<>> /\ c # <<<<0, size - 1>>>>
    BY <2>2, <2>5, Zenon
  <2>. QED
    BY <2>3, <2>4, <2>5
<1>. QED
  BY <1>1, <1>2, <1>3

LEMMA OnlyIs == ASSUME NEW S, NEW s \in Seq(S), Len(s) = 1 PROVE s = <<s[1]>>
<1>1. PICK x \in S : x = s[1]
  OBVIOUS
<1>2. s = <<x>>
  BY <1>1
<1>. QED
  BY <1>1, <1>2

LEMMA PairAgain == ASSUME NEW r \in Pairs PROVE r = <<r[1], r[2]>>
  BY DEF Pairs

(* Ranges that are not the one of the whole file leave a byte out.         *)
LEMMA LeavesOut ==
    ASSUME NEW size \in Int, NEW c \in Seq(Pairs), Within(c, size), Apart(c), c # <<>>, c # <<<<0, size - 1>>>>
    PROVE  \E b \in 0..(size - 1) : ~ In(c, Len(c), b)
<1>1. PICK n \in Nat : n = Len(c) /\ n > 0 /\ 1 \in 1..n
  OBVIOUS
<1>2. \A j \in 1..n : c[j][1] \in Int /\ c[j][2] \in Int /\ 0 <= c[j][1] /\ c[j][1] <= c[j][2] /\ c[j][2] < size
  <2>. SUFFICES ASSUME NEW j \in 1..n
                PROVE  c[j][1] \in Int /\ c[j][2] \in Int /\ 0 <= c[j][1] /\ c[j][1] <= c[j][2] /\ c[j][2] < size
    OBVIOUS
  <2>1. c[j] \in Pairs
    BY <1>1
  <2>. QED
    BY <1>1, <2>1, PairIs DEF Within
<1>3. PICK a \in Int, e \in Int : a = c[1][1] /\ e = c[1][2]
  BY <1>1, <1>2
<1>4. 0 <= a /\ a <= e /\ e < size
  BY <1>1, <1>2, <1>3
<1>5. CASE n = 1
  <2>1. ~ (a = 0 /\ e = size - 1)
    <3>1. ASSUME a = 0, e = size - 1 PROVE FALSE
      <4>1. c[1] \in Pairs
        BY <1>1
      <4>2. c[1] = <<c[1][1], c[1][2]>>
        BY <4>1, PairAgain
      <4>3. c = <<c[1]>>
        BY <1>1, <1>5, OnlyIs
      <4>4. c[1] = <<0, size - 1>>
        BY <1>3, <3>1, <4>2
      <4>. QED
        BY <4>3, <4>4
    <3>. QED
      BY <3>1
  <2>2. PICK b \in 0..(size - 1) : b < a \/ b > e
    <3>1. CASE a # 0
      <4>1. 0 \in 0..(size - 1) /\ 0 < a
        BY <1>4, <3>1
      <4>. QED
        BY <4>1
    <3>2. CASE e # size - 1
      <4>1. size - 1 \in 0..(size - 1) /\ size - 1 > e
        BY <1>4, <3>2
      <4>. QED
        BY <4>1
    <3>. QED
      BY <2>1, <3>1, <3>2
  <2>3. ~ In(c, n, b)
    <3>1. ~ (a <= b /\ b <= e)
      BY <2>2
    <3>2. \A i \in 1..n : i = 1
      BY <1>5
    <3>. QED
      BY <1>3, <3>1, <3>2 DEF In
  <2>. QED
    BY <1>1, <2>3
<1>6. CASE n # 1
  <2>0. PICK o \in Nat : o = multiPartOverhead
    BY RangesAssumption
  <2>1. ASSUME NEW j \in 2..n PROVE c[j - 1][2] + 1 + o < c[j][1]
    <3>1. PICK i \in 1..(n - 1) : i = j - 1 /\ j = i + 1
      BY <2>1
    <3>. QED
      BY <1>1, <2>0, <3>1 DEF Apart
  <2>2. \A j \in 2..n : e + 1 < c[j][1]
    <3>. DEFINE Bad == {j \in 2..n : ~ e + 1 < c[j][1]}
    <3>. SUFFICES ASSUME Bad # {} PROVE FALSE
      OBVIOUS
    <3>1. PICK j \in Bad : \A i \in Bad : j <= i
      <4>1. Bad \in SUBSET Nat
        OBVIOUS
      <4>. QED
        BY <4>1, Least
    <3>2. c[j - 1][2] + 1 + o < c[j][1] /\ j \in 1..n /\ j - 1 \in 1..n
      BY <2>1
    <3>3. CASE j = 2
      <4>1. e + 1 + o < c[2][1] /\ c[2][1] \in Int
        BY <1>2, <1>3, <3>2, <3>3
      <4>. QED
        BY <3>3, <4>1
    <3>4. CASE j # 2
      <4>1. j - 1 \in 2..n /\ ~ j <= j - 1
        BY <3>4
      <4>2. j - 1 \notin Bad
        BY <3>1, <4>1
      <4>3. e + 1 < c[j - 1][1]
        BY <4>1, <4>2
      <4>4. PICK x \in Int, y \in Int, z \in Int : x = c[j - 1][1] /\ y = c[j - 1][2] /\ z = c[j][1]
        BY <1>2, <3>2
      <4>5. x <= y /\ y + 1 + o < z /\ e + 1 < x
        BY <1>2, <3>2, <4>3, <4>4
      <4>6. e + 1 < z
        BY <4>5
      <4>. QED
        BY <4>4, <4>6
    <3>. QED
      BY <3>3, <3>4
  <2>3. ~ In(c, n, e + 1)
    <3>1. ASSUME NEW i \in 1..n, c[i][1] <= e + 1, e + 1 <= c[i][2] PROVE FALSE
      <4>1. i # 1
        BY <1>3, <3>1
      <4>2. i \in 2..n
        BY <4>1
      <4>3. e + 1 < c[i][1] /\ c[i][1] \in Int
        BY <1>2, <2>2, <4>2
      <4>. QED
        BY <3>1, <4>3
    <3>. QED
      BY <3>1 DEF In
  <2>4. e + 1 \in 0..(size - 1)
    <3>1. 2 \in 2..n /\ 2 \in 1..n
      BY <1>1, <1>6
    <3>2. e + 1 < c[2][1] /\ c[2][1] \in Int /\ c[2][2] \in Int /\ c[2][1] <= c[2][2] /\ c[2][2] < size
      BY <1>2, <2>2, <3>1
    <3>. QED
      BY <1>4, <3>2
  <2>. QED
    BY <1>1, <2>3, <2>4
<1>. QED
  BY <1>5, <1>6
(* A byte that the specs ask for.                                          *)
Wanted(specs, size, b) == \E i \in 1..Len(specs) : FirstAsked(specs[i], size) <= b /\ b <= LastAsked(specs[i], size)

(* The bytes asked for, and beside these only bytes of small gaps; not the *)
(* whole file.                                                             *)
Answers(bytes, specs, size) ==
    /\ \A b \in Int : Wanted(specs, size, b) => \E i \in 1..Len(bytes) : bytes[i] = b
    /\ \A i \in 1..Len(bytes) :
         \/ Wanted(specs, size, bytes[i])
         \/ \E a, e \in Int : /\ Wanted(specs, size, a) /\ Wanted(specs, size, e)
                              /\ a < bytes[i] /\ bytes[i] < e /\ e - a <= multiPartOverhead + 1
    /\ \E b \in 0..(size - 1) : \A i \in 1..Len(bytes) : bytes[i] # b

Rising(bytes) == \A i \in 1..(Len(bytes) - 1) : bytes[i] < bytes[i + 1]

(* What is right about a download.                                         *)
DownloadOk(d, h, size) ==
    /\ d.length = SizeOf(d.body) \/ SizeOf(d.body) > IntMax
    /\ BytesOf(d.body) \in Seq(Int) /\ Rising(BytesOf(d.body))
    /\ Ignored(h) => d.status \in {"200", "204"}
    /\ d.status \in {"200", "204"} => Len(BytesOf(d.body)) = size
    /\ d.status = "204" => size = 0 \/ size > IntMax
    /\ d.status = "206" => Sane(h) /\ Answers(BytesOf(d.body), h.specs, size)
    /\ d.status = "416" => ~ Sane(h) \/ size > IntMax \/ \A b \in Int : ~ Wanted(h.specs, size, b)

(* One piece is a whole body.                                              *)
LEMMA OnePiece ==
    ASSUME NEW x \in Piece
    PROVE  BytesOf(<<x>>) = x.bytes /\ SizeOf(<<x>>) = x.size
<1>. PICK d : d = <<x>>
  OBVIOUS
<1>1. PICK e \in Seq(Piece) : e = <<>> /\ BytesOf(e) = <<>> /\ SizeOf(e) = 0
  BY NoPieces
<1>2. d = Append(e, x)
  BY <1>1
<1>3. BytesOf(d) = BytesOf(e) \o x.bytes /\ SizeOf(d) = SizeOf(e) + x.size
  BY <1>2, PieceAdded
<1>4. x.bytes \in Seq(Int) /\ x.size \in Int
  BY PieceIs
<1>5. BytesOf(d) = <<>> \o x.bytes /\ SizeOf(d) = 0 + x.size
  BY <1>1, <1>3
<1>6. <<>> \o x.bytes = x.bytes
  BY <1>4
<1>. QED
  BY <1>1, <1>4, <1>5, <1>6

(* The whole file.                                                         *)
LEMMA FullIs ==
    ASSUME NEW size \in Nat, NEW body, body = <<FilePiece(<<0, size - 1>>, size)>>
    PROVE  /\ SizeOf(body) = size /\ BytesOf(body) \in Seq(Int)
           /\ Len(BytesOf(body)) = size /\ Rising(BytesOf(body))
<1>0. PICK n \in Int, z \in Int : n = size - 1 /\ z = 0
  OBVIOUS
<1>1. PICK r, x : r = <<0, n>> /\ n = size - 1 /\ x = FilePiece(r, size) /\ z = 0
  BY <1>0
<1>2. r[1] = 0 /\ r[2] = n
  BY <1>1
<1>3. r[1] \in Int /\ r[2] \in Int /\ 0 <= r[1] /\ r[1] <= r[2] + 1 /\ r[2] < size
  BY <1>1, <1>2
<1>4. x \in Piece /\ x.size = RangeSize(r) /\ x.bytes = Run(r[1], r[2] + 1)
  BY <1>1, <1>3, FilePieceIs
<1>5. RangeSize(r) = size /\ r[2] + 1 = size
  BY <1>1, <1>2 DEF RangeSize
<1>6. IsRun(x.bytes, 0, size)
  <2>1. x.bytes = Run(0, size)
    BY <1>2, <1>4, <1>5
  <2>2. z <= size /\ size \in Int
    BY <1>1
  <2>3. IsRun(Run(z, size), z, size)
    BY <2>2, RunIs
  <2>. QED
    BY <1>1, <2>1, <2>3
<1>7. BytesOf(body) = x.bytes /\ SizeOf(body) = size
  <2>1. body = <<x>>
    BY <1>1
  <2>. QED
    BY <1>4, <1>5, <2>1, OnePiece
<1>8. PICK b : b = x.bytes
  OBVIOUS
<1>9. b \in Seq(Int) /\ Len(b) = size /\ \A j \in 1..size : b[j] = j - 1
  BY <1>6, <1>8 DEF IsRun
<1>10. Rising(b)
  <2>. SUFFICES ASSUME NEW i \in 1..(Len(b) - 1) PROVE b[i] < b[i + 1]
    BY DEF Rising
  <2>1. i \in 1..size /\ i + 1 \in 1..size
    BY <1>9
  <2>2. b[i] = i - 1 /\ b[i + 1] = (i + 1) - 1
    BY <1>9, <2>1
  <2>. QED
    BY <2>1, <2>2
<1>. QED
  BY <1>7, <1>8, <1>9, <1>10

(* A size that fits an int and leaves room for a gap, or one that is       *)
(* negative as an int.                                                     *)
Fits(size) == size + multiPartOverhead <= IntMax \/ (size > IntMax /\ size <= 2 * IntMax + 1)

(* A file of such a size is downloaded as its header asks.                 *)
LEMMA DownloadIs ==
    ASSUME NEW h, h \in RangeHeader, NEW size \in Nat, Fits(size)
    PROVE  DownloadOk(Download(h, size), h, size)
<1>0. PICK specs, n, z, c, d, f :
        /\ specs = h.specs /\ n = Len(specs) /\ z = AsInt(size)
        /\ c = coalesced(requestedRanges(specs, z))
        /\ d = determineFileRanges(h, z)
        /\ f = Download(h, size)
  OBVIOUS
<1>1. /\ specs = h.specs /\ n = Len(specs) /\ z = AsInt(size)
      /\ c = coalesced(requestedRanges(specs, z))
      /\ d = determineFileRanges(h, z)
      /\ f = Download(h, size)
      /\ n \in Nat
  <2>1. h.specs \in Seq(Seq(Nat \cup {-1}))
    BY DEF RangeHeader
  <2>2. Len(h.specs) \in Nat
    BY <2>1
  <2>. QED
    BY <1>0, <2>2
<1>. SUFFICES DownloadOk(f, h, size)
  BY <1>1
<1>2. /\ size <= IntMax => z = size
      /\ size > IntMax => z < 0
      /\ z \in Int
  <2>1. size <= 2 * IntMax + 1
    BY RangesAssumption DEF Fits
  <2>. QED
    BY <1>1, <2>1, AsIntIs, RangesAssumption
<1>z. Reachable(z)
  BY <1>2, RangesAssumption DEF Fits, Reachable
<1>3. /\ Ignored(h) => d = FullFile
      /\ ~ Ignored(h) /\ ~ Sane(h) => d = InvalidRange
      /\ ~ Ignored(h) /\ Sane(h) =>
           \/ c = <<>> /\ d = InvalidRange
           \/ c = <<<<0, z - 1>>>> /\ d = FullFile
           \/ c # <<>> /\ c # <<<<0, z - 1>>>> /\ d = [type |-> "ValidRanges", ranges |-> c]
  BY <1>1, DeterminedIs
<1>4. /\ d.type = "InvalidRange" => f = [status |-> "416", length |-> 0, body |-> <<>>]
      /\ d.type = "FullFile" => f = wholeFile(size)
      /\ d.type = "ValidRanges" => f = [status |-> "206", length |-> AsInt(announced(d.ranges)),
                                        body |-> writeFileRanges(d.ranges, size)]
  <2>1. f = CASE d.type = "InvalidRange" -> [status |-> "416", length |-> 0, body |-> <<>>]
              [] d.type = "FullFile" -> wholeFile(size)
              [] OTHER -> [status |-> "206", length |-> AsInt(announced(d.ranges)),
                           body |-> writeFileRanges(d.ranges, size)]
    BY <1>1, Zenon DEF Download
  <2>2. CASE d.type = "InvalidRange"
    <3>1. d.type # "FullFile" /\ d.type # "ValidRanges"
      BY <2>2
    <3>. QED
      BY <2>1, <2>2, <3>1, Zenon
  <2>3. CASE d.type = "FullFile"
    <3>1. d.type # "InvalidRange" /\ d.type # "ValidRanges"
      BY <2>3
    <3>. QED
      BY <2>1, <2>3, <3>1, Zenon
  <2>4. CASE d.type = "ValidRanges"
    <3>1. d.type # "InvalidRange" /\ d.type # "FullFile"
      BY <2>4
    <3>. QED
      BY <2>1, <2>4, <3>1, Zenon
  <2>. QED
    BY <2>2, <2>3, <2>4
<1>5. ASSUME ~ Ignored(h), Sane(h)
      PROVE  \E first, last :
               /\ \A i \in 1..n : first[i] = FirstAsked(specs[i], z) /\ last[i] = LastAsked(specs[i], z)
               /\ Bounds(first, last, n, z)
               /\ Answering(c, first, last, n, z)
  <2>1. ASSUME NEW i \in 1..Len(specs) PROVE SpecOk(specs[i])
    <3>1. PICK T : T = Seq(Nat \cup {-1})
      OBVIOUS
    <3>2. specs \in Seq(T)
      BY <1>1, <3>1 DEF RangeHeader
    <3>3. specs[i] \in T /\ i \in DOMAIN specs
      BY <3>2
    <3>4. WellFormed(specs[i])
      BY <1>1, <1>5, <3>3 DEF Sane
    <3>. QED
      BY <3>1, <3>3, <3>4 DEF SpecOk
  <2>2. \E first, last :
          /\ \A i \in 1..Len(specs) : first[i] = FirstAsked(specs[i], z) /\ last[i] = LastAsked(specs[i], z)
          /\ Bounds(first, last, Len(specs), z)
          /\ Answering(coalesced(requestedRanges(specs, z)), first, last, Len(specs), z)
    BY <1>1, <1>2, <1>z, <2>1, SpecsAnswered
  <2>. QED
    BY <1>1, <2>2
<1>6. CASE d = InvalidRange
  <2>1. f = [status |-> "416", length |-> 0, body |-> <<>>]
    BY <1>4, <1>6 DEF InvalidRange
  <2>2. f.status = "416" /\ f.length = 0 /\ f.body = <<>>
    BY <2>1
  <2>3. ~ Ignored(h)
    BY <1>3, <1>6 DEF InvalidRange, FullFile
  <2>4. ASSUME Sane(h), size <= IntMax, NEW b \in Int, Wanted(specs, size, b) PROVE FALSE
    <3>1. c = <<>> /\ z = size
      <4>1. d.type = "InvalidRange"
        BY <1>6 DEF InvalidRange
      <4>. QED
        BY <1>2, <1>3, <2>3, <2>4, <4>1 DEF FullFile
    <3>2. PICK first, last :
            /\ \A i \in 1..n : first[i] = FirstAsked(specs[i], z) /\ last[i] = LastAsked(specs[i], z)
            /\ Answering(c, first, last, n, z)
      BY <1>5, <2>3, <2>4
    <3>3. Asks(first, last, n, b)
      BY <1>1, <2>4, <3>1, <3>2 DEF Wanted, Asks
    <3>. QED
      BY <3>1, <3>2, <3>3 DEF Answering
  <2>5. ~ Sane(h) \/ size > IntMax \/ \A b \in Int : ~ Wanted(specs, size, b)
    BY <2>4, RangesAssumption
  <2>6. BytesOf(f.body) = <<>> /\ SizeOf(f.body) = 0
    BY <2>2, NoPieces
  <2>7. <<>> \in Seq(Int) /\ Rising(<<>>)
    BY DEF Rising
  <2>. QED
    BY <1>1, <2>2, <2>3, <2>5, <2>6, <2>7 DEF DownloadOk
<1>7. CASE d = FullFile
  <2>1. f = wholeFile(size)
    BY <1>4, <1>7 DEF FullFile
  <2>2. /\ f.status = IF z = 0 THEN "204" ELSE "200"
        /\ f.length = z /\ f.body = <<FilePiece(<<0, size - 1>>, size)>>
    <3>1. PICK body : body = <<FilePiece(<<0, size - 1>>, size)>>
      OBVIOUS
    <3>2. f = [status |-> IF z = 0 THEN "204" ELSE "200", length |-> z, body |-> body]
      BY <1>1, <2>1, <3>1, Zenon DEF wholeFile
    <3>. QED
      BY <3>1, <3>2
  <2>3. /\ SizeOf(f.body) = size /\ BytesOf(f.body) \in Seq(Int)
        /\ Len(BytesOf(f.body)) = size /\ Rising(BytesOf(f.body))
    BY <2>2, FullIs
  <2>4. f.length = size \/ size > IntMax
    BY <1>2, <2>2, RangesAssumption
  <2>5. f.status \in {"200", "204"} /\ (f.status = "204" => size = 0 \/ size > IntMax)
    BY <1>2, <2>2, RangesAssumption
  <2>. QED
    BY <2>3, <2>4, <2>5 DEF DownloadOk
<1>8. CASE /\ ~ Ignored(h) /\ Sane(h) /\ c # <<>> /\ c # <<<<0, z - 1>>>>
           /\ d = [type |-> "ValidRanges", ranges |-> c]
  <2>1. d.type = "ValidRanges" /\ d.ranges = c
    BY <1>8
  <2>2. f.status = "206" /\ f.length = AsInt(announced(c)) /\ f.body = writeFileRanges(c, size)
    <3>1. f = [status |-> "206", length |-> AsInt(announced(c)), body |-> writeFileRanges(c, size)]
      BY <1>4, <2>1
    <3>. QED
      BY <3>1
  <2>3. PICK first, last :
          /\ \A i \in 1..n : first[i] = FirstAsked(specs[i], z) /\ last[i] = LastAsked(specs[i], z)
          /\ Answering(c, first, last, n, z)
    BY <1>5, <1>8
  <2>4. c \in Seq(Pairs) /\ Within(c, z) /\ Apart(c)
    BY <2>3 DEF Answering
  <2>5. z = size
    <3>1. 1 \in 1..Len(c)
      BY <1>8, <2>4
    <3>2. c[1][1] \in Int /\ c[1][2] \in Int
      <4>1. c[1] \in Pairs
        BY <2>4, <3>1
      <4>. QED
        BY <4>1, PairIs
    <3>3. 0 <= c[1][1] /\ c[1][1] <= c[1][2] /\ c[1][2] < z
      BY <2>4, <3>1 DEF Within
    <3>4. ~ z < 0
      BY <1>2, <3>2, <3>3
    <3>. QED
      BY <1>2, <3>4, RangesAssumption
  <2>6. PICK bytes : bytes = BytesOf(f.body)
    OBVIOUS
  <2>7. Sends(bytes, c, Len(c)) /\ SizeOf(f.body) = announced(c)
    <3>1. BodyFor(writeFileRanges(c, z), c)
      BY <1>2, <1>8, <2>4, BodyIs
    <3>. QED
      BY <2>2, <2>5, <2>6, <3>1 DEF BodyFor
  <2>8. \A b : Wanted(specs, size, b) <=> Asks(first, last, n, b)
    BY <1>1, <2>3, <2>5 DEF Wanted, Asks
  <2>9. bytes \in Seq(Int) /\ Rising(bytes)
    BY <2>7 DEF Sends, Rising
  <2>10. ASSUME NEW b \in Int, Wanted(specs, size, b) PROVE \E i \in 1..Len(bytes) : bytes[i] = b
    <3>1. In(c, Len(c), b)
      BY <2>3, <2>8, <2>10 DEF Answering
    <3>. QED
      BY <2>7, <3>1 DEF Sends
  <2>11. ASSUME NEW i \in 1..Len(bytes)
         PROVE  \/ Wanted(specs, size, bytes[i])
                \/ \E a, e \in Int : /\ Wanted(specs, size, a) /\ Wanted(specs, size, e)
                                     /\ a < bytes[i] /\ bytes[i] < e /\ e - a <= multiPartOverhead + 1
    <3>1. PICK b \in Int : b = bytes[i]
      BY <2>9
    <3>2. In(c, Len(c), b)
      BY <2>7, <3>1 DEF Sends
    <3>3. \/ Asks(first, last, n, b)
          \/ \E a, e \in Int : /\ Asks(first, last, n, a) /\ Asks(first, last, n, e)
                               /\ a < b /\ b < e /\ e - a <= multiPartOverhead + 1
      BY <2>3, <3>2 DEF Answering
    <3>. QED
      BY <2>8, <3>1, <3>3
  <2>12. \E b \in 0..(size - 1) : \A i \in 1..Len(bytes) : bytes[i] # b
    <3>1. PICK b \in 0..(size - 1) : ~ In(c, Len(c), b)
      BY <1>2, <1>8, <2>4, <2>5, LeavesOut
    <3>2. \A i \in 1..Len(bytes) : bytes[i] # b
      BY <2>7, <3>1 DEF Sends
    <3>. QED
      BY <3>2
  <2>13. Answers(bytes, specs, size)
    BY <2>10, <2>11, <2>12 DEF Answers
  <2>14. f.length = SizeOf(f.body) \/ SizeOf(f.body) > IntMax
    <3>1. PICK l \in Nat : l = announced(c)
      BY <1>8, <2>4, <2>5, AnnouncedIs
    <3>2. l <= IntMax => AsInt(l) = l
      BY AsIntIs, RangesAssumption
    <3>. QED
      BY <2>2, <2>7, <3>1, <3>2, RangesAssumption
  <2>. QED
    BY <1>1, <1>8, <2>2, <2>6, <2>9, <2>13, <2>14 DEF DownloadOk
<1>. QED
  BY <1>3, <1>6, <1>7, <1>8
================================================================================
