---------------------------- MODULE SequenceLemmas -----------------------------
(***************************************************************************)
(* Lemmas about sequences that several proofs need: what FlattenSeq() puts *)
(* together, without an induction theorem.                                 *)
(***************************************************************************)
EXTENDS Integers, Sequences, SequencesExt, SequenceTheorems, FiniteSetTheorems, WellFoundedInduction, TLAPS

(* The least number of a set: what an induction over numbers starts from,  *)
(* by the inclusion of finite intervals.                                   *)
LEMMA Least ==
    ASSUME NEW S \in SUBSET Nat, S # {}
    PROVE  \E n \in S : \A m \in S : n <= m
<1>1. PICK k \in S : TRUE
  OBVIOUS
<1>. DEFINE F == {1..j : j \in {m \in S : m <= k}}
            R == StrictSubsetOrdering(1..k)
<1>2. IsWellFoundedOn(R, SUBSET (1..k))
  <2>1. IsFiniteSet(1..k)
    BY FS_Interval, <1>1
  <2>2. IsWellFoundedOn(R, FiniteSubsetsOf(1..k))
    BY <2>1, FS_StrictSubsetOrderingWellFounded
  <2>. QED
    BY <2>1, <2>2, FS_FiniteSubsetsOfFinite
<1>3. F \subseteq SUBSET (1..k) /\ F # {}
  BY <1>1
<1>. HIDE DEF F, R
<1>4. PICK x \in F : \A y \in F : ~ (<<y, x>> \in R)
  BY <1>2, <1>3, WFMin
<1>. USE DEF F, R, StrictSubsetOrdering
<1>5. PICK n \in S : n <= k /\ x = 1..n
  OBVIOUS
<1>6. ASSUME NEW m \in S, m < n PROVE FALSE
  <2>1. 1..m \in F
    BY <1>1, <1>5, <1>6
  <2>2. n \in 1..n /\ n \notin 1..m /\ 1..m \subseteq 1..n /\ 1..n \subseteq 1..k
    BY <1>1, <1>5, <1>6
  <2>3. <<1..m, 1..n>> \in R
    BY <2>2
  <2>. QED
    BY <1>4, <1>5, <2>1, <2>3
<1>. QED
  BY <1>6

(* FlattenSeq() is defined by recursion: the sequence of what it has put   *)
(* together after each part exists and is the only one.                    *)
Flattens(f, s, n) == f = [i \in 1..n |-> IF i = 1 THEN s[i] ELSE f[i - 1] \o s[i]]

(* Each value of the recursion follows from the one before.                *)
LEMMA FlattensAt ==
    ASSUME NEW f, NEW s, NEW n, Flattens(f, s, n), NEW i \in 1..n
    PROVE  f[i] = IF i = 1 THEN s[i] ELSE f[i - 1] \o s[i]
<1>. DEFINE g == [j \in 1..n |-> IF j = 1 THEN s[j] ELSE f[j - 1] \o s[j]]
<1>1. f = g
  BY Zenon DEF Flattens
<1>2. g[i] = IF i = 1 THEN s[i] ELSE f[i - 1] \o s[i]
  OBVIOUS
<1>. QED
  BY <1>1, <1>2, Zenon

(* The recursion has one solution.                                         *)
LEMMA FlattensOnce ==
    ASSUME NEW s, NEW n \in Nat, NEW m \in Nat, n <= m, NEW f, NEW g, Flattens(f, s, n), Flattens(g, s, m)
    PROVE  \A i \in 1..n : f[i] = g[i]
<1>. DEFINE Bad == {i \in 1..n : f[i] # g[i]}
<1>. SUFFICES ASSUME Bad # {} PROVE FALSE
  OBVIOUS
<1>0. Bad \in SUBSET Nat
  OBVIOUS
<1>1. PICK i \in Bad : \A j \in Bad : i <= j
  <2>. HIDE DEF Bad
  <2>. QED
    BY <1>0, Least
<1>. i \in 1..n /\ i \in 1..m
  OBVIOUS
<1>2. /\ f[i] = IF i = 1 THEN s[i] ELSE f[i - 1] \o s[i]
      /\ g[i] = IF i = 1 THEN s[i] ELSE g[i - 1] \o s[i]
  BY FlattensAt
<1>3. i # 1 => f[i - 1] = g[i - 1]
  BY <1>1
<1>. QED
  BY <1>2, <1>3

(* The recursion has a solution for every length.                          *)
LEMMA FlattensExists == ASSUME NEW s, NEW n \in Nat PROVE \E f : Flattens(f, s, n)
<1>. DEFINE Bad == {m \in Nat : ~ \E f : Flattens(f, s, m)}
<1>. SUFFICES ASSUME Bad # {} PROVE FALSE
  OBVIOUS
<1>1. PICK m \in Bad : \A j \in Bad : m <= j
  BY Least
<1>2. m # 0
  <2>1. Flattens(<<>>, s, 0)
    BY DEF Flattens
  <2>. QED
    BY <2>1
<1>3. PICK f : Flattens(f, s, m - 1)
  BY <1>1, <1>2
<1>. DEFINE g == [i \in 1..m |-> IF i = m THEN (IF m = 1 THEN s[1] ELSE f[m - 1] \o s[m]) ELSE f[i]]
<1>4. ASSUME NEW i \in 1..m PROVE g[i] = IF i = 1 THEN s[i] ELSE g[i - 1] \o s[i]
  <2>1. CASE i = m
    BY <2>1, <1>2
  <2>2. CASE i # m
    <3>1. i \in 1..(m - 1)
      BY <2>2
    <3>2. f[i] = IF i = 1 THEN s[i] ELSE f[i - 1] \o s[i]
      BY <3>1, <1>3, FlattensAt
    <3>. QED
      BY <3>1, <3>2, <2>2
  <2>. QED
    BY <2>1, <2>2
<1>5. Flattens(g, s, m)
  <2>1. g = [i \in 1..m |-> g[i]]
    OBVIOUS
  <2>. HIDE DEF g
  <2>. QED
    BY <1>4, <2>1 DEF Flattens
<1>. QED
  BY <1>5

(* FlattenSeq is what its recursion says.                                  *)
LEMMA FlattenSeqIs ==
    ASSUME NEW S, NEW s \in Seq(S)
    PROVE  /\ Len(s) = 0 => FlattenSeq(s) = <<>>
           /\ Len(s) # 0 => \E f : Flattens(f, s, Len(s)) /\ FlattenSeq(s) = f[Len(s)]
<1>1. CASE Len(s) = 0
  BY <1>1 DEF FlattenSeq
<1>2. CASE Len(s) # 0
  <2>. DEFINE f == CHOOSE g : g = [i \in 1..Len(s) |-> IF i = 1 THEN s[i] ELSE g[i - 1] \o s[i]]
  <2>0. PICK g : Flattens(g, s, Len(s))
    BY FlattensExists
  <2>1. \E h : h = [i \in 1..Len(s) |-> IF i = 1 THEN s[i] ELSE h[i - 1] \o s[i]]
    BY <2>0, Zenon DEF Flattens
  <2>2. f = [i \in 1..Len(s) |-> IF i = 1 THEN s[i] ELSE f[i - 1] \o s[i]]
    BY <2>1, Zenon
  <2>3. FlattenSeq(s) = f[Len(s)]
    BY <1>2, Zenon DEF FlattenSeq
  <2>. QED
    BY <1>2, <2>2, <2>3, Zenon DEF Flattens
<1>. QED
  BY <1>1, <1>2

(* What FlattenSeq() does with one more part.                              *)
LEMMA FlattensLast ==
    ASSUME NEW t, NEW n \in Nat \ {0}, NEW m, m = n + 1, NEW f, NEW g, Flattens(f, t, n), Flattens(g, t, m)
    PROVE  g[m] = f[n] \o t[m]
<1>1. m \in Nat /\ n \in Nat /\ n <= m /\ n \in 1..n /\ m \in 1..m /\ m # 1 /\ m - 1 = n
  OBVIOUS
<1>2. \A i \in 1..n : f[i] = g[i]
  BY <1>1, FlattensOnce
<1>3. ASSUME NEW i, i \in 1..m PROVE g[i] = IF i = 1 THEN t[i] ELSE g[i - 1] \o t[i]
  BY <1>3, FlattensAt
<1>. QED
  BY <1>1, <1>2, <1>3

(* One more sequence is concatenated at the end.                           *)
LEMMA FlattenSeqAppend ==
    ASSUME NEW S, NEW s \in Seq(S), NEW x \in S, s # <<>>
    PROVE  FlattenSeq(Append(s, x)) = FlattenSeq(s) \o x
<1>1. PICK t : t = Append(s, x)
  OBVIOUS
<1>2. /\ t \in Seq(S) /\ Len(t) = Len(s) + 1 /\ Len(s) \in Nat \ {0} /\ Len(t) # 0 /\ t[Len(t)] = x
      /\ \A i \in 1..Len(s) : t[i] = s[i]
  BY <1>1
<1>3. PICK g : Flattens(g, t, Len(t)) /\ FlattenSeq(t) = g[Len(t)]
  BY <1>2, FlattenSeqIs
<1>4. PICK f : Flattens(f, s, Len(s)) /\ FlattenSeq(s) = f[Len(s)]
  BY <1>2, FlattenSeqIs
<1>5. Flattens(f, t, Len(s))
  BY <1>2, <1>4 DEF Flattens
<1>6. g[Len(t)] = f[Len(s)] \o t[Len(t)]
  <2>1. PICK n, m : n = Len(s) /\ m = Len(t)
    OBVIOUS
  <2>2. n \in Nat \ {0} /\ m = n + 1 /\ Flattens(f, t, n) /\ Flattens(g, t, m)
    BY <1>2, <1>3, <1>5, <2>1
  <2>3. g[m] = f[n] \o t[m]
    BY ZenonT(60), <2>2, FlattensLast
  <2>. QED
    BY <2>1, <2>3
<1>. QED
  BY <1>1, <1>2, <1>3, <1>4, <1>6

(* No sequences concatenate to none.                                       *)
LEMMA FlattenSeqNone == FlattenSeq(<<>>) = <<>>
<1>1. <<>> \in Seq({}) /\ Len(<<>>) = 0
  OBVIOUS
<1>. QED
  BY <1>1, FlattenSeqIs

(* One sequence concatenates to itself.                                    *)
LEMMA FlattenSeqOne == ASSUME NEW S, NEW x \in S PROVE FlattenSeq(<<x>>) = x
<1>1. PICK s : s = <<x>>
  OBVIOUS
<1>2. s \in Seq(S) /\ Len(s) = 1 /\ s[1] = x
  BY <1>1
<1>5. s \in Seq(S) /\ Len(s) # 0
  BY <1>2
<1>3. PICK f : Flattens(f, s, Len(s)) /\ FlattenSeq(s) = f[Len(s)]
  BY <1>5, FlattenSeqIs
<1>4. f[1] = s[1]
  BY <1>2, <1>3, FlattensAt
<1>. QED
  BY <1>1, <1>2, <1>3, <1>4

(* The first parts of a sequence, put together.                            *)
Upto(s, c) == FlattenSeq(SubSeq(s, 1, c))

(* The first c + 1 sequences are the first c and one more.                 *)
LEMMA UptoNext ==
    ASSUME NEW S, NEW s \in Seq(Seq(S)), NEW c \in 0..(Len(s) - 1), NEW d, d = c + 1
    PROVE  Upto(s, d) = Upto(s, c) \o s[d] \/ (c = 0 /\ Upto(s, d) = s[d])
<1>1. PICK t : t = SubSeq(s, 1, c)
  OBVIOUS
<1>2. PICK x : x = s[d]
  OBVIOUS
<1>3. t \in Seq(Seq(S)) /\ Len(t) = c /\ x \in Seq(S)
  BY <1>1, <1>2
<1>4. SubSeq(s, 1, d) = Append(t, x)
  BY <1>1, <1>2
<1>5. CASE c = 0
  <2>1. t = <<>> /\ Append(t, x) = <<x>>
    BY <1>3, <1>5
  <2>2. FlattenSeq(<<x>>) = x
    BY <1>3, FlattenSeqOne
  <2>. QED
    BY <1>2, <1>4, <1>5, <2>1, <2>2 DEF Upto
<1>6. CASE c # 0
  <2>1. t # <<>>
    BY <1>3, <1>6
  <2>2. FlattenSeq(Append(t, x)) = FlattenSeq(t) \o x
    BY <1>3, <2>1, FlattenSeqAppend
  <2>. QED
    BY <1>1, <1>2, <1>4, <2>2 DEF Upto
<1>. QED
  BY <1>5, <1>6

(* The same for every c at once, up to all of them.                        *)
LEMMA UptoIs ==
    ASSUME NEW S, NEW s \in Seq(Seq(S))
    PROVE  /\ Upto(s, 0) = <<>>
           /\ Upto(s, Len(s)) = FlattenSeq(s)
           /\ \A c \in 0..Len(s) : Upto(s, c) \in Seq(S)
           /\ \A c \in 0..(Len(s) - 1) : Upto(s, c + 1) = Upto(s, c) \o s[c + 1]
<1>1. Upto(s, 0) = <<>>
  <2>1. SubSeq(s, 1, 0) = <<>>
    OBVIOUS
  <2>. QED
    BY <2>1, FlattenSeqNone DEF Upto
<1>2. Upto(s, Len(s)) = FlattenSeq(s)
  <2>1. SubSeq(s, 1, Len(s)) = s
    OBVIOUS
  <2>. QED
    BY <2>1 DEF Upto
<1>4. ASSUME NEW c \in 0..(Len(s) - 1), Upto(s, c) \in Seq(S), NEW d, d = c + 1
      PROVE  Upto(s, d) = Upto(s, c) \o s[d] /\ Upto(s, d) \in Seq(S)
  <2>1. s[d] \in Seq(S)
    BY <1>4
  <2>2. Upto(s, d) = Upto(s, c) \o s[d] \/ (c = 0 /\ Upto(s, d) = s[d])
    BY <1>4, UptoNext
  <2>3. <<>> \o s[d] = s[d]
    BY <2>1
  <2>4. Upto(s, d) = Upto(s, c) \o s[d]
    BY <1>1, <2>2, <2>3
  <2>. QED
    BY <1>4, <2>1, <2>4, ConcatProperties
<1>. DEFINE Bad == {c \in 0..Len(s) : Upto(s, c) \notin Seq(S)}
<1>3. Bad = {}
  <2>. SUFFICES ASSUME Bad # {} PROVE FALSE
    OBVIOUS
  <2>0. Bad \in SUBSET Nat
    OBVIOUS
  <2>1. PICK c \in Bad : \A d \in Bad : c <= d
    <3>. HIDE DEF Bad
    <3>. QED
      BY <2>0, Least
  <2>2. c # 0
    <3>1. <<>> \in Seq(S)
      OBVIOUS
    <3>. QED
      BY <1>1, <3>1
  <2>3. PICK b : b = c - 1
    OBVIOUS
  <2>4. b \in 0..(Len(s) - 1) /\ c = b + 1 /\ b \in 0..Len(s)
    BY <2>2, <2>3
  <2>5. Upto(s, b) \in Seq(S)
    BY <2>1, <2>4
  <2>6. Upto(s, c) \in Seq(S)
    BY <1>4, <2>4, <2>5
  <2>. QED
    BY <2>6
<1>5. \A c \in 0..Len(s) : Upto(s, c) \in Seq(S)
  BY <1>3
<1>6. ASSUME NEW c \in 0..(Len(s) - 1) PROVE Upto(s, c + 1) = Upto(s, c) \o s[c + 1]
  <2>1. Upto(s, c) \in Seq(S)
    BY <1>5
  <2>. QED
    BY <1>4, <2>1
<1>. QED
  BY <1>1, <1>2, <1>5, <1>6

(* After the first parts comes the next one, and then the rest.            *)
LEMMA UptoRest ==
    ASSUME NEW S, NEW s \in Seq(Seq(S)), NEW c \in 0..(Len(s) - 1)
    PROVE  \E rest \in Seq(S) : FlattenSeq(s) = (Upto(s, c) \o s[c + 1]) \o rest
<1>0. PICK e : e = Upto(s, c + 1)
  OBVIOUS
<1>1. e \in Seq(S) /\ e = Upto(s, c) \o s[c + 1]
  <2>1. c + 1 \in 0..Len(s)
    OBVIOUS
  <2>. QED
    BY <1>0, <2>1, UptoIs
<1>. DEFINE Bad == {d \in (c + 1)..Len(s) : ~ \E rest \in Seq(S) : Upto(s, d) = e \o rest}
<1>2. Bad = {}
  <2>. SUFFICES ASSUME Bad # {} PROVE FALSE
    OBVIOUS
  <2>0. Bad \in SUBSET Nat
    OBVIOUS
  <2>1. PICK d \in Bad : \A m \in Bad : d <= m
    <3>. HIDE DEF Bad
    <3>. QED
      BY <2>0, Least
  <2>2. d # c + 1
    <3>1. e = e \o <<>> /\ <<>> \in Seq(S)
      BY <1>1
    <3>. QED
      BY <1>0, <3>1
  <2>3. PICK b : b = d - 1
    OBVIOUS
  <2>4. b \in 0..(Len(s) - 1) /\ d = b + 1 /\ b \in (c + 1)..Len(s) /\ ~ d <= b
    BY <2>2, <2>3
  <2>5. PICK rest \in Seq(S) : Upto(s, b) = e \o rest
    BY <2>1, <2>4
  <2>6. Upto(s, b + 1) = Upto(s, b) \o s[b + 1]
    BY <2>4, UptoIs
  <2>8. PICK x : x = s[d]
    OBVIOUS
  <2>9. x \in Seq(S)
    BY <2>4, <2>8
  <2>7. (e \o rest) \o x = e \o (rest \o x)
    <3>1. e \in Seq(S) /\ rest \in Seq(S) /\ x \in Seq(S)
      BY <1>1, <2>9
    <3>. HIDE DEF Bad
    <3>. QED
      BY SMTT(30), <3>1, ConcatAssociative
  <2>10. rest \o x \in Seq(S)
    BY <2>5, <2>9, ConcatProperties
  <2>. QED
    BY <2>4, <2>5, <2>6, <2>7, <2>8, <2>10
<1>3. Len(s) \in (c + 1)..Len(s)
  OBVIOUS
<1>4. \E rest \in Seq(S) : Upto(s, Len(s)) = e \o rest
  BY <1>2, <1>3
<1>. QED
  BY <1>1, <1>4, UptoIs

(* Elements and length of a concatenation.                                 *)
LEMMA ConcatIs ==
    ASSUME NEW S, NEW a \in Seq(S), NEW b \in Seq(S), NEW c, c = a \o b
    PROVE  /\ c \in Seq(S) /\ Len(c) = Len(a) + Len(b) /\ Len(a) \in Nat /\ Len(b) \in Nat
           /\ \A j \in 1..Len(a) : c[j] = a[j]
           /\ \A j \in 1..Len(b) : c[Len(a) + j] = b[j]
<1>1. a \o b \in Seq(S) /\ Len(a \o b) = Len(a) + Len(b) /\ Len(a) \in Nat /\ Len(b) \in Nat
  OBVIOUS
<1>2. \A j \in 1..Len(a) : (a \o b)[j] = a[j]
  OBVIOUS
<1>3. ASSUME NEW j \in 1..Len(b) PROVE (a \o b)[Len(a) + j] = b[j]
  <2>1. PICK k : k = Len(a) + j
    OBVIOUS
  <2>2. k \in Nat /\ k > Len(a) /\ k <= Len(a) + Len(b) /\ k - Len(a) = j
    BY <1>1, <2>1
  <2>3. (a \o b)[k] = b[k - Len(a)]
    BY <1>1, <2>2
  <2>. QED
    BY <2>1, <2>2, <2>3
<1>. QED
  BY <1>1, <1>2, <1>3

(* One more sequence is concatenated at the end, also of none.             *)
LEMMA FlattenSeqMore ==
  ASSUME NEW S, NEW s \in Seq(Seq(S)), NEW x \in Seq(S)
  PROVE  /\ FlattenSeq(s) \in Seq(S)
         /\ FlattenSeq(Append(s, x)) = FlattenSeq(s) \o x
<1>1. FlattenSeq(s) \in Seq(S)
  <2>1. Len(s) \in 0..Len(s)
    OBVIOUS
  <2>. QED
    BY <2>1, UptoIs
<1>2. CASE s = <<>>
  <2>1. Append(s, x) = <<x>> /\ <<>> \o x = x
    BY <1>2
  <2>. QED
    BY <1>1, <1>2, <2>1, FlattenSeqNone, FlattenSeqOne
<1>3. CASE s # <<>>
  BY <1>1, <1>3, FlattenSeqAppend
<1>. QED
  BY <1>2, <1>3
================================================================================
