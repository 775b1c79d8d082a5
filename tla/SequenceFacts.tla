---------------------------- MODULE SequenceFacts -----------------------------
(***************************************************************************)
(* What the operators on sequences that the models share return, for        *)
(* sequences of any length: FlattenSeq, the comprehensions of              *)
(* Comprehensions, the extremes of a set of positions.                     *)
(***************************************************************************)
EXTENDS Comprehensions, FiniteSetTheorems, WellFoundedInduction, NaturalsInduction, TLAPS

(***************************************************************************)
(* Numbers and sequences                                                   *)
(***************************************************************************)
\* A set of numbers that is not empty has a least one.
LEMMA HasLeast ==
  ASSUME NEW S, S \subseteq Nat, S # {}
  PROVE  \E i \in S : \A j \in S : i <= j
<1>1. PICK i \in S : \A j \in S : <<j, i>> \notin OpToRel(<, Nat)
  BY NatLessThanWellFounded, WFMin, Zenon
<1>2. \A j \in S : ~(j < i)
  BY <1>1 DEF OpToRel
<1>. QED
  BY <1>2

\* Induction, over a set instead of a formula.
LEMMA Inductive ==
  ASSUME NEW S, 0 \in S, \A k \in Nat : k \in S => k + 1 \in S
  PROVE  Nat \subseteq S
<1>. SUFFICES ASSUME Nat \ S # {} PROVE FALSE
  OBVIOUS
<1>1. PICK i \in Nat \ S : \A j \in Nat \ S : i <= j
  BY HasLeast
<1>2. i # 0 /\ i - 1 \in Nat /\ (i - 1) + 1 = i
  BY <1>1
<1>3. i - 1 \in S
  BY <1>1, <1>2
<1>. QED
  BY <1>1, <1>2, <1>3

\* What holds of 1 and passes from each number below n to the next holds of n.
LEMMA UpTo ==
  ASSUME NEW n \in Nat, n # 0, NEW S, 1 \in S, \A k \in 1..(n - 1) : k \in S => k + 1 \in S
  PROVE  n \in S
<1>. DEFINE R == {k \in Nat : k + 1 \in 1..n => k + 1 \in S}
<1>1. 0 \in R
  OBVIOUS
<1>2. ASSUME NEW k \in Nat, k \in R PROVE k + 1 \in R
  <2>1. ASSUME (k + 1) + 1 \in 1..n PROVE (k + 1) + 1 \in S
    <3>1. k + 1 \in 1..n /\ k + 1 \in 1..(n - 1)
      BY <2>1
    <3>. QED
      BY <1>2, <3>1
  <2>. QED
    BY <2>1
<1>. HIDE DEF R
<1>3. n - 1 \in R
  BY <1>1, <1>2, Inductive
<1>. QED
  BY <1>3 DEF R

\* A bounded set of numbers that is not empty has a greatest one, which Max is; Min is its
\* least one.
LEMMA Extremes ==
  ASSUME NEW n \in Nat, NEW S, S \subseteq 1..n, S # {}
  PROVE  /\ Max(S) \in S /\ \A j \in S : j <= Max(S)
         /\ Min(S) \in S /\ \A j \in S : Min(S) <= j
<1>. DEFINE T == {x \in 0..n : n - x \in S}
<1>1. ASSUME NEW i \in S PROVE n - i \in T
  <2>1. i \in 1..n
    OBVIOUS
  <2>2. n - i \in 0..n /\ n - (n - i) = i
    BY <2>1
  <2>. QED
    BY <2>2
<1>2. \A x \in T : x \in Nat /\ n - x \in S
  OBVIOUS
<1>. HIDE DEF T
<1>3. PICK k \in T : \A l \in T : k <= l
  BY <1>1, <1>2, HasLeast
<1>4. n - k \in S /\ k \in Nat
  BY <1>2, <1>3
<1>5. ASSUME NEW j \in S PROVE j <= n - k
  <2>1. j \in 1..n /\ k <= n - j
    BY <1>1, <1>3
  <2>. QED
    BY <2>1, <1>4
<1>6. \E x \in S : \A y \in S : x >= y
  BY <1>4, <1>5
<1>7. \E x \in S : \A y \in S : x <= y
  <2>1. S \subseteq Nat
    OBVIOUS
  <2>. QED
    BY <2>1, HasLeast
<1>8. Max(S) \in S /\ \A y \in S : Max(S) >= y
  BY <1>6 DEF Max
<1>9. Min(S) \in S /\ \A y \in S : Min(S) <= y
  BY <1>7 DEF Min
<1>. QED
  BY <1>8, <1>9

\* FlattenSeq joins the sequences from left to right.
LEMMA FlattenJoins ==
  ASSUME NEW seqs, NEW n \in Nat, DOMAIN seqs = 1..n, n # 0
  PROVE  \E f : /\ f[1] = seqs[1] /\ \A i \in 1..(n - 1) : f[i + 1] = f[i] \o seqs[i + 1]
                /\ FlattenSeq(seqs) = f[n]
<1>. DEFINE Joins(f, k) == f = [i \in 1..k |-> IF i = 1 THEN seqs[i] ELSE f[i - 1] \o seqs[i]]
            S == {k \in Nat : \E f : Joins(f, k)}
<1>1. 0 \in S
  <2>1. Joins([i \in 1..0 |-> {}], 0)
    OBVIOUS
  <2>. QED
    BY <2>1
<1>2. ASSUME NEW k \in Nat, k \in S PROVE k + 1 \in S
  <2>1. PICK f : Joins(f, k)
    BY <1>2
  <2>. DEFINE g == [i \in 1..(k + 1) |->
                      IF i <= k THEN f[i] ELSE IF i = 1 THEN seqs[i] ELSE f[i - 1] \o seqs[i]]
  <2>2. \A i \in 1..(k + 1) : g[i] = IF i = 1 THEN seqs[i] ELSE g[i - 1] \o seqs[i]
    <3>1. \A i \in 1..k : g[i] = f[i] /\ f[i] = IF i = 1 THEN seqs[i] ELSE f[i - 1] \o seqs[i]
      <4>1. \A i \in 1..k : f[i] = IF i = 1 THEN seqs[i] ELSE f[i - 1] \o seqs[i]
        <5>. DEFINE F(i) == IF i = 1 THEN seqs[i] ELSE f[i - 1] \o seqs[i]
        <5>1. f = [i \in 1..k |-> F(i)]
          BY <2>1
        <5>. HIDE DEF F
        <5>2. \A i \in 1..k : f[i] = F(i)
          BY <5>1
        <5>. QED
          BY <5>2 DEF F
      <4>2. \A i \in 1..k : i \in 1..(k + 1) /\ i <= k
        OBVIOUS
      <4>3. \A i \in 1..k : g[i] = f[i]
        BY <4>2
      <4>. QED
        BY <4>1, <4>3
    <3>2. k + 1 \in 1..(k + 1) /\ g[k + 1] = IF k + 1 = 1 THEN seqs[k + 1] ELSE f[(k + 1) - 1] \o seqs[k + 1]
      OBVIOUS
    <3>3. k # 0 => k \in 1..k /\ (k + 1) - 1 = k
      OBVIOUS
    <3>4. \A i \in 1..(k + 1) : i \in 1..k \/ i = k + 1
      OBVIOUS
    <3>5. \A i \in 1..k : i # 1 => i - 1 \in 1..k
      OBVIOUS
    <3>. HIDE DEF g
    <3>. QED
      BY <3>1, <3>2, <3>3, <3>4, <3>5
  <2>3. Joins(g, k + 1)
    <3>1. g = [i \in 1..(k + 1) |-> g[i]]
      OBVIOUS
    <3>. HIDE DEF g
    <3>. QED
      BY <2>2, <3>1
  <2>. HIDE DEF g, Joins
  <2>. QED
    BY <2>3
<1>3. n \in S
  <2>. HIDE DEF S
  <2>. QED
    BY <1>1, <1>2, Inductive
<1>4. Len(seqs) = n
  OBVIOUS
<1>. DEFINE h == CHOOSE f : Joins(f, n)
<1>5. Joins(h, n)
  BY <1>3, Zenon
<1>6. FlattenSeq(seqs) = h[n]
  BY <1>4 DEF FlattenSeq
<1>. HIDE DEF h
<1>7. \A i \in 1..n : h[i] = IF i = 1 THEN seqs[i] ELSE h[i - 1] \o seqs[i]
  <2>. DEFINE F(i) == IF i = 1 THEN seqs[i] ELSE h[i - 1] \o seqs[i]
  <2>1. h = [i \in 1..n |-> F(i)]
    BY <1>5
  <2>. HIDE DEF F
  <2>2. \A i \in 1..n : h[i] = F(i)
    BY <2>1
  <2>. QED
    BY <2>2 DEF F
<1>8. h[1] = seqs[1]
  BY <1>7
<1>9. \A i \in 1..(n - 1) : i + 1 \in 1..n /\ i + 1 # 1 /\ (i + 1) - 1 = i
  OBVIOUS
<1>10. \A i \in 1..(n - 1) : h[i + 1] = h[i] \o seqs[i + 1]
  BY <1>7, <1>9
<1>. QED
  BY <1>6, <1>8, <1>10

\* What two sequences have, one after the other.
LEMMA JoinedSet ==
  ASSUME NEW T, NEW s \in Seq(T), NEW t \in Seq(T)
  PROVE  /\ s \o t \in Seq(T) /\ Len(s \o t) = Len(s) + Len(t)
         /\ ToSet(s \o t) = ToSet(s) \cup ToSet(t)
<1>1. s \o t \in Seq(T) /\ Len(s \o t) = Len(s) + Len(t)
  OBVIOUS
<1>2. \A i \in DOMAIN s : i \in DOMAIN (s \o t) /\ (s \o t)[i] = s[i]
  OBVIOUS
<1>3. \A i \in DOMAIN t : Len(s) + i \in DOMAIN (s \o t) /\ (s \o t)[Len(s) + i] = t[i]
  OBVIOUS
<1>4. \A i \in DOMAIN (s \o t) : i \in DOMAIN s \/ (i - Len(s) \in DOMAIN t /\ i = Len(s) + (i - Len(s)))
  OBVIOUS
<1>5. ASSUME NEW x \in ToSet(s \o t) PROVE x \in ToSet(s) \cup ToSet(t)
  <2>1. PICK i \in DOMAIN (s \o t) : x = (s \o t)[i]
    BY DEF ToSet
  <2>2. CASE i \in DOMAIN s
    BY <1>2, <2>1, <2>2 DEF ToSet
  <2>3. CASE i - Len(s) \in DOMAIN t /\ i = Len(s) + (i - Len(s))
    BY <1>3, <2>1, <2>3 DEF ToSet
  <2>. QED
    BY <1>4, <2>2, <2>3
<1>6. ToSet(s) \subseteq ToSet(s \o t) /\ ToSet(t) \subseteq ToSet(s \o t)
  BY <1>2, <1>3 DEF ToSet
<1>. QED
  BY <1>1, <1>5, <1>6

\* A function on an interval that starts at 1 is a sequence.
LEMMA Arranged ==
  ASSUME NEW n \in Nat, NEW f, f = [k \in 1..n |-> f[k]], NEW V, \A k \in 1..n : f[k] \in V
  PROVE  f \in Seq(V) /\ Len(f) = n
OBVIOUS

\* FlattenSeq has what the sequences have.
LEMMA FlattenedSet ==
  ASSUME NEW T, NEW seqs \in Seq(Seq(T))
  PROVE  /\ FlattenSeq(seqs) \in Seq(T)
         /\ ToSet(FlattenSeq(seqs)) = UNION {ToSet(seqs[i]) : i \in DOMAIN seqs}
<1>. DEFINE n == Len(seqs)
<1>1. n \in Nat /\ DOMAIN seqs = 1..n /\ \A i \in 1..n : seqs[i] \in Seq(T)
  OBVIOUS
<1>2. CASE n = 0
  <2>1. FlattenSeq(seqs) = seqs /\ DOMAIN seqs = {} /\ seqs \in Seq(T)
    BY <1>2 DEF FlattenSeq
  <2>. QED
    BY <2>1 DEF ToSet
<1>3. CASE n # 0
  <2>1. PICK f : /\ f[1] = seqs[1] /\ \A i \in 1..(n - 1) : f[i + 1] = f[i] \o seqs[i + 1]
                 /\ FlattenSeq(seqs) = f[n]
    BY <1>1, <1>3, FlattenJoins
  <2>. HIDE DEF n
  <2>. DEFINE upto(k) == UNION {ToSet(seqs[i]) : i \in 1..k}
              S == {k \in 1..n : f[k] \in Seq(T) /\ ToSet(f[k]) = upto(k)}
  <2>2. 1 \in S
    <3>1. upto(1) = ToSet(seqs[1])
      OBVIOUS
    <3>. HIDE DEF upto
    <3>. QED
      BY <1>1, <1>3, <2>1, <3>1
  <2>3. ASSUME NEW k \in 1..(n - 1), k \in S PROVE k + 1 \in S
    <3>1. k + 1 \in 1..n /\ 1..(k + 1) = 1..k \cup {k + 1}
      BY <1>1
    <3>4. f[k + 1] = f[k] \o seqs[k + 1]
      BY <2>1
    <3>5. f[k] \in Seq(T) /\ seqs[k + 1] \in Seq(T) /\ ToSet(f[k]) = upto(k)
      BY <1>1, <2>3, <3>1
    <3>2. f[k + 1] \in Seq(T) /\ ToSet(f[k + 1]) = upto(k) \cup ToSet(seqs[k + 1])
      BY <3>4, <3>5, JoinedSet
    <3>3. upto(k + 1) = upto(k) \cup ToSet(seqs[k + 1])
      BY <3>1
    <3>. HIDE DEF upto
    <3>. QED
      BY <3>1, <3>2, <3>3
  <2>. HIDE DEF S
  <2>4. n \in S
    BY <1>1, <1>3, <2>2, <2>3, UpTo
  <2>. QED
    BY <1>1, <2>1, <2>4 DEF S
<1>. QED
  BY <1>2, <1>3

\* FlattenSeq of sequences with one entry each has as many entries.
LEMMA FlattenedOnes ==
  ASSUME NEW T, NEW seqs \in Seq(Seq(T)), \A i \in DOMAIN seqs : Len(seqs[i]) = 1
  PROVE  Len(FlattenSeq(seqs)) = Len(seqs)
<1>. DEFINE n == Len(seqs)
<1>1. n \in Nat /\ DOMAIN seqs = 1..n /\ \A i \in 1..n : seqs[i] \in Seq(T) /\ Len(seqs[i]) = 1
  OBVIOUS
<1>2. CASE n = 0
  BY <1>2 DEF FlattenSeq
<1>3. CASE n # 0
  <2>1. PICK f : /\ f[1] = seqs[1] /\ \A i \in 1..(n - 1) : f[i + 1] = f[i] \o seqs[i + 1]
                 /\ FlattenSeq(seqs) = f[n]
    BY <1>1, <1>3, FlattenJoins
  <2>. HIDE DEF n
  <2>. DEFINE S == {k \in 1..n : f[k] \in Seq(T) /\ Len(f[k]) = k}
  <2>2. 1 \in S
    BY <1>1, <1>3, <2>1
  <2>3. ASSUME NEW k \in 1..(n - 1), k \in S PROVE k + 1 \in S
    <3>1. k + 1 \in 1..n /\ seqs[k + 1] \in Seq(T) /\ Len(seqs[k + 1]) = 1
      BY <1>1
    <3>2. f[k + 1] = f[k] \o seqs[k + 1] /\ f[k] \in Seq(T) /\ Len(f[k]) = k
      BY <2>1, <2>3
    <3>3. ASSUME NEW x \in Seq(T), NEW y \in Seq(T)
          PROVE  x \o y \in Seq(T) /\ Len(x \o y) = Len(x) + Len(y)
      OBVIOUS
    <3>4. f[k + 1] \in Seq(T) /\ Len(f[k + 1]) = k + 1
      BY <3>1, <3>2, <3>3
    <3>. QED
      BY <3>1, <3>4
  <2>. HIDE DEF S
  <2>4. n \in S
    BY <1>1, <1>3, <2>2, <2>3, UpTo
  <2>. QED
    BY <2>1, <2>4 DEF S, n
<1>. QED
  BY <1>2, <1>3

\* e lists the entries of s at some positions in their order: entry k is the
\* one at position p[k].
InOrder(s, at, e, p) ==
  /\ p \in [DOMAIN e -> at]
  /\ \A k \in DOMAIN e : e[k] = s[p[k]]
  /\ \A k, l \in DOMAIN e : k < l => p[k] < p[l]
  /\ \A i \in at : \E k \in DOMAIN e : p[k] = i

\* Entries does.
LEMMA EntriesInOrder ==
  ASSUME NEW T, NEW s \in Seq(T), NEW at, at \subseteq DOMAIN s
  PROVE  Entries(s, at) \in Seq(T) /\ \E p : InOrder(s, at, Entries(s, at), p)
<1>. DEFINE n == Len(s)
            seqs == [i \in DOMAIN s |-> IF i \in at THEN <<s[i]>> ELSE <<>>]
            Picks(t, p, k) ==
              /\ t \in Seq(T) /\ p \in [DOMAIN t -> at \cap 1..k]
              /\ \A j \in DOMAIN t : t[j] = s[p[j]]
              /\ \A j, l \in DOMAIN t : j < l => p[j] < p[l]
              /\ \A i \in at \cap 1..k : \E j \in DOMAIN t : p[j] = i
<1>1. n \in Nat /\ DOMAIN seqs = 1..n /\ DOMAIN s = 1..n /\ Len(seqs) = n
  OBVIOUS
<1>2. \A i \in 1..n : s[i] \in T /\ seqs[i] = IF i \in at THEN <<s[i]>> ELSE <<>>
  OBVIOUS
<1>3. Entries(s, at) = FlattenSeq(seqs)
  BY DEF Entries
<1>. HIDE DEF seqs
<1>4. CASE n = 0
  <2>1. FlattenSeq(seqs) = seqs /\ at = {}
    BY <1>1, <1>4 DEF FlattenSeq
  <2>2. seqs = <<>>
    BY <1>1, <1>4 DEF seqs
  <2>3. Entries(s, at) = <<>> /\ DOMAIN <<>> = {} /\ <<>> \in Seq(T)
    BY <1>3, <2>1, <2>2
  <2>4. [x \in {} |-> x] \in [DOMAIN <<>> -> at]
    OBVIOUS
  <2>5. InOrder(s, at, <<>>, [x \in {} |-> x])
    BY <2>1, <2>3, <2>4 DEF InOrder
  <2>. QED
    BY <2>3, <2>5
<1>5. CASE n # 0
  <2>1. PICK f : /\ f[1] = seqs[1] /\ \A i \in 1..(n - 1) : f[i + 1] = f[i] \o seqs[i + 1]
                 /\ FlattenSeq(seqs) = f[n]
    BY <1>1, <1>5, FlattenJoins
  <2>. HIDE DEF n
  <2>. DEFINE S == {k \in 1..n : \E p : Picks(f[k], p, k)}
  <2>2. 1 \in S
    <3>1. 1 \in 1..n /\ f[1] = IF 1 \in at THEN <<s[1]>> ELSE <<>>
      BY <1>1, <1>2, <1>5, <2>1
    <3>2. CASE 1 \in at
      <4>1. Picks(<<s[1]>>, [j \in {1} |-> 1], 1)
        BY <1>2, <3>1, <3>2
      <4>2. f[1] = <<s[1]>>
        BY <3>1, <3>2
      <4>. HIDE DEF Picks
      <4>. QED
        BY <3>1, <4>1, <4>2
    <3>3. CASE 1 \notin at
      <4>1. Picks(<<>>, [j \in {} |-> 1], 1)
        BY <3>3
      <4>2. f[1] = <<>>
        BY <3>1, <3>3
      <4>. HIDE DEF Picks
      <4>. QED
        BY <3>1, <4>1, <4>2
    <3>. QED
      BY <3>2, <3>3
  <2>3. ASSUME NEW k \in 1..(n - 1), k \in S PROVE k + 1 \in S
    <3>0. f[k + 1] = f[k] \o seqs[k + 1]
      BY <2>1
    <3>1. k \in Nat /\ k + 1 \in 1..n /\ f[k + 1] = f[k] \o seqs[k + 1]
      BY <1>1, <3>0
    <3>2. PICK p : Picks(f[k], p, k)
      BY <2>3
    <3>3. \A i : i \in at \cap 1..(k + 1) <=> i \in at \cap 1..k \/ (i = k + 1 /\ k + 1 \in at)
      BY <3>1
    <3>4. CASE k + 1 \notin at
      <4>0. seqs[k + 1] = <<>> /\ f[k] \in Seq(T)
        BY <1>2, <3>1, <3>2, <3>4
      <4>1. f[k + 1] = f[k]
        BY <3>1, <4>0
      <4>2. at \cap 1..(k + 1) = at \cap 1..k
        BY <3>3, <3>4
      <4>3. Picks(f[k + 1], p, k + 1)
        BY <3>2, <4>1, <4>2
      <4>. QED
        BY <3>1, <4>3
    <3>5. CASE k + 1 \in at
      <4>. DEFINE t == f[k]
                  m == Len(t)
                  u == Append(t, s[k + 1])
                  q == [j \in 1..(m + 1) |-> IF j <= m THEN p[j] ELSE k + 1]
      <4>1. s[k + 1] \in T /\ seqs[k + 1] = <<s[k + 1]>>
        BY <1>2, <3>1, <3>5
      <4>2. t \in Seq(T) /\ m \in Nat /\ DOMAIN t = 1..m
        BY <3>2
      <4>3. f[k + 1] = u /\ u \in Seq(T) /\ DOMAIN u = 1..(m + 1)
            /\ u[m + 1] = s[k + 1] /\ \A j \in 1..m : u[j] = t[j]
        BY <3>1, <4>1, <4>2
      <4>4. q[m + 1] = k + 1 /\ DOMAIN q = 1..(m + 1) /\ \A j \in 1..m : q[j] = p[j]
        BY <4>2
      <4>5. \A j \in 1..m : p[j] \in at \cap 1..k /\ t[j] = s[p[j]]
        BY <3>2, <4>2
      <4>. HIDE DEF q, u, m
      <4>6. \A j \in 1..(m + 1) : j \in 1..m \/ j = m + 1
        BY <4>2
      <4>7. \A j \in 1..(m + 1) : q[j] \in at \cap 1..(k + 1) /\ u[j] = s[q[j]]
        BY <3>3, <3>5, <4>3, <4>4, <4>5, <4>6
      <4>8. ASSUME NEW j \in 1..(m + 1), NEW l \in 1..(m + 1), j < l PROVE q[j] < q[l]
        <5>1. j \in 1..m
          BY <4>2, <4>8
        <5>2. CASE l \in 1..m
          BY <3>2, <4>2, <4>4, <4>8, <5>1, <5>2
        <5>3. CASE l = m + 1
          <6>1. p[j] \in 1..k
            BY <4>5, <5>1
          <6>. QED
            BY <3>1, <4>4, <5>1, <5>3, <6>1
        <5>. QED
          BY <4>6, <5>2, <5>3
      <4>9. ASSUME NEW i \in at \cap 1..(k + 1) PROVE \E j \in 1..(m + 1) : q[j] = i
        <5>1. CASE i \in at \cap 1..k
          <6>1. PICK j \in 1..m : p[j] = i
            BY <3>2, <4>2, <5>1
          <6>2. j \in 1..(m + 1)
            BY <4>2
          <6>. QED
            BY <4>4, <6>1, <6>2
        <5>2. CASE i = k + 1
          <6>1. m + 1 \in 1..(m + 1)
            BY <4>2
          <6>. QED
            BY <4>4, <5>2, <6>1
        <5>. QED
          BY <3>3, <5>1, <5>2
      <4>10. q = [j \in 1..(m + 1) |-> q[j]]
        BY DEF q
      <4>11. q \in [DOMAIN u -> at \cap 1..(k + 1)]
        BY <4>3, <4>4, <4>7, <4>10
      <4>12. Picks(u, q, k + 1)
        BY <4>3, <4>7, <4>8, <4>9, <4>11
      <4>. HIDE DEF Picks
      <4>. QED
        BY <3>1, <4>3, <4>12
    <3>. QED
      BY <3>4, <3>5
  <2>. HIDE DEF S
  <2>4. n \in S
    BY <1>1, <1>5, <2>2, <2>3, UpTo
  <2>5. PICK p : Picks(f[n], p, n)
    BY <2>4 DEF S
  <2>6. at \cap 1..n = at
    BY <1>1
  <2>7. InOrder(s, at, f[n], p) /\ f[n] \in Seq(T)
    BY <2>5, <2>6 DEF InOrder
  <2>. QED
    BY <1>3, <2>1, <2>7
<1>. QED
  BY <1>4, <1>5

\* The positions of two sequences, one after the other.
LEMMA JoinedAt ==
  ASSUME NEW T, NEW s \in Seq(T), NEW t \in Seq(T)
  PROVE  /\ Len(s) \in Nat /\ Len(t) \in Nat /\ DOMAIN (s \o t) = 1..(Len(s) + Len(t))
         /\ \A i \in 1..Len(s) : i \in DOMAIN (s \o t) /\ (s \o t)[i] = s[i]
         /\ \A i \in 1..Len(t) : Len(s) + i \in DOMAIN (s \o t) /\ (s \o t)[Len(s) + i] = t[i]
<1>1. Len(s) \in Nat /\ Len(t) \in Nat /\ DOMAIN s = 1..Len(s) /\ DOMAIN t = 1..Len(t)
  OBVIOUS
<1>2. DOMAIN (s \o t) = 1..(Len(s) + Len(t))
  OBVIOUS
<1>3. \A i \in DOMAIN s : i \in DOMAIN (s \o t) /\ (s \o t)[i] = s[i]
  OBVIOUS
<1>4. \A i \in DOMAIN t : Len(s) + i \in DOMAIN (s \o t) /\ (s \o t)[Len(s) + i] = t[i]
  OBVIOUS
<1>. QED
  BY <1>1, <1>2, <1>3, <1>4

\* SetToSeq lists each element of a finite set once.
LEMMA SetListed ==
  ASSUME NEW S, IsFiniteSet(S)
  PROVE  /\ SetToSeq(S) \in Seq(S)
         /\ \A i, j \in DOMAIN SetToSeq(S) : SetToSeq(S)[i] = SetToSeq(S)[j] => i = j
         /\ \A x \in S : \E i \in DOMAIN SetToSeq(S) : SetToSeq(S)[i] = x
<1>. DEFINE n == Cardinality(S)
            g == SetToSeq(S)
<1>1. n \in Nat /\ ExistsBijection(1..n, S)
  BY FS_CardinalityType
<1>2. PICK f : f \in Bijection(1..n, S)
  BY <1>1 DEF ExistsBijection
<1>3. f \in [1..n -> S] /\ IsInjective(f)
  BY <1>2 DEF Bijection, Injection
<1>4. g \in [1..n -> S] /\ IsInjective(g)
  BY <1>3 DEF SetToSeq
<1>5. IsFiniteSet(1..n) /\ Cardinality(1..n) = n
  BY <1>1, FS_Interval
<1>. HIDE DEF n, g
<1>6. g \in Injection(1..n, S)
  BY <1>4 DEF Injection
<1>7. g \in Surjection(1..n, S)
  BY <1>5, <1>6, FS_Injection DEF n
<1>8. \A x \in S : \E i \in 1..n : g[i] = x
  BY <1>7 DEF Surjection
<1>9. g \in Seq(S) /\ DOMAIN g = 1..n
  BY <1>1, <1>4
<1>. QED
  BY <1>4, <1>8, <1>9 DEF g, IsInjective

\* A bounded set of numbers is finite.
LEMMA BoundedFinite ==
  ASSUME NEW n \in Nat, NEW S, S \subseteq 1..n
  PROVE  IsFiniteSet(S) /\ Cardinality(S) \in Nat
<1>1. IsFiniteSet(1..n)
  BY FS_Interval
<1>2. IsFiniteSet(S)
  BY <1>1, FS_Subset
<1>. QED
  BY <1>2, FS_CardinalityType

\* The ids of a list are finitely many.
LEMMA ImageFinite ==
  ASSUME NEW n \in Nat, NEW f, DOMAIN f = 1..n, f = [i \in 1..n |-> f[i]]
  PROVE  IsFiniteSet({f[i] : i \in 1..n})
<1>1. IsFiniteSet(1..n)
  BY FS_Interval
<1>2. f \in Surjection(1..n, {f[i] : i \in 1..n})
  BY DEF Surjection
<1>. QED
  BY <1>1, <1>2, FS_Surjection

\* Entries has the entries at the positions, one for each.
LEMMA EntriesSet ==
  ASSUME NEW T, NEW s \in Seq(T), NEW at, at \subseteq DOMAIN s
  PROVE  /\ Entries(s, at) \in Seq(T)
         /\ ToSet(Entries(s, at)) = {s[i] : i \in at}
         /\ Len(Entries(s, at)) = Cardinality(at)
<1>. DEFINE e == Entries(s, at)
            n == Len(e)
<1>1. e \in Seq(T) /\ \E p : InOrder(s, at, e, p)
  BY EntriesInOrder
<1>. HIDE DEF e
<1>2. PICK p : InOrder(s, at, e, p)
  BY <1>1
<1>3. p \in [DOMAIN e -> at] /\ \A k \in DOMAIN e : e[k] = s[p[k]]
  BY <1>2 DEF InOrder
<1>4. \A i \in at : \E k \in DOMAIN e : p[k] = i
  BY <1>2 DEF InOrder
<1>5. ToSet(e) = {s[i] : i \in at}
  BY <1>3, <1>4 DEF ToSet
<1>6. DOMAIN e = 1..n /\ n \in Nat
  BY <1>1
<1>7. \A k, l \in 1..n : p[k] = p[l] => k = l
  <2>1. \A k, l \in 1..n : k < l => p[k] < p[l]
    BY <1>2, <1>6 DEF InOrder
  <2>2. \A k \in 1..n : p[k] \in Nat
    <3>1. DOMAIN s \subseteq Nat
      OBVIOUS
    <3>. QED
      BY <1>3, <1>6, <3>1
  <2>. QED
    BY <1>6, <2>1, <2>2
<1>8. p \in Bijection(1..n, at)
  BY <1>3, <1>4, <1>6, <1>7 DEF Bijection, Injection, Surjection, IsInjective
<1>9. Cardinality(at) = n
  BY <1>6, <1>8, FS_CountingElements DEF ExistsBijection
<1>. QED
  BY <1>1, <1>5, <1>9 DEF e

\* Position x of t is place w[x] of sequence q[x], a place of its own.
Placed(seqs, t, q, w, k) ==
  /\ \A x \in DOMAIN t : q[x] \in 1..k /\ w[x] \in DOMAIN seqs[q[x]] /\ t[x] = seqs[q[x]][w[x]]
  /\ \A x, y \in DOMAIN t : q[x] = q[y] /\ w[x] = w[y] => x = y

\* Appending a sequence places what it has.
LEMMA PlacedNext ==
  ASSUME NEW T, NEW seqs, NEW k \in Nat, NEW t \in Seq(T), seqs[k + 1] \in Seq(T),
         NEW q, NEW w, Placed(seqs, t, q, w, k)
  PROVE  \E q1, w1 : Placed(seqs, t \o seqs[k + 1], q1, w1, k + 1)
<1>. DEFINE u == seqs[k + 1]
            m == Len(t)
            v == t \o u
            q1 == [x \in DOMAIN v |-> IF x <= m THEN q[x] ELSE k + 1]
            w1 == [x \in DOMAIN v |-> IF x <= m THEN w[x] ELSE x - m]
<1>1. m \in Nat /\ DOMAIN t = 1..m /\ u \in Seq(T)
  OBVIOUS
<1>2. \A x \in DOMAIN v : \/ x \in 1..m /\ x <= m /\ v[x] = t[x]
                          \/ ~(x <= m) /\ x \in Nat /\ x - m \in DOMAIN u /\ v[x] = u[x - m]
  <2>. HIDE DEF u
  <2>. QED
    BY <1>1
<1>3. \A x \in DOMAIN v : /\ x <= m => q1[x] = q[x] /\ w1[x] = w[x]
                          /\ ~(x <= m) => q1[x] = k + 1 /\ w1[x] = x - m
  OBVIOUS
<1>. HIDE DEF q1, w1, v
<1>4. \A x \in DOMAIN t : q[x] \in 1..k /\ w[x] \in DOMAIN seqs[q[x]] /\ t[x] = seqs[q[x]][w[x]]
  BY DEF Placed
<1>5. k + 1 \in 1..(k + 1) /\ \A i \in 1..k : i \in 1..(k + 1) /\ i # k + 1
  OBVIOUS
<1>6. ASSUME NEW x \in DOMAIN v
      PROVE q1[x] \in 1..(k + 1) /\ w1[x] \in DOMAIN seqs[q1[x]] /\ v[x] = seqs[q1[x]][w1[x]]
  <2>1. CASE x <= m
    <3>1. x \in DOMAIN t /\ v[x] = t[x]
      BY <1>1, <1>2, <2>1
    <3>2. q1[x] = q[x] /\ w1[x] = w[x]
      BY <1>3, <2>1
    <3>. QED
      BY <1>4, <1>5, <3>1, <3>2
  <2>2. CASE ~(x <= m)
    <3>1. x - m \in DOMAIN u /\ v[x] = u[x - m]
      BY <1>2, <2>2
    <3>2. q1[x] = k + 1 /\ w1[x] = x - m
      BY <1>3, <2>2
    <3>. QED
      BY <1>5, <3>1, <3>2
  <2>. QED
    BY <2>1, <2>2
<1>7. ASSUME NEW x \in DOMAIN v, NEW y \in DOMAIN v, q1[x] = q1[y], w1[x] = w1[y] PROVE x = y
  <2>1. CASE x <= m /\ y <= m
    <3>1. x \in DOMAIN t /\ y \in DOMAIN t /\ q[x] = q[y] /\ w[x] = w[y]
      BY <1>1, <1>2, <1>3, <1>7, <2>1
    <3>. QED
      BY <3>1 DEF Placed
  <2>2. CASE ~(x <= m) /\ ~(y <= m)
    <3>1. x - m = y - m /\ x \in Nat /\ y \in Nat
      BY <1>2, <1>3, <1>7, <2>2
    <3>. QED
      BY <1>1, <3>1
  <2>3. ASSUME NEW a \in DOMAIN v, NEW b \in DOMAIN v, a <= m, ~(b <= m) PROVE q1[a] # q1[b]
    <3>1. a \in DOMAIN t /\ q1[a] = q[a] /\ q1[b] = k + 1
      BY <1>1, <1>2, <1>3, <2>3
    <3>. QED
      BY <1>4, <1>5, <3>1
  <2>. QED
    BY <1>7, <2>1, <2>2, <2>3
<1>8. Placed(seqs, v, q1, w1, k + 1)
  BY <1>6, <1>7 DEF Placed
<1>. QED
  BY <1>8 DEF v

\* Every entry of FlattenSeq is an entry of one of the sequences, no two are the same one.
LEMMA FlattenedAt ==
  ASSUME NEW T, NEW seqs \in Seq(Seq(T))
  PROVE  \E q, w : Placed(seqs, FlattenSeq(seqs), q, w, Len(seqs))
<1>. DEFINE n == Len(seqs)
<1>1. n \in Nat /\ DOMAIN seqs = 1..n /\ \A i \in 1..n : seqs[i] \in Seq(T)
  OBVIOUS
<1>2. CASE n = 0
  <2>1. FlattenSeq(seqs) = seqs /\ DOMAIN seqs = {}
    BY <1>2 DEF FlattenSeq
  <2>. QED
    BY <2>1 DEF Placed
<1>3. CASE n # 0
  <2>1. PICK f : /\ f[1] = seqs[1] /\ \A i \in 1..(n - 1) : f[i + 1] = f[i] \o seqs[i + 1]
                 /\ FlattenSeq(seqs) = f[n]
    BY <1>1, <1>3, FlattenJoins
  <2>. HIDE DEF n
  <2>. DEFINE S == {k \in 1..n : f[k] \in Seq(T) /\ \E q, w : Placed(seqs, f[k], q, w, k)}
  <2>2. 1 \in S
    <3>1. 1 \in 1..n /\ seqs[1] \in Seq(T)
      BY <1>1, <1>3
    <3>2. Placed(seqs, seqs[1], [x \in DOMAIN seqs[1] |-> 1], [x \in DOMAIN seqs[1] |-> x], 1)
      BY DEF Placed
    <3>. QED
      BY <2>1, <3>1, <3>2
  <2>3. ASSUME NEW k \in 1..(n - 1), k \in S PROVE k + 1 \in S
    <3>1. k \in Nat /\ k + 1 \in 1..n
      BY <1>1
    <3>2. f[k + 1] = f[k] \o seqs[k + 1] /\ f[k] \in Seq(T) /\ seqs[k + 1] \in Seq(T)
      BY <1>1, <2>1, <2>3, <3>1
    <3>3. PICK q, w : Placed(seqs, f[k], q, w, k)
      BY <2>3
    <3>4. \E q1, w1 : Placed(seqs, f[k] \o seqs[k + 1], q1, w1, k + 1)
      BY <3>1, <3>2, <3>3, PlacedNext
    <3>5. f[k + 1] \in Seq(T)
      BY <3>2, JoinedSet
    <3>. QED
      BY <3>1, <3>2, <3>4, <3>5
  <2>. HIDE DEF S
  <2>4. n \in S
    BY <1>1, <1>3, <2>2, <2>3, UpTo
  <2>. QED
    BY <2>1, <2>4 DEF S, n
<1>. QED
  BY <1>2, <1>3

\* FlattenSeq of sequences with two entries each.
LEMMA FlattenedTwos ==
  ASSUME NEW T, NEW seqs \in Seq(Seq(T)), \A i \in DOMAIN seqs : Len(seqs[i]) = 2
  PROVE  /\ FlattenSeq(seqs) \in Seq(T) /\ Len(FlattenSeq(seqs)) = 2 * Len(seqs)
         /\ \A i \in DOMAIN seqs : /\ FlattenSeq(seqs)[2 * i - 1] = seqs[i][1]
                                   /\ FlattenSeq(seqs)[2 * i] = seqs[i][2]
<1>. DEFINE n == Len(seqs)
            Twos(t, k) == /\ t \in Seq(T) /\ Len(t) = 2 * k
                          /\ \A i \in 1..k : t[2 * i - 1] = seqs[i][1] /\ t[2 * i] = seqs[i][2]
<1>1. n \in Nat /\ DOMAIN seqs = 1..n /\ \A i \in 1..n : seqs[i] \in Seq(T) /\ Len(seqs[i]) = 2
  OBVIOUS
<1>2. CASE n = 0
  <2>1. FlattenSeq(seqs) = seqs /\ DOMAIN seqs = {} /\ seqs \in Seq(T)
    BY <1>2 DEF FlattenSeq
  <2>. QED
    BY <1>2, <2>1
<1>3. CASE n # 0
  <2>1. PICK f : /\ f[1] = seqs[1] /\ \A i \in 1..(n - 1) : f[i + 1] = f[i] \o seqs[i + 1]
                 /\ FlattenSeq(seqs) = f[n]
    BY <1>1, <1>3, FlattenJoins
  <2>. HIDE DEF n
  <2>. DEFINE S == {k \in 1..n : Twos(f[k], k)}
  <2>2. 1 \in S
    BY <1>1, <1>3, <2>1
  <2>3. ASSUME NEW k \in 1..(n - 1), k \in S PROVE k + 1 \in S
    <3>1. k \in Nat /\ k + 1 \in 1..n
      BY <1>1
    <3>2. f[k + 1] = f[k] \o seqs[k + 1] /\ seqs[k + 1] \in Seq(T) /\ Len(seqs[k + 1]) = 2
      BY <1>1, <2>1, <3>1
    <3>3. Twos(f[k], k)
      BY <2>3
    <3>4. ASSUME NEW x \in Seq(T), NEW y \in Seq(T), Len(y) = 2
          PROVE  /\ x \o y \in Seq(T) /\ Len(x \o y) = Len(x) + 2
                 /\ \A i \in 1..Len(x) : (x \o y)[i] = x[i]
                 /\ (x \o y)[Len(x) + 1] = y[1] /\ (x \o y)[Len(x) + 2] = y[2]
      <4>1. 1 \in 1..Len(y) /\ 2 \in 1..Len(y)
        BY <3>4
      <4>2. /\ \A i \in 1..Len(x) : (x \o y)[i] = x[i]
            /\ \A i \in 1..Len(y) : (x \o y)[Len(x) + i] = y[i]
        BY JoinedAt
      <4>3. x \o y \in Seq(T) /\ Len(x \o y) = Len(x) + 2
        BY <3>4, JoinedSet
      <4>. QED
        BY <4>1, <4>2, <4>3
    <3>5. \A i \in 1..k : 2 * i - 1 \in 1..(2 * k) /\ 2 * i \in 1..(2 * k)
      BY <3>1
    <3>6. \A i \in 1..(k + 1) : i \in 1..k \/ i = k + 1
      BY <3>1
    <3>7. 2 * (k + 1) = 2 * k + 2 /\ 2 * (k + 1) - 1 = 2 * k + 1
      BY <3>1
    <3>8. f[k] \in Seq(T) /\ Len(f[k]) = 2 * k
      BY <3>3
    <3>9. /\ f[k + 1] \in Seq(T) /\ Len(f[k + 1]) = 2 * k + 2
          /\ \A i \in 1..(2 * k) : f[k + 1][i] = f[k][i]
          /\ f[k + 1][2 * k + 1] = seqs[k + 1][1] /\ f[k + 1][2 * k + 2] = seqs[k + 1][2]
      <4>. DEFINE x == f[k]
                  y == seqs[k + 1]
                  z == f[k + 1]
      <4>1. x \in Seq(T) /\ y \in Seq(T) /\ Len(y) = 2 /\ z = x \o y /\ Len(x) = 2 * k
        BY <3>2, <3>8
      <4>. HIDE DEF x, y, z
      <4>2. /\ z \in Seq(T) /\ Len(z) = 2 * k + 2 /\ \A i \in 1..(2 * k) : z[i] = x[i]
            /\ z[2 * k + 1] = y[1] /\ z[2 * k + 2] = y[2]
        BY <3>4, <4>1
      <4>. QED
        BY <4>2 DEF x, y, z
    <3>10. \A i \in 1..k : f[k + 1][2 * i - 1] = seqs[i][1] /\ f[k + 1][2 * i] = seqs[i][2]
      BY <3>3, <3>5, <3>9
    <3>11. \A i \in 1..(k + 1) : f[k + 1][2 * i - 1] = seqs[i][1] /\ f[k + 1][2 * i] = seqs[i][2]
      BY <3>6, <3>7, <3>9, <3>10
    <3>12. Twos(f[k + 1], k + 1)
      BY <3>7, <3>9, <3>11
    <3>. QED
      BY <3>1, <3>12
  <2>. HIDE DEF S
  <2>4. n \in S
    BY <1>1, <1>3, <2>2, <2>3, UpTo
  <2>. QED
    BY <1>1, <2>1, <2>4 DEF S, n
<1>. QED
  BY <1>2, <1>3

\* The positions of three sequences, one after the other.
LEMMA ThreeJoined ==
  ASSUME NEW T, NEW x \in Seq(T), NEW y \in Seq(T), NEW z \in Seq(T)
  PROVE  /\ x \o y \o z \in Seq(T) /\ DOMAIN (x \o y \o z) = 1..(Len(x) + Len(y) + Len(z))
         /\ \A i \in 1..Len(x) : (x \o y \o z)[i] = x[i]
         /\ \A i \in 1..Len(y) : (x \o y \o z)[Len(x) + i] = y[i]
         /\ \A i \in 1..Len(z) : (x \o y \o z)[Len(x) + Len(y) + i] = z[i]
<1>. DEFINE t == x \o y
            s == t \o z
<1>1. t \in Seq(T) /\ Len(t) = Len(x) + Len(y)
  BY JoinedSet
<1>2. /\ Len(x) \in Nat /\ Len(y) \in Nat
      /\ \A i \in 1..Len(x) : t[i] = x[i]
      /\ \A i \in 1..Len(y) : t[Len(x) + i] = y[i]
  <2>1. Len(x) \in Nat /\ Len(y) \in Nat
    OBVIOUS
  <2>2. /\ \A i \in 1..Len(x) : t[i] = x[i]
        /\ \A i \in 1..Len(y) : t[Len(x) + i] = y[i]
    BY JoinedAt
  <2>. QED
    BY <2>1, <2>2
<1>. HIDE DEF t
<1>3. s \in Seq(T)
  BY <1>1, JoinedSet
<1>4. Len(t) \in Nat /\ Len(z) \in Nat /\ DOMAIN s = 1..(Len(t) + Len(z))
  BY <1>1
<1>5. /\ \A i \in 1..Len(t) : s[i] = t[i]
      /\ \A i \in 1..Len(z) : s[Len(t) + i] = z[i]
  <2>1. t \in Seq(T)
    BY <1>1
  <2>. QED
    BY <2>1, JoinedAt
<1>6. \A i \in 1..Len(x) : i \in 1..Len(t)
  BY <1>1, <1>2
<1>7. \A i \in 1..Len(y) : Len(x) + i \in 1..Len(t)
  BY <1>1, <1>2
<1>. HIDE DEF s
<1>8. /\ s \in Seq(T) /\ DOMAIN s = 1..(Len(x) + Len(y) + Len(z))
      /\ \A i \in 1..Len(x) : s[i] = x[i]
      /\ \A i \in 1..Len(y) : s[Len(x) + i] = y[i]
      /\ \A i \in 1..Len(z) : s[Len(x) + Len(y) + i] = z[i]
  BY <1>1, <1>2, <1>3, <1>4, <1>5, <1>6, <1>7
<1>. QED
  BY <1>8 DEF s, t
===============================================================================
