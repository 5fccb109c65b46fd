---------------------------- MODULE FlatSequences ----------------------------
(* What FlattenSeq of the community modules does, for sequences of every    *)
(* length: the lemmas that the readings of a tree rest on.                  *)
EXTENDS Naturals, Sequences, FiniteSets, SequencesExt, TLAPS, SequenceTheorems,
        FiniteSetTheorems, NaturalsInduction, WellFoundedInduction

(***************************************************************************)
(* Counting up.                                                            *)
(***************************************************************************)

(* Some number is the least of any.                                         *)
LEMMA Least == ASSUME NEW T, T \subseteq Nat, T # {} PROVE \E m \in T : \A k \in T : m <= k
<1> DEFINE R == OpToRel(<, Nat)
<1>1. IsWellFoundedOn(R, Nat)
  BY NatLessThanWellFounded
<1>2. PICK m \in T : \A k \in T : ~(<<k, m>> \in R)
  <2> HIDE DEF R
  <2> QED
    BY <1>1, WFMin
<1>3. \A k \in T : ~(k < m)
  BY <1>2 DEF OpToRel
<1> QED
  BY <1>3

(* What is true of 0, and of each number up to m when it is of the one      *)
(* before, is true of all of them: T holds those it is true of.             *)
LEMMA Counting ==
    ASSUME NEW m \in Nat, NEW T, 0 \in T, \A n \in 1..m : n - 1 \in T => n \in T
    PROVE  0..m \subseteq T
<1> DEFINE Left == (0..m) \ T
<1>1. SUFFICES ASSUME Left # {} PROVE FALSE
  OBVIOUS
<1>2. PICK n \in Left : \A k \in Left : n <= k
  <2>1. Left \subseteq Nat
    OBVIOUS
  <2> HIDE DEF Left
  <2> QED
    BY <1>1, <2>1, Least
<1>3. n \in 0..m /\ n \notin T
  OBVIOUS
<1>4. n \in 1..m /\ n - 1 \in 0..m /\ ~(n <= n - 1)
  BY <1>3
<1>5. n - 1 \notin Left
  <2> HIDE DEF Left
  <2> QED
    BY <1>2, <1>4
<1> QED
  BY <1>3, <1>4, <1>5

(* A value and a step from each value to the next make a sequence of them.  *)
Steps(V, m, step) == step \in [(1..m) \X V -> V]

Iterates(V, first, m, step, f) ==
    /\ f \in [0..m -> V] /\ f[0] = first
    /\ \A n \in 1..m : f[n] = step[<<n, f[n - 1]>>]

(* A function may be defined by its first value and its steps.              *)
LEMMA Recursion ==
    ASSUME NEW V, NEW first \in V, NEW m \in Nat, NEW step, Steps(V, m, step)
    PROVE  \E f : Iterates(V, first, m, step, f)
<1> USE DEF Steps
<1> DEFINE Good(f, n) == f[0] = first /\ \A k \in 1..n : f[k] = step[<<k, f[k - 1]>>]
           T == {n \in 0..m : \E f \in [0..n -> V] : Good(f, n)}
<1>1. 0 \in T
  <2> DEFINE f == [k \in 0..0 |-> first]
  <2>1. f \in [0..0 -> V] /\ Good(f, 0)
    OBVIOUS
  <2> HIDE DEF f, Good
  <2> QED
    BY <2>1
<1>2. ASSUME NEW n \in 1..m, n - 1 \in T PROVE n \in T
  <2>1. PICK f \in [0..(n - 1) -> V] : Good(f, n - 1)
    BY <1>2
  <2> DEFINE g == [k \in 0..n |-> IF k = n THEN step[<<n, f[n - 1]>>] ELSE f[k]]
  <2>2. f[n - 1] \in V /\ step[<<n, f[n - 1]>>] \in V
    <3>1. n - 1 \in 0..(n - 1)
      OBVIOUS
    <3>2. f[n - 1] \in V
      BY <3>1
    <3> QED
      BY <3>2
  <2>3. /\ g \in [0..n -> V]
        /\ g[n] = step[<<n, f[n - 1]>>] /\ \A k \in 0..(n - 1) : g[k] = f[k]
    <3>1. \A k \in 0..n : k # n => k \in 0..(n - 1)
      OBVIOUS
    <3> QED
      BY <2>2, <3>1
  <2> HIDE DEF g
  <2>4. g[0] = first
    BY <2>1, <2>3
  <2>5. ASSUME NEW k \in 1..n PROVE g[k] = step[<<k, g[k - 1]>>]
    <3>1. k - 1 \in 0..(n - 1) /\ g[k - 1] = f[k - 1]
      BY <2>3
    <3>2. CASE k = n
      BY <2>3, <3>1, <3>2
    <3>3. CASE k # n
      <4>1. k \in 1..(n - 1) /\ k \in 0..(n - 1)
        BY <3>3
      <4> QED
        BY <2>1, <2>3, <3>1, <4>1
    <3> QED
      BY <3>2, <3>3
  <2>6. Good(g, n)
    BY <2>4, <2>5
  <2> HIDE DEF Good
  <2>7. n \in 0..m
    OBVIOUS
  <2> QED
    BY <2>3, <2>6, <2>7
<1>3. m \in T
  <2> HIDE DEF T
  <2>1. 0..m \subseteq T
    BY <1>1, <1>2, Counting
  <2> QED
    BY <2>1
<1> QED
  BY <1>3 DEF Iterates

(***************************************************************************)
(* Flattening.                                                             *)
(***************************************************************************)

(* sums[n] is the first n of s, one after the other.                        *)
Sums(s, sums) ==
    /\ sums[0] = <<>>
    /\ \A n \in 1..Len(s) : sums[n] = sums[n - 1] \o s[n]

(* There are such, and the last is what FlattenSeq gives.                   *)
LEMMA Flattened ==
    ASSUME NEW S, NEW s \in Seq(Seq(S))
    PROVE  \E sums \in [0..Len(s) -> Seq(S)] : Sums(s, sums) /\ FlattenSeq(s) = sums[Len(s)]
<1> DEFINE step == [x \in (1..Len(s)) \X Seq(S) |-> x[2] \o s[x[1]]]
<1>1. /\ Len(s) \in Nat /\ <<>> \in Seq(S)
      /\ \A n \in 1..Len(s) : s[n] \in Seq(S)
  OBVIOUS
<1>2. step \in [(1..Len(s)) \X Seq(S) -> Seq(S)]
  <2>1. ASSUME NEW x \in (1..Len(s)) \X Seq(S) PROVE x[2] \o s[x[1]] \in Seq(S)
    <3>1. x[2] \in Seq(S) /\ s[x[1]] \in Seq(S)
      BY <1>1
    <3> QED
      BY <3>1, ConcatProperties
  <2> QED
    BY <2>1
<1>3. \A n \in 1..Len(s), v \in Seq(S) : step[<<n, v>>] = v \o s[n]
  OBVIOUS
<1> HIDE DEF step
<1>4. PICK sums \in [0..Len(s) -> Seq(S)] :
          sums[0] = <<>> /\ \A n \in 1..Len(s) : sums[n] = step[<<n, sums[n - 1]>>]
  <2>1. Steps(Seq(S), Len(s), step)
    BY <1>2 DEF Steps
  <2>2. \E f : Iterates(Seq(S), <<>>, Len(s), step, f)
    BY <1>1, <2>1, Recursion
  <2> QED
    BY <2>2 DEF Iterates
<1>5. ASSUME NEW n \in 1..Len(s) PROVE sums[n - 1] \in Seq(S) /\ sums[n] = sums[n - 1] \o s[n]
  <2>1. n - 1 \in 0..Len(s)
    BY <1>1
  <2>2. sums[n - 1] \in Seq(S)
    BY <2>1
  <2> QED
    BY <1>3, <1>4, <2>2
<1>6. FlattenSeq(s) = sums[Len(s)]
  <2>1. CASE s = <<>>
    BY <1>4, <2>1 DEF FlattenSeq
  <2>2. CASE s # <<>>
    <3> DEFINE F(f) == [i \in 1..Len(s) |-> IF i = 1 THEN s[i] ELSE f[i - 1] \o s[i]]
               flat == CHOOSE f : f = F(f)
               w    == [i \in 1..Len(s) |-> sums[i]]
    <3>1. Len(s) \in Nat \ {0}
      BY <2>2
    <3>2. sums[1] = s[1]
      <4>1. 1 \in 1..Len(s) /\ s[1] \in Seq(S)
        BY <1>1, <3>1
      <4>2. sums[1] = <<>> \o s[1]
        <5>1. PICK n \in 1..Len(s) : n = 1
          BY <4>1
        <5>2. sums[n] = sums[n - 1] \o s[n]
          BY <1>5
        <5>3. n - 1 = 0
          BY <5>1
        <5> QED
          BY <1>4, <5>1, <5>2, <5>3
      <4> QED
        BY <4>1, <4>2, ConcatEmptySeq
    <3>3. w = F(w)
      <4>1. ASSUME NEW i \in 1..Len(s)
            PROVE  w[i] = IF i = 1 THEN s[i] ELSE w[i - 1] \o s[i]
        <5>1. i # 1 => i - 1 \in 1..Len(s)
          BY <1>1
        <5> QED
          BY <1>5, <3>2, <5>1
      <4> QED
        BY <4>1
    <3>4. flat = F(flat)
      <4>1. \E f : f = F(f)
        <5> HIDE DEF F, w
        <5> QED
          BY <3>3
      <4> HIDE DEF F
      <4> QED
        BY <4>1
    <3>5. FlattenSeq(s) = flat[Len(s)]
      BY <3>1 DEF FlattenSeq
    <3> HIDE DEF flat
    <3>6. \A i \in 1..Len(s) : flat[i] = IF i = 1 THEN s[i] ELSE flat[i - 1] \o s[i]
      BY <3>4
    <3> HIDE DEF F, w
    <3> DEFINE T == {0} \cup {n \in 1..Len(s) : flat[n] = sums[n]}
    <3>7. ASSUME NEW n \in 1..Len(s), n - 1 \in T PROVE n \in T
      <4>1. CASE n = 1
        BY <3>2, <3>6, <4>1
      <4>2. CASE n # 1
        <5>1. n - 1 # 0 /\ flat[n - 1] = sums[n - 1]
          BY <3>7, <4>2
        <5> QED
          BY <1>5, <3>6, <4>2, <5>1
      <4> QED
        BY <4>1, <4>2
    <3>8. Len(s) \in T
      <4>1. 0 \in T
        OBVIOUS
      <4> HIDE DEF T
      <4>2. 0..Len(s) \subseteq T
        BY <1>1, <3>7, <4>1, Counting
      <4> QED
        BY <1>1, <4>2
    <3> QED
      BY <3>1, <3>5, <3>8
  <2> QED
    BY <2>1, <2>2
<1> QED
  BY <1>4, <1>5, <1>6 DEF Sums

(* What begins alike adds up alike.                                         *)
LEMMA SumsAgree ==
    ASSUME NEW s, NEW t, NEW sums, NEW sumt, Sums(s, sums), Sums(t, sumt),
           Len(s) \in Nat, Len(t) \in Nat, Len(s) <= Len(t),
           \A n \in 1..Len(s) : s[n] = t[n]
    PROVE  sums[Len(s)] = sumt[Len(s)]
<1>0. PICK m \in Nat : m = Len(s)
  OBVIOUS
<1> DEFINE T == {n \in 0..m : sums[n] = sumt[n]}
<1>1. 0 \in T
  BY DEF Sums
<1>2. ASSUME NEW n \in 1..m, n - 1 \in T PROVE n \in T
  <2>1. n \in 1..Len(s) /\ n \in 1..Len(t) /\ n \in 0..m
    BY <1>0
  <2>2. sums[n] = sums[n - 1] \o s[n] /\ sumt[n] = sumt[n - 1] \o t[n]
    BY <2>1 DEF Sums
  <2> QED
    BY <1>2, <2>1, <2>2
<1>3. 0..m \subseteq T
  <2> HIDE DEF T
  <2> QED
    BY <1>1, <1>2, Counting
<1> QED
  BY <1>0, <1>3

(* What is flattened is a sequence of the same things.                      *)
LEMMA FlatIsSequence ==
    ASSUME NEW S, NEW s \in Seq(Seq(S))
    PROVE  FlattenSeq(s) \in Seq(S) /\ (s = <<>> => FlattenSeq(s) = <<>>)
<1>1. PICK sums \in [0..Len(s) -> Seq(S)] : Sums(s, sums) /\ FlattenSeq(s) = sums[Len(s)]
  BY Flattened
<1>2. Len(s) \in 0..Len(s)
  OBVIOUS
<1> QED
  BY <1>1, <1>2 DEF FlattenSeq

(* The last of t makes the flat sequence that much longer.                  *)
LEMMA FlatLast ==
    ASSUME NEW S, NEW s \in Seq(Seq(S)), NEW t \in Seq(Seq(S)), Len(t) = Len(s) + 1,
           \A n \in 1..Len(s) : t[n] = s[n]
    PROVE  FlattenSeq(t) = FlattenSeq(s) \o t[Len(t)]
<1>1. PICK sums \in [0..Len(s) -> Seq(S)] : Sums(s, sums) /\ FlattenSeq(s) = sums[Len(s)]
  BY Flattened
<1>2. PICK sumt \in [0..Len(t) -> Seq(S)] : Sums(t, sumt) /\ FlattenSeq(t) = sumt[Len(t)]
  BY Flattened
<1>3. /\ Len(s) \in Nat /\ Len(t) \in 1..Len(t) /\ Len(t) - 1 = Len(s) /\ Len(s) <= Len(t) /\ Len(t) \in Nat
      /\ Len(s) <= Len(s)
  OBVIOUS
<1>4. sums[Len(s)] = sumt[Len(s)]
  <2>1. \A n \in 1..Len(s) : s[n] = t[n]
    OBVIOUS
  <2>2. Sums(s, sums) /\ Sums(t, sumt)
    BY <1>1, <1>2
  <2>3. Len(s) \in Nat /\ Len(t) \in Nat /\ Len(s) <= Len(t)
    BY <1>3
  <2> QED
    BY <2>1, <2>2, <2>3, SumsAgree
<1>5. sumt[Len(t)] = sumt[Len(s)] \o t[Len(t)]
  BY <1>2, <1>3 DEF Sums
<1> QED
  BY <1>1, <1>2, <1>4, <1>5

(* s is u and then v.                                                      *)
Joins(s, u, v) == s = u \o v

(* What is joined to the second of two is joined to both.                   *)
LEMMA Rejoined ==
    ASSUME NEW S, NEW u \in Seq(S), NEW v \in Seq(S), NEW x \in Seq(S),
           NEW s, NEW t, NEW w, Joins(s, u, v), Joins(w, v, x), Joins(t, u, w)
    PROVE  Joins(t, s, x)
<1>1. (u \o v) \o x = u \o (v \o x)
  BY ConcatAssociative
<1> QED
  BY <1>1 DEF Joins

(* When the last of s gets longer by x, so does the flat sequence.          *)
LEMMA FlatLastLonger ==
    ASSUME NEW S, NEW s \in Seq(Seq(S)), NEW t \in Seq(Seq(S)), NEW n \in Nat, Len(s) = n + 1,
           Len(t) = n + 1, \A i \in 1..n : t[i] = s[i],
           NEW x \in Seq(S), Joins(t[n + 1], s[n + 1], x)
    PROVE  Joins(FlattenSeq(t), FlattenSeq(s), x)
<1> DEFINE front == [i \in 1..n |-> s[i]]
<1>1. n + 1 \in 1..(n + 1) /\ \A i \in 1..(n + 1) : s[i] \in Seq(S) /\ t[i] \in Seq(S)
  OBVIOUS
<1>2. \A i \in 1..n : i \in 1..(n + 1)
  OBVIOUS
<1>3. front \in Seq(Seq(S)) /\ Len(front) = n /\ \A i \in 1..n : s[i] = front[i] /\ t[i] = front[i]
  BY <1>1, <1>2
<1> HIDE DEF front
<1>4. Joins(FlattenSeq(s), FlattenSeq(front), s[n + 1])
  <2>1. Len(s) = Len(front) + 1 /\ \A i \in 1..Len(front) : s[i] = front[i]
    BY <1>3
  <2>2. FlattenSeq(s) = FlattenSeq(front) \o s[Len(s)]
    BY <1>3, <2>1, FlatLast
  <2> QED
    BY <2>2 DEF Joins
<1>5. Joins(FlattenSeq(t), FlattenSeq(front), t[n + 1])
  <2>1. Len(t) = Len(front) + 1 /\ \A i \in 1..Len(front) : t[i] = front[i]
    BY <1>3
  <2>2. FlattenSeq(t) = FlattenSeq(front) \o t[Len(t)]
    BY <1>3, <2>1, FlatLast
  <2> QED
    BY <2>2 DEF Joins
<1>6. FlattenSeq(front) \in Seq(S) /\ s[n + 1] \in Seq(S)
  BY <1>1, <1>3, FlatIsSequence
<1> QED
  BY <1>4, <1>5, <1>6, Rejoined

(* One by one gives the sequence itself.                                    *)
LEMMA FlatOnes ==
    ASSUME NEW S, NEW e \in Seq(S), NEW s, s = [i \in 1..Len(e) |-> <<e[i]>>]
    PROVE  s \in Seq(Seq(S)) /\ FlattenSeq(s) = e
<1>1. Len(e) \in Nat /\ \A i \in 1..Len(e) : e[i] \in S /\ <<e[i]>> \in Seq(S)
  OBVIOUS
<1>2. s \in Seq(Seq(S)) /\ Len(s) = Len(e) /\ \A i \in 1..Len(e) : s[i] = <<e[i]>>
  BY <1>1
<1>3. PICK sums \in [0..Len(e) -> Seq(S)] : Sums(s, sums) /\ FlattenSeq(s) = sums[Len(e)]
  <2>1. \E sums \in [0..Len(s) -> Seq(S)] : Sums(s, sums) /\ FlattenSeq(s) = sums[Len(s)]
    BY <1>2, Flattened
  <2> QED
    BY <1>2, <2>1
<1> DEFINE T == {n \in 0..Len(e) : Len(sums[n]) = n /\ \A i \in 1..n : sums[n][i] = e[i]}
<1>4. 0 \in T
  BY <1>3 DEF Sums
<1>5. ASSUME NEW n \in 1..Len(e), n - 1 \in T PROVE n \in T
  <2>1. n \in 0..Len(e) /\ n - 1 \in 0..Len(e) /\ e[n] \in S
    BY <1>1
  <2>2. Len(sums[n - 1]) = n - 1 /\ \A i \in 1..(n - 1) : sums[n - 1][i] = e[i]
    BY <1>5
  <2>3. sums[n] = sums[n - 1] \o <<e[n]>> /\ sums[n - 1] \in Seq(S)
    BY <1>2, <1>3, <2>1 DEF Sums
  <2>4. <<e[n]>> \in Seq(S) /\ Len(<<e[n]>>) = 1 /\ <<e[n]>>[1] = e[n]
    BY <2>1
  <2>5. /\ Len(sums[n]) = n
        /\ \A i \in 1..n : sums[n][i] = IF i <= n - 1 THEN sums[n - 1][i] ELSE <<e[n]>>[i - (n - 1)]
    BY <2>2, <2>3, <2>4, ConcatProperties
  <2>6. ASSUME NEW i \in 1..n PROVE sums[n][i] = e[i]
    <3>1. CASE i <= n - 1
      BY <2>2, <2>5, <3>1
    <3>2. CASE ~(i <= n - 1)
      <4>1. i = n /\ i - (n - 1) = 1
        BY <3>2
      <4> QED
        BY <2>4, <2>5, <4>1, <3>2
    <3> QED
      BY <3>1, <3>2
  <2> QED
    BY <2>1, <2>5, <2>6
<1>6. Len(e) \in T
  <2> HIDE DEF T
  <2>1. 0..Len(e) \subseteq T
    BY <1>1, <1>4, <1>5, Counting
  <2> QED
    BY <1>1, <2>1
<1>7. sums[Len(e)] \in Seq(S)
  BY <1>1, <1>3
<1>8. sums[Len(e)] = e
  BY <1>6, <1>7, SeqEqual
<1> QED
  BY <1>2, <1>3, <1>8

(***************************************************************************)
(* Counting what is in a sequence.                                         *)
(***************************************************************************)

(* Where y is in q.                                                         *)
Found(q, y) == {j \in DOMAIN q : q[j] = y}

(* Only finitely many indices hold y.                                       *)
LEMMA FoundIsFinite == ASSUME NEW S, NEW q \in Seq(S), NEW y PROVE IsFiniteSet(Found(q, y))
<1>1. IsFiniteSet(1..Len(q)) /\ Found(q, y) \in SUBSET (1..Len(q))
  BY FS_Interval DEF Found
<1> QED
  BY <1>1, FS_Subset

(* As many as there are, one by one.                                        *)
LEMMA OneToOne ==
    ASSUME NEW S, IsFiniteSet(S), NEW T, NEW f \in [S -> T],
           \A x \in T : \E z \in S : f[z] = x,
           \A x, z \in S : f[x] = f[z] => x = z
    PROVE  Cardinality(T) = Cardinality(S)
<1>1. f \in Bijection(S, T)
  BY DEF Bijection, Injection, Surjection, IsInjective
<1> QED
  BY <1>1, FS_Bijection DEF ExistsBijection

(* What comes before does not count if it is something else.                *)
LEMMA FoundAfter ==
    ASSUME NEW S, NEW q \in Seq(S), NEW a \in S, NEW y, a # y
    PROVE  Cardinality(Found(<<a>> \o q, y)) = Cardinality(Found(q, y))
<1> DEFINE r == <<a>> \o q
           f == [j \in Found(q, y) |-> j + 1]
<1>1. <<a>> \in Seq(S) /\ Len(<<a>>) = 1 /\ <<a>>[1] = a /\ Len(q) \in Nat
  OBVIOUS
<1>2. /\ r \in Seq(S) /\ Len(r) = Len(q) + 1
      /\ \A i \in 1..(Len(q) + 1) : r[i] = IF i <= 1 THEN <<a>>[i] ELSE q[i - 1]
  <2>1. /\ r \in Seq(S) /\ Len(r) = 1 + Len(q)
        /\ \A i \in 1..(1 + Len(q)) : r[i] = IF i <= 1 THEN <<a>>[i] ELSE q[i - 1]
    BY <1>1, ConcatProperties
  <2>2. 1 + Len(q) = Len(q) + 1
    BY <1>1
  <2> QED
    BY <2>1, <2>2
<1> HIDE DEF r
<1>3. DOMAIN r = 1..(Len(q) + 1) /\ DOMAIN q = 1..Len(q)
  BY <1>1, <1>2
<1>4. \A j \in Found(q, y) : j + 1 \in Found(r, y)
  BY <1>1, <1>2, <1>3 DEF Found
<1>5. ASSUME NEW x \in Found(r, y) PROVE \E z \in Found(q, y) : f[z] = x
  <2>1. x \in 1..(Len(q) + 1) /\ r[x] = y
    BY <1>3 DEF Found
  <2>2. x # 1
    BY <1>1, <1>2, <2>1
  <2>3. x - 1 \in 1..Len(q) /\ q[x - 1] = y
    BY <1>1, <1>2, <2>1, <2>2
  <2>4. x - 1 \in Found(q, y) /\ (x - 1) + 1 = x
    BY <1>3, <2>1, <2>3 DEF Found
  <2>5. f[x - 1] = x
    BY <2>4
  <2> QED
    BY <2>4, <2>5
<1>6. \A x, z \in Found(q, y) : f[x] = f[z] => x = z
  <2>1. Found(q, y) \subseteq Nat
    BY <1>1, <1>3 DEF Found
  <2> QED
    BY <2>1
<1>7. f \in [Found(q, y) -> Found(r, y)]
  BY <1>4
<1>8. IsFiniteSet(Found(q, y))
  BY FoundIsFinite
<1> HIDE DEF f
<1> QED
  BY <1>5, <1>6, <1>7, <1>8, OneToOne DEF r

(* y is found in a flat sequence once for each part that begins with it, if *)
(* it is nowhere else in them.                                              *)
LEMMA FlatCount ==
    ASSUME NEW S, NEW s \in Seq(Seq(S)), NEW y,
           \A i \in 1..Len(s) : s[i] # <<>> /\ \A j \in 2..Len(s[i]) : s[i][j] # y
    PROVE  Cardinality(Found(FlattenSeq(s), y)) = Cardinality({i \in 1..Len(s) : s[i][1] = y})
<1>1. PICK sums \in [0..Len(s) -> Seq(S)] : Sums(s, sums) /\ FlattenSeq(s) = sums[Len(s)]
  BY Flattened
<1>2. Len(s) \in Nat /\ \A i \in 1..Len(s) : s[i] \in Seq(S) /\ Len(s[i]) \in Nat \ {0}
  <2>1. \A i \in 1..Len(s) : s[i] \in Seq(S)
    OBVIOUS
  <2> QED
    BY <2>1, EmptySeq
<1> DEFINE first(m) == {i \in 1..m : s[i][1] = y}
           T == {m \in 0..Len(s) : /\ IsFiniteSet(first(m))
                                   /\ Cardinality(Found(sums[m], y)) = Cardinality(first(m))}
<1>3. 0 \in T
  <2>1. Found(sums[0], y) = {} /\ first(0) = {}
    BY <1>1 DEF Sums, Found
  <2>2. IsFiniteSet(first(0)) /\ Cardinality(Found(sums[0], y)) = Cardinality(first(0))
    <3> HIDE DEF first
    <3> QED
      BY <2>1, FS_EmptySet
  <2>3. 0 \in 0..Len(s)
    BY <1>2
  <2> HIDE DEF first
  <2> QED
    BY <2>2, <2>3
<1>4. ASSUME NEW n \in 1..Len(s), n - 1 \in T PROVE n \in T
  <2>1. n \in 0..Len(s) /\ n - 1 \in 0..Len(s) /\ n \in Nat
    BY <1>2
  <2> DEFINE q == sums[n - 1]
             r == sums[n]
  <2>2. /\ IsFiniteSet(first(n - 1)) /\ Cardinality(Found(q, y)) = Cardinality(first(n - 1))
        /\ q \in Seq(S) /\ r = q \o s[n] /\ s[n] \in Seq(S) /\ Len(s[n]) \in Nat \ {0}
    BY <1>1, <1>2, <1>4, <2>1 DEF Sums
  <2> HIDE DEF q, r, T
  <2>3. /\ r \in Seq(S) /\ Len(r) = Len(q) + Len(s[n]) /\ Len(q) \in Nat
        /\ DOMAIN r = 1..(Len(q) + Len(s[n])) /\ DOMAIN q = 1..Len(q)
        /\ \A i \in 1..(Len(q) + Len(s[n])) : r[i] = IF i <= Len(q) THEN q[i] ELSE s[n][i - Len(q)]
    BY <2>2, ConcatProperties
  <2>4. \A j \in 2..Len(s[n]) : s[n][j] # y
    OBVIOUS
  <2>5. Found(r, y) = IF s[n][1] = y THEN Found(q, y) \cup {Len(q) + 1} ELSE Found(q, y)
    <3>1. ASSUME NEW j, j \in Found(r, y)
          PROVE  j \in Found(q, y) \/ (j = Len(q) + 1 /\ s[n][1] = y)
      <4>1. j \in 1..(Len(q) + Len(s[n])) /\ r[j] = y
        BY <2>3, <3>1 DEF Found
      <4>2. CASE j <= Len(q)
        BY <2>3, <4>1, <4>2 DEF Found
      <4>3. CASE ~(j <= Len(q))
        <5>1. j - Len(q) \in 1..Len(s[n]) /\ s[n][j - Len(q)] = y
          BY <2>2, <2>3, <4>1, <4>3
        <5>2. ~(j - Len(q) \in 2..Len(s[n]))
          BY <2>4, <5>1
        <5>3. j - Len(q) = 1
          BY <2>2, <2>3, <4>1, <5>1, <5>2
        <5>4. j = Len(q) + 1
          BY <2>3, <4>1, <5>3
        <5> QED
          BY <5>1, <5>3, <5>4
      <4> QED
        BY <4>2, <4>3
    <3>2. ASSUME NEW j, j \in Found(q, y) PROVE j \in Found(r, y)
      <4>1. j \in 1..Len(q) /\ q[j] = y
        BY <2>3, <3>2 DEF Found
      <4>2. j \in 1..(Len(q) + Len(s[n])) /\ j <= Len(q)
        BY <2>2, <2>3, <4>1
      <4> QED
        BY <2>3, <4>1, <4>2 DEF Found
    <3>3. s[n][1] = y => Len(q) + 1 \in Found(r, y)
      <4>1. Len(q) + 1 \in 1..(Len(q) + Len(s[n])) /\ ~(Len(q) + 1 <= Len(q)) /\ (Len(q) + 1) - Len(q) = 1
        BY <2>2, <2>3
      <4>2. r[Len(q) + 1] = s[n][1]
        BY <2>3, <4>1
      <4> QED
        BY <2>3, <4>1, <4>2 DEF Found
    <3>4. CASE s[n][1] = y
      <4>1. \A j : j \in Found(r, y) <=> j \in Found(q, y) \/ j = Len(q) + 1
        BY <3>1, <3>2, <3>3, <3>4
      <4>2. Found(r, y) = Found(q, y) \cup {Len(q) + 1}
        BY <4>1
      <4> QED
        BY <3>4, <4>2
    <3>5. CASE s[n][1] # y
      <4>1. \A j : j \in Found(r, y) <=> j \in Found(q, y)
        BY <3>1, <3>2, <3>5
      <4>2. Found(r, y) = Found(q, y)
        BY <4>1
      <4> QED
        BY <3>5, <4>2
    <3> QED
      BY <3>4, <3>5
  <2>6. first(n) = IF s[n][1] = y THEN first(n - 1) \cup {n} ELSE first(n - 1)
    <3>1. 1..n = 1..(n - 1) \cup {n}
      BY <2>1
    <3> QED
      BY <3>1
  <2>7. ~(Len(q) + 1 \in Found(q, y)) /\ ~(n \in first(n - 1))
    BY <2>1, <2>3 DEF Found
  <2>8. IsFiniteSet(Found(q, y))
    BY <2>2, FoundIsFinite
  <2> HIDE DEF first
  <2>9. /\ IsFiniteSet(first(n)) /\ Cardinality(Found(r, y)) = Cardinality(first(n))
    <3>1. CASE s[n][1] = y
      <4>1. Found(r, y) = Found(q, y) \cup {Len(q) + 1} /\ first(n) = first(n - 1) \cup {n}
        BY <2>5, <2>6, <3>1
      <4>2. Cardinality(Found(q, y) \cup {Len(q) + 1}) = Cardinality(Found(q, y)) + 1
        BY <2>7, <2>8, FS_AddElement
      <4>3. /\ IsFiniteSet(first(n - 1) \cup {n})
            /\ Cardinality(first(n - 1) \cup {n}) = Cardinality(first(n - 1)) + 1
        BY <2>2, <2>7, FS_AddElement
      <4> QED
        BY <2>2, <4>1, <4>2, <4>3
    <3>2. CASE s[n][1] # y
      BY <2>2, <2>5, <2>6, <3>2
    <3> QED
      BY <3>1, <3>2
  <2> QED
    BY <2>1, <2>9 DEF T, r
<1>5. Len(s) \in T
  <2> HIDE DEF T
  <2>1. 0..Len(s) \subseteq T
    BY <1>2, <1>3, <1>4, Counting
  <2> QED
    BY <1>2, <2>1
<1> QED
  BY <1>1, <1>5

=============================================================================
