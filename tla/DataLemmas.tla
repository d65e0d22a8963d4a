------------------------------- MODULE DataLemmas -------------------------------
(***************************************************************************)
(* Facts about the data of the other modules that their proofs rest on:    *)
(* the first and the last of a set of positions, whole seconds and the     *)
(* rest, induction over numbers and over sequences, and what FlattenSeq    *)
(* makes of one sequence more.  The library's theorems of induction take   *)
(* an operator as a parameter; those here are about a set instead.         *)
(***************************************************************************)
EXTENDS Integers, SequencesExt, FiniteSetTheorems, SequenceTheorems, TLAPS

\* A set of positions that is not empty has a least one.  If it had none, what lies above some
\* position of it, up to a last one m, would be closed under taking one away, and a finite set
\* would be mapped one to one into itself without m.
LEMMA LeastPosition ==
  ASSUME NEW S \in SUBSET Nat, S /= {}
  PROVE  Min(S) \in S /\ \A y \in S : Min(S) <= y
<1>1. \E x \in S : \A y \in S : x <= y
  <2> SUFFICES ASSUME \A x \in S : \E y \in S : y < x PROVE FALSE
    OBVIOUS
  <2>1. PICK m \in S : TRUE
    OBVIOUS
  <2> DEFINE U == {u \in 0..m : \E x \in S : x <= u}
             f == [u \in U |-> u - 1]
  <2>2. IsFiniteSet(0..m) /\ U \in SUBSET (0..m)
    BY FS_Interval
  <2>3. IsFiniteSet(U)
    BY <2>2, FS_Subset
  <2>4. m \in U
    OBVIOUS
  <2>5. /\ IsFiniteSet(U \ {m})
        /\ Cardinality(U \ {m}) = Cardinality(U) - 1
        /\ Cardinality(U) \in Nat
    BY <2>3, <2>4, FS_RemoveElement, FS_CardinalityType
  <2>6. \A u \in U : u - 1 \in U \ {m}
    <3> SUFFICES ASSUME NEW u \in U PROVE u - 1 \in U \ {m}
      OBVIOUS
    <3>1. PICK x \in S : x <= u
      OBVIOUS
    <3>2. PICK y \in S : y < x
      OBVIOUS
    <3>3. y <= u - 1 /\ u - 1 \in 0..m /\ u - 1 /= m
      BY <3>1, <3>2
    <3> QED
      BY <3>2, <3>3
  <2>7. f \in [U -> U \ {m}]
    BY <2>6
  <2>8. Cardinality(U \ {m}) < Cardinality(U)
    BY <2>5
  <2>9. \E u, v \in U : u /= v /\ f[u] = f[v]
    <3> HIDE DEF U, f
    <3> QED
      BY <2>3, <2>5, <2>7, <2>8, FS_PigeonHole
  <2> QED
    BY <2>9
<1> QED
  BY <1>1 DEF Min

\* A set of positions below a bound that is not empty has a greatest one: counted from the
\* bound it is the least.
LEMMA GreatestPosition ==
  ASSUME NEW n \in Nat, NEW S \in SUBSET (1..n), S /= {}
  PROVE  Max(S) \in S
<1> DEFINE T == {n - x : x \in S}
<1>1. T \in SUBSET Nat /\ T /= {}
  <2>1. \A x \in S : n - x \in Nat
    OBVIOUS
  <2>2. PICK x \in S : TRUE
    OBVIOUS
  <2>3. n - x \in T
    BY <2>2
  <2> QED
    BY <2>1, <2>3
<1>2. Min(T) \in T /\ \A y \in T : Min(T) <= y
  <2> HIDE DEF T
  <2> QED
    BY <1>1, LeastPosition
<1>3. PICK x \in S : Min(T) = n - x
  BY <1>2
<1>4. ASSUME NEW y \in S PROVE x >= y
  <2>1. n - y \in T
    OBVIOUS
  <2>2. n - x <= n - y
    BY <2>1, <1>2, <1>3
  <2> QED
    BY <2>2
<1> QED
  BY <1>4 DEF Max

\* A position that is the only one is the greatest.
LEMMA OnlyPosition ==
  ASSUME NEW j \in Nat
  PROVE  Max({j}) = j
  BY DEF Max

\* Whole seconds and the rest make up the milliseconds.
LEMMA SecondsAndRest ==
  ASSUME NEW n \in Int, NEW secs, NEW rest, secs = n \div 1000, rest = n % 1000
  PROVE  rest \in 0..999 /\ 1000 * secs + rest = n
<1>1. secs \in Int /\ rest \in 0..999
  OBVIOUS
<1>2. rest = n - 1000 * secs
  OBVIOUS
<1> QED
  BY <1>1, <1>2

-----------------------------------------------------------------------------
(* Induction *)

\* A set of natural numbers that has 0 and is closed under adding one is all of them: what it lacked
\* would have a least one.
LEMMA Induction ==
  ASSUME NEW S \in SUBSET Nat, 0 \in S, \A n \in S : n + 1 \in S
  PROVE  S = Nat
<1> SUFFICES ASSUME Nat \ S /= {} PROVE FALSE
  OBVIOUS
<1> DEFINE m == Min(Nat \ S)
<1>1. m \in Nat \ S /\ \A y \in Nat \ S : m <= y
  BY LeastPosition
<1> HIDE DEF m
<1>2. m - 1 \in Nat /\ m - 1 \notin Nat \ S
  BY <1>1
<1> QED
  BY <1>1, <1>2

\* The steps FlattenSeq takes through the first n of some sequences: f, as a recursive function.
Flattening(seqs, n, f) ==
  f = [i \in 1..n |-> IF i = 1 THEN seqs[i] ELSE f[i - 1] \o seqs[i]]

LEMMA FlatteningAt ==
  ASSUME NEW seqs, NEW n, NEW f, Flattening(seqs, n, f), NEW i \in 1..n
  PROVE  f[i] = IF i = 1 THEN seqs[i] ELSE f[i - 1] \o seqs[i]
<1> DEFINE step(j) == IF j = 1 THEN seqs[j] ELSE f[j - 1] \o seqs[j]
<1>1. f = [j \in 1..n |-> step(j)]
  BY DEF Flattening
<1> HIDE DEF step
<1>2. f[i] = step(i)
  BY <1>1
<1> QED
  BY <1>2 DEF step

\* There is such a function for every n, by induction on n.
LEMMA FlatteningExists ==
  ASSUME NEW seqs, NEW n \in Nat
  PROVE  \E f : Flattening(seqs, n, f)
<1> DEFINE S == {k \in Nat : \E f : Flattening(seqs, k, f)}
<1>1. 0 \in S
  <2>1. Flattening(seqs, 0, [i \in 1..0 |-> i])
    BY DEF Flattening
  <2> QED
    BY <2>1
<1>2. ASSUME NEW k \in S PROVE k + 1 \in S
  <2>1. k \in Nat /\ \E f : Flattening(seqs, k, f)
    OBVIOUS
  <2>2. PICK f : Flattening(seqs, k, f)
    BY <2>1
  <2> DEFINE step(i) == IF i = 1 THEN seqs[i] ELSE f[i - 1] \o seqs[i]
             g == [i \in 1..(k + 1) |-> step(i)]
  <2>3. \A i \in 1..k : g[i] = f[i]
    BY <2>1, <2>2, FlatteningAt
  <2>4. ASSUME NEW i \in 1..(k + 1)
        PROVE  step(i) = IF i = 1 THEN seqs[i] ELSE g[i - 1] \o seqs[i]
    <3>1. i /= 1 => i - 1 \in 1..k
      BY <2>1
    <3> QED
      BY <2>3, <3>1
  <2>5. g = [i \in 1..(k + 1) |-> IF i = 1 THEN seqs[i] ELSE g[i - 1] \o seqs[i]]
    <3> HIDE DEF step
    <3>1. g = [i \in 1..(k + 1) |-> step(i)]
      OBVIOUS
    <3> HIDE DEF g
    <3> QED
      BY <2>4, <3>1
  <2>6. Flattening(seqs, k + 1, g)
    BY <2>5 DEF Flattening
  <2> QED
    BY <2>1, <2>6
<1> QED
  BY <1>1, <1>2, Induction

LEMMA FlattenSteps ==
  ASSUME NEW seqs, Len(seqs) \in Nat \ {0}
  PROVE  \E f : Flattening(seqs, Len(seqs), f) /\ FlattenSeq(seqs) = f[Len(seqs)]
<1> DEFINE F == CHOOSE f : Flattening(seqs, Len(seqs), f)
<1>1. Flattening(seqs, Len(seqs), F)
  BY FlatteningExists
<1>2. FlattenSeq(seqs) = F[Len(seqs)]
  BY DEF FlattenSeq, Flattening
<1> QED
  BY <1>1, <1>2

\* What is made of the first n does not depend on what follows them.
LEMMA SameFlattening ==
  ASSUME NEW seqs, NEW seqs2, NEW n \in Nat, NEW n2 \in Nat, n <= n2,
         NEW f, NEW f2, Flattening(seqs, n, f), Flattening(seqs2, n2, f2),
         \A i \in 1..n : seqs2[i] = seqs[i]
  PROVE  \A i \in 1..n : f2[i] = f[i]
<1> DEFINE S == {k \in Nat : k \in 1..n => f2[k] = f[k]}
<1>1. \A k \in S : k + 1 \in S
  <2> SUFFICES ASSUME NEW k \in Nat, k \in 1..n => f2[k] = f[k], k + 1 \in 1..n
               PROVE  f2[k + 1] = f[k + 1]
    OBVIOUS
  <2>1. k + 1 \in 1..n2
    OBVIOUS
  <2>2. f2[k + 1] = IF k + 1 = 1 THEN seqs2[k + 1] ELSE f2[k + 1 - 1] \o seqs2[k + 1]
    BY <2>1, FlatteningAt
  <2>3. f[k + 1] = IF k + 1 = 1 THEN seqs[k + 1] ELSE f[k + 1 - 1] \o seqs[k + 1]
    BY FlatteningAt
  <2>4. k + 1 - 1 = k /\ seqs2[k + 1] = seqs[k + 1] /\ (k + 1 /= 1 => k \in 1..n)
    OBVIOUS
  <2> QED
    BY <2>2, <2>3, <2>4
<1>2. 0 \in S /\ S \in SUBSET Nat
  OBVIOUS
<1>3. S = Nat
  <2> HIDE DEF S
  <2> QED
    BY <1>1, <1>2, Induction
<1> QED
  BY <1>3

\* One more sequence is appended to what the others make.
LEMMA FlattenAppend ==
  ASSUME NEW X, NEW seqs \in Seq(Seq(X)), NEW w \in Seq(X)
  PROVE  FlattenSeq(Append(seqs, w)) = IF seqs = <<>> THEN w ELSE FlattenSeq(seqs) \o w
<1> DEFINE n == Len(seqs)
           all == Append(seqs, w)
<1>1. n \in Nat /\ Len(all) = n + 1 /\ all[n + 1] = w /\ \A i \in 1..n : all[i] = seqs[i]
  OBVIOUS
<1> HIDE DEF all
<1>2. PICK g : Flattening(all, n + 1, g) /\ FlattenSeq(all) = g[n + 1]
  BY <1>1, FlattenSteps
<1>3. g[n + 1] = IF n + 1 = 1 THEN w ELSE g[n] \o w
  <2>1. n + 1 - 1 = n /\ n + 1 \in 1..(n + 1)
    BY <1>1
  <2> QED
    BY <1>1, <1>2, <2>1, FlatteningAt
<1>4. CASE seqs = <<>>
  BY <1>2, <1>3, <1>4 DEF all
<1>5. CASE seqs /= <<>>
  <2>1. n \in Nat \ {0}
    BY <1>5
  <2>2. PICK f : Flattening(seqs, n, f) /\ FlattenSeq(seqs) = f[n]
    BY <2>1, FlattenSteps
  <2>3. g[n] = f[n]
    <3>1. n <= n + 1 /\ n + 1 \in Nat /\ n \in 1..n
      BY <2>1
    <3> HIDE DEF n
    <3> QED
      BY <1>1, <1>2, <2>2, <3>1, SameFlattening
  <2> QED
    BY <1>2, <1>3, <1>5, <2>1, <2>2, <2>3 DEF all
<1> QED
  BY <1>4, <1>5

\* A set of sequences that has the empty one and is closed under appending has them all.
LEMMA SequenceInduction ==
  ASSUME NEW X, NEW P \in SUBSET Seq(X), <<>> \in P,
         \A t \in P : \A x \in X : Append(t, x) \in P
  PROVE  P = Seq(X)
<1> DEFINE Covers(n) == \A t \in Seq(X) : Len(t) = n => t \in P
           S == {n \in Nat : Covers(n)}
<1>1. Covers(0)
  BY EmptySeq
<1>2. ASSUME NEW n \in Nat, Covers(n), NEW t \in Seq(X), Len(t) = n + 1
      PROVE  t \in P
  <2> DEFINE u == [i \in 1..n |-> t[i]]
  <2>1. u \in Seq(X) /\ Len(u) = n
    BY <1>2
  <2>2. t[n + 1] \in X /\ t = Append(u, t[n + 1])
    BY <1>2
  <2>3. u \in P
    BY <1>2, <2>1
  <2> HIDE DEF u
  <2> QED
    BY <2>2, <2>3
<1>3. \A n \in Nat : Covers(n) => Covers(n + 1)
  BY <1>2
<1>4. \A n \in Nat : Covers(n)
  <2> HIDE DEF Covers
  <2>1. 0 \in S /\ S \in SUBSET Nat /\ \A n \in S : n + 1 \in S
    BY <1>1, <1>3
  <2>2. S = Nat
    <3> HIDE DEF S
    <3> QED
      BY <2>1, Induction
  <2> QED
    BY <2>2
<1>5. \A t \in Seq(X) : t \in P
  BY <1>4
<1> QED
  BY <1>5

\* FlattenSeq by its first and its next element.
LEMMA FlattenGrows ==
  ASSUME NEW X
  PROVE  /\ FlattenSeq(<<>>) = <<>>
         /\ \A seqs \in Seq(Seq(X)) : FlattenSeq(seqs) \in Seq(X)
         /\ \A seqs \in Seq(Seq(X)) : \A w \in Seq(X) :
              FlattenSeq(Append(seqs, w)) = FlattenSeq(seqs) \o w
<1> DEFINE P == {seqs \in Seq(Seq(X)) : FlattenSeq(seqs) \in Seq(X)}
<1>1. FlattenSeq(<<>>) = <<>> /\ <<>> \in P
  BY DEF FlattenSeq
<1>2. ASSUME NEW seqs \in P, NEW w \in Seq(X)
      PROVE  /\ FlattenSeq(Append(seqs, w)) = FlattenSeq(seqs) \o w
             /\ Append(seqs, w) \in P
  <2>1. seqs \in Seq(Seq(X)) /\ FlattenSeq(seqs) \in Seq(X) /\ Append(seqs, w) \in Seq(Seq(X))
    OBVIOUS
  <2>2. FlattenSeq(Append(seqs, w)) = FlattenSeq(seqs) \o w
    <3>1. FlattenSeq(Append(seqs, w)) = IF seqs = <<>> THEN w ELSE FlattenSeq(seqs) \o w
      BY <2>1, FlattenAppend
    <3>2. <<>> \o w = w
      BY ConcatEmptySeq
    <3> QED
      BY <1>1, <3>1, <3>2
  <2>3. FlattenSeq(seqs) \o w \in Seq(X)
    BY <2>1
  <2> QED
    BY <2>1, <2>2, <2>3
<1>3. P = Seq(Seq(X))
  <2>1. P \in SUBSET Seq(Seq(X))
    OBVIOUS
  <2>2. <<>> \in P /\ \A seqs \in P : \A w \in Seq(X) : Append(seqs, w) \in P
    BY <1>1, <1>2
  <2> HIDE DEF P
  <2> QED
    BY <2>1, <2>2, SequenceInduction
<1> QED
  BY <1>1, <1>2, <1>3

\* A longer sequence that agrees is the shorter one with an element more.
LEMMA OneMore ==
  ASSUME NEW X, NEW u \in Seq(X), NEW w \in Seq(X), NEW x \in X, Len(w) = Len(u) + 1,
         \A i \in 1..Len(u) : w[i] = u[i], w[Len(w)] = x
  PROVE  w = Append(u, x)
<1>1. Append(u, x) \in Seq(X) /\ Len(Append(u, x)) = Len(u) + 1
  OBVIOUS
<1>2. \A i \in 1..Len(w) : w[i] = Append(u, x)[i]
  OBVIOUS
<1> QED
  BY <1>1, <1>2, SeqEqual

\* What a function makes of each element.
Mapped(m, t) == [k \in 1..Len(t) |-> m[t[k]]]

LEMMA MappedType ==
  ASSUME NEW X, NEW Y, NEW m \in [X -> Y], NEW t \in Seq(X)
  PROVE  Mapped(m, t) \in Seq(Y)
BY DEF Mapped

LEMMA MappedLength ==
  ASSUME NEW m, NEW t, Len(t) \in Nat
  PROVE  Len(Mapped(m, t)) = Len(t)
BY DEF Mapped

LEMMA MappedOneMore ==
  ASSUME NEW X, NEW Y, NEW m \in [X -> Y], NEW t \in Seq(X), NEW x \in X
  PROVE  Mapped(m, Append(t, x)) = Append(Mapped(m, t), m[x])
<1> DEFINE tx == Append(t, x)
<1>1. /\ tx \in Seq(X) /\ Len(tx) = Len(t) + 1 /\ tx[Len(tx)] = x /\ Len(t) \in Nat
      /\ \A k \in 1..Len(t) : tx[k] = t[k] /\ k \in 1..Len(tx)
  OBVIOUS
<1> HIDE DEF tx
<1>2. \A k \in 1..Len(t) : Mapped(m, t)[k] = m[t[k]]
  BY DEF Mapped
<1>3. \A k \in 1..Len(tx) : Mapped(m, tx)[k] = m[tx[k]]
  BY DEF Mapped
<1>4. /\ Mapped(m, t) \in Seq(Y) /\ Len(Mapped(m, t)) = Len(t)
      /\ Mapped(m, tx) \in Seq(Y) /\ Len(Mapped(m, tx)) = Len(tx)
  <2>1. tx \in Seq(X)
    BY <1>1
  <2>2. Mapped(m, t) \in Seq(Y) /\ Mapped(m, tx) \in Seq(Y)
    BY <2>1, MappedType, Zenon
  <2>3. Len(Mapped(m, t)) = Len(t)
    BY <1>1, MappedLength, Zenon
  <2>4. Len(Mapped(m, tx)) = Len(tx)
    <3>1. Len(tx) \in Nat
      BY <1>1
    <3> QED
      BY <3>1, MappedLength, Zenon
  <2> QED
    BY <2>2, <2>3, <2>4
<1>5. Mapped(m, tx)[Len(tx)] = m[x] /\ m[x] \in Y
  BY <1>1, <1>3
<1>6. \A k \in 1..Len(t) : Mapped(m, tx)[k] = Mapped(m, t)[k]
  BY <1>1, <1>2, <1>3
<1> DEFINE u == Mapped(m, t)
           w == Mapped(m, tx)
<1>7. u \in Seq(Y) /\ w \in Seq(Y) /\ Len(w) = Len(u) + 1 /\ w[Len(w)] = m[x]
      /\ \A k \in 1..Len(u) : w[k] = u[k]
  BY <1>1, <1>4, <1>5, <1>6
<1> HIDE DEF u, w
<1>8. w = Append(u, m[x])
  BY <1>5, <1>7, OneMore
<1> QED
  BY <1>8 DEF u, w, tx

LEMMA FlattenMappedType ==
  ASSUME NEW X, NEW Y, NEW m \in [X -> Seq(Y)], NEW t \in Seq(X)
  PROVE  FlattenSeq(Mapped(m, t)) \in Seq(Y)
<1>1. Mapped(m, t) \in Seq(Seq(Y))
  BY MappedType
<1> QED
  BY <1>1, FlattenGrows

\* What is made of one element more is appended.
LEMMA FlattenMappedOneMore ==
  ASSUME NEW X, NEW Y, NEW m \in [X -> Seq(Y)], NEW t \in Seq(X), NEW x \in X
  PROVE  FlattenSeq(Mapped(m, Append(t, x))) = FlattenSeq(Mapped(m, t)) \o m[x]
<1>1. Mapped(m, t) \in Seq(Seq(Y)) /\ m[x] \in Seq(Y)
  BY MappedType
<1>2. FlattenSeq(Append(Mapped(m, t), m[x])) = FlattenSeq(Mapped(m, t)) \o m[x]
  BY <1>1, FlattenGrows
<1>3. Mapped(m, Append(t, x)) = Append(Mapped(m, t), m[x])
  BY MappedOneMore
<1> QED
  BY <1>2, <1>3

LEMMA FlattenMappedNothing ==
  ASSUME NEW m
  PROVE  FlattenSeq(Mapped(m, <<>>)) = <<>>
<1>1. Mapped(m, <<>>) = <<>>
  BY DEF Mapped
<1> QED
  BY <1>1, FlattenGrows
=============================================================================
