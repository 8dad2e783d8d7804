------------------------------- MODULE Lemmas -------------------------------
(* Lemmas that the proofs about several components need.                   *)
EXTENDS Integers, Subsequences, FiniteSetsExt, SequencesExt, FiniteSetTheorems,
        SequenceTheorems, WellFoundedInduction, TLAPS

(* A set of naturals has a least element.                                  *)
LEMMA NotAbove ==
  ASSUME NEW S, S \subseteq Nat, NEW m \in S, NEW Below,
         \A a, b \in Nat : a < b => <<a, b>> \in Below,
         \A n \in S : ~(<<n, m>> \in Below)
  PROVE  \A n \in S : m <= n
<1>1. \A n \in S : ~(n < m) OBVIOUS
<1> QED BY <1>1

LEMMA Least ==
  ASSUME NEW S, S \subseteq Nat, S # {}
  PROVE  \E m \in S : \A n \in S : m <= n
<1> DEFINE Below == OpToRel(<, Nat)
<1>1. IsWellFoundedOn(Below, Nat) BY NatLessThanWellFounded, Zenon
<1>2. \A a, b \in Nat : a < b => <<a, b>> \in Below BY DEF OpToRel
<1> HIDE DEF Below
<1>3. \E m \in S : \A n \in S : ~(<<n, m>> \in Below) BY <1>1, WFMin
<1> QED BY <1>2, <1>3, NotAbove

(* Induction over the naturals, about a set instead of a predicate.        *)
LEMMA NatInduct ==
  ASSUME NEW S, 0 \in S, \A n \in Nat : n \in S => n + 1 \in S
  PROVE  Nat \subseteq S
<1> DEFINE rest == Nat \ S
<1> SUFFICES ASSUME rest # {} PROVE FALSE OBVIOUS
<1>1. PICK m \in rest : \A n \in rest : m <= n BY Least
<1>2. m # 0 /\ m - 1 \in Nat BY <1>1
<1>3. m - 1 \in S BY <1>1, <1>2
<1>4. (m - 1) + 1 = m BY <1>2
<1> QED BY <1>1, <1>2, <1>3, <1>4

-----------------------------------------------------------------------------
(* The sum of a function over a finite set.  MapThenSumSet folds by taking *)
(* one element after the other away, in an order that CHOOSE gives.        *)
Total(f, S) == MapThenSumSet(LAMBDA x : f[x], S)

OneOf(T)     == CHOOSE x \in T : TRUE
Remaining(T) == T \ {OneOf(T)}

(* What holds of the empty set, and of a set if of its rest, holds of S.   *)
LEMMA FoldInduct ==
  ASSUME NEW S, IsFiniteSet(S), NEW P, {} \in P,
         \A T \in SUBSET S : T # {} /\ Remaining(T) \in P => T \in P
  PROVE  S \in P
<1> DEFINE Good == {n \in Nat : \A T \in SUBSET S : Cardinality(T) = n => T \in P}
<1>1. \A T \in SUBSET S : IsFiniteSet(T) /\ Cardinality(T) \in Nat BY FS_Subset, FS_CardinalityType
<1>2. 0 \in Good
  <2> SUFFICES ASSUME NEW T \in SUBSET S, Cardinality(T) = 0 PROVE T \in P OBVIOUS
  <2>1. T = {} BY <1>1, FS_EmptySet
  <2> QED BY <2>1
<1>3. \A n \in Nat : n \in Good => n + 1 \in Good
  <2> SUFFICES ASSUME NEW n \in Nat, n \in Good, NEW T \in SUBSET S, Cardinality(T) = n + 1
               PROVE  T \in P
    OBVIOUS
  <2>1. T # {} BY <1>1, FS_EmptySet
  <2>2. OneOf(T) \in T BY <2>1 DEF OneOf
  <2>3. Cardinality(Remaining(T)) = n
    <3>1. IsFiniteSet(T) BY <1>1
    <3>2. Cardinality(T \ {OneOf(T)}) = Cardinality(T) - 1 BY <2>2, <3>1, FS_RemoveElement
    <3> QED BY <3>2 DEF Remaining
  <2>4. Remaining(T) \in SUBSET S BY DEF Remaining
  <2> QED BY <2>1, <2>3, <2>4
<1>4. Nat \subseteq Good
  <2> HIDE DEF Good
  <2> QED BY <1>2, <1>3, NatInduct
<1>5. Cardinality(S) \in Good BY <1>1, <1>4
<1> QED BY <1>5

(* The function that the fold is defined by.                               *)
IsFold(it, f, S) ==
  it = [T \in SUBSET S |-> IF T = {} THEN 0 ELSE f[OneOf(T)] + it[Remaining(T)]]

(* It exists: it is built up from the smaller sets to the larger ones.     *)
LEMMA FoldExists ==
  ASSUME NEW S, IsFiniteSet(S), NEW f
  PROVE  \E it : IsFold(it, f, S)
<1> DEFINE Upto(n) == {T \in SUBSET S : Cardinality(T) <= n}
           Step(h, T) == IF T = {} THEN 0 ELSE f[OneOf(T)] + h[Remaining(T)]
           Good == {n \in Nat : \E h : h = [T \in Upto(n) |-> Step(h, T)]}
<1>1. \A T \in SUBSET S : IsFiniteSet(T) /\ Cardinality(T) \in Nat BY FS_Subset, FS_CardinalityType
<1>2. \A n \in Nat : \A T \in Upto(n + 1) : T # {} => Remaining(T) \in Upto(n)
  <2> SUFFICES ASSUME NEW n \in Nat, NEW T \in SUBSET S, Cardinality(T) <= n + 1, T # {}
               PROVE  Remaining(T) \in Upto(n)
    OBVIOUS
  <2>1. OneOf(T) \in T BY DEF OneOf
  <2>2. IsFiniteSet(T) BY <1>1
  <2>3. Cardinality(T \ {OneOf(T)}) = Cardinality(T) - 1 BY <2>1, <2>2, FS_RemoveElement
  <2>4. Cardinality(T) \in Nat BY <1>1
  <2> QED BY <2>3, <2>4 DEF Remaining
<1>3. 0 \in Good
  <2>1. \A T \in Upto(0) : T = {}
    <3> SUFFICES ASSUME NEW T \in SUBSET S, Cardinality(T) <= 0 PROVE T = {} OBVIOUS
    <3>1. Cardinality(T) = 0 BY <1>1
    <3> QED BY <1>1, <3>1, FS_EmptySet
  <2> DEFINE h == [T \in Upto(0) |-> 0]
  <2>2. h = [T \in Upto(0) |-> Step(h, T)] BY <2>1
  <2> QED BY <2>2
<1>4. \A n \in Nat : n \in Good => n + 1 \in Good
  <2> HIDE DEF Step, Upto
  <2> SUFFICES ASSUME NEW n \in Nat, NEW h, h = [T \in Upto(n) |-> Step(h, T)]
               PROVE  \E g : g = [T \in Upto(n + 1) |-> Step(g, T)]
    OBVIOUS
  <2> USE DEF Step, Upto
  <2> DEFINE g == [T \in Upto(n + 1) |-> Step(h, T)]
  <2>1. \A T \in Upto(n) : T \in Upto(n + 1) BY <1>1
  <2>2. \A T \in Upto(n) : g[T] = h[T]
    <3> SUFFICES ASSUME NEW T \in Upto(n) PROVE g[T] = h[T] OBVIOUS
    <3>1. g[T] = Step(h, T) BY <2>1
    <3> HIDE DEF Step, Upto, g
    <3>2. h[T] = Step(h, T) OBVIOUS
    <3> QED BY <3>1, <3>2
  <2>3. \A T \in Upto(n + 1) : Step(g, T) = Step(h, T)
    <3> HIDE DEF Upto, g
    <3> QED BY <1>2, <2>2
  <2> HIDE DEF Step, Upto
  <2>4. g = [T \in Upto(n + 1) |-> Step(g, T)] BY <2>3
  <2> QED BY <2>4
<1>5. Cardinality(S) \in Good
  <2>1. Nat \subseteq Good
    <3> HIDE DEF Good
    <3> QED BY <1>3, <1>4, NatInduct
  <2> QED BY <1>1, <2>1
<1>6. Upto(Cardinality(S)) = SUBSET S BY FS_Subset
<1> HIDE DEF Upto
<1> QED BY <1>5, <1>6 DEF IsFold

LEMMA TotalIsFold ==
  ASSUME NEW S, IsFiniteSet(S), NEW f
  PROVE  \E it : IsFold(it, f, S) /\ Total(f, S) = it[S]
<1> DEFINE it == CHOOSE it : IsFold(it, f, S)
<1>1. IsFold(it, f, S) BY FoldExists
<1>2. Total(f, S) = it[S] BY DEF Total, MapThenSumSet, MapThenFoldSet, IsFold, OneOf, Remaining
<1> QED BY <1>1, <1>2

LEMMA FoldStep ==
  ASSUME NEW S, NEW f, NEW it, IsFold(it, f, S)
  PROVE  /\ it[{}] = 0
         /\ \A T \in SUBSET S : T # {} =>
              /\ it[T] = f[OneOf(T)] + it[Remaining(T)]
              /\ OneOf(T) \in T /\ Remaining(T) \in SUBSET S
BY DEF IsFold, OneOf, Remaining

(* A sum of naturals is a natural, and nothing adds up to nothing.         *)
LEMMA TotalOfNothing ==
  ASSUME NEW S, IsFiniteSet(S), NEW f, \A x \in S : f[x] = 0
  PROVE  Total(f, S) = 0
<1>1. PICK it : IsFold(it, f, S) /\ Total(f, S) = it[S] BY TotalIsFold
<1> DEFINE P == {T \in SUBSET S : it[T] = 0}
<1>2. {} \in P BY <1>1, FoldStep
<1>3. \A T \in SUBSET S : T # {} /\ Remaining(T) \in P => T \in P
  <2> SUFFICES ASSUME NEW T \in SUBSET S, T # {}, Remaining(T) \in P PROVE it[T] = 0 OBVIOUS
  <2>1. it[T] = f[OneOf(T)] + it[Remaining(T)] /\ OneOf(T) \in T BY <1>1, FoldStep
  <2> QED BY <2>1
<1>4. S \in P
  <2> HIDE DEF P
  <2> QED BY <1>2, <1>3, FoldInduct
<1> QED BY <1>1, <1>4

(* One more at one place is one more in the sum of a set that has the      *)
(* place, and nothing in the sum of another one.                           *)
LEMMA TotalAdds ==
  ASSUME NEW S, IsFiniteSet(S), NEW f, NEW g, NEW c,
         \A x \in S : f[x] \in Nat /\ g[x] = f[x] + (IF x = c THEN 1 ELSE 0)
  PROVE  /\ Total(f, S) \in Nat
         /\ Total(g, S) = Total(f, S) + (IF c \in S THEN 1 ELSE 0)
<1>1. PICK it : IsFold(it, f, S) /\ Total(f, S) = it[S] BY TotalIsFold
<1>2. PICK jt : IsFold(jt, g, S) /\ Total(g, S) = jt[S] BY TotalIsFold
<1> DEFINE P == {T \in SUBSET S : it[T] \in Nat /\ jt[T] = it[T] + (IF c \in T THEN 1 ELSE 0)}
<1>3. {} \in P BY <1>1, <1>2, FoldStep
<1>4. \A T \in SUBSET S : T # {} /\ Remaining(T) \in P => T \in P
  <2> SUFFICES ASSUME NEW T \in SUBSET S, T # {}, Remaining(T) \in P PROVE T \in P OBVIOUS
  <2>1. it[T] = f[OneOf(T)] + it[Remaining(T)] /\ OneOf(T) \in T BY <1>1, FoldStep
  <2>2. jt[T] = g[OneOf(T)] + jt[Remaining(T)] BY <1>2, FoldStep
  <2>3. CASE OneOf(T) = c
    <3>1. c \in T /\ c \notin Remaining(T) BY <2>1, <2>3 DEF Remaining
    <3>2. jt[Remaining(T)] = it[Remaining(T)] /\ it[Remaining(T)] \in Nat BY <3>1
    <3>3. g[OneOf(T)] = f[OneOf(T)] + 1 /\ f[OneOf(T)] \in Nat BY <2>1, <2>3
    <3> QED BY <2>1, <2>2, <3>1, <3>2, <3>3
  <2>4. CASE OneOf(T) # c
    <3>1. c \in T <=> c \in Remaining(T) BY <2>1, <2>4 DEF Remaining
    <3>2. g[OneOf(T)] = f[OneOf(T)] /\ f[OneOf(T)] \in Nat BY <2>1, <2>4
    <3> QED BY <2>1, <2>2, <3>1, <3>2
  <2> QED BY <2>3, <2>4
<1>5. S \in P
  <2> HIDE DEF P
  <2> QED BY <1>3, <1>4, FoldInduct
<1> QED BY <1>1, <1>2, <1>5

LEMMA TotalIsNatural ==
  ASSUME NEW S, IsFiniteSet(S), NEW f, \A x \in S : f[x] \in Nat
  PROVE  Total(f, S) \in Nat
<1>1. PICK it : IsFold(it, f, S) /\ Total(f, S) = it[S] BY TotalIsFold
<1> DEFINE P == {T \in SUBSET S : it[T] \in Nat}
<1>2. {} \in P BY <1>1, FoldStep
<1>3. \A T \in SUBSET S : T # {} /\ Remaining(T) \in P => T \in P
  <2> SUFFICES ASSUME NEW T \in SUBSET S, T # {}, Remaining(T) \in P PROVE it[T] \in Nat OBVIOUS
  <2>1. it[T] = f[OneOf(T)] + it[Remaining(T)] /\ OneOf(T) \in T BY <1>1, FoldStep
  <2> QED BY <2>1
<1>4. S \in P
  <2> HIDE DEF P
  <2> QED BY <1>2, <1>3, FoldInduct
<1> QED BY <1>1, <1>4

(* Multiplication by a successor.                                          *)
LEMMA OneMore == \A m, i \in Nat : m * (i + 1) = m * i + m /\ m * i \in Nat
OBVIOUS

-----------------------------------------------------------------------------
(* Induction over sequences, about a set of sequences.                     *)
LEMMA SeqInduct ==
  ASSUME NEW X, NEW P, <<>> \in P,
         \A s \in Seq(X) : \A e \in X : s \in P => Append(s, e) \in P
  PROVE  Seq(X) \subseteq P
<1> DEFINE Good == {n \in Nat : \A s \in Seq(X) : Len(s) = n => s \in P}
<1>1. 0 \in Good BY EmptySeq
<1>2. \A n \in Nat : n \in Good => n + 1 \in Good
  <2> SUFFICES ASSUME NEW n \in Nat, n \in Good, NEW s \in Seq(X), Len(s) = n + 1
               PROVE  s \in P
    OBVIOUS
  <2>1. PICK t \in Seq(X), e \in X : s = Append(t, e) BY EmptySeq, SequenceEmptyOrAppend
  <2>2. Len(t) = n BY <2>1, AppendProperties, LenProperties
  <2> QED BY <2>1, <2>2
<1>3. Nat \subseteq Good
  <2> HIDE DEF Good
  <2> QED BY <1>1, <1>2, NatInduct
<1> QED BY <1>3, LenProperties

-----------------------------------------------------------------------------
(* Among: the recursive function that it is defined by exists, and adds    *)
(* one element after the other.                                            *)
Grown(kept, e, S) == IF e \in S THEN Append(kept, e) ELSE kept
Collects(h, seq, S, n) ==
  h = [k \in 0 .. n |-> IF k = 0 THEN <<>> ELSE Grown(h[k - 1], seq[k], S)]

LEMMA CollectsNone ==
  ASSUME NEW seq, NEW S, NEW n, n \in Nat, NEW h, Collects(h, seq, S, n)
  PROVE  h[0] = <<>>
BY DEF Collects

Recurs(h, seq, S, n) ==
  \A k \in Nat : k + 1 <= n => h[k + 1] = Grown(h[k], seq[k + 1], S)

LEMMA CollectsOne ==
  ASSUME NEW seq, NEW S, NEW n, n \in Nat, NEW h, Collects(h, seq, S, n)
  PROVE  Recurs(h, seq, S, n)
<1> SUFFICES ASSUME NEW k \in Nat, k + 1 <= n PROVE h[k + 1] = Grown(h[k], seq[k + 1], S)
  BY DEF Recurs
<1>1. k + 1 \in 0 .. n /\ k + 1 # 0 /\ (k + 1) - 1 = k OBVIOUS
<1>2. h[k + 1] = Grown(h[(k + 1) - 1], seq[k + 1], S) BY <1>1 DEF Collects
<1> QED BY <1>1, <1>2

LEMMA CollectsExists ==
  ASSUME NEW seq, NEW S, NEW n, n \in Nat
  PROVE  \E h : Collects(h, seq, S, n)
<1> DEFINE Good == {k \in Nat : \E h : Collects(h, seq, S, k)}
           Step(h, j) == IF j = 0 THEN <<>> ELSE Grown(h[j - 1], seq[j], S)
<1>1. 0 \in Good
  <2> DEFINE h == [k \in 0 .. 0 |-> <<>>]
  <2>1. Collects(h, seq, S, 0) BY DEF Collects
  <2> QED BY <2>1
<1>2. \A k \in Nat : k \in Good => k + 1 \in Good
  <2> SUFFICES ASSUME NEW k \in Nat, NEW h, Collects(h, seq, S, k)
               PROVE  \E g : Collects(g, seq, S, k + 1)
    OBVIOUS
  <2> DEFINE g == [j \in 0 .. k + 1 |-> Step(h, j)]
  <2>1. \A j \in 0 .. k : g[j] = h[j]
    <3>1. \A j \in 0 .. k : h[j] = Step(h, j) BY DEF Collects
    <3>2. \A j \in 0 .. k : j \in 0 .. k + 1 OBVIOUS
    <3> HIDE DEF Step
    <3> QED BY <3>1, <3>2
  <2>2. \A j \in 0 .. k + 1 : Step(g, j) = Step(h, j)
    <3> HIDE DEF g
    <3>1. \A j \in 0 .. k + 1 : j = 0 \/ j - 1 \in 0 .. k OBVIOUS
    <3> QED BY <2>1, <3>1
  <2>3. g = [j \in 0 .. k + 1 |-> Step(g, j)]
    <3> HIDE DEF Step
    <3> QED BY <2>2
  <2> QED BY <2>3 DEF Collects
<1>3. Nat \subseteq Good
  <2> HIDE DEF Good
  <2> QED BY <1>1, <1>2, NatInduct
<1> QED BY <1>3

LEMMA AmongCollects ==
  ASSUME NEW seq, NEW S, NEW n, n \in Nat, n = Len(seq)
  PROVE  \E h : Collects(h, seq, S, n) /\ Among(seq, S) = h[n]
<1> DEFINE h == CHOOSE h : Collects(h, seq, S, n)
<1>1. Collects(h, seq, S, n) BY CollectsExists
<1>2. Among(seq, S) = h[n] BY DEF Among, Collects, Grown
<1> QED BY <1>1, <1>2

LEMMA AmongEmpty == \A S : Among(<<>>, S) = <<>>
<1> SUFFICES ASSUME NEW S PROVE Among(<<>>, S) = <<>> OBVIOUS
<1>1. PICK m : m \in Nat /\ m = Len(<<>>) OBVIOUS
<1>2. PICK h : Collects(h, <<>>, S, m) /\ Among(<<>>, S) = h[m] BY <1>1, AmongCollects
<1>3. h[0] = <<>> BY <1>1, <1>2, CollectsNone
<1>4. m = 0 BY <1>1
<1> QED BY <1>2, <1>3, <1>4

LEMMA AmongLonger ==
  ASSUME NEW S, NEW seq, NEW longer, NEW n, n \in Nat, n = Len(seq), Len(longer) = n + 1,
         \A i \in 1 .. n : longer[i] = seq[i]
  PROVE  Among(longer, S) = Grown(Among(seq, S), longer[n + 1], S)
<1>1. PICK h : Collects(h, seq, S, n) /\ Among(seq, S) = h[n] BY AmongCollects
<1>2. PICK m : m \in Nat /\ m = n + 1 OBVIOUS
<1>3. PICK g : Collects(g, longer, S, m) /\ Among(longer, S) = g[m]
  <2>1. Len(longer) = m BY <1>2
  <2> QED BY <1>2, <2>1, AmongCollects
<1>4. \A k \in Nat : k + 1 <= n => h[k + 1] = Grown(h[k], seq[k + 1], S)
  <2>1. Recurs(h, seq, S, n) BY <1>1, CollectsOne
  <2> QED BY <2>1 DEF Recurs
<1>5. \A k \in Nat : k + 1 <= m => g[k + 1] = Grown(g[k], longer[k + 1], S)
  <2>1. Recurs(g, longer, S, m) BY <1>2, <1>3, CollectsOne
  <2> QED BY <2>1 DEF Recurs
<1> DEFINE Good == {k \in Nat : k <= n => g[k] = h[k]}
<1>6. 0 \in Good
  <2>1. h[0] = <<>> BY <1>1, CollectsNone
  <2>2. g[0] = <<>> BY <1>2, <1>3, CollectsNone
  <2> QED BY <2>1, <2>2
<1>7. \A k \in Nat : k \in Good => k + 1 \in Good
  <2> SUFFICES ASSUME NEW k \in Nat, k \in Good PROVE k + 1 <= n => g[k + 1] = h[k + 1] OBVIOUS
  <2> SUFFICES ASSUME k + 1 <= n PROVE g[k + 1] = h[k + 1] OBVIOUS
  <2>1. g[k] = h[k] /\ k + 1 \in 1 .. n /\ k + 1 <= m BY <1>2
  <2>2. longer[k + 1] = seq[k + 1] BY <2>1
  <2> QED BY <1>4, <1>5, <2>1, <2>2
<1>8. g[n] = h[n]
  <2>1. Nat \subseteq Good
    <3> HIDE DEF Good
    <3> QED BY <1>6, <1>7, NatInduct
  <2> QED BY <2>1
<1>9. g[n + 1] = Grown(g[n], longer[n + 1], S) BY <1>2, <1>5
<1> QED BY <1>1, <1>2, <1>3, <1>8, <1>9

LEMMA AmongAppend ==
  ASSUME NEW X, NEW seq \in Seq(X), NEW e \in X, NEW S
  PROVE  Among(Append(seq, e), S) = IF e \in S THEN Append(Among(seq, S), e) ELSE Among(seq, S)
<1>1. PICK n : n \in Nat /\ n = Len(seq) BY LenProperties
<1>2. PICK longer : longer = Append(seq, e) OBVIOUS
<1>3. /\ Len(longer) = n + 1 /\ longer[n + 1] = e
      /\ \A i \in 1 .. n : longer[i] = seq[i]
  BY <1>1, <1>2, AppendProperties
<1>4. Among(longer, S) = Grown(Among(seq, S), longer[n + 1], S) BY <1>1, <1>3, AmongLonger
<1> QED BY <1>2, <1>3, <1>4 DEF Grown

(* What is chosen are the elements that are in the set.                    *)
LEMMA ToSetAppend ==
  ASSUME NEW X, NEW s, s \in Seq(X), NEW e, e \in X
  PROVE  ToSet(Append(s, e)) = ToSet(s) \cup {e}
<1>1. /\ Len(Append(s, e)) = Len(s) + 1 /\ Len(s) \in Nat
      /\ \A i \in 1 .. Len(s) : Append(s, e)[i] = s[i]
      /\ Append(s, e)[Len(s) + 1] = e
  BY AppendProperties, LenProperties
<1>2. DOMAIN Append(s, e) = 1 .. Len(s) + 1 /\ DOMAIN s = 1 .. Len(s)
  BY AppendProperties, LenProperties
<1> QED BY <1>1, <1>2 DEF ToSet

LEMMA AmongElements ==
  ASSUME NEW X, NEW seq, seq \in Seq(X), NEW S
  PROVE  Among(seq, S) \in Seq(X) /\ ToSet(Among(seq, S)) = ToSet(seq) \cap S
<1> DEFINE Good == {s \in Seq(X) : Among(s, S) \in Seq(X) /\ ToSet(Among(s, S)) = ToSet(s) \cap S}
<1>1. <<>> \in Good
  <2>1. Among(<<>>, S) = <<>> BY AmongEmpty
  <2>2. <<>> \in Seq(X) /\ DOMAIN <<>> = {} BY EmptySeq
  <2>3. ToSet(<<>>) = {} BY <2>2 DEF ToSet
  <2> QED BY <2>1, <2>2, <2>3
<1>2. \A s \in Seq(X) : \A e \in X : s \in Good => Append(s, e) \in Good
  <2> SUFFICES ASSUME NEW s \in Seq(X), NEW e \in X, s \in Good PROVE Append(s, e) \in Good OBVIOUS
  <2>1. Append(s, e) \in Seq(X) BY AppendProperties
  <2>2. Among(Append(s, e), S) = IF e \in S THEN Append(Among(s, S), e) ELSE Among(s, S)
    BY AmongAppend
  <2>3. Among(s, S) \in Seq(X) /\ ToSet(Among(s, S)) = ToSet(s) \cap S OBVIOUS
  <2>4. ToSet(Append(s, e)) = ToSet(s) \cup {e} BY ToSetAppend
  <2>5. ToSet(Append(Among(s, S), e)) = ToSet(Among(s, S)) \cup {e} BY ToSetAppend, <2>3
  <2>6. CASE e \in S
    <3>1. Among(Append(s, e), S) = Append(Among(s, S), e) BY <2>2, <2>6
    <3>2. Append(Among(s, S), e) \in Seq(X) BY <2>3, AppendProperties
    <3>3. ToSet(Append(Among(s, S), e)) = ToSet(Append(s, e)) \cap S
      BY <2>3, <2>4, <2>5, <2>6
    <3> QED BY <2>1, <3>1, <3>2, <3>3
  <2>7. CASE e \notin S BY <2>1, <2>2, <2>3, <2>4, <2>7
  <2> QED BY <2>6, <2>7
<1>3. seq \in Good
  <2> HIDE DEF Good
  <2> QED BY <1>1, <1>2, SeqInduct
<1> QED BY <1>3

(* Among goes through a concatenation part by part.                        *)
LEMMA AmongConcat ==
  ASSUME NEW X, NEW s, s \in Seq(X), NEW t, t \in Seq(X), NEW S
  PROVE  Among(s \o t, S) = Among(s, S) \o Among(t, S)
<1> DEFINE Good == {u \in Seq(X) : Among(s \o u, S) = Among(s, S) \o Among(u, S)}
<1>0. Among(s, S) \in Seq(X) BY AmongElements
<1>1. <<>> \in Good
  <2>1. s \o <<>> = s /\ Among(s, S) \o <<>> = Among(s, S) BY <1>0, ConcatEmptySeq
  <2>2. Among(<<>>, S) = <<>> BY AmongEmpty
  <2>3. <<>> \in Seq(X) BY EmptySeq
  <2> QED BY <2>1, <2>2, <2>3
<1>2. \A u \in Seq(X) : \A e \in X : u \in Good => Append(u, e) \in Good
  <2> SUFFICES ASSUME NEW u \in Seq(X), NEW e \in X, u \in Good PROVE Append(u, e) \in Good OBVIOUS
  <2>1. Append(u, e) \in Seq(X) BY AppendProperties
  <2>2. Among(u, S) \in Seq(X) BY AmongElements
  <2>3. s \o u \in Seq(X) /\ s \o Append(u, e) = Append(s \o u, e) BY ConcatProperties
  <2>4. /\ Among(Append(u, e), S) = IF e \in S THEN Append(Among(u, S), e) ELSE Among(u, S)
        /\ Among(Append(s \o u, e), S)
             = IF e \in S THEN Append(Among(s \o u, S), e) ELSE Among(s \o u, S)
    <3>1. PICK w \in Seq(X) : w = s \o u BY <2>3
    <3>2. Among(Append(w, e), S) = IF e \in S THEN Append(Among(w, S), e) ELSE Among(w, S)
      BY AmongAppend
    <3>3. Among(Append(u, e), S) = IF e \in S THEN Append(Among(u, S), e) ELSE Among(u, S)
      BY AmongAppend
    <3> QED BY <3>1, <3>2, <3>3
  <2>5. Among(s, S) \o Append(Among(u, S), e) = Append(Among(s, S) \o Among(u, S), e)
    BY <1>0, <2>2
  <2>6. Among(s \o u, S) = Among(s, S) \o Among(u, S) OBVIOUS
  <2>7. Among(s \o Append(u, e), S) = Among(s, S) \o Among(Append(u, e), S)
    BY <2>3, <2>4, <2>5, <2>6
  <2> QED BY <2>1, <2>7
<1>3. t \in Good
  <2> HIDE DEF Good
  <2> QED BY <1>1, <1>2, SeqInduct
<1> QED BY <1>3

(* It asks nothing of S but which elements of the sequence are in it.      *)
LEMMA AmongSame ==
  ASSUME NEW X, NEW s, s \in Seq(X), NEW S, NEW T, ToSet(s) \cap S = ToSet(s) \cap T
  PROVE  Among(s, S) = Among(s, T)
<1> DEFINE Good == {u \in Seq(X) : ToSet(u) \cap S = ToSet(u) \cap T => Among(u, S) = Among(u, T)}
<1>1. <<>> \in Good
  <2>1. <<>> \in Seq(X) BY EmptySeq
  <2> QED BY <2>1, AmongEmpty
<1>2. \A u \in Seq(X) : \A e \in X : u \in Good => Append(u, e) \in Good
  <2> SUFFICES ASSUME NEW u \in Seq(X), NEW e \in X, u \in Good,
                      ToSet(Append(u, e)) \cap S = ToSet(Append(u, e)) \cap T
               PROVE  Append(u, e) \in Seq(X) /\ Among(Append(u, e), S) = Among(Append(u, e), T)
    OBVIOUS
  <2>1. Append(u, e) \in Seq(X) BY AppendProperties
  <2>2. ToSet(Append(u, e)) = ToSet(u) \cup {e} BY ToSetAppend
  <2>3. Among(u, S) = Among(u, T) /\ (e \in S <=> e \in T) BY <2>2
  <2>4. /\ Among(Append(u, e), S) = IF e \in S THEN Append(Among(u, S), e) ELSE Among(u, S)
        /\ Among(Append(u, e), T) = IF e \in T THEN Append(Among(u, T), e) ELSE Among(u, T)
    BY AmongAppend
  <2> QED BY <2>1, <2>3, <2>4
<1>3. s \in Good
  <2> HIDE DEF Good
  <2> QED BY <1>1, <1>2, SeqInduct
<1> QED BY <1>3

LEMMA AmongAll ==
  ASSUME NEW X, NEW s, s \in Seq(X), NEW S, ToSet(s) \subseteq S
  PROVE  Among(s, S) = s
<1> DEFINE Good == {u \in Seq(X) : ToSet(u) \subseteq S => Among(u, S) = u}
<1>1. <<>> \in Good
  <2>1. <<>> \in Seq(X) BY EmptySeq
  <2> QED BY <2>1, AmongEmpty
<1>2. \A u \in Seq(X) : \A e \in X : u \in Good => Append(u, e) \in Good
  <2> SUFFICES ASSUME NEW u \in Seq(X), NEW e \in X, u \in Good, ToSet(Append(u, e)) \subseteq S
               PROVE  Append(u, e) \in Seq(X) /\ Among(Append(u, e), S) = Append(u, e)
    OBVIOUS
  <2>1. Append(u, e) \in Seq(X) BY AppendProperties
  <2>2. ToSet(Append(u, e)) = ToSet(u) \cup {e} BY ToSetAppend
  <2>3. Among(u, S) = u /\ e \in S BY <2>2
  <2>4. Among(Append(u, e), S) = IF e \in S THEN Append(Among(u, S), e) ELSE Among(u, S)
    BY AmongAppend
  <2> QED BY <2>1, <2>3, <2>4
<1>3. s \in Good
  <2> HIDE DEF Good
  <2> QED BY <1>1, <1>2, SeqInduct
<1> QED BY <1>3

(* Where an element is among those chosen: as far from the end as there    *)
(* are chosen ones after it.                                               *)
Later(seq, S, i) == {j \in DOMAIN seq : j > i /\ seq[j] \in S}
Count(seq, S, i) == Cardinality(Later(seq, S, i))
PlacedAt(seq, S, i) ==
  /\ IsFiniteSet(Later(seq, S, i)) /\ Count(seq, S, i) < Len(Among(seq, S))
  /\ Among(seq, S)[Len(Among(seq, S)) - Count(seq, S, i)] = seq[i]

LEMMA LaterAppend ==
  ASSUME NEW X, NEW s, s \in Seq(X), NEW e, e \in X, NEW S, NEW i, i \in 1 .. Len(s),
         IsFiniteSet(Later(s, S, i))
  PROVE  /\ IsFiniteSet(Later(Append(s, e), S, i))
         /\ Count(Append(s, e), S, i) = Count(s, S, i) + (IF e \in S THEN 1 ELSE 0)
<1>1. PICK n : n \in Nat /\ n = Len(s) BY LenProperties
<1>2. /\ DOMAIN s = 1 .. n /\ DOMAIN Append(s, e) = 1 .. n + 1
      /\ \A j \in 1 .. n : Append(s, e)[j] = s[j]
      /\ Append(s, e)[n + 1] = e
  BY <1>1, AppendProperties, LenProperties
<1>3. PICK A : A = Later(s, S, i) OBVIOUS
<1>4. IsFiniteSet(A) /\ Cardinality(A) \in Nat BY <1>3, FS_CardinalityType
<1>5. CASE e \in S
  <2>1. n + 1 \notin A BY <1>1, <1>2, <1>3 DEF Later
  <2>2. \A j \in 1 .. n + 1 : j \in 1 .. n \/ j = n + 1 BY <1>1
  <2>3. n + 1 > i /\ \A j \in 1 .. n : j \in 1 .. n + 1 BY <1>1
  <2>4. Later(Append(s, e), S, i) = A \cup {n + 1}
    BY <1>1, <1>2, <1>3, <1>5, <2>2, <2>3 DEF Later
  <2>5. IsFiniteSet(A \cup {n + 1}) /\ Cardinality(A \cup {n + 1}) = Cardinality(A) + 1
    BY <1>4, <2>1, FS_AddElement
  <2> QED BY <1>3, <1>5, <2>4, <2>5 DEF Count
<1>6. CASE e \notin S
  <2>1. \A j \in 1 .. n + 1 : j \in 1 .. n \/ j = n + 1 BY <1>1
  <2>2. \A j \in 1 .. n : j \in 1 .. n + 1 BY <1>1
  <2>3. Later(Append(s, e), S, i) = A BY <1>2, <1>3, <1>6, <2>1, <2>2 DEF Later
  <2> QED BY <1>3, <1>4, <1>6, <2>3 DEF Count
<1> QED BY <1>5, <1>6

LEMMA LaterLast ==
  ASSUME NEW s, NEW S, NEW n, n \in Nat, DOMAIN s = 1 .. n
  PROVE  IsFiniteSet(Later(s, S, n)) /\ Count(s, S, n) = 0
<1>1. Later(s, S, n) = {} BY DEF Later
<1> QED BY <1>1, FS_EmptySet DEF Count

LEMMA AmongPlaced ==
  ASSUME NEW X, NEW seq, seq \in Seq(X), NEW S
  PROVE  \A i \in 1 .. Len(seq) : seq[i] \in S => PlacedAt(seq, S, i)
<1> DEFINE Good == {s \in Seq(X) : \A i \in 1 .. Len(s) : s[i] \in S => PlacedAt(s, S, i)}
<1>1. <<>> \in Good
  <2>1. <<>> \in Seq(X) /\ Len(<<>>) = 0 BY EmptySeq
  <2> QED BY <2>1
<1>2. \A s \in Seq(X) : \A e \in X : s \in Good => Append(s, e) \in Good
  <2> SUFFICES ASSUME NEW s \in Seq(X), NEW e \in X, s \in Good PROVE Append(s, e) \in Good OBVIOUS
  <2>1. PICK n : n \in Nat /\ n = Len(s) BY LenProperties
  <2>2. /\ Append(s, e) \in Seq(X) /\ Len(Append(s, e)) = n + 1 /\ DOMAIN Append(s, e) = 1 .. n + 1
        /\ \A j \in 1 .. n : Append(s, e)[j] = s[j]
        /\ Append(s, e)[n + 1] = e
    BY <2>1, AppendProperties, LenProperties
  <2>3. Among(s, S) \in Seq(X) BY AmongElements
  <2>4. PICK a, m : a = Among(s, S) /\ m = Len(a) /\ m \in Nat BY <2>3, LenProperties
  <2>5. Among(Append(s, e), S) = IF e \in S THEN Append(a, e) ELSE a BY <2>4, AmongAppend
  <2>6. /\ Len(Append(a, e)) = m + 1 /\ Append(a, e)[m + 1] = e
        /\ \A j \in 1 .. m : Append(a, e)[j] = a[j]
    BY <2>3, <2>4, AppendProperties
  <2>7. ASSUME NEW i \in 1 .. n + 1, Append(s, e)[i] \in S PROVE PlacedAt(Append(s, e), S, i)
    <3>1. CASE i = n + 1
      <4>1. e \in S BY <2>2, <2>7, <3>1
      <4>2. IsFiniteSet(Later(Append(s, e), S, i)) /\ Count(Append(s, e), S, i) = 0
        <5>1. PICK k : k = n + 1 /\ k \in Nat BY <2>1
        <5> QED BY <2>2, <3>1, <5>1, LaterLast
      <4> QED BY <2>2, <2>4, <2>5, <2>6, <3>1, <4>1, <4>2 DEF PlacedAt
    <3>2. CASE i # n + 1
      <4>1. i \in 1 .. n BY <2>1, <3>2
      <4>2. Append(s, e)[i] = s[i] BY <2>2, <4>1
      <4>3. PlacedAt(s, S, i) BY <2>1, <2>7, <4>1, <4>2
      <4>4. PICK k : k = Count(s, S, i) /\ k \in Nat
        BY <4>3, FS_CardinalityType DEF PlacedAt, Count
      <4>5. k < m /\ a[m - k] = s[i] /\ IsFiniteSet(Later(s, S, i)) BY <2>4, <4>3, <4>4 DEF PlacedAt
      <4>6. /\ IsFiniteSet(Later(Append(s, e), S, i))
            /\ Count(Append(s, e), S, i) = k + (IF e \in S THEN 1 ELSE 0)
        BY <2>1, <4>1, <4>4, <4>5, LaterAppend
      <4>7. CASE e \in S
        <5>1. Among(Append(s, e), S) = Append(a, e) /\ Count(Append(s, e), S, i) = k + 1
          BY <2>5, <4>6, <4>7
        <5>2. k + 1 < m + 1 /\ (m + 1) - (k + 1) = m - k /\ m - k \in 1 .. m
          BY <2>4, <4>4, <4>5
        <5>3. Append(a, e)[(m + 1) - (k + 1)] = s[i] BY <2>6, <4>5, <5>2
        <5> QED BY <2>6, <4>2, <4>6, <5>1, <5>2, <5>3 DEF PlacedAt
      <4>8. CASE e \notin S
        <5>1. Among(Append(s, e), S) = a /\ Count(Append(s, e), S, i) = k
          BY <2>5, <4>4, <4>6, <4>8
        <5> QED BY <2>4, <4>2, <4>5, <4>6, <5>1 DEF PlacedAt
      <4> QED BY <4>7, <4>8
    <3> QED BY <3>1, <3>2
  <2> QED BY <2>2, <2>7
<1>3. seq \in Good
  <2> HIDE DEF Good
  <2> QED BY <1>1, <1>2, SeqInduct
<1> QED BY <1>3
=============================================================================
