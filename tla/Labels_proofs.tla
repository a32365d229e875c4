---------------------------- MODULE Labels_proofs ----------------------------
(***************************************************************************)
(* Proofs about labels, for schemas, edits, answers and evaluations of any *)
(* size: LabelSchema and LabelMetrics keep what they promise.  Sequences   *)
(* in order are built by induction on their length, as a least             *)
(* counterexample.  The invariant of the run is a corollary.               *)
(***************************************************************************)
EXTENDS MCProjectData, SequenceTheorems, FiniteSetTheorems, WellFoundedInduction, TLAPS

-----------------------------------------------------------------------------
(* Numbers and orders.                                                     *)

\* A set of naturals that is not empty has a least element.
LEMMA LeastNat ==
  ASSUME NEW T \in SUBSET Nat, T # {}
  PROVE  \E m \in T : \A k \in T : m <= k
<1>1. \E R : IsWellFoundedOn(R, Nat) /\ \A x, y \in Nat : <<x, y>> \in R <=> x < y
  <2> DEFINE R == OpToRel(<, Nat)
  <2>1. IsWellFoundedOn(R, Nat)
    BY NatLessThanWellFounded
  <2>2. \A x, y \in Nat : <<x, y>> \in R <=> x < y
    BY DEF OpToRel
  <2> HIDE DEF R
  <2> QED BY <2>1, <2>2
<1>2. ASSUME NEW R, IsWellFoundedOn(R, Nat), \A x, y \in Nat : <<x, y>> \in R <=> x < y
      PROVE  \E m \in T : \A k \in T : m <= k
  <2>1. T \subseteq Nat
    OBVIOUS
  <2>2. IsWellFoundedOn(R, Nat)
    BY <1>2
  <2>3. PICK m \in T : \A k \in T : ~ (<<k, m>> \in R)
    BY <2>1, <2>2, WFMin
  <2>4. \A k \in T : ~ (k < m)
    BY <1>2, <2>1, <2>3
  <2> QED BY <2>1, <2>4
<1> QED BY <1>1, <1>2

\* The number of those before is a number for each place of a sequence.
IsStrictOrder(R, S) ==
  /\ \A x \in S : <<x, x>> \notin R
  /\ \A x, y, z \in S : <<x, y>> \in R /\ <<y, z>> \in R => <<x, z>> \in R
  /\ \A x, y \in S : x # y => <<x, y>> \in R \/ <<y, x>> \in R

Place(x, S, R) == Cardinality({y \in S : <<y, x>> \in R})

\* What comes later in a strict order has more before it.
LEMMA RankGrows ==
  ASSUME NEW S, IsFiniteSet(S), NEW R, IsStrictOrder(R, S), NEW x \in S, NEW y \in S, <<x, y>> \in R
  PROVE  Place(x, S, R) < Place(y, S, R)
<1> DEFINE A == {z \in S : <<z, x>> \in R}
           B == {z \in S : <<z, y>> \in R}
<1>1. IsFiniteSet(B) /\ Cardinality(B) \in Nat
  BY FS_Subset, FS_CardinalityType
<1>2. A \in SUBSET B
  BY DEF IsStrictOrder
<1>3. x \in B /\ x \notin A
  BY DEF IsStrictOrder
<1>4. IsFiniteSet(A) /\ Cardinality(A) <= Cardinality(B) /\ (Cardinality(B) = Cardinality(A) => B = A)
  BY <1>1, <1>2, FS_Subset
<1>5. Cardinality(A) \in Nat
  BY <1>4, FS_CardinalityType
<1> QED BY <1>1, <1>3, <1>4, <1>5 DEF Place

\* Each place of a finite ordered set is taken: the least of those with as many
\* before it is found by induction.
LEMMA EveryRankIsTaken ==
  ASSUME NEW S, IsFiniteSet(S), NEW R, IsStrictOrder(R, S), NEW i \in 1..Cardinality(S)
  PROVE  \E x \in S : Place(x, S, R) = i - 1
<1> DEFINE n == Cardinality(S)
           rank == [x \in S |-> Place(x, S, R)]
<1>1. n \in Nat
  BY FS_CardinalityType
<1>2. rank \in [S -> 0..(n - 1)]
  <2> SUFFICES ASSUME NEW x \in S
               PROVE  Place(x, S, R) \in 0..(n - 1)
    OBVIOUS
  <2> DEFINE A == {z \in S : <<z, x>> \in R}
  <2>1. A \in SUBSET S /\ x \notin A
    BY DEF IsStrictOrder
  <2>2. IsFiniteSet(A) /\ Cardinality(A) <= n /\ (n = Cardinality(A) => S = A)
    BY <2>1, FS_Subset
  <2>3. Cardinality(A) \in Nat
    BY <2>2, FS_CardinalityType
  <2> QED BY <1>1, <2>1, <2>2, <2>3 DEF Place
<1>3. \A x, y \in S : x # y => rank[x] # rank[y]
  <2> SUFFICES ASSUME NEW x \in S, NEW y \in S, <<x, y>> \in R PROVE rank[x] # rank[y]
    BY DEF IsStrictOrder
  <2>1. Place(x, S, R) < Place(y, S, R)
    BY RankGrows
  <2>2. rank[x] < rank[y]
    BY <2>1
  <2>3. rank[x] \in 0..(n - 1) /\ rank[y] \in 0..(n - 1)
    BY <1>2
  <2> HIDE DEF rank, n
  <2> QED BY <1>1, <2>2, <2>3
<1>4. rank \in Injection(S, 0..(n - 1))
  BY <1>2, <1>3 DEF Injection, IsInjective
<1>5. IsFiniteSet(0..(n - 1)) /\ Cardinality(0..(n - 1)) = n
  <2> HIDE DEF n
  <2>1. 0 \in Int /\ n - 1 \in Int
    BY <1>1
  <2>2. IsFiniteSet(0..(n - 1)) /\ Cardinality(0..(n - 1)) = IF 0 > n - 1 THEN 0 ELSE (n - 1) - 0 + 1
    BY <2>1, FS_Interval
  <2> QED BY <1>1, <2>2
<1>6. rank \in Surjection(S, 0..(n - 1))
  <2> HIDE DEF rank
  <2> QED BY <1>4, <1>5, FS_Injection
<1>7. i - 1 \in 0..(n - 1)
  BY <1>1
<1>8. \E x \in S : rank[x] = i - 1
  <2> HIDE DEF rank
  <2> QED BY <1>6, <1>7 DEF Surjection
<1> QED BY <1>8

\* A set in an order, as Sorted has it: each element once, the order kept.
InOrderOf(s, S, R) ==
  /\ s \in [1..Cardinality(S) -> S]
  /\ \A x \in S : \E i \in 1..Cardinality(S) : s[i] = x
  /\ \A i, j \in 1..Cardinality(S) : i < j <=> <<s[i], s[j]>> \in R

\* A sequence of the set that puts each element at its place is in order.
LEMMA RankedIsInOrder ==
  ASSUME NEW S, IsFiniteSet(S), NEW R, IsStrictOrder(R, S), NEW s \in [1..Cardinality(S) -> S],
         \A i \in 1..Cardinality(S) : Place(s[i], S, R) = i - 1
  PROVE  InOrderOf(s, S, R)
<1> DEFINE n == Cardinality(S)
           rank(x) == Place(x, S, R)
<1>1. n \in Nat
  BY FS_CardinalityType
<1>2. \A i \in 1..n : s[i] \in S /\ rank(s[i]) = i - 1
  OBVIOUS
<1>3. \A x, y \in S : <<x, y>> \in R => rank(x) < rank(y)
  BY RankGrows
<1>4. \A x \in S : rank(x) \in Nat /\ rank(x) + 1 \in 1..n
  <2> SUFFICES ASSUME NEW x \in S PROVE rank(x) \in Nat /\ rank(x) + 1 \in 1..n
    OBVIOUS
  <2> DEFINE A == {z \in S : <<z, x>> \in R}
  <2>1. A \in SUBSET S /\ x \notin A
    BY DEF IsStrictOrder
  <2>2. IsFiniteSet(A) /\ Cardinality(A) <= n /\ (n = Cardinality(A) => S = A)
    BY <2>1, FS_Subset
  <2>3. Cardinality(A) \in Nat
    BY <2>2, FS_CardinalityType
  <2> QED BY <1>1, <2>1, <2>2, <2>3 DEF Place
<1>5. s \in [1..n -> S]
  BY <1>2
<1> HIDE DEF rank
<1>6. \A x, y \in S : x # y => rank(x) # rank(y)
  <2> SUFFICES ASSUME NEW x \in S, NEW y \in S, <<x, y>> \in R PROVE rank(x) # rank(y)
    BY DEF IsStrictOrder
  <2>1. rank(x) < rank(y) /\ rank(x) \in Nat /\ rank(y) \in Nat
    BY <1>3, <1>4
  <2> QED BY <2>1
<1>7. \A x \in S : \E i \in 1..n : s[i] = x
  <2> SUFFICES ASSUME NEW x \in S PROVE \E i \in 1..n : s[i] = x
    OBVIOUS
  <2>1. rank(x) \in Nat /\ rank(x) + 1 \in 1..n
    BY <1>4
  <2>2. s[rank(x) + 1] \in S /\ rank(s[rank(x) + 1]) = (rank(x) + 1) - 1
    BY <1>2, <2>1
  <2>3. rank(s[rank(x) + 1]) = rank(x)
    BY <2>1, <2>2
  <2> QED BY <2>1, <2>2, <2>3, <1>6
<1>8. \A i, j \in 1..n : i < j <=> <<s[i], s[j]>> \in R
  <2> SUFFICES ASSUME NEW i \in 1..n, NEW j \in 1..n PROVE i < j <=> <<s[i], s[j]>> \in R
    OBVIOUS
  <2>1. s[i] \in S /\ s[j] \in S /\ rank(s[i]) = i - 1 /\ rank(s[j]) = j - 1
    BY <1>2
  <2>2. CASE <<s[i], s[j]>> \in R
    BY <2>1, <2>2, <1>3, <1>1
  <2>3. CASE <<s[j], s[i]>> \in R
    BY <2>1, <2>3, <1>3, <1>1
  <2>4. CASE s[i] = s[j]
    BY <2>1, <2>4, <1>1 DEF IsStrictOrder
  <2> QED BY <2>1, <2>2, <2>3, <2>4 DEF IsStrictOrder
<1> QED BY <1>5, <1>7, <1>8 DEF InOrderOf

\* The positions Pos, from the first to the last.
InTurn(at, Pos) ==
  /\ Cardinality(Pos) \in Nat
  /\ at \in [1..Cardinality(Pos) -> Pos]
  /\ \A k \in Pos : \E i \in 1..Cardinality(Pos) : at[i] = k
  /\ \A i, j \in 1..Cardinality(Pos) : i < j <=> at[i] < at[j]

ReadsInTurn(at, seq, Pos) == AtPositions(seq, Pos) = [i \in 1..Cardinality(Pos) |-> seq[at[i]]]

\* AtPositions reads a sequence at the positions, from the first to the last.
LEMMA PositionsInTurn ==
  ASSUME NEW n \in Nat, NEW seq, NEW Pos \in SUBSET (1..n)
  PROVE  \E at : InTurn(at, Pos) /\ ReadsInTurn(at, seq, Pos)
<1> DEFINE c == Cardinality(Pos)
           at == [i \in 1..c |-> CHOOSE x \in Pos : Cardinality({y \in Pos : y < x}) = i - 1]
<1>1. IsFiniteSet(Pos)
  <2>1. IsFiniteSet(1..n)
    BY FS_Interval
  <2> QED BY <2>1, FS_Subset
<1>2. c \in Nat
  BY <1>1, FS_CardinalityType
<1>3. PICK R : R = {p \in Pos \X Pos : p[1] < p[2]}
  OBVIOUS
<1>4. \A x, y \in Pos : <<x, y>> \in R <=> x < y
  BY <1>3
<1>5. IsStrictOrder(R, Pos)
  <2>1. Pos \subseteq Int
    OBVIOUS
  <2> QED BY <1>4, <2>1 DEF IsStrictOrder
<1>6. \A x \in Pos : {y \in Pos : <<y, x>> \in R} = {y \in Pos : y < x}
  BY <1>4
<1>7. \A i \in 1..c : at[i] \in Pos /\ Cardinality({y \in Pos : y < at[i]}) = i - 1
  <2> SUFFICES ASSUME NEW i \in 1..c
               PROVE  at[i] \in Pos /\ Cardinality({y \in Pos : y < at[i]}) = i - 1
    OBVIOUS
  <2>1. PICK x \in Pos : Place(x, Pos, R) = i - 1
    BY <1>1, <1>5, EveryRankIsTaken
  <2>2. \E z \in Pos : Cardinality({y \in Pos : y < z}) = i - 1
    BY <2>1, <1>6 DEF Place
  <2>3. at[i] = CHOOSE z \in Pos : Cardinality({y \in Pos : y < z}) = i - 1
    OBVIOUS
  <2> HIDE DEF at
  <2> QED BY <2>2, <2>3
<1>8. AtPositions(seq, Pos) = [i \in 1..c |-> seq[at[i]]]
  BY DEF AtPositions, Sorted
<1>9. at \in [1..c -> Pos]
  BY <1>7
<1> HIDE DEF at
<1>10. \A i \in 1..c : Place(at[i], Pos, R) = i - 1
  BY <1>6, <1>7 DEF Place
<1>11. InOrderOf(at, Pos, R)
  BY <1>1, <1>5, <1>9, <1>10, RankedIsInOrder
<1>12. \A k \in Pos : \E i \in 1..c : at[i] = k
  BY <1>11 DEF InOrderOf
<1>13. \A i, j \in 1..c : i < j <=> at[i] < at[j]
  BY <1>4, <1>9, <1>11 DEF InOrderOf
<1>14. InTurn(at, Pos)
  BY <1>2, <1>9, <1>12, <1>13 DEF InTurn
<1>15. ReadsInTurn(at, seq, Pos)
  BY <1>8 DEF ReadsInTurn
<1> QED BY <1>14, <1>15

\* What AtPositions reads first is at the least position.
LEMMA FirstPosition ==
  ASSUME NEW n \in Nat, NEW seq, NEW Pos \in SUBSET (1..n), AtPositions(seq, Pos) # <<>>
  PROVE  \E k \in Pos : AtPositions(seq, Pos)[1] = seq[k] /\ \A j \in Pos : k <= j
<1>1. PICK at : InTurn(at, Pos) /\ AtPositions(seq, Pos) = [i \in 1..Cardinality(Pos) |-> seq[at[i]]]
  <2>1. PICK at : InTurn(at, Pos) /\ ReadsInTurn(at, seq, Pos)
    BY PositionsInTurn
  <2> QED BY <2>1 DEF ReadsInTurn
<1> DEFINE c == Cardinality(Pos)
<1>2. c \in Nat /\ at \in [1..c -> Pos] /\ \A k \in Pos : \E i \in 1..c : at[i] = k
  BY <1>1 DEF InTurn
<1>3. \A i, j \in 1..c : i < j <=> at[i] < at[j]
  BY <1>1 DEF InTurn
<1> HIDE DEF c
<1>4. c # 0
  BY <1>1, <1>2 DEF c
<1>5. 1 \in 1..c /\ at[1] \in Pos /\ AtPositions(seq, Pos)[1] = seq[at[1]]
  BY <1>1, <1>2, <1>4 DEF c
<1>6. \A i \in 1..c : at[i] \in Int
  <2>1. \A i \in 1..c : at[i] \in Pos
    BY <1>2
  <2>2. \A k \in Pos : k \in Int
    OBVIOUS
  <2> QED BY <2>1, <2>2
<1>7. \A i \in 1..c : at[1] <= at[i]
  <2> SUFFICES ASSUME NEW i \in 1..c PROVE at[1] <= at[i]
    OBVIOUS
  <2>1. CASE i = 1
    BY <1>5, <1>6, <2>1
  <2>2. CASE i # 1
    <3>1. 1 < i
      BY <1>2, <2>2
    <3>2. at[1] < at[i]
      BY <1>3, <1>5, <3>1
    <3> QED BY <1>5, <1>6, <3>2
  <2> QED BY <2>1, <2>2
<1>8. \A j \in Pos : at[1] <= j
  BY <1>2, <1>7
<1> QED BY <1>5, <1>8

\* A filtered sequence has what belongs to the set, in the order it had.
LEMMA AmongKeepsOrder ==
  ASSUME NEW T, NEW seq \in Seq(T), NEW S
  PROVE  /\ Among(seq, S) \in Seq(T)
         /\ ToSet(Among(seq, S)) = ToSet(seq) \cap S
         /\ \A i, j \in DOMAIN Among(seq, S) : i < j =>
              \E k, m \in DOMAIN seq : k < m /\ seq[k] = Among(seq, S)[i] /\ seq[m] = Among(seq, S)[j]
<1> DEFINE Pos == {i \in DOMAIN seq : seq[i] \in S}
           n == Cardinality(Pos)
<1>1. Len(seq) \in Nat /\ DOMAIN seq = 1..Len(seq) /\ Pos \in SUBSET (1..Len(seq))
  OBVIOUS
<1>2. PICK at : InTurn(at, Pos) /\ AtPositions(seq, Pos) = [i \in 1..Cardinality(Pos) |-> seq[at[i]]]
  <2> HIDE DEF Pos
  <2>1. PICK at : InTurn(at, Pos) /\ ReadsInTurn(at, seq, Pos)
    BY <1>1, PositionsInTurn
  <2> QED BY <2>1 DEF ReadsInTurn
<1>3. Among(seq, S) = [i \in 1..n |-> seq[at[i]]]
  BY <1>2 DEF Among
<1>4. \A i \in 1..n : at[i] \in DOMAIN seq /\ seq[at[i]] \in T \cap S
  BY <1>1, <1>2 DEF InTurn
<1>5. Among(seq, S) \in Seq(T)
  <2>1. n \in Nat
    BY <1>2 DEF InTurn
  <2> HIDE DEF n
  <2> QED BY <2>1, <1>3, <1>4
<1>6. ToSet(Among(seq, S)) = ToSet(seq) \cap S
  <2>1. ToSet(Among(seq, S)) = {seq[at[i]] : i \in 1..n}
    BY <1>3 DEF ToSet
  <2>2. \A x \in ToSet(seq) \cap S : \E k \in Pos : x = seq[k]
    BY DEF ToSet
  <2>3. \A k \in Pos : \E i \in 1..n : at[i] = k
    BY <1>2 DEF InTurn
  <2>4. \A i \in 1..n : seq[at[i]] \in ToSet(seq) \cap S
    BY <1>4 DEF ToSet
  <2> HIDE DEF Pos
  <2> QED BY <2>1, <2>2, <2>3, <2>4
<1>7. ASSUME NEW i \in DOMAIN Among(seq, S), NEW j \in DOMAIN Among(seq, S), i < j
      PROVE  \E k, m \in DOMAIN seq : k < m /\ seq[k] = Among(seq, S)[i] /\ seq[m] = Among(seq, S)[j]
  <2>1. i \in 1..n /\ j \in 1..n
    BY <1>3, <1>7
  <2>2. at[i] < at[j]
    BY <1>2, <1>7, <2>1 DEF InTurn
  <2>3. seq[at[i]] = Among(seq, S)[i] /\ seq[at[j]] = Among(seq, S)[j]
    BY <1>3, <2>1
  <2> QED BY <1>4, <2>1, <2>2, <2>3
<1> QED BY <1>5, <1>6, <1>7

-----------------------------------------------------------------------------
(* What is asked of labels.  A schema is any sequence of fields, and a text *)
(* any word however it is written.                                         *)

Texts == {"text"} \X Nat \X {"plain", "upper", "padded"}

Fields == [id : Int, name : Int, role : {"core", "aux"}, type : FieldTypes \cup {"unknown"},
           allowed : Seq(Texts), low : Int, high : Int, order : Int]

DistinctIds(fields) == \A i, j \in DOMAIN fields : fields[i].id = fields[j].id => i = j

\* No known field is submitted twice.
KnownOnce(old, new) ==
  \A i, j \in DOMAIN new : new[i].id = new[j].id /\ new[i].id \in {f.id : f \in ToSet(old)} => i = j

\* The values that a field stores: those of CanonicalValues, of any size.
StoredValues(f) ==
  CASE f.type = "enum" -> AllowedSet(f)
    [] f.type = "enum_set" -> {<<"list", S>> : S \in SUBSET AllowedSet(f)}
    [] f.type = "boolean" -> {<<"bool", b>> : b \in BOOLEAN}
    [] f.type = "integer" -> {<<"int", n>> : n \in {m \in Int : Within(m, f)}}
    [] f.type = "string" -> {t \in Texts : t[3] # "padded" /\ Within(t[2], f)}

StoredLabel(l, fields) ==
  \A f \in Core(fields) : f.name \in DOMAIN l /\ l[f.name] \in StoredValues(f)

-----------------------------------------------------------------------------
(* Edits.                                                                  *)

\* What becomes of a Core field that no semantic change befell.
Settled(o, n) ==
  /\ o.role = "core" /\ n.role = "core" /\ o.type = n.type
  /\ n.type \in {"integer", "string"} => o.low = n.low /\ o.high = n.high
  /\ n.type \in {"enum", "enum_set"} =>
       \/ AllowedSet(o) = AllowedSet(n) /\ ValueChanges(o, n) = {}
       \/ \E s, t : /\ AllowedSet(o) \ AllowedSet(n) = {s} /\ AllowedSet(n) \ AllowedSet(o) = {t}
                    /\ ValueChanges(o, n) = {Change("enum_value_rename", n, s, t, FALSE)}

\* A field allows finitely many values.
LEMMA AllowedIsFinite ==
  ASSUME NEW f, f.allowed \in Seq(Texts)
  PROVE  IsFiniteSet(AllowedSet(f))
<1> DEFINE n == Len(f.allowed)
           g == [i \in 1..n |-> f.allowed[i]]
<1>1. f.allowed \in Seq(Texts) /\ n \in Nat /\ DOMAIN f.allowed = 1..n
  OBVIOUS
<1>2. AllowedSet(f) = {f.allowed[i] : i \in 1..n}
  BY <1>1 DEF AllowedSet, ToSet
<1>3. g \in Surjection(1..n, AllowedSet(f))
  BY <1>2 DEF Surjection
<1>4. ExistsSurjection(1..n, AllowedSet(f))
  BY <1>3 DEF ExistsSurjection
<1> QED BY <1>1, <1>4, FS_NatSurjection

\* A kept Core field none of whose changes is semantic is settled.
LEMMA PairIsSettled ==
  ASSUME NEW o, o.allowed \in Seq(Texts), NEW n, n.allowed \in Seq(Texts), "core" \in {o.role, n.role},
         \A c \in FieldChanges(o, n) : ~ c.semantic
  PROVE  Settled(o, n)
<1>1. o.role = n.role /\ o.role = "core" /\ n.role = "core"
  BY DEF FieldChanges, Change
<1>2. o.type = n.type
  <2>1. Change("type_change", n, o.type, n.type, CoreOnly(o)).semantic
    BY <1>1 DEF Change, CoreOnly
  <2>2. o.type # n.type => Change("type_change", n, o.type, n.type, CoreOnly(o)) \in FieldChanges(o, n)
    BY <1>1 DEF FieldChanges
  <2> QED BY <2>1, <2>2
<1>3. SameTypeChanges(o, n) \subseteq FieldChanges(o, n)
  BY <1>1, <1>2 DEF FieldChanges
<1>4. ASSUME n.type \in {"integer", "string"} PROVE o.low = n.low /\ o.high = n.high
  <2>1. ConstraintChanges(o, n) \subseteq FieldChanges(o, n)
    BY <1>3 DEF SameTypeChanges
  <2> DEFINE pairs == {p \in {<<o.low, n.low>>, <<o.high, n.high>>} : p[1] # p[2]}
  <2>2. ConstraintChanges(o, n) =
          {Change("constraint_change", n, pair[1], pair[2], CoreOnly(o)) : pair \in pairs}
    BY <1>2, <1>4 DEF ConstraintChanges
  <2>3. \A l, h : Change("constraint_change", n, l, h, CoreOnly(o)).semantic
    BY <1>1 DEF Change, CoreOnly
  <2>4. pairs = {}
    <3> HIDE DEF pairs
    <3> QED BY <2>1, <2>2, <2>3
  <2>5. <<o.low, n.low>> \notin pairs /\ <<o.high, n.high>> \notin pairs
    BY <2>4
  <2> QED BY <2>5
<1>5. ASSUME n.type \in {"enum", "enum_set"}
      PROVE  \/ AllowedSet(o) = AllowedSet(n) /\ ValueChanges(o, n) = {}
             \/ \E s, t : /\ AllowedSet(o) \ AllowedSet(n) = {s} /\ AllowedSet(n) \ AllowedSet(o) = {t}
                          /\ ValueChanges(o, n) = {Change("enum_value_rename", n, s, t, FALSE)}
  <2> DEFINE removed == AllowedSet(o) \ AllowedSet(n)
             added == AllowedSet(n) \ AllowedSet(o)
  <2>1. ValueChanges(o, n) \subseteq FieldChanges(o, n)
    BY <1>2, <1>3, <1>5 DEF SameTypeChanges
  <2>2. CASE removed = {} /\ added = {}
    BY <2>2 DEF ValueChanges
  <2>3. CASE /\ ~ (removed = {} /\ added = {})
             /\ Len(o.allowed) = Len(n.allowed) /\ Cardinality(removed) = 1 /\ Cardinality(added) = 1
    <3>1. IsFiniteSet(removed) /\ IsFiniteSet(added)
      BY AllowedIsFinite, FS_Difference
    <3>2. PICK s, t : removed = {s} /\ added = {t}
      <4> HIDE DEF removed, added
      <4>1. \E s : removed = {s}
        BY <2>3, <3>1, FS_Singleton
      <4>2. \E t : added = {t}
        BY <2>3, <3>1, FS_Singleton
      <4> QED BY <4>1, <4>2
    <3>3. (CHOOSE x \in removed : TRUE) = s /\ (CHOOSE x \in added : TRUE) = t
      BY <3>2
    <3>4. ValueChanges(o, n) = {Change("enum_value_rename", n, CHOOSE x \in removed : TRUE,
                                       CHOOSE x \in added : TRUE, FALSE)}
      BY <2>3 DEF ValueChanges
    <3> QED BY <3>2, <3>3, <3>4
  <2>4. CASE /\ ~ (removed = {} /\ added = {})
             /\ ~ (Len(o.allowed) = Len(n.allowed) /\ Cardinality(removed) = 1 /\ Cardinality(added) = 1)
    <3>1. Change("allowed_value_change", n, removed, added, CoreOnly(o)) \in ValueChanges(o, n)
      BY <2>4 DEF ValueChanges
    <3>2. Change("allowed_value_change", n, removed, added, CoreOnly(o)).semantic
      BY <1>1 DEF Change, CoreOnly
    <3> QED BY <2>1, <3>1, <3>2
  <2> QED BY <2>2, <2>3, <2>4
<1> QED BY <1>1, <1>2, <1>4, <1>5 DEF Settled

\* What an edit is when it costs no label anything: names are told apart, as ids
\* are, and no change is semantic.
Harmless(old, new) ==
  /\ \A o \in ToSet(old) \cup ToSet(new) : o.allowed \in Seq(Texts)
  /\ \A o, p \in ToSet(old) : o.id = p.id \/ o.name = p.name => o = p
  /\ \A n, m \in ToSet(new) : n.name = m.name => n = m
  /\ \A o \in ToSet(old), n, m \in ToSet(new) : n.id = o.id /\ m.id = o.id => n = m
  /\ \A c \in ClassifyEdits(old, new) : ~ c.semantic

KeptPairs(old, new) == {pair \in ToSet(old) \X ToSet(new) : pair[1].id = pair[2].id}

\* Changes of a field that was kept, and no others, rename something.
LEMMA RenamesAreOfPairs ==
  ASSUME NEW old, NEW new, NEW c \in ClassifyEdits(old, new),
         c.what \in {"field_rename", "enum_value_rename"}
  PROVE  \E o \in ToSet(old), n \in ToSet(new) : o.id = n.id /\ c \in FieldChanges(o, n)
<1> DEFINE kept == KeptPairs(old, new)
           gone == ToSet(old) \ {pair[1] : pair \in kept}
           come == ToSet(new) \ {pair[2] : pair \in kept}
<1>1. ClassifyEdits(old, new) =
        {Change("remove_field", f, 0, 0, CoreOnly(f)) : f \in gone}
          \cup {Change("add_field", f, 0, 0, CoreOnly(f)) : f \in come}
          \cup UNION {FieldChanges(pair[1], pair[2]) : pair \in kept}
  BY DEF ClassifyEdits, KeptPairs
<1> HIDE DEF gone, come, kept
<1>2. \A f : Change("remove_field", f, 0, 0, CoreOnly(f)).what = "remove_field"
  BY DEF Change
<1>3. \A f : Change("add_field", f, 0, 0, CoreOnly(f)).what = "add_field"
  BY DEF Change
<1>4. PICK pair \in kept : c \in FieldChanges(pair[1], pair[2])
  BY <1>1, <1>2, <1>3
<1>5. pair[1] \in ToSet(old) /\ pair[2] \in ToSet(new) /\ pair[1].id = pair[2].id
  BY DEF kept, KeptPairs
<1> QED BY <1>4, <1>5

\* What changed of a kept field is among the changes of the edit.
LEMMA ChangesOfPairs ==
  ASSUME NEW old, NEW new, NEW o \in ToSet(old), NEW n \in ToSet(new), o.id = n.id,
         NEW c \in FieldChanges(o, n)
  PROVE  c \in ClassifyEdits(old, new)
<1>1. <<o, n>> \in KeptPairs(old, new)
  BY DEF KeptPairs
<1>2. FieldChanges(<<o, n>>[1], <<o, n>>[2]) \subseteq ClassifyEdits(old, new)
  BY <1>1 DEF ClassifyEdits, KeptPairs
<1> QED BY <1>2

\* A Core field of the new schema was one of the old, and nothing but its name,
\* its place and one spelling of a value is another.
LEMMA CoreWasThere ==
  ASSUME NEW old, NEW new, Harmless(old, new), NEW n \in Core(new)
  PROVE  \E o \in Core(old) : o.id = n.id /\ Settled(o, n)
<1>1. n \in ToSet(new) /\ n.role = "core"
  BY DEF Core
<1>2. PICK o \in ToSet(old) : o.id = n.id
  <2> SUFFICES ASSUME \A o \in ToSet(old) : o.id # n.id PROVE FALSE
    OBVIOUS
  <2>1. n \notin {pair[2] : pair \in KeptPairs(old, new)}
    BY DEF KeptPairs
  <2>2. Change("add_field", n, 0, 0, CoreOnly(n)) \in ClassifyEdits(old, new)
    BY <1>1, <2>1 DEF ClassifyEdits, KeptPairs
  <2>3. Change("add_field", n, 0, 0, CoreOnly(n)).semantic
    BY <1>1 DEF Change, CoreOnly
  <2> QED BY <2>2, <2>3 DEF Harmless
<1>3. \A c \in FieldChanges(o, n) : ~ c.semantic
  BY <1>1, <1>2, ChangesOfPairs DEF Harmless
<1>4. Settled(o, n)
  BY <1>1, <1>3, PairIsSettled DEF Harmless
<1> QED BY <1>2, <1>4 DEF Core, Settled

\* A harmless edit keeps each Core field, and keeps it Core.
LEMMA CoreIsStillThere ==
  ASSUME NEW old, NEW new, Harmless(old, new), NEW o \in Core(old)
  PROVE  \E n \in Core(new) : o.id = n.id /\ Settled(o, n)
<1>1. o \in ToSet(old) /\ o.role = "core"
  BY DEF Core
<1>2. PICK n \in ToSet(new) : o.id = n.id
  <2> SUFFICES ASSUME \A n \in ToSet(new) : o.id # n.id PROVE FALSE
    OBVIOUS
  <2>1. o \notin {pair[1] : pair \in KeptPairs(old, new)}
    BY DEF KeptPairs
  <2>2. Change("remove_field", o, 0, 0, CoreOnly(o)) \in ClassifyEdits(old, new)
    BY <1>1, <2>1 DEF ClassifyEdits, KeptPairs
  <2>3. Change("remove_field", o, 0, 0, CoreOnly(o)).semantic
    BY <1>1 DEF Change, CoreOnly
  <2> QED BY <2>2, <2>3 DEF Harmless
<1>3. \A c \in FieldChanges(o, n) : ~ c.semantic
  BY <1>1, <1>2, ChangesOfPairs DEF Harmless
<1>4. Settled(o, n)
  BY <1>1, <1>3, PairIsSettled DEF Harmless
<1> QED BY <1>2, <1>4 DEF Core, Settled

\* What a rename of a field says.
LEMMA FieldRenameIs ==
  ASSUME NEW o, NEW n, NEW c \in FieldChanges(o, n), c.what = "field_rename"
  PROVE  c.from = o.name /\ c.to = n.name /\ o.name # n.name
<1>1. \A d \in SameTypeChanges(o, n) : d.what # "field_rename"
  <2>1. \A d \in ConstraintChanges(o, n) : d.what # "field_rename"
    BY DEF ConstraintChanges, Change
  <2>2. \A d \in ValueChanges(o, n) : d.what # "field_rename"
    BY DEF ValueChanges, Change
  <2>3. Change("display_order_change", n, o.order, n.order, FALSE).what # "field_rename"
    BY DEF Change
  <2> QED BY <2>1, <2>2, <2>3 DEF SameTypeChanges
<1>2. Change("role_change", n, o.role, n.role, TRUE).what # "field_rename"
  BY DEF Change
<1>3. Change("type_change", n, o.type, n.type, CoreOnly(o)).what # "field_rename"
  BY DEF Change
<1>4. o.name # n.name /\ c = Change("field_rename", n, o.name, n.name, FALSE)
  BY <1>1, <1>2, <1>3 DEF FieldChanges
<1> QED BY <1>4 DEF Change

\* A field of another name and the same role is renamed.
LEMMA FieldRenameIsMade ==
  ASSUME NEW o, NEW n, o.role = n.role, o.name # n.name
  PROVE  Change("field_rename", n, o.name, n.name, FALSE) \in FieldChanges(o, n)
BY DEF FieldChanges

\* What a rename of a value says.
LEMMA ValueRenameIs ==
  ASSUME NEW o, NEW n, NEW c \in FieldChanges(o, n), c.what = "enum_value_rename"
  PROVE  c \in ValueChanges(o, n) /\ o.type = n.type /\ n.type \in {"enum", "enum_set"} /\ c.field = n.name
<1>1. Change("role_change", n, o.role, n.role, TRUE).what # "enum_value_rename"
  BY DEF Change
<1>2. Change("type_change", n, o.type, n.type, CoreOnly(o)).what # "enum_value_rename"
  BY DEF Change
<1>3. Change("field_rename", n, o.name, n.name, FALSE).what # "enum_value_rename"
  BY DEF Change
<1>4. o.type = n.type /\ c \in SameTypeChanges(o, n)
  BY <1>1, <1>2, <1>3 DEF FieldChanges
<1>5. \A d \in ConstraintChanges(o, n) : d.what # "enum_value_rename"
  BY DEF ConstraintChanges, Change
<1>6. Change("display_order_change", n, o.order, n.order, FALSE).what # "enum_value_rename"
  BY DEF Change
<1>7. o.type \in {"enum", "enum_set"} /\ c \in ValueChanges(o, n)
  BY <1>4, <1>5, <1>6 DEF SameTypeChanges
<1>8. \A d \in ValueChanges(o, n) : d.field = n.name
  BY DEF ValueChanges, Change
<1> QED BY <1>4, <1>7, <1>8

FieldRenames(old, new) == {c \in ClassifyEdits(old, new) : c.what = "field_rename"}
ValueRenames(old, new) == {c \in ClassifyEdits(old, new) : c.what = "enum_value_rename"}

\* A value goes with its field, whatever names were exchanged.
LEMMA NameFollows ==
  ASSUME NEW old, NEW new, Harmless(old, new), NEW o \in Core(old), NEW n \in Core(new), o.id = n.id,
         Settled(o, n), NEW l, o.name \in DOMAIN l
  PROVE  LET r == RenamedFields(l, FieldRenames(old, new)) IN
         n.name \in DOMAIN r /\ r[n.name] = l[o.name]
<1> DEFINE renames == FieldRenames(old, new)
           hit == {c \in renames : c.from \in DOMAIN l}
           r == RenamedFields(l, renames)
<1>1. o \in ToSet(old) /\ n \in ToSet(new) /\ o.role = n.role
  BY DEF Core
<1>2. ASSUME NEW c \in renames
      PROVE  \E p \in ToSet(old), m \in ToSet(new) :
               p.id = m.id /\ c.from = p.name /\ c.to = m.name /\ p.name # m.name
  BY <1>2, RenamesAreOfPairs, FieldRenameIs DEF FieldRenames
<1>3. \A c \in renames : c.to = n.name => c.from = o.name /\ o.name # n.name
  <2> SUFFICES ASSUME NEW c \in renames, c.to = n.name PROVE c.from = o.name /\ o.name # n.name
    OBVIOUS
  <2>1. PICK p \in ToSet(old), m \in ToSet(new) :
           p.id = m.id /\ c.from = p.name /\ c.to = m.name /\ p.name # m.name
    BY <1>2
  <2>2. m = n
    BY <1>1, <2>1 DEF Harmless
  <2>3. p = o
    BY <1>1, <2>1, <2>2 DEF Harmless
  <2> QED BY <2>1, <2>2, <2>3
<1>4. \A c \in renames : c.from = o.name => c.to = n.name /\ o.name # n.name
  <2> SUFFICES ASSUME NEW c \in renames, c.from = o.name PROVE c.to = n.name /\ o.name # n.name
    OBVIOUS
  <2>1. PICK p \in ToSet(old), m \in ToSet(new) :
           p.id = m.id /\ c.from = p.name /\ c.to = m.name /\ p.name # m.name
    BY <1>2
  <2>2. p = o
    BY <1>1, <2>1 DEF Harmless
  <2>3. m = n
    BY <1>1, <2>1, <2>2 DEF Harmless
  <2> QED BY <2>1, <2>2, <2>3
<1>5. o.name # n.name => \E c \in renames : c.to = n.name /\ c.from = o.name
  <2> SUFFICES ASSUME o.name # n.name PROVE \E c \in renames : c.to = n.name /\ c.from = o.name
    OBVIOUS
  <2> DEFINE c == Change("field_rename", n, o.name, n.name, FALSE)
  <2>1. c \in FieldChanges(o, n)
    BY <1>1, FieldRenameIsMade
  <2>2. c \in ClassifyEdits(old, new)
    BY <1>1, <2>1, ChangesOfPairs
  <2>3. c.what = "field_rename" /\ c.to = n.name /\ c.from = o.name
    BY DEF Change
  <2> QED BY <2>2, <2>3 DEF FieldRenames
<1> HIDE DEF renames
<1>6. CASE hit = {}
  <2>1. r = l
    BY <1>6 DEF RenamedFields
  <2>2. o.name = n.name
    BY <1>5, <1>6
  <2> QED BY <2>1, <2>2 DEF renames
<1>7. CASE hit # {}
  <2> DEFINE come == {c.to : c \in hit}
             left == DOMAIN l \ {c.from : c \in renames}
  <2>1. r = [x \in come \cup left |-> IF x \in come THEN l[(CHOOSE c \in hit : c.to = x).from] ELSE l[x]]
    BY <1>7 DEF RenamedFields
  <2>2. CASE o.name # n.name
    <3>1. PICK c \in hit : c.to = n.name
      BY <1>5, <2>2
    <3>2. (CHOOSE d \in hit : d.to = n.name) \in hit /\ (CHOOSE d \in hit : d.to = n.name).to = n.name
      BY <3>1
    <3>3. (CHOOSE d \in hit : d.to = n.name).from = o.name
      BY <3>2, <1>3
    <3>4. n.name \in come
      BY <3>1
    <3> HIDE DEF come, left, hit
    <3> QED BY <2>1, <3>3, <3>4 DEF renames
  <2>3. CASE o.name = n.name
    <3>1. n.name \notin come
      BY <1>3, <2>3
    <3>2. n.name \in left
      BY <1>4, <2>3
    <3> HIDE DEF come, left, hit
    <3> QED BY <2>1, <2>3, <3>1, <3>2 DEF renames
  <2> QED BY <2>2, <2>3
<1> QED BY <1>6, <1>7

\* What a stored value of o becomes with n: s is written t.
Respelt(v, s, t) ==
  IF v[1] = "list" THEN <<"list", {IF e = s THEN t ELSE e : e \in v[2]}>>
  ELSE IF v = s THEN t ELSE v

SpeltAs(v, w, o, n) ==
  \/ w = v /\ (n.type \in {"enum", "enum_set"} => AllowedSet(o) = AllowedSet(n))
  \/ \E s, t : /\ AllowedSet(o) \ AllowedSet(n) = {s} /\ AllowedSet(n) \ AllowedSet(o) = {t}
               /\ n.type \in {"enum", "enum_set"} /\ w = Respelt(v, s, t)

\* Allowed values are texts.
LEMMA AllowedAreTexts ==
  ASSUME NEW f, f.allowed \in Seq(Texts), NEW t \in AllowedSet(f)
  PROVE  t \in Texts /\ t[1] = "text"
BY DEF AllowedSet, ToSet, Texts

\* The rename of a value reaches the stored value of its field, by the new name.
LEMMA ValueFollows ==
  ASSUME NEW old, NEW new, Harmless(old, new), NEW o \in Core(old), NEW n \in Core(new), o.id = n.id,
         Settled(o, n), NEW r, n.name \in DOMAIN r
  PROVE  LET w == RenamedValues(r, ValueRenames(old, new)) IN
         n.name \in DOMAIN w /\ SpeltAs(r[n.name], w[n.name], o, n)
<1> DEFINE renames == ValueRenames(old, new)
           here == {c \in renames : c.field = n.name}
           v == r[n.name]
           w == RenamedValues(r, renames)[n.name]
<1>1. o \in ToSet(old) /\ n \in ToSet(new)
  BY DEF Core
<1>2. here \subseteq ValueChanges(o, n) /\ (here # {} => n.type \in {"enum", "enum_set"})
  <2> SUFFICES ASSUME NEW c \in here PROVE c \in ValueChanges(o, n) /\ n.type \in {"enum", "enum_set"}
    OBVIOUS
  <2>1. c \in ClassifyEdits(old, new) /\ c.what = "enum_value_rename" /\ c.field = n.name
    BY DEF ValueRenames
  <2>2. PICK p \in ToSet(old), m \in ToSet(new) : p.id = m.id /\ c \in FieldChanges(p, m)
    BY <2>1, RenamesAreOfPairs
  <2>3. c \in ValueChanges(p, m) /\ m.type \in {"enum", "enum_set"} /\ c.field = m.name
    BY <2>1, <2>2, ValueRenameIs
  <2>4. m = n
    BY <1>1, <2>1, <2>2, <2>3 DEF Harmless
  <2>5. p = o
    BY <1>1, <2>2, <2>4 DEF Harmless
  <2> QED BY <2>3, <2>4, <2>5
<1>3. n.name \in DOMAIN RenamedValues(r, renames)
  BY DEF RenamedValues
<1>4. w = IF here = {} THEN v ELSE RenamedValue(v, CHOOSE c \in here : TRUE)
  BY DEF RenamedValues
<1>5. n.type \in {"enum", "enum_set"} => ValueChanges(o, n) \subseteq here \cup {d \in ValueChanges(o, n) : d.what # "enum_value_rename"}
  <2> SUFFICES ASSUME n.type \in {"enum", "enum_set"}, NEW c \in ValueChanges(o, n), c.what = "enum_value_rename"
               PROVE  c \in here
    OBVIOUS
  <2>1. o.type = n.type /\ o.role = n.role
    BY DEF Settled
  <2>2. c \in FieldChanges(o, n)
    BY <2>1 DEF FieldChanges, SameTypeChanges
  <2>3. c \in ClassifyEdits(old, new)
    BY <1>1, <2>2, ChangesOfPairs
  <2>4. c.field = n.name
    BY <2>2, ValueRenameIs
  <2> QED BY <2>3, <2>4 DEF ValueRenames
<1> HIDE DEF renames
<1>6. CASE here = {} /\ ~ (n.type \in {"enum", "enum_set"} /\ ValueChanges(o, n) # {})
  BY <1>3, <1>4, <1>6 DEF SpeltAs, Settled, renames
<1>7. CASE here # {} \/ (n.type \in {"enum", "enum_set"} /\ ValueChanges(o, n) # {})
  <2>1. n.type \in {"enum", "enum_set"} /\ ValueChanges(o, n) # {}
    BY <1>2, <1>7
  <2>2. PICK s, t : /\ AllowedSet(o) \ AllowedSet(n) = {s} /\ AllowedSet(n) \ AllowedSet(o) = {t}
                    /\ ValueChanges(o, n) = {Change("enum_value_rename", n, s, t, FALSE)}
    BY <2>1 DEF Settled
  <2> DEFINE c == Change("enum_value_rename", n, s, t, FALSE)
  <2>3. c.what = "enum_value_rename" /\ c.from = s /\ c.to = t
    BY DEF Change
  <2>4. here = {c}
    BY <1>2, <1>5, <2>1, <2>2, <2>3
  <2>5. (CHOOSE d \in here : TRUE) = c
    BY <2>4
  <2>6. w = RenamedValue(v, c)
    BY <1>4, <2>4, <2>5
  <2>7. s[1] = "text"
    BY <1>1, <2>2, AllowedAreTexts DEF Harmless
  <2>8. RenamedValue(v, c) = Respelt(v, s, t)
    BY <2>3, <2>7 DEF RenamedValue, Respelt
  <2> QED BY <1>3, <2>1, <2>2, <2>6, <2>8 DEF SpeltAs, renames
<1> QED BY <1>6, <1>7

\* What is stored stays what may be stored, and two values stay two.
LEMMA BecomesStored ==
  ASSUME NEW o, o.allowed \in Seq(Texts), NEW n, n.allowed \in Seq(Texts), Settled(o, n),
         NEW v \in StoredValues(o), NEW w, SpeltAs(v, w, o, n), n.type \in FieldTypes
  PROVE  w \in StoredValues(n)
<1>1. o.type = n.type
  BY DEF Settled
<1>2. CASE n.type = "enum"
  <2>1. StoredValues(o) = AllowedSet(o) /\ StoredValues(n) = AllowedSet(n)
    BY <1>1, <1>2 DEF StoredValues
  <2>2. v[1] = "text"
    BY <2>1, AllowedAreTexts
  <2> QED BY <1>2, <2>1, <2>2 DEF SpeltAs, Respelt
<1>3. CASE n.type = "enum_set"
  <2>1. StoredValues(n) = {<<"list", S>> : S \in SUBSET AllowedSet(n)}
    BY <1>3 DEF StoredValues
  <2>2. PICK S \in SUBSET AllowedSet(o) : v = <<"list", S>>
    BY <1>1, <1>3 DEF StoredValues
  <2>3. CASE w = v /\ AllowedSet(o) = AllowedSet(n)
    BY <2>1, <2>2, <2>3
  <2>4. ASSUME NEW s, NEW t, AllowedSet(o) \ AllowedSet(n) = {s}, AllowedSet(n) \ AllowedSet(o) = {t},
               w = Respelt(v, s, t)
        PROVE  w \in StoredValues(n)
    <3> DEFINE U == {IF e = s THEN t ELSE e : e \in S}
    <3>1. w = <<"list", U>>
      BY <2>2, <2>4 DEF Respelt
    <3>2. U \in SUBSET AllowedSet(n)
      BY <2>4
    <3> QED BY <2>1, <3>1, <3>2
  <2> QED BY <1>3, <2>3, <2>4 DEF SpeltAs
<1>4. CASE n.type \in {"boolean", "integer", "string"}
  <2>1. w = v
    BY <1>4 DEF SpeltAs
  <2>2. StoredValues(o) = StoredValues(n)
    BY <1>1, <1>4 DEF Settled, StoredValues, Within
  <2> QED BY <2>1, <2>2
<1> QED BY <1>2, <1>3, <1>4 DEF FieldTypes, Categorical

\* Two stored values are one after the rename of a value exactly if they were one.
LEMMA BecomesApart ==
  ASSUME NEW o, o.allowed \in Seq(Texts), NEW n, n.allowed \in Seq(Texts), Settled(o, n),
         NEW v \in StoredValues(o), NEW w, SpeltAs(v, w, o, n),
         NEW x \in StoredValues(o), NEW y, SpeltAs(x, y, o, n)
  PROVE  v = x <=> w = y
<1>1. o.type = n.type
  BY DEF Settled
<1>2. CASE n.type \notin {"enum", "enum_set"} \/ AllowedSet(o) = AllowedSet(n)
  BY <1>2 DEF SpeltAs
<1>3. CASE n.type \in {"enum", "enum_set"} /\ AllowedSet(o) # AllowedSet(n)
  <2>1. PICK s, t : /\ AllowedSet(o) \ AllowedSet(n) = {s} /\ AllowedSet(n) \ AllowedSet(o) = {t}
                    /\ w = Respelt(v, s, t)
    BY <1>3 DEF SpeltAs
  <2>2. y = Respelt(x, s, t)
    <3>1. PICK s2, t2 : /\ AllowedSet(o) \ AllowedSet(n) = {s2} /\ AllowedSet(n) \ AllowedSet(o) = {t2}
                        /\ y = Respelt(x, s2, t2)
      BY <1>3 DEF SpeltAs
    <3>2. s2 = s /\ t2 = t
      BY <2>1, <3>1
    <3> QED BY <3>1, <3>2
  <2>3. s \in AllowedSet(o) /\ t \notin AllowedSet(o)
    BY <2>1
  <2>4. CASE n.type = "enum"
    <3>1. v \in AllowedSet(o) /\ x \in AllowedSet(o)
      BY <1>1, <2>4 DEF StoredValues
    <3>2. v[1] = "text" /\ x[1] = "text"
      BY <3>1, AllowedAreTexts
    <3> QED BY <2>1, <2>2, <2>3, <3>1, <3>2 DEF Respelt
  <2>5. CASE n.type = "enum_set"
    <3>1. PICK S \in SUBSET AllowedSet(o), T \in SUBSET AllowedSet(o) : v = <<"list", S>> /\ x = <<"list", T>>
      BY <1>1, <2>5 DEF StoredValues
    <3> DEFINE U == {IF e = s THEN t ELSE e : e \in S}
               V == {IF e = s THEN t ELSE e : e \in T}
    <3>2. w = <<"list", U>> /\ y = <<"list", V>>
      BY <2>1, <2>2, <3>1 DEF Respelt
    <3>3. S = {e \in AllowedSet(o) : (e = s /\ t \in U) \/ (e # s /\ e \in U)}
      BY <2>3
    <3>4. T = {e \in AllowedSet(o) : (e = s /\ t \in V) \/ (e # s /\ e \in V)}
      BY <2>3
    <3>5. S = T <=> U = V
      <4> HIDE DEF U, V
      <4>1. U = V => S = T
        BY <3>3, <3>4
      <4>2. S = T => U = V
        BY DEF U, V
      <4> QED BY <4>1, <4>2
    <3> HIDE DEF U, V
    <3> QED BY <3>1, <3>2, <3>5
  <2> QED BY <1>3, <2>4, <2>5
<1> QED BY <1>2, <1>3

\* A finite set of numbers has a greatest one, which is its Max.
LEMMA MaxIsGreatest ==
  ASSUME NEW S \in SUBSET Int, IsFiniteSet(S), S # {}
  PROVE  Max(S) \in S /\ \A x \in S : x <= Max(S)
<1> DEFINE n == Cardinality(S)
<1>1. n \in Nat /\ n # 0
  BY FS_CardinalityType, FS_EmptySet
<1>2. PICK R : R = {p \in S \X S : p[1] < p[2]}
  OBVIOUS
<1>3. \A x, y \in S : <<x, y>> \in R <=> x < y
  BY <1>2
<1>4. IsStrictOrder(R, S)
  BY <1>3 DEF IsStrictOrder
<1>5. PICK m \in S : Place(m, S, R) = n - 1
  <2>1. n \in 1..n
    BY <1>1
  <2> QED BY <1>4, <2>1, EveryRankIsTaken
<1>6. \A x \in S : x <= m
  <2> DEFINE A == {y \in S : <<y, m>> \in R}
             B == S \ {m}
  <2>1. IsFiniteSet(B) /\ Cardinality(B) = n - 1
    BY FS_RemoveElement
  <2>2. A \in SUBSET B
    BY <1>4 DEF IsStrictOrder
  <2>3. Cardinality(A) = n - 1
    BY <1>5 DEF Place
  <2>4. Cardinality(B) = Cardinality(A) => B = A
    BY <2>1, <2>2, FS_Subset
  <2>5. B = A
    BY <2>1, <2>3, <2>4
  <2>6. \A x \in B : x < m
    <3> HIDE DEF B
    <3> QED BY <1>3, <2>5
  <2> QED BY <2>6
<1>7. \E x \in S : \A y \in S : x >= y
  BY <1>6
<1> QED BY <1>7 DEF Max

\* What a field stores is what it takes for granted.
LEMMA StoredIsNormal ==
  ASSUME NEW f, f.allowed \in Seq(Texts), f.type \in FieldTypes,
         \A s, t \in AllowedSet(f) : Lowered(s) = Lowered(t) => s = t,
         NEW v \in StoredValues(f)
  PROVE  Normalized(v, f) = v /\ v # Invalid
<1>1. ASSUME NEW t \in AllowedSet(f)
      PROVE  KnownText(f, t) /\ CanonicalText(f, Lowered(t)) = t
  <2> DEFINE S == Spellings(f, Lowered(t))
  <2>1. DOMAIN f.allowed = 1..Len(f.allowed) /\ Len(f.allowed) \in Nat
    OBVIOUS
  <2>2. PICK i \in DOMAIN f.allowed : f.allowed[i] = t
    BY DEF AllowedSet, ToSet
  <2>3. i \in S
    BY <2>2 DEF Spellings
  <2>4. S \in SUBSET Int /\ IsFiniteSet(S)
    <3>1. IsFiniteSet(1..Len(f.allowed))
      BY <2>1, FS_Interval
    <3>2. S \in SUBSET (1..Len(f.allowed))
      BY <2>1 DEF Spellings
    <3> QED BY <3>1, <3>2, FS_Subset
  <2>5. Max(S) \in S
    <3> HIDE DEF S
    <3> QED BY <2>3, <2>4, MaxIsGreatest
  <2>6. f.allowed[Max(S)] \in AllowedSet(f) /\ Lowered(f.allowed[Max(S)]) = Lowered(t)
    BY <2>5 DEF Spellings, AllowedSet, ToSet
  <2>7. t[1] = "text"
    BY AllowedAreTexts
  <2> QED BY <2>3, <2>6, <2>7 DEF KnownText, CanonicalText
<1>2. CASE f.type = "enum"
  <2>1. v \in AllowedSet(f)
    BY <1>2 DEF StoredValues
  <2>2. Normalized(v, f) = v
    BY <1>1, <1>2, <2>1 DEF Normalized, NormalizedEnum
  <2>3. v[1] = "text"
    BY <2>1, AllowedAreTexts
  <2> QED BY <2>2, <2>3 DEF Invalid
<1>3. CASE f.type = "enum_set"
  <2>1. PICK S \in SUBSET AllowedSet(f) : v = <<"list", S>>
    BY <1>3 DEF StoredValues
  <2>2. v[1] = "list" /\ v[2] = S
    BY <2>1
  <2>3. {CanonicalText(f, Lowered(e)) : e \in S} = S
    BY <1>1
  <2>4. \A e \in v[2] : KnownText(f, e)
    BY <1>1, <2>2
  <2>5. NormalizedSet(v, f) = v
    BY <2>1, <2>2, <2>3, <2>4 DEF NormalizedSet
  <2>6. Normalized(v, f) = v
    BY <1>3, <2>5 DEF Normalized
  <2> QED BY <2>2, <2>6 DEF Invalid
<1>4. CASE f.type = "boolean"
  <2>1. v[1] = "bool"
    BY <1>4 DEF StoredValues
  <2>2. Normalized(v, f) = v
    BY <1>4, <2>1 DEF Normalized, NormalizedBoolean
  <2> QED BY <2>1, <2>2 DEF Invalid
<1>5. CASE f.type = "integer"
  <2>1. PICK n \in Int : v = <<"int", n>> /\ Within(n, f)
    BY <1>5 DEF StoredValues
  <2>2. NormalizedInteger(v, f) = v
    BY <2>1 DEF NormalizedInteger
  <2>3. Normalized(v, f) = v
    BY <1>5, <2>2 DEF Normalized
  <2> QED BY <2>1, <2>3 DEF Invalid
<1>6. CASE f.type = "string"
  <2>1. v \in Texts /\ v[3] # "padded" /\ Within(v[2], f)
    BY <1>6 DEF StoredValues
  <2>2. v[1] = "text"
    BY <2>1 DEF Texts
  <2>3. NormalizedString(v, f) = v
    BY <2>1, <2>2 DEF NormalizedString, Stripped
  <2>4. Normalized(v, f) = v
    BY <1>6, <2>3 DEF Normalized
  <2> QED BY <2>2, <2>4 DEF Invalid
<1> QED BY <1>2, <1>3, <1>4, <1>5, <1>6 DEF FieldTypes, Categorical

\* An edit is processed without regard to what the fields mean.
AsSubmitted(f, g) ==
  /\ f.name = g.name /\ f.role = g.role /\ f.type = g.type /\ f.allowed = g.allowed
  /\ f.low = g.low /\ f.high = g.high

\* IdsForEdit and RationaleFirst change nothing that labels are told apart by, and
\* an id that is new is none of the old ones.
LEMMA ProcessedKeeps ==
  ASSUME NEW old, DistinctIds(old), old \in Seq(Fields), Core(old) # {},
         NEW new \in Seq(Fields), KnownOnce(old, new)
  PROVE  /\ DOMAIN Processed(old, new) = DOMAIN new
         /\ \A i \in DOMAIN new : AsSubmitted(Processed(old, new)[i], new[i])
         /\ \A i, j \in DOMAIN new : \A o \in ToSet(old) :
              Processed(old, new)[i].id = o.id /\ Processed(old, new)[j].id = o.id => i = j
<1> DEFINE known == {f.id : f \in ToSet(old)}
           ids == IdsForEdit(old, new)
           p == RationaleFirst(ids)
<1>1. DOMAIN new = 1..Len(new) /\ Len(new) \in Nat /\ \A i \in DOMAIN new : new[i] \in Fields
  OBVIOUS
<1>2. DOMAIN ids = DOMAIN new
  BY DEF IdsForEdit
<1>3. Max(known) \in known /\ \A x \in known : x <= Max(known) /\ x \in Int
  <2>1. known \in SUBSET Int /\ known # {}
    <3>1. \A i \in DOMAIN old : old[i] \in Fields
      OBVIOUS
    <3>2. \A f \in ToSet(old) : f.id \in Int
      BY <3>1 DEF ToSet, Fields
    <3>3. ToSet(old) # {}
      BY DEF Core
    <3> QED BY <3>2, <3>3
  <2>2. IsFiniteSet(known)
    <3> DEFINE g == [i \in 1..Len(old) |-> old[i].id]
    <3>1. g \in Surjection(1..Len(old), known)
      BY DEF Surjection, ToSet
    <3>2. ExistsSurjection(1..Len(old), known)
      BY <3>1 DEF ExistsSurjection
    <3> QED BY <3>2, FS_NatSurjection
  <2> HIDE DEF known
  <2> QED BY <2>1, <2>2, MaxIsGreatest
<1>4. ASSUME NEW i \in DOMAIN new
      PROVE  /\ AsSubmitted(ids[i], new[i])
             /\ ids[i].id = IF new[i].id \in known THEN new[i].id ELSE Max(known) + i
             /\ ids[i] = [ids[i] EXCEPT !.order = ids[i].order]
             /\ DOMAIN ids[i] = {"id", "name", "role", "type", "allowed", "low", "high", "order"}
  <2>1. new[i] \in Fields
    BY <1>1
  <2>2. ids[i] = IF new[i].id \in known THEN new[i] ELSE [new[i] EXCEPT !.id = Max(known) + i]
    BY DEF IdsForEdit
  <2> HIDE DEF known, ids
  <2> QED BY <2>1, <2>2 DEF AsSubmitted, Fields
<1>5. DOMAIN p = DOMAIN new
  BY <1>2 DEF RationaleFirst
<1>6. ASSUME NEW i \in DOMAIN new
      PROVE  AsSubmitted(p[i], new[i]) /\ p[i].id = ids[i].id
  <2>1. p[i] = ids[i] \/ \E m : p[i] = [ids[i] EXCEPT !.order = m]
    BY <1>2 DEF RationaleFirst
  <2> HIDE DEF p, ids
  <2> QED BY <2>1, <1>4 DEF AsSubmitted
<1>7. ASSUME NEW i \in DOMAIN new, NEW j \in DOMAIN new, NEW o \in ToSet(old), p[i].id = o.id, p[j].id = o.id
      PROVE  i = j
  <2>1. o.id \in known
    OBVIOUS
  <2>2. i \in Nat /\ j \in Nat /\ i > 0 /\ j > 0
    BY <1>1
  <2>3. ids[i].id = o.id /\ ids[j].id = o.id
    BY <1>6, <1>7
  <2>4. new[i].id \in known /\ new[j].id \in known
    <3>1. \A k \in DOMAIN new : k \in Nat /\ k > 0
      BY <1>1
    <3> DEFINE m == Max(known)
    <3>2. m \in Int /\ \A k \in DOMAIN new : m + k \notin known
      <4>1. m \in Int
        BY <1>3
      <4> HIDE DEF m, known
      <4> QED BY <1>3, <3>1, <4>1 DEF m
    <3>3. ASSUME NEW k \in DOMAIN new, ids[k].id \in known
          PROVE  new[k].id \in known
      <4>1. ids[k].id = IF new[k].id \in known THEN new[k].id ELSE m + k
        BY <1>4
      <4>2. m + k \notin known
        BY <3>2
      <4> HIDE DEF known, ids, m
      <4> QED BY <3>3, <4>1, <4>2
    <3>4. ids[i].id \in known /\ ids[j].id \in known
      BY <2>1, <2>3
    <3> HIDE DEF known, ids, p
    <3> QED BY <3>3, <3>4
  <2>5. new[i].id = new[j].id
    <3> HIDE DEF known, ids, p
    <3> QED BY <1>4, <2>3, <2>4
  <2> QED BY <2>4, <2>5 DEF KnownOnce
<1> QED BY <1>5, <1>6, <1>7 DEF Processed

\* An edit that the service accepts and does not call semantic is harmless.
LEMMA EditIsHarmless ==
  ASSUME NEW old \in Seq(Fields), DistinctIds(old), SaveAllowed(old),
         NEW submitted \in Seq(Fields), KnownOnce(old, submitted),
         SaveAllowed(Processed(old, submitted)),
         EditType(ClassifyEdits(old, Processed(old, submitted))) # "semantic"
  PROVE  Harmless(old, Processed(old, submitted))
<1> DEFINE new == Processed(old, submitted)
<1>1. /\ DOMAIN new = DOMAIN submitted
      /\ \A i \in DOMAIN submitted : AsSubmitted(new[i], submitted[i])
      /\ \A i, j \in DOMAIN submitted : \A o \in ToSet(old) : new[i].id = o.id /\ new[j].id = o.id => i = j
  BY ProcessedKeeps DEF SaveAllowed
<1> HIDE DEF new
<1>2. ASSUME NEW o \in ToSet(old) \cup ToSet(new) PROVE o.allowed \in Seq(Texts)
  <2>1. \A i \in DOMAIN old : old[i] \in Fields
    OBVIOUS
  <2>2. \A i \in DOMAIN submitted : submitted[i] \in Fields
    OBVIOUS
  <2>3. CASE o \in ToSet(old)
    BY <2>1, <2>3 DEF ToSet, Fields
  <2>4. CASE o \in ToSet(new)
    <3>1. PICK i \in DOMAIN submitted : o = new[i]
      BY <1>1, <2>4 DEF ToSet
    <3>2. o.allowed = submitted[i].allowed
      BY <1>1, <3>1 DEF AsSubmitted
    <3> QED BY <2>2, <3>2 DEF Fields
  <2> QED BY <2>3, <2>4
<1>3. ASSUME NEW o \in ToSet(old), NEW p \in ToSet(old), o.id = p.id \/ o.name = p.name PROVE o = p
  <2>1. PICK i, j \in DOMAIN old : o = old[i] /\ p = old[j]
    BY DEF ToSet
  <2>2. i = j
    BY <1>3, <2>1 DEF DistinctIds, SaveAllowed
  <2> QED BY <2>1, <2>2
<1>4. ASSUME NEW n \in ToSet(new), NEW m \in ToSet(new), n.name = m.name PROVE n = m
  <2>1. PICK i, j \in DOMAIN new : n = new[i] /\ m = new[j]
    BY DEF ToSet
  <2>2. i = j
    BY <1>4, <2>1 DEF SaveAllowed, new
  <2> QED BY <2>1, <2>2
<1>5. ASSUME NEW o \in ToSet(old), NEW n \in ToSet(new), NEW m \in ToSet(new), n.id = o.id, m.id = o.id
      PROVE  n = m
  <2>1. PICK i, j \in DOMAIN submitted : n = new[i] /\ m = new[j]
    BY <1>1 DEF ToSet
  <2>2. i = j
    BY <1>1, <1>5, <2>1
  <2> QED BY <2>1, <2>2
<1>6. \A c \in ClassifyEdits(old, new) : ~ c.semantic
  BY DEF EditType, new
<1>7. Harmless(old, new)
  BY <1>2, <1>3, <1>4, <1>5, <1>6 DEF Harmless
<1> QED BY <1>7 DEF new

\* What an edit makes of a label that had a value for each Core field.
LEMMA LabelFollows ==
  ASSUME NEW old, NEW new, Harmless(old, new), \A f \in ToSet(new) : f.type \in FieldTypes,
         NEW o \in Core(old), NEW n \in Core(new), o.id = n.id, Settled(o, n),
         NEW l, StoredLabel(l, old)
  PROVE  LET w == Propagated(l, ClassifyEdits(old, new)) IN
         /\ n.name \in DOMAIN w /\ w[n.name] \in StoredValues(n)
         /\ l[o.name] \in StoredValues(o) /\ SpeltAs(l[o.name], w[n.name], o, n)
<1> DEFINE r == RenamedFields(l, FieldRenames(old, new))
           w == RenamedValues(r, ValueRenames(old, new))
<1>1. o.name \in DOMAIN l /\ l[o.name] \in StoredValues(o)
  BY DEF StoredLabel
<1>2. n.name \in DOMAIN r /\ r[n.name] = l[o.name]
  BY <1>1, NameFollows
<1>3. n.name \in DOMAIN w /\ SpeltAs(r[n.name], w[n.name], o, n)
  <2> HIDE DEF r
  <2> QED BY <1>2, ValueFollows
<1>4. o.allowed \in Seq(Texts) /\ n.allowed \in Seq(Texts) /\ n.type \in FieldTypes
  BY DEF Harmless, Core
<1> HIDE DEF r, w
<1>5. SpeltAs(l[o.name], w[n.name], o, n)
  BY <1>2, <1>3
<1>6. w[n.name] \in StoredValues(n)
  BY <1>1, <1>4, <1>5, BecomesStored
<1>7. w = Propagated(l, ClassifyEdits(old, new))
  BY DEF Propagated, r, w, FieldRenames, ValueRenames
<1> QED BY <1>1, <1>3, <1>5, <1>6, <1>7

\* Through any edit of any schema that is accepted and not called semantic, each
\* stored label stays valid and canonical on the Core fields, and two labels agree
\* after it exactly if they agreed before.  The ids of the schema are distinct and
\* the edit submits none of them twice: the code looks fields up by id
\* (validate_and_derive_edit, classify_edits, _propagate_field_renames,
\* _propagate_enum_value_renames).
THEOREM EditsKeepLabels ==
  ASSUME NEW old \in Seq(Fields), DistinctIds(old), SaveAllowed(old),
         NEW submitted \in Seq(Fields), KnownOnce(old, submitted),
         NEW saved, \A l \in saved : StoredLabel(l, old)
  PROVE  LabelsSurviveEdit(old, submitted, saved)
<1> DEFINE new == Processed(old, submitted)
           changes == ClassifyEdits(old, new)
           after == [l \in saved |-> Propagated(l, changes)]
<1> SUFFICES ASSUME SaveAllowed(new), EditType(changes) # "semantic", ~ Twins(new)
             PROVE  /\ \A l \in saved : \A f \in Core(new) :
                         ValidField(after[l], f) /\ Normalized(after[l][f.name], f) = after[l][f.name]
                    /\ \A l, m \in saved :
                         ExactMatch(l, m, old) <=> ExactMatch(after[l], after[m], new)
  BY DEF LabelsSurviveEdit
<1>1. Harmless(old, new)
  BY EditIsHarmless
<1>2. \A f \in ToSet(new) : f.type \in FieldTypes
  BY DEF SaveAllowed
<1>3. ~ Twins(new)
  OBVIOUS
<1> HIDE DEF new
<1>4. ASSUME NEW l \in saved, NEW o \in Core(old), NEW n \in Core(new), o.id = n.id, Settled(o, n)
      PROVE  /\ n.name \in DOMAIN after[l] /\ after[l][n.name] \in StoredValues(n)
             /\ o.name \in DOMAIN l /\ l[o.name] \in StoredValues(o)
             /\ SpeltAs(l[o.name], after[l][n.name], o, n)
  <2>1. StoredLabel(l, old)
    OBVIOUS
  <2>2. /\ n.name \in DOMAIN Propagated(l, changes) /\ Propagated(l, changes)[n.name] \in StoredValues(n)
        /\ l[o.name] \in StoredValues(o) /\ SpeltAs(l[o.name], Propagated(l, changes)[n.name], o, n)
    BY <1>1, <1>2, <1>4, <2>1, LabelFollows
  <2>3. after[l] = Propagated(l, changes)
    OBVIOUS
  <2>4. o.name \in DOMAIN l
    BY <2>1 DEF StoredLabel
  <2> QED BY <2>2, <2>3, <2>4
<1> HIDE DEF after
<1>5. ASSUME NEW l \in saved, NEW f \in Core(new)
      PROVE  ValidField(after[l], f) /\ Normalized(after[l][f.name], f) = after[l][f.name]
  <2>1. PICK o \in Core(old) : o.id = f.id /\ Settled(o, f)
    BY <1>1, CoreWasThere
  <2>2. f.name \in DOMAIN after[l] /\ after[l][f.name] \in StoredValues(f)
    BY <1>4, <2>1
  <2>3. f.allowed \in Seq(Texts) /\ f.type \in FieldTypes
    BY <1>1, <1>2 DEF Harmless, Core
  <2>4. \A s, t \in AllowedSet(f) : Lowered(s) = Lowered(t) => s = t
    BY <1>3 DEF Twins, Core
  <2>5. Normalized(after[l][f.name], f) = after[l][f.name] /\ after[l][f.name] # Invalid
    BY <2>2, <2>3, <2>4, StoredIsNormal
  <2> QED BY <2>2, <2>5 DEF ValidField
<1>6. ASSUME NEW l \in saved, NEW m \in saved, NEW o \in Core(old), NEW n \in Core(new), o.id = n.id,
             Settled(o, n)
      PROVE  Matched(l, m, o) <=> Matched(after[l], after[m], n)
  <2>1. o.allowed \in Seq(Texts) /\ n.allowed \in Seq(Texts)
    BY <1>1 DEF Harmless, Core
  <2>2. l[o.name] = m[o.name] <=> after[l][n.name] = after[m][n.name]
    BY <1>4, <1>6, <2>1, BecomesApart
  <2> QED BY <1>4, <1>6, <2>2 DEF Matched
<1>7. ASSUME NEW l \in saved, NEW m \in saved
      PROVE  ExactMatch(l, m, old) <=> ExactMatch(after[l], after[m], new)
  <2>1. ASSUME ExactMatch(l, m, old), NEW n \in Core(new) PROVE Matched(after[l], after[m], n)
    <3>1. PICK o \in Core(old) : o.id = n.id /\ Settled(o, n)
      BY <1>1, CoreWasThere
    <3> QED BY <1>6, <2>1, <3>1 DEF ExactMatch
  <2>2. ASSUME ExactMatch(after[l], after[m], new), NEW o \in Core(old) PROVE Matched(l, m, o)
    <3>1. PICK n \in Core(new) : o.id = n.id /\ Settled(o, n)
      BY <1>1, CoreIsStillThere
    <3> QED BY <1>6, <2>2, <3>1 DEF ExactMatch
  <2> QED BY <2>1, <2>2 DEF ExactMatch
<1> QED BY <1>5, <1>7

-----------------------------------------------------------------------------
(* What is served.                                                         *)

\* Fields in order: each once.
LEMMA FieldsInOrder ==
  ASSUME NEW S \in SUBSET Fields, IsFiniteSet(S), \A f, g \in S : f.name = g.name => f = g
  PROVE  InOrder(S) \in Seq(S) /\ ToSet(InOrder(S)) = S
<1> DEFINE n == Cardinality(S)
           s == InOrder(S)
<1>1. n \in Nat
  BY FS_CardinalityType
<1>2. PICK R : R = {p \in S \X S : p[1].order < p[2].order \/ (p[1].order = p[2].order /\ p[1].name < p[2].name)}
  OBVIOUS
<1>3. \A f, g \in S : <<f, g>> \in R <=> f.order < g.order \/ (f.order = g.order /\ f.name < g.name)
  BY <1>2
<1>4. IsStrictOrder(R, S)
  <2>1. \A f \in S : f.order \in Int /\ f.name \in Int
    BY DEF Fields
  <2> QED BY <1>3, <2>1 DEF IsStrictOrder
<1>5. s = [i \in 1..n |-> CHOOSE f \in S : Cardinality({g \in S : g.order < f.order \/ (g.order = f.order /\ g.name < f.name)}) = i - 1]
  BY DEF InOrder, Sorted
<1>6. \A f \in S : Cardinality({g \in S : g.order < f.order \/ (g.order = f.order /\ g.name < f.name)}) = Place(f, S, R)
  <2>1. \A f \in S : {g \in S : g.order < f.order \/ (g.order = f.order /\ g.name < f.name)} = {g \in S : <<g, f>> \in R}
    BY <1>3
  <2> QED BY <2>1 DEF Place
<1>7. \A i \in 1..n : s[i] \in S /\ Place(s[i], S, R) = i - 1
  <2> SUFFICES ASSUME NEW i \in 1..n PROVE s[i] \in S /\ Place(s[i], S, R) = i - 1
    OBVIOUS
  <2>1. PICK f \in S : Place(f, S, R) = i - 1
    BY <1>4, EveryRankIsTaken
  <2> HIDE DEF s
  <2> DEFINE Behind(f_1) == Cardinality({g \in S : g.order < f_1.order \/ (g.order = f_1.order /\ g.name < f_1.name)})
  <2>2. s[i] = CHOOSE f_1 \in S : Behind(f_1) = i - 1
    BY <1>5
  <2>3. \A f_1 \in S : Behind(f_1) = Place(f_1, S, R)
    BY <1>6
  <2> HIDE DEF Behind
  <2> QED BY <2>1, <2>2, <2>3
<1>8. s \in [1..n -> S]
  BY <1>5, <1>7
<1> HIDE DEF s
<1>9. InOrderOf(s, S, R)
  BY <1>4, <1>7, <1>8, RankedIsInOrder
<1>10. s \in Seq(S)
  <2> HIDE DEF n
  <2> QED BY <1>1, <1>8
<1>11. DOMAIN s = 1..n
  BY <1>8
<1>12. ToSet(s) = S
  BY <1>7, <1>9, <1>11 DEF InOrderOf, ToSet
<1> QED BY <1>10, <1>12 DEF s

\* The names of fields in order: each field's, and no other.
LEMMA NamesInOrder ==
  ASSUME NEW S \in SUBSET Fields, IsFiniteSet(S), \A f, g \in S : f.name = g.name => f = g
  PROVE  NamesOf(InOrder(S)) \in Seq(Int) /\ ToSet(NamesOf(InOrder(S))) = {f.name : f \in S}
<1> DEFINE s == InOrder(S)
<1>1. s \in Seq(S) /\ ToSet(s) = S
  BY FieldsInOrder
<1>2. \A f \in S : f.name \in Int
  BY DEF Fields
<1> HIDE DEF s
<1>3. DOMAIN s = 1..Len(s) /\ Len(s) \in Nat /\ \A i \in DOMAIN s : s[i] \in S
  BY <1>1
<1>4. NamesOf(s) = [i \in 1..Len(s) |-> s[i].name]
  BY <1>3 DEF NamesOf
<1>5. NamesOf(s) \in Seq(Int)
  BY <1>2, <1>3, <1>4
<1>6. ToSet(NamesOf(s)) = {f.name : f \in S}
  <2>1. ToSet(NamesOf(s)) = {s[i].name : i \in DOMAIN s}
    BY <1>3, <1>4 DEF ToSet
  <2>2. S = {s[i] : i \in DOMAIN s}
    BY <1>1 DEF ToSet
  <2> QED BY <2>1, <2>2
<1> QED BY <1>5, <1>6 DEF s

\* A schema has finitely many fields.
LEMMA FieldsAreFinite ==
  ASSUME NEW T, NEW fields \in Seq(T)
  PROVE  IsFiniteSet(ToSet(fields)) /\ ToSet(fields) \in SUBSET T
<1> DEFINE g == [i \in 1..Len(fields) |-> fields[i]]
<1>1. DOMAIN fields = 1..Len(fields) /\ Len(fields) \in Nat
  OBVIOUS
<1>2. g \in Surjection(1..Len(fields), ToSet(fields))
  BY <1>1 DEF Surjection, ToSet
<1>3. ExistsSurjection(1..Len(fields), ToSet(fields))
  BY <1>2 DEF ExistsSurjection
<1>4. IsFiniteSet(ToSet(fields))
  BY <1>1, <1>3, FS_NatSurjection
<1>5. ToSet(fields) \in SUBSET T
  BY DEF ToSet
<1> QED BY <1>4, <1>5

\* Of two sequences in a row: what is in them, and what comes first.
LEMMA OneAfterTheOther ==
  ASSUME NEW T, NEW s \in Seq(T), NEW t \in Seq(T)
  PROVE  /\ s \o t \in Seq(T) /\ ToSet(s \o t) = ToSet(s) \cup ToSet(t)
         /\ \A k \in DOMAIN (s \o t) : \/ k \in DOMAIN s /\ k <= Len(s) /\ (s \o t)[k] = s[k]
                                     \/ (s \o t)[k] \in ToSet(t)
<1> DEFINE u == s \o t
<1>1. /\ DOMAIN s = 1..Len(s) /\ DOMAIN t = 1..Len(t) /\ Len(s) \in Nat /\ Len(t) \in Nat
      /\ u \in Seq(T) /\ DOMAIN u = 1..(Len(s) + Len(t))
  OBVIOUS
<1>2. \A k \in 1..Len(s) : k \in DOMAIN u /\ u[k] = s[k]
  BY <1>1
<1>3. \A k \in 1..Len(t) : Len(s) + k \in DOMAIN u /\ u[Len(s) + k] = t[k]
  BY <1>1
<1>4. ASSUME NEW k \in DOMAIN u, k > Len(s)
      PROVE  \E i \in 1..Len(t) : u[k] = t[i]
  <2>1. k - Len(s) \in 1..Len(t) /\ k = Len(s) + (k - Len(s))
    BY <1>1, <1>4
  <2> QED BY <1>3, <2>1
<1> HIDE DEF u
<1>5. \A k \in DOMAIN u : (k \in DOMAIN s /\ k <= Len(s) /\ u[k] = s[k]) \/ u[k] \in ToSet(t)
  <2> SUFFICES ASSUME NEW k \in DOMAIN u
               PROVE  (k \in DOMAIN s /\ k <= Len(s) /\ u[k] = s[k]) \/ u[k] \in ToSet(t)
    OBVIOUS
  <2>1. CASE k <= Len(s)
    BY <1>1, <1>2, <2>1
  <2>2. CASE k > Len(s)
    BY <1>1, <1>4, <2>2 DEF ToSet
  <2> QED BY <1>1, <2>1, <2>2
<1>6. ToSet(u) = ToSet(s) \cup ToSet(t)
  <2>1. \A x \in ToSet(u) : x \in ToSet(s) \cup ToSet(t)
    BY <1>5 DEF ToSet
  <2>2. \A x \in ToSet(s) : x \in ToSet(u)
    BY <1>1, <1>2 DEF ToSet
  <2>3. \A x \in ToSet(t) : x \in ToSet(u)
    BY <1>1, <1>3 DEF ToSet
  <2> QED BY <2>1, <2>2, <2>3
<1> QED BY <1>1, <1>5, <1>6 DEF u

\* Every field has its turn, and the rationale, if there is one, the first.
LEMMA OrderOfGeneration ==
  ASSUME NEW fields \in Seq(Fields), SaveAllowed(fields)
  PROVE  LET order == GenerationOrder(fields) IN
         /\ order \in Seq(Int)
         /\ ToSet(order) = Names(fields)
         /\ \A k \in DOMAIN order : order[k] = RationaleNote => k = 1
<1> DEFINE others == {f \in ToSet(fields) : f.name # RationaleNote}
           Aux == {f \in others : f.role = "aux"}
           Cores == {f \in others : f.role = "core"}
           a == IF RationaleNote \in Names(fields) THEN <<RationaleNote>> ELSE <<>>
           b == NamesOf(InOrder(Aux))
           c == NamesOf(InOrder(Cores))
           order == GenerationOrder(fields)
<1>1. IsFiniteSet(ToSet(fields)) /\ ToSet(fields) \in SUBSET Fields
  BY FieldsAreFinite
<1>2. \A f, g \in ToSet(fields) : f.name = g.name => f = g
  BY DEF SaveAllowed, ToSet
<1>3. Aux \in SUBSET ToSet(fields) /\ Cores \in SUBSET ToSet(fields)
  OBVIOUS
<1>4. b \in Seq(Int) /\ ToSet(b) = {f.name : f \in Aux}
  <2> HIDE DEF Aux
  <2>1. IsFiniteSet(Aux)
    BY <1>1, <1>3, FS_Subset
  <2> QED BY <1>1, <1>2, <1>3, <2>1, NamesInOrder
<1>5. c \in Seq(Int) /\ ToSet(c) = {f.name : f \in Cores}
  <2> HIDE DEF Cores
  <2>1. IsFiniteSet(Cores)
    BY <1>1, <1>3, FS_Subset
  <2> QED BY <1>1, <1>2, <1>3, <2>1, NamesInOrder
<1>6. order = a \o b \o c
  BY DEF GenerationOrder
<1>7. a \in Seq(Int) /\ Len(a) <= 1 /\ Len(a) \in Nat /\ ToSet(a) = {RationaleNote} \cap Names(fields)
  BY DEF RationaleNote, ToSet
<1>8. RationaleNote \notin ToSet(b) /\ RationaleNote \notin ToSet(c)
  BY <1>4, <1>5
<1>9. ToSet(a) \cup ToSet(b) \cup ToSet(c) = Names(fields)
  <2>1. ToSet(fields) = Aux \cup Cores \cup {f \in ToSet(fields) : f.name = RationaleNote}
    BY <1>1 DEF Fields
  <2> HIDE DEF Aux, Cores, a, b, c
  <2> QED BY <1>3, <1>4, <1>5, <1>7, <2>1 DEF Names
<1> HIDE DEF a, b, c, order
<1>10. order \in Seq(Int)
  BY <1>4, <1>5, <1>6, <1>7
<1>11. /\ a \o b \in Seq(Int) /\ ToSet(a \o b) = ToSet(a) \cup ToSet(b)
       /\ \A k \in DOMAIN (a \o b) : k <= Len(a) \/ (a \o b)[k] \in ToSet(b)
  BY <1>4, <1>7, OneAfterTheOther
<1>12. /\ ToSet(order) = ToSet(a \o b) \cup ToSet(c)
       /\ \A k \in DOMAIN order : \/ k \in DOMAIN (a \o b) /\ order[k] = (a \o b)[k]
                                 \/ order[k] \in ToSet(c)
  <2> DEFINE ab == a \o b
  <2>1. ab \in Seq(Int) /\ c \in Seq(Int) /\ order = ab \o c
    BY <1>5, <1>6, <1>11
  <2> HIDE DEF ab
  <2>2. /\ ToSet(ab \o c) = ToSet(ab) \cup ToSet(c)
        /\ \A k \in DOMAIN (ab \o c) : (k \in DOMAIN ab /\ (ab \o c)[k] = ab[k]) \/ (ab \o c)[k] \in ToSet(c)
    BY <2>1, OneAfterTheOther
  <2> QED BY <2>1, <2>2 DEF ab
<1>14. ToSet(order) = Names(fields)
  BY <1>9, <1>11, <1>12
<1>15. ASSUME NEW k \in DOMAIN order, order[k] = RationaleNote
       PROVE  k = 1
  <2>1. k \in DOMAIN (a \o b) /\ (a \o b)[k] = RationaleNote
    BY <1>8, <1>12, <1>15
  <2>2. k <= Len(a)
    BY <1>8, <1>11, <2>1
  <2>3. k \in Nat /\ k > 0
    BY <1>10
  <2> QED BY <1>7, <2>2, <2>3
<1> QED BY <1>10, <1>14, <1>15 DEF order

\* What is chosen from a sequence depends only on what is in it.
LEMMA AmongAll ==
  ASSUME NEW seq, NEW S, NEW T, ToSet(seq) \subseteq S, ToSet(seq) \subseteq T
  PROVE  Among(seq, S) = Among(seq, T)
<1>1. {i \in DOMAIN seq : seq[i] \in S} = {i \in DOMAIN seq : seq[i] \in T}
  BY DEF ToSet
<1> QED BY <1>1 DEF Among

\* Whatever the acceptable schema and the Inference Contract, what is served asks
\* for each Core field and nothing else, after the rationale if it has one, and
\* putting the rationale last drops no Core field
\* (_derive_json_schema, filter_output_schema_for_field_mode, place_rationale_last).
THEOREM ServingKeepsCore ==
  ASSUME NEW fields \in Seq(Fields), SaveAllowed(fields)
  PROVE  ServingAsksForCore(fields)
<1> DEFINE schema == Derived(fields)
           coreNames == {f.name : f \in Core(fields)}
           order == GenerationOrder(fields)
           named(n) == CHOOSE f \in ToSet(fields) : f.name = n
           Modes == {"all", "aux_and_core", "core_only"}
           KeptBy(sch, mode) == CASE mode = "all" -> ToSet(sch.order)
                                  [] mode = "aux_and_core" -> ToSet(sch.order) \ {RationaleNote}
                                  [] mode = "core_only" -> coreNames
<1>1. /\ order \in Seq(Int) /\ ToSet(order) = Names(fields)
      /\ \A k \in DOMAIN order : order[k] = RationaleNote => k = 1
  BY OrderOfGeneration
<1>2. coreNames \subseteq Names(fields) /\ RationaleNote \notin coreNames
  BY DEF Names, Core, SaveAllowed, RationaleAllowed
<1>3. {n \in Names(fields) : named(n).role = "core"} = coreNames
  <2>1. \A f, g \in ToSet(fields) : f.name = g.name => f = g
    BY DEF SaveAllowed, ToSet
  <2>2. \A f \in ToSet(fields) : named(f.name) = f
    BY <2>1
  <2> HIDE DEF named
  <2> QED BY <2>2 DEF Names, Core
<1>4. schema.order = order /\ schema.required = Among(order, coreNames)
  <2>1. schema.required = Among(order, {n \in Names(fields) : named(n).role = "core"})
    BY DEF Derived
  <2>2. schema.order = order
    BY DEF Derived
  <2> QED BY <1>3, <2>1, <2>2
<1> HIDE DEF schema, order, coreNames
<1>5. ToSet(schema.required) = coreNames /\ schema.required \in Seq(Int)
  <2>1. Among(order, coreNames) \in Seq(Int) /\ ToSet(Among(order, coreNames)) = ToSet(order) \cap coreNames
    BY <1>1, AmongKeepsOrder
  <2> QED BY <1>1, <1>2, <1>4, <2>1
<1>6. ASSUME NEW sch, sch.required = schema.required, sch.order \in Seq(Int), coreNames \subseteq ToSet(sch.order),
             NEW mode \in Modes
      PROVE  /\ Serving(sch, mode, coreNames).required = Among(schema.required, coreNames)
             /\ Serving(sch, mode, coreNames).order = Among(sch.order, KeptBy(sch, mode))
  <2> DEFINE kept == Among(sch.order, KeptBy(sch, mode))
  <2>1. Serving(sch, mode, coreNames) =
          [order |-> kept, properties |-> [n \in ToSet(kept) |-> sch.properties[n]],
           required |-> Among(sch.required, ToSet(kept))]
    BY DEF Serving
  <2>2. coreNames \subseteq KeptBy(sch, mode)
    BY <1>2, <1>6
  <2>3. ToSet(kept) = ToSet(sch.order) \cap KeptBy(sch, mode)
    <3> HIDE DEF KeptBy
    <3> QED BY <1>6, AmongKeepsOrder
  <2>4. coreNames \subseteq ToSet(kept)
    BY <1>6, <2>2, <2>3
  <2> HIDE DEF kept, KeptBy
  <2>5. Among(schema.required, ToSet(kept)) = Among(schema.required, coreNames)
    BY <1>5, <2>4, AmongAll
  <2> QED BY <1>6, <2>1, <2>5 DEF kept
<1>7. ToSet(Among(schema.required, coreNames)) = coreNames
  <2>1. schema.required \in Seq(Int)
    BY <1>5
  <2>2. ToSet(Among(schema.required, coreNames)) = ToSet(schema.required) \cap coreNames
    BY <2>1, AmongKeepsOrder
  <2> QED BY <1>5, <2>2
<1>8. ASSUME NEW mode \in Modes, NEW i \in DOMAIN Among(order, KeptBy(schema, mode)),
             NEW j \in DOMAIN Among(order, KeptBy(schema, mode)),
             Among(order, KeptBy(schema, mode))[i] = RationaleNote,
             Among(order, KeptBy(schema, mode))[j] \in coreNames
      PROVE  i < j
  <2> DEFINE kept == Among(order, KeptBy(schema, mode))
  <2> HIDE DEF KeptBy
  <2>1. kept \in Seq(Int) /\ \A k, m \in DOMAIN kept : k < m =>
          \E x, y \in DOMAIN order : x < y /\ order[x] = kept[k] /\ order[y] = kept[m]
    BY <1>1, AmongKeepsOrder
  <2>2. kept[i] = RationaleNote /\ kept[j] \in coreNames
    BY <1>8
  <2>3. i \in DOMAIN kept /\ j \in DOMAIN kept
    OBVIOUS
  <2> HIDE DEF kept
  <2>4. i \in Nat /\ j \in Nat /\ i # j
    BY <1>2, <2>1, <2>2, <2>3
  <2>5. ASSUME j < i PROVE FALSE
    <3>1. PICK x, y \in DOMAIN order : x < y /\ order[x] = kept[j] /\ order[y] = kept[i]
      BY <2>1, <2>3, <2>5
    <3>2. y = 1
      BY <1>1, <2>2, <3>1
    <3>3. x \in Nat /\ x > 0
      BY <1>1
    <3> QED BY <3>1, <3>2, <3>3
  <2> QED BY <2>4, <2>5
<1>9. /\ RationaleLast(schema).required = schema.required
      /\ RationaleLast(schema).order \in Seq(Int)
      /\ coreNames \subseteq ToSet(RationaleLast(schema).order)
  <2> DEFINE rest == Among(schema.order, ToSet(schema.order) \ {RationaleNote})
  <2>1. rest \in Seq(Int) /\ ToSet(rest) = ToSet(order) \ {RationaleNote}
    BY <1>1, <1>4, AmongKeepsOrder
  <2>2. CASE rest = schema.order
    BY <1>1, <1>2, <1>4, <2>2 DEF RationaleLast
  <2>3. CASE rest # schema.order
    <3>1. RationaleLast(schema) = [schema EXCEPT !.order = Append(rest, RationaleNote)]
      BY <2>3 DEF RationaleLast
    <3>2. DOMAIN schema = {"order", "properties", "required"}
      BY DEF schema, Derived
    <3> HIDE DEF rest
    <3>3. /\ RationaleLast(schema).order = Append(rest, RationaleNote)
          /\ RationaleLast(schema).required = schema.required
      BY <3>1, <3>2
    <3>4. RationaleNote \in Int
      BY DEF RationaleNote
    <3>5. Append(rest, RationaleNote) \in Seq(Int)
      BY <2>1, <3>4
    <3>6. \A k \in DOMAIN rest : k \in DOMAIN Append(rest, RationaleNote) /\ Append(rest, RationaleNote)[k] = rest[k]
      BY <2>1, <3>4
    <3>7. ToSet(rest) \subseteq ToSet(Append(rest, RationaleNote))
      BY <3>6 DEF ToSet
    <3> QED BY <1>1, <1>2, <2>1, <3>3, <3>5, <3>7
  <2> QED BY <2>2, <2>3
<1>10. ASSUME NEW mode \in Modes
       PROVE  /\ Serving(schema, mode, coreNames).required = Among(schema.required, coreNames)
              /\ Serving(schema, mode, coreNames).order = Among(order, KeptBy(schema, mode))
              /\ Serving(RationaleLast(schema), mode, coreNames).required = Among(schema.required, coreNames)
  <2>1. schema.order \in Seq(Int) /\ coreNames \subseteq ToSet(schema.order)
    BY <1>1, <1>2, <1>4
  <2> HIDE DEF KeptBy
  <2> QED BY <1>4, <1>6, <1>9, <2>1
<1> HIDE DEF KeptBy
<1> SUFFICES ASSUME NEW mode \in Modes
             PROVE  LET served == Serving(schema, mode, coreNames) IN
                    /\ ToSet(served.required) = coreNames
                    /\ \A i, j \in DOMAIN served.order :
                         served.order[i] = RationaleNote /\ served.order[j] \in coreNames => i < j
                    /\ Serving(RationaleLast(schema), mode, coreNames).required = served.required
  BY DEF ServingAsksForCore, schema, coreNames
<1> QED BY <1>7, <1>8, <1>10

-----------------------------------------------------------------------------
(* What is accepted.                                                       *)

\* The text that stands for a word is one that is spelled so.
LEMMA CanonicalIsAllowed ==
  ASSUME NEW f, f.allowed \in Seq(Texts), NEW w, Spellings(f, w) # {}
  PROVE  CanonicalText(f, w) \in AllowedSet(f) /\ Lowered(CanonicalText(f, w)) = w
<1> DEFINE S == Spellings(f, w)
<1>1. DOMAIN f.allowed = 1..Len(f.allowed) /\ Len(f.allowed) \in Nat
  OBVIOUS
<1>2. S \in SUBSET Int /\ IsFiniteSet(S)
  <2>1. IsFiniteSet(1..Len(f.allowed))
    BY <1>1, FS_Interval
  <2>2. S \in SUBSET (1..Len(f.allowed))
    BY <1>1 DEF Spellings
  <2> QED BY <2>1, <2>2, FS_Subset
<1>3. Max(S) \in S
  <2> HIDE DEF S
  <2>1. S # {}
    BY DEF S
  <2> QED BY <1>2, <2>1, MaxIsGreatest
<1> QED BY <1>3 DEF CanonicalText, Spellings, AllowedSet, ToSet

\* A value that was normalized is normal.
LEMMA NormalizedTwice ==
  ASSUME NEW f, f.allowed \in Seq(Texts), f.type \in FieldTypes, NEW v, Normalized(v, f) # Invalid
  PROVE  Normalized(Normalized(v, f), f) = Normalized(v, f)
<1>1. ASSUME NEW e, KnownText(f, e)
      PROVE  /\ KnownText(f, CanonicalText(f, Lowered(e)))
             /\ Lowered(CanonicalText(f, Lowered(e))) = Lowered(e)
  <2>1. Spellings(f, Lowered(e)) # {}
    BY <1>1 DEF KnownText
  <2>2. CanonicalText(f, Lowered(e)) \in AllowedSet(f) /\ Lowered(CanonicalText(f, Lowered(e))) = Lowered(e)
    BY <2>1, CanonicalIsAllowed
  <2>3. CanonicalText(f, Lowered(e))[1] = "text"
    BY <2>2, AllowedAreTexts
  <2> QED BY <2>1, <2>2, <2>3 DEF KnownText
<1>2. CASE f.type = "enum"
  <2>1. \A x : Normalized(x, f) = NormalizedEnum(x, f)
    BY <1>2 DEF Normalized
  <2>2. KnownText(f, v) /\ NormalizedEnum(v, f) = CanonicalText(f, Lowered(v))
    BY <2>1 DEF NormalizedEnum
  <2> QED BY <1>1, <2>1, <2>2 DEF NormalizedEnum
<1>3. CASE f.type = "enum_set"
  <2>1. \A x : Normalized(x, f) = NormalizedSet(x, f)
    BY <1>3 DEF Normalized
  <2> DEFINE S == {CanonicalText(f, Lowered(e)) : e \in v[2]}
             w == <<"list", S>>
  <2>2. v[1] = "list" /\ (\A e \in v[2] : KnownText(f, e)) /\ NormalizedSet(v, f) = w
    BY <2>1 DEF NormalizedSet
  <2>3. w[1] = "list" /\ w[2] = S
    OBVIOUS
  <2>4. \A e \in S : KnownText(f, e)
    BY <1>1, <2>2
  <2>5. {CanonicalText(f, Lowered(e)) : e \in S} = S
    BY <1>1, <2>2
  <2> HIDE DEF S
  <2>6. NormalizedSet(w, f) = w
    BY <2>3, <2>4, <2>5 DEF NormalizedSet
  <2> QED BY <2>1, <2>2, <2>6
<1>4. CASE f.type = "boolean"
  BY <1>4 DEF Normalized, NormalizedBoolean
<1>5. CASE f.type = "integer"
  <2>1. \A x : Normalized(x, f) = NormalizedInteger(x, f)
    BY <1>5 DEF Normalized
  <2>2. Within(v[2], f) /\ NormalizedInteger(v, f) = <<"int", v[2]>>
    BY <2>1 DEF NormalizedInteger
  <2>3. NormalizedInteger(<<"int", v[2]>>, f) = <<"int", v[2]>>
    BY <2>2 DEF NormalizedInteger
  <2> QED BY <2>1, <2>2, <2>3
<1>6. CASE f.type = "string"
  <2>1. \A x : Normalized(x, f) = NormalizedString(x, f)
    BY <1>6 DEF Normalized
  <2>2. v[1] = "text" /\ Within(v[2], f) /\ NormalizedString(v, f) = Stripped(v)
    BY <2>1 DEF NormalizedString
  <2>3. CASE v[3] = "padded"
    <3>1. Stripped(v) = <<"text", v[2], "plain">>
      BY <2>3 DEF Stripped, Text
    <3>2. NormalizedString(<<"text", v[2], "plain">>, f) = <<"text", v[2], "plain">>
      BY <2>2 DEF NormalizedString, Stripped
    <3> QED BY <2>1, <2>2, <3>1, <3>2
  <2>4. CASE v[3] # "padded"
    BY <2>1, <2>2, <2>4 DEF Stripped
  <2> QED BY <2>3, <2>4
<1> QED BY <1>2, <1>3, <1>4, <1>5, <1>6 DEF FieldTypes, Categorical

\* What an accepted answer stores of a field.
LEMMA AcceptedIs ==
  ASSUME NEW fields, \A f, g \in ToSet(fields) : f.name = g.name => f = g,
         NEW raw, ValidateProposal(raw, fields).valid
  PROVE  LET json == ValidateProposal(raw, fields).json
             kept == {f \in ToSet(fields) : ValidField(raw[2], f)}
         IN /\ raw # NoObject /\ Core(fields) \subseteq kept
            /\ DOMAIN json = {f.name : f \in kept}
            /\ json = [n \in DOMAIN json |-> json[n]]
            /\ \A f \in kept : json[f.name] = Normalized(raw[2][f.name], f) /\ json[f.name] # Invalid
<1> DEFINE report == ValidateProposal(raw, fields)
           json == report.json
           kept == {f \in ToSet(fields) : ValidField(raw[2], f)}
<1>1. raw # NoObject /\ Core(fields) \subseteq kept
  <2>1. ~ (raw = NoObject \/ \E f \in Core(fields) : ~ ValidField(raw[2], f))
    BY DEF ValidateProposal
  <2> QED BY <2>1 DEF Core
<1>2. json = [n \in {f.name : f \in kept} |-> Normalized(raw[2][n], CHOOSE f \in kept : f.name = n)]
  BY <1>1 DEF ValidateProposal
<1>3. ASSUME NEW f \in kept
      PROVE  json[f.name] = Normalized(raw[2][f.name], f) /\ json[f.name] # Invalid
  <2>1. (CHOOSE g \in kept : g.name = f.name) = f
    OBVIOUS
  <2>2. json[f.name] = Normalized(raw[2][f.name], CHOOSE g \in kept : g.name = f.name)
    <3> HIDE DEF kept, json
    <3> QED BY <1>2
  <2>3. Normalized(raw[2][f.name], f) # Invalid
    BY DEF ValidField
  <2> HIDE DEF kept, json
  <2> QED BY <2>1, <2>2, <2>3
<1> HIDE DEF json, kept
<1>4. DOMAIN json = {f.name : f \in kept} /\ json = [n \in DOMAIN json |-> json[n]]
  BY <1>2
<1> QED BY <1>1, <1>3, <1>4 DEF json, kept

\* Of any answer to any acceptable schema: what is accepted is accepted again and
\* stays as it is, and what is not counts as right against no label that could
\* have been saved (validate_proposal, normalize_ground_truth, match_fields).
THEOREM AcceptedAnswersStay ==
  ASSUME NEW fields \in Seq(Fields), SaveAllowed(fields), NEW raw
  PROVE  AcceptedStays(raw, fields)
<1> DEFINE report == ValidateProposal(raw, fields)
           json == report.json
           kept == {f \in ToSet(fields) : ValidField(raw[2], f)}
<1>1. \A f, g \in ToSet(fields) : f.name = g.name => f = g
  BY DEF SaveAllowed, ToSet
<1>2. \A f \in ToSet(fields) : f.allowed \in Seq(Texts) /\ f.type \in FieldTypes
  <2>1. \A i \in DOMAIN fields : fields[i] \in Fields
    OBVIOUS
  <2> QED BY <2>1 DEF ToSet, Fields, SaveAllowed
<1>3. CASE report.valid
  <2>1. /\ raw # NoObject /\ Core(fields) \subseteq kept
        /\ DOMAIN json = {f.name : f \in kept}
        /\ json = [n \in DOMAIN json |-> json[n]]
        /\ \A f \in kept : json[f.name] = Normalized(raw[2][f.name], f) /\ json[f.name] # Invalid
    BY <1>1, <1>3, AcceptedIs
  <2>2. kept \subseteq ToSet(fields)
    OBVIOUS
  <2>3. report = [valid |-> TRUE, json |-> json]
    BY <1>3 DEF ValidateProposal
  <2> HIDE DEF json
  <2>4. \A f \in kept : ValidField(json, f) /\ Normalized(json[f.name], f) = json[f.name]
    <3> SUFFICES ASSUME NEW f \in kept
                 PROVE  ValidField(json, f) /\ Normalized(json[f.name], f) = json[f.name]
      OBVIOUS
    <3>1. Normalized(raw[2][f.name], f) # Invalid /\ f.allowed \in Seq(Texts) /\ f.type \in FieldTypes
      BY <1>2, <2>1, <2>2
    <3>2. Normalized(json[f.name], f) = json[f.name]
      BY <2>1, <3>1, NormalizedTwice
    <3>3. f.name \in DOMAIN json
      BY <2>1
    <3> QED BY <2>1, <3>2, <3>3 DEF ValidField
  <2>5. {f \in ToSet(fields) : ValidField(json, f)} = kept
    <3>1. \A f \in ToSet(fields) : f.name \in DOMAIN json => f \in kept
      BY <1>1, <2>1, <2>2
    <3> HIDE DEF kept
    <3> QED BY <2>2, <2>4, <3>1 DEF ValidField
  <2> HIDE DEF kept
  <2>6. \A f \in kept : {g \in ToSet(fields) : g.name = f.name /\ ValidField(json, g)} = {f}
    BY <1>1, <2>2, <2>4
  <2>7. NormalizeGroundTruth(json, fields) = json
    <3>1. ASSUME NEW n \in DOMAIN json
          PROVE  LET S == {f \in ToSet(fields) : f.name = n /\ ValidField(json, f)} IN
                 (IF S = {} THEN json[n] ELSE Normalized(json[n], CHOOSE f \in S : TRUE)) = json[n]
      <4>1. PICK f \in kept : f.name = n
        BY <2>1
      <4> DEFINE S == {g \in ToSet(fields) : g.name = n /\ ValidField(json, g)}
      <4>2. S = {f}
        BY <2>6, <4>1
      <4>3. S # {} /\ (CHOOSE g \in S : TRUE) = f
        BY <4>2
      <4> HIDE DEF S
      <4>4. (IF S = {} THEN json[n] ELSE Normalized(json[n], CHOOSE g \in S : TRUE)) = json[n]
        BY <2>4, <4>1, <4>3
      <4> QED BY <4>4 DEF S
    <3>2. NormalizeGroundTruth(json, fields) = [n \in DOMAIN json |-> json[n]]
      BY <3>1 DEF NormalizeGroundTruth
    <3> QED BY <2>1, <3>2
  <2>8. ValidateProposal(<<"object", json>>, fields) = report
    <3> DEFINE again == <<"object", json>>
    <3>1. again # NoObject /\ again[2] = json
      BY DEF NoObject
    <3>2. \A f \in Core(fields) : ValidField(again[2], f)
      BY <2>1, <2>4, <3>1
    <3>3. {f \in ToSet(fields) : ValidField(again[2], f)} = kept
      BY <2>5, <3>1
    <3> HIDE DEF again
    <3>4. ValidateProposal(again, fields) =
            [valid |-> TRUE, json |-> [n \in {f.name : f \in kept} |->
                                         Normalized(again[2][n], CHOOSE f \in kept : f.name = n)]]
      <4> DEFINE k == {f \in ToSet(fields) : ValidField(again[2], f)}
      <4>1. ~ (again = NoObject \/ \E f \in Core(fields) : ~ ValidField(again[2], f))
        BY <3>1, <3>2
      <4>2. ValidateProposal(again, fields) =
              [valid |-> TRUE, json |-> [n \in {f.name : f \in k} |->
                                           Normalized(again[2][n], CHOOSE f \in k : f.name = n)]]
        BY <4>1 DEF ValidateProposal
      <4>3. k = kept
        BY <3>3
      <4> HIDE DEF k
      <4> QED BY <4>2, <4>3
    <3>5. \A n \in {f.name : f \in kept} : Normalized(json[n], CHOOSE f \in kept : f.name = n) = json[n]
      <4> SUFFICES ASSUME NEW f \in kept
                   PROVE  Normalized(json[f.name], CHOOSE g \in kept : g.name = f.name) = json[f.name]
        OBVIOUS
      <4>1. (CHOOSE g \in kept : g.name = f.name) = f
        BY <1>1, <2>2
      <4> QED BY <2>4, <4>1
    <3>6. [n \in {f.name : f \in kept} |-> Normalized(again[2][n], CHOOSE f \in kept : f.name = n)] = json
      BY <2>1, <3>1, <3>5
    <3> QED BY <2>3, <3>4, <3>6 DEF again
  <2>9. ExactMatch(json, NormalizeGroundTruth(raw[2], fields), fields)
    <3> DEFINE truth == NormalizeGroundTruth(raw[2], fields)
    <3> SUFFICES ASSUME NEW f \in Core(fields) PROVE Matched(json, truth, f)
      BY DEF ExactMatch
    <3>1. f \in kept /\ f.name \in DOMAIN json /\ json[f.name] = Normalized(raw[2][f.name], f)
      BY <2>1
    <3>2. ValidField(raw[2], f)
      BY <3>1 DEF kept
    <3> DEFINE S == {g \in ToSet(fields) : g.name = f.name /\ ValidField(raw[2], g)}
    <3>3. S = {f}
      BY <1>1, <3>2 DEF Core
    <3>4. S # {} /\ (CHOOSE g \in S : TRUE) = f
      BY <3>3
    <3>5. f.name \in DOMAIN raw[2]
      BY <3>2 DEF ValidField
    <3>6. truth = [n \in DOMAIN raw[2] |->
                     LET T == {g \in ToSet(fields) : g.name = n /\ ValidField(raw[2], g)} IN
                     IF T = {} THEN raw[2][n] ELSE Normalized(raw[2][n], CHOOSE g \in T : TRUE)]
      BY DEF NormalizeGroundTruth
    <3>7. f.name \in DOMAIN truth
          /\ truth[f.name] = IF S = {} THEN raw[2][f.name] ELSE Normalized(raw[2][f.name], CHOOSE g \in S : TRUE)
      BY <3>5, <3>6
    <3> HIDE DEF S, truth
    <3>8. truth[f.name] = json[f.name]
      BY <3>1, <3>4, <3>7
    <3> QED BY <3>1, <3>7, <3>8 DEF Matched
  <2>10. /\ NormalizeGroundTruth(report.json, fields) = report.json
         /\ ValidateProposal(<<"object", report.json>>, fields) = report
         /\ ExactMatch(report.json, NormalizeGroundTruth(raw[2], fields), fields)
    BY <2>7, <2>8, <2>9 DEF json
  <2> HIDE DEF report
  <2> QED BY <1>3, <2>10 DEF AcceptedStays, report
<1>4. CASE ~ report.valid
  <2>1. ASSUME NEW l \in LabelsUnder(fields) PROVE ~ ExactMatch(<<>>, l, fields)
    <3>1. {f.name : f \in Core(fields)} \subseteq DOMAIN l
      BY DEF LabelsUnder
    <3>2. PICK f \in Core(fields) : TRUE
      BY DEF SaveAllowed
    <3>3. f.name \in DOMAIN l /\ f.name \notin DOMAIN <<>>
      BY <3>1
    <3>4. ~ Matched(<<>>, l, f)
      BY <3>3 DEF Matched
    <3> QED BY <3>4 DEF ExactMatch
  <2> QED BY <1>4, <2>1 DEF AcceptedStays
<1> QED BY <1>3, <1>4

-----------------------------------------------------------------------------
(* What is measured.                                                       *)

\* Positions of a sequence are counted with numbers.
LEMMA CountedPositions ==
  ASSUME NEW T, NEW seq \in Seq(T), NEW A \in SUBSET DOMAIN seq
  PROVE  /\ IsFiniteSet(A) /\ Cardinality(A) \in Nat /\ Cardinality(A) <= Len(seq)
         /\ (Cardinality(A) = Len(seq) => A = DOMAIN seq)
         /\ (Cardinality(A) = 0 <=> A = {})
         /\ \A B \in SUBSET A : Cardinality(B) \in Nat /\ Cardinality(B) <= Cardinality(A)
<1>1. DOMAIN seq = 1..Len(seq) /\ Len(seq) \in Nat
  OBVIOUS
<1>2. IsFiniteSet(1..Len(seq)) /\ Cardinality(1..Len(seq)) = Len(seq)
  <2>1. 1 \in Int /\ Len(seq) \in Int
    BY <1>1
  <2>2. /\ IsFiniteSet(1..Len(seq))
        /\ Cardinality(1..Len(seq)) = IF 1 > Len(seq) THEN 0 ELSE Len(seq) - 1 + 1
    BY <2>1, FS_Interval
  <2> QED BY <1>1, <2>2
<1>3. /\ IsFiniteSet(A) /\ Cardinality(A) <= Cardinality(1..Len(seq))
      /\ (Cardinality(1..Len(seq)) = Cardinality(A) => 1..Len(seq) = A)
  BY <1>1, <1>2, FS_Subset
<1>4. Cardinality(A) \in Nat /\ (Cardinality(A) = 0 <=> A = {})
  BY <1>3, FS_CardinalityType, FS_EmptySet
<1>5. \A B \in SUBSET A : Cardinality(B) \in Nat /\ Cardinality(B) <= Cardinality(A)
  <2> SUFFICES ASSUME NEW B \in SUBSET A PROVE Cardinality(B) \in Nat /\ Cardinality(B) <= Cardinality(A)
    OBVIOUS
  <2>1. IsFiniteSet(B) /\ Cardinality(B) <= Cardinality(A)
    BY <1>3, FS_Subset
  <2> QED BY <2>1, FS_CardinalityType
<1> QED BY <1>1, <1>2, <1>3, <1>4, <1>5

\* Of the values of a field, those that something was got right of.
GotRight(results, f, v) ==
  {i \in DOMAIN results : v \in ValuesIn(results[i][1], f) /\ v \in ValuesIn(results[i][2], f)}
GotWrong(results, f, v) ==
  {i \in DOMAIN results : v \in ValuesIn(results[i][1], f) /\ v \notin ValuesIn(results[i][2], f)}
NotGot(results, f, v) ==
  {i \in DOMAIN results : v \notin ValuesIn(results[i][1], f) /\ v \in ValuesIn(results[i][2], f)}

F1Of(tp, fp, fn) == F1(Ratio(tp, tp + fp), Ratio(tp, tp + fn))

\* F1 of a value, from what was got right, wrong and not at all.
LEMMA ValueMetricsAre ==
  ASSUME NEW results, NEW f, NEW v
  PROVE  ValueMetrics(results, f, v).f1 = F1Of(Cardinality(GotRight(results, f, v)),
                                               Cardinality(GotWrong(results, f, v)),
                                               Cardinality(NotGot(results, f, v)))
BY DEF ValueMetrics, Count, GotRight, GotWrong, NotGot, F1Of

\* Nothing right is an F1 of zero.
LEMMA NothingRight ==
  ASSUME NEW fp \in Nat, NEW fn \in Nat
  PROVE  F1Of(0, fp, fn) = Zero
<1>1. \A d \in Nat : Ratio(0, 0 + d)[1] = 0 /\ Ratio(0, 0 + d)[2] \in Nat
  BY DEF Ratio, Zero
<1>2. Plus(Ratio(0, 0 + fp), Ratio(0, 0 + fn))[1] = 0
  <2> DEFINE a == Ratio(0, 0 + fp)
             b == Ratio(0, 0 + fn)
  <2>1. a[1] = 0 /\ b[1] = 0 /\ a[2] \in Nat /\ b[2] \in Nat
    BY <1>1
  <2> HIDE DEF a, b
  <2>2. a[1] * b[2] + b[1] * a[2] = 0
    BY <2>1
  <2> QED BY <2>2 DEF Plus, a, b
<1> QED BY <1>2 DEF F1Of, F1

\* Everything right is an F1 of one.
LEMMA AllRight ==
  ASSUME NEW tp \in Nat \ {0}
  PROVE  AtLeast(F1Of(tp, 0, 0), <<1, 1>>)
<1>1. Ratio(tp, tp + 0) = <<tp, tp>>
  BY DEF Ratio
<1>2. PICK q \in Nat : q = tp * tp /\ q # 0
  <2>1. tp * tp \in Nat /\ tp * tp # 0
    OBVIOUS
  <2> QED BY <2>1
<1>3. Plus(<<tp, tp>>, <<tp, tp>>) = <<q + q, q>>
  BY <1>2 DEF Plus
<1>4. F1(<<tp, tp>>, <<tp, tp>>) = <<2 * tp * tp * q, tp * tp * (q + q)>>
  <2> DEFINE a == <<tp, tp>>
             sum == Plus(a, a)
  <2>1. a[1] = tp /\ a[2] = tp
    OBVIOUS
  <2>2. sum[1] = q + q /\ sum[2] = q /\ sum[1] # 0
    BY <1>2, <1>3
  <2> HIDE DEF a, sum
  <2>3. F1(a, a) = <<2 * a[1] * a[1] * sum[2], a[2] * a[2] * sum[1]>>
    BY <2>2 DEF F1, sum
  <2>4. F1(a, a) = <<2 * tp * tp * q, tp * tp * (q + q)>>
    BY <2>1, <2>2, <2>3
  <2> QED BY <2>4 DEF a
<1>5. 2 * tp * tp * q = tp * tp * (q + q) /\ tp * tp * (q + q) \in Nat
  <2>1. 2 * tp * tp = 2 * q
    BY <1>2
  <2>2. 2 * q * q = q * (q + q)
    OBVIOUS
  <2>3. q * (q + q) \in Nat
    OBVIOUS
  <2> QED BY <1>2, <2>1, <2>2, <2>3
<1>6. F1Of(tp, 0, 0) = <<2 * tp * tp * q, tp * tp * (q + q)>>
  BY <1>1, <1>4 DEF F1Of
<1> DEFINE m == tp * tp * (q + q)
<1>7. F1Of(tp, 0, 0) = <<m, m>> /\ m \in Nat
  BY <1>5, <1>6
<1> HIDE DEF m
<1> QED BY <1>7 DEF AtLeast

\* Of two shares of the same whole the one that counts more is the greater.
LEMMA MoreOfTheSame ==
  ASSUME NEW a \in Nat, NEW b \in Nat, NEW n \in Nat \ {0}, b <= a
  PROVE  AtLeast(Ratio(a, n), Ratio(b, n))
<1>1. Ratio(a, n) = <<a, n>> /\ Ratio(b, n) = <<b, n>>
  BY DEF Ratio
<1>2. b * n <= a * n
  OBVIOUS
<1> QED BY <1>1, <1>2 DEF AtLeast


\* Of any number of results of any acceptable schema, whose true labels are stored
\* ones: an exact match is one in each field, and a field all of whose results
\* match has F1 = 1 for each value that it shows
\* (compute_aggregate_metrics).
THEOREM ScoresAgree ==
  ASSUME NEW fields \in Seq(Fields), SaveAllowed(fields), NEW T, NEW results \in Seq(T),
         \A i \in DOMAIN results : StoredLabel(results[i][2], fields)
  PROVE  MetricsAgree(results, fields)
<1> DEFINE all == Aggregate(results, fields)
           exact == {i \in DOMAIN results : ExactMatch(results[i][1], results[i][2], fields)}
           matched(f) == {i \in DOMAIN results : Matched(results[i][1], results[i][2], f)}
           n == Len(results)
<1>1. n \in Nat
  OBVIOUS
<1>2. all.exact = Ratio(Cardinality(exact), n)
  BY DEF Aggregate, ExactMatchRate, Count
<1>3. ASSUME NEW f \in DOMAIN all.perField
      PROVE  n # 0 /\ f \in Core(fields) /\ all.perField[f] = Ratio(Cardinality(matched(f)), n)
  <2>1. all.perField = IF n = 0 THEN <<>> ELSE [g \in Core(fields) |-> FieldRate(results, g)]
    BY DEF Aggregate
  <2>2. n # 0
    BY <2>1
  <2>3. f \in Core(fields) /\ all.perField[f] = FieldRate(results, f)
    BY <2>1, <2>2
  <2> QED BY <2>2, <2>3 DEF FieldRate, Count
<1>4. ASSUME NEW f \in CategoricalCore(fields), n # 0, NEW v \in ValuesOf(f)
      PROVE  all.perValue[f][v] = ValueMetrics(results, f, v)
  BY <1>4 DEF Aggregate
<1> HIDE DEF all
<1>5. ASSUME NEW f \in DOMAIN all.perField
      PROVE  AtLeast(all.perField[f], all.exact)
  <2>1. exact \in SUBSET matched(f)
    BY <1>3 DEF ExactMatch
  <2>2. matched(f) \in SUBSET DOMAIN results
    OBVIOUS
  <2> HIDE DEF exact, matched
  <2>3. /\ Cardinality(matched(f)) \in Nat /\ Cardinality(exact) \in Nat
        /\ Cardinality(exact) <= Cardinality(matched(f))
    BY <2>1, <2>2, CountedPositions
  <2> QED BY <1>1, <1>2, <1>3, <2>3, MoreOfTheSame
<1>6. ASSUME NEW f \in DOMAIN all.perField, f \in CategoricalCore(fields), AtLeast(all.perField[f], <<1, 1>>),
             NEW i \in DOMAIN results, NEW v \in ValuesIn(results[i][2], f)
      PROVE  AtLeast(all.perValue[f][v].f1, <<1, 1>>)
  <2>1. n # 0 /\ f \in Core(fields) /\ f \in Fields /\ f.type \in Categorical
    <3>1. \A k \in DOMAIN fields : fields[k] \in Fields
      OBVIOUS
    <3> QED BY <1>3, <1>6, <3>1 DEF Core, ToSet, CategoricalCore
  <2>2. matched(f) = DOMAIN results
    <3>1. matched(f) \in SUBSET DOMAIN results
      OBVIOUS
    <3> HIDE DEF matched
    <3>2. /\ Cardinality(matched(f)) \in Nat
          /\ Cardinality(matched(f)) <= n
          /\ Cardinality(matched(f)) = n => matched(f) = DOMAIN results
      BY <3>1, CountedPositions
    <3>3. all.perField[f] = <<Cardinality(matched(f)), n>>
      BY <1>3, <2>1 DEF Ratio
    <3>4. Cardinality(matched(f)) >= n
      BY <1>1, <1>6, <3>2, <3>3 DEF AtLeast
    <3> QED BY <1>1, <3>2, <3>4
  <2>3. ASSUME NEW k \in DOMAIN results
        PROVE  ValuesIn(results[k][1], f) = ValuesIn(results[k][2], f)
    <3>1. Matched(results[k][1], results[k][2], f)
      BY <2>2
    <3>2. f.name \in DOMAIN results[k][2]
      BY <2>1 DEF StoredLabel
    <3>3. f.name \in DOMAIN results[k][1] /\ results[k][1][f.name] = results[k][2][f.name]
      BY <3>1, <3>2 DEF Matched
    <3> DEFINE w == results[k][2][f.name]
    <3>4. \A json : f.name \in DOMAIN json /\ json[f.name] = w => 
            ValuesIn(json, f) = CASE f.type = "enum_set" -> {Lowered(t) : t \in w[2]}
                                  [] f.type = "enum" -> {Lowered(w)}
                                  [] f.type = "boolean" -> {w[2]}
      <4> HIDE DEF w
      <4> SUFFICES ASSUME NEW json, f.name \in DOMAIN json, json[f.name] = w
                   PROVE  ValuesIn(json, f) = CASE f.type = "enum_set" -> {Lowered(t) : t \in w[2]}
                                                [] f.type = "enum" -> {Lowered(w)}
                                                [] f.type = "boolean" -> {w[2]}
        OBVIOUS
      <4>1. CASE f.type = "enum_set"
        BY <4>1 DEF ValuesIn
      <4>2. CASE f.type = "enum"
        BY <4>2 DEF ValuesIn
      <4>3. CASE f.type = "boolean"
        BY <4>3 DEF ValuesIn
      <4> QED BY <2>1, <4>1, <4>2, <4>3 DEF Categorical
    <3> QED BY <3>2, <3>3, <3>4
  <2>4. GotWrong(results, f, v) = {} /\ NotGot(results, f, v) = {} /\ i \in GotRight(results, f, v)
    BY <2>3 DEF GotWrong, NotGot, GotRight
  <2>5. Cardinality(GotRight(results, f, v)) \in Nat \ {0}
    <3>1. GotRight(results, f, v) \in SUBSET DOMAIN results
      BY DEF GotRight
    <3> QED BY <2>4, <3>1, CountedPositions
  <2>6. Cardinality(GotWrong(results, f, v)) = 0 /\ Cardinality(NotGot(results, f, v)) = 0
    BY <2>4, FS_EmptySet
  <2>7. AtLeast(ValueMetrics(results, f, v).f1, <<1, 1>>)
    BY <2>5, <2>6, AllRight, ValueMetricsAre
  <2>8. v \in ValuesOf(f)
    <3>1. f.name \in DOMAIN results[i][2] /\ results[i][2][f.name] \in StoredValues(f)
      BY <2>1 DEF StoredLabel
    <3> DEFINE w == results[i][2][f.name]
    <3>2. CASE f.type = "enum"
      <4>1. ValuesIn(results[i][2], f) = {Lowered(w)} /\ w \in AllowedSet(f)
        BY <3>1, <3>2 DEF ValuesIn, StoredValues
      <4> QED BY <3>2, <4>1 DEF ValuesOf
    <3>3. CASE f.type = "enum_set"
      <4>1. PICK S \in SUBSET AllowedSet(f) : w = <<"list", S>>
        BY <3>1, <3>3 DEF StoredValues
      <4>2. ValuesIn(results[i][2], f) = {Lowered(t) : t \in w[2]}
        BY <3>1, <3>3 DEF ValuesIn
      <4>3. w[2] = S
        BY <4>1
      <4> QED BY <3>3, <4>2, <4>3 DEF ValuesOf
    <3>4. CASE f.type = "boolean"
      <4>1. PICK b \in BOOLEAN : w = <<"bool", b>>
        BY <3>1, <3>4 DEF StoredValues
      <4>2. ValuesIn(results[i][2], f) = {w[2]}
        BY <3>1, <3>4 DEF ValuesIn
      <4>3. w[2] = b
        BY <4>1
      <4> QED BY <3>4, <4>2, <4>3 DEF ValuesOf
    <3> QED BY <2>1, <3>2, <3>3, <3>4 DEF Categorical
  <2>9. all.perValue[f][v] = ValueMetrics(results, f, v)
    BY <1>4, <1>6, <2>1, <2>8
  <2> QED BY <2>7, <2>9
<1>7. \A r \in ToSet(results) : \E i \in DOMAIN results : r = results[i]
  BY DEF ToSet
<1>8. \A f \in DOMAIN all.perField :
        /\ AtLeast(all.perField[f], all.exact)
        /\ f \in CategoricalCore(fields) /\ AtLeast(all.perField[f], <<1, 1>>) =>
             \A v \in UNION {ValuesIn(r[2], f) : r \in ToSet(results)} :
               AtLeast(all.perValue[f][v].f1, <<1, 1>>)
  BY <1>5, <1>6, <1>7
<1> QED BY <1>8 DEF MetricsAgree, all

\* For any runs, results, outcomes, pool and thresholds: the Scale-Up gate opens on
\* no value of a categorical Core field that the newest completed run of the
\* Teacher in this era did not get right somewhere, and none that its pool does
\* not show.  The threshold of F1 is above zero; where it is zero the gate asks
\* nothing of a value (compute_scaleup_gate, _compute_coverage_gaps).
THEOREM GateAsksForEachValue ==
  ASSUME NEW q, NEW T, q.runs \in Seq(T),
         NEW U, \A i \in DOMAIN q.runs : q.runs[i].results \in Seq(U),
         q.floor \in Int, \A i \in DOMAIN q.runs : q.runs[i].version \in Int,
         q.needs.f1[1] \in Nat \ {0}, q.needs.f1[2] \in Nat
  PROVE  ReadyMeansCovered(q)
<1> SUFFICES ASSUME Ready(q)
             PROVE  \E i \in DOMAIN q.runs :
                      /\ q.runs[i].status = "completed" /\ q.runs[i].by = "teacher" /\ q.runs[i].version >= q.floor
                      /\ \A j \in 1 .. i - 1 :
                           \/ q.runs[j].status # "completed" \/ q.runs[j].by # "teacher"
                           \/ q.runs[j].version < q.floor
                      /\ \A f \in CategoricalCore(q.fields) :
                           /\ Gaps([k \in DOMAIN q.runs[i].results |-> q.runs[i].results[k][2]], f) = {}
                           /\ \A v \in ValuesOf(f) : \E k \in DOMAIN q.runs[i].results :
                                v \in ValuesIn(q.runs[i].results[k][1], f) \cap ValuesIn(q.runs[i].results[k][2], f)
  BY DEF ReadyMeansCovered
<1> DEFINE Pos == {i \in DOMAIN q.runs : /\ q.runs[i].status = "completed" /\ q.runs[i].by = "teacher"
                                       /\ q.runs[i].version >= q.floor}
           evals == EraTeacherEvals(q.runs, q.floor)
<1>1. DOMAIN q.runs = 1..Len(q.runs) /\ Len(q.runs) \in Nat
  OBVIOUS
<1>2. evals # <<>>
  BY DEF Ready
<1>3. PICK first \in Pos : evals[1] = q.runs[first] /\ \A j \in Pos : first <= j
  <2>1. Pos \in SUBSET (1..Len(q.runs))
    BY <1>1
  <2>2. evals = AtPositions(q.runs, Pos)
    BY DEF EraTeacherEvals
  <2> HIDE DEF Pos, evals
  <2> QED BY <1>1, <1>2, <2>1, <2>2, FirstPosition
<1> DEFINE results == q.runs[first].results
<1> HIDE DEF evals
<1>4. first \in DOMAIN q.runs /\ first \in Int /\ results \in Seq(U)
  BY <1>1
<1>5. evals[1].results = results
  BY <1>3
<1>6. \A j \in 1 .. first - 1 : j \notin Pos
  <2> SUFFICES ASSUME NEW j \in 1 .. first - 1, j \in Pos PROVE FALSE
    OBVIOUS
  <2>1. first <= j
    BY <1>3
  <2> HIDE DEF Pos
  <2> QED BY <1>4, <2>1
<1>7. /\ q.runs[first].status = "completed" /\ q.runs[first].by = "teacher" /\ q.runs[first].version >= q.floor
      /\ \A j \in 1 .. first - 1 :
           q.runs[j].status # "completed" \/ q.runs[j].by # "teacher" \/ q.runs[j].version < q.floor
  <2>1. \A j \in 1 .. first - 1 : j \in DOMAIN q.runs
    BY <1>1, <1>4
  <2> QED BY <1>6, <2>1
<1>8. QualityCriteria(Aggregate(results, q.fields), q.needs, CategoricalCore(q.fields) # {})
  BY <1>5 DEF Ready, evals
<1>9. ASSUME NEW f \in CategoricalCore(q.fields), NEW v \in ValuesOf(f)
      PROVE  AtLeast(ValueMetrics(results, f, v).f1, q.needs.f1)
  <2> HIDE DEF results
  <2> DEFINE all == Aggregate(results, q.fields)
  <2>1. /\ DOMAIN all.perField # {}
        /\ IF DOMAIN all.perValue = {} THEN ~ (CategoricalCore(q.fields) # {})
           ELSE \A g \in DOMAIN all.perValue : \A u \in DOMAIN all.perValue[g] :
                  AtLeast(all.perValue[g][u].f1, q.needs.f1)
    BY <1>8 DEF QualityCriteria
  <2>2. all.perField = IF Len(results) = 0 THEN <<>> ELSE [g \in Core(q.fields) |-> FieldRate(results, g)]
    BY DEF Aggregate
  <2>3. Len(results) # 0
    BY <2>1, <2>2
  <2>4. all.perValue = [g \in CategoricalCore(q.fields) |-> [u \in ValuesOf(g) |-> ValueMetrics(results, g, u)]]
    BY <2>3 DEF Aggregate
  <2> HIDE DEF all
  <2>5. f \in DOMAIN all.perValue /\ v \in DOMAIN all.perValue[f]
        /\ all.perValue[f][v] = ValueMetrics(results, f, v)
    BY <2>4
  <2> QED BY <2>1, <2>5
<1>10. ASSUME NEW f \in CategoricalCore(q.fields), NEW v \in ValuesOf(f)
       PROVE  \E k \in DOMAIN results : v \in ValuesIn(results[k][1], f) \cap ValuesIn(results[k][2], f)
  <2>1. results \in Seq(U)
    BY <1>4
  <2> HIDE DEF results
  <2> SUFFICES ASSUME GotRight(results, f, v) = {} PROVE FALSE
    BY DEF GotRight
  <2>2. Cardinality(GotRight(results, f, v)) = 0
    BY FS_EmptySet
  <2>3. GotWrong(results, f, v) \in SUBSET DOMAIN results /\ NotGot(results, f, v) \in SUBSET DOMAIN results
    BY DEF GotWrong, NotGot
  <2>4. Cardinality(GotWrong(results, f, v)) \in Nat /\ Cardinality(NotGot(results, f, v)) \in Nat
    BY <2>1, <2>3, CountedPositions
  <2>5. ValueMetrics(results, f, v).f1 = Zero
    <3>1. F1Of(0, Cardinality(GotWrong(results, f, v)), Cardinality(NotGot(results, f, v))) = Zero
      BY <2>4, NothingRight
    <3> QED BY <2>2, <3>1, ValueMetricsAre
  <2>6. AtLeast(Zero, q.needs.f1)
    BY <1>9, <2>5
  <2> QED BY <2>6 DEF AtLeast, Zero
<1>11. ASSUME NEW f \in CategoricalCore(q.fields)
       PROVE  Gaps([k \in DOMAIN results |-> results[k][2]], f) = {}
  <2> HIDE DEF results
  <2> DEFINE truths == [k \in DOMAIN results |-> results[k][2]]
             shown == UNION {ValuesIn(t, f) : t \in ToSet(truths)}
  <2>1. \A k \in DOMAIN results : results[k][2] \in ToSet(truths)
    BY DEF ToSet
  <2>2. \A v \in ValuesOf(f) : v \in shown
    BY <1>10, <2>1
  <2>3. Gaps(truths, f) = ValuesOf(f) \ shown
    BY DEF Gaps, CategoricalCore, Categorical
  <2> HIDE DEF shown, truths
  <2>4. Gaps(truths, f) = {}
    BY <2>2, <2>3
  <2> QED BY <2>4 DEF truths
<1> QED BY <1>4, <1>7, <1>10, <1>11

-----------------------------------------------------------------------------
(* The questions of the run are questions of this kind.                    *)

\* What LabelsUnder enumerates is stored so.
LEMMA LabelsUnderAreStored ==
  ASSUME NEW fields, \A f, g \in ToSet(fields) : f.name = g.name => f = g,
         NEW l \in LabelsUnder(fields)
  PROVE  StoredLabel(l, fields)
<1> SUFFICES ASSUME NEW f \in Core(fields) PROVE f.name \in DOMAIN l /\ l[f.name] \in StoredValues(f)
  BY DEF StoredLabel
<1> DEFINE named(n) == CHOOSE g \in ToSet(fields) : g.name = n
           values == UNION {CanonicalValues(g) : g \in ToSet(fields)}
<1>1. PICK N \in SUBSET Names(fields) :
         /\ {g.name : g \in Core(fields)} \subseteq N
         /\ l \in [N -> values] /\ \A n \in N : l[n] \in CanonicalValues(named(n))
  BY DEF LabelsUnder
<1>2. f.name \in N /\ f \in ToSet(fields)
  BY <1>1 DEF Core
<1>3. named(f.name) = f
  BY <1>2
<1>4. l[f.name] \in CanonicalValues(f)
  <2> HIDE DEF named
  <2> QED BY <1>1, <1>2, <1>3
<1>5. CanonicalValues(f) \subseteq StoredValues(f)
  <2>1. CASE f.type \in {"enum", "enum_set", "boolean"}
    BY <2>1 DEF CanonicalValues, StoredValues
  <2>2. CASE f.type = "integer"
    <3>1. CanonicalValues(f) = {<<"int", n>> : n \in {m \in 0..2 : Within(m, f)}}
      BY <2>2 DEF CanonicalValues
    <3>2. StoredValues(f) = {<<"int", n>> : n \in {m \in Int : Within(m, f)}}
      BY <2>2 DEF StoredValues
    <3> QED BY <3>1, <3>2
  <2>3. CASE f.type = "string"
    <3>1. CanonicalValues(f) = {Text(n, "plain") : n \in {m \in 0..2 : Within(m, f)}}
      BY <2>3 DEF CanonicalValues
    <3>2. StoredValues(f) = {t \in Texts : t[3] # "padded" /\ Within(t[2], f)}
      BY <2>3 DEF StoredValues
    <3>3. \A n \in {m \in 0..2 : Within(m, f)} :
            /\ Text(n, "plain") \in Texts
            /\ Text(n, "plain")[3] # "padded" /\ Within(Text(n, "plain")[2], f)
      BY DEF Text, Texts
    <3> QED BY <3>1, <3>2, <3>3
  <2>4. CASE f.type \notin FieldTypes
    BY <1>4, <2>4 DEF CanonicalValues, StoredValues, FieldTypes, Categorical
  <2> QED BY <2>1, <2>2, <2>3, <2>4 DEF FieldTypes, Categorical
<1> QED BY <1>1, <1>2, <1>4, <1>5

\* Sequences of texts, as the questions have them.
LEMMA SequencesOfTexts ==
  /\ <<>> \in Seq(Texts)
  /\ \A s, t \in Texts : <<s, t>> \in Seq(Texts)
  /\ \A s, t, u \in Texts : <<s, t, u>> \in Seq(Texts)
  /\ \A w \in Nat : P(w) \in Texts /\ \A how \in {"plain", "upper", "padded"} : Text(w, how) \in Texts
BY DEF Texts, P, Text

\* The fields of the questions are fields.
LEMMA QuestionFields ==
  /\ Kind1 \in Fields /\ Kinds2 \in Fields /\ Number3 \in Fields /\ Note \in Fields /\ Flag \in Fields
  /\ Line \in Fields /\ Twin1 \in Fields /\ [Number3 EXCEPT !.role = "core"] \in Fields
<1>2. /\ Values \in Seq(Texts) /\ <<>> \in Seq(Texts)
      /\ <<P(1), Text(1, "upper"), Text(2, "padded")>> \in Seq(Texts)
  BY SequencesOfTexts DEF Values
<1>3. NoLimit \in Int /\ RationaleNote \in Int
  BY DEF NoLimit, RationaleNote
<1>4. Kind1 \in Fields /\ Kinds2 \in Fields /\ Number3 \in Fields
  <2>1. Kind1 \in Fields
    BY <1>2, <1>3 DEF Kind1, Field, Fields, FieldTypes, Categorical
  <2>2. Kinds2 \in Fields
    BY <1>2, <1>3 DEF Kinds2, Field, Fields, FieldTypes, Categorical
  <2>3. Number3 \in Fields
    BY <1>2, <1>3 DEF Number3, Field, Fields, FieldTypes, Categorical
  <2> QED BY <2>1, <2>2, <2>3
<1>5. Note \in Fields /\ Flag \in Fields /\ Line \in Fields
  <2>1. Note \in Fields
    BY <1>2, <1>3 DEF Note, Field, Fields, FieldTypes, Categorical
  <2>2. Flag \in Fields
    BY <1>2, <1>3 DEF Flag, Field, Fields, FieldTypes, Categorical
  <2>3. Line \in Fields
    BY <1>2, <1>3 DEF Line, Field, Fields, FieldTypes, Categorical
  <2> QED BY <2>1, <2>2, <2>3
<1>6. Twin1 \in Fields /\ [Number3 EXCEPT !.role = "core"] \in Fields
  BY <1>2, <1>4 DEF Twin1, Fields
<1> QED BY <1>4, <1>5, <1>6

\* A schema of one acceptable Core field is acceptable.
LEMMA SingleIsAllowed ==
  ASSUME NEW f \in Fields, f.role = "core", f.name \notin {RationaleNote, Unusable}, f.type \in FieldTypes,
         ConstraintsAllowed(f)
  PROVE  SaveAllowed(<<f>>) /\ <<f>> \in Seq(Fields)
<1>1. ToSet(<<f>>) = {f} /\ DOMAIN <<f>> = {1}
  BY DEF ToSet
<1> QED BY <1>1 DEF SaveAllowed, RationaleAllowed, Core

\* So is one of two, of which one is Core.
LEMMA TwoAreAllowed ==
  ASSUME NEW f \in Fields, NEW g \in Fields, "core" \in {f.role, g.role}, f.name # g.name,
         \A h \in {f, g} : /\ h.name # Unusable /\ h.type \in FieldTypes /\ ConstraintsAllowed(h)
                           /\ h.name = RationaleNote => h.role = "aux" /\ h.type = "string"
  PROVE  SaveAllowed(<<f, g>>) /\ <<f, g>> \in Seq(Fields)
<1>1. ToSet(<<f, g>>) = {f, g} /\ DOMAIN <<f, g>> = {1, 2} /\ <<f, g>>[1] = f /\ <<f, g>>[2] = g
  BY DEF ToSet
<1>2. <<f, g>> \in Seq(Fields)
  OBVIOUS
<1>3. RationaleAllowed(<<f, g>>)
  BY <1>1 DEF RationaleAllowed
<1>4. \A i, j \in DOMAIN <<f, g>> : <<f, g>>[i].name = <<f, g>>[j].name => i = j
  BY <1>1
<1>5. \A h \in ToSet(<<f, g>>) : h.name # Unusable /\ h.type \in FieldTypes /\ ConstraintsAllowed(h)
  BY <1>1
<1>6. Core(<<f, g>>) # {}
  BY <1>1 DEF Core
<1> QED BY <1>2, <1>3, <1>4, <1>5, <1>6 DEF SaveAllowed

\* The fields of the questions are acceptable.
LEMMA QuestionFieldsAreAllowed ==
  /\ \A f \in {Kind1, Kinds2, Number3, [Number3 EXCEPT !.role = "core"], Note, Flag, Line, Twin1} :
       f.name # Unusable /\ f.type \in FieldTypes /\ ConstraintsAllowed(f)
  /\ Note.name = RationaleNote /\ Note.role = "aux" /\ Note.type = "string"
  /\ Kind1.name = 1 /\ Kinds2.name = 2 /\ Number3.name = 3 /\ Flag.name = 5 /\ Line.name = 6 /\ Twin1.name = 1
  /\ [Number3 EXCEPT !.role = "core"].name = 3 /\ [Number3 EXCEPT !.role = "core"].role = "core"
  /\ \A f \in {Kind1, Kinds2, Flag, Line, Twin1} : f.role = "core"
<1>1. ValuesAllowed(Values)
  <2>1. Len(Values) = 2 /\ Values[1] = <<"text", 1, "plain">> /\ Values[2] = <<"text", 2, "plain">>
        /\ DOMAIN Values = {1, 2}
    BY DEF Values, P, Text
  <2>2. Stripped(Values[1]) = Values[1] /\ Stripped(Values[2]) = Values[2] /\ Values[1] # Values[2]
    BY <2>1 DEF Stripped
  <2> QED BY <2>1, <2>2 DEF ValuesAllowed
<1>2. ValuesAllowed(<<P(1), Text(1, "upper"), Text(2, "padded")>>)
  <2> DEFINE v == <<P(1), Text(1, "upper"), Text(2, "padded")>>
  <2>1. /\ Len(v) = 3 /\ v[1] = <<"text", 1, "plain">> /\ v[2] = <<"text", 1, "upper">>
        /\ v[3] = <<"text", 2, "padded">> /\ DOMAIN v = {1, 2, 3}
    BY DEF P, Text
  <2> HIDE DEF v
  <2>2. /\ Stripped(v[1]) = <<"text", 1, "plain">> /\ Stripped(v[2]) = <<"text", 1, "upper">>
        /\ Stripped(v[3]) = <<"text", 2, "plain">>
    BY <2>1 DEF Stripped, Text
  <2>3. \A i \in DOMAIN v : v[i][2] # 0
    BY <2>1
  <2>4. \A i, j \in DOMAIN v : Stripped(v[i]) = Stripped(v[j]) => i = j
    BY <2>1, <2>2
  <2>5. ValuesAllowed(v)
    BY <2>1, <2>3, <2>4 DEF ValuesAllowed
  <2> QED BY <2>5 DEF v
<1>3. /\ Kind1.type = "enum" /\ Kind1.allowed = Values /\ Kind1.name = 1 /\ Kind1.role = "core"
      /\ Kinds2.type = "enum_set" /\ Kinds2.allowed = Values /\ Kinds2.name = 2 /\ Kinds2.role = "core"
  BY DEF Kind1, Kinds2, Field
<1>4. /\ Number3.type = "integer" /\ Number3.low = 0 /\ Number3.high = 1 /\ Number3.name = 3
      /\ LET g == [Number3 EXCEPT !.role = "core"]
         IN g.type = "integer" /\ g.low = 0 /\ g.high = 1 /\ g.name = 3 /\ g.role = "core"
  BY DEF Number3, Field
<1>5. /\ Note.type = "string" /\ Note.low = NoLimit /\ Note.high = NoLimit /\ Note.name = RationaleNote
      /\ Note.role = "aux"
      /\ Flag.type = "boolean" /\ Flag.name = 5 /\ Flag.role = "core"
      /\ Line.type = "string" /\ Line.low = 1 /\ Line.high = 2 /\ Line.name = 6 /\ Line.role = "core"
  BY DEF Note, Flag, Line, Field
<1>6. /\ Twin1.type = "enum" /\ Twin1.name = 1 /\ Twin1.role = "core"
      /\ Twin1.allowed = <<P(1), Text(1, "upper"), Text(2, "padded")>>
  BY DEF Twin1, Kind1, Field
<1>7. \A f : f.type \in {"enum", "enum_set"} /\ ValuesAllowed(f.allowed) => ConstraintsAllowed(f)
  BY DEF ConstraintsAllowed
<1>8. \A f : f.type \in {"integer", "string"} /\ (NoLimit \in {f.low, f.high} \/ f.low <= f.high) => ConstraintsAllowed(f)
  BY DEF ConstraintsAllowed
<1>9. \A f : f.type = "boolean" => ConstraintsAllowed(f)
  BY DEF ConstraintsAllowed
<1>10. /\ ConstraintsAllowed(Kind1) /\ ConstraintsAllowed(Kinds2) /\ ConstraintsAllowed(Number3)
       /\ ConstraintsAllowed([Number3 EXCEPT !.role = "core"]) /\ ConstraintsAllowed(Note)
       /\ ConstraintsAllowed(Flag) /\ ConstraintsAllowed(Line) /\ ConstraintsAllowed(Twin1)
  <2>1. ConstraintsAllowed(Kind1) /\ ConstraintsAllowed(Kinds2)
    BY <1>1, <1>3, <1>7
  <2>2. ConstraintsAllowed(Number3) /\ ConstraintsAllowed([Number3 EXCEPT !.role = "core"])
    <3>1. \A f : f.type = "integer" /\ f.low = 0 /\ f.high = 1 => ConstraintsAllowed(f)
      BY <1>8
    <3> QED BY <1>4, <3>1
  <2>3. ConstraintsAllowed(Note) /\ ConstraintsAllowed(Line)
    BY <1>5, <1>8
  <2>4. ConstraintsAllowed(Flag)
    BY <1>5, <1>9
  <2>5. ConstraintsAllowed(Twin1)
    BY <1>2, <1>6, <1>7
  <2> QED BY <2>1, <2>2, <2>3, <2>4, <2>5
<1> QED BY <1>3, <1>4, <1>5, <1>6, <1>10 DEF FieldTypes, Categorical, Unusable, RationaleNote

\* The schema that the questions edit is acceptable.
LEMMA OldSchemaIsAllowed ==
  OldSchema \in Seq(Fields) /\ DistinctIds(OldSchema) /\ SaveAllowed(OldSchema)
<1> DEFINE s == OldSchema
<1>1. /\ s \in Seq(Fields) /\ DOMAIN s = {1, 2, 3} /\ s[1] = Kind1 /\ s[2] = Kinds2 /\ s[3] = Number3
      /\ ToSet(s) = {Kind1, Kinds2, Number3}
  BY QuestionFields DEF OldSchema, ToSet
<1> HIDE DEF s
<1>2. Kind1.id = 1 /\ Kinds2.id = 2 /\ Number3.id = 3
  BY DEF Kind1, Kinds2, Number3, Field
<1>3. DistinctIds(s)
  BY <1>1, <1>2 DEF DistinctIds
<1>4. RationaleAllowed(s)
  BY <1>1, QuestionFieldsAreAllowed DEF RationaleAllowed, RationaleNote
<1>5. \A i, j \in DOMAIN s : s[i].name = s[j].name => i = j
  BY <1>1, QuestionFieldsAreAllowed
<1>6. \A f \in ToSet(s) : f.name # Unusable /\ f.type \in FieldTypes /\ ConstraintsAllowed(f)
  BY <1>1, QuestionFieldsAreAllowed
<1>7. Core(s) # {}
  BY <1>1, QuestionFieldsAreAllowed DEF Core
<1> QED BY <1>1, <1>3, <1>4, <1>5, <1>6, <1>7 DEF SaveAllowed, s

\* What the questions make of its fields: fields, under ids that it knows or none.
LEMMA EditsAreOfFields ==
  /\ \A f \in Kind1Edits : f \in Fields /\ f.id \in {0, 1}
  /\ \A f \in Kinds2Edits : f \in Fields /\ f.id = 2
  /\ \A f \in Number3Edits : f \in Fields /\ f.id = 3
  /\ \A s \in Added : s = <<>> \/ \E f \in Fields : f.id = 0 /\ s = <<f>>
<1>1. /\ Kind1 \in Fields /\ Kinds2 \in Fields /\ Number3 \in Fields
      /\ Kind1.id = 1 /\ Kinds2.id = 2 /\ Number3.id = 3
  BY QuestionFields DEF Kind1, Kinds2, Number3, Field
<1>5. \A a \in {Values, <<P(2), P(1)>>, <<P(1), P(3)>>, <<Text(1, "upper"), P(2)>>,
                <<P(1), Text(1, "upper")>>, <<P(1), P(2), P(3)>>, <<P(3), P(0)>>} : a \in Seq(Texts)
  BY SequencesOfTexts DEF Values
<1>6. \A a \in {Values, <<P(3), P(2)>>, <<P(3), P(4)>>} : a \in Seq(Texts)
  BY SequencesOfTexts DEF Values
<1>7. \A f \in Kind1Edits : f \in Fields /\ f.id \in {0, 1}
  <2>1. ASSUME NEW a \in Seq(Texts)
        PROVE  [Kind1 EXCEPT !.allowed = a] \in Fields /\ [Kind1 EXCEPT !.allowed = a].id = 1
    BY <1>1 DEF Fields
  <2>2. [Kind1 EXCEPT !.role = "aux"] \in Fields /\ [Kind1 EXCEPT !.role = "aux"].id = 1
    BY <1>1 DEF Fields
  <2>3. [Kind1 EXCEPT !.type = "boolean"] \in Fields /\ [Kind1 EXCEPT !.type = "boolean"].id = 1
    BY <1>1 DEF Fields, FieldTypes, Categorical
  <2>4. [Kind1 EXCEPT !.order = 2] \in Fields /\ [Kind1 EXCEPT !.order = 2].id = 1
    BY <1>1 DEF Fields
  <2>5. [Kind1 EXCEPT !.id = 0] \in Fields /\ [Kind1 EXCEPT !.id = 0].id = 0
    <3>1. \A f \in Fields : \A n \in Int : [f EXCEPT !.id = n] \in Fields /\ [f EXCEPT !.id = n].id = n
      BY DEF Fields
    <3> QED BY <1>1, <3>1
  <2> DEFINE A == {Values, <<P(2), P(1)>>, <<P(1), P(3)>>, <<Text(1, "upper"), P(2)>>,
                   <<P(1), Text(1, "upper")>>, <<P(1), P(2), P(3)>>, <<P(3), P(0)>>}
  <2>6. Kind1Edits = {[Kind1 EXCEPT !.allowed = a] : a \in A}
          \cup {[Kind1 EXCEPT !.role = "aux"], [Kind1 EXCEPT !.type = "boolean"],
                [Kind1 EXCEPT !.order = 2], [Kind1 EXCEPT !.id = 0]}
    BY DEF Kind1Edits
  <2> HIDE DEF A
  <2> SUFFICES ASSUME NEW f \in Kind1Edits PROVE f \in Fields /\ f.id \in {0, 1}
    OBVIOUS
  <2>7. CASE \E a \in A : f = [Kind1 EXCEPT !.allowed = a]
    BY <1>5, <2>1, <2>7 DEF A
  <2> QED BY <2>2, <2>3, <2>4, <2>5, <2>6, <2>7
<1>8. \A f \in Kinds2Edits : f \in Fields /\ f.id = 2
  <2>1. ASSUME NEW a \in Seq(Texts)
        PROVE  [Kinds2 EXCEPT !.allowed = a] \in Fields /\ [Kinds2 EXCEPT !.allowed = a].id = 2
    BY <1>1 DEF Fields
  <2> SUFFICES ASSUME NEW f \in Kinds2Edits PROVE f \in Fields /\ f.id = 2
    OBVIOUS
  <2>2. PICK a \in {Values, <<P(3), P(2)>>, <<P(3), P(4)>>} : f = [Kinds2 EXCEPT !.allowed = a]
    BY DEF Kinds2Edits
  <2> QED BY <1>6, <2>1, <2>2
<1>9. \A f \in Number3Edits : f \in Fields /\ f.id = 3
  <2>1. [Number3 EXCEPT !.role = "core"] \in Fields /\ [Number3 EXCEPT !.role = "core"].id = 3
    BY <1>1 DEF Fields
  <2>2. [Number3 EXCEPT !.high = -1] \in Fields /\ [Number3 EXCEPT !.high = -1].id = 3
    <3>1. \A f \in Fields : \A n \in Int : [f EXCEPT !.high = n] \in Fields /\ [f EXCEPT !.high = n].id = f.id
      BY DEF Fields
    <3>2. -1 \in Int
      OBVIOUS
    <3> QED BY <1>1, <3>1, <3>2
  <2>3. [Number3 EXCEPT !.type = "string"] \in Fields /\ [Number3 EXCEPT !.type = "string"].id = 3
    BY <1>1 DEF Fields, FieldTypes
  <2>4. [Number3 EXCEPT !.low = 2] \in Fields /\ [Number3 EXCEPT !.low = 2].id = 3
    BY <1>1 DEF Fields
  <2> QED BY <1>1, <2>1, <2>2, <2>3, <2>4 DEF Number3Edits
<1>10. \A s \in Added : s = <<>> \/ \E f \in Fields : f.id = 0 /\ s = <<f>>
  <2>1. /\ Field(0, 3, "aux", "boolean", <<>>, NoLimit, NoLimit, 0) \in Fields
        /\ Field(0, 3, "aux", "boolean", <<>>, NoLimit, NoLimit, 0).id = 0
        /\ Field(0, 4, "core", "boolean", <<>>, NoLimit, NoLimit, 3) \in Fields
        /\ Field(0, 4, "core", "boolean", <<>>, NoLimit, NoLimit, 3).id = 0
    BY DEF Field, Fields, FieldTypes, Categorical, NoLimit
  <2> QED BY <2>1 DEF Added
<1> QED BY <1>7, <1>8, <1>9, <1>10

\* Sequences of two and three.
LEMMA PairIs ==
  ASSUME NEW T, NEW t \in Seq(T), Len(t) = 2, NEW x, NEW y, t[1] = x, t[2] = y
  PROVE  t = <<x, y>>
<1>1. t = [i \in 1..2 |-> t[i]]
  OBVIOUS
<1>2. \A i \in 1..2 : t[i] = <<x, y>>[i]
  OBVIOUS
<1>3. <<x, y>> = [i \in 1..2 |-> <<x, y>>[i]]
  OBVIOUS
<1> QED BY <1>1, <1>2, <1>3

\* Two and one more.
LEMMA OneMoreThanTwo ==
  ASSUME NEW T, NEW x \in T, NEW y \in T, NEW f \in T
  PROVE  <<x, y>> \o <<f>> = <<x, y, f>>
<1> DEFINE p == <<x, y>>  l == <<f>>  t == <<x, y, f>>
<1>1. p \in Seq(T) /\ l \in Seq(T) /\ t \in Seq(T) /\ Len(p) = 2 /\ Len(l) = 1 /\ Len(t) = 3
  OBVIOUS
<1>2. p[1] = x /\ p[2] = y /\ l[1] = f /\ t[1] = x /\ t[2] = y /\ t[3] = f
  OBVIOUS
<1> HIDE DEF p, l, t
<1>3. p \o l \in Seq(T) /\ Len(p \o l) = 3 /\ \A i \in 1..3 : (p \o l)[i] = t[i]
  <2>1. /\ p \o l \in Seq(T) /\ Len(p \o l) = 3
        /\ \A i \in 1..3 : (p \o l)[i] = IF i <= 2 THEN p[i] ELSE l[i - 2]
    <3>1. /\ p \o l \in Seq(T) /\ Len(p \o l) = Len(p) + Len(l)
          /\ \A i \in 1 .. Len(p) + Len(l) : (p \o l)[i] = IF i <= Len(p) THEN p[i] ELSE l[i - Len(p)]
      BY <1>1, ConcatProperties
    <3>2. 3 + 1 = 4 /\ 2 + 1 = 3
      OBVIOUS
    <3> QED BY <1>1, <3>1, <3>2
  <2>2. ASSUME NEW i \in 1..3 PROVE (p \o l)[i] = t[i]
    <3>1. CASE i <= 2
      BY <1>2, <2>1, <3>1
    <3>2. CASE i = 3
      BY <1>2, <2>1, <3>2
    <3>3. i <= 2 \/ i = 3
      OBVIOUS
    <3> QED BY <3>1, <3>2, <3>3
  <2> QED BY <2>1, <2>2
<1>4. p \o l = t
  BY <1>1, <1>3, SeqEqual
<1> QED BY <1>4 DEF p, l, t

\* Three and one more.
LEMMA OneMoreThanThree ==
  ASSUME NEW T, NEW x \in T, NEW y \in T, NEW z \in T, NEW f \in T
  PROVE  <<x, y, z>> \o <<f>> = <<x, y, z, f>>
<1> DEFINE p == <<x, y, z>>  l == <<f>>  t == <<x, y, z, f>>
<1>1. p \in Seq(T) /\ l \in Seq(T) /\ t \in Seq(T) /\ Len(p) = 3 /\ Len(l) = 1 /\ Len(t) = 4
  OBVIOUS
<1>2. p[1] = x /\ p[2] = y /\ p[3] = z /\ l[1] = f /\ t[1] = x /\ t[2] = y /\ t[3] = z /\ t[4] = f
  OBVIOUS
<1> HIDE DEF p, l, t
<1>3. p \o l \in Seq(T) /\ Len(p \o l) = 4 /\ \A i \in 1..4 : (p \o l)[i] = t[i]
  <2>1. /\ p \o l \in Seq(T) /\ Len(p \o l) = 4
        /\ \A i \in 1..4 : (p \o l)[i] = IF i <= 3 THEN p[i] ELSE l[i - 3]
    <3>1. /\ p \o l \in Seq(T) /\ Len(p \o l) = Len(p) + Len(l)
          /\ \A i \in 1 .. Len(p) + Len(l) : (p \o l)[i] = IF i <= Len(p) THEN p[i] ELSE l[i - Len(p)]
      BY <1>1, ConcatProperties
    <3>2. 3 + 1 = 4 /\ 2 + 1 = 3
      OBVIOUS
    <3> QED BY <1>1, <3>1, <3>2
  <2>2. ASSUME NEW i \in 1..4 PROVE (p \o l)[i] = t[i]
    <3>1. CASE i <= 3
      BY <1>2, <2>1, <3>1
    <3>2. CASE i = 4
      BY <1>2, <2>1, <3>2
    <3>3. i <= 3 \/ i = 4
      OBVIOUS
    <3> QED BY <3>1, <3>2, <3>3
  <2> QED BY <2>1, <2>2
<1>4. p \o l = t
  BY <1>1, <1>3, SeqEqual
<1> QED BY <1>4 DEF p, l, t

\* The first three of three are all.
LEMMA WholeIs ==
  ASSUME NEW T, NEW s \in Seq(T), Len(s) = 3
  PROVE  SubSeq(s, 1, 3) = s
<1>1. SubSeq(s, 1, 3) = [i \in 1..3 |-> s[i]]
  OBVIOUS
<1>2. s = [i \in 1..3 |-> s[i]]
  OBVIOUS
<1> QED BY <1>1, <1>2

\* A question about an edit submits fields, and none of the known ones twice.
LEMMA EditQuestionIs ==
  ASSUME NEW q \in EditQuestions
  PROVE  q.about = "edit" /\ q.new \in Seq(Fields) /\ KnownOnce(OldSchema, q.new)
<1> DEFINE Numbered == {m \in [1..3 -> {0, 1, 2, 3}] : m[1] # 0 /\ m[2] # 0 /\ m[1] # m[2]}
<1>1. PICK a \in Kind1Edits, b \in Kinds2Edits, c \in Number3Edits, added \in Added,
           n \in Numbered, kept \in {2, 3} :
        q = [about |-> "edit",
             new |-> SubSeq(<<[a EXCEPT !.name = n[1]], [b EXCEPT !.name = n[2]],
                              [c EXCEPT !.name = n[3]]>>, 1, kept) \o added]
  <2> DEFINE NewOf(a, b, c, added, n, kept) ==
               SubSeq(<<[a EXCEPT !.name = n[1]], [b EXCEPT !.name = n[2]],
                        [c EXCEPT !.name = n[3]]>>, 1, kept) \o added
  <2>1. EditQuestions =
          {[about |-> "edit", new |-> NewOf(a, b, c, added, n, kept)] :
             a \in Kind1Edits, b \in Kinds2Edits, c \in Number3Edits, added \in Added,
             n \in Numbered, kept \in {2, 3}}
    BY DEF EditQuestions
  <2> HIDE DEF Numbered, NewOf
  <2>2. \E a \in Kind1Edits, b \in Kinds2Edits, c \in Number3Edits, added \in Added,
           n \in Numbered, kept \in {2, 3} : q = [about |-> "edit", new |-> NewOf(a, b, c, added, n, kept)]
    BY <2>1
  <2> QED BY <2>2 DEF NewOf
<1> DEFINE x == [a EXCEPT !.name = n[1]]
           y == [b EXCEPT !.name = n[2]]
           z == [c EXCEPT !.name = n[3]]
           known == {f.id : f \in ToSet(OldSchema)}
<1>2. \A f \in Fields : \A m \in Int : [f EXCEPT !.name = m] \in Fields /\ [f EXCEPT !.name = m].id = f.id
  BY DEF Fields
<1>3. n[1] \in Int /\ n[2] \in Int /\ n[3] \in Int
  BY <1>1
<1>4. /\ x \in Fields /\ y \in Fields /\ z \in Fields
      /\ x.id \in {0, 1} /\ y.id = 2 /\ z.id = 3
  BY <1>2, <1>3, EditsAreOfFields
<1> HIDE DEF x, y, z
<1>5. 0 \notin known
  BY DEF OldSchema, ToSet, Kind1, Kinds2, Number3, Field
<1> HIDE DEF known
<1>6. added = <<>> \/ \E f \in Fields : f.id = 0 /\ added = <<f>>
  BY EditsAreOfFields
<1>7. SubSeq(<<x, y, z>>, 1, 2) = <<x, y>> /\ SubSeq(<<x, y, z>>, 1, 3) = <<x, y, z>>
  <2> DEFINE s == <<x, y, z>>
  <2>1. s \in Seq(Fields) /\ Len(s) = 3 /\ s[1] = x /\ s[2] = y /\ s[3] = z
    BY <1>4
  <2> HIDE DEF s
  <2>2. SubSeq(s, 1, 2) \in Seq(Fields) /\ Len(SubSeq(s, 1, 2)) = 2
        /\ SubSeq(s, 1, 2)[1] = x /\ SubSeq(s, 1, 2)[2] = y
    BY <2>1
  <2>3. SubSeq(s, 1, 2) = <<x, y>>
    <3> DEFINE t == SubSeq(s, 1, 2)
    <3>1. t \in Seq(Fields) /\ Len(t) = 2 /\ t[1] = x /\ t[2] = y
      BY <2>2
    <3> HIDE DEF t
    <3>2. t = <<x, y>>
      BY <3>1, PairIs
    <3> QED BY <3>2 DEF t
  <2>4. SubSeq(s, 1, 3) = s
    BY <2>1, WholeIs
  <2> QED BY <2>3, <2>4 DEF s
<1>8. q.new = SubSeq(<<x, y, z>>, 1, kept) \o added
  BY <1>1 DEF x, y, z
<1>9. /\ <<x, y>> \in Seq(Fields) /\ <<x, y, z>> \in Seq(Fields)
      /\ \A f \in Fields : <<x, y, f>> \in Seq(Fields) /\ <<x, y, z, f>> \in Seq(Fields)
      /\ <<x, y>> \o <<>> = <<x, y>> /\ <<x, y, z>> \o <<>> = <<x, y, z>>
      /\ \A f \in Fields : <<x, y>> \o <<f>> = <<x, y, f>> /\ <<x, y, z>> \o <<f>> = <<x, y, z, f>>
  <2>1. <<x, y>> \in Seq(Fields) /\ <<x, y, z>> \in Seq(Fields)
    BY <1>4
  <2>2. ASSUME NEW f \in Fields PROVE <<x, y, f>> \in Seq(Fields) /\ <<x, y, z, f>> \in Seq(Fields)
    BY <1>4
  <2>3. <<x, y>> \o <<>> = <<x, y>> /\ <<x, y, z>> \o <<>> = <<x, y, z>>
    BY <2>1, ConcatEmptySeq
  <2>4. ASSUME NEW f \in Fields PROVE <<x, y>> \o <<f>> = <<x, y, f>> /\ <<x, y, z>> \o <<f>> = <<x, y, z, f>>
    BY <1>4, OneMoreThanTwo, OneMoreThanThree
  <2> QED BY <2>1, <2>2, <2>3, <2>4
<1>10. PICK f \in Fields : /\ f.id = 0
                           /\ q.new \in {<<x, y>>, <<x, y, z>>, <<x, y, f>>, <<x, y, z, f>>}
  <2>1. SubSeq(<<x, y, z>>, 1, kept) \in {<<x, y>>, <<x, y, z>>}
    BY <1>7
  <2>2. CASE added = <<>>
    <3>1. q.new \in {<<x, y>>, <<x, y, z>>}
      BY <1>8, <1>9, <2>1, <2>2
    <3>2. Field(0, 4, "core", "boolean", <<>>, NoLimit, NoLimit, 3) \in Fields
          /\ Field(0, 4, "core", "boolean", <<>>, NoLimit, NoLimit, 3).id = 0
      BY DEF Field, Fields, FieldTypes, Categorical, NoLimit
    <3> QED BY <3>1, <3>2
  <2>3. ASSUME NEW f \in Fields, f.id = 0, added = <<f>>
        PROVE  q.new \in {<<x, y, f>>, <<x, y, z, f>>}
    BY <1>8, <1>9, <2>1, <2>3
  <2> QED BY <1>6, <2>2, <2>3
<1>11. q.new \in Seq(Fields)
  BY <1>9, <1>10
<1>12. ASSUME NEW i \in DOMAIN q.new, NEW j \in DOMAIN q.new, q.new[i].id = q.new[j].id, q.new[i].id \in known
       PROVE  i = j
  <2> DEFINE s == q.new
  <2>1. s[i].id # 0 /\ s[j].id # 0
    BY <1>5, <1>12
  <2> HIDE DEF s
  <2>2. CASE s = <<x, y>>
    BY <1>4, <1>12, <2>1, <2>2 DEF s
  <2>3. CASE s = <<x, y, z>>
    BY <1>4, <1>12, <2>1, <2>3 DEF s
  <2>4. CASE s = <<x, y, f>>
    BY <1>4, <1>10, <1>12, <2>1, <2>4 DEF s
  <2>5. CASE s = <<x, y, z, f>>
    BY <1>4, <1>10, <1>12, <2>1, <2>5 DEF s
  <2> QED BY <1>10, <2>2, <2>3, <2>4, <2>5 DEF s
<1> QED BY <1>1, <1>11, <1>12 DEF KnownOnce, known

\* The other schemas of the questions are acceptable.
LEMMA SchemasOfQuestions ==
  /\ \A s \in AnswerSchemas : SaveAllowed(s) /\ s \in Seq(Fields)
  /\ DOMAIN ScoredSchemas = 1..4
  /\ \A i \in 1..4 : SaveAllowed(ScoredSchemas[i]) /\ ScoredSchemas[i] \in Seq(Fields)
<1> DEFINE Third == [Number3 EXCEPT !.role = "core"]
<1> HIDE DEF Third
<1>1. /\ Third \in Fields /\ Third.name = 3 /\ Third.role = "core" /\ Third.type \in FieldTypes
      /\ ConstraintsAllowed(Third)
  BY QuestionFields, QuestionFieldsAreAllowed DEF Third
<1>2. RationaleNote = 0 /\ Unusable = -1
  BY DEF RationaleNote, Unusable
<1>3. \A f \in {Kind1, Kinds2, Number3, Note, Flag, Line, Twin1} :
        f \in Fields /\ f.name # Unusable /\ f.type \in FieldTypes /\ ConstraintsAllowed(f)
  BY QuestionFields, QuestionFieldsAreAllowed
<1>4. /\ Note.name = RationaleNote /\ Note.role = "aux" /\ Note.type = "string"
      /\ Kind1.name = 1 /\ Kinds2.name = 2 /\ Number3.name = 3 /\ Flag.name = 5 /\ Line.name = 6 /\ Twin1.name = 1
      /\ \A f \in {Kind1, Kinds2, Flag, Line, Twin1} : f.role = "core"
  BY QuestionFieldsAreAllowed
<1>5. SaveAllowed(<<Kinds2, Note>>) /\ <<Kinds2, Note>> \in Seq(Fields)
  BY <1>2, <1>3, <1>4, TwoAreAllowed
<1>6. SaveAllowed(<<Kind1, Number3>>) /\ <<Kind1, Number3>> \in Seq(Fields)
  BY <1>2, <1>3, <1>4, TwoAreAllowed
<1>7. SaveAllowed(<<Twin1, Kinds2>>) /\ <<Twin1, Kinds2>> \in Seq(Fields)
  BY <1>2, <1>3, <1>4, TwoAreAllowed
<1>8. SaveAllowed(<<Flag>>) /\ <<Flag>> \in Seq(Fields)
  BY <1>2, <1>3, <1>4, SingleIsAllowed
<1>9. SaveAllowed(<<Note, Line>>) /\ <<Note, Line>> \in Seq(Fields)
  BY <1>2, <1>3, <1>4, TwoAreAllowed
<1>10. SaveAllowed(<<Third, Note>>) /\ <<Third, Note>> \in Seq(Fields)
  BY <1>1, <1>2, <1>3, <1>4, TwoAreAllowed
<1>11. SaveAllowed(<<Line>>) /\ <<Line>> \in Seq(Fields)
  BY <1>2, <1>3, <1>4, SingleIsAllowed
<1>12. \A s \in AnswerSchemas : SaveAllowed(s) /\ s \in Seq(Fields)
  BY <1>5, <1>6, <1>7, <1>8, <1>9, <1>10 DEF AnswerSchemas, Third
<1>13. /\ DOMAIN ScoredSchemas = 1..4
       /\ ScoredSchemas[1] = <<Kind1, Number3>> /\ ScoredSchemas[2] = <<Flag>>
       /\ ScoredSchemas[3] = <<Kinds2, Note>> /\ ScoredSchemas[4] = <<Line>>
  BY DEF ScoredSchemas
<1>14. ASSUME NEW i \in 1..4 PROVE SaveAllowed(ScoredSchemas[i]) /\ ScoredSchemas[i] \in Seq(Fields)
  <2>1. i = 1 \/ i = 2 \/ i = 3 \/ i = 4
    OBVIOUS
  <2> QED BY <1>5, <1>6, <1>8, <1>11, <1>13, <2>1
<1> QED BY <1>12, <1>13, <1>14

\* A question about an answer has an acceptable schema.
LEMMA AnswerQuestionIs ==
  ASSUME NEW q \in AnswerQuestions
  PROVE  q.about = "answer" /\ q.fields \in Seq(Fields) /\ SaveAllowed(q.fields)
<1> DEFINE Of(s) == {[about |-> "answer", fields |-> s, raw |-> r] : r \in Responses(s)}
<1>1. AnswerQuestions = UNION {Of(s) : s \in AnswerSchemas}
  BY DEF AnswerQuestions
<1> HIDE DEF Of
<1>2. PICK s \in AnswerSchemas : q \in Of(s)
  BY <1>1
<1>3. PICK r \in Responses(s) : q = [about |-> "answer", fields |-> s, raw |-> r]
  BY <1>2 DEF Of
<1> QED BY <1>3, SchemasOfQuestions

\* The truth of a result is a label that could have been saved.
LEMMA ResultsAreOfLabels ==
  ASSUME NEW fields, NEW r \in Results(fields)
  PROVE  r[2] \in LabelsUnder(fields)
BY DEF Results

\* Two results make a sequence of them.
LEMMA TwoOfThem ==
  ASSUME NEW T, NEW r \in T \X T
  PROVE  r \in Seq(T) /\ DOMAIN r = 1..2 /\ r[1] \in T /\ r[2] \in T
<1>1. r = <<r[1], r[2]>> /\ r[1] \in T /\ r[2] \in T
  OBVIOUS
<1>2. \A x, y \in T : <<x, y>> \in Seq(T) /\ DOMAIN <<x, y>> = 1..2
  OBVIOUS
<1> QED BY <1>1, <1>2

\* A question about scores has results whose truths are stored labels.
LEMMA ScoreQuestionIs ==
  ASSUME NEW q \in ScoreQuestions
  PROVE  /\ q.about = "score" /\ q.schema \in 1..4
         /\ \E T : q.results \in Seq(T)
         /\ \A i \in DOMAIN q.results : StoredLabel(q.results[i][2], ScoredSchemas[q.schema])
<1> DEFINE Evaluated(i) == {<<>>} \cup (Results(ScoredSchemas[i]) \X Results(ScoredSchemas[i]))
           Of(i) == {[about |-> "score", schema |-> i, results |-> r] : r \in Evaluated(i)}
<1>1. ScoreQuestions = UNION {Of(i) : i \in DOMAIN ScoredSchemas}
  BY DEF ScoreQuestions
<1> HIDE DEF Of
<1>2. PICK i \in 1..4 : q \in Of(i)
  BY <1>1, SchemasOfQuestions
<1> DEFINE fields == ScoredSchemas[i]
           T == Results(fields)
<1> HIDE DEF Evaluated
<1>3. PICK r \in Evaluated(i) : q = [about |-> "score", schema |-> i, results |-> r]
  BY <1>2 DEF Of
<1>4. r = <<>> \/ r \in T \X T
  BY DEF Evaluated
<1>5. SaveAllowed(fields) /\ fields \in Seq(Fields)
  BY SchemasOfQuestions
<1> HIDE DEF fields, T
<1>6. \A f, g \in ToSet(fields) : f.name = g.name => f = g
  BY <1>5 DEF SaveAllowed, ToSet
<1>7. r \in Seq(T) /\ \A k \in DOMAIN r : r[k] \in T
  <2>1. CASE r = <<>>
    BY <2>1
  <2>2. CASE r \in T \X T
    BY <2>2, TwoOfThem
  <2> QED BY <1>4, <2>1, <2>2
<1>8. ASSUME NEW k \in DOMAIN r PROVE StoredLabel(r[k][2], fields)
  <2>1. r[k] \in Results(fields)
    BY <1>7 DEF T
  <2>2. r[k][2] \in LabelsUnder(fields)
    BY <2>1, ResultsAreOfLabels
  <2> QED BY <1>6, <2>2, LabelsUnderAreStored
<1> QED BY <1>3, <1>7, <1>8 DEF fields

\* A question about the gate has results.
LEMMA GateQuestionIs ==
  ASSUME NEW q \in GateQuestions
  PROVE  /\ q.about = "gate" /\ q.newer \in {"nothing", "failed", "student"} /\ q.version \in Int
         /\ \E T : q.results \in Seq(T)
<1> DEFINE Twice(i) == Results(ScoredSchemas[i]) \X Results(ScoredSchemas[i])
           Of(i) == {[about |-> "gate", schema |-> i, results |-> r, newer |-> newer, version |-> version,
                      outcomes |-> outcomes] :
                       r \in Twice(i), newer \in {"nothing", "failed", "student"}, version \in {1, 2},
                       outcomes \in {"none", "few", "enough"}}
<1>1. GateQuestions = UNION {Of(i) : i \in DOMAIN ScoredSchemas}
  BY DEF GateQuestions
<1> HIDE DEF Of, Twice
<1>2. PICK i \in DOMAIN ScoredSchemas : q \in Of(i)
  BY <1>1
<1>3. PICK r \in Twice(i), newer \in {"nothing", "failed", "student"}, version \in {1, 2},
           outcomes \in {"none", "few", "enough"} :
        q = [about |-> "gate", schema |-> i, results |-> r, newer |-> newer, version |-> version,
             outcomes |-> outcomes]
  BY <1>2 DEF Of
<1>4. r \in Seq(Results(ScoredSchemas[i]))
  <2> DEFINE T == Results(ScoredSchemas[i])
  <2>1. r \in T \X T
    BY DEF Twice
  <2> HIDE DEF T
  <2>2. r \in Seq(T)
    BY <2>1, TwoOfThem
  <2> QED BY <2>2 DEF T
<1> QED BY <1>3, <1>4

\* The gate is asked of runs whose results are sequences.
LEMMA AskedIs ==
  ASSUME NEW q, q.newer \in {"nothing", "failed", "student"}, q.version \in Int,
         NEW T, q.results \in Seq(T)
  PROVE  ReadyMeansCovered(Asked(q))
<1> DEFINE a == Asked(q)
           U == {q.results[i] : i \in DOMAIN q.results} \cup {<<q.results[i][2], q.results[i][2]>> : i \in DOMAIN q.results}
           right == Right(q.results)
<1>1. q.results \in Seq(U) /\ right \in Seq(U)
  <2> DEFINE s == q.results
  <2>1. s \in Seq(T) /\ DOMAIN s = 1..Len(s) /\ Len(s) \in Nat
    OBVIOUS
  <2>2. right = [i \in DOMAIN s |-> <<s[i][2], s[i][2]>>]
    BY DEF Right
  <2>3. \A i \in DOMAIN s : s[i] \in U /\ <<s[i][2], s[i][2]>> \in U
    OBVIOUS
  <2>4. s = [i \in DOMAIN s |-> s[i]]
    OBVIOUS
  <2> HIDE DEF s, right, U
  <2>5. s \in [1..Len(s) -> U] /\ right \in [1..Len(s) -> U]
    BY <2>1, <2>2, <2>3, <2>4
  <2>6. s \in Seq(U) /\ right \in Seq(U)
    BY <2>1, <2>5, IsASeq
  <2> QED BY <2>6 DEF s
<1> HIDE DEF right, U
<1> DEFINE R == {Run(status, by, version, results) :
                   status \in {"completed", "failed"}, by \in {"teacher", "student"},
                   version \in {2, q.version}, results \in {q.results, right}}
           old == Run("completed", "teacher", q.version, q.results)
           failed == Run("failed", "teacher", 2, right)
           student == Run("completed", "student", 2, right)
<1>2. old \in R /\ failed \in R /\ student \in R
  OBVIOUS
<1>3. \A r \in R : r.version \in Int /\ r.results \in Seq(U)
  BY <1>1 DEF Run
<1>4. a.floor = 2 /\ a.needs.f1 = <<1, 2>>
  BY DEF Asked, Half
<1>5. a.runs \in {<<old>>, <<failed, old>>, <<student, old>>}
  BY DEF Asked, right
<1> HIDE DEF R, old, failed, student, a
<1>6. <<old>> \in Seq(R) /\ <<failed, old>> \in Seq(R) /\ <<student, old>> \in Seq(R)
  BY <1>2
<1>7. a.runs \in Seq(R)
  BY <1>5, <1>6
<1>8. \A i \in DOMAIN a.runs : a.runs[i] \in R
  BY <1>7
<1>9. ReadyMeansCovered(a)
  <2>1. a.floor \in Int /\ a.needs.f1[1] \in Nat \ {0} /\ a.needs.f1[2] \in Nat
    BY <1>4
  <2>2. \A i \in DOMAIN a.runs : a.runs[i].version \in Int /\ a.runs[i].results \in Seq(U)
    BY <1>3, <1>8
  <2> QED BY <1>7, <2>1, <2>2, GateAsksForEachValue
<1> QED BY <1>9 DEF a

\* The questions that are not about labels.
LEMMA InvocationQuestionsAre ==
  ASSUME NEW q \in RoomQuestions \cup ImageQuestions \cup ResponseQuestions
  PROVE  q.about = "invocation"
<1>1. AskedPlainly.about = "invocation" /\ "about" \in DOMAIN AskedPlainly
  BY DEF AskedPlainly
<1>2. \A o, f, m, t, w, fixed, size, i : InRoom(o, f, m, t, w, fixed, size, i).about = "invocation"
  BY <1>1 DEF InRoom
<1>3. \A k, kind, n, d, stored, limit, has, queried :
        OfImages(k, kind, n, d, stored, limit, has, queried).about = "invocation"
  BY <1>1 DEF OfImages
<1>4. \A a, w, icl : WithAnswers(a, w, icl).about = "invocation"
  BY <1>1 DEF WithAnswers
<1>5. CASE q \in RoomQuestions
  <2> DEFINE O == {NoCap, 300}
             M == {"all", "core_only"}
             Tg == {<<"none", FALSE, FALSE>>, <<"always", FALSE, FALSE>>, <<"switch", TRUE, TRUE>>,
                    <<"switch", TRUE, FALSE>>, <<"switch", FALSE, FALSE>>}
             W == {1024, 2304, 8192, 69632, 262144}
             F == {300, 6000}
             S == {100, 2500}
             I == {"core_only", "aux_and_core"}
  <2>1. RoomQuestions = {InRoom(o, f, m, t, w, fixed, size, i) :
                           o \in O, f \in AskedSchemas, m \in M, t \in Tg, w \in W, fixed \in F, size \in S, i \in I}
    BY DEF RoomQuestions
  <2> HIDE DEF O, M, Tg, W, F, S, I
  <2> QED BY <1>2, <1>5, <2>1
<1>6. CASE q \in ImageQuestions
  <2> DEFINE K == {0, 2}
             N == {1, 3, 4}
             D == {<<NoCap, NoCap>>, <<NoCap, 1>>, <<2, 1>>}
             S == {1..3, {1, 3}}
             L == {NoCap, 3}
             H == {1..3, {1}}
  <2>1. ImageQuestions = {OfImages(k, kind, n, d, stored, limit, has, queried) :
                            k \in K, kind \in FileKinds, n \in N, d \in D, stored \in S, limit \in L,
                            has \in H, queried \in BOOLEAN}
    BY DEF ImageQuestions
  <2> HIDE DEF K, N, D, S, L, H
  <2> QED BY <1>3, <1>6, <2>1
<1>7. CASE q \in ResponseQuestions
  BY <1>4, <1>7 DEF ResponseQuestions
<1> QED BY <1>5, <1>6, <1>7

\* Questions about hosts are about a host.
LEMMA HostQuestionsAre ==
  ASSUME NEW q \in HostQuestions
  PROVE  q.about = "host"
<1>1. IdleHost.about = "host" /\ "about" \in DOMAIN IdleHost
  BY DEF IdleHost
<1>2. \A gpus, ro, key, gone : BusyHost(gpus, ro, key, gone).about = "host"
  BY <1>1 DEF BusyHost
<1>3. \A gpus, docker, toolkit, ngc, key, login, probe, out :
        HostWith(gpus, docker, toolkit, ngc, key, login, probe, out).about = "host"
  BY <1>1 DEF HostWith
<1> DEFINE G == {<<GpuOf(7960, 90, TRUE)>>, <<GpuOf(4610, 89, TRUE), GpuOf(4610, 89, TRUE)>>}
           Pr == {"fits", "timed_out", "absent", "unfit"}
           Gone == {{}, {1}}
<1>4. /\ BusyHosts = {BusyHost(gpus, ro, key, gone) :
                      gpus \in GpuChoices, ro \in RowChoices, key \in BOOLEAN, gone \in Gone}
      /\ ChosenHosts = {HostWith(gpus, docker, toolkit, ngc, key, login, probe, out) :
                          gpus \in G, docker \in BOOLEAN, toolkit \in BOOLEAN, ngc \in BOOLEAN, key \in BOOLEAN,
                          login \in BOOLEAN, probe \in Pr, out \in BOOLEAN}
  BY DEF BusyHosts, ChosenHosts
<1> HIDE DEF G, Pr, Gone
<1>5. \A h \in BusyHosts : h.about = "host"
  BY <1>2, <1>4
<1>6. \A h \in ChosenHosts : h.about = "host"
  BY <1>3, <1>4
<1> QED BY <1>5, <1>6 DEF HostQuestions

\* Questions about launches are about bases.
LEMMA ReadinessQuestionsAre ==
  ASSUME NEW q \in ReadinessQuestions
  PROVE  q.about = "bases"
<1>1. AllReady.about = "bases" /\ "about" \in DOMAIN AllReady
  BY DEF AllReady
<1>2. \A nano, super, ids, lora, schemes, has, silent, transfers, appears :
        Fetching(nano, super, ids, lora, schemes, has, silent, transfers, appears).about = "bases"
  BY <1>1 DEF Fetching
<1>3. \A nano, lora, up, booted, identity, data, g, token, resumes, pythons :
        NotReadied(nano, lora, up, booted, identity, data, g, token, resumes, pythons).about = "bases"
  BY <1>1 DEF NotReadied
<1> QED BY <1>2, <1>3 DEF ReadinessQuestions

\* Questions about choices by likeness say which.
LEMMA ChoiceQuestionsAre ==
  ASSUME NEW q \in PoolQuestions \cup ReviewQuestions \cup IclQuestions
  PROVE  q.about \in {"pool", "review", "icl"}
<1>1. CASE q \in PoolQuestions
  BY <1>1 DEF PoolQuestions
<1>2. CASE q \in ReviewQuestions
  BY <1>2 DEF ReviewQuestions
<1>3. CASE q \in IclQuestions
  BY <1>3 DEF IclQuestions
<1> QED BY <1>1, <1>2, <1>3

\* The theorems above answer each question about labels.
LEMMA LabelQuestionsKept ==
  ASSUME NEW q \in EditQuestions \cup AnswerQuestions \cup ScoreQuestions \cup GateQuestions
  PROVE  LabelsAreTakenAtTheirWord(q)
<1>1. CASE q \in EditQuestions
  <2>1. q.about = "edit" /\ q.new \in Seq(Fields) /\ KnownOnce(OldSchema, q.new)
    BY <1>1, EditQuestionIs
  <2>2. OldSchema \in Seq(Fields) /\ DistinctIds(OldSchema) /\ SaveAllowed(OldSchema)
    BY OldSchemaIsAllowed
  <2>3. ASSUME NEW l \in OldLabels PROVE StoredLabel(l, OldSchema)
    <3>1. \A f, g \in ToSet(OldSchema) : f.name = g.name => f = g
      BY <2>2 DEF SaveAllowed, ToSet
    <3>2. l \in LabelsUnder(OldSchema)
      BY DEF OldLabels
    <3> QED BY <3>1, <3>2, LabelsUnderAreStored
  <2>4. LabelsSurviveEdit(OldSchema, q.new, OldLabels)
    BY <2>1, <2>2, <2>3, EditsKeepLabels
  <2>5. SaveAllowed(q.new) => ServingAsksForCore(q.new)
    BY <2>1, ServingKeepsCore
  <2> QED BY <2>1, <2>4, <2>5 DEF LabelsAreTakenAtTheirWord
<1>2. CASE q \in AnswerQuestions
  <2>1. q.about = "answer" /\ q.fields \in Seq(Fields) /\ SaveAllowed(q.fields)
    BY <1>2, AnswerQuestionIs
  <2>2. AcceptedStays(q.raw, q.fields)
    BY <2>1, AcceptedAnswersStay
  <2> QED BY <2>1, <2>2 DEF LabelsAreTakenAtTheirWord
<1>3. CASE q \in ScoreQuestions
  <2>1. /\ q.about = "score" /\ q.schema \in 1..4 /\ \E T : q.results \in Seq(T)
        /\ \A i \in DOMAIN q.results : StoredLabel(q.results[i][2], ScoredSchemas[q.schema])
    BY <1>3, ScoreQuestionIs
  <2>2. ScoredSchemas[q.schema] \in Seq(Fields) /\ SaveAllowed(ScoredSchemas[q.schema])
    BY <2>1, SchemasOfQuestions
  <2>3. MetricsAgree(q.results, ScoredSchemas[q.schema])
    BY <2>1, <2>2, ScoresAgree
  <2> QED BY <2>1, <2>3 DEF LabelsAreTakenAtTheirWord
<1>4. CASE q \in GateQuestions
  <2>1. /\ q.about = "gate" /\ q.newer \in {"nothing", "failed", "student"} /\ q.version \in Int
        /\ \E T : q.results \in Seq(T)
    BY <1>4, GateQuestionIs
  <2>2. ReadyMeansCovered(Asked(q))
    BY <2>1, AskedIs
  <2> QED BY <2>1, <2>2 DEF LabelsAreTakenAtTheirWord
<1> QED BY <1>1, <1>2, <1>3, <1>4

\* Whatever scene the run plays, labels keep their meaning in what is asked in it:
\* its questions are of the kind that the theorems above are about.
THEOREM LabelsAreKept == DataSpec => []LabelsKeepTheirMeaning
<1>1. DataInit => LabelsKeepTheirMeaning
  <2> SUFFICES ASSUME DataInit PROVE LabelsAreTakenAtTheirWord(question)
    BY DEF LabelsKeepTheirMeaning
  <2> DEFINE OfChoices == PoolQuestions \cup ReviewQuestions \cup IclQuestions \cup RoomQuestions
                          \cup ImageQuestions \cup ResponseQuestions \cup HostQuestions \cup ReadinessQuestions
             OfLabels == EditQuestions \cup AnswerQuestions \cup ScoreQuestions \cup GateQuestions
  <2>1. question \in CASE scene = "choices" -> OfChoices
                       [] scene = "labels" -> OfLabels
                       [] OTHER -> {NoQuestion}
    BY DEF DataInit
  <2>2. ASSUME question \in OfChoices PROVE LabelsAreTakenAtTheirWord(question)
    <3>1. question.about \in {"pool", "review", "icl", "invocation", "host", "bases"}
      BY <2>2, InvocationQuestionsAre, HostQuestionsAre, ReadinessQuestionsAre, ChoiceQuestionsAre
    <3> QED BY <3>1 DEF LabelsAreTakenAtTheirWord
  <2>3. ASSUME question \in OfLabels PROVE LabelsAreTakenAtTheirWord(question)
    BY <2>3, LabelQuestionsKept
  <2>4. ASSUME question = NoQuestion PROVE LabelsAreTakenAtTheirWord(question)
    BY <2>4 DEF LabelsAreTakenAtTheirWord, NoQuestion
  <2> HIDE DEF OfChoices, OfLabels
  <2>5. question \in OfChoices \/ question \in OfLabels \/ question = NoQuestion
    BY <2>1
  <2> QED BY <2>2, <2>3, <2>4, <2>5
<1>2. LabelsKeepTheirMeaning /\ [DataNext]_dataVars => LabelsKeepTheirMeaning'
  <2> SUFFICES ASSUME LabelsAreTakenAtTheirWord(question), [DataNext]_dataVars
               PROVE  LabelsAreTakenAtTheirWord(question)'
    BY DEF LabelsKeepTheirMeaning
  <2>1. question' = question
    BY DEF DataNext, dataVars
  <2> QED BY <2>1 DEF LabelsAreTakenAtTheirWord
<1> QED BY <1>1, <1>2, PTL DEF DataSpec
=============================================================================
