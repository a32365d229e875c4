--------------------------- MODULE Choices_proofs ---------------------------
(***************************************************************************)
(* Proofs about the choices that the backend makes, for questions of any   *)
(* size.                                                                   *)
(***************************************************************************)
EXTENDS Labels_proofs

\* Nothing is read at no position, and something at some.
LEMMA NothingRead ==
  ASSUME NEW n \in Nat, NEW seq, NEW Pos \in SUBSET (1..n)
  PROVE  AtPositions(seq, Pos) = <<>> <=> Pos = {}
<1>1. PICK at : InTurn(at, Pos) /\ ReadsInTurn(at, seq, Pos)
  BY PositionsInTurn
<1> DEFINE c == Cardinality(Pos)
           read == AtPositions(seq, Pos)
<1>2. c \in Nat /\ at \in [1..c -> Pos] /\ (\A k \in Pos : \E i \in 1..c : at[i] = k)
  BY <1>1 DEF InTurn
<1>3. read = [i \in 1..c |-> seq[at[i]]]
  BY <1>1 DEF ReadsInTurn
<1> HIDE DEF c, read
<1>4. DOMAIN read = 1..c
  BY <1>3
<1>5. CASE Pos = {}
  <2>1. c = 0
    BY <1>5, FS_EmptySet DEF c
  <2>2. read = <<>>
    BY <1>3, <2>1
  <2> QED BY <1>5, <2>2 DEF read
<1>6. CASE Pos # {}
  <2>1. 1..c # {}
    BY <1>2, <1>6
  <2>2. DOMAIN <<>> = {}
    OBVIOUS
  <2>3. read # <<>>
    BY <1>4, <2>1, <2>2
  <2> QED BY <1>6, <2>3 DEF read
<1> QED BY <1>5, <1>6

\* What a loop has after each of its n steps, in the sets that the steps lead
\* from one to the next.
LoopsBy(f, n, x0, step, X) ==
  /\ DOMAIN f = 0..n /\ f = [i \in 0..n |-> f[i]] /\ f[0] = x0
  /\ \A i \in 1..n : f[i - 1] \in X[i - 1] /\ f[i] = step[i][f[i - 1]]
  /\ \A i \in 0..n : f[i] \in X[i]

\* There is such a function.
LEMMA LoopExists ==
  ASSUME NEW n \in Nat, NEW X, NEW x0 \in X[0], NEW step,
         \A i \in 1..n : \A x \in X[i - 1] : step[i][x] \in X[i]
  PROVE  \E f : LoopsBy(f, n, x0, step, X)
<1> USE DEF LoopsBy
<1> DEFINE Made(f, m) == LoopsBy(f, m, x0, step, X)
           T == {m \in 0..n : ~\E f : Made(f, m)}
<1>1. SUFFICES ASSUME T # {} PROVE FALSE
  <2>1. n \notin T => \E f : Made(f, n)
    OBVIOUS
  <2> QED BY <2>1
<1>2. PICK m \in T : \A k \in T : m <= k
  <2>1. T \in SUBSET Nat
    OBVIOUS
  <2> HIDE DEF T
  <2> QED BY <1>1, <2>1, LeastNat
<1>3. m \in 0..n /\ ~\E f : Made(f, m)
  BY <1>2
<1>4. CASE m = 0
  <2> DEFINE f == [i \in 0..0 |-> x0]
  <2>1. Made(f, 0)
    OBVIOUS
  <2> QED BY <1>3, <1>4, <2>1
<1>5. CASE m # 0
  <2>1. m - 1 \in 0..n /\ m - 1 \notin T /\ m \in 1..n
    BY <1>2, <1>3, <1>5
  <2>2. PICK f : Made(f, m - 1)
    BY <2>1
  <2> DEFINE g == [i \in 0..m |-> IF i = m THEN step[m][f[m - 1]] ELSE f[i]]
  <2>3. f[m - 1] \in X[m - 1] /\ step[m][f[m - 1]] \in X[m]
    BY <2>1, <2>2
  <2>4. DOMAIN g = 0..m /\ g[m] = step[m][f[m - 1]] /\ \A i \in 0..(m - 1) : g[i] = f[i]
    BY <2>1
  <2>5. g = [i \in 0..m |-> g[i]]
    OBVIOUS
  <2> HIDE DEF g
  <2>6. \A i \in 0..m : i = m \/ i \in 0..(m - 1)
    BY <2>1
  <2>7. \A i \in 0..m : g[i] \in X[i]
    BY <2>2, <2>3, <2>4, <2>6
  <2>8. \A i \in 1..m : g[i - 1] \in X[i - 1] /\ g[i] = step[i][g[i - 1]]
    <3> SUFFICES ASSUME NEW i \in 1..m PROVE g[i - 1] \in X[i - 1] /\ g[i] = step[i][g[i - 1]]
      OBVIOUS
    <3>1. i - 1 \in 0..(m - 1) /\ g[i - 1] = f[i - 1]
      BY <2>1, <2>4
    <3>2. CASE i = m
      BY <2>3, <2>4, <3>1, <3>2
    <3>3. CASE i # m
      <4>1. i \in 1..(m - 1) /\ i \in 0..(m - 1)
        BY <2>1, <3>3
      <4> QED BY <2>2, <2>4, <3>1, <4>1
    <3> QED BY <3>2, <3>3
  <2>9. g[0] = x0
    BY <2>1, <2>2, <2>4
  <2>10. Made(g, m)
    BY <2>4, <2>5, <2>7, <2>8, <2>9
  <2> QED BY <1>3, <2>10
<1> QED BY <1>4, <1>5

\* What each step keeps, holds throughout.
LEMMA LoopKeeps ==
  ASSUME NEW n \in Nat, NEW X, NEW g, g[0] \in X[0], \A i \in 1..n : g[i - 1] \in X[i - 1] => g[i] \in X[i]
  PROVE  \A i \in 0..n : g[i] \in X[i]
<1> DEFINE T == {m \in 0..n : g[m] \notin X[m]}
<1>1. SUFFICES ASSUME T # {} PROVE FALSE
  OBVIOUS
<1>2. PICK m \in T : \A k \in T : m <= k
  <2>1. T \in SUBSET Nat
    OBVIOUS
  <2> HIDE DEF T
  <2> QED BY <1>1, <2>1, LeastNat
<1>3. m # 0 /\ m \in 1..n /\ m - 1 \in 0..n /\ m - 1 \notin T
  BY <1>2
<1> QED BY <1>2, <1>3

\* Sequences that have no element twice.
OnceEach(s) == \A i, j \in DOMAIN s : s[i] = s[j] => i = j

\* They are as long as there are elements.
LEMMA OnceIsCounted ==
  ASSUME NEW T, NEW s \in Seq(T)
  PROVE  /\ IsFiniteSet(ToSet(s)) /\ Cardinality(ToSet(s)) \in Nat /\ Cardinality(ToSet(s)) <= Len(s)
         /\ Cardinality(ToSet(s)) = Len(s) <=> OnceEach(s)
<1> DEFINE S == ToSet(s)
           n == Len(s)
<1>1. n \in Nat /\ DOMAIN s = 1..n /\ S = {s[i] : i \in 1..n} /\ s = [i \in 1..n |-> s[i]]
  BY DEF ToSet
<1> HIDE DEF S, n
<1>2. IsFiniteSet(1..n) /\ Cardinality(1..n) = n
  <2>1. 1 \in Int /\ n \in Int
    BY <1>1
  <2>2. IsFiniteSet(1..n) /\ Cardinality(1..n) = IF 1 > n THEN 0 ELSE n - 1 + 1
    BY <2>1, FS_Interval
  <2> QED BY <1>1, <2>2
<1>3. s \in [1..n -> S] /\ \A t \in S : \E i \in 1..n : s[i] = t
  BY <1>1
<1>4. s \in Surjection(1..n, S)
  BY <1>3 DEF Surjection
<1>5. IsFiniteSet(S) /\ Cardinality(S) <= n /\ (Cardinality(S) = n <=> s \in Injection(1..n, S))
  BY <1>2, <1>4, FS_Surjection
<1>6. s \in Injection(1..n, S) <=> OnceEach(s)
  BY <1>1, <1>3 DEF Injection, IsInjective, OnceEach
<1> QED BY <1>5, <1>6, FS_CardinalityType DEF S, n

\* What is read of a sequence at some positions.
LEMMA ReadOut ==
  ASSUME NEW T, NEW seq \in Seq(T), NEW Pos \in SUBSET DOMAIN seq
  PROVE  /\ AtPositions(seq, Pos) \in Seq(T)
         /\ ToSet(AtPositions(seq, Pos)) = {seq[k] : k \in Pos}
         /\ Len(AtPositions(seq, Pos)) = Cardinality(Pos) /\ Cardinality(Pos) \in Nat
         /\ OnceEach(seq) => OnceEach(AtPositions(seq, Pos))
<1> DEFINE r == AtPositions(seq, Pos)
           n == Cardinality(Pos)
<1>1. Len(seq) \in Nat /\ DOMAIN seq = 1..Len(seq) /\ Pos \in SUBSET (1..Len(seq))
  OBVIOUS
<1>2. PICK at : InTurn(at, Pos) /\ ReadsInTurn(at, seq, Pos)
  BY <1>1, PositionsInTurn
<1>3. /\ n \in Nat /\ at \in [1..n -> Pos] /\ (\A k \in Pos : \E i \in 1..n : at[i] = k)
      /\ \A i, j \in 1..n : i < j <=> at[i] < at[j]
  BY <1>2 DEF InTurn
<1>4. r = [i \in 1..n |-> seq[at[i]]]
  BY <1>2 DEF ReadsInTurn
<1> HIDE DEF r, n
<1>5. DOMAIN r = 1..n /\ \A i \in 1..n : at[i] \in Pos /\ r[i] = seq[at[i]] /\ r[i] \in T
  BY <1>3, <1>4
<1>6. r \in Seq(T) /\ Len(r) = n
  BY <1>3, <1>4, <1>5
<1>7. ToSet(r) = {seq[k] : k \in Pos}
  BY <1>3, <1>5 DEF ToSet
<1>8. ASSUME OnceEach(seq) PROVE OnceEach(r)
  <2> SUFFICES ASSUME NEW i \in 1..n, NEW j \in 1..n, r[i] = r[j] PROVE i = j
    BY <1>5 DEF OnceEach
  <2>1. at[i] = at[j]
    BY <1>1, <1>5, <1>8 DEF OnceEach
  <2>2. ~(i < j) /\ ~(j < i)
    BY <1>1, <1>3, <2>1
  <2> QED BY <1>3, <2>2
<1> QED BY <1>3, <1>6, <1>7, <1>8 DEF r, n

Stretch(seq, a, b) == [i \in 1..(b - a + 1) |-> seq[a + i - 1]]

\* A stretch of positions is read as it is.
LEMMA ReadStretch ==
  ASSUME NEW seq, NEW a \in Nat, NEW b \in Nat, a <= b + 1, a # 0
  PROVE  AtPositions(seq, a..b) = Stretch(seq, a, b)
<1> DEFINE Here == a..b
           n == b - a + 1
<1>1. n \in Nat /\ Cardinality(Here) = n
  <2>1. a \in Int /\ b \in Int
    OBVIOUS
  <2>2. Cardinality(Here) = IF a > b THEN 0 ELSE b - a + 1
    BY <2>1, FS_Interval
  <2> QED BY <2>2
<1>2. \A x \in Here : {y \in Here : y < x} = a..(x - 1)
  OBVIOUS
<1>3. \A x \in Here : Cardinality({y \in Here : y < x}) = x - a
  <2> SUFFICES ASSUME NEW x \in Here PROVE Cardinality(a..(x - 1)) = x - a
    BY <1>2
  <2>1. a \in Int /\ x - 1 \in Int
    OBVIOUS
  <2>2. Cardinality(a..(x - 1)) = IF a > x - 1 THEN 0 ELSE (x - 1) - a + 1
    BY <2>1, FS_Interval
  <2> QED BY <2>2
<1> DEFINE at == [i \in 1..Cardinality(Here) |-> CHOOSE x \in Here : Cardinality({y \in Here : y < x}) = i - 1]
<1>4. AtPositions(seq, Here) = [i \in DOMAIN at |-> seq[at[i]]]
  BY DEF AtPositions, Sorted
<1>5. \A i \in 1..n : at[i] = a + i - 1
  <2> SUFFICES ASSUME NEW i \in 1..n PROVE (CHOOSE x \in Here : Cardinality({y \in Here : y < x}) = i - 1) = a + i - 1
    BY <1>1
  <2> DEFINE Fits(x) == Cardinality({y \in Here : y < x}) = i - 1
  <2>1. a + i - 1 \in Here /\ \A x \in Here : x - a = i - 1 <=> x = a + i - 1
    BY <1>1
  <2>2. \A x \in Here : Fits(x) <=> x = a + i - 1
    BY <1>3, <2>1
  <2> HIDE DEF Fits, Here
  <2>3. (CHOOSE x \in Here : Fits(x)) = a + i - 1
    BY <2>1, <2>2
  <2> QED BY <2>3 DEF Fits
<1>6. DOMAIN at = 1..n
  BY <1>1
<1> HIDE DEF at, n, Here
<1>7. [i \in DOMAIN at |-> seq[at[i]]] = [i \in 1..n |-> seq[a + i - 1]]
  BY <1>5, <1>6
<1> QED BY <1>4, <1>7 DEF n, Here, Stretch

\* What goes before and what goes after.
LEMMA TwoParts ==
  ASSUME NEW T, NEW s \in Seq(T), NEW t \in Seq(T), NEW S,
         \A i \in DOMAIN s : s[i] \in S, \A i \in DOMAIN t : t[i] \notin S
  PROVE  Among(s \o t, S) = s /\ Lacking(s \o t, S) = t
<1> DEFINE u == s \o t
           m == Len(s)
           k == Len(t)
<1>1. m \in Nat /\ k \in Nat /\ DOMAIN s = 1..m /\ DOMAIN t = 1..k /\ DOMAIN u = 1..(m + k)
      /\ \A i \in 1..(m + k) : u[i] = IF i <= m THEN s[i] ELSE t[i - m]
  BY ConcatProperties
<1>s. s = [i \in 1..m |-> s[i]] /\ t = [i \in 1..k |-> t[i]]
  OBVIOUS
<1> HIDE DEF u, m, k
<1>2. \A i \in 1..(m + k) : u[i] \in S <=> i <= m
  <2> SUFFICES ASSUME NEW i \in 1..(m + k) PROVE u[i] \in S <=> i <= m
    OBVIOUS
  <2>1. CASE i <= m
    BY <1>1, <2>1
  <2>2. CASE ~(i <= m)
    <3>1. i - m \in 1..k
      BY <1>1, <2>2
    <3> QED BY <1>1, <2>2, <3>1
  <2> QED BY <2>1, <2>2
<1>3. {i \in DOMAIN u : u[i] \in S} = 1..m /\ {i \in DOMAIN u : u[i] \notin S} = (m + 1)..(m + k)
  BY <1>1, <1>2
<1>4. Among(u, S) = Stretch(u, 1, m)
  <2>1. AtPositions(u, 1..m) = Stretch(u, 1, m)
    BY <1>1, ReadStretch
  <2> QED BY <1>3, <2>1 DEF Among
<1>5. Lacking(u, S) = Stretch(u, m + 1, m + k)
  <2>1. m + 1 \in Nat /\ m + k \in Nat /\ m + 1 <= (m + k) + 1 /\ m + 1 # 0
    BY <1>1
  <2>2. AtPositions(u, (m + 1)..(m + k)) = Stretch(u, m + 1, m + k)
    BY <2>1, ReadStretch
  <2> QED BY <1>3, <2>2 DEF Lacking
<1>6. m - 1 + 1 = m /\ (m + k) - (m + 1) + 1 = k /\ \A i \in 1..m : u[1 + i - 1] = s[i]
  <2>1. m - 1 + 1 = m /\ (m + k) - (m + 1) + 1 = k
    BY <1>1
  <2>2. \A i \in 1..m : i \in 1..(m + k) /\ i <= m /\ 1 + i - 1 = i
    BY <1>1
  <2>3. \A i \in 1..m : u[i] = s[i]
    BY <1>1, <2>2
  <2> QED BY <2>1, <2>2, <2>3
<1>7. \A i \in 1..k : u[(m + 1) + i - 1] = t[i]
  <2> SUFFICES ASSUME NEW i \in 1..k PROVE u[(m + 1) + i - 1] = t[i]
    OBVIOUS
  <2>1. (m + 1) + i - 1 = m + i /\ m + i \in 1..(m + k) /\ ~(m + i <= m) /\ (m + i) - m = i
    BY <1>1
  <2> QED BY <1>1, <2>1
<1>8. Among(u, S) = [i \in 1..m |-> s[i]] /\ Lacking(u, S) = [i \in 1..k |-> t[i]]
  <2>1. Stretch(u, 1, m) = [i \in 1..m |-> s[i]]
    BY <1>6 DEF Stretch
  <2>2. Stretch(u, m + 1, m + k) = [i \in 1..k |-> t[i]]
    BY <1>6, <1>7 DEF Stretch
  <2> QED BY <1>4, <1>5, <2>1, <2>2
<1> QED BY <1>8, <1>s DEF u

\* The least of finitely many numbers.
LEMMA MinIsLeast ==
  ASSUME NEW S \in SUBSET Int, IsFiniteSet(S), S # {}
  PROVE  Min(S) \in S /\ \A x \in S : Min(S) <= x
<1> DEFINE f == [x \in S |-> -x]
           N == {-x : x \in S}
<1>1. IsFiniteSet(N)
  <2>1. f \in [S -> N] /\ \A y \in N : \E x \in S : f[x] = y
    OBVIOUS
  <2>2. f \in Surjection(S, N)
    BY <2>1 DEF Surjection
  <2> HIDE DEF f, N
  <2> QED BY <2>2, FS_Surjection
<1>2. N \in SUBSET Int /\ N # {} /\ \A y \in N : -y \in S
  <2>1. \A x \in S : x \in Int /\ -x \in Int /\ -(-x) = x
    OBVIOUS
  <2>2. \A y \in N : \E x \in S : y = -x
    OBVIOUS
  <2>3. N # {}
    OBVIOUS
  <2> HIDE DEF N
  <2> QED BY <2>1, <2>2, <2>3
<1>3. \A x \in S : -x \in N
  OBVIOUS
<1> HIDE DEF N
<1>4. Max(N) \in N /\ \A y \in N : y <= Max(N)
  BY <1>1, <1>2, MaxIsGreatest
<1>5. -Max(N) \in S /\ \A x \in S : -Max(N) <= x
  <2> SUFFICES ASSUME NEW x \in S PROVE -Max(N) <= x
    BY <1>2, <1>4
  <2>1. -x <= Max(N) /\ Max(N) \in Int /\ x \in Int
    BY <1>2, <1>3, <1>4
  <2> QED BY <2>1
<1>6. \E x \in S : \A y \in S : x =< y
  BY <1>5
<1> QED BY <1>6 DEF Min

\* It is the only one there is.
LEMMA MinIsOne ==
  ASSUME NEW S \in SUBSET Int, IsFiniteSet(S), NEW m \in S, \A x \in S : m <= x
  PROVE  Min(S) = m
<1>1. Min(S) \in S /\ \A x \in S : Min(S) <= x
  BY MinIsLeast
<1>2. Min(S) <= m /\ m <= Min(S) /\ m \in Int /\ Min(S) \in Int
  BY <1>1
<1> QED BY <1>2


-----------------------------------------------------------------------------
(* A launch of a suite.                                                    *)

CheckNames == {"tao", "timeout", "workspace", "base", "token", "merge", "role", "mode", "quantization", "data"}
Verdicts == CheckNames \X BOOLEAN
AllPass(checks) == \A i \in DOMAIN checks : checks[i][2]

LaunchFields == {"project", "rows", "ids", "up", "timeouts", "booted", "identity", "workspace", "lora",
                 "tagRejectsLora", "schemes", "token", "data", "guidance", "resumes", "pythons"}
RowFields == {"project", "name", "exact", "trainable", "base", "pull"}

\* A launch as it is asked for.
LaunchAsked(q) ==
  /\ LaunchFields \subseteq DOMAIN q
  /\ \E I : q.ids \in Seq(I)
  /\ {q.up, q.timeouts, q.booted, q.identity, q.workspace, q.lora, q.tagRejectsLora, q.token, q.data,
      q.guidance, q.resumes} \subseteq BOOLEAN
  /\ \A id \in DOMAIN q.rows : RowFields \subseteq DOMAIN q.rows[id]

\* Checks in a row all pass if those of both parts do.
LEMMA PassTogether ==
  ASSUME NEW s \in Seq(Verdicts), NEW t \in Seq(Verdicts)
  PROVE  s \o t \in Seq(Verdicts) /\ (AllPass(s \o t) <=> AllPass(s) /\ AllPass(t))
<1> DEFINE u == s \o t
<1>1. /\ u \in Seq(Verdicts) /\ Len(u) = Len(s) + Len(t)
      /\ \A i \in 1 .. Len(s) + Len(t) : u[i] = IF i <= Len(s) THEN s[i] ELSE t[i - Len(s)]
  BY ConcatProperties
<1>2. /\ Len(s) \in Nat /\ Len(t) \in Nat /\ DOMAIN s = 1..Len(s) /\ DOMAIN t = 1..Len(t)
      /\ DOMAIN u = 1..(Len(s) + Len(t))
  BY <1>1
<1> HIDE DEF u
<1>3. ASSUME AllPass(u), NEW i \in DOMAIN s PROVE s[i][2]
  <2>1. i \in DOMAIN u /\ u[i] = s[i]
    BY <1>1, <1>2
  <2> QED BY <1>3, <2>1 DEF AllPass
<1>4. ASSUME AllPass(u), NEW i \in DOMAIN t PROVE t[i][2]
  <2>1. i + Len(s) \in DOMAIN u /\ ~(i + Len(s) <= Len(s)) /\ (i + Len(s)) - Len(s) = i
    BY <1>2
  <2>2. u[i + Len(s)] = t[i]
    BY <1>1, <1>2, <2>1
  <2> QED BY <1>4, <2>1, <2>2 DEF AllPass
<1>5. ASSUME AllPass(s), AllPass(t), NEW i \in DOMAIN u PROVE u[i][2]
  <2>1. CASE i <= Len(s)
    BY <1>1, <1>2, <1>5, <2>1 DEF AllPass
  <2>2. CASE ~(i <= Len(s))
    <3>1. i - Len(s) \in DOMAIN t
      BY <1>2, <2>2
    <3>2. u[i] = t[i - Len(s)]
      BY <1>1, <1>2, <2>2
    <3> QED BY <1>5, <3>1, <3>2 DEF AllPass
  <2> QED BY <2>1, <2>2
<1>6. AllPass(u) <=> AllPass(s) /\ AllPass(t)
  BY <1>3, <1>4, <1>5 DEF AllPass
<1> QED BY <1>1, <1>6 DEF u

\* A check's record tells its verdict.
LEMMA VerdictTold ==
  ASSUME NEW name \in CheckNames, NEW verdict, verdict \in BOOLEAN
  PROVE  <<name, verdict>> \in Verdicts /\ (<<name, verdict>>[2] <=> verdict)
<1>1. CASE verdict
  <2>1. verdict = TRUE
    BY <1>1
  <2>2. <<name, TRUE>> \in Verdicts /\ <<name, TRUE>>[2] = TRUE
    BY DEF Verdicts
  <2> QED BY <2>1, <2>2
<1>2. CASE ~verdict
  <2>1. verdict = FALSE
    BY <1>2
  <2>2. <<name, FALSE>> \in Verdicts /\ <<name, FALSE>>[2] = FALSE
    BY DEF Verdicts
  <2> QED BY <2>1, <2>2
<1> QED BY <1>1, <1>2

\* A check for each of the selected rows passes if each of them does.
LEMMA EachPasses ==
  ASSUME NEW I, NEW ids \in Seq(I), NEW name \in CheckNames, NEW passing
  PROVE  /\ ForEach(ids, name, passing) \in Seq(Verdicts)
         /\ AllPass(ForEach(ids, name, passing)) <=> \A i \in DOMAIN ids : ids[i] \in passing
<1> DEFINE v(i) == ids[i] \in passing
           s == [i \in DOMAIN ids |-> <<name, v(i)>>]
<1>1. DOMAIN ids = 1..Len(ids) /\ Len(ids) \in Nat
  OBVIOUS
<1>v. ASSUME NEW i \in DOMAIN ids PROVE v(i) \in BOOLEAN
  OBVIOUS
<1>4. DOMAIN s = DOMAIN ids /\ \A i \in DOMAIN ids : s[i] = <<name, v(i)>>
  OBVIOUS
<1>5. s = ForEach(ids, name, passing)
  BY DEF ForEach
<1> HIDE DEF v
<1>2. ASSUME NEW i \in DOMAIN ids PROVE <<name, v(i)>> \in Verdicts /\ (<<name, v(i)>>[2] <=> v(i))
  BY <1>v, VerdictTold
<1>3. s \in [1..Len(ids) -> Verdicts]
  BY <1>1, <1>2
<1> HIDE DEF s
<1>6. s \in Seq(Verdicts)
  BY <1>1, <1>3, SeqDef
<1>7. \A i \in DOMAIN ids : s[i][2] <=> v(i)
  BY <1>4, <1>2
<1>8. AllPass(s) <=> \A i \in DOMAIN ids : v(i)
  BY <1>4, <1>7 DEF AllPass
<1> QED BY <1>5, <1>6, <1>8 DEF v

\* A few checks pass if each of them does.
LEMMA ThreePass ==
  ASSUME NEW a \in BOOLEAN, NEW b \in BOOLEAN, NEW c \in BOOLEAN
  PROVE  LET s == <<<<"tao", a>>, <<"timeout", b>>, <<"workspace", c>>>> IN
         s \in Seq(Verdicts) /\ (AllPass(s) <=> a /\ b /\ c)
<1> DEFINE u == <<"tao", a>>
           v == <<"timeout", b>>
           w == <<"workspace", c>>
           s == <<u, v, w>>
<1>1. "tao" \in CheckNames /\ "timeout" \in CheckNames /\ "workspace" \in CheckNames
  BY DEF CheckNames
<1>2. u \in Verdicts /\ v \in Verdicts /\ w \in Verdicts /\ (u[2] <=> a) /\ (v[2] <=> b) /\ (w[2] <=> c)
  BY <1>1, VerdictTold
<1> HIDE DEF u, v, w
<1>3. s \in Seq(Verdicts) /\ DOMAIN s = 1..3 /\ s[1] = u /\ s[2] = v /\ s[3] = w
  BY <1>2
<1>4. \A i : i \in 1..3 <=> i \in {1, 2, 3}
  OBVIOUS
<1>5. AllPass(s) <=> s[1][2] /\ s[2][2] /\ s[3][2]
  <2> HIDE DEF s
  <2> QED BY <1>3, <1>4 DEF AllPass
<1>6. s \in Seq(Verdicts) /\ (AllPass(s) <=> a /\ b /\ c)
  <2> HIDE DEF s
  <2> QED BY <1>2, <1>3, <1>5
<1> QED BY <1>6 DEF u, v, w

\* The checks of the token and of the merge.
LEMMA TwoPass ==
  ASSUME NEW a \in BOOLEAN, NEW b \in BOOLEAN
  PROVE  LET s == <<<<"token", a>>, <<"merge", b>>>> IN
         s \in Seq(Verdicts) /\ (AllPass(s) <=> a /\ b)
<1> DEFINE u == <<"token", a>>
           v == <<"merge", b>>
           s == <<u, v>>
<1>1. "token" \in CheckNames /\ "merge" \in CheckNames
  BY DEF CheckNames
<1>2. u \in Verdicts /\ v \in Verdicts /\ (u[2] <=> a) /\ (v[2] <=> b)
  BY <1>1, VerdictTold
<1> HIDE DEF u, v
<1>3. s \in Seq(Verdicts) /\ DOMAIN s = 1..2 /\ s[1] = u /\ s[2] = v
  BY <1>2
<1>4. \A i : i \in 1..2 <=> i \in {1, 2}
  OBVIOUS
<1>5. AllPass(s) <=> s[1][2] /\ s[2][2]
  <2> HIDE DEF s
  <2> QED BY <1>3, <1>4 DEF AllPass
<1>6. s \in Seq(Verdicts) /\ (AllPass(s) <=> a /\ b)
  <2> HIDE DEF s
  <2> QED BY <1>2, <1>3, <1>5
<1> QED BY <1>6 DEF u, v

\* The check of the data.
LEMMA OnePasses ==
  ASSUME NEW a \in BOOLEAN
  PROVE  LET s == <<<<"data", a>>>> IN s \in Seq(Verdicts) /\ (AllPass(s) <=> a)
<1> DEFINE u == <<"data", a>>
           s == <<u>>
<1>1. "data" \in CheckNames
  BY DEF CheckNames
<1>2. u \in Verdicts /\ (u[2] <=> a)
  BY <1>1, VerdictTold
<1> HIDE DEF u
<1>3. s \in Seq(Verdicts) /\ DOMAIN s = 1..1 /\ s[1] = u
  BY <1>2
<1>4. \A i : i \in 1..1 <=> i = 1
  OBVIOUS
<1>5. AllPass(s) <=> s[1][2]
  <2> HIDE DEF s
  <2> QED BY <1>3, <1>4 DEF AllPass
<1>6. s \in Seq(Verdicts) /\ (AllPass(s) <=> a)
  <2> HIDE DEF s
  <2> QED BY <1>2, <1>3, <1>5
<1> QED BY <1>6 DEF u

\* What the preflight of a launch asks for, in so many words.
LaunchPasses(q) ==
  /\ q.up /\ q.timeouts /\ WorkspaceReachable(q)
  /\ TokenSuffices(q) /\ (q.lora => MergeReady(q.pythons)) /\ q.data
  /\ \A id \in Range(q.ids) : id \in Selected(q) /\ q.rows[id].trainable
  /\ \A id \in Selected(q) : ModeFits(q.rows[id], q) /\ QuantizationFits(q.rows[id], q.schemes)

\* No check fails if and only if all that holds.
LEMMA NoneFails ==
  ASSUME NEW q, LaunchAsked(q)
  PROVE  /\ FailedChecks(q) = <<>> <=> LaunchPasses(q)
         /\ PreflightChecks(q) \in Seq(Verdicts)
<1>1. PICK I : q.ids \in Seq(I)
  BY DEF LaunchAsked
<1>2. /\ q.up \in BOOLEAN /\ q.timeouts \in BOOLEAN /\ q.booted \in BOOLEAN /\ q.identity \in BOOLEAN
      /\ q.workspace \in BOOLEAN /\ q.data \in BOOLEAN
  BY DEF LaunchAsked
<1> DEFINE known == Among(q.ids, Selected(q))
           reachable == WorkspaceReachable(q)
           token == TokenSuffices(q)
           merge == q.lora => MergeReady(q.pythons)
           both == q.up /\ q.timeouts
           s1 == <<<<"tao", q.up>>, <<"timeout", both>>, <<"workspace", reachable>>>>
           s2 == ForEach(q.ids, "base", Selected(q))
           s3 == <<<<"token", token>>, <<"merge", merge>>>>
           trainable == {id \in Selected(q) : q.rows[id].trainable}
           moded == {id \in Selected(q) : ModeFits(q.rows[id], q)}
           small == {id \in Selected(q) : QuantizationFits(q.rows[id], q.schemes)}
           s4 == ForEach(q.ids, "role", trainable)
           s5 == ForEach(known, "mode", moded)
           s6 == ForEach(known, "quantization", small)
           s7 == <<<<"data", q.data>>>>
           checks == PreflightChecks(q)
<1>3. known \in Seq(I) /\ ToSet(known) = ToSet(q.ids) \cap Selected(q)
  BY <1>1, AmongKeepsOrder
<1>4. Selected(q) \subseteq ToSet(q.ids) /\ Range(q.ids) = ToSet(q.ids)
  BY DEF Selected, Range, ToSet
<1>5. checks = s1 \o s2 \o s3 \o s4 \o s5 \o s6 \o s7
  BY DEF PreflightChecks
<1>6. reachable \in BOOLEAN /\ token \in BOOLEAN /\ merge \in BOOLEAN /\ both \in BOOLEAN
  BY <1>2 DEF WorkspaceReachable, TokenSuffices
<1>7. {"base", "role", "mode", "quantization"} \subseteq CheckNames
  BY DEF CheckNames
<1> HIDE DEF known, reachable, token, merge, both, trainable, moded, small, checks
<1>8. s1 \in Seq(Verdicts) /\ (AllPass(s1) <=> q.up /\ both /\ reachable)
  BY <1>2, <1>6, ThreePass
<1>9. s3 \in Seq(Verdicts) /\ (AllPass(s3) <=> token /\ merge)
  BY <1>6, TwoPass
<1>10. s7 \in Seq(Verdicts) /\ (AllPass(s7) <=> q.data)
  BY <1>2, OnePasses
<1>11. s2 \in Seq(Verdicts) /\ (AllPass(s2) <=> \A i \in DOMAIN q.ids : q.ids[i] \in Selected(q))
  BY <1>1, <1>7, EachPasses
<1>12. s4 \in Seq(Verdicts) /\ (AllPass(s4) <=> \A i \in DOMAIN q.ids : q.ids[i] \in trainable)
  BY <1>1, <1>7, EachPasses
<1>13. s5 \in Seq(Verdicts) /\ (AllPass(s5) <=> \A i \in DOMAIN known : known[i] \in moded)
  BY <1>3, <1>7, EachPasses
<1>14. s6 \in Seq(Verdicts) /\ (AllPass(s6) <=> \A i \in DOMAIN known : known[i] \in small)
  BY <1>3, <1>7, EachPasses
<1> HIDE DEF s1, s2, s3, s4, s5, s6, s7
<1>15. /\ checks \in Seq(Verdicts)
       /\ AllPass(checks) <=> AllPass(s1) /\ AllPass(s2) /\ AllPass(s3) /\ AllPass(s4) /\ AllPass(s5)
                                /\ AllPass(s6) /\ AllPass(s7)
  <2> DEFINE t2 == s1 \o s2
             t3 == t2 \o s3
             t4 == t3 \o s4
             t5 == t4 \o s5
             t6 == t5 \o s6
  <2>1. t2 \in Seq(Verdicts) /\ (AllPass(t2) <=> AllPass(s1) /\ AllPass(s2))
    BY <1>8, <1>11, PassTogether
  <2> HIDE DEF t2
  <2>2. t3 \in Seq(Verdicts) /\ (AllPass(t3) <=> AllPass(t2) /\ AllPass(s3))
    BY <1>9, <2>1, PassTogether
  <2> HIDE DEF t3
  <2>3. t4 \in Seq(Verdicts) /\ (AllPass(t4) <=> AllPass(t3) /\ AllPass(s4))
    BY <1>12, <2>2, PassTogether
  <2> HIDE DEF t4
  <2>4. t5 \in Seq(Verdicts) /\ (AllPass(t5) <=> AllPass(t4) /\ AllPass(s5))
    BY <1>13, <2>3, PassTogether
  <2> HIDE DEF t5
  <2>5. t6 \in Seq(Verdicts) /\ (AllPass(t6) <=> AllPass(t5) /\ AllPass(s6))
    BY <1>14, <2>4, PassTogether
  <2> HIDE DEF t6
  <2>6. t6 \o s7 \in Seq(Verdicts) /\ (AllPass(t6 \o s7) <=> AllPass(t6) /\ AllPass(s7))
    BY <1>10, <2>5, PassTogether
  <2>7. checks = t6 \o s7
    BY <1>5 DEF t2, t3, t4, t5, t6
  <2> QED BY <2>1, <2>2, <2>3, <2>4, <2>5, <2>6, <2>7
<1>16. (\A i \in DOMAIN known : known[i] \in moded) <=> \A id \in Selected(q) : ModeFits(q.rows[id], q)
  BY <1>3, <1>4 DEF moded, ToSet
<1>17. (\A i \in DOMAIN known : known[i] \in small) <=> \A id \in Selected(q) : QuantizationFits(q.rows[id], q.schemes)
  BY <1>3, <1>4 DEF small, ToSet
<1>18. /\ (\A i \in DOMAIN q.ids : q.ids[i] \in Selected(q)) <=> \A id \in Range(q.ids) : id \in Selected(q)
       /\ (\A i \in DOMAIN q.ids : q.ids[i] \in trainable)
            <=> \A id \in Range(q.ids) : id \in Selected(q) /\ q.rows[id].trainable
  BY DEF Range, trainable
<1>19. AllPass(checks) <=> LaunchPasses(q)
  <2>1. AllPass(checks) <=> /\ q.up /\ both /\ reachable /\ token /\ merge /\ q.data
                            /\ \A id \in Range(q.ids) : id \in Selected(q)
                            /\ \A id \in Range(q.ids) : id \in Selected(q) /\ q.rows[id].trainable
                            /\ \A id \in Selected(q) : ModeFits(q.rows[id], q)
                            /\ \A id \in Selected(q) : QuantizationFits(q.rows[id], q.schemes)
    BY <1>8, <1>9, <1>10, <1>11, <1>12, <1>13, <1>14, <1>15, <1>16, <1>17, <1>18
  <2> QED BY <2>1 DEF LaunchPasses, reachable, token, merge, both
<1> DEFINE failing == {i \in DOMAIN checks : ~checks[i][2]}
<1>20. FailedChecks(q) = AtPositions(checks, failing)
  BY DEF FailedChecks, checks
<1>21. Len(checks) \in Nat /\ failing \in SUBSET (1..Len(checks))
  BY <1>15
<1>22. failing = {} <=> AllPass(checks)
  BY DEF AllPass
<1> HIDE DEF failing
<1>23. FailedChecks(q) = <<>> <=> failing = {}
  BY <1>20, <1>21, NothingRead
<1> QED BY <1>15, <1>19, <1>22, <1>23 DEF checks

\* A launch in its three outcomes that are not refusals of the preflight.
LEMMA LaunchedIs ==
  ASSUME NEW q, LaunchAsked(q)
  PROVE  /\ Launched(q) = "create" <=> LaunchPasses(q) /\ q.guidance /\ BasesMayBeTrained(q) /\ Unready(q) = {}
         /\ Launched(q) = "provision" =>
              LaunchPasses(q) /\ q.guidance /\ BasesMayBeTrained(q) /\ Unready(q) # {}
<1> DEFINE none == FailedChecks(q) = <<>>
           told == Head(FailedChecks(q))[1] \in {"tao", "timeout", "workspace"}
           able == q.guidance /\ BasesMayBeTrained(q)
           ready == Unready(q) = {}
<1>1. none <=> LaunchPasses(q)
  BY NoneFails
<1>2. Launched(q) =
        CASE ~none -> IF told THEN "tao_unreachable" ELSE "validation"
          [] none /\ ~able -> "validation"
          [] none /\ q.guidance /\ BasesMayBeTrained(q) ->
               IF ready THEN "create" ELSE IF q.resumes THEN "conflict" ELSE "provision"
  BY DEF Launched
<1>3. able <=> q.guidance /\ BasesMayBeTrained(q)
  OBVIOUS
<1> HIDE DEF none, told, ready
<1>4. /\ Launched(q) = "create" <=> none /\ able /\ ready
      /\ Launched(q) = "provision" => none /\ able /\ ~ready
  <2>1. CASE ~none
    BY <1>2, <2>1
  <2>2. CASE none /\ ~able
    BY <1>2, <1>3, <2>2
  <2>3. CASE none /\ able
    BY <1>2, <1>3, <2>3
  <2> QED BY <2>1, <2>2, <2>3
<1> QED BY <1>1, <1>3, <1>4 DEF ready

\* A patched row is its former self but for the base that it has now.
LEMMA PatchedRow ==
  ASSUME NEW rs, NEW Patching, \A id \in DOMAIN rs : RowFields \subseteq DOMAIN rs[id], Patching \subseteq SelfServed
  PROVE  /\ DOMAIN Patched(rs, Patching) = DOMAIN rs
         /\ \A id \in DOMAIN rs :
              LET o == rs[id]
                  n == Patched(rs, Patching)[id]
              IN /\ n.project = o.project /\ n.name = o.name /\ n.exact = o.exact /\ n.trainable = o.trainable
                 /\ RowFields \subseteq DOMAIN n
                 /\ HasBase(o) => HasBase(n)
                 /\ o.exact /\ o.name \in Patching => HasBase(n) /\ n.base = o.name
<1>1. DOMAIN Patched(rs, Patching) = DOMAIN rs
  BY DEF Patched
<1>2. ASSUME NEW id \in DOMAIN rs, NEW o, o = rs[id], NEW n, n = Patched(rs, Patching)[id]
      PROVE  /\ n.project = o.project /\ n.name = o.name /\ n.exact = o.exact /\ n.trainable = o.trainable
             /\ RowFields \subseteq DOMAIN n
             /\ HasBase(o) => HasBase(n)
             /\ o.exact /\ o.name \in Patching => HasBase(n) /\ n.base = o.name
  <2>1. n = IF o.exact /\ o.name \in Patching THEN [o EXCEPT !.base = o.name, !.pull = "pull_complete"] ELSE o
    BY <1>2 DEF Patched
  <2>2. RowFields \subseteq DOMAIN o
    BY <1>2
  <2>3. CASE o.exact /\ o.name \in Patching
    <3>1. n = [o EXCEPT !.base = o.name, !.pull = "pull_complete"]
      BY <2>1, <2>3
    <3>2. /\ n.project = o.project /\ n.name = o.name /\ n.exact = o.exact /\ n.trainable = o.trainable
          /\ DOMAIN n = DOMAIN o /\ n.base = o.name /\ n.pull = "pull_complete"
      BY <2>2, <3>1 DEF RowFields
    <3>3. n.base # NoBase
      BY <2>3, <3>2, BasesAssumption
    <3> QED BY <2>2, <3>2, <3>3 DEF HasBase
  <2>4. CASE ~(o.exact /\ o.name \in Patching)
    BY <2>1, <2>2, <2>4
  <2> QED BY <2>3, <2>4
<1> QED BY <1>1, <1>2

\* What a provisioning does to the rows: it patches some names, of those that it
\* reports registered or there already unless the transfer failed.
LEMMA ProvisionIs ==
  ASSUME NEW q
  PROVE  /\ \/ Provision(q).rows = q.rows /\ Provision(q).registered = {}
            \/ Provision(q).rows = Patched(q.rows, NamesTold(q, Present(q) \cup Provision(q).registered))
         /\ Provision(q).registered \subseteq Confirmed(q)
         /\ q.identity => /\ Provision(q).already = Present(q)
                          /\ \/ Provision(q).failed = Range(q.ids) \ (Present(q) \cup Confirmed(q))
                                /\ Provision(q).registered = Confirmed(q)
                                /\ Provision(q).rows = Patched(q.rows, NamesTold(q, Present(q) \cup Confirmed(q)))
                             \/ Provision(q).failed = Range(q.ids) \ Present(q)
                                /\ Provision(q).registered = {} /\ ToPull(q) # {}
<1> DEFINE p == Provision(q)
           lost == (Range(q.ids) \ Targets(q)) \cup Unanswered(q)
<1>1. Targets(q) \subseteq Range(q.ids) /\ Unanswered(q) \subseteq Targets(q) /\ Present(q) \subseteq Targets(q)
      /\ Present(q) \cap Unanswered(q) = {} /\ ToPull(q) = Targets(q) \ (Unanswered(q) \cup Present(q))
      /\ Confirmed(q) \subseteq ToPull(q)
  BY DEF Targets, Unanswered, Present, ToPull, Confirmed
<1>2. CASE ~q.identity
  <2>1. p = Provisioned({}, {}, {"workspace"}, q.rows)
    BY <1>2 DEF Provision
  <2> QED BY <1>2, <2>1 DEF Provisioned
<1>3. CASE q.identity /\ ToPull(q) = {}
  <2>1. p = Provisioned({}, Present(q), lost, Patched(q.rows, NamesTold(q, Present(q))))
    BY <1>3 DEF Provision
  <2>2. Confirmed(q) = {} /\ Present(q) \cup Confirmed(q) = Present(q) /\ lost = Range(q.ids) \ Present(q)
    BY <1>1, <1>3
  <2>3. p.registered = {} /\ p.already = Present(q) /\ p.failed = lost
        /\ p.rows = Patched(q.rows, NamesTold(q, Present(q)))
    BY <2>1 DEF Provisioned
  <2>4. Present(q) \cup p.registered = Present(q)
    BY <2>3
  <2> HIDE DEF p, lost
  <2>5. p.rows = Patched(q.rows, NamesTold(q, Present(q) \cup p.registered))
    BY <2>3, <2>4
  <2>6. p.rows = Patched(q.rows, NamesTold(q, Present(q) \cup Confirmed(q)))
    BY <2>3, <2>2
  <2> QED BY <1>3, <2>2, <2>3, <2>5, <2>6 DEF p
<1>4. CASE q.identity /\ ToPull(q) # {} /\ ~q.transfers
  <2>1. p = Provisioned({}, Present(q), lost \cup ToPull(q), q.rows)
    BY <1>4 DEF Provision
  <2>2. lost \cup ToPull(q) = Range(q.ids) \ Present(q)
    BY <1>1
  <2>3. p.registered = {} /\ p.already = Present(q) /\ p.failed = lost \cup ToPull(q) /\ p.rows = q.rows
    BY <2>1 DEF Provisioned
  <2> HIDE DEF p, lost
  <2> QED BY <1>4, <2>2, <2>3 DEF p
<1>5. CASE q.identity /\ ToPull(q) # {} /\ q.transfers
  <2>1. p = Provisioned(Confirmed(q), Present(q), lost \cup (ToPull(q) \ Confirmed(q)),
                        Patched(q.rows, NamesTold(q, Present(q) \cup Confirmed(q))))
    BY <1>5 DEF Provision
  <2>2. lost \cup (ToPull(q) \ Confirmed(q)) = Range(q.ids) \ (Present(q) \cup Confirmed(q))
    BY <1>1
  <2>3. p.registered = Confirmed(q) /\ p.already = Present(q) /\ p.failed = lost \cup (ToPull(q) \ Confirmed(q))
        /\ p.rows = Patched(q.rows, NamesTold(q, Present(q) \cup Confirmed(q)))
    BY <2>1 DEF Provisioned
  <2> HIDE DEF p, lost
  <2> QED BY <1>5, <2>2, <2>3 DEF p
<1> QED BY <1>2, <1>3, <1>4, <1>5

\* A base that is asked for has a name and a path.
LEMMA NamesAreServed ==
  ASSUME NEW q, NEW ids \in SUBSET (Present(q) \cup Confirmed(q))
  PROVE  /\ NamesTold(q, ids) \subseteq SelfServed
         /\ \A id \in ids : id \in Range(q.ids) /\ id \in DOMAIN q.rows
<1>1. \A id \in ids : id \in Targets(q)
  BY DEF Present, Confirmed, ToPull
<1> QED BY <1>1 DEF Targets, Resolvable, Known, NamesTold

\* The rows of a launch keep who they are through a provisioning.
LEMMA RowsAfter ==
  ASSUME NEW q, LaunchAsked(q)
  PROVE  LET rs == Provision(q).rows IN
         /\ DOMAIN rs = DOMAIN q.rows
         /\ \A id \in DOMAIN q.rows :
              /\ rs[id].project = q.rows[id].project /\ rs[id].name = q.rows[id].name
              /\ rs[id].exact = q.rows[id].exact /\ rs[id].trainable = q.rows[id].trainable
              /\ RowFields \subseteq DOMAIN rs[id]
              /\ HasBase(q.rows[id]) => HasBase(rs[id])
<1>1. \A id \in DOMAIN q.rows : RowFields \subseteq DOMAIN q.rows[id]
  BY DEF LaunchAsked
<1>2. CASE Provision(q).rows = q.rows
  BY <1>1, <1>2
<1>3. CASE Provision(q).rows = Patched(q.rows, NamesTold(q, Present(q) \cup Provision(q).registered))
  <2> DEFINE Told == NamesTold(q, Present(q) \cup Provision(q).registered)
  <2>1. Told \subseteq SelfServed
    BY ProvisionIs, NamesAreServed
  <2> HIDE DEF Told
  <2>2. /\ DOMAIN Patched(q.rows, Told) = DOMAIN q.rows
        /\ \A id \in DOMAIN q.rows :
              LET o == q.rows[id]
                  n == Patched(q.rows, Told)[id]
              IN /\ n.project = o.project /\ n.name = o.name /\ n.exact = o.exact /\ n.trainable = o.trainable
                 /\ RowFields \subseteq DOMAIN n
                 /\ HasBase(o) => HasBase(n)
                 /\ o.exact /\ o.name \in Told => HasBase(n) /\ n.base = o.name
    BY <1>1, <2>1, PatchedRow
  <2>3. Provision(q).rows = Patched(q.rows, Told)
    BY <1>3 DEF Told
  <2> QED BY <2>2, <2>3
<1> QED BY <1>2, <1>3, ProvisionIs

\* Fetching bases changes no more of a launch than its rows, and neither what is
\* selected nor what may be trained.
LEMMA AfterIs ==
  ASSUME NEW q, LaunchAsked(q), NEW a, a = After(q)
  PROVE  /\ \A f \in LaunchFields \ {"rows"} : a[f] = q[f]
         /\ a.rows = Provision(q).rows
         /\ LaunchAsked(a)
         /\ Selected(a) = Selected(q)
         /\ BasesMayBeTrained(a) <=> BasesMayBeTrained(q)
<1> DEFINE rs == Provision(q).rows
<1>1. LaunchFields \subseteq DOMAIN q
  BY DEF LaunchAsked
<1>2. a = [q EXCEPT !.rows = rs]
  BY DEF After
<1>3. /\ DOMAIN rs = DOMAIN q.rows
      /\ \A id \in DOMAIN q.rows :
              /\ rs[id].project = q.rows[id].project /\ rs[id].name = q.rows[id].name
              /\ rs[id].exact = q.rows[id].exact /\ rs[id].trainable = q.rows[id].trainable
              /\ RowFields \subseteq DOMAIN rs[id]
  BY RowsAfter
<1> HIDE DEF rs
<1>4. DOMAIN a = DOMAIN q /\ (\A f \in LaunchFields \ {"rows"} : a[f] = q[f]) /\ a.rows = rs
  BY <1>1, <1>2 DEF LaunchFields
<1>5. /\ a.ids = q.ids /\ a.project = q.project /\ a.up = q.up /\ a.timeouts = q.timeouts /\ a.booted = q.booted
      /\ a.identity = q.identity /\ a.workspace = q.workspace /\ a.lora = q.lora
      /\ a.tagRejectsLora = q.tagRejectsLora /\ a.token = q.token /\ a.data = q.data
      /\ a.guidance = q.guidance /\ a.resumes = q.resumes
  BY <1>4 DEF LaunchFields
<1>6. LaunchAsked(a)
  BY <1>1, <1>3, <1>4, <1>5 DEF LaunchAsked
<1>7. \A id : Known(a, id) <=> Known(q, id)
  BY <1>3, <1>4, <1>5 DEF Known
<1>8. Selected(a) = Selected(q)
  BY <1>5, <1>7 DEF Selected
<1>9. BasesMayBeTrained(a) <=> BasesMayBeTrained(q)
  <2>1. \A id : Known(q, id) => a.rows[id].trainable = q.rows[id].trainable
    BY <1>3, <1>4 DEF Known
  <2> QED BY <1>5, <1>7, <2>1 DEF BasesMayBeTrained
<1> QED BY <1>4, <1>6, <1>8, <1>9 DEF rs

\* What is launched can be created, now or when its bases are there.
LEMMA LaunchIsAccepted ==
  ASSUME NEW q, LaunchAsked(q)
  PROVE  LaunchedIsCreated(q)
<1>1. ASSUME LaunchPasses(q), q.guidance, BasesMayBeTrained(q) PROVE CreateAccepts(q)
  BY <1>1 DEF CreateAccepts, LaunchPasses, WorkspaceReachable
<1>2. Launched(q) = "create" => CreateAccepts(q)
  BY <1>1, LaunchedIs
<1>3. ASSUME Launched(q) = "provision" PROVE CreateAccepts(After(q))
  <2> DEFINE a == After(q)
  <2>1. CreateAccepts(q)
    BY <1>1, <1>3, LaunchedIs
  <2>2. /\ \A f \in LaunchFields \ {"rows"} : a[f] = q[f]
        /\ a.rows = Provision(q).rows
        /\ BasesMayBeTrained(a) <=> BasesMayBeTrained(q)
    BY AfterIs
  <2> HIDE DEF a
  <2>3. a.ids = q.ids /\ a.schemes = q.schemes /\ a.data = q.data /\ a.guidance = q.guidance /\ a.booted = q.booted
    BY <2>2 DEF LaunchFields
  <2>4. \A id \in Range(q.ids) : IsSuper(a.rows[id]) <=> IsSuper(q.rows[id])
    <3>1. \A id \in DOMAIN q.rows : a.rows[id].name = q.rows[id].name /\ a.rows[id].exact = q.rows[id].exact
      BY <2>2, RowsAfter
    <3>2. \A id \in Range(q.ids) : id \in DOMAIN q.rows
      BY <2>1 DEF CreateAccepts, BasesMayBeTrained, Known
    <3> QED BY <3>1, <3>2 DEF IsSuper
  <2>5. CreateAccepts(a)
    BY <2>1, <2>2, <2>3, <2>4 DEF CreateAccepts, QuantizationFits
  <2> QED BY <2>5 DEF a
<1> QED BY <1>2, <1>3 DEF LaunchedIsCreated

\* A provisioning that fails nobody leaves no row without its base.
LEMMA ProvisionIsEnough ==
  ASSUME NEW q, LaunchAsked(q)
  PROVE  ProvisioningSuffices(q)
<1> SUFFICES ASSUME Launched(q) = "provision", Provision(q).failed = {}, \A id \in Range(q.ids) : q.rows[id].exact
             PROVE  Launched(After(q)) = "create"
  BY DEF ProvisioningSuffices
<1> DEFINE a == After(q)
           Given == Present(q) \cup Confirmed(q)
<1>1. LaunchPasses(q) /\ q.guidance /\ BasesMayBeTrained(q) /\ Unready(q) # {}
  BY LaunchedIs
<1>2. /\ \A f \in LaunchFields \ {"rows"} : a[f] = q[f]
      /\ a.rows = Provision(q).rows
      /\ LaunchAsked(a) /\ Selected(a) = Selected(q)
      /\ BasesMayBeTrained(a) <=> BasesMayBeTrained(q)
  BY AfterIs
<1>3. Range(q.ids) \subseteq Given /\ a.rows = Patched(q.rows, NamesTold(q, Given))
  <2>1. q.identity
    BY <1>1 DEF LaunchPasses, WorkspaceReachable
  <2>2. Present(q) \subseteq Targets(q) /\ ToPull(q) = Targets(q) \ (Unanswered(q) \cup Present(q))
        /\ Targets(q) \subseteq Range(q.ids)
    BY DEF Present, ToPull, Targets
  <2>3. ~(Provision(q).failed = Range(q.ids) \ Present(q) /\ ToPull(q) # {})
    BY <2>2
  <2> QED BY <1>2, <2>1, <2>3, ProvisionIs
<1>4. Selected(q) \subseteq Range(q.ids)
  BY DEF Selected
<1>5. \A id \in Range(q.ids) : id \in DOMAIN q.rows /\ HasBase(a.rows[id])
  <2> DEFINE Told == NamesTold(q, Given)
  <2>1. Told \subseteq SelfServed /\ \A id \in Given : id \in DOMAIN q.rows
    BY NamesAreServed
  <2>2. \A id \in Given : q.rows[id].name \in Told
    BY DEF NamesTold
  <2>3. \A id \in DOMAIN q.rows : RowFields \subseteq DOMAIN q.rows[id]
    BY DEF LaunchAsked
  <2> HIDE DEF Told, Given
  <2>4. \A id \in DOMAIN q.rows : q.rows[id].exact /\ q.rows[id].name \in Told => HasBase(Patched(q.rows, Told)[id])
    BY <2>1, <2>3, PatchedRow
  <2>5. a.rows = Patched(q.rows, Told)
    BY <1>3 DEF Told
  <2> QED BY <1>3, <2>1, <2>2, <2>4, <2>5
<1> HIDE DEF a, Given
<1>6. /\ a.ids = q.ids /\ a.schemes = q.schemes /\ a.data = q.data /\ a.guidance = q.guidance /\ a.booted = q.booted
      /\ a.identity = q.identity /\ a.workspace = q.workspace /\ a.up = q.up /\ a.timeouts = q.timeouts
      /\ a.lora = q.lora /\ a.token = q.token /\ a.pythons = q.pythons /\ a.tagRejectsLora = q.tagRejectsLora
  BY <1>2 DEF LaunchFields
<1>7. Unready(a) = {}
  BY <1>2, <1>4, <1>5 DEF Unready
<1>8. LaunchPasses(a)
  <2>1. TokenSuffices(a) /\ WorkspaceReachable(a)
    BY <1>1, <1>6 DEF LaunchPasses, TokenSuffices, WorkspaceReachable
  <2>2. /\ \A id \in Range(q.ids) : a.rows[id].trainable = q.rows[id].trainable
        /\ \A id \in Range(q.ids) : IsSuper(a.rows[id]) <=> IsSuper(q.rows[id])
    <3>1. \A id \in DOMAIN q.rows : /\ a.rows[id].name = q.rows[id].name /\ a.rows[id].exact = q.rows[id].exact
                                   /\ a.rows[id].trainable = q.rows[id].trainable
      BY <1>2, RowsAfter
    <3> QED BY <1>5, <3>1 DEF IsSuper
  <2>3. \A id \in Selected(q) : ModeFits(a.rows[id], a) /\ QuantizationFits(a.rows[id], a.schemes)
    <3>1. \A id \in Selected(q) : ModeFits(q.rows[id], q) /\ QuantizationFits(q.rows[id], q.schemes)
      BY <1>1 DEF LaunchPasses
    <3>2. \A id \in Selected(q) : IsSuper(a.rows[id]) <=> IsSuper(q.rows[id])
      BY <1>4, <2>2
    <3> QED BY <1>6, <3>1, <3>2 DEF ModeFits, QuantizationFits
  <2>4. \A id \in Range(a.ids) : id \in Selected(a) /\ a.rows[id].trainable
    <3>1. \A id \in Range(q.ids) : id \in Selected(q) /\ q.rows[id].trainable
      BY <1>1 DEF LaunchPasses
    <3>2. Selected(a) = Selected(q) /\ a.ids = q.ids
      BY <1>2, <1>6
    <3> QED BY <2>2, <3>1, <3>2
  <2>5. a.up /\ a.timeouts /\ (a.lora => MergeReady(a.pythons)) /\ a.data
    BY <1>1, <1>6 DEF LaunchPasses
  <2>6. Selected(a) = Selected(q)
    BY <1>2
  <2> QED BY <2>1, <2>3, <2>4, <2>5, <2>6 DEF LaunchPasses
<1>9. Launched(a) = "create"
  BY <1>1, <1>2, <1>6, <1>7, <1>8, LaunchedIs
<1> QED BY <1>9 DEF a

\* Everybody is told what became of his row, and nobody is the worse for it.
LEMMA ProvisionAccounts ==
  ASSUME NEW q, LaunchAsked(q)
  PROVE  EachIsAccountedFor(q)
<1> DEFINE p == Provision(q)
<1>1. Present(q) \subseteq Range(q.ids) /\ Confirmed(q) \subseteq Range(q.ids) /\ Present(q) \cap Confirmed(q) = {}
  BY DEF Present, Confirmed, ToPull, Targets
<1>2. ASSUME q.identity
      PROVE  /\ p.registered \cup p.already \cup p.failed = Range(q.ids)
             /\ p.registered \cap p.already = {} /\ (p.registered \cup p.already) \cap p.failed = {}
  <2>1. p.already = Present(q)
    BY <1>2, ProvisionIs
  <2>2. \/ p.failed = Range(q.ids) \ (Present(q) \cup Confirmed(q)) /\ p.registered = Confirmed(q)
        \/ p.failed = Range(q.ids) \ Present(q) /\ p.registered = {}
    BY <1>2, ProvisionIs
  <2> HIDE DEF p
  <2> QED BY <1>1, <2>1, <2>2
<1>3. \A id \in DOMAIN q.rows : HasBase(q.rows[id]) => HasBase(p.rows[id])
  BY RowsAfter
<1>4. ASSUME NEW id \in p.registered, NEW other \in DOMAIN q.rows, q.rows[other].exact, q.rows[other].name = q.rows[id].name
      PROVE  HasBase(p.rows[other]) /\ p.rows[other].base = q.rows[id].name
  <2> DEFINE Told == NamesTold(q, Present(q) \cup p.registered)
  <2>1. p.rows = Patched(q.rows, Told) /\ p.registered \subseteq Confirmed(q)
    BY <1>4, ProvisionIs
  <2>2. Told \subseteq SelfServed
    BY <2>1, NamesAreServed
  <2>3. q.rows[other].name \in Told
    BY <1>4 DEF NamesTold
  <2>4. \A i \in DOMAIN q.rows : RowFields \subseteq DOMAIN q.rows[i]
    BY DEF LaunchAsked
  <2> HIDE DEF Told, p
  <2> QED BY <1>4, <2>1, <2>2, <2>3, <2>4, PatchedRow
<1> QED BY <1>2, <1>3, <1>4 DEF EachIsAccountedFor

\* Whatever rows a project has and whichever of them are selected, a launch and
\* the provisioning it may need keep what they promise (launch_training_suite,
\* provision_base_experiments).
THEOREM LaunchesHold ==
  ASSUME NEW q, LaunchAsked(q)
  PROVE  TrainingIsReady(q)
BY LaunchIsAccepted, ProvisionIsEnough, ProvisionAccounts DEF TrainingIsReady

-----------------------------------------------------------------------------
(* The choices by likeness.                                                *)

\* What a choice of b rather than k says.
Beats(b, k, near) == near[b] > near[k] \/ (near[b] = near[k] /\ b <= k)

\* The loop finds the farthest, of equals the lowest, in whatever order they come.
LEMMA FarthestIs ==
  ASSUME NEW left \in Seq(Nat \ {0}), left # <<>>, NEW near, \A k \in ToSet(left) : near[k] \in Int
  PROVE  Farthest(left, near) \in ToSet(left) /\ \A k \in ToSet(left) : Beats(Farthest(left, near), k, near)
<1> DEFINE n == Len(left)
           Step(i, best) == IF Farther(left[i], best, near) THEN left[i] ELSE best
           Best(i) == IF i = 0 THEN {NoKey}
                      ELSE {left[j] : j \in {m \in 1..i : \A k \in 1..i : Beats(left[m], left[k], near)}}
           X == [i \in 0..n |-> Best(i)]
           step == [i \in 1..n |-> [x \in X[i - 1] |-> Step(i, x)]]
<1>1. n \in Nat /\ n # 0 /\ DOMAIN left = 1..n /\ \A i \in 1..n : left[i] \in Nat \ {0} /\ near[left[i]] \in Int
  BY DEF ToSet
<1> HIDE DEF n
<1>2. ASSUME NEW i \in 1..n, NEW x \in Best(i - 1) PROVE Step(i, x) \in Best(i)
  <2>0. i \in 1..i /\ i # 0 /\ \A k \in 1..i : k \in 1..n /\ (k = i \/ k \in 1..(i - 1))
    BY <1>1
  <2>1. CASE i = 1
    <3>1. x = NoKey /\ Step(i, x) = left[i]
      BY <2>1, <1>2 DEF Farther
    <3>2. Beats(left[1], left[1], near)
      BY <1>1, <2>1 DEF Beats
    <3>3. \A k \in 1..i : k = 1
      BY <2>1
    <3> QED BY <2>0, <2>1, <3>1, <3>2, <3>3
  <2>2. CASE i # 1
    <3>1. PICK m \in 1..(i - 1) : x = left[m] /\ \A k \in 1..(i - 1) : Beats(left[m], left[k], near)
      BY <1>1, <1>2, <2>2
    <3>2. m \in 1..i /\ m \in 1..n /\ x # NoKey
      BY <1>1, <3>1 DEF NoKey
    <3>3. CASE Farther(left[i], x, near)
      <4>1. \A k \in 1..(i - 1) : Beats(left[i], left[k], near)
        <5> SUFFICES ASSUME NEW k \in 1..(i - 1) PROVE Beats(left[i], left[k], near)
          OBVIOUS
        <5>1. Beats(x, left[k], near) /\ k \in 1..n
          BY <2>0, <1>1, <3>1
        <5> DEFINE a == left[i]
                   c == left[k]
        <5>2. a \in Nat /\ x \in Nat /\ c \in Nat /\ near[a] \in Int /\ near[x] \in Int /\ near[c] \in Int
          BY <1>1, <3>1, <3>2, <5>1
        <5> HIDE DEF a, c
        <5>3. near[a] > near[x] \/ (near[a] = near[x] /\ a < x)
          BY <3>2, <3>3 DEF Farther, a
        <5>4. near[x] > near[c] \/ (near[x] = near[c] /\ x <= c)
          BY <5>1 DEF Beats, c
        <5>5. near[a] > near[c] \/ (near[a] = near[c] /\ a <= c)
          BY <5>2, <5>3, <5>4
        <5> QED BY <5>5 DEF Beats, a, c
      <4>2. Beats(left[i], left[i], near)
        BY <1>1 DEF Beats
      <4>3. \A k \in 1..i : Beats(left[i], left[k], near)
        BY <2>0, <4>1, <4>2
      <4> QED BY <2>0, <3>3, <4>3
    <3>4. CASE ~Farther(left[i], x, near)
      <4>1. Beats(x, left[i], near)
        BY <1>1, <3>1, <3>2, <3>4 DEF Beats, Farther
      <4>2. \A k \in 1..i : Beats(left[m], left[k], near)
        BY <2>0, <3>1, <4>1
      <4> QED BY <2>0, <3>1, <3>2, <3>4, <4>2
    <3> QED BY <3>3, <3>4
  <2> QED BY <2>1, <2>2
<1> HIDE DEF Best
<1>3. \A i \in 1..n : \A x \in X[i - 1] : step[i][x] \in X[i]
  BY <1>1, <1>2
<1>4. NoKey \in X[0]
  BY <1>1 DEF Best
<1>5. PICK f : /\ DOMAIN f = 0..n /\ f = [i \in 0..n |-> f[i]] /\ f[0] = NoKey
               /\ \A i \in 1..n : f[i - 1] \in X[i - 1] /\ f[i] = step[i][f[i - 1]]
               /\ \A i \in 0..n : f[i] \in X[i]
  <2>1. n \in Nat
    BY <1>1
  <2> HIDE DEF X, step
  <2>2. \E f : LoopsBy(f, n, NoKey, step, X)
    BY <1>3, <1>4, <2>1, LoopExists
  <2> QED BY <2>2 DEF LoopsBy
<1>6. f = [i \in 0..n |-> IF i = 0 THEN NoKey ELSE Step(i, f[i - 1])]
  <2>1. \A i \in 1..n : f[i] = Step(i, f[i - 1])
    <3> HIDE DEF Step
    <3> QED BY <1>1, <1>5
  <2>2. \A i \in 0..n : i = 0 \/ i \in 1..n
    BY <1>1
  <2> DEFINE h == [i \in 0..n |-> IF i = 0 THEN NoKey ELSE Step(i, f[i - 1])]
  <2> HIDE DEF X, step, Step
  <2>3. h = [i \in 0..n |-> f[i]]
    BY <1>5, <2>1, <2>2
  <2> QED BY <1>5, <2>3
<1>7. PICK g : /\ g = [i \in 0..n |-> IF i = 0 THEN NoKey ELSE Step(i, g[i - 1])]
               /\ Farthest(left, near) = g[n]
  <2> DEFINE g == CHOOSE g : g = [i \in 0..n |-> IF i = 0 THEN NoKey ELSE Step(i, g[i - 1])]
  <2>1. g = [i \in 0..n |-> IF i = 0 THEN NoKey ELSE Step(i, g[i - 1])]
    BY <1>6
  <2>2. Farthest(left, near) = g[n]
    BY DEF Farthest, Looped, n
  <2> HIDE DEF g, Step
  <2> QED BY <2>1, <2>2
<1>8. \A i \in 0..n : g[i] \in Best(i)
  <2>1. g[0] \in X[0]
    BY <1>1, <1>4, <1>7
  <2>2. \A i \in 1..n : g[i - 1] \in X[i - 1] => g[i] \in X[i]
    <3>1. \A i \in 1..n : g[i] = Step(i, g[i - 1])
      <4> HIDE DEF Step
      <4> QED BY <1>1, <1>7
    <3> HIDE DEF Step
    <3> QED BY <1>1, <1>2, <3>1
  <2>3. \A i \in 0..n : g[i] \in X[i]
    <3> HIDE DEF X, Step
    <3> QED BY <1>1, <2>1, <2>2, LoopKeeps
  <2> QED BY <2>3
<1>9. g[n] \in Best(n) /\ n \in 1..n
  BY <1>1, <1>8
<1>10. PICK m \in 1..n : g[n] = left[m] /\ \A k \in 1..n : Beats(left[m], left[k], near)
  BY <1>1, <1>9 DEF Best
<1> QED BY <1>1, <1>7, <1>10 DEF ToSet

\* The distances of an image to those it is compared with, and to none at all.
Distances(k, refs, dist) == {Far} \cup {dist[k][r] : r \in refs}

\* The distances to some images are numbers, and finitely many.
LEMMA DistancesAre ==
  ASSUME NEW k, NEW refs, IsFiniteSet(refs), NEW dist, \A r \in refs : dist[k][r] \in Int
  PROVE  Distances(k, refs, dist) \in SUBSET Int /\ IsFiniteSet(Distances(k, refs, dist)) /\ Distances(k, refs, dist) # {}
<1> DEFINE f == [r \in refs |-> dist[k][r]]
           D == {dist[k][r] : r \in refs}
<1>1. IsFiniteSet(D)
  <2>1. f \in [refs -> D] /\ \A y \in D : \E r \in refs : f[r] = y
    OBVIOUS
  <2>2. f \in Surjection(refs, D)
    BY <2>1 DEF Surjection
  <2> HIDE DEF f, D
  <2> QED BY <2>2, FS_Surjection
<1>2. D \in SUBSET Int /\ Distances(k, refs, dist) = D \cup {Far} /\ Far \in Int
  BY DEF Distances, Far
<1> HIDE DEF D
<1>3. IsFiniteSet(D \cup {Far})
  BY <1>1, FS_AddElement
<1> QED BY <1>2, <1>3

Nearer(K, near, pick, dist) == [k \in K |-> Least(near[k], dist[k][pick])]

\* One more makes an image nearer, or leaves it as it was.
LEMMA OneNearer ==
  ASSUME NEW K, NEW refs, IsFiniteSet(refs), NEW pick, NEW dist,
         \A k \in K : \A r \in refs \cup {pick} : dist[k][r] \in Int
  PROVE  Nearer(K, NearestOf(K, refs, dist), pick, dist) = NearestOf(K, refs \cup {pick}, dist)
<1> DEFINE Now(k) == Least(NearestOf(K, refs, dist)[k], dist[k][pick])
           Joined(k) == Min(Distances(k, refs \cup {pick}, dist))
<1>1. ASSUME NEW k \in K PROVE Now(k) = Joined(k)
  <2> DEFINE d == dist[k][pick]
             S == Distances(k, refs, dist)
             B == Distances(k, refs \cup {pick}, dist)
             m == Min(S)
  <2>1. NearestOf(K, refs, dist)[k] = m
    BY DEF NearestOf, Distances
  <2>2. S \in SUBSET Int /\ IsFiniteSet(S) /\ S # {}
    BY DistancesAre
  <2>3. B = S \cup {d} /\ d \in Int
    BY DEF Distances
  <2> HIDE DEF S, B, d
  <2>4. m \in S /\ \A x \in S : m <= x
    BY <2>2, MinIsLeast
  <2>5. B \in SUBSET Int /\ IsFiniteSet(B)
    BY <2>2, <2>3, FS_AddElement
  <2> HIDE DEF m
  <2>6. Least(m, d) \in B /\ \A x \in B : Least(m, d) <= x
    BY <2>2, <2>3, <2>4 DEF Least
  <2>7. Min(B) = Least(m, d)
    BY <2>5, <2>6, MinIsOne
  <2> QED BY <2>1, <2>7 DEF B, d
<1>2. NearestOf(K, refs \cup {pick}, dist) = [k \in K |-> Joined(k)]
  BY DEF NearestOf, Distances
<1> HIDE DEF Now, Joined
<1>3. [k \in K |-> Now(k)] = [k \in K |-> Joined(k)]
  BY <1>1
<1> QED BY <1>2, <1>3 DEF Now, Nearer

\* The nearest reference of an image is the same alone as among others.
LEMMA NearestIs ==
  ASSUME NEW K, NEW refs, IsFiniteSet(refs), NEW dist, \A k \in K : \A r \in refs : dist[k][r] \in Int
  PROVE  /\ NearestOf(K, refs, dist) \in [K -> Int]
         /\ \A k \in K : NearestOf({k}, refs, dist)[k] = NearestOf(K, refs, dist)[k]
<1>1. NearestOf(K, refs, dist) = [k \in K |-> Min(Distances(k, refs, dist))]
  BY DEF NearestOf, Distances
<1>2. \A k \in K : NearestOf({k}, refs, dist)[k] = Min(Distances(k, refs, dist))
  BY DEF NearestOf, Distances
<1>3. \A k \in K : Min(Distances(k, refs, dist)) \in Int
  <2> SUFFICES ASSUME NEW k \in K PROVE Min(Distances(k, refs, dist)) \in Int
    OBVIOUS
  <2>1. Distances(k, refs, dist) \in SUBSET Int /\ IsFiniteSet(Distances(k, refs, dist)) /\ Distances(k, refs, dist) # {}
    BY DistancesAre
  <2> QED BY <2>1, MinIsLeast
<1> QED BY <1>1, <1>2, <1>3

Images == Nat \ {0}

\* Each pick is the farthest from the references and the picks before it.
PickedBefore(order, j) == {order[m] : m \in 1..(j - 1)}
IsGreedy(order, C, refs, has, dist) ==
  \A j \in DOMAIN order :
    /\ order[j] \in C \ PickedBefore(order, j)
    /\ \A k \in C \ PickedBefore(order, j) : Beats(order[j], k, NearestOf(has, refs \cup PickedBefore(order, j), dist))

\* After i rounds.
RoundsMade(st, i, C, refs, has, dist) ==
  /\ st \in [order : Seq(Images), left : Seq(Images), near : [has -> Int]]
  /\ Len(st.order) = i /\ IsGreedy(st.order, C, refs, has, dist)
  /\ ToSet(st.left) = C \ ToSet(st.order)
  /\ st.near = NearestOf(has, refs \cup ToSet(st.order), dist)

\* What a measure knows: which images carry the signal, and how far each two of them are apart.
Measured(has, refs, dist) ==
  /\ has \subseteq Images /\ IsFiniteSet(refs)
  /\ \A k \in has : \A r \in refs \cup has : dist[k][r] \in Int

\* A round of the greedy choice leads from what i rounds made to what i + 1 make.
LEMMA OneMoreRound ==
  ASSUME NEW has, NEW refs, NEW dist, Measured(has, refs, dist), NEW C \in SUBSET has, IsFiniteSet(C),
         NEW i \in Nat, i < Cardinality(C), NEW st, RoundsMade(st, i, C, refs, has, dist)
  PROVE  RoundsMade(Picked(st, dist), i + 1, C, refs, has, dist)
<1> DEFINE order == st.order
           left == st.left
           near == st.near
           pick == Farthest(left, near)
           longer == Append(order, pick)
           rest == Lacking(left, {pick})
           later == Nearer(has, near, pick, dist)
<1>1. /\ order \in Seq(Images) /\ left \in Seq(Images) /\ near \in [has -> Int]
      /\ Len(order) = i /\ IsGreedy(order, C, refs, has, dist)
      /\ ToSet(left) = C \ ToSet(order)
      /\ near = NearestOf(has, refs \cup ToSet(order), dist)
  BY DEF RoundsMade
<1>2. Picked(st, dist) = [order |-> longer, left |-> rest, near |-> later]
  <2>1. DOMAIN st.near = has
    BY <1>1
  <2> QED BY <2>1 DEF Picked, Nearer
<1> HIDE DEF order, left, near, longer, later, rest
<1>3. C \ ToSet(order) # {}
  <2>1. IsFiniteSet(ToSet(order)) /\ Cardinality(ToSet(order)) \in Nat /\ Cardinality(ToSet(order)) <= i
    BY <1>1, OnceIsCounted
  <2>2. Cardinality(C) \in Nat
    BY FS_CardinalityType
  <2>3. ASSUME C \subseteq ToSet(order) PROVE FALSE
    <3>1. Cardinality(C) <= Cardinality(ToSet(order))
      BY <2>1, <2>3, FS_Subset
    <3> QED BY <2>1, <2>2, <3>1
  <2> QED BY <2>3
<1>4. left # <<>>
  BY <1>1, <1>3 DEF ToSet
<1>5. pick \in C \ ToSet(order) /\ \A k \in C \ ToSet(order) : Beats(pick, k, near)
  <2>1. \A k \in ToSet(left) : near[k] \in Int
    BY <1>1
  <2>2. left \in Seq(Nat \ {0})
    BY <1>1 DEF Images
  <2>3. Farthest(left, near) \in ToSet(left) /\ \A k \in ToSet(left) : Beats(Farthest(left, near), k, near)
    BY <1>4, <2>1, <2>2, FarthestIs
  <2> QED BY <1>1, <2>3
<1> HIDE DEF pick
<1>6. pick \in has /\ pick \in Images
  BY <1>5 DEF Measured
<1>7. /\ longer \in Seq(Images) /\ Len(longer) = i + 1 /\ DOMAIN longer = 1..(i + 1) /\ longer[i + 1] = pick
      /\ \A j \in 1..i : longer[j] = order[j]
      /\ DOMAIN order = 1..i
  BY <1>1, <1>6 DEF longer
<1>8. ToSet(longer) = ToSet(order) \cup {pick} /\ PickedBefore(longer, i + 1) = ToSet(order)
  <2>1. \A j \in 1..(i + 1) : j = i + 1 \/ j \in 1..i
    OBVIOUS
  <2>2. \A j \in 1..i : j \in 1..(i + 1)
    OBVIOUS
  <2>3. i + 1 \in 1..(i + 1) /\ (i + 1) - 1 = i
    OBVIOUS
  <2> QED BY <1>7, <2>1, <2>2, <2>3 DEF ToSet, PickedBefore
<1>9. IsGreedy(longer, C, refs, has, dist)
  <2> SUFFICES ASSUME NEW j \in 1..(i + 1)
               PROVE  /\ longer[j] \in C \ PickedBefore(longer, j)
                      /\ \A k \in C \ PickedBefore(longer, j) :
                           Beats(longer[j], k, NearestOf(has, refs \cup PickedBefore(longer, j), dist))
    BY <1>7 DEF IsGreedy
  <2>1. CASE j = i + 1
    BY <1>1, <1>5, <1>7, <1>8, <2>1
  <2>2. CASE j # i + 1
    <3>1. j \in 1..i /\ \A m \in 1..(j - 1) : m \in 1..i
      BY <2>2
    <3>2. PickedBefore(longer, j) = PickedBefore(order, j) /\ longer[j] = order[j]
      BY <1>7, <3>1 DEF PickedBefore
    <3> QED BY <1>1, <1>7, <3>1, <3>2 DEF IsGreedy
  <2> QED BY <2>1, <2>2
<1>10. rest \in Seq(Images) /\ ToSet(rest) = C \ ToSet(longer)
  <2> DEFINE Pos == {m \in DOMAIN left : left[m] \notin {pick}}
  <2>1. rest = AtPositions(left, Pos) /\ Pos \in SUBSET DOMAIN left
    BY DEF rest, Lacking
  <2>2. {left[m] : m \in Pos} = ToSet(left) \ {pick}
    BY DEF ToSet
  <2> HIDE DEF Pos
  <2>3. rest \in Seq(Images) /\ ToSet(rest) = {left[m] : m \in Pos}
    BY <1>1, <2>1, ReadOut
  <2> QED BY <1>1, <1>8, <2>2, <2>3
<1>11. later \in [has -> Int] /\ later = NearestOf(has, refs \cup ToSet(longer), dist)
  <2> DEFINE R == refs \cup ToSet(order)
  <2>1. IsFiniteSet(R)
    <3>1. IsFiniteSet(ToSet(order))
      BY <1>1, OnceIsCounted
    <3> QED BY <3>1, FS_Union DEF Measured
  <2>2. \A j \in DOMAIN order : order[j] \in has
    BY <1>1 DEF IsGreedy
  <2>3. \A k \in has : \A r \in R \cup {pick} : dist[k][r] \in Int
    BY <1>6, <2>2 DEF Measured, ToSet
  <2>4. near = NearestOf(has, R, dist)
    BY <1>1
  <2>5. refs \cup ToSet(longer) = R \cup {pick}
    BY <1>8
  <2> HIDE DEF R
  <2>6. Nearer(has, NearestOf(has, R, dist), pick, dist) = NearestOf(has, R \cup {pick}, dist)
    BY <2>1, <2>3, OneNearer
  <2>7. IsFiniteSet(R \cup {pick})
    BY <2>1, FS_AddElement
  <2>8. NearestOf(has, R \cup {pick}, dist) \in [has -> Int]
    BY <2>3, <2>7, NearestIs
  <2> QED BY <2>4, <2>5, <2>6, <2>8 DEF later
<1> DEFINE p == Picked(st, dist)
<1>12. p.order = longer /\ p.left = rest /\ p.near = later /\ p = [order |-> longer, left |-> rest, near |-> later]
  BY <1>2
<1>13. p \in [order : Seq(Images), left : Seq(Images), near : [has -> Int]]
  BY <1>7, <1>10, <1>11, <1>12
<1> HIDE DEF p
<1>14. RoundsMade(p, i + 1, C, refs, has, dist)
  BY <1>7, <1>9, <1>10, <1>11, <1>12, <1>13 DEF RoundsMade
<1> QED BY <1>14 DEF p

\* The picks of the greedy loop, from candidates in whatever order.
LEMMA GreedyIs ==
  ASSUME NEW has, NEW refs, NEW dist, Measured(has, refs, dist), NEW cands \in Seq(has), OnceEach(cands), NEW n \in Nat
  PROVE  LET o == GreedyMaxMin(cands, NearestOf(has, refs, dist), dist, n) IN
         o \in Seq(Images) /\ Len(o) = Least(n, Len(cands)) /\ IsGreedy(o, ToSet(cands), refs, has, dist)
<1> DEFINE N == Least(n, Len(cands))
           C == ToSet(cands)
           x0 == [order |-> <<>>, left |-> cands, near |-> NearestOf(has, refs, dist)]
           U == [order : Seq(Images), left : Seq(Images), near : [has -> Int]]
           In(i) == {x \in U : RoundsMade(x, i, C, refs, has, dist)}
           X == [i \in 0..N |-> In(i)]
           step == [i \in 1..N |-> [x \in X[i - 1] |-> Picked(x, dist)]]
<1>1. /\ IsFiniteSet(C) /\ Cardinality(C) = Len(cands) /\ Len(cands) \in Nat /\ C \in SUBSET has
      /\ N \in Nat /\ N <= Cardinality(C) /\ cands \in Seq(Images)
  <2>1. has \subseteq Images
    BY DEF Measured, Images
  <2>2. IsFiniteSet(C) /\ Cardinality(C) = Len(cands)
    BY OnceIsCounted
  <2>3. C \in SUBSET has /\ cands \in Seq(Images) /\ Len(cands) \in Nat
    BY <2>1 DEF ToSet
  <2>4. N \in Nat /\ N <= Len(cands)
    BY <2>3 DEF Least
  <2> QED BY <2>2, <2>3, <2>4
<1> HIDE DEF N, C
<1>2. x0 \in In(0)
  <2>1. NearestOf(has, refs, dist) \in [has -> Int]
    BY NearestIs DEF Measured
  <2>2. ToSet(<<>>) = {}
    BY DEF ToSet
  <2>3. x0 \in U /\ x0.order = <<>> /\ x0.left = cands /\ x0.near = NearestOf(has, refs, dist)
    BY <1>1, <2>1
  <2>4. refs \cup {} = refs /\ C \ {} = C
    OBVIOUS
  <2> HIDE DEF x0
  <2>5. Len(x0.order) = 0 /\ IsGreedy(x0.order, C, refs, has, dist)
    BY <2>3 DEF IsGreedy
  <2>6. RoundsMade(x0, 0, C, refs, has, dist)
    BY <2>2, <2>3, <2>4, <2>5 DEF RoundsMade, C
  <2> QED BY <2>3, <2>6
<1>3. ASSUME NEW i \in 1..N, NEW x \in In(i - 1) PROVE Picked(x, dist) \in In(i)
  <2>1. i - 1 \in Nat /\ i - 1 < Cardinality(C) /\ (i - 1) + 1 = i
    BY <1>1
  <2>2. RoundsMade(Picked(x, dist), (i - 1) + 1, C, refs, has, dist)
    BY <1>1, <1>3, <2>1, OneMoreRound
  <2> QED BY <2>1, <2>2 DEF RoundsMade
<1> HIDE DEF x0, In
<1>4. \A i \in 1..N : \A x \in X[i - 1] : step[i][x] \in X[i]
  BY <1>1, <1>3
<1>5. x0 \in X[0]
  BY <1>1, <1>2
<1>6. PICK f : f = [i \in 0..N |-> IF i = 0 THEN x0 ELSE Picked(f[i - 1], dist)]
  <2> HIDE DEF X, step
  <2>1. PICK f : LoopsBy(f, N, x0, step, X)
    BY <1>1, <1>4, <1>5, LoopExists
  <2>2. DOMAIN f = 0..N /\ f = [i \in 0..N |-> f[i]] /\ f[0] = x0
        /\ \A i \in 1..N : f[i - 1] \in X[i - 1] /\ f[i] = step[i][f[i - 1]]
    BY <2>1 DEF LoopsBy
  <2>3. \A i \in 1..N : f[i] = Picked(f[i - 1], dist)
    BY <1>1, <2>2 DEF step
  <2>4. \A i \in 0..N : i = 0 \/ i \in 1..N
    BY <1>1
  <2> DEFINE h == [i \in 0..N |-> IF i = 0 THEN x0 ELSE Picked(f[i - 1], dist)]
  <2>5. h = [i \in 0..N |-> f[i]]
    BY <2>2, <2>3, <2>4
  <2>6. f = h
    BY <2>2, <2>5
  <2> QED BY <2>6
<1> DEFINE g == CHOOSE g : g = [i \in 0..N |-> IF i = 0 THEN x0 ELSE Picked(g[i - 1], dist)]
<1>7. g = [i \in 0..N |-> IF i = 0 THEN x0 ELSE Picked(g[i - 1], dist)]
  BY <1>6
<1>8. GreedyMaxMin(cands, NearestOf(has, refs, dist), dist, n) = g[N].order
  BY DEF GreedyMaxMin, Looped, N, x0
<1> HIDE DEF g
<1>9. g[N] \in In(N)
  <2>1. g[0] \in X[0]
    BY <1>1, <1>5, <1>7
  <2>2. \A i \in 1..N : g[i] = Picked(g[i - 1], dist)
    BY <1>1, <1>7
  <2>3. \A i \in 1..N : g[i - 1] \in X[i - 1] => g[i] \in X[i]
    BY <1>1, <1>3, <2>2
  <2>4. \A i \in 0..N : g[i] \in X[i]
    <3> HIDE DEF X
    <3> QED BY <1>1, <2>1, <2>3, LoopKeeps
  <2> QED BY <1>1, <2>4
<1>10. RoundsMade(g[N], N, C, refs, has, dist)
  BY <1>9 DEF In
<1> QED BY <1>8, <1>10 DEF RoundsMade, N, C

\* There is only one way to pick.
LEMMA GreedyIsOne ==
  ASSUME NEW has, NEW refs, NEW dist, Measured(has, refs, dist), NEW C \in SUBSET has,
         NEW o \in Seq(Images), NEW p \in Seq(Images), Len(o) = Len(p),
         IsGreedy(o, C, refs, has, dist), IsGreedy(p, C, refs, has, dist)
  PROVE  o = p
<1> DEFINE n == Len(o)
           T == {j \in 1..n : o[j] # p[j]}
<1>1. /\ n \in Nat /\ DOMAIN o = 1..n /\ DOMAIN p = 1..n
      /\ o = [i \in 1..n |-> o[i]] /\ p = [i \in 1..n |-> p[i]]
  OBVIOUS
<1> HIDE DEF n
<1>2. SUFFICES ASSUME T # {} PROVE FALSE
  BY <1>1
<1>3. PICK j \in T : \A k \in T : j <= k
  <2>1. T \in SUBSET Nat
    BY <1>1
  <2> HIDE DEF T
  <2> QED BY <1>2, <2>1, LeastNat
<1>4. PickedBefore(o, j) = PickedBefore(p, j)
  <2>1. \A m \in 1..(j - 1) : m \in 1..n /\ m \notin T
    BY <1>1, <1>3
  <2>2. \A m \in 1..(j - 1) : o[m] = p[m]
    BY <2>1
  <2> QED BY <2>2 DEF PickedBefore
<1> DEFINE E == PickedBefore(o, j)
           near == NearestOf(has, refs \cup E, dist)
<1>5. /\ o[j] \in C \ E /\ p[j] \in C \ E
      /\ \A k \in C \ E : Beats(o[j], k, near) /\ Beats(p[j], k, near)
  BY <1>1, <1>3, <1>4 DEF IsGreedy
<1>6. near \in [has -> Int]
  <2>1. PickedBefore(o, j) \subseteq ToSet(o)
    <3>1. \A m \in 1..(j - 1) : m \in DOMAIN o
      BY <1>1, <1>3
    <3> QED BY <3>1 DEF PickedBefore, ToSet
  <2>2. IsFiniteSet(E)
    BY <2>1, OnceIsCounted, FS_Subset
  <2>3. ToSet(o) \subseteq has
    BY DEF IsGreedy, ToSet
  <2>4. IsFiniteSet(refs \cup E) /\ \A k \in has : \A r \in refs \cup E : dist[k][r] \in Int
    BY <2>1, <2>2, <2>3, FS_Union DEF Measured
  <2> QED BY <2>4, NearestIs
<1> HIDE DEF near, E
<1>7. o[j] \in has /\ p[j] \in has /\ o[j] \in Nat /\ p[j] \in Nat /\ near[o[j]] \in Int /\ near[p[j]] \in Int
  BY <1>5, <1>6 DEF Measured, Images
<1>8. Beats(o[j], p[j], near) /\ Beats(p[j], o[j], near)
  BY <1>5
<1>9. o[j] = p[j]
  BY <1>7, <1>8 DEF Beats
<1> QED BY <1>3, <1>9

\* A set by the places of its elements in an order.
ByPlace(S, R) == [i \in 1..Cardinality(S) |-> CHOOSE x \in S : Place(x, S, R) = i - 1]

\* By their places in a strict order: each once, in that order.
LEMMA ByPlaceIs ==
  ASSUME NEW S, IsFiniteSet(S), NEW R, IsStrictOrder(R, S)
  PROVE  LET s == ByPlace(S, R) IN
         /\ s \in Seq(S) /\ ToSet(s) = S /\ Len(s) = Cardinality(S) /\ Cardinality(S) \in Nat /\ OnceEach(s)
         /\ \A i, j \in DOMAIN s : i < j <=> <<s[i], s[j]>> \in R
<1> DEFINE n == Cardinality(S)
           s == ByPlace(S, R)
<1>1. n \in Nat
  BY FS_CardinalityType
<1>2. s = [i \in 1..n |-> CHOOSE x \in S : Place(x, S, R) = i - 1]
  BY DEF ByPlace
<1>3. \A i \in 1..n : s[i] \in S /\ Place(s[i], S, R) = i - 1
  <2> SUFFICES ASSUME NEW i \in 1..n PROVE s[i] \in S /\ Place(s[i], S, R) = i - 1
    OBVIOUS
  <2>1. PICK x \in S : Place(x, S, R) = i - 1
    BY EveryRankIsTaken
  <2>2. s[i] = CHOOSE f \in S : Place(f, S, R) = i - 1
    BY <1>2
  <2> HIDE DEF s
  <2> QED BY <2>1, <2>2
<1>4. s \in [1..n -> S]
  BY <1>2, <1>3
<1> HIDE DEF s
<1>5. InOrderOf(s, S, R)
  BY <1>3, <1>4, RankedIsInOrder
<1> HIDE DEF n
<1>6. s \in Seq(S) /\ DOMAIN s = 1..n /\ Len(s) = n
  BY <1>1, <1>4
<1>7. ToSet(s) = S
  BY <1>3, <1>5, <1>6 DEF InOrderOf, ToSet, n
<1>8. OnceEach(s)
  BY <1>1, <1>6, <1>7, OnceIsCounted DEF n
<1> QED BY <1>1, <1>5, <1>6, <1>7, <1>8 DEF InOrderOf, n, s

\* In ascending order: each once.
LEMMA AscendingIs ==
  ASSUME NEW S \in SUBSET Int, IsFiniteSet(S)
  PROVE  /\ Ascending(S) \in Seq(S) /\ ToSet(Ascending(S)) = S
         /\ Len(Ascending(S)) = Cardinality(S) /\ Cardinality(S) \in Nat /\ OnceEach(Ascending(S))
<1>1. PICK R : R = {p \in S \X S : p[1] < p[2]}
  OBVIOUS
<1>2. \A x, y \in S : <<x, y>> \in R <=> x < y
  BY <1>1
<1>3. IsStrictOrder(R, S)
  BY <1>2 DEF IsStrictOrder
<1>4. Ascending(S) = ByPlace(S, R)
  <2>1. \A x \in S : {y \in S : y < x} = {y \in S : <<y, x>> \in R}
    BY <1>2
  <2> DEFINE Behind(x) == Cardinality({y \in S : y < x})
  <2>2. \A x \in S : Behind(x) = Place(x, S, R)
    BY <2>1 DEF Place
  <2>3. Ascending(S) = [i \in 1..Cardinality(S) |-> CHOOSE x \in S : Behind(x) = i - 1]
    BY DEF Ascending, Sorted
  <2> HIDE DEF Behind
  <2>4. \A i : (CHOOSE x \in S : Behind(x) = i - 1) = CHOOSE x \in S : Place(x, S, R) = i - 1
    BY <2>2
  <2> QED BY <2>3, <2>4 DEF ByPlace
<1> QED BY <1>3, <1>4, ByPlaceIs

\* Some of a sequence that has no element twice.
LEMMA AmongOnce ==
  ASSUME NEW T, NEW seq \in Seq(T), OnceEach(seq), NEW S
  PROVE  /\ Among(seq, S) \in Seq(T) /\ ToSet(Among(seq, S)) = ToSet(seq) \cap S /\ OnceEach(Among(seq, S))
         /\ Lacking(seq, S) \in Seq(T) /\ ToSet(Lacking(seq, S)) = ToSet(seq) \ S
<1> DEFINE A == {i \in DOMAIN seq : seq[i] \in S}
           B == {i \in DOMAIN seq : seq[i] \notin S}
<1>1. A \in SUBSET DOMAIN seq /\ B \in SUBSET DOMAIN seq
  OBVIOUS
<1>2. {seq[k] : k \in A} = ToSet(seq) \cap S /\ {seq[k] : k \in B} = ToSet(seq) \ S
  BY DEF ToSet
<1>3. Among(seq, S) = AtPositions(seq, A) /\ Lacking(seq, S) = AtPositions(seq, B)
  BY DEF Among, Lacking
<1> HIDE DEF A, B
<1> QED BY <1>1, <1>2, <1>3, ReadOut

\* What joins the Test Pool: the farthest that carry the signal, then others by key.
PicksOf(cands, refs, m, n) ==
  GreedyMaxMin(Among(cands, m.has), NearestOf(m.has, refs \cap m.has, m.dist), m.dist, n)
OthersOf(C, m, n) == SubSeq(Ascending(C \ m.has), 1, Least(n, Cardinality(C \ m.has)))

\* What the selection of the Test Pool returns: the greedy picks, then others.
LEMMA PoolSelectIs ==
  ASSUME NEW m, NEW refs, Measured(m.has, refs \cap m.has, m.dist),
         NEW cands \in Seq(Images), OnceEach(cands), NEW n \in Nat, n # 0
  PROVE  LET o == PicksOf(cands, refs, m, n) IN
         /\ PoolSelect(cands, refs, m, n) = o \o OthersOf(ToSet(cands), m, n - Len(o))
         /\ o \in Seq(Images) /\ Len(o) = Least(n, Cardinality(ToSet(cands) \cap m.has))
         /\ IsGreedy(o, ToSet(cands) \cap m.has, refs \cap m.has, m.has, m.dist)
<1> DEFINE with == Among(cands, m.has)
           C == ToSet(cands)
           o == PicksOf(cands, refs, m, n)
           t == OthersOf(C, m, n - Len(o))
<1>1. /\ with \in Seq(Images) /\ ToSet(with) = C \cap m.has /\ OnceEach(with)
      /\ ToSet(Lacking(cands, m.has)) = C \ m.has
  BY AmongOnce
<1>2. IsFiniteSet(C) /\ Len(with) = Cardinality(C \cap m.has)
  BY <1>1, OnceIsCounted
<1>3. with \in Seq(m.has)
  <2>1. DOMAIN with = 1..Len(with) /\ \A i \in DOMAIN with : with[i] \in m.has
    BY <1>1 DEF ToSet
  <2> HIDE DEF with
  <2> QED BY <1>1, <2>1
<1>4. C \ m.has \in SUBSET Int /\ IsFiniteSet(C \ m.has)
  <2>1. C \ m.has \in SUBSET C
    OBVIOUS
  <2>2. C \in SUBSET Int
    BY DEF ToSet, Images
  <2> QED BY <1>2, <2>1, <2>2, FS_Subset
<1>5. Len(Ascending(C \ m.has)) = Cardinality(C \ m.has)
  BY <1>4, AscendingIs
<1>6. Range(Lacking(cands, m.has)) = ToSet(Lacking(cands, m.has))
  BY DEF Range, ToSet
<1>7. PoolSelect(cands, refs, m, n) = o \o t
  <2>1. ~(n <= 0)
    OBVIOUS
  <2> QED BY <1>1, <1>5, <1>6, <2>1 DEF PoolSelect, PicksOf, OthersOf
<1>w. o = GreedyMaxMin(with, NearestOf(m.has, refs \cap m.has, m.dist), m.dist, n)
  BY DEF PicksOf
<1> HIDE DEF with, o, t
<1>8. /\ o \in Seq(Images) /\ Len(o) = Least(n, Len(with))
      /\ IsGreedy(o, ToSet(with), refs \cap m.has, m.has, m.dist)
  <2> DEFINE has == m.has
             R == refs \cap m.has
             D == m.dist
  <2>1. Measured(has, R, D) /\ with \in Seq(has) /\ OnceEach(with) /\ o = GreedyMaxMin(with, NearestOf(has, R, D), D, n)
    BY <1>1, <1>3, <1>w
  <2> HIDE DEF has, R, D
  <2>2. o \in Seq(Images) /\ Len(o) = Least(n, Len(with)) /\ IsGreedy(o, ToSet(with), R, has, D)
    BY <2>1, GreedyIs
  <2> QED BY <2>2 DEF has, R, D
<1> QED BY <1>1, <1>2, <1>7, <1>8 DEF o, t

\* A greedy order has nobody twice and nobody but candidates.
LEMMA GreedyOnce ==
  ASSUME NEW has, NEW refs, NEW dist, NEW C, NEW o \in Seq(Images), IsGreedy(o, C, refs, has, dist)
  PROVE  OnceEach(o) /\ ToSet(o) \subseteq C
<1>1. DOMAIN o = 1..Len(o) /\ Len(o) \in Nat
  OBVIOUS
<1>2. \A i, j \in DOMAIN o : i < j => o[i] # o[j]
  <2> SUFFICES ASSUME NEW i \in DOMAIN o, NEW j \in DOMAIN o, i < j PROVE o[i] # o[j]
    OBVIOUS
  <2>1. i \in 1..(j - 1)
    BY <1>1
  <2>2. o[i] \in PickedBefore(o, j)
    BY <2>1 DEF PickedBefore
  <2> QED BY <2>2 DEF IsGreedy
<1>3. OnceEach(o)
  <2> SUFFICES ASSUME NEW i \in DOMAIN o, NEW j \in DOMAIN o, o[i] = o[j] PROVE i = j
    BY DEF OnceEach
  <2>1. ~(i < j) /\ ~(j < i)
    BY <1>2
  <2> QED BY <1>1, <2>1
<1> QED BY <1>3 DEF IsGreedy, ToSet

\* What is asked of the pool: images of which a measure knows how far they are
\* apart, in a place for n of them.
PoolAsked(q) ==
  /\ Measured(q.measure.has, q.refs \cap q.measure.has, q.measure.dist)
  /\ q.cands \subseteq Images /\ IsFiniteSet(q.cands) /\ q.n \in Nat

\* The choice: o are picked, t follow.
PoolParts(q, o, t) ==
  LET has == q.measure.has IN
  /\ o \in Seq(Images) /\ t \in Seq(Images)
  /\ IsGreedy(o, q.cands \cap has, q.refs \cap has, has, q.measure.dist)
  /\ OnceEach(t) /\ ToSet(t) \subseteq q.cands \ has
  /\ Len(o) = Least(q.n, Cardinality(q.cands \cap has))
  /\ Len(t) = Least(q.n - Len(o), Cardinality(q.cands \ has))

\* That does not depend on the order in which the candidates come.
LEMMA PoolIsOfParts ==
  ASSUME NEW q, PoolAsked(q)
  PROVE  \E o, t : /\ PoolParts(q, o, t)
                   /\ \A cands \in Seq(Images) : OnceEach(cands) /\ ToSet(cands) = q.cands =>
                        PoolSelect(cands, q.refs, q.measure, q.n) = o \o t
<1> DEFINE has == q.measure.has
           dist == q.measure.dist
           C == q.cands
           R == q.refs \cap has
           rest == Ascending(C \ has)
           all == Ascending(C)
           O(cands) == GreedyMaxMin(Among(cands, has), NearestOf(has, R, dist), dist, q.n)
           T(o) == SubSeq(rest, 1, Least(q.n - Len(o), Cardinality(C \ has)))
           a == Cardinality(C \cap has)
           b == Cardinality(C \ has)
<1>1. /\ IsFiniteSet(C \cap has) /\ a \in Nat
      /\ IsFiniteSet(C \ has) /\ b \in Nat
      /\ C \in SUBSET Int /\ C \ has \in SUBSET Int /\ C \in SUBSET Images
  <2>1. C \cap has \in SUBSET C /\ C \ has \in SUBSET C /\ C \in SUBSET Images /\ IsFiniteSet(C)
    BY DEF PoolAsked
  <2>2. Images \subseteq Int
    BY DEF Images
  <2>3. IsFiniteSet(C \cap has) /\ IsFiniteSet(C \ has)
    BY <2>1, FS_Subset
  <2> QED BY <2>1, <2>2, <2>3, FS_CardinalityType
<1>2. rest \in Seq(C \ has) /\ ToSet(rest) = C \ has /\ Len(rest) = b /\ OnceEach(rest)
  BY <1>1, AscendingIs
<1>3. all \in Seq(Images) /\ ToSet(all) = C /\ OnceEach(all)
  <2>1. all \in Seq(C) /\ ToSet(all) = C /\ OnceEach(all)
    BY <1>1, AscendingIs DEF PoolAsked
  <2> QED BY <1>1, <2>1
<1>4. CASE q.n = 0
  <2>1. \A cands : PoolSelect(cands, q.refs, q.measure, q.n) = <<>>
    BY <1>4 DEF PoolSelect
  <2>2. <<>> \o <<>> = <<>>
    OBVIOUS
  <2>3. PoolParts(q, <<>>, <<>>)
    <3>1. Least(q.n, a) = 0 /\ Least(q.n - 0, b) = 0
      BY <1>1, <1>4 DEF Least
    <3> QED BY <3>1 DEF PoolParts, IsGreedy, OnceEach, ToSet
  <2> QED BY <2>1, <2>2, <2>3
<1>5. CASE q.n # 0
  <2> DEFINE o == O(all)
             t == T(o)
  <2>0. q.n \in Nat /\ Measured(has, R, dist)
    BY DEF PoolAsked
  <2>1. ASSUME NEW cands \in Seq(Images), OnceEach(cands), ToSet(cands) = C
        PROVE  /\ PoolSelect(cands, q.refs, q.measure, q.n) = O(cands) \o T(O(cands))
               /\ O(cands) \in Seq(Images) /\ Len(O(cands)) = Least(q.n, a)
               /\ IsGreedy(O(cands), C \cap has, R, has, dist)
    <3> DEFINE m == q.measure
               p == PicksOf(cands, q.refs, m, q.n)
    <3>1. p = O(cands) /\ OthersOf(C, m, q.n - Len(p)) = T(p)
      BY DEF PicksOf, OthersOf
    <3>2. Measured(m.has, q.refs \cap m.has, m.dist) /\ q.n \in Nat /\ q.n # 0
      BY <1>5, <2>0
    <3> HIDE DEF m, O, T
    <3>3. /\ PoolSelect(cands, q.refs, m, q.n) = p \o OthersOf(ToSet(cands), m, q.n - Len(p))
          /\ p \in Seq(Images) /\ Len(p) = Least(q.n, Cardinality(ToSet(cands) \cap m.has))
          /\ IsGreedy(p, ToSet(cands) \cap m.has, q.refs \cap m.has, m.has, m.dist)
      BY <2>1, <3>2, PoolSelectIs
    <3> HIDE DEF p
    <3> QED BY <2>1, <3>1, <3>3 DEF m
  <2> HIDE DEF O, has, dist, C, R
  <2>2. o \in Seq(Images) /\ Len(o) = Least(q.n, a) /\ IsGreedy(o, C \cap has, R, has, dist)
    BY <1>3, <2>1
  <2>3. ASSUME NEW cands \in Seq(Images), OnceEach(cands), ToSet(cands) = C
        PROVE  PoolSelect(cands, q.refs, q.measure, q.n) = o \o t
    <3>1. /\ O(cands) \in Seq(Images) /\ Len(O(cands)) = Len(o)
          /\ IsGreedy(O(cands), C \cap has, R, has, dist)
      BY <2>1, <2>2, <2>3
    <3>2. C \cap has \in SUBSET has
      OBVIOUS
    <3>3. O(cands) = o
      BY <2>0, <2>2, <3>1, <3>2, GreedyIsOne
    <3> QED BY <2>1, <2>3, <3>3
  <2>4. t \in Seq(C \ has) /\ OnceEach(t) /\ Len(t) = Least(q.n - Len(o), b)
    <3> DEFINE l == Least(q.n - Len(o), b)
    <3>1. l \in 0..b
      BY <1>1, <2>0, <2>2 DEF Least
    <3>2. t = SubSeq(rest, 1, l)
      OBVIOUS
    <3> HIDE DEF l, rest, t
    <3>3. t = [i \in 1..l |-> rest[i]] /\ \A i \in 1..l : rest[i] \in C \ has /\ i \in DOMAIN rest
      BY <1>1, <1>2, <3>1, <3>2
    <3>4. t \in Seq(C \ has) /\ Len(t) = l /\ DOMAIN t = 1..l /\ \A i \in 1..l : t[i] = rest[i]
      BY <1>1, <3>1, <3>3
    <3>5. OnceEach(t)
      BY <1>2, <3>3, <3>4 DEF OnceEach
    <3> QED BY <3>4, <3>5 DEF l
  <2>5. t \in Seq(Images) /\ ToSet(t) \subseteq C \ has
    <3> HIDE DEF t
    <3>1. DOMAIN t = 1..Len(t) /\ \A i \in DOMAIN t : t[i] \in C \ has
      BY <2>4
    <3> QED BY <1>1, <2>4, <3>1 DEF ToSet
  <2> HIDE DEF o, t
  <2>6. PoolParts(q, o, t)
    BY <2>2, <2>4, <2>5 DEF PoolParts, has, dist, C, R
  <2> QED BY <2>3, <2>6 DEF C
<1> QED BY <1>4, <1>5 DEF PoolAsked

\* A sequence of all elements of a set is one that has each once.
LEMMA OrdersAreOnce ==
  ASSUME NEW S \in SUBSET Images, IsFiniteSet(S), NEW s \in Orders(S)
  PROVE  s \in Seq(Images) /\ OnceEach(s) /\ ToSet(s) = S
<1>1. Cardinality(S) \in Nat /\ s \in [1..Cardinality(S) -> S] /\ Range(s) = S
  BY FS_CardinalityType DEF Orders
<1>2. s \in Seq(S) /\ Len(s) = Cardinality(S) /\ ToSet(s) = S
  BY <1>1 DEF Range, ToSet
<1> QED BY <1>1, <1>2, OnceIsCounted

\* Whatever images there are and however far they are apart, the choice for the
\* Test Pool does not depend on the order in which they come, fills the room, and
\* takes the farthest each time (greedy_max_min_indices, _rebalance_pool).
THEOREM PoolChoiceHolds ==
  ASSUME NEW q, PoolAsked(q)
  PROVE  PoolChoiceIsSound(q)
<1> DEFINE has == q.measure.has
           dist == q.measure.dist
           C == q.cands
           R == q.refs \cap has
           a == Cardinality(C \cap has)
           b == Cardinality(C \ has)
           chosen == PoolSelect(Ascending(C), q.refs, q.measure, q.n)
           picked == Among(chosen, has)
           others == Lacking(chosen, has)
<1>1. PICK o, t : /\ PoolParts(q, o, t)
                  /\ \A cands \in Seq(Images) : OnceEach(cands) /\ ToSet(cands) = C =>
                       PoolSelect(cands, q.refs, q.measure, q.n) = o \o t
  BY PoolIsOfParts
<1>2. C \in SUBSET Images /\ IsFiniteSet(C) /\ q.n \in Nat /\ C \in SUBSET Int /\ Measured(has, R, dist)
  BY DEF PoolAsked, Images
<1>3. /\ o \in Seq(Images) /\ t \in Seq(Images)
      /\ IsGreedy(o, C \cap has, R, has, dist)
      /\ OnceEach(t) /\ ToSet(t) \subseteq C \ has
      /\ Len(o) = Least(q.n, a) /\ Len(t) = Least(q.n - Len(o), b)
  BY <1>1 DEF PoolParts
<1>4. OnceEach(o) /\ ToSet(o) \subseteq C \cap has
  BY <1>3, GreedyOnce
<1>5. chosen = o \o t
  <2>1. Ascending(C) \in Seq(C) /\ ToSet(Ascending(C)) = C /\ OnceEach(Ascending(C))
    BY <1>2, AscendingIs
  <2>2. Ascending(C) \in Seq(Images)
    BY <1>2, <2>1
  <2> QED BY <1>1, <2>1, <2>2
<1>6. \A cands \in Orders(C) : PoolSelect(cands, q.refs, q.measure, q.n) = chosen
  BY <1>1, <1>2, <1>5, OrdersAreOnce
<1> HIDE DEF chosen, C, R, has, dist
<1>7. picked = o /\ others = t
  <2>1. (\A i \in DOMAIN o : o[i] \in has) /\ \A i \in DOMAIN t : t[i] \notin has
    BY <1>3, <1>4 DEF ToSet
  <2> QED BY <1>3, <1>5, <2>1, TwoParts
<1> HIDE DEF picked, others
<1>8. a \in Nat /\ b \in Nat /\ Cardinality(C) = a + b
  <2>1. IsFiniteSet(C \cap has) /\ IsFiniteSet(C \ has)
    BY <1>2, FS_Subset
  <2>2. (C \cap has) \cup (C \ has) = C /\ (C \cap has) \cap (C \ has) = {}
    OBVIOUS
  <2>3. Cardinality(C) = a + b - Cardinality({})
    BY <2>1, <2>2, FS_Union
  <2>4. a \in Nat /\ b \in Nat
    BY <2>1, FS_CardinalityType
  <2> QED BY <2>3, <2>4, FS_EmptySet
<1> HIDE DEF a, b
<1>9. Len(chosen) = Least(q.n, Cardinality(C)) /\ IsInjective(chosen)
  <2>1. Len(chosen) = Len(o) + Len(t) /\ Len(o) \in Nat /\ Len(t) \in Nat
    <3>1. o \in Seq(Images) /\ t \in Seq(Images)
      BY <1>3
    <3>2. Len(o \o t) = Len(o) + Len(t) /\ Len(o) \in Nat /\ Len(t) \in Nat
      BY <3>1, ConcatProperties
    <3> QED BY <1>5, <3>2
  <2>2. Len(chosen) = Least(q.n, Cardinality(C))
    BY <1>2, <1>3, <1>8, <2>1 DEF Least
  <2>3. /\ DOMAIN chosen = 1..(Len(o) + Len(t)) /\ DOMAIN o = 1..Len(o) /\ DOMAIN t = 1..Len(t)
        /\ \A i \in 1..(Len(o) + Len(t)) : chosen[i] = IF i <= Len(o) THEN o[i] ELSE t[i - Len(o)]
    BY <1>3, <1>5, ConcatProperties
  <2>4. \A i \in 1..(Len(o) + Len(t)) :
          \/ i \in DOMAIN o /\ i <= Len(o)
          \/ i - Len(o) \in DOMAIN t /\ ~(i <= Len(o))
    BY <2>1, <2>3
  <2>5. \A i \in DOMAIN o, j \in DOMAIN t : o[i] # t[j]
    BY <1>3, <1>4 DEF ToSet
  <2>6. \A i, j \in DOMAIN chosen : chosen[i] = chosen[j] => i = j
    <3> SUFFICES ASSUME NEW i \in 1..(Len(o) + Len(t)), NEW j \in 1..(Len(o) + Len(t)), chosen[i] = chosen[j]
                 PROVE  i = j
      BY <2>3
    <3>1. CASE i <= Len(o) /\ j <= Len(o)
      BY <1>4, <2>3, <2>4, <3>1 DEF OnceEach
    <3>2. CASE ~(i <= Len(o)) /\ ~(j <= Len(o))
      <4>1. i - Len(o) = j - Len(o)
        BY <1>3, <2>3, <2>4, <3>2 DEF OnceEach
      <4> QED BY <2>1, <4>1
    <3>3. CASE i <= Len(o) /\ ~(j <= Len(o))
      BY <2>3, <2>4, <2>5, <3>3
    <3>4. CASE ~(i <= Len(o)) /\ j <= Len(o)
      BY <2>3, <2>4, <2>5, <3>4
    <3> QED BY <3>1, <3>2, <3>3, <3>4
  <2> QED BY <2>2, <2>6 DEF IsInjective
<1>10. ASSUME NEW i \in DOMAIN picked, NEW k \in (C \cap has) \ {picked[j] : j \in 1..i - 1}
       PROVE  NearestOf({picked[i]}, R \cup {picked[j] : j \in 1..i - 1}, dist)[picked[i]]
                >= NearestOf({k}, R \cup {picked[j] : j \in 1..i - 1}, dist)[k]
  <2> DEFINE E == PickedBefore(o, i)
             near == NearestOf(has, R \cup E, dist)
  <2>1. {picked[j] : j \in 1..i - 1} = E
    BY <1>7 DEF PickedBefore
  <2>2. o[i] \in (C \cap has) \ E /\ Beats(o[i], k, near)
    BY <1>3, <1>7, <1>10, <2>1 DEF IsGreedy
  <2>3. IsFiniteSet(R \cup E) /\ \A h \in has : \A r \in R \cup E : dist[h][r] \in Int
    <3>1. E \subseteq ToSet(o)
      <4>1. DOMAIN o = 1..Len(o) /\ Len(o) \in Nat /\ i \in DOMAIN o
        BY <1>3, <1>7
      <4>2. \A m \in 1..(i - 1) : m \in DOMAIN o
        BY <4>1
      <4> QED BY <4>2 DEF PickedBefore, ToSet
    <3>2. IsFiniteSet(E)
      BY <1>3, <3>1, OnceIsCounted, FS_Subset
    <3> QED BY <1>2, <1>4, <3>1, <3>2, FS_Union DEF Measured
  <2>4. near \in [has -> Int] /\ \A h \in has : NearestOf({h}, R \cup E, dist)[h] = near[h]
    <3> DEFINE F == R \cup E
    <3>1. IsFiniteSet(F) /\ \A h \in has : \A r \in F : dist[h][r] \in Int
      BY <2>3
    <3>2. near = NearestOf(has, F, dist)
      OBVIOUS
    <3> HIDE DEF F, near
    <3>3. NearestOf(has, F, dist) \in [has -> Int] /\ \A h \in has : NearestOf({h}, F, dist)[h] = NearestOf(has, F, dist)[h]
      BY <3>1, NearestIs
    <3> QED BY <3>2, <3>3 DEF F
  <2>5. k \in has /\ o[i] \in has
    BY <1>10, <2>2
  <2> HIDE DEF near, E
  <2>6. near[o[i]] >= near[k]
    BY <2>2, <2>4, <2>5 DEF Beats
  <2>7. NearestOf({o[i]}, R \cup E, dist)[o[i]] >= NearestOf({k}, R \cup E, dist)[k]
    BY <2>4, <2>5, <2>6
  <2> QED BY <1>7, <2>1, <2>7
<1>11. chosen = picked \o others /\ Len(picked) = Least(q.n, a)
  BY <1>3, <1>5, <1>7
<1> QED BY <1>6, <1>9, <1>10, <1>11 DEF PoolChoiceIsSound, chosen, picked, others, C, R, has, dist, a

\* What is first of all is first of what is read with it.
LEMMA FirstIsRead ==
  ASSUME NEW T, NEW seq \in Seq(T), NEW Pos \in SUBSET DOMAIN seq, 1 \in Pos
  PROVE  AtPositions(seq, Pos) # <<>> /\ AtPositions(seq, Pos)[1] = seq[1]
<1> DEFINE n == Cardinality(Pos)
<1>1. Len(seq) \in Nat /\ Pos \in SUBSET (1..Len(seq))
  OBVIOUS
<1>2. PICK at : InTurn(at, Pos) /\ ReadsInTurn(at, seq, Pos)
  BY <1>1, PositionsInTurn
<1>3. /\ n \in Nat /\ at \in [1..n -> Pos] /\ (\A k \in Pos : \E i \in 1..n : at[i] = k)
      /\ \A i, j \in 1..n : i < j <=> at[i] < at[j]
  BY <1>2 DEF InTurn
<1>4. AtPositions(seq, Pos) = [i \in 1..n |-> seq[at[i]]]
  BY <1>2 DEF ReadsInTurn
<1> HIDE DEF n
<1>5. PICK i \in 1..n : at[i] = 1
  BY <1>3
<1>6. i = 1
  <2>1. SUFFICES ASSUME 1 < i PROVE FALSE
    BY <1>3
  <2>2. 1 \in 1..n /\ at[1] \in Pos /\ at[1] < at[i]
    BY <1>3, <2>1
  <2> QED BY <1>1, <1>5, <2>2
<1>7. 1 \in 1..n /\ at[1] = 1
  BY <1>3, <1>5, <1>6
<1> QED BY <1>4, <1>7

\* What is asked of the next for review.
ReviewAsked(q) ==
  /\ Measured(q.measure.has, q.refs \cap q.measure.has, q.measure.dist)
  /\ q.cands \subseteq Images /\ IsFiniteSet(q.cands) /\ q.prior \subseteq Images /\ IsFiniteSet(q.prior)

\* Whose label an edit took, in their order: the context is the first.
LEMMA FirstTierIs ==
  ASSUME NEW S \in SUBSET Images, IsFiniteSet(S), NEW corrected, NEW context
  PROVE  LET t == FirstTier(S, corrected, context) IN
         /\ t \in Seq(S) /\ ToSet(t) = S /\ OnceEach(t)
         /\ context \in S => t # <<>> /\ t[1] = context
<1> DEFINE c(k) == IF k = context THEN 0 ELSE 1
           d(k) == IF k \in corrected THEN 0 ELSE 1
           rank(k) == <<c(k), d(k), k>>
           before(x, y) == \/ rank(x)[1] < rank(y)[1]
                           \/ rank(x)[1] = rank(y)[1] /\ rank(x)[2] < rank(y)[2]
                           \/ rank(x)[1] = rank(y)[1] /\ rank(x)[2] = rank(y)[2] /\ x < y
           t == FirstTier(S, corrected, context)
           Behind(x) == Cardinality({y \in S : before(y, x)})
<1>1. PICK R : R = {p \in S \X S : before(p[1], p[2])}
  OBVIOUS
<1>2. \A x, y \in S : <<x, y>> \in R <=> before(x, y)
  BY <1>1
<1>3. \A x, y \in S : before(x, y) <=> \/ c(x) < c(y)
                                       \/ c(x) = c(y) /\ d(x) < d(y)
                                       \/ c(x) = c(y) /\ d(x) = d(y) /\ x < y
  OBVIOUS
<1>4. t = [i \in 1..Cardinality(S) |-> CHOOSE x \in S : Behind(x) = i - 1]
  BY DEF FirstTier, Sorted
<1>5. \A x \in S : c(x) \in 0..1 /\ d(x) \in 0..1 /\ x \in Nat
  BY DEF Images
<1>6. \A x \in S : {y \in S : before(y, x)} = {y \in S : <<y, x>> \in R}
  BY <1>2
<1>7. context \in S => \A x \in S : x = context \/ before(context, x)
  BY <1>3
<1> HIDE DEF before
<1>8. \A x \in S : Behind(x) = Place(x, S, R)
  BY <1>6 DEF Place
<1> HIDE DEF Behind
<1>9. \A i : (CHOOSE x \in S : Behind(x) = i - 1) = CHOOSE x \in S : Place(x, S, R) = i - 1
  BY <1>8
<1>10. t = ByPlace(S, R)
  BY <1>4, <1>9 DEF ByPlace
<1>11. IsStrictOrder(R, S)
  <2> HIDE DEF c, d
  <2> QED BY <1>2, <1>3, <1>5 DEF IsStrictOrder
<1> HIDE DEF t
<1>12. /\ t \in Seq(S) /\ ToSet(t) = S /\ OnceEach(t)
       /\ \A i, j \in DOMAIN t : i < j <=> <<t[i], t[j]>> \in R
  BY <1>10, <1>11, ByPlaceIs
<1>13. ASSUME context \in S PROVE t # <<>> /\ t[1] = context
  <2>1. PICK i \in DOMAIN t : t[i] = context
    BY <1>12, <1>13 DEF ToSet
  <2>2. DOMAIN t = 1..Len(t) /\ Len(t) \in Nat /\ 1 \in DOMAIN t /\ t[1] \in S
    BY <1>12, <2>1
  <2>3. ASSUME t[1] # context PROVE FALSE
    <3>1. <<t[i], t[1]>> \in R
      BY <1>2, <1>7, <1>13, <2>1, <2>2, <2>3
    <3>2. i < 1
      BY <1>12, <2>1, <2>2, <3>1
    <3> QED BY <2>1, <2>2, <3>2
  <2> QED BY <2>2, <2>3
<1> QED BY <1>12, <1>13 DEF t

\* One is taken of a tier that is not empty, and one that carries the signal if
\* any does.
LEMMA GreedyNextIs ==
  ASSUME NEW m, NEW refs, Measured(m.has, refs \cap m.has, m.dist),
         NEW tier \in Seq(Images), OnceEach(tier), tier # <<>>
  PROVE  /\ GreedyNext(tier, refs, m) \in ToSet(tier)
         /\ ToSet(tier) \cap m.has # {} => GreedyNext(tier, refs, m) \in m.has
         /\ refs = {} /\ tier[1] \in m.has => GreedyNext(tier, refs, m) = tier[1]
<1> DEFINE has == m.has
           R == refs \cap m.has
           D == m.dist
           with == Among(tier, has)
           next == GreedyNext(tier, refs, m)
           asc == Ascending(Range(tier))
           o == GreedyMaxMin(with, NearestOf(has, R, D), D, 1)
<1>1. next = IF with = <<>> THEN Head(asc) ELSE IF R = {} THEN Head(with) ELSE o[1]
  BY DEF GreedyNext
<1>2. with \in Seq(Images) /\ ToSet(with) = ToSet(tier) \cap has /\ OnceEach(with)
  BY AmongOnce
<1>3. asc \in Seq(ToSet(tier)) /\ ToSet(asc) = ToSet(tier)
  <2>1. Range(tier) = ToSet(tier) /\ ToSet(tier) \in SUBSET Int
    BY DEF Range, ToSet, Images
  <2>2. IsFiniteSet(ToSet(tier))
    BY OnceIsCounted
  <2> QED BY <2>1, <2>2, AscendingIs
<1>4. tier[1] \in ToSet(tier)
  BY DEF ToSet
<1>5. Measured(has, R, D)
  OBVIOUS
<1>6. ASSUME refs = {}, tier[1] \in has PROVE with # <<>> /\ with[1] = tier[1]
  <2> DEFINE Pos == {i \in DOMAIN tier : tier[i] \in has}
  <2>1. 1 \in Pos /\ Pos \in SUBSET DOMAIN tier
    BY <1>6
  <2>2. with = AtPositions(tier, Pos)
    BY DEF Among
  <2> HIDE DEF Pos, with
  <2> QED BY <2>1, <2>2, FirstIsRead
<1>r. refs = {} => R = {}
  OBVIOUS
<1> HIDE DEF has, R, D, with, next, asc
<1>7. CASE with = <<>>
  <2>1. ToSet(tier) \cap has = {}
    BY <1>2, <1>7 DEF ToSet
  <2>2. asc # <<>>
    <3>1. ToSet(asc) # {}
      BY <1>3, <1>4
    <3> QED BY <3>1 DEF ToSet
  <2>3. Head(asc) \in ToSet(tier)
    BY <1>3, <2>2
  <2> QED BY <1>1, <1>4, <1>7, <2>1, <2>3 DEF next, has
<1>8. CASE with # <<>>
  <2>1. Head(with) = with[1] /\ with[1] \in ToSet(with)
    BY <1>2, <1>8 DEF ToSet
  <2>2. CASE R = {}
    BY <1>1, <1>2, <1>6, <1>8, <2>1, <2>2 DEF next, has
  <2>3. CASE R # {}
    <3>1. with \in Seq(has) /\ Len(with) \in Nat /\ Len(with) # 0
      <4>1. DOMAIN with = 1..Len(with) /\ \A i \in DOMAIN with : with[i] \in has
        BY <1>2 DEF ToSet
      <4> QED BY <1>2, <1>8, <4>1
    <3>2. 1 \in Nat
      OBVIOUS
    <3> HIDE DEF o
    <3>3. o \in Seq(Images) /\ Len(o) = Least(1, Len(with)) /\ IsGreedy(o, ToSet(with), R, has, D)
      BY <1>2, <1>5, <3>1, <3>2, GreedyIs DEF o
    <3>4. Len(o) = 1
      <4>1. \A l \in Nat : l # 0 => Least(1, l) = 1
        BY DEF Least
      <4> QED BY <3>1, <3>3, <4>1
    <3>5. o[1] \in ToSet(with)
      <4>1. 1 \in DOMAIN o
        <5>1. o \in Seq(Images)
          BY <3>3
        <5> QED BY <3>4, <5>1
      <4> QED BY <3>3, <4>1 DEF IsGreedy
    <3> QED BY <1>1, <1>2, <1>8, <1>r, <2>3, <3>5 DEF next, has, o
  <2> QED BY <2>2, <2>3
<1> QED BY <1>7, <1>8

\* Whatever is eligible, the next for review is, and comes from those that lost
\* their label as long as there is one (select_next).
THEOREM ReviewChoiceHolds ==
  ASSUME NEW q, ReviewAsked(q)
  PROVE  ReviewChoiceIsSound(q)
<1> DEFINE E == q.cands \cup q.prior
           tier == IF E \cap q.prior # {} THEN FirstTier(E \cap q.prior, q.corrected, q.context) ELSE Ascending(E)
           next == SelectNext(E, q.prior, q.corrected, q.context, q.refs, q.measure)
           has == q.measure.has
<1>1. E \in SUBSET Images /\ IsFiniteSet(E) /\ E \cap q.prior = q.prior /\ q.prior \in SUBSET Images
      /\ IsFiniteSet(q.prior) /\ NoKey \notin Images /\ Images \subseteq Int
  <2>1. /\ q.cands \in SUBSET Images /\ q.prior \in SUBSET Images
        /\ IsFiniteSet(q.cands) /\ IsFiniteSet(q.prior)
    BY DEF ReviewAsked
  <2>2. IsFiniteSet(E)
    BY <2>1, FS_Union
  <2>3. NoKey \notin Images /\ Images \subseteq Int
    BY DEF Images, NoKey
  <2> QED BY <2>1, <2>2, <2>3
<1>2. E = {} => next = NoKey
  BY DEF SelectNext
<1>3. E # {} => next = GreedyNext(tier, q.refs, q.measure)
  BY DEF SelectNext
<1> HIDE DEF next
<1>4. /\ tier \in Seq(Images) /\ OnceEach(tier)
      /\ ToSet(tier) = IF q.prior # {} THEN q.prior ELSE E
      /\ q.context \in q.prior => tier # <<>> /\ tier[1] = q.context
  <2>1. CASE q.prior # {}
    <3>1. tier = FirstTier(q.prior, q.corrected, q.context)
      BY <1>1, <2>1
    <3> HIDE DEF tier
    <3>2. /\ tier \in Seq(q.prior) /\ ToSet(tier) = q.prior /\ OnceEach(tier)
          /\ q.context \in q.prior => tier # <<>> /\ tier[1] = q.context
      BY <1>1, <3>1, FirstTierIs
    <3> QED BY <1>1, <2>1, <3>2
  <2>2. CASE q.prior = {}
    <3>1. tier = Ascending(E)
      BY <2>2
    <3> HIDE DEF tier, E
    <3>2. E \in SUBSET Int
      BY <1>1
    <3>3. tier \in Seq(E) /\ ToSet(tier) = E /\ OnceEach(tier)
      BY <1>1, <3>1, <3>2, AscendingIs
    <3> QED BY <1>1, <2>2, <3>3
  <2> QED BY <2>1, <2>2
<1> HIDE DEF tier
<1>5. ASSUME E # {}
      PROVE  /\ next \in ToSet(tier)
             /\ ToSet(tier) \cap has # {} => next \in has
             /\ q.refs = {} /\ tier[1] \in has => next = tier[1]
  <2>1. tier # <<>>
    BY <1>4, <1>5 DEF ToSet
  <2>2. Measured(q.measure.has, q.refs \cap q.measure.has, q.measure.dist)
    BY DEF ReviewAsked
  <2> DEFINE m == q.measure
  <2>3. Measured(m.has, q.refs \cap m.has, m.dist)
    BY <2>2
  <2> HIDE DEF m
  <2>4. /\ GreedyNext(tier, q.refs, m) \in ToSet(tier)
        /\ ToSet(tier) \cap m.has # {} => GreedyNext(tier, q.refs, m) \in m.has
        /\ q.refs = {} /\ tier[1] \in m.has => GreedyNext(tier, q.refs, m) = tier[1]
    BY <1>4, <2>1, <2>3, GreedyNextIs
  <2> QED BY <1>3, <1>5, <2>4 DEF m
<1>6. E = {} => q.prior = {}
  OBVIOUS
<1>7. /\ next \in E \cup {NoKey}
      /\ next = NoKey <=> E = {}
      /\ q.prior # {} => next \in q.prior
      /\ q.refs = {} /\ q.context \in q.prior \cap has => next = q.context
      /\ q.prior \cap has # {} => next \in has
  <2>1. CASE E = {}
    BY <1>2, <1>6, <2>1
  <2>2. CASE E # {}
    <3>1. next \in E /\ NoKey \notin E
      BY <1>1, <1>4, <1>5, <2>2
    <3>2. q.prior # {} => ToSet(tier) = q.prior
      BY <1>4
    <3> HIDE DEF E
    <3> QED BY <1>4, <1>5, <2>2, <3>1, <3>2
  <2> QED BY <2>1, <2>2
<1> QED BY <1>7 DEF ReviewChoiceIsSound, next

\* A total is told number by number.
LEMMA TotalIs ==
  ASSUME NEW s \in Seq(Nat)
  PROVE  \E g : /\ Total(s) = g[Len(s)] /\ g[0] = 0
                /\ \A i \in 1..Len(s) : g[i] = g[i - 1] + s[i]
                /\ \A i \in 0..Len(s) : g[i] \in Nat
<1> DEFINE n == Len(s)
           Step(i, total) == total + s[i]
           X == [i \in 0..n |-> Nat]
           step == [i \in 1..n |-> [x \in Nat |-> Step(i, x)]]
<1>n. n \in Nat /\ \A i \in 1..n : s[i] \in Nat
  OBVIOUS
<1>t. Total(s) = (CHOOSE g : g = [i \in 0..n |-> IF i = 0 THEN 0 ELSE Step(i, g[i - 1])])[n]
  BY DEF Total, Looped
<1> HIDE DEF n
<1>1. \A i \in 1..n : \A x \in X[i - 1] : step[i][x] \in X[i]
  <2>1. \A i \in 1..n : X[i - 1] = Nat /\ X[i] = Nat
    BY <1>n
  <2>2. ASSUME NEW i \in 1..n, NEW x \in Nat PROVE step[i][x] \in Nat
    <3>1. x + s[i] \in Nat
      BY <1>n
    <3> QED BY <3>1
  <2> HIDE DEF X, step
  <2> QED BY <2>1, <2>2
<1>2. 0 \in X[0]
  BY <1>n
<1>3. PICK f : /\ DOMAIN f = 0..n /\ f = [i \in 0..n |-> f[i]] /\ f[0] = 0
               /\ \A i \in 1..n : f[i - 1] \in X[i - 1] /\ f[i] = step[i][f[i - 1]]
               /\ \A i \in 0..n : f[i] \in X[i]
  <2> HIDE DEF X, step
  <2>2. \E f : LoopsBy(f, n, 0, step, X)
    BY <1>n, <1>1, <1>2, LoopExists
  <2> QED BY <2>2 DEF LoopsBy
<1>4. f = [i \in 0..n |-> IF i = 0 THEN 0 ELSE Step(i, f[i - 1])]
  <2>1. \A i \in 1..n : f[i] = Step(i, f[i - 1])
    <3>1. \A i \in 1..n : X[i - 1] = Nat
      BY <1>n
    <3>2. \A i \in 1..n : \A x \in Nat : step[i][x] = Step(i, x)
      OBVIOUS
    <3> HIDE DEF Step, step, X
    <3> QED BY <1>3, <3>1, <3>2
  <2>2. \A i \in 0..n : i = 0 \/ i \in 1..n
    BY <1>n
  <2> DEFINE h == [i \in 0..n |-> IF i = 0 THEN 0 ELSE Step(i, f[i - 1])]
  <2> HIDE DEF X, step, Step
  <2>3. h = [i \in 0..n |-> f[i]]
    BY <1>3, <2>1, <2>2
  <2> QED BY <1>3, <2>3
<1>5. PICK g : /\ g = [i \in 0..n |-> IF i = 0 THEN 0 ELSE Step(i, g[i - 1])]
               /\ Total(s) = g[n]
  <2> HIDE DEF Step
  <2> QED BY <1>4, <1>t
<1>6. g[0] = 0 /\ \A i \in 1..n : g[i] = g[i - 1] + s[i]
  <2>1. \A i \in 0..n : g[i] = IF i = 0 THEN 0 ELSE Step(i, g[i - 1])
    BY <1>5
  <2>2. 0 \in 0..n /\ \A i \in 1..n : i \in 0..n /\ i # 0
    BY <1>n
  <2> QED BY <2>1, <2>2
<1>7. \A i \in 0..n : g[i] \in X[i]
  <2>1. g[0] \in X[0]
    BY <1>n, <1>6
  <2>2. \A i \in 1..n : g[i - 1] \in X[i - 1] => g[i] \in X[i]
    <3> SUFFICES ASSUME NEW i \in 1..n, g[i - 1] \in Nat PROVE g[i] \in Nat
      BY <1>n
    <3> QED BY <1>n, <1>6
  <2> HIDE DEF X
  <2> QED BY <1>n, <2>1, <2>2, LoopKeeps
<1> QED BY <1>5, <1>6, <1>7 DEF n

\* What a number of exemplars cost is told one after the other.
LEMMA SpentIs ==
  ASSUME NEW n \in Nat, NEW seq, NEW cost, \A i \in 1..n : cost[seq[i]] \in Nat
  PROVE  \E g : /\ Spent(seq, n, cost) = g[n] /\ g[0] = 0
                /\ \A i \in 1..n : g[i] = g[i - 1] + cost[seq[i]]
                /\ \A i \in 0..n : g[i] \in Nat
<1> DEFINE s == [i \in 1..n |-> cost[seq[i]]]
<1>1. s \in Seq(Nat) /\ Len(s) = n /\ \A i \in 1..n : s[i] = cost[seq[i]]
  OBVIOUS
<1>2. Spent(seq, n, cost) = Total(s)
  BY DEF Spent
<1> HIDE DEF s
<1>3. PICK g : /\ Total(s) = g[Len(s)] /\ g[0] = 0
               /\ \A i \in 1..Len(s) : g[i] = g[i - 1] + s[i]
               /\ \A i \in 0..Len(s) : g[i] \in Nat
  BY <1>1, TotalIs
<1> QED BY <1>1, <1>2, <1>3

\* Of two sequences that begin alike, and of more and fewer.
LEMMA SpentGrows ==
  ASSUME NEW a \in Nat, NEW b \in Nat, a <= b, NEW seq, NEW head, NEW cost,
         \A i \in 1..b : cost[seq[i]] \in Nat, \A i \in 1..a : head[i] = seq[i]
  PROVE  /\ Spent(seq, b, cost) \in Nat /\ Spent(seq, a, cost) \in Nat
         /\ Spent(seq, a, cost) <= Spent(seq, b, cost)
         /\ Spent(head, a, cost) = Spent(seq, a, cost)
<1>1. PICK g : /\ Spent(seq, b, cost) = g[b] /\ g[0] = 0
               /\ \A i \in 1..b : g[i] = g[i - 1] + cost[seq[i]]
               /\ \A i \in 0..b : g[i] \in Nat
  BY SpentIs
<1>2. \A i \in 1..a : i \in 1..b
  OBVIOUS
<1>3. ASSUME NEW s, \A i \in 1..a : s[i] = seq[i] PROVE Spent(s, a, cost) = g[a]
  <2>1. \A i \in 1..a : cost[s[i]] \in Nat
    BY <1>2, <1>3
  <2>2. PICK h : /\ Spent(s, a, cost) = h[a] /\ h[0] = 0
                 /\ \A i \in 1..a : h[i] = h[i - 1] + cost[s[i]]
                 /\ \A i \in 0..a : h[i] \in Nat
    BY <2>1, SpentIs
  <2> DEFINE X == [i \in 0..a |-> {g[i]}]
  <2>3. h[0] \in X[0]
    BY <1>1, <2>2
  <2>4. \A i \in 1..a : h[i - 1] \in X[i - 1] => h[i] \in X[i]
    <3> SUFFICES ASSUME NEW i \in 1..a, h[i - 1] = g[i - 1] PROVE h[i] = g[i]
      OBVIOUS
    <3> QED BY <1>1, <1>2, <1>3, <2>2
  <2>5. \A i \in 0..a : h[i] \in X[i]
    <3> HIDE DEF X
    <3> QED BY <2>3, <2>4, LoopKeeps
  <2> QED BY <2>2, <2>5
<1>4. g[a] <= g[b]
  <2> DEFINE X == [i \in 0..b |-> {v \in Nat : i >= a => v >= g[a]}]
  <2>1. g[0] \in X[0]
    BY <1>1
  <2>2. \A i \in 1..b : g[i - 1] \in X[i - 1] => g[i] \in X[i]
    <3> SUFFICES ASSUME NEW i \in 1..b, i - 1 >= a => g[i - 1] >= g[a] PROVE g[i] \in Nat /\ (i >= a => g[i] >= g[a])
      OBVIOUS
    <3>1. i \in 0..b /\ i - 1 \in 0..b /\ a \in 0..b
      OBVIOUS
    <3>2. g[i] = g[i - 1] + cost[seq[i]] /\ cost[seq[i]] \in Nat /\ g[i] \in Nat /\ g[i - 1] \in Nat /\ g[a] \in Nat
      BY <1>1, <3>1
    <3>3. i >= a => i = a \/ i - 1 >= a
      OBVIOUS
    <3> QED BY <3>2, <3>3
  <2>3. \A i \in 0..b : g[i] \in X[i]
    <3> HIDE DEF X
    <3> QED BY <2>1, <2>2, LoopKeeps
  <2> QED BY <1>1, <2>3
<1>5. a \in 0..b /\ b \in 0..b
  OBVIOUS
<1>6. Spent(seq, a, cost) = g[a] /\ Spent(head, a, cost) = g[a]
  BY <1>3
<1> QED BY <1>1, <1>4, <1>5, <1>6

\* Whether a neighbour does not fall behind.
Fits(sims, gap, floor, i) == (gap # NoCap => sims[i] >= sims[1] - gap) /\ (floor # NoCap => sims[i] >= floor)

\* The first that falls behind ends them, the best excepted.
LEMMA CutoffIs ==
  ASSUME NEW sims \in Seq(Int), NEW gap, NEW floor
  PROVE  LET k == AdaptiveCutoff(sims, gap, floor, NoCap) IN
         /\ k \in 0..Len(sims)
         /\ \A i \in 2..k : Fits(sims, gap, floor, i)
         /\ k < Len(sims) => k >= 1 /\ ~Fits(sims, gap, floor, k + 1)
<1> DEFINE L == Len(sims)
           Fit(i) == Fits(sims, gap, floor, i)
           all == (gap = NoCap /\ floor = NoCap) \/ sims = <<>>
           k == AdaptiveCutoff(sims, gap, floor, NoCap)
<1>1. k = IF all THEN L ELSE CHOOSE n \in 1..L : (\A i \in 2..n : Fit(i)) /\ (n = L \/ ~Fit(n + 1))
  BY DEF AdaptiveCutoff, Fits
<1>2. L \in Nat /\ (sims # <<>> => L # 0)
  OBVIOUS
<1>3. CASE all
  <2>1. k = L
    BY <1>1, <1>3
  <2>2. \A i \in 2..L : Fit(i)
    <3>1. CASE sims = <<>>
      BY <3>1
    <3>2. CASE gap = NoCap /\ floor = NoCap
      BY <3>2 DEF Fits
    <3> QED BY <1>3, <3>1, <3>2
  <2> HIDE DEF k, L, Fit
  <2>3. k \in 0..L /\ (\A i \in 2..k : Fit(i)) /\ ~(k < L)
    BY <1>2, <2>1, <2>2
  <2> QED BY <2>3 DEF k, L, Fit
<1>4. CASE ~all
  <2> HIDE DEF k, L, Fit
  <2> DEFINE T == {n \in 1..L : n = L \/ ~Fit(n + 1)}
  <2>1. L \in T /\ T \in SUBSET Nat
    BY <1>2, <1>4
  <2>2. PICK n \in T : \A m \in T : n <= m
    <3> HIDE DEF T
    <3> QED BY <2>1, LeastNat
  <2>3. \A i \in 2..n : Fit(i)
    <3> SUFFICES ASSUME NEW i \in 2..n, ~Fit(i) PROVE FALSE
      OBVIOUS
    <3>1. i - 1 \in 1..L /\ (i - 1) + 1 = i /\ ~(n <= i - 1) /\ n \in 1..L
      BY <1>2, <2>2
    <3>2. i - 1 \in T
      BY <3>1
    <3> QED BY <2>2, <3>1, <3>2
  <2>4. /\ k \in 1..L /\ (\A i \in 2..k : Fit(i)) /\ (k = L \/ ~Fit(k + 1))
    <3>1. n \in 1..L /\ (n = L \/ ~Fit(n + 1))
      BY <2>2
    <3> HIDE DEF all, T
    <3>2. k = CHOOSE m \in 1..L : (\A i \in 2..m : Fit(i)) /\ (m = L \/ ~Fit(m + 1))
      BY <1>1, <1>4
    <3> QED BY <2>3, <3>1, <3>2
  <2>5. k \in 0..L /\ (k < L => k >= 1 /\ k # L)
    BY <1>2, <2>4
  <2> QED BY <2>4, <2>5 DEF k, L, Fit
<1> QED BY <1>3, <1>4

\* The head of a head is a head.
LEMMA HeadOfHead ==
  ASSUME NEW T, NEW s \in Seq(T), NEW a \in 0..Len(s), NEW b \in 0..a
  PROVE  /\ SubSeq(s, 1, a) \in Seq(T) /\ Len(SubSeq(s, 1, a)) = a
         /\ \A i \in 1..a : SubSeq(s, 1, a)[i] = s[i]
         /\ SubSeq(SubSeq(s, 1, a), 1, b) = SubSeq(s, 1, b)
<1> DEFINE h == SubSeq(s, 1, a)
           n == Len(s)
<1>1. n \in Nat /\ a \in Nat /\ b \in Nat /\ a <= n /\ b <= a /\ DOMAIN s = 1..n /\ \A i \in 1..n : s[i] \in T
  OBVIOUS
<1>2. h = [i \in 1..a |-> s[i]]
  OBVIOUS
<1>3. \A i \in 1..a : i \in 1..n
  BY <1>1
<1> HIDE DEF h, n
<1>4. h \in Seq(T) /\ Len(h) = a /\ \A i \in 1..a : h[i] = s[i]
  BY <1>1, <1>2, <1>3
<1>5. SubSeq(h, 1, b) = [i \in 1..b |-> h[i]] /\ SubSeq(s, 1, b) = [i \in 1..b |-> s[i]]
  BY <1>1, <1>4 DEF n
<1>6. \A i \in 1..b : h[i] = s[i]
  BY <1>1, <1>4
<1> QED BY <1>4, <1>5, <1>6 DEF h

\* The tail goes until the rest fits the budget, and no more of it.
LEMMA PruneByTokensIs ==
  ASSUME NEW T, NEW s \in Seq(T), NEW cost, \A x \in T : cost[x] \in Nat, NEW budget \in Int
  PROVE  \E k \in 0..Len(s) :
           /\ PruneByTokens(s, cost, budget) = SubSeq(s, 1, k)
           /\ k > 0 => Spent(s, k, cost) <= budget
           /\ k < Len(s) => Spent(s, k + 1, cost) > budget
<1> DEFINE L == Len(s)
           F == {n \in 0..L : n = 0 \/ Spent(s, n, cost) <= budget}
           k == Max(F)
<1>1. L \in Nat /\ \A i \in 1..L : cost[s[i]] \in Nat
  OBVIOUS
<1>2. PruneByTokens(s, cost, budget) = SubSeq(s, 1, k)
  BY DEF PruneByTokens
<1> HIDE DEF L, k
<1>3. IsFiniteSet(F) /\ 0 \in F /\ F \in SUBSET Int
  <2>1. IsFiniteSet(0..L)
    <3>1. 0 \in Int /\ L \in Int
      BY <1>1
    <3> QED BY <3>1, FS_Interval
  <2>2. F \in SUBSET (0..L) /\ 0 \in F /\ F \in SUBSET Int
    BY <1>1
  <2> HIDE DEF F
  <2> QED BY <2>1, <2>2, FS_Subset
<1>4. k \in F /\ \A x \in F : x <= k
  <2> HIDE DEF F
  <2> QED BY <1>3, MaxIsGreatest DEF k
<1>5. k \in 0..L /\ (k > 0 => Spent(s, k, cost) <= budget)
  BY <1>4
<1>6. ASSUME k < L PROVE Spent(s, k + 1, cost) > budget
  <2>1. k + 1 \in 0..L /\ k + 1 \in Nat /\ k + 1 <= L /\ ~(k + 1 <= k)
    BY <1>1, <1>5, <1>6
  <2>2. \A i \in 1..(k + 1) : cost[s[i]] \in Nat
    BY <1>1, <2>1
  <2>3. Spent(s, k + 1, cost) \in Nat
    BY <2>1, <2>2, SpentGrows
  <2>4. ~(Spent(s, k + 1, cost) <= budget)
    BY <1>4, <2>1
  <2> QED BY <2>3, <2>4
<1> QED BY <1>2, <1>5, <1>6 DEF L

\* The candidates, those that are known first.
LEMMA RelevanceIs ==
  ASSUME NEW T \in SUBSET Int, NEW cands \in Seq(T), OnceEach(cands), NEW has, NEW near,
         \A k \in T \cap has : near[k] \in Int
  PROVE  LET o == RelevanceOrder(cands, has, near, TRUE) IN
         o \in Seq(T) /\ Len(o) \in Nat /\ ToSet(o) = ToSet(cands)
<1> DEFINE with == Range(Among(cands, has))
           first == Sorted(with, LAMBDA x, y : near[x] > near[y] \/ (near[x] = near[y] /\ x < y))
           o == RelevanceOrder(cands, has, near, TRUE)
           Before(x, y) == near[x] > near[y] \/ (near[x] = near[y] /\ x < y)
           Behind(x) == Cardinality({y \in with : Before(y, x)})
<1>1. o = IF with = {} THEN cands ELSE first \o Lacking(cands, has)
  BY DEF RelevanceOrder
<1>2. /\ with = ToSet(cands) \cap has
      /\ Lacking(cands, has) \in Seq(T) /\ ToSet(Lacking(cands, has)) = ToSet(cands) \ has
  <2>1. with = ToSet(Among(cands, has))
    BY DEF Range, ToSet
  <2> HIDE DEF with
  <2> QED BY <2>1, AmongOnce
<1>3. IsFiniteSet(with) /\ with \in SUBSET T
  <2>1. IsFiniteSet(ToSet(cands))
    BY OnceIsCounted
  <2>2. ToSet(cands) \in SUBSET T
    BY DEF ToSet
  <2> HIDE DEF with
  <2>3. with \in SUBSET ToSet(cands)
    BY <1>2
  <2> QED BY <2>1, <2>2, <2>3, FS_Subset
<1>4. first = [i \in 1..Cardinality(with) |-> CHOOSE x \in with : Behind(x) = i - 1]
  BY DEF Sorted
<1>5. \A x \in with : near[x] \in Int /\ x \in Int
  <2> HIDE DEF with
  <2> QED BY <1>2, <1>3
<1> HIDE DEF with, first, o
<1>6. PICK R : R = {p \in with \X with : Before(p[1], p[2])}
  OBVIOUS
<1>7. \A x, y \in with : <<x, y>> \in R <=> Before(x, y)
  BY <1>6
<1>8. \A x \in with : Behind(x) = Place(x, with, R)
  <2>1. \A x \in with : {y \in with : Before(y, x)} = {y \in with : <<y, x>> \in R}
    BY <1>7
  <2> HIDE DEF Before
  <2> QED BY <2>1 DEF Place
<1>9. IsStrictOrder(R, with)
  BY <1>5, <1>7 DEF IsStrictOrder
<1> HIDE DEF Behind
<1>10. first = ByPlace(with, R)
  <2>1. \A i : (CHOOSE x \in with : Behind(x) = i - 1) = CHOOSE x \in with : Place(x, with, R) = i - 1
    BY <1>8
  <2>2. ByPlace(with, R) = [i \in 1..Cardinality(with) |-> CHOOSE x \in with : Place(x, with, R) = i - 1]
    BY DEF ByPlace
  <2> QED BY <1>4, <2>1, <2>2
<1>11. first \in Seq(with) /\ ToSet(first) = with
  BY <1>3, <1>9, <1>10, ByPlaceIs
<1>12. first \in Seq(T)
  <2>1. Len(first) \in Nat /\ DOMAIN first = 1..Len(first) /\ \A i \in DOMAIN first : first[i] \in with
    BY <1>11
  <2>2. first = [i \in 1..Len(first) |-> first[i]]
    BY <1>11
  <2> QED BY <1>3, <2>1, <2>2
<1> DEFINE l == Lacking(cands, has)
<1>13. l \in Seq(T) /\ ToSet(l) = ToSet(cands) \ has
  BY <1>2
<1> HIDE DEF l
<1>14. first \o l \in Seq(T) /\ ToSet(first \o l) = ToSet(first) \cup ToSet(l)
  <2>1. /\ first \o l \in Seq(T) /\ DOMAIN (first \o l) = 1..(Len(first) + Len(l))
        /\ DOMAIN first = 1..Len(first) /\ DOMAIN l = 1..Len(l) /\ Len(first) \in Nat /\ Len(l) \in Nat
        /\ \A i \in 1..(Len(first) + Len(l)) : (first \o l)[i] = IF i <= Len(first) THEN first[i] ELSE l[i - Len(first)]
    BY <1>12, <1>13, ConcatProperties
  <2> DEFINE u == first \o l
             m == Len(first)
             k == Len(l)
  <2> HIDE DEF u, m, k
  <2>2. /\ DOMAIN u = 1..(m + k) /\ DOMAIN first = 1..m /\ DOMAIN l = 1..k /\ m \in Nat /\ k \in Nat
        /\ \A i \in 1..(m + k) : u[i] = IF i <= m THEN first[i] ELSE l[i - m]
    BY <2>1 DEF u, m, k
  <2>3. \A i \in 1..(m + k) : i \in 1..m \/ (~(i <= m) /\ i - m \in 1..k)
    BY <2>2
  <2>4. \A i \in 1..m : i \in 1..(m + k) /\ u[i] = first[i]
    BY <2>2
  <2>5. \A i \in 1..k : i + m \in 1..(m + k) /\ u[i + m] = l[i]
    <3> SUFFICES ASSUME NEW i \in 1..k PROVE i + m \in 1..(m + k) /\ u[i + m] = l[i]
      OBVIOUS
    <3>1. i + m \in 1..(m + k) /\ ~(i + m <= m) /\ (i + m) - m = i
      BY <2>2
    <3> QED BY <2>2, <3>1
  <2>6. ToSet(u) = ToSet(first) \cup ToSet(l)
    BY <2>2, <2>3, <2>4, <2>5 DEF ToSet
  <2> QED BY <2>1, <2>6 DEF u
<1>15. o \in Seq(T) /\ ToSet(o) = ToSet(cands)
  <2>1. CASE with = {}
    BY <1>1, <2>1
  <2>2. CASE with # {}
    BY <1>1, <1>2, <1>11, <1>13, <1>14, <2>2 DEF l
  <2> QED BY <2>1, <2>2
<1>16. Len(o) \in Nat
  BY <1>15
<1> QED BY <1>15, <1>16 DEF o

\* The second goes last, the others keep their order.
LEMMA BookendMoves ==
  ASSUME NEW T, NEW e \in Seq(T)
  PROVE  /\ Bookend(e) \in Seq(T) /\ Len(Bookend(e)) = Len(e)
         /\ Len(e) <= 2 => Bookend(e) = e
         /\ Len(e) > 2 => /\ Bookend(e)[1] = e[1] /\ Bookend(e)[Len(e)] = e[2]
                          /\ \A i \in 2..(Len(e) - 1) : Bookend(e)[i] = e[i + 1]
<1> DEFINE n == Len(e)
           b == Bookend(e)
<1>1. n \in Nat /\ DOMAIN e = 1..n
  OBVIOUS
<1>2. CASE n <= 2
  <2>1. b = e
    BY <1>2 DEF Bookend
  <2> HIDE DEF b
  <2> QED BY <1>2, <2>1 DEF b
<1>3. CASE ~(n <= 2)
  <2>1. b = <<e[1]>> \o SubSeq(e, 3, n) \o <<e[2]>>
    BY <1>3 DEF Bookend
  <2>2. SubSeq(e, 3, n) \in Seq(T) /\ Len(SubSeq(e, 3, n)) = n - 2 /\ \A i \in 1..(n - 2) : SubSeq(e, 3, n)[i] = e[i + 2]
    BY <1>1, <1>3
  <2> DEFINE m == SubSeq(e, 3, n)
             a == <<e[1]>>
             z == <<e[2]>>
             am == a \o m
  <2>3. e[1] \in T /\ e[2] \in T /\ a \in Seq(T) /\ z \in Seq(T) /\ Len(a) = 1 /\ Len(z) = 1 /\ a[1] = e[1] /\ z[1] = e[2]
    BY <1>1, <1>3
  <2>4. m \in Seq(T) /\ Len(m) = n - 2 /\ \A i \in 1..(n - 2) : m[i] = e[i + 2]
    BY <2>2
  <2>5. b = am \o z
    BY <2>1
  <2> HIDE DEF b, m, a, z, n
  <2>6. /\ am \in Seq(T) /\ Len(am) = 1 + (n - 2)
        /\ \A i \in 1..(1 + (n - 2)) : am[i] = IF i <= 1 THEN a[i] ELSE m[i - 1]
    <3>1. /\ a \o m \in Seq(T) /\ Len(a \o m) = Len(a) + Len(m)
          /\ \A i \in 1..(Len(a) + Len(m)) : (a \o m)[i] = IF i <= Len(a) THEN a[i] ELSE m[i - Len(a)]
      BY <2>3, <2>4, ConcatProperties
    <3> QED BY <1>1, <2>3, <2>4, <3>1
  <2> HIDE DEF am
  <2>7. /\ b \in Seq(T) /\ Len(b) = (1 + (n - 2)) + 1
        /\ \A i \in 1..((1 + (n - 2)) + 1) : b[i] = IF i <= 1 + (n - 2) THEN am[i] ELSE z[i - (1 + (n - 2))]
    <3>1. /\ am \o z \in Seq(T) /\ Len(am \o z) = Len(am) + Len(z)
          /\ \A i \in 1..(Len(am) + Len(z)) : (am \o z)[i] = IF i <= Len(am) THEN am[i] ELSE z[i - Len(am)]
      BY <2>3, <2>6, ConcatProperties
    <3> QED BY <1>1, <2>3, <2>5, <2>6, <3>1
  <2>8. (1 + (n - 2)) + 1 = n /\ 1 + (n - 2) = n - 1
    BY <1>1
  <2>9. b \in Seq(T) /\ Len(b) = n /\ DOMAIN b = 1..n /\ \A i \in 1..n : b[i] = IF i <= n - 1 THEN am[i] ELSE z[i - (n - 1)]
    BY <2>7, <2>8
  <2>10. b[1] = e[1]
    <3>1. 1 \in 1..n /\ 1 <= n - 1 /\ 1 \in 1..(1 + (n - 2))
      BY <1>1, <1>3
    <3> QED BY <2>3, <2>6, <2>9, <3>1
  <2>11. b[n] = e[2]
    <3>1. n \in 1..n /\ ~(n <= n - 1) /\ n - (n - 1) = 1
      BY <1>1, <1>3
    <3> QED BY <2>3, <2>9, <3>1
  <2>12. ASSUME NEW i \in 2..(n - 1) PROVE b[i] = e[i + 1]
    <3>1. i \in 1..n /\ i <= n - 1 /\ i \in 1..(1 + (n - 2)) /\ ~(i <= 1) /\ i - 1 \in 1..(n - 2) /\ (i - 1) + 2 = i + 1
      BY <1>1, <1>3
    <3> QED BY <2>4, <2>6, <2>9, <3>1
  <2> QED BY <1>3, <2>9, <2>10, <2>11, <2>12 DEF b, n
<1> QED BY <1>2, <1>3

\* The second best moves to the end.
LEMMA BookendIs ==
  ASSUME NEW T, NEW e \in Seq(T)
  PROVE  LET b == Bookend(e)
             n == Len(e)
         IN /\ Range(b) = Range(e) /\ Len(b) = n
            /\ n > 1 => b[1] = e[1] /\ b[n] = e[2]
<1> DEFINE n == Len(e)
           b == Bookend(e)
           Moved == [i \in 1..n |-> IF i = 1 THEN e[1] ELSE IF i = n THEN e[2] ELSE e[i + 1]]
<1>1. n \in Nat /\ DOMAIN e = 1..n
  OBVIOUS
<1>2. CASE n <= 2
  <2>1. b = e
    BY <1>2 DEF Bookend
  <2>2. n > 1 => n = 2
    BY <1>1, <1>2
  <2> HIDE DEF b
  <2> QED BY <2>1, <2>2 DEF b
<1>3. CASE ~(n <= 2)
  <2>1. b \in Seq(T) /\ Len(b) = n /\ b[1] = e[1] /\ b[n] = e[2] /\ \A i \in 2..(n - 1) : b[i] = e[i + 1]
    <3>1. n > 2
      BY <1>1, <1>3
    <3> QED BY <3>1, BookendMoves
  <2> HIDE DEF b, n
  <2>9. b \in Seq(T) /\ Len(b) = n /\ DOMAIN b = 1..n
    BY <2>1
  <2>10. b[1] = e[1] /\ b[n] = e[2] /\ \A i \in 2..(n - 1) : b[i] = e[i + 1]
    BY <2>1
  <2>11. Range(b) = Range(e)
    <3>1. \A i \in 1..n : \E j \in 1..n : b[i] = e[j]
      <4> SUFFICES ASSUME NEW i \in 1..n PROVE \E j \in 1..n : b[i] = e[j]
        OBVIOUS
      <4>1. 1 \in 1..n /\ 2 \in 1..n /\ (i = 1 \/ i = n \/ (i \in 2..(n - 1) /\ i + 1 \in 1..n))
        BY <1>1, <1>3
      <4> QED BY <2>10, <4>1
    <3>2. \A j \in 1..n : \E i \in 1..n : b[i] = e[j]
      <4> SUFFICES ASSUME NEW j \in 1..n PROVE \E i \in 1..n : b[i] = e[j]
        OBVIOUS
      <4>1. 1 \in 1..n /\ n \in 1..n /\ (j = 1 \/ j = 2 \/ (j - 1 \in 2..(n - 1) /\ (j - 1) + 1 = j /\ j - 1 \in 1..n))
        BY <1>1, <1>3
      <4> QED BY <2>10, <4>1
    <3>3. DOMAIN b = 1..n /\ DOMAIN e = 1..n
      BY <2>9, <1>1
    <3>4. Range(b) = {b[i] : i \in 1..n} /\ Range(e) = {e[i] : i \in 1..n}
      BY <3>3 DEF Range
    <3>5. {b[i] : i \in 1..n} \subseteq {e[i] : i \in 1..n}
      BY <3>1
    <3>6. {e[i] : i \in 1..n} \subseteq {b[i] : i \in 1..n}
      BY <3>2
    <3> QED BY <3>4, <3>5, <3>6
  <2> QED BY <2>9, <2>10, <2>11 DEF b, n
<1> QED BY <1>2, <1>3

\* What is asked of the exemplars: candidates that are each there once, the
\* similarities and the costs that are known of them, and the bounds.
ExemplarsAsked(q) ==
  /\ q.cands \in Seq(Int) /\ OnceEach(q.cands)
  /\ \A k \in ToSet(q.cands) : q.cost[k] \in Nat /\ (k \in q.has => q.near[k] \in Int)
  /\ q.knobs.gap \in Int /\ q.knobs.floor \in Int
  /\ q.knobs.depth \in Nat \cup {NoCap} /\ q.budget \in Int /\ q.images \in Int

\* The n exemplars of a prompt are the first n in the order of relevance.
HeadIsKept(q, o, n) ==
  LET sims == [i \in DOMAIN o |-> IF o[i] \in q.has THEN q.near[o[i]] ELSE -1]
      Fit(i) == Fits(sims, q.knobs.gap, q.knobs.floor, i)
  IN /\ n \in 0..Len(o)
     /\ n > 0 => Spent(o, n, q.cost) <= q.budget /\ n <= q.images
     /\ \A i \in 2..n : Fit(i)
     /\ n < Len(o) => \/ n >= 1 /\ ~Fit(n + 1)
                      \/ n = q.knobs.depth
                      \/ n >= q.images \/ Spent(o, n + 1, q.cost) > q.budget

\* The exemplars are the head of the candidates by relevance, as long as the
\* limits allow.
LEMMA ExemplarsAreHead ==
  ASSUME NEW q, ExemplarsAsked(q)
  PROVE  LET o == RelevanceOrder(q.cands, q.has, q.near, TRUE)
             chosen == PruneByImages(PruneByTokens(SelectIcl(q.cands, q.has, q.near, TRUE, q.knobs),
                                                   q.cost, q.budget), q.images)
         IN o \in Seq(Int) /\ \E n : HeadIsKept(q, o, n) /\ chosen = SubSeq(o, 1, n)
<1> DEFINE T == ToSet(q.cands)
           o == RelevanceOrder(q.cands, q.has, q.near, TRUE)
           sims == [i \in DOMAIN o |-> IF o[i] \in q.has THEN q.near[o[i]] ELSE -1]
           kept == AdaptiveCutoff(sims, q.knobs.gap, q.knobs.floor, NoCap)
           m == IF q.knobs.depth = NoCap THEN kept ELSE Least(kept, q.knobs.depth)
           selected == SelectIcl(q.cands, q.has, q.near, TRUE, q.knobs)
           pruned == PruneByTokens(selected, q.cost, q.budget)
           chosen == PruneByImages(pruned, q.images)
           L == Len(o)
           Fit(i) == Fits(sims, q.knobs.gap, q.knobs.floor, i)
           cost == q.cost
           S(s, i) == Spent(s, i, cost)
           near == q.near
           has == q.has
           cands == q.cands
           depth == q.knobs.depth
<1>1. /\ T \in SUBSET Int /\ cands \in Seq(T) /\ OnceEach(cands)
      /\ \A k \in T : cost[k] \in Nat /\ (k \in has => near[k] \in Int)
      /\ depth \in Nat \cup {NoCap} /\ q.budget \in Int /\ q.images \in Int
  <2>1. cands \in Seq(Int) /\ DOMAIN cands = 1..Len(cands) /\ cands = [i \in 1..Len(cands) |-> cands[i]]
    BY DEF ExemplarsAsked
  <2>2. \A i \in DOMAIN cands : cands[i] \in T /\ cands[i] \in Int
    BY <2>1 DEF ToSet
  <2>3. T \in SUBSET Int
    BY <2>1, <2>2 DEF ToSet
  <2>4. cands \in Seq(T)
    <3> HIDE DEF T, cands
    <3> QED BY <2>1, <2>2
  <2> QED BY <2>3, <2>4 DEF ExemplarsAsked
<1>2. o \in Seq(T) /\ L \in Nat /\ DOMAIN o = 1..L /\ (\A i \in 1..L : o[i] \in T) /\ o \in Seq(Int)
  <2> HIDE DEF T, cands, has, near
  <2>1. \A k \in T \cap has : near[k] \in Int
    BY <1>1
  <2>2. RelevanceOrder(cands, has, near, TRUE) \in Seq(T)
    BY <1>1, <2>1, RelevanceIs
  <2>3. o = RelevanceOrder(cands, has, near, TRUE)
    BY DEF cands, has, near
  <2> HIDE DEF o
  <2>4. o \in Seq(T)
    BY <2>2, <2>3
  <2>5. DOMAIN o = 1..Len(o) /\ o = [i \in 1..Len(o) |-> o[i]] /\ (\A i \in 1..Len(o) : o[i] \in T) /\ Len(o) \in Nat
    BY <2>4
  <2>6. o \in Seq(Int)
    BY <1>1, <2>5
  <2> QED BY <2>4, <2>5, <2>6
<1>3. selected = SubSeq(o, 1, m)
  BY DEF SelectIcl
<1>4. /\ kept \in 0..L /\ (\A i \in 2..kept : Fit(i))
      /\ kept < L => kept >= 1 /\ ~Fit(kept + 1)
  <2>1. sims \in Seq(Int) /\ Len(sims) = L
    <3>1. \A i \in 1..L : (IF o[i] \in has THEN near[o[i]] ELSE -1) \in Int
      <4> HIDE DEF o, has, near, L, T
      <4> QED BY <1>1, <1>2
    <3>2. sims = [i \in 1..L |-> IF o[i] \in has THEN near[o[i]] ELSE -1]
      BY <1>2
    <3> HIDE DEF o, has, near, L, sims
    <3> QED BY <1>2, <3>1, <3>2
  <2> HIDE DEF sims
  <2>2. /\ kept \in 0..Len(sims) /\ (\A i \in 2..kept : Fits(sims, q.knobs.gap, q.knobs.floor, i))
        /\ kept < Len(sims) => kept >= 1 /\ ~Fits(sims, q.knobs.gap, q.knobs.floor, kept + 1)
    BY <2>1, CutoffIs
  <2> HIDE DEF L, kept
  <2> QED BY <2>1, <2>2
<1> HIDE DEF o, kept, Fit, T, L, sims, depth, S
<1>m. m = IF depth = NoCap THEN kept ELSE Least(kept, depth)
  BY DEF depth
<1> HIDE DEF m
<1>5. /\ m \in 0..L /\ m <= kept /\ (m < L => m = depth \/ (m = kept /\ kept < L))
  <2>1. \A a, b \in Nat : Least(a, b) \in Nat /\ Least(a, b) <= a /\ (Least(a, b) = a \/ Least(a, b) = b)
    BY DEF Least
  <2>2. kept \in Nat /\ m \in Nat /\ m <= kept /\ (m = kept \/ m = depth)
    BY <1>1, <1>2, <1>4, <1>m, <2>1
  <2> QED BY <1>2, <1>4, <2>2
<1>6. selected \in Seq(T) /\ Len(selected) = m /\ \A i \in 1..m : selected[i] = o[i]
  <2>1. 0 \in 0..m /\ m \in 0..Len(o)
    BY <1>2, <1>5 DEF L
  <2> HIDE DEF selected
  <2>2. /\ SubSeq(o, 1, m) \in Seq(T) /\ Len(SubSeq(o, 1, m)) = m
        /\ \A i \in 1..m : SubSeq(o, 1, m)[i] = o[i]
    BY <1>2, <2>1, HeadOfHead
  <2> QED BY <1>3, <2>2
<1> HIDE DEF selected, cost
<1>7. PICK k \in 0..m : /\ pruned = SubSeq(selected, 1, k)
                        /\ k > 0 => S(selected, k) <= q.budget
                        /\ k < m => S(selected, k + 1) > q.budget
  <2>1. \A x \in T : cost[x] \in Nat
    BY <1>1
  <2>2. q.budget \in Int
    BY <1>1
  <2> DEFINE budget == q.budget
  <2> HIDE DEF budget
  <2>3. \E i \in 0..Len(selected) : /\ PruneByTokens(selected, cost, budget) = SubSeq(selected, 1, i)
                                    /\ i > 0 => Spent(selected, i, cost) <= budget
                                    /\ i < Len(selected) => Spent(selected, i + 1, cost) > budget
    BY <1>6, <2>1, <2>2, PruneByTokensIs DEF budget
  <2> QED BY <1>6, <2>3 DEF budget, S, cost
<1> HIDE DEF pruned
<1>8. pruned = SubSeq(o, 1, k) /\ pruned \in Seq(T) /\ Len(pruned) = k
  <2>1. k \in 0..L
    BY <1>2, <1>5, <1>7
  <2> QED BY <1>2, <1>3, <1>5, <1>7, <2>1, HeadOfHead DEF L
<1>9. ASSUME NEW a \in 0..m PROVE S(selected, a) = S(o, a)
  <2>1. a \in Nat /\ a <= L /\ L \in Nat /\ \A i \in 1..a : selected[i] = o[i]
    BY <1>2, <1>5, <1>6
  <2>2. \A i \in 1..L : cost[o[i]] \in Nat
    BY <1>1, <1>2
  <2>3. Spent(selected, a, cost) = Spent(o, a, cost)
    BY <2>1, <2>2, SpentGrows
  <2> QED BY <2>3 DEF S
<1>10. ASSUME NEW a \in 0..k, NEW b \in {k}, a <= b PROVE S(o, a) \in Nat /\ S(o, b) \in Nat /\ S(o, a) <= S(o, b)
  <2>1. a \in Nat /\ b \in Nat /\ b <= L /\ L \in Nat
    BY <1>2, <1>5, <1>7
  <2>2. \A i \in 1..b : cost[o[i]] \in Nat
    BY <1>1, <1>2, <2>1
  <2>3. Spent(o, b, cost) \in Nat /\ Spent(o, a, cost) \in Nat /\ Spent(o, a, cost) <= Spent(o, b, cost)
    BY <1>10, <2>1, <2>2, SpentGrows
  <2> QED BY <2>3 DEF S
<1> DEFINE n == IF q.images <= 0 THEN 0 ELSE Least(q.images, k)
<1>11. n \in 0..k /\ (n > 0 => n <= q.images) /\ (n < k => n >= q.images)
  <2>1. \A a, b \in Nat : Least(a, b) \in Nat /\ Least(a, b) <= a /\ Least(a, b) <= b /\ (Least(a, b) = a \/ Least(a, b) = b)
    BY DEF Least
  <2>2. CASE q.images <= 0
    BY <1>1, <1>7, <2>2
  <2>3. CASE ~(q.images <= 0)
    <3>1. q.images \in Nat /\ k \in Nat /\ n = Least(q.images, k)
      BY <1>1, <1>5, <1>7, <2>3
    <3> DEFINE images == q.images
    <3>2. images \in Nat /\ k \in Nat /\ n = Least(images, k)
      BY <3>1
    <3> HIDE DEF n, images
    <3>3. n \in Nat /\ n <= images /\ n <= k /\ (n = images \/ n = k)
      BY <2>1, <3>2
    <3>4. n \in 0..k /\ (n > 0 => n <= images) /\ (n < k => n >= images)
      BY <3>2, <3>3
    <3> QED BY <3>4 DEF images
  <2> QED BY <2>2, <2>3
<1>12. chosen = SubSeq(o, 1, n)
  <2>1. CASE q.images <= 0
    <3>1. chosen = <<>> /\ n = 0
      BY <2>1 DEF PruneByImages
    <3>2. SubSeq(o, 1, 0) = <<>>
      BY <1>2
    <3> QED BY <3>1, <3>2
  <2>2. CASE ~(q.images <= 0)
    <3>1. chosen = SubSeq(pruned, 1, n)
      BY <1>8, <2>2 DEF PruneByImages
    <3> HIDE DEF n
    <3>2. k \in 0..L
      BY <1>2, <1>5, <1>7
    <3> QED BY <1>2, <1>8, <1>11, <3>1, <3>2, HeadOfHead DEF L
  <2> QED BY <2>1, <2>2
<1> HIDE DEF n, chosen
<1>13. n \in 0..L /\ \A i \in 2..n : Fit(i)
  BY <1>2, <1>4, <1>5, <1>7, <1>11
<1>14. n > 0 => S(o, n) <= q.budget /\ n <= q.images
  <2> SUFFICES ASSUME n > 0 PROVE S(o, n) <= q.budget
    BY <1>11
  <2>1. k > 0 /\ n <= k /\ k \in 0..m /\ k \in Nat
    BY <1>5, <1>7, <1>11
  <2>2. S(o, k) <= q.budget /\ S(o, n) \in Nat /\ S(o, k) \in Nat /\ S(o, n) <= S(o, k)
    BY <1>7, <1>9, <1>10, <1>11, <2>1
  <2> QED BY <1>1, <2>2
<1>15. n < L => \/ n >= 1 /\ ~Fit(n + 1)
                \/ n = depth
                \/ n >= q.images \/ S(o, n + 1) > q.budget
  <2>1. CASE n < k
    BY <1>11, <2>1
  <2>2. CASE n = k /\ k < m
    <3>1. k + 1 \in 0..m
      BY <1>5, <1>7, <2>2
    <3> QED BY <1>7, <1>9, <2>2, <3>1
  <2>3. CASE n = m
    BY <1>4, <1>5, <2>3
  <2> QED BY <1>5, <1>7, <1>11, <2>1, <2>2, <2>3
<1>16. HeadIsKept(q, o, n)
  BY <1>13, <1>14, <1>15 DEF HeadIsKept, L, Fit, S, cost, depth, sims
<1> QED BY <1>2, <1>12, <1>16 DEF o, chosen, pruned, selected

\* Whatever the candidates, the knobs and the budgets are, the exemplars of a
\* prompt are the most relevant ones that fit, and no fewer than fit
\* (select_icl_examples and the two pruners).
THEOREM ExemplarsHold ==
  ASSUME NEW q, ExemplarsAsked(q)
  PROVE  ExemplarsAreTheMostRelevant(q)
<1> DEFINE o == RelevanceOrder(q.cands, q.has, q.near, TRUE)
           chosen == PruneByImages(PruneByTokens(SelectIcl(q.cands, q.has, q.near, TRUE, q.knobs),
                                                 q.cost, q.budget), q.images)
           gap == q.knobs.gap
           floor == q.knobs.floor
           sims == [i \in DOMAIN o |-> IF o[i] \in q.has THEN q.near[o[i]] ELSE -1]
           sim(i) == IF o[i] \in q.has THEN q.near[o[i]] ELSE -1
           behind(i) == i > 1 /\ \/ gap # NoCap /\ sim(i) < sim(1) - gap
                                 \/ floor # NoCap /\ sim(i) < floor
<1>1. o \in Seq(Int) /\ \E n : HeadIsKept(q, o, n) /\ chosen = SubSeq(o, 1, n)
  BY ExemplarsAreHead
<1> HIDE DEF o, chosen
<1>2. PICK n : HeadIsKept(q, o, n) /\ chosen = SubSeq(o, 1, n)
  BY <1>1
<1>3. /\ n \in 0..Len(o)
      /\ n > 0 => Spent(o, n, q.cost) <= q.budget /\ n <= q.images
      /\ \A i \in 2..n : Fits(sims, gap, floor, i)
      /\ n < Len(o) => \/ n >= 1 /\ ~Fits(sims, gap, floor, n + 1)
                       \/ n = q.knobs.depth
                       \/ n >= q.images \/ Spent(o, n + 1, q.cost) > q.budget
  BY <1>2 DEF HeadIsKept
<1>4. chosen \in Seq(Int) /\ Len(chosen) = n /\ \A i \in 1..n : chosen[i] = o[i]
  <2>1. n \in 0..n
    BY <1>3
  <2> QED BY <1>1, <1>2, <1>3, <2>1, HeadOfHead
<1>5. Len(o) \in Nat /\ DOMAIN o = 1..Len(o) /\ \A i \in 1..Len(o) : sims[i] = sim(i)
  BY <1>1
<1>s. gap \in Int /\ floor \in Int /\ \A i \in 1..Len(o) : sim(i) \in Int
  <2>1. gap \in Int /\ floor \in Int /\ \A k \in ToSet(q.cands) : k \in q.has => q.near[k] \in Int
    BY DEF ExemplarsAsked
  <2>2. q.cands \in Seq(Int) /\ OnceEach(q.cands)
    BY DEF ExemplarsAsked
  <2>3. q.cands \in Seq(ToSet(q.cands)) /\ ToSet(q.cands) \in SUBSET Int
    <3> DEFINE s == q.cands
    <3>1. s \in Seq(Int) /\ DOMAIN s = 1..Len(s) /\ Len(s) \in Nat /\ s = [i \in 1..Len(s) |-> s[i]]
      BY <2>2
    <3> HIDE DEF s
    <3>2. \A i \in 1..Len(s) : s[i] \in ToSet(s) /\ s[i] \in Int
      BY <3>1 DEF ToSet
    <3>3. ToSet(s) \in SUBSET Int
      BY <3>1, <3>2 DEF ToSet
    <3>4. s \in Seq(ToSet(s))
      BY <3>1, <3>2
    <3> QED BY <3>3, <3>4 DEF s
  <2> DEFINE T == ToSet(q.cands)
             cands == q.cands
             has == q.has
             near == q.near
  <2>4. T \in SUBSET Int /\ cands \in Seq(T) /\ OnceEach(cands) /\ (\A k \in T \cap has : near[k] \in Int)
        /\ o = RelevanceOrder(cands, has, near, TRUE)
    BY <2>1, <2>2, <2>3 DEF o
  <2> HIDE DEF T, cands, has, near
  <2>5. o \in Seq(T)
    BY <2>4, RelevanceIs
  <2>6. \A i \in 1..Len(o) : o[i] \in T
    BY <2>5
  <2> QED BY <2>1, <2>6 DEF T
<1> HIDE DEF sims, sim, gap, floor
<1>6. \A i \in 1..Len(o) : i > 1 => (behind(i) <=> ~Fits(sims, gap, floor, i))
  <2> SUFFICES ASSUME NEW i \in 1..Len(o), i > 1 PROVE behind(i) <=> ~Fits(sims, gap, floor, i)
    OBVIOUS
  <2>1. 1 \in 1..Len(o)
    BY <1>5
  <2>2. sims[i] \in Int /\ sims[1] \in Int /\ sims[i] = sim(i) /\ sims[1] = sim(1) /\ gap \in Int /\ floor \in Int
    BY <1>5, <1>s, <2>1
  <2> QED BY <2>2 DEF Fits
<1> HIDE DEF behind
<1>7. IsPrefix(chosen, o)
  <2>1. n \in 0..n /\ n <= Len(o)
    BY <1>3, <1>5
  <2>2. SubSeq(chosen, 1, n) = SubSeq(o, 1, n)
    BY <1>1, <1>2, <1>3, <2>1, HeadOfHead
  <2> QED BY <1>4, <2>1, <2>2 DEF IsPrefix
<1>8. \A i \in 1..n : ~behind(i)
  BY <1>3, <1>5, <1>6 DEF behind
<1>9. n < Len(o) => \/ behind(n + 1) \/ n = q.knobs.depth
                    \/ n >= q.images \/ Spent(o, n + 1, q.cost) > q.budget
  BY <1>3, <1>5, <1>6
<1>10. /\ Range(Bookend(chosen)) = Range(chosen) /\ Len(Bookend(chosen)) = n
       /\ n > 1 => Bookend(chosen)[1] = chosen[1] /\ Bookend(chosen)[n] = chosen[2]
  BY <1>4, BookendIs
<1>11. n > 1 => chosen[1] = o[1] /\ chosen[2] = o[2]
  BY <1>3, <1>4
<1> QED BY <1>3, <1>4, <1>7, <1>8, <1>9, <1>10, <1>11
     DEF ExemplarsAreTheMostRelevant, behind, sim, gap, floor, o, chosen

-----------------------------------------------------------------------------
(* What a host can run.                                                    *)

\* Of n sequences of T, g[i] is the first i behind each other.
FlatBy(g, seqs, n, T) == /\ FlattenSeq(seqs) = g[n] /\ g[0] = <<>>
                         /\ \A i \in 1..n : g[i] = g[i - 1] \o seqs[i]
                         /\ \A i \in 0..n : g[i] \in Seq(T)

SequencesOf(T, seqs, n) == /\ n \in Nat /\ Len(seqs) = n /\ (n = 0 => seqs = <<>>)
                           /\ \A i \in 1..n : seqs[i] \in Seq(T)

\* Sequences behind each other are what is put together one by one.
LEMMA FlattenIs ==
  ASSUME NEW T, NEW seqs, NEW n, SequencesOf(T, seqs, n)
  PROVE  \E g : FlatBy(g, seqs, n, T)
<1>0. n \in Nat /\ Len(seqs) = n /\ (n = 0 => seqs = <<>>) /\ \A i \in 1..n : seqs[i] \in Seq(T)
  BY DEF SequencesOf
<1> USE <1>0
<1>1. CASE n = 0
  <2> DEFINE g == [i \in 0..0 |-> <<>>]
  <2>1. FlattenSeq(seqs) = <<>>
    BY <1>1 DEF FlattenSeq
  <2>2. g[0] = <<>> /\ g[n] = g[0]
    BY <1>1
  <2>3. \A i \in 1..n : FALSE
    BY <1>1
  <2>4. \A i \in 0..n : g[i] \in Seq(T)
    BY <1>1
  <2>5. \A i \in 1..n : g[i] = g[i - 1] \o seqs[i]
    BY <2>3
  <2>6. FlattenSeq(seqs) = g[n]
    BY <2>1, <2>2
  <2> HIDE DEF g
  <2> QED BY <2>2, <2>4, <2>5, <2>6 DEF FlatBy
<1>2. CASE n # 0
  <2> DEFINE Step(i, x) == x \o seqs[i]
             X == [i \in 0..n |-> Seq(T)]
             step == [i \in 1..n |-> [x \in Seq(T) |-> Step(i, x)]]
             flat(g) == [i \in 1..n |-> IF i = 1 THEN seqs[i] ELSE g[i - 1] \o seqs[i]]
  <2>1. \A i \in 1..n : X[i - 1] = Seq(T) /\ X[i] = Seq(T)
    OBVIOUS
  <2>2. \A i \in 1..n : \A x \in Seq(T) : step[i][x] = Step(i, x) /\ Step(i, x) \in Seq(T)
    OBVIOUS
  <2>3. <<>> \in X[0]
    OBVIOUS
  <2>4. PICK f : LoopsBy(f, n, <<>>, step, X)
    <3>1. \A i \in 1..n : \A x \in X[i - 1] : step[i][x] \in X[i]
      <4> HIDE DEF X, step, Step
      <4> QED BY <2>1, <2>2
    <3> HIDE DEF X, step
    <3> QED BY <2>3, <3>1, LoopExists
  <2>5. f[0] = <<>> /\ \A i \in 1..n : f[i - 1] \in Seq(T) /\ f[i] = f[i - 1] \o seqs[i]
    <3> HIDE DEF X, step
    <3> QED BY <2>1, <2>2, <2>4 DEF LoopsBy
  <2> DEFINE h == [i \in 1..n |-> f[i]]
  <2>6. h = flat(h)
    <3>1. \A i \in 1..n : h[i] = IF i = 1 THEN seqs[i] ELSE h[i - 1] \o seqs[i]
      <4> SUFFICES ASSUME NEW i \in 1..n PROVE f[i] = IF i = 1 THEN seqs[i] ELSE h[i - 1] \o seqs[i]
        OBVIOUS
      <4>1. CASE i = 1
        <5>0. 1 \in 1..n /\ 1 - 1 = 0
          BY <4>1
        <5>1. f[1] = f[0] \o seqs[1] /\ seqs[1] \in Seq(T)
          BY <2>5, <5>0
        <5>2. <<>> \o seqs[1] = seqs[1]
          BY <5>1
        <5> QED BY <2>5, <4>1, <5>1, <5>2
      <4>2. CASE i # 1
        <5>1. i - 1 \in 1..n
          BY <4>2
        <5> QED BY <2>5, <4>2, <5>1
      <4> QED BY <4>1, <4>2
    <3> QED BY <3>1
  <2> HIDE DEF h
  <2>7. PICK g : g = flat(g) /\ FlattenSeq(seqs) = g[n]
    <3>1. FlattenSeq(seqs) = (CHOOSE g : g = flat(g))[n]
      BY <1>2 DEF FlattenSeq
    <3> HIDE DEF flat
    <3> QED BY <2>6, <3>1
  <2>8. \A i \in 1..n : g[i] = IF i = 1 THEN seqs[i] ELSE g[i - 1] \o seqs[i]
    BY <2>7
  <2> DEFINE k == [i \in 0..n |-> IF i = 0 THEN <<>> ELSE g[i]]
  <2>9. k[0] = <<>> /\ (\A i \in 1..n : k[i] = g[i] /\ k[i - 1] = IF i = 1 THEN <<>> ELSE g[i - 1]) /\ k[n] = g[n]
    BY <1>2
  <2> HIDE DEF k
  <2>10. \A i \in 1..n : k[i] = k[i - 1] \o seqs[i]
    <3> SUFFICES ASSUME NEW i \in 1..n PROVE k[i] = k[i - 1] \o seqs[i]
      OBVIOUS
    <3>1. seqs[i] \in Seq(T) /\ <<>> \o seqs[i] = seqs[i]
      OBVIOUS
    <3> QED BY <2>8, <2>9, <3>1
  <2>11. \A i \in 0..n : k[i] \in X[i]
    <3>1. \A i \in 1..n : k[i - 1] \in X[i - 1] => k[i] \in X[i]
      <4> SUFFICES ASSUME NEW i \in 1..n, k[i - 1] \in Seq(T) PROVE k[i] \in Seq(T)
        OBVIOUS
      <4>1. k[i] = k[i - 1] \o seqs[i] /\ seqs[i] \in Seq(T)
        BY <2>10
      <4>2. ASSUME NEW a \in Seq(T), NEW b \in Seq(T) PROVE a \o b \in Seq(T)
        OBVIOUS
      <4> QED BY <4>1, <4>2
    <3>2. k[0] \in X[0]
      BY <2>3, <2>9
    <3> HIDE DEF X
    <3> QED BY <3>1, <3>2, LoopKeeps
  <2>12. FlattenSeq(seqs) = k[n] /\ \A i \in 0..n : k[i] \in Seq(T)
    BY <2>7, <2>9, <2>11
  <2> HIDE DEF X
  <2> QED BY <2>9, <2>10, <2>12 DEF FlatBy
<1> QED BY <1>1, <1>2

\* What is in two sequences is in one of them.
LEMMA BothTogether ==
  ASSUME NEW T, NEW s \in Seq(T), NEW t \in Seq(T)
  PROVE  s \o t \in Seq(T) /\ ToSet(s \o t) = ToSet(s) \cup ToSet(t)
<1> DEFINE u == s \o t
           m == Len(s)
           k == Len(t)
<1>1. /\ u \in Seq(T) /\ Len(u) = m + k
      /\ \A i \in 1..(m + k) : u[i] = IF i <= m THEN s[i] ELSE t[i - m]
  BY ConcatProperties
<1>2. DOMAIN u = 1..(m + k) /\ DOMAIN s = 1..m /\ DOMAIN t = 1..k /\ m \in Nat /\ k \in Nat
  BY <1>1
<1> HIDE DEF u, m, k
<1>3. \A i \in 1..(m + k) : i \in 1..m \/ (~(i <= m) /\ i - m \in 1..k)
  BY <1>2
<1>4. \A i \in 1..m : i \in 1..(m + k) /\ u[i] = s[i]
  BY <1>1, <1>2
<1>5. \A i \in 1..k : i + m \in 1..(m + k) /\ u[i + m] = t[i]
  <2> SUFFICES ASSUME NEW i \in 1..k PROVE i + m \in 1..(m + k) /\ u[i + m] = t[i]
    OBVIOUS
  <2>1. i + m \in 1..(m + k) /\ ~(i + m <= m) /\ (i + m) - m = i
    BY <1>2
  <2> QED BY <1>1, <2>1
<1>6. /\ ToSet(u) = {u[i] : i \in 1..(m + k)}
      /\ ToSet(s) = {s[i] : i \in 1..m} /\ ToSet(t) = {t[i] : i \in 1..k}
  BY <1>2 DEF ToSet
<1>7. ToSet(u) \subseteq ToSet(s) \cup ToSet(t)
  BY <1>1, <1>3, <1>6
<1>8. ToSet(s) \subseteq ToSet(u) /\ ToSet(t) \subseteq ToSet(u)
  BY <1>4, <1>5, <1>6
<1>9. ToSet(u) = ToSet(s) \cup ToSet(t)
  BY <1>7, <1>8
<1> QED BY <1>1, <1>9 DEF u

\* What is in many sequences behind each other is in one of them.
LEMMA FlattenHas ==
  ASSUME NEW T, NEW seqs, NEW n, SequencesOf(T, seqs, n)
  PROVE  FlattenSeq(seqs) \in Seq(T) /\ ToSet(FlattenSeq(seqs)) = UNION {ToSet(seqs[i]) : i \in 1..n}
<1>0. n \in Nat /\ \A i \in 1..n : seqs[i] \in Seq(T)
  BY DEF SequencesOf
<1>1. PICK g : FlatBy(g, seqs, n, T)
  BY FlattenIs
<1>p. /\ FlattenSeq(seqs) = g[n] /\ g[0] = <<>>
      /\ \A i \in 1..n : g[i] = g[i - 1] \o seqs[i]
      /\ \A i \in 0..n : g[i] \in Seq(T)
  BY <1>1 DEF FlatBy
<1> DEFINE Upto(i) == UNION {ToSet(seqs[j]) : j \in 1..i}
           X == [i \in 0..n |-> {s \in Seq(T) : ToSet(s) = Upto(i)}]
<1>2. g[0] \in X[0]
  <2>1. ToSet(<<>>) = {} /\ 1..0 = {}
    BY DEF ToSet
  <2>2. Upto(0) = {}
    BY <2>1
  <2>3. 0 \in 0..n /\ g[0] = <<>> /\ <<>> \in Seq(T)
    BY <1>0, <1>p
  <2> HIDE DEF Upto
  <2>4. X[0] = {s \in Seq(T) : ToSet(s) = Upto(0)}
    BY <2>3
  <2> QED BY <2>1, <2>2, <2>3, <2>4
<1>3. ASSUME NEW i \in 1..n, g[i - 1] \in X[i - 1] PROVE g[i] \in X[i]
  <2>1. i - 1 \in 0..n /\ i \in 0..n
    BY <1>0
  <2>2. g[i - 1] \in Seq(T) /\ ToSet(g[i - 1]) = Upto(i - 1) /\ seqs[i] \in Seq(T) /\ g[i] = g[i - 1] \o seqs[i]
    BY <1>0, <1>p, <1>3, <2>1
  <2> HIDE DEF Upto
  <2>3. g[i] \in Seq(T) /\ ToSet(g[i]) = ToSet(g[i - 1]) \cup ToSet(seqs[i])
    BY <2>2, BothTogether
  <2>4. 1..i = (1..(i - 1)) \cup {i}
    OBVIOUS
  <2>5. Upto(i) = Upto(i - 1) \cup ToSet(seqs[i])
    BY <2>4 DEF Upto
  <2>6. X[i] = {s \in Seq(T) : ToSet(s) = Upto(i)}
    BY <2>1
  <2> QED BY <2>2, <2>3, <2>5, <2>6
<1>4. \A i \in 0..n : g[i] \in X[i]
  <2> HIDE DEF X
  <2> QED BY <1>0, <1>2, <1>3, LoopKeeps
<1>5. n \in 0..n
  BY <1>0
<1> QED BY <1>p, <1>4, <1>5

\* Some of a sequence.
LEMMA AmongIs ==
  ASSUME NEW T, NEW seq \in Seq(T), NEW S
  PROVE  /\ Among(seq, S) \in Seq(T) /\ ToSet(Among(seq, S)) = ToSet(seq) \cap S
         /\ Among(seq, S) = <<>> <=> ToSet(seq) \cap S = {}
         /\ Among(seq, S) # <<>> => Head(Among(seq, S)) \in ToSet(seq) \cap S
<1> DEFINE A == {i \in DOMAIN seq : seq[i] \in S}
           r == Among(seq, S)
<1>1. A \in SUBSET DOMAIN seq /\ {seq[k] : k \in A} = ToSet(seq) \cap S /\ r = AtPositions(seq, A)
  BY DEF ToSet, Among
<1> HIDE DEF A, r
<1>2. r \in Seq(T) /\ ToSet(r) = ToSet(seq) \cap S
  BY <1>1, ReadOut
<1>3. r = <<>> <=> ToSet(r) = {}
  <2>1. DOMAIN r = 1..Len(r) /\ Len(r) \in Nat /\ (r # <<>> => Len(r) # 0)
    BY <1>2
  <2>2. r # <<>> => 1 \in DOMAIN r
    BY <2>1
  <2>3. r = <<>> => DOMAIN r = {}
    OBVIOUS
  <2> QED BY <2>2, <2>3 DEF ToSet
<1>4. r # <<>> => Head(r) \in ToSet(r)
  <2> SUFFICES ASSUME r # <<>> PROVE Head(r) \in ToSet(r)
    OBVIOUS
  <2>1. Head(r) = r[1] /\ 1 \in DOMAIN r
    BY <1>2
  <2> QED BY <2>1 DEF ToSet
<1> QED BY <1>2, <1>3, <1>4 DEF r

Gpus == [mem : Nat, cc : Int, supported : BOOLEAN]

\* What is in a sequence is told by itself.
IsSequence(s) == s \in Seq(ToSet(s))
HostParts(h) == h.gpus \in Seq(Gpus) /\ IsSequence(h.rows)

\* The deployments that run or start on a device of a host.
Standing(h) == {row \in ToSet(h.rows) : /\ row.device \in DOMAIN h.gpus /\ row.status \in {"starting", "running"}
                                       /\ row.project \notin h.archived}

\* The residents are the deployments that stand on the devices.
LEMMA ResidentsAre ==
  ASSUME NEW h, HostParts(h)
  PROVE  Residents(h) \in Seq(ToSet(h.rows)) /\ ToSet(Residents(h)) = Standing(h)
<1> DEFINE rs == h.rows
           gpus == h.gpus
           On(d) == {row \in ToSet(rs) : /\ row.device = d /\ row.status \in {"starting", "running"}
                                         /\ row.project \notin h.archived}
           seqs == [d \in DOMAIN gpus |-> Among(rs, On(d))]
           n == Len(gpus)
<1>1. n \in Nat /\ DOMAIN gpus = 1..n /\ rs \in Seq(ToSet(rs))
  BY DEF HostParts, IsSequence
<1>2. Residents(h) = FlattenSeq(seqs)
  <2> DEFINE Here(d) == Filtered(rs, LAMBDA row : /\ row.device = d /\ row.status \in {"starting", "running"}
                                                  /\ row.project \notin h.archived)
  <2>1. \A d : Here(d) = Among(rs, On(d))
    <3> SUFFICES ASSUME NEW d PROVE Here(d) = Among(rs, On(d))
      OBVIOUS
    <3>1. {i \in DOMAIN rs : rs[i] \in On(d)}
            = {i \in DOMAIN rs : /\ rs[i].device = d /\ rs[i].status \in {"starting", "running"}
                                 /\ rs[i].project \notin h.archived}
      BY DEF ToSet
    <3> HIDE DEF On
    <3> QED BY <3>1 DEF Filtered, Among
  <2>2. Residents(h) = FlattenSeq([d \in DOMAIN gpus |-> Here(d)])
    BY DEF Residents
  <2> HIDE DEF Here, On
  <2>3. [d \in DOMAIN gpus |-> Here(d)] = seqs
    BY <2>1
  <2> QED BY <2>2, <2>3
<1> HIDE DEF On
<1>3. Len(seqs) = n /\ (\A i \in 1..n : seqs[i] = Among(rs, On(i))) /\ (n = 0 => seqs = <<>>)
  BY <1>1
<1> HIDE DEF seqs, rs, gpus, n
<1>4. \A i \in 1..n : seqs[i] \in Seq(ToSet(rs)) /\ ToSet(seqs[i]) = ToSet(rs) \cap On(i)
  BY <1>1, <1>3, AmongIs
<1>s. SequencesOf(ToSet(rs), seqs, n)
  BY <1>1, <1>3, <1>4 DEF SequencesOf
<1>5. FlattenSeq(seqs) \in Seq(ToSet(rs)) /\ ToSet(FlattenSeq(seqs)) = UNION {ToSet(seqs[i]) : i \in 1..n}
  BY <1>s, FlattenHas
<1>6. UNION {ToSet(seqs[i]) : i \in 1..n} = Standing(h)
  <2>1. UNION {ToSet(seqs[i]) : i \in 1..n} = UNION {ToSet(rs) \cap On(i) : i \in 1..n}
    BY <1>4
  <2>2. UNION {ToSet(rs) \cap On(i) : i \in 1..n} = Standing(h)
    BY <1>1 DEF On, Standing, rs, gpus
  <2> QED BY <2>1, <2>2
<1> QED BY <1>2, <1>5, <1>6 DEF rs

\* A sequence of a type is one of what is in it.
LEMMA SequenceOfItself ==
  ASSUME NEW T, NEW s \in Seq(T)
  PROVE  IsSequence(s) /\ ToSet(s) \subseteq T
<1>1. s = [i \in 1..Len(s) |-> s[i]] /\ Len(s) \in Nat /\ DOMAIN s = 1..Len(s)
  OBVIOUS
<1>2. \A i \in 1..Len(s) : s[i] \in ToSet(s) /\ s[i] \in T
  BY <1>1 DEF ToSet
<1>3. [i \in 1..Len(s) |-> s[i]] \in Seq(ToSet(s))
  BY <1>1, <1>2
<1>4. ToSet(s) \subseteq T
  BY <1>1, <1>2 DEF ToSet
<1> QED BY <1>1, <1>3, <1>4 DEF IsSequence

\* Who stands on device d; who of them runs a container for m.
At(h, d) == {row \in Standing(h) : row.device = d}
Running(h, m) == {row \in Standing(h) : row.status = "running" /\ Serves(row, m)}

\* Picked from the residents of a host, there are those that are meant.
LEMMA SomeResidents ==
  ASSUME NEW h, HostParts(h), NEW S, NEW s, s = Among(Residents(h), S)
  PROVE  /\ ToSet(s) = Standing(h) \cap S
         /\ s = <<>> <=> Standing(h) \cap S = {}
         /\ s # <<>> => Head(s) \in Standing(h) \cap S
<1>1. Residents(h) \in Seq(ToSet(h.rows)) /\ ToSet(Residents(h)) = Standing(h)
  BY ResidentsAre
<1> QED BY <1>1, AmongIs

\* The occupants of a device.
LEMMA OccupantsAre ==
  ASSUME NEW h, HostParts(h), NEW d
  PROVE  /\ ToSet(Occupants(h, d)) = At(h, d)
         /\ Occupants(h, d) = <<>> <=> At(h, d) = {}
         /\ Occupants(h, d) # <<>> => Head(Occupants(h, d)) \in At(h, d)
         /\ RolesOn(h, d) = {row.role : row \in At(h, d)}
<1> DEFINE rs == Residents(h)
           S == {row \in ToSet(rs) : row.device = d}
<1>1. {i \in DOMAIN rs : rs[i] \in S} = {i \in DOMAIN rs : rs[i].device = d}
  BY DEF ToSet
<1>2. ToSet(rs) = Standing(h)
  BY ResidentsAre
<1>3. Standing(h) \cap S = At(h, d)
  BY <1>2 DEF At
<1>4. Occupants(h, d) = Among(Residents(h), S)
  <2>1. Occupants(h, d) = AtPositions(rs, {i \in DOMAIN rs : rs[i].device = d})
    BY DEF Occupants, Filtered
  <2> HIDE DEF S
  <2> QED BY <1>1, <2>1 DEF Among
<1> HIDE DEF S
<1>5. /\ ToSet(Occupants(h, d)) = At(h, d)
      /\ Occupants(h, d) = <<>> <=> At(h, d) = {}
      /\ Occupants(h, d) # <<>> => Head(Occupants(h, d)) \in At(h, d)
  <2> DEFINE s == Occupants(h, d)
  <2>1. s = Among(Residents(h), S)
    BY <1>4
  <2> HIDE DEF s
  <2>2. /\ ToSet(s) = Standing(h) \cap S
        /\ s = <<>> <=> Standing(h) \cap S = {}
        /\ s # <<>> => Head(s) \in Standing(h) \cap S
    BY <2>1, SomeResidents
  <2> QED BY <1>3, <2>2 DEF s
<1>6. Range(Occupants(h, d)) = ToSet(Occupants(h, d))
  BY DEF Range, ToSet
<1> QED BY <1>5, <1>6 DEF RolesOn

\* The running deployments of a model.
LEMMA ReusableAre ==
  ASSUME NEW h, HostParts(h), NEW m
  PROVE  /\ Reusable(h, m) = <<>> <=> Running(h, m) = {}
         /\ Reusable(h, m) # <<>> => Head(Reusable(h, m)) \in Running(h, m)
<1> DEFINE rs == Residents(h)
           S == {row \in ToSet(rs) : row.status = "running" /\ Serves(row, m)}
<1>1. {i \in DOMAIN rs : rs[i] \in S} = {i \in DOMAIN rs : rs[i].status = "running" /\ Serves(rs[i], m)}
  BY DEF ToSet
<1>2. ToSet(rs) = Standing(h)
  BY ResidentsAre
<1>3. Standing(h) \cap S = Running(h, m)
  BY <1>2 DEF Running
<1>4. Reusable(h, m) = Among(Residents(h), S)
  <2>1. Reusable(h, m) = AtPositions(rs, {i \in DOMAIN rs : rs[i].status = "running" /\ Serves(rs[i], m)})
    BY DEF Reusable, Filtered
  <2> HIDE DEF S
  <2> QED BY <1>1, <2>1 DEF Among
<1> HIDE DEF S
<1> QED BY <1>3, <1>4, SomeResidents

\* Of the devices that are free and those that do, the first is taken.
LEMMA LowestIs ==
  ASSUME NEW n \in Nat, NEW S \in SUBSET (1..n)
  PROVE  /\ Lowest(S) = NoCap <=> S = {}
         /\ S # {} => Lowest(S) \in S /\ \A d \in S : Lowest(S) <= d
<1>1. IsFiniteSet(S) /\ S \in SUBSET Int /\ NoCap \notin S
  <2>1. IsFiniteSet(1..n)
    BY FS_Interval
  <2>2. IsFiniteSet(S)
    BY <2>1, FS_Subset
  <2>3. S \in SUBSET Int /\ NoCap \notin S
    BY DEF NoCap
  <2> QED BY <2>2, <2>3
<1>2. S # {} => Min(S) \in S /\ \A d \in S : Min(S) <= d
  BY <1>1, MinIsLeast
<1> QED BY <1>1, <1>2 DEF Lowest

\* The first check that fails is what a preflight tells.
LEMMA PreflightTells ==
  ASSUME NEW h, NEW r, NEW d
  PROVE  Preflight(h, r, d) = "passed"
           \/ \E check \in ToSet(Checks(h, r, d)) : ~check[2] /\ Preflight(h, r, d) = check[1]
<1> DEFINE cs == Checks(h, r, d)
           S == {check \in ToSet(cs) : ~check[2]}
           failed == Filtered(cs, LAMBDA check : ~check[2])
<1>1. failed = Among(cs, S)
  <2>1. {i \in DOMAIN cs : cs[i] \in S} = {i \in DOMAIN cs : ~cs[i][2]}
    BY DEF ToSet
  <2>2. failed = AtPositions(cs, {i \in DOMAIN cs : ~cs[i][2]})
    BY DEF Filtered
  <2> HIDE DEF S, cs, failed
  <2> QED BY <2>1, <2>2 DEF Among
<1>2. cs \in Seq(ToSet(cs))
  <2> DEFINE a == <<"docker", h.docker>>
             b == <<"toolkit", h.toolkit>>
             c == <<"gpu", MeetsMemory(h.gpus[d].mem, r.model.floor) /\ MeetsCapability(h.gpus[d], r.model)>>
             e == <<"key", h.ngcKey>>
             f == <<"login", h.ngcKey /\ h.login>>
             g == <<"image", h.pulls>>
             k == <<"profile", ProfileFits(h, r)>>
  <2>1. cs = <<a, b, c, e, f, g, k>>
    BY DEF Checks
  <2> HIDE DEF a, b, c, e, f, g, k
  <2>2. <<a, b, c, e, f, g, k>> \in Seq({a, b, c, e, f, g, k})
    OBVIOUS
  <2> HIDE DEF cs
  <2> QED BY <2>1, <2>2, SequenceOfItself DEF IsSequence
<1>3. Preflight(h, r, d) = IF failed = <<>> THEN "passed" ELSE Head(failed)[1]
  BY DEF Preflight
<1> HIDE DEF S, cs, failed
<1>4. failed # <<>> => Head(failed) \in ToSet(cs) \cap S
  BY <1>1, <1>2, AmongIs
<1>5. \A check \in ToSet(cs) \cap S : ~check[2]
  BY DEF S
<1> QED BY <1>3, <1>4, <1>5 DEF cs

\* The rounding of a placement is all that can stand between it and the preflight.
LEMMA FloorsSuffice ==
  ASSUME NEW h, HostParts(h), NEW r, NEW d \in DOMAIN h.gpus, r.model.floor \in Nat, MeetsFloors(h.gpus[d], r.model)
  PROVE  GpuSuffices(h, r, d)
<1> DEFINE mem == h.gpus[d].mem
           most == Tenths(mem)
           floor == r.model.floor
           fits == MeetsMemory(mem, floor)
           capable == MeetsCapability(h.gpus[d], r.model)
<1>1. MeetsMemory(most, floor) /\ capable
  BY DEF MeetsFloors
<1>2. mem \in Nat /\ most \in Int /\ floor \in Nat
  <2>1. mem \in Nat
    <3>1. h.gpus \in Seq(Gpus)
      BY DEF HostParts
    <3>2. h.gpus[d] \in Gpus
      BY <3>1
    <3> QED BY <3>2 DEF Gpus
  <2>2. Tenths(mem) \in Int
    BY <2>1 DEF Tenths
  <2> QED BY <2>1, <2>2
<1>3. Preflight(h, r, d) = "gpu" => ~(fits /\ capable)
  <2> SUFFICES ASSUME Preflight(h, r, d) = "gpu" PROVE ~(fits /\ capable)
    OBVIOUS
  <2>1. PICK check \in ToSet(Checks(h, r, d)) : ~check[2] /\ check[1] = "gpu"
    BY PreflightTells
  <2>2. check = <<"gpu", fits /\ capable>>
    BY <2>1 DEF Checks, ToSet
  <2> HIDE DEF fits, capable
  <2> QED BY <2>1, <2>2
<1> HIDE DEF mem, most, floor, capable
<1>4. ~fits => mem < most
  BY <1>1, <1>2 DEF MeetsMemory
<1> HIDE DEF fits
<1> QED BY <1>1, <1>3, <1>4 DEF GpuSuffices, mem, most

\* The devices nobody is on.
LEMMA FreeAre ==
  ASSUME NEW h, HostParts(h)
  PROVE  FreeDevices(h) = {d \in DOMAIN h.gpus : At(h, d) = {}}
<1>1. \A d : Occupants(h, d) = <<>> <=> At(h, d) = {}
  BY OccupantsAre
<1> QED BY <1>1 DEF FreeDevices

\* Where a deployment for any device goes: the first that is free and does.
Open(h, r) == Qualifying(h, r) \cap FreeDevices(h)

\* It is there if there is any such device; so is the one to take over.
LEMMA PlacedIs ==
  ASSUME NEW h, HostParts(h), NEW r, r.device = NoCap
  PROVE  /\ Placed(h, r) = NoCap <=> Open(h, r) = {}
         /\ Open(h, r) # {} => Placed(h, r) \in Open(h, r) /\ \A d \in Open(h, r) : Placed(h, r) <= d
         /\ ReplaceTarget(h, r) = NoCap <=> Qualifying(h, r) = {}
         /\ Qualifying(h, r) # {} => ReplaceTarget(h, r) \in Qualifying(h, r)
<1> DEFINE n == Len(h.gpus)
<1>1. n \in Nat /\ DOMAIN h.gpus = 1..n
  BY DEF HostParts
<1>2. Qualifying(h, r) \in SUBSET (1..n) /\ Open(h, r) \in SUBSET (1..n)
  BY <1>1 DEF Open, Qualifying
<1> HIDE DEF n
<1>3. /\ Lowest(Open(h, r)) = NoCap <=> Open(h, r) = {}
      /\ Open(h, r) # {} => Lowest(Open(h, r)) \in Open(h, r) /\ \A d \in Open(h, r) : Lowest(Open(h, r)) <= d
  BY <1>1, <1>2, LowestIs
<1>4. /\ Lowest(Qualifying(h, r)) = NoCap <=> Qualifying(h, r) = {}
      /\ Qualifying(h, r) # {} => Lowest(Qualifying(h, r)) \in Qualifying(h, r)
  BY <1>1, <1>2, LowestIs
<1>5. Placed(h, r) = Lowest(Open(h, r)) /\ ReplaceTarget(h, r) = Lowest(Qualifying(h, r))
  BY DEF Placed, ReplaceTarget, Open
<1> QED BY <1>3, <1>4, <1>5

\* What can be said of the device that is taken.
LEMMA PlacedSuits ==
  ASSUME NEW h, HostParts(h), NEW r, r.device = NoCap, r.model.floor \in Nat
  PROVE  /\ Placed(h, r) # NoCap =>
              /\ Placed(h, r) \in DOMAIN h.gpus /\ Occupants(h, Placed(h, r)) = <<>>
              /\ GpuSuffices(h, r, Placed(h, r))
              /\ \A d \in 1..(Placed(h, r) - 1) : Occupants(h, d) = <<>> => ~MeetsFloors(h.gpus[d], r.model)
         /\ ReplaceTarget(h, r) # NoCap =>
              /\ ReplaceTarget(h, r) \in DOMAIN h.gpus /\ GpuSuffices(h, r, ReplaceTarget(h, r))
              /\ Placed(h, r) = NoCap => Occupants(h, ReplaceTarget(h, r)) # <<>>
<1> DEFINE p == Placed(h, r)
           t == ReplaceTarget(h, r)
           n == Len(h.gpus)
<1>1. n \in Nat /\ DOMAIN h.gpus = 1..n
  BY DEF HostParts
<1>2. /\ p = NoCap <=> Open(h, r) = {}
      /\ Open(h, r) # {} => p \in Open(h, r) /\ \A d \in Open(h, r) : p <= d
      /\ t = NoCap <=> Qualifying(h, r) = {}
      /\ Qualifying(h, r) # {} => t \in Qualifying(h, r)
  BY PlacedIs
<1> HIDE DEF p, t, n
<1>3. /\ \A d : d \in Qualifying(h, r) <=> d \in 1..n /\ MeetsFloors(h.gpus[d], r.model)
      /\ \A d : d \in FreeDevices(h) <=> d \in 1..n /\ Occupants(h, d) = <<>>
      /\ \A d : d \in Open(h, r) <=> d \in Qualifying(h, r) /\ d \in FreeDevices(h)
  BY <1>1 DEF Qualifying, FreeDevices, Open
<1>4. ASSUME p # NoCap
      PROVE  /\ p \in DOMAIN h.gpus /\ Occupants(h, p) = <<>> /\ GpuSuffices(h, r, p)
             /\ \A d \in 1..(p - 1) : Occupants(h, d) = <<>> => ~MeetsFloors(h.gpus[d], r.model)
  <2>1. p \in 1..n /\ Occupants(h, p) = <<>> /\ MeetsFloors(h.gpus[p], r.model)
    BY <1>2, <1>3, <1>4
  <2>2. GpuSuffices(h, r, p)
    BY <1>1, <2>1, FloorsSuffice
  <2>3. ASSUME NEW d \in 1..(p - 1), Occupants(h, d) = <<>>, MeetsFloors(h.gpus[d], r.model) PROVE FALSE
    <3>1. d \in 1..n /\ ~(p <= d)
      BY <1>1, <2>1
    <3>2. d \in Open(h, r)
      BY <1>3, <2>3, <3>1
    <3> QED BY <1>2, <3>1, <3>2
  <2> QED BY <1>1, <2>1, <2>2, <2>3
<1>5. ASSUME t # NoCap
      PROVE  t \in DOMAIN h.gpus /\ GpuSuffices(h, r, t) /\ (p = NoCap => Occupants(h, t) # <<>>)
  <2>1. t \in 1..n /\ MeetsFloors(h.gpus[t], r.model) /\ t \in Qualifying(h, r)
    BY <1>2, <1>3, <1>5
  <2>2. GpuSuffices(h, r, t)
    BY <1>1, <2>1, FloorsSuffice
  <2>3. p = NoCap => Occupants(h, t) # <<>>
    BY <1>2, <1>3, <2>1
  <2> QED BY <1>1, <2>1, <2>2, <2>3
<1> QED BY <1>4, <1>5 DEF p, t

\* What becomes of a deployment, told by the guards of Deploy.
Reuses(h, r) == IF r.role = "teacher" /\ ~r.replace THEN Reusable(h, r.model) ELSE <<>>

\* The answers to a deployment, each with its condition.
LEMMA DeployIs ==
  ASSUME NEW h, HostParts(h), NEW r
  PROVE  \/ r.model.runtime = NoKey /\ Deploy(h, r) = Accepted("invalid", NoCap, <<>>)
         \/ /\ r.model.runtime # NoKey /\ Reuses(h, r) # <<>>
            /\ Deploy(h, r) = Accepted("reused", Head(Reuses(h, r)).device, Reuses(h, r))
         \/ /\ r.model.runtime # NoKey /\ Reuses(h, r) = <<>>
            /\ \/ r.device = NoCap /\ h.gpus = <<>> /\ Deploy(h, r) = Accepted("invalid", NoCap, <<>>)
               \/ /\ ~(r.device = NoCap /\ h.gpus = <<>>)
                  /\ \/ /\ Placed(h, r) = NoCap /\ ~r.replace
                        /\ Deploy(h, r) = Refusal(h, r, ReplaceTarget(h, r))
                     \/ /\ Placed(h, r) = NoCap /\ r.replace /\ ReplaceTarget(h, r) = NoCap
                        /\ Deploy(h, r) = Accepted("refused", NoCap, <<>>)
                     \/ /\ Placed(h, r) = NoCap /\ r.replace /\ ReplaceTarget(h, r) # NoCap
                        /\ Deploy(h, r) = Accepted("queued", ReplaceTarget(h, r), Occupants(h, ReplaceTarget(h, r)))
                     \/ /\ Placed(h, r) # NoCap /\ Occupants(h, Placed(h, r)) # <<>> /\ ~r.replace
                        /\ Deploy(h, r) = Refusal(h, r, Placed(h, r))
                     \/ /\ Placed(h, r) # NoCap /\ (Occupants(h, Placed(h, r)) = <<>> \/ r.replace)
                        /\ Deploy(h, r) = Accepted("queued", Placed(h, r), Occupants(h, Placed(h, r)))
<1> DEFINE reused == Reuses(h, r)
           placed == Placed(h, r)
           target == ReplaceTarget(h, r)
           device == IF placed = NoCap /\ r.replace THEN target ELSE placed
           onNone == IF r.replace THEN Accepted("refused", NoCap, <<>>) ELSE Refusal(h, r, target)
           other == IF r.device = NoCap /\ h.gpus = <<>> THEN Accepted("invalid", NoCap, <<>>)
                    ELSE IF device = NoCap THEN onNone
                    ELSE IF Occupants(h, device) # <<>> /\ ~r.replace THEN Refusal(h, r, device)
                    ELSE Accepted("queued", device, Occupants(h, device))
<1>1. Deploy(h, r) = CASE r.model.runtime = NoKey -> Accepted("invalid", NoCap, <<>>)
                       [] r.model.runtime # NoKey /\ reused # <<>> ->
                            Accepted("reused", Head(reused).device, reused)
                       [] OTHER -> other
  BY DEF Deploy, Reuses
<1> HIDE DEF other, reused
<1>2. CASE r.model.runtime = NoKey
  BY <1>1, <1>2
<1>3. CASE r.model.runtime # NoKey /\ reused # <<>>
  BY <1>1, <1>3 DEF reused
<1>4. CASE r.model.runtime # NoKey /\ reused = <<>>
  <2>1. Deploy(h, r) = other
    BY <1>1, <1>4
  <2> QED BY <2>1, <1>4 DEF other, reused
<1> QED BY <1>2, <1>3, <1>4

\* A GPU that is chosen is free and large enough.
LEMMA ChosenGpuSuits ==
  ASSUME NEW h, HostParts(h), NEW r, r = Asks(r.role, r.model, r.device, FALSE), r.model.floor \in Nat
  PROVE  PlacementHolds(h, r)
<1> DEFINE w == Replacing(r)
           a == Deploy(h, r)
           b == Deploy(h, w)
           p == Placed(h, r)
           t == ReplaceTarget(h, r)
<1>1. /\ w.role = r.role /\ w.model = r.model /\ w.device = r.device /\ w.replace = TRUE
      /\ r.replace = FALSE
  BY DEF Asks, Replacing
<1>2. Placed(h, w) = p /\ ReplaceTarget(h, w) = t /\ Reuses(h, w) = <<>>
  BY <1>1 DEF Placed, ReplaceTarget, Qualifying, Reuses
<1>3. \A d : GpuSuffices(h, w, d) <=> GpuSuffices(h, r, d)
  BY <1>1 DEF GpuSuffices, Preflight, Checks, ProfileFits
<1> SUFFICES ASSUME r.device = NoCap
             PROVE  /\ a.answer = "queued" =>
                         /\ a.rows = <<>> /\ GpuSuffices(h, r, a.device)
                         /\ \A d \in 1..(a.device - 1) : Occupants(h, d) = <<>> => ~MeetsFloors(h.gpus[d], r.model)
                         /\ b = a /\ DryRun(h, r) # "placement"
                    /\ b.answer = "queued" => GpuSuffices(h, r, b.device)
                    /\ b.answer = "queued" /\ b.rows # <<>> => Placed(h, r) = NoCap
  BY DEF PlacementHolds
<1>4. /\ p # NoCap =>
              /\ p \in DOMAIN h.gpus /\ Occupants(h, p) = <<>> /\ GpuSuffices(h, r, p)
              /\ \A d \in 1..(p - 1) : Occupants(h, d) = <<>> => ~MeetsFloors(h.gpus[d], r.model)
      /\ t # NoCap =>
              /\ t \in DOMAIN h.gpus /\ GpuSuffices(h, r, t) /\ (p = NoCap => Occupants(h, t) # <<>>)
  BY PlacedSuits
<1>5. \A x, d, s : /\ Accepted(x, d, s).answer = x /\ Accepted(x, d, s).device = d /\ Accepted(x, d, s).rows = s
                   /\ Refusal(h, r, d).answer # "queued"
  BY DEF Accepted, Refusal
<1>6. p # NoCap => DryRun(h, r) # "placement"
  <2>1. Preflight(h, r, p) # "placement"
    <3>1. \A check \in ToSet(Checks(h, r, p)) : check[1] # "placement"
      BY DEF Checks, ToSet
    <3> QED BY <3>1, PreflightTells
  <2> QED BY <2>1 DEF DryRun
<1>7. a.answer = "queued" => /\ r.model.runtime # NoKey /\ h.gpus # <<>> /\ p # NoCap
                             /\ a = Accepted("queued", p, Occupants(h, p))
  <2> HIDE DEF p, t
  <2> QED BY <1>1, <1>5, DeployIs DEF p
<1>8. b.answer = "queued" => /\ r.model.runtime # NoKey /\ h.gpus # <<>>
                             /\ \/ p # NoCap /\ b = Accepted("queued", p, Occupants(h, p))
                                \/ p = NoCap /\ t # NoCap /\ b = Accepted("queued", t, Occupants(h, t))
  <2> HIDE DEF p, t, w
  <2> QED BY <1>1, <1>2, <1>5, DeployIs
<1>9. r.model.runtime # NoKey /\ h.gpus # <<>> /\ p # NoCap => b = Accepted("queued", p, Occupants(h, p))
  <2> HIDE DEF p, t, w
  <2> QED BY <1>1, <1>2, <1>5, DeployIs
<1> HIDE DEF a, b, p, t, w
<1> QED BY <1>4, <1>5, <1>6, <1>7, <1>8, <1>9 DEF p

NimModels == [name : Nat \ {NoKey}, rank : Int, floor : Nat, cc : Int,
              roles : SUBSET {"teacher", "student_base", "embedding"}, runtime : Nat, shared : BOOLEAN]
NimRows == [id : Nat, project : Nat, device : Nat \ {NoKey}, role : {"teacher", "student", "embedding"},
            name : Nat \ {NoKey}, runtime : Nat \ {NoKey}, status : {"starting", "running", "failed", "stopped"}]
Followings == [model : NimModels, mode : {"local", "user"}, to : Nat, up : BOOLEAN]

HostFields == {"gpus", "catalog", "embedding", "rows", "projects", "archived", "docker", "toolkit", "hostedKey",
               "ngcKey", "optedOut", "login", "pulls", "probe"}

\* A host as it can be: a model is told by its name; the embedding model is no
\* Teacher, has a container and asks for no capability; the device of a
\* deployment is there.
HostAsked(h) ==
  /\ HostFields \subseteq DOMAIN h
  /\ h.gpus \in Seq(Gpus) /\ h.rows \in Seq(NimRows)
  /\ h.catalog \in SUBSET NimModels /\ \A m, n \in h.catalog : m.name = n.name => m = n
  /\ h.embedding \in h.catalog /\ h.embedding.runtime # NoKey /\ h.embedding.cc = NoCap
  /\ \A row \in ToSet(h.rows) : /\ row.device \in DOMAIN h.gpus
                                /\ row.role = "teacher" => row.name # h.embedding.name
  /\ \A p \in DOMAIN h.projects : h.projects[p] \in Followings
  /\ {h.docker, h.toolkit, h.hostedKey, h.ngcKey, h.optedOut} \subseteq BOOLEAN

\* The GPUs and rows of a host.
LEMMA HostHasParts ==
  ASSUME NEW h, HostAsked(h)
  PROVE  HostParts(h) /\ ToSet(h.rows) \subseteq NimRows
<1>1. h.gpus \in Seq(Gpus) /\ h.rows \in Seq(NimRows)
  BY DEF HostAsked
<1>2. IsSequence(h.rows) /\ ToSet(h.rows) \subseteq NimRows
  BY <1>1, SequenceOfItself
<1> QED BY <1>1, <1>2 DEF HostParts

\* A deployment for the first time, of a Teacher or of the embedding model.
AskedOf(h, r) == /\ r = Asks(r.role, r.model, r.device, FALSE) /\ r.model.floor \in Nat
                 /\ r.role = "teacher" \/ r.model = h.embedding

\* Who is refused is told whom a confirmed retry displaces.
LEMMA RefusedAreTold ==
  ASSUME NEW h, HostAsked(h), NEW r, AskedOf(h, r)
  PROVE  RefusalNamesTheDisplaced(h, r)
<1> DEFINE w == Replacing(r)
           a == Deploy(h, r)
           b == Deploy(h, w)
           p == Placed(h, r)
           t == ReplaceTarget(h, r)
<1>0. HostParts(h)
  BY HostHasParts
<1>1. /\ w.role = r.role /\ w.model = r.model /\ w.device = r.device /\ w.replace = TRUE
      /\ r.replace = FALSE
  BY DEF Asks, Replacing, AskedOf
<1>2. Placed(h, w) = p /\ ReplaceTarget(h, w) = t /\ Reuses(h, w) = <<>>
  BY <1>1 DEF Placed, ReplaceTarget, Qualifying, Reuses
<1>f. r.model.floor \in Nat
  BY DEF AskedOf
<1> SUFFICES ASSUME a.answer = "refused" \/ a.answer = "resident_starting"
             PROVE  /\ b.answer = "queued" => b.device = a.device /\ b.rows = a.rows /\ b.rows # <<>>
                    /\ a.replaceable => ~Serves(Head(a.rows), r.model)
  BY DEF RefusalNamesTheDisplaced
<1>3. \A x, d, s : /\ Accepted(x, d, s).answer = x /\ Accepted(x, d, s).device = d /\ Accepted(x, d, s).rows = s
  BY DEF Accepted
<1>4. /\ r.model.runtime # NoKey /\ ~(r.device = NoCap /\ h.gpus = <<>>)
      /\ \/ p = NoCap /\ a = Refusal(h, r, t)
         \/ p # NoCap /\ Occupants(h, p) # <<>> /\ a = Refusal(h, r, p)
  <2>1. \A d, s : a # Accepted("invalid", d, s) /\ a # Accepted("reused", d, s) /\ a # Accepted("queued", d, s)
    BY DEF Accepted
  <2> HIDE DEF a
  <2> QED BY <1>0, <1>1, <2>1, DeployIs DEF a
<1>5. b.answer = "queued" => \/ p # NoCap /\ b = Accepted("queued", p, Occupants(h, p))
                             \/ p = NoCap /\ t # NoCap /\ b = Accepted("queued", t, Occupants(h, t))
  <2> SUFFICES ASSUME b.answer = "queued"
               PROVE  \/ p # NoCap /\ b = Accepted("queued", p, Occupants(h, p))
                      \/ p = NoCap /\ t # NoCap /\ b = Accepted("queued", t, Occupants(h, t))
    OBVIOUS
  <2>1. \A d, s : b # Accepted("invalid", d, s) /\ b # Accepted("reused", d, s) /\ b # Accepted("refused", d, s)
    BY DEF Accepted
  <2> HIDE DEF b, p, t, w
  <2> QED BY <1>0, <1>1, <1>2, <2>1, DeployIs DEF b
<1>6. p = NoCap /\ t # NoCap => Occupants(h, t) # <<>>
  <2> SUFFICES ASSUME p = NoCap, t # NoCap PROVE Occupants(h, t) # <<>>
    OBVIOUS
  <2>1. r.device = NoCap
    BY DEF Placed
  <2> QED BY <1>0, <1>f, <2>1, PlacedSuits
<1>7. PICK d \in {p, t} : a = Refusal(h, r, d) /\ (p # NoCap => d = p) /\ (p = NoCap => d = t)
  BY <1>4
<1>8. /\ a.device = d /\ a.rows = InTheWay(h, d)
      /\ a.replaceable => /\ InTheWay(h, d) # <<>>
                          /\ ~(r.role = "teacher" /\ Serves(Head(InTheWay(h, d)), r.model))
  <2> DEFINE s == InTheWay(h, d)
             same == r.role = "teacher" /\ s # <<>> /\ Serves(Head(s), r.model)
  <2>1. a = [answer |-> IF same /\ Head(s).status = "starting" THEN "resident_starting" ELSE "refused",
             device |-> d, rows |-> s, replaceable |-> s # <<>> /\ ~same]
    BY <1>7 DEF Refusal
  <2>2. a.device = d /\ a.rows = s /\ a.replaceable = (s # <<>> /\ ~same)
    <3> HIDE DEF a, s, same
    <3> QED BY <2>1
  <2> HIDE DEF a, s
  <2> QED BY <2>2 DEF s
<1>9. d # NoCap => InTheWay(h, d) = Occupants(h, d)
  BY DEF InTheWay
<1>10. b.answer = "queued" => b.device = a.device /\ b.rows = a.rows /\ b.rows # <<>>
  <2> HIDE DEF a, b, p, t, w
  <2>1. ASSUME b.answer = "queued", p # NoCap PROVE b.device = a.device /\ b.rows = a.rows /\ b.rows # <<>>
    <3>1. d = p /\ b.device = p /\ b.rows = Occupants(h, p) /\ Occupants(h, p) # <<>>
      BY <1>3, <1>4, <1>5, <1>7, <2>1
    <3> QED BY <1>8, <1>9, <2>1, <3>1
  <2>2. ASSUME b.answer = "queued", p = NoCap PROVE b.device = a.device /\ b.rows = a.rows /\ b.rows # <<>>
    <3>1. d = t /\ t # NoCap /\ b.device = t /\ b.rows = Occupants(h, t) /\ Occupants(h, t) # <<>>
      BY <1>3, <1>5, <1>6, <1>7, <2>2
    <3> QED BY <1>8, <1>9, <2>2, <3>1
  <2> QED BY <2>1, <2>2
<1>11. InTheWay(h, d) # <<>> => Head(InTheWay(h, d)) \in ToSet(h.rows)
  <2>1. Residents(h) \in Seq(ToSet(h.rows))
    BY <1>0, ResidentsAre
  <2>2. Occupants(h, d) # <<>> => Head(Occupants(h, d)) \in ToSet(h.rows)
    BY <1>0, OccupantsAre DEF At, Standing
  <2>3. Residents(h) # <<>> => Head(Residents(h)) \in ToSet(h.rows)
    <3> SUFFICES ASSUME Residents(h) # <<>> PROVE Head(Residents(h)) \in ToSet(h.rows)
      OBVIOUS
    <3> DEFINE s == Residents(h)
    <3>1. s \in Seq(ToSet(h.rows)) /\ s # <<>>
      BY <2>1
    <3>2. ASSUME NEW T, s \in Seq(T) PROVE Head(s) \in T
      <4> HIDE DEF s
      <4>1. Len(s) \in Nat /\ Len(s) # 0 /\ Head(s) = s[1] /\ DOMAIN s = 1..Len(s)
        BY <3>1, <3>2
      <4> QED BY <3>2, <4>1
    <3> HIDE DEF s
    <3> QED BY <3>1, <3>2 DEF s
  <2> QED BY <2>2, <2>3 DEF InTheWay
<1>12. r.role # "teacher" => \A row \in ToSet(h.rows) : ~Serves(row, r.model)
  BY DEF HostAsked, Serves, AskedOf
<1> QED BY <1>8, <1>10, <1>11, <1>12

\* Where a GPU is free and does, a deployment is queued for one.
LEMMA FindsAGpu ==
  ASSUME NEW h, HostParts(h), NEW r, r = Asks(r.role, r.model, NoCap, FALSE), r.model.floor \in Nat,
         r.model.runtime # NoKey, Reuses(h, r) = <<>>,
         NEW d \in DOMAIN h.gpus, At(h, d) = {}, MeetsFloors(h.gpus[d], r.model)
  PROVE  /\ Deploy(h, r).answer = "queued" /\ Deploy(h, r).device \in DOMAIN h.gpus
         /\ GpuSuffices(h, r, Deploy(h, r).device)
<1> DEFINE p == Placed(h, r)
<1>1. r.device = NoCap /\ r.replace = FALSE
  BY DEF Asks
<1>2. d \in Open(h, r)
  BY FreeAre DEF Open, Qualifying
<1>3. p # NoCap
  BY <1>1, <1>2, PlacedIs
<1>4. p \in DOMAIN h.gpus /\ Occupants(h, p) = <<>> /\ GpuSuffices(h, r, p)
  BY <1>1, <1>3, PlacedSuits
<1>5. h.gpus # <<>>
  OBVIOUS
<1>6. Deploy(h, r) = Accepted("queued", p, Occupants(h, p))
  <2> HIDE DEF p
  <2> QED BY <1>1, <1>3, <1>4, <1>5, DeployIs DEF p
<1> QED BY <1>4, <1>6 DEF Accepted

\* A Teacher that runs has a container that can be reused.
LEMMA RunningIs ==
  ASSUME NEW h, HostParts(h), NEW m \in RunningTeacher(h)
  PROVE  m \in LocalTeachers(h) /\ Running(h, m) # {}
<1> DEFINE rs == Residents(h)
           runs(row) == row.status = "running" /\ \E n \in LocalTeachers(h) : Serves(row, n)
           S == {row \in ToSet(rs) : runs(row)}
           known == Filtered(Residents(h), runs)
<1>1. {i \in DOMAIN rs : rs[i] \in S} = {i \in DOMAIN rs : runs(rs[i])}
  BY DEF ToSet
<1>2. known = Among(Residents(h), S)
  <2>1. known = AtPositions(rs, {i \in DOMAIN rs : runs(rs[i])})
    BY DEF Filtered
  <2> HIDE DEF S
  <2> QED BY <1>1, <2>1 DEF Among
<1>3. m \in LocalTeachers(h) /\ known # <<>> /\ Serves(Head(known), m)
  BY DEF RunningTeacher
<1>4. \A row \in S : row.status = "running"
  OBVIOUS
<1> HIDE DEF S, known
<1>5. Head(known) \in Standing(h) \cap S
  BY <1>2, <1>3, SomeResidents
<1> QED BY <1>3, <1>4, <1>5 DEF Running

\* The containers a new project may start with.
Suited(h) == {row \in Standing(h) : /\ row.status = "running"
                                    /\ \E m \in LocalTeachers(h) : Serves(row, m)
                                    /\ \A m \in Recommended(h) : row.name = m.name}

\* Who is taken over on a host is suited, and somebody is if anybody is suited.
LEMMA AdoptedAre ==
  ASSUME NEW h, HostParts(h)
  PROVE  /\ Adopted(h) = <<>> <=> Suited(h) = {}
         /\ Adopted(h) # <<>> => Head(Adopted(h)) \in Suited(h)
<1> DEFINE rs == Residents(h)
           suits(row) == /\ row.status = "running"
                         /\ \E m \in LocalTeachers(h) : Serves(row, m)
                         /\ \A m \in Recommended(h) : row.name = m.name
           S == {row \in ToSet(rs) : suits(row)}
<1>1. {i \in DOMAIN rs : rs[i] \in S} = {i \in DOMAIN rs : suits(rs[i])}
  BY DEF ToSet
<1>2. ToSet(rs) = Standing(h)
  BY ResidentsAre
<1>3. Standing(h) \cap S = Suited(h)
  BY <1>2 DEF Suited
<1>4. Adopted(h) = Among(Residents(h), S)
  <2>1. Adopted(h) = AtPositions(rs, {i \in DOMAIN rs : suits(rs[i])})
    BY DEF Adopted, Filtered
  <2> HIDE DEF S
  <2> QED BY <1>1, <2>1 DEF Among
<1> HIDE DEF S
<1> QED BY <1>3, <1>4, SomeResidents

\* No two models are recommended.
LEMMA OneRecommended ==
  ASSUME NEW h, HostAsked(h), NEW m \in Recommended(h), NEW n \in Recommended(h)
  PROVE  m = n
<1>1. m \in h.catalog /\ n \in h.catalog /\ Precedes(m, n) /\ Precedes(n, m)
  BY DEF Recommended, Fitting, LocalTeachers, LocalModels
<1>2. \A k \in h.catalog : k.rank \in Int /\ k.floor \in Int /\ k.name \in Int
  BY DEF HostAsked, NimModels
<1>3. m.name = n.name
  BY <1>1, <1>2 DEF Precedes
<1> QED BY <1>1, <1>3 DEF HostAsked

\* What can be read off the advice.
LEMMA AdviceIs ==
  ASSUME NEW h, HostAsked(h)
  PROVE  LET a == Advice(h) IN
         /\ a.running \subseteq a.best
         /\ \A m \in a.best : /\ CanDeploy(h) /\ m \in Recommended(h) /\ m \in h.catalog
                              /\ m.runtime # NoKey /\ m.floor \in Nat
                              /\ \E d \in DOMAIN h.gpus : MeetsFloors(h.gpus[d], m)
         /\ \A m \in a.running : m \in RunningTeacher(h)
         /\ a.teacher = "local" /\ a.running = {} => ~h.hostedKey
         /\ a.embedding = "local" =>
              \E d \in DOMAIN h.gpus :
                 /\ CanDeploy(h) /\ RolesOn(h, d) \subseteq {"embedding"}
                 /\ h.gpus[d].supported /\ Tenths(h.gpus[d].mem) >= h.embedding.floor
                 /\ /\ a.teacher = "local" /\ a.running = {} /\ FreeDevices(h) # {}
                    /\ \A e \in DOMAIN h.gpus : "teacher" \notin RolesOn(h, e)
                    => d # Min(FreeDevices(h))
<1> DEFINE best == IF CanDeploy(h) THEN Recommended(h) ELSE {}
           running == RunningTeacher(h) \cap best
           teacher == IF running # {} \/ (~h.hostedKey /\ best # {}) THEN "local" ELSE "hosted"
           reserve == teacher = "local" /\ running = {} /\ \A d \in DOMAIN h.gpus : "teacher" \notin RolesOn(h, d)
           room == CanDeploy(h) /\ EmbeddingFits(h, EmbeddingCandidates(h, reserve))
           embedding == IF h.optedOut THEN "none" ELSE IF room THEN "local" ELSE "hosted"
           a == Advice(h)
<1>1. a = [best |-> best, running |-> running, teacher |-> teacher, embedding |-> embedding]
  BY DEF Advice
<1>2. a.best = best /\ a.running = running /\ a.teacher = teacher /\ a.embedding = embedding
  <2> HIDE DEF best, running, teacher, embedding, a
  <2> QED BY <1>1
<1>3. \A m \in best : /\ CanDeploy(h) /\ m \in Recommended(h) /\ m \in h.catalog
                      /\ m.runtime # NoKey /\ m.floor \in Nat
                      /\ \E d \in DOMAIN h.gpus : MeetsFloors(h.gpus[d], m)
  <2>1. \A m \in Recommended(h) : m \in h.catalog /\ m.runtime # NoKey /\ \E d \in DOMAIN h.gpus : MeetsFloors(h.gpus[d], m)
    BY DEF Recommended, Fitting, LocalTeachers, LocalModels
  <2>2. \A m \in h.catalog : m.floor \in Nat
    BY DEF HostAsked, NimModels
  <2> QED BY <2>1, <2>2
<1>4. embedding = "local" => room
  OBVIOUS
<1>5. room => \E d \in EmbeddingCandidates(h, reserve) :
                CanDeploy(h) /\ h.gpus[d].supported /\ Tenths(h.gpus[d].mem) >= h.embedding.floor
  BY DEF EmbeddingFits
<1>6. \A d \in EmbeddingCandidates(h, reserve) :
         /\ d \in DOMAIN h.gpus /\ RolesOn(h, d) \subseteq {"embedding"}
         /\ reserve /\ FreeDevices(h) # {} => d # Min(FreeDevices(h))
  <2> HIDE DEF reserve
  <2> QED BY DEF EmbeddingCandidates
<1>7. teacher = "local" /\ running = {} => ~h.hostedKey
  OBVIOUS
<1>8. teacher = "local" /\ running = {} /\ (\A d \in DOMAIN h.gpus : "teacher" \notin RolesOn(h, d)) => reserve
  OBVIOUS
<1>9. running \subseteq best /\ \A m \in running : m \in RunningTeacher(h)
  OBVIOUS
<1>10. a.embedding = "local" =>
        \E d \in DOMAIN h.gpus :
           /\ CanDeploy(h) /\ RolesOn(h, d) \subseteq {"embedding"}
           /\ h.gpus[d].supported /\ Tenths(h.gpus[d].mem) >= h.embedding.floor
           /\ /\ a.teacher = "local" /\ a.running = {} /\ FreeDevices(h) # {}
              /\ \A e \in DOMAIN h.gpus : "teacher" \notin RolesOn(h, e)
              => d # Min(FreeDevices(h))
  <2> HIDE DEF best, running, teacher, reserve, room, embedding, a
  <2> SUFFICES ASSUME a.embedding = "local"
               PROVE  \E d \in DOMAIN h.gpus :
                         /\ CanDeploy(h) /\ RolesOn(h, d) \subseteq {"embedding"}
                         /\ h.gpus[d].supported /\ Tenths(h.gpus[d].mem) >= h.embedding.floor
                         /\ /\ a.teacher = "local" /\ a.running = {} /\ FreeDevices(h) # {}
                            /\ \A e \in DOMAIN h.gpus : "teacher" \notin RolesOn(h, e)
                            => d # Min(FreeDevices(h))
    OBVIOUS
  <2>1. PICK d \in EmbeddingCandidates(h, reserve) :
               CanDeploy(h) /\ h.gpus[d].supported /\ Tenths(h.gpus[d].mem) >= h.embedding.floor
    BY <1>2, <1>4, <1>5
  <2>2. d \in DOMAIN h.gpus /\ RolesOn(h, d) \subseteq {"embedding"}
    BY <1>6
  <2>3. /\ a.teacher = "local" /\ a.running = {} /\ FreeDevices(h) # {}
        /\ \A e \in DOMAIN h.gpus : "teacher" \notin RolesOn(h, e)
        => d # Min(FreeDevices(h))
    BY <1>2, <1>6, <1>8
  <2> QED BY <2>1, <2>2, <2>3
<1> HIDE DEF best, running, teacher, reserve, room, embedding, a
<1> QED BY <1>2, <1>3, <1>7, <1>9, <1>10 DEF a

\* A Teacher that runs and is advised is what a deployment and a project get.
LEMMA RunningIsFollowed ==
  ASSUME NEW h, HostAsked(h), NEW m \in Advice(h).running
  PROVE  /\ Deploy(h, Asks("teacher", m, NoCap, FALSE)).answer = "reused"
         /\ Adopted(h) # <<>> /\ Serves(Head(Adopted(h)), m)
<1> DEFINE r == Asks("teacher", m, NoCap, FALSE)
<1>0. HostParts(h)
  BY HostHasParts
<1>1. m \in Recommended(h) /\ m.runtime # NoKey /\ m \in RunningTeacher(h)
  BY AdviceIs
<1>2. m \in LocalTeachers(h) /\ Running(h, m) # {}
  BY <1>0, <1>1, RunningIs
<1>3. r.role = "teacher" /\ r.model = m /\ r.replace = FALSE
  BY DEF Asks
<1>4. Reuses(h, r) # <<>>
  <2>1. Reuses(h, r) = Reusable(h, m)
    BY <1>3 DEF Reuses
  <2> QED BY <1>0, <1>2, <2>1, ReusableAre
<1>5. Deploy(h, r).answer = "reused"
  <2>1. Deploy(h, r) = Accepted("reused", Head(Reuses(h, r)).device, Reuses(h, r))
    <3> HIDE DEF r
    <3> QED BY <1>0, <1>1, <1>3, <1>4, DeployIs
  <2>2. \A d, s : Accepted("reused", d, s).answer = "reused"
    BY DEF Accepted
  <2> QED BY <2>1, <2>2
<1>6. PICK row \in Standing(h) : row.status = "running" /\ Serves(row, m)
  BY <1>2 DEF Running
<1>7. \A n \in Recommended(h) : n = m
  BY <1>1, OneRecommended
<1>8. row \in Suited(h)
  BY <1>2, <1>6, <1>7 DEF Suited, Serves
<1>9. Adopted(h) # <<>> /\ Head(Adopted(h)) \in Suited(h)
  BY <1>0, <1>8, AdoptedAre
<1>10. \A k \in Suited(h) : Serves(k, m)
  <2> SUFFICES ASSUME NEW k \in Suited(h) PROVE Serves(k, m)
    OBVIOUS
  <2>1. PICK n \in LocalTeachers(h) : Serves(k, n)
    BY DEF Suited
  <2>2. k.name = m.name /\ k.name = n.name
    BY <1>1, <2>1 DEF Suited, Serves
  <2>3. m \in h.catalog /\ n \in h.catalog
    BY <1>2, <2>1 DEF LocalTeachers, LocalModels
  <2>4. m = n
    BY <2>2, <2>3 DEF HostAsked
  <2> QED BY <2>1, <2>4
<1> QED BY <1>5, <1>9, <1>10

\* Memory that is enough to a tenth of a GB meets the floor.
LEMMA EnoughMeetsFloors ==
  ASSUME NEW h, HostAsked(h), NEW d \in DOMAIN h.gpus, Tenths(h.gpus[d].mem) >= h.embedding.floor
  PROVE  MeetsFloors(h.gpus[d], h.embedding)
<1> DEFINE most == Tenths(h.gpus[d].mem)
           floor == h.embedding.floor
<1>1. most \in Int
  <2>1. h.gpus \in Seq(Gpus)
    BY DEF HostAsked
  <2>2. h.gpus[d] \in Gpus
    BY <2>1
  <2>3. h.gpus[d].mem \in Nat
    BY <2>2 DEF Gpus
  <2> QED BY <2>3 DEF Tenths
<1>2. floor \in Nat /\ h.embedding.cc = NoCap
  BY DEF HostAsked, NimModels
<1> HIDE DEF most, floor
<1>3. MeetsMemory(most, floor)
  BY <1>1, <1>2 DEF MeetsMemory, most, floor
<1>4. MeetsCapability(h.gpus[d], h.embedding)
  BY <1>2 DEF MeetsCapability
<1> QED BY <1>3, <1>4 DEF MeetsFloors, most, floor

\* There is room for an embedding NIM.
Roomy(k) == \E e \in {Deploy(k, EmbeddingAsked(k))} :
               e.answer = "queued" /\ GpuSuffices(k, EmbeddingAsked(k), e.device)

\* There is room for the embedding model where a free device meets its floor.
LEMMA RoomOnFree ==
  ASSUME NEW k, HostParts(k), k.embedding.floor \in Nat, k.embedding.runtime # NoKey,
         NEW d \in DOMAIN k.gpus, At(k, d) = {}, MeetsFloors(k.gpus[d], k.embedding)
  PROVE  Roomy(k)
<1> DEFINE r == EmbeddingAsked(k)
<1>1. r = Asks(r.role, r.model, NoCap, FALSE) /\ r.role = "embedding" /\ r.model = k.embedding
  BY DEF EmbeddingAsked, Asks
<1>2. Reuses(k, r) = <<>>
  BY <1>1 DEF Reuses
<1>3. Deploy(k, r).answer = "queued" /\ GpuSuffices(k, r, Deploy(k, r).device)
  <2> HIDE DEF r
  <2> QED BY <1>1, <1>2, FindsAGpu
<1> QED BY <1>3 DEF Roomy

\* Where no Teacher is to run here, there is room or an embedding NIM runs.
LEMMA RoomBesideHosted ==
  ASSUME NEW h, HostAsked(h), Advice(h).embedding = "local"
  PROVE  Roomy(h) \/ \E d \in DOMAIN h.gpus : "embedding" \in RolesOn(h, d)
<1>0. HostParts(h) /\ h.embedding.floor \in Nat /\ h.embedding.runtime # NoKey
  BY HostHasParts DEF HostAsked, NimModels
<1>1. PICK d \in DOMAIN h.gpus : /\ RolesOn(h, d) \subseteq {"embedding"}
                                 /\ Tenths(h.gpus[d].mem) >= h.embedding.floor
  BY AdviceIs
<1>2. CASE RolesOn(h, d) = {}
  <2>1. At(h, d) = {}
    BY <1>0, <1>2, OccupantsAre
  <2>2. MeetsFloors(h.gpus[d], h.embedding)
    BY <1>1, EnoughMeetsFloors
  <2> QED BY <1>0, <2>1, <2>2, RoomOnFree
<1>3. CASE RolesOn(h, d) # {}
  BY <1>1, <1>3
<1> QED BY <1>2, <1>3

\* A host with nothing but a Teacher on device d.
Beside(h, m, d) == [h EXCEPT !.rows = <<[id |-> 0, project |-> 0, device |-> d, role |-> "teacher",
                                         name |-> m.name, runtime |-> m.runtime, status |-> "running"]>>]

\* And beside the Teacher that the host is advised to run.
LEMMA RoomBesideTeacher ==
  ASSUME NEW h, HostAsked(h), Advice(h).embedding = "local", Advice(h).teacher = "local", Advice(h).running = {},
         Residents(h) = <<>>, \A d \in DOMAIN h.gpus : h.gpus[d] = h.gpus[1],
         NEW m, NEW D \in DOMAIN h.gpus
  PROVE  Roomy(Beside(h, m, D))
<1> DEFINE row == [id |-> 0, project |-> 0, device |-> D, role |-> "teacher",
                   name |-> m.name, runtime |-> m.runtime, status |-> "running"]
           k == Beside(h, m, D)
           free == FreeDevices(h)
           n == Len(h.gpus)
<1>0. HostParts(h) /\ h.embedding.floor \in Nat /\ h.embedding.runtime # NoKey
  BY HostHasParts DEF HostAsked, NimModels
<1>n. n \in Nat /\ DOMAIN h.gpus = 1..n
  BY <1>0 DEF HostParts
<1>1. k.gpus = h.gpus /\ k.rows = <<row>> /\ k.embedding = h.embedding
  <2>1. {"gpus", "rows", "embedding"} \subseteq DOMAIN h
    BY DEF HostAsked, HostFields
  <2> QED BY <2>1 DEF Beside
<1>2. HostParts(k)
  <2> HIDE DEF row
  <2>1. <<row>> \in Seq({row})
    OBVIOUS
  <2>2. IsSequence(<<row>>)
    BY <2>1, SequenceOfItself
  <2> HIDE DEF k
  <2> QED BY <1>0, <1>1, <2>2 DEF HostParts
<1>3. \A e : e # D => At(k, e) = {}
  <2>1. ToSet(k.rows) = {row}
    <3> HIDE DEF row, k
    <3> QED BY <1>1 DEF ToSet
  <2>2. row.device = D
    OBVIOUS
  <2> HIDE DEF row, k
  <2> QED BY <2>1, <2>2 DEF At, Standing
<1>4. free = DOMAIN h.gpus /\ \A d \in DOMAIN h.gpus : RolesOn(h, d) = {}
  <2>1. Standing(h) = {}
    <3>1. ToSet(Residents(h)) = Standing(h)
      BY <1>0, ResidentsAre
    <3>2. ToSet(<<>>) = {}
      BY DEF ToSet
    <3> QED BY <3>1, <3>2
  <2>2. \A d : At(h, d) = {}
    BY <2>1 DEF At
  <2> QED BY <1>0, <2>2, FreeAre, OccupantsAre
<1>5. Min(free) \in free
  <2>1. IsFiniteSet(free) /\ free \in SUBSET Int /\ free # {}
    <3>1. IsFiniteSet(1..n) /\ 1..n \in SUBSET Int
      BY <1>n, FS_Interval
    <3> HIDE DEF free, n
    <3> QED BY <1>n, <1>4, <3>1
  <2> HIDE DEF free
  <2> QED BY <2>1, MinIsLeast
<1>6. PICK d \in DOMAIN h.gpus : Tenths(h.gpus[d].mem) >= h.embedding.floor /\ d # Min(free)
  BY <1>4, <1>5, AdviceIs
<1>7. PICK e \in DOMAIN h.gpus : e # D
  BY <1>4, <1>5, <1>6
<1>8. h.gpus[e] = h.gpus[d]
  BY <1>6, <1>7
<1>9. MeetsFloors(k.gpus[e], k.embedding)
  <2> HIDE DEF k
  <2> QED BY <1>1, <1>6, <1>7, <1>8, EnoughMeetsFloors
<1> HIDE DEF k
<1>10. At(k, e) = {}
  BY <1>3, <1>7
<1>11. e \in DOMAIN k.gpus /\ k.embedding.floor \in Nat /\ k.embedding.runtime # NoKey
  BY <1>0, <1>1, <1>7
<1>12. Roomy(k)
  BY <1>2, <1>9, <1>10, <1>11, RoomOnFree
<1> QED BY <1>12 DEF k

\* What is advised can be done.
LEMMA AdviceHolds ==
  ASSUME NEW h, HostAsked(h)
  PROVE  AdviceCanBeFollowed(h)
<1> DEFINE a == Advice(h)
           alike == \A d \in DOMAIN h.gpus : h.gpus[d] = h.gpus[1]
           asked(m) == Asks("teacher", m, NoCap, FALSE)
           first(m) == Deploy(h, asked(m))
<1>0. HostParts(h)
  BY HostHasParts
<1>1. ASSUME NEW m \in a.best \cup a.running, m \in a.running
      PROVE  first(m).answer = "reused" /\ Adopted(h) # <<>> /\ Serves(Head(Adopted(h)), m)
  BY <1>1, RunningIsFollowed
<1>2. ASSUME NEW m \in a.best \cup a.running, a.teacher = "local", a.running = {}, Residents(h) = <<>>,
             MissingHere(h) = {}
      PROVE  /\ first(m).answer = "queued"
             /\ Preflight(h, asked(m), first(m).device) \notin {"docker", "toolkit", "key"}
             /\ GpuSuffices(h, asked(m), first(m).device)
             /\ a.embedding = "local" /\ alike => Roomy(Beside(h, m, first(m).device))
  <2> DEFINE r == asked(m)
             d == first(m).device
  <2>1. /\ CanDeploy(h) /\ m.runtime # NoKey /\ m.floor \in Nat /\ ~h.hostedKey
        /\ \E e \in DOMAIN h.gpus : MeetsFloors(h.gpus[e], m)
    BY <1>2, AdviceIs
  <2>2. PICK e \in DOMAIN h.gpus : MeetsFloors(h.gpus[e], m)
    BY <2>1
  <2>3. Standing(h) = {}
    <3>1. ToSet(Residents(h)) = Standing(h)
      BY <1>0, ResidentsAre
    <3>2. ToSet(<<>>) = {}
      BY DEF ToSet
    <3> QED BY <1>2, <3>1, <3>2
  <2>4. At(h, e) = {} /\ Running(h, m) = {}
    BY <2>3 DEF At, Running
  <2>5. r.role = "teacher" /\ r.model = m /\ r.replace = FALSE /\ r = Asks(r.role, r.model, NoCap, FALSE)
    BY DEF Asks
  <2>6. Reuses(h, r) = <<>>
    <3>1. Reusable(h, m) = <<>>
      BY <1>0, <2>4, ReusableAre
    <3> QED BY <2>5, <3>1 DEF Reuses
  <2>7. Deploy(h, r).answer = "queued" /\ Deploy(h, r).device \in DOMAIN h.gpus /\ GpuSuffices(h, r, Deploy(h, r).device)
    <3> HIDE DEF r
    <3> QED BY <1>0, <2>1, <2>2, <2>4, <2>5, <2>6, FindsAGpu
  <2>8. h.docker /\ h.toolkit /\ h.ngcKey
    BY <1>2, <2>1 DEF CanDeploy, MissingHere
  <2>9. Preflight(h, r, d) \notin {"docker", "toolkit", "key"}
    <3>1. \A check \in ToSet(Checks(h, r, d)) : ~check[2] => check[1] \notin {"docker", "toolkit", "key"}
      <4> SUFFICES ASSUME NEW check \in ToSet(Checks(h, r, d)), ~check[2]
                   PROVE  check[1] \notin {"docker", "toolkit", "key"}
        OBVIOUS
      <4> HIDE DEF r, d
      <4>1. check[1] \in {"docker", "toolkit", "key"} => check[2] \in {h.docker, h.toolkit, h.ngcKey}
        BY DEF Checks, ToSet
      <4>2. h.docker = TRUE /\ h.toolkit = TRUE /\ h.ngcKey = TRUE
        BY <2>8 DEF HostAsked
      <4> QED BY <4>1, <4>2
    <3> HIDE DEF r, d
    <3> QED BY <3>1, PreflightTells
  <2>10. a.embedding = "local" /\ alike => Roomy(Beside(h, m, d))
    BY <1>2, <2>7, RoomBesideTeacher
  <2> QED BY <2>7, <2>9, <2>10
<1>3. a.embedding = "local" => Roomy(h) \/ \E d \in DOMAIN h.gpus : "embedding" \in RolesOn(h, d)
  BY RoomBesideHosted
<1>4. AdviceCanBeFollowed(h) <=>
        /\ \A m \in a.best \cup a.running :
             /\ m \in a.running => first(m).answer = "reused" /\ Adopted(h) # <<>> /\ Serves(Head(Adopted(h)), m)
             /\ a.teacher = "local" /\ a.running = {} /\ Residents(h) = <<>> /\ MissingHere(h) = {} =>
                  /\ first(m).answer = "queued"
                  /\ Preflight(h, asked(m), first(m).device) \notin {"docker", "toolkit", "key"}
                  /\ GpuSuffices(h, asked(m), first(m).device)
                  /\ a.embedding = "local" /\ alike => Roomy(Beside(h, m, first(m).device))
        /\ a.embedding = "local" /\ a.teacher = "hosted" =>
             Roomy(h) \/ \E d \in DOMAIN h.gpus : "embedding" \in RolesOn(h, d)
  BY DEF AdviceCanBeFollowed, Roomy, Beside
<1> HIDE DEF a, asked, first, alike
<1> QED BY <1>1, <1>2, <1>3, <1>4

\* The projects of a host once deployment id has stopped and another came to run.
LEMMA StoppedIs ==
  ASSUME NEW h, HostAsked(h), NEW id
  PROVE  LET s == StopRow(h, id) IN
         /\ DOMAIN s = DOMAIN h /\ s.gpus = h.gpus /\ s.archived = h.archived
         /\ IsSequence(s.rows)
         /\ DOMAIN s.projects = DOMAIN h.projects
         /\ \A p \in DOMAIN h.projects :
              s.projects[p] = IF h.projects[p].to = id /\ p \notin h.archived
                              THEN [h.projects[p] EXCEPT !.up = FALSE] ELSE h.projects[p]
<1> DEFINE s == StopRow(h, id)
           stopped == [i \in DOMAIN h.rows |->
                         IF h.rows[i].id = id THEN [h.rows[i] EXCEPT !.status = "stopped"] ELSE h.rows[i]]
           told == [p \in DOMAIN h.projects |->
                      IF h.projects[p].to = id /\ p \notin h.archived
                      THEN [h.projects[p] EXCEPT !.up = FALSE] ELSE h.projects[p]]
<1>1. HostFields \subseteq DOMAIN h /\ h.rows \in Seq(NimRows)
  BY DEF HostAsked
<1>2. s = [h EXCEPT !.rows = stopped, !.projects = told]
  BY DEF StopRow
<1>3. /\ DOMAIN s = DOMAIN h /\ s.gpus = h.gpus /\ s.archived = h.archived
      /\ s.rows = stopped /\ s.projects = told
  <2>1. {"gpus", "rows", "archived", "projects"} \subseteq DOMAIN h
    BY <1>1 DEF HostFields
  <2> HIDE DEF stopped, told, s
  <2> QED BY <1>2, <2>1
<1>4. IsSequence(stopped)
  <2> DEFINE n == Len(h.rows)
             T == {stopped[i] : i \in 1..n}
  <2>1. n \in Nat /\ DOMAIN h.rows = 1..n
    BY <1>1
  <2>2. stopped = [i \in 1..n |-> stopped[i]]
    BY <2>1
  <2> HIDE DEF stopped, n
  <2>3. [i \in 1..n |-> stopped[i]] \in Seq(T)
    BY <2>1
  <2> HIDE DEF T
  <2>4. stopped \in Seq(T)
    BY <2>2, <2>3
  <2> QED BY <2>4, SequenceOfItself
<1> HIDE DEF s, stopped
<1> QED BY <1>3, <1>4 DEF s

\* One row more at the end.
LEMMA OneMore ==
  ASSUME NEW s, IsSequence(s), NEW x
  PROVE  IsSequence(Append(s, x)) /\ x \in ToSet(Append(s, x))
<1> DEFINE T == ToSet(s) \cup {x}
           t == Append(s, x)
<1>1. s \in Seq(ToSet(s))
  BY DEF IsSequence
<1>2. Len(s) \in Nat /\ s = [i \in 1..Len(s) |-> s[i]] /\ \A i \in 1..Len(s) : s[i] \in ToSet(s)
  BY <1>1
<1>3. [i \in 1..Len(s) |-> s[i]] \in Seq(T)
  BY <1>2
<1>4. s \in Seq(T) /\ x \in T
  BY <1>2, <1>3
<1> HIDE DEF T
<1>5. t \in Seq(T) /\ Len(t) = Len(s) + 1 /\ t[Len(s) + 1] = x
  BY <1>2, <1>4
<1>6. Len(s) + 1 \in DOMAIN t
  BY <1>2, <1>5
<1> HIDE DEF t
<1>7. x \in ToSet(t)
  BY <1>5, <1>6 DEF ToSet
<1>8. IsSequence(t)
  BY <1>5, SequenceOfItself
<1> QED BY <1>7, <1>8 DEF t

\* The projects that followed it follow a container of its kind.
LEMMA RestoredHold ==
  ASSUME NEW h, HostAsked(h)
  PROVE  RestoredAreFollowed(h)
<1> DEFINE newer(i) == [h.rows[i] EXCEPT !.id = 1 + Max({k.id : k \in Range(h.rows)})]
           next(i) == StartRow(StopRow(h, h.rows[i].id), newer(i))
           kept(i, p, later) ==
             /\ /\ h.projects[p].to = h.rows[i].id /\ h.projects[p].mode = "local"
                /\ Serves(h.rows[i], h.projects[p].model) /\ "teacher" \in h.projects[p].model.roles
                => /\ later.projects[p].up
                   /\ \E k \in Range(Residents(later)) : /\ k.id = later.projects[p].to /\ k.status = "running"
                                                         /\ Serves(k, h.projects[p].model)
             /\ h.projects[p].up /\ h.projects[p].to # h.rows[i].id => later.projects[p] = h.projects[p]
<1>0. RestoredAreFollowed(h) <=>
        \A i \in DOMAIN h.rows :
          h.rows[i].role = "teacher" /\ h.rows[i].status = "running" /\ h.rows[i].project \notin h.archived =>
            \A later \in {next(i)}, p \in DOMAIN h.projects \ h.archived : kept(i, p, later)
  BY DEF RestoredAreFollowed
<1> SUFFICES ASSUME NEW i \in DOMAIN h.rows, h.rows[i].role = "teacher", h.rows[i].status = "running",
                    h.rows[i].project \notin h.archived,
                    NEW p \in DOMAIN h.projects \ h.archived
             PROVE  kept(i, p, next(i))
  <2> HIDE DEF next, kept
  <2> QED BY <1>0
<1> DEFINE row == h.rows[i]
           id == 1 + Max({k.id : k \in Range(h.rows)})
           new == [row EXCEPT !.id = id]
           s == StopRow(h, row.id)
           here == [s EXCEPT !.rows = Append(s.rows, new)]
           moved == [x \in DOMAIN s.projects |-> IF x \in Followers(here, new) THEN Attach(here, x) ELSE s.projects[x]]
           after == StartRow(s, new)
           t == h.projects[p]
           v == s.projects[p]
           u == after.projects[p]
<1>r. row.role = "teacher" /\ row.status = "running"
  OBVIOUS
<1>1. row \in NimRows /\ row.device \in DOMAIN h.gpus /\ t \in Followings
  <2>1. h.rows \in Seq(NimRows)
    BY DEF HostAsked
  <2>2. row \in ToSet(h.rows)
    BY DEF ToSet
  <2>3. row \in NimRows
    BY <2>1
  <2> QED BY <2>2, <2>3 DEF HostAsked
<1>2. /\ new.id = id /\ new.project = row.project /\ new.device = row.device /\ new.role = row.role
      /\ new.name = row.name /\ new.runtime = row.runtime /\ new.status = row.status
  <2> HIDE DEF row, id
  <2> QED BY <1>1 DEF NimRows
<1> HIDE DEF new
<1>3. /\ DOMAIN s = DOMAIN h /\ s.gpus = h.gpus /\ s.archived = h.archived
      /\ IsSequence(s.rows)
      /\ DOMAIN s.projects = DOMAIN h.projects
      /\ v = IF t.to = row.id /\ p \notin h.archived THEN [t EXCEPT !.up = FALSE] ELSE t
  <2> HIDE DEF row
  <2> QED BY StoppedIs
<1> HIDE DEF s
<1>4. /\ here.gpus = h.gpus /\ here.archived = h.archived /\ here.rows = Append(s.rows, new)
      /\ here.projects = s.projects /\ DOMAIN here = DOMAIN h
  <2>1. {"gpus", "rows", "archived", "projects"} \subseteq DOMAIN s
    BY <1>3 DEF HostAsked, HostFields
  <2> QED BY <1>3, <2>1
<1>5. after = [here EXCEPT !.projects = moved]
  BY DEF StartRow
<1> HIDE DEF here
<1>6. /\ after.gpus = h.gpus /\ after.archived = h.archived /\ after.rows = here.rows
      /\ after.projects = moved
  <2>1. {"gpus", "rows", "archived", "projects"} \subseteq DOMAIN here
    BY <1>4 DEF HostAsked, HostFields
  <2> HIDE DEF moved, after
  <2> QED BY <1>4, <1>5, <2>1
<1>7. u = IF p \in Followers(here, new) THEN Attach(here, p) ELSE v
  BY <1>3, <1>6
<1> HIDE DEF after, moved
<1>8. IsSequence(here.rows) /\ new \in ToSet(here.rows)
  BY <1>3, <1>4, OneMore
<1>9. HostParts(here)
  BY <1>4, <1>8 DEF HostParts, HostAsked
<1>10. Standing(after) = Standing(here) /\ HostParts(after)
  BY <1>4, <1>6, <1>9 DEF Standing, HostParts
<1>11. new \in Standing(here)
  BY <1>1, <1>2, <1>4, <1>8 DEF Standing
<1>12. ASSUME t.to = row.id, t.mode = "local", Serves(row, t.model), "teacher" \in t.model.roles
       PROVE  u.up /\ \E k \in Range(Residents(after)) : k.id = u.to /\ k.status = "running" /\ Serves(k, t.model)
  <2>1. v.model = t.model /\ v.mode = "local" /\ v.up = FALSE /\ DOMAIN v = {"model", "mode", "to", "up"}
    <3>1. v = [t EXCEPT !.up = FALSE]
      BY <1>3, <1>12
    <3> HIDE DEF t, v
    <3> QED BY <1>1, <1>12, <3>1 DEF Followings
  <2>2. Serves(new, t.model)
    BY <1>2, <1>12 DEF Serves
  <2>3. t.model.runtime # NoKey
    BY <1>1, <1>12 DEF Serves, NimRows
  <2>4. p \in Followers(here, new)
    <3>1. here.projects[p] = v /\ p \in DOMAIN here.projects \ here.archived
      BY <1>3, <1>4
    <3> HIDE DEF t, v, row
    <3> QED BY <1>r, <1>2, <1>12, <2>1, <2>2, <2>3, <3>1 DEF Followers
  <2> DEFINE found == Reusable(here, t.model)
             k == Head(found)
  <2>5. new \in Running(here, t.model)
    BY <1>r, <1>2, <1>11, <2>2 DEF Running
  <2>6. found # <<>> /\ k \in Running(here, t.model)
    BY <1>9, <2>5, ReusableAre
  <2> HIDE DEF found
  <2>7. u = [v EXCEPT !.to = k.id, !.up = TRUE, !.mode = "local"]
    <3>1. here.projects[p] = v /\ v.model = t.model
      BY <1>3, <1>4, <2>1
    <3> HIDE DEF t, v, u
    <3> QED BY <1>7, <2>4, <2>6, <3>1 DEF Attach, found
  <2>8. u.up = TRUE /\ u.to = k.id
    <3> HIDE DEF u, v, k
    <3> QED BY <2>1, <2>7
  <2>9. k \in Range(Residents(after)) /\ k.status = "running" /\ Serves(k, t.model)
    <3>1. ToSet(Residents(after)) = Standing(after)
      BY <1>10, ResidentsAre
    <3>2. Range(Residents(after)) = ToSet(Residents(after))
      BY DEF Range, ToSet
    <3> HIDE DEF k
    <3> QED BY <1>10, <2>6, <3>1, <3>2 DEF Running
  <2> HIDE DEF u, k
  <2> QED BY <2>8, <2>9
<1>13. ASSUME t.up, t.to # row.id PROVE u = t
  <2>1. v = t
    BY <1>3, <1>13
  <2>2. p \notin Followers(here, new)
    <3>1. here.projects[p] = t
      BY <1>4, <2>1
    <3> HIDE DEF t
    <3> QED BY <1>13, <3>1 DEF Followers
  <2> QED BY <1>7, <2>1, <2>2
<1> QED BY <1>12, <1>13 DEF kept, next, newer, after, s, new

\* What is marked healthy is what was asked for.
LEMMA ServedHolds ==
  ASSUME NEW models, NoKey \notin models
  PROVE  WhatIsServedWasAsked(models)
BY DEF WhatIsServedWasAsked, ServesWhatIsAsked

\* A host keeps its word, whatever its GPUs, its catalog and its deployments.
THEOREM HostsHold ==
  ASSUME NEW h, HostAsked(h)
  PROVE  HostKeepsItsWord(h)
<1>0. HostParts(h)
  BY HostHasParts
<1>1. ASSUME NEW r \in DeploymentsOf(h)
      PROVE  PlacementHolds(h, r) /\ RefusalNamesTheDisplaced(h, r)
  <2>1. AskedOf(h, r)
    <3>1. \A m \in h.catalog : m.floor \in Nat
      BY DEF HostAsked, NimModels
    <3>2. h.embedding \in h.catalog
      BY DEF HostAsked
    <3> QED BY <3>1, <3>2 DEF DeploymentsOf, EmbeddingAsked, Asks, AskedOf
  <2>2. PlacementHolds(h, r)
    BY <1>0, <2>1, ChosenGpuSuits DEF AskedOf
  <2>3. RefusalNamesTheDisplaced(h, r)
    BY <2>1, RefusedAreTold
  <2> QED BY <2>2, <2>3
<1>2. WhatIsServedWasAsked({m.name : m \in LocalModels(h)})
  <2>1. NoKey \notin {m.name : m \in LocalModels(h)}
    BY DEF LocalModels, HostAsked, NimModels
  <2> QED BY <2>1, ServedHolds
<1> QED BY <1>1, <1>2, AdviceHolds, RestoredHold DEF HostKeepsItsWord

-----------------------------------------------------------------------------
(* A request to the Teacher.                                               *)

\* A total is no less than any of its numbers.
LEMMA TotalAtLeast ==
  ASSUME NEW s \in Seq(Nat)
  PROVE  Total(s) \in Nat /\ \A i \in DOMAIN s : Total(s) >= s[i]
<1> DEFINE n == Len(s)
           X == [j \in 0..n |-> {v \in Nat : \A i \in 1..j : v >= s[i]}]
<1>1. n \in Nat /\ DOMAIN s = 1..n /\ \A i \in 1..n : s[i] \in Nat
  OBVIOUS
<1>2. PICK g : /\ Total(s) = g[n] /\ g[0] = 0
               /\ \A i \in 1..n : g[i] = g[i - 1] + s[i]
               /\ \A i \in 0..n : g[i] \in Nat
  BY TotalIs
<1> HIDE DEF n
<1>3. g[0] \in X[0]
  <2>1. 0 \in 0..n /\ \A i \in 1..0 : FALSE
    BY <1>1
  <2> QED BY <1>2, <2>1
<1>4. ASSUME NEW j \in 1..n, g[j - 1] \in X[j - 1] PROVE g[j] \in X[j]
  <2>1. j \in 0..n /\ j - 1 \in 0..n /\ j \in Nat
    BY <1>1
  <2>2. g[j - 1] \in Nat /\ g[j] \in Nat /\ s[j] \in Nat /\ g[j] = g[j - 1] + s[j]
    BY <1>1, <1>2, <2>1
  <2>3. \A i \in 1..(j - 1) : g[j - 1] >= s[i]
    BY <1>4, <2>1
  <2>4. ASSUME NEW i \in 1..j PROVE g[j] >= s[i]
    <3>1. i = j \/ i \in 1..(j - 1)
      BY <2>1
    <3>2. i \in 1..n /\ s[i] \in Nat
      BY <1>1, <2>1
    <3> QED BY <2>2, <2>3, <3>1, <3>2
  <2> QED BY <2>1, <2>2, <2>4
<1>5. \A j \in 0..n : g[j] \in X[j]
  <2> HIDE DEF X
  <2> QED BY <1>1, <1>3, <1>4, LoopKeeps
<1>6. n \in 0..n
  BY <1>1
<1> QED BY <1>1, <1>2, <1>5, <1>6

FieldAsked(f) ==
  /\ f.kind \in {"rationale", "boolean", "integer", "enum", "enum_set", "string"}
  /\ f.kind \in {"enum", "enum_set"} => f.key \in Nat \ {0} /\ f.values \in Seq(Nat)
  /\ f.kind = "string" => f.key \in Nat \ {0} /\ f.longest \in Nat \cup {NoCap}

SettingsAsked(s) ==
  /\ s.floor \in Nat \ {0} /\ s.overhead \in Nat /\ s.note \in Nat \ {0} /\ s.unbounded \in Nat \ {0}
  /\ s.headroom \in Nat /\ s.override \in (Nat \ {0}) \cup {NoCap}
  /\ s.fraction \in (Nat \ {0}) \X (Nat \ {0}) /\ s.margin \in (Nat \ {0}) \X (Nat \ {0})

\* What is asked for, its settings and its schema: this has a Core field.
SchemaAsked(q) ==
  /\ SettingsAsked(q.s) /\ q.window \in Nat
  /\ IsSequence(q.fields) /\ \A i \in DOMAIN q.fields : FieldAsked(q.fields[i])
  /\ \E i \in DOMAIN q.fields : q.fields[i].role = "core" /\ q.fields[i].kind # "rationale"
  /\ q.mode \in {"all", "aux_and_core", "core_only"}
  /\ {q.listens, q.thinking} \subseteq BOOLEAN

\* An answer has room for a field.
LEMMA FieldTokensAre ==
  ASSUME NEW s, SettingsAsked(s), NEW f, FieldAsked(f)
  PROVE  FieldTokens(f, s) \in Nat \ {0}
<1>1. CASE f.kind \in {"rationale", "boolean", "integer"}
  BY <1>1 DEF FieldTokens, SettingsAsked
<1>2. CASE f.kind = "enum"
  <2> DEFINE S == {1} \cup Range(f.values)
  <2>1. f.key \in Nat \ {0} /\ f.values \in Seq(Nat)
    BY <1>2 DEF FieldAsked
  <2>2. S \in SUBSET Nat /\ S \in SUBSET Int /\ 1 \in S
    BY <2>1 DEF Range
  <2>3. IsFiniteSet(S)
    <3> DEFINE n == Len(f.values)
               v == f.values
               R == Range(v)
    <3>1. IsFiniteSet(1..n) /\ n \in Nat /\ DOMAIN v = 1..n /\ v \in [1..n -> R]
      <4>1. n \in Nat /\ DOMAIN v = 1..n
        BY <2>1
      <4>2. v = [i \in 1..n |-> v[i]] /\ \A i \in 1..n : v[i] \in Range(v)
        BY <2>1, <4>1 DEF Range
      <4>3. IsFiniteSet(1..n)
        BY <4>1, FS_Interval
      <4> HIDE DEF v, n
      <4> QED BY <4>1, <4>2, <4>3
    <3> HIDE DEF n, v
    <3>2. \A y \in R : \E i \in 1..n : v[i] = y
      BY <3>1 DEF Range
    <3> HIDE DEF R
    <3>3. v \in Surjection(1..n, R)
      BY <3>1, <3>2 DEF Surjection
    <3>4. IsFiniteSet(R)
      BY <3>1, <3>3, FS_Surjection
    <3>5. S = R \cup {1}
      BY DEF R, v
    <3> QED BY <3>4, <3>5, FS_AddElement
  <2> HIDE DEF S
  <2>4. Max(S) \in Nat
    BY <2>2, <2>3, MaxIsGreatest
  <2>5. FieldTokens(f, s) = f.key + Max(S) + 6
    BY <1>2 DEF FieldTokens, S
  <2> QED BY <2>1, <2>4, <2>5
<1>3. CASE f.kind = "enum_set"
  <2>1. f.key \in Nat \ {0} /\ f.values \in Seq(Nat)
    BY <1>3 DEF FieldAsked
  <2>2. Total(f.values) \in Nat
    BY <2>1, TotalAtLeast
  <2>3. FieldTokens(f, s) = f.key + Total(f.values) + 4 + 2 * Greater(0, Len(f.values) - 1)
    BY <1>3 DEF FieldTokens
  <2>4. Greater(0, Len(f.values) - 1) \in Nat
    BY <2>1 DEF Greater
  <2> QED BY <2>1, <2>2, <2>3, <2>4
<1>4. CASE f.kind = "string"
  <2>1. f.key \in Nat \ {0} /\ f.longest \in Nat \cup {NoCap} /\ s.unbounded \in Nat \ {0}
    BY <1>4 DEF FieldAsked, SettingsAsked
  <2>2. FieldTokens(f, s) = IF f.longest = NoCap THEN s.unbounded ELSE f.key + (f.longest + 3) \div 4
    BY <1>4 DEF FieldTokens
  <2> QED BY <2>1, <2>2
<1> QED BY <1>1, <1>2, <1>3, <1>4 DEF FieldAsked

\* An answer takes at least one token beside what surrounds it.
LEMMA SchemaTokensAre ==
  ASSUME NEW q, SchemaAsked(q)
  PROVE  SchemaTokens(q) \in Nat \ {0}
<1> DEFINE fields == q.fields
           takes == [i \in DOMAIN fields |-> IF Admits(q.mode, fields[i]) THEN FieldTokens(fields[i], q.s) ELSE 0]
           n == Len(fields)
           overhead == q.s.overhead
<1>1. SettingsAsked(q.s) /\ \A i \in DOMAIN fields : FieldAsked(fields[i])
  BY DEF SchemaAsked
<1>2. \A i \in DOMAIN fields : takes[i] \in Nat
  <2> SUFFICES ASSUME NEW i \in DOMAIN fields PROVE takes[i] \in Nat
    OBVIOUS
  <2>1. FieldTokens(fields[i], q.s) \in Nat \ {0}
    BY <1>1, FieldTokensAre
  <2> HIDE DEF fields
  <2> QED BY <2>1
<1>3. DOMAIN fields = 1..n /\ n \in Nat
  <2> DEFINE T == ToSet(fields)
  <2>1. fields \in Seq(T)
    BY DEF SchemaAsked, IsSequence
  <2> HIDE DEF fields, T
  <2> QED BY <2>1
<1>4. PICK c \in DOMAIN fields : fields[c].role = "core" /\ fields[c].kind # "rationale"
  BY DEF SchemaAsked
<1>5. Admits(q.mode, fields[c])
  <2>1. q.mode \in {"all", "aux_and_core", "core_only"}
    BY DEF SchemaAsked
  <2> HIDE DEF fields
  <2> QED BY <1>4, <2>1 DEF Admits
<1>6. takes[c] \in Nat \ {0}
  <2>1. FieldTokens(fields[c], q.s) \in Nat \ {0}
    BY <1>1, FieldTokensAre
  <2> HIDE DEF fields
  <2> QED BY <1>5, <2>1
<1>7. SchemaTokens(q) = overhead + Total(takes)
  BY DEF SchemaTokens
<1>8. overhead \in Nat
  BY <1>1 DEF SettingsAsked
<1>9. takes \in Seq(Nat) /\ DOMAIN takes = 1..n
  <2>1. takes = [i \in 1..n |-> takes[i]]
    BY <1>3
  <2> HIDE DEF takes, fields, n
  <2> QED BY <1>2, <1>3, <2>1
<1> HIDE DEF takes, fields, n, overhead
<1>10. Total(takes) \in Nat /\ Total(takes) >= takes[c]
  BY <1>3, <1>9, TotalAtLeast
<1> QED BY <1>6, <1>7, <1>8, <1>10

\* What a request may take of the window, in whole tokens.
LEMMA PartIs ==
  ASSUME NEW a \in Nat, NEW b \in Nat \ {0}, NEW n \in Int
  PROVE  Part(<<a, b>>, n) \in Int /\ (n >= 0 => Part(<<a, b>>, n) \in Nat)
<1> DEFINE x == a * n
<1>1. x \in Int /\ (n >= 0 => x \in Nat)
  OBVIOUS
<1>2. Part(<<a, b>>, n) = x \div b
  BY DEF Part
<1> HIDE DEF x
<1> QED BY <1>1, <1>2

\* The parts of the window are numbers.
LEMMA RoomsAre ==
  ASSUME NEW q, SchemaAsked(q)
  PROVE  /\ Base(q) \in Nat /\ Base(q) >= 2 /\ Headroom(q) \in Nat /\ Ceiling(q) \in Nat
         /\ OutputRoom(q) \in Nat /\ InputRoom(q) \in Int /\ RoomAfterCut(q) \in Nat
         /\ q.s.override = NoCap => OutputRoom(q) = Least(Base(q) + Headroom(q), Ceiling(q))
<1>1. SettingsAsked(q.s) /\ q.window \in Nat
  BY DEF SchemaAsked
<1> DEFINE floor == q.s.floor
           room == q.s.headroom
           override == q.s.override
           window == q.window
<1>2. floor \in Nat \ {0} /\ room \in Nat /\ override \in (Nat \ {0}) \cup {NoCap} /\ window \in Nat
  BY <1>1 DEF SettingsAsked
<1>3. Base(q) = Greater(floor, 2 * SchemaTokens(q)) /\ SchemaTokens(q) \in Nat \ {0}
  BY SchemaTokensAre DEF Base
<1>4. Headroom(q) \in {room, 0}
  BY DEF Headroom
<1>5. Ceiling(q) \in Nat
  <2>1. PICK a \in Nat \ {0}, b \in Nat \ {0} : q.s.fraction = <<a, b>>
    BY <1>1 DEF SettingsAsked
  <2>2. Part(<<a, b>>, window) \in Nat
    BY <1>2, PartIs
  <2> QED BY <2>1, <2>2 DEF Ceiling
<1>6. OutputRoom(q) = IF override # NoCap THEN override ELSE Least(Base(q) + Headroom(q), Ceiling(q))
  BY DEF OutputRoom
<1>7. RoomAfterCut(q) = Least((3 * (Base(q) + Headroom(q))) \div 2, Ceiling(q))
  BY DEF RoomAfterCut
<1> DEFINE margin == q.s.margin
<1>8. InputRoom(q) = Part(margin, window - OutputRoom(q)) /\ margin \in (Nat \ {0}) \X (Nat \ {0})
  BY <1>1 DEF InputRoom, SettingsAsked
<1> HIDE DEF floor, room, override, window, margin
<1>9. Base(q) \in Nat /\ Base(q) >= 2
  BY <1>2, <1>3 DEF Greater
<1>10. Headroom(q) \in Nat
  BY <1>2, <1>4
<1>11. OutputRoom(q) \in Nat /\ RoomAfterCut(q) \in Nat
  BY <1>2, <1>5, <1>6, <1>7, <1>9, <1>10 DEF Least, NoCap
<1>12. InputRoom(q) \in Int
  <2>1. PICK a \in Nat \ {0}, b \in Nat \ {0} : margin = <<a, b>>
    BY <1>8
  <2>2. window - OutputRoom(q) \in Int
    BY <1>2, <1>11
  <2>3. Part(<<a, b>>, window - OutputRoom(q)) \in Int
    BY <2>2, PartIs
  <2> QED BY <1>8, <2>1, <2>3
<1>13. q.s.override = NoCap => OutputRoom(q) = Least(Base(q) + Headroom(q), Ceiling(q))
  BY <1>6 DEF override
<1> QED BY <1>5, <1>9, <1>10, <1>11, <1>12, <1>13

\* What a call becomes, part by part.
LEMMA InvokeIs ==
  ASSUME NEW q
  PROVE  LET r == Invoke(q)
             images == Batch(q, Exemplars(q))
         IN /\ r.shown = Exemplars(q) /\ r.message = Message(q, Exemplars(q), images)
            /\ r.sent = Sendings(q, images) /\ r.outcome = Outcome(q, Exemplars(q), Sendings(q, images))
  BY DEF Invoke

\* What is sent: nothing, one request, or one with its repetition.
LEMMA SendingsAre ==
  ASSUME NEW q, NEW images, SchemaAsked(q)
  PROVE  LET sent == Sendings(q, images) IN
         \/ sent = <<>> /\ Len(sent) = 0 /\ NotSent \in Range(images)
         \/ sent = <<OutputRoom(q)>> /\ Len(sent) = 1 /\ ~RepeatsFor(q) /\ NotSent \notin Range(images)
         \/ /\ sent \in Seq(Nat) /\ sent[1] = OutputRoom(q) /\ sent[2] = RoomAfterCut(q) /\ Len(sent) = 2
            /\ RepeatsFor(q) /\ NotSent \notin Range(images)
<1> DEFINE a == OutputRoom(q)
           b == RoomAfterCut(q)
           sent == Sendings(q, images)
           Lacks == NotSent \in Range(images)
           Again == RepeatsFor(q)
<1>1. sent = IF Lacks THEN <<>> ELSE <<a>> \o (IF Again THEN <<b>> ELSE <<>>)
  BY DEF Sendings
<1>2. a \in Nat /\ b \in Nat
  BY RoomsAre
<1> HIDE DEF a, b, sent, Lacks, Again
<1>3. CASE Lacks
  BY <1>1, <1>3 DEF sent, Lacks
<1>4. CASE ~Lacks /\ ~Again
  <2>1. sent = <<a>> \o <<>> /\ <<a>> \in Seq(Nat) /\ Len(<<a>>) = 1
    BY <1>1, <1>2, <1>4
  <2>2. <<a>> \o <<>> = <<a>>
    BY <1>2, <2>1, ConcatEmptySeq
  <2> QED BY <1>4, <2>1, <2>2 DEF sent, Lacks, Again, a
<1>5. CASE ~Lacks /\ Again
  <2>1. sent = <<a>> \o <<b>> /\ <<a>> \in Seq(Nat) /\ Len(<<a>>) = 1 /\ <<b>> \in Seq(Nat) /\ Len(<<b>>) = 1
    BY <1>1, <1>2, <1>5
  <2> DEFINE x == <<a>>
             y == <<b>>
  <2>2. x \in Seq(Nat) /\ Len(x) = 1 /\ y \in Seq(Nat) /\ Len(y) = 1 /\ x[1] = a /\ y[1] = b /\ sent = x \o y
    BY <2>1
  <2> HIDE DEF x, y
  <2>3. /\ x \o y \in Seq(Nat) /\ Len(x \o y) = Len(x) + Len(y)
        /\ \A i \in 1..(Len(x) + Len(y)) : (x \o y)[i] = IF i <= Len(x) THEN x[i] ELSE y[i - Len(x)]
    BY <2>2, ConcatProperties
  <2>4. 1 \in 1..(1 + 1) /\ 2 \in 1..(1 + 1) /\ 2 - 1 = 1
    OBVIOUS
  <2>5. sent \in Seq(Nat) /\ Len(sent) = 2 /\ sent[1] = a /\ sent[2] = b
    BY <2>2, <2>3, <2>4
  <2> QED BY <1>5, <2>5 DEF sent, Lacks, Again, a, b
<1> QED BY <1>3, <1>4, <1>5

\* A repetition has more room, and there is none only if there was none to give.
LEMMA RepetitionIs ==
  ASSUME NEW q, SchemaAsked(q), q.s.override = NoCap, ~(RoomAfterCut(q) > OutputRoom(q))
  PROVE  OutputRoom(q) = Ceiling(q)
<1> DEFINE x == Base(q) + Headroom(q)
           c == Ceiling(q)
<1>1. x \in Nat /\ x >= 2 /\ c \in Nat /\ OutputRoom(q) = Least(x, c)
  BY RoomsAre
<1>2. RoomAfterCut(q) = Least((3 * x) \div 2, c)
  BY DEF RoomAfterCut
<1> HIDE DEF x, c
<1>3. (3 * x) \div 2 \in Nat /\ (3 * x) \div 2 > x
  BY <1>1
<1>4. CASE x < c
  BY <1>1, <1>2, <1>3, <1>4 DEF Least
<1>5. CASE ~(x < c)
  BY <1>1, <1>5 DEF Least, c
<1> QED BY <1>4, <1>5

\* A repetition has more room, and within the window.
LEMMA RoomIsGranted ==
  ASSUME NEW q, SchemaAsked(q)
  PROVE  GrantsRoom(q, Invoke(q))
<1> DEFINE images == Batch(q, Exemplars(q))
           sent == Sendings(q, images)
           room == q.s.headroom
           c == Ceiling(q)
           forThought == Least(room, c)
           out == OutputRoom(q)
           again == RoomAfterCut(q)
           Cut == q.answers[1].cut
           Free == q.s.override = NoCap
           Off == SwitchesOff(q)
           Thinks == q.toggle # "none"
           note == RationaleRoom(q)
<1>1. GrantsRoom(q, Invoke(q)) <=>
        /\ Len(sent) = 2 => Cut /\ sent[2] > sent[1]
        /\ Len(sent) = 1 /\ Cut /\ Free => sent[1] = c
        /\ sent # <<>> /\ Free /\ Thinks /\ ~(sent # <<>> /\ Off) => sent[1] >= forThought
        /\ Thinks /\ ~Off => note >= forThought
  <2>1. Invoke(q).sent = sent /\ Invoke(q).outcome.thinking = (sent # <<>> /\ Off)
    <3>1. Invoke(q).sent = sent /\ Invoke(q).outcome = Outcome(q, Exemplars(q), sent)
      BY InvokeIs
    <3>2. Outcome(q, Exemplars(q), sent).thinking = (sent # <<>> /\ SwitchesOff(q))
      BY DEF Outcome
    <3> QED BY <3>1, <3>2
  <2> QED BY <2>1 DEF GrantsRoom
<1>2. \/ sent = <<>> /\ Len(sent) = 0
      \/ sent = <<out>> /\ Len(sent) = 1 /\ ~RepeatsFor(q)
      \/ sent[1] = out /\ sent[2] = again /\ Len(sent) = 2 /\ RepeatsFor(q)
  BY SendingsAre
<1>3. RepeatsFor(q) <=> Cut /\ again > out
  BY DEF RepeatsFor
<1>4. Free /\ ~(again > out) => out = c
  BY RepetitionIs
<1>5. /\ Base(q) \in Nat /\ Headroom(q) \in Nat /\ c \in Nat /\ out \in Nat /\ again \in Nat
      /\ Free => out = Least(Base(q) + Headroom(q), c)
  BY RoomsAre
<1>6. Thinks /\ ~Off => Headroom(q) = room
  BY DEF Headroom, Reasons
<1>7. note = Least(Greater(q.s.floor, 2 * q.s.note) + Headroom(q), c)
  BY DEF RationaleRoom
<1>8. room \in Nat /\ Greater(q.s.floor, 2 * q.s.note) \in Nat
  <2>1. SettingsAsked(q.s)
    BY DEF SchemaAsked
  <2> QED BY <2>1 DEF SettingsAsked, Greater
<1> DEFINE least == Greater(q.s.floor, 2 * q.s.note)
           H == Headroom(q)
           B == Base(q)
<1>9. /\ least \in Nat /\ H \in Nat /\ B \in Nat /\ room \in Nat /\ c \in Nat /\ out \in Nat
      /\ note = Least(least + H, c) /\ (Free => out = Least(B + H, c)) /\ (Thinks /\ ~Off => H = room)
  BY <1>5, <1>6, <1>7, <1>8
<1>t. forThought = Least(room, c)
  OBVIOUS
<1> HIDE DEF least, H, B, note, c, out, again, room, sent, Cut, Free, Off, Thinks, forThought
<1>10. (Thinks /\ ~Off => note >= forThought) /\ (Free /\ Thinks /\ ~Off => out >= forThought)
  BY <1>9, <1>t DEF Least
<1>11. sent # <<>> => sent[1] = out
  BY <1>2
<1>12. Len(sent) = 2 => Cut /\ sent[2] > sent[1]
  BY <1>2, <1>3
<1>13. Len(sent) = 1 /\ Cut /\ Free => sent[1] = c
  BY <1>2, <1>3, <1>4
<1> QED BY <1>1, <1>10, <1>11, <1>12, <1>13

SpendsBy(g, seq, n, cost) ==
  /\ Spent(seq, n, cost) = g[n] /\ g[0] = 0
  /\ \A i \in 1..n : g[i] = g[i - 1] + cost[seq[i]]
  /\ \A i \in 0..n : g[i] \in Nat

\* What a sequence costs is added up one by one.
LEMMA IsSpentBy ==
  ASSUME NEW n \in Nat, NEW seq, NEW cost, \A i \in 1..n : cost[seq[i]] \in Nat
  PROVE  \E g : SpendsBy(g, seq, n, cost)
BY SpentIs DEF SpendsBy

\* The order in which exemplars are shown changes nothing of what they cost.
LEMMA BookendCosts ==
  ASSUME NEW T, NEW e \in Seq(T), NEW cost, \A x \in T : cost[x] \in Nat
  PROVE  Spent(Bookend(e), Len(e), cost) = Spent(e, Len(e), cost)
<1> DEFINE n == Len(e)
           b == Bookend(e)
<1>1. /\ n \in Nat /\ \A i \in 1..n : e[i] \in T
      /\ b \in Seq(T) /\ Len(b) = n
      /\ n <= 2 => b = e
      /\ n > 2 => b[1] = e[1] /\ b[n] = e[2] /\ \A i \in 2..(n - 1) : b[i] = e[i + 1]
  BY BookendMoves
<1> HIDE DEF n, b
<1>2. CASE n <= 2
  BY <1>1, <1>2 DEF b, n
<1>3. CASE ~(n <= 2)
  <2>1. \A i \in 1..n : b[i] \in T
    BY <1>1
  <2>2. PICK g : SpendsBy(g, e, n, cost)
    <3>1. \A i \in 1..n : cost[e[i]] \in Nat
      BY <1>1
    <3>2. n \in Nat
      BY <1>1
    <3> QED BY <3>1, <3>2, IsSpentBy
  <2>3. PICK h : SpendsBy(h, b, n, cost)
    <3>1. \A i \in 1..n : cost[b[i]] \in Nat
      BY <1>1, <2>1
    <3>2. n \in Nat
      BY <1>1
    <3> QED BY <3>1, <3>2, IsSpentBy
  <2>s. /\ Spent(e, n, cost) = g[n] /\ g[0] = 0
        /\ \A i \in 1..n : g[i] = g[i - 1] + cost[e[i]]
        /\ \A i \in 0..n : g[i] \in Nat
    BY <2>2 DEF SpendsBy
  <2>t. /\ Spent(b, n, cost) = h[n] /\ h[0] = 0
        /\ \A i \in 1..n : h[i] = h[i - 1] + cost[b[i]]
        /\ \A i \in 0..n : h[i] \in Nat
    BY <2>3 DEF SpendsBy
  <2> DEFINE m == n - 2
             c == cost[e[2]]
             k == [j \in 0..m |-> h[j + 1]]
             X == [j \in 0..m |-> {g[j + 2] - c}]
  <2>4. m \in Nat /\ n = m + 2 /\ c \in Nat /\ 0 \in 0..m /\ m \in 0..m
    BY <1>1, <1>3
  <2>5. h[1] = cost[e[1]] /\ g[1] = cost[e[1]] /\ g[2] = g[1] + c
    <3>1. 1 \in 1..n /\ 2 \in 1..n /\ 1 - 1 = 0 /\ 2 - 1 = 1
      BY <1>1, <1>3
    <3>2. cost[e[1]] \in Nat
      BY <1>1, <3>1
    <3>3. h[1] = 0 + cost[e[1]] /\ g[1] = 0 + cost[e[1]]
      BY <1>1, <1>3, <2>s, <2>t, <3>1
    <3>4. g[2] = g[1] + c
      BY <2>s, <3>1
    <3> QED BY <3>2, <3>3, <3>4
  <2>6. k[0] \in X[0]
    <3>1. cost[e[1]] \in Nat /\ 0 + 1 = 1 /\ 0 + 2 = 2
      BY <1>1, <1>3
    <3>2. k[0] = h[1] /\ X[0] = {g[2] - c}
      BY <2>4, <3>1
    <3> HIDE DEF k, X, c, m
    <3> QED BY <2>4, <2>5, <3>1, <3>2
  <2>7. ASSUME NEW j \in 1..m, k[j - 1] \in X[j - 1] PROVE k[j] \in X[j]
    <3>1. j - 1 \in 0..m /\ j \in 0..m /\ j \in Nat /\ (j - 1) + 1 = j /\ (j - 1) + 2 = j + 1
      BY <2>4
    <3>2. h[j] = g[j + 1] - c
      BY <2>7, <3>1
    <3>3. j + 1 \in 1..n /\ j + 1 \in 2..(n - 1) /\ (j + 1) - 1 = j /\ j + 2 \in 1..n /\ (j + 2) - 1 = j + 1 /\ (j + 1) + 1 = j + 2
      BY <2>4, <3>1
    <3> HIDE DEF k, X, c, m
    <3>4. h[j + 1] = h[j] + cost[e[j + 2]]
      BY <1>1, <1>3, <2>t, <3>3
    <3>5. g[j + 2] = g[j + 1] + cost[e[j + 2]]
      BY <2>s, <3>3
    <3>6. g[j + 1] \in Nat /\ cost[e[j + 2]] \in Nat
      BY <1>1, <2>s, <3>3
    <3>7. h[j + 1] = g[j + 2] - c
      BY <2>4, <3>2, <3>4, <3>5, <3>6
    <3> QED BY <3>1, <3>7 DEF k, X
  <2>8. \A j \in 0..m : k[j] \in X[j]
    <3> HIDE DEF k, X, m
    <3> QED BY <2>4, <2>6, <2>7, LoopKeeps
  <2>9. h[m + 1] = g[m + 2] - c
    BY <2>4, <2>8
  <2>10. n \in 1..n /\ n - 1 = m + 1
    BY <2>4
  <2>11. h[n] = h[m + 1] + c
    BY <1>1, <1>3, <2>t, <2>10
  <2>12. g[n] \in Nat /\ m + 2 = n
    BY <2>s, <2>4, <2>10
  <2> HIDE DEF m, c, k, X
  <2>13. h[n] = g[n]
    BY <2>4, <2>9, <2>11, <2>12
  <2> QED BY <2>s, <2>t, <2>13 DEF b, n
<1> QED BY <1>2, <1>3

\* The candidates, each there once, and what is known of them; what bounds the
\* exemplars besides.
CandidatesAsked(q) ==
  /\ q.cands \in Seq(Int) /\ OnceEach(q.cands) /\ NoKey \notin ToSet(q.cands)
  /\ \A k \in ToSet(q.cands) : /\ k \in q.has => q.near[k] \in Int
                               /\ \A i \in DOMAIN q.fields : q.labels[k][i] \in Nat
  /\ q.embedded \in BOOLEAN /\ q.depth \in Nat \cup {NoCap} /\ q.modelDepth \in Nat \cup {NoCap}
  /\ q.maxImages \in Int /\ q.fixed \in Nat

\* An exemplar takes a number of tokens.
LEMMA ExemplarTokensAre ==
  ASSUME NEW q, SchemaAsked(q), CandidatesAsked(q), NEW k \in ToSet(q.cands)
  PROVE  ExemplarTokens(q, k) \in Nat
<1> DEFINE fields == q.fields
           stated == q.labels[k]
           n == Len(fields)
           takes == [i \in DOMAIN fields |-> IF Admits(q.iclMode, fields[i]) THEN stated[i] ELSE 0]
<1>1. DOMAIN fields = 1..n /\ n \in Nat
  <2> DEFINE T == ToSet(fields)
  <2>1. fields \in Seq(T)
    BY DEF SchemaAsked, IsSequence
  <2> HIDE DEF fields, T
  <2> QED BY <2>1
<1>2. \A i \in DOMAIN fields : stated[i] \in Nat
  BY DEF CandidatesAsked
<1>3. ExemplarTokens(q, k) = 10 + Total(takes)
  BY DEF ExemplarTokens
<1>4. takes \in Seq(Nat)
  <2> HIDE DEF fields, stated, n
  <2>1. \A i \in 1..n : takes[i] \in Nat
    BY <1>1, <1>2
  <2>2. takes = [i \in 1..n |-> takes[i]]
    BY <1>1
  <2> HIDE DEF takes
  <2> QED BY <1>1, <2>1, <2>2
<1> HIDE DEF takes
<1>5. Total(takes) \in Nat
  BY <1>4, TotalAtLeast
<1> QED BY <1>3, <1>5

\* Without a query to be like, the exemplars are chosen as if nothing were known
\* of them.
LEMMA WithoutLikeness ==
  ASSUME NEW cands, cands \in Seq(Int), NEW has, NEW near, NEW knobs,
         knobs.gap = NoCap, knobs.floor = NoCap
  PROVE  SelectIcl(cands, has, near, FALSE, knobs) = SelectIcl(cands, {}, near, TRUE, knobs)
<1>1. RelevanceOrder(cands, has, near, FALSE) = cands
  BY DEF RelevanceOrder
<1>2. RelevanceOrder(cands, {}, near, TRUE) = cands
  <2>1. ToSet(Among(cands, {})) = {}
    BY AmongIs
  <2>2. Range(Among(cands, {})) = {}
    BY <2>1 DEF Range, ToSet
  <2> QED BY <2>2 DEF RelevanceOrder
<1> DEFINE sims == [i \in DOMAIN cands |-> IF cands[i] \in {} THEN near[cands[i]] ELSE -1]
<1>3. AdaptiveCutoff(sims, knobs.gap, knobs.floor, NoCap) = Len(sims)
  BY DEF AdaptiveCutoff
<1>4. Len(sims) = Len(cands)
  <2>1. DOMAIN cands = 1..Len(cands) /\ Len(cands) \in Nat
    OBVIOUS
  <2>2. sims = [i \in 1..Len(cands) |-> -1]
    BY <2>1
  <2> HIDE DEF sims
  <2> QED BY <2>1, <2>2
<1> DEFINE Upto(n) == IF knobs.depth = NoCap THEN n ELSE Least(n, knobs.depth)
<1>5. SelectIcl(cands, has, near, FALSE, knobs) =
        SubSeq(cands, 1, Upto(Len(cands)))
  BY <1>1 DEF SelectIcl
<1> DEFINE kept == AdaptiveCutoff(sims, knobs.gap, knobs.floor, NoCap)
<1>6. SelectIcl(cands, {}, near, TRUE, knobs) =
        SubSeq(cands, 1, Upto(kept))
  BY <1>2 DEF SelectIcl
<1>7. kept = Len(cands)
  BY <1>3, <1>4
<1> HIDE DEF sims, kept, Upto
<1> QED BY <1>5, <1>6, <1>7

\* What may be shown: candidates that fit what is left.
FitsIn(q, e) ==
  /\ e \in Seq(ToSet(q.cands))
  /\ Len(e) > 0 => /\ Len(e) <= ImagesLeft(q)
                   /\ Spent(e, Len(e), [k \in ToSet(q.cands) |-> ExemplarTokens(q, k)]) <=
                        Greater(0, InputRoom(q) - q.fixed)

\* The exemplars cost no more than the budget, and are no more than the images
\* that may go.
LEMMA HeadFitsIn ==
  ASSUME NEW q, ExemplarsAsked(q)
  PROVE  LET chosen == PruneByImages(PruneByTokens(SelectIcl(q.cands, q.has, q.near, TRUE, q.knobs),
                                                   q.cost, q.budget), q.images)
         IN /\ chosen \in Seq(ToSet(q.cands))
            /\ Len(chosen) > 0 => Len(chosen) <= q.images /\ Spent(chosen, Len(chosen), q.cost) <= q.budget
<1> DEFINE T == ToSet(q.cands)
           o == RelevanceOrder(q.cands, q.has, q.near, TRUE)
           chosen == PruneByImages(PruneByTokens(SelectIcl(q.cands, q.has, q.near, TRUE, q.knobs),
                                                 q.cost, q.budget), q.images)
           cost == q.cost
           cands == q.cands
           has == q.has
           near == q.near
<1>1. /\ T \in SUBSET Int /\ cands \in Seq(T) /\ OnceEach(cands)
      /\ \A k \in T : cost[k] \in Nat /\ (k \in has => near[k] \in Int)
      /\ q.budget \in Int /\ q.images \in Int
  <2>1. cands \in Seq(Int)
    BY DEF ExemplarsAsked
  <2>2. IsSequence(cands) /\ T \subseteq Int
    BY <2>1, SequenceOfItself
  <2> QED BY <2>2 DEF ExemplarsAsked, IsSequence
<1>2. o \in Seq(T)
  <2> HIDE DEF T, cands, has, near
  <2>1. \A k \in T \cap has : near[k] \in Int
    BY <1>1
  <2>2. RelevanceOrder(cands, has, near, TRUE) \in Seq(T)
    BY <1>1, <2>1, RelevanceIs
  <2> QED BY <2>2 DEF cands, has, near
<1>3. PICK n : HeadIsKept(q, o, n) /\ chosen = SubSeq(o, 1, n)
  BY ExemplarsAreHead
<1>4. n \in 0..Len(o) /\ (n > 0 => Spent(o, n, cost) <= q.budget /\ n <= q.images)
  BY <1>3 DEF HeadIsKept
<1> HIDE DEF o, chosen, T, cost
<1>5. chosen \in Seq(T) /\ Len(chosen) = n /\ \A i \in 1..n : chosen[i] = o[i]
  <2>1. 0 \in 0..n
    BY <1>4
  <2>2. /\ SubSeq(o, 1, n) \in Seq(T) /\ Len(SubSeq(o, 1, n)) = n
        /\ \A i \in 1..n : SubSeq(o, 1, n)[i] = o[i]
    BY <1>2, <1>4, <2>1, HeadOfHead
  <2> QED BY <1>3, <2>2
<1>6. Spent(chosen, n, cost) = Spent(o, n, cost)
  <2>1. n \in Nat /\ n <= n /\ \A i \in 1..n : o[i] \in T
    BY <1>2, <1>4
  <2>2. \A i \in 1..n : cost[o[i]] \in Nat
    BY <1>1, <2>1
  <2> QED BY <1>5, <2>1, <2>2, SpentGrows
<1>7. Len(chosen) > 0 => Len(chosen) <= q.images /\ Spent(chosen, Len(chosen), cost) <= q.budget
  BY <1>4, <1>5, <1>6
<1> QED BY <1>5, <1>7 DEF T, chosen, cost

\* What is shown are candidates in their order but for the second, and they fit.
LEMMA ShownIs ==
  ASSUME NEW q, SchemaAsked(q), CandidatesAsked(q)
  PROVE  \E e : FitsIn(q, e) /\ Exemplars(q) = Bookend(e)
<1> DEFINE T == ToSet(q.cands)
           cost == [k \in T |-> ExemplarTokens(q, k)]
           budget == Greater(0, InputRoom(q) - q.fixed)
           knobs == [gap |-> NoCap, floor |-> NoCap, depth |-> Depth(q)]
           chosen == SelectIcl(q.cands, q.has, q.near, q.embedded, knobs)
           images == ImagesLeft(q)
           e == PruneByImages(PruneByTokens(chosen, cost, budget), images)
           known == IF q.embedded THEN q.has ELSE {}
           h == [cands |-> q.cands, has |-> known, near |-> q.near, knobs |-> knobs, cost |-> cost,
                 budget |-> budget, images |-> images]
<1>1. Exemplars(q) = Bookend(e)
  <2>1. Range(q.cands) = T
    BY DEF Range, ToSet
  <2> QED BY <2>1 DEF Exemplars
<1>2. chosen = SelectIcl(q.cands, known, q.near, TRUE, knobs)
  <2>1. q.cands \in Seq(Int) /\ q.embedded \in BOOLEAN
    BY DEF CandidatesAsked
  <2>2. knobs.gap = NoCap /\ knobs.floor = NoCap
    OBVIOUS
  <2> DEFINE cands == q.cands
             has == q.has
             near == q.near
  <2>c. cands \in Seq(Int)
    BY <2>1
  <2> HIDE DEF knobs, cands, has, near
  <2>3. SelectIcl(cands, has, near, FALSE, knobs) = SelectIcl(cands, {}, near, TRUE, knobs)
    BY <2>c, <2>2, WithoutLikeness
  <2>4. CASE q.embedded = TRUE
    BY <2>4
  <2>5. CASE q.embedded = FALSE
    BY <2>3, <2>5 DEF cands, has, near
  <2> QED BY <2>1, <2>4, <2>5
<1>3. ExemplarsAsked(h)
  <2>1. /\ q.cands \in Seq(Int) /\ OnceEach(q.cands)
        /\ \A k \in T : k \in known => q.near[k] \in Int
        /\ q.fixed \in Nat /\ Depth(q) \in Nat \cup {NoCap} /\ images \in Int
    BY DEF CandidatesAsked, Depth, ImagesLeft
  <2>2. \A k \in T : cost[k] \in Nat
    BY ExemplarTokensAre
  <2>3. budget \in Int
    <3>1. InputRoom(q) \in Int
      BY RoomsAre
    <3> QED BY <2>1, <3>1 DEF Greater
  <2> HIDE DEF T, cost, budget, images, known
  <2>4. /\ h.cands = q.cands /\ h.has = known /\ h.near = q.near /\ h.knobs = knobs
        /\ h.cost = cost /\ h.budget = budget /\ h.images = images
    OBVIOUS
  <2>5. knobs.gap = NoCap /\ knobs.floor = NoCap /\ knobs.depth = Depth(q) /\ NoCap \in Int
    BY DEF NoCap
  <2> HIDE DEF h, knobs
  <2>6. ToSet(h.cands) = T
    BY <2>4 DEF T
  <2> QED BY <2>1, <2>2, <2>3, <2>4, <2>5, <2>6 DEF ExemplarsAsked
<1>4. /\ h.cands = q.cands /\ h.images = images /\ h.budget = budget /\ h.cost = cost
      /\ PruneByImages(PruneByTokens(SelectIcl(h.cands, h.has, h.near, TRUE, h.knobs), h.cost, h.budget), h.images) = e
  <2>1. /\ h.cands = q.cands /\ h.has = known /\ h.near = q.near /\ h.knobs = knobs
        /\ h.cost = cost /\ h.budget = budget /\ h.images = images
    OBVIOUS
  <2> HIDE DEF h, knobs, cost, budget, images, known
  <2> QED BY <1>2, <2>1
<1> HIDE DEF h, e
<1>5. e \in Seq(T) /\ (Len(e) > 0 => Len(e) <= images /\ Spent(e, Len(e), cost) <= budget)
  BY <1>3, <1>4, HeadFitsIn
<1>6. FitsIn(q, e)
  BY <1>5 DEF FitsIn
<1> QED BY <1>1, <1>6

\* What the exemplars that are shown cost.
ShownTokens(q) == Total([i \in DOMAIN Exemplars(q) |-> ExemplarTokens(q, Exemplars(q)[i])])

\* So do those of a request, in what its window leaves.
LEMMA ShownFits ==
  ASSUME NEW q, SchemaAsked(q), CandidatesAsked(q)
  PROVE  /\ Exemplars(q) \in Seq(ToSet(q.cands))
         /\ Len(Exemplars(q)) > 0 => Len(Exemplars(q)) <= ImagesLeft(q)
         /\ ShownTokens(q) \in Nat /\ ShownTokens(q) <= Greater(0, InputRoom(q) - q.fixed)
<1> DEFINE T == ToSet(q.cands)
           cost == [k \in T |-> ExemplarTokens(q, k)]
           budget == Greater(0, InputRoom(q) - q.fixed)
           shown == Exemplars(q)
           takes == [i \in DOMAIN shown |-> ExemplarTokens(q, shown[i])]
<1>1. PICK e : FitsIn(q, e) /\ shown = Bookend(e)
  BY ShownIs
<1> DEFINE n == Len(e)
<1>2. /\ e \in Seq(T) /\ n \in Nat /\ \A i \in 1..n : e[i] \in T
      /\ n > 0 => n <= ImagesLeft(q) /\ Spent(e, n, cost) <= budget
  BY <1>1 DEF FitsIn
<1>3. \A k \in T : cost[k] \in Nat /\ cost[k] = ExemplarTokens(q, k)
  BY ExemplarTokensAre
<1>4. budget \in Nat
  <2>1. InputRoom(q) \in Int /\ q.fixed \in Nat
    BY RoomsAre DEF CandidatesAsked
  <2> QED BY <2>1 DEF Greater
<1>5. shown \in Seq(T) /\ Len(shown) = n
  <2> HIDE DEF T, shown
  <2> QED BY <1>1, <1>2, BookendMoves
<1>6. Spent(shown, n, cost) = Spent(e, n, cost)
  <2> HIDE DEF T, shown, cost, n
  <2>1. Spent(Bookend(e), Len(e), cost) = Spent(e, Len(e), cost)
    BY <1>2, <1>3, BookendCosts
  <2> QED BY <1>1, <2>1 DEF n
<1>7. DOMAIN shown = 1..n /\ \A i \in 1..n : shown[i] \in T
  <2> HIDE DEF shown, T, n
  <2> QED BY <1>2, <1>5
<1>8. ShownTokens(q) = Spent(shown, n, cost)
  <2>1. takes = [i \in 1..n |-> cost[shown[i]]]
    <3> HIDE DEF shown, T, n, cost
    <3> QED BY <1>3, <1>7
  <2>2. ShownTokens(q) = Total(takes)
    BY DEF ShownTokens
  <2> HIDE DEF takes
  <2> QED BY <2>1, <2>2 DEF Spent
<1>9. PICK g : SpendsBy(g, shown, n, cost)
  <2> HIDE DEF shown, T, n, cost
  <2>1. \A i \in 1..n : cost[shown[i]] \in Nat
    BY <1>3, <1>7
  <2>2. n \in Nat
    BY <1>2
  <2> QED BY <2>1, <2>2, IsSpentBy
<1>10. Spent(shown, n, cost) \in Nat /\ (n = 0 => Spent(shown, n, cost) = 0)
  <2>1. Spent(shown, n, cost) = g[n] /\ g[0] = 0 /\ \A i \in 0..n : g[i] \in Nat
    BY <1>9 DEF SpendsBy
  <2>2. n \in 0..n
    BY <1>2
  <2> HIDE DEF n, cost, shown
  <2> QED BY <2>1, <2>2
<1> HIDE DEF T, cost, budget, n, shown
<1>11. Spent(shown, n, cost) <= budget
  <2>1. CASE n = 0
    BY <1>4, <1>10, <2>1
  <2>2. CASE n # 0
    BY <1>2, <1>6, <2>2
  <2> QED BY <2>1, <2>2
<1> QED BY <1>2, <1>5, <1>8, <1>10, <1>11 DEF T, shown, budget

\* Whatever the window is, prompt and answer fit it.
LEMMA WindowHolds ==
  ASSUME NEW q, SchemaAsked(q), CandidatesAsked(q)
  PROVE  StaysInTheWindow(q, Invoke(q))
<1> DEFINE sent == Sendings(q, Batch(q, Exemplars(q)))
           prompt == q.fixed + ShownTokens(q)
           w == q.window
           x == Base(q) + Headroom(q)
           c == Ceiling(q)
           o == OutputRoom(q)
           a == RoomAfterCut(q)
           fixed == q.fixed
           shown == ShownTokens(q)
           room == InputRoom(q)
<1>1. SUFFICES ASSUME q.s = Delivered, fixed <= room
               PROVE  \A i \in DOMAIN sent : prompt + sent[i] <= w
  <2>1. Invoke(q).sent = sent /\ Invoke(q).shown = Exemplars(q)
    BY InvokeIs
  <2>2. StaysInTheWindow(q, Invoke(q)) <=>
          (q.s = Delivered /\ fixed <= room => \A i \in DOMAIN sent : prompt + sent[i] <= w)
    BY <2>1 DEF StaysInTheWindow, ShownTokens
  <2> QED BY <2>2
<1>2. /\ x \in Nat /\ c \in Nat /\ o \in Nat /\ a \in Nat /\ room \in Int
      /\ q.s.override = NoCap => o = Least(x, c)
  BY RoomsAre
<1>3. q.s.override = NoCap /\ q.s.fraction = <<1, 4>> /\ q.s.margin = <<17, 20>>
  BY <1>1 DEF Delivered
<1>4. w \in Nat /\ fixed \in Nat
  BY DEF SchemaAsked, CandidatesAsked
<1>5. c = (1 * w) \div 4 /\ room = (17 * (w - o)) \div 20 /\ a = Least((3 * x) \div 2, c)
  BY <1>3 DEF Ceiling, InputRoom, RoomAfterCut, Part
<1>6. shown \in Nat /\ shown <= Greater(0, room - fixed)
  BY ShownFits
<1>7. \A i \in DOMAIN sent : sent[i] \in {o, a}
  <2>1. \/ sent = <<>>
        \/ sent = <<o>>
        \/ sent \in Seq(Nat) /\ sent[1] = o /\ sent[2] = a /\ Len(sent) = 2
    BY SendingsAre
  <2> HIDE DEF sent, o, a
  <2> QED BY <2>1
<1>p. prompt = fixed + shown
  OBVIOUS
<1> HIDE DEF sent, w, x, c, o, a, fixed, shown, room, prompt
<1>8. o = Least(x, c)
  BY <1>2, <1>3
<1>9. prompt <= room /\ prompt \in Nat
  BY <1>1, <1>2, <1>4, <1>6, <1>p DEF Greater
<1>10. 4 * c <= w /\ 20 * room <= 17 * (w - o)
  BY <1>2, <1>4, <1>5
<1>11. o <= c /\ a <= c /\ 2 * a <= 3 * o
  <2>1. 2 * ((3 * x) \div 2) <= 3 * x /\ (3 * x) \div 2 \in Nat
    BY <1>2
  <2>2. o <= c /\ a <= c /\ a <= (3 * x) \div 2 /\ (o = x \/ o = c)
    BY <1>2, <1>5, <1>8, <2>1 DEF Least
  <2> QED BY <1>2, <2>1, <2>2
<1>12. prompt + o <= w /\ prompt + a <= w
  BY <1>2, <1>4, <1>9, <1>10, <1>11
<1> QED BY <1>7, <1>12

\* The answers: only what came validates.
AnswersAsked(q) ==
  \A i \in {1, 2} : /\ q.answers[i].valid \in BOOLEAN
                    /\ q.answers[i].valid => q.answers[i].error = "none"

\* A request succeeds with an answer that came and validates, and no other does.
LEMMA SuccessIs ==
  ASSUME NEW a, a.valid \in BOOLEAN
  PROVE  FinalStatus(a) = "success" <=> a.error = "none" /\ a.valid
<1> DEFINE error == a.error
           valid == a.valid
<1>1. valid \in BOOLEAN
  OBVIOUS
<1>2. TransportStatus(a) = "success" <=> error = "none"
  BY DEF TransportStatus
<1>3. FinalStatus(a) = CASE error = "429" -> "rate_limited"
                         [] error \notin {"none", "429"} -> TransportStatus(a)
                         [] error = "none" /\ valid  -> "success"
                         [] error = "none" /\ ~valid -> "schema_invalid"
  BY DEF FinalStatus
<1> HIDE DEF error, valid
<1>4. CASE error = "429"
  BY <1>3, <1>4 DEF error, valid
<1>5. CASE error \notin {"none", "429"}
  BY <1>2, <1>3, <1>5 DEF error, valid
<1>6. CASE error = "none" /\ valid
  BY <1>3, <1>6 DEF error, valid
<1>7. CASE error = "none" /\ ~valid
  BY <1>3, <1>7 DEF error, valid
<1> QED BY <1>4, <1>5, <1>6, <1>7

\* A success is an answer that came and validates.
LEMMA AnswerIs ==
  ASSUME NEW q, AnswersAsked(q), SchemaAsked(q), NEW images
  PROVE  LET sent == Sendings(q, images)
             a == Answer(q, sent)
         IN /\ FinalStatus(a) = "success" => sent # <<>> /\ q.answers[Len(sent)].error = "none" /\ q.answers[Len(sent)].valid
            /\ FinalStatus(a) = "success" <=> a.valid
            /\ sent = <<>> => FinalStatus(a) = "endpoint_error"
<1> DEFINE sent == Sendings(q, images)
           a == Answer(q, sent)
<1>1. (sent = <<>> /\ Len(sent) = 0) \/ (sent # <<>> /\ Len(sent) = 1) \/ (sent # <<>> /\ Len(sent) = 2)
  BY SendingsAre
<1>2. sent = <<>> => a = [error |-> "images", cut |-> FALSE, valid |-> FALSE]
  BY DEF Answer
<1>3. sent # <<>> => a = q.answers[Len(sent)]
  BY DEF Answer
<1> HIDE DEF sent, a
<1>4. CASE sent = <<>>
  <2>1. a.error = "images" /\ a.valid = FALSE
    BY <1>2, <1>4
  <2>2. TransportStatus(a) = "endpoint_error"
    BY <2>1 DEF TransportStatus
  <2>3. FinalStatus(a) = "endpoint_error"
    BY <2>1, <2>2 DEF FinalStatus
  <2> QED BY <1>4, <2>1, <2>3 DEF sent, a
<1>5. CASE sent # <<>>
  <2>1. PICK i \in {1, 2} : Len(sent) = i
    BY <1>1, <1>5
  <2>2. a = q.answers[i] /\ a.valid \in BOOLEAN /\ (a.valid => a.error = "none")
    BY <1>3, <1>5, <2>1 DEF AnswersAsked
  <2>3. FinalStatus(a) = "success" <=> a.error = "none" /\ a.valid
    BY <2>2, SuccessIs
  <2> QED BY <1>5, <2>1, <2>2, <2>3 DEF sent, a
<1> QED BY <1>4, <1>5

\* What a request is asked with.
AskedWith == {"s", "fields", "mode", "iclMode", "toggle", "listens", "thinking", "window", "cands", "has",
              "near", "embedded", "labels", "fixed", "depth", "modelDepth", "maxImages", "queried",
              "stored", "files", "limit", "answers"}

\* To go without exemplars is a request of its own.
LEMMA WithoutCandidates ==
  ASSUME NEW q, AskedWith \subseteq DOMAIN q, SchemaAsked(q), CandidatesAsked(q), AnswersAsked(q)
  PROVE  LET p == [q EXCEPT !.cands = <<>>] IN
         /\ SchemaAsked(p) /\ CandidatesAsked(p) /\ AnswersAsked(p)
         /\ p.answers = q.answers /\ p.cands = <<>>
<1> DEFINE p == [q EXCEPT !.cands = <<>>]
<1>1. \A f \in AskedWith \ {"cands"} : p[f] = q[f]
  BY DEF AskedWith
<1>2. p.cands = <<>>
  BY DEF AskedWith
<1>3. /\ p.s = q.s /\ p.fields = q.fields /\ p.mode = q.mode /\ p.listens = q.listens /\ p.thinking = q.thinking
      /\ p.window = q.window /\ p.answers = q.answers
  BY <1>1 DEF AskedWith
<1>4. /\ p.embedded = q.embedded /\ p.depth = q.depth /\ p.modelDepth = q.modelDepth
      /\ p.maxImages = q.maxImages /\ p.fixed = q.fixed
  BY <1>1 DEF AskedWith
<1> HIDE DEF p
<1>5. SchemaAsked(p)
  BY <1>3 DEF SchemaAsked
<1>6. AnswersAsked(p)
  BY <1>3 DEF AnswersAsked
<1>7. CandidatesAsked(p)
  <2>1. ToSet(p.cands) = {} /\ p.cands \in Seq(Int) /\ OnceEach(p.cands)
    BY <1>2 DEF ToSet, OnceEach
  <2> QED BY <1>4, <2>1 DEF CandidatesAsked
<1> QED BY <1>2, <1>3, <1>5, <1>6, <1>7 DEF p

\* A rationale comes of a long answer and an image that can be read.
LEMMA RationaleIs ==
  ASSUME NEW q, q.files[NoKey].readable \in BOOLEAN, NEW long \in BOOLEAN, RationaleStatus(q, long) = "success"
  PROVE  long /\ q.files[NoKey].readable
<1> DEFINE Sent == RationaleSent(q)
           came == q.answers[1].error = "none"
           told == TransportStatus(q.answers[1])
           file == q.files[NoKey]
<1>1. RationaleStatus(q, long) = CASE ~Sent -> "endpoint_error"
                                   [] Sent /\ came /\ ~long -> "endpoint_error"
                                   [] OTHER -> told
  BY DEF RationaleStatus
<1>2. told = "success" => came
  BY DEF TransportStatus
<1>3. Sent => file.readable
  <2>1. ~file.readable => AsSent(file, q.limit) = NotSent
    BY DEF AsSent
  <2> QED BY <2>1 DEF RationaleSent
<1>b. Sent \in BOOLEAN /\ came \in BOOLEAN
  BY DEF RationaleSent
<1> HIDE DEF Sent, came, told
<1>4. ~Sent => RationaleStatus(q, long) = "endpoint_error"
  BY <1>1, <1>b
<1>5. Sent /\ came /\ ~long => RationaleStatus(q, long) = "endpoint_error"
  BY <1>1, <1>b
<1>6. Sent /\ ~(came /\ ~long) => RationaleStatus(q, long) = told
  BY <1>1, <1>b
<1> QED BY <1>2, <1>3, <1>4, <1>5, <1>6

\* The record of an invocation tells what happened in it.
LEMMA RecordHolds ==
  ASSUME NEW q, AskedWith \subseteq DOMAIN q, SchemaAsked(q), CandidatesAsked(q), AnswersAsked(q),
         q.files[NoKey].readable \in BOOLEAN
  PROVE  RecordsWhatHappened(q, Invoke(q))
<1>1. ASSUME NEW p, SchemaAsked(p), AnswersAsked(p)
      PROVE  LET r == Invoke(p)
                 sent == Sendings(p, Batch(p, Exemplars(p)))
             IN /\ r.sent = sent /\ r.outcome.status = FinalStatus(Answer(p, sent))
                /\ r.sent # <<>> => r.outcome.room = Last(r.sent)
                /\ r.outcome.used = Exemplars(p)
                /\ r.outcome.attached = IF sent # <<>> /\ ShowsImages(p, Exemplars(p)) THEN Len(Exemplars(p)) ELSE 0
  <2> DEFINE sent == Sendings(p, Batch(p, Exemplars(p)))
             shown == Exemplars(p)
  <2>1. Invoke(p).sent = sent /\ Invoke(p).outcome = Outcome(p, shown, sent)
    BY InvokeIs
  <2>2. /\ Outcome(p, shown, sent).status = FinalStatus(Answer(p, sent))
        /\ Outcome(p, shown, sent).room = IF sent # <<>> THEN Last(sent) ELSE OutputRoom(p)
        /\ Outcome(p, shown, sent).used = shown
        /\ Outcome(p, shown, sent).attached = IF sent # <<>> /\ ShowsImages(p, shown) THEN Len(shown) ELSE 0
    BY DEF Outcome
  <2> HIDE DEF sent, shown
  <2> QED BY <2>1, <2>2 DEF sent, shown
<1> DEFINE p == [q EXCEPT !.cands = <<>>]
<1>2. /\ SchemaAsked(p) /\ CandidatesAsked(p) /\ AnswersAsked(p)
      /\ p.answers = q.answers /\ p.cands = <<>>
  BY WithoutCandidates
<1>3. BatchResult(q) = Invoke(IF q.icl = "disabled" THEN p ELSE q)
  BY DEF BatchResult
<1> DEFINE r == Invoke(q)
<1>4. r.sent # <<>> => r.outcome.room = Last(r.sent)
  BY <1>1
<1>5. r.outcome.status = "success" => r.sent # <<>> /\ q.answers[Len(r.sent)].error = "none" /\ q.answers[Len(r.sent)].valid
  <2> DEFINE sent == Sendings(q, Batch(q, Exemplars(q)))
  <2>1. r.sent = sent /\ r.outcome.status = FinalStatus(Answer(q, sent))
    BY <1>1
  <2>2. FinalStatus(Answer(q, sent)) = "success" => sent # <<>> /\ q.answers[Len(sent)].error = "none" /\ q.answers[Len(sent)].valid
    BY AnswerIs
  <2> HIDE DEF r, sent
  <2> QED BY <2>1, <2>2
<1>6. \A b \in {BatchResult(q)} :
        /\ b.outcome.status = "success" <=> Answer(q, b.sent).valid
        /\ q.icl = "disabled" => b.outcome.used = <<>> /\ b.outcome.attached = 0
  <2> DEFINE b == BatchResult(q)
             x == IF q.icl = "disabled" THEN p ELSE q
             sent == Sendings(x, Batch(x, Exemplars(x)))
  <2>1. SchemaAsked(x) /\ AnswersAsked(x) /\ x.answers = q.answers /\ b = Invoke(x)
    BY <1>2, <1>3
  <2>2. b.sent = sent /\ b.outcome.status = FinalStatus(Answer(x, sent))
    <3> HIDE DEF x
    <3> QED BY <1>1, <2>1
  <2>3. FinalStatus(Answer(x, sent)) = "success" <=> Answer(x, sent).valid
    <3> HIDE DEF x
    <3> QED BY <2>1, AnswerIs
  <2>4. Answer(x, sent) = Answer(q, sent)
    <3> HIDE DEF x, sent
    <3> QED BY <2>1 DEF Answer
  <2>5. ASSUME q.icl = "disabled" PROVE b.outcome.used = <<>> /\ b.outcome.attached = 0
    <3>1. b = Invoke(p)
      BY <1>3, <2>5
    <3> HIDE DEF p
    <3>2. Exemplars(p) = <<>>
      <4>1. Exemplars(p) \in Seq(ToSet(p.cands))
        BY <1>2, ShownFits
      <4>2. ToSet(p.cands) = {}
        BY <1>2 DEF ToSet
      <4> DEFINE s == Exemplars(p)
      <4>3. s \in Seq({})
        BY <4>1, <4>2
      <4> HIDE DEF s
      <4>4. s = <<>>
        BY <4>3
      <4> QED BY <4>4 DEF s
    <3>3. ~ShowsImages(p, <<>>)
      BY DEF ShowsImages
    <3>4. /\ Invoke(p).outcome.used = Exemplars(p)
          /\ Invoke(p).outcome.attached = IF Sendings(p, Batch(p, Exemplars(p))) # <<>> /\ ShowsImages(p, Exemplars(p))
                                          THEN Len(Exemplars(p)) ELSE 0
      BY <1>1, <1>2
    <3> QED BY <3>1, <3>2, <3>3, <3>4
  <2> HIDE DEF b, x, sent
  <2> QED BY <2>2, <2>3, <2>4, <2>5 DEF b
<1>7. \A long \in BOOLEAN : RationaleStatus(q, long) = "success" => long /\ q.files[NoKey].readable
  BY RationaleIs
<1> HIDE DEF r, p
<1> QED BY <1>4, <1>5, <1>6, <1>7 DEF RecordsWhatHappened, r

\* Single parts behind each other stay in their places; an empty last one adds
\* nothing.
LEMMA FlattenSingles ==
  ASSUME NEW T, NEW seqs, NEW n, SequencesOf(T, seqs, n), NEW m \in Nat,
         m = n \/ (n = m + 1 /\ seqs[n] = <<>>), \A i \in 1..m : Len(seqs[i]) = 1
  PROVE  /\ FlattenSeq(seqs) \in Seq(T) /\ Len(FlattenSeq(seqs)) = m
         /\ \A i \in 1..m : FlattenSeq(seqs)[i] = seqs[i][1]
<1>0. n \in Nat /\ \A i \in 1..n : seqs[i] \in Seq(T)
  BY DEF SequencesOf
<1>1. PICK g : FlatBy(g, seqs, n, T)
  BY FlattenIs
<1>2. /\ FlattenSeq(seqs) = g[n] /\ g[0] = <<>>
      /\ \A i \in 1..n : g[i] = g[i - 1] \o seqs[i]
      /\ \A i \in 0..n : g[i] \in Seq(T)
  BY <1>1 DEF FlatBy
<1>3. \A i \in 1..m : i \in 1..n
  BY <1>0
<1> DEFINE X == [i \in 0..m |-> {s \in Seq(T) : Len(s) = i /\ \A j \in 1..i : s[j] = seqs[j][1]}]
<1>4. g[0] \in X[0]
  <2>1. g[0] = <<>> /\ <<>> \in Seq(T) /\ Len(<<>>) = 0 /\ 0 \in 0..m /\ \A j \in 1..0 : FALSE
    BY <1>2
  <2> QED BY <2>1
<1>5. ASSUME NEW i \in 1..m, g[i - 1] \in X[i - 1] PROVE g[i] \in X[i]
  <2>1. i \in Nat /\ i - 1 \in 0..m /\ i \in 0..m /\ i \in 1..n /\ (i - 1) + 1 = i
    BY <1>3
  <2> DEFINE s == g[i - 1]
             t == seqs[i]
  <2>2. s \in Seq(T) /\ Len(s) = i - 1 /\ \A j \in 1..(i - 1) : s[j] = seqs[j][1]
    BY <1>5, <2>1
  <2>3. t \in Seq(T) /\ Len(t) = 1
    BY <1>0, <2>1
  <2>4. g[i] = s \o t
    BY <1>2, <2>1
  <2>c. t[1] = seqs[i][1]
    OBVIOUS
  <2> HIDE DEF s, t
  <2>5. /\ s \o t \in Seq(T) /\ Len(s \o t) = Len(s) + Len(t)
        /\ \A j \in 1..(Len(s) + Len(t)) : (s \o t)[j] = IF j <= Len(s) THEN s[j] ELSE t[j - Len(s)]
    BY <2>2, <2>3, ConcatProperties
  <2>6. g[i] \in Seq(T) /\ Len(g[i]) = i
    BY <2>1, <2>2, <2>3, <2>4, <2>5
  <2>7. ASSUME NEW j \in 1..i PROVE g[i][j] = seqs[j][1]
    <3>1. CASE j = i
      <4>1. j \in 1..(Len(s) + Len(t)) /\ ~(j <= Len(s)) /\ j - Len(s) = 1
        BY <2>1, <2>2, <2>3, <3>1
      <4> QED BY <2>4, <2>5, <2>c, <3>1, <4>1
    <3>2. CASE j # i
      <4>1. j \in 1..(i - 1) /\ j \in 1..(Len(s) + Len(t)) /\ j <= Len(s)
        BY <2>1, <2>2, <2>3, <3>2
      <4> QED BY <2>2, <2>4, <2>5, <4>1
    <3> QED BY <3>1, <3>2
  <2> QED BY <2>1, <2>6, <2>7
<1>6. \A i \in 0..m : g[i] \in X[i]
  <2> HIDE DEF X
  <2> QED BY <1>4, <1>5, LoopKeeps
<1>7. g[m] \in Seq(T) /\ Len(g[m]) = m /\ \A j \in 1..m : g[m][j] = seqs[j][1]
  BY <1>6
<1>8. g[n] = g[m]
  <2>1. CASE m = n
    BY <2>1
  <2>2. CASE n = m + 1 /\ seqs[n] = <<>>
    <3>1. n \in 1..n /\ n - 1 = m
      BY <2>2
    <3>2. g[n] = g[m] \o <<>>
      BY <1>2, <2>2, <3>1
    <3> QED BY <1>7, <3>2, ConcatEmptySeq
  <2> QED BY <2>1, <2>2
<1> QED BY <1>2, <1>7, <1>8

\* Pairs behind each other.
LEMMA FlattenPairs ==
  ASSUME NEW T, NEW seqs, NEW n, SequencesOf(T, seqs, n), \A i \in 1..n : Len(seqs[i]) = 2
  PROVE  /\ FlattenSeq(seqs) \in Seq(T) /\ Len(FlattenSeq(seqs)) = 2 * n
         /\ \A i \in 1..n : FlattenSeq(seqs)[2 * i - 1] = seqs[i][1] /\ FlattenSeq(seqs)[2 * i] = seqs[i][2]
<1>0. n \in Nat /\ \A i \in 1..n : seqs[i] \in Seq(T)
  BY DEF SequencesOf
<1>1. PICK g : FlatBy(g, seqs, n, T)
  BY FlattenIs
<1>2. /\ FlattenSeq(seqs) = g[n] /\ g[0] = <<>>
      /\ \A i \in 1..n : g[i] = g[i - 1] \o seqs[i]
      /\ \A i \in 0..n : g[i] \in Seq(T)
  BY <1>1 DEF FlatBy
<1> DEFINE Paired(s, i) == \A j \in 1..i : s[2 * j - 1] = seqs[j][1] /\ s[2 * j] = seqs[j][2]
           X == [i \in 0..n |-> {s \in Seq(T) : Len(s) = 2 * i /\ Paired(s, i)}]
<1>4. g[0] \in X[0]
  <2>1. g[0] = <<>> /\ <<>> \in Seq(T) /\ Len(<<>>) = 0 /\ 0 \in 0..n /\ 2 * 0 = 0 /\ \A j \in 1..0 : FALSE
    BY <1>0, <1>2
  <2> QED BY <2>1
<1>5. ASSUME NEW i \in 1..n, g[i - 1] \in X[i - 1] PROVE g[i] \in X[i]
  <2>1. i \in Nat /\ i - 1 \in 0..n /\ i \in 0..n /\ (i - 1) + 1 = i
    BY <1>0
  <2> DEFINE s == g[i - 1]
             t == seqs[i]
             k == 2 * (i - 1)
  <2>2. s \in Seq(T) /\ Len(s) = k /\ Paired(s, i - 1)
    BY <1>5, <2>1
  <2>3. t \in Seq(T) /\ Len(t) = 2
    BY <1>0, <2>1
  <2>4. g[i] = s \o t
    BY <1>2, <2>1
  <2>c. t[1] = seqs[i][1] /\ t[2] = seqs[i][2]
    OBVIOUS
  <2>k. k \in Nat /\ k + 2 = 2 * i
    BY <2>1
  <2> HIDE DEF s, t, k
  <2>5. /\ s \o t \in Seq(T) /\ Len(s \o t) = Len(s) + Len(t)
        /\ \A j \in 1..(Len(s) + Len(t)) : (s \o t)[j] = IF j <= Len(s) THEN s[j] ELSE t[j - Len(s)]
    BY <2>2, <2>3, ConcatProperties
  <2>6. g[i] \in Seq(T) /\ Len(g[i]) = 2 * i /\ \A j \in 1..(2 * i) : g[i][j] = IF j <= k THEN s[j] ELSE t[j - k]
    BY <2>2, <2>3, <2>4, <2>5, <2>k
  <2>7. ASSUME NEW j \in 1..i PROVE g[i][2 * j - 1] = seqs[j][1] /\ g[i][2 * j] = seqs[j][2]
    <3>1. CASE j = i
      <4>1. /\ 2 * j - 1 \in 1..(2 * i) /\ ~(2 * j - 1 <= k) /\ (2 * j - 1) - k = 1
            /\ 2 * j \in 1..(2 * i) /\ ~(2 * j <= k) /\ 2 * j - k = 2
        BY <2>1, <2>k, <3>1
      <4> QED BY <2>6, <2>c, <3>1, <4>1
    <3>2. CASE j # i
      <4>1. /\ j \in 1..(i - 1) /\ 2 * j - 1 \in 1..(2 * i) /\ 2 * j - 1 <= k
            /\ 2 * j \in 1..(2 * i) /\ 2 * j <= k
        BY <2>1, <2>k, <3>2
      <4> QED BY <2>2, <2>6, <4>1
    <3> QED BY <3>1, <3>2
  <2>8. Paired(g[i], i)
    BY <2>7
  <2> HIDE DEF Paired
  <2> QED BY <2>1, <2>6, <2>8
<1>6. \A i \in 0..n : g[i] \in X[i]
  <2> HIDE DEF X
  <2> QED BY <1>0, <1>4, <1>5, LoopKeeps
<1>7. n \in 0..n
  BY <1>0
<1> QED BY <1>2, <1>6, <1>7

StandIn(i) == <<"place", i>>
LabelOf(k) == <<"label", k>>
ImageAt(x) == <<"image", x>>
FilledIn(q, images, part) ==
  IF part[1] = "label" THEN <<part>>
  ELSE IF part[2] # NoKey THEN <<ImageAt(images[part[2]])>>
  ELSE IF q.queried THEN <<ImageAt(Last(images))>> ELSE <<>>

\* The images of a request: its exemplars', if they are shown, and the query's.
LEMMA BatchIs ==
  ASSUME NEW q, NEW T, NEW shown \in Seq(T), q.queried \in BOOLEAN
  PROVE  LET b == Batch(q, shown)
             K == IF ShowsImages(q, shown) THEN Len(shown) ELSE 0
             n == IF q.queried THEN K + 1 ELSE K
         IN /\ DOMAIN b = 1..n
            /\ \A j \in 1..K : b[j] = AsSent(q.files[shown[j]], q.limit)
            /\ q.queried => Last(b) = b[n] /\ b[n] = AsSent(q.files[NoKey], q.limit)
<1> DEFINE b == Batch(q, shown)
           with == ShowsImages(q, shown)
           K == IF with THEN Len(shown) ELSE 0
           n == IF q.queried THEN K + 1 ELSE K
           x == IF with THEN shown ELSE <<>>
           y == IF q.queried THEN <<NoKey>> ELSE <<>>
           keys == x \o y
           S == T \cup {NoKey}
           files == q.files
           limit == q.limit
<1>1. b = [i \in DOMAIN keys |-> AsSent(files[keys[i]], limit)]
  BY DEF Batch
<1>2. x \in Seq(S) /\ Len(x) = K /\ K \in Nat /\ \A j \in 1..K : x[j] = shown[j]
  <2>1. shown = [i \in 1..Len(shown) |-> shown[i]] /\ Len(shown) \in Nat /\ \A i \in 1..Len(shown) : shown[i] \in S
    OBVIOUS
  <2>2. shown \in Seq(S)
    <3> HIDE DEF S
    <3> QED BY <2>1
  <2> HIDE DEF S
  <2>3. CASE with
    BY <2>1, <2>2, <2>3
  <2>4. CASE ~with
    <3>1. x = <<>> /\ K = 0
      BY <2>4
    <3> HIDE DEF x, K
    <3> QED BY <3>1
  <2> QED BY <2>3, <2>4
<1>3. y \in Seq(S) /\ Len(y) = n - K /\ n \in Nat /\ (q.queried => Len(y) = 1 /\ y[1] = NoKey /\ n = K + 1)
  <2> HIDE DEF K
  <2>1. NoKey \in S
    OBVIOUS
  <2>2. CASE q.queried
    <3>1. y = <<NoKey>> /\ n = K + 1
      BY <2>2
    <3> HIDE DEF y, n, S
    <3> QED BY <1>2, <2>1, <3>1
  <2>3. CASE ~q.queried
    <3>1. y = <<>> /\ n = K
      BY <2>3
    <3> HIDE DEF y, n, S
    <3> QED BY <1>2, <2>3, <3>1
  <2> QED BY <2>2, <2>3
<1> HIDE DEF x, y, S, K, n, files, limit, b, with
<1>4. /\ keys \in Seq(S) /\ Len(keys) = n
      /\ \A j \in 1..n : keys[j] = IF j <= K THEN x[j] ELSE y[j - K]
  <2>1. /\ x \o y \in Seq(S) /\ Len(x \o y) = Len(x) + Len(y)
        /\ \A j \in 1..(Len(x) + Len(y)) : (x \o y)[j] = IF j <= Len(x) THEN x[j] ELSE y[j - Len(x)]
    BY <1>2, <1>3, ConcatProperties
  <2>2. Len(x) + Len(y) = n /\ Len(x) = K
    BY <1>2, <1>3
  <2> QED BY <2>1, <2>2
<1> HIDE DEF keys
<1>5. DOMAIN keys = 1..n
  BY <1>4
<1>6. DOMAIN b = 1..n /\ \A i \in 1..n : b[i] = AsSent(files[keys[i]], limit)
  BY <1>1, <1>5
<1>7. Len(b) = n
  BY <1>1, <1>3, <1>5
<1>8. \A j \in 1..K : b[j] = AsSent(files[shown[j]], limit)
  <2> SUFFICES ASSUME NEW j \in 1..K PROVE b[j] = AsSent(files[shown[j]], limit)
    OBVIOUS
  <2>1. j \in 1..n /\ j <= K
    <3>1. K <= n
      BY <1>2, <1>3 DEF n
    <3> QED BY <1>2, <1>3, <3>1
  <2>2. keys[j] = shown[j]
    BY <1>2, <1>4, <2>1
  <2> QED BY <1>6, <2>1, <2>2
<1>9. q.queried => Last(b) = b[n] /\ b[n] = AsSent(files[NoKey], limit)
  <2> SUFFICES ASSUME q.queried PROVE Last(b) = b[n] /\ b[n] = AsSent(files[NoKey], limit)
    OBVIOUS
  <2>1. n \in 1..n /\ ~(n <= K) /\ n - K = 1
    BY <1>2, <1>3
  <2>2. keys[n] = NoKey
    BY <1>3, <1>4, <2>1
  <2> QED BY <1>6, <1>7, <2>1, <2>2 DEF Last
<1> QED BY <1>6, <1>8, <1>9 DEF b, K, n, with, files, limit

\* The prompt: each label behind the place of its image, if images are shown,
\* and the query's place.
LEMMA RenderedIs ==
  ASSUME NEW q, NEW T, NEW shown \in Seq(T)
  PROVE  LET p == Rendered(q, shown)
             K == Len(shown)
             n == IF ShowsImages(q, shown) THEN 2 * K ELSE K
         IN /\ DOMAIN p = 1..(n + 1) /\ p[n + 1] = StandIn(NoKey)
            /\ ShowsImages(q, shown) => \A j \in 1..K : p[2 * j - 1] = StandIn(j) /\ p[2 * j] = LabelOf(shown[j])
            /\ ~ShowsImages(q, shown) => \A j \in 1..K : p[j] = LabelOf(shown[j])
<1> DEFINE p == Rendered(q, shown)
           K == Len(shown)
           with == ShowsImages(q, shown)
           n == IF with THEN 2 * K ELSE K
           seqs == [i \in DOMAIN shown |-> (IF with THEN <<StandIn(i)>> ELSE <<>>) \o <<LabelOf(shown[i])>>]
           S == {StandIn(j) : j \in 0..K} \cup {LabelOf(shown[j]) : j \in 1..K}
           z == <<StandIn(NoKey)>>
           flat == FlattenSeq(seqs)
<1>1. p = flat \o z
  BY DEF Rendered, StandIn, LabelOf
<1>2. DOMAIN shown = 1..K /\ K \in Nat
  OBVIOUS
<1>3. \A j \in 1..K : StandIn(j) \in S /\ LabelOf(shown[j]) \in S
  OBVIOUS
<1>4. StandIn(NoKey) \in S
  BY <1>2 DEF NoKey
<1> HIDE DEF S, p, with
<1>5. z \in Seq(S) /\ Len(z) = 1 /\ z[1] = StandIn(NoKey)
  BY <1>4
<1>6. Len(seqs) = K /\ (K = 0 => seqs = <<>>)
  <2>1. seqs = [i \in 1..K |-> (IF with THEN <<StandIn(i)>> ELSE <<>>) \o <<LabelOf(shown[i])>>]
    BY <1>2
  <2> HIDE DEF seqs, K
  <2> QED BY <1>2, <2>1
<1>s. \A i \in 1..K : seqs[i] = (IF with THEN <<StandIn(i)>> ELSE <<>>) \o <<LabelOf(shown[i])>>
  BY <1>2
<1> HIDE DEF seqs, z, flat, K
<1>7. /\ flat \in Seq(S) /\ Len(flat) = n /\ n \in Nat
      /\ with => \A j \in 1..K : flat[2 * j - 1] = StandIn(j) /\ flat[2 * j] = LabelOf(shown[j])
      /\ ~with => \A j \in 1..K : flat[j] = LabelOf(shown[j])
  <2>1. CASE with
    <3>1. ASSUME NEW i \in 1..K
          PROVE  seqs[i] \in Seq(S) /\ Len(seqs[i]) = 2 /\ seqs[i][1] = StandIn(i) /\ seqs[i][2] = LabelOf(shown[i])
      <4> DEFINE a == <<StandIn(i)>>
                 c == <<LabelOf(shown[i])>>
      <4>1. seqs[i] = a \o c
        BY <1>s, <2>1
      <4>2. a \in Seq(S) /\ c \in Seq(S) /\ Len(a) = 1 /\ Len(c) = 1 /\ a[1] = StandIn(i) /\ c[1] = LabelOf(shown[i])
        BY <1>3
      <4> HIDE DEF a, c
      <4>3. /\ a \o c \in Seq(S) /\ Len(a \o c) = Len(a) + Len(c)
            /\ \A j \in 1..(Len(a) + Len(c)) : (a \o c)[j] = IF j <= Len(a) THEN a[j] ELSE c[j - Len(a)]
        BY <4>2, ConcatProperties
      <4>4. 1 \in 1..(1 + 1) /\ 2 \in 1..(1 + 1) /\ 2 - 1 = 1
        OBVIOUS
      <4> QED BY <4>1, <4>2, <4>3, <4>4
    <3>2. SequencesOf(S, seqs, K) /\ \A i \in 1..K : Len(seqs[i]) = 2
      BY <1>2, <1>6, <3>1 DEF SequencesOf
    <3>3. /\ FlattenSeq(seqs) \in Seq(S) /\ Len(FlattenSeq(seqs)) = 2 * K
          /\ \A i \in 1..K : FlattenSeq(seqs)[2 * i - 1] = seqs[i][1] /\ FlattenSeq(seqs)[2 * i] = seqs[i][2]
      BY <3>2, FlattenPairs
    <3>4. flat \in Seq(S) /\ Len(flat) = 2 * K /\ \A i \in 1..K : flat[2 * i - 1] = StandIn(i) /\ flat[2 * i] = LabelOf(shown[i])
      BY <3>1, <3>3 DEF flat
    <3>5. n = 2 * K /\ n \in Nat
      BY <1>2, <2>1
    <3> HIDE DEF n
    <3> QED BY <2>1, <3>4, <3>5
  <2>2. CASE ~with
    <3>1. ASSUME NEW i \in 1..K
          PROVE  seqs[i] \in Seq(S) /\ Len(seqs[i]) = 1 /\ seqs[i][1] = LabelOf(shown[i])
      <4> DEFINE c == <<LabelOf(shown[i])>>
      <4>1. seqs[i] = <<>> \o c
        BY <1>s, <2>2
      <4>2. c \in Seq(S) /\ Len(c) = 1 /\ c[1] = LabelOf(shown[i])
        BY <1>3
      <4> HIDE DEF c
      <4>3. <<>> \o c = c
        BY <4>2, ConcatEmptySeq
      <4> QED BY <4>1, <4>2, <4>3
    <3>2. SequencesOf(S, seqs, K) /\ \A i \in 1..K : Len(seqs[i]) = 1
      BY <1>2, <1>6, <3>1 DEF SequencesOf
    <3>3. /\ FlattenSeq(seqs) \in Seq(S) /\ Len(FlattenSeq(seqs)) = K
          /\ \A i \in 1..K : FlattenSeq(seqs)[i] = seqs[i][1]
      BY <1>2, <3>2, FlattenSingles
    <3>4. flat \in Seq(S) /\ Len(flat) = K /\ \A i \in 1..K : flat[i] = LabelOf(shown[i])
      BY <3>1, <3>3 DEF flat
    <3>5. n = K /\ n \in Nat
      BY <1>2, <2>2
    <3> HIDE DEF n
    <3> QED BY <2>2, <3>4, <3>5
  <2> QED BY <2>1, <2>2
<1>n. (with => n = 2 * K) /\ (~with => n = K)
  OBVIOUS
<1> HIDE DEF n
<1>8. /\ p \in Seq(S) /\ Len(p) = n + 1
      /\ \A j \in 1..(n + 1) : p[j] = IF j <= n THEN flat[j] ELSE z[j - n]
  <2>1. /\ flat \o z \in Seq(S) /\ Len(flat \o z) = Len(flat) + Len(z)
        /\ \A j \in 1..(Len(flat) + Len(z)) : (flat \o z)[j] = IF j <= Len(flat) THEN flat[j] ELSE z[j - Len(flat)]
    BY <1>5, <1>7, ConcatProperties
  <2> QED BY <1>1, <1>5, <1>7, <2>1
<1>9. DOMAIN p = 1..(n + 1)
  BY <1>7, <1>8
<1>10. p[n + 1] = StandIn(NoKey)
  <2>1. n + 1 \in 1..(n + 1) /\ ~(n + 1 <= n) /\ (n + 1) - n = 1
    BY <1>7
  <2> QED BY <1>5, <1>8, <2>1
<1>11. ASSUME with, NEW j \in 1..K PROVE p[2 * j - 1] = StandIn(j) /\ p[2 * j] = LabelOf(shown[j])
  <2>1. 2 * j - 1 \in 1..(n + 1) /\ 2 * j - 1 <= n /\ 2 * j \in 1..(n + 1) /\ 2 * j <= n
    BY <1>2, <1>n, <1>11
  <2> QED BY <1>7, <1>8, <1>11, <2>1
<1>12. ASSUME ~with, NEW j \in 1..K PROVE p[j] = LabelOf(shown[j])
  <2>1. j \in 1..(n + 1) /\ j <= n
    BY <1>2, <1>n, <1>12
  <2> QED BY <1>7, <1>8, <1>12, <2>1
<1> QED BY <1>9, <1>10, <1>11, <1>12 DEF p, n, with, K

\* What stands in each place of the prompt.
LEMMA FillingIs ==
  ASSUME NEW q, NEW images
  PROVE  /\ \A k : FilledIn(q, images, LabelOf(k)) = <<LabelOf(k)>>
         /\ \A j : j # NoKey => FilledIn(q, images, StandIn(j)) = <<ImageAt(images[j])>>
         /\ q.queried => FilledIn(q, images, StandIn(NoKey)) = <<ImageAt(Last(images))>>
         /\ ~q.queried => FilledIn(q, images, StandIn(NoKey)) = <<>>
<1>1. \A k : LabelOf(k)[1] = "label" /\ StandIn(k)[1] = "place" /\ StandIn(k)[2] = k
  BY DEF LabelOf, StandIn
<1>2. "label" # "place"
  OBVIOUS
<1>3. ASSUME NEW k PROVE FilledIn(q, images, LabelOf(k)) = <<LabelOf(k)>>
  BY <1>1 DEF FilledIn
<1>4. ASSUME NEW j PROVE FilledIn(q, images, StandIn(j)) = IF j # NoKey THEN <<ImageAt(images[j])>>
                                                         ELSE IF q.queried THEN <<ImageAt(Last(images))>> ELSE <<>>
  BY <1>1, <1>2 DEF FilledIn
<1> QED BY <1>3, <1>4

\* The user's turn: the images in their places, each before its label.
LEMMA MessageIs ==
  ASSUME NEW q, NEW T, NEW shown \in Seq(T), q.queried \in BOOLEAN, NEW images
  PROVE  LET m == Message(q, shown, images)
             K == Len(shown)
             n == IF ShowsImages(q, shown) THEN 2 * K ELSE K
         IN /\ DOMAIN m = 1..(IF q.queried THEN n + 1 ELSE n) /\ Len(m) = IF q.queried THEN n + 1 ELSE n
            /\ ShowsImages(q, shown) =>
                 \A j \in 1..K : m[2 * j - 1] = ImageAt(images[j]) /\ m[2 * j] = LabelOf(shown[j])
            /\ ~ShowsImages(q, shown) => \A j \in 1..K : m[j] = LabelOf(shown[j])
            /\ q.queried => m[n + 1] = ImageAt(Last(images))
<1> DEFINE m == Message(q, shown, images)
           K == Len(shown)
           with == ShowsImages(q, shown)
           n == IF with THEN 2 * K ELSE K
           p == Rendered(q, shown)
           Fill(part) == FilledIn(q, images, part)
           seqs == [i \in DOMAIN p |-> Fill(p[i])]
           S == {Fill(p[i])[1] : i \in 1..(n + 1)}
           M == IF q.queried THEN n + 1 ELSE n
<1>1. m = FlattenSeq(seqs)
  BY DEF Message, FilledIn, ImageAt
<1>2. /\ DOMAIN p = 1..(n + 1) /\ p[n + 1] = StandIn(NoKey)
      /\ with => \A j \in 1..K : p[2 * j - 1] = StandIn(j) /\ p[2 * j] = LabelOf(shown[j])
      /\ ~with => \A j \in 1..K : p[j] = LabelOf(shown[j])
  BY RenderedIs
<1>3. K \in Nat /\ n \in Nat /\ (with => n = 2 * K) /\ (~with => n = K) /\ M \in Nat
  OBVIOUS
<1>m. (q.queried => M = n + 1) /\ (~q.queried => M = n) /\ q.queried \in BOOLEAN
  OBVIOUS
<1>4. /\ \A k : Fill(LabelOf(k)) = <<LabelOf(k)>>
      /\ \A j : j # NoKey => Fill(StandIn(j)) = <<ImageAt(images[j])>>
      /\ q.queried => Fill(StandIn(NoKey)) = <<ImageAt(Last(images))>>
      /\ ~q.queried => Fill(StandIn(NoKey)) = <<>>
  BY FillingIs
<1>s. \A i \in 1..(n + 1) : Fill(p[i])[1] \in S
  OBVIOUS
<1> HIDE DEF K, with, p, n, Fill, S, M
<1>5. Len(seqs) = n + 1 /\ \A i \in 1..(n + 1) : seqs[i] = Fill(p[i])
  <2>1. seqs = [i \in 1..(n + 1) |-> Fill(p[i])]
    BY <1>2
  <2> HIDE DEF seqs
  <2> QED BY <1>3, <2>1
<1> HIDE DEF seqs, m
<1>6. ASSUME with, NEW j \in 1..K
      PROVE  /\ seqs[2 * j - 1] = <<ImageAt(images[j])>> /\ seqs[2 * j] = <<LabelOf(shown[j])>>
  <2>1. 2 * j - 1 \in 1..(n + 1) /\ 2 * j \in 1..(n + 1) /\ j # NoKey
    BY <1>3, <1>6 DEF NoKey
  <2> QED BY <1>2, <1>4, <1>5, <1>6, <2>1
<1>7. ASSUME ~with, NEW j \in 1..K PROVE seqs[j] = <<LabelOf(shown[j])>>
  <2>1. j \in 1..(n + 1)
    BY <1>3, <1>7
  <2> QED BY <1>2, <1>4, <1>5, <1>7, <2>1
<1>8. n + 1 \in 1..(n + 1) /\ seqs[n + 1] = Fill(StandIn(NoKey))
  BY <1>2, <1>3, <1>5
<1>9. \A i \in 1..n : \E x : seqs[i] = <<x>>
  <2> SUFFICES ASSUME NEW i \in 1..n PROVE \E x : seqs[i] = <<x>>
    OBVIOUS
  <2>1. CASE with
    <3>1. \E j \in 1..K : i = 2 * j - 1 \/ i = 2 * j
      <4>1. (i + 1) \div 2 \in 1..K /\ (i = 2 * ((i + 1) \div 2) - 1 \/ i = 2 * ((i + 1) \div 2))
        BY <1>3, <2>1
      <4> QED BY <4>1
    <3> QED BY <1>6, <2>1, <3>1
  <2>2. CASE ~with
    BY <1>3, <1>7, <2>2
  <2> QED BY <2>1, <2>2
<1>10. \A i \in 1..(n + 1) : seqs[i] \in Seq(S)
  <2> SUFFICES ASSUME NEW i \in 1..(n + 1) PROVE seqs[i] \in Seq(S)
    OBVIOUS
  <2>1. seqs[i] = <<>> \/ \E x : seqs[i] = <<x>>
    <3>1. CASE i \in 1..n
      BY <1>9, <3>1
    <3>2. CASE i = n + 1
      <4>1. CASE q.queried
        BY <1>4, <1>8, <3>2, <4>1
      <4>2. CASE ~q.queried
        BY <1>4, <1>8, <3>2, <4>2
      <4> QED BY <4>1, <4>2
    <3> QED BY <1>3, <3>1, <3>2
  <2>2. seqs[i][1] \in S
    BY <1>5, <1>s
  <2>3. CASE seqs[i] = <<>>
    BY <2>3
  <2>4. CASE \E x : seqs[i] = <<x>>
    <3>1. PICK x : seqs[i] = <<x>>
      BY <2>4
    <3>2. x \in S
      BY <2>2, <3>1
    <3> QED BY <3>1, <3>2
  <2> QED BY <2>1, <2>3, <2>4
<1>11. SequencesOf(S, seqs, n + 1)
  BY <1>3, <1>5, <1>10 DEF SequencesOf
<1>12. \A i \in 1..M : Len(seqs[i]) = 1
  <2> SUFFICES ASSUME NEW i \in 1..M PROVE Len(seqs[i]) = 1
    OBVIOUS
  <2>1. CASE i \in 1..n
    <3>1. PICK x : seqs[i] = <<x>>
      BY <1>9, <2>1
    <3> QED BY <3>1
  <2>2. CASE i = n + 1 /\ q.queried
    <3>1. seqs[i] = <<ImageAt(Last(images))>>
      BY <1>4, <1>8, <2>2
    <3> QED BY <3>1
  <2> QED BY <1>3, <1>m, <2>1, <2>2
<1>13. M = n + 1 \/ (n + 1 = M + 1 /\ seqs[n + 1] = <<>>)
  BY <1>3, <1>4, <1>8, <1>m
<1>14. m \in Seq(S) /\ Len(m) = M /\ \A i \in 1..M : m[i] = seqs[i][1]
  <2>1. n + 1 \in Nat /\ M \in Nat
    BY <1>3
  <2>2. /\ FlattenSeq(seqs) \in Seq(S) /\ Len(FlattenSeq(seqs)) = M
        /\ \A i \in 1..M : FlattenSeq(seqs)[i] = seqs[i][1]
    BY <2>1, <1>11, <1>12, <1>13, FlattenSingles
  <2> QED BY <1>1, <2>2
<1>15. DOMAIN m = 1..M
  BY <1>14
<1>16. ASSUME with, NEW j \in 1..K PROVE m[2 * j - 1] = ImageAt(images[j]) /\ m[2 * j] = LabelOf(shown[j])
  <2>1. 2 * j - 1 \in 1..M /\ 2 * j \in 1..M
    BY <1>3, <1>m, <1>16
  <2> QED BY <1>6, <1>14, <1>16, <2>1
<1>17. ASSUME ~with, NEW j \in 1..K PROVE m[j] = LabelOf(shown[j])
  <2>1. j \in 1..M
    BY <1>3, <1>m, <1>17
  <2> QED BY <1>7, <1>14, <1>17, <2>1
<1>18. ASSUME q.queried PROVE m[n + 1] = ImageAt(Last(images))
  <2>1. n + 1 \in 1..M
    BY <1>3, <1>m, <1>18
  <2> QED BY <1>4, <1>8, <1>14, <1>18, <2>1
<1>19. DOMAIN m = 1..(IF q.queried THEN n + 1 ELSE n) /\ Len(m) = IF q.queried THEN n + 1 ELSE n
  BY <1>14, <1>15 DEF M
<1> QED BY <1>16, <1>17, <1>18, <1>19 DEF m, K, n, with

\* The files of the candidates and of the query.
FilesAsked(q) ==
  /\ q.queried \in BOOLEAN /\ q.limit \in Nat \cup {NoCap}
  /\ \A k \in ToSet(q.cands) \cup {NoKey} :
       q.files[k].of = k /\ q.files[k].edge \in Int /\ q.files[k].readable \in BOOLEAN

\* Of its kind, its size and its example, if it is sent at all.
Sendable(x, k, limit) ==
  x[1] \in {"JPEG", "PNG"} /\ (limit # NoCap => x[2] <= limit) /\ x[3] = k

\* An image that is sent is one of its file, no larger than allowed.
LEMMA AsSentIs ==
  ASSUME NEW file, NEW limit \in Nat \cup {NoCap}, file.readable \in BOOLEAN, file.edge \in Int,
         AsSent(file, limit) # NotSent
  PROVE  Sendable(AsSent(file, limit), file.of, limit)
<1> DEFINE shrinks == limit # NoCap /\ file.edge > limit
           edge == IF shrinks THEN limit ELSE file.edge
           Readable == file.readable
           Paged == file.format \in {"GIF", "TIFF"} /\ file.pages > 1
           Plain == file.format = "JPEG"
           jpeg == <<"JPEG", edge, file.of>>
           png == <<"PNG", edge, file.of>>
           x == AsSent(file, limit)
<1>1. x = CASE ~Readable -> NotSent
            [] Readable /\ Paged -> NotSent
            [] Readable /\ Plain -> jpeg
            [] OTHER -> png
  BY DEF AsSent
<1>2. Readable \in BOOLEAN /\ ~(Paged /\ Plain)
  OBVIOUS
<1>3. limit # NoCap => edge <= limit
  OBVIOUS
<1>4. Sendable(jpeg, file.of, limit) /\ Sendable(png, file.of, limit)
  <2> HIDE DEF edge
  <2> QED BY <1>3 DEF Sendable
<1> HIDE DEF Readable, Paged, Plain, jpeg, png, x
<1>5. x # NotSent
  BY DEF x
<1>6. CASE ~Readable
  BY <1>1, <1>2, <1>5, <1>6
<1>7. CASE Readable /\ Paged
  BY <1>1, <1>2, <1>5, <1>7
<1>8. CASE Readable /\ ~Paged /\ Plain
  BY <1>1, <1>2, <1>4, <1>8 DEF x
<1>9. CASE Readable /\ ~Paged /\ ~Plain
  BY <1>1, <1>2, <1>4, <1>9 DEF x
<1> QED BY <1>6, <1>7, <1>8, <1>9

\* Each image stands before the label of its example; all are sent or none.
LEMMA ImagesHold ==
  ASSUME NEW q, SchemaAsked(q), CandidatesAsked(q), AnswersAsked(q), FilesAsked(q)
  PROVE  ImagesBelong(q, Invoke(q))
<1> DEFINE shown == Exemplars(q)
           batch == Batch(q, shown)
           m == Message(q, shown, batch)
           sent == Sendings(q, batch)
           out == Outcome(q, shown, sent)
           max == q.maxImages
           limit == q.limit
           T == ToSet(q.cands)
           K == Len(shown)
           with == ShowsImages(q, shown)
           n == IF with THEN 2 * K ELSE K
           M == IF q.queried THEN n + 1 ELSE n
           I == {i \in DOMAIN m : m[i][1] = "image"}
           Belongs(i) ==
             LET image == m[i][2] IN
             /\ image # NotSent
             /\ image[1] \in {"JPEG", "PNG"} /\ (limit # NoCap => image[2] <= limit)
             /\ IF image[3] = NoKey THEN i = Len(m) ELSE m[i + 1] = <<"label", image[3]>>
           Stored == Range(shown) \subseteq q.stored
<1>1. ImagesBelong(q, Invoke(q)) <=>
        IF sent = <<>> THEN out.status = "endpoint_error" /\ out.attached = 0
        ELSE /\ Cardinality(I) <= Greater(1, max)
             /\ \A i \in I : Belongs(i)
             /\ q.queried => Len(m) \in I
             /\ DOMAIN m \ I # {} /\ Stored => \A i \in DOMAIN m \ I : i - 1 \in I
  <2> DEFINE r == Invoke(q)
  <2>1. r.shown = shown /\ r.message = m /\ r.sent = sent /\ r.outcome = out
    BY InvokeIs
  <2> HIDE DEF r, shown, m, sent, out
  <2> QED BY <2>1 DEF ImagesBelong, r
<1>2. sent = <<>> => out.status = "endpoint_error" /\ out.attached = 0
  <2>1. out.status = FinalStatus(Answer(q, sent)) /\ out.attached = IF sent # <<>> /\ with THEN Len(shown) ELSE 0
    BY DEF Outcome
  <2>2. sent = <<>> => FinalStatus(Answer(q, sent)) = "endpoint_error"
    BY AnswerIs
  <2> HIDE DEF out, sent
  <2> QED BY <2>1, <2>2
<1>3. SUFFICES ASSUME sent # <<>>
               PROVE  /\ Cardinality(I) <= Greater(1, max)
                      /\ \A i \in I : Belongs(i)
                      /\ q.queried => Len(m) \in I
                      /\ DOMAIN m \ I # {} /\ Stored => \A i \in DOMAIN m \ I : i - 1 \in I
  <2> HIDE DEF I, Belongs, m, sent, out, Stored, max
  <2> QED BY <1>1, <1>2
<1>4. NotSent \notin Range(batch)
  BY <1>3, SendingsAre
<1>5. shown \in Seq(T) /\ (K > 0 => K <= ImagesLeft(q))
  BY ShownFits
<1>6. q.queried \in BOOLEAN /\ limit \in Nat \cup {NoCap} /\ max \in Int
  BY DEF FilesAsked, CandidatesAsked
<1>7. /\ DOMAIN m = 1..M /\ Len(m) = M
      /\ with => \A j \in 1..K : m[2 * j - 1] = ImageAt(batch[j]) /\ m[2 * j] = LabelOf(shown[j])
      /\ ~with => \A j \in 1..K : m[j] = LabelOf(shown[j])
      /\ q.queried => m[n + 1] = ImageAt(Last(batch))
  <2> HIDE DEF shown, batch, m, T
  <2> QED BY <1>5, <1>6, MessageIs DEF m, batch
<1> DEFINE files == q.files
           L == IF with THEN K ELSE 0
           N == IF q.queried THEN L + 1 ELSE L
<1>8. /\ DOMAIN batch = 1..N
      /\ \A j \in 1..L : batch[j] = AsSent(files[shown[j]], limit)
      /\ q.queried => Last(batch) = batch[N] /\ batch[N] = AsSent(files[NoKey], limit)
  <2> HIDE DEF shown, batch, m, T
  <2> QED BY <1>5, <1>6, BatchIs DEF batch
<1>9. \A k \in T \cup {NoKey} : files[k].of = k /\ files[k].edge \in Int /\ files[k].readable \in BOOLEAN
  BY DEF FilesAsked
<1>10. K \in Nat /\ DOMAIN shown = 1..K /\ \A j \in 1..K : shown[j] \in T
  <2> HIDE DEF shown, T
  <2> QED BY <1>5
<1>11. NoKey \notin T
  BY DEF CandidatesAsked
<1>w. with => K > 0
  <2>1. with => shown # <<>>
    BY DEF ShowsImages
  <2> HIDE DEF shown, with
  <2> QED BY <1>5, <1>10, <2>1
<1>v. K > 0 /\ Stored => with
  <2>1. K > 0 => shown # <<>>
    <3> HIDE DEF shown
    <3> QED BY <1>5
  <2> QED BY <2>1 DEF ShowsImages
<1>12. K > 0 => K + (IF q.queried THEN 1 ELSE 0) <= max
  <2>1. ImagesLeft(q) = max - (IF q.queried THEN 1 ELSE 0)
    BY DEF ImagesLeft
  <2> HIDE DEF K, max
  <2> QED BY <1>5, <1>6, <1>10, <2>1
<1>13. /\ n \in Nat /\ (with => n = 2 * K /\ L = K) /\ (~with => n = K /\ L = 0)
       /\ (q.queried => M = n + 1 /\ N = L + 1) /\ (~q.queried => M = n /\ N = L)
  <2> HIDE DEF K, with
  <2> QED BY <1>10
<1>14. \A i \in 1..N : batch[i] # NotSent
  <2> HIDE DEF batch, N
  <2> QED BY <1>4, <1>8 DEF Range
<1> HIDE DEF shown, batch, m, T, K, with, n, M, L, N, files, limit, max, Stored, sent, out
<1>15. ASSUME with, NEW j \in 1..K
       PROVE  batch[j] # NotSent /\ Sendable(batch[j], shown[j], limit) /\ shown[j] # NoKey
  <2>1. j \in 1..L /\ j \in 1..N
    BY <1>6, <1>10, <1>13, <1>15
  <2>2. shown[j] \in T
    BY <1>10
  <2>3. batch[j] = AsSent(files[shown[j]], limit) /\ batch[j] # NotSent
    BY <1>8, <1>14, <2>1
  <2>4. Sendable(AsSent(files[shown[j]], limit), files[shown[j]].of, limit)
    BY <1>6, <1>9, <2>2, <2>3, AsSentIs
  <2> QED BY <1>9, <1>11, <2>2, <2>3, <2>4
<1>16. ASSUME q.queried
       PROVE  Last(batch) # NotSent /\ Sendable(Last(batch), NoKey, limit)
  <2>1. N \in 1..N
    BY <1>10, <1>13, <1>16
  <2>2. Last(batch) = AsSent(files[NoKey], limit) /\ Last(batch) # NotSent
    BY <1>8, <1>14, <1>16, <2>1
  <2>3. Sendable(AsSent(files[NoKey], limit), files[NoKey].of, limit)
    BY <1>6, <1>9, <2>2, AsSentIs
  <2> QED BY <1>9, <2>2, <2>3
<1>17. \A k : LabelOf(k)[1] # "image" /\ ImageAt(k)[1] = "image" /\ ImageAt(k)[2] = k /\ LabelOf(k) = <<"label", k>>
  BY DEF LabelOf, ImageAt
\* which parts are images
<1>18. ASSUME with, NEW j \in 1..K
       PROVE  /\ 2 * j - 1 \in I /\ 2 * j \notin I /\ 2 * j \in DOMAIN m
              /\ m[2 * j - 1][2] = batch[j] /\ m[2 * j] = LabelOf(shown[j])
  <2>1. 2 * j - 1 \in 1..M /\ 2 * j \in 1..M
    BY <1>6, <1>10, <1>13, <1>18
  <2>2. m[2 * j - 1] = ImageAt(batch[j]) /\ m[2 * j] = LabelOf(shown[j])
    BY <1>7, <1>18
  <2> QED BY <1>7, <1>17, <2>1, <2>2 DEF I
<1>19. ASSUME ~with, NEW j \in 1..K PROVE j \notin I /\ j \in DOMAIN m
  <2>1. j \in 1..M
    BY <1>6, <1>10, <1>13, <1>19
  <2> QED BY <1>7, <1>17, <1>19, <2>1 DEF I
<1>20. ASSUME q.queried PROVE n + 1 \in I /\ Len(m) = n + 1 /\ m[n + 1][2] = Last(batch)
  <2>1. n + 1 \in 1..M
    BY <1>13, <1>20
  <2> QED BY <1>7, <1>13, <1>17, <1>20, <2>1 DEF I
<1>21. ASSUME with, NEW i \in DOMAIN m
       PROVE  (\E j \in 1..K : i = 2 * j - 1) \/ (\E j \in 1..K : i = 2 * j) \/ (q.queried /\ i = n + 1)
  <2>1. i \in 1..M
    BY <1>7
  <2>2. CASE i \in 1..n
    <3>1. (i + 1) \div 2 \in 1..K /\ (i = 2 * ((i + 1) \div 2) - 1 \/ i = 2 * ((i + 1) \div 2))
      BY <1>10, <1>13, <1>21, <2>2
    <3> QED BY <3>1
  <2>3. CASE i \notin 1..n
    BY <1>6, <1>13, <2>1, <2>3
  <2> QED BY <2>2, <2>3
<1>22. ASSUME ~with, NEW i \in DOMAIN m PROVE i \in 1..K \/ (q.queried /\ i = n + 1)
  BY <1>6, <1>7, <1>13, <1>22
<1>23. I \subseteq DOMAIN m
  BY DEF I
<1> HIDE DEF I
<1>24. \A i \in I : Belongs(i)
  <2> SUFFICES ASSUME NEW i \in I PROVE Belongs(i)
    OBVIOUS
  <2>1. CASE q.queried /\ i = n + 1
    <3>1. m[i][2] = Last(batch) /\ i = Len(m)
      BY <1>20, <2>1
    <3> QED BY <1>16, <2>1, <3>1 DEF Sendable
  <2>2. CASE with /\ ~(q.queried /\ i = n + 1)
    <3>1. PICK j \in 1..K : i = 2 * j - 1
      BY <1>18, <1>21, <1>23, <2>2
    <3>2. m[i][2] = batch[j] /\ i + 1 = 2 * j /\ m[i + 1] = LabelOf(shown[j])
      BY <1>10, <1>18, <2>2, <3>1
    <3>3. batch[j] # NotSent /\ Sendable(batch[j], shown[j], limit) /\ shown[j] # NoKey
      BY <1>15, <2>2
    <3> QED BY <1>17, <3>2, <3>3 DEF Sendable
  <2>3. CASE ~with /\ ~(q.queried /\ i = n + 1)
    BY <1>19, <1>22, <1>23, <2>3
  <2> QED BY <2>1, <2>2, <2>3
<1>25. q.queried => Len(m) \in I
  BY <1>20
<1>26. ASSUME DOMAIN m \ I # {}, Stored, NEW i \in DOMAIN m \ I PROVE i - 1 \in I
  <2>1. with
    <3>1. CASE K > 0
      BY <1>v, <1>26, <3>1
    <3>2. CASE ~(K > 0)
      <4>1. ~with
        BY <1>w, <3>2
      <4>2. i \in 1..K \/ (q.queried /\ i = n + 1)
        BY <1>22, <4>1
      <4> QED BY <1>10, <1>20, <3>2, <4>2
    <3> QED BY <3>1, <3>2
  <2>2. PICK j \in 1..K : i = 2 * j
    BY <1>18, <1>20, <1>21, <2>1
  <2>3. 2 * j - 1 \in I /\ i - 1 = 2 * j - 1
    BY <1>18, <2>1, <2>2
  <2> QED BY <2>3
<1>27. Cardinality(I) <= Greater(1, max)
  <2> DEFINE f == [j \in 1..N |-> IF j <= L THEN 2 * j - 1 ELSE n + 1]
  <2>1. N \in Nat /\ L \in Nat /\ L <= N
    BY <1>6, <1>10, <1>13
  <2>2. \A i \in I : \E j \in 1..N : f[j] = i
    <3> SUFFICES ASSUME NEW i \in I PROVE \E j \in 1..N : f[j] = i
      OBVIOUS
    <3>1. CASE q.queried /\ i = n + 1
      <4>1. N \in 1..N /\ ~(N <= L)
        BY <1>13, <2>1, <3>1
      <4> QED BY <3>1, <4>1
    <3>2. CASE ~(q.queried /\ i = n + 1)
      <4>1. with
        BY <1>19, <1>22, <1>23, <3>2
      <4>2. PICK j \in 1..K : i = 2 * j - 1
        BY <1>18, <1>21, <1>23, <3>2, <4>1
      <4>3. j \in 1..N /\ j <= L
        BY <1>10, <1>13, <2>1, <4>1
      <4> QED BY <4>2, <4>3
    <3> QED BY <3>1, <3>2
  <2>3. \A j \in 1..N : f[j] \in I
    <3> SUFFICES ASSUME NEW j \in 1..N PROVE f[j] \in I
      OBVIOUS
    <3>1. CASE j <= L
      <4>1. with /\ j \in 1..K
        BY <1>10, <1>13, <2>1, <3>1
      <4> QED BY <1>18, <3>1, <4>1
    <3>2. CASE ~(j <= L)
      <4>1. q.queried
        BY <1>6, <1>13, <2>1, <3>2
      <4> QED BY <1>20, <3>2, <4>1
    <3> QED BY <3>1, <3>2
  <2>4. f \in Surjection(1..N, I)
    <3> DEFINE g(j) == IF j <= L THEN 2 * j - 1 ELSE n + 1
    <3>1. f \in [1..N -> I]
      BY <2>3
    <3> HIDE DEF f
    <3> QED BY <2>2, <3>1 DEF Surjection
  <2> HIDE DEF f
  <2>5. IsFiniteSet(1..N) /\ Cardinality(1..N) = N
    BY <2>1, FS_Interval
  <2>6. Cardinality(I) <= N
    BY <2>4, <2>5, FS_Surjection
  <2>7. N <= 1 \/ N <= max
    BY <1>6, <1>10, <1>12, <1>13, <1>w
  <2>8. IsFiniteSet(I) /\ Cardinality(I) \in Nat
    BY <2>4, <2>5, FS_Surjection, FS_CardinalityType
  <2> QED BY <1>6, <2>1, <2>6, <2>7, <2>8 DEF Greater
<1> HIDE DEF Belongs
<1> QED BY <1>24, <1>25, <1>26, <1>27

\* A request as it is asked: settings and schema, candidates, answers and files
\* as the program has them.
InvocationAsked(q) ==
  /\ AskedWith \subseteq DOMAIN q
  /\ SchemaAsked(q) /\ CandidatesAsked(q) /\ AnswersAsked(q) /\ FilesAsked(q)

\* Whatever the Teacher is asked and answers: prompt and answer fit its window,
\* a repetition has more room, the images are those of the labels they stand
\* before, all of them or no request, and the record tells what happened
\* (invoke_teacher).
THEOREM InvocationsHold ==
  ASSUME NEW q, InvocationAsked(q)
  PROVE  InvocationIsSound(q)
<1>1. AskedWith \subseteq DOMAIN q /\ SchemaAsked(q) /\ CandidatesAsked(q) /\ AnswersAsked(q) /\ FilesAsked(q)
  BY DEF InvocationAsked
<1>2. q.files[NoKey].readable \in BOOLEAN
  BY <1>1 DEF FilesAsked
<1> DEFINE r == Invoke(q)
<1>3. StaysInTheWindow(q, r) /\ GrantsRoom(q, r) /\ ImagesBelong(q, r) /\ RecordsWhatHappened(q, r)
  BY <1>1, <1>2, WindowHolds, RoomIsGranted, ImagesHold, RecordHolds
<1> HIDE DEF r
<1> QED BY <1>3 DEF InvocationIsSound, r

-----------------------------------------------------------------------------
(* What the run asks is of the kinds that the theorems are about.          *)

\* Their distances.
LEMMA MeasuresAre ==
  ASSUME NEW m \in Measures, NEW refs, IsFiniteSet(refs)
  PROVE  Measured(m.has, refs \cap m.has, m.dist)
<1>1. PICK has \in {1..4, {1, 2, 4}, {2, 3}, {}}, far \in SUBSET Pairs :
        m = [has |-> has, dist |-> [a \in 1..4 |-> [b \in 1..4 |-> IF a = b THEN 0 ELSE IF {a, b} \in far THEN 2 ELSE 1]]]
  BY DEF Measures
<1> DEFINE d(a, b) == IF a = b THEN 0 ELSE IF {a, b} \in far THEN 2 ELSE 1
<1>2. m.has = has /\ m.dist = [a \in 1..4 |-> [b \in 1..4 |-> d(a, b)]]
  BY <1>1
<1>3. has \subseteq 1..4
  OBVIOUS
<1>4. \A a, b \in 1..4 : d(a, b) \in Int
  OBVIOUS
<1> HIDE DEF d
<1>5. \A a, b \in 1..4 : m.dist[a][b] \in Int
  BY <1>2, <1>4
<1>6. has \subseteq Images /\ (refs \cap has) \cup has \subseteq 1..4
  <2>1. \A x \in 1..4 : x \in Images
    BY DEF Images
  <2>2. has \subseteq Images
    <3> HIDE DEF Images
    <3> QED BY <1>3, <2>1
  <2> QED BY <1>3, <2>2
<1>7. IsFiniteSet(refs \cap has)
  BY FS_Subset
<1> QED BY <1>2, <1>3, <1>5, <1>6, <1>7 DEF Measured

\* The sets that questions are made of.
LEMMA SmallSets ==
  /\ IsFiniteSet({}) /\ IsFiniteSet({4}) /\ IsFiniteSet(1..3) /\ IsFiniteSet(2..3)
  /\ {} \subseteq Images /\ {4} \subseteq Images /\ 1..3 \subseteq Images /\ 2..3 \subseteq Images
<1>1. IsFiniteSet({})
  BY FS_EmptySet
<1>2. IsFiniteSet({4})
  BY FS_Singleton
<1>n. 1 \in Int /\ 2 \in Int /\ 3 \in Int
  OBVIOUS
<1>3. IsFiniteSet(1..3)
  BY <1>n, FS_Interval, Zenon
<1>4. IsFiniteSet(2..3)
  BY <1>n, FS_Interval, Zenon
<1>5. {} \subseteq Images /\ {4} \subseteq Images /\ 1..3 \subseteq Images /\ 2..3 \subseteq Images
  BY DEF Images
<1> QED BY <1>1, <1>2, <1>3, <1>4, <1>5

\* The questions about the Test Pool.
LEMMA PoolQuestionIs ==
  ASSUME NEW q \in PoolQuestions
  PROVE  q.about = "pool" /\ PoolAsked(q)
<1>1. PICK cands \in {1..3, 2..3, {}}, refs \in {{}, {4}}, measure \in Measures, n \in {1, 2} :
        q = [about |-> "pool", cands |-> cands, refs |-> refs, measure |-> measure, n |-> n]
  BY DEF PoolQuestions
<1>2. IsFiniteSet(refs)
  BY SmallSets
<1>3. IsFiniteSet(cands) /\ cands \subseteq Images
  BY SmallSets
<1>4. Measured(measure.has, refs \cap measure.has, measure.dist)
  BY <1>2, MeasuresAre
<1> QED BY <1>1, <1>3, <1>4 DEF PoolAsked

\* The questions about the next example to review.
LEMMA ReviewQuestionIs ==
  ASSUME NEW q \in ReviewQuestions
  PROVE  q.about = "review" /\ ReviewAsked(q)
<1>1. PICK prior \in {{}, 1..3, 2..3}, context \in {NoKey, 3}, refs \in {{}, {4}}, measure \in Measures :
        q = [about |-> "review", cands |-> {4}, prior |-> prior, corrected |-> {2}, context |-> context,
             refs |-> refs, measure |-> measure]
  BY DEF ReviewQuestions
<1>2. IsFiniteSet(refs) /\ IsFiniteSet({4})
  BY SmallSets
<1>3. IsFiniteSet(prior) /\ prior \subseteq Images /\ {4} \subseteq Images
  BY SmallSets
<1>4. Measured(measure.has, refs \cap measure.has, measure.dist)
  BY <1>2, MeasuresAre
<1> QED BY <1>1, <1>2, <1>3, <1>4 DEF ReviewAsked

\* The questions about exemplars.
LEMMA IclQuestionIs ==
  ASSUME NEW q \in IclQuestions
  PROVE  q.about = "icl" /\ ExemplarsAsked(q)
<1> DEFINE Record(has, near, gap, floor, depth, budget, images) ==
             [about |-> "icl", cands |-> <<2, 1, 3>>, has |-> has, near |-> near, cost |-> <<1, 2, 1>>,
              knobs |-> [gap |-> gap, floor |-> floor, depth |-> depth], budget |-> budget, images |-> images]
           H == {1..3, {1, 3}, {}}
           N == [1..3 -> 0..2]
           C == {NoCap, 1}
           D == {NoCap, 2}
           B == 0..3
           I == {0, 2, 3}
<1>1. IclQuestions = {Record(has, near, gap, floor, depth, budget, images) :
                        has \in H, near \in N, gap \in C, floor \in C, depth \in D, budget \in B, images \in I}
  BY DEF IclQuestions
<1> HIDE DEF Record, H, N, C, D, B, I
<1>2. PICK has \in H, near \in N, gap \in C, floor \in C, depth \in D, budget \in B, images \in I :
        q = Record(has, near, gap, floor, depth, budget, images)
  BY <1>1
<1>3. /\ q.about = "icl" /\ q.cands = <<2, 1, 3>> /\ q.near = near /\ q.cost = <<1, 2, 1>>
      /\ q.knobs = [gap |-> gap, floor |-> floor, depth |-> depth] /\ q.budget = budget /\ q.images = images
  BY <1>2 DEF Record
<1>4. <<2, 1, 3>> \in Seq(Int) /\ OnceEach(<<2, 1, 3>>) /\ ToSet(<<2, 1, 3>>) \subseteq 1..3
  BY DEF OnceEach, ToSet
<1>5. \A k \in 1..3 : <<1, 2, 1>>[k] \in Nat /\ near[k] \in Int
  BY DEF N
<1>6. gap \in Int /\ floor \in Int /\ depth \in Nat \cup {NoCap} /\ budget \in Int /\ images \in Int
  BY DEF C, D, B, I, NoCap
<1> QED BY <1>3, <1>4, <1>5, <1>6 DEF ExemplarsAsked

\* The request that the others vary.
LEMMA PlainRequestIs ==
  /\ AskedWith \subseteq DOMAIN AskedPlainly
  /\ AskedPlainly.s = Delivered /\ AskedPlainly.fields = <<YesNo("core")>> /\ AskedPlainly.mode = "all"
  /\ AskedPlainly.listens \in BOOLEAN /\ AskedPlainly.thinking \in BOOLEAN /\ AskedPlainly.window = 32768
  /\ AskedPlainly.cands = <<2, 1, 3>> /\ AskedPlainly.near = [k \in 1..3 |-> k] /\ AskedPlainly.embedded \in BOOLEAN
  /\ AskedPlainly.labels = [k \in 1..3 |-> <<8, 90, 0>>] /\ AskedPlainly.fixed = 300
  /\ AskedPlainly.depth = NoCap /\ AskedPlainly.modelDepth = NoCap /\ AskedPlainly.maxImages = 4
  /\ AskedPlainly.queried \in BOOLEAN /\ AskedPlainly.files = PlainFiles /\ AskedPlainly.limit = 3
  /\ AskedPlainly.answers = <<GoodAnswer, GoodAnswer>>
  /\ AskedPlainly.about = "invocation" /\ {"about", "icl"} \subseteq DOMAIN AskedPlainly
BY DEF AskedPlainly, AskedWith

\* The settings as delivered, or with the operator's override.
LEMMA DeliveredSettings == SettingsAsked(Delivered) /\ \A o \in {NoCap, 300} : SettingsAsked([Delivered EXCEPT !.override = o])
<1>1. SettingsAsked(Delivered)
  BY DEF SettingsAsked, Delivered
<1>2. ASSUME NEW o \in {NoCap, 300} PROVE SettingsAsked([Delivered EXCEPT !.override = o])
  <2> DEFINE s == [Delivered EXCEPT !.override = o]
  <2>1. /\ s.floor = 256 /\ s.overhead = 48 /\ s.note = 160 /\ s.unbounded = 200 /\ s.headroom = 16384
        /\ s.fraction = <<1, 4>> /\ s.margin = <<17, 20>> /\ s.override = o
    BY DEF Delivered
  <2>2. <<1, 4>> \in (Nat \ {0}) \X (Nat \ {0}) /\ <<17, 20>> \in (Nat \ {0}) \X (Nat \ {0})
    OBVIOUS
  <2>3. o \in (Nat \ {0}) \cup {NoCap}
    OBVIOUS
  <2> HIDE DEF s
  <2>4. /\ s.floor \in Nat \ {0} /\ s.overhead \in Nat /\ s.note \in Nat \ {0} /\ s.unbounded \in Nat \ {0}
        /\ s.headroom \in Nat
    BY <2>1
  <2>5. s.override \in (Nat \ {0}) \cup {NoCap}
    BY <2>1, <2>3
  <2>6. s.fraction \in (Nat \ {0}) \X (Nat \ {0})
    BY <2>1, <2>2
  <2>7. s.margin \in (Nat \ {0}) \X (Nat \ {0})
    BY <2>1, <2>2
  <2>8. SettingsAsked(s)
    BY <2>4, <2>5, <2>6, <2>7 DEF SettingsAsked
  <2> QED BY <2>8 DEF s
<1> QED BY <1>1, <1>2

\* The schemas of the questions have a Core field first.
LEMMA AskedSchemasAre ==
  ASSUME NEW f \in AskedSchemas \cup {<<YesNo("core")>>}
  PROVE  /\ IsSequence(f) /\ DOMAIN f \subseteq 1..3 /\ \A i \in DOMAIN f : FieldAsked(f[i])
         /\ \E i \in DOMAIN f : f[i].role = "core" /\ f[i].kind # "rationale"
<1> DEFINE a == <<AmongThese(<<2, 30, 1>>), WordsUpTo(401), ReasonField>>
           b == <<ManyOf(<<380, 420>>), WordsUpTo(NoCap), WholeNumber>>
           c == <<YesNo("core")>>
<1>1. /\ FieldAsked(AmongThese(<<2, 30, 1>>)) /\ AmongThese(<<2, 30, 1>>).role = "core"
      /\ AmongThese(<<2, 30, 1>>).kind = "enum"
  BY DEF FieldAsked, AmongThese
<1>2. /\ FieldAsked(ManyOf(<<380, 420>>)) /\ ManyOf(<<380, 420>>).role = "core" /\ ManyOf(<<380, 420>>).kind = "enum_set"
  BY DEF FieldAsked, ManyOf
<1>3. \A n \in Nat \cup {NoCap} : FieldAsked(WordsUpTo(n))
  BY DEF FieldAsked, WordsUpTo
<1>4. FieldAsked(ReasonField) /\ FieldAsked(WholeNumber)
  BY DEF FieldAsked, ReasonField, WholeNumber
<1>5. FieldAsked(YesNo("core")) /\ YesNo("core").role = "core" /\ YesNo("core").kind = "boolean"
  BY DEF FieldAsked, YesNo
<1> DEFINE x1 == AmongThese(<<2, 30, 1>>)
           x2 == WordsUpTo(401)
           x3 == ReasonField
           y1 == ManyOf(<<380, 420>>)
           y2 == WordsUpTo(NoCap)
           y3 == WholeNumber
           z1 == YesNo("core")
<1>w. FieldAsked(WordsUpTo(401)) /\ FieldAsked(WordsUpTo(NoCap))
  <2>1. 401 \in Nat \cup {NoCap} /\ NoCap \in Nat \cup {NoCap}
    OBVIOUS
  <2> QED BY <1>3, <2>1, Zenon
<1>6. /\ FieldAsked(x1) /\ FieldAsked(x2) /\ FieldAsked(x3) /\ FieldAsked(y1) /\ FieldAsked(y2) /\ FieldAsked(y3) /\ FieldAsked(z1)
      /\ x1.role = "core" /\ x1.kind # "rationale" /\ y1.role = "core" /\ y1.kind # "rationale"
      /\ z1.role = "core" /\ z1.kind # "rationale"
  BY <1>1, <1>2, <1>4, <1>5, <1>w
<1>7. f = <<x1, x2, x3>> \/ f = <<y1, y2, y3>> \/ f = <<z1>>
  BY DEF AskedSchemas
<1> HIDE DEF x1, x2, x3, y1, y2, y3, z1
<1>8. CASE f = <<x1, x2, x3>>
  <2>1. f \in Seq({x1, x2, x3}) /\ DOMAIN f = 1..3 /\ 1 \in DOMAIN f /\ f[1] = x1 /\ f[2] = x2 /\ f[3] = x3
    BY <1>8
  <2>2. IsSequence(f)
    BY <2>1, SequenceOfItself
  <2>3. \A i \in DOMAIN f : FieldAsked(f[i])
    <3>1. \A i \in 1..3 : i = 1 \/ i = 2 \/ i = 3
      OBVIOUS
    <3> QED BY <1>6, <2>1, <3>1
  <2> QED BY <1>6, <2>1, <2>2, <2>3
<1>9. CASE f = <<y1, y2, y3>>
  <2>1. f \in Seq({y1, y2, y3}) /\ DOMAIN f = 1..3 /\ 1 \in DOMAIN f /\ f[1] = y1 /\ f[2] = y2 /\ f[3] = y3
    BY <1>9
  <2>2. IsSequence(f)
    BY <2>1, SequenceOfItself
  <2>3. \A i \in DOMAIN f : FieldAsked(f[i])
    <3>1. \A i \in 1..3 : i = 1 \/ i = 2 \/ i = 3
      OBVIOUS
    <3> QED BY <1>6, <2>1, <3>1
  <2> QED BY <1>6, <2>1, <2>2, <2>3
<1>10. CASE f = <<z1>>
  <2>1. f \in Seq({z1}) /\ DOMAIN f = 1..1 /\ 1 \in DOMAIN f /\ f[1] = z1
    BY <1>10
  <2>2. IsSequence(f)
    BY <2>1, SequenceOfItself
  <2> QED BY <1>6, <2>1, <2>2
<1> QED BY <1>7, <1>8, <1>9, <1>10

\* The answers of the questions.
LEMMA AnswerPairsAre ==
  ASSUME NEW a \in AnswerPairs, NEW i \in {1, 2}
  PROVE  a[i].valid \in BOOLEAN /\ (a[i].valid => a[i].error = "none")
<1> DEFINE Fine(x) == x.valid \in BOOLEAN /\ (x.valid => x.error = "none")
<1>1. Fine(GoodAnswer) /\ Fine(CutAnswer) /\ Fine(WholeButCut)
  BY DEF GoodAnswer, CutAnswer, WholeButCut, AnswerWith
<1>2. \A e \in {"timed_out", "429", "other"} : Fine(AnswerWith(e, FALSE, FALSE))
  BY DEF AnswerWith
<1> DEFINE late == AnswerWith("timed_out", FALSE, FALSE)
           many == AnswerWith("429", FALSE, FALSE)
           broken == AnswerWith("other", FALSE, FALSE)
<1>3. Fine(late) /\ Fine(many) /\ Fine(broken)
  BY <1>2
<1>4. a \in {<<GoodAnswer, GoodAnswer>>, <<CutAnswer, GoodAnswer>>, <<CutAnswer, CutAnswer>>,
             <<CutAnswer, WholeButCut>>, <<WholeButCut, broken>>, <<CutAnswer, late>>,
             <<many, GoodAnswer>>, <<broken, GoodAnswer>>}
  BY DEF AnswerPairs
<1> HIDE DEF Fine, late, many, broken
<1>5. Fine(a[i])
  BY <1>1, <1>3, <1>4
<1> QED BY <1>5 DEF Fine

\* The answers that most questions come with.
LEMMA GoodAnswersAre == <<CutAnswer, GoodAnswer>> \in AnswerPairs /\ <<GoodAnswer, GoodAnswer>> \in AnswerPairs
BY DEF AnswerPairs

\* The candidates of the questions.
LEMMA AskedCandidates ==
  ASSUME NEW q, q.cands = <<2, 1, 3>>, \A k \in 1..3 : q.near[k] \in Int, q.embedded \in BOOLEAN,
         \A k \in 1..3 : \A i \in DOMAIN q.fields : q.labels[k][i] \in Nat,
         q.depth \in Nat \cup {NoCap}, q.modelDepth \in Nat \cup {NoCap},
         q.maxImages \in Int, q.fixed \in Nat
  PROVE  CandidatesAsked(q) /\ ToSet(q.cands) = 1..3
<1>1. /\ <<2, 1, 3>> \in Seq(Int) /\ OnceEach(<<2, 1, 3>>)
  BY DEF OnceEach
<1>2. ToSet(<<2, 1, 3>>) = 1..3
  <2>1. ToSet(<<2, 1, 3>>) = {2, 1, 3}
    BY DEF ToSet
  <2>2. {2, 1, 3} = 1..3
    OBVIOUS
  <2> QED BY <2>1, <2>2
<1>5. NoKey \notin 1..3
  BY DEF NoKey
<1> QED BY <1>1, <1>2, <1>5 DEF CandidatesAsked

\* The files of the questions: all of them whole, or one that is not.
Fine(file, k) == file.of = k /\ file.edge \in Int /\ file.readable \in BOOLEAN

\* A file is what it is made to be, of whichever example.
LEMMA FilesAre ==
  ASSUME NEW of, NEW format, NEW pages, NEW edge \in Int, NEW readable \in BOOLEAN, NEW k
  PROVE  /\ Fine(FileOf(of, format, pages, edge, readable), of)
         /\ Fine([FileOf(of, format, pages, edge, readable) EXCEPT !.of = k], k)
BY DEF Fine, FileOf

\* The files that are all whole.
LEMMA PlainFilesAre == DOMAIN PlainFiles = 0..3 /\ \A k \in 0..3 : Fine(PlainFiles[k], k)
<1>1. ASSUME NEW k \in 0..3 PROVE Fine(PlainFiles[k], k)
  <2>1. PlainFiles[k] = FileOf(k, "JPEG", 1, 2, TRUE)
    BY DEF PlainFiles
  <2>2. 2 \in Int /\ TRUE \in BOOLEAN
    OBVIOUS
  <2>3. Fine(FileOf(k, "JPEG", 1, 2, TRUE), k)
    BY <2>2, FilesAre, Zenon
  <2> QED BY <2>1, <2>3, Zenon
<1>2. DOMAIN PlainFiles = 0..3
  BY DEF PlainFiles
<1> QED BY <1>1, <1>2

\* The kinds of files, of whichever example.
LEMMA KindsAre ==
  ASSUME NEW kind \in FileKinds, NEW k
  PROVE  Fine([kind EXCEPT !.of = k], k)
<1>1. PICK format, pages : \E edge \in Int, readable \in BOOLEAN : kind = FileOf(0, format, pages, edge, readable)
  <2> DEFINE Made(x) == \E format, pages : \E edge \in Int, readable \in BOOLEAN :
                           x = FileOf(0, format, pages, edge, readable)
  <2>1. \A format, pages : \A edge \in Int, readable \in BOOLEAN : Made(FileOf(0, format, pages, edge, readable))
    BY Zenon
  <2>2. 2 \in Int /\ 3 \in Int /\ 4 \in Int /\ 5 \in Int /\ TRUE \in BOOLEAN /\ FALSE \in BOOLEAN
    OBVIOUS
  <2> HIDE DEF Made
  <2>3. /\ Made(FileOf(0, "JPEG", 1, 5, TRUE)) /\ Made(FileOf(0, "PNG", 1, 2, TRUE))
        /\ Made(FileOf(0, "WEBP", 2, 4, TRUE)) /\ Made(FileOf(0, "TIFF", 2, 3, TRUE))
        /\ Made(FileOf(0, "GIF", 2, 2, TRUE)) /\ Made(FileOf(0, "JPEG", 1, 2, FALSE))
    BY <2>1, <2>2, Zenon
  <2>4. Made(kind)
    BY <2>3, Zenon DEF FileKinds
  <2> QED BY <2>4, Zenon DEF Made
<1> QED BY <1>1, FilesAre, Zenon

\* The files of each question.
LEMMA AskedFiles ==
  ASSUME NEW q, ToSet(q.cands) = 1..3, q.queried \in BOOLEAN, q.limit \in {NoCap, 3},
         q.files = PlainFiles \/ \E k \in {0, 2}, kind \in FileKinds : q.files = [PlainFiles EXCEPT ![k] = [kind EXCEPT !.of = k]]
  PROVE  FilesAsked(q)
<1>3. \A k \in 0..3 : Fine(q.files[k], k)
  <2>1. CASE q.files = PlainFiles
    BY PlainFilesAre, <2>1
  <2>2. CASE \E k \in {0, 2}, kind \in FileKinds : q.files = [PlainFiles EXCEPT ![k] = [kind EXCEPT !.of = k]]
    <3>1. PICK k \in {0, 2}, kind \in FileKinds : q.files = [PlainFiles EXCEPT ![k] = [kind EXCEPT !.of = k]]
      BY <2>2
    <3> DEFINE f == [kind EXCEPT !.of = k]
    <3>2. Fine(f, k)
      BY KindsAre
    <3> HIDE DEF f
    <3>3. q.files = [PlainFiles EXCEPT ![k] = f]
      BY <3>1 DEF f
    <3>4. \A j \in 0..3 : q.files[j] = IF j = k THEN f ELSE PlainFiles[j]
      BY PlainFilesAre, <3>3
    <3> QED BY PlainFilesAre, <3>2, <3>4
  <2> QED BY <2>1, <2>2
<1>4. (1..3) \cup {NoKey} \subseteq 0..3
  BY DEF NoKey
<1>5. q.limit \in Nat \cup {NoCap}
  OBVIOUS
<1> QED BY <1>3, <1>4, <1>5 DEF FilesAsked, Fine

\* A request that varies the plain one within these bounds is one of those that
\* InvocationsHold is about.
Varied(q) ==
  /\ {"about"} \cup AskedWith \subseteq DOMAIN q /\ q.about = "invocation"
  /\ q.s = Delivered \/ \E o \in {NoCap, 300} : q.s = [Delivered EXCEPT !.override = o]
  /\ q.fields \in AskedSchemas \cup {<<YesNo("core")>>} /\ q.mode \in {"all", "core_only"}
  /\ {q.listens, q.thinking, q.embedded, q.queried} \subseteq BOOLEAN
  /\ q.window \in Nat /\ q.fixed \in Nat /\ q.maxImages \in Int /\ q.limit \in {NoCap, 3}
  /\ q.cands = <<2, 1, 3>> /\ q.near \in [1..3 -> Int] /\ q.labels \in [1..3 -> Nat \X Nat \X Nat]
  /\ q.depth \in Nat \cup {NoCap} /\ q.modelDepth \in Nat \cup {NoCap}
  /\ \/ q.files = PlainFiles
     \/ \E k \in {0, 2}, kind \in FileKinds : q.files = [PlainFiles EXCEPT ![k] = [kind EXCEPT !.of = k]]
  /\ q.answers \in AnswerPairs

\* The bundle above is enough.
LEMMA VariedIsAsked ==
  ASSUME NEW q, Varied(q)
  PROVE  q.about = "invocation" /\ InvocationAsked(q)
<1>1. SettingsAsked(q.s)
  <2>1. CASE q.s = Delivered
    BY <2>1, DeliveredSettings
  <2>2. CASE \E o \in {NoCap, 300} : q.s = [Delivered EXCEPT !.override = o]
    <3>1. PICK o \in {NoCap, 300} : q.s = [Delivered EXCEPT !.override = o]
      BY <2>2
    <3>2. SettingsAsked([Delivered EXCEPT !.override = o])
      BY DeliveredSettings
    <3> QED BY <3>1, <3>2, Zenon
  <2> QED BY <2>1, <2>2 DEF Varied
<1>2. /\ IsSequence(q.fields) /\ DOMAIN q.fields \subseteq 1..3 /\ \A i \in DOMAIN q.fields : FieldAsked(q.fields[i])
      /\ \E i \in DOMAIN q.fields : q.fields[i].role = "core" /\ q.fields[i].kind # "rationale"
  BY AskedSchemasAre DEF Varied
<1>3. SchemaAsked(q)
  BY <1>1, <1>2 DEF SchemaAsked, Varied
<1>4. CandidatesAsked(q) /\ ToSet(q.cands) = 1..3
  <2>1. \A k \in 1..3 : q.near[k] \in Int
    BY DEF Varied
  <2>2. ASSUME NEW k \in 1..3, NEW i \in DOMAIN q.fields PROVE q.labels[k][i] \in Nat
    <3>1. q.labels[k] \in Nat \X Nat \X Nat /\ i \in 1..3
      BY <1>2 DEF Varied
    <3> QED BY <3>1
  <2> QED BY <2>1, <2>2, AskedCandidates DEF Varied
<1>5. AnswersAsked(q)
  BY AnswerPairsAre DEF AnswersAsked, Varied
<1>6. FilesAsked(q)
  BY <1>4, AskedFiles DEF Varied
<1>7. q.about = "invocation" /\ AskedWith \subseteq DOMAIN q
  BY DEF Varied
<1> QED BY <1>3, <1>4, <1>5, <1>6, <1>7 DEF InvocationAsked

\* The questions about room.
LEMMA InRoomIsAsked ==
  ASSUME NEW o \in {NoCap, 300}, NEW f \in AskedSchemas, NEW m \in {"all", "core_only"},
         NEW t, t[2] \in BOOLEAN, t[3] \in BOOLEAN, NEW w \in Nat, NEW fixed \in Nat, NEW size \in Nat, NEW i
  PROVE  InRoom(o, f, m, t, w, fixed, size, i).about = "invocation" /\ InvocationAsked(InRoom(o, f, m, t, w, fixed, size, i))
<1> DEFINE q == InRoom(o, f, m, t, w, fixed, size, i)
           A == AskedPlainly
           changed == {"s", "fields", "mode", "toggle", "listens", "thinking", "window", "fixed", "answers", "labels", "iclMode"}
<1>1. {"about"} \cup AskedWith \subseteq DOMAIN A
  BY PlainRequestIs
<1>2. DOMAIN q = DOMAIN A
  BY DEF InRoom
<1>3. \A x \in ({"about"} \cup AskedWith) \ changed : q[x] = A[x]
  BY <1>1 DEF InRoom, AskedWith
<1>4. /\ q.s = [A.s EXCEPT !.override = o] /\ q.fields = f /\ q.mode = m /\ q.listens = t[2] /\ q.thinking = t[3]
      /\ q.window = w /\ q.fixed = fixed /\ q.answers = <<CutAnswer, GoodAnswer>>
      /\ q.labels = [k \in 1..3 |-> <<size, 90, 40>>]
  BY <1>1 DEF InRoom, AskedWith
<1> HIDE DEF q, A
<1>5. /\ q.about = A.about /\ q.cands = A.cands /\ q.near = A.near /\ q.embedded = A.embedded /\ q.depth = A.depth
      /\ q.modelDepth = A.modelDepth /\ q.maxImages = A.maxImages /\ q.queried = A.queried /\ q.files = A.files
      /\ q.limit = A.limit
  BY <1>3 DEF AskedWith
<1>6. /\ A.about = "invocation" /\ A.s = Delivered /\ A.cands = <<2, 1, 3>> /\ A.near = [k \in 1..3 |-> k] /\ A.embedded \in BOOLEAN
      /\ A.depth = NoCap /\ A.modelDepth = NoCap /\ A.maxImages = 4 /\ A.queried \in BOOLEAN /\ A.files = PlainFiles
      /\ A.limit = 3
  BY PlainRequestIs DEF A
<1>7. q.depth \in Nat \cup {NoCap} /\ q.modelDepth \in Nat \cup {NoCap} /\ q.maxImages \in Int /\ q.limit \in {NoCap, 3}
      /\ 90 \in Nat /\ 40 \in Nat
  BY <1>5, <1>6
<1>t. q.queried \in BOOLEAN /\ q.embedded \in BOOLEAN
  BY <1>5, <1>6, Zenon
<1>8. q.near \in [1..3 -> Int] /\ q.labels \in [1..3 -> Nat \X Nat \X Nat]
  BY <1>4, <1>5, <1>6, <1>7
<1>9. Varied(q)
  BY <1>1, <1>2, <1>4, <1>5, <1>6, <1>7, <1>t, GoodAnswersAre, <1>8 DEF Varied
<1>10. q.about = "invocation" /\ InvocationAsked(q)
  BY <1>9, VariedIsAsked
<1> QED BY <1>10 DEF q

\* The questions about images.
LEMMA OfImagesIsAsked ==
  ASSUME NEW k \in {0, 2}, NEW kind \in FileKinds, NEW n \in Int, NEW d, d[1] \in Nat \cup {NoCap},
         d[2] \in Nat \cup {NoCap}, NEW stored, NEW limit \in {NoCap, 3}, NEW has, NEW queried \in BOOLEAN
  PROVE  /\ OfImages(k, kind, n, d, stored, limit, has, queried).about = "invocation"
         /\ InvocationAsked(OfImages(k, kind, n, d, stored, limit, has, queried))
<1> DEFINE q == OfImages(k, kind, n, d, stored, limit, has, queried)
           A == AskedPlainly
           changed == {"files", "maxImages", "depth", "modelDepth", "stored", "has", "limit", "queried"}
<1>1. {"about"} \cup AskedWith \subseteq DOMAIN A
  BY PlainRequestIs
<1>2. DOMAIN q = DOMAIN A
  BY DEF OfImages
<1>3. \A x \in ({"about"} \cup AskedWith) \ changed : q[x] = A[x]
  BY <1>1 DEF OfImages, AskedWith
<1>4. /\ q.files = [PlainFiles EXCEPT ![k] = [kind EXCEPT !.of = k]] /\ q.maxImages = n /\ q.depth = d[1]
      /\ q.modelDepth = d[2] /\ q.limit = limit /\ q.queried = queried
  BY <1>1 DEF OfImages, AskedWith
<1> HIDE DEF q, A
<1>5. /\ q.about = A.about /\ q.s = A.s /\ q.fields = A.fields /\ q.mode = A.mode /\ q.listens = A.listens
      /\ q.thinking = A.thinking /\ q.window = A.window /\ q.cands = A.cands /\ q.near = A.near
      /\ q.embedded = A.embedded /\ q.labels = A.labels /\ q.fixed = A.fixed /\ q.answers = A.answers
  BY <1>3 DEF AskedWith
<1>u. A.listens \in BOOLEAN /\ A.thinking \in BOOLEAN /\ A.embedded \in BOOLEAN
  BY PlainRequestIs DEF A
<1>6. /\ A.about = "invocation" /\ A.s = Delivered /\ A.fields = <<YesNo("core")>> /\ A.mode = "all"
      /\ A.window = 32768 /\ A.cands = <<2, 1, 3>> /\ A.near = [j \in 1..3 |-> j]
      /\ A.labels = [j \in 1..3 |-> <<8, 90, 0>>] /\ A.fixed = 300 /\ A.answers = <<GoodAnswer, GoodAnswer>>
  BY PlainRequestIs DEF A
<1>7. q.window \in Nat /\ q.fixed \in Nat /\ 8 \in Nat /\ 90 \in Nat /\ 0 \in Nat
  BY <1>5, <1>6
<1>t. q.listens \in BOOLEAN /\ q.thinking \in BOOLEAN /\ q.embedded \in BOOLEAN
  BY <1>5, <1>u, Zenon
<1>8. q.near \in [1..3 -> Int] /\ q.labels \in [1..3 -> Nat \X Nat \X Nat]
  BY <1>4, <1>5, <1>6, <1>7
<1>f. \E j \in {0, 2}, other \in FileKinds : q.files = [PlainFiles EXCEPT ![j] = [other EXCEPT !.of = j]]
  BY <1>4, Zenon
<1>d. q.depth \in Nat \cup {NoCap} /\ q.modelDepth \in Nat \cup {NoCap} /\ q.maxImages \in Int /\ q.limit \in {NoCap, 3}
      /\ q.queried \in BOOLEAN
  BY <1>4
<1>e. q.about = "invocation" /\ q.s = Delivered /\ q.fields = <<YesNo("core")>> /\ q.mode = "all"
      /\ q.cands = <<2, 1, 3>> /\ q.answers = <<GoodAnswer, GoodAnswer>>
  BY <1>5, <1>6
<1>9. Varied(q)
  BY <1>1, <1>2, <1>7, <1>t, GoodAnswersAre, <1>8, <1>f, <1>d, <1>e DEF Varied
<1>10. q.about = "invocation" /\ InvocationAsked(q)
  BY <1>9, VariedIsAsked
<1> QED BY <1>10 DEF q

\* The questions about answers.
LEMMA WithAnswersIsAsked ==
  ASSUME NEW a \in AnswerPairs, NEW w \in Nat, NEW icl
  PROVE  WithAnswers(a, w, icl).about = "invocation" /\ InvocationAsked(WithAnswers(a, w, icl))
<1> DEFINE q == WithAnswers(a, w, icl)
           A == AskedPlainly
<1>1. {"about"} \cup AskedWith \subseteq DOMAIN A
  BY PlainRequestIs
<1>2. DOMAIN q = DOMAIN A
  BY DEF WithAnswers
<1>3. \A x \in ({"about"} \cup AskedWith) \ {"answers", "window", "icl"} : q[x] = A[x]
  BY <1>1 DEF WithAnswers, AskedWith
<1>4. q.answers = a /\ q.window = w
  BY <1>1 DEF WithAnswers, AskedWith
<1> HIDE DEF q, A
<1>5. /\ q.about = A.about /\ q.s = A.s /\ q.fields = A.fields /\ q.mode = A.mode /\ q.listens = A.listens
      /\ q.thinking = A.thinking /\ q.cands = A.cands /\ q.near = A.near
      /\ q.embedded = A.embedded /\ q.labels = A.labels /\ q.fixed = A.fixed
      /\ q.depth = A.depth /\ q.modelDepth = A.modelDepth /\ q.maxImages = A.maxImages /\ q.queried = A.queried
      /\ q.files = A.files /\ q.limit = A.limit
  BY <1>3 DEF AskedWith
<1>6. /\ A.about = "invocation" /\ A.s = Delivered /\ A.fields = <<YesNo("core")>> /\ A.mode = "all" /\ A.listens \in BOOLEAN
      /\ A.thinking \in BOOLEAN /\ A.cands = <<2, 1, 3>> /\ A.near = [j \in 1..3 |-> j] /\ A.embedded \in BOOLEAN
      /\ A.labels = [j \in 1..3 |-> <<8, 90, 0>>] /\ A.fixed = 300
      /\ A.depth = NoCap /\ A.modelDepth = NoCap /\ A.maxImages = 4 /\ A.queried \in BOOLEAN /\ A.files = PlainFiles
      /\ A.limit = 3
  BY PlainRequestIs DEF A
<1>7. /\ q.fixed \in Nat /\ 8 \in Nat /\ 90 \in Nat /\ 0 \in Nat
      /\ q.depth \in Nat \cup {NoCap} /\ q.modelDepth \in Nat \cup {NoCap} /\ q.maxImages \in Int /\ q.limit \in {NoCap, 3}
  BY <1>5, <1>6
<1>t. q.listens \in BOOLEAN /\ q.thinking \in BOOLEAN /\ q.embedded \in BOOLEAN /\ q.queried \in BOOLEAN
  BY <1>5, <1>6, Zenon
<1>8. q.near \in [1..3 -> Int] /\ q.labels \in [1..3 -> Nat \X Nat \X Nat]
  BY <1>4, <1>5, <1>6, <1>7
<1>9. Varied(q)
  BY <1>1, <1>2, <1>4, <1>5, <1>6, <1>7, <1>t, <1>8 DEF Varied
<1>10. q.about = "invocation" /\ InvocationAsked(q)
  BY <1>9, VariedIsAsked
<1> QED BY <1>10 DEF q

\* All questions about invocations.
LEMMA InvocationQuestionIs ==
  ASSUME NEW q \in RoomQuestions \cup ImageQuestions \cup ResponseQuestions
  PROVE  q.about = "invocation" /\ InvocationAsked(q)
<1>1. CASE q \in RoomQuestions
  <2> DEFINE O == {NoCap, 300}
             M == {"all", "core_only"}
             Tg == {<<"none", FALSE, FALSE>>, <<"always", FALSE, FALSE>>, <<"switch", TRUE, TRUE>>,
                    <<"switch", TRUE, FALSE>>, <<"switch", FALSE, FALSE>>}
             W == {1024, 2304, 8192, 69632, 262144}
             F == {300, 6000}
             S == {100, 2500}
             I == {"core_only", "aux_and_core"}
  <2>1. RoomQuestions = {InRoom(o, f, m, t, w, fixed, size, i) :
                           o \in O, f \in AskedSchemas, m \in M, t \in Tg, w \in W, fixed \in F, size \in S, i \in I}
    BY DEF RoomQuestions
  <2>2. W \subseteq Nat /\ F \subseteq Nat /\ S \subseteq Nat
    OBVIOUS
  <2>3. \A t \in Tg : t[2] \in BOOLEAN /\ t[3] \in BOOLEAN
    <3> DEFINE Tells(t) == t[2] \in BOOLEAN /\ t[3] \in BOOLEAN
    <3>1. \A x : \A y, z \in BOOLEAN : Tells(<<x, y, z>>)
      OBVIOUS
    <3> HIDE DEF Tells
    <3>2. TRUE \in BOOLEAN /\ FALSE \in BOOLEAN
      OBVIOUS
    <3>3. /\ Tells(<<"none", FALSE, FALSE>>) /\ Tells(<<"always", FALSE, FALSE>>) /\ Tells(<<"switch", TRUE, TRUE>>)
          /\ Tells(<<"switch", TRUE, FALSE>>) /\ Tells(<<"switch", FALSE, FALSE>>)
      BY <3>1, <3>2, Zenon
    <3>4. \A t \in Tg : Tells(t)
      BY <3>3, Zenon
    <3> QED BY <3>4 DEF Tells
  <2> HIDE DEF Tg, W, F, S, I
  <2>4. PICK o \in O, f \in AskedSchemas, m \in M, t \in Tg, w \in W, fixed \in F, size \in S, i \in I :
          q = InRoom(o, f, m, t, w, fixed, size, i)
    <3> HIDE DEF O, M
    <3> QED BY <1>1, <2>1
  <2>5. t[2] \in BOOLEAN /\ t[3] \in BOOLEAN /\ w \in Nat /\ fixed \in Nat /\ size \in Nat
    BY <2>2, <2>3
  <2>6. InRoom(o, f, m, t, w, fixed, size, i).about = "invocation" /\ InvocationAsked(InRoom(o, f, m, t, w, fixed, size, i))
    BY <2>5, InRoomIsAsked
  <2> QED BY <2>4, <2>6
<1>2. CASE q \in ImageQuestions
  <2> DEFINE K == {0, 2}
             N == {1, 3, 4}
             D == {<<NoCap, NoCap>>, <<NoCap, 1>>, <<2, 1>>}
             S == {1..3, {1, 3}}
             L == {NoCap, 3}
             H == {1..3, {1}}
  <2>1. ImageQuestions = {OfImages(k, kind, n, d, stored, limit, has, queried) :
                            k \in K, kind \in FileKinds, n \in N, d \in D, stored \in S, limit \in L,
                            has \in H, queried \in BOOLEAN}
    BY DEF ImageQuestions
  <2>2. N \subseteq Int
    OBVIOUS
  <2>3. \A d \in D : d[1] \in Nat \cup {NoCap} /\ d[2] \in Nat \cup {NoCap}
    OBVIOUS
  <2> HIDE DEF N, D, S, H
  <2>4. PICK k \in K, kind \in FileKinds, n \in N, d \in D, stored \in S, limit \in L, has \in H, queried \in BOOLEAN :
          q = OfImages(k, kind, n, d, stored, limit, has, queried)
    <3> HIDE DEF K, L
    <3> QED BY <1>2, <2>1
  <2>5. n \in Int /\ d[1] \in Nat \cup {NoCap} /\ d[2] \in Nat \cup {NoCap}
    BY <2>2, <2>3
  <2>6. /\ OfImages(k, kind, n, d, stored, limit, has, queried).about = "invocation"
        /\ InvocationAsked(OfImages(k, kind, n, d, stored, limit, has, queried))
    BY <2>5, OfImagesIsAsked
  <2> QED BY <2>4, <2>6
<1>3. CASE q \in ResponseQuestions
  <2> DEFINE W == {1024, 262144}
  <2>1. PICK a \in AnswerPairs, w \in W, icl \in {"enabled", "disabled"} : q = WithAnswers(a, w, icl)
    BY <1>3 DEF ResponseQuestions
  <2>2. w \in Nat
    OBVIOUS
  <2>3. WithAnswers(a, w, icl).about = "invocation" /\ InvocationAsked(WithAnswers(a, w, icl))
    BY <2>2, WithAnswersIsAsked
  <2> QED BY <2>1, <2>3
<1> QED BY <1>1, <1>2, <1>3

-----------------------------------------------------------------------------
(* Launches that the run asks for.                                         *)

\* The rows of a launch have their fields.
LEMMA RowsAskedAre ==
  ASSUME NEW nano, NEW super, RowFields \subseteq DOMAIN nano, RowFields \subseteq DOMAIN super,
         NEW id \in DOMAIN BaseRows(nano, super, Elsewhere)
  PROVE  RowFields \subseteq DOMAIN BaseRows(nano, super, Elsewhere)[id]
<1> DEFINE c == Elsewhere
           d == BaseRow(1, "nano", FALSE, TRUE, NoBase, "none")
           e == BaseRow(1, "unmapped", TRUE, TRUE, NoBase, "none")
           f == BaseRow(1, "nano", TRUE, FALSE, NoBase, "none")
           r == BaseRows(nano, super, Elsewhere)
<1>1. \A project, name, exact, trainable, base, got :
        RowFields \subseteq DOMAIN BaseRow(project, name, exact, trainable, base, got)
  BY DEF BaseRow, RowFields
<1>2. RowFields \subseteq DOMAIN c /\ RowFields \subseteq DOMAIN d /\ RowFields \subseteq DOMAIN e /\ RowFields \subseteq DOMAIN f
  BY <1>1 DEF Elsewhere
<1>3. r = <<nano, super, c, d, e, f>>
  BY DEF BaseRows
<1> HIDE DEF c, d, e, f
<1>4. DOMAIN r = 1..6 /\ r[1] = nano /\ r[2] = super /\ r[3] = c /\ r[4] = d /\ r[5] = e /\ r[6] = f
  BY <1>3
<1> HIDE DEF r
<1>5. id = 1 \/ id = 2 \/ id = 3 \/ id = 4 \/ id = 5 \/ id = 6
  BY <1>4 DEF r
<1>6. RowFields \subseteq DOMAIN r[id]
  BY <1>2, <1>4, <1>5
<1> QED BY <1>6 DEF r

\* So have the two that may be selected, and the one of another project.
LEMMA BaseRowsAre ==
  /\ \A nano \in NanoRows : RowFields \subseteq DOMAIN nano
  /\ \A super \in SuperRows : RowFields \subseteq DOMAIN super
  /\ RowFields \subseteq DOMAIN BaseRow(1, Super, TRUE, TRUE, Super, "pull_complete")
  /\ RowFields \subseteq DOMAIN Elsewhere
<1>1. \A project, name, exact, trainable, base, got :
        RowFields \subseteq DOMAIN BaseRow(project, name, exact, trainable, base, got)
  BY DEF BaseRow, RowFields
<1> QED BY <1>1 DEF NanoRows, SuperRows, Elsewhere

\* The launch that the others vary.
LEMMA AllReadyIs ==
  /\ {"about", "has", "silent", "transfers", "appears"} \cup LaunchFields \subseteq DOMAIN AllReady
  /\ AllReady.about = "bases" /\ AllReady.ids = <<>>
  /\ {AllReady.up, AllReady.timeouts, AllReady.booted, AllReady.identity, AllReady.workspace,
      AllReady.lora, AllReady.tagRejectsLora, AllReady.token, AllReady.data, AllReady.guidance,
      AllReady.resumes} \subseteq BOOLEAN
BY DEF AllReady, LaunchFields

\* A launch with bases to fetch.
LEMMA FetchingIsAsked ==
  ASSUME NEW nano \in NanoRows, NEW super \in SuperRows, NEW ids, \E I : ids \in Seq(I), NEW lora \in BOOLEAN,
         NEW schemes, NEW has, NEW silent, NEW transfers, NEW appears
  PROVE  /\ Fetching(nano, super, ids, lora, schemes, has, silent, transfers, appears).about = "bases"
         /\ LaunchAsked(Fetching(nano, super, ids, lora, schemes, has, silent, transfers, appears))
<1> DEFINE q == Fetching(nano, super, ids, lora, schemes, has, silent, transfers, appears)
           A == AllReady
           changed == {"rows", "ids", "lora", "schemes", "has", "silent", "transfers", "appears", "pythons"}
<1>1. {"about", "has", "silent", "transfers", "appears"} \cup LaunchFields \subseteq DOMAIN A
  BY AllReadyIs
<1>2. DOMAIN q = DOMAIN A
  BY DEF Fetching
<1>3. \A x \in ({"about"} \cup LaunchFields) \ changed : q[x] = A[x]
  BY <1>1 DEF Fetching, LaunchFields
<1>4. q.rows = BaseRows(nano, super, Elsewhere) /\ q.ids = ids /\ q.lora = lora
  BY <1>1 DEF Fetching, LaunchFields
<1> HIDE DEF q, A
<1>5. /\ q.about = A.about /\ q.up = A.up /\ q.timeouts = A.timeouts /\ q.booted = A.booted /\ q.identity = A.identity
      /\ q.workspace = A.workspace /\ q.tagRejectsLora = A.tagRejectsLora /\ q.token = A.token /\ q.data = A.data
      /\ q.guidance = A.guidance /\ q.resumes = A.resumes
  BY <1>3 DEF LaunchFields
<1>6. A.about = "bases" /\ {A.up, A.timeouts, A.booted, A.identity, A.workspace, A.lora, A.tagRejectsLora,
                            A.token, A.data, A.guidance, A.resumes} \subseteq BOOLEAN
  BY AllReadyIs DEF A
<1>7. \A id \in DOMAIN q.rows : RowFields \subseteq DOMAIN q.rows[id]
  BY <1>4, RowsAskedAre, BaseRowsAre
<1>8. {q.up, q.timeouts, q.booted, q.identity, q.workspace, q.lora, q.tagRejectsLora, q.token, q.data,
       q.guidance, q.resumes} \subseteq BOOLEAN
  BY <1>4, <1>5, <1>6, Zenon
<1>9. q.about = "bases" /\ LaunchAsked(q)
  BY <1>1, <1>2, <1>4, <1>5, <1>6, <1>7, <1>8 DEF LaunchAsked
<1> QED BY <1>9 DEF q

\* All questions about launches.
LEMMA ReadinessQuestionIs ==
  ASSUME NEW q \in ReadinessQuestions
  PROVE  q.about = "bases" /\ LaunchAsked(q)
<1> DEFINE Sch == {{}, {"FP8"}}
           Has == {{}, {"nano"}, SelfServed}
           Sil == {{}, {Super}}
           App == {SelfServed, {"nano"}}
           Pys == {<<"none", "none", "none", "bare">>, <<"gone", "complete", "none", "bare">>,
                   <<"none", "none", "complete", "bare">>}
           F == {Fetching(nano, super, ids, lora, schemes, has, silent, transfers, appears) :
                   nano \in NanoRows, super \in SuperRows, ids \in Selections, lora \in BOOLEAN, schemes \in Sch,
                   has \in Has, silent \in Sil, transfers \in BOOLEAN, appears \in App}
           N == {NotReadied(nano, lora, up, booted, identity, data, g, token, resumes, pythons) :
                   nano \in NanoRows, lora \in BOOLEAN, up \in BOOLEAN, booted \in BOOLEAN, identity \in BOOLEAN,
                   data \in BOOLEAN, g \in BOOLEAN, token \in BOOLEAN, resumes \in BOOLEAN, pythons \in Pys}
<1>1. ReadinessQuestions = F \cup N
  BY DEF ReadinessQuestions
<1>2. \A ids \in Selections : ids \in Seq(Int)
  <2>1. /\ <<1>> \in Seq(Int) /\ <<2, 1>> \in Seq(Int) /\ <<2>> \in Seq(Int) /\ <<4>> \in Seq(Int)
        /\ <<1, 5>> \in Seq(Int) /\ <<6>> \in Seq(Int) /\ <<1, 7>> \in Seq(Int) /\ <<3>> \in Seq(Int)
    OBVIOUS
  <2> QED BY <2>1, Zenon DEF Selections
<1> HIDE DEF Sch, Has, Sil, App, Pys
<1>3. CASE q \in F
  <2>1. PICK nano \in NanoRows, super \in SuperRows, ids \in Selections, lora \in BOOLEAN, schemes \in Sch,
             has \in Has, silent \in Sil, transfers \in BOOLEAN, appears \in App :
          q = Fetching(nano, super, ids, lora, schemes, has, silent, transfers, appears)
    BY <1>3
  <2>2. \E I : ids \in Seq(I)
    BY <1>2
  <2>3. /\ Fetching(nano, super, ids, lora, schemes, has, silent, transfers, appears).about = "bases"
        /\ LaunchAsked(Fetching(nano, super, ids, lora, schemes, has, silent, transfers, appears))
    BY <2>2, FetchingIsAsked
  <2> QED BY <2>1, <2>3
<1>4. CASE q \in N
  <2>1. PICK nano \in NanoRows, lora \in BOOLEAN, up \in BOOLEAN, booted \in BOOLEAN, identity \in BOOLEAN,
             data \in BOOLEAN, g \in BOOLEAN, token \in BOOLEAN, resumes \in BOOLEAN, pythons \in Pys :
          q = NotReadied(nano, lora, up, booted, identity, data, g, token, resumes, pythons)
    BY <1>4
  <2> DEFINE A == AllReady
             super == BaseRow(1, Super, TRUE, TRUE, Super, "pull_complete")
             changed == {"rows", "ids", "lora", "up", "booted", "identity", "data", "guidance", "token", "resumes", "pythons"}
  <2>2. {"about", "has", "silent", "transfers", "appears"} \cup LaunchFields \subseteq DOMAIN A
    BY AllReadyIs
  <2>3. DOMAIN q = DOMAIN A
    BY <2>1 DEF NotReadied
  <2>4. \A x \in ({"about"} \cup LaunchFields) \ changed : q[x] = A[x]
    BY <2>1, <2>2 DEF NotReadied, LaunchFields
  <2>5. /\ q.rows = BaseRows(nano, super, Elsewhere) /\ q.ids = <<1>> /\ q.lora = lora /\ q.up = up /\ q.booted = booted
        /\ q.identity = identity /\ q.data = data /\ q.guidance = g /\ q.token = token /\ q.resumes = resumes
    BY <2>1, <2>2 DEF NotReadied, LaunchFields
  <2>6. RowFields \subseteq DOMAIN super
    BY BaseRowsAre
  <2> HIDE DEF A, super
  <2>7. q.about = A.about /\ q.timeouts = A.timeouts /\ q.workspace = A.workspace /\ q.tagRejectsLora = A.tagRejectsLora
    BY <2>4 DEF LaunchFields
  <2>8. A.about = "bases" /\ {A.timeouts, A.workspace, A.tagRejectsLora} \subseteq BOOLEAN
    BY AllReadyIs DEF A
  <2>9. \A id \in DOMAIN q.rows : RowFields \subseteq DOMAIN q.rows[id]
    BY <2>5, <2>6, RowsAskedAre, BaseRowsAre
  <2>10. {q.up, q.timeouts, q.booted, q.identity, q.workspace, q.lora, q.tagRejectsLora, q.token, q.data,
          q.guidance, q.resumes} \subseteq BOOLEAN
    BY <2>5, <2>7, <2>8, Zenon
  <2>11. q.ids \in Seq({1})
    BY <2>5
  <2> QED BY <2>2, <2>3, <2>7, <2>8, <2>9, <2>10, <2>11 DEF LaunchAsked
<1> HIDE DEF F, N
<1> QED BY <1>1, <1>3, <1>4

-----------------------------------------------------------------------------
(* Hosts that the run asks about.                                          *)

\* The models of the catalog, told by their names.
LEMMA AskedModels ==
  /\ OmniModel \in NimModels /\ NanoModel \in NimModels /\ SmallModel \in NimModels
  /\ HostedOnly \in NimModels /\ EmbedModel \in NimModels
  /\ OmniModel.name = 1 /\ NanoModel.name = 2 /\ SmallModel.name = 3 /\ HostedOnly.name = 4 /\ EmbedModel.name = 5
  /\ EmbedModel.runtime # NoKey /\ EmbedModel.cc = NoCap
  /\ OmniModel.runtime = 10 /\ NanoModel.runtime = 20 /\ SmallModel.runtime = 30 /\ EmbedModel.runtime = 50
<1>1. NoKey = 0 /\ NoCap \in Int
  BY DEF NoKey, NoCap
<1>4. OmniModel \in NimModels /\ OmniModel.name = 1 /\ OmniModel.runtime = 10
  BY <1>1 DEF OmniModel, LocalModelOf, NimModels
<1>5. NanoModel \in NimModels /\ NanoModel.name = 2 /\ NanoModel.runtime = 20
  BY <1>1 DEF NanoModel, LocalModelOf, NimModels
<1>6. SmallModel \in NimModels /\ SmallModel.name = 3 /\ SmallModel.runtime = 30
  BY <1>1 DEF SmallModel, LocalModelOf, NimModels
<1>7. HostedOnly \in NimModels /\ HostedOnly.name = 4
  BY <1>1 DEF HostedOnly, LocalModelOf, NimModels
<1>8. EmbedModel \in NimModels /\ EmbedModel.name = 5 /\ EmbedModel.runtime = 50 /\ EmbedModel.cc = NoCap
  BY <1>1 DEF EmbedModel, LocalModelOf, NimModels
<1>9. 50 # NoKey
  BY <1>1
<1> QED BY <1>4, <1>5, <1>6, <1>7, <1>8, <1>9

OtherGpus == {<<GpuOf(7960, 90, TRUE)>>, <<GpuOf(4610, 89, TRUE), GpuOf(4610, 89, TRUE)>>}

\* The GPUs of the hosts.
LEMMA AskedGpus ==
  /\ \A gpus \in GpuChoices : gpus \in Seq(Gpus)
  /\ \A gpus \in OtherGpus : gpus \in Seq(Gpus)
<1>1. NoCap \in Int
  BY DEF NoCap
<1> DEFINE a == GpuOf(7916, 90, TRUE)
           b == GpuOf(7960, 90, TRUE)
           c == GpuOf(7960, NoCap, TRUE)
           d == GpuOf(7960, 80, FALSE)
           e == GpuOf(4610, 89, TRUE)
           f == GpuOf(2398, 86, TRUE)
           g == GpuOf(1600, 75, FALSE)
<1>2. a \in Gpus /\ b \in Gpus /\ c \in Gpus /\ d \in Gpus /\ e \in Gpus /\ f \in Gpus /\ g \in Gpus
  BY <1>1 DEF GpuOf, Gpus
<1>3. GpuKinds = {a, b, c, d, e, f, g}
  BY DEF GpuKinds
<1>4. OtherGpus = {<<b>>, <<e, e>>}
  BY DEF OtherGpus
<1> HIDE DEF a, b, c, d, e, f, g
<1>5. GpuKinds \subseteq Gpus
  BY <1>2, <1>3
<1>6. <<>> \in Seq(Gpus) /\ \A x, y \in Gpus : <<x>> \in Seq(Gpus) /\ <<x, y>> \in Seq(Gpus)
  OBVIOUS
<1>7. ASSUME NEW gpus \in GpuChoices PROVE gpus \in Seq(Gpus)
  <2>1. \/ gpus = <<>>
        \/ \E x \in GpuKinds : gpus = <<x>>
        \/ \E x, y \in GpuKinds : gpus = <<x, y>>
    BY DEF GpuChoices
  <2> QED BY <1>5, <1>6, <2>1
<1>8. <<b>> \in Seq(Gpus) /\ <<e, e>> \in Seq(Gpus)
  BY <1>2, <1>6
<1>9. ASSUME NEW gpus \in OtherGpus PROVE gpus \in Seq(Gpus)
  BY <1>4, <1>8
<1> QED BY <1>7, <1>9

\* A row as it is made.
LEMMA RowIs ==
  ASSUME NEW id \in Nat, NEW project \in Nat, NEW device \in Nat \ {NoKey}, NEW role \in {"teacher", "student", "embedding"},
         NEW model \in NimModels, model.runtime # NoKey, NEW status \in {"starting", "running"}
  PROVE  /\ RowOf(id, project, device, role, model, status) \in NimRows
         /\ RowOf(id, project, device, role, model, status).role = role
         /\ RowOf(id, project, device, role, model, status).name = model.name
BY DEF RowOf, NimRows, NimModels

\* A row of a question: one that can be, and no Teacher by the embedding model.
AskedRow(row) == row \in NimRows /\ (row.role = "teacher" => row.name # EmbedModel.name)

\* The rows of the hosts.
LEMMA AskedRows ==
  ASSUME NEW rs \in RowChoices
  PROVE  rs \in Seq(NimRows) /\ \A row \in ToSet(rs) : AskedRow(row)
<1> DEFINE S == {row \in NimRows : AskedRow(row)}
<1>1. \A n \in 1..50 : n \in Nat \ {NoKey}
  BY DEF NoKey
<1>2. /\ 1 \in Nat /\ 2 \in Nat /\ 1 \in Nat \ {NoKey} /\ 2 \in Nat \ {NoKey}
  BY <1>1
<1>3. ASSUME NEW id \in {1, 2}, NEW project \in {1, 2}, NEW device \in {1, 2}, NEW status \in {"running", "starting"},
             NEW model \in {OmniModel, NanoModel, SmallModel}, NEW role \in {"teacher", "student"}
      PROVE  RowOf(id, project, device, role, model, status) \in S
  <2>1. model \in NimModels /\ model.name # EmbedModel.name /\ model.runtime \in {10, 20, 30}
    BY AskedModels
  <2>2. model.runtime # NoKey
    BY <1>1, <2>1
  <2>3. id \in Nat /\ project \in Nat /\ device \in Nat \ {NoKey} /\ status \in {"starting", "running"}
    BY <1>2
  <2> HIDE DEF S
  <2>4. /\ RowOf(id, project, device, role, model, status) \in NimRows
        /\ RowOf(id, project, device, role, model, status).role = role
        /\ RowOf(id, project, device, role, model, status).name = model.name
    <3>1. role \in {"teacher", "student", "embedding"}
      OBVIOUS
    <3>2. model.name \in Nat \ {NoKey} /\ model.runtime \in Nat \ {NoKey}
      BY <2>1, <2>2 DEF NimModels
    <3> QED BY <2>3, <3>1, <3>2 DEF RowOf, NimRows
  <2> QED BY <2>1, <2>4 DEF S, AskedRow
<1>4. RowOf(1, 1, 1, "embedding", EmbedModel, "running") \in S
  <2>1. /\ RowOf(1, 1, 1, "embedding", EmbedModel, "running") \in NimRows
        /\ RowOf(1, 1, 1, "embedding", EmbedModel, "running").role = "embedding"
    <3>1. "running" \in {"starting", "running"} /\ "embedding" \in {"teacher", "student", "embedding"}
      BY Zenon
    <3>2. EmbedModel \in NimModels /\ EmbedModel.runtime # NoKey
      BY AskedModels
    <3> QED BY <1>2, <3>1, <3>2, RowIs
  <2> QED BY <2>1 DEF AskedRow
<1> HIDE DEF S
<1>5. /\ <<>> \in Seq(S) /\ \A a, b \in S : <<a>> \in Seq(S) /\ <<a, b>> \in Seq(S)
  OBVIOUS
<1>6. /\ RowOf(1, 1, 1, "teacher", NanoModel, "running") \in S /\ RowOf(1, 1, 1, "teacher", OmniModel, "starting") \in S
      /\ RowOf(1, 2, 2, "teacher", NanoModel, "running") \in S /\ RowOf(2, 1, 1, "student", SmallModel, "running") \in S
      /\ RowOf(2, 1, 1, "teacher", SmallModel, "running") \in S /\ RowOf(1, 1, 2, "teacher", NanoModel, "running") \in S
      /\ RowOf(2, 2, 1, "teacher", NanoModel, "running") \in S
  BY <1>3
<1> DEFINE Bears(s) == s \in Seq(S)
<1>7. Bears(<<>>) /\ \A a, b \in S : Bears(<<a>>) /\ Bears(<<a, b>>)
  BY <1>5
<1> HIDE DEF Bears
<1>8. Bears(rs)
  BY <1>4, <1>6, <1>7, Zenon DEF RowChoices
<1>9. rs \in Seq(S)
  BY <1>8 DEF Bears
<1>10. rs \in Seq(NimRows)
  <2>1. S \subseteq NimRows
    BY DEF S
  <2> QED BY <1>9, <2>1
<1>11. ToSet(rs) \subseteq S
  BY <1>9 DEF ToSet
<1> QED BY <1>10, <1>11 DEF S

\* The projects that follow them.
LEMMA AskedFollowers ==
  \A p \in DOMAIN FollowersOf(NanoModel) : FollowersOf(NanoModel)[p] \in Followings
<1> DEFINE Follows(model, mode, to, u) == [model |-> model, mode |-> mode, to |-> to, up |-> u]
<1>1. \A model \in NimModels, mode \in {"local", "user"}, to \in Nat, u \in BOOLEAN : Follows(model, mode, to, u) \in Followings
  <2> HIDE DEF NimModels
  <2> QED BY DEF Followings
<1>2. NanoModel \in NimModels /\ SmallModel \in NimModels /\ 1 \in Nat /\ 2 \in Nat /\ NoKey \in Nat
      /\ TRUE \in BOOLEAN /\ FALSE \in BOOLEAN
  BY AskedModels DEF NoKey
<1> DEFINE a == Follows(NanoModel, "local", 1, TRUE)
           b == Follows(NanoModel, "local", 1, FALSE)
           c == Follows(NanoModel, "user", NoKey, FALSE)
           d == Follows(SmallModel, "local", 2, TRUE)
           s == FollowersOf(NanoModel)
<1>3. s = <<a, b, c, d>>
  BY DEF FollowersOf
<1> HIDE DEF Follows
<1>4. a \in Followings /\ b \in Followings /\ c \in Followings /\ d \in Followings
  BY <1>1, <1>2
<1> HIDE DEF a, b, c, d, s
<1>5. \A p \in DOMAIN s : s[p] \in Followings
  <2>1. DOMAIN s = 1..4 /\ s[1] = a /\ s[2] = b /\ s[3] = c /\ s[4] = d
    BY <1>3
  <2>2. \A p \in 1..4 : p = 1 \/ p = 2 \/ p = 3 \/ p = 4
    OBVIOUS
  <2> QED BY <1>4, <2>1, <2>2
<1> QED BY <1>5 DEF s

\* The host that the others vary.
LEMMA IdleHostIs ==
  /\ {"about"} \cup HostFields \subseteq DOMAIN IdleHost /\ IdleHost.about = "host"
  /\ IdleHost.catalog \in SUBSET NimModels /\ \A m, n \in IdleHost.catalog : m.name = n.name => m = n
  /\ IdleHost.embedding = EmbedModel /\ EmbedModel \in IdleHost.catalog
  /\ IdleHost.rows = <<>> /\ IdleHost.projects = <<>>
  /\ {IdleHost.docker, IdleHost.toolkit, IdleHost.hostedKey, IdleHost.ngcKey, IdleHost.optedOut} \subseteq BOOLEAN
<1> DEFINE c == IdleHost.catalog
<1>1. c = {OmniModel, NanoModel, SmallModel, HostedOnly, EmbedModel}
  BY DEF IdleHost
<1>2. {"about"} \cup HostFields \subseteq DOMAIN IdleHost /\ IdleHost.about = "host" /\ IdleHost.embedding = EmbedModel
      /\ IdleHost.rows = <<>> /\ IdleHost.projects = <<>>
  BY DEF IdleHost, HostFields
<1>3. {IdleHost.docker, IdleHost.toolkit, IdleHost.hostedKey, IdleHost.ngcKey, IdleHost.optedOut} \subseteq BOOLEAN
  BY DEF IdleHost
<1> HIDE DEF c
<1>4. c \in SUBSET NimModels /\ EmbedModel \in c
  BY <1>1, AskedModels
<1>5. \A m, n \in c : m.name = n.name => m = n
  BY <1>1, AskedModels
<1> QED BY <1>2, <1>3, <1>4, <1>5 DEF c

\* A host at work.
LEMMA BusyHostIsAsked ==
  ASSUME NEW gpus \in GpuChoices, NEW rs \in RowChoices, OnDevices(rs, gpus), NEW key \in BOOLEAN, NEW gone
  PROVE  BusyHost(gpus, rs, key, gone).about = "host" /\ HostAsked(BusyHost(gpus, rs, key, gone))
<1> DEFINE h == BusyHost(gpus, rs, key, gone)
           A == IdleHost
<1>1. {"about"} \cup HostFields \subseteq DOMAIN A
  BY IdleHostIs
<1>2. DOMAIN h = DOMAIN A
  BY DEF BusyHost
<1>3. \A x \in ({"about"} \cup HostFields) \ {"gpus", "rows", "hostedKey", "projects", "archived"} : h[x] = A[x]
  BY <1>1 DEF BusyHost, HostFields
<1>4. h.gpus = gpus /\ h.rows = rs /\ h.hostedKey = key /\ h.projects = FollowersOf(NanoModel)
  BY <1>1 DEF BusyHost, HostFields
<1> HIDE DEF h, A
<1>5. /\ h.about = A.about /\ h.catalog = A.catalog /\ h.embedding = A.embedding /\ h.docker = A.docker
      /\ h.toolkit = A.toolkit /\ h.ngcKey = A.ngcKey /\ h.optedOut = A.optedOut
  BY <1>3 DEF HostFields
<1>6. /\ A.about = "host" /\ A.catalog \in SUBSET NimModels /\ \A m, n \in A.catalog : m.name = n.name => m = n
      /\ A.embedding = EmbedModel /\ EmbedModel \in A.catalog
  BY IdleHostIs DEF A
<1>7. {A.docker, A.toolkit, A.ngcKey, A.optedOut} \subseteq BOOLEAN
  BY IdleHostIs DEF A
<1>8. {h.docker, h.toolkit, h.hostedKey, h.ngcKey, h.optedOut} \subseteq BOOLEAN
  BY <1>4, <1>5, <1>7, Zenon
<1>9. h.gpus \in Seq(Gpus) /\ h.rows \in Seq(NimRows)
  BY <1>4, AskedGpus, AskedRows
<1>10. \A row \in ToSet(h.rows) : row.device \in DOMAIN h.gpus /\ (row.role = "teacher" => row.name # h.embedding.name)
  <2>1. \A row \in ToSet(rs) : row.device \in DOMAIN gpus
    BY DEF OnDevices, ToSet, Range
  <2> QED BY <1>4, <1>5, <1>6, <2>1, AskedRows DEF AskedRow
<1>11. \A p \in DOMAIN h.projects : h.projects[p] \in Followings
  BY <1>4, AskedFollowers
<1>12. h.about = "host" /\ HostAsked(h)
  BY <1>1, <1>2, <1>5, <1>6, <1>8, <1>9, <1>10, <1>11, AskedModels DEF HostAsked
<1> QED BY <1>12 DEF h

\* A host that is asked what it is fit for.
LEMMA ChosenHostIsAsked ==
  ASSUME NEW q \in ChosenHosts
  PROVE  q.about = "host" /\ HostAsked(q)
<1> DEFINE Pr == {"fits", "timed_out", "absent", "unfit"}
           A == IdleHost
<1>p. PICK gpus \in OtherGpus, docker \in BOOLEAN, toolkit \in BOOLEAN, ngc \in BOOLEAN, key \in BOOLEAN,
           login \in BOOLEAN, probe \in Pr, out \in BOOLEAN :
        q = HostWith(gpus, docker, toolkit, ngc, key, login, probe, out)
  <2>1. ChosenHosts = {HostWith(gpus, docker, toolkit, ngc, key, login, probe, out) :
                         gpus \in OtherGpus, docker \in BOOLEAN, toolkit \in BOOLEAN, ngc \in BOOLEAN, key \in BOOLEAN,
                         login \in BOOLEAN, probe \in Pr, out \in BOOLEAN}
    BY DEF ChosenHosts, OtherGpus
  <2> HIDE DEF Pr
  <2> QED BY <2>1
<1> HIDE DEF Pr
<1>1. {"about"} \cup HostFields \subseteq DOMAIN A
  BY IdleHostIs
<1>2. DOMAIN q = DOMAIN A
  BY <1>p DEF HostWith
<1>3. \A x \in ({"about"} \cup HostFields)
               \ {"gpus", "docker", "toolkit", "ngcKey", "hostedKey", "login", "probe", "optedOut"} : q[x] = A[x]
  BY <1>1, <1>p DEF HostWith, HostFields
<1>4. /\ q.gpus = gpus /\ q.docker = docker /\ q.toolkit = toolkit /\ q.ngcKey = ngc /\ q.hostedKey = key
      /\ q.optedOut = out
  BY <1>1, <1>p DEF HostWith, HostFields
<1> HIDE DEF A
<1>5. q.about = A.about /\ q.catalog = A.catalog /\ q.embedding = A.embedding /\ q.rows = A.rows /\ q.projects = A.projects
  BY <1>3 DEF HostFields
<1>6. /\ A.about = "host" /\ A.catalog \in SUBSET NimModels /\ \A m, n \in A.catalog : m.name = n.name => m = n
      /\ A.embedding = EmbedModel /\ EmbedModel \in A.catalog /\ A.rows = <<>> /\ A.projects = <<>>
  BY IdleHostIs DEF A
<1>8. {q.docker, q.toolkit, q.hostedKey, q.ngcKey, q.optedOut} \subseteq BOOLEAN
  BY <1>4, Zenon
<1>9. q.gpus \in Seq(Gpus) /\ q.rows \in Seq(NimRows)
  BY <1>4, <1>5, <1>6, AskedGpus
<1>10. q.rows = <<>> /\ q.projects = <<>>
  BY <1>5, <1>6
<1>11. /\ \A row \in ToSet(q.rows) : row.device \in DOMAIN q.gpus /\ (row.role = "teacher" => row.name # q.embedding.name)
       /\ \A p \in DOMAIN q.projects : q.projects[p] \in Followings
  BY <1>10 DEF ToSet
<1> QED BY <1>1, <1>2, <1>5, <1>6, <1>8, <1>9, <1>11, AskedModels DEF HostAsked

\* All questions about hosts.
LEMMA HostQuestionIs ==
  ASSUME NEW q \in HostQuestions
  PROVE  q.about = "host" /\ HostAsked(q)
<1>1. CASE q \in BusyHosts /\ OnDevices(q.rows, q.gpus)
  <2> DEFINE Gone == {{}, {1}}
  <2>1. PICK gpus \in GpuChoices, rs \in RowChoices, key \in BOOLEAN, gone \in Gone : q = BusyHost(gpus, rs, key, gone)
    BY <1>1 DEF BusyHosts
  <2>2. q.gpus = gpus /\ q.rows = rs
    <3>1. {"gpus", "rows"} \subseteq DOMAIN IdleHost
      BY DEF IdleHost
    <3> QED BY <2>1, <3>1 DEF BusyHost
  <2>3. OnDevices(rs, gpus)
    BY <1>1, <2>2
  <2>4. BusyHost(gpus, rs, key, gone).about = "host" /\ HostAsked(BusyHost(gpus, rs, key, gone))
    BY <2>3, BusyHostIsAsked
  <2> QED BY <2>1, <2>4
<1>2. CASE q \in ChosenHosts
  BY <1>2, ChosenHostIsAsked
<1> QED BY <1>1, <1>2 DEF HostQuestions

-----------------------------------------------------------------------------

\* Whatever scene the run plays, each choice that is asked in it keeps its
\* promises: its questions are of the kinds that the theorems above are about
\* (pool_service, review_selector_service, icl_service, prompt_service, environment,
\* local_nim_service, training_preflight_service,
\* tao_base_experiment_provisioning_service).
THEOREM ChoicesAreKept == DataSpec => []ChoicesKeepTheirPromises
<1> DEFINE Promised(q) == CASE q.about = "pool" -> PoolChoiceIsSound(q)
                            [] q.about = "review" -> ReviewChoiceIsSound(q)
                            [] q.about = "icl" -> ExemplarsAreTheMostRelevant(q)
                            [] q.about = "invocation" -> InvocationIsSound(q)
                            [] q.about = "host" -> HostKeepsItsWord(q)
                            [] q.about = "bases" -> TrainingIsReady(q)
                            [] OTHER -> TRUE
<1>1. DataInit => ChoicesKeepTheirPromises
  <2> SUFFICES ASSUME DataInit PROVE Promised(question)
    BY DEF ChoicesKeepTheirPromises
  <2> DEFINE OfInvocation == RoomQuestions \cup ImageQuestions \cup ResponseQuestions
             OfLabels == EditQuestions \cup AnswerQuestions \cup ScoreQuestions \cup GateQuestions
  <2>1. \/ question \in PoolQuestions \/ question \in ReviewQuestions \/ question \in IclQuestions
        \/ question \in OfInvocation \/ question \in HostQuestions \/ question \in ReadinessQuestions
        \/ question \in OfLabels \/ question = NoQuestion
    <3>1. question \in CASE scene = "choices" -> PoolQuestions \cup ReviewQuestions \cup IclQuestions
                                                   \cup RoomQuestions \cup ImageQuestions
                                                   \cup ResponseQuestions \cup HostQuestions
                                                   \cup ReadinessQuestions
                         [] scene = "labels" -> OfLabels
                         [] OTHER -> {NoQuestion}
      BY DEF DataInit
    <3> HIDE DEF OfLabels
    <3> QED BY <3>1
  <2>2. CASE question \in PoolQuestions
    BY <2>2, PoolQuestionIs, PoolChoiceHolds
  <2>3. CASE question \in ReviewQuestions
    BY <2>3, ReviewQuestionIs, ReviewChoiceHolds
  <2>4. CASE question \in IclQuestions
    BY <2>4, IclQuestionIs, ExemplarsHold
  <2>5. CASE question \in OfInvocation
    BY <2>5, InvocationQuestionIs, InvocationsHold
  <2>6. CASE question \in HostQuestions
    BY <2>6, HostQuestionIs, HostsHold
  <2>7. CASE question \in ReadinessQuestions
    BY <2>7, ReadinessQuestionIs, LaunchesHold
  <2>8. CASE question \in OfLabels
    <3>1. question.about \in {"edit", "answer", "score", "gate"}
      BY <2>8, EditQuestionIs, AnswerQuestionIs, ScoreQuestionIs, GateQuestionIs
    <3> QED BY <3>1
  <2>9. CASE question = NoQuestion
    BY <2>9 DEF NoQuestion
  <2> HIDE DEF OfInvocation, OfLabels, Promised
  <2> QED BY <2>1, <2>2, <2>3, <2>4, <2>5, <2>6, <2>7, <2>8, <2>9
<1>2. ChoicesKeepTheirPromises /\ [DataNext]_dataVars => ChoicesKeepTheirPromises'
  <2> SUFFICES ASSUME ChoicesKeepTheirPromises, [DataNext]_dataVars
               PROVE  ChoicesKeepTheirPromises'
    OBVIOUS
  <2>1. question' = question
    BY DEF DataNext, dataVars
  <2> QED BY <2>1 DEF ChoicesKeepTheirPromises
<1> QED BY <1>1, <1>2, PTL DEF DataSpec
=============================================================================
