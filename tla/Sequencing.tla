----------------------------- MODULE Sequencing -----------------------------
(***************************************************************************)
(* The loop, the sorted set and the filtered sequence, that the backend's  *)
(* pure functions are made of (for, sorted and list comprehensions).  The  *)
(* latter two are told by position: an element comes behind as many others *)
(* as precede it.  They are what FoldLeft, SetToSortSeq and SelectSeq are  *)
(* to TLC; of those the prover knows nothing.                              *)
(***************************************************************************)
EXTENDS Integers, FiniteSets, Sequences

\* What became of start after n steps, the loops that update a value as they go.
Looped(n, start, Step(_, _)) ==
  LET after[i \in 0..n] == IF i = 0 THEN start ELSE Step(i, after[i - 1])
  IN after[n]

\* Of numbers.
Total(seq) ==
  LET after[i \in 0..Len(seq)] == IF i = 0 THEN 0 ELSE after[i - 1] + seq[i]
  IN after[Len(seq)]

\* The elements of S, of which each two are one before the other.
Sorted(S, Before(_, _)) ==
  [i \in 1..Cardinality(S) |->
     CHOOSE x \in S : Cardinality({y \in S : Before(y, x)}) = i - 1]

\* The elements of seq at the given positions.
AtPositions(seq, positions) ==
  LET inTurn == [i \in 1..Cardinality(positions) |->
                   CHOOSE k \in positions : Cardinality({j \in positions : j < k}) = i - 1]
  IN [i \in DOMAIN inTurn |-> seq[inTurn[i]]]

\* Those that pass a test.
Filtered(seq, Test(_)) == AtPositions(seq, {i \in DOMAIN seq : Test(seq[i])})

\* Those that belong to S.
Among(seq, S) == AtPositions(seq, {i \in DOMAIN seq : seq[i] \in S})
=============================================================================
