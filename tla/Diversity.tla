------------------------------ MODULE Diversity ------------------------------
(***************************************************************************)
(* The choices the backend makes by likeness of images: which verified     *)
(* examples join the Test Pool, which example is reviewed next, and which  *)
(* corrections a Teacher is shown with a query.                            *)
(*                                                                         *)
(* An image is its example_key, a positive number, so that ties are broken *)
(* as the code breaks them.  A measure says what the active signal (CLIP   *)
(* embedding or pHash) knows: the set `has` of images that carry it, and   *)
(* the distance of each two of these, the negated similarity of the code.  *)
(***************************************************************************)
EXTENDS Integers, FiniteSetsExt, SequencesExt, Sequencing

NoKey == 0
NoCap == -1     \* an Optional[int] that is None
Far   == 1000   \* float("inf")

Least(a, b) == IF a < b THEN a ELSE b
Ascending(S) == Sorted(S, LAMBDA a, b : a < b)
Lacking(seq, S) == AtPositions(seq, {i \in DOMAIN seq : seq[i] \notin S})

\* CLIP needs enough embeddings among the candidates.
ClipServes(embedded, switchover) == Cardinality(embedded) >= switchover

-----------------------------------------------------------------------------
(* Farthest-point selection.                                               *)

\* Mutant: the tie goes to whichever candidate the database returned first.
FarthestSeen(left, near) ==
  Looped(Len(left), NoKey, LAMBDA i, best : IF best = NoKey \/ near[left[i]] > near[best] THEN left[i] ELSE best)

\* One round: the largest distance wins, the lowest key of equals.
Farther(c, best, near) ==
  \/ best = NoKey
  \/ near[c] > near[best]
  \/ near[c] = near[best] /\ c < best

Farthest(left, near) ==
  Looped(Len(left), NoKey, LAMBDA i, best : IF Farther(left[i], best, near) THEN left[i] ELSE best)

\* left: the unselected, in the caller's order; near: distance to the nearest
\* reference or pick.
Picked(now, dist) ==
  LET pick == Farthest(now.left, now.near)
  IN [order |-> Append(now.order, pick),
      left  |-> Lacking(now.left, {pick}),
      near  |-> [k \in DOMAIN now.near |-> Least(now.near[k], dist[k][pick])]]

GreedyMaxMin(cands, start, dist, n) ==
  Looped(Least(n, Len(cands)), [order |-> <<>>, left |-> cands, near |-> start],
         LAMBDA i, now : Picked(now, dist)).order

\* An empty reference leaves every candidate infinitely far.
NearestOf(keys, refs, dist) ==
  [k \in keys |-> Min({Far} \cup {dist[k][r] : r \in refs})]

-----------------------------------------------------------------------------
(* Test Pool.                                                              *)

\* The candidates with the signal first, then the others by key.
PoolSelect(cands, refs, measure, n) ==
  IF n <= 0 THEN <<>>
  ELSE LET with   == Among(cands, measure.has)
           picked == GreedyMaxMin(with, NearestOf(measure.has, refs \cap measure.has, measure.dist),
                                  measure.dist, n)
           rest   == Ascending(Range(Lacking(cands, measure.has)))
       IN picked \o SubSeq(rest, 1, Least(n - Len(picked), Len(rest)))

-----------------------------------------------------------------------------
(* Review order.                                                           *)

\* cands: sorted by the caller; recent: what was shown last.
GreedyNext(cands, recent, measure) ==
  LET with == Among(cands, measure.has)
      refs == recent \cap measure.has
  IN IF with = <<>> THEN Head(Ascending(Range(cands)))
     ELSE IF refs = {} THEN Head(with)
     ELSE GreedyMaxMin(with, NearestOf(measure.has, refs, measure.dist), measure.dist, 1)[1]

\* Examples whose label a semantic edit took come first: the one the edit was
\* made on, then the former corrections, then the others.
FirstTier(prior, corrected, context) ==
  LET rank(k) == <<IF k = context THEN 0 ELSE 1, IF k \in corrected THEN 0 ELSE 1, k>>
      before(a, b) == \/ rank(a)[1] < rank(b)[1]
                      \/ rank(a)[1] = rank(b)[1] /\ rank(a)[2] < rank(b)[2]
                      \/ rank(a)[1] = rank(b)[1] /\ rank(a)[2] = rank(b)[2] /\ a < b
  IN Sorted(prior, before)

SelectNext(eligible, prior, corrected, context, recent, measure) ==
  IF eligible = {} THEN NoKey
  ELSE LET tier == IF eligible \cap prior # {}
                   THEN FirstTier(eligible \cap prior, corrected, context)
                   ELSE Ascending(eligible)
       IN GreedyNext(tier, recent, measure)

\* The window of what was shown: the newest `width`.
Shown(window, key, width) ==
  LET longer == Append(window, key)
  IN IF Len(longer) > width THEN SubSeq(longer, Len(longer) - width + 1, Len(longer)) ELSE longer

-----------------------------------------------------------------------------
(* Exemplars for one query.  near[k]: similarity of the query's image to   *)
(* the exemplar's, for those in `has`.  cands: newest first.               *)

RelevanceOrder(cands, has, near, queried) ==
  LET with == Range(Among(cands, has))
  IN IF ~queried \/ with = {} THEN cands
     ELSE Sorted(with, LAMBDA a, b : near[a] > near[b] \/ (near[a] = near[b] /\ a < b))
            \o Lacking(cands, has)

\* The neighbours up to the first that falls behind the best by more than the
\* gap or below the floor; the best is always kept.
AdaptiveCutoff(sims, gap, floor, cap) ==
  LET fits(i) == (gap # NoCap => sims[i] >= sims[1] - gap) /\ (floor # NoCap => sims[i] >= floor)
      kept == IF (gap = NoCap /\ floor = NoCap) \/ sims = <<>> THEN Len(sims)
              ELSE CHOOSE n \in 1..Len(sims) :
                     /\ \A i \in 2..n : fits(i)
                     /\ n = Len(sims) \/ ~fits(n + 1)
  IN IF cap = NoCap THEN kept ELSE Least(kept, cap)

SelectIcl(cands, has, near, queried, knobs) ==
  LET ordered == RelevanceOrder(cands, has, near, queried)
      sims == [i \in DOMAIN ordered |-> IF ordered[i] \in has THEN near[ordered[i]] ELSE -1]
      kept == IF queried THEN AdaptiveCutoff(sims, knobs.gap, knobs.floor, NoCap) ELSE Len(ordered)
  IN SubSeq(ordered, 1, IF knobs.depth = NoCap THEN kept ELSE Least(kept, knobs.depth))

\* The tail goes until the rest fits; it may all go, also when an empty prompt
\* is over the budget already.
Spent(seq, n, cost) == Total([i \in 1..n |-> cost[seq[i]]])

PruneByTokens(selected, cost, budget) ==
  LET fitting == {n \in 0..Len(selected) : n = 0 \/ Spent(selected, n, cost) <= budget}
  IN SubSeq(selected, 1, Max(fitting))

\* images: what the request may carry besides the query's.
PruneByImages(selected, images) ==
  IF images <= 0 THEN <<>> ELSE SubSeq(selected, 1, Least(images, Len(selected)))

\* The second best last: the ends of a prompt are read best.
Bookend(examples) ==
  IF Len(examples) <= 2 THEN examples
  ELSE <<examples[1]>> \o SubSeq(examples, 3, Len(examples)) \o <<examples[2]>>

-----------------------------------------------------------------------------
(* What the choices promise.                                               *)

Orders(S) == {s \in [1..Cardinality(S) -> S] : Range(s) = S}

\* The order in which the database returns candidates does not matter, and
\* each pick is as far from the references and the earlier picks as any that
\* was left, the images that the signal knows first (greedy_max_min_indices,
\* _rebalance_pool).
PoolChoiceIsSound(q) ==
  LET chosen == PoolSelect(Ascending(q.cands), q.refs, q.measure, q.n)
      picked == Among(chosen, q.measure.has)
      \* distance of k to the references and the first i - 1 picks
      apart(k, i) == NearestOf({k}, (q.refs \cap q.measure.has) \cup {picked[j] : j \in 1..i - 1},
                               q.measure.dist)[k]
  IN /\ \A cands \in Orders(q.cands) : PoolSelect(cands, q.refs, q.measure, q.n) = chosen
     /\ Len(chosen) = Least(q.n, Cardinality(q.cands)) /\ IsInjective(chosen)
     /\ chosen = picked \o Lacking(chosen, q.measure.has)
     /\ Len(picked) = Least(q.n, Cardinality(q.cands \cap q.measure.has))
     /\ \A i \in DOMAIN picked :
          \A k \in (q.cands \cap q.measure.has) \ {picked[j] : j \in 1..i - 1} :
            apart(picked[i], i) >= apart(k, i)

\* The exemplars of a prompt are a head of the candidates by relevance: none
\* is left out for a less relevant one, they fit both budgets, and one more
\* would not fit or falls behind (select_icl_examples and the two pruners).
ExemplarsAreTheMostRelevant(q) ==
  LET ordered == RelevanceOrder(q.cands, q.has, q.near, TRUE)
      chosen == PruneByImages(PruneByTokens(SelectIcl(q.cands, q.has, q.near, TRUE, q.knobs),
                                            q.cost, q.budget), q.images)
      n == Len(chosen)
      sim(i) == IF ordered[i] \in q.has THEN q.near[ordered[i]] ELSE -1
      spent(i) == Spent(ordered, i, q.cost)
      \* what the relevance rules, the depth and the budgets each allow
      behind(i) == i > 1 /\ \/ q.knobs.gap # NoCap /\ sim(i) < sim(1) - q.knobs.gap
                            \/ q.knobs.floor # NoCap /\ sim(i) < q.knobs.floor
  IN /\ IsPrefix(chosen, ordered)
     /\ n > 0 => spent(n) <= q.budget /\ n <= q.images
     /\ \A i \in 1..n : ~behind(i)
     /\ n < Len(ordered) =>
          \/ behind(n + 1) \/ n = q.knobs.depth
          \/ n >= q.images \/ spent(n + 1) > q.budget
     /\ Range(Bookend(chosen)) = Range(chosen) /\ Len(Bookend(chosen)) = n
     /\ n > 1 => Bookend(chosen)[1] = ordered[1] /\ Bookend(chosen)[n] = ordered[2]

\* The next example for review is eligible, and is one of those that lost its
\* label to an edit as long as there is one; with nothing shown before, the
\* one the edit was made on comes first (select_next).
ReviewChoiceIsSound(q) ==
  LET next == SelectNext(q.cands \cup q.prior, q.prior, q.corrected, q.context, q.refs, q.measure)
  IN /\ next \in q.cands \cup q.prior \cup {NoKey}
     /\ next = NoKey <=> q.cands \cup q.prior = {}
     /\ q.prior # {} => next \in q.prior
     /\ q.refs = {} /\ q.context \in q.prior \cap q.measure.has => next = q.context
     /\ q.prior \cap q.measure.has # {} => next \in q.measure.has
=============================================================================
