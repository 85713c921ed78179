-------------------------------- MODULE GBDT ---------------------------------
(***************************************************************************)
(* What a worker of examples2/gbdt computes between two calls to the table:  *)
(* sketches, candidates, sums of gradients, the best split, predictions.     *)
(*                                                                         *)
(* A float is an integer multiple of 1 / Scale, and arithmetic is exact.     *)
(* A tree is a function on the numbers of its nodes, the children of i being *)
(* 2i and 2i + 1.  A data set is a sequence of records [class, feats].       *)
(***************************************************************************)
EXTENDS Integers, Sequences, FiniteSetsExt, SequencesExt

CONSTANTS
    NumFeats,       \* features of a record
    RankNum,        \* 1 / rank_fraction
    SketchPerRank,  \* sketch bins per rank, 10 in the code
    Scale,          \* units per 1.0 of a feature
    MaxDepth,       \* max_depth of a tree
    Complexity      \* complexity_of_leaf

Feats == 1 .. NumFeats
sketch_num == SketchPerRank * RankNum

\* With these values every bound of a sketch bin is an integer, and no gain
\* divides by zero.  The search for the candidates of a third rank and more may go
\* past the end of the sketch, so there are two ranks.
ASSUME GBDTAssumption ==
    /\ NumFeats \in Nat \ {0} /\ SketchPerRank \in Nat \ {0}
    /\ RankNum = 2
    /\ Scale % (10000 * sketch_num * sketch_num) = 0
    /\ MaxDepth \in {0, 1}
    /\ Complexity \in Nat \ {0}

Infinity == 1000000000

SumOver(S, f(_)) == MapThenSumSet(f, S)
-----------------------------------------------------------------------------
(* math_tools.cpp, and the merge of the nodes' results in channel_util.hpp  *)

find_min_max(vect) ==
    FoldLeft(LAMBDA r, val : IF val < r.min THEN [r EXCEPT !.min = val]
                             ELSE IF val > r.max THEN [r EXCEPT !.max = val] ELSE r,
             [min |-> Infinity, max |-> -Infinity], vect)

global_min_max(ranges) ==
    [min |-> Min({r.min : r \in ranges}), max |-> Max({r.max : r \in ranges})]

\* calculate_gradient of the square error; the second order is 1.
negative_gradient(actual, predict) == predict - actual  \* mutant of calculate_gradient
calculate_gradient(actual, predict) == actual - predict

\* distribute_data_to_worker: the part of worker local_id of worker_num.
distribute_data(all, local_id, worker_num) ==
    LET n == Len(all) \div worker_num
    IN  SubSeq(all, local_id * n + 1,
               IF local_id = worker_num - 1 THEN Len(all) ELSE (local_id + 1) * n)
-----------------------------------------------------------------------------
(* gbdt_tree.cpp.  A range is [min, max], a column a function from records  *)
(* to values, a sketch a sequence of counts.                                *)

\* The value at b sketch fractions of a range that is widened by slack, "to
\* include the largest element".
ValueAt(range, slack, b) ==
    range.min + (b * (range.max + slack - range.min)) \div sketch_num

\* push_quantile_sketch: how many values lie in each bin.
quantile_sketch(column, range, slack) ==
    [b \in 1 .. sketch_num |->
        Cardinality({i \in DOMAIN column : /\ ValueAt(range, slack, b - 1) <= column[i]
                                           /\ column[i] < ValueAt(range, slack, b)})]

\* find_candidate_split: from the last candidate on, the bin whose accumulated
\* count comes nearest to the next rank, the last such bin or the first.
candidate_bins(sketch, total_data_num, last) ==
    LET SumTo(b) == FoldLeft(+, 0, SubSeq(sketch, 1, b))
        Off(b, c) == LET d == RankNum * SumTo(b) - c * total_data_num
                     IN  IF d < 0 THEN -d ELSE d
        Bins(prev) == prev .. prev + (2 * sketch_num) \div RankNum - 1
        Nearest(prev, c) == {b \in Bins(prev) : \A a \in Bins(prev) : Off(b, c) <= Off(a, c)}
        bin[c \in 0 .. RankNum - 1] ==
            LET near == Nearest(bin[c - 1], c)
            IN  IF c = 0 THEN 0 ELSE IF last THEN Max(near) ELSE Min(near)
    IN  [c \in 1 .. RankNum - 1 |-> bin[c]]

candidate_splits(sketch, range, slack, total_data_num, last) ==
    LET bins == candidate_bins(sketch, total_data_num, last)
    IN  [c \in DOMAIN bins |-> ValueAt(range, slack, bins[c])]

\* push_local_grad_hess: for every candidate the gradients and the number of
\* the records left of it, then of those that are not.
local_grad_hess(column, candidates, grad) ==
    LET Left(c) == {i \in DOMAIN column : column[i] < candidates[c]}
        Right(c) == DOMAIN column \ Left(c)
        Grad(S) == SumOver(S, LAMBDA i : grad[i])
        ids == DOMAIN candidates
    IN  [c \in ids |-> Grad(Left(c))] \o [c \in ids |-> Cardinality(Left(c))]
          \o [c \in ids |-> Grad(Right(c))] \o [c \in ids |-> Cardinality(Right(c))]

\* The gain of a split, as a fraction with a positive denominator.
split_gain(lg, lh, rg, rh) ==
    LET l == lh + Complexity  r == rh + Complexity  s == lh + rh + Complexity
        g == lg + rg
    IN  [num |-> lg * lg * r * s + rg * rg * l * s - g * g * l * r, den |-> l * r * s]

Exceeds(a, b) == a.num * b.den > b.num * a.den

\* The first of the gains that none exceeds.
FirstBest(gains) ==
    CHOOSE c \in DOMAIN gains :
        \A d \in DOMAIN gains : /\ ~Exceeds(gains[d], gains[c])
                                /\ d < c => Exceeds(gains[c], gains[d])

find_best_split(grad_hess) ==
    LET n == Len(grad_hess) \div 4
        gains == [c \in 1 .. n |-> split_gain(grad_hess[c], grad_hess[n + c],
                                              grad_hess[2 * n + c], grad_hess[3 * n + c])]
    IN  [best_candidate_id |-> FirstBest(gains), best_split_gain |-> gains[FirstBest(gains)]]

\* The split of a node: the best of the best splits of the features.
best_feature(grad_hess_list, candidates_list) ==
    LET best == [f \in Feats |-> find_best_split(grad_hess_list[f])]
        feat_id == FirstBest([f \in Feats |-> best[f].best_split_gain])
    IN  [feat_id |-> feat_id,
         split_val |-> candidates_list[feat_id][best[feat_id].best_candidate_id]]

\* What push_local_grad_sum adds up: the gradients, and how many there are.
local_grad_sum(grad) == <<SumOver(DOMAIN grad, LAMBDA i : grad[i]), Cardinality(DOMAIN grad)>>

Depth(id) == CHOOSE d \in 0 .. MaxDepth : 2^d <= id /\ id < 2^(d + 1)
check_to_stop(id) == Depth(id) >= MaxDepth

\* split_dataset_by_feat_val and predict send a record the same way.
GoesLeft(row, node) == row[node.feat_id] < node.split_val

\* The leaf that predict ends in, from the root.
LeafOf(tree, row) ==
    LET walk[id \in DOMAIN tree] ==
            IF tree[id].is_leaf THEN id
            ELSE walk[IF GoesLeft(row, tree[id]) THEN 2 * id ELSE 2 * id + 1]
    IN  walk[1]

predict(tree, row) ==
    LET leaf == tree[LeafOf(tree, row)] IN leaf.grad_sum \div leaf.num

\* GBDTController::predict, and the estimator vector in build_forest.
forest_predict(forest, row) ==
    FoldLeft(LAMBDA sum, tree : sum + predict(tree, row), 0, forest)

\* update_min_max_feat_list of the two children.
child_ranges(ranges, node, left) ==
    [ranges EXCEPT ![node.feat_id] =
        IF left THEN [@ EXCEPT !.max = node.split_val] ELSE [@ EXCEPT !.min = node.split_val]]
=============================================================================
