----------------------------- MODULE GBDTTraining ----------------------------
(***************************************************************************)
(* Distributed training of gradient boosted trees (examples2/gbdt): workers *)
(* that hold parts of the data build the same trees, by adding what they     *)
(* know of a tree node to a table and reading the sums back.  The table is   *)
(* an SSP table of staleness 0, as in GBDTTree's programs; every node of     *)
(* every tree uses the same keys again, so each worker takes its amounts out *)
(* of the table before it goes on.                                          *)
(*                                                                         *)
(* Revised is the program of examples2; without it the module is the program *)
(* of examples/gbdt, where a Get has no Clock of its own.                   *)
(***************************************************************************)
EXTENDS TableProgram, GBDT

CONSTANTS
    Nodes,          \* nodes of the cluster
    WorkerNum,      \* worker threads on each of them
    NodeData,       \* the data sets that each node may have loaded
    NumTrees,       \* num_of_trees
    Revised         \* TRUE: examples2/gbdt, FALSE: examples/gbdt

ASSUME TrainingAssumption ==
    /\ Workers = Nodes \X (0 .. WorkerNum - 1)
    /\ NodeData \subseteq [Nodes -> Seq([class : Int, feats : [Feats -> Int]])]
    /\ NumTrees \in Nat
    /\ Revised \in BOOLEAN

VARIABLES
    data,       \* worker -> its class_vect and feat_vect_list, as records
    ranges,     \* global_min_max_feat_list
    me          \* worker -> the variables of its GBDTController and GBDTTree

trainingVars == <<tableVars, data, ranges, me>>

\* Run: kMaxKey, the space for sketches, gradients and one gradient sum.
kMaxKey == sketch_num * NumFeats + (RankNum - 1) * 4 * NumFeats + 2

\* max += 0.0001 became max += 1 in the first program.
revised_slack == Scale \div 10000
first_slack == Scale
Slack == IF Revised THEN revised_slack ELSE first_slack

\* "<=" prefers the last of several equal candidates, "<" the first.
PrefersLast == Revised

total_data_num == FoldLeft(+, 0, [i \in 1 .. Cardinality(Workers) |-> Len(data[SetToSeq(Workers)[i]])])

\* get_gradient_vect, for an estimator vector.
Gradients(records, estimator) ==
    [i \in DOMAIN records |-> calculate_gradient(records[i].class, estimator[i])]

\* The call of train() for the root, over all the worker's records.
Root(w) == [id |-> 1, rows |-> DOMAIN data[w], ranges |-> ranges]

FeatureRange(loaded, f) ==
    global_min_max({find_min_max([i \in DOMAIN loaded[n] |-> loaded[n][i].feats[f]]) : n \in Nodes})

TrainingInit ==
    /\ TableInit
    /\ \E loaded \in NodeData :
          /\ data = [w \in Workers |-> distribute_data(loaded[w[1]], w[2], WorkerNum)]
          /\ ranges = [f \in Feats |-> FeatureRange(loaded, f)]
    /\ me = [w \in Workers |->
          [step |-> "sketch",     \* where GBDTTree::train is
           called |-> FALSE,      \* has this step's Add or Get been called?
           ps_key_ptr |-> 0,
           keys |-> {},           \* keys of the last Add, and of the Get after it
           pull_val |-> <<>>,     \* what the last Get has returned
           pushed |-> <<>>,       \* everything added for this tree node
           candidates |-> <<>>,
           todo |-> <<Root(w)>>,  \* the calls of train() still to be made
           tree |-> <<>>,         \* nodes of the tree that are split or leaves
           forest |-> <<>>,       \* GBDTController::forest
           estimator |-> [i \in DOMAIN data[w] |-> 0],
           grad |-> Gradients(data[w], [i \in DOMAIN data[w] |-> 0])]]
-----------------------------------------------------------------------------
Job(w) == me[w].todo[1]
Column(w, f) == [i \in Job(w).rows |-> data[w][i].feats[f]]
Grad(w) == [i \in Job(w).rows |-> me[w].grad[i]]

PushSteps == {"sketch", "grad", "leaf", "reset"}

\* table->Add: amounts for the next keys from ps_key_ptr on.
PushNext(w, amounts) ==
    LET n == Len(amounts)
        keys == me[w].ps_key_ptr .. me[w].ps_key_ptr + n - 1
        f == [k \in keys |-> amounts[k - me[w].ps_key_ptr + 1]]
    IN  /\ Push(w, f)
        /\ me' = [me EXCEPT ![w] = [@ EXCEPT !.called = TRUE, !.keys = keys, !.pushed = f @@ @,
                                              !.ps_key_ptr = @ + n]]

\* Steps 1, 3, 5: push the local sketches, gradients, gradient sum.
PushSketch(w) ==
    /\ me[w].step = "sketch"
    /\ PushNext(w, FlattenSeq([f \in Feats |-> quantile_sketch(Column(w, f), Job(w).ranges[f], Slack)]))

PushGradHess(w) ==
    /\ me[w].step = "grad"
    /\ PushNext(w, FlattenSeq([f \in Feats |->
                      local_grad_hess(Column(w, f), me[w].candidates[f], Grad(w))]))

PushGradSum(w) ==
    /\ me[w].step = "leaf"
    /\ PushNext(w, local_grad_sum(Grad(w)))

\* Step 6: take everything out of the table again; the keys start anew.
PushInverse(w) ==
    /\ me[w].step = "reset"
    /\ Push(w, [k \in DOMAIN me[w].pushed |-> -me[w].pushed[k]])
    /\ me' = [me EXCEPT ![w] = [@ EXCEPT !.called = TRUE, !.ps_key_ptr = 0]]

\* Steps 2, 4, 5: pull what all workers have pushed for the same keys.
PullGlobal(w) ==
    /\ me[w].step \in {"sketch_get", "grad_get", "leaf_get"}
    /\ Pull(w, me[w].keys)
    /\ me' = [me EXCEPT ![w].called = TRUE]

\* Step 6: "Dummy pull for complete clock period"
DummyPull(w) ==
    /\ me[w].step = "dummy"
    /\ Pull(w, {0})
    /\ me' = [me EXCEPT ![w].called = TRUE]

Call(w) ==
    /\ ~me[w].called
    /\ \/ PushSketch(w) \/ PushGradHess(w) \/ PushGradSum(w) \/ PushInverse(w)
       \/ PullGlobal(w) \/ DummyPull(w)
    /\ UNCHANGED <<data, ranges>>

Returns(w) ==
    /\ Receive(w)
    /\ me' = [me EXCEPT ![w].pull_val = [k \in want[w] |-> Pulled(w)'[k]]]
    /\ UNCHANGED <<data, ranges>>
-----------------------------------------------------------------------------
\* The part of the pulled vector that belongs to feature f.
PulledOf(w, f) ==
    LET n == Cardinality(me[w].keys) \div NumFeats
        first == Min(me[w].keys) + (f - 1) * n
    IN  [i \in 1 .. n |-> me[w].pull_val[first + i - 1]]

PulledSum(w) == <<me[w].pull_val[Min(me[w].keys)], me[w].pull_val[Max(me[w].keys)]>>

\* After a step comes the next one of train().  A node that need not stop has
\* no gradient sum, and the first program resets without any pull in between.
StepsWithoutDummyPull(w) ==  \* mutant of revised_steps
    <<"sketch", "sketch_get", "grad", "grad_get">>
      \o (IF check_to_stop(Job(w).id) THEN <<"leaf", "leaf_get">> ELSE <<>>) \o <<"reset">>
revised_steps(w) ==
    <<"sketch", "sketch_get", "grad", "grad_get">>
      \o (IF check_to_stop(Job(w).id) THEN <<"leaf", "leaf_get">> ELSE <<>>) \o <<"dummy", "reset">>
first_steps(w) == <<"sketch", "sketch_get", "grad", "grad_get", "reset">>
StepsOf(w) == IF Revised THEN revised_steps(w) ELSE first_steps(w)

NextStep(w) ==
    LET steps == StepsOf(w)
    IN  steps[(CHOOSE i \in DOMAIN steps : steps[i] = me[w].step) + 1]

\* The rows of a child, left or right.
split_dataset_by_feat_val(w, rows, node, left) ==
    {i \in rows : GoesLeft(data[w][i].feats, node) = left}

\* Step 8: the calls for the two children.  The first program goes on with the
\* ranges of the parent.
Child(w, node, left) ==
    [id |-> 2 * Job(w).id + (IF left THEN 0 ELSE 1),
     rows |-> split_dataset_by_feat_val(w, Job(w).rows, node, left),
     ranges |-> IF Revised THEN child_ranges(Job(w).ranges, node, left) ELSE Job(w).ranges]
Children(w, node) == <<Child(w, node, TRUE), Child(w, node, FALSE)>>

\* What the worker makes of an answer: candidates, a split, a leaf.
Learned(w) ==
    LET m == me[w]
        id == Job(w).id
        AddNode(node) == [m EXCEPT !.tree = (id :> node) @@ m.tree]
        Split == best_feature([f \in Feats |-> PulledOf(w, f)], m.candidates)
        Leaf(sum) == [is_leaf |-> TRUE, grad_sum |-> sum[1], num |-> sum[2]]
    IN  CASE m.step = "sketch_get" ->
               [m EXCEPT !.candidates = [f \in Feats |->
                   candidate_splits(PulledOf(w, f), Job(w).ranges[f], Slack, total_data_num, PrefersLast)]]
          [] m.step = "grad_get" /\ ~check_to_stop(id) -> AddNode(Split @@ [is_leaf |-> FALSE])
          [] m.step = "leaf_get" ->
               AddNode(Leaf(PulledSum(w)))
          [] m.step = "reset" /\ ~Revised /\ check_to_stop(id) ->
               AddNode(Leaf(local_grad_sum(Grad(w))))
          [] OTHER -> m

\* build_forest makes num_of_trees trees, whatever the gradients are.
MoreTreesUntilFitted(m) ==  \* mutant of MoreTrees
    Len(m.forest) < NumTrees /\ \E i \in DOMAIN m.grad : m.grad[i] # 0
MoreTrees(m) == Len(m.forest) < NumTrees

update_estimator_vect(w, tree, estimator) ==
    [i \in DOMAIN data[w] |-> estimator[i] + predict(tree, data[w][i].feats)]

\* Steps 7 and 8, and build_forest around them: on to the first child, to the
\* next call on the stack, or, when a tree is complete, to the next tree.
Proceed(w, m) ==
    LET id == Job(w).id
        todo == (IF check_to_stop(id) THEN <<>> ELSE Children(w, m.tree[id])) \o Tail(m.todo)
        clean == [m EXCEPT !.called = FALSE, !.pushed = <<>>, !.candidates = <<>>, !.keys = {},
                           !.step = "sketch"]
        estimator == update_estimator_vect(w, m.tree, m.estimator)
        grown == [clean EXCEPT !.forest = Append(@, m.tree), !.tree = <<>>, !.todo = <<>>,
                               !.estimator = estimator, !.grad = Gradients(data[w], estimator)]
    IN  IF todo # <<>> THEN [clean EXCEPT !.todo = todo]
        ELSE IF MoreTrees(grown) THEN [grown EXCEPT !.todo = <<Root(w)>>]
        ELSE [grown EXCEPT !.step = "done"]

\* The end of a step: the worker clocks, or only computes where the first
\* program reads the answer of a Get.
EndStep(w) ==
    /\ me[w].called
    /\ ~waiting[w]
    /\ IF Revised \/ me[w].step \in PushSteps THEN Tick(w) ELSE UNCHANGED tableVars
    /\ me' = [me EXCEPT ![w] =
                 IF @.step = "reset" THEN Proceed(w, Learned(w))
                 ELSE [Learned(w) EXCEPT !.step = NextStep(w), !.called = FALSE]]
    /\ UNCHANGED <<data, ranges>>

Done == (\A w \in Workers : me[w].step = "done") /\ UNCHANGED trainingVars

TrainingNext == (\E w \in Workers : Call(w) \/ Returns(w) \/ EndStep(w)) \/ Done

TrainingSpec == TrainingInit /\ [][TrainingNext]_trainingVars
-----------------------------------------------------------------------------
\* The records of all workers that belong to the tree node that w works on,
\* by the splits that w has made above it.
RecordOf(r) == data[r[1]][r[2]]
Records == UNION {{<<u, i>> : i \in DOMAIN data[u]} : u \in Workers}
InNode(w, r) ==
    LET id == Job(w).id
    IN  \A d \in 1 .. Depth(id) :
            GoesLeft(RecordOf(r).feats, me[w].tree[id \div 2^d]) <=> (id \div 2^(d - 1)) % 2 = 0

Residual(forest, r) == RecordOf(r).class - forest_predict(forest, RecordOf(r).feats)

\* An answer for gradients, sketches or a leaf is the sum over the records of
\* all workers in this node of this tree: nothing of another node, of another
\* tree or of a worker that is ahead is left in the keys, and nothing of a
\* slow worker is missing (the all-reduce in steps 1 to 6 of GBDTTree::train).
Pulling(w) ==
    /\ me[w].called /\ ~waiting[w]
    /\ me[w].step \in {"sketch_get", "grad_get", "leaf_get"}

AllReduceExact ==
    \A w \in Workers : Pulling(w) =>
        LET all == {r \in Records : InNode(w, r)}
            column(f) == [r \in all |-> RecordOf(r).feats[f]]
            grad == [r \in all |-> Residual(me[w].forest, r)]
        IN  CASE me[w].step = "sketch_get" ->
                   \A f \in Feats : PulledOf(w, f) = quantile_sketch(column(f), Job(w).ranges[f], Slack)
              [] me[w].step = "grad_get" ->
                   \A f \in Feats : PulledOf(w, f) = local_grad_hess(column(f), me[w].candidates[f], grad)
              [] OTHER -> PulledSum(w) = local_grad_sum(grad)

\* get_SSE_and_NUM, but over the records of all workers
SSE(forest) == SumOver(Records, LAMBDA r : Residual(forest, r) * Residual(forest, r))

\* Boosting never makes the training error larger: the squared error over the
\* records of all workers after a tree is at most what it was before it
\* (build_forest, update_estimator_vect).
ErrorNeverGrows ==
    [][\A w \in Workers : me'[w].forest # me[w].forest =>
           SSE(me'[w].forest) <= SSE(me[w].forest)]_trainingVars

\* Training ends: workers that are ahead or have taken another way through
\* their trees never leave the others in a Get that nobody will answer.
NobodyIsStuck ==
    (\A w \in Workers : me[w].step = "done" \/ (waiting[w] /\ ~InWindow(w))) =>
        \A w \in Workers : me[w].step = "done"
=============================================================================
