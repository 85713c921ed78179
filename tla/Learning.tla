------------------------------ MODULE Learning -------------------------------
(***************************************************************************)
(* The computations of the linear examples between a Get and an Add: the      *)
(* mini-batch of BatchDataSampler and its keys, the two-pointer look-up of     *)
(* sparse features among them, and the gradients of examples2/sgd/lib.        *)
(* Features are whole numbers.                                               *)
(***************************************************************************)
EXTENDS Integers, SequencesExt

CONSTANTS
    DataSets,     \* sequences of records, their features sorted
    BatchSize,    \* batch_size
    Params,       \* values of a parameter
    Lambda,       \* the regularisation constant
    Logistic(_),  \* 1 / (1 + exp(-v)), as a part of One
    One

\* x: the non-zero features as <<key, value>>, y: the label
LearningAssumption ==
    /\ BatchSize \in Nat \ {0} /\ Lambda \in Int
    /\ \A data \in DataSets : \A n \in 1 .. Len(data) : \A j \in 2 .. Len(data[n].x) :
          data[n].x[j - 1][1] < data[n].x[j][1]

VARIABLES
    data,     \* the records of a node
    start,    \* where the mini-batch begins
    params    \* key -> what the Get returned, 0 for the intercept

learningVars == <<data, start, params>>

Sum(S, value(_)) == FoldSet(LAMBDA e, acc : acc + value(e), 0, S)

-----------------------------------------------------------------------------
\* BatchDataSampler::prepare_next_batch: around the end of the data if need be.
Batch == [i \in 1 .. BatchSize |-> data[((start + i - 2) % Len(data)) + 1]]

FeaturesOf(x) == {x[j][1] : j \in 1 .. Len(x)}
KeysOfFirst == SetToSortSeq(FeaturesOf(Batch[1].x), <)  \* mutant of BatchKeys
BatchKeys == SetToSortSeq(UNION {FeaturesOf(Batch[i].x) : i \in 1 .. BatchSize}, <)

\* Objective::all_keys: the keys of all features, whoever has them.
AllKeys == SetToSortSeq(DOMAIN params \ {0}, <)

\* while (keys[i] < field.first) i += 1, for one field after the other.
Positions(keys, x) ==
    LET position[j \in 0 .. Len(x)] ==
            IF j = 0 THEN 1
            ELSE LET at == {i \in position[j - 1] .. Len(keys) : keys[i] >= x[j][1]}
                 IN  IF at = {} THEN Len(keys) + 1 ELSE Min(at)
    IN  [j \in 1 .. Len(x) |-> position[j]]

\* The keys of the batch and, behind them, the intercept.
Values(keys) == [i \in 1 .. Len(keys) + 1 |-> params[IF i <= Len(keys) THEN keys[i] ELSE 0]]

Predicted(keys, x) ==
    LET vals == Values(keys)
        at   == Positions(keys, x)
    IN  Last(vals) + Sum(1 .. Len(x), LAMBDA j : vals[at[j]] * x[j][2])

\* What one record adds to the delta at position i, if its error is error.
Share(keys, x, error, i) ==
    LET at == Positions(keys, x)
    IN  IF i > Len(keys) THEN error
        ELSE Sum({j \in 1 .. Len(x) : at[j] = i}, LAMBDA j : x[j][2] * error)

\* SigmoidObjective::get_gradient, times the batch size: the labels are 0 and 1.
SigmoidError(keys, r) == Logistic(Predicted(keys, r.x)) - (IF r.y < 0 THEN 0 ELSE r.y * One)
SigmoidGradient(keys) ==
    [i \in 1 .. Len(keys) + 1 |->
        Sum(1 .. BatchSize, LAMBDA n : Share(keys, Batch[n].x, SigmoidError(keys, Batch[n]), i))]

Sign(v) == IF v > 0 THEN 1 ELSE IF v < 0 THEN -1 ELSE 0

\* LassoObjective::get_gradient, times the batch size.
LassoError(keys, r) == Predicted(keys, r.x) - r.y
LassoGradient(keys) ==
    [i \in 1 .. Len(keys) + 1 |->
        Sum(1 .. BatchSize, LAMBDA n : Share(keys, Batch[n].x, LassoError(keys, Batch[n]), i))
        + (IF i > Len(keys) THEN 0 ELSE BatchSize * Lambda * Sign(Values(keys)[i]))]

\* SVMObjective::get_gradient, times the batch size: nothing outside the soft
\* margin, and an intercept that is not divided by the batch size.
SVMError(keys, r) == IF r.y * Predicted(keys, r.x) < 1 THEN -r.y ELSE 0
SVMGradient(keys) ==
    [i \in 1 .. Len(keys) + 1 |->
        IF i > Len(keys)
        THEN BatchSize * Sum(1 .. BatchSize, LAMBDA n : SVMError(keys, Batch[n]))
        ELSE Sum(1 .. BatchSize, LAMBDA n : Share(keys, Batch[n].x, SVMError(keys, Batch[n]), i))
             + BatchSize * Lambda * Values(keys)[i]]

\* get_loss of the batch under a model of all parameters, times the batch size.
Dot(model, x) == model[0] + Sum(1 .. Len(x), LAMBDA j : model[x[j][1]] * x[j][2])
Abs(v) == IF v < 0 THEN -v ELSE v
LassoLoss(model) ==
    LET diff(r) == Dot(model, r.x) - r.y
    IN  Sum(1 .. BatchSize, LAMBDA n : diff(Batch[n]) * diff(Batch[n]))
        + BatchSize * Lambda * Sum(DOMAIN model, LAMBDA k : Abs(model[k]))
SVMLoss(model) ==
    Sum(1 .. BatchSize, LAMBDA n : Max({0, 1 - Batch[n].y * Dot(model, Batch[n].x)}))
    + BatchSize * Lambda * Sum(DOMAIN model, LAMBDA k : model[k] * model[k])

-----------------------------------------------------------------------------
LearningInit ==
    /\ data \in DataSets
    /\ start \in 1 .. Len(data)
    /\ params \in [UNION {FeaturesOf(data[n].x) : n \in 1 .. Len(data)} \cup {0} -> Params]

LearningSpec == LearningInit /\ [][UNCHANGED learningVars]_learningVars

-----------------------------------------------------------------------------
\* A record's features as a function from keys to values, 0 beyond them.
Point(r) == [k \in FeaturesOf(r.x) |-> r.x[CHOOSE j \in 1 .. Len(r.x) : r.x[j][1] = k][2]]
At(f, k) == IF k \in DOMAIN f THEN f[k] ELSE 0

\* The look-ups by position find the parameter of every feature of every record
\* of the batch, although a record has but some of the keys that are pulled, which
\* are those of the batch or all, and the batch may wrap around: the gradient of
\* each key is the derivative, by that key, of the logistic, the squared or the
\* hinge loss over the batch, with its regularisation.
GradientsRight ==
    LET derivative(error(_), k) ==
            Sum(1 .. BatchSize, LAMBDA n : At(Point(Batch[n]), k) * error(Batch[n]))
        sigmoid(r) == Logistic(Dot(params, r.x)) - Max({0, r.y}) * One
        lasso(r) == Dot(params, r.x) - r.y
        svm(r) == IF r.y * Dot(params, r.x) < 1 THEN -r.y ELSE 0
    IN  \A keys \in {BatchKeys, AllKeys} : \A i \in 1 .. Len(keys) :
            /\ SigmoidGradient(keys)[i] = derivative(sigmoid, keys[i])
            /\ LassoGradient(keys)[i] =
                   derivative(lasso, keys[i]) + BatchSize * Lambda * Sign(params[keys[i]])
            /\ SVMGradient(keys)[i] =
                   derivative(svm, keys[i]) + BatchSize * Lambda * params[keys[i]]

\* The gradients lead down the losses that are reported: a parameter that moves
\* by one changes the squared loss by twice, and the hinge loss by at least, what
\* the gradient says.  (The losses count the regularisation of a parameter twice
\* as much as the gradients against the rest, and that of the intercept too.)
GradientsDescend ==
    LET keys == BatchKeys
        moved(k, by) == [params EXCEPT ![k] = @ + by]
        weight(k) == BatchSize * Lambda * params[k]
    IN  \A i \in 1 .. Len(keys) :
            LET k == keys[i]
            IN  /\ LassoLoss(moved(k, 1)) - LassoLoss(moved(k, -1)) =
                       4 * LassoGradient(keys)[i] - 2 * BatchSize * Lambda * Sign(params[k])
                /\ SVMLoss(moved(k, 1)) - SVMLoss(params) >=
                       SVMGradient(keys)[i] + weight(k) + BatchSize * Lambda
                /\ SVMLoss(moved(k, -1)) - SVMLoss(params) >=
                       -SVMGradient(keys)[i] - weight(k) + BatchSize * Lambda
=============================================================================
