----------------------------- MODULE KMeansSeeds -----------------------------
(***************************************************************************)
(* How examples2/kmeans picks its first centres: at random, by kmeans++, or by *)
(* kmeans||, which samples records in rounds and runs kmeans++ on the sample;   *)
(* and how the worker that did it pushes them as one table of numbers.        *)
(* Features are whole numbers; rand() may return anything.                   *)
(***************************************************************************)
EXTENDS Integers, SequencesExt

CONSTANTS
    DataSets,     \* sequences of records: functions from keys to values that are not 0
    NumDims,      \* num_dims: keys are 0 .. NumDims - 1
    K,            \* clusters
    SampleTime    \* rounds of kmeans||: 5 in the code

\* Row K of params, as long as a point, counts the members of the K clusters.
SeedsAssumption ==
    /\ K \in Nat \ {0} /\ K <= NumDims /\ SampleTime \in Nat
    /\ \A data \in DataSets : \A n \in DOMAIN data : DOMAIN data[n] \subseteq 0 .. NumDims - 1

VARIABLES
    data,        \* the records of the node
    init_mode,   \* kmeans_init_mode
    pc,          \* what is done next
    X,           \* the records that are left
    C,           \* kmeans||: the sample
    psi,         \* kmeans||: a distance for each record that was left at the start of the round
    at,          \* kmeans||: the place in psi
    round,       \* kmeans||: the round
    params,      \* the centres that are set: functions from keys to values
    counts       \* row K

seedsVars == <<data, init_mode, pc, X, C, psi, at, round, params, counts>>

Sum(S, value(_)) == FoldSet(LAMBDA e, acc : acc + value(e), 0, S)
Value(f, k) == IF k \in DOMAIN f THEN f[k] ELSE 0
SumOfSquares(value(_), keys) == Sum(keys, LAMBDA k : value(k) * value(k))

-----------------------------------------------------------------------------
\* dist: the second point is written over the first, and not subtracted from it.
dist(f, g) ==
    SumOfSquares(LAMBDA k : IF k \in DOMAIN g THEN g[k] ELSE f[k], DOMAIN f \cup DOMAIN g)

\* get_nearest_center: the first of the nearest centres, and the square of the distance.
SquareDist(f, centre) ==
    SumOfSquares(LAMBDA k : Value(centre, k) - Value(f, k), DOMAIN f \cup DOMAIN centre)
get_nearest_center(f, centres) ==
    LET d(i) == SquareDist(f, centres[i])
        id   == CHOOSE i \in DOMAIN centres :
                   \A j \in DOMAIN centres : d(i) < d(j) \/ (d(i) = d(j) /\ i <= j)
    IN  [id |-> id, square_dist |-> d(id)]

\* test_error: the within-set sum of squared errors and the members of each cluster.
test_error(centres) ==
    LET nearest(n) == get_nearest_center(data[n], centres)
    IN  [sum   |-> Sum(DOMAIN data, LAMBDA n : nearest(n).square_dist),
         count |-> [i \in DOMAIN centres |-> Cardinality({n \in DOMAIN data : nearest(n).id = i})]]

\* A record becomes the next centre.
Centre(f) ==
    /\ params' = Append(params, f)
    /\ counts' = Append(counts, 1)

Next_(from) == IF Len(params) + 1 = K THEN "done" ELSE from

-----------------------------------------------------------------------------
\* What kmeans++ draws from: all records, or the sample of kmeans||.
Pool == IF init_mode = "kmeans_parallel" THEN C ELSE X
Draw(j) ==
    /\ Centre(Pool[j])
    /\ IF init_mode = "kmeans_parallel"
       THEN C' = RemoveAt(C, j) /\ UNCHANGED X
       ELSE X' = RemoveAt(X, j) /\ UNCHANGED C

\* random_init: an index that was drawn before is drawn again.  With fewer than
\* K records this goes on for ever.
random_init ==
    /\ pc = "random"
    /\ \E j \in DOMAIN X : Draw(j)
    /\ pc' = Next_("random")
    /\ UNCHANGED <<data, init_mode, psi, at, round>>

PlusPlusFirst ==
    /\ pc = "kmeans++" /\ params = <<>>
    /\ \E j \in DOMAIN Pool : Draw(j)
    /\ pc' = Next_("kmeans++")
    /\ UNCHANGED <<data, init_mode, psi, at, round>>

\* A record is drawn by its distance to the nearest centre; at a draw of 0, the
\* first one is.
PlusPlusNext ==
    /\ pc = "kmeans++" /\ params # <<>>
    /\ \E j \in DOMAIN Pool :
          /\ j = 1 \/ get_nearest_center(Pool[j], params).square_dist > 0
          /\ Draw(j)
    /\ pc' = Next_("kmeans++")
    /\ UNCHANGED <<data, init_mode, psi, at, round>>

\* With none left to draw the centre stays where all of params began, at 0.
PlusPlusNone ==
    /\ pc = "kmeans++" /\ params # <<>> /\ Pool = <<>>
    /\ Centre(<<>>)
    /\ pc' = Next_("kmeans++")
    /\ UNCHANGED <<data, init_mode, X, C, psi, at, round>>

-----------------------------------------------------------------------------
ParallelFirst ==
    /\ pc = "first"
    /\ \E j \in DOMAIN X : C' = <<X[j]>> /\ X' = RemoveAt(X, j)
    /\ pc' = "round"
    /\ UNCHANGED <<data, init_mode, psi, at, round, params, counts>>

\* The distances of a round; the weights that follow the last round are not used.
BeginRound ==
    /\ pc = "round"
    /\ IF round < SampleTime
       THEN /\ psi' = [j \in DOMAIN X |-> Min({dist(X[j], C[k]) : k \in DOMAIN C})]
            /\ at' = 1 /\ pc' = "drawing"
       ELSE pc' = "kmeans++" /\ UNCHANGED <<psi, at>>
    /\ round' = round + 1
    /\ UNCHANGED <<data, init_mode, X, C, params, counts>>

phi == Sum(DOMAIN psi, LAMBDA j : psi[j])

\* p_x = l * psi / phi with l = 2, against a number from 0 to 1; 0 / 0 is less.
MayBeDrawn  == at \in DOMAIN psi /\ phi > 0
MustBeDrawn == MayBeDrawn /\ 2 * psi[at] > phi

\* X loses what is drawn at once, while psi keeps its length: the places behind
\* shift, and the last ones are beyond the end of X.
Sampled ==
    /\ pc = "drawing" /\ MayBeDrawn
    /\ IF at \in DOMAIN X
       THEN C' = Append(C, X[at]) /\ X' = RemoveAt(X, at) /\ pc' = pc
       ELSE pc' = "undefined" /\ UNCHANGED <<X, C>>
    /\ at' = at + 1
    /\ UNCHANGED <<data, init_mode, psi, round, params, counts>>
NotSampled ==
    /\ pc = "drawing" /\ at \in DOMAIN psi /\ ~MustBeDrawn
    /\ at' = at + 1
    /\ UNCHANGED <<data, init_mode, pc, X, C, psi, round, params, counts>>
EndRound ==
    /\ pc = "drawing" /\ at \notin DOMAIN psi
    /\ pc' = "round"
    /\ UNCHANGED <<data, init_mode, X, C, psi, at, round, params, counts>>

-----------------------------------------------------------------------------
\* init_centers
SeedsInit ==
    /\ data \in DataSets
    /\ init_mode \in {"random", "kmeans++", "kmeans_parallel"}
    /\ pc = IF init_mode = "kmeans_parallel" THEN "first" ELSE init_mode
    /\ X = data
    /\ C = <<>> /\ psi = <<>> /\ at = 0 /\ round = 0
    /\ params = <<>> /\ counts = <<>>

SeedsNext ==
    \/ random_init \/ PlusPlusFirst \/ PlusPlusNext \/ PlusPlusNone
    \/ ParallelFirst \/ BeginRound \/ Sampled \/ NotSampled \/ EndRound
    \/ pc \in {"done", "undefined"} /\ UNCHANGED seedsVars
    \/ pc = "random" /\ X = <<>> /\ UNCHANGED seedsVars

SeedsSpec == SeedsInit /\ [][SeedsNext]_seedsVars

\* The worker of the first task pushes row after row; those of the second one
\* take the rows from what they pull.
push == [i \in 1 .. (K + 1) * NumDims |->
            LET row == (i - 1) \div NumDims
                j   == (i - 1) % NumDims
            IN  IF row = K THEN Value(counts, j + 1) ELSE Value(params[row + 1], j)]
Row(pull, i) == [j \in 0 .. NumDims - 1 |-> pull[(i - 1) * NumDims + j + 1]]

-----------------------------------------------------------------------------
\* Every centre starts as a record that no other centre starts as, and one that is
\* left at 0 has the records, or kmeans||'s sample of them, used up.  A read beyond
\* the end of X takes two records of one round.
SeedsAreRecords ==
    /\ pc = "done" =>
          LET drawn == {i \in 1 .. K : params[i] # <<>>}
          IN  /\ \E f \in [drawn -> DOMAIN data] :
                    /\ \A i, j \in drawn : i # j => f[i] # f[j]
                    /\ \A i \in drawn : params[i] = data[f[i]]
              /\ drawn # 1 .. K => Pool = <<>> /\ init_mode # "random"
              /\ init_mode = "kmeans++" /\ Len(data) >= K => drawn = 1 .. K
    /\ pc = "undefined" => init_mode = "kmeans_parallel" /\ Len(X) < Len(psi)

\* The rows arrive as they were pushed, the counts in the last one, and each
\* centre more makes the error smaller, or keeps it.
SeedsArrive ==
    pc = "done" =>
        /\ \A i \in 1 .. K : \A j \in 0 .. NumDims - 1 : Row(push, i)[j] = Value(params[i], j)
        /\ Sum(0 .. NumDims - 1, LAMBDA j : Row(push, K + 1)[j]) = K
        /\ \A i \in 2 .. K :
              test_error(SubSeq(params, 1, i)).sum <= test_error(SubSeq(params, 1, i - 1)).sum
        /\ Sum(1 .. K, LAMBDA i : test_error(params).count[i]) = Len(data)
=============================================================================
