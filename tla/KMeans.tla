------------------------------- MODULE KMeans --------------------------------
(***************************************************************************)
(* The second task of examples2/kmeans/kmeans_example.cpp: workers that       *)
(* train on mini-batches with two SSP tables, one of the cluster centres and  *)
(* one of the members that each cluster has been given so far, from which the  *)
(* learning rate follows.  Both tables are reduced to their promise.          *)
(*                                                                         *)
(* Which centre is nearest to a point, and how far it moves, is left open;    *)
(* the centres are one key of the first table.                              *)
(***************************************************************************)
EXTENDS Integers, Sequences, FiniteSets

CONSTANTS
    Workers,
    Clusters,
    NumIters,     \* num_iters
    BatchSizes,   \* points of a mini-batch; Rapid Reassignment makes them differ
    Staleness     \* of both tables

VARIABLES
    at,                 \* worker -> the next call of its lambda
    members,            \* worker -> cluster_members: the count of its points
    \* the tables: table (centres) and table2 (members)
    clock, issued, want, waiting, vals, given,
    clock2, issued2, want2, waiting2, vals2, given2

table  == INSTANCE TableProgram WITH Keys <- {"centres"}, MaxClock <- NumIters
table2 == INSTANCE TableProgram WITH
              Keys <- Clusters, MaxClock <- NumIters,
              clock <- clock2, issued <- issued2, want <- want2,
              waiting <- waiting2, vals <- vals2, given <- given2

tableVars == <<clock, issued, want, waiting, vals, given>>
table2Vars == <<clock2, issued2, want2, waiting2, vals2, given2>>
kmeansVars == <<at, members, tableVars, table2Vars>>

KMeansInit ==
    /\ at = [w \in Workers |-> "Get"]
    /\ members = [w \in Workers |-> [k \in Clusters |-> 0]]
    /\ table!TableInit
    /\ table2!TableInit

-----------------------------------------------------------------------------
\* The calls of an iteration, in the order of the lambda.
ClockedFirst == <<"Get", "Get2", "train", "Clock", "Add", "Add2", "Clock2">>  \* mutant of Calls
Calls == <<"Get", "Get2", "train", "Add", "Clock", "Add2", "Clock2">>

Step(w, call) ==
    /\ at[w] = call
    /\ \E i \in 1 .. Len(Calls) :
          Calls[i] = call /\ at' = [at EXCEPT ![w] = Calls[(i % Len(Calls)) + 1]]

Get(w) ==
    /\ Step(w, "Get") /\ clock[w] < NumIters
    /\ table!Pull(w, {"centres"})
    /\ UNCHANGED <<members, table2Vars>>

\* table->Get has returned; table2->Get
Get2(w) ==
    /\ Step(w, "Get2") /\ ~waiting[w]
    /\ table2!Pull(w, Clusters)
    /\ UNCHANGED <<members, tableVars>>

\* The mini-batch: ++cluster_members of the nearest centre, point by point.
Train(w) ==
    /\ Step(w, "train") /\ ~waiting2[w]
    /\ \E n \in BatchSizes : \E nearest \in [1 .. n -> Clusters] :
          members' = [members EXCEPT ![w] = [k \in Clusters |->
              table2!Pulled(w)[k] + Cardinality({i \in 1 .. n : nearest[i] = k})]]
    /\ UNCHANGED <<tableVars, table2Vars>>

Add(w) ==
    /\ Step(w, "Add")
    /\ table!Push(w, [k \in {"centres"} |-> 1])
    /\ UNCHANGED <<members, table2Vars>>

Clock(w) ==
    /\ Step(w, "Clock")
    /\ table!Tick(w)
    /\ UNCHANGED <<members, table2Vars>>

\* Only the difference to what was pulled is added (cluster_member_cnts).
Difference(w) == [k \in Clusters |-> members[w][k] - table2!Pulled(w)[k]]

Add2(w) ==
    /\ Step(w, "Add2")
    /\ table2!Push(w, Difference(w))
    /\ UNCHANGED <<members, tableVars>>

Clock2(w) ==
    /\ Step(w, "Clock2")
    /\ table2!Tick(w)
    /\ UNCHANGED <<members, tableVars>>

\* The tables answer the Gets that wait.
TableStep ==
    /\ \E w \in Workers :
          \/ table!Receive(w) /\ UNCHANGED table2Vars
          \/ table2!Receive(w) /\ UNCHANGED tableVars
    /\ UNCHANGED <<at, members>>

Done == (\A w \in Workers : clock[w] = NumIters /\ at[w] = "Get") /\ UNCHANGED kmeansVars

KMeansNext ==
    \/ \E w \in Workers :
          Get(w) \/ Get2(w) \/ Train(w) \/ Add(w) \/ Clock(w) \/ Add2(w) \/ Clock2(w)
    \/ TableStep
    \/ Done

KMeansSpec == KMeansInit /\ [][KMeansNext]_kmeansVars

-----------------------------------------------------------------------------
\* The updates that a worker has got back from each table.
Centred(w) == {<<a.worker, a.iter>> : a \in vals[w]}
Counted(w) == {<<a.worker, a.iter>> : a \in vals2[w]}

\* A worker trains on centres and member counts that may be torn: one table may
\* give it another worker's update and the other not.  But only inside the
\* staleness window, although the two tables are clocked one after the other.
TablesInStep ==
    \A w \in Workers : at[w] = "train" /\ ~waiting2[w] =>
        \A v \in Workers, c \in 0 .. NumIters - 1 :
            c + Staleness < clock[w] \/ (v = w /\ c < clock[w]) =>
                <<v, c>> \in Centred(w) \cap Counted(w)
=============================================================================
