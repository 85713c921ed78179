---------------------------- MODULE TableProgram -----------------------------
(***************************************************************************)
(* What a program that runs on a table adds to BoundedStaleness: the        *)
(* amounts it adds to the keys, and the sums it gets back.  The programs of  *)
(* the examples are state machines on top of this module, with the table    *)
(* reduced to its promise.                                                  *)
(***************************************************************************)
EXTENDS BoundedStaleness, FiniteSetsExt

VARIABLE given   \* history: worker -> iteration -> key -> amount added

tableVars == <<vars, given>>

TableInit ==
    /\ Init
    /\ given = [w \in Workers |-> [c \in 0 .. MaxClock |-> <<>>]]

\* KVClientTable::Add(keys, vals): the amounts f, of which Slice sends those
\* whose keys lie in the ranges of the table.
Push(w, f) ==
    LET K == DOMAIN f \cap Keys
    IN  /\ AddTo(w, K)
        /\ given' = [given EXCEPT ![w][clock[w]] = [k \in K |-> f[k]]]

Pull(w, K) == AskFor(w, K) /\ UNCHANGED given
Receive(w) == Answer(w) /\ UNCHANGED given
Tick(w) == Clock(w) /\ UNCHANGED given

\* What the Get of w has filled its vector with.
Amount(a) == given[a.worker][a.iter][a.key]
Pulled(w) == [k \in want[w] |-> MapThenSumSet(Amount, {a \in vals[w] : a.key = k})]
=============================================================================
