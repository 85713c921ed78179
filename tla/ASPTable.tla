------------------------------ MODULE ASPTable -------------------------------
(***************************************************************************)
(* A table under asynchronous consistency: the server threads running        *)
(* ASPModel, which counts clocks and never waits for one.                   *)
(***************************************************************************)
EXTENDS Table

serverVars == <<progress_tracker, storage>>
vars == <<kvVars, serverVars>>

Init == KVInit /\ ServerInit

\* ASPModel::Clock
ServerClock(s, w) ==
    /\ Received(s, w, "kClock")
    /\ Dequeue(s, w)
    /\ progress_tracker' = [progress_tracker EXCEPT ![s] = Advance(@, w)]
    /\ UNCHANGED <<clientVars, toWorker, storage>>

\* ASPModel::Add
ServerAdd(s, w) ==
    /\ Received(s, w, "kAdd")
    /\ Dequeue(s, w)
    /\ storage' = [storage EXCEPT ![s] = @ \cup Increments(w, Head(toServer[w][s]))]
    /\ UNCHANGED <<clientVars, toWorker, progress_tracker>>

\* ASPModel::Get
ServerGetOfSlowest(s, w) ==  \* mutant of ServerGet: waits for the others
    /\ Received(s, w, "kGet")
    /\ Progress(s, w) = MinClock(s)
    /\ Dequeue(s, w)
    /\ Reply(s, storage[s], {RequestOf(w, Head(toServer[w][s]))})
    /\ UNCHANGED <<clientVars, progress_tracker, storage>>
ServerGet(s, w) ==
    /\ Received(s, w, "kGet")
    /\ Dequeue(s, w)
    /\ Reply(s, storage[s], {RequestOf(w, Head(toServer[w][s]))})
    /\ UNCHANGED <<clientVars, progress_tracker, storage>>

-----------------------------------------------------------------------------
Client(w) ==
    \/ \E K \in GetKeys : ClientGet(w, K) /\ UNCHANGED serverVars
    \/ \E K \in AddKeys : ClientAdd(w, K) /\ UNCHANGED serverVars
    \/ ClientClock(w) /\ UNCHANGED serverVars

Server(s, w) == ServerClock(s, w) \/ ServerAdd(s, w) \/ ServerGet(s, w)

Helper(s, w) == HelperResponse(s, w) /\ UNCHANGED serverVars

TaskDone == (\A w \in Workers : Finished(w)) /\ Quiet /\ UNCHANGED vars

Next ==
    \/ \E w \in Workers : Client(w)
    \/ \E s \in Servers, w \in Workers : Server(s, w) \/ Helper(s, w)
    \/ TaskDone

Spec == Init /\ [][Next]_vars

\* Server and helper threads pop their queues for ever.  Nothing is assumed of
\* the workers: each may stop for good in any iteration.
FairSpec ==
    /\ Spec
    /\ \A s \in Servers, w \in Workers : WF_vars(Server(s, w)) /\ WF_vars(Helper(s, w))

-----------------------------------------------------------------------------
TypeOK == KVTypeOK /\ ServerTypeOK

\* A Get never depends on another worker: it returns although the others may
\* have stopped clocking, which is what ASPModel is for.
GetReturns == \A w \in Workers : Waiting(w) ~> ~Waiting(w)

Promise == INSTANCE BoundedStaleness WITH
               Staleness <- MaxClock,
               waiting <- [w \in Workers |-> Waiting(w)]

\* No staleness bound, but a worker always reads its own Adds, and only Adds
\* that were called.
KeepsPromise == Promise!Spec
=============================================================================
