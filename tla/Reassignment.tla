---------------------------- MODULE Reassignment -----------------------------
(***************************************************************************)
(* Rapid reassignment (examples2/rapid_reassignment): a worker that has      *)
(* finished its mini-batch asks the members of its group how far they are,   *)
(* takes half of what the slowest has left, and spins until it is told to go *)
(* on.  Two threads share the JobManager of a worker without a lock: the     *)
(* worker, and the GetLoop that answers the messages of the others.          *)
(*                                                                         *)
(* A thread is <<node, local id>>.  A store to the JobMeta is one step, and  *)
(* so is the copy of it that GetJobMeta returns.  Points are amounts of     *)
(* work: the programs do not look for the points they have taken over.      *)
(***************************************************************************)
EXTENDS Integers, SequencesExt, FiniteSetsExt

CONSTANTS
    NumNodes,       \* num_nodes_
    NumLocal,       \* num_local_threads_
    GroupModes,     \* the values of rapid_reassgn_group_mode
    BatchSize,      \* batch_size
    NumIters,       \* num_iters
    StartPts,       \* where rand() may let a mini-batch begin
    Threshold       \* steal_threshold_

ReassignmentAssumption ==
    /\ {NumNodes, NumLocal, BatchSize, NumIters} \subseteq Nat \ {0}
    /\ GroupModes \subseteq 0 .. 2
    /\ StartPts \subseteq Nat /\ Threshold \in Nat

Threads == (0 .. NumNodes - 1) \X (0 .. NumLocal - 1)

VARIABLES
    group_mode,     \* group_mode_, the same on all nodes
    meta,           \* thread -> JobMeta of its JobManager
    wait,           \* thread -> JobManager::wait
    doReassgn,      \* thread -> JobManager::doReassgn
    pc,             \* thread -> where its worker is
    box,            \* thread -> status_box_: job_metas and whose they are
    accepting,      \* thread -> the help that its GetLoop is about to accept
    stopped,        \* node -> has StopEverything been called?
    chan,           \* <<from, to>> -> messages on their way
    unprocessed,    \* history: points of all mini-batches minus points processed
    mishaps         \* history: what has gone wrong, and to whom

workerVars == <<meta, wait, doReassgn, pc, unprocessed>>
loopVars == <<box, accepting>>
reassignVars == <<group_mode, workerVars, loopVars, stopped, chan, mishaps>>

\* GetMember_rr: the same local thread of the other nodes; in modes 1 and 2
\* also the next thread of node 0 and the one before on the last node.
Members(w) ==
    LET others == SetToSortSeq((0 .. NumNodes - 1) \ {w[1]}, LAMBDA a, b : a < b)
        next == <<0, (w[2] + 1) % NumLocal>>
        before == <<NumNodes - 1, (w[2] + NumLocal - 1) % NumLocal>>
    IN  [i \in DOMAIN others |-> <<others[i], w[2]>>]
          \o (IF group_mode >= 1 THEN <<next>> ELSE <<>>)
          \o (IF group_mode = 2 THEN <<before>> ELSE <<>>)

BoxSize == NumNodes + group_mode - 1

EndPt(m) == m.start_pt + m.batch_size
Finished(m) == m.current_pt = EndPt(m)
Idle == [from |-> <<>>, job |-> <<>>]

ReassignInit ==
    /\ group_mode \in GroupModes
    /\ meta = [w \in Threads |-> [iter |-> 0, start_pt |-> 0, batch_size |-> 0, current_pt |-> 0]]
    /\ wait = [w \in Threads |-> FALSE]
    /\ doReassgn = [w \in Threads |-> FALSE]
    /\ pc = [w \in Threads |-> "begin"]
    /\ box = [w \in Threads |-> <<>>]
    /\ accepting = [w \in Threads |-> Idle]
    /\ stopped = [n \in 0 .. NumNodes - 1 |-> FALSE]
    /\ chan = [c \in Threads \X Threads |-> <<>>]
    /\ unprocessed = 0
    /\ mishaps = {}
-----------------------------------------------------------------------------
(* The worker thread.                                                      *)

SetDoReassgn(w) ==
    /\ pc[w] = "begin"
    /\ doReassgn' = [doReassgn EXCEPT ![w] = TRUE]
    /\ wait' = [wait EXCEPT ![w] = FALSE]
    /\ pc' = [pc EXCEPT ![w] = "start"]
    /\ UNCHANGED <<group_mode, meta, unprocessed, loopVars, stopped, chan, mishaps>>

\* A new mini-batch: UpdateStartPt, whose mutex is its own and so keeps nobody
\* from looking between its two stores, ...
StoreStartPt(w) ==
    /\ pc[w] = "start"
    /\ \E pt \in StartPts : meta' = [meta EXCEPT ![w].start_pt = pt]
    /\ pc' = [pc EXCEPT ![w] = "current"]
    /\ UNCHANGED <<group_mode, wait, doReassgn, unprocessed, loopVars, stopped, chan, mishaps>>
StoreCurrentPt(w) ==
    /\ pc[w] = "current"
    /\ meta' = [meta EXCEPT ![w].current_pt = meta[w].start_pt]
    /\ pc' = [pc EXCEPT ![w] = "batch"]
    /\ unprocessed' = unprocessed + BatchSize
    /\ UNCHANGED <<group_mode, wait, doReassgn, loopVars, stopped, chan, mishaps>>
UpdateStartPt(w) == StoreStartPt(w) \/ StoreCurrentPt(w)

\* ... and UpdateBatchSize.
UpdateBatchSize(w) ==
    /\ pc[w] = "batch"
    /\ meta' = [meta EXCEPT ![w].batch_size = BatchSize]
    /\ pc' = [pc EXCEPT ![w] = "loop"]
    /\ UNCHANGED <<group_mode, wait, doReassgn, unprocessed, loopVars, stopped, chan, mishaps>>

\* while (!IsFinished()): a point is processed and Check counts it.  A worker
\* that has overtaken its end would go on until the number wraps around; the
\* model follows it for one point.
Process(w) ==
    /\ pc[w] = "loop"
    /\ ~Finished(meta[w])
    /\ meta[w].current_pt <= EndPt(meta[w])
    /\ meta' = [meta EXCEPT ![w].current_pt = @ + 1]
    /\ unprocessed' = unprocessed - 1
    /\ pc' = [pc EXCEPT ![w] = "check"]
    /\ UNCHANGED <<group_mode, wait, doReassgn, loopVars, stopped, chan, mishaps>>

\* UpdateIteration, for the next mini-batch.
NextIteration(w) ==
    /\ pc[w] = "loop"
    /\ Finished(meta[w])
    /\ IF meta[w].iter + 1 < NumIters
       THEN /\ meta' = [meta EXCEPT ![w].iter = @ + 1]
            /\ pc' = [pc EXCEPT ![w] = "start"]
       ELSE /\ pc' = [pc EXCEPT ![w] = "done"]
            /\ UNCHANGED meta
    /\ UNCHANGED <<group_mode, wait, doReassgn, unprocessed, loopVars, stopped, chan, mishaps>>

\* All that one thread sends in a step, on top of the channels c.
Sent(c, from, messages) ==
    [x \in DOMAIN c |-> c[x] \o IF x[1] = from
                                THEN LET mine == SelectSeq(messages, LAMBDA m : m.to = x[2])
                                     IN  [i \in DOMAIN mine |-> mine[i].msg]
                                ELSE <<>>]
FindTasks(w) == [i \in DOMAIN Members(w) |-> [to |-> Members(w)[i], msg |-> [type |-> "FindTask"]]]

\* The rest of Check: who is finished asks its group, ...
Check(w) ==
    /\ pc[w] = "check"
    /\ IF Finished(meta[w]) /\ doReassgn[w]
       THEN chan' = Sent(chan, w, FindTasks(w)) /\ pc' = [pc EXCEPT ![w] = "asked"]
       ELSE pc' = [pc EXCEPT ![w] = "loop"] /\ UNCHANGED chan
    /\ UNCHANGED <<group_mode, meta, wait, doReassgn, unprocessed, loopVars, stopped, mishaps>>

\* ... and then sets wait, ...
SetWait(w) ==
    /\ pc[w] = "asked"
    /\ wait' = [wait EXCEPT ![w] = TRUE]
    /\ pc' = [pc EXCEPT ![w] = "spin"]
    /\ UNCHANGED <<group_mode, meta, doReassgn, unprocessed, loopVars, stopped, chan, mishaps>>

\* ... and spins on it.
Spin(w) ==
    /\ pc[w] = "spin"
    /\ ~wait[w]
    /\ pc' = [pc EXCEPT ![w] = "loop"]
    /\ UNCHANGED <<group_mode, meta, wait, doReassgn, unprocessed, loopVars, stopped, chan, mishaps>>

Worker(w) ==
    \/ SetDoReassgn(w) \/ UpdateStartPt(w) \/ UpdateBatchSize(w) \/ Process(w)
    \/ NextIteration(w) \/ Check(w) \/ SetWait(w) \/ Spin(w)
-----------------------------------------------------------------------------
(* The GetLoop of a thread.                                                *)

Incoming(u, w) == Head(chan[<<u, w>>])
Received(u, w) == [chan EXCEPT ![<<u, w>>] = Tail(@)]
Gets(u, w, type) ==
    /\ ~stopped[w[1]]
    /\ accepting[w] = Idle
    /\ chan[<<u, w>>] # <<>>
    /\ Incoming(u, w).type = type
Reply(u, w, msg) == Sent(Received(u, w), w, <<[to |-> u, msg |-> msg]>>)

\* SetWait(false) by the GetLoop; a worker that is only about to set wait has
\* missed it.
Release(w) ==
    /\ wait' = [wait EXCEPT ![w] = FALSE]
    /\ mishaps' = IF pc[w] = "asked" THEN mishaps \cup {<<"released early", w>>} ELSE mishaps

\* A worker that has not started yet does not answer.
OnFindTask(u, w) ==
    /\ Gets(u, w, "FindTask")
    /\ IF doReassgn[w]
       THEN chan' = Reply(u, w, [type |-> "SendStatus", meta |-> meta[w]]) /\ UNCHANGED mishaps
       ELSE chan' = Received(u, w) /\ mishaps' = mishaps \cup {<<"not answered", u>>}
    /\ UNCHANGED <<group_mode, workerVars, loopVars, stopped>>

\* What a worker has done and has left, in unsigned words (of 16 bits here): one
\* beyond its end has a lot left, and one between the two stores of
\* UpdateStartPt may have a lot done.
Word == 2 ^ 16
Done(m) == (m.current_pt - m.start_pt) % Word
Left(m) == (m.batch_size - Done(m)) % Word

\* CalSlowestWorker: the first with the most left.
CalSlowestWorker(metas) ==
    metas[CHOOSE i \in DOMAIN metas :
            \A j \in DOMAIN metas : /\ Left(metas[j].meta) <= Left(metas[i].meta)
                                    /\ j < i => Left(metas[j].meta) < Left(metas[i].meta)]

\* StealJob: half of it, from the end.
StealJob(m) ==
    LET batch == Left(m) \div 2
    IN  [helper_batch_size_new |-> batch, helper_start_pt_new |-> EndPt(m) - batch,
         helpee_batch_size_new |-> m.batch_size - batch]
CanSteal(m) == ~Finished(m) /\ Done(m) <= Threshold

\* The status box is full: offer help to the slowest, or go on.
GoesOn(w, slowest) == ~(meta[w].iter >= slowest.meta.iter /\ CanSteal(slowest.meta))

Offer(w, c, slowest) ==
    Sent(c, w, <<[to |-> slowest.from, msg |-> [type |-> "SendHelp", job |-> StealJob(slowest.meta)]]>>)
OfferHelp(w, c, slowest) ==
    chan' = Offer(w, c, slowest) /\ UNCHANGED <<wait, mishaps>>

\* Clear, which the next round relies on.
KeptBox(metas) == metas     \* mutant of ClearedBox
ClearedBox(metas) == <<>>

OnSendStatus(u, w) ==
    /\ Gets(u, w, "SendStatus")
    /\ LET metas == Append(box[w], [from |-> u, meta |-> Incoming(u, w).meta])
           slowest == CalSlowestWorker(metas)
       IN  IF Len(metas) # BoxSize
           THEN /\ box' = [box EXCEPT ![w] = metas]
                /\ chan' = Received(u, w)
                /\ UNCHANGED <<wait, mishaps>>
           ELSE /\ box' = [box EXCEPT ![w] = ClearedBox(metas)]
                /\ IF GoesOn(w, slowest) THEN Release(w) /\ chan' = Received(u, w)
                                         ELSE OfferHelp(w, Received(u, w), slowest)
    /\ UNCHANGED <<group_mode, meta, doReassgn, pc, unprocessed, accepting, stopped>>

\* SendHelp: the GetLoop looks at a copy of the JobMeta, ...
OnSendHelp(u, w) ==
    /\ Gets(u, w, "SendHelp")
    /\ LET job == Incoming(u, w).job
           m == meta[w]
       IN  IF ~doReassgn[w]
           THEN chan' = Received(u, w) /\ UNCHANGED accepting
           ELSE IF /\ m.current_pt < m.start_pt + job.helpee_batch_size_new
                   /\ EndPt(m) = job.helper_start_pt_new + job.helper_batch_size_new
           THEN /\ accepting' = [accepting EXCEPT ![w] = [from |-> u, job |-> job]]
                /\ chan' = Received(u, w)
           ELSE chan' = Reply(u, w, [type |-> "CancelHelp"]) /\ UNCHANGED accepting
    /\ UNCHANGED <<group_mode, workerVars, box, stopped, mishaps>>

\* Is the job the end of the mini-batch m?  SendHelp has compared the ends only,
\* and maybe of an earlier m.
Fits(m, job) ==
    /\ m.start_pt + job.helpee_batch_size_new = job.helper_start_pt_new
    /\ EndPt(m) = job.helper_start_pt_new + job.helper_batch_size_new

\* ... and then takes away what is given, wherever the worker has got to.
AcceptHelp(w) ==
    /\ accepting[w] # Idle
    /\ LET u == accepting[w].from  job == accepting[w].job
           now == [meta[w] EXCEPT !.batch_size = job.helpee_batch_size_new]
       IN  /\ meta' = [meta EXCEPT ![w] = now]
           /\ chan' = Sent(chan, w, <<[to |-> u, msg |-> [type |-> "ConfirmHelp", job |-> job]]>>)
           /\ mishaps' = IF Fits(meta[w], job) THEN mishaps
                         ELSE mishaps \cup {<<"does not fit", w>>}
    /\ accepting' = [accepting EXCEPT ![w] = Idle]
    /\ UNCHANGED <<group_mode, wait, doReassgn, pc, unprocessed, box, stopped>>

\* UpdateStartPt and UpdateBatchSize with what is taken over.  One step: only
\* this GetLoop copies the JobMeta, and the worker is waiting (HelperIsIdle).
TakenOverInPlace(m, job) ==  \* mutant of TakenOver
    [m EXCEPT !.batch_size = job.helper_batch_size_new]
TakenOver(m, job) ==
    [m EXCEPT !.start_pt = job.helper_start_pt_new, !.current_pt = job.helper_start_pt_new,
              !.batch_size = job.helper_batch_size_new]

OnConfirmHelp(u, w) ==
    /\ Gets(u, w, "ConfirmHelp")
    /\ chan' = Received(u, w)
    /\ meta' = [meta EXCEPT ![w] = TakenOver(@, Incoming(u, w).job)]
    /\ Release(w)
    /\ UNCHANGED <<group_mode, doReassgn, pc, unprocessed, loopVars, stopped>>

OnCancelHelpIgnored(u, w) ==  \* mutant of OnCancelHelp
    /\ Gets(u, w, "CancelHelp")
    /\ chan' = Received(u, w)
    /\ UNCHANGED <<group_mode, workerVars, loopVars, stopped, mishaps>>
\* The helpee has gone too far: ask all over again.
OnCancelHelp(u, w) ==
    /\ Gets(u, w, "CancelHelp")
    /\ chan' = Sent(Received(u, w), w, FindTasks(w))
    /\ UNCHANGED <<group_mode, workerVars, loopVars, stopped, mishaps>>

GetLoop(w) ==
    \/ \E u \in Threads : OnFindTask(u, w) \/ OnSendStatus(u, w) \/ OnSendHelp(u, w)
                          \/ OnConfirmHelp(u, w) \/ OnCancelHelp(u, w)
    \/ AcceptHelp(w)

\* Engine::Run returns on a node when its own workers are done, and
\* StopEverything follows without waiting for the other nodes.
StopEverything(n) ==
    /\ ~stopped[n]
    /\ \A i \in 0 .. NumLocal - 1 : pc[<<n, i>>] = "done" /\ accepting[<<n, i>>] = Idle
    /\ stopped' = [stopped EXCEPT ![n] = TRUE]
    /\ UNCHANGED <<group_mode, workerVars, loopVars, chan, mishaps>>

ReassignNext ==
    \/ \E w \in Threads : Worker(w) \/ GetLoop(w)
    \/ \E n \in 0 .. NumNodes - 1 : StopEverything(n)

ReassignSpec == ReassignInit /\ [][ReassignNext]_reassignVars
-----------------------------------------------------------------------------
\* The messages from, and to, a thread.
Flying(from, to, type) == Len(SelectSeq(chan[<<from, to>>], LAMBDA m : m.type = type))
Asking(w) == MapThenSumSet(LAMBDA u : Flying(w, u, "FindTask") + Flying(u, w, "SendStatus"), Threads)
Helping(w) == MapThenSumSet(LAMBDA u : Flying(w, u, "SendHelp") + Flying(u, w, "ConfirmHelp")
                                        + Flying(u, w, "CancelHelp")
                                        + (IF accepting[u].from = w THEN 1 ELSE 0), Threads)

\* One round at a time: the statuses in a worker's box and the questions and
\* answers still on their way never exceed the box, whose IsFull tests for
\* equality, and no help is being arranged meanwhile.
OneRound ==
    \A w \in Threads : /\ Len(box[w]) + Asking(w) <= BoxSize
                       /\ Helping(w) <= 1
                       /\ Helping(w) = 1 => Len(box[w]) + Asking(w) = 0

\* The points that a helper gets never replace the mini-batch under the hands
\* of a worker: whoever is being helped out waits, or is about to.
HelperIsIdle ==
    \A w \in Threads : Helping(w) + Len(box[w]) + Asking(w) > 0 => pc[w] \in {"asked", "spin"}

\* No work is lost: every point of a mini-batch is processed, or a worker has
\* it in front of it, or it is in a ConfirmHelp; unless a help was accepted that
\* does not fit the helpee's mini-batch, as one for an earlier mini-batch.
InFront(w) ==
    IF pc[w] = "batch" THEN BatchSize
    ELSE IF pc[w] \in {"begin", "start", "current", "done"} THEN 0
    ELSE Max({0, EndPt(meta[w]) - meta[w].current_pt})
InConfirm(w) ==
    MapThenSumSet(LAMBDA u : FoldSeq(LAMBDA m, n : n + m.job.helper_batch_size_new, 0,
                       SelectSeq(chan[<<u, w>>], LAMBDA m : m.type = "ConfirmHelp")), Threads)
NoWorkLost ==
    (\A w \in Threads : <<"does not fit", w>> \notin mishaps) =>
        unprocessed <= MapThenSumSet(LAMBDA w : InFront(w) + InConfirm(w), Threads)

\* Why a worker may be stuck: one that it asked had not started, or has left;
\* it was released before it waited; or it has overtaken its end.
Excused(w) ==
    \/ <<"not answered", w>> \in mishaps
    \/ <<"released early", w>> \in mishaps
    \/ \E u \in Range(Members(w)) : stopped[u[1]]
    \/ meta[w].current_pt > EndPt(meta[w])
    \/ Members(w) = <<>>
StuckForAReason ==
    (\A w \in Threads : ~ENABLED (Worker(w) \/ GetLoop(w))) =>
        \A w \in Threads : pc[w] # "done" => Excused(w)
=============================================================================
