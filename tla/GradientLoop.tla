---------------------------- MODULE GradientLoop -----------------------------
(***************************************************************************)
(* The training loop of examples2/logistic_regression.cpp on an SSP table:  *)
(* the keys of all mini-batches are prepared first; an iteration Gets the    *)
(* keys of its batch, adds the gradients into deltas, Adds and Clocks.       *)
(*                                                                         *)
(* deltas is one SArray for all iterations.  Add does not copy it: slices    *)
(* and messages point into its memory block until the server applies them    *)
(* (a Sender that copies onto a socket reads it earlier, never later).  Nor  *)
(* is it zeroed between iterations.  So the content of a block is the set of  *)
(* iterations whose gradients it sums up, and may differ when it is read.    *)
(***************************************************************************)
EXTENDS SSPTable

CONSTANT Batches   \* what prepare_next_batch may return, for all workers

Iters == 0 .. MaxClock - 1

\* A batch has at least one key, for its Get and for its Add, and finitely many.
BatchesAssumption ==
    /\ Batches \subseteq [Workers -> [Iters -> GetKeys \cap AddKeys]]
    /\ \A K \in AddKeys : IsFiniteSet(K)
    /\ Keys \in GetKeys

VARIABLES
    at,            \* worker -> the next call of its lambda
    future_keys,   \* worker -> iteration -> keys of the batch
    deltas,        \* worker -> [block, capacity] of the SArray
    memory,        \* worker -> block -> iterations summed up in it
    pushed,        \* worker -> iteration -> [block, holds] when Add was called
    altered        \* history: Adds applied with other than the pushed content

loopVars == <<at, future_keys, deltas, memory, pushed, altered>>
gradientVars == <<vars, loopVars>>

GradientInit ==
    /\ Init
    /\ at = [w \in Workers |-> "get"]
    /\ future_keys \in Batches
    /\ deltas = [w \in Workers |-> [block |-> 0, capacity |-> 0]]
    /\ memory = [w \in Workers |-> [b \in 0 .. MaxClock |-> {}]]
    /\ pushed = [w \in Workers |-> <<>>]
    /\ altered = {}

-----------------------------------------------------------------------------
Get(w) ==
    /\ at[w] = "get" /\ clock[w] \in Iters
    /\ ClientGet(w, future_keys[w][clock[w]])
    /\ at' = [at EXCEPT ![w] = "train"]
    /\ UNCHANGED <<serverVars, future_keys, deltas, memory, pushed, altered>>

\* SArray::resize: a larger array moves to a new block and takes its content
\* along, a smaller one stays where it is.
Resized(w) ==
    LET size == Cardinality(future_keys[w][clock[w]])
    IN  IF size <= deltas[w].capacity THEN deltas[w]
        ELSE [block |-> deltas[w].block + 1, capacity |-> size]

TrainAtOnce(w) ==  \* mutant of Train: does not wait for its Get
    /\ at[w] = "train"
    /\ deltas' = [deltas EXCEPT ![w] = Resized(w)]
    /\ memory' = [memory EXCEPT ![w][Resized(w).block] =
                     memory[w][deltas[w].block] \cup {clock[w]}]
    /\ at' = [at EXCEPT ![w] = "add"]
    /\ UNCHANGED <<vars, future_keys, pushed, altered>>
\* When its Get has returned: resize deltas, add the gradients of the batch.
Train(w) ==
    /\ at[w] = "train" /\ ~Waiting(w)
    /\ deltas' = [deltas EXCEPT ![w] = Resized(w)]
    /\ memory' = [memory EXCEPT ![w][Resized(w).block] =
                     memory[w][deltas[w].block] \cup {clock[w]}]
    /\ at' = [at EXCEPT ![w] = "add"]
    /\ UNCHANGED <<vars, future_keys, pushed, altered>>

Add(w) ==
    /\ at[w] = "add"
    /\ ClientAdd(w, future_keys[w][clock[w]])
    /\ pushed' = [pushed EXCEPT ![w] = Append(@,
                     [block |-> deltas[w].block, holds |-> memory[w][deltas[w].block]])]
    /\ at' = [at EXCEPT ![w] = "clock"]
    /\ UNCHANGED <<serverVars, future_keys, deltas, memory, altered>>

Clock(w) ==
    /\ at[w] = "clock"
    /\ ClientClock(w)
    /\ at' = [at EXCEPT ![w] = "get"]
    /\ UNCHANGED <<serverVars, future_keys, deltas, memory, pushed, altered>>

\* test_error: after the last iteration the worker Gets all keys.
FinalGet(w) ==
    /\ at[w] = "get" /\ clock[w] = MaxClock
    /\ ClientGet(w, Keys)
    /\ at' = [at EXCEPT ![w] = "done"]
    /\ UNCHANGED <<serverVars, future_keys, deltas, memory, pushed, altered>>

\* The server adds what the block holds now.
ApplyAdd(s, w) ==
    /\ ServerAdd(s, w)
    /\ LET iter == Head(toServer[w][s]).iter
           sent == pushed[w][iter + 1]
       IN  altered' = IF memory[w][sent.block] = sent.holds THEN altered
                      ELSE altered \cup {[server |-> s, worker |-> w, iter |-> iter]}
    /\ UNCHANGED <<at, future_keys, deltas, memory, pushed>>

Lambda(w) == Get(w) \/ Train(w) \/ Add(w) \/ Clock(w) \/ FinalGet(w)

GradientNext ==
    \/ \E w \in Workers : Lambda(w)
    \/ \E s \in Servers, w \in Workers :
          \/ ApplyAdd(s, w)
          \/ (ServerClock(s, w) \/ ServerGet(s, w) \/ Helper(s, w)) /\ UNCHANGED loopVars
    \/ (\A w \in Workers : at[w] = "done" /\ ~Waiting(w)) /\ UNCHANGED gradientVars

GradientSpec == GradientInit /\ [][GradientNext]_gradientVars

-----------------------------------------------------------------------------
\* deltas is written again while messages point into it.  The Get of the next
\* iteration makes that harmless for every server it asks, since it is
\* answered after the Add before it on the same channel; only a server that
\* the next batch has no key on can apply something else than what Add was
\* given (logistic_regression.cpp, KVTableBox::Add).
AlteredOnlyUnasked ==
    \A a \in altered :
        /\ a.iter + 1 \in Iters
        /\ a.server \notin Involved(future_keys[a.worker][a.iter + 1])
=============================================================================
