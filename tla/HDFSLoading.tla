----------------------------- MODULE HDFSLoading -----------------------------
(***************************************************************************)
(* HDFSManager: the load threads of all processes ask the block assigner at  *)
(* the master for one block after another, read each, and tell the master     *)
(* when they were told that there are no more (io/).                        *)
(*                                                                         *)
(* One directory is loaded, as config.input, by InputFormats with id 0.  The *)
(* Coordinator of a process has one socket for all its threads, and a lock    *)
(* that ask_master holds until it has the answer.                           *)
(*                                                                         *)
(* A text is [len, newlines]: its length and the offsets of its '\n'.  What  *)
(* buffer_ and last_part_ hold is always a range [from, to) of the file, and *)
(* l and r, which the code counts from the start of the buffer, are offsets  *)
(* in the file.                                                            *)
(***************************************************************************)
EXTENDS Integers, Sequences, FiniteSets, Bags

CONSTANTS
    hdfs_block_size,
    ChunkSize,         \* what one hdfsRead gives at most: 128KB
    Processes,
    num_local_load_thread,
    Hosts,             \* hosts that hold replicas or run a process
    worker_host,       \* worker_host[p]: the host of process p
    Files,
    Directories,       \* the texts a directory may have: functions on Files
    Placements,        \* where replicas may be: from Files \X offsets to Hosts
    Nobody,            \* holds no lock
    NotFound,          \* no entry in files_locality_multi_dict_
    NoBlock            \* an empty file name

ASSUME HDFSLoadingAssumption ==
    /\ hdfs_block_size \in Nat \ {0}
    /\ ChunkSize \in 1 .. hdfs_block_size
    /\ IsFiniteSet(Processes) /\ Processes # {}
    /\ num_local_load_thread \in Nat \ {0}
    /\ worker_host \in [Processes -> Hosts]
    /\ \A d \in Directories : \A f \in Files : d[f].len \in Nat \ {0}

-----------------------------------------------------------------------------
(* How a load thread cuts a block into records (io/lineinput.hpp,             *)
(* io/file_splitter.cpp): a reader skips the rest of the line that began in   *)
(* front of its block, and reads on behind its block to the end of the last   *)
(* line it has begun.                                                       *)

Span(from, to) == [from |-> from, to |-> to]
IsEmpty(span) == span.from = span.to
Upto(text, offset) == IF offset < text.len THEN offset ELSE text.len

npos == -1
First(S) == CHOOSE m \in S : \A n \in S : m <= n

\* find_next: the first newline of the buffer at or behind offset l.
find_next(text, buffer, l) ==
    LET found == {n \in text.newlines : l <= n /\ n < buffer.to}
    IN  IF found = {} THEN npos ELSE First(found)

\* fetch_block(false): the whole block; and fetch_block(true): what comes next.
read_block(text, offset) == Span(offset, Upto(text, offset + hdfs_block_size))
NextChunk(text, buffer) == Span(buffer.to, Upto(text, buffer.to + ChunkSize))

\* handle_next_block: where the line ends that goes on in this buffer.
RECURSIVE handle_next_block(_, _)
handle_next_block(text, buffer) ==
    LET r == find_next(text, buffer, buffer.from)
    IN  IF IsEmpty(buffer) THEN buffer.from
        ELSE IF r # npos THEN r
        ELSE handle_next_block(text, NextChunk(text, buffer))

\* The record that begins at l and ends behind the buffer.
LastPart(text, buffer, l) ==
    Span(l, handle_next_block(text, NextChunk(text, buffer)))

\* Where the next record begins.  A buffer without a newline counts as if the
\* newline were in front of it: npos + 1 is 0.
RecordStart(text, buffer, r) ==
    LET newline == find_next(text, buffer, r)
    IN  IF r = 0
        THEN IF 0 \in text.newlines THEN 1 ELSE 0
        ELSE IF newline = npos THEN buffer.from ELSE newline + 1

\* The calls of next that read this block, from position r on.  The last of them
\* may come to the end of the file in its middle ("inside"): it asks for another
\* block and goes on with that one, behind the test for the last character.
RECURSIVE next(_, _, _, _)
next(text, buffer, r, inside) ==
    LET l   == RecordStart(text, buffer, r)
        end == find_next(text, buffer, l)
        ahead == NextChunk(text, buffer)
    IN  IF ~inside /\ r = buffer.to - 1
        THEN IF IsEmpty(ahead)
             THEN [records |-> {}, inside |-> TRUE]
             ELSE [records |-> {LastPart(text, buffer, buffer.to)}, inside |-> FALSE]
        ELSE IF end = npos
        THEN [records |-> {LastPart(text, buffer, l)}, inside |-> FALSE]
        ELSE LET rest == next(text, buffer, end, FALSE)
             IN  [rest EXCEPT !.records = @ \cup {Span(l, end)}]

ReadBlock(text, offset, inside) ==
    next(text, read_block(text, offset), offset, inside)

-----------------------------------------------------------------------------
\* What readers should find: the lines of a text that are not empty.
Lines(text) ==
    LET starts == {0} \cup {n + 1 : n \in text.newlines}
        EndOf(start) == First({n \in text.newlines : n >= start} \cup {text.len})
    IN  {Span(s, EndOf(s)) : s \in {s \in starts : s < EndOf(s)}}

\* A block that begins and ends inside one line.
InsideALine(text, offset) ==
    /\ offset # 0
    /\ find_next(text, read_block(text, offset), offset) = npos

-----------------------------------------------------------------------------
Threads == Processes \X (1 .. num_local_load_thread)
num_threads == Cardinality(Threads)
Process(t) == t[1]

VARIABLES
    text,              \* the files' texts
    hosts,             \* hosts[file, offset]: where HDFS has a replica
    \* the load threads
    pc,                \* pc[t]: "reads", "asks", "rejected" or "done"
    inside,            \* inside[t]: in the middle of next, behind its first test
    loaded,            \* the records that all threads were given, a bag
    \* the coordinators
    coord_lock,        \* coord_lock[p]: the thread in ask_master, or Nobody
    questions,         \* questions[p]: messages on their way to the master
    answers,           \* answers[p]: answers on their way to the process
    \* the master
    running,
    finished_workers,
    num_workers_alive, \* uninitialised before the first question
    files_locality,    \* the blocks of the URL at each host, or NotFound
    rejected           \* finish_multi_dict_: how often the URL had no block

directory == <<text, hosts>>
threads == <<pc, inside, loaded>>
coordinators == <<coord_lock, questions, answers>>
master == <<running, finished_workers, num_workers_alive, files_locality, rejected>>
vars == <<directory, threads, coordinators, master>>

Blocks ==
    UNION {{f} \X {k * hdfs_block_size : k \in 0 .. (text[f].len - 1) \div hdfs_block_size} :
               f \in Files}

Init ==
    /\ text \in Directories
    /\ hosts \in Placements
    /\ pc = [t \in Threads |-> "reads"]
    /\ inside = [t \in Threads |-> FALSE]
    /\ loaded = EmptyBag
    /\ coord_lock = [p \in Processes |-> Nobody]
    /\ questions = [p \in Processes |-> <<>>]
    /\ answers = [p \in Processes |-> <<>>]
    /\ running = TRUE
    /\ finished_workers = {}
    /\ num_workers_alive \in 0 .. num_threads
    /\ files_locality = NotFound
    /\ rejected = 0

-----------------------------------------------------------------------------
(* The load threads *)

\* ask_master from fetch_block(false): the thread keeps the lock.
AskMaster(t) ==
    /\ pc[t] = "reads"
    /\ coord_lock[Process(t)] = Nobody
    /\ pc' = [pc EXCEPT ![t] = "asks"]
    /\ coord_lock' = [coord_lock EXCEPT ![Process(t)] = t]
    /\ questions' = [questions EXCEPT ![Process(t)] =
                        Append(@, [type |-> "kBlockRequest"])]
    /\ UNCHANGED <<directory, inside, loaded, answers, master>>

Record(file, span) == [file |-> file, from |-> span.from, to |-> span.to]

\* The answer is a block: the records of the calls of next that read it.
ReceiveBlock(t) ==
    LET p == Process(t)
        block == Head(answers[p])
        read == ReadBlock(text[block[1]], block[2], inside[t])
        records == {Record(block[1], s) : s \in {s \in read.records : ~IsEmpty(s)}}
    IN  /\ pc[t] = "asks" /\ coord_lock[p] = t
        /\ answers[p] # <<>> /\ block # NoBlock
        /\ pc' = [pc EXCEPT ![t] = "reads"]
        /\ inside' = [inside EXCEPT ![t] = read.inside]
        /\ loaded' = loaded (+) SetToBag(records)
        /\ coord_lock' = [coord_lock EXCEPT ![p] = Nobody]
        /\ answers' = [answers EXCEPT ![p] = Tail(@)]
        /\ UNCHANGED <<directory, questions, master>>

\* The answer is that there is none: HasRecord is false, the lambda ends.
ReceiveNoBlock(t) ==
    LET p == Process(t)
    IN  /\ pc[t] = "asks" /\ coord_lock[p] = t
        /\ answers[p] # <<>> /\ Head(answers[p]) = NoBlock
        /\ pc' = [pc EXCEPT ![t] = "rejected"]
        /\ coord_lock' = [coord_lock EXCEPT ![p] = Nobody]
        /\ answers' = [answers EXCEPT ![p] = Tail(@)]
        /\ UNCHANGED <<directory, inside, loaded, questions, master>>

\* node_.id * num_local_load_thread + i: a number of its own for each thread.
local_id(t) == t[2]  \* mutant of worker_id
worker_id(t) == t

\* notify_master, the end of the thread in HDFSManager::Run.
NotifyMaster(t) ==
    /\ pc[t] = "rejected"
    /\ coord_lock[Process(t)] = Nobody
    /\ pc' = [pc EXCEPT ![t] = "done"]
    /\ questions' = [questions EXCEPT ![Process(t)] =
                        Append(@, [type |-> "kExit", worker_id |-> worker_id(t)])]
    /\ UNCHANGED <<directory, inside, loaded, coord_lock, answers, master>>

-----------------------------------------------------------------------------
(* The master: Serve *)

browse_hdfs == [h \in Hosts |-> {b \in Blocks : h \in hosts[b]}]

\* All replicas of a block are removed.
RemoveOneReplica(locality, block) ==  \* mutant of Remove
    LET host == CHOOSE h \in Hosts : block \in locality[h]
    IN  [locality EXCEPT ![host] = @ \ {block}]
Remove(locality, block) == [h \in Hosts |-> locality[h] \ {block}]

\* answer: a block of the asking host, or else of one that has any.  Which of
\* them depends on the order of host names and on hashes, here on nothing.
Selectable(locality, host) ==
    IF locality[host] # {} THEN locality[host]
    ELSE UNION {locality[h] : h \in Hosts}

\* One turn of the loop: the next message of process p.
Serve(p, type) ==
    /\ running
    /\ questions[p] # <<>> /\ Head(questions[p]).type = type
    /\ questions' = [questions EXCEPT ![p] = Tail(@)]

Answer(p, block) == answers' = [answers EXCEPT ![p] = Append(@, block)]

\* A URL is browsed when it is asked for the first time, or again after it was
\* erased.
handle_block_request(p) ==
    LET found == files_locality # NotFound
        locality == IF found THEN files_locality ELSE browse_hdfs
        selectable == Selectable(locality, worker_host[p])
        rejections == IF found THEN rejected ELSE 0
    IN  /\ Serve(p, "kBlockRequest")
        /\ num_workers_alive' = num_threads
        /\ \/ \E block \in selectable :
                /\ Answer(p, block)
                /\ files_locality' = Remove(locality, block)
                /\ rejected' = rejections
           \/ /\ selectable = {}
              /\ Answer(p, NoBlock)
              /\ rejected' = rejections + 1
              /\ files_locality' = IF rejected' = num_workers_alive'
                                    THEN NotFound ELSE locality
        /\ UNCHANGED <<directory, threads, coord_lock, running, finished_workers>>

handle_exit(p) ==
    /\ Serve(p, "kExit")
    /\ finished_workers' = finished_workers \cup {Head(questions[p]).worker_id}
    /\ running' = (Cardinality(finished_workers') # num_workers_alive)
    /\ UNCHANGED <<directory, threads, coord_lock, answers, num_workers_alive,
                   files_locality, rejected>>

-----------------------------------------------------------------------------
AllDone == ~running /\ \A t \in Threads : pc[t] = "done"
Terminated == AllDone /\ UNCHANGED vars

ThreadStep(t) ==
    AskMaster(t) \/ ReceiveBlock(t) \/ ReceiveNoBlock(t) \/ NotifyMaster(t)

Next ==
    \/ \E t \in Threads : AskMaster(t)
    \/ \E t \in Threads : ReceiveBlock(t)
    \/ \E t \in Threads : ReceiveNoBlock(t)
    \/ \E t \in Threads : NotifyMaster(t)
    \/ \E p \in Processes : handle_block_request(p)
    \/ \E p \in Processes : handle_exit(p)
    \/ Terminated

Spec == Init /\ [][Next]_vars

\* Threads run to their end, and the master serves every process in turn.
Fairness ==
    /\ \A t \in Threads : WF_vars(ThreadStep(t))
    /\ \A p \in Processes : WF_vars(handle_block_request(p) \/ handle_exit(p))

FairSpec == Spec /\ Fairness

-----------------------------------------------------------------------------
(* Properties *)

Messages == [type : {"kBlockRequest"}] \cup [type : {"kExit"}, worker_id : Threads]

\* Every variable has its type, and at most one answer is under way to a process.
TypeOK ==
    /\ pc \in [Threads -> {"reads", "asks", "rejected", "done"}]
    /\ inside \in [Threads -> BOOLEAN]
    /\ IsABag(loaded)
    /\ coord_lock \in [Processes -> Threads \cup {Nobody}]
    /\ \A p \in Processes :
          /\ \A i \in DOMAIN questions[p] : questions[p][i] \in Messages
          /\ Len(answers[p]) <= 1
          /\ \A i \in DOMAIN answers[p] : answers[p][i] \in Blocks \cup {NoBlock}
    /\ running \in BOOLEAN
    /\ finished_workers \subseteq Threads
    /\ num_workers_alive \in 0 .. num_threads
    /\ files_locality = NotFound \/ files_locality \in [Hosts -> SUBSET Blocks]
    /\ rejected \in 0 .. num_threads

RecordsOf(f, spans) == {Record(f, s) : s \in spans}
AllLines == UNION {RecordsOf(f, Lines(text[f])) : f \in Files}

\* What a reader makes of a block without a newline, behind the first one of its
\* file: the rest of its line from there on, as if it were a line.
AllFragments ==
    {Record(b[1], LastPart(text[b[1]], read_block(text[b[1]], b[2]), b[2])) :
        b \in {b \in Blocks : InsideALine(text[b[1]], b[2])}}

\* No line is loaded twice, whichever threads read the blocks it lies in and
\* however many replicas these have; and nothing that is not a line, but for the
\* rest of a line that is read once more from a block without a newline
\* (hdfs_assigner.cpp:198; "what if not found", lineinput.hpp:72).
LinesLoadedOnce ==
    loaded \sqsubseteq (SetToBag(AllLines) (+) SetToBag(AllFragments))

\* When the master stops serving, every process has been told that there are no
\* more blocks, nothing is under way, and every line is loaded; only a line of a
\* file with a single byte may be missed (hdfs_assigner.cpp:61, lineinput.hpp:48).
StopsWhenLoaded ==
    ~running =>
        /\ \A t \in Threads : pc[t] = "done"
        /\ \A p \in Processes : questions[p] = <<>> /\ answers[p] = <<>>
        /\ \A f \in Files : text[f].len > 1 => RecordsOf(f, Lines(text[f])) \subseteq BagToSet(loaded)

\* Every thread gets to its end and the master leaves its loop, so that Run and
\* Stop return on node 0 (hdfs_manager.cpp:50, hdfs_assigner.cpp:61).
LoadingEnds == <>AllDone
=============================================================================
