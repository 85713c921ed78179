---------------------------- MODULE MCHDFSLoading ----------------------------
(* Two processes with two load threads each, three hosts of replicas, one of   *)
(* them without a process; a file of two or three blocks of two bytes, where   *)
(* newlines end blocks, begin them, or are missing, and a file of one byte.     *)
EXTENDS HDFSLoading

CONSTANTS p1, p2, h1, h2, h3, long, short

MCProcesses == {p1, p2}
MCHosts == {h1, h2, h3}
MCFiles == {long, short}
MCworker_host == [p \in MCProcesses |-> IF p = p1 THEN h1 ELSE h2]

Text(len, newlines) == [len |-> len, newlines |-> newlines]
LongTexts ==
    {Text(5, n) : n \in {{}, {1}, {3, 4}, {0, 2}}} \cup {Text(4, {1, 3})}
MCDirectories ==
    {[f \in MCFiles |-> IF f = long THEN t ELSE Text(1, {})] : t \in LongTexts}

Offsets == {0, 2, 4}
MCPlacements ==
    { [b \in MCFiles \X Offsets |-> MCHosts],
      [b \in MCFiles \X Offsets |->
          IF b[1] = short THEN {h3} ELSE IF b[2] = 2 THEN {h1, h2} ELSE {h1}] }

\* Every line is loaded once, and the master stops when, and only when, nothing
\* is left to load (HDFSLoading).
LoadingSound == TypeOK /\ LinesLoadedOnce /\ StopsWhenLoaded
=============================================================================
