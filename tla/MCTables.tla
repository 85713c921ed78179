------------------------------ MODULE MCTables -------------------------------
(***************************************************************************)
(* Two workers, and two servers that own one key each, under every            *)
(* consistency model: kind tells which one the servers of a behaviour run.    *)
(* A BSP table runs MaxClock iterations; the SSP and the ASP table, whose      *)
(* Gets may also leave a server out, run one and a last Get.                 *)
(***************************************************************************)
EXTENDS BSPTable, TLC

CONSTANTS w1, w2, s1, s2, k1, k2
MCOwner == (k1 :> s1) @@ (k2 :> s2)
MCAllKeys == {{k1, k2}}
MCGetKeys == {{k1, k2}, {k1}}

VARIABLES buffer, kind

SSP == INSTANCE SSPTable WITH MaxClock <- 1, Staleness <- 0, GetKeys <- MCGetKeys
ASP == INSTANCE ASPTable WITH MaxClock <- 1, GetKeys <- MCGetKeys

tablesVars == <<vars, buffer, kind>>

TablesInit ==
    /\ Init
    /\ buffer = [s \in Servers |-> [c \in 0 .. 1 |-> {}]]
    /\ kind \in {"BSP", "SSP", "ASP"}

BSPStep(A) == kind = "BSP" /\ A /\ UNCHANGED <<buffer, kind>>
SSPStep(A) == kind = "SSP" /\ A /\ UNCHANGED <<buffers, aborted, kind>>
ASPStep(A) == kind = "ASP" /\ A /\ UNCHANGED <<buffers, aborted, buffer, kind>>

TablesNext == BSPStep(Next) \/ SSPStep(SSP!Next) \/ ASPStep(ASP!Next)

\* Server and helper threads pop their queues for ever.  The lambdas go on
\* clocking on a BSP and on an SSP table (SSPTable!Fairness); nothing is
\* assumed of those on an ASP table, who may each stop for good in any iteration.
TablesSpec ==
    /\ TablesInit /\ [][TablesNext]_tablesVars
    /\ \A w \in Workers :
          WF_tablesVars(\/ BSPStep(Running /\ Client(w))
                        \/ SSPStep(SSP!ClientClock(w) /\ UNCHANGED <<progress_tracker, buffer, storage>>))
    /\ \A s \in Servers, w \in Workers :
          /\ WF_tablesVars(\/ BSPStep(Running /\ Server(s, w))
                           \/ SSPStep(SSP!Server(s, w)) \/ ASPStep(ASP!Server(s, w)))
          /\ WF_tablesVars(\/ BSPStep(Running /\ Helper(s, w))
                           \/ SSPStep(SSP!Helper(s, w)) \/ ASPStep(ASP!Helper(s, w)))

promised == <<clock, issued, want, [w \in Workers |-> Waiting(w)], vals>>

\* BSPModel keeps BulkSynchrony: slices read at different servers at different
\* moments make up one snapshot between two iterations.
BSPKeepsPromise ==
    /\ kind = "BSP" => Promise!Init
    /\ [][kind = "BSP" => Promise!Next]_promised

\* ASPModel keeps the part of BoundedStaleness that is left without a bound: a
\* worker reads all its own Adds, and only Adds that were called.
ASPKeepsPromise ==
    /\ kind = "ASP" => ASP!Promise!Init
    /\ [][kind = "ASP" => ASP!Promise!Next]_promised
=============================================================================
