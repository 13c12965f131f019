---------------------------- MODULE WmgetPool ----------------------------
(***************************************************************************)
(* What the dock of wmget promises of the jobs it accepts (wmget.1.in,     *)
(* USING WMGET), without slots, shared memory or an order of the queue:    *)
(* "If all four places show running downloads, additional requests will    *)
(* queue up, waiting for one to complete; wmget will never be downloading  *)
(* more than four files at a time."  A job waits, downloads and is over;   *)
(* it is never accepted twice and never comes back.                        *)
(***************************************************************************)
EXTENDS Naturals, FiniteSets

CONSTANTS Jobs, Places, QueueSize

VARIABLES waiting, active, over

pool == <<waiting, active, over>>

Init == waiting = {} /\ active = {} /\ over = {}

Accept(j) ==
    /\ j \notin waiting \cup active \cup over
    /\ Cardinality(waiting) < QueueSize
    /\ waiting' = waiting \cup {j}
    /\ UNCHANGED <<active, over>>

\* A waiting job gets one of the places.
Begin(j) ==
    /\ j \in waiting
    /\ Cardinality(active) < Places
    /\ waiting' = waiting \ {j}
    /\ active' = active \cup {j}
    /\ UNCHANGED over

\* A waiting job is cancelled, or could not be started.
Drop(j) ==
    /\ j \in waiting
    /\ waiting' = waiting \ {j}
    /\ over' = over \cup {j}
    /\ UNCHANGED active

Finish(j) ==
    /\ j \in active
    /\ active' = active \ {j}
    /\ over' = over \cup {j}
    /\ UNCHANGED waiting

Next == \E j \in Jobs : Accept(j) \/ Begin(j) \/ Drop(j) \/ Finish(j)

Spec == Init /\ [][Next]_pool
============================================================================
