---------------------------- MODULE WmPppClaims ----------------------------
(***************************************************************************)
(* What the manual page of wmppp says of the redial program, and WmPpp     *)
(* does not do.                                                            *)
(***************************************************************************)
EXTENDS WmPpp

\* "This program is run if the line goes down, and the stop program hasn't been
\* run" (wmppp.1, ifdown).  The main loop looks at the line only: it redials
\* while the hang-up program still runs, and after it has ended when the line
\* outlives it by a second.
RedialsUnasked ==
    [][\A k \in Pids : kid[k] = "none" /\ kid'[k] = "ifdown" => ~hungUp]_vars
=============================================================================
