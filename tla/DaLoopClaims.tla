---------------------------- MODULE DaLoopClaims ----------------------------
(***************************************************************************)
(* What the manual page of wmget says of its buttons, and the main loop of *)
(* the dockapp library does not do, under fair scheduling.                 *)
(***************************************************************************)
EXTENDS DaLoop

\* "clicking on the stop button stops the download ... it just stops"
\* (wmget.1.in): a click takes effect.  It may stay in the queue of Xlib, where
\* a redraw or an early return of da_xfd_callback has left it, until the X
\* server happens to send something else.
ClicksHandled ==
  LET clicks(events) == Len(SelectSeq(events, LAMBDA e : e = "release")) IN
  \A n \in 1 .. MaxEvents :
    clicks(sent) >= n ~> (pc = "done" \/ clicks(handled) >= n)
=============================================================================
