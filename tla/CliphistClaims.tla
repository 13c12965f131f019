-------------------------- MODULE CliphistClaims --------------------------
(***************************************************************************)
(* What the README of wmcliphist says of its history, and Cliphist does    *)
(* not do.                                                                 *)
(***************************************************************************)
EXTENDS Cliphist

\* "wmcliphist keeps history of clipboard operations" (README): what is in the
\* list has been on the clipboard.  A selection that arrives while the question
\* of confirm_exec is open frees the text the question is about, and that text
\* goes into the list when the question has been answered.
OnlyCopied == Kept \subseteq Copyable
============================================================================
