------------------------- MODULE WmgetTargetClaims -------------------------
(***************************************************************************)
(* What the manual page of wmget says of the file a download goes to, and  *)
(* WmgetTarget does not do.                                                *)
(***************************************************************************)
EXTENDS MCWmgetTarget

\* No file is there before the first download.
NothingThere == {[p \in Paths |-> NoFile]}

\* "Allow wmget to overwrite an existing file when downloading.  Normally, it
\* will refuse to do so" (wmget.1.in): bytes are lost only to a download with
\* --overwrite, if reports of failures are left aside.  Two requests for a file
\* that is not there are both accepted, and the second one to start empties
\* what the first has fetched.
NeverOverwritesUnasked ==
  [][\A p \in Paths :
       \/ IsPrefix(files[p].data, files'[p].data)
       \/ \E j \in On(p) : job[j].overwrite
       \/ Reports(p)]_vars
=============================================================================
