--------------------------- MODULE MCWmgetTarget ---------------------------
(* A small instance of WmgetTarget: one URL of two bytes, the file p1 named *)
(* after it in the default directory, and p2, which is below p1 if that is a *)
(* directory.  The error file of p1 is e1; the other names are so long that  *)
(* nothing can be added to them.                                             *)
EXTENDS WmgetTarget, TLC

CONSTANTS s1, p1, p2, e1

MCBelow == [d \in Paths \cup {"default"} |->
              [s \in Sources |-> IF d = "default" THEN p1 ELSE p2]]

MCErrorOf == [p \in Paths |-> IF p = p1 THEN e1 ELSE p]

Mine(data) == [NewFile EXCEPT !.data = data]
Others(n) == [i \in 1 .. n |-> <<"other", 1>>]
Directory == [NewFile EXCEPT !.kind = "directory"]

\* Nothing; the aborted copy of a URL; a complete one; something else, of a
\* length an int holds, of one it makes negative, and of one it makes 0; a file
\* of another user that everyone may write; one only others may write though
\* it is ours.
Old ==
  {NoFile, Mine(<<<<s1, 1>>>>), Mine(Copy(s1)),
   Mine(Others(1)), Mine(Others(Wrap - 1)), Mine(Others(Wrap)),
   [Mine(Others(1)) EXCEPT !.mode = {"other"}, !.mine = FALSE, !.ours = FALSE],
   [Mine(Others(1)) EXCEPT !.mode = {"other"}]}

\* A file at p1, nothing below it, and perhaps an old report at e1; or a
\* directory with something in it.
MCOldFiles ==
  {[p \in Paths |-> IF p = p1 THEN f ELSE IF p = e1 THEN e ELSE NoFile] :
     f \in Old, e \in {NoFile, Mine(<<<<s1, 1>>>>)}}
  \cup {[p \in Paths |-> IF p = p1 THEN Directory ELSE IF p = p2 THEN f ELSE NoFile] :
          f \in Old}

Symmetric == Permutations(Jobs)
=============================================================================
