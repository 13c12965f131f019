------------------------------ MODULE MCWmMp3 ------------------------------
(***************************************************************************)
(* WmMp3 with three directories, the second of which has no songs.         *)
(***************************************************************************)
EXTENDS WmMp3

MCSongs == <<2, 0, 1>>
=============================================================================
