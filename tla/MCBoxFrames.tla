---------------------------- MODULE MCBoxFrames ----------------------------
(* Instance of BoxFrames for TLC: one key of tbl_actual has a copy in the  *)
(* mirror table, one has not.                                              *)
EXTENDS BoxFrames
MCKeysOf == [t \in Tables |->
    IF t = "actual" THEN {"a", "b"} ELSE IF t = "mirror" THEN {"a", "c"} ELSE {"p"}]
=============================================================================
