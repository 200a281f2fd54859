--------------------------- MODULE MCRecloserLine ---------------------------
(* The recloser on its line, with three shots and two configured dead       *)
(* times.                                                                   *)
EXTENDS RecloserLine

MCDeadTimes == <<1, 2>>
MCTickSizes == {1, 2}

==============================================================================
