---------------------------- MODULE MCChurnLoop ----------------------------
(* Model-checking instance of ChurnLoop: three process incarnations with   *)
(* member ids 1 < 2 < 3, so that a crash of the master, a join of a        *)
(* smaller id and a restart under a new id can all happen.                 *)
EXTENDS ChurnLoop, TLC

\* The incarnations are interchangeable except for their order, which
\* decides the master, so there is no symmetry to exploit.
MCIds == {1, 2, 3}
=============================================================================
