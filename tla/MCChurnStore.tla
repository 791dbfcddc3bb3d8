---------------------------- MODULE MCChurnStore ----------------------------
(* Model-checking instance of ChurnStore: member ids 1 < 2 < 3 on ring     *)
(* points 1, 4, 6 and f on point 3, so that f's owners move when 2 joins   *)
(* or dies (with every id up and NUM_REPLICAS = 2 they are 2 and 3).       *)
EXTENDS ChurnStore, TLC

MCIds == {1, 2, 3}
MCRingId == (1 :> 1 @@ 2 :> 4 @@ 3 :> 6)
MCFileRingId == 3

\* Two incarnations with one replica: 2 owns f alone while it is a member.
MCIds2 == {1, 2}
MCRingId2 == (1 :> 1 @@ 2 :> 4)
=============================================================================
