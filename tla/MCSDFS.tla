------------------------------- MODULE MCSDFS -------------------------------
(* Model-checking instance of SDFS: three nodes on an 8-point ring, two    *)
(* files whose partitions differ, two payloads and one client.             *)
EXTENDS SDFS, TLC

CONSTANTS fa, fb   \* the two file names, model values

\* GetRingId of the node ids 1, 2, 3: the ring reads 1 .. 4 .. 6.
NodeRingIds == (1 :> 1 @@ 2 :> 4 @@ 3 :> 6)

\* The same ring with node 3 left out.
TwoNodeRingIds == (1 :> 1 @@ 2 :> 4)

\* fa lands at 2 (partition <<2, 3>>), fb at 0 (partition <<1, 2>>), so
\* the master 1 owns fb only and node 3 owns fa only.
FileRingIds == (fa :> 2 @@ fb :> 0)

MCFiles == {fa, fb}

\* A single file, for the runs where every node owns it.
OneFile == {fa}
OneFileRingId == (fa :> 2)

\* Payloads are only stored, sent and compared for equality: renaming
\* them maps behaviours to behaviours.
ContentSymmetry == Permutations(Contents)
=============================================================================
