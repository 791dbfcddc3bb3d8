-------------------------------- MODULE Ring --------------------------------
(***************************************************************************)
(* Placement and election helpers of schema/node.go and master.go, as pure *)
(* operators.  GetRingId (SHA-256 of a string truncated to RING_SIZE bits) *)
(* is a fixed function chosen by the model: ringId maps each member id and *)
(* each file name to a point of the ring 0..RingSize-1.                    *)
(***************************************************************************)
EXTENDS Integers, Sequences, FiniteSets
LOCAL INSTANCE SequencesExt
LOCAL INSTANCE FiniteSetsExt

\* Seeded fault for RunPartitioner: the first owner must lie strictly past
\* the file's point.
RunPartitionerStrict(members, ringId, fileRingId, numReplicas) ==
    LET sorted == SetToSortSeq(members, LAMBDA a, b : ringId[a] < ringId[b])
        n == Len(sorted)
        after == {i \in 1..n : ringId[sorted[i]] > fileRingId}
        first == IF after = {} THEN 1 ELSE Min(after)
    IN  [j \in 1..Min({numReplicas, n}) |-> sorted[((first + j - 2) % n) + 1]]

(***************************************************************************)
(* RunPartitioner: sort the live members by ring id (sort.Slice), find the *)
(* first member whose ring id is >= the file's ring id, wrapping to the    *)
(* start of the ring when there is none, and walk the ring from there      *)
(* collecting NUM_REPLICAS members, stopping early when it comes back to   *)
(* the start.  The result is a sequence in ring order.                     *)
(***************************************************************************)
RunPartitioner(members, ringId, fileRingId, numReplicas) ==
    LET sorted == SetToSortSeq(members, LAMBDA a, b : ringId[a] < ringId[b])
        n      == Len(sorted)
        over   == {i \in 1..n : ringId[sorted[i]] >= fileRingId}
        start  == IF over = {} THEN 1 ELSE Min(over)
    IN  [j \in 1..Min({numReplicas, n}) |-> sorted[((start - 1 + j - 1) % n) + 1]]

(***************************************************************************)
(* CurrMasterNode: a linear scan for the smallest member id.               *)
(***************************************************************************)
CurrMasterNode(members) == Min(members)

(***************************************************************************)
(* selectQuorum: shuffle the partition and keep its first QUORUM_SIZE      *)
(* members (all of them when there are fewer).  The shuffle makes every    *)
(* subset of that size a possible quorum; the serial loops that later walk *)
(* the quorum are modelled as visiting its members in any order.           *)
(***************************************************************************)
SelectQuorum(partition, quorumSize) ==
    kSubset(Min({quorumSize, Len(partition)}),
            {partition[i] : i \in 1..Len(partition)})

=============================================================================
