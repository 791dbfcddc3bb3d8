----------------------------- MODULE MCOperators -----------------------------
(***************************************************************************)
(* Bounded exhaustive check of the pure operators of FileVersionSet and    *)
(* Ring against reference definitions.  The inputs are held in variables   *)
(* chosen by Init from small domains and never change, so every reachable  *)
(* state is one input -- of the merge, of the diff or of the partitioner -- *)
(* and the properties are invariants over them.                            *)
(***************************************************************************)
EXTENDS FileVersionSet, Ring, FiniteSets, Integers, Sequences, TLC

CONSTANTS Versions,     \* version stamps for the merge inputs
          DiffVersions, \* version stamps for the diff inputs
          FileNames,    \* a small set of SDFS file names
          Ks,           \* the values of k (NUM_VERSIONS) tried
          Nodes,        \* member ids for the partitioner inputs
          RingSize,     \* 2^RING_SIZE, scaled down
          NodeRingId,   \* GetRingId of each member id
          NUM_REPLICAS

ASSUME NodeRingId \in [Nodes -> 0..RingSize-1]
\* SHA-256 collisions between member ids are not considered.
ASSUME \A a, b \in Nodes : a # b => NodeRingId[a] # NodeRingId[b]

\* The ring points used by the cfgs: four members spread over a ring of 8.
RingIdOf4 == (1 :> 5 @@ 2 :> 0 @@ 3 :> 3 @@ 4 :> 6)

VARIABLES have, offered, k,   \* inputs of MergedKLatestVersions
          fromSet, toSet,     \* inputs of DiffForDeletes
          members, fileRingId \* inputs of RunPartitioner

vars == <<have, offered, k, fromSet, toSet, members, fileRingId>>

\* All SDFSFileVersionSet maps over FileNames with versions from Vs.
VersionSets(Vs) ==
    UNION {[D -> SUBSET Vs] : D \in SUBSET FileNames}

NoMerge == have = {} /\ offered = {} /\ k = CHOOSE n \in Ks : TRUE
NoDiff  == fromSet = <<>> /\ toSet = <<>>
NoRing  == members = {} /\ fileRingId = 0

InitMerge ==
    /\ have \in SUBSET Versions
    /\ offered \in SUBSET Versions
    /\ k \in Ks
    /\ NoDiff /\ NoRing

InitDiff ==
    /\ fromSet \in VersionSets(DiffVersions)
    /\ toSet \in VersionSets(DiffVersions)
    /\ NoMerge /\ NoRing

InitRing ==
    /\ members \in SUBSET Nodes \ {{}}
    /\ fileRingId \in 0..RingSize-1
    /\ NoMerge /\ NoDiff

Next == UNCHANGED vars

\* Each initial state is one input, of the merge, the diff or the partitioner.
Spec == (InitMerge \/ InitDiff \/ InitRing) /\ [][Next]_vars

Merged == MergedKLatestVersions(have, offered, k)
Kept   == (have \ Merged.discard) \cup Merged.fetch

-----------------------------------------------------------------------------
(***************************************************************************)
(* NewestSurvives: when a replica merges what it has with what a peer      *)
(* offers (IdentifyDesiredFiles), the newest version on either side is     *)
(* either kept locally or fetched.  This is what lets one Replicate() pass *)
(* propagate the latest write to every co-owner.                          *)
(***************************************************************************)
NewestSurvives ==
    (k >= 1 /\ have \cup offered # {}) =>
        LET newest == CHOOSE v \in have \cup offered :
                          \A w \in have \cup offered : w <= v
        IN  newest \in Kept

(***************************************************************************)
(* DiffIsDifference: DiffForDeletes(from, to), read as <<file, version>>   *)
(* pairs, is the set difference of the two; IdentifyDesiredFiles relies on *)
(* it to drop exactly the versions already reserved by another transfer.   *)
(***************************************************************************)
DiffIsDifference ==
    Pairs(DiffForDeletes(fromSet, toSet)) = Pairs(fromSet) \ Pairs(toSet)


-----------------------------------------------------------------------------
Partition == RunPartitioner(members, NodeRingId, fileRingId, NUM_REPLICAS)

\* Clockwise distance from the file's point to a member's point.
Dist(m) == (NodeRingId[m] - fileRingId) % RingSize

(***************************************************************************)
(* PartitionIsClockwiseSuccessors: the partition lists distinct members in *)
(* increasing clockwise distance from the file, has min(NUM_REPLICAS,      *)
(* |members|) entries, and no member left out is closer than the last one. *)
(* A file whose point equals a member's point belongs first to that member.*)
(***************************************************************************)
PartitionIsClockwiseSuccessors ==
    members # {} =>
        LET n == Len(Partition)
        IN  /\ n = IF NUM_REPLICAS < Cardinality(members)
                   THEN NUM_REPLICAS ELSE Cardinality(members)
            /\ \A j \in 1..n-1 : Dist(Partition[j]) < Dist(Partition[j+1])
            /\ \A m \in members \ {Partition[j] : j \in 1..n} :
                   Dist(m) > Dist(Partition[n])


=============================================================================
