--------------------------- MODULE FileVersionSet ---------------------------
(***************************************************************************)
(* The pure helpers of fsys/filesystem.go over SDFSFileVersionSet, the Go  *)
(* map[string]map[int64]bool that summarises which versions of which SDFS  *)
(* files a replica holds, offers or wants.  A version set is modelled as a *)
(* TLA+ function whose DOMAIN is the set of file names present as keys and *)
(* whose values are sets of version numbers (the int64 nanosecond stamps). *)
(***************************************************************************)
EXTENDS Integers, FiniteSets

\* Seeded fault for MergedKLatestVersions: the fetch walk stops at k - 1.
MergedFetchOffByOne(alreadyHaveSet, offeredSet, k) ==
    LET us == alreadyHaveSet \ offeredSet
        them == offeredSet \ alreadyHaveSet
        Index(v) == Cardinality({w \in us \cup them : w > v})
    IN  [fetch |-> {v \in them : Index(v) < k - 1},
         discard |-> {v \in us : Index(v) >= k}]

(***************************************************************************)
(* MergedKLatestVersions(alreadyHaveSet, offeredSet, k).  The Go code      *)
(* builds allMerged from the versions only we have ("us") and only they    *)
(* have ("them"); versions both sides hold are skipped and do not take a   *)
(* slot.  allMerged is sorted newest first and walked by index i: below k  *)
(* a "them" version is fetched, from k on an "us" version is discarded.    *)
(* The index of a version in the sorted slice is the number of merged     *)
(* versions newer than it, since versions are distinct integers.          *)
(***************************************************************************)
MergedKLatestVersions(alreadyHaveSet, offeredSet, k) ==
    LET us        == alreadyHaveSet \ offeredSet
        them      == offeredSet \ alreadyHaveSet
        allMerged == us \cup them
        Index(v)  == Cardinality({w \in allMerged : w > v})
    IN  [fetch   |-> {v \in them : Index(v) < k},
         discard |-> {v \in us : Index(v) >= k}]

\* Seeded fault for DiffForDeletes: the subtraction runs the wrong way.
DiffForDeletesReversed(fromSet, toSet) ==
    LET Missing(fi) == IF fi \in DOMAIN toSet THEN toSet[fi] \ fromSet[fi]
                       ELSE fromSet[fi]
    IN  [fi \in {g \in DOMAIN fromSet : g \notin DOMAIN toSet \/ Missing(g) # {}}
            |-> Missing(fi)]

(***************************************************************************)
(* DiffForDeletes(fromSet, toSet): per file, the versions of fromSet that  *)
(* toSet lacks.  A file absent from toSet is copied whole (case 1, even    *)
(* when its version set is empty); a file present in both appears only if  *)
(* some version is missing (case 2).                                       *)
(***************************************************************************)
DiffForDeletes(fromSet, toSet) ==
    LET Missing(fi) == IF fi \in DOMAIN toSet
                       THEN fromSet[fi] \ toSet[fi]
                       ELSE fromSet[fi]
        keep == {fi \in DOMAIN fromSet :
                    fi \notin DOMAIN toSet \/ Missing(fi) # {}}
    IN  [fi \in keep |-> Missing(fi)]

(***************************************************************************)
(* Conversions between the map form and a set of <<file, version>> pairs,  *)
(* which the cluster model uses for reservations and requests.  A map with *)
(* no empty entries and its set of pairs determine each other.             *)
(***************************************************************************)
Pairs(vs) == UNION {{<<fi, v>> : v \in vs[fi]} : fi \in DOMAIN vs}

AsVersionSet(pairs) ==
    [fi \in {p[1] : p \in pairs} |-> {p[2] : p \in {q \in pairs : q[1] = fi}}]

=============================================================================
