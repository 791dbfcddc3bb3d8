--------------------------- MODULE VersionedStore ---------------------------
(***************************************************************************)
(* What the nodes' local stores of SDFS may do, seen from outside the      *)
(* protocols that change them (spec sections 3 and 5): a single serial     *)
(* master stamps writes and deletes with ever newer versions; a node may   *)
(* come to hold a version only once it is finalized, and then holds the    *)
(* payload of that version or of an older finalized version of the same    *)
(* file (a transfer sends the newest bytes at or below the label, and a    *)
(* label's own bytes may be gone); a node loses a file only as a whole,    *)
(* and only while a delete of that file is running or when the node is   *)
(* not among the file's owners.  How versions travel -- FINALIZE_WRITE, replication offers,     *)
(* reservations, transfers -- is left out.                                 *)
(***************************************************************************)
EXTENDS Naturals

CONSTANTS Nodes, Files, Contents, Versions,
          Owners(_),   \* the nodes a file is placed on
          Absent, None

VARIABLES store,       \* store[n][f][v]: the payload node n holds as f@v
          written,     \* written[f][v]: the payload stamped as f@v
          stamp,       \* the newest stamp handed out
          deleting     \* the file whose delete is running, or None

vars == <<store, written, stamp, deleting>>

NoVersions == [v \in Versions |-> Absent]

Init ==
    /\ store = [n \in Nodes |-> [f \in Files |-> NoVersions]]
    /\ written = [f \in Files |-> NoVersions]
    /\ stamp = 0
    /\ deleting = None

\* A write of payload d to f gets a stamp newer than every earlier one.
StampWrite(f, d) ==
    /\ deleting = None /\ stamp + 1 \in Versions
    /\ stamp' = stamp + 1
    /\ written' = [written EXCEPT ![f][stamp + 1] = d]
    /\ UNCHANGED <<store, deleting>>

\* A delete of f gets a stamp too, and runs until EndDelete.
StampDelete(f) ==
    /\ deleting = None /\ stamp + 1 \in Versions
    /\ stamp' = stamp + 1
    /\ deleting' = f
    /\ UNCHANGED <<store, written>>

\* Node n comes to hold a finalized version v, with the payload stamped as
\* v or as an older version u of the same file.
Publish(n, f, v) ==
    /\ written[f][v] # Absent
    /\ \E u \in Versions :
          /\ u <= v /\ written[f][u] # Absent
          /\ store' = [store EXCEPT ![n][f][v] = written[f][u]]
    /\ UNCHANGED <<written, stamp, deleting>>

\* The files of F vanish from n, each being deleted or not n's to keep.
Drop(n, F) ==
    /\ \A f \in F : f = deleting \/ n \notin Owners(f)
    /\ store' = [store EXCEPT ![n] = [f \in Files |->
                                         IF f \in F THEN NoVersions ELSE @[f]]]
    /\ UNCHANGED <<written, stamp, deleting>>

\* The running delete ends, possibly dropping the file on one last node.
EndDelete ==
    /\ deleting # None
    /\ deleting' = None
    /\ \/ UNCHANGED store
       \/ \E n \in Nodes :
             store' = [store EXCEPT ![n][deleting] = NoVersions]
    /\ UNCHANGED <<written, stamp>>

Next ==
    \/ \E f \in Files, d \in Contents : StampWrite(f, d)
    \/ \E f \in Files : StampDelete(f)
    \/ \E n \in Nodes, f \in Files, v \in Versions : Publish(n, f, v)
    \/ \E n \in Nodes, F \in SUBSET Files : Drop(n, F)
    \/ EndDelete

Spec == Init /\ [][Next]_vars

=============================================================================
