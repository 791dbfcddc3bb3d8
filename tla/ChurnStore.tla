------------------------------ MODULE ChurnStore ------------------------------
(***************************************************************************)
(* ChurnLoop composed with the stores it re-replicates and the garbage     *)
(* collector that runs beside it (replica.go Replicate, ReplicaDaemon,     *)
(* GarbageCollect), for one file f whose versions are abstracted to "held" *)
(* or not.  The loop goroutine runs Replicate() inside its timer branch,   *)
(* so the loop takes no notification and no timer while a pass runs; the  *)
(* GC goroutine runs on its own GARBAGE_COLLECTION_PERIOD timer and reads  *)
(* the same MemList, so it may run between a refresh and the pass that     *)
(* follows it, or while that pass is still sending.  Ownership is          *)
(* RunPartitioner over a node's own view (module Ring).                    *)
(***************************************************************************)
EXTENDS ChurnLoop, Sequences

CONSTANTS NUM_REPLICAS,   \* config.NUM_REPLICAS
          QUORUM_SIZE,    \* config.QUORUM_SIZE
          RingId,         \* GetRingId of each member id
          FileRingId      \* GetRingId of f

VARIABLES
    has,        \* has[i]: i's store holds a version of f
    pass,       \* pass[i]: owners the running Replicate() has still to offer
    selfKnown,  \* selfKnown[i]: MemList.SelfNode has been decoded on i
    written     \* history: a put of f has been finalized

storeVars == <<has, pass, selfKnown, written>>
allVars == <<vars, storeVars>>

\* The partition of f under a member list, in ring order.
Partition(list) == RunPartitioner(list, RingId, FileRingId, NUM_REPLICAS)
Owners(list) == LET p == Partition(list) IN {p[k] : k \in DOMAIN p}

InitS ==
    /\ Init
    /\ has = [i \in Ids |-> FALSE] /\ pass = [i \in Ids |-> <<>>]
    /\ selfKnown = [i \in Ids |-> FALSE]
    /\ written = FALSE

\* What a dying process loses; a new incarnation starts from a wiped store.
ForgetStore(i) ==
    /\ has' = [has EXCEPT ![i] = FALSE]
    /\ pass' = [pass EXCEPT ![i] = <<>>]
    /\ selfKnown' = [selfKnown EXCEPT ![i] = FALSE]

-----------------------------------------------------------------------------
(* The actions of ChurnLoop, with the store variables they touch *)

StartS(i) == Start(i) /\ UNCHANGED storeVars
JoinS(i) == Join(i) /\ UNCHANGED storeVars
DetectS(i) == Detect(i) /\ UNCHANGED storeVars
CrashS(i) == Crash(i) /\ ForgetStore(i) /\ UNCHANGED written
ClientFatalS(i) ==
    ClientFatal(i) /\ ForgetStore(i) /\ UNCHANGED written

\* The loop's select is not reached while Replicate() runs.
Mp2NotifyS(i) == pass[i] = <<>> /\ Mp2Notify(i) /\ UNCHANGED storeVars

(***************************************************************************)
(* The timer branch.  A refresh that succeeds decodes SelfNode; one whose  *)
(* listself fails leaves the SelfNode of an earlier refresh.  After a      *)
(* successful refresh with a non-empty list, Replicate() snapshots the     *)
(* store (ListStoredSDFSFilesAllVersions) and walks the partition of f     *)
(* under the new list, itself included; with f not held the snapshot is   *)
(* empty and the pass ends at once.                                        *)
(***************************************************************************)
TimerFiredS(i) ==
    /\ pass[i] = <<>>
    /\ TimerFired(i)
    /\ selfKnown' = [selfKnown EXCEPT ![i] = @ \/ ~stale'[i]]
    /\ pass' = IF ~stale'[i] /\ members # {} /\ has[i]
               THEN [pass EXCEPT ![i] = Partition(members)]
               ELSE pass
    /\ UNCHANGED <<has, written>>

-----------------------------------------------------------------------------
(* Replication, garbage collection and the put *)

(***************************************************************************)
(* One owner of the pass: dial, REPLICA_QUERY_FILES, SendFileSetToReplica. *)
(* The owner's offer handler asks for every offered version it lacks,      *)
(* owner or not.  The sender opens the file when it sends: if GC removed   *)
(* it meanwhile the directory is gone and the item is skipped.  A dead     *)
(* owner fails the dial and the loop goes on.                              *)
(***************************************************************************)
ReplicateSend(i) ==
    /\ i \in up /\ pass[i] # <<>>
    /\ LET o == Head(pass[i])
       IN  has' = [has EXCEPT ![o] = @ \/ (has[i] /\ o \in up)]
    /\ pass' = [pass EXCEPT ![i] = Tail(@)]
    /\ UNCHANGED <<vars, selfKnown, written>>

\* Mutant: the ownership loop is lost; only an unknown self removes f.
GarbageCollectSelfOnly(i) ==
    /\ i \in up /\ has[i]
    /\ \/ /\ view[i] = {} /\ crashes < MaxCrashes
          /\ up' = up \ {i}
          /\ crashes' = crashes + 1
          /\ Forget(i) /\ ForgetStore(i)
          /\ UNCHANGED <<started, members, exited, written>>
       \/ /\ view[i] # {} /\ ~selfKnown[i]
          /\ has' = [has EXCEPT ![i] = FALSE]
          /\ UNCHANGED <<vars, pass, selfKnown, written>>

(***************************************************************************)
(* GarbageCollect with f on disk: self is SelfNode (empty before listself  *)
(* answered), and RunPartitioner over the node's own list.  An empty list  *)
(* gives ring.New(0) == nil and the first currRing.Value panics, killing   *)
(* the process.  Otherwise f is removed (RemoveSDFSFile with time.Now())   *)
(* unless self is one of its owners.  With f absent the loop body never    *)
(* runs and the pass changes nothing.                                      *)
(***************************************************************************)
GarbageCollect(i) ==
    /\ i \in up /\ has[i]
    /\ \/ /\ view[i] = {} /\ crashes < MaxCrashes
          /\ up' = up \ {i}
          /\ crashes' = crashes + 1
          /\ Forget(i) /\ ForgetStore(i)
          /\ UNCHANGED <<started, members, exited, written>>
       \/ /\ view[i] # {}
          /\ ~selfKnown[i] \/ i \notin Owners(view[i])
          /\ has' = [has EXCEPT ![i] = FALSE]
          /\ UNCHANGED <<vars, pass, selfKnown, written>>

(***************************************************************************)
(* A put of f issued on node i, once (PutFile, GetReplicas and the         *)
(* master's FinalizeWrite).  NewClient dials the master of i's view; that  *)
(* master selects the quorum from the partition of ITS view; uploads and   *)
(* finalizes to a dead member fail and are ignored.  A master that does    *)
(* not serve is ClientFatal.                                               *)
(***************************************************************************)
Put(i) ==
    /\ i \in up /\ view[i] # {} /\ ~written
    /\ Serving(DialedMaster(i))
    /\ \E q \in SelectQuorum(Partition(view[DialedMaster(i)]), QUORUM_SIZE) :
         has' = [n \in Ids |-> has[n] \/ n \in q \cap up]
    /\ written' = TRUE
    /\ UNCHANGED <<vars, pass, selfKnown>>

-----------------------------------------------------------------------------
NextS ==
    \E i \in Ids :
        \/ StartS(i) \/ JoinS(i) \/ CrashS(i) \/ DetectS(i)
        \/ Mp2NotifyS(i) \/ TimerFiredS(i) \/ ClientFatalS(i)
        \/ ReplicateSend(i) \/ GarbageCollect(i) \/ Put(i)

(***************************************************************************)
(* Besides ChurnLoop's fairness: a running pass moves on (each dial, send  *)
(* or failure returns), and the GC timer fires every                      *)
(* GARBAGE_COLLECTION_PERIOD.                                              *)
(***************************************************************************)
FairnessS ==
    \A i \in Ids : /\ WF_allVars(JoinS(i)) /\ WF_allVars(DetectS(i))
                   /\ WF_allVars(Mp2NotifyS(i)) /\ WF_allVars(TimerFiredS(i))
                   /\ WF_allVars(ReplicateSend(i))
                   /\ WF_allVars(GarbageCollect(i))

SpecS == InitS /\ [][NextS]_allVars /\ FairnessS

-----------------------------------------------------------------------------
(* Properties *)

(***************************************************************************)
(* FileSurvives (spec 5, scenario 5 "ownership handoff via GC"): without   *)
(* any process dying, a file once put is held by some live node: GC only   *)
(* removes a copy the new owners already have.                             *)
(***************************************************************************)
FileSurvives == written /\ crashes = 0 => \E i \in up : has[i]

(***************************************************************************)
(* GCConverges (spec 5, scenario 5, first half): once membership has       *)
(* settled, every node that is not an owner of f under the final list      *)
(* eventually stops holding it and never holds it again -- no pass still   *)
(* running from an older list sends it one.                                *)
(***************************************************************************)
GCConverges ==
    <>[]Settled => <>[](\A i \in up : has[i] => i \in Owners(members))

=============================================================================
