-------------------------------- MODULE SDFS --------------------------------
(***************************************************************************)
(* The replicated, versioned file store of mp3-sdfs: every node's local    *)
(* store (fsys/filesystem.go), the replica's connection handlers, its      *)
(* Replicate() pass and GarbageCollect() (replica.go), the master's        *)
(* FinalizeWrite / FinalizeDelete (master.go) and the client's put and     *)
(* delete (client.go).                                                     *)
(*                                                                         *)
(* Membership is fixed in this module: every node is live and every node's *)
(* membership view is the whole of Nodes, so all nodes agree on partitions *)
(* and on the master, the smallest id.  Wall clocks are one global clock:  *)
(* each time.Now() read by the master ticks it.  Node-to-node calls may    *)
(* fail (dial, read or write error) when TransportFailures is TRUE.        *)
(*                                                                         *)
(* A replica handler that runs file-system calls only (publish, remove,    *)
(* GC pass) is one step.  The steps of a replication transfer, which       *)
(* alternate between the sender's disk, the connection and the receiver's  *)
(* disk, are separate steps.                                               *)
(***************************************************************************)
EXTENDS Integers, Sequences, FiniteSets, FileVersionSet, Ring

CONSTANTS Nodes,            \* member ids of the (all live) nodes
          Files,            \* SDFS file names (never decimal integers)
          Contents,         \* payloads; a payload is named by its content hash
          Clients,          \* concurrent client commands
          NUM_REPLICAS, QUORUM_SIZE, NUM_VERSIONS,
          RingSize, NodeRingId, FileRingId,   \* GetRingId of ids and names
          Readers,          \* concurrent client gets
          READ_CONSISTENCY, \* replicas a get queries
          MaxClock,         \* bound on the master clock, so on versions
          MaxRounds,        \* bound on Replicate() passes (churn events)
          TransportFailures,\* may node-to-node calls fail?
          Absent, None      \* sentinels

ASSUME NodeRingId \in [Nodes -> 0..RingSize-1]
ASSUME FileRingId \in [Files -> 0..RingSize-1]
ASSUME TransportFailures \in BOOLEAN

Versions == 1..MaxClock

\* The master is the member with the smallest id (CurrMasterNode).
Master == CurrMasterNode(Nodes)

\* RunPartitioner over the (fixed) membership list.
Partition(f) == RunPartitioner(Nodes, NodeRingId, FileRingId[f], NUM_REPLICAS)
Owners(f)    == {Partition(f)[i] : i \in 1..Len(Partition(f))}

VARIABLES
    store,      \* store[n][f][v]: payload of storedfileDir/f/v on n, or Absent
    tmp,        \* tmp[n]: content hashes present in n's tmpfileDir
    inflight,   \* inflight[n]: <<f, v>> reserved in inProgressReplicationJobs
    clock,      \* the wall clock read by the master
    master,     \* the FinalizeWrite / FinalizeDelete in progress (master.mtx)
    client,     \* client[c]: the put or delete command c is running
    repl,       \* repl[n]: n's Replicate() pass
    sess,       \* sess[n]: the replication connection n is sending on
    written,    \* history: written[f][v] = payload the master finalized as v
    deleted,    \* history: stamp of the last FinalizeDelete of f completed
    rounds,     \* Replicate() passes started
    panicked,   \* nodes whose process died on a runtime panic
    reader      \* reader[c]: the get client c is running, and its result

vars == <<store, tmp, inflight, clock, master, client, repl, sess,
          written, deleted, rounds, panicked, reader>>

-----------------------------------------------------------------------------
(* Local store (fsys/filesystem.go) *)

NoVersions == [v \in Versions |-> Absent]

Held(n, f)   == {v \in Versions : store[n][f][v] # Absent}
HasDir(n, f) == Held(n, f) # {}

MaxOf(S) == CHOOSE x \in S : \A y \in S : y <= x

\* ListStoredSDFSFilesAllVersions: every stored file with all its versions.
ListStoredSDFSFilesAllVersions(n) ==
    [f \in {g \in Files : HasDir(n, g)} |-> Held(n, f)]

(***************************************************************************)
(* RemoveSDFSFile(f, t) on a directory holding versions `held`: returns    *)
(* the versions left and the boolean the Go function returns.  When t is   *)
(* newer than every version the directory goes (false).  Otherwise the     *)
(* code walks the directory to remove only versions <= t, but the walk's   *)
(* first entry is the directory itself, whose name (the SDFS file name)    *)
(* does not parse as an integer: the callback returns that error, the walk *)
(* stops, the error is dropped, preservedDirectory is still false, so the  *)
(* whole directory is removed and true is returned.                        *)
(***************************************************************************)
RemoveSDFSFile(held, t) ==
    IF t > MaxOf(held)
    THEN [left |-> {}, ret |-> FALSE]
    ELSE [left |-> {}, ret |-> TRUE]

\* AcquireFileHandles(1, f, upperBound): the versions of f on n that are
\* not newer than the bound; the handle opened is the newest of them.
AcquireFileHandles(n, f, upperBound) == {w \in Held(n, f) : w <= upperBound}

\* Seeded fault for NewestHandle: open exactly the version asked for.
NewestHandleExact(n, f, upperBound) == upperBound

NewestHandle(n, f, upperBound) == MaxOf(AcquireFileHandles(n, f, upperBound))

\* RegisterTmpfileToSDFS on node n: rename tmp/<hash> to stored/f/v.
Register(n, hash, f, v) ==
    /\ store' = [store EXCEPT ![n][f][v] = hash]
    /\ tmp' = [tmp EXCEPT ![n] = @ \ {hash}]

-----------------------------------------------------------------------------
(* Initial state: NewSDFSStorage wipes the root on every node. *)

NoSession == [to |-> None, want |-> {}, toSend |-> {}, wire |-> None]
IdleRepl  == [active |-> FALSE, mine |-> <<>>, files |-> {},
              targets |-> <<>>, visited |-> {}]
IdleMaster == [op |-> "idle", f |-> None, data |-> None, ts |-> 0, todo |-> {}]
IdleClient == [op |-> "idle", f |-> None, data |-> None, quorum |-> {},
               todo |-> {}, gotHash |-> FALSE]
IdleReader == [op |-> "idle", f |-> None, todo |-> {}, found |-> FALSE,
               best |-> None, bestV |-> 0, floor |-> 0,
               result |-> "none", got |-> 0, data |-> None,
               k |-> 0, pairs |-> {}, tried |-> {}, fetched |-> {}, out |-> <<>>]

Init ==
    /\ store = [n \in Nodes |-> [f \in Files |-> NoVersions]]
    /\ tmp = [n \in Nodes |-> {}]
    /\ inflight = [n \in Nodes |-> {}]
    /\ clock = 0
    /\ master = IdleMaster
    /\ client = [c \in Clients |-> IdleClient]
    /\ repl = [n \in Nodes |-> IdleRepl]
    /\ sess = [n \in Nodes |-> NoSession]
    /\ written = [f \in Files |-> NoVersions]
    /\ deleted = [f \in Files |-> 0]
    /\ rounds = 0
    /\ panicked = {}
    /\ reader = [c \in Readers |-> IdleReader]

Live(n) == n \notin panicked

-----------------------------------------------------------------------------
(* Client put (Client.PutFile) and delete (Client.DeleteFile) *)

\* GetReplicas from the master, then open the local file.
PutStart(c, f, data) ==
    /\ client[c].op = "idle" /\ Live(Master)
    /\ \E q \in SelectQuorum(Partition(f), QUORUM_SIZE) :
          client' = [client EXCEPT ![c] = [op |-> "upload", f |-> f,
                        data |-> data, quorum |-> q, todo |-> q,
                        gotHash |-> FALSE]]
    /\ UNCHANGED <<reader, store, tmp, inflight, clock, master, repl, sess,
                   written, deleted, rounds, panicked>>

(***************************************************************************)
(* SendFileToReplica to one quorum member: SEND_FILE_DATA, the replica's   *)
(* DataConnHandleCLIENTSENDFILEDATA dumps the bytes to tmp/<hash> and      *)
(* answers the hash.  A failed call gives the client no hash.             *)
(***************************************************************************)
Upload(c, r) ==
    /\ client[c].op = "upload" /\ r \in client[c].todo
    /\ \/ /\ Live(r)
          /\ tmp' = [tmp EXCEPT ![r] = @ \cup {client[c].data}]
          /\ client' = [client EXCEPT ![c].todo = @ \ {r}, ![c].gotHash = TRUE]
       \/ /\ ~Live(r)
          /\ client' = [client EXCEPT ![c].todo = @ \ {r}]
          /\ UNCHANGED tmp
       \* the call fails before or after the blob reached r's tmp directory
       \/ /\ TransportFailures /\ Live(r)
          /\ client' = [client EXCEPT ![c].todo = @ \ {r}]
          /\ tmp' \in {tmp, [tmp EXCEPT ![r] = @ \cup {client[c].data}]}
    /\ UNCHANGED <<reader, store, inflight, clock, master, repl, sess,
                   written, deleted, rounds, panicked>>

(***************************************************************************)
(* End of PutFile: with no hash it fails; otherwise FinalizeWrite on the   *)
(* master with the whole quorum, also the members whose upload failed.     *)
(* The master takes its mutex and stamps the write with time.Now().        *)
(***************************************************************************)
PutFinalize(c) ==
    /\ client[c].op = "upload" /\ client[c].todo = {}
    /\ client' = [client EXCEPT ![c] = IdleClient]
    /\ IF client[c].gotHash
       THEN /\ master.op = "idle" /\ Live(Master) /\ clock < MaxClock
            /\ clock' = clock + 1
            /\ master' = [op |-> "write", f |-> client[c].f,
                          data |-> client[c].data, ts |-> clock + 1,
                          todo |-> client[c].quorum]
            /\ written' = [written EXCEPT ![client[c].f][clock + 1] =
                                              client[c].data]
       ELSE UNCHANGED <<clock, master, written>>
    /\ UNCHANGED <<reader, store, tmp, inflight, repl, sess, deleted, rounds, panicked>>

\* DeleteFile: FinalizeDelete on the master, which stamps it and targets
\* every member of the file's partition.
DeleteStart(c, f) ==
    /\ client[c].op = "idle"
    /\ master.op = "idle" /\ Live(Master) /\ clock < MaxClock
    /\ clock' = clock + 1
    /\ master' = [op |-> "delete", f |-> f, data |-> None, ts |-> clock + 1,
                  todo |-> Owners(f)]
    /\ UNCHANGED <<reader, store, tmp, inflight, client, repl, sess, written,
                   deleted, rounds, panicked>>

-----------------------------------------------------------------------------
(* Master: the serial UnicastToReplica loop of FinalizeWrite/FinalizeDelete *)

\* DataConnHandleMASTERFINALIZEWRITE: publish tmp/<hash> as version ts;
\* BAD_REQUEST (nothing published) when the blob is not in tmp.
FinalizeWriteAt(r) ==
    IF master.data \in tmp[r]
    THEN Register(r, master.data, master.f, master.ts)
    ELSE UNCHANGED <<store, tmp>>

\* DataConnHandleMASTERFINALIZEDELETE: RemoveSDFSFile(f, ts);
\* FILE_NOT_FOUND when the directory is absent.
FinalizeDeleteAt(r) ==
    /\ IF HasDir(r, master.f)
       THEN LET res == RemoveSDFSFile(Held(r, master.f), master.ts)
            IN  store' = [store EXCEPT ![r][master.f] =
                            [v \in Versions |-> IF v \in res.left
                                                THEN @[v] ELSE Absent]]
       ELSE UNCHANGED store
    /\ UNCHANGED tmp

\* One iteration of the loop; a failed unicast is logged and skipped.
\* The RPC returns success once the loop is over.
MasterUnicast(r) ==
    /\ master.op # "idle" /\ r \in master.todo /\ Live(Master)
    /\ \/ /\ Live(r)
          /\ IF master.op = "write" THEN FinalizeWriteAt(r)
                                    ELSE FinalizeDeleteAt(r)
       \/ /\ TransportFailures \/ ~Live(r)
          /\ UNCHANGED <<reader, store, tmp>>
    /\ master' = IF master.todo = {r} THEN IdleMaster
                 ELSE [master EXCEPT !.todo = @ \ {r}]
    /\ deleted' = IF master.op = "delete" /\ master.todo = {r}
                  THEN [deleted EXCEPT ![master.f] = master.ts]
                  ELSE deleted
    /\ UNCHANGED <<reader, inflight, clock, client, repl, sess, written, rounds,
                   panicked>>

-----------------------------------------------------------------------------
(* Replica: Replicate(), SendFileSetToReplica and the offer handler *)

\* membershipUpdateLoop: after churn settles, Replicate() lists every
\* stored version once; that snapshot is offered to every owner.
ReplicateStart(n) ==
    /\ Live(n) /\ ~repl[n].active /\ rounds < MaxRounds
    /\ rounds' = rounds + 1
    /\ LET mine == ListStoredSDFSFilesAllVersions(n)
       IN  repl' = [repl EXCEPT ![n] = [active |-> TRUE, mine |-> mine,
                       files |-> DOMAIN mine, targets |-> <<>>,
                       visited |-> {}]]
    /\ UNCHANGED <<reader, store, tmp, inflight, clock, master, client, sess,
                   written, deleted, panicked>>

\* `for fileName := range myVersionSet`: next file, in map order.
ReplicateNextFile(n) ==
    /\ Live(n) /\ repl[n].active /\ repl[n].targets = <<>>
    /\ \E f \in repl[n].files :
          repl' = [repl EXCEPT ![n].files = @ \ {f},
                               ![n].targets = Partition(f)]
    /\ UNCHANGED <<reader, store, tmp, inflight, clock, master, client, sess,
                   written, deleted, rounds, panicked>>

ReplicateEnd(n) ==
    /\ Live(n) /\ repl[n].active /\ repl[n].targets = <<>>
    /\ repl[n].files = {}
    /\ repl' = [repl EXCEPT ![n] = IdleRepl]
    /\ UNCHANGED <<reader, store, tmp, inflight, clock, master, client, sess,
                   written, deleted, rounds, panicked>>

\* Seeded fault for IdentifyDesiredFiles: the reservations are not diffed.
IdentifyDesiredFilesNoDiff(r, offered) ==
    LET Fetch(f) == MergedKLatestVersions(
                        IF HasDir(r, f) THEN Held(r, f) ELSE {},
                        offered[f], NUM_VERSIONS).fetch
    IN  UNION {{<<f, v>> : v \in Fetch(f)} : f \in DOMAIN offered}

(***************************************************************************)
(* IdentifyDesiredFiles on receiver r, under inProgressReplicationJobs.mtx: *)
(* for each offered file, the versions MergedKLatestVersions says to fetch *)
(* (files with none are dropped), minus those already reserved.           *)
(***************************************************************************)
IdentifyDesiredFiles(r, offered) ==
    LET Fetch(f) == MergedKLatestVersions(
                        IF HasDir(r, f) THEN Held(r, f) ELSE {},
                        offered[f], NUM_VERSIONS).fetch
        unregistered == [f \in {g \in DOMAIN offered : Fetch(g) # {}} |->
                            Fetch(f)]
    IN  Pairs(DiffForDeletes(unregistered, AsVersionSet(inflight[r])))

(***************************************************************************)
(* The inner loop of Replicate() reaches the next owner.  An owner visited *)
(* this pass is skipped.  Otherwise n sends QUERY_CONTAINED_FILES with its *)
(* snapshot; DataConnHandleQUERYREPLICATIONOFFER on r computes the wanted  *)
(* versions, replies them and reserves them, all under r's mutex.          *)
(***************************************************************************)
Offer(n) ==
    /\ Live(n) /\ repl[n].active /\ repl[n].targets # <<>>
    /\ sess[n].to = None
    /\ LET r == Head(repl[n].targets)
       IN  \/ /\ r \in repl[n].visited
              /\ UNCHANGED <<reader, inflight, sess>>
           \/ /\ r \notin repl[n].visited /\ Live(r)
              /\ LET want == IdentifyDesiredFiles(r, repl[n].mine)
                 IN  /\ inflight' = [inflight EXCEPT ![r] = @ \cup want]
                     /\ sess' = [sess EXCEPT ![n] = [to |-> r, want |-> want,
                                     toSend |-> want, wire |-> None]]
           \* dial, send or receive error: `continue` to the next owner
           \/ /\ r \notin repl[n].visited
              /\ TransportFailures \/ ~Live(r)
              /\ UNCHANGED <<reader, inflight, sess>>
    /\ repl' = [repl EXCEPT ![n].targets = Tail(@)]
    /\ UNCHANGED <<reader, store, tmp, clock, master, client, written, deleted,
                   rounds, panicked>>

\* Seeded fault for Unreserve: the error path forgets the reservations.
UnreserveNothing(s) == UNCHANGED inflight

\* The receiver's error path: unreserve every version still pending.
Unreserve(s) ==
    inflight' = [inflight EXCEPT ![sess[s].to] = @ \ sess[s].want]

(***************************************************************************)
(* SendFileSetToReplica, one requested <<f, v>> (map order): the sender    *)
(* opens AcquireFileHandles(1, f, v), the newest version <= v it holds     *)
(* now, and writes REPLICA_SEND_FILE with version v and that file's bytes. *)
(* A missing directory is skipped (`continue`).  A directory with no       *)
(* version <= v yields an empty slice and fileHandles[0] panics, which     *)
(* kills the sender's process; the receiver then reads EOF and takes its   *)
(* error path.                                                             *)
(***************************************************************************)
SendItem(n) ==
    /\ Live(n) /\ sess[n].to # None /\ sess[n].wire = None
    /\ \E p \in sess[n].toSend :
         LET f == p[1]  v == p[2]
             older == AcquireFileHandles(n, f, v)
         IN  \/ /\ ~HasDir(n, f)
                /\ sess' = [sess EXCEPT ![n].toSend = @ \ {p}]
                /\ UNCHANGED <<reader, inflight, repl, panicked>>
             \/ /\ HasDir(n, f) /\ older = {}
                /\ panicked' = panicked \cup {n}
                /\ inflight' = [inflight EXCEPT ![sess[n].to] = @ \ sess[n].want,
                                                 ![n] = {}]
                /\ sess' = [sess EXCEPT ![n] = NoSession]
                /\ repl' = [repl EXCEPT ![n] = IdleRepl]
             \/ /\ older # {}
                /\ sess' = [sess EXCEPT ![n].toSend = @ \ {p},
                              ![n].wire = [f |-> f, v |-> v,
                                           data |-> store[n][f][NewestHandle(n, f, v)]]]
                /\ UNCHANGED <<reader, inflight, repl, panicked>>
    /\ UNCHANGED <<reader, store, tmp, clock, master, client, written, deleted, rounds>>

\* Seeded fault for Release: the reservation of a delivered version stays.
ReleaseNothing(r, p) == UNCHANGED inflight

\* After publishing, delete(inProgressReplicationJobs[f], v) under the lock.
Release(r, p) == inflight' = [inflight EXCEPT ![r] = @ \ {p}]

(***************************************************************************)
(* The receiver's loop body: ACK, DumpBytesToTmpfile (tmp/<hash>), then    *)
(* RegisterTmpfileToSDFS under the version the sender named, then the      *)
(* reservation of that version is released under the mutex.               *)
(***************************************************************************)
RecvItem(n) ==
    /\ sess[n].wire # None
    /\ LET r == sess[n].to  w == sess[n].wire
       IN  /\ Live(r)
           /\ store' = [store EXCEPT ![r][w.f][w.v] = w.data]
           /\ tmp' = [tmp EXCEPT ![r] = @ \ {w.data}]
           /\ Release(r, <<w.f, w.v>>)
           /\ sess' = [sess EXCEPT ![n].want = @ \ {<<w.f, w.v>>},
                                   ![n].wire = None]
    /\ UNCHANGED <<reader, clock, master, client, repl, written, deleted, rounds,
                   panicked>>

(***************************************************************************)
(* SendFileSetToReplica returns nil: n marks r visited and closes the      *)
(* connection.  If it skipped some version, r is still waiting for a       *)
(* header, reads EOF and unreserves what is left.                          *)
(***************************************************************************)
SessionEnd(n) ==
    /\ Live(n) /\ sess[n].to # None /\ sess[n].wire = None
    /\ sess[n].toSend = {}
    /\ Unreserve(n)
    /\ repl' = [repl EXCEPT ![n].visited = @ \cup {sess[n].to}]
    /\ sess' = [sess EXCEPT ![n] = NoSession]
    /\ UNCHANGED <<reader, store, tmp, clock, master, client, written, deleted,
                   rounds, panicked>>

\* The connection breaks: the receiver unreserves what is pending and the
\* sender moves on without marking r visited.
SessionFail(n) ==
    /\ TransportFailures /\ Live(n) /\ sess[n].to # None
    /\ Unreserve(n)
    /\ sess' = [sess EXCEPT ![n] = NoSession]
    /\ UNCHANGED <<reader, store, tmp, clock, master, client, repl, written,
                   deleted, rounds, panicked>>

\* The receiver's process has died: the sender's next write or read on the
\* connection fails and SendFileSetToReplica returns the error.
PeerDied(n) ==
    /\ Live(n) /\ sess[n].to # None /\ ~Live(sess[n].to)
    /\ sess' = [sess EXCEPT ![n] = NoSession]
    /\ UNCHANGED <<reader, store, tmp, inflight, clock, master, client, repl,
                   written, deleted, rounds, panicked, reader>>

-----------------------------------------------------------------------------
(* Client get (Client.GetFile) and the replica's read handlers *)

\* History: the newest stamp of f whose FinalizeWrite has returned.  The
\* master's loop is serial, so that is every finalized version of f but the
\* one it is still unicasting.
Committed(f) ==
    LET done == {v \in Versions : /\ written[f][v] # Absent
                                  /\ ~(master.op = "write" /\ master.f = f
                                        /\ master.ts = v)}
    IN  IF done = {} THEN 0 ELSE MaxOf(done)

\* `replicas = replicas[:READ_CONSISTENCY]` on the shuffled quorum: any
\* READ_CONSISTENCY of its members, or all of them when there are fewer.
ReadTargets(q) ==
    {t \in SUBSET q : Cardinality(t) = IF Cardinality(q) > READ_CONSISTENCY
                                       THEN READ_CONSISTENCY
                                       ELSE Cardinality(q)}

\* GetFile: GetReplicas (a quorum of the partition, shuffled), truncated.
GetStart(c, f) ==
    /\ reader[c].op = "idle" /\ Live(Master)
    /\ \E q \in SelectQuorum(Partition(f), QUORUM_SIZE) :
         \E t \in ReadTargets(q) :
           reader' = [reader EXCEPT ![c] = [IdleReader EXCEPT
                         !.op = "query", !.f = f, !.todo = t,
                         !.floor = Committed(f)]]
    /\ UNCHANGED <<store, tmp, inflight, clock, master, client, repl, sess,
                   written, deleted, rounds, panicked>>

\* `if replicaVersion.After(latestVersion)`: keep the replica reporting the
\* newest version; latestVersion starts at Unix(0, 0) and the replica at
\* its zero value.
Latest(rd, r, v) ==
    IF v > rd.bestV THEN [rd EXCEPT !.best = r, !.bestV = v] ELSE rd

(***************************************************************************)
(* DataConnHandleCLIENTREQFILEMETADATA on r: the newest version of f it    *)
(* holds (AcquireFileHandles(1, f, time.Now()); the replica's clock is     *)
(* past every stamp), or FILE_NOT_FOUND when the directory is absent.      *)
(***************************************************************************)
FileMetadata(r, f) ==
    IF HasDir(r, f)
    THEN [code |-> "OK", version |-> NewestHandle(r, f, clock)]
    ELSE [code |-> "FILE_NOT_FOUND", version |-> 0]

(***************************************************************************)
(* DataConnHandleCLIENTREQFILEDATA on r: the newest version of f not newer *)
(* than the bound and its bytes, or FILE_NOT_FOUND when there is none.     *)
(***************************************************************************)
FileData(r, f, bound) ==
    IF AcquireFileHandles(r, f, bound) = {}
    THEN [code |-> "FILE_NOT_FOUND", version |-> 0, data |-> None]
    ELSE LET w == NewestHandle(r, f, bound)
         IN  [code |-> "OK", version |-> w, data |-> store[r][f][w]]

\* After the last replica: no successful answer returns os.ErrNotExist.
QueryDone(rd) ==
    IF rd.todo = {} /\ ~rd.found
    THEN [IdleReader EXCEPT !.op = "done", !.f = rd.f, !.floor = rd.floor,
                            !.result = "notexist"]
    ELSE rd

(***************************************************************************)
(* QueryReplicaForLatestVersion(r): CLIENT_REQ_FILE_METADATA.  A non-OK    *)
(* code is an error of RecvTCPChannelResponse, as is a dial or send        *)
(* failure; GetFile skips a replica whose call errs.                       *)
(***************************************************************************)
QueryReplica(c, r) ==
    /\ reader[c].op = "query" /\ r \in reader[c].todo
    /\ LET rd == [reader[c] EXCEPT !.todo = @ \ {r}]
           resp == FileMetadata(r, reader[c].f)
       IN  \/ /\ Live(r) /\ resp.code = "OK"
              /\ reader' = [reader EXCEPT ![c] =
                               Latest([rd EXCEPT !.found = TRUE], r, resp.version)]
           \/ /\ Live(r) /\ resp.code # "OK"
              /\ reader' = [reader EXCEPT ![c] = QueryDone(rd)]
           \/ /\ TransportFailures \/ ~Live(r)
              /\ reader' = [reader EXCEPT ![c] = QueryDone(rd)]
    /\ UNCHANGED <<store, tmp, inflight, clock, master, client, repl, sess,
                   written, deleted, rounds, panicked>>

(***************************************************************************)
(* The rest of GetFile: ReceiveFileFromReplica from the chosen replica     *)
(* with UpperVersionBound time.Now() -- not the version it reported -- so  *)
(* it gets whatever is newest there now, or FILE_NOT_FOUND (an error) when *)
(* the file went meanwhile.  A zero-value replica has no address and the   *)
(* dial fails.                                                             *)
(***************************************************************************)
GetFetch(c) ==
    /\ reader[c].op = "query" /\ reader[c].todo = {} /\ reader[c].found
    /\ LET rd == reader[c]  r == rd.best
           Return(result, got, data) ==
               reader' = [reader EXCEPT ![c] = [IdleReader EXCEPT
                             !.op = "done", !.f = rd.f, !.floor = rd.floor,
                             !.result = result, !.got = got, !.data = data]]
       IN  \/ /\ r # None /\ Live(r)
              /\ LET resp == FileData(r, rd.f, clock)
                 IN  IF resp.code = "OK"
                     THEN Return("ok", resp.version, resp.data)
                     ELSE Return("error", 0, None)
           \/ /\ r = None \/ ~Live(r) \/ TransportFailures
              /\ Return("error", 0, None)
    /\ UNCHANGED <<store, tmp, inflight, clock, master, client, repl, sess,
                   written, deleted, rounds, panicked>>

-----------------------------------------------------------------------------
(* Client getversions (Client.GetVersions) *)

\* DataConnHandleCLIENTREQKVERSIONS on r: the k newest versions of f it
\* holds (all are older than the replica's time.Now()), or FILE_NOT_FOUND.
KVersionsResp(r, f, k) ==
    LET hs == AcquireFileHandles(r, f, clock)
    IN  IF hs = {}
        THEN [code |-> "FILE_NOT_FOUND", versions |-> {}]
        ELSE [code |-> "OK",
              versions |-> {v \in hs : Cardinality({w \in hs : w > v}) < k}]

\* GetVersions: GetReplicasNonQuorum, the whole partition in ring order;
\* k is the command's NumVersions argument.
VersionsStart(c, f) ==
    /\ reader[c].op = "idle" /\ Live(Master)
    /\ \E k \in 1..NUM_VERSIONS :
          reader' = [reader EXCEPT ![c] = [IdleReader EXCEPT !.op = "versions",
                        !.f = f, !.todo = Owners(f), !.k = k]]
    /\ UNCHANGED <<store, tmp, inflight, clock, master, client, repl, sess,
                   written, deleted, rounds, panicked>>

\* After the last replica the pairs are sorted newest first.
VersionsQueried(rd) ==
    IF rd.todo = {} THEN [rd EXCEPT !.op = "vfetch"] ELSE rd

(***************************************************************************)
(* UnicastToReplica(CLIENT_REQ_KVERSIONS) to each member: the versions an  *)
(* OK reply lists become <<replica, version>> pairs; an error `continue`s. *)
(***************************************************************************)
VersionsQuery(c, r) ==
    /\ reader[c].op = "versions" /\ r \in reader[c].todo
    /\ LET rd == [reader[c] EXCEPT !.todo = @ \ {r}]
           resp == KVersionsResp(r, reader[c].f, reader[c].k)
       IN  \/ /\ Live(r) /\ resp.code = "OK"
              /\ reader' = [reader EXCEPT ![c] = VersionsQueried(
                     [rd EXCEPT !.pairs = @ \cup {<<r, v>> : v \in resp.versions}])]
           \/ /\ Live(r) /\ resp.code # "OK"
              /\ reader' = [reader EXCEPT ![c] = VersionsQueried(rd)]
           \/ /\ TransportFailures \/ ~Live(r)
              /\ reader' = [reader EXCEPT ![c] = VersionsQueried(rd)]
    /\ UNCHANGED <<store, tmp, inflight, clock, master, client, repl, sess,
                   written, deleted, rounds, panicked>>

\* sort.Slice(replicaVersionPairs, a.After(b)): the pairs that can come
\* next are those holding the newest version left.
NextPairs(rest) == {p \in rest : \A q \in rest : q[2] <= p[2]}

(***************************************************************************)
(* One iteration of the loop over the sorted pairs: the next pair holds    *)
(* the newest version left (sort.Slice orders pairs of equal version       *)
(* arbitrarily).  A version already fetched is skipped.  Otherwise         *)
(* ReceiveFileFromReplica with that version as UpperVersionBound writes    *)
(* <local>-version-<ver>; on success the version is marked fetched, ver    *)
(* counts up and the loop stops at NumVersions files; an error continues.  *)
(***************************************************************************)
VersionsFetch(c) ==
    /\ reader[c].op = "vfetch"
    /\ LET rd == reader[c]  rest == rd.pairs \ rd.tried
       IN  /\ rest # {}
           /\ \E p \in NextPairs(rest) :
                LET r == p[1]  v == p[2]  resp == FileData(r, rd.f, v)
                    tried == [rd EXCEPT !.tried = @ \cup {p}]
                IN  \/ /\ v \in rd.fetched
                       /\ reader' = [reader EXCEPT ![c] = tried]
                    \/ /\ v \notin rd.fetched /\ Live(r) /\ resp.code = "OK"
                       /\ LET out == Append(rd.out, <<v, resp.version>>)
                          IN  reader' = [reader EXCEPT ![c] =
                                [tried EXCEPT !.fetched = @ \cup {v}, !.out = out,
                                   !.op = IF Len(out) = rd.k THEN "done" ELSE @]]
                    \/ /\ v \notin rd.fetched
                       /\ \/ Live(r) /\ resp.code # "OK"
                          \/ TransportFailures \/ ~Live(r)
                       /\ reader' = [reader EXCEPT ![c] = tried]
    /\ UNCHANGED <<store, tmp, inflight, clock, master, client, repl, sess,
                   written, deleted, rounds, panicked>>

\* The loop ran out of pairs before NumVersions files were written.
VersionsEnd(c) ==
    /\ reader[c].op = "vfetch" /\ reader[c].pairs \subseteq reader[c].tried
    /\ reader' = [reader EXCEPT ![c].op = "done"]
    /\ UNCHANGED <<store, tmp, inflight, clock, master, client, repl, sess,
                   written, deleted, rounds, panicked>>

-----------------------------------------------------------------------------
(* Replica daemon: GarbageCollect() *)

(***************************************************************************)
(* Every GARBAGE_COLLECTION_PERIOD, under the replication mutex, remove    *)
(* each stored file this node does not own, with time.Now() as the delete  *)
(* time.  That time is after every version the master has stamped, so      *)
(* RemoveSDFSFile takes its first branch and returns false and the pass    *)
(* never stops early.  A pass holds the mutex that offers need, so it is   *)
(* one step with respect to them.                                          *)
(***************************************************************************)
\* Seeded fault for GarbageCollect: the ownership test is inverted.
GarbageCollectOwned(n) ==
    /\ Live(n)
    /\ store' = [store EXCEPT ![n] =
                   [f \in Files |-> IF n \notin Owners(f) THEN @[f]
                                    ELSE NoVersions]]
    /\ UNCHANGED <<reader, tmp, inflight, clock, master, client, repl, sess,
                   written, deleted, rounds, panicked>>

GarbageCollect(n) ==
    /\ Live(n)
    /\ store' = [store EXCEPT ![n] =
                   [f \in Files |-> IF n \in Owners(f) THEN @[f]
                                    ELSE NoVersions]]
    /\ UNCHANGED <<reader, tmp, inflight, clock, master, client, repl, sess,
                   written, deleted, rounds, panicked, reader>>

-----------------------------------------------------------------------------
Next ==
    \/ \E c \in Clients :
          \/ \E f \in Files, d \in Contents : PutStart(c, f, d)
          \/ \E r \in Nodes : Upload(c, r)
          \/ PutFinalize(c)
          \/ \E f \in Files : DeleteStart(c, f)
    \/ \E c \in Readers :
          \/ \E f \in Files : GetStart(c, f)
          \/ \E r \in Nodes : QueryReplica(c, r)
          \/ GetFetch(c)
          \/ \E f \in Files : VersionsStart(c, f)
          \/ \E r \in Nodes : VersionsQuery(c, r)
          \/ VersionsFetch(c) \/ VersionsEnd(c)
    \/ \E r \in Nodes : MasterUnicast(r)
    \/ \E n \in Nodes :
          \/ ReplicateStart(n) \/ ReplicateNextFile(n) \/ ReplicateEnd(n)
          \/ Offer(n) \/ SendItem(n) \/ RecvItem(n)
          \/ SessionEnd(n) \/ SessionFail(n) \/ PeerDied(n)
          \/ GarbageCollect(n)

(***************************************************************************)
(* Goroutines that have work make progress and a blocking call returns or  *)
(* fails: weak fairness on every step of a pass, a transfer and the        *)
(* master's loop.  Client commands, churn and failures are not fair.       *)
(***************************************************************************)
Fairness ==
    /\ \A n \in Nodes :
          /\ WF_vars(ReplicateNextFile(n)) /\ WF_vars(ReplicateEnd(n))
          /\ WF_vars(Offer(n)) /\ WF_vars(SendItem(n))
          /\ WF_vars(RecvItem(n)) /\ WF_vars(SessionEnd(n))
          /\ WF_vars(PeerDied(n))
    /\ \A r \in Nodes : WF_vars(MasterUnicast(r))

Spec == Init /\ [][Next]_vars /\ Fairness

-----------------------------------------------------------------------------
(* Properties *)

Item == [f : Files, v : Versions, data : Contents]

TypeOK ==
    /\ store \in [Nodes -> [Files -> [Versions -> Contents \cup {Absent}]]]
    /\ tmp \in [Nodes -> SUBSET Contents]
    /\ inflight \in [Nodes -> SUBSET (Files \X Versions)]
    /\ clock \in 0..MaxClock
    /\ master.op \in {"idle", "write", "delete"} /\ master.todo \subseteq Nodes
    /\ \A n \in Nodes :
          /\ sess[n].to \in Nodes \cup {None}
          /\ sess[n].want \cup sess[n].toSend \subseteq Files \X Versions
          /\ sess[n].wire \in Item \cup {None}
    /\ written \in [Files -> [Versions -> Contents \cup {Absent}]]
    /\ deleted \in [Files -> 0..MaxClock]
    /\ rounds \in 0..MaxRounds /\ panicked \subseteq Nodes
    /\ \A c \in Readers :
          /\ reader[c].op \in {"idle", "query", "versions", "vfetch", "done"}
          /\ reader[c].todo \subseteq Nodes
          /\ reader[c].best \in Nodes \cup {None}
          /\ reader[c].result \in {"none", "ok", "notexist", "error"}
          /\ reader[c].got \in 0..MaxClock
          /\ reader[c].data \in Contents \cup {None}
          /\ reader[c].pairs \cup reader[c].tried \subseteq Nodes \X Versions
          /\ reader[c].fetched \subseteq Versions
          /\ reader[c].out \in Seq(Versions \X Versions)

(***************************************************************************)
(* ReservationsMatchTransfers (I4): a node's inProgressReplicationJobs     *)
(* holds exactly the versions that some open offer connection into it is   *)
(* still to deliver.  A reservation that outlives its connection would     *)
(* make every later offer of that version be refused, for ever.  (A dead   *)
(* process's map is gone with it.)                                         *)
(***************************************************************************)
ReservationsMatchTransfers ==
    \A r \in Nodes \ panicked :
        inflight[r] = UNION {sess[s].want : s \in {t \in Nodes : sess[t].to = r}}

(***************************************************************************)
(* NoDuplicateFetch (P7): two offer connections into the same node never   *)
(* both fetch the same version of the same file.                           *)
(***************************************************************************)
NoDuplicateFetch ==
    \A s1, s2 \in Nodes :
        (s1 # s2 /\ sess[s1].to # None /\ sess[s1].to = sess[s2].to)
            => sess[s1].want \cap sess[s2].want = {}

(***************************************************************************)
(* ContentIntegrity: a stored version of a file holds the payload the      *)
(* master finalized under that version, whichever way it reached the      *)
(* node (FINALIZE_WRITE or a replication transfer).                        *)
(***************************************************************************)
ContentIntegrity ==
    \A n \in Nodes, f \in Files, v \in Versions :
        store[n][f][v] # Absent => store[n][f][v] = written[f][v]

(***************************************************************************)
(* DeleteIsFinal (spec 8, scenario 4): once FinalizeDelete(f) stamped t    *)
(* has returned, no owner of f holds a version of f stamped before t, so a *)
(* get of f does not see the deleted content again.                        *)
(***************************************************************************)
DeleteIsFinal ==
    \A f \in Files : \A n \in Owners(f), v \in Versions :
        store[n][f][v] # Absent => v > deleted[f]

(***************************************************************************)
(* NoPanic: no replica process dies of a runtime panic.                    *)
(***************************************************************************)
NoPanic == panicked = {}

(***************************************************************************)
(* ReservationsReleased: every reservation is eventually released, so a    *)
(* version refused because it was in flight can be offered again.          *)
(***************************************************************************)
ReservationsReleased ==
    \A r \in Nodes, f \in Files, v \in Versions :
        (<<f, v>> \in inflight[r]) ~> (<<f, v>> \notin inflight[r])

(***************************************************************************)
(* ReadYourWrites (spec 2 and scenario 3): a GetFile started after a       *)
(* FinalizeWrite of f returned, that does not fail, returns that version   *)
(* or a newer one -- unless a delete of f was stamped after it.  It rests  *)
(* on the read replicas (READ_CONSISTENCY of a quorum) meeting the write   *)
(* quorum, on FINALIZE_WRITE reaching it, and on the choice of the newest  *)
(* reporting replica.                                                      *)
(***************************************************************************)
DeletedSince(f, t) ==
    deleted[f] > t \/ (master.op = "delete" /\ master.f = f)

ReadYourWrites ==
    \A c \in Readers :
        LET rd == reader[c]
        IN  (/\ rd.op = "done" /\ rd.result # "error" /\ rd.floor > 0
             /\ ~DeletedSince(rd.f, rd.floor))
              => rd.result = "ok" /\ rd.got >= rd.floor

-----------------------------------------------------------------------------
(* Refinement of VersionedStore *)

\* The master's running FinalizeDelete is the abstract running delete.
AbsDeleting == IF master.op = "delete" THEN master.f ELSE None

VS == INSTANCE VersionedStore WITH stamp <- clock, deleting <- AbsDeleting

(***************************************************************************)
(* VersionedStoreRefined: SDFS implements VersionedStore under the mapping *)
(* above.  Every step that changes a node's store is a publish of a        *)
(* finalized version with its payload (FINALIZE_WRITE, or a replication    *)
(* transfer registering the bytes the sender read under the label it       *)
(* named) or a whole-file drop by the running FinalizeDelete or by GC on   *)
(* a non-owner; stamps come from the one master, which is serial.          *)
(***************************************************************************)
VersionedStoreRefined == VS!Spec

=============================================================================
