# TLA+ models of simple-distributed-fs (mp3-sdfs)

These modules model the replicated, versioned file store in `src/mp3-sdfs`.
They are checked with TLC. `PROJECT.json` holds the same information in
machine-readable form: components, runs, seeded faults, the map from each
definition to source lines, findings and hazards.

## The system

| Part | Source | Role |
|---|---|---|
| Local store | `fsys/filesystem.go` | `storedfileDir/<file>/<version ns>` files and `tmpfileDir/<sha256>` blobs. Dump, register (rename), remove, list, open the k newest versions ≤ a bound. Pure helpers `MergedKLatestVersions` and `DiffForDeletes`. |
| Replica | `replica.go` | A TCP handler per request. `Replicate()`: offer every local version to each owner and send what it asks for. `GarbageCollect()`: remove files this node does not own. An in-memory `inProgressReplicationJobs` map, under a mutex, reserves versions being fetched. |
| Master | `master.go` | Runs on the member with the smallest id. `FinalizeWrite` and `FinalizeDelete` take `m.mtx`, stamp `time.Now()` and unicast serially to the quorum or partition. Failures are ignored. |
| Partitioner | `schema/node.go` | Consistent hashing. The owners of a file are the first `NUM_REPLICAS` members clockwise from the file's ring point. |
| Client | `client.go` | `PutFile`: GetReplicas → upload to each quorum member → FinalizeWrite. `DeleteFile`. Also GetFile, GetVersions and Ls. |
| Churn loop | `api/api.go`, `master.go`, `main/main.go` | mp2 (outside the repository) notifies every member of each join or detected failure. A notification re-arms a `CHURN_TIMEOUT_MS` timer. When it fires: `GetMembershipChanges` (listmem, listself), `MembershipListChanged` (run or stop the master gRPC server), `Replicate()`. |

How the parts interact:
- A put stores the bytes as a tmp blob on each quorum member.
- Only the master's FINALIZE_WRITE publishes a blob as a version.
- A delete removes the file on every owner.
- Replication moves versions between owners outside both of these, on its
  own connections. It runs concurrently with them.

## Modules

| Module | Models | Kind |
|---|---|---|
| `FileVersionSet` | `MergedKLatestVersions`, `DiffForDeletes`, and the map ↔ pair-set conversion | pure operators |
| `Ring` | `RunPartitioner`, `CurrMasterNode`, `selectQuorum` | pure operators |
| `MCOperators` | exhaustive check of both operator modules against reference definitions. Each initial state is one input. | MC module |
| `VersionedStore` | what the local stores may do, seen from outside the protocols: serial stamps, a label names a finalized version and holds its bytes or those of an older finalized version of the file, lose a file only while it is deleted or where it is not owned | abstract specification |
| `SDFS` | the cluster: local stores, puts, deletes, the master's finalize loops, replication passes and transfers, GC, and the client's get and get-versions. It refines `VersionedStore`. | state machine |
| `MCSDFS` | model values and ring maps for SDFS | MC module |
| `ChurnLoop` | process incarnations, mp2's list, each node's churn loop and view, the master switch, and a client's dial of its view's master | state machine |
| `MCChurnLoop` | three incarnations for ChurnLoop | MC module |
| `ChurnStore` | ChurnLoop composed (EXTENDS, each action wrapped) with one file's copies, the `Replicate()` pass per owner, the GC daemon and a put | state machine |
| `MCChurnStore` | two and three incarnations on a ring for ChurnStore | MC module |

### SDFS: state

| Variable | Code |
|---|---|
| `store[n][f][v]` | `storedfileDir/f/v` on node n, its payload named by content hash |
| `tmp[n]` | `tmpfileDir` |
| `inflight[n]` | `inProgressReplicationJobs` |
| `master` | the `FinalizeWrite` / `FinalizeDelete` call holding `m.mtx`, with the targets still to unicast |
| `client[c]` | a running `PutFile` |
| `reader[c]` | a running `GetFile` or `GetVersions`: the replicas still to query, the best reply so far, the (version, fetched-version) pairs written, and the result |
| `repl[n]` | the state of `Replicate()`: snapshot `mine`, files left, owners left for the current file, `visitedReplicas` |
| `sess[n]` | the open replication connection: the requested set, what is still to send, the item on the wire |
| `panicked` | nodes whose process died on a runtime panic |
| `clock` | the wall clock, ticked by each master `time.Now()` |
| `written`, `deleted` | history variables: the payload finalized per version, and the stamp of the last completed delete |

### SDFS: actions

Each action corresponds to a code path; the line numbers are in `PROJECT.json`.

| Action | Code |
|---|---|
| `PutStart` | `PutFile` / `GetReplicas` / `selectQuorum` |
| `Upload` | `SendFileToReplica` and `DataConnHandleCLIENTSENDFILEDATA`. The blob may reach tmp even when the call fails. |
| `PutFinalize` | the end of `PutFile` plus the stamp taken by `FinalizeWrite` |
| `DeleteStart` | `DeleteFile` plus the stamp taken by `FinalizeDelete` |
| `MasterUnicast` | one iteration of the finalize loop: `FinalizeWriteAt` / `FinalizeDeleteAt` (the two handlers) or a failed unicast |
| `ReplicateStart`, `ReplicateNextFile`, `ReplicateEnd` | the outer loop of `Replicate()` |
| `Offer` | one owner of the inner loop: the visited skip, a dial/send/receive failure, or a successful QUERY with `IdentifyDesiredFiles` plus the reservation, atomic under the mutex |
| `SendItem` | one version of `SendFileSetToReplica`: skip when there is no directory, panic at `fileHandles[0]`, or send the newest version ≤ v labelled v |
| `RecvItem` | the receiver loop body: dump, register, `Release` |
| `SessionEnd` | the sender finished. The receiver unreserves what was skipped (EOF path). |
| `SessionFail` | the connection broke. Both ends take their error paths. |
| `PeerDied` | the receiver's process is dead |
| `GarbageCollect` | one GC pass under the replication mutex |
| `GetStart` | `GetFile`: `GetReplicas`, then the random quorum cut to `READ_CONSISTENCY` |
| `QueryReplica` | `QueryReplicaForLatestVersion` against `CLIENT_REQ_FILE_METADATA` (`FileMetadata`). An error or FILE_NOT_FOUND is skipped. |
| `GetFetch` | `ReceiveFileFromReplica` with bound `time.Now()` against `CLIENT_REQ_FILE_DATA` (`FileData`), or `ErrNotExist` when no query succeeded |
| `VersionsStart`, `VersionsQuery` | `GetVersions`: `GetReplicasNonQuorum`, and KVERSIONS to each member (`KVersionsResp`) |
| `VersionsFetch`, `VersionsEnd` | the loop over the pairs, newest first: skip a fetched version, fetch with the pair's version as bound, stop at k files |

`RemoveSDFSFile` is modelled with both of its branches. The second branch's
walk stops at the directory itself, because the directory name is not a
number, so it also removes the whole directory.

### ChurnLoop: state and actions

A process that starts wipes its store and joins under a new member id, so
`Ids` are process incarnations, ordered as their member-id strings; a restart
is a new id.

| Variable | Code |
|---|---|
| `started`, `up` | incarnations started, and still running |
| `members` | mp2's member list |
| `notify[i]` | an `/mp3/mp2notify` request blocked on `mp2chan` |
| `armed[i]` | the loop's timer `t` is running |
| `view[i]` | `MemList.List` |
| `active[i]` | `MasterGRPCService.isActive` (server running) |
| `replicated[i]` | the list of i's last `Replicate()` |
| `crashes`, `exited`, `stale` | bound on deaths; history: processes ended by `Fatal`, and nodes whose last refresh failed |

| Action | Code |
|---|---|
| `Start` | `main`: storage wiped, `RunAPI` starts the loop with its first timer armed |
| `Join` | `sendJoin`; mp2 adds the node and notifies every live member |
| `Crash`, `Detect` | a process dies; mp2 detects it and notifies (environment) |
| `Mp2Notify` | `case <-mp2chan: t = time.NewTimer(dur)` |
| `TimerFired` | `case <-t.C`, the whole branch: listmem fails (nothing changes), listself fails (list updated, self not), or both succeed, then `MembershipListChanged` and `Replicate()`. A failure `continue`s with the timer stopped. |
| `ClientFatal` | a put, get, ls or getversions on i: `NewClient` dials `CurrMasterNode(view[i])`, `GetReplicas` cannot open the stream and calls `NodeLogger.Fatal` |

### ChurnStore: the composition

`ChurnStore` EXTENDS `ChurnLoop` and adds, for one file f (its versions
abstracted to held or not):

| Variable | Code |
|---|---|
| `has[i]` | `storedfileDir/f` exists on i |
| `pass[i]` | the owners a running `Replicate()` has still to offer, in partition order |
| `selfKnown[i]` | `MemList.SelfNode` decoded by a successful listself |
| `written` | history: the put has been finalized |

Each `ChurnLoop` action is wrapped (`StartS`, `TimerFiredS`, ...). A death
also loses the store and the pass. `TimerFiredS` and `Mp2NotifyS` wait
while a pass runs, because `Replicate()` runs inside the loop's timer
branch. A successful refresh starts the pass, which snapshots the store
and takes the partition under the new list. The new actions:

| Action | Code |
|---|---|
| `ReplicateSend` | one owner of the pass: the owner asks for f if it lacks it, and the sender sends it if f is still on disk; a dead owner fails the dial |
| `GarbageCollect` | the GC daemon with f on disk. An empty view panics in `RunPartitioner` (`ring.New(0)` is nil) and kills the process. Otherwise f is removed unless `SelfNode` is known and is an owner under the node's own view. |
| `Put` | `PutFile` on i: the master of i's view picks the quorum from the partition under ITS view; dead members are skipped |

## Runs

| Run | Expect | What it shows |
|---|---|---|
| `fvs` | pass | NewestSurvives over every pair of subsets of 1..5 and every k in 1..3. DiffIsDifference for every pair of version maps over two files and two versions. Each initial state is one input. |
| `fvs` (same run) | | PartitionIsClockwiseSuccessors for every non-empty membership of 4 nodes and all 8 file points |
| `sdfs_two_files` | pass | ReservationsMatchTransfers with two files whose partitions differ. Covers non-owner fetches, GC and visited owners. 3 nodes, versions ≤ 3, one pass per node. Two payloads, with symmetry over them. Also VersionedStoreRefined: SDFS implements `VersionedStore`. |
| `sdfs_panic` | pass | TypeOK and ReservationsMatchTransfers on 2 nodes with a quorum of 2, versions ≤ 3 and two passes. A sender may panic and a receiver may die mid-transfer. |
| `sdfs_reserve` | pass | NoDuplicateFetch (spec P7). Two nodes offer the same version to a third concurrently. Also ReservationsReleased: every reservation is eventually released. |
| `sdfs_faults` | pass | ReservationsMatchTransfers when any node-to-node call may fail. |
| `sdfs_read_race` | **violation** | ReadYourWrites with two writes of the same bytes. They share `tmp/<sha256>`. The first FINALIZE_WRITE renames the blob away, the second is refused by every replica and still reported done, and the get returns version 1 after version 2 was put. |
| `sdfs_delete` | **violation** | DeleteIsFinal. A version on the wire when the delete reaches the receiver is published after the delete returned. |
| `sdfs_nopanic` | **violation** | NoPanic. Put, then delete and rewrite while a pass offers its old snapshot: the sender panics at `replica.go:593`. |
| `sdfs_content` | **violation** | ContentIntegrity. A resurrected older version is sent under the label of a newer version that was deleted. |
| `churn_stall` | **violation** | Settles. A failed refresh is never retried (`api.go:171-173`): the node keeps a stale list or master role and does not replicate until mp2 reports another change. |
| `handoff` | pass | On `ChurnStore` with 2 incarnations, 1 replica, one death and failing listmem/listself. SettlesOnceRefreshesSucceed: once refreshes stop failing, all live nodes are joined, hold mp2's list, exactly the smallest id serves as master, and each has replicated under the final list. GCConverges: after settling, every non-owner eventually drops f for good. Every action fires, including the GC panic on an empty view. |
| `handoff_loss` | **violation** | FileSurvives, with no process death, 3 incarnations, `NUM_REPLICAS` 2 and `QUORUM_SIZE` 2. Node 1 alone holds f. Nodes 2 and 3 join and become its owners. Node 1 refreshes and its pass is about to offer f to 2 and 3, but its GC runs first (`replica.go:778`) and deletes the only copy. |

Every property of a passing run has a seeded fault (`PROJECT.json`
"mutants"). It is an operator defined just before the one it replaces,
named `...NoDiff`, `...Nothing`, `...Exact`, `...Strict`, `...OffByOne`,
`...Reversed`, `...Owned`, `...SelfOnly` or `...NoRearm`, and it models a plausible slip in the
code. TLC finds the property violated when the fault replaces the original.

## Refinement

`SDFS` instantiates `VersionedStore` with every variable of the same name,
`stamp <- clock`, and `deleting <-` the file of a running `FinalizeDelete`.
Each SDFS step is a `VersionedStore` step or a stutter:
- `PutFinalize` and `DeleteStart` are `StampWrite` and `StampDelete`.
- `FinalizeWriteAt` and `RecvItem` are `Publish`.
- GC and `FinalizeDeleteAt` are `Drop`.
- The last unicast of a delete is `EndDelete`.

The mapping needs no history beyond `written`. `Publish` allows a label
to hold the bytes of an older finalized version of the same file, because
`SendFileSetToReplica` sends the newest version at or below the label
(`replica.go:586`). A stricter `Publish`, with the label's own bytes, is
`ContentIntegrity`, and `sdfs_content` shows the code breaks it. The
refinement says what is left: stamps are serial, only finalized labels
appear, no bytes come from a newer version or another file, and a file
leaves a node only during its delete or where the node does not own it.
In `sdfs_two_files` (one pass per node) no relabelling happens, so the
weaker `Publish` is not exercised there. In `sdfs_content`'s configuration,
TLC finds no violation of the refinement up to depth 26, beyond the
21-state relabel trace; that search does not finish within a run's time.

## Bounds

The bounds are chosen so that each interesting interleaving occurs and each
run stays within minutes:
- 2–3 nodes. Two senders into one receiver needs 3.
- 1–2 files, with partitions chosen so that the master is a non-owner of one
  file.
- 1 payload, or 2 where content matters.
- Versions ≤ 1..3. Write, delete and rewrite needs 3.
- 1–2 replication passes per node.
- `NUM_REPLICAS` 2–3, `QUORUM_SIZE` 1–2 (the code's 5/4 need more nodes
  than TLC can afford).
- `NUM_VERSIONS` 2, so that three versions exceed it.
- Readers: one, and only in the read and fault runs. `sdfs_read_race` has
  two stamps, which are needed for two puts. `sdfs_faults` has two stamps
  and checks no read property (see Dropped runs).
- ChurnLoop (`churn_stall`): 3 incarnations and one death. This covers a
  master dying and being replaced, a smaller id joining after a larger one
  (master hand-over), and a restart as a new incarnation.
- ChurnStore: the pass run has 2 incarnations and 1 replica (4 thousand
  states). Ids 1 and 2 still give a hand-over, a death, a non-owner, a
  stale view and the GC panic. With 3 incarnations the liveness check takes
  more than 6 minutes. The loss run uses 3 incarnations and 2 replicas, so
  the loss is not caused by a single copy.

## Fairness

`Spec` has weak fairness on the steps of a running pass, of a transfer and of
the master's loop, and on `PeerDied`. The code justifies this:
- each of these is a goroutine blocked only on a local disk or a socket;
- a socket to a dead peer eventually errors.

Client commands, churn (`ReplicateStart`), GC and transport failures have no
fairness.

`ChurnLoop` has weak fairness on `Join` (sendJoin runs a second after
start), `Detect` (mp2's failure detector has a timeout), `Mp2Notify` (the
loop's `select` receives a blocked notification) and `TimerFired` (a timer
fires `CHURN_TIMEOUT_MS` after it is armed). Start, crash and client
commands are the environment's and have none; `MaxCrashes` bounds deaths so
that churn stops. `ChurnStore` adds weak fairness on `ReplicateSend` (each
dial, send or failure returns) and on `GarbageCollect` (the daemon's timer
fires every `GARBAGE_COLLECTION_PERIOD`). The put has none.

## Assumptions and what is not modelled

These hold in `SDFS`:
- Membership is fixed, and all views agree.
- There is one master and one clock, so versions increase.
- SDFS file names are never decimal integers. The code relies on this in
  `RemoveSDFSFile`.
- Each file-system call is atomic.

Not modelled yet:
- Versions under changing membership. `ChurnStore` tracks one file as
  held or not. Versions, reservations and transfers are `SDFS`'s, under
  fixed membership: composing all of it is beyond TLC's reach.
- GC removing every file while `SelfNode` is still empty
  (`replica.go:742`). `handoff` reaches that path, but none of its
  properties is broken by it. `handoff_loss` keeps listmem and listself
  reliable, to show the handoff race, so it never reaches the path.
  `FileSurvives` would catch it in a run where listself may fail.
- A property for the GC panic on an empty view, and the client's `Fatal`
  (`client.go:113`). Both are modelled and reached in `handoff`. No run
  checks them, because the run budget went to the handoff runs. The `Fatal`
  on a failed RPC is easy to reproduce in a test. In `ChurnLoop` it happens
  when node 1 refreshes and sees {2} before node 2 has started its server.
- Clock skew and version stamps across a master change (spec.md accepts
  regressions up to the skew).
- mp2 itself: its list, notifications and failure detection are the
  environment of `ChurnLoop`.
- `Ls` and `Store`. They print and change no state. `CLIENT_LIST_FILES` is
  used only by `Store`.
- The stat/rename race inside `RegisterTmpfileToSDFS`. Each call is atomic;
  the shared blob between two calls is modelled.
- Framing and gzip, which are pure I/O.
- `mp1` and the CLI/HTTP glue.

## Dropped runs

Two divergences seen earlier are visible in a single call and are left to
unit tests: `MergedKLatestVersions` keeps more than k versions when both
sides hold one (spec P5), and nothing prunes beyond `NUM_VERSIONS`. The
passing one-write `ReadYourWrites` run was dropped in favour of the churn
runs; `sdfs_read_race` still checks that property. The `churn` pass run on
`ChurnLoop` alone became `handoff`, which checks the same liveness on the
composition.

Three properties were removed:
- `FetchNewerThanDiscard` (the merge fetches only versions newer than those
  it discards) follows from how the merge indexes versions. The one fault
  that breaks it, walking oldest first, also breaks `NewestSurvives`.
- `VersionsAsRequested` says `GetVersions` writes each file with the version
  of its pair, newest first, each once. `sdfs_faults` checked it with two
  stamps, where it cannot fail. With three stamps it fails:
  1. a put, a put and a delete race a `GetVersions`;
  2. replication brings version 1 back on the node the delete emptied;
  3. the fetch bounded by 2 returns version 1 (the newest at or below the
     bound);
  4. `client.go:596` marks it as version 2.
  The run budget has no room for this violation, and the hazard at
  `client.go:596` records it.
- `TypeOKS` on `ChurnStore` could only be broken by mp2 listing a process
  that never started, which no code can do.

## Further work

- A three-incarnation pass run for `ChurnStore`, given more time per run.
- Larger instances of the read runs (two readers, a write and a delete).
