------------------------------ MODULE ChurnLoop ------------------------------
(***************************************************************************)
(* Membership, churn and master election in mp3-sdfs (api/api.go,          *)
(* master.go MembershipListChanged, schema/node.go CurrMasterNode, and the *)
(* master dial of client.go).                                              *)
(*                                                                         *)
(* The membership service (mp2) is outside the repository: it keeps one    *)
(* member list, adds a node when it joins, removes a dead node once it has *)
(* detected the failure, and on each change notifies the mp3 process of    *)
(* every live member through /mp3/mp2notify.  Each mp3 process runs        *)
(* membershipUpdateLoop: a notification re-arms a CHURN_TIMEOUT_MS timer;  *)
(* when the timer fires the process copies mp2's list and its own id      *)
(* (GetMembershipChanges), starts or stops its master gRPC server          *)
(* (MembershipListChanged), then runs Replicate().                         *)
(*                                                                         *)
(* A process that starts wipes its store (NewSDFSStorage) and joins with a *)
(* member id of its own, so a restarted node is a new member: Ids are the  *)
(* process incarnations, ordered as their member-id strings.  Stores and   *)
(* transfers are left to module SDFS; here Replicate() is recorded by the  *)
(* list it ran with.                                                       *)
(***************************************************************************)
EXTENDS Naturals, FiniteSets, Ring

CONSTANTS Ids,          \* member ids of every process incarnation
          MaxCrashes,   \* bound on process deaths
          MP2Failures   \* may the local listmem / listself calls fail?

ASSUME MP2Failures \in BOOLEAN

VARIABLES
    started,    \* incarnations whose process has started
    up,         \* incarnations whose process is running
    members,    \* mp2's member list
    notify,     \* notify[i]: an mp2notify request waits on i's mp2chan
    armed,      \* armed[i]: the loop's timer t is running
    view,       \* view[i]: MemList.List on i
    active,     \* active[i]: MasterGRPCService.isActive on i
    replicated, \* replicated[i]: the list of i's last Replicate(), {} if none
    crashes,    \* process deaths so far
    exited,     \* history: processes ended by a client's Fatal
    stale       \* history: stale[i] iff i's last refresh failed

vars == <<started, up, members, notify, armed, view, active,
          replicated, crashes, exited, stale>>

Init ==
    /\ started = {} /\ up = {} /\ members = {}
    /\ notify = [i \in Ids |-> FALSE]
    /\ armed = [i \in Ids |-> FALSE]
    /\ view = [i \in Ids |-> {}]
    /\ active = [i \in Ids |-> FALSE]
    /\ replicated = [i \in Ids |-> {}]
    /\ crashes = 0 /\ exited = {}
    /\ stale = [i \in Ids |-> FALSE]

\* mp2 notifies every live member of a change of its list.
NotifyAll(list) == [i \in Ids |-> IF i \in up \cap list THEN TRUE ELSE notify[i]]

\* A process that dies loses its in-memory state.
Forget(i) ==
    /\ notify' = [notify EXCEPT ![i] = FALSE]
    /\ armed' = [armed EXCEPT ![i] = FALSE]
    /\ view' = [view EXCEPT ![i] = {}]
    /\ active' = [active EXCEPT ![i] = FALSE]
    /\ replicated' = [replicated EXCEPT ![i] = {}]
    /\ stale' = [stale EXCEPT ![i] = FALSE]

-----------------------------------------------------------------------------
(* Processes and mp2 *)

\* main(): NewSDFSStorage wipes the store, RunAPI starts
\* membershipUpdateLoop, whose first timer is armed.
Start(i) ==
    /\ i \notin started
    /\ started' = started \cup {i}
    /\ up' = up \cup {i}
    /\ armed' = [armed EXCEPT ![i] = TRUE]
    /\ UNCHANGED <<members, notify, view, active, replicated, crashes,
                   exited, stale>>

\* sendJoin: mp2 adds the node to its list and notifies every live member.
Join(i) ==
    /\ i \in up /\ i \notin members
    /\ members' = members \cup {i}
    /\ notify' = NotifyAll(members')
    /\ UNCHANGED <<started, up, armed, view, active, replicated, crashes,
                   exited, stale>>

\* A process dies; mp2 still lists it until it detects the failure.
Crash(i) ==
    /\ i \in up /\ crashes < MaxCrashes
    /\ up' = up \ {i}
    /\ crashes' = crashes + 1
    /\ Forget(i)
    /\ UNCHANGED <<started, members, exited>>

\* mp2's failure detector removes a dead member and notifies the others.
Detect(i) ==
    /\ i \in members \ up
    /\ members' = members \ {i}
    /\ notify' = NotifyAll(members')
    /\ UNCHANGED <<started, up, armed, view, active, replicated, crashes,
                   exited, stale>>

-----------------------------------------------------------------------------
(* membershipUpdateLoop *)

\* Mutant: the notification is consumed but no timer is armed.
Mp2NotifyNoRearm(i) ==
    /\ i \in up /\ notify[i]
    /\ notify' = [notify EXCEPT ![i] = FALSE]
    /\ UNCHANGED <<started, up, members, armed, view, active, replicated,
                   crashes, exited, stale>>

\* case <-mp2chan: t = time.NewTimer(dur).  The old timer is dropped, so
\* notifications in a burst give one refresh, after the last of them.
Mp2Notify(i) ==
    /\ i \in up /\ notify[i]
    /\ notify' = [notify EXCEPT ![i] = FALSE]
    /\ armed' = [armed EXCEPT ![i] = TRUE]
    /\ UNCHANGED <<started, up, members, view, active, replicated,
                   crashes, exited, stale>>

\* MembershipListChanged: with an empty list the server is stopped and an
\* error returned; otherwise the server runs exactly when this node is
\* CurrMasterNode (start it when inactive and master, stop it when active
\* and not master, else leave it).
MembershipListChanged(list, selfId) ==
    IF list = {} THEN FALSE ELSE CurrMasterNode(list) = selfId

(***************************************************************************)
(* case <-t.C, the whole branch.  GetMembershipChanges holds the list lock *)
(* and issues listmem, then listself, to the local mp2, decoding each into *)
(* MemList; when either fails the loop logs it and `continue`s, after      *)
(* t.Stop(), with nothing re-armed.  A failing listself leaves the new     *)
(* list in place.  Then MembershipListChanged; with an empty list it       *)
(* errs and the loop continues; otherwise Replicate() runs.  SelfNode is   *)
(* the process's own id once listself has answered, and only the refresh  *)
(* that sets it reads it here, so it is not a variable.                    *)
(***************************************************************************)
TimerFired(i) ==
    /\ i \in up /\ armed[i]
    /\ armed' = [armed EXCEPT ![i] = FALSE]
    /\ \/ /\ MP2Failures
          /\ stale' = [stale EXCEPT ![i] = TRUE]
          /\ UNCHANGED <<view, active, replicated>>
       \/ /\ MP2Failures
          /\ stale' = [stale EXCEPT ![i] = TRUE]
          /\ view' = [view EXCEPT ![i] = members]
          /\ UNCHANGED <<active, replicated>>
       \/ /\ stale' = [stale EXCEPT ![i] = FALSE]
          /\ view' = [view EXCEPT ![i] = members]
          /\ active' = [active EXCEPT ![i] = MembershipListChanged(members, i)]
          /\ replicated' = IF members = {} THEN replicated
                           ELSE [replicated EXCEPT ![i] = members]
    /\ UNCHANGED <<started, up, members, notify, crashes, exited>>

-----------------------------------------------------------------------------
(* A client command on node i (api.go handlers, client.go) *)

\* The master a client of node i dials serves if its process runs the
\* gRPC server.
Serving(m) == m \in up /\ active[m]

\* NewClient: the master a client of node i dials, CurrMasterNode of i's
\* list (NewClient errs on an empty list, and the handler answers 500).
DialedMaster(i) == CurrMasterNode(view[i])

(***************************************************************************)
(* NewClient dials CurrMasterNode of i's list (an empty list is an error   *)
(* the handler answers with 500).  GetReplicas and GetReplicasNonQuorum    *)
(* call NodeLogger.Fatal when the stream to the master cannot be opened,   *)
(* which exits the process: this is what a put, get, ls or getversions on *)
(* i does when its master is dead or not serving.                          *)
(***************************************************************************)
ClientFatal(i) ==
    /\ i \in up /\ view[i] # {} /\ crashes < MaxCrashes
    /\ ~Serving(DialedMaster(i))
    /\ up' = up \ {i}
    /\ crashes' = crashes + 1
    /\ exited' = exited \cup {i}
    /\ Forget(i)
    /\ UNCHANGED <<started, members>>

-----------------------------------------------------------------------------
Next ==
    \E i \in Ids :
        \/ Start(i) \/ Join(i) \/ Crash(i) \/ Detect(i)
        \/ Mp2Notify(i) \/ TimerFired(i) \/ ClientFatal(i)

(***************************************************************************)
(* sendJoin runs a second after start, mp2 detects a dead member within    *)
(* its timeout, a blocked mp2notify handler is received by the loop's      *)
(* select, and a timer fires CHURN_TIMEOUT_MS after it is armed: weak      *)
(* fairness.  Starts, crashes and client commands are the environment's.   *)
(***************************************************************************)
Fairness ==
    \A i \in Ids : /\ WF_vars(Join(i)) /\ WF_vars(Detect(i))
                   /\ WF_vars(Mp2Notify(i)) /\ WF_vars(TimerFired(i))

Spec == Init /\ [][Next]_vars /\ Fairness

-----------------------------------------------------------------------------
(* Properties *)

TypeOK ==
    /\ started \subseteq Ids /\ up \subseteq started /\ members \subseteq started
    /\ notify \in [Ids -> BOOLEAN] /\ armed \in [Ids -> BOOLEAN]
    /\ view \in [Ids -> SUBSET Ids] /\ replicated \in [Ids -> SUBSET Ids]
    /\ active \in [Ids -> BOOLEAN]
    /\ crashes \in 0..MaxCrashes /\ exited \subseteq Ids
    /\ stale \in [Ids -> BOOLEAN]

\* Every live process has joined, every dead one is detected, and each
\* live process holds mp2's list, serves as master exactly when it is the
\* smallest id, and has run Replicate() with that list.
Settled ==
    /\ members = up
    /\ \A i \in up : /\ view[i] = members
                     /\ active[i] = (i = CurrMasterNode(members))
                     /\ replicated[i] = members

(***************************************************************************)
(* Settles (spec 5, ChurnLoop; I5): once churn stops, every live node      *)
(* comes to agree with mp2's list, exactly the smallest member serves as   *)
(* master, and every node has replicated under the final list, so new      *)
(* owners receive their files.  It rests on mp2 notifying every member of  *)
(* each change, on a notification re-arming the timer, and on the refresh  *)
(* that follows.                                                           *)
(***************************************************************************)
Settles == <>[]Settled

(***************************************************************************)
(* SettlesOnceRefreshesSucceed: the same, for the behaviours in which      *)
(* every node's refresh eventually stops failing -- a refresh that fails   *)
(* is never retried by the loop, so this is all the code can promise.      *)
(***************************************************************************)
SettlesOnceRefreshesSucceed ==
    <>[](\A i \in up : ~stale[i]) => <>[]Settled

=============================================================================
