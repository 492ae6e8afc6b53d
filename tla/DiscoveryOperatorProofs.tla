---------------------- MODULE DiscoveryOperatorProofs ----------------------
(***************************************************************************)
(* Proofs about DiscoveryOperator for every value of the constants: the    *)
(* type invariant; that only a new registration brings a removed handler  *)
(* back; that instance names come from reported devices (spec I2); and    *)
(* that the handler map refines the HandlerRegistry lifecycle.            *)
(***************************************************************************)
EXTENDS DiscoveryOperator, TLAPS

USE EndpointsAssumption, LocalAssumption, SessionAssumption,
    GraceAssumption, BoundAssumption

\* The tuples of variables an action leaves unchanged, and the sets the
\* type invariant is made of, are abbreviations every step needs.
USE DEF sessVars, envVars, supVars, instVars, swVars,
        Times, DhStates, Gens, Owners

\* The record a free session slot holds, and the one do_discover spawns,
\* are session records.
LEMMA FreeSessionType == FreeSession \in SessRec
BY DEF FreeSession, SessRec, SessPcs, Gens, Owners, InstRec, NoInst, Times

LEMMA NewSessionType ==
    ASSUME dhGen \in [Endpoints -> Gens], NEW e \in Endpoints, NEW o \in Owners
    PROVE  NewSession(e, o) \in SessRec
BY FreeSessionType DEF NewSession, SessRec, SessPcs

LEMMA InitTypeOK == Init => TypeOK
<1> SUFFICES ASSUME Init PROVE TypeOK
  OBVIOUS
<1>1. /\ clock \in Times
      /\ dhStatus \in [Endpoints -> DhStates]
      /\ dhSince \in [Endpoints -> Times]
      /\ dhGen \in [Endpoints -> Gens]
      /\ alive \in [Endpoints -> BOOLEAN]
      /\ seen \in [Endpoints -> SUBSET Devices]
  BY DEF Init, Times, DhStates, Gens
<1>2. /\ regNotes \in Nat
      /\ ddPending \in [Owners -> Nat]
      /\ sess \in [SessionIds -> SessRec]
      /\ watcher \in {"run", "stopped"}
      /\ configStop \in BOOLEAN
      /\ finished \in BOOLEAN
  BY FreeSessionType DEF Init, Owners
<1>3. /\ instances \in [Names -> InstRec]
      /\ plugins \in [Names -> 0..MaxPlugins]
      /\ swSnap \in [Names -> InstRec]
  BY DEF Init, InstRec, NoInst, Times
<1>4. /\ sweeper \in {"snap", "sweep", "done"}
      /\ swTodo \in SUBSET Names
      /\ reported \in SUBSET (Devices \X Endpoints)
  BY DEF Init
<1>5. QED
  BY <1>1, <1>2, <1>3, <1>4 DEF TypeOK

\* The steps of the environment keep the types.
LEMMA EnvTypeOK ==
    ASSUME TypeOK,
           \/ Tick \/ ConfigDeleted
           \/ \E e \in Endpoints :
                \/ HandlerCrash(e) \/ HandlerRestart(e)
                \/ \E S \in SUBSET Devices : DevicesChange(e, S)
    PROVE  TypeOK'
<1>1. CASE Tick
  BY <1>1 DEF Tick, TypeOK
<1>2. CASE ConfigDeleted
  BY <1>2 DEF ConfigDeleted, TypeOK
<1>3. ASSUME NEW e \in Endpoints, HandlerCrash(e) PROVE TypeOK'
  BY <1>3 DEF HandlerCrash, TypeOK
<1>4. ASSUME NEW e \in Endpoints, HandlerRestart(e) PROVE TypeOK'
  BY <1>4 DEF HandlerRestart, TypeOK
<1>5. ASSUME NEW e \in Endpoints, NEW S \in SUBSET Devices, DevicesChange(e, S)
      PROVE TypeOK'
  BY <1>5 DEF DevicesChange, TypeOK
<1>6. QED
  BY <1>1, <1>2, <1>3, <1>4, <1>5

\* The steps of the supervisor keep the types.
LEMMA DoDiscoverTypeOK ==
    ASSUME TypeOK, NEW o \in Owners, DoDiscover(o)
    PROVE  TypeOK'
<1> DEFINE eps == {e \in Endpoints : dhStatus[e] \notin {"Absent", "HasClient"}}
           free == {s \in SessionIds : sess[s].pc = "free"}
<1>1. PICK id \in Injection(eps, free) :
        sess' = [s \in SessionIds |->
                   IF s \in Range(id)
                   THEN NewSession(CHOOSE e \in eps : id[e] = s, o)
                   ELSE sess[s]]
  BY DEF DoDiscover
<1>2. ASSUME NEW s \in Range(id) PROVE (CHOOSE e \in eps : id[e] = s) \in Endpoints
  BY DEF Range, Injection
<1>3. sess' \in [SessionIds -> SessRec]
  <2>1. ASSUME NEW s \in SessionIds, s \in Range(id)
        PROVE  NewSession(CHOOSE e \in eps : id[e] = s, o) \in SessRec
    BY <1>2, <2>1, NewSessionType DEF TypeOK
  <2>2. QED
    BY <1>1, <2>1 DEF TypeOK
<1>4. ddPending' \in [Owners -> Nat]
  BY DEF DoDiscover, TypeOK
<1>5. UNCHANGED <<dhStatus, dhSince, dhGen, watcher, finished, clock, alive,
                  seen, regNotes, configStop, instances, plugins, reported,
                  sweeper, swSnap, swTodo>>
  BY DEF DoDiscover
<1>6. QED
  BY <1>3, <1>4, <1>5 DEF TypeOK

LEMMA SupervisorTypeOK ==
    ASSUME TypeOK, WatchNewHandler \/ WatchStop \/ Finish
    PROVE  TypeOK'
<1>1. CASE WatchNewHandler
  BY <1>1 DEF WatchNewHandler, TypeOK
<1>2. CASE WatchStop
  <2>1. ASSUME NEW s \in SessionIds
        PROVE  [sess[s] EXCEPT !.stop = TRUE] \in SessRec
    <3>1. sess[s] \in SessRec
      BY DEF TypeOK
    <3>2. QED
      BY <3>1, Zenon DEF SessRec
  <2>2. sess' \in [SessionIds -> SessRec]
    BY <1>2, <2>1 DEF WatchStop, TypeOK
  <2>3. QED
    BY <1>2, <2>2 DEF WatchStop, TypeOK
<1>3. CASE Finish
  BY <1>3 DEF Finish, TypeOK
<1>4. QED
  BY <1>1, <1>2, <1>3

\* Replacing one session's record by a session record keeps the type.
LEMMA SessUpdate ==
    ASSUME sess \in [SessionIds -> SessRec], NEW s \in SessionIds,
           NEW r \in SessRec
    PROVE  [sess EXCEPT ![s] = r] \in [SessionIds -> SessRec]
OBVIOUS

LEMMA ConnectOkTypeOK ==
    ASSUME TypeOK, NEW s \in SessionIds, ConnectOk(s)
    PROVE  TypeOK'
<1> DEFINE r == [sess[s] EXCEPT !.pc = "stream", !.stop = FALSE]
<1>1. sess[s] \in SessRec
  BY DEF TypeOK
<1>2. r \in SessRec
  BY <1>1, Zenon DEF TypeOK, SessRec, SessPcs
<1>3. sess' = [sess EXCEPT ![s] = r]
  BY DEF ConnectOk, Sess, Goto
<1>4. sess' \in [SessionIds -> SessRec]
  BY <1>2, <1>3, SessUpdate DEF TypeOK
<1>5. QED
  BY <1>1, <1>4 DEF ConnectOk, Sess, Goto, TypeOK, SessRec, SetStatus

LEMMA ConnectFailTypeOK ==
    ASSUME TypeOK, NEW s \in SessionIds, ConnectFail(s)
    PROVE  TypeOK'
<1> DEFINE r == [sess[s] EXCEPT !.pc = IF Deregisters(sess[s].ep) THEN "done" ELSE "sleep"]
<1>1. sess[s] \in SessRec
  BY DEF TypeOK
<1>2. r \in SessRec
  BY <1>1, Zenon DEF TypeOK, SessRec, SessPcs
<1>3. sess' = [sess EXCEPT ![s] = r]
  BY DEF ConnectFail, Sess, Goto
<1>4. sess' \in [SessionIds -> SessRec]
  BY <1>2, <1>3, SessUpdate DEF TypeOK
<1>5. QED
  BY <1>1, <1>4 DEF ConnectFail, Sess, Goto, TypeOK, SessRec, MarkOfflineOrDeregister, Deregisters

LEMMA RetryTypeOK ==
    ASSUME TypeOK, NEW s \in SessionIds, Retry(s)
    PROVE  TypeOK'
<1> DEFINE r == [sess[s] EXCEPT !.pc = "connect"]
<1>1. sess[s] \in SessRec
  BY DEF TypeOK
<1>2. r \in SessRec
  BY <1>1, Zenon DEF TypeOK, SessRec, SessPcs
<1>3. sess' = [sess EXCEPT ![s] = r]
  BY DEF Retry, Sess, Goto
<1>4. sess' \in [SessionIds -> SessRec]
  BY <1>2, <1>3, SessUpdate DEF TypeOK
<1>5. QED
  BY <1>1, <1>4 DEF Retry, Sess, Goto, TypeOK, SessRec

LEMMA StopReceivedTypeOK ==
    ASSUME TypeOK, NEW s \in SessionIds, StopReceived(s)
    PROVE  TypeOK'
<1> DEFINE r == [sess[s] EXCEPT !.pc = "done"]
<1>1. sess[s] \in SessRec
  BY DEF TypeOK
<1>2. r \in SessRec
  BY <1>1, Zenon DEF TypeOK, SessRec, SessPcs
<1>3. sess' = [sess EXCEPT ![s] = r]
  BY DEF StopReceived, Sess, Goto
<1>4. sess' \in [SessionIds -> SessRec]
  BY <1>2, <1>3, SessUpdate DEF TypeOK
<1>5. QED
  BY <1>1, <1>4 DEF StopReceived, Sess, Goto, TypeOK, SessRec, SetStatus

LEMMA StreamEndTypeOK ==
    ASSUME TypeOK, NEW s \in SessionIds, StreamEnd(s)
    PROVE  TypeOK'
<1> DEFINE r == [sess[s] EXCEPT !.pc = "done"]
<1>1. sess[s] \in SessRec
  BY DEF TypeOK
<1>2. r \in SessRec
  BY <1>1, Zenon DEF TypeOK, SessRec, SessPcs
<1>3. sess' = [sess EXCEPT ![s] = r]
  BY DEF StreamEnd, Sess, Goto
<1>4. sess' \in [SessionIds -> SessRec]
  BY <1>2, <1>3, SessUpdate DEF TypeOK
<1>5. QED
  BY <1>1, <1>4 DEF StreamEnd, Sess, Goto, TypeOK, SessRec, SetStatus

LEMMA BrokenPipeTypeOK ==
    ASSUME TypeOK, NEW s \in SessionIds, BrokenPipe(s)
    PROVE  TypeOK'
<1> DEFINE r == [sess[s] EXCEPT !.pc = IF Deregisters(sess[s].ep) THEN "done" ELSE "sleep"]
<1>1. sess[s] \in SessRec
  BY DEF TypeOK
<1>2. r \in SessRec
  BY <1>1, Zenon DEF TypeOK, SessRec, SessPcs
<1>3. sess' = [sess EXCEPT ![s] = r]
  BY DEF BrokenPipe, Sess, Goto
<1>4. sess' \in [SessionIds -> SessRec]
  BY <1>2, <1>3, SessUpdate DEF TypeOK
<1>5. QED
  BY <1>1, <1>4 DEF BrokenPipe, Sess, Goto, TypeOK, SessRec, MarkOfflineOrDeregister, Deregisters

LEMMA ReceiveTypeOK ==
    ASSUME TypeOK, NEW s \in SessionIds, Receive(s)
    PROVE  TypeOK'
<1> DEFINE r == [sess[s] EXCEPT !.pc = "hdr", !.vis = {InstanceName(d, sess[s].ep) : d \in seen[sess[s].ep]}]
<1>1. sess[s] \in SessRec
  BY DEF TypeOK
<1>2. r \in SessRec
  <2>1. {InstanceName(d, sess[s].ep) : d \in seen[sess[s].ep]} \in SUBSET Names
    <3>1. seen[sess[s].ep] \subseteq Devices
      BY <1>1 DEF TypeOK, SessRec
    <3>2. ASSUME NEW d \in Devices PROVE InstanceName(d, sess[s].ep) \in Names
      BY DEF InstanceName, Names
    <3>3. QED
      BY <3>1, <3>2
  <2>2. QED
    BY <1>1, <2>1, Zenon DEF SessRec, SessPcs
<1>3. sess' = [sess EXCEPT ![s] = r]
  BY DEF Receive, Sess, Goto
<1>4. sess' \in [SessionIds -> SessRec]
  BY <1>2, <1>3, SessUpdate DEF TypeOK
<1>5. reported' \in SUBSET (Devices \X Endpoints)
  BY <1>1 DEF Receive, TypeOK, SessRec
<1>6. QED
  BY <1>4, <1>5 DEF Receive, TypeOK

LEMMA SnapshotNewTypeOK ==
    ASSUME TypeOK, NEW s \in SessionIds, SnapshotNew(s)
    PROVE  TypeOK'
<1> DEFINE r == [sess[s] EXCEPT !.pc = "uc0", !.newN = sess[s].vis \ Keys(instances)]
<1>1. sess[s] \in SessRec
  BY DEF TypeOK
<1>2. r \in SessRec
  BY <1>1, Zenon DEF TypeOK, SessRec, SessPcs
<1>3. sess' = [sess EXCEPT ![s] = r]
  BY DEF SnapshotNew, Sess, Goto
<1>4. sess' \in [SessionIds -> SessRec]
  BY <1>2, <1>3, SessUpdate DEF TypeOK
<1>5. QED
  BY <1>1, <1>4 DEF SnapshotNew, Sess, Goto, TypeOK, SessRec

LEMMA SnapshotConnectivityTypeOK ==
    ASSUME TypeOK, NEW s \in SessionIds, SnapshotConnectivity(s)
    PROVE  TypeOK'
<1> DEFINE r == [sess[s] EXCEPT !.pc = "uc", !.snap = instances, !.todo = Keys(instances)]
<1>1. sess[s] \in SessRec
  BY DEF TypeOK
<1>2. r \in SessRec
  BY <1>1, Zenon DEF TypeOK, SessRec, SessPcs, Keys
<1>3. sess' = [sess EXCEPT ![s] = r]
  BY DEF SnapshotConnectivity, Sess, Goto
<1>4. sess' \in [SessionIds -> SessRec]
  BY <1>2, <1>3, SessUpdate DEF TypeOK
<1>5. QED
  BY <1>1, <1>4 DEF SnapshotConnectivity, Sess, Goto, TypeOK, SessRec

LEMMA ReconcileDoneTypeOK ==
    ASSUME TypeOK, NEW s \in SessionIds, ReconcileDone(s)
    PROVE  TypeOK'
<1> DEFINE r == [sess[s] EXCEPT !.pc = "stream", !.vis = {}, !.snap = [n \in Names |-> NoInst]]
<1>1. sess[s] \in SessRec
  BY DEF TypeOK
<1>2. r \in SessRec
  <2>1. [n \in Names |-> NoInst] \in [Names -> InstRec]
    BY DEF InstRec, NoInst
  <2>2. QED
    BY <1>1, <2>1, Zenon DEF SessRec, SessPcs
<1>3. sess' = [sess EXCEPT ![s] = r]
  BY DEF ReconcileDone, Sess, Goto
<1>4. sess' \in [SessionIds -> SessRec]
  BY <1>2, <1>3, SessUpdate DEF TypeOK
<1>5. QED
  BY <1>1, <1>4 DEF ReconcileDone, Sess, Goto, TypeOK, SessRec


\* The instance-map writes keep the map and the plugin counts typed.
InstTyped == instances \in [Names -> InstRec] /\ plugins \in [Names -> 0..MaxPlugins]

LEMMA RemoveType ==
    ASSUME InstTyped, NEW n \in Names, Remove(n)
    PROVE  InstTyped'
<1>1. NoInst \in InstRec
  BY DEF NoInst, InstRec
<1>2. QED
  BY <1>1 DEF Remove, InstTyped

LEMMA UpdateInstanceType ==
    ASSUME InstTyped, clock \in Times, NEW n \in Names, NEW i \in InstRec,
           NEW V, NEW b, UpdateInstance(n, i, V, b)
    PROVE  InstTyped'
<1>1. OnlineInst \in InstRec /\ [st |-> "Offline", since |-> clock] \in InstRec
  BY DEF OnlineInst, InstRec
<1>2. QED
  BY <1>1, RemoveType DEF UpdateInstance, SetInst, InstTyped

LEMMA UpdateOneTypeOK ==
    ASSUME TypeOK, NEW s \in SessionIds, NEW n \in Names, UpdateOne(s, n)
    PROVE  TypeOK'
<1> DEFINE r == [sess[s] EXCEPT !.todo = @ \ {n}]
<1>1. sess[s] \in SessRec
  BY DEF TypeOK
<1>2. r \in SessRec
  BY <1>1, Zenon DEF SessRec
<1>3. sess' = [sess EXCEPT ![s] = r]
  BY DEF UpdateOne
<1>4. sess' \in [SessionIds -> SessRec]
  BY <1>2, <1>3, SessUpdate DEF TypeOK
<1>5. InstTyped'
  <2>1. sess[s].snap[n] \in InstRec
    BY <1>1, Zenon DEF SessRec
  <2>2. InstTyped /\ clock \in Times
    BY DEF TypeOK, InstTyped
  <2>3. QED
    BY <2>1, <2>2, UpdateInstanceType DEF UpdateOne
<1>6. QED
  BY <1>4, <1>5 DEF UpdateOne, TypeOK, InstTyped

LEMMA BuildOneTypeOK ==
    ASSUME TypeOK, NEW s \in SessionIds, NEW n \in Names, BuildOne(s, n)
    PROVE  TypeOK'
<1> DEFINE r == [sess[s] EXCEPT !.newN = @ \ {n}]
<1>1. sess[s] \in SessRec
  BY DEF TypeOK
<1>2. r \in SessRec
  BY <1>1, Zenon DEF SessRec
<1>3. sess' = [sess EXCEPT ![s] = r]
  BY DEF BuildOne
<1>4. sess' \in [SessionIds -> SessRec]
  BY <1>2, <1>3, SessUpdate DEF TypeOK
<1>5. InstTyped'
  <2>1. OnlineInst \in InstRec
    BY DEF OnlineInst, InstRec
  <2>2. InstTyped
    BY DEF TypeOK, InstTyped
  <2>3. QED
    BY <2>1, <2>2 DEF BuildOne, InstTyped
<1>6. QED
  BY <1>4, <1>5 DEF BuildOne, TypeOK, InstTyped

LEMMA SweeperTypeOK ==
    ASSUME TypeOK, SweepSnapshot \/ SweepWait \/ \E n \in Names : SweepOne(n)
    PROVE  TypeOK'
<1>1. CASE SweepSnapshot
  BY <1>1 DEF SweepSnapshot, TypeOK, Keys
<1>2. CASE SweepWait
  BY <1>2 DEF SweepWait, TypeOK, InstRec, NoInst
<1>3. ASSUME NEW n \in Names, SweepOne(n) PROVE TypeOK'
  <2>1. InstTyped'
    <3>1. InstTyped
      BY DEF TypeOK, InstTyped
    <3>2. QED
      BY <1>3, <3>1, RemoveType DEF SweepOne, InstTyped
  <2>2. QED
    BY <1>3, <2>1 DEF SweepOne, TypeOK, InstTyped
<1>4. QED
  BY <1>1, <1>2, <1>3

LEMMA NextTypeOK == TypeOK /\ [Next]_vars => TypeOK'
<1> SUFFICES ASSUME TypeOK, [Next]_vars PROVE TypeOK'
  OBVIOUS
<1>1. CASE \E s \in SessionIds : SessionStep(s)
  BY <1>1, ConnectOkTypeOK, ConnectFailTypeOK, RetryTypeOK,
     StopReceivedTypeOK, StreamEndTypeOK, BrokenPipeTypeOK, ReceiveTypeOK,
     SnapshotNewTypeOK, SnapshotConnectivityTypeOK, ReconcileDoneTypeOK,
     UpdateOneTypeOK, BuildOneTypeOK DEF SessionStep
<1>2. CASE UNCHANGED vars
  BY <1>2 DEF vars, TypeOK
<1>3. QED
  BY <1>1, <1>2, EnvTypeOK, DoDiscoverTypeOK, SupervisorTypeOK, SweeperTypeOK
  DEF Next

\* The type invariant holds in every state of every behaviour.
THEOREM TypeCorrect == Spec => []TypeOK
BY InitTypeOK, NextTypeOK, PTL DEF Spec

-----------------------------------------------------------------------------
(* The registered-handler map: re-entry only through a new registration   *)

\* The step formula of RemovedHandlerStaysRemoved.
StaysBody ==
    \A e \in Endpoints :
        dhStatus[e] = "Absent" /\ dhStatus'[e] # "Absent" =>
            dhGen'[e] = dhGen[e] + 1

\* A step that leaves the handler map alone satisfies both.
LEMMA UnchangedHandler ==
    ASSUME dhStatus' = dhStatus
    PROVE  StaysBody
BY DEF StaysBody

\* set_discovery_handler_connectivity_status writes a present status and
\* never adds or removes an entry.
LEMMA SetStatusHandler ==
    ASSUME dhStatus \in [Endpoints -> DhStates], NEW e0 \in Endpoints,
           NEW st, st # "Absent", SetStatus(e0, st)
    PROVE  StaysBody
<1>1. \A e \in Endpoints : dhStatus'[e] = "Absent" <=> dhStatus[e] = "Absent"
  BY DEF SetStatus
<1>2. QED
  BY <1>1 DEF StaysBody

\* mark_offline_or_deregister_discovery_handler never inserts an entry.
LEMMA MarkHandler ==
    ASSUME dhStatus \in [Endpoints -> DhStates], NEW e0 \in Endpoints,
           MarkOfflineOrDeregister(e0)
    PROVE  StaysBody
<1>1. \A e \in Endpoints \ {e0} : dhStatus'[e] = dhStatus[e]
  BY DEF MarkOfflineOrDeregister
<1>2. dhStatus[e0] = "Absent" => dhStatus'[e0] = "Absent"
  BY DEF MarkOfflineOrDeregister, Deregisters
<1>3. QED
  BY <1>1, <1>2 DEF StaysBody

\* The registration server inserts an entry only where none is, with the
\* next registration's channel.
LEMMA RestartHandler ==
    ASSUME dhStatus \in [Endpoints -> DhStates], dhGen \in [Endpoints -> Gens],
           NEW e0 \in Endpoints, HandlerRestart(e0)
    PROVE  StaysBody
<1>1. CASE dhStatus[e0] = "Absent" /\ dhGen[e0] < MaxRegistrations
  <2>1. /\ dhStatus' = [dhStatus EXCEPT ![e0] = "Online"]
        /\ dhGen' = [dhGen EXCEPT ![e0] = @ + 1]
    BY <1>1 DEF HandlerRestart
  <2>2. QED
    BY <2>1, <1>1 DEF StaysBody
<1>2. CASE ~(dhStatus[e0] = "Absent" /\ dhGen[e0] < MaxRegistrations)
  BY <1>2, UnchangedHandler DEF HandlerRestart
<1>3. QED
  BY <1>1, <1>2

\* Every step of the operator satisfies both step formulas.
LEMMA NextHandler == TypeOK /\ [Next]_vars => [StaysBody]_vars
<1> SUFFICES ASSUME TypeOK, [Next]_vars PROVE StaysBody
  OBVIOUS
<1> DEFINE DH == dhStatus \in [Endpoints -> DhStates]
<1>0. DH /\ dhGen \in [Endpoints -> Gens]
  BY DEF TypeOK
<1>1. ASSUME NEW s \in SessionIds PROVE sess[s].ep \in Endpoints
  BY DEF TypeOK, SessRec
<1>2. CASE \E s \in SessionIds :
             ConnectOk(s) \/ StopReceived(s) \/ StreamEnd(s)
  <2>1. PICK s \in SessionIds : ConnectOk(s) \/ StopReceived(s) \/ StreamEnd(s)
    BY <1>2
  <2>2. \E st : st # "Absent" /\ SetStatus(sess[s].ep, st)
    BY <2>1 DEF ConnectOk, StopReceived, StreamEnd
  <2>3. QED
    BY <2>2, <1>0, <1>1, SetStatusHandler
<1>3. CASE \E s \in SessionIds : ConnectFail(s) \/ BrokenPipe(s)
  <2>1. PICK s \in SessionIds : ConnectFail(s) \/ BrokenPipe(s)
    BY <1>3
  <2>2. MarkOfflineOrDeregister(sess[s].ep)
    BY <2>1 DEF ConnectFail, BrokenPipe
  <2>3. QED
    BY <2>2, <1>0, <1>1, MarkHandler
<1>4. CASE \E e \in Endpoints : HandlerRestart(e)
  BY <1>4, <1>0, RestartHandler
<1>5. CASE \E s \in SessionIds :
             \/ Retry(s) \/ Receive(s) \/ SnapshotNew(s)
             \/ SnapshotConnectivity(s) \/ ReconcileDone(s)
             \/ \E n \in Names : UpdateOne(s, n) \/ BuildOne(s, n)
  <2>1. dhStatus' = dhStatus
    BY <1>5 DEF Retry, Receive, SnapshotNew, SnapshotConnectivity,
                ReconcileDone, UpdateOne, BuildOne
  <2>2. QED
    BY <2>1, UnchangedHandler
<1>6. CASE \/ Tick \/ ConfigDeleted \/ WatchNewHandler \/ WatchStop \/ Finish
           \/ SweepSnapshot \/ SweepWait \/ \E n \in Names : SweepOne(n)
           \/ \E o \in Owners : DoDiscover(o)
           \/ \E e \in Endpoints : HandlerCrash(e)
           \/ \E e \in Endpoints, S \in SUBSET Devices : DevicesChange(e, S)
  <2>1. dhStatus' = dhStatus
    BY <1>6 DEF Tick, ConfigDeleted, WatchNewHandler, WatchStop, Finish,
                SweepSnapshot, SweepWait, SweepOne, DoDiscover, HandlerCrash,
                DevicesChange
  <2>2. QED
    BY <2>1, UnchangedHandler
<1>7. CASE UNCHANGED vars
  BY <1>7, UnchangedHandler DEF vars
<1>8. QED
  BY <1>2, <1>3, <1>4, <1>5, <1>6, <1>7 DEF Next, SessionStep

\* No late status write of a session brings a deregistered handler back;
\* only a new registration does.
THEOREM RemovedHandlerStaysRemovedHolds == Spec => RemovedHandlerStaysRemoved
<1>1. TypeOK /\ [Next]_vars => [StaysBody]_vars
  BY NextHandler
<1>2. QED
  BY <1>1, TypeCorrect, PTL DEF Spec, RemovedHandlerStaysRemoved, StaysBody

-----------------------------------------------------------------------------
(* Instance names come from reported devices (spec I2).                   *)

\* The names of every device some response carried, salted as
\* generate_instance_digest salts them.
ReportedNames == {<<p[1], p[2] \notin LocalEndpoints>> : p \in reported}

\* The sets of names a session holds between two awaits.
SessNames(r) == r.vis \cup r.newN \cup r.todo

\* The inductive strengthening of InstanceNamesReported: the names a
\* session carries through handle_discovery_results are reported names
\* too, since update_connectivity_status and build_device_plugin write
\* exactly those names to the map.
NamesInv ==
    /\ Keys(instances) \subseteq ReportedNames
    /\ \A s \in SessionIds : SessNames(sess[s]) \subseteq ReportedNames

\* A write of one entry adds at most that name to the map's keys.
LEMMA KeysSetInst ==
    ASSUME instances \in [Names -> InstRec], NEW n \in Names, NEW r,
           instances' = [instances EXCEPT ![n] = r]
    PROVE  Keys(instances') \subseteq Keys(instances) \cup {n}
BY DEF Keys

\* A termination adds no name.
LEMMA KeysRemove ==
    ASSUME instances \in [Names -> InstRec], NEW n \in Names, Remove(n)
    PROVE  Keys(instances') \subseteq Keys(instances)
BY DEF Remove, Keys, NoInst

\* The rule of update_connectivity_status adds at most the name it is for.
LEMMA KeysUpdate ==
    ASSUME instances \in [Names -> InstRec], NEW n \in Names, NEW i, NEW V,
           NEW b, UpdateInstance(n, i, V, b)
    PROVE  Keys(instances') \subseteq Keys(instances) \cup {n}
<1>1. CASE UNCHANGED instances
  BY <1>1
<1>2. CASE Remove(n)
  BY <1>2, KeysRemove
<1>3. CASE \E r : instances' = [instances EXCEPT ![n] = r]
  BY <1>3, KeysSetInst
<1>4. QED
  BY <1>1, <1>2, <1>3 DEF UpdateInstance, SetInst

LEMMA InitNames == Init => NamesInv
BY DEF Init, NamesInv, Keys, NoInst, SessNames, FreeSession

\* A session step rewrites one session's record; the others keep theirs.
LEMMA SessNamesStep ==
    ASSUME NEW s \in SessionIds, sess \in [SessionIds -> SessRec],
           \A t \in SessionIds : SessNames(sess[t]) \subseteq ReportedNames,
           ReportedNames \subseteq ReportedNames',
           NEW r, sess' = [sess EXCEPT ![s] = r],
           SessNames(r) \subseteq ReportedNames'
    PROVE  \A t \in SessionIds : SessNames(sess'[t]) \subseteq ReportedNames'
BY Zenon

\* The steps of a session that change only its control point or its stop
\* flag, and leave the maps and the history alone.
LEMMA ControlStepNames ==
    ASSUME TypeOK, NamesInv, NEW s \in SessionIds,
           \/ ConnectOk(s) \/ ConnectFail(s) \/ Retry(s) \/ StopReceived(s)
           \/ StreamEnd(s) \/ BrokenPipe(s)
    PROVE  NamesInv'
<1> DEFINE r == [sess[s] EXCEPT !.pc = sess'[s].pc, !.stop = sess'[s].stop]
<1>1. sess[s] \in SessRec
  BY DEF TypeOK
<1>2. /\ sess' = [sess EXCEPT ![s] = r]
      /\ UNCHANGED <<instances, reported>>
  BY <1>1 DEF ConnectOk, ConnectFail, Retry, StopReceived, StreamEnd,
              BrokenPipe, Goto
<1>3. SessNames(r) = SessNames(sess[s])
  BY <1>1 DEF SessNames, SessRec
<1>4. QED
  BY <1>2, <1>3, SessNamesStep DEF TypeOK, NamesInv, ReportedNames

\* A response: the visible names are those of devices now reported.
LEMMA ReceiveNames ==
    ASSUME TypeOK, NamesInv, NEW s \in SessionIds, Receive(s)
    PROVE  NamesInv'
<1> DEFINE e == sess[s].ep
           V == {InstanceName(d, e) : d \in seen[e]}
           r == [sess[s] EXCEPT !.pc = "hdr", !.vis = V]
<1>1. sess[s] \in SessRec /\ e \in Endpoints
  BY DEF TypeOK, SessRec
<1>2. /\ sess' = [sess EXCEPT ![s] = r]
      /\ reported' = reported \cup {<<d, e>> : d \in seen[e]}
      /\ UNCHANGED instances
  BY DEF Receive
<1>3. ReportedNames \subseteq ReportedNames'
  BY <1>2 DEF ReportedNames
<1>4. ASSUME NEW d \in seen[e] PROVE InstanceName(d, e) \in ReportedNames'
  <2>1. <<d, e>> \in reported'
    BY <1>2
  <2>2. InstanceName(d, e) = <<(<<d, e>>)[1], (<<d, e>>)[2] \notin LocalEndpoints>>
    BY DEF InstanceName
  <2>3. QED
    BY <2>1, <2>2, Zenon DEF ReportedNames
<1>4a. V \subseteq ReportedNames'
  BY <1>4
<1>5. SessNames(r) \subseteq ReportedNames'
  BY <1>1, <1>3, <1>4a DEF SessNames, SessRec, NamesInv
<1>6. QED
  BY <1>1, <1>2, <1>3, <1>5, SessNamesStep DEF TypeOK, NamesInv

\* The two clones of handle_discovery_results and its return.
LEMMA SnapshotNames ==
    ASSUME TypeOK, NamesInv, NEW s \in SessionIds,
           SnapshotNew(s) \/ SnapshotConnectivity(s) \/ ReconcileDone(s)
    PROVE  NamesInv'
<1>1. sess[s] \in SessRec
  BY DEF TypeOK
<1>2. UNCHANGED <<instances, reported>>
  BY DEF SnapshotNew, SnapshotConnectivity, ReconcileDone
<1>3. \E r : sess' = [sess EXCEPT ![s] = r] /\ SessNames(r) \subseteq ReportedNames
  <2>1. CASE SnapshotNew(s)
    <3> DEFINE r == [sess[s] EXCEPT !.pc = "uc0",
                                    !.newN = sess[s].vis \ Keys(instances)]
    <3>1. SessNames(r) \subseteq ReportedNames
      BY <1>1 DEF SessNames, SessRec, NamesInv
    <3>2. QED
      BY <2>1, <3>1 DEF SnapshotNew
  <2>2. CASE SnapshotConnectivity(s)
    <3> DEFINE r == [sess[s] EXCEPT !.pc = "uc", !.snap = instances,
                                    !.todo = Keys(instances)]
    <3>1. SessNames(r) \subseteq ReportedNames
      BY <1>1 DEF SessNames, SessRec, NamesInv
    <3>2. QED
      BY <2>2, <3>1 DEF SnapshotConnectivity
  <2>3. CASE ReconcileDone(s)
    <3> DEFINE r == [sess[s] EXCEPT !.pc = "stream", !.vis = {},
                                    !.snap = [n \in Names |-> NoInst]]
    <3>1. SessNames(r) \subseteq ReportedNames
      BY <1>1 DEF SessNames, SessRec, NamesInv
    <3>2. QED
      BY <2>3, <3>1 DEF ReconcileDone
  <2>4. QED
    BY <2>1, <2>2, <2>3
<1>4. QED
  BY <1>2, <1>3, SessNamesStep DEF TypeOK, NamesInv, ReportedNames

\* update_connectivity_status writes only a name of its clone, and
\* build_device_plugin only a name the response made new.
LEMMA ReconcileNames ==
    ASSUME TypeOK, NamesInv, NEW s \in SessionIds, NEW n \in Names,
           UpdateOne(s, n) \/ BuildOne(s, n)
    PROVE  NamesInv'
<1>1. sess[s] \in SessRec
  BY DEF TypeOK
<1>2. UNCHANGED reported
  BY DEF UpdateOne, BuildOne
<1>3. CASE UpdateOne(s, n)
  <2> DEFINE r == [sess[s] EXCEPT !.todo = @ \ {n}]
  <2>1. n \in ReportedNames
    BY <1>3 DEF UpdateOne, NamesInv, SessNames
  <2>2. Keys(instances') \subseteq Keys(instances) \cup {n}
    BY <1>3, KeysUpdate DEF UpdateOne, TypeOK
  <2>3. sess' = [sess EXCEPT ![s] = r] /\ SessNames(r) \subseteq ReportedNames
    BY <1>1, <1>3 DEF UpdateOne, SessNames, SessRec, NamesInv
  <2>4. QED
    BY <1>2, <2>1, <2>2, <2>3, SessNamesStep DEF TypeOK, NamesInv, ReportedNames
<1>4. CASE BuildOne(s, n)
  <2> DEFINE r == [sess[s] EXCEPT !.newN = @ \ {n}]
  <2>1. n \in ReportedNames
    BY <1>4 DEF BuildOne, NamesInv, SessNames
  <2>2. Keys(instances') \subseteq Keys(instances) \cup {n}
    <3>1. CASE UNCHANGED instances
      BY <3>1
    <3>2. CASE instances' = [instances EXCEPT ![n] = OnlineInst]
      BY <3>2, KeysSetInst DEF TypeOK
    <3>3. QED
      BY <1>4, <3>1, <3>2 DEF BuildOne
  <2>3. sess' = [sess EXCEPT ![s] = r] /\ SessNames(r) \subseteq ReportedNames
    BY <1>1, <1>4 DEF BuildOne, SessNames, SessRec, NamesInv
  <2>4. QED
    BY <1>2, <2>1, <2>2, <2>3, SessNamesStep DEF TypeOK, NamesInv, ReportedNames
<1>5. QED
  BY <1>3, <1>4

\* The sweeper only terminates.
LEMMA SweepNames ==
    ASSUME TypeOK, NamesInv, NEW n \in Names, SweepOne(n)
    PROVE  NamesInv'
<1>1. Keys(instances') \subseteq Keys(instances)
  <2>1. CASE Remove(n)
    BY <2>1, KeysRemove DEF TypeOK
  <2>2. CASE UNCHANGED instances
    BY <2>2
  <2>3. QED
    BY <2>1, <2>2 DEF SweepOne
<1>2. UNCHANGED <<sess, reported>>
  BY DEF SweepOne
<1>3. QED
  BY <1>1, <1>2 DEF NamesInv, ReportedNames

\* do_discover spawns sessions that hold no names yet.
LEMMA DoDiscoverNames ==
    ASSUME TypeOK, NamesInv, NEW o \in Owners, DoDiscover(o)
    PROVE  NamesInv'
<1>1. UNCHANGED <<instances, reported>>
  BY DEF DoDiscover
<1>2. \A t \in SessionIds : sess'[t] = sess[t] \/ SessNames(sess'[t]) = {}
  BY DEF DoDiscover, NewSession, FreeSession, SessNames
<1>3. QED
  BY <1>1, <1>2 DEF NamesInv, ReportedNames

\* stop_all_discovery only flags sessions.
LEMMA WatchStopNames ==
    ASSUME TypeOK, NamesInv, WatchStop
    PROVE  NamesInv'
<1>1. UNCHANGED <<instances, reported>>
  BY DEF WatchStop
<1>2. \A t \in SessionIds : SessNames(sess'[t]) = SessNames(sess[t])
  BY DEF WatchStop, SessNames, TypeOK, SessRec
<1>3. QED
  BY <1>1, <1>2 DEF NamesInv, ReportedNames

\* Every step keeps the names of the map and of the sessions reported.
LEMMA NextNames == TypeOK /\ NamesInv /\ [Next]_vars => NamesInv'
<1> SUFFICES ASSUME TypeOK, NamesInv, [Next]_vars PROVE NamesInv'
  OBVIOUS
<1>1. CASE \E s \in SessionIds : SessionStep(s)
  BY <1>1, ControlStepNames, ReceiveNames, SnapshotNames, ReconcileNames
  DEF SessionStep
<1>2. CASE \/ Tick \/ ConfigDeleted \/ WatchNewHandler \/ Finish
           \/ SweepSnapshot \/ SweepWait
           \/ \E e \in Endpoints : HandlerCrash(e) \/ HandlerRestart(e)
           \/ \E e \in Endpoints, S \in SUBSET Devices : DevicesChange(e, S)
           \/ UNCHANGED vars
  <2>1. UNCHANGED <<instances, sess, reported>>
    BY <1>2 DEF Tick, ConfigDeleted, WatchNewHandler, Finish, SweepSnapshot,
                SweepWait, HandlerCrash, HandlerRestart, DevicesChange, vars
  <2>2. QED
    BY <2>1 DEF NamesInv, ReportedNames
<1>3. QED
  BY <1>1, <1>2, SweepNames, DoDiscoverNames, WatchStopNames DEF Next

\* Spec I2: every instance in the InstanceMap is named, as
\* generate_instance_digest names it, for a device some handler reported,
\* however responses, terminations and sweeps interleave.
THEOREM InstanceNamesFromReports == Spec => []InstanceNamesReported
<1>1. Init => TypeOK /\ NamesInv
  BY InitTypeOK, InitNames
<1>2. TypeOK /\ NamesInv /\ [Next]_vars => TypeOK' /\ NamesInv'
  BY NextTypeOK, NextNames
<1>3. TypeOK /\ NamesInv => InstanceNamesReported
  BY DEF NamesInv, ReportedNames, InstanceNamesReported
<1>4. QED
  BY <1>1, <1>2, <1>3, PTL DEF Spec

-----------------------------------------------------------------------------
(* The handler map implements HandlerRegistry.                            *)

\* A step that leaves the map and the clock alone is a registry stutter.
LEMMA RegistryStutter ==
    ASSUME UNCHANGED <<dhStatus, dhSince, dhGen, clock>>
    PROVE  UNCHANGED Registry!vars
BY DEF Registry!vars, AbsStatus

\* A status write of a session: Offline to up is GoUp, anything else is
\* invisible to the registry.
LEMMA SetStatusRefines ==
    ASSUME TypeOK, NEW e0 \in Endpoints, NEW st \in {"HasClient", "Online"},
           SetStatus(e0, st), UNCHANGED clock
    PROVE  [Registry!Next]_Registry!vars
<1>1. CASE dhStatus[e0] = "Offline"
  <2>1. AbsStatus' = [AbsStatus EXCEPT ![e0] = "Up"]
    BY <1>1 DEF SetStatus, AbsStatus, TypeOK
  <2>2. Registry!GoUp(e0)
    BY <1>1, <2>1 DEF Registry!GoUp, AbsStatus, SetStatus
  <2>3. QED
    BY <2>2 DEF Registry!Next
<1>2. CASE dhStatus[e0] # "Offline"
  <2>1. AbsStatus' = AbsStatus
    BY <1>2 DEF SetStatus, AbsStatus, TypeOK
  <2>2. QED
    BY <2>1 DEF SetStatus, Registry!vars
<1>3. QED
  BY <1>1, <1>2

\* mark_offline_or_deregister_discovery_handler: Online to Offline(now) is
\* GoDown, a removal after the grace is Deregister, anything else a stutter.
LEMMA MarkRefines ==
    ASSUME TypeOK, NEW e0 \in Endpoints, MarkOfflineOrDeregister(e0),
           UNCHANGED clock
    PROVE  [Registry!Next]_Registry!vars
<1>1. CASE Deregisters(e0)
  <2>1. AbsStatus' = [AbsStatus EXCEPT ![e0] = "Absent"]
    BY <1>1 DEF MarkOfflineOrDeregister, AbsStatus, TypeOK, Deregisters
  <2>2. dhSince' = dhSince /\ UNCHANGED dhGen
    BY <1>1 DEF MarkOfflineOrDeregister, Deregisters, TypeOK
  <2>3. AbsStatus[e0] = "Down" /\ clock - dhSince[e0] > HandlerGrace
    BY <1>1 DEF AbsStatus, Deregisters
  <2>4. Registry!Deregister(e0)
    BY <2>1, <2>2, <2>3 DEF Registry!Deregister
  <2>5. QED
    BY <2>4 DEF Registry!Next
<1>2. CASE dhStatus[e0] = "Online"
  <2>1. ~Deregisters(e0)
    BY <1>2 DEF Deregisters
  <2>2. AbsStatus' = [AbsStatus EXCEPT ![e0] = "Down"]
    BY <1>2, <2>1 DEF MarkOfflineOrDeregister, AbsStatus, TypeOK
  <2>3. Registry!GoDown(e0)
    BY <1>2, <2>1, <2>2 DEF Registry!GoDown, AbsStatus, MarkOfflineOrDeregister
  <2>4. QED
    BY <2>3 DEF Registry!Next
<1>3. CASE ~Deregisters(e0) /\ dhStatus[e0] # "Online"
  <2>1. UNCHANGED <<dhStatus, dhSince, dhGen>>
    BY <1>3 DEF MarkOfflineOrDeregister, TypeOK
  <2>2. QED
    BY <2>1, RegistryStutter
<1>4. QED
  BY <1>1, <1>2, <1>3

\* A registration: an insert where no entry is, with the next channel.
LEMMA RestartRefines ==
    ASSUME TypeOK, NEW e0 \in Endpoints, HandlerRestart(e0)
    PROVE  [Registry!Next]_Registry!vars
<1>1. CASE dhStatus[e0] = "Absent" /\ dhGen[e0] < MaxRegistrations
  <2>1. AbsStatus' = [AbsStatus EXCEPT ![e0] = "Up"]
    BY <1>1 DEF HandlerRestart, AbsStatus, TypeOK
  <2>2. Registry!Register(e0)
    BY <1>1, <2>1 DEF Registry!Register, AbsStatus, HandlerRestart
  <2>3. QED
    BY <2>2 DEF Registry!Next
<1>2. CASE ~(dhStatus[e0] = "Absent" /\ dhGen[e0] < MaxRegistrations)
  BY <1>2, RegistryStutter DEF HandlerRestart
<1>3. QED
  BY <1>1, <1>2

\* Every step of the operator is a registry step or a registry stutter.
LEMMA NextRefines == TypeOK /\ [Next]_vars => [Registry!Next]_Registry!vars
<1> SUFFICES ASSUME TypeOK, [Next]_vars PROVE [Registry!Next]_Registry!vars
  OBVIOUS
<1>1. ASSUME NEW s \in SessionIds PROVE sess[s].ep \in Endpoints
  BY DEF TypeOK, SessRec
<1>2. CASE \E s \in SessionIds : ConnectOk(s) \/ StopReceived(s) \/ StreamEnd(s)
  <2>1. PICK s \in SessionIds : ConnectOk(s) \/ StopReceived(s) \/ StreamEnd(s)
    BY <1>2
  <2>2. \E st \in {"HasClient", "Online"} :
          SetStatus(sess[s].ep, st) /\ UNCHANGED clock
    BY <2>1 DEF ConnectOk, StopReceived, StreamEnd
  <2>3. QED
    BY <2>2, <1>1, SetStatusRefines
<1>3. CASE \E s \in SessionIds : ConnectFail(s) \/ BrokenPipe(s)
  <2>1. PICK s \in SessionIds : ConnectFail(s) \/ BrokenPipe(s)
    BY <1>3
  <2>2. MarkOfflineOrDeregister(sess[s].ep) /\ UNCHANGED clock
    BY <2>1 DEF ConnectFail, BrokenPipe
  <2>3. QED
    BY <2>2, <1>1, MarkRefines
<1>4. CASE \E e \in Endpoints : HandlerRestart(e)
  BY <1>4, RestartRefines
<1>5. CASE Tick
  <2>1. Registry!Tick
    BY <1>5 DEF Tick, Registry!Tick, AbsStatus
  <2>2. QED
    BY <2>1 DEF Registry!Next
<1>6. CASE \/ \E s \in SessionIds :
                \/ Retry(s) \/ Receive(s) \/ SnapshotNew(s)
                \/ SnapshotConnectivity(s) \/ ReconcileDone(s)
                \/ \E n \in Names : UpdateOne(s, n) \/ BuildOne(s, n)
           \/ ConfigDeleted \/ WatchNewHandler \/ WatchStop \/ Finish
           \/ SweepSnapshot \/ SweepWait \/ \E n \in Names : SweepOne(n)
           \/ \E o \in Owners : DoDiscover(o)
           \/ \E e \in Endpoints : HandlerCrash(e)
           \/ \E e \in Endpoints, S \in SUBSET Devices : DevicesChange(e, S)
           \/ UNCHANGED vars
  <2>1. UNCHANGED <<dhStatus, dhSince, dhGen, clock>>
    BY <1>6 DEF Retry, Receive, SnapshotNew, SnapshotConnectivity,
                ReconcileDone, UpdateOne, BuildOne, ConfigDeleted,
                WatchNewHandler, WatchStop, Finish, SweepSnapshot, SweepWait,
                SweepOne, DoDiscover, HandlerCrash, DevicesChange, vars
  <2>2. QED
    BY <2>1, RegistryStutter
<1>7. QED
  BY <1>2, <1>3, <1>4, <1>5, <1>6 DEF Next, SessionStep

\* The registered-handler map, as the whole operator changes it, implements
\* the HandlerRegistry specification under the mapping AbsStatus.
THEOREM RegistryRefinement == Spec => RegistrySpec
<1>1. Init => Registry!Init
  BY DEF Init, Registry!Init, AbsStatus
<1>2. TypeOK /\ [Next]_vars => [Registry!Next]_Registry!vars
  BY NextRefines
<1>3. QED
  BY <1>1, <1>2, TypeCorrect, PTL DEF Spec, RegistrySpec, Registry!Spec

=============================================================================
