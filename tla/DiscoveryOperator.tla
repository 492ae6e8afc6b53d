------------------------- MODULE DiscoveryOperator -------------------------
(***************************************************************************)
(* The Discovery Operator of one Configuration (agent/src/util/            *)
(* discovery_operator.rs): the start_discovery supervisor with its three   *)
(* tasks (initial do_discover, registration watcher, offline sweeper), the *)
(* per-handler session tasks spawned by do_discover, the reconciliation    *)
(* of discovery results against the Configuration's InstanceMap, and the   *)
(* environment they react to (handlers that crash, restart, re-register    *)
(* and change what they discover; the clock; deletion of the              *)
(* Configuration).                                                         *)
(*                                                                         *)
(* Every await of the code is a step boundary: a task's state between two *)
(* awaits is its record in sess (or the sweeper's variables), and the     *)
(* shared maps are only read or written inside one step.                  *)
(***************************************************************************)
EXTENDS Naturals, FiniteSets, Functions

CONSTANTS
    Endpoints,        \* endpoints of the handlers registered for the protocol
    LocalEndpoints,   \* those whose RegisterRequest.is_local is true
    Devices,          \* device ids a handler may report
    SessionIds,       \* ids for the session tasks do_discover spawns
    HandlerGrace,     \* DISCOVERY_HANDLER_OFFLINE_GRACE_PERIOD_SECS, in ticks
    InstanceGrace,    \* SHARED_INSTANCE_OFFLINE_GRACE_PERIOD_SECS, in ticks
    MaxTime,          \* bound on the clock
    MaxRegistrations, \* bound on re-registrations of one endpoint
    MaxPlugins        \* bound on device plugins alive for one name

ASSUME EndpointsAssumption == Endpoints # {} /\ IsFiniteSet(Endpoints)
ASSUME LocalAssumption == LocalEndpoints \subseteq Endpoints
ASSUME SessionAssumption == IsFiniteSet(SessionIds)
ASSUME GraceAssumption == HandlerGrace \in Nat /\ InstanceGrace \in Nat
ASSUME BoundAssumption ==
    MaxTime \in Nat /\ MaxRegistrations \in Nat /\ MaxPlugins \in Nat

VARIABLES
    clock,      \* monotonic time (Instant::now), in ticks
    dhStatus,   \* RegisteredDiscoveryHandlerMap[protocol][e].connectivity_status, or "Absent"
    dhSince,    \* the instant of Offline(instant)
    dhGen,      \* which registration (and stop_discovery channel) the entry holds
    alive,      \* whether the handler process at e is serving
    seen,       \* devices the handler at e currently discovers
    regNotes,   \* new_discovery_handler broadcasts not yet received by the watcher
    ddPending,  \* do_discover tasks spawned but not yet run, per owning task
    sess,       \* state of each session task spawned by do_discover
    watcher,    \* start_discovery task 2: "run" or "stopped"
    configStop, \* stop_all_discovery_sender has fired
    finished,   \* finished_all_discovery_sender has fired
    instances,  \* the Configuration's InstanceMap: name -> InstanceInfo
    plugins,    \* number of live device plugins serving each instance name
    sweeper,    \* start_discovery task 3: "snap", "sweep" or "done"
    swSnap,     \* the sweeper's clone of the InstanceMap
    swTodo,     \* instances of that clone the sweeper has still to visit
    reported    \* history: <<device, endpoint>> pairs some session received

vars == <<clock, dhStatus, dhSince, dhGen, alive, seen, regNotes, ddPending,
          sess, watcher, configStop, finished, instances, plugins, sweeper,
          swSnap, swTodo, reported>>

-----------------------------------------------------------------------------
(* Data *)

Owners == {"init", "watch"}
DhStates == {"Absent", "Online", "HasClient", "Offline"}
Times == 0..MaxTime
Gens == 0..MaxRegistrations

\* An instance name: the device id and the shared flag that is digested
\* with it (generate_instance_digest(id, !is_local)); the digest is
\* abstracted as injective, and the node name is fixed.
Names == Devices \X BOOLEAN
\* Mutant: the is_local flag passed where the shared flag is expected.
InstanceNameLocal(d, e) == <<d, e \in LocalEndpoints>>
InstanceName(d, e) == <<d, e \notin LocalEndpoints>>

\* InstanceInfo.connectivity_status; "None" marks a name not in the map.
InstRec == [st : {"None", "Online", "Offline"}, since : Times]
NoInst == [st |-> "None", since |-> 0]
OnlineInst == [st |-> "Online", since |-> 0]
Keys(m) == {n \in Names : m[n].st # "None"}

SessPcs == {"free", "connect", "sleep", "stream", "hdr", "uc0", "uc",
            "done"}
\* Control points inside internal_do_discover, where the stop receiver
\* is subscribed.
Subscribed == {"stream", "hdr", "uc0", "uc"}

SessRec == [pc : SessPcs, ep : Endpoints, gen : Gens, owner : Owners,
            stop : BOOLEAN, vis : SUBSET Names, newN : SUBSET Names,
            snap : [Names -> InstRec], todo : SUBSET Names]

FreeSession == [pc |-> "free", ep |-> CHOOSE e \in Endpoints : TRUE,
                gen |-> 0, owner |-> "init", stop |-> FALSE, vis |-> {},
                newN |-> {}, snap |-> [n \in Names |-> NoInst], todo |-> {}]

\* The session a do_discover task spawns for endpoint e.
NewSession(e, o) == [FreeSession EXCEPT !.pc = "connect", !.ep = e,
                                        !.gen = dhGen[e], !.owner = o]

-----------------------------------------------------------------------------
(* Registered-handler map operations *)

\* Mutant: the status written even when the entry was removed.
SetStatusUnguarded(e, st) ==
    /\ dhStatus' = [dhStatus EXCEPT ![e] = st]
    /\ UNCHANGED <<dhSince, dhGen>>

\* set_discovery_handler_connectivity_status: writes only an entry that
\* is still registered.
SetStatus(e, st) ==
    /\ dhStatus' = [dhStatus EXCEPT ![e] = IF @ = "Absent" THEN @ ELSE st]
    /\ UNCHANGED <<dhSince, dhGen>>

\* Mutant: the grace comparison made with >= instead of >.
DeregistersEarly(e) ==
    dhStatus[e] = "Offline" /\ clock - dhSince[e] >= HandlerGrace

\* mark_offline_or_deregister_discovery_handler, atomic under the lock.
Deregisters(e) ==
    dhStatus[e] = "Offline" /\ clock - dhSince[e] > HandlerGrace

MarkOfflineOrDeregister(e) ==
    /\ dhStatus' = [dhStatus EXCEPT ![e] =
                      IF Deregisters(e) THEN "Absent"
                      ELSE IF @ = "Online" THEN "Offline" ELSE @]
    /\ dhSince' = [dhSince EXCEPT ![e] =
                      IF dhStatus[e] = "Online" THEN clock ELSE @]
    /\ UNCHANGED dhGen

-----------------------------------------------------------------------------
(* Instance map operations *)

SetInst(n, r) ==
    /\ instances' = [instances EXCEPT ![n] = r]
    /\ UNCHANGED plugins

\* Mutant: termination that does not check the name is still mapped.
RemoveUnchecked(n) ==
    /\ instances' = [instances EXCEPT ![n] = NoInst]
    /\ plugins' = [plugins EXCEPT ![n] = @ - 1]

\* terminate_device_plugin_service followed by try_delete_instance: a name
\* already gone from the map is left alone.
Remove(n) ==
    IF instances[n].st # "None"
    THEN /\ instances' = [instances EXCEPT ![n] = NoInst]
         /\ plugins' = [plugins EXCEPT ![n] = IF @ > 0 THEN @ - 1 ELSE 0]
    ELSE UNCHANGED <<instances, plugins>>

\* The rule update_connectivity_status applies to instance n, from the
\* InstanceInfo i of its snapshot, for a result that sees vis.
UpdateInstance(n, i, vis, isLocal) ==
    LET expired == clock - i.since >= InstanceGrace IN
    \/ n \in vis /\ i.st = "Offline" /\ SetInst(n, OnlineInst)
    \/ n \in vis /\ i.st = "Online" /\ UNCHANGED <<instances, plugins>>
    \/ n \notin vis /\ i.st = "Online" /\ isLocal /\ Remove(n)
    \/ /\ n \notin vis /\ i.st = "Online" /\ ~isLocal
       /\ SetInst(n, [st |-> "Offline", since |-> clock])
    \/ n \notin vis /\ i.st = "Offline" /\ expired /\ Remove(n)
    \/ n \notin vis /\ i.st = "Offline" /\ ~expired
       /\ UNCHANGED <<instances, plugins>>

-----------------------------------------------------------------------------
Init ==
    /\ clock = 0
    /\ dhStatus = [e \in Endpoints |-> "Online"]
    /\ dhSince = [e \in Endpoints |-> 0]
    /\ dhGen = [e \in Endpoints |-> 0]
    /\ alive = [e \in Endpoints |-> TRUE]
    /\ seen \in [Endpoints -> SUBSET Devices]
    /\ regNotes = 0
    /\ ddPending = [o \in Owners |-> IF o = "init" THEN 1 ELSE 0]
    /\ sess = [s \in SessionIds |-> FreeSession]
    /\ watcher = "run"
    /\ configStop = FALSE
    /\ finished = FALSE
    /\ instances = [n \in Names |-> NoInst]
    /\ plugins = [n \in Names |-> 0]
    /\ sweeper = "snap"
    /\ swSnap = [n \in Names |-> NoInst]
    /\ swTodo = {}
    /\ reported = {}

sessVars == <<dhStatus, dhSince, dhGen, sess>>
envVars == <<clock, alive, seen, regNotes, configStop>>
supVars == <<ddPending, watcher, finished>>
instVars == <<instances, plugins, reported>>
swVars == <<sweeper, swSnap, swTodo>>

-----------------------------------------------------------------------------
(* Environment *)

Tick ==
    /\ clock < MaxTime
    /\ clock' = clock + 1
    /\ UNCHANGED <<alive, seen, regNotes, configStop>>
    /\ UNCHANGED <<sessVars, supVars, instVars, swVars>>

HandlerCrash(e) ==
    /\ alive[e]
    /\ alive' = [alive EXCEPT ![e] = FALSE]
    /\ UNCHANGED <<clock, seen, regNotes, configStop>>
    /\ UNCHANGED <<sessVars, supVars, instVars, swVars>>

\* The handler comes back and registers; the registration server inserts
\* an entry with a fresh stop channel only for an endpoint not registered,
\* and broadcasts the protocol name to the watchers.
HandlerRestart(e) ==
    /\ ~alive[e]
    /\ alive' = [alive EXCEPT ![e] = TRUE]
    /\ IF dhStatus[e] = "Absent" /\ dhGen[e] < MaxRegistrations
       THEN /\ dhStatus' = [dhStatus EXCEPT ![e] = "Online"]
            /\ dhGen' = [dhGen EXCEPT ![e] = @ + 1]
            /\ regNotes' = regNotes + 1
       ELSE UNCHANGED <<dhStatus, dhGen, regNotes>>
    /\ UNCHANGED <<clock, seen, configStop, dhSince, sess>>
    /\ UNCHANGED <<supVars, instVars, swVars>>

DevicesChange(e, S) ==
    /\ S # seen[e]
    /\ seen' = [seen EXCEPT ![e] = S]
    /\ UNCHANGED <<clock, alive, regNotes, configStop>>
    /\ UNCHANGED <<sessVars, supVars, instVars, swVars>>

\* The Configuration is deleted: stop_all_discovery_sender.send(()).
ConfigDeleted ==
    /\ ~configStop
    /\ configStop' = TRUE
    /\ UNCHANGED <<clock, alive, seen, regNotes>>
    /\ UNCHANGED <<sessVars, supVars, instVars, swVars>>

-----------------------------------------------------------------------------
(* start_discovery: do_discover tasks and the registration watcher *)

\* A do_discover task runs: it clones the map and spawns a session for
\* each endpoint of the protocol that has no client in that clone.
DoDiscover(o) ==
    LET eps == {e \in Endpoints : dhStatus[e] \notin {"Absent", "HasClient"}}
        free == {s \in SessionIds : sess[s].pc = "free"}
    IN /\ ddPending[o] > 0
       /\ ddPending' = [ddPending EXCEPT ![o] = @ - 1]
       /\ \E id \in Injection(eps, free) :
            sess' = [s \in SessionIds |->
                       IF s \in Range(id)
                       THEN NewSession(CHOOSE e \in eps : id[e] = s, o)
                       ELSE sess[s]]
       /\ UNCHANGED <<dhStatus, dhSince, dhGen, watcher, finished>>
       /\ UNCHANGED <<envVars, instVars, swVars>>

\* The watcher's select receives a new_discovery_handler broadcast for
\* this protocol and spawns a do_discover task.
WatchNewHandler ==
    /\ watcher = "run"
    /\ regNotes > 0
    /\ regNotes' = regNotes - 1
    /\ ddPending' = [ddPending EXCEPT !["watch"] = @ + 1]
    /\ UNCHANGED <<clock, alive, seen, configStop, watcher, finished>>
    /\ UNCHANGED <<sessVars, instVars, swVars>>

\* The watcher's select receives the stop and calls stop_all_discovery:
\* the stop_discovery channel of every entry now in the map is sent on,
\* reaching the sessions subscribed to that very channel.
WatchStop ==
    /\ watcher = "run"
    /\ configStop
    /\ watcher' = "stopped"
    /\ sess' = [s \in SessionIds |->
                  IF /\ sess[s].pc \in Subscribed
                     /\ dhStatus[sess[s].ep] # "Absent"
                     /\ dhGen[sess[s].ep] = sess[s].gen
                  THEN [sess[s] EXCEPT !.stop = TRUE]
                  ELSE sess[s]]
    /\ UNCHANGED <<dhStatus, dhSince, dhGen, ddPending, finished>>
    /\ UNCHANGED <<envVars, instVars, swVars>>

\* The sessions a supervisor task joins are all over.
TaskJoined(o) ==
    /\ ddPending[o] = 0
    /\ \A s \in SessionIds :
         sess[s].pc # "free" /\ sess[s].owner = o => sess[s].pc = "done"

\* try_join_all(tasks) returns and finished_all_discovery is sent.
Finish ==
    /\ ~finished
    /\ TaskJoined("init")
    /\ watcher = "stopped" /\ TaskJoined("watch")
    /\ sweeper = "done"
    /\ finished' = TRUE
    /\ UNCHANGED <<ddPending, watcher, envVars, sessVars, instVars, swVars>>

-----------------------------------------------------------------------------
(* A session task: the loop of do_discover around internal_do_discover *)

Sess(s, pc) == sess[s].pc = pc
Goto(s, pc) == sess' = [sess EXCEPT ![s].pc = pc]

\* get_stream connects; the endpoint is marked HasClient and
\* internal_do_discover subscribes a new receiver to the stop channel.
ConnectOk(s) ==
    /\ Sess(s, "connect")
    /\ alive[sess[s].ep]
    /\ SetStatus(sess[s].ep, "HasClient")
    /\ sess' = [sess EXCEPT ![s].pc = "stream", ![s].stop = FALSE]
    /\ UNCHANGED <<envVars, supVars, instVars, swVars>>

\* get_stream returns None: mark offline, or deregister and end.
ConnectFail(s) ==
    /\ Sess(s, "connect")
    /\ MarkOfflineOrDeregister(sess[s].ep)
    /\ Goto(s, IF Deregisters(sess[s].ep) THEN "done" ELSE "sleep")
    /\ UNCHANGED <<envVars, supVars, instVars, swVars>>

\* The 60 s delay_for is over: back to the top of the loop.
Retry(s) ==
    /\ Sess(s, "sleep")
    /\ Goto(s, "connect")
    /\ UNCHANGED <<dhStatus, dhSince, dhGen>>
    /\ UNCHANGED <<envVars, supVars, instVars, swVars>>

\* The select takes the stop message: Ok, mark Online, end.
StopReceived(s) ==
    /\ Sess(s, "stream")
    /\ sess[s].stop
    /\ SetStatus(sess[s].ep, "Online")
    /\ Goto(s, "done")
    /\ UNCHANGED <<envVars, supVars, instVars, swVars>>

\* The stream yields None, or an error other than a broken pipe: mark
\* Online and end.
StreamEnd(s) ==
    /\ Sess(s, "stream")
    /\ SetStatus(sess[s].ep, "Online")
    /\ Goto(s, "done")
    /\ UNCHANGED <<envVars, supVars, instVars, swVars>>

\* The handler is gone and the stream fails with "broken pipe".
BrokenPipe(s) ==
    /\ Sess(s, "stream")
    /\ ~alive[sess[s].ep]
    /\ MarkOfflineOrDeregister(sess[s].ep)
    /\ Goto(s, IF Deregisters(sess[s].ep) THEN "done" ELSE "sleep")
    /\ UNCHANGED <<envVars, supVars, instVars, swVars>>

\* The select takes a DiscoverResponse: the complete list the handler now
\* sees; handle_discovery_results names each device.
Receive(s) ==
    LET e == sess[s].ep IN
    /\ Sess(s, "stream")
    /\ alive[e]
    /\ sess' = [sess EXCEPT ![s].pc = "hdr",
                  ![s].vis = {InstanceName(d, e) : d \in seen[e]}]
    /\ reported' = reported \cup {<<d, e>> : d \in seen[e]}
    /\ UNCHANGED <<dhStatus, dhSince, dhGen, instances, plugins>>
    /\ UNCHANGED <<envVars, supVars, swVars>>

-----------------------------------------------------------------------------
(* handle_discovery_results and update_connectivity_status *)

\* First clone of the map: the visible names it lacks are new.
SnapshotNew(s) ==
    /\ Sess(s, "hdr")
    /\ sess' = [sess EXCEPT ![s].pc = "uc0",
                  ![s].newN = sess[s].vis \ Keys(instances)]
    /\ UNCHANGED <<dhStatus, dhSince, dhGen>>
    /\ UNCHANGED <<envVars, supVars, instVars, swVars>>

\* Second clone, taken by update_connectivity_status.
SnapshotConnectivity(s) ==
    /\ Sess(s, "uc0")
    /\ sess' = [sess EXCEPT ![s].pc = "uc", ![s].snap = instances,
                            ![s].todo = Keys(instances)]
    /\ UNCHANGED <<dhStatus, dhSince, dhGen>>
    /\ UNCHANGED <<envVars, supVars, instVars, swVars>>

\* One instance of the clone, in any order: its cloned InstanceInfo
\* decides, and the write goes to the live map.
UpdateOne(s, n) ==
    /\ Sess(s, "uc")
    /\ n \in sess[s].todo
    /\ UpdateInstance(n, sess[s].snap[n], sess[s].vis,
                      sess[s].ep \in LocalEndpoints)
    /\ sess' = [sess EXCEPT ![s].todo = @ \ {n}]
    /\ UNCHANGED <<dhStatus, dhSince, dhGen, reported>>
    /\ UNCHANGED <<envVars, supVars, swVars>>

\* build_device_plugin for one new name; on success a device plugin runs
\* and the name is inserted Online; a failure is only logged.
BuildOne(s, n) ==
    /\ Sess(s, "uc")
    /\ sess[s].todo = {}
    /\ n \in sess[s].newN
    /\ \/ /\ plugins[n] < MaxPlugins
          /\ instances' = [instances EXCEPT ![n] = OnlineInst]
          /\ plugins' = [plugins EXCEPT ![n] = @ + 1]
       \/ UNCHANGED <<instances, plugins>>
    /\ sess' = [sess EXCEPT ![s].newN = @ \ {n}]
    /\ UNCHANGED <<dhStatus, dhSince, dhGen, reported>>
    /\ UNCHANGED <<envVars, supVars, swVars>>

\* handle_discovery_results returns Ok: back to the select.
ReconcileDone(s) ==
    /\ Sess(s, "uc")
    /\ sess[s].todo = {} /\ sess[s].newN = {}
    /\ sess' = [sess EXCEPT ![s].pc = "stream", ![s].vis = {},
                  ![s].snap = [n \in Names |-> NoInst]]
    /\ UNCHANGED <<dhStatus, dhSince, dhGen>>
    /\ UNCHANGED <<envVars, supVars, instVars, swVars>>

-----------------------------------------------------------------------------
(* start_discovery task 3: check_offline_status every 30 s *)

SweepSnapshot ==
    /\ sweeper = "snap"
    /\ sweeper' = "sweep"
    /\ swSnap' = instances
    /\ swTodo' = Keys(instances)
    /\ UNCHANGED <<envVars, sessVars, supVars, instVars>>

SweepOne(n) ==
    /\ sweeper = "sweep"
    /\ n \in swTodo
    /\ IF swSnap[n].st = "Offline" /\ clock - swSnap[n].since >= InstanceGrace
       THEN Remove(n)
       ELSE UNCHANGED <<instances, plugins>>
    /\ swTodo' = swTodo \ {n}
    /\ UNCHANGED <<sweeper, swSnap, reported>>
    /\ UNCHANGED <<envVars, sessVars, supVars>>

\* The pass is over; the timeout on the stop receiver either sees the
\* stop or expires and the loop checks again.
SweepWait ==
    /\ sweeper = "sweep"
    /\ swTodo = {}
    /\ sweeper' = IF configStop THEN "done" ELSE "snap"
    /\ swSnap' = [n \in Names |-> NoInst]
    /\ UNCHANGED swTodo
    /\ UNCHANGED <<envVars, sessVars, supVars, instVars>>

-----------------------------------------------------------------------------
SessionStep(s) ==
    \/ ConnectOk(s) \/ ConnectFail(s) \/ Retry(s)
    \/ StopReceived(s) \/ StreamEnd(s) \/ BrokenPipe(s) \/ Receive(s)
    \/ SnapshotNew(s) \/ SnapshotConnectivity(s) \/ ReconcileDone(s)
    \/ \E n \in Names : UpdateOne(s, n) \/ BuildOne(s, n)

Next ==
    \/ Tick \/ ConfigDeleted
    \/ \E e \in Endpoints :
         \/ HandlerCrash(e) \/ HandlerRestart(e)
         \/ \E S \in SUBSET Devices : DevicesChange(e, S)
    \/ \E o \in Owners : DoDiscover(o)
    \/ WatchNewHandler \/ WatchStop \/ Finish
    \/ \E s \in SessionIds : SessionStep(s)
    \/ SweepSnapshot \/ SweepWait \/ \E n \in Names : SweepOne(n)

Spec == Init /\ [][Next]_vars

\* tokio runs every ready task, sleeps and timeouts end, and a stream to a
\* dead handler fails: the supervisor's, the sweeper's and the sessions'
\* own steps are weakly fair. A live handler eventually accepts a
\* connection, and a select with a pending stop eventually takes it
\* (select! picks among ready branches at random): strong fairness. What
\* a live handler sends, when its stream ends, and the environment are
\* not forced.
Fairness ==
    /\ \A o \in Owners : WF_vars(DoDiscover(o))
    /\ WF_vars(WatchNewHandler) /\ WF_vars(WatchStop) /\ WF_vars(Finish)
    /\ WF_vars(SweepSnapshot) /\ WF_vars(SweepWait)
    /\ \A n \in Names : WF_vars(SweepOne(n))
    /\ \A s \in SessionIds :
         /\ WF_vars(ConnectOk(s) \/ ConnectFail(s)) /\ SF_vars(ConnectOk(s))
         /\ WF_vars(Retry(s)) /\ WF_vars(BrokenPipe(s))
         /\ SF_vars(StopReceived(s))
         /\ WF_vars(SnapshotNew(s)) /\ WF_vars(SnapshotConnectivity(s))
         /\ WF_vars(ReconcileDone(s))
         /\ \A n \in Names : WF_vars(UpdateOne(s, n)) /\ WF_vars(BuildOne(s, n))

LiveSpec == Spec /\ Fairness

-----------------------------------------------------------------------------
(* Properties *)

TypeOK ==
    /\ clock \in Times
    /\ dhStatus \in [Endpoints -> DhStates]
    /\ dhSince \in [Endpoints -> Times]
    /\ dhGen \in [Endpoints -> Gens]
    /\ alive \in [Endpoints -> BOOLEAN]
    /\ seen \in [Endpoints -> SUBSET Devices]
    /\ regNotes \in Nat
    /\ ddPending \in [Owners -> Nat]
    /\ sess \in [SessionIds -> SessRec]
    /\ watcher \in {"run", "stopped"}
    /\ configStop \in BOOLEAN
    /\ finished \in BOOLEAN
    /\ instances \in [Names -> InstRec]
    /\ plugins \in [Names -> 0..MaxPlugins]
    /\ sweeper \in {"snap", "sweep", "done"}
    /\ swSnap \in [Names -> InstRec]
    /\ swTodo \in SUBSET Names
    /\ reported \in SUBSET (Devices \X Endpoints)

\* A concurrent remove wins: once a handler is deregistered, no late
\* set_discovery_handler_connectivity_status of a session still running
\* for it brings the entry back; only a new registration does.
RemovedHandlerStaysRemoved ==
    [][\A e \in Endpoints :
         dhStatus[e] = "Absent" /\ dhStatus'[e] # "Absent" =>
            dhGen'[e] = dhGen[e] + 1]_vars

\* I2 of the spec: every instance in the map is named for a device some
\* handler reported, by its id alone when that handler is shared and by
\* its id on this node when it is local (generate_instance_digest).
InstanceNamesReported ==
    \A n \in Keys(instances) :
        \E p \in reported : n = <<p[1], p[2] \notin LocalEndpoints>>

\* Section 3 of the spec: HasClient means that at least one session holds
\* an open stream to the handler.
HasClientMeansStream ==
    \A e \in Endpoints :
        dhStatus[e] = "HasClient" =>
            \E s \in SessionIds : sess[s].ep = e /\ sess[s].pc \in Subscribed

\* I6 of the spec: at most one session holds a stream to a handler.
AtMostOneStream ==
    \A s, t \in SessionIds :
        s # t /\ sess[s].pc \in Subscribed /\ sess[t].pc \in Subscribed
            => sess[s].ep # sess[t].ep

\* I3 of the spec: a shared instance leaves the InstanceMap only when it
\* is Offline and has been for the shared-instance grace period.
SharedInstanceRemovedAfterGrace ==
    [][\A n \in Names :
         n[2] /\ instances[n].st # "None" /\ instances'[n].st = "None" =>
            /\ instances[n].st = "Offline"
            /\ clock - instances[n].since >= InstanceGrace]_vars

\* I4 of the spec: a local instance absent from a reconcile is removed
\* before the reconcile returns, so it is never left Offline to wait out
\* the shared grace period. update_connectivity_status chooses between
\* removing and marking Offline by the is_local flag of the handler whose
\* session runs it, not by the instance's own kind, and every handler of
\* the protocol reconciles the one InstanceMap of the Configuration.
LocalInstancesNeverOffline ==
    \A n \in Keys(instances) : ~n[2] => instances[n].st = "Online"

\* Once the Configuration is deleted, start_discovery eventually sends
\* finished_all_discovery: every session hears the stop and ends, and the
\* tasks are joined (provided the handlers stay up, so that no session is
\* left retrying a dead handler within the bounded clock).
ShutdownCompletes ==
    <>[](\A e \in Endpoints : alive[e]) => (configStop ~> finished)

\* The status the registry abstraction sees: Online and HasClient are both
\* up, Offline(instant) is down since that instant.
AbsStatus ==
    [e \in Endpoints |-> IF dhStatus[e] = "Offline" THEN "Down"
                         ELSE IF dhStatus[e] = "Absent" THEN "Absent"
                         ELSE "Up"]

Registry == INSTANCE HandlerRegistry
                WITH status <- AbsStatus, since <- dhSince, gen <- dhGen

\* The handler map, as the sessions, the registration server and the
\* clock change it, implements HandlerRegistry: entries enter only by
\* registration, go down and up, and leave only after the grace period.
RegistrySpec == Registry!Spec

\* A device plugin is built at most once for an instance name: two
\* reconciliations that both cloned the map before either built (the new
\* names are computed from a clone, the build comes after an await) must
\* not both call build_device_plugin for the same name.
PluginBuiltOnce ==
    \A n \in Names : plugins[n] <= 1

\* Every instance in the InstanceMap is served by a live device plugin
\* (the map entry holds the sender of its list_and_watch).
InstancesServed ==
    \A n \in Keys(instances) : plugins[n] > 0
=============================================================================
