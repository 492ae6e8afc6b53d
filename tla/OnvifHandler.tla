---------------------------- MODULE OnvifHandler ----------------------------
(***************************************************************************)
(* The discover call of the ONVIF Discovery Handler (discovery-handlers/   *)
(* onvif/src/discovery_handler.rs). It spawns a task that, every           *)
(* DISCOVERY_INTERVAL_SECS, probes the network (simple_onvif_discover),    *)
(* filters what answered (apply_filters), compares the result with the     *)
(* list it sent last and, when it differs, sends the new list on a bounded *)
(* mpsc channel. A failed send (the receiver is gone) is reported on the   *)
(* shutdown sender, which makes the handler's main register again, and     *)
(* ends the task.                                                          *)
(*                                                                         *)
(* A camera is a model value; a probe's filtered result is a sequence of   *)
(* cameras from the set Scans, which may repeat a camera when the network  *)
(* answers twice.                                                          *)
(***************************************************************************)
EXTENDS Naturals, Sequences, FiniteSets, Functions

CONSTANTS
    Calls,        \* the discover requests the handler serves
    Cameras,      \* the cameras that can answer a probe
    Capacity,     \* mpsc::channel(4)
    ConfigValid,  \* whether deserialize_discovery_details accepts the details
    Scans,        \* the lists simple_onvif_discover + apply_filters can yield
    ProbeFails,   \* whether simple_onvif_discover can return an error
    MaxProbes     \* bound on the probes of a task

ASSUME CallsAssumption == IsFiniteSet(Calls)
ASSUME ScansAssumption == Scans \subseteq Seq(Cameras)
ASSUME CapacityAssumption == Capacity \in Nat \ {0}
ASSUME ProbeAssumption == ProbeFails \in BOOLEAN /\ MaxProbes \in Nat

VARIABLES
    task,      \* per call: the task's place, its locals and its probe count
    chan,      \* per call: the responses buffered in the mpsc channel
    rx,        \* per call: the receiver, "none" before discover returns
    last,      \* per call: the list the operator received last
    notes      \* shutdown_sender messages not yet taken by register_again

vars == <<task, chan, rx, last, notes>>

Pcs == {"idle", "failed", "probe", "compare", "send", "notify", "sleep",
        "ended", "panicked"}
TaskRec == [pc : Pcs, cameras : Scans \cup {<<>>}, found : Scans \cup {<<>>},
            probes : 0..MaxProbes]

-----------------------------------------------------------------------------
Init ==
    /\ task = [c \in Calls |->
                 [pc |-> "idle", cameras |-> <<>>, found |-> <<>>,
                  probes |-> 0]]
    /\ chan = [c \in Calls |-> <<>>]
    /\ rx = [c \in Calls |-> "none"]
    /\ last = [c \in Calls |-> "none"]
    /\ notes = 0

\* discover: an invalid configuration is refused with InvalidArgument; a
\* valid one spawns the task with an empty camera list.
Discover(c) ==
    /\ task[c].pc = "idle"
    /\ IF ConfigValid
       THEN /\ task' = [task EXCEPT ![c].pc = "probe"]
            /\ rx' = [rx EXCEPT ![c] = "open"]
       ELSE /\ task' = [task EXCEPT ![c].pc = "failed"]
            /\ UNCHANGED rx
    /\ UNCHANGED <<chan, last, notes>>

\* simple_onvif_discover(..).await.unwrap() and apply_filters: the filtered
\* list, or a panic of the task on a probe error, which drops tx.
Probe(c) ==
    /\ task[c].pc = "probe"
    /\ task[c].probes < MaxProbes
    /\ \/ \E s \in Scans :
            task' = [task EXCEPT ![c].pc = "compare", ![c].found = s,
                                 ![c].probes = @ + 1]
       \/ /\ ProbeFails
          /\ task' = [task EXCEPT ![c].pc = "panicked"]
    /\ UNCHANGED <<chan, rx, last, notes>>

\* Mutant: the list counted as changed only when a camera is new to it.
ChangedNewOnly(found, cameras) ==
    \E i \in DOMAIN found : found[i] \notin Range(cameras)

\* changed_camera_list || matching_camera_count != cameras.len()
Changed(found, cameras) ==
    LET matching == Cardinality({i \in DOMAIN found : found[i] \in Range(cameras)})
    IN \/ \E i \in DOMAIN found : found[i] \notin Range(cameras)
       \/ matching # Len(cameras)

\* A changed list becomes the task's cameras and is sent; otherwise the
\* task sleeps.
Compare(c) ==
    LET t == task[c] IN
    /\ t.pc = "compare"
    /\ task' = [task EXCEPT ![c] =
                  IF Changed(t.found, t.cameras)
                  THEN [t EXCEPT !.pc = "send", !.cameras = t.found]
                  ELSE [t EXCEPT !.pc = "sleep"]]
    /\ UNCHANGED <<chan, rx, last, notes>>

\* tx.send(..).await: an error once the receiver is dropped; otherwise it
\* waits for room in the channel.
Send(c) ==
    /\ task[c].pc = "send"
    /\ \/ /\ rx[c] = "dropped"
          /\ task' = [task EXCEPT ![c].pc = "notify"]
          /\ UNCHANGED chan
       \/ /\ rx[c] = "open"
          /\ Len(chan[c]) < Capacity
          /\ chan' = [chan EXCEPT ![c] = Append(@, task[c].found)]
          /\ task' = [task EXCEPT ![c].pc = "sleep"]
    /\ UNCHANGED <<rx, last, notes>>

\* Mutant: the loop goes on after reporting the failed send.
NotifyNoBreak(c) ==
    /\ task[c].pc = "notify"
    /\ notes' = notes + 1
    /\ task' = [task EXCEPT ![c].pc = "sleep"]
    /\ UNCHANGED <<chan, rx, last>>

\* sender.send(()).await.unwrap() on the shutdown sender, then break.
Notify(c) ==
    /\ task[c].pc = "notify"
    /\ notes' = notes + 1
    /\ task' = [task EXCEPT ![c].pc = "ended"]
    /\ UNCHANGED <<chan, rx, last>>

\* delay_for(DISCOVERY_INTERVAL_SECS) is over.
Wake(c) ==
    /\ task[c].pc = "sleep"
    /\ task' = [task EXCEPT ![c].pc = "probe"]
    /\ UNCHANGED <<chan, rx, last, notes>>

-----------------------------------------------------------------------------
(* The environment: the operator's end of the stream, and register_again *)

Receive(c) ==
    /\ rx[c] = "open"
    /\ chan[c] # <<>>
    /\ last' = [last EXCEPT ![c] = Head(chan[c])]
    /\ chan' = [chan EXCEPT ![c] = Tail(@)]
    /\ UNCHANGED <<task, rx, notes>>

DropStream(c) ==
    /\ rx[c] = "open"
    /\ rx' = [rx EXCEPT ![c] = "dropped"]
    /\ chan' = [chan EXCEPT ![c] = <<>>]
    /\ UNCHANGED <<task, last, notes>>

\* register_again takes a notification and registers the handler again.
ReRegister ==
    /\ notes > 0
    /\ notes' = notes - 1
    /\ UNCHANGED <<task, chan, rx, last>>

Next ==
    \/ ReRegister
    \/ \E c \in Calls :
         \/ Discover(c) \/ Probe(c) \/ Compare(c) \/ Send(c) \/ Notify(c)
         \/ Wake(c) \/ Receive(c) \/ DropStream(c)

Spec == Init /\ [][Next]_vars

-----------------------------------------------------------------------------
(* Properties *)

TypeOK ==
    /\ task \in [Calls -> TaskRec]
    /\ chan \in [Calls -> Seq(Scans)]
    /\ \A c \in Calls : Len(chan[c]) <= Capacity
    /\ rx \in [Calls -> {"none", "open", "dropped"}]
    /\ last \in [Calls -> Scans \cup {"none"}]
    /\ notes \in 0..Cardinality(Calls)

\* When the task has compared and gone to sleep with the stream open and
\* drained, the list the operator holds names exactly the cameras the
\* last probe found: no camera that vanished is still reported.
ReportCurrent ==
    \A c \in Calls :
        /\ task[c].pc = "sleep" /\ rx[c] = "open" /\ chan[c] = <<>>
        /\ last[c] # "none"
        => Range(last[c]) = Range(task[c].found)
=============================================================================
