-------------------------- MODULE DebugEchoHandler --------------------------
(***************************************************************************)
(* The debugEcho Discovery Handler (discovery-handlers/debug-echo/src/     *)
(* discovery_handler.rs). Each call of discover parses the configuration,  *)
(* reads the availability file, and spawns a task that polls the file    *)
(* every DISCOVERY_INTERVAL_SECS and sends a DiscoverResponse on a        *)
(* bounded mpsc channel whenever the availability it last sent changes.  *)
(* The receiving end is the stream of an operator session, which reads    *)
(* responses and may drop the stream.                                     *)
(*                                                                         *)
(* The file's content matters only through whether it contains OFFLINE,   *)
(* and a response only through whether its device list is empty.         *)
(***************************************************************************)
EXTENDS Naturals, Sequences

CONSTANTS
    Calls,        \* the discover requests the handler serves
    Capacity,     \* mpsc::channel(4)
    ConfigValid,  \* whether get_configuration accepts the discovery details
    MaxChanges    \* bound on the edits of the availability file

ASSUME CapacityAssumption == Capacity \in Nat \ {0}
ASSUME ConfigAssumption == ConfigValid \in BOOLEAN
ASSUME ChangesAssumption == MaxChanges \in Nat

VARIABLES
    avail,     \* the availability file: "offline" when it contains OFFLINE
    changes,   \* edits of the file so far
    task,      \* per call: the discover call and the task it spawned
    chan,      \* per call: the responses buffered in the mpsc channel
    rx,        \* per call: the receiver, "none" before discover returns
    last       \* per call: the response the operator received last

vars == <<avail, changes, task, chan, rx, last>>

Avail == {"online", "offline"}
Responses == {"empty", "devices"}
Pcs == {"idle", "failed", "read", "send", "sleep", "ended"}
TaskRec == [pc : Pcs, offline : BOOLEAN, first : BOOLEAN,
            msg : Responses \cup {"none"}]

-----------------------------------------------------------------------------
Init ==
    /\ avail \in Avail
    /\ changes = 0
    /\ task = [c \in Calls |->
                 [pc |-> "idle", offline |-> FALSE, first |-> TRUE,
                  msg |-> "none"]]
    /\ chan = [c \in Calls |-> <<>>]
    /\ rx = [c \in Calls |-> "none"]
    /\ last = [c \in Calls |-> "none"]

\* discover: the configuration is parsed (an invalid one is refused with
\* InvalidArgument before anything is spawned), the file is read once to
\* initialise offline, the task is spawned and the receiver returned.
Discover(c) ==
    /\ task[c].pc = "idle"
    /\ IF ConfigValid
       THEN /\ task' = [task EXCEPT ![c] = [@ EXCEPT !.pc = "read",
                                              !.offline = (avail = "offline")]]
            /\ rx' = [rx EXCEPT ![c] = "open"]
       ELSE /\ task' = [task EXCEPT ![c].pc = "failed"]
            /\ UNCHANGED rx
    /\ UNCHANGED <<avail, changes, chan, last>>

\* Mutant: the first-iteration clauses left out of both conditions.
ReadNoFirst(c) ==
    LET t == task[c]
        off == avail = "offline"
    IN /\ t.pc = "read"
       /\ task' = [task EXCEPT ![c] =
                     IF off /\ ~t.offline
                     THEN [t EXCEPT !.pc = "send", !.offline = TRUE,
                                    !.first = FALSE, !.msg = "empty"]
                     ELSE IF ~off /\ t.offline
                     THEN [t EXCEPT !.pc = "send", !.offline = FALSE,
                                    !.first = FALSE, !.msg = "devices"]
                     ELSE [t EXCEPT !.pc = "sleep"]]
       /\ UNCHANGED <<avail, changes, chan, rx, last>>

\* One turn of the task's loop: the file is read again; a response is due
\* when the availability differs from the one last sent, or on the first
\* turn; otherwise the task goes to sleep.
Read(c) ==
    LET t == task[c]
        off == avail = "offline"
    IN /\ t.pc = "read"
       /\ task' = [task EXCEPT ![c] =
                     IF (off /\ ~t.offline) \/ (t.offline /\ t.first)
                     THEN [t EXCEPT !.pc = "send", !.offline = TRUE,
                                    !.first = FALSE, !.msg = "empty"]
                     ELSE IF (~off /\ t.offline) \/ (~t.offline /\ t.first)
                     THEN [t EXCEPT !.pc = "send", !.offline = FALSE,
                                    !.first = FALSE, !.msg = "devices"]
                     ELSE [t EXCEPT !.pc = "sleep"]]
       /\ UNCHANGED <<avail, changes, chan, rx, last>>

\* Mutant: a send that does not wait for room in the channel.
SendUnbounded(c) ==
    /\ task[c].pc = "send"
    /\ \/ /\ rx[c] = "dropped"
          /\ task' = [task EXCEPT ![c].pc = "ended"]
          /\ UNCHANGED chan
       \/ /\ rx[c] = "open"
          /\ chan' = [chan EXCEPT ![c] = Append(@, task[c].msg)]
          /\ task' = [task EXCEPT ![c].pc = "sleep"]
    /\ UNCHANGED <<avail, changes, rx, last>>

\* tx.send(..).await: an error once the receiver is dropped ends the task;
\* otherwise it waits for room in the channel.
Send(c) ==
    /\ task[c].pc = "send"
    /\ \/ /\ rx[c] = "dropped"
          /\ task' = [task EXCEPT ![c].pc = "ended"]
          /\ UNCHANGED chan
       \/ /\ rx[c] = "open"
          /\ Len(chan[c]) < Capacity
          /\ chan' = [chan EXCEPT ![c] = Append(@, task[c].msg)]
          /\ task' = [task EXCEPT ![c].pc = "sleep"]
    /\ UNCHANGED <<avail, changes, rx, last>>

\* delay_for(DISCOVERY_INTERVAL_SECS) is over.
Wake(c) ==
    /\ task[c].pc = "sleep"
    /\ task' = [task EXCEPT ![c].pc = "read"]
    /\ UNCHANGED <<avail, changes, chan, rx, last>>

-----------------------------------------------------------------------------
(* The environment: the operator's end of the stream, and the file *)

\* stream.get_message() in the operator's internal_do_discover.
Receive(c) ==
    /\ rx[c] = "open"
    /\ chan[c] # <<>>
    /\ last' = [last EXCEPT ![c] = Head(chan[c])]
    /\ chan' = [chan EXCEPT ![c] = Tail(@)]
    /\ UNCHANGED <<avail, changes, task, rx>>

\* The operator's session ends and drops the stream, and with it the
\* receiver and what it buffered.
DropStream(c) ==
    /\ rx[c] = "open"
    /\ rx' = [rx EXCEPT ![c] = "dropped"]
    /\ chan' = [chan EXCEPT ![c] = <<>>]
    /\ UNCHANGED <<avail, changes, task, last>>

FileChange ==
    /\ changes < MaxChanges
    /\ changes' = changes + 1
    /\ avail' = IF avail = "online" THEN "offline" ELSE "online"
    /\ UNCHANGED <<task, chan, rx, last>>

Next ==
    \/ FileChange
    \/ \E c \in Calls :
         Discover(c) \/ Read(c) \/ Send(c) \/ Wake(c) \/ Receive(c)
         \/ DropStream(c)

Spec == Init /\ [][Next]_vars

\* The spawned task is scheduled by tokio and its sleep always ends; the
\* operator's session keeps reading an open stream. Neither the file, nor
\* the operator's calls and drops, are forced to happen.
Fairness ==
    \A c \in Calls :
        /\ WF_vars(Read(c)) /\ WF_vars(Send(c)) /\ WF_vars(Wake(c))
        /\ WF_vars(Receive(c))

LiveSpec == Spec /\ Fairness

-----------------------------------------------------------------------------
(* Properties *)

TypeOK ==
    /\ avail \in Avail
    /\ changes \in 0..MaxChanges
    /\ task \in [Calls -> TaskRec]
    /\ chan \in [Calls -> Seq(Responses)]
    /\ \A c \in Calls : Len(chan[c]) <= Capacity
    /\ rx \in [Calls -> {"none", "open", "dropped"}]
    /\ last \in [Calls -> Responses \cup {"none"}]

\* The response that describes the file as it is.
Expected == IF avail = "offline" THEN "empty" ELSE "devices"

\* A stream that stays open comes to report, and keep reporting, what the
\* file says once it stops changing: whether the file was read before or
\* after the spawn, whatever the channel held, the first turn's response
\* and the change detection of later turns bring the operator up to date.
ReportConverges ==
    \A c \in Calls : <>[](rx[c] = "open") => <>[](last[c] = Expected)
=============================================================================
