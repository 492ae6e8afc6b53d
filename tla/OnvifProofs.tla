---------------------------- MODULE OnvifProofs ----------------------------
(***************************************************************************)
(* Proofs about OnvifHandler for every value of the constants: the type    *)
(* invariant (the channel never exceeds its capacity, and no more          *)
(* re-registration notices wait than tasks have ended), and that a task    *)
(* asleep on an open, drained stream has told the operator exactly the     *)
(* cameras of its last probe, when probes list each camera once.           *)
(***************************************************************************)
EXTENDS OnvifHandler, FiniteSetTheorems, SequenceTheorems, TLAPS

USE CallsAssumption, ScansAssumption, CapacityAssumption, ProbeAssumption
USE DEF Pcs

\* The calls whose task has ended after reporting a failed send.
Ended == {c \in Calls : task[c].pc = "ended"}

\* TypeOK is not inductive: a send appends the task's found list, which
\* the type allows to be the empty list the task starts with; and notes
\* is bounded because each task notifies once, on its way to "ended".
TypeInv ==
    /\ TypeOK
    /\ \A c \in Calls : task[c].pc \in {"compare", "send"} => task[c].found \in Scans
    /\ notes <= Cardinality(Ended)

\* What the operator will hold once it has read the channel: the last
\* response buffered, or the last one it received.
Reported(c) == IF chan[c] # <<>> THEN chan[c][Len(chan[c])] ELSE last[c]

\* The strengthening of ReportCurrent, for one call. The receiver opens
\* only as discover spawns the task and closes before a failed send is
\* reported. Between Compare and Send the task's cameras are ahead of what
\* was reported; at every other point of an open stream the report is the
\* task's cameras, and a sleeping task's last probe found the same cameras.
CallInv(c) ==
    /\ task[c].pc \in {"idle", "failed"} => rx[c] = "none"
    /\ task[c].pc \in {"notify", "ended"} => rx[c] = "dropped"
    /\ rx[c] = "none" => chan[c] = <<>> /\ last[c] = "none"
    /\ rx[c] = "open" =>
          /\ task[c].pc = "send" => task[c].cameras = task[c].found
          /\ task[c].pc = "sleep" => Range(task[c].found) = Range(task[c].cameras)
          /\ task[c].pc # "send" /\ Reported(c) # "none" =>
                Reported(c) = task[c].cameras

ReportInv == \A c \in Calls : CallInv(c)

-----------------------------------------------------------------------------
(* The type invariant                                                      *)

\* Writing one task record that neither leaves nor reaches "ended" keeps
\* the set of ended tasks.
LEMMA TaskStep ==
    ASSUME task \in [Calls -> TaskRec], NEW c \in Calls, NEW r \in TaskRec,
           task[c].pc # "ended", r.pc # "ended",
           task' = [task EXCEPT ![c] = r]
    PROVE  task' \in [Calls -> TaskRec] /\ Ended' = Ended
BY DEF Ended

\* A task that reaches "ended" joins the ended set.
LEMMA TaskEnds ==
    ASSUME task \in [Calls -> TaskRec], NEW c \in Calls, NEW r \in TaskRec,
           task[c].pc # "ended", r.pc = "ended",
           task' = [task EXCEPT ![c] = r]
    PROVE  task' \in [Calls -> TaskRec] /\ Ended' = Ended \cup {c}
           /\ c \notin Ended
BY DEF Ended

\* The ended tasks are finitely many, at most the calls.
LEMMA EndedBound ==
    ASSUME task \in [Calls -> TaskRec]
    PROVE  IsFiniteSet(Ended) /\ Cardinality(Ended) <= Cardinality(Calls)
BY FS_Subset DEF Ended

\* A step that leaves the tasks and notes alone keeps the counting part.
LEMMA NotesUnchanged ==
    ASSUME TypeInv, UNCHANGED <<task, notes>>
    PROVE  notes' <= Cardinality(Ended') /\ notes' \in 0..Cardinality(Calls)
BY DEF TypeInv, TypeOK, Ended

\* A step of one task alone, which neither leaves nor reaches "ended" and
\* holds a probed list whenever it compares or sends.
LEMMA TaskOnlyStep ==
    ASSUME TypeInv, NEW c \in Calls, NEW r \in TaskRec,
           task[c].pc # "ended", r.pc # "ended",
           r.pc \in {"compare", "send"} => r.found \in Scans,
           task' = [task EXCEPT ![c] = r], UNCHANGED <<chan, rx, last, notes>>
    PROVE  TypeInv'
<1>1. task' \in [Calls -> TaskRec] /\ Ended' = Ended
  BY TaskStep DEF TypeInv, TypeOK
<1>2. \A d \in Calls : task'[d].pc \in {"compare", "send"} => task'[d].found \in Scans
  BY DEF TypeInv, TypeOK
<1>3. QED
  BY <1>1, <1>2 DEF TypeInv, TypeOK

LEMMA InitTypeInv == Init => TypeInv
<1> SUFFICES ASSUME Init PROVE TypeInv
  OBVIOUS
<1>1. Ended = {} /\ Cardinality(Calls) \in Nat
  BY FS_CardinalityType DEF Init, Ended
<1>2. QED
  BY <1>1, FS_EmptySet DEF Init, TypeInv, TypeOK, TaskRec

\* discover moves the idle task to "probe" (opening the receiver) or to
\* "failed".
LEMMA DiscoverTypeInv ==
    ASSUME TypeInv, NEW c \in Calls, Discover(c)
    PROVE  TypeInv'
<1>1. task \in [Calls -> TaskRec] /\ task[c].pc = "idle"
  BY DEF TypeInv, TypeOK, Discover
<1>2. PICK pc \in {"probe", "failed"} :
        /\ task' = [task EXCEPT ![c] = [task[c] EXCEPT !.pc = pc]]
        /\ rx' \in [Calls -> {"none", "open", "dropped"}]
  BY DEF Discover, TypeInv, TypeOK
<1>3. [task[c] EXCEPT !.pc = pc] \in TaskRec
      /\ [task[c] EXCEPT !.pc = pc].pc # "ended"
  BY <1>1, Zenon DEF TaskRec
<1>4. task' \in [Calls -> TaskRec] /\ Ended' = Ended
  BY <1>1, <1>2, <1>3, TaskStep
<1>5. QED
  BY <1>1, <1>2, <1>4 DEF Discover, TypeInv, TypeOK

\* A probe yields one of the lists of Scans, or panics the task.
LEMMA ProbeTypeInv ==
    ASSUME TypeInv, NEW c \in Calls, Probe(c)
    PROVE  TypeInv'
<1>0. task[c] \in TaskRec
  BY DEF TypeInv, TypeOK
<1>1. task[c] \in TaskRec /\ task[c].pc = "probe"
      /\ task[c].probes + 1 \in 0..MaxProbes
  <2>1. task[c].probes \in 0..MaxProbes /\ task[c].probes < MaxProbes
    BY <1>0 DEF Probe, TaskRec
  <2>2. task[c].pc = "probe"
    BY DEF Probe
  <2>3. task[c].probes + 1 \in 0..MaxProbes
    BY <2>1
  <2>4. QED
    BY <1>0, <2>2, <2>3
<1>2. UNCHANGED <<chan, rx, last, notes>>
  BY DEF Probe
<1>3. CASE \E sc \in Scans :
             task' = [task EXCEPT ![c] = [task[c] EXCEPT !.pc = "compare",
                                          !.found = sc, !.probes = @ + 1]]
  <2>1. PICK sc \in Scans :
             task' = [task EXCEPT ![c] = [task[c] EXCEPT !.pc = "compare",
                                          !.found = sc, !.probes = @ + 1]]
    BY <1>3
  <2> DEFINE r == [task[c] EXCEPT !.pc = "compare", !.found = sc,
                                  !.probes = task[c].probes + 1]
  <2>2. r \in TaskRec /\ r.pc = "compare" /\ r.found = sc
    BY <1>1, Zenon DEF TaskRec
  <2>3. QED
    BY <1>1, <1>2, <2>1, <2>2, TaskOnlyStep
<1>4. CASE task' = [task EXCEPT ![c] = [task[c] EXCEPT !.pc = "panicked"]]
  <2> DEFINE r == [task[c] EXCEPT !.pc = "panicked"]
  <2>1. r \in TaskRec /\ r.pc = "panicked"
    BY <1>1, Zenon DEF TaskRec
  <2>2. QED
    BY <1>1, <1>2, <1>4, <2>1, TaskOnlyStep
<1>5. QED
  BY <1>3, <1>4 DEF Probe


\* The change test either sends the probed list, which becomes the task's
\* cameras, or puts the task to sleep.
LEMMA CompareTypeInv ==
    ASSUME TypeInv, NEW c \in Calls, Compare(c)
    PROVE  TypeInv'
<1> DEFINE t == task[c]
<1>1. t \in TaskRec /\ t.pc = "compare" /\ t.found \in Scans
  BY DEF TypeInv, TypeOK, Compare
<1>2. UNCHANGED <<chan, rx, last, notes>>
  BY DEF Compare
<1>3. CASE Changed(t.found, t.cameras)
  <2> DEFINE r == [t EXCEPT !.pc = "send", !.cameras = t.found]
  <2>1. r \in TaskRec /\ r.pc = "send" /\ r.found = t.found
    BY <1>1, Zenon DEF TaskRec
  <2>2. task' = [task EXCEPT ![c] = r]
    BY <1>3 DEF Compare
  <2>3. QED
    BY <1>1, <1>2, <2>1, <2>2, TaskOnlyStep
<1>4. CASE ~Changed(t.found, t.cameras)
  <2> DEFINE r == [t EXCEPT !.pc = "sleep"]
  <2>1. r \in TaskRec /\ r.pc = "sleep"
    BY <1>1, Zenon DEF TaskRec
  <2>2. task' = [task EXCEPT ![c] = r]
    BY <1>4 DEF Compare
  <2>3. QED
    BY <1>1, <1>2, <2>1, <2>2, TaskOnlyStep
<1>5. QED
  BY <1>3, <1>4

\* A send on a dropped receiver goes on to report it; on an open one it
\* waits for room, so the channel never exceeds its capacity.
LEMMA SendTypeInv ==
    ASSUME TypeInv, NEW c \in Calls, Send(c)
    PROVE  TypeInv'
<1> DEFINE t == task[c]
<1>1. t \in TaskRec /\ t.pc = "send" /\ t.found \in Scans
  BY DEF TypeInv, TypeOK, Send
<1>2. CASE rx[c] = "dropped"
  <2> DEFINE r == [t EXCEPT !.pc = "notify"]
  <2>1. r \in TaskRec /\ r.pc = "notify"
    BY <1>1, Zenon DEF TaskRec
  <2>2. task' = [task EXCEPT ![c] = r] /\ UNCHANGED <<chan, rx, last, notes>>
    BY <1>2 DEF Send
  <2>3. QED
    BY <1>1, <2>1, <2>2, TaskOnlyStep
<1>3. CASE rx[c] = "open"
  <2> DEFINE r == [t EXCEPT !.pc = "sleep"]
  <2>1. r \in TaskRec /\ r.pc = "sleep"
    BY <1>1, Zenon DEF TaskRec
  <2>2. /\ task' = [task EXCEPT ![c] = r]
        /\ Len(chan[c]) < Capacity
        /\ chan' = [chan EXCEPT ![c] = Append(chan[c], t.found)]
        /\ UNCHANGED <<rx, last, notes>>
    BY <1>3 DEF Send
  <2>3. task' \in [Calls -> TaskRec] /\ Ended' = Ended
    BY <1>1, <2>1, <2>2, TaskStep DEF TypeInv, TypeOK
  <2>4. /\ chan' \in [Calls -> Seq(Scans)]
        /\ \A d \in Calls : Len(chan'[d]) <= Capacity
    BY <1>1, <2>2 DEF TypeInv, TypeOK
  <2>5. \A d \in Calls : task'[d].pc \in {"compare", "send"} => task'[d].found \in Scans
    BY <2>1, <2>2 DEF TypeInv, TypeOK
  <2>6. QED
    BY <2>2, <2>3, <2>4, <2>5 DEF TypeInv, TypeOK
<1>4. QED
  BY <1>2, <1>3 DEF Send

\* The failed send is reported once, as the task ends: one more notice,
\* one more ended task.
LEMMA NotifyTypeInv ==
    ASSUME TypeInv, NEW c \in Calls, Notify(c)
    PROVE  TypeInv'
<1> DEFINE t == task[c]
        r == [t EXCEPT !.pc = "ended"]
<1>1. t \in TaskRec /\ t.pc = "notify"
  BY DEF TypeInv, TypeOK, Notify
<1>2. r \in TaskRec /\ r.pc = "ended"
  BY <1>1, Zenon DEF TaskRec
<1>3. /\ task' = [task EXCEPT ![c] = r] /\ notes' = notes + 1
      /\ UNCHANGED <<chan, rx, last>>
  BY DEF Notify
<1>4. task' \in [Calls -> TaskRec] /\ Ended' = Ended \cup {c} /\ c \notin Ended
  BY <1>1, <1>2, <1>3, TaskEnds DEF TypeInv, TypeOK
<1>5. /\ Cardinality(Ended') = Cardinality(Ended) + 1
      /\ Cardinality(Ended') <= Cardinality(Calls)
      /\ Cardinality(Ended) \in Nat
  <2>1. IsFiniteSet(Ended) /\ Cardinality(Ended) \in Nat
    BY EndedBound, FS_CardinalityType DEF TypeInv, TypeOK
  <2>2. Cardinality(Ended') = Cardinality(Ended) + 1
    BY <1>4, <2>1, FS_AddElement
  <2>3. Ended' \in SUBSET Calls
    BY <1>4 DEF Ended
  <2>4. Cardinality(Ended') <= Cardinality(Calls)
    BY <2>3, FS_Subset
  <2>5. QED
    BY <2>1, <2>2, <2>4
<1>6. notes' <= Cardinality(Ended') /\ notes' \in 0..Cardinality(Calls)
  <2>1. notes \in Nat /\ notes <= Cardinality(Ended)
    BY DEF TypeInv, TypeOK
  <2>2. notes' = notes + 1
    BY <1>3
  <2>3. Cardinality(Calls) \in Nat
    BY FS_CardinalityType
  <2>4. QED
    BY <1>5, <2>1, <2>2, <2>3
<1>7. \A d \in Calls : task'[d].pc \in {"compare", "send"} => task'[d].found \in Scans
  BY <1>2, <1>3 DEF TypeInv, TypeOK
<1>8. QED
  BY <1>3, <1>4, <1>6, <1>7 DEF TypeInv, TypeOK

\* The end of the sleep: the loop probes again.
LEMMA WakeTypeInv ==
    ASSUME TypeInv, NEW c \in Calls, Wake(c)
    PROVE  TypeInv'
<1> DEFINE r == [task[c] EXCEPT !.pc = "probe"]
<1>1. task[c] \in TaskRec /\ task[c].pc = "sleep"
  BY DEF TypeInv, TypeOK, Wake
<1>2. r \in TaskRec /\ r.pc = "probe"
  BY <1>1, Zenon DEF TaskRec
<1>3. QED
  BY <1>1, <1>2, TaskOnlyStep DEF Wake

\* The operator's reads and drops only shorten a channel.
LEMMA StreamTypeInv ==
    ASSUME TypeInv, NEW c \in Calls, Receive(c) \/ DropStream(c)
    PROVE  TypeInv'
<1>1. chan[c] \in Seq(Scans) /\ Len(chan[c]) <= Capacity
  BY DEF TypeInv, TypeOK
<1>2. UNCHANGED <<task, notes>>
  BY DEF Receive, DropStream
<1>3. notes' <= Cardinality(Ended') /\ notes' \in 0..Cardinality(Calls)
  BY <1>2, NotesUnchanged
<1>4. CASE Receive(c)
  <2>1. chan[c] # <<>> /\ Head(chan[c]) \in Scans
    BY <1>1, <1>4 DEF Receive
  <2>2. Tail(chan[c]) \in Seq(Scans) /\ Len(Tail(chan[c])) <= Capacity
    BY <1>1, <2>1
  <2>3. QED
    BY <1>2, <1>3, <1>4, <2>1, <2>2 DEF Receive, TypeInv, TypeOK
<1>5. CASE DropStream(c)
  BY <1>2, <1>3, <1>5 DEF DropStream, TypeInv, TypeOK
<1>6. QED
  BY <1>4, <1>5

\* register_again takes one notice.
LEMMA ReRegisterTypeInv ==
    ASSUME TypeInv, ReRegister
    PROVE  TypeInv'
<1>1. notes \in Nat /\ notes <= Cardinality(Ended) /\ notes > 0
      /\ notes' = notes - 1 /\ UNCHANGED <<task, chan, rx, last>>
  BY DEF TypeInv, TypeOK, ReRegister
<1>2. Cardinality(Ended') = Cardinality(Ended)
  BY <1>1 DEF Ended
<1>3. notes' <= Cardinality(Ended') /\ notes' \in 0..Cardinality(Calls)
  <2>1. notes \in 0..Cardinality(Calls) /\ Cardinality(Calls) \in Nat
    BY FS_CardinalityType DEF TypeInv, TypeOK
  <2>2. Cardinality(Ended) \in Nat
    BY EndedBound, FS_CardinalityType DEF TypeInv, TypeOK
  <2>3. QED
    BY <1>1, <1>2, <2>1, <2>2
<1>4. QED
  BY <1>1, <1>3 DEF TypeInv, TypeOK

LEMMA NextTypeInv == TypeInv /\ [Next]_vars => TypeInv'
<1> SUFFICES ASSUME TypeInv, [Next]_vars PROVE TypeInv'
  OBVIOUS
<1>1. CASE UNCHANGED vars
  BY <1>1, NotesUnchanged DEF vars, TypeInv, TypeOK, Ended
<1>2. QED
  BY <1>1, DiscoverTypeInv, ProbeTypeInv, CompareTypeInv, SendTypeInv,
     NotifyTypeInv, WakeTypeInv, StreamTypeInv, ReRegisterTypeInv DEF Next

\* Every state of the ONVIF handler is well typed: no call's channel holds
\* more than Capacity lists, and no more re-registration notices wait
\* than there are calls.
THEOREM TypeCorrect == Spec => []TypeOK
<1>1. TypeInv => TypeOK
  BY DEF TypeInv
<1>2. QED
  BY <1>1, InitTypeInv, NextTypeInv, PTL DEF Spec


-----------------------------------------------------------------------------
(* The operator's list stays current                                       *)

\* What ONVIF guarantees of a probe here: each camera answers once.
NoRepeats == \A sc \in Scans : IsInjective(sc)

\* A list that repeats no camera has as many cameras as entries.
LEMMA InjectiveCard ==
    ASSUME NEW X, NEW f \in Seq(X), IsInjective(f)
    PROVE  IsFiniteSet(Range(f)) /\ Cardinality(Range(f)) = Len(f)
<1>1. f \in Bijection(1..Len(f), Range(f))
  BY DEF Bijection, Injection, Surjection, Range
<1>2. IsFiniteSet(1..Len(f)) /\ Cardinality(1..Len(f)) = Len(f)
  BY FS_Interval
<1>3. QED
  BY <1>1, <1>2, FS_Bijection DEF ExistsBijection

\* The positions 1..n of a list of length n number n.
LEMMA IntervalCard ==
    ASSUME NEW n \in Nat
    PROVE  IsFiniteSet(1..n) /\ Cardinality(1..n) = n
BY FS_Interval

\* The change test of lines 105-114 is exact for lists without repeats:
\* when it finds no change, the probe saw exactly the cameras last sent.
LEMMA UnchangedSameRange ==
    ASSUME NEW X, NEW f \in Seq(X), NEW g \in Seq(X),
           IsInjective(f), IsInjective(g), ~Changed(f, g)
    PROVE  Range(f) = Range(g)
<1>1. Range(f) \subseteq Range(g)
  BY DEF Changed, Range
<1>2. Cardinality({i \in DOMAIN f : f[i] \in Range(g)}) = Len(g)
  BY DEF Changed
<1>3. {i \in DOMAIN f : f[i] \in Range(g)} = 1..Len(f)
  BY <1>1 DEF Range
<1>4. Len(f) = Len(g)
  <2>0. Len(f) \in Nat
    BY LenProperties
  <2>1. Cardinality(1..Len(f)) = Len(f)
    BY <2>0, IntervalCard
  <2>2. QED
    BY <1>2, <1>3, <2>1
<1>5. IsFiniteSet(Range(g)) /\ Cardinality(Range(g)) = Len(g)
      /\ Cardinality(Range(f)) = Len(f)
  BY InjectiveCard
<1>6. QED
  BY <1>1, <1>4, <1>5, FS_Subset

\* The last element of a channel survives a read of its head, or becomes
\* what was read.
LEMMA LastAfterRead ==
    ASSUME NEW X, NEW sq \in Seq(X), sq # <<>>
    PROVE  IF Tail(sq) # <<>> THEN Tail(sq)[Len(Tail(sq))] = sq[Len(sq)]
                              ELSE Head(sq) = sq[Len(sq)]
<1>1. /\ Len(sq) \in Nat \ {0} /\ Len(Tail(sq)) = Len(sq) - 1
      /\ \A i \in 1..Len(Tail(sq)) : Tail(sq)[i] = sq[i + 1]
      /\ Head(sq) = sq[1]
  BY HeadTailProperties, EmptySeq
<1>2. Tail(sq) = <<>> <=> Len(sq) = 1
  <2>1. Tail(sq) \in Seq(X)
    BY HeadTailProperties
  <2>2. DOMAIN Tail(sq) = 1..Len(Tail(sq)) /\ DOMAIN <<>> = {}
    BY <2>1, LenProperties
  <2>3. Tail(sq) = <<>> <=> DOMAIN Tail(sq) = {}
    BY <2>1, <2>2
  <2>4. QED
    BY <1>1, <2>2, <2>3
<1>3. QED
  BY <1>1, <1>2


-----------------------------------------------------------------------------
(* The report invariant, step by step                                      *)

\* The empty list, the task's cameras before its first send, repeats none.
LEMMA EmptyInjective == IsInjective(<<>>)
BY DEF IsInjective

\* Every call other than c keeps its task, channel, receiver and last list.
OthersKept(c) ==
    \A d \in Calls \ {c} : /\ task'[d] = task[d] /\ chan'[d] = chan[d]
                           /\ rx'[d] = rx[d] /\ last'[d] = last[d]

\* A step of call c that keeps its own part of the invariant keeps all of
\* it: the calls share nothing but the notices.
LEMMA OneCall ==
    ASSUME ReportInv, NEW c \in Calls, CallInv(c)', OthersKept(c)
    PROVE  ReportInv'
BY DEF ReportInv, CallInv, Reported, OthersKept

\* discover opens the receiver of a call that has sent nothing yet.
LEMMA DiscoverReport ==
    ASSUME TypeInv, ReportInv, NEW c \in Calls, Discover(c)
    PROVE  ReportInv'
<1>1. task[c].pc = "idle" /\ rx[c] = "none" /\ chan[c] = <<>> /\ last[c] = "none"
  BY DEF Discover, ReportInv, CallInv
<1>2. task \in [Calls -> TaskRec] /\ rx \in [Calls -> {"none", "open", "dropped"}]
  BY DEF TypeInv, TypeOK
<1>3. UNCHANGED <<chan, last>> /\ OthersKept(c)
  BY <1>2 DEF Discover, OthersKept, TypeInv, TypeOK
<1>4. CallInv(c)'
  <2>1. CASE ConfigValid
    <3>0. task' = [task EXCEPT ![c] = [task[c] EXCEPT !.pc = "probe"]]
          /\ rx'[c] = "open"
      BY <1>2, <2>1 DEF Discover
    <3>1. task'[c].pc = "probe" /\ rx'[c] = "open"
      BY <1>2, <3>0, Zenon DEF TaskRec
    <3>2. QED
      BY <1>1, <1>3, <3>1 DEF CallInv, Reported
  <2>2. CASE ~ConfigValid
    <3>0. task' = [task EXCEPT ![c] = [task[c] EXCEPT !.pc = "failed"]]
          /\ rx' = rx
      BY <1>2, <2>2 DEF Discover
    <3>1. task'[c].pc = "failed" /\ rx'[c] = "none"
      BY <1>1, <1>2, <3>0, Zenon DEF TaskRec
    <3>2. QED
      BY <1>1, <1>3, <3>1 DEF CallInv, Reported
  <2>3. QED
    BY <2>1, <2>2
<1>5. QED
  BY <1>3, <1>4, OneCall

\* A probe writes the found list, not the cameras reported.
LEMMA ProbeReport ==
    ASSUME TypeInv, ReportInv, NEW c \in Calls, Probe(c)
    PROVE  ReportInv'
<1>1. task \in [Calls -> TaskRec] /\ task[c].pc = "probe"
      /\ UNCHANGED <<chan, rx, last>>
  BY DEF Probe, TypeInv, TypeOK
<1>2. /\ task'[c].pc \in {"compare", "panicked"}
      /\ task'[c].cameras = task[c].cameras
      /\ \A d \in Calls \ {c} : task'[d] = task[d]
  <2>1. CASE \E sc \in Scans :
               task' = [task EXCEPT ![c] = [task[c] EXCEPT !.pc = "compare",
                                            !.found = sc, !.probes = @ + 1]]
    BY <1>1, <2>1, Zenon DEF TaskRec
  <2>2. CASE task' = [task EXCEPT ![c] = [task[c] EXCEPT !.pc = "panicked"]]
    BY <1>1, <2>2, Zenon DEF TaskRec
  <2>3. QED
    BY <2>1, <2>2 DEF Probe
<1>3. CallInv(c)
  BY DEF ReportInv
<1>4. CallInv(c)'
  BY <1>1, <1>2, <1>3 DEF CallInv, Reported
<1>5. QED
  BY <1>1, <1>2, <1>4, OneCall DEF OthersKept

\* The change test: a changed list becomes the cameras about to be sent;
\* an unchanged one, for probes without repeats, names the cameras
\* already reported.
LEMMA CompareReport ==
    ASSUME NoRepeats, TypeInv, ReportInv, NEW c \in Calls, Compare(c)
    PROVE  ReportInv'
<1> DEFINE t == task[c]
<1>1. /\ task \in [Calls -> TaskRec] /\ t \in TaskRec
      /\ t.pc = "compare" /\ t.found \in Scans
      /\ UNCHANGED <<chan, rx, last>>
  BY DEF Compare, TypeInv, TypeOK
<1>2. CallInv(c)
  BY DEF ReportInv
<1>3. CASE Changed(t.found, t.cameras)
  <2>1. task' = [task EXCEPT ![c] = [t EXCEPT !.pc = "send", !.cameras = t.found]]
    BY <1>3 DEF Compare
  <2>2. task'[c].pc = "send" /\ task'[c].cameras = t.found /\ task'[c].found = t.found
    BY <1>1, <2>1, Zenon DEF TaskRec
  <2>3. CallInv(c)'
    BY <1>1, <1>2, <2>2 DEF CallInv, Reported
  <2>4. QED
    BY <1>1, <2>1, <2>3, OneCall DEF OthersKept
<1>4. CASE ~Changed(t.found, t.cameras)
  <2>1. task' = [task EXCEPT ![c] = [t EXCEPT !.pc = "sleep"]]
    BY <1>4 DEF Compare
  <2>2. /\ task'[c].pc = "sleep" /\ task'[c].cameras = t.cameras
        /\ task'[c].found = t.found
    BY <1>1, <2>1, Zenon DEF TaskRec
  <2>3. Range(t.found) = Range(t.cameras)
    <3>1. t.found \in Seq(Cameras) /\ IsInjective(t.found)
      BY <1>1 DEF NoRepeats
    <3>2. t.cameras \in Seq(Cameras) /\ IsInjective(t.cameras)
      <4>1. t.cameras \in Scans \cup {<<>>}
        BY <1>1 DEF TaskRec
      <4>2. CASE t.cameras = <<>>
        BY <4>2, EmptyInjective, EmptySeq
      <4>3. CASE t.cameras \in Scans
        BY <4>3 DEF NoRepeats
      <4>4. QED
        BY <4>1, <4>2, <4>3
    <3>3. QED
      BY <1>4, <3>1, <3>2, UnchangedSameRange
  <2>4. CallInv(c)'
    BY <1>1, <1>2, <2>2, <2>3 DEF CallInv, Reported
  <2>5. QED
    BY <1>1, <2>1, <2>4, OneCall DEF OthersKept
<1>5. QED
  BY <1>3, <1>4


\* A send on a dropped receiver heads for the notice; on an open one it
\* appends the found list, which is then the last thing reported.
LEMMA SendReport ==
    ASSUME TypeInv, ReportInv, NEW c \in Calls, Send(c)
    PROVE  ReportInv'
<1> DEFINE t == task[c]
<1>1. /\ task \in [Calls -> TaskRec] /\ chan \in [Calls -> Seq(Scans)]
      /\ t \in TaskRec /\ t.pc = "send" /\ t.found \in Scans
      /\ UNCHANGED <<rx, last>>
  BY DEF Send, TypeInv, TypeOK
<1>2. CallInv(c)
  BY DEF ReportInv
<1>3. CASE rx[c] = "dropped"
  <2>1. task' = [task EXCEPT ![c] = [t EXCEPT !.pc = "notify"]] /\ UNCHANGED chan
    BY <1>3 DEF Send
  <2>2. task'[c].pc = "notify"
    BY <1>1, <2>1, Zenon DEF TaskRec
  <2>3. CallInv(c)'
    BY <1>1, <1>3, <2>1, <2>2 DEF CallInv
  <2>4. QED
    BY <1>1, <2>1, <2>3, OneCall DEF OthersKept
<1>4. CASE rx[c] = "open"
  <2>1. /\ task' = [task EXCEPT ![c] = [t EXCEPT !.pc = "sleep"]]
        /\ chan' = [chan EXCEPT ![c] = Append(chan[c], t.found)]
    BY <1>4 DEF Send
  <2>2. task'[c].pc = "sleep" /\ task'[c].cameras = t.cameras
        /\ task'[c].found = t.found
    BY <1>1, <2>1, Zenon DEF TaskRec
  <2>3. t.cameras = t.found
    BY <1>1, <1>2, <1>4 DEF CallInv
  <2>4. Reported(c)' = t.found
    <3>1. chan[c] \in Seq(Scans)
      BY <1>1
    <3>2. chan'[c] = Append(chan[c], t.found)
      BY <1>1, <2>1
    <3>3. chan'[c] # <<>> /\ chan'[c][Len(chan'[c])] = t.found
      BY <1>1, <3>1, <3>2, AppendProperties
    <3>4. QED
      BY <3>3 DEF Reported
  <2>5. CallInv(c)'
    BY <1>1, <1>4, <2>2, <2>3, <2>4 DEF CallInv
  <2>6. QED
    BY <1>1, <2>1, <2>5, OneCall DEF OthersKept
<1>5. QED
  BY <1>1, <1>3, <1>4 DEF Send, TypeInv, TypeOK

\* The notice goes out only after the receiver was found dropped.
LEMMA NotifyReport ==
    ASSUME TypeInv, ReportInv, NEW c \in Calls, Notify(c)
    PROVE  ReportInv'
<1>1. /\ task \in [Calls -> TaskRec] /\ task[c].pc = "notify"
      /\ task' = [task EXCEPT ![c] = [task[c] EXCEPT !.pc = "ended"]]
      /\ UNCHANGED <<chan, rx, last>>
  BY DEF Notify, TypeInv, TypeOK
<1>2. rx[c] = "dropped"
  BY <1>1 DEF ReportInv, CallInv
<1>3. task'[c].pc = "ended"
  BY <1>1, Zenon DEF TaskRec
<1>4. CallInv(c)'
  BY <1>1, <1>2, <1>3 DEF CallInv
<1>5. QED
  BY <1>1, <1>4, OneCall DEF OthersKept

\* The end of the sleep keeps the cameras reported.
LEMMA WakeReport ==
    ASSUME TypeInv, ReportInv, NEW c \in Calls, Wake(c)
    PROVE  ReportInv'
<1>1. /\ task \in [Calls -> TaskRec] /\ task[c].pc = "sleep"
      /\ task' = [task EXCEPT ![c] = [task[c] EXCEPT !.pc = "probe"]]
      /\ UNCHANGED <<chan, rx, last>>
  BY DEF Wake, TypeInv, TypeOK
<1>2. task'[c].pc = "probe" /\ task'[c].cameras = task[c].cameras
  BY <1>1, Zenon DEF TaskRec
<1>3. CallInv(c)
  BY DEF ReportInv
<1>4. CallInv(c)'
  BY <1>1, <1>2, <1>3 DEF CallInv, Reported
<1>5. QED
  BY <1>1, <1>4, OneCall DEF OthersKept

\* Reading the head of the channel leaves what the operator will hold
\* once the channel is drained.
LEMMA ReceiveReport ==
    ASSUME TypeInv, ReportInv, NEW c \in Calls, Receive(c)
    PROVE  ReportInv'
<1>1. /\ chan \in [Calls -> Seq(Scans)] /\ last \in [Calls -> Scans \cup {"none"}]
      /\ rx[c] = "open" /\ chan[c] # <<>>
      /\ last' = [last EXCEPT ![c] = Head(chan[c])]
      /\ chan' = [chan EXCEPT ![c] = Tail(chan[c])]
      /\ UNCHANGED <<task, rx>>
  BY DEF Receive, TypeInv, TypeOK
<1>2. Reported(c)' = Reported(c)
  <2>1. chan'[c] = Tail(chan[c]) /\ last'[c] = Head(chan[c])
    BY <1>1
  <2>2. IF Tail(chan[c]) # <<>>
        THEN Tail(chan[c])[Len(Tail(chan[c]))] = chan[c][Len(chan[c])]
        ELSE Head(chan[c]) = chan[c][Len(chan[c])]
    BY <1>1, LastAfterRead
  <2>3. QED
    BY <1>1, <2>1, <2>2 DEF Reported
<1>3. CallInv(c)
  BY DEF ReportInv
<1>4. CallInv(c)'
  BY <1>1, <1>2, <1>3 DEF CallInv
<1>5. QED
  BY <1>1, <1>4, OneCall DEF OthersKept

\* Dropping the stream closes a receiver that discover had opened.
LEMMA DropReport ==
    ASSUME TypeInv, ReportInv, NEW c \in Calls, DropStream(c)
    PROVE  ReportInv'
<1>1. /\ chan \in [Calls -> Seq(Scans)] /\ rx \in [Calls -> {"none", "open", "dropped"}]
      /\ rx[c] = "open" /\ rx'[c] = "dropped"
      /\ \A d \in Calls \ {c} : rx'[d] = rx[d] /\ chan'[d] = chan[d]
      /\ UNCHANGED <<task, last>>
  BY DEF DropStream, TypeInv, TypeOK
<1>2. task[c].pc \notin {"idle", "failed"}
  BY <1>1 DEF ReportInv, CallInv
<1>3. CallInv(c)'
  BY <1>1, <1>2 DEF CallInv
<1>4. QED
  BY <1>1, <1>3, OneCall DEF OthersKept

LEMMA NextReport ==
    ASSUME NoRepeats
    PROVE  TypeInv /\ ReportInv /\ [Next]_vars => ReportInv'
<1> SUFFICES ASSUME TypeInv, ReportInv, [Next]_vars PROVE ReportInv'
  OBVIOUS
<1>1. CASE UNCHANGED <<task, chan, rx, last>>
  BY <1>1 DEF ReportInv, CallInv, Reported
<1>2. CASE \E c \in Calls : Discover(c) \/ Probe(c) \/ Compare(c) \/ Send(c)
  BY <1>2, DiscoverReport, ProbeReport, CompareReport, SendReport
<1>3. CASE \E c \in Calls : Notify(c) \/ Wake(c) \/ Receive(c) \/ DropStream(c)
  BY <1>3, NotifyReport, WakeReport, ReceiveReport, DropReport
<1>4. QED
  BY <1>1, <1>2, <1>3 DEF Next, ReRegister, vars

\* For probes that list each camera once, a task asleep on an open and
\* drained stream has told the operator exactly the cameras of its last
\* probe: the change test of discover's loop misses no camera that
\* appeared or vanished.
THEOREM ReportCurrentHolds ==
    ASSUME NoRepeats
    PROVE  Spec => []ReportCurrent
<1>1. Init => TypeInv /\ ReportInv
  BY InitTypeInv DEF Init, ReportInv, CallInv, Reported
<1>2. TypeInv /\ ReportInv /\ [Next]_vars => TypeInv' /\ ReportInv'
  BY NextTypeInv, NextReport
<1>3. ReportInv => ReportCurrent
  BY DEF ReportInv, CallInv, Reported, ReportCurrent
<1>4. QED
  BY <1>1, <1>2, <1>3, PTL DEF Spec

=============================================================================
