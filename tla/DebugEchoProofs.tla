-------------------------- MODULE DebugEchoProofs --------------------------
(***************************************************************************)
(* Proofs about DebugEchoHandler for every value of the constants: the     *)
(* type invariant, which includes that the mpsc channel of each call never *)
(* holds more than its capacity, whatever the file edits, reads, drops and *)
(* sends do.                                                               *)
(***************************************************************************)
EXTENDS DebugEchoHandler, TLAPS

USE CapacityAssumption, ConfigAssumption, ChangesAssumption
USE DEF Avail, Responses, Pcs

\* TypeOK is not inductive: a send appends the task's msg, which the type
\* allows to be "none". A task reaches "send" only through a turn of its
\* loop, which always chooses a response.
TypeInv ==
    /\ TypeOK
    /\ \A c \in Calls : task[c].pc = "send" => task[c].msg \in Responses

LEMMA InitTypeInv == Init => TypeInv
BY DEF Init, TypeInv, TypeOK, TaskRec

\* discover moves the task to "read" or "failed", with its msg untouched.
LEMMA DiscoverTypeInv ==
    ASSUME TypeInv, NEW c \in Calls, Discover(c)
    PROVE  TypeInv'
<1>1. task[c] \in TaskRec /\ task[c].pc = "idle"
  BY DEF TypeInv, TypeOK, Discover
<1>0. task \in [Calls -> TaskRec] /\ rx \in [Calls -> {"none", "open", "dropped"}]
  BY DEF TypeInv, TypeOK
<1>2. /\ task'[c] \in TaskRec /\ task'[c].pc \in {"read", "failed"}
      /\ \A d \in Calls \ {c} : task'[d] = task[d]
      /\ rx' \in [Calls -> {"none", "open", "dropped"}]
  <2>1. CASE ConfigValid
    <3>1. task' = [task EXCEPT ![c] = [task[c] EXCEPT !.pc = "read",
                                        !.offline = (avail = "offline")]]
      BY <2>1 DEF Discover
    <3>2. QED
      BY <1>0, <1>1, <2>1, <3>1 DEF Discover, TaskRec
  <2>2. CASE ~ConfigValid
    BY <1>0, <1>1, <2>2 DEF Discover, TaskRec
  <2>3. QED
    BY <2>1, <2>2
<1>3. QED
  BY <1>2 DEF Discover, TypeInv, TypeOK

\* One turn of the loop writes a task record; a send it starts carries a
\* response.
LEMMA ReadTypeInv ==
    ASSUME TypeInv, NEW c \in Calls, Read(c)
    PROVE  TypeInv'
<1>1. task[c] \in TaskRec
  BY DEF TypeInv, TypeOK
<1>2. /\ task'[c] \in TaskRec
      /\ task'[c].pc = "send" => task'[c].msg \in Responses
      /\ \A d \in Calls \ {c} : task'[d] = task[d]
  BY <1>1 DEF Read, TaskRec, TypeInv, TypeOK
<1>3. QED
  BY <1>2 DEF Read, TypeInv, TypeOK

\* tx.send waits while the channel is full, so the buffered responses
\* never exceed the capacity.
LEMMA SendTypeInv ==
    ASSUME TypeInv, NEW c \in Calls, Send(c)
    PROVE  TypeInv'
<1>1. task[c] \in TaskRec /\ task[c].msg \in Responses
  BY DEF TypeInv, TypeOK, Send
<1>2. /\ task'[c] \in TaskRec /\ task'[c].pc \in {"ended", "sleep"}
      /\ \A d \in Calls \ {c} : task'[d] = task[d]
  <2>0. task \in [Calls -> TaskRec]
    BY DEF TypeInv, TypeOK
  <2>1. \E pc \in {"ended", "sleep"} :
          task' = [task EXCEPT ![c] = [task[c] EXCEPT !.pc = pc]]
    BY DEF Send
  <2>2. QED
    BY <1>1, <2>0, <2>1 DEF TaskRec
<1>3. /\ chan' \in [Calls -> Seq(Responses)]
      /\ \A d \in Calls : Len(chan'[d]) <= Capacity
  <2>1. CASE rx[c] = "dropped" /\ UNCHANGED chan
    BY <2>1 DEF TypeInv, TypeOK
  <2>2. CASE /\ rx[c] = "open" /\ Len(chan[c]) < Capacity
             /\ chan' = [chan EXCEPT ![c] = Append(@, task[c].msg)]
    BY <1>1, <2>2 DEF TypeInv, TypeOK
  <2>3. QED
    BY <2>1, <2>2 DEF Send
<1>4. QED
  BY <1>2, <1>3 DEF Send, TypeInv, TypeOK

\* The end of the sleep.
LEMMA WakeTypeInv ==
    ASSUME TypeInv, NEW c \in Calls, Wake(c)
    PROVE  TypeInv'
<1>1. task[c] \in TaskRec
  BY DEF TypeInv, TypeOK
<1>2. /\ task'[c] \in TaskRec /\ task'[c].pc = "read"
      /\ \A d \in Calls \ {c} : task'[d] = task[d]
  BY <1>1 DEF Wake, TaskRec, TypeInv, TypeOK
<1>3. QED
  BY <1>2 DEF Wake, TypeInv, TypeOK

\* The operator's reads and drops only shorten a channel.
LEMMA StreamTypeInv ==
    ASSUME TypeInv, NEW c \in Calls, Receive(c) \/ DropStream(c)
    PROVE  TypeInv'
<1>1. chan[c] \in Seq(Responses) /\ Len(chan[c]) <= Capacity
  BY DEF TypeInv, TypeOK
<1>2. CASE Receive(c)
  <2>1. chan[c] # <<>> /\ Head(chan[c]) \in Responses
    BY <1>1, <1>2 DEF Receive
  <2>2. Tail(chan[c]) \in Seq(Responses) /\ Len(Tail(chan[c])) <= Capacity
    BY <1>1, <2>1
  <2>3. QED
    BY <1>2, <2>1, <2>2 DEF Receive, TypeInv, TypeOK
<1>3. CASE DropStream(c)
  BY <1>3 DEF DropStream, TypeInv, TypeOK
<1>4. QED
  BY <1>2, <1>3

\* An edit of the availability file, bounded by MaxChanges.
LEMMA FileChangeTypeInv ==
    ASSUME TypeInv, FileChange
    PROVE  TypeInv'
BY DEF FileChange, TypeInv, TypeOK

LEMMA NextTypeInv == TypeInv /\ [Next]_vars => TypeInv'
<1> SUFFICES ASSUME TypeInv, [Next]_vars PROVE TypeInv'
  OBVIOUS
<1>1. CASE UNCHANGED vars
  BY <1>1 DEF vars, TypeInv, TypeOK
<1>2. QED
  BY <1>1, DiscoverTypeInv, ReadTypeInv, SendTypeInv, WakeTypeInv,
     StreamTypeInv, FileChangeTypeInv DEF Next

\* Every state of debugEcho is well typed, and no call's channel ever
\* holds more than Capacity responses: tx.send waits for room.
THEOREM TypeCorrect == Spec => []TypeOK
<1>1. TypeInv => TypeOK
  BY DEF TypeInv
<1>2. QED
  BY <1>1, InitTypeInv, NextTypeInv, PTL DEF Spec
=============================================================================
