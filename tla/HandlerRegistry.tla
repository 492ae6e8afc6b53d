--------------------------- MODULE HandlerRegistry ---------------------------
(***************************************************************************)
(* What the registered-handler map promises about one protocol's handlers, *)
(* whatever the sessions that update it do: an endpoint is absent, up      *)
(* (serving, with or without a client) or down since some instant; it      *)
(* enters only by a registration, which takes a fresh stop channel; it     *)
(* goes down and comes back up; and it leaves only after being down for    *)
(* longer than the handler grace period.                                   *)
(***************************************************************************)
EXTENDS Naturals

CONSTANTS Endpoints, HandlerGrace, MaxTime, MaxRegistrations

VARIABLES
    status,  \* "Absent", "Up" or "Down"
    since,   \* when the endpoint went down
    gen,     \* registrations so far: which stop channel the entry holds
    clock

vars == <<status, since, gen, clock>>

Init ==
    /\ status = [e \in Endpoints |-> "Up"]
    /\ since = [e \in Endpoints |-> 0]
    /\ gen = [e \in Endpoints |-> 0]
    /\ clock = 0

Tick ==
    /\ clock < MaxTime
    /\ clock' = clock + 1
    /\ UNCHANGED <<status, since, gen>>

Register(e) ==
    /\ status[e] = "Absent"
    /\ gen[e] < MaxRegistrations
    /\ status' = [status EXCEPT ![e] = "Up"]
    /\ gen' = [gen EXCEPT ![e] = @ + 1]
    /\ UNCHANGED <<since, clock>>

GoDown(e) ==
    /\ status[e] = "Up"
    /\ status' = [status EXCEPT ![e] = "Down"]
    /\ since' = [since EXCEPT ![e] = clock]
    /\ UNCHANGED <<gen, clock>>

GoUp(e) ==
    /\ status[e] = "Down"
    /\ status' = [status EXCEPT ![e] = "Up"]
    /\ UNCHANGED <<since, gen, clock>>

Deregister(e) ==
    /\ status[e] = "Down"
    /\ clock - since[e] > HandlerGrace
    /\ status' = [status EXCEPT ![e] = "Absent"]
    /\ UNCHANGED <<since, gen, clock>>

Next ==
    \/ Tick
    \/ \E e \in Endpoints : Register(e) \/ GoDown(e) \/ GoUp(e) \/ Deregister(e)

Spec == Init /\ [][Next]_vars
=============================================================================
