--------------------------- MODULE InstanceDigest ---------------------------
(***************************************************************************)
(* inner_generate_instance_digest (agent/src/util/discovery_operator.rs):  *)
(* the id of a local device is salted with AGENT_NODE_NAME by plain        *)
(* concatenation, and the result is hashed by a 3-byte BLAKE2b whose       *)
(* bytes are written in hex.                                               *)
(*                                                                         *)
(* Strings are sequences over a small alphabet. The hash is left abstract: *)
(* an Instance name can be no more distinct than the string that is        *)
(* hashed, and that string is what is modelled.                            *)
(***************************************************************************)
EXTENDS Sequences, SequencesExt

CONSTANTS
    Chars,     \* the characters of device ids
    MaxIdLen,  \* the longest device id
    Nodes      \* node names, as strings over Chars

VARIABLE
    req        \* two calls of generate_instance_digest, on any nodes

Ids == SeqOf(Chars, MaxIdLen) \ {<<>>}
Requests == [id : Ids, shared : BOOLEAN, node : Nodes]

\* The string handed to hasher.update: the node name appended to the id
\* of a device that is not shared.
DigestInput(r) ==
    IF r.shared THEN r.id ELSE r.id \o r.node

Init == req \in Requests \X Requests

\* Two more devices are named, on one node or on two.
NameDevices == req' \in Requests \X Requests

Spec == Init /\ [][NameDevices]_req

-----------------------------------------------------------------------------
(* Properties *)

\* Two calls describe one device: a shared id wherever it is seen, or a
\* local id on its own node.
SameDevice(r1, r2) ==
    /\ r1.id = r2.id /\ r1.shared = r2.shared
    /\ r1.shared \/ r1.node = r2.node

\* Two calls hash the same string exactly when they describe the same
\* device. The doc comment of generate_instance_digest: "There should be a
\* unique digest and Instance for each discovered device."
UniqueInstanceNames ==
    DigestInput(req[1]) = DigestInput(req[2]) <=> SameDevice(req[1], req[2])
=============================================================================
