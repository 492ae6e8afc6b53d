------------------------ MODULE MCDebugEchoHandler -------------------------
(* Small instances of DebugEchoHandler for TLC.                            *)
EXTENDS DebugEchoHandler

CONSTANTS c1, c2

\* Two discover calls: a session that reconnects calls discover again.
TwoCalls == {c1, c2}
=============================================================================
