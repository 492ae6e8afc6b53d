------------------------ MODULE MCDiscoveryOperator ------------------------
(* Small instances of DiscoveryOperator for TLC.                           *)
EXTENDS DiscoveryOperator, TLC

CONSTANTS e1, e2, d1, s1, s2, s3, s4

\* One shared handler, which may crash, be deregistered and register again.
OneHandler == {e2}
\* A local handler e1 and a shared handler e2 of the same protocol.
TwoHandlers == {e1, e2}
\* One local handler: its devices are named for this node.
LocalHandler == {e1}
MCLocalEndpoints == {e1} \cap Endpoints
\* Every handler shared: two handlers that see one device name it alike.
NoLocalEndpoints == {}
MCDevices == {d1}
NoDevices == {}
TwoSessions == {s1, s2}
ThreeSessions == {s1, s2, s3}
FourSessions == {s1, s2, s3, s4}
\* Session tasks are interchangeable: nothing depends on their ids.
MCSymmetry == Permutations(SessionIds)
=============================================================================
