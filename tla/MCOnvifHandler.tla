--------------------------- MODULE MCOnvifHandler ---------------------------
EXTENDS OnvifHandler

CONSTANTS c1, c2, ca, cb

TwoCalls == {c1, c2}
TwoCameras == {ca, cb}
\* Every filtered list of two cameras in which no camera repeats.
DistinctScans == {<<>>, <<ca>>, <<cb>>, <<ca, cb>>, <<cb, ca>>}
=============================================================================
