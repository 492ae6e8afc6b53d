CONSTANTS
    c1 = c1
    c2 = c2
    ca = ca
    cb = cb
    Calls <- TwoCalls
    Cameras <- TwoCameras
    Capacity = 4
    ConfigValid = TRUE
    Scans <- DistinctScans
    ProbeFails = TRUE
    MaxProbes = 2
\* Every task ended, panicked or out of probes is a state the model rests
\* in; the bound on probes stands for time running on.
CHECK_DEADLOCK FALSE
SPECIFICATION Spec
INVARIANT
    TypeOK
    ReportCurrent
