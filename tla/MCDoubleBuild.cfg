CONSTANTS
    e1 = e1
    e2 = e2
    d1 = d1
    s1 = s1
    s2 = s2
    s3 = s3
    s4 = s4
    Endpoints <- TwoHandlers
    LocalEndpoints <- NoLocalEndpoints
    Devices <- MCDevices
    SessionIds <- TwoSessions
    HandlerGrace = 1
    InstanceGrace = 1
    MaxTime = 1
    MaxRegistrations = 0
    MaxPlugins = 2
SYMMETRY MCSymmetry
SPECIFICATION Spec
INVARIANT
    PluginBuiltOnce
