CONSTANTS
    None = None
    App = {a, b}
    Call = {k, m}
    Launcher = {l}
    ChildOf <- MCChildOf
    MaxClients = 1
    MaxQueue = 1
    MaxCrashes = 1
SPECIFICATION Spec
INVARIANTS
    LiveEndpointKept
PROPERTIES
    EndpointImplementsCalls
    ThreadsEnd
