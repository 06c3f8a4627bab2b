SPECIFICATION Spec
CONSTANTS
    Clients = {k1, k2}
    None = None
    Devices = {id, proxy}
    ConnId = id
CHECK_DEADLOCK FALSE
INVARIANTS KnownOnline DiscoveredRetained
PROPERTY OutageNoticed
