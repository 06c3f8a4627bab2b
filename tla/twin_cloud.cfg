SPECIFICATION Spec
CONSTANTS
    Names = {n1, n2}
    Values = {v1}
    Sessions = {s1}
    Devices = {d1, d2}
    NoName = NoName
    NoSession = NoSession
    NoDevice = NoDevice
    Timeout = 1
    Shapes <- AllShapes
    MaxLocal = 1
    MaxCloud = 2
    MaxLate = 0
SYMMETRY Symmetric
INVARIANT AuditStrengthens
PROPERTIES OnlineWaitsForCloud CloudSettingsAudited
