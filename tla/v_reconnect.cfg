SPECIFICATION Spec
CONSTANTS
    Clients = {k1, k2}
    None = None
    Devices = {id}
    ConnId = id
CHECK_DEADLOCK FALSE
PROPERTY PublishingResumes
