SPECIFICATION Spec
CONSTANTS
    None = None
    Requests <- MCRequests
    Classes <- MCClasses
    Instances <- MCInstances
    AssemblySize <- MCAssemblySize
    Device <- MCDevice
    Tick = 10
    RunIdleConsumed = TRUE
    RunIdleProduced = FALSE
    MaxTries = 3
INVARIANTS
    ReadAsWritten
    AcceptedAsAsked
    CorrectionAccepted
