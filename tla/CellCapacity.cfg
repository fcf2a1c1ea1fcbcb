SPECIFICATION FairSpec
CONSTANTS
    Tenant = {t1}
    Node = {n1}
    Allocatable = 2
    Devices = 1
    Envelope = 2
    DeviceRequest = 1
    PodRequest = 1
    MaxChanges = 2
INVARIANT TypeOK
PROPERTY DecidedOnEvidence
PROPERTY CellFollowsHost
PROPERTY RejectionReconsidered
