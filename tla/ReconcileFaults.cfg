SPECIFICATION Spec
CONSTANTS
    VC = {v1}
    Qualified = {v1}
    MC = {m1, m2}
    None = None
    Faults = {"crash", "apiError", "foreign", "hostRead", "lagVC", "lagCell"}
\* With every VirtualCluster gone nothing is left to do.
CHECK_DEADLOCK FALSE
INVARIANT TypeOK
INVARIANT NoOrphan
INVARIANT InstanceOnFoundation
INVARIANT CredentialRevokedFirst
PROPERTY ForeignUntouched
PROPERTY MirrorKept
PROPERTY KeepsContract
