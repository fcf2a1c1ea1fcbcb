SPECIFICATION FairSpec
CONSTANTS
    VC = {v1, v2}
    Qualified = {v1, v2}
    MC = {m1}
    None = None
    Faults = {"deleteCell"}
\* With every VirtualCluster gone nothing is left to do.
CHECK_DEADLOCK FALSE
PROPERTY CellDeletionCompletes
