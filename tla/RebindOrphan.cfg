SPECIFICATION Spec
CONSTANTS
    VC = {v1}
    Qualified = {v1}
    MC = {m1, m2}
    None = None
    Faults = {"crash", "rebind"}
\* With every VirtualCluster gone nothing is left to do.
CHECK_DEADLOCK FALSE
INVARIANT NoOrphan
