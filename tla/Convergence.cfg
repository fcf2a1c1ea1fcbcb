SPECIFICATION ChildlessSpec
CONSTANTS
    VC = {v1}
    Qualified = {v1}
    MC = {m1, m2}
    None = None
    Faults = {"childDown", "rebind", "lagCell", "lagSecret"}
\* With every VirtualCluster gone nothing is left to do.
CHECK_DEADLOCK FALSE
PROPERTY DeletionCompletes
PROPERTY ChildLossReported
PROPERTY ResolvedFrozen
