SPECIFICATION Spec
CONSTANTS
    VC = {v1}
    Qualified = {v1}
    MC = {m1}
    None = None
    Faults = {"crash", "agentFail", "extDelete", "foreignRace", "childDown", "flap", "backendRead"}
\* With every VirtualCluster gone nothing is left to do.
CHECK_DEADLOCK FALSE
INVARIANT NoOrphan
