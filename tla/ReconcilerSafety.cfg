SPECIFICATION Spec
CONSTANTS
    Caller = {a1, a2}
    Revision = {r1, r2}
    None = None
    MaxBacklog = 3
    MaxFaults = 1
SYMMETRY ReconcilerSymmetry
INVARIANTS
    ReconcilerTypeOK
PROPERTIES
    AppliedIsConfirmed
    NoApplyAfterStop
CHECK_DEADLOCK FALSE
