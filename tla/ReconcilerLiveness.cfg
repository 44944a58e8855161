SPECIFICATION LiveSpec
CONSTANTS
    Caller = {a1}
    Revision = {r1, r2}
    None = None
    MaxBacklog = 2
    MaxFaults = 2
PROPERTIES
    Converges
CHECK_DEADLOCK FALSE
