SPECIFICATION AnswerSpec
CONSTANTS
    Caller = {a1, a2}
    Revision = {r1, r2}
    None = None
    MaxBacklog = 2
    MaxFaults = 0
PROPERTIES
    CallersAnswered
CHECK_DEADLOCK FALSE
