SPECIFICATION Spec
CONSTANTS
    Config = {c1, c2}
    CertConfig = {c2}
    Material = {m1, m2}
    None = None
    Down = Down
    Pending = Pending
    MaxSeq = 2
    AckMeansLoaded = FALSE
INVARIANTS
    TypeOK
    RecoveryIsCommitted
    UnconfirmedStaysFenced
    AuthorityNotSplit
    TrafficMatchesReport
PROPERTIES
    NewerNeverOverwritten
    CommittedWasConfirmed
    ImplementsAuthority
