SPECIFICATION Spec
CONSTANTS
    Config = {c1, c2}
    CertConfig = {c2}
    Material = {m1, m2}
    None = None
    Down = Down
    Pending = Pending
    MaxSeq = 2
    AckMeansLoaded = TRUE
PROPERTIES
    CertificateCommitIsBacked
