SPECIFICATION Spec
CONSTANTS
    p1 = p1
    p2 = p2
    s1 = s1
    s2 = s2
    Procs = {p1, p2}
    Slots = {s1, s2}
    Blobs <- MCBlobs
    NoHash = NoHash
    NoBlob = NoBlob
    NoRow = NoRow
    Legacy = legacy
    LegacySlots = {s1, s2}
    LegacyBlob <- Plain
    Limits = {6}
    Retentions = {1, 2}
    VersionFloor = 1
    MaxVersion = 2
SYMMETRY Symmetry
INVARIANTS
    HistoryHead
    ReadsFailClosed
    NoStrayTemps
PROPERTIES
    OnlyDeletesLoseFiles
    CommittedBytes
    GrowthStaysWithinLimits
    ImplementsRegister
