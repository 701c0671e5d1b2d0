SPECIFICATION Spec
CONSTANTS
    p1 = p1
    p2 = p2
    s1 = s1
    Procs = {p1, p2}
    Slots = {s1}
    Blobs <- MCBlobs
    NoHash = NoHash
    NoBlob = NoBlob
    NoRow = NoRow
    Legacy = legacy
    LegacySlots = {}
    LegacyBlob <- Plain
    Limits = {6}
    Retentions = {1, 2}
    VersionFloor = 1
    MaxVersion = 2
SYMMETRY Symmetry
INVARIANTS
    NoDanglingRow
