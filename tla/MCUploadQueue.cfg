SPECIFICATION FairSpec
CONSTANTS
    Files = {f}
    Timers = {t1, t2}
    Main = main
    Seqs = {1, 2, 3, 4, 5, 6}
    Names = {1, 2, 3}
    MaxSettle = 1
    MaxEdits = 2
    MaxTroubles = 2
INVARIANTS
    NoEditOutOfSight
PROPERTIES
    EditsLeaveTheQueue
