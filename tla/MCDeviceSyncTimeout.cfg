SPECIFICATION Spec
CONSTANTS
    a = a
    b = b
    watch = watch
    Contents = {a, b}
    None = None
    IfAbsent = IfAbsent
    NoConflict = NoConflict
    Watchers = {watch}
    Main = main
    Recon = recon
    Ui = ui
    Optional = {recon}
    Policies = {"last_write_wins"}
    MaxAttempts = 1
    MaxLate = 0
    MaxEvents = 2
SYMMETRY Symmetry
INVARIANTS
    EditsSurviveTimeouts
