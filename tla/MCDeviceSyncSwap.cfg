SPECIFICATION Spec
CONSTANTS
    a = a
    b = b
    c = c
    watch = watch
    Contents = {a, b, c}
    None = None
    IfAbsent = IfAbsent
    NoConflict = NoConflict
    Watchers = {watch}
    Main = main
    Recon = recon
    Ui = ui
    Optional = {recon}
    Policies = {"last_write_wins"}
    MaxAttempts = 1
    MaxLate = 0
    MaxEvents = 2
SYMMETRY Symmetry
PROPERTIES
    CompareAndSwap
