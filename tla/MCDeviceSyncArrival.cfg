SPECIFICATION FairSpec
CONSTANTS
    a = a
    b = b
    watch = watch
    Contents = {a, b}
    None = None
    IfAbsent = IfAbsent
    NoConflict = NoConflict
    Watchers = {watch}
    Main = main
    Recon = recon
    Ui = ui
    Optional = {}
    Policies = {"last_write_wins"}
    MaxAttempts = 2
    MaxLate = 1
    MaxEvents = 1
PROPERTIES
    EditsArrive
