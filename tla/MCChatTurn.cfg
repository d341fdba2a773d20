SPECIFICATION FairSpec
CONSTANTS
    Runs = {r1, r2}
    Routes = {"local", "cloud"}
    Home = "local"
    Kinds = {"auto", "static", "queued"}
    MaxCalls = 7
    MaxCrashes = 1
INVARIANTS
    TypeOK
    OneResult
    OneResponder
    ReportedIsStored
    UnansweredIsRecoverable
PROPERTIES
    QueueSettles
CHECK_DEADLOCK FALSE
