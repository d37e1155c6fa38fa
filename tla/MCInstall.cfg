SPECIFICATION InstallSpec
CONSTANTS
    Tags = {"v1", "v2", "latest"}
    FirstTag = "v1"
    Keys = {k1, k2}
    k1 = k1
    k2 = k2
    FirstKey = k1
    MaxEvents = 4
INVARIANTS
    InstallTypeOK
    OnlySignedIsInstalled
    ExitTells

\* The script exits.
CHECK_DEADLOCK FALSE
