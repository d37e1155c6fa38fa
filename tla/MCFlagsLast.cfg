SPECIFICATION Spec
CONSTANTS
    Arguments <- AllArguments
    Packs = {"pack"}
    KekFiles <- Files
    NoWord = ""
    DashWord = "--word"
INVARIANT FlagsMayFollowThePath

\* main exits.
CHECK_DEADLOCK FALSE
