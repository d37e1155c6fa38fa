SPECIFICATION Spec
CONSTANTS
    Arguments <- AllArguments
    Packs = {"pack"}
    KekFiles <- Files
    NoWord = ""
    DashWord = "--word"
INVARIANTS
    CliTypeOK
    FlagsAreHonoured

\* main exits.
CHECK_DEADLOCK FALSE
