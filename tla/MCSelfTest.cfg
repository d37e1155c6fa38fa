SPECIFICATION Spec
CONSTANTS
    Genesis = Genesis
    Nil = Nil
    NullText = NullText
    Corrupt = Corrupt
    NoState = NoState
    MinInt <- Lowest
    MaxInt = 5
    Content = Content
    Tampered = Tampered
    TamperedText = TamperedText
    OldKey = OldKey
    NewKey = NewKey
    OldDek = OldDek
    NewDek = NewDek
    Kek = Kek
    Bodies = {Content, Tampered}
    KeyIds = {OldKey, NewKey}
    KeyStates = {"active", "rotating"}
    Deks = {OldDek, NewDek}
    Keks = {Kek}
    Texts <- RecordTexts
    Bundles = {}
    Absent = Absent
    BadLine = BadLine
    Blank = Blank
    TooLong = TooLong
    EmptyText = TamperedText
    EmptyBody = Tampered
    BadKeys = BadKeys
    Tenants = {}
    Packs = {}
INVARIANTS
    SelfTestTypeOK
    AttestedOnlyWhole
    ZeroMeansAllPassed
    HealthyVerifierPasses
PROPERTY
    Ends

\* The program exits.
CHECK_DEADLOCK FALSE
