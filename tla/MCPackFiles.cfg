SPECIFICATION Spec
CONSTANTS
    Genesis = Genesis
    Nil = Nil
    NullText = NullText
    Corrupt = Corrupt
    NoState = NoState
    MinInt <- Lowest
    MaxInt = 3
    EmptyBody = EmptyBody
    Bodies = {EmptyBody}
    KeyIds = {}
    KeyStates = {}
    Deks = {}
    Keks = {}
    Texts = {Genesis, NullText}
    Bundles = {}
    Absent = Absent
    BadLine = BadLine
    Blank = Blank
    TooLong = TooLong
    EmptyText = Genesis
    BadKeys = BadKeys
    Tenants = {}
    Packs = {}
    p = p
    q = q
    Dirs = {p, q}
    Sites <- AllSites
    Replacements <- OtherSites
    MaxReplacements = 1
INVARIANTS
    FilesTypeOK
    EveryHandleIsClosed
    ArchiveIsOnePack
    JudgedIfWellFormed

\* Pack returns.
CHECK_DEADLOCK FALSE
