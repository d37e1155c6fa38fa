SPECIFICATION AttestedSpec
CONSTANTS
    Genesis = Genesis
    Nil = Nil
    NullText = NullText
    Corrupt = Corrupt
    NoState = NoState
    Junk = Junk
    b1 = b1
    b2 = b2
    k1 = k1
    k2 = k2
    k3 = k3
    K1 = K1
    K2 = K2
    d1 = d1
    d2 = d2
    d3 = d3
    d4 = d4
    MinInt <- Lowest
    MaxInt = 5
    Bodies = {b1, b2}
    KeyIds = {k1, k2}
    KeyStates = {"active"}
    Deks = {d1, d2, d3, d4}
    Keks = {K1, K2}
    Texts <- AllTexts
    Bundles = {}
    Chains = {}
    DekOf <- TwoKeys
    FallbackKey = d4
    WorkspaceKek = K1
    MaxRecords = 2
    MaxChanges = 2
SYMMETRY Interchangeable
INVARIANTS
    AttestedTypeOK
    AttestedIsWritten
    AttestedPrefixIsWritten
    UnchangedIsAccepted

\* The walk ends.
CHECK_DEADLOCK FALSE
