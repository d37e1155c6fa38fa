SPECIFICATION PackSpec
CONSTANTS
    Genesis = Genesis
    Nil = Nil
    NullText = NullText
    Corrupt = Corrupt
    NoState = NoState
    Junk = Junk
    b1 = b1
    b2 = b2
    k1 = k1
    k2 = k2
    k3 = k3
    K1 = K1
    K2 = K2
    d1 = d1
    d2 = d2
    d3 = d3
    MinInt <- Lowest
    MaxInt = 3
    Bodies = {b1, b2}
    KeyIds = {k1, k2, k3}
    KeyStates = {"active", "rotating", "archived", "revoked"}
    Deks = {d1, d2, d3}
    Keks = {K1, K2}
    Texts <- AllTexts
    Bundles = {}
    Chains = {}
    Absent = Absent
    BadLine = BadLine
    Blank = Blank
    TooLong = TooLong
    EmptyText = Junk
    EmptyBody = b2
    BadKeys = BadKeys
    t1 = t1
    Tenants = {t1}
    Packs <- SamplePacks
INVARIANT
    LinkageDecidesWithoutKeys

\* The run of the program ends.
CHECK_DEADLOCK FALSE
