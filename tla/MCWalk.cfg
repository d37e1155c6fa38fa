SPECIFICATION Spec
CONSTANTS
    Genesis = Genesis
    Nil = Nil
    NullText = NullText
    Corrupt = Corrupt
    NoState = NoState
    Junk = Junk
    b1 = b1
    b2 = b2
    k1 = k1
    k2 = k2
    k3 = k3
    K1 = K1
    K2 = K2
    d1 = d1
    d2 = d2
    d3 = d3
    MinInt <- Lowest
    MaxInt = 3
    MaxLength = 3
    Bodies = {b1, b2}
    KeyIds = {k1, k2, k3}
    KeyStates = {"active", "rotating", "archived", "revoked"}
    Deks = {d1, d2, d3}
    Keks = {K1, K2}
    Texts <- AllTexts
    Bundles <- AllBundles
    Chains <- AllChains
INVARIANTS
    TypeOK
    OkIffValid
    OkIsNumbered
    ErrorsNameTheUnacceptable
    VerifiedCount
    StatusesAreLocal
    KeyStateFollowsLookups

\* The walk ends.
CHECK_DEADLOCK FALSE
