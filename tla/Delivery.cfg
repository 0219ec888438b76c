\* Every pairing of settings, one report of two and a half blocks of the RSA key.
CONSTANTS
    NoKey = NoKey
    NoSign = NoSign
    Broken = Broken
    NoConfig = NoConfig
    NoAnswer = NoAnswer
    KeySize = 3
    Overhead = 1
    k1 = k1
    k2 = k2
    p1 = p1
    p2 = p2
    b1 = b1
    b2 = b2
    b3 = b3
    b4 = b4
    b5 = b5
    r1 = r1
    Reports = {r1}
    Content <- ReportContent
    Settings <- AllSettings
SPECIFICATION FairSpec
INVARIANTS TypeOK CountedTwiceOnlyAfterError Intact NilMeansStored NilMeansKept SameAddressMeets
    SameKeyAccepted
PROPERTIES ServerIsDurable PublishReturns
CHECK_DEADLOCK FALSE
