SPECIFICATION FairSpec
CONSTANTS
    Absent = Absent
    Null = Null
    NaN = NaN
    McNaN = NaN
    McAbsent = Absent
    CountArray = CountArray
    OneArray = OneArray
    Anonymous = Anonymous
    Nobody = Nobody
    NoInput = NoInput
    NoAnswer = NoAnswer
    Proxy = Proxy
    ann = ann
    bob = bob
    User = {ann, bob}
    Owner = {ann, bob, Anonymous}
    Value <- MCValue
    toString <- MCtoString
    parseInt <- MCparseInt
    toLowerCase <- MCtoLowerCase
    HeaderName <- HeaderNames
    Request = {r1, r2}
    Traffic <- PairTraffic
    UpstreamText <- UpstreamTexts
    UpstreamHeaders <- PairUpstreamHeaders
    NODE_ENV = "production"
    IntegerLiteral <- IntegerLiterals
INVARIANTS TypeOK IsolationInv SavesStayWithTheirSession PublicIsAnonymous
    PublicDependsOnTheUrlAlone NobodyIsForgotten
PROPERTIES ImplementsContract EventuallyAnswered EveryStepIsProgress
