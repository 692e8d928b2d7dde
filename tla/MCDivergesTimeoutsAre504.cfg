SPECIFICATION Spec
CONSTANTS
    Absent = Absent
    Null = Null
    NaN = NaN
    McNaN = NaN
    McAbsent = Absent
    CountArray = CountArray
    OneArray = OneArray
    Anonymous = Anonymous
    Nobody = Nobody
    NoInput = NoInput
    NoAnswer = NoAnswer
    Proxy = Proxy
    ann = ann
    bob = bob
    User = {ann, bob}
    Owner = {ann, bob, Anonymous}
    Value <- MCValue
    toString <- MCtoString
    parseInt <- MCparseInt
    toLowerCase <- MCtoLowerCase
    HeaderName <- HeaderNames
    Request = {r1}
    Traffic <- WideTraffic
    UpstreamText <- UpstreamTexts
    UpstreamHeaders <- WideUpstreamHeaders
    NODE_ENV = "production"
    IntegerLiteral <- IntegerLiterals
INVARIANTS TimeoutsAre504
