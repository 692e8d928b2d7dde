SPECIFICATION Spec
CONSTANTS
    Absent = Absent
    Null = Null
    NaN = NaN
    McNaN = NaN
    McAbsent = Absent
    CountArray = CountArray
    OneArray = OneArray
    Anonymous = Anonymous
    Nothing = Nothing
    ann = ann
    bob = bob
    User = {ann, bob}
    Owner = {ann, bob, Anonymous}
    Value <- MCValue
    toString <- MCtoString
    parseInt <- MCparseInt
    toLowerCase <- MCtoLowerCase
    HeaderName <- HeaderNames
    Traffic <- MCTraffic
    environment = "production"
    Answers <- MCAnswers
    Tick = 450
    Horizon = 900
INVARIANTS
    SharedAnswersAreAnybodys
    HitsKeepThePromise
    OutagesAreForgotten
    SavesAreForgotten
