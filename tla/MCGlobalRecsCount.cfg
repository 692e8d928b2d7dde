SPECIFICATION Spec
CONSTANTS
    Absent = Absent
    Null = Null
    NaN = NaN
    McNaN = NaN
    McAbsent = Absent
    CountArray = CountArray
    OneArray = OneArray
    Anonymous = Anonymous
    Owner = {Anonymous}
    Value <- MCValue
    toString <- MCtoString
    parseInt <- MCparseInt
    toLowerCase <- MCtoLowerCase
    Queries <- MCQueries
    IntegerLiteral <- IntegerLiterals
    Thrown = Thrown
    s1 = s1
    s2 = s2
    s3 = s3
    s4 = s4
    s5 = s5
    s6 = s6
    news = news
    blog = blog
    image = image
    ID = {s1, s2, s3, s4, s5, s6}
    Page = {news, blog, image}
    String <- Strings
    Libraries <- MCLibraries
    Slates <- MCSlates
INVARIANTS DocumentedGlobalRecsIsAccepted
