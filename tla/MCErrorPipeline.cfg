SPECIFICATION Spec
CONSTANTS
    Absent = Absent
    Thrown = Thrown
    Anonymous = Anonymous
    Owner = {Anonymous}
    CustomNotFound <- MCCustomNotFound
    CustomDefault <- MCCustomDefault
    RouteErrors <- MCRouteErrors
    RouteHandlers <- MCRouteHandlers
INVARIANTS
    OneAnswer
    SilenceIsTheRoutesOwn
    Redacted
    ReportedAsMarked
    TheFirstHandlerDecides
