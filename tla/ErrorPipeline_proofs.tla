------------------------ MODULE ErrorPipeline_proofs ------------------------
(***************************************************************************)
(* Proofs about the generic server base, for any errors of routes, any     *)
(* number of GraphQL error handlers and any configured errors.             *)
(***************************************************************************)
EXTENDS ErrorPipeline, Common_proofs

------------------------------------------------------------------------------
(* GraphQLErrorHandler.                                                     *)

LEMMA DefaultErrors ==
    ASSUME NEW a \in FailedAnswer
    PROVE  /\ unauthenticatedErrorHandler(a) \in Error
           /\ unhandledErrorHandler(a) \in Error \ {NoError}
           /\ a.outcome = "unauthenticated" =>
                /\ unauthenticatedErrorHandler(a) # NoError
                /\ unauthenticatedErrorHandler(a).status = 401
           /\ a.outcome # "unauthenticated" => unauthenticatedErrorHandler(a) = NoError
           /\ unhandledErrorHandler(a).status = 502
           /\ unauthenticatedErrorHandler(a).rest \/ unauthenticatedErrorHandler(a) = NoError
           /\ unhandledErrorHandler(a).rest
<1>1. a.owner \in Owner
  BY DEF FailedAnswer
<1>2. /\ "encountered UNAUTHENTICATED error upstream" \in Message
      /\ "Encountered unknown error upstream" \in Message
      /\ 401 \in Nat /\ 502 \in Nat /\ "cd7495a6" \in Id /\ "5eb9b295" \in Id
  BY DEF Message, Id
<1>3. /\ BFFFxErrorQuoting("encountered UNAUTHENTICATED error upstream", 401,
                           "cd7495a6", a.owner) \in Error
      /\ BFFFxErrorQuoting("Encountered unknown error upstream", 502, "5eb9b295",
                           a.owner) \in Error
  BY ONLY <1>1, <1>2, ErrorTypes
<1>4. unauthenticatedErrorHandler(a) \in Error
  BY <1>3, ErrorTypes DEF unauthenticatedErrorHandler
<1>5. unhandledErrorHandler(a) \in Error
  BY <1>3 DEF unhandledErrorHandler
<1>6. /\ unhandledErrorHandler(a).rest
      /\ unhandledErrorHandler(a).status = 502
  BY DEF unhandledErrorHandler, BFFFxErrorQuoting, RestResponseError
<1>7. ~NoError.rest
  BY DEF NoError, ProgramError
<1>8. a.outcome = "unauthenticated" =>
        /\ unauthenticatedErrorHandler(a).rest
        /\ unauthenticatedErrorHandler(a).status = 401
  BY DEF unauthenticatedErrorHandler, BFFFxErrorQuoting, RestResponseError
<1>9. a.outcome # "unauthenticated" => unauthenticatedErrorHandler(a) = NoError
  BY DEF unauthenticatedErrorHandler
<1> QED BY <1>4, <1>5, <1>6, <1>7, <1>8, <1>9

\* All handlers, the route's own and the default ones.
LEMMA AllHandlers ==
    ASSUME NEW a \in FailedAnswer, NEW hs \in Seq(Error \cup {Thrown})
    PROVE  LET all == hs \o defaultHandlers(a)
           IN  /\ DOMAIN all = 1..(Len(hs) + 2)
               /\ \A n \in 1..Len(hs) : all[n] = hs[n]
               /\ all[Len(hs) + 1] = unauthenticatedErrorHandler(a)
               /\ all[Len(hs) + 2] = unhandledErrorHandler(a)
<1> DEFINE S == Error \cup {Thrown}
           d == defaultHandlers(a)
           u == unauthenticatedErrorHandler(a)
           v == unhandledErrorHandler(a)
<1>1. u \in S /\ v \in S
  BY DefaultErrors
<1>2. d = <<u, v>>
  BY DEF defaultHandlers
<1> HIDE DEF S, u, v, d
<1>3. d \in Seq(S) /\ Len(d) = 2 /\ d[1] = u /\ d[2] = v
  BY <1>1, <1>2
<1>4. hs \in Seq(S) /\ Len(hs) \in Nat
  BY DEF S
<1>5. /\ hs \o d \in Seq(S)
      /\ Len(hs \o d) = Len(hs) + Len(d)
      /\ \A i \in 1..(Len(hs) + Len(d)) :
           (hs \o d)[i] = IF i <= Len(hs) THEN hs[i] ELSE d[i - Len(hs)]
  BY <1>3, <1>4, ConcatProperties
<1>6. /\ DOMAIN (hs \o d) = 1..(Len(hs) + 2)
      /\ \A n \in 1..Len(hs) : (hs \o d)[n] = hs[n]
      /\ (hs \o d)[Len(hs) + 1] = u
      /\ (hs \o d)[Len(hs) + 2] = v
  BY <1>3, <1>4, <1>5
<1> QED BY <1>6 DEF d, u, v

\* The first handler that recognises a ClientError decides.
LEMMA FirstDecides ==
    ASSUME NEW a \in FailedAnswer, isClientError(a),
           NEW hs \in Seq(Error \cup {Thrown})
    PROVE  LET e == GraphQLErrorHandler(a, hs)
           IN  \/ \E n \in DOMAIN hs :
                    /\ \A m \in 1..(n - 1) : hs[m] = NoError
                    /\ hs[n] # NoError /\ e = hs[n]
               \/ /\ \A n \in DOMAIN hs : hs[n] = NoError
                  /\ e \in Error \ {NoError} /\ e.rest
                  /\ e.status = (IF a.outcome = "unauthenticated" THEN 401 ELSE 502)
<1> DEFINE all == hs \o defaultHandlers(a)
           L == Len(hs)
           first == {n \in DOMAIN all :
                       /\ all[n] # NoError
                       /\ \A m \in DOMAIN all : m < n => all[m] = NoError}
           e == GraphQLErrorHandler(a, hs)
           u == unauthenticatedErrorHandler(a)
           v == unhandledErrorHandler(a)
<1>1. L \in Nat /\ DOMAIN hs = 1..L
  OBVIOUS
<1>2. /\ DOMAIN all = 1..(L + 2)
      /\ \A n \in 1..L : all[n] = hs[n]
      /\ all[L + 1] = u /\ all[L + 2] = v
  BY AllHandlers
<1>3. e = IF first = {} THEN NoError ELSE all[CHOOSE n \in first : TRUE]
  BY DEF GraphQLErrorHandler
<1>4. /\ u \in Error /\ v \in Error \ {NoError} /\ v.rest /\ v.status = 502
      /\ a.outcome = "unauthenticated" => u # NoError /\ u.status = 401
      /\ a.outcome # "unauthenticated" => u = NoError
      /\ u.rest \/ u = NoError
  BY DefaultErrors
<1> HIDE DEF u, v, e, all
<1>5. first # {}
  <2> DEFINE T == {n \in 1..(L + 2) : all[n] # NoError}
  <2>1. T \subseteq Nat /\ L + 2 \in T
    BY <1>1, <1>2, <1>4
  <2> HIDE DEF T
  <2>2. PICK n \in T : \A m \in T : n <= m
    BY <2>1, Least
  <2>3. n \in 1..(L + 2) /\ all[n] # NoError
    BY <2>2 DEF T
  <2>4. ASSUME NEW m \in 1..(L + 2), m < n PROVE all[m] = NoError
    <3>1. m \notin T
      BY <1>1, <2>2, <2>3, <2>4
    <3> QED BY <3>1 DEF T
  <2>5. n \in first
    BY <1>2, <2>3, <2>4
  <2> QED BY <2>5
<1>6. PICK n \in first : e = all[n]
  <2>1. (CHOOSE n \in first : TRUE) \in first
    BY <1>5
  <2> HIDE DEF first
  <2>2. e = all[CHOOSE n \in first : TRUE]
    BY <1>3, <1>5
  <2> QED BY <2>1, <2>2
<1>7. /\ n \in 1..(L + 2) /\ e = all[n] /\ e # NoError
      /\ \A m \in 1..(L + 2) : m < n => all[m] = NoError
  BY <1>2, <1>6
<1> HIDE DEF first
<1>8. CASE n \in 1..L
  <2>1. \A m \in 1..(n - 1) : hs[m] = NoError
    <3> TAKE m \in 1..(n - 1)
    <3>1. m \in 1..(L + 2) /\ m < n /\ m \in 1..L
      BY <1>1, <1>8
    <3> QED BY <1>2, <1>7, <3>1
  <2>2. hs[n] # NoError /\ e = hs[n]
    BY <1>2, <1>7, <1>8
  <2> QED BY <1>1, <1>8, <2>1, <2>2 DEF e
<1>9. CASE n \in {L + 1, L + 2}
  <2>1. \A m \in DOMAIN hs : hs[m] = NoError
    <3> TAKE m \in DOMAIN hs
    <3>1. m \in 1..(L + 2) /\ m < n /\ m \in 1..L
      BY <1>1, <1>9
    <3> QED BY <1>2, <1>7, <3>1
  <2>2. CASE n = L + 1
    <3>1. e = u /\ u # NoError
      BY <1>2, <1>7, <2>2
    <3> QED BY <1>4, <2>1, <3>1 DEF e
  <2>3. CASE n = L + 2
    <3>1. e = v
      BY <1>2, <1>7, <2>3
    <3>2. u = NoError
      <4>1. L + 1 \in 1..(L + 2) /\ L + 1 < n
        BY <1>1, <2>3
      <4> QED BY <1>2, <1>7, <4>1
    <3>3. a.outcome # "unauthenticated"
      BY <1>4, <3>2
    <3> QED BY <1>4, <2>1, <3>1, <3>3 DEF e
  <2> QED BY <1>9, <2>2, <2>3
<1>10. n \in 1..L \/ n \in {L + 1, L + 2}
  BY <1>1, <1>7
<1> QED BY <1>8, <1>9, <1>10

------------------------------------------------------------------------------
(* The options.                                                             *)

\* Every option that is left out has its default, however partial the others are.
LEMMA Defaults ==
    ASSUME given \in Optional(ServerOptions)
    PROVE  /\ server.notFoundError \in Error /\ server.notFoundError.rest
           /\ server.errorHandler.defaultError =
                IF /\ given # Absent
                   /\ given.errorHandlerOptions # Absent
                   /\ given.errorHandlerOptions.defaultError # Absent
                THEN CustomDefault ELSE DEFAULT_ERROR
           /\ server.errorHandler.errorCallback \in ErrorCallback
           /\ (given # Absent => given.sentryErrorHandlerOptions = Absent)
                => server.reports = "server"
<1> DEFINE whole == OrDefault(given, DEFAULT_SERVER_OPTIONS)
           opts == whole.errorHandlerOptions
           dflt == [defaultError |-> DEFAULT_ERROR, errorCallback |-> "returns"]
<1>1. /\ CustomNotFound \in Error /\ CustomNotFound.rest
      /\ CustomDefault # Absent
      /\ Absent # "server"
  BY PipelineAssumption
<1>2. DEFAULT_NOT_FOUND \in Error /\ DEFAULT_NOT_FOUND.rest
  <2>1. [NoDocument EXCEPT !.kind = "text"] \in Document
    BY ErrorTypes DEF Document, Kind
  <2>2. "Not Found" \in Message /\ 404 \in Nat /\ "SUPPRESS" \in SENTRY_BEHAVIOR
    BY DEF Message, SENTRY_BEHAVIOR
  <2> QED BY <2>1, <2>2 DEF DEFAULT_NOT_FOUND, TextError, RestResponseError, Error
<1>3. whole.notFoundHandlerOptions \in Optional(NotFoundHandlerOptions)
  BY DEF OrDefault, DEFAULT_SERVER_OPTIONS, Optional, ServerOptions
<1>4. notFoundDefault(whole.notFoundHandlerOptions) \in {CustomNotFound, DEFAULT_NOT_FOUND}
  <2>1. CASE whole.notFoundHandlerOptions = Absent
    BY <2>1 DEF notFoundDefault, OrDefault
  <2>2. CASE /\ whole.notFoundHandlerOptions # Absent
             /\ whole.notFoundHandlerOptions \in NotFoundHandlerOptions
    BY <2>2 DEF notFoundDefault, OrDefault, NotFoundHandlerOptions
  <2> QED BY <1>3, <2>1, <2>2 DEF Optional
<1>5. server.notFoundError = notFoundDefault(whole.notFoundHandlerOptions)
  BY DEF server, buildServer
<1>6. server.errorHandler = errorHandlerDefaults(opts)
  BY DEF server, buildServer
<1>7. /\ opts \in Optional(ErrorHandlerOptions)
      /\ opts = IF given # Absent THEN given.errorHandlerOptions ELSE Absent
  BY DEF OrDefault, DEFAULT_SERVER_OPTIONS, Optional, ServerOptions
<1>8. /\ server.errorHandler.defaultError =
           IF opts # Absent /\ opts.defaultError # Absent
           THEN CustomDefault ELSE DEFAULT_ERROR
      /\ server.errorHandler.errorCallback \in ErrorCallback
  <2> HIDE DEF opts
  <2>1. CASE opts = Absent
    <3>1. errorHandlerDefaults(opts) =
            [defaultError |-> OrDefault(DEFAULT_ERROR, DEFAULT_ERROR),
             errorCallback |-> OrDefault("returns", "returns")]
      BY <2>1 DEF errorHandlerDefaults, OrDefault
    <3> QED BY <1>6, <2>1, <3>1 DEF OrDefault, ErrorCallback
  <2>2. CASE opts # Absent /\ opts \in ErrorHandlerOptions
    <3>1. errorHandlerDefaults(opts) =
            [defaultError |-> OrDefault(opts.defaultError, DEFAULT_ERROR),
             errorCallback |-> OrDefault(opts.errorCallback, "returns")]
      BY <2>2 DEF errorHandlerDefaults, OrDefault
    <3>2. /\ opts.defaultError \in {CustomDefault, Absent}
          /\ opts.errorCallback \in ErrorCallback \cup {Absent}
      BY <2>2 DEF ErrorHandlerOptions, Optional
    <3> QED BY <1>1, <1>6, <2>2, <3>1, <3>2 DEF OrDefault, ErrorCallback
  <2> QED BY <1>7, <2>1, <2>2 DEF Optional
<1>9. (given # Absent => given.sentryErrorHandlerOptions = Absent)
        => server.reports = "server"
  <2> DEFINE sentry == DEFAULT_SERVER_OPTIONS.sentryErrorHandlerOptions
  <2> SUFFICES ASSUME given # Absent => given.sentryErrorHandlerOptions = Absent
               PROVE  server.reports = "server"
    OBVIOUS
  <2>1. OrDefault(whole.sentryErrorHandlerOptions, sentry) = sentry
    BY DEF OrDefault
  <2>2. sentry.shouldHandleError = "server"
    BY DEF DEFAULT_SERVER_OPTIONS
  <2>3. server.reports = OrDefault(sentry.shouldHandleError, "sentry")
    BY <2>1 DEF server, buildServer
  <2> QED BY <1>1, <2>2, <2>3 DEF OrDefault
<1> HIDE DEF opts, whole
<1> QED BY <1>1, <1>2, <1>4, <1>5, <1>7, <1>8, <1>9

------------------------------------------------------------------------------
(* The invariant.                                                           *)

\* What the client is told of an error.
Shown(e) == IF e.rest THEN e ELSE server.errorHandler.defaultError

Reported(e) == IF Reports(e) THEN <<e>> ELSE <<>>

\* Where an upstream error comes from that a route passes on.
Decided ==
    answer.outcome \in {"unauthenticated", "clientError"} =>
        \/ \E n \in DOMAIN handlers :
             /\ \A m \in 1..(n - 1) : handlers[m] = NoError
             /\ handlers[n] \in Error \ {NoError}
             /\ err = handlers[n] /\ err.rest
        \/ /\ \A n \in DOMAIN handlers : handlers[n] = NoError
           /\ err.rest
           /\ err.status = (IF answer.outcome = "unauthenticated" THEN 401 ELSE 502)

\* A route that answered and called next() as well.
Answered ==
    sent = <<Text(200, "ok")>> /\ err.rest /\ answer.outcome = "none"

PipelineInv ==
    /\ given \in Optional(ServerOptions)
    /\ step \in {"waiting", "route", "sentry", "errorHandler", "done", "hung"}
    /\ step \in {"waiting", "route"} =>
         sent = <<>> /\ captured = <<>> /\ called = <<>> /\ answer.outcome = "none"
    /\ step \in {"sentry", "errorHandler"} =>
         called = <<>> /\ err \in Error /\ Decided /\ (sent = <<>> \/ Answered)
    /\ step = "sentry" => captured = <<>>
    /\ step = "errorHandler" => captured = Reported(err)
    /\ step = "done" => \E told : sent = <<told>>
    /\ step = "done" /\ called # <<>> =>
         err \in Error /\ captured = Reported(err) /\ Decided
    /\ ToldByTheHandler => sent = <<Told(Shown(err))>> \/ (err.rest /\ answer.outcome = "none")
    /\ SilenceIsTheRoutesOwn

LEMMA PipelineInit == Init => PipelineInv
BY DEF Init, PipelineInv, NoAnswer, ToldByTheHandler, SilenceIsTheRoutesOwn

\* A route passes an error to next(): the not-found error or one of its own.
LEMMA FailKeeps ==
    ASSUME PipelineInv, step = "route", NEW error \in Error, Fail(error),
           \/ sent' = sent
           \/ sent' = <<Text(200, "ok")>> /\ error.rest,
           answer' = answer, handlers' = handlers
    PROVE  PipelineInv'
<1>1. /\ err' = error /\ step' = "sentry" /\ UNCHANGED <<given, captured, called>>
      /\ answer' = answer
  BY DEF Fail
<1>2. /\ sent = <<>> /\ captured = <<>> /\ called = <<>> /\ answer.outcome = "none"
      /\ given \in Optional(ServerOptions)
  BY DEF PipelineInv
<1>3. Decided'
  BY <1>1, <1>2 DEF Decided
<1>4. sent' = <<>> \/ Answered'
  BY <1>1, <1>2 DEF Answered, Text
<1>5. ~ToldByTheHandler' /\ SilenceIsTheRoutesOwn'
  BY <1>1 DEF ToldByTheHandler, SilenceIsTheRoutesOwn
<1> QED BY <1>1, <1>2, <1>3, <1>4, <1>5 DEF PipelineInv

LEMMA RouteCatchesKeeps ==
    ASSUME PipelineInv, RouteCatches
    PROVE  PipelineInv'
<1> DEFINE e == GraphQLErrorHandler(answer', handlers')
<1>1. /\ step = "route" /\ sent' = sent
      /\ answer' \in FailedAnswer /\ handlers' \in RouteHandlers
      /\ \/ e \notin {NoError, Thrown} /\ Fail(e)
         \/ /\ e \in {NoError, Thrown} /\ step' = "hung"
            /\ UNCHANGED <<given, err, captured, called>>
  BY DEF RouteCatches
<1>2. /\ sent = <<>> /\ captured = <<>> /\ called = <<>>
      /\ given \in Optional(ServerOptions)
  BY <1>1 DEF PipelineInv
<1>3. /\ handlers' \in Seq(Error \cup {Thrown}) /\ Thrown \notin Error
      /\ \A n \in DOMAIN handlers' :
           handlers'[n] \in {NoError, Thrown} \/ handlers'[n].rest
  BY <1>1, PipelineAssumption
<1>4. \A n \in DOMAIN handlers' : handlers'[n] \in Error \cup {Thrown}
  BY <1>3
<1>5. CASE isClientError(answer')
  <2>1. \/ \E n \in DOMAIN handlers' :
             /\ \A m \in 1..(n - 1) : handlers'[m] = NoError
             /\ handlers'[n] # NoError /\ e = handlers'[n]
        \/ /\ \A n \in DOMAIN handlers' : handlers'[n] = NoError
           /\ e \in Error \ {NoError} /\ e.rest
           /\ e.status = (IF answer'.outcome = "unauthenticated" THEN 401 ELSE 502)
    BY <1>1, <1>3, <1>5, FirstDecides
  <2> HIDE DEF e
  <2>2. CASE e \notin {NoError, Thrown} /\ Fail(e)
    <3>1. /\ err' = e /\ step' = "sentry" /\ UNCHANGED <<given, captured, called>>
      BY <2>2 DEF Fail
    <3>2. e \in Error
      BY <1>4, <2>1, <2>2
    <3>3. Decided'
      <4>1. CASE \E n \in DOMAIN handlers' :
                   /\ \A m \in 1..(n - 1) : handlers'[m] = NoError
                   /\ handlers'[n] # NoError /\ e = handlers'[n]
        <5>1. PICK n \in DOMAIN handlers' :
                   /\ \A m \in 1..(n - 1) : handlers'[m] = NoError
                   /\ handlers'[n] # NoError /\ e = handlers'[n]
          BY <4>1
        <5>2. handlers'[n] \in Error \ {NoError} /\ err' = handlers'[n] /\ err'.rest
          BY <1>3, <2>2, <3>1, <3>2, <5>1
        <5> QED BY <5>1, <5>2 DEF Decided
      <4>2. CASE /\ \A n \in DOMAIN handlers' : handlers'[n] = NoError
                 /\ e.rest
                 /\ e.status = (IF answer'.outcome = "unauthenticated" THEN 401 ELSE 502)
        BY <3>1, <4>2 DEF Decided
      <4> QED BY <2>1, <4>1, <4>2
    <3>4. ~ToldByTheHandler' /\ SilenceIsTheRoutesOwn'
      BY <3>1 DEF ToldByTheHandler, SilenceIsTheRoutesOwn
    <3> QED BY <1>1, <1>2, <3>1, <3>2, <3>3, <3>4 DEF PipelineInv
  <2>3. CASE /\ e \in {NoError, Thrown} /\ step' = "hung"
             /\ UNCHANGED <<given, err, captured, called>>
    <3>1. SilenceIsTheRoutesOwn'
      BY <1>3, <2>1, <2>3 DEF SilenceIsTheRoutesOwn
    <3>2. ~ToldByTheHandler'
      BY <2>3 DEF ToldByTheHandler
    <3> QED BY <1>2, <2>3, <3>1, <3>2 DEF PipelineInv
  <2> QED BY <1>1, <2>2, <2>3
<1>6. CASE ~isClientError(answer')
  <2>1. e = ProgramError(answer'.outcome)
    BY <1>6 DEF GraphQLErrorHandler
  <2>2. answer'.outcome \in {"networkError", "timeout"}
    BY <1>1, <1>6 DEF FailedAnswer, isClientError
  <2>3. e \in Error
    BY <2>1, <2>2, ErrorTypes DEF Exception
  <2>4. e # NoError
    BY <2>1, <2>2 DEF NoError, ProgramError
  <2> HIDE DEF e
  <2>5. Fail(e)
    BY <1>1, <1>3, <2>3, <2>4
  <2>6. /\ err' = e /\ step' = "sentry" /\ UNCHANGED <<given, captured, called>>
    BY <2>5 DEF Fail
  <2>7. Decided'
    BY <2>2 DEF Decided
  <2>8. ~ToldByTheHandler' /\ SilenceIsTheRoutesOwn'
    BY <2>6 DEF ToldByTheHandler, SilenceIsTheRoutesOwn
  <2> QED BY <1>1, <1>2, <2>3, <2>6, <2>7, <2>8 DEF PipelineInv
<1> QED BY <1>5, <1>6

LEMMA SentryKeeps ==
    ASSUME PipelineInv, SentryErrorHandler
    PROVE  PipelineInv'
<1>1. /\ step = "sentry" /\ step' = "errorHandler"
      /\ captured' = IF Reports(err) THEN Append(captured, err) ELSE captured
      /\ UNCHANGED <<given, answer, handlers, err, sent, called>>
  BY DEF SentryErrorHandler
<1>2. /\ captured = <<>> /\ called = <<>> /\ err \in Error /\ Decided
      /\ sent = <<>> \/ Answered
      /\ given \in Optional(ServerOptions)
  BY <1>1 DEF PipelineInv
<1>3. Append(<<>>, err) = <<err>>
  OBVIOUS
<1>4. captured' = Reported(err)
  BY <1>1, <1>2, <1>3, Zenon DEF Reported
<1>5. Reported(err)' = Reported(err)
  BY <1>1 DEF Reported, Reports, server
<1>6. Decided' /\ (sent' = <<>> \/ Answered')
  BY <1>1, <1>2 DEF Decided, Answered
<1>7. ~ToldByTheHandler' /\ SilenceIsTheRoutesOwn'
  BY <1>1 DEF ToldByTheHandler, SilenceIsTheRoutesOwn
<1> QED BY <1>1, <1>2, <1>4, <1>5, <1>6, <1>7 DEF PipelineInv

LEMMA ErrorHandlerKeeps ==
    ASSUME PipelineInv, ErrorHandler
    PROVE  PipelineInv'
<1> DEFINE callback == server.errorHandler.errorCallback
<1>1. /\ step = "errorHandler" /\ step' = "done"
      /\ called' = Append(called, err)
      /\ UNCHANGED <<given, answer, handlers, err, captured>>
  BY DEF ErrorHandler
<1>2. /\ called = <<>> /\ err \in Error /\ Decided
      /\ captured = Reported(err)
      /\ sent = <<>> \/ Answered
      /\ given \in Optional(ServerOptions)
  BY <1>1 DEF PipelineInv
<1>3. callback \in ErrorCallback
  BY <1>2, Defaults
<1>4. /\ callback = "throws" \/ sent # <<>> => sent' = finalhandler
      /\ callback = "answers" /\ sent = <<>> => sent' = <<Text(200, "ok")>>
      /\ callback = "returns" /\ sent = <<>> => sent' = <<Told(Shown(err))>>
  <2>1. sent' = IF callback = "throws" \/ sent # <<>> THEN finalhandler
                ELSE IF callback = "answers" THEN <<Text(200, "ok")>>
                ELSE <<Told(Shown(err))>>
    BY DEF ErrorHandler, Shown
  <2> HIDE DEF callback
  <2> QED BY <2>1
<1>5. server' = server
  BY <1>1 DEF server
<1>6. Reported(err)' = Reported(err) /\ Decided' /\ Told(Shown(err))' = Told(Shown(err))
  <2>1. Reported(err)' = Reported(err) /\ Told(Shown(err))' = Told(Shown(err))
    BY <1>1, <1>5 DEF Reported, Reports, Told, Shown
  <2>2. Decided'
    BY <1>1, <1>2 DEF Decided
  <2> QED BY <2>1, <2>2
<1>7. \E told : sent' = <<told>>
  <2>1. CASE sent = <<>>
    BY <1>3, <1>4, <2>1 DEF finalhandler, ErrorCallback
  <2>2. CASE Answered
    BY <1>4, <2>2 DEF finalhandler, Answered
  <2> QED BY <1>2, <2>1, <2>2
<1>8. ToldByTheHandler' =>
        sent' = <<Told(Shown(err))>>' \/ (err'.rest /\ answer'.outcome = "none")
  <2> SUFFICES ASSUME ToldByTheHandler'
               PROVE  sent' = <<Told(Shown(err))>>' \/ (err'.rest /\ answer'.outcome = "none")
    OBVIOUS
  <2>1. callback = "returns"
    BY <1>5 DEF ToldByTheHandler
  <2>2. CASE sent = <<>>
    BY <1>4, <1>6, <2>1, <2>2
  <2>3. CASE Answered
    BY <1>1, <2>3 DEF Answered
  <2> QED BY <1>2, <2>2, <2>3
<1>9. SilenceIsTheRoutesOwn'
  BY <1>1 DEF SilenceIsTheRoutesOwn
<1> QED BY <1>1, <1>2, <1>6, <1>7, <1>8, <1>9 DEF PipelineInv

LEMMA PipelineNext == PipelineInv /\ [Next]_vars => PipelineInv'
<1> SUFFICES ASSUME PipelineInv, [Next]_vars PROVE PipelineInv'
  OBVIOUS
<1>1. CASE Receive
  BY <1>1 DEF Receive, PipelineInv, ToldByTheHandler, SilenceIsTheRoutesOwn
<1>2. CASE RouteAnswers
  <2>1. /\ step = "route" /\ step' = "done" /\ sent' = Append(sent, Text(200, "ok"))
        /\ UNCHANGED <<given, answer, handlers, err, captured, called>>
    BY <1>2 DEF RouteAnswers
  <2>2. sent = <<>> /\ called = <<>> /\ given \in Optional(ServerOptions)
    BY <2>1 DEF PipelineInv
  <2>3. \E told : sent' = <<told>>
    BY <2>1, <2>2
  <2>4. ~ToldByTheHandler' /\ SilenceIsTheRoutesOwn'
    BY <2>1, <2>2 DEF ToldByTheHandler, SilenceIsTheRoutesOwn
  <2> QED BY <2>1, <2>2, <2>3, <2>4 DEF PipelineInv
<1>3. CASE RouteAnswersThenNext
  <2>1. /\ step = "route" /\ sent' = Append(sent, Text(200, "ok"))
        /\ Fail(server.notFoundError) /\ UNCHANGED <<answer, handlers>>
    BY <1>3 DEF RouteAnswersThenNext
  <2>2. sent = <<>> /\ server.notFoundError \in Error /\ server.notFoundError.rest
    BY <2>1, Defaults DEF PipelineInv
  <2>3. Append(<<>>, Text(200, "ok")) = <<Text(200, "ok")>>
    OBVIOUS
  <2>4. sent' = <<Text(200, "ok")>>
    BY <2>1, <2>2, <2>3, Zenon
  <2> QED BY <2>1, <2>2, <2>4, FailKeeps
<1>4. CASE NotFoundHandler
  <2>1. server.notFoundError \in Error
    BY Defaults DEF PipelineInv
  <2> QED BY <1>4, <2>1, FailKeeps DEF NotFoundHandler
<1>5. CASE RouteFails
  <2>1. PICK error \in RouteErrors : Fail(error)
    BY <1>5 DEF RouteFails
  <2>2. error \in Error
    BY PipelineAssumption
  <2> QED BY <1>5, <2>1, <2>2, FailKeeps DEF RouteFails
<1>6. CASE RouteCatches
  BY <1>6, RouteCatchesKeeps
<1>7. CASE SentryErrorHandler
  BY <1>7, SentryKeeps
<1>8. CASE ErrorHandler
  BY <1>8, ErrorHandlerKeeps
<1>9. CASE Finish
  BY <1>9 DEF Finish, NoAnswer, PipelineInv, ToldByTheHandler, SilenceIsTheRoutesOwn
<1>10. CASE UNCHANGED vars
  <2>1. UNCHANGED <<given, step, answer, handlers, err, sent, captured, called>>
    BY <1>10 DEF vars
  <2>2. server' = server
    BY <2>1 DEF server
  <2>3. /\ Reported(err)' = Reported(err) /\ Told(Shown(err))' = Told(Shown(err))
        /\ Decided' = Decided /\ Answered' = Answered
        /\ ToldByTheHandler' = ToldByTheHandler
        /\ SilenceIsTheRoutesOwn' = SilenceIsTheRoutesOwn
    BY <2>1, <2>2
       DEF Reported, Reports, Told, Shown, Decided, Answered, ToldByTheHandler,
           SilenceIsTheRoutesOwn
  <2> QED BY <2>1, <2>3 DEF PipelineInv
<1> QED BY <1>1, <1>2, <1>3, <1>4, <1>5, <1>6, <1>7, <1>8, <1>9, <1>10 DEF Next

(* Where a request is, what has been sent, reported and called for it, and  *)
(* what the error it failed with came from.                                 *)
THEOREM PipelineInvariant == Spec => []PipelineInv
<1> QED BY PipelineInit, PipelineNext, PTL DEF Spec

------------------------------------------------------------------------------
(* Any server, however it is configured and whatever its routes and its     *)
(* error callback do, answers a request it is done with exactly once.       *)
THEOREM AnsweredOnce == Spec => []OneAnswer
<1>1. PipelineInv => OneAnswer
  BY DEF PipelineInv, OneAnswer
<1> QED BY <1>1, PipelineInvariant, PTL

(* Only an error handler of a route's own can leave a request unanswered.   *)
THEOREM SilenceExplained == Spec => []SilenceIsTheRoutesOwn
<1>1. PipelineInv => SilenceIsTheRoutesOwn
  BY DEF PipelineInv
<1> QED BY <1>1, PipelineInvariant, PTL

(* No exception reaches a client: it is told the configured or the generic  *)
(* error.                                                                   *)
THEOREM ExceptionsAreRedacted == Spec => []Redacted
<1>1. PipelineInv => Redacted
  <2> SUFFICES ASSUME PipelineInv, ToldByTheHandler, ~err.rest
               PROVE  sent[1] =
                        IF /\ given # Absent
                           /\ given.errorHandlerOptions # Absent
                           /\ given.errorHandlerOptions.defaultError # Absent
                        THEN Told(CustomDefault)
                        ELSE [status |-> 500,
                              response |-> [NoDocument EXCEPT !.kind = "text"]]
    BY DEF Redacted
  <2>1. sent = <<Told(server.errorHandler.defaultError)>>
    BY DEF PipelineInv, Shown
  <2>2. sent[1] = Told(server.errorHandler.defaultError)
    BY <2>1
  <2>3. Told(DEFAULT_ERROR) = [status |-> 500,
                               response |-> [NoDocument EXCEPT !.kind = "text"]]
    BY DEF Told, DEFAULT_ERROR, TextError, RestResponseError
  <2>4. server.errorHandler.defaultError =
          IF /\ given # Absent
             /\ given.errorHandlerOptions # Absent
             /\ given.errorHandlerOptions.defaultError # Absent
          THEN CustomDefault ELSE DEFAULT_ERROR
    BY Defaults DEF PipelineInv
  <2> QED BY <2>2, <2>3, <2>4, Zenon
<1> QED BY <1>1, PipelineInvariant, PTL

(* The marks on errors decide what is reported, once, and otherwise the     *)
(* status does.                                                             *)
THEOREM MarksAreHeeded == Spec => []ReportedAsMarked
<1>1. PipelineInv => ReportedAsMarked
  <2> SUFFICES ASSUME PipelineInv, step = "done", called # <<>>,
                      given # Absent => given.sentryErrorHandlerOptions = Absent
               PROVE  captured =
                        IF err.rest /\ \/ err.sentryBehavior = "SUPPRESS"
                                       \/ err.sentryBehavior = "DEFAULT" /\ err.status < 500
                        THEN <<>> ELSE <<err>>
    BY DEF ReportedAsMarked
  <2>1. server.reports = "server"
    BY Defaults DEF PipelineInv
  <2>2. captured = Reported(err) /\ err \in Error
    BY DEF PipelineInv
  <2>3. Reports(err) = shouldHandleError(err)
    BY <2>1 DEF Reports
  <2>4. /\ err.status \in Nat /\ err.sentryBehavior \in SENTRY_BEHAVIOR
        /\ err.rest \in BOOLEAN
    BY <2>2 DEF Error
  <2>5. shouldHandleError(err) <=>
          ~(err.rest /\ \/ err.sentryBehavior = "SUPPRESS"
                        \/ err.sentryBehavior = "DEFAULT" /\ err.status < 500)
    BY <2>4 DEF shouldHandleError, SENTRY_BEHAVIOR
  <2> QED BY <2>2, <2>3, <2>5, Zenon DEF Reported
<1> QED BY <1>1, PipelineInvariant, PTL

(* Among any number of handlers the first that recognises an upstream error *)
(* decides; if none does the client is told 401 or 502, as upstream said.   *)
THEOREM FirstHandlerDecides == Spec => []TheFirstHandlerDecides
<1>1. PipelineInv => TheFirstHandlerDecides
  <2> SUFFICES ASSUME PipelineInv, ToldByTheHandler,
                      answer.outcome \in {"unauthenticated", "clientError"}
               PROVE  \/ \E n \in DOMAIN handlers :
                           /\ \A m \in 1..(n - 1) : handlers[m] = NoError
                           /\ handlers[n] \in Error \ {NoError}
                           /\ sent[1] = Told(handlers[n])
                      \/ /\ \A n \in DOMAIN handlers : handlers[n] = NoError
                         /\ sent[1].status =
                              (IF answer.outcome = "unauthenticated" THEN 401 ELSE 502)
    BY DEF TheFirstHandlerDecides
  <2>1. sent = <<Told(Shown(err))>> /\ Decided
    BY DEF PipelineInv, ToldByTheHandler
  <2>2. err.rest
    BY <2>1 DEF Decided
  <2>3. sent[1] = Told(err)
    BY <2>1, <2>2 DEF Shown
  <2>4. Told(err).status = err.status
    BY DEF Told
  <2> QED BY <2>1, <2>3, <2>4 DEF Decided
<1> QED BY <1>1, PipelineInvariant, PTL
=============================================================================
