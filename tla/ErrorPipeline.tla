---------------------------- MODULE ErrorPipeline ----------------------------
(***************************************************************************)
(* The generic server base (server.ts and errors/), which services other   *)
(* than this one are meant to configure: a server is built with any of the *)
(* options left out, and what a route leaves behind runs through           *)
(* NotFoundHandler, Sentry and ErrorHandler.  Routes may misbehave here:   *)
(* they answer and call next() as well, or their own GraphQL error         *)
(* handlers throw.  One request at a time: requests share nothing but the  *)
(* built handlers, which do not change.                                    *)
(***************************************************************************)
EXTENDS GraphQLErrors

CONSTANTS
    Absent,         \* undefined
    Thrown,         \* an error handler of a route throws
    CustomNotFound, \* the error another service configures for an unknown route
    CustomDefault,  \* ... and for exceptions
    RouteErrors,    \* the errors routes pass to next()
    RouteHandlers   \* what a route's own GraphQL error handlers do, in their order

ASSUME PipelineAssumption ==
    /\ Absent \notin Error \cup {"server", "nothing"}
    /\ Thrown \notin Error
    /\ {CustomNotFound, CustomDefault} \cup RouteErrors \subseteq Error
    /\ CustomNotFound.rest /\ CustomDefault.rest
    /\ RouteHandlers \subseteq Seq(Error \cup {Thrown})
    /\ \A hs \in RouteHandlers : \A n \in DOMAIN hs :
         hs[n] \in {NoError, Thrown} \/ hs[n].rest

VARIABLES
    given,     \* the options buildServer was called with
    step,      \* what runs next for the request
    answer,    \* how the upstream call of the route settled, if it failed
    handlers,  \* what the route's own handlers make of that
    err,       \* the error passed to next()
    sent,      \* the answers the client has received
    captured,  \* the errors reported to Sentry
    called     \* the errors the error callback was called with
vars == <<given, step, answer, handlers, err, sent, captured, called>>

------------------------------------------------------------------------------
(* Options, and what is made of those left out.                             *)

OrDefault(option, default) == IF option = Absent THEN default ELSE option

Optional(T) == T \cup {Absent}

\* An error callback returns, throws, or does what it is told not to: it answers.
ErrorCallback == {"returns", "throws", "answers"}

NotFoundHandlerOptions == [defaultError : {CustomNotFound}]
ErrorHandlerOptions == [defaultError : Optional({CustomDefault}),
                        errorCallback : Optional(ErrorCallback)]

\* shouldHandleError: the rule of server.ts, or one that reports nothing.
SentryErrorHandlerOptions == [shouldHandleError : Optional({"server", "nothing"})]

ServerOptions ==
    [notFoundHandlerOptions : Optional(NotFoundHandlerOptions),
     errorHandlerOptions : Optional(ErrorHandlerOptions),
     sentryErrorHandlerOptions : Optional(SentryErrorHandlerOptions)]

TextError(message, status, sentryBehavior) ==
    RestResponseError(message, status, [NoDocument EXCEPT !.kind = "text"], sentryBehavior)

DEFAULT_NOT_FOUND == TextError("Not Found", 404, "SUPPRESS")
DEFAULT_ERROR == TextError("Internal Server Error", 500, "DEFAULT")

DEFAULT_SERVER_OPTIONS ==
    [notFoundHandlerOptions |-> Absent, errorHandlerOptions |-> Absent,
     sentryErrorHandlerOptions |-> [shouldHandleError |-> "server"]]

notFoundDefault(options) ==
    OrDefault(options, [defaultError |-> DEFAULT_NOT_FOUND]).defaultError

\* Slip: the defaults stand in for the options as a whole only, and a field that
\* is left out stays undefined.
errorHandlerDefaultsWhole(options) ==
    LET whole == OrDefault(options, [defaultError |-> DEFAULT_ERROR,
                                     errorCallback |-> "returns"])
    IN  [defaultError |-> OrDefault(whole.defaultError, NoError),
         errorCallback |-> OrDefault(whole.errorCallback, "returns")]

errorHandlerDefaults(options) ==
    LET whole == OrDefault(options, [defaultError |-> DEFAULT_ERROR,
                                     errorCallback |-> "returns"])
    IN  [defaultError |-> OrDefault(whole.defaultError, DEFAULT_ERROR),
         errorCallback |-> OrDefault(whole.errorCallback, "returns")]

\* Slip: the same with the options of buildServer.
buildServerWhole(options) ==
    LET whole == OrDefault(options, DEFAULT_SERVER_OPTIONS)
    IN  [notFoundError |-> notFoundDefault(whole.notFoundHandlerOptions),
         errorHandler |-> errorHandlerDefaults(whole.errorHandlerOptions),
         reports |-> OrDefault(
             OrDefault(whole.sentryErrorHandlerOptions,
                       [shouldHandleError |-> Absent]).shouldHandleError, "sentry")]

\* The handlers buildServer registers.  Sentry has a rule of its own for options
\* without shouldHandleError.
buildServer(options) ==
    LET whole == OrDefault(options, DEFAULT_SERVER_OPTIONS)
    IN  [notFoundError |-> notFoundDefault(whole.notFoundHandlerOptions),
         errorHandler |-> errorHandlerDefaults(whole.errorHandlerOptions),
         reports |-> OrDefault(
             OrDefault(whole.sentryErrorHandlerOptions,
                       DEFAULT_SERVER_OPTIONS.sentryErrorHandlerOptions
                      ).shouldHandleError, "sentry")]

server == buildServer(given)

\* Sentry's own rule looks at nothing but the status that the error itself names:
\* the errors of body-parser name 400, and an error that names none is a 500.
sentryStatus(error) ==
    IF error.rest THEN error.status
    ELSE IF error.message \in {"SyntaxError", "request aborted"} THEN 400 ELSE 500

sentryShouldHandleError(error) == sentryStatus(error) >= 500

Reports(error) ==
    CASE server.reports = "server" -> shouldHandleError(error)
      [] server.reports = "sentry" -> sentryShouldHandleError(error)
      [] server.reports = "nothing" -> FALSE

------------------------------------------------------------------------------
(* What a route does with a request.                                        *)

Text(status, id) == [status |-> status, response |-> [NoDocument EXCEPT !.kind = "text",
                                                                          !.id = id]]
Told(error) == [status |-> error.status, response |-> error.response]

NoAnswer == [outcome |-> "none", owner |-> Anonymous]
FailedAnswer == [outcome : {"unauthenticated", "clientError", "networkError", "timeout"},
                 owner : Owner]

Receive ==
    /\ step = "waiting"
    /\ step' = "route"
    /\ UNCHANGED <<given, answer, handlers, err, sent, captured, called>>

Fail(error) ==
    /\ err' = error
    /\ step' = "sentry"
    /\ UNCHANGED <<given, captured, called>>

RouteAnswers ==
    /\ step = "route"
    /\ sent' = Append(sent, Text(200, "ok"))
    /\ step' = "done"
    /\ UNCHANGED <<given, answer, handlers, err, captured, called>>

\* The route of the tests: it answers, and calls next() as well.
RouteAnswersThenNext ==
    /\ step = "route"
    /\ sent' = Append(sent, Text(200, "ok"))
    /\ Fail(server.notFoundError)
    /\ UNCHANGED <<answer, handlers>>

\* No route matches, or one calls next() with nothing or something falsy.
NotFoundHandler ==
    /\ step = "route"
    /\ Fail(server.notFoundError)
    /\ UNCHANGED <<answer, handlers, sent>>

RouteFails ==
    /\ step = "route"
    /\ \E error \in RouteErrors : Fail(error)
    /\ UNCHANGED <<answer, handlers, sent>>

(* The route's upstream call fails and the route consults GraphQLErrorHandler *)
(* with handlers of its own.  If that throws, the rejected promise is         *)
(* nobody's.                                                                  *)
RouteCatches ==
    /\ step = "route"
    /\ answer' \in FailedAnswer
    /\ handlers' \in RouteHandlers
    /\ LET error == GraphQLErrorHandler(answer', handlers')
       IN  \/ /\ error \notin {NoError, Thrown}
              /\ Fail(error)
           \/ /\ error \in {NoError, Thrown}
              /\ step' = "hung"
              /\ UNCHANGED <<given, err, captured, called>>
    /\ UNCHANGED sent

------------------------------------------------------------------------------
(* The error handlers.                                                      *)

SentryErrorHandler ==
    /\ step = "sentry"
    /\ captured' = IF Reports(err) THEN Append(captured, err) ELSE captured
    /\ step' = "errorHandler"
    /\ UNCHANGED <<given, answer, handlers, err, sent, called>>

\* finalhandler of Express gets what ErrorHandler throws: a client that has been
\* answered is cut off, any other gets a page with the status of that exception.
finalhandler == IF sent = <<>> THEN <<Text(500, "none")>> ELSE sent

\* Slip: an exception of the callback is swallowed, and the answer with it.
ErrorHandlerSwallowing ==
    /\ step = "errorHandler"
    /\ called' = Append(called, err)
    /\ LET handler == server.errorHandler
           shown == IF err.rest THEN err ELSE handler.defaultError
       IN  sent' = IF handler.errorCallback = "throws" \/ sent # <<>> THEN sent
                   ELSE IF handler.errorCallback = "answers" THEN <<Text(200, "ok")>>
                   ELSE <<Told(shown)>>
    /\ step' = "done"
    /\ UNCHANGED <<given, answer, handlers, err, captured>>

(* The callback runs first; if it throws nothing more of ErrorHandler does. *)
(* res.send throws if the client has been answered by then.                 *)
ErrorHandler ==
    /\ step = "errorHandler"
    /\ called' = Append(called, err)
    /\ LET handler == server.errorHandler
           shown == IF err.rest THEN err ELSE handler.defaultError
       IN  sent' = IF handler.errorCallback = "throws" \/ sent # <<>> THEN finalhandler
                   ELSE IF handler.errorCallback = "answers" THEN <<Text(200, "ok")>>
                   ELSE <<Told(shown)>>
    /\ step' = "done"
    /\ UNCHANGED <<given, answer, handlers, err, captured>>

\* The next request starts afresh.
Finish ==
    /\ step \in {"done", "hung"}
    /\ step' = "waiting"
    /\ answer' = NoAnswer
    /\ handlers' = <<>>
    /\ err' = NoError
    /\ sent' = <<>>
    /\ captured' = <<>>
    /\ called' = <<>>
    /\ UNCHANGED given

Init ==
    /\ given \in Optional(ServerOptions)
    /\ step = "waiting"
    /\ answer = NoAnswer
    /\ handlers = <<>>
    /\ err = NoError
    /\ sent = <<>>
    /\ captured = <<>>
    /\ called = <<>>

Next ==
    \/ Receive
    \/ RouteAnswers \/ RouteAnswersThenNext \/ NotFoundHandler
    \/ RouteFails \/ RouteCatches
    \/ SentryErrorHandler \/ ErrorHandler \/ Finish

Spec == Init /\ [][Next]_vars

------------------------------------------------------------------------------
\* ErrorHandler was left to answer as it does by itself.
ToldByTheHandler ==
    /\ step = "done" /\ called # <<>>
    /\ server.errorHandler.errorCallback = "returns"

(* A client is answered exactly once, whatever the options, whatever the    *)
(* callback does although it is told not to (errorHandler.ts:51-55), and    *)
(* even where a route answers and calls next() as well.                     *)
OneAnswer == step = "done" => Len(sent) = 1

(* A request is left without an answer only by an error handler of its      *)
(* route that threw while no handler before it recognised the error: the    *)
(* default handlers recognise every ClientError, and everything else is     *)
(* passed on (graphQLErrorHandler.ts:164-186).                              *)
SilenceIsTheRoutesOwn ==
    step = "hung" =>
        \E n \in DOMAIN handlers :
            /\ handlers[n] = Thrown
            /\ \A m \in 1..(n - 1) : handlers[m] = NoError

(* Of an exception that is no RestResponseError a client learns nothing but *)
(* the configured default error, or the generic 500 where none is           *)
(* configured, however partial the options are (errorHandler.ts:60-82,      *)
(* errors/README.md design goals).                                          *)
Redacted ==
    ToldByTheHandler /\ ~err.rest =>
        sent[1] =
            IF /\ given # Absent
               /\ given.errorHandlerOptions # Absent
               /\ given.errorHandlerOptions.defaultError # Absent
            THEN Told(CustomDefault)
            ELSE [status |-> 500, response |-> [NoDocument EXCEPT !.kind = "text"]]

(* Where a service leaves the Sentry options out, whatever else it sets, an *)
(* error marked FORCE is reported once and one marked SUPPRESS never; of    *)
(* the others, all exceptions and 5XX errors are, once - also when the      *)
(* callback throws or the client has its answer already (server.ts:90-113,  *)
(* 149-157, errors/README.md: "By default, all 5XX errors are reported").   *)
ReportedAsMarked ==
    /\ step = "done" /\ called # <<>>
    /\ given # Absent => given.sentryErrorHandlerOptions = Absent
    => captured =
        IF err.rest /\ \/ err.sentryBehavior = "SUPPRESS"
                       \/ err.sentryBehavior = "DEFAULT" /\ err.status < 500
        THEN <<>> ELSE <<err>>

(* The first handler of the route that recognises an upstream error decides *)
(* what the client is told; an error that all of them leave alone is told   *)
(* as 401 if upstream missed the session and as 502 otherwise, never the    *)
(* other way round (graphQLErrorHandler.ts:131-189).                        *)
TheFirstHandlerDecides ==
    ToldByTheHandler /\ answer.outcome \in {"unauthenticated", "clientError"} =>
        \/ \E n \in DOMAIN handlers :
             /\ \A m \in 1..(n - 1) : handlers[m] = NoError
             /\ handlers[n] \in Error \ {NoError}
             /\ sent[1] = Told(handlers[n])
        \/ /\ \A n \in DOMAIN handlers : handlers[n] = NoError
           /\ sent[1].status = (IF answer.outcome = "unauthenticated" THEN 401 ELSE 502)
==============================================================================
