----------------------- MODULE ProxyConformance_proofs -----------------------
(***************************************************************************)
(* Proofs of what a client may rely on.  To IsolationInv, ProgressInv adds *)
(* how far a request gets (what upstream is asked for it, that nothing is  *)
(* asked or answered twice), ConformanceInv which policy, promise, user    *)
(* tags and reports go with each place of a request, from which the server *)
(* implements ProxyContract, and DeterminedInv that a URL and the outcome  *)
(* of upstream determine the answers of the public routes.                 *)
(***************************************************************************)
EXTENDS ProxyIsolation_proofs

\* Until its handler has run, nothing is asked for a request.
NothingIsAskedBefore(r) ==
    pc[r] \in {"idle", "json", "body", "app", "apiCacheControl", "router",
               "routeCacheControl", "handler"} => call[r] = NoCall

\* An answered request is over.
AnsweredIsDone(r) == res[r].sent => pc[r] = "done"

\* No more is asked than once and sent than once.
AskedAndAnsweredOnce(r) ==
    /\ call[r].times \in 0..1
    /\ res[r].sends = IF res[r].sent THEN 1 ELSE 0

\* A call is that of an accepted request to the route that makes it.
CallsAreAccepted(r) ==
    call[r].graph # "none" =>
        /\ IsRouted(input[r])
        /\ HasConsumerKey(input[r])
        /\ call[r].graph = "web" <=> input[r].path = RecentSavesPath
        /\ Handled(input[r]).error = NoError
        /\ call[r].variables = Handled(input[r]).variables

Progress(r) ==
    /\ NothingIsAskedBefore(r)
    /\ AnsweredIsDone(r)
    /\ AskedAndAnsweredOnce(r)
    /\ CallsAreAccepted(r)

ProgressInv == \A r \in Request : Progress(r)

------------------------------------------------------------------------------
LEMMA NoCallYet == NoCall.graph = "none" /\ NoCall.times = 0
BY DEF NoCall

LEMMA InitProgress == Init => ProgressInv
<1>1. ~FreshRes.sent /\ FreshRes.sends = 0
  BY DEF FreshRes
<1> QED BY <1>1, NoCallYet
        DEF Init, ProgressInv, Progress, NothingIsAskedBefore, AnsweredIsDone,
            AskedAndAnsweredOnce, CallsAreAccepted

\* Before it is answered a request passes its middlewares without a trace in the
\* call; only answers set sent.
LEMMA PassingIsProgress ==
    ASSUME TypeOK, NEW r \in Request, Progress(r),
           UNCHANGED <<input, call>>, ~res'[r].sent \/ pc'[r] = "done",
           res'[r].sends = IF res'[r].sent THEN 1 ELSE 0,
           pc'[r] \in {"body", "app", "apiCacheControl", "router", "routeCacheControl",
                       "handler"}
             => pc[r] \in {"json", "body", "app", "apiCacheControl", "router",
                           "routeCacheControl"},
           pc'[r] \notin {"idle", "json"}
    PROVE  Progress(r)'
BY DEF Progress, NothingIsAskedBefore, AnsweredIsDone,
       AskedAndAnsweredOnce, CallsAreAccepted

\* What the handlers between the two ends of a request do to its slot.
LEMMA HandlersPass ==
    ASSUME TypeOK, NEW r \in Request,
           \/ NoBodyToParse(r) \/ AwaitBody(r) \/ ParseBody(r) \/ RejectBody(r)
           \/ WebSessionAuthHandler(r) \/ ApiCacheControl(r) \/ NotFoundHandler(r)
           \/ RejectConsumerKey(r) \/ AcceptConsumerKey(r) \/ RouteCacheControl(r)
           \/ RejectParameters(r) \/ UpstreamSettles(r) \/ ForwardHeaders(r)
           \/ CatchError(r) \/ SentryErrorHandler(r)
    PROVE  /\ UNCHANGED <<input, call>>
           /\ res'[r].sent = res[r].sent /\ res'[r].sends = res[r].sends
           /\ pc[r] \notin {"idle", "done"}
           /\ pc'[r] \notin {"idle", "json", "done"}
           /\ pc'[r] \in {"body", "app", "apiCacheControl", "router",
                          "routeCacheControl", "handler"}
                => pc[r] \in {"json", "body", "app", "apiCacheControl", "router",
                              "routeCacheControl"}
<1> USE DEF TypeOK, Goto, Fail, Runs
<1>1. \A policy : \A x \in ExpressResponse :
        /\ cacheControl(x, policy).sent = x.sent
        /\ cacheControl(x, policy).sends = x.sends
  BY DEF cacheControl, set, ExpressResponse
<1>2. \A u, o : \A x \in ExpressResponse :
        /\ forwardHeaders(x, u, o).sent = x.sent
        /\ forwardHeaders(x, u, o).sends = x.sends
  BY DEF forwardHeaders, ExpressResponse
<1>3. CASE NoBodyToParse(r)
  BY <1>3 DEF NoBodyToParse
<1>4. CASE AwaitBody(r)
  BY <1>4 DEF AwaitBody
<1>5. CASE ParseBody(r)
  BY <1>5 DEF ParseBody
<1>6. CASE RejectBody(r)
  BY <1>6 DEF RejectBody
<1>7. CASE WebSessionAuthHandler(r)
  BY <1>7 DEF WebSessionAuthHandler
<1>8. CASE ApiCacheControl(r)
  BY <1>1, <1>8 DEF ApiCacheControl
<1>9. CASE NotFoundHandler(r)
  BY <1>9 DEF NotFoundHandler
<1>10. CASE RejectConsumerKey(r)
  BY <1>10 DEF RejectConsumerKey
<1>11. CASE AcceptConsumerKey(r)
  BY <1>11 DEF AcceptConsumerKey
<1>12. CASE RouteCacheControl(r)
  BY <1>1, <1>12 DEF RouteCacheControl
<1>13. CASE RejectParameters(r)
  BY <1>13 DEF RejectParameters
<1>14. CASE UpstreamSettles(r)
  BY <1>14 DEF UpstreamSettles
<1>15. CASE ForwardHeaders(r)
  BY <1>2, <1>15 DEF ForwardHeaders
<1>16. CASE CatchError(r)
  BY <1>16 DEF CatchError
<1>17. CASE SentryErrorHandler(r)
  BY <1>17 DEF SentryErrorHandler
<1> QED BY <1>3, <1>4, <1>5, <1>6, <1>7, <1>8, <1>9, <1>10, <1>11, <1>12, <1>13,
           <1>14, <1>15, <1>16, <1>17

LEMMA AnswersEnd ==
    ASSUME TypeOK, NEW r \in Request,
           ServerHealth(r) \/ RespondWithData(r) \/ ErrorHandler(r)
    PROVE  /\ UNCHANGED <<input, call>> /\ pc[r] # "done" /\ pc'[r] = "done"
           /\ res'[r].sent /\ res'[r].sends = res[r].sends + 1
<1>1. \A x \in ExpressResponse : \A status, t, d :
        send(x, status, t, d).sent /\ send(x, status, t, d).sends = x.sends + 1
  BY DEF send, ExpressResponse
<1>2. res[r] \in ExpressResponse
  BY DEF TypeOK
<1>3. /\ UNCHANGED <<input, call>> /\ pc[r] # "done" /\ pc'[r] = "done"
      /\ \E status, t, d : res'[r] = send(res[r], status, t, d)
  BY DEF TypeOK, ServerHealth, RespondWithData, ErrorHandler, Answer, Goto, Runs
<1> QED BY <1>1, <1>2, <1>3

LEMMA StepIsProgress ==
    ASSUME TypeOK, NEW r \in Request, Isolated(r), Progress(r), Step(r)
    PROVE  Progress(r)'
<1>1. CASE Receive(r)
  <2>1. call'[r] = NoCall /\ res'[r] = FreshRes
    BY <1>1 DEF Receive, TypeOK
  <2>2. ~FreshRes.sent /\ FreshRes.sends = 0
    BY DEF FreshRes
  <2> QED BY <2>1, <2>2, NoCallYet
          DEF Progress, NothingIsAskedBefore, AnsweredIsDone,
              AskedAndAnsweredOnce, CallsAreAccepted
<1>2. CASE ServerHealth(r) \/ RespondWithData(r) \/ ErrorHandler(r)
  <2>1. ~res[r].sent /\ res[r].sends = 0
    BY <1>2, AnswersEnd DEF Progress, AnsweredIsDone, AskedAndAnsweredOnce
  <2> QED BY <1>2, <2>1, AnswersEnd, PassingIsProgress
<1>3. CASE RequestRecentSaves(r) \/ RequestRecommendations(r)
  <2>1. /\ pc[r] = "handler" /\ pc'[r] = "upstream"
        /\ Handled(input[r]).error = NoError
        /\ UNCHANGED <<input, res>>
        /\ call'[r].variables = Handled(input[r]).variables
        /\ call'[r].graph = "web" <=> input[r].path = RecentSavesPath
        /\ call'[r].times = call[r].times + 1
    BY <1>3 DEF RequestRecentSaves, RequestRecommendations, RequestUpstream, Runs, Goto,
                TypeOK
  <2>2. IsRouted(input[r]) /\ HasConsumerKey(input[r])
    BY <2>1 DEF Isolated, OnlyRoutedRequestsAreHandled
  <2>3. call'[r].times = 1
    BY <2>1, NoCallYet DEF Progress, NothingIsAskedBefore
  <2> QED BY <2>1, <2>2, <2>3
          DEF Progress, NothingIsAskedBefore, AnsweredIsDone,
              AskedAndAnsweredOnce, CallsAreAccepted
<1>4. ASSUME UNCHANGED <<input, call>>, res'[r].sent = res[r].sent,
             res'[r].sends = res[r].sends, pc[r] # "done",
             pc'[r] \notin {"idle", "json", "done"},
             pc'[r] \in {"body", "app", "apiCacheControl", "router",
                         "routeCacheControl", "handler"}
                => pc[r] \in {"json", "body", "app", "apiCacheControl", "router",
                              "routeCacheControl"}
      PROVE  Progress(r)'
  <2>1. ~res'[r].sent /\ res'[r].sends = 0
    BY <1>4 DEF Progress, AnsweredIsDone, AskedAndAnsweredOnce
  <2> QED BY <1>4, <2>1, PassingIsProgress
<1> QED BY <1>1, <1>2, <1>3, <1>4, HandlersPass DEF Step, Sync, Wake

LEMMA NextProgress ==
    TypeOK /\ IsolationInv /\ ProgressInv /\ [Next]_vars => ProgressInv'
<1> SUFFICES ASSUME TypeOK, IsolationInv, ProgressInv, [Next]_vars, NEW s \in Request
             PROVE  Progress(s)'
  BY DEF ProgressInv
<1>1. Progress(s) /\ Isolated(s)
  BY DEF ProgressInv, IsolationInv
<1>2. ASSUME Kept(s) PROVE Progress(s)'
  BY <1>1, <1>2 DEF Kept, Progress, NothingIsAskedBefore, AnsweredIsDone,
                    AskedAndAnsweredOnce, CallsAreAccepted
<1>3. CASE UNCHANGED vars
  BY <1>2, <1>3 DEF vars, Kept
<1>4. ASSUME NEW r \in Request, Step(r) PROVE Progress(s)'
  <2>1. CASE r = s
    BY <1>1, <1>4, <2>1, StepIsProgress
  <2>2. CASE r # s
    <3>1. Kept(s)
      BY <1>4, <2>2, OthersAreKept
    <3> QED BY <1>2, <3>1
  <2> QED BY <2>1, <2>2
<1> QED BY <1>3, <1>4 DEF Next, Step

LEMMA ProgressInvariant == Spec => [](TypeOK /\ IsolationInv /\ ProgressInv)
<1>1. Init => TypeOK /\ IsolationInv /\ ProgressInv
  BY InitType, InitIsolated, InitProgress
<1>2. TypeOK /\ IsolationInv /\ ProgressInv /\ [Next]_vars
        => (TypeOK /\ IsolationInv /\ ProgressInv)'
  BY NextType, NextIsolated, NextProgress
<1> QED BY <1>1, <1>2, PTL DEF Spec

------------------------------------------------------------------------------
(* Whatever clients send, the graphs are asked for a number of items within *)
(* the route's range and in a listed locale, on behalf of a consumer, and   *)
(* the client API graph without cookies (consumerKeyHandler.ts:32,          *)
(* inputs.ts of the routes, recommendations.ts:18-33).                      *)
THEOREM Guarded == Spec => []UpstreamIsGuarded
<1>1. TypeOK /\ IsolationInv /\ ProgressInv => UpstreamIsGuarded
  <2> SUFFICES ASSUME TypeOK, IsolationInv, ProgressInv, NEW r \in Request,
                      call[r].graph # "none"
               PROVE  /\ HasConsumerKey(input[r])
                      /\ call[r].graph = "web" => call[r].variables.count \in 1..20
                      /\ call[r].graph = "client-api" =>
                           /\ call[r].variables.count \in 1..30
                           /\ isValidLocale(call[r].variables.locale)
                           /\ call[r].client.cookies = NoCookies
    BY DEF UpstreamIsGuarded
  <2> DEFINE i == input[r]
  <2>1. /\ IsRouted(i) /\ HasConsumerKey(i)
        /\ call[r].graph = "web" <=> i.path = RecentSavesPath
        /\ Handled(i).error = NoError
        /\ call[r].variables = Handled(i).variables
        /\ i.path # RecentSavesPath => call[r].client.cookies = NoCookies
    BY DEF ProgressInv, Progress, CallsAreAccepted, IsolationInv, Isolated,
           OtherRoutesAreAnonymous
  <2>2. i.query \in Query
    BY DEF TypeOK, Input
  <2>3. /\ route(i) \in {"recent-saves", "recommendations", "global-recs"}
        /\ route(i) = "recent-saves" <=> i.path = RecentSavesPath
    BY <2>1 DEF route, IsRouted, RoutePaths, RecentSavesPath, RecommendationsPath,
                GlobalRecsPath
  <2> HIDE DEF i
  <2>4. LET v == Handled(i).variables
        IN  /\ v.count \in 1..(IF route(i) = "recent-saves" THEN 20 ELSE 30)
            /\ route(i) # "recent-saves" => isValidLocale(v.locale)
    BY <2>1, <2>2, <2>3, AcceptedIsServable DEF Handled
  <2> QED BY <2>1, <2>3, <2>4 DEF i
<1> QED BY <1>1, ProgressInvariant, PTL

(* Upstream is called at most once for a request and one answer at most is *)
(* sent, counting those that would repeat one, and a response that was sent *)
(* is never touched again, whatever else happens meanwhile                  *)
(* (errorHandler.ts:78-81, the returns before next()).                      *)
THEOREM NothingTwice == Spec => AtMostOnce
<1> DEFINE Once(r) == Reused(r) \/ /\ call'[r].times \in call[r].times..1
                                   /\ res'[r].sends \in res[r].sends..1
                                   /\ res[r].sent => UNCHANGED res[r]
<1>1. TypeOK /\ IsolationInv /\ ProgressInv /\ ProgressInv' /\ [Next]_vars =>
        [\A r \in Request : Reused(r) \/
           /\ call'[r].times \in call[r].times..1
           /\ res'[r].sends \in res[r].sends..1
           /\ res[r].sent => UNCHANGED res[r]]_vars
  <2> SUFFICES ASSUME TypeOK, ProgressInv, ProgressInv', NEW r \in Request, Step(r),
                      NEW s \in Request
               PROVE  Once(s)
    BY DEF Next, Step
  <2>1. /\ Progress(s)
        /\ call[s].times \in 0..1 /\ call'[s].times \in 0..1
        /\ res[s].sends = (IF res[s].sent THEN 1 ELSE 0)
        /\ res'[s].sends = IF res'[s].sent THEN 1 ELSE 0
    BY DEF ProgressInv, Progress, AskedAndAnsweredOnce
  <2>2. CASE r # s
    BY <2>1, <2>2, OthersAreKept DEF Kept
  <2>3. CASE r = s
    <3>1. CASE Receive(r)
      <4>1. pc'[r] = "json" /\ pc[r] \in {"idle", "done"}
        BY <3>1 DEF Receive, Goto, TypeOK
      <4>2. CASE pc[r] = "done"
        BY <2>3, <4>1, <4>2 DEF Reused
      <4>3. CASE pc[r] = "idle"
        <5>1. call[r].times = 0 /\ ~res[r].sent
          BY <2>1, <2>3, <4>3, NoCallYet DEF Progress, NothingIsAskedBefore, AnsweredIsDone
        <5> QED BY <2>1, <2>3, <5>1
      <4> QED BY <4>1, <4>2, <4>3
    <3>2. CASE RequestRecentSaves(r) \/ RequestRecommendations(r)
      <4>1. pc[r] = "handler" /\ UNCHANGED res
        BY <3>2 DEF RequestRecentSaves, RequestRecommendations, RequestUpstream, Runs
      <4>2. call[r].times = 0 /\ ~res[r].sent
        BY <2>1, <2>3, <4>1, NoCallYet DEF Progress, NothingIsAskedBefore, AnsweredIsDone
      <4> QED BY <2>1, <2>3, <4>1, <4>2
    <3>3. ASSUME UNCHANGED call, pc[r] # "done" PROVE Once(r)
      <4>1. ~res[r].sent
        BY <2>1, <2>3, <3>3 DEF Progress, AnsweredIsDone
      <4> QED BY <2>1, <2>3, <3>3, <4>1
    <3> QED BY <2>3, <3>1, <3>2, <3>3, HandlersPass, AnswersEnd DEF Step, Sync, Wake
  <2> QED BY <2>2, <2>3
<1> QED BY <1>1, ProgressInvariant, PTL DEF Spec, AtMostOnce

------------------------------------------------------------------------------
(* The contract is kept.                                                    *)

\* Where a request is tells what it is like, what upstream has done and that it
\* is not answered yet; none is ever left hanging.
OnTheWay(r) ==
    /\ pc[r] # "hung"
    /\ pc[r] \in {"app", "apiCacheControl", "router", "routeCacheControl", "handler",
                  "upstream", "middleware", "resume"} =>
         input[r].body \notin DOMAIN bodyError
    /\ pc[r] \in {"apiCacheControl", "router"} => input[r].path \in MountedPaths
    /\ pc[r] \in {"upstream", "middleware", "resume"} => call[r].graph # "none"
    /\ pc[r] \in {"middleware", "resume"} => reply[r].outcome # "none"
    /\ pc[r] \notin {"idle", "done"} => res[r].status = 200
    /\ pc[r] = "done" => res[r].sent

\* The policy is the one of the last handler that set it.
PolicyFollows(r) ==
    /\ Policy(r) \in {NoHeader, OwnHeader("private, max-age=900"),
                      OwnHeader("public, max-age=900")}
    /\ pc[r] \in {"json", "body", "app", "apiCacheControl"} => Policy(r).text = "none"
    /\ pc[r] \in {"router", "routeCacheControl"} =>
         Policy(r).text = CachedText("private, max-age=900")
    /\ pc[r] \in {"handler", "upstream", "middleware", "resume"} =>
         Policy(r).text = CachedText(RoutePolicy(input[r]))

\* An error on its way to the client makes a promised answer, as an answer is.
AnswersArePromised(r) ==
    /\ pc[r] \in {"sentry", "errorHandler"} =>
         /\ Reportable(err[r])
         /\ Contract!Promised(input[r], ErrorAnswer(err[r], Policy(r).text))
    /\ res[r].sent => Contract!Promised(input[r], AnswerOf(res[r]))

\* The user that reports name, as FailuresAreReported says it.
UserOf(r) == IF req[r].auth.present THEN userTags(input[r]) ELSE "none"

TagsAreTheUsers(r) ==
    /\ req[r].auth.present => req[r].auth.cookies = input[r].cookies
    /\ req[r].user = UserOf(r)

\* Reports are made on the way from next(error) to the answer only.
ReportsFollow(r) ==
    /\ pc[r] \notin {"errorHandler", "done"} => sentry[r] = <<>>
    /\ pc[r] # "done" => log[r] = <<>>
    /\ pc[r] = "errorHandler" =>
         Len(sentry[r]) = IF responseError(err[r]).status >= 500 THEN 1 ELSE 0
    /\ pc[r] = "done" =>
         /\ Len(sentry[r]) = IF res[r].status >= 500 THEN 1 ELSE 0
         /\ Len(log[r]) = IF res[r].status >= 400 THEN 1 ELSE 0
    /\ \A n \in DOMAIN sentry[r] : sentry[r][n].user = UserOf(r)
    /\ \A n \in DOMAIN log[r] : log[r][n].user = UserOf(r)

Conforms(r) ==
    /\ OnTheWay(r)
    /\ PolicyFollows(r)
    /\ AnswersArePromised(r)
    /\ TagsAreTheUsers(r)
    /\ ReportsFollow(r)

ConformanceInv == \A r \in Request : Conforms(r)

------------------------------------------------------------------------------
LEMMA InitConforms == Init => ConformanceInv
<1> SUFFICES ASSUME Init, NEW r \in Request PROVE Conforms(r)
  BY DEF ConformanceInv
<1>1. /\ pc[r] = "idle" /\ req[r] = FreshReq /\ res[r] = FreshRes
      /\ sentry[r] = <<>> /\ log[r] = <<>>
  BY DEF Init
<1>2. /\ ~FreshRes.sent /\ FreshRes.headers["cache-control"] = NoHeader
      /\ ~FreshReq.auth.present /\ FreshReq.user = "none"
  BY ProxyAssumption DEF FreshRes, FreshReq, NoAuth
<1> QED BY <1>1, <1>2
        DEF Conforms, OnTheWay, PolicyFollows, Policy, AnswersArePromised,
            TagsAreTheUsers, UserOf, ReportsFollow

\* A request that another one lets alone goes on conforming.
LEMMA KeptConforms ==
    ASSUME NEW s \in Request, Conforms(s), Kept(s)
    PROVE  Conforms(s)'
<1> USE DEF Kept, Conforms
<1>1. OnTheWay(s)'
  BY DEF OnTheWay
<1>2. PolicyFollows(s)'
  BY DEF PolicyFollows, Policy
<1>3. AnswersArePromised(s)'
  BY DEF AnswersArePromised, Policy
<1>4. UserOf(s)' = UserOf(s)
  BY DEF UserOf
<1>5. TagsAreTheUsers(s)'
  BY <1>4 DEF TagsAreTheUsers
<1>6. ReportsFollow(s)'
  BY <1>4 DEF ReportsFollow
<1> QED BY <1>1, <1>2, <1>3, <1>5, <1>6

\* next(error), with an error that makes a promised answer.
LEMMA FailConforms ==
    ASSUME TypeOK, NEW r \in Request, Conforms(r), Progress(r),
           pc[r] \notin {"idle", "done", "errorHandler"},
           NEW error, Fail(r, error), UNCHANGED <<input, req, res, sentry, log>>,
           Reportable(error),
           Contract!Promised(input[r], ErrorAnswer(error, Policy(r).text))
    PROVE  Conforms(r)'
<1>1. /\ pc'[r] = "sentry" /\ err'[r] = error
      /\ UNCHANGED <<input, req, res, sentry, log>>
  BY DEF TypeOK, Fail, Goto
<1>2. ~res[r].sent
  BY DEF Progress, AnsweredIsDone
<1>3. OnTheWay(r)' /\ PolicyFollows(r)'
  BY <1>1 DEF Conforms, OnTheWay, PolicyFollows, Policy
<1>4. UserOf(r)' = UserOf(r)
  BY <1>1 DEF UserOf
<1>5. TagsAreTheUsers(r)' /\ ReportsFollow(r)'
  BY <1>1, <1>4 DEF Conforms, TagsAreTheUsers, ReportsFollow
<1>6. AnswersArePromised(r)'
  BY <1>1, <1>2 DEF AnswersArePromised, Policy
<1> QED BY <1>3, <1>5, <1>6 DEF Conforms

\* An answer that is promised, with the reports it is due.
LEMMA AnswerConforms ==
    ASSUME TypeOK, NEW r \in Request, Conforms(r),
           NEW x, pc'[r] = "done", res'[r] = x, UNCHANGED <<input, req>>,
           x.sent, x.headers["cache-control"] = Policy(r),
           Contract!Promised(input[r], AnswerOf(x)),
           Len(sentry'[r]) = IF x.status >= 500 THEN 1 ELSE 0,
           Len(log'[r]) = IF x.status >= 400 THEN 1 ELSE 0,
           \A n \in DOMAIN sentry'[r] : sentry'[r][n].user = UserOf(r),
           \A n \in DOMAIN log'[r] : log'[r][n].user = UserOf(r)
    PROVE  Conforms(r)'
<1>1. OnTheWay(r)' /\ PolicyFollows(r)' /\ TagsAreTheUsers(r)'
  BY DEF Conforms, OnTheWay, PolicyFollows, Policy, TagsAreTheUsers, UserOf
<1>2. AnswersArePromised(r)'
  BY DEF AnswersArePromised
<1>3. ReportsFollow(r)'
  BY DEF ReportsFollow, UserOf
<1> QED BY <1>1, <1>2, <1>3 DEF Conforms

\* A handler that passes the request on, or a call that settles.
LEMMA PassConforms ==
    ASSUME TypeOK, NEW r \in Request, Conforms(r), Progress(r),
           UNCHANGED <<input, sentry, log>>,
           pc[r] \notin {"idle", "done", "sentry", "errorHandler"},
           pc'[r] \notin {"idle", "done", "sentry", "errorHandler"},
           res'[r].sent = res[r].sent,
           OnTheWay(r)', PolicyFollows(r)', TagsAreTheUsers(r)'
    PROVE  Conforms(r)'
<1>1. ~res'[r].sent
  BY DEF Progress, AnsweredIsDone
<1>2. AnswersArePromised(r)'
  BY <1>1 DEF AnswersArePromised
<1>3. ReportsFollow(r)'
  <2>1. sentry'[r] = <<>> /\ log'[r] = <<>>
    BY DEF Conforms, ReportsFollow
  <2> QED BY <2>1 DEF ReportsFollow
<1> QED BY <1>2, <1>3 DEF Conforms

\* The tags go on being those of the user.
LEMMA TagsStay ==
    ASSUME NEW r \in Request, Conforms(r), input'[r] = input[r],
           req'[r].auth = req[r].auth, req'[r].user = req[r].user
    PROVE  TagsAreTheUsers(r)'
<1>1. UserOf(r)' = UserOf(r)
  BY DEF UserOf
<1> QED BY <1>1 DEF Conforms, TagsAreTheUsers

\* What the operators on responses do, beyond what IsolationInv needs.
LEMMA ResponseOperators ==
    ASSUME NEW x \in ExpressResponse
    PROVE  /\ \A policy :
                /\ cacheControl(x, policy).headers["cache-control"] =
                     IF environment = "development" THEN x.headers["cache-control"]
                     ELSE OwnHeader(policy)
                /\ cacheControl(x, policy).status = x.status
                /\ cacheControl(x, policy).sent = x.sent
           /\ \A u, o :
                /\ forwardHeaders(x, u, o).headers["cache-control"]
                     = x.headers["cache-control"]
                /\ forwardHeaders(x, u, o).status = x.status
                /\ forwardHeaders(x, u, o).sent = x.sent
           /\ \A status, t, d :
                /\ send(x, status, t, d).status = status
                /\ send(x, status, t, d).sent
                /\ AnswerOf(send(x, status, t, d)) =
                     [status |-> status, kind |-> d.kind, id |-> d.id, owner |-> d.owner,
                      policy |-> x.headers["cache-control"].text]
                /\ send(x, status, t, d).headers["cache-control"]
                     = x.headers["cache-control"]
<1>1. \A policy :
        /\ cacheControl(x, policy).headers["cache-control"] =
             IF environment = "development" THEN x.headers["cache-control"]
             ELSE OwnHeader(policy)
        /\ cacheControl(x, policy).status = x.status
        /\ cacheControl(x, policy).sent = x.sent
  BY ProxyAssumption DEF cacheControl, set, ExpressResponse
<1>2. \A u, o :
        /\ forwardHeaders(x, u, o).headers["cache-control"] = x.headers["cache-control"]
        /\ forwardHeaders(x, u, o).status = x.status
        /\ forwardHeaders(x, u, o).sent = x.sent
  BY ForwardHeadersKeeps DEF forwardHeaders, ExpressResponse
<1>3. \A status, t, d :
        /\ send(x, status, t, d).status = status
        /\ send(x, status, t, d).sent
        /\ send(x, status, t, d).body = d
        /\ send(x, status, t, d).headers["cache-control"] = x.headers["cache-control"]
  BY SendKeeps DEF send, ExpressResponse
<1> QED BY <1>1, <1>2, <1>3 DEF AnswerOf

LEMMA SyncPasses ==
    ASSUME TypeOK, NEW r \in Request, Isolated(r), Progress(r), Conforms(r),
           \/ NoBodyToParse(r) \/ AwaitBody(r) \/ ParseBody(r)
           \/ WebSessionAuthHandler(r) \/ AcceptConsumerKey(r)
           \/ ApiCacheControl(r) \/ RouteCacheControl(r)
    PROVE  Conforms(r)'
<1>a. OnTheWay(r) /\ PolicyFollows(r)
  BY DEF Conforms
<1>1. CASE NoBodyToParse(r) \/ AwaitBody(r) \/ ParseBody(r)
  <2>1. /\ UNCHANGED <<input, req, res, call, reply, sentry, log>>
        /\ \/ pc[r] = "json" /\ pc'[r] = "body"
           \/ /\ pc[r] \in {"json", "body"} /\ pc'[r] = "app"
              /\ input[r].body \in {"none", "json"}
    BY <1>1 DEF NoBodyToParse, AwaitBody, ParseBody, Runs, Goto, TypeOK
  <2>2. {"none", "json"} \cap DOMAIN bodyError = {}
    BY DEF bodyError
  <2>3. OnTheWay(r)'
    BY <1>a, <2>1, <2>2 DEF OnTheWay
  <2>4. PolicyFollows(r)'
    BY <1>a, <2>1 DEF PolicyFollows, Policy
  <2> QED BY <2>1, <2>3, <2>4, TagsStay, PassConforms
<1>2. CASE WebSessionAuthHandler(r)
  <2> DEFINE auth == [present |-> TRUE, headers |-> input[r].headers,
                      cookies |-> input[r].cookies]
  <2>1. /\ UNCHANGED <<input, res, call, reply, sentry, log>>
        /\ pc[r] = "app" /\ pc'[r] = "apiCacheControl"
        /\ input[r].path \in MountedPaths
        /\ req'[r].auth = auth /\ req'[r].user = userTags(auth)
    BY <1>2 DEF WebSessionAuthHandler, Runs, Goto, TypeOK, ExpressRequest
  <2>2. userTags(auth) = userTags(input[r])
    BY DEF userTags
  <2>3. OnTheWay(r)'
    BY <1>a, <2>1 DEF OnTheWay
  <2>4. PolicyFollows(r)'
    BY <1>a, <2>1 DEF PolicyFollows, Policy
  <2>5. TagsAreTheUsers(r)'
    <3>1. UserOf(r)' = userTags(input[r])'
      BY <2>1 DEF UserOf
    <3>2. userTags(input[r])' = userTags(input[r])
      BY <2>1
    <3> QED BY <2>1, <2>2, <3>1, <3>2 DEF TagsAreTheUsers
  <2> QED BY <2>1, <2>3, <2>4, <2>5, PassConforms
<1>3. CASE AcceptConsumerKey(r)
  <2>1. /\ UNCHANGED <<input, res, call, reply, sentry, log>>
        /\ pc[r] = "router"
        /\ pc'[r] = IF input[r].path = RecentSavesPath THEN "handler"
                    ELSE "routeCacheControl"
        /\ req'[r].auth = req[r].auth /\ req'[r].user = req[r].user
    BY <1>3 DEF AcceptConsumerKey, Runs, Goto, TypeOK, ExpressRequest
  <2>2. OnTheWay(r)'
    BY <1>a, <2>1 DEF OnTheWay
  <2>3. PolicyFollows(r)'
    BY <1>a, <2>1 DEF PolicyFollows, Policy, RoutePolicy
  <2> QED BY <2>1, <2>2, <2>3, TagsStay, PassConforms
<1>4. CASE ApiCacheControl(r) \/ RouteCacheControl(r)
  <2> DEFINE policy == IF pc[r] = "apiCacheControl" THEN "private, max-age=900"
                       ELSE "public, max-age=900"
  <2>1. /\ UNCHANGED <<input, req, call, reply, sentry, log>>
        /\ \/ pc[r] = "apiCacheControl" /\ pc'[r] = "router"
           \/ pc[r] = "routeCacheControl" /\ pc'[r] = "handler"
        /\ res'[r] = cacheControl(res[r], policy)
        /\ res[r] \in ExpressResponse
    BY <1>4 DEF ApiCacheControl, RouteCacheControl, Runs, Goto, TypeOK
  <2> HIDE DEF policy
  <2>2. /\ Policy(r)' = IF environment = "development" THEN Policy(r) ELSE OwnHeader(policy)
        /\ res'[r].status = res[r].status /\ res'[r].sent = res[r].sent
    BY <2>1, ResponseOperators DEF Policy
  <2>3. OnTheWay(r)'
    BY <1>a, <2>1, <2>2 DEF OnTheWay
  <2>4. pc[r] = "routeCacheControl" => RoutePolicy(input[r]) = policy
    BY DEF Isolated, OnlyRoutedRequestsAreHandled, RoutePolicy, policy
  <2>5. PolicyFollows(r)'
    <3>1. CASE environment = "development"
      BY <1>a, <2>1, <2>2, <3>1 DEF CachedText, PolicyFollows
    <3>2. CASE environment # "development"
      <4>1. Policy(r)' = OwnHeader(policy) /\ OwnHeader(policy).text = policy
        BY <2>2, <3>2 DEF OwnHeader
      <4>2. CASE pc[r] = "apiCacheControl"
        <5>1. policy = "private, max-age=900"
          BY <4>2 DEF policy
        <5> QED BY <2>1, <3>2, <4>1, <4>2, <5>1 DEF CachedText, PolicyFollows
      <4>3. CASE pc[r] = "routeCacheControl"
        <5>1. policy = "public, max-age=900"
          BY <4>3 DEF policy
        <5> QED BY <2>1, <2>4, <3>2, <4>1, <4>3, <5>1 DEF CachedText, PolicyFollows
      <4> QED BY <2>1, <4>2, <4>3
    <3> QED BY <3>1, <3>2
  <2> QED BY <2>1, <2>2, <2>3, <2>5, TagsStay, PassConforms
<1> QED BY <1>1, <1>2, <1>3, <1>4

LEMMA CallsPass ==
    ASSUME TypeOK, NEW r \in Request, Isolated(r), Progress(r), Conforms(r),
           \/ RequestRecentSaves(r) \/ RequestRecommendations(r)
           \/ UpstreamSettles(r) \/ ForwardHeaders(r)
    PROVE  Conforms(r)'
<1>a. OnTheWay(r) /\ PolicyFollows(r)
  BY DEF Conforms
<1>1. CASE RequestRecentSaves(r) \/ RequestRecommendations(r)
  <2>1. /\ UNCHANGED <<input, req, res, reply, sentry, log>>
        /\ pc[r] = "handler" /\ pc'[r] = "upstream"
        /\ call'[r].graph # "none"
    BY <1>1 DEF RequestRecentSaves, RequestRecommendations, RequestUpstream, Runs, Goto,
                TypeOK
  <2>2. OnTheWay(r)'
    BY <1>a, <2>1 DEF OnTheWay
  <2>3. PolicyFollows(r)'
    BY <1>a, <2>1 DEF PolicyFollows, Policy
  <2> QED BY <2>1, <2>2, <2>3, TagsStay, PassConforms
<1>2. CASE UpstreamSettles(r)
  <2>1. /\ UNCHANGED <<input, req, res, call, sentry, log>>
        /\ pc[r] = "upstream" /\ pc'[r] \in {"middleware", "resume"}
        /\ reply'[r].outcome # "none"
    BY <1>2 DEF UpstreamSettles, Goto, TypeOK
  <2>2. OnTheWay(r)'
    BY <1>a, <2>1 DEF OnTheWay
  <2>3. PolicyFollows(r)'
    BY <1>a, <2>1 DEF PolicyFollows, Policy
  <2> QED BY <2>1, <2>2, <2>3, TagsStay, PassConforms
<1>3. CASE ForwardHeaders(r)
  <2>1. /\ UNCHANGED <<input, req, call, reply, sentry, log>>
        /\ pc[r] = "middleware" /\ pc'[r] = "resume"
        /\ res'[r] = forwardHeaders(res[r], reply[r].headers, reply[r].owner)
        /\ res[r] \in ExpressResponse
    BY <1>3 DEF ForwardHeaders, Goto, TypeOK
  <2>2. /\ Policy(r)' = Policy(r)
        /\ res'[r].status = res[r].status /\ res'[r].sent = res[r].sent
    BY <2>1, ResponseOperators DEF Policy
  <2>3. OnTheWay(r)'
    BY <1>a, <2>1, <2>2 DEF OnTheWay
  <2>4. PolicyFollows(r)'
    BY <1>a, <2>1, <2>2 DEF PolicyFollows
  <2> QED BY <2>1, <2>2, <2>3, <2>4, TagsStay, PassConforms
<1> QED BY <1>1, <1>2, <1>3

LEMMA FailuresConform ==
    ASSUME TypeOK, NEW r \in Request, Isolated(r), Progress(r), Conforms(r),
           \/ RejectBody(r) \/ NotFoundHandler(r) \/ RejectConsumerKey(r)
           \/ RejectParameters(r)
    PROVE  Conforms(r)'
<1> DEFINE i == input[r]
           text == Policy(r).text
<1>a. OnTheWay(r) /\ PolicyFollows(r) /\ i \in Input
  BY DEF Conforms, TypeOK
<1>b. \A e, policy : ErrorAnswer(e, policy).policy = policy
  BY DEF ErrorAnswer
<1> HIDE DEF i
<1>1. CASE RejectBody(r)
  <2> DEFINE e == ProgramError(bodyError[i.body])
  <2>1. /\ pc[r] = "body" /\ i.body \in DOMAIN bodyError /\ Fail(r, e)
        /\ UNCHANGED <<input, req, res, sentry, log>>
    BY <1>1 DEF RejectBody, i
  <2>2. text = "none"
    BY <1>a, <2>1 DEF PolicyFollows
  <2>3. Reportable(e) /\ Contract!IsError(ErrorAnswer(e, text), 500, "a03b69b9", {Anonymous})
    BY ProgramErrors
  <2>4. Contract!Promised(i, ErrorAnswer(e, text))
    <3> HIDE DEF e, text
    <3> QED BY <1>b, <2>1, <2>2, <2>3, Promises DEF PromisedHere
  <2> HIDE DEF e
  <2> QED BY <2>1, <2>3, <2>4, FailConforms DEF i
<1>2. CASE NotFoundHandler(r)
  <2>1. /\ Fail(r, notFoundError)
        /\ UNCHANGED <<input, req, res, sentry, log>>
        /\ \/ pc[r] = "app" /\ i.path \notin MountedPaths /\ ~IsHealthCheck(i)
           \/ pc[r] = "router" /\ ~IsRouted(i)
    BY <1>2 DEF NotFoundHandler, Runs, i
  <2>2. IsRouted(i) => i.path \in MountedPaths
    BY DEF IsRouted, MountedPaths
  <2>3. IsHealthCheck(i) => i.path \notin MountedPaths
    BY DEF IsHealthCheck, MountedPaths, RoutePaths, HealthPath, RecentSavesPath,
           RecommendationsPath, GlobalRecsPath
  <2>4. /\ i.body \notin DOMAIN bodyError /\ ~IsHealthCheck(i) /\ ~IsRouted(i)
        /\ text = IF i.path \in MountedPaths THEN CachedText("private, max-age=900")
                  ELSE "none"
    BY <1>a, <2>1, <2>2, <2>3 DEF OnTheWay, PolicyFollows, i
  <2>5. RestError(notFoundError, 404, "a5d471c4", Anonymous)
    BY DEF notFoundError, RestError, BFFFxError, RestResponseError
  <2>6. /\ Reportable(notFoundError)
        /\ Contract!IsError(ErrorAnswer(notFoundError, text), 404, "a5d471c4", {Anonymous})
    BY <2>5, RestErrorsAreTold
  <2>7. Contract!Promised(i, ErrorAnswer(notFoundError, text))
    <3> HIDE DEF text
    <3> QED BY <1>b, <2>4, <2>6, Promises DEF PromisedHere
  <2> QED BY <2>1, <2>6, <2>7, FailConforms DEF i
<1>3. CASE RejectConsumerKey(r)
  <2> DEFINE e == BFFFxError("request rejected, consumer_key is required", 401,
                             "810b0a84", <<>>)
  <2>1. /\ Fail(r, e) /\ pc[r] = "router" /\ IsRouted(i) /\ ~HasConsumerKey(i)
        /\ UNCHANGED <<input, req, res, sentry, log>>
    BY <1>3 DEF RejectConsumerKey, Runs, i
  <2>2. RestError(e, 401, "810b0a84", Anonymous)
    BY DEF RestError, BFFFxError, RestResponseError
  <2>3. i.body \notin DOMAIN bodyError /\ text = CachedText("private, max-age=900")
    BY <1>a, <2>1 DEF OnTheWay, PolicyFollows, i
  <2> HIDE DEF e
  <2>4. /\ Reportable(e)
        /\ Contract!IsError(ErrorAnswer(e, text), 401, "810b0a84", {Anonymous})
    BY <2>2, RestErrorsAreTold
  <2>5. Contract!Promised(i, ErrorAnswer(e, text))
    <3> HIDE DEF text
    <3> QED BY <1>b, <2>1, <2>3, <2>4, Promises, RoutesAreOnTheirOwn DEF PromisedHere
  <2> QED BY <2>1, <2>4, <2>5, FailConforms DEF i
<1>4. CASE RejectParameters(r)
  <2> DEFINE e == Handled(i).error
  <2>1. /\ Fail(r, e) /\ pc[r] = "handler" /\ e # NoError
        /\ UNCHANGED <<input, req, res, sentry, log>>
    BY <1>4 DEF RejectParameters, Runs, i
  <2>2. IsRouted(i) /\ HasConsumerKey(i) /\ i.path \in RoutePaths
    BY <2>1 DEF Isolated, OnlyRoutedRequestsAreHandled, IsRouted, i
  <2>3. i.body \notin DOMAIN bodyError /\ text = CachedText(RoutePolicy(i))
    BY <1>a, <2>1 DEF OnTheWay, PolicyFollows, i
  <2>4. IF i.path = RecentSavesPath THEN RestError(e, 400, "3f262c60", Anonymous)
        ELSE RestError(e, 404, "82868c64", Anonymous)
    BY <1>a, <2>1, <2>2, HandledErrors
  <2>5. /\ Reportable(e)
        /\ IF i.path = RecentSavesPath
           THEN Contract!IsError(ErrorAnswer(e, text), 400, "3f262c60", {Anonymous})
           ELSE Contract!IsError(ErrorAnswer(e, text), 404, "82868c64", {Anonymous})
    <3> HIDE DEF e, text
    <3> QED BY <2>4, RestErrorsAreTold
  <2>6. PromisedForRoute(i, ErrorAnswer(e, text))
    <3> HIDE DEF text
    <3> QED BY <1>b, <2>1, <2>3, <2>5 DEF PromisedForRoute
  <2>7. Contract!Promised(i, ErrorAnswer(e, text))
    <3> HIDE DEF e, text
    <3> QED BY <2>2, <2>3, <2>6, Promises, RoutesAreOnTheirOwn DEF PromisedHere
  <2> HIDE DEF e
  <2> QED BY <2>1, <2>5, <2>7, FailConforms DEF i
<1> QED BY <1>1, <1>2, <1>3, <1>4

\* A failure of upstream: of the documents, its own is the only one quoted.
LEMMA CatchConforms ==
    ASSUME TypeOK, NEW r \in Request, Isolated(r), Progress(r), Conforms(r), CatchError(r)
    PROVE  Conforms(r)'
<1> DEFINE i == input[r]
           text == Policy(r).text
           e == GraphQLErrorHandler(reply[r], <<>>)
           a == ErrorAnswer(e, text)
           owners == IF i.path = RecentSavesPath THEN {Anonymous, i.cookies.user}
                     ELSE {Anonymous}
<1>1. /\ pc[r] = "resume" /\ reply[r].outcome # "data"
      /\ UNCHANGED <<input, req, res, sentry, log>>
      /\ err' = [err EXCEPT ![r] = e]
      /\ Goto(r, IF e = NoError THEN "hung" ELSE "sentry")
  BY DEF CatchError
<1>2. /\ i.body \notin DOMAIN bodyError /\ text = CachedText(RoutePolicy(i))
      /\ reply[r].outcome # "none" /\ call[r].graph # "none"
  BY <1>1 DEF Conforms, OnTheWay, PolicyFollows
<1>3. IsRouted(i) /\ HasConsumerKey(i) /\ Handled(i).error = NoError
  BY <1>2 DEF Progress, CallsAreAccepted
<1>4. /\ e # NoError /\ Reportable(e)
      /\ Contract!IsUpstreamFailure(a, {reply[r].owner})
  BY <1>1, <1>2, UpstreamErrors DEF TypeOK
<1>5. reply[r].owner \in owners
  BY DEF Isolated, OnlyOwnCookies, Own, OtherRoutesAreAnonymous
<1>6. a.policy = text
  BY DEF ErrorAnswer
<1> HIDE DEF i, text, e, a, owners
<1>7. Contract!IsUpstreamFailure(a, owners)
  BY <1>4, <1>5 DEF Contract!IsUpstreamFailure, Contract!IsError
<1>8. PromisedForRoute(i, a)
  BY <1>2, <1>3, <1>6, <1>7 DEF PromisedForRoute, owners
<1>9. Contract!Promised(i, a)
  BY <1>2, <1>3, <1>8, Promises, RoutesAreOnTheirOwn DEF PromisedHere
<1>10. Fail(r, e)
  BY <1>1, <1>4 DEF Fail
<1> QED BY <1>1, <1>4, <1>9, <1>10, FailConforms DEF i, text, a

LEMMA ReportsConform ==
    ASSUME TypeOK, NEW r \in Request, Conforms(r), Progress(r), SentryErrorHandler(r)
    PROVE  Conforms(r)'
<1> DEFINE event == [message |-> err[r].message, user |-> req[r].user]
<1>1. /\ pc[r] = "sentry" /\ pc'[r] = "errorHandler"
      /\ UNCHANGED <<input, req, res, call, reply, err, log>>
      /\ sentry'[r] = IF shouldHandleError(err[r]) THEN Append(sentry[r], event)
                      ELSE sentry[r]
  BY DEF SentryErrorHandler, Runs, Goto, TypeOK
<1>2. /\ sentry[r] = <<>> /\ log[r] = <<>> /\ req[r].user = UserOf(r)
      /\ shouldHandleError(err[r]) <=> responseError(err[r]).status >= 500
      /\ ~res[r].sent
  BY <1>1 DEF Conforms, ReportsFollow, TagsAreTheUsers, AnswersArePromised, Reportable,
              Progress, AnsweredIsDone
<1>3. event.user = UserOf(r)
  BY <1>2
<1> HIDE DEF event
<1>4. /\ Len(sentry'[r]) = IF responseError(err[r]).status >= 500 THEN 1 ELSE 0
      /\ \A n \in DOMAIN sentry'[r] : sentry'[r][n].user = UserOf(r)
  <2>1. CASE shouldHandleError(err[r])
    <3>1. sentry'[r] = <<event>>
      BY <1>1, <1>2, <2>1
    <3> QED BY <1>2, <1>3, <2>1, <3>1
  <2>2. CASE ~shouldHandleError(err[r])
    <3>1. sentry'[r] = <<>>
      BY <1>1, <1>2, <2>2
    <3> QED BY <1>2, <2>2, <3>1
  <2> QED BY <2>1, <2>2
<1>5. UserOf(r)' = UserOf(r)
  BY <1>1 DEF UserOf
<1>6. ReportsFollow(r)'
  <2>1. \A n \in DOMAIN log'[r] : log'[r][n].user = UserOf(r)
    BY <1>1, <1>2
  <2> QED BY <1>1, <1>2, <1>4, <1>5, <2>1 DEF ReportsFollow
<1>7. OnTheWay(r)'
  BY <1>1 DEF Conforms, OnTheWay
<1>8. PolicyFollows(r)'
  BY <1>1 DEF Conforms, PolicyFollows, Policy
<1>9. AnswersArePromised(r)'
  BY <1>1, <1>2 DEF Conforms, AnswersArePromised, Policy
<1>10. TagsAreTheUsers(r)'
  BY <1>1, TagsStay
<1> QED BY <1>6, <1>7, <1>8, <1>9, <1>10 DEF Conforms

LEMMA AnswersConform ==
    ASSUME TypeOK, NEW r \in Request, Isolated(r), Progress(r), Conforms(r),
           ServerHealth(r) \/ RespondWithData(r) \/ ErrorHandler(r)
    PROVE  Conforms(r)'
<1> DEFINE i == input[r]
           text == Policy(r).text
<1>a. res[r] \in ExpressResponse /\ OnTheWay(r) /\ PolicyFollows(r)
  BY DEF TypeOK, Conforms
<1>b. pc[r] \notin {"errorHandler", "done"} => sentry[r] = <<>> /\ log[r] = <<>>
  BY DEF Conforms, ReportsFollow
<1>1. CASE ServerHealth(r)
  <2> DEFINE d == [NoDocument EXCEPT !.kind = "text", !.id = "ok"]
             x == send(res[r], 200, "text/html", d)
  <2>1. /\ pc[r] = "app" /\ pc'[r] = "done" /\ IsHealthCheck(i) /\ res'[r] = x
        /\ UNCHANGED <<input, req, sentry, log>>
    BY <1>1 DEF ServerHealth, Runs, Goto, Answer, TypeOK
  <2>2. d.kind = "text" /\ d.id = "ok"
    BY DEF NoDocument
  <2> HIDE DEF d
  <2>3. /\ x.sent /\ x.status = 200 /\ x.headers["cache-control"] = Policy(r)
        /\ AnswerOf(x).status = 200 /\ AnswerOf(x).kind = "text" /\ AnswerOf(x).id = "ok"
        /\ AnswerOf(x).policy = text
    BY <1>a, <2>2, ResponseOperators DEF Policy
  <2>4. i.body \notin DOMAIN bodyError /\ text = "none"
    BY <1>a, <2>1 DEF OnTheWay, PolicyFollows
  <2> HIDE DEF x
  <2>5. Contract!Promised(i, AnswerOf(x))
    <3> HIDE DEF i, text
    <3> QED BY <2>1, <2>3, <2>4, Promises DEF PromisedHere
  <2>6. sentry'[r] = <<>> /\ log'[r] = <<>>
    BY <1>b, <2>1
  <2> QED BY <2>1, <2>3, <2>5, <2>6, AnswerConforms
<1>2. CASE RespondWithData(r)
  <2> DEFINE d == [NoDocument EXCEPT !.kind = DataKind(call[r].graph),
                                     !.owner = reply[r].owner]
             x == send(res[r], res[r].status, "application/json", d)
  <2>1. /\ pc[r] = "resume" /\ pc'[r] = "done" /\ reply[r].outcome = "data"
        /\ res'[r] = x /\ UNCHANGED <<input, req, sentry, log>>
    BY <1>2 DEF RespondWithData, Goto, Answer, TypeOK
  <2>2. d.kind = DataKind(call[r].graph) /\ d.owner = reply[r].owner
    BY DEF NoDocument
  <2> HIDE DEF d
  <2>3. /\ i.body \notin DOMAIN bodyError /\ text = CachedText(RoutePolicy(i))
        /\ res[r].status = 200 /\ call[r].graph # "none"
    BY <1>a, <2>1 DEF OnTheWay, PolicyFollows
  <2>4. /\ x.sent /\ x.status = 200 /\ x.headers["cache-control"] = Policy(r)
        /\ AnswerOf(x).status = 200 /\ AnswerOf(x).kind = DataKind(call[r].graph)
        /\ AnswerOf(x).owner = reply[r].owner /\ AnswerOf(x).policy = text
    BY <1>a, <2>2, <2>3, ResponseOperators DEF Policy
  <2>5. /\ IsRouted(i) /\ HasConsumerKey(i) /\ Handled(i).error = NoError
        /\ call[r].graph = "web" <=> i.path = RecentSavesPath
    BY <2>3 DEF Progress, CallsAreAccepted
  <2>6. IF i.path = RecentSavesPath
        THEN Session(i.cookies) # Anonymous /\ reply[r].owner = Session(i.cookies)
        ELSE reply[r].owner = Anonymous
    BY <2>1, <2>5 DEF Isolated, OnlyWholeSessionsGetSaves, OtherRoutesAreAnonymous
  <2> HIDE DEF x
  <2>7. PromisedForRoute(i, AnswerOf(x))
    <3> HIDE DEF i, text
    <3> QED BY <2>3, <2>4, <2>5, <2>6 DEF PromisedForRoute, DataKind
  <2>8. Contract!Promised(i, AnswerOf(x))
    <3> HIDE DEF i, text
    <3> QED BY <2>3, <2>5, <2>7, Promises, RoutesAreOnTheirOwn DEF PromisedHere
  <2>9. sentry'[r] = <<>> /\ log'[r] = <<>>
    BY <1>b, <2>1
  <2> QED BY <2>1, <2>4, <2>8, <2>9, AnswerConforms
<1>3. CASE ErrorHandler(r)
  <2> DEFINE e == responseError(err[r])
             x == send(res[r], e.status, "text/html", e.response)
             event == [message |-> err[r].message,
                       user |-> IF req[r].auth.present THEN userTags(req[r].auth)
                                ELSE "none"]
  <2>1. /\ pc[r] = "errorHandler" /\ pc'[r] = "done" /\ res'[r] = x
        /\ UNCHANGED <<input, req, sentry>> /\ log'[r] = Append(log[r], event)
    BY <1>3 DEF ErrorHandler, Runs, Goto, Answer, TypeOK
  <2>2. event.user = UserOf(r)
    BY DEF Conforms, TagsAreTheUsers, UserOf, userTags
  <2> HIDE DEF event
  <2>3. /\ x.sent /\ x.status = e.status /\ x.headers["cache-control"] = Policy(r)
        /\ AnswerOf(x) = ErrorAnswer(err[r], text)
    BY <1>a, ResponseOperators DEF Policy, ErrorAnswer
  <2>4. /\ Contract!Promised(i, ErrorAnswer(err[r], text)) /\ e.status >= 400
        /\ Len(sentry[r]) = IF e.status >= 500 THEN 1 ELSE 0
        /\ log[r] = <<>>
        /\ \A n \in DOMAIN sentry[r] : sentry[r][n].user = UserOf(r)
    BY <2>1 DEF Conforms, AnswersArePromised, Reportable, ReportsFollow
  <2>5. log'[r] = <<event>>
    BY <2>1, <2>4
  <2>6. /\ Len(log'[r]) = 1
        /\ \A n \in DOMAIN log'[r] : log'[r][n].user = UserOf(r)
    BY <2>2, <2>5
  <2> HIDE DEF x, e
  <2>7. Contract!Promised(i, AnswerOf(x))
    BY <2>3, <2>4
  <2>8. /\ Len(sentry'[r]) = IF x.status >= 500 THEN 1 ELSE 0
        /\ Len(log'[r]) = IF x.status >= 400 THEN 1 ELSE 0
        /\ \A n \in DOMAIN sentry'[r] : sentry'[r][n].user = UserOf(r)
    BY <2>1, <2>3, <2>4, <2>6
  <2> QED BY <2>1, <2>3, <2>6, <2>7, <2>8, AnswerConforms
<1> QED BY <1>1, <1>2, <1>3

LEMMA ReceptionConforms ==
    ASSUME TypeOK, NEW r \in Request, Receive(r)
    PROVE  Conforms(r)'
<1>1. /\ pc'[r] = "json" /\ req'[r] = FreshReq /\ res'[r] = FreshRes
      /\ sentry'[r] = <<>> /\ log'[r] = <<>>
  BY DEF Receive, Goto, TypeOK
<1>2. /\ ~FreshRes.sent /\ FreshRes.headers["cache-control"] = NoHeader
      /\ FreshRes.status = 200 /\ NoHeader.text = "none"
      /\ ~FreshReq.auth.present /\ FreshReq.user = "none"
  BY ProxyAssumption DEF FreshRes, FreshReq, NoAuth, NoHeader
<1>3. OnTheWay(r)' /\ AnswersArePromised(r)'
  BY <1>1, <1>2 DEF OnTheWay, AnswersArePromised
<1>4. PolicyFollows(r)'
  BY <1>1, <1>2 DEF PolicyFollows, Policy
<1>5. TagsAreTheUsers(r)'
  BY <1>1, <1>2 DEF TagsAreTheUsers, UserOf
<1>6. ReportsFollow(r)'
  BY <1>1 DEF ReportsFollow
<1> QED BY <1>3, <1>4, <1>5, <1>6 DEF Conforms

LEMMA NextConforms ==
    TypeOK /\ IsolationInv /\ ProgressInv /\ ConformanceInv /\ [Next]_vars
      => ConformanceInv'
<1> SUFFICES ASSUME TypeOK, IsolationInv, ProgressInv, ConformanceInv, [Next]_vars,
                    NEW s \in Request
             PROVE  Conforms(s)'
  BY DEF ConformanceInv
<1>1. Isolated(s) /\ Progress(s) /\ Conforms(s)
  BY DEF IsolationInv, ProgressInv, ConformanceInv
<1>2. CASE UNCHANGED vars
  BY <1>1, <1>2, KeptConforms DEF vars, Kept
<1>3. ASSUME NEW r \in Request, Step(r) PROVE Conforms(s)'
  <2>1. CASE r = s
    BY <1>1, <1>3, <2>1, ReceptionConforms, SyncPasses, CallsPass, FailuresConform,
       CatchConforms, ReportsConform, AnswersConform DEF Step, Sync, Wake
  <2>2. CASE r # s
    <3>1. Kept(s)
      BY <1>3, <2>2, OthersAreKept
    <3> QED BY <1>1, <3>1, KeptConforms
  <2> QED BY <2>1, <2>2
<1> QED BY <1>2, <1>3 DEF Next, Step

LEMMA ConformanceInvariant ==
    Spec => [](TypeOK /\ IsolationInv /\ ProgressInv /\ ConformanceInv)
<1> DEFINE Inv == TypeOK /\ IsolationInv /\ ProgressInv /\ ConformanceInv
<1>1. Init => Inv
  BY InitType, InitIsolated, InitProgress, InitConforms
<1>2. Inv /\ [Next]_vars => Inv'
  BY NextType, NextIsolated, NextProgress, NextConforms
<1> QED BY <1>1, <1>2, PTL DEF Spec

(* Whatever order the requests run in, an answer carries the policy of the  *)
(* handler closest to its route, none in development, and never upstream's  *)
(* (cacheControlHandler.ts:17-27, headerUtils.ts:16-53).                    *)
THEOREM ClosestPolicy == Spec => []ClosestCachePolicy
<1>1. TypeOK /\ ConformanceInv => ClosestCachePolicy
  <2> SUFFICES ASSUME TypeOK, ConformanceInv, NEW r \in Request, Answered(r)
               PROVE  IF NODE_ENV \in {Absent, "", "development"}
                      THEN Policy(r) = NoHeader
                      ELSE /\ res[r].body.kind = "saves" => Private(r)
                           /\ res[r].body.kind = "recommendations" => Public(r)
                           /\ input[r].path \notin MountedPaths => Policy(r) = NoHeader
                           /\ Policy(r) = NoHeader \/ Private(r) \/ Public(r)
    BY DEF ClosestCachePolicy
  <2> DEFINE i == input[r]
             a == AnswerOf(res[r])
             private == OwnHeader("private, max-age=900")
             public == OwnHeader("public, max-age=900")
  <2>1. PromisedHere(i, a) /\ Policy(r) \in {NoHeader, private, public}
    BY Promises DEF ConformanceInv, Conforms, AnswersArePromised, PolicyFollows, Answered
  <2>2. /\ a.policy = Policy(r).text /\ a.kind = res[r].body.kind
        /\ NoHeader.text = "none" /\ private.text = "private, max-age=900"
        /\ public.text = "public, max-age=900"
    BY DEF AnswerOf, Policy, NoHeader, OwnHeader
  <2>3. NODE_ENV \in {Absent, "", "development"} <=> environment = "development"
    BY DEF environment, Truthy
  <2>4. /\ IsRouted(i) => i.path \in MountedPaths
        /\ a.kind = "saves" => a.policy = CachedText("private, max-age=900")
        /\ a.kind = "recommendations" => a.policy = CachedText("public, max-age=900")
        /\ i.path \notin MountedPaths => a.policy = "none"
        /\ environment = "development" => a.policy = "none"
    <3>1. IsRouted(i) => i.path \in MountedPaths
      BY DEF IsRouted, MountedPaths
    <3>2. \A status, id, owners :
            Contract!IsError(a, status, id, owners) => a.kind = "error"
      BY DEF Contract!IsError
    <3>3. \A owners : Contract!IsUpstreamFailure(a, owners) => a.kind = "error"
      BY <3>2 DEF Contract!IsUpstreamFailure
    <3>4. CASE PromisedForRoute(i, a) /\ IsRouted(i)
      BY <3>1, <3>2, <3>3, <3>4 DEF PromisedForRoute, RoutePolicy, CachedText
    <3>5. CASE ~(PromisedForRoute(i, a) /\ IsRouted(i))
      BY <2>1, <3>1, <3>2, <3>5 DEF PromisedHere, CachedText
    <3> QED BY <3>1, <3>4, <3>5
  <2> HIDE DEF i, a, private, public
  <2>5. CASE environment = "development"
    BY <2>1, <2>2, <2>3, <2>4, <2>5
  <2>6. CASE environment # "development"
    <3>1. /\ a.kind = "saves" => Policy(r) = private
          /\ a.kind = "recommendations" => Policy(r) = public
          /\ i.path \notin MountedPaths => Policy(r) = NoHeader
      BY <2>1, <2>2, <2>4, <2>6 DEF CachedText
    <3> QED BY <2>1, <2>2, <2>3, <2>6, <3>1 DEF Private, Public, i, private, public
  <2> QED BY <2>5, <2>6
<1> QED BY <1>1, ConformanceInvariant, PTL

(* Answers of status 500 and above are reported to Sentry, once, no others  *)
(* are, and each error is logged once, with the user of its own request     *)
(* (server.ts:93-111, logger.ts:13-36, errorHandler.ts:75).                 *)
THEOREM Reported == Spec => []FailuresAreReported
<1>1. ProgressInv /\ ConformanceInv => FailuresAreReported
  BY DEF ProgressInv, Progress, AnsweredIsDone, ConformanceInv, Conforms, ReportsFollow,
         UserOf, FailuresAreReported, Answered
<1> QED BY <1>1, ConformanceInvariant, PTL

------------------------------------------------------------------------------
(* The refinement.                                                          *)

AskedBy(r) == IF pc[r] = "idle" THEN NoInput ELSE input[r]
AnswerTo(r) == IF ~res[r].sent THEN NoAnswer ELSE AnswerOf(res[r])

\* The mapping of ProxyProperties, slot by slot.
LEMMA Mapping ==
    /\ Contract!vars = <<[r \in Request |-> AskedBy(r)], [r \in Request |-> AnswerTo(r)]>>
    /\ Contract!Init <=> \A r \in Request : AskedBy(r) = NoInput /\ AnswerTo(r) = NoAnswer
BY DEF Contract!vars, Contract!Init, AskedBy, AnswerTo, AnswerOf, Policy

\* An answer is one of the contract's.
LEMMA AnswerTypes ==
    ASSUME NEW x \in ExpressResponse,
           x.headers["cache-control"] \in {NoHeader, OwnHeader("private, max-age=900"),
                                          OwnHeader("public, max-age=900")}
    PROVE  AnswerOf(x) \in Contract!Answer /\ AnswerOf(x) # NoAnswer
<1> DEFINE text == x.headers["cache-control"].text
<1>1. /\ x.status \in Nat /\ x.body.kind \in Kind /\ x.body.id \in Id
      /\ x.body.owner \in Owner
  BY DEF ExpressResponse, Document
<1>2. text \in {"none", "private, max-age=900", "public, max-age=900"}
  <2>1. /\ NoHeader.text = "none"
        /\ OwnHeader("private, max-age=900").text = "private, max-age=900"
        /\ OwnHeader("public, max-age=900").text = "public, max-age=900"
    BY DEF NoHeader, OwnHeader
  <2> QED BY <2>1
<1>3. Contract!Kind = Kind /\ Contract!Id = Id
  BY DEF Contract!Kind, Kind, Contract!Id, Id
<1> HIDE DEF text
<1>4. \A status \in Nat, kind \in Kind, id \in Id, owner \in Owner,
         policy \in {"none", "private, max-age=900", "public, max-age=900"} :
        LET a == [status |-> status, kind |-> kind, id |-> id, owner |-> owner,
                  policy |-> policy]
        IN  /\ a \in Contract!Answer
            /\ a \in [status : Nat, kind : Kind, id : Id, owner : Owner,
                     policy : ProxyText]
  BY <1>3 DEF Contract!Answer, Contract!Policies, ProxyText
<1>5. LET a == [status |-> x.status, kind |-> x.body.kind, id |-> x.body.id,
                owner |-> x.body.owner, policy |-> text]
      IN  /\ a \in Contract!Answer
          /\ a \in [status : Nat, kind : Kind, id : Id, owner : Owner,
                   policy : ProxyText]
  BY <1>1, <1>2, <1>4, Zenon
<1> QED BY <1>5, ContractAssumption, Zenon DEF AnswerOf, text

\* What a step of the server is to a client.
LEMMA StepsAreMapped ==
    ASSUME TypeOK, IsolationInv, ProgressInv, ConformanceInv, NEW r \in Request, Step(r)
    PROVE  /\ \A s \in Request \ {r} :
                AskedBy(s)' = AskedBy(s) /\ AnswerTo(s)' = AnswerTo(s)
           /\ \/ /\ AskedBy(r) = NoInput \/ AnswerTo(r) # NoAnswer
                 /\ AskedBy(r)' \in Traffic
                 /\ AnswerTo(r)' = NoAnswer
              \/ /\ AskedBy(r) # NoInput
                 /\ AnswerTo(r) = NoAnswer
                 /\ AnswerTo(r)' \in Contract!Answer
                 /\ Contract!Promised(AskedBy(r), AnswerTo(r)')
                 /\ AskedBy(r)' = AskedBy(r)
              \/ AskedBy(r)' = AskedBy(r) /\ AnswerTo(r)' = AnswerTo(r)
<1>1. \A s \in Request \ {r} : AskedBy(s)' = AskedBy(s) /\ AnswerTo(s)' = AnswerTo(s)
  BY OthersAreKept DEF Kept, AskedBy, AnswerTo
<1>2. Isolated(r) /\ Progress(r) /\ Conforms(r)
  BY DEF IsolationInv, ProgressInv, ConformanceInv
<1>3. CASE Receive(r)
  <2>1. /\ pc[r] \in {"idle", "done"} /\ pc'[r] = "json" /\ input'[r] \in Traffic
        /\ res'[r] = FreshRes /\ ~FreshRes.sent
    BY <1>3 DEF Receive, Goto, TypeOK, FreshRes
  <2>2. pc[r] = "done" => res[r].sent
    BY <1>2 DEF Conforms, OnTheWay
  <2>3. AskedBy(r) = NoInput \/ AnswerTo(r) # NoAnswer
    BY <1>2, <2>1, <2>2, AnswerTypes
       DEF AskedBy, AnswerTo, Conforms, PolicyFollows, Policy, TypeOK
  <2>4. AskedBy(r)' \in Traffic /\ AnswerTo(r)' = NoAnswer
    BY <2>1 DEF AskedBy, AnswerTo
  <2> QED BY <1>1, <2>3, <2>4
<1>4. CASE ServerHealth(r) \/ RespondWithData(r) \/ ErrorHandler(r)
  <2>1. /\ UNCHANGED input /\ pc[r] # "idle" /\ pc[r] # "done" /\ pc'[r] = "done"
    BY <1>4 DEF ServerHealth, RespondWithData, ErrorHandler, Runs, Goto, TypeOK
  <2>2. Conforms(r)' /\ TypeOK'
    BY <1>2, <1>4, AnswersConform, NextType DEF Next, Step
  <2>3. res'[r].sent /\ Contract!Promised(input'[r], AnswerOf(res'[r]))
    BY <2>1, <2>2 DEF Conforms, OnTheWay, AnswersArePromised
  <2>4. AnswerOf(res'[r]) \in Contract!Answer
    BY <2>2, AnswerTypes DEF Conforms, PolicyFollows, Policy, TypeOK
  <2>5. AskedBy(r) = input[r] /\ AskedBy(r)' = input[r] /\ input[r] # NoInput
    BY <2>1, ContractAssumption DEF AskedBy, TypeOK
  <2>6. AnswerTo(r) = NoAnswer /\ AnswerTo(r)' = AnswerOf(res'[r])
    BY <1>2, <2>1, <2>3 DEF AnswerTo, Progress, AnsweredIsDone
  <2> QED BY <1>1, <2>1, <2>3, <2>4, <2>5, <2>6
<1>5. ASSUME UNCHANGED input, res'[r].sent = res[r].sent, pc[r] \notin {"idle", "done"},
             pc'[r] # "idle"
      PROVE  AskedBy(r)' = AskedBy(r) /\ AnswerTo(r)' = AnswerTo(r)
  BY <1>2, <1>5 DEF AskedBy, AnswerTo, Progress, AnsweredIsDone
<1>6. CASE RequestRecentSaves(r) \/ RequestRecommendations(r)
  BY <1>1, <1>5, <1>6 DEF RequestRecentSaves, RequestRecommendations, RequestUpstream, Runs,
                          Goto, TypeOK
<1>7. CASE \/ NoBodyToParse(r) \/ AwaitBody(r) \/ ParseBody(r) \/ RejectBody(r)
           \/ WebSessionAuthHandler(r) \/ ApiCacheControl(r) \/ NotFoundHandler(r)
           \/ RejectConsumerKey(r) \/ AcceptConsumerKey(r) \/ RouteCacheControl(r)
           \/ RejectParameters(r) \/ UpstreamSettles(r) \/ ForwardHeaders(r)
           \/ CatchError(r) \/ SentryErrorHandler(r)
  <2>1. UNCHANGED input /\ res'[r].sent = res[r].sent /\ pc[r] # "done" /\ pc'[r] # "idle"
    BY <1>7, HandlersPass
  <2>2. pc[r] # "idle"
    BY <1>7, HandlersPass
  <2> QED BY <1>1, <1>5, <2>1, <2>2
<1> QED BY <1>3, <1>4, <1>6, <1>7 DEF Step, Sync, Wake

\* A slot's part of a step is the contract's step.
LEMMA MappedSteps ==
    ASSUME NEW r \in Request,
           \A s \in Request \ {r} : AskedBy(s)' = AskedBy(s) /\ AnswerTo(s)' = AnswerTo(s)
    PROVE  /\ /\ AskedBy(r) = NoInput \/ AnswerTo(r) # NoAnswer
              /\ AskedBy(r)' \in Traffic
              /\ AnswerTo(r)' = NoAnswer
              => Contract!Ask(r)
           /\ /\ AskedBy(r) # NoInput
              /\ AnswerTo(r) = NoAnswer
              /\ AnswerTo(r)' \in Contract!Answer
              /\ Contract!Promised(AskedBy(r), AnswerTo(r)')
              /\ AskedBy(r)' = AskedBy(r)
              => Contract!Reply(r)
           /\ AskedBy(r)' = AskedBy(r) /\ AnswerTo(r)' = AnswerTo(r)
              => UNCHANGED Contract!vars
<1> DEFINE asked == [s \in Request |-> AskedBy(s)]
           answer == [s \in Request |-> AnswerTo(s)]
<1>1. AskedBy(r)' \in Traffic => \E i \in Traffic : asked' = [asked EXCEPT ![r] = i]
  OBVIOUS
<1>2. AskedBy(r)' = AskedBy(r) => asked' = asked
  OBVIOUS
<1>3. answer' = [answer EXCEPT ![r] = AnswerTo(r)']
  OBVIOUS
<1>4. AnswerTo(r)' = AnswerTo(r) => answer' = answer
  OBVIOUS
<1>5. asked[r] = AskedBy(r) /\ answer[r] = AnswerTo(r) /\ answer'[r] = AnswerTo(r)'
  OBVIOUS
<1>6. ASSUME AskedBy(r) = NoInput \/ AnswerTo(r) # NoAnswer, AskedBy(r)' \in Traffic,
             AnswerTo(r)' = NoAnswer
      PROVE  Contract!Ask(r)
  BY <1>1, <1>3, <1>5, <1>6 DEF Contract!Ask, AskedBy, AnswerTo, AnswerOf, Policy
<1>7. ASSUME AskedBy(r) # NoInput, AnswerTo(r) = NoAnswer,
             AnswerTo(r)' \in Contract!Answer,
             Contract!Promised(AskedBy(r), AnswerTo(r)'), AskedBy(r)' = AskedBy(r)
      PROVE  Contract!Reply(r)
  BY <1>2, <1>3, <1>5, <1>7 DEF Contract!Reply, AskedBy, AnswerTo, AnswerOf, Policy
<1>8. AskedBy(r)' = AskedBy(r) /\ AnswerTo(r)' = AnswerTo(r) => UNCHANGED Contract!vars
  BY <1>2, <1>4 DEF Contract!vars, AskedBy, AnswerTo, AnswerOf, Policy
<1> QED BY <1>6, <1>7, <1>8

(* The server implements the contract: whatever the other requests do, each *)
(* is answered once and as its content alone allows (ProxyContract).        *)
THEOREM Implements == Spec => ImplementsContract
<1>1. Init => Contract!Init
  <2> SUFFICES ASSUME Init PROVE \A r \in Request : AskedBy(r) = NoInput /\ AnswerTo(r) = NoAnswer
    BY Mapping
  <2> QED BY DEF Init, AskedBy, AnswerTo, FreshRes
<1>2. /\ TypeOK /\ IsolationInv /\ ProgressInv /\ ConformanceInv /\ [Next]_vars
      => [Contract!Next]_(Contract!vars)
  <2> SUFFICES ASSUME TypeOK, IsolationInv, ProgressInv, ConformanceInv, [Next]_vars
               PROVE  Contract!Next \/ UNCHANGED Contract!vars
    OBVIOUS
  <2>1. CASE UNCHANGED vars
    BY <2>1 DEF vars, Contract!vars, Policy
  <2>2. ASSUME NEW r \in Request, Step(r) PROVE Contract!Next \/ UNCHANGED Contract!vars
    <3>1. Contract!Ask(r) \/ Contract!Reply(r) \/ UNCHANGED Contract!vars
      BY <2>2, StepsAreMapped, MappedSteps
    <3> QED BY <3>1 DEF Contract!Next
  <2> QED BY <2>1, <2>2 DEF Next, Step
<1> QED BY <1>1, <1>2, ConformanceInvariant, PTL DEF Spec, ImplementsContract, Contract!Spec

------------------------------------------------------------------------------
(* Public answers.                                                          *)

\* A response when the handler of a public route runs.
PublicFresh ==
    cacheControl(cacheControl(FreshRes, "private, max-age=900"), "public, max-age=900")

\* The error and the answer that a URL and an outcome of upstream lead to.
UrlError(i, outcome) ==
    IF outcome = "none" THEN Handled(i).error
    ELSE GraphQLErrorHandler([outcome |-> outcome, owner |-> Anonymous, headers |-> <<>>],
                             <<>>)

UrlAnswer(i, outcome) ==
    LET e == responseError(UrlError(i, outcome))
    IN  IF outcome = "data"
        THEN send(PublicFresh, PublicFresh.status, "application/json",
                  [NoDocument EXCEPT !.kind = "recommendations", !.owner = Anonymous])
        ELSE send(PublicFresh, e.status, "text/html", e.response)

IsPublicRoute(i) == i.path \in {RecommendationsPath, GlobalRecsPath}

\* The response of a public route is determined at every stage; an answer that is
\* public was made by the handler of the route.
Determined(r) ==
    IsPublicRoute(input[r]) =>
        /\ pc[r] \in {"json", "body", "app", "apiCacheControl"} => res[r] = FreshRes
        /\ pc[r] \in {"router", "routeCacheControl"} =>
             res[r] = cacheControl(FreshRes, "private, max-age=900")
        /\ pc[r] \in {"handler", "upstream", "resume"} => res[r] = PublicFresh
        /\ pc[r] \in {"sentry", "errorHandler"} /\ Public(r) =>
             /\ res[r] = PublicFresh
             /\ reply[r].outcome # "data"
             /\ err[r] = UrlError(input[r], reply[r].outcome)
        /\ pc[r] = "done" /\ Public(r) => res[r] = UrlAnswer(input[r], reply[r].outcome)

DeterminedInv == \A r \in Request : Determined(r)

LEMMA InitDetermined == Init => DeterminedInv
BY DEF Init, DeterminedInv, Determined

LEMMA KeptIsDetermined ==
    ASSUME NEW s \in Request, Determined(s), Kept(s)
    PROVE  Determined(s)'
BY DEF Determined, Kept, Public, Policy

\* An upstream failure makes the same error whatever headers came with it.
LEMMA ErrorsByOutcome ==
    ASSUME NEW a, a.owner = Anonymous, a.outcome # "none"
    PROVE  \A i : GraphQLErrorHandler(a, <<>>) = UrlError(i, a.outcome)
<1> DEFINE b == [outcome |-> a.outcome, owner |-> Anonymous, headers |-> <<>>]
<1>1. a.outcome = b.outcome /\ a.owner = b.owner
  OBVIOUS
<1> HIDE DEF b
<1>2. /\ unauthenticatedErrorHandler(a) = unauthenticatedErrorHandler(b)
      /\ unhandledErrorHandler(a) = unhandledErrorHandler(b)
      /\ isClientError(a) = isClientError(b)
  BY <1>1 DEF unauthenticatedErrorHandler, unhandledErrorHandler, isClientError
<1>3. defaultHandlers(a) = defaultHandlers(b)
  BY <1>2 DEF defaultHandlers
<1> DEFINE pick(isClient, defaults, outcome) ==
             LET allHandlers == <<>> \o defaults
                 first == {n \in DOMAIN allHandlers :
                             /\ allHandlers[n] # NoError
                             /\ \A m \in DOMAIN allHandlers :
                                  m < n => allHandlers[m] = NoError}
             IN  IF ~isClient THEN ProgramError(outcome)
                 ELSE IF first = {} THEN NoError
                 ELSE allHandlers[CHOOSE n \in first : TRUE]
<1>4. /\ GraphQLErrorHandler(a, <<>>) = pick(isClientError(a), defaultHandlers(a), a.outcome)
      /\ GraphQLErrorHandler(b, <<>>) = pick(isClientError(b), defaultHandlers(b), b.outcome)
  BY Zenon DEF GraphQLErrorHandler
<1> HIDE DEF pick
<1>5. GraphQLErrorHandler(a, <<>>) = GraphQLErrorHandler(b, <<>>)
  BY <1>1, <1>2, <1>3, <1>4
<1> QED BY <1>5 DEF UrlError, b

LEMMA StepIsDetermined ==
    ASSUME TypeOK, NEW r \in Request, Isolated(r), Progress(r), Conforms(r),
           Determined(r), Step(r)
    PROVE  Determined(r)'
<1> DEFINE i == input[r]
<1>a. PolicyFollows(r) /\ OnTheWay(r) /\ res[r] \in ExpressResponse
  BY DEF Conforms, TypeOK
<1>1. CASE Receive(r)
  <2>1. pc'[r] = "json" /\ res'[r] = FreshRes
    BY <1>1 DEF Receive, Goto, TypeOK
  <2> QED BY <2>1 DEF Determined
<1>2. CASE NoBodyToParse(r) \/ AwaitBody(r) \/ ParseBody(r) \/ WebSessionAuthHandler(r)
  <2>1. /\ UNCHANGED <<input, res, reply, err>>
        /\ pc[r] \in {"json", "body", "app"}
        /\ pc'[r] \in {"body", "app", "apiCacheControl"}
    BY <1>2 DEF NoBodyToParse, AwaitBody, ParseBody, WebSessionAuthHandler, Runs, Goto, TypeOK
  <2> QED BY <2>1 DEF Determined
<1>3. CASE ApiCacheControl(r)
  <2>1. /\ UNCHANGED <<input, reply, err>> /\ pc[r] = "apiCacheControl" /\ pc'[r] = "router"
        /\ res'[r] = cacheControl(res[r], "private, max-age=900")
    BY <1>3 DEF ApiCacheControl, Runs, Goto, TypeOK
  <2> QED BY <2>1 DEF Determined
<1>4. CASE AcceptConsumerKey(r)
  <2>1. /\ UNCHANGED <<input, res, reply, err>> /\ pc[r] = "router"
        /\ pc'[r] = IF i.path = RecentSavesPath THEN "handler" ELSE "routeCacheControl"
    BY <1>4 DEF AcceptConsumerKey, Runs, Goto, TypeOK
  <2>2. IsPublicRoute(i) => i.path # RecentSavesPath
    BY DEF IsPublicRoute, RecentSavesPath, RecommendationsPath, GlobalRecsPath
  <2> QED BY <2>1, <2>2 DEF Determined
<1>5. CASE RouteCacheControl(r)
  <2>1. /\ UNCHANGED <<input, reply, err>>
        /\ pc[r] = "routeCacheControl" /\ pc'[r] = "handler"
        /\ res'[r] = cacheControl(res[r], "public, max-age=900")
    BY <1>5 DEF RouteCacheControl, Runs, Goto, TypeOK
  <2> QED BY <2>1 DEF Determined, PublicFresh
<1>6. CASE \/ RequestRecentSaves(r) \/ RequestRecommendations(r) \/ UpstreamSettles(r)
  <2>1. /\ UNCHANGED <<input, res, err>> /\ pc[r] \in {"handler", "upstream"}
        /\ pc'[r] \in {"upstream", "middleware", "resume"}
    BY <1>6 DEF RequestRecentSaves, RequestRecommendations, RequestUpstream,
                UpstreamSettles, Runs, Goto, TypeOK
  <2> QED BY <2>1 DEF Determined
<1>7. CASE ForwardHeaders(r)
  <2>1. pc[r] = "middleware" /\ UNCHANGED input
    BY <1>7 DEF ForwardHeaders
  <2>2. ~IsPublicRoute(i)
    BY <2>1 DEF Isolated, OtherRoutesAreAnonymous, IsPublicRoute, RecentSavesPath,
                RecommendationsPath, GlobalRecsPath
  <2> QED BY <2>1, <2>2 DEF Determined
<1>8. CASE RejectBody(r) \/ NotFoundHandler(r) \/ RejectConsumerKey(r)
  <2>1. /\ UNCHANGED <<input, res>> /\ pc[r] \in {"body", "app", "router"}
        /\ pc'[r] = "sentry"
    BY <1>8 DEF RejectBody, NotFoundHandler, RejectConsumerKey, Fail, Runs, Goto, TypeOK
  <2>2. Policy(r).text # "public, max-age=900"
    BY <1>a, <2>1 DEF PolicyFollows, CachedText
  <2>3. Policy(r)' = Policy(r)
    BY <2>1 DEF Policy
  <2>4. OwnHeader("public, max-age=900").text = "public, max-age=900"
    BY DEF OwnHeader
  <2>5. ~Public(r)'
    BY <2>2, <2>3, <2>4 DEF Public
  <2> QED BY <2>1, <2>5 DEF Determined
<1>9. CASE RejectParameters(r)
  <2>1. /\ UNCHANGED <<input, res, reply>> /\ pc[r] = "handler" /\ pc'[r] = "sentry"
        /\ err'[r] = Handled(i).error
    BY <1>9 DEF RejectParameters, Fail, Runs, Goto, TypeOK
  <2>2. reply[r].outcome = "none"
    BY <2>1 DEF Isolated, NoReplyBeforeTheCallSettles, SyncStates, NoReply
  <2> QED BY <2>1, <2>2 DEF Determined, UrlError
<1>10. CASE CatchError(r)
  <2>1. /\ UNCHANGED <<input, res, reply>> /\ pc[r] = "resume" /\ pc'[r] \in {"sentry", "hung"}
        /\ reply[r].outcome # "data"
        /\ err'[r] = GraphQLErrorHandler(reply[r], <<>>)
    BY <1>10 DEF CatchError, Goto, TypeOK
  <2>2. reply[r].outcome # "none"
    BY <1>a, <2>1 DEF OnTheWay
  <2>3. IsPublicRoute(i) => reply[r].owner = Anonymous
    BY DEF Isolated, OtherRoutesAreAnonymous, IsPublicRoute, RecentSavesPath,
           RecommendationsPath, GlobalRecsPath
  <2>4. IsPublicRoute(i) => err'[r] = UrlError(i, reply[r].outcome)
    BY <2>1, <2>2, <2>3, ErrorsByOutcome
  <2> QED BY <2>1, <2>4 DEF Determined
<1>11. CASE SentryErrorHandler(r)
  <2>1. /\ UNCHANGED <<input, res, reply, err>> /\ pc[r] = "sentry" /\ pc'[r] = "errorHandler"
    BY <1>11 DEF SentryErrorHandler, Runs, Goto, TypeOK
  <2> QED BY <2>1 DEF Determined, Public, Policy
<1>12. CASE ErrorHandler(r)
  <2> DEFINE e == responseError(err[r])
  <2>1. /\ UNCHANGED <<input, reply>> /\ pc[r] = "errorHandler" /\ pc'[r] = "done"
        /\ res'[r] = send(res[r], e.status, "text/html", e.response)
    BY <1>12 DEF ErrorHandler, Answer, Runs, Goto, TypeOK
  <2>2. Policy(r)' = Policy(r)
    BY <1>a, <2>1, ResponseOperators DEF Policy
  <2>3. Public(r)' => Public(r)
    BY <2>2 DEF Public
  <2> QED BY <2>1, <2>3 DEF Determined, UrlAnswer
<1>13. CASE ServerHealth(r)
  <2>1. UNCHANGED input /\ i.path = HealthPath
    BY <1>13 DEF ServerHealth, IsHealthCheck
  <2>2. ~IsPublicRoute(i)
    BY <2>1 DEF IsPublicRoute, HealthPath, RecommendationsPath, GlobalRecsPath
  <2> QED BY <2>1, <2>2 DEF Determined
<1>14. CASE RespondWithData(r)
  <2>1. /\ UNCHANGED <<input, reply>> /\ pc[r] = "resume" /\ pc'[r] = "done"
        /\ reply[r].outcome = "data"
        /\ res'[r] = send(res[r], res[r].status, "application/json",
             [NoDocument EXCEPT !.kind = DataKind(call[r].graph), !.owner = reply[r].owner])
    BY <1>14 DEF RespondWithData, Answer, Goto, TypeOK
  <2>2. IsPublicRoute(i) => reply[r].owner = Anonymous /\ call[r].graph # "web"
    BY DEF Isolated, OtherRoutesAreAnonymous, IsPublicRoute, RecentSavesPath,
           RecommendationsPath, GlobalRecsPath
  <2> QED BY <2>1, <2>2 DEF Determined, UrlAnswer, DataKind
<1> QED BY <1>1, <1>2, <1>3, <1>4, <1>5, <1>6, <1>7, <1>8, <1>9, <1>10, <1>11, <1>12,
           <1>13, <1>14 DEF Step, Sync, Wake

LEMMA NextDetermined ==
    TypeOK /\ IsolationInv /\ ProgressInv /\ ConformanceInv /\ DeterminedInv /\ [Next]_vars
      => DeterminedInv'
<1> SUFFICES ASSUME TypeOK, IsolationInv, ProgressInv, ConformanceInv, DeterminedInv,
                    [Next]_vars, NEW s \in Request
             PROVE  Determined(s)'
  BY DEF DeterminedInv
<1>1. Isolated(s) /\ Progress(s) /\ Conforms(s) /\ Determined(s)
  BY DEF IsolationInv, ProgressInv, ConformanceInv, DeterminedInv
<1>2. CASE UNCHANGED vars
  BY <1>1, <1>2, KeptIsDetermined DEF vars, Kept
<1>3. ASSUME NEW r \in Request, Step(r) PROVE Determined(s)'
  <2>1. CASE r = s
    BY <1>1, <1>3, <2>1, StepIsDetermined
  <2>2. CASE r # s
    <3>1. Kept(s)
      BY <1>3, <2>2, OthersAreKept
    <3> QED BY <1>1, <3>1, KeptIsDetermined
  <2> QED BY <2>1, <2>2
<1> QED BY <1>2, <1>3 DEF Next, Step

(* Whatever else happens, public answers for a URL are the same where       *)
(* upstream replied the same: a shared cache may keep one for every client  *)
(* (api/desktop/recommendations and api/v3, index.ts:17-30).                *)
THEOREM PublicByUrl == Spec => []PublicDependsOnTheUrlAlone
<1> DEFINE Inv == TypeOK /\ IsolationInv /\ ProgressInv /\ ConformanceInv /\ DeterminedInv
<1>1. Init => Inv
  BY InitType, InitIsolated, InitProgress, InitConforms, InitDetermined
<1>2. Inv /\ [Next]_vars => Inv'
  BY NextType, NextIsolated, NextProgress, NextConforms, NextDetermined
<1>3. Inv => PublicDependsOnTheUrlAlone
  <2>1. ASSUME Inv, NEW r \in Request, Answered(r), Public(r)
        PROVE  res[r] = UrlAnswer(input[r], reply[r].outcome)
    <3> DEFINE i == input[r]
               a == AnswerOf(res[r])
    <3>1. /\ PromisedHere(i, a) /\ pc[r] = "done" /\ i.path # RecentSavesPath
          /\ Determined(r)
      BY <2>1, Promises
         DEF ConformanceInv, Conforms, AnswersArePromised, Answered, ProgressInv, Progress,
             AnsweredIsDone, IsolationInv, Isolated, SavesAreNeverPublic, DeterminedInv
    <3>2. a.policy = "public, max-age=900"
      <4>1. OwnHeader("public, max-age=900").text = "public, max-age=900"
        BY DEF OwnHeader
      <4>2. Policy(r).text = "public, max-age=900"
        BY <2>1, <4>1 DEF Public
      <4> QED BY <4>2 DEF AnswerOf, Policy
    <3>3. IsRouted(i)
      <4> HIDE DEF i, a
      <4> QED BY <3>1, <3>2 DEF PromisedHere, CachedText
    <3>4. IsPublicRoute(i)
      BY <3>1, <3>3 DEF IsRouted, RoutePaths, IsPublicRoute
    <3> QED BY <2>1, <3>1, <3>4 DEF Determined
  <2>2. ASSUME NEW i, NEW j, i.path = j.path, i.query = j.query, NEW outcome
        PROVE  UrlAnswer(i, outcome) = UrlAnswer(j, outcome)
    <3>1. Handled(i) = Handled(j)
      BY <2>2 DEF Handled, route
    <3>2. UrlError(i, outcome) = UrlError(j, outcome)
      BY <3>1 DEF UrlError
    <3> QED BY <3>2 DEF UrlAnswer
  <2> HIDE DEF Inv
  <2> QED BY <2>1, <2>2 DEF PublicDependsOnTheUrlAlone
<1> QED BY <1>1, <1>2, <1>3, PTL DEF Spec

------------------------------------------------------------------------------
(* Every request gets on.                                                   *)

\* The ways from a handler to the next one.
Leads(from, to) ==
    \/ from \in {"idle", "done"} /\ to = "json"
    \/ from = "json" /\ to \in {"body", "app"}
    \/ from = "body" /\ to \in {"app", "sentry"}
    \/ from = "app" /\ to \in {"apiCacheControl", "sentry", "done"}
    \/ from = "apiCacheControl" /\ to = "router"
    \/ from = "router" /\ to \in {"routeCacheControl", "handler", "sentry"}
    \/ from = "routeCacheControl" /\ to = "handler"
    \/ from = "handler" /\ to \in {"upstream", "sentry"}
    \/ from = "upstream" /\ to \in {"middleware", "resume"}
    \/ from = "middleware" /\ to = "resume"
    \/ from = "resume" /\ to \in {"sentry", "done"}
    \/ from = "sentry" /\ to = "errorHandler"
    \/ from = "errorHandler" /\ to = "done"

\* Each handler hands a request over to a later one, on the stack or off it; it never
\* touches the place of another request on the stack.
LEMMA HandlersLead ==
    ASSUME TypeOK, NEW r \in Request, Step(r), pc'[r] # "hung"
    PROVE  /\ Leads(pc[r], pc'[r])
           /\ \/ UNCHANGED running /\ pc[r] = "upstream"
              \/ /\ running \in {r, Nobody}
                 /\ running' = IF pc'[r] \in SyncStates THEN r ELSE Nobody
<1> USE DEF TypeOK, Goto, Fail, Runs, Answer, SyncStates, Leads
<1>1. CASE Receive(r)
  BY <1>1 DEF Receive
<1>2. CASE NoBodyToParse(r)
  BY <1>2 DEF NoBodyToParse
<1>3. CASE AwaitBody(r)
  BY <1>3 DEF AwaitBody
<1>4. CASE ParseBody(r)
  BY <1>4 DEF ParseBody
<1>5. CASE RejectBody(r)
  BY <1>5 DEF RejectBody
<1>6. CASE ServerHealth(r)
  BY <1>6 DEF ServerHealth
<1>7. CASE WebSessionAuthHandler(r)
  BY <1>7 DEF WebSessionAuthHandler
<1>8. CASE ApiCacheControl(r)
  <2>1. /\ running = r /\ pc[r] = "apiCacheControl" /\ UNCHANGED running
        /\ pc' = [pc EXCEPT ![r] = "router"]
    BY <1>8, Zenon DEF ApiCacheControl
  <2> QED BY <2>1
<1>9. CASE NotFoundHandler(r)
  BY <1>9 DEF NotFoundHandler
<1>10. CASE RejectConsumerKey(r)
  <2>1. /\ running = r /\ pc[r] = "router" /\ UNCHANGED running
        /\ pc' = [pc EXCEPT ![r] = "sentry"]
    BY <1>10, Zenon DEF RejectConsumerKey
  <2> QED BY <2>1
<1>11. CASE AcceptConsumerKey(r)
  BY <1>11 DEF AcceptConsumerKey
<1>12. CASE RouteCacheControl(r)
  <2>1. /\ running = r /\ pc[r] = "routeCacheControl" /\ UNCHANGED running
        /\ pc' = [pc EXCEPT ![r] = "handler"]
    BY <1>12, Zenon DEF RouteCacheControl
  <2> QED BY <2>1
<1>13. CASE RejectParameters(r)
  BY <1>13 DEF RejectParameters
<1>14. CASE RequestRecentSaves(r)
  BY <1>14 DEF RequestRecentSaves, RequestUpstream
<1>15. CASE RequestRecommendations(r)
  BY <1>15 DEF RequestRecommendations, RequestUpstream
<1>16. CASE UpstreamSettles(r)
  BY <1>16 DEF UpstreamSettles
<1>17. CASE ForwardHeaders(r)
  BY <1>17 DEF ForwardHeaders
<1>18. CASE RespondWithData(r)
  BY <1>18 DEF RespondWithData
<1>19. CASE CatchError(r)
  BY <1>19 DEF CatchError
<1>20. CASE SentryErrorHandler(r)
  BY <1>20 DEF SentryErrorHandler
<1>21. CASE ErrorHandler(r)
  BY <1>21 DEF ErrorHandler
<1> QED BY <1>1, <1>2, <1>3, <1>4, <1>5, <1>6, <1>7, <1>8, <1>9, <1>10, <1>11,
           <1>12, <1>13, <1>14, <1>15, <1>16, <1>17, <1>18, <1>19, <1>20, <1>21
        DEF Step, Sync, Wake

(* No request is forgotten: one that is on the stack goes on or waits for   *)
(* its body or its call, and one that waits for its turn can have it, since *)
(* nobody who waits keeps the stack (the catch of every route,              *)
(* graphQLErrorHandler.ts:157-189).                                         *)
THEOREM NobodyForgotten == Spec => []NobodyIsForgotten
<1>1. Init => NobodyIsForgotten
  BY ProxyAssumption DEF Init, NobodyIsForgotten, SyncStates
<1>2. /\ TypeOK /\ ConformanceInv' /\ NobodyIsForgotten /\ [Next]_vars
      => NobodyIsForgotten'
  <2> SUFFICES ASSUME TypeOK, ConformanceInv', NobodyIsForgotten, [Next]_vars,
                      NEW s \in Request
               PROVE  pc'[s] # "hung" /\ (pc'[s] \in SyncStates <=> running' = s)
    BY DEF NobodyIsForgotten
  <2>1. pc'[s] # "hung"
    BY DEF ConformanceInv, Conforms, OnTheWay
  <2>2. CASE UNCHANGED vars
    BY <2>1, <2>2 DEF vars, NobodyIsForgotten
  <2>3. ASSUME NEW r \in Request, Step(r) PROVE pc'[s] \in SyncStates <=> running' = s
    <3>1. pc'[r] # "hung" /\ (pc[r] \in SyncStates <=> running = r)
      BY DEF ConformanceInv, Conforms, OnTheWay, NobodyIsForgotten
    <3>2. /\ Leads(pc[r], pc'[r])
          /\ \/ UNCHANGED running /\ pc[r] = "upstream"
             \/ /\ running \in {r, Nobody}
                /\ running' = IF pc'[r] \in SyncStates THEN r ELSE Nobody
      BY <2>3, <3>1, HandlersLead
    <3>3. CASE r = s
      BY <3>1, <3>2, <3>3, ProxyAssumption DEF SyncStates, Leads
    <3>4. CASE r # s
      <4>1. pc'[s] = pc[s]
        BY <2>3, <3>4, OthersAreKept DEF Kept
      <4>2. running' = s <=> running = s
        BY <3>2, <3>4, ProxyAssumption
      <4> QED BY <4>1, <4>2 DEF NobodyIsForgotten
    <3> QED BY <3>3, <3>4
  <2> QED BY <2>1, <2>2, <2>3 DEF Next, Step
<1> QED BY <1>1, <1>2, ConformanceInvariant, PTL DEF Spec

(* Every step brings one request nearer to its answer and leaves the others *)
(* alone, whatever they are: what is left to liveness is that steps happen  *)
(* (server.ts:131-205, the routes' index.ts).                               *)
THEOREM StepsAreProgress == Spec => EveryStepIsProgress
<1> DEFINE Advances(r) == \/ Stage[pc'[r]] > Stage[pc[r]]
                          \/ pc[r] \in {"idle", "done"} /\ pc'[r] = "json"
<1>1. TypeOK /\ ConformanceInv' /\ [Next]_vars =>
        [\E r \in Request :
           /\ \A s \in Request \ {r} : Untouched(s)
           /\ Advances(r)]_vars
  <2> SUFFICES ASSUME TypeOK, ConformanceInv', NEW r \in Request, Step(r)
               PROVE  /\ \A s \in Request \ {r} : Untouched(s)
                      /\ Advances(r)
    BY DEF Next, Step
  <2>1. pc'[r] # "hung"
    BY DEF ConformanceInv, Conforms, OnTheWay
  <2>2. \A s \in Request \ {r} : Untouched(s)
    BY OthersAreKept DEF Kept, Untouched
  <2>3. Leads(pc[r], pc'[r])
    BY <2>1, HandlersLead
  <2>4. Advances(r)
    BY <2>3 DEF Leads, Stage
  <2> QED BY <2>2, <2>4
<1> QED BY <1>1, ConformanceInvariant, PTL DEF Spec, EveryStepIsProgress
==============================================================================
