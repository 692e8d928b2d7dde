-------------------------- MODULE ProxyServer_proofs --------------------------
(***************************************************************************)
(* Proofs about ProxyServer, for any requests, users, traffic, upstream    *)
(* headers and string conversions.                                         *)
(***************************************************************************)
EXTENDS ProxyProperties, ProxyInputs_proofs

------------------------------------------------------------------------------
(* Types of the operators the actions are built from.                       *)

\* Whatever the query, a route's handleQueryParameters gives variables and an
\* error, which is NoError when the query is accepted.
LEMMA HandledTypes ==
    ASSUME NEW i \in Input, i.path \in RoutePaths
    PROVE  Handled(i).variables \in Variables /\ Handled(i).error \in Error
<1>1. i.query \in Query
  BY DEF Input
<1>2. route(i) \in {"recent-saves", "recommendations", "global-recs"}
  BY DEF route, RoutePaths, RecentSavesPath, RecommendationsPath, GlobalRecsPath
<1> QED BY <1>1, <1>2, QueryTypes DEF Handled

\* The document of an error is that of the error itself or of the default.
LEMMA ResponseErrorTypes ==
    ASSUME NEW e \in Error
    PROVE  responseError(e) \in Error
BY ErrorTypes DEF responseError

LEMMA FreshTypes ==
    /\ NoCookies \in Cookies
    /\ FreshReq \in ExpressRequest
    /\ FreshRes \in ExpressResponse
    /\ NoClient \in Client
    /\ NoCall \in Call
    /\ NoReply \in Reply
<1>1. NoCookies \in Cookies
  BY DEF Cookies
<1>2. NoAuth \in Auth
  BY <1>1 DEF NoAuth, Auth
<1>3. FreshReq \in ExpressRequest
  BY <1>2 DEF FreshReq, ExpressRequest, Tag
<1>4. NoHeader \in HeaderValue
  BY DEF NoHeader, HeaderValue, ProxyText
<1>5. FreshRes \in ExpressResponse
  BY <1>4, ErrorTypes DEF FreshRes, ExpressResponse
<1>6. NoClient \in Client
  BY <1>1 DEF NoClient, Client
<1>7. NoVariables \in Variables
  BY TextsAssumption DEF NoVariables, Variables
<1>8. NoCall \in Call
  BY <1>6, <1>7 DEF NoCall, Call
<1>9. NoReply \in Reply
  BY OwnerAssumption DEF NoReply, Reply, ReplyOutcome
<1> QED BY <1>1, <1>3, <1>5, <1>6, <1>8, <1>9

LEMMA UserTagsType ==
    ASSUME NEW a \in Auth
    PROVE  userTags(a) \in Tag
BY DEF userTags, Tag, Auth, Cookies, NoCookies

LEMMA SendType ==
    ASSUME NEW x \in ExpressResponse, NEW status \in Nat,
           NEW t \in {"text/html", "application/json"}, NEW d \in Document
    PROVE  send(x, status, t, d) \in ExpressResponse
<1>1. OwnHeader(t) \in HeaderValue
  BY DEF OwnHeader, HeaderValue, ProxyText
<1>2. x.sends + 1 \in Nat
  BY DEF ExpressResponse
<1> DEFINE h == [x.headers EXCEPT !["content-type"] = IF @ = NoHeader THEN OwnHeader(t) ELSE @]
<1>3. h \in [HeaderName -> HeaderValue]
  BY <1>1 DEF ExpressResponse
<1>4. send(x, status, t, d)
        = [x EXCEPT !.status = status, !.headers = h, !.body = d, !.sent = TRUE,
                    !.sends = x.sends + 1]
  BY DEF send, ExpressResponse
<1> HIDE DEF h
<1> QED BY <1>2, <1>3, <1>4 DEF ExpressResponse

LEMMA CacheControlType ==
    ASSUME NEW x \in ExpressResponse,
           NEW policy \in {"private, max-age=900", "public, max-age=900"}
    PROVE  cacheControl(x, policy) \in ExpressResponse
<1>1. OwnHeader(policy) \in HeaderValue
  BY DEF OwnHeader, HeaderValue, ProxyText
<1> QED BY <1>1, ProxyAssumption DEF cacheControl, set, ExpressResponse

LEMMA ForwardHeadersType ==
    ASSUME NEW x \in ExpressResponse, NEW o \in Owner,
           NEW u \in Seq([name : HeaderName, text : UpstreamText])
    PROVE  forwardHeaders(x, u, o) \in ExpressResponse
<1>1. \A n \in DOMAIN u : [from |-> o, text |-> u[n].text] \in HeaderValue
  <2> TAKE n \in DOMAIN u
  <2> DEFINE Header == [name : HeaderName, text : UpstreamText]
  <2>1. u \in Seq(Header)
    OBVIOUS
  <2> HIDE DEF Header
  <2>2. u[n] \in Header
    BY <2>1
  <2>3. u[n].text \in UpstreamText
    BY <2>2 DEF Header
  <2> QED BY <2>3 DEF HeaderValue
<1> QED BY <1>1 DEF forwardHeaders, ExpressResponse

LEMMA ClientTypes ==
    ASSUME NEW r \in Request, NEW k \in Value \cup {Absent}
    PROVE  /\ webProxyClient(r, k) \in Client
           /\ recommendationsClient \in Client
           /\ \A c \in Client, a \in Auth : authenticateClient(a, c) \in Client
<1>1. \A c \in Client, a \in Auth : authenticateClient(a, c) \in Client
  BY DEF authenticateClient, Client, Auth
<1> QED BY <1>1, FreshTypes DEF webProxyClient, recommendationsClient, Client

\* A route that passes no handlers of its own has the default ones.
LEMMA NoHandlersOfItsOwn ==
    ASSUME NEW a
    PROVE  <<>> \o defaultHandlers(a) = defaultHandlers(a)
<1> DEFINE Handlers == {unauthenticatedErrorHandler(a), unhandledErrorHandler(a)}
<1>1. defaultHandlers(a) \in Seq(Handlers)
  BY DEF defaultHandlers
<1> QED BY <1>1, ConcatEmptySeq

LEMMA GraphQLErrorTypes ==
    ASSUME NEW a \in Reply, a.outcome # "data"
    PROVE  GraphQLErrorHandler(a, <<>>) \in Error
<1>1. a.owner \in Owner
  BY DEF Reply
<1>2. unauthenticatedErrorHandler(a) \in Error
  <2>1. /\ "encountered UNAUTHENTICATED error upstream" \in Message
        /\ 401 \in Nat /\ "cd7495a6" \in Id
    BY DEF Message, Id
  <2>2. BFFFxErrorQuoting("encountered UNAUTHENTICATED error upstream", 401,
                           "cd7495a6", a.owner) \in Error
    BY ONLY <2>1, <1>1, ErrorTypes
  <2> QED BY <2>2, ErrorTypes DEF unauthenticatedErrorHandler
<1>3. unhandledErrorHandler(a) \in Error
  <2>1. /\ "Encountered unknown error upstream" \in Message
        /\ 502 \in Nat /\ "5eb9b295" \in Id
    BY DEF Message, Id
  <2> QED BY ONLY <2>1, <1>1, ErrorTypes DEF unhandledErrorHandler
<1>4. \A n \in DOMAIN defaultHandlers(a) : defaultHandlers(a)[n] \in Error
  BY <1>2, <1>3 DEF defaultHandlers
<1>5. ~isClientError(a) => ProgramError(a.outcome) \in Error
  BY ErrorTypes DEF isClientError, Reply, ReplyOutcome, Exception
<1> QED BY <1>4, <1>5, ErrorTypes, NoHandlersOfItsOwn DEF GraphQLErrorHandler

------------------------------------------------------------------------------
(* The contract, in the terms of the server.                                *)

\* The policy of a handler, as a client sees it.
CachedText(policy) == IF environment = "development" THEN "none" ELSE policy

RoutePolicy(i) ==
    IF i.path = RecentSavesPath THEN "private, max-age=900" ELSE "public, max-age=900"

\* What a client is answered by a response, and by an error under a policy.
AnswerOf(x) ==
    [status |-> x.status, kind |-> x.body.kind, id |-> x.body.id, owner |-> x.body.owner,
     policy |-> x.headers["cache-control"].text]
ErrorAnswer(error, policy) ==
    LET e == responseError(error)
    IN  [status |-> e.status, kind |-> e.response.kind, id |-> e.response.id,
         owner |-> e.response.owner, policy |-> policy]

\* The promise to a request that reaches the handler of its route.
PromisedForRoute(i, a) ==
    /\ a.policy = CachedText(RoutePolicy(i))
    /\ IF Handled(i).error # NoError
       THEN IF i.path = RecentSavesPath
            THEN Contract!IsError(a, 400, "3f262c60", {Anonymous})
            ELSE Contract!IsError(a, 404, "82868c64", {Anonymous})
       ELSE \/ IF i.path = RecentSavesPath
               THEN /\ Session(i.cookies) # Anonymous
                    /\ a.status = 200 /\ a.kind = "saves" /\ a.owner = Session(i.cookies)
               ELSE a.status = 200 /\ a.kind = "recommendations" /\ a.owner = Anonymous
            \/ Contract!IsUpstreamFailure(a,
                 IF i.path = RecentSavesPath THEN {Anonymous, i.cookies.user}
                 ELSE {Anonymous})

LEMMA ContractPaths ==
    /\ Contract!RecentSavesPath = RecentSavesPath
    /\ Contract!RecommendationsPath = RecommendationsPath
    /\ Contract!GlobalRecsPath = GlobalRecsPath
    /\ Contract!RoutePaths = RoutePaths
    /\ Contract!MountedPaths = MountedPaths
    /\ Contract!HealthPath = HealthPath
BY DEF Contract!RecentSavesPath, RecentSavesPath, Contract!RecommendationsPath,
       RecommendationsPath, Contract!GlobalRecsPath, GlobalRecsPath,
       Contract!RoutePaths, RoutePaths, Contract!MountedPaths, MountedPaths,
       Contract!HealthPath, HealthPath

LEMMA ContractQueries ==
    \A r, q : Contract!handleQueryParameters(r, q) = handleQueryParameters(r, q)
<1>1. Contract!NoError = NoError
  BY DEF Contract!NoError, NoError, Contract!ProgramError, ProgramError,
         Contract!NoDocument, NoDocument
<1>2. \A m, s, id, p : Contract!BFFFxError(m, s, id, p) = BFFFxError(m, s, id, p)
  BY DEF Contract!BFFFxError, BFFFxError, Contract!RestResponseError, RestResponseError
<1>3. \A n, low, high : Contract!InRange(n, low, high) = InRange(n, low, high)
  BY DEF Contract!InRange, InRange
<1>4. \A v : Contract!recentSavesValidate(v) = recentSavesValidate(v)
  BY <1>1, <1>2, <1>3 DEF Contract!recentSavesValidate, recentSavesValidate
<1>5. \A l : Contract!isValidLocale(l) = isValidLocale(l)
  BY DEF Contract!isValidLocale, isValidLocale, Contract!validLocalesSet,
         validLocalesSet, Contract!validLocales, validLocales
<1>6. \A v : Contract!recommendationsValidate(v) = recommendationsValidate(v)
  BY <1>1, <1>2, <1>3, <1>5
     DEF Contract!recommendationsValidate, recommendationsValidate,
         Contract!isValidCount, isValidCount
<1>7. \A v, d : Contract!OrElse(v, d) = OrElse(v, d)
  BY DEF Contract!OrElse, OrElse
<1>8. \A q : /\ Contract!recentSavesCoerced(q) = recentSavesCoerced(q)
             /\ Contract!recommendationsCoerced(q) = recommendationsCoerced(q)
             /\ Contract!globalRecsCoerced(q) = globalRecsCoerced(q)
  BY DEF Contract!recentSavesCoerced, recentSavesCoerced,
         Contract!recommendationsCoerced, recommendationsCoerced,
         Contract!globalRecsCoerced, globalRecsCoerced,
         Contract!NoVariables, NoVariables, Contract!OrElse, OrElse
<1> QED BY <1>4, <1>6, <1>8
        DEF Contract!handleQueryParameters, handleQueryParameters,
            Contract!Outcome, Outcome

LEMMA ContractRequests ==
    ASSUME NEW i
    PROVE  /\ Contract!IsHealthCheck(i) = IsHealthCheck(i)
           /\ Contract!IsRouted(i) = IsRouted(i)
           /\ Contract!HasConsumerKey(i) = HasConsumerKey(i)
           /\ Contract!Handled(i) = Handled(i)
           /\ Contract!Session(i.cookies) = Session(i.cookies)
           /\ Contract!bodyError = bodyError
           /\ Contract!NoError = NoError
<1>1. Contract!Handled(i) = Handled(i)
  BY ContractQueries, ContractPaths DEF Contract!Handled, Handled, Contract!route, route
<1>2. /\ Contract!IsHealthCheck(i) = IsHealthCheck(i)
      /\ Contract!IsRouted(i) = IsRouted(i)
  BY ContractPaths DEF Contract!IsHealthCheck, IsHealthCheck, Contract!IsRouted, IsRouted
<1>3. Contract!HasConsumerKey(i) = HasConsumerKey(i)
  BY DEF Contract!HasConsumerKey, HasConsumerKey, Contract!Truthy, Truthy
<1>4. Contract!Session(i.cookies) = Session(i.cookies)
  BY DEF Contract!Session, Session, Contract!SessionCookies, SessionCookies
<1>5. Contract!bodyError = bodyError /\ Contract!NoError = NoError
  BY DEF Contract!bodyError, bodyError, Contract!NoError, NoError, Contract!ProgramError,
         ProgramError, Contract!NoDocument, NoDocument
<1> QED BY <1>1, <1>2, <1>3, <1>4, <1>5

\* The promise to every request, by how far it gets.
PromisedHere(i, a) ==
    IF i.body \in DOMAIN bodyError
    THEN Contract!IsError(a, 500, "a03b69b9", {Anonymous}) /\ a.policy = "none"
    ELSE IF IsHealthCheck(i)
    THEN a.status = 200 /\ a.kind = "text" /\ a.id = "ok" /\ a.policy = "none"
    ELSE IF ~IsRouted(i)
    THEN /\ Contract!IsError(a, 404, "a5d471c4", {Anonymous})
         /\ a.policy = IF i.path \in MountedPaths THEN CachedText("private, max-age=900")
                       ELSE "none"
    ELSE IF ~HasConsumerKey(i)
    THEN /\ Contract!IsError(a, 401, "810b0a84", {Anonymous})
         /\ a.policy = CachedText("private, max-age=900")
    ELSE PromisedForRoute(i, a)

LEMMA RoutesAreOnTheirOwn ==
    ASSUME NEW i, IsRouted(i)
    PROVE  ~IsHealthCheck(i) /\ i.path \in RoutePaths
BY DEF IsRouted, IsHealthCheck, RoutePaths, RecentSavesPath, RecommendationsPath,
       GlobalRecsPath, HealthPath

LEMMA Promises ==
    ASSUME NEW i, NEW a
    PROVE  Contract!Promised(i, a) <=> PromisedHere(i, a)
<1>r. /\ Contract!IsHealthCheck(i) = IsHealthCheck(i)
      /\ Contract!IsRouted(i) = IsRouted(i)
      /\ Contract!HasConsumerKey(i) = HasConsumerKey(i)
      /\ Contract!Handled(i) = Handled(i)
      /\ Contract!Session(i.cookies) = Session(i.cookies)
      /\ Contract!bodyError = bodyError
      /\ Contract!NoError = NoError
  BY ContractRequests
<1>0. IsRouted(i) => ~IsHealthCheck(i) /\ i.path \in RoutePaths
  BY RoutesAreOnTheirOwn
<1>1. \A p : Contract!IsCached(a, p) <=> a.policy = CachedText(p)
  BY DEF Contract!IsCached, CachedText
<1>2. i.body \in DOMAIN bodyError =>
        (Contract!Promised(i, a) <=>
           Contract!IsError(a, 500, "a03b69b9", {Anonymous}) /\ a.policy = "none")
  BY <1>r DEF Contract!Promised
<1>3. i.body \notin DOMAIN bodyError /\ IsHealthCheck(i) =>
        (Contract!Promised(i, a) <=>
           a.status = 200 /\ a.kind = "text" /\ a.id = "ok" /\ a.policy = "none")
  BY <1>r DEF Contract!Promised
<1>4. i.body \notin DOMAIN bodyError /\ ~IsHealthCheck(i) /\ ~IsRouted(i) =>
        (Contract!Promised(i, a) <=>
           /\ Contract!IsError(a, 404, "a5d471c4", {Anonymous})
           /\ a.policy = IF i.path \in MountedPaths
                         THEN CachedText("private, max-age=900") ELSE "none")
  <2>1. CASE i.path \in MountedPaths
    BY <1>r, <1>1, <2>1, ContractPaths DEF Contract!Promised
  <2>2. CASE i.path \notin MountedPaths
    BY <1>r, <1>1, <2>2, ContractPaths DEF Contract!Promised, CachedText
  <2> QED BY <2>1, <2>2
<1>5. i.body \notin DOMAIN bodyError /\ IsRouted(i) /\ ~HasConsumerKey(i) =>
        (Contract!Promised(i, a) <=>
           /\ Contract!IsError(a, 401, "810b0a84", {Anonymous})
           /\ a.policy = CachedText("private, max-age=900"))
  BY <1>r, <1>0, <1>1 DEF Contract!Promised, Contract!PromisedWithoutKey
<1>6. ASSUME i.body \notin DOMAIN bodyError, IsRouted(i), HasConsumerKey(i)
      PROVE  Contract!Promised(i, a) <=> PromisedForRoute(i, a)
  <2>1. CASE i.path = RecentSavesPath
    <3>1. Contract!Promised(i, a) <=> Contract!PromisedForRecentSaves(i, a)
      BY <1>r, <1>0, <1>6, <2>1, ContractPaths DEF Contract!Promised
    <3> QED BY <1>r, <1>1, <2>1, <3>1
            DEF Contract!PromisedForRecentSaves, PromisedForRoute, RoutePolicy
  <2>2. CASE i.path # RecentSavesPath
    <3>1. Contract!Promised(i, a) <=> Contract!PromisedForRecommendations(i, a)
      BY <1>r, <1>0, <1>6, <2>2, ContractPaths DEF Contract!Promised
    <3> QED BY <1>r, <1>1, <2>2, <3>1
            DEF Contract!PromisedForRecommendations, PromisedForRoute, RoutePolicy
  <2> QED BY <2>1, <2>2
<1> QED BY <1>0, <1>2, <1>3, <1>4, <1>5, <1>6 DEF PromisedHere

------------------------------------------------------------------------------
(* The errors a request may fail with.                                      *)

\* Sentry hears of exactly those errors that a client is told as 5xx.
Reportable(error) ==
    /\ responseError(error).response.kind = "error"
    /\ responseError(error).status >= 400
    /\ shouldHandleError(error) <=> responseError(error).status >= 500

\* An error with a document of its own is told to the client as it is.
RestError(e, status, id, owner) ==
    /\ e.rest
    /\ e.status = status
    /\ e.sentryBehavior = "DEFAULT"
    /\ e.response.kind = "error"
    /\ e.response.id = id
    /\ e.response.owner = owner

LEMMA RestErrorsAreTold ==
    ASSUME NEW e, NEW status \in Nat, status >= 400, NEW id, NEW owner,
           RestError(e, status, id, owner)
    PROVE  /\ e # NoError /\ Reportable(e)
           /\ \A policy : Contract!IsError(ErrorAnswer(e, policy), status, id, {owner})
BY DEF RestError, Reportable, responseError, shouldHandleError, ErrorAnswer,
       Contract!IsError, NoError, ProgramError

LEMMA JsonErrors ==
    /\ \A m, id, ps : /\ RestError(BFFFxError(m, 400, id, ps), 400, id, Anonymous)
                      /\ RestError(BFFFxError(m, 401, id, ps), 401, id, Anonymous)
                      /\ RestError(BFFFxError(m, 404, id, ps), 404, id, Anonymous)
    /\ \A m, id, o : /\ RestError(BFFFxErrorQuoting(m, 401, id, o), 401, id, o)
                     /\ RestError(BFFFxErrorQuoting(m, 502, id, o), 502, id, o)
BY DEF RestError, BFFFxError, BFFFxErrorQuoting, RestResponseError

LEMMA ProgramErrors ==
    ASSUME NEW m
    PROVE  LET e == ProgramError(m)
           IN  /\ Reportable(e)
               /\ \A policy : Contract!IsError(ErrorAnswer(e, policy), 500, "a03b69b9",
                                              {Anonymous})
<1>1. responseError(ProgramError(m)) = defaultError /\ shouldHandleError(ProgramError(m))
  BY DEF ProgramError, responseError, shouldHandleError
<1>2. /\ defaultError.status = 500 /\ defaultError.response.kind = "error"
      /\ defaultError.response.id = "a03b69b9" /\ defaultError.response.owner = Anonymous
  BY DEF defaultError, BFFFxError, RestResponseError
<1> QED BY <1>1, <1>2 DEF Reportable, ErrorAnswer, Contract!IsError

LEMMA HandledErrors ==
    ASSUME NEW i \in Input, i.path \in RoutePaths, Handled(i).error # NoError
    PROVE  LET e == Handled(i).error
           IN  IF i.path = RecentSavesPath THEN RestError(e, 400, "3f262c60", Anonymous)
               ELSE RestError(e, 404, "82868c64", Anonymous)
<1> DEFINE e == Handled(i).error
           m == "input validation failure"
<1>1. CASE i.path = RecentSavesPath
  <2>1. route(i) = "recent-saves"
    BY <1>1 DEF route, RecentSavesPath, RecommendationsPath, GlobalRecsPath
  <2>2. \E v : e = recentSavesValidate(v)
    BY <2>1, Zenon DEF Handled, handleQueryParameters, Outcome
  <2>3. e = BFFFxError(m, 400, "3f262c60", <<"count">>)
    BY <2>2 DEF recentSavesValidate
  <2> HIDE DEF e, m
  <2>4. RestError(e, 400, "3f262c60", Anonymous)
    BY <2>3, JsonErrors
  <2> QED BY <1>1, <2>4 DEF e
<1>2. CASE i.path # RecentSavesPath
  <2>1. \E v : e = recommendationsValidate(v)
    BY <1>2 DEF Handled, route, RoutePaths, RecentSavesPath, RecommendationsPath,
                GlobalRecsPath, handleQueryParameters, Outcome
  <2>2. \E ps : e = BFFFxError(m, 404, "82868c64", ps)
    <3> HIDE DEF e
    <3>1. PICK v : e = recommendationsValidate(v)
      BY <2>1
    <3>2. e # NoError
      BY DEF e
    <3> QED BY <3>1, <3>2, Zenon DEF recommendationsValidate
  <2> HIDE DEF e, m
  <2>3. RestError(e, 404, "82868c64", Anonymous)
    BY <2>2, JsonErrors
  <2> QED BY <1>2, <2>3 DEF e
<1> QED BY <1>1, <1>2

LEMMA UpstreamErrors ==
    ASSUME NEW a \in Reply, a.outcome \notin {"none", "data"}
    PROVE  LET e == GraphQLErrorHandler(a, <<>>)
           IN  /\ e # NoError
               /\ Reportable(e)
               /\ \A policy : Contract!IsUpstreamFailure(ErrorAnswer(e, policy), {a.owner})
<1> DEFINE Upstream(e) ==
      /\ e # NoError
      /\ Reportable(e)
      /\ \A policy : Contract!IsUpstreamFailure(ErrorAnswer(e, policy), {a.owner})
<1>1. a.outcome = "unauthenticated" => Upstream(unauthenticatedErrorHandler(a))
  <2>1. a.outcome = "unauthenticated"
          => RestError(unauthenticatedErrorHandler(a), 401, "cd7495a6", a.owner)
    BY JsonErrors DEF unauthenticatedErrorHandler
  <2>2. \A e : RestError(e, 401, "cd7495a6", a.owner) => Upstream(e)
    BY RestErrorsAreTold DEF Contract!IsUpstreamFailure
  <2> QED BY <2>1, <2>2
<1>2. a.outcome # "unauthenticated" => unauthenticatedErrorHandler(a) = NoError
  BY DEF unauthenticatedErrorHandler
<1>3. Upstream(unhandledErrorHandler(a))
  <2>1. RestError(unhandledErrorHandler(a), 502, "5eb9b295", a.owner)
    BY DEF unhandledErrorHandler, RestError, BFFFxErrorQuoting, RestResponseError
  <2>2. \A e : RestError(e, 502, "5eb9b295", a.owner) => Upstream(e)
    BY RestErrorsAreTold DEF Contract!IsUpstreamFailure
  <2> QED BY <2>1, <2>2
<1>4. Upstream(ProgramError(a.outcome))
  <2>1. ProgramError(a.outcome) # NoError
    BY DEF ProgramError, NoError
  <2> QED BY <2>1, ProgramErrors DEF Contract!IsUpstreamFailure
<1> HIDE DEF Upstream
<1>5. Upstream(GraphQLErrorHandler(a, <<>>))
  <2> DEFINE all == <<>> \o defaultHandlers(a)
             first == {n \in DOMAIN all : /\ all[n] # NoError
                                          /\ \A m \in DOMAIN all : m < n => all[m] = NoError}
  <2>1. DOMAIN all = {1, 2} /\ all[1] = unauthenticatedErrorHandler(a)
          /\ all[2] = unhandledErrorHandler(a)
    BY NoHandlersOfItsOwn DEF defaultHandlers
  <2>2. all[2] # NoError
    BY <2>1, <1>3 DEF Upstream
  <2> HIDE DEF all
  <2>3. first # {}
    <3>1. CASE all[1] = NoError
      <4>1. 2 \in first
        BY <2>1, <2>2, <3>1
      <4> QED BY <4>1
    <3>2. CASE all[1] # NoError
      <4>1. 1 \in first
        BY <2>1, <3>2
      <4> QED BY <4>1
    <3> QED BY <3>1, <3>2
  <2>4. \A n \in first : Upstream(all[n])
    BY <2>1, <1>1, <1>2, <1>3
  <2> HIDE DEF first
  <2>5. Upstream(all[CHOOSE n \in first : TRUE])
    BY <2>3, <2>4
  <2>6. GraphQLErrorHandler(a, <<>>) =
          IF ~isClientError(a) THEN ProgramError(a.outcome)
          ELSE IF first = {} THEN NoError ELSE all[CHOOSE n \in first : TRUE]
    BY Zenon DEF GraphQLErrorHandler, all, first
  <2> QED BY <1>4, <2>3, <2>5, <2>6
<1> QED BY <1>5 DEF Upstream

------------------------------------------------------------------------------
(* Type correctness.                                                        *)

LEMMA InitType == Init => TypeOK
<1> SUFFICES ASSUME Init PROVE TypeOK
  OBVIOUS
<1>1. [method |-> "GET", path |-> "/unknown", body |-> "none", headers |-> {},
       cookies |-> NoCookies, consumer_key |-> Absent,
       query |-> [p \in Parameter |-> Absent]] \in Input
  BY FreshTypes DEF Input, Method, Path, Query
<1> QED BY <1>1, FreshTypes, ErrorTypes DEF Init, TypeOK, AwaitStates

LEMMA NextType == TypeOK /\ IsolationInv /\ [Next]_vars => TypeOK'
<1> SUFFICES ASSUME TypeOK, IsolationInv, [Next]_vars PROVE TypeOK'
  OBVIOUS
<1>r. \A r \in Request : pc[r] = "handler" => input[r].path \in RoutePaths
  BY DEF IsolationInv, Isolated, OnlyRoutedRequestsAreHandled, IsRouted
<1>1. CASE UNCHANGED vars
  BY <1>1 DEF vars, TypeOK
<1>2. ASSUME NEW r \in Request, Receive(r) PROVE TypeOK'
  <2>1. PICK i \in Traffic : input' = [input EXCEPT ![r] = i]
    BY <1>2 DEF Receive
  <2>2. i \in Input
    BY ClientRequestsAssumption
  <2> QED BY <1>2, <2>1, <2>2, FreshTypes, ErrorTypes
          DEF Receive, Goto, TypeOK, SyncStates
<1>3. ASSUME NEW r \in Request, NoBodyToParse(r) \/ AwaitBody(r) \/ ParseBody(r)
      PROVE TypeOK'
  BY <1>3 DEF NoBodyToParse, AwaitBody, ParseBody, Runs, Goto, TypeOK, SyncStates, AwaitStates
<1>4. ASSUME NEW r \in Request, RejectBody(r) PROVE TypeOK'
  <2>1. \A b \in DOMAIN bodyError : ProgramError(bodyError[b]) \in Error
    <3>1. /\ bodyError.malformed \in Exception
          /\ bodyError.aborted \in Exception
      BY DEF Exception, bodyError
    <3>2. DOMAIN bodyError = {"malformed", "aborted"}
      BY DEF bodyError
    <3> QED BY <3>1, <3>2, ErrorTypes
  <2> QED BY <1>4, <2>1 DEF RejectBody, Fail, Goto, TypeOK, SyncStates
<1>5. ASSUME NEW r \in Request, ServerHealth(r) PROVE TypeOK'
  <2>1. [NoDocument EXCEPT !.kind = "text", !.id = "ok"] \in Document
    BY ErrorTypes DEF Document, Kind, Id
  <2>2. res'[r] \in ExpressResponse
    BY <1>5, <2>1, SendType DEF ServerHealth, Answer, TypeOK
  <2>3. res' = [res EXCEPT ![r] = res'[r]]
    BY <1>5 DEF ServerHealth, Answer, TypeOK
  <2> QED BY <1>5, <2>2, <2>3 DEF ServerHealth, Answer, Goto, TypeOK, AwaitStates
<1>6. ASSUME NEW r \in Request, WebSessionAuthHandler(r) PROVE TypeOK'
  <2> DEFINE a == [present |-> TRUE, headers |-> input[r].headers,
                   cookies |-> input[r].cookies]
  <2>1. a \in Auth
    BY DEF TypeOK, Input, Auth
  <2>2. userTags(a) \in Tag
    BY <2>1, UserTagsType
  <2>3. req' = [req EXCEPT ![r].auth = a, ![r].user = userTags(a)]
    BY <1>6 DEF WebSessionAuthHandler
  <2> HIDE DEF a
  <2>4. req' \in [Request -> ExpressRequest]
    BY <2>1, <2>2, <2>3 DEF TypeOK, ExpressRequest
  <2> QED BY <1>6, <2>4 DEF WebSessionAuthHandler, Goto, TypeOK, SyncStates
<1>7. ASSUME NEW r \in Request, ApiCacheControl(r) PROVE TypeOK'
  BY <1>7, CacheControlType DEF ApiCacheControl, Goto, TypeOK, SyncStates
<1>8. ASSUME NEW r \in Request, NotFoundHandler(r) PROVE TypeOK'
  BY <1>8, ErrorTypes DEF NotFoundHandler, Fail, Goto, TypeOK, SyncStates
<1>9. ASSUME NEW r \in Request, RejectConsumerKey(r) PROVE TypeOK'
  <2>1. /\ "request rejected, consumer_key is required" \in Message /\ 401 \in Nat
        /\ "810b0a84" \in Id /\ <<>> \in Faults
    BY DEF Message, Id, Faults
  <2>2. BFFFxError("request rejected, consumer_key is required", 401, "810b0a84", <<>>)
          \in Error
    BY ONLY <2>1, ErrorTypes
  <2> QED BY <1>9, <2>2 DEF RejectConsumerKey, Fail, Goto, TypeOK, SyncStates
<1>10. ASSUME NEW r \in Request, AcceptConsumerKey(r) PROVE TypeOK'
  <2>1. /\ input[r].query.consumer_key \in Value \cup {Absent}
        /\ input[r].consumer_key \in Value \cup {Absent}
    BY DEF TypeOK, Input, Query, Parameter
  <2>2. OrElse(input[r].query.consumer_key, input[r].consumer_key) \in Value \cup {Absent}
    BY <2>1 DEF OrElse
  <2>3. req' \in [Request -> ExpressRequest]
    BY <1>10, <2>2 DEF AcceptConsumerKey, TypeOK, ExpressRequest
  <2> QED BY <1>10, <2>3 DEF AcceptConsumerKey, Goto, TypeOK, SyncStates
<1>11. ASSUME NEW r \in Request, RouteCacheControl(r) PROVE TypeOK'
  BY <1>11, CacheControlType DEF RouteCacheControl, Goto, TypeOK, SyncStates
<1>12. ASSUME NEW r \in Request, RejectParameters(r) PROVE TypeOK'
  <2>1. Handled(input[r]).error \in Error
    BY <1>12, <1>r, HandledTypes DEF TypeOK, RejectParameters, Runs
  <2> QED BY <1>12, <2>1 DEF RejectParameters, Fail, Goto, TypeOK, SyncStates
<1>13. ASSUME NEW r \in Request, NEW graph \in {"web", "client-api"}, NEW c \in Client,
              RequestUpstream(r, graph, c), input[r].path \in RoutePaths
       PROVE TypeOK'
  <2>1. Handled(input[r]).variables \in Variables
    BY <1>13, HandledTypes DEF TypeOK
  <2>2. call[r].times + 1 \in Nat
    BY DEF TypeOK, Call
  <2>3. [graph |-> graph, client |-> c, variables |-> Handled(input[r]).variables,
         times |-> call[r].times + 1] \in Call
    BY <2>1, <2>2 DEF Call
  <2> QED BY <1>13, <2>3 DEF RequestUpstream, Goto, TypeOK, AwaitStates
<1>14. ASSUME NEW r \in Request, RequestRecentSaves(r) PROVE TypeOK'
  <2>1. req[r].auth \in Auth /\ req[r].consumer_key \in Value \cup {Absent}
    BY DEF TypeOK, ExpressRequest
  <2>2. authenticateClient(req[r].auth, webProxyClient(r, req[r].consumer_key)) \in Client
    BY <2>1, ClientTypes
  <2> QED BY <1>13, <1>14, <2>2 DEF RequestRecentSaves, RoutePaths
<1>15. ASSUME NEW r \in Request, RequestRecommendations(r) PROVE TypeOK'
  <2>1. recommendationsClient \in Client
    BY ClientTypes, TextsAssumption
  <2> QED BY <1>13, <1>15, <1>r, <2>1 DEF RequestRecommendations, Runs
<1>16. ASSUME NEW r \in Request, UpstreamSettles(r) PROVE TypeOK'
  <2>1. PICK outcome \in ReplyOutcome \ {"none"}, headers \in UpstreamHeaders :
          reply' = [reply EXCEPT ![r] =
            [outcome |-> outcome, owner |-> call[r].client.cookies.user,
             headers |-> headers]]
    BY <1>16 DEF UpstreamSettles
  <2>2. call[r].client.cookies.user \in Owner
    BY ClientRequestsAssumption DEF TypeOK, Call, Client, Cookies, NoCookies
  <2>3. headers \in Seq([name : HeaderName, text : UpstreamText])
    BY ProxyAssumption
  <2>4. [outcome |-> outcome, owner |-> call[r].client.cookies.user,
         headers |-> headers] \in Reply
    BY <2>2, <2>3 DEF Reply
  <2> QED BY <1>16, <2>1, <2>4 DEF UpstreamSettles, Goto, TypeOK, AwaitStates
<1>17. ASSUME NEW r \in Request, ForwardHeaders(r) PROVE TypeOK'
  <2>1. /\ res[r] \in ExpressResponse /\ reply[r].owner \in Owner
        /\ reply[r].headers \in Seq([name : HeaderName, text : UpstreamText])
    BY DEF TypeOK, Reply
  <2>2. forwardHeaders(res[r], reply[r].headers, reply[r].owner) \in ExpressResponse
    BY <2>1, ForwardHeadersType
  <2>3. res' \in [Request -> ExpressResponse]
    BY <1>17, <2>2 DEF ForwardHeaders, TypeOK
  <2> QED BY <1>17, <2>3 DEF ForwardHeaders, Goto, TypeOK, AwaitStates
<1>18. ASSUME NEW r \in Request, RespondWithData(r) PROVE TypeOK'
  <2> DEFINE d == [NoDocument EXCEPT !.kind = DataKind(call[r].graph),
                                     !.owner = reply[r].owner]
  <2>1. d \in Document
    BY ErrorTypes DEF Document, Kind, DataKind, TypeOK, Reply
  <2>2. res[r] \in ExpressResponse /\ res[r].status \in Nat
    BY DEF TypeOK, ExpressResponse
  <2>3. send(res[r], res[r].status, "application/json", d) \in ExpressResponse
    BY <2>1, <2>2, SendType
  <2>4. res' \in [Request -> ExpressResponse]
    BY <1>18, <2>3 DEF RespondWithData, Answer, TypeOK
  <2> QED BY <1>18, <2>4 DEF RespondWithData, Answer, Goto, TypeOK, AwaitStates
<1>19. ASSUME NEW r \in Request, CatchError(r) PROVE TypeOK'
  <2>1. GraphQLErrorHandler(reply[r], <<>>) \in Error
    BY <1>19, GraphQLErrorTypes DEF CatchError, TypeOK
  <2>2. /\ err' = [err EXCEPT ![r] = GraphQLErrorHandler(reply[r], <<>>)]
        /\ \E there \in {"hung", "sentry"} : pc' = [pc EXCEPT ![r] = there]
        /\ running' \in {Nobody, r}
    BY <1>19 DEF CatchError, Goto
  <2> QED BY <1>19, <2>1, <2>2 DEF CatchError, TypeOK, SyncStates, AwaitStates
<1>20. ASSUME NEW r \in Request, SentryErrorHandler(r) PROVE TypeOK'
  <2>1. [message |-> err[r].message, user |-> req[r].user] \in Event
    BY DEF TypeOK, Error, ExpressRequest, Event
  <2>2. sentry' \in [Request -> Seq(Event)]
    BY <1>20, <2>1 DEF SentryErrorHandler, TypeOK
  <2> QED BY <1>20, <2>2 DEF SentryErrorHandler, Goto, TypeOK, SyncStates
<1>21. ASSUME NEW r \in Request, ErrorHandler(r) PROVE TypeOK'
  <2> DEFINE e == [message |-> err[r].message,
                   user |-> IF req[r].auth.present THEN userTags(req[r].auth)
                            ELSE "none"]
  <2>1. e \in Event
    BY UserTagsType DEF TypeOK, Error, ExpressRequest, Event, Tag
  <2>2. log' = [log EXCEPT ![r] = Append(@, e)]
    BY <1>21 DEF ErrorHandler
  <2> HIDE DEF e
  <2>3. log' \in [Request -> Seq(Event)]
    BY <2>1, <2>2 DEF TypeOK
  <2>4. responseError(err[r]) \in Error
    BY ResponseErrorTypes DEF TypeOK
  <2>5. responseError(err[r]).status \in Nat /\ responseError(err[r]).response \in Document
    BY <2>4 DEF Error
  <2>6. send(res[r], responseError(err[r]).status, "text/html",
             responseError(err[r]).response) \in ExpressResponse
    BY <2>5, SendType DEF TypeOK
  <2>7. res' \in [Request -> ExpressResponse]
    BY <1>21, <2>6 DEF ErrorHandler, Answer, TypeOK
  <2> QED BY <1>21, <2>3, <2>7 DEF ErrorHandler, Answer, Goto, TypeOK, AwaitStates
<1> QED
  BY <1>1, <1>2, <1>3, <1>4, <1>5, <1>6, <1>7, <1>8, <1>9, <1>10, <1>11, <1>12,
     <1>14, <1>15, <1>16, <1>17, <1>18, <1>19, <1>20, <1>21 DEF Next, Sync, Wake
==============================================================================
