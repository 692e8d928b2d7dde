----------------------- MODULE ProxyIsolation_proofs -----------------------
(***************************************************************************)
(* Proofs that requests are isolated from each other: IsolationInv is      *)
(* inductive together with TypeOK, and gives the properties that say whose *)
(* data may be in a response and in a shared cache.                        *)
(***************************************************************************)
EXTENDS ProxyServer_proofs

------------------------------------------------------------------------------
(* What the operators on responses, clients and errors leave alone.         *)

\* The policy of a response is never a header that upstream may set.
LEMMA CacheControlIsNotForwarded == ~doForwardHeader("cache-control")
BY ProxyAssumption
   DEF doForwardHeader, forwardHeaderBlockSet, forwardHeaderBlockList

\* Sending adds nothing but the document and a header of the proxy's own.
LEMMA SendKeeps ==
    ASSUME NEW x \in ExpressResponse, NEW status, NEW t, NEW d
    PROVE  /\ send(x, status, t, d).body = d
           /\ \A h \in HeaderName : send(x, status, t, d).headers[h].from
                                      \in {x.headers[h].from, Proxy}
           /\ send(x, status, t, d).headers["cache-control"] = x.headers["cache-control"]
BY ProxyAssumption DEF send, ExpressResponse, OwnHeader

\* Setting the policy changes nothing but the policy.
LEMMA CacheControlKeeps ==
    ASSUME NEW x \in ExpressResponse, NEW policy
    PROVE  /\ cacheControl(x, policy).body = x.body
           /\ \A h \in HeaderName : cacheControl(x, policy).headers[h].from
                                      \in {x.headers[h].from, Proxy}
           /\ cacheControl(x, policy).headers["cache-control"]
                \in {x.headers["cache-control"], OwnHeader(policy)}
BY ProxyAssumption DEF cacheControl, set, ExpressResponse, OwnHeader

\* The response middleware leaves the body and the policy alone.
LEMMA ForwardHeadersKeeps ==
    ASSUME NEW x \in ExpressResponse, NEW u, NEW o
    PROVE  /\ forwardHeaders(x, u, o).body = x.body
           /\ \A h \in HeaderName : forwardHeaders(x, u, o).headers[h].from
                                      \in {x.headers[h].from, o}
           /\ forwardHeaders(x, u, o).headers["cache-control"]
                = x.headers["cache-control"]
BY ProxyAssumption, CacheControlIsNotForwarded DEF forwardHeaders, ExpressResponse

\* A client carries the cookies of the auth it was given, or none.
LEMMA ClientCookies ==
    ASSUME NEW r \in Request, NEW a \in Auth, NEW k \in Value \cup {Absent}
    PROVE  /\ authenticateClient(a, webProxyClient(r, k)).cookies
                \in {NoCookies, a.cookies}
           /\ recommendationsClient.cookies = NoCookies
           /\ recommendationsClient.headers = {ClientName}
BY DEF authenticateClient, webProxyClient, recommendationsClient

\* An error quotes the upstream reply it was made of, or nothing.
LEMMA GraphQLErrorQuotes ==
    ASSUME NEW a \in Reply
    PROVE  /\ GraphQLErrorHandler(a, <<>>).response.owner \in {Anonymous, a.owner}
           /\ GraphQLErrorHandler(a, <<>>).response.kind # "saves"
<1> DEFINE Quotes(e) == /\ e.response.owner \in {Anonymous, a.owner}
                        /\ e.response.kind # "saves"
<1>1. /\ Quotes(NoError)
      /\ Quotes(ProgramError(a.outcome))
  BY DEF NoError, ProgramError, NoDocument
<1>2. Quotes(unauthenticatedErrorHandler(a))
  BY <1>1 DEF unauthenticatedErrorHandler, BFFFxErrorQuoting, RestResponseError
<1>3. Quotes(unhandledErrorHandler(a))
  BY DEF unhandledErrorHandler, BFFFxErrorQuoting, RestResponseError
<1>4. \A n \in DOMAIN defaultHandlers(a) : Quotes(defaultHandlers(a)[n])
  <2> HIDE DEF Quotes
  <2> QED BY <1>2, <1>3 DEF defaultHandlers
<1>5. Quotes(GraphQLErrorHandler(a, <<>>))
  <2> HIDE DEF Quotes
  <2> QED BY <1>1, <1>4, NoHandlersOfItsOwn DEF GraphQLErrorHandler
<1> QED BY <1>5

LEMMA HandledErrorQuotes ==
    ASSUME NEW i \in Input, i.path \in RoutePaths
    PROVE  /\ Handled(i).error.response.owner = Anonymous
           /\ Handled(i).error.response.kind # "saves"
<1> DEFINE Quotes(e) == e.response.owner = Anonymous /\ e.response.kind # "saves"
<1>1. Quotes(NoError)
  BY DEF NoError, ProgramError, NoDocument
<1>2. \A v : Quotes(recentSavesValidate(v))
  BY <1>1 DEF recentSavesValidate, BFFFxError, RestResponseError
<1>3. \A p : Quotes(BFFFxError("input validation failure", 404, "82868c64", p))
  BY DEF BFFFxError, RestResponseError
<1>4. \A v : Quotes(recommendationsValidate(v))
  <2> TAKE v
  <2> DEFINE d == (IF isValidCount(v.count) THEN <<>> ELSE <<"count">>) \o
                  (IF isValidLocale(v.locale) THEN <<>> ELSE <<"locale">>)
             e == BFFFxError("input validation failure", 404, "82868c64", d)
  <2>1. Quotes(e)
    <3> HIDE DEF d
    <3> QED BY <1>3
  <2>2. recommendationsValidate(v) \in {NoError, e}
    BY DEF recommendationsValidate
  <2> HIDE DEF Quotes, e
  <2> QED BY ONLY <1>1, <2>1, <2>2
<1>5. route(i) \in {"recent-saves", "recommendations", "global-recs"}
  BY DEF route, RoutePaths, RecentSavesPath, RecommendationsPath, GlobalRecsPath
<1>6. Quotes(Handled(i).error)
  <2> HIDE DEF Quotes
  <2> QED BY <1>2, <1>4, <1>5 DEF Handled, handleQueryParameters, Outcome
<1> QED BY <1>6

------------------------------------------------------------------------------
(* A step of one request leaves the slots of the others alone.              *)

Step(r) == Receive(r) \/ Sync(r) \/ ParseBody(r) \/ RejectBody(r)
             \/ UpstreamSettles(r) \/ Wake(r)

Kept(s) ==
    /\ pc'[s] = pc[s]
    /\ input'[s] = input[s]
    /\ req'[s] = req[s]
    /\ res'[s] = res[s]
    /\ client'[s] = client[s]
    /\ call'[s] = call[s]
    /\ reply'[s] = reply[s]
    /\ err'[s] = err[s]
    /\ sentry'[s] = sentry[s]
    /\ log'[s] = log[s]

LEMMA KeptIsIsolated ==
    ASSUME NEW s \in Request, Isolated(s), Kept(s)
    PROVE  Isolated(s)'
BY DEF Isolated, Kept, OnlyRoutedRequestsAreHandled, NoReplyBeforeTheCallSettles,
       OnlyOwnCookies, Own, OnlyWholeSessionsGetSaves, OtherRoutesAreAnonymous,
       SavesAreNeverPublic, Public, Policy

LEMMA OthersAreKept ==
    ASSUME TypeOK, NEW r \in Request, NEW s \in Request \ {r}, Step(r)
    PROVE  Kept(s)
<1> USE DEF TypeOK, Kept, Goto, Fail, Answer
<1>1. Receive(r) => Kept(s)
  BY DEF Receive
<1>2. NoBodyToParse(r) \/ AwaitBody(r) \/ ParseBody(r) \/ RejectBody(r) => Kept(s)
  <2>1. NoBodyToParse(r) => Kept(s)
    BY DEF NoBodyToParse
  <2>2. AwaitBody(r) => Kept(s)
    BY DEF AwaitBody
  <2>3. ParseBody(r) => Kept(s)
    BY DEF ParseBody
  <2>4. RejectBody(r) => Kept(s)
    BY DEF RejectBody
  <2> QED BY <2>1, <2>2, <2>3, <2>4
<1>3. ServerHealth(r) \/ NotFoundHandler(r) \/ RejectConsumerKey(r) => Kept(s)
  <2>1. ServerHealth(r) => Kept(s)
    BY DEF ServerHealth
  <2>2. NotFoundHandler(r) => Kept(s)
    BY DEF NotFoundHandler
  <2>3. RejectConsumerKey(r) => Kept(s)
    BY DEF RejectConsumerKey
  <2> QED BY <2>1, <2>2, <2>3
<1>4. WebSessionAuthHandler(r) \/ AcceptConsumerKey(r) => Kept(s)
  BY DEF WebSessionAuthHandler, AcceptConsumerKey
<1>5. ApiCacheControl(r) \/ RouteCacheControl(r) => Kept(s)
  BY DEF ApiCacheControl, RouteCacheControl
<1>6. RejectParameters(r) => Kept(s)
  BY DEF RejectParameters
<1>7. \A graph, c : RequestUpstream(r, graph, c) => Kept(s)
  BY DEF RequestUpstream
<1>8. RequestRecentSaves(r) \/ RequestRecommendations(r) => Kept(s)
  BY <1>7 DEF RequestRecentSaves, RequestRecommendations
<1>9. UpstreamSettles(r) => Kept(s)
  BY DEF UpstreamSettles
<1>10. ForwardHeaders(r) \/ RespondWithData(r) \/ CatchError(r) => Kept(s)
  <2>1. ForwardHeaders(r) => Kept(s)
    BY DEF ForwardHeaders
  <2>2. RespondWithData(r) => Kept(s)
    BY DEF RespondWithData
  <2>3. CatchError(r) => Kept(s)
    BY DEF CatchError
  <2> QED BY <2>1, <2>2, <2>3
<1>11. SentryErrorHandler(r) \/ ErrorHandler(r) => Kept(s)
  BY DEF SentryErrorHandler, ErrorHandler
<1> QED BY <1>1, <1>2, <1>3, <1>4, <1>5, <1>6, <1>8, <1>9, <1>10, <1>11
        DEF Step, Sync, Wake

------------------------------------------------------------------------------
(* A step of a request keeps its own slot isolated.                         *)

\* An error that quotes nothing can be passed to next() at any point.
LEMMA FailIsIsolated ==
    ASSUME TypeOK, NEW r \in Request, Isolated(r), NEW error,
           error.response.owner = Anonymous, error.response.kind # "saves",
           Fail(r, error), UNCHANGED <<input, req, res, call, reply>>
    PROVE  Isolated(r)'
BY DEF TypeOK, Fail, Goto, SyncStates,
       Isolated, OnlyRoutedRequestsAreHandled, NoReplyBeforeTheCallSettles,
       OnlyOwnCookies, Own, OnlyWholeSessionsGetSaves, OtherRoutesAreAnonymous,
       SavesAreNeverPublic, Public, Policy

LEMMA ResponseStepIsIsolated ==
    ASSUME TypeOK, NEW r \in Request, Isolated(r),
           \/ ServerHealth(r) \/ ApiCacheControl(r) \/ RouteCacheControl(r)
           \/ ForwardHeaders(r) \/ RespondWithData(r) \/ ErrorHandler(r)
    PROVE  Isolated(r)'
<1> DEFINE Accounted ==
      /\ UNCHANGED <<input, req, call, reply, err>>
      /\ \/ pc'[r] \in {"router", "resume", "done"}
         \/ pc'[r] = "handler" /\ pc[r] = "routeCacheControl"
      /\ pc'[r] = "router" => pc[r] = "apiCacheControl"
      /\ res'[r].body.owner \in Own(r)
      /\ res'[r].body.kind = "saves" =>
           /\ Session(input[r].cookies) # Anonymous
           /\ res'[r].body.owner = Session(input[r].cookies)
      /\ \A h \in HeaderName :
           res'[r].headers[h].from \in {res[r].headers[h].from, Proxy, reply[r].owner}
      /\ input[r].path # RecentSavesPath =>
           /\ res'[r].body.owner = Anonymous
           /\ \A h \in HeaderName :
                res'[r].headers[h].from \in {res[r].headers[h].from, Proxy}
      /\ input[r].path = RecentSavesPath =>
           res'[r].headers["cache-control"] \in
             {res[r].headers["cache-control"], OwnHeader("private, max-age=900")}
<1>a. /\ res[r].body.owner \in Own(r) /\ reply[r].owner \in Own(r)
      /\ err[r].response.owner \in Own(r) /\ Anonymous \in Own(r)
      /\ err[r].response.kind # "saves"
  BY DEF Isolated, OnlyOwnCookies, OnlyWholeSessionsGetSaves, Own
<1>b. /\ res[r].body.kind = "saves" =>
           /\ Session(input[r].cookies) # Anonymous
           /\ res[r].body.owner = Session(input[r].cookies)
      /\ reply[r].outcome = "data" /\ call[r].graph = "web" =>
           /\ Session(input[r].cookies) # Anonymous
           /\ reply[r].owner = Session(input[r].cookies)
  BY DEF Isolated, OnlyWholeSessionsGetSaves
<1>c. input[r].path # RecentSavesPath =>
        /\ pc[r] # "middleware" /\ reply[r].owner = Anonymous
        /\ err[r].response.owner = Anonymous /\ res[r].body.owner = Anonymous
  BY DEF Isolated, OtherRoutesAreAnonymous
<1>d. pc[r] = "routeCacheControl" => input[r].path # RecentSavesPath
  BY DEF Isolated, OnlyRoutedRequestsAreHandled
<1>1. ASSUME ServerHealth(r) PROVE Accounted
  <2> DEFINE d == [NoDocument EXCEPT !.kind = "text", !.id = "ok"]
  <2>1. d.owner = Anonymous /\ d.kind = "text"
    BY DEF NoDocument
  <2> HIDE DEF d
  <2>2. res[r] \in ExpressResponse /\ res'[r] = send(res[r], 200, "text/html", d)
    BY <1>1 DEF ServerHealth, Answer, TypeOK, d
  <2>3. /\ pc'[r] = "done"
        /\ UNCHANGED <<input, req, call, reply, err>>
    BY <1>1 DEF ServerHealth, Goto, TypeOK
  <2>4. /\ res'[r].body = d
        /\ \A h \in HeaderName : res'[r].headers[h].from \in {res[r].headers[h].from, Proxy}
        /\ res'[r].headers["cache-control"] = res[r].headers["cache-control"]
    BY <2>2, SendKeeps
  <2> QED BY <2>1, <2>3, <2>4, <1>a, <1>b, <1>c, <1>d
<1>2. ASSUME ApiCacheControl(r) \/ RouteCacheControl(r) PROVE Accounted
  <2>1. /\ res[r] \in ExpressResponse
        /\ UNCHANGED <<input, req, call, reply, err>>
    BY <1>2 DEF ApiCacheControl, RouteCacheControl, TypeOK
  <2>2. CASE ApiCacheControl(r)
    <3>1. /\ pc[r] = "apiCacheControl" /\ pc'[r] = "router"
          /\ res'[r] = cacheControl(res[r], "private, max-age=900")
      BY <2>2 DEF ApiCacheControl, Runs, Goto, TypeOK
    <3>2. /\ res'[r].body = res[r].body
          /\ \A h \in HeaderName :
               res'[r].headers[h].from \in {res[r].headers[h].from, Proxy}
          /\ res'[r].headers["cache-control"] \in
               {res[r].headers["cache-control"], OwnHeader("private, max-age=900")}
      BY <2>1, <3>1, CacheControlKeeps
    <3> QED BY <2>1, <3>1, <3>2, <1>a, <1>b, <1>c, <1>d
  <2>3. CASE RouteCacheControl(r)
    <3>1. /\ pc[r] = "routeCacheControl" /\ pc'[r] = "handler"
          /\ res'[r] = cacheControl(res[r], "public, max-age=900")
      BY <2>3 DEF RouteCacheControl, Runs, Goto, TypeOK
    <3>2. /\ res'[r].body = res[r].body
          /\ \A h \in HeaderName :
               res'[r].headers[h].from \in {res[r].headers[h].from, Proxy}
      BY <2>1, <3>1, CacheControlKeeps
    <3> QED BY <2>1, <3>1, <3>2, <1>a, <1>b, <1>c, <1>d
  <2> QED BY <1>2, <2>2, <2>3
<1>3. ASSUME ForwardHeaders(r) PROVE Accounted
  <2>1. /\ res[r] \in ExpressResponse
        /\ res'[r] = forwardHeaders(res[r], reply[r].headers, reply[r].owner)
        /\ pc[r] = "middleware" /\ pc'[r] = "resume"
        /\ UNCHANGED <<input, req, call, reply, err>>
    BY <1>3 DEF ForwardHeaders, Goto, TypeOK
  <2>2. input[r].path = RecentSavesPath
    BY <1>c, <2>1
  <2>3. /\ res'[r].body = res[r].body
        /\ \A h \in HeaderName :
             res'[r].headers[h].from \in {res[r].headers[h].from, reply[r].owner}
        /\ res'[r].headers["cache-control"] = res[r].headers["cache-control"]
    BY <2>1, ForwardHeadersKeeps
  <2> QED BY <2>1, <2>2, <2>3, <1>a, <1>b, <1>c, <1>d
<1>4. ASSUME RespondWithData(r) PROVE Accounted
  <2> DEFINE d == [NoDocument EXCEPT !.kind = DataKind(call[r].graph),
                                     !.owner = reply[r].owner]
  <2>1. d.owner = reply[r].owner /\ (d.kind = "saves" => call[r].graph = "web")
    BY DEF NoDocument, DataKind
  <2> HIDE DEF d
  <2>2. /\ res[r] \in ExpressResponse
        /\ res'[r] = send(res[r], res[r].status, "application/json", d)
        /\ reply[r].outcome = "data" /\ pc'[r] = "done"
        /\ UNCHANGED <<input, req, call, reply, err>>
    BY <1>4 DEF RespondWithData, Answer, Goto, TypeOK, d
  <2>3. /\ res'[r].body = d
        /\ \A h \in HeaderName : res'[r].headers[h].from \in {res[r].headers[h].from, Proxy}
        /\ res'[r].headers["cache-control"] = res[r].headers["cache-control"]
    BY <2>2, SendKeeps
  <2> QED BY <2>1, <2>2, <2>3, <1>a, <1>b, <1>c, <1>d
<1>5. ASSUME ErrorHandler(r) PROVE Accounted
  <2> DEFINE e == responseError(err[r])
  <2>1. e.response.owner \in {Anonymous, err[r].response.owner} /\ e.response.kind # "saves"
    BY <1>a DEF responseError, defaultError, BFFFxError, RestResponseError
  <2> HIDE DEF e
  <2>2. /\ res[r] \in ExpressResponse
        /\ res'[r] = send(res[r], e.status, "text/html", e.response)
        /\ pc'[r] = "done"
        /\ UNCHANGED <<input, req, call, reply, err>>
    BY <1>5 DEF ErrorHandler, Answer, Goto, TypeOK, e
  <2>3. /\ res'[r].body = e.response
        /\ \A h \in HeaderName : res'[r].headers[h].from \in {res[r].headers[h].from, Proxy}
        /\ res'[r].headers["cache-control"] = res[r].headers["cache-control"]
    BY <2>2, SendKeeps
  <2> QED BY <2>1, <2>2, <2>3, <1>a, <1>b, <1>c, <1>d
<1>6. ASSUME Accounted PROVE Isolated(r)'
  <2>1. OwnHeader("private, max-age=900") # OwnHeader("public, max-age=900")
    BY DEF OwnHeader
  <2>2. OnlyRoutedRequestsAreHandled(r)'
    BY <1>6 DEF Isolated, OnlyRoutedRequestsAreHandled
  <2>3. NoReplyBeforeTheCallSettles(r)'
    BY <1>6 DEF Isolated, NoReplyBeforeTheCallSettles, SyncStates
  <2>4. OnlyOwnCookies(r)'
    BY <1>6 DEF Isolated, OnlyOwnCookies, Own
  <2>5. OnlyWholeSessionsGetSaves(r)'
    BY <1>6 DEF Isolated, OnlyWholeSessionsGetSaves
  <2>6. OtherRoutesAreAnonymous(r)'
    BY <1>6 DEF Isolated, OtherRoutesAreAnonymous
  <2>7. SavesAreNeverPublic(r)'
    BY <1>6, <2>1 DEF Isolated, SavesAreNeverPublic, Public, Policy
  <2> QED BY <2>2, <2>3, <2>4, <2>5, <2>6, <2>7 DEF Isolated
<1> QED BY <1>1, <1>2, <1>3, <1>4, <1>5, <1>6

LEMMA StepIsIsolated ==
    ASSUME TypeOK, NEW r \in Request, Isolated(r), Step(r)
    PROVE  Isolated(r)'
<1> USE DEF Isolated, OnlyRoutedRequestsAreHandled, NoReplyBeforeTheCallSettles,
            OnlyOwnCookies, Own, OnlyWholeSessionsGetSaves, OtherRoutesAreAnonymous,
            SavesAreNeverPublic, Public, Policy
<1>1. CASE Receive(r)
  <2>1. PICK i \in Input : input' = [input EXCEPT ![r] = i]
    BY <1>1, ClientRequestsAssumption DEF Receive
  <2>2. /\ pc'[r] = "json" /\ input'[r] = i
        /\ req'[r] = FreshReq /\ res'[r] = FreshRes /\ call'[r] = NoCall
        /\ reply'[r] = NoReply /\ err'[r] = NoError
    BY <1>1, <2>1 DEF Receive, Goto, TypeOK
  <2>3. /\ FreshReq.auth.cookies = NoCookies
        /\ NoCall.client.cookies = NoCookies /\ NoCall.client.headers = {}
        /\ NoCall.graph = "none"
        /\ NoReply.owner = Anonymous /\ NoReply.outcome = "none"
    BY DEF FreshReq, NoAuth, NoCall, NoClient, NoReply
  <2>4. /\ NoError.response.owner = Anonymous /\ NoError.response.kind = "none"
        /\ FreshRes.body.owner = Anonymous /\ FreshRes.body.kind = "none"
    BY DEF NoError, ProgramError, FreshRes, NoDocument
  <2>5. /\ \A h \in HeaderName : FreshRes.headers[h].from = Proxy
        /\ FreshRes.headers["cache-control"] # OwnHeader("public, max-age=900")
    BY ProxyAssumption DEF FreshRes, NoHeader, OwnHeader
  <2> QED BY ONLY <2>2, <2>3, <2>4, <2>5
          DEF Isolated, OnlyRoutedRequestsAreHandled, NoReplyBeforeTheCallSettles,
            OnlyOwnCookies, Own, OnlyWholeSessionsGetSaves, OtherRoutesAreAnonymous,
            SavesAreNeverPublic, Public, Policy
<1>2. CASE NoBodyToParse(r) \/ AwaitBody(r) \/ ParseBody(r)
  BY <1>2 DEF NoBodyToParse, AwaitBody, ParseBody, Runs, Goto, TypeOK, SyncStates
<1>3. CASE RejectBody(r) \/ NotFoundHandler(r) \/ RejectConsumerKey(r)
  <2>1. CASE RejectBody(r)
    <3>1. \A m : /\ ProgramError(m).response.owner = Anonymous
                 /\ ProgramError(m).response.kind # "saves"
      BY DEF ProgramError, NoDocument
    <3> QED BY <2>1, <3>1, FailIsIsolated DEF RejectBody
  <2>2. CASE NotFoundHandler(r)
    <3>1. notFoundError.response.owner = Anonymous /\ notFoundError.response.kind # "saves"
      BY DEF notFoundError, BFFFxError, RestResponseError
    <3> QED BY <2>2, <3>1, FailIsIsolated DEF NotFoundHandler
  <2>3. CASE RejectConsumerKey(r)
    <3> DEFINE e == BFFFxError("request rejected, consumer_key is required", 401,
                               "810b0a84", <<>>)
    <3>1. e.response.owner = Anonymous /\ e.response.kind # "saves"
      BY DEF BFFFxError, RestResponseError
    <3>2. Fail(r, e) /\ UNCHANGED <<input, req, res, call, reply>>
      BY <2>3 DEF RejectConsumerKey
    <3> HIDE DEF e
    <3> QED BY <3>1, <3>2, FailIsIsolated
  <2> QED BY <1>3, <2>1, <2>2, <2>3
<1>4. CASE WebSessionAuthHandler(r)
  BY <1>4 DEF WebSessionAuthHandler, Runs, Goto, TypeOK, SyncStates, ExpressRequest
<1>5. CASE AcceptConsumerKey(r)
  BY <1>5 DEF AcceptConsumerKey, Runs, Goto, TypeOK, SyncStates, ExpressRequest
<1>6. CASE RejectParameters(r)
  <2>1. input[r].path \in RoutePaths /\ input[r] \in Input
    BY <1>6 DEF RejectParameters, Runs, TypeOK, IsRouted
  <2> QED BY <1>6, <2>1, HandledErrorQuotes, FailIsIsolated DEF RejectParameters
<1>7. CASE RequestRecentSaves(r)
  <2> DEFINE c == authenticateClient(req[r].auth, webProxyClient(r, req[r].consumer_key))
  <2>1. /\ pc[r] = "handler" /\ pc'[r] = "upstream" /\ input[r].path = RecentSavesPath
        /\ call'[r].client = c /\ UNCHANGED <<input, req, res, reply, err>>
    BY <1>7 DEF RequestRecentSaves, RequestUpstream, Runs, Goto, TypeOK
  <2>2. c.cookies \in {NoCookies, req[r].auth.cookies}
    BY ClientCookies DEF TypeOK, ExpressRequest
  <2>3. reply[r] = NoReply /\ NoReply.outcome = "none"
    BY <2>1 DEF SyncStates, NoReply
  <2> HIDE DEF c
  <2> QED BY <2>1, <2>2, <2>3
<1>8. CASE RequestRecommendations(r)
  <2>1. /\ pc[r] = "handler" /\ pc'[r] = "upstream" /\ input[r].path # RecentSavesPath
        /\ call'[r].client = recommendationsClient /\ call'[r].graph = "client-api"
        /\ UNCHANGED <<input, req, res, reply, err>>
    BY <1>8 DEF RequestRecommendations, RequestUpstream, Runs, Goto, TypeOK
  <2>2. /\ recommendationsClient.cookies = NoCookies
        /\ recommendationsClient.headers = {ClientName}
    BY DEF recommendationsClient
  <2>3. reply[r] = NoReply /\ NoReply.outcome = "none"
    BY <2>1 DEF SyncStates, NoReply
  <2> QED BY <2>1, <2>2, <2>3
<1>9. CASE UpstreamSettles(r)
  <2> DEFINE cookies == call[r].client.cookies
  <2>1. /\ reply'[r].owner = cookies.user
        /\ reply'[r].outcome = "data" /\ call[r].graph = "web" =>
             Session(cookies) # Anonymous
        /\ pc'[r] = IF call[r].graph = "web" THEN "middleware" ELSE "resume"
        /\ UNCHANGED <<input, req, res, call, err>>
    <3>1. PICK outcome \in ReplyOutcome \ {"none"}, headers \in UpstreamHeaders :
            /\ outcome = "data" /\ call[r].graph = "web" => Session(cookies) # Anonymous
            /\ reply' = [reply EXCEPT ![r] =
                 [outcome |-> outcome, owner |-> cookies.user, headers |-> headers]]
      BY <1>9 DEF UpstreamSettles
    <3> QED BY <1>9, <3>1 DEF UpstreamSettles, Goto, TypeOK
  <2>2. Session(NoCookies) = Anonymous /\ NoCookies.user = Anonymous
    BY DEF Session, NoCookies
  <2>3. Session(cookies) # Anonymous => Session(cookies) = cookies.user
    BY DEF Session
  <2>4. cookies \in {NoCookies, input[r].cookies}
    OBVIOUS
  <2> QED BY <2>1, <2>2, <2>3, <2>4 DEF SyncStates
<1>10. CASE CatchError(r)
  <2>1. /\ reply[r] \in Reply
        /\ err'[r] = GraphQLErrorHandler(reply[r], <<>>) /\ pc'[r] \in {"hung", "sentry"}
        /\ UNCHANGED <<input, req, res, call, reply>>
    BY <1>10 DEF CatchError, Goto, TypeOK
  <2> QED BY <2>1, GraphQLErrorQuotes DEF SyncStates
<1>11. CASE SentryErrorHandler(r)
  BY <1>11 DEF SentryErrorHandler, Runs, Goto, TypeOK, SyncStates
<1> QED BY <1>1, <1>2, <1>3, <1>4, <1>5, <1>6, <1>7, <1>8, <1>9, <1>10, <1>11,
           ResponseStepIsIsolated DEF Step, Sync, Wake

------------------------------------------------------------------------------
(* The theorems.                                                            *)

LEMMA InitIsolated == Init => IsolationInv
<1> SUFFICES ASSUME Init, NEW r \in Request PROVE Isolated(r)
  BY DEF IsolationInv
<1>1. /\ pc[r] = "idle" /\ input[r].path = "/unknown" /\ input[r].cookies = NoCookies
      /\ req[r].auth.cookies = NoCookies /\ call[r] = NoCall
      /\ reply[r] = NoReply /\ err[r] = NoError /\ res[r] = FreshRes
  BY DEF Init, FreshReq, NoAuth
<1>2. /\ NoCall.client.cookies = NoCookies /\ NoCall.client.headers = {}
      /\ NoCall.graph = "none"
      /\ NoReply.owner = Anonymous /\ NoReply.outcome = "none"
  BY DEF NoCall, NoClient, NoReply
<1>3. /\ NoError.response.owner = Anonymous /\ NoError.response.kind = "none"
      /\ FreshRes.body.owner = Anonymous /\ FreshRes.body.kind = "none"
  BY DEF NoError, ProgramError, FreshRes, NoDocument
<1>4. \A h \in HeaderName : FreshRes.headers[h].from = Proxy
  BY DEF FreshRes, NoHeader
<1> QED BY ONLY <1>1, <1>2, <1>3, <1>4
        DEF Isolated, OnlyRoutedRequestsAreHandled, NoReplyBeforeTheCallSettles,
            OnlyOwnCookies, Own, OnlyWholeSessionsGetSaves, OtherRoutesAreAnonymous,
            SavesAreNeverPublic, RecentSavesPath, SyncStates

LEMMA NextIsolated == TypeOK /\ IsolationInv /\ [Next]_vars => IsolationInv'
<1> SUFFICES ASSUME TypeOK, IsolationInv, [Next]_vars, NEW s \in Request
             PROVE  Isolated(s)'
  BY DEF IsolationInv
<1>1. Isolated(s)
  BY DEF IsolationInv
<1>2. CASE UNCHANGED vars
  BY <1>1, <1>2, KeptIsIsolated DEF vars, Kept
<1>3. ASSUME NEW r \in Request, Step(r) PROVE Isolated(s)'
  <2>1. CASE r = s
    BY <1>1, <1>3, <2>1, StepIsIsolated
  <2>2. CASE r # s
    <3>1. Kept(s)
      BY <1>3, <2>2, OthersAreKept
    <3> QED BY <1>1, <3>1, KeptIsIsolated
  <2> QED BY <2>1, <2>2
<1> QED BY <1>2, <1>3 DEF Next, Step

(* Every variable keeps its type: in particular the handlers of a route are *)
(* entered only with a query they can handle, whatever is received          *)
(* (server.ts:149-205, api/index.ts:11-32).                                 *)
THEOREM TypeCorrect == Spec => []TypeOK
<1>1. Init => TypeOK /\ IsolationInv
  BY InitType, InitIsolated
<1>2. TypeOK /\ IsolationInv /\ [Next]_vars => (TypeOK /\ IsolationInv)'
  BY NextType, NextIsolated
<1> QED BY <1>1, <1>2, PTL DEF Spec

(* The isolation invariant holds of any number of overlapping requests, any *)
(* users and any traffic (webSessionAuth.ts:100-111, client.ts:37-107).     *)
THEOREM Isolation == Spec => []IsolationInv
<1>1. Init => TypeOK /\ IsolationInv
  BY InitType, InitIsolated
<1>2. TypeOK /\ IsolationInv /\ [Next]_vars => (TypeOK /\ IsolationInv)'
  BY NextType, NextIsolated
<1> QED BY <1>1, <1>2, PTL DEF Spec

(* A response holds saves only of the complete session its own request came *)
(* with, and no document or header obtained with another user's cookies     *)
(* (recent-saves/index.ts:22-42, graphQLErrorHandler.ts:69-129).            *)
THEOREM SavesStay == Spec => []SavesStayWithTheirSession
<1>1. IsolationInv => SavesStayWithTheirSession
  BY DEF IsolationInv, Isolated, OnlyOwnCookies, Own, OnlyWholeSessionsGetSaves,
         SavesStayWithTheirSession
<1> QED BY <1>1, Isolation, PTL

(* A response that a shared cache may store was made without anything of    *)
(* the client's session (recommendations.ts:18-33, api/index.ts:17,29).     *)
THEOREM PublicAnonymous == Spec => []PublicIsAnonymous
<1>1. IsolationInv => PublicIsAnonymous
  BY DEF IsolationInv, Isolated, OtherRoutesAreAnonymous, SavesAreNeverPublic,
         PublicIsAnonymous
<1> QED BY <1>1, Isolation, PTL
==============================================================================
