----------------------------- MODULE ProxyServer -----------------------------
(***************************************************************************)
(* The Express server of the Firefox API proxy: the middleware chain, the  *)
(* three routes, the GraphQL clients they call and the error handlers,     *)
(* with several requests in progress on the one Node event loop.           *)
(*                                                                         *)
(* A request occupies a slot from the moment Node hands it over until its  *)
(* response is sent; the slot is then free for another request.  JavaScript *)
(* runs to completion: running names the request whose handlers are on the *)
(* stack, and another request is served only while a handler awaits.       *)
(***************************************************************************)
EXTENDS ClientRequests, HeaderUtils, GraphQLErrors

CONSTANTS
    Request,          \* request slots
    Nobody,           \* no request is on the stack
    Proxy,            \* marks a header value that the proxy chose
    UpstreamText,     \* the values of upstream headers
    UpstreamHeaders,  \* the header lists of upstream replies
    NODE_ENV          \* the environment variable

ASSUME ProxyAssumption ==
    /\ Nobody \notin Request
    /\ Proxy \notin Owner
    /\ {"cache-control", "content-type", "cookie"} \subseteq HeaderName
    /\ UpstreamHeaders \subseteq Seq([name : HeaderName, text : UpstreamText])
    /\ toLowerCase["Cache-control"] = "cache-control"
    /\ \A h \in HeaderName : toLowerCase[h] = h

VARIABLES
    running,  \* the request on the stack, or Nobody
    pc,       \* where each request is
    input,    \* the request as received (never changed by a handler)
    req,      \* what handlers add to the Express request
    res,      \* the Express response
    client,   \* the GraphQLClient of the request
    call,     \* the upstream request made with it, its headers as sent
    reply,    \* what became of that call
    err,      \* the error passed to next()
    sentry,   \* the events the request reported to Sentry
    log       \* the errors the request logged
vars == <<running, pc, input, req, res, client, call, reply, err, sentry, log>>

\* config.app.environment
environment == IF Truthy(NODE_ENV) THEN NODE_ENV ELSE "development"

------------------------------------------------------------------------------
(* Requests, responses and upstream calls as records.                       *)

\* WebSessionAuth.userTags(): the user identifier alone, session or not.
Tag == User \cup {"unauthenticated", "none"}
\* Slip: no default tag.
userTagsUndefined(auth) ==
    IF "a95b4b6" \in auth.cookies.names THEN auth.cookies.user ELSE Anonymous

userTags(auth) ==
    IF "a95b4b6" \in auth.cookies.names THEN auth.cookies.user
    ELSE "unauthenticated"

\* The header values the proxy sets itself.
ProxyText == {"none", "private, max-age=900", "public, max-age=900", "text/html",
              "application/json"}

HeaderValue == [from : Owner \cup {Proxy}, text : ProxyText \cup UpstreamText]
NoHeader == [from |-> Proxy, text |-> "none"]
OwnHeader(text) == [from |-> Proxy, text |-> text]

Auth == [present : BOOLEAN, headers : SUBSET HeaderName, cookies : Cookies]
NoAuth == [present |-> FALSE, headers |-> {}, cookies |-> NoCookies]

(* What handlers add to the Express request, and the Express response.      *)
(* sends, as times of a call below, is history that the code does not keep: *)
(* how often the response was sent, and upstream asked, for this request.   *)
(* No guard reads either.                                                   *)
ExpressRequest == [user : Tag, auth : Auth, consumer_key : Value \cup {Absent}]
ExpressResponse == [status : Nat, headers : [HeaderName -> HeaderValue],
                    body : Document, sent : BOOLEAN, sends : Nat]

FreshReq == [user |-> "none", auth |-> NoAuth, consumer_key |-> Absent]
FreshRes == [status |-> 200, headers |-> [h \in HeaderName |-> NoHeader],
             body |-> NoDocument, sent |-> FALSE, sends |-> 0]

ClientName == "apollographql-client-name"
Client == [consumer_key : Value \cup {Absent},
           headers : SUBSET (HeaderName \cup {ClientName}), cookies : Cookies]
NoClient == [consumer_key |-> Absent, headers |-> {}, cookies |-> NoCookies]

Call == [graph : {"none", "web", "client-api"}, client : Client,
         variables : Variables, times : Nat]
NoCall == [graph |-> "none", client |-> NoClient, variables |-> NoVariables,
           times |-> 0]

(* What becomes of an upstream call: usable data, data that the response    *)
(* transformer cannot read, an error document, or no document at all.       *)
ReplyOutcome == {"none", "data", "unreadable", "unauthenticated", "clientError",
                 "networkError", "timeout"}
Reply == [outcome : ReplyOutcome, owner : Owner,
          headers : Seq([name : HeaderName, text : UpstreamText])]
NoReply == [outcome |-> "none", owner |-> Anonymous, headers |-> <<>>]

\* An event sent to Sentry, or an error logged.
Event == [message : Message, user : Tag]

\* expressResponse.set(name, value): header names are case-insensitive.
set(response, name, value) ==
    [response EXCEPT !.headers[toLowerCase[name]] = value]

\* res.send() and res.json(): the content type is set unless it already is.
send(response, status, contentType, document) ==
    [response EXCEPT
        !.status = status,
        !.headers["content-type"] = IF @ = NoHeader THEN OwnHeader(contentType) ELSE @,
        !.body = document,
        !.sent = TRUE,
        !.sends = @ + 1]

\* Slip: the development exception forgotten.
cacheControlAlways(response, policy) ==
    set(response, "Cache-control", OwnHeader(policy))

cacheControl(response, policy) ==
    IF environment = "development" THEN response
    ELSE set(response, "Cache-control", OwnHeader(policy))

\* The response middleware: every upstream header that may be forwarded is set
\* on the response, the last one of a name winning.
forwardHeaders(response, upstream, owner) ==
    [response EXCEPT !.headers =
        [h \in HeaderName |->
            LET last == {n \in DOMAIN upstream :
                           /\ upstream[n].name = h
                           /\ \A m \in DOMAIN upstream :
                                upstream[m].name = h => m <= n}
            IN  IF last # {} /\ doForwardHeader(h)
                THEN [from |-> owner, text |-> upstream[CHOOSE n \in last : TRUE].text]
                ELSE @[h]]]

\* Slip: one client kept from a request to the next.
webProxyClientShared(r, consumer_key) ==
    [client[r] EXCEPT !.consumer_key = consumer_key, !.headers = @ \cup {ClientName}]

\* new GraphQLClient(...): nothing but the baseline header.
webProxyClient(r, consumer_key) ==
    [consumer_key |-> consumer_key, headers |-> {ClientName}, cookies |-> NoCookies]

recommendationsClient ==
    [consumer_key |-> Absent, headers |-> {ClientName}, cookies |-> NoCookies]

authenticateClient(auth, c) ==
    LET permitted == {h \in auth.headers : doForwardHeader(h)}
    IN  [c EXCEPT !.headers = @ \cup permitted,
                  !.cookies = IF "cookie" \in permitted THEN auth.cookies ELSE @]

------------------------------------------------------------------------------
(* The handlers, in the order in which buildServer and the routers register *)
(* them.  Each is one action; running keeps other requests out until the    *)
(* request awaits or is answered.                                           *)

\* A handler of r runs next, on the stack of the handler before it.
Runs(r, here) == running = r /\ pc[r] = here

Goto(r, there) == pc' = [pc EXCEPT ![r] = there]

\* next(error): every middleware but the error handlers is skipped.
Fail(r, error) ==
    /\ err' = [err EXCEPT ![r] = error]
    /\ Goto(r, "sentry")

Answer(r, status, contentType, document) ==
    /\ res' = [res EXCEPT ![r] = send(@, status, contentType, document)]
    /\ running' = Nobody

(* A new request: Node makes the request and response objects, morgan and   *)
(* the Sentry request handler pass, req.user is emptied, cookies are parsed. *)
Receive(r) ==
    /\ running = Nobody
    /\ pc[r] \in {"idle", "done"}
    /\ \E i \in Traffic : input' = [input EXCEPT ![r] = i]
    /\ running' = r
    /\ req' = [req EXCEPT ![r] = FreshReq]
    /\ res' = [res EXCEPT ![r] = FreshRes]
    /\ call' = [call EXCEPT ![r] = NoCall]
    /\ reply' = [reply EXCEPT ![r] = NoReply]
    /\ err' = [err EXCEPT ![r] = NoError]
    /\ sentry' = [sentry EXCEPT ![r] = <<>>]
    /\ log' = [log EXCEPT ![r] = <<>>]
    /\ Goto(r, "json")
    /\ UNCHANGED client

\* express.json() passes a request without a body on.
NoBodyToParse(r) ==
    /\ Runs(r, "json")
    /\ input[r].body = "none"
    /\ Goto(r, "app")
    /\ UNCHANGED <<running, input, req, res, client, call, reply, err, sentry, log>>

\* express.json() waits for a body.
AwaitBody(r) ==
    /\ Runs(r, "json")
    /\ input[r].body # "none"
    /\ running' = Nobody
    /\ Goto(r, "body")
    /\ UNCHANGED <<input, req, res, client, call, reply, err, sentry, log>>

\* The body has arrived and parses.
ParseBody(r) ==
    /\ running = Nobody
    /\ pc[r] = "body"
    /\ input[r].body = "json"
    /\ running' = r
    /\ Goto(r, "app")
    /\ UNCHANGED <<input, req, res, client, call, reply, err, sentry, log>>

\* The body does not parse, or the client aborts the request before it is there.
RejectBody(r) ==
    /\ running = Nobody
    /\ pc[r] = "body"
    /\ input[r].body \in DOMAIN bodyError
    /\ running' = r
    /\ Fail(r, ProgramError(bodyError[input[r].body]))
    /\ UNCHANGED <<input, req, res, client, call, reply, sentry, log>>

\* Slip: the health check answers, and calls next() as well.
ServerHealthThenNext(r) ==
    /\ Runs(r, "app")
    /\ IsHealthCheck(input[r])
    /\ res' = [res EXCEPT ![r] =
         send(@, 200, "text/html", [NoDocument EXCEPT !.kind = "text", !.id = "ok"])]
    /\ Fail(r, notFoundError)
    /\ UNCHANGED <<running, input, req, client, call, reply, sentry, log>>

ServerHealth(r) ==
    /\ Runs(r, "app")
    /\ IsHealthCheck(input[r])
    /\ Answer(r, 200, "text/html", [NoDocument EXCEPT !.kind = "text", !.id = "ok"])
    /\ Goto(r, "done")
    /\ UNCHANGED <<input, req, client, call, reply, err, sentry, log>>

\* Slip: auth is attached, and next() is not called.
WebSessionAuthHandlerWithoutNext(r) ==
    /\ Runs(r, "app")
    /\ input[r].path \in MountedPaths
    /\ LET auth == [present |-> TRUE, headers |-> input[r].headers,
                    cookies |-> input[r].cookies]
       IN  req' = [req EXCEPT ![r].auth = auth, ![r].user = userTags(auth)]
    /\ running' = Nobody
    /\ UNCHANGED <<pc, input, res, client, call, reply, err, sentry, log>>

\* Entered for every request below /desktop and /v3, whatever its method.
WebSessionAuthHandler(r) ==
    /\ Runs(r, "app")
    /\ input[r].path \in MountedPaths
    /\ LET auth == [present |-> TRUE, headers |-> input[r].headers,
                    cookies |-> input[r].cookies]
       IN  req' = [req EXCEPT ![r].auth = auth, ![r].user = userTags(auth)]
    /\ Goto(r, "apiCacheControl")
    /\ UNCHANGED <<running, input, res, client, call, reply, err, sentry, log>>

ApiCacheControl(r) ==
    /\ Runs(r, "apiCacheControl")
    /\ res' = [res EXCEPT ![r] = cacheControl(@, "private, max-age=900")]
    /\ Goto(r, "router")
    /\ UNCHANGED <<running, input, req, client, call, reply, err, sentry, log>>

\* The request leaves the routers unanswered.
NotFoundHandler(r) ==
    /\ \/ /\ Runs(r, "app")
          /\ input[r].path \notin MountedPaths
          /\ ~IsHealthCheck(input[r])
       \/ /\ Runs(r, "router")
          /\ ~IsRouted(input[r])
    /\ Fail(r, notFoundError)
    /\ UNCHANGED <<running, input, req, res, client, call, reply, sentry, log>>

RejectConsumerKey(r) ==
    /\ Runs(r, "router")
    /\ IsRouted(input[r])
    /\ ~HasConsumerKey(input[r])
    /\ Fail(r, BFFFxError("request rejected, consumer_key is required", 401,
                          "810b0a84", <<>>))
    /\ UNCHANGED <<running, input, req, res, client, call, reply, sentry, log>>

AcceptConsumerKey(r) ==
    /\ Runs(r, "router")
    /\ IsRouted(input[r])
    /\ HasConsumerKey(input[r])
    /\ req' = [req EXCEPT ![r].consumer_key =
                 OrElse(input[r].query.consumer_key, input[r].consumer_key)]
    /\ Goto(r, IF input[r].path = RecentSavesPath THEN "handler"
               ELSE "routeCacheControl")
    /\ UNCHANGED <<running, input, res, client, call, reply, err, sentry, log>>

\* The recommendations and global-recs routes override the policy of the API.
RouteCacheControl(r) ==
    /\ Runs(r, "routeCacheControl")
    /\ res' = [res EXCEPT ![r] = cacheControl(@, "public, max-age=900")]
    /\ Goto(r, "handler")
    /\ UNCHANGED <<running, input, req, client, call, reply, err, sentry, log>>

------------------------------------------------------------------------------
(* The async route handlers.                                                *)

RejectParameters(r) ==
    /\ Runs(r, "handler")
    /\ Handled(input[r]).error # NoError
    /\ Fail(r, Handled(input[r]).error)
    /\ UNCHANGED <<running, input, req, res, client, call, reply, sentry, log>>

\* The client's headers and URL are read when request() is called, before the
\* handler awaits.
RequestUpstream(r, graph, c) ==
    /\ client' = [client EXCEPT ![r] = c]
    /\ call' = [call EXCEPT ![r] =
         [graph |-> graph, client |-> c, variables |-> Handled(input[r]).variables,
          times |-> call[r].times + 1]]
    /\ running' = Nobody
    /\ Goto(r, "upstream")
    /\ UNCHANGED <<input, req, res, reply, err, sentry, log>>

RequestRecentSaves(r) ==
    /\ Runs(r, "handler")
    /\ input[r].path = RecentSavesPath
    /\ Handled(input[r]).error = NoError
    /\ RequestUpstream(r, "web",
         authenticateClient(req[r].auth, webProxyClient(r, req[r].consumer_key)))

\* Slip: the recommendations route hands the request's auth to its client.
RequestRecommendationsAuthenticated(r) ==
    /\ Runs(r, "handler")
    /\ input[r].path # RecentSavesPath
    /\ Handled(input[r]).error = NoError
    /\ RequestUpstream(r, "client-api",
         authenticateClient(req[r].auth, recommendationsClient))

RequestRecommendations(r) ==
    /\ Runs(r, "handler")
    /\ input[r].path # RecentSavesPath
    /\ Handled(input[r]).error = NoError
    /\ RequestUpstream(r, "client-api", recommendationsClient)

(* The call settles.  Saves need the whole session; a network error brings  *)
(* no headers; any document may reflect the cookies it was asked with.      *)
UpstreamSettles(r) ==
    /\ pc[r] = "upstream"
    /\ \E outcome \in ReplyOutcome \ {"none"}, headers \in UpstreamHeaders :
         /\ outcome = "data" /\ call[r].graph = "web" =>
              Session(call[r].client.cookies) # Anonymous
         /\ outcome \in {"networkError", "timeout"} => headers = <<>>
         /\ reply' = [reply EXCEPT ![r] =
              [outcome |-> outcome, owner |-> call[r].client.cookies.user,
               headers |-> headers]]
    /\ Goto(r, IF call[r].graph = "web" THEN "middleware" ELSE "resume")
    /\ UNCHANGED <<running, input, req, res, client, call, err, sentry, log>>

\* graphql-request runs the response middleware, on success and on failure,
\* before the handler's await returns.
ForwardHeaders(r) ==
    /\ running = Nobody
    /\ pc[r] = "middleware"
    /\ res' = [res EXCEPT ![r] = forwardHeaders(@, reply[r].headers, reply[r].owner)]
    /\ Goto(r, "resume")
    /\ UNCHANGED <<running, input, req, client, call, reply, err, sentry, log>>

DataKind(graph) == IF graph = "web" THEN "saves" ELSE "recommendations"

\* The data is transformed and answered.
RespondWithData(r) ==
    /\ running = Nobody
    /\ pc[r] = "resume"
    /\ reply[r].outcome = "data"
    /\ Answer(r, res[r].status, "application/json",
         [NoDocument EXCEPT !.kind = DataKind(call[r].graph), !.owner = reply[r].owner])
    /\ Goto(r, "done")
    /\ UNCHANGED <<input, req, client, call, reply, err, sentry, log>>

\* Slip: a failed call is made again, by the same handler.
CatchErrorRetrying(r) ==
    /\ running = Nobody
    /\ pc[r] = "resume"
    /\ reply[r].outcome # "data"
    /\ running' = r
    /\ Goto(r, "handler")
    /\ UNCHANGED <<input, req, res, client, call, reply, err, sentry, log>>

\* The await or the transformer threw.  Should GraphQLErrorHandler throw in turn,
\* the handler's promise is rejected and nobody answers.
CatchError(r) ==
    /\ running = Nobody
    /\ pc[r] = "resume"
    /\ reply[r].outcome # "data"
    /\ LET error == GraphQLErrorHandler(reply[r], <<>>)
       IN  /\ err' = [err EXCEPT ![r] = error]
           /\ Goto(r, IF error = NoError THEN "hung" ELSE "sentry")
           /\ running' = IF error = NoError THEN Nobody ELSE r
    /\ UNCHANGED <<input, req, res, client, call, reply, sentry, log>>

------------------------------------------------------------------------------
(* The error handlers.                                                      *)

SentryErrorHandler(r) ==
    /\ Runs(r, "sentry")
    /\ sentry' = IF shouldHandleError(err[r])
                 THEN [sentry EXCEPT ![r] =
                         Append(@, [message |-> err[r].message, user |-> req[r].user])]
                 ELSE sentry
    /\ Goto(r, "errorHandler")
    /\ UNCHANGED <<running, input, req, res, client, call, reply, err, log>>

\* The error callback logs, then the client is answered.
ErrorHandler(r) ==
    /\ Runs(r, "errorHandler")
    /\ log' = [log EXCEPT ![r] =
         Append(@, [message |-> err[r].message,
                    user |-> IF req[r].auth.present THEN userTags(req[r].auth)
                             ELSE "none"])]
    /\ Answer(r, responseError(err[r]).status, "text/html", responseError(err[r]).response)
    /\ Goto(r, "done")
    /\ UNCHANGED <<input, req, client, call, reply, err, sentry>>

------------------------------------------------------------------------------
Init ==
    /\ running = Nobody
    /\ pc = [r \in Request |-> "idle"]
    /\ input = [r \in Request |->
         [method |-> "GET", path |-> "/unknown", body |-> "none", headers |-> {},
          cookies |-> NoCookies, consumer_key |-> Absent,
          query |-> [p \in Parameter |-> Absent]]]
    /\ req = [r \in Request |-> FreshReq]
    /\ res = [r \in Request |-> FreshRes]
    /\ client = [r \in Request |-> NoClient]
    /\ call = [r \in Request |-> NoCall]
    /\ reply = [r \in Request |-> NoReply]
    /\ err = [r \in Request |-> NoError]
    /\ sentry = [r \in Request |-> <<>>]
    /\ log = [r \in Request |-> <<>>]

\* The synchronous handlers of the request on the stack.
Sync(r) ==
    \/ NoBodyToParse(r) \/ AwaitBody(r)
    \/ ServerHealth(r) \/ WebSessionAuthHandler(r) \/ ApiCacheControl(r)
    \/ NotFoundHandler(r) \/ RejectConsumerKey(r) \/ AcceptConsumerKey(r)
    \/ RouteCacheControl(r) \/ RejectParameters(r)
    \/ RequestRecentSaves(r) \/ RequestRecommendations(r)
    \/ SentryErrorHandler(r) \/ ErrorHandler(r)

\* The callbacks and continuations of an upstream call that has settled.
Wake(r) == ForwardHeaders(r) \/ RespondWithData(r) \/ CatchError(r)

Next ==
    \E r \in Request :
        Receive(r) \/ Sync(r) \/ ParseBody(r) \/ RejectBody(r)
          \/ UpstreamSettles(r) \/ Wake(r)

Spec == Init /\ [][Next]_vars

(* A handler on the stack runs on; an upstream call settles, by answer,     *)
(* error or timeout; the event loop takes ready continuations in order, so  *)
(* that one which is ready again and again between other requests' handlers *)
(* gets its turn.  Nothing is assumed of the arrival of requests or bodies. *)
Fairness ==
    \A r \in Request :
        WF_vars(Sync(r)) /\ WF_vars(UpstreamSettles(r)) /\ SF_vars(Wake(r))

FairSpec == Spec /\ Fairness
==============================================================================
