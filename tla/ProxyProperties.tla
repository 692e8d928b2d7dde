--------------------------- MODULE ProxyProperties ---------------------------
(***************************************************************************)
(* What the proxy must do for its clients, stated over ProxyServer.        *)
(***************************************************************************)
EXTENDS ProxyServer, OpenApiOperations

CONSTANTS NoInput, NoAnswer   \* nothing asked, nothing answered, for the contract

ASSUME ContractAssumption == NoInput \notin Input /\ NoAnswer \notin [status : Nat,
    kind : Kind, id : Id, owner : Owner, policy : ProxyText]

SyncStates == {"json", "app", "apiCacheControl", "router", "routeCacheControl",
               "handler", "sentry", "errorHandler"}
AwaitStates == {"idle", "done", "body", "upstream", "middleware", "resume", "hung"}

Answered(r) == res[r].sent
Policy(r) == res[r].headers["cache-control"]
Public(r) == Policy(r) = OwnHeader("public, max-age=900")
Private(r) == Policy(r) = OwnHeader("private, max-age=900")

(* Type correctness of everything the handlers keep.                        *)
TypeOK ==
    /\ running \in Request \cup {Nobody}
    /\ pc \in [Request -> SyncStates \cup AwaitStates]
    /\ input \in [Request -> Input]
    /\ req \in [Request -> ExpressRequest]
    /\ res \in [Request -> ExpressResponse]
    /\ client \in [Request -> Client]
    /\ call \in [Request -> Call]
    /\ reply \in [Request -> Reply]
    /\ err \in [Request -> Error]
    /\ sentry \in [Request -> Seq(Event)]
    /\ log \in [Request -> Seq(Event)]

(* Requests are isolated: whatever overlaps with what and whoever used the  *)
(* slot before, a response holds saves only of the complete session its own *)
(* request came with, and no upstream document or header obtained with      *)
(* another user's cookies (webSessionAuth.ts:100-111, client.ts:37-57 and   *)
(* 78-107, recent-saves/index.ts:22-42).                                    *)
SavesStayWithTheirSession ==
    \A r \in Request : Answered(r) =>
        /\ res[r].body.owner \in {Anonymous, input[r].cookies.user}
        /\ res[r].body.kind = "saves" =>
             /\ Session(input[r].cookies) # Anonymous
             /\ res[r].body.owner = Session(input[r].cookies)
        /\ \A h \in HeaderName :
             res[r].headers[h].from \in {Proxy, Anonymous, input[r].cookies.user}

(* What a shared cache may store is anonymous: a response marked public was *)
(* made without the client's cookies and headers, quotes no session and     *)
(* carries no upstream header (recommendations.ts:18-33, api/index.ts:17,29,*)
(* recommendations/index.ts:17, v3/index.ts:17).                            *)
PublicIsAnonymous ==
    \A r \in Request : Public(r) =>
        /\ res[r].body.owner = Anonymous
        /\ \A h \in HeaderName : res[r].headers[h].from = Proxy
        /\ call[r].client.headers \subseteq {ClientName}

(* A public answer is a function of the URL and of what upstream replied:   *)
(* any two requests for the same path and query that are answered publicly, *)
(* after the same kind of reply, are answered alike to the last header,     *)
(* whatever cookies, headers and consumer key they came with, so that a     *)
(* shared cache may keep one for the other (api/desktop/recommendations and *)
(* api/v3, index.ts:17-30).                                                 *)
PublicDependsOnTheUrlAlone ==
    \A r, s \in Request :
        /\ Answered(r) /\ Public(r) /\ Answered(s) /\ Public(s)
        /\ input[r].path = input[s].path
        /\ input[r].query = input[s].query
        /\ reply[r].outcome = reply[s].outcome
        => res[r] = res[s]

(* The cache policy of an answer is that of the handler closest to the      *)
(* route, never the one upstream sent: saves are private, recommendations   *)
(* public, and where NODE_ENV is development, empty or not set there is no  *)
(* policy at all (cacheControlHandler.ts:17-27, config/index.ts:4,          *)
(* headerUtils.ts:16-53).                                                   *)
ClosestCachePolicy ==
    \A r \in Request : Answered(r) =>
        IF NODE_ENV \in {Absent, "", "development"} THEN Policy(r) = NoHeader
        ELSE /\ res[r].body.kind = "saves" => Private(r)
             /\ res[r].body.kind = "recommendations" => Public(r)
             /\ input[r].path \notin MountedPaths => Policy(r) = NoHeader
             /\ Policy(r) = NoHeader \/ Private(r) \/ Public(r)

(* Every answer of status 500 or above is reported to Sentry exactly once   *)
(* and no other answer is; every error answer is logged exactly once.  Both *)
(* name the user of the request's own cookie, where it got as far as the    *)
(* session handler (server.ts:93-111, logger.ts:13-36, errorHandler.ts:75). *)
FailuresAreReported ==
    \A r \in Request : Answered(r) =>
        LET user == IF req[r].auth.present THEN userTags(input[r]) ELSE "none"
        IN  /\ Len(sentry[r]) = IF res[r].status >= 500 THEN 1 ELSE 0
            /\ Len(log[r]) = IF res[r].status >= 400 THEN 1 ELSE 0
            /\ \A n \in DOMAIN sentry[r] : sentry[r][n].user = user
            /\ \A n \in DOMAIN log[r] : log[r][n].user = user

(* The graphs are only asked what they can serve: a request with a consumer *)
(* key, a count in the route's range, a listed locale; and of the two, only *)
(* the web graph is asked with the client's cookies                         *)
(* (consumerKeyHandler.ts:32, inputs.ts of the routes).                     *)
UpstreamIsGuarded ==
    \A r \in Request : call[r].graph # "none" =>
        /\ HasConsumerKey(input[r])
        /\ call[r].graph = "web" => call[r].variables.count \in 1..20
        /\ call[r].graph = "client-api" =>
             /\ call[r].variables.count \in 1..30
             /\ isValidLocale(call[r].variables.locale)
             /\ call[r].client.cookies = NoCookies

\* The slot of an answered request is given to the next one.
Reused(r) == pc[r] = "done" /\ pc'[r] = "json"

(* For one request upstream is called at most once and one answer at most   *)
(* is sent, even where a second would be no different from the first: until *)
(* the slot is reused calls and sends are counted up, never beyond one, and *)
(* a response that was sent is not touched again (errorHandler.ts:78-81,    *)
(* the returns before next(), the one await of each route's index.ts).      *)
AtMostOnce ==
    [][\A r \in Request : Reused(r) \/
         /\ call'[r].times \in call[r].times..1
         /\ res'[r].sends \in res[r].sends..1
         /\ res[r].sent => UNCHANGED res[r]]_vars

(* No request is forgotten: between two handlers it is on the stack, and    *)
(* when it is not it waits for its body, its call or its turn, never for    *)
(* nothing (the next() or answer in each handler, and the catch of every    *)
(* route: graphQLErrorHandler.ts:157-189).                                  *)
NobodyIsForgotten ==
    \A r \in Request :
        /\ pc[r] # "hung"
        /\ pc[r] \in SyncStates <=> running = r

\* The order of the handlers: buildServer, the routers, the routes, the errors.
Stage ==
    [idle |-> 0, json |-> 1, body |-> 2, app |-> 3, apiCacheControl |-> 4, router |-> 5,
     routeCacheControl |-> 6, handler |-> 7, upstream |-> 8, middleware |-> 9,
     resume |-> 10, sentry |-> 11, errorHandler |-> 12, done |-> 13]

Untouched(r) ==
    UNCHANGED <<pc[r], input[r], req[r], res[r], client[r], call[r], reply[r],
                err[r], sentry[r], log[r]>>

(* Whatever happens brings one request nearer to its answer and touches no  *)
(* other: no handler runs twice for a request, none waits again for what it *)
(* has waited for, so that a request received is over after at most twelve  *)
(* steps of its own (server.ts:131-205, the routes' index.ts).              *)
EveryStepIsProgress ==
    [][\E r \in Request :
         /\ \A s \in Request \ {r} : Untouched(s)
         /\ \/ Stage[pc'[r]] > Stage[pc[r]]
            \/ pc[r] \in {"idle", "done"} /\ pc'[r] = "json"]_vars

(* A request is answered unless its body never arrives: neither an upstream *)
(* error nor another request can leave it hanging                           *)
(* (graphQLErrorHandler.ts:157-189, the catch of every route handler).      *)
EventuallyAnswered ==
    \A r \in Request :
        pc[r] \notin {"idle", "body", "done"} ~> pc[r] \in {"body", "done"}

(* The server implements ProxyContract: seen from its clients, each request *)
(* gets one answer, one that the request by itself allows; exceptions are   *)
(* redacted to the generic error (errorHandler.ts:69-82, bfffxServer.ts).   *)
Contract == INSTANCE ProxyContract WITH
    asked <- [r \in Request |-> IF pc[r] = "idle" THEN NoInput ELSE input[r]],
    answer <- [r \in Request |->
        IF ~res[r].sent THEN NoAnswer
        ELSE [status |-> res[r].status, kind |-> res[r].body.kind,
              id |-> res[r].body.id, owner |-> res[r].body.owner,
              policy |-> Policy(r).text]]

ImplementsContract == Contract!Spec

------------------------------------------------------------------------------
(* The inductive strengthening of the isolation properties: where the       *)
(* cookies of a request, and what was obtained with them, can be at every   *)
(* moment, and which requests get how far.                                  *)

Own(r) == {Anonymous, input[r].cookies.user}

\* A route's handlers run only for a request that is routed to it and has a key.
OnlyRoutedRequestsAreHandled(r) ==
    /\ pc[r] \in {"routeCacheControl", "handler"} =>
         IsRouted(input[r]) /\ HasConsumerKey(input[r])
    /\ pc[r] = "routeCacheControl" => input[r].path # RecentSavesPath

\* The slot holds no reply of an earlier request when its own call is made.
NoReplyBeforeTheCallSettles(r) ==
    pc[r] \in (SyncStates \ {"sentry", "errorHandler"}) \cup {"body", "upstream"} =>
        reply[r] = NoReply

\* Everything the request holds comes from its own cookies or from none.
OnlyOwnCookies(r) ==
    /\ req[r].auth.cookies \in {NoCookies, input[r].cookies}
    /\ call[r].client.cookies \in {NoCookies, input[r].cookies}
    /\ reply[r].owner \in Own(r)
    /\ err[r].response.owner \in Own(r)
    /\ res[r].body.owner \in Own(r)
    /\ \A h \in HeaderName : res[r].headers[h].from \in Own(r) \cup {Proxy}

\* Saves are read with a complete session only, and never quoted by an error.
OnlyWholeSessionsGetSaves(r) ==
    /\ reply[r].outcome = "data" /\ call[r].graph = "web" =>
         /\ Session(input[r].cookies) # Anonymous
         /\ reply[r].owner = Session(input[r].cookies)
    /\ err[r].response.kind # "saves"
    /\ res[r].body.kind = "saves" =>
         /\ Session(input[r].cookies) # Anonymous
         /\ res[r].body.owner = Session(input[r].cookies)

\* Other requests than recent-saves never use their cookies upstream, and the
\* response middleware never runs for them.
OtherRoutesAreAnonymous(r) ==
    input[r].path # RecentSavesPath =>
        /\ pc[r] # "middleware"
        /\ call[r].graph # "web"
        /\ call[r].client.cookies = NoCookies
        /\ call[r].client.headers \subseteq {ClientName}
        /\ reply[r].owner = Anonymous
        /\ err[r].response.owner = Anonymous
        /\ res[r].body.owner = Anonymous
        /\ \A h \in HeaderName : res[r].headers[h].from = Proxy

SavesAreNeverPublic(r) == input[r].path = RecentSavesPath => ~Public(r)

(* Together they are inductive, and give the two properties above that say  *)
(* whose data may be in a response (webSessionAuth.ts, client.ts).          *)
Isolated(r) ==
    /\ OnlyRoutedRequestsAreHandled(r)
    /\ NoReplyBeforeTheCallSettles(r)
    /\ OnlyOwnCookies(r)
    /\ OnlyWholeSessionsGetSaves(r)
    /\ OtherRoutesAreAnonymous(r)
    /\ SavesAreNeverPublic(r)

IsolationInv == \A r \in Request : Isolated(r)

------------------------------------------------------------------------------
(* What comments and openapi.yml say and the code does not do.              *)

(* recent-saves/index.ts:20 "request must include a consumer_key": the key  *)
(* the web graph is called with is not empty.                               *)
UpstreamKeyIsPresent ==
    \A r \in Request : call[r].graph = "web" => Truthy(call[r].client.consumer_key)

(* webSessionAuthHandler.ts:14-15: a request without all of the auth        *)
(* parameters is answered 401 (by the handler, hence not sent upstream).    *)
IncompleteSessionIsRejected ==
    \A r \in Request : call[r].graph = "web" => Session(input[r].cookies) # Anonymous

(* client.ts:74 "This currently forwards ALL headers": each header that is  *)
(* not blocked reaches the client with its value.                           *)
AllHeadersAreForwarded ==
    \A r \in Request : pc[r] = "done" /\ call[r].graph = "web" =>
        \A n \in DOMAIN reply[r].headers :
            doForwardHeader(reply[r].headers[n].name) =>
                res[r].headers[reply[r].headers[n].name].text = reply[r].headers[n].text

Responses(path) ==
    CASE path = RecommendationsPath -> getRecommendationsResponses
      [] path = GlobalRecsPath -> getGlobalRecsResponses
      [] path = RecentSavesPath -> getRecentSavesResponses

(* openapi.yml:320-353, 397-440, 469-509: whatever an operation answers has *)
(* one of the statuses it declares and, but for 500, is application/json.   *)
AnswersAreDeclared ==
    \A r \in Request :
        Answered(r) /\ IsRouted(input[r]) /\ input[r].body \notin DOMAIN bodyError =>
            \E response \in Responses(input[r].path) :
                /\ res[r].status = response.status
                /\ res[r].headers["content-type"].text = response.content
                     \/ response.content = "none"

(* openapi.yml:348-349, 435-436, 504-505: a downstream timeout is a 504.    *)
TimeoutsAre504 ==
    \A r \in Request :
        Answered(r) /\ reply[r].outcome = "timeout" => res[r].status = 504
==============================================================================
