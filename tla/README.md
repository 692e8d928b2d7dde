# Verification of the Firefox API proxy

TLA+ models, TLC runs and TLAPS proofs for the service in this repository: an
Express server that answers three GET routes for Firefox out of two GraphQL
services. Paths below are relative to the repository (`src/...` is its source
directory); line numbers are those of the modelled commit.

## 1. The system

| part | state it keeps | operations | speaks to |
|---|---|---|---|
| HTTP server, `server.ts`, `bfffxServer.ts` | the request and response objects of every request in progress; the built handlers | `buildServer` and its options; the middleware chain: access log, Sentry request handler, `req.user = {}`, cookies, JSON body, health check, API routers, not-found, Sentry error handler, error handler | everything below, by `next()` |
| session auth, `auth/web-session/` | `req.auth`, `req.user.id` | `fromRequest`, `userTags`, `authenticateClient` | the GraphQL client it mutates, Sentry and log tags |
| consumer key, `auth/consumerKeyHandler.ts` | `req.consumer_key` | check, selection (query before header) | the web client |
| cache policy, `api/lib/cacheControlHandler.ts` | the `Cache-control` response header | set, once for the API and again by two routes | caches between the service and Firefox |
| query handling, `inputs.ts` of the routes | none | defaults, coercion, clamp, validation, GraphQL variables | route handlers |
| route handlers, `api/**/index.ts` | none of their own; one await each | validate, call upstream, transform, answer, catch | all of the above |
| GraphQL clients, `graphql-proxy/` | a `GraphQLClient` per call | construct, authenticate, request, response middleware | the web graph (with cookies), the client API graph (without) |
| header rules, `lib/headerUtils.ts` | none | `doForwardHeader` | client and response middleware |
| response transformers, `response.ts` of the routes | none | map the graphs' documents to the API's | route handlers |
| GraphQL error handler, `api/error/` | none | a chain of handlers, the first that answers wins | route handlers |
| errors, `errors/`, `bfffxError.ts` | status, response, Sentry behaviour of an error | construct, report (Sentry, log), redact, answer | Sentry, CloudWatch, the client |
| outside: the two graphs, the CDN and browser caches | saves, slates; stored answers | execute a query; store, serve, age | the service |
| infrastructure, OpenAPI loader, generated types | - | - | - |

There is one Node process and one event loop. Handlers run to completion; a
request gives way at two kinds of await only: while its body arrives
(`express.json`) and while its upstream call is in progress. Everything two
requests could share is therefore shared across those awaits.

### What is hard here

* **Isolation across awaits.** `recentSaves` builds a client and puts one
  user's cookies in it, awaits, and a response middleware that closed over one
  `res` copies upstream headers, `Set-Cookie` among them. Any state kept between
  requests would hand one user's saves or renewed session to another.
* **Order of the writers of a response.** The cache policy is written by up to
  two handlers, upstream headers come after, then an answer or an error. Saves
  must never end up public, and an error on a public route must not quote a
  session.
* **Stale answers.** A failure on a public route is sent with the policy of
  data, so it outlives its cause in two caches, one after the other. Saves stay
  in a browser whose user has logged out.
* **Failure after partial work.** Upstream fails with or without headers, with
  an error document or none; the transformer fails after headers are forwarded;
  the body is malformed or never completes. Each must end in exactly one answer,
  one log entry, and one Sentry event iff the status is 5xx.
* **Silence.** An exception inside `catch` would leave a request unanswered.
* **Options left out.** Defaults are merged at three levels by spreads and `??`;
  a field that is missing at one of them must not become `undefined`. An error
  callback may throw or answer, a route may answer and call `next()` as well.
* **Inputs.** Repeated parameters are arrays, `parseInt` accepts prefixes and
  gives `NaN`, defaults come by spread in one route and by `??` in another,
  bounds differ by route, `||` and `??` differ on the empty string.
* **Documents.** Saves may be null, pending or of a type the service does not
  know; URLs may not parse or carry a `utm_source`; two routes map the same
  document to two layouts that must tell the same.

`PROJECT.json` lists these as hazards, each at its line.

### What makes each part correct

* Server and routes: requests are isolated (`SavesStayWithTheirSession`,
  `IsolationInv`), answered once (`AtMostOnce`) and always
  (`EventuallyAnswered`): none is forgotten (`NobodyIsForgotten`) or sent back
  (`EveryStepIsProgress`), and the answer is one their content alone allows
  (`ImplementsContract`).
* Cache policy: the closest handler wins, upstream never does
  (`ClosestCachePolicy`), public implies anonymous (`PublicIsAnonymous`) and the
  same for everybody (`PublicDependsOnTheUrlAlone`).
* Caches: what is shared is anybody's (`SharedAnswersAreAnybodys`), a hit is
  what the service would have promised (`HitsKeepThePromise`), failures and
  saves do not outlive 900 seconds (`OutagesAreForgotten`,
  `SavesAreForgotten`).
* Clients and consumer key: upstream is only asked what it can serve
  (`UpstreamIsGuarded`).
* Errors: 5xx and only 5xx are reported, errors are logged, with the right user
  (`FailuresAreReported`); for any configuration one answer (`OneAnswer`,
  `SilenceIsTheRoutesOwn`), redacted (`Redacted`), reported as marked
  (`ReportedAsMarked`), by the first handler (`TheFirstHandlerDecides`).
* Query handling: servable, documented, helpful, compatible
  (`VariablesAreServable`, `DocumentedIsAccepted`,
  `CorrectingTheBlamedParametersIsEnough`, `OversizedSavesAreClamped`).
* Transformers: conforming (`AnswersConform`), complete
  (`NothingNewerIsMissing`), attributable (`OneUtmSource`), the same old and new
  (`LegacyFeedAgrees`).

## 2. The modules

An arrow reads "is extended by":

```
RestErrors -> GraphQLErrors ------------------------------+--> ErrorPipeline
    |                                                     |
    v                                                     v
Texts -> ProxyInputs -> ClientRequests ------------> ProxyServer -> ProxyProperties
  | \        |                |                           ^           ^     :
  |  \       |                +-> ProxyAnswers            |           |     : INSTANCE
  |   \      |                      |      +-> ProxyContract . . . . .|. . .:
  |    \     |                      +-> EdgeCache         |           |
  |     +----|--> HeaderUtils ----------------------------+           |
  |          +-> OpenApiOperations -----------------------------------+
  |                    |
  +-> GraphDocuments   +------------------> RouteHandling
        +-> OpenApiSchemas, ResponseTransform ---^
                                ^
                     Arrays ----+
```

`MCProxyServer`, `MCRouteHandling`, `MCErrorPipeline` and `MCEdgeCache` are the
instances for TLC of `ProxyProperties`, `RouteHandling`, `ErrorPipeline` and
`EdgeCache`. `X_proofs` has the proofs about `X`. Those about `ProxyServer` come
in three parts: `ProxyServer_proofs` has the lemmas about its operators and
restates the contract in the server's terms, `ProxyIsolation_proofs` extends it
with what follows the cookies, `ProxyConformance_proofs` extends that with what
a client may rely on. `Common_proofs` and `ProxyInputs_proofs` hold the lemmas
that several of them need.

**Pure parts**, one operator per function of the source, with its name:

* **Texts**: the strings of a request and JavaScript's conversions of them
  (`String`, `parseInt`, `toLowerCase`) as function constants with assumptions;
  `MCTexts` gives them JavaScript's values on the strings the runs use. Arrays,
  which Express makes of repeated parameters, are values of their own: they have
  a `toString` and no `toLowerCase`.
* **HeaderUtils**, **ProxyInputs**, **ClientRequests**: the header rules, the
  three `inputs.ts`, the requests as the handlers read them.
* **RestErrors**, **GraphQLErrors**: the errors of the service and the
  `shouldHandleError` of Sentry; the chain of `GraphQLErrorHandler`.
* **OpenApiOperations**, **OpenApiSchemas**: what `openapi.yml` says, and the
  generated types after it: parameters and responses of the operations, and the
  documents they answer with.
* **GraphDocuments** (external, but for the generated types): the documents the
  two queries of the service select from the graphs, and how a graph executes
  them with the arguments of the query (`status`, `sort`, `pagination`). The
  query sorts by the time a save was created, to the second; of saves created in
  the same second nothing says which comes first, so that a graph answers with
  one of several lists.
* **Arrays**, **ResponseTransform**: `Array.prototype.filter`; the three
  `response.ts`, item by item. A URL is a page, a sequence of search
  parameters, and whether it is well formed (no lone surrogate in it), or it does
  not parse: `URL` replaces a lone surrogate, `encodeURIComponent` throws on one.
  The legacy feed's weights and ratios that are halves are written doubled, as
  integers.

**State machines:**

* **ProxyServer**. An action is a middleware, a handler up to its await, or a
  continuation after it.

  | variable | in the code |
  |---|---|
  | `running` | the request whose handlers are on the JavaScript stack |
  | `pc[r]` | the next middleware or continuation of request `r` |
  | `input[r]` | method, path, headers, cookies, query, body as received |
  | `req[r]` | `req.user`, `req.auth`, `req.consumer_key` |
  | `res[r]` | status, headers (each with the session it came from), body, sent |
  | `client[r]`, `call[r]`, `reply[r]` | the GraphQLClient, the request as it was sent, how it settled |
  | `err[r]` | the argument of `next(error)` |
  | `sentry[r]`, `log[r]` | what was reported and logged for the request |

  `Receive` covers everything before `express.json()` (which never waits or
  fails); `NoBodyToParse`, `AwaitBody`, `ParseBody`, `RejectBody` are
  `express.json()`; the names of the others are those of the handlers. A body
  that the client aborts is one `express.json()` fails on; a client that closes
  the connection later changes nothing the handlers can see. Documents and
  headers carry an `owner` or `from`: the user whose cookies upstream was asked
  with. The code has no such field; it is what isolation is stated with. Nor has
  it `times` of a call and `sends` of a response, which count how often upstream
  was asked and the response sent for a request, so that a second time shows even
  where it repeats the first; no guard reads them. A slot
  is reused by later requests, as `Receive` may fire again once it is answered.
* **RouteHandling**: a query through its route's `handleQueryParameters`, the
  execution of the query by the graph, the transformation of what comes back.
* **ErrorPipeline**: the generic server base. `given` is the argument of
  `buildServer`, whole, in part or missing; a route answers, fails, does both,
  or consults `GraphQLErrorHandler` with handlers of its own, and what it leaves
  runs through the not-found, Sentry and error handlers. The error callback
  returns, throws or answers.
* **ProxyAnswers**, **ProxyContract**: what a client is promised, without
  middleware, client or upstream: `Ask`, then one `Reply` that
  `Promised(request, answer)` allows. `Promised` refers to the request alone, so
  implementing it is a non-interference statement as well as a table of the
  API's answers.
* **EdgeCache** (external): a shared cache and a browser's cache behind it, in
  front of a service that keeps `Promised`. A cache stores by URL, may store what
  the policy allows, and serves what is fresh. The browser's session changes
  under its cache.
* **ProxyProperties**: the properties of ProxyServer, the refinement mapping to
  ProxyContract, the inductive invariant, and the statements of comments and
  `openapi.yml` that the code does not keep.

ProxyServer reduces the document a route makes to its kind and owner, and lets
a transformer succeed or throw (`unreadable`); RouteHandling shows what the
documents are. They share the operators of ProxyInputs. ProxyServer uses the
error operators as the routes do, ErrorPipeline with everything they allow.
EdgeCache is composed with the contract and not with ProxyServer: run `pair`
and run `wide` show that ProxyServer implements the contract.

Definitions introduced by a comment starting with "Slip:" are variants of the
definition below them with one plausible mistake. No model uses them; each shows
that a property would notice (`PROJECT.json`, "mutants").

Cookies are reduced to which of the three session cookies are present and whose
they are; error bodies to the leading digits of the identifier that the source
gives each of them, the parameters blamed, and whose upstream document is
quoted; titles, excerpts and the like to members of a small set. No property
distinguishes more.

## 3. The runs

| run | instance | shows |
|---|---|---|
| `pair` | two slots, six kinds of request, upstream replies with and without `Cache-control` and `Set-Cookie`, with fairness | type correctness, isolation, public is anonymous and the same for all, the contract, that no request is forgotten or sent back and every one is answered |
| `wide` | one slot, some 150 requests: every path with every form of key, counts and locales per route, every subset of session cookies, query key against header key, methods, bodies that are malformed or aborted; repeated headers upstream | cache policy, reports, guarded upstream, at most one call and one answer (a retry in the route, an answer followed by `next()` would show), the contract |
| `development` | as `wide`, `NODE_ENV` not set | no policy at all in development |
| `route_handling` | 420 queries (15 counts at and beside every bound, malformed, an array, absent; 7 locales; 4 pairs of region parameters) on each route; libraries of 0, 1, 3 and 6 of six saves of every kind; slates of up to two recommendations over four URLs, with three values of `utmSource`, and some whose image URL is ill formed | the properties of query handling and of the transformers |
| `error_pipeline` | every subset of the options at each level, three kinds of callback, errors of three statuses and every Sentry mark, up to two handlers of a route's own | the properties of the generic server base |
| `edge_cache` | two URLs, six kinds of request with and without key and session, two users, a clock that steps by 450 seconds, each time remembered up to 900 | the four properties of caches |

**Bounds.** Two slots are enough for what two requests can do to each other: no
action reads the slots of more than two requests, and slots are reused, so that
sequences of requests on one slot are covered too. `pair` has few kinds of
request because what it is about is overlap, `wide` has all of them and no
overlap; the theorems of section 4 close the gap for the isolation properties.
Two users and nobody suffice to tell "mine" from "another's". Six saves are more
than a count of 1 asks for and fewer than 20, so that lists are cut and are not;
among them are an archived one, one of an unknown type, two that were made in
the same second, and some that were last changed in another order than they were
made. Two recommendations tell items
that are mapped one by one from items that are not; four URLs have no, one or
two `utm_source` or do not parse. Two handlers of a route's own are enough for
"the first that answers" (and the theorem is about any number). Two clock steps
are a lifetime, so that an entry is stored fresh, half-aged and stale; `Horizon`
is what the properties look back, and times beyond it are cut off at it. The
state spaces are finite with no bound on steps: a slot's `sentry` and `log` are
emptied by `Receive`.

**Fairness** (`pair` only). A handler on the stack runs on (`WF` of `Sync`): the
event loop does not stop inside synchronous code. A call settles (`WF` of
`UpstreamSettles`): fetch resolves or rejects, at the latest by its own timeout.
A continuation that is ready again and again gets its turn (`SF` of `Wake`):
Node's queues are first in, first out. `WF` would not do, because a continuation
is disabled while another request's handler is on the stack. Nothing is assumed
about clients: bodies may never arrive, and `EventuallyAnswered` excepts those.

**Deadlock** is checked in all runs; an answered slot can always receive.

### Where documents and code disagree

Runs that end in a violation, each with one property that quotes a comment or
`openapi.yml` and that the code does not satisfy:

| run | stated | found |
|---|---|---|
| `empty_key` | "request must include a consumer_key" | `?consumer_key=` with a header passes the check (`\|\|` on truthiness) and an empty key is sent (`??`) |
| `incomplete_session` | 401 without all auth parameters | `fromRequest` never returns null; the request goes upstream |
| `repeated_headers` | "currently forwards ALL headers" | of several `Set-Cookie` headers the last one wins |
| `undeclared_answers` | each operation's statuses, as `application/json` | errors are `text/html` (`res.send` of a string); recent-saves answers 400 where 404 is declared, recommendations the other way round; 401 without a key is undeclared on the public routes |
| `timeouts` | 504 when upstream times out | the generic 500 |
| `global_recs_count` | count up to 50 | rejected above 30 |

The contract and the other properties describe what the code does in these
cases, not what the documents say. Four more observations are built into the
models and are no disagreement with a document: a request without a key may be
served from the shared cache, because the key may travel in a header and the
policy names no header (`HitsKeepThePromise` is therefore stated with the key
put in); if a service sets Sentry options but no `shouldHandleError`, Sentry's
own rule applies, which reads nothing but the status that an error names (400 for
those of body-parser) and ignores `FORCE` and `SUPPRESS` (`ReportedAsMarked` is
about services that leave the Sentry options out); a failure on a public
route is cached as long as data (`OutagesAreForgotten` bounds it); and an image
URL with a lone surrogate in it fails the legacy feed alone, whose
`encodeURIComponent` throws on it (`LegacyFeedAgrees` says that this is the only
difference).

## 4. The proofs

TLAPS checks the following for every value of the constants that satisfies the
named assumptions: any number of requests, users, queries, errors, handlers,
header names, saves, recommendations, search parameters and string conversions,
any step of the clock.

| module | theorems |
|---|---|
| `ProxyIsolation_proofs` | `TypeCorrect` (`TypeOK`), `Isolation` (`IsolationInv`), `SavesStay` (`SavesStayWithTheirSession`), `PublicAnonymous` (`PublicIsAnonymous`) |
| `ProxyConformance_proofs` | `Guarded` (`UpstreamIsGuarded`), `NothingTwice` (`AtMostOnce`), `ClosestPolicy` (`ClosestCachePolicy`), `Reported` (`FailuresAreReported`), `Implements` (`ImplementsContract`), `PublicByUrl` (`PublicDependsOnTheUrlAlone`), `NobodyForgotten` (`NobodyIsForgotten`), `StepsAreProgress` (`EveryStepIsProgress`) |
| `RouteHandling_proofs` | `RouteTypeCorrect` (`TypeOK`), `Servable` (`VariablesAreServable`), `Clamped` (`OversizedSavesAreClamped`), `DocumentedAccepted` (`DocumentedIsAccepted`), `CorrectingIsEnough` (`CorrectingTheBlamedParametersIsEnough`), `Conformity` (`AnswersConform`), `TheNewestAreAnswered` (`NothingNewerIsMissing`), `Attribution` (`OneUtmSource`), `FeedsAgree` (`LegacyFeedAgrees`), the last four from `DocumentsAreServed` |
| `ErrorPipeline_proofs` | `AnsweredOnce` (`OneAnswer`), `SilenceExplained` (`SilenceIsTheRoutesOwn`), `ExceptionsAreRedacted` (`Redacted`), `MarksAreHeeded` (`ReportedAsMarked`), `FirstHandlerDecides` (`TheFirstHandlerDecides`) |
| `EdgeCache_proofs` | `SharedCacheIsAnybodys` (`SharedAnswersAreAnybodys`), `HitsArePromised` (`HitsKeepThePromise`), `OutagesEnd` (`OutagesAreForgotten`), `SavesEnd` (`SavesAreForgotten`), from `CachesInvariant` |

`Common_proofs`, `ProxyInputs_proofs` and `ProxyServer_proofs` hold lemmas about
the operators the machines are built from: what `filter` keeps, for sequences of
every length, the types of errors, queries and clients, which parameters are kept
and which defaulted, that `NaN` is no valid count, what `send`, `cacheControl`,
`forwardHeaders` and `authenticateClient` change, and which error each failure is
told as (`JsonErrors`, `ProgramErrors`, `HandledErrors`, `UpstreamErrors`).

**Isolation.** `SavesStayWithTheirSession` speaks of sent responses; it is not
inductive, because it says nothing of the auth, the client, the call, the reply
and the error that the response is made of. `IsolationInv` follows the cookies
along that path, request by request (`Isolated(r)`):

1. `OnlyRoutedRequestsAreHandled`: a route's handlers see only requests routed
   to them that have a key;
2. `NoReplyBeforeTheCallSettles`: the slot holds no earlier request's reply when
   the call is made (without it, changing `call` could turn an old reply into
   saves);
3. `OnlyOwnCookies`: auth, call, reply, error, body and headers come from the
   request's own cookies or from none;
4. `OnlyWholeSessionsGetSaves`: usable data of the web graph needs a complete
   session, and errors never carry saves;
5. `OtherRoutesAreAnonymous`: on the other routes nothing comes from cookies;
6. `SavesAreNeverPublic`: the public policy is set on other paths only, and the
   response middleware cannot set it (`CacheControlIsNotForwarded`, from the
   block list and the conversion to lower case).

`TypeOK` and `IsolationInv` are inductive together: `TypeOK` needs item 1,
because `Handled` is typed for the three routes only. The argument splits in a
step of the request itself (`StepIsIsolated`, `ResponseStepIsIsolated`) and a
step of another (`OthersAreKept`, `KeptIsIsolated`).

**Conformance.** What the properties say of answers is decided earlier, by the
handlers a request passes. Two more invariants follow a request along them, each
inductive with those before it:

1. `ProgressInv` says when things come about: nothing is asked before the
   handler, a call is that of an accepted request with a key, an answered
   request is over, and the counts of calls and sends never pass one
   (`AskedAndAnsweredOnce`). `UpstreamIsGuarded`
   and `AtMostOnce` follow.
2. `ConformanceInv` says what a request has at each place of its way: which
   replies and errors are there (`OnTheWay`), which policy has been set
   (`PolicyFollows`), that the answer, or the answer its error will be told as,
   is one the contract promises (`AnswersArePromised`), that the user tags are
   those of its cookies (`TagsAreTheUsers`), and what has been reported and
   logged (`ReportsFollow`). `ClosestCachePolicy` and `FailuresAreReported` are
   what is left of it when the request is done.

The refinement maps `asked[r]` to the input of `r` and `answer[r]` to its
response once it is sent. `Receive` is an `Ask`; `ServerHealth`,
`RespondWithData` and `ErrorHandler` are a `Reply`, promised by
`AnswersArePromised`; every other action is a stutter. `Promises`, in
`ProxyServer_proofs`, is the step from the tables of ProxyAnswers to the
server's terms.

`PublicDependsOnTheUrlAlone` compares two requests. `DeterminedInv` makes it a
statement about each: on the public routes the response is, at every place, a
function of the URL and of how upstream settled (`UrlAnswer`), and the public
policy is set nowhere else.

**Progress.** `HandlersLead` has one step per action: where it takes its request
(`Leads`), and that the request is on the stack there exactly if a handler is
next. `NobodyIsForgotten` is inductive with it, given that `ConformanceInv`
leaves no request hanging: every upstream failure is told as some error, because
the last of the default handlers recognises all of them. As `Leads` only goes
down the chain (`Stage`), each request is over after at most twelve steps of its
own. Together these are what `EventuallyAnswered` owes to the code; what is left
of it is that the steps happen, which is what the fairness says.

**Query handling.** The invariant `RouteInv` is that `handled` is what
`handleQueryParameters` makes of `query` until the request is answered. What is
left is about the operators: `WhatIsBlamed` says which parameters
`recommendationsValidate` blames, and correcting them is a change of the query
that the lemmas of `ProxyInputs_proofs` follow through defaults and coercion.

**Documents.** `AnswersConform` and the other properties of answers are not
inductive, as they do not say where an answer comes from. `DocumentServed` does:
the graph answered with one of the documents that its source, the library or the
slate, allows for the accepted count, and the response is the transformer's of
that document. A document that can be read to the end has none of the nulls that
the schema allows (`WholeDocument`). What is left are the transformers, for
documents of any length.

* `filter` is a recursive function, and the library's induction theorems cannot
  be used. `Common_proofs` states induction without an operator: a set of naturals
  that has 0 and with each number the next has all of them (`NaturalsInSet`,
  since otherwise there were a least one outside, by `WFMin`), and the same for
  sequences and `Append` (`SequencesInSet`). Applied to the set of the sequences
  that a lemma holds for, it gives what `filter` returns for an empty sequence,
  a longer one and two put together, and that items keep their order
  (`FilterKeepsTheOrder`).
* `Conformity`: `ReducedItem` and `MappedType` show that one item has the form
  that `openapi.yml` gives it, whatever of it is null; `SavesAnswered` that the
  list has no holes where items are left out; `FeedTypes` is about the two feeds.
* `TheNewestAreAnswered`: `ListedNewestFirst` says how the graph's list lies in
  the library, `SavesAnswered` that the transformer keeps the places of what it
  keeps. A save that is missing though there was room for it would have to be in
  the list, unless the list is as long as was asked for and all in it are as new;
  those are counted by an injection from positions to saves.
* `Attribution`: `SetSearchParam` splits the parameters at the first
  `utm_source`: it is replaced, the later ones are dropped, and filtering out
  `utm_source` gives the same before and after.
* `FeedsAgree`: a legacy answer is made of the same slate as the current one,
  position by position, where all its image URLs encode; `ThrownAssumption` and `FeedTypes` tell an answer from an
  exception.

**Error pipeline.** `PipelineInv` says, step by step, what has been sent,
captured and called: nothing before the error handlers, one report that the
rule of the built server determines after Sentry, one answer in the end. That
the first handler decides needs no induction over the handlers: among the
positions that answer there is a least one (`WFMin` on the naturals).

**Caches.** `CachesInv` says what each store may hold, and relates ages to times:
a failure in a store is at least as old as `quiet`, the time since the last one;
saves in the browser are its session's or at least as old as `since`, the time
since that session began. The promise that shared entries keep is stated with the key put in, and does not
depend on the cookies, so that it carries over from the request that stored the
entry to the one that is served it.

**Assumptions.** `TextsAssumption` and `IntegerLiteralAssumption` (what
JavaScript's conversions do on the few strings in the source and on decimal
numerals), `OwnerAssumption`, `ClientRequestsAssumption` (header names arrive in
lower case, as Node delivers them, cookies only with a Cookie header),
`ProxyAssumption` (distinct markers; upstream header names in lower case, as
fetch delivers them), `ContractAssumption`, `PipelineAssumption`,
`EdgeCacheAssumption` (what the constants range over), `RouteHandlingAssumption`
(also that a library is finite and no two saves in it have the same id, which is
the graph's key of a save), `NullAssumption` (null is no save), `StringAssumption`
(the two texts that the transformers write are texts), `ThrownAssumption` (an
exception is none of the documents a transformer may return).
TLC evaluates each of them in the runs. The one assumption about the outside
that isolation needs is in `UpstreamSettles`: upstream answers with data of the
session it was asked with.

**Only model-checked.** `EventuallyAnswered`: liveness under fairness is out of
the prover's reach. Its safety half is proved, see *Progress*.

## 5. Not modelled

* Automatic answers of Express to HEAD and OPTIONS, ETag and 304 answers,
  case-insensitive paths and trailing slashes; listening and shutdown
  (`main.ts`). A client that closes the connection after its body arrived: the
  handlers neither notice nor check it, and writing to a closed response has no
  effect.
* Sentry's own request scope; morgan; the text of logs.
* Object-valued query parameters (`count[a]=1`): as values without
  `toLowerCase` whose text is no number they behave like the arrays do.
* Caches that revalidate an entry, serve a stale one on errors or honour `Vary`:
  the policies of the service mention none of it.
* The OpenAPI loader, which only the tests use; the values of the configuration
  other than the environment; the types of the graphs' schema that no query of
  the service selects; the deployment and the workflows.

## 6. Plan

Modelled: query handling and transformers, the server with its properties,
contract, liveness and documented disagreements, the generic server base, the
caches. Proved: isolation, conformance with the refinement of the contract,
progress, query handling, the documents of the three routes, the error pipeline,
the caches.

Next, in this order:

1. What EdgeCache takes from the contract as theorems of ProxyServer: that an
   answer the contract promises is stored under the policy it was sent with, so
   that the theorems about caches hold of the server itself and not only of any
   service that keeps the contract.
2. That ProxyServer and RouteHandling agree on what they share: a request that
   reaches `RequestUpstream` is one that RouteHandling serves a document for.
3. Composition of EdgeCache with ProxyServer in one run, should the service come
   to send policies that depend on more than the request.
4. HEAD and OPTIONS, if the service comes to handle either itself.
