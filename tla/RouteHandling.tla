---------------------------- MODULE RouteHandling ----------------------------
(***************************************************************************)
(* What a route does with one request, from the query to the document it   *)
(* answers with: every query is handled by every route, the graph executes *)
(* what the route asks of it, and the route transforms what comes back.    *)
(* The server around the routes, and failed calls, are in ProxyServer; a   *)
(* transformer that throws is the outcome "unreadable" there.              *)
(***************************************************************************)
EXTENDS OpenApiOperations, OpenApiSchemas, ResponseTransform

CONSTANTS
    Queries,     \* the queries handled
    Libraries,   \* the sets of saves a user may have
    Slates       \* the slates of recommendations there may be

ASSUME RouteHandlingAssumption ==
    /\ Queries \subseteq Query
    /\ \A library \in Libraries :
         /\ library \subseteq SavedItem
         /\ IsFiniteSet(library)
         /\ \A s, t \in library : s.id = t.id => s = t
    /\ Slates \subseteq CorpusSlate

\* null is no save.
ASSUME NullAssumption == Null \notin Save \cup PendingSave

\* The texts that the transformers write are texts.
ASSUME StringAssumption == {"utm_source", "pocket-newtab"} \subseteq String

\* An exception is not one of the documents.
ASSUME ThrownAssumption ==
    Thrown \notin RecentSavesResponse \cup RecommendationsResponse \cup GlobalRecsResponse

VARIABLES
    step,      \* what has been done for the request
    route,     \* the route it is for
    query,     \* its query
    handled,   \* what handleQueryParameters made of the query
    source,    \* the library or the slate the graph answered from
    document,  \* the document it answered with
    response   \* the document the route answers with, or Thrown
vars == <<step, route, query, handled, source, document, response>>

Route == {"recent-saves", "recommendations", "global-recs"}

Init ==
    /\ step = "waiting"
    /\ route = "none"
    /\ query = [p \in Parameter |-> Absent]
    /\ handled = Outcome(NoVariables, NoError)
    /\ source = Absent
    /\ document = Absent
    /\ response = Absent

Handle(r, q) ==
    /\ step = "waiting"
    /\ step' = "handled"
    /\ route' = r
    /\ query' = q
    /\ handled' = handleQueryParameters(r, q)
    /\ UNCHANGED <<source, document, response>>

Accepted == step # "waiting" /\ handled.error = NoError

\* The web graph answers with the saves of a library.
ExecuteRecentSaves ==
    /\ step = "handled" /\ Accepted
    /\ route = "recent-saves"
    /\ step' = "executed"
    /\ source' \in Libraries
    /\ document' \in RecentSavesDocuments(source', [first |-> handled.variables.count])
    /\ UNCHANGED <<route, query, handled, response>>

\* The client API graph answers with recommendations of a slate.
ExecuteRecommendations ==
    /\ step = "handled" /\ Accepted
    /\ route # "recent-saves"
    /\ step' = "executed"
    /\ source' \in Slates
    /\ document' = newTabSlate(source', handled.variables.count)
    /\ UNCHANGED <<route, query, handled, response>>

Transform ==
    /\ step = "executed"
    /\ step' = "transformed"
    /\ response' = CASE route = "recent-saves" -> recentSavesResponse(document)
                     [] route = "recommendations" -> recommendationsResponse(document)
                     [] route = "global-recs" -> globalRecsResponse(document)
    /\ UNCHANGED <<route, query, handled, source, document>>

\* The request is answered; the handler keeps nothing.
Return ==
    /\ \/ step = "transformed"
       \/ step = "handled" /\ handled.error # NoError
    /\ step' = "waiting"
    /\ route' = "none"
    /\ query' = [p \in Parameter |-> Absent]
    /\ handled' = Outcome(NoVariables, NoError)
    /\ source' = Absent
    /\ document' = Absent
    /\ response' = Absent

Next ==
    \/ \E r \in Route, q \in Queries : Handle(r, q)
    \/ ExecuteRecentSaves \/ ExecuteRecommendations
    \/ Transform \/ Return

Spec == Init /\ [][Next]_vars

------------------------------------------------------------------------------
(* The query.                                                               *)

Localised == {"recommendations", "global-recs"}

(* Type correctness: whatever the query, arrays and missing parameters      *)
(* included, the handlers (inputs.ts of the three routes) return well       *)
(* formed variables and one well formed error.                              *)
TypeOK ==
    /\ step \in {"waiting", "handled", "executed", "transformed"}
    /\ step # "waiting" => route \in Route
    /\ query \in Query
    /\ handled.variables \in Variables
    /\ handled.error \in Error

(* What reaches the upstream graph is servable: the count lies in the       *)
(* route's range and the locale is a listed one up to case, even when the   *)
(* query came with arrays, empty strings or trailing garbage               *)
(* (isValidCount, isValidLocale, the clamp of recent-saves).                *)
VariablesAreServable ==
    Accepted =>
        /\ handled.variables.count \in 1..(IF route = "recent-saves" THEN 20 ELSE 30)
        /\ route \in Localised =>
             \E locale \in validLocales :
                /\ handled.variables.locale \in Value
                /\ toLowerCase[locale] = toLowerCase[handled.variables.locale]

(* A request within the documented parameters is accepted, and its count    *)
(* reaches the graph unchanged (openapi.yml:270-285 and 456-467 against     *)
(* inputs.ts of recommendations and recent-saves).                          *)
DocumentedIsAccepted ==
    step # "waiting" =>
    /\ route = "recent-saves" /\ getRecentSavesParameters(query) =>
         /\ Accepted
         /\ query.count # Absent => handled.variables.count = parseInt[query.count]
    /\ route = "recommendations" /\ getRecommendationsParameters(query) =>
         /\ Accepted
         /\ query.count # Absent => handled.variables.count = parseInt[query.count]

(* A rejection blames every parameter at fault and no other, count first:   *)
(* a client that corrects what it is told about is accepted next time       *)
(* (recommendations/inputs.ts:139-160, v3/inputs.ts:66-71).                 *)
CorrectingTheBlamedParametersIsEnough ==
    step = "handled" /\ route \in Localised /\ ~Accepted =>
        LET blamed == ToSet(handled.error.response.parameters)
            corrected == [query EXCEPT
                !.count = IF "count" \in blamed THEN "30" ELSE @,
                !.locale = IF "locale" \in blamed THEN "en-US" ELSE @,
                !.locale_lang = IF "locale" \in blamed THEN "en-US" ELSE @]
        IN  /\ blamed # {}
            /\ handleQueryParameters(route, corrected).error = NoError
            /\ \A p \in blamed :
                 handleQueryParameters(route,
                   IF p = "count" THEN [corrected EXCEPT !.count = query.count]
                   ELSE [corrected EXCEPT !.locale = query.locale,
                                          !.locale_lang = query.locale_lang]
                 ).error # NoError

(* Old Firefox versions that ask recent-saves for more than 20 items are    *)
(* served 20, never turned away (recent-saves/inputs.ts:44-48).             *)
OversizedSavesAreClamped ==
    (step # "waiting" /\ route = "recent-saves" /\ query.count \in IntegerLiteral
        /\ parseInt[query.count] > 20)
    => (Accepted /\ handled.variables.count = 20)

------------------------------------------------------------------------------
(* The document.                                                            *)

Answered == step = "transformed" /\ response # Thrown

(* Whatever the graph may legally answer, the document sent with a 200 is   *)
(* one that the OpenAPI document describes: no null among the saves, every  *)
(* required field there, the types those of the schema (response.ts of the  *)
(* three routes).                                                           *)
AnswersConform ==
    Answered =>
        CASE route = "recent-saves" -> response \in RecentSavesResponse
          [] route = "recommendations" -> response \in RecommendationsResponse
          [] route = "global-recs" -> response \in GlobalRecsResponse

(* The most recent saves are the ones answered: they are unread, of a type  *)
(* Firefox knows, newest first, each once; and an unread save of such a     *)
(* type is missing only if as many other unread ones are as new as it or    *)
(* newer as were asked for, those of unknown types included                 *)
(* (RecentSaves.graphql:3-8, recent-saves/response.ts:73-82).               *)
NothingNewerIsMissing ==
    Answered /\ route = "recent-saves" =>
        LET ids == [n \in DOMAIN response.data |-> response.data[n].id]
            created(id) == (CHOOSE s \in source : s.id = id).at["CREATED_AT"]
            candidates == {s \in source : s.status = "UNREAD"
                             /\ s.item.typename \in {"Item", "PendingItem"}}
        IN  /\ ToSet(ids) \subseteq {s.id : s \in candidates}
            /\ \A m, n \in DOMAIN ids : m < n =>
                 ids[m] # ids[n] /\ created(ids[m]) >= created(ids[n])
            /\ \A s \in candidates : s.id \notin ToSet(ids) =>
                 Cardinality({t \in source \ {s} : t.status = "UNREAD"
                                /\ t.at["CREATED_AT"] >= s.at["CREATED_AT"]})
                   >= handled.variables.count

(* A recommendation can be attributed: its URL carries utm_source exactly   *)
(* once, with the value of the slate or the default, even if it came with   *)
(* one or several; its other parameters are left as they are, in order      *)
(* (recommendations/response.ts:17-41).                                     *)
OneUtmSource ==
    Answered /\ route \in Localised =>
        LET slate == document.newTabSlate
            answered == IF route = "recommendations" THEN response.data
                        ELSE response.recommendations
            utmSources(search) == filter(search, Named("utm_source"))
            others(search) == filter(search, NotNamed("utm_source"))
        IN  \A n \in DOMAIN answered :
              LET url == slate.recommendations[n].corpusItem.url
              IN  /\ answered[n].url.page = url.page
                  /\ others(answered[n].url.search) = others(url.search)
                  /\ utmSources(answered[n].url.search) =
                       <<[name |-> "utm_source",
                          value |-> IF slate.utmSource \in {Null, ""}
                                    THEN "pocket-newtab" ELSE slate.utmSource]>>

(* Old and new Firefox versions are shown the same: what global-recs makes  *)
(* of a document is what recommendations makes of it, item by item, under   *)
(* the legacy names and with the tile identifier.  If recommendations fails *)
(* on a document so does global-recs, which fails alone on an image URL     *)
(* that it cannot encode, and on nothing else (v3/response.ts:19-41 against *)
(* recommendations/response.ts:43-75).                                      *)
LegacyFeedAgrees ==
    step = "transformed" /\ route = "global-recs" =>
        LET current == recommendationsResponse(document)
            items == document.newTabSlate.recommendations
        IN  /\ response = Thrown <=>
                 \/ current = Thrown
                 \/ \E n \in DOMAIN items : ~items[n].corpusItem.imageUrl.wellFormed
            /\ response # Thrown =>
                 /\ DOMAIN response.recommendations = DOMAIN current.data
                 /\ \A n \in DOMAIN current.data :
                      LET old == response.recommendations[n]
                          new == current.data[n]
                      IN  /\ old.id = new.tileId /\ old.domain = new.publisher
                          /\ old.url = new.url /\ old.title = new.title
                          /\ old.excerpt = new.excerpt
                          /\ old.raw_image_src = new.imageUrl
                          /\ old.image_src.direct.percentEncoded = new.imageUrl

------------------------------------------------------------------------------
(* openapi.yml:387-395 documents a count of 1 to 50 for global-recs; the    *)
(* route validates it with the recommendations rules.                       *)
DocumentedGlobalRecsIsAccepted ==
    (step # "waiting" /\ route = "global-recs" /\ query.locale_lang \in validLocales
        /\ getGlobalRecsParameters(query))
    => Accepted
==============================================================================
