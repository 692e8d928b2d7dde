-------------------------- MODULE ResponseTransform --------------------------
(***************************************************************************)
(* The response transformers of the three routes: from the document of a   *)
(* graph to the document of the API.                                       *)
(***************************************************************************)
EXTENDS GraphDocuments, Arrays

CONSTANT Thrown   \* what a transformer "returns" when it throws

------------------------------------------------------------------------------
(* recent-saves                                                             *)

\* Optional chaining gives up at a null, and ?? makes a null of it.
topImageUrl(item) == IF item.topImage = Null THEN Null ELSE item.topImage.url

reduceGraphItem(savedItem) ==
    LET nestedItem == savedItem.item
    IN  [typename |-> "Save", id |-> savedItem.id,
         resolvedUrl |-> nestedItem.resolvedUrl, givenUrl |-> nestedItem.givenUrl,
         title |-> nestedItem.title, excerpt |-> nestedItem.excerpt,
         domain |-> nestedItem.domain, wordCount |-> nestedItem.wordCount,
         timeToRead |-> Absent, topImageUrl |-> topImageUrl(nestedItem)]

reduceGraphPendingItem(savedItem) ==
    [typename |-> "PendingSave", id |-> savedItem.id, givenUrl |-> savedItem.url]

reduceItem(edge) ==
    CASE edge.node.item.typename = "Item" -> reduceGraphItem(edge.node)
      [] edge.node.item.typename = "PendingItem" -> reduceGraphPendingItem(edge.node)
      [] OTHER -> Null

\* Whether user.savedItems.edges[n].node can be read to the end.
IsWhole(saves) ==
    /\ saves.user # Null
    /\ saves.user.savedItems # Null
    /\ saves.user.savedItems.edges # Null
    /\ \A n \in DOMAIN saves.user.savedItems.edges :
         /\ saves.user.savedItems.edges[n] # Null
         /\ saves.user.savedItems.edges[n].node # Null

\* Slip: the unknown types are not filtered out.
recentSavesResponseUnfiltered(saves) ==
    IF ~IsWhole(saves) THEN Thrown
    ELSE LET edges == saves.user.savedItems.edges
         IN  [data |-> [n \in DOMAIN edges |-> reduceItem(edges[n])]]

recentSavesResponse(saves) ==
    IF ~IsWhole(saves) THEN Thrown
    ELSE LET edges == saves.user.savedItems.edges
             items == [n \in DOMAIN edges |-> reduceItem(edges[n])]
         IN  [data |-> filter(items, ToSet(items) \ {Null})]

------------------------------------------------------------------------------
(* recommendations                                                          *)

\* URLSearchParams.append, which the code does not use.
appendSearchParam(search, param) == Append(search, param)

\* The parameters of a name, and those of other names.
Named(name) == [name : {name}, value : String]
NotNamed(name) == [name : String \ {name}, value : String]

\* The place of the first parameter of a name, 0 if there is none.
firstNamed(search, name) == SelectInSeq(search, LAMBDA p : p.name = name)

\* URLSearchParams.set: the first parameter of the name is replaced, any others
\* are removed; a name that does not occur goes to the end.
setSearchParam(search, param) ==
    LET first == firstNamed(search, param.name)
    IN  IF first = 0 THEN Append(search, param)
        ELSE SubSeq(search, 1, first - 1) \o <<param>>
               \o filter(SubSeq(search, first + 1, Len(search)), NotNamed(param.name))

\* Slip: append for set.
appendUtmSourceTwice(url, utmSource) ==
    [url EXCEPT !.search =
        appendSearchParam(@, [name |-> "utm_source", value |-> utmSource])]

\* For a URL that parses; URL replaces a lone surrogate.
appendUtmSource(url, utmSource) ==
    [url EXCEPT
        !.wellFormed = TRUE,
        !.search = setSearchParam(@, [name |-> "utm_source", value |-> utmSource])]

validateAndSetUtmSource(utmSource) ==
    IF utmSource = Null \/ utmSource = "" THEN "pocket-newtab" ELSE utmSource

mapRecommendation(recommendation, utmSource) ==
    [typename |-> "Recommendation", recommendationId |-> recommendation.id,
     tileId |-> recommendation.tileId,
     url |-> appendUtmSource(recommendation.corpusItem.url,
                             validateAndSetUtmSource(utmSource)),
     title |-> recommendation.corpusItem.title,
     excerpt |-> recommendation.corpusItem.excerpt,
     publisher |-> recommendation.corpusItem.publisher,
     imageUrl |-> recommendation.corpusItem.imageUrl,
     timeToRead |-> Absent]

\* new URL throws on the first URL that does not parse, and with it the whole map.
AllUrlsParse(slate) ==
    \A n \in DOMAIN slate.recommendations :
        slate.recommendations[n].corpusItem.url.valid

recommendationsResponse(recommendations) ==
    LET slate == recommendations.newTabSlate
    IN  IF ~AllUrlsParse(slate) THEN Thrown
        ELSE [data |-> [n \in DOMAIN slate.recommendations |->
                           mapRecommendation(slate.recommendations[n], slate.utmSource)]]

------------------------------------------------------------------------------
(* global-recs                                                              *)

\* Slip: the identifier that is another one on every request.
legacyIdPerRequest(recommendation) == recommendation.id

legacyId(recommendation) == recommendation.tileId

\* For a URL that is well formed; on any other encodeURIComponent throws.
encodeURIComponent(url) == [percentEncoded |-> url]

\* An image URL that is not well formed fails the whole map.
AllImagesEncode(slate) ==
    \A n \in DOMAIN slate.recommendations :
        slate.recommendations[n].corpusItem.imageUrl.wellFormed

mapLegacyFeedItem(recommendation, utmSource) ==
    [id |-> legacyId(recommendation),
     url |-> appendUtmSource(recommendation.corpusItem.url,
                             validateAndSetUtmSource(utmSource)),
     title |-> recommendation.corpusItem.title,
     excerpt |-> recommendation.corpusItem.excerpt,
     domain |-> recommendation.corpusItem.publisher,
     raw_image_src |-> recommendation.corpusItem.imageUrl,
     image_src |-> [direct |-> encodeURIComponent(recommendation.corpusItem.imageUrl),
                    resize |-> "w450"],
     time_to_read |-> Absent]

legacySettings ==
    [spocsPerNewTabs |-> 1, domainAffinityParameterSets |-> <<>>,
     timeSegments |->
        <<[id |-> "week", startTime |-> 604800, endTime |-> 0, weightPosition |-> 2],
          [id |-> "month", startTime |-> 2592000, endTime |-> 604800,
           weightPosition |-> 1]>>,
     recsExpireTime |-> 5400,
     version |-> "6f605b0212069b4b8d3d040faf55742061a25c16"]

globalRecsResponse(recommendations) ==
    LET slate == recommendations.newTabSlate
    IN  IF ~AllUrlsParse(slate) \/ ~AllImagesEncode(slate) THEN Thrown
        ELSE [status |-> 1, spocs |-> <<>>, settings |-> legacySettings,
              recommendations |-> [n \in DOMAIN slate.recommendations |->
                  mapLegacyFeedItem(slate.recommendations[n], slate.utmSource)]]
==============================================================================
