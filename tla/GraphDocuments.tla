---------------------------- MODULE GraphDocuments ----------------------------
(***************************************************************************)
(* The upstream graphs as the proxy sees them: the types its two queries   *)
(* select from, the arguments they are sent with, and the documents that   *)
(* come back.  A type has the fields that are selected or sorted by.       *)
(***************************************************************************)
EXTENDS Texts, SequencesExt

CONSTANTS
    ID,       \* identifiers
    String,   \* titles, excerpts, names
    Page      \* what a URL is without its search parameters

SearchParam == [name : String, value : String]

\* A URL that does not parse has a page too, and is passed on where nobody parses it;
\* one with a lone surrogate is not well formed.
Url == [valid : BOOLEAN, wellFormed : BOOLEAN, page : Page, search : Seq(SearchParam)]

Scalars == [ID |-> ID, String |-> String, Int |-> Int, Float |-> Nat, Url |-> Url]

Maybe(T) == T \cup {Null}

------------------------------------------------------------------------------
(* The web graph: the saves of the user whose session the request carries.  *)

Image == [url : Scalars.Url]

Item == [typename : {"Item"}, wordCount : Maybe(Scalars.Int), topImage : Maybe(Image),
         title : Maybe(Scalars.String), resolvedUrl : Maybe(Scalars.Url),
         givenUrl : Scalars.Url, excerpt : Maybe(Scalars.String),
         domain : Maybe(Scalars.String)]

\* Of a pending item, and of an item of a type that is added to the graph later,
\* the query selects the type alone.
PendingItem == [typename : {"PendingItem"}]
LaterItem == [typename : {"LaterItem"}]

ItemResult == Item \cup PendingItem \cup LaterItem

SavedItemStatus == {"ARCHIVED", "DELETED", "HIDDEN", "UNREAD"}
SavedItemStatusFilter == SavedItemStatus \ {"DELETED"}
SavedItemsSortBy == {"ARCHIVED_AT", "CREATED_AT", "FAVORITED_AT", "UPDATED_AT"}
SavedItemsSortOrder == {"ASC", "DESC"}

SavedItemsFilter == [statuses : SUBSET SavedItemStatusFilter]
SavedItemsSort == [sortBy : SavedItemsSortBy, sortOrder : SavedItemsSortOrder]
PaginationInput == [first : Scalars.Int]

\* The timestamps saves can be sorted by; only the creation is always known.
Timestamps == {at \in [SavedItemsSortBy -> Maybe(Scalars.Int)] : at["CREATED_AT"] \in Int}

SavedItem == [id : Scalars.ID, status : Maybe(SavedItemStatus), url : Scalars.Url,
              item : ItemResult, at : Timestamps]

SavedItemEdge == [node : Maybe(SavedItem)]
SavedItemConnection == [edges : Maybe(Seq(Maybe(SavedItemEdge)))]
User == [savedItems : Maybe(SavedItemConnection)]
RecentSavesQuery == [user : Maybe(User)]

\* The arguments written in RecentSaves.graphql.
recentSavesFilter == [statuses |-> {"UNREAD"}]

\* Slip: the order of the last change.
recentSavesSortUpdated == [sortBy |-> "UPDATED_AT", sortOrder |-> "DESC"]

recentSavesSort == [sortBy |-> "CREATED_AT", sortOrder |-> "DESC"]

FirstOf(s, n) == SubSeq(s, 1, Min({n, Len(s)}))

\* The orders in which saves may be listed: those with the same key in any.
Sorted(saves, sort) ==
    LET key(s) == s.at[sort.sortBy]
        precedes(s, t) == IF sort.sortOrder = "ASC" THEN key(s) < key(t)
                          ELSE key(s) > key(t)
    IN  {list \in SetToSeqs(saves) :
            \A m, n \in DOMAIN list : m < n => ~precedes(list[n], list[m])}

\* User.savedItems(pagination, filter, sort), of the saves in library: the lists
\* that it may be.
savedItems(library, pagination, filters, sort) ==
    {FirstOf(list, pagination.first) :
        list \in Sorted({s \in library : s.status \in filters.statuses}, sort)}

RecentSavesOf(edges) == [user |-> [savedItems |-> [edges |-> edges]]]

(* The documents the graph may answer with: the saves asked for, or null at *)
(* any of the places where the schema allows it.                            *)
DocumentsOf(nodes) ==
    LET edges == [n \in DOMAIN nodes |-> [node |-> nodes[n]]]
    IN  {RecentSavesOf(edges), RecentSavesOf(Null),
         [user |-> Null], [user |-> [savedItems |-> Null]]}
          \cup {RecentSavesOf([edges EXCEPT ![n] = Null]) : n \in DOMAIN edges}
          \cup {RecentSavesOf([edges EXCEPT ![n].node = Null]) : n \in DOMAIN edges}

RecentSavesDocuments(library, pagination) ==
    UNION {DocumentsOf(nodes) :
        nodes \in savedItems(library, pagination, recentSavesFilter, recentSavesSort)}

------------------------------------------------------------------------------
(* The client API graph: the recommendations for the new tab page.          *)

CorpusItem == [url : Scalars.Url, title : Scalars.String, excerpt : Scalars.String,
               publisher : Scalars.String, imageUrl : Scalars.Url]

CorpusRecommendation == [id : Scalars.ID, tileId : Scalars.Float, corpusItem : CorpusItem]

CorpusSlate == [utmSource : Maybe(Scalars.String),
                recommendations : Seq(CorpusRecommendation)]

NewTabRecommendationsQuery == [newTabSlate : CorpusSlate]

\* CorpusSlate.recommendations(count) of the slate.
newTabSlate(slate, count) ==
    [newTabSlate |->
        [slate EXCEPT !.recommendations = FirstOf(slate.recommendations, count)]]
==============================================================================
