--------------------------- MODULE MCRouteHandling ---------------------------
(***************************************************************************)
(* Small queries, libraries and slates for RouteHandling.                  *)
(***************************************************************************)
EXTENDS RouteHandling, MCTexts

CONSTANTS s1, s2, s3, s4, s5, s6, news, blog, image

\* Every count at or next to a bound, the malformed ones and an array; the
\* locales in three spellings, an unknown one, an array and none.
Counts == {Absent, "", "0", "1", "20", "21", "30", "31", "50", "51", "88", "-1",
           "5abc", "abc", CountArray}
Locales == {Absent, "", "en-US", "EN-US", "en-us", "xx", CountArray}
Regions == {<<Absent, Absent>>, <<"US", "0">>, <<"US", "1">>, <<Absent, OneArray>>}

MCQueries ==
    {[consumer_key |-> "key", count |-> c, locale |-> l, locale_lang |-> l,
      region |-> g[1], enableRankingByRegion |-> g[2]] :
        c \in Counts, l \in Locales, g \in Regions}

Strings == {"", "text", "utm_source", "q", "other", "pocket-newtab", "pocket-de"}

Link(page, search) ==
    [valid |-> TRUE, wellFormed |-> TRUE, page |-> page, search |-> search]
Param(name, value) == [name |-> name, value |-> value]

------------------------------------------------------------------------------
\* Saves of every type, two of them with a last change in another order than
\* their creation, two created in the same second, one archived.
Parsed(title, topImage) ==
    [typename |-> "Item", wordCount |-> Null, topImage |-> topImage, title |-> title,
     resolvedUrl |-> Null, givenUrl |-> Link(news, <<>>), excerpt |-> Null,
     domain |-> title]
SavedAt(id, status, item, created, updated) ==
    [id |-> id, status |-> status, url |-> Link(blog, <<>>), item |-> item,
     at |-> [by \in SavedItemsSortBy |->
               CASE by = "CREATED_AT" -> created [] by = "UPDATED_AT" -> updated
                 [] OTHER -> Null]]

Saves ==
    {SavedAt(s1, "UNREAD", Parsed("text", [url |-> Link(image, <<>>)]), 1, 9),
     SavedAt(s2, "UNREAD", [typename |-> "PendingItem"], 2, 2),
     SavedAt(s3, "UNREAD", Parsed(Null, Null), 3, 8),
     SavedAt(s4, "ARCHIVED", Parsed("text", Null), 4, 4),
     SavedAt(s5, "UNREAD", [typename |-> "LaterItem"], 5, 5),
     SavedAt(s6, "UNREAD", Parsed("", [url |-> Link(image, <<>>)]), 3, 6)}

MCLibraries == {library \in SUBSET Saves : Cardinality(library) \in {0, 1, 3, 6}}

------------------------------------------------------------------------------
\* Slates whose URLs have no, one or several utm_source parameters, or do not
\* parse; with an image URL that is not well formed in front of another or behind
\* it; with, without and with an empty utmSource.
Searches ==
    {<<>>, <<Param("q", "other")>>,
     <<Param("utm_source", "other"), Param("q", "text"), Param("utm_source", "text"),
       Param("q", "other")>>}
Urls == {Link(news, search) : search \in Searches}
          \cup {[Link(blog, <<>>) EXCEPT !.valid = FALSE]}

Recommended(id, url) ==
    [id |-> id, tileId |-> 7,
     corpusItem |-> [url |-> url, title |-> "text", excerpt |-> "", publisher |-> "q",
                     imageUrl |-> Link(image, <<>>)]]

\* A recommendation whose image URL has a lone surrogate.
IllFormed(id, url) ==
    [Recommended(id, url) EXCEPT !.corpusItem.imageUrl.wellFormed = FALSE]

MCSlates ==
    {[utmSource |-> u, recommendations |-> rs] :
        u \in {Null, "", "pocket-de"},
        rs \in {<<>>} \cup {<<Recommended(s1, a)>> : a \in Urls}
                 \cup {<<Recommended(s1, a), Recommended(s2, b)>> : a, b \in Urls}
                 \cup {<<IllFormed(s1, a)>> : a \in Urls}
                 \cup {<<Recommended(s1, a), IllFormed(s2, a)>> : a \in Urls}}
==============================================================================
