---------------------------- MODULE MCProxyServer ----------------------------
(***************************************************************************)
(* Small instances of ProxyServer.                                         *)
(***************************************************************************)
EXTENDS ProxyProperties, MCTexts

CONSTANTS ann, bob

HeaderNames == {"cache-control", "content-type", "cookie", "set-cookie", "etag",
                "host", "consumer_key"}

Plain(path, key, query) ==
    [method |-> "GET", path |-> path, body |-> "none", headers |-> {"host"},
     cookies |-> NoCookies, consumer_key |-> key, query |-> query]

With(i, user, names) ==
    [i EXCEPT !.headers = @ \cup {"cookie"},
              !.cookies = [user |-> user, names |-> names]]

Ask(count, locale) ==
    [consumer_key |-> Absent, count |-> count, locale |-> locale,
     locale_lang |-> locale, region |-> Absent, enableRankingByRegion |-> Absent]

NoQuery == Ask(Absent, Absent)

Saves(key, count) == Plain(RecentSavesPath, key, Ask(count, Absent))
Recommendations(path, key, count, locale) == Plain(path, key, Ask(count, locale))

(* Two requests at a time: the sessions of two users, a request without a   *)
(* session, an anonymous route asked with cookies, one that fails early.    *)
PairTraffic ==
    {With(Saves("key", Absent), ann, SessionCookies),
     With(Saves("key", Absent), bob, SessionCookies),
     Saves("key", Absent),
     With(Recommendations(RecommendationsPath, "key", Absent, "en-US"), ann,
          SessionCookies),
     Recommendations(RecommendationsPath, "otherkey", Absent, "en-US"),
     [Saves("key", Absent) EXCEPT !.body = "malformed"]}

PairUpstreamHeaders ==
    {<<>>,
     <<[name |-> "cache-control", text |-> "public, max-age=900"],
       [name |-> "set-cookie", text |-> "renewed"]>>}

UpstreamTexts == {"public, max-age=900", "renewed", "first", "second", "upstream",
                  "application/graphql"}

(* One request at a time, of every kind.                                    *)
Keys == {Absent, "", "key"}
WideTraffic ==
    LET paths == {Plain(p, k, Ask(Absent, "en-US")) : p \in Path, k \in Keys}
        counts == {Recommendations(p, "key", c, l) :
                     p \in RoutePaths, c \in {Absent, "0", "20", "21", "30", "31", CountArray, "abc"},
                     l \in {Absent, "EN-US", "xx", CountArray}}
        sessions == {With(Saves("key", Absent), ann, names) :
                       names \in SUBSET SessionCookies}
        queryKeys == {[Saves(k, Absent) EXCEPT !.query.consumer_key = q] :
                        k \in Keys, q \in Keys}
        bodies == {[Saves("key", Absent) EXCEPT !.body = b, !.method = m] :
                     b \in {"none", "json", "malformed", "aborted"}, m \in Method}
    IN  paths \cup counts \cup sessions \cup queryKeys \cup bodies

WideUpstreamHeaders ==
    PairUpstreamHeaders \cup
      {<<[name |-> "set-cookie", text |-> "first"],
         [name |-> "set-cookie", text |-> "second"],
         [name |-> "etag", text |-> "upstream"],
         [name |-> "content-type", text |-> "application/graphql"]>>}
==============================================================================
