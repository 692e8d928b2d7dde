----------------------------- MODULE MCEdgeCache -----------------------------
(***************************************************************************)
(* Two URLs behind the caches, asked with every consumer key and session.  *)
(***************************************************************************)
EXTENDS EdgeCache, MCTexts

CONSTANTS ann, bob

HeaderNames == {"cookie", "host"}

Get(path, key, locale) ==
    [method |-> "GET", path |-> path, body |-> "none", headers |-> {"host"},
     cookies |-> NoCookies, consumer_key |-> key,
     query |-> [[p \in Parameter |-> Absent] EXCEPT !.locale = locale]]

With(i, user) ==
    [i EXCEPT !.headers = @ \cup {"cookie"},
              !.cookies = [user |-> user, names |-> SessionCookies]]

MCTraffic ==
    {Get(RecommendationsPath, Absent, "en-US"), Get(RecommendationsPath, "key", "en-US"),
     With(Get(RecommendationsPath, "key", "en-US"), ann),
     Get(RecentSavesPath, "key", Absent), With(Get(RecentSavesPath, "key", Absent), ann),
     With(Get(RecentSavesPath, "key", Absent), bob)}

\* Data, and one failure that may quote the session and one that does not.
MCAnswers ==
    {a \in [status : {200, 401, 500}, kind : {"error", "saves", "recommendations"},
            id : {"none", "810b0a84", "cd7495a6", "a03b69b9"}, owner : Owner,
            policy : Policies] :
        (a.status = 200) = (a.kind # "error") /\ (a.status = 200) = (a.id = "none")}
==============================================================================
