---------------------------- MODULE ClientRequests ----------------------------
(***************************************************************************)
(* What clients send: requests, the paths the server knows, the session    *)
(* cookies and the consumer key.                                           *)
(***************************************************************************)
EXTENDS ProxyInputs

CONSTANTS
    User,        \* the users whose session cookies browsers hold
    HeaderName,  \* the header names in play, in lower case
    Traffic      \* the requests clients make

SessionCookies == {"a95b4b6", "d4a79ec", "159e76e"}

Method == {"GET", "POST"}

HealthPath == "/.well-known/server-health"
RecentSavesPath == "/desktop/v1/recent-saves"
RecommendationsPath == "/desktop/v1/recommendations"
GlobalRecsPath == "/v3/firefox/global-recs"
RoutePaths == {RecentSavesPath, RecommendationsPath, GlobalRecsPath}
MountedPaths == RoutePaths \cup {"/desktop/unknown"}
Path == MountedPaths \cup {HealthPath, "/unknown"}

(* The cookies of a request: the session cookies that are present, and the  *)
(* user they belong to.                                                     *)
NoCookies == [user |-> Anonymous, names |-> {}]
Cookies == [user : User, names : SUBSET SessionCookies] \cup {NoCookies}

(* How express.json() fails on a body that does not parse, and on one that  *)
(* the client stops sending: it closes the connection halfway.              *)
bodyError == [malformed |-> "SyntaxError", aborted |-> "request aborted"]

(* headers holds the names of all the headers of a request, cookies and     *)
(* consumer_key the content of the two the proxy reads itself.              *)
Input == [method : Method, path : Path,
          body : {"none", "json"} \cup DOMAIN bodyError,
          headers : SUBSET HeaderName, cookies : Cookies,
          consumer_key : Value \cup {Absent}, query : Query]

ASSUME ClientRequestsAssumption ==
    /\ Owner = User \cup {Anonymous}
    /\ Anonymous \notin User
    /\ HeaderName \subseteq Value
    /\ Traffic \subseteq Input
    /\ \A i \in Traffic : i.cookies # NoCookies => "cookie" \in i.headers

\* The requests that are routed to a handler of their own.
IsHealthCheck(i) == i.method = "GET" /\ i.path = HealthPath
IsRouted(i) == i.method = "GET" /\ i.path \in RoutePaths

route(i) ==
    CASE i.path = RecentSavesPath -> "recent-saves"
      [] i.path = RecommendationsPath -> "recommendations"
      [] i.path = GlobalRecsPath -> "global-recs"

Handled(i) == handleQueryParameters(route(i), i.query)

HasConsumerKey(i) == Truthy(i.query.consumer_key) \/ Truthy(i.consumer_key)

\* The session that upstream finds in a set of cookies: all of them are needed.
Session(cookies) ==
    IF cookies.names = SessionCookies THEN cookies.user ELSE Anonymous
==============================================================================
