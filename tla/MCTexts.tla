------------------------------- MODULE MCTexts -------------------------------
(***************************************************************************)
(* A small universe of strings for the MC modules, with the values that    *)
(* JavaScript's conversions give on it.                                    *)
(***************************************************************************)
EXTENDS Integers, TLC

CONSTANTS
    McNaN, McAbsent,
    CountArray,   \* ["5", "7"], what Express makes of ?count=5&count=7
    OneArray      \* ["1"], what it makes of ?enableRankingByRegion[]=1

Arrays == {CountArray, OneArray}

LowerCase ==
    [s \in {"en-US", "EN-US"} |-> "en-us"] @@
    ("fr-FR" :> "fr-fr" @@ "es-ES" :> "es-es" @@ "it-IT" :> "it-it" @@
     "en-CA" :> "en-ca" @@ "en-GB" :> "en-gb" @@ "de-DE" :> "de-de" @@
     "de-AT" :> "de-at" @@ "de-CH" :> "de-ch" @@
     "Connection" :> "connection" @@ "Keep-Alive" :> "keep-alive" @@
     "Proxy-Authenticate" :> "proxy-authenticate" @@
     "Proxy-Authorization" :> "proxy-authorization" @@ "TE" :> "te" @@
     "Trailers" :> "trailers" @@ "Transfer-Encoding" :> "transfer-encoding" @@
     "Upgrade" :> "upgrade" @@ "Content-Length" :> "content-length" @@
     "Content-Type" :> "content-type" @@ "Content-Encoding" :> "content-encoding" @@
     "User-Agent" :> "user-agent" @@ "Host" :> "host" @@
     "Accept-Encoding" :> "accept-encoding" @@ "Cache-control" :> "cache-control")

Numbers ==
    "-1" :> -1 @@ "0" :> 0 @@ "1" :> 1 @@ "10" :> 10 @@ "20" :> 20 @@
    "21" :> 21 @@ "30" :> 30 @@ "31" :> 31 @@ "50" :> 50 @@ "51" :> 51 @@
    "88" :> 88 @@ "5abc" :> 5 @@ "5,7" :> 5

IntegerLiterals == DOMAIN Numbers \ {"5abc", "5,7"}

LowerOnly ==
    {"", "abc", "fr", "es", "it", "en", "de", "xx", "US", "key", "otherkey",
     "cookie", "set-cookie", "etag", "consumer_key", "apollographql-client-name"}

MCValue ==
    DOMAIN LowerCase \cup {LowerCase[s] : s \in DOMAIN LowerCase}
      \cup DOMAIN Numbers \cup LowerOnly \cup Arrays

MCtoString ==
    [v \in MCValue |-> CASE v = CountArray -> "5,7"
                         [] v = OneArray -> "1"
                         [] OTHER -> v]

MCparseInt ==
    [v \in MCValue |-> IF v \notin Arrays /\ v \in DOMAIN Numbers
                       THEN Numbers[v] ELSE McNaN]

MCtoLowerCase ==
    [v \in MCValue |-> IF v \in Arrays THEN McAbsent
                       ELSE IF v \in DOMAIN LowerCase THEN LowerCase[v]
                       ELSE v]
==============================================================================
