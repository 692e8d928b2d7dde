-------------------------------- MODULE Texts --------------------------------
(***************************************************************************)
(* The strings (and string arrays) that reach the proxy in a query or a    *)
(* header, and the JavaScript conversions its handlers apply to them.  The *)
(* conversions are parameters: what is proved holds for any of them, and   *)
(* the MC modules give them the values JavaScript gives on a small set.    *)
(***************************************************************************)
EXTENDS Integers

CONSTANTS
    Value,        \* strings, and the arrays Express makes of a repeated parameter
    Absent,       \* undefined
    Null,         \* null
    NaN,          \* the number that is not a number
    toString,     \* String(v): an array is its elements joined with commas
    parseInt,     \* parseInt(s, 10)
    toLowerCase   \* v.toLowerCase(), Absent for an array, which has no such method

validLocales ==
    {"fr", "fr-FR", "es", "es-ES", "it", "it-IT", "en", "en-CA", "en-GB",
     "en-US", "de", "de-DE", "de-AT", "de-CH"}

forwardHeaderBlockList ==
    {"Connection", "Keep-Alive", "Proxy-Authenticate", "Proxy-Authorization",
     "TE", "Trailers", "Transfer-Encoding", "Upgrade", "Content-Length",
     "Content-Type", "Content-Encoding", "User-Agent", "Host",
     "Accept-Encoding", "Cache-control"}

ASSUME TextsAssumption ==
    /\ Absent \notin Value
    /\ Null \notin Value
    /\ Null # Absent
    /\ NaN \notin Int
    /\ validLocales \subseteq Value
    /\ forwardHeaderBlockList \subseteq Value
    /\ {"", "1", "10", "20", "30"} \subseteq Value
    /\ toString \in [Value -> Value]
    /\ parseInt \in [Value -> Int \cup {NaN}]
    /\ toLowerCase \in [Value -> Value \cup {Absent}]
    /\ \A s \in validLocales \cup forwardHeaderBlockList : toLowerCase[s] # Absent
    /\ parseInt["10"] = 10
    /\ parseInt["20"] = 20
    /\ parseInt["30"] = 30
    /\ \A s \in {"10", "20", "30"} : toString[s] = s

\* JavaScript's notion of a value that counts as true: undefined and the empty
\* string do not, every other string and every array does.
Truthy(v) == v # Absent /\ v # ""

\* v ?? other: only undefined gives way to other, the empty string does not.
OrElse(v, other) == IF v = Absent THEN other ELSE v
==============================================================================
