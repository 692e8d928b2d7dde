------------------------------ MODULE EdgeCache ------------------------------
(***************************************************************************)
(* The caches the Cache-Control policies speak to: the shared cache in     *)
(* front of the service (openapi.yml:422 names the CDN) and the private    *)
(* cache of a browser behind it.  Both store by URL, serve what is fresh   *)
(* and need not store anything.  The service behind them answers what      *)
(* ProxyAnswers promises.  A request here is a GET without a body.         *)
(*                                                                         *)
(* The browser's user may log out and another log in; its requests carry   *)
(* the cookies of the session it has.  All times are in seconds.           *)
(***************************************************************************)
EXTENDS ProxyAnswers

CONSTANTS
    Answers,  \* the answers the service may give
    Nothing,  \* no entry, no exchange
    Tick,     \* how far the clock steps
    Horizon   \* how far back it is remembered when something was last seen

ASSUME EdgeCacheAssumption ==
    /\ Answers \subseteq Answer
    /\ Nothing \notin Answers
    /\ \A i \in Traffic : i.method = "GET" /\ i.body = "none"
    /\ Tick \in Nat \ {0}
    /\ Horizon \in Nat
    /\ "key" \in Value

VARIABLES
    shared,   \* what the shared cache stores, by URL
    private,  \* what the browser stores, by URL
    session,  \* the browser's session
    since,    \* the time since that session began
    quiet,    \* the time since the service last answered that upstream failed
    served    \* the exchange that is taking place
vars == <<shared, private, session, since, quiet, served>>

URL(i) == <<i.path, i.query>>
URLs == {URL(i) : i \in Traffic}

Entry(a, age) == [answer |-> a, age |-> age]

IsFailure(a) == \E owners \in SUBSET Owner : IsUpstreamFailure(a, owners)

\* Slip: a digit too many.
lifetimeOfHours(policy) == IF policy = "none" THEN 0 ELSE 9000

\* max-age of the policy; without a policy nothing is stored.
lifetime(policy) == IF policy = "none" THEN 0 ELSE 900

IsFresh(entry) == entry # Nothing /\ entry.age < lifetime(entry.answer.policy)

Origin(i) == {a \in Answers : Promised(i, a)}

\* What reaches the one who asks the shared cache.
Forwarded(i) ==
    IF IsFresh(shared[URL(i)]) THEN {shared[URL(i)]} ELSE {Entry(a, 0) : a \in Origin(i)}

\* A cache may keep an entry or not.
Keeps(store, i, entry) == {store, [store EXCEPT ![URL(i)] = entry]}

Exchange(i, entry, from) == [input |-> i, answer |-> entry.answer, from |-> from]

------------------------------------------------------------------------------
Init ==
    /\ shared = [u \in URLs |-> Nothing]
    /\ private = [u \in URLs |-> Nothing]
    /\ session = Anonymous
    /\ since = 0
    /\ quiet = Horizon
    /\ served = Nothing

\* The shared cache serves the entry, which it has or gets from the service.
Hit(i, entry) ==
    /\ IsFresh(shared[URL(i)])
    /\ served' = Exchange(i, entry, "shared")
    /\ UNCHANGED <<shared, quiet>>

Miss(i, entry) ==
    /\ ~IsFresh(shared[URL(i)])
    /\ shared' \in IF entry.answer.policy = "public, max-age=900"
                   THEN Keeps(shared, i, entry) ELSE {shared}
    /\ quiet' = IF IsFailure(entry.answer) THEN 0 ELSE quiet
    /\ served' = Exchange(i, entry, "origin")

OthersAsk(i) ==
    /\ \E entry \in Forwarded(i) : Hit(i, entry) \/ Miss(i, entry)
    /\ UNCHANGED <<private, session, since>>

\* An entry that comes out of the shared cache has aged there.
BrowserAsks(i) ==
    /\ i.cookies.user = session
    /\ ~IsFresh(private[URL(i)])
    /\ \E entry \in Forwarded(i) :
         /\ Hit(i, entry) \/ Miss(i, entry)
         /\ private' \in IF entry.answer.policy # "none"
                         THEN Keeps(private, i, entry) ELSE {private}
    /\ UNCHANGED <<session, since>>

BrowserHit(i) ==
    /\ i.cookies.user = session
    /\ IsFresh(private[URL(i)])
    /\ served' = Exchange(i, private[URL(i)], "private")
    /\ UNCHANGED <<shared, private, session, since, quiet>>

\* The browser's user logs in or out; its cache is not cleared.
ChangeSession ==
    /\ session' \in Owner \ {session}
    /\ since' = 0
    /\ served' = Nothing
    /\ UNCHANGED <<shared, private, quiet>>

Older(store) ==
    [u \in URLs |->
        LET older == [store[u] EXCEPT !.age = @ + Tick]
        IN  IF store[u] # Nothing /\ IsFresh(older) THEN older ELSE Nothing]

Later(time) == IF time + Tick < Horizon THEN time + Tick ELSE Horizon

Pass ==
    /\ shared' = Older(shared)
    /\ private' = Older(private)
    /\ since' = Later(since)
    /\ quiet' = Later(quiet)
    /\ served' = Nothing
    /\ UNCHANGED session

Next ==
    \/ \E i \in Traffic : OthersAsk(i) \/ BrowserAsks(i) \/ BrowserHit(i)
    \/ ChangeSession \/ Pass

Spec == Init /\ [][Next]_vars

------------------------------------------------------------------------------
(* What the shared cache stores may be shown to anybody: it holds no saves  *)
(* and nothing that quotes a session, whoever asked first (the policies of  *)
(* api/index.ts:17, 29 and of the two public routes).                       *)
SharedAnswersAreAnybodys ==
    \A u \in URLs :
        shared[u] # Nothing =>
            shared[u].answer.owner = Anonymous /\ shared[u].answer.kind # "saves"

WithKey(i) == [i EXCEPT !.consumer_key = "key"]

(* An answer out of the shared cache is one that the service could have     *)
(* given to this very request, if only it names a consumer: the key, which  *)
(* may travel in a header, and the cookies are not part of the URL          *)
(* (recommendations/index.ts:13-17: the key is looked at before the public  *)
(* policy is set).                                                          *)
HitsKeepThePromise ==
    (served # Nothing /\ served.from = "shared") =>
        Promised(WithKey(served.input), served.answer)

(* Failures are cached like data, so an outage outlives its end; but 900    *)
(* seconds after the last failure no client sees one, through whatever      *)
(* caches it asks (recommendations/index.ts:17, v3/index.ts:17).            *)
OutagesAreForgotten ==
    (served # Nothing /\ quiet >= 900) => ~IsFailure(served.answer)

(* The saves of a session that is over are not shown later than 900 seconds *)
(* after its end; nothing but max-age ends it, for the policy names no      *)
(* cookie (api/index.ts:17).                                                *)
SavesAreForgotten ==
    (served # Nothing /\ served.answer.kind = "saves" /\ since >= 900) =>
        served.answer.owner = served.input.cookies.user
==============================================================================
