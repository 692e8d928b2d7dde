-------------------------- MODULE EdgeCache_proofs --------------------------
(***************************************************************************)
(* Proofs about the caches: for any answers, traffic, users, and step of   *)
(* the clock, what they store is what they may, and what went wrong or is  *)
(* over is forgotten after 900 seconds.                                    *)
(***************************************************************************)
EXTENDS EdgeCache, TLAPS

Stored == [answer : Answers, age : Nat]
Store == [URLs -> Stored \cup {Nothing}]
Exchanges == [input : Traffic, answer : Answers, from : {"shared", "origin", "private"}]

CacheTypeOK ==
    /\ shared \in Store
    /\ private \in Store
    /\ session \in Owner
    /\ since \in Nat
    /\ quiet \in Nat
    /\ served \in Exchanges \cup {Nothing}

\* An entry of the shared cache may be served for every request to its URL.
SharedEntries ==
    \A i \in Traffic :
        shared[URL(i)] # Nothing =>
            /\ shared[URL(i)].answer.policy = "public, max-age=900"
            /\ Promised(WithKey(i), shared[URL(i)].answer)

\* No failure in a store is younger than the last one.
FailuresAge(store) ==
    \A u \in URLs :
        store[u] # Nothing /\ IsFailure(store[u].answer) => store[u].age >= quiet

\* Saves in the browser are those of its session, or older than it.
SavesAge ==
    \A u \in URLs :
        private[u] # Nothing /\ private[u].answer.kind = "saves" =>
            private[u].answer.owner = session \/ private[u].age >= since

CachesInv ==
    /\ CacheTypeOK
    /\ SharedEntries
    /\ FailuresAge(shared) /\ FailuresAge(private)
    /\ SavesAge
    /\ HitsKeepThePromise
    /\ OutagesAreForgotten
    /\ SavesAreForgotten

------------------------------------------------------------------------------
(* What a promise says about who may see the answer.                        *)

LEMMA TrafficIsPlain ==
    ASSUME NEW i \in Traffic
    PROVE  /\ i \in Input
           /\ i.method = "GET" /\ i.body = "none" /\ i.body \notin DOMAIN bodyError
           /\ URL(i) \in URLs
BY EdgeCacheAssumption, ClientRequestsAssumption DEF bodyError, URLs

\* Only the two public routes answer publicly, and only once they have a key.
LEMMA PublicPromise ==
    ASSUME NEW i \in Traffic, NEW a, Promised(i, a),
           a.policy = "public, max-age=900"
    PROVE  /\ IsRouted(i) /\ ~IsHealthCheck(i)
           /\ i.path # RecentSavesPath
           /\ PromisedForRecommendations(i, a)
BY TrafficIsPlain
   DEF Promised, PromisedWithoutKey, PromisedForRecentSaves, IsCached, IsRouted,
       IsHealthCheck, HealthPath, RoutePaths, RecentSavesPath, RecommendationsPath,
       GlobalRecsPath

\* A public answer names nobody.
LEMMA RecommendationsAreAnonymous ==
    ASSUME NEW i, NEW a, PromisedForRecommendations(i, a)
    PROVE  a.owner = Anonymous /\ a.kind # "saves"
BY DEF PromisedForRecommendations, IsError, IsUpstreamFailure

\* It was promised to every request for the URL that has a key.
LEMMA PublicForTheUrl ==
    ASSUME NEW i \in Traffic, NEW j \in Traffic, URL(i) = URL(j),
           NEW a, Promised(i, a), a.policy = "public, max-age=900"
    PROVE  Promised(WithKey(j), a)
<1> DEFINE k == WithKey(j)
<1>1. /\ k.path = i.path /\ k.query = i.query /\ k.consumer_key = "key"
      /\ k.method = "GET" /\ k.body = "none"
  BY TrafficIsPlain DEF URL, WithKey, Input
<1>2. /\ IsRouted(i) /\ ~IsHealthCheck(i) /\ i.path # RecentSavesPath
      /\ PromisedForRecommendations(i, a)
  BY PublicPromise
<1>3. HasConsumerKey(k)
  BY <1>1, EdgeCacheAssumption, TextsAssumption DEF HasConsumerKey, Truthy
<1>4. Handled(k) = Handled(i)
  BY <1>1 DEF Handled, route
<1>5. PromisedForRecommendations(k, a)
  BY <1>2, <1>4 DEF PromisedForRecommendations
<1>6. IsRouted(k) /\ ~IsHealthCheck(k) /\ k.path # RecentSavesPath
  BY <1>1, <1>2, TrafficIsPlain DEF IsRouted, IsHealthCheck
<1>7. k.body \notin DOMAIN bodyError
  BY <1>1 DEF bodyError
<1> HIDE DEF k
<1>8. Promised(k, a)
  BY <1>3, <1>5, <1>6, <1>7 DEF Promised
<1> QED BY <1>8 DEF k

\* Saves are those of the user whose cookies asked for them.
LEMMA SavesPromise ==
    ASSUME NEW i \in Traffic, NEW a, Promised(i, a), a.kind = "saves"
    PROVE  a.owner = i.cookies.user
<1>1. CASE i.path = RecentSavesPath
  BY <1>1, TrafficIsPlain
     DEF Promised, PromisedWithoutKey, PromisedForRecentSaves, IsError,
         IsUpstreamFailure, Session
<1>2. CASE i.path # RecentSavesPath
  BY <1>2, TrafficIsPlain, RecommendationsAreAnonymous
     DEF Promised, PromisedWithoutKey, IsError
<1> QED BY <1>1, <1>2

LEMMA Lifetime900 == \A policy : lifetime(policy) \in Nat /\ lifetime(policy) <= 900
BY DEF lifetime

------------------------------------------------------------------------------
(* What the steps of the caches do.                                         *)

\* Everything that comes out of the shared cache.
LEMMA ForwardedEntries ==
    ASSUME CacheTypeOK, SharedEntries, FailuresAge(shared),
           NEW i \in Traffic, NEW entry \in Forwarded(i)
    PROVE  /\ entry \in Stored
           /\ IsFresh(shared[URL(i)]) =>
                /\ entry = shared[URL(i)]
                /\ Promised(WithKey(i), entry.answer)
                /\ entry.answer.kind # "saves"
                /\ entry.age < 900
                /\ IsFailure(entry.answer) => entry.age >= quiet
           /\ ~IsFresh(shared[URL(i)]) =>
                entry.age = 0 /\ Promised(i, entry.answer)
<1> DEFINE e == shared[URL(i)]
<1>1. URL(i) \in URLs
  BY TrafficIsPlain
<1>2. CASE IsFresh(e)
  <2>1. entry = e /\ e # Nothing /\ e \in Stored
    BY <1>1, <1>2 DEF Forwarded, IsFresh, CacheTypeOK, Store
  <2>2. /\ Promised(WithKey(i), e.answer)
        /\ e.answer.policy = "public, max-age=900"
    BY <2>1 DEF SharedEntries
  <2>3. e.answer.kind # "saves"
    <3>1. WithKey(i).body = "none" /\ WithKey(i).method = "GET"
          /\ WithKey(i).path = i.path
      BY TrafficIsPlain DEF WithKey, Input
    <3> QED
      BY <2>2, <3>1, RecommendationsAreAnonymous
         DEF Promised, PromisedWithoutKey, PromisedForRecentSaves, IsCached, IsError,
             bodyError
  <2>4. e.age < 900
    BY <1>2, <2>1, Lifetime900 DEF IsFresh, Stored
  <2>5. IsFailure(e.answer) => e.age >= quiet
    BY <1>1, <2>1 DEF FailuresAge
  <2> QED BY <1>2, <2>1, <2>2, <2>3, <2>4, <2>5
<1>3. CASE ~IsFresh(e)
  BY <1>3 DEF Forwarded, Entry, Origin, Stored
<1> QED BY <1>2, <1>3

LEMMA KeepsStore ==
    ASSUME NEW store \in Store, NEW i \in Traffic, NEW entry \in Stored,
           NEW next \in Keeps(store, i, entry)
    PROVE  /\ next \in Store
           /\ \A u \in URLs : \/ next[u] = store[u]
                              \/ u = URL(i) /\ next[u] = entry
BY TrafficIsPlain DEF Keeps, Store

\* Getting an answer from the shared cache or through it.
LEMMA AskShared ==
    ASSUME CachesInv, NEW i \in Traffic, NEW entry \in Forwarded(i),
           Hit(i, entry) \/ Miss(i, entry), UNCHANGED <<session, since>>
    PROVE  /\ shared' \in Store /\ quiet' \in Nat
           /\ served' \in Exchanges
           /\ SharedEntries' /\ FailuresAge(shared)'
           /\ HitsKeepThePromise' /\ OutagesAreForgotten' /\ SavesAreForgotten'
           /\ quiet' <= quiet
           /\ IsFailure(entry.answer) => entry.age >= quiet'
           /\ entry.answer.kind = "saves" => entry.answer.owner = i.cookies.user
<1>1. /\ entry \in Stored
      /\ IsFresh(shared[URL(i)]) =>
           /\ entry = shared[URL(i)]
           /\ Promised(WithKey(i), entry.answer)
           /\ entry.answer.kind # "saves"
           /\ entry.age < 900
           /\ IsFailure(entry.answer) => entry.age >= quiet
      /\ ~IsFresh(shared[URL(i)]) => entry.age = 0 /\ Promised(i, entry.answer)
  BY ForwardedEntries DEF CachesInv
<1>3. CASE Hit(i, entry)
  <2>1. /\ shared' = shared /\ quiet' = quiet
        /\ served' = [input |-> i, answer |-> entry.answer, from |-> "shared"]
        /\ IsFresh(shared[URL(i)])
    BY <1>3 DEF Hit, Exchange
  <2>2. served' \in Exchanges
    BY <1>1, <2>1 DEF Exchanges, Stored
  <2>3. SharedEntries' /\ FailuresAge(shared)'
    BY <2>1 DEF SharedEntries, FailuresAge, CachesInv
  <2>4. HitsKeepThePromise'
    BY <1>1, <2>1 DEF HitsKeepThePromise
  <2>5. OutagesAreForgotten'
    BY <1>1, <2>1 DEF OutagesAreForgotten, CachesInv, CacheTypeOK, Stored
  <2>6. SavesAreForgotten'
    BY <1>1, <2>1 DEF SavesAreForgotten
  <2> QED BY <1>1, <2>1, <2>2, <2>3, <2>4, <2>5, <2>6 DEF CachesInv, CacheTypeOK
<1>4. CASE Miss(i, entry)
  <2>1. ~IsFresh(shared[URL(i)])
    BY <1>4 DEF Miss
  <2>13. /\ IsFailure(entry.answer) => quiet' = 0
         /\ ~IsFailure(entry.answer) => quiet' = quiet
    BY <1>4, Zenon DEF Miss
  <2>14. \/ /\ entry.answer.policy = "public, max-age=900"
            /\ shared' \in Keeps(shared, i, entry)
         \/ shared' = shared
    BY <1>4, Zenon DEF Miss
  <2>0. served' = [input |-> i, answer |-> entry.answer, from |-> "origin"]
    BY <1>4 DEF Miss, Exchange
  <2>2. entry.age = 0 /\ Promised(i, entry.answer)
    BY <1>1, <2>1
  <2>3. served' \in Exchanges
    BY <1>1, <2>0 DEF Exchanges, Stored
  <2>4. quiet' \in Nat /\ quiet' <= quiet
    BY <2>13 DEF CachesInv, CacheTypeOK
  <2>5. /\ shared' \in Store
        /\ \A u \in URLs : \/ shared'[u] = shared[u]
                           \/ /\ u = URL(i) /\ shared'[u] = entry
                              /\ entry.answer.policy = "public, max-age=900"
    <3>1. shared \in Store
      BY DEF CachesInv, CacheTypeOK
    <3>2. CASE shared' = shared
      BY <3>1, <3>2
    <3>3. CASE /\ entry.answer.policy = "public, max-age=900"
               /\ shared' \in Keeps(shared, i, entry)
      <4>1. entry \in Stored /\ shared' \in Keeps(shared, i, entry)
        BY <1>1, <3>3
      <4>2. /\ shared' \in Store
            /\ \A u \in URLs : \/ shared'[u] = shared[u]
                               \/ u = URL(i) /\ shared'[u] = entry
        BY <3>1, <4>1, KeepsStore
      <4> QED BY <3>3, <4>2, Zenon
    <3> QED BY <2>14, <3>2, <3>3
  <2>6. SharedEntries'
    <3> SUFFICES ASSUME NEW j \in Traffic, shared'[URL(j)] # Nothing
                 PROVE  /\ shared'[URL(j)].answer.policy = "public, max-age=900"
                        /\ Promised(WithKey(j), shared'[URL(j)].answer)
      BY DEF SharedEntries
    <3>1. URL(j) \in URLs
      BY TrafficIsPlain
    <3>2. CASE shared'[URL(j)] = shared[URL(j)]
      BY <3>2 DEF SharedEntries, CachesInv
    <3>3. CASE /\ URL(j) = URL(i) /\ shared'[URL(j)] = entry
               /\ entry.answer.policy = "public, max-age=900"
      BY <2>2, <3>3, PublicForTheUrl
    <3> QED BY <2>5, <3>1, <3>2, <3>3
  <2>7. FailuresAge(shared)'
    <3> SUFFICES ASSUME NEW u \in URLs, shared'[u] # Nothing,
                        IsFailure(shared'[u].answer)
                 PROVE  shared'[u].age >= quiet'
      BY DEF FailuresAge, IsFailure, IsUpstreamFailure, IsError
    <3>1. CASE shared'[u] = shared[u]
      <4>1. shared[u].age >= quiet
        BY <3>1 DEF FailuresAge, CachesInv
      <4>2. shared[u].age \in Nat
        BY <3>1 DEF CachesInv, CacheTypeOK, Store, Stored
      <4> QED BY <2>4, <3>1, <4>1, <4>2 DEF CachesInv, CacheTypeOK
    <3>2. CASE shared'[u] = entry
      BY <2>13, <2>2, <3>2
    <3> QED BY <2>5, <3>1, <3>2
  <2>8. HitsKeepThePromise'
    BY <2>0 DEF HitsKeepThePromise
  <2>9. OutagesAreForgotten'
    <3>1. served'.answer = entry.answer
      BY <2>0
    <3>2. quiet' >= 900 => ~IsFailure(entry.answer)
      BY <2>13
    <3> QED BY <3>1, <3>2, Zenon DEF OutagesAreForgotten
  <2>10. entry.answer.kind = "saves" => entry.answer.owner = i.cookies.user
    BY <2>2, SavesPromise
  <2>11. SavesAreForgotten'
    BY <2>0, <2>10 DEF SavesAreForgotten
  <2>12. IsFailure(entry.answer) => entry.age >= quiet'
    BY <2>13, <2>2
  <2> QED BY <2>3, <2>4, <2>5, <2>6, <2>7, <2>8, <2>9, <2>10, <2>11, <2>12
<1> QED BY <1>3, <1>4

------------------------------------------------------------------------------
LEMMA CachesInit == Init => CachesInv
<1> SUFFICES ASSUME Init PROVE CachesInv
  OBVIOUS
<1>1. \A u \in URLs : shared[u] = Nothing /\ private[u] = Nothing
  BY DEF Init
<1>2. CacheTypeOK
  BY EdgeCacheAssumption, ClientRequestsAssumption DEF Init, CacheTypeOK, Store
<1>3. SharedEntries
  BY <1>1, TrafficIsPlain DEF SharedEntries
<1>4. FailuresAge(shared) /\ FailuresAge(private) /\ SavesAge
  BY <1>1 DEF FailuresAge, SavesAge
<1>5. HitsKeepThePromise /\ OutagesAreForgotten /\ SavesAreForgotten
  BY DEF Init, HitsKeepThePromise, OutagesAreForgotten, SavesAreForgotten
<1> QED BY <1>2, <1>3, <1>4, <1>5 DEF CachesInv

------------------------------------------------------------------------------
(* The steps of the caches.                                                 *)

LEMMA OthersAskKeeps ==
    ASSUME CachesInv, NEW i \in Traffic, OthersAsk(i)
    PROVE  CachesInv'
<1>1. PICK entry \in Forwarded(i) : Hit(i, entry) \/ Miss(i, entry)
  BY DEF OthersAsk
<1>2. UNCHANGED <<private, session, since>>
  BY DEF OthersAsk
<1>3. /\ shared' \in Store /\ quiet' \in Nat
      /\ served' \in Exchanges
      /\ SharedEntries' /\ FailuresAge(shared)'
      /\ HitsKeepThePromise' /\ OutagesAreForgotten' /\ SavesAreForgotten'
      /\ quiet' <= quiet
  BY <1>1, <1>2, AskShared
<1>4. CacheTypeOK'
  BY <1>2, <1>3 DEF CacheTypeOK, CachesInv
<1>5. FailuresAge(private)'
  BY <1>2, <1>3 DEF FailuresAge, CachesInv, CacheTypeOK, Store, Stored
<1>6. SavesAge'
  BY <1>2 DEF SavesAge, CachesInv
<1> QED BY <1>3, <1>4, <1>5, <1>6 DEF CachesInv

LEMMA BrowserAsksKeeps ==
    ASSUME CachesInv, NEW i \in Traffic, BrowserAsks(i)
    PROVE  CachesInv'
<1>1. PICK entry \in Forwarded(i) :
        /\ Hit(i, entry) \/ Miss(i, entry)
        /\ private' \in IF entry.answer.policy # "none"
                        THEN Keeps(private, i, entry) ELSE {private}
  BY DEF BrowserAsks
<1>2. UNCHANGED <<session, since>> /\ i.cookies.user = session
  BY DEF BrowserAsks
<1>3. /\ shared' \in Store /\ quiet' \in Nat
      /\ served' \in Exchanges
      /\ SharedEntries' /\ FailuresAge(shared)'
      /\ HitsKeepThePromise' /\ OutagesAreForgotten' /\ SavesAreForgotten'
      /\ quiet' <= quiet
      /\ IsFailure(entry.answer) => entry.age >= quiet'
      /\ entry.answer.kind = "saves" => entry.answer.owner = i.cookies.user
  BY <1>1, <1>2, AskShared
<1>4. entry \in Stored
  BY ForwardedEntries DEF CachesInv
<1>5. private \in Store /\ quiet \in Nat
  BY DEF CachesInv, CacheTypeOK
<1>6. /\ private' \in Store
      /\ \A u \in URLs : private'[u] = private[u] \/ private'[u] = entry
  <2>1. CASE private' = private
    BY <1>5, <2>1
  <2>2. CASE private' \in Keeps(private, i, entry)
    BY <1>4, <1>5, <2>2, KeepsStore
  <2> QED BY <1>1, <2>1, <2>2, Zenon
<1>7. CacheTypeOK'
  BY <1>2, <1>3, <1>6 DEF CacheTypeOK, CachesInv
<1>8. FailuresAge(private)'
  <2> SUFFICES ASSUME NEW u \in URLs, private'[u] # Nothing,
                      IsFailure(private'[u].answer)
               PROVE  private'[u].age >= quiet'
    BY DEF FailuresAge, IsFailure, IsUpstreamFailure, IsError
  <2>1. CASE private'[u] = private[u]
    <3>1. private[u].age >= quiet
      BY <2>1 DEF FailuresAge, CachesInv
    <3>2. private[u].age \in Nat
      BY <1>5, <2>1 DEF Store, Stored
    <3> QED BY <1>3, <1>5, <2>1, <3>1, <3>2
  <2>2. CASE private'[u] = entry
    BY <1>3, <2>2
  <2> QED BY <1>6, <2>1, <2>2
<1>9. SavesAge'
  <2> SUFFICES ASSUME NEW u \in URLs, private'[u] # Nothing,
                      private'[u].answer.kind = "saves"
               PROVE  private'[u].answer.owner = session \/ private'[u].age >= since
    BY <1>2 DEF SavesAge
  <2>1. CASE private'[u] = private[u]
    BY <2>1 DEF SavesAge, CachesInv
  <2>2. CASE private'[u] = entry
    BY <1>2, <1>3, <2>2
  <2> QED BY <1>6, <2>1, <2>2
<1> QED BY <1>3, <1>7, <1>8, <1>9 DEF CachesInv

LEMMA BrowserHitKeeps ==
    ASSUME CachesInv, NEW i \in Traffic, BrowserHit(i)
    PROVE  CachesInv'
<1> DEFINE e == private[URL(i)]
<1>1. /\ UNCHANGED <<shared, private, session, since, quiet>>
      /\ i.cookies.user = session
      /\ IsFresh(e)
      /\ served' = [input |-> i, answer |-> e.answer, from |-> "private"]
  BY DEF BrowserHit, Exchange
<1>2. URL(i) \in URLs /\ e # Nothing
  BY <1>1, TrafficIsPlain DEF IsFresh
<1>3. e \in Stored
  BY <1>2 DEF CachesInv, CacheTypeOK, Store
<1>4. e.age \in Nat /\ e.age < 900
  BY <1>1, <1>3, Lifetime900 DEF IsFresh, Stored
<1>5. since \in Nat /\ quiet \in Nat
  BY DEF CachesInv, CacheTypeOK
<1>6. served' \in Exchanges
  BY <1>1, <1>3 DEF Exchanges, Stored
<1>7. served'.answer = e.answer /\ served'.input = i /\ served'.from = "private"
  BY <1>1
<1> HIDE DEF e
<1>8. IsFailure(e.answer) => e.age >= quiet
  BY <1>2 DEF FailuresAge, CachesInv, e
<1>9. e.answer.kind = "saves" => e.answer.owner = session \/ e.age >= since
  BY <1>2 DEF SavesAge, CachesInv, e
<1>10. quiet >= 900 => ~IsFailure(e.answer)
  BY <1>4, <1>5, <1>8
<1>11. OutagesAreForgotten'
  <2>1. quiet' = quiet
    BY <1>1
  <2> QED BY <1>7, <1>10, <2>1, Zenon DEF OutagesAreForgotten
<1>12. SavesAreForgotten'
  <2>1. since' = since /\ i.cookies.user = session
    BY <1>1
  <2> QED BY <1>4, <1>5, <1>7, <1>9, <2>1 DEF SavesAreForgotten
<1>13. HitsKeepThePromise'
  BY <1>7 DEF HitsKeepThePromise
<1>14. CacheTypeOK'
  BY <1>1, <1>6 DEF CacheTypeOK, CachesInv
<1>15. SharedEntries' /\ FailuresAge(shared)' /\ FailuresAge(private)' /\ SavesAge'
  BY <1>1 DEF SharedEntries, FailuresAge, SavesAge, CachesInv
<1> QED BY <1>11, <1>12, <1>13, <1>14, <1>15 DEF CachesInv

LEMMA ChangeSessionKeeps ==
    ASSUME CachesInv, ChangeSession
    PROVE  CachesInv'
<1>1. /\ session' \in Owner /\ since' = 0 /\ served' = Nothing
      /\ UNCHANGED <<shared, private, quiet>>
  BY DEF ChangeSession
<1>2. CacheTypeOK'
  BY <1>1 DEF CacheTypeOK, CachesInv
<1>3. SharedEntries' /\ FailuresAge(shared)' /\ FailuresAge(private)'
  BY <1>1 DEF SharedEntries, FailuresAge, CachesInv
<1>4. SavesAge'
  <2> SUFFICES ASSUME NEW u \in URLs, private[u] # Nothing
               PROVE  private[u].age >= 0
    BY <1>1 DEF SavesAge
  <2> QED BY DEF CachesInv, CacheTypeOK, Store, Stored
<1>5. HitsKeepThePromise' /\ OutagesAreForgotten' /\ SavesAreForgotten'
  BY <1>1 DEF HitsKeepThePromise, OutagesAreForgotten, SavesAreForgotten
<1> QED BY <1>2, <1>3, <1>4, <1>5 DEF CachesInv

\* What is left when time passes is what was there, a tick older.
LEMMA OlderStore ==
    ASSUME NEW store \in Store
    PROVE  /\ Older(store) \in Store
           /\ \A u \in URLs :
                Older(store)[u] # Nothing =>
                    /\ store[u] # Nothing
                    /\ Older(store)[u].answer = store[u].answer
                    /\ Older(store)[u].age = store[u].age + Tick
                    /\ store[u].age \in Nat
<1> SUFFICES ASSUME NEW u \in URLs
             PROVE  /\ Older(store)[u] \in Stored \cup {Nothing}
                    /\ Older(store)[u] # Nothing =>
                         /\ store[u] # Nothing
                         /\ Older(store)[u].answer = store[u].answer
                         /\ Older(store)[u].age = store[u].age + Tick
                         /\ store[u].age \in Nat
  BY DEF Older, Store
<1> DEFINE older == [store[u] EXCEPT !.age = @ + Tick]
<1>1. CASE Older(store)[u] = Nothing
  BY <1>1
<1>2. CASE store[u] # Nothing /\ Older(store)[u] = older
  <2>1. store[u] \in Stored
    BY <1>2 DEF Store
  <2>2. older \in Stored /\ older.answer = store[u].answer
        /\ older.age = store[u].age + Tick /\ store[u].age \in Nat
    BY <2>1, EdgeCacheAssumption DEF Stored
  <2> QED BY <1>2, <2>2
<1>3. Older(store)[u] = Nothing \/ (store[u] # Nothing /\ Older(store)[u] = older)
  BY DEF Older
<1> QED BY <1>1, <1>2, <1>3

LEMMA PassKeeps ==
    ASSUME CachesInv, Pass
    PROVE  CachesInv'
<1>1. /\ shared' = Older(shared) /\ private' = Older(private)
      /\ session' = session /\ served' = Nothing
  BY DEF Pass
<1>2. shared \in Store /\ private \in Store /\ since \in Nat /\ quiet \in Nat
  BY DEF CachesInv, CacheTypeOK
<1>3. /\ since' \in Nat /\ since' <= since + Tick
      /\ quiet' \in Nat /\ quiet' <= quiet + Tick
  BY <1>2, EdgeCacheAssumption DEF Pass, Later
<1>4. CacheTypeOK'
  BY <1>1, <1>2, <1>3, OlderStore DEF CacheTypeOK, CachesInv
<1>5. SharedEntries'
  <2> SUFFICES ASSUME NEW i \in Traffic, Older(shared)[URL(i)] # Nothing
               PROVE  /\ Older(shared)[URL(i)].answer.policy = "public, max-age=900"
                      /\ Promised(WithKey(i), Older(shared)[URL(i)].answer)
    BY <1>1 DEF SharedEntries
  <2>1. /\ shared[URL(i)] # Nothing
        /\ Older(shared)[URL(i)].answer = shared[URL(i)].answer
    BY <1>2, OlderStore, TrafficIsPlain
  <2> QED BY <2>1 DEF SharedEntries, CachesInv
<1>6. ASSUME NEW store \in Store, FailuresAge(store), NEW u \in URLs,
             Older(store)[u] # Nothing, IsFailure(Older(store)[u].answer)
      PROVE  Older(store)[u].age >= quiet'
  <2>1. /\ store[u] # Nothing
        /\ Older(store)[u].answer = store[u].answer
        /\ Older(store)[u].age = store[u].age + Tick
        /\ store[u].age \in Nat
    BY <1>6, OlderStore
  <2>2. IsFailure(store[u].answer)
    BY <1>6, <2>1
  <2>3. store[u].age >= quiet
    BY <1>6, <2>1, <2>2 DEF FailuresAge
  <2> QED BY <1>2, <1>3, <2>1, <2>3, EdgeCacheAssumption
<1>7. FailuresAge(shared)' /\ FailuresAge(private)'
  <2>1. FailuresAge(shared) /\ FailuresAge(private)
    BY DEF CachesInv
  <2>2. \A u \in URLs :
          Older(shared)[u] # Nothing /\ IsFailure(Older(shared)[u].answer) =>
            Older(shared)[u].age >= quiet'
    BY <1>2, <1>6, <2>1
  <2>3. \A u \in URLs :
          Older(private)[u] # Nothing /\ IsFailure(Older(private)[u].answer) =>
            Older(private)[u].age >= quiet'
    BY <1>2, <1>6, <2>1
  <2> QED BY <1>1, <2>2, <2>3, Zenon DEF FailuresAge
<1>8. SavesAge'
  <2> SUFFICES ASSUME NEW u \in URLs, Older(private)[u] # Nothing,
                      Older(private)[u].answer.kind = "saves"
               PROVE  \/ Older(private)[u].answer.owner = session
                      \/ Older(private)[u].age >= since'
    BY <1>1 DEF SavesAge
  <2>1. /\ private[u] # Nothing
        /\ Older(private)[u].answer = private[u].answer
        /\ Older(private)[u].age = private[u].age + Tick
        /\ private[u].age \in Nat
    BY <1>2, OlderStore
  <2>2. private[u].answer.owner = session \/ private[u].age >= since
    BY <2>1 DEF SavesAge, CachesInv
  <2> QED BY <1>2, <1>3, <2>1, <2>2, EdgeCacheAssumption
<1>9. HitsKeepThePromise' /\ OutagesAreForgotten' /\ SavesAreForgotten'
  BY <1>1 DEF HitsKeepThePromise, OutagesAreForgotten, SavesAreForgotten
<1> QED BY <1>4, <1>5, <1>7, <1>8, <1>9 DEF CachesInv

LEMMA CachesNext == CachesInv /\ [Next]_vars => CachesInv'
<1> SUFFICES ASSUME CachesInv, [Next]_vars PROVE CachesInv'
  OBVIOUS
<1>1. ASSUME NEW i \in Traffic, OthersAsk(i) PROVE CachesInv'
  BY <1>1, OthersAskKeeps
<1>2. ASSUME NEW i \in Traffic, BrowserAsks(i) PROVE CachesInv'
  BY <1>2, BrowserAsksKeeps
<1>3. ASSUME NEW i \in Traffic, BrowserHit(i) PROVE CachesInv'
  BY <1>3, BrowserHitKeeps
<1>4. CASE ChangeSession
  BY <1>4, ChangeSessionKeeps
<1>5. CASE Pass
  BY <1>5, PassKeeps
<1>6. CASE UNCHANGED vars
  <2>1. UNCHANGED <<shared, private, session, since, quiet, served>>
    BY <1>6 DEF vars
  <2>2. CacheTypeOK' /\ SharedEntries' /\ SavesAge'
    BY <2>1 DEF CachesInv, CacheTypeOK, SharedEntries, SavesAge
  <2>3. FailuresAge(shared)' /\ FailuresAge(private)'
    BY <2>1 DEF CachesInv, FailuresAge
  <2>4. HitsKeepThePromise' /\ OutagesAreForgotten' /\ SavesAreForgotten'
    BY <2>1 DEF CachesInv, HitsKeepThePromise, OutagesAreForgotten, SavesAreForgotten
  <2> QED BY <2>2, <2>3, <2>4 DEF CachesInv
<1> QED BY <1>1, <1>2, <1>3, <1>4, <1>5, <1>6 DEF Next

------------------------------------------------------------------------------
(* The invariant that carries the others: what each store holds, and that   *)
(* in it failures and saves grow old as fast as the time since the last     *)
(* failure and since the session began.                                     *)
THEOREM CachesInvariant == Spec => []CachesInv
<1> QED BY CachesInit, CachesNext, PTL DEF Spec

(* The shared cache never stores saves, nor what quotes a session.          *)
THEOREM SharedCacheIsAnybodys == Spec => []SharedAnswersAreAnybodys
<1>1. CachesInv => SharedAnswersAreAnybodys
  <2> SUFFICES ASSUME CachesInv, NEW u \in URLs, shared[u] # Nothing
               PROVE  shared[u].answer.owner = Anonymous
                      /\ shared[u].answer.kind # "saves"
    BY DEF SharedAnswersAreAnybodys
  <2>1. PICK i \in Traffic : u = URL(i)
    BY DEF URLs
  <2>2. /\ Promised(WithKey(i), shared[u].answer)
        /\ shared[u].answer.policy = "public, max-age=900"
    BY <2>1 DEF CachesInv, SharedEntries
  <2>3. WithKey(i).body = "none" /\ WithKey(i).method = "GET"
    BY TrafficIsPlain DEF WithKey, Input
  <2> QED
    BY <2>2, <2>3, RecommendationsAreAnonymous
       DEF Promised, PromisedWithoutKey, PromisedForRecentSaves, IsCached, IsError,
           bodyError
<1> QED BY <1>1, CachesInvariant, PTL

(* What comes out of the shared cache was promised to the one who asks,     *)
(* key aside.                                                               *)
THEOREM HitsArePromised == Spec => []HitsKeepThePromise
<1>1. CachesInv => HitsKeepThePromise
  BY DEF CachesInv
<1> QED BY <1>1, CachesInvariant, PTL

(* 900 seconds after the last failure nobody sees one.                      *)
THEOREM OutagesEnd == Spec => []OutagesAreForgotten
<1>1. CachesInv => OutagesAreForgotten
  BY DEF CachesInv
<1> QED BY <1>1, CachesInvariant, PTL

(* 900 seconds after the end of a session nobody is shown its saves.        *)
THEOREM SavesEnd == Spec => []SavesAreForgotten
<1>1. CachesInv => SavesAreForgotten
  BY DEF CachesInv
<1> QED BY <1>1, CachesInvariant, PTL
==============================================================================
