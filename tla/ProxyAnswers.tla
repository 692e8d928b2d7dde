----------------------------- MODULE ProxyAnswers -----------------------------
(***************************************************************************)
(* The answers the proxy promises to a request, by the content of the      *)
(* request alone: no middleware, client or upstream is in sight.           *)
(***************************************************************************)
EXTENDS ClientRequests

CONSTANT environment

Policies == {"none", "private, max-age=900", "public, max-age=900"}
Answer == [status : Nat, kind : Kind, id : Id, owner : Owner, policy : Policies]

\* An error document: its status and identifier, and whose data it may quote.
IsError(a, status, id, owners) ==
    a.status = status /\ a.kind = "error" /\ a.id = id /\ a.owner \in owners

\* The policy of the handler closest to the route the request reached.
IsCached(a, policy) ==
    a.policy = (IF environment = "development" THEN "none" ELSE policy)

(* A client is told 401 or 502 where upstream said so, and nothing but the  *)
(* generic error where the proxy itself is at fault.                        *)
IsUpstreamFailure(a, owners) ==
    \/ IsError(a, 401, "cd7495a6", owners)
    \/ IsError(a, 502, "5eb9b295", owners)
    \/ IsError(a, 500, "a03b69b9", {Anonymous})

\* Slip: the public policy on the whole API.
PromisedForRecentSavesPublic(i, a) ==
    /\ IsCached(a, "public, max-age=900")
    /\ Session(i.cookies) # Anonymous
    /\ a.status = 200 /\ a.kind = "saves" /\ a.owner = Session(i.cookies)

PromisedForRecentSaves(i, a) ==
    /\ IsCached(a, "private, max-age=900")
    /\ IF Handled(i).error # NoError
       THEN IsError(a, 400, "3f262c60", {Anonymous})
       ELSE \/ /\ Session(i.cookies) # Anonymous
               /\ a.status = 200 /\ a.kind = "saves" /\ a.owner = Session(i.cookies)
            \/ IsUpstreamFailure(a, {Anonymous, i.cookies.user})

PromisedForRecommendations(i, a) ==
    /\ IsCached(a, "public, max-age=900")
    /\ IF Handled(i).error # NoError
       THEN IsError(a, 404, "82868c64", {Anonymous})
       ELSE \/ a.status = 200 /\ a.kind = "recommendations" /\ a.owner = Anonymous
            \/ IsUpstreamFailure(a, {Anonymous})

\* Slip: the public policy comes before the consumer key is looked at.
PromisedWithoutKeyPublic(i, a) ==
    /\ IsError(a, 401, "810b0a84", {Anonymous})
    /\ IsCached(a, IF i.path = RecentSavesPath THEN "private, max-age=900"
                   ELSE "public, max-age=900")

PromisedWithoutKey(i, a) ==
    /\ IsError(a, 401, "810b0a84", {Anonymous})
    /\ IsCached(a, "private, max-age=900")

Promised(i, a) ==
    IF i.body \in DOMAIN bodyError
    THEN IsError(a, 500, "a03b69b9", {Anonymous}) /\ a.policy = "none"
    ELSE IF IsHealthCheck(i)
    THEN a.status = 200 /\ a.kind = "text" /\ a.id = "ok" /\ a.policy = "none"
    ELSE IF ~IsRouted(i)
    THEN /\ IsError(a, 404, "a5d471c4", {Anonymous})
         /\ IsCached(a, IF i.path \in MountedPaths THEN "private, max-age=900"
                        ELSE "none")
    ELSE IF ~HasConsumerKey(i)
    THEN PromisedWithoutKey(i, a)
    ELSE IF i.path = RecentSavesPath THEN PromisedForRecentSaves(i, a)
    ELSE PromisedForRecommendations(i, a)
==============================================================================
