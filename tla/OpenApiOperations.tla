-------------------------- MODULE OpenApiOperations --------------------------
(***************************************************************************)
(* The operations of the OpenAPI document: the query parameters a client   *)
(* may send, and the responses it may expect.                              *)
(***************************************************************************)
EXTENDS ProxyInputs

CONSTANT IntegerLiteral   \* the strings that are decimal integers

\* String() leaves a string as it is, and parseInt reads a literal to its end.
ASSUME IntegerLiteralAssumption ==
    /\ IntegerLiteral \subseteq Value
    /\ \A s \in IntegerLiteral : toString[s] = s /\ parseInt[s] \in Int

\* count is an integer from 1 to the maximum of the operation.
CountParameter(q, maximum) ==
    q.count # Absent =>
        /\ q.count \in IntegerLiteral
        /\ parseInt[q.count] \in 1..maximum

(* The responses with a JSON document, and those without content.           *)
Json(statuses) == {[status |-> s, content |-> "application/json"] : s \in statuses}
NoContent(statuses) == {[status |-> s, content |-> "none"] : s \in statuses}

\* count, region and enableRankingByRegion are optional, locale is one of a list
\* whose case does not matter.
getRecommendationsParameters(q) ==
    /\ CountParameter(q, 30)
    /\ q.locale # Absent
    /\ \E locale \in validLocales : toLowerCase[q.locale] = toLowerCase[locale]
    /\ q.enableRankingByRegion \in {"0", "1", Absent}

getRecommendationsResponses == Json({200, 400, 502, 504}) \cup NoContent({500})

getGlobalRecsParameters(q) == CountParameter(q, 50) /\ q.locale_lang # Absent

getGlobalRecsResponses == Json({200, 404, 502, 504}) \cup NoContent({500})

getRecentSavesParameters(q) == CountParameter(q, 20)

getRecentSavesResponses == Json({200, 401, 404, 502, 504}) \cup NoContent({500})
==============================================================================
