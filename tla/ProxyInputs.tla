----------------------------- MODULE ProxyInputs -----------------------------
(***************************************************************************)
(* The query parameters of the three GET routes: defaults, coercion,       *)
(* validation, and the GraphQL variables made of them.                     *)
(***************************************************************************)
EXTENDS Texts, RestErrors

Parameter == {"consumer_key", "count", "locale", "locale_lang", "region",
              "enableRankingByRegion"}

\* req.query: a parameter the URL does not name is undefined.
Query == [Parameter -> Value \cup {Absent}]

(* The variables of an upstream query.  The recommendations route spreads   *)
(* the whole query into them: undeclared names the parameters sent along.   *)
Variables == [count : Int \cup {NaN}, locale : Value \cup {Absent},
              region : Value \cup {Null},
              enableRankingByRegion : BOOLEAN, undeclared : SUBSET Parameter]

NoVariables == [count |-> NaN, locale |-> Absent, region |-> Null,
                enableRankingByRegion |-> FALSE, undeclared |-> {}]

InRange(n, low, high) == n # NaN /\ n >= low /\ n <= high

------------------------------------------------------------------------------
(* /desktop/v1/recent-saves *)

\* Slip: no clamp.
recentSavesUnclamped(query) ==
    [NoVariables EXCEPT !.count = parseInt[toString[OrElse(query.count, "10")]]]

recentSavesCoerced(query) ==
    LET count == parseInt[toString[OrElse(query.count, "10")]]
    IN  [NoVariables EXCEPT
           !.count = IF count # NaN /\ count > 20 THEN 20 ELSE count]

\* Slip: the lower bound off by one.
recentSavesValidateFromZero(variables) ==
    IF variables.count # NaN /\ variables.count >= 0 /\ variables.count <= 20
    THEN NoError
    ELSE BFFFxError("input validation failure", 400, "3f262c60", <<"count">>)

recentSavesValidate(variables) ==
    IF InRange(variables.count, 1, 20) THEN NoError
    ELSE BFFFxError("input validation failure", 400, "3f262c60", <<"count">>)

------------------------------------------------------------------------------
(* /desktop/v1/recommendations *)

validLocalesSet == {toLowerCase[locale] : locale \in validLocales}

\* toLowerCase?.() of a value that has no such method is undefined.
isValidLocale(locale) ==
    locale # Absent /\ toLowerCase[locale] \in validLocalesSet

\* Slip: the upper bound off by one.
isValidCountBelow30(count) == InRange(count, 1, 29)

isValidCount(count) == InRange(count, 1, 30)

recommendationsCoerced(query) ==
    [count |-> parseInt[toString[OrElse(query.count, "30")]],
     locale |-> query.locale,
     region |-> OrElse(query.region, Null),
     enableRankingByRegion |->
        /\ query.enableRankingByRegion # Absent
        /\ toString[query.enableRankingByRegion] = "1",
     undeclared |->
        {p \in {"consumer_key", "locale_lang"} : query[p] # Absent}]

\* Slip: only the first parameter at fault is reported.
recommendationsValidateFirstOnly(variables) ==
    IF ~isValidCount(variables.count)
    THEN BFFFxError("input validation failure", 404, "82868c64", <<"count">>)
    ELSE IF ~isValidLocale(variables.locale)
    THEN BFFFxError("input validation failure", 404, "82868c64", <<"locale">>)
    ELSE NoError

\* One error for every parameter that fails, count before locale.
recommendationsValidate(variables) ==
    LET errorDetails ==
          (IF isValidCount(variables.count) THEN <<>> ELSE <<"count">>) \o
          (IF isValidLocale(variables.locale) THEN <<>> ELSE <<"locale">>)
    IN  IF errorDetails = <<>> THEN NoError
        ELSE BFFFxError("input validation failure", 404, "82868c64", errorDetails)

------------------------------------------------------------------------------
(* /v3/firefox/global-recs *)

\* Slip: region without its default.
globalRecsNoRegionDefault(query) ==
    [count |-> parseInt[toString[OrElse(query.count, "20")]],
     locale |-> query.locale_lang,
     region |-> query.region,
     enableRankingByRegion |-> FALSE,
     undeclared |-> {}]

globalRecsCoerced(query) ==
    [count |-> parseInt[toString[OrElse(query.count, "20")]],
     locale |-> query.locale_lang,
     region |-> OrElse(query.region, Null),
     enableRankingByRegion |-> FALSE,
     undeclared |-> {}]

------------------------------------------------------------------------------
(* handleQueryParameters of each route: the variables, or the error to      *)
(* answer with.                                                             *)

Outcome(variables, error) == [variables |-> variables, error |-> error]

handleQueryParameters(route, query) ==
    LET saves == recentSavesCoerced(query)
        recommendations == recommendationsCoerced(query)
        feed == globalRecsCoerced(query)
    IN  CASE route = "recent-saves" -> Outcome(saves, recentSavesValidate(saves))
          [] route = "recommendations" ->
               Outcome(recommendations, recommendationsValidate(recommendations))
          [] route = "global-recs" -> Outcome(feed, recommendationsValidate(feed))
==============================================================================
