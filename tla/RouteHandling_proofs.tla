------------------------ MODULE RouteHandling_proofs ------------------------
(***************************************************************************)
(* Proofs about the routes, for any queries, conversions, libraries and    *)
(* slates: what the query handlers let through and what they blame, that   *)
(* every answer is one openapi.yml describes, with the newest saves and    *)
(* with recommendations that are attributed once, and that the legacy feed *)
(* recommends what the current one does.                                   *)
(***************************************************************************)
EXTENDS RouteHandling, ProxyInputs_proofs, FiniteSetTheorems

\* What the query handlers made of the request that is being served.
QueryHandled ==
    step # "waiting" =>
        /\ route \in Route
        /\ query \in Query
        /\ handled = handleQueryParameters(route, query)

RouteInv == TypeOK /\ QueryHandled

LEMMA RouteInit == Init => RouteInv
<1> SUFFICES ASSUME Init PROVE RouteInv
  OBVIOUS
<1>1. [p \in Parameter |-> Absent] \in Query
  BY DEF Query
<1>2. NoVariables \in Variables
  BY TextsAssumption DEF NoVariables, Variables
<1> QED BY <1>1, <1>2, ErrorTypes DEF Init, RouteInv, QueryHandled, TypeOK, Outcome

LEMMA RouteNext == RouteInv /\ [Next]_vars => RouteInv'
<1> SUFFICES ASSUME RouteInv, [Next]_vars PROVE RouteInv'
  OBVIOUS
<1>1. ASSUME NEW r \in Route, NEW q \in Queries, Handle(r, q) PROVE RouteInv'
  <2>1. q \in Query
    BY RouteHandlingAssumption
  <2>2. /\ step' = "handled" /\ route' = r /\ query' = q
        /\ handled' = handleQueryParameters(r, q)
    BY <1>1 DEF Handle
  <2>3. /\ handleQueryParameters(r, q).variables \in Variables
        /\ handleQueryParameters(r, q).error \in Error
    BY <2>1, QueryTypes DEF Route
  <2> QED BY <2>1, <2>2, <2>3 DEF RouteInv, TypeOK, QueryHandled
<1>2. CASE ExecuteRecentSaves
  BY <1>2 DEF ExecuteRecentSaves, RouteInv, TypeOK, QueryHandled
<1>3. CASE ExecuteRecommendations
  BY <1>3 DEF ExecuteRecommendations, RouteInv, TypeOK, QueryHandled
<1>4. CASE Transform
  <2>1. /\ step = "executed" /\ step' = "transformed"
        /\ UNCHANGED <<route, query, handled>>
    BY <1>4 DEF Transform
  <2> QED BY <2>1 DEF RouteInv, TypeOK, QueryHandled
<1>5. CASE Return
  <2>1. /\ step' = "waiting" /\ query' = [p \in Parameter |-> Absent]
        /\ handled' = [variables |-> NoVariables, error |-> NoError]
    BY <1>5 DEF Return, Outcome
  <2>2. query' \in Query
    BY <2>1 DEF Query
  <2>3. NoVariables \in Variables /\ NoError \in Error
    BY TextsAssumption, ErrorTypes DEF NoVariables, Variables
  <2> QED BY <2>1, <2>2, <2>3 DEF RouteInv, TypeOK, QueryHandled
<1>6. CASE UNCHANGED vars
  BY <1>6 DEF vars, RouteInv, TypeOK, QueryHandled
<1> QED BY <1>1, <1>2, <1>3, <1>4, <1>5, <1>6 DEF Next

(* Every request that is served has been through its route's query handler. *)
THEOREM RouteInvariant == Spec => []RouteInv
<1> QED BY RouteInit, RouteNext, PTL DEF Spec

(* Whatever the query, the routes work with well formed variables, and turn *)
(* a request away with a well formed error.                                 *)
THEOREM RouteTypeCorrect == Spec => []TypeOK
<1>1. RouteInv => TypeOK
  BY DEF RouteInv
<1> QED BY <1>1, RouteInvariant, PTL

------------------------------------------------------------------------------
(* The query handlers.                                                      *)

\* What recommendationsValidate blames.
LEMMA WhatIsBlamed ==
    ASSUME NEW v
    PROVE  LET error == recommendationsValidate(v)
               blamed == ToSet(error.response.parameters)
           IN  /\ error = NoError <=> isValidCount(v.count) /\ isValidLocale(v.locale)
               /\ error # NoError =>
                    /\ "count" \in blamed <=> ~isValidCount(v.count)
                    /\ "locale" \in blamed <=> ~isValidLocale(v.locale)
                    /\ blamed \subseteq {"count", "locale"}
<1> DEFINE error == recommendationsValidate(v)
           m == "input validation failure"
<1>1. CASE isValidCount(v.count) /\ isValidLocale(v.locale)
  <2>1. error = NoError
    BY <1>1 DEF recommendationsValidate
  <2> QED BY <1>1, <2>1
<1>2. CASE ~isValidCount(v.count) /\ isValidLocale(v.locale)
  <2>1. error = BFFFxError(m, 404, "82868c64", <<"count">>)
    BY <1>2 DEF recommendationsValidate
  <2> HIDE DEF error
  <2>2. error # NoError /\ error.response.parameters = <<"count">>
    BY <2>1 DEF BFFFxError, RestResponseError, NoError, ProgramError
  <2>3. ToSet(<<"count">>) = {"count"}
    BY DEF ToSet
  <2> QED BY <1>2, <2>2, <2>3 DEF error
<1>3. CASE isValidCount(v.count) /\ ~isValidLocale(v.locale)
  <2>1. error = BFFFxError(m, 404, "82868c64", <<"locale">>)
    BY <1>3 DEF recommendationsValidate
  <2> HIDE DEF error
  <2>2. error # NoError /\ error.response.parameters = <<"locale">>
    BY <2>1 DEF BFFFxError, RestResponseError, NoError, ProgramError
  <2>3. ToSet(<<"locale">>) = {"locale"}
    BY DEF ToSet
  <2> QED BY <1>3, <2>2, <2>3 DEF error
<1>4. CASE ~isValidCount(v.count) /\ ~isValidLocale(v.locale)
  <2>0. <<"count">> \o <<"locale">> = <<"count", "locale">>
    BY Pair, Zenon
  <2>1. error = BFFFxError(m, 404, "82868c64", <<"count", "locale">>)
    <3> DEFINE d == <<"count">> \o <<"locale">>
               two == <<"count", "locale">>
    <3>1. error = IF d = <<>> THEN NoError ELSE BFFFxError(m, 404, "82868c64", d)
      BY <1>4, Zenon DEF recommendationsValidate
    <3>2. two # <<>>
      OBVIOUS
    <3>3. d = two
      BY <2>0
    <3> HIDE DEF d, two, error
    <3>4. error = BFFFxError(m, 404, "82868c64", two)
      BY <3>1, <3>2, <3>3, Zenon
    <3> QED BY <3>4 DEF two
  <2> HIDE DEF error
  <2>2. error # NoError /\ error.response.parameters = <<"count", "locale">>
    BY <2>1 DEF BFFFxError, RestResponseError, NoError, ProgramError
  <2>3. ToSet(<<"count", "locale">>) = {"count", "locale"}
    BY DEF ToSet
  <2> QED BY <1>4, <2>2, <2>3 DEF error
<1> QED BY <1>1, <1>2, <1>3, <1>4

\* A literal reads as the number it is, whatever the default.
LEMMA LiteralCount ==
    ASSUME NEW s \in IntegerLiteral, NEW d
    PROVE  parseInt[toString[OrElse(s, d)]] = parseInt[s] /\ parseInt[s] \in Int
BY IntegerLiteralAssumption, TextsAssumption DEF OrElse

(* For any query, arrays and strings of any form included: an accepted      *)
(* query asks the graph for a number of items within the route's range, and *)
(* in a listed locale (inputs.ts of the three routes).                      *)
THEOREM Servable == Spec => []VariablesAreServable
<1>1. RouteInv => VariablesAreServable
  <2> SUFFICES ASSUME RouteInv, Accepted
               PROVE  /\ handled.variables.count \in
                           1..(IF route = "recent-saves" THEN 20 ELSE 30)
                      /\ route \in Localised =>
                           \E locale \in validLocales :
                             /\ handled.variables.locale \in Value
                             /\ toLowerCase[locale]
                                  = toLowerCase[handled.variables.locale]
    BY DEF VariablesAreServable
  <2>1. /\ route \in Route /\ query \in Query
        /\ handled = handleQueryParameters(route, query)
        /\ handled.error = NoError
    BY DEF Accepted, RouteInv, QueryHandled
  <2>2. /\ handled.variables.count \in 1..(IF route = "recent-saves" THEN 20 ELSE 30)
        /\ route # "recent-saves" =>
             handled.variables.locale \in Value /\ isValidLocale(handled.variables.locale)
    BY <2>1, AcceptedIsServable DEF Route
  <2>3. CASE route = "recent-saves"
    BY <2>2, <2>3 DEF Localised
  <2>4. CASE route \in Localised
    BY <2>2, <2>4 DEF Localised, isValidLocale, validLocalesSet
  <2> QED BY <2>1, <2>3, <2>4 DEF Route, Localised
<1> QED BY <1>1, RouteInvariant, PTL

(* Firefox versions that ask for more saves than there may be are served    *)
(* 20, however many more they ask for.                                      *)
THEOREM Clamped == Spec => []OversizedSavesAreClamped
<1>1. RouteInv => OversizedSavesAreClamped
  <2> SUFFICES ASSUME RouteInv, step # "waiting", route = "recent-saves",
                      query.count \in IntegerLiteral, parseInt[query.count] > 20
               PROVE  Accepted /\ handled.variables.count = 20
    BY DEF OversizedSavesAreClamped
  <2>1. query \in Query /\ handled = handleQueryParameters("recent-saves", query)
    BY DEF RouteInv, QueryHandled
  <2> DEFINE count == parseInt[toString[OrElse(query.count, "10")]]
  <2>2. count = parseInt[query.count] /\ count \in Int /\ count # NaN
    BY LiteralCount, NaNIsNoInteger
  <2>3. handled.variables.count = IF count # NaN /\ count > 20 THEN 20 ELSE count
    BY <2>1, SavesQuery
  <2>4. handled.variables.count = 20
    BY <2>2, <2>3
  <2>5. InRange(handled.variables.count, 1, 20)
    BY <2>4, NaNIsNoInteger DEF InRange
  <2> QED BY <2>1, <2>4, <2>5, SavesQuery DEF Accepted
<1> QED BY <1>1, RouteInvariant, PTL

(* What openapi.yml documents for the two current routes is accepted, and   *)
(* a count that is given reaches the graph unchanged.                       *)
THEOREM DocumentedAccepted == Spec => []DocumentedIsAccepted
<1>1. RouteInv => DocumentedIsAccepted
  <2> SUFFICES ASSUME RouteInv, step # "waiting"
               PROVE  /\ route = "recent-saves" /\ getRecentSavesParameters(query) =>
                           /\ Accepted
                           /\ query.count # Absent =>
                                handled.variables.count = parseInt[query.count]
                      /\ route = "recommendations" /\ getRecommendationsParameters(query) =>
                           /\ Accepted
                           /\ query.count # Absent =>
                                handled.variables.count = parseInt[query.count]
    BY DEF DocumentedIsAccepted
  <2>1. query \in Query /\ handled = handleQueryParameters(route, query)
    BY DEF RouteInv, QueryHandled
  <2>2. ASSUME NEW d \in {"10", "20", "30"}, NEW maximum \in {20, 30},
               CountParameter(query, maximum), d = "30" => maximum = 30
        PROVE  /\ parseInt[toString[OrElse(query.count, d)]] \in 1..maximum
               /\ query.count # Absent =>
                    parseInt[toString[OrElse(query.count, d)]] = parseInt[query.count]
    <3>1. CASE query.count = Absent
      <4>1. parseInt[toString[OrElse(query.count, d)]] = parseInt[d]
        BY <3>1, DefaultCount
      <4>2. parseInt["10"] = 10 /\ parseInt["20"] = 20 /\ parseInt["30"] = 30
        BY TextsAssumption
      <4>3. parseInt[d] \in 1..maximum
        BY <2>2, <4>2
      <4> QED BY <3>1, <4>1, <4>3
    <3>2. CASE query.count # Absent
      <4>1. query.count \in IntegerLiteral /\ parseInt[query.count] \in 1..maximum
        BY <2>2, <3>2 DEF CountParameter
      <4>2. parseInt[toString[OrElse(query.count, d)]] = parseInt[query.count]
        BY <4>1, LiteralCount
      <4> QED BY <4>1, <4>2
    <3> QED BY <3>1, <3>2
  <2>3. ASSUME route = "recent-saves", getRecentSavesParameters(query)
        PROVE  /\ Accepted
               /\ query.count # Absent =>
                    handled.variables.count = parseInt[query.count]
    <3> DEFINE count == parseInt[toString[OrElse(query.count, "10")]]
    <3>1. /\ count \in 1..20
          /\ query.count # Absent => count = parseInt[query.count]
      BY <2>2, <2>3 DEF getRecentSavesParameters
    <3>2. /\ handled.variables.count = IF count # NaN /\ count > 20 THEN 20 ELSE count
          /\ handled.error = NoError <=> InRange(handled.variables.count, 1, 20)
      BY <2>1, <2>3, SavesQuery
    <3> HIDE DEF count
    <3>3. handled.variables.count = count
      BY <3>1, <3>2
    <3>4. InRange(handled.variables.count, 1, 20)
      BY <3>1, <3>3, NaNIsNoInteger DEF InRange
    <3> QED BY <3>1, <3>2, <3>3, <3>4 DEF Accepted
  <2>4. ASSUME route = "recommendations", getRecommendationsParameters(query)
        PROVE  /\ Accepted
               /\ query.count # Absent =>
                    handled.variables.count = parseInt[query.count]
    <3> DEFINE v == handled.variables
               count == parseInt[toString[OrElse(query.count, "30")]]
    <3>1. /\ count \in 1..30
          /\ query.count # Absent => count = parseInt[query.count]
      BY <2>2, <2>4 DEF getRecommendationsParameters
    <3>2. /\ handled.error = recommendationsValidate(v)
          /\ v.count = count /\ v.locale = query.locale
      BY <2>1, <2>4, LocalisedQuery DEF Localised
    <3>3. isValidLocale(query.locale)
      BY <2>4 DEF getRecommendationsParameters, isValidLocale, validLocalesSet
    <3> HIDE DEF count
    <3>4. isValidCount(count)
      BY <3>1, NaNIsNoInteger DEF isValidCount, InRange
    <3> HIDE DEF v
    <3>5. recommendationsValidate(v) = NoError
      BY <3>2, <3>3, <3>4, WhatIsBlamed
    <3> QED BY <3>1, <3>2, <3>5 DEF Accepted, v
  <2> QED BY <2>3, <2>4
<1> QED BY <1>1, RouteInvariant, PTL

(* However many parameters are at fault, a client that corrects those it is *)
(* told about is accepted next time, and one that leaves out a correction   *)
(* is not.                                                                  *)
THEOREM CorrectingIsEnough == Spec => []CorrectingTheBlamedParametersIsEnough
<1>1. RouteInv => CorrectingTheBlamedParametersIsEnough
  <2> SUFFICES ASSUME RouteInv, step = "handled", route \in Localised, ~Accepted
               PROVE  CorrectingTheBlamedParametersIsEnough
    BY DEF CorrectingTheBlamedParametersIsEnough
  <2> DEFINE blamed == ToSet(handled.error.response.parameters)
             corrected == [query EXCEPT
                !.count = IF "count" \in blamed THEN "30" ELSE @,
                !.locale = IF "locale" \in blamed THEN "en-US" ELSE @,
                !.locale_lang = IF "locale" \in blamed THEN "en-US" ELSE @]
             missed(p) ==
                IF p = "count" THEN [corrected EXCEPT !.count = query.count]
                ELSE [corrected EXCEPT !.locale = query.locale,
                                       !.locale_lang = query.locale_lang]
             default == IF route = "recommendations" THEN "30" ELSE "20"
             Count(q) == parseInt[toString[OrElse(q.count, default)]]
             Locale(q) == IF route = "recommendations" THEN q.locale ELSE q.locale_lang
  <2>1. /\ query \in Query /\ handled = handleQueryParameters(route, query)
        /\ handled.error # NoError
    BY DEF RouteInv, QueryHandled, Accepted
  <2>2. "30" \in Value /\ "en-US" \in Value
    BY TextsAssumption DEF validLocales
  <2>3. corrected \in Query /\ \A p : missed(p) \in Query
    BY <2>1, <2>2, Parameters DEF Query, Parameter
  <2>4. /\ corrected.count = IF "count" \in blamed THEN "30" ELSE query.count
        /\ corrected.locale = IF "locale" \in blamed THEN "en-US" ELSE query.locale
        /\ corrected.locale_lang = IF "locale" \in blamed THEN "en-US" ELSE query.locale_lang
        /\ missed("count").count = query.count
        /\ missed("locale").locale = query.locale
        /\ missed("locale").locale_lang = query.locale_lang
    BY <2>1, <2>3 DEF Query, Parameter
  <2> HIDE DEF corrected, missed
  <2>5. ASSUME NEW q \in Query
        PROVE  handleQueryParameters(route, q).error = NoError
                 <=> isValidCount(Count(q)) /\ isValidLocale(Locale(q))
    BY <2>5, LocalisedQuery, WhatIsBlamed DEF Localised
  <2>6. /\ "count" \in blamed <=> ~isValidCount(Count(query))
        /\ "locale" \in blamed <=> ~isValidLocale(Locale(query))
        /\ blamed \subseteq {"count", "locale"}
    <3> DEFINE v == handled.variables
    <3>1. /\ handled.error = recommendationsValidate(v)
          /\ v.count = Count(query) /\ v.locale = Locale(query)
      BY <2>1, LocalisedQuery DEF Localised
    <3> HIDE DEF v
    <3>2. /\ "count" \in blamed <=> ~isValidCount(v.count)
          /\ "locale" \in blamed <=> ~isValidLocale(v.locale)
          /\ blamed \subseteq {"count", "locale"}
      BY <2>1, <3>1, WhatIsBlamed
    <3> QED BY <3>1, <3>2
  <2> HIDE DEF blamed
  <2>7. isValidCount(parseInt[toString[OrElse("30", default)]]) /\ isValidLocale("en-US")
    <3>1. OrElse("30", default) = "30" /\ toString["30"] = "30" /\ parseInt["30"] = 30
      BY <2>2, TextsAssumption DEF OrElse
    <3>2. isValidCount(30)
      BY NaNIsNoInteger DEF isValidCount, InRange
    <3>3. "en-US" # Absent
      BY <2>2, TextsAssumption
    <3> QED BY <3>1, <3>2, <3>3 DEF isValidLocale, validLocalesSet, validLocales
  <2>8. blamed # {}
    BY <2>1, <2>5, <2>6
  <2>9. handleQueryParameters(route, corrected).error = NoError
    <3>1. isValidCount(Count(corrected))
      BY <2>4, <2>6, <2>7
    <3>2. isValidLocale(Locale(corrected))
      BY <2>4, <2>6, <2>7
    <3> QED BY <2>3, <2>5, <3>1, <3>2
  <2>10. ASSUME NEW p \in blamed
         PROVE  handleQueryParameters(route, missed(p)).error # NoError
    <3>1. CASE p = "count"
      <4>1. ~isValidCount(Count(missed("count")))
        BY <2>4, <2>6, <2>10, <3>1
      <4> QED BY <2>3, <2>5, <3>1, <4>1
    <3>2. CASE p = "locale"
      <4>1. ~isValidLocale(Locale(missed("locale")))
        BY <2>4, <2>6, <2>10, <3>2
      <4> QED BY <2>3, <2>5, <3>2, <4>1
    <3> QED BY <2>6, <2>10, <3>1, <3>2
  <2> QED BY <2>8, <2>9, <2>10
          DEF CorrectingTheBlamedParametersIsEnough, blamed, corrected, missed
<1> QED BY <1>1, RouteInvariant, PTL

------------------------------------------------------------------------------
(* The documents of the graphs.                                             *)

(* What the graph answered with is what was asked for, and the answer is    *)
(* made of it.                                                              *)
DocumentServed ==
    /\ step \in {"executed", "transformed"} =>
         /\ Accepted
         /\ route = "recent-saves" =>
              /\ source \in Libraries
              /\ document \in RecentSavesDocuments(source, [first |-> handled.variables.count])
         /\ route # "recent-saves" =>
              /\ source \in Slates
              /\ document = newTabSlate(source, handled.variables.count)
    /\ step = "transformed" =>
         /\ route = "recent-saves" => response = recentSavesResponse(document)
         /\ route = "recommendations" => response = recommendationsResponse(document)
         /\ route = "global-recs" => response = globalRecsResponse(document)

LEMMA DocumentNext == DocumentServed /\ [Next]_vars => DocumentServed'
<1> SUFFICES ASSUME DocumentServed, [Next]_vars PROVE DocumentServed'
  OBVIOUS
<1>1. ASSUME NEW r \in Route, NEW q \in Queries, Handle(r, q) PROVE DocumentServed'
  BY <1>1 DEF Handle, DocumentServed
<1>2. CASE ExecuteRecentSaves
  BY <1>2 DEF ExecuteRecentSaves, DocumentServed, Accepted
<1>3. CASE ExecuteRecommendations
  BY <1>3 DEF ExecuteRecommendations, DocumentServed, Accepted
<1>4. CASE Transform
  <2>1. /\ step = "executed" /\ step' = "transformed"
        /\ UNCHANGED <<route, handled, source, document>>
        /\ route = "recent-saves" => response' = recentSavesResponse(document)
        /\ route = "recommendations" => response' = recommendationsResponse(document)
        /\ route = "global-recs" => response' = globalRecsResponse(document)
    BY <1>4 DEF Transform
  <2> QED BY <2>1 DEF DocumentServed, Accepted
<1>5. CASE Return
  BY <1>5 DEF Return, DocumentServed
<1>6. CASE UNCHANGED vars
  BY <1>6 DEF vars, DocumentServed, Accepted
<1> QED BY <1>1, <1>2, <1>3, <1>4, <1>5, <1>6 DEF Next

(* The document of an answer is one the graph may answer with for the count *)
(* that was asked for.                                                      *)
THEOREM DocumentsAreServed == Spec => []DocumentServed
<1>1. Init => DocumentServed
  BY DEF Init, DocumentServed
<1> QED BY <1>1, DocumentNext, PTL DEF Spec

------------------------------------------------------------------------------
(* URLSearchParams and pagination.                                          *)

\* The first of several elements of an array, and how many they are.
LEMMA FirstOfProperties ==
    ASSUME NEW E, NEW s \in Seq(E), NEW n \in Nat
    PROVE  LET first == FirstOf(s, n)
           IN  /\ first \in Seq(E)
               /\ Len(first) = IF n <= Len(s) THEN n ELSE Len(s)
               /\ \A k \in 1..Len(first) : first[k] = s[k]
<1> DEFINE l == IF n <= Len(s) THEN n ELSE Len(s)
<1>1. l \in Nat /\ l <= Len(s)
  BY LenProperties
<1>2. Min({n, Len(s)}) = l
  BY LenProperties DEF Min
<1>3. FirstOf(s, n) = SubSeq(s, 1, l)
  BY <1>2 DEF FirstOf
<1> HIDE DEF l
<1>4. \A k \in 1..l : s[k] \in E
  BY <1>1, ElementOfSeq, LenProperties
<1>5. /\ SubSeq(s, 1, l) \in Seq(E)
      /\ Len(SubSeq(s, 1, l)) = IF 1 <= l THEN l - 1 + 1 ELSE 0
      /\ \A k \in 1..(l - 1 + 1) : SubSeq(s, 1, l)[k] = s[1 + k - 1]
  BY <1>1, <1>4, SubSeqProperties
<1>6. Len(SubSeq(s, 1, l)) = l /\ \A k \in 1..l : SubSeq(s, 1, l)[k] = s[k]
  BY <1>1, <1>5
<1> QED BY <1>3, <1>5, <1>6 DEF l

\* Where URLSearchParams.set looks for the name.
LEMMA FirstNamed ==
    ASSUME NEW search \in Seq(SearchParam), NEW name
    PROVE  LET first == firstNamed(search, name)
           IN  \/ /\ first = 0
                  /\ \A n \in 1..Len(search) : search[n].name # name
               \/ /\ first \in 1..Len(search)
                  /\ search[first].name = name
                  /\ \A n \in 1..(first - 1) : search[n].name # name
<1> DEFINE I == {n \in 1..Len(search) : search[n].name = name}
           first == firstNamed(search, name)
<1>1. first = IF I # {} THEN Min(I) ELSE 0
  BY DEF firstNamed, SelectInSeq
<1>2. CASE I = {}
  BY <1>1, <1>2
<1>3. CASE I # {}
  <2>1. I \in SUBSET Nat
    OBVIOUS
  <2> HIDE DEF I
  <2>2. \E n \in I : \A m \in I : n <= m
    BY <1>3, <2>1, Least
  <2>3. Min(I) \in I /\ \A m \in I : Min(I) <= m
    BY <2>2 DEF Min
  <2>4. first = Min(I)
    BY <1>1, <1>3
  <2> HIDE DEF first
  <2>5. /\ first \in 1..Len(search) /\ search[first].name = name
        /\ \A n \in 1..(first - 1) : n \in 1..Len(search) /\ n \notin I
    <3>1. first \in 1..Len(search) /\ search[first].name = name /\ Len(search) \in Nat
      BY <2>3, <2>4, LenProperties DEF I
    <3>2. \A n \in 1..(first - 1) : n \in 1..Len(search) /\ ~(first <= n)
      BY <3>1
    <3> QED BY <3>1, <3>2, <2>3, <2>4
  <2>6. \A n \in 1..(first - 1) : search[n].name # name
    BY <2>5 DEF I
  <2> QED BY <2>5, <2>6 DEF first
<1> QED BY <1>2, <1>3

\* URLSearchParams.set leaves the name once, with the new value, and the other
\* parameters as they were.
LEMMA SetSearchParam ==
    ASSUME NEW search \in Seq(SearchParam), NEW param \in SearchParam
    PROVE  LET set == setSearchParam(search, param)
           IN  /\ set \in Seq(SearchParam)
               /\ filter(set, Named(param.name)) = <<param>>
               /\ filter(set, NotNamed(param.name)) = filter(search, NotNamed(param.name))
<1> DEFINE name == param.name
           N == Named(name)
           O == NotNamed(name)
           first == firstNamed(search, name)
           set == setSearchParam(search, param)
<1>1. /\ name \in String /\ N \cap O = {} /\ O \cap N = {} /\ param \in N
      /\ N \subseteq SearchParam /\ O \subseteq SearchParam
  BY DEF SearchParam, Named, NotNamed
<1>2. \A p \in SearchParam : (p.name = name => p \in N) /\ (p.name # name => p \in O)
  BY DEF SearchParam, Named, NotNamed
<1>3. \A p \in SearchParam : <<p>> \in Seq(SearchParam)
  OBVIOUS
<1>4. filter(<<param>>, N) = <<param>> /\ filter(<<param>>, O) = <<>>
  <2>1. <<param>> \in Seq(N)
    BY <1>1
  <2> QED BY <2>1, <1>1, FilterAll, FilterNone
<1>5. /\ first \in Nat
      /\ first = 0 => \A n \in 1..Len(search) : search[n].name # name
      /\ first # 0 => /\ first \in 1..Len(search)
                      /\ search[first].name = name
                      /\ \A n \in 1..(first - 1) : search[n].name # name
  <2>1. Len(search) \in Nat
    BY LenProperties
  <2>2. \/ /\ first = 0
           /\ \A n \in 1..Len(search) : search[n].name # name
        \/ /\ first \in 1..Len(search)
           /\ search[first].name = name
           /\ \A n \in 1..(first - 1) : search[n].name # name
    BY FirstNamed
  <2> HIDE DEF first
  <2> QED BY <2>1, <2>2
<1>6. set = IF first = 0 THEN Append(search, param)
            ELSE SubSeq(search, 1, first - 1) \o <<param>>
                   \o filter(SubSeq(search, first + 1, Len(search)), O)
  BY DEF setSearchParam
<1> HIDE DEF first, set, N, O, name
<1>7. ASSUME NEW s \in Seq(SearchParam), NEW t \in Seq(SearchParam), NEW S
      PROVE  filter(s \o t, S) = filter(s, S) \o filter(t, S)
  BY FilterConcat
<1>8. CASE first = 0
  <2>1. set = search \o <<param>>
    BY <1>6, <1>8, AppendIsConcat
  <2>2. search \in Seq(O)
    <3>1. \A n \in 1..Len(search) : search[n] \in O
      BY <1>2, <1>5, <1>8, ElementOfSeq
    <3>2. search = [n \in 1..Len(search) |-> search[n]] /\ Len(search) \in Nat
      BY LenProperties
    <3> QED BY <3>1, <3>2, SeqDef
  <2>3. set \in Seq(SearchParam)
    BY <1>3, <2>1, ConcatProperties
  <2>4. /\ filter(set, N) = filter(search, N) \o <<param>>
        /\ filter(set, O) = filter(search, O) \o <<>>
    <3>1. <<param>> \in Seq(SearchParam)
      BY <1>3
    <3>2. \A S : filter(set, S) = filter(search, S) \o filter(<<param>>, S)
      BY <1>7, <2>1, <3>1
    <3> QED BY <1>4, <3>2
  <2>5. filter(search, N) = <<>> /\ filter(search, O) = search
    BY <1>1, <2>2, FilterAll, FilterNone
  <2>6. <<>> \o <<param>> = <<param>> /\ search \o <<>> = search
    BY <1>3, ConcatEmptySeq
  <2> QED BY <2>3, <2>4, <2>5, <2>6 DEF set, N, O, name
<1>9. CASE first # 0
  <2> DEFINE A == SubSeq(search, 1, first - 1)
             x == search[first]
             B == SubSeq(search, first + 1, Len(search))
             kept == filter(B, O)
  <2>1. /\ first \in 1..Len(search) /\ x.name = name /\ Len(search) \in Nat
        /\ \A n \in 1..(first - 1) : search[n].name # name
    BY <1>5, <1>9, LenProperties
  <2>2. A \in Seq(O)
    <3>1. \A n \in 1..(first - 1) : search[n] \in O
      <4> SUFFICES ASSUME NEW n \in 1..(first - 1) PROVE search[n] \in O
        OBVIOUS
      <4>1. n \in 1..Len(search)
        BY <2>1
      <4>2. search[n] \in SearchParam
        BY <4>1, ElementOfSeq
      <4> QED BY <1>2, <2>1, <4>2
    <3>2. first - 1 \in Int
      BY <2>1
    <3> QED BY <3>1, <3>2, SubSeqProperties
  <2>3. x \in SearchParam /\ x \in N
    BY <1>2, <2>1, ElementOfSeq
  <2>4. B \in Seq(SearchParam)
    <3>1. \A n \in (first + 1)..Len(search) : search[n] \in SearchParam
      <4> SUFFICES ASSUME NEW n \in (first + 1)..Len(search) PROVE search[n] \in SearchParam
        OBVIOUS
      <4>1. n \in 1..Len(search)
        BY <2>1
      <4> QED BY <4>1, ElementOfSeq
    <3>2. first + 1 \in Int /\ Len(search) \in Int
      BY <2>1
    <3> QED BY <3>1, <3>2, SubSeqProperties
  <2>5. search = A \o <<x>> \o B
    <3>1. SubSeq(search, 1, first) = A \o <<x>>
      BY <2>1, SubSeqRecursiveSecond
    <3>2. SubSeq(search, 1, first) \o B = SubSeq(search, 1, Len(search))
      BY <2>1, ConcatAdjacentSubSeq
    <3>3. SubSeq(search, 1, Len(search)) = search
      BY SubSeqFull
    <3> QED BY <3>1, <3>2, <3>3
  <2>6. set = A \o <<param>> \o kept
    BY <1>6, <1>9
  <2> HIDE DEF A, B, x, kept
  <2>7. kept \in Seq(O) /\ kept \in Seq(SearchParam) /\ A \in Seq(SearchParam)
    <3>1. kept \in Seq(SearchParam \cap O) /\ SearchParam \cap O = O
      BY <1>1, <2>4, FilterType DEF kept
    <3> QED BY <1>1, <2>2, <3>1, SeqMonotonic
  <2>8. ASSUME NEW y \in SearchParam, NEW Z \in Seq(SearchParam), NEW S
        PROVE  /\ A \o <<y>> \o Z \in Seq(SearchParam)
               /\ filter(A \o <<y>> \o Z, S) = filter(A, S) \o filter(<<y>>, S) \o filter(Z, S)
    <3>1. <<y>> \in Seq(SearchParam)
      BY <1>3
    <3>2. A \o <<y>> \in Seq(SearchParam)
      BY <2>7, <3>1, ConcatProperties
    <3>3. filter(A \o <<y>>, S) = filter(A, S) \o filter(<<y>>, S)
      <4> DEFINE one == <<y>>
      <4>1. one \in Seq(SearchParam)
        BY <3>1
      <4> HIDE DEF one
      <4>2. filter(A \o one, S) = filter(A, S) \o filter(one, S)
        <5>1. A \in Seq(SearchParam)
          BY <2>7
        <5>2. \A t \in Seq(SearchParam) : filter(A \o t, S) = filter(A, S) \o filter(t, S)
          BY ONLY <1>7, <5>1
        <5> QED BY ONLY <5>2, <4>1
      <4> QED BY <4>2 DEF one
    <3>4. filter(A \o <<y>> \o Z, S) = filter(A \o <<y>>, S) \o filter(Z, S)
      BY <1>7, <2>8, <3>2, Zenon
    <3>5. A \o <<y>> \o Z \in Seq(SearchParam)
      BY <2>8, <3>2, ConcatProperties
    <3> QED BY <3>3, <3>4, <3>5
  <2>9. set \in Seq(SearchParam)
    BY <2>6, <2>7, <2>8
  <2>10. filter(set, N) = <<param>>
    <3>1. filter(A, N) = <<>> /\ filter(kept, N) = <<>>
      BY <1>1, <2>2, <2>7, FilterNone
    <3>2. filter(set, N) = <<>> \o <<param>> \o <<>>
      <4>1. filter(set, N) = filter(A, N) \o filter(<<param>>, N) \o filter(kept, N)
        BY <2>6, <2>7, <2>8
      <4> QED BY <1>4, <3>1, <4>1
    <3>3. <<>> \o <<param>> = <<param>> /\ <<param>> \o <<>> = <<param>>
      BY <1>3, ConcatEmptySeq
    <3> QED BY <3>2, <3>3
  <2>11. filter(set, O) = filter(search, O)
    <3>1. filter(kept, O) = kept
      BY <2>7, FilterAll
    <3>2. filter(set, O) = filter(A, O) \o <<>> \o kept
      <4>1. filter(set, O) = filter(A, O) \o filter(<<param>>, O) \o filter(kept, O)
        BY <2>6, <2>7, <2>8
      <4> QED BY <1>4, <3>1, <4>1
    <3>3. filter(<<x>>, O) = <<>>
      <4>1. <<x>> \in Seq(N)
        BY <2>3
      <4> QED BY <1>1, <4>1, FilterNone
    <3>4. filter(search, O) = filter(A, O) \o <<>> \o kept
      <4>1. filter(search, O) = filter(A, O) \o filter(<<x>>, O) \o filter(B, O)
        <5>1. filter(A \o <<x>> \o B, O) = filter(A, O) \o filter(<<x>>, O) \o filter(B, O)
          BY <2>3, <2>4, <2>8, Zenon
        <5> QED BY <2>5, <5>1, Zenon
      <4> QED BY <3>3, <4>1 DEF kept
    <3> QED BY <3>2, <3>4
  <2> QED BY <2>9, <2>10, <2>11 DEF set, N, O, name
<1> QED BY <1>8, <1>9

------------------------------------------------------------------------------
(* The recommendations.                                                     *)

\* The URL of a recommendation is attributed to the slate, once.
LEMMA Attributed ==
    ASSUME NEW url \in Url, NEW utmSource \in Maybe(String)
    PROVE  LET value == IF utmSource \in {Null, ""} THEN "pocket-newtab" ELSE utmSource
               answered == appendUtmSource(url, validateAndSetUtmSource(utmSource))
           IN  /\ answered \in Url
               /\ answered.page = url.page
               /\ filter(answered.search, NotNamed("utm_source"))
                    = filter(url.search, NotNamed("utm_source"))
               /\ filter(answered.search, Named("utm_source"))
                    = <<[name |-> "utm_source", value |-> value]>>
<1> DEFINE value == IF utmSource \in {Null, ""} THEN "pocket-newtab" ELSE utmSource
           param == [name |-> "utm_source", value |-> value]
           set == setSearchParam(url.search, param)
           answered == appendUtmSource(url, validateAndSetUtmSource(utmSource))
<1>1. validateAndSetUtmSource(utmSource) = value
  BY DEF validateAndSetUtmSource
<1>2. value \in String
  BY StringAssumption DEF Maybe
<1> HIDE DEF value
<1>3. param \in SearchParam /\ param.name = "utm_source"
  BY <1>2, StringAssumption DEF SearchParam
<1>4. url.search \in Seq(SearchParam)
  BY DEF Url
<1>5. answered = [url EXCEPT !.wellFormed = TRUE, !.search = set]
  BY <1>1 DEF appendUtmSource
<1> HIDE DEF param
<1>6. /\ set \in Seq(SearchParam)
      /\ filter(set, Named("utm_source")) = <<param>>
      /\ filter(set, NotNamed("utm_source")) = filter(url.search, NotNamed("utm_source"))
  <2>1. /\ set \in Seq(SearchParam)
        /\ filter(set, Named(param.name)) = <<param>>
        /\ filter(set, NotNamed(param.name)) = filter(url.search, NotNamed(param.name))
    BY <1>3, <1>4, SetSearchParam
  <2> QED BY <1>3, <2>1
<1> HIDE DEF set, answered
<1>7. answered \in Url /\ answered.page = url.page /\ answered.search = set
  BY <1>5, <1>6 DEF Url
<1> QED BY <1>6, <1>7 DEF param, value, answered

\* The slate of the document is one that is well formed.
LEMMA SlateType ==
    ASSUME NEW slate \in CorpusSlate, NEW count \in Nat
    PROVE  newTabSlate(slate, count).newTabSlate \in CorpusSlate
<1> DEFINE first == FirstOf(slate.recommendations, count)
<1>1. slate.recommendations \in Seq(CorpusRecommendation)
  BY DEF CorpusSlate
<1>2. first \in Seq(CorpusRecommendation)
  BY <1>1, FirstOfProperties
<1> HIDE DEF first
<1>3. [slate EXCEPT !.recommendations = first] \in CorpusSlate
  BY <1>2 DEF CorpusSlate
<1> QED BY <1>3 DEF newTabSlate, first

\* A list of the same length as one is a sequence.
LEMMA MappedType ==
    ASSUME NEW E, NEW s \in Seq(E), NEW T, NEW t,
           t = [n \in DOMAIN s |-> t[n]], \A n \in 1..Len(s) : t[n] \in T
    PROVE  t \in Seq(T) /\ Len(t) = Len(s)
<1>1. DOMAIN s = 1..Len(s) /\ Len(s) \in Nat
  BY LenProperties
<1>2. t \in [1..Len(s) -> T]
  BY <1>1
<1>3. t \in Seq(T)
  BY <1>1, <1>2, SeqDef
<1>4. DOMAIN t = 1..Len(s) /\ DOMAIN t = 1..Len(t) /\ Len(t) \in Nat
  BY <1>2, <1>3, LenProperties
<1> QED BY <1>1, <1>3, <1>4

\* A recommendation becomes one that openapi.yml describes, in both feeds.
LEMMA RecommendationTypes ==
    ASSUME NEW r \in CorpusRecommendation, NEW utmSource \in Maybe(String)
    PROVE  /\ mapRecommendation(r, utmSource) \in Recommendation
           /\ mapLegacyFeedItem(r, utmSource) \in LegacyFeedItem
<1> DEFINE item == r.corpusItem
           url == appendUtmSource(item.url, validateAndSetUtmSource(utmSource))
<1>1. /\ r.id \in ID /\ r.tileId \in Nat /\ item.url \in Url
      /\ item.title \in String /\ item.excerpt \in String /\ item.publisher \in String
      /\ item.imageUrl \in Url
  BY DEF CorpusRecommendation, CorpusItem, Scalars
<1>2. url \in Url
  BY <1>1, Attributed
<1> HIDE DEF item, url
<1>3. mapRecommendation(r, utmSource) \in Recommendation
  BY <1>1, <1>2 DEF mapRecommendation, Recommendation, Optional, item, url
<1>4. mapLegacyFeedItem(r, utmSource) \in LegacyFeedItem
  BY <1>1, <1>2
     DEF mapLegacyFeedItem, legacyId, encodeURIComponent, LegacyFeedItem, ResizedImage,
         EncodedUrl, Optional, item, url
<1> QED BY <1>3, <1>4

LEMMA SettingsType == legacySettings \in LegacySettings
<1> DEFINE week == [id |-> "week", startTime |-> 604800, endTime |-> 0, weightPosition |-> 2]
           month == [id |-> "month", startTime |-> 2592000, endTime |-> 604800,
                     weightPosition |-> 1]
<1>1. week \in TimeSegment /\ month \in TimeSegment
  BY DEF TimeSegment
<1> HIDE DEF week, month
<1>2. <<week, month>> \in Seq(TimeSegment)
  BY <1>1
<1> DEFINE sets == <<>>
           version == "6f605b0212069b4b8d3d040faf55742061a25c16"
<1>3. legacySettings = [spocsPerNewTabs |-> 1, domainAffinityParameterSets |-> sets,
                        timeSegments |-> <<week, month>>, recsExpireTime |-> 5400,
                        version |-> version]
  BY DEF legacySettings, week, month
<1>4. LegacySettings = [spocsPerNewTabs : Nat, domainAffinityParameterSets : {sets},
                        timeSegments : Seq(TimeSegment), recsExpireTime : Nat,
                        version : {version}]
  BY DEF LegacySettings
<1> HIDE DEF sets, version
<1> QED BY <1>2, <1>3, <1>4

\* The answers made of a well formed slate; the legacy one, if its images encode.
LEMMA FeedTypes ==
    ASSUME NEW slate \in CorpusSlate, NEW d, d.newTabSlate = slate, AllUrlsParse(slate)
    PROVE  LET items == slate.recommendations
               new == recommendationsResponse(d)
               old == globalRecsResponse(d)
           IN  /\ new \in RecommendationsResponse
               /\ DOMAIN new.data = DOMAIN items
               /\ \A n \in DOMAIN items :
                    new.data[n] = mapRecommendation(items[n], slate.utmSource)
               /\ AllImagesEncode(slate) =>
                    /\ old \in GlobalRecsResponse
                    /\ DOMAIN old.recommendations = DOMAIN items
                    /\ \A n \in DOMAIN items :
                         old.recommendations[n]
                           = mapLegacyFeedItem(items[n], slate.utmSource)
<1> DEFINE items == slate.recommendations
           u == slate.utmSource
           new == [n \in DOMAIN items |-> mapRecommendation(items[n], u)]
           old == [n \in DOMAIN items |-> mapLegacyFeedItem(items[n], u)]
<1>1. items \in Seq(CorpusRecommendation) /\ u \in Maybe(String)
  BY DEF CorpusSlate, Scalars
<1>2. recommendationsResponse(d) = [data |-> new]
  BY DEF recommendationsResponse
<1>3. AllImagesEncode(slate) =>
        globalRecsResponse(d) = [status |-> 1, spocs |-> <<>>, settings |-> legacySettings,
                                 recommendations |-> old]
  BY DEF globalRecsResponse
<1> HIDE DEF items, u
<1>4. DOMAIN items = 1..Len(items)
  BY <1>1, LenProperties
<1>5. ASSUME NEW n \in 1..Len(items)
      PROVE  new[n] \in Recommendation /\ old[n] \in LegacyFeedItem
  <2>1. items[n] \in CorpusRecommendation
    BY <1>1, ElementOfSeq
  <2> QED BY <1>1, <1>4, <2>1, RecommendationTypes
<1>6. new = [n \in DOMAIN items |-> new[n]] /\ old = [n \in DOMAIN items |-> old[n]]
  OBVIOUS
<1>7. /\ DOMAIN new = DOMAIN items /\ DOMAIN old = DOMAIN items
      /\ \A n \in DOMAIN items : new[n] = mapRecommendation(items[n], u)
      /\ \A n \in DOMAIN items : old[n] = mapLegacyFeedItem(items[n], u)
  OBVIOUS
<1> HIDE DEF new, old
<1>8. new \in Seq(Recommendation) /\ old \in Seq(LegacyFeedItem)
  BY <1>1, <1>5, <1>6, MappedType
<1>9. [data |-> new] \in RecommendationsResponse
  BY <1>8 DEF RecommendationsResponse
<1>10. [status |-> 1, spocs |-> <<>>, settings |-> legacySettings, recommendations |-> old]
         \in GlobalRecsResponse
  BY <1>8, SettingsType DEF GlobalRecsResponse
<1> QED BY <1>2, <1>3, <1>7, <1>9, <1>10 DEF items, u

\* The slate that an answer with recommendations is made of.
LEMMA SlateAnswered ==
    ASSUME VariablesAreServable, DocumentServed,
           step = "transformed", route \in Localised
    PROVE  /\ document.newTabSlate \in CorpusSlate
           /\ route = "recommendations" => response = recommendationsResponse(document)
           /\ route = "global-recs" => response = globalRecsResponse(document)
           /\ response # Thrown => AllUrlsParse(document.newTabSlate)
           /\ response # Thrown /\ route = "global-recs" =>
                AllImagesEncode(document.newTabSlate)
<1>1. /\ source \in Slates /\ document = newTabSlate(source, handled.variables.count)
      /\ route = "recommendations" => response = recommendationsResponse(document)
      /\ route = "global-recs" => response = globalRecsResponse(document)
  BY DEF DocumentServed, Localised
<1>2. handled.variables.count \in Nat /\ source \in CorpusSlate
  BY <1>1, RouteHandlingAssumption DEF DocumentServed, VariablesAreServable, Localised
<1>3. document.newTabSlate \in CorpusSlate
  BY <1>1, <1>2, SlateType
<1>4. /\ response # Thrown => AllUrlsParse(document.newTabSlate)
      /\ response # Thrown /\ route = "global-recs" => AllImagesEncode(document.newTabSlate)
  BY <1>1 DEF recommendationsResponse, globalRecsResponse, Localised
<1> QED BY <1>1, <1>3, <1>4

(* A recommendation that is answered can be attributed, whatever the        *)
(* parameters its URL came with.                                            *)
THEOREM Attribution == Spec => []OneUtmSource
<1>1. TypeOK /\ VariablesAreServable /\ DocumentServed => OneUtmSource
  <2> SUFFICES ASSUME TypeOK, VariablesAreServable, DocumentServed,
                      step = "transformed", response # Thrown, route \in Localised
               PROVE  OneUtmSource
    BY DEF OneUtmSource, Answered
  <2> DEFINE slate == document.newTabSlate
             items == slate.recommendations
             answered == IF route = "recommendations" THEN response.data
                         ELSE response.recommendations
             expected == <<[name |-> "utm_source",
                            value |-> IF slate.utmSource \in {Null, ""}
                                      THEN "pocket-newtab" ELSE slate.utmSource]>>
             Right(url, answer) ==
               /\ answer.page = url.page
               /\ filter(answer.search, NotNamed("utm_source"))
                    = filter(url.search, NotNamed("utm_source"))
               /\ filter(answer.search, Named("utm_source")) = expected
  <2>1. /\ route = "recommendations" => response = recommendationsResponse(document)
        /\ route = "global-recs" => response = globalRecsResponse(document)
    BY SlateAnswered
  <2>2. slate \in CorpusSlate
    BY SlateAnswered
  <2>3. AllUrlsParse(slate) /\ (route = "global-recs" => AllImagesEncode(slate))
    BY SlateAnswered
  <2> HIDE DEF slate
  <2>4. /\ DOMAIN answered = DOMAIN items
        /\ \A n \in DOMAIN items :
             answered[n].url = appendUtmSource(items[n].corpusItem.url,
                                               validateAndSetUtmSource(slate.utmSource))
    <3>1. /\ DOMAIN recommendationsResponse(document).data = DOMAIN items
          /\ \A n \in DOMAIN items :
               recommendationsResponse(document).data[n]
                 = mapRecommendation(items[n], slate.utmSource)
          /\ route = "global-recs" =>
               /\ DOMAIN globalRecsResponse(document).recommendations = DOMAIN items
               /\ \A n \in DOMAIN items :
                    globalRecsResponse(document).recommendations[n]
                      = mapLegacyFeedItem(items[n], slate.utmSource)
      BY <2>2, <2>3, FeedTypes DEF slate
    <3>2. \A r, u : /\ mapRecommendation(r, u).url
                         = appendUtmSource(r.corpusItem.url, validateAndSetUtmSource(u))
                    /\ mapLegacyFeedItem(r, u).url
                         = appendUtmSource(r.corpusItem.url, validateAndSetUtmSource(u))
      BY DEF mapRecommendation, mapLegacyFeedItem
    <3>3. CASE route = "recommendations"
      BY <2>1, <3>1, <3>2, <3>3
    <3>4. CASE route = "global-recs"
      BY <2>1, <3>1, <3>2, <3>4
    <3> QED BY <3>3, <3>4 DEF Localised
  <2> HIDE DEF answered
  <2>5. ASSUME NEW n \in DOMAIN answered
        PROVE  Right(items[n].corpusItem.url, answered[n].url)
    <3>1. items \in Seq(CorpusRecommendation) /\ slate.utmSource \in Maybe(String)
      BY <2>2 DEF CorpusSlate, Scalars
    <3>2. n \in 1..Len(items)
      BY <2>4, <3>1, LenProperties
    <3>3. items[n].corpusItem.url \in Url
      <4>1. items[n] \in CorpusRecommendation
        BY <3>1, <3>2, ElementOfSeq
      <4> QED BY <4>1 DEF CorpusRecommendation, CorpusItem, Scalars
    <3> DEFINE url == items[n].corpusItem.url
    <3>4. Right(url, appendUtmSource(url, validateAndSetUtmSource(slate.utmSource)))
      BY <3>1, <3>3, Attributed
    <3> QED BY <2>4, <3>4
  <2>6. \A n \in DOMAIN answered : Right(items[n].corpusItem.url, answered[n].url)
    BY <2>5
  <2> QED BY <2>6, Zenon DEF OneUtmSource, slate, answered
<1> QED BY <1>1, RouteTypeCorrect, Servable, DocumentsAreServed, PTL

(* Whatever the slate, the legacy feed and the current one recommend the    *)
(* same items in the same order, and fail together, but for image URLs that *)
(* only the legacy one encodes: their transformers                          *)
(* (recommendations/response.ts, v3/response.ts) cannot drift apart.        *)
THEOREM FeedsAgree == Spec => []LegacyFeedAgrees
<1>1. VariablesAreServable /\ DocumentServed => LegacyFeedAgrees
  <2> SUFFICES ASSUME VariablesAreServable, DocumentServed,
                      step = "transformed", route = "global-recs"
               PROVE  LegacyFeedAgrees
    BY DEF LegacyFeedAgrees
  <2> DEFINE current == recommendationsResponse(document)
             slate == document.newTabSlate
             items == slate.recommendations
  <2>1. slate \in CorpusSlate /\ response = globalRecsResponse(document)
    BY SlateAnswered DEF Localised
  <2>2. CASE ~AllUrlsParse(slate)
    <3>1. response = Thrown /\ current = Thrown
      BY <2>1, <2>2 DEF globalRecsResponse, recommendationsResponse
    <3> QED BY <3>1 DEF LegacyFeedAgrees
  <2>3. CASE ~AllImagesEncode(slate)
    <3>1. response = Thrown
      BY <2>1, <2>3 DEF globalRecsResponse
    <3>2. \E n \in DOMAIN items : ~items[n].corpusItem.imageUrl.wellFormed
      BY <2>3 DEF AllImagesEncode
    <3> QED BY <3>1, <3>2 DEF LegacyFeedAgrees
  <2>4. CASE AllUrlsParse(slate) /\ AllImagesEncode(slate)
    <3> HIDE DEF slate
    <3>1. /\ current \in RecommendationsResponse /\ response \in GlobalRecsResponse
          /\ DOMAIN current.data = DOMAIN items
          /\ DOMAIN response.recommendations = DOMAIN items
          /\ \A n \in DOMAIN items :
               /\ current.data[n] = mapRecommendation(items[n], slate.utmSource)
               /\ response.recommendations[n] = mapLegacyFeedItem(items[n], slate.utmSource)
      BY <2>1, <2>4, FeedTypes DEF slate
    <3>2. response # Thrown /\ current # Thrown
      BY <3>1, ThrownAssumption
    <3>3. ASSUME NEW x, NEW u, NEW old, NEW new,
                 old = mapLegacyFeedItem(x, u), new = mapRecommendation(x, u)
          PROVE  /\ old.id = new.tileId /\ old.domain = new.publisher
                 /\ old.url = new.url /\ old.title = new.title
                 /\ old.excerpt = new.excerpt
                 /\ old.raw_image_src = new.imageUrl
                 /\ old.image_src.direct.percentEncoded = new.imageUrl
      BY <3>3 DEF mapLegacyFeedItem, mapRecommendation, legacyId, encodeURIComponent
    <3>4. \A n \in DOMAIN items : items[n].corpusItem.imageUrl.wellFormed
      BY <2>4 DEF AllImagesEncode
    <3>5. items = document.newTabSlate.recommendations
      BY DEF slate
    <3> HIDE DEF current, items
    <3> QED BY <3>1, <3>2, <3>3, <3>4, <3>5 DEF LegacyFeedAgrees, current
  <2> QED BY <2>2, <2>3, <2>4
<1> QED BY <1>1, Servable, DocumentsAreServed, PTL

------------------------------------------------------------------------------
(* The saves.                                                               *)

\* A document that can be read to the end has no null in it.
LEMMA WholeDocument ==
    ASSUME NEW nodes, NEW d \in DocumentsOf(nodes), IsWhole(d)
    PROVE  d = RecentSavesOf([n \in DOMAIN nodes |-> [node |-> nodes[n]]])
<1> DEFINE edges == [n \in DOMAIN nodes |-> [node |-> nodes[n]]]
<1>1. d.user # Null /\ d.user.savedItems # Null /\ d.user.savedItems.edges # Null
  BY DEF IsWhole
<1>2. \A n \in DOMAIN d.user.savedItems.edges :
        d.user.savedItems.edges[n] # Null /\ d.user.savedItems.edges[n].node # Null
  BY DEF IsWhole
<1>3. d # RecentSavesOf(Null) /\ d # [user |-> Null] /\ d # [user |-> [savedItems |-> Null]]
  BY <1>1 DEF RecentSavesOf
<1>4. ASSUME NEW n \in DOMAIN edges PROVE d # RecentSavesOf([edges EXCEPT ![n] = Null])
  <2> DEFINE e == [edges EXCEPT ![n] = Null]
  <2>1. n \in DOMAIN e /\ e[n] = Null
    BY <1>4
  <2> HIDE DEF e
  <2>2. RecentSavesOf(e).user.savedItems.edges = e
    BY DEF RecentSavesOf
  <2> QED BY <1>2, <2>1, <2>2 DEF e
<1>5. ASSUME NEW n \in DOMAIN edges PROVE d # RecentSavesOf([edges EXCEPT ![n].node = Null])
  <2> DEFINE e == [edges EXCEPT ![n].node = Null]
  <2>1. n \in DOMAIN e /\ e[n].node = Null
    BY <1>5
  <2> HIDE DEF e
  <2>2. RecentSavesOf(e).user.savedItems.edges = e
    BY DEF RecentSavesOf
  <2> QED BY <1>2, <2>1, <2>2 DEF e
<1> QED BY <1>3, <1>4, <1>5 DEF DocumentsOf

\* What becomes of a save: its type decides, and its identifier stays.
LEMMA ReducedItem ==
    ASSUME NEW s \in SavedItem, NEW edge, edge.node = s
    PROVE  LET item == reduceItem(edge)
           IN  /\ item # Null => /\ item \in Save \cup PendingSave
                                 /\ item.id = s.id
               /\ item # Null <=> s.item.typename \in {"Item", "PendingItem"}
<1> DEFINE item == reduceItem(edge)
           nested == s.item
<1>1. /\ s.id \in ID /\ s.url \in Url
      /\ nested \in Item \/ nested \in PendingItem \/ nested \in LaterItem
  BY DEF SavedItem, ItemResult, Scalars
<1>2. CASE nested \in Item
  <2>1. /\ nested.typename = "Item" /\ nested.wordCount \in Maybe(Int)
        /\ nested.topImage \in Maybe(Image) /\ nested.title \in Maybe(String)
        /\ nested.resolvedUrl \in Maybe(Url) /\ nested.givenUrl \in Url
        /\ nested.excerpt \in Maybe(String) /\ nested.domain \in Maybe(String)
    BY <1>2 DEF Item, Scalars
  <2>2. item = reduceGraphItem(s)
    BY <2>1 DEF reduceItem
  <2>3. topImageUrl(nested) \in Maybe(Url)
    BY <2>1 DEF topImageUrl, Maybe, Image, Scalars
  <2> HIDE DEF item, nested
  <2>4. reduceGraphItem(s) \in Save /\ reduceGraphItem(s).id = s.id
    BY <1>1, <2>1, <2>3 DEF reduceGraphItem, Save, Optional, nested
  <2>5. item # Null
    BY <2>2, <2>4, NullAssumption
  <2> QED BY <2>1, <2>2, <2>4, <2>5 DEF item, nested
<1>3. CASE nested \in PendingItem
  <2>1. nested.typename = "PendingItem"
    BY <1>3 DEF PendingItem
  <2>2. item = reduceGraphPendingItem(s)
    BY <2>1 DEF reduceItem
  <2> HIDE DEF item, nested
  <2>3. reduceGraphPendingItem(s) \in PendingSave /\ reduceGraphPendingItem(s).id = s.id
    BY <1>1 DEF reduceGraphPendingItem, PendingSave
  <2>4. item # Null
    BY <2>2, <2>3, NullAssumption
  <2> QED BY <2>1, <2>2, <2>3, <2>4 DEF item, nested
<1>4. CASE nested \in LaterItem
  <2>1. nested.typename = "LaterItem"
    BY <1>4 DEF LaterItem
  <2>2. item = Null
    BY <2>1 DEF reduceItem
  <2> QED BY <2>1, <2>2
<1> QED BY <1>1, <1>2, <1>3, <1>4

Unread(library) == {s \in library : s.status = "UNREAD"}

Created(s) == s.at["CREATED_AT"]

\* The list a library's saves are taken from: every unread save once, newest first.
NewestFirst(library, list) ==
    /\ list \in Seq(Unread(library))
    /\ \A s \in Unread(library) : \E n \in 1..Len(list) : list[n] = s
    /\ \A m, n \in 1..Len(list) : m # n => list[m] # list[n]
    /\ \A m, n \in 1..Len(list) : m < n => Created(list[m]) >= Created(list[n])

LEMMA ListedNewestFirst ==
    ASSUME NEW library \in Libraries, NEW count,
           NEW nodes \in savedItems(library, [first |-> count], recentSavesFilter,
                                    recentSavesSort)
    PROVE  \E list : NewestFirst(library, list) /\ nodes = FirstOf(list, count)
<1> DEFINE U == Unread(library)
           c == Cardinality(U)
<1>1. U = {s \in library : s.status \in recentSavesFilter.statuses}
  BY DEF Unread, recentSavesFilter
<1>2. PICK list \in Sorted(U, recentSavesSort) : nodes = FirstOf(list, count)
  BY <1>1 DEF savedItems
<1>3. /\ U \subseteq SavedItem /\ IsFiniteSet(U) /\ c \in Nat
  <2>1. library \subseteq SavedItem /\ IsFiniteSet(library) /\ U \subseteq library
    BY RouteHandlingAssumption DEF Unread
  <2>2. IsFiniteSet(U)
    BY <2>1, FS_Subset
  <2> QED BY <2>1, <2>2, FS_CardinalityType
<1> HIDE DEF U
<1>4. /\ list \in [1..c -> U]
      /\ \A m, n \in 1..c : m # n => list[m] # list[n]
      /\ \A m, n \in DOMAIN list : m < n => ~(Created(list[n]) > Created(list[m]))
  BY <1>2 DEF Sorted, SetToSeqs, recentSavesSort, Created
<1> HIDE DEF c
<1>5. list \in Seq(U) /\ Len(list) = c /\ DOMAIN list = 1..c
  <2>1. list \in Seq(U)
    BY <1>3, <1>4, SeqDef
  <2>2. DOMAIN list = 1..c /\ DOMAIN list = 1..Len(list) /\ Len(list) \in Nat
    BY <1>4, <2>1, LenProperties
  <2> QED BY <1>3, <2>1, <2>2
<1>6. \A s \in U : \E n \in 1..c : list[n] = s
  <2>1. list \in Injection(1..c, U)
    BY <1>4 DEF Injection, IsInjective
  <2>2. Cardinality(1..c) = c
    BY <1>3, FS_Interval
  <2>3. list \in Surjection(1..c, U)
    BY <1>3, <2>1, <2>2, FS_Injection DEF c
  <2> QED BY <2>3 DEF Surjection
<1>7. ASSUME NEW m \in 1..c, NEW n \in 1..c, m < n
      PROVE  Created(list[m]) >= Created(list[n])
  <2>1. \A s \in SavedItem : Created(s) \in Int
    BY DEF SavedItem, Timestamps, Created
  <2>2. Created(list[m]) \in Int /\ Created(list[n]) \in Int
    BY <1>3, <1>4, <2>1
  <2> QED BY <1>4, <1>5, <1>7, <2>2
<1> QED BY <1>2, <1>4, <1>5, <1>6, <1>7 DEF NewestFirst, U

\* What is answered from the nodes of a document: those of the types Firefox
\* knows, in their order.
KeptOf(at, nodes, data) ==
    /\ data \in Seq(Save \cup PendingSave)
    /\ at \in [1..Len(data) -> 1..Len(nodes)]
    /\ \A n \in 1..Len(data) : /\ nodes[at[n]].item.typename \in {"Item", "PendingItem"}
                               /\ data[n].id = nodes[at[n]].id
    /\ \A m, n \in 1..Len(data) : m < n => at[m] < at[n]
    /\ \A k \in 1..Len(nodes) : nodes[k].item.typename \in {"Item", "PendingItem"} =>
         \E n \in 1..Len(data) : at[n] = k

LEMMA SavesAnswered ==
    ASSUME NEW nodes \in Seq(SavedItem), NEW d \in DocumentsOf(nodes),
           recentSavesResponse(d) # Thrown
    PROVE  /\ recentSavesResponse(d) \in RecentSavesResponse
           /\ \E at : KeptOf(at, nodes, recentSavesResponse(d).data)
<1> DEFINE edges == [n \in DOMAIN nodes |-> [node |-> nodes[n]]]
           items == [n \in DOMAIN edges |-> reduceItem(edges[n])]
           kept == ToSet(items) \ {Null}
           data == filter(items, kept)
           E == Save \cup PendingSave \cup {Null}
<1>1. recentSavesResponse(d) = [data |-> data]
  <2>1. IsWhole(d)
    BY DEF recentSavesResponse
  <2>2. d = RecentSavesOf(edges)
    BY <2>1, WholeDocument
  <2>3. d.user.savedItems.edges = edges
    <3> HIDE DEF edges
    <3> QED BY <2>2 DEF RecentSavesOf
  <2> HIDE DEF edges
  <2> QED BY <2>1, <2>3 DEF recentSavesResponse
<1>2. DOMAIN nodes = 1..Len(nodes) /\ Len(nodes) \in Nat
  BY LenProperties
<1>3. ASSUME NEW n \in 1..Len(nodes)
      PROVE  /\ items[n] \in E
             /\ items[n] # Null => items[n].id = nodes[n].id
             /\ items[n] # Null <=> nodes[n].item.typename \in {"Item", "PendingItem"}
  <2>1. nodes[n] \in SavedItem /\ n \in DOMAIN nodes
    BY <1>2, ElementOfSeq
  <2>2. edges[n].node = nodes[n] /\ items[n] = reduceItem(edges[n])
    BY <2>1
  <2> QED BY <2>1, <2>2, ReducedItem
<1>4. items = [n \in DOMAIN nodes |-> items[n]]
  OBVIOUS
<1> HIDE DEF items, E
<1>5. items \in Seq(E) /\ Len(items) = Len(nodes)
  <2>1. \A n \in 1..Len(nodes) : items[n] \in E
    BY <1>3
  <2> QED BY <1>4, <2>1, MappedType
<1>6. ASSUME NEW n \in 1..Len(items)
      PROVE  items[n] \in kept <=> items[n] # Null
  BY <1>2, <1>4, <1>5 DEF ToSet
<1> HIDE DEF kept
<1>7. PICK at : Positions(at, items, kept)
  BY <1>5, FilterKeepsTheOrder
<1>8. data \in Seq(Save \cup PendingSave)
  <2>1. data \in Seq(E \cap kept)
    BY <1>5, FilterType
  <2>2. E \cap kept \subseteq Save \cup PendingSave
    BY DEF E, kept
  <2> QED BY <2>1, <2>2, SeqMonotonic
<1>9. /\ at \in [1..Len(data) -> 1..Len(items)]
      /\ \A n \in 1..Len(data) : data[n] = items[at[n]]
      /\ \A m, n \in 1..Len(data) : m < n => at[m] < at[n]
      /\ \A k \in 1..Len(items) : items[k] \in kept => \E n \in 1..Len(data) : at[n] = k
  BY <1>7 DEF Positions
<1> HIDE DEF data
<1>10. ASSUME NEW n \in 1..Len(data)
       PROVE  /\ nodes[at[n]].item.typename \in {"Item", "PendingItem"}
              /\ data[n].id = nodes[at[n]].id
  <2>1. at[n] \in 1..Len(nodes) /\ data[n] = items[at[n]]
    BY <1>5, <1>9
  <2>2. data[n] \in Save \cup PendingSave
    BY <1>8, ElementOfSeq
  <2>3. items[at[n]] # Null
    BY <2>1, <2>2, NullAssumption
  <2> QED BY <1>3, <2>1, <2>3
<1>11. ASSUME NEW k \in 1..Len(nodes), nodes[k].item.typename \in {"Item", "PendingItem"}
       PROVE  \E n \in 1..Len(data) : at[n] = k
  BY <1>3, <1>5, <1>6, <1>9, <1>11
<1>12. KeptOf(at, nodes, data)
  BY <1>5, <1>8, <1>9, <1>10, <1>11 DEF KeptOf
<1>13. [data |-> data] \in RecentSavesResponse
  BY <1>8 DEF RecentSavesResponse
<1> QED BY <1>1, <1>12, <1>13

\* The saves that a recent-saves answer is made of.
LEMMA NodesAnswered ==
    ASSUME NEW library \in Libraries, NEW count \in Nat,
           NEW d \in RecentSavesDocuments(library, [first |-> count]),
           recentSavesResponse(d) # Thrown
    PROVE  /\ recentSavesResponse(d) \in RecentSavesResponse
           /\ \E list, nodes, at :
                /\ NewestFirst(library, list)
                /\ nodes = FirstOf(list, count)
                /\ KeptOf(at, nodes, recentSavesResponse(d).data)
<1>1. PICK nodes \in savedItems(library, [first |-> count], recentSavesFilter,
                                recentSavesSort) : d \in DocumentsOf(nodes)
  BY DEF RecentSavesDocuments
<1>2. PICK list : NewestFirst(library, list) /\ nodes = FirstOf(list, count)
  BY <1>1, ListedNewestFirst
<1>3. Unread(library) \subseteq SavedItem
  BY RouteHandlingAssumption DEF Unread
<1>4. nodes \in Seq(SavedItem)
  <2>1. nodes \in Seq(Unread(library))
    BY <1>2, FirstOfProperties DEF NewestFirst
  <2> QED BY <1>3, <2>1, SeqMonotonic
<1> QED BY <1>1, <1>2, <1>4, SavesAnswered

(* Whatever the graph may legally answer, null at any place where its       *)
(* schema allows it included, a document that is answered is one that       *)
(* openapi.yml describes.                                                   *)
THEOREM Conformity == Spec => []AnswersConform
<1>1. TypeOK /\ VariablesAreServable /\ DocumentServed => AnswersConform
  <2> SUFFICES ASSUME TypeOK, VariablesAreServable, DocumentServed,
                      step = "transformed", response # Thrown
               PROVE  AnswersConform
    BY DEF AnswersConform, Answered
  <2>1. route \in Route /\ handled.variables.count \in Nat
    BY DEF TypeOK, DocumentServed, VariablesAreServable
  <2>2. CASE route = "recent-saves"
    <3>1. /\ source \in Libraries
          /\ document \in RecentSavesDocuments(source, [first |-> handled.variables.count])
          /\ response = recentSavesResponse(document)
      BY <2>2 DEF DocumentServed
    <3>2. response \in RecentSavesResponse
      BY <2>1, <3>1, NodesAnswered
    <3> QED BY <2>2, <3>2 DEF AnswersConform
  <2>3. CASE route \in Localised
    <3> DEFINE slate == document.newTabSlate
    <3>1. /\ route = "recommendations" => response = recommendationsResponse(document)
          /\ route = "global-recs" => response = globalRecsResponse(document)
      BY <2>3, SlateAnswered
    <3>2. slate \in CorpusSlate
      BY <2>3, SlateAnswered
    <3>3. AllUrlsParse(slate) /\ (route = "global-recs" => AllImagesEncode(slate))
      BY <2>3, SlateAnswered
    <3>4. /\ recommendationsResponse(document) \in RecommendationsResponse
          /\ route = "global-recs" => globalRecsResponse(document) \in GlobalRecsResponse
      BY <3>2, <3>3, FeedTypes
    <3>5. CASE route = "recommendations"
      <4>1. response \in RecommendationsResponse
        BY <3>1, <3>4, <3>5
      <4> QED BY <3>5, <4>1 DEF AnswersConform
    <3>6. CASE route = "global-recs"
      <4>1. response \in GlobalRecsResponse
        BY <3>1, <3>4, <3>6
      <4> QED BY <3>6, <4>1 DEF AnswersConform
    <3> QED BY <2>3, <3>5, <3>6 DEF Localised
  <2> QED BY <2>1, <2>2, <2>3 DEF Route, Localised
<1> QED BY <1>1, RouteTypeCorrect, Servable, DocumentsAreServed, PTL

(* However many saves there are, however many of them of the same second or *)
(* of types Firefox does not know: the saves answered are unread, newest    *)
(* first, each once, and one that is missing was not among the newest that  *)
(* were asked for.                                                          *)
THEOREM TheNewestAreAnswered == Spec => []NothingNewerIsMissing
<1>1. VariablesAreServable /\ DocumentServed => NothingNewerIsMissing
  <2> SUFFICES ASSUME VariablesAreServable, DocumentServed, step = "transformed",
                      response # Thrown, route = "recent-saves"
               PROVE  NothingNewerIsMissing
    BY DEF NothingNewerIsMissing, Answered
  <2> DEFINE data == response.data
             count == handled.variables.count
             ids == [n \in DOMAIN data |-> data[n].id]
             created(id) == (CHOOSE s \in source : s.id = id).at["CREATED_AT"]
             candidates == {s \in source : s.status = "UNREAD"
                              /\ s.item.typename \in {"Item", "PendingItem"}}
             others(s) == {t \in source \ {s} : t.status = "UNREAD"
                              /\ t.at["CREATED_AT"] >= s.at["CREATED_AT"]}
  <2>1. /\ count \in Nat /\ source \in Libraries
        /\ document \in RecentSavesDocuments(source, [first |-> count])
        /\ response = recentSavesResponse(document)
    BY DEF DocumentServed, VariablesAreServable
  <2>2. PICK list, nodes, at :
          /\ NewestFirst(source, list)
          /\ nodes = FirstOf(list, count)
          /\ KeptOf(at, nodes, data)
    BY <2>1, NodesAnswered
  <2>3. /\ IsFiniteSet(source) /\ \A s, t \in source : s.id = t.id => s = t
        /\ source \subseteq SavedItem
    BY <2>1, RouteHandlingAssumption
  <2>4. /\ list \in Seq(Unread(source)) /\ Len(list) \in Nat
        /\ \A s \in Unread(source) : \E n \in 1..Len(list) : list[n] = s
        /\ \A m, n \in 1..Len(list) : m # n => list[m] # list[n]
        /\ \A m, n \in 1..Len(list) : m < n => Created(list[m]) >= Created(list[n])
        /\ \A n \in 1..Len(list) : list[n] \in source /\ list[n].status = "UNREAD"
    <3>1. list \in Seq(Unread(source))
      BY <2>2 DEF NewestFirst
    <3>2. \A n \in 1..Len(list) : list[n] \in Unread(source)
      BY <3>1, ElementOfSeq
    <3> QED BY <2>2, <3>1, <3>2, LenProperties DEF NewestFirst, Unread
  <2>5. /\ Len(nodes) = IF count <= Len(list) THEN count ELSE Len(list)
        /\ \A k \in 1..Len(nodes) : k \in 1..Len(list) /\ nodes[k] = list[k]
    <3>1. /\ Len(nodes) = IF count <= Len(list) THEN count ELSE Len(list)
          /\ \A k \in 1..Len(nodes) : nodes[k] = list[k]
      BY <2>1, <2>2, <2>4, FirstOfProperties
    <3> QED BY <2>1, <2>4, <3>1
  <2>6. /\ DOMAIN data = 1..Len(data)
        /\ at \in [1..Len(data) -> 1..Len(nodes)]
        /\ \A n \in 1..Len(data) : /\ nodes[at[n]].item.typename \in {"Item", "PendingItem"}
                                   /\ data[n].id = nodes[at[n]].id
        /\ \A m, n \in 1..Len(data) : m < n => at[m] < at[n]
        /\ \A k \in 1..Len(nodes) : nodes[k].item.typename \in {"Item", "PendingItem"} =>
             \E n \in 1..Len(data) : at[n] = k
    BY <2>2, LenProperties DEF KeptOf
  <2>7. DOMAIN ids = 1..Len(data) /\ \A n \in 1..Len(data) : ids[n] = data[n].id
    BY <2>6
  <2> HIDE DEF data, count, ids
  <2>8. ASSUME NEW n \in 1..Len(data)
        PROVE  /\ at[n] \in 1..Len(list) /\ ids[n] = list[at[n]].id
               /\ list[at[n]] \in candidates
               /\ created(ids[n]) = Created(list[at[n]])
    <3> DEFINE s == list[at[n]]
    <3>1. at[n] \in 1..Len(nodes) /\ at[n] \in 1..Len(list) /\ nodes[at[n]] = s
      BY <2>5, <2>6
    <3>2. ids[n] = s.id /\ s.item.typename \in {"Item", "PendingItem"}
      BY <2>6, <2>7, <3>1
    <3>3. s \in source /\ s.status = "UNREAD"
      BY <2>4, <3>1
    <3> HIDE DEF s
    <3>4. (CHOOSE t \in source : t.id = ids[n]) = s
      BY <2>3, <3>2, <3>3
    <3>5. created(ids[n]) = Created(s)
      BY <3>4 DEF Created
    <3>6. s \in candidates
      BY <3>2, <3>3
    <3> HIDE DEF candidates, created
    <3> QED BY <3>1, <3>2, <3>5, <3>6 DEF s
  <2>9. ToSet(ids) \subseteq {s.id : s \in candidates}
    <3> HIDE DEF candidates, created
    <3>1. \A n \in 1..Len(data) : ids[n] \in {s.id : s \in candidates}
      BY <2>8
    <3> QED BY <2>7, <3>1 DEF ToSet
  <2>10. ASSUME NEW m \in DOMAIN ids, NEW n \in DOMAIN ids, m < n
         PROVE  ids[m] # ids[n] /\ created(ids[m]) >= created(ids[n])
    <3>1. m \in 1..Len(data) /\ n \in 1..Len(data)
      BY <2>7
    <3> DEFINE s == list[at[m]]
               t == list[at[n]]
    <3>2. at[m] \in 1..Len(list) /\ at[n] \in 1..Len(list) /\ at[m] < at[n]
      BY <2>6, <2>8, <2>10, <3>1
    <3>3. s # t /\ s \in source /\ t \in source /\ Created(s) >= Created(t)
      BY <2>4, <3>2
    <3>4. /\ ids[m] = s.id /\ ids[n] = t.id
          /\ created(ids[m]) = Created(s) /\ created(ids[n]) = Created(t)
      BY <2>8, <3>1
    <3> HIDE DEF s, t, created
    <3> QED BY <2>3, <3>3, <3>4
  <2>11. ASSUME NEW s \in candidates, s.id \notin ToSet(ids)
         PROVE  Cardinality(others(s)) >= count
    <3>1. s \in Unread(source)
      BY DEF Unread
    <3>2. PICK p \in 1..Len(list) : list[p] = s
      BY <2>4, <3>1
    <3>3. p \notin 1..Len(nodes)
      <4> SUFFICES ASSUME p \in 1..Len(nodes) PROVE FALSE
        OBVIOUS
      <4>1. nodes[p] = s
        BY <2>5, <3>2
      <4>2. PICK n \in 1..Len(data) : at[n] = p
        BY <2>6, <4>1
      <4>3. ids[n] = s.id
        BY <2>6, <2>7, <4>1, <4>2
      <4>4. ids[n] \in ToSet(ids)
        BY <2>7, <4>2 DEF ToSet
      <4> QED BY <2>11, <4>3, <4>4
    <3>4. count < p
      BY <2>1, <2>4, <2>5, <3>3
    <3> DEFINE f == [k \in 1..count |-> list[k]]
               T == others(s)
    <3>5. ASSUME NEW k \in 1..count
          PROVE  k \in 1..Len(list) /\ k < p /\ list[k] \in T
      <4>1. k \in 1..Len(list) /\ k < p
        BY <2>1, <2>4, <3>4
      <4>2. /\ list[k] \in source /\ list[k].status = "UNREAD" /\ list[k] # s
            /\ Created(list[k]) >= Created(s)
        BY <2>4, <3>2, <4>1
      <4> QED BY <4>1, <4>2 DEF Created
    <3>6. IsFiniteSet(T)
      <4>1. T \in SUBSET source
        OBVIOUS
      <4> QED BY <2>3, <4>1, FS_Subset
    <3> HIDE DEF T
    <3>7. f \in Injection(1..count, T)
      BY <2>4, <3>5 DEF Injection, IsInjective
    <3>8. Cardinality(1..count) <= Cardinality(T)
      BY <3>6, <3>7, FS_Injection
    <3>9. Cardinality(1..count) = count /\ Cardinality(T) \in Nat
      BY <2>1, <3>6, FS_Interval, FS_CardinalityType
    <3>10. Cardinality(T) >= count
      BY <2>1, <3>8, <3>9
    <3> QED BY <3>10 DEF T
  <2> QED BY <2>9, <2>10, <2>11 DEF NothingNewerIsMissing, ids, data, count
<1> QED BY <1>1, Servable, DocumentsAreServed, PTL
=============================================================================
