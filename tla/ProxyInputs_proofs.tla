------------------------- MODULE ProxyInputs_proofs -------------------------
(***************************************************************************)
(* Lemmas about the query handlers of the three routes, for any query and  *)
(* any string conversions.                                                 *)
(***************************************************************************)
EXTENDS ProxyInputs, Common_proofs

------------------------------------------------------------------------------
(* Types.                                                                   *)

\* Whatever the query, a route's handleQueryParameters gives variables and an
\* error, which is NoError when the query is accepted.
LEMMA QueryTypes ==
    ASSUME NEW q \in Query, NEW r \in {"recent-saves", "recommendations", "global-recs"}
    PROVE  LET o == handleQueryParameters(r, q)
           IN  o.variables \in Variables /\ o.error \in Error
<1>2. \A p \in Parameter : q[p] \in Value \cup {Absent}
  BY DEF Query
<1>3. \A v \in Value \cup {Absent}, d \in {"10", "20", "30"} :
         parseInt[toString[OrElse(v, d)]] \in Int \cup {NaN}
  BY TextsAssumption DEF OrElse
<1>4. NoVariables \in Variables
  BY TextsAssumption DEF NoVariables, Variables
<1>5. recentSavesCoerced(q) \in Variables
  <2>1. parseInt[toString[OrElse(q.count, "10")]] \in Int \cup {NaN}
    BY <1>2, <1>3 DEF Parameter
  <2> QED BY <2>1, <1>4 DEF recentSavesCoerced, Variables
<1>6. recommendationsCoerced(q) \in Variables
  <2>1. parseInt[toString[OrElse(q.count, "30")]] \in Int \cup {NaN}
    BY <1>2, <1>3 DEF Parameter
  <2>2. OrElse(q.region, Null) \in Value \cup {Null}
    BY <1>2 DEF Parameter, OrElse
  <2>3. q.locale \in Value \cup {Absent}
    BY <1>2 DEF Parameter
  <2> QED BY <2>1, <2>2, <2>3 DEF recommendationsCoerced, Variables, Parameter
<1>7. globalRecsCoerced(q) \in Variables
  <2>1. parseInt[toString[OrElse(q.count, "20")]] \in Int \cup {NaN}
    BY <1>2, <1>3 DEF Parameter
  <2>2. OrElse(q.region, Null) \in Value \cup {Null}
    BY <1>2 DEF Parameter, OrElse
  <2>3. q.locale_lang \in Value \cup {Absent}
    BY <1>2 DEF Parameter
  <2> QED BY <2>1, <2>2, <2>3 DEF globalRecsCoerced, Variables, Parameter
<1>8. \A v : recentSavesValidate(v) \in Error
  <2>1. /\ "input validation failure" \in Message /\ 400 \in Nat
        /\ "3f262c60" \in Id /\ <<"count">> \in Faults
    BY DEF Message, Id, Faults
  <2>2. BFFFxError("input validation failure", 400, "3f262c60", <<"count">>) \in Error
    BY ONLY <2>1, ErrorTypes
  <2> QED BY <2>2, ErrorTypes DEF recentSavesValidate
<1>9. \A v : recommendationsValidate(v) \in Error
  <2> TAKE v
  <2> DEFINE c == IF isValidCount(v.count) THEN <<>> ELSE <<"count">>
             l == IF isValidLocale(v.locale) THEN <<>> ELSE <<"locale">>
  <2>1. c \in Faults /\ l \in Faults
    <3>1. <<>> \in Faults /\ <<"count">> \in Faults /\ <<"locale">> \in Faults
      BY DEF Faults
    <3> QED BY ONLY <3>1 DEF c, l
  <2> HIDE DEF c, l
  <2>2. c \o l \in Faults
    BY ONLY <2>1 DEF Faults
  <2>3. "input validation failure" \in Message /\ 404 \in Nat /\ "82868c64" \in Id
    BY DEF Message, Id
  <2>4. BFFFxError("input validation failure", 404, "82868c64", c \o l) \in Error
    BY ONLY <2>2, <2>3, ErrorTypes
  <2> QED BY <2>4, ErrorTypes DEF recommendationsValidate, c, l
<1> QED BY <1>5, <1>6, <1>7, <1>8, <1>9 DEF handleQueryParameters, Outcome

------------------------------------------------------------------------------
(* What the handlers make of a query.                                       *)

LEMMA Parameters ==
    ASSUME NEW q \in Query
    PROVE  /\ q.count \in Value \cup {Absent}
           /\ q.locale \in Value \cup {Absent}
           /\ q.locale_lang \in Value \cup {Absent}
BY DEF Query, Parameter

LEMMA CountIsANumber ==
    ASSUME NEW v \in Value \cup {Absent}, NEW d \in {"10", "20", "30"}
    PROVE  parseInt[toString[OrElse(v, d)]] \in Int \cup {NaN}
BY TextsAssumption DEF OrElse

LEMMA Pair ==
    ASSUME NEW a, NEW b
    PROVE  <<a>> \o <<b>> = <<a, b>>
<1> DEFINE S == {a, b}
           s == Append(<<a>>, b)
           t == <<a, b>>
<1>1. s \in Seq(S) /\ t \in Seq(S)
  OBVIOUS
<1>2. Len(s) = 2 /\ Len(t) = 2
  BY <1>1
<1>3. s[1] = a /\ s[2] = b /\ t[1] = a /\ t[2] = b
  BY <1>1
<1>4. s = <<a>> \o <<b>>
  <2>1. <<a>> \in Seq(S) /\ b \in S
    OBVIOUS
  <2> HIDE DEF S
  <2> QED BY <2>1, AppendIsConcat, Zenon
<1> HIDE DEF s, t
<1>5. \A i \in 1..Len(s) : s[i] = t[i]
  BY <1>2, <1>3
<1>6. s = t
  BY <1>1, <1>2, <1>5, SeqEqual
<1> QED BY <1>4, <1>6 DEF t

\* The count and the locale that a localised route works with.
LEMMA LocalisedQuery ==
    ASSUME NEW r \in {"recommendations", "global-recs"}, NEW q \in Query
    PROVE  LET o == handleQueryParameters(r, q)
               locale == IF r = "recommendations" THEN q.locale ELSE q.locale_lang
               default == IF r = "recommendations" THEN "30" ELSE "20"
           IN  /\ o.error = recommendationsValidate(o.variables)
               /\ o.variables.count = parseInt[toString[OrElse(q.count, default)]]
               /\ o.variables.locale = locale
<1>1. CASE r = "recommendations"
  BY <1>1 DEF handleQueryParameters, Outcome, recommendationsCoerced
<1>2. CASE r = "global-recs"
  BY <1>2 DEF handleQueryParameters, Outcome, globalRecsCoerced
<1> QED BY <1>1, <1>2

LEMMA SavesQuery ==
    ASSUME NEW q \in Query
    PROVE  LET o == handleQueryParameters("recent-saves", q)
               count == parseInt[toString[OrElse(q.count, "10")]]
           IN  /\ o.variables.count = IF count # NaN /\ count > 20 THEN 20 ELSE count
               /\ o.error = NoError <=> InRange(o.variables.count, 1, 20)
<1> DEFINE v == recentSavesCoerced(q)
           count == parseInt[toString[OrElse(q.count, "10")]]
<1>1. handleQueryParameters("recent-saves", q) = [variables |-> v, error |-> recentSavesValidate(v)]
  BY DEF handleQueryParameters, Outcome
<1>2. v.count = IF count # NaN /\ count > 20 THEN 20 ELSE count
  BY DEF recentSavesCoerced, NoVariables
<1> HIDE DEF v
<1>3. recentSavesValidate(v) = NoError <=> InRange(v.count, 1, 20)
  <2>1. BFFFxError("input validation failure", 400, "3f262c60", <<"count">>) # NoError
    BY DEF BFFFxError, RestResponseError, NoError, ProgramError
  <2>2. CASE InRange(v.count, 1, 20)
    BY <2>2 DEF recentSavesValidate
  <2>3. CASE ~InRange(v.count, 1, 20)
    BY <2>1, <2>3 DEF recentSavesValidate
  <2> QED BY <2>2, <2>3
<1> QED BY <1>1, <1>2, <1>3

\* Without a count the default is asked for.
LEMMA DefaultCount ==
    ASSUME NEW d \in {"10", "20", "30"}
    PROVE  /\ parseInt[toString[OrElse(Absent, d)]] = parseInt[d]
           /\ parseInt[d] \in 10..20 \/ parseInt[d] = 30
<1>1. parseInt["10"] = 10 /\ parseInt["20"] = 20 /\ parseInt["30"] = 30
  BY TextsAssumption
<1>2. toString[d] = d
  BY TextsAssumption
<1>3. OrElse(Absent, d) = d
  BY DEF OrElse
<1> QED BY <1>1, <1>2, <1>3

LEMMA NaNIsNoInteger == \A n \in Int : n # NaN
BY TextsAssumption

\* Both parameters of an accepted query are valid.
LEMMA ValidateAccepts ==
    ASSUME NEW v, recommendationsValidate(v) = NoError
    PROVE  isValidCount(v.count) /\ isValidLocale(v.locale)
<1>1. \A d : BFFFxError("input validation failure", 404, "82868c64", d) # NoError
  BY DEF BFFFxError, RestResponseError, NoError, ProgramError
<1> DEFINE c == IF isValidCount(v.count) THEN <<>> ELSE <<"count">>
           l == IF isValidLocale(v.locale) THEN <<>> ELSE <<"locale">>
<1>2. c \o l = <<>>
  BY <1>1 DEF recommendationsValidate
<1>3. c \in Seq({"count", "locale"}) /\ l \in Seq({"count", "locale"})
  <2>1. /\ <<>> \in Seq({"count", "locale"})
        /\ <<"count">> \in Seq({"count", "locale"})
        /\ <<"locale">> \in Seq({"count", "locale"})
    OBVIOUS
  <2> QED BY ONLY <2>1
<1>4. Len(c) = 0 /\ Len(l) = 0
  <2> HIDE DEF c, l
  <2>1. Len(c \o l) = Len(c) + Len(l) /\ Len(c) \in Nat /\ Len(l) \in Nat
    BY <1>3
  <2>2. Len(c \o l) = 0
    BY <1>2
  <2> QED BY <2>1, <2>2
<1>5. Len(<<"count">>) = 1 /\ Len(<<"locale">>) = 1
  OBVIOUS
<1> QED BY <1>4, <1>5

\* What is asked of the graphs for an accepted query.
LEMMA AcceptedIsServable ==
    ASSUME NEW q \in Query, NEW r \in {"recent-saves", "recommendations", "global-recs"},
           handleQueryParameters(r, q).error = NoError
    PROVE  LET v == handleQueryParameters(r, q).variables
           IN  /\ v.count \in 1..(IF r = "recent-saves" THEN 20 ELSE 30)
               /\ r # "recent-saves" => v.locale \in Value /\ isValidLocale(v.locale)
<1> DEFINE o == handleQueryParameters(r, q)
           v == o.variables
<1>1. CASE r = "recent-saves"
  <2> DEFINE count == parseInt[toString[OrElse(q.count, "10")]]
  <2>1. count \in Int \cup {NaN}
    BY Parameters, CountIsANumber
  <2>2. /\ v.count = IF count # NaN /\ count > 20 THEN 20 ELSE count
        /\ InRange(v.count, 1, 20)
    BY <1>1, SavesQuery
  <2> HIDE DEF count, v
  <2>3. v.count \in 1..20
    BY <2>1, <2>2 DEF InRange
  <2> QED BY <1>1, <2>3 DEF v
<1>2. CASE r # "recent-saves"
  <2> DEFINE default == IF r = "recommendations" THEN "30" ELSE "20"
  <2>1. /\ recommendationsValidate(v) = NoError
        /\ v.count = parseInt[toString[OrElse(q.count, default)]]
        /\ v.locale = IF r = "recommendations" THEN q.locale ELSE q.locale_lang
    BY <1>2, LocalisedQuery
  <2>2. isValidCount(v.count) /\ isValidLocale(v.locale)
    BY <2>1, ValidateAccepts
  <2>3. v.count \in Int \cup {NaN} /\ v.locale \in Value \cup {Absent}
    BY <2>1, Parameters, CountIsANumber
  <2> HIDE DEF v
  <2>4. v.count \in 1..30 /\ v.locale \in Value
    BY <2>2, <2>3 DEF isValidCount, isValidLocale, InRange
  <2> QED BY <1>2, <2>2, <2>4 DEF v
<1> QED BY <1>1, <1>2
=============================================================================
