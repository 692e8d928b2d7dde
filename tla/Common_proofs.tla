----------------------------- MODULE Common_proofs ----------------------------
(***************************************************************************)
(* Lemmas that several proofs rest on: induction in the form of sets of    *)
(* numbers or arrays, what filter keeps, and the constructors of errors.   *)
(***************************************************************************)
EXTENDS RestErrors, Arrays, Integers, SequenceTheorems, WellFoundedInduction, TLAPS

------------------------------------------------------------------------------
(* Induction.                                                               *)

\* A set of numbers that is not empty has a least one.
LEMMA Least ==
    ASSUME NEW T \in SUBSET Nat, T # {}
    PROVE  \E n \in T : \A m \in T : n <= m
<1> DEFINE R == OpToRel(<, Nat)
<1>1. IsWellFoundedOn(R, Nat)
  BY NatLessThanWellFounded
<1>2. \A x, y \in Nat : <<y, x>> \notin R => x <= y
  BY DEF OpToRel
<1> HIDE DEF R
<1>3. \E x \in T : \A y \in T : <<y, x>> \notin R
  BY <1>1, WFMin
<1> QED BY <1>2, <1>3

\* Induction over the naturals, for the set P of those that have a property: the
\* least number outside P would be the successor of one in P.
LEMMA NaturalsInSet ==
    ASSUME NEW P, 0 \in P, \A n \in Nat : n \in P => n + 1 \in P
    PROVE  \A n \in Nat : n \in P
<1> SUFFICES ASSUME NEW m \in Nat, m \notin P PROVE FALSE
  OBVIOUS
<1>1. PICK n \in Nat \ P : \A k \in Nat \ P : n <= k
  BY Least
<1>2. n - 1 \in Nat /\ n - 1 \in P
  BY <1>1
<1> QED BY <1>1, <1>2

\* Induction over sequences, at their ends.
LEMMA SequencesInSet ==
    ASSUME NEW E, NEW P, <<>> \in P,
           \A s \in Seq(E), x \in E : s \in P => Append(s, x) \in P
    PROVE  \A s \in Seq(E) : s \in P
<1> DEFINE Q == {n \in Nat : \A s \in Seq(E) : Len(s) = n => s \in P}
<1>1. 0 \in Q
  BY EmptySeq
<1>2. ASSUME NEW n \in Nat, n \in Q PROVE n + 1 \in Q
  <2> SUFFICES ASSUME NEW s \in Seq(E), Len(s) = n + 1 PROVE s \in P
    OBVIOUS
  <2>1. PICK t \in Seq(E), x \in E : s = Append(t, x)
    BY SequenceEmptyOrAppend, EmptySeq
  <2>2. Len(t) = n
    BY <2>1, AppendProperties, LenProperties
  <2> QED BY <1>2, <2>1, <2>2
<1> HIDE DEF Q
<1>3. \A n \in Nat : n \in Q
  BY <1>1, <1>2, NaturalsInSet
<1> QED BY <1>3, LenProperties DEF Q

------------------------------------------------------------------------------
(* filter.                                                                  *)

\* The recursion of filter, up to the m-th element.
Keeps(kept, array, S, m) ==
    /\ kept = [n \in 0..m |-> kept[n]]
    /\ kept[0] = <<>>
    /\ \A n \in 1..m : kept[n] = IF array[n] \in S THEN Append(kept[n - 1], array[n])
                                 ELSE kept[n - 1]

LEMMA KeepsExists ==
    ASSUME NEW array, NEW S, NEW l \in Nat
    PROVE  \E kept : Keeps(kept, array, S, l)
<1> DEFINE P == {m \in Nat : \E kept : Keeps(kept, array, S, m)}
<1>1. 0 \in P
  <2> DEFINE none == [n \in 0..0 |-> <<>>]
  <2>1. Keeps(none, array, S, 0)
    BY DEF Keeps
  <2> QED BY <2>1
<1>2. ASSUME NEW m \in Nat, m \in P PROVE m + 1 \in P
  <2>1. PICK kept : Keeps(kept, array, S, m)
    BY <1>2
  <2> DEFINE last == IF array[m + 1] \in S THEN Append(kept[m], array[m + 1]) ELSE kept[m]
             more == [n \in 0..(m + 1) |-> IF n = m + 1 THEN last ELSE kept[n]]
  <2> HIDE DEF last
  <2>2. more[0] = <<>> /\ more = [n \in 0..(m + 1) |-> more[n]]
    BY <2>1 DEF Keeps
  <2>3. ASSUME NEW n \in 1..(m + 1)
        PROVE  more[n] = IF array[n] \in S THEN Append(more[n - 1], array[n])
                         ELSE more[n - 1]
    <3>1. CASE n = m + 1
      <4>1. more[n] = last /\ more[n - 1] = kept[m] /\ array[n] = array[m + 1]
        BY <3>1
      <4> QED BY <4>1 DEF last
    <3>2. CASE n # m + 1
      <4>1. n \in 1..m /\ more[n] = kept[n] /\ more[n - 1] = kept[n - 1]
        BY <3>2
      <4> QED BY <4>1, <2>1 DEF Keeps
    <3> QED BY <3>1, <3>2
  <2>4. Keeps(more, array, S, m + 1)
    BY <2>2, <2>3 DEF Keeps
  <2> QED BY <2>4
<1> HIDE DEF P
<1>3. l \in P
  BY <1>1, <1>2, NaturalsInSet
<1> QED BY <1>3 DEF P

LEMMA KeepsUnique ==
    ASSUME NEW a, NEW b, NEW S, NEW m \in Nat, NEW f, NEW g,
           Keeps(f, a, S, m), Keeps(g, b, S, m), \A n \in 1..m : a[n] = b[n]
    PROVE  f[m] = g[m]
<1> DEFINE P == {n \in Nat : n <= m => f[n] = g[n]}
<1>1. 0 \in P
  BY DEF Keeps
<1>2. ASSUME NEW n \in Nat, n \in P PROVE n + 1 \in P
  <2> SUFFICES ASSUME n + 1 <= m PROVE f[n + 1] = g[n + 1]
    OBVIOUS
  <2>1. n + 1 \in 1..m /\ (n + 1) - 1 = n /\ f[n] = g[n]
    BY <1>2
  <2>2. a[n + 1] = b[n + 1]
    BY <2>1
  <2>3. /\ f[n + 1] = IF a[n + 1] \in S THEN Append(f[n], a[n + 1]) ELSE f[n]
        /\ g[n + 1] = IF b[n + 1] \in S THEN Append(g[n], b[n + 1]) ELSE g[n]
    BY <2>1 DEF Keeps
  <2> QED BY <2>1, <2>2, <2>3
<1> HIDE DEF P
<1>3. m \in P
  BY <1>1, <1>2, NaturalsInSet
<1> QED BY <1>3 DEF P

\* filter is what its recursion says.
LEMMA FilterKeeps ==
    ASSUME NEW array, NEW S, Len(array) \in Nat
    PROVE  \E kept : Keeps(kept, array, S, Len(array)) /\ filter(array, S) = kept[Len(array)]
<1> DEFINE kept == CHOOSE kept : kept = [n \in 0..Len(array) |->
                       IF n = 0 THEN <<>>
                       ELSE IF array[n] \in S THEN Append(kept[n - 1], array[n])
                       ELSE kept[n - 1]]
<1>1. kept = [n \in 0..Len(array) |->
                 IF n = 0 THEN <<>>
                 ELSE IF array[n] \in S THEN Append(kept[n - 1], array[n])
                 ELSE kept[n - 1]]
  <2>1. PICK f : Keeps(f, array, S, Len(array))
    BY KeepsExists
  <2>2. f = [n \in 0..Len(array) |->
                IF n = 0 THEN <<>>
                ELSE IF array[n] \in S THEN Append(f[n - 1], array[n])
                ELSE f[n - 1]]
    BY <2>1 DEF Keeps
  <2> QED BY <2>2
<1>2. filter(array, S) = kept[Len(array)]
  BY DEF filter
<1> HIDE DEF kept
<1>3. /\ kept = [n \in 0..Len(array) |-> kept[n]]
      /\ kept[0] = <<>>
  BY <1>1
<1>4. ASSUME NEW n \in 1..Len(array)
      PROVE  kept[n] = IF array[n] \in S THEN Append(kept[n - 1], array[n]) ELSE kept[n - 1]
  <2>1. n \in 0..Len(array) /\ n # 0
    OBVIOUS
  <2> QED BY ONLY <1>1, <2>1
<1>5. Keeps(kept, array, S, Len(array))
  BY <1>3, <1>4 DEF Keeps
<1> QED BY <1>2, <1>5

LEMMA FilterEmpty == \A S : filter(<<>>, S) = <<>>
<1> TAKE S
<1>1. Len(<<>>) = 0
  OBVIOUS
<1>2. PICK kept : Keeps(kept, <<>>, S, 0) /\ filter(<<>>, S) = kept[0]
  BY <1>1, FilterKeeps
<1> QED BY <1>2 DEF Keeps

LEMMA FilterAppend ==
    ASSUME NEW E, NEW s \in Seq(E), NEW x \in E, NEW S
    PROVE  filter(Append(s, x), S) = IF x \in S THEN Append(filter(s, S), x)
                                     ELSE filter(s, S)
<1> DEFINE l == Len(s)
           t == Append(s, x)
<1>1. /\ l \in Nat /\ Len(t) = l + 1 /\ t[l + 1] = x
      /\ \A n \in 1..l : t[n] = s[n]
  BY AppendProperties, LenProperties
<1> HIDE DEF l, t
<1>2. PICK f : Keeps(f, s, S, l) /\ filter(s, S) = f[l]
  BY <1>1, FilterKeeps DEF l
<1>3. PICK g : Keeps(g, t, S, l + 1) /\ filter(t, S) = g[l + 1]
  <2>1. Len(t) \in Nat
    BY <1>1
  <2> QED BY <2>1, <1>1, FilterKeeps
<1> DEFINE h == [n \in 0..l |-> g[n]]
<1>4. Keeps(h, t, S, l)
  <2>1. h[0] = <<>> /\ h = [n \in 0..l |-> h[n]]
    BY <1>1, <1>3 DEF Keeps
  <2>2. ASSUME NEW n \in 1..l
        PROVE  h[n] = IF t[n] \in S THEN Append(h[n - 1], t[n]) ELSE h[n - 1]
    <3>1. n \in 1..(l + 1) /\ h[n] = g[n] /\ h[n - 1] = g[n - 1]
      BY <1>1
    <3> QED BY <3>1, <1>3 DEF Keeps
  <2> QED BY <2>1, <2>2 DEF Keeps
<1>5. h[l] = f[l] /\ h[l] = g[l]
  BY <1>1, <1>2, <1>4, KeepsUnique
<1>6. g[l + 1] = IF x \in S THEN Append(g[l], x) ELSE g[l]
  <2>1. l + 1 \in 1..(l + 1) /\ (l + 1) - 1 = l
    BY <1>1
  <2> QED BY <2>1, <1>1, <1>3 DEF Keeps
<1> QED BY <1>2, <1>3, <1>5, <1>6 DEF t

\* What is kept are elements of the array that are in the set.
LEMMA FilterType ==
    ASSUME NEW E, NEW S
    PROVE  \A s \in Seq(E) : filter(s, S) \in Seq(E \cap S)
<1> DEFINE P == {s \in Seq(E) : filter(s, S) \in Seq(E \cap S)}
<1>1. <<>> \in P
  BY FilterEmpty, EmptySeq
<1>2. ASSUME NEW s \in Seq(E), NEW x \in E, s \in P PROVE Append(s, x) \in P
  <2>1. Append(s, x) \in Seq(E)
    BY AppendProperties
  <2>2. filter(s, S) \in Seq(E \cap S)
    BY <1>2
  <2>3. x \in S => Append(filter(s, S), x) \in Seq(E \cap S)
    BY <2>2, AppendProperties
  <2> QED BY <2>1, <2>2, <2>3, FilterAppend
<1> HIDE DEF P
<1>3. \A s \in Seq(E) : s \in P
  BY <1>1, <1>2, SequencesInSet
<1> QED BY <1>3 DEF P

\* Filtering arrays one by one is filtering them together.
LEMMA FilterConcat ==
    ASSUME NEW E, NEW S, NEW s \in Seq(E)
    PROVE  \A t \in Seq(E) : filter(s \o t, S) = filter(s, S) \o filter(t, S)
<1> DEFINE P == {t \in Seq(E) : filter(s \o t, S) = filter(s, S) \o filter(t, S)}
<1>1. <<>> \in P
  <2>1. s \o <<>> = s /\ filter(s, S) \o <<>> = filter(s, S) /\ <<>> \in Seq(E)
    BY FilterType, ConcatEmptySeq, EmptySeq
  <2> QED BY <2>1, FilterEmpty
<1>2. ASSUME NEW t \in Seq(E), NEW x \in E, t \in P PROVE Append(t, x) \in P
  <2> DEFINE fs == filter(s, S)
             ft == filter(t, S)
             T == E \cap S
  <2>1. /\ Append(t, x) \in Seq(E) /\ s \o t \in Seq(E)
        /\ s \o Append(t, x) = Append(s \o t, x)
    <3>1. Append(t, x) = t \o <<x>> /\ Append(t, x) \in Seq(E) /\ <<x>> \in Seq(E)
      BY AppendIsConcat, AppendProperties, EmptySeq
    <3>2. s \o t \in Seq(E)
      BY ConcatProperties
    <3>3. (s \o t) \o <<x>> = s \o (t \o <<x>>)
      BY <3>1, ConcatAssociative
    <3>4. Append(s \o t, x) = (s \o t) \o <<x>>
      BY <3>2, AppendIsConcat
    <3> QED BY <3>1, <3>2, <3>3, <3>4
  <2>2. filter(s \o t, S) = fs \o ft
    BY <1>2
  <2>3. fs \in Seq(T) /\ ft \in Seq(T)
    BY FilterType
  <2> HIDE DEF fs, ft, T
  <2>4. /\ filter(Append(s \o t, x), S) = IF x \in S THEN Append(fs \o ft, x) ELSE fs \o ft
        /\ filter(Append(t, x), S) = IF x \in S THEN Append(ft, x) ELSE ft
    <3>1. filter(Append(s \o t, x), S)
            = IF x \in S THEN Append(filter(s \o t, S), x) ELSE filter(s \o t, S)
      <4>1. \A u \in Seq(E) : filter(Append(u, x), S)
              = IF x \in S THEN Append(filter(u, S), x) ELSE filter(u, S)
        BY FilterAppend
      <4> QED BY <2>1, <4>1
    <3>2. filter(Append(t, x), S) = IF x \in S THEN Append(ft, x) ELSE ft
      BY FilterAppend DEF ft
    <3> QED BY <2>2, <3>1, <3>2
  <2>5. x \in S => Append(fs \o ft, x) = fs \o Append(ft, x)
    <3> SUFFICES ASSUME x \in S PROVE Append(fs \o ft, x) = fs \o Append(ft, x)
      OBVIOUS
    <3>1. x \in T
      BY DEF T
    <3>2. Append(ft, x) = ft \o <<x>> /\ <<x>> \in Seq(T)
      BY <2>3, <3>1, AppendIsConcat, EmptySeq
    <3>3. (fs \o ft) \o <<x>> = fs \o (ft \o <<x>>)
      BY <2>3, <3>2, ConcatAssociative
    <3>4. fs \o ft \in Seq(T)
      BY <2>3, ConcatProperties
    <3>5. Append(fs \o ft, x) = (fs \o ft) \o <<x>>
      BY <3>1, <3>4, AppendIsConcat
    <3> QED BY <3>2, <3>3, <3>5
  <2> QED BY <2>1, <2>4, <2>5 DEF fs
<1> HIDE DEF P
<1>3. \A t \in Seq(E) : t \in P
  BY <1>1, <1>2, SequencesInSet
<1> QED BY <1>3 DEF P

\* An array of kept elements is kept as it is, one without any is emptied.
LEMMA FilterAll ==
    ASSUME NEW S
    PROVE  \A s \in Seq(S) : filter(s, S) = s
<1> DEFINE P == {s \in Seq(S) : filter(s, S) = s}
<1>1. <<>> \in P
  BY FilterEmpty, EmptySeq
<1>2. ASSUME NEW s \in Seq(S), NEW x \in S, s \in P PROVE Append(s, x) \in P
  BY <1>2, FilterAppend, AppendProperties
<1> HIDE DEF P
<1>3. \A s \in Seq(S) : s \in P
  BY <1>1, <1>2, SequencesInSet
<1> QED BY <1>3 DEF P

LEMMA FilterNone ==
    ASSUME NEW E, NEW S, E \cap S = {}
    PROVE  \A s \in Seq(E) : filter(s, S) = <<>>
<1> DEFINE P == {s \in Seq(E) : filter(s, S) = <<>>}
<1>1. <<>> \in P
  BY FilterEmpty, EmptySeq
<1>2. ASSUME NEW s \in Seq(E), NEW x \in E, s \in P PROVE Append(s, x) \in P
  <2>1. x \notin S /\ Append(s, x) \in Seq(E)
    BY AppendProperties
  <2> QED BY <1>2, <2>1, FilterAppend
<1> HIDE DEF P
<1>3. \A s \in Seq(E) : s \in P
  BY <1>1, <1>2, SequencesInSet
<1> QED BY <1>3 DEF P

\* Where the elements that are kept come from: positions in order, and all those
\* of kept elements.
Positions(at, s, S) ==
    LET kept == filter(s, S)
    IN  /\ at \in [1..Len(kept) -> 1..Len(s)]
        /\ \A n \in 1..Len(kept) : kept[n] = s[at[n]]
        /\ \A m, n \in 1..Len(kept) : m < n => at[m] < at[n]
        /\ \A k \in 1..Len(s) : s[k] \in S => \E n \in 1..Len(kept) : at[n] = k

LEMMA FilterKeepsTheOrder ==
    ASSUME NEW E, NEW S
    PROVE  \A s \in Seq(E) : \E at : Positions(at, s, S)
<1> DEFINE P == {s \in Seq(E) : \E at : Positions(at, s, S)}
<1>1. <<>> \in P
  <2>1. filter(<<>>, S) = <<>> /\ Len(<<>>) = 0 /\ 1..0 = {} /\ <<>> \in Seq(E)
    BY FilterEmpty
  <2> DEFINE at == [n \in {} |-> 1]
  <2>2. Positions(at, <<>>, S)
    BY <2>1 DEF Positions
  <2> QED BY <2>1, <2>2
<1>2. ASSUME NEW s \in Seq(E), NEW x \in E, s \in P PROVE Append(s, x) \in P
  <2> DEFINE t == Append(s, x)
             kept == filter(s, S)
             more == filter(t, S)
             l == Len(s)
             k == Len(kept)
  <2>1. PICK at : Positions(at, s, S)
    BY <1>2
  <2>2. /\ t \in Seq(E) /\ l \in Nat /\ Len(t) = l + 1 /\ t[l + 1] = x
        /\ \A n \in 1..l : t[n] = s[n]
    BY AppendProperties, LenProperties
  <2>3. kept \in Seq(E \cap S) /\ k \in Nat
    BY FilterType, LenProperties
  <2>4. more = IF x \in S THEN Append(kept, x) ELSE kept
    BY FilterAppend
  <2>5. /\ at \in [1..k -> 1..l]
        /\ \A n \in 1..k : kept[n] = s[at[n]]
        /\ \A m, n \in 1..k : m < n => at[m] < at[n]
        /\ \A p \in 1..l : s[p] \in S => \E n \in 1..k : at[n] = p
    BY <2>1 DEF Positions
  <2> HIDE DEF t, kept, more, l, k
  <2>6. CASE x \in S
    <3>1. /\ more = Append(kept, x) /\ Len(more) = k + 1 /\ more[k + 1] = x
          /\ \A n \in 1..k : more[n] = kept[n]
      <4>1. x \in E \cap S
        BY <2>6
      <4> QED BY <2>3, <2>4, <2>6, <4>1, AppendProperties DEF k
    <3> DEFINE last == [n \in 1..(k + 1) |-> IF n = k + 1 THEN l + 1 ELSE at[n]]
    <3>2. last \in [1..(k + 1) -> 1..(l + 1)]
      BY <2>2, <2>3, <2>5
    <3>3. ASSUME NEW n \in 1..(k + 1) PROVE more[n] = t[last[n]]
      <4>1. CASE n = k + 1
        BY <2>2, <3>1, <4>1
      <4>2. CASE n # k + 1
        <5>1. n \in 1..k /\ last[n] = at[n] /\ at[n] \in 1..l
          BY <2>3, <2>5, <4>2
        <5> QED BY <5>1, <2>2, <2>5, <3>1
      <4> QED BY <4>1, <4>2
    <3>4. ASSUME NEW m \in 1..(k + 1), NEW n \in 1..(k + 1), m < n PROVE last[m] < last[n]
      <4>1. m \in 1..k /\ last[m] = at[m] /\ at[m] \in 1..l
        BY <2>3, <2>5, <3>4
      <4>2. CASE n = k + 1
        BY <2>2, <2>3, <4>1, <4>2
      <4>3. CASE n # k + 1
        <5>1. n \in 1..k /\ last[n] = at[n]
          BY <2>3, <4>3
        <5> QED BY <4>1, <5>1, <2>5, <3>4
      <4> QED BY <4>2, <4>3
    <3>5. ASSUME NEW p \in 1..(l + 1), t[p] \in S PROVE \E n \in 1..(k + 1) : last[n] = p
      <4>1. CASE p = l + 1
        BY <2>3, <4>1
      <4>2. CASE p # l + 1
        <5>1. p \in 1..l /\ s[p] \in S
          BY <2>2, <3>5, <4>2
        <5>2. PICK n \in 1..k : at[n] = p
          BY <5>1, <2>5
        <5> QED BY <5>2, <2>3
      <4> QED BY <4>1, <4>2
    <3>6. Positions(last, t, S)
      <4> HIDE DEF last
      <4> QED BY <2>2, <3>1, <3>2, <3>3, <3>4, <3>5 DEF Positions, more
    <3> QED BY <2>2, <3>6 DEF t
  <2>7. CASE x \notin S
    <3>1. more = kept /\ Len(more) = k
      BY <2>4, <2>7 DEF k
    <3>2. at \in [1..k -> 1..(l + 1)] /\ \A n \in 1..k : kept[n] = t[at[n]]
      BY <2>2, <2>5
    <3>3. ASSUME NEW p \in 1..(l + 1), t[p] \in S PROVE \E n \in 1..k : at[n] = p
      <4>1. p \in 1..l /\ s[p] \in S
        BY <2>2, <2>7, <3>3
      <4> QED BY <4>1, <2>5
    <3>4. Positions(at, t, S)
      BY <2>2, <2>5, <3>1, <3>2, <3>3 DEF Positions, more
    <3> QED BY <2>2, <3>4 DEF t
  <2> QED BY <2>6, <2>7
<1> HIDE DEF P
<1>3. \A s \in Seq(E) : s \in P
  BY <1>1, <1>2, SequencesInSet
<1> QED BY <1>3 DEF P

------------------------------------------------------------------------------
(* Errors.                                                                  *)

\* Errors built by the constructors of RestErrors are errors.
LEMMA ErrorTypes ==
    /\ \A m \in Message, s \in Nat, id \in Id, p \in Faults :
         BFFFxError(m, s, id, p) \in Error
    /\ \A m \in Message, s \in Nat, id \in Id, o \in Owner :
         BFFFxErrorQuoting(m, s, id, o) \in Error
    /\ \A m \in Exception : ProgramError(m) \in Error
    /\ NoError \in Error
    /\ notFoundError \in Error
    /\ defaultError \in Error
    /\ NoDocument \in Document
<1>1. ASSUME NEW m \in Message, NEW s \in Nat, NEW id \in Id, NEW p \in Faults
      PROVE  BFFFxError(m, s, id, p) \in Error
  <2>1. [kind |-> "error", id |-> id, parameters |-> p, owner |-> Anonymous] \in Document
    BY OwnerAssumption DEF Document, Kind
  <2> QED BY <2>1 DEF BFFFxError, RestResponseError, Error, SENTRY_BEHAVIOR
<1>5. ASSUME NEW m \in Message, NEW s \in Nat, NEW id \in Id, NEW o \in Owner
      PROVE  BFFFxErrorQuoting(m, s, id, o) \in Error
  <2>1. [kind |-> "error", id |-> id, parameters |-> <<>>, owner |-> o] \in Document
    BY DEF Document, Kind, Faults
  <2> QED BY <2>1 DEF BFFFxErrorQuoting, RestResponseError, Error, SENTRY_BEHAVIOR
<1>2. NoDocument \in Document
  BY OwnerAssumption DEF NoDocument, Document, Kind, Id, Faults
<1>3. \A m \in Exception : ProgramError(m) \in Error
  BY <1>2 DEF ProgramError, Error, SENTRY_BEHAVIOR, Message
<1>4. NoError \in Error
  BY <1>3 DEF NoError, Exception
<1>6. notFoundError \in Error
  <2>1. "Not Found" \in Message /\ 404 \in Nat /\ "a5d471c4" \in Id /\ <<>> \in Faults
    BY DEF Message, Id, Faults
  <2> QED BY ONLY <2>1, <1>1 DEF notFoundError
<1>7. defaultError \in Error
  <2>1. "Bad Implementation" \in Message /\ 500 \in Nat /\ "a03b69b9" \in Id /\ <<>> \in Faults
    BY DEF Message, Id, Faults
  <2> QED BY ONLY <2>1, <1>1 DEF defaultError
<1> QED BY <1>1, <1>2, <1>3, <1>4, <1>5, <1>6, <1>7
==============================================================================
