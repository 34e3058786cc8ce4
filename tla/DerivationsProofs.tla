---------------------------- MODULE DerivationsProofs ----------------------------
(***************************************************************************)
(* What holds of the derivations whatever the calls, the types, the samples    *)
(* and the windows: what sorting and ranking return, that the doorways listed  *)
(* are those that called within the window, that the lists of a type do not    *)
(* depend on whether it is derived alone, that no conclusion is drawn from a   *)
(* group that is too small, that figures as of a day are settled on that day,  *)
(* that figures, rows and blocks agree with each other, that a doorway is      *)
(* placed where most of its calls say, and that it left when the retained      *)
(* lists say so.                                                               *)
(***************************************************************************)
EXTENDS Derivations, FiniteSetTheorems, FunctionTheorems, TLAPS

\* The part of TypeOK that the selections rest on.
RecordsTyped ==
    /\ DOMAIN records = Ids
    /\ \A i \in Ids : records[i] \in Records[i] \union {None}

THEOREM Typing == Spec => []RecordsTyped
<1>1. Init => RecordsTyped
  BY DEF Init, RecordsTyped
<1>2. RecordsTyped /\ [Next]_vars => RecordsTyped'
  <2> SUFFICES ASSUME RecordsTyped, [Next]_vars PROVE RecordsTyped'
    OBVIOUS
  <2>1. ASSUME NEW i \in Ids, NEW record \in Records[i] \union {None}, Reload(i, record)
        PROVE  RecordsTyped'
    BY <2>1 DEF Reload, RecordsTyped
  <2>2. CASE UNCHANGED records
    BY <2>2 DEF RecordsTyped
  <2> QED BY <2>1, <2>2 DEF Next, SnapshotAfterSync, SnapshotLost, vars
<1> QED BY <1>1, <1>2, PTL DEF Spec

\* The calls of a selection are typed as the records are.
LEMMA SelectedCalls ==
    ASSUME RecordsTyped, NEW ids \in SUBSET Labelled
    PROVE  LET calls == CallsOf(ids) IN
           /\ DOMAIN calls \subseteq ids /\ IsFiniteSet(DOMAIN calls)
           /\ \A i \in DOMAIN calls : /\ calls[i] = records[i]
                                      /\ calls[i].started \in Int \union {None}
                                      /\ calls[i].address \in Addresses \union {None}
<1>1. \A i \in ids : i \in Ids /\ records[i] \in Records[i]
  BY DEF Labelled, RecordsTyped
<1>2. DOMAIN CallsOf(ids) = {j \in ids : records[j].held}
  BY DEF CallsOf
<1>3. \A i \in DOMAIN CallsOf(ids) : CallsOf(ids)[i] = records[i]
  BY DEF CallsOf
<1>4. IsFiniteSet(DOMAIN CallsOf(ids))
  BY <1>1, <1>2, FS_Subset, DerivationAssumption
<1> QED BY <1>1, <1>2, <1>3, <1>4, DerivationAssumption

LEMMA TypedIds ==
    ASSUME RecordsTyped, NEW f \in IdToType, NEW t \in Types
    PROVE  {i \in DOMAIN f : f[i] = t} \in SUBSET Labelled
BY DEF IdToType

LEMMA OwnIds ==
    ASSUME NEW t \in Types
    PROVE  IdsOfType(t) \in SUBSET Labelled
BY DEF IdsOfType

--------------------------------------------------------------------------------
(* No conclusion from a small sample. *)

\* What a group counts is the calls at a doorway with its tow status.
LEMMA GroupCounts ==
    ASSUME RecordsTyped, NEW ids \in SUBSET Labelled, NEW days
    PROVE  LET calls == CallsOf(ids)
               groups == RecurrenceByTow(calls, days, None)
               said(tow) == {i \in DOMAIN calls :
                                /\ calls[i].tow = tow
                                /\ \E a \in Addresses : i \in CallsAt(calls, a)}
           IN  /\ groups["towed"].calls = Cardinality(said("Y"))
               /\ groups["not_towed"].calls = Cardinality(said("N"))
<1> DEFINE calls == CallsOf(ids)
           grouped == GroupedCalls(calls, None)
           said(tow) == {i \in DOMAIN calls : /\ calls[i].tow = tow
                                              /\ \E a \in Addresses : i \in CallsAt(calls, a)}
           under(key) == {i \in DOMAIN grouped : TowKey(grouped[i]) = key}
<1>1. \A i \in DOMAIN calls : calls[i].address \in Addresses \union {None}
  BY SelectedCalls
<1>2. DOMAIN grouped = {i \in DOMAIN calls : calls[i].started # None /\ calls[i].address # None}
  BY DEF GroupedCalls, Usable, BeforeCutoff
<1>3. \A i \in DOMAIN grouped : grouped[i] = calls[i]
  BY DEF GroupedCalls
<1> HIDE DEF grouped, calls
<1>4. None \notin Addresses
  BY DerivationAssumption
<1>5. under("towed") = said("Y")
  BY <1>1, <1>2, <1>3, <1>4 DEF TowKey, CallsAt
<1>6. under("not_towed") = said("N")
  BY <1>1, <1>2, <1>3, <1>4 DEF TowKey, CallsAt
<1>7. /\ RecurrenceByTow(calls, days, None)["towed"].calls = Cardinality(under("towed"))
      /\ RecurrenceByTow(calls, days, None)["not_towed"].calls = Cardinality(under("not_towed"))
  BY DEF RecurrenceByTow, TowKeys, grouped
<1> QED BY <1>5, <1>6, <1>7 DEF calls

\* A type's percentages are quoted, and its tows are said to lower or to raise its
\* recurrence, only where both groups of calls are large enough, whatever the bootstrap
\* answers (per_type.py, _tow_conclusion; server.py, _tow_thesis_sentence).
THEOREM NoSmallSample == Spec => []ThesisNeedsASample
<1>1. RecordsTyped => ThesisNeedsASample
  <2> SUFFICES ASSUME RecordsTyped, NEW f \in IdToType, NEW t \in Types,
                      NEW interval \in {None, <<-5, -1>>, <<1, 5>>},
                      NEW rows
               PROVE  LET calls == CallsByType(f, t)
                          figures == ComputeType(calls, rows, YearDays, interval)
                          said(tow) == {i \in DOMAIN calls :
                                           /\ calls[i].tow = tow
                                           /\ \E a \in Addresses : i \in CallsAt(calls, a)}
                      IN  (\/ ThesisQuotes(figures) # {}
                           \/ figures.tow \in {"tow_lower", "tow_higher"}) =>
                             \A tow \in {"Y", "N"} :
                                 Cardinality(said(tow)) >= MIN_TOW_GROUP_SAMPLE
    BY DEF ThesisNeedsASample
  <2> DEFINE ids == {i \in DOMAIN f : f[i] = t}
             calls == CallsOf(ids)
             groups == RecurrenceByTow(calls, YearDays, None)
             figures == ComputeType(calls, rows, YearDays, interval)
  <2>1. CallsByType(f, t) = calls
    BY DEF CallsByType
  <2>2. figures.tow = TowConclusion(groups, interval)
    BY DEF ComputeType
  <2> HIDE DEF figures, groups, calls
  <2>3. ThesisQuotes(figures) # {} \/ figures.tow \in {"tow_lower", "tow_higher"} =>
            figures.tow # "sample_too_small"
    BY DEF ThesisQuotes
  <2>4. ~TowSampleOk(groups) => TowConclusion(groups, interval) = "sample_too_small"
    BY DEF TowConclusion
  <2>5. TowSampleOk(groups) => /\ groups["towed"].calls >= MIN_TOW_GROUP_SAMPLE
                               /\ groups["not_towed"].calls >= MIN_TOW_GROUP_SAMPLE
    BY DEF TowSampleOk
  <2>6. ids \in SUBSET Labelled
    BY TypedIds
  <2> QED BY <2>1, <2>2, <2>3, <2>4, <2>5, <2>6, GroupCounts DEF figures, groups, calls
<1> QED BY <1>1, Typing, PTL

--------------------------------------------------------------------------------
(* Figures as of a day. *)

\* Recurrence is computed from nothing but the calls before the cutoff.
LEMMA FromTheGrouped ==
    ASSUME NEW calls, NEW later, NEW days, NEW as_of,
           GroupedCalls(calls, as_of) = GroupedCalls(later, as_of)
    PROVE  RecurrenceByTow(calls, days, as_of) = RecurrenceByTow(later, days, as_of)
BY DEF RecurrenceByTow

\* A call is grouped under a type by its own record.
CountsBefore(r, t, as_of) ==
    /\ r # None /\ r.labels \cap CANONICAL_TYPES[t] # {} /\ r.held
    /\ r.started # None /\ r.address # None /\ r.started < as_of

ByTheirRecords ==
    \A t \in Types, as_of \in Int :
        GroupedCalls(CallsOf(IdsOfType(t)), as_of) =
            [i \in {j \in Ids : CountsBefore(records[j], t, as_of)} |-> records[i]]

LEMMA GroupedByRecord == RecordsTyped => ByTheirRecords
<1> SUFFICES ASSUME RecordsTyped, NEW t \in Types, NEW as_of \in Int
             PROVE  GroupedCalls(CallsOf(IdsOfType(t)), as_of) =
                        [i \in {j \in Ids : CountsBefore(records[j], t, as_of)} |-> records[i]]
  BY DEF ByTheirRecords
<1> DEFINE calls == CallsOf(IdsOfType(t))
<1>1. DOMAIN calls = {i \in Ids : /\ records[i] # None /\ records[i].held
                                  /\ records[i].labels \cap CANONICAL_TYPES[t] # {}}
  BY DEF CallsOf, IdsOfType, Labelled
<1>2. \A i \in DOMAIN calls : calls[i] = records[i]
  BY DEF CallsOf
<1> HIDE DEF calls
<1>3. as_of # None
  BY DerivationAssumption
<1>4. {i \in DOMAIN calls : Usable(calls[i]) /\ BeforeCutoff(calls[i], as_of)} =
          {j \in Ids : CountsBefore(records[j], t, as_of)}
  BY <1>1, <1>2, <1>3 DEF Usable, BeforeCutoff, CountsBefore
<1> DEFINE kept == {j \in Ids : CountsBefore(records[j], t, as_of)}
<1>5. GroupedCalls(calls, as_of) = [i \in kept |-> calls[i]]
  BY <1>4 DEF GroupedCalls
<1>6. \A i \in kept : calls[i] = records[i]
  BY <1>2, <1>4
<1> QED BY <1>5, <1>6 DEF calls

\* Recurrence as of a day is not rewritten by what HRM says afterwards of later calls
\* (figures.py, recurrence_by_tow with a cutoff).
THEOREM SettledOnTheDay == Spec => AsOfIsStable
<1>1. RecordsTyped' => ByTheirRecords'
  BY GroupedByRecord, PTL
<1>2. ASSUME RecordsTyped, RecordsTyped', NEW t \in Types, NEW as_of \in {9, 12},
             \A i \in {j \in Ids : records'[j] # records[j]} :
                 \A held \in {records[i], records'[i]} :
                     held # None => held.started # None /\ held.started >= as_of
      PROVE  RecurrenceByTow(CallsOf(IdsOfType(t)), YearDays, as_of)' =
                 RecurrenceByTow(CallsOf(IdsOfType(t)), YearDays, as_of)
  <2> DEFINE kept == {j \in Ids : CountsBefore(records[j], t, as_of)}
             keptNext == {j \in Ids : CountsBefore(records'[j], t, as_of)}
  <2>1. as_of \in Int
    OBVIOUS
  <2>2. ASSUME NEW i \in Ids, records'[i] # records[i], NEW held \in {records[i], records'[i]}
        PROVE  ~CountsBefore(held, t, as_of)
    <3>1. held # None => held.started # None /\ held.started >= as_of
      BY <1>2, <2>2
    <3>2. held # None => held.started \in Int \union {None}
      BY <1>2, <2>2, DerivationAssumption DEF RecordsTyped
    <3> QED BY <2>1, <3>1, <3>2 DEF CountsBefore
  <2>3. kept = keptNext
    BY <2>2
  <2>4. \A i \in kept : records'[i] = records[i]
    BY <2>2
  <2>5. GroupedCalls(CallsOf(IdsOfType(t)), as_of) = [i \in kept |-> records[i]]
    BY <1>2, <2>1, GroupedByRecord DEF ByTheirRecords
  <2>6. GroupedCalls(CallsOf(IdsOfType(t))', as_of) = [i \in keptNext |-> records'[i]]
    BY <1>1, <1>2, <2>1 DEF ByTheirRecords
  <2>7. [i \in kept |-> records[i]] = [i \in keptNext |-> records'[i]]
    BY <2>3, <2>4
  <2>8. GroupedCalls(CallsOf(IdsOfType(t))', as_of) = GroupedCalls(CallsOf(IdsOfType(t)), as_of)
    BY <2>5, <2>6, <2>7, Zenon
  <2> QED BY <2>8, FromTheGrouped
<1>3. RecordsTyped /\ RecordsTyped' /\ [Next]_vars =>
          [records' # records =>
            \A t \in Types : \A calls \in {CallsOf(IdsOfType(t))} : \A as_of \in {9, 12} :
              (\A i \in {j \in Ids : records'[j] # records[j]} :
                  \A held \in {records[i], records'[i]} :
                      held # None => held.started # None /\ held.started >= as_of) =>
              RecurrenceByTow(CallsOf(IdsOfType(t)), YearDays, as_of)' =
                  RecurrenceByTow(calls, YearDays, as_of)]_vars
  BY <1>2
<1> QED BY <1>3, Typing, PTL DEF Spec, AsOfIsStable

--------------------------------------------------------------------------------
(* Sorting. *)

\* The least set of integers without a greatest would lose nothing with any member.
LEMMA Greatest ==
    ASSUME NEW S \in SUBSET Int, IsFiniteSet(S), S # {}
    PROVE  \E m \in S : \A n \in S : n <= m
<1> DEFINE Has(T) == \E m \in T : \A n \in T : n <= m
           bad == {T \in SUBSET S : T # {} /\ ~Has(T)}
<1> SUFFICES ASSUME bad # {} PROVE FALSE
  OBVIOUS
<1>1. bad \subseteq FiniteSubsetsOf(S)
  BY FS_Subset DEF FiniteSubsetsOf
<1> HIDE DEF bad
<1>2. PICK T \in bad : \A U \in bad : ~(<<U, T>> \in StrictSubsetOrdering(S))
  BY <1>1, FS_StrictSubsetOrderingWellFounded, WFMin
<1>3. T \in SUBSET S /\ T # {} /\ ~Has(T)
  BY DEF bad
<1>4. PICK x \in T : TRUE
  BY <1>3
<1>5. T \ {x} \notin bad
  BY <1>2, <1>3, <1>4 DEF StrictSubsetOrdering
<1>6. T \ {x} = {} \/ Has(T \ {x})
  BY <1>3, <1>5 DEF bad
<1>7. CASE T \ {x} = {}
  <2>1. \A n \in T : n = x
    BY <1>7
  <2> QED BY <1>3, <1>4, <2>1
<1>8. CASE Has(T \ {x})
  <2>1. PICK m \in T \ {x} : \A n \in T \ {x} : n <= m
    BY <1>8
  <2>2. m \in Int /\ x \in Int /\ T \subseteq Int
    BY <1>3, <1>4, <2>1
  <2>3. CASE x <= m
    <3>1. \A n \in T : n <= m
      BY <2>1, <2>3
    <3> QED BY <1>3, <2>1, <3>1
  <2>4. CASE ~(x <= m)
    <3>1. \A n \in T : n <= x
      BY <2>1, <2>2, <2>4
    <3> QED BY <1>3, <1>4, <3>1
  <2> QED BY <2>3, <2>4
<1> QED BY <1>6, <1>7, <1>8

\* R orders the elements of S one after another.
Orders(R, S) ==
    /\ \A x \in S : <<x, x>> \notin R
    /\ \A x, y \in S : x = y \/ <<x, y>> \in R \/ <<y, x>> \in R
    /\ \A x, y, z \in S : <<x, y>> \in R /\ <<y, z>> \in R => <<x, z>> \in R

\* How many elements R has before each one.
Before(R, S) == [x \in S |-> Cardinality({y \in S : <<y, x>> \in R})]

\* Sorting lists every element once, each before those it is ordered before.
LEMMA Sorts ==
    ASSUME NEW S, IsFiniteSet(S), NEW R, Orders(R, S)
    PROVE  /\ Ranked(Before(R, S)) \in [1..Cardinality(S) -> S]
           /\ \A x \in S : \E k \in 1..Cardinality(S) : Ranked(Before(R, S))[k] = x
           /\ \A j, k \in 1..Cardinality(S) :
                  j < k => <<Ranked(Before(R, S))[j], Ranked(Before(R, S))[k]>> \in R
<1> DEFINE n == Cardinality(S)
           below(x) == {y \in S : <<y, x>> \in R}
           before == Before(R, S)
           q == Ranked(before)
<1>1. n \in Nat
  BY FS_CardinalityType
<1>2. ASSUME NEW x \in S
      PROVE  /\ IsFiniteSet(below(x)) /\ Cardinality(below(x)) \in Nat
             /\ before[x] = Cardinality(below(x)) /\ before[x] \in Nat
             /\ IsFiniteSet(below(x) \cup {x}) /\ Cardinality(below(x) \cup {x}) = before[x] + 1
  <2>1. IsFiniteSet(below(x)) /\ x \notin below(x)
    BY FS_Subset DEF Orders
  <2>2. Cardinality(below(x)) \in Nat
    BY <2>1, FS_CardinalityType
  <2>3. before[x] = Cardinality(below(x))
    BY DEF Before
  <2> QED BY <2>1, <2>2, <2>3, FS_AddElement
<1>3. DOMAIN before = S
  BY DEF Before
<1> HIDE DEF n, before
<1>4. ASSUME NEW x \in S
      PROVE  before[x] \in 0..n - 1
  <2>1. below(x) \cup {x} \in SUBSET S
    OBVIOUS
  <2>2. Cardinality(below(x) \cup {x}) <= n
    BY <2>1, FS_Subset DEF n
  <2>3. before[x] \in Nat /\ before[x] + 1 <= n
    BY <1>2, <2>2
  <2> QED BY ONLY <1>1, <2>3
<1>5. ASSUME NEW x \in S, NEW y \in S, <<x, y>> \in R
      PROVE  before[x] < before[y]
  <2>1. below(x) \cup {x} \in SUBSET below(y)
    BY <1>5 DEF Orders
  <2>2. Cardinality(below(x) \cup {x}) <= Cardinality(below(y))
    BY <1>2, <2>1, FS_Subset
  <2>3. before[x] \in Nat /\ before[y] \in Nat /\ before[x] + 1 <= before[y]
    BY <1>2, <2>2
  <2> QED BY ONLY <2>3
<1>6. \A x \in S : before[x] \in Nat
  BY <1>2
<1>7. ASSUME NEW x \in S, NEW y \in S, ~(before[y] < before[x])
      PROVE  x = y \/ <<x, y>> \in R
  BY <1>5, <1>7 DEF Orders
<1>8. ASSUME NEW x \in S, NEW y \in S, before[x] = before[y]
      PROVE  x = y
  <2>1. ~(before[x] < before[y]) /\ ~(before[y] < before[x])
    BY ONLY <1>6, <1>8
  <2> QED BY <1>5, <2>1 DEF Orders
<1>9. before \in Injection(S, 0..n - 1)
  <2>1. before \in [S -> 0..n - 1]
    BY <1>4 DEF before, Before
  <2> QED BY <1>8, <2>1, Fun_IsInj
<1>10. IsFiniteSet(0..n - 1) /\ Cardinality(0..n - 1) = n
  BY <1>1, FS_Interval
<1>11. before \in Surjection(S, 0..n - 1)
  BY <1>9, <1>10, FS_Injection DEF n
<1>12. \A k \in 0..n - 1 : \E x \in S : before[x] = k
  BY ONLY <1>11, Fun_SurjectionProperties
<1>13. \A k \in 1..n : \E x \in S : before[x] = k - 1
  BY ONLY <1>1, <1>12
<1>14. q = [k \in 1..n |-> CHOOSE x \in S : before[x] = k - 1]
  BY <1>3 DEF Ranked, n
<1> HIDE DEF q
<1>15. \A k \in 1..n : q[k] \in S /\ before[q[k]] = k - 1
  BY ONLY <1>13, <1>14
<1>16. q \in [1..n -> S]
  BY ONLY <1>14, <1>15
<1>17. ASSUME NEW x \in S PROVE \E k \in 1..n : q[k] = x
  <2>1. before[x] + 1 \in 1..n /\ (before[x] + 1) - 1 = before[x]
    BY ONLY <1>1, <1>4
  <2> QED BY <1>8, <1>15, <2>1
<1>18. ASSUME NEW j \in 1..n, NEW k \in 1..n, j < k
       PROVE  <<q[j], q[k]>> \in R
  <2>1. before[q[j]] < before[q[k]] /\ ~(before[q[k]] < before[q[j]]) /\ q[j] # q[k]
    BY ONLY <1>1, <1>15, <1>18
  <2> QED BY <1>7, <1>15, <2>1
<1> QED BY <1>16, <1>17, <1>18 DEF n, q, before

LEMMA Ascends ==
    ASSUME NEW S \in SUBSET Nat, IsFiniteSet(S), NEW f \in [S -> Int]
    PROVE  /\ Ascending(f) \in [1..Cardinality(S) -> S]
           /\ \A x \in S : \E k \in 1..Cardinality(S) : Ascending(f)[k] = x
           /\ \A j, k \in 1..Cardinality(S) : j < k =>
                  \/ f[Ascending(f)[j]] < f[Ascending(f)[k]]
                  \/ /\ f[Ascending(f)[j]] = f[Ascending(f)[k]]
                     /\ Ascending(f)[j] < Ascending(f)[k]
<1> DEFINE R == {p \in S \X S : f[p[1]] < f[p[2]] \/ (f[p[1]] = f[p[2]] /\ p[1] < p[2])}
<1>1. \A x, y \in S : <<x, y>> \in R <=> f[x] < f[y] \/ (f[x] = f[y] /\ x < y)
  OBVIOUS
<1>2. \A x \in S : f[x] \in Int /\ x \in Nat
  OBVIOUS
<1> HIDE DEF R
<1>3. Orders(R, S)
  <2>1. \A x \in S : <<x, x>> \notin R
    BY ONLY <1>1, <1>2
  <2>2. ASSUME NEW x \in S, NEW y \in S
        PROVE  x = y \/ <<x, y>> \in R \/ <<y, x>> \in R
    <3>1. f[x] < f[y] \/ f[y] < f[x] \/ (f[x] = f[y] /\ (x < y \/ y < x \/ x = y))
      BY ONLY <1>2
    <3> QED BY ONLY <1>1, <3>1
  <2>3. ASSUME NEW x \in S, NEW y \in S, NEW z \in S, <<x, y>> \in R, <<y, z>> \in R
        PROVE  <<x, z>> \in R
    BY ONLY <1>1, <1>2, <2>3
  <2> QED BY <2>1, <2>2, <2>3 DEF Orders
<1>4. \A x \in S : {y \in S : <<y, x>> \in R} = {y \in S : f[y] < f[x] \/ (f[y] = f[x] /\ y < x)}
  BY <1>1
<1>5. Before(R, S) =
          [x \in S |-> Cardinality({y \in S : f[y] < f[x] \/ (f[y] = f[x] /\ y < x)})]
  BY <1>4, Zenon DEF Before
<1>6. Ascending(f) = Ranked(Before(R, S))
  BY <1>5 DEF Ascending
<1> HIDE DEF R
<1>8. /\ Ranked(Before(R, S)) \in [1..Cardinality(S) -> S]
      /\ \A x \in S : \E k \in 1..Cardinality(S) : Ranked(Before(R, S))[k] = x
      /\ \A j, k \in 1..Cardinality(S) :
             j < k => <<Ranked(Before(R, S))[j], Ranked(Before(R, S))[k]>> \in R
  BY <1>3, Sorts
<1> QED BY <1>1, <1>6, <1>8

\* A list that holds each element of a set once.
Enumerates(list, S) ==
    /\ list \in [1..Cardinality(S) -> S] /\ Cardinality(S) \in Nat
    /\ \A x \in S : \E k \in 1..Cardinality(S) : list[k] = x
    /\ \A j, k \in 1..Cardinality(S) : list[j] = list[k] => j = k

LEMMA SortsOnce ==
    ASSUME NEW S, IsFiniteSet(S), NEW R, Orders(R, S)
    PROVE  Enumerates(Ranked(Before(R, S)), S)
<1> DEFINE q == Ranked(Before(R, S))
           n == Cardinality(S)
<1>1. /\ q \in [1..n -> S] /\ \A x \in S : \E k \in 1..n : q[k] = x
      /\ \A j, k \in 1..n : j < k => <<q[j], q[k]>> \in R
  BY Sorts
<1>2. n \in Nat
  BY FS_CardinalityType
<1> HIDE DEF q, n
<1>3. ASSUME NEW j \in 1..n, NEW k \in 1..n, q[j] = q[k], j < k
      PROVE  FALSE
  <2>1. <<q[j], q[k]>> \in R /\ q[j] \in S
    BY <1>1, <1>3
  <2> QED BY <1>3, <2>1 DEF Orders
<1>4. \A j, k \in 1..n : j = k \/ j < k \/ k < j
  BY <1>2
<1>5. \A j, k \in 1..n : q[j] = q[k] => j = k
  BY <1>3, <1>4
<1> QED BY <1>1, <1>2, <1>5 DEF Enumerates, q, n

\* What is in a list is what it enumerates.
LEMMA Listed ==
    ASSUME NEW list, NEW S, Enumerates(list, S)
    PROVE  /\ DOMAIN list = 1..Len(list) /\ Len(list) = Cardinality(S) /\ list \in Seq(S)
           /\ \A k \in 1..Len(list) : list[k] \in S
           /\ \A x \in S : \E k \in 1..Len(list) : list[k] = x
           /\ \A j, k \in 1..Len(list) : list[j] = list[k] => j = k
           /\ ToSet(list) = S
<1>1. DOMAIN list = 1..Cardinality(S) /\ Cardinality(S) \in Nat
  BY DEF Enumerates
<1>2. list \in Seq(S) /\ Len(list) = Cardinality(S)
  BY <1>1 DEF Enumerates
<1>3. ToSet(list) = S
  BY <1>1 DEF ToSet, Enumerates
<1> QED BY <1>1, <1>2, <1>3 DEF Enumerates

\* The arguments of a function are sorted by its values, each once.
LEMMA AscendsOnce ==
    ASSUME NEW S \in SUBSET Nat, IsFiniteSet(S), NEW f \in [S -> Int]
    PROVE  /\ Enumerates(Ascending(f), S)
           /\ \A j, k \in 1..Cardinality(S) : j <= k => f[Ascending(f)[j]] <= f[Ascending(f)[k]]
<1> DEFINE entries == Ascending(f)
           n == Cardinality(S)
<1>1. n \in Nat
  BY FS_CardinalityType
<1>2. /\ entries \in [1..n -> S] /\ \A x \in S : \E k \in 1..n : entries[k] = x
      /\ \A j, k \in 1..n : j < k =>
             \/ f[entries[j]] < f[entries[k]]
             \/ f[entries[j]] = f[entries[k]] /\ entries[j] < entries[k]
  BY Ascends
<1> HIDE DEF entries, n
<1>3. \A k \in 1..n : entries[k] \in Nat /\ f[entries[k]] \in Int
  BY <1>2
<1>4. ASSUME NEW j \in 1..n, NEW k \in 1..n, entries[j] = entries[k], j < k
      PROVE  FALSE
  BY <1>2, <1>3, <1>4
<1>5. \A j, k \in 1..n : j = k \/ j < k \/ k < j
  BY <1>1
<1>6. \A j, k \in 1..n : entries[j] = entries[k] => j = k
  BY <1>4, <1>5
<1>7. ASSUME NEW j \in 1..n, NEW k \in 1..n, j <= k
      PROVE  f[entries[j]] <= f[entries[k]]
  <2>1. CASE j = k
    BY <1>3, <2>1
  <2>2. CASE j < k
    <3>1. f[entries[j]] < f[entries[k]] \/ f[entries[j]] = f[entries[k]]
      BY <1>2, <2>2
    <3> QED BY ONLY <1>3, <3>1, j \in 1..n, k \in 1..n
  <2> QED BY <1>5, <1>7, <2>1, <2>2
<1> QED BY <1>1, <1>2, <1>6, <1>7 DEF Enumerates, entries, n

\* The values of a function on a finite set are finitely many.
LEMMA Images ==
    ASSUME NEW S, IsFiniteSet(S), NEW f
    PROVE  IsFiniteSet({f[x] : x \in S}) /\ Cardinality({f[x] : x \in S}) <= Cardinality(S)
<1> DEFINE T == {f[x] : x \in S}
           g == [x \in S |-> f[x]]
<1>1. g \in Surjection(S, T)
  BY DEF Surjection
<1> HIDE DEF g
<1> QED BY <1>1, FS_Surjection

LEMMA Least ==
    ASSUME NEW S \in SUBSET Nat, S # {}
    PROVE  Min(S) \in S /\ \A n \in S : Min(S) <= n
<1>1. PICK x \in S : TRUE
  OBVIOUS
<1> DEFINE T == {n \in S : n <= x}
           down == [n \in T |-> 0 - n]
           D == {down[n] : n \in T}
<1>2. IsFiniteSet(T) /\ T \in SUBSET Nat
  BY <1>1, FS_BoundedSetOfNaturals
<1>3. IsFiniteSet(D)
  <2> HIDE DEF T, down
  <2> QED BY <1>2, Images
<1>4. D \in SUBSET Int /\ D # {}
  BY <1>1
<1>5. PICK m \in D : \A d \in D : d <= m
  BY <1>3, <1>4, Greatest
<1>6. PICK n \in T : m = 0 - n
  BY <1>5
<1>7. \A k \in T : n <= k
  <2>1. \A k \in T : 0 - k <= m
    BY <1>5
  <2> QED BY <1>2, <1>6, <2>1
<1>8. \A k \in S : n <= k
  BY <1>1, <1>6, <1>7
<1>9. \E y \in S : \A k \in S : y <= k
  BY <1>6, <1>8
<1> QED BY <1>9 DEF Min

--------------------------------------------------------------------------------
(* Sums. *)

\* A sum of the sizes of disjoint sets is the size of their union.
LEMMA SumCounts ==
    ASSUME NEW S, IsFiniteSet(S), NEW P,
           \A a \in S : IsFiniteSet(P[a]),
           \A a, b \in S : a # b => P[a] \cap P[b] = {},
           NEW g, DOMAIN g = S, \A a \in S : g[a] = Cardinality(P[a])
    PROVE  /\ IsFiniteSet(UNION {P[a] : a \in S})
           /\ SumFunction(g) = Cardinality(UNION {P[a] : a \in S})
<1> DEFINE all(T) == UNION {P[a] : a \in T}
           H == [T \in SUBSET S |-> Cardinality(all(T))]
           first(T) == CHOOSE x \in T : TRUE
           Step(f) == [T \in SUBSET S |-> IF T = {} THEN 0
                                          ELSE g[first(T)] + f[T \ {first(T)}]]
           sum == CHOOSE f : f = Step(f)
<1>1. ASSUME NEW T \in SUBSET S
      PROVE  IsFiniteSet(all(T)) /\ Cardinality(all(T)) \in Nat
  <2>1. IsFiniteSet(T)
    BY FS_Subset
  <2>2. IsFiniteSet({P[a] : a \in T})
    BY <2>1, Images
  <2>3. IsFiniteSet(all(T))
    BY <2>2, FS_UNION
  <2> QED BY <2>3, FS_CardinalityType
<1>2. ASSUME NEW T \in SUBSET S, NEW x \in T
      PROVE  Cardinality(all(T)) = g[x] + Cardinality(all(T \ {x}))
  <2> DEFINE U == all(T \ {x})
  <2>1. all(T) = P[x] \cup U /\ P[x] \cap U = {}
    OBVIOUS
  <2>2. IsFiniteSet(P[x]) /\ Cardinality(P[x]) = g[x] /\ Cardinality(P[x]) \in Nat
    BY FS_CardinalityType
  <2>3. T \ {x} \in SUBSET S
    OBVIOUS
  <2>4. IsFiniteSet(U) /\ Cardinality(U) \in Nat
    BY <1>1, <2>3
  <2>5. Cardinality(P[x] \cap U) = 0
    BY <2>1, FS_EmptySet
  <2> HIDE DEF U
  <2>6. Cardinality(P[x] \cup U) = Cardinality(P[x]) + Cardinality(U) - Cardinality(P[x] \cap U)
    BY <2>2, <2>4, FS_Union
  <2>7. Cardinality(P[x] \cup U) = g[x] + Cardinality(U)
    BY <2>2, <2>4, <2>5, <2>6
  <2> QED BY <2>1, <2>7 DEF U
<1>3. Cardinality(all({})) = 0
  <2>1. all({}) = {}
    OBVIOUS
  <2> QED BY <2>1, FS_EmptySet
<1>4. SumFunction(g) = sum[S]
  BY DEF SumFunction, SumFunctionOnSet, FoldFunctionOnSet, MapThenFoldSet
<1> HIDE DEF all, first
<1>5. \A T \in SUBSET S : T # {} => first(T) \in T
  BY DEF first
<1>6. \A T \in SUBSET S : H[T] = Cardinality(all(T))
  OBVIOUS
<1> DEFINE next(f, T) == IF T = {} THEN 0 ELSE g[first(T)] + f[T \ {first(T)}]
<1>7. \A T \in SUBSET S : H[T] = next(H, T)
  BY <1>2, <1>3, <1>5, <1>6
<1>8. H = Step(H)
  BY <1>7
<1> HIDE DEF H
<1>9. sum = Step(sum)
  BY <1>8
<1> HIDE DEF sum
<1>10. \A T \in SUBSET S : sum[T] = next(sum, T)
  BY <1>9
<1> DEFINE bad == {T \in SUBSET S : sum[T] # H[T]}
<1>11. bad = {}
  <2> SUFFICES ASSUME bad # {} PROVE FALSE
    OBVIOUS
  <2>1. bad \subseteq FiniteSubsetsOf(S)
    BY FS_Subset DEF FiniteSubsetsOf
  <2> HIDE DEF bad
  <2>2. PICK T \in bad : \A U \in bad : ~(<<U, T>> \in StrictSubsetOrdering(S))
    BY <2>1, FS_StrictSubsetOrderingWellFounded, WFMin
  <2>3. T \in SUBSET S /\ sum[T] # H[T]
    BY DEF bad
  <2>4. T # {}
    BY <1>7, <1>10, <2>3
  <2> DEFINE U == T \ {first(T)}
  <2>5. U \in SUBSET S /\ <<U, T>> \in StrictSubsetOrdering(S)
    BY <1>5, <2>3, <2>4 DEF StrictSubsetOrdering
  <2>6. sum[U] = H[U]
    BY <2>2, <2>5 DEF bad
  <2>7. sum[T] = g[first(T)] + sum[U] /\ H[T] = g[first(T)] + H[U]
    BY <1>7, <1>10, <2>3, <2>4
  <2> QED BY <2>3, <2>6, <2>7
<1>12. sum[S] = H[S]
  BY <1>11
<1>13. S \in SUBSET S
  OBVIOUS
<1> QED BY <1>1, <1>4, <1>6, <1>12, <1>13 DEF all

\* A sum of naturals is one.
LEMMA SumIsNat ==
    ASSUME NEW S, IsFiniteSet(S), NEW g \in [S -> Nat]
    PROVE  SumFunction(g) \in Nat
<1> DEFINE P == [a \in S |-> {a} \X (1..g[a])]
<1>1. ASSUME NEW a \in S
      PROVE  IsFiniteSet(P[a]) /\ Cardinality(P[a]) = g[a]
  <2>1. IsFiniteSet({a}) /\ Cardinality({a}) = 1
    BY FS_Singleton
  <2>2. g[a] \in Nat /\ IsFiniteSet(1..g[a]) /\ Cardinality(1..g[a]) = g[a]
    BY FS_Interval
  <2>3. IsFiniteSet({a} \X (1..g[a])) /\ Cardinality({a} \X (1..g[a])) = 1 * g[a]
    <3> DEFINE one == {a}
               many == 1..g[a]
    <3>1. /\ IsFiniteSet(one) /\ Cardinality(one) = 1
          /\ IsFiniteSet(many) /\ Cardinality(many) = g[a]
      BY <2>1, <2>2
    <3> HIDE DEF one, many
    <3>2. /\ IsFiniteSet(one \X many)
          /\ Cardinality(one \X many) = Cardinality(one) * Cardinality(many)
      BY <3>1, FS_Product
    <3> QED BY <3>1, <3>2 DEF one, many
  <2> QED BY <2>2, <2>3
<1>2. \A a, b \in S : a # b => P[a] \cap P[b] = {}
  OBVIOUS
<1>3. DOMAIN g = S
  OBVIOUS
<1> HIDE DEF P
<1>4. /\ IsFiniteSet(UNION {P[a] : a \in S})
      /\ SumFunction(g) = Cardinality(UNION {P[a] : a \in S})
  BY <1>1, <1>2, <1>3, SumCounts
<1> QED BY <1>4, FS_CardinalityType

\* A set and a part of it.
LEMMA TwoParts ==
    ASSUME NEW S, IsFiniteSet(S), NEW A \in SUBSET S
    PROVE  /\ Cardinality(S) = Cardinality(A) + Cardinality(S \ A)
           /\ Cardinality(A) \in Nat /\ Cardinality(S \ A) \in Nat
<1> DEFINE B == S \ A
<1>1. IsFiniteSet(A) /\ IsFiniteSet(B) /\ B \in SUBSET S
  BY FS_Subset
<1>2. Cardinality(A) \in Nat /\ Cardinality(B) \in Nat
  BY <1>1, FS_CardinalityType
<1>3. A \cup B = S /\ A \cap B = {}
  OBVIOUS
<1>4. Cardinality(A \cap B) = 0
  BY <1>3, FS_EmptySet
<1> HIDE DEF B
<1>5. Cardinality(A \cup B) = Cardinality(A) + Cardinality(B) - Cardinality(A \cap B)
  BY <1>1, FS_Union
<1>6. Cardinality(S) = Cardinality(A) + Cardinality(B)
  BY <1>2, <1>3, <1>4, <1>5
<1> QED BY <1>2, <1>6 DEF B

\* Counting along a list that enumerates a set is counting in the set.
LEMMA CountAlong ==
    ASSUME NEW S, IsFiniteSet(S), NEW list, Enumerates(list, S), NEW Q
    PROVE  Cardinality({k \in 1..Len(list) : list[k] \in Q}) = Cardinality(S \cap Q)
<1> DEFINE K == {k \in 1..Len(list) : list[k] \in Q}
           g == [k \in K |-> list[k]]
<1>1. /\ Len(list) \in Nat
      /\ \A k \in 1..Len(list) : list[k] \in S
      /\ \A x \in S : \E k \in 1..Len(list) : list[k] = x
      /\ \A j, k \in 1..Len(list) : list[j] = list[k] => j = k
  BY Listed
<1>2. g \in Bijection(K, S \cap Q)
  <2>1. g \in [K -> S \cap Q]
    BY <1>1
  <2>2. \A j, k \in K : g[j] = g[k] => j = k
    BY <1>1
  <2>3. \A x \in S \cap Q : \E k \in K : g[k] = x
    BY <1>1
  <2> HIDE DEF g, K
  <2> QED BY <2>1, <2>2, <2>3, Fun_IsBij
<1>3. IsFiniteSet(K)
  <2>1. IsFiniteSet(1..Len(list))
    BY <1>1, FS_Interval
  <2> QED BY <2>1, FS_Subset
<1> HIDE DEF g, K
<1> QED BY <1>2, <1>3, FS_Bijection DEF ExistsBijection, K

--------------------------------------------------------------------------------
(* The rows. *)

CallsTyped(calls) ==
    /\ DOMAIN calls \in SUBSET Nat /\ IsFiniteSet(DOMAIN calls)
    /\ \A i \in DOMAIN calls : /\ calls[i].started \in Int \union {None}
                               /\ calls[i].address \in Addresses \union {None}

LEMMA Doorway ==
    ASSUME NEW calls, CallsTyped(calls), NEW a \in AddressesOf(calls)
    PROVE  LET at == AtDoorway(calls, a)
               times == TimesAt(calls, a)
           IN  /\ a \in Addresses
               /\ at = CallsAt(calls, a) /\ at \in SUBSET DOMAIN calls /\ at \in SUBSET Nat
               /\ IsFiniteSet(at) /\ Cardinality(at) \in Nat \ {0}
               /\ Min(at) \in at /\ calls[Min(at)].address = a
               /\ times \in [at -> Int] /\ DOMAIN times = at
               /\ \A i \in at : times[i] = calls[i].started
<1> DEFINE at == AtDoorway(calls, a)
<1>1. a \in Addresses /\ a # None
  BY DerivationAssumption DEF AddressesOf, Usable, CallsTyped
<1>2. at = {i \in DOMAIN calls : calls[i].started # None /\ calls[i].address = a}
  BY <1>1 DEF AtDoorway, Usable
<1>3. at \in SUBSET DOMAIN calls /\ at \in SUBSET Nat /\ at # {}
  BY <1>2 DEF AddressesOf, Usable, CallsTyped
<1>4. at = CallsAt(calls, a)
  BY <1>2 DEF CallsAt
<1>5. IsFiniteSet(at) /\ Cardinality(at) \in Nat \ {0}
  BY <1>3, FS_Subset, FS_CardinalityType, FS_EmptySet DEF CallsTyped
<1>6. Min(at) \in at
  BY <1>3, Least
<1>7. calls[Min(at)].address = a
  BY <1>2, <1>6
<1>8. \A i \in at : calls[i].started \in Int
  BY <1>2 DEF CallsTyped
<1> HIDE DEF at
<1>9. TimesAt(calls, a) = [i \in at |-> calls[i].started]
  BY DEF TimesAt, at
<1>10. /\ TimesAt(calls, a) \in [at -> Int] /\ DOMAIN TimesAt(calls, a) = at
       /\ \A i \in at : TimesAt(calls, a)[i] = calls[i].started
  BY <1>8, <1>9
<1> QED BY <1>1, <1>3, <1>4, <1>5, <1>6, <1>7, <1>10 DEF at

\* What the rank and the thresholds read of a row.
LEMMA RowCounts ==
    ASSUME NEW calls, CallsTyped(calls), NEW a \in AddressesOf(calls), NEW days,
           NEW from \in Int
    PROVE  LET at == CallsAt(calls, a)
               row == Row(calls, TimesAt(calls, a), days, from)
           IN  /\ row.address = a
               /\ row.first \in at
               /\ row.calls_12mo = Cardinality({i \in at : calls[i].started >= from})
               /\ row.calls_12mo \in Nat
               /\ row.calls_total = Cardinality(at) /\ row.calls_total \in Nat \ {0}
               /\ row.tows \in Nat
<1> DEFINE at == AtDoorway(calls, a)
           times == TimesAt(calls, a)
           row == Row(calls, times, days, from)
<1>1. /\ at = CallsAt(calls, a) /\ IsFiniteSet(at) /\ Cardinality(at) \in Nat \ {0}
      /\ Min(at) \in at /\ calls[Min(at)].address = a
      /\ DOMAIN times = at /\ \A i \in at : times[i] = calls[i].started
  BY Doorway
<1> HIDE DEF at, times
<1>2. /\ row.address = calls[Min(at)].address
      /\ row.first = Min(at)
      /\ row.calls_12mo = Cardinality({i \in at : times[i] >= from})
      /\ row.calls_total = Cardinality(at)
      /\ row.tows = Cardinality({i \in at : calls[i].tow = "Y"})
  BY <1>1 DEF Row
<1> HIDE DEF row
<1>3. {i \in at : times[i] >= from} = {i \in at : calls[i].started >= from}
  BY <1>1
<1>4. \A P \in SUBSET at : Cardinality(P) \in Nat
  BY <1>1, FS_Subset, FS_CardinalityType
<1>5. row.calls_12mo \in Nat /\ row.tows \in Nat
  BY <1>2, <1>4
<1> QED BY <1>1, <1>2, <1>3, <1>5 DEF row, times

--------------------------------------------------------------------------------
(* The rank. *)

LEMMA Scaled ==
    ASSUME NEW p \in Int, NEW q \in Int, NEW n \in Nat \ {0}
    PROVE  (p < q <=> p * n < q * n) /\ (p = q <=> p * n = q * n)
OBVIOUS

LEMMA Fractions ==
    ASSUME NEW a \in Int, NEW b \in Int, NEW c \in Int,
           NEW x \in Nat \ {0}, NEW y \in Nat \ {0}, NEW z \in Nat \ {0},
           b * x <= a * y, c * y <= b * z
    PROVE  /\ c * x <= a * z
           /\ a * z = c * x => a * y = b * x /\ b * z = c * y
<1>1. (b * x) * z <= (a * y) * z /\ ((b * x) * z = (a * y) * z => b * x = a * y)
  <2>1. b * x \in Int /\ a * y \in Int
    OBVIOUS
  <2> QED BY <2>1, Scaled
<1>2. (c * y) * x <= (b * z) * x /\ ((c * y) * x = (b * z) * x => c * y = b * z)
  <2>1. c * y \in Int /\ b * z \in Int
    OBVIOUS
  <2> QED BY <2>1, Scaled
<1>3. (b * x) * z = (b * z) * x /\ (a * y) * z = (a * z) * y /\ (c * y) * x = (c * x) * y
  OBVIOUS
<1> DEFINE p == c * x
           q == a * z
<1>4. p \in Int /\ q \in Int /\ (b * x) * z \in Int
  OBVIOUS
<1>5. p * y <= q * y
  BY <1>1, <1>2, <1>3
<1>6. p <= q
  BY <1>4, <1>5, Scaled
<1>7. p = q => p * y = q * y
  OBVIOUS
<1>8. p = q => b * x = a * y /\ c * y = b * z
  BY <1>1, <1>2, <1>3, <1>7
<1> QED BY <1>6, <1>8

\* Rows that the rank can tell apart.
Rankable(rows) ==
    /\ IsFiniteSet(rows)
    /\ \A r \in rows : /\ r.calls_12mo \in Nat /\ r.tows \in Nat /\ r.first \in Nat
                       /\ r.calls_total \in Nat \ {0}
    /\ \A r, s \in rows : r.first = s.first => r = s

RankPairs(rows) == {p \in rows \X rows : RanksBefore(p[1], p[2])}

\* The rank is an order: it compares r.calls_12mo * (1 - r.tow_rate), two fractions.
LEMMA RankOrders ==
    ASSUME NEW rows, Rankable(rows)
    PROVE  Orders(RankPairs(rows), rows)
<1> DEFINE n(r) == r.calls_12mo * (r.calls_total - r.tows)
           d(r) == r.calls_total
<1>1. \A r \in rows : n(r) \in Int /\ d(r) \in Nat \ {0} /\ r.first \in Nat
  BY DEF Rankable
<1>2. \A r, s \in rows : <<r, s>> \in RankPairs(rows) <=>
          n(r) * d(s) > n(s) * d(r) \/ (n(r) * d(s) = n(s) * d(r) /\ r.first < s.first)
  BY DEF RankPairs, RanksBefore
<1>3. \A r, s \in rows : n(r) * d(s) \in Int
  BY <1>1
<1> HIDE DEF n, d
<1>4. \A r \in rows : <<r, r>> \notin RankPairs(rows)
  BY ONLY <1>1, <1>2, <1>3
<1>5. ASSUME NEW r \in rows, NEW s \in rows
      PROVE  r = s \/ <<r, s>> \in RankPairs(rows) \/ <<s, r>> \in RankPairs(rows)
  <2>1. r = s \/ r.first < s.first \/ s.first < r.first
    BY <1>1 DEF Rankable
  <2>2. n(r) * d(s) \in Int /\ n(s) * d(r) \in Int
    BY <1>3
  <2> QED BY ONLY <1>2, <2>1, <2>2
<1>6. ASSUME NEW r \in rows, NEW s \in rows, NEW u \in rows,
             <<r, s>> \in RankPairs(rows), <<s, u>> \in RankPairs(rows)
      PROVE  <<r, u>> \in RankPairs(rows)
  <2>1. n(s) * d(r) <= n(r) * d(s) /\ n(u) * d(s) <= n(s) * d(u)
    BY ONLY <1>2, <1>3, <1>6
  <2>2. /\ n(u) * d(r) <= n(r) * d(u)
        /\ n(r) * d(u) = n(u) * d(r) => n(r) * d(s) = n(s) * d(r) /\ n(s) * d(u) = n(u) * d(s)
    <3> DEFINE a == n(r) b == n(s) c == n(u) x == d(r) y == d(s) z == d(u)
    <3>1. a \in Int /\ b \in Int /\ c \in Int /\ {x, y, z} \subseteq Nat \ {0}
      BY ONLY <1>1
    <3>2. b * x <= a * y /\ c * y <= b * z
      BY <2>1
    <3> HIDE DEF a, b, c, x, y, z
    <3>3. c * x <= a * z /\ (a * z = c * x => a * y = b * x /\ b * z = c * y)
      BY ONLY <3>1, <3>2, Fractions
    <3> QED BY <3>3 DEF a, b, c, x, y, z
  <2>3. CASE n(r) * d(u) = n(u) * d(r)
    <3>1. r.first < s.first /\ s.first < u.first
      BY ONLY <1>2, <1>3, <1>6, <2>2, <2>3
    <3>2. r.first < u.first
      BY ONLY <1>1, <3>1
    <3> QED BY ONLY <1>2, <2>3, <3>2
  <2>4. CASE n(r) * d(u) # n(u) * d(r)
    <3>1. n(r) * d(u) \in Int /\ n(u) * d(r) \in Int
      BY <1>3
    <3>2. n(r) * d(u) > n(u) * d(r)
      BY ONLY <2>2, <2>4, <3>1
    <3> QED BY ONLY <1>2, <3>2
  <2> QED BY <2>3, <2>4
<1> QED BY ONLY <1>4, <1>5, <1>6 DEF Orders

LEMMA RankLists ==
    ASSUME NEW rows, Rankable(rows)
    PROVE  Enumerates(RankRows(rows), rows)
<1>1. \A r \in rows : {s \in rows : <<s, r>> \in RankPairs(rows)} = {s \in rows : RanksBefore(s, r)}
  BY DEF RankPairs
<1>2. Before(RankPairs(rows), rows) =
          [r \in rows |-> Cardinality({s \in rows : RanksBefore(s, r)})]
  BY <1>1, Zenon DEF Before
<1>3. RankRows(rows) = Ranked(Before(RankPairs(rows), rows))
  BY <1>2 DEF RankRows
<1> QED BY <1>3, RankOrders, SortsOnce DEF Rankable

LEMMA SomeRankable ==
    ASSUME NEW rows, Rankable(rows), NEW some \in SUBSET rows
    PROVE  Rankable(some)
BY FS_Subset DEF Rankable

LEMMA FiniteAddresses ==
    ASSUME NEW calls, CallsTyped(calls)
    PROVE  IsFiniteSet(AddressesOf(calls))
<1> DEFINE usable == {i \in DOMAIN calls : Usable(calls[i])}
           address == [i \in usable |-> calls[i].address]
<1>1. IsFiniteSet(usable)
  BY FS_Subset DEF CallsTyped
<1>2. AddressesOf(calls) = {address[i] : i \in usable}
  BY DEF AddressesOf
<1> HIDE DEF usable, address
<1> QED BY <1>1, <1>2, Images

\* What build lists: the doorways with enough calls since a year before the latest that it
\* is given, each once.
LEMMA Builds ==
    ASSUME NEW calls, CallsTyped(calls), NEW least \in Nat, NEW days, NEW latest \in Int
    PROVE  LET built == Build(calls, least, days, latest)
               from == latest - YearDays * DAY
               recent(a) == {i \in CallsAt(calls, a) : calls[i].started >= from}
           IN  /\ Rankable(built)
               /\ \A r \in built : \E a \in AddressesOf(calls) :
                      r = Row(calls, TimesAt(calls, a), days, from) /\ r.address = a
               /\ \A r, s \in built : r.address = s.address => r = s
               /\ \A a \in Addresses :
                      (\E r \in built : r.address = a) <=>
                          Cardinality(recent(a)) > 0 /\ Cardinality(recent(a)) >= least
<1> DEFINE from == latest - YearDays * DAY
           built == Build(calls, least, days, latest)
           recent(a) == {i \in CallsAt(calls, a) : calls[i].started >= from}
           rowOf == [a \in AddressesOf(calls) |-> Row(calls, TimesAt(calls, a), days, from)]
           rows == {rowOf[a] : a \in AddressesOf(calls)}
<1>1. from \in Int
  BY DoorwayAssumption
<1>2. built = {r \in rows : r.calls_12mo > 0 /\ r.calls_12mo >= least}
  BY DEF Build, ByAddress
<1>3. \A a \in AddressesOf(calls) : rowOf[a] = Row(calls, TimesAt(calls, a), days, from)
  OBVIOUS
<1> HIDE DEF built, from, rowOf
<1>4. ASSUME NEW a \in AddressesOf(calls)
      PROVE  /\ rowOf[a].address = a
             /\ rowOf[a].first \in CallsAt(calls, a)
             /\ rowOf[a].calls_12mo = Cardinality(recent(a))
             /\ rowOf[a].calls_12mo \in Nat /\ rowOf[a].tows \in Nat
             /\ rowOf[a].calls_total \in Nat \ {0}
  BY <1>1, <1>3, RowCounts
<1>5. \A a : CallsAt(calls, a) \in SUBSET Nat
  BY DEF CallsTyped, CallsAt
<1>6. \A a, b : \A i : i \in CallsAt(calls, a) /\ i \in CallsAt(calls, b) => a = b
  BY DEF CallsAt
<1>7. IsFiniteSet(rows)
  BY FiniteAddresses, Images
<1>8. Rankable(rows)
  <2>1. \A a, b \in AddressesOf(calls) : rowOf[a].first = rowOf[b].first => a = b
    BY <1>4, <1>6
  <2>2. \A a \in AddressesOf(calls) : rowOf[a].first \in Nat
    BY <1>4, <1>5
  <2>3. ASSUME NEW r \in rows
        PROVE  /\ r.calls_12mo \in Nat /\ r.tows \in Nat /\ r.first \in Nat
               /\ r.calls_total \in Nat \ {0}
    BY <1>4, <2>2
  <2>4. ASSUME NEW r \in rows, NEW s \in rows, r.first = s.first
        PROVE  r = s
    BY <2>1, <2>4
  <2> QED BY ONLY <1>7, <2>3, <2>4 DEF Rankable
<1>9. Rankable(built)
  BY <1>2, <1>8, SomeRankable
<1>10. \A r \in built : \E a \in AddressesOf(calls) : r = rowOf[a] /\ r.address = a
  <2>1. \A r \in built : r \in rows
    BY <1>2
  <2>2. \A a \in AddressesOf(calls) : rowOf[a].address = a
    BY <1>4
  <2> QED BY ONLY <2>1, <2>2
<1>11. ASSUME NEW a \in Addresses, Cardinality(recent(a)) > 0
       PROVE  a \in AddressesOf(calls)
  <2>1. recent(a) # {}
    <3>1. recent(a) = {} => Cardinality(recent(a)) = 0
      BY FS_EmptySet
    <3> QED BY <1>11, <3>1
  <2>2. a # None
    BY DerivationAssumption
  <2> QED BY <2>1, <2>2 DEF AddressesOf, Usable, CallsAt
<1>12. \A a \in Addresses :
          (\E r \in built : r.address = a) <=>
              Cardinality(recent(a)) > 0 /\ Cardinality(recent(a)) >= least
  BY <1>2, <1>4, <1>10, <1>11
<1> QED BY <1>3, <1>9, <1>10, <1>12 DEF built, from

--------------------------------------------------------------------------------
(* What is served. *)

LEMMA Selection ==
    ASSUME RecordsTyped, NEW ids \in SUBSET Labelled
    PROVE  /\ CallsTyped(CallsOf(ids))
           /\ Dated(CallsOf(ids)) # {} => Latest(CallsOf(ids)) \in Int
<1> DEFINE calls == CallsOf(ids)
<1>1. CallsTyped(calls)
  BY SelectedCalls, DerivationAssumption DEF CallsTyped, Labelled
<1> HIDE DEF calls
<1>2. IsFiniteSet(Dated(calls)) /\ Dated(calls) \in SUBSET Int
  <2> DEFINE started == [i \in DOMAIN calls |-> calls[i].started]
             all == {started[i] : i \in DOMAIN calls}
  <2>1. IsFiniteSet(all)
    <3> HIDE DEF started
    <3> QED BY <1>1, Images DEF CallsTyped
  <2>2. Dated(calls) = all \ {None}
    BY DEF Dated
  <2>3. Dated(calls) \in SUBSET Int
    BY <1>1 DEF Dated, CallsTyped
  <2> QED BY <2>1, <2>2, <2>3, FS_Subset
<1>3. Dated(calls) # {} => Latest(calls) \in Int
  BY <1>2, Greatest DEF Latest
<1> QED BY <1>1, <1>3 DEF calls

\* A doorway is listed exactly when enough of its calls came in within the window that is
\* asked for: the latest that build is given moves its year.
THEOREM WindowAsAsked == Spec => []RecencyWindowExact
<1>1. RecordsTyped => RecencyWindowExact
  <2> SUFFICES ASSUME RecordsTyped, NEW t \in Types, NEW w \in Windows, NEW m \in {0, 2},
                      Dated(CallsOf(IdsOfType(t))) # {}
               PROVE  LET calls == CallsOf(IdsOfType(t))
                          since == Latest(calls) - w * DAY
                          recent(a) == {i \in CallsAt(calls, a) : calls[i].started >= since}
                          query == [NoQuery EXCEPT !.recency_days = w, !.min_calls = m]
                      IN  AddressesIn(Served(t, FiltersFromRequest(query))) =
                              {a \in Addresses : Cardinality(recent(a)) >= IF m = 0 THEN 1 ELSE m}
    BY DEF RecencyWindowExact
  <2> DEFINE calls == CallsOf(IdsOfType(t))
             since == Latest(calls) - w * DAY
             recent(a) == {i \in CallsAt(calls, a) : calls[i].started >= since}
             query == [NoQuery EXCEPT !.recency_days = w, !.min_calls = m]
             filters == FiltersFromRequest(query)
             shifted == ShiftedLatest(Latest(calls), w)
             built == Build(calls, m, filters.recur_days, shifted)
             served == Served(t, filters)
  <2>1. CallsTyped(calls) /\ Latest(calls) \in Int
    BY Selection, OwnIds
  <2>2. w \in Nat /\ w >= 1 /\ w # None /\ m \in Nat /\ m # None
    BY DerivationAssumption
  <2>3. filters.recency_days = w /\ filters.min_calls = m /\ filters.district = None
    BY <2>2 DEF FiltersFromRequest, NoQuery, IntParam
  <2>4. shifted \in Int /\ shifted - YearDays * DAY = since
    BY <2>1, <2>2, DoorwayAssumption DEF ShiftedLatest
  <2>5. DOMAIN calls # {}
    BY DEF Dated
  <2> HIDE DEF calls, filters, shifted, query
  <2>6. served.rows = RankRows({r \in built : filters.district \in {None, r.district}})
    BY <2>3, <2>5 DEF Served, FinishWithRecency, Lists, calls, shifted
  <2>7. {r \in built : filters.district \in {None, r.district}} = built
    BY <2>3
  <2>8. /\ Rankable(built)
        /\ \A r \in built : r.address \in Addresses
        /\ \A a \in Addresses : (\E r \in built : r.address = a) <=>
               Cardinality(recent(a)) > 0 /\ Cardinality(recent(a)) >= m
    BY <2>1, <2>2, <2>4, Builds, Doorway
  <2>9. Enumerates(served.rows, built)
    BY <2>6, <2>7, <2>8, RankLists
  <2> HIDE DEF built, served
  <2>10. AddressesIn(served) = {r.address : r \in built}
    BY <2>9, Listed DEF AddressesIn
  <2>11. ASSUME NEW a \in Addresses
         PROVE  Cardinality(recent(a)) > 0 /\ Cardinality(recent(a)) >= m <=>
                    Cardinality(recent(a)) >= IF m = 0 THEN 1 ELSE m
    <3>1. IsFiniteSet(recent(a))
      BY <2>1, FS_Subset DEF CallsTyped, CallsAt
    <3>2. Cardinality(recent(a)) \in Nat
      BY <3>1, FS_CardinalityType
    <3> QED BY ONLY <2>2, <3>2, m \in {0, 2}
  <2>12. {r.address : r \in built} =
             {a \in Addresses : Cardinality(recent(a)) >= IF m = 0 THEN 1 ELSE m}
    BY <2>8, <2>11
  <2> QED BY <2>10, <2>12 DEF served, calls, filters, query
<1> QED BY <1>1, Typing, PTL

--------------------------------------------------------------------------------
(* The retained lists. *)

LEMMA RetainedAddresses ==
    ASSUME RecordsTyped, NEW ids \in SUBSET Labelled
    PROVE  AddressesIn(Finish(CallsOf(ids), DEFAULT_PARAMETERS)) \in SUBSET Addresses
<1> DEFINE calls == CallsOf(ids)
           lists == Finish(calls, DEFAULT_PARAMETERS)
           least == DEFAULT_PARAMETERS.min_calls
           days == DEFAULT_PARAMETERS.recur_days
           built == Build(calls, least, days, Latest(calls))
           some == {r \in built : DEFAULT_PARAMETERS.district \in {None, r.district}}
<1>1. CallsTyped(calls) /\ (Dated(calls) # {} => Latest(calls) \in Int)
  BY Selection
<1>2. least \in Nat
  BY DerivationAssumption DEF DEFAULT_PARAMETERS, FiltersFromRequest, NoQuery, IntParam
<1> HIDE DEF calls, least, days
<1>3. CASE DOMAIN calls = {} \/ Dated(calls) = {}
  <2>1. lists.rows = <<>>
    BY <1>3 DEF Finish, NoLists
  <2> QED BY <2>1 DEF AddressesIn, calls
<1>4. CASE DOMAIN calls # {} /\ Dated(calls) # {}
  <2>1. lists.rows = RankRows(some)
    BY <1>4 DEF Finish, Lists, least, days
  <2>2. Rankable(built) /\ \A r \in built : r.address \in Addresses
    <3>1. Latest(calls) \in Int
      BY <1>1, <1>4
    <3> HIDE DEF built
    <3>2. Rankable(built) /\ \A r \in built : \E a \in AddressesOf(calls) : r.address = a
      BY <1>1, <1>2, <3>1, Builds DEF built
    <3>3. \A a \in AddressesOf(calls) : a \in Addresses
      BY <1>1, Doorway
    <3> QED BY ONLY <3>2, <3>3
  <2>3. Enumerates(lists.rows, some)
    BY <2>1, <2>2, SomeRankable, RankLists
  <2> HIDE DEF lists
  <2>4. \A k \in 1..Len(lists.rows) : lists.rows[k] \in some
    BY <2>3, Listed
  <2> QED BY <2>2, <2>4 DEF AddressesIn, lists, calls
<1> QED BY <1>3, <1>4

Typed == RecordsTyped /\ TypeOK

LEMMA AllTyped == Spec => []Typed
<1>1. Init => Typed
  <2> SUFFICES ASSUME Init PROVE Typed
    OBVIOUS
  <2>1. retained = <<>> /\ pulled \in BOOLEAN
    BY DEF Init
  <2>2. RecordsTyped
    BY DEF Init, RecordsTyped
  <2>3. 0 <= MaxSnapshots
    BY DerivationAssumption
  <2> QED BY <2>1, <2>2, <2>3 DEF Typed, TypeOK, RecordsTyped
<1>2. Typed /\ [Next]_vars => Typed'
  <2> SUFFICES ASSUME Typed, [Next]_vars PROVE Typed'
    OBVIOUS
  <2>1. ASSUME NEW i \in Ids, NEW record \in Records[i] \union {None}, Reload(i, record)
        PROVE  Typed'
    BY <2>1 DEF Reload, Typed, TypeOK, RecordsTyped
  <2>2. CASE SnapshotAfterSync
    <3>1. PICK f \in IdToType :
              LET derived == DeriveAll(f, DEFAULT_PARAMETERS) IN
              retained' = IF \E t \in Types : derived[t].failed THEN retained
                          ELSE Append(retained, AddressesIn(derived[Followed]))
      BY <2>2 DEF SnapshotAfterSync
    <3> DEFINE listed == AddressesIn(DeriveAll(f, DEFAULT_PARAMETERS)[Followed])
    <3>2. listed \in SUBSET Addresses
      BY TypedIds, RetainedAddresses, DerivationAssumption DEF Typed, DeriveAll, CallsByType
    <3> HIDE DEF listed
    <3>3. retained' = retained \/ retained' = Append(retained, listed)
      BY <3>1 DEF listed
    <3>4. retained \in Seq(SUBSET Addresses) /\ Len(retained) < MaxSnapshots
      BY <2>2 DEF SnapshotAfterSync, Typed, TypeOK
    <3>5. retained' \in Seq(SUBSET Addresses) /\ Len(retained') <= MaxSnapshots
      BY <3>2, <3>3, <3>4, DerivationAssumption
    <3> QED BY <2>2, <3>5 DEF SnapshotAfterSync, Typed, TypeOK, RecordsTyped
  <2>3. CASE SnapshotLost
    BY <2>3 DEF SnapshotLost, Typed, TypeOK, RecordsTyped
  <2>4. CASE UNCHANGED vars
    BY <2>4 DEF vars, Typed, TypeOK, RecordsTyped
  <2> QED BY <2>1, <2>2, <2>3, <2>4 DEF Next
<1> QED BY <1>1, <1>2, PTL DEF Spec

\* What is retained are lists of addresses (history.py, snapshot): every doorway that build
\* lists is one of a call that has an address.
THEOREM DerivationsTyped == Spec => []TypeOK
<1>1. Typed => TypeOK
  BY DEF Typed
<1> QED BY <1>1, AllTyped, PTL

\* What the pass of when_did_doorway_leave has found at each snapshot: the last one until
\* then that lists the doorway, and the one after it once there is one.
LastOf(seen) == IF seen = {} THEN 0 ELSE CHOOSE m \in seen : \A j \in seen : j <= m

LastSeen(seen, k) == LastOf({j \in seen : j <= k})

Found(seen, n) ==
    [k \in 0..n |-> [last_seen |-> LastSeen(seen, k),
                     left |-> IF LastSeen(seen, k) \in {0, k} THEN 0 ELSE LastSeen(seen, k) + 1]]

LEMMA LastSeenIs ==
    ASSUME NEW n \in Nat, NEW seen \in SUBSET (1..n), NEW k \in 0..n
    PROVE  /\ LastSeen(seen, k) \in 0..k
           /\ LastSeen(seen, k) = 0 <=> \A j \in seen : ~(j <= k)
           /\ LastSeen(seen, k) # 0 => LastSeen(seen, k) \in seen
           /\ \A j \in seen : j <= k => j <= LastSeen(seen, k)
<1> DEFINE until == {j \in seen : j <= k}
<1>1. until \in SUBSET Int /\ IsFiniteSet(until)
  <2>1. IsFiniteSet(1..n)
    BY FS_Interval
  <2>2. until \in SUBSET (1..n)
    OBVIOUS
  <2> QED BY <2>1, <2>2, FS_Subset
<1>2. CASE until = {}
  BY <1>2 DEF LastSeen, LastOf
<1>3. CASE until # {}
  <2>1. PICK m \in until : \A j \in until : j <= m
    BY <1>1, <1>3, Greatest
  <2>2. LastSeen(seen, k) \in until /\ \A j \in until : j <= LastSeen(seen, k)
    BY <1>3, <2>1 DEF LastSeen, LastOf
  <2>3. \A j \in until : j \in seen /\ j \in 1..n /\ j <= k
    OBVIOUS
  <2>4. \A j \in seen : j <= k => j \in until
    OBVIOUS
  <2> HIDE DEF until
  <2> QED BY <2>2, <2>3, <2>4
<1> QED BY <1>2, <1>3

LEMMA LastSeenNext ==
    ASSUME NEW n \in Nat, NEW seen \in SUBSET (1..n), NEW k \in 1..n
    PROVE  LastSeen(seen, k) = IF k \in seen THEN k ELSE LastSeen(seen, k - 1)
<1>1. CASE k \in seen
  <2>1. LastSeen(seen, k) \in 0..k /\ k <= LastSeen(seen, k)
    BY <1>1, LastSeenIs
  <2> QED BY <1>1, <2>1
<1>2. CASE k \notin seen
  <2>1. \A j \in seen : j <= k <=> j <= k - 1
    BY <1>2
  <2>2. {j \in seen : j <= k} = {j \in seen : j <= k - 1}
    BY <2>1
  <2> QED BY <1>2, <2>2 DEF LastSeen
<1> QED BY <1>1, <1>2

\* The recursion of the pass, over the snapshots that list a doorway.
Passes(f, seen, n) ==
    f = [k \in 0..n |-> IF k = 0 THEN [last_seen |-> 0, left |-> 0]
                        ELSE Leaving(f[k - 1], k, k \in seen)]

LEMMA FoundPasses ==
    ASSUME NEW n \in Nat, NEW seen \in SUBSET (1..n)
    PROVE  Passes(Found(seen, n), seen, n)
<1> DEFINE found == Found(seen, n)
           last(k) == LastSeen(seen, k)
<1>1. \A k \in 0..n : found[k] = [last_seen |-> last(k),
                                  left |-> IF last(k) \in {0, k} THEN 0 ELSE last(k) + 1]
  BY DEF Found
<1>2. DOMAIN found = 0..n
  BY DEF Found
<1>3. \A k \in 0..n : last(k) \in 0..k
  BY LastSeenIs
<1>4. \A k \in 1..n : last(k) = IF k \in seen THEN k ELSE last(k - 1)
  BY LastSeenNext
<1> HIDE DEF found, last
<1>5. ASSUME NEW k \in 1..n
      PROVE  found[k] = Leaving(found[k - 1], k, k \in seen)
  <2>1. k - 1 \in 0..n /\ k \in 0..n /\ k # 0
    OBVIOUS
  <2>2. CASE k \in seen
    <3>1. last(k) = k
      BY <1>4, <2>2
    <3>2. found[k] = [last_seen |-> k, left |-> 0]
      BY <1>1, <2>1, <3>1
    <3> QED BY <2>2, <3>2 DEF Leaving
  <2>3. CASE k \notin seen
    <3>1. last(k) = last(k - 1) /\ last(k - 1) \in 0..k - 1
      BY <1>3, <1>4, <2>1, <2>3
    <3> DEFINE m == last(k - 1)
    <3>2. found[k] = [last_seen |-> m, left |-> IF m \in {0, k} THEN 0 ELSE m + 1]
      BY <1>1, <2>1, <3>1
    <3>3. found[k - 1] = [last_seen |-> m, left |-> IF m \in {0, k - 1} THEN 0 ELSE m + 1]
      BY <1>1, <2>1
    <3> HIDE DEF m
    <3>4. m \in 0..k - 1
      BY <3>1 DEF m
    <3>5. CASE m = 0
      BY <2>3, <3>2, <3>3, <3>5 DEF Leaving
    <3>6. CASE m # 0 /\ m = k - 1
      <4>1. found[k - 1] = [last_seen |-> m, left |-> 0] /\ found[k] = [last_seen |-> m, left |-> k]
        BY <3>2, <3>3, <3>4, <3>6
      <4> QED BY <2>3, <3>6, <4>1 DEF Leaving
    <3>7. CASE m # 0 /\ m # k - 1
      <4>1. /\ found[k - 1] = [last_seen |-> m, left |-> m + 1] /\ m + 1 # 0
            /\ found[k] = [last_seen |-> m, left |-> m + 1]
        BY <3>2, <3>3, <3>4, <3>7
      <4> QED BY <2>3, <4>1 DEF Leaving
    <3> QED BY <3>5, <3>6, <3>7
  <2> QED BY <2>2, <2>3
<1>6. n \in Nat /\ 0 \in 0..n /\ last(0) = 0
  BY <1>3
<1>7. found[0] = [last_seen |-> 0, left |-> 0]
  BY <1>1, <1>6
<1>8. \A k \in 0..n : k = 0 \/ k \in 1..n
  OBVIOUS
<1>9. \A k \in 0..n : found[k] = IF k = 0 THEN [last_seen |-> 0, left |-> 0]
                                 ELSE Leaving(found[k - 1], k, k \in seen)
  BY <1>5, <1>7, <1>8
<1>10. found = [k \in 0..n |-> found[k]]
  BY DEF found, Found
<1>11. Passes(found, seen, n)
  BY <1>9, <1>10, Zenon DEF Passes
<1> QED BY <1>11 DEF found

\* There is one pass.
LEMMA OnePass ==
    ASSUME NEW n \in Nat, NEW seen, NEW f, NEW g, Passes(f, seen, n), Passes(g, seen, n)
    PROVE  f[n] = g[n]
<1> DEFINE bad == {k \in 0..n : f[k] # g[k]}
<1> SUFFICES ASSUME bad # {} PROVE FALSE
  BY DEF Passes
<1>1. bad \in SUBSET Nat
  OBVIOUS
<1>2. Min(bad) \in bad /\ \A k \in bad : Min(bad) <= k
  BY <1>1, Least
<1> DEFINE k == Min(bad)
<1>3. k \in 0..n /\ f[k] # g[k]
  BY <1>2
<1> HIDE DEF k
<1>4. /\ f[k] = IF k = 0 THEN [last_seen |-> 0, left |-> 0] ELSE Leaving(f[k - 1], k, k \in seen)
      /\ g[k] = IF k = 0 THEN [last_seen |-> 0, left |-> 0] ELSE Leaving(g[k - 1], k, k \in seen)
  BY <1>3 DEF Passes
<1>5. k # 0
  BY <1>3, <1>4
<1>6. k - 1 \in 0..n /\ ~(k <= k - 1)
  BY <1>3, <1>5
<1>7. f[k - 1] = g[k - 1]
  BY <1>2, <1>6 DEF k
<1> QED BY <1>3, <1>4, <1>5, <1>7

SeenAt(lists, a) == {k \in 1..Len(lists) : a \in lists[k]}

\* What when_did_doorway_leave answers.
LEMMA Departure ==
    ASSUME NEW S, NEW lists \in Seq(SUBSET S), NEW a
    PROVE  LET last == LastSeen(SeenAt(lists, a), Len(lists))
               answer == WhenDidDoorwayLeave(lists, a)
           IN  /\ answer.last_seen = last
               /\ answer.left = IF last \in {0, Len(lists)} THEN 0 ELSE last + 1
               /\ answer.status = "left" <=> last \notin {0, Len(lists)}
<1> DEFINE n == Len(lists)
           seen == SeenAt(lists, a)
           presence == DoorwayPresence(lists, a)
           pass == CHOOSE pass : pass = [k \in 0..n |->
                       IF k = 0 THEN [last_seen |-> 0, left |-> 0]
                       ELSE Leaving(pass[k - 1], k, presence[k])]
           last == LastSeen(seen, n)
           answer == WhenDidDoorwayLeave(lists, a)
<1>1. n \in Nat /\ seen \in SUBSET (1..n)
  BY DEF SeenAt
<1>2. \A k \in 1..n : presence[k] = (k \in seen)
  BY DEF SeenAt, DoorwayPresence
<1>3. \A f : [k \in 0..n |-> IF k = 0 THEN [last_seen |-> 0, left |-> 0]
                            ELSE Leaving(f[k - 1], k, presence[k])] =
             [k \in 0..n |-> IF k = 0 THEN [last_seen |-> 0, left |-> 0]
                            ELSE Leaving(f[k - 1], k, k \in seen)]
  <2>1. \A k \in 0..n : k # 0 => k \in 1..n
    BY <1>1
  <2> QED BY <1>2, <2>1
<1> HIDE DEF n, seen, presence
<1>4. \A f : Passes(f, seen, n) <=>
               f = [k \in 0..n |-> IF k = 0 THEN [last_seen |-> 0, left |-> 0]
                                   ELSE Leaving(f[k - 1], k, presence[k])]
  BY <1>3, Zenon DEF Passes
<1>5. Passes(Found(seen, n), seen, n)
  BY <1>1, FoundPasses
<1>6. pass = [k \in 0..n |-> IF k = 0 THEN [last_seen |-> 0, left |-> 0]
                             ELSE Leaving(pass[k - 1], k, presence[k])]
  BY <1>4, <1>5, Zenon
<1>7. answer.last_seen = pass[n].last_seen /\ answer.left = pass[n].left
      /\ answer.status = CASE lists = <<>> -> "no_snapshots_retained"
                           [] lists # <<>> /\ pass[n].last_seen = 0 -> "never_listed"
                           [] pass[n].last_seen # 0 /\ pass[n].left = 0 -> "still_listed"
                           [] pass[n].left # 0 -> "left"
  BY DEF WhenDidDoorwayLeave, n, presence
<1> HIDE DEF pass
<1>8. pass[n] = Found(seen, n)[n]
  BY <1>1, <1>4, <1>5, <1>6, OnePass
<1>9. Found(seen, n)[n] = [last_seen |-> last, left |-> IF last \in {0, n} THEN 0 ELSE last + 1]
  BY <1>1 DEF Found
<1>10. last \in 0..n
  <2>1. n \in 0..n
    BY <1>1
  <2> QED BY <1>1, <2>1, LastSeenIs
<1>11. lists = <<>> => n = 0
  BY DEF n
<1> HIDE DEF last, answer
<1>12. answer.last_seen = last /\ answer.left = IF last \in {0, n} THEN 0 ELSE last + 1
  BY <1>7, <1>8, <1>9
<1>13. answer.status = "left" <=> last \notin {0, n}
  <2>1. CASE last \in {0, n}
    BY <1>7, <1>8, <1>9, <1>10, <2>1
  <2>2. CASE last \notin {0, n}
    BY <1>1, <1>7, <1>8, <1>9, <1>10, <1>11, <2>2
  <2> QED BY <2>1, <2>2
<1> QED BY <1>12, <1>13 DEF n, seen, last, answer

\* A doorway is said to have left at the snapshot after the last one that lists it, and
\* only when none lists it since (history.py, when_did_doorway_leave).
THEOREM LeftForGood == Spec => []LastDeparture
<1>1. TypeOK => LastDeparture
  <2> SUFFICES ASSUME TypeOK, NEW a \in Addresses
               PROVE  LET seen == {k \in 1..Len(retained) : a \in retained[k]}
                          answer == WhenDidDoorwayLeave(retained, a)
                      IN  /\ (answer.status = "left") <=> (seen # {} /\ Len(retained) \notin seen)
                          /\ answer.status = "left" =>
                                 /\ answer.last_seen \in seen
                                 /\ \A k \in seen : k <= answer.last_seen
                                 /\ answer.left = answer.last_seen + 1
                                 /\ a \in DepartedBetween(retained, answer.last_seen, answer.left)
    BY DEF LastDeparture
  <2> DEFINE n == Len(retained)
             seen == SeenAt(retained, a)
             last == LastSeen(seen, n)
             answer == WhenDidDoorwayLeave(retained, a)
  <2>1. n \in Nat /\ seen \in SUBSET (1..n) /\ seen = {k \in 1..n : a \in retained[k]}
    BY DEF TypeOK, SeenAt
  <2>2. /\ answer.last_seen = last /\ answer.left = IF last \in {0, n} THEN 0 ELSE last + 1
        /\ answer.status = "left" <=> last \notin {0, n}
    BY Departure DEF TypeOK
  <2> HIDE DEF n, answer, seen, last
  <2>3. /\ last \in 0..n /\ (last = 0 <=> \A j \in seen : ~(j <= n))
        /\ last # 0 => last \in seen
        /\ \A j \in seen : j <= n => j <= last
    <3>1. n \in 0..n
      BY <2>1
    <3>2. /\ LastSeen(seen, n) \in 0..n /\ (LastSeen(seen, n) = 0 <=> \A j \in seen : ~(j <= n))
          /\ LastSeen(seen, n) # 0 => LastSeen(seen, n) \in seen
          /\ \A j \in seen : j <= n => j <= LastSeen(seen, n)
      BY ONLY <2>1, <3>1, LastSeenIs, SMTT(20)
    <3> QED BY <3>2 DEF last
  <2>4. last \notin {0, n} <=> seen # {} /\ n \notin seen
    BY <2>1, <2>3
  <2>5. last \notin {0, n} => /\ last \in seen /\ \A k \in seen : k <= last
                              /\ last + 1 \in 1..n /\ last + 1 \notin seen
    BY <2>1, <2>3
  <2>6. last \notin {0, n} => a \in retained[last] \ retained[last + 1]
    BY <2>1, <2>5
  <2> QED BY <2>1, <2>2, <2>4, <2>5, <2>6 DEF DepartedBetween, n, seen, answer
<1> QED BY <1>1, DerivationsTyped, PTL

--------------------------------------------------------------------------------
(* Derived alone, derived together. *)

\* The window of a year that _finish counts in is the one that _finish_with_recency asks
\* for by default.
LEMMA TailsAgree ==
    ASSUME RecordsTyped, NEW ids \in SUBSET Labelled
    PROVE  Finish(CallsOf(ids), DEFAULT_PARAMETERS) =
               FinishWithRecency(CallsOf(ids), DEFAULT_PARAMETERS)
<1> DEFINE calls == CallsOf(ids)
<1>1. CASE Dated(calls) = {} \/ DOMAIN calls = {}
  BY <1>1 DEF Finish, FinishWithRecency
<1>2. CASE Dated(calls) # {} /\ DOMAIN calls # {}
  <2>1. DEFAULT_PARAMETERS.recency_days = YearDays
    BY DEF DEFAULT_PARAMETERS, FiltersFromRequest, NoQuery, IntParam
  <2>2. Latest(calls) \in Int
    BY <1>2, Selection
  <2>3. ShiftedLatest(Latest(calls), YearDays) = Latest(calls)
    BY <2>2, DoorwayAssumption DEF ShiftedLatest
  <2> QED BY <1>2, <2>1, <2>3 DEF Finish, FinishWithRecency
<1> QED BY <1>1, <1>2

\* Where no call has labels of two types, the type a call is given is the type whose
\* labels it has.
LEMMA SameSelection ==
    ASSUME RecordsTyped, NEW f \in IdToType, NEW t \in Types,
           \A i \in Labelled : Cardinality(TypesOfId(i)) <= 1
    PROVE  {i \in DOMAIN f : f[i] = t} = IdsOfType(t)
<1>1. \A i \in Labelled, u \in Types :
          u \in TypesOfId(i) <=> records[i].labels \cap CANONICAL_TYPES[u] # {}
  BY DEF TypesOfId, CanonicalType
<1>2. DOMAIN f = {i \in Labelled : TypesOfId(i) # {}} /\ \A i \in DOMAIN f : f[i] \in TypesOfId(i)
  BY DEF IdToType
<1>3. ASSUME NEW i \in Labelled, NEW u \in TypesOfId(i), NEW v \in TypesOfId(i)
      PROVE  u = v
  <2>1. TypesOfId(i) \subseteq Types
    BY DEF TypesOfId, CanonicalType
  <2>2. IsFiniteSet(TypesOfId(i)) /\ IsFiniteSet({u, v})
    BY <2>1, FS_Subset, DerivationAssumption
  <2>3. Cardinality({u, v}) <= Cardinality(TypesOfId(i))
    BY <2>2, FS_Subset
  <2>4. Cardinality({u}) = 1 /\ IsFiniteSet({u})
    BY FS_Singleton
  <2>5. u # v => Cardinality({u} \cup {v}) = 2
    BY <2>4, FS_AddElement
  <2>6. {u} \cup {v} = {u, v}
    OBVIOUS
  <2>7. Cardinality({u, v}) \in Nat /\ Cardinality(TypesOfId(i)) \in Nat
    BY <2>2, FS_CardinalityType
  <2> QED BY <2>3, <2>5, <2>6, <2>7
<1> QED BY <1>1, <1>2, <1>3 DEF IdsOfType

\* What a page is served of a type is what the sync that read the same calls retained of
\* it, whatever the calls and the types (derive.py, derive_all and derive_with_recency).
THEOREM AloneOrTogether == Spec => []ServedAsRetained
<1>1. RecordsTyped => ServedAsRetained
  <2> SUFFICES ASSUME RecordsTyped, \A i \in Labelled : Cardinality(TypesOfId(i)) <= 1,
                      NEW f \in IdToType, NEW t \in Types
               PROVE  DeriveAll(f, DEFAULT_PARAMETERS)[t] = Served(t, DEFAULT_PARAMETERS)
    BY DEF ServedAsRetained
  <2>1. CallsByType(f, t) = CallsOf(IdsOfType(t))
    BY SameSelection DEF CallsByType
  <2>2. Finish(CallsOf(IdsOfType(t)), DEFAULT_PARAMETERS) =
            FinishWithRecency(CallsOf(IdsOfType(t)), DEFAULT_PARAMETERS)
    BY TailsAgree, OwnIds
  <2> QED BY <2>1, <2>2 DEF DeriveAll, Served
<1> QED BY <1>1, Typing, PTL

--------------------------------------------------------------------------------
(* The figures and the lists. *)

\* The entries of a doorway are its calls, each once.
LEMMA EntriesOf ==
    ASSUME NEW calls, CallsTyped(calls), NEW a \in AddressesOf(calls)
    PROVE  Enumerates(EntriesAt(calls, a), AtDoorway(calls, a))
BY Doorway, AscendsOnce DEF EntriesAt

\* Where a call is at a doorway, it is at one only, and it recurs there or nowhere.
LEMMA RecursHere ==
    ASSUME NEW calls, CallsTyped(calls), NEW days, NEW a \in AddressesOf(calls)
    PROVE  LET entries == EntriesAt(calls, a) IN
           \A k \in 1..Len(entries) :
               Recurs(calls, entries, k, days) <=> entries[k] \in Recurring(calls, days)
<1> DEFINE recurs(entries) ==
               {entries[k] : k \in {l \in 1..Len(entries) : Recurs(calls, entries, l, days)}}
           here == EntriesAt(calls, a)
<1>1. Recurring(calls, days) = UNION {recurs(EntriesAt(calls, b)) : b \in AddressesOf(calls)}
  BY DEF Recurring, ByAddress, EntriesAt
<1>2. \A b \in AddressesOf(calls) : Enumerates(EntriesAt(calls, b), AtDoorway(calls, b))
  BY EntriesOf
<1>3. \A b \in AddressesOf(calls) : recurs(EntriesAt(calls, b)) \in SUBSET AtDoorway(calls, b)
  BY <1>2, Listed
<1>4. \A k \in 1..Len(here) : here[k] \in AtDoorway(calls, a)
  BY <1>2, Listed
<1>5. \A j, k \in 1..Len(here) : here[j] = here[k] => j = k
  BY <1>2, Listed
<1>6. \A b \in AddressesOf(calls) : b # a => AtDoorway(calls, a) \cap AtDoorway(calls, b) = {}
  BY DEF AtDoorway
<1> HIDE DEF here
<1>7. ASSUME NEW k \in 1..Len(here)
      PROVE  here[k] \in Recurring(calls, days) <=> here[k] \in recurs(here)
  <2> HIDE DEF recurs
  <2>1. here[k] \in Recurring(calls, days) <=>
            \E b \in AddressesOf(calls) : here[k] \in recurs(EntriesAt(calls, b))
    BY <1>1
  <2> QED BY <1>3, <1>4, <1>6, <2>1 DEF here
<1>8. \A k \in 1..Len(here) : here[k] \in recurs(here) <=> Recurs(calls, here, k, days)
  BY <1>5
<1> QED BY <1>7, <1>8 DEF here

\* What is grouped without a cutoff is at the doorways as it was.
LEMMA GroupedAlike ==
    ASSUME NEW calls, CallsTyped(calls), NEW days
    PROVE  LET grouped == GroupedCalls(calls, None) IN
           /\ DOMAIN grouped = {i \in DOMAIN calls : Usable(calls[i])}
           /\ \A i \in DOMAIN grouped : grouped[i] = calls[i]
           /\ Recurring(grouped, days) = Recurring(calls, days)
           /\ Recurring(calls, days) \in SUBSET DOMAIN grouped
<1> DEFINE grouped == GroupedCalls(calls, None)
<1>1. /\ DOMAIN grouped = {i \in DOMAIN calls : Usable(calls[i])}
      /\ \A i \in DOMAIN grouped : grouped[i] = calls[i]
  BY DEF GroupedCalls, BeforeCutoff
<1> HIDE DEF grouped
<1>2. \A i \in DOMAIN grouped : Usable(grouped[i])
  BY <1>1
<1>3. AddressesOf(grouped) = AddressesOf(calls)
  BY <1>1, <1>2 DEF AddressesOf
<1>4. ASSUME NEW a
      PROVE  AtDoorway(grouped, a) = AtDoorway(calls, a) /\ TimesAt(grouped, a) = TimesAt(calls, a)
  <2>1. AtDoorway(grouped, a) = AtDoorway(calls, a)
    BY <1>1, <1>2 DEF AtDoorway
  <2>2. \A i \in AtDoorway(calls, a) : grouped[i].started = calls[i].started
    BY <1>1 DEF AtDoorway
  <2> QED BY <2>1, <2>2 DEF TimesAt
<1>5. ByAddress(grouped) = ByAddress(calls)
  BY <1>3, <1>4 DEF ByAddress
<1> DEFINE all == {Ascending(times) : times \in ByAddress(calls)}
<1>6. ASSUME NEW entries \in all
      PROVE  /\ \A k \in 1..Len(entries) : entries[k] \in DOMAIN grouped
             /\ Len(entries) \in Nat
  <2>1. PICK a \in AddressesOf(calls) : entries = EntriesAt(calls, a)
    BY DEF ByAddress, EntriesAt
  <2>2. Enumerates(entries, AtDoorway(calls, a))
    BY <2>1, EntriesOf
  <2>3. /\ Len(entries) = Cardinality(AtDoorway(calls, a))
        /\ \A k \in 1..Len(entries) : entries[k] \in AtDoorway(calls, a)
    BY <2>2, Listed
  <2> QED BY <1>1, <2>1, <2>2, <2>3 DEF AtDoorway, Enumerates
<1> HIDE DEF all
<1> DEFINE recurs(c, entries) ==
               {entries[k] : k \in {l \in 1..Len(entries) : Recurs(c, entries, l, days)}}
<1>7. ASSUME NEW entries \in all
      PROVE  recurs(grouped, entries) = recurs(calls, entries)
  <2>1. ASSUME NEW k \in 1..Len(entries)
        PROVE  Recurs(grouped, entries, k, days) <=> Recurs(calls, entries, k, days)
    <3>1. \A j \in k + 1..Len(entries) : j \in 1..Len(entries)
      BY <1>6
    <3>2. \A j \in 1..Len(entries) : grouped[entries[j]] = calls[entries[j]]
      BY <1>1, <1>6
    <3> QED BY <3>1, <3>2 DEF Recurs
  <2> QED BY <2>1
<1>8. /\ Recurring(grouped, days) = UNION {recurs(grouped, entries) : entries \in all}
      /\ Recurring(calls, days) = UNION {recurs(calls, entries) : entries \in all}
  BY <1>5 DEF Recurring, all
<1>9. Recurring(grouped, days) = Recurring(calls, days)
  <2> HIDE DEF recurs
  <2> QED BY <1>7, <1>8
<1>10. Recurring(calls, days) \in SUBSET DOMAIN grouped
  BY <1>6, <1>8
<1> QED BY <1>1, <1>9, <1>10 DEF grouped

Under(calls, key) == {i \in DOMAIN calls : Usable(calls[i]) /\ TowKey(calls[i]) = key}

\* What the groups count.
LEMMA Groups ==
    ASSUME NEW calls, CallsTyped(calls), NEW days, NEW key \in TowKeys
    PROVE  LET group == RecurrenceByTow(calls, days, None)[key] IN
           /\ group.calls = Cardinality(Under(calls, key))
           /\ group.recurring = Cardinality(Under(calls, key) \cap Recurring(calls, days))
<1> DEFINE grouped == GroupedCalls(calls, None)
           under == {i \in DOMAIN grouped : TowKey(grouped[i]) = key}
<1>1. /\ DOMAIN grouped = {i \in DOMAIN calls : Usable(calls[i])}
      /\ \A i \in DOMAIN grouped : grouped[i] = calls[i]
      /\ Recurring(grouped, days) = Recurring(calls, days)
  BY GroupedAlike
<1>2. /\ RecurrenceByTow(calls, days, None)[key].calls = Cardinality(under)
      /\ RecurrenceByTow(calls, days, None)[key].recurring =
             Cardinality(under \cap Recurring(grouped, days))
  BY DEF RecurrenceByTow
<1> HIDE DEF grouped
<1>3. under = Under(calls, key)
  BY <1>1 DEF Under
<1> QED BY <1>1, <1>2, <1>3

\* What a doorway adds to them.
Adds(calls, days, a, key) ==
    LET adds == AddressCounts(calls, a, days)[key]
        here == AtDoorway(calls, a)
    IN  /\ adds.calls = Cardinality(here \cap Under(calls, key))
        /\ adds.recurring = Cardinality(here \cap (Under(calls, key) \cap Recurring(calls, days)))

LEMMA DoorwayAdds ==
    ASSUME NEW calls, CallsTyped(calls), NEW days, NEW a \in AddressesOf(calls),
           NEW key \in {"towed", "not_towed"}
    PROVE  Adds(calls, days, a, key)
<1> DEFINE entries == EntriesAt(calls, a)
           here == AtDoorway(calls, a)
           under == {k \in 1..Len(entries) : TowKey(calls[entries[k]]) = key}
           again == {k \in under : Recurs(calls, entries, k, days)}
           adds == AddressCounts(calls, a, days)[key]
<1>1. adds.calls = Cardinality(under) /\ adds.recurring = Cardinality(again)
  BY DEF AddressCounts
<1>2. Enumerates(entries, here) /\ IsFiniteSet(here)
  BY EntriesOf, Doorway
<1>3. \A k \in 1..Len(entries) : entries[k] \in here
  BY <1>2, Listed
<1>4. \A k \in 1..Len(entries) :
          Recurs(calls, entries, k, days) <=> entries[k] \in Recurring(calls, days)
  BY RecursHere
<1>5. \A i \in here : i \in Under(calls, key) <=> TowKey(calls[i]) = key
  BY DEF AtDoorway, Under
<1> HIDE DEF entries, here, adds
<1>6. under = {k \in 1..Len(entries) : entries[k] \in Under(calls, key)}
  BY <1>3, <1>5
<1>7. again = {k \in 1..Len(entries) : entries[k] \in Under(calls, key) \cap Recurring(calls, days)}
  BY <1>4, <1>6
<1> HIDE DEF under, again
<1>8. \A Q : Cardinality({k \in 1..Len(entries) : entries[k] \in Q}) = Cardinality(here \cap Q)
  BY <1>2, CountAlong
<1> QED BY <1>1, <1>6, <1>7, <1>8 DEF Adds, adds, here

\* The repeats of a row.
LEMMA RowRepeats ==
    ASSUME NEW calls, CallsTyped(calls), NEW days, NEW from, NEW a \in AddressesOf(calls)
    PROVE  Row(calls, TimesAt(calls, a), days, from).repeat_calls =
               Cardinality(Recurring(calls, days) \cap CallsAt(calls, a))
<1> DEFINE entries == EntriesAt(calls, a)
           here == AtDoorway(calls, a)
<1>1. Row(calls, TimesAt(calls, a), days, from).repeat_calls = Repeats(calls, entries, days)
  BY DEF Row, EntriesAt
<1>2. Enumerates(entries, here) /\ IsFiniteSet(here) /\ here = CallsAt(calls, a)
  BY EntriesOf, Doorway
<1>3. \A k \in 1..Len(entries) :
          Recurs(calls, entries, k, days) <=> entries[k] \in Recurring(calls, days)
  BY RecursHere
<1> HIDE DEF entries, here
<1>4. Repeats(calls, entries, days) =
          Cardinality({k \in 1..Len(entries) : Recurs(calls, entries, k, days)})
  BY DEF Repeats, Recurs
<1>5. {k \in 1..Len(entries) : Recurs(calls, entries, k, days)} =
          {k \in 1..Len(entries) : entries[k] \in Recurring(calls, days)}
  BY <1>3
<1>6. here \cap Recurring(calls, days) = Recurring(calls, days) \cap here
  OBVIOUS
<1>7. Enumerates(entries, here) /\ IsFiniteSet(here)
  BY <1>2
<1>8. \A Q : Cardinality({k \in 1..Len(entries) : entries[k] \in Q}) = Cardinality(here \cap Q)
  BY <1>7, CountAlong
<1> QED BY <1>1, <1>2, <1>4, <1>5, <1>6, <1>8

\* Added up over the doorways, what is at each of them is what is at any.
LEMMA OverDoorways ==
    ASSUME NEW calls, CallsTyped(calls), NEW Q \in SUBSET {i \in DOMAIN calls : Usable(calls[i])},
           NEW g, DOMAIN g = AddressesOf(calls),
           \A a \in AddressesOf(calls) : g[a] = Cardinality(AtDoorway(calls, a) \cap Q)
    PROVE  SumFunction(g) = Cardinality(Q)
<1> DEFINE S == AddressesOf(calls)
           P == [a \in S |-> AtDoorway(calls, a) \cap Q]
<1>1. IsFiniteSet(S)
  BY FiniteAddresses
<1>2. \A a \in S : P[a] = AtDoorway(calls, a) \cap Q
  OBVIOUS
<1>3. \A a \in S : IsFiniteSet(P[a])
  BY <1>2, FS_Subset DEF AtDoorway, CallsTyped
<1>4. \A a, b \in S : a # b => P[a] \cap P[b] = {}
  BY <1>2 DEF AtDoorway
<1>5. UNION {P[a] : a \in S} = Q
  <2>1. \A i \in Q : calls[i].address \in S /\ i \in AtDoorway(calls, calls[i].address)
    BY DEF AddressesOf, AtDoorway
  <2> QED BY <1>2, <2>1
<1>6. DOMAIN g = S /\ \A a \in S : g[a] = Cardinality(P[a])
  BY <1>2
<1> HIDE DEF S, P
<1>7. /\ IsFiniteSet(UNION {P[a] : a \in S})
      /\ SumFunction(g) = Cardinality(UNION {P[a] : a \in S})
  BY ONLY <1>1, <1>3, <1>4, <1>6, SumCounts
<1> QED BY <1>5, <1>7

\* What is served is the rows of some doorways, each once, and their blocks.
LEMMA ServedRows ==
    ASSUME RecordsTyped, NEW t \in Types, NEW filters,
           filters.min_calls \in Nat, filters.recency_days \in Int
    PROVE  LET calls == CallsOf(IdsOfType(t))
               lists == Served(t, filters)
               from == ShiftedLatest(Latest(calls), filters.recency_days) - YearDays * DAY
           IN  \/ lists.rows = <<>> /\ lists.blocks = <<>>
               \/ /\ from \in Int
                  /\ lists.blocks = RollBlocks(lists.rows, filters.min_doorways)
                  /\ \E some : /\ Rankable(some) /\ Enumerates(lists.rows, some)
                               /\ \A r \in some : \E a \in AddressesOf(calls) :
                                      /\ r = Row(calls, TimesAt(calls, a), filters.recur_days, from)
                                      /\ r.address = a
<1> DEFINE calls == CallsOf(IdsOfType(t))
           lists == Served(t, filters)
           latest == ShiftedLatest(Latest(calls), filters.recency_days)
           from == latest - YearDays * DAY
           built == Build(calls, filters.min_calls, filters.recur_days, latest)
           some == {r \in built : filters.district \in {None, r.district}}
<1>1. CallsTyped(calls) /\ (Dated(calls) # {} => Latest(calls) \in Int)
  BY Selection, OwnIds
<1> HIDE DEF calls
<1>2. CASE DOMAIN calls = {} \/ Dated(calls) = {}
  BY <1>2 DEF Served, FinishWithRecency, NoLists, calls
<1>3. CASE DOMAIN calls # {} /\ Dated(calls) # {}
  <2>1. /\ lists.rows = RankRows(some)
        /\ lists.blocks = RollBlocks(RankRows(some), filters.min_doorways)
    BY <1>3 DEF Served, FinishWithRecency, Lists, calls
  <2>2. latest \in Int /\ from \in Int
    BY <1>1, <1>3, DoorwayAssumption DEF ShiftedLatest
  <2> HIDE DEF latest, lists
  <2>3. /\ Rankable(built)
        /\ \A r \in built : \E a \in AddressesOf(calls) :
               r = Row(calls, TimesAt(calls, a), filters.recur_days, from) /\ r.address = a
    BY <1>1, <2>2, Builds
  <2> HIDE DEF built
  <2>4. Rankable(some) /\ Enumerates(lists.rows, some)
    BY <2>1, <2>3, SomeRankable, RankLists
  <2>5. \A r \in some : r \in built
    OBVIOUS
  <2> HIDE DEF from, some
  <2> QED BY <2>1, <2>2, <2>3, <2>4, <2>5 DEF calls, lists, latest, from
<1> QED BY <1>2, <1>3 DEF calls

\* The figures of a type agree with its lists and with each other (figures.py,
\* recurrence_by_tow, call_denominators and response_time; hotspots.py, build).
THEOREM FiguresAgree == Spec => []FiguresReconcile
<1>1. RecordsTyped => FiguresReconcile
  <2> SUFFICES ASSUME RecordsTyped, NEW t \in Types
               PROVE  LET lists == Served(t, DEFAULT_PARAMETERS)
                          calls == CallsOf(IdsOfType(t))
                          groups == RecurrenceByTow(calls, YearDays, None)
                          d == Denominators(calls, YearDays, None)
                          r == ResponseTime(calls, None)
                          counts == [a \in AddressesOf(calls) |-> AddressCounts(calls, a, YearDays)]
                      IN  /\ d.tow_comparison_population + d.excluded_no_usable_address_or_date
                                 = d.raw_selection_total
                          /\ Summary(calls, lists).tows =
                                 groups["towed"].calls
                                 + Cardinality({i \in DOMAIN calls :
                                                   ~Usable(calls[i]) /\ calls[i].tow = "Y"})
                          /\ \A key \in {"towed", "not_towed"} :
                                 /\ SumFunction([a \in DOMAIN counts |-> counts[a][key].calls]) =
                                        groups[key].calls
                                 /\ SumFunction([a \in DOMAIN counts |-> counts[a][key].recurring]) =
                                        groups[key].recurring
                          /\ \A row \in ToSet(lists.rows) :
                                 row.repeat_calls = Cardinality(Recurring(calls, YearDays)
                                                                  \cap CallsAt(calls, row.address))
                          /\ r.closed_calls + r.never_closed_calls
                                 + Cardinality({i \in DOMAIN calls :
                                                   calls[i].started = None /\ calls[i].closed # None})
                                 = r.population
    BY DEF FiguresReconcile
  <2> DEFINE lists == Served(t, DEFAULT_PARAMETERS)
             calls == CallsOf(IdsOfType(t))
             all == DOMAIN calls
             usable == {i \in all : Usable(calls[i])}
             towed == {i \in all : calls[i].tow = "Y"}
             groups == RecurrenceByTow(calls, YearDays, None)
             d == Denominators(calls, YearDays, None)
             r == ResponseTime(calls, None)
             counts == [a \in AddressesOf(calls) |-> AddressCounts(calls, a, YearDays)]
             from == ShiftedLatest(Latest(calls), YearDays) - YearDays * DAY
  <2>1. CallsTyped(calls) /\ IsFiniteSet(all)
    BY Selection, OwnIds DEF CallsTyped
  <2>2. /\ DEFAULT_PARAMETERS.recency_days = YearDays /\ DEFAULT_PARAMETERS.recur_days = YearDays
        /\ DEFAULT_PARAMETERS.min_calls = MIN_CALLS /\ YearDays \in Int /\ MIN_CALLS \in Nat
    BY DerivationAssumption, DoorwayAssumption
    DEF DEFAULT_PARAMETERS, FiltersFromRequest, NoQuery, IntParam
  <2>3. /\ d.tow_comparison_population = Population(groups)
        /\ d.excluded_no_usable_address_or_date = Cardinality({i \in all : ~Usable(calls[i])})
        /\ d.raw_selection_total = Cardinality(all)
    BY DEF Denominators, Skipped
  <2>4. Summary(calls, lists).tows = Cardinality(towed)
    BY DEF Summary
  <2>5. /\ r.population = Cardinality(all)
        /\ r.closed_calls = Cardinality({i \in all : None \notin {calls[i].started, calls[i].closed}})
        /\ r.never_closed_calls = Cardinality({i \in all : calls[i].closed = None})
    <3>1. {i \in all : None = None \/ (calls[i].started # None /\ BeforeCutoff(calls[i], None))} = all
      OBVIOUS
    <3> QED BY <3>1 DEF ResponseTime
  <2>6. \A key \in TowKeys :
            /\ groups[key].calls = Cardinality(Under(calls, key))
            /\ groups[key].recurring = Cardinality(Under(calls, key) \cap Recurring(calls, YearDays))
    BY <2>1, Groups
  <2>7. ASSUME NEW key \in {"towed", "not_towed"}
        PROVE  /\ SumFunction([a \in DOMAIN counts |-> counts[a][key].calls]) = groups[key].calls
               /\ SumFunction([a \in DOMAIN counts |-> counts[a][key].recurring]) = groups[key].recurring
    <3> DEFINE c == [a \in DOMAIN counts |-> counts[a][key].calls]
               q == [a \in DOMAIN counts |-> counts[a][key].recurring]
               U == Under(calls, key)
               R == U \cap Recurring(calls, YearDays)
    <3>1. U \in SUBSET usable /\ R \in SUBSET usable
      BY DEF Under
    <3>2. DOMAIN c = AddressesOf(calls) /\ DOMAIN q = AddressesOf(calls)
      OBVIOUS
    <3>3. /\ \A a \in AddressesOf(calls) : c[a] = Cardinality(AtDoorway(calls, a) \cap U)
          /\ \A a \in AddressesOf(calls) : q[a] = Cardinality(AtDoorway(calls, a) \cap R)
      <4>1. /\ \A a \in AddressesOf(calls) : c[a] = AddressCounts(calls, a, YearDays)[key].calls
            /\ \A a \in AddressesOf(calls) :
                  q[a] = AddressCounts(calls, a, YearDays)[key].recurring
        OBVIOUS
      <4> HIDE DEF c, q, calls
      <4>2. ASSUME NEW a \in AddressesOf(calls)
            PROVE  /\ AddressCounts(calls, a, YearDays)[key].calls =
                         Cardinality(AtDoorway(calls, a) \cap Under(calls, key))
                   /\ AddressCounts(calls, a, YearDays)[key].recurring =
                         Cardinality(AtDoorway(calls, a)
                                     \cap (Under(calls, key) \cap Recurring(calls, YearDays)))
        <5>1. Adds(calls, YearDays, a, key)
          BY <2>1, DoorwayAdds
        <5> QED BY <5>1 DEF Adds
      <4> QED BY ONLY <4>1, <4>2
    <3>4. groups[key].calls = Cardinality(U) /\ groups[key].recurring = Cardinality(R)
      BY <2>6 DEF TowKeys
    <3> HIDE DEF c, q, U, R, calls, groups
    <3>5. SumFunction(c) = Cardinality(U)
      BY ONLY <2>1, <3>1, <3>2, <3>3, OverDoorways
    <3>6. SumFunction(q) = Cardinality(R)
      BY ONLY <2>1, <3>1, <3>2, <3>3, OverDoorways
    <3> QED BY <3>4, <3>5, <3>6 DEF c, q
  <2>8. ASSUME NEW row \in ToSet(lists.rows)
        PROVE  row.repeat_calls =
                   Cardinality(Recurring(calls, YearDays) \cap CallsAt(calls, row.address))
    <3>1. CASE lists.rows = <<>>
      BY <3>1 DEF ToSet
    <3>2. CASE lists.rows # <<>>
      <4>1. PICK some : /\ Enumerates(lists.rows, some)
                        /\ \A s \in some : \E a \in AddressesOf(calls) :
                               s = Row(calls, TimesAt(calls, a), YearDays, from) /\ s.address = a
        BY <2>2, <3>2, ServedRows
      <4>2. row \in some
        BY <4>1, Listed
      <4> QED BY <2>1, <4>1, <4>2, RowRepeats
    <3> QED BY <3>1, <3>2
  <2> HIDE DEF calls, groups, d, r
  <2>9. d.tow_comparison_population + d.excluded_no_usable_address_or_date = d.raw_selection_total
    <3> DEFINE A == Under(calls, "towed")
               B == Under(calls, "not_towed")
               C == Under(calls, "unknown_tow_status")
    <3>1. IsFiniteSet(usable) /\ IsFiniteSet(usable \ A)
      BY <2>1, FS_Subset
    <3>2. A \in SUBSET usable /\ B \in SUBSET usable \ A /\ (usable \ A) \ B = C
      BY DEF Under, TowKey
    <3>3. all \ usable = {i \in all : ~Usable(calls[i])}
      OBVIOUS
    <3>4. usable \in SUBSET all
      OBVIOUS
    <3>5. Population(groups) = Cardinality(A) + Cardinality(B) + Cardinality(C)
      BY <2>6 DEF Population, TowKeys
    <3> HIDE DEF A, B, C, usable, all
    <3>6. /\ Cardinality(all) = Cardinality(usable) + Cardinality(all \ usable)
          /\ Cardinality(all \ usable) \in Nat /\ Cardinality(usable) \in Nat
      BY <2>1, <3>4, TwoParts
    <3>7. /\ Cardinality(usable) = Cardinality(A) + Cardinality(usable \ A)
          /\ Cardinality(A) \in Nat /\ Cardinality(usable \ A) \in Nat
      BY <3>1, <3>2, TwoParts
    <3>8. /\ Cardinality(usable \ A) = Cardinality(B) + Cardinality(C)
          /\ Cardinality(B) \in Nat /\ Cardinality(C) \in Nat
      BY <3>1, <3>2, TwoParts
    <3>9. d.excluded_no_usable_address_or_date = Cardinality(all \ usable)
      BY <2>3, <3>3
    <3> QED BY ONLY <2>3, <3>5, <3>6, <3>7, <3>8, <3>9
  <2>10. Summary(calls, lists).tows =
             groups["towed"].calls
             + Cardinality({i \in DOMAIN calls : ~Usable(calls[i]) /\ calls[i].tow = "Y"})
    <3>1. IsFiniteSet(towed) /\ Under(calls, "towed") \in SUBSET towed
      BY <2>1, FS_Subset DEF Under, TowKey
    <3>2. towed \ Under(calls, "towed") = {i \in DOMAIN calls : ~Usable(calls[i]) /\ calls[i].tow = "Y"}
      BY DEF Under, TowKey
    <3> QED BY <2>4, <2>6, <3>1, <3>2, TwoParts DEF TowKeys
  <2>11. r.closed_calls + r.never_closed_calls
             + Cardinality({i \in DOMAIN calls : calls[i].started = None /\ calls[i].closed # None})
             = r.population
    <3> DEFINE closed == {i \in all : None \notin {calls[i].started, calls[i].closed}}
               never == {i \in all : calls[i].closed = None}
               rest == {i \in DOMAIN calls : calls[i].started = None /\ calls[i].closed # None}
    <3>1. IsFiniteSet(all \ never)
      BY <2>1, FS_Subset
    <3>2. never \in SUBSET all /\ closed \in SUBSET all \ never
      OBVIOUS
    <3>3. (all \ never) \ closed = rest
      OBVIOUS
    <3>4. /\ r.closed_calls = Cardinality(closed) /\ r.never_closed_calls = Cardinality(never)
          /\ r.population = Cardinality(all)
      BY <2>5
    <3> HIDE DEF closed, never, rest, all
    <3>5. /\ Cardinality(all) = Cardinality(never) + Cardinality(all \ never)
          /\ Cardinality(never) \in Nat
      BY <2>1, <3>2, TwoParts
    <3>6. /\ Cardinality(all \ never) = Cardinality(closed) + Cardinality((all \ never) \ closed)
          /\ Cardinality(closed) \in Nat /\ Cardinality((all \ never) \ closed) \in Nat
      BY <3>1, <3>2, TwoParts
    <3>7. Cardinality((all \ never) \ closed) = Cardinality(rest)
      BY <3>3
    <3>8. r.closed_calls + r.never_closed_calls + Cardinality(rest) = r.population
      BY ONLY <3>4, <3>5, <3>6, <3>7
    <3> QED BY <3>8 DEF rest
  <2> QED BY <2>7, <2>8, <2>9, <2>10, <2>11 DEF calls, groups, d, r
<1> QED BY <1>1, Typing, PTL

--------------------------------------------------------------------------------
(* The blocks and the list. *)

\* The first position that passes a test.
LEMMA FirstOf ==
    ASSUME NEW n \in Nat, NEW I \in SUBSET (1..n)
    PROVE  LET k == IF I # {} THEN Min(I) ELSE 0 IN
           /\ k \in 0..n
           /\ k = 0 <=> I = {}
           /\ k # 0 => k \in I /\ \A j \in I : k <= j
<1> DEFINE m == Min(I)
<1>1. I # {} => m \in I /\ \A j \in I : m <= j
  BY Least
<1>2. \A j \in I : j \in 0..n /\ j # 0
  OBVIOUS
<1>3. 0 \in 0..n
  OBVIOUS
<1> HIDE DEF m
<1> DEFINE k == IF I # {} THEN m ELSE 0
<1>4. k \in 0..n /\ (k = 0 <=> I = {}) /\ (k # 0 => k \in I /\ \A j \in I : k <= j)
  BY <1>1, <1>2, <1>3
<1> QED BY <1>4 DEF m

LEMMA FoundBlock ==
    ASSUME NEW calls, NEW at
    PROVE  FindBlock(calls, at).dwellings \in Nat
<1> DEFINE lon == MedianTwice(Coordinates(calls, at, 1))
           lat == MedianTwice(Coordinates(calls, at, 2))
           holding == {i \in 1..Len(Areas) : InBlock(lon, lat, Areas[i])}
           k == IF None \in {lon, lat} THEN 0
                ELSE IF holding # {} THEN Min(holding) ELSE 0
<1>1. FindBlock(calls, at) = IF k = 0 THEN [id |-> None, dwellings |-> 0] ELSE Areas[k]
  BY DEF FindBlock, SelectInSeq
<1>2. holding \in SUBSET (1..Len(Areas)) /\ Len(Areas) \in Nat
  BY DoorwayAssumption
<1> HIDE DEF holding, lon, lat
<1>3. k # 0 => k \in 1..Len(Areas)
  BY <1>2, FirstOf
<1> HIDE DEF k
<1> QED BY <1>1, <1>3, DoorwayAssumption

LEMMA RowDwellings ==
    ASSUME NEW calls, NEW times, NEW days, NEW from
    PROVE  Row(calls, times, days, from).dwellings \in Nat
BY FoundBlock DEF Row

Rollable(rows) ==
    /\ Len(rows) \in Nat
    /\ \A k \in 1..Len(rows) : rows[k].calls_12mo \in Nat /\ rows[k].dwellings \in Nat

BlocksIn(rows) == {rows[k].block : k \in 1..Len(rows)} \ {None}

LEMMA BlockIs ==
    ASSUME NEW rows, Rollable(rows), NEW b \in BlocksIn(rows)
    PROVE  LET doors == DoorsOf(rows, b)
               block == BlockOf(rows, doors)
           IN  /\ block.block = b
               /\ block.doorways = Cardinality(doors) /\ block.doorways \in Nat
               /\ block.rate \in Nat \union {None}
               /\ block.first \in doors /\ block.first \in Nat
<1> DEFINE doors == DoorsOf(rows, b)
           block == BlockOf(rows, doors)
           each == [k \in doors |-> rows[k].calls_12mo]
<1>1. doors \in SUBSET (1..Len(rows)) /\ doors \in SUBSET Nat /\ doors # {}
  BY DEF DoorsOf, BlocksIn, Rollable
<1>2. IsFiniteSet(doors) /\ Cardinality(doors) \in Nat
  <2>1. IsFiniteSet(1..Len(rows))
    BY FS_Interval DEF Rollable
  <2> QED BY <1>1, <2>1, FS_Subset, FS_CardinalityType
<1>3. Min(doors) \in doors
  BY <1>1, Least
<1>4. each \in [doors -> Nat]
  BY <1>1 DEF Rollable
<1>5. rows[Min(doors)].block = b /\ rows[Min(doors)].dwellings \in Nat
  BY <1>1, <1>3 DEF DoorsOf, Rollable
<1> HIDE DEF doors, each
<1>6. SumFunction(each) \in Nat
  BY <1>2, <1>4, SumIsNat
<1>7. /\ block.block = rows[Min(doors)].block
      /\ block.doorways = Cardinality(doors)
      /\ block.rate = Rate(SumFunction(each), rows[Min(doors)].dwellings)
      /\ block.first = Min(doors)
  BY DEF BlockOf, each
<1>8. \A recent, dwellings \in Nat : Rate(recent, dwellings) \in Nat \union {None}
  <2> SUFFICES ASSUME NEW recent \in Nat, NEW dwellings \in Nat \ {0}
               PROVE  (10000 * recent + dwellings \div 2) \div dwellings \in Nat
    BY DEF Rate
  <2> DEFINE up == 10000 * recent + dwellings \div 2
  <2>1. up \in Nat
    OBVIOUS
  <2> HIDE DEF up
  <2>2. up \div dwellings \in Nat
    BY <2>1
  <2> QED BY <2>2 DEF up
<1> HIDE DEF block
<1> QED BY <1>1, <1>2, <1>3, <1>5, <1>6, <1>7, <1>8 DEF block, doors

RankableBlocks(blocks) ==
    /\ IsFiniteSet(blocks)
    /\ \A g \in blocks : /\ g.doorways \in Nat /\ g.first \in Nat
                         /\ g.rate \in Nat \union {None}
    /\ \A g, h \in blocks : g.first = h.first => g = h

BlockRankPairs(blocks) == {p \in blocks \X blocks : BlockRanksBefore(p[1], p[2])}

LEMMA BlockRankOrders ==
    ASSUME NEW blocks, RankableBlocks(blocks)
    PROVE  Orders(BlockRankPairs(blocks), blocks)
<1> DEFINE rate(x) == IF x.rate = None THEN 0 ELSE x.rate
<1>1. \A g \in blocks : g.doorways \in Int /\ rate(g) \in Int /\ g.first \in Int
  BY DEF RankableBlocks
<1>2. \A g, h \in blocks : <<g, h>> \in BlockRankPairs(blocks) <=>
          \/ g.doorways > h.doorways
          \/ g.doorways = h.doorways /\ rate(g) > rate(h)
          \/ g.doorways = h.doorways /\ rate(g) = rate(h) /\ g.first < h.first
  BY DEF BlockRankPairs, BlockRanksBefore
<1> HIDE DEF rate
<1>3. \A g \in blocks : <<g, g>> \notin BlockRankPairs(blocks)
  BY ONLY <1>1, <1>2
<1>4. ASSUME NEW g \in blocks, NEW h \in blocks
      PROVE  g = h \/ <<g, h>> \in BlockRankPairs(blocks) \/ <<h, g>> \in BlockRankPairs(blocks)
  <2>1. g = h \/ g.first < h.first \/ h.first < g.first
    BY <1>1 DEF RankableBlocks
  <2> QED BY ONLY <1>1, <1>2, <2>1
<1>5. ASSUME NEW g \in blocks, NEW h \in blocks, NEW m \in blocks,
             <<g, h>> \in BlockRankPairs(blocks), <<h, m>> \in BlockRankPairs(blocks)
      PROVE  <<g, m>> \in BlockRankPairs(blocks)
  BY ONLY <1>1, <1>2, <1>5
<1> QED BY ONLY <1>3, <1>4, <1>5 DEF Orders

LEMMA BlocksRanked ==
    ASSUME NEW blocks, RankableBlocks(blocks)
    PROVE  Enumerates(RankBlocks(blocks), blocks)
<1>1. \A g \in blocks : {h \in blocks : <<h, g>> \in BlockRankPairs(blocks)} =
                            {h \in blocks : BlockRanksBefore(h, g)}
  BY DEF BlockRankPairs
<1>2. Before(BlockRankPairs(blocks), blocks) =
          [g \in blocks |-> Cardinality({h \in blocks : BlockRanksBefore(h, g)})]
  BY <1>1, Zenon DEF Before
<1>3. RankBlocks(blocks) = Ranked(Before(BlockRankPairs(blocks), blocks))
  BY <1>2 DEF RankBlocks
<1> QED BY <1>3, BlockRankOrders, SortsOnce DEF RankableBlocks

\* What roll_blocks lists: the blocks with enough of the listed doorways.
LEMMA Rolls ==
    ASSUME NEW rows, Rollable(rows), NEW least \in Nat
    PROVE  LET blocks == RollBlocks(rows, least) IN
           /\ Len(blocks) \in Nat
           /\ \A j \in 1..Len(blocks) :
                  /\ blocks[j].block \in BlocksIn(rows)
                  /\ blocks[j].doorways = Cardinality(DoorsOf(rows, blocks[j].block))
           /\ \A b \in BlocksIn(rows) : Cardinality(DoorsOf(rows, b)) >= least =>
                  \E j \in 1..Len(blocks) : blocks[j].block = b
           /\ \A j \in 1..Len(blocks) : blocks[j].doorways >= least
<1> DEFINE S == BlocksIn(rows)
           blockOf == [b \in S |-> BlockOf(rows, DoorsOf(rows, b))]
           all == {blockOf[b] : b \in S}
           some == {g \in all : g.doorways >= least}
<1>1. \A b \in S : /\ blockOf[b].block = b
                   /\ blockOf[b].doorways = Cardinality(DoorsOf(rows, b)) /\ blockOf[b].doorways \in Nat
                   /\ blockOf[b].rate \in Nat \union {None}
                   /\ blockOf[b].first \in DoorsOf(rows, b) /\ blockOf[b].first \in Nat
  BY BlockIs
<1>2. IsFiniteSet(S)
  <2> DEFINE block == [k \in 1..Len(rows) |-> rows[k].block]
             held == {block[k] : k \in 1..Len(rows)}
  <2>1. IsFiniteSet(1..Len(rows))
    BY FS_Interval DEF Rollable
  <2>2. S = held \ {None}
    BY DEF BlocksIn
  <2>3. IsFiniteSet(held)
    <3> HIDE DEF block
    <3> QED BY <2>1, Images
  <2> QED BY <2>2, <2>3, FS_Subset
<1>3. RollBlocks(rows, least) = RankBlocks(some)
  <2>1. BlocksOf(rows) = all
    BY DEF BlocksOf, BlocksIn
  <2> QED BY <2>1 DEF RollBlocks
<1> HIDE DEF blockOf, S
<1>4. IsFiniteSet(all)
  BY <1>2, Images
<1>5. \A b, c \in S : blockOf[b].first = blockOf[c].first => b = c
  BY <1>1 DEF DoorsOf
<1>6. RankableBlocks(some)
  <2>1. IsFiniteSet(some)
    BY <1>4, FS_Subset
  <2>2. \A g \in some : \E b \in S : g = blockOf[b]
    OBVIOUS
  <2> HIDE DEF some
  <2> QED BY <1>1, <1>5, <2>1, <2>2 DEF RankableBlocks
<1>7. Enumerates(RankBlocks(some), some)
  BY <1>6, BlocksRanked
<1> DEFINE blocks == RollBlocks(rows, least)
<1> HIDE DEF some, blocks
<1>8. /\ \A j \in 1..Len(blocks) : blocks[j] \in some
      /\ \A g \in some : \E j \in 1..Len(blocks) : blocks[j] = g
      /\ Len(blocks) \in Nat
  BY <1>3, <1>7, Listed DEF blocks, Enumerates
<1>9. \A j \in 1..Len(blocks) : \E b \in S : blocks[j] = blockOf[b] /\ blocks[j].doorways >= least
  BY <1>8 DEF some
<1>10. \A b \in S : Cardinality(DoorsOf(rows, b)) >= least => blockOf[b] \in some
  BY <1>1 DEF some
<1> QED BY <1>1, <1>8, <1>9, <1>10 DEF blocks, S

\* A doorway is served with as many neighbours as its block has listed doorways.
LEMMA NeighboursAre ==
    ASSUME NEW rows, Rollable(rows), NEW least \in 0..2, NEW k \in 1..Len(rows)
    PROVE  LET inBlock == {j \in 1..Len(rows) : rows[j].block = rows[k].block} IN
           /\ Neighbours(rows[k], RollBlocks(rows, least)) =
                  IF rows[k].block = None THEN 1 ELSE Cardinality(inBlock)
           /\ Cardinality(inBlock) >= 2 <=> inBlock # {k}
<1> DEFINE inBlock == {j \in 1..Len(rows) : rows[j].block = rows[k].block}
           blocks == RollBlocks(rows, least)
           I == {j \in 1..Len(blocks) : blocks[j].block = rows[k].block}
           first == IF I # {} THEN Min(I) ELSE 0
<1>1. Neighbours(rows[k], blocks) = IF first = 0 THEN 1 ELSE blocks[first].doorways
  BY DEF Neighbours, SelectInSeq
<1>2. /\ Len(blocks) \in Nat
      /\ \A j \in 1..Len(blocks) :
             /\ blocks[j].block \in BlocksIn(rows)
             /\ blocks[j].doorways = Cardinality(DoorsOf(rows, blocks[j].block))
      /\ \A b \in BlocksIn(rows) : Cardinality(DoorsOf(rows, b)) >= least =>
             \E j \in 1..Len(blocks) : blocks[j].block = b
  BY Rolls
<1>3. inBlock = DoorsOf(rows, rows[k].block)
  BY DEF DoorsOf
<1>4. IsFiniteSet(inBlock) /\ k \in inBlock
  <2>1. IsFiniteSet(1..Len(rows))
    BY FS_Interval DEF Rollable
  <2> QED BY <2>1, FS_Subset
<1> HIDE DEF blocks
<1>5. (first = 0 <=> I = {}) /\ (first # 0 => first \in I)
  BY <1>2, FirstOf
<1> HIDE DEF first
<1>6. rows[k].block = None => Neighbours(rows[k], blocks) = 1
  <2>1. rows[k].block = None => I = {}
    BY <1>2 DEF BlocksIn
  <2> QED BY <1>1, <1>5, <2>1
<1> HIDE DEF inBlock
<1>7. Cardinality(inBlock) \in Nat \ {0} /\ (Cardinality(inBlock) >= 2 <=> inBlock # {k})
  <2>1. IsFiniteSet(inBlock \ {k}) /\ Cardinality(inBlock \ {k}) \in Nat
    BY <1>4, FS_Subset, FS_CardinalityType
  <2>2. Cardinality(inBlock \ {k}) = Cardinality(inBlock) - 1 /\ Cardinality(inBlock) \in Nat
    BY <1>4, FS_RemoveElement, FS_CardinalityType
  <2>3. Cardinality(inBlock \ {k}) = 0 <=> inBlock \ {k} = {}
    BY <2>1, FS_EmptySet
  <2>4. inBlock \ {k} = {} <=> inBlock = {k}
    BY <1>4
  <2> QED BY ONLY <2>1, <2>2, <2>3, <2>4
<1>8. ASSUME rows[k].block # None
      PROVE  Neighbours(rows[k], blocks) = Cardinality(inBlock)
  <2>1. rows[k].block \in BlocksIn(rows)
    BY <1>8 DEF BlocksIn
  <2>2. CASE I = {}
    <3>1. ~(Cardinality(inBlock) >= least)
      BY <1>2, <1>3, <2>1, <2>2
    <3>2. Cardinality(inBlock) = 1
      BY <1>7, <3>1
    <3> QED BY <1>1, <1>5, <2>2, <3>2
  <2>3. CASE I # {}
    BY <1>1, <1>2, <1>3, <1>5, <2>3
  <2> QED BY <2>2, <2>3
<1> QED BY <1>6, <1>7, <1>8 DEF blocks, inBlock

\* Whatever district is asked for and whether a block of one doorway is listed or not, a
\* doorway is served with the number of listed doorways of its block, and the header counts
\* those that have another (hotspots.py, roll_blocks; derive.py, _finish and _summary).
THEOREM BlocksAgree == Spec => []BlocksCountTheListed
<1>1. RecordsTyped => BlocksCountTheListed
  <2> SUFFICES ASSUME RecordsTyped, NEW t \in Types,
                      NEW least \in {None, 0}, NEW district \in {None, "7"},
                      NEW lists \in {Served(t, FiltersFromRequest(
                          [NoQuery EXCEPT !.min_doorways = least, !.district = district]))}
               PROVE  LET rows == lists.rows
                          inBlockOf(k) == {j \in 1..Len(rows) : rows[j].block = rows[k].block}
                      IN  /\ \A k \in 1..Len(rows) :
                                 Neighbours(rows[k], lists.blocks) =
                                     IF rows[k].block = None THEN 1 ELSE Cardinality(inBlockOf(k))
                          /\ Summary(CallsOf(IdsOfType(t)), lists).with_neighbour =
                                 Cardinality({k \in 1..Len(rows) : /\ rows[k].block # None
                                                                   /\ inBlockOf(k) # {k}})
    BY DEF BlocksCountTheListed
  <2> DEFINE filters == FiltersFromRequest([NoQuery EXCEPT !.min_doorways = least,
                                                           !.district = district])
             calls == CallsOf(IdsOfType(t))
             from == ShiftedLatest(Latest(calls), filters.recency_days) - YearDays * DAY
             rows == lists.rows
             n == Len(rows)
             inBlockOf(k) == {j \in 1..n : rows[j].block = rows[k].block}
             neighbours(k) == Neighbours(rows[k], lists.blocks)
  <2>1. /\ filters.min_calls \in Nat /\ filters.recency_days \in Int
        /\ filters.min_doorways \in 0..2
    BY DerivationAssumption, DoorwayAssumption DEF FiltersFromRequest, NoQuery, IntParam
  <2>2. Summary(calls, lists).with_neighbour = Cardinality({k \in 1..n : neighbours(k) >= 2})
    BY DEF Summary
  <2>3. ASSUME NEW k \in 1..n
        PROVE  /\ neighbours(k) = IF rows[k].block = None THEN 1 ELSE Cardinality(inBlockOf(k))
               /\ Cardinality(inBlockOf(k)) >= 2 <=> inBlockOf(k) # {k}
    <3>1. rows # <<>> /\ lists = Served(t, filters)
      OBVIOUS
    <3> HIDE DEF filters
    <3>2. PICK some :
              /\ lists.blocks = RollBlocks(rows, filters.min_doorways)
              /\ Rankable(some) /\ Enumerates(rows, some)
              /\ \A r \in some : \E a \in AddressesOf(calls) :
                     /\ r = Row(calls, TimesAt(calls, a), filters.recur_days, from)
                     /\ r.address = a
      BY <2>1, <3>1, ServedRows
    <3>3. \A r \in some : r.calls_12mo \in Nat /\ r.dwellings \in Nat
      BY <3>2, RowDwellings DEF Rankable
    <3>4. Rollable(rows)
      BY <3>2, <3>3, Listed DEF Rollable, Enumerates
    <3> HIDE DEF rows
    <3>5. /\ Neighbours(rows[k], RollBlocks(rows, filters.min_doorways)) =
                 IF rows[k].block = None THEN 1 ELSE Cardinality(inBlockOf(k))
          /\ Cardinality(inBlockOf(k)) >= 2 <=> inBlockOf(k) # {k}
      BY <2>1, <3>4, NeighboursAre
    <3> QED BY <3>2, <3>5
  <2>4. ASSUME NEW k \in 1..n
        PROVE  neighbours(k) >= 2 <=> rows[k].block # None /\ inBlockOf(k) # {k}
    <3> HIDE DEF neighbours, inBlockOf
    <3> QED BY <2>3
  <2>5. {k \in 1..n : neighbours(k) >= 2} =
            {k \in 1..n : rows[k].block # None /\ inBlockOf(k) # {k}}
    BY <2>4
  <2> QED BY <2>2, <2>3, <2>5
<1> QED BY <1>1, Typing, PTL

--------------------------------------------------------------------------------
(* The doorway and its area. *)

\* What most of the values are stands at every position about the middle.
LEMMA Majority ==
    ASSUME NEW S \in SUBSET Nat, IsFiniteSet(S), NEW f \in [S -> Int], NEW v \in Int,
           2 * Cardinality({i \in S : f[i] = v}) > Cardinality(S),
           NEW p \in 1..Cardinality(S),
           2 * (Cardinality(S) - p) <= Cardinality(S), 2 * (p - 1) <= Cardinality(S)
    PROVE  f[Ascending(f)[p]] = v
<1> DEFINE sorted == Ascending(f)
           n == Cardinality(S)
           most == {i \in S : f[i] = v}
           K == {k \in 1..n : sorted[k] \in most}
<1>1. Enumerates(sorted, S) /\ \A j, k \in 1..n : j <= k => f[sorted[j]] <= f[sorted[k]]
  BY AscendsOnce
<1>2. n \in Nat /\ Len(sorted) = n /\ \A k \in 1..n : sorted[k] \in S
  BY <1>1, Listed DEF Enumerates
<1>3. \A k \in 1..n : f[sorted[k]] \in Int
  BY <1>2
<1>4. S \cap most = most
  OBVIOUS
<1>5. \A k \in K : f[sorted[k]] = v
  OBVIOUS
<1> HIDE DEF sorted, n, most
<1>6. Cardinality(K) = Cardinality(most)
  <2>1. \A Q : Cardinality({k \in 1..Len(sorted) : sorted[k] \in Q}) = Cardinality(S \cap Q)
    BY <1>1, CountAlong
  <2>2. Cardinality({k \in 1..Len(sorted) : sorted[k] \in most}) = Cardinality(S \cap most)
    BY <2>1
  <2> QED BY <1>2, <1>4, <2>2
<1>7. \A k \in K : k \in 1..n
  OBVIOUS
<1> HIDE DEF K
<1>8. ASSUME NEW a \in Int, NEW b \in Int, \A k \in K : k \in a..b
      PROVE  Cardinality(K) \in Nat /\ Cardinality(K) <= IF a > b THEN 0 ELSE b - a + 1
  <2>1. IsFiniteSet(a..b) /\ Cardinality(a..b) = IF a > b THEN 0 ELSE b - a + 1
    BY FS_Interval
  <2>2. K \in SUBSET (a..b)
    BY <1>8
  <2>3. Cardinality(K) \in Nat /\ Cardinality(K) <= Cardinality(a..b)
    BY <2>1, <2>2, FS_Subset, FS_CardinalityType
  <2> QED BY <2>1, <2>3
<1>9. /\ p \in 1..n /\ 2 * (n - p) <= n /\ 2 * (p - 1) <= n
      /\ 2 * Cardinality(K) > n
  BY <1>6 DEF n, most
<1>10. CASE f[sorted[p]] < v
  <2>1. \A k \in K : ~(k <= p)
    BY <1>1, <1>3, <1>5, <1>7, <1>9, <1>10
  <2>2. p + 1 \in Int /\ n \in Int /\ \A k \in K : k \in p + 1..n
    BY <1>2, <1>7, <1>9, <2>1
  <2>3. Cardinality(K) \in Nat /\ Cardinality(K) <= IF p + 1 > n THEN 0 ELSE n - (p + 1) + 1
    BY ONLY <1>8, <2>2
  <2> QED BY ONLY <1>2, <1>9, <2>3
<1>11. CASE f[sorted[p]] > v
  <2>1. \A k \in K : ~(p <= k)
    BY <1>1, <1>3, <1>5, <1>7, <1>9, <1>11
  <2>2. 1 \in Int /\ p - 1 \in Int /\ \A k \in K : k \in 1..p - 1
    BY <1>2, <1>7, <1>9, <2>1
  <2>3. Cardinality(K) \in Nat /\ Cardinality(K) <= IF 1 > p - 1 THEN 0 ELSE (p - 1) - 1 + 1
    BY ONLY <1>8, <2>2
  <2> QED BY ONLY <1>2, <1>9, <2>3
<1>12. f[sorted[p]] \in Int
  BY <1>3, <1>9
<1> QED BY <1>10, <1>11, <1>12 DEF sorted

\* The median of most of the values.
LEMMA MedianOfMost ==
    ASSUME NEW S \in SUBSET Nat, IsFiniteSet(S), NEW f \in [S -> Int], NEW v \in Int,
           2 * Cardinality({i \in S : f[i] = v}) > Cardinality(S)
    PROVE  MedianTwice(f) = 2 * v
<1> DEFINE n == Cardinality(S)
           sorted == Ascending(f)
           p == (n + 1) \div 2
           q == n \div 2 + 1
<1>1. n \in Nat /\ Len(sorted) = n
  BY AscendsOnce, Listed, FS_CardinalityType
<1>2. n # 0
  <2>1. {i \in S : f[i] = v} \in SUBSET S
    OBVIOUS
  <2>2. Cardinality({i \in S : f[i] = v}) <= n /\ Cardinality({i \in S : f[i] = v}) \in Nat
    BY <2>1, FS_Subset, FS_CardinalityType
  <2> HIDE DEF n
  <2> QED BY <1>1, <2>2 DEF n
<1>3. /\ p \in 1..n /\ 2 * (n - p) <= n /\ 2 * (p - 1) <= n
      /\ q \in 1..n /\ 2 * (n - q) <= n /\ 2 * (q - 1) <= n
  <2> HIDE DEF n
  <2> QED BY <1>1, <1>2
<1>4. f[sorted[p]] = v /\ f[sorted[q]] = v
  <2> HIDE DEF p, q, sorted
  <2> QED BY <1>3, Majority DEF n, sorted
<1>5. MedianTwice(f) = IF n = 0 THEN None ELSE f[sorted[p]] + f[sorted[q]]
  BY <1>1 DEF MedianTwice
<1> HIDE DEF n, p, q, sorted
<1> QED BY <1>2, <1>4, <1>5

\* Most of the calls that say one coordinate say this one.
MostSay(calls, at, axis, point) ==
    LET said == {i \in at : calls[i].at[axis] # None}
        true == {i \in said : calls[i].at[axis] = point}
    IN  2 * Cardinality(true) > Cardinality(said)

\* What the calls of a doorway mostly say of one coordinate is what its median is.
LEMMA MedianAt ==
    ASSUME NEW at \in SUBSET Nat, IsFiniteSet(at), NEW calls, NEW axis \in {1, 2},
           \A i \in at : calls[i].at[axis] \in Int \union {None}, NEW point,
           MostSay(calls, at, axis, point)
    PROVE  point \in Int /\ MedianTwice(Coordinates(calls, at, axis)) = 2 * point
<1> DEFINE said == {i \in at : calls[i].at[axis] # None}
           true == {i \in said : calls[i].at[axis] = point}
           f == Coordinates(calls, at, axis)
<1>1. said \in SUBSET Nat /\ IsFiniteSet(said) /\ true \in SUBSET said
  BY FS_Subset
<1>2. \A i \in said : calls[i].at[axis] \in Int
  OBVIOUS
<1>3. f \in [said -> Int] /\ \A i \in said : f[i] = calls[i].at[axis]
  BY <1>2 DEF Coordinates
<1>4. 2 * Cardinality(true) > Cardinality(said)
  BY DEF MostSay
<1>5. \A i \in true : point = calls[i].at[axis]
  OBVIOUS
<1>6. {i \in said : f[i] = point} = true
  BY <1>3
<1> HIDE DEF said, true, f
<1>7. point \in Int
  <2>1. true # {}
    <3>1. Cardinality(said) \in Nat
      BY <1>1, FS_CardinalityType
    <3>2. true = {} => Cardinality(true) = 0
      BY FS_EmptySet
    <3> QED BY <1>4, <3>1, <3>2
  <2> QED BY <1>1, <1>2, <1>5, <2>1
<1>8. MedianTwice(f) = 2 * point
  <2>1. 2 * Cardinality({i \in said : f[i] = point}) > Cardinality(said)
    BY <1>4, <1>6
  <2> QED BY <1>1, <1>3, <1>7, <2>1, MedianOfMost
<1> QED BY <1>7, <1>8 DEF f

\* The area of a doorway whose median is its point.
LEMMA AreaAt ==
    ASSUME NEW a \in Addresses, NEW calls, NEW at,
           \A axis \in {1, 2} : /\ TruePoint[a][axis] \in Int
                                /\ MedianTwice(Coordinates(calls, at, axis)) = 2 * TruePoint[a][axis]
    PROVE  FindBlock(calls, at).id = TrueArea[a]
<1> DEFINE lon == MedianTwice(Coordinates(calls, at, 1))
           lat == MedianTwice(Coordinates(calls, at, 2))
           holding == {i \in 1..Len(Areas) : InBlock(lon, lat, Areas[i])}
           k == IF None \in {lon, lat} THEN 0
                ELSE IF holding # {} THEN Min(holding) ELSE 0
<1>1. FindBlock(calls, at) = IF k = 0 THEN [id |-> None, dwellings |-> 0] ELSE Areas[k]
  BY DEF FindBlock, SelectInSeq
<1>2. lon = 2 * TruePoint[a][1] /\ lat = 2 * TruePoint[a][2] /\ lon \in Int /\ lat \in Int
  OBVIOUS
<1>3. None \notin {lon, lat}
  BY <1>2, DerivationAssumption
<1>4. \/ holding = {} /\ TrueArea[a] = None
      \/ \E j \in holding : TrueArea[a] = Areas[j].id /\ \A i \in holding : j <= i
  BY <1>2, TrueAreaAssumption
<1>5. Len(Areas) \in Nat /\ holding \in SUBSET (1..Len(Areas)) /\ holding \in SUBSET Nat
  BY DoorwayAssumption
<1> HIDE DEF lon, lat, holding
<1>6. k = IF holding # {} THEN Min(holding) ELSE 0
  BY <1>3
<1>7. (k = 0 <=> holding = {}) /\ (k # 0 => k \in holding /\ \A j \in holding : k <= j)
  BY <1>5, <1>6, FirstOf
<1> HIDE DEF k
<1>8. CASE holding = {}
  BY <1>1, <1>4, <1>7, <1>8
<1>9. CASE holding # {}
  <2>1. PICK j \in holding : TrueArea[a] = Areas[j].id /\ \A i \in holding : j <= i
    BY <1>4, <1>9
  <2>2. k \in Nat /\ j \in Nat /\ k <= j /\ j <= k
    BY <1>5, <1>7, <1>9, <2>1
  <2> QED BY <1>1, <1>7, <1>9, <2>1, <2>2
<1> QED BY <1>8, <1>9

\* A doorway is placed in its own area as long as most of its calls give each coordinate
\* right: the median does not move with the others (hotspots.py, build and find_block).
THEOREM PlacedByMost == Spec => []PlacedWhereItIs
<1>1. RecordsTyped => PlacedWhereItIs
  <2> SUFFICES ASSUME RecordsTyped, NEW t \in Types,
                      NEW row \in ToSet(Served(t, DEFAULT_PARAMETERS).rows)
               PROVE  LET calls == CallsOf(IdsOfType(t))
                          mostlyTrue(a, axis) ==
                              LET said == {i \in CallsAt(calls, a) : calls[i].at[axis] # None}
                                  true == {i \in said : calls[i].at[axis] = TruePoint[a][axis]}
                              IN  2 * Cardinality(true) > Cardinality(said)
                      IN  (\A axis \in {1, 2} : mostlyTrue(row.address, axis)) =>
                              row.block = TrueArea[row.address]
    BY DEF PlacedWhereItIs
  <2> DEFINE calls == CallsOf(IdsOfType(t))
             lists == Served(t, DEFAULT_PARAMETERS)
             from == ShiftedLatest(Latest(calls), YearDays) - YearDays * DAY
             mostlyTrue(a, axis) ==
                 LET said == {i \in CallsAt(calls, a) : calls[i].at[axis] # None}
                     true == {i \in said : calls[i].at[axis] = TruePoint[a][axis]}
                 IN  2 * Cardinality(true) > Cardinality(said)
  <2>1. CallsTyped(calls)
    BY Selection, OwnIds
  <2>2. \A i \in DOMAIN calls : {calls[i].at[1], calls[i].at[2]} \subseteq Int \union {None}
    <3>1. \A i \in DOMAIN calls : i \in Labelled /\ calls[i] = records[i]
      BY SelectedCalls, OwnIds
    <3>2. \A i \in Labelled : i \in Ids /\ records[i] \in Records[i]
      BY DEF Labelled, RecordsTyped
    <3> QED BY <3>1, <3>2, DerivationAssumption
  <2>3. /\ DEFAULT_PARAMETERS.recency_days = YearDays /\ DEFAULT_PARAMETERS.recur_days = YearDays
        /\ DEFAULT_PARAMETERS.min_calls = MIN_CALLS /\ YearDays \in Int /\ MIN_CALLS \in Nat
    BY DerivationAssumption, DoorwayAssumption
    DEF DEFAULT_PARAMETERS, FiltersFromRequest, NoQuery, IntParam
  <2>4. lists.rows # <<>>
    BY DEF ToSet
  <2>5. PICK some : /\ Enumerates(lists.rows, some)
                    /\ \A s \in some : \E a \in AddressesOf(calls) :
                           s = Row(calls, TimesAt(calls, a), YearDays, from) /\ s.address = a
    BY <2>3, <2>4, ServedRows
  <2>6. PICK a \in AddressesOf(calls) :
            row = Row(calls, TimesAt(calls, a), YearDays, from) /\ row.address = a
    BY <2>5, Listed
  <2> DEFINE at == AtDoorway(calls, a)
  <2>7. /\ a \in Addresses /\ at = CallsAt(calls, a) /\ at \in SUBSET DOMAIN calls
        /\ at \in SUBSET Nat /\ IsFiniteSet(at) /\ DOMAIN TimesAt(calls, a) = at
    BY <2>1, Doorway
  <2> HIDE DEF calls, from, at
  <2>8. row.block = FindBlock(calls, at).id
    BY <2>6, <2>7 DEF Row
  <2>9. ASSUME NEW axis \in {1, 2}, mostlyTrue(a, axis)
        PROVE  /\ TruePoint[a][axis] \in Int
               /\ MedianTwice(Coordinates(calls, at, axis)) = 2 * TruePoint[a][axis]
    <3>1. \A i \in at : calls[i].at[axis] \in Int \union {None}
      BY <2>2, <2>7
    <3>2. MostSay(calls, at, axis, TruePoint[a][axis])
      BY <2>7, <2>9 DEF MostSay
    <3> QED BY <2>7, <3>1, <3>2, MedianAt
  <2>10. (\A axis \in {1, 2} : mostlyTrue(a, axis)) => row.block = TrueArea[a]
    <3> HIDE DEF mostlyTrue
    <3> QED BY <2>7, <2>8, <2>9, AreaAt
  <2> QED BY <2>6, <2>10 DEF calls
<1> QED BY <1>1, Typing, PTL

================================================================================
