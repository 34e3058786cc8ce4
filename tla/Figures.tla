--------------------------------- MODULE Figures ---------------------------------
(***************************************************************************)
(* The figures of a selection: recurrence by tow status and the denominators   *)
(* of src/mirror/figures.py, the tallies and conclusions of                    *)
(* src/mirror/per_type.py, and the sentence src/app/server.py puts them in.    *)
(* The bootstrap is statistics: its interval is an argument, in points, None   *)
(* when no resample had both groups.                                           *)
(***************************************************************************)
EXTENDS Doorways

CONSTANTS
    MIN_TOW_GROUP_SAMPLE, MIN_VEHICLE_SAMPLE

ASSUME FiguresAssumption == {MIN_TOW_GROUP_SAMPLE, MIN_VEHICLE_SAMPLE} \subseteq Nat \ {0}

TowKeys == {"towed", "not_towed", "unknown_tow_status"}

\* A call that says neither is not taken for one that was not towed.
TowKey(call) ==
    CASE call.tow = "Y" -> "towed"
      [] call.tow = "N" -> "not_towed"
      [] OTHER -> "unknown_tow_status"

\* Mutant of BeforeCutoff: the cutoff's own instant is kept.
UpToCutoff(call, as_of) == as_of = None \/ call.started <= as_of

BeforeCutoff(call, as_of) == as_of = None \/ call.started < as_of

\* _grouped_calls: the calls at a doorway, before the cutoff.
GroupedCalls(calls, as_of) ==
    LET kept == {i \in DOMAIN calls : Usable(calls[i]) /\ BeforeCutoff(calls[i], as_of)}
    IN  [i \in kept |-> calls[i]]

Skipped(calls) == Cardinality({i \in DOMAIN calls : ~Usable(calls[i])})

\* Mutant of Recurs: a call exactly at the end of the window does not count.
RecursWithin(calls, entries, k, recur_days) ==
    \E j \in k + 1..Len(entries) :
        DaysBetween(calls[entries[k]].started, calls[entries[j]].started) < recur_days

\* _recurs: a later call at the doorway within the window.
Recurs(calls, entries, k, recur_days) ==
    \E j \in k + 1..Len(entries) :
        DaysBetween(calls[entries[k]].started, calls[entries[j]].started) <= recur_days

\* The calls that recur, doorway by doorway.
Recurring(calls, recur_days) ==
    UNION {{entries[k] : k \in {l \in 1..Len(entries) : Recurs(calls, entries, l, recur_days)}} :
               entries \in {Ascending(times) : times \in ByAddress(calls)}}

\* recurrence_by_tow: every call at a doorway, listed or not, under its tow status.
RecurrenceByTow(calls, recur_days, as_of) ==
    LET grouped == GroupedCalls(calls, as_of)
        recurring == Recurring(grouped, recur_days)
        under(key) == {i \in DOMAIN grouped : TowKey(grouped[i]) = key}
    IN  [key \in TowKeys |-> [calls |-> Cardinality(under(key)),
                              recurring |-> Cardinality(under(key) \cap recurring)]]

Population(groups) ==
    groups["towed"].calls + groups["not_towed"].calls + groups["unknown_tow_status"].calls

\* _tow_recurrence: what one doorway adds to the groups, the unit of the bootstrap.
AddressCounts(calls, address, recur_days) ==
    LET entries == EntriesAt(calls, address)
        under(key) == {k \in 1..Len(entries) : TowKey(calls[entries[k]]) = key}
    IN  [key \in {"towed", "not_towed"} |->
            [calls |-> Cardinality(under(key)),
             recurring |-> Cardinality({k \in under(key) :
                                            Recurs(calls, entries, k, recur_days)})]]

\* response_time: the calls as of the cutoff, those closed and those never closed.
ResponseTime(calls, as_of) ==
    LET kept == {i \in DOMAIN calls : as_of = None \/ (calls[i].started # None
                                                     /\ BeforeCutoff(calls[i], as_of))}
        closed == {i \in kept : None \notin {calls[i].started, calls[i].closed}}
    IN  [population |-> Cardinality(kept), closed_calls |-> Cardinality(closed),
         never_closed_calls |-> Cardinality({i \in kept : calls[i].closed = None}),
         median_elapsed |->
            MedianTwice([i \in closed |-> calls[i].closed - calls[i].started])]

\* call_denominators: the counts in circulation for one selection.
Denominators(calls, recur_days, as_of) ==
    LET groups == RecurrenceByTow(calls, recur_days, as_of) IN
    [raw_selection_total |-> Cardinality(DOMAIN calls),
     raw_selection_as_of |-> ResponseTime(calls, as_of).population,
     tow_comparison_population |-> Population(groups),
     tow_comparison_known_status |-> groups["towed"].calls + groups["not_towed"].calls,
     excluded_no_usable_address_or_date |-> Skipped(calls)]

--------------------------------------------------------------------------------
(* What is concluded. *)

\* Mutant of TowSampleOk: one of the groups is enough.
TowSampleOfEither(groups) ==
    \E key \in {"towed", "not_towed"} : groups[key].calls >= MIN_TOW_GROUP_SAMPLE

\* Both groups are large enough; only then is an interval computed.
TowSampleOk(groups) ==
    \A key \in {"towed", "not_towed"} : groups[key].calls >= MIN_TOW_GROUP_SAMPLE

\* _tow_conclusion, from the interval and never from the two rates.
TowConclusion(groups, interval) ==
    CASE ~TowSampleOk(groups) -> "sample_too_small"
      [] TowSampleOk(groups) /\ interval = None -> "no_difference"
      [] TowSampleOk(groups) /\ interval # None ->
            IF interval[2] < 0 THEN "tow_lower"
            ELSE IF interval[1] > 0 THEN "tow_higher"
            ELSE "no_difference"

\* _vehicle_conclusion, over the listed doorways.  The share is compared in
\* thousandths, rounded.
VehicleConclusion(rows) ==
    LET total(f(_)) == FoldLeft(LAMBDA sum, r : sum + f(r), 0, rows)
        seen == total(LAMBDA r : r.vehicles_seen)
        distinct == total(LAMBDA r : r.vehicles_distinct)
        share == (2000 * distinct + seen) \div (2 * seen)
    IN  IF seen < MIN_VEHICLE_SAMPLE THEN "sample_too_small"
        ELSE IF share >= 900 THEN "mostly_distinct"
        ELSE IF share <= 700 THEN "substantial_repeat"
        ELSE "mixed"

\* compute_type, from a type's calls and the rows of its list.
ComputeType(calls, rows, recur_days, interval) ==
    LET groups == RecurrenceByTow(calls, recur_days, None) IN
    [population |-> Population(groups), excluded |-> Skipped(calls), groups |-> groups,
     tow |-> TowConclusion(groups, interval), vehicles |-> VehicleConclusion(rows)]

\* recurrence_pct, in tenths of a per cent, None of no call.
Percent(group) ==
    IF group.calls = 0 THEN None
    ELSE (2000 * group.recurring + group.calls) \div (2 * group.calls)

\* _tow_thesis_sentence: the two percentages it quotes, none where the sample is too
\* small or one of them is missing.
ThesisQuotes(figures) ==
    LET pcts == {Percent(figures.groups["towed"]), Percent(figures.groups["not_towed"])} IN
    IF figures.tow = "sample_too_small" \/ None \in pcts THEN {} ELSE {"towed", "not_towed"}

================================================================================
