------------------------------- MODULE Derivations -------------------------------
(***************************************************************************)
(* What the mirror's calls are turned into as HRM adds, amends and retires     *)
(* them: the lists a page is served (src/mirror/derive_recency.py), the lists  *)
(* every sync derives for all the types at once (derive_all) and retains       *)
(* (src/mirror/history.py), and the figures of each type.                      *)
(***************************************************************************)
EXTENDS Figures

CONSTANTS
    Records,          \* for each request id, what HRM may ever say of it
    Addresses,
    CANONICAL_TYPES,  \* the raw labels of each canonical type
    Followed,         \* the type whose retained lists are followed
    MIN_CALLS,        \* the default of min_calls
    MaxSnapshots,     \* bound: snapshots retained
    Windows,          \* recency windows asked for, in days
    TruePoint,        \* where each address is
    TrueArea          \* and the census area that holds it

Ids == DOMAIN Records
Types == DOMAIN CANONICAL_TYPES

ASSUME DerivationAssumption ==
    /\ Ids \subseteq Nat /\ IsFiniteSet(Ids)
    /\ None \notin Int \union Addresses
    /\ \A i \in Ids : \A call \in Records[i] : /\ call.started \in Int \union {None}
                                              /\ call.address \in Addresses \union {None}
                                              /\ {call.at[1], call.at[2]} \subseteq Int \union {None}
    /\ Followed \in Types /\ IsFiniteSet(Types)
    /\ MIN_CALLS \in Nat
    /\ MaxSnapshots \in Nat
    /\ Windows \subseteq Nat \ {0}
    \* _build_lookup: a raw label belongs to one canonical type only.
    /\ \A t, u \in Types : CANONICAL_TYPES[t] \cap CANONICAL_TYPES[u] # {} => t = u

\* An address is in the first area, if any, that holds its point.
ASSUME TrueAreaAssumption ==
    \A a \in Addresses :
        LET holding == {k \in 1..Len(Areas) :
                           InBlock(2 * TruePoint[a][1], 2 * TruePoint[a][2], Areas[k])}
        IN  \/ holding = {} /\ TrueArea[a] = None
            \/ \E k \in holding : TrueArea[a] = Areas[k].id /\ \A j \in holding : k <= j

VARIABLES
    records,    \* what the mirror holds of each request id: None, or a record
    pulled,     \* a layer has been reloaded and its lists are not retained yet
    retained    \* the addresses each retained snapshot of Followed lists

vars == <<records, pulled, retained>>

TypeOK ==
    /\ \A i \in Ids : records[i] \in Records[i] \union {None}
    /\ pulled \in BOOLEAN
    /\ retained \in Seq(SUBSET Addresses) /\ Len(retained) <= MaxSnapshots

--------------------------------------------------------------------------------
(* Filters. *)

\* _int_param: a filter that is absent, unreadable or below its minimum is not one.
IntParam(raw, default, minimum) ==
    IF raw = None THEN default ELSE IF raw >= minimum THEN raw ELSE default

\* _filters_from_request.
FiltersFromRequest(query) ==
    [district |-> query.district,
     min_calls |-> IntParam(query.min_calls, MIN_CALLS, 0),
     min_doorways |-> IntParam(query.min_doorways, 2, 0),
     recur_days |-> IntParam(query.recur_days, YearDays, 1),
     recency_days |-> IntParam(query.recency_days, YearDays, 1)]

NoQuery == [f \in {"district", "min_calls", "min_doorways", "recur_days", "recency_days"}
              |-> None]
DEFAULT_PARAMETERS == FiltersFromRequest(NoQuery)

--------------------------------------------------------------------------------
(* Selections. *)

Labelled == {i \in Ids : records[i] # None}

\* _select_ids_by_canonical_type: the ids with one of the type's raw labels.
IdsOfType(t) == {i \in Labelled : records[i].labels \cap CANONICAL_TYPES[t] # {}}

\* _service_request_rows and _parking_fields: an id may have labels and no request.
CallsOf(ids) == [i \in {j \in ids : records[j].held} |-> records[i]]

\* Mutant of CanonicalType: a label of the legacy scheme is of no type.
CanonicalTypeOfCurrent(label) ==
    {t \in Types : label \in CANONICAL_TYPES[t] /\ label # "DRIVEWAY"}

\* canonical_type, of a raw label: excluded and ambiguous labels have none.
CanonicalType(label) == {t \in Types : label \in CANONICAL_TYPES[t]}

TypesOfId(i) == UNION {CanonicalType(label) : label \in records[i].labels}

\* derive_all's id_to_type: of an id with labels of two types, that of the row read
\* last, and the rows are read in no order.
IdToType ==
    LET typed == {i \in Labelled : TypesOfId(i) # {}} IN
    {f \in [typed -> Types] : \A i \in typed : f[i] \in TypesOfId(i)}

CallsByType(id_to_type, t) == CallsOf({i \in DOMAIN id_to_type : id_to_type[i] = t})

\* derive_all: every type from one reading.
DeriveAll(id_to_type, filters) ==
    [t \in Types |-> Finish(CallsByType(id_to_type, t), filters)]

\* derive_with_recency, of one type.
Served(t, filters) == FinishWithRecency(CallsOf(IdsOfType(t)), filters)

\* _summary: the header of a page, over every call of the selection and the rows listed.
Summary(calls, lists) ==
    LET total(f(_)) == FoldLeft(LAMBDA sum, r : sum + f(r), 0, lists.rows)
    IN  [calls |-> Cardinality(DOMAIN calls),
         tows |-> Cardinality({i \in DOMAIN calls : calls[i].tow = "Y"}),
         seen |-> total(LAMBDA r : r.vehicles_seen),
         distinct |-> total(LAMBDA r : r.vehicles_distinct),
         with_neighbour |->
             Cardinality({k \in 1..Len(lists.rows) :
                             Neighbours(lists.rows[k], lists.blocks) >= 2})]

\* The doorways of a list.
AddressesIn(lists) == {lists.rows[k].address : k \in 1..Len(lists.rows)}

--------------------------------------------------------------------------------
(* The retained lists. *)

\* departed_between: listed in the snapshot a and not in the snapshot b.
DepartedBetween(lists, a, b) == lists[a] \ lists[b]

\* doorway_presence.
DoorwayPresence(lists, address) == [k \in 1..Len(lists) |-> address \in lists[k]]

\* Mutant of Leaving: a doorway that comes back has still left.
LeavingOnce(found, k, present) ==
    IF present THEN [found EXCEPT !.last_seen = k]
    ELSE IF found.last_seen # 0 /\ found.left = 0 THEN [found EXCEPT !.left = k]
    ELSE found

\* One snapshot of the pass: seen at it, or gone at it for the first time since.
Leaving(found, k, present) ==
    IF present THEN [last_seen |-> k, left |-> 0]
    ELSE IF found.last_seen # 0 /\ found.left = 0 THEN [found EXCEPT !.left = k]
    ELSE found

\* when_did_doorway_leave: the last snapshot it was in, and the first one after it
\* that it was not in.
WhenDidDoorwayLeave(lists, address) ==
    LET presence == DoorwayPresence(lists, address)
        pass[k \in 0..Len(lists)] == IF k = 0 THEN [last_seen |-> 0, left |-> 0]
                                     ELSE Leaving(pass[k - 1], k, presence[k])
        found == pass[Len(lists)]
        status == CASE lists = <<>> -> "no_snapshots_retained"
                    [] lists # <<>> /\ found.last_seen = 0 -> "never_listed"
                    [] found.last_seen # 0 /\ found.left = 0 -> "still_listed"
                    [] found.left # 0 -> "left"
    IN  [status |-> status, last_seen |-> found.last_seen, left |-> found.left]

--------------------------------------------------------------------------------

\* Any calls may be in the mirror when the lists begin to be retained.
Init ==
    /\ records \in {f \in [Ids -> UNION {Records[i] : i \in Ids} \union {None}] :
                      \A i \in Ids : f[i] \in Records[i] \union {None}}
    /\ pulled = FALSE
    /\ retained = <<>>

\* The layers are reloaded after HRM has changed what it says of one call.
Reload(i, record) ==
    /\ ~pulled
    /\ record # records[i]
    /\ records' = [records EXCEPT ![i] = record]
    /\ pulled' = TRUE
    /\ UNCHANGED retained

\* snapshot_after_sync.  All the types are derived together and then retained one by
\* one; a type that cannot be derived leaves none of them retained.
SnapshotAfterSync ==
    /\ pulled
    /\ pulled' = FALSE
    /\ Len(retained) < MaxSnapshots
    /\ \E f \in IdToType :
          LET derived == DeriveAll(f, DEFAULT_PARAMETERS) IN
          retained' = IF \E t \in Types : derived[t].failed THEN retained
                      ELSE Append(retained, AddressesIn(derived[Followed]))
    /\ UNCHANGED records

\* The run ends before the lists are retained; the next one pulls nothing.
SnapshotLost ==
    /\ pulled
    /\ pulled' = FALSE
    /\ UNCHANGED <<records, retained>>

Next ==
    \/ \E i \in Ids : \E record \in Records[i] \union {None} : Reload(i, record)
    \/ SnapshotAfterSync
    \/ SnapshotLost

Spec == Init /\ [][Next]_vars

--------------------------------------------------------------------------------
(* The lists. *)

CallsAt(calls, a) == {i \in DOMAIN calls : calls[i].address = a /\ calls[i].started # None}

\* A doorway is served exactly when enough of its calls, and one at least, came in
\* within the window that was asked for, counted from the type's last dated call:
\* the shift that FinishWithRecency hides from Build cancels its own window.
RecencyWindowExact ==
    \A t \in Types, w \in Windows, m \in {0, 2} :
        LET calls == CallsOf(IdsOfType(t))
            since == Latest(calls) - w * DAY
            recent(a) == {i \in CallsAt(calls, a) : calls[i].started >= since}
            query == [NoQuery EXCEPT !.recency_days = w, !.min_calls = m]
        IN  Dated(calls) # {} =>
                AddressesIn(Served(t, FiltersFromRequest(query))) =
                    {a \in Addresses : Cardinality(recent(a)) >= IF m = 0 THEN 1 ELSE m}

\* A type's lists are the same derived alone, for a page, and together with all the
\* others, for the snapshots, as long as no call is labelled with two types:
\* one selects its calls by the type's raw labels and the other types every label.
ServedAsRetained ==
    (\A i \in Labelled : Cardinality(TypesOfId(i)) <= 1) =>
        \A f \in IdToType : \A t \in Types :
            DeriveAll(f, DEFAULT_PARAMETERS)[t] = Served(t, DEFAULT_PARAMETERS)

\* The neighbours a doorway is served with are the doorways of its list that its block
\* holds, whatever is filtered, as long as a block of two is listed; and the header
\* counts those that have one.
BlocksCountTheListed ==
    \A t \in Types, least \in {None, 0}, district \in {None, "7"} :
        \A lists \in {Served(t, FiltersFromRequest([NoQuery EXCEPT !.min_doorways = least,
                                                                !.district = district]))} :
            LET rows == lists.rows
                inBlockOf(k) == {j \in 1..Len(rows) : rows[j].block = rows[k].block}
            IN  /\ \A k \in 1..Len(rows) :
                       Neighbours(rows[k], lists.blocks) =
                           IF rows[k].block = None THEN 1 ELSE Cardinality(inBlockOf(k))
                /\ Summary(CallsOf(IdsOfType(t)), lists).with_neighbour =
                       Cardinality({k \in 1..Len(rows) : /\ rows[k].block # None
                                                         /\ inBlockOf(k) # {k}})

\* A doorway is placed in its own area when most of what its calls say of each
\* coordinate is right, however far off the rest is.
PlacedWhereItIs ==
    \A t \in Types :
        LET calls == CallsOf(IdsOfType(t))
            mostlyTrue(a, axis) ==
                LET said == {i \in CallsAt(calls, a) : calls[i].at[axis] # None}
                    true == {i \in said : calls[i].at[axis] = TruePoint[a][axis]}
                IN  2 * Cardinality(true) > Cardinality(said)
        IN  \A row \in ToSet(Served(t, DEFAULT_PARAMETERS).rows) :
                (\A axis \in {1, 2} : mostlyTrue(row.address, axis)) =>
                    row.block = TrueArea[row.address]

--------------------------------------------------------------------------------
(* The figures. *)

\* The figures of a type agree with its lists and with each other: the repeats of a listed
\* doorway are the recurring calls there, the doorways the bootstrap draws add up to the
\* groups, a call is grouped or excluded, and the tows a page's header counts are those of
\* the groups and of the excluded.
FiguresReconcile ==
    \A t \in Types : \A lists \in {Served(t, DEFAULT_PARAMETERS)} :
        LET calls == CallsOf(IdsOfType(t))
            groups == RecurrenceByTow(calls, YearDays, None)
            d == Denominators(calls, YearDays, None)
            r == ResponseTime(calls, None)
            counts == [a \in AddressesOf(calls) |-> AddressCounts(calls, a, YearDays)]
        IN  /\ d.tow_comparison_population + d.excluded_no_usable_address_or_date
                   = d.raw_selection_total
            /\ Summary(calls, lists).tows =
                   groups["towed"].calls
                   + Cardinality({i \in DOMAIN calls : ~Usable(calls[i]) /\ calls[i].tow = "Y"})
            /\ \A key \in {"towed", "not_towed"} :
                   /\ SumFunction([a \in DOMAIN counts |-> counts[a][key].calls]) =
                          groups[key].calls
                   /\ SumFunction([a \in DOMAIN counts |-> counts[a][key].recurring]) =
                          groups[key].recurring
            /\ \A row \in ToSet(lists.rows) :
                   row.repeat_calls = Cardinality(Recurring(calls, YearDays)
                                                    \cap CallsAt(calls, row.address))
            /\ r.closed_calls + r.never_closed_calls
                   + Cardinality({i \in DOMAIN calls :
                                     calls[i].started = None /\ calls[i].closed # None})
                   = r.population

\* Figures as of a day say of every tow group what they said before HRM added, amended
\* or retired a call of a later day.
AsOfIsStable ==
    [][records' # records =>
        \A t \in Types : \A calls \in {CallsOf(IdsOfType(t))} : \A as_of \in {9, 12} :
            (\A i \in {j \in Ids : records'[j] # records[j]} :
                \A held \in {records[i], records'[i]} :
                    held # None => held.started # None /\ held.started >= as_of) =>
            RecurrenceByTow(CallsOf(IdsOfType(t)), YearDays, as_of)' =
                RecurrenceByTow(calls, YearDays, as_of)]_vars

\* Two recurrence rates are put side by side only where each is of enough calls that
\* have a doorway and a tow status, and a tow is never said to help or to hurt otherwise.
ThesisNeedsASample ==
    \A f \in IdToType : \A t \in Types : \A interval \in {None, <<-5, -1>>, <<1, 5>>} :
        LET calls == CallsByType(f, t)
            said(tow) == {i \in DOMAIN calls : /\ calls[i].tow = tow
                                               /\ \E a \in Addresses : i \in CallsAt(calls, a)}
        IN  \A figures \in {ComputeType(calls, rows, YearDays, interval) :
                                rows \in {Finish(calls, DEFAULT_PARAMETERS).rows}} :
                (ThesisQuotes(figures) # {} \/ figures.tow \in {"tow_lower", "tow_higher"}) =>
                    \A tow \in {"Y", "N"} : Cardinality(said(tow)) >= MIN_TOW_GROUP_SAMPLE

--------------------------------------------------------------------------------
(* The retained lists. *)

\* When a doorway left is the snapshot that follows the last one to list it, and no
\* later snapshot lists it again; the comparison of the two snapshots names it too.
LastDeparture ==
    \A a \in Addresses :
        LET seen == {k \in 1..Len(retained) : a \in retained[k]}
            answer == WhenDidDoorwayLeave(retained, a)
        IN  /\ (answer.status = "left") <=> (seen # {} /\ Len(retained) \notin seen)
            /\ answer.status = "left" =>
                   /\ answer.last_seen \in seen /\ \A k \in seen : k <= answer.last_seen
                   /\ answer.left = answer.last_seen + 1
                   /\ a \in DepartedBetween(retained, answer.last_seen, answer.left)

================================================================================
