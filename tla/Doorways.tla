-------------------------------- MODULE Doorways --------------------------------
(***************************************************************************)
(* The doorway list and the block list of a selection of calls: build() and    *)
(* roll_blocks() of src/hotspots.py, and the tails of src/mirror/derive.py and *)
(* src/mirror/derive_recency.py that run them.  All of it is computed from     *)
(* calls, a function from request ids to what the mirror holds of each call.   *)
(* An instant is what a clock in Halifax reads, in ticks, DAY of which are a   *)
(* day: to_local gives every instant one zone, in which Python compares and    *)
(* subtracts readings.  An address is one that clean_address has reduced.      *)
(***************************************************************************)
EXTENDS Integers, SequencesExt, TLC

CONSTANTS
    DAY,       \* ticks in a day
    YearDays,  \* the 365 days build() counts recent calls in
    Areas,     \* the census areas, in the order they are read
    None       \* a field with nothing in it

ASSUME DoorwayAssumption ==
    /\ DAY \in Nat \ {0}
    /\ YearDays \in Nat \ {0}
    /\ Len(Areas) \in Nat
    /\ \A k \in 1..Len(Areas) : /\ DOMAIN Areas[k] = {"id", "dwellings", "rings"}
                                /\ Areas[k].dwellings \in Nat

--------------------------------------------------------------------------------
(* Sorting.  before says of each element how many come before it; what is sorted here is
   never twice the same, and so no two have as many. *)

Ranked(before) ==
    [k \in 1..Cardinality(DOMAIN before) |-> CHOOSE x \in DOMAIN before : before[x] = k - 1]

\* The arguments of a function by its values, equal ones in their own order.
Ascending(f) ==
    Ranked([x \in DOMAIN f |->
               Cardinality({y \in DOMAIN f : f[y] < f[x] \/ (f[y] = f[x] /\ y < x)})])

--------------------------------------------------------------------------------
(* A call to its doorway. *)

\* Mutant of Usable: an address is not asked for.
UsableDated(call) == call.started # None

\* A call with no date or no usable address is at no doorway.
Usable(call) == call.started # None /\ call.address # None

AtDoorway(calls, address) ==
    {i \in DOMAIN calls : Usable(calls[i]) /\ calls[i].address = address}

\* When the calls of one doorway came in.
TimesAt(calls, address) == [i \in AtDoorway(calls, address) |-> calls[i].started]

\* The calls of one doorway in that order; the sort keeps equal instants in the order of
\* their ids, which is that of the selection.
EntriesAt(calls, address) == Ascending(TimesAt(calls, address))

AddressesOf(calls) == {calls[i].address : i \in {j \in DOMAIN calls : Usable(calls[j])}}

\* by_address: each doorway as when its calls came in.
ByAddress(calls) == {TimesAt(calls, a) : a \in AddressesOf(calls)}

\* (later - earlier).days: whole days, floored.
DaysBetween(earlier, later) == (later - earlier) \div DAY

\* A later call at the doorway comes within the window; the earlier one is counted.
Repeats(calls, entries, recur_days) ==
    Cardinality({k \in 1..Len(entries) : \E j \in k + 1..Len(entries) :
        DaysBetween(calls[entries[k]].started, calls[entries[j]].started) <= recur_days})

--------------------------------------------------------------------------------
(* A doorway to its census area. *)

\* Mutant of MedianTwice: the mean.
MeanTwice(numbers) ==
    IF DOMAIN numbers = {} THEN None
    ELSE (2 * SumFunction(numbers)) \div Cardinality(DOMAIN numbers)

\* Twice the median of the values of a function.
MedianTwice(numbers) ==
    LET sorted == Ascending(numbers)
        n == Len(sorted)
    IN  IF n = 0 THEN None
        ELSE numbers[sorted[(n + 1) \div 2]] + numbers[sorted[n \div 2 + 1]]

\* in_block: even-odd over every ring, so that a hole is outside.  The point is in
\* half units.
InBlock(lon, lat, area) ==
    LET crossed(ring, i) ==
            LET a == ring[i]
                b == ring[(i % Len(ring)) + 1]
                rise == 2 * (b[2] - a[2])
                side == (lon - 2 * a[1]) * rise - (lat - 2 * a[2]) * 2 * (b[1] - a[1])
            IN  /\ (2 * a[2] > lat) # (2 * b[2] > lat)
                /\ IF rise > 0 THEN side < 0 ELSE side > 0
        sides == UNION {{r} \X (1..Len(area.rings[r])) : r \in 1..Len(area.rings)}
    IN  Cardinality({s \in sides : crossed(area.rings[s[1]], s[2])}) % 2 = 1

\* What the calls say of one coordinate; a call may say one and not the other.
Coordinates(calls, at, axis) ==
    [i \in {j \in at : calls[j].at[axis] # None} |-> calls[i].at[axis]]

\* find_block: the first area that holds the median point of the calls.
FindBlock(calls, at) ==
    LET lon == MedianTwice(Coordinates(calls, at, 1))
        lat == MedianTwice(Coordinates(calls, at, 2))
        k == IF None \in {lon, lat} THEN 0
             ELSE SelectInSeq(Areas, LAMBDA area : InBlock(lon, lat, area))
    IN  IF k = 0 THEN [id |-> None, dwellings |-> 0] ELSE Areas[k]

--------------------------------------------------------------------------------
(* The lists. *)

\* One row, of a doorway with a call since recent_from.
Row(calls, times, recur_days, recent_from) ==
    LET at == DOMAIN times
        entries == Ascending(times)
        count(P(_)) == Cardinality({i \in at : P(i)})
        block == FindBlock(calls, at)
    IN  [address |-> calls[Min(at)].address,
         first |-> Min(at),
         calls_12mo |-> count(LAMBDA i : times[i] >= recent_from),
         calls_total |-> Cardinality(at),
         district |-> calls[Last(entries)].district,
         tows |-> count(LAMBDA i : calls[i].tow = "Y"),
         vehicles_seen |-> count(LAMBDA i : calls[i].vehicle # None),
         vehicles_distinct |-> Cardinality({calls[i].vehicle : i \in at} \ {None}),
         repeat_calls |-> Repeats(calls, entries, recur_days),
         last_call |-> times[Last(entries)],
         block |-> block.id,
         dwellings |-> block.dwellings]

\* The rank: calls still arriving, weighted by how little enforcement achieved, and
\* between equals the doorway whose calls were read first.
RanksBefore(r, s) ==
    LET left == r.calls_12mo * (r.calls_total - r.tows) * s.calls_total
        right == s.calls_12mo * (s.calls_total - s.tows) * r.calls_total
    IN  left > right \/ (left = right /\ r.first < s.first)

RankRows(rows) == Ranked([r \in rows |-> Cardinality({s \in rows : RanksBefore(s, r)})])

\* build: the doorways that called within YearDays of latest, often enough.  They are
\* ranked in Lists.
Build(calls, min_calls, recur_days, latest) ==
    LET recent_from == latest - YearDays * DAY
        rows == {Row(calls, times, recur_days, recent_from) : times \in ByAddress(calls)}
    IN  {r \in rows : r.calls_12mo > 0 /\ r.calls_12mo >= min_calls}

\* calls_per_1k_dwellings in tenths, None where no dwelling is counted.
Rate(recent, dwellings) ==
    IF dwellings = 0 THEN None ELSE (10000 * recent + dwellings \div 2) \div dwellings

\* The positions in a list of the doorways of one block.
DoorsOf(rows, b) == {k \in 1..Len(rows) : rows[k].block = b}

\* One block, from the positions of its doorways.
BlockOf(rows, doors) ==
    LET recent == SumFunction([k \in doors |-> rows[k].calls_12mo])
        dwellings == rows[Min(doors)].dwellings
        most == Min({k \in doors : \A j \in doors : rows[j].calls_12mo <= rows[k].calls_12mo})
    IN  [block |-> rows[Min(doors)].block, doorways |-> Cardinality(doors),
         calls_12mo |-> recent,
         calls_total |-> SumFunction([k \in doors |-> rows[k].calls_total]),
         tows |-> SumFunction([k \in doors |-> rows[k].tows]),
         dwellings |-> dwellings, rate |-> Rate(recent, dwellings),
         worst_doorway |-> rows[most].address,
         addresses |-> {rows[k].address : k \in doors},
         first |-> Min(doors)]

BlockRanksBefore(a, b) ==
    LET rate(x) == IF x.rate = None THEN 0 ELSE x.rate IN
    \/ a.doorways > b.doorways
    \/ a.doorways = b.doorways /\ rate(a) > rate(b)
    \/ a.doorways = b.doorways /\ rate(a) = rate(b) /\ a.first < b.first

RankBlocks(blocks) ==
    Ranked([b \in blocks |-> Cardinality({a \in blocks : BlockRanksBefore(a, b)})])

BlocksOf(rows) ==
    {BlockOf(rows, doors) :
        doors \in {DoorsOf(rows, b) : b \in {rows[k].block : k \in 1..Len(rows)} \ {None}}}

\* Mutant of RollBlocks: a block is listed with more doorways than the least.
RollBlocksAbove(rows, min_doorways) ==
    RankBlocks({g \in BlocksOf(rows) : g.doorways > min_doorways})

\* roll_blocks: the listed doorways by their census area.
RollBlocks(rows, min_doorways) ==
    RankBlocks({g \in BlocksOf(rows) : g.doorways >= min_doorways})

\* block_doorways_calling: a doorway whose block is not listed counts itself.
Neighbours(row, blocks) ==
    LET k == SelectInSeq(blocks, LAMBDA g : g.block = row.block) IN
    IF k = 0 THEN 1 ELSE blocks[k].doorways

--------------------------------------------------------------------------------
(* The tails. *)

NoLists == [rows |-> <<>>, blocks |-> <<>>, latest |-> None, failed |-> FALSE]

Dated(calls) == {calls[i].started : i \in DOMAIN calls} \ {None}
Latest(calls) == CHOOSE t \in Dated(calls) : \A u \in Dated(calls) : u <= t

Lists(calls, filters, latest, build_latest) ==
    LET built == Build(calls, filters.min_calls, filters.recur_days, build_latest)
        rows == RankRows({r \in built : filters.district \in {None, r.district}})
    IN  [rows |-> rows, blocks |-> RollBlocks(rows, filters.min_doorways),
         latest |-> latest, failed |-> FALSE]

\* _finish.  The latest of calls none of which is dated is an error.
Finish(calls, filters) ==
    IF DOMAIN calls = {} THEN NoLists
    ELSE IF Dated(calls) = {} THEN [NoLists EXCEPT !.failed = TRUE]
    ELSE Lists(calls, filters, Latest(calls), Latest(calls))

\* Mutant of ShiftedLatest: shifted the other way.
ShiftedBack(latest, recency_days) == latest - (YearDays - recency_days) * DAY

\* The latest that build() must be given for its window to be recency_days long.
ShiftedLatest(latest, recency_days) == latest + (YearDays - recency_days) * DAY

\* _finish_with_recency, the lists a page is served.
FinishWithRecency(calls, filters) ==
    IF DOMAIN calls = {} THEN NoLists
    ELSE IF Dated(calls) = {} THEN [NoLists EXCEPT !.failed = TRUE]
    ELSE Lists(calls, filters, Latest(calls),
               ShiftedLatest(Latest(calls), filters.recency_days))

================================================================================
