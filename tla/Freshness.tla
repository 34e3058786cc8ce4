-------------------------------- MODULE Freshness --------------------------------
(***************************************************************************)
(* What the freshness route of src/app/server.py says of the sync: whether it  *)
(* is overdue, and whose limit a lag is.  The clocks of each layer are written *)
(* by a run at its polls and reloads, and by what is loaded outside the        *)
(* schedule (sync.py --reload, load.py), and read by src/mirror/status.py in   *)
(* two statements for each layer, with nothing pinned.  Instants are ages in   *)
(* ticks; a run stamps what it writes with the instant it began.               *)
(***************************************************************************)
EXTENDS Naturals, Sequences, FiniteSetsExt

CONSTANTS
    MaxVersion,  \* bound: the versions a layer publishes
    MaxOutside,  \* bound: loads outside the schedule
    MaxRun,      \* bound: the ticks a run lasts
    Interval     \* sync.POLL_INTERVAL, in ticks

CURRENCY_LAYERS == {"requests", "fields"}
SYNC_ORDER == <<"requests", "fields">>

NEXT_UPDATE_GRACE_PERIOD == Interval
Oldest == Interval + NEXT_UPDATE_GRACE_PERIOD + 1   \* bound: time stops at this age
Never == Oldest + 1                                 \* the age of what never happened
Ages == 0..Never
Versions == 0..MaxVersion                           \* 0: no edit recorded

ASSUME FreshnessAssumption ==
    /\ MaxVersion \in Nat \ {0}
    /\ MaxOutside \in Nat
    /\ Interval \in Nat \ {0}
    /\ MaxRun \in 0..Interval

VARIABLES
    published,  \* the version of each layer the source serves
    state,      \* layer_state and the newest pull, of each layer
    outside,    \* the layers loaded outside the schedule since their last poll
    run,        \* the run that holds the sync lock
    nOutside,   \* loads outside the schedule so far
    req         \* the request that is reading the clocks

vars == <<published, state, outside, run, nOutside, req>>

--------------------------------------------------------------------------------

\* seen: source_last_edit.  pulled: last_pulled_source_edit.  loaded:
\* full_load_completed_at.  polled: ticks since the poll that set next_due_at, which
\* lies Interval after it.  success: ticks since last_success_at.
LayerState ==
    [seen : Versions, pulled : Versions, loaded : BOOLEAN, polled : Ages, success : Ages]
NoState ==
    [seen |-> 0, pulled |-> 0, loaded |-> FALSE, polled |-> Never, success |-> Never]

Run == [pc : {"idle", "poll", "finish", "touch", "record", "end"}, at : 1..Len(SYNC_ORDER),
        scheduled : BOOLEAN, target : Versions, age : 0..MaxRun]
NoRun == [pc |-> "idle", at |-> 1, scheduled |-> FALSE, target |-> 0, age |-> 0]

\* Mutant of ClockReads: the pull is read before what it is compared with.
ClockReadsPulledFirst == <<<<"pulled", "requests">>, <<"state", "requests">>,
                           <<"pulled", "fields">>, <<"state", "fields">>>>

\* layer_freshness of each layer in turn: layer_state_row, last_pulled_source_edit.
ClockReads == <<<<"state", "requests">>, <<"pulled", "requests">>,
                <<"state", "fields">>, <<"pulled", "fields">>>>

\* clocks: what has been read.  lagged, outside: the layers that were behind, or
\* outside, at some moment while it was read.
Request == [at : 0..Len(ClockReads) + 1, clocks : [CURRENCY_LAYERS -> LayerState],
            lagged : SUBSET CURRENCY_LAYERS, outside : SUBSET CURRENCY_LAYERS]
NoRequest ==
    [at |-> 0, clocks |-> [l \in CURRENCY_LAYERS |-> NoState], lagged |-> {}, outside |-> {}]

TypeOK ==
    /\ published \in [CURRENCY_LAYERS -> 1..MaxVersion]
    /\ state \in [CURRENCY_LAYERS -> LayerState]
    /\ outside \subseteq CURRENCY_LAYERS
    /\ run \in Run
    /\ nOutside \in 0..MaxOutside
    /\ req \in Request

Init ==
    /\ published = [l \in CURRENCY_LAYERS |-> 1]
    /\ state = [l \in CURRENCY_LAYERS |-> NoState]
    /\ outside = {}
    /\ run = NoRun
    /\ nOutside = 0
    /\ req = NoRequest

--------------------------------------------------------------------------------
(* Those who write. *)

\* behind_source of clocks: the edit last seen against the edit last pulled.
BehindSource(clock) == clock.pulled # 0 /\ clock.seen > clock.pulled

\* The layers behind in the mirror now, which a request under way may come to know.
Lagging(st) == {l \in CURRENCY_LAYERS : BehindSource(st[l])}
Written(st) ==
    /\ state' = st
    /\ req' = IF req.at = 0 THEN req
              ELSE [req EXCEPT !.lagged = @ \union Lagging(st), !.outside = @ \union outside']

Layer == SYNC_ORDER[run.at]

Publish(l) ==
    /\ published[l] < MaxVersion
    /\ published' = [published EXCEPT ![l] = @ + 1]
    /\ UNCHANGED <<state, outside, run, nOutside, req>>

StartRun ==
    /\ run.pc = "idle"
    /\ run' = [NoRun EXCEPT !.pc = "poll", !.scheduled = TRUE]
    /\ UNCHANGED <<published, state, outside, nOutside, req>>

\* sync.py --reload and load.py of a layer: no poll, so no next_due_at.
StartOutside(i, pc) ==
    /\ run.pc = "idle"
    /\ nOutside < MaxOutside
    /\ nOutside' = nOutside + 1
    /\ run' = [NoRun EXCEPT !.pc = pc, !.at = i, !.target = published[SYNC_ORDER[i]]]
    /\ UNCHANGED <<published, state, outside, req>>

Onward ==
    IF run.scheduled /\ run.at < Len(SYNC_ORDER)
    THEN [run EXCEPT !.pc = "poll", !.at = @ + 1, !.target = 0]
    ELSE NoRun

\* A poll that completes is a success of its own, and sets the next due time.
PollLayer ==
    /\ run.pc = "poll"
    /\ outside' = outside \ {Layer}
    /\ Written([state EXCEPT ![Layer].seen = published[Layer],
                             ![Layer].polled = run.age, ![Layer].success = run.age])
    /\ run' = IF published[Layer] > state[Layer].pulled
              THEN [run EXCEPT !.pc = "finish", !.target = published[Layer]]
              ELSE Onward
    /\ UNCHANGED <<published, nOutside>>

\* full_reload: the run of the reload is finished, and then the layer is touched.
FinishReload ==
    /\ run.pc = "finish"
    /\ outside' = outside
    /\ Written([state EXCEPT ![Layer].pulled = run.target])
    /\ run' = [run EXCEPT !.pc = "touch"]
    /\ UNCHANGED <<published, nOutside>>

TouchLayer ==
    /\ run.pc = "touch"
    /\ outside' = IF run.scheduled THEN outside ELSE outside \union {Layer}
    /\ Written([state EXCEPT ![Layer].seen = run.target, ![Layer].loaded = TRUE,
                             ![Layer].success = run.age])
    /\ run' = Onward
    /\ UNCHANGED <<published, nOutside>>

\* load.py: the layer's state, with the instant it is written, and then the run.
RecordState ==
    /\ run.pc = "record"
    /\ outside' = outside \union {Layer}
    /\ Written([state EXCEPT ![Layer].seen = run.target, ![Layer].loaded = TRUE,
                             ![Layer].success = 0])
    /\ run' = [run EXCEPT !.pc = "end"]
    /\ UNCHANGED <<published, nOutside>>

FinishLoad ==
    /\ run.pc = "end"
    /\ outside' = outside
    /\ Written([state EXCEPT ![Layer].pulled = run.target])
    /\ run' = NoRun
    /\ UNCHANGED <<published, nOutside>>

\* A layer fails and the run goes on, or the run is killed.
RunFails ==
    /\ run.pc # "idle"
    /\ run' \in {NoRun, Onward}
    /\ UNCHANGED <<published, state, outside, nOutside, req>>

\* Mutant of Older: what never happened ages too.
OlderAlways(age) == age + 1

Older(age) == IF age = Never THEN Never ELSE age + 1

\* A tick is longer than a request, which is not under way when it passes.
Tick ==
    /\ req.at = 0
    /\ run.pc # "idle" => run.age < MaxRun
    /\ \A l \in CURRENCY_LAYERS : state[l].polled # Oldest /\ state[l].success # Oldest
    /\ state' = [l \in CURRENCY_LAYERS |->
                   [state[l] EXCEPT !.polled = Older(@), !.success = Older(@)]]
    /\ run' = IF run.pc = "idle" THEN run ELSE [run EXCEPT !.age = @ + 1]
    /\ UNCHANGED <<published, outside, nOutside, req>>

--------------------------------------------------------------------------------
(* The request. *)

\* A page asks for the freshness of a mirror that is ready (the readiness is in
\* Readers).
Begin ==
    /\ req.at = 0
    /\ \A l \in CURRENCY_LAYERS : state[l].loaded
    /\ req' = [NoRequest EXCEPT !.at = 1, !.lagged = Lagging(state), !.outside = outside]
    /\ UNCHANGED <<published, state, outside, run, nOutside>>

ReadClock(statement, l) ==
    CASE statement = "state" ->
           [req EXCEPT !.at = @ + 1,
                       !.clocks[l] = [state[l] EXCEPT !.pulled = req.clocks[l].pulled]]
      [] statement = "pulled" ->
           [req EXCEPT !.at = @ + 1, !.clocks[l].pulled = state[l].pulled]

ReadOn ==
    /\ req.at \in 1..Len(ClockReads)
    /\ \E l \in CURRENCY_LAYERS, statement \in {"state", "pulled"} :
          /\ ClockReads[req.at] = <<statement, l>>
          /\ req' = ReadClock(statement, l)
    /\ UNCHANGED <<published, state, outside, run, nOutside>>

Answer ==
    /\ req.at = Len(ClockReads) + 1
    /\ req' = NoRequest
    /\ UNCHANGED <<published, state, outside, run, nOutside>>

--------------------------------------------------------------------------------
(* What is answered. *)

\* _extreme(..., min): the earliest instant, so the oldest age, of those there are.
Earliest(ages) == IF ages \ {Never} = {} THEN Never ELSE Max(ages \ {Never})

\* Mutant of Overdue: a success since the due time is not looked for.
OverdueByDueTime(clocks) ==
    LET polled == Earliest({clocks[l].polled : l \in CURRENCY_LAYERS})
    IN  polled # Never /\ polled > Interval + NEXT_UPDATE_GRACE_PERIOD

\* _next_update_state: the due time, Interval after the earliest poll, has passed by
\* the grace period, and the earliest success is not at or after it.
Overdue(clocks) ==
    LET polled == Earliest({clocks[l].polled : l \in CURRENCY_LAYERS})
        success == Earliest({clocks[l].success : l \in CURRENCY_LAYERS})
        succeeded_since_due == success # Never /\ success + Interval <= polled
    IN  /\ polled # Never
        /\ polled > Interval + NEXT_UPDATE_GRACE_PERIOD
        /\ ~succeeded_since_due

\* Mutant of BehindReason: an overdue sync is still measured by its last poll.
BehindReasonOfLastPoll(clocks) ==
    IF \E l \in CURRENCY_LAYERS : BehindSource(clocks[l]) THEN "HRM has published"
    ELSE "HRM has not published"

\* _behind_reason: whose limit a lag is.
BehindReason(clocks) ==
    IF \E l \in CURRENCY_LAYERS : BehindSource(clocks[l]) THEN "HRM has published"
    ELSE IF Overdue(clocks) THEN "cannot tell"
    ELSE "HRM has not published"

--------------------------------------------------------------------------------

Next ==
    \/ \E l \in CURRENCY_LAYERS : Publish(l)
    \/ StartRun
    \/ \E i \in 1..Len(SYNC_ORDER), pc \in {"finish", "record"} : StartOutside(i, pc)
    \/ PollLayer \/ FinishReload \/ TouchLayer
    \/ RecordState \/ FinishLoad
    \/ RunFails
    \/ Tick
    \/ Begin \/ ReadOn \/ Answer

Spec == Init /\ [][Next]_vars

--------------------------------------------------------------------------------

Answered == req.at = Len(ClockReads) + 1

\* _next_update_state, whose due time and success are the earliest of different
\* layers: when it says that the sync is overdue, some layer really has had no
\* success within the grace period.
OverdueMeansLate ==
    Answered /\ Overdue(req.clocks) =>
        \E l \in CURRENCY_LAYERS : req.clocks[l].success > NEXT_UPDATE_GRACE_PERIOD

\* _behind_reason: a lag is put down to HRM's schedule only while every layer was
\* polled within the interval and its grace, or some layer has been loaded outside
\* the schedule since its last poll: that success, with the earliest due time of
\* another layer, hides that the schedule has stopped.
BlameIsJust ==
    Answered /\ BehindReason(req.clocks) = "HRM has not published" /\ req.outside = {} =>
        \A l \in CURRENCY_LAYERS :
            req.clocks[l].polled <= Interval + NEXT_UPDATE_GRACE_PERIOD

\* layer_freshness compares two rows read one after the other: what it calls behind
\* was behind at some moment while it was asked, whatever a run wrote in between.
BehindWasTrue ==
    Answered => \A l \in CURRENCY_LAYERS : BehindSource(req.clocks[l]) => l \in req.lagged

================================================================================
