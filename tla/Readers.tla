--------------------------------- MODULE Readers ---------------------------------
(***************************************************************************)
(* One reader of the mirror at a time, statement by statement, against the    *)
(* runs that write it: the JSON lists, the pinned exports and the readiness   *)
(* of src/app/server.py, and the two reconciliation reports.  A run's steps   *)
(* are those of LayerReload and HandLoad that a reader can see; rows are the  *)
(* version they are of.  The clocks that measure time are in Freshness.       *)
(***************************************************************************)
EXTENDS Naturals, Sequences

CONSTANTS
    MaxVersion,    \* bound: the number of versions a layer publishes
    MaxHandLoads,  \* bound: layers loaded by load.py
    Routes         \* what is asked for

TRACKED_LAYERS == {"requests", "fields", "census"}
CURRENCY_LAYERS == {"requests", "fields"}
SYNC_ORDER == <<"requests", "fields", "census">>

Versions == 0..MaxVersion                           \* 0: no row, or no edit

ASSUME ReaderAssumption ==
    /\ MaxVersion \in Nat \ {0}
    /\ MaxHandLoads \in Nat
    /\ Routes \subseteq {"list", "export", "freshness", "reconcile", "figures"}

VARIABLES
    published,   \* the version of each layer the source serves
    schema,      \* the mirror's structure exists
    rows,        \* the version of the rows in each live Cityworks table
    clock,       \* the edit last seen, and last pulled, of each of them
    loaded,      \* the layers with a full_load_completed_at
    run,         \* the run holding the sync lock
    handLoads,
    req,         \* the request, or report, that is reading or was last answered
    toldReady    \* a reader has been told that the mirror is ready

mirror == <<published, schema, rows, clock, loaded, run, handLoads>>
vars == <<mirror, req, toldReady>>

--------------------------------------------------------------------------------

\* seen: source_last_edit of layer_state.  pulled: last_pulled_source_edit.
Clock == [seen : Versions, pulled : Versions]
NoClock == [seen |-> 0, pulled |-> 0]

NoRun == [pc |-> "idle", at |-> 1, target |-> 0]
Snapshot == [rows : [CURRENCY_LAYERS -> Versions], clock : [CURRENCY_LAYERS -> Clock],
             loaded : SUBSET TRACKED_LAYERS]
Unpinned == [rows |-> [l \in CURRENCY_LAYERS |-> 0],
             clock |-> [l \in CURRENCY_LAYERS |-> NoClock], loaded |-> {}]

\* The statements of each route, in order.  A JSON list reads the selection, the
\* requests and the pivoted attributes; an export reads the mirror's clocks behind
\* them; a report asks the source in between.
Script(route) ==
    CASE route = "list" ->
           <<<<"rows", "fields">>, <<"rows", "requests">>, <<"rows", "fields">>>>
      [] route = "export" ->
           <<<<"rows", "fields">>, <<"rows", "requests">>, <<"rows", "fields">>,
             <<"completed", "all">>, <<"lock", "all">>,
             <<"clocks", "requests">>, <<"clocks", "fields">>>>
      [] route = "freshness" -> <<<<"completed", "all">>, <<"lock", "all">>>>
      [] route = "reconcile" ->
           <<<<"seen", "requests">>, <<"edit", "requests">>, <<"seen", "fields">>,
             <<"edit", "fields">>, <<"live", "fields">>, <<"rows", "fields">>,
             <<"live", "requests">>, <<"rows", "requests">>,
             <<"live", "fields">>, <<"rows", "fields">>>>
      [] route = "figures" ->
           <<<<"seen", "requests">>, <<"edit", "requests">>, <<"seen", "fields">>,
             <<"edit", "fields">>, <<"live", "fields">>, <<"live", "requests">>,
             <<"live", "fields">>,
             <<"rows", "fields">>, <<"rows", "requests">>, <<"rows", "fields">>,
             <<"again", "requests">>, <<"again", "fields">>>>

NoRequest ==
    [route |-> "none", at |-> 1, status |-> "none",
     got |-> <<>>,                 \* the versions of the rows read, in order
     live |-> <<>>,                \* and of those the source served
     clocks |-> [l \in CURRENCY_LAYERS |-> NoClock],
     ready |-> "unasked",
     seen |-> [l \in CURRENCY_LAYERS |-> 0],
     advanced |-> FALSE,           \* the source is ahead of what the mirror last saw
     edits |-> [l \in CURRENCY_LAYERS |-> 0],
     again |-> [l \in CURRENCY_LAYERS |-> 0],
     pinned |-> FALSE, snap |-> Unpinned,
     emptied |-> {},               \* tables emptied behind the pinned snapshot
     locks |-> {},                 \* tables whose TRUNCATE waits for this transaction
     byHand |-> FALSE,             \* load.py has written since it began
     inStep |-> FALSE]             \* the mirror held what the source served, when checked

Statuses == {"none", "reading", "missing", "unavailable", "error"}
Readiness == {"unasked", "pending", "uninitialised", "awaiting_first_load", "loading", "ready"}

Request ==
    [route : Routes \union {"none"}, at : Nat, status : Statuses,
     got : Seq(Versions), live : Seq(Versions), clocks : [CURRENCY_LAYERS -> Clock],
     ready : Readiness, seen : [CURRENCY_LAYERS -> Versions], advanced : BOOLEAN,
     edits : [CURRENCY_LAYERS -> Versions], again : [CURRENCY_LAYERS -> Versions],
     pinned : BOOLEAN, snap : Snapshot, emptied : SUBSET CURRENCY_LAYERS,
     locks : SUBSET CURRENCY_LAYERS, byHand : BOOLEAN, inStep : BOOLEAN]

TypeOK ==
    /\ published \in [CURRENCY_LAYERS -> 1..MaxVersion]
    /\ schema \in BOOLEAN
    /\ rows \in [CURRENCY_LAYERS -> Versions]
    /\ clock \in [CURRENCY_LAYERS -> Clock]
    /\ loaded \subseteq TRACKED_LAYERS
    /\ run \in [pc : {"idle", "schema", "poll", "swap", "finish", "touch"},
                at : 1..Len(SYNC_ORDER), target : Versions]
    /\ handLoads \in 0..MaxHandLoads
    /\ req \in Request
    /\ toldReady \in BOOLEAN

Init ==
    /\ published = [l \in CURRENCY_LAYERS |-> 1]
    /\ schema = FALSE
    /\ rows = [l \in CURRENCY_LAYERS |-> 0]
    /\ clock = [l \in CURRENCY_LAYERS |-> NoClock]
    /\ loaded = {}
    /\ run = NoRun
    /\ handLoads = 0
    /\ req = NoRequest
    /\ toldReady = FALSE

--------------------------------------------------------------------------------
(* Those who write: the source, runs and load.py. *)

Publish(l) ==
    /\ published[l] < MaxVersion
    /\ published' = [published EXCEPT ![l] = @ + 1]
    /\ UNCHANGED <<schema, rows, clock, loaded, run, handLoads, req, toldReady>>

\* The lock is taken, and the schema applied under it.
TakeLock ==
    /\ run.pc = "idle"
    /\ run' = [NoRun EXCEPT !.pc = "schema"]
    /\ UNCHANGED <<published, schema, rows, clock, loaded, handLoads, req, toldReady>>

ApplySchema ==
    /\ run.pc = "schema"
    /\ schema' = TRUE
    /\ run' = [run EXCEPT !.pc = "poll"]
    /\ UNCHANGED <<published, rows, clock, loaded, handLoads, req, toldReady>>

\* Mutant of Onward: the run does not end with its last layer.
OnwardPastTheLast == [pc |-> "poll", at |-> run.at + 1, target |-> 0]

\* The layer after this one, or the end of the run and its lock.
Onward ==
    IF run.at < Len(SYNC_ORDER) THEN [pc |-> "poll", at |-> run.at + 1, target |-> 0]
    ELSE NoRun

PollLayer ==
    LET l == SYNC_ORDER[run.at] IN
    /\ run.pc = "poll" /\ l \in CURRENCY_LAYERS
    /\ clock' = [clock EXCEPT ![l].seen = published[l]]
    /\ run' = IF published[l] > clock[l].pulled
              THEN [run EXCEPT !.pc = "swap", !.target = published[l]]
              ELSE Onward
    /\ UNCHANGED <<published, schema, rows, loaded, handLoads, req, toldReady>>

\* The live rows are replaced, the newer ones of an edit missed by the poll included;
\* an open snapshot that is older than this sees the table empty from now on.
Replace(l) ==
    /\ \E v \in run.target..published[l] : rows' = [rows EXCEPT ![l] = v]
    /\ req' = IF req.pinned /\ req.status = "reading"
              THEN [req EXCEPT !.emptied = @ \union {l}] ELSE req

\* Mutant of SwapIn: the live table is truncated without waiting for its readers.
SwapInAtOnce ==
    LET l == SYNC_ORDER[run.at] IN
    /\ run.pc = "swap"
    /\ Replace(l)
    /\ run' = [run EXCEPT !.pc = "finish"]
    /\ UNCHANGED <<published, schema, clock, loaded, handLoads, toldReady>>

\* TRUNCATE waits for every transaction that has read the table.
SwapIn ==
    LET l == SYNC_ORDER[run.at] IN
    /\ run.pc = "swap"
    /\ l \notin req.locks
    /\ Replace(l)
    /\ run' = [run EXCEPT !.pc = "finish"]
    /\ UNCHANGED <<published, schema, clock, loaded, handLoads, toldReady>>

FinishReload ==
    LET l == SYNC_ORDER[run.at] IN
    /\ run.pc = "finish"
    /\ clock' = [clock EXCEPT ![l].pulled = run.target]
    /\ run' = [run EXCEPT !.pc = "touch"]
    /\ UNCHANGED <<published, schema, rows, loaded, handLoads, req, toldReady>>

TouchLayer ==
    LET l == SYNC_ORDER[run.at] IN
    /\ run.pc = "touch"
    /\ clock' = [clock EXCEPT ![l].seen = run.target]
    /\ loaded' = loaded \union {l}
    /\ run' = Onward
    /\ UNCHANGED <<published, schema, rows, handLoads, req, toldReady>>

\* The census areas, whose rows and clocks none of these routes reads, in one step.
LoadCensus ==
    /\ run.pc = "poll" /\ SYNC_ORDER[run.at] = "census"
    /\ loaded' = loaded \union {"census"}
    /\ run' = Onward
    /\ UNCHANGED <<published, schema, rows, clock, handLoads, req, toldReady>>

\* A layer fails and the run goes on, or the run is killed and its lock is free.
RunFails ==
    /\ run.pc # "idle"
    /\ run' \in {NoRun} \union (IF run.pc = "schema" THEN {} ELSE {Onward})
    /\ UNCHANGED <<published, schema, rows, clock, loaded, handLoads, req, toldReady>>

\* load.py of one layer, upserted into the live table under the readers' eyes.
LoadByHand(l) ==
    /\ run.pc = "idle"
    /\ handLoads < MaxHandLoads
    /\ handLoads' = handLoads + 1
    /\ schema' = TRUE
    /\ rows' = [rows EXCEPT ![l] = published[l]]
    /\ clock' = [clock EXCEPT ![l] = [seen |-> published[l], pulled |-> published[l]]]
    /\ loaded' = loaded \union {l}
    /\ req' = [req EXCEPT !.byHand = (req.status = "reading")]
    /\ UNCHANGED <<published, run, toldReady>>

--------------------------------------------------------------------------------
(* What one statement reads. *)

\* Mutant of PinSnapshot: the export reads under READ COMMITTED, as the lists do.
PinNothing(r) == r

\* An export's transaction takes its snapshot at the first query.
PinSnapshot(r) ==
    IF r.route = "export" /\ ~r.pinned
    THEN [r EXCEPT !.pinned = TRUE, !.snap = [rows |-> rows, clock |-> clock, loaded |-> loaded]]
    ELSE r

\* The rows of a table as the reader's transaction sees them, and its clocks.
VisibleRows(r, l) ==
    IF ~r.pinned THEN rows[l] ELSE IF l \in r.emptied THEN 0 ELSE r.snap.rows[l]
VisibleClock(r, l) == IF r.pinned THEN r.snap.clock[l] ELSE clock[l]
VisibleLoads(r) == IF r.pinned THEN r.snap.loaded ELSE loaded

\* A table that has been read stays locked until the connection is closed.
ReadTable(r, l) ==
    [r EXCEPT !.got = Append(@, VisibleRows(r, l)), !.locks = @ \union {l}]

\* mirror_readiness, in two statements: the completed loads ...
Completed(r) ==
    [r EXCEPT !.ready = IF ~schema THEN "uninitialised"
                        ELSE IF TRACKED_LAYERS \subseteq VisibleLoads(r) THEN "ready"
                        ELSE "pending"]

\* Mutant of AskLock: loading is whenever a run is under way.
AskLockFirst(r) ==
    [r EXCEPT !.ready = IF run.pc # "idle" THEN "loading"
                        ELSE IF @ = "pending" THEN "awaiting_first_load" ELSE @]

\* ... and, unless they are all there, whether another session holds the lock now.
\* pg_locks is no snapshot: an export too sees the lock as it is.
AskLock(r) ==
    [r EXCEPT !.ready = IF @ # "pending" THEN @
                        ELSE IF run.pc # "idle" THEN "loading" ELSE "awaiting_first_load"]

\* layer_freshness: the edit last seen and the one last pulled (Freshness has its two
\* statements apart).
ReadClock(r, l) == [r EXCEPT !.clocks[l] = VisibleClock(r, l)]

\* reconcile.freshness: the mirror's edit, then the source's own.
ReadSeen(r, l) == [r EXCEPT !.seen[l] = clock[l].seen]
AskEdit(r, l) ==
    [r EXCEPT !.edits[l] = published[l],
              !.advanced = @ \/ (r.seen[l] # 0 /\ published[l] > r.seen[l]),
              !.seen[l] = 0,
              !.inStep = \A k \in CURRENCY_LAYERS : rows[k] = published[k]]
AskEditAgain(r, l) == [r EXCEPT !.again[l] = published[l], !.locks = {}]
FetchLive(r, l) == [r EXCEPT !.live = Append(@, published[l])]

Statement(r, s) ==
    LET l == s[2] IN
    CASE s[1] = "rows" -> ReadTable(r, l)
      [] s[1] = "completed" -> Completed(r)
      [] s[1] = "lock" -> AskLock(r)
      [] s[1] = "clocks" -> ReadClock(r, l)
      [] s[1] = "seen" -> ReadSeen(r, l)
      [] s[1] = "edit" -> AskEdit(r, l)
      [] s[1] = "live" -> FetchLive(r, l)
      [] s[1] = "again" -> AskEditAgain(r, l)

\* The statements that need no table of the mirror's.
Tableless(s) == s[1] \in {"completed", "edit", "live", "again"}

--------------------------------------------------------------------------------
(* A request from its first statement to its answer. *)

Begin(route) ==
    /\ req.status = "none"
    /\ req' = [NoRequest EXCEPT !.route = route, !.status = "reading"]
    /\ UNCHANGED <<mirror, toldReady>>

\* A selection of no calls ends a derivation: nothing else of it is read.
NextAt(r, r1) ==
    IF r.route \in {"list", "export", "figures"} /\ r.got = <<>> /\ r1.got = <<0>>
    THEN r.at + 3 ELSE r.at + 1

\* run_reconciliation compares nothing when the source has published since.
Aborted(r) == r.route = "figures" /\ r.advanced /\ r.live = <<>>

AllRead(r) ==
    /\ r.status = "reading"
    /\ r.at > Len(Script(r.route)) \/ (r.at = 5 /\ Aborted(r))

ReadOn ==
    /\ req.status = "reading"
    /\ ~AllRead(req)
    /\ LET s == Script(req.route)[req.at]
           r == Statement(PinSnapshot(req), s)
       IN  req' = IF schema \/ Tableless(s)
                  THEN [r EXCEPT !.at = NextAt(req, r),
                                 !.status = IF r.route = "freshness" /\ r.ready = "uninitialised"
                                            THEN "unavailable" ELSE @]
                  ELSE [NoRequest EXCEPT !.route = req.route,
                                         !.status = IF req.route \in {"reconcile", "figures"}
                                                    THEN "error" ELSE "missing"]
    /\ UNCHANGED <<mirror, toldReady>>

\* A route that met no table asks for the readiness again, on a connection of its
\* own: a structure that is still not there is "not available yet", one that has
\* been created meanwhile leaves the error as it was.
MissingTable ==
    /\ req.status = "missing"
    /\ req' = [req EXCEPT !.status = IF schema THEN "error" ELSE "unavailable",
                          !.ready = IF schema THEN @ ELSE "uninitialised"]
    /\ UNCHANGED <<mirror, toldReady>>

\* The connection is closed, and what was read is answered.
Answer ==
    /\ AllRead(req) \/ req.status \in {"unavailable", "error"}
    /\ toldReady' = (toldReady \/ req.ready = "ready")
    /\ req' = NoRequest
    /\ UNCHANGED mirror

--------------------------------------------------------------------------------
(* What is answered. *)

\* The verdict of a report: what the two sides read differs.
Diverged(r) == r.got # r.live

\* Mutant of RepublishWarning: only the layer of the calls is looked at again.
RepublishWarningOfRequests(r) == r.again["requests"] # r.edits["requests"]

\* republish_warning: the source's edits before the run against those after it.
RepublishWarning(r) == \E l \in CURRENCY_LAYERS : r.again[l] # r.edits[l]

--------------------------------------------------------------------------------

Next ==
    \/ \E l \in CURRENCY_LAYERS : Publish(l)
    \/ TakeLock \/ ApplySchema
    \/ PollLayer \/ SwapIn \/ FinishReload \/ TouchLayer
    \/ LoadCensus
    \/ RunFails
    \/ \E l \in CURRENCY_LAYERS : LoadByHand(l)
    \/ \E route \in Routes : Begin(route)
    \/ ReadOn
    \/ MissingTable
    \/ Answer

Spec == Init /\ [][Next]_vars

--------------------------------------------------------------------------------

\* mirror_readiness: once a reader has been told that the mirror is ready, none is
\* told that it is being loaded, is awaited or does not exist: not by a later reload,
\* not by one that fails, not in an export pinned behind it.
ReadinessNeverRetreats ==
    toldReady => ~(req.ready \in {"loading", "awaiting_first_load", "uninitialised"})

\* A list is derived from a selection, the requests, and the attributes of the calls
\* selected, in separate statements of one READ COMMITTED transaction.  No reload
\* comes between the selection and the attributes: its TRUNCATE waits for the
\* transaction (a load by hand only upserts, and does not).
SelectionAndAttributesAgree ==
    AllRead(req) /\ Len(req.got) = 3 /\ req.route = "list" /\ ~req.byHand =>
        req.got[1] = req.got[3]

\* _pin_snapshot: the rows an export lists and the clocks it states beside them are
\* of one state of the mirror, but for a table a reload emptied behind the snapshot
\* before the export had read it, which it lists as empty.
ExportOfOneState ==
    AllRead(req) /\ req.route = "export" =>
        /\ \A l \in CURRENCY_LAYERS : req.clocks[l] = req.snap.clock[l]
        /\ \A i \in 1..Len(req.got) :
             LET l == Script("export")[i][2] IN
             req.got[i] = req.snap.rows[l] \/ (req.got[i] = 0 /\ l \in req.emptied)

\* reconcile_figures' second look at the source: when the mirror held what the source
\* served as the first one was taken, a comparison that diverges is warned about.
\* reconcile.py looks only once, and there the source has moved since.
DivergenceExplained ==
    AllRead(req) /\ req.inStep /\ Diverged(req) /\ ~Aborted(req) =>
        IF req.route = "figures" THEN RepublishWarning(req)
        ELSE \E l \in CURRENCY_LAYERS : published[l] # req.edits[l]

================================================================================
