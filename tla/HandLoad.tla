-------------------------------- MODULE HandLoad --------------------------------
(***************************************************************************)
(* src/mirror/load.py run by hand on one layer.  It pages the source straight *)
(* into the live table, under the sync lock, and resumes from the layer's     *)
(* load_progress row; between two commands the worker may reload the layer    *)
(* (module LayerReload, one step here), and the source publishes at any time. *)
(* The source numbers the rows of a version 1..N, anew on each publish.       *)
(***************************************************************************)
EXTENDS Naturals, FiniteSets

CONSTANTS
    MaxVersion,   \* bound: the number of versions the source ever publishes
    RowCount,     \* RowCount[v]: rows of version v
    PageSizes,    \* --page-size, the layer's own included
    MaxRestarts,  \* bound: commands given --restart
    MaxFaults     \* bound: crashes and failed requests or statements, together

Versions == 1..MaxVersion
NoEdit == 0       \* None, and "no row" in the live table

ASSUME HandLoadAssumption ==
    /\ MaxVersion \in Nat \ {0}
    /\ RowCount \in [Versions -> Nat \ {0}]
    /\ PageSizes \subseteq Nat \ {0}
    /\ MaxRestarts \in Nat
    /\ MaxFaults \in Nat

ObjectIds == UNION {1..RowCount[v] : v \in Versions}

VARIABLES
    published,   \* the version the source serves
    live,        \* the live table: the version of the row under each object id
    progress,    \* the layer's load_progress row
    pulled,      \* source_last_edit of the newest ok pull in sync_runs
    state,       \* the layer's row of layer_state
    pc,          \* where the command holding the lock is
    job,         \* its local variables
    result,      \* what the last load reported of itself
    span,        \* the versions served while this progress row was in use
    restarts,
    faults

tables == <<live, progress, pulled, state>>
vars == <<published, tables, pc, job, result, span, restarts, faults>>

--------------------------------------------------------------------------------

Limits == {0, 1}      \* --limit-pages; 0 when it is not given

Progress == [row : BOOLEAN, size : PageSizes \union {0}, offset : Nat]
NoProgress == [row |-> FALSE, size |-> 0, offset |-> 0]
Job == [size : PageSizes \union {0}, limit : Limits, pages : Nat, count : Nat,
        exhausted : BOOLEAN, held : Nat, edit : Versions \union {NoEdit}]
NoJob == [size |-> 0, limit |-> 0, pages |-> 0, count |-> 0, exhausted |-> FALSE,
          held |-> 0, edit |-> NoEdit]
NoResult == [complete |-> FALSE, reconciled |-> FALSE]

TypeOK ==
    /\ published \in Versions
    /\ live \in [ObjectIds -> Versions \union {NoEdit}]
    /\ progress \in Progress
    /\ pulled \in Versions \union {NoEdit}
    /\ state \in [observed : Versions \union {NoEdit}, loaded : BOOLEAN]
    /\ pc \in {"idle", "fetch", "ended", "finish"}
    /\ job \in Job
    /\ result \in [complete : BOOLEAN, reconciled : BOOLEAN]
    /\ span \subseteq Versions
    /\ restarts \in 0..MaxRestarts
    /\ faults \in 0..MaxFaults

Init ==
    /\ published = 1
    /\ live = [i \in ObjectIds |-> NoEdit]
    /\ progress = NoProgress
    /\ pulled = NoEdit
    /\ state = [observed |-> NoEdit, loaded |-> FALSE]
    /\ pc = "idle"
    /\ job = NoJob
    /\ result = NoResult
    /\ span = {}
    /\ restarts = 0
    /\ faults = 0

\* The table a version fills.
Whole(v) == [i \in ObjectIds |-> IF i <= RowCount[v] THEN v ELSE NoEdit]

\* Mutant of StoredCount: the rows this load wrote stand for the rows there are.
RowsLoaded == progress.offset

\* stored_count: every row of the table, whichever load or version left it there.
StoredCount == Cardinality({i \in ObjectIds : live[i] # NoEdit})

Publish ==
    /\ published < MaxVersion
    /\ published' = published + 1
    /\ UNCHANGED <<tables, pc, job, result, span, restarts, faults>>

--------------------------------------------------------------------------------
(* The command. *)

\* Mutant of ProgressOf: a row that exists is put back to its first page.
ProgressOfResets(size, restart) == [row |-> TRUE, size |-> size, offset |-> 0]

\* The progress row a command starts from: dropped first under --restart, else the
\* one there is, with the page size it was created with.
ProgressOf(size, restart) ==
    IF progress.row /\ ~restart THEN progress
    ELSE [row |-> TRUE, size |-> size, offset |-> 0]

\* A resumed offset is refused under another page size, after the row was committed.
SizeDiffers(row, size) == row.size # size /\ row.offset # 0

\* The service's count, then the progress row.
BeginLoad(size, restart, limit) ==
    /\ pc = "idle"
    /\ restart => restarts < MaxRestarts
    /\ restarts' = IF restart THEN restarts + 1 ELSE restarts
    /\ LET row == ProgressOf(size, restart) IN
         /\ progress' = row
         /\ IF SizeDiffers(row, size)
            THEN UNCHANGED <<pc, job>>
            ELSE /\ pc' = "fetch"
                 /\ job' = [NoJob EXCEPT !.size = size, !.limit = limit,
                                         !.count = RowCount[published]]
         /\ span' = IF row.offset = 0 THEN {published} ELSE span \union {published}
    /\ result' = NoResult
    /\ UNCHANGED <<published, live, pulled, state, faults>>

\* The rows of the page at an offset, in the order of the object ids.
Page(v, offset, size) == {i \in 1..RowCount[v] : offset < i /\ i <= offset + size}

\* A page is upserted by object id and committed with the offset after it.  A short
\* page exhausts the layer; --limit-pages stops before that.
FetchPage ==
    /\ pc = "fetch"
    /\ LET rows == Page(published, progress.offset, job.size)
           short == Cardinality(rows) < job.size
           pages == job.pages + 1
       IN  /\ live' = [i \in ObjectIds |-> IF i \in rows THEN published ELSE live[i]]
           /\ progress' = [progress EXCEPT !.offset = @ + Cardinality(rows)]
           /\ job' = [job EXCEPT !.pages = pages, !.exhausted = short]
           /\ pc' = IF short \/ (job.limit > 0 /\ pages >= job.limit) THEN "ended"
                    ELSE "fetch"
    /\ span' = span \union {published}
    /\ UNCHANGED <<published, pulled, state, result, restarts, faults>>

\* Mutant of RecordState: the edit's epoch milliseconds are stored unconverted.
RecordStateInMilliseconds ==
    /\ pc = "ended"
    /\ job' = [job EXCEPT !.held = StoredCount, !.edit = published]
    /\ state' = [observed |-> published * 1000, loaded |-> state.loaded \/ job.exhausted]
    /\ pc' = "finish"
    /\ span' = span \union {published}
    /\ UNCHANGED <<published, live, progress, pulled, result, restarts, faults>>

\* Only now is the source's clock read, and kept as the version of what was loaded.
RecordState ==
    /\ pc = "ended"
    /\ job' = [job EXCEPT !.held = StoredCount, !.edit = published]
    /\ state' = [observed |-> published, loaded |-> state.loaded \/ job.exhausted]
    /\ pc' = "finish"
    /\ span' = span \union {published}
    /\ UNCHANGED <<published, live, progress, pulled, result, restarts, faults>>

\* The run's row: ok, whether or not it was complete or its counts agreed.
FinishRun ==
    /\ pc = "finish"
    /\ pulled' = job.edit
    /\ result' = [complete |-> job.exhausted, reconciled |-> job.held = job.count]
    /\ pc' = "idle"
    /\ job' = NoJob
    /\ UNCHANGED <<published, live, progress, state, span, restarts, faults>>

--------------------------------------------------------------------------------
(* Between commands, and faults. *)

\* What a poll measures an advance against.
Baseline ==
    IF pulled # NoEdit THEN pulled
    ELSE IF state.loaded THEN state.observed ELSE NoEdit

\* The worker polls: an advance is followed by a reload, which replaces the table or
\* fails and leaves only what the poll recorded.
WorkerPolls ==
    /\ pc = "idle"
    /\ \/ /\ published > Baseline
          /\ live' = Whole(published)
          /\ pulled' = published
          /\ state' = [observed |-> published, loaded |-> TRUE]
       \/ /\ state' = [state EXCEPT !.observed = published]
          /\ UNCHANGED <<live, pulled>>
    /\ result' = NoResult
    /\ UNCHANGED <<published, progress, pc, job, span, restarts, faults>>

\* Mutant of Interrupted: the offset of the page that was lost is kept.
InterruptedPastPage ==
    progress' = IF pc = "fetch" THEN [progress EXCEPT !.offset = @ + 1] ELSE progress

\* A page that fails, or is cut off, is rolled back with its offset.
Interrupted == progress' = progress

Stops ==
    /\ pc # "idle"
    /\ faults < MaxFaults
    /\ faults' = faults + 1
    /\ Interrupted
    /\ pc' = "idle"
    /\ job' = NoJob
    /\ UNCHANGED <<published, live, pulled, state, result, span, restarts>>

--------------------------------------------------------------------------------

Next ==
    \/ Publish
    \/ \E size \in PageSizes, restart \in BOOLEAN, limit \in Limits :
          BeginLoad(size, restart, limit)
    \/ FetchPage \/ RecordState \/ FinishRun
    \/ WorkerPolls
    \/ Stops

Spec == Init /\ [][Next]_vars

\* A command goes on by itself, and someone whose load stopped runs it again, under
\* each page size they try, with or without a limit.
FairSpec ==
    /\ Spec
    /\ WF_vars(FetchPage \/ RecordState \/ FinishRun)
    /\ \A size \in PageSizes :
         SF_vars(\E limit \in Limits : BeginLoad(size, FALSE, limit))

--------------------------------------------------------------------------------

\* load.py:3: a load that dies partway resumes at the first page that did not
\* commit.  While the source has not published since the progress row was begun, the
\* rows before the offset are all there, of that version: no interruption, resumption,
\* or reload by the worker in between leaves a gap behind it.
ResumeIsExact ==
    progress.row /\ span = {published} =>
        \A i \in 1..progress.offset : live[i] = published

\* A load that reports itself complete and reconciled, with no publish from its first
\* count to its end, has left the live table one whole version, the one the next poll
\* measures against, whatever rows an earlier version had left in it.
ReconciledMeansWhole ==
    pc = "idle" /\ result.complete /\ result.reconciled =>
        \A v \in Versions : span = {v} => live = Whole(v) /\ Baseline = v

\* load_layer's full_load_completed_at, which readiness is read from: loads that are
\* run again after each stop reach the end of the layer, however many pages each of
\* them is limited to and whichever page size the interrupted one had used.
EventuallyLoaded == <>state.loaded

\* last_pulled_source_edit (sync.py:195): what an advance is measured against is not
\* ahead of the rows, so that a version later than the mirror's is reloaded.  Not so
\* after a load that was limited, resumed behind its end, or overtaken by a publish:
\* it is recorded as a pull of the version the source had at its end.
PulledNotAhead == \A i \in ObjectIds : live[i] # NoEdit => Baseline <= live[i]

================================================================================
