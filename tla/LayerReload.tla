------------------------------ MODULE LayerReload ------------------------------
(***************************************************************************)
(* One mirrored layer: src/mirror/sync.py's poll, reconcile and full reload, *)
(* with the page-by-page fill of src/mirror/load.py it calls.  Every action   *)
(* is one committed step (or one request to the source followed by the        *)
(* commit that records it), so a crash can fall between any two of them and   *)
(* the source can publish between any two of them.  Only one process runs     *)
(* these steps at a time: it holds the sync lock (module SyncLock).           *)
(***************************************************************************)
EXTENDS Naturals, FiniteSets

CONSTANTS
    MaxVersion,  \* bound: the number of versions the source ever publishes
    PageCount,   \* PageCount[v]: pages version v is served in, the last one short
    MaxFaults,   \* bound: crashes and failed requests or statements, together
    Modes,       \* how runs are started: the worker's sync, or sync.py's options
    AlwaysDated  \* the source's metadata always carries a lastEditDate

Versions == 1..MaxVersion
NoEdit == 0      \* None: a lastEditDate that is absent, or was never recorded
Edits == Versions \union {NoEdit}

ASSUME ReloadAssumption ==
    /\ MaxVersion \in Nat \ {0}
    /\ PageCount \in [Versions -> Nat \ {0}]
    /\ MaxFaults \in Nat
    /\ Modes \subseteq {"auto", "force", "poll_only", "reload"}
    /\ AlwaysDated \in BOOLEAN

VARIABLES
    published,   \* the version the source serves
    held,        \* the live table: which versions its rows are from, and how many pages of rows
    staged,      \* the staging table with its load_progress row
    pulled,      \* source_last_edit of the latest ok pull in sync_runs
    state,       \* the layer's row of layer_state
    retained,    \* layer_versions with their samples
    anomalies,   \* sync_anomalies
    pc,          \* where the process holding the lock is
    job,         \* its local variables
    faults       \* how many faults there have been

mirrorVars == <<held, staged, pulled, state, retained, anomalies>>
vars == <<published, mirrorVars, pc, job, faults>>

--------------------------------------------------------------------------------

NoStaging == [table |-> FALSE, target |-> NoEdit, offset |-> 0, from |-> {}]
EmptyStaging(target) == [table |-> TRUE, target |-> target, offset |-> 0, from |-> {}]
NoJob == [mode |-> "none", target |-> NoEdit, count |-> 0]

\* Where each request or commit of a run happens.
Filling == {"count", "fetch", "ended"}
Swapped == {"check", "retain", "finish", "touch"}
Steps == {"idle", "reconcile", "begin", "prepare", "swap"} \union Filling \union Swapped

LiveTable == [from : SUBSET Versions, rows : Nat]
StagingTable == [table : BOOLEAN, target : Edits, offset : Nat, from : SUBSET Versions]
LayerState == [observed : Edits, loaded : BOOLEAN, ok : BOOLEAN]
LayerVersion == [edit : Edits, from : SUBSET Versions]
Job == [mode : Modes \union {"none"}, target : Edits, count : Nat]
Anomaly ==
    [kind : {"count_divergence", "source_published_during_reload"},
     version_read : Edits, observed_after : Edits]

TypeOK ==
    /\ published \in Versions
    /\ held \in LiveTable
    /\ staged \in StagingTable
    /\ pulled \in Edits
    /\ state \in LayerState
    /\ retained \subseteq LayerVersion
    /\ anomalies \subseteq Anomaly
    /\ pc \in Steps
    /\ job \in Job
    /\ faults \in 0..MaxFaults

\* An empty mirror in front of a source that has published once.
Init ==
    /\ published = 1
    /\ held = [from |-> {}, rows |-> 0]
    /\ staged = NoStaging
    /\ pulled = NoEdit
    /\ state = [observed |-> NoEdit, loaded |-> FALSE, ok |-> FALSE]
    /\ retained = {}
    /\ anomalies = {}
    /\ pc = "idle"
    /\ job = NoJob
    /\ faults = 0

\* The source replaces what it serves, whatever the mirror is doing.
Publish ==
    /\ published < MaxVersion
    /\ published' = published + 1
    /\ UNCHANGED <<mirrorVars, pc, job, faults>>

--------------------------------------------------------------------------------
(* The poll. *)

\* Mutant of EditDates: the epoch milliseconds are stored unconverted.
EditDatesInMilliseconds == {published * 1000}

\* What a metadata request can answer.
EditDates == {published} \union (IF AlwaysDated THEN {} ELSE {NoEdit})

\* Mutant of Baseline: an advance is measured against the last poll.
BaselineIsLastPoll == state.observed

\* The timestamp an advance is measured against: the last successful pull's, or,
\* for a layer that has completed a load none recorded, the one in layer_state.
Baseline ==
    IF pulled # NoEdit THEN pulled
    ELSE IF state.loaded THEN state.observed ELSE NoEdit

\* NoEdit is below every edit, so one comparison covers "observed is not None and
\* (baseline is None or observed > baseline)".
Advanced(observed) == observed > Baseline

\* Whether sync() reloads the layer after the poll, or only reconciles it.
Pulls(mode, observed) == mode # "poll_only" /\ (mode = "force" \/ Advanced(observed))

\* One metadata request, recorded in layer_state.
Poll(mode) ==
    /\ pc = "idle"
    /\ mode \in Modes \ {"reload"}
    /\ \E observed \in EditDates :
         LET pull == Pulls(mode, observed)
         IN  /\ state' = [state EXCEPT !.observed = observed, !.ok = TRUE]
             /\ job' = [mode |-> mode, target |-> IF pull THEN observed ELSE NoEdit,
                         count |-> 0]
             /\ pc' = IF pull THEN "begin" ELSE "reconcile"
    /\ UNCHANGED <<published, held, staged, pulled, retained, anomalies, faults>>

\* The metadata request fails: the attempt is recorded, nothing else is.
PollFails ==
    /\ pc = "idle"
    /\ Modes \ {"reload"} # {}
    /\ faults < MaxFaults
    /\ faults' = faults + 1
    /\ state' = [state EXCEPT !.ok = FALSE]
    /\ UNCHANGED <<published, held, staged, pulled, retained, anomalies, pc, job>>

CountDivergence(target) ==
    [kind |-> "count_divergence", version_read |-> target, observed_after |-> NoEdit]

\* On a run that pulls nothing, compare the counts; a divergence is only recorded.
Reconcile ==
    /\ pc = "reconcile"
    /\ state' = [state EXCEPT !.ok = TRUE]
    /\ anomalies' = IF held.rows = PageCount[published] THEN anomalies
                    ELSE anomalies \union {CountDivergence(job.target)}
    /\ pc' = "idle"
    /\ job' = NoJob
    /\ UNCHANGED <<published, held, staged, pulled, retained, faults>>

--------------------------------------------------------------------------------
(* The reload. *)

\* sync.py --reload calls full_reload with no poll before it.
ReloadOnDemand ==
    /\ pc = "idle"
    /\ "reload" \in Modes
    /\ pc' = "begin"
    /\ job' = [mode |-> "reload", target |-> NoEdit, count |-> 0]
    /\ UNCHANGED <<published, mirrorVars, faults>>

\* Retention of a version's identity: a version that is already named is left
\* alone, and an empty table has none.
Retain(edit) ==
    retained' = IF held.rows = 0 \/ \E r \in retained : r.edit = edit
                THEN retained
                ELSE retained \union {[edit |-> edit, from |-> held.from]}

\* Mutant of BeginReload: the outgoing version is retained under the incoming edit.
BeginReloadNamesIncoming ==
    /\ pc = "begin"
    /\ \E target \in IF job.target # NoEdit THEN {job.target} ELSE EditDates :
         /\ job' = [job EXCEPT !.target = target]
         /\ Retain(target)
    /\ pc' = "prepare"
    /\ UNCHANGED <<published, held, staged, pulled, state, anomalies, faults>>

\* Settle the target (asking the source when the caller gave none) and retain the
\* version about to be replaced under the last pulled timestamp.
BeginReload ==
    /\ pc = "begin"
    /\ \E target \in IF job.target # NoEdit THEN {job.target} ELSE EditDates :
         job' = [job EXCEPT !.target = target]
    /\ Retain(Baseline)
    /\ pc' = "prepare"
    /\ UNCHANGED <<published, held, staged, pulled, state, anomalies, faults>>

\* Mutant of CanResume: any staging table left behind is continued.
CanResumeAny(target) == staged.table

\* An interrupted fill is continued only towards the version it began on.
CanResume(target) == staged.table /\ staged.target = target

PrepareStaging ==
    /\ pc = "prepare"
    /\ staged' = IF CanResume(job.target) THEN staged
                 ELSE EmptyStaging(job.target)
    /\ pc' = "count"
    /\ UNCHANGED <<published, held, pulled, state, retained, anomalies, job, faults>>

CountSource ==
    /\ pc = "count"
    /\ job' = [job EXCEPT !.count = PageCount[published]]
    /\ pc' = "fetch"
    /\ UNCHANGED <<published, mirrorVars, faults>>

\* A page of whatever the source serves now, committed with the offset after it.
\* Past the end the page is empty; a short or empty page ends the fill.
FetchPage ==
    /\ pc = "fetch"
    /\ staged' = IF staged.offset < PageCount[published]
                 THEN [staged EXCEPT !.offset = @ + 1, !.from = @ \union {published}]
                 ELSE staged
    /\ pc' = IF staged.offset + 1 < PageCount[published] THEN "fetch" ELSE "ended"
    /\ UNCHANGED <<published, held, pulled, state, retained, anomalies, job, faults>>

PublishedDuring(target, after) ==
    [kind |-> "source_published_during_reload",
     version_read |-> target, observed_after |-> after]

\* The source's clock is read again once the pages are exhausted.
EndFill ==
    /\ pc = "ended"
    /\ \E after \in EditDates :
         anomalies' = IF job.target # NoEdit /\ after > job.target
                      THEN anomalies \union {PublishedDuring(job.target, after)}
                      ELSE anomalies
    /\ pc' = "swap"
    /\ UNCHANGED <<published, held, staged, pulled, state, retained, job, faults>>

\* Mutant of SwapIn: the emptying of the live table commits on its own, and the
\* refill never follows.
SwapInTruncates ==
    /\ pc = "swap"
    /\ held' = [from |-> {}, rows |-> 0]
    /\ staged' = NoStaging
    /\ pc' = "check"
    /\ UNCHANGED <<published, pulled, state, retained, anomalies, job, faults>>

\* One transaction empties the live table, refills it and drops the staging table.
SwapIn ==
    /\ pc = "swap"
    /\ held' = [from |-> staged.from, rows |-> staged.offset]
    /\ staged' = NoStaging
    /\ pc' = "check"
    /\ UNCHANGED <<published, pulled, state, retained, anomalies, job, faults>>

\* The count taken before the fill is compared after the swap; reported only.
CheckCount ==
    /\ pc = "check"
    /\ anomalies' = IF held.rows = job.count THEN anomalies
                    ELSE anomalies \union {CountDivergence(job.target)}
    /\ pc' = "retain"
    /\ UNCHANGED <<published, held, staged, pulled, state, retained, job, faults>>

RetainLoaded ==
    /\ pc = "retain"
    /\ Retain(job.target)
    /\ pc' = "finish"
    /\ UNCHANGED <<published, held, staged, pulled, state, anomalies, job, faults>>

\* Mutant of FinishRun: the reload is recorded against the edit its end observed.
FinishRunWithLastEdit ==
    /\ pc = "finish"
    /\ pulled' = published
    /\ pc' = "touch"
    /\ UNCHANGED <<published, held, staged, state, retained, anomalies, job, faults>>

\* The run's row becomes the newest ok pull.  A row without a timestamp is no pull
\* to last_pulled_source_edit.
FinishRun ==
    /\ pc = "finish"
    /\ pulled' = IF job.target # NoEdit THEN job.target ELSE pulled
    /\ pc' = "touch"
    /\ UNCHANGED <<published, held, staged, state, retained, anomalies, job, faults>>

\* A separate transaction records the completed load in layer_state.
TouchLayer ==
    /\ pc = "touch"
    /\ state' = [observed |-> job.target, loaded |-> TRUE, ok |-> TRUE]
    /\ pc' = "idle"
    /\ job' = NoJob
    /\ UNCHANGED <<published, held, staged, pulled, retained, anomalies, faults>>

--------------------------------------------------------------------------------
(* Faults. *)

\* full_reload records an error inside the fill; sync() records every other.
FailureRecorded == job.mode # "reload" \/ pc \in Filling

\* A request or a statement raises.  What was committed stands.
Raise ==
    /\ pc # "idle"
    /\ faults < MaxFaults
    /\ faults' = faults + 1
    /\ state' = IF FailureRecorded THEN [state EXCEPT !.ok = FALSE] ELSE state
    /\ pc' = "idle"
    /\ job' = NoJob
    /\ UNCHANGED <<published, held, staged, pulled, retained, anomalies>>

\* The process is killed, or loses the database: nothing more is recorded.
Crash ==
    /\ pc # "idle"
    /\ faults < MaxFaults
    /\ faults' = faults + 1
    /\ pc' = "idle"
    /\ job' = NoJob
    /\ UNCHANGED <<published, mirrorVars>>

--------------------------------------------------------------------------------

\* The steps of a run once it has started.
Run ==
    \/ Reconcile
    \/ BeginReload \/ PrepareStaging \/ CountSource \/ FetchPage \/ EndFill
    \/ SwapIn \/ CheckCount \/ RetainLoaded \/ FinishRun \/ TouchLayer

Next ==
    \/ Publish
    \/ \E mode \in Modes : Poll(mode)
    \/ PollFails
    \/ ReloadOnDemand
    \/ Run
    \/ Raise
    \/ Crash

Spec == Init /\ [][Next]_vars

\* A started run goes on (nothing in it waits for anything but the source and the
\* database), and the worker polls again and again: its loop has no exit and its
\* longest sleep is a day.  Publishing, options given by hand and faults are not fair.
FairSpec == Spec /\ WF_vars(Run) /\ SF_vars(Poll("auto"))

--------------------------------------------------------------------------------
(* What a reader of the mirror, and the next poll, rely on. *)

\* The version recorded as pulled is never ahead of a row the live table holds.
\* last_pulled_source_edit is what every poll compares against, so a row older than
\* it would be a publish the mirror never fetches.
BaselineNotAhead == \A v \in held.from : Baseline <= v

\* A whole, single version is in the table (full_reload's swap_in of an exhausted
\* fill: no page lost or repeated by the interruptions the fill survived) ...
HeldWhole ==
    \/ held = [from |-> {}, rows |-> 0]
    \/ \E v \in Versions : held = [from |-> {v}, rows |-> PageCount[v]]

\* ... or else the source published under the fill, and full_reload had recorded
\* the anomaly naming that span before swap_in let the rows through.
SpliceReported ==
    \E a \in anomalies :
        /\ a.kind = "source_published_during_reload"
        /\ \A v \in held.from : a.version_read <= v /\ v <= a.observed_after

HeldWholeOrReported == HeldWhole \/ SpliceReported

\* A version retained for the renumbering question (retain_version) is never named
\* by an edit newer than the rows its sample was taken from.
RetainedNameNotAhead ==
    \A r \in retained : \A v \in r.from : r.edit <= v

\* Once the source stops publishing and faults stop, the worker's polls bring the
\* live table to the source's version, whole, and leave the layer marked healthy,
\* whatever an interrupted fill left in the staging table.
EventuallyCurrent ==
    <>[](/\ held = [from |-> {published}, rows |-> PageCount[published]]
         /\ state.ok)

\* A fresh deployment populates itself: the layer is eventually recorded as having
\* completed a load, which readiness is read from (status.mirror_readiness).  Not so
\* when a run stops between its last two commits: the pull is on record, so no later
\* poll reloads, and the completed load is not.
EventuallyReady == <>state.loaded

Contract ==
    INSTANCE VersionedCopy WITH source <- published, copy <- held.from, claim <- Baseline

\* The reload implements the promise of VersionedCopy.
ImplementsVersionedCopy == Contract!Spec

================================================================================
