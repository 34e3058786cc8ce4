------------------------------ MODULE MirrorSync -------------------------------
(***************************************************************************)
(* Runs over the three layers, the schedule's and those by hand:              *)
(* src/mirror/sync.py's sync() in each of its modes, and its --reload; with   *)
(* the two products derived after it, the retained lists                 *)
(* (src/mirror/history.py) and the per-type figures                           *)
(* (src/mirror/type_figures.py), and the figures' own command, which takes no *)
(* lock.  A layer's reload is two steps here, the swap and the recording of   *)
(* it; LayerReload has the rest, and shows that what a reload leaves was      *)
(* published at or after the reload's target.                                 *)
(***************************************************************************)
EXTENDS Naturals, Sequences, FiniteSets

CONSTANTS
    MaxVersion,  \* bound: MaxVersion[l] publishes of layer l
    MaxFaults,   \* bound: failed requests, failed derivations and crashes, together
    MaxByHand,   \* bound: computations of the figures started by hand
    Outages,     \* the sets of layers whose service may be down for good
    Selections,  \* the layers a run is asked for: all in order, or those of --layer
    Modes        \* how runs are started: "auto" is the worker's, the rest are options

CITYWORKS == {"service_requests", "custom_fields"}
SYNC_ORDER == <<"service_requests", "custom_fields", "census_areas">>
Layers == CITYWORKS \union {"census_areas"}

NoEdit == 0
Edits == UNION {0..MaxVersion[l] : l \in Layers}
MirrorVersion == [Layers -> Edits]

ASSUME SyncAssumption ==
    /\ MaxVersion \in [Layers -> Nat \ {0}]
    /\ MaxFaults \in Nat
    /\ MaxByHand \in Nat
    /\ Outages \subseteq SUBSET Layers
    /\ Selections \subseteq Seq(Layers) \ {<<>>}
    /\ SYNC_ORDER \in Selections
    /\ "auto" \in Modes
    /\ Modes \subseteq {"auto", "poll_only", "force", "reload"}

VARIABLES
    published,  \* what each layer's service publishes
    down,       \* the layers whose service never answers
    held,       \* the version of the rows in each live table; NoEdit when empty
    pulled,     \* the version of each layer's latest ok pull
    observed,   \* layer_state.source_last_edit of each layer
    lists,      \* the newest of list_snapshots: the mirror version it states, and the
                \* rows it is of
    figures,    \* type_figures: the mirror version each is keyed by, and the rows it is of
    run,        \* the run in progress
    cli,        \* type_figures.py run by hand
    byHand,     \* how many of those there have been
    unasked,    \* history: the layers whose rows came of a reload that no poll asked for,
                \* and that found a newer version than the one on record
    faults

sourceVars == <<published, down>>
mirrorVars == <<held, pulled, observed>>
derivedVars == <<lists, figures>>
vars == <<sourceVars, mirrorVars, derivedVars, run, cli, byHand, unasked, faults>>

Queues == UNION {{SubSeq(s, i, Len(s)) : i \in 1..(Len(s) + 1)} : s \in Selections}
Derived == [version : MirrorVersion, rows : MirrorVersion]
Run ==
    [at : {"idle", "poll", "reconcile", "swap", "record", "lists", "figures"},
     mode : {"auto", "poll_only", "force", "reload"}, queue : Queues,
     target : Edits, errors : SUBSET Layers, pulled : SUBSET Layers]
Cli == [at : {"idle", "compute"}, version : MirrorVersion]

Nowhere == [l \in Layers |-> NoEdit]
NoRun ==
    [at |-> "idle", mode |-> "auto", queue |-> <<>>, target |-> NoEdit,
     errors |-> {}, pulled |-> {}]

TypeOK ==
    /\ published \in [Layers -> Edits \ {NoEdit}]
    /\ down \in Outages
    /\ held \in MirrorVersion
    /\ pulled \in MirrorVersion
    /\ observed \in MirrorVersion
    /\ lists \in Derived
    /\ figures \subseteq Derived
    /\ run \in Run
    /\ cli \in Cli
    /\ byHand \in 0..MaxByHand
    /\ unasked \subseteq Layers
    /\ faults \in 0..MaxFaults

Init ==
    /\ published = [l \in Layers |-> 1]
    /\ down \in Outages
    /\ held = Nowhere
    /\ pulled = Nowhere
    /\ observed = Nowhere
    /\ lists = [version |-> Nowhere, rows |-> Nowhere]
    /\ figures = {}
    /\ run = NoRun
    /\ cli = [at |-> "idle", version |-> Nowhere]
    /\ byHand = 0
    /\ unasked = {}
    /\ faults = 0

\* The two Cityworks layers are published as one event, the requests four minutes
\* before the custom fields; the census areas on their own.
Publish(l) ==
    /\ published[l] < MaxVersion[l]
    /\ l = "service_requests" => published["custom_fields"] = published[l]
    /\ l = "custom_fields" => published[l] < published["service_requests"]
    /\ published' = [published EXCEPT ![l] = @ + 1]
    /\ UNCHANGED <<down, mirrorVars, derivedVars, run, cli, byHand, unasked, faults>>

--------------------------------------------------------------------------------
(* The layers, in turn. *)

Layer == Head(run.queue)

\* Mutant of Onward: a failed layer ends the run.
OnwardStopsAtFailure(errors, pulledNow) ==
    IF errors # {} THEN NoRun
    ELSE [run EXCEPT !.at = IF Len(run.queue) > 1 THEN "poll" ELSE "lists",
                     !.queue = Tail(@), !.target = NoEdit,
                     !.errors = errors, !.pulled = pulledNow]

\* --reload has no loop that survives an exception, and derives nothing at its end.
EndsHere(errors) ==
    run.mode = "reload" /\ (errors # {} \/ Len(run.queue) = 1)

\* sync()'s loop goes on to the next layer, or to the derived products, whatever
\* happened to this one.
Onward(errors, pulledNow) ==
    IF EndsHere(errors) THEN NoRun
    ELSE [run EXCEPT !.at = IF Len(run.queue) > 1 THEN "poll" ELSE "lists",
                     !.queue = Tail(@), !.target = NoEdit,
                     !.errors = errors, !.pulled = pulledNow]

StartSync(layers, mode) ==
    /\ run.at = "idle"
    /\ run' = [NoRun EXCEPT !.at = "poll", !.mode = mode, !.queue = layers]
    /\ UNCHANGED <<sourceVars, mirrorVars, derivedVars, cli, byHand, unasked, faults>>

\* Which polls are followed by a reload.
Pulls(edit) ==
    run.mode # "poll_only" /\ (run.mode = "force" \/ edit > pulled[Layer])

\* poll_layer records what it observed before anything is pulled.
PollLayer ==
    /\ run.at = "poll"
    /\ run.mode # "reload"
    /\ Layer \notin down
    /\ LET edit == published[Layer]
       IN  /\ observed' = [observed EXCEPT ![Layer] = edit]
           /\ run' = IF Pulls(edit)
                     THEN [run EXCEPT !.at = "swap", !.target = edit]
                     ELSE [run EXCEPT !.at = "reconcile"]
    /\ UNCHANGED <<sourceVars, held, pulled, derivedVars, cli, byHand, unasked, faults>>

\* --reload polls nothing: full_reload reads the edit it will be recorded against.
ReadEdit ==
    /\ run.at = "poll"
    /\ run.mode = "reload"
    /\ Layer \notin down
    /\ run' = [run EXCEPT !.at = "swap", !.target = published[Layer]]
    /\ UNCHANGED <<sourceVars, mirrorVars, derivedVars, cli, byHand, unasked, faults>>

\* The counts agree, or a divergence is recorded; neither moves a row.
ReconcileLayer ==
    /\ run.at = "reconcile"
    /\ Layer \notin down
    /\ run' = Onward(run.errors, run.pulled)
    /\ UNCHANGED <<sourceVars, mirrorVars, derivedVars, cli, byHand, unasked, faults>>

\* What unasked becomes when this layer's rows are replaced by those of a version.
Reloaded(version) ==
    IF observed[Layer] = pulled[Layer] /\ version > pulled[Layer]
    THEN unasked \union {Layer} ELSE unasked \ {Layer}

\* Mutant of SwapIn: a staging copy left by an earlier run is swapped in as it is.
SwapInStale ==
    /\ run.at = "swap"
    /\ Layer \notin down
    /\ \E version \in 1..published[Layer] :
         /\ held' = [held EXCEPT ![Layer] = version]
         /\ unasked' = Reloaded(version)
    /\ run' = [run EXCEPT !.at = "record"]
    /\ UNCHANGED <<sourceVars, pulled, observed, derivedVars, cli, byHand, faults>>

\* The fill ends with a version the source published since the edit was read, and is
\* swapped in.
SwapIn ==
    /\ run.at = "swap"
    /\ Layer \notin down
    /\ \E version \in run.target..published[Layer] :
         /\ held' = [held EXCEPT ![Layer] = version]
         /\ unasked' = Reloaded(version)
    /\ run' = [run EXCEPT !.at = "record"]
    /\ UNCHANGED <<sourceVars, pulled, observed, derivedVars, cli, byHand, faults>>

\* The reload is recorded against the edit it began from.
RecordReload ==
    /\ run.at = "record"
    /\ pulled' = [pulled EXCEPT ![Layer] = run.target]
    /\ observed' = [observed EXCEPT ![Layer] = run.target]
    /\ run' = Onward(run.errors, run.pulled \union {Layer})
    /\ UNCHANGED <<sourceVars, held, derivedVars, cli, byHand, unasked, faults>>

\* An exception in any of these is recorded against the layer, and the loop carries on
\* (--reload, which has none, ends).  A layer that is down raises each time and is no
\* fault of the bounded kind.
LayerFails ==
    /\ run.at \in {"poll", "reconcile", "swap", "record"}
    /\ \/ Layer \in down /\ faults' = faults
       \/ Layer \notin down /\ faults < MaxFaults /\ faults' = faults + 1
    /\ run' = Onward(run.errors \union {Layer}, run.pulled)
    /\ UNCHANGED <<sourceVars, mirrorVars, derivedVars, cli, byHand, unasked>>

--------------------------------------------------------------------------------
(* The derived products. *)

\* Mutant of MayDerive: only the layers pulled are asked about.
MayDeriveIfPulled == run.pulled # {}

\* Neither Cityworks layer failed in this run, and something was reloaded.
MayDerive == run.errors \cap CITYWORKS = {} /\ run.pulled # {}

\* Mutant of CurrentVersion: a layer never observed is left out.
CurrentVersionOfObserved ==
    [l \in {m \in Layers : observed[m] # NoEdit} |-> observed[l]]

\* history._mirror_version: what layer_state says each layer was last observed at.
CurrentVersion == observed

\* One list snapshot, stating the mirror version read as it is stored.
SnapshotLists ==
    /\ run.at = "lists"
    /\ lists' = IF MayDerive
                THEN [version |-> CurrentVersion, rows |-> held]
                ELSE lists
    /\ run' = IF MayDerive THEN [run EXCEPT !.at = "figures"] ELSE NoRun
    /\ UNCHANGED <<sourceVars, mirrorVars, figures, cli, byHand, unasked, faults>>

\* figures_for: what is served of a type's figures, keyed by the current version.
FiguresFor == {f \in figures : f.version = CurrentVersion}

Stored(version) == \E f \in figures : f.version = version

\* Figures already keyed by the current version are not computed again.
ComputeFigures ==
    /\ run.at = "figures"
    /\ figures' = IF Stored(CurrentVersion) THEN figures
                  ELSE figures \union {[version |-> CurrentVersion, rows |-> held]}
    /\ run' = NoRun
    /\ UNCHANGED <<sourceVars, mirrorVars, lists, cli, byHand, unasked, faults>>

\* A derivation that raises is recorded and does not undo the reload or the other
\* product.
DeriveFails ==
    /\ run.at \in {"lists", "figures"}
    /\ MayDerive
    /\ faults < MaxFaults
    /\ faults' = faults + 1
    /\ run' = IF run.at = "lists" THEN [run EXCEPT !.at = "figures"] ELSE NoRun
    /\ UNCHANGED <<sourceVars, mirrorVars, derivedVars, cli, byHand, unasked>>

Crash ==
    /\ run.at # "idle"
    /\ faults < MaxFaults
    /\ faults' = faults + 1
    /\ run' = NoRun
    /\ UNCHANGED <<sourceVars, mirrorVars, derivedVars, cli, byHand, unasked>>

\* python3 src/mirror/type_figures.py takes no lock: it reads the version to key by,
\* then computes over the rows it finds.
CliBegin ==
    /\ cli.at = "idle"
    /\ byHand < MaxByHand
    /\ ~Stored(CurrentVersion)
    /\ byHand' = byHand + 1
    /\ cli' = [at |-> "compute", version |-> CurrentVersion]
    /\ UNCHANGED <<sourceVars, mirrorVars, derivedVars, run, unasked, faults>>

CliStore ==
    /\ cli.at = "compute"
    /\ figures' = IF Stored(cli.version) THEN figures
                  ELSE figures \union {[version |-> cli.version, rows |-> held]}
    /\ cli' = [at |-> "idle", version |-> Nowhere]
    /\ UNCHANGED <<sourceVars, mirrorVars, lists, run, byHand, unasked, faults>>

--------------------------------------------------------------------------------

Sync ==
    \/ PollLayer \/ ReadEdit \/ ReconcileLayer \/ SwapIn \/ RecordReload
    \/ LayerFails
    \/ SnapshotLists \/ ComputeFigures

Next ==
    \/ \E l \in Layers : Publish(l)
    \/ \E layers \in Selections, mode \in Modes : StartSync(layers, mode)
    \/ Sync
    \/ DeriveFails
    \/ Crash
    \/ CliBegin \/ CliStore

Spec == Init /\ [][Next]_vars

\* A run in progress goes on, and the worker starts a run over every layer again and
\* again, however many runs are started by hand in between.
FairSpec == Spec /\ WF_vars(Sync) /\ SF_vars(StartSync(SYNC_ORDER, "auto"))

--------------------------------------------------------------------------------

\* Once the publishes and faults stop, every layer whose service answers is brought
\* to what it publishes, whichever other layers stay down: sync()'s "A layer that
\* fails does not stop the others".
HealthyLayersConverge ==
    \A l \in Layers : <>[](l \in down \/ (held[l] = published[l] /\ pulled[l] = held[l]))

\* A retained list never states a Cityworks version newer than the rows it was
\* derived from: the poll moves layer_state on before the rows, and only sync()'s
\* refusal of a broken pair keeps the two apart.
ListsNotAhead ==
    \A l \in CITYWORKS : lists.version[l] <= lists.rows[l]

Requests ==
    INSTANCE VersionedCopy
        WITH source <- published["service_requests"], copy <- {held["service_requests"]} \ {NoEdit},
             claim <- pulled["service_requests"]

Fields ==
    INSTANCE VersionedCopy
        WITH source <- published["custom_fields"], copy <- {held["custom_fields"]} \ {NoEdit},
             claim <- pulled["custom_fields"]

Census ==
    INSTANCE VersionedCopy
        WITH source <- published["census_areas"], copy <- {held["census_areas"]} \ {NoEdit},
             claim <- pulled["census_areas"]

\* Each layer keeps VersionedCopy's promise when the three are polled by one run that
\* survives the failure of any of them.
ImplementsVersionedCopies == Requests!Spec /\ Fields!Spec /\ Census!Spec

\* figures_for's docstring: "a stale mirror-version row does not silently answer for a
\* newer version it was never computed against".  Not so when the figures' command,
\* which takes no lock, reads the version a run has polled and the rows it has not
\* replaced yet: the run then finds that version stored, computes nothing, and the
\* figures of the replaced rows go on answering for it.
FiguresAnswerForHeldRows ==
    run.at = "idle" =>
        \A f \in FiguresFor : \A l \in CITYWORKS : f.rows[l] = held[l]

\* What holds of the runs themselves, in every mode and through any failure and crash:
\* between runs, figures stored for the current version are of the Cityworks rows now
\* held.  The one exception is a reload by hand (--force-pull, --reload) in a mirror whose
\* figures are stored already, which are not computed again: they outlive the rows only
\* when that reload found a newer version and did not record it (one published during
\* the fill, or a run cut short), and then the rows are newer than their record, so that
\* the next poll asks for another reload.
RunsStoreFiguresOfHeldRows ==
    byHand = 0 /\ run.at = "idle" =>
        \A f \in FiguresFor : \A l \in CITYWORKS :
            f.rows[l] = held[l] \/ (l \in unasked /\ pulled[l] < held[l])
================================================================================
