--------------------------- MODULE LayerReloadProofs ---------------------------
(***************************************************************************)
(* Theorems about LayerReload for every number of versions, every page       *)
(* count, every number of faults and every way of starting runs.             *)
(***************************************************************************)
EXTENDS LayerReload, TLAPS

\* A pull is always towards a dated version: the source never omits its edit date, or
\* only the clock starts reloads (a poll that observes no date never advances).
DatedPulls == AlwaysDated \/ Modes \cap {"force", "reload"} = {}

--------------------------------------------------------------------------------
(* The inductive invariant, in named parts. *)

\* Every edit the mirror remembers is one the source has published.
KnownEdits ==
    /\ pulled <= published
    /\ state.observed <= published
    /\ job.target <= published
    /\ staged.target <= published
    /\ \A v \in held.from \union staged.from : v <= published

\* A settled target is dated and not behind the last pull; an unsettled one is the
\* observation of the poll that advanced, or none.
TargetDated ==
    /\ pc \in {"prepare", "swap"} \union Filling \union Swapped =>
         job.target # NoEdit /\ pulled <= job.target
    /\ pc = "begin" =>
         /\ job.target # NoEdit => pulled <= job.target
         /\ AlwaysDated \/ job.target # NoEdit

\* What is staged was fetched at or after the staged target, by a reload that began
\* no earlier than the last pull.
StagedNotBehind ==
    /\ staged.table => pulled <= staged.target
    /\ \A v \in staged.from : staged.target <= v
    /\ staged.offset = 0 => staged.from = {}
    /\ staged.offset > 0 => staged.from # {}
    /\ ~staged.table => staged.from = {}

\* The run and its staging table agree until the swap, and the swapped-in rows are no
\* older than the run's target after it.
RunAgrees ==
    /\ pc \in Filling \union {"swap"} => staged.table /\ staged.target = job.target
    /\ pc \in {"ended", "swap"} => staged.offset > 0
    /\ pc \in Swapped =>
         ~staged.table /\ held.from # {} /\ \A v \in held.from : job.target <= v
    /\ pc = "touch" => pulled = job.target

\* A completed load has a pull on record and rows in the live table, none of them
\* older than that pull.
PulledIsHeld ==
    /\ state.loaded => pulled # NoEdit
    /\ pulled # NoEdit => held.from # {}
    /\ \A v \in held.from : pulled <= v

IInv ==
    /\ TypeOK
    /\ KnownEdits
    /\ TargetDated
    /\ StagedNotBehind
    /\ RunAgrees
    /\ PulledIsHeld
--------------------------------------------------------------------------------

LEMMA EditsAreNumbers ==
    /\ Versions \subseteq Edits /\ Edits \subseteq Nat /\ NoEdit \in Edits
    /\ NoEdit \notin Versions
    /\ \A v \in Versions : PageCount[v] \in Nat \ {0}
  BY ReloadAssumption DEF Versions, Edits, NoEdit

LEMMA DatesAreEdits == published \in Versions => EditDates \subseteq Edits
  BY EditsAreNumbers DEF EditDates

\* How the updates the actions make keep the records in their types.
LEMMA StateUpdates ==
  ASSUME NEW s \in LayerState, NEW edit \in Edits
  PROVE  /\ [s EXCEPT !.observed = edit, !.ok = TRUE] \in LayerState
         /\ [s EXCEPT !.ok = FALSE] \in LayerState
         /\ [s EXCEPT !.ok = TRUE] \in LayerState
  BY DEF LayerState

LEMMA JobUpdates ==
  ASSUME NEW j \in Job, NEW edit \in Edits
  PROVE  /\ [j EXCEPT !.target = edit] \in Job
         /\ \A mode \in Modes : [mode |-> mode, target |-> edit, count |-> 0] \in Job
         /\ NoJob \in Job
  BY EditsAreNumbers DEF Job, NoJob

LEMMA StagingUpdates ==
  ASSUME NEW t \in StagingTable, NEW edit \in Edits, NEW v \in Versions
  PROVE  /\ [t EXCEPT !.offset = @ + 1, !.from = @ \union {v}] \in StagingTable
         /\ EmptyStaging(edit) \in StagingTable
         /\ NoStaging \in StagingTable
<1>1. t.offset + 1 \in Nat /\ t.from \union {v} \in SUBSET Versions
  BY DEF StagingTable
<1>2. [t EXCEPT !.offset = @ + 1, !.from = @ \union {v}] \in StagingTable
  BY <1>1 DEF StagingTable
<1>3. EmptyStaging(edit) \in StagingTable /\ NoStaging \in StagingTable
  BY EditsAreNumbers DEF StagingTable, NoStaging, EmptyStaging
<1> QED
  BY <1>2, <1>3

LEMMA TypeInitial == Init => TypeOK
<1> SUFFICES ASSUME Init PROVE TypeOK
  OBVIOUS
<1>1. published \in Versions /\ pulled \in Edits /\ faults \in 0..MaxFaults
  BY ReloadAssumption, EditsAreNumbers DEF Init, Versions
<1>2. held \in LiveTable /\ state \in LayerState
  BY EditsAreNumbers DEF Init, LiveTable, LayerState
<1>3. staged \in StagingTable
  BY EditsAreNumbers DEF Init, StagingTable, NoStaging
<1>4. job \in Job
  BY EditsAreNumbers DEF Init, Job, NoJob
<1> QED
  BY <1>1, <1>2, <1>3, <1>4 DEF Init, TypeOK, Steps

LEMMA TypeInductive == TypeOK /\ [Next]_vars => TypeOK'
<1> SUFFICES ASSUME TypeOK, [Next]_vars PROVE TypeOK'
  OBVIOUS
<1> USE EditsAreNumbers DEF TypeOK, Steps, Filling, Swapped, mirrorVars
<1>0. faults < MaxFaults => faults + 1 \in 0..MaxFaults
  BY ReloadAssumption
<1>1. NoJob \in Job /\ NoStaging \in StagingTable
  BY DEF NoJob, Job, NoStaging, StagingTable
<1>2. CASE Publish
  BY <1>2, ReloadAssumption DEF Publish, Versions
<1>3. ASSUME NEW mode \in Modes, Poll(mode) PROVE TypeOK'
  <2>1. PICK observed \in EditDates :
          /\ state' = [state EXCEPT !.observed = observed, !.ok = TRUE]
          /\ \E target \in {observed, NoEdit} :
               job' = [mode |-> mode, target |-> target, count |-> 0]
          /\ pc' \in {"begin", "reconcile"}
    BY <1>3 DEF Poll
  <2>2. observed \in Edits
    BY <2>1, DatesAreEdits
  <2>3. state' \in LayerState
    BY <2>1, <2>2, StateUpdates
  <2>4. job' \in Job
    BY <2>1, <2>2, JobUpdates
  <2> QED
    BY <1>3, <2>1, <2>3, <2>4 DEF Poll
<1>4. CASE PollFails
  <2>1. state' \in LayerState
    BY <1>4, StateUpdates DEF PollFails
  <2> QED
    BY <1>0, <1>4, <2>1 DEF PollFails
<1>5. CASE ReloadOnDemand
  <2>1. job' \in Job
    BY <1>5, JobUpdates DEF ReloadOnDemand
  <2> QED
    BY <1>5, <2>1 DEF ReloadOnDemand
<1>6. CASE Reconcile
  <2>1. state' \in LayerState
    BY <1>6, StateUpdates DEF Reconcile
  <2>2. CountDivergence(job.target) \in Anomaly
    BY DEF CountDivergence, Anomaly, Job
  <2> QED
    BY <1>1, <1>6, <2>1, <2>2 DEF Reconcile
<1>7. CASE BeginReload
  <2>1. PICK target \in {job.target} \union EditDates :
          job' = [job EXCEPT !.target = target]
    BY <1>7 DEF BeginReload
  <2>2. target \in Edits
    <3>1. job.target \in Edits
      BY DEF Job
    <3> QED
      BY <2>1, <3>1, DatesAreEdits
  <2>3. job' \in Job
    BY <2>1, <2>2, JobUpdates
  <2>4. Baseline \in Edits
    BY DEF Baseline, LayerState
  <2>5. [edit |-> Baseline, from |-> held.from] \in LayerVersion
    BY <2>4 DEF LayerVersion, LiveTable
  <2>6. retained' \subseteq LayerVersion
    BY <1>7, <2>5 DEF BeginReload, Retain
  <2> QED
    BY <1>7, <2>3, <2>6 DEF BeginReload
<1>8. CASE PrepareStaging
  <2>1. EmptyStaging(job.target) \in StagingTable
    BY DEF EmptyStaging, StagingTable, Job
  <2> QED
    BY <1>8, <2>1 DEF PrepareStaging
<1>9. CASE CountSource
  <2>1. PageCount[published] \in Nat
    OBVIOUS
  <2>2. job' \in Job
    BY <1>9, <2>1 DEF CountSource, Job
  <2> QED
    BY <1>9, <2>2 DEF CountSource
<1>10. CASE FetchPage
  <2>1. staged' \in StagingTable
    BY <1>10, StagingUpdates DEF FetchPage
  <2> QED
    BY <1>10, <2>1 DEF FetchPage
<1>11. CASE EndFill
  <2>1. \A after \in EditDates : PublishedDuring(job.target, after) \in Anomaly
    BY DatesAreEdits DEF PublishedDuring, Anomaly, Job
  <2>2. anomalies' \subseteq Anomaly
    BY <1>11, <2>1 DEF EndFill
  <2> QED
    BY <1>11, <2>2 DEF EndFill
<1>12. CASE SwapIn
  <2>1. held' \in LiveTable
    BY <1>12 DEF SwapIn, LiveTable, StagingTable
  <2> QED
    BY <1>1, <1>12, <2>1 DEF SwapIn
<1>13. CASE CheckCount
  <2>1. CountDivergence(job.target) \in Anomaly
    BY DEF CountDivergence, Anomaly, Job
  <2> QED
    BY <1>13, <2>1 DEF CheckCount
<1>14. CASE RetainLoaded
  <2>1. [edit |-> job.target, from |-> held.from] \in LayerVersion
    BY DEF LayerVersion, LiveTable, Job
  <2> QED
    BY <1>14, <2>1 DEF RetainLoaded, Retain
<1>15. CASE FinishRun
  <2>1. job.target \in Edits
    BY DEF Job
  <2> QED
    BY <1>15, <2>1 DEF FinishRun
<1>16. CASE TouchLayer
  <2>1. state' \in LayerState
    BY <1>16 DEF TouchLayer, LayerState, Job
  <2> QED
    BY <1>1, <1>16, <2>1 DEF TouchLayer
<1>17. CASE Raise
  <2>1. state' \in LayerState
    BY <1>17, StateUpdates DEF Raise
  <2> QED
    BY <1>0, <1>1, <1>17, <2>1 DEF Raise
<1>18. CASE Crash
  BY <1>0, <1>1, <1>18 DEF Crash
<1>19. CASE UNCHANGED vars
  BY <1>19 DEF vars
<1> QED
  BY <1>2, <1>3, <1>4, <1>5, <1>6, <1>7, <1>8, <1>9, <1>10, <1>11, <1>12, <1>13,
     <1>14, <1>15, <1>16, <1>17, <1>18, <1>19 DEF Next, Run

\* Every variable of the model keeps its type, whatever the source and the faults do.
THEOREM TypeCorrect == Spec => []TypeOK
<1>1. Init => TypeOK
  BY TypeInitial
<1>2. TypeOK /\ [Next]_vars => TypeOK'
  BY TypeInductive
<1> QED
  BY <1>1, <1>2, PTL DEF Spec

--------------------------------------------------------------------------------

\* Once a load is on record a pull is, so the fallback of last_pulled_source_edit is
\* never the one that answers.
LEMMA BaselineIsPulled == IInv => Baseline = pulled
  BY DEF IInv, PulledIsHeld, Baseline

LEMMA IInvInitial == ASSUME DatedPulls, Init PROVE IInv
<1>1. TypeOK
  BY TypeInitial
<1> QED
  BY <1>1 DEF Init, IInv, KnownEdits, TargetDated, StagedNotBehind, RunAgrees,
     PulledIsHeld, NoStaging, NoJob, NoEdit, Filling, Swapped

LEMMA IInvInductive ==
  ASSUME DatedPulls, IInv, [Next]_vars
  PROVE  IInv'
<1>1. TypeOK /\ TypeOK'
  BY TypeInductive DEF IInv
<1> USE EditsAreNumbers
    DEF KnownEdits, TargetDated, StagedNotBehind, RunAgrees, PulledIsHeld, TypeOK,
        LiveTable, StagingTable, LayerState, Job, Filling, Swapped, mirrorVars
<1>2. ASSUME NEW mode \in Modes, Poll(mode) PROVE IInv'
  <2>1. PICK observed \in EditDates :
          /\ state' = [state EXCEPT !.observed = observed, !.ok = TRUE]
          /\ \/ /\ pc' = "reconcile"
                /\ job'.target = NoEdit
             \/ /\ pc' = "begin"
                /\ job'.target = observed
                /\ mode = "force" \/ Advanced(observed)
    <3>1. PICK observed \in EditDates :
            /\ state' = [state EXCEPT !.observed = observed, !.ok = TRUE]
            /\ job' = [mode |-> mode, count |-> 0,
                       target |-> IF Pulls(mode, observed) THEN observed ELSE NoEdit]
            /\ pc' = IF Pulls(mode, observed) THEN "begin" ELSE "reconcile"
      BY <1>2 DEF Poll
    <3>2. CASE Pulls(mode, observed)
      BY <3>1, <3>2 DEF Pulls
    <3>3. CASE ~Pulls(mode, observed)
      BY <3>1, <3>3 DEF Pulls
    <3> QED
      BY <3>2, <3>3
  <2>2. observed \in Edits /\ observed <= published /\ NoEdit <= published
    BY <1>1, <2>1, DatesAreEdits DEF EditDates, NoEdit
  <2>3. AlwaysDated => observed = published
    BY <2>1 DEF EditDates
  <2>4. Advanced(observed) => observed # NoEdit /\ pulled <= observed
    BY <1>1, <2>2, BaselineIsPulled DEF IInv, Advanced, NoEdit
  <2>5. observed # NoEdit => observed = published
    BY <2>1 DEF EditDates
  <2>6. mode = "force" => AlwaysDated
    <3>1. mode = "force" => Modes \cap {"force", "reload"} # {}
      BY <1>2
    <3> QED
      BY <3>1, DatedPulls DEF DatedPulls
  <2>7. state'.observed = observed /\ state'.loaded = state.loaded
    BY <1>1, <2>1
  <2>8. KnownEdits'
    BY <1>1, <1>2, <2>1, <2>2, <2>7 DEF IInv, Poll
  <2>9. TargetDated'
    BY <1>1, <1>2, <2>1, <2>3, <2>4, <2>5, <2>6 DEF IInv, Poll
  <2>10. StagedNotBehind' /\ RunAgrees' /\ PulledIsHeld'
    BY <1>1, <1>2, <2>1, <2>7 DEF IInv, Poll
  <2> QED
    BY <1>1, <2>8, <2>9, <2>10 DEF IInv
<1>3. CASE Publish
  <2>0. published \in Nat /\ published' \in Nat /\ published <= published'
    BY <1>1, <1>3 DEF Publish
  <2>1. KnownEdits'
    <3>1. \A edit \in Edits : edit <= published => edit <= published'
      BY <2>0
    <3>2. held.from \union staged.from \subseteq Edits
      BY <1>1
    <3>3. pulled \in Edits /\ state.observed \in Edits /\ job.target \in Edits
      BY <1>1
    <3>4. staged.target \in Edits
      BY <1>1
    <3> QED
      BY <1>3, <3>1, <3>2, <3>3, <3>4 DEF IInv, Publish
  <2>2. TargetDated'
    BY <1>1, <1>3, <2>0 DEF IInv, Publish
  <2>3. StagedNotBehind'
    BY <1>1, <1>3, <2>0 DEF IInv, Publish
  <2>4. RunAgrees'
    BY <1>1, <1>3, <2>0 DEF IInv, Publish
  <2>5. PulledIsHeld'
    BY <1>1, <1>3, <2>0 DEF IInv, Publish
  <2> QED
    BY <1>1, <2>1, <2>2, <2>3, <2>4, <2>5 DEF IInv
<1>4. CASE PollFails
  BY <1>1, <1>4, ReloadAssumption DEF IInv, PollFails
<1>5. CASE ReloadOnDemand
  <2>1. KnownEdits'
    BY <1>1, <1>5 DEF IInv, ReloadOnDemand, NoEdit
  <2>2. TargetDated'
    BY <1>1, <1>5, DatedPulls DEF IInv, ReloadOnDemand, NoEdit, DatedPulls
  <2>3. StagedNotBehind'
    BY <1>1, <1>5 DEF IInv, ReloadOnDemand, NoEdit
  <2>4. RunAgrees'
    BY <1>1, <1>5 DEF IInv, ReloadOnDemand, NoEdit
  <2>5. PulledIsHeld'
    BY <1>1, <1>5 DEF IInv, ReloadOnDemand, NoEdit
  <2> QED
    BY <1>1, <2>1, <2>2, <2>3, <2>4, <2>5 DEF IInv
<1>6. CASE Reconcile
  <2>1. KnownEdits'
    BY <1>1, <1>6 DEF IInv, Reconcile, NoJob, NoEdit
  <2>2. TargetDated'
    BY <1>1, <1>6 DEF IInv, Reconcile, NoJob, NoEdit
  <2>3. StagedNotBehind'
    BY <1>1, <1>6 DEF IInv, Reconcile, NoJob, NoEdit
  <2>4. RunAgrees'
    BY <1>1, <1>6 DEF IInv, Reconcile, NoJob, NoEdit
  <2>5. PulledIsHeld'
    BY <1>1, <1>6 DEF IInv, Reconcile, NoJob, NoEdit
  <2> QED
    BY <1>1, <2>1, <2>2, <2>3, <2>4, <2>5 DEF IInv
<1>7. CASE BeginReload
  BY <1>1, <1>7, ReloadAssumption DEF IInv, BeginReload, EditDates
<1>8. CASE PrepareStaging
  BY <1>1, <1>8, ReloadAssumption DEF IInv, PrepareStaging, CanResume, EmptyStaging
<1>9. CASE CountSource
  BY <1>1, <1>9, ReloadAssumption DEF IInv, CountSource
<1>10. CASE FetchPage
  BY <1>1, <1>10, ReloadAssumption DEF IInv, FetchPage
<1>11. CASE EndFill
  BY <1>1, <1>11, ReloadAssumption DEF IInv, EndFill
<1>12. CASE SwapIn
  <2>1. KnownEdits'
    <3>1. held'.from = staged.from /\ staged'.from = {} /\ staged'.target = NoEdit
      BY <1>12 DEF SwapIn, NoStaging
    <3>2. UNCHANGED <<published, pulled, state, job>>
      BY <1>12 DEF SwapIn
    <3>3. NoEdit <= published /\ KnownEdits
      BY <1>1 DEF IInv, NoEdit
    <3> QED
      BY <3>1, <3>2, <3>3
  <2>2. TargetDated'
    BY <1>1, <1>12 DEF IInv, SwapIn, NoStaging
  <2>3. StagedNotBehind'
    BY <1>1, <1>12 DEF IInv, SwapIn, NoStaging
  <2>4. RunAgrees'
    BY <1>1, <1>12 DEF IInv, SwapIn, NoStaging
  <2>5. PulledIsHeld'
    <3>1. staged.table /\ staged.from # {}
      BY <1>1, <1>12 DEF IInv, SwapIn
    <3>2. \A v \in staged.from : pulled <= v
      <4>1. pulled <= staged.target /\ \A v \in staged.from : staged.target <= v
        BY <1>1, <3>1 DEF IInv
      <4>2. pulled \in Nat /\ staged.target \in Nat /\ staged.from \subseteq Nat
        BY <1>1
      <4> QED
        BY <4>1, <4>2
    <3>3. held'.from = staged.from /\ pulled' = pulled /\ state' = state
      BY <1>12 DEF SwapIn
    <3> QED
      BY <3>1, <3>2, <3>3 DEF IInv
  <2> QED
    BY <1>1, <2>1, <2>2, <2>3, <2>4, <2>5 DEF IInv
<1>13. CASE CheckCount
  BY <1>1, <1>13, ReloadAssumption DEF IInv, CheckCount
<1>14. CASE RetainLoaded
  BY <1>1, <1>14, ReloadAssumption DEF IInv, RetainLoaded
<1>15. CASE FinishRun
  BY <1>1, <1>15, ReloadAssumption DEF IInv, FinishRun
<1>16. CASE TouchLayer
  <2>1. KnownEdits'
    BY <1>1, <1>16 DEF IInv, TouchLayer, NoJob, NoEdit
  <2>2. TargetDated'
    BY <1>1, <1>16 DEF IInv, TouchLayer, NoJob, NoEdit
  <2>3. StagedNotBehind'
    BY <1>1, <1>16 DEF IInv, TouchLayer, NoJob, NoEdit
  <2>4. RunAgrees'
    BY <1>1, <1>16 DEF IInv, TouchLayer, NoJob, NoEdit
  <2>5. PulledIsHeld'
    BY <1>1, <1>16 DEF IInv, TouchLayer, NoJob, NoEdit
  <2> QED
    BY <1>1, <2>1, <2>2, <2>3, <2>4, <2>5 DEF IInv
<1>17. CASE Raise
  <2>1. KnownEdits'
    BY <1>1, <1>17 DEF IInv, Raise, NoJob, NoEdit
  <2>2. TargetDated'
    BY <1>1, <1>17 DEF IInv, Raise, NoJob, NoEdit
  <2>3. StagedNotBehind'
    BY <1>1, <1>17 DEF IInv, Raise, NoJob, NoEdit
  <2>4. RunAgrees'
    BY <1>1, <1>17 DEF IInv, Raise, NoJob, NoEdit
  <2>5. PulledIsHeld'
    BY <1>1, <1>17 DEF IInv, Raise, NoJob, NoEdit
  <2> QED
    BY <1>1, <2>1, <2>2, <2>3, <2>4, <2>5 DEF IInv
<1>18. CASE Crash
  <2>1. KnownEdits'
    BY <1>1, <1>18 DEF IInv, Crash, NoJob, NoEdit
  <2>2. TargetDated'
    BY <1>1, <1>18 DEF IInv, Crash, NoJob, NoEdit
  <2>3. StagedNotBehind'
    BY <1>1, <1>18 DEF IInv, Crash, NoJob, NoEdit
  <2>4. RunAgrees'
    BY <1>1, <1>18 DEF IInv, Crash, NoJob, NoEdit
  <2>5. PulledIsHeld'
    BY <1>1, <1>18 DEF IInv, Crash, NoJob, NoEdit
  <2> QED
    BY <1>1, <2>1, <2>2, <2>3, <2>4, <2>5 DEF IInv
<1>19. CASE UNCHANGED vars
  BY <1>1, <1>19 DEF IInv, vars
<1> QED
  BY <1>2, <1>3, <1>4, <1>5, <1>6, <1>7, <1>8, <1>9, <1>10, <1>11, <1>12, <1>13, <1>14, <1>15, <1>16, <1>17, <1>18, <1>19 DEF Next, Run

LEMMA Inductive == DatedPulls => (Spec => []IInv)
<1> SUFFICES ASSUME DatedPulls PROVE Spec => []IInv
  OBVIOUS
<1>1. Init => IInv
  BY IInvInitial
<1>2. IInv /\ [Next]_vars => IInv'
  BY IInvInductive
<1> QED
  BY <1>1, <1>2, PTL DEF Spec

LEMMA IInvImpliesBaseline == IInv => BaselineNotAhead
  BY BaselineIsPulled DEF IInv, PulledIsHeld, BaselineNotAhead

\* No publish is ever believed fetched when it was not: the edit the next poll compares
\* against is never newer than a row of the live table.
THEOREM BaselineSafe == DatedPulls => (Spec => []BaselineNotAhead)
<1> SUFFICES ASSUME DatedPulls PROVE Spec => []BaselineNotAhead
  OBVIOUS
<1>1. Spec => []IInv
  BY Inductive
<1> QED
  BY <1>1, IInvImpliesBaseline, PTL

--------------------------------------------------------------------------------
(* The reload implements VersionedCopy. *)

LEMMA InitImplements == Init => Contract!Init
  BY DEF Init, Contract!Init, Baseline, NoEdit

LEMMA SwapReplaces == ASSUME IInv, IInv', SwapIn PROVE Contract!Replace
<1>1. staged.table /\ staged.from # {} /\ staged.from \subseteq Versions
  BY DEF IInv, TypeOK, StagingTable, RunAgrees, StagedNotBehind, SwapIn
<1>2. \A v \in staged.from : pulled <= v /\ v <= published
  <2>1. pulled <= staged.target /\ \A v \in staged.from : staged.target <= v
    BY <1>1 DEF IInv, StagedNotBehind
  <2>2. pulled \in Nat /\ staged.target \in Nat /\ staged.from \subseteq Nat
    BY <1>1, EditsAreNumbers DEF IInv, TypeOK, StagingTable
  <2>3. \A v \in staged.from : v <= published
    BY DEF IInv, KnownEdits
  <2> QED
    BY <2>1, <2>2, <2>3
<1>3. pulled \in Nat /\ published \in Nat
  BY EditsAreNumbers DEF IInv, TypeOK
<1>4. staged.from \subseteq Baseline..published
  <2>1. staged.from \subseteq Nat /\ Baseline = pulled
    BY <1>1, EditsAreNumbers, BaselineIsPulled
  <2> QED
    BY <1>2, <1>3, <2>1
<1>5. held'.from = staged.from /\ published' = published /\ pulled' = pulled
  BY DEF SwapIn
<1>6. Baseline' = Baseline
  BY <1>5, BaselineIsPulled DEF SwapIn, Baseline
<1> QED
  BY <1>1, <1>4, <1>5, <1>6 DEF Contract!Replace

LEMMA FinishClaims ==
  ASSUME IInv, IInv', FinishRun PROVE Contract!Claim \/ UNCHANGED Contract!vars
<1>1. job.target # NoEdit /\ pulled <= job.target /\ job.target <= published
  BY DEF IInv, TargetDated, KnownEdits, FinishRun, Swapped
<1>2. held.from # {} /\ \A v \in held.from : job.target <= v
  BY DEF IInv, RunAgrees, FinishRun, Swapped
<1>3. pulled' = job.target /\ held' = held /\ published' = published /\ state' = state
  BY <1>1 DEF FinishRun
<1>4. Baseline = pulled /\ Baseline' = job.target
  BY <1>1, <1>3, BaselineIsPulled DEF Baseline
<1>5. job.target \in pulled..published
  <2>1. job.target \in Nat /\ pulled \in Nat /\ published \in Nat
    BY EditsAreNumbers DEF IInv, TypeOK, Job
  <2> QED
    BY <1>1, <2>1
<1> QED
  BY <1>2, <1>3, <1>4, <1>5 DEF Contract!Claim

\* Every step of the reload is a publish, a whole replacement or a claim of the abstract
\* copy, or leaves it as it is.
LEMMA StepImplements ==
  ASSUME IInv, IInv', [Next]_vars PROVE [Contract!Next]_Contract!vars
<1>1. CASE Publish
  BY <1>1 DEF Publish, mirrorVars, Contract!Next, Contract!Publish, Baseline
<1>2. CASE SwapIn
  BY <1>2, SwapReplaces DEF Contract!Next
<1>3. CASE FinishRun
  BY <1>3, FinishClaims DEF Contract!Next
<1>4. ASSUME UNCHANGED <<published, held, pulled>>
      PROVE  UNCHANGED Contract!vars
  <2>1. Baseline' = Baseline
    <3>1. pulled # NoEdit => Baseline' = Baseline
      BY <1>4 DEF Baseline
    <3>2. pulled = NoEdit => ~state.loaded /\ ~state'.loaded
      BY <1>4 DEF IInv, PulledIsHeld
    <3> QED
      BY <1>4, <3>1, <3>2 DEF Baseline
  <2> QED
    BY <1>4, <2>1 DEF Contract!vars
<1>5. \/ Publish \/ SwapIn \/ FinishRun
      \/ UNCHANGED <<published, held, pulled>>
  BY DEF Next, Run, Poll, PollFails, ReloadOnDemand, Reconcile, BeginReload,
         PrepareStaging, CountSource, FetchPage, EndFill, CheckCount, RetainLoaded,
         TouchLayer, Raise, Crash, mirrorVars, vars
<1> QED
  BY <1>1, <1>2, <1>3, <1>4, <1>5

\* The poll and the reload implement the promise of VersionedCopy, through any crash,
\* failed request or publish.
THEOREM Implements == DatedPulls => (Spec => ImplementsVersionedCopy)
<1> SUFFICES ASSUME DatedPulls PROVE Spec => Contract!Spec
  BY DEF ImplementsVersionedCopy
<1>1. Spec => []IInv
  BY Inductive
<1>2. IInv /\ IInv' /\ [Next]_vars => [Contract!Next]_Contract!vars
  BY StepImplements
<1> QED
  BY <1>1, <1>2, InitImplements, PTL DEF Spec, Contract!Spec

--------------------------------------------------------------------------------
(* What is retained, and what is let into the live table. *)

LEMMA RetainedInductive ==
  ASSUME IInv, RetainedNameNotAhead, [Next]_vars
  PROVE  RetainedNameNotAhead'
<1>1. \A v \in held.from : Baseline <= v
  BY IInvImpliesBaseline DEF BaselineNotAhead
<1>2. CASE BeginReload
  <2>1. retained' \subseteq retained \union {[edit |-> Baseline, from |-> held.from]}
    BY <1>2 DEF BeginReload, Retain
  <2> QED
    BY <1>1, <2>1 DEF RetainedNameNotAhead
<1>3. CASE RetainLoaded
  <2>1. retained' \subseteq retained \union {[edit |-> job.target, from |-> held.from]}
    BY <1>3 DEF RetainLoaded, Retain
  <2>2. \A v \in held.from : job.target <= v
    BY <1>3 DEF IInv, RunAgrees, RetainLoaded, Swapped
  <2> QED
    BY <2>1, <2>2 DEF RetainedNameNotAhead
<1>4. BeginReload \/ RetainLoaded \/ UNCHANGED retained
  BY DEF Next, Run, Publish, Poll, PollFails, ReloadOnDemand, Reconcile,
         PrepareStaging, CountSource, FetchPage, EndFill, SwapIn, CheckCount,
         FinishRun, TouchLayer, Raise, Crash, mirrorVars, vars
<1> QED
  BY <1>2, <1>3, <1>4 DEF RetainedNameNotAhead

\* A version retained for the renumbering question is never named by an edit newer than
\* the rows its sample was taken from.
THEOREM RetainedNames == DatedPulls => (Spec => []RetainedNameNotAhead)
<1> SUFFICES ASSUME DatedPulls PROVE Spec => []RetainedNameNotAhead
  OBVIOUS
<1>1. Init => RetainedNameNotAhead
  BY DEF Init, RetainedNameNotAhead
<1>2. IInv /\ RetainedNameNotAhead /\ [Next]_vars => RetainedNameNotAhead'
  BY RetainedInductive
<1>3. Spec => []IInv
  BY Inductive
<1> QED
  BY <1>1, <1>2, <1>3, PTL DEF Spec

\* While the source still serves the version a fill began on, every staged page is of
\* that version, in order from the first, and a fill that ended has them all.
FillOfTarget ==
    staged.table /\ staged.target = published =>
        /\ staged.from \subseteq {published}
        /\ staged.offset <= PageCount[published]
        /\ pc = "ended" => staged.offset = PageCount[published]

\* A fill about to be swapped in is a whole version, or its span is on record.
StagedWholeOrReported ==
    pc = "swap" =>
        \/ \E v \in Versions : staged.from = {v} /\ staged.offset = PageCount[v]
        \/ \E a \in anomalies :
             /\ a.kind = "source_published_during_reload"
             /\ \A v \in staged.from : a.version_read <= v /\ v <= a.observed_after

WInv == FillOfTarget /\ StagedWholeOrReported /\ HeldWholeOrReported

LEMMA FillOfTargetInductive ==
  ASSUME IInv, FillOfTarget, [Next]_vars
  PROVE  FillOfTarget'
<1> USE DEF FillOfTarget
<1>1. published \in Versions /\ staged \in StagingTable /\ staged.target <= published
  BY DEF IInv, TypeOK, KnownEdits
<1>2. published \in Nat /\ PageCount[published] \in Nat \ {0} /\ staged.offset \in Nat
  BY <1>1, EditsAreNumbers DEF StagingTable
<1>3. CASE Publish
  BY <1>1, <1>2, <1>3, EditsAreNumbers DEF Publish, mirrorVars
<1>4. CASE PrepareStaging
  <2>1. CASE CanResume(job.target)
    BY <1>4, <2>1 DEF PrepareStaging
  <2>2. CASE ~CanResume(job.target)
    BY <1>2, <1>4, <2>2 DEF PrepareStaging, EmptyStaging
  <2> QED
    BY <2>1, <2>2
<1>5. CASE FetchPage
  <2>1. CASE staged.offset < PageCount[published]
    <3>1. /\ staged'.offset = staged.offset + 1
          /\ staged'.from = staged.from \union {published}
          /\ staged'.table = staged.table /\ staged'.target = staged.target
          /\ published' = published
      BY <1>1, <1>5, <2>1 DEF FetchPage, StagingTable
    <3>2. pc' = "ended" => ~(staged.offset + 1 < PageCount[published])
      BY <1>5 DEF FetchPage
    <3> QED
      BY <1>2, <2>1, <3>1, <3>2
  <2>2. CASE ~(staged.offset < PageCount[published])
    BY <1>2, <1>5, <2>2 DEF FetchPage
  <2> QED
    BY <2>1, <2>2
<1>6. CASE SwapIn
  BY <1>6 DEF SwapIn, NoStaging
<1>7. \/ Publish \/ PrepareStaging \/ FetchPage \/ SwapIn
      \/ UNCHANGED <<staged, published>> /\ (pc' # "ended" \/ pc' = pc)
  BY DEF Next, Run, Poll, PollFails, ReloadOnDemand, Reconcile, BeginReload,
         CountSource, EndFill, CheckCount, RetainLoaded, FinishRun, TouchLayer, Raise,
         Crash, mirrorVars, vars
<1> QED
  BY <1>3, <1>4, <1>5, <1>6, <1>7

LEMMA AnomaliesStand == [Next]_vars => anomalies \subseteq anomalies'
  BY DEF Next, Run, Publish, Poll, PollFails, ReloadOnDemand, Reconcile, BeginReload,
         PrepareStaging, CountSource, FetchPage, EndFill, SwapIn, CheckCount,
         RetainLoaded, FinishRun, TouchLayer, Raise, Crash, mirrorVars, vars

LEMMA StagedWholeInductive ==
  ASSUME AlwaysDated, IInv, FillOfTarget, StagedWholeOrReported, [Next]_vars
  PROVE  StagedWholeOrReported'
<1>1. CASE EndFill
  <2>1. published \in Versions /\ staged \in StagingTable /\ job.target = staged.target
    BY <1>1 DEF IInv, TypeOK, RunAgrees, EndFill, Filling
  <2>2. /\ staged.table /\ staged.from # {} /\ job.target # NoEdit
        /\ \A v \in staged.from : staged.target <= v /\ v <= published
    BY <1>1, <2>1, EditsAreNumbers
       DEF IInv, RunAgrees, StagedNotBehind, KnownEdits, TargetDated, EndFill, Filling,
           StagingTable
  <2>3. staged' = staged
    BY <1>1 DEF EndFill
  <2>4. CASE staged.target = published
    <3>1. staged.from = {published} /\ staged.offset = PageCount[published]
      BY <1>1, <2>2, <2>4 DEF FillOfTarget, EndFill
    <3> QED
      BY <2>1, <2>3, <3>1 DEF StagedWholeOrReported
  <2>5. CASE staged.target # published
    <3>1. published > job.target
      <4>1. staged.target \in Nat /\ published \in Nat /\ staged.target <= published
        BY <2>1, EditsAreNumbers DEF IInv, KnownEdits, StagingTable
      <4> QED
        BY <2>1, <2>5, <4>1
    <3>2. PublishedDuring(job.target, published) \in anomalies'
      BY <1>1, <2>2, <3>1, AlwaysDated DEF EndFill, EditDates
    <3>3. DEFINE a == PublishedDuring(job.target, published)
    <3>4. /\ a.kind = "source_published_during_reload"
          /\ a.version_read = job.target /\ a.observed_after = published
      BY DEF PublishedDuring
    <3> QED
      BY <2>1, <2>2, <2>3, <3>2, <3>4 DEF StagedWholeOrReported
  <2> QED
    BY <2>4, <2>5
<1>2. EndFill \/ pc' # "swap" \/ UNCHANGED <<staged, pc>>
  BY DEF Next, Run, Publish, Poll, PollFails, ReloadOnDemand, Reconcile, BeginReload,
         PrepareStaging, CountSource, FetchPage, SwapIn, CheckCount, RetainLoaded,
         FinishRun, TouchLayer, Raise, Crash, mirrorVars, vars
<1>3. CASE pc' # "swap"
  BY <1>3 DEF StagedWholeOrReported
<1>4. CASE UNCHANGED <<staged, pc>>
  BY <1>4, AnomaliesStand DEF StagedWholeOrReported
<1> QED
  BY <1>1, <1>2, <1>3, <1>4

LEMMA HeldWholeInductive ==
  ASSUME IInv, StagedWholeOrReported, HeldWholeOrReported, [Next]_vars
  PROVE  HeldWholeOrReported'
<1>1. CASE SwapIn
  <2>1. held' = [from |-> staged.from, rows |-> staged.offset] /\ anomalies' = anomalies
    BY <1>1 DEF SwapIn
  <2>2. CASE \E v \in Versions : staged.from = {v} /\ staged.offset = PageCount[v]
    BY <2>1, <2>2 DEF HeldWholeOrReported, HeldWhole
  <2>3. CASE \E a \in anomalies :
               /\ a.kind = "source_published_during_reload"
               /\ \A v \in staged.from : a.version_read <= v /\ v <= a.observed_after
    BY <2>1, <2>3 DEF HeldWholeOrReported, SpliceReported
  <2> QED
    BY <1>1, <2>2, <2>3 DEF StagedWholeOrReported, SwapIn
<1>2. SwapIn \/ UNCHANGED held
  BY DEF Next, Run, Publish, Poll, PollFails, ReloadOnDemand, Reconcile, BeginReload,
         PrepareStaging, CountSource, FetchPage, EndFill, CheckCount, RetainLoaded,
         FinishRun, TouchLayer, Raise, Crash, mirrorVars, vars
<1>3. CASE UNCHANGED held
  BY <1>3, AnomaliesStand DEF HeldWholeOrReported, HeldWhole, SpliceReported
<1> QED
  BY <1>1, <1>2, <1>3

\* The live table holds a whole version of the source, or the span of versions it was
\* read across is on record as an anomaly: an interrupted fill neither loses nor repeats
\* a page, and a spliced one is never silent.
THEOREM WholeOrReported == AlwaysDated => (Spec => []HeldWholeOrReported)
<1> SUFFICES ASSUME AlwaysDated PROVE Spec => []HeldWholeOrReported
  OBVIOUS
<1>1. Init => WInv
  BY DEF Init, WInv, FillOfTarget, StagedWholeOrReported, HeldWholeOrReported,
         HeldWhole, NoStaging
<1>2. IInv /\ WInv /\ [Next]_vars => WInv'
  BY FillOfTargetInductive, StagedWholeInductive, HeldWholeInductive DEF WInv
<1>3. Spec => []IInv
  BY Inductive DEF DatedPulls
<1>4. WInv => HeldWholeOrReported
  BY DEF WInv
<1> QED
  BY <1>1, <1>2, <1>3, <1>4, PTL DEF Spec
================================================================================
