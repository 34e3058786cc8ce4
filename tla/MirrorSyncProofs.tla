---------------------------- MODULE MirrorSyncProofs ---------------------------
(***************************************************************************)
(* Theorems about MirrorSync for any number of publishes, faults and figures *)
(* computed by hand, any services down, and any runs asked for (all that ask  *)
(* for both Cityworks layers, where a theorem says so).                      *)
(***************************************************************************)
EXTENDS MirrorSync, SequenceTheorems, TLAPS

LEMMA EditsAreNumbers ==
    /\ Edits \subseteq Nat
    /\ NoEdit \in Edits
    /\ \A e \in Edits : \A d \in 0..e : d \in Edits
    /\ \A l \in Layers : \A d \in 0..MaxVersion[l] : d \in Edits
BY SyncAssumption DEF Edits, NoEdit, Layers, CITYWORKS

--------------------------------------------------------------------------------
(* The layers a run has still to attempt. *)

LEMMA QueueTyped ==
    ASSUME NEW q \in Queues
    PROVE  q \in Seq(Layers)
<1>1. PICK s \in Selections : \E i \in 1..(Len(s) + 1) : q = SubSeq(s, i, Len(s))
  BY DEF Queues
<1>i. PICK i \in 1..(Len(s) + 1) : q = SubSeq(s, i, Len(s))
  BY <1>1
<1>2. s \in Seq(Layers)
  BY SyncAssumption
<1>3. \A j \in i..Len(s) : s[j] \in Layers
  BY <1>2, LenProperties, ElementOfSeq
<1> QED
  BY <1>i, <1>2, <1>3, LenProperties, SubSeqProperties

LEMMA SelectionQueues ==
    ASSUME NEW s \in Selections
    PROVE  s \in Queues /\ s \in Seq(Layers) /\ s # <<>>
<1>1. s \in Seq(Layers) /\ s # <<>> /\ Len(s) \in Nat
  BY SyncAssumption, LenProperties
<1>2. s = SubSeq(s, 1, Len(s))
  BY <1>1, SubSeqFull
<1>3. 1 \in 1..(Len(s) + 1)
  BY <1>1
<1> QED
  BY <1>1, <1>2, <1>3 DEF Queues

LEMMA EmptyQueue == <<>> \in Queues
<1>1. SYNC_ORDER \in Selections /\ SYNC_ORDER \in Seq(Layers)
  BY SyncAssumption
<1>2. Len(SYNC_ORDER) \in Nat /\ Len(SYNC_ORDER) + 1 \in 1..(Len(SYNC_ORDER) + 1)
  BY <1>1, LenProperties
<1>3. SubSeq(SYNC_ORDER, Len(SYNC_ORDER) + 1, Len(SYNC_ORDER)) = <<>>
  BY <1>1, <1>2, SubSeqEmpty
<1> QED
  BY <1>1, <1>2, <1>3 DEF Queues

LEMMA TailQueue ==
    ASSUME NEW q \in Queues, q # <<>>
    PROVE  Tail(q) \in Queues /\ Head(q) \in Layers
<1>1. PICK s \in Selections : \E i \in 1..(Len(s) + 1) : q = SubSeq(s, i, Len(s))
  BY DEF Queues
<1>i. PICK i \in 1..(Len(s) + 1) : q = SubSeq(s, i, Len(s))
  BY <1>1
<1>2. s \in Seq(Layers) /\ Len(s) \in Nat /\ i \in Nat
  BY <1>1, SyncAssumption, LenProperties
<1>3. i \in 1..Len(s)
  <2>1. CASE i = Len(s) + 1
    BY <1>i, <1>2, <2>1, SubSeqEmpty
  <2> QED
    BY <1>2, <2>1
<1>4. Tail(q) = SubSeq(s, i + 1, Len(s)) /\ Head(q) = s[i]
  BY <1>i, <1>2, <1>3, HeadTailOfSubSeq
<1>5. i + 1 \in 1..(Len(s) + 1)
  BY <1>2, <1>3
<1>6. SubSeq(s, i + 1, Len(s)) \in Queues
  <2>1. SubSeq(s, i + 1, Len(s)) \in {SubSeq(s, j, Len(s)) : j \in 1..(Len(s) + 1)}
    BY <1>5, Zenon
  <2> QED
    BY <2>1 DEF Queues
<1>7. s[i] \in Layers
  BY <1>2, <1>3, ElementOfSeq
<1> QED
  BY <1>4, <1>6, <1>7

\* A layer is still to come, this one counted.
Waiting(l, q) == \E i \in 1..Len(q) : q[i] = l

LEMMA TailWaits ==
    ASSUME NEW q \in Seq(Layers), q # <<>>, NEW l, Waiting(l, q), l # Head(q)
    PROVE  Waiting(l, Tail(q))
<1>1. PICK i \in 1..Len(q) : q[i] = l
  BY DEF Waiting
<1>2. /\ Head(q) = q[1] /\ Len(q) \in Nat
      /\ Len(Tail(q)) = Len(q) - 1
      /\ \A j \in 1..Len(Tail(q)) : Tail(q)[j] = q[j + 1]
  BY HeadTailProperties, LenProperties
<1>3. i - 1 \in 1..Len(Tail(q)) /\ Tail(q)[i - 1] = q[i]
  BY <1>1, <1>2
<1> QED
  BY <1>1, <1>3 DEF Waiting

--------------------------------------------------------------------------------
(* Typing, which needs to know that a layer is being attempted only while one is left. *)

Attempting == {"poll", "reconcile", "swap", "record"}

LayersLeft == run.at \in Attempting <=> run.queue # <<>>

Shape == TypeOK /\ LayersLeft

LEMMA LayerTyped ==
    ASSUME Shape, run.at \in Attempting
    PROVE  /\ Layer \in Layers
           /\ Tail(run.queue) \in Queues
           /\ run.queue \in Seq(Layers) /\ run.queue # <<>>
BY TailQueue, QueueTyped DEF Shape, TypeOK, Run, LayersLeft, Layer

LEMMA NoRunTyped ==
    /\ NoRun \in Run /\ NoRun.queue = <<>> /\ NoRun.at = "idle"
    /\ NoRun.mode = "auto" /\ NoRun.pulled = {}
BY EmptyQueue, EditsAreNumbers DEF NoRun, Run

LEMMA OnwardTyped ==
    ASSUME Shape, run.at \in Attempting,
           NEW errors \in SUBSET Layers, NEW reloaded \in SUBSET Layers,
           run' = Onward(errors, reloaded)
    PROVE  /\ run' \in Run
           /\ run'.at \in {"idle", "poll", "lists"}
           /\ run'.at = "poll" <=> run'.queue # <<>>
           /\ \/ run' = NoRun
              \/ /\ run'.queue = Tail(run.queue) /\ run'.mode = run.mode
                 /\ run'.errors = errors /\ run'.pulled = reloaded
<1>0. CASE EndsHere(errors)
  BY <1>0, NoRunTyped DEF Onward
<1>n. CASE ~EndsHere(errors)
  <2>1. /\ run \in Run /\ run.queue \in Seq(Layers) /\ run.queue # <<>>
        /\ Tail(run.queue) \in Queues
    BY LayerTyped DEF Shape, TypeOK
  <2>2. /\ Len(run.queue) \in Nat
        /\ Tail(run.queue) \in Seq(Layers)
        /\ Len(Tail(run.queue)) = Len(run.queue) - 1
    BY <2>1, HeadTailProperties, LenProperties
  <2>3. Len(run.queue) > 1 <=> Tail(run.queue) # <<>>
    <3>1. Tail(run.queue) = <<>> <=> Len(Tail(run.queue)) = 0
      BY <2>2, EmptySeq, Zenon
    <3>2. Len(Tail(run.queue)) \in Nat
      BY <2>2, LenProperties
    <3> DEFINE n == Len(run.queue)
               m == Len(Tail(run.queue))
    <3>3. n \in Nat /\ m \in Nat /\ m = n - 1
      BY <2>2, <3>2
    <3> HIDE DEF n, m
    <3>4. n > 1 <=> m # 0
      BY <3>3
    <3> QED
      BY <3>1, <3>4, Zenon DEF n, m
  <2>4. /\ run'.at = IF Len(run.queue) > 1 THEN "poll" ELSE "lists"
        /\ run'.queue = Tail(run.queue) /\ run'.mode = run.mode
        /\ run'.errors = errors /\ run'.pulled = reloaded
    BY <1>n, <2>1 DEF Onward, Run
  <2>5. run' \in Run
    BY <1>n, <2>1, EditsAreNumbers DEF Onward, Run
  <2> QED
    BY <2>3, <2>4, <2>5
<1> QED
  BY <1>0, <1>n

LEMMA InitShape == Init => Shape
<1> SUFFICES ASSUME Init PROVE Shape
  OBVIOUS
<1>1. Nowhere \in MirrorVersion
  BY EditsAreNumbers DEF Nowhere, MirrorVersion
<1>2. published \in [Layers -> Edits \ {NoEdit}]
  <2>1. \A l \in Layers : 1 \in 0..MaxVersion[l]
    BY SyncAssumption
  <2> QED
    BY <2>1, EditsAreNumbers DEF Init, NoEdit
<1>3. byHand \in 0..MaxByHand /\ faults \in 0..MaxFaults
  BY SyncAssumption DEF Init
<1>4. LayersLeft
  BY NoRunTyped DEF Init, LayersLeft, Attempting
<1> QED
  BY <1>1, <1>2, <1>3, <1>4, NoRunTyped DEF Init, Shape, TypeOK, Derived, Cli

\* What every layer publishes, holds and has on record stays an edit, whatever a step
\* sets one of them to.
LEMMA VersionsTyped ==
    ASSUME NEW f \in MirrorVersion, NEW l \in Layers, NEW e \in Edits
    PROVE  [f EXCEPT ![l] = e] \in MirrorVersion
BY DEF MirrorVersion

LEMMA FaultTyped ==
    ASSUME faults \in 0..MaxFaults, faults < MaxFaults, faults' = faults + 1
    PROVE  faults' \in 0..MaxFaults
BY SyncAssumption

LEMMA StepShape == Shape /\ [Next]_vars => Shape'
<1> SUFFICES ASSUME Shape, [Next]_vars PROVE Shape'
  OBVIOUS
<1> DEFINE
      SourceTyped == published' \in [Layers -> Edits \ {NoEdit}] /\ down' \in Outages
      MirrorTyped == /\ held' \in MirrorVersion /\ pulled' \in MirrorVersion
                     /\ observed' \in MirrorVersion
      DerivedTyped == lists' \in Derived /\ figures' \subseteq Derived
      RunTyped == run' \in Run /\ (run'.at \in Attempting <=> run'.queue # <<>>)
      RestTyped == /\ cli' \in Cli /\ byHand' \in 0..MaxByHand
                   /\ unasked' \subseteq Layers /\ faults' \in 0..MaxFaults
<1>parts. SUFFICES SourceTyped /\ MirrorTyped /\ DerivedTyped /\ RunTyped /\ RestTyped
  BY DEF Shape, TypeOK, LayersLeft
<1>now. /\ TypeOK
        /\ run \in Run /\ (run.at \in Attempting <=> run.queue # <<>>)
  BY DEF Shape, TypeOK, LayersLeft
<1>stop. run' = NoRun => RunTyped
  BY NoRunTyped DEF Attempting
<1>here. run.at \in Attempting =>
           Layer \in Layers /\ published[Layer] \in Edits /\ published[Layer] \in Nat
  BY <1>now, LayerTyped, EditsAreNumbers DEF TypeOK
<1>on. ASSUME run.at \in Attempting, NEW errors \in SUBSET Layers,
              NEW reloaded \in SUBSET Layers, run' = Onward(errors, reloaded)
       PROVE  RunTyped
  BY <1>on, OnwardTyped DEF Attempting
<1>0. CASE UNCHANGED vars
  BY <1>0, <1>now DEF vars, sourceVars, mirrorVars, derivedVars, TypeOK
<1>1. ASSUME NEW l \in Layers, Publish(l)
      PROVE  SourceTyped /\ MirrorTyped /\ DerivedTyped /\ RunTyped /\ RestTyped
  <2>1. published[l] + 1 \in Edits \ {NoEdit}
    <3>1. published[l] \in Nat /\ published[l] < MaxVersion[l] /\ MaxVersion[l] \in Nat
      BY <1>1, <1>now, SyncAssumption, EditsAreNumbers DEF Publish, TypeOK
    <3>2. published[l] + 1 \in 0..MaxVersion[l] /\ published[l] + 1 # 0
      BY <3>1
    <3> QED
      BY <3>2, EditsAreNumbers DEF NoEdit
  <2>2. SourceTyped
    BY <1>1, <1>now, <2>1 DEF Publish, TypeOK
  <2>3. MirrorTyped /\ DerivedTyped /\ RunTyped /\ RestTyped
    BY <1>1, <1>now DEF Publish, TypeOK, mirrorVars, derivedVars
  <2> QED
    BY <2>2, <2>3
<1>2. ASSUME NEW layers \in Selections, NEW mode \in Modes, StartSync(layers, mode)
      PROVE  SourceTyped /\ MirrorTyped /\ DerivedTyped /\ RunTyped /\ RestTyped
  <2>1. run' = [NoRun EXCEPT !.at = "poll", !.mode = mode, !.queue = layers]
    BY <1>2 DEF StartSync
  <2>2. mode \in {"auto", "poll_only", "force", "reload"}
    BY SyncAssumption
  <2>3. RunTyped
    BY <2>1, <2>2, NoRunTyped, SelectionQueues DEF Run, Attempting
  <2>4. SourceTyped /\ MirrorTyped /\ DerivedTyped /\ RestTyped
    BY <1>2, <1>now DEF StartSync, TypeOK, sourceVars, mirrorVars, derivedVars
  <2> QED
    BY <2>3, <2>4
<1>3. CASE PollLayer
  <2>1. SourceTyped /\ DerivedTyped /\ RestTyped
    BY <1>3, <1>now DEF PollLayer, TypeOK, sourceVars, derivedVars
  <2>2. MirrorTyped
    BY <1>3, <1>now, <1>here, VersionsTyped DEF PollLayer, TypeOK, Attempting
  <2>3. RunTyped
    BY <1>3, <1>now, <1>here DEF PollLayer, Run, Attempting
  <2> QED
    BY <2>1, <2>2, <2>3
<1>14. CASE ReadEdit
  <2>1. SourceTyped /\ MirrorTyped /\ DerivedTyped /\ RestTyped
    BY <1>14, <1>now DEF ReadEdit, TypeOK, sourceVars, mirrorVars, derivedVars
  <2>2. RunTyped
    BY <1>14, <1>now, <1>here DEF ReadEdit, Run, Attempting
  <2> QED
    BY <2>1, <2>2
<1>4. CASE ReconcileLayer
  <2>1. SourceTyped /\ MirrorTyped /\ DerivedTyped /\ RestTyped
    BY <1>4, <1>now DEF ReconcileLayer, TypeOK, sourceVars, mirrorVars, derivedVars
  <2>2. RunTyped
    BY <1>4, <1>now, <1>on DEF ReconcileLayer, Attempting, Run
  <2> QED
    BY <2>1, <2>2
<1>5. CASE SwapIn
  <2>1. SourceTyped /\ DerivedTyped /\ RestTyped
    <3>1. unasked' \subseteq Layers
      BY <1>5, <1>now, <1>here DEF SwapIn, Reloaded, TypeOK, Attempting
    <3> QED
      BY <1>5, <1>now, <3>1 DEF SwapIn, TypeOK, sourceVars, derivedVars
  <2>2. MirrorTyped
    <3>1. PICK version \in run.target..published[Layer] :
            held' = [held EXCEPT ![Layer] = version]
      BY <1>5 DEF SwapIn
    <3>2. run.target \in Nat /\ published[Layer] \in Edits
      BY <1>5, <1>now, <1>here, EditsAreNumbers DEF SwapIn, Attempting, Run
    <3>3. version \in 0..published[Layer]
      BY <1>5, <1>here, <3>1, <3>2 DEF SwapIn, Attempting
    <3>4. version \in Edits
      BY <3>2, <3>3, EditsAreNumbers
    <3> QED
      BY <1>5, <1>now, <1>here, <3>1, <3>4, VersionsTyped DEF SwapIn, TypeOK, Attempting
  <2>3. RunTyped
    BY <1>5, <1>now DEF SwapIn, Run, Attempting
  <2> QED
    BY <2>1, <2>2, <2>3
<1>6. CASE RecordReload
  <2>1. SourceTyped /\ DerivedTyped /\ RestTyped
    BY <1>6, <1>now DEF RecordReload, TypeOK, sourceVars, derivedVars
  <2>2. MirrorTyped
    BY <1>6, <1>now, <1>here, VersionsTyped DEF RecordReload, TypeOK, Attempting, Run
  <2>3. RunTyped
    <3>1. /\ run.at \in Attempting
          /\ run' = Onward(run.errors, run.pulled \union {Layer})
      BY <1>6 DEF RecordReload, Attempting
    <3>2. run.errors \in SUBSET Layers /\ run.pulled \union {Layer} \in SUBSET Layers
      BY <1>now, <1>here, <3>1 DEF Run
    <3> QED
      BY <1>on, <3>1, <3>2
  <2> QED
    BY <2>1, <2>2, <2>3
<1>7. CASE LayerFails
  <2>1. SourceTyped /\ MirrorTyped /\ DerivedTyped /\ RestTyped
    BY <1>7, <1>now, FaultTyped
       DEF LayerFails, TypeOK, sourceVars, mirrorVars, derivedVars
  <2>2. RunTyped
    BY <1>7, <1>now, <1>here, <1>on DEF LayerFails, Attempting, Run
  <2> QED
    BY <2>1, <2>2
<1>8. CASE SnapshotLists
  <2>1. SourceTyped /\ MirrorTyped /\ DerivedTyped /\ RestTyped
    BY <1>8, <1>now
       DEF SnapshotLists, CurrentVersion, Derived, TypeOK, sourceVars, mirrorVars
  <2>2. RunTyped
    BY <1>8, <1>now, <1>stop DEF SnapshotLists, Attempting, Run
  <2> QED
    BY <2>1, <2>2
<1>9. CASE ComputeFigures
  BY <1>9, <1>now, <1>stop
     DEF ComputeFigures, CurrentVersion, Derived, TypeOK, sourceVars, mirrorVars
<1>10. CASE DeriveFails
  <2>1. SourceTyped /\ MirrorTyped /\ DerivedTyped /\ RestTyped
    BY <1>10, <1>now, FaultTyped
       DEF DeriveFails, TypeOK, sourceVars, mirrorVars, derivedVars
  <2>2. RunTyped
    BY <1>10, <1>now, <1>stop DEF DeriveFails, Attempting, Run
  <2> QED
    BY <2>1, <2>2
<1>11. CASE Crash
  BY <1>11, <1>now, <1>stop, FaultTyped
     DEF Crash, TypeOK, sourceVars, mirrorVars, derivedVars
<1>12. CASE CliBegin
  <2>1. byHand' \in 0..MaxByHand
    BY <1>12, <1>now, SyncAssumption DEF CliBegin, TypeOK
  <2> QED
    BY <1>12, <1>now, <2>1
       DEF CliBegin, CurrentVersion, Cli, TypeOK, sourceVars, mirrorVars, derivedVars
<1>13. CASE CliStore
  <2>1. Nowhere \in MirrorVersion
    BY EditsAreNumbers DEF Nowhere, MirrorVersion
  <2> QED
    BY <1>13, <1>now, <2>1 DEF CliStore, Cli, Derived, TypeOK, sourceVars, mirrorVars
<1> QED
  BY <1>0, <1>1, <1>2, <1>3, <1>4, <1>5, <1>6, <1>7, <1>8, <1>9, <1>10, <1>11, <1>12,
     <1>13, <1>14 DEF Next, Sync

\* Every reachable state of a run, its mirror and its derived products is well typed:
\* whatever sync() is asked for, it never works on a layer that is not left to do.
THEOREM Typing == Spec => []TypeOK
<1>1. Shape => TypeOK
  BY DEF Shape
<1> QED
  BY <1>1, InitShape, StepShape, PTL DEF Spec

--------------------------------------------------------------------------------
(* What the records say of the rows.  The worker's runs and those of sync.py without
   --layer attempt both Cityworks layers; the theorems on what is derived are of these. *)

WholeRuns == \A s \in Selections : \A l \in CITYWORKS : Waiting(l, s)

\* No layer's record is ahead of its rows, nor its rows of its source.
Clocks ==
    \A l \in Layers :
        /\ pulled[l] <= held[l] /\ held[l] <= published[l]
        /\ pulled[l] <= observed[l] /\ observed[l] <= published[l]

\* Where the run is, in terms of the records of the layer it is at.
AtLayer ==
    /\ run.at = "reconcile" => run.mode = "poll_only" \/ observed[Layer] = pulled[Layer]
    /\ run.at \in {"swap", "record"} =>
         /\ run.target # NoEdit
         /\ pulled[Layer] <= run.target /\ observed[Layer] <= run.target
    /\ run.at = "swap" => held[Layer] <= run.target
    /\ run.at = "record" => run.target <= held[Layer]

\* A run that only polls replaces nothing, and so derives nothing.
OnlyPolls ==
    run.mode = "poll_only" =>
        run.pulled = {} /\ run.at \notin {"swap", "record", "figures"}

\* A Cityworks layer the run is past and that did not fail has what was last observed,
\* unless the run does no more than observe.
Settled ==
    run.at # "idle" /\ run.mode # "poll_only" =>
        \A l \in CITYWORKS :
            Waiting(l, run.queue) \/ l \in run.errors \/ observed[l] = pulled[l]

\* Figures no command by hand touched are keyed by a version on record, and lie between
\* it and the rows held; for as long as it is the version last observed they are of the
\* rows held, but for rows a reload replaced that no poll asked for.
FiguresKept ==
    byHand = 0 =>
        /\ cli.at = "idle"
        /\ \A f \in figures : \A l \in CITYWORKS :
             /\ f.version[l] <= pulled[l]
             /\ f.version[l] <= f.rows[l] /\ f.rows[l] <= held[l]
             /\ observed[l] = f.version[l] => f.rows[l] = held[l] \/ l \in unasked

\* A run reaches the figures only through the gate on the lists.
FiguresRun == run.at = "figures" => run.errors \cap CITYWORKS = {}

RunInv == Shape /\ Clocks /\ AtLayer /\ FiguresRun /\ OnlyPolls

IInv == RunInv /\ Settled /\ ListsNotAhead /\ FiguresKept

\* Every version is a number: the arithmetic of the steps below.
LEMMA VersionsAreNumbers ==
    ASSUME TypeOK
    PROVE  /\ \A l \in Layers :
                /\ published[l] \in Nat /\ held[l] \in Nat
                /\ pulled[l] \in Nat /\ observed[l] \in Nat
           /\ run.target \in Nat
BY EditsAreNumbers DEF TypeOK, MirrorVersion, Run

LEMMA InitRunInv == Init => RunInv
<1> SUFFICES ASSUME Init PROVE RunInv
  OBVIOUS
<1>1. Clocks
  BY DEF Init, Clocks, Nowhere, NoEdit
<1>2. AtLayer
  BY NoRunTyped DEF Init, AtLayer
<1>3. FiguresRun /\ OnlyPolls
  BY NoRunTyped DEF Init, FiguresRun, OnlyPolls
<1> QED
  BY <1>1, <1>2, <1>3, InitShape DEF RunInv

LEMMA StepFiguresRun == RunInv /\ [Next]_vars => FiguresRun'
<1> SUFFICES ASSUME RunInv, [Next]_vars PROVE FiguresRun'
  OBVIOUS
<1>1. run \in Run /\ Shape /\ FiguresRun
  BY DEF RunInv, Shape, TypeOK
<1>2. CASE SnapshotLists \/ DeriveFails
  BY <1>1, <1>2, NoRunTyped DEF SnapshotLists, DeriveFails, MayDerive, FiguresRun, Run
<1>3. CASE ReconcileLayer \/ RecordReload \/ LayerFails
  <2>1. /\ run.at \in Attempting
        /\ \E errors \in SUBSET Layers, reloaded \in SUBSET Layers :
             run' = Onward(errors, reloaded)
    BY <1>1, <1>3, LayerTyped DEF ReconcileLayer, RecordReload, LayerFails, Attempting, Run
  <2> QED
    BY <1>1, <2>1, OnwardTyped, NoRunTyped DEF FiguresRun
<1>4. \/ SnapshotLists \/ DeriveFails \/ ReconcileLayer \/ RecordReload \/ LayerFails
      \/ run' = run \/ run'.at \in {"poll", "idle", "swap", "reconcile", "record"}
  BY <1>1, NoRunTyped
     DEF Next, Sync, Publish, StartSync, PollLayer, ReadEdit, SwapIn, ComputeFigures,
         Crash, CliBegin, CliStore, vars, Run
<1> QED
  BY <1>1, <1>2, <1>3, <1>4 DEF FiguresRun

LEMMA StepOnlyPolls == RunInv /\ [Next]_vars => OnlyPolls'
<1> SUFFICES ASSUME RunInv, [Next]_vars PROVE OnlyPolls'
  OBVIOUS
<1>1. run \in Run /\ Shape /\ OnlyPolls
  BY DEF RunInv, Shape, TypeOK
<1>2. CASE run' = NoRun
  BY <1>2, NoRunTyped DEF OnlyPolls
<1>3. CASE \E layers \in Selections, mode \in Modes : StartSync(layers, mode)
  BY <1>3, NoRunTyped DEF StartSync, OnlyPolls, Run
<1>4. CASE ReconcileLayer \/ RecordReload \/ LayerFails
  <2>1. PICK errors \in SUBSET Layers, reloaded \in SUBSET Layers :
          /\ run' = Onward(errors, reloaded)
          /\ run.mode = "poll_only" => reloaded = {}
    BY <1>1, <1>4, LayerTyped
       DEF ReconcileLayer, RecordReload, LayerFails, Attempting, Run, OnlyPolls
  <2>2. run.at \in Attempting
    BY <1>4 DEF ReconcileLayer, RecordReload, LayerFails, Attempting
  <2> QED
    BY <1>1, <2>1, <2>2, OnwardTyped, NoRunTyped DEF OnlyPolls
<1>5. CASE PollLayer \/ ReadEdit \/ SwapIn \/ SnapshotLists \/ DeriveFails
  BY <1>1, <1>5, NoRunTyped
     DEF PollLayer, Pulls, ReadEdit, SwapIn, SnapshotLists, DeriveFails, MayDerive,
         OnlyPolls, Run
<1>6. CASE run' = run
  BY <1>1, <1>6 DEF OnlyPolls
<1> QED
  BY <1>2, <1>3, <1>4, <1>5, <1>6
     DEF Next, Sync, Publish, ComputeFigures, Crash, CliBegin, CliStore, vars

\* What each step does to the records, at the layer the run is at.
LEMMA StepRunInv == RunInv /\ [Next]_vars => RunInv'
<1> SUFFICES ASSUME RunInv, [Next]_vars PROVE Clocks' /\ AtLayer'
  BY StepShape, StepFiguresRun, StepOnlyPolls DEF RunInv
<1>now. Shape /\ TypeOK /\ Clocks /\ AtLayer
  BY DEF RunInv, Shape
<1>num. /\ \A l \in Layers :
             /\ published[l] \in Nat /\ held[l] \in Nat
             /\ pulled[l] \in Nat /\ observed[l] \in Nat
        /\ run.target \in Nat
  BY <1>now, VersionsAreNumbers
<1>here. run.at \in Attempting => Layer \in Layers
  BY <1>now, LayerTyped
<1>on. ASSUME run.at \in Attempting, NEW errors \in SUBSET Layers,
              NEW reloaded \in SUBSET Layers, run' = Onward(errors, reloaded)
       PROVE  AtLayer'
  BY <1>now, <1>on, OnwardTyped DEF AtLayer
<1>out. ASSUME run'.at \in {"idle", "poll", "lists", "figures"} PROVE AtLayer'
  BY <1>out DEF AtLayer
<1>none. run' = NoRun => AtLayer'
  BY <1>out, NoRunTyped
<1>0. CASE UNCHANGED vars
  BY <1>0, <1>now DEF vars, sourceVars, mirrorVars, Clocks, AtLayer, Layer
<1>1. ASSUME NEW l \in Layers, Publish(l) PROVE Clocks' /\ AtLayer'
  <2>1. published' = [published EXCEPT ![l] = @ + 1] /\ UNCHANGED <<mirrorVars, run>>
    BY <1>1 DEF Publish
  <2>2. Clocks'
    BY <1>now, <1>num, <2>1 DEF Clocks, mirrorVars, TypeOK
  <2>3. AtLayer'
    BY <1>now, <2>1 DEF AtLayer, Layer, mirrorVars
  <2> QED
    BY <2>2, <2>3
<1>2. ASSUME NEW layers \in Selections, NEW mode \in Modes, StartSync(layers, mode)
      PROVE  Clocks' /\ AtLayer'
  <2>1. run'.at = "poll"
    BY <1>2, NoRunTyped DEF StartSync, Run
  <2> QED
    BY <1>2, <1>now, <1>out, <2>1 DEF StartSync, Clocks, sourceVars, mirrorVars
<1>edit. ASSUME run.at \in Attempting
         PROVE  /\ published[Layer] # NoEdit /\ held[Layer] <= published[Layer]
                /\ pulled[Layer] <= published[Layer] /\ observed[Layer] <= published[Layer]
  BY <1>now, <1>num, <1>here, <1>edit DEF Clocks, TypeOK
<1>3. CASE PollLayer
  <2>1. /\ run.at = "poll" /\ run.at \in Attempting /\ Layer \in Layers
        /\ observed' = [observed EXCEPT ![Layer] = published[Layer]]
        /\ UNCHANGED <<published, held, pulled>>
    BY <1>3, <1>here DEF PollLayer, sourceVars, Attempting
  <2>2. Clocks'
    BY <1>now, <1>num, <2>1 DEF Clocks, TypeOK, MirrorVersion
  <2>3. /\ Layer' = Layer /\ run'.mode = run.mode
        /\ observed'[Layer] = published[Layer]
        /\ pulled'[Layer] = pulled[Layer] /\ held'[Layer] = held[Layer]
        /\ \/ run'.at = "swap" /\ run'.target = published[Layer]
           \/ /\ run.mode = "poll_only" \/ ~(published[Layer] > pulled[Layer])
              /\ run'.at = "reconcile"
    BY <1>3, <1>now, <2>1 DEF PollLayer, Pulls, Layer, TypeOK, Run, MirrorVersion
  <2>4. AtLayer'
    BY <1>num, <1>edit, <2>1, <2>3 DEF AtLayer
  <2> QED
    BY <2>2, <2>4
<1>10. CASE ReadEdit
  <2>1. /\ run.at \in Attempting /\ Layer \in Layers
        /\ UNCHANGED <<published, held, pulled, observed>>
        /\ run'.at = "swap" /\ run'.target = published[Layer] /\ Layer' = Layer
    BY <1>10, <1>now, <1>here DEF ReadEdit, sourceVars, mirrorVars, Attempting, Layer, TypeOK, Run
  <2> QED
    BY <1>now, <1>num, <1>edit, <2>1 DEF AtLayer, Clocks
<1>4. CASE ReconcileLayer
  BY <1>4, <1>now, <1>on
     DEF ReconcileLayer, Attempting, Clocks, TypeOK, Run, sourceVars, mirrorVars
<1>5. CASE SwapIn
  <2>1. PICK version \in run.target..published[Layer] :
          held' = [held EXCEPT ![Layer] = version]
    BY <1>5 DEF SwapIn
  <2>2. /\ run.at = "swap" /\ Layer \in Layers
        /\ run' = [run EXCEPT !.at = "record"]
        /\ UNCHANGED <<published, pulled, observed>>
    BY <1>5, <1>here DEF SwapIn, sourceVars, Attempting
  <2>3. /\ run.target # NoEdit
        /\ pulled[Layer] <= run.target /\ observed[Layer] <= run.target
        /\ version \in Nat /\ run.target <= version /\ version <= published[Layer]
    BY <1>now, <1>num, <2>1, <2>2 DEF AtLayer
  <2>4. Clocks'
    BY <1>now, <1>num, <2>1, <2>2, <2>3 DEF Clocks, TypeOK, MirrorVersion
  <2>5. /\ Layer' = Layer /\ run'.target = run.target /\ run'.at = "record"
        /\ held'[Layer] = version
    BY <1>now, <2>1, <2>2 DEF Layer, TypeOK, Run, MirrorVersion
  <2>6. AtLayer'
    BY <2>2, <2>3, <2>5 DEF AtLayer
  <2> QED
    BY <2>4, <2>6
<1>6. CASE RecordReload
  <2>1. /\ run.at = "record" /\ Layer \in Layers
        /\ pulled' = [pulled EXCEPT ![Layer] = run.target]
        /\ observed' = [observed EXCEPT ![Layer] = run.target]
        /\ run' = Onward(run.errors, run.pulled \union {Layer})
        /\ UNCHANGED <<published, held>>
    BY <1>6, <1>here DEF RecordReload, sourceVars, Attempting
  <2>2. pulled[Layer] <= run.target /\ run.target <= held[Layer]
    BY <1>now, <2>1 DEF AtLayer
  <2>3. Clocks'
    BY <1>now, <1>num, <2>1, <2>2 DEF Clocks, TypeOK, MirrorVersion
  <2>4. run.errors \in SUBSET Layers /\ run.pulled \union {Layer} \in SUBSET Layers
    BY <1>now, <2>1 DEF TypeOK, Run
  <2>5. AtLayer'
    BY <1>on, <2>1, <2>4 DEF Attempting
  <2> QED
    BY <2>3, <2>5
<1>7. CASE LayerFails
  <2>1. /\ run.at \in Attempting
        /\ run' = Onward(run.errors \union {Layer}, run.pulled)
    BY <1>7 DEF LayerFails, Attempting
  <2>2. run.errors \union {Layer} \in SUBSET Layers /\ run.pulled \in SUBSET Layers
    BY <1>now, <1>here, <2>1 DEF TypeOK, Run
  <2> QED
    BY <1>7, <1>now, <1>on, <2>1, <2>2 DEF LayerFails, Clocks, sourceVars, mirrorVars
<1>8. CASE SnapshotLists \/ ComputeFigures \/ DeriveFails \/ Crash
  <2>1. run' = NoRun \/ run'.at = "figures"
    BY <1>8, <1>now DEF SnapshotLists, ComputeFigures, DeriveFails, Crash, TypeOK, Run
  <2>2. Clocks'
    BY <1>8, <1>now
       DEF SnapshotLists, ComputeFigures, DeriveFails, Crash, Clocks, sourceVars, mirrorVars
  <2> QED
    BY <1>out, <1>none, <2>1, <2>2
<1>9. CASE CliBegin \/ CliStore
  BY <1>9, <1>now DEF CliBegin, CliStore, Clocks, AtLayer, Layer, sourceVars, mirrorVars
<1> QED
  BY <1>0, <1>1, <1>2, <1>3, <1>4, <1>5, <1>6, <1>7, <1>8, <1>9, <1>10
     DEF Next, Sync

--------------------------------------------------------------------------------
(* The retained lists. *)

\* The layers behind the run, when it goes on from the one it is at.
LEMMA OnwardSettled ==
    ASSUME RunInv, Settled, run.at \in Attempting,
           NEW errors \in SUBSET Layers, NEW reloaded \in SUBSET Layers,
           run' = Onward(errors, reloaded), run.errors \subseteq errors,
           \/ run.mode = "poll_only" \/ Layer \in errors
           \/ observed'[Layer] = pulled'[Layer],
           \A l \in Layers : l # Layer =>
               observed'[l] = observed[l] /\ pulled'[l] = pulled[l]
    PROVE  Settled'
<1>1. /\ run.queue \in Seq(Layers) /\ run.queue # <<>>
      /\ \/ run' = NoRun
         \/ run'.queue = Tail(run.queue) /\ run'.errors = errors /\ run'.mode = run.mode
  BY LayerTyped, OnwardTyped DEF RunInv
<1>2. SUFFICES ASSUME NEW l \in CITYWORKS, run'.at # "idle", run'.mode # "poll_only"
               PROVE  \/ Waiting(l, run'.queue) \/ l \in run'.errors
                      \/ observed'[l] = pulled'[l]
  BY DEF Settled
<1>3. /\ run'.queue = Tail(run.queue) /\ run'.errors = errors
      /\ run.mode # "poll_only"
  BY <1>1, <1>2, NoRunTyped
<1>4. CASE l = Layer
  BY <1>3, <1>4
<1>5. CASE l # Layer
  <2>1. Waiting(l, run.queue) \/ l \in run.errors \/ observed[l] = pulled[l]
    BY <1>3 DEF Settled, Attempting
  <2>2. Waiting(l, run.queue) => Waiting(l, Tail(run.queue))
    BY <1>1, <1>5, TailWaits DEF Layer
  <2>3. observed'[l] = observed[l] /\ pulled'[l] = pulled[l]
    BY <1>5 DEF Layers
  <2> QED
    BY <1>3, <2>1, <2>2, <2>3
<1> QED
  BY <1>4, <1>5

LEMMA StepSettled ==
    ASSUME WholeRuns, RunInv, Settled, [Next]_vars
    PROVE  Settled'
<1>now. Shape /\ TypeOK /\ Clocks /\ AtLayer
  BY DEF RunInv, Shape
<1>here. run.at \in Attempting =>
           Layer \in Layers /\ run.errors \in SUBSET Layers /\ run.pulled \in SUBSET Layers
  BY <1>now, LayerTyped DEF TypeOK, Run
<1>keep. ASSUME run'.at # "idle" => run.at # "idle",
                run'.queue = run.queue, run'.errors = run.errors, run'.mode = run.mode,
                UNCHANGED <<observed, pulled>>
         PROVE  Settled'
  BY <1>keep DEF Settled
<1>stop. run' = NoRun => Settled'
  BY NoRunTyped DEF Settled
<1>0. CASE UNCHANGED vars
  BY <1>0, <1>keep DEF vars, mirrorVars
<1>1. CASE \E l \in Layers : Publish(l)
  BY <1>1, <1>keep DEF Publish, mirrorVars
<1>2. ASSUME NEW layers \in Selections, NEW mode \in Modes, StartSync(layers, mode)
      PROVE  Settled'
  <2>1. run'.queue = layers
    BY <1>2, NoRunTyped DEF StartSync, Run
  <2> QED
    BY <2>1, WholeRuns DEF WholeRuns, Settled
<1>3. CASE PollLayer
  <2>1. /\ run.at = "poll" /\ Layer \in Layers
        /\ observed' = [observed EXCEPT ![Layer] = published[Layer]]
        /\ pulled' = pulled
        /\ run'.queue = run.queue /\ run'.errors = run.errors /\ run'.mode = run.mode
    BY <1>3, <1>now, <1>here DEF PollLayer, Attempting, TypeOK, Run
  <2>2. SUFFICES ASSUME NEW l \in CITYWORKS, run.mode # "poll_only"
                 PROVE  \/ Waiting(l, run'.queue) \/ l \in run'.errors
                        \/ observed'[l] = pulled'[l]
    BY <2>1 DEF Settled
  <2>3. CASE l = Layer
    <3>1. run.queue \in Seq(Layers) /\ run.queue # <<>>
      BY <1>now, <2>1, LayerTyped DEF Attempting
    <3>2. 1 \in 1..Len(run.queue) /\ run.queue[1] = l
      BY <2>3, <3>1, EmptySeq, LenProperties DEF Layer
    <3> QED
      BY <2>1, <3>2 DEF Waiting
  <2>4. CASE l # Layer
    BY <1>now, <2>1, <2>2, <2>4 DEF Settled, Layers, TypeOK, MirrorVersion
  <2> QED
    BY <2>3, <2>4
<1>4. CASE ReconcileLayer
  <2>1. /\ run.at \in Attempting
        /\ run.mode = "poll_only" \/ observed[Layer] = pulled[Layer]
        /\ run' = Onward(run.errors, run.pulled) /\ UNCHANGED <<observed, pulled>>
    BY <1>4, <1>now DEF ReconcileLayer, AtLayer, Attempting, mirrorVars
  <2> QED
    BY <1>here, <2>1, OnwardSettled
<1>5. CASE ReadEdit \/ SwapIn
  BY <1>5, <1>now, <1>keep DEF ReadEdit, SwapIn, mirrorVars, TypeOK, Run
<1>6. CASE RecordReload
  <2>1. /\ run.at \in Attempting
        /\ pulled' = [pulled EXCEPT ![Layer] = run.target]
        /\ observed' = [observed EXCEPT ![Layer] = run.target]
        /\ run' = Onward(run.errors, run.pulled \union {Layer})
    BY <1>6 DEF RecordReload, Attempting
  <2>2. /\ observed'[Layer] = pulled'[Layer]
        /\ \A l \in Layers : l # Layer =>
             observed'[l] = observed[l] /\ pulled'[l] = pulled[l]
    BY <1>now, <1>here, <2>1 DEF TypeOK, MirrorVersion
  <2>3. run.pulled \union {Layer} \in SUBSET Layers
    BY <1>here, <2>1
  <2> QED
    BY <1>here, <2>1, <2>2, <2>3, OnwardSettled
<1>7. CASE LayerFails
  <2>1. /\ run.at \in Attempting
        /\ run' = Onward(run.errors \union {Layer}, run.pulled)
        /\ UNCHANGED <<observed, pulled>>
    BY <1>7 DEF LayerFails, Attempting, mirrorVars
  <2>2. run.errors \union {Layer} \in SUBSET Layers
    BY <1>here, <2>1
  <2> QED
    BY <1>here, <2>1, <2>2, OnwardSettled
<1>8. CASE SnapshotLists
  BY <1>8, <1>now, <1>keep, <1>stop DEF SnapshotLists, mirrorVars, TypeOK, Run
<1>9. CASE ComputeFigures \/ Crash
  BY <1>9, <1>stop DEF ComputeFigures, Crash
<1>10. CASE DeriveFails
  BY <1>10, <1>now, <1>keep, <1>stop DEF DeriveFails, mirrorVars, TypeOK, Run
<1>11. CASE CliBegin \/ CliStore
  BY <1>11, <1>keep DEF CliBegin, CliStore, mirrorVars
<1> QED
  BY <1>0, <1>1, <1>2, <1>3, <1>4, <1>5, <1>6, <1>7, <1>8, <1>9, <1>10, <1>11
     DEF Next, Sync

\* When the run may derive, each Cityworks layer's rows are of what was last observed,
\* or of something newer.
LEMMA DerivesFromRecord ==
    ASSUME RunInv, Settled, run.at \in {"lists", "figures"}, run.mode # "poll_only",
           run.errors \cap CITYWORKS = {}
    PROVE  \A l \in CITYWORKS : observed[l] = pulled[l] /\ observed[l] <= held[l]
<1>1. run.queue = <<>>
  BY DEF RunInv, Shape, LayersLeft, Attempting
<1>2. \A l \in CITYWORKS : ~Waiting(l, run.queue)
  BY <1>1 DEF Waiting
<1>3. \A l \in CITYWORKS : observed[l] = pulled[l]
  BY <1>2 DEF Settled
<1>4. \A l \in CITYWORKS : l \in Layers
  BY DEF Layers
<1> QED
  BY <1>3, <1>4 DEF RunInv, Clocks

LEMMA StepLists ==
    ASSUME RunInv, Settled, ListsNotAhead, [Next]_vars
    PROVE  ListsNotAhead'
<1>1. CASE SnapshotLists
  <2>1. CASE MayDerive
    <3>1. \A l \in CITYWORKS : observed[l] <= held[l]
      BY <1>1, <2>1, DerivesFromRecord DEF SnapshotLists, MayDerive, RunInv, OnlyPolls
    <3>2. lists' = [version |-> observed, rows |-> held]
      BY <1>1, <2>1 DEF SnapshotLists, CurrentVersion
    <3> QED
      BY <3>1, <3>2 DEF ListsNotAhead
  <2>2. CASE ~MayDerive
    BY <1>1, <2>2 DEF SnapshotLists, ListsNotAhead
  <2> QED
    BY <2>1, <2>2
<1>2. SnapshotLists \/ UNCHANGED lists
  BY DEF Next, Sync, Publish, StartSync, PollLayer, ReadEdit, ReconcileLayer, SwapIn,
         RecordReload, LayerFails, ComputeFigures, DeriveFails, Crash, CliBegin, CliStore, vars,
         derivedVars
<1> QED
  BY <1>1, <1>2 DEF ListsNotAhead

--------------------------------------------------------------------------------
(* The stored figures. *)

\* A step that moves neither rows nor records keeps the figures that are stored.
LEMMA FiguresStand ==
    ASSUME FiguresKept, UNCHANGED <<figures, held, pulled, observed, byHand, unasked, cli>>
    PROVE  FiguresKept'
BY DEF FiguresKept

\* A reload that ends where it began brings the rows the figures were of; one that ends
\* on something newer is noted, unless a poll had asked for it.
LEMMA SwapKeepsFigures ==
    ASSUME RunInv, FiguresKept, SwapIn, byHand = 0, NEW f \in figures, NEW l \in CITYWORKS
    PROVE  /\ f.version[l] <= f.rows[l] /\ f.rows[l] <= held'[l]
           /\ observed[l] = f.version[l] => f.rows[l] = held'[l] \/ l \in unasked'
<1>now. TypeOK /\ Clocks /\ AtLayer
  BY DEF RunInv, Shape
<1>num. /\ published[l] \in Nat /\ held[l] \in Nat
        /\ pulled[l] \in Nat /\ observed[l] \in Nat /\ run.target \in Nat
        /\ f.version[l] \in Nat /\ f.rows[l] \in Nat
  BY <1>now, VersionsAreNumbers, EditsAreNumbers
     DEF TypeOK, Derived, MirrorVersion, Layers
<1>1. PICK version \in run.target..published[Layer] :
        held' = [held EXCEPT ![Layer] = version] /\ unasked' = Reloaded(version)
  BY DEF SwapIn
<1>2. /\ run.at = "swap" /\ Layer \in Layers /\ l \in Layers
  BY LayerTyped DEF SwapIn, RunInv, Attempting, Layers
<1>3. /\ f.version[l] <= pulled[l] /\ pulled[l] <= observed[l]
      /\ f.version[l] <= f.rows[l] /\ f.rows[l] <= held[l]
      /\ observed[l] = f.version[l] => f.rows[l] = held[l] \/ l \in unasked
  BY <1>now, <1>2 DEF FiguresKept, Clocks
<1>4. CASE l # Layer
  <2>1. held'[l] = held[l] /\ (l \in unasked => l \in unasked')
    BY <1>now, <1>1, <1>2, <1>4 DEF TypeOK, MirrorVersion, Reloaded
  <2> QED
    BY <1>3, <2>1
<1>5. CASE l = Layer
  <2>1. /\ held[l] <= run.target /\ pulled[l] <= run.target /\ run.target <= version
        /\ version \in Nat /\ held'[l] = version
    BY <1>now, <1>num, <1>1, <1>2, <1>5 DEF AtLayer, TypeOK, MirrorVersion
  <2>2. f.rows[l] <= held'[l]
    BY <1>num, <1>3, <2>1
  <2>3. ASSUME observed[l] = f.version[l], version # f.rows[l]
        PROVE  observed[l] = pulled[l] /\ version > pulled[l]
    BY <1>num, <1>3, <2>1, <2>3
  <2>4. ASSUME observed[l] = pulled[l], version > pulled[l] PROVE l \in unasked'
    BY <1>1, <1>5, <2>4 DEF Reloaded
  <2> QED
    BY <1>3, <2>1, <2>2, <2>3, <2>4
<1> QED
  BY <1>4, <1>5

LEMMA StepFigures ==
    ASSUME RunInv, Settled, FiguresKept, [Next]_vars
    PROVE  FiguresKept'
<1>now. TypeOK /\ Clocks /\ AtLayer
  BY DEF RunInv, Shape
<1>num. \A l \in Layers :
          /\ published[l] \in Nat /\ held[l] \in Nat
          /\ pulled[l] \in Nat /\ observed[l] \in Nat
  BY <1>now, VersionsAreNumbers
<1>here. run.at \in Attempting => Layer \in Layers
  BY LayerTyped DEF RunInv
<1>city. \A l \in CITYWORKS : l \in Layers
  BY DEF Layers
<1>old. \A f \in figures : \A l \in Layers : f.version[l] \in Nat
  BY <1>now, EditsAreNumbers DEF TypeOK, Derived, MirrorVersion
<1>1. CASE \/ UNCHANGED vars
           \/ \E l \in Layers : Publish(l)
           \/ \E layers \in Selections, mode \in Modes : StartSync(layers, mode)
           \/ ReadEdit \/ ReconcileLayer \/ LayerFails \/ SnapshotLists
           \/ DeriveFails \/ Crash
  BY <1>1, FiguresStand
     DEF vars, Publish, StartSync, ReadEdit, ReconcileLayer, LayerFails, SnapshotLists,
         DeriveFails, Crash, mirrorVars, derivedVars
<1>2. CASE PollLayer
  <2>1. /\ Layer \in Layers
        /\ observed' = [observed EXCEPT ![Layer] = published[Layer]]
        /\ UNCHANGED <<figures, held, pulled, byHand, unasked, cli>>
    BY <1>2, <1>here DEF PollLayer, derivedVars, Attempting
  <2>2. SUFFICES ASSUME byHand = 0, NEW f \in figures, NEW l \in CITYWORKS,
                        observed'[l] = f.version[l]
                 PROVE  observed[l] = f.version[l]
    BY <2>1 DEF FiguresKept
  <2>3. f.version[l] <= pulled[l]
    BY <2>2 DEF FiguresKept
  <2>4. pulled[l] <= observed[l] /\ observed[l] <= published[l]
    BY <1>now, <1>city DEF Clocks
  <2>5. observed'[l] \in {observed[l], published[l]}
    BY <1>now, <1>city, <2>1 DEF TypeOK, MirrorVersion
  <2> QED
    BY <1>num, <1>old, <1>city, <2>2, <2>3, <2>4, <2>5
<1>3. CASE SwapIn
  BY <1>3, SwapKeepsFigures DEF SwapIn, FiguresKept, derivedVars
<1>4. CASE RecordReload
  <2>1. /\ Layer \in Layers
        /\ pulled[Layer] <= run.target /\ observed[Layer] <= run.target
        /\ run.target \in Nat
        /\ pulled' = [pulled EXCEPT ![Layer] = run.target]
        /\ observed' = [observed EXCEPT ![Layer] = run.target]
        /\ UNCHANGED <<figures, held, byHand, unasked, cli>>
    BY <1>4, <1>now, <1>here, VersionsAreNumbers
       DEF RecordReload, AtLayer, derivedVars, Attempting
  <2>2. \A l \in Layers : /\ observed[l] <= observed'[l] /\ pulled[l] <= pulled'[l]
                          /\ observed'[l] \in Nat /\ pulled'[l] \in Nat
                          /\ pulled[l] <= observed[l]
    BY <1>now, <1>num, <2>1 DEF TypeOK, MirrorVersion, Clocks
  <2>3. SUFFICES ASSUME byHand = 0, NEW f \in figures, NEW l \in CITYWORKS
                 PROVE  /\ f.version[l] <= pulled'[l]
                        /\ observed'[l] = f.version[l] => observed[l] = f.version[l]
    BY <2>1 DEF FiguresKept
  <2>4. f.version[l] <= pulled[l]
    BY <2>3 DEF FiguresKept
  <2> QED
    BY <1>num, <1>old, <1>city, <2>2, <2>4
<1>5. CASE ComputeFigures
  <2>1. /\ run.at = "figures"
        /\ UNCHANGED <<held, pulled, observed, byHand, unasked, cli>>
        /\ \A f \in figures' : f \in figures \/ f = [version |-> observed, rows |-> held]
    BY <1>5 DEF ComputeFigures, CurrentVersion, mirrorVars
  <2>2. \A l \in CITYWORKS : observed[l] = pulled[l] /\ observed[l] <= held[l]
    <3>1. run.errors \cap CITYWORKS = {} /\ run.mode # "poll_only"
      BY <2>1 DEF RunInv, FiguresRun, OnlyPolls
    <3> QED
      BY <2>1, <3>1, DerivesFromRecord
  <2> QED
    BY <1>num, <1>city, <2>1, <2>2 DEF FiguresKept
<1>6. CASE CliBegin \/ CliStore
  <2>1. CASE byHand = 0
    BY <1>6, <1>now, <2>1 DEF CliBegin, CliStore, FiguresKept, TypeOK
  <2>2. CASE byHand # 0
    BY <1>6, <1>now, <2>2, SyncAssumption DEF CliBegin, CliStore, FiguresKept, TypeOK
  <2> QED
    BY <2>1, <2>2
<1> QED
  BY <1>1, <1>2, <1>3, <1>4, <1>5, <1>6 DEF Next, Sync

--------------------------------------------------------------------------------
(* The theorems on what is derived. *)

LEMMA InitIInv == ASSUME Init PROVE IInv
<1>1. Settled
  BY NoRunTyped DEF Init, Settled
<1>2. ListsNotAhead
  BY DEF Init, ListsNotAhead, Nowhere, NoEdit, Layers
<1>3. FiguresKept
  BY DEF Init, FiguresKept
<1> QED
  BY <1>1, <1>2, <1>3, InitRunInv DEF IInv

LEMMA Inductive ==
    ASSUME WholeRuns
    PROVE  Spec => []IInv
<1>1. Init => IInv
  BY InitIInv
<1>2. IInv /\ [Next]_vars => IInv'
  BY WholeRuns, StepRunInv, StepSettled, StepLists, StepFigures DEF IInv
<1> QED
  BY <1>1, <1>2, PTL DEF Spec

\* A retained list never states a Cityworks version newer than the rows it was derived
\* from, whatever fails or crashes in whichever run: sync()'s refusal to derive when a
\* Cityworks layer failed is enough, as long as every run attempts both.
THEOREM ListsNeverAhead == WholeRuns => (Spec => []ListsNotAhead)
<1> SUFFICES ASSUME WholeRuns PROVE Spec => []ListsNotAhead
  OBVIOUS
<1>0. Spec => []IInv
  BY Inductive
<1>1. IInv => ListsNotAhead
  BY DEF IInv
<1> QED
  BY <1>0, <1>1, PTL

\* Until the figures' command is run by hand, the figures stored for the version last
\* observed are of the Cityworks rows held, between any two runs in any mode, but where
\* a reload nobody's poll asked for brought rows newer than their record.
THEOREM RunsStoreFigures == WholeRuns => (Spec => []RunsStoreFiguresOfHeldRows)
<1> SUFFICES ASSUME WholeRuns PROVE Spec => []RunsStoreFiguresOfHeldRows
  OBVIOUS
<1>0. Spec => []IInv
  BY Inductive
<1>1. ASSUME IInv PROVE RunsStoreFiguresOfHeldRows
  <2>1. SUFFICES ASSUME byHand = 0, NEW f \in figures, f.version = observed,
                        NEW l \in CITYWORKS, f.rows[l] # held[l]
                 PROVE  l \in unasked /\ pulled[l] < held[l]
    BY DEF RunsStoreFiguresOfHeldRows, FiguresFor, CurrentVersion
  <2>2. /\ f.version[l] <= f.rows[l] /\ f.rows[l] <= held[l] /\ l \in unasked
    BY <1>1, <2>1 DEF IInv, FiguresKept
  <2>3. /\ TypeOK /\ pulled[l] <= observed[l] /\ l \in Layers
    BY <1>1 DEF IInv, RunInv, Shape, Clocks, Layers
  <2>4. /\ held[l] \in Nat /\ pulled[l] \in Nat /\ observed[l] \in Nat /\ f.rows[l] \in Nat
    BY <2>3, VersionsAreNumbers, EditsAreNumbers DEF TypeOK, Derived, MirrorVersion
  <2> QED
    BY <2>1, <2>2, <2>3, <2>4
<1>2. IInv => RunsStoreFiguresOfHeldRows
  BY <1>1
<1> QED
  BY <1>0, <1>2, PTL

--------------------------------------------------------------------------------
(* The three copies. *)

LEMMA RunInductive == Spec => []RunInv
  BY InitRunInv, StepRunInv, PTL DEF Spec

\* A step is a publish, a swap, a recording or nothing at all to any one layer.
LEMMA LayerSteps ==
    ASSUME RunInv, [Next]_vars, NEW l \in Layers
    PROVE  \/ /\ published'[l] = published[l] + 1
              /\ held'[l] = held[l] /\ pulled'[l] = pulled[l]
           \/ /\ held'[l] \in pulled[l]..published[l] /\ held'[l] # NoEdit
              /\ published'[l] = published[l] /\ pulled'[l] = pulled[l]
           \/ /\ held[l] # NoEdit
              /\ pulled'[l] \in pulled[l]..published[l] /\ pulled'[l] <= held[l]
              /\ published'[l] = published[l] /\ held'[l] = held[l]
           \/ published'[l] = published[l] /\ held'[l] = held[l] /\ pulled'[l] = pulled[l]
<1>now. TypeOK /\ Clocks /\ AtLayer
  BY DEF RunInv, Shape
<1>num. /\ \A m \in Layers :
             /\ published[m] \in Nat /\ held[m] \in Nat
             /\ pulled[m] \in Nat /\ observed[m] \in Nat
        /\ run.target \in Nat
  BY <1>now, VersionsAreNumbers
<1>here. run.at \in Attempting => Layer \in Layers
  BY LayerTyped DEF RunInv
<1>1. ASSUME NEW m \in Layers, Publish(m)
      PROVE  /\ held'[l] = held[l] /\ pulled'[l] = pulled[l]
             /\ published'[l] \in {published[l], published[l] + 1}
  BY <1>1, <1>now DEF Publish, mirrorVars, TypeOK
<1>2. CASE SwapIn
  <2>1. PICK version \in run.target..published[Layer] :
          held' = [held EXCEPT ![Layer] = version]
    BY <1>2 DEF SwapIn
  <2>2. /\ Layer \in Layers /\ pulled[Layer] <= run.target /\ run.target # NoEdit
        /\ UNCHANGED <<published, pulled>>
    BY <1>2, <1>now, <1>here DEF SwapIn, AtLayer, sourceVars, Attempting
  <2>3. version \in pulled[Layer]..published[Layer] /\ version # NoEdit
    BY <1>num, <2>1, <2>2 DEF NoEdit
  <2> QED
    BY <1>now, <2>1, <2>2, <2>3 DEF TypeOK, MirrorVersion
<1>3. CASE RecordReload
  <2>1. /\ Layer \in Layers /\ pulled[Layer] <= run.target /\ run.target # NoEdit
        /\ run.target <= held[Layer]
        /\ pulled' = [pulled EXCEPT ![Layer] = run.target]
        /\ UNCHANGED <<published, held>>
    BY <1>3, <1>now, <1>here DEF RecordReload, AtLayer, sourceVars, Attempting
  <2>2. /\ held[Layer] # NoEdit /\ held[Layer] <= published[Layer]
        /\ run.target \in pulled[Layer]..published[Layer]
    BY <1>now, <1>num, <2>1 DEF Clocks, NoEdit
  <2> QED
    BY <1>now, <2>1, <2>2 DEF TypeOK, MirrorVersion
<1>4. \/ \E m \in Layers : Publish(m)
      \/ SwapIn \/ RecordReload \/ UNCHANGED <<published, held, pulled>>
  BY DEF Next, Sync, StartSync, PollLayer, ReadEdit, ReconcileLayer, LayerFails,
         SnapshotLists, ComputeFigures, DeriveFails, Crash, CliBegin, CliStore, vars, sourceVars,
         mirrorVars
<1> QED
  BY <1>1, <1>2, <1>3, <1>4

\* The promise of VersionedCopy, said of one layer of this module.
LEMMA RequestsStep ==
    ASSUME RunInv, [Next]_vars PROVE [Requests!Next]_Requests!vars
BY LayerSteps
   DEF Requests!Next, Requests!Publish, Requests!Replace, Requests!Claim, Requests!vars,
       Layers, CITYWORKS, NoEdit

LEMMA FieldsStep ==
    ASSUME RunInv, [Next]_vars PROVE [Fields!Next]_Fields!vars
BY LayerSteps
   DEF Fields!Next, Fields!Publish, Fields!Replace, Fields!Claim, Fields!vars,
       Layers, CITYWORKS, NoEdit

LEMMA CensusStep ==
    ASSUME RunInv, [Next]_vars PROVE [Census!Next]_Census!vars
BY LayerSteps
   DEF Census!Next, Census!Publish, Census!Replace, Census!Claim, Census!vars,
       Layers, CITYWORKS, NoEdit

LEMMA InitCopies == Init => Requests!Init /\ Fields!Init /\ Census!Init
BY DEF Init, Requests!Init, Fields!Init, Census!Init, Nowhere, NoEdit, Layers, CITYWORKS

\* Each of the three layers keeps the promise of VersionedCopy, in runs that poll them
\* in turn and go on from the failure of any.
THEOREM Implements == Spec => ImplementsVersionedCopies
<1>1. RunInv /\ [Next]_vars => [Requests!Next]_Requests!vars
  BY RequestsStep
<1>2. RunInv /\ [Next]_vars => [Fields!Next]_Fields!vars
  BY FieldsStep
<1>3. RunInv /\ [Next]_vars => [Census!Next]_Census!vars
  BY CensusStep
<1> QED
  BY <1>1, <1>2, <1>3, InitCopies, RunInductive, PTL
     DEF Spec, ImplementsVersionedCopies, Requests!Spec, Fields!Spec, Census!Spec
================================================================================
