------------------------------ MODULE HandLoadProofs ------------------------------
(***************************************************************************)
(* Theorems about HandLoad for every number of versions, whatever rows they   *)
(* have, every set of page sizes, and every number of restarts and faults.    *)
(***************************************************************************)
EXTENDS HandLoad, FiniteSetTheorems, TLAPS

--------------------------------------------------------------------------------
(* Typing. *)

LEMMA RowsOfVersions ==
    /\ \A v \in Versions : RowCount[v] \in Nat \ {0} /\ 1..RowCount[v] \subseteq ObjectIds
    /\ IsFiniteSet(ObjectIds)
<1>1. \A v \in Versions : RowCount[v] \in Nat \ {0}
  BY HandLoadAssumption
<1>2. \A v \in Versions : 1..RowCount[v] \subseteq ObjectIds
  BY DEF ObjectIds
<1>3. IsFiniteSet(Versions)
  BY HandLoadAssumption, FS_Interval DEF Versions
<1>4. IsFiniteSet({1..RowCount[v] : v \in Versions})
  <2> DEFINE rows == [v \in Versions |-> 1..RowCount[v]]
  <2>1. rows \in Surjection(Versions, {1..RowCount[v] : v \in Versions})
    BY DEF Surjection
  <2> HIDE DEF rows
  <2> QED BY <1>3, <2>1, FS_Surjection
<1>5. \A rows \in {1..RowCount[v] : v \in Versions} : IsFiniteSet(rows)
  BY <1>1, FS_Interval
<1>6. IsFiniteSet(ObjectIds)
  BY <1>4, <1>5, FS_UNION DEF ObjectIds
<1> QED BY <1>1, <1>2, <1>6

\* The rows a page brings: as many as there are behind the offset, up to its size.
LEMMA PageIsRun ==
    ASSUME NEW v \in Versions, NEW offset \in Nat, NEW size \in Nat \ {0}
    PROVE  /\ Page(v, offset, size) \subseteq 1..RowCount[v]
           /\ Cardinality(Page(v, offset, size)) \in Nat
           /\ offset <= RowCount[v] =>
                 LET next == offset + Cardinality(Page(v, offset, size)) IN
                 /\ next <= RowCount[v]
                 /\ Page(v, offset, size) = offset + 1..next
                 /\ Cardinality(Page(v, offset, size)) < size => next = RowCount[v]
<1> DEFINE rows == Page(v, offset, size)
<1>1. RowCount[v] \in Nat
  BY RowsOfVersions
<1>2. rows \subseteq 1..RowCount[v]
  BY DEF Page
<1>3. IsFiniteSet(rows) /\ Cardinality(rows) \in Nat
  <2>1. IsFiniteSet(1..RowCount[v])
    BY <1>1, FS_Interval
  <2>2. IsFiniteSet(rows)
    BY <1>2, <2>1, FS_Subset
  <2> QED BY <2>2, FS_CardinalityType
<1>4. ASSUME offset <= RowCount[v]
      PROVE  LET next == offset + Cardinality(rows) IN
             /\ next <= RowCount[v]
             /\ rows = offset + 1..next
             /\ Cardinality(rows) < size => next = RowCount[v]
  <2>1. CASE offset + size <= RowCount[v]
    <3>1. rows = offset + 1..offset + size
      BY <1>1, <2>1 DEF Page
    <3>2. Cardinality(rows) = size
      BY <3>1, FS_Interval
    <3> QED BY <2>1, <3>1, <3>2
  <2>2. CASE offset + size > RowCount[v]
    <3>1. rows = offset + 1..RowCount[v]
      BY <1>1, <2>2 DEF Page
    <3>2. Cardinality(rows) = RowCount[v] - offset
      <4>1. Cardinality(offset + 1..RowCount[v]) =
              IF offset + 1 > RowCount[v] THEN 0 ELSE RowCount[v] - (offset + 1) + 1
        BY <1>1, FS_Interval, SMTT(20)
      <4> QED BY <1>1, <1>4, <3>1, <4>1
    <3> QED BY <1>1, <3>1, <3>2
  <2> QED BY <1>1, <2>1, <2>2
<1> QED BY <1>2, <1>3, <1>4

LEMMA StoredCounted == StoredCount \in Nat
<1>1. {i \in ObjectIds : live[i] # NoEdit} \subseteq ObjectIds
  OBVIOUS
<1> QED BY <1>1, RowsOfVersions, FS_Subset, FS_CardinalityType DEF StoredCount

\* A command that is under way works on the progress row, one page size of it.
UnderWay ==
    pc # "idle" => /\ progress.row /\ job.size \in PageSizes
                   /\ result = NoResult

LEMMA InitTyped == Init => TypeOK /\ UnderWay
BY HandLoadAssumption
   DEF Init, TypeOK, UnderWay, Versions, NoEdit, NoProgress, Progress, NoJob, Job, NoResult, Limits

LEMMA StepTyped == TypeOK /\ UnderWay /\ [Next]_vars => TypeOK' /\ UnderWay'
<1> SUFFICES ASSUME TypeOK, UnderWay, [Next]_vars PROVE TypeOK' /\ UnderWay'
  OBVIOUS
<1> USE HandLoadAssumption
<1>n. NoResult \in [complete : BOOLEAN, reconciled : BOOLEAN]
  BY DEF NoResult
<1>j. NoJob \in Job
  BY DEF NoJob, Job, Limits
<1>0. CASE UNCHANGED vars
  BY <1>0 DEF vars, tables, TypeOK, UnderWay
<1>1. CASE Publish
  <2>1. published' \in Versions
    BY <1>1 DEF Publish, TypeOK, Versions
  <2> QED BY <1>1, <2>1 DEF Publish, tables, TypeOK, UnderWay
<1>2. ASSUME NEW size \in PageSizes, NEW restart \in BOOLEAN, NEW limit \in Limits,
             BeginLoad(size, restart, limit)
      PROVE  TypeOK' /\ UnderWay'
  <2> DEFINE row == ProgressOf(size, restart)
  <2>1. row \in Progress /\ row.row
    BY DEF ProgressOf, TypeOK, Progress
  <2>2. RowCount[published] \in Nat
    BY RowsOfVersions DEF TypeOK
  <2>3. restarts' \in 0..MaxRestarts
    BY <1>2 DEF BeginLoad, TypeOK
  <2>4. span' \subseteq Versions
    BY <1>2 DEF BeginLoad, TypeOK
  <2>5. progress' = row
    BY <1>2 DEF BeginLoad
  <2>6. \/ UNCHANGED <<pc, job>> /\ pc = "idle"
        \/ /\ pc' = "fetch"
           /\ job' = [NoJob EXCEPT !.size = size, !.limit = limit, !.count = RowCount[published]]
    BY <1>2 DEF BeginLoad
  <2>7. pc' \in {"idle", "fetch"} /\ result' = NoResult /\ UNCHANGED <<published, live, pulled, state, faults>>
    BY <1>2, <2>6 DEF BeginLoad
  <2>8. job' \in Job
    BY <1>j, <2>2, <2>6 DEF TypeOK, NoJob, Job
  <2>9. pc' # "idle" => job'.size \in PageSizes
    BY <2>6 DEF NoJob
  <2> HIDE DEF row
  <2> QED BY <1>n, <2>1, <2>3, <2>4, <2>5, <2>7, <2>8, <2>9 DEF TypeOK, UnderWay
<1>3. CASE FetchPage
  <2> DEFINE rows == Page(published, progress.offset, job.size)
             short == Cardinality(rows) < job.size
  <2>1. job.size \in PageSizes /\ progress.row
    BY <1>3 DEF FetchPage, UnderWay
  <2>2. Cardinality(rows) \in Nat
    BY <2>1, PageIsRun DEF TypeOK, Progress
  <2>3. live' = [i \in ObjectIds |-> IF i \in rows THEN published ELSE live[i]]
        /\ progress' = [progress EXCEPT !.offset = @ + Cardinality(rows)]
        /\ job' = [job EXCEPT !.pages = job.pages + 1, !.exhausted = short]
        /\ pc' \in {"ended", "fetch"} /\ span' = span \union {published}
        /\ UNCHANGED <<published, pulled, state, result, restarts, faults>>
    BY <1>3 DEF FetchPage
  <2>s. short \in BOOLEAN
    OBVIOUS
  <2> HIDE DEF rows, short
  <2>4. live' \in [ObjectIds -> Versions \union {NoEdit}]
    BY <2>3 DEF TypeOK
  <2>5. /\ progress' \in Progress
        /\ progress'.row
    BY <2>1, <2>2, <2>3 DEF TypeOK, Progress
  <2>6. /\ job' \in Job
        /\ job'.size = job.size
    <3>1. job.pages + 1 \in Nat
      BY DEF TypeOK, Job
    <3> QED BY <2>3, <2>s, <3>1 DEF TypeOK, Job
  <2>7. result' = NoResult
    BY <1>3, <2>3 DEF FetchPage, UnderWay
  <2> QED BY <2>1, <2>3, <2>4, <2>5, <2>6, <2>7 DEF TypeOK, UnderWay
<1>4. CASE RecordState
  <2>1. StoredCount \in Nat /\ published \in Versions
    BY StoredCounted DEF TypeOK
  <2>2. /\ job' \in Job
        /\ job'.size = job.size
    BY <1>4, <2>1 DEF RecordState, TypeOK, Job
  <2>3. state' \in [observed : Versions \union {NoEdit}, loaded : BOOLEAN]
    BY <1>4, <2>1 DEF RecordState, TypeOK
  <2> QED BY <1>4, <2>1, <2>2, <2>3 DEF RecordState, TypeOK, UnderWay
<1>5. CASE FinishRun
  BY <1>5, <1>j DEF FinishRun, TypeOK, UnderWay, Job
<1>6. CASE WorkerPolls
  <2>1. \A v \in Versions : Whole(v) \in [ObjectIds -> Versions \union {NoEdit}]
    BY DEF Whole
  <2>2. live' \in [ObjectIds -> Versions \union {NoEdit}] /\ pulled' \in Versions \union {NoEdit}
        /\ state' \in [observed : Versions \union {NoEdit}, loaded : BOOLEAN]
    <3>1. published \in Versions /\ Whole(published) \in [ObjectIds -> Versions \union {NoEdit}]
      BY <2>1 DEF TypeOK
    <3>2. CASE live' = Whole(published) /\ pulled' = published
               /\ state' = [observed |-> published, loaded |-> TRUE]
      BY <3>1, <3>2
    <3>3. CASE UNCHANGED <<live, pulled>> /\ state' = [state EXCEPT !.observed = published]
      BY <3>1, <3>3 DEF TypeOK
    <3> QED BY <1>6, <3>2, <3>3 DEF WorkerPolls
  <2> QED BY <1>6, <1>n, <2>2 DEF WorkerPolls, TypeOK, UnderWay
<1>7. CASE Stops
  BY <1>7, <1>j DEF Stops, Interrupted, TypeOK, UnderWay
<1> QED BY <1>0, <1>1, <1>2, <1>3, <1>4, <1>5, <1>6, <1>7 DEF Next

\* What load.py keeps of a layer is well typed, and a page that is being fetched is of one
\* of the page sizes.
THEOREM Typing == Spec => []TypeOK
BY InitTyped, StepTyped, PTL DEF Spec

--------------------------------------------------------------------------------
(* A load that met one version only. *)

\* The versions met have been published, and there is one if there is a progress row.
Met == span \subseteq 1..published /\ (progress.row => span # {})

\* While one version was met, and it is served or a command is at work, the rows before the
\* offset are that version's.
Prefix(v) ==
    progress.row /\ span = {v} /\ (pc # "idle" \/ published = v) =>
        /\ progress.offset <= RowCount[v]
        /\ \A i \in 1..progress.offset : live[i] = v

\* What a command at work knows of the version it met alone: the count, that it has been
\* read to its end, what is held of it, and that it is the one recorded.
Learnt(v) ==
    span = {v} =>
        /\ pc # "idle" => job.count = RowCount[v]
        /\ pc \in {"ended", "finish"} /\ job.exhausted => progress.offset = RowCount[v]
        /\ pc = "finish" => job.held = StoredCount /\ job.edit = v

\* And what is left of it.
Reconciled(v) ==
    pc = "idle" /\ result.complete /\ result.reconciled /\ span = {v} =>
        live = Whole(v) /\ pulled = v

IInv == /\ Met
        /\ \A v \in Versions : Prefix(v) /\ Learnt(v) /\ Reconciled(v)

LEMMA VersionsNumbered ==
    /\ \A v \in Versions : v \in Nat \ {0} /\ v # NoEdit
    /\ MaxVersion \in Nat
BY HandLoadAssumption DEF Versions, NoEdit

\* As many rows as the version has, and all of its own among them: there are no others.
LEMMA CountedWhole ==
    ASSUME TypeOK, NEW v \in Versions, \A i \in 1..RowCount[v] : live[i] = v,
           StoredCount = RowCount[v]
    PROVE  live = Whole(v)
<1> DEFINE stored == {i \in ObjectIds : live[i] # NoEdit}
<1>1. 1..RowCount[v] \subseteq ObjectIds /\ RowCount[v] \in Nat /\ IsFiniteSet(ObjectIds)
  BY RowsOfVersions
<1>2. IsFiniteSet(stored)
  BY <1>1, FS_Subset
<1>3. 1..RowCount[v] \subseteq stored
  BY <1>1, VersionsNumbered
<1>4. Cardinality(1..RowCount[v]) = RowCount[v]
  BY <1>1, FS_Interval
<1>5. Cardinality(stored) = RowCount[v]
  BY DEF StoredCount
<1> HIDE DEF stored
<1>6. stored = 1..RowCount[v]
  BY <1>2, <1>3, <1>4, <1>5, FS_Subset
<1>7. \A i \in ObjectIds : i \in Nat \ {0}
  BY RowsOfVersions DEF ObjectIds
<1>8. \A i \in ObjectIds : live[i] = IF i <= RowCount[v] THEN v ELSE NoEdit
  BY <1>1, <1>6, <1>7 DEF stored
<1> QED BY <1>8 DEF TypeOK, Whole

LEMMA InitIInv == Init => IInv
BY HandLoadAssumption
   DEF Init, IInv, Met, Prefix, Learnt, Reconciled, NoProgress, NoResult, NoJob, Versions

LEMMA BeginKeeps ==
    ASSUME TypeOK, IInv, NEW size \in PageSizes, NEW restart \in BOOLEAN, NEW limit \in Limits,
           BeginLoad(size, restart, limit)
    PROVE  IInv'
<1> DEFINE row == ProgressOf(size, restart)
<1>1. /\ progress' = row /\ pc = "idle" /\ result' = NoResult
      /\ span' = IF row.offset = 0 THEN {published} ELSE span \union {published}
      /\ UNCHANGED <<published, live, pulled, state>>
      /\ \/ pc' = "idle"
         \/ pc' = "fetch" /\ job' = [NoJob EXCEPT !.size = size, !.limit = limit,
                                                  !.count = RowCount[published]]
  BY DEF BeginLoad
<1>2. row.row /\ row.offset \in Nat /\ (row.offset # 0 => row = progress)
  BY DEF ProgressOf, TypeOK, Progress
<1>3. published \in 1..published /\ published \in Versions
  BY VersionsNumbered DEF TypeOK
<1> HIDE DEF row
<1>4. Met'
  BY <1>1, <1>2, <1>3 DEF IInv, Met
<1>5. ASSUME NEW v \in Versions, span' = {v}
      PROVE  /\ v = published
             /\ row.offset # 0 => progress.row /\ span = {v}
  BY <1>1, <1>2, <1>5 DEF IInv, Met
<1>6. ASSUME NEW v \in Versions PROVE Prefix(v)'
  <2> SUFFICES ASSUME span' = {v}
               PROVE  /\ row.offset <= RowCount[v]
                      /\ \A i \in 1..row.offset : live[i] = v
    BY <1>1 DEF Prefix
  <2>1. CASE row.offset = 0
    BY <2>1, RowsOfVersions
  <2>2. CASE row.offset # 0
    BY <1>2, <1>5, <2>2 DEF IInv, Prefix
  <2> QED BY <2>1, <2>2
<1>7. ASSUME NEW v \in Versions PROVE Learnt(v)'
  BY <1>1, <1>5 DEF Learnt, NoJob
<1>8. ASSUME NEW v \in Versions PROVE Reconciled(v)'
  BY <1>1 DEF Reconciled, NoResult
<1> QED BY <1>4, <1>6, <1>7, <1>8 DEF IInv

LEMMA FetchKeeps ==
    ASSUME TypeOK, UnderWay, IInv, FetchPage
    PROVE  IInv'
<1> DEFINE rows == Page(published, progress.offset, job.size)
           next == progress.offset + Cardinality(rows)
           short == Cardinality(rows) < job.size
<1>1. /\ pc = "fetch"
      /\ live' = [i \in ObjectIds |-> IF i \in rows THEN published ELSE live[i]]
      /\ progress' = [progress EXCEPT !.offset = next]
      /\ job' = [job EXCEPT !.pages = job.pages + 1, !.exhausted = short]
      /\ pc' \in {"ended", "fetch"} /\ span' = span \union {published}
      /\ UNCHANGED <<published, pulled, state, result>>
  BY DEF FetchPage
<1>2. published \in Versions /\ progress.offset \in Nat /\ job.size \in Nat \ {0} /\ progress.row
  BY <1>1, HandLoadAssumption DEF TypeOK, Progress, UnderWay
<1>3. progress'.offset = next /\ progress'.row /\ job'.count = job.count /\ job'.exhausted = short
  BY <1>1, <1>2 DEF TypeOK, Progress, Job
<1>4. /\ rows \subseteq 1..RowCount[published]
      /\ progress.offset <= RowCount[published] =>
            /\ next <= RowCount[published]
            /\ rows = progress.offset + 1..next
            /\ short => next = RowCount[published]
  BY <1>2, PageIsRun
<1>5. Cardinality(rows) \in Nat
  BY <1>2, PageIsRun
<1> HIDE DEF rows, short
<1>6. Met'
  BY <1>1, <1>2, VersionsNumbered DEF IInv, Met
<1>7. ASSUME NEW v \in Versions, span' = {v} PROVE v = published /\ span = {v}
  BY <1>1, <1>2, <1>7 DEF IInv, Met
<1>8. ASSUME NEW v \in Versions PROVE Prefix(v)'
  <2> SUFFICES ASSUME span' = {v}
               PROVE  next <= RowCount[v] /\ \A i \in 1..next : live'[i] = v
    BY <1>3 DEF Prefix
  <2>1. progress.offset <= RowCount[v] /\ \A i \in 1..progress.offset : live[i] = v
    BY <1>1, <1>2, <1>7 DEF IInv, Prefix
  <2>2. next <= RowCount[v] /\ rows = progress.offset + 1..next /\ v = published
    BY <1>4, <1>7, <2>1
  <2>3. 1..RowCount[v] \subseteq ObjectIds /\ RowCount[v] \in Nat
    BY RowsOfVersions
  <2>4. ASSUME NEW i \in 1..next PROVE live'[i] = v
    <3>1. i \in ObjectIds
      BY <1>2, <1>5, <2>2, <2>3
    <3>2. i \in rows \/ i \in 1..progress.offset
      BY <1>2, <1>5, <2>2
    <3> QED BY <1>1, <2>1, <2>2, <3>1, <3>2
  <2> QED BY <2>2, <2>4
<1>9. ASSUME NEW v \in Versions PROVE Learnt(v)'
  <2> SUFFICES ASSUME span' = {v}
               PROVE  job'.count = RowCount[v] /\ (short => next = RowCount[v])
    BY <1>1, <1>3 DEF Learnt
  <2>1. progress.offset <= RowCount[v] /\ job.count = RowCount[v] /\ v = published
    BY <1>1, <1>2, <1>7 DEF IInv, Prefix, Learnt
  <2> QED BY <1>3, <1>4, <2>1
<1>10. ASSUME NEW v \in Versions PROVE Reconciled(v)'
  BY <1>1 DEF Reconciled
<1> QED BY <1>6, <1>8, <1>9, <1>10 DEF IInv

LEMMA RecordKeeps ==
    ASSUME TypeOK, UnderWay, IInv, RecordState
    PROVE  IInv'
<1>1. /\ pc = "ended" /\ pc' = "finish" /\ span' = span \union {published}
      /\ job' = [job EXCEPT !.held = StoredCount, !.edit = published]
      /\ UNCHANGED <<published, live, progress, pulled, result>>
  BY DEF RecordState
<1>2. published \in Versions /\ progress.row
  BY <1>1 DEF TypeOK, UnderWay
<1>3. /\ job'.count = job.count /\ job'.exhausted = job.exhausted
      /\ job'.held = StoredCount' /\ job'.edit = published
  BY <1>1 DEF TypeOK, Job, StoredCount
<1>4. Met'
  BY <1>1, <1>2, VersionsNumbered DEF IInv, Met
<1>5. ASSUME NEW v \in Versions, span' = {v} PROVE v = published /\ span = {v}
  BY <1>1, <1>2, <1>5 DEF IInv, Met
<1>6. ASSUME NEW v \in Versions PROVE Prefix(v)'
  BY <1>1, <1>5 DEF IInv, Prefix
<1>7. ASSUME NEW v \in Versions PROVE Learnt(v)'
  BY <1>1, <1>3, <1>5 DEF IInv, Learnt
<1>8. ASSUME NEW v \in Versions PROVE Reconciled(v)'
  BY <1>1 DEF Reconciled
<1> QED BY <1>4, <1>6, <1>7, <1>8 DEF IInv

LEMMA FinishKeeps ==
    ASSUME TypeOK, UnderWay, IInv, FinishRun
    PROVE  IInv'
<1>1. /\ pc = "finish" /\ pc' = "idle" /\ pulled' = job.edit
      /\ result' = [complete |-> job.exhausted, reconciled |-> job.held = job.count]
      /\ UNCHANGED <<published, live, progress, span>>
  BY DEF FinishRun
<1>2. progress.row
  BY <1>1 DEF UnderWay
<1>3. Met'
  BY <1>1 DEF IInv, Met
<1>4. ASSUME NEW v \in Versions PROVE Prefix(v)' /\ Learnt(v)'
  BY <1>1 DEF IInv, Prefix, Learnt
<1>5. ASSUME NEW v \in Versions PROVE Reconciled(v)'
  <2> SUFFICES ASSUME span = {v}, job.exhausted, job.held = job.count
               PROVE  live = Whole(v) /\ job.edit = v
    BY <1>1 DEF Reconciled
  <2>1. /\ job.count = RowCount[v] /\ progress.offset = RowCount[v]
        /\ job.held = StoredCount /\ job.edit = v
    BY <1>1 DEF IInv, Learnt
  <2>2. \A i \in 1..RowCount[v] : live[i] = v
    BY <1>1, <1>2, <2>1 DEF IInv, Prefix
  <2> QED BY <2>1, <2>2, CountedWhole
<1> QED BY <1>3, <1>4, <1>5 DEF IInv

LEMMA WorkerKeeps ==
    ASSUME TypeOK, IInv, WorkerPolls
    PROVE  IInv'
<1>1. /\ pc = "idle" /\ result' = NoResult /\ (live' = live \/ live' = Whole(published))
      /\ UNCHANGED <<published, progress, pc, job, span>>
  BY DEF WorkerPolls
<1>2. Met'
  BY <1>1 DEF IInv, Met
<1>3. ASSUME NEW v \in Versions PROVE Prefix(v)'
  <2> SUFFICES ASSUME progress.row, span = {v}, published = v
               PROVE  /\ progress.offset <= RowCount[v]
                      /\ \A i \in 1..progress.offset : live'[i] = v
    BY <1>1 DEF Prefix
  <2>1. progress.offset <= RowCount[v] /\ \A i \in 1..progress.offset : live[i] = v
    BY DEF IInv, Prefix
  <2>2. progress.offset \in Nat /\ RowCount[v] \in Nat /\ 1..RowCount[v] \subseteq ObjectIds
    BY RowsOfVersions DEF TypeOK, Progress
  <2>3. \A i \in 1..progress.offset : i \in ObjectIds /\ i <= RowCount[v]
    BY <2>1, <2>2
  <2>4. \A i \in 1..progress.offset : Whole(v)[i] = v
    BY <2>3 DEF Whole
  <2> QED BY <1>1, <2>1, <2>4
<1>4. ASSUME NEW v \in Versions PROVE Learnt(v)' /\ Reconciled(v)'
  BY <1>1 DEF Learnt, Reconciled, NoResult
<1> QED BY <1>2, <1>3, <1>4 DEF IInv

LEMMA StepKeeps == TypeOK /\ UnderWay /\ IInv /\ [Next]_vars => IInv'
<1> SUFFICES ASSUME TypeOK, UnderWay, IInv, [Next]_vars PROVE IInv'
  OBVIOUS
<1>0. CASE UNCHANGED vars
  BY <1>0 DEF vars, tables, IInv, Met, Prefix, Learnt, Reconciled, StoredCount
<1>1. CASE Publish
  <2>1. /\ published' = published + 1 /\ published \in Nat
        /\ UNCHANGED <<live, progress, pulled, pc, job, result, span>>
    BY <1>1, VersionsNumbered DEF Publish, tables, TypeOK
  <2>2. Met'
    BY <2>1 DEF IInv, Met
  <2>3. ASSUME NEW v \in Versions PROVE Prefix(v)'
    <3>1. span = {v} => published' # v
      BY <2>1 DEF IInv, Met
    <3> QED BY <2>1, <3>1 DEF IInv, Prefix
  <2>4. ASSUME NEW v \in Versions PROVE Learnt(v)' /\ Reconciled(v)'
    BY <2>1 DEF IInv, Learnt, Reconciled, StoredCount
  <2> QED BY <2>2, <2>3, <2>4 DEF IInv
<1>2. ASSUME NEW size \in PageSizes, NEW restart \in BOOLEAN, NEW limit \in Limits,
             BeginLoad(size, restart, limit)
      PROVE  IInv'
  BY <1>2, BeginKeeps
<1>3. CASE FetchPage
  BY <1>3, FetchKeeps
<1>4. CASE RecordState
  BY <1>4, RecordKeeps
<1>5. CASE FinishRun
  BY <1>5, FinishKeeps
<1>6. CASE WorkerPolls
  BY <1>6, WorkerKeeps
<1>7. CASE Stops
  <2>1. /\ pc # "idle" /\ pc' = "idle" /\ result = NoResult
        /\ UNCHANGED <<published, live, progress, pulled, result, span>>
    BY <1>7 DEF Stops, Interrupted, UnderWay
  <2> QED BY <2>1 DEF IInv, Met, Prefix, Learnt, Reconciled, NoResult
<1> QED BY <1>0, <1>1, <1>2, <1>3, <1>4, <1>5, <1>6, <1>7 DEF Next

LEMMA Invariant == Spec => []IInv
<1>1. Init /\ [][Next]_vars => [](TypeOK /\ UnderWay)
  BY InitTyped, StepTyped, PTL
<1> QED BY <1>1, InitIInv, StepKeeps, PTL DEF Spec

\* load_layer's promise (load.py:3): however often a load is interrupted, resumed, limited,
\* or overtaken by a reload of the worker's, the rows before its offset are all there.
THEOREM Resumes == Spec => []ResumeIsExact
<1>1. TypeOK /\ IInv => ResumeIsExact
  BY DEF TypeOK, IInv, Prefix, ResumeIsExact
<1> QED BY <1>1, Typing, Invariant, PTL

\* A load that reports itself complete and reconciled, and met one version only, has left
\* that version whole, and on record as what the next poll is measured against.
THEOREM Reconciles == Spec => []ReconciledMeansWhole
<1>1. IInv => ReconciledMeansWhole
  BY VersionsNumbered DEF IInv, Reconciled, ReconciledMeansWhole, Baseline
<1> QED BY <1>1, Invariant, PTL

================================================================================
