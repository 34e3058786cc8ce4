----------------------------- MODULE FreshnessProofs -----------------------------
(***************************************************************************)
(* Theorems about Freshness for every number of versions and outside loads,   *)
(* every interval and every length of a run within it.                        *)
(***************************************************************************)
EXTENDS Freshness, TLAPS

--------------------------------------------------------------------------------
(* Typing. *)

LEMMA AgesSpan ==
    /\ Oldest \in Nat /\ Never = Oldest + 1 /\ Oldest = Interval + Interval + 1
    /\ MaxRun \in Nat /\ MaxRun <= Interval
    /\ 0..MaxRun \subseteq Ages
    /\ \A age \in Ages : age # Oldest => Older(age) \in Ages
BY FreshnessAssumption DEF Ages, Never, Oldest, NEXT_UPDATE_GRACE_PERIOD, Older

LEMMA OrderOfLayers ==
    /\ Len(SYNC_ORDER) = 2
    /\ SYNC_ORDER[1] = "requests" /\ SYNC_ORDER[2] = "fields"
    /\ \A i \in 1..Len(SYNC_ORDER) : SYNC_ORDER[i] \in CURRENCY_LAYERS
    /\ Len(ClockReads) = 4
BY DEF SYNC_ORDER, CURRENCY_LAYERS, ClockReads

LEMMA LayerTyped == TypeOK => Layer \in CURRENCY_LAYERS
BY OrderOfLayers DEF Layer, TypeOK, Run

LEMMA OnwardTyped == TypeOK => Onward \in Run /\ NoRun \in Run
<1> SUFFICES ASSUME TypeOK PROVE Onward \in Run /\ NoRun \in Run
  OBVIOUS
<1>1. NoRun \in Run
  BY FreshnessAssumption, OrderOfLayers DEF NoRun, Run, Versions
<1>2. CASE run.scheduled /\ run.at < Len(SYNC_ORDER)
  <2>1. Onward = [run EXCEPT !.pc = "poll", !.at = @ + 1, !.target = 0]
    BY <1>2 DEF Onward
  <2>2. run.at + 1 \in 1..Len(SYNC_ORDER) /\ 0 \in Versions
    BY <1>2, OrderOfLayers, FreshnessAssumption DEF TypeOK, Run, Versions
  <2> QED BY <1>1, <2>1, <2>2 DEF TypeOK, Run
<1>3. CASE ~(run.scheduled /\ run.at < Len(SYNC_ORDER))
  BY <1>1, <1>3 DEF Onward
<1> QED BY <1>2, <1>3

LEMMA WrittenTyped ==
    ASSUME TypeOK, outside' \subseteq CURRENCY_LAYERS,
           NEW st \in [CURRENCY_LAYERS -> LayerState], Written(st)
    PROVE  state' \in [CURRENCY_LAYERS -> LayerState] /\ req' \in Request
<1>1. Lagging(st) \subseteq CURRENCY_LAYERS
  BY DEF Lagging
<1> QED BY <1>1 DEF Written, TypeOK, Request

LEMMA ClockTyped ==
    ASSUME TypeOK, req.at \in 1..Len(ClockReads), NEW l \in CURRENCY_LAYERS,
           NEW statement \in {"state", "pulled"}
    PROVE  ReadClock(statement, l) \in Request
<1>1. req.at + 1 \in 0..Len(ClockReads) + 1
  BY OrderOfLayers
<1>2. CASE statement = "state"
  <2>1. [state[l] EXCEPT !.pulled = req.clocks[l].pulled] \in LayerState
    BY DEF TypeOK, Request, LayerState
  <2>2. ReadClock(statement, l) =
          [req EXCEPT !.at = @ + 1,
                      !.clocks[l] = [state[l] EXCEPT !.pulled = req.clocks[l].pulled]]
    BY <1>2 DEF ReadClock
  <2>3. [req.clocks EXCEPT ![l] = [state[l] EXCEPT !.pulled = req.clocks[l].pulled]]
          \in [CURRENCY_LAYERS -> LayerState]
    BY <2>1 DEF TypeOK, Request
  <2> QED BY <1>1, <2>2, <2>3 DEF TypeOK, Request
<1>3. CASE statement = "pulled"
  <2>1. [req.clocks[l] EXCEPT !.pulled = state[l].pulled] \in LayerState
    BY SMTT(20) DEF TypeOK, Request, LayerState
  <2>2. ReadClock(statement, l) =
          [req EXCEPT !.at = @ + 1, !.clocks[l].pulled = state[l].pulled]
    BY <1>3 DEF ReadClock
  <2>3. [req.clocks EXCEPT ![l] = [req.clocks[l] EXCEPT !.pulled = state[l].pulled]]
          \in [CURRENCY_LAYERS -> LayerState]
    BY <2>1 DEF TypeOK, Request
  <2> QED BY <1>1, <2>2, <2>3 DEF TypeOK, Request
<1> QED BY <1>2, <1>3

LEMMA InitTyped == Init => TypeOK
<1> SUFFICES ASSUME Init PROVE TypeOK
  OBVIOUS
<1>1. NoState \in LayerState
  BY FreshnessAssumption, AgesSpan DEF NoState, LayerState, Versions, Ages
<1>2. NoRequest \in Request
  BY <1>1, OrderOfLayers DEF NoRequest, Request
<1>3. NoRun \in Run
  BY FreshnessAssumption, OrderOfLayers DEF NoRun, Run, Versions
<1> QED BY <1>1, <1>2, <1>3, FreshnessAssumption DEF Init, TypeOK

LEMMA StepTyped == TypeOK /\ [Next]_vars => TypeOK'
<1> SUFFICES ASSUME TypeOK, [Next]_vars PROVE TypeOK'
  OBVIOUS
<1> USE FreshnessAssumption
<1>v. 1..MaxVersion \subseteq Versions /\ 0 \in Versions
  BY DEF Versions
<1>l. Layer \in CURRENCY_LAYERS
  BY LayerTyped
<1>o. Onward \in Run /\ NoRun \in Run
  BY OnwardTyped
<1>a. run.age \in Ages /\ 0 \in Ages
  BY AgesSpan DEF TypeOK, Run
<1>s. \A l \in CURRENCY_LAYERS : state[l] \in LayerState
  BY DEF TypeOK
<1>0. CASE UNCHANGED vars
  BY <1>0 DEF vars, TypeOK
<1>1. ASSUME NEW l \in CURRENCY_LAYERS, Publish(l) PROVE TypeOK'
  BY <1>1 DEF Publish, TypeOK
<1>2. CASE StartRun
  <2>1. run' \in Run
    BY <1>2, <1>o DEF StartRun, Run
  <2> QED BY <1>2, <2>1 DEF StartRun, TypeOK
<1>3. ASSUME NEW i \in 1..Len(SYNC_ORDER), NEW pc \in {"finish", "record"}, StartOutside(i, pc)
      PROVE  TypeOK'
  <2>1. published[SYNC_ORDER[i]] \in Versions
    BY <1>v, OrderOfLayers DEF TypeOK
  <2>2. run' \in Run
    BY <1>3, <2>1, <1>o DEF StartOutside, Run
  <2> QED BY <1>3, <2>2 DEF StartOutside, TypeOK
<1>4. CASE PollLayer
  <2>1. published[Layer] \in Versions
    BY <1>v, <1>l DEF TypeOK
  <2> DEFINE st == [state EXCEPT ![Layer].seen = published[Layer],
                                 ![Layer].polled = run.age, ![Layer].success = run.age]
  <2>2. st \in [CURRENCY_LAYERS -> LayerState]
    BY <2>1, <1>s, <1>a, <1>l DEF TypeOK, LayerState
  <2>3. run' \in Run
    BY <1>4, <1>o, <2>1 DEF PollLayer, TypeOK, Run
  <2>4. outside' \subseteq CURRENCY_LAYERS /\ Written(st)
    BY <1>4 DEF PollLayer, TypeOK
  <2>5. state' \in [CURRENCY_LAYERS -> LayerState] /\ req' \in Request
    BY <2>2, <2>4, WrittenTyped
  <2> QED BY <1>4, <2>3, <2>4, <2>5 DEF PollLayer, TypeOK
<1>5. CASE FinishReload \/ FinishLoad
  <2>1. run.target \in Versions
    BY DEF TypeOK, Run
  <2> DEFINE st == [state EXCEPT ![Layer].pulled = run.target]
  <2>2. st \in [CURRENCY_LAYERS -> LayerState]
    BY <2>1, <1>s, <1>l DEF TypeOK, LayerState
  <2>3. run' \in Run
    BY <1>5, <1>o DEF FinishReload, FinishLoad, TypeOK, Run
  <2>4. outside' \subseteq CURRENCY_LAYERS /\ Written(st)
    BY <1>5 DEF FinishReload, FinishLoad, TypeOK
  <2>5. state' \in [CURRENCY_LAYERS -> LayerState] /\ req' \in Request
    BY <2>2, <2>4, WrittenTyped
  <2> QED BY <1>5, <2>3, <2>4, <2>5 DEF FinishReload, FinishLoad, TypeOK
<1>6. CASE TouchLayer
  <2>1. run.target \in Versions
    BY DEF TypeOK, Run
  <2> DEFINE st == [state EXCEPT ![Layer].seen = run.target, ![Layer].loaded = TRUE,
                                 ![Layer].success = run.age]
  <2>2. st \in [CURRENCY_LAYERS -> LayerState]
    BY <2>1, <1>s, <1>l, <1>a DEF TypeOK, LayerState
  <2>4. outside' \subseteq CURRENCY_LAYERS /\ Written(st)
    BY <1>6, <1>l DEF TouchLayer, TypeOK
  <2>5. state' \in [CURRENCY_LAYERS -> LayerState] /\ req' \in Request
    BY <2>2, <2>4, WrittenTyped
  <2> QED BY <1>6, <1>o, <2>4, <2>5 DEF TouchLayer, TypeOK
<1>7. CASE RecordState
  <2>1. run.target \in Versions
    BY DEF TypeOK, Run
  <2> DEFINE st == [state EXCEPT ![Layer].seen = run.target, ![Layer].loaded = TRUE,
                                 ![Layer].success = 0]
  <2>2. st \in [CURRENCY_LAYERS -> LayerState]
    BY <2>1, <1>s, <1>l, <1>a DEF TypeOK, LayerState
  <2>3. run' \in Run
    BY <1>7 DEF RecordState, TypeOK, Run
  <2>4. outside' \subseteq CURRENCY_LAYERS /\ Written(st)
    BY <1>7, <1>l DEF RecordState, TypeOK
  <2>5. state' \in [CURRENCY_LAYERS -> LayerState] /\ req' \in Request
    BY <2>2, <2>4, WrittenTyped
  <2> QED BY <1>7, <2>3, <2>4, <2>5 DEF RecordState, TypeOK
<1>8. CASE RunFails
  BY <1>8, <1>o DEF RunFails, TypeOK
<1>9. CASE Tick
  <2>1. \A l \in CURRENCY_LAYERS :
          [state[l] EXCEPT !.polled = Older(@), !.success = Older(@)] \in LayerState
    BY <1>9, <1>s, AgesSpan DEF Tick, LayerState
  <2>2. state' \in [CURRENCY_LAYERS -> LayerState]
    BY <1>9, <2>1 DEF Tick
  <2>a. run.pc # "idle" => run.age < MaxRun
    BY <1>9 DEF Tick
  <2>b. run.age \in 0..MaxRun
    BY DEF TypeOK, Run
  <2>3. run.pc # "idle" => run.age + 1 \in 0..MaxRun
    BY <2>a, <2>b, AgesSpan
  <2>4. run' \in Run
    BY <1>9, <2>3 DEF Tick, TypeOK, Run
  <2> QED BY <1>9, <2>2, <2>4 DEF Tick, TypeOK
<1>10. CASE Begin
  <2>1. Lagging(state) \subseteq CURRENCY_LAYERS
    BY DEF Lagging
  <2>2. NoState \in LayerState
    BY <1>v, AgesSpan DEF NoState, LayerState, Ages
  <2>3. req' = [at |-> 1, clocks |-> [l \in CURRENCY_LAYERS |-> NoState],
                lagged |-> Lagging(state), outside |-> outside]
    BY <1>10 DEF Begin, NoRequest
  <2>4. 1 \in 0..Len(ClockReads) + 1
    BY OrderOfLayers
  <2>5. req' \in Request
    BY <2>1, <2>2, <2>3, <2>4 DEF Request, TypeOK
  <2> QED BY <1>10, <2>5 DEF Begin, TypeOK
<1>11. CASE ReadOn
  BY <1>11, ClockTyped DEF ReadOn, TypeOK
<1>12. CASE Answer
  <2>1. NoState \in LayerState
    BY <1>v, AgesSpan DEF NoState, LayerState, Ages
  <2>2. NoRequest \in Request
    BY <2>1, OrderOfLayers DEF NoRequest, Request
  <2> QED BY <1>12, <2>2 DEF Answer, TypeOK
<1> QED BY <1>0, <1>1, <1>2, <1>3, <1>4, <1>5, <1>6, <1>7, <1>8, <1>9, <1>10, <1>11, <1>12 DEF Next

\* The clocks of src/mirror/status.py and what writes them are well typed: no age passes
\* the oldest, and no run holds the lock for longer than MaxRun.
THEOREM Typing == Spec => []TypeOK
BY InitTyped, StepTyped, PTL DEF Spec

--------------------------------------------------------------------------------
(* What is called behind was behind. *)

Recording == {"finish", "touch", "record", "end"}

\* What a run is to record of a layer is not behind what is recorded of it.
RunAhead ==
    /\ \A l \in CURRENCY_LAYERS :
          state[l].seen <= published[l] /\ state[l].pulled <= published[l]
    /\ run.pc \in Recording =>
          /\ state[Layer].seen <= run.target
          /\ state[Layer].pulled <= run.target
          /\ run.target <= published[Layer]

\* Between the two reads of a layer, the edit read is no later than the one on record,
\* and if it is behind already then the layer was.
HalfRead(l) ==
    /\ req.clocks[l].seen <= state[l].seen
    /\ state[l].pulled # 0 /\ req.clocks[l].seen > state[l].pulled => l \in req.lagged

Known(l) == BehindSource(req.clocks[l]) => l \in req.lagged

ReadSoFar ==
    req.at # 0 =>
        /\ Lagging(state) \subseteq req.lagged
        /\ req.at = 2 => HalfRead("requests")
        /\ req.at >= 3 => Known("requests")
        /\ req.at = 4 => HalfRead("fields")
        /\ req.at = 5 => Known("fields")

LEMMA Numbers ==
    ASSUME TypeOK
    PROVE  /\ \A l \in CURRENCY_LAYERS :
                 /\ published[l] \in Nat
                 /\ state[l].seen \in Nat /\ state[l].pulled \in Nat
                 /\ req.clocks[l].seen \in Nat /\ req.clocks[l].pulled \in Nat
           /\ run.target \in Nat /\ run.age \in 0..MaxRun /\ req.at \in 0..5
BY FreshnessAssumption, OrderOfLayers DEF TypeOK, LayerState, Run, Request, Versions

\* A write in which no edit goes back, and a pull is not behind what was seen.
LEMMA WriteKeepsRead ==
    ASSUME TypeOK, TypeOK', ReadSoFar, NEW st, Written(st),
           \A l \in CURRENCY_LAYERS :
               /\ state[l].seen <= st[l].seen
               /\ st[l].pulled = state[l].pulled \/ state[l].seen <= st[l].pulled
    PROVE  ReadSoFar'
<1> SUFFICES ASSUME req'.at # 0 PROVE ReadSoFar'
  BY DEF ReadSoFar
<1>1. /\ state' = st
      /\ req' = [req EXCEPT !.lagged = @ \union Lagging(st), !.outside = @ \union outside']
      /\ req.at # 0
  BY DEF Written
<1>2. /\ req'.at = req.at /\ req'.clocks = req.clocks
      /\ req'.lagged = req.lagged \union Lagging(st)
  BY <1>1 DEF TypeOK, Request
<1>3. Lagging(state)' \subseteq req'.lagged
  BY <1>1, <1>2 DEF Lagging
<1>4. ASSUME NEW l \in CURRENCY_LAYERS, HalfRead(l) PROVE HalfRead(l)'
  <2>1. /\ state[l].seen \in Nat /\ st[l].seen \in Nat /\ req.clocks[l].seen \in Nat
        /\ state[l].pulled \in Nat /\ st[l].pulled \in Nat
    BY <1>1, FreshnessAssumption DEF TypeOK, LayerState, Request, Versions
  <2>2. req.clocks[l].seen <= st[l].seen
    BY <1>4, <2>1 DEF HalfRead
  <2>3. ASSUME st[l].pulled # 0, req.clocks[l].seen > st[l].pulled PROVE l \in req.lagged
    BY <1>4, <2>1, <2>3 DEF HalfRead
  <2> QED BY <1>1, <1>2, <2>2, <2>3 DEF HalfRead
<1>5. ASSUME NEW l \in CURRENCY_LAYERS, Known(l) PROVE Known(l)'
  BY <1>2, <1>5 DEF Known
<1> QED BY <1>1, <1>2, <1>3, <1>4, <1>5 DEF ReadSoFar, CURRENCY_LAYERS

\* A step that writes no clock and reads none.
LEMMA QuietKeepsRead ==
    ASSUME ReadSoFar, UNCHANGED <<state, req>>
    PROVE  ReadSoFar'
BY DEF ReadSoFar, HalfRead, Known, Lagging

LEMMA ReadKeepsRead ==
    ASSUME TypeOK, ReadSoFar, ReadOn
    PROVE  ReadSoFar'
<1>1. PICK l \in CURRENCY_LAYERS, statement \in {"state", "pulled"} :
        /\ ClockReads[req.at] = <<statement, l>>
        /\ req' = ReadClock(statement, l)
  BY DEF ReadOn
<1>2. req.at \in 1..4 /\ state' = state
  BY OrderOfLayers DEF ReadOn
<1>3. /\ req'.at = req.at + 1 /\ req'.lagged = req.lagged
      /\ \A k \in CURRENCY_LAYERS \ {l} : req'.clocks[k] = req.clocks[k]
      /\ statement = "state" => req'.clocks[l].seen = state[l].seen
      /\ statement = "pulled" => /\ req'.clocks[l].seen = req.clocks[l].seen
                                 /\ req'.clocks[l].pulled = state[l].pulled
  BY <1>1 DEF ReadClock, TypeOK, Request, LayerState
<1>4. Lagging(state)' \subseteq req'.lagged
  BY <1>2, <1>3 DEF ReadSoFar, Lagging
<1>5. ASSUME statement = "state" PROVE HalfRead(l)'
  BY <1>2, <1>3, <1>4, <1>5, Numbers DEF HalfRead, Lagging, BehindSource
<1>6. ASSUME statement = "pulled", HalfRead(l) PROVE Known(l)'
  BY <1>2, <1>3, <1>6 DEF HalfRead, Known, BehindSource
<1>7. ASSUME NEW k \in CURRENCY_LAYERS \ {l}, Known(k) PROVE Known(k)'
  BY <1>3, <1>7 DEF Known
<1>8. CASE req.at = 1
  <2>1. statement = "state" /\ l = "requests" /\ req'.at = 2
    BY <1>1, <1>3, <1>8 DEF ClockReads
  <2> QED BY <1>4, <1>5, <2>1 DEF ReadSoFar
<1>9. CASE req.at = 2
  <2>1. statement = "pulled" /\ l = "requests" /\ req'.at = 3
    BY <1>1, <1>3, <1>9 DEF ClockReads
  <2>2. HalfRead("requests")
    BY <1>9 DEF ReadSoFar
  <2> QED BY <1>4, <1>6, <2>1, <2>2 DEF ReadSoFar
<1>10. CASE req.at = 3
  <2>1. statement = "state" /\ l = "fields" /\ req'.at = 4
    BY <1>1, <1>3, <1>10 DEF ClockReads
  <2>2. Known("requests")
    BY <1>10 DEF ReadSoFar
  <2> QED BY <1>4, <1>5, <1>7, <2>1, <2>2 DEF ReadSoFar, CURRENCY_LAYERS
<1>11. CASE req.at = 4
  <2>1. statement = "pulled" /\ l = "fields" /\ req'.at = 5
    BY <1>1, <1>3, <1>11 DEF ClockReads
  <2>2. Known("requests") /\ HalfRead("fields")
    BY <1>11 DEF ReadSoFar
  <2> QED BY <1>4, <1>6, <1>7, <2>1, <2>2 DEF ReadSoFar, CURRENCY_LAYERS
<1> QED BY <1>2, <1>8, <1>9, <1>10, <1>11

\* The layer a run goes on with, and what it wrote of the one it leaves.
LEMMA OnwardRecordsNothing ==
    TypeOK => Onward.pc \notin Recording /\ NoRun.pc \notin Recording
BY DEF Onward, NoRun, Recording, TypeOK, Run

LEMMA BehindStep ==
    TypeOK /\ TypeOK' /\ RunAhead /\ ReadSoFar /\ [Next]_vars => RunAhead' /\ ReadSoFar'
<1> SUFFICES ASSUME TypeOK, TypeOK', RunAhead, ReadSoFar, [Next]_vars
             PROVE  RunAhead' /\ ReadSoFar'
  OBVIOUS
<1>l. Layer \in CURRENCY_LAYERS /\ SYNC_ORDER[run.at] = Layer
  BY LayerTyped DEF Layer
<1>n. /\ \A l \in CURRENCY_LAYERS :
            published[l] \in Nat /\ state[l].seen \in Nat /\ state[l].pulled \in Nat
      /\ run.target \in Nat
  BY Numbers
<1>0. CASE UNCHANGED vars
  BY <1>0, QuietKeepsRead DEF vars, RunAhead, Layer
<1>1. ASSUME NEW l \in CURRENCY_LAYERS, Publish(l) PROVE RunAhead' /\ ReadSoFar'
  <2>1. /\ \A k \in CURRENCY_LAYERS : published[k] <= published'[k] /\ published'[k] \in Nat
        /\ UNCHANGED <<state, run, req>>
    BY <1>1, <1>n DEF Publish, TypeOK
  <2> QED BY <2>1, <1>n, <1>l, QuietKeepsRead DEF RunAhead, Layer
<1>2. CASE StartRun
  BY <1>2, QuietKeepsRead DEF StartRun, NoRun, RunAhead, Recording
<1>3. ASSUME NEW i \in 1..Len(SYNC_ORDER), NEW pc \in {"finish", "record"}, StartOutside(i, pc)
      PROVE  RunAhead' /\ ReadSoFar'
  <2>1. /\ run'.target = published[SYNC_ORDER[i]] /\ Layer' = SYNC_ORDER[i]
        /\ UNCHANGED <<published, state, req>> /\ SYNC_ORDER[i] \in CURRENCY_LAYERS
    BY <1>3, OrderOfLayers DEF StartOutside, NoRun, Layer
  <2> QED BY <2>1, <1>n, QuietKeepsRead DEF RunAhead
<1>4. CASE PollLayer
  <2> DEFINE st == [state EXCEPT ![Layer].seen = published[Layer],
                                 ![Layer].polled = run.age, ![Layer].success = run.age]
  <2>1. Written(st) /\ UNCHANGED published
    BY <1>4 DEF PollLayer
  <2>2. \A l \in CURRENCY_LAYERS :
          /\ st[l].pulled = state[l].pulled
          /\ st[l].seen = IF l = Layer THEN published[l] ELSE state[l].seen
    BY DEF TypeOK, LayerState
  <2>3. state' = st
    BY <2>1 DEF Written
  <2> HIDE DEF st
  <2>4. \A l \in CURRENCY_LAYERS :
          /\ state[l].seen <= st[l].seen
          /\ st[l].pulled = state[l].pulled \/ state[l].seen <= st[l].pulled
    BY <2>1, <2>2, <1>n, <1>l DEF RunAhead
  <2>5. ReadSoFar'
    BY <2>1, <2>4, WriteKeepsRead
  <2>6. run'.pc \in Recording => /\ run'.target = published[Layer] /\ Layer' = Layer
    BY <1>4, OnwardRecordsNothing DEF PollLayer, TypeOK, Run, Layer
  <2> QED BY <2>1, <2>2, <2>3, <2>5, <2>6, <1>n, <1>l DEF RunAhead
<1>5. CASE FinishReload \/ FinishLoad
  <2> DEFINE st == [state EXCEPT ![Layer].pulled = run.target]
  <2>1. Written(st) /\ UNCHANGED published /\ run.pc \in Recording
    BY <1>5 DEF FinishReload, FinishLoad, Recording
  <2>2. \A l \in CURRENCY_LAYERS :
          /\ st[l].seen = state[l].seen
          /\ st[l].pulled = IF l = Layer THEN run.target ELSE state[l].pulled
    BY DEF TypeOK, LayerState
  <2>3. state' = st
    BY <2>1 DEF Written
  <2> HIDE DEF st
  <2>4. \A l \in CURRENCY_LAYERS :
          /\ state[l].seen <= st[l].seen
          /\ st[l].pulled = state[l].pulled \/ state[l].seen <= st[l].pulled
    BY <2>1, <2>2, <1>n, <1>l DEF RunAhead
  <2>5. ReadSoFar'
    BY <2>1, <2>4, WriteKeepsRead
  <2>6. run'.pc \in Recording => /\ run'.target = run.target /\ Layer' = Layer
    BY <1>5, OnwardRecordsNothing DEF FinishReload, FinishLoad, TypeOK, Run, Layer
  <2> QED BY <2>1, <2>2, <2>3, <2>5, <2>6, <1>n, <1>l DEF RunAhead
<1>6. CASE TouchLayer
  <2> DEFINE st == [state EXCEPT ![Layer].seen = run.target, ![Layer].loaded = TRUE,
                                 ![Layer].success = run.age]
  <2>1. Written(st) /\ UNCHANGED published /\ run.pc \in Recording /\ run' = Onward
    BY <1>6 DEF TouchLayer, Recording
  <2>2. \A l \in CURRENCY_LAYERS :
          /\ st[l].pulled = state[l].pulled
          /\ st[l].seen = IF l = Layer THEN run.target ELSE state[l].seen
    BY DEF TypeOK, LayerState
  <2>3. state' = st
    BY <2>1 DEF Written
  <2> HIDE DEF st
  <2>4. \A l \in CURRENCY_LAYERS :
          /\ state[l].seen <= st[l].seen
          /\ st[l].pulled = state[l].pulled \/ state[l].seen <= st[l].pulled
    BY <2>1, <2>2, <1>n, <1>l DEF RunAhead
  <2>5. ReadSoFar'
    BY <2>1, <2>4, WriteKeepsRead
  <2>6. run'.pc \notin Recording
    BY <2>1, OnwardRecordsNothing
  <2> QED BY <2>1, <2>2, <2>3, <2>5, <2>6, <1>n, <1>l DEF RunAhead
<1>7. CASE RecordState
  <2> DEFINE st == [state EXCEPT ![Layer].seen = run.target, ![Layer].loaded = TRUE,
                                 ![Layer].success = 0]
  <2>1. Written(st) /\ UNCHANGED published /\ run.pc \in Recording
    BY <1>7 DEF RecordState, Recording
  <2>2. \A l \in CURRENCY_LAYERS :
          /\ st[l].pulled = state[l].pulled
          /\ st[l].seen = IF l = Layer THEN run.target ELSE state[l].seen
    BY DEF TypeOK, LayerState
  <2>3. state' = st
    BY <2>1 DEF Written
  <2> HIDE DEF st
  <2>4. \A l \in CURRENCY_LAYERS :
          /\ state[l].seen <= st[l].seen
          /\ st[l].pulled = state[l].pulled \/ state[l].seen <= st[l].pulled
    BY <2>1, <2>2, <1>n, <1>l DEF RunAhead
  <2>5. ReadSoFar'
    BY <2>1, <2>4, WriteKeepsRead
  <2>6. run'.target = run.target /\ Layer' = Layer
    BY <1>7 DEF RecordState, TypeOK, Run, Layer
  <2> QED BY <2>1, <2>2, <2>3, <2>5, <2>6, <1>n, <1>l DEF RunAhead
<1>8. CASE RunFails
  BY <1>8, OnwardRecordsNothing, QuietKeepsRead DEF RunFails, RunAhead
<1>9. CASE Tick
  <2>1. req'.at = 0 /\ UNCHANGED published
    BY <1>9 DEF Tick
  <2>2. \A l \in CURRENCY_LAYERS : state'[l].seen = state[l].seen /\ state'[l].pulled = state[l].pulled
    BY <1>9 DEF Tick, TypeOK, LayerState
  <2>3. run'.pc = run.pc /\ run'.target = run.target /\ Layer' = Layer
    BY <1>9 DEF Tick, TypeOK, Run, Layer
  <2> QED BY <2>1, <2>2, <2>3, <1>l DEF RunAhead, ReadSoFar
<1>10. CASE Begin
  <2>1. req'.at = 1 /\ req'.lagged = Lagging(state)
    BY <1>10 DEF Begin, NoRequest
  <2> QED BY <1>10, <2>1 DEF Begin, RunAhead, ReadSoFar, Lagging, Layer
<1>11. CASE ReadOn
  BY <1>11, ReadKeepsRead DEF ReadOn, RunAhead, Layer
<1>12. CASE Answer
  BY <1>12 DEF Answer, NoRequest, RunAhead, ReadSoFar, Layer
<1> QED BY <1>0, <1>1, <1>2, <1>3, <1>4, <1>5, <1>6, <1>7, <1>8, <1>9, <1>10, <1>11, <1>12 DEF Next

\* layer_freshness (status.py): however the runs and the loads that write a layer's two
\* rows come between the reads of them, what is called behind was behind.
THEOREM BehindIsTrue == Spec => []BehindWasTrue
<1>1. Init => RunAhead /\ ReadSoFar
  <2> SUFFICES ASSUME Init PROVE RunAhead /\ ReadSoFar
    OBVIOUS
  <2> QED BY DEF Init, NoState, NoRun, NoRequest, RunAhead, ReadSoFar, Recording
<1>2. TypeOK /\ ReadSoFar => BehindWasTrue
  BY OrderOfLayers DEF BehindWasTrue, Answered, ReadSoFar, Known, CURRENCY_LAYERS
<1> QED BY <1>1, <1>2, Typing, BehindStep, PTL DEF Spec

--------------------------------------------------------------------------------
(* Overdue, and whose limit a lag is. *)

\* The oldest of two ages, when not both are Never.
LEMMA EarliestIsOldest ==
    ASSUME NEW a \in Ages, NEW b \in Ages
    PROVE  /\ Earliest({a, b}) \in Ages
           /\ Earliest({a, b}) = Never => a = Never /\ b = Never
           /\ Earliest({a, b}) # Never =>
                 /\ Earliest({a, b}) \in {a, b}
                 /\ \A age \in {a, b} \ {Never} : age <= Earliest({a, b})
<1>n. Never \in Ages /\ Ages \subseteq Int
  BY AgesSpan DEF Ages
<1>1. CASE {a, b} \ {Never} = {}
  BY <1>1, <1>n DEF Earliest
<1>2. CASE {a, b} \ {Never} # {}
  <2> DEFINE some == {a, b} \ {Never}
  <2>1. \E m \in some : \A age \in some : m >= age
    <3>1. CASE a = Never
      BY <1>2, <1>n, <3>1
    <3>2. CASE b = Never
      BY <1>2, <1>n, <3>2
    <3>3. CASE a # Never /\ b # Never
      <4>1. CASE a >= b
        BY <1>n, <3>3, <4>1
      <4>2. CASE b >= a
        BY <1>n, <3>3, <4>2
      <4> QED BY <1>n, <4>1, <4>2
    <3> QED BY <3>1, <3>2, <3>3
  <2>2. Max(some) \in some /\ \A age \in some : Max(some) >= age
    BY <2>1 DEF Max
  <2>3. Earliest({a, b}) = Max(some)
    BY <1>2 DEF Earliest
  <2>4. some \subseteq {a, b} /\ Never \notin some
    OBVIOUS
  <2> HIDE DEF some
  <2>5. Max(some) \in {a, b} /\ Max(some) # Never
    BY <2>2, <2>4
  <2>6. \A age \in {a, b} \ {Never} : age <= Max(some)
    BY <1>n, <2>2, <2>5 DEF some
  <2> QED BY <1>n, <2>3, <2>5, <2>6
<1> QED BY <1>1, <1>2

LEMMA TwoClocks ==
    ASSUME NEW clocks \in [CURRENCY_LAYERS -> LayerState]
    PROVE  /\ {clocks[l].polled : l \in CURRENCY_LAYERS} =
                 {clocks["requests"].polled, clocks["fields"].polled}
           /\ {clocks[l].success : l \in CURRENCY_LAYERS} =
                 {clocks["requests"].success, clocks["fields"].success}
           /\ \A l \in CURRENCY_LAYERS : clocks[l].polled \in Ages /\ clocks[l].success \in Ages
BY DEF CURRENCY_LAYERS, LayerState

\* _next_update_state (server.py): overdue is never said of a schedule all of whose layers
\* have succeeded within the grace period, whatever their clocks and the interval are.
LEMMA OverdueIsLate ==
    ASSUME NEW clocks \in [CURRENCY_LAYERS -> LayerState], Overdue(clocks)
    PROVE  \E l \in CURRENCY_LAYERS : clocks[l].success > NEXT_UPDATE_GRACE_PERIOD
<1> DEFINE polled == Earliest({clocks[l].polled : l \in CURRENCY_LAYERS})
           success == Earliest({clocks[l].success : l \in CURRENCY_LAYERS})
<1>1. /\ polled \in Ages /\ success \in Ages
      /\ success = Never => clocks["requests"].success = Never
      /\ success # Never => \E l \in CURRENCY_LAYERS : clocks[l].success = success
  BY TwoClocks, EarliestIsOldest DEF CURRENCY_LAYERS
<1>2. /\ polled > Interval + NEXT_UPDATE_GRACE_PERIOD
      /\ success = Never \/ ~(success + Interval <= polled)
  BY DEF Overdue
<1> HIDE DEF polled, success
<1>3. Never > NEXT_UPDATE_GRACE_PERIOD
  BY FreshnessAssumption DEF Never, Oldest, NEXT_UPDATE_GRACE_PERIOD
<1>4. success # Never => success > NEXT_UPDATE_GRACE_PERIOD
  BY <1>1, <1>2, FreshnessAssumption DEF NEXT_UPDATE_GRACE_PERIOD, Ages, Never, Oldest
<1> QED BY <1>1, <1>3, <1>4 DEF CURRENCY_LAYERS

\* _next_update_state: the theorem of every state in which a request is answered.
THEOREM OverdueIsJust == Spec => []OverdueMeansLate
<1>1. TypeOK => OverdueMeansLate
  BY OverdueIsLate DEF TypeOK, Request, OverdueMeansLate
<1> QED BY <1>1, Typing, PTL

\* A layer that nothing has loaded outside the schedule last succeeded when it was last
\* polled, and has been polled if it is loaded.
OnSchedule ==
    /\ \A l \in CURRENCY_LAYERS \ outside :
          /\ state[l].success = state[l].polled
          /\ state[l].loaded => state[l].polled # Never
    /\ run.pc \in {"finish", "touch"} /\ run.scheduled => state[Layer].polled = run.age

ReadOnSchedule(l) ==
    req.clocks[l].success = req.clocks[l].polled /\ req.clocks[l].polled # Never

ReadSchedule ==
    req.at # 0 =>
        /\ outside \subseteq req.outside
        /\ \A l \in CURRENCY_LAYERS : state[l].loaded
        /\ req.outside = {} =>
              /\ req.at >= 2 => ReadOnSchedule("requests")
              /\ req.at >= 4 => ReadOnSchedule("fields")

LEMMA WriteKeepsSchedule ==
    ASSUME TypeOK, ReadSchedule, NEW st, Written(st),
           \A l \in CURRENCY_LAYERS : state[l].loaded => st[l].loaded
    PROVE  ReadSchedule'
<1> SUFFICES ASSUME req'.at # 0 PROVE ReadSchedule'
  BY DEF ReadSchedule
<1>1. /\ state' = st
      /\ req' = [req EXCEPT !.lagged = @ \union Lagging(st), !.outside = @ \union outside']
      /\ req.at # 0
  BY DEF Written
<1>2. /\ req'.at = req.at /\ req'.clocks = req.clocks
      /\ req'.outside = req.outside \union outside'
  BY <1>1 DEF TypeOK, Request
<1> QED BY <1>1, <1>2 DEF ReadSchedule, ReadOnSchedule

LEMMA ReadKeepsSchedule ==
    ASSUME TypeOK, OnSchedule, ReadSchedule, ReadOn
    PROVE  ReadSchedule'
<1>1. PICK l \in CURRENCY_LAYERS, statement \in {"state", "pulled"} :
        /\ ClockReads[req.at] = <<statement, l>>
        /\ req' = ReadClock(statement, l)
  BY DEF ReadOn
<1>2. req.at \in 1..4 /\ UNCHANGED <<state, outside>>
  BY OrderOfLayers DEF ReadOn
<1>3. /\ req'.at = req.at + 1 /\ req'.outside = req.outside
      /\ \A k \in CURRENCY_LAYERS \ {l} : req'.clocks[k] = req.clocks[k]
      /\ statement = "state" => /\ req'.clocks[l].success = state[l].success
                                /\ req'.clocks[l].polled = state[l].polled
      /\ statement = "pulled" => /\ req'.clocks[l].success = req.clocks[l].success
                                 /\ req'.clocks[l].polled = req.clocks[l].polled
  BY <1>1 DEF ReadClock, TypeOK, Request, LayerState
<1>4. outside \subseteq req.outside /\ \A k \in CURRENCY_LAYERS : state[k].loaded
  BY <1>2 DEF ReadSchedule
<1>5. ASSUME statement = "state", req.outside = {} PROVE ReadOnSchedule(l)'
  BY <1>3, <1>4, <1>5 DEF ReadOnSchedule, OnSchedule
<1>6. ASSUME NEW k \in CURRENCY_LAYERS, k # l \/ statement = "pulled", ReadOnSchedule(k)
      PROVE  ReadOnSchedule(k)'
  BY <1>3, <1>6 DEF ReadOnSchedule
<1>7. SUFFICES ASSUME req.outside = {}
               PROVE  /\ req'.at >= 2 => ReadOnSchedule("requests")'
                      /\ req'.at >= 4 => ReadOnSchedule("fields")'
  BY <1>2, <1>3, <1>4 DEF ReadSchedule
<1>8. CASE req.at = 1
  BY <1>1, <1>3, <1>5, <1>7, <1>8 DEF ClockReads
<1>9. CASE req.at = 2
  <2>1. statement = "pulled" /\ ReadOnSchedule("requests")
    BY <1>1, <1>7, <1>9 DEF ClockReads, ReadSchedule
  <2> QED BY <1>3, <1>6, <1>9, <2>1 DEF CURRENCY_LAYERS
<1>10. CASE req.at = 3
  <2>1. l = "fields" /\ statement = "state" /\ ReadOnSchedule("requests")
    BY <1>1, <1>7, <1>10 DEF ClockReads, ReadSchedule
  <2> QED BY <1>3, <1>5, <1>6, <1>7, <1>10, <2>1 DEF CURRENCY_LAYERS
<1>11. CASE req.at = 4
  <2>1. statement = "pulled" /\ ReadOnSchedule("requests") /\ ReadOnSchedule("fields")
    BY <1>1, <1>7, <1>11 DEF ClockReads, ReadSchedule
  <2> QED BY <1>6, <2>1 DEF CURRENCY_LAYERS
<1> QED BY <1>2, <1>8, <1>9, <1>10, <1>11

LEMMA OnwardPolls == TypeOK => Onward.pc \notin {"finish", "touch"} /\ NoRun.pc \notin {"finish", "touch"}
BY OnwardRecordsNothing DEF Recording

LEMMA ScheduleStep ==
    TypeOK /\ TypeOK' /\ OnSchedule /\ ReadSchedule /\ [Next]_vars => OnSchedule' /\ ReadSchedule'
<1> SUFFICES ASSUME TypeOK, TypeOK', OnSchedule, ReadSchedule, [Next]_vars
             PROVE  OnSchedule' /\ ReadSchedule'
  OBVIOUS
<1>l. Layer \in CURRENCY_LAYERS
  BY LayerTyped
<1>a. run.age # Never /\ run.age \in Ages
  <2>1. run.age \in 0..MaxRun
    BY Numbers
  <2>2. MaxRun \in Nat /\ MaxRun < Never /\ 0..MaxRun \subseteq Ages
    BY AgesSpan, FreshnessAssumption
  <2> QED BY <2>1, <2>2
<1>0. CASE UNCHANGED vars
  BY <1>0 DEF vars, OnSchedule, ReadSchedule, ReadOnSchedule, Layer
<1>1. ASSUME NEW l \in CURRENCY_LAYERS, Publish(l) PROVE OnSchedule' /\ ReadSchedule'
  BY <1>1 DEF Publish, OnSchedule, ReadSchedule, ReadOnSchedule, Layer
<1>2. CASE StartRun
  BY <1>2 DEF StartRun, NoRun, OnSchedule, ReadSchedule, ReadOnSchedule
<1>3. ASSUME NEW i \in 1..Len(SYNC_ORDER), NEW pc \in {"finish", "record"}, StartOutside(i, pc)
      PROVE  OnSchedule' /\ ReadSchedule'
  <2>1. ~run'.scheduled
    BY <1>3 DEF StartOutside, NoRun
  <2> QED BY <1>3, <2>1 DEF StartOutside, OnSchedule, ReadSchedule, ReadOnSchedule
<1>4. CASE PollLayer
  <2> DEFINE st == [state EXCEPT ![Layer].seen = published[Layer],
                                 ![Layer].polled = run.age, ![Layer].success = run.age]
  <2>1. Written(st) /\ state' = st /\ outside' = outside \ {Layer}
    BY <1>4 DEF PollLayer, Written
  <2>2. \A l \in CURRENCY_LAYERS :
          /\ st[l].loaded = state[l].loaded
          /\ st[l].polled = IF l = Layer THEN run.age ELSE state[l].polled
          /\ st[l].success = IF l = Layer THEN run.age ELSE state[l].success
    BY DEF TypeOK, LayerState
  <2>3. run'.pc \in {"finish", "touch"} => Layer' = Layer /\ run'.age = run.age
    BY <1>4, OnwardPolls DEF PollLayer, TypeOK, Run, Layer
  <2> HIDE DEF st
  <2>4. ReadSchedule'
    BY <2>1, <2>2, WriteKeepsSchedule
  <2> QED BY <2>1, <2>2, <2>3, <2>4, <1>a, <1>l DEF OnSchedule
<1>5. CASE FinishReload \/ FinishLoad
  <2> DEFINE st == [state EXCEPT ![Layer].pulled = run.target]
  <2>1. Written(st) /\ state' = st /\ outside' = outside
    BY <1>5 DEF FinishReload, FinishLoad, Written
  <2>2. \A l \in CURRENCY_LAYERS :
          /\ st[l].loaded = state[l].loaded /\ st[l].polled = state[l].polled
          /\ st[l].success = state[l].success
    BY DEF TypeOK, LayerState
  <2>3. run'.pc \in {"finish", "touch"} =>
          /\ run.pc = "finish" /\ run'.scheduled = run.scheduled
          /\ Layer' = Layer /\ run'.age = run.age
    BY <1>5, OnwardPolls DEF FinishReload, FinishLoad, TypeOK, Run, Layer
  <2> HIDE DEF st
  <2>4. ReadSchedule'
    BY <2>1, <2>2, WriteKeepsSchedule
  <2> QED BY <2>1, <2>2, <2>3, <2>4, <1>l DEF OnSchedule
<1>6. CASE TouchLayer
  <2> DEFINE st == [state EXCEPT ![Layer].seen = run.target, ![Layer].loaded = TRUE,
                                 ![Layer].success = run.age]
  <2>1. /\ Written(st) /\ state' = st /\ run.pc = "touch" /\ run' = Onward
        /\ outside' = IF run.scheduled THEN outside ELSE outside \union {Layer}
    BY <1>6 DEF TouchLayer, Written
  <2>2. \A l \in CURRENCY_LAYERS :
          /\ st[l].loaded = (l = Layer \/ state[l].loaded) /\ st[l].polled = state[l].polled
          /\ st[l].success = IF l = Layer THEN run.age ELSE state[l].success
    BY DEF TypeOK, LayerState
  <2>3. run'.pc \notin {"finish", "touch"}
    BY <2>1, OnwardPolls
  <2> HIDE DEF st
  <2>4. ReadSchedule'
    BY <2>1, <2>2, WriteKeepsSchedule
  <2> QED BY <2>1, <2>2, <2>3, <2>4, <1>a, <1>l DEF OnSchedule
<1>7. CASE RecordState
  <2> DEFINE st == [state EXCEPT ![Layer].seen = run.target, ![Layer].loaded = TRUE,
                                 ![Layer].success = 0]
  <2>1. Written(st) /\ state' = st /\ outside' = outside \union {Layer} /\ run'.pc = "end"
    BY <1>7 DEF RecordState, Written, TypeOK, Run
  <2>2. \A l \in CURRENCY_LAYERS :
          /\ st[l].loaded = (l = Layer \/ state[l].loaded) /\ st[l].polled = state[l].polled
          /\ l # Layer => st[l].success = state[l].success
    BY DEF TypeOK, LayerState
  <2> HIDE DEF st
  <2>4. ReadSchedule'
    BY <2>1, <2>2, WriteKeepsSchedule
  <2>5. \A l \in CURRENCY_LAYERS \ outside' :
          /\ st[l].success = st[l].polled
          /\ st[l].loaded => st[l].polled # Never
    <3>1. \A l \in CURRENCY_LAYERS \ outside' : l # Layer /\ l \notin outside
      BY <2>1
    <3> QED BY <2>2, <3>1 DEF OnSchedule
  <2> QED BY <2>1, <2>4, <2>5 DEF OnSchedule
<1>8. CASE RunFails
  BY <1>8, OnwardPolls DEF RunFails, OnSchedule, ReadSchedule, ReadOnSchedule
<1>9. CASE Tick
  <2>1. req'.at = 0 /\ UNCHANGED outside
    BY <1>9 DEF Tick
  <2>2. \A l \in CURRENCY_LAYERS :
          /\ state'[l].loaded = state[l].loaded /\ state[l].polled # Oldest
          /\ state'[l].polled = Older(state[l].polled)
          /\ state'[l].success = Older(state[l].success)
    BY <1>9 DEF Tick, TypeOK, LayerState
  <2>3. \A age \in Ages : age # Oldest /\ age # Never => Older(age) # Never
    BY AgesSpan DEF Older, Ages
  <2>4. \A l \in CURRENCY_LAYERS : state[l].polled \in Ages
    BY DEF TypeOK, LayerState
  <2>5. /\ run'.pc = run.pc /\ run'.scheduled = run.scheduled /\ Layer' = Layer
        /\ run.pc # "idle" => run'.age = Older(run.age)
    BY <1>9, <1>a DEF Tick, TypeOK, Run, Layer, Older
  <2> QED BY <2>1, <2>2, <2>3, <2>4, <2>5, <1>l DEF OnSchedule, ReadSchedule
<1>10. CASE Begin
  <2>1. req'.at = 1 /\ req'.outside = outside
    BY <1>10 DEF Begin, NoRequest
  <2> QED BY <1>10, <2>1 DEF Begin, OnSchedule, ReadSchedule, Layer
<1>11. CASE ReadOn
  BY <1>11, ReadKeepsSchedule DEF ReadOn, OnSchedule, Layer
<1>12. CASE Answer
  BY <1>12 DEF Answer, NoRequest, OnSchedule, ReadSchedule, Layer
<1> QED BY <1>0, <1>1, <1>2, <1>3, <1>4, <1>5, <1>6, <1>7, <1>8, <1>9, <1>10, <1>11, <1>12 DEF Next

\* _behind_reason (server.py): when a lag is put down to HRM's schedule, and nothing was
\* loaded outside the worker's, every layer was polled within the interval and its grace.
THEOREM BlameJust == Spec => []BlameIsJust
<1>1. Init => OnSchedule /\ ReadSchedule
  BY DEF Init, NoState, NoRun, NoRequest, OnSchedule, ReadSchedule
<1>2. TypeOK /\ ReadSchedule => BlameIsJust
  <2>0. BehindReason(req.clocks) = "HRM has not published" => ~Overdue(req.clocks)
    BY DEF BehindReason
  <2> SUFFICES ASSUME TypeOK, ReadSchedule, Answered, req.outside = {},
                      ~Overdue(req.clocks), NEW l \in CURRENCY_LAYERS
               PROVE  req.clocks[l].polled <= Interval + NEXT_UPDATE_GRACE_PERIOD
    BY <2>0, Zenon DEF BlameIsJust
  <2>1. req.clocks \in [CURRENCY_LAYERS -> LayerState]
    BY DEF TypeOK, Request
  <2>2. \A k \in CURRENCY_LAYERS : ReadOnSchedule(k)
    <3>1. req.at = 5
      BY OrderOfLayers DEF Answered
    <3> QED BY <3>1 DEF ReadSchedule, CURRENCY_LAYERS
  <2> DEFINE polled == Earliest({req.clocks[k].polled : k \in CURRENCY_LAYERS})
             success == Earliest({req.clocks[k].success : k \in CURRENCY_LAYERS})
  <2>3. success = polled
    BY <2>2 DEF ReadOnSchedule
  <2>4. /\ polled # Never /\ polled \in Ages
        /\ req.clocks[l].polled <= polled
    <3> DEFINE a == req.clocks["requests"].polled
               b == req.clocks["fields"].polled
    <3>1. a \in Ages /\ b \in Ages /\ polled = Earliest({a, b})
      BY <2>1, TwoClocks DEF CURRENCY_LAYERS
    <3>2. a # Never /\ b # Never /\ req.clocks[l].polled \in {a, b}
      BY <2>2 DEF ReadOnSchedule, CURRENCY_LAYERS
    <3> HIDE DEF a, b
    <3> QED BY <3>1, <3>2, EarliestIsOldest
  <2>5. ~(polled > Interval + NEXT_UPDATE_GRACE_PERIOD) \/ success + Interval <= polled
    BY <2>4 DEF Overdue
  <2>6. req.clocks[l].polled \in Ages
    BY <2>1, TwoClocks
  <2> HIDE DEF polled, success
  <2>7. polled \in Int /\ req.clocks[l].polled \in Int
    BY <2>4, <2>6, AgesSpan DEF Ages
  <2>8. polled <= Interval + NEXT_UPDATE_GRACE_PERIOD
    BY <2>3, <2>5, <2>7, FreshnessAssumption DEF NEXT_UPDATE_GRACE_PERIOD
  <2> QED BY <2>4, <2>7, <2>8, FreshnessAssumption DEF NEXT_UPDATE_GRACE_PERIOD
<1> QED BY <1>1, <1>2, Typing, ScheduleStep, PTL DEF Spec

================================================================================
