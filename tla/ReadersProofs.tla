------------------------------ MODULE ReadersProofs ------------------------------
(***************************************************************************)
(* Theorems about Readers for every set of routes and every number of         *)
(* versions and loads by hand.                                                *)
(***************************************************************************)
EXTENDS Readers, TLAPS

--------------------------------------------------------------------------------
(* Typing. *)

Statements ==
    ({"rows", "clocks", "seen", "edit", "live", "again"} \X CURRENCY_LAYERS)
    \union ({"completed", "lock"} \X {"all"})

LEMMA ScriptsOfStatements ==
    ASSUME NEW route \in Routes
    PROVE  \A i \in 1..Len(Script(route)) : Script(route)[i] \in Statements
<1>1. CASE route = "list"
  BY <1>1 DEF Script, Statements, CURRENCY_LAYERS
<1>2. CASE route = "export"
  BY <1>2 DEF Script, Statements, CURRENCY_LAYERS
<1>3. CASE route = "freshness"
  BY <1>3 DEF Script, Statements, CURRENCY_LAYERS
<1>4. CASE route = "reconcile"
  BY <1>4 DEF Script, Statements, CURRENCY_LAYERS
<1>5. CASE route = "figures"
  BY <1>5 DEF Script, Statements, CURRENCY_LAYERS
<1> QED BY <1>1, <1>2, <1>3, <1>4, <1>5, ReaderAssumption

LEMMA OrderOfLayers ==
    /\ Len(SYNC_ORDER) = 3
    /\ SYNC_ORDER[1] = "requests" /\ SYNC_ORDER[2] = "fields" /\ SYNC_ORDER[3] = "census"
BY DEF SYNC_ORDER

LEMMA NothingTyped == NoRequest \in Request
BY ReaderAssumption
   DEF NoRequest, Request, Unpinned, Snapshot, NoClock, Clock, Versions, Statuses, Readiness

LEMMA PinTyped ==
    ASSUME TypeOK, NEW r \in Request
    PROVE  PinSnapshot(r) \in Request
<1>1. [rows |-> rows, clock |-> clock, loaded |-> loaded] \in Snapshot
  BY DEF TypeOK, Snapshot
<1> QED BY <1>1 DEF PinSnapshot, Request

LEMMA VisibleTyped ==
    ASSUME TypeOK, NEW r \in Request, NEW l \in CURRENCY_LAYERS
    PROVE  VisibleRows(r, l) \in Versions /\ VisibleClock(r, l) \in Clock
BY ReaderAssumption, SMTT(20)
DEF VisibleRows, VisibleClock, TypeOK, Request, Snapshot, Versions

LEMMA StatementTyped ==
    ASSUME TypeOK, NEW r \in Request, NEW s \in Statements
    PROVE  Statement(r, s) \in Request
<1>p. \A l \in CURRENCY_LAYERS : published[l] \in Versions /\ clock[l].seen \in Versions
  BY DEF TypeOK, Versions, Clock
<1>1. ASSUME NEW l \in CURRENCY_LAYERS PROVE ReadTable(r, l) \in Request
  <2>1. Append(r.got, VisibleRows(r, l)) \in Seq(Versions)
    BY VisibleTyped DEF Request
  <2>2. r.locks \union {l} \in SUBSET CURRENCY_LAYERS
    BY DEF Request
  <2> QED BY <2>1, <2>2 DEF ReadTable, Request
<1>2. Completed(r) \in Request /\ AskLock(r) \in Request
  BY DEF Completed, AskLock, Request, Readiness
<1>3. ASSUME NEW l \in CURRENCY_LAYERS PROVE ReadClock(r, l) \in Request
  <2>1. [r.clocks EXCEPT ![l] = VisibleClock(r, l)] \in [CURRENCY_LAYERS -> Clock]
    BY VisibleTyped DEF Request
  <2> QED BY <2>1 DEF ReadClock, Request
<1>4. ASSUME NEW l \in CURRENCY_LAYERS PROVE ReadSeen(r, l) \in Request
  <2>1. [r.seen EXCEPT ![l] = clock[l].seen] \in [CURRENCY_LAYERS -> Versions]
    BY <1>p DEF Request
  <2> QED BY <2>1 DEF ReadSeen, Request
<1>5. ASSUME NEW l \in CURRENCY_LAYERS PROVE AskEdit(r, l) \in Request
  <2>1. [r.edits EXCEPT ![l] = published[l]] \in [CURRENCY_LAYERS -> Versions]
    BY <1>p DEF Request
  <2>2. [r.seen EXCEPT ![l] = 0] \in [CURRENCY_LAYERS -> Versions]
    BY ReaderAssumption DEF Request, Versions
  <2>3. (r.advanced \/ (r.seen[l] # 0 /\ published[l] > r.seen[l])) \in BOOLEAN
    OBVIOUS
  <2>4. (\A k \in CURRENCY_LAYERS : rows[k] = published[k]) \in BOOLEAN
    OBVIOUS
  <2> QED BY <2>1, <2>2, <2>3, <2>4 DEF AskEdit, Request
<1>6. ASSUME NEW l \in CURRENCY_LAYERS PROVE AskEditAgain(r, l) \in Request
  <2>1. [r.again EXCEPT ![l] = published[l]] \in [CURRENCY_LAYERS -> Versions]
    BY <1>p DEF Request
  <2> QED BY <2>1 DEF AskEditAgain, Request
<1>7. ASSUME NEW l \in CURRENCY_LAYERS PROVE FetchLive(r, l) \in Request
  <2>1. Append(r.live, published[l]) \in Seq(Versions)
    BY <1>p DEF Request
  <2> QED BY <2>1 DEF FetchLive, Request
<1> QED BY <1>1, <1>2, <1>3, <1>4, <1>5, <1>6, <1>7 DEF Statement, Statements

\* A request that reads is of a route, and has begun at its first statement.
ReadsARoute == req.at >= 1 /\ (req.status = "reading" => req.route \in Routes)

LEMMA InitReads == Init => ReadsARoute
BY DEF Init, NoRequest, ReadsARoute

RunType == [pc : {"idle", "schema", "poll", "swap", "finish", "touch"},
            at : 1..Len(SYNC_ORDER), target : Versions]

\* Only the Cityworks layers are reloaded step by step.
SwapOfCityworks ==
    run.pc \in {"swap", "finish", "touch"} => SYNC_ORDER[run.at] \in CURRENCY_LAYERS

LEMMA InitTyped == Init => TypeOK /\ SwapOfCityworks
<1> SUFFICES ASSUME Init PROVE TypeOK /\ SwapOfCityworks
  OBVIOUS
<1>1. 0 \in Versions /\ 1 \in 1..MaxVersion /\ 1 \in 1..Len(SYNC_ORDER) /\ 0 \in 0..MaxHandLoads
  BY ReaderAssumption, OrderOfLayers DEF Versions
<1>2. NoRun \in RunType /\ NoClock \in Clock
  BY <1>1 DEF NoRun, RunType, NoClock, Clock
<1>3. SwapOfCityworks
  BY DEF Init, NoRun, SwapOfCityworks
<1>4. req \in Request
  BY NothingTyped DEF Init
<1> QED BY <1>1, <1>2, <1>3, <1>4 DEF Init, TypeOK, RunType

LEMMA ReplaceTyped ==
    ASSUME TypeOK, NEW l \in CURRENCY_LAYERS, Replace(l)
    PROVE  rows' \in [CURRENCY_LAYERS -> Versions] /\ req' \in Request
<1>1. PICK v \in run.target..published[l] : rows' = [rows EXCEPT ![l] = v]
  BY DEF Replace
<1>2. v \in Versions
  BY <1>1, ReaderAssumption DEF TypeOK, Versions
<1>3. [req EXCEPT !.emptied = @ \union {l}] \in Request
  BY DEF TypeOK, Request
<1> QED BY <1>1, <1>2, <1>3 DEF Replace, TypeOK

LEMMA OnwardTyped ==
    TypeOK => /\ Onward \in RunType /\ Onward.pc \in {"idle", "poll"}
              /\ NoRun \in RunType
BY OrderOfLayers, ReaderAssumption DEF Onward, NoRun, RunType, TypeOK, Versions


\* A request that reads is of one of the routes, and has a statement left to read.
LEMMA ReadsAStatement ==
    ASSUME TypeOK, ReadsARoute, req.status = "reading", ~AllRead(req)
    PROVE  /\ req.route \in Routes
           /\ req.at \in 1..Len(Script(req.route))
           /\ Script(req.route)[req.at] \in Statements
<1>1. req.at \in Nat \ {0} /\ req.route \in Routes
  BY DEF ReadsARoute, TypeOK, Request
<1>2. Len(Script(req.route)) \in Nat
  BY <1>1, ReaderAssumption DEF Script
<1>3. ~(req.at > Len(Script(req.route)))
  BY DEF AllRead
<1> QED BY <1>1, <1>2, <1>3, ScriptsOfStatements

LEMMA NextTyped ==
    ASSUME NEW r \in Request, NEW r1 \in Request
    PROVE  NextAt(r, r1) \in Nat /\ NextAt(r, r1) > r.at
BY DEF NextAt, Request

LEMMA ReadTyped == TypeOK /\ ReadsARoute /\ ReadOn => req' \in Request
<1> SUFFICES ASSUME TypeOK, ReadsARoute, ReadOn PROVE req' \in Request
  OBVIOUS
<1> DEFINE s == Script(req.route)[req.at]
           r == Statement(PinSnapshot(req), s)
<1>1. s \in Statements
  BY ReadsAStatement DEF ReadOn
<1>2. req \in Request /\ r \in Request
  BY <1>1, PinTyped, StatementTyped DEF TypeOK
<1>3. NextAt(req, r) \in Nat
  BY <1>2, NextTyped
<1>4. \/ \E status \in Statuses : req' = [r EXCEPT !.at = NextAt(req, r), !.status = status]
      \/ \E status \in Statuses : req' = [NoRequest EXCEPT !.route = req.route, !.status = status]
  <2> HIDE DEF s, r
  <2>1. r.status \in Statuses /\ {"unavailable", "error", "missing"} \subseteq Statuses
    BY <1>2 DEF Request, Statuses
  <2>2. \/ req' = [r EXCEPT !.at = NextAt(req, r),
                           !.status = IF r.route = "freshness" /\ r.ready = "uninitialised"
                                      THEN "unavailable" ELSE @]
        \/ req' = [NoRequest EXCEPT !.route = req.route,
                           !.status = IF req.route \in {"reconcile", "figures"}
                                      THEN "error" ELSE "missing"]
    BY DEF ReadOn, s, r
  <2> QED BY <2>1, <2>2
<1> HIDE DEF s, r
<1>5. CASE \E status \in Statuses : req' = [r EXCEPT !.at = NextAt(req, r), !.status = status]
  BY <1>2, <1>3, <1>5 DEF Request
<1>6. CASE \E status \in Statuses : req' = [NoRequest EXCEPT !.route = req.route, !.status = status]
  <2>1. req.route \in Routes \union {"none"}
    BY <1>2 DEF Request
  <2> QED BY <1>6, <2>1, NothingTyped DEF Request
<1> QED BY <1>4, <1>5, <1>6

\* Reading changes neither the route nor, but for its end, the status of a request.
LEMMA StatementKeeps ==
    ASSUME TypeOK, NEW r \in Request, NEW s \in Statements
    PROVE  /\ Statement(r, s).route = r.route /\ Statement(r, s).at = r.at
           /\ Statement(r, s).status = r.status
           /\ Statement(r, s).pinned = r.pinned /\ Statement(r, s).snap = r.snap
           /\ Statement(r, s).emptied = r.emptied /\ Statement(r, s).byHand = r.byHand
           /\ PinSnapshot(r).route = r.route /\ PinSnapshot(r).at = r.at
           /\ PinSnapshot(r).status = r.status
BY DEF Statement, Statements, ReadTable, Completed, AskLock, ReadClock, ReadSeen, AskEdit,
       AskEditAgain, FetchLive, PinSnapshot, Request

LEMMA ReadKeepsRoute == TypeOK /\ ReadsARoute /\ ReadOn => ReadsARoute'
<1> SUFFICES ASSUME TypeOK, ReadsARoute, ReadOn PROVE ReadsARoute'
  OBVIOUS
<1> DEFINE s == Script(req.route)[req.at]
           r == Statement(PinSnapshot(req), s)
<1>1. s \in Statements /\ req.route \in Routes
  BY ReadsAStatement DEF ReadOn
<1>2. req \in Request /\ PinSnapshot(req) \in Request /\ r \in Request
  BY <1>1, PinTyped, StatementTyped DEF TypeOK
<1>3. r.route = req.route
  BY <1>1, <1>2, StatementKeeps
<1>4. NextAt(req, r) \in Nat /\ NextAt(req, r) >= 1
  <2>1. NextAt(req, r) \in Nat /\ NextAt(req, r) > req.at
    BY <1>2, NextTyped
  <2>2. req.at \in Nat /\ req.at >= 1
    BY <1>2 DEF ReadsARoute, Request
  <2> QED BY <2>1, <2>2
<1>5. \/ \E status \in Statuses : req' = [r EXCEPT !.at = NextAt(req, r), !.status = status]
      \/ \E status \in {"error", "missing"} :
           req' = [NoRequest EXCEPT !.route = req.route, !.status = status]
  <2> HIDE DEF s, r
  <2>1. r.status \in Statuses /\ "unavailable" \in Statuses
    BY <1>2 DEF Request, Statuses
  <2>2. \/ req' = [r EXCEPT !.at = NextAt(req, r),
                           !.status = IF r.route = "freshness" /\ r.ready = "uninitialised"
                                      THEN "unavailable" ELSE @]
        \/ req' = [NoRequest EXCEPT !.route = req.route,
                           !.status = IF req.route \in {"reconcile", "figures"}
                                      THEN "error" ELSE "missing"]
    BY DEF ReadOn, s, r
  <2> QED BY <2>1, <2>2
<1> HIDE DEF s, r
<1>6. CASE \E status \in Statuses : req' = [r EXCEPT !.at = NextAt(req, r), !.status = status]
  <2>1. req'.at = NextAt(req, r) /\ req'.route = r.route
    BY <1>2, <1>6 DEF Request
  <2> QED BY <1>1, <1>3, <1>4, <2>1 DEF ReadsARoute
<1>7. CASE \E status \in {"error", "missing"} :
             req' = [NoRequest EXCEPT !.route = req.route, !.status = status]
  BY <1>1, <1>7 DEF ReadsARoute, NoRequest
<1> QED BY <1>5, <1>6, <1>7

LEMMA StepTyped ==
    TypeOK /\ SwapOfCityworks /\ ReadsARoute /\ [Next]_vars => TypeOK' /\ SwapOfCityworks'
<1> SUFFICES ASSUME TypeOK, SwapOfCityworks, ReadsARoute, [Next]_vars
             PROVE  TypeOK' /\ SwapOfCityworks'
  OBVIOUS
<1> USE ReaderAssumption
<1>o. /\ Onward \in RunType /\ Onward.pc \in {"idle", "poll"}
      /\ NoRun \in RunType /\ NoRun.pc = "idle" /\ run \in RunType
  BY OnwardTyped DEF TypeOK, RunType, NoRun
<1>p. \A l \in CURRENCY_LAYERS : published[l] \in Versions
  BY DEF TypeOK, Versions
<1>0. CASE UNCHANGED vars
  BY <1>0 DEF vars, mirror, TypeOK, SwapOfCityworks
<1>1. ASSUME NEW l \in CURRENCY_LAYERS, Publish(l) PROVE TypeOK' /\ SwapOfCityworks'
  BY <1>1 DEF Publish, TypeOK, SwapOfCityworks
<1>2. CASE TakeLock \/ ApplySchema
  <2>1. run' \in RunType /\ run'.pc \in {"schema", "poll"} /\ schema' \in BOOLEAN
    BY <1>2, <1>o DEF TakeLock, ApplySchema, RunType, TypeOK
  <2> QED BY <1>2, <2>1 DEF TakeLock, ApplySchema, TypeOK, RunType, SwapOfCityworks
<1>3. CASE PollLayer
  <2> DEFINE l == SYNC_ORDER[run.at]
  <2>1. l \in CURRENCY_LAYERS /\ clock' = [clock EXCEPT ![l].seen = published[l]]
        /\ (run' = [run EXCEPT !.pc = "swap", !.target = published[l]] \/ run' = Onward)
        /\ UNCHANGED <<published, schema, rows, loaded, handLoads, req, toldReady>>
    BY <1>3 DEF PollLayer
  <2>s. SwapOfCityworks'
    BY <1>o, <2>1 DEF SwapOfCityworks, RunType
  <2> HIDE DEF l
  <2>2. published[l] \in Versions
    BY <1>p, <2>1
  <2>3. clock' \in [CURRENCY_LAYERS -> Clock]
    BY <2>1, <2>2 DEF TypeOK, Clock
  <2>4. run' \in RunType
    BY <1>o, <2>1, <2>2 DEF RunType
  <2> QED BY <2>1, <2>3, <2>4, <2>s DEF TypeOK, RunType
<1>4. CASE SwapIn
  <2>1. SYNC_ORDER[run.at] \in CURRENCY_LAYERS
    BY <1>4 DEF SwapIn, SwapOfCityworks
  <2>2. Replace(SYNC_ORDER[run.at])
    BY <1>4 DEF SwapIn
  <2>3. rows' \in [CURRENCY_LAYERS -> Versions] /\ req' \in Request
    BY <2>1, <2>2, ReplaceTyped
  <2>4. run' \in RunType /\ run'.at = run.at
    BY <1>4, <1>o DEF SwapIn, RunType
  <2> QED BY <1>4, <2>1, <2>3, <2>4 DEF SwapIn, TypeOK, RunType, SwapOfCityworks
<1>5. CASE FinishReload
  <2> DEFINE l == SYNC_ORDER[run.at]
  <2>1. l \in CURRENCY_LAYERS
    BY <1>5 DEF FinishReload, SwapOfCityworks
  <2>2. run' = [run EXCEPT !.pc = "touch"] /\ clock' = [clock EXCEPT ![l].pulled = run.target]
        /\ UNCHANGED <<published, schema, rows, loaded, handLoads, req, toldReady>>
    BY <1>5 DEF FinishReload
  <2>3. run' \in RunType /\ run'.at = run.at
    BY <1>o, <2>2 DEF RunType
  <2>4. SwapOfCityworks'
    BY <2>1, <2>3 DEF SwapOfCityworks
  <2> HIDE DEF l
  <2>5. clock' \in [CURRENCY_LAYERS -> Clock]
    BY <1>o, <2>1, <2>2 DEF TypeOK, Clock, RunType
  <2> QED BY <2>2, <2>3, <2>4, <2>5 DEF TypeOK, RunType
<1>6. CASE TouchLayer
  <2> DEFINE l == SYNC_ORDER[run.at]
  <2>1. l \in CURRENCY_LAYERS
    BY <1>6 DEF TouchLayer, SwapOfCityworks
  <2>2. run' = Onward /\ clock' = [clock EXCEPT ![l].seen = run.target]
        /\ loaded' = loaded \union {l}
        /\ UNCHANGED <<published, schema, rows, handLoads, req, toldReady>>
    BY <1>6 DEF TouchLayer
  <2> HIDE DEF l
  <2>3. clock' \in [CURRENCY_LAYERS -> Clock]
    BY <1>o, <2>1, <2>2 DEF TypeOK, Clock, RunType
  <2>4. loaded' \subseteq TRACKED_LAYERS
    BY <2>1, <2>2 DEF TypeOK, TRACKED_LAYERS, CURRENCY_LAYERS
  <2>5. SwapOfCityworks'
    BY <1>o, <2>2 DEF SwapOfCityworks
  <2> QED BY <1>o, <2>2, <2>3, <2>4, <2>5 DEF TypeOK, RunType
<1>7. CASE LoadCensus \/ RunFails
  <2>1. run' \in RunType /\ run'.pc \in {"idle", "poll"}
    BY <1>7, <1>o DEF LoadCensus, RunFails
  <2>2. loaded' \subseteq TRACKED_LAYERS
    BY <1>7 DEF LoadCensus, RunFails, TypeOK, TRACKED_LAYERS
  <2> QED BY <1>7, <2>1, <2>2 DEF LoadCensus, RunFails, TypeOK, RunType, SwapOfCityworks
<1>8. ASSUME NEW l \in CURRENCY_LAYERS, LoadByHand(l) PROVE TypeOK' /\ SwapOfCityworks'
  <2>1. rows' \in [CURRENCY_LAYERS -> Versions] /\ clock' \in [CURRENCY_LAYERS -> Clock]
    BY <1>8, <1>p DEF LoadByHand, TypeOK, Clock
  <2>2. loaded' \subseteq TRACKED_LAYERS
    BY <1>8 DEF LoadByHand, TypeOK, TRACKED_LAYERS, CURRENCY_LAYERS
  <2>3. req' \in Request
    BY <1>8 DEF LoadByHand, TypeOK, Request
  <2>4. handLoads' \in 0..MaxHandLoads
    BY <1>8 DEF LoadByHand, TypeOK
  <2> QED BY <1>8, <2>1, <2>2, <2>3, <2>4 DEF LoadByHand, TypeOK, SwapOfCityworks
<1>9. ASSUME NEW route \in Routes, Begin(route) PROVE TypeOK' /\ SwapOfCityworks'
  <2>1. req' \in Request
    BY <1>9, NothingTyped DEF Begin, Request, Statuses
  <2> QED BY <1>9, <2>1 DEF Begin, mirror, TypeOK, SwapOfCityworks
<1>10. CASE ReadOn
  <2>1. req' \in Request
    BY <1>10, ReadTyped
  <2> QED BY <1>10, <2>1 DEF ReadOn, mirror, TypeOK, SwapOfCityworks
<1>11. CASE MissingTable \/ Answer
  <2>1. MissingTable => req' \in Request /\ toldReady' \in BOOLEAN
    <3>1. {"error", "unavailable"} \subseteq Statuses /\ "uninitialised" \in Readiness
      BY DEF Statuses, Readiness
    <3>2. \A status \in Statuses, ready \in Readiness :
            [req EXCEPT !.status = status, !.ready = ready] \in Request
      BY DEF TypeOK, Request
    <3>3. req.ready \in Readiness
      BY DEF TypeOK, Request
    <3>4. MissingTable =>
            \/ req' = [req EXCEPT !.status = "error", !.ready = req.ready]
            \/ req' = [req EXCEPT !.status = "unavailable", !.ready = "uninitialised"]
      BY DEF MissingTable, TypeOK, Request
    <3>5. toldReady \in BOOLEAN
      BY DEF TypeOK
    <3>6. MissingTable => \E status \in Statuses, ready \in Readiness :
                            req' = [req EXCEPT !.status = status, !.ready = ready]
      BY <3>1, <3>3, <3>4
    <3>7. MissingTable => req' \in Request
      BY <3>2, <3>6
    <3>8. MissingTable => toldReady' \in BOOLEAN
      BY <3>5 DEF MissingTable
    <3> QED BY <3>7, <3>8
  <2>2. Answer => req' \in Request /\ toldReady' \in BOOLEAN
    BY NothingTyped DEF Answer, TypeOK
  <2> QED BY <1>11, <2>1, <2>2 DEF MissingTable, Answer, mirror, TypeOK, SwapOfCityworks
<1> QED BY <1>0, <1>1, <1>2, <1>3, <1>4, <1>5, <1>6, <1>7, <1>8, <1>9, <1>10, <1>11 DEF Next

LEMMA RouteKept ==
    TypeOK /\ ReadsARoute /\ [Next]_vars => ReadsARoute'
<1> SUFFICES ASSUME TypeOK, ReadsARoute, [Next]_vars PROVE ReadsARoute'
  OBVIOUS
<1> USE DEF ReadsARoute
<1>0. CASE UNCHANGED req
  BY <1>0
<1>1. CASE SwapIn
  <2>1. req'.at = req.at /\ req'.route = req.route /\ req'.status = req.status
    BY <1>1 DEF SwapIn, Replace, TypeOK, Request
  <2> QED BY <2>1
<1>2. ASSUME NEW l \in CURRENCY_LAYERS, LoadByHand(l) PROVE ReadsARoute'
  <2>1. req'.at = req.at /\ req'.route = req.route /\ req'.status = req.status
    BY <1>2 DEF LoadByHand, TypeOK, Request
  <2> QED BY <2>1
<1>3. ASSUME NEW route \in Routes, Begin(route) PROVE ReadsARoute'
  BY <1>3 DEF Begin, NoRequest
<1>4. CASE ReadOn
  BY <1>4, ReadKeepsRoute
<1>5. CASE MissingTable
  <2>1. req'.at = req.at /\ req'.status # "reading"
    BY <1>5 DEF MissingTable, TypeOK, Request
  <2> QED BY <2>1
<1>6. CASE Answer
  <2>1. req'.at = 1 /\ req'.status # "reading"
    BY <1>6 DEF Answer, NoRequest
  <2> QED BY <2>1
<1> QED BY <1>0, <1>1, <1>2, <1>3, <1>4, <1>5, <1>6
        DEF Next, vars, mirror, Publish, TakeLock, ApplySchema, PollLayer, FinishReload,
            TouchLayer, LoadCensus, RunFails

\* Every value the state and the request under way can hold is of its declared set.
THEOREM Typing == Spec => []TypeOK
BY InitTyped, StepTyped, RouteKept, InitReads, PTL DEF Spec

--------------------------------------------------------------------------------
(* What a step does to the request under way. *)

\* All that a request holds but its place, its end, and what the writers note in it.
SameReads(r, r1) ==
    /\ r1.route = r.route /\ r1.got = r.got /\ r1.live = r.live /\ r1.clocks = r.clocks
    /\ r1.ready = r.ready /\ r1.edits = r.edits /\ r1.again = r.again
    /\ r1.pinned = r.pinned /\ r1.snap = r.snap /\ r1.locks = r.locks
    /\ r1.inStep = r.inStep

Undisturbed ==
    /\ SameReads(req, req') /\ req'.at = req.at /\ req'.status = req.status
    /\ req.emptied \subseteq req'.emptied
    /\ req.byHand /\ req.status = "reading" => req'.byHand
    /\ toldReady' = toldReady

\* A request that reads, and the request a statement makes of it.
Read == Statement(PinSnapshot(req), Script(req.route)[req.at])

ReadsOn ==
    /\ SameReads(Read, req') /\ req'.at = NextAt(req, Read)
    /\ req'.emptied = Read.emptied /\ req'.byHand = Read.byHand
    /\ schema \/ Tableless(Script(req.route)[req.at])

NotReading == req'.status # "reading" /\ ~req'.pinned /\ req'.ready = "unasked"

LEMMA WriterStep ==
    TypeOK /\ [Next]_vars =>
        \/ Undisturbed
        \/ \E route \in Routes : Begin(route)
        \/ ReadOn
        \/ MissingTable
        \/ Answer
<1> SUFFICES ASSUME TypeOK, [Next]_vars,
                    ~\E route \in Routes : Begin(route), ~ReadOn, ~MissingTable, ~Answer
             PROVE  Undisturbed
  OBVIOUS
<1>1. CASE UNCHANGED <<req, toldReady>>
  BY <1>1 DEF Undisturbed, SameReads
<1>2. CASE SwapIn
  BY <1>2 DEF SwapIn, Replace, Undisturbed, SameReads, TypeOK, Request
<1>3. ASSUME NEW l \in CURRENCY_LAYERS, LoadByHand(l) PROVE Undisturbed
  BY <1>3 DEF LoadByHand, Undisturbed, SameReads, TypeOK, Request
<1> QED BY <1>1, <1>2, <1>3
        DEF Next, vars, mirror, Publish, TakeLock, ApplySchema, PollLayer, FinishReload,
            TouchLayer, LoadCensus, RunFails

LEMMA MirrorGrows ==
    TypeOK /\ [Next]_vars =>
        /\ schema => schema'
        /\ loaded \subseteq loaded'
        /\ \A l \in CURRENCY_LAYERS : published'[l] \in Nat /\ published'[l] >= published[l]
<1> SUFFICES ASSUME TypeOK, [Next]_vars
             PROVE  /\ schema => schema'
                    /\ loaded \subseteq loaded'
                    /\ \A l \in CURRENCY_LAYERS :
                         published'[l] \in Nat /\ published'[l] >= published[l]
  OBVIOUS
<1>1. schema => schema'
  BY DEF Next, vars, mirror, Publish, TakeLock, ApplySchema, PollLayer, SwapIn, FinishReload,
         TouchLayer, LoadCensus, RunFails, LoadByHand, Begin, ReadOn, MissingTable, Answer
<1>2. loaded \subseteq loaded'
  BY DEF Next, vars, mirror, Publish, TakeLock, ApplySchema, PollLayer, SwapIn, FinishReload,
         TouchLayer, LoadCensus, RunFails, LoadByHand, Begin, ReadOn, MissingTable, Answer
<1>3. UNCHANGED published \/ \E l \in CURRENCY_LAYERS : published' = [published EXCEPT ![l] = @ + 1]
  BY DEF Next, vars, mirror, Publish, TakeLock, ApplySchema, PollLayer, SwapIn, FinishReload,
         TouchLayer, LoadCensus, RunFails, LoadByHand, Begin, ReadOn, MissingTable, Answer
<1>4. \A l \in CURRENCY_LAYERS : published[l] \in Nat
  BY ReaderAssumption DEF TypeOK
<1>5. \A l \in CURRENCY_LAYERS : published'[l] \in Nat /\ published'[l] >= published[l]
  BY <1>3, <1>4 DEF TypeOK
<1> QED BY <1>1, <1>2, <1>5

LEMMA ReadingStep ==
    ASSUME TypeOK, ReadsARoute, ReadOn
    PROVE  /\ req \in Request /\ PinSnapshot(req) \in Request /\ Read \in Request
           /\ Script(req.route)[req.at] \in Statements
           /\ NotReading \/ ReadsOn
           /\ req.route # "freshness" => NotReading \/ req'.status = "reading"
<1> DEFINE s == Script(req.route)[req.at]
<1>1. s \in Statements /\ req.route \in Routes
  BY ReadsAStatement DEF ReadOn
<1>2. req \in Request /\ PinSnapshot(req) \in Request /\ Read \in Request
  BY <1>1, PinTyped, StatementTyped DEF TypeOK, Read
<1>3. Read.route = req.route /\ Read.status = req.status /\ req.status = "reading"
  BY <1>1, <1>2, StatementKeeps DEF Read, ReadOn
<1>4. CASE schema \/ Tableless(s)
  <2>1. req' = [Read EXCEPT !.at = NextAt(req, Read),
                            !.status = IF Read.route = "freshness" /\ Read.ready = "uninitialised"
                                       THEN "unavailable" ELSE @]
    BY <1>4 DEF ReadOn, Read
  <2>2. ReadsOn
    BY <1>2, <1>4, <2>1 DEF ReadsOn, SameReads, Request
  <2>3. req.route # "freshness" => req'.status = "reading"
    BY <1>2, <1>3, <2>1 DEF Request
  <2> QED BY <1>1, <1>2, <2>2, <2>3
<1>5. CASE ~(schema \/ Tableless(s))
  <2>1. req' = [NoRequest EXCEPT !.route = req.route,
                                 !.status = IF req.route \in {"reconcile", "figures"}
                                            THEN "error" ELSE "missing"]
    BY <1>5 DEF ReadOn
  <2>2. NotReading
    BY <2>1 DEF NotReading, NoRequest
  <2> QED BY <1>1, <1>2, <2>2
<1> QED BY <1>4, <1>5

\* The first statement of an export's transaction pins what it sees from then on.
LEMMA PinEffect ==
    ASSUME TypeOK, NEW r \in Request
    PROVE  LET p == PinSnapshot(r) IN
           /\ p.route = r.route /\ p.got = r.got /\ p.live = r.live /\ p.clocks = r.clocks
           /\ p.ready = r.ready /\ p.edits = r.edits /\ p.again = r.again /\ p.at = r.at
           /\ p.locks = r.locks /\ p.inStep = r.inStep /\ p.emptied = r.emptied
           /\ p.byHand = r.byHand
           /\ r.pinned => p.pinned /\ p.snap = r.snap
           /\ ~r.pinned /\ r.route = "export" =>
                 /\ p.pinned
                 /\ p.snap.rows = rows /\ p.snap.clock = clock /\ p.snap.loaded = loaded
           /\ ~r.pinned /\ r.route # "export" => ~p.pinned
BY DEF PinSnapshot, Request

--------------------------------------------------------------------------------
(* Readiness. *)

\* What has been told, or is about to be, was read of loads that are still completed.
ToldWhenLoaded ==
    /\ toldReady \/ req.ready = "ready" => schema /\ TRACKED_LAYERS \subseteq loaded
    /\ req.pinned => req.snap.loaded \subseteq loaded
    /\ toldReady /\ req.pinned => TRACKED_LAYERS \subseteq req.snap.loaded
    /\ toldReady => req.ready \in {"unasked", "ready"}

LEMMA InitTold == Init => ToldWhenLoaded
BY DEF Init, NoRequest, ToldWhenLoaded

LEMMA ReadTold ==
    ASSUME TypeOK, ReadsARoute, ToldWhenLoaded, ReadOn
    PROVE  ToldWhenLoaded'
<1> DEFINE s == Script(req.route)[req.at]
           p == PinSnapshot(req)
<1>1. /\ p \in Request /\ s \in Statements /\ req \in Request /\ Read \in Request
      /\ NotReading \/ ReadsOn
  BY ReadingStep
<1>u. UNCHANGED <<schema, loaded, toldReady>>
  BY DEF ReadOn, mirror
<1>2. /\ p.ready = req.ready
      /\ p.pinned => /\ p.snap.loaded \subseteq loaded
                     /\ toldReady => TRACKED_LAYERS \subseteq p.snap.loaded
  BY <1>1, PinEffect DEF ToldWhenLoaded
<1>3. Read.pinned = p.pinned /\ Read.snap = p.snap
  BY <1>1, StatementKeeps DEF Read
<1>4. \/ Read.ready = p.ready
      \/ s[1] = "completed" /\ Read.ready = Completed(p).ready
      \/ s[1] = "lock" /\ Read.ready = AskLock(p).ready
  <2> HIDE DEF s, p
  <2>1. Read = Statement(p, s)
    BY DEF Read, p, s
  <2>2. \A l : /\ ReadTable(p, l).ready = p.ready /\ ReadClock(p, l).ready = p.ready
               /\ ReadSeen(p, l).ready = p.ready /\ FetchLive(p, l).ready = p.ready
               /\ AskEdit(p, l).ready = p.ready /\ AskEditAgain(p, l).ready = p.ready
    BY <1>1 DEF ReadTable, ReadClock, ReadSeen, AskEdit, AskEditAgain, FetchLive, Request
  <2> QED BY <1>1, <2>1, <2>2 DEF Statement, Statements
<1>5. /\ Read.ready = "ready" => schema /\ TRACKED_LAYERS \subseteq loaded
      /\ toldReady => Read.ready \in {"unasked", "ready"}
  <2> HIDE DEF s, p
  <2>1. CASE Read.ready = p.ready
    BY <1>2, <2>1 DEF ToldWhenLoaded
  <2>2. CASE Read.ready = Completed(p).ready
    <3>1. Read.ready = IF ~schema THEN "uninitialised"
                       ELSE IF TRACKED_LAYERS \subseteq VisibleLoads(p) THEN "ready" ELSE "pending"
      BY <1>1, <2>2 DEF Completed, Request
    <3> QED BY <1>2, <3>1 DEF VisibleLoads, ToldWhenLoaded
  <2>3. CASE Read.ready = AskLock(p).ready
    <3>1. Read.ready = IF p.ready # "pending" THEN p.ready
                       ELSE IF run.pc # "idle" THEN "loading" ELSE "awaiting_first_load"
      BY <1>1, <2>3 DEF AskLock, Request
    <3> QED BY <1>2, <3>1 DEF ToldWhenLoaded
  <2> QED BY <1>4, <2>1, <2>2, <2>3
<1> HIDE DEF s, p
<1>6. CASE ReadsOn
  BY <1>2, <1>3, <1>5, <1>6, <1>u DEF ReadsOn, SameReads, ToldWhenLoaded
<1>7. CASE NotReading
  BY <1>7, <1>u DEF NotReading, ToldWhenLoaded
<1> QED BY <1>1, <1>6, <1>7

LEMMA ToldKept ==
    TypeOK /\ ReadsARoute /\ ToldWhenLoaded /\ [Next]_vars => ToldWhenLoaded'
<1> SUFFICES ASSUME TypeOK, ReadsARoute, ToldWhenLoaded, [Next]_vars PROVE ToldWhenLoaded'
  OBVIOUS
<1>g. (schema => schema') /\ loaded \subseteq loaded'
  BY MirrorGrows
<1>1. CASE Undisturbed
  BY <1>1, <1>g DEF Undisturbed, SameReads, ToldWhenLoaded
<1>2. ASSUME NEW route \in Routes, Begin(route) PROVE ToldWhenLoaded'
  BY <1>2 DEF Begin, mirror, NoRequest, ToldWhenLoaded
<1>3. CASE ReadOn
  BY <1>3, ReadTold
<1>4. CASE MissingTable
  <2>1. /\ req'.pinned = req.pinned /\ req'.snap = req.snap
        /\ req'.ready = IF schema THEN req.ready ELSE "uninitialised"
    BY <1>4 DEF MissingTable, TypeOK, Request
  <2> QED BY <1>4, <2>1 DEF MissingTable, mirror, ToldWhenLoaded
<1>5. CASE Answer
  BY <1>5 DEF Answer, mirror, NoRequest, ToldWhenLoaded
<1> QED BY WriterStep, <1>1, <1>2, <1>3, <1>4, <1>5

\* No reader is told that the mirror is loading, is awaited or does not exist once one
\* has been told that it is ready (mirror_readiness, src/app/server.py).
THEOREM StaysReady == Spec => []ReadinessNeverRetreats
<1>1. ToldWhenLoaded => ReadinessNeverRetreats
  BY DEF ToldWhenLoaded, ReadinessNeverRetreats
<1> QED BY <1>1, InitTyped, InitReads, InitTold, StepTyped, RouteKept, ToldKept, PTL DEF Spec

--------------------------------------------------------------------------------
(* A list and an export read the selection, the requests and the attributes. *)

\* The table of each of the three.
ReadOf(i) == IF i = 2 THEN "requests" ELSE "fields"

Derivation == {"list", "export"}

\* How many of the three have been read; a selection of no calls skips the others.
Selected ==
    req.status = "reading" /\ req.route \in Derivation =>
        /\ req.at \in 1..3 => Len(req.got) = req.at - 1
        /\ req.at > 3 => Len(req.got) \in {1, 3}

\* Until the attributes have been read, the rows the selection was made of are live.
ListSteady ==
    req.status = "reading" /\ req.route = "list" =>
        /\ ~req.pinned
        /\ ~req.byHand =>
              /\ req.at \in {2, 3} => req.got[1] = rows["fields"] /\ "fields" \in req.locks
              /\ Len(req.got) = 3 => req.got[1] = req.got[3]

\* All that an export has read is of the snapshot.
ExportPinned ==
    req.status = "reading" /\ req.route = "export" =>
        /\ req.at > 1 => req.pinned
        /\ \A i \in 1..Len(req.got) :
             \/ req.got[i] = req.snap.rows[ReadOf(i)]
             \/ req.got[i] = 0 /\ ReadOf(i) \in req.emptied
        /\ req.at > 6 => req.clocks["requests"] = req.snap.clock["requests"]
        /\ req.at > 7 => req.clocks["fields"] = req.snap.clock["fields"]

LEMMA DerivationScript ==
    ASSUME NEW route \in Derivation, NEW i \in 1..3
    PROVE  Script(route)[i] = <<"rows", ReadOf(i)>> /\ ReadOf(i) \in CURRENCY_LAYERS
<1>1. CASE route = "list"
  BY <1>1 DEF Script, ReadOf, CURRENCY_LAYERS
<1>2. CASE route = "export"
  BY <1>2 DEF Script, ReadOf, CURRENCY_LAYERS
<1> QED BY <1>1, <1>2 DEF Derivation

LEMMA ReadRows ==
    ASSUME TypeOK, ReadsARoute, ReadOn, req.route \in Derivation, req.at \in 1..3
    PROVE  LET p == PinSnapshot(req)
               l == ReadOf(req.at)
           IN  /\ l \in CURRENCY_LAYERS
               /\ Read.got = Append(req.got, VisibleRows(p, l))
               /\ Read.locks = req.locks \union {l}
               /\ Read.clocks = req.clocks
               /\ Read.pinned = p.pinned /\ Read.snap = p.snap /\ Read.route = req.route
               /\ Read.emptied = req.emptied /\ Read.byHand = req.byHand
<1> DEFINE p == PinSnapshot(req)
           l == ReadOf(req.at)
<1>1. Script(req.route)[req.at] = <<"rows", l>> /\ l \in CURRENCY_LAYERS
  BY DerivationScript
<1>2. req \in Request /\ p \in Request
  BY ReadingStep
<1>3. /\ p.got = req.got /\ p.locks = req.locks /\ p.clocks = req.clocks /\ p.route = req.route
      /\ p.emptied = req.emptied /\ p.byHand = req.byHand
  BY <1>2, PinEffect
<1> HIDE DEF p, l
<1>4. Read = ReadTable(p, l)
  BY <1>1 DEF Read, Statement, p
<1>5. /\ Read.got = Append(p.got, VisibleRows(p, l)) /\ Read.locks = p.locks \union {l}
      /\ Read.clocks = p.clocks /\ Read.pinned = p.pinned /\ Read.snap = p.snap
      /\ Read.route = p.route /\ Read.emptied = p.emptied /\ Read.byHand = p.byHand
  BY <1>2, <1>4 DEF ReadTable, Request
<1> QED BY <1>1, <1>3, <1>5 DEF p, l

\* The statements of an export that come behind them.
LEMMA ReadClocks ==
    ASSUME TypeOK, ReadsARoute, ReadOn, req.route = "export", req.at > 3
    PROVE  /\ req.at \in 4..7
           /\ Read.got = req.got /\ Read.route = req.route
           /\ \/ req.at < 6 /\ Read.clocks = req.clocks
              \/ req.at = 6 /\ Read.clocks = ReadClock(PinSnapshot(req), "requests").clocks
              \/ req.at = 7 /\ Read.clocks = ReadClock(PinSnapshot(req), "fields").clocks
           /\ Read.emptied = req.emptied /\ Read.byHand = req.byHand
<1> DEFINE p == PinSnapshot(req)
           s == Script(req.route)[req.at]
<1>1. req \in Request /\ p \in Request /\ s \in Statements
  BY ReadingStep
<1>2. /\ p.got = req.got /\ p.clocks = req.clocks /\ p.route = req.route
      /\ p.emptied = req.emptied /\ p.byHand = req.byHand
  BY <1>1, PinEffect
<1>3. req.at \in 4..7
  <2>1. Len(Script(req.route)) = 7
    BY DEF Script
  <2>2. req.at \in 1..7
    BY <2>1, ReadsAStatement, Zenon DEF ReadOn
  <2> QED BY <2>2
<1>4. s = CASE req.at = 4 -> <<"completed", "all">> [] req.at = 5 -> <<"lock", "all">>
            [] req.at = 6 -> <<"clocks", "requests">> [] req.at = 7 -> <<"clocks", "fields">>
  BY <1>3 DEF Script
<1>k. Read.emptied = p.emptied /\ Read.byHand = p.byHand /\ Read.route = p.route
  BY <1>1, StatementKeeps DEF Read
<1> HIDE DEF p, s
<1>5. Read = Statement(p, s)
  BY DEF Read, p, s
<1>6. CASE req.at \in {4, 5}
  <2>1. Read = Completed(p) \/ Read = AskLock(p)
    BY <1>4, <1>5, <1>6 DEF Statement
  <2>2. Read.got = p.got /\ Read.clocks = p.clocks
    BY <1>1, <2>1 DEF Completed, AskLock, Request
  <2> QED BY <1>2, <1>3, <1>6, <1>k, <2>2
<1>7. CASE req.at = 6
  <2>1. Read = ReadClock(p, "requests")
    BY <1>4, <1>5, <1>7 DEF Statement
  <2>2. Read.got = p.got
    BY <1>1, <2>1 DEF ReadClock, Request
  <2> QED BY <1>2, <1>3, <1>7, <1>k, <2>1, <2>2 DEF p
<1>8. CASE req.at = 7
  <2>1. Read = ReadClock(p, "fields")
    BY <1>4, <1>5, <1>8 DEF Statement
  <2>2. Read.got = p.got
    BY <1>1, <2>1 DEF ReadClock, Request
  <2> QED BY <1>2, <1>3, <1>8, <1>k, <2>1, <2>2 DEF p
<1> QED BY <1>3, <1>6, <1>7, <1>8

LEMMA ReadSelected ==
    ASSUME TypeOK, ReadsARoute, Selected, ReadOn
    PROVE  Selected'
<1> SUFFICES ASSUME ReadsOn, req'.route \in Derivation PROVE Selected'
  BY ReadingStep DEF NotReading, Selected
<1>1. /\ req \in Request /\ Read \in Request /\ Read.route = req.route
      /\ req.status = "reading"
  BY ReadingStep, StatementKeeps DEF Read, ReadOn
<1>2. /\ req.route \in Derivation /\ req'.got = Read.got
      /\ req'.at = NextAt(req, Read)
  BY <1>1 DEF ReadsOn, SameReads
<1>3. req.at \in Nat /\ req.at >= 1 /\ req.got \in Seq(Versions)
  BY <1>1 DEF Request, ReadsARoute
<1>4. CASE req.at \in 1..3
  <2>1. Len(req.got) = req.at - 1
    BY <1>1, <1>2, <1>4 DEF Selected
  <2>2. PICK v : Read.got = Append(req.got, v)
    BY <1>2, <1>4, ReadRows
  <2>3. Len(Read.got) = req.at
    BY <1>3, <2>1, <2>2
  <2>4. \/ req'.at = req.at + 1
        \/ req.at = 1 /\ req'.at = 4
    BY <1>2, <1>3, <2>1 DEF NextAt
  <2> QED BY <1>2, <1>4, <2>3, <2>4 DEF Selected
<1>5. CASE req.at > 3
  <2>1. CASE req.route = "export"
    <3>1. Read.got = req.got
      BY <1>5, <2>1, ReadClocks
    <3>2. Len(req.got) \in {1, 3}
      BY <1>1, <1>2, <1>5 DEF Selected
    <3>3. req'.at > 3
      BY <1>1, <1>2, <1>5, NextTyped, <1>3
    <3> QED BY <1>2, <3>1, <3>2, <3>3 DEF Selected
  <2>2. CASE req.route = "list"
    <3>1. Len(Script(req.route)) = 3
      BY <2>2 DEF Script
    <3>2. req.at \in 1..3
      BY <3>1, ReadsAStatement, Zenon DEF ReadOn
    <3> QED BY <1>5, <3>2
  <2> QED BY <1>2, <2>1, <2>2 DEF Derivation
<1> QED BY <1>3, <1>4, <1>5

LEMMA ReadListSteady ==
    ASSUME TypeOK, ReadsARoute, Selected, ListSteady, ReadOn
    PROVE  ListSteady'
<1> SUFFICES ASSUME ReadsOn, req'.route = "list" PROVE ListSteady'
  BY ReadingStep DEF NotReading, ListSteady
<1>1. /\ req \in Request /\ Read.route = req.route /\ req.status = "reading"
      /\ PinSnapshot(req) \in Request
  BY ReadingStep, StatementKeeps DEF Read, ReadOn
<1>2. /\ req.route = "list" /\ req'.got = Read.got /\ req'.locks = Read.locks
      /\ req'.at = NextAt(req, Read) /\ req'.pinned = Read.pinned /\ req'.byHand = Read.byHand
      /\ UNCHANGED rows
  BY <1>1 DEF ReadsOn, SameReads, ReadOn, mirror
<1>3. req.at \in 1..3
  <2>1. Len(Script(req.route)) = 3
    BY <1>2 DEF Script
  <2> QED BY <2>1, ReadsAStatement, Zenon DEF ReadOn
<1>4. Len(req.got) = req.at - 1 /\ req.got \in Seq(Versions)
  BY <1>1, <1>2, <1>3 DEF Selected, Request, Derivation
<1> DEFINE l == ReadOf(req.at)
<1>5. /\ l \in CURRENCY_LAYERS
      /\ Read.got = Append(req.got, VisibleRows(PinSnapshot(req), l))
      /\ Read.locks = req.locks \union {l}
      /\ Read.pinned = PinSnapshot(req).pinned /\ Read.byHand = req.byHand
  BY <1>2, <1>3, ReadRows DEF Derivation
<1>6. ~PinSnapshot(req).pinned
  BY <1>1, <1>2, PinEffect DEF ListSteady
<1>7. VisibleRows(PinSnapshot(req), l) = rows[l]
  BY <1>6 DEF VisibleRows
<1>8. \/ req'.at = req.at + 1
      \/ req.at = 1 /\ req'.at = 4
  BY <1>2, <1>3, <1>4 DEF NextAt
<1>9. CASE ~req.byHand
  <2>1. req.at \in {2, 3} => req.got[1] = rows["fields"] /\ "fields" \in req.locks
    BY <1>1, <1>2, <1>9 DEF ListSteady
  <2>2. CASE req.at = 1
    <3>1. Read.got[1] = rows["fields"] /\ Len(Read.got) = 1 /\ "fields" \in Read.locks
      BY <1>4, <1>5, <1>7, <2>2 DEF ReadOf
    <3> QED BY <1>2, <1>5, <1>6, <3>1 DEF ListSteady
  <2>3. CASE req.at = 2
    <3>1. Read.got[1] = rows["fields"] /\ Len(Read.got) = 2 /\ "fields" \in Read.locks
      BY <1>4, <1>5, <2>1, <2>3
    <3> QED BY <1>2, <1>5, <1>6, <3>1 DEF ListSteady
  <2>4. CASE req.at = 3
    <3>1. Read.got[1] = rows["fields"] /\ Read.got[3] = rows["fields"]
      BY <1>4, <1>5, <1>7, <2>1, <2>4 DEF ReadOf
    <3>2. req'.at = 4
      BY <1>8, <2>4
    <3> QED BY <1>2, <1>5, <1>6, <3>1, <3>2 DEF ListSteady
  <2> QED BY <1>3, <2>2, <2>3, <2>4
<1>10. CASE req.byHand
  BY <1>2, <1>5, <1>6, <1>10 DEF ListSteady
<1> QED BY <1>9, <1>10

LEMMA SelectedKept ==
    TypeOK /\ ReadsARoute /\ Selected /\ [Next]_vars => Selected'
<1> SUFFICES ASSUME TypeOK, ReadsARoute, Selected, [Next]_vars PROVE Selected'
  OBVIOUS
<1>1. CASE Undisturbed
  BY <1>1 DEF Undisturbed, SameReads, Selected
<1>2. ASSUME NEW route \in Routes, Begin(route) PROVE Selected'
  BY <1>2 DEF Begin, NoRequest, Selected
<1>3. CASE ReadOn
  BY <1>3, ReadSelected
<1>4. CASE MissingTable
  BY <1>4 DEF MissingTable, Selected, TypeOK, Request
<1>5. CASE Answer
  BY <1>5 DEF Answer, NoRequest, Selected
<1> QED BY WriterStep, <1>1, <1>2, <1>3, <1>4, <1>5

\* A reload's TRUNCATE waits for a list that has read the table; a load by hand is noted.
LEMMA WriterOfRows ==
    ASSUME TypeOK, SwapOfCityworks, [Next]_vars, req.status = "reading"
    PROVE  \/ req'.byHand
           \/ \A l \in req.locks : rows'[l] = rows[l]
<1>1. CASE SwapIn
  <2>1. SYNC_ORDER[run.at] \in CURRENCY_LAYERS /\ SYNC_ORDER[run.at] \notin req.locks
    BY <1>1 DEF SwapIn, SwapOfCityworks
  <2>2. PICK v : rows' = [rows EXCEPT ![SYNC_ORDER[run.at]] = v]
    BY <1>1 DEF SwapIn, Replace
  <2>3. req.locks \subseteq CURRENCY_LAYERS
    BY DEF TypeOK, Request
  <2> QED BY <2>1, <2>2, <2>3 DEF TypeOK
<1>2. ASSUME NEW l \in CURRENCY_LAYERS, LoadByHand(l) PROVE req'.byHand
  BY <1>2 DEF LoadByHand, TypeOK, Request
<1>3. CASE UNCHANGED rows
  BY <1>3
<1> QED BY <1>1, <1>2, <1>3
        DEF Next, vars, mirror, Publish, TakeLock, ApplySchema, PollLayer, FinishReload,
            TouchLayer, LoadCensus, RunFails, Begin, ReadOn, MissingTable, Answer

LEMMA ListSteadyKept ==
    TypeOK /\ SwapOfCityworks /\ ReadsARoute /\ Selected /\ ListSteady /\ [Next]_vars
        => ListSteady'
<1> SUFFICES ASSUME TypeOK, SwapOfCityworks, ReadsARoute, Selected, ListSteady, [Next]_vars
             PROVE  ListSteady'
  OBVIOUS
<1>1. CASE Undisturbed
  BY <1>1, WriterOfRows DEF Undisturbed, SameReads, ListSteady
<1>2. ASSUME NEW route \in Routes, Begin(route) PROVE ListSteady'
  BY <1>2 DEF Begin, NoRequest, ListSteady
<1>3. CASE ReadOn
  BY <1>3, ReadListSteady
<1>4. CASE MissingTable
  BY <1>4 DEF MissingTable, ListSteady, TypeOK, Request
<1>5. CASE Answer
  BY <1>5 DEF Answer, NoRequest, ListSteady
<1> QED BY WriterStep, <1>1, <1>2, <1>3, <1>4, <1>5

LEMMA InitSelected == Init => Selected /\ ListSteady
BY DEF Init, NoRequest, Selected, ListSteady

\* The attributes a list shows are of the rows its calls were selected from, unless a
\* load by hand wrote between the two (src/mirror/derive.py, derive).
THEOREM ListsAgree == Spec => []SelectionAndAttributesAgree
<1>1. ListSteady => SelectionAndAttributesAgree
  BY DEF ListSteady, SelectionAndAttributesAgree, AllRead
<1> QED BY <1>1, InitTyped, InitReads, InitSelected, StepTyped, RouteKept, SelectedKept,
           ListSteadyKept, PTL DEF Spec

LEMMA ReadExport ==
    ASSUME TypeOK, ReadsARoute, Selected, ExportPinned, ReadOn
    PROVE  ExportPinned'
<1> SUFFICES ASSUME ReadsOn, req'.route = "export" PROVE ExportPinned'
  BY ReadingStep DEF NotReading, ExportPinned
<1> DEFINE p == PinSnapshot(req)
<1>1. /\ req \in Request /\ Read \in Request /\ p \in Request /\ req.status = "reading"
      /\ Read.route = req.route /\ Read.pinned = p.pinned /\ Read.snap = p.snap
      /\ Script(req.route)[req.at] \in Statements
  BY ReadingStep, StatementKeeps DEF Read, ReadOn
<1>2. /\ req.route = "export" /\ req'.got = Read.got /\ req'.clocks = Read.clocks
      /\ req'.at = NextAt(req, Read) /\ req'.pinned = p.pinned /\ req'.snap = p.snap
      /\ req'.emptied = Read.emptied
  BY <1>1 DEF ReadsOn, SameReads
<1>3. req.at \in Nat \ {0} /\ req'.at \in Nat /\ req'.at > req.at
  <2>1. req'.at \in Nat /\ req'.at > req.at
    BY <1>1, <1>2, NextTyped
  <2>2. req.at \in Nat /\ req.at >= 1
    BY <1>1 DEF ReadsARoute, Request
  <2> QED BY <2>1, <2>2
<1>4. /\ p.pinned /\ (req.pinned => p.snap = req.snap) /\ (req.at > 1 => req.pinned)
      /\ p.emptied = req.emptied
  BY <1>1, <1>2, PinEffect DEF ExportPinned
<1>5. p.got = req.got /\ p.clocks = req.clocks
  BY <1>1, PinEffect
<1> HIDE DEF p
<1>6. \A i \in 1..Len(req.got) :
        req.got[i] = p.snap.rows[ReadOf(i)] \/ (req.got[i] = 0 /\ ReadOf(i) \in req.emptied)
  <2>1. CASE req.at = 1
    <3>1. Len(req.got) = 0
      BY <1>1, <1>2, <2>1 DEF Selected, Derivation
    <3> QED BY <3>1
  <2>2. CASE req.at > 1
    BY <1>1, <1>2, <1>4, <2>2 DEF ExportPinned
  <2> QED BY <1>3, <2>1, <2>2
<1>7. CASE req.at \in 1..3
  <2> DEFINE l == ReadOf(req.at)
  <2>1. /\ l \in CURRENCY_LAYERS /\ Read.got = Append(req.got, VisibleRows(p, l))
        /\ Read.emptied = req.emptied
    BY <1>2, <1>7, ReadRows DEF Derivation, p
  <2>2. Len(req.got) = req.at - 1 /\ req.got \in Seq(Versions)
    BY <1>1, <1>2, <1>7 DEF Selected, Derivation, Request
  <2>3. \/ VisibleRows(p, l) = p.snap.rows[l]
        \/ VisibleRows(p, l) = 0 /\ l \in req.emptied
    BY <1>4 DEF VisibleRows
  <2>4. ASSUME NEW i \in 1..Len(Read.got)
        PROVE  Read.got[i] = p.snap.rows[ReadOf(i)] \/ (Read.got[i] = 0 /\ ReadOf(i) \in req.emptied)
    <3> HIDE DEF l
    <3>1. CASE i < req.at
      <4>1. i \in 1..Len(req.got) /\ Read.got[i] = req.got[i]
        BY <1>3, <2>1, <2>2, <3>1
      <4> QED BY <1>6, <4>1
    <3>2. CASE i = req.at
      <4>1. Read.got[i] = VisibleRows(p, l)
        BY <1>3, <2>1, <2>2, <3>2
      <4> QED BY <2>3, <3>2, <4>1 DEF l
    <3>3. i <= req.at
      BY <1>3, <2>1, <2>2
    <3> QED BY <1>3, <3>1, <3>2, <3>3
  <2>5. req'.at <= 4
    <3>1. req'.at \in {req.at + 1, req.at + 3} /\ (req.at # 1 => req'.at = req.at + 1)
      BY <1>2, <1>3, <2>2 DEF NextAt
    <3> QED BY <1>7, <3>1
  <2> HIDE DEF l
  <2> QED BY <1>2, <1>3, <1>4, <2>1, <2>4, <2>5 DEF ExportPinned
<1>8. CASE req.at > 3
  <2>1. /\ req.at \in 4..7 /\ Read.got = req.got /\ Read.emptied = req.emptied
        /\ \/ req.at < 6 /\ Read.clocks = req.clocks
           \/ req.at = 6 /\ Read.clocks = ReadClock(p, "requests").clocks
           \/ req.at = 7 /\ Read.clocks = ReadClock(p, "fields").clocks
    BY <1>2, <1>8, ReadClocks DEF p
  <2>2. req'.at = req.at + 1
    <3>1. Len(req.got) \in {1, 3} /\ req.got \in Seq(Versions)
      BY <1>1, <1>2, <1>8 DEF Selected, Derivation, Request
    <3>2. Len(<<>>) = 0 /\ Len(req.got) # 0
      <4>1. Len(<<>>) = 0
        OBVIOUS
      <4>2. 0 \notin {1, 3}
        OBVIOUS
      <4> QED BY <3>1, <4>1, <4>2, Zenon
    <3>3. req.got # <<>>
      BY <3>2, Zenon
    <3> QED BY <1>2, <3>3 DEF NextAt
  <2>3. \A l \in CURRENCY_LAYERS :
          ReadClock(p, l).clocks = [req.clocks EXCEPT ![l] = p.snap.clock[l]]
    BY <1>1, <1>4, <1>5 DEF ReadClock, VisibleClock, Request
  <2>4. /\ req.at > 6 => req.clocks["requests"] = p.snap.clock["requests"]
    BY <1>1, <1>2, <1>3, <1>4, <1>8 DEF ExportPinned
  <2>5. req.clocks \in [CURRENCY_LAYERS -> Clock]
    BY <1>1 DEF Request
  <2>6. /\ req.at + 1 > 6 => Read.clocks["requests"] = p.snap.clock["requests"]
        /\ req.at + 1 > 7 => Read.clocks["fields"] = p.snap.clock["fields"]
    <3>1. CASE req.at < 6
      BY <2>1, <3>1
    <3>2. CASE req.at = 6
      BY <2>1, <2>3, <2>5, <3>2 DEF CURRENCY_LAYERS
    <3>3. CASE req.at = 7
      BY <2>1, <2>3, <2>4, <2>5, <3>3 DEF CURRENCY_LAYERS
    <3> QED BY <2>1, <3>1, <3>2, <3>3
  <2> QED BY <1>2, <1>4, <1>6, <2>1, <2>2, <2>6 DEF ExportPinned
<1> QED BY <1>3, <1>7, <1>8

LEMMA ExportKept ==
    TypeOK /\ ReadsARoute /\ Selected /\ ExportPinned /\ [Next]_vars => ExportPinned'
<1> SUFFICES ASSUME TypeOK, ReadsARoute, Selected, ExportPinned, [Next]_vars
             PROVE  ExportPinned'
  OBVIOUS
<1>1. CASE Undisturbed
  BY <1>1 DEF Undisturbed, SameReads, ExportPinned
<1>2. ASSUME NEW route \in Routes, Begin(route) PROVE ExportPinned'
  BY <1>2 DEF Begin, NoRequest, ExportPinned
<1>3. CASE ReadOn
  BY <1>3, ReadExport
<1>4. CASE MissingTable
  BY <1>4 DEF MissingTable, ExportPinned, TypeOK, Request
<1>5. CASE Answer
  BY <1>5 DEF Answer, NoRequest, ExportPinned
<1> QED BY WriterStep, <1>1, <1>2, <1>3, <1>4, <1>5

LEMMA InitExport == Init => ExportPinned
BY DEF Init, NoRequest, ExportPinned

\* What an export lists and what it states beside it are of one state of the mirror, or
\* of a table emptied behind its snapshot (_pin_snapshot, src/app/server.py).
THEOREM ExportsAgree == Spec => []ExportOfOneState
<1>1. TypeOK /\ Selected /\ ExportPinned => ExportOfOneState
  <2> SUFFICES ASSUME TypeOK, Selected, ExportPinned, AllRead(req), req.route = "export"
               PROVE  /\ \A l \in CURRENCY_LAYERS : req.clocks[l] = req.snap.clock[l]
                      /\ \A i \in 1..Len(req.got) :
                           LET l == Script("export")[i][2] IN
                           req.got[i] = req.snap.rows[l] \/ (req.got[i] = 0 /\ l \in req.emptied)
    BY DEF ExportOfOneState
  <2>1. Len(Script(req.route)) = 7 /\ req.status = "reading" /\ ~Aborted(req)
    BY DEF Script, AllRead, Aborted
  <2>2. req.at > 7
    BY <2>1 DEF AllRead
  <2>3. Len(req.got) \in {1, 3} /\ req.at \in Nat
    <3>1. req.at \in Nat
      BY DEF TypeOK, Request
    <3> QED BY <2>1, <2>2, <3>1 DEF Selected, Derivation
  <2>4. \A i \in 1..3 : Script("export")[i][2] = ReadOf(i)
    BY DEF Script, ReadOf
  <2>5. 1..Len(req.got) \subseteq 1..3
    <3>1. CASE Len(req.got) = 1
      BY <3>1
    <3>2. CASE Len(req.got) = 3
      BY <3>2
    <3> QED BY <2>3, <3>1, <3>2
  <2>6. \A l \in CURRENCY_LAYERS : req.clocks[l] = req.snap.clock[l]
    BY <2>1, <2>2, <2>3 DEF ExportPinned, CURRENCY_LAYERS
  <2> QED BY <2>1, <2>4, <2>5, <2>6 DEF ExportPinned
<1> QED BY <1>1, InitTyped, InitReads, InitSelected, InitExport, StepTyped, RouteKept,
           SelectedKept, ExportKept, PTL DEF Spec

--------------------------------------------------------------------------------
(* A report compares what the mirror holds with what the source serves. *)

\* No table is ahead of its source, nor of the version a run is about to swap in.
NeverAhead ==
    /\ \A l \in CURRENCY_LAYERS : rows[l] <= published[l]
    /\ run.pc = "swap" => rows[SYNC_ORDER[run.at]] <= run.target

LEMMA InitNeverAhead == Init => NeverAhead
BY ReaderAssumption DEF Init, NoRun, NeverAhead

LEMMA SwapsInTheLater ==
    ASSUME TypeOK, SwapOfCityworks, NeverAhead, SwapIn
    PROVE  LET l == SYNC_ORDER[run.at] IN
           /\ l \in CURRENCY_LAYERS
           /\ \E v \in rows[l]..published[l] : rows' = [rows EXCEPT ![l] = v]
<1> DEFINE l == SYNC_ORDER[run.at]
<1>1. l \in CURRENCY_LAYERS /\ rows[l] <= run.target
  BY DEF SwapIn, SwapOfCityworks, NeverAhead
<1>2. PICK v \in run.target..published[l] : rows' = [rows EXCEPT ![l] = v]
  BY DEF SwapIn, Replace
<1> HIDE DEF l
<1>3. rows[l] \in Nat /\ run.target \in Nat /\ published[l] \in Nat
  BY <1>1, ReaderAssumption DEF TypeOK, Versions
<1>4. v \in rows[l]..published[l]
  BY <1>1, <1>2, <1>3
<1> QED BY <1>1, <1>2, <1>4 DEF l

LEMMA NeverAheadKept ==
    TypeOK /\ SwapOfCityworks /\ NeverAhead /\ [Next]_vars => NeverAhead'
<1> SUFFICES ASSUME TypeOK, SwapOfCityworks, NeverAhead, [Next]_vars PROVE NeverAhead'
  OBVIOUS
<1>t. /\ \A l \in CURRENCY_LAYERS : rows[l] \in Nat /\ published[l] \in Nat
      /\ \A l \in CURRENCY_LAYERS : published'[l] \in Nat /\ published'[l] >= published[l]
      /\ Onward.pc # "swap" /\ NoRun.pc # "swap"
  BY ReaderAssumption, MirrorGrows, OnwardTyped DEF TypeOK, Versions, NoRun
<1>1. CASE UNCHANGED rows /\ (UNCHANGED run \/ run'.pc # "swap")
  BY <1>1, <1>t DEF NeverAhead
<1>2. CASE PollLayer
  <2>1. SYNC_ORDER[run.at] \in CURRENCY_LAYERS /\ UNCHANGED <<published, rows>>
        /\ \/ run' = [run EXCEPT !.pc = "swap", !.target = published[SYNC_ORDER[run.at]]]
           \/ run'.pc # "swap"
    BY <1>2, <1>t DEF PollLayer
  <2>2. CASE run' = [run EXCEPT !.pc = "swap", !.target = published[SYNC_ORDER[run.at]]]
    <3>1. run'.at = run.at /\ run'.target = published[SYNC_ORDER[run.at]]
      BY <2>2 DEF TypeOK
    <3> QED BY <2>1, <3>1 DEF NeverAhead
  <2> QED BY <2>1, <2>2 DEF NeverAhead
<1>3. CASE SwapIn
  <2>1. run'.pc # "swap" /\ UNCHANGED published
    BY <1>3 DEF SwapIn, TypeOK
  <2>2. \A l \in CURRENCY_LAYERS : rows'[l] <= published[l]
    BY <1>3, <1>t, SwapsInTheLater, SMTT(20) DEF NeverAhead, TypeOK
  <2> QED BY <2>1, <2>2 DEF NeverAhead
<1>4. ASSUME NEW l \in CURRENCY_LAYERS, LoadByHand(l) PROVE NeverAhead'
  <2>1. run'.pc # "swap" /\ UNCHANGED published /\ rows' = [rows EXCEPT ![l] = published[l]]
    BY <1>4 DEF LoadByHand
  <2> QED BY <1>t, <2>1 DEF NeverAhead, TypeOK
<1>5. CASE TakeLock \/ ApplySchema \/ FinishReload \/ TouchLayer \/ LoadCensus \/ RunFails
  <2>1. UNCHANGED rows /\ run'.pc # "swap"
    BY <1>5, <1>t
       DEF TakeLock, ApplySchema, FinishReload, TouchLayer, LoadCensus, RunFails, NoRun, TypeOK
  <2> QED BY <1>1, <2>1
<1> QED BY <1>1, <1>2, <1>3, <1>4, <1>5
        DEF Next, vars, mirror, Publish, Begin, ReadOn, MissingTable, Answer

\* Rows of a version that is still the published one stay as they are.
LEMMA CurrentRowsStay ==
    ASSUME TypeOK, SwapOfCityworks, NeverAhead, [Next]_vars,
           NEW l \in CURRENCY_LAYERS, rows[l] = published[l], published'[l] = published[l]
    PROVE  rows'[l] = rows[l]
<1>1. CASE SwapIn
  <2>1. PICK v \in rows[SYNC_ORDER[run.at]]..published[SYNC_ORDER[run.at]] :
               rows' = [rows EXCEPT ![SYNC_ORDER[run.at]] = v]
    BY <1>1, SwapsInTheLater
  <2>2. CASE SYNC_ORDER[run.at] = l
    <3>1. v = rows[l]
      BY <2>1, <2>2, ReaderAssumption DEF TypeOK, Versions
    <3> QED BY <2>1, <2>2, <3>1 DEF TypeOK
  <2>3. CASE SYNC_ORDER[run.at] # l
    BY <2>1, <2>3 DEF TypeOK
  <2> QED BY <2>2, <2>3
<1>2. ASSUME NEW k \in CURRENCY_LAYERS, LoadByHand(k) PROVE rows'[l] = rows[l]
  BY <1>2 DEF LoadByHand, TypeOK
<1> QED BY <1>1, <1>2
        DEF Next, vars, mirror, Publish, TakeLock, ApplySchema, PollLayer, FinishReload,
            TouchLayer, LoadCensus, RunFails, Begin, ReadOn, MissingTable, Answer

Reports == {"reconcile", "figures"}

\* The edit of a layer has been asked for, and asked for again.
Asked(l) == req.at > (IF l = "requests" THEN 2 ELSE 4)
AskedAgain(l) == req.at > (IF l = "requests" THEN 11 ELSE 12)

\* What both sides have read of a layer is the version asked for.
ReadsAgree(l) ==
    /\ \A i \in 1..Len(req.got) : ReadOf(i) = l => req.got[i] = req.edits[l]
    /\ \A i \in 1..Len(req.live) : ReadOf(i) = l => req.live[i] = req.edits[l]

\* How much both sides have read, by the statement the report is at.
\* The statement the report is at, and how much it has read there.
HasRead(at, live, got) == req.at = at /\ Len(req.live) = live /\ Len(req.got) = got

Lengths ==
    /\ req.at <= 5 => Len(req.live) = 0 /\ Len(req.got) = 0
    /\ req.route = "reconcile" =>
         /\ req.at = 6 => Len(req.live) = 1 /\ Len(req.got) = 0
         /\ req.at = 7 => Len(req.live) = 1 /\ Len(req.got) = 1
         /\ req.at = 8 => Len(req.live) = 2 /\ Len(req.got) = 1
         /\ req.at = 9 => Len(req.live) = 2 /\ Len(req.got) = 2
         /\ req.at = 10 => Len(req.live) = 3 /\ Len(req.got) = 2
         /\ req.at = 11 => Len(req.live) = 3 /\ Len(req.got) = 3
         /\ req.at <= 11
    /\ req.route = "figures" =>
         /\ req.at = 6 => Len(req.live) = 1 /\ Len(req.got) = 0
         /\ req.at = 7 => Len(req.live) = 2 /\ Len(req.got) = 0
         /\ req.at = 8 => Len(req.live) = 3 /\ Len(req.got) = 0
         /\ req.at = 9 => Len(req.live) = 3 /\ Len(req.got) = 1
         /\ req.at = 10 => Len(req.live) = 3 /\ Len(req.got) = 2
         /\ req.at > 10 => Len(req.live) = 3 /\ (Len(req.got) = 3 \/ req.got = <<0>>)

AskedFor == \A l \in CURRENCY_LAYERS : Asked(l) => req.edits[l] \in 1..published[l]

\* A layer of the version asked for is still in step, and has been read in step.
Unmoved ==
    req.inStep =>
        \A l \in CURRENCY_LAYERS :
            /\ Asked("fields") /\ published[l] = req.edits[l] =>
                  rows[l] = req.edits[l] /\ ReadsAgree(l)
            /\ req.route = "figures" /\ AskedAgain(l) /\ req.again[l] = req.edits[l] =>
                  ReadsAgree(l)

ReportSteady ==
    req.status = "reading" /\ req.route \in Reports =>
        ~req.pinned /\ AskedFor /\ Lengths /\ Unmoved

LEMMA ReconcileScript ==
    /\ Len(Script("reconcile")) = 10
    /\ Script("reconcile")[1] = <<"seen", "requests">>
    /\ Script("reconcile")[2] = <<"edit", "requests">>
    /\ Script("reconcile")[3] = <<"seen", "fields">>
    /\ Script("reconcile")[4] = <<"edit", "fields">>
    /\ Script("reconcile")[5] = <<"live", "fields">>
    /\ Script("reconcile")[6] = <<"rows", "fields">>
    /\ Script("reconcile")[7] = <<"live", "requests">>
    /\ Script("reconcile")[8] = <<"rows", "requests">>
    /\ Script("reconcile")[9] = <<"live", "fields">>
    /\ Script("reconcile")[10] = <<"rows", "fields">>
BY DEF Script

LEMMA FiguresScript ==
    /\ Len(Script("figures")) = 12
    /\ Script("figures")[1] = <<"seen", "requests">>
    /\ Script("figures")[2] = <<"edit", "requests">>
    /\ Script("figures")[3] = <<"seen", "fields">>
    /\ Script("figures")[4] = <<"edit", "fields">>
    /\ Script("figures")[5] = <<"live", "fields">>
    /\ Script("figures")[6] = <<"live", "requests">>
    /\ Script("figures")[7] = <<"live", "fields">>
    /\ Script("figures")[8] = <<"rows", "fields">>
    /\ Script("figures")[9] = <<"rows", "requests">>
    /\ Script("figures")[10] = <<"rows", "fields">>
    /\ Script("figures")[11] = <<"again", "requests">>
    /\ Script("figures")[12] = <<"again", "fields">>
BY DEF Script

\* What each kind of statement changes in a report.
LEMMA ReportRead ==
    ASSUME TypeOK, ReadsARoute, ReadOn, req.route \in Reports, ~req.pinned,
           NEW l \in CURRENCY_LAYERS
    PROVE  LET s == Script(req.route)[req.at] IN
           /\ ~Read.pinned
           /\ s = <<"seen", l>> =>
                /\ Read.got = req.got /\ Read.live = req.live
                /\ Read.edits = req.edits /\ Read.again = req.again /\ Read.inStep = req.inStep
           /\ s = <<"edit", l>> =>
                /\ Read.got = req.got /\ Read.live = req.live
                /\ Read.edits = [req.edits EXCEPT ![l] = published[l]] /\ Read.again = req.again
                /\ Read.inStep = \A k \in CURRENCY_LAYERS : rows[k] = published[k]
           /\ s = <<"live", l>> =>
                /\ Read.got = req.got /\ Read.live = Append(req.live, published[l])
                /\ Read.edits = req.edits /\ Read.again = req.again /\ Read.inStep = req.inStep
           /\ s = <<"rows", l>> =>
                /\ Read.got = Append(req.got, rows[l]) /\ Read.live = req.live
                /\ Read.edits = req.edits /\ Read.again = req.again /\ Read.inStep = req.inStep
           /\ s = <<"again", l>> =>
                /\ Read.got = req.got /\ Read.live = req.live /\ Read.edits = req.edits
                /\ Read.again = [req.again EXCEPT ![l] = published[l]]
                /\ Read.inStep = req.inStep
<1> DEFINE s == Script(req.route)[req.at]
<1>1. req \in Request /\ s \in Statements
  BY ReadingStep
<1>2. PinSnapshot(req) = req
  BY DEF PinSnapshot, Reports
<1>3. Read = Statement(req, s)
  BY <1>2 DEF Read
<1>4. ~Read.pinned
  BY <1>1, <1>3, StatementKeeps
<1> HIDE DEF s
<1>5. ASSUME s = <<"seen", l>>
      PROVE  /\ Read.got = req.got /\ Read.live = req.live
             /\ Read.edits = req.edits /\ Read.again = req.again /\ Read.inStep = req.inStep
  <2>1. Read = ReadSeen(req, l)
    BY <1>3, <1>5 DEF Statement
  <2> QED BY <1>1, <2>1 DEF ReadSeen, Request
<1>6. ASSUME s = <<"edit", l>>
      PROVE  /\ Read.got = req.got /\ Read.live = req.live
             /\ Read.edits = [req.edits EXCEPT ![l] = published[l]] /\ Read.again = req.again
             /\ Read.inStep = \A k \in CURRENCY_LAYERS : rows[k] = published[k]
  <2>1. Read = AskEdit(req, l)
    BY <1>3, <1>6 DEF Statement
  <2> DEFINE same == \A k \in CURRENCY_LAYERS : rows[k] = published[k]
             moved == req.advanced \/ (req.seen[l] # 0 /\ published[l] > req.seen[l])
  <2>2. Read = [req EXCEPT !.edits[l] = published[l], !.advanced = moved,
                           !.seen[l] = 0, !.inStep = same]
    BY <1>1, <2>1 DEF AskEdit, Request
  <2> HIDE DEF same, moved
  <2>3. /\ Read.got = req.got /\ Read.live = req.live
        /\ Read.edits = [req.edits EXCEPT ![l] = published[l]] /\ Read.again = req.again
        /\ Read.inStep = same
    BY <1>1, <2>2 DEF Request
  <2> QED BY <2>3 DEF same
<1>7. ASSUME s = <<"live", l>>
      PROVE  /\ Read.got = req.got /\ Read.live = Append(req.live, published[l])
             /\ Read.edits = req.edits /\ Read.again = req.again /\ Read.inStep = req.inStep
  <2>1. Read = FetchLive(req, l)
    BY <1>3, <1>7 DEF Statement
  <2> QED BY <1>1, <2>1 DEF FetchLive, Request
<1>8. ASSUME s = <<"rows", l>>
      PROVE  /\ Read.got = Append(req.got, rows[l]) /\ Read.live = req.live
             /\ Read.edits = req.edits /\ Read.again = req.again /\ Read.inStep = req.inStep
  <2>1. Read = ReadTable(req, l)
    BY <1>3, <1>8 DEF Statement
  <2> QED BY <1>1, <2>1 DEF ReadTable, VisibleRows, Request
<1>9. ASSUME s = <<"again", l>>
      PROVE  /\ Read.got = req.got /\ Read.live = req.live /\ Read.edits = req.edits
             /\ Read.again = [req.again EXCEPT ![l] = published[l]]
             /\ Read.inStep = req.inStep
  <2>1. Read = AskEditAgain(req, l)
    BY <1>3, <1>9 DEF Statement
  <2> QED BY <1>1, <2>1 DEF AskEditAgain, Request
<1> QED BY <1>4, <1>5, <1>6, <1>7, <1>8, <1>9 DEF s

\* The places of a report, and what is left to read there.
LEMMA ReportPlaces ==
    ASSUME TypeOK, ReadsARoute, ReadOn, ReportSteady, req.route \in Reports
    PROVE  LET s == Script(req.route)[req.at] IN
           \/ req.at \in {1, 3} /\ s \in {<<"seen", "requests">>, <<"seen", "fields">>}
           \/ req.at = 2 /\ s = <<"edit", "requests">>
           \/ req.at = 4 /\ s = <<"edit", "fields">>
           \/ /\ \/ req.route = "reconcile" /\ req.at \in {5, 7, 9}
                 \/ req.route = "figures" /\ req.at \in 5..7
              /\ s = <<"live", ReadOf(Len(req.live) + 1)>>
           \/ /\ \/ req.route = "reconcile" /\ req.at \in {6, 8, 10}
                 \/ req.route = "figures" /\ req.at \in 8..10
              /\ s = <<"rows", ReadOf(Len(req.got) + 1)>>
           \/ req.route = "figures" /\ req.at = 11 /\ s = <<"again", "requests">>
           \/ req.route = "figures" /\ req.at = 12 /\ s = <<"again", "fields">>
<1>1. /\ Lengths /\ req.got \in Seq(Versions) /\ req.live \in Seq(Versions)
      /\ Len(req.got) \in Nat /\ Len(req.live) \in Nat /\ req.at \in Nat
  BY DEF ReportSteady, ReadOn, TypeOK, Request
<1>a. req.at \in Nat
  BY DEF TypeOK, Request
<1>2. CASE req.route = "reconcile"
  <2>1. req.at \in 1..10
    BY <1>2, ReadsAStatement, ReconcileScript, Zenon DEF ReadOn
  <2>2. CASE req.at <= 4
    <3>1. req.at \in {1, 2, 3, 4}
      BY <2>1, <2>2
    <3> QED BY <1>2, <3>1, ReconcileScript, Zenon
  <2>3. CASE req.at \in {5, 7, 9}
    <3>1. req.at = 5 => Len(req.live) = 0
      BY <1>1, <1>2 DEF Lengths
    <3>2. req.at = 7 => Len(req.live) = 1
      BY <1>1, <1>2 DEF Lengths
    <3>3. req.at = 9 => Len(req.live) = 2
      BY <1>1, <1>2 DEF Lengths
    <3>4. \/ req.at = 5 /\ Len(req.live) = 0
          \/ req.at = 7 /\ Len(req.live) = 1
          \/ req.at = 9 /\ Len(req.live) = 2
      BY <1>a, <2>3, <3>1, <3>2, <3>3
    <3>5. ReadOf(0 + 1) = "fields" /\ ReadOf(1 + 1) = "requests" /\ ReadOf(2 + 1) = "fields"
      BY DEF ReadOf
    <3> QED BY <1>2, <2>3, <3>4, <3>5, ReconcileScript, Zenon
  <2>4. CASE req.at \in {6, 8, 10}
    <3>1. req.at = 6 => Len(req.got) = 0
      BY <1>1, <1>2 DEF Lengths
    <3>2. req.at = 8 => Len(req.got) = 1
      BY <1>1, <1>2 DEF Lengths
    <3>3. req.at = 10 => Len(req.got) = 2
      BY <1>1, <1>2 DEF Lengths
    <3>4. \/ req.at = 6 /\ Len(req.got) = 0
          \/ req.at = 8 /\ Len(req.got) = 1
          \/ req.at = 10 /\ Len(req.got) = 2
      BY <1>a, <2>4, <3>1, <3>2, <3>3
    <3>5. ReadOf(0 + 1) = "fields" /\ ReadOf(1 + 1) = "requests" /\ ReadOf(2 + 1) = "fields"
      BY DEF ReadOf
    <3> QED BY <1>2, <2>4, <3>4, <3>5, ReconcileScript, Zenon
  <2> QED BY <2>1, <2>2, <2>3, <2>4
<1>3. CASE req.route = "figures"
  <2>1. req.at \in 1..12
    BY <1>3, ReadsAStatement, FiguresScript, Zenon DEF ReadOn
  <2>2. CASE req.at <= 4
    <3>1. req.at \in {1, 2, 3, 4}
      BY <2>1, <2>2
    <3> QED BY <1>3, <3>1, FiguresScript, Zenon
  <2>3. CASE req.at \in 5..7
    <3>1. req.at = 5 => Len(req.live) = 0
      BY <1>1, <1>3 DEF Lengths
    <3>2. req.at = 6 => Len(req.live) = 1
      BY <1>1, <1>3 DEF Lengths
    <3>3. req.at = 7 => Len(req.live) = 2
      BY <1>1, <1>3 DEF Lengths
    <3>4. \/ req.at = 5 /\ Len(req.live) = 0
          \/ req.at = 6 /\ Len(req.live) = 1
          \/ req.at = 7 /\ Len(req.live) = 2
      BY <1>a, <2>3, <3>1, <3>2, <3>3
    <3>5. ReadOf(0 + 1) = "fields" /\ ReadOf(1 + 1) = "requests" /\ ReadOf(2 + 1) = "fields"
      BY DEF ReadOf
    <3> QED BY <1>3, <2>3, <3>4, <3>5, FiguresScript, Zenon
  <2>4. CASE req.at \in 8..10
    <3>1. req.at = 8 => Len(req.got) = 0
      BY <1>1, <1>3 DEF Lengths
    <3>2. req.at = 9 => Len(req.got) = 1
      BY <1>1, <1>3 DEF Lengths
    <3>3. req.at = 10 => Len(req.got) = 2
      BY <1>1, <1>3 DEF Lengths
    <3>4. \/ req.at = 8 /\ Len(req.got) = 0
          \/ req.at = 9 /\ Len(req.got) = 1
          \/ req.at = 10 /\ Len(req.got) = 2
      BY <1>a, <2>4, <3>1, <3>2, <3>3
    <3>5. ReadOf(0 + 1) = "fields" /\ ReadOf(1 + 1) = "requests" /\ ReadOf(2 + 1) = "fields"
      BY DEF ReadOf
    <3> QED BY <1>3, <2>4, <3>4, <3>5, FiguresScript, Zenon
  <2>5. CASE req.at \in {11, 12}
    BY <1>3, <2>5, FiguresScript, Zenon
  <2>6. \/ req.at <= 4 \/ req.at \in 5..7 \/ req.at \in 8..10 \/ req.at \in {11, 12}
    BY <2>1
  <2> QED BY <2>2, <2>3, <2>4, <2>5, <2>6
<1> QED BY <1>2, <1>3 DEF Reports

\* One more of the same version is read.
LEMMA OneMoreAgrees ==
    ASSUME NEW l \in CURRENCY_LAYERS, NEW seq \in Seq(Versions), NEW v \in Versions, NEW edit,
           \A i \in 1..Len(seq) : ReadOf(i) = l => seq[i] = edit,
           ReadOf(Len(seq) + 1) = l => v = edit
    PROVE  \A i \in 1..Len(Append(seq, v)) : ReadOf(i) = l => Append(seq, v)[i] = edit
<1> SUFFICES ASSUME NEW i \in 1..Len(Append(seq, v)), ReadOf(i) = l
             PROVE  Append(seq, v)[i] = edit
  OBVIOUS
<1>1. CASE i = Len(seq) + 1
  <2>1. Append(seq, v)[i] = v
    BY <1>1
  <2> QED BY <1>1, <2>1
<1>2. CASE i # Len(seq) + 1
  <2>1. i \in 1..Len(seq) /\ Append(seq, v)[i] = seq[i]
    BY <1>2
  <2> QED BY <2>1
<1> QED BY <1>1, <1>2

LEMMA ReadReport ==
    ASSUME TypeOK, ReadsARoute, ReportSteady, ReadOn
    PROVE  ReportSteady'
<1> SUFFICES ASSUME ReadsOn, req'.route \in Reports PROVE ReportSteady'
  BY ReadingStep DEF NotReading, ReportSteady
<1> DEFINE s == Script(req.route)[req.at]
<1>1. /\ req \in Request /\ Read \in Request /\ req.status = "reading"
      /\ Read.route = req.route /\ s \in Statements
  BY ReadingStep, StatementKeeps DEF Read, ReadOn
<1>2. /\ req'.route = req.route /\ req.route \in Reports
      /\ req'.got = Read.got /\ req'.live = Read.live /\ req'.edits = Read.edits
      /\ req'.again = Read.again /\ req'.inStep = Read.inStep /\ req'.pinned = Read.pinned
      /\ req'.at = NextAt(req, Read) /\ UNCHANGED <<published, rows>>
  BY <1>1 DEF ReadsOn, SameReads, ReadOn, mirror
<1>3. ~req.pinned /\ AskedFor /\ Lengths /\ Unmoved
  BY <1>1, <1>2 DEF ReportSteady
<1>4. /\ req.at \in Nat \ {0} /\ req.got \in Seq(Versions) /\ req.live \in Seq(Versions)
      /\ Len(req.got) \in Nat /\ Len(req.live) \in Nat
      /\ req.edits \in [CURRENCY_LAYERS -> Versions]
      /\ req.again \in [CURRENCY_LAYERS -> Versions]
  <2>1. req.at \in Nat /\ req.at >= 1
    BY <1>1 DEF ReadsARoute, Request
  <2> QED BY <1>1, <2>1 DEF Request
<1>5. ~req'.pinned
  BY <1>2, <1>3, ReportRead DEF CURRENCY_LAYERS
<1>6. \A l \in CURRENCY_LAYERS : published[l] \in Versions /\ published[l] \in 1..published[l]
                                 /\ rows[l] \in Versions
  BY ReaderAssumption DEF TypeOK, Versions
<1>7. "requests" \in CURRENCY_LAYERS /\ "fields" \in CURRENCY_LAYERS
      /\ \A i : ReadOf(i) \in CURRENCY_LAYERS
  BY DEF CURRENCY_LAYERS, ReadOf
<1>a. req.at \in Nat /\ Len(req.got) \in Nat /\ Len(req.live) \in Nat
  BY <1>4
<1>n. Read.got = req.got => req'.at = req.at + 1
  <2>1. <<>> # <<0>>
    OBVIOUS
  <2>2. Read.got = req.got => ~(req.got = <<>> /\ Read.got = <<0>>)
    BY <2>1, Zenon
  <2> QED BY <1>2, <2>2, Zenon DEF NextAt
<1> SUFFICES AskedFor' /\ Lengths' /\ Unmoved'
  BY <1>5 DEF ReportSteady
<1> HIDE DEF s
<1>8. CASE req.at \in {1, 3} /\ s \in {<<"seen", "requests">>, <<"seen", "fields">>}
  <2>1. /\ req'.got = req.got /\ req'.live = req.live /\ req'.edits = req.edits
        /\ req'.at = req.at + 1 /\ req'.inStep = req.inStep /\ req'.again = req.again
    BY <1>2, <1>3, <1>7, <1>8, <1>n, ReportRead DEF s
  <2>2. AskedFor'
    BY <1>2, <1>3, <1>4, <1>8, <2>1 DEF AskedFor, Asked, CURRENCY_LAYERS
  <2>3. Lengths'
    BY <1>2, <1>3, <1>4, <1>8, <2>1 DEF Lengths, Reports
  <2>4. Unmoved'
    BY <1>8, <2>1 DEF Unmoved, Asked, AskedAgain
  <2> QED BY <2>2, <2>3, <2>4
<1>9. CASE req.at = 2 /\ s = <<"edit", "requests">>
  <2>0. /\ Read.got = req.got /\ Read.live = req.live
        /\ Read.edits = [req.edits EXCEPT !["requests"] = published["requests"]]
    BY <1>2, <1>3, <1>7, <1>9, ReportRead, Zenon DEF s
  <2>1. /\ req'.got = req.got /\ req'.live = req.live /\ req'.at = 3
        /\ req'.edits = [req.edits EXCEPT !["requests"] = published["requests"]]
    BY <1>2, <1>9, <1>n, <2>0
  <2>2. AskedFor'
    BY <1>2, <1>4, <1>6, <1>7, <2>1 DEF AskedFor, Asked, CURRENCY_LAYERS
  <2>3. Lengths'
    BY <1>2, <1>3, <1>4, <1>9, <2>1 DEF Lengths, Reports
  <2>4. Unmoved'
    BY <2>1 DEF Unmoved, Asked, AskedAgain
  <2> QED BY <2>2, <2>3, <2>4
<1>10. CASE req.at = 4 /\ s = <<"edit", "fields">>
  <2>1. /\ req'.got = req.got /\ req'.live = req.live /\ req'.at = 5
        /\ req'.edits = [req.edits EXCEPT !["fields"] = published["fields"]]
        /\ req'.inStep = \A k \in CURRENCY_LAYERS : rows[k] = published[k]
    <3>1. /\ Read.got = req.got /\ Read.live = req.live
          /\ Read.edits = [req.edits EXCEPT !["fields"] = published["fields"]]
          /\ Read.inStep = \A k \in CURRENCY_LAYERS : rows[k] = published[k]
      BY <1>2, <1>3, <1>7, <1>10, ReportRead, Zenon DEF s
    <3>2. req'.at = 5
      BY <1>10, <1>n, <3>1
    <3> QED BY <1>2, <3>1, <3>2, Zenon
  <2>2. AskedFor'
    <3>1. req.edits["requests"] \in 1..published["requests"]
      BY <1>3, <1>7, <1>10 DEF AskedFor, Asked
    <3> QED BY <1>2, <1>4, <1>6, <1>7, <2>1, <3>1 DEF AskedFor, Asked, CURRENCY_LAYERS
  <2>3. Lengths'
    BY <1>2, <1>3, <1>4, <1>10, <2>1 DEF Lengths, Reports
  <2>4. Unmoved'
    <3>1. Len(req.got) = 0 /\ Len(req.live) = 0
      BY <1>3, <1>10 DEF Lengths
    <3>2. \A l \in CURRENCY_LAYERS : ReadsAgree(l)'
      BY <2>1, <3>1 DEF ReadsAgree
    <3>3. req'.inStep => \A l \in CURRENCY_LAYERS : rows'[l] = published'[l]
      BY <1>2, <2>1
    <3>4. \A l \in CURRENCY_LAYERS : ~AskedAgain(l)'
      BY <2>1 DEF AskedAgain
    <3> QED BY <3>2, <3>3, <3>4 DEF Unmoved
  <2> QED BY <2>2, <2>3, <2>4
<1>11. ASSUME \/ req.route = "reconcile" /\ req.at \in {5, 7, 9}
              \/ req.route = "figures" /\ req.at \in 5..7,
              s = <<"live", ReadOf(Len(req.live) + 1)>>
       PROVE  AskedFor' /\ Lengths' /\ Unmoved'
  <2> DEFINE k == ReadOf(Len(req.live) + 1)
  <2>1. /\ req'.got = req.got /\ req'.live = Append(req.live, published[k])
        /\ req'.edits = req.edits /\ req'.at = req.at + 1
        /\ req'.inStep = req.inStep /\ req'.again = req.again
    BY <1>2, <1>3, <1>7, <1>11, <1>n, ReportRead DEF s
  <2>k. k \in CURRENCY_LAYERS /\ published[k] \in Versions
    BY <1>6, <1>7
  <2>5. req.at \in 5..9
    BY <1>11
  <2> HIDE DEF k
  <2>2. AskedFor'
    <3>1. \A l \in CURRENCY_LAYERS : Asked(l)
      BY <2>5 DEF Asked
    <3> QED BY <1>2, <1>3, <2>1, <3>1 DEF AskedFor
  <2>3. Lengths'
    <3>0. req'.at = req.at + 1
      BY <2>1
    <3>1. Len(req'.live) = Len(req.live) + 1
      BY <1>4, <2>1, <2>k
    <3>2. Len(req'.got) = Len(req.got)
      BY <2>1
    <3>3. CASE req.route = "reconcile"
      <4>1. \/ HasRead(5, 0, 0)
            \/ HasRead(7, 1, 1)
            \/ HasRead(9, 2, 2)
        BY <1>3, <1>4, <1>11, <3>3 DEF Lengths, HasRead
      <4>2. HasRead(5, 0, 0) => HasRead(6, 1, 0)'
        BY <1>a, <3>0, <3>1, <3>2 DEF HasRead
      <4>3. HasRead(7, 1, 1) => HasRead(8, 2, 1)'
        BY <1>a, <3>0, <3>1, <3>2 DEF HasRead
      <4>4. HasRead(9, 2, 2) => HasRead(10, 3, 2)'
        BY <1>a, <3>0, <3>1, <3>2 DEF HasRead
      <4> QED BY <1>2, <3>3, <4>1, <4>2, <4>3, <4>4 DEF Lengths, HasRead
    <3>4. CASE req.route = "figures"
      <4>1. \/ HasRead(5, 0, 0)
            \/ HasRead(6, 1, 0)
            \/ HasRead(7, 2, 0)
        BY <1>3, <1>4, <1>11, <3>4 DEF Lengths, HasRead
      <4>2. HasRead(5, 0, 0) => HasRead(6, 1, 0)'
        BY <1>a, <3>0, <3>1, <3>2 DEF HasRead
      <4>3. HasRead(6, 1, 0) => HasRead(7, 2, 0)'
        BY <1>a, <3>0, <3>1, <3>2 DEF HasRead
      <4>4. HasRead(7, 2, 0) => HasRead(8, 3, 0)'
        BY <1>a, <3>0, <3>1, <3>2 DEF HasRead
      <4> QED BY <1>2, <3>4, <4>1, <4>2, <4>3, <4>4 DEF Lengths, HasRead
    <3> QED BY <1>11, <3>3, <3>4
  <2>4. Unmoved'
    <3> SUFFICES ASSUME req.inStep, NEW l \in CURRENCY_LAYERS, published[l] = req.edits[l]
                 PROVE  rows[l] = req.edits[l] /\ ReadsAgree(l)'
      BY <1>2, <2>1, <2>5 DEF Unmoved, AskedAgain
    <3>1. rows[l] = req.edits[l] /\ ReadsAgree(l)
      BY <1>3, <2>5 DEF Unmoved, Asked
    <3>2. ReadOf(Len(req.live) + 1) = l => published[k] = req.edits[l]
      BY DEF k
    <3>3. \A i \in 1..Len(req'.live) : ReadOf(i) = l => req'.live[i] = req.edits[l]
      BY <1>4, <2>1, <2>k, <3>1, <3>2, OneMoreAgrees DEF ReadsAgree
    <3> QED BY <2>1, <3>1, <3>3 DEF ReadsAgree
  <2> QED BY <2>2, <2>3, <2>4
<1>12. ASSUME \/ req.route = "reconcile" /\ req.at \in {6, 8, 10}
              \/ req.route = "figures" /\ req.at \in 8..10,
              s = <<"rows", ReadOf(Len(req.got) + 1)>>
       PROVE  AskedFor' /\ Lengths' /\ Unmoved'
  <2> DEFINE k == ReadOf(Len(req.got) + 1)
  <2>1. /\ req'.live = req.live /\ req'.got = Append(req.got, rows[k])
        /\ req'.edits = req.edits
        /\ req'.inStep = req.inStep /\ req'.again = req.again
    BY <1>2, <1>3, <1>7, <1>12, ReportRead DEF s
  <2>k. k \in CURRENCY_LAYERS /\ rows[k] \in Versions
    BY <1>6, <1>7
  <2>n. /\ Len(req'.got) = Len(req.got) + 1
        /\ \/ req'.at = req.at + 1
           \/ /\ req.route = "figures" /\ Len(req.got) = 0 /\ req'.got = <<0>>
              /\ req'.at = req.at + 3
    BY <1>2, <1>4, <2>1, <2>k DEF NextAt, Reports
  <2>5. req.at \in 6..10 /\ req'.at \in 7..13
    BY <1>12, <2>n
  <2> HIDE DEF k
  <2>2. AskedFor'
    <3>1. \A l \in CURRENCY_LAYERS : Asked(l)
      BY <2>5 DEF Asked
    <3> QED BY <1>2, <1>3, <2>1, <3>1 DEF AskedFor
  <2>3. Lengths'
    <3>0. Len(req'.got) = Len(req.got) + 1
      BY <2>n
    <3>1. Len(req'.live) = Len(req.live)
      BY <2>1
    <3>2. CASE req.route = "reconcile"
      <4>0. req'.at = req.at + 1
        BY <2>n, <3>2
      <4>1. \/ HasRead(6, 1, 0)
            \/ HasRead(8, 2, 1)
            \/ HasRead(10, 3, 2)
        BY <1>3, <1>4, <1>12, <3>2 DEF Lengths, HasRead
      <4>2. HasRead(6, 1, 0) => HasRead(7, 1, 1)'
        BY <1>a, <3>0, <3>1, <4>0 DEF HasRead
      <4>3. HasRead(8, 2, 1) => HasRead(9, 2, 2)'
        BY <1>a, <3>0, <3>1, <4>0 DEF HasRead
      <4>4. HasRead(10, 3, 2) => HasRead(11, 3, 3)'
        BY <1>a, <3>0, <3>1, <4>0 DEF HasRead
      <4> QED BY <1>2, <3>2, <4>1, <4>2, <4>3, <4>4 DEF Lengths, HasRead
    <3>3. CASE req.route = "figures"
      <4>1. \/ HasRead(8, 3, 0)
            \/ HasRead(9, 3, 1)
            \/ HasRead(10, 3, 2)
        BY <1>3, <1>4, <1>12, <3>3 DEF Lengths, HasRead
      <4>5. CASE req'.at = req.at + 1
        <5>1. HasRead(8, 3, 0) => HasRead(9, 3, 1)'
          BY <1>a, <3>0, <3>1, <4>5 DEF HasRead
        <5>2. HasRead(9, 3, 1) => HasRead(10, 3, 2)'
          BY <1>a, <3>0, <3>1, <4>5 DEF HasRead
        <5>3. HasRead(10, 3, 2) => HasRead(11, 3, 3)'
          BY <1>a, <3>0, <3>1, <4>5 DEF HasRead
        <5> QED BY <1>2, <3>3, <4>1, <5>1, <5>2, <5>3 DEF Lengths, HasRead
      <4>6. CASE Len(req.got) = 0 /\ req'.got = <<0>> /\ req'.at = req.at + 3
        <5>1. HasRead(8, 3, 0)
          BY <4>1, <4>6 DEF HasRead
        <5>2. req'.at = 11 /\ Len(req'.live) = 3
          BY <1>a, <3>1, <4>6, <5>1 DEF HasRead
        <5> QED BY <1>2, <3>3, <4>6, <5>2 DEF Lengths
      <4> QED BY <2>n, <4>5, <4>6
    <3> QED BY <1>12, <3>2, <3>3
  <2>4. Unmoved'
    <3>0. \A l \in CURRENCY_LAYERS : ~AskedAgain(l)' \/ req'.route # "figures"
      <4>1. CASE req'.at = req.at + 1
        BY <1>12, <4>1 DEF AskedAgain
      <4>2. CASE req.route = "figures" /\ Len(req.got) = 0 /\ req'.at = req.at + 3
        <5>1. req.at = 8
          BY <1>3, <1>a, <1>12, <4>2 DEF Lengths
        <5> QED BY <4>2, <5>1 DEF AskedAgain
      <4> QED BY <2>n, <4>1, <4>2
    <3> SUFFICES ASSUME req.inStep, NEW l \in CURRENCY_LAYERS, published[l] = req.edits[l]
                 PROVE  rows[l] = req.edits[l] /\ ReadsAgree(l)'
      BY <1>2, <2>1, <3>0 DEF Unmoved
    <3>1. rows[l] = req.edits[l] /\ ReadsAgree(l)
      BY <1>3, <2>5 DEF Unmoved, Asked
    <3>2. ReadOf(Len(req.got) + 1) = l => rows[k] = req.edits[l]
      BY <3>1 DEF k
    <3>3. \A i \in 1..Len(req'.got) : ReadOf(i) = l => req'.got[i] = req.edits[l]
      BY <1>4, <2>1, <2>k, <3>1, <3>2, OneMoreAgrees DEF ReadsAgree
    <3> QED BY <2>1, <3>1, <3>3 DEF ReadsAgree
  <2> QED BY <2>2, <2>3, <2>4
<1>13. ASSUME NEW k \in CURRENCY_LAYERS, req.route = "figures",
              req.at = (IF k = "requests" THEN 11 ELSE 12), s = <<"again", k>>
       PROVE  AskedFor' /\ Lengths' /\ Unmoved'
  <2>1. /\ req'.live = req.live /\ req'.got = req.got
        /\ req'.edits = req.edits /\ req'.at = req.at + 1
        /\ req'.again = [req.again EXCEPT ![k] = published[k]] /\ req'.inStep = req.inStep
    BY <1>2, <1>3, <1>13, <1>n, ReportRead DEF s
  <2>2. AskedFor'
    <3>1. \A l \in CURRENCY_LAYERS : Asked(l)
      BY <1>13 DEF Asked
    <3> QED BY <1>2, <1>3, <2>1, <3>1 DEF AskedFor
  <2>3. Lengths'
    BY <1>2, <1>3, <1>4, <1>13, <2>1 DEF Lengths
  <2>4. Unmoved'
    <3> SUFFICES ASSUME req.inStep, NEW l \in CURRENCY_LAYERS
                 PROVE  /\ published[l] = req.edits[l] => rows[l] = req.edits[l] /\ ReadsAgree(l)
                        /\ AskedAgain(l)' /\ req'.again[l] = req.edits[l] => ReadsAgree(l)
      BY <1>2, <2>1 DEF Unmoved, ReadsAgree
    <3>1. published[l] = req.edits[l] => rows[l] = req.edits[l] /\ ReadsAgree(l)
      BY <1>3, <1>13 DEF Unmoved, Asked
    <3>2. CASE l = k
      BY <1>4, <2>1, <3>1, <3>2
    <3>3. CASE l # k
      <4>1. AskedAgain(l)' => AskedAgain(l)
        BY <1>13, <2>1, <3>3 DEF AskedAgain, CURRENCY_LAYERS
      <4> QED BY <1>3, <1>4, <1>13, <2>1, <3>1, <3>3, <4>1 DEF Unmoved
    <3> QED BY <3>2, <3>3
  <2> QED BY <2>2, <2>3, <2>4
<1> QED
  <2>1. \/ req.at \in {1, 3} /\ s \in {<<"seen", "requests">>, <<"seen", "fields">>}
        \/ req.at = 2 /\ s = <<"edit", "requests">>
        \/ req.at = 4 /\ s = <<"edit", "fields">>
        \/ /\ \/ req.route = "reconcile" /\ req.at \in {5, 7, 9}
              \/ req.route = "figures" /\ req.at \in 5..7
           /\ s = <<"live", ReadOf(Len(req.live) + 1)>>
        \/ /\ \/ req.route = "reconcile" /\ req.at \in {6, 8, 10}
              \/ req.route = "figures" /\ req.at \in 8..10
           /\ s = <<"rows", ReadOf(Len(req.got) + 1)>>
        \/ req.route = "figures" /\ req.at = 11 /\ s = <<"again", "requests">>
        \/ req.route = "figures" /\ req.at = 12 /\ s = <<"again", "fields">>
    BY <1>2, ReportPlaces DEF s
  <2> QED BY <1>7, <1>8, <1>9, <1>10, <1>11, <1>12, <1>13, <2>1

LEMMA ReportKept ==
    TypeOK /\ SwapOfCityworks /\ ReadsARoute /\ NeverAhead /\ ReportSteady /\ [Next]_vars
        => ReportSteady'
<1> SUFFICES ASSUME TypeOK, SwapOfCityworks, ReadsARoute, NeverAhead, ReportSteady, [Next]_vars
             PROVE  ReportSteady'
  OBVIOUS
<1>1. CASE Undisturbed
  <2> SUFFICES ASSUME req.status = "reading", req.route \in Reports
               PROVE  AskedFor' /\ Lengths' /\ Unmoved'
    BY <1>1 DEF ReportSteady, Undisturbed, SameReads
  <2>1. /\ req'.at = req.at /\ req'.route = req.route /\ req'.got = req.got
        /\ req'.live = req.live /\ req'.edits = req.edits /\ req'.again = req.again
        /\ req'.inStep = req.inStep
        /\ AskedFor /\ Lengths /\ Unmoved
    BY <1>1 DEF ReportSteady, Undisturbed, SameReads
  <2>2. \A l \in CURRENCY_LAYERS :
          /\ published[l] \in Nat /\ published'[l] \in Nat /\ published'[l] >= published[l]
          /\ req.edits[l] \in Nat /\ rows[l] \in Nat
    BY MirrorGrows, ReaderAssumption DEF TypeOK, Versions, Request
  <2>3. AskedFor'
    BY <2>1, <2>2 DEF AskedFor, Asked
  <2>4. Lengths'
    BY <2>1 DEF Lengths
  <2>5. ASSUME NEW l \in CURRENCY_LAYERS, req.inStep, Asked("fields"),
               published'[l] = req.edits[l]
        PROVE  published[l] = req.edits[l] /\ rows'[l] = req.edits[l] /\ ReadsAgree(l)
    <3>1. Asked(l)
      BY <2>5 DEF Asked, TypeOK, Request
    <3>2. published[l] = req.edits[l]
      BY <2>1, <2>2, <2>5, <3>1 DEF AskedFor
    <3>3. rows[l] = req.edits[l] /\ ReadsAgree(l)
      BY <2>1, <2>5, <3>2 DEF Unmoved
    <3> QED BY <2>5, <3>2, <3>3, CurrentRowsStay
  <2>6. Unmoved'
    BY <2>1, <2>5 DEF Unmoved, Asked, AskedAgain, ReadsAgree
  <2> QED BY <2>3, <2>4, <2>6
<1>2. ASSUME NEW route \in Routes, Begin(route) PROVE ReportSteady'
  BY <1>2 DEF Begin, NoRequest, ReportSteady, AskedFor, Asked, Lengths, Unmoved
<1>3. CASE ReadOn
  BY <1>3, ReadReport
<1>4. CASE MissingTable
  BY <1>4 DEF MissingTable, ReportSteady, TypeOK, Request
<1>5. CASE Answer
  BY <1>5 DEF Answer, NoRequest, ReportSteady
<1> QED BY WriterStep, <1>1, <1>2, <1>3, <1>4, <1>5

LEMMA InitReport == Init => ReportSteady
BY DEF Init, NoRequest, ReportSteady

\* Only a report asks the source, and so has been in step with it.
OnlyReportsInStep ==
    req.status = "reading" /\ req.inStep => req.route \in Reports

LEMMA OthersAskNothing ==
    ASSUME NEW route \in Routes \ Reports, NEW i \in 1..Len(Script(route))
    PROVE  Script(route)[i][1] # "edit"
<1>1. CASE route = "list"
  BY <1>1 DEF Script
<1>2. CASE route = "export"
  BY <1>2 DEF Script
<1>3. CASE route = "freshness"
  BY <1>3 DEF Script
<1> QED BY <1>1, <1>2, <1>3, ReaderAssumption DEF Reports

LEMMA OnlyReportsKept ==
    TypeOK /\ ReadsARoute /\ OnlyReportsInStep /\ [Next]_vars => OnlyReportsInStep'
<1> SUFFICES ASSUME TypeOK, ReadsARoute, OnlyReportsInStep, [Next]_vars
             PROVE  OnlyReportsInStep'
  OBVIOUS
<1>1. CASE Undisturbed
  BY <1>1 DEF Undisturbed, SameReads, OnlyReportsInStep
<1>2. ASSUME NEW route \in Routes, Begin(route) PROVE OnlyReportsInStep'
  BY <1>2 DEF Begin, NoRequest, OnlyReportsInStep
<1>3. CASE ReadOn
  <2> SUFFICES ASSUME ReadsOn, req.route \notin Reports PROVE ~Read.inStep
    BY <1>3, ReadingStep, StatementKeeps
       DEF NotReading, ReadsOn, SameReads, Read, ReadOn, OnlyReportsInStep
  <2> DEFINE s == Script(req.route)[req.at]
             p == PinSnapshot(req)
  <2>1. s \in Statements /\ p \in Request /\ req \in Request
    BY <1>3, ReadingStep
  <2>2. s[1] # "edit"
    BY <1>3, ReadsAStatement, OthersAskNothing DEF ReadOn
  <2>3. ~p.inStep
    BY <1>3, <2>1, PinEffect DEF ReadOn, OnlyReportsInStep
  <2> HIDE DEF s, p
  <2>4. Read = Statement(p, s)
    BY DEF Read, s, p
  <2> QED BY <2>1, <2>2, <2>3, <2>4
          DEF Statement, Statements, ReadTable, Completed, AskLock, ReadClock, ReadSeen,
              AskEditAgain, FetchLive, Request
<1>4. CASE MissingTable
  BY <1>4 DEF MissingTable, OnlyReportsInStep, TypeOK, Request
<1>5. CASE Answer
  BY <1>5 DEF Answer, NoRequest, OnlyReportsInStep
<1> QED BY WriterStep, <1>1, <1>2, <1>3, <1>4, <1>5

LEMMA InitOnlyReports == Init => OnlyReportsInStep
BY DEF Init, NoRequest, OnlyReportsInStep

\* Both sides have read the same versions of layers that they agree on.
LEMMA NothingDiverges ==
    ASSUME TypeOK, \A l \in CURRENCY_LAYERS : ReadsAgree(l),
           Len(req.got) = 3, Len(req.live) = 3
    PROVE  req.got = req.live
<1>1. req.got \in Seq(Versions) /\ req.live \in Seq(Versions)
  BY DEF TypeOK, Request
<1>2. ASSUME NEW i \in 1..3 PROVE req.got[i] = req.live[i]
  <2>1. ReadOf(i) \in CURRENCY_LAYERS
    BY DEF ReadOf, CURRENCY_LAYERS
  <2> QED BY <2>1 DEF ReadsAgree
<1> QED BY <1>1, <1>2

\* A comparison that diverges although the mirror held what the source served is one the
\* source has published behind (reconcile_figures.py, republish_warning).
THEOREM Explained == Spec => []DivergenceExplained
<1>1. TypeOK /\ OnlyReportsInStep /\ ReportSteady => DivergenceExplained
  <2> SUFFICES ASSUME TypeOK, OnlyReportsInStep, ReportSteady,
                      AllRead(req), req.inStep, req.got # req.live, ~Aborted(req)
               PROVE  IF req.route = "figures" THEN RepublishWarning(req)
                      ELSE \E l \in CURRENCY_LAYERS : published[l] # req.edits[l]
    BY DEF DivergenceExplained, Diverged
  <2>1. req.route \in Reports /\ req.status = "reading"
    BY DEF AllRead, OnlyReportsInStep
  <2>2. AskedFor /\ Lengths /\ Unmoved
    BY <2>1 DEF ReportSteady
  <2>3. req.at > Len(Script(req.route)) /\ req.at \in Nat
    BY DEF AllRead, TypeOK, Request
  <2>4. CASE req.route = "reconcile"
    <3>1. req.at > 10
      BY <2>3, <2>4, ReconcileScript, Zenon
    <3>2. Len(req.got) = 3 /\ Len(req.live) = 3
      BY <2>2, <2>3, <2>4, <3>1 DEF Lengths
    <3>3. ~\A l \in CURRENCY_LAYERS : ReadsAgree(l)
      BY <3>2, NothingDiverges
    <3>4. \A l \in CURRENCY_LAYERS : published[l] = req.edits[l] => ReadsAgree(l)
      BY <2>2, <2>3, <3>1 DEF Unmoved, Asked
    <3> QED BY <2>4, <3>3, <3>4
  <2>5. CASE req.route = "figures"
    <3>1. req.at > 12
      BY <2>3, <2>5, FiguresScript, Zenon
    <3>2. \A l \in CURRENCY_LAYERS : Asked(l) /\ AskedAgain(l)
      BY <2>3, <3>1 DEF Asked, AskedAgain
    <3>3. \A l \in CURRENCY_LAYERS : req.again[l] = req.edits[l] => ReadsAgree(l)
      BY <2>2, <2>5, <3>2 DEF Unmoved
    <3>4. ASSUME req.got = << 0 >>
          PROVE  ~ReadsAgree("fields")
      <4>1. "fields" \in CURRENCY_LAYERS
        BY DEF CURRENCY_LAYERS
      <4>2. ReadsAgree("fields") => req.edits["fields"] = 0
        BY <3>4 DEF ReadsAgree, ReadOf
      <4>3. published["fields"] \in Nat
        BY <4>1, ReaderAssumption DEF TypeOK
      <4> QED BY <2>2, <3>2, <4>1, <4>2, <4>3 DEF AskedFor
    <3>5. Len(req.live) = 3 /\ (Len(req.got) = 3 \/ req.got = <<0>>)
      BY <2>2, <2>3, <2>5, <3>1 DEF Lengths
    <3>6. ~\A l \in CURRENCY_LAYERS : ReadsAgree(l)
      BY <3>4, <3>5, NothingDiverges DEF CURRENCY_LAYERS
    <3> QED BY <2>5, <3>3, <3>6 DEF RepublishWarning
  <2> QED BY <2>1, <2>4, <2>5 DEF Reports
<1> QED BY <1>1, InitTyped, InitReads, InitNeverAhead, InitReport, InitOnlyReports, StepTyped,
           RouteKept, NeverAheadKept, ReportKept, OnlyReportsKept, PTL DEF Spec

================================================================================
