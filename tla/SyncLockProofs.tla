----------------------------- MODULE SyncLockProofs ----------------------------
(***************************************************************************)
(* Theorems about SyncLock for every set of workers, commands and layers,    *)
(* every interval and backoff, and every number of failures.                 *)
(***************************************************************************)
EXTENDS SyncLock, FiniteSetTheorems, TLAPS

\* What a process may be doing, once, for the steps of the typing proof.
States == WorkerAt \union CommandAt

LEMMA PollIntervalType ==
    /\ POLL_INTERVAL \in Nat \ {0}
    /\ MIN_DELAY \in 1..POLL_INTERVAL
    /\ FAILURE_BACKOFF \in 1..POLL_INTERVAL
    /\ LOCK_BUSY_RETRY \in 1..POLL_INTERVAL
    /\ MaxRun \in 0..POLL_INTERVAL
BY LockAssumption

\* The end of an attempt keeps the types, whatever the delay within the interval.
LEMMA EndsTyped ==
    ASSUME TypeOK, NEW p \in Procs, NEW delay \in 0..POLL_INTERVAL, Ends(p, delay)
    PROVE  /\ at' \in [Procs -> States]
           /\ \A w \in Workers : at'[w] \in WorkerAt
           /\ \A c \in Commands : at'[c] \in CommandAt
           /\ timer' \in [Procs -> 0..POLL_INTERVAL]
           /\ todo' \in [Procs -> SUBSET Layers]
           /\ failed' \in [Procs -> BOOLEAN]
<1> USE DEF Ends, TypeOK, States, WorkerAt, CommandAt, Procs
<1>1. at' \in [Procs -> States]
  OBVIOUS
<1>2. \A w \in Workers : at'[w] \in WorkerAt
  OBVIOUS
<1>3. \A c \in Commands : at'[c] \in CommandAt
  BY LockAssumption
<1>4. timer' \in [Procs -> 0..POLL_INTERVAL]
  BY PollIntervalType
<1>5. todo' \in [Procs -> SUBSET Layers]
  OBVIOUS
<1>6. failed' \in [Procs -> BOOLEAN]
  OBVIOUS
<1> QED BY <1>1, <1>2, <1>3, <1>4, <1>5, <1>6

\* A process moved within a run, or to trying for the lock, keeps the types of at.
LEMMA MovesTyped ==
    ASSUME TypeOK, NEW p \in Procs,
           NEW where \in {"trying", "polling", "filling", "cut"},
           at' = [at EXCEPT ![p] = where]
    PROVE  /\ at' \in [Procs -> States]
           /\ \A w \in Workers : at'[w] \in WorkerAt
           /\ \A c \in Commands : at'[c] \in CommandAt
BY DEF TypeOK, States, WorkerAt, CommandAt, Procs

LEMMA ReleasedTyped ==
    ASSUME TypeOK, NEW p \in Procs
    PROVE  Released(p) \in Procs \union {Nobody}
BY DEF TypeOK, Released

LEMMA DelayTyped ==
    ASSUME NEW d \in LongOverdue..NoDue
    PROVE  DelayAfterSuccess(d) \in 0..POLL_INTERVAL
BY PollIntervalType DEF DelayAfterSuccess, Larger, Smaller, LongOverdue, NoDue

LEMMA FaultTyped == ASSUME TypeOK, Fault PROVE faults' \in 0..MaxFaults
BY LockAssumption DEF TypeOK, Fault

--------------------------------------------------------------------------------
(* Typing. *)

LEMMA InitTyped == Init => TypeOK
<1> SUFFICES ASSUME Init PROVE TypeOK
  OBVIOUS
<1>1. due \in [Layers -> LongOverdue..NoDue]
  BY PollIntervalType DEF Init, LongOverdue, NoDue
<1>2. faults \in 0..MaxFaults
  BY LockAssumption DEF Init
<1>3. /\ at \in [Procs -> States]
      /\ \A w \in Workers : at[w] \in WorkerAt
      /\ \A c \in Commands : at[c] \in CommandAt
  BY LockAssumption DEF Init, States, WorkerAt, CommandAt, Procs
<1>4. /\ timer \in [Procs -> 0..POLL_INTERVAL]
      /\ todo \in [Procs -> SUBSET Layers]
      /\ failed \in [Procs -> BOOLEAN]
      /\ holder \in Procs \union {Nobody}
      /\ staged \in Procs \union {Nobody}
  BY DEF Init
<1> QED BY <1>1, <1>2, <1>3, <1>4 DEF TypeOK, States

LEMMA StepTyped == TypeOK /\ [Next]_vars => TypeOK'
<1> SUFFICES ASSUME TypeOK, [Next]_vars PROVE TypeOK'
  OBVIOUS
<1> DEFINE AtTyped == /\ at' \in [Procs -> States]
                      /\ \A w \in Workers : at'[w] \in WorkerAt
                      /\ \A c \in Commands : at'[c] \in CommandAt
           RunTyped == /\ timer' \in [Procs -> 0..POLL_INTERVAL]
                       /\ todo' \in [Procs -> SUBSET Layers]
                       /\ failed' \in [Procs -> BOOLEAN]
           RestTyped == /\ holder' \in Procs \union {Nobody}
                        /\ staged' \in Procs \union {Nobody}
                        /\ due' \in [Layers -> LongOverdue..NoDue]
                        /\ faults' \in 0..MaxFaults
<1>parts. SUFFICES AtTyped /\ RunTyped /\ RestTyped
  BY DEF TypeOK, States
<1>now. /\ at \in [Procs -> States]
        /\ \A w \in Workers : at[w] \in WorkerAt
        /\ \A c \in Commands : at[c] \in CommandAt
  BY DEF TypeOK, States
<1>0. CASE UNCHANGED vars
  BY <1>0, <1>now DEF vars, runVars, TypeOK
<1>1. ASSUME NEW w \in Workers, Wake(w) PROVE AtTyped /\ RunTyped /\ RestTyped
  BY <1>1, MovesTyped DEF Wake, runVars, TypeOK, Procs
<1>2. ASSUME NEW c \in Commands, StartCommand(c) PROVE AtTyped /\ RunTyped /\ RestTyped
  BY <1>2, MovesTyped DEF StartCommand, runVars, TypeOK, Procs
<1>3. ASSUME NEW p \in Procs, AcquireLock(p) PROVE AtTyped /\ RunTyped /\ RestTyped
  <2>1. AtTyped
    BY <1>3, MovesTyped DEF AcquireLock
  <2>2. RunTyped
    BY <1>3, PollIntervalType DEF AcquireLock, TypeOK
  <2>3. RestTyped
    BY <1>3 DEF AcquireLock, Locks, TypeOK
  <2> QED BY <2>1, <2>2, <2>3
<1>4. ASSUME NEW p \in Procs, Refused(p) PROVE AtTyped /\ RunTyped /\ RestTyped
  <2>1. Ends(p, LOCK_BUSY_RETRY) /\ LOCK_BUSY_RETRY \in 0..POLL_INTERVAL
    BY <1>4, PollIntervalType DEF Refused
  <2>2. RestTyped
    BY <1>4 DEF Refused, TypeOK
  <2> QED BY <2>1, <2>2, EndsTyped
<1>backoff. ASSUME NEW p \in Procs, Ends(p, FAILURE_BACKOFF) PROVE AtTyped /\ RunTyped
  BY <1>backoff, EndsTyped, PollIntervalType
<1>5. ASSUME NEW p \in Procs, ConnectFails(p) PROVE AtTyped /\ RunTyped /\ RestTyped
  <2>1. RestTyped
    BY <1>5, FaultTyped DEF ConnectFails, TypeOK
  <2> QED BY <1>5, <2>1, <1>backoff DEF ConnectFails
<1>6. ASSUME NEW p \in Procs, NEW l \in Layers, PollLayer(p, l)
      PROVE  AtTyped /\ RunTyped /\ RestTyped
  <2>1. AtTyped
    BY <1>6, <1>now, MovesTyped DEF PollLayer
  <2>2. RunTyped
    BY <1>6 DEF PollLayer, TypeOK
  <2>3. POLL_INTERVAL - timer[p] \in LongOverdue..NoDue
    BY PollIntervalType DEF TypeOK, LongOverdue, NoDue
  <2>4. RestTyped
    BY <1>6, <2>3 DEF PollLayer, TypeOK
  <2> QED BY <2>1, <2>2, <2>4
<1>reload. ASSUME NEW c \in Procs, NEW l \in Layers, ReloadLayer(c, l)
           PROVE  AtTyped /\ RunTyped /\ RestTyped
  <2>1. AtTyped
    BY <1>reload, MovesTyped DEF ReloadLayer
  <2>2. RunTyped /\ RestTyped
    BY <1>reload DEF ReloadLayer, TypeOK
  <2> QED BY <2>1, <2>2
<1>7. ASSUME NEW p \in Procs, SwapIn(p) PROVE AtTyped /\ RunTyped /\ RestTyped
  BY <1>7, MovesTyped DEF SwapIn, runVars, TypeOK
<1>8. ASSUME NEW p \in Procs, LayerFails(p) PROVE AtTyped /\ RunTyped /\ RestTyped
  <2>1. AtTyped
    BY <1>8, MovesTyped DEF LayerFails
  <2>2. RunTyped
    BY <1>8 DEF LayerFails, TypeOK
  <2>3. RestTyped
    BY <1>8, FaultTyped DEF LayerFails, TypeOK
  <2> QED BY <2>1, <2>2, <2>3
<1>9. ASSUME NEW p \in Procs, Finish(p) PROVE AtTyped /\ RunTyped /\ RestTyped
  <2>1. PICK l \in Layers :
          Ends(p, IF failed[p] THEN FAILURE_BACKOFF ELSE DelayAfterSuccess(due[l]))
    BY <1>9 DEF Finish
  <2>2. due[l] \in LongOverdue..NoDue
    BY DEF TypeOK
  <2>3. (IF failed[p] THEN FAILURE_BACKOFF ELSE DelayAfterSuccess(due[l]))
          \in 0..POLL_INTERVAL
    BY <2>2, DelayTyped, PollIntervalType
  <2>4. RestTyped
    BY <1>9, ReleasedTyped DEF Finish, TypeOK
  <2> QED BY <2>1, <2>3, <2>4, EndsTyped
<1>10. ASSUME NEW p \in Procs, Raises(p) PROVE AtTyped /\ RunTyped /\ RestTyped
  <2>1. RestTyped
    BY <1>10, FaultTyped, ReleasedTyped DEF Raises, TypeOK
  <2> QED BY <1>10, <2>1, <1>backoff DEF Raises
<1>11. ASSUME NEW p \in Procs, SessionLost(p) PROVE AtTyped /\ RunTyped /\ RestTyped
  <2>1. AtTyped
    BY <1>11, MovesTyped DEF SessionLost
  <2>2. RunTyped
    BY <1>11 DEF SessionLost, runVars, TypeOK
  <2>3. RestTyped
    BY <1>11, FaultTyped, ReleasedTyped DEF SessionLost, TypeOK
  <2> QED BY <2>1, <2>2, <2>3
<1>12. ASSUME NEW p \in Procs, CutShort(p) PROVE AtTyped /\ RunTyped /\ RestTyped
  <2>1. RestTyped
    BY <1>12 DEF CutShort, TypeOK
  <2> QED BY <1>12, <2>1, <1>backoff DEF CutShort
<1>13. ASSUME NEW p \in Procs, Killed(p) PROVE AtTyped /\ RunTyped /\ RestTyped
  <2>1. Ends(p, 0) /\ 0 \in 0..POLL_INTERVAL
    BY <1>13, PollIntervalType DEF Killed
  <2>2. RestTyped
    BY <1>13, FaultTyped, ReleasedTyped DEF Killed, TypeOK
  <2> QED BY <2>1, <2>2, EndsTyped
<1>14. ASSUME Tick PROVE AtTyped /\ RunTyped /\ RestTyped
  <2>1. \A p \in Procs :
          (IF at[p] = "asleep" THEN timer[p] - 1
           ELSE IF at[p] \in InRun THEN timer[p] + 1 ELSE timer[p]) \in 0..POLL_INTERVAL
    BY <1>14, PollIntervalType DEF Tick, TypeOK
  <2>2. \A l \in Layers :
          (IF due[l] \in {NoDue, LongOverdue} THEN due[l] ELSE due[l] - 1)
            \in LongOverdue..NoDue
    BY PollIntervalType DEF TypeOK, LongOverdue, NoDue
  <2>3. AtTyped
    BY <1>14, <1>now DEF Tick
  <2>4. RunTyped
    BY <1>14, <2>1 DEF Tick, runVars, TypeOK
  <2>5. RestTyped
    BY <1>14, <2>2 DEF Tick, TypeOK
  <2> QED BY <2>3, <2>4, <2>5
<1> QED
  BY <1>0, <1>1, <1>2, <1>3, <1>4, <1>5, <1>6, <1>7, <1>8, <1>9, <1>10, <1>11, <1>12,
     <1>13, <1>14, <1>reload
  DEF Next, Step, Goes

\* Every variable keeps to its type, and no worker's process ever ends: worker.py's
\* "The only thing that ends the process is a missing PG* variable at start".
THEOREM Typing == Spec => []TypeOK
<1> QED BY InitTyped, StepTyped, PTL DEF Spec

--------------------------------------------------------------------------------
(* The staging copy of a run. *)

\* A run whose session is alive holds the lock.  This is what makes the property
\* inductive: a run that is between layers prepares its next staging copy on the
\* strength of the lock alone.
RunHoldsLock == \A p \in Procs : at[p] \in {"polling", "filling"} => holder = p

IInv == TypeOK /\ RunHoldsLock /\ RunKeepsItsStaging

LEMMA StepHoldsLock == TypeOK /\ RunHoldsLock /\ [Next]_vars => RunHoldsLock'
<1> SUFFICES ASSUME TypeOK, RunHoldsLock, [Next]_vars PROVE RunHoldsLock'
  OBVIOUS
<1> USE DEF RunHoldsLock, TypeOK
<1>0. CASE UNCHANGED vars
  BY <1>0 DEF vars
<1>1. ASSUME NEW p \in Procs, Wake(p) \/ StartCommand(p) PROVE RunHoldsLock'
  BY <1>1 DEF Wake, StartCommand
<1>2. ASSUME NEW p \in Procs, AcquireLock(p) PROVE RunHoldsLock'
  BY <1>2, LockAssumption DEF AcquireLock, Locks
<1>3. ASSUME NEW p \in Procs, Refused(p) \/ ConnectFails(p) \/ CutShort(p)
      PROVE  RunHoldsLock'
  BY <1>3 DEF Refused, ConnectFails, CutShort, Ends
<1>4. ASSUME NEW p \in Procs,
             \/ \E l \in Layers : PollLayer(p, l) \/ ReloadLayer(p, l)
             \/ SwapIn(p) \/ LayerFails(p)
      PROVE  RunHoldsLock'
  BY <1>4 DEF PollLayer, ReloadLayer, SwapIn, LayerFails
<1>5. ASSUME NEW p \in Procs, Finish(p) \/ Raises(p) \/ Killed(p) PROVE RunHoldsLock'
  BY <1>5 DEF Finish, Raises, Killed, Ends, Released
<1>6. ASSUME NEW p \in Procs, SessionLost(p) PROVE RunHoldsLock'
  BY <1>6 DEF SessionLost, Released
<1>7. ASSUME Tick PROVE RunHoldsLock'
  BY <1>7 DEF Tick
<1> QED
  BY <1>0, <1>1, <1>2, <1>3, <1>4, <1>5, <1>6, <1>7 DEF Next, Step, Goes, Procs

LEMMA StepKeepsStaging == IInv /\ [Next]_vars => RunKeepsItsStaging'
<1> SUFFICES ASSUME IInv, [Next]_vars PROVE RunKeepsItsStaging'
  OBVIOUS
<1> USE DEF IInv, RunHoldsLock, RunKeepsItsStaging, TypeOK
<1>0. CASE UNCHANGED vars
  BY <1>0 DEF vars
<1>1. ASSUME NEW p \in Procs, Wake(p) \/ StartCommand(p) \/ AcquireLock(p) \/ SessionLost(p)
      PROVE  RunKeepsItsStaging'
  BY <1>1 DEF Wake, StartCommand, AcquireLock, SessionLost
<1>2. ASSUME NEW p \in Procs,
             Refused(p) \/ ConnectFails(p) \/ CutShort(p) \/ Finish(p) \/ Raises(p) \/ Killed(p)
      PROVE  RunKeepsItsStaging'
  BY <1>2 DEF Refused, ConnectFails, CutShort, Finish, Raises, Killed, Ends
<1>3. ASSUME NEW p \in Procs, NEW l \in Layers, PollLayer(p, l) \/ ReloadLayer(p, l)
      PROVE  RunKeepsItsStaging'
  <2>1. \A q \in Procs : at[q] = "filling" => q = p
    BY <1>3 DEF PollLayer, ReloadLayer
  <2> QED BY <1>3, <2>1 DEF PollLayer, ReloadLayer
<1>4. ASSUME NEW p \in Procs, SwapIn(p) PROVE RunKeepsItsStaging'
  <2>1. \A q \in Procs : at[q] = "filling" => q = p
    BY <1>4 DEF SwapIn
  <2> QED BY <1>4, <2>1 DEF SwapIn
<1>5. ASSUME NEW p \in Procs, LayerFails(p) PROVE RunKeepsItsStaging'
  BY <1>5 DEF LayerFails
<1>6. ASSUME Tick PROVE RunKeepsItsStaging'
  BY <1>6 DEF Tick
<1> QED
  BY <1>0, <1>1, <1>2, <1>3, <1>4, <1>5, <1>6 DEF Next, Step, Goes, Procs

\* No run loses what it has staged to another one, however many workers and commands
\* there are, and whatever processes are killed and sessions lost.
THEOREM StagingSafety == Spec => []RunKeepsItsStaging
<1>1. Init => IInv
  BY InitTyped DEF Init, IInv, RunHoldsLock, RunKeepsItsStaging, Procs
<1>2. IInv /\ [Next]_vars => IInv'
  BY StepTyped, StepHoldsLock, StepKeepsStaging DEF IInv
<1>3. IInv => RunKeepsItsStaging
  BY DEF IInv
<1> QED BY <1>1, <1>2, <1>3, PTL DEF Spec

--------------------------------------------------------------------------------
(* What one failure costs. *)

\* The wait after a run that did not answer, of whatever kind.
LongerWait == Larger(FAILURE_BACKOFF, LOCK_BUSY_RETRY)

\* What one failure costs a layer at most: the run it cut short and the wait after it.
Remedy == MaxRun + LongerWait

\* What a command costs a worker: its run, and the wait of the worker it refused.
Turn == MaxRun + LOCK_BUSY_RETRY

\* The commands that may still take the lock, and what they may cost together.
ToCome == {c \in Commands : at[c] \in {"unstarted", "trying"}}
Turns(n) == n * Turn

\* How long at most until worker w tries for the lock: by its own sleep or run, and
\* because the lock is held.
Away(w) ==
    IF at[w] = "asleep" THEN timer[w]
    ELSE IF at[w] \in InRun THEN MaxRun - timer[w] + FAILURE_BACKOFF ELSE 0
Held == IF holder = Nobody THEN 0 ELSE MaxRun - timer[holder] + LOCK_BUSY_RETRY

\* The failure that is still to come.
Spare == IF faults = 0 THEN Remedy ELSE 0

\* How long at most until worker w has been through a whole run.
Reach(w) == Larger(Away(w), Held) + Turns(Cardinality(ToCome)) + MaxRun + Spare

\* What a layer is allowed while a worker's run has yet to attempt it: Reach then counts
\* that run to its end and the wait after it, and the layer needs no more than its poll.
Allowed(l) == IF holder \in Workers /\ l \in todo[holder] THEN Remedy ELSE 0

\* The lock is held by a run and by nothing else.
HolderRuns == holder # Nobody => at[holder] \in {"polling", "filling"}

\* No run outlasts its bound.
RunTimed == \A p \in Procs : at[p] \in InRun => timer[p] <= MaxRun

\* A worker's run that nothing went wrong with has set the due time of every layer it
\* is past, from when it began.
SetByRun ==
    \A w \in Workers : at[w] \in {"polling", "filling"} /\ ~failed[w] =>
      \A l \in Layers \ todo[w] : due[l] = POLL_INTERVAL - timer[w]

\* Who sleeps while a run goes on has slept since before it began, or was refused,
\* failed or was killed during it.
SleptBefore ==
    holder # Nobody =>
      \A w \in Workers : at[w] = "asleep" =>
        timer[w] <= Larger(POLL_INTERVAL - timer[holder], LongerWait)

\* The inductive heart: every worker is through with a run before any layer that was
\* ever polled is overdue.
WithinReach ==
    faults <= 1 =>
      \A l \in Layers, w \in Workers :
        due[l] # NoDue => Reach(w) <= due[l] + POLL_INTERVAL + Allowed(l)

OInv ==
    /\ TypeOK /\ RunHoldsLock
    /\ HolderRuns /\ RunTimed /\ SetByRun /\ SleptBefore /\ WithinReach

LEMMA Waits ==
    /\ MaxRun \in Nat /\ MIN_DELAY \in Nat /\ FAILURE_BACKOFF \in Nat
    /\ LOCK_BUSY_RETRY \in Nat /\ POLL_INTERVAL \in Nat
    /\ LongerWait \in {FAILURE_BACKOFF, LOCK_BUSY_RETRY}
    /\ FAILURE_BACKOFF <= LongerWait /\ LOCK_BUSY_RETRY <= LongerWait
    /\ Remedy \in Nat /\ Turn \in Nat
    /\ Remedy = MaxRun + LongerWait /\ Turn = MaxRun + LOCK_BUSY_RETRY
BY PollIntervalType DEF LongerWait, Remedy, Turn, Larger

\* The turns of no more commands than there are take no longer than the room there is.
LEMMA TurnsBounded ==
    ASSUME NEW n \in 0..Cardinality(Commands)
    PROVE  /\ Turns(n) \in Nat
           /\ \A wait \in {MIN_DELAY, FAILURE_BACKOFF, LOCK_BUSY_RETRY} :
                MaxRun + wait + Turns(n) + MaxRun <= POLL_INTERVAL
<1> DEFINE all == Cardinality(Commands)
<1>1. all \in Nat
  BY RoomForOneFailure, FS_CardinalityType
<1>2. n \in Nat /\ all - n \in Nat
  BY <1>1
<1>3. \A a, b \in Nat : a * b \in Nat
  OBVIOUS
<1>4. n * Turn \in Nat /\ (all - n) * Turn \in Nat
  BY <1>2, <1>3, Waits
<1>5. all * Turn = n * Turn + (all - n) * Turn
  BY <1>1, <1>2, Waits
<1>6. \A wait \in {MIN_DELAY, FAILURE_BACKOFF, LOCK_BUSY_RETRY} :
        MaxRun + wait + all * Turn + MaxRun <= POLL_INTERVAL
  BY RoomForOneFailure DEF Turn
<1>7. all * Turn \in Nat
  BY <1>1, <1>3, Waits
<1> DEFINE some == n * Turn
           rest == (all - n) * Turn
           whole == all * Turn
<1>8. some \in Nat /\ rest \in Nat /\ whole = some + rest
  BY <1>4, <1>5
<1>9. \A wait \in {MIN_DELAY, FAILURE_BACKOFF, LOCK_BUSY_RETRY} :
        MaxRun + wait + whole + MaxRun <= POLL_INTERVAL
  BY <1>6
<1> HIDE DEF some, rest, whole
<1>10. \A wait \in {MIN_DELAY, FAILURE_BACKOFF, LOCK_BUSY_RETRY} :
        MaxRun + wait + some + MaxRun <= POLL_INTERVAL
  BY <1>8, <1>9, Waits
<1> QED BY <1>8, <1>10 DEF Turns, some

LEMMA OneTurnLess ==
    ASSUME NEW n \in Nat
    PROVE  Turns(n + 1) = Turns(n) + Turn
<1> DEFINE turn == Turn
<1>1. turn \in Nat
  BY Waits
<1> HIDE DEF turn
<1>2. (n + 1) * turn = n * turn + turn
  BY <1>1
<1> QED BY <1>2 DEF Turns, turn

LEMMA ComingType ==
    ASSUME TypeOK
    PROVE  /\ IsFiniteSet(ToCome)
           /\ Cardinality(ToCome) \in 0..Cardinality(Commands)
<1>1. ToCome \subseteq Commands
  BY DEF ToCome
<1>2. IsFiniteSet(Commands)
  BY RoomForOneFailure
<1>3. IsFiniteSet(ToCome) /\ Cardinality(ToCome) <= Cardinality(Commands)
  BY <1>1, <1>2, FS_Subset
<1> QED BY <1>2, <1>3, FS_CardinalityType

\* No step brings a command back, and one that is through with trying frees its turn.
LEMMA ComingShrinks ==
    ASSUME TypeOK, TypeOK', ToCome' \subseteq ToCome
    PROVE  Turns(Cardinality(ToCome'))  <= Turns(Cardinality(ToCome))
<1> DEFINE now == Cardinality(ToCome)
           then == Cardinality(ToCome')
<1>1. now \in Nat /\ then \in Nat /\ then <= now
  BY ComingType, FS_Subset, FS_CardinalityType, RoomForOneFailure
<1> HIDE DEF now, then
<1>2. then * Turn <= now * Turn
  <2>1. \A a, b \in Nat : a * b \in Nat
    OBVIOUS
  <2>2. now - then \in Nat
    BY <1>1
  <2>3. now * Turn = then * Turn + (now - then) * Turn
    BY <1>1, <2>2, Waits
  <2>4. then * Turn \in Nat /\ (now - then) * Turn \in Nat
    BY <1>1, <2>1, <2>2, Waits
  <2> QED BY <2>3, <2>4
<1> QED BY <1>2 DEF Turns, now, then

LEMMA ComingLoses ==
    ASSUME TypeOK, TypeOK', NEW c \in ToCome, ToCome' = ToCome \ {c}
    PROVE  Turns(Cardinality(ToCome)) = Turns(Cardinality(ToCome')) + Turn
<1>1. Cardinality(ToCome') = Cardinality(ToCome) - 1
  BY ComingType, FS_RemoveElement
<1>2. Cardinality(ToCome') \in Nat /\ Cardinality(ToCome) \in Nat
  BY ComingType, <1>1, FS_CardinalityType, FS_RemoveElement
<1>3. Cardinality(ToCome) = Cardinality(ToCome') + 1
  BY <1>1, <1>2
<1> QED BY <1>2, <1>3, OneTurnLess

LEMMA HolderOfRun ==
    ASSUME OInv, NEW p \in Procs, at[p] \in {"polling", "filling"}
    PROVE  holder = p
BY DEF OInv, RunHoldsLock

LEMMA StepHolderRuns == OInv /\ [Next]_vars => HolderRuns'
<1> SUFFICES ASSUME OInv, [Next]_vars PROVE HolderRuns'
  OBVIOUS
<1> USE DEF OInv, RunHoldsLock, HolderRuns, TypeOK
<1>0. CASE UNCHANGED vars
  BY <1>0 DEF vars
<1>1. ASSUME NEW p \in Procs, Wake(p) \/ StartCommand(p) PROVE HolderRuns'
  BY <1>1 DEF Wake, StartCommand
<1>2. ASSUME NEW p \in Procs, AcquireLock(p) PROVE HolderRuns'
  BY <1>2 DEF AcquireLock, Locks
<1>3. ASSUME NEW p \in Procs, Refused(p) \/ ConnectFails(p) \/ CutShort(p)
      PROVE  HolderRuns'
  BY <1>3 DEF Refused, ConnectFails, CutShort, Ends
<1>4. ASSUME NEW p \in Procs,
             \/ \E l \in Layers : PollLayer(p, l) \/ ReloadLayer(p, l)
             \/ SwapIn(p) \/ LayerFails(p)
      PROVE  HolderRuns'
  BY <1>4 DEF PollLayer, ReloadLayer, SwapIn, LayerFails
<1>5. ASSUME NEW p \in Procs, Finish(p) \/ Raises(p) \/ Killed(p) PROVE HolderRuns'
  BY <1>5 DEF Finish, Raises, Killed, Ends, Released
<1>6. ASSUME NEW p \in Procs, SessionLost(p) PROVE HolderRuns'
  BY <1>6 DEF SessionLost, Released
<1>7. ASSUME Tick PROVE HolderRuns'
  BY <1>7 DEF Tick
<1> QED
  BY <1>0, <1>1, <1>2, <1>3, <1>4, <1>5, <1>6, <1>7 DEF Next, Step, Goes, Procs

LEMMA StepRunTimed == OInv /\ [Next]_vars => RunTimed'
<1> SUFFICES ASSUME OInv, [Next]_vars PROVE RunTimed'
  OBVIOUS
<1> USE DEF OInv, RunTimed, TypeOK, InRun
<1>0. CASE UNCHANGED vars
  BY <1>0 DEF vars
<1>1. ASSUME NEW p \in Procs, Wake(p) \/ StartCommand(p) PROVE RunTimed'
  BY <1>1 DEF Wake, StartCommand
<1>2. ASSUME NEW p \in Procs, AcquireLock(p) PROVE RunTimed'
  BY <1>2, Waits DEF AcquireLock
<1>3. ASSUME NEW p \in Procs, NEW delay, Ends(p, delay) PROVE RunTimed'
  <2>1. \A q \in Procs : at'[q] \in InRun => q # p /\ at[q] \in InRun
    BY <1>3 DEF Ends
  <2> QED BY <1>3, <2>1 DEF Ends
<1>4. ASSUME NEW p \in Procs,
             \/ Refused(p) \/ ConnectFails(p) \/ CutShort(p)
             \/ Finish(p) \/ Raises(p) \/ Killed(p)
      PROVE  RunTimed'
  BY <1>3, <1>4 DEF Refused, ConnectFails, CutShort, Finish, Raises, Killed
<1>5. ASSUME NEW p \in Procs,
             \/ \E l \in Layers : PollLayer(p, l) \/ ReloadLayer(p, l)
             \/ SwapIn(p) \/ LayerFails(p) \/ SessionLost(p)
      PROVE  RunTimed'
  BY <1>5 DEF PollLayer, ReloadLayer, SwapIn, LayerFails, SessionLost
<1>6. ASSUME Tick PROVE RunTimed'
  BY <1>6, Waits DEF Tick
<1> QED
  BY <1>0, <1>1, <1>2, <1>4, <1>5, <1>6 DEF Next, Step, Goes, Procs

LEMMA StepSetByRun == OInv /\ [Next]_vars => SetByRun'
<1> SUFFICES ASSUME OInv, [Next]_vars PROVE SetByRun'
  OBVIOUS
<1> USE DEF OInv, RunHoldsLock, SetByRun, TypeOK
<1>0. CASE UNCHANGED vars
  BY <1>0 DEF vars, runVars, Procs
<1>1. ASSUME NEW p \in Procs, Wake(p) \/ StartCommand(p) PROVE SetByRun'
  BY <1>1 DEF Wake, StartCommand, runVars, Procs
<1>2. ASSUME NEW p \in Procs, AcquireLock(p) PROVE SetByRun'
  BY <1>2 DEF AcquireLock, Procs
<1>3. ASSUME NEW p \in Procs, NEW delay, Ends(p, delay), due' = due PROVE SetByRun'
  <2>1. \A w \in Workers : at'[w] \in {"polling", "filling"} =>
          w # p /\ at[w] \in {"polling", "filling"}
    BY <1>3 DEF Ends, Procs
  <2> QED BY <1>3, <2>1 DEF Ends, Procs
<1>4. ASSUME NEW p \in Procs,
             \/ Refused(p) \/ ConnectFails(p) \/ CutShort(p)
             \/ Finish(p) \/ Raises(p) \/ Killed(p)
      PROVE  SetByRun'
  BY <1>3, <1>4 DEF Refused, ConnectFails, CutShort, Finish, Raises, Killed
<1>5. ASSUME NEW p \in Procs, NEW l \in Layers, PollLayer(p, l) PROVE SetByRun'
  <2>1. \A w \in Workers : at'[w] \in {"polling", "filling"} => w = p
    BY <1>5 DEF PollLayer, Procs
  <2>2. SUFFICES ASSUME p \in Workers, ~failed[p], NEW k \in Layers \ todo'[p]
                 PROVE  due'[k] = POLL_INTERVAL - timer[p]
    BY <1>5, <2>1 DEF PollLayer
  <2>3. CASE k = l
    BY <1>5, <2>3 DEF PollLayer
  <2>4. CASE k # l
    BY <1>5, <2>2, <2>4 DEF PollLayer
  <2> QED BY <2>3, <2>4
<1>6. ASSUME NEW c \in Commands, NEW l \in Layers, ReloadLayer(c, l) PROVE SetByRun'
  <2>1. \A w \in Workers : w # c
    BY LockAssumption
  <2> QED BY <1>6, <2>1 DEF ReloadLayer, Procs
<1>7. ASSUME NEW p \in Procs, SwapIn(p) \/ SessionLost(p) PROVE SetByRun'
  BY <1>7 DEF SwapIn, SessionLost, runVars, Procs
<1>8. ASSUME NEW p \in Procs, LayerFails(p) PROVE SetByRun'
  BY <1>8 DEF LayerFails, Procs
<1>9. ASSUME Tick PROVE SetByRun'
  <2>1. SUFFICES ASSUME NEW w \in Workers, at[w] \in {"polling", "filling"}, ~failed[w],
                        NEW l \in Layers \ todo[w]
                 PROVE  due'[l] = POLL_INTERVAL - timer'[w]
    BY <1>9 DEF Tick, runVars
  <2>2. due[l] = POLL_INTERVAL - timer[w] /\ timer[w] \in 0..POLL_INTERVAL
    BY <2>1 DEF Procs
  <2>3. due[l] \notin {NoDue, LongOverdue}
    BY <2>2, Waits DEF NoDue, LongOverdue
  <2>4. due'[l] = due[l] - 1
    BY <1>9, <2>3 DEF Tick
  <2>5. timer'[w] = timer[w] + 1
    BY <1>9, <2>1 DEF Tick, InRun, Procs
  <2> QED BY <2>2, <2>4, <2>5, Waits
<1> QED
  BY <1>0, <1>1, <1>2, <1>4, <1>5, <1>6, <1>7, <1>8, <1>9 DEF Next, Step, Goes, Procs

LEMMA StepSleptBefore == OInv /\ [Next]_vars => SleptBefore'
<1> SUFFICES ASSUME OInv, [Next]_vars PROVE SleptBefore'
  OBVIOUS
<1> DEFINE Before(t) == Larger(POLL_INTERVAL - t, LongerWait)
<1>0. CASE UNCHANGED vars
  BY <1>0 DEF vars, OInv, SleptBefore
<1>1. ASSUME NEW p \in Procs, Wake(p) \/ StartCommand(p) PROVE SleptBefore'
  BY <1>1 DEF Wake, StartCommand, OInv, SleptBefore, TypeOK, Procs
<1>2. ASSUME NEW p \in Procs, AcquireLock(p) PROVE SleptBefore'
  <2>1. \A w \in Workers : timer'[w] \in 0..POLL_INTERVAL
    BY <1>2, Waits DEF AcquireLock, OInv, TypeOK, Procs
  <2>2. timer'[holder'] = 0
    BY <1>2 DEF AcquireLock, Locks, OInv, TypeOK
  <2>3. POLL_INTERVAL <= Larger(POLL_INTERVAL - timer'[holder'], LongerWait)
    BY <2>2, Waits DEF Larger
  <2>4. Larger(POLL_INTERVAL - timer'[holder'], LongerWait) \in Nat
    BY <2>2, Waits DEF Larger
  <2> QED BY <2>1, <2>3, <2>4, Waits DEF SleptBefore
<1>3. ASSUME NEW p \in Procs, NEW delay \in Nat, delay <= LongerWait,
             Ends(p, delay), holder' = holder, holder # p
      PROVE  SleptBefore'
  <2>1. SUFFICES ASSUME holder # Nobody, NEW w \in Workers, at'[w] = "asleep"
                 PROVE  timer'[w] <= Before(timer'[holder])
    BY <1>3 DEF SleptBefore
  <2>2. timer'[holder] = timer[holder] /\ timer[holder] \in Nat
    BY <1>3, <2>1 DEF Ends, OInv, TypeOK
  <2>3. CASE w = p
    <3>1. timer'[w] = delay
      BY <1>3, <2>3 DEF Ends, OInv, TypeOK
    <3> QED BY <1>3, <2>2, <3>1, Waits DEF Larger
  <2>4. CASE w # p
    BY <1>3, <2>1, <2>2, <2>4 DEF Ends, OInv, TypeOK, SleptBefore, Procs
  <2> QED BY <2>3, <2>4
<1>4. ASSUME NEW p \in Procs, Refused(p) \/ ConnectFails(p) \/ CutShort(p)
      PROVE  SleptBefore'
  <2>1. holder # p
    BY <1>4, LockAssumption DEF Refused, ConnectFails, CutShort, OInv, HolderRuns
  <2> QED BY <1>3, <1>4, <2>1, Waits DEF Refused, ConnectFails, CutShort
<1>5. ASSUME NEW p \in Procs, Finish(p) \/ Raises(p) PROVE SleptBefore'
  <2>1. holder = p
    BY <1>5, HolderOfRun DEF Finish, Raises
  <2> QED BY <1>5, <2>1 DEF Finish, Raises, Released, SleptBefore
<1>6. ASSUME NEW p \in Procs, Killed(p) PROVE SleptBefore'
  <2>1. CASE holder = p
    BY <1>6, <2>1 DEF Killed, Released, SleptBefore
  <2>2. CASE holder # p
    BY <1>3, <1>6, <2>2, Waits DEF Killed, Released
  <2> QED BY <2>1, <2>2
<1>7. ASSUME NEW p \in Procs,
             \/ \E l \in Layers : PollLayer(p, l) \/ ReloadLayer(p, l)
             \/ SwapIn(p) \/ LayerFails(p)
      PROVE  SleptBefore'
  BY <1>7 DEF PollLayer, ReloadLayer, SwapIn, LayerFails, OInv, TypeOK, SleptBefore, Procs
<1>8. ASSUME NEW p \in Procs, SessionLost(p) PROVE SleptBefore'
  BY <1>8, HolderOfRun DEF SessionLost, Released, SleptBefore
<1>9. ASSUME Tick PROVE SleptBefore'
  <2>1. SUFFICES ASSUME holder # Nobody, NEW w \in Workers, at[w] = "asleep"
                 PROVE  timer'[w] <= Before(timer'[holder])
    BY <1>9 DEF Tick, SleptBefore
  <2>2. timer'[w] = timer[w] - 1 /\ timer[w] \in Nat
    BY <1>9, <2>1 DEF Tick, OInv, TypeOK, Procs
  <2>3. timer'[holder] = timer[holder] + 1 /\ timer[holder] \in Nat
    BY <1>9, <2>1 DEF Tick, OInv, TypeOK, HolderRuns, InRun
  <2>4. timer[w] <= Before(timer[holder])
    BY <2>1 DEF OInv, SleptBefore
  <2> QED BY <2>2, <2>3, <2>4, Waits DEF Larger
<1> QED
  BY <1>0, <1>1, <1>2, <1>4, <1>5, <1>6, <1>7, <1>8, <1>9 DEF Next, Step, Goes, Procs

LEMMA AwayType ==
    ASSUME OInv, NEW w \in Workers
    PROVE  /\ Away(w) \in Nat
           /\ at[w] \in InRun => /\ timer[w] \in 0..MaxRun
                                 /\ Away(w) = MaxRun - timer[w] + FAILURE_BACKOFF
BY Waits DEF OInv, TypeOK, RunTimed, Away, InRun, Procs

LEMMA HeldType ==
    ASSUME OInv
    PROVE  /\ Held \in 0..Turn
           /\ holder # Nobody => /\ timer[holder] \in 0..MaxRun
                                 /\ Held = MaxRun - timer[holder] + LOCK_BUSY_RETRY
<1>1. CASE holder = Nobody
  BY <1>1, Waits DEF Held
<1>2. CASE holder # Nobody
  <2>1. timer[holder] \in 0..MaxRun
    BY <1>2, Waits DEF OInv, TypeOK, HolderRuns, RunTimed, InRun
  <2> QED BY <1>2, <2>1, Waits DEF Held
<1> QED BY <1>1, <1>2

LEMMA SpareAllowedType ==
    ASSUME OInv, NEW l \in Layers
    PROVE  Spare \in 0..Remedy /\ Allowed(l) \in 0..Remedy
BY Waits DEF Spare, Allowed

\* What WithinReach says of the due times themselves.
LEMMA ReachIsEnough == OInv => OneFailureIsNotOverdue
<1> SUFFICES ASSUME OInv, faults <= 1, NEW l \in Layers PROVE due[l] >= -POLL_INTERVAL
  BY DEF OneFailureIsNotOverdue
<1>1. due[l] \in LongOverdue..NoDue /\ POLL_INTERVAL \in Nat
  BY Waits DEF OInv, TypeOK
<1>2. CASE due[l] = NoDue
  BY <1>1, <1>2 DEF NoDue
<1>3. ASSUME due[l] # NoDue, NEW w \in Workers, Remedy <= Larger(Away(w), Held) + MaxRun
             \/ Allowed(l) = 0
      PROVE  due[l] >= -POLL_INTERVAL
  <2>1. Reach(w) <= due[l] + POLL_INTERVAL + Allowed(l)
    BY <1>3 DEF OInv, WithinReach
  <2>2. Turns(Cardinality(ToCome)) \in Nat
    BY ComingType, TurnsBounded DEF OInv
  <2>3. Allowed(l) \in 0..Remedy /\ Spare \in 0..Remedy
    BY SpareAllowedType
  <2>4. Larger(Away(w), Held) \in Nat
    BY AwayType, HeldType, Waits DEF Larger
  <2> DEFINE reach == Larger(Away(w), Held)
             turns == Turns(Cardinality(ToCome))
             allowed == Allowed(l)
             spare == Spare
             d == due[l]
  <2>5. reach + turns + MaxRun + spare <= d + POLL_INTERVAL + allowed
    BY <2>1 DEF Reach
  <2>6. reach \in Nat /\ turns \in Nat /\ allowed \in 0..Remedy /\ spare \in 0..Remedy /\ d \in Int
    BY <1>1, <2>2, <2>3, <2>4, Waits DEF LongOverdue, NoDue
  <2>7. Remedy <= reach + MaxRun \/ allowed = 0
    BY <1>3
  <2> HIDE DEF reach, turns, allowed, spare, d
  <2>8. d + POLL_INTERVAL >= 0
    BY <2>5, <2>6, <2>7, Waits
  <2>9. d >= -POLL_INTERVAL
    BY <2>6, <2>8, Waits
  <2> QED BY <2>9 DEF d
<1>4. CASE due[l] # NoDue /\ holder \in Workers
  <2>1. at[holder] \in InRun /\ holder # Nobody
    BY <1>4, LockAssumption DEF OInv, HolderRuns, InRun, Procs
  <2>2. /\ timer[holder] \in 0..MaxRun
        /\ Away(holder) = MaxRun - timer[holder] + FAILURE_BACKOFF
        /\ Held = MaxRun - timer[holder] + LOCK_BUSY_RETRY
    BY <1>4, <2>1, AwayType, HeldType
  <2>3. Remedy <= Larger(Away(holder), Held) + MaxRun
    BY <2>2, Waits DEF Larger
  <2> QED BY <1>3, <1>4, <2>3
<1>5. CASE due[l] # NoDue /\ holder \notin Workers
  <2>1. PICK w \in Workers : TRUE
    BY RoomForOneFailure
  <2>2. Allowed(l) = 0
    BY <1>5 DEF Allowed
  <2> QED BY <1>3, <1>5, <2>1, <2>2
<1> QED BY <1>2, <1>4, <1>5

\* A step that leaves a due time alone keeps its layer within reach when what it adds to
\* the wait for a worker is allowed for, or paid for by a command's turn or a failure.
LEMMA Balance ==
    ASSUME OInv, TypeOK', faults <= 1, NEW l \in Layers, NEW w \in Workers,
           due[l] # NoDue, due'[l] = due[l],
           NEW gain \in Int, NEW turns \in Int, NEW spent \in Int,
           Larger(Away(w), Held)' <= Larger(Away(w), Held) + gain,
           Turns(Cardinality(ToCome))' <= Turns(Cardinality(ToCome)) - turns,
           Spare' = Spare - spent,
           gain - turns - spent <= Allowed(l)' - Allowed(l)
    PROVE  (Reach(w) <= due[l] + POLL_INTERVAL + Allowed(l))'
<1> DEFINE a == Larger(Away(w), Held)
           b == Turns(Cardinality(ToCome))
           c == Spare
           e == Allowed(l)
           d == due[l]
           a1 == a'
           b1 == b'
           e1 == e'
<1>1. a + b + MaxRun + c <= d + POLL_INTERVAL + e
  BY DEF OInv, WithinReach, Reach
<1>2. a \in Int /\ b \in Int /\ c \in Int /\ e \in Int
  <2>1. a \in Int
    BY AwayType, HeldType, Waits DEF Larger
  <2>2. b \in Int
    BY ComingType, TurnsBounded DEF OInv
  <2> QED BY <2>1, <2>2, SpareAllowedType, Waits
<1>3. d \in Int
  BY Waits DEF OInv, TypeOK, LongOverdue, NoDue
<1>4. a1 \in Int
  <2>1. timer'[w] \in Nat /\ (holder' # Nobody => timer'[holder'] \in Nat)
    BY Waits DEF TypeOK, Procs
  <2>2. Away(w)' \in Int /\ Held' \in Int
    BY <2>1, Waits DEF Away, Held
  <2> QED BY <2>2 DEF Larger
<1>5. b1 \in Int
  <2>1. (Cardinality(ToCome) \in 0..Cardinality(Commands))'
    <3>1. ToCome' \subseteq Commands
      BY DEF ToCome
    <3> QED BY <3>1, FS_Subset, FS_CardinalityType, RoomForOneFailure
  <2> QED BY <2>1, TurnsBounded
<1>6. e1 \in Int
  BY Waits DEF Allowed
<1> HIDE DEF a, b, c, d, e, a1, b1, e1
<1>7. a1 <= a + gain /\ b1 <= b - turns /\ gain - turns - spent <= e1 - e
  BY DEF a, b, e, a1, b1, e1
<1>8. a1 + b1 + MaxRun + (c - spent) <= d + POLL_INTERVAL + e1
  BY ONLY <1>1, <1>2, <1>3, <1>4, <1>5, <1>6, <1>7, Waits, gain \in Int, turns \in Int, spent \in Int
<1> QED BY <1>8 DEF Reach, a1, b1, c, d, e1, a, b, e

\* The end of an attempt sends its worker to sleep, leaves the others as they were, and
\* brings no command back.
LEMMA EndsAway ==
    ASSUME TypeOK, NEW p \in Procs, NEW delay, Ends(p, delay)
    PROVE  /\ \A w \in Workers : Away(w)' = IF w = p THEN delay ELSE Away(w)
           /\ ToCome' \subseteq ToCome
           /\ \A q \in Procs \ {p} : timer'[q] = timer[q] /\ todo'[q] = todo[q]
           /\ todo'[p] = {}
<1>1. ASSUME NEW w \in Workers PROVE Away(w)' = IF w = p THEN delay ELSE Away(w)
  <2>1. CASE w = p
    <3>1. at'[w] = "asleep" /\ timer'[w] = delay
      BY <2>1 DEF Ends, TypeOK
    <3> QED BY <2>1, <3>1 DEF Away
  <2>2. CASE w # p
    <3>1. at'[w] = at[w] /\ timer'[w] = timer[w]
      BY <2>2 DEF Ends, TypeOK, Procs
    <3> QED BY <2>2, <3>1 DEF Away
  <2> QED BY <2>1, <2>2
<1>2. ToCome' \subseteq ToCome
  BY DEF Ends, TypeOK, ToCome, Procs
<1>3. \A q \in Procs \ {p} : timer'[q] = timer[q] /\ todo'[q] = todo[q]
  BY DEF Ends, TypeOK
<1>4. todo'[p] = {}
  BY DEF Ends, TypeOK
<1> QED BY <1>1, <1>2, <1>3, <1>4

\* A step that moves a process within a run, or wakes it, changes the wait for no worker.
LEMMA MovesAway ==
    ASSUME TypeOK, NEW p \in Procs, NEW where, at' = [at EXCEPT ![p] = where], timer' = timer,
           \/ at[p] = "asleep" /\ timer[p] = 0 /\ where = "trying"
           \/ at[p] \in InRun /\ where \in InRun
           \/ p \in Commands /\ at[p] = "unstarted" /\ where = "trying"
    PROVE  /\ \A w \in Workers : Away(w)' = Away(w)
           /\ ToCome' \subseteq ToCome
<1>1. ASSUME NEW w \in Workers PROVE Away(w)' = Away(w)
  <2>1. CASE w = p
    <3>1. w \notin Commands /\ at'[w] = where /\ timer'[w] = timer[w]
      BY <2>1, LockAssumption DEF TypeOK
    <3> QED BY <2>1, <3>1 DEF Away, InRun
  <2>2. CASE w # p
    <3>1. at'[w] = at[w] /\ timer'[w] = timer[w]
      BY <2>2 DEF TypeOK, Procs
    <3> QED BY <3>1 DEF Away
  <2> QED BY <2>1, <2>2
<1>2. ToCome' \subseteq ToCome
  BY LockAssumption DEF TypeOK, ToCome, Procs, InRun, WorkerAt, CommandAt
<1> QED BY <1>1, <1>2

\* A fault is the one that was to come.
LEMMA FaultSpends ==
    ASSUME TypeOK, Fault, faults' <= 1
    PROVE  faults = 0 /\ faults' = 1 /\ Spare = Remedy /\ Spare' = 0
BY DEF Fault, TypeOK, Spare

LEMMA StepWithinReach == OInv /\ [Next]_vars => WithinReach'
<1> SUFFICES ASSUME OInv, [Next]_vars, faults' <= 1,
                    NEW l \in Layers, NEW w \in Workers, due'[l] # NoDue
             PROVE  (Reach(w) <= due[l] + POLL_INTERVAL + Allowed(l))'
  BY DEF WithinReach
<1> DEFINE Goal == (Reach(w) <= due[l] + POLL_INTERVAL + Allowed(l))'
<1>typed. TypeOK /\ TypeOK'
  BY StepTyped DEF OInv
<1>faults. faults \in Nat /\ (faults' = faults => faults <= 1)
  BY DEF OInv, TypeOK
<1>now. /\ Away(w) \in Nat /\ Held \in 0..Turn /\ Held \in Nat
        /\ Spare \in 0..Remedy /\ Allowed(l) \in 0..Remedy
        /\ Remedy \in Nat /\ Turn \in Nat
        /\ w \in Procs /\ w \notin Commands
  BY AwayType, HeldType, SpareAllowedType, Waits, LockAssumption DEF Procs
\* A step without a failure that neither adds to the wait nor takes from what is allowed.
<1>plain. ASSUME due' = due, faults' = faults, ToCome' \subseteq ToCome,
                 Away(w)' \in Int, Held' \in Int,
                 Away(w)' <= Larger(Away(w), Held), Held' <= Held, Allowed(l)' = Allowed(l)
          PROVE  Goal
  <2>1. Larger(Away(w), Held)' <= Larger(Away(w), Held) + 0
    <3>1. Larger(Away(w)', Held') <= Larger(Away(w), Held) + 0
      BY <1>now, <1>plain DEF Larger
    <3> QED BY <3>1
  <2>2. Turns(Cardinality(ToCome))' <= Turns(Cardinality(ToCome)) - 0
    <3>1. Turns(Cardinality(ToCome')) <= Turns(Cardinality(ToCome))
      BY <1>plain, <1>typed, ComingShrinks
    <3>2. Turns(Cardinality(ToCome)) \in Nat
      BY <1>typed, ComingType, TurnsBounded
    <3> QED BY <3>1, <3>2
  <2>3. Spare' = Spare - 0
    BY <1>plain, <1>now DEF Spare
  <2>4. 0 - 0 - 0 <= Allowed(l)' - Allowed(l)
    BY <1>plain, <1>now
  <2> QED BY <1>plain, <1>typed, <1>faults, <2>1, <2>2, <2>3, <2>4, Balance, 0 \in Int
\* A failure, which pays for whatever it adds or no longer allows.
<1>fault. ASSUME due' = due, Fault, ToCome' \subseteq ToCome, NEW gain \in 0..Remedy,
                 Away(w)' \in Int, Held' \in Int,
                 Away(w)' <= Away(w) + gain, Held' <= Held,
                 gain - Remedy <= Allowed(l)' - Allowed(l)
          PROVE  Goal
  <2>1. Larger(Away(w), Held)' <= Larger(Away(w), Held) + gain
    <3>1. Larger(Away(w)', Held') <= Larger(Away(w), Held) + gain
      BY <1>now, <1>fault DEF Larger
    <3> QED BY <3>1
  <2>2. Turns(Cardinality(ToCome))' <= Turns(Cardinality(ToCome)) - 0
    <3>1. Turns(Cardinality(ToCome')) <= Turns(Cardinality(ToCome))
      BY <1>fault, <1>typed, ComingShrinks
    <3>2. Turns(Cardinality(ToCome)) \in Nat
      BY <1>typed, ComingType, TurnsBounded
    <3> QED BY <3>1, <3>2
  <2>3. Spare' = Spare - Remedy /\ faults <= 1
    BY <1>fault, <1>now, <1>typed, FaultSpends
  <2>4. gain - 0 - Remedy <= Allowed(l)' - Allowed(l)
    BY <1>fault, <1>now
  <2>5. gain \in Int /\ Remedy \in Int /\ 0 \in Int
    BY <1>now
  <2> QED BY <1>fault, <1>typed, <2>1, <2>2, <2>3, <2>4, <2>5, Balance
<1>0. CASE UNCHANGED vars
  <2>1. Away(w)' = Away(w) /\ Held' = Held /\ Allowed(l)' = Allowed(l) /\ ToCome' = ToCome
    BY <1>0 DEF vars, runVars, Away, Held, Allowed, ToCome
  <2> QED BY <1>0, <1>now, <1>plain, <2>1 DEF vars, Larger
<1>1. ASSUME NEW p \in Procs, \/ p \in Workers /\ Wake(p)
                              \/ p \in Commands /\ StartCommand(p)
      PROVE  Goal
  <2>1. Away(w)' = Away(w) /\ ToCome' \subseteq ToCome
    BY <1>1, <1>typed, MovesAway DEF Wake, StartCommand
  <2>2. Held' = Held /\ Allowed(l)' = Allowed(l)
    BY <1>1 DEF Wake, StartCommand, runVars, Held, Allowed
  <2> QED BY <1>1, <1>now, <1>plain, <2>1, <2>2 DEF Wake, StartCommand, Larger
<1>2. ASSUME NEW p \in Procs, AcquireLock(p) PROVE Goal
  <2>1. Held = 0 /\ Allowed(l) = 0 /\ holder' = p /\ p # Nobody
    BY <1>2, LockAssumption DEF AcquireLock, Locks, Held, Allowed, Procs
  <2>2. timer'[p] = 0 /\ at'[p] = "polling"
    BY <1>2, <1>typed DEF AcquireLock, TypeOK
  <2>3. Held' = Turn
    BY <2>1, <2>2, Waits DEF Held
  <2>same. ASSUME w # p PROVE Away(w)' = Away(w)
    BY <1>2, <1>now, <1>typed, <2>same DEF AcquireLock, Away, TypeOK
  <2>4. CASE p \in Workers
    <3>1. Allowed(l)' = Remedy
      <4>1. todo'[p] = Layers
        BY <1>2, <1>typed, <2>4 DEF AcquireLock, TypeOK
      <4> QED BY <2>1, <2>4, <4>1 DEF Allowed
    <3>2. ToCome' = ToCome
      <4>1. p \notin Commands
        BY <2>4, LockAssumption
      <4> QED BY <1>2, <1>typed, <4>1 DEF AcquireLock, ToCome, TypeOK, Procs
    <3>3. Away(w)' \in Nat /\ Away(w)' <= Away(w) + Remedy
      <4>1. CASE w = p
        <5>1. Away(w)' = MaxRun - 0 + FAILURE_BACKOFF
          BY <2>2, <4>1 DEF Away, InRun
        <5> QED BY <5>1, <1>now, Waits
      <4> QED BY <2>same, <4>1, <1>now
    <3>4. Larger(Away(w), Held)' <= Larger(Away(w), Held) + Remedy
      <4>1. Turn <= Remedy
        BY Waits
      <4>2. Larger(Away(w)', Held') <= Larger(Away(w), Held) + Remedy
        BY <2>1, <2>3, <3>3, <4>1, <1>now DEF Larger
      <4> QED BY <4>2
    <3>5. Turns(Cardinality(ToCome))' <= Turns(Cardinality(ToCome)) - 0
      <4>1. Turns(Cardinality(ToCome)) \in Nat
        BY <1>typed, ComingType, TurnsBounded
      <4> QED BY <3>2, <4>1
    <3>6. Spare' = Spare - 0 /\ due' = due /\ faults' = faults
      BY <1>2, <1>now DEF AcquireLock, Spare
    <3>7. Remedy - 0 - 0 <= Allowed(l)' - Allowed(l)
      BY <2>1, <3>1, <1>now
    <3>8. Remedy \in Int /\ 0 \in Int
      BY <1>now
    <3> QED BY <1>typed, <1>faults, <3>4, <3>5, <3>6, <3>7, <3>8, Balance
  <2>5. CASE p \in Commands
    <3>1. Allowed(l)' = 0
      <4>1. p \notin Workers
        BY <2>5, LockAssumption
      <4> QED BY <2>1, <4>1 DEF Allowed
    <3>2. Turns(Cardinality(ToCome))' = Turns(Cardinality(ToCome)) - Turn
      <4>1. p \in ToCome
        BY <1>2, <2>5 DEF AcquireLock, ToCome
      <4>2. ToCome' = ToCome \ {p}
        BY <1>2, <1>typed DEF AcquireLock, ToCome, TypeOK, Procs
      <4>3. Turns(Cardinality(ToCome)) = Turns(Cardinality(ToCome')) + Turn
        BY <1>typed, <4>1, <4>2, ComingLoses
      <4>4. Turns(Cardinality(ToCome)) \in Nat
        BY <1>typed, ComingType, TurnsBounded
      <4>5. Turns(Cardinality(ToCome')) \in Int
        <5>1. ToCome' \subseteq ToCome
          BY <4>2
        <5>2. Cardinality(ToCome') \in 0..Cardinality(Commands)
          BY <1>typed, <5>1, ComingType, FS_Subset, FS_CardinalityType, RoomForOneFailure
        <5> QED BY <5>2, TurnsBounded
      <4> QED BY <1>now, <4>3, <4>4, <4>5
    <3>3. Away(w)' = Away(w)
      BY <1>now, <2>5, <2>same
    <3>4. Larger(Away(w), Held)' <= Larger(Away(w), Held) + Turn
      <4>1. Larger(Away(w)', Held') <= Larger(Away(w), Held) + Turn
        BY <2>1, <2>3, <3>3, <1>now DEF Larger
      <4> QED BY <4>1
    <3>5. Spare' = Spare - 0 /\ due' = due /\ faults' = faults
      BY <1>2, <1>now DEF AcquireLock, Spare
    <3>6. Turn - Turn - 0 <= Allowed(l)' - Allowed(l)
      BY <2>1, <3>1, <1>now
    <3>7. Turns(Cardinality(ToCome))' <= Turns(Cardinality(ToCome)) - Turn
      <4>1. Turns(Cardinality(ToCome)) \in Nat
        BY <1>typed, ComingType, TurnsBounded
      <4> QED BY <1>now, <3>2, <4>1
    <3>8. Turn \in Int /\ 0 \in Int
      BY <1>now
    <3> QED BY <1>typed, <1>faults, <3>4, <3>5, <3>6, <3>7, <3>8, Balance
  <2> QED BY <2>4, <2>5 DEF Procs
\* What the end of another process's attempt leaves alone.
<1>other. ASSUME NEW p \in Procs, NEW delay, Ends(p, delay), holder' = holder, holder # p
          PROVE  Held' = Held /\ Allowed(l)' = Allowed(l)
  <2>1. holder # Nobody => timer'[holder] = timer[holder] /\ todo'[holder] = todo[holder]
    BY <1>other, <1>typed, EndsAway DEF TypeOK
  <2> QED BY <1>other, <2>1, LockAssumption DEF Held, Allowed, Procs
<1>3. ASSUME NEW p \in Procs, Refused(p) PROVE Goal
  <2>1. Ends(p, LOCK_BUSY_RETRY) /\ holder' = holder /\ due' = due /\ faults' = faults
    BY <1>3 DEF Refused
  <2>2. holder # p /\ holder # Nobody
    BY <1>3, LockAssumption DEF Refused, OInv, HolderRuns
  <2>3. LOCK_BUSY_RETRY <= Held
    BY <2>2, HeldType, Waits
  <2>4. Away(w)' = IF w = p THEN LOCK_BUSY_RETRY ELSE Away(w)
    BY <1>typed, <2>1, EndsAway
  <2>5. Away(w)' \in Int /\ Away(w)' <= Larger(Away(w), Held)
    BY <1>now, <2>3, <2>4, Waits DEF Larger
  <2>6. Held' = Held /\ Allowed(l)' = Allowed(l) /\ ToCome' \subseteq ToCome
    BY <1>other, <1>typed, <2>1, <2>2, EndsAway
  <2> QED BY <1>now, <1>plain, <2>1, <2>5, <2>6
<1>4. ASSUME NEW p \in Procs, ConnectFails(p) PROVE Goal
  <2>1. Ends(p, FAILURE_BACKOFF) /\ holder' = holder /\ due' = due /\ Fault
    BY <1>4 DEF ConnectFails
  <2>2. holder # p
    BY <1>4, LockAssumption DEF ConnectFails, OInv, HolderRuns, Procs
  <2>3. Away(w)' = IF w = p THEN FAILURE_BACKOFF ELSE Away(w)
    BY <1>typed, <2>1, EndsAway
  <2>4. Away(w)' \in Int /\ Away(w)' <= Away(w) + Remedy
    BY <1>now, <2>3, Waits
  <2>5. Held' = Held /\ Allowed(l)' = Allowed(l) /\ ToCome' \subseteq ToCome
    BY <1>other, <1>typed, <2>1, <2>2, EndsAway
  <2>6. Remedy - Remedy <= Allowed(l)' - Allowed(l) /\ Remedy \in 0..Remedy
    BY <1>now, <2>5
  <2> QED BY <1>now, <1>fault, <2>1, <2>4, <2>5, <2>6
<1>5. ASSUME NEW p \in Procs, CutShort(p) PROVE Goal
  <2>1. Ends(p, FAILURE_BACKOFF) /\ holder' = holder /\ due' = due /\ faults' = faults
    BY <1>5 DEF CutShort
  <2>2. holder # p
    BY <1>5, LockAssumption DEF CutShort, OInv, HolderRuns, Procs
  <2>3. Away(w)' = IF w = p THEN FAILURE_BACKOFF ELSE Away(w)
    BY <1>typed, <2>1, EndsAway
  <2>4. w = p => FAILURE_BACKOFF <= Away(w)
    BY <1>5, AwayType, Waits DEF CutShort, InRun
  <2>5. Away(w)' \in Int /\ Away(w)' <= Larger(Away(w), Held)
    BY <1>now, <2>3, <2>4, Waits DEF Larger
  <2>6. Held' = Held /\ Allowed(l)' = Allowed(l) /\ ToCome' \subseteq ToCome
    BY <1>other, <1>typed, <2>1, <2>2, EndsAway
  <2> QED BY <1>now, <1>plain, <2>1, <2>5, <2>6
\* Once the lock is let go nobody is held up and nothing is allowed for.
<1>free. ASSUME holder' = Nobody PROVE Held' = 0 /\ Allowed(l)' = 0
  BY <1>free, LockAssumption DEF Held, Allowed, Procs
<1>6. ASSUME NEW p \in Procs, Finish(p) PROVE Goal
  <2>1. holder = p /\ holder' = Nobody /\ due' = due /\ faults' = faults /\ todo[p] = {}
    BY <1>6, HolderOfRun DEF Finish, Released
  <2>2. Held' = 0 /\ Allowed(l)' = 0 /\ Allowed(l) = 0
    BY <1>free, <2>1 DEF Allowed
  <2>3. PICK k \in Layers :
          Ends(p, IF failed[p] THEN FAILURE_BACKOFF ELSE DelayAfterSuccess(due[k]))
    BY <1>6 DEF Finish
  <2> DEFINE delay == IF failed[p] THEN FAILURE_BACKOFF ELSE DelayAfterSuccess(due[k])
  <2>4. Away(w)' = (IF w = p THEN delay ELSE Away(w)) /\ ToCome' \subseteq ToCome
    BY <1>typed, <2>3, EndsAway
  <2>5. CASE w # p \/ failed[p]
    <3>1. w = p => FAILURE_BACKOFF <= Away(w)
      BY <1>6, AwayType, Waits DEF Finish, InRun
    <3>2. Away(w)' \in Int /\ Away(w)' <= Larger(Away(w), Held)
      BY <1>now, <2>4, <2>5, <3>1, Waits DEF Larger
    <3> QED BY <1>now, <1>plain, <2>1, <2>2, <2>4, <3>2
  <2>6. CASE w = p /\ ~failed[p]
    <3>1. /\ timer[p] \in 0..MaxRun
          /\ due[l] = POLL_INTERVAL - timer[p] /\ due[k] = POLL_INTERVAL - timer[p]
      BY <1>6, <2>1, <2>6, AwayType DEF Finish, OInv, SetByRun, InRun
    <3>2. Away(w)' = DelayAfterSuccess(POLL_INTERVAL - timer[p])
      BY <2>4, <2>6, <3>1
    <3>3. Away(w)' \in Nat /\ (\/ Away(w)' <= POLL_INTERVAL - timer[p]
                               \/ Away(w)' <= MIN_DELAY)
      BY <3>1, <3>2, Waits DEF DelayAfterSuccess, Larger, Smaller
    <3>4. Larger(Away(w), Held)' = Away(w)'
      <4>1. Larger(Away(w)', Held') = Away(w)'
        BY <2>2, <3>3 DEF Larger
      <4> QED BY <4>1
    <3>5. Spare' \in 0..Remedy
      BY <1>now DEF Spare
    <3>6. Cardinality(ToCome') \in 0..Cardinality(Commands)
      BY <1>typed, <2>4, ComingType, FS_Subset, FS_CardinalityType, RoomForOneFailure
    <3> DEFINE turns == Turns(Cardinality(ToCome'))
               away == Away(w)'
               spare == Spare'
               t == timer[p]
    <3>7. /\ turns \in Nat
          /\ MaxRun + MIN_DELAY + turns + MaxRun <= POLL_INTERVAL
          /\ MaxRun + FAILURE_BACKOFF + turns + MaxRun <= POLL_INTERVAL
          /\ MaxRun + LOCK_BUSY_RETRY + turns + MaxRun <= POLL_INTERVAL
      BY <3>6, TurnsBounded
    <3>8. /\ away \in Nat /\ (away <= POLL_INTERVAL - t \/ away <= MIN_DELAY)
          /\ spare \in 0..Remedy /\ t \in 0..MaxRun
      BY <3>1, <3>3, <3>5
    <3> HIDE DEF turns, away, spare, t
    <3>9. away + turns + MaxRun + spare <= (POLL_INTERVAL - t) + POLL_INTERVAL
      BY ONLY <3>7, <3>8, Waits
    <3>10. Reach(w)' = away + turns + MaxRun + spare
      BY <3>4 DEF Reach, turns, away, spare
    <3>11. (due[l] + POLL_INTERVAL + Allowed(l))' = (POLL_INTERVAL - t) + POLL_INTERVAL + 0
      BY <2>1, <2>2, <3>1 DEF t
    <3>12. (POLL_INTERVAL - t) + POLL_INTERVAL \in Int
      BY <3>8, Waits
    <3> QED BY <3>9, <3>10, <3>11, <3>12
  <2> QED BY <2>5, <2>6
\* A step within a run that leaves every due time but perhaps one alone.
<1>within. ASSUME NEW p \in Procs, holder = p, at[p] \in InRun,
                  NEW where \in InRun, at' = [at EXCEPT ![p] = where],
                  timer' = timer, holder' = holder
           PROVE  Away(w)' = Away(w) /\ Held' = Held /\ ToCome' \subseteq ToCome
  <2>1. Away(w)' = Away(w) /\ ToCome' \subseteq ToCome
    BY <1>within, <1>typed, MovesAway
  <2>2. Held' = Held
    BY <1>within DEF Held
  <2> QED BY <2>1, <2>2
<1>7. ASSUME NEW p \in Procs, NEW k \in Layers, PollLayer(p, k) PROVE Goal
  <2>1. /\ holder = p /\ at[p] = "polling" /\ timer' = timer /\ holder' = holder
        /\ faults' = faults /\ p # Nobody
        /\ todo' = [todo EXCEPT ![p] = @ \ {k}]
        /\ due' = [due EXCEPT ![k] = POLL_INTERVAL - timer[p]]
    BY <1>7, HolderOfRun, LockAssumption DEF PollLayer
  <2>2. Away(w)' = Away(w) /\ Held' = Held /\ ToCome' \subseteq ToCome
    <3>1. CASE at' = at
      <4>1. at' = [at EXCEPT ![p] = "polling"]
        BY <1>typed, <2>1, <3>1 DEF TypeOK
      <4> QED BY <1>within, <2>1, <4>1 DEF InRun
    <3>2. CASE at' = [at EXCEPT ![p] = "filling"]
      BY <1>within, <2>1, <3>2 DEF InRun
    <3> QED BY <1>7, <3>1, <3>2 DEF PollLayer
  <2>3. CASE l # k
    <3>1. due'[l] = due[l] /\ (l \in todo'[p] <=> l \in todo[p])
      BY <1>typed, <2>1, <2>3 DEF TypeOK
    <3>2. Allowed(l)' = Allowed(l)
      BY <2>1, <3>1 DEF Allowed
    <3>3. Larger(Away(w), Held)' <= Larger(Away(w), Held) + 0
      <4>1. Larger(Away(w)', Held') <= Larger(Away(w), Held) + 0
        BY <1>now, <2>2 DEF Larger
      <4> QED BY <4>1
    <3>4. Turns(Cardinality(ToCome))' <= Turns(Cardinality(ToCome)) - 0
      <4>1. Turns(Cardinality(ToCome')) <= Turns(Cardinality(ToCome))
        BY <1>typed, <2>2, ComingShrinks
      <4>2. Turns(Cardinality(ToCome)) \in Nat
        BY <1>typed, ComingType, TurnsBounded
      <4> QED BY <4>1, <4>2
    <3>5. Spare' = Spare - 0
      BY <1>now, <2>1 DEF Spare
    <3>6. 0 - 0 - 0 <= Allowed(l)' - Allowed(l)
      BY <1>now, <3>2
    <3> QED BY <1>typed, <1>faults, <2>1, <3>1, <3>3, <3>4, <3>5, <3>6, Balance, 0 \in Int
  <2>4. CASE l = k
    <3>1. due'[l] = POLL_INTERVAL - timer[p] /\ Allowed(l)' = 0
      BY <1>typed, <2>1, <2>4 DEF TypeOK, Allowed
    <3>2. timer[p] \in 0..MaxRun /\ Held = MaxRun - timer[p] + LOCK_BUSY_RETRY
      BY <2>1, HeldType
    <3>3. \/ Away(w) <= POLL_INTERVAL - timer[p]
          \/ Away(w) <= MaxRun + LongerWait
      <4>1. CASE at[w] = "asleep"
        <5>1. Away(w) = timer[w] /\ timer[w] <= Larger(POLL_INTERVAL - timer[p], LongerWait)
          BY <2>1, <4>1 DEF OInv, SleptBefore, Away
        <5>2. LongerWait \in Nat
          BY Waits
        <5> QED BY <1>now, <3>2, <5>1, <5>2, Waits DEF Larger
      <4>2. CASE at[w] \in InRun
        BY <4>2, AwayType, Waits
      <4>3. CASE at[w] # "asleep" /\ at[w] \notin InRun
        BY <4>3, Waits DEF Away
      <4> QED BY <4>1, <4>2, <4>3
    <3> DEFINE turns == Turns(Cardinality(ToCome'))
               away == Away(w)
               held == Held
               spare == Spare'
               t == timer[p]
    <3>4. /\ turns \in Nat
          /\ MaxRun + FAILURE_BACKOFF + turns + MaxRun <= POLL_INTERVAL
          /\ MaxRun + LOCK_BUSY_RETRY + turns + MaxRun <= POLL_INTERVAL
      <4>1. Cardinality(ToCome') \in 0..Cardinality(Commands)
        BY <1>typed, <2>2, ComingType, FS_Subset, FS_CardinalityType, RoomForOneFailure
      <4> QED BY <4>1, TurnsBounded
    <3>5. /\ away \in Nat /\ (away <= POLL_INTERVAL - t \/ away <= MaxRun + LongerWait)
          /\ held = MaxRun - t + LOCK_BUSY_RETRY
          /\ spare \in 0..Remedy /\ t \in 0..MaxRun
      <4>1. Spare' \in 0..Remedy
        BY <1>now DEF Spare
      <4> QED BY <1>now, <3>2, <3>3, <4>1
    <3> HIDE DEF turns, away, spare, t, held
    <3>6. Larger(away, held) + turns + MaxRun + spare <= (POLL_INTERVAL - t) + POLL_INTERVAL
      BY ONLY <3>4, <3>5, Waits DEF Larger
    <3>7. Reach(w)' = Larger(away, held) + turns + MaxRun + spare
      <4>1. Reach(w)' = Larger(Away(w)', Held') + turns + MaxRun + spare
        BY DEF Reach, turns, spare
      <4> QED BY <2>2, <4>1 DEF away, held
    <3>8. (due[l] + POLL_INTERVAL + Allowed(l))' = (POLL_INTERVAL - t) + POLL_INTERVAL + 0
      BY <3>1 DEF t
    <3>9. (POLL_INTERVAL - t) + POLL_INTERVAL \in Int
      BY <3>5, Waits
    <3> QED BY <3>6, <3>7, <3>8, <3>9
  <2> QED BY <2>3, <2>4
<1>8. ASSUME NEW c \in Commands, NEW k \in Layers, ReloadLayer(c, k) PROVE Goal
  <2>1. /\ holder = c /\ at[c] = "polling" /\ timer' = timer /\ holder' = holder
        /\ faults' = faults /\ due' = due /\ at' = [at EXCEPT ![c] = "filling"]
        /\ c \in Procs /\ c \notin Workers
    BY <1>8, HolderOfRun, LockAssumption DEF ReloadLayer, Procs
  <2>2. Away(w)' = Away(w) /\ Held' = Held /\ ToCome' \subseteq ToCome
    BY <1>within, <2>1 DEF InRun
  <2>3. Allowed(l)' = Allowed(l)
    BY <2>1 DEF Allowed
  <2> QED BY <1>now, <1>plain, <2>1, <2>2, <2>3 DEF Larger
<1>9. ASSUME NEW p \in Procs, SwapIn(p) PROVE Goal
  <2>1. holder = p
    BY <1>9, HolderOfRun DEF SwapIn
  <2>2. Away(w)' = Away(w) /\ Held' = Held /\ ToCome' \subseteq ToCome
    BY <1>9, <1>within, <2>1 DEF SwapIn, InRun
  <2>3. Allowed(l)' = Allowed(l)
    BY <1>9 DEF SwapIn, runVars, Allowed
  <2> QED BY <1>9, <1>now, <1>plain, <2>2, <2>3 DEF SwapIn, Larger
<1>allowed. Allowed(l)' \in 0..Remedy
  BY <1>now DEF Allowed
<1>10. ASSUME NEW p \in Procs, LayerFails(p) PROVE Goal
  <2>1. holder = p
    BY <1>10, HolderOfRun DEF LayerFails
  <2>2. Away(w)' = Away(w) /\ Held' = Held /\ ToCome' \subseteq ToCome
    BY <1>10, <1>within, <2>1 DEF LayerFails, InRun
  <2>3. 0 - Remedy <= Allowed(l)' - Allowed(l) /\ 0 \in 0..Remedy
    BY <1>now, <1>allowed
  <2> QED BY <1>10, <1>now, <1>fault, <2>2, <2>3 DEF LayerFails
<1>11. ASSUME NEW p \in Procs, Raises(p) PROVE Goal
  <2>1. /\ holder = p /\ holder' = Nobody /\ due' = due /\ Fault
        /\ Ends(p, FAILURE_BACKOFF) /\ at[p] \in InRun
    BY <1>11, HolderOfRun DEF Raises, Released, InRun
  <2>2. Held' = 0
    BY <1>free, <2>1
  <2>3. Away(w)' = (IF w = p THEN FAILURE_BACKOFF ELSE Away(w)) /\ ToCome' \subseteq ToCome
    BY <1>typed, <2>1, EndsAway
  <2>4. w = p => FAILURE_BACKOFF <= Away(w)
    BY <2>1, AwayType, Waits
  <2>5. 0 - Remedy <= Allowed(l)' - Allowed(l) /\ 0 \in 0..Remedy
    BY <1>now, <1>allowed
  <2>6. Away(w)' \in Int /\ Away(w)' <= Away(w) + 0
    BY <1>now, <2>3, <2>4, Waits
  <2> QED BY <1>now, <1>fault, <2>1, <2>2, <2>3, <2>5, <2>6
<1>12. ASSUME NEW p \in Procs, SessionLost(p) PROVE Goal
  <2>1. /\ holder = p /\ holder' = Nobody /\ due' = due /\ Fault /\ at[p] \in InRun
        /\ at' = [at EXCEPT ![p] = "cut"] /\ timer' = timer
    BY <1>12, HolderOfRun DEF SessionLost, Released, InRun
  <2>2. Held' = 0
    BY <1>free, <2>1
  <2>3. Away(w)' = Away(w) /\ ToCome' \subseteq ToCome
    BY <1>typed, <2>1, MovesAway DEF InRun
  <2>4. 0 - Remedy <= Allowed(l)' - Allowed(l) /\ 0 \in 0..Remedy
    BY <1>now, <1>allowed
  <2> QED BY <1>now, <1>fault, <2>1, <2>2, <2>3, <2>4
<1>13. ASSUME NEW p \in Procs, Killed(p) PROVE Goal
  <2>1. due' = due /\ Fault /\ Ends(p, 0) /\ holder' = Released(p)
    BY <1>13 DEF Killed
  <2>2. Held' \in Int /\ Held' <= Held
    <3>1. CASE holder = p
      <4>1. Held' = 0
        BY <1>free, <2>1, <3>1 DEF Released
      <4> QED BY <1>now, <4>1
    <3>2. CASE holder # p
      BY <1>now, <1>other, <2>1, <3>2 DEF Released
    <3> QED BY <3>1, <3>2
  <2>3. Away(w)' = (IF w = p THEN 0 ELSE Away(w)) /\ ToCome' \subseteq ToCome
    BY <1>typed, <2>1, EndsAway
  <2>4. 0 - Remedy <= Allowed(l)' - Allowed(l) /\ 0 \in 0..Remedy
    BY <1>now, <1>allowed
  <2>5. Away(w)' \in Int /\ Away(w)' <= Away(w) + 0
    BY <1>now, <2>3
  <2> QED BY <1>now, <1>fault, <2>1, <2>2, <2>3, <2>4, <2>5
<1>14. ASSUME Tick PROVE Goal
  <2>1. faults' = faults /\ Spare' = Spare /\ Allowed(l)' = Allowed(l) /\ ToCome' = ToCome
    BY <1>14 DEF Tick, runVars, Spare, Allowed, ToCome
  <2>2. due[l] # NoDue /\ due'[l] = due[l] - 1
    <3>1. due[l] >= -POLL_INTERVAL
      BY <1>faults, <2>1, ReachIsEnough DEF OneFailureIsNotOverdue
    <3>2. due[l] # LongOverdue
      BY <3>1, Waits DEF LongOverdue
    <3>3. due'[l] = IF due[l] \in {NoDue, LongOverdue} THEN due[l] ELSE due[l] - 1
      BY <1>14 DEF Tick
    <3> QED BY <3>2, <3>3
  <2>3. Away(w) >= 1 /\ Away(w)' = Away(w) - 1
    <3>1. CASE at[w] = "asleep"
      <4>1. timer'[w] = timer[w] - 1 /\ at'[w] = "asleep" /\ timer[w] > 0 /\ timer[w] \in Nat
        BY <1>14, <1>now, <1>typed, <3>1 DEF Tick, TypeOK
      <4> QED BY <3>1, <4>1 DEF Away
    <3>2. CASE at[w] \in InRun
      <4>1. /\ timer'[w] = timer[w] + 1 /\ at'[w] = at[w] /\ timer[w] < MaxRun
            /\ at[w] # "asleep"
        BY <1>14, <1>now, <3>2 DEF Tick, InRun
      <4>2. timer[w] \in Nat /\ FAILURE_BACKOFF >= 1 /\ MaxRun \in Nat /\ FAILURE_BACKOFF \in Nat
        BY <1>now, <1>typed, PollIntervalType DEF TypeOK
      <4>3. /\ Away(w) = MaxRun - timer[w] + FAILURE_BACKOFF
            /\ Away(w)' = MaxRun - (timer[w] + 1) + FAILURE_BACKOFF
        BY <3>2, <4>1 DEF Away
      <4> QED BY <4>1, <4>2, <4>3
    <3>3. at[w] = "asleep" \/ at[w] \in InRun
      <4>1. at[w] \in WorkerAt /\ at[w] # "trying"
        BY <1>14, <1>now, <1>typed DEF Tick, TypeOK
      <4> QED BY <4>1 DEF WorkerAt, InRun
    <3> QED BY <3>1, <3>2, <3>3
  <2>4. \/ Held = 0 /\ Held' = 0
        \/ Held' = Held - 1
    <3>1. CASE holder = Nobody
      BY <1>14, <3>1 DEF Tick, Held
    <3>2. CASE holder # Nobody
      <4>1. timer'[holder] = timer[holder] + 1 /\ holder' = holder
        BY <1>14, <1>typed, <3>2 DEF Tick, OInv, HolderRuns, TypeOK, InRun
      <4> QED BY <3>2, <4>1, HeldType, Waits DEF Held
    <3> QED BY <3>1, <3>2
  <2>5. Larger(Away(w)', Held') = Larger(Away(w), Held) - 1
    BY <1>now, <2>3, <2>4 DEF Larger
  <2>6. Reach(w) <= due[l] + POLL_INTERVAL + Allowed(l)
    BY <1>faults, <2>1, <2>2 DEF OInv, WithinReach
  <2> DEFINE larger == Larger(Away(w), Held)
             turns == Turns(Cardinality(ToCome))
             spare == Spare
             allowed == Allowed(l)
             d == due[l]
  <2>7. /\ larger \in Int /\ turns \in Int /\ spare \in Int /\ allowed \in Int /\ d \in Int
        /\ MaxRun \in Int /\ POLL_INTERVAL \in Int
    <3>1. larger \in Int
      BY <1>now DEF Larger
    <3>2. turns \in Int
      BY <1>typed, ComingType, TurnsBounded
    <3>3. d \in Int
      BY <1>typed, Waits DEF TypeOK, LongOverdue, NoDue
    <3> QED BY <1>now, <3>1, <3>2, <3>3, Waits
  <2>8. larger + turns + MaxRun + spare <= d + POLL_INTERVAL + allowed
    BY <2>6 DEF Reach
  <2>9. Reach(w)' = (larger - 1) + turns + MaxRun + spare
    <3>1. Reach(w)' = Larger(Away(w)', Held') + Turns(Cardinality(ToCome')) + MaxRun + Spare'
      BY DEF Reach
    <3> QED BY <2>1, <2>5, <3>1
  <2>10. (due[l] + POLL_INTERVAL + Allowed(l))' = (d - 1) + POLL_INTERVAL + allowed
    BY <2>1, <2>2
  <2> HIDE DEF larger, turns, spare, allowed, d
  <2>11. (larger - 1) + turns + MaxRun + spare <= (d - 1) + POLL_INTERVAL + allowed
    BY <2>7, <2>8
  <2> QED BY <2>9, <2>10, <2>11
<1> QED
  BY <1>0, <1>1, <1>2, <1>3, <1>4, <1>5, <1>6, <1>7, <1>8, <1>9, <1>10, <1>11, <1>12,
     <1>13, <1>14
  DEF Next, Step, Goes, Procs

\* One failure of any kind, at any point, does not turn the banner to overdue, for any
\* number of workers and any commands the intervals leave room for: the promise that
\* worker.py's back-off and retry are short enough to keep.
THEOREM NotOverdueAfterOneFailure == Spec => []OneFailureIsNotOverdue
<1>1. Init => OInv
  <2> SUFFICES ASSUME Init PROVE OInv
    OBVIOUS
  <2>1. TypeOK /\ RunHoldsLock
    BY InitTyped DEF Init, RunHoldsLock, Procs
  <2>2. HolderRuns /\ RunTimed /\ SetByRun /\ SleptBefore
    BY DEF Init, HolderRuns, RunTimed, SetByRun, SleptBefore, Procs, InRun
  <2>3. WithinReach
    BY DEF Init, WithinReach
  <2> QED BY <2>1, <2>2, <2>3 DEF OInv
<1>2. OInv /\ [Next]_vars => OInv'
  <2>1. OInv /\ [Next]_vars => RunHoldsLock'
    BY StepHoldsLock DEF OInv
  <2> QED BY <2>1, StepTyped, StepHolderRuns, StepRunTimed, StepSetByRun, StepSleptBefore,
             StepWithinReach DEF OInv
<1>3. OInv => OneFailureIsNotOverdue
  BY ReachIsEnough
<1> QED BY <1>1, <1>2, <1>3, PTL DEF Spec
================================================================================
