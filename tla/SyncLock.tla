------------------------------- MODULE SyncLock --------------------------------
(***************************************************************************)
(* Who runs, and when: the sync lock (sync_lock in src/mirror/db.py), the       *)
(* scheduled workers that take it for one run and sleep (src/mirror/worker.py), *)
(* and the commands run by hand that take it or give up (main() of              *)
(* src/mirror/sync.py and load.py).  There may be several workers, as when a    *)
(* deployment overlaps the one before it.  Time is discrete and relative:       *)
(* every timer counts ticks, and a step that is due is taken before the next    *)
(* tick.                                                                        *)
(***************************************************************************)
EXTENDS Integers, FiniteSets

CONSTANTS
    Workers, Commands,  \* the processes; each command is run at most once
    Layers,
    Nobody,
    MIN_DELAY, FAILURE_BACKOFF, LOCK_BUSY_RETRY, POLL_INTERVAL,  \* in ticks
    MaxRun,     \* bound: the ticks a run lasts
    MaxFaults   \* bound: failed layers, exceptions, lost sessions and killed processes

Procs == Workers \union Commands

\* A due time that was never recorded sorts after every one that was.
NoDue == POLL_INTERVAL + 1

\* NEXT_UPDATE_GRACE_PERIOD, past which a due time is not counted any further.
LongOverdue == -(POLL_INTERVAL + 1)

ASSUME LockAssumption ==
    /\ Workers \cap Commands = {}
    /\ Nobody \notin Procs
    /\ Layers # {}
    /\ {MIN_DELAY, FAILURE_BACKOFF, LOCK_BUSY_RETRY, POLL_INTERVAL} \subseteq Nat \ {0}
    /\ \A d \in {MIN_DELAY, FAILURE_BACKOFF, LOCK_BUSY_RETRY, MaxRun} : d <= POLL_INTERVAL
    /\ MaxRun \in Nat
    /\ MaxFaults \in Nat

\* What the sleeps leave of a day (of the real figures: a day, an hour and twice five
\* minutes): a run before a failure, the wait after it and the run that makes up for
\* it, and between them every command once, each with the wait of the worker it held up.
ASSUME RoomForOneFailure ==
    /\ Workers # {}
    /\ IsFiniteSet(Commands)
    /\ \A wait \in {MIN_DELAY, FAILURE_BACKOFF, LOCK_BUSY_RETRY} :
         MaxRun + wait + Cardinality(Commands) * (MaxRun + LOCK_BUSY_RETRY) + MaxRun
           <= POLL_INTERVAL

VARIABLES
    at,      \* where each process is
    timer,   \* asleep: the ticks left to sleep; in a run: the ticks it has lasted
    todo,    \* the layers each run has still to attempt
    failed,  \* whether a layer of the run failed
    holder,  \* the process whose session holds the advisory lock
    staged,  \* the run that last prepared a staging copy; Nobody once it is swapped in
    due,     \* the ticks until each layer's next_due_at
    faults

runVars == <<todo, failed>>
vars == <<at, timer, runVars, holder, staged, due, faults>>

\* A worker's process outlives whatever happens in a cycle; a command's ends with it.
WorkerAt == {"asleep", "trying", "polling", "filling", "cut"}
CommandAt == (WorkerAt \ {"asleep"}) \union {"unstarted", "gone"}
InRun == {"polling", "filling", "cut"}

TypeOK ==
    /\ at \in [Procs -> WorkerAt \union CommandAt]
    /\ \A w \in Workers : at[w] \in WorkerAt
    /\ \A c \in Commands : at[c] \in CommandAt
    /\ timer \in [Procs -> 0..POLL_INTERVAL]
    /\ todo \in [Procs -> SUBSET Layers]
    /\ failed \in [Procs -> BOOLEAN]
    /\ holder \in Procs \union {Nobody}
    /\ staged \in Procs \union {Nobody}
    /\ due \in [Layers -> LongOverdue..NoDue]
    /\ faults \in 0..MaxFaults

\* The workers are deployed at any time from now on.
Init ==
    /\ at = [p \in Procs |-> IF p \in Workers THEN "asleep" ELSE "unstarted"]
    /\ timer \in {t \in [Procs -> 0..POLL_INTERVAL] : \A c \in Commands : t[c] = 0}
    /\ todo = [p \in Procs |-> {}]
    /\ failed = [p \in Procs |-> FALSE]
    /\ holder = Nobody
    /\ staged = Nobody
    /\ due = [l \in Layers |-> NoDue]
    /\ faults = 0

Fault == faults < MaxFaults /\ faults' = faults + 1

\* The end of p's attempt, by whatever path: the worker sleeps, the command exits.
Ends(p, delay) ==
    /\ at' = [at EXCEPT ![p] = IF p \in Workers THEN "asleep" ELSE "gone"]
    /\ timer' = [timer EXCEPT ![p] = IF p \in Workers THEN delay ELSE 0]
    /\ todo' = [todo EXCEPT ![p] = {}]
    /\ failed' = [failed EXCEPT ![p] = FALSE]

\* Postgres releases a session's lock when the session ends.
Released(p) == IF holder = p THEN Nobody ELSE holder

--------------------------------------------------------------------------------
(* Taking the lock. *)

Wake(w) ==
    /\ at[w] = "asleep"
    /\ timer[w] = 0
    /\ at' = [at EXCEPT ![w] = "trying"]
    /\ UNCHANGED <<timer, runVars, holder, staged, due, faults>>

StartCommand(c) ==
    /\ at[c] = "unstarted"
    /\ at' = [at EXCEPT ![c] = "trying"]
    /\ UNCHANGED <<timer, runVars, holder, staged, due, faults>>

\* Mutant of Locks: a transaction-level lock, gone at the commit that follows.
LocksForTransaction(p) == Nobody

\* The session holds the lock from pg_try_advisory_lock on, commits and all.
Locks(p) == p

\* A worker attempts every layer, sync.py those of --layer; load.py polls none and fills
\* no staging copy.
AcquireLock(p) ==
    /\ at[p] = "trying"
    /\ holder = Nobody
    /\ holder' = Locks(p)
    /\ \E layers \in IF p \in Workers THEN {Layers} ELSE SUBSET Layers :
         todo' = [todo EXCEPT ![p] = layers]
    /\ at' = [at EXCEPT ![p] = "polling"]
    /\ timer' = [timer EXCEPT ![p] = 0]
    /\ UNCHANGED <<failed, staged, due, faults>>

\* Mutant of Refused: nothing catches SyncInProgress in the worker either.
RefusedEnds(p) ==
    /\ at[p] = "trying"
    /\ holder # Nobody
    /\ at' = [at EXCEPT ![p] = "gone"]
    /\ UNCHANGED <<timer, runVars, holder, staged, due, faults>>

\* Mutant of Refused: the worker waits a whole interval for its next opportunity.
RefusedSleepsInterval(p) ==
    /\ at[p] = "trying"
    /\ holder # Nobody
    /\ Ends(p, POLL_INTERVAL)
    /\ UNCHANGED <<holder, staged, due, faults>>

\* SyncInProgress: the worker looks again later, the command exits 75.
Refused(p) ==
    /\ at[p] = "trying"
    /\ holder # Nobody
    /\ Ends(p, LOCK_BUSY_RETRY)
    /\ UNCHANGED <<holder, staged, due, faults>>

\* No connection, so no session and no lock.
ConnectFails(p) ==
    /\ at[p] = "trying"
    /\ Fault
    /\ Ends(p, FAILURE_BACKOFF)
    /\ UNCHANGED <<holder, staged, due>>

--------------------------------------------------------------------------------
(* A run, under the lock. *)

\* A poll that answers sets the layer's due time from when the run began.  Where the
\* layer has moved on, its staging copy is prepared: resumed, or dropped and created.
PollLayer(p, l) ==
    /\ at[p] = "polling"
    /\ l \in todo[p]
    /\ due' = [due EXCEPT ![l] = POLL_INTERVAL - timer[p]]
    /\ todo' = [todo EXCEPT ![p] = @ \ {l}]
    /\ \/ UNCHANGED <<at, staged>>
       \/ at' = [at EXCEPT ![p] = "filling"] /\ staged' = p
    /\ UNCHANGED <<timer, failed, holder, faults>>

\* sync.py --reload polls nothing and prepares a staging copy for every layer.
ReloadLayer(c, l) ==
    /\ at[c] = "polling"
    /\ l \in todo[c]
    /\ todo' = [todo EXCEPT ![c] = @ \ {l}]
    /\ at' = [at EXCEPT ![c] = "filling"]
    /\ staged' = c
    /\ UNCHANGED <<timer, failed, holder, due, faults>>

\* The last page is staged, and the swap drops the staging table.
SwapIn(p) ==
    /\ at[p] = "filling"
    /\ at' = [at EXCEPT ![p] = "polling"]
    /\ staged' = Nobody
    /\ UNCHANGED <<timer, runVars, holder, due, faults>>

\* Recorded against the layer, whose staged pages stand; the run goes on.
LayerFails(p) ==
    /\ \/ /\ at[p] = "polling"
          /\ \E l \in todo[p] : todo' = [todo EXCEPT ![p] = @ \ {l}]
       \/ at[p] = "filling" /\ todo' = todo
    /\ Fault
    /\ at' = [at EXCEPT ![p] = "polling"]
    /\ failed' = [failed EXCEPT ![p] = TRUE]
    /\ UNCHANGED <<timer, holder, staged, due>>

Larger(m, n) == IF m > n THEN m ELSE n
Smaller(m, n) == IF m < n THEN m ELSE n

\* Sleep until the mirror's own promise of when it is next due.
DelayAfterSuccess(earliest) == Larger(MIN_DELAY, Smaller(POLL_INTERVAL, earliest))

Finish(p) ==
    /\ at[p] = "polling"
    /\ todo[p] = {}
    /\ \E l \in Layers :
         /\ \A other \in Layers : due[l] <= due[other]
         /\ Ends(p, IF failed[p] THEN FAILURE_BACKOFF ELSE DelayAfterSuccess(due[l]))
    /\ holder' = Released(p)
    /\ UNCHANGED <<staged, due, faults>>

\* An exception no layer is charged with, from apply_schema for one, or from the reload
\* of a --reload: the lock is released on the way out.
Raises(p) ==
    /\ at[p] = "polling" \/ (p \in Commands /\ at[p] = "filling")
    /\ Fault
    /\ Ends(p, FAILURE_BACKOFF)
    /\ holder' = Released(p)
    /\ UNCHANGED <<staged, due>>

\* The server ends p's session, and with it the lock, while p is fetching a page.
SessionLost(p) ==
    /\ at[p] \in {"polling", "filling"}
    /\ Fault
    /\ at' = [at EXCEPT ![p] = "cut"]
    /\ holder' = Released(p)
    /\ UNCHANGED <<timer, runVars, staged, due>>

\* Each statement of p's raises from then on, and the run ends having written nothing.
CutShort(p) ==
    /\ at[p] = "cut"
    /\ Ends(p, FAILURE_BACKOFF)
    /\ UNCHANGED <<holder, staged, due, faults>>

\* Mutant of Killed: a row that says "running" outlives the run.
KilledHolding(p) ==
    /\ at[p] \notin {"unstarted", "gone"}
    /\ Fault
    /\ Ends(p, 0)
    /\ UNCHANGED <<holder, staged, due>>

\* The process is killed.  The platform starts a worker again at once.
Killed(p) ==
    /\ at[p] \notin {"unstarted", "gone"}
    /\ Fault
    /\ Ends(p, 0)
    /\ holder' = Released(p)
    /\ UNCHANGED <<staged, due>>

Tick ==
    /\ \A p \in Procs :
         /\ at[p] # "trying"
         /\ at[p] = "asleep" => timer[p] > 0
         /\ at[p] \in InRun => timer[p] < MaxRun
    /\ timer' = [p \in Procs |->
                   IF at[p] = "asleep" THEN timer[p] - 1
                   ELSE IF at[p] \in InRun THEN timer[p] + 1 ELSE timer[p]]
    /\ due' = [l \in Layers |->
                 IF due[l] \in {NoDue, LongOverdue} THEN due[l] ELSE due[l] - 1]
    /\ UNCHANGED <<at, runVars, holder, staged, faults>>

--------------------------------------------------------------------------------

\* What a process does next, when nothing goes wrong with it.
Step(p) ==
    \/ p \in Workers /\ Wake(p)
    \/ AcquireLock(p) \/ Refused(p)
    \/ \E l \in Layers : PollLayer(p, l) \/ (p \in Commands /\ ReloadLayer(p, l))
    \/ SwapIn(p) \/ Finish(p) \/ CutShort(p)

Goes(p) ==
    ConnectFails(p) \/ LayerFails(p) \/ Raises(p) \/ SessionLost(p) \/ Killed(p)

Next ==
    \/ \E p \in Procs : Step(p) \/ Goes(p)
    \/ \E c \in Commands : StartCommand(c)
    \/ Tick

Spec == Init /\ [][Next]_vars

\* Time passes, and a process that can take its next step takes it.
FairSpec == Spec /\ WF_vars(Tick) /\ \A p \in Procs : WF_vars(Step(p))

--------------------------------------------------------------------------------

\* While a run fills a staging copy no other run prepares one, so it never loses what
\* it has staged to a DROP TABLE: sync_lock's "two runs are not merely wasteful, they
\* destroy each other's progress".  A run whose session the server has ended is past
\* writing, and is not counted.
RunKeepsItsStaging == \A p \in Procs : at[p] = "filling" => staged = p

\* One failure, of whatever kind and at whatever point, does not turn the freshness
\* banner to overdue (_next_update_state): the due time kept by the mirror, the delay
\* computed from it, the backoff and the retries of a refused worker add up to less
\* than the grace period, however the workers and a command get in each other's way.
OneFailureIsNotOverdue ==
    faults <= 1 => \A l \in Layers : due[l] >= -POLL_INTERVAL

\* Every worker gets to run again and again, whatever runs died, were cut off or were
\* started by hand before: "a dead run cannot block every later one".
EveryWorkerRuns == \A w \in Workers : []<>(holder = w)
================================================================================
