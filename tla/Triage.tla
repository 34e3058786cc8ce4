-------------------------------- MODULE Triage ---------------------------------
(***************************************************************************)
(* Shared triage of one violation type's list: the pages (save, saveDecision,  *)
(* loadDecisions and the note's timer in web/app/index.html), the requests     *)
(* they post (src/app/server.py) and the upsert of a row (record in            *)
(* src/mirror/triage.py).  A page writes optimistically: it shows a decision    *)
(* while the request that records it is on its way.                            *)
(***************************************************************************)
EXTENDS Naturals, FiniteSets

CONSTANTS
    Viewers,
    Items,      \* the doorways and blocks
    Statuses,   \* what a row may be marked
    NotTriaged, \* the status of a row with no decision, which a second press restores
    MaxSaves,   \* bound: saves, by all viewers together
    MaxNotes,   \* bound: notes being typed at once
    MaxFaults   \* bound: requests, transactions and answers lost

Decisions == Statuses \union {NotTriaged}
SaveIds == 1..MaxSaves

ASSUME TriageAssumption ==
    /\ NotTriaged \notin Statuses
    /\ MaxSaves \in Nat \ {0}
    /\ MaxNotes \in Nat
    /\ MaxFaults \in Nat

VARIABLES
    rows,      \* triage_decisions, as committed
    begun,     \* how many saves have begun
    saves,     \* those on their way, each with its request
    recorded,  \* the saves whose transaction committed
    page,      \* how far each viewer's page has got in loading the decisions
    fetched,   \* the rows read for a page that is loading
    dec,       \* DEC of each page
    drawn,     \* the status each row of the page was last drawn with
    typed,     \* the notes whose typing has not paused yet
    clock,     \* ticks with every write of a row
    faults

pageVars == <<page, fetched, dec, drawn, typed>>
vars == <<rows, begun, saves, recorded, pageVars, clock, faults>>

\* A decision names the save it comes from: two saves may carry the same status.
Decision == [status : Decisions, save : {0} \union SaveIds]
Row == [status : Decisions, save : {0} \union SaveIds, updated_at : Nat]
NoDecision == [status |-> NotTriaged, save |-> 0]
NoRow == [status |-> NotTriaged, save |-> 0, updated_at |-> 0]
Note == [viewer : Viewers, item : Items, status : Decisions]
Save ==
    [id : SaveIds, viewer : Viewers, item : Items, status : Decisions,
     quiet : BOOLEAN, previous : Decision, instant : Nat,
     stage : {"sent", "open", "written", "answered", "failed"}]

TypeOK ==
    /\ rows \in [Items -> Row]
    /\ begun \in 0..MaxSaves
    /\ saves \subseteq Save
    /\ recorded \subseteq 1..begun
    /\ page \in [Viewers -> {"reading", "filling", "ready"}]
    /\ fetched \in [Viewers -> [Items -> Decision]]
    /\ dec \in [Viewers -> [Items -> Decision]]
    /\ drawn \in [Viewers -> [Items -> Decisions]]
    /\ typed \subseteq Note
    /\ clock \in Nat
    /\ faults \in 0..MaxFaults

Everywhere(x) == [v \in Viewers |-> [i \in Items |-> x]]

Init ==
    /\ rows = [i \in Items |-> NoRow]
    /\ begun = 0
    /\ saves = {}
    /\ recorded = {}
    /\ page = [v \in Viewers |-> "reading"]
    /\ fetched = Everywhere(NoDecision)
    /\ dec = Everywhere(NoDecision)
    /\ drawn = Everywhere(NotTriaged)
    /\ typed = {}
    /\ clock = 0
    /\ faults = 0

Fault == faults < MaxFaults /\ faults' = faults + 1

\* The page shows these entries, and unless quietly, draws its rows again from them.
Show(v, entries, quietly) ==
    /\ dec' = [dec EXCEPT ![v] = entries]
    /\ drawn' = IF quietly THEN drawn
                ELSE [drawn EXCEPT ![v] = [i \in Items |-> entries[i].status]]

--------------------------------------------------------------------------------
(* Opening the page.  Its lists are drawn, and can be triaged, before the decisions that
   are fetched for them arrive. *)

\* Mutant of Field: a row is kept as it came, with its updated_at.
RowAsItCame(row) == row

\* The page's own entry for a row it is given.
Field(row) == [status |-> row.status, save |-> row.save]

\* list_for, on the server: committed rows only.
ListDecisions(v) ==
    /\ page[v] = "reading"
    /\ page' = [page EXCEPT ![v] = "filling"]
    /\ fetched' = [fetched EXCEPT ![v] = [i \in Items |-> Field(rows[i])]]
    /\ UNCHANGED <<rows, begun, saves, recorded, dec, drawn, typed, clock, faults>>

\* DEC is replaced as a whole, whatever was saved while the answer was on its way.
LoadDecisions(v) ==
    /\ page[v] = "filling"
    /\ page' = [page EXCEPT ![v] = "ready"]
    /\ Show(v, fetched[v], FALSE)
    /\ fetched' = [fetched EXCEPT ![v] = [i \in Items |-> NoDecision]]
    /\ UNCHANGED <<rows, begun, saves, recorded, typed, clock, faults>>

\* The page says so, and goes on with what it has.
LoadFails(v) ==
    /\ page[v] \in {"reading", "filling"}
    /\ Fault
    /\ page' = [page EXCEPT ![v] = "ready"]
    /\ fetched' = [fetched EXCEPT ![v] = [i \in Items |-> NoDecision]]
    /\ UNCHANGED <<rows, begun, saves, recorded, dec, drawn, typed, clock>>

--------------------------------------------------------------------------------
(* A viewer saves. *)

\* The entry is shown before the request that records it is answered.
Begin(v, i, status, quiet) ==
    /\ begun < MaxSaves
    /\ begun' = begun + 1
    /\ saves' = saves \union
         {[id |-> begun', viewer |-> v, item |-> i, status |-> status, quiet |-> quiet,
           previous |-> dec[v][i], instant |-> 0, stage |-> "sent"]}
    /\ Show(v, [dec[v] EXCEPT ![i] = [status |-> status, save |-> begun']], quiet)
    /\ UNCHANGED <<rows, recorded, page, fetched, clock, faults>>

\* A status button: pressed on the status the row was drawn with, it clears it.
Press(v, i, status) ==
    /\ Begin(v, i, IF status = drawn[v][i] THEN NotTriaged ELSE status, FALSE)
    /\ UNCHANGED typed

\* A note is saved once the typing has paused, with the status its row was drawn with.
\* The timer is of that drawing, and drawing the row again does not clear it.
TypeNote(v, i) ==
    /\ begun < MaxSaves
    /\ Cardinality(typed) < MaxNotes
    /\ typed' = typed \union {[viewer |-> v, item |-> i, status |-> drawn[v][i]]}
    /\ UNCHANGED <<rows, begun, saves, recorded, page, fetched, dec, drawn, clock, faults>>

SaveNote(note) ==
    /\ Begin(note.viewer, note.item, note.status, TRUE)
    /\ typed' = typed \ {note}

--------------------------------------------------------------------------------
(* The request of a save. *)

Becomes(save, after) == saves' = (saves \ {save}) \union {after}

\* The request's connection is opened, and its transaction with it.
Connect(save) ==
    /\ save.stage = "sent"
    /\ Becomes(save, [save EXCEPT !.stage = "open", !.instant = clock])
    /\ UNCHANGED <<rows, begun, recorded, pageVars, clock, faults>>

\* Mutant of ChangedTime: now(), the start of the transaction.
TransactionStart(save) == save.instant

\* clock_timestamp(), the moment of the write.
ChangedTime(save) == clock'

\* The upsert waits for a transaction that has written the same row.
Record(save) ==
    /\ save.stage = "open"
    /\ \A other \in saves : other.stage = "written" => other.item # save.item
    /\ clock' = clock + 1
    /\ Becomes(save, [save EXCEPT !.stage = "written", !.instant = ChangedTime(save)])
    /\ UNCHANGED <<rows, begun, recorded, pageVars, faults>>

Commit(save) ==
    /\ save.stage = "written"
    /\ rows' = [rows EXCEPT ![save.item] =
                  [status |-> save.status, save |-> save.id, updated_at |-> save.instant]]
    /\ recorded' = recorded \union {save.id}
    /\ Becomes(save, [save EXCEPT !.stage = "answered"])
    /\ UNCHANGED <<begun, pageVars, clock, faults>>

\* The request never arrives, its transaction is rolled back and answered 500, or the
\* answer to a commit is lost: to the page they are the same.
RequestFails(save) ==
    /\ save.stage # "failed"
    /\ Fault
    /\ Becomes(save, [save EXCEPT !.stage = "failed"])
    /\ UNCHANGED <<rows, begun, recorded, pageVars, clock>>

\* The page takes the row the server returned, and is not drawn again for it.
Confirm(save) ==
    /\ save.stage = "answered"
    /\ Show(save.viewer,
            [dec[save.viewer] EXCEPT ![save.item] = [status |-> save.status, save |-> save.id]],
            TRUE)
    /\ saves' = saves \ {save}
    /\ UNCHANGED <<rows, begun, recorded, page, fetched, typed, clock, faults>>

\* Mutant of Restored: the optimistic entry stands.
LeftAsShown(save) == dec[save.viewer][save.item]

\* The entry the row had when the save began.
Restored(save) == save.previous

RollBack(save) ==
    /\ save.stage = "failed"
    /\ Show(save.viewer, [dec[save.viewer] EXCEPT ![save.item] = Restored(save)], save.quiet)
    /\ saves' = saves \ {save}
    /\ UNCHANGED <<rows, begun, recorded, page, fetched, typed, clock, faults>>

--------------------------------------------------------------------------------

PageStep(v) ==
    \/ ListDecisions(v) \/ LoadDecisions(v) \/ LoadFails(v)
    \/ \E i \in Items : TypeNote(v, i) \/ \E status \in Statuses : Press(v, i, status)

SaveStep(save) ==
    \/ Connect(save) \/ Record(save) \/ Commit(save) \/ RequestFails(save)
    \/ Confirm(save) \/ RollBack(save)

Next ==
    \/ \E v \in Viewers : PageStep(v)
    \/ \E note \in typed : SaveNote(note)
    \/ \E save \in saves : SaveStep(save)

Spec == Init /\ [][Next]_vars

--------------------------------------------------------------------------------

\* The last writer of a row has the latest changed-time, whichever of the requests was
\* the first to open its connection: record()'s "The changed-time is the moment of the
\* write".
ChangedTimeAdvances ==
    [][\A i \in Items :
          rows'[i] = rows[i] \/ rows[i].updated_at < rows'[i].updated_at]_rows

Settled(v, i) == \A save \in saves : save.viewer # v \/ save.item # i

\* save()'s "so a viewer is never left looking at a decision as recorded when the write
\* that would have recorded it did not succeed".  Not so of two saves of a row that are
\* on their way together and both fail: the second is rolled back to the entry the
\* first put up.
NeverLeftUnrecorded ==
    \A v \in Viewers, i \in Items :
        Settled(v, i) => dec[v][i] = NoDecision \/ dec[v][i].save \in recorded

\* One failure, of any request at any point, never leaves such a decision on a page,
\* whatever else is on its way and however the viewers' saves and loads interleave.
OneFailureLeavesNothingUnrecorded == faults <= 1 => NeverLeftUnrecorded
================================================================================
