------------------------------ MODULE TriageProofs -----------------------------
(***************************************************************************)
(* Theorems about Triage for every set of viewers and items, and every        *)
(* number of saves and failures.                                              *)
(***************************************************************************)
EXTENDS Triage, TLAPS

--------------------------------------------------------------------------------
(* Typing. *)

LEMMA ShowTyped ==
    ASSUME TypeOK, NEW v \in Viewers, NEW entries \in [Items -> Decision],
           NEW quietly \in BOOLEAN, Show(v, entries, quietly)
    PROVE  /\ dec' \in [Viewers -> [Items -> Decision]]
           /\ drawn' \in [Viewers -> [Items -> Decisions]]
BY DEF Show, TypeOK, Decision

LEMMA BeginTyped ==
    ASSUME TypeOK, NEW v \in Viewers, NEW i \in Items, NEW status \in Decisions,
           NEW quiet \in BOOLEAN, Begin(v, i, status, quiet), typed' \subseteq Note
    PROVE  TypeOK'
<1>1. begun' \in 1..MaxSaves /\ begun' = begun + 1
  BY TriageAssumption DEF Begin, TypeOK
<1>2. [status |-> status, save |-> begun'] \in Decision
  BY <1>1 DEF Decision, SaveIds
<1>3. [dec[v] EXCEPT ![i] = [status |-> status, save |-> begun']] \in [Items -> Decision]
  BY <1>2 DEF TypeOK
<1>4. Show(v, [dec[v] EXCEPT ![i] = [status |-> status, save |-> begun']], quiet)
  BY DEF Begin
<1>5. /\ dec' \in [Viewers -> [Items -> Decision]]
      /\ drawn' \in [Viewers -> [Items -> Decisions]]
  BY <1>3, <1>4, ShowTyped
<1>6. [id |-> begun', viewer |-> v, item |-> i, status |-> status, quiet |-> quiet,
       previous |-> dec[v][i], instant |-> 0, stage |-> "sent"] \in Save
  BY <1>1 DEF Save, SaveIds, TypeOK
<1>7. saves' \subseteq Save
  BY <1>6 DEF Begin, TypeOK
<1>8. recorded' \subseteq 1..begun'
  BY <1>1 DEF Begin, TypeOK
<1> QED BY <1>1, <1>5, <1>7, <1>8 DEF Begin, TypeOK

\* A step of a save's request, the page left alone.
LEMMA BecomesTyped ==
    ASSUME TypeOK, NEW save \in saves, NEW after \in Save, Becomes(save, after)
    PROVE  saves' \subseteq Save
BY DEF Becomes, TypeOK

LEMMA FaultTyped == ASSUME TypeOK, Fault PROVE faults' \in 0..MaxFaults
BY TriageAssumption DEF TypeOK, Fault

\* The ids of the saves on their way have been given out.
IdsBegun == \A save \in saves : save.id \in 1..begun

LEMMA StepTyped == TypeOK /\ IdsBegun /\ [Next]_vars => TypeOK' /\ IdsBegun'
<1> SUFFICES ASSUME TypeOK, IdsBegun, [Next]_vars PROVE TypeOK' /\ IdsBegun'
  OBVIOUS
<1>0. CASE UNCHANGED vars
  BY <1>0 DEF vars, pageVars, TypeOK, IdsBegun
<1>1. ASSUME NEW v \in Viewers, ListDecisions(v) PROVE TypeOK' /\ IdsBegun'
  <2>1. \A i \in Items : Field(rows[i]) \in Decision
    BY DEF Field, TypeOK, Row, Decision
  <2> QED BY <1>1, <2>1 DEF ListDecisions, TypeOK, IdsBegun
<1>none. NoDecision \in Decision
  BY DEF NoDecision, Decision, Decisions
<1>2. ASSUME NEW v \in Viewers, LoadDecisions(v) PROVE TypeOK' /\ IdsBegun'
  <2>1. fetched[v] \in [Items -> Decision]
    BY DEF TypeOK
  <2>2. /\ dec' \in [Viewers -> [Items -> Decision]]
        /\ drawn' \in [Viewers -> [Items -> Decisions]]
    BY <1>2, <2>1, ShowTyped DEF LoadDecisions
  <2> QED BY <1>2, <2>2, <1>none DEF LoadDecisions, TypeOK, IdsBegun
<1>3. ASSUME NEW v \in Viewers, LoadFails(v) PROVE TypeOK' /\ IdsBegun'
  BY <1>3, <1>none, FaultTyped DEF LoadFails, TypeOK, IdsBegun
<1>4. ASSUME NEW v \in Viewers, NEW i \in Items, NEW status \in Decisions,
             NEW quiet \in BOOLEAN, Begin(v, i, status, quiet), typed' \subseteq Note
      PROVE  TypeOK' /\ IdsBegun'
  <2>1. IdsBegun'
    BY <1>4, TriageAssumption DEF Begin, IdsBegun, TypeOK, Save, SaveIds
  <2> QED BY <1>4, <2>1, BeginTyped
<1>5. ASSUME NEW v \in Viewers, NEW i \in Items, NEW status \in Statuses, Press(v, i, status)
      PROVE  TypeOK' /\ IdsBegun'
  BY <1>5, <1>4 DEF Press, TypeOK, Decisions
<1>6. ASSUME NEW v \in Viewers, NEW i \in Items, TypeNote(v, i) PROVE TypeOK' /\ IdsBegun'
  <2>1. [viewer |-> v, item |-> i, status |-> drawn[v][i]] \in Note
    BY DEF TypeOK, Note
  <2> QED BY <1>6, <2>1 DEF TypeNote, TypeOK, IdsBegun
<1>7. ASSUME NEW note \in typed, SaveNote(note) PROVE TypeOK' /\ IdsBegun'
  <2>1. note.viewer \in Viewers /\ note.item \in Items /\ note.status \in Decisions
    BY DEF TypeOK, Note
  <2>2. typed' \subseteq Note
    BY <1>7 DEF SaveNote, TypeOK
  <2> QED BY <1>7, <2>1, <2>2, <1>4 DEF SaveNote
<1>8. ASSUME NEW save \in saves, Connect(save) PROVE TypeOK' /\ IdsBegun'
  <2>1. [save EXCEPT !.stage = "open", !.instant = clock] \in Save
    BY DEF TypeOK, Save
  <2> QED BY <1>8, <2>1, BecomesTyped DEF Connect, Becomes, pageVars, TypeOK, IdsBegun, Save
<1>9. ASSUME NEW save \in saves, Record(save) PROVE TypeOK' /\ IdsBegun'
  <2>1. clock' \in Nat
    BY <1>9 DEF Record, TypeOK
  <2>2. [save EXCEPT !.stage = "written", !.instant = ChangedTime(save)] \in Save
    BY <2>1 DEF TypeOK, Save, ChangedTime
  <2> QED BY <1>9, <2>1, <2>2, BecomesTyped DEF Record, Becomes, pageVars, TypeOK, IdsBegun, Save
<1>10. ASSUME NEW save \in saves, Commit(save) PROVE TypeOK' /\ IdsBegun'
  <2>1. [save EXCEPT !.stage = "answered"] \in Save
    BY DEF TypeOK, Save
  <2>2. /\ save.item \in Items
        /\ [status |-> save.status, save |-> save.id, updated_at |-> save.instant] \in Row
    BY DEF TypeOK, Save, Row
  <2>3. rows' \in [Items -> Row]
    BY <1>10, <2>2 DEF Commit, TypeOK
  <2>4. recorded' \subseteq 1..begun
    BY <1>10 DEF Commit, TypeOK, IdsBegun
  <2>5. IdsBegun'
    BY <1>10, <2>1 DEF Commit, Becomes, IdsBegun, TypeOK, Save
  <2> QED BY <1>10, <2>1, <2>3, <2>4, <2>5, BecomesTyped DEF Commit, pageVars, TypeOK
<1>11. ASSUME NEW save \in saves, RequestFails(save) PROVE TypeOK' /\ IdsBegun'
  <2>1. [save EXCEPT !.stage = "failed"] \in Save
    BY DEF TypeOK, Save
  <2>2. IdsBegun'
    BY <1>11, <2>1 DEF RequestFails, Becomes, IdsBegun, TypeOK, Save
  <2> QED BY <1>11, <2>1, <2>2, BecomesTyped, FaultTyped DEF RequestFails, pageVars, TypeOK
<1>12. ASSUME NEW save \in saves, NEW entry \in Decision, NEW quietly \in BOOLEAN,
              Show(save.viewer, [dec[save.viewer] EXCEPT ![save.item] = entry], quietly),
              saves' = saves \ {save},
              UNCHANGED <<rows, begun, recorded, page, fetched, typed, clock, faults>>
       PROVE  TypeOK' /\ IdsBegun'
  <2>1. /\ save.viewer \in Viewers
        /\ [dec[save.viewer] EXCEPT ![save.item] = entry] \in [Items -> Decision]
    BY DEF TypeOK, Save
  <2>2. /\ dec' \in [Viewers -> [Items -> Decision]]
        /\ drawn' \in [Viewers -> [Items -> Decisions]]
    BY <1>12, <2>1, ShowTyped
  <2> QED BY <1>12, <2>2 DEF TypeOK, IdsBegun
<1>13. ASSUME NEW save \in saves, Confirm(save) PROVE TypeOK' /\ IdsBegun'
  <2>1. [status |-> save.status, save |-> save.id] \in Decision
    BY DEF TypeOK, Save, Decision
  <2> QED BY <1>13, <2>1, <1>12 DEF Confirm
<1>14. ASSUME NEW save \in saves, RollBack(save) PROVE TypeOK' /\ IdsBegun'
  <2>1. Restored(save) \in Decision /\ save.quiet \in BOOLEAN
    BY DEF TypeOK, Save, Restored
  <2> QED BY <1>14, <2>1, <1>12 DEF RollBack
<1> QED
  BY <1>0, <1>1, <1>2, <1>3, <1>5, <1>6, <1>7, <1>8, <1>9, <1>10, <1>11, <1>13, <1>14
  DEF Next, PageStep, SaveStep

LEMMA InitTyped == Init => TypeOK /\ IdsBegun
BY TriageAssumption
DEF Init, TypeOK, IdsBegun, NoRow, NoDecision, Row, Decision, Decisions, Everywhere

\* Every variable keeps to its type; no save is recorded before it began.
THEOREM Typing == Spec => []TypeOK
<1> QED BY InitTyped, StepTyped, PTL DEF Spec

--------------------------------------------------------------------------------
(* The changed-time of a row. *)

\* What makes the property inductive: a row's time and that of a write of it are behind
\* the clock, a write not yet committed is later than the row it will replace, and a
\* row has one such write at a time.
TimesOrdered ==
    /\ \A i \in Items : rows[i].updated_at <= clock
    /\ \A save \in saves : save.stage = "written" =>
         rows[save.item].updated_at < save.instant /\ save.instant <= clock
    /\ \A save, other \in saves :
         save.stage = "written" /\ other.stage = "written" /\ save.item = other.item
           => save = other

IInv == TypeOK /\ IdsBegun /\ TimesOrdered

\* A step that writes no row and no clock, and adds no written save.
LEMMA QuietStep ==
    ASSUME TimesOrdered, UNCHANGED <<rows, clock>>,
           \A save \in saves' : save \in saves \/ save.stage # "written"
    PROVE  TimesOrdered'
BY DEF TimesOrdered

LEMMA StepOrdered == IInv /\ [Next]_vars => TimesOrdered'
<1> SUFFICES ASSUME IInv, [Next]_vars PROVE TimesOrdered'
  OBVIOUS
<1> USE DEF IInv
<1>0. CASE UNCHANGED vars
  BY <1>0, QuietStep DEF vars
<1>1. ASSUME NEW v \in Viewers,
             ListDecisions(v) \/ LoadDecisions(v) \/ LoadFails(v)
               \/ \E i \in Items : TypeNote(v, i)
      PROVE  TimesOrdered'
  BY <1>1, QuietStep DEF ListDecisions, LoadDecisions, LoadFails, TypeNote
<1>2. ASSUME NEW v, NEW i, NEW status, NEW quiet, Begin(v, i, status, quiet)
      PROVE  TimesOrdered'
  BY <1>2, QuietStep DEF Begin
<1>3. ASSUME NEW save \in saves, Connect(save) \/ RequestFails(save) PROVE TimesOrdered'
  <2>1. \A after : after.stage # "written" /\ Becomes(save, after) =>
          \A other \in saves' : other \in saves \/ other.stage # "written"
    BY DEF Becomes
  <2>2. /\ [save EXCEPT !.stage = "open", !.instant = clock].stage # "written"
        /\ [save EXCEPT !.stage = "failed"].stage # "written"
    BY DEF TypeOK, Save
  <2> QED BY <1>3, <2>1, <2>2, QuietStep DEF Connect, RequestFails
<1>4. ASSUME NEW save \in saves, Confirm(save) \/ RollBack(save) PROVE TimesOrdered'
  BY <1>4, QuietStep DEF Confirm, RollBack
<1>5. ASSUME NEW save \in saves, Record(save) PROVE TimesOrdered'
  <2> DEFINE after == [save EXCEPT !.stage = "written", !.instant = clock']
  <2>1. /\ saves' = (saves \ {save}) \union {after}
        /\ rows' = rows
        /\ clock' = clock + 1
        /\ \A other \in saves : other.stage = "written" => other.item # save.item
    BY <1>5 DEF Record, Becomes, ChangedTime
  <2>2. /\ after.item = save.item /\ after.item \in Items
        /\ after.instant = clock + 1
    BY <2>1 DEF TypeOK, Save
  <2>3. \A i \in Items : rows[i].updated_at \in Nat
    BY DEF TypeOK, Row
  <2>4. \A other \in saves : other.item \in Items /\ other.instant \in Nat
    BY DEF TypeOK, Save
  <2>5. clock \in Nat
    BY DEF TypeOK
  <2>6. \A i \in Items : rows'[i].updated_at <= clock'
    BY <2>1, <2>3, <2>5 DEF TimesOrdered
  <2>7. \A other \in saves' : other.stage = "written" =>
          rows'[other.item].updated_at < other.instant /\ other.instant <= clock'
    <3> HIDE DEF after
    <3>1. rows[after.item].updated_at < after.instant /\ after.instant <= clock'
      BY <2>1, <2>2, <2>3, <2>5 DEF TimesOrdered
    <3>2. ASSUME NEW other \in saves, other.stage = "written"
          PROVE  rows[other.item].updated_at < other.instant /\ other.instant <= clock'
      BY <3>2, <2>1, <2>4, <2>5 DEF TimesOrdered
    <3> QED BY <3>1, <3>2, <2>1
  <2>8. \A one, other \in saves' :
          one.stage = "written" /\ other.stage = "written" /\ one.item = other.item
            => one = other
    <3> HIDE DEF after
    <3> QED BY <2>1, <2>2 DEF TimesOrdered
  <2> QED BY <2>6, <2>7, <2>8 DEF TimesOrdered
<1>6. ASSUME NEW save \in saves, Commit(save) PROVE TimesOrdered'
  <2> DEFINE after == [save EXCEPT !.stage = "answered"]
  <2>1. /\ save.stage = "written"
        /\ saves' = (saves \ {save}) \union {after}
        /\ clock' = clock
        /\ save.item \in Items
        /\ rows \in [Items -> Row]
        /\ rows' = [rows EXCEPT ![save.item] =
              [status |-> save.status, save |-> save.id, updated_at |-> save.instant]]
    BY <1>6 DEF Commit, Becomes, TypeOK, Save
  <2>2. after.stage # "written"
    BY DEF TypeOK, Save
  <2> HIDE DEF after
  <2>3. rows'[save.item].updated_at = save.instant
    BY <2>1
  <2>4. \A i \in Items : i # save.item => rows'[i] = rows[i]
    BY <2>1
  <2>5. \A i \in Items : rows'[i].updated_at <= clock'
    BY <2>1, <2>3, <2>4 DEF TimesOrdered
  <2>6. \A other \in saves' : other.stage = "written" =>
          other \in saves /\ other.item # save.item
    BY <2>1, <2>2 DEF TimesOrdered
  <2>7. \A other \in saves : other.item \in Items
    BY DEF TypeOK, Save
  <2>8. \A other \in saves' : other.stage = "written" =>
          rows'[other.item].updated_at < other.instant /\ other.instant <= clock'
    BY <2>1, <2>4, <2>6, <2>7 DEF TimesOrdered
  <2>9. \A one, other \in saves' :
          one.stage = "written" /\ other.stage = "written" /\ one.item = other.item
            => one = other
    BY <2>6 DEF TimesOrdered
  <2> QED BY <2>5, <2>8, <2>9 DEF TimesOrdered
<1> QED
  BY <1>0, <1>1, <1>2, <1>3, <1>4, <1>5, <1>6
  DEF Next, PageStep, SaveStep, Press, SaveNote

LEMMA RowsAdvance ==
    ASSUME IInv, [Next]_vars, NEW i \in Items
    PROVE  rows'[i] = rows[i] \/ rows[i].updated_at < rows'[i].updated_at
<1>1. CASE UNCHANGED rows
  BY <1>1
<1>2. ASSUME NEW save \in saves, Commit(save)
      PROVE  rows'[i] = rows[i] \/ rows[i].updated_at < rows'[i].updated_at
  <2>1. /\ save.stage = "written"
        /\ save.item \in Items
        /\ rows \in [Items -> Row]
        /\ rows' = [rows EXCEPT ![save.item] =
              [status |-> save.status, save |-> save.id, updated_at |-> save.instant]]
    BY <1>2 DEF Commit, IInv, TypeOK, Save
  <2>2. rows[save.item].updated_at < save.instant
    BY <2>1 DEF IInv, TimesOrdered
  <2>3. CASE i = save.item
    BY <2>1, <2>2, <2>3
  <2>4. CASE i # save.item
    BY <2>1, <2>4
  <2> QED BY <2>3, <2>4
<1> QED
  BY <1>1, <1>2
  DEF vars, Next, PageStep, SaveStep, ListDecisions, LoadDecisions, LoadFails, TypeNote,
      Press, SaveNote, Begin, Connect, Record, RequestFails, Confirm, RollBack

\* However many requests race for a row, the one whose decision stands has the latest
\* changed-time of all that were ever recorded for it.
THEOREM LastWriterIsLatest == Spec => ChangedTimeAdvances
<1>1. Init => IInv
  <2>1. Init => TimesOrdered
    BY DEF Init, TimesOrdered, NoRow
  <2> QED BY <2>1, InitTyped DEF IInv
<1>2. IInv /\ [Next]_vars => IInv'
  BY StepTyped, StepOrdered DEF IInv
<1>3. IInv /\ [Next]_vars =>
        [\A i \in Items :
            rows'[i] = rows[i] \/ rows[i].updated_at < rows'[i].updated_at]_rows
  BY RowsAdvance
<1> QED BY <1>1, <1>2, <1>3, PTL DEF Spec, ChangedTimeAdvances

--------------------------------------------------------------------------------
(* What one failure leaves on a page. *)

\* An entry is of nothing, of a recorded save, or of one that is still to be answered to
\* this page; but is the save that does not count.
Grounded(entry, v, i, but) ==
    \/ entry = NoDecision
    \/ entry.save \in recorded
    \/ \E save \in saves : /\ save.id = entry.save /\ save.id # but
                          /\ save.viewer = v /\ save.item = i

\* What the server has, and so what it returns, is recorded.
ServerRecorded ==
    /\ \A i \in Items : Field(rows[i]) = NoDecision \/ rows[i].save \in recorded
    /\ \A v \in Viewers, i \in Items :
          fetched[v][i] = NoDecision \/ fetched[v][i].save \in recorded
    /\ \A save \in saves : save.stage = "answered" => save.id \in recorded

\* At most one save has failed; and the entry that a save would be rolled back to stands on
\* another, as long as it is this save that may be the one to fail.
FailsAlone ==
    /\ \A save \in saves : save.stage = "failed" => faults # 0
    /\ faults <= 1 => \A one, other \in saves :
                         one.stage = "failed" /\ other.stage = "failed" => one = other
    /\ faults <= 1 => \A save \in saves : save.stage = "failed" \/ faults = 0 =>
                         Grounded(save.previous, save.viewer, save.item, save.id)

PagesGrounded ==
    faults <= 1 => \A v \in Viewers, i \in Items : Grounded(dec[v][i], v, i, 0)

FInv == TypeOK /\ IdsBegun /\ ServerRecorded /\ FailsAlone /\ PagesGrounded

\* Nothing that grounds an entry goes but a save that is recorded.
LEMMA StaysGrounded ==
    ASSUME NEW entry, NEW v, NEW i, NEW but, Grounded(entry, v, i, but),
           recorded \subseteq recorded',
           \A save \in saves :
               \/ save.id \in recorded'
               \/ \E after \in saves' : /\ after.id = save.id /\ after.viewer = save.viewer
                                       /\ after.item = save.item
    PROVE  Grounded(entry, v, i, but)'
BY DEF Grounded

\* A step of the requests: every save goes on as one of the same page and row, or is
\* recorded; no entry is written, and a save that may fail is one that might have.
LEMMA RequestsGoOn ==
    ASSUME FInv, UNCHANGED <<dec, fetched>>, recorded \subseteq recorded',
           \A i \in Items : rows'[i] = rows[i] \/ rows'[i].save \in recorded',
           faults' = faults \/ faults' = faults + 1,
           \A save \in saves : \E after \in saves' :
               after.id = save.id /\ after.viewer = save.viewer /\ after.item = save.item,
           \A after \in saves' : \E save \in saves :
               /\ after.id = save.id /\ after.viewer = save.viewer
               /\ after.item = save.item /\ after.previous = save.previous
               /\ after.stage = "answered" => save.stage = "answered" \/ save.id \in recorded'
               /\ after.stage = "failed" => \/ save.stage = "failed" \/ faults' > 1
                                            \/ faults = 0 /\ faults' = 1,
           faults' <= 1 => \A one, other \in saves' :
               one.stage = "failed" /\ other.stage = "failed" => one = other
    PROVE  ServerRecorded' /\ FailsAlone' /\ PagesGrounded'
<1>1. faults \in Nat /\ faults' \in Nat /\ (faults' <= 1 => faults <= 1)
      /\ (faults' = 0 => faults = 0)
  BY DEF FInv, TypeOK
<1>2. ServerRecorded'
  BY DEF FInv, ServerRecorded, Field, NoDecision
<1>3. ASSUME NEW entry, NEW v, NEW i, NEW but, Grounded(entry, v, i, but)
      PROVE  Grounded(entry, v, i, but)'
  BY <1>3, StaysGrounded
<1>4. PagesGrounded'
  BY <1>1, <1>3 DEF FInv, PagesGrounded
<1>5. \A after \in saves' : after.stage = "failed" => faults' # 0
  BY <1>1 DEF FInv, FailsAlone
<1>6. ASSUME faults' <= 1, NEW after \in saves', after.stage = "failed" \/ faults' = 0
      PROVE  Grounded(after.previous, after.viewer, after.item, after.id)'
  <2>1. PICK save \in saves :
            /\ after.id = save.id /\ after.viewer = save.viewer
            /\ after.item = save.item /\ after.previous = save.previous
            /\ after.stage = "failed" => save.stage = "failed" \/ faults = 0
    BY <1>1, <1>6
  <2>2. save.stage = "failed" \/ faults = 0
    BY <1>1, <1>6, <2>1
  <2>3. Grounded(save.previous, save.viewer, save.item, save.id)
    BY <1>1, <1>6, <2>2 DEF FInv, FailsAlone
  <2> QED BY <1>3, <2>1, <2>3
<1> QED BY <1>2, <1>4, <1>5, <1>6 DEF FailsAlone

\* A save is shown at once, and its page can come back to what it showed before.
LEMMA BeginGrounded ==
    ASSUME FInv, NEW v \in Viewers, NEW i \in Items, NEW status, NEW quiet,
           Begin(v, i, status, quiet)
    PROVE  ServerRecorded' /\ FailsAlone' /\ PagesGrounded'
<1> DEFINE new == [id |-> begun', viewer |-> v, item |-> i, status |-> status, quiet |-> quiet,
                   previous |-> dec[v][i], instant |-> 0, stage |-> "sent"]
           shown == [status |-> status, save |-> begun']
<1>1. /\ saves' = saves \union {new} /\ begun' = begun + 1
      /\ dec' = [dec EXCEPT ![v] = [dec[v] EXCEPT ![i] = shown]]
      /\ UNCHANGED <<rows, recorded, fetched, faults>>
  BY DEF Begin, Show
<1>2. /\ new.id = begun' /\ new.viewer = v /\ new.item = i /\ new.stage = "sent"
      /\ new.previous = dec[v][i]
  OBVIOUS
<1>3. shown.save = begun'
  OBVIOUS
<1> HIDE DEF new, shown
<1>4. begun \in Nat /\ begun' # 0 /\ recorded \subseteq 1..begun
      /\ \A save \in saves : save.id \in 1..begun
  BY <1>1 DEF FInv, TypeOK, IdsBegun
<1>5. ASSUME NEW entry, NEW w, NEW j, NEW but, Grounded(entry, w, j, but)
      PROVE  Grounded(entry, w, j, but)'
  BY <1>1, <1>5, StaysGrounded
<1>6. ServerRecorded'
  BY <1>1, <1>2 DEF FInv, ServerRecorded, Field
<1>7. ASSUME faults' <= 1 PROVE \A w \in Viewers, j \in Items : Grounded(dec[w][j], w, j, 0)
  BY <1>1, <1>7 DEF FInv, PagesGrounded
<1>8. PagesGrounded'
  <2> SUFFICES ASSUME faults' <= 1, NEW w \in Viewers, NEW j \in Items
               PROVE  Grounded(dec[w][j], w, j, 0)'
    BY DEF PagesGrounded
  <2>1. dec \in [Viewers -> [Items -> Decision]]
    BY DEF FInv, TypeOK
  <2>2. CASE w = v /\ j = i
    <3>1. dec'[w][j] = shown
      BY <1>1, <2>1, <2>2
    <3>2. new \in saves'
      BY <1>1
    <3> QED BY <1>2, <1>3, <1>4, <2>2, <3>1, <3>2 DEF Grounded
  <2>3. CASE ~(w = v /\ j = i)
    <3>1. dec'[w][j] = dec[w][j]
      BY <1>1, <2>1, <2>3
    <3> QED BY <1>5, <1>7, <3>1
  <2> QED BY <2>2, <2>3
<1>9. FailsAlone'
  <2>1. /\ \A save \in saves' : save.stage = "failed" => faults' # 0
        /\ faults' <= 1 => \A one, other \in saves' :
              one.stage = "failed" /\ other.stage = "failed" => one = other
    BY <1>1, <1>2 DEF FInv, FailsAlone
  <2>2. ASSUME faults' <= 1, NEW save \in saves', save.stage = "failed" \/ faults' = 0
        PROVE  Grounded(save.previous, save.viewer, save.item, save.id)'
    <3>1. CASE save \in saves
      <4>1. Grounded(save.previous, save.viewer, save.item, save.id)
        BY <1>1, <2>2, <3>1 DEF FInv, FailsAlone
      <4> QED BY <1>5, <4>1
    <3>2. CASE save = new
      <4>1. /\ save.previous = dec[v][i] /\ save.viewer = v /\ save.item = i
            /\ save.id = begun'
        BY <1>2, <3>2
      <4>2. Grounded(save.previous, v, i, 0)
        BY <1>7, <2>2, <4>1
      <4>3. \A other \in saves : other.id # save.id /\ other \in saves'
        BY <1>1, <1>4, <4>1
      <4>4. Grounded(save.previous, v, i, save.id)'
        BY <1>1, <4>2, <4>3 DEF Grounded
      <4> QED BY <4>1, <4>4
    <3> QED BY <1>1, <2>2, <3>1, <3>2
  <2> QED BY <2>1, <2>2 DEF FailsAlone
<1> QED BY <1>6, <1>8, <1>9

\* A save is done with: its page shows an entry that does not rest on it.
LEMMA DoneGrounded ==
    ASSUME FInv, NEW save \in saves, NEW entry, NEW quietly,
           Show(save.viewer, [dec[save.viewer] EXCEPT ![save.item] = entry], quietly),
           saves' = saves \ {save}, UNCHANGED <<rows, recorded, fetched, faults>>,
           faults <= 1 => Grounded(entry, save.viewer, save.item, save.id),
           save.id \in recorded \/ save.stage = "failed"
    PROVE  ServerRecorded' /\ FailsAlone' /\ PagesGrounded'
<1>1. ServerRecorded'
  BY DEF FInv, ServerRecorded, Field
<1>2. ASSUME NEW e, NEW w, NEW j, NEW but, Grounded(e, w, j, but),
             save.id \in recorded \/ w # save.viewer \/ j # save.item \/ but = save.id
      PROVE  Grounded(e, w, j, but)'
  BY <1>2 DEF Grounded
<1>3. dec' = [dec EXCEPT ![save.viewer] = [dec[save.viewer] EXCEPT ![save.item] = entry]]
  BY DEF Show
<1>4. /\ dec \in [Viewers -> [Items -> Decision]]
      /\ save.viewer \in Viewers /\ save.item \in Items
  BY DEF FInv, TypeOK, Save
<1>5. PagesGrounded'
  <2> SUFFICES ASSUME faults <= 1, NEW w \in Viewers, NEW j \in Items
               PROVE  Grounded(dec[w][j], w, j, 0)'
    BY DEF PagesGrounded
  <2>1. CASE w = save.viewer /\ j = save.item
    <3>1. dec'[w][j] = entry
      BY <1>3, <1>4, <2>1
    <3>2. Grounded(entry, w, j, save.id)'
      BY <1>2, <2>1
    <3>3. \A other \in saves' : other.id # 0
      BY DEF FInv, IdsBegun, TypeOK
    <3> QED BY <3>1, <3>2, <3>3 DEF Grounded
  <2>2. CASE ~(w = save.viewer /\ j = save.item)
    <3>1. dec'[w][j] = dec[w][j]
      BY <1>3, <1>4, <2>2
    <3>2. Grounded(dec[w][j], w, j, 0)
      BY DEF FInv, PagesGrounded
    <3>3. Grounded(dec[w][j], w, j, 0)'
      BY <1>2, <2>2, <3>1, <3>2
    <3> QED BY <3>3
  <2> QED BY <2>1, <2>2
<1>6. FailsAlone'
  <2>1. /\ \A other \in saves' : other.stage = "failed" => faults' # 0
        /\ faults' <= 1 => \A one, other \in saves' :
              one.stage = "failed" /\ other.stage = "failed" => one = other
    BY DEF FInv, FailsAlone
  <2>2. ASSUME faults' <= 1, NEW other \in saves', other.stage = "failed" \/ faults' = 0
        PROVE  Grounded(other.previous, other.viewer, other.item, other.id)'
    <3>1. Grounded(other.previous, other.viewer, other.item, other.id)
      BY <2>2 DEF FInv, FailsAlone
    <3>2. save.id \in recorded
      BY <2>2 DEF FInv, FailsAlone
    <3> QED BY <1>2, <3>1, <3>2
  <2> QED BY <2>1, <2>2 DEF FailsAlone
<1> QED BY <1>1, <1>5, <1>6

LEMMA StepGrounded == FInv /\ [Next]_vars => FInv'
<1> SUFFICES ASSUME FInv, [Next]_vars PROVE ServerRecorded' /\ FailsAlone' /\ PagesGrounded'
  BY StepTyped DEF FInv
<1>0. faults \in Nat
  BY DEF FInv, TypeOK
\* The steps of the page alone.
<1>1. CASE UNCHANGED <<dec, rows, fetched, recorded, saves, faults>>
  <2>1. \A entry, w, i, but : Grounded(entry, w, i, but) => Grounded(entry, w, i, but)'
    BY <1>1 DEF Grounded
  <2> QED BY <1>1, <2>1 DEF FInv, ServerRecorded, FailsAlone, PagesGrounded, Field
<1>2. ASSUME NEW v \in Viewers, ListDecisions(v)
      PROVE  ServerRecorded' /\ FailsAlone' /\ PagesGrounded'
  <2>1. /\ UNCHANGED <<rows, saves, recorded, dec, faults>>
        /\ fetched' = [fetched EXCEPT ![v] = [i \in Items |-> Field(rows[i])]]
    BY <1>2 DEF ListDecisions
  <2>2. \A w \in Viewers, i \in Items :
            fetched'[w][i] = fetched[w][i] \/ fetched'[w][i] = Field(rows[i])
    BY <2>1 DEF FInv, TypeOK
  <2>3. \A i \in Items : Field(rows[i]).save = rows[i].save
    BY DEF Field
  <2>4. ServerRecorded'
    BY <2>1, <2>2, <2>3 DEF FInv, ServerRecorded
  <2>5. \A entry, w, i, but : Grounded(entry, w, i, but) => Grounded(entry, w, i, but)'
    BY <2>1 DEF Grounded
  <2> QED BY <2>1, <2>4, <2>5 DEF FInv, FailsAlone, PagesGrounded
<1>3. ASSUME NEW v \in Viewers, LoadDecisions(v)
      PROVE  ServerRecorded' /\ FailsAlone' /\ PagesGrounded'
  <2>1. /\ UNCHANGED <<rows, saves, recorded, faults>>
        /\ dec' = [dec EXCEPT ![v] = fetched[v]]
        /\ fetched' = [fetched EXCEPT ![v] = [i \in Items |-> NoDecision]]
    BY <1>3 DEF LoadDecisions, Show
  <2>2. \A w \in Viewers, i \in Items :
            /\ fetched'[w][i] = fetched[w][i] \/ fetched'[w][i] = NoDecision
            /\ dec'[w][i] = dec[w][i] \/ dec'[w][i] = fetched[w][i]
    BY <2>1 DEF FInv, TypeOK
  <2>3. NoDecision' = NoDecision
    BY DEF NoDecision
  <2>4. ServerRecorded'
    BY <2>1, <2>2, <2>3 DEF FInv, ServerRecorded, Field
  <2>5. \A entry, w, i, but : Grounded(entry, w, i, but) => Grounded(entry, w, i, but)'
    BY <2>1 DEF Grounded
  <2>6. PagesGrounded'
    <3> SUFFICES ASSUME faults <= 1, NEW w \in Viewers, NEW i \in Items
                 PROVE  Grounded(dec[w][i], w, i, 0)'
      BY <2>1 DEF PagesGrounded
    <3>1. Grounded(dec[w][i], w, i, 0) /\ Grounded(fetched[w][i], w, i, 0)
      BY DEF FInv, PagesGrounded, ServerRecorded, Grounded
    <3> QED BY <2>2, <2>5, <3>1
  <2> QED BY <2>1, <2>4, <2>5, <2>6 DEF FInv, FailsAlone
<1>4. ASSUME NEW v \in Viewers, LoadFails(v)
      PROVE  ServerRecorded' /\ FailsAlone' /\ PagesGrounded'
  <2>1. /\ UNCHANGED <<rows, saves, recorded, dec>> /\ faults' = faults + 1
        /\ fetched' = [fetched EXCEPT ![v] = [i \in Items |-> NoDecision]]
    BY <1>4 DEF LoadFails, Fault
  <2>2. \A w \in Viewers, i \in Items :
            fetched'[w][i] = fetched[w][i] \/ fetched'[w][i] = NoDecision
    BY <2>1 DEF FInv, TypeOK
  <2>3. ServerRecorded'
    BY <2>1, <2>2 DEF FInv, ServerRecorded, Field, NoDecision
  <2>4. \A entry, w, i, but : Grounded(entry, w, i, but) => Grounded(entry, w, i, but)'
    BY <2>1 DEF Grounded
  <2>5. FailsAlone'
    BY <1>0, <2>1, <2>4 DEF FInv, FailsAlone
  <2>6. PagesGrounded'
    BY <1>0, <2>1, <2>4 DEF FInv, PagesGrounded
  <2> QED BY <2>3, <2>5, <2>6
\* The saves.
<1>5. ASSUME NEW v \in Viewers, NEW i \in Items, NEW status \in Statuses, Press(v, i, status)
      PROVE  ServerRecorded' /\ FailsAlone' /\ PagesGrounded'
  BY <1>5, BeginGrounded DEF Press
<1>6. ASSUME NEW note \in typed, SaveNote(note)
      PROVE  ServerRecorded' /\ FailsAlone' /\ PagesGrounded'
  BY <1>6, BeginGrounded DEF SaveNote, FInv, TypeOK, Note
<1>7. ASSUME NEW save \in saves, NEW after,
             after.id = save.id, after.viewer = save.viewer, after.item = save.item,
             after.previous = save.previous, Becomes(save, after),
             after.stage = "answered" => save.stage = "answered" \/ save.id \in recorded',
             after.stage = "failed" => save.stage # "failed" /\ faults' = faults + 1,
             UNCHANGED <<dec, fetched>>, recorded \subseteq recorded',
             \A i \in Items : rows'[i] = rows[i] \/ rows'[i].save \in recorded',
             faults' = faults \/ faults' = faults + 1
      PROVE  ServerRecorded' /\ FailsAlone' /\ PagesGrounded'
  <2>1. saves' = (saves \ {save}) \union {after}
    BY <1>7 DEF Becomes
  <2>2. \A one \in saves : \E other \in saves' :
            other.id = one.id /\ other.viewer = one.viewer /\ other.item = one.item
    BY <1>7, <2>1
  <2>3. \A other \in saves' : \E one \in saves :
            /\ other.id = one.id /\ other.viewer = one.viewer
            /\ other.item = one.item /\ other.previous = one.previous
            /\ other.stage = "answered" => one.stage = "answered" \/ one.id \in recorded'
            /\ other.stage = "failed" => \/ one.stage = "failed" \/ faults' > 1
                                         \/ faults = 0 /\ faults' = 1
    <3>1. after.stage = "failed" => faults' > 1 \/ (faults = 0 /\ faults' = 1)
      BY <1>0, <1>7
    <3> QED BY <1>7, <2>1, <3>1, Zenon
  <2>4. ASSUME faults' <= 1, NEW one \in saves', NEW other \in saves',
               one.stage = "failed", other.stage = "failed"
        PROVE  one = other
    <3>1. CASE after.stage = "failed"
      <4>1. faults = 0
        BY <1>0, <1>7, <2>4, <3>1
      <4>2. \A failed \in saves : failed.stage # "failed"
        BY <4>1 DEF FInv, FailsAlone
      <4> QED BY <2>1, <2>4, <4>2
    <3>2. CASE after.stage # "failed"
      <4>1. faults <= 1
        BY <1>0, <1>7, <2>4
      <4> QED BY <2>1, <2>4, <3>2, <4>1 DEF FInv, FailsAlone
    <3> QED BY <3>1, <3>2
  <2> QED BY <1>7, <2>2, <2>3, <2>4, RequestsGoOn
<1>8. ASSUME NEW save \in saves, Connect(save)
      PROVE  ServerRecorded' /\ FailsAlone' /\ PagesGrounded'
  <2> DEFINE after == [save EXCEPT !.stage = "open", !.instant = clock]
  <2>1. /\ after.id = save.id /\ after.viewer = save.viewer /\ after.item = save.item
        /\ after.previous = save.previous /\ after.stage = "open"
    BY DEF FInv, TypeOK, Save
  <2>2. Becomes(save, after)
    BY <1>8 DEF Connect
  <2> HIDE DEF after
  <2>3. UNCHANGED <<dec, rows, fetched, recorded, faults>>
    BY <1>8 DEF Connect, pageVars
  <2> QED BY <1>7, <2>1, <2>2, <2>3
<1>9. ASSUME NEW save \in saves, Record(save)
      PROVE  ServerRecorded' /\ FailsAlone' /\ PagesGrounded'
  <2> DEFINE after == [save EXCEPT !.stage = "written", !.instant = ChangedTime(save)]
  <2>1. /\ after.id = save.id /\ after.viewer = save.viewer /\ after.item = save.item
        /\ after.previous = save.previous /\ after.stage = "written"
    BY DEF FInv, TypeOK, Save
  <2>2. Becomes(save, after)
    BY <1>9 DEF Record
  <2> HIDE DEF after
  <2>3. UNCHANGED <<dec, rows, fetched, recorded, faults>>
    BY <1>9 DEF Record, pageVars
  <2> QED BY <1>7, <2>1, <2>2, <2>3
<1>11. ASSUME NEW save \in saves, RequestFails(save)
      PROVE  ServerRecorded' /\ FailsAlone' /\ PagesGrounded'
  <2> DEFINE after == [save EXCEPT !.stage = "failed"]
  <2>1. /\ after.id = save.id /\ after.viewer = save.viewer /\ after.item = save.item
        /\ after.previous = save.previous /\ after.stage = "failed"
    BY DEF FInv, TypeOK, Save
  <2>2. Becomes(save, after)
    BY <1>11 DEF RequestFails
  <2> HIDE DEF after
  <2>3. /\ UNCHANGED <<dec, rows, fetched, recorded>> /\ faults' = faults + 1
        /\ save.stage # "failed"
    BY <1>11 DEF RequestFails, Fault, pageVars
  <2> QED BY <1>7, <2>1, <2>2, <2>3
<1>10. ASSUME NEW save \in saves, Commit(save)
       PROVE  ServerRecorded' /\ FailsAlone' /\ PagesGrounded'
  <2> DEFINE after == [save EXCEPT !.stage = "answered"]
  <2>1. /\ after.id = save.id /\ after.viewer = save.viewer /\ after.item = save.item
        /\ after.previous = save.previous /\ after.stage = "answered"
    BY DEF FInv, TypeOK, Save
  <2>2. Becomes(save, after)
    BY <1>10 DEF Commit
  <2> HIDE DEF after
  <2>3. /\ UNCHANGED <<dec, fetched, faults>> /\ recorded' = recorded \union {save.id}
        /\ rows' = [rows EXCEPT ![save.item] =
              [status |-> save.status, save |-> save.id, updated_at |-> save.instant]]
    BY <1>10 DEF Commit, pageVars
  <2>4. \A i \in Items : rows'[i] = rows[i] \/ rows'[i].save \in recorded'
    BY <2>3 DEF FInv, TypeOK
  <2> QED BY <1>7, <2>1, <2>2, <2>3, <2>4
<1>12. ASSUME NEW save \in saves, Confirm(save)
       PROVE  ServerRecorded' /\ FailsAlone' /\ PagesGrounded'
  <2> DEFINE entry == [status |-> save.status, save |-> save.id]
  <2>1. save.id \in recorded
    BY <1>12 DEF Confirm, FInv, ServerRecorded
  <2>2. Grounded(entry, save.viewer, save.item, save.id)
    BY <2>1 DEF Grounded
  <2>3. /\ Show(save.viewer, [dec[save.viewer] EXCEPT ![save.item] = entry], TRUE)
        /\ saves' = saves \ {save} /\ UNCHANGED <<rows, recorded, fetched, faults>>
    BY <1>12 DEF Confirm
  <2> HIDE DEF entry
  <2> QED BY <2>1, <2>2, <2>3, DoneGrounded
<1>13. ASSUME NEW save \in saves, RollBack(save)
       PROVE  ServerRecorded' /\ FailsAlone' /\ PagesGrounded'
  <2>1. /\ save.stage = "failed"
        /\ Show(save.viewer, [dec[save.viewer] EXCEPT ![save.item] = save.previous], save.quiet)
        /\ saves' = saves \ {save} /\ UNCHANGED <<rows, recorded, fetched, faults>>
    BY <1>13 DEF RollBack, Restored
  <2>2. faults <= 1 => Grounded(save.previous, save.viewer, save.item, save.id)
    BY <2>1 DEF FInv, FailsAlone
  <2> QED BY <2>1, <2>2, DoneGrounded
<1> QED
  BY <1>1, <1>2, <1>3, <1>4, <1>5, <1>6, <1>8, <1>9, <1>10, <1>11, <1>12, <1>13
  DEF Next, PageStep, SaveStep, TypeNote, vars, pageVars

\* After one failure, of whatever request, no page is left showing a decision that was
\* never recorded: the entry it rolls back to rests on a save that has not failed.
THEOREM OneFailureIsHarmless == Spec => []OneFailureLeavesNothingUnrecorded
<1>1. Init => FInv
  <2>1. Init => ServerRecorded /\ FailsAlone /\ PagesGrounded
    BY DEF Init, ServerRecorded, FailsAlone, PagesGrounded, Grounded, Field, NoRow, NoDecision,
           Everywhere
  <2> QED BY <2>1, InitTyped DEF FInv
<1>2. FInv => OneFailureLeavesNothingUnrecorded
  BY DEF FInv, OneFailureLeavesNothingUnrecorded, NeverLeftUnrecorded, PagesGrounded, Grounded,
         Settled
<1> QED BY <1>1, <1>2, StepGrounded, PTL DEF Spec

================================================================================
