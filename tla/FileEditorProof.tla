-------------------------- MODULE FileEditorProof --------------------------
(***************************************************************************)
(* Theorems about FileEditor, for any texts and any bounds: how often the  *)
(* owner types, others change the file and saves fail.                     *)
(***************************************************************************)
EXTENDS FileEditor, TLAPS

-----------------------------------------------------------------------------
(* The inductive invariant.                                                *)

\* The statuses that carry a revision.
Based == {"clean", "dirty", "saving", "error", "conflict"}

\* An editor state by itself: its status has the fields it should, and "clean"
\* means that the draft is the text of the revision.
WellFormed(e) ==
  /\ e \in EditorState
  /\ e.kind \in Based => e.revision \in Texts
  /\ e.kind = "conflict" <=> e.disk \in Texts
  /\ e.kind = "clean" => e.draft = e.revision

\* Its revision has been shown to the owner, or is about to be.
BasedOn(e, shown) == e.kind \in Based => e.revision \in shown \cup Shown(e)

\* The editor and what has been shown.
EditorKnown == BasedOn(ed, seen) /\ Shown(ed) \subseteq seen

\* A write carries texts the owner has seen, and only a write can be "saving".
WriteShape ==
  /\ Busy => write.text \in seen /\ write.base \in seen
  /\ write.stage = "checked" => write.current \in seen
  /\ write.stage = "refused" => write.current \in Texts
  /\ ed.kind = "saving" => Busy /\ write.text = ed.draft

\* Once the editor is left, its reads are over and unsaved text has a call of
\* save() that waits for it.
LeaveShape ==
  /\ mounted => parked <= MaxParked
  /\ ~mounted => read = NoRead
  /\ ~mounted /\ ed.kind = "dirty" => Busy /\ parked > 0

\* An answered read has an answer.
ReadShape == read.stage = "answered" => read.answer \in Contents

EditorInvariant ==
  TypeOK /\ WellFormed(ed) /\ EditorKnown /\ WriteShape /\ LeaveShape /\ ReadShape

-----------------------------------------------------------------------------
(* The reducer keeps states well formed and never invents a revision.      *)

\* A state with a revision taken from a well-formed one, or shown on the way.
Follows(f, shown) == WellFormed(f) /\ BasedOn(f, shown)

\* edited: typing keeps the revision the draft was based on.
LEMMA EditedFollows ==
  ASSUME NEW e, NEW shown, WellFormed(e), BasedOn(e, shown), Shown(e) \subseteq shown,
         NEW text \in Texts, e.kind \notin {"loading", "unreadable"}, e.draft # text
  PROVE  /\ Follows(Edited(e, text), shown)
         /\ Edited(e, text).kind # "saving"
  BY EditorAssumption
  DEF Follows, WellFormed, BasedOn, Based, Edited, DraftFrozen, Status, EditorState,
      Kinds, Shown

\* save-started
LEMMA SaveStartedFollows ==
  ASSUME NEW e, NEW shown, WellFormed(e), BasedOn(e, shown), Shown(e) \subseteq shown,
         Startable(e)
  PROVE  /\ Follows(SaveStarted(e), shown)
         /\ SaveStarted(e).kind = "saving" /\ SaveStarted(e).draft = e.draft
         /\ e.draft \in Texts /\ e.draft \in shown
         /\ e.revision \in Texts /\ e.revision \in shown
  BY EditorAssumption
  DEF Follows, WellFormed, BasedOn, Based, SaveStarted, Startable, Status, EditorState,
      Kinds, Shown

\* save-applied: the text written is the draft when nothing was typed meanwhile.
LEMMA SaveAppliedFollows ==
  ASSUME NEW e, NEW shown, WellFormed(e), BasedOn(e, shown), Shown(e) \subseteq shown,
         NEW text \in Texts, text \in shown, e.kind = "saving" => text = e.draft
  PROVE  /\ Follows(SaveApplied(e, text), shown)
         /\ SaveApplied(e, text).kind # "saving"
         /\ SaveApplied(e, text).kind = "dirty" => e.kind = "dirty"
  BY EditorAssumption
  DEF Follows, WellFormed, BasedOn, Based, SaveApplied, Status, EditorState, Kinds, Shown

\* save-conflicted: the other side is shown beside the draft.
LEMMA SaveConflictedFollows ==
  ASSUME NEW e, NEW shown, WellFormed(e), BasedOn(e, shown), Shown(e) \subseteq shown,
         NEW text \in Texts
  PROVE  /\ Follows(SaveConflicted(e, text), shown)
         /\ SaveConflicted(e, text).kind \notin {"saving", "dirty"}
  BY EditorAssumption
  DEF Follows, WellFormed, BasedOn, Based, SaveConflicted, Status, EditorState, Kinds,
      Shown

\* save-failed
LEMMA SaveFailedFollows ==
  ASSUME NEW e, NEW shown, WellFormed(e), BasedOn(e, shown), Shown(e) \subseteq shown
  PROVE  /\ Follows(SaveFailed(e), shown)
         /\ SaveFailed(e).kind \notin {"saving", "dirty"}
  BY EditorAssumption
  DEF Follows, WellFormed, BasedOn, Based, SaveFailed, Status, EditorState, Kinds, Shown

\* loaded
LEMMA LoadedFollows ==
  ASSUME NEW text \in Texts, NEW shown
  PROVE  /\ Follows(Loaded(0, text), shown) /\ Loaded(0, text).kind = "clean"
         /\ \A e : Loaded(e, text) = Loaded(0, text)
  BY EditorAssumption
  DEF Follows, WellFormed, BasedOn, Based, Loaded, EditorState, Kinds, Shown

\* external: a draft that is being saved stays; any other revision comes with the
\* text it belongs to.
LEMMA ExternalFollows ==
  ASSUME NEW e, NEW shown, WellFormed(e), BasedOn(e, shown), Shown(e) \subseteq shown,
         NEW text \in Texts
  PROVE  /\ Follows(External(e, text), shown)
         /\ External(e, text).kind = "saving" => External(e, text) = e
         /\ External(e, text).kind = "dirty" => External(e, text) = e
<1>1. CASE e.kind = "saving" \/ (e.kind \in {"clean", "dirty", "error"} /\ e.revision = text)
  BY <1>1 DEF External, Follows
<1>2. CASE e.kind = "conflict"
  BY <1>2, EditorAssumption
  DEF External, Follows, WellFormed, BasedOn, Based, Status, EditorState, Kinds, Shown
<1>3. CASE e.kind \in {"loading", "unreadable"}
  <2>1. External(e, text) = Loaded(e, text)
    BY <1>3 DEF External
  <2> QED
    BY <2>1, LoadedFollows
<1>4. CASE e.kind = "missing" /\ e.draft = text
  <2>1. External(e, text) = Loaded(e, text)
    BY <1>4 DEF External
  <2> QED
    BY <2>1, LoadedFollows
<1>5. CASE e.kind = "missing" /\ e.draft # text
  BY <1>5, EditorAssumption
  DEF External, Follows, WellFormed, BasedOn, Based, Status, EditorState, Kinds, Shown
<1>6. CASE e.kind = "clean" /\ e.revision # text
  <2>1. External(e, text) = Loaded(e, text)
    BY <1>6 DEF External
  <2> QED
    BY <2>1, LoadedFollows
<1>7. CASE e.kind \in {"dirty", "error"} /\ e.revision # text
  BY <1>7, EditorAssumption
  DEF External, Follows, WellFormed, BasedOn, Based, Status, EditorState, Kinds, Shown
<1> QED
  BY <1>1, <1>2, <1>3, <1>4, <1>5, <1>6, <1>7 DEF WellFormed, EditorState, Kinds

\* keep-disk and keep-both
LEMMA TakeDiskFollows ==
  ASSUME NEW e, NEW shown, WellFormed(e), BasedOn(e, shown), Shown(e) \subseteq shown
  PROVE  /\ Follows(TakeDisk(e), shown)
         /\ TakeDisk(e).kind \in {"saving", "dirty"} => TakeDisk(e) = e
<1>1. CASE e.kind = "conflict"
  <2>1. e.disk \in Texts
    BY <1>1 DEF WellFormed
  <2> QED
    BY <1>1, <2>1, LoadedFollows DEF TakeDisk
<1>2. CASE e.kind # "conflict"
  BY <1>2 DEF TakeDisk, Follows
<1> QED
  BY <1>1, <1>2

-----------------------------------------------------------------------------
(* Steps of the page.                                                      *)

\* What a step leaves behind that changes the editor: ed and seen are as the
\* invariant wants them, and nothing that was shown is forgotten.
EditorKept ==
  /\ WellFormed(ed') /\ BasedOn(ed', seen') /\ Shown(ed') \subseteq seen'
  /\ seen' \subseteq Texts /\ seen \subseteq seen'
  /\ unsaved' \in BOOLEAN

\* A state that follows from what was shown is known once it is shown.
LEMMA RenderKeeps ==
  ASSUME seen \subseteq Texts, NEW f, Follows(f, seen), Render(f), unsaved' \in BOOLEAN
  PROVE  EditorKept
<1>1. Shown(f) \subseteq Texts
  BY DEF Follows, WellFormed, EditorState, Shown
<1> QED
  BY <1>1 DEF EditorKept, Render, Follows, BasedOn

\* apply()
LEMMA ApplyKeeps ==
  ASSUME seen \subseteq Texts, NEW f, Follows(f, seen), Apply(f)
  PROVE  EditorKept
<1>1. Render(f) /\ unsaved' \in BOOLEAN
  BY DEF Apply
<1> QED
  BY <1>1, RenderKeeps

\* A step that leaves the editor alone.
LEMMA UnchangedKeeps ==
  ASSUME EditorInvariant, Unchanged
  PROVE  EditorKept
  BY DEF EditorKept, Unchanged, EditorInvariant, EditorKnown, TypeOK

\* The start of a pass: "saving" the draft, on a revision the owner has seen.
LEMMA StartPassKeeps ==
  ASSUME seen \subseteq Texts, NEW e, Follows(e, seen), Startable(e), StartPass(e)
  PROVE  /\ EditorKept /\ ed'.kind = "saving"
         /\ write'.stage = "sent" /\ write'.text = ed'.draft
         /\ write' \in [stage : {"sent"}, text : Texts, base : Texts, current : {None}]
         /\ write'.text \in seen' /\ write'.base \in seen'
         /\ tried' \in Texts
<1>1. /\ e.draft \in Texts /\ e.revision \in Texts
      /\ e.revision \in seen \cup {e.draft} /\ Shown(e) = {e.draft}
  BY EditorAssumption
  DEF Follows, WellFormed, BasedOn, Based, EditorState, Startable, Shown
<1>2. /\ Follows(SaveStarted(e), seen)
      /\ SaveStarted(e).kind = "saving" /\ SaveStarted(e).draft = e.draft
      /\ Shown(SaveStarted(e)) = {e.draft}
  BY <1>1, EditorAssumption
  DEF Follows, WellFormed, BasedOn, Based, SaveStarted, Startable, Status, EditorState,
      Kinds, Shown
<1>3. Apply(SaveStarted(e)) /\ write' = Request(e) /\ tried' = e.draft
  BY DEF StartPass
<1>4. EditorKept
  BY <1>2, <1>3, ApplyKeeps
<1>5. ed' = SaveStarted(e) /\ seen' = seen \cup {e.draft}
  BY <1>2, <1>3 DEF Apply, Render
<1> QED
  BY <1>1, <1>2, <1>3, <1>4, <1>5 DEF Request

\* What save() may leave behind: the write, the calls that wait and the editor
\* fit each other, whether or not the editor is left in the same step.
SaveKept ==
  /\ EditorKept
  /\ ed'.kind = "saving" => write'.stage # "idle" /\ write'.text = ed'.draft
  /\ write'.stage # "idle" => write'.text \in seen' /\ write'.base \in seen'
  /\ write'.stage = "checked" => write'.current \in seen'
  /\ write'.stage = "refused" => write'.current \in Texts
  /\ write' = NoWrite \/
     write' \in [stage : {"sent", "checked", "changed", "written", "refused", "failed"},
                 text : Texts, base : Texts, current : Texts \cup {None}]
  /\ pending' \in BOOLEAN /\ parked' \in Nat /\ parked' <= parked + 1
  /\ tried' \in Texts \cup {None}

\* save(): a call during a write waits for it, one with unsaved text starts a
\* pass. After it, "dirty" means that a call waits.
LEMMA SaveCalledKeeps ==
  ASSUME EditorInvariant, SaveCalled
  PROVE  /\ SaveKept
         /\ ed'.kind = "dirty" => write'.stage # "idle" /\ parked' > 0
         /\ ~Busy => parked' = parked
<1> USE DEF Busy
<1>1. /\ seen \subseteq Texts /\ Follows(ed, seen) /\ parked \in Nat /\ MaxParked \in Nat
  BY EditorAssumption DEF EditorInvariant, TypeOK, EditorKnown, Follows
<1>2. CASE Busy
  <2>1. /\ pending' = TRUE /\ parked' = parked + 1 /\ UNCHANGED <<write, tried>> /\ Unchanged
    BY <1>2 DEF SaveCalled
  <2>2. EditorKept
    BY <2>1, UnchangedKeeps
  <2> QED
    BY <1>1, <1>2, <2>1, <2>2
    DEF SaveKept, EditorInvariant, TypeOK, WriteShape, Unchanged
<1>3. CASE ~Busy /\ Startable(ed)
  <2>1. StartPass(ed) /\ UNCHANGED <<pending, parked>>
    BY <1>3 DEF SaveCalled
  <2>2. /\ EditorKept /\ ed'.kind = "saving"
        /\ write'.stage = "sent" /\ write'.text = ed'.draft
        /\ write' \in [stage : {"sent"}, text : Texts, base : Texts, current : {None}]
        /\ write'.text \in seen' /\ write'.base \in seen'
        /\ tried' \in Texts
    BY <1>1, <1>3, <2>1, StartPassKeeps
  <2> QED
    BY <1>1, <2>1, <2>2 DEF SaveKept, EditorInvariant, TypeOK
<1>4. CASE ~Busy /\ ~Startable(ed)
  <2>1. Unchanged /\ UNCHANGED saveVars
    BY <1>4 DEF SaveCalled
  <2>2. EditorKept
    BY <2>1, UnchangedKeeps
  <2> QED
    BY <1>1, <1>4, <2>1, <2>2
    DEF SaveKept, EditorInvariant, TypeOK, WriteShape, Unchanged, saveVars, Startable
<1> QED
  BY <1>2, <1>3, <1>4

\* The end of a write: another pass while calls wait and text is unsaved, and
\* otherwise nothing waits any more.
LEMMA AnsweredKeeps ==
  ASSUME EditorInvariant, NEW e, Follows(e, seen), e.kind # "saving",
         ~mounted /\ e.kind = "dirty" => parked > 0, Answered(e)
  PROVE  /\ SaveKept /\ parked' <= parked
         /\ ~mounted => ed'.kind # "dirty"
<1>1. /\ seen \subseteq Texts /\ parked \in Nat /\ pending \in BOOLEAN
      /\ tried \in Texts \cup {None}
  BY DEF EditorInvariant, TypeOK
<1>2. CASE Startable(e) /\ (pending \/ parked > 0)
  <2>1. /\ StartPass(e)
        /\ parked' = (IF pending THEN parked ELSE parked - 1)
        /\ pending' = (~pending /\ parked > 1)
    BY <1>2 DEF Answered
  <2>2. /\ EditorKept /\ ed'.kind = "saving"
        /\ write'.stage = "sent" /\ write'.text = ed'.draft
        /\ write' \in [stage : {"sent"}, text : Texts, base : Texts, current : {None}]
        /\ write'.text \in seen' /\ write'.base \in seen'
        /\ tried' \in Texts
    BY <1>1, <1>2, <2>1, StartPassKeeps
  <2>3. pending' \in BOOLEAN /\ parked' \in Nat /\ parked' <= parked
    BY <1>1, <1>2, <2>1
  <2> QED
    BY <1>1, <2>2, <2>3 DEF SaveKept
<1>3. CASE ~(Startable(e) /\ (pending \/ parked > 0))
  <2>1. /\ Apply(e) /\ write' = NoWrite /\ pending' = FALSE /\ parked' = 0
        /\ UNCHANGED tried
    BY <1>3 DEF Answered
  <2>2. EditorKept
    BY <1>1, <2>1, ApplyKeeps
  <2>3. ed'.kind # "saving" /\ (~mounted => ed'.kind # "dirty")
    BY <1>3, <2>1 DEF Apply, Render, Startable
  <2>4. write'.stage = "idle" /\ pending' \in BOOLEAN
    BY <2>1 DEF NoWrite
  <2>5. parked' \in Nat /\ parked' <= parked /\ parked' <= parked + 1
    BY <1>1, <2>1
  <2> QED
    BY <1>1, <2>1, <2>2, <2>3, <2>4, <2>5 DEF SaveKept
<1> QED
  BY <1>2, <1>3

-----------------------------------------------------------------------------
(* The invariant holds initially and is preserved by every step.           *)

LeftAlone == UNCHANGED saveVars /\ UNCHANGED mounted

\* The variables a step of the page or of the world outside may give new values.
SurroundingsTyped ==
  /\ disk' \in Contents /\ copy' \in Texts \cup {None} /\ firstRead' \in BOOLEAN
  /\ read' \in [stage : {"none", "sent", "answered"}, answer : Contents \cup {None}]
  /\ read'.stage = "answered" => read'.answer \in Contents
  /\ ~mounted => read' = NoRead

\* A step that does not touch the write keeps the invariant when it neither
\* starts a save nor leaves text unsaved in an editor that is left.
LEMMA EditorStep ==
  ASSUME EditorInvariant, EditorKept, LeftAlone, SurroundingsTyped,
         ed'.kind = "saving" => ed.kind = "saving" /\ ed'.draft = ed.draft,
         ed'.kind = "dirty" => mounted \/ ed.kind = "dirty"
  PROVE  EditorInvariant'
<1>1. TypeOK'
  BY DEF EditorInvariant, EditorKept, LeftAlone, SurroundingsTyped, TypeOK, saveVars,
         WellFormed, Based
<1>2. WriteShape'
  BY DEF EditorInvariant, EditorKept, LeftAlone, WriteShape, saveVars, Busy
<1>3. LeaveShape'
  BY DEF EditorInvariant, LeftAlone, SurroundingsTyped, LeaveShape, saveVars, Busy
<1>4. WellFormed(ed)' /\ EditorKnown' /\ ReadShape'
  BY DEF EditorKept, SurroundingsTyped, EditorKnown, ReadShape, WellFormed, BasedOn, Shown
<1> QED
  BY <1>1, <1>2, <1>3, <1>4 DEF EditorInvariant

\* The steps that leave read, disk and copy as they are have them typed.
LEMMA SurroundingsKept ==
  ASSUME EditorInvariant, UNCHANGED <<disk, copy>>, Unread
  PROVE  SurroundingsTyped
  BY DEF EditorInvariant, TypeOK, Unread, SurroundingsTyped, LeaveShape, ReadShape

\* A step of the Gateway: only the write, the file and a count of failures change.
LEMMA GatewayStep ==
  ASSUME EditorInvariant, AtGateway, Busy, disk' \in Contents,
         write' \in [stage : {"checked", "changed", "written", "refused", "failed"},
                     text : {write.text}, base : {write.base},
                     current : Texts \cup {None}],
         write'.stage = "checked" => write'.current \in seen,
         write'.stage = "refused" => write'.current \in Texts
  PROVE  EditorInvariant'
<1>1. write.text \in Texts /\ write.base \in Texts
  BY DEF EditorInvariant, TypeOK, Busy, NoWrite
<1>2. TypeOK'
  BY <1>1 DEF EditorInvariant, AtGateway, Unread, Unchanged, TypeOK
<1>3. WriteShape'
  BY <1>1 DEF EditorInvariant, AtGateway, Unchanged, WriteShape, Busy
<1>4. LeaveShape'
  BY DEF EditorInvariant, AtGateway, Unread, Unchanged, LeaveShape, Busy
<1>5. WellFormed(ed)' /\ EditorKnown' /\ ReadShape'
  BY DEF EditorInvariant, AtGateway, Unread, Unchanged, EditorKnown, ReadShape, WellFormed,
         BasedOn, Shown
<1> QED
  BY <1>2, <1>3, <1>4, <1>5 DEF EditorInvariant

\* A step that calls save() or ends a write, in an editor that may be left in it.
LEMMA SaveStep ==
  ASSUME EditorInvariant, SaveKept, UNCHANGED disk, UNCHANGED copy, UNCHANGED firstRead,
         \/ UNCHANGED read
         \/ read' = NoRead,
         mounted' \in BOOLEAN, ~mounted => ~mounted', ~mounted' => read' = NoRead,
         mounted' => parked' <= MaxParked,
         parked' <= MaxParked + 1,
         ~mounted' /\ ed'.kind = "dirty" => write'.stage # "idle" /\ parked' > 0
  PROVE  EditorInvariant'
<1>1. MaxParked \in Nat
  BY EditorAssumption
<1>2. TypeOK'
  BY <1>1 DEF EditorInvariant, SaveKept, EditorKept, TypeOK, WellFormed, Based, NoRead
<1>3. WriteShape' /\ LeaveShape'
  BY DEF SaveKept, WriteShape, LeaveShape, Busy
<1>4. WellFormed(ed)' /\ EditorKnown' /\ ReadShape'
  BY DEF EditorInvariant, SaveKept, EditorKept, EditorKnown, ReadShape, WellFormed, BasedOn,
         Shown, NoRead
<1> QED
  BY <1>2, <1>3, <1>4 DEF EditorInvariant

\* The invariant holds when the editor opens, whatever is at its path.
LEMMA InitInvariant == Init => EditorInvariant
<1> SUFFICES ASSUME Init PROVE EditorInvariant
  OBVIOUS
<1>1. TypeOK
  <2>1. ed \in EditorState /\ ed.kind = "loading" /\ ed.disk = None /\ None \notin Texts
    BY EditorAssumption DEF Init, EditorState, Kinds
  <2>2. read \in [stage : {"none", "sent", "answered"}, answer : Contents \cup {None}]
    BY DEF Init
  <2>3. parked \in 0..(MaxParked + 1)
    BY EditorAssumption DEF Init
  <2>4. disk \in Contents /\ write = NoWrite /\ seen \subseteq Texts
    BY DEF Init
  <2> QED
    BY <2>1, <2>2, <2>3, <2>4 DEF Init, TypeOK
<1>2. WellFormed(ed) /\ EditorKnown
  BY EditorAssumption
  DEF Init, WellFormed, EditorKnown, BasedOn, Based, Shown, EditorState, Kinds
<1>3. WriteShape /\ LeaveShape /\ ReadShape
  BY EditorAssumption DEF Init, WriteShape, LeaveShape, ReadShape, Busy, NoWrite
<1> QED
  BY <1>1, <1>2, <1>3 DEF EditorInvariant

\* Each action keeps the invariant.
LEMMA NextInvariant == EditorInvariant /\ [Next]_vars => EditorInvariant'
<1> SUFFICES ASSUME EditorInvariant, [Next]_vars PROVE EditorInvariant'
  OBVIOUS
<1> USE EditorAssumption
<1>0. /\ seen \subseteq Texts /\ WellFormed(ed) /\ BasedOn(ed, seen) /\ Shown(ed) \subseteq seen
      /\ parked \in Nat /\ parked <= MaxParked + 1 /\ mounted \in BOOLEAN
      /\ disk \in Contents /\ copy \in Texts \cup {None} /\ firstRead \in BOOLEAN
  BY DEF EditorInvariant, EditorKnown, TypeOK
<1>1. ASSUME NEW text \in Texts, Edit(text) PROVE EditorInvariant'
  <2>1. /\ Follows(Edited(ed, text), seen) /\ Edited(ed, text).kind # "saving"
        /\ Render(Edited(ed, text)) /\ unsaved' = TRUE /\ mounted
    BY <1>0, <1>1, EditedFollows DEF Edit
  <2>2. EditorKept /\ ed'.kind # "saving"
    BY <1>0, <2>1, RenderKeeps DEF Render
  <2>3. LeftAlone /\ SurroundingsTyped
    BY <1>1, SurroundingsKept DEF Edit, LeftAlone
  <2> QED
    BY <2>1, <2>2, <2>3, EditorStep
<1>2. ASSUME Blur PROVE EditorInvariant'
  <2>1. SaveCalled /\ mounted /\ UNCHANGED <<disk, copy, mounted>> /\ Unread
    BY <1>2 DEF Blur
  <2>2. SaveKept /\ (~Busy => parked' = parked)
    BY <2>1, SaveCalledKeeps
  <2>3. parked <= MaxParked /\ parked' <= MaxParked
    BY <1>0, <1>2, <2>1, <2>2 DEF Blur, EditorInvariant, LeaveShape, SaveKept
  <2>4. parked' <= MaxParked + 1
    BY <2>2, <2>3 DEF SaveKept
  <2> QED
    BY <2>1, <2>2, <2>3, <2>4, SaveStep DEF Unread
<1>3. ASSUME Autosave PROVE EditorInvariant'
  <2>1. SaveCalled /\ mounted /\ ~Busy /\ UNCHANGED <<disk, copy, mounted>> /\ Unread
    BY <1>3 DEF Autosave, AutosaveArmed
  <2>2. SaveKept /\ parked' = parked
    BY <2>1, SaveCalledKeeps
  <2>3. parked' <= MaxParked /\ parked' <= MaxParked + 1
    BY <1>0, <2>1, <2>2 DEF EditorInvariant, LeaveShape
  <2> QED
    BY <2>1, <2>2, <2>3, SaveStep DEF Unread
<1>4. ASSUME KeepMine PROVE EditorInvariant'
  <2>1. ed.disk \in Texts /\ ed.disk \in seen /\ ed.kind = "conflict" /\ mounted
    BY <1>0, <1>4 DEF KeepMine, WellFormed, Shown
  <2>2. Follows(Status(ed, "dirty", ed.disk, None), seen)
    BY <1>0, <2>1
    DEF Follows, WellFormed, BasedOn, Based, Status, EditorState, Kinds, Shown
  <2>3. EditorKept /\ ed'.kind = "dirty"
    BY <1>0, <1>4, <2>2, ApplyKeeps DEF KeepMine, Apply, Render, Status
  <2>4. LeftAlone /\ SurroundingsTyped
    BY <1>4, SurroundingsKept DEF KeepMine, LeftAlone
  <2> QED
    BY <2>1, <2>3, <2>4, EditorStep
<1>5. ASSUME KeepDisk \/ CopyWritten PROVE EditorInvariant'
  <2>1. Apply(TakeDisk(ed)) /\ LeftAlone
    BY <1>5 DEF KeepDisk, CopyWritten, LeftAlone
  <2>2. /\ Follows(TakeDisk(ed), seen)
        /\ TakeDisk(ed).kind \in {"saving", "dirty"} => TakeDisk(ed) = ed
    BY <1>0, TakeDiskFollows
  <2>3. EditorKept /\ ed' = TakeDisk(ed)
    BY <1>0, <2>1, <2>2, ApplyKeeps DEF Apply, Render
  <2>4. SurroundingsTyped
    BY <1>0, <1>5 DEF KeepDisk, CopyWritten, SurroundingsTyped, Unread, EditorInvariant,
                      TypeOK, LeaveShape, ReadShape
  <2> QED
    BY <2>1, <2>2, <2>3, <2>4, EditorStep
<1>6. ASSUME Leave PROVE EditorInvariant'
  <2>1. /\ SaveCalled /\ mounted /\ ~mounted' /\ mounted' \in BOOLEAN /\ read' = NoRead
        /\ UNCHANGED disk /\ UNCHANGED copy /\ UNCHANGED firstRead
    BY <1>6 DEF Leave
  <2>2. /\ SaveKept
        /\ ed'.kind = "dirty" => write'.stage # "idle" /\ parked' > 0
    BY <2>1, SaveCalledKeeps
  <2>3. parked' <= MaxParked + 1
    BY <1>0, <2>1, <2>2 DEF EditorInvariant, LeaveShape, SaveKept
  <2> QED
    BY <2>1, <2>2, <2>3, SaveStep
<1>7. ASSUME ReadDelivered PROVE EditorInvariant'
  <2> DEFINE f == ReadResult(read.answer)
  <2>1. read.answer \in Contents /\ mounted /\ Apply(f)
    BY <1>7 DEF ReadDelivered, EditorInvariant, ReadShape, LeaveShape, NoRead
  <2>2. Follows(f, seen) /\ (f.kind \in {"saving", "dirty"} => f = ed)
    <3>1. CASE read.answer = Gone
      <4>1. f = Status(ed, "missing", None, None)
        BY <3>1 DEF ReadResult
      <4> QED
        BY <1>0, <4>1
        DEF Follows, WellFormed, BasedOn, Based, Status, EditorState, Kinds, Shown
    <3>2. CASE read.answer = Binary
      <4>1. f = Status(ed, "unreadable", None, None)
        BY <3>2 DEF ReadResult
      <4> QED
        BY <1>0, <4>1
        DEF Follows, WellFormed, BasedOn, Based, Status, EditorState, Kinds, Shown
    <3>3. CASE read.answer \in Texts /\ firstRead
      <4>1. f = Loaded(ed, read.answer)
        BY <3>3 DEF ReadResult
      <4> QED
        BY <3>3, <4>1, LoadedFollows
    <3>4. CASE read.answer \in Texts /\ ~firstRead
      <4>1. f = External(ed, read.answer)
        BY <3>4 DEF ReadResult
      <4> QED
        BY <1>0, <3>4, <4>1, ExternalFollows
    <3> QED
      BY <2>1, <3>1, <3>2, <3>3, <3>4 DEF Contents
  <2>3. EditorKept /\ ed' = f
    BY <1>0, <2>1, <2>2, ApplyKeeps DEF Apply, Render
  <2>4. LeftAlone /\ SurroundingsTyped
    BY <1>0, <1>7 DEF ReadDelivered, LeftAlone, SurroundingsTyped, FirstReadAfter, NoRead
  <2> QED
    BY <2>1, <2>2, <2>3, <2>4, EditorStep
<1>8. ASSUME KeepBoth \/ CopyFailed \/ Invalidate \/ ReadAtGateway \/ ReadFailed
             \/ \E content \in Contents : OutsideChange(content)
      PROVE  EditorInvariant'
  <2>1. LeftAlone /\ Unchanged
    BY <1>8 DEF KeepBoth, CopyFailed, Invalidate, ReadAtGateway, ReadFailed, OutsideChange,
                LeftAlone
  <2>2. EditorKept
    BY <2>1, UnchangedKeeps
  <2>3. SurroundingsTyped
    <3>1. /\ read \in [stage : {"none", "sent", "answered"}, answer : Contents \cup {None}]
          /\ read.stage = "answered" => read.answer \in Contents
          /\ ~mounted => read = NoRead
      BY DEF EditorInvariant, TypeOK, LeaveShape, ReadShape
    <3>2. CASE KeepBoth \/ CopyFailed \/ \E content \in Contents : OutsideChange(content)
      <4>1. ed.draft \in Texts
        BY <1>0 DEF WellFormed, EditorState
      <4> QED
        BY <1>0, <3>1, <3>2, <4>1
        DEF KeepBoth, CopyFailed, OutsideChange, SurroundingsTyped, Unread
    <3>3. CASE Invalidate \/ ReadAtGateway \/ ReadFailed
      BY <1>0, <3>1, <3>3
      DEF Invalidate, ReadAtGateway, ReadFailed, SurroundingsTyped, NoRead
    <3> QED
      BY <1>8, <3>2, <3>3
  <2>4. ed' = ed
    BY <2>1 DEF Unchanged
  <2> QED
    BY <2>1, <2>2, <2>3, <2>4, EditorStep
<1>9. ASSUME CheckRevision \/ Rename \/ ReadCurrent \/ SaveFails PROVE EditorInvariant'
  <2>1. AtGateway /\ Busy
    BY <1>9 DEF CheckRevision, Rename, ReadCurrent, SaveFails, Busy
  <2>2. /\ write \in [stage : {"sent", "checked", "changed", "written", "refused", "failed"},
                      text : Texts, base : Texts, current : Texts \cup {None}]
        /\ write.base \in seen
    BY <2>1 DEF EditorInvariant, TypeOK, WriteShape, Busy, NoWrite
  <2>3. CASE CheckRevision
    <3>1. MayWrite(write.base) => disk = write.base
      BY <2>2 DEF MayWrite
    <3> QED
      BY <1>0, <2>1, <2>2, <2>3, <3>1, GatewayStep DEF CheckRevision
  <2>4. CASE Rename
    BY <1>0, <2>1, <2>2, <2>4, GatewayStep DEF Rename, Contents
  <2>5. CASE ReadCurrent
    BY <1>0, <2>1, <2>2, <2>5, GatewayStep DEF ReadCurrent
  <2>6. CASE SaveFails
    BY <1>0, <2>1, <2>2, <2>6, GatewayStep DEF SaveFails
  <2> QED
    BY <1>9, <2>3, <2>4, <2>5, <2>6
<1>10. ASSUME SaveAnswered PROVE EditorInvariant'
  <2>1. PICK e : /\ Answered(e) /\ Follows(e, seen) /\ e.kind # "saving"
                 /\ e.kind = "dirty" => ed.kind = "dirty"
    <3>1. CASE write.stage = "written" /\ Answered(SaveApplied(ed, write.text))
      <4>1. /\ write.text \in Texts /\ write.text \in seen
            /\ ed.kind = "saving" => write.text = ed.draft
        BY <3>1 DEF EditorInvariant, TypeOK, WriteShape, Busy, NoWrite
      <4> QED
        BY <1>0, <3>1, <4>1, SaveAppliedFollows
    <3>2. CASE write.stage = "refused" /\ Answered(SaveConflicted(ed, write.current))
      <4>1. write.current \in Texts
        BY <3>2 DEF EditorInvariant, WriteShape
      <4> QED
        BY <1>0, <3>2, <4>1, SaveConflictedFollows
    <3>3. CASE write.stage = "failed" /\ Answered(SaveFailed(ed))
      BY <1>0, <3>3, SaveFailedFollows
    <3> QED
      BY <1>10, <3>1, <3>2, <3>3 DEF SaveAnswered
  <2>2. ~mounted /\ e.kind = "dirty" => parked > 0
    BY <2>1 DEF EditorInvariant, LeaveShape
  <2>3. SaveKept /\ parked' <= parked /\ (~mounted => ed'.kind # "dirty")
    BY <2>1, <2>2, AnsweredKeeps
  <2>4. /\ UNCHANGED <<disk, copy, mounted>> /\ Unread
        /\ mounted => parked <= MaxParked
        /\ ~mounted => read = NoRead
    BY <1>10 DEF SaveAnswered, EditorInvariant, LeaveShape
  <2>5. parked' <= MaxParked + 1 /\ (mounted' => parked' <= MaxParked)
    BY <1>0, <2>3, <2>4 DEF SaveKept
  <2> QED
    BY <1>0, <2>3, <2>4, <2>5, SaveStep DEF Unread
<1>11. ASSUME UNCHANGED vars PROVE EditorInvariant'
  BY <1>11
  DEF vars, EditorInvariant, TypeOK, WellFormed, EditorKnown, BasedOn, Shown, WriteShape,
      LeaveShape, ReadShape, Busy
<1> QED
  BY <1>1, <1>2, <1>3, <1>4, <1>5, <1>6, <1>7, <1>8, <1>9, <1>10, <1>11 DEF Next

\* The inductive invariant of the editor.
THEOREM EditorInvariantHolds == Spec => []EditorInvariant
  BY InitInvariant, NextInvariant, PTL DEF Spec

\* A save always carries a revision: with TypeOK no status that can start one is
\* without, whatever order reads, answers and typing take.
THEOREM EditorTypeCorrect == Spec => []TypeOK
<1>1. EditorInvariant => TypeOK
  BY DEF EditorInvariant
<1> QED
  BY <1>1, EditorInvariantHolds, PTL

\* "Saved" is shown only for the text that was read or written.
THEOREM SavedIsSaved == Spec => []SavedMeansSaved
<1>1. EditorInvariant => SavedMeansSaved
  BY DEF EditorInvariant, WellFormed, SavedMeansSaved
<1> QED
  BY <1>1, EditorInvariantHolds, PTL

\* A save that passes the check replaces a text the owner has been shown.
THEOREM NothingUnseenOverwritten == Spec => []OverwritesOnlySeen
<1>1. EditorInvariant => OverwritesOnlySeen
  BY DEF EditorInvariant, WriteShape, OverwritesOnlySeen
<1> QED
  BY <1>1, EditorInvariantHolds, PTL

-----------------------------------------------------------------------------
(* What history says of the editor.                                        *)

\* Text that is unsaved is on the page and not "clean"; a write under way is of the
\* last text tried, and none is under way beside an error; an editor that is left
\* with an error has tried the text it holds.
HistoryShape ==
  /\ unsaved => ed.kind \notin {"loading", "clean"}
  /\ Busy => tried = write.text /\ ed.kind # "error"
  /\ ~mounted /\ ed.kind = "error" => tried = ed.draft

\* The start of a pass leaves history in shape.
LEMMA StartPassHistory ==
  ASSUME NEW e, StartPass(e)
  PROVE  HistoryShape'
  BY DEF StartPass, SaveStarted, Status, Apply, Render, Request, HistoryShape, Busy

\* A step that leaves write and mounted alone, and neither starts an error nor ends
\* one by anything but a change of its status.
LEMMA PageHistory ==
  ASSUME HistoryShape, UNCHANGED saveVars, UNCHANGED mounted,
         ed'.kind = "error" => ed.kind = "error" /\ (mounted \/ ed'.draft = ed.draft),
         unsaved' => ed'.kind \notin {"loading", "clean"}
  PROVE  HistoryShape'
  BY DEF HistoryShape, saveVars, Busy

\* A state reduced to f by apply(), of an editor that was not loading or is not now.
LEMMA ApplyHistory ==
  ASSUME HistoryShape, NEW f, Apply(f), f.kind = "loading" => ed.kind = "loading"
  PROVE  unsaved' => ed'.kind \notin {"loading", "clean"}
  BY DEF HistoryShape, Apply, Render

\* Every step keeps history in shape.
LEMMA HistoryStep ==
  EditorInvariant /\ HistoryShape /\ [Next]_vars => HistoryShape'
<1> SUFFICES ASSUME EditorInvariant, HistoryShape, [Next]_vars PROVE HistoryShape'
  OBVIOUS
<1>0. /\ ed.kind \in Kinds /\ mounted \in BOOLEAN
      /\ ed.kind = "saving" => Busy /\ write.text = ed.draft
      /\ ~mounted /\ ed.kind = "dirty" => Busy /\ parked > 0
  BY DEF EditorInvariant, TypeOK, EditorState, WriteShape, LeaveShape
<1>1. ASSUME NEW text \in Texts, Edit(text) PROVE HistoryShape'
  <2>1. /\ ed' = Edited(ed, text) /\ mounted
        /\ UNCHANGED saveVars /\ UNCHANGED mounted
        /\ ed.kind \notin {"loading", "unreadable"} /\ ed.draft # text
    BY <1>1 DEF Edit, Render
  <2>2. /\ ed'.kind = "error" => ed.kind = "error"
        /\ ed'.kind \notin {"loading", "clean"}
    BY <1>0, <2>1 DEF Edited, DraftFrozen, Status, Kinds, EditorInvariant, TypeOK, EditorState
  <2> QED
    BY <2>1, <2>2, PageHistory
<1>2. ASSUME SaveCalled, mounted' => mounted PROVE HistoryShape'
  <2>1. CASE Busy
    BY <1>2, <2>1 DEF SaveCalled, Unchanged, HistoryShape, Busy
  <2>2. CASE ~Busy /\ Startable(ed)
    BY <1>2, <2>2, StartPassHistory DEF SaveCalled
  <2>3. CASE ~Busy /\ ~Startable(ed)
    BY <1>2, <2>3 DEF SaveCalled, Unchanged, saveVars, HistoryShape, Startable, Busy
  <2> QED
    BY <2>1, <2>2, <2>3
<1>3. CASE Blur \/ Autosave \/ Leave
  BY <1>2, <1>3 DEF Blur, Autosave, Leave
<1>4. CASE KeepMine
  <2>1. Apply(Status(ed, "dirty", ed.disk, None)) /\ UNCHANGED saveVars /\ UNCHANGED mounted
    BY <1>4 DEF KeepMine
  <2>2. Status(ed, "dirty", ed.disk, None).kind = "dirty"
    BY DEF Status
  <2> QED
    BY <2>1, <2>2, ApplyHistory, PageHistory DEF Apply, Render
<1>5. CASE KeepDisk \/ CopyWritten
  <2>1. Apply(TakeDisk(ed)) /\ UNCHANGED saveVars /\ UNCHANGED mounted
    BY <1>5 DEF KeepDisk, CopyWritten
  <2>2. TakeDisk(ed) = ed \/ TakeDisk(ed).kind = "clean"
    BY DEF TakeDisk, Loaded
  <2> QED
    BY <2>1, <2>2, ApplyHistory, PageHistory DEF Apply, Render
<1>6. CASE ReadDelivered
  <2> DEFINE f == ReadResult(read.answer)
  <2>1. /\ Apply(f) /\ UNCHANGED saveVars /\ UNCHANGED mounted
        /\ read.answer \in Contents /\ mounted
    BY <1>0, <1>6 DEF ReadDelivered, EditorInvariant, ReadShape, LeaveShape, NoRead
  <2>2. /\ f.kind = "loading" => ed.kind = "loading"
        /\ f.kind = "error" => ed.kind = "error"
    <3>1. CASE read.answer \in {Gone, Binary}
      BY <3>1, EditorAssumption DEF ReadResult, Status
    <3>2. CASE read.answer \in Texts /\ firstRead
      BY <3>2, EditorAssumption DEF ReadResult, Loaded
    <3>3. CASE read.answer \in Texts /\ ~firstRead
      <4>1. f = External(ed, read.answer)
        BY <3>3, EditorAssumption DEF ReadResult
      <4>2. \/ External(ed, read.answer) = ed
            \/ External(ed, read.answer).kind \in {"clean", "conflict"}
        BY <1>0 DEF External, Loaded, Status, Kinds
      <4> QED
        BY <4>1, <4>2
    <3> QED
      BY <2>1, <3>1, <3>2, <3>3, EditorAssumption
      DEF Contents, EditorInvariant, TypeOK
  <2> HIDE DEF f
  <2> QED
    BY <2>1, <2>2, ApplyHistory, PageHistory DEF Apply, Render
<1>7. CASE KeepBoth \/ CopyFailed \/ Invalidate \/ ReadAtGateway \/ ReadFailed
           \/ \E content \in Contents : OutsideChange(content)
  BY <1>7
  DEF KeepBoth, CopyFailed, Invalidate, ReadAtGateway, ReadFailed, OutsideChange,
      Unchanged, saveVars, HistoryShape, Busy
<1>8. CASE CheckRevision \/ Rename \/ ReadCurrent \/ SaveFails
  <2>1. Busy /\ AtGateway /\ write'.text = write.text
    BY <1>8 DEF CheckRevision, Rename, ReadCurrent, SaveFails, Busy,
                EditorInvariant, TypeOK, NoWrite
  <2> QED
    BY <2>1 DEF AtGateway, Unchanged, HistoryShape, Busy
<1>9. ASSUME NEW e, Answered(e), mounted' = mounted, e.kind = "loading" => ed.kind = "loading",
             e.kind = "error" /\ ~mounted => parked > 0 \/ tried = e.draft
      PROVE  HistoryShape'
  <2>1. CASE Startable(e) /\ (pending \/ parked > 0)
    BY <1>9, <2>1, StartPassHistory DEF Answered
  <2>2. CASE ~(Startable(e) /\ (pending \/ parked > 0))
    <3>1. Apply(e) /\ write' = NoWrite /\ UNCHANGED tried
      BY <1>9, <2>2 DEF Answered
    <3>2. unsaved' => ed'.kind \notin {"loading", "clean"}
      BY <1>9, <3>1, ApplyHistory
    <3>3. e.kind = "error" /\ ~mounted => tried = e.draft
      BY <1>9, <2>2 DEF Startable
    <3> QED
      BY <1>9, <3>1, <3>2, <3>3 DEF HistoryShape, Busy, NoWrite, Apply, Render
  <2> QED
    BY <2>1, <2>2
<1>10. CASE SaveAnswered
  <2>1. Busy /\ mounted' = mounted /\ ed.kind # "error" /\ tried = write.text
    BY <1>10 DEF SaveAnswered, Busy, HistoryShape
  <2>2. CASE Answered(SaveApplied(ed, write.text))
    <3>1. /\ SaveApplied(ed, write.text).kind # "error"
          /\ SaveApplied(ed, write.text).kind = "loading" => ed.kind = "loading"
      BY <2>1 DEF SaveApplied, Status
    <3> QED
      BY <1>9, <2>1, <2>2, <3>1
  <2>3. CASE Answered(SaveConflicted(ed, write.current))
    <3>1. /\ SaveConflicted(ed, write.current).kind # "error"
          /\ SaveConflicted(ed, write.current).kind = "loading" => ed.kind = "loading"
      BY <2>1 DEF SaveConflicted, Status
    <3> QED
      BY <1>9, <2>1, <2>3, <3>1
  <2>4. CASE Answered(SaveFailed(ed))
    <3>1. /\ SaveFailed(ed).kind = "error" =>
               ed.kind \in {"saving", "dirty"} /\ SaveFailed(ed).draft = ed.draft
          /\ SaveFailed(ed).kind = "loading" => ed.kind = "loading"
      BY <2>1 DEF SaveFailed, Status
    <3> QED
      BY <1>0, <1>9, <2>1, <2>4, <3>1
  <2> QED
    BY <1>10, <2>2, <2>3, <2>4 DEF SaveAnswered
<1>11. CASE UNCHANGED vars
  BY <1>11 DEF vars, HistoryShape, Busy
<1> QED
  BY <1>1, <1>3, <1>4, <1>5, <1>6, <1>7, <1>8, <1>10, <1>11 DEF Next

\* History stays in shape.
LEMMA HistoryShapeHolds == Spec => []HistoryShape
<1>1. Init => HistoryShape
  BY DEF Init, HistoryShape, Busy, NoWrite
<1> QED
  BY <1>1, HistoryStep, EditorInvariantHolds, PTL DEF Spec

\* Leaving the editor leaves typed text unsaved only when a save of it, as it stands,
\* was tried and failed, or when it is in conflict or its file gone or no text.
THEOREM FlushReachesWhatItCan == Spec => []LeavingFlushes
<1>1. EditorInvariant /\ HistoryShape => LeavingFlushes
  BY DEF EditorInvariant, TypeOK, EditorState, Kinds, WriteShape, LeaveShape, HistoryShape,
         LeavingFlushes
<1> QED
  BY <1>1, EditorInvariantHolds, HistoryShapeHolds, PTL

-----------------------------------------------------------------------------
(* Reads and unsaved text. Until the first read has delivered a text the   *)
(* only draft it can replace is one typed beside a missing file.           *)

FirstReadShape ==
  firstRead => ed.kind \in {"loading", "missing", "unreadable"} /\ write = NoWrite

\* It holds initially and every step preserves it.
LEMMA FirstReadStep ==
  EditorInvariant /\ FirstReadShape /\ [Next]_vars => FirstReadShape'
<1> SUFFICES ASSUME EditorInvariant, FirstReadShape, [Next]_vars, firstRead'
             PROVE  ed'.kind \in {"loading", "missing", "unreadable"} /\ write' = NoWrite
  BY DEF FirstReadShape
<1>1. CASE ~firstRead
  BY <1>1
  DEF Next, vars, Edit, Blur, Autosave, KeepMine, KeepDisk, KeepBoth, CopyWritten,
      CopyFailed, Leave, Invalidate, ReadAtGateway, ReadDelivered, FirstReadAfter,
      ReadFailed, CheckRevision, Rename, ReadCurrent, SaveFails, SaveAnswered,
      OutsideChange, AtGateway, Unread
<1>2. CASE firstRead
  <2>1. /\ ed.kind \in {"loading", "missing", "unreadable"} /\ write = NoWrite
        /\ ~Busy /\ ~Startable(ed) /\ ed \in EditorState
    BY <1>2 DEF FirstReadShape, Busy, NoWrite, Startable, EditorInvariant, TypeOK
  <2>2. ASSUME NEW text \in Texts, Edit(text)
        PROVE  ed'.kind \in {"loading", "missing", "unreadable"} /\ write' = NoWrite
    <3>1. ed' = [ed EXCEPT !.draft = text]
      BY <2>1, <2>2 DEF Edit, Render, Edited, DraftFrozen
    <3> QED
      BY <2>1, <2>2, <3>1 DEF Edit, saveVars, EditorState
  <2>3. CASE Blur \/ Autosave \/ Leave
    BY <2>1, <2>3 DEF Blur, Autosave, Leave, SaveCalled, Unchanged, saveVars
  <2>4. CASE CopyWritten
    BY <2>1, <2>4 DEF CopyWritten, TakeDisk, Apply, Render, saveVars
  <2>5. CASE KeepBoth \/ CopyFailed \/ Invalidate \/ ReadAtGateway \/ ReadFailed
             \/ \E content \in Contents : OutsideChange(content)
    BY <2>1, <2>5
    DEF KeepBoth, CopyFailed, Invalidate, ReadAtGateway, ReadFailed, OutsideChange,
        Unchanged, saveVars
  <2>6. CASE ReadDelivered
    <3>1. read.answer \in {Gone, Binary} /\ Apply(ReadResult(read.answer))
      BY <2>6 DEF ReadDelivered, FirstReadAfter, EditorInvariant, ReadShape, Contents
    <3>2. ReadResult(read.answer).kind \in {"missing", "unreadable"}
      BY <3>1, EditorAssumption DEF ReadResult, Status
    <3> QED
      BY <2>1, <2>6, <3>1, <3>2 DEF ReadDelivered, Apply, Render, saveVars
  <2>7. CASE UNCHANGED vars
    BY <2>1, <2>7 DEF vars
  <2>8. ~(KeepMine \/ KeepDisk \/ CheckRevision \/ Rename \/ ReadCurrent \/ SaveFails
          \/ SaveAnswered)
    BY <2>1
    DEF KeepMine, KeepDisk, CheckRevision, Rename, ReadCurrent, SaveFails, SaveAnswered,
        NoWrite
  <2> QED
    BY <2>2, <2>3, <2>4, <2>5, <2>6, <2>7, <2>8 DEF Next
<1> QED
  BY <1>1, <1>2

\* The parts of the reducer that a save or a later read uses keep an unsaved draft.
LEMMA ReducerKeepsDraft ==
  ASSUME NEW e, NEW text
  PROVE  /\ SaveStarted(e).draft = e.draft
         /\ SaveApplied(e, text).draft = e.draft
         /\ SaveConflicted(e, text).draft = e.draft
         /\ SaveFailed(e).draft = e.draft
         /\ e.kind \in {"dirty", "saving", "error", "conflict", "missing"} =>
              External(e, text).draft = e.draft
<1>1. /\ SaveStarted(e).draft = e.draft
      /\ SaveApplied(e, text).draft = e.draft
      /\ SaveConflicted(e, text).draft = e.draft
      /\ SaveFailed(e).draft = e.draft
  BY DEF SaveStarted, SaveApplied, SaveConflicted, SaveFailed, Status
<1>2. ASSUME e.kind \in {"dirty", "saving", "error", "conflict", "missing"}
      PROVE  External(e, text).draft = e.draft
  <2>1. CASE e.kind \in {"saving", "conflict"}
    BY <2>1 DEF External, Status
  <2>2. CASE e.kind \in {"dirty", "error"} /\ e.revision = text
    BY <2>2 DEF External, Status
  <2>3. CASE e.kind \in {"dirty", "error"} /\ e.revision # text
    BY <2>3 DEF External, Status
  <2>4. CASE e.kind = "missing" /\ e.draft = text
    BY <2>4 DEF External, Loaded
  <2>5. CASE e.kind = "missing" /\ e.draft # text
    BY <2>5 DEF External, Status
  <2> QED
    BY <1>2, <2>1, <2>2, <2>3, <2>4, <2>5
<1> QED
  BY <1>1, <1>2

\* A step that replaces an unsaved draft is one of those named.
LEMMA UnsavedStep ==
  ASSUME EditorInvariant, HistoryShape, FirstReadShape, [Next]_vars,
         unsaved, ed'.draft # ed.draft
  PROVE  Decided \/ LostToRead \/ LostToCopy
<1>1. ed.kind \in Kinds \ {"loading", "clean"}
  BY DEF EditorInvariant, TypeOK, EditorState, HistoryShape
<1>2. ASSUME SaveCalled PROVE FALSE
  BY <1>2, ReducerKeepsDraft DEF SaveCalled, StartPass, Apply, Render, Unchanged
<1>3. ASSUME NEW e, e.draft = ed.draft, Answered(e) PROVE FALSE
  BY <1>3, ReducerKeepsDraft DEF Answered, StartPass, Apply, Render
<1>4. ASSUME SaveAnswered PROVE FALSE
  BY <1>3, <1>4, ReducerKeepsDraft DEF SaveAnswered
<1>5. ASSUME KeepMine PROVE FALSE
  BY <1>5 DEF KeepMine, Apply, Render, Status
<1>6. ASSUME ReadDelivered PROVE LostToRead
  <2>1. ed' = ReadResult(read.answer) /\ read.answer \in Contents
    BY <1>6 DEF ReadDelivered, Apply, Render, EditorInvariant, ReadShape
  <2>2. CASE read.answer \in {Gone, Binary}
    BY <2>1, <2>2, EditorAssumption DEF ReadResult, Status
  <2>3. CASE read.answer \in Texts /\ ~firstRead
    <3>1. ed' = External(ed, read.answer)
      BY <2>1, <2>3, EditorAssumption DEF ReadResult
    <3> QED
      BY <1>1, <1>6, <3>1, ReducerKeepsDraft DEF LostToRead, Kinds
  <2>4. CASE firstRead
    BY <1>1, <1>6, <2>4 DEF FirstReadShape, LostToRead
  <2> QED
    BY <2>1, <2>2, <2>3, <2>4 DEF Contents
<1>7. CASE KeepBoth \/ CopyFailed \/ Invalidate \/ ReadAtGateway \/ ReadFailed
           \/ (\E content \in Contents : OutsideChange(content))
           \/ CheckRevision \/ Rename \/ ReadCurrent \/ SaveFails \/ UNCHANGED vars
  BY <1>7
  DEF KeepBoth, CopyFailed, Invalidate, ReadAtGateway, ReadFailed, OutsideChange,
      CheckRevision, Rename, ReadCurrent, SaveFails, AtGateway, Unchanged, vars
<1>8. CASE Blur \/ Autosave \/ Leave
  BY <1>2, <1>8 DEF Blur, Autosave, Leave
<1> QED
  BY <1>4, <1>5, <1>6, <1>7, <1>8 DEF Next, Decided, LostToCopy

\* A draft that is not saved is replaced by the owner's word, by a read in one of the
\* two windows LostToRead names, or by a copy that is older than it.
THEOREM UnsavedTextIsLostOnlySo == Spec => UnsavedSurvivesReads
<1>1. Init => FirstReadShape
  BY DEF Init, FirstReadShape
<1>2. EditorInvariant /\ HistoryShape /\ FirstReadShape /\ [Next]_vars =>
        [unsaved /\ ed'.draft # ed.draft => Decided \/ LostToRead \/ LostToCopy]_vars
  BY UnsavedStep
<1> QED
  BY <1>1, <1>2, FirstReadStep, EditorInvariantHolds, HistoryShapeHolds, PTL
  DEF Spec, UnsavedSurvivesReads

=============================================================================
