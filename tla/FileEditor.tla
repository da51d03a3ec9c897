----------------------------- MODULE FileEditor -----------------------------
(***************************************************************************)
(* One editor of the web app (apps/web/src/components/file-editor.tsx with *)
(* the reducer of apps/web/src/lib/workspace-editor.ts), the file it has   *)
(* open, and the Gateway's conditional write of that file                  *)
(* (src/workspace/files.ts behind apps/web/src/app/api/workspace/file).    *)
(*                                                                         *)
(* A text stands for the whole content of the file and also for its        *)
(* revision, which is a hash of the content: two revisions are equal       *)
(* exactly when the texts are (a byte order mark aside).                   *)
(***************************************************************************)
EXTENDS Naturals

CONSTANTS
  Texts,        \* contents a UTF-8 file can have
  Blank,        \* the empty one, which a new editor starts from
  Gone,         \* no file at the path
  Binary,       \* a file that is not UTF-8 text
  None,         \* undefined
  MaxEdits,     \* bound: changes the owner types
  MaxOutside,   \* bound: changes of the file by anyone else
  MaxFailures,  \* bound: saves that fail at the Gateway or on the way back
  MaxParked     \* bound: calls of save() by blur that wait for a write

ASSUME EditorAssumption ==
  /\ Blank \in Texts
  /\ Gone \notin Texts /\ Binary \notin Texts /\ None \notin Texts
  /\ Gone # Binary
  /\ MaxEdits \in Nat /\ MaxOutside \in Nat
  /\ MaxFailures \in Nat /\ MaxParked \in Nat

VARIABLES
  disk,       \* what is at the path
  ed,         \* stateRef.current: the draft and its status
  firstRead,  \* firstReadRef.current
  read,       \* the read that has not been cancelled: its stage and answer
  write,      \* the write of the current pass: writeRef.current and the request
  pending,    \* pendingRef.current
  parked,     \* calls of save() that await the current pass
  copy,       \* the text Keep both is writing beside the file, or None
  mounted,    \* the editor is on the page
  edits, outside, failures

\* History, no variable of the code and read by no action.
VARIABLES
  seen,       \* every text the page has shown the owner
  unsaved,    \* the draft holds typed text that no "clean" has covered since
  tried       \* the text of the last request to save

vars == <<disk, ed, firstRead, read, write, pending, parked, copy, mounted,
          edits, outside, failures, seen, unsaved, tried>>

saveVars == <<write, pending, parked, tried>>
boundVars == <<edits, outside, failures>>

Contents == Texts \cup {Gone, Binary}

Kinds == {"loading", "clean", "dirty", "saving", "error", "conflict", "missing",
          "unreadable"}

\* EditorState: revision is the base of a conflict, disk its other side.
EditorState == [draft: Texts, kind: Kinds, revision: Texts \cup {None},
                disk: Texts \cup {None}]

NoRead == [stage |-> "none", answer |-> None]
NoWrite == [stage |-> "idle", text |-> None, base |-> None, current |-> None]

-----------------------------------------------------------------------------
(* The reducer.                                                            *)

Status(e, kind, revision, other) ==
  [draft |-> e.draft, kind |-> kind, revision |-> revision, disk |-> other]

Loaded(e, text) == [draft |-> text, kind |-> "clean", revision |-> text, disk |-> None]

\* The editor is taken to have a revision when its file is missing.
SlipDraftFrozen(e) == e.kind \in {"conflict", "loading", "unreadable"}

DraftFrozen(e) == e.kind \in {"conflict", "missing", "loading", "unreadable"}

Edited(e, text) ==
  IF DraftFrozen(e) \/ e.draft = text
  THEN [e EXCEPT !.draft = text]
  ELSE [Status(e, "dirty", e.revision, None) EXCEPT !.draft = text]

Startable(e) == e.kind \in {"dirty", "error"}

SaveStarted(e) == Status(e, "saving", e.revision, None)

\* What was typed during the save counts as saved.
SlipSaveApplied(e, revision) ==
  IF e.kind \in {"saving", "dirty"} THEN Status(e, "clean", revision, None) ELSE e

SaveApplied(e, revision) ==
  CASE e.kind = "saving" -> Status(e, "clean", revision, None)
    [] e.kind = "dirty"  -> Status(e, "dirty", revision, None)
    [] OTHER             -> e

SaveConflicted(e, current) ==
  IF e.kind \in {"saving", "dirty"} THEN Status(e, "conflict", e.revision, current) ELSE e

SaveFailed(e) ==
  IF e.kind \in {"saving", "dirty"} THEN Status(e, "error", e.revision, None) ELSE e

External(e, text) ==
  CASE e.kind = "saving" -> e
    [] e.kind = "conflict" -> Status(e, "conflict", e.revision, text)
    [] e.kind \in {"loading", "unreadable"} -> Loaded(e, text)
    [] e.kind = "missing" /\ e.draft = text -> Loaded(e, text)
    [] e.kind = "missing" /\ e.draft # text -> Status(e, "conflict", text, text)
    [] e.kind \in {"clean", "dirty", "error"} /\ e.revision = text -> e
    [] e.kind = "clean" /\ e.revision # text -> Loaded(e, text)
    [] e.kind \in {"dirty", "error"} /\ e.revision # text ->
         Status(e, "conflict", e.revision, text)

\* keep-disk and keep-both
TakeDisk(e) == IF e.kind = "conflict" THEN Loaded(e, e.disk) ELSE e

-----------------------------------------------------------------------------
(* What the page shows: the draft once there is one, both sides of a       *)
(* conflict.                                                               *)

Shown(e) ==
  IF e.kind \in {"loading", "unreadable"} THEN {} ELSE {e.draft, e.disk} \ {None}

\* apply(): the reducer's result becomes the state and is rendered.
Render(e) == ed' = e /\ seen' = seen \cup Shown(e)
Apply(e) == Render(e) /\ unsaved' = (unsaved /\ e.kind # "clean")

Unread == UNCHANGED <<firstRead, read>>
Unchanged == UNCHANGED <<ed, seen, unsaved>>

-----------------------------------------------------------------------------
(* save() and writeDraft(). A pass has a request under way until its last  *)
(* iteration ends; the microtasks that end it, run its finally and resume  *)
(* the parked calls belong to the step that delivers the answer.           *)

Busy == write.stage # "idle"

Request(e) == [stage |-> "sent", text |-> e.draft, base |-> e.revision, current |-> None]

StartPass(e) == Apply(SaveStarted(e)) /\ write' = Request(e) /\ tried' = e.draft

\* A call during a write returns.
SlipSaveCalled ==
  IF ~Busy /\ Startable(ed)
  THEN StartPass(ed) /\ UNCHANGED <<pending, parked>>
  ELSE Unchanged /\ UNCHANGED saveVars

SaveCalled ==
  IF Busy
  THEN pending' = TRUE /\ parked' = parked + 1 /\ UNCHANGED <<write, tried>> /\ Unchanged
  ELSE IF Startable(ed)
       THEN StartPass(ed) /\ UNCHANGED <<pending, parked>>
       ELSE Unchanged /\ UNCHANGED saveVars

\* The answer has been reduced to e: another iteration if one is pending, then
\* the first parked call that finds unsaved text, which the others wait for.
Answered(e) ==
  IF Startable(e) /\ (pending \/ parked > 0)
  THEN /\ StartPass(e)
       /\ parked' = (IF pending THEN parked ELSE parked - 1)
       /\ pending' = (~pending /\ parked > 1)
  ELSE /\ Apply(e)
       /\ write' = NoWrite /\ pending' = FALSE /\ parked' = 0 /\ UNCHANGED tried

-----------------------------------------------------------------------------
(* The owner. The text area is disabled while there is no text to edit; a  *)
(* click outside it blurs it, and "Try again" calls save() as well.        *)

Edit(text) ==
  /\ mounted /\ edits < MaxEdits
  /\ ed.kind \notin {"loading", "unreadable"} /\ ed.draft # text
  /\ Render(Edited(ed, text)) /\ unsaved' = TRUE
  /\ edits' = edits + 1
  /\ UNCHANGED <<disk, copy, mounted, outside, failures>> /\ UNCHANGED saveVars /\ Unread

Blur ==
  /\ mounted
  /\ IF Busy THEN parked < MaxParked ELSE Startable(ed)
  /\ SaveCalled
  /\ UNCHANGED <<disk, copy, mounted>> /\ UNCHANGED boundVars /\ Unread

\* Only what was typed is saved again, not what failed to be.
SlipAutosaveArmed == mounted /\ ~Busy /\ ed.kind = "dirty"

\* The effect arms the timer when no write is under way, and the tick at the
\* end of a pass makes it look again.
AutosaveArmed == mounted /\ ~Busy /\ Startable(ed)

Autosave ==
  /\ AutosaveArmed
  /\ SaveCalled
  /\ UNCHANGED <<disk, copy, mounted>> /\ UNCHANGED boundVars /\ Unread

KeepMine ==
  /\ mounted /\ ed.kind = "conflict"
  /\ Apply(Status(ed, "dirty", ed.disk, None))
  /\ UNCHANGED <<disk, copy, mounted>> /\ UNCHANGED saveVars /\ UNCHANGED boundVars /\ Unread

KeepDisk ==
  /\ mounted /\ ed.kind = "conflict"
  /\ Apply(TakeDisk(ed))
  /\ UNCHANGED <<disk, copy, mounted>> /\ UNCHANGED saveVars /\ UNCHANGED boundVars /\ Unread

\* The copy goes to another file; the editor changes when it has been written.
\* A failed copy changes nothing but a message.
KeepBoth ==
  /\ mounted /\ ed.kind = "conflict" /\ copy = None
  /\ copy' = ed.draft
  /\ UNCHANGED <<disk, mounted>> /\ UNCHANGED saveVars /\ UNCHANGED boundVars
  /\ Unread /\ Unchanged

CopyWritten ==
  /\ copy # None
  /\ copy' = None
  /\ Apply(TakeDisk(ed))
  /\ UNCHANGED <<disk, mounted>> /\ UNCHANGED saveVars /\ UNCHANGED boundVars /\ Unread

CopyFailed ==
  /\ copy # None
  /\ copy' = None
  /\ UNCHANGED <<disk, mounted>> /\ UNCHANGED saveVars /\ UNCHANGED boundVars
  /\ Unread /\ Unchanged

\* Unmount: the read is cancelled, the timer cleared, and the flush calls save().
Leave ==
  /\ mounted
  /\ mounted' = FALSE
  /\ read' = NoRead
  /\ SaveCalled
  /\ UNCHANGED <<disk, firstRead, copy>> /\ UNCHANGED boundVars

-----------------------------------------------------------------------------
(* Reads. An event of the Gateway, a reconnected stream or the focus of    *)
(* the window bumps the token, which cancels the read and sends another.   *)

Invalidate ==
  /\ mounted
  /\ read' = [stage |-> "sent", answer |-> None]
  /\ UNCHANGED <<disk, firstRead, copy, mounted>> /\ UNCHANGED saveVars
  /\ UNCHANGED boundVars /\ Unchanged

ReadAtGateway ==
  /\ read.stage = "sent"
  /\ read' = [stage |-> "answered", answer |-> disk]
  /\ UNCHANGED <<disk, firstRead, copy, mounted>> /\ UNCHANGED saveVars
  /\ UNCHANGED boundVars /\ Unchanged

\* Every read is taken for the first.
SlipFirstReadAfter(text) == firstRead

\* firstReadRef after an answer: only a text ends the first read.
FirstReadAfter(answer) == firstRead /\ answer \notin Texts

ReadResult(answer) ==
  CASE answer = Gone   -> Status(ed, "missing", None, None)
    [] answer = Binary -> Status(ed, "unreadable", None, None)
    [] answer \in Texts /\ firstRead  -> Loaded(ed, answer)
    [] answer \in Texts /\ ~firstRead -> External(ed, answer)

ReadDelivered ==
  /\ read.stage = "answered"
  /\ read' = NoRead
  /\ firstRead' = FirstReadAfter(read.answer)
  /\ Apply(ReadResult(read.answer))
  /\ UNCHANGED <<disk, copy, mounted>> /\ UNCHANGED saveVars /\ UNCHANGED boundVars

\* Any other failure is a message; the status stays.
ReadFailed ==
  /\ read.stage # "none"
  /\ read' = NoRead
  /\ UNCHANGED <<disk, firstRead, copy, mounted>> /\ UNCHANGED saveVars
  /\ UNCHANGED boundVars /\ Unchanged

-----------------------------------------------------------------------------
(* The Gateway's half of a save: the revision is checked, the file is      *)
(* replaced by a rename some awaits later, and a refused save is answered  *)
(* with the file as a second read finds it.                                *)

\* No check.
SlipMayWrite(base) == TRUE

MayWrite(base) == base = None \/ base = disk

AtGateway ==
  UNCHANGED <<copy, mounted, pending, parked, tried, edits>> /\ Unread /\ Unchanged

CheckRevision ==
  /\ write.stage = "sent"
  /\ write' = [write EXCEPT !.stage = IF MayWrite(write.base) THEN "checked" ELSE "changed",
                            !.current = IF MayWrite(write.base) THEN disk ELSE None]
  /\ UNCHANGED <<disk, outside, failures>> /\ AtGateway

Rename ==
  /\ write.stage = "checked"
  /\ disk' = write.text
  /\ write' = [write EXCEPT !.stage = "written", !.current = None]
  /\ UNCHANGED <<outside, failures>> /\ AtGateway

ReadCurrent ==
  /\ write.stage = "changed"
  /\ write' = [write EXCEPT !.stage = IF disk \in Texts THEN "refused" ELSE "failed",
                            !.current = IF disk \in Texts THEN disk ELSE None]
  /\ UNCHANGED <<disk, outside, failures>> /\ AtGateway

\* Before the rename, or after it with the answer lost.
SaveFails ==
  /\ write.stage \in {"sent", "checked", "changed", "written"} /\ failures < MaxFailures
  /\ write' = [write EXCEPT !.stage = "failed", !.current = None]
  /\ failures' = failures + 1
  /\ UNCHANGED <<disk, outside>> /\ AtGateway

SaveAnswered ==
  /\ \/ write.stage = "written" /\ Answered(SaveApplied(ed, write.text))
     \/ write.stage = "refused" /\ Answered(SaveConflicted(ed, write.current))
     \/ write.stage = "failed"  /\ Answered(SaveFailed(ed))
  /\ UNCHANGED <<disk, copy, mounted>> /\ UNCHANGED boundVars /\ Unread

\* An agent, a command or another program changes or removes the file.
OutsideChange(content) ==
  /\ outside < MaxOutside /\ content # disk
  /\ disk' = content
  /\ outside' = outside + 1
  /\ UNCHANGED <<copy, mounted, edits, failures>> /\ UNCHANGED saveVars /\ Unread /\ Unchanged

-----------------------------------------------------------------------------

Init ==
  /\ disk \in Contents
  /\ ed = [draft |-> Blank, kind |-> "loading", revision |-> None, disk |-> None]
  /\ firstRead = TRUE
  /\ read = [stage |-> "sent", answer |-> None]
  /\ write = NoWrite /\ pending = FALSE /\ parked = 0
  /\ copy = None /\ mounted = TRUE
  /\ seen = {} /\ unsaved = FALSE /\ tried = None
  /\ edits = 0 /\ outside = 0 /\ failures = 0

Next ==
  \/ \E text \in Texts : Edit(text)
  \/ Blur \/ Autosave \/ KeepMine \/ KeepDisk \/ KeepBoth \/ CopyWritten \/ CopyFailed
  \/ Leave
  \/ Invalidate \/ ReadAtGateway \/ ReadDelivered \/ ReadFailed
  \/ CheckRevision \/ Rename \/ ReadCurrent \/ SaveFails \/ SaveAnswered
  \/ \E content \in Contents : OutsideChange(content)

\* The timer fires once typing stops (edits are bounded, so it does), the Gateway serves a request
\* it has and the page handles an answer it gets. Nothing makes the owner act.
Fairness ==
  /\ WF_vars(Autosave)
  /\ WF_vars(CheckRevision) /\ WF_vars(Rename) /\ WF_vars(ReadCurrent)
  /\ WF_vars(SaveAnswered)

Spec == Init /\ [][Next]_vars /\ Fairness

-----------------------------------------------------------------------------
(* Properties.                                                             *)

\* Types, and: the statuses that carry a revision have one, so that every save
\* is conditional (baseRevision may return undefined, and a write without a
\* revision overwrites).
TypeOK ==
  /\ disk \in Contents
  /\ ed \in EditorState
  /\ ed.kind \in {"clean", "dirty", "saving", "error", "conflict"} => ed.revision \in Texts
  /\ ed.kind = "conflict" <=> ed.disk \in Texts
  /\ firstRead \in BOOLEAN /\ mounted \in BOOLEAN /\ pending \in BOOLEAN
  /\ parked \in 0..(MaxParked + 1)
  /\ copy \in Texts \cup {None}
  /\ read \in [stage : {"none", "sent", "answered"}, answer : Contents \cup {None}]
  /\ write = NoWrite \/
     write \in [stage : {"sent", "checked", "changed", "written", "refused", "failed"},
                text : Texts, base : Texts, current : Texts \cup {None}]
  /\ seen \subseteq Texts /\ unsaved \in BOOLEAN /\ tried \in Texts \cup {None}

\* "Saved" is shown for the text that was read or written, never for one typed
\* while the write of an older one was under way.
SavedMeansSaved == ed.kind = "clean" => ed.draft = ed.revision

\* A save replaces only a text the owner has been shown: whatever reads, answers
\* and choices came before it, the revision it is based on is not one the page
\* skipped over. (A change between the check and the rename is out of the
\* check's reach: what the check found is what is compared.)
OverwritesOnlySeen == write.stage = "checked" => write.current \in seen

\* What may replace the draft by the owner's word: typing, the choice of the file's
\* side, and the copy, once the draft as it stands has been written beside the file.
Decided ==
  KeepDisk \/ (CopyWritten /\ copy = ed.draft) \/ \E text \in Texts : Edit(text)

\* Two reads replace it without: the first text read after the page said "missing",
\* and any text read after it said "unreadable".
LostToRead == ReadDelivered /\ (ed.kind = "unreadable" \/ (ed.kind = "missing" /\ firstRead))

\* The copy replaces what was typed since it was sent.
LostToCopy == CopyWritten /\ copy # ed.draft

\* The draft is "never replaced without an explicit action" (workspace-editor.ts:16),
\* except in these windows, which the code has: whatever reads, answers and saves
\* come in whatever order, typed text that is not saved is lost in no other way.
UnsavedSurvivesReads ==
  [][unsaved /\ ed'.draft # ed.draft => Decided \/ LostToRead \/ LostToCopy]_vars

\* The words of workspace-editor.ts:16 without the exceptions.
DraftIsKept == [][unsaved /\ ed'.draft # ed.draft => Decided]_vars

\* Leaving the editor flushes it. Once its calls of save() are over, typed text that
\* is not saved is text whose last save was tried, as it stands, and failed, or text
\* in conflict, or of a file that is gone or no text. For what was in one of these
\* three when the editor was left no save is tried, and of a conflict that only the
\* flush meets nobody is told.
LeavingFlushes ==
  ~mounted /\ ~Busy /\ unsaved =>
    \/ ed.kind = "error" /\ tried = ed.draft
    \/ ed.kind \in {"conflict", "missing", "unreadable"}

\* While the file is open, unsaved text is saved in the end or the owner is
\* asked, unless there is no text file to compare it with: failed saves are
\* tried again.
UnsavedSettles ==
  mounted /\ ed.kind \in {"dirty", "saving", "error"} ~>
    ~mounted \/ ed.kind \in {"clean", "conflict", "missing", "unreadable"} \/ disk \notin Texts

=============================================================================
