---------------------------- MODULE HarnessProof ----------------------------
(***************************************************************************)
(* Theorems about Harness, for any flags and edits, and any number of      *)
(* calls, crashes, sessions, connections and requests.                     *)
(***************************************************************************)
EXTENDS Harness, TLAPS

-----------------------------------------------------------------------------
(* The invariant behind the completion marker.                             *)

HomeFields ==
  {"roots", "auth", "model", "settings", "approvals", "protected", "sandbox", "verification",
   "config", "progress", "marker", "launchd"}

\* The home and the call are records with the fields they begin with.
Shaped ==
  /\ disk = [field \in HomeFields |-> disk[field]]
  /\ call = [field \in {"pc", "flags", "answers", "explicit", "done"} |-> call[field]]
  /\ call.done \in 0 .. 9 /\ disk.progress \in 0 .. 9

\* What runs once the first write may have happened.
Writing == {"stage", "approve", "reconcile", "verify", "stamp"}

\* A call at work has the progress on record in its memory, has a stage left until it completes,
\* and no marker stands beside it.
CallKeepsProgress ==
  /\ call.pc \in Writing => call.done = disk.progress
  /\ call.pc \in {"approve", "reconcile", "verify"} => call.done < 8
  /\ call.pc = "stamp" => call.done < 9
  /\ disk.marker => disk.progress = 9 /\ call.pc \notin Writing \cup {"reset"}

\* The last stage is on record, or about to be, only over a home the doctor called ready.
ProgressMeansReady ==
  /\ ~edited /\ disk.progress = 9 => DoctorReady
  /\ ~edited /\ call.pc = "stamp" /\ call.done = 8 => DoctorReady

SetupInvariant == Shaped /\ CallKeepsProgress /\ ProgressMeansReady

\* There are nine stages, and the doctor is asked in the last.
LEMMA StagesAre ==
  /\ Len(Stages) = 9
  /\ \A i \in 0 .. 8 : Stages[i + 1] = "readiness" <=> i = 8
  BY DEF Stages

\* A stage is at its place in the list, and no stage comes after the ninth.
LEMMA StagePlace ==
  ASSUME Shaped, NEW stage, At(stage)
  PROVE  call.done < 9 /\ (stage # "readiness" => call.done < 8)
  BY StagesAre DEF At, Shaped

\* What the doctor looks at beside the marker, the progress and the rules of a config.
LEMMA DoctorFrame ==
  ASSUME DoctorReady, disk'.progress \in 4 .. 9,
         \A field \in HomeFields \ {"marker", "progress", "config", "launchd"} :
           disk'[field] = disk[field],
         disk'.config = disk.config \/ disk'.config.file = "present"
  PROVE  DoctorReady'
  BY DEF DoctorReady, HomeFields, Unacknowledged, ProtectedReadable, PolicyReadable,
     WriteRootProblem, SandboxOn

\* A step that writes nothing and leaves a call that has begun no stage.
LEMMA NothingWritten ==
  ASSUME SetupInvariant, UNCHANGED <<disk, edited>>, Shaped',
         call'.pc \notin Writing \cup {"reset"}
  PROVE  SetupInvariant'
<1> USE DEF SetupInvariant, Shaped, HomeFields, CallKeepsProgress, ProgressMeansReady, Writing
<1>1. DoctorReady => DoctorReady'
  BY DEF DoctorReady, Unacknowledged, ProtectedReadable, PolicyReadable, WriteRootProblem,
     SandboxOn
<1> QED
  BY <1>1

\* A step of a stage before the last: it ends the call, or goes on within the stage.
LEMMA StageStep ==
  ASSUME SetupInvariant, call.pc \in Writing, call.done < 9, Shaped',
         disk'.progress = disk.progress, disk'.marker = disk.marker,
         \/ call' = NoCall
         \/ /\ call' = [call EXCEPT !.pc = call'.pc] /\ call.done < 8
            /\ call'.pc \in {"approve", "reconcile", "verify", "stamp"}
  PROVE  SetupInvariant'
<1> USE DEF SetupInvariant, Shaped, HomeFields, CallKeepsProgress, ProgressMeansReady, Writing
<1>1. disk.progress < 9 /\ ~disk.marker
  OBVIOUS
<1>2. CASE call' = NoCall
  BY <1>1, <1>2 DEF NoCall
<1>3. CASE /\ call' = [call EXCEPT !.pc = call'.pc] /\ call.done < 8
           /\ call'.pc \in {"approve", "reconcile", "verify", "stamp"}
  BY <1>1, <1>3
<1> QED
  BY <1>2, <1>3

-----------------------------------------------------------------------------
(* The steps of a call.                                                    *)

\* Questions write nothing, and neither does a process that is stopped.
LEMMA QuestionsKeep ==
  ASSUME SetupInvariant,
         OfferImport \/ Menu \/ Login \/ Crash \/ (\E f \in Flags : Interview(f))
  PROVE  SetupInvariant'
<1>1. UNCHANGED <<disk, edited>>
  BY DEF OfferImport, Menu, Login, Crash, Interview, Asking
<1> USE DEF SetupInvariant, Shaped, Writing
<1>2. \/ call' = NoCall
      \/ \E f : call' = [NoCall EXCEPT !.pc = "offer", !.flags = f]
      \/ \E pc \in {"menu", "login"} : call' = [call EXCEPT !.pc = pc]
      \/ \E how : call' = [call EXCEPT !.pc = "review", !.flags.auth = how]
  BY DEF OfferImport, Menu, Login, Crash, Interview, Goto, Authenticated, Fails
<1>3. CASE call' = NoCall
  <2>1. Shaped' /\ call'.pc = "none"
    BY <1>1, <1>3 DEF NoCall
  <2> QED
    BY <1>1, <2>1, NothingWritten
<1>4. ASSUME NEW f, call' = [NoCall EXCEPT !.pc = "offer", !.flags = f]
      PROVE  SetupInvariant'
  <2>1. call' = [pc |-> "offer", flags |-> f, answers |-> NoCall.answers,
                 explicit |-> NoCall.explicit, done |-> 0]
    BY <1>4 DEF NoCall
  <2>2. Shaped' /\ call'.pc = "offer"
    BY <1>1, <2>1
  <2> QED
    BY <1>1, <2>2, NothingWritten
<1>5. ASSUME NEW pc \in {"menu", "login"}, call' = [call EXCEPT !.pc = pc]
      PROVE  SetupInvariant'
  <2>1. Shaped' /\ call'.pc = pc
    BY <1>1, <1>5
  <2> QED
    BY <1>1, <1>5, <2>1, NothingWritten
<1>6. ASSUME NEW how, call' = [call EXCEPT !.pc = "review", !.flags.auth = how]
      PROVE  SetupInvariant'
  <2>1. Shaped' /\ call'.pc = "review"
    BY <1>1, <1>6
  <2> QED
    BY <1>1, <2>1, NothingWritten
<1> QED
  BY <1>2, <1>3, <1>4, <1>5, <1>6

\* runOnboarding removes a marker before anything else, and begins where the progress ends.
LEMMA RunOnboardingKeeps ==
  ASSUME SetupInvariant, NEW f, RunOnboarding(f), UNCHANGED edited
  PROVE  SetupInvariant'
<1> USE DEF SetupInvariant, Shaped, HomeFields, CallKeepsProgress, ProgressMeansReady, Writing
<1>1. /\ call'.pc = IF Rerun THEN "reset" ELSE "stage"
      /\ call'.done = disk.progress
      /\ call' = [field \in {"pc", "flags", "answers", "explicit", "done"} |-> call'[field]]
  BY DEF RunOnboarding, NoCall
<1>2. CASE Rerun
  <2>1. disk' = [disk EXCEPT !.marker = FALSE]
    BY <1>2 DEF RunOnboarding, Writes
  <2>2. disk.progress = 9
    BY <1>2, StagesAre DEF Rerun
  <2>3. DoctorReady => DoctorReady'
    BY <2>1, <2>2, DoctorFrame
  <2> QED
    BY <1>1, <1>2, <2>1, <2>2, <2>3
<1>3. CASE ~Rerun
  <2>1. disk' = disk /\ ~disk.marker
    BY <1>3, StagesAre DEF RunOnboarding, Rerun
  <2>2. DoctorReady => DoctorReady'
    BY <2>1 DEF DoctorReady, Unacknowledged, ProtectedReadable, PolicyReadable, WriteRootProblem,
       SandboxOn
  <2> QED
    BY <1>1, <1>3, <2>1, <2>2
<1> QED
  BY <1>2, <1>3

\* A call that gets its answers runs; a review that is left does not.
LEMMA CallsKeep ==
  ASSUME SetupInvariant, Review \/ (\E f \in Flags : Onboard(f))
  PROVE  SetupInvariant'
<1>1. UNCHANGED edited
  BY DEF Review, Onboard, Bounded
<1>2. CASE \E f : RunOnboarding(f)
  BY <1>1, <1>2, RunOnboardingKeeps
<1>3. CASE Fails /\ UNCHANGED disk
  <2>1. Shaped' /\ call'.pc \notin Writing \cup {"reset"}
    BY <1>3 DEF Fails, NoCall, Writing, SetupInvariant, Shaped
  <2> QED
    BY <1>1, <1>3, <2>1, NothingWritten
<1> QED
  BY <1>2, <1>3 DEF Review, Onboard

\* The eight stages before the doctor's.
LEMMA StagesKeep ==
  ASSUME SetupInvariant,
         \/ HomeStage \/ AuthStage \/ ModelStage \/ ResourcesStage \/ Approve
         \/ CapabilitiesStage \/ ProtectedStage \/ Reconcile \/ SandboxStage \/ Verify
         \/ ServiceStage
  PROVE  SetupInvariant'
<1> DEFINE Kept == /\ disk' = [field \in HomeFields |-> disk'[field]]
                   /\ disk'.progress = disk.progress /\ disk'.marker = disk.marker
           Goes == /\ call.pc \in Writing /\ call.done < 8
                   /\ \/ call' = NoCall
                      \/ /\ call' = [call EXCEPT !.pc = call'.pc]
                         /\ call'.pc \in {"approve", "reconcile", "verify", "stamp"}
<1>1. SUFFICES Kept /\ Goes
  <2>1. call' = [field \in {"pc", "flags", "answers", "explicit", "done"} |-> call'[field]]
    BY <1>1 DEF SetupInvariant, Shaped, NoCall
  <2>2. call'.done \in 0 .. 9
    BY <1>1 DEF SetupInvariant, Shaped, NoCall
  <2>3. Shaped'
    BY <1>1, <2>1, <2>2 DEF SetupInvariant, Shaped
  <2>4. call.done < 9
    BY <1>1 DEF SetupInvariant, Shaped
  <2> QED
    BY <1>1, <2>3, <2>4, StageStep
<1> USE DEF SetupInvariant, Shaped, HomeFields, Writes, Goto, Passed, Fails
<1>2. CASE HomeStage
  <2>1. call.pc \in Writing /\ call.done < 8
    <3>1. At("home")
      BY <1>2 DEF HomeStage
    <3> QED
      BY <3>1, StagePlace DEF At, Calling, Writing
  <2>2. Kept
    BY <1>2 DEF HomeStage
  <2>3. Goes
    BY <1>2, <2>1 DEF HomeStage
  <2> QED
    BY <2>2, <2>3
<1>3. CASE AuthStage
  <2>1. call.pc \in Writing /\ call.done < 8
    <3>1. At("auth")
      BY <1>3 DEF AuthStage
    <3> QED
      BY <3>1, StagePlace DEF At, Calling, Writing
  <2>2. Kept
    BY <1>3 DEF AuthStage
  <2>3. Goes
    BY <1>3, <2>1 DEF AuthStage
  <2> QED
    BY <2>2, <2>3
<1>4. CASE ModelStage
  <2>1. call.pc \in Writing /\ call.done < 8
    <3>1. At("model")
      BY <1>4 DEF ModelStage
    <3> QED
      BY <3>1, StagePlace DEF At, Calling, Writing
  <2>2. Kept
    BY <1>4 DEF ModelStage
  <2>3. Goes
    BY <1>4, <2>1 DEF ModelStage
  <2> QED
    BY <2>2, <2>3
<1>5. CASE ResourcesStage
  <2>1. call.pc \in Writing /\ call.done < 8
    <3>1. At("resources")
      BY <1>5 DEF ResourcesStage
    <3> QED
      BY <3>1, StagePlace DEF At, Calling, Writing
  <2>2. Kept
    BY <1>5 DEF ResourcesStage
  <2>3. Goes
    BY <1>5, <2>1 DEF ResourcesStage
  <2> QED
    BY <2>2, <2>3
<1>6. CASE Approve
  <2>1. call.pc \in Writing /\ call.done < 8
    BY <1>6 DEF Approve, Calling, Writing, CallKeepsProgress
  <2>2. Kept
    BY <1>6 DEF Approve
  <2>3. Goes
    BY <1>6, <2>1 DEF Approve
  <2> QED
    BY <2>2, <2>3
<1>7. CASE CapabilitiesStage
  <2>1. call.pc \in Writing /\ call.done < 8
    <3>1. At("capabilities")
      BY <1>7 DEF CapabilitiesStage
    <3> QED
      BY <3>1, StagePlace DEF At, Calling, Writing
  <2>2. Kept
    BY <1>7 DEF CapabilitiesStage
  <2>3. Goes
    BY <1>7, <2>1 DEF CapabilitiesStage
  <2> QED
    BY <2>2, <2>3
<1>8. CASE ProtectedStage
  <2>1. call.pc \in Writing /\ call.done < 8
    <3>1. At("protected-paths")
      BY <1>8 DEF ProtectedStage
    <3> QED
      BY <3>1, StagePlace DEF At, Calling, Writing
  <2>2. Kept
    BY <1>8 DEF ProtectedStage
  <2>3. Goes
    BY <1>8, <2>1 DEF ProtectedStage
  <2> QED
    BY <2>2, <2>3
<1>9. CASE Reconcile
  <2>1. call.pc \in Writing /\ call.done < 8
    BY <1>9 DEF Reconcile, Calling, Writing, CallKeepsProgress
  <2>2. Kept
    BY <1>9 DEF Reconcile
  <2>3. Goes
    BY <1>9, <2>1 DEF Reconcile
  <2> QED
    BY <2>2, <2>3
<1>10. CASE SandboxStage
  <2>1. call.pc \in Writing /\ call.done < 8
    <3>1. At("sandbox")
      BY <1>10 DEF SandboxStage
    <3> QED
      BY <3>1, StagePlace DEF At, Calling, Writing
  <2>2. Kept
    BY <1>10 DEF SandboxStage
  <2>3. Goes
    BY <1>10, <2>1 DEF SandboxStage
  <2> QED
    BY <2>2, <2>3
<1>11. CASE Verify
  <2>1. call.pc \in Writing /\ call.done < 8
    BY <1>11 DEF Verify, Calling, Writing, CallKeepsProgress
  <2>2. Kept
    BY <1>11 DEF Verify
  <2>3. Goes
    BY <1>11, <2>1 DEF Verify
  <2> QED
    BY <2>2, <2>3
<1>12. CASE ServiceStage
  <2>1. call.pc \in Writing /\ call.done < 8
    <3>1. At("service")
      BY <1>12 DEF ServiceStage
    <3> QED
      BY <3>1, StagePlace DEF At, Calling, Writing
  <2>2. Kept
    BY <1>12 DEF ServiceStage, ConfigureFails
  <2>3. Goes
    BY <1>12, <2>1 DEF ServiceStage
  <2> QED
    BY <2>2, <2>3
<1> QED
  BY <1>2, <1>3, <1>4, <1>5, <1>6, <1>7, <1>8, <1>9, <1>10, <1>11, <1>12

\* The doctor's stage: what comes after it rests on what the doctor saw.
LEMMA ReadinessKeeps ==
  ASSUME SetupInvariant, ReadinessStage
  PROVE  SetupInvariant'
<1> USE DEF SetupInvariant, Shaped, HomeFields, CallKeepsProgress, ProgressMeansReady, Writing
<1>1. At("readiness") /\ call.pc = "stage" /\ call.done < 9 /\ disk' = disk
  BY StagePlace DEF ReadinessStage, At, Calling
<1>2. DoctorReady => DoctorReady'
  BY <1>1 DEF DoctorReady, Unacknowledged, ProtectedReadable, PolicyReadable, WriteRootProblem,
     SandboxOn
<1>3. CASE Fails
  BY <1>1, <1>3 DEF Fails, NoCall
<1>4. CASE DoctorReady /\ Passed
  BY <1>1, <1>2, <1>4 DEF Passed, Goto
<1> QED
  BY <1>3, <1>4 DEF ReadinessStage

\* A rerun begins with no progress on record.
LEMMA ResetKeeps ==
  ASSUME SetupInvariant, Reset
  PROVE  SetupInvariant'
<1> USE DEF SetupInvariant, Shaped, HomeFields, CallKeepsProgress, ProgressMeansReady, Writing
<1>1. /\ disk' = [disk EXCEPT !.progress = 0] /\ ~disk.marker
      /\ call' = [call EXCEPT !.pc = "stage", !.done = 0]
  BY DEF Reset, Calling, Writes
<1>2. /\ call'.pc = "stage" /\ call'.done = 0 /\ disk'.progress = 0
      /\ disk'.marker = disk.marker
  BY <1>1
<1>3. /\ disk' = [field \in HomeFields |-> disk'[field]]
      /\ call' = [field \in {"pc", "flags", "answers", "explicit", "done"} |-> call'[field]]
  BY <1>1
<1> QED
  BY <1>1, <1>2, <1>3

\* The ninth stage is put on record over what the doctor saw.
LEMMA StampKeeps ==
  ASSUME SetupInvariant, Stamp
  PROVE  SetupInvariant'
<1> USE DEF SetupInvariant, Shaped, HomeFields, CallKeepsProgress, ProgressMeansReady, Writing
<1>1. /\ call.pc = "stamp" /\ call.done < 9 /\ call.done = disk.progress /\ ~disk.marker
      /\ disk' = [disk EXCEPT !.progress = call.done + 1] /\ UNCHANGED edited
      /\ call' = [call EXCEPT !.pc = "stage", !.done = call.done + 1]
  BY DEF Stamp, Calling, Writes, Bounded
<1>2. /\ call'.pc = "stage" /\ call'.done = call.done + 1 /\ disk'.progress = call.done + 1
      /\ \A field \in HomeFields \ {"progress"} : disk'[field] = disk[field]
  BY <1>1
<1>3. /\ disk' = [field \in HomeFields |-> disk'[field]]
      /\ call' = [field \in {"pc", "flags", "answers", "explicit", "done"} |-> call'[field]]
  BY <1>1
<1>4. call.done = 8 /\ DoctorReady => DoctorReady'
  BY <1>2, DoctorFrame
<1>5. Shaped' /\ CallKeepsProgress'
  BY <1>1, <1>2, <1>3
<1>6. ProgressMeansReady'
  BY <1>1, <1>2, <1>4
<1> QED
  BY <1>5, <1>6

\* The marker is written with all nine on record.
LEMMA CompleteKeeps ==
  ASSUME SetupInvariant, Complete
  PROVE  SetupInvariant'
<1> USE DEF SetupInvariant, Shaped, HomeFields, CallKeepsProgress, ProgressMeansReady, Writing
<1>1. /\ disk.progress = 9 /\ disk' = [disk EXCEPT !.marker = TRUE]
      /\ call' = NoCall /\ UNCHANGED edited
  BY StagesAre DEF Complete, Calling, Writes, Bounded
<1>2. /\ call'.pc = "none" /\ call'.done = 0 /\ disk'.marker
      /\ \A field \in HomeFields \ {"marker"} : disk'[field] = disk[field]
  BY <1>1 DEF NoCall
<1>3. /\ disk' = [field \in HomeFields |-> disk'[field]]
      /\ call' = [field \in {"pc", "flags", "answers", "explicit", "done"} |-> call'[field]]
  BY <1>1 DEF NoCall
<1>4. DoctorReady => DoctorReady'
  BY <1>1, <1>2, DoctorFrame
<1>5. Shaped' /\ CallKeepsProgress'
  BY <1>1, <1>2, <1>3
<1>6. ProgressMeansReady'
  BY <1>1, <1>2, <1>4
<1> QED
  BY <1>5, <1>6

\* After a change from outside nothing is claimed until the doctor has been asked again.
LEMMA EditKeeps ==
  ASSUME SetupInvariant, NEW file, Edit(file)
  PROVE  SetupInvariant'
<1> USE DEF SetupInvariant, Shaped, HomeFields, CallKeepsProgress, ProgressMeansReady, Writing
<1>1. edited' = TRUE /\ call' = call /\ call.pc = "none"
  BY DEF Edit, NoCall
<1>2. /\ disk' = [field \in HomeFields |-> disk'[field]]
      /\ disk'.progress = disk.progress /\ disk'.marker = disk.marker
  BY DEF Edit, Writes
<1> QED
  BY <1>1, <1>2

\* A session writes the permission config, which the doctor only asks to be there.
LEMMA SessionsKeep ==
  ASSUME SetupInvariant, SessionsNext, UNCHANGED setupVars
  PROVE  SetupInvariant'
<1> USE DEF SetupInvariant, Shaped, HomeFields, CallKeepsProgress, ProgressMeansReady, Writing
<1>1. UNCHANGED <<call, edited>>
  BY DEF setupVars
<1>2. \/ disk' = disk
      \/ \E mode : disk' = [disk EXCEPT !.config = PermissionPolicy(@, mode, LoadedProtected)]
  BY DEF SessionsNext, SessionBegins, SessionLoads, SessionOpens, SessionReplaced, SessionEnds,
     BashRuns
<1>3. /\ disk' = [field \in HomeFields |-> disk'[field]]
      /\ \A field \in HomeFields \ {"config"} : disk'[field] = disk[field]
      /\ disk'.config = disk.config \/ disk'.config.file = "present"
  BY <1>2 DEF PermissionPolicy
<1>4. disk.progress = 9 \/ (call.done = 8 /\ call.pc = "stamp") =>
        (DoctorReady => DoctorReady')
  BY <1>3, DoctorFrame
<1> QED
  BY <1>1, <1>3, <1>4

\* The invariant holds of every behaviour.
THEOREM SetupInvariantHolds == Spec => []SetupInvariant
<1>1. Init => SetupInvariant
  BY DEF Init, SetupInit, SetupInvariant, Shaped, HomeFields, CallKeepsProgress,
     ProgressMeansReady, Writing, EmptyHome, NoCall
<1>2. SetupInvariant /\ [Next]_vars => SetupInvariant'
  <2> SUFFICES ASSUME SetupInvariant, [Next]_vars
               PROVE  SetupInvariant'
    OBVIOUS
  <2>1. CASE SetupNext
    BY <2>1, CallsKeep, QuestionsKeep, StagesKeep, ReadinessKeeps, ResetKeeps, StampKeeps,
       CompleteKeeps, EditKeeps DEF SetupNext
  <2>2. CASE SessionsNext /\ UNCHANGED setupVars
    BY <2>2, SessionsKeep
  <2>3. CASE UNCHANGED <<disk, setupVars>>
    <3>1. UNCHANGED <<disk, call, edited>>
      BY <2>3 DEF setupVars
    <3> QED
      BY <3>1 DEF SetupInvariant, Shaped, CallKeepsProgress, ProgressMeansReady, DoctorReady,
         Unacknowledged, ProtectedReadable, PolicyReadable, WriteRootProblem, SandboxOn
  <2>4. CASE GatewayNext /\ UNCHANGED setupVars
    <3>1. disk' = disk
      BY <2>4 DEF GatewayNext, Receive, BodyArrives
    <3> QED
      BY <2>3, <2>4, <3>1
  <2>5. CASE UNCHANGED vars
    BY <2>3, <2>5 DEF vars
  <2> QED
    BY <2>1, <2>2, <2>4, <2>5 DEF Next
<1> QED
  BY <1>1, <1>2, PTL DEF Spec

\* MarkerMeansReady: the marker stands only over a home the doctor called ready, whichever
\* calls wrote its files and wherever they were stopped.
THEOREM MarkerIsEarned == Spec => []MarkerMeansReady
<1>1. SetupInvariant => MarkerMeansReady
  BY DEF SetupInvariant, CallKeepsProgress, ProgressMeansReady, MarkerMeansReady
<1> QED
  BY <1>1, SetupInvariantHolds, PTL

-----------------------------------------------------------------------------
(* What commands run under.                                                *)

Running == Writing \cup {"reset"}

SettingsFields == {"readable", "mode", "skills", "service"}

\* The records the steps below change a field of.
BoundsShape ==
  /\ disk.settings = [field \in SettingsFields |-> disk.settings[field]]
  /\ disk.sandbox = [field \in {"file", "inHome", "denies"} |-> disk.sandbox[field]]
  /\ chosen = [setting \in DOMAIN NoChoice |-> chosen[setting]]
  /\ session = [field \in {"pc", "headless", "policy"} |-> session[field]]

\* The mode on record is the one chosen last, and a call at work that was given none has it.
ModeIsChosen ==
  /\ disk.settings.mode = chosen.mode /\ chosen.mode # "none"
  /\ ~disk.settings.readable => disk.settings.mode = Unset
  /\ call.pc \in Running => call.answers.mode # "none"
  /\ call.pc \in Running /\ "mode" \notin call.explicit /\ chosen.mode # Unset =>
       call.answers.mode = chosen.mode

\* Neither the policy on record nor one in memory lets bash write the home.
PoliciesSpareHome ==
  /\ ~WriteRootProblem(disk.sandbox) /\ ~WriteRootProblem(session.policy)
  /\ call.pc \in Running => PolicyAccepted(call.answers)

BoundsInvariant == BoundsShape /\ ModeIsChosen /\ PoliciesSpareHome /\ CommandsStayInBounds

\* A step that leaves the mode, the policy and the session alone, and a call's answers.
LEMMA BoundsFrame ==
  ASSUME BoundsInvariant, UNCHANGED <<session, commands>>,
         disk'.settings = [field \in SettingsFields |-> disk'.settings[field]],
         disk'.settings.mode = disk.settings.mode,
         disk'.settings.readable \/ disk'.settings = disk.settings,
         disk'.sandbox = disk.sandbox,
         chosen' = [setting \in DOMAIN NoChoice |-> chosen'[setting]],
         chosen'.mode = chosen.mode,
         \/ call'.pc \notin Running
         \/ /\ call.pc \in Running
            /\ call'.answers = call.answers /\ call'.explicit = call.explicit
  PROVE  BoundsInvariant'
  BY DEF BoundsInvariant, BoundsShape, ModeIsChosen, PoliciesSpareHome, CommandsStayInBounds,
     PolicyAccepted, WriteRootProblem, SandboxOn

\* Saving another setting keeps the mode: over a damaged file none was left to keep.
LEMMA SavedKeepsMode ==
  ASSUME BoundsShape, ModeIsChosen, NEW field \in {"skills", "service"}, NEW value
  PROVE  LET saved == Saved(disk.settings, field, value)
         IN /\ saved = [f \in SettingsFields |-> saved[f]]
            /\ saved.mode = disk.settings.mode
            /\ saved.readable
<1>1. CASE disk.settings.readable
  BY <1>1 DEF BoundsShape, SettingsFields, Saved
<1>2. CASE ~disk.settings.readable
  BY <1>2 DEF ModeIsChosen, SettingsFields, Saved, NoSettings
<1> QED
  BY <1>1, <1>2

\* Choosing anything else keeps the mode that was chosen.
LEMMA ChoosesKeepsMode ==
  ASSUME BoundsShape, NEW setting \in DOMAIN NoChoice \ {"mode"}, NEW value,
         \/ Chooses(setting, value) \/ UNCHANGED chosen
         \/ chosen' = [chosen EXCEPT ![setting] = value]
  PROVE  /\ chosen' = [s \in DOMAIN NoChoice |-> chosen'[s]]
         /\ chosen'.mode = chosen.mode
  BY DEF BoundsShape, Chooses, NoChoice

\* Questions, and a process that is stopped.
LEMMA QuestionsStayInBounds ==
  ASSUME Shaped, BoundsInvariant, UNCHANGED <<session, commands>>,
         OfferImport \/ Menu \/ Login \/ Crash \/ (\E f \in Flags : Interview(f))
  PROVE  BoundsInvariant'
<1>1. UNCHANGED <<disk, chosen>>
  BY DEF OfferImport, Menu, Login, Crash, Interview, Asking
<1>2. \/ call' = NoCall
      \/ \E f : call' = [NoCall EXCEPT !.pc = "offer", !.flags = f]
      \/ \E pc \in {"menu", "login"} : call' = [call EXCEPT !.pc = pc]
      \/ \E how : call' = [call EXCEPT !.pc = "review", !.flags.auth = how]
  BY DEF OfferImport, Menu, Login, Crash, Interview, Goto, Authenticated, Fails
<1>3. call'.pc \in {"none", "offer", "menu", "login", "review"}
  <2>1. CASE call' = NoCall
    BY <2>1 DEF NoCall
  <2>2. ASSUME NEW f, call' = [NoCall EXCEPT !.pc = "offer", !.flags = f]
        PROVE  call'.pc = "offer"
    <3>1. call' = [pc |-> "offer", flags |-> f, answers |-> NoCall.answers,
                   explicit |-> NoCall.explicit, done |-> 0]
      BY <2>2 DEF NoCall
    <3> QED
      BY <3>1
  <2>3. ASSUME NEW pc \in {"menu", "login"}, call' = [call EXCEPT !.pc = pc]
        PROVE  call'.pc = pc
    BY <2>3 DEF Shaped
  <2>4. ASSUME NEW how, call' = [call EXCEPT !.pc = "review", !.flags.auth = how]
        PROVE  call'.pc = "review"
    BY <2>4 DEF Shaped
  <2> QED
    BY <1>2, <2>1, <2>2, <2>3, <2>4
<1>4. call'.pc \notin Running
  BY <1>3 DEF Running, Writing
<1> QED
  BY <1>1, <1>4, BoundsFrame DEF BoundsInvariant, BoundsShape

\* runOnboarding refuses a policy that would let bash write the home, and takes the mode from
\* the flags or from the record.
LEMMA RunOnboardingInBounds ==
  ASSUME BoundsInvariant, NEW f, RunOnboarding(f), UNCHANGED <<session, commands, chosen>>,
         Shaped
  PROVE  BoundsInvariant'
<1>1. disk'.settings = disk.settings /\ disk'.sandbox = disk.sandbox
  BY DEF RunOnboarding, Writes, Shaped, HomeFields
<1>2. /\ call'.answers = Answers(f) /\ call'.explicit = ExplicitFlags(f)
      /\ PolicyAccepted(Answers(f))
  BY DEF RunOnboarding, NoCall
<1>3. Answers(f).mode = Or(f.mode, Or(Recorded.mode, "allow"))
  BY DEF Answers, Recorded
<1>4. "mode" \notin ExplicitFlags(f) /\ chosen.mode # Unset => Answers(f).mode = chosen.mode
  <2> SUFFICES ASSUME "mode" \notin ExplicitFlags(f), chosen.mode # Unset
               PROVE  Answers(f).mode = chosen.mode
    OBVIOUS
  <2>1. f.mode = "none"
    BY DEF ExplicitFlags, NoChoice, Given
  <2>2. Recorded.mode = chosen.mode
    BY DEF Recorded, BoundsInvariant, ModeIsChosen
  <2> QED
    BY <1>3, <2>1, <2>2 DEF Or, BoundsInvariant, ModeIsChosen
<1>5. Answers(f).mode # "none"
  BY <1>3 DEF Or
<1> QED
  BY <1>1, <1>2, <1>4, <1>5 DEF BoundsInvariant, BoundsShape, ModeIsChosen, PoliciesSpareHome,
     CommandsStayInBounds, PolicyAccepted, WriteRootProblem, SandboxOn

\* A review that is left, and a call that runs.
LEMMA CallsStayInBounds ==
  ASSUME Shaped, BoundsInvariant, UNCHANGED <<session, commands>>,
         Review \/ (\E f \in Flags : Onboard(f))
  PROVE  BoundsInvariant'
<1>1. UNCHANGED chosen
  BY DEF Review, Onboard
<1>2. CASE \E f : RunOnboarding(f)
  BY <1>1, <1>2, RunOnboardingInBounds
<1>3. CASE Fails /\ UNCHANGED disk
  <2>1. call'.pc \notin Running
    BY <1>3 DEF Fails, NoCall, Running, Writing
  <2> QED
    BY <1>1, <1>3, <2>1, BoundsFrame DEF BoundsInvariant, BoundsShape
<1> QED
  BY <1>2, <1>3 DEF Review, Onboard

\* A stage that writes neither the mode nor the policy.
LEMMA StagesStayInBounds ==
  ASSUME Shaped, BoundsInvariant, UNCHANGED <<session, commands>>,
         \/ Reset \/ HomeStage \/ AuthStage \/ ModelStage \/ ResourcesStage \/ Approve
         \/ ProtectedStage \/ Reconcile \/ Verify \/ ServiceStage \/ ReadinessStage
         \/ Stamp \/ Complete
  PROVE  BoundsInvariant'
<1> USE DEF BoundsInvariant
<1>1. \/ call' = NoCall
      \/ \E pc : call' = [call EXCEPT !.pc = pc]
      \/ \E pc, n : call' = [call EXCEPT !.pc = pc, !.done = n]
  BY DEF Reset, HomeStage, AuthStage, ModelStage, ResourcesStage, Approve, ProtectedStage,
     Reconcile, Verify, ServiceStage, ReadinessStage, Stamp, Complete, Passed, Goto, Fails
<1>2. call.pc \in Running
  BY DEF Reset, HomeStage, AuthStage, ModelStage, ResourcesStage, Approve, ProtectedStage,
     Reconcile, Verify, ServiceStage, ReadinessStage, Stamp, Complete, At, Calling, Running,
     Writing
<1>3. \/ call'.pc \notin Running
      \/ call'.answers = call.answers /\ call'.explicit = call.explicit
  <2>1. CASE call' = NoCall
    BY <2>1 DEF NoCall, Running, Writing
  <2>2. CASE \E pc : call' = [call EXCEPT !.pc = pc]
    BY <2>2 DEF Shaped
  <2>3. CASE \E pc, n : call' = [call EXCEPT !.pc = pc, !.done = n]
    BY <2>3 DEF Shaped
  <2> QED
    BY <1>1, <2>1, <2>2, <2>3
<1>4. \/ \E setting \in DOMAIN NoChoice \ {"mode"} : \E value :
           \/ Chooses(setting, value)
           \/ chosen' = [chosen EXCEPT ![setting] = value]
      \/ UNCHANGED chosen
  <2>1. CASE ResourcesStage
    BY <2>1 DEF ResourcesStage, NoChoice
  <2>2. CASE ProtectedStage
    BY <2>2 DEF ProtectedStage, NoChoice
  <2>3. CASE ServiceStage
    BY <2>3 DEF ServiceStage, NoChoice
  <2> QED
    BY <2>1, <2>2, <2>3 DEF Reset, HomeStage, AuthStage, ModelStage, Approve, Reconcile, Verify,
       ReadinessStage, Stamp, Complete
<1>5. /\ chosen' = [s \in DOMAIN NoChoice |-> chosen'[s]]
      /\ chosen'.mode = chosen.mode
  BY <1>4, ChoosesKeepsMode DEF BoundsShape
<1>6. /\ disk'.sandbox = disk.sandbox
      /\ \/ disk'.settings = disk.settings
         \/ \E field \in {"skills", "service"} : \E value :
              disk'.settings = Saved(disk.settings, field, value)
  <2> USE DEF Writes, Shaped, HomeFields
  <2>1. CASE ResourcesStage
    BY <2>1 DEF ResourcesStage
  <2>2. CASE ServiceStage
    <3>1. CASE ConfigureFails
      BY <3>1 DEF ConfigureFails
    <3>2. CASE \E launchd : disk' = [disk EXCEPT
                 !.launchd = launchd,
                 !.settings = Saved(@, "service", call.answers.service)]
      BY <3>2
    <3> QED
      BY <2>2, <3>1, <3>2 DEF ServiceStage
  <2>3. CASE AuthStage
    BY <2>3 DEF AuthStage
  <2>4. CASE Approve \/ Reconcile \/ Verify \/ ProtectedStage
    BY <2>4 DEF Approve, Reconcile, Verify, ProtectedStage
  <2> QED
    BY <2>1, <2>2, <2>3, <2>4 DEF Reset, HomeStage, ModelStage, ReadinessStage, Stamp, Complete
<1>7. /\ disk'.settings = [field \in SettingsFields |-> disk'.settings[field]]
      /\ disk'.settings.mode = disk.settings.mode
      /\ disk'.settings.readable \/ disk'.settings = disk.settings
  BY <1>6, SavedKeepsMode DEF BoundsShape
<1> QED
  BY <1>2, <1>3, <1>5, <1>6, <1>7, BoundsFrame

\* The two stages that write the mode and the policy.
LEMMA PostureStaysInBounds ==
  ASSUME Shaped, BoundsInvariant, UNCHANGED <<session, commands>>,
         CapabilitiesStage \/ SandboxStage
  PROVE  BoundsInvariant'
<1>1. call.pc \in Running
  BY DEF CapabilitiesStage, SandboxStage, At, Calling, Running, Writing
<1>2. call'.answers = call.answers /\ call'.explicit = call.explicit
  BY DEF CapabilitiesStage, SandboxStage, Goto, Shaped
<1>3. CASE CapabilitiesStage
  <2>1. /\ disk'.settings = Saved(disk.settings, "mode", call.answers.mode)
        /\ disk'.sandbox = disk.sandbox
    BY <1>3 DEF CapabilitiesStage, Writes, Shaped, HomeFields
  <2>2. /\ disk'.settings = [field \in SettingsFields |-> disk'.settings[field]]
        /\ disk'.settings.mode = call.answers.mode /\ disk'.settings.readable
    <3>1. CASE disk.settings.readable
      BY <2>1, <3>1 DEF Saved, BoundsInvariant, BoundsShape, SettingsFields
    <3>2. CASE ~disk.settings.readable
      BY <2>1, <3>2 DEF Saved, NoSettings, SettingsFields
    <3> QED
      BY <3>1, <3>2
  <2>3. /\ chosen' = [s \in DOMAIN NoChoice |-> chosen'[s]]
        /\ chosen'.mode = call.answers.mode
    BY <1>1, <1>3 DEF CapabilitiesStage, Chooses, NoChoice, BoundsInvariant, BoundsShape,
       ModeIsChosen
  <2>4. BoundsShape' /\ PoliciesSpareHome' /\ CommandsStayInBounds'
    BY <1>1, <1>2, <2>1, <2>2, <2>3 DEF BoundsInvariant, BoundsShape, PoliciesSpareHome,
       CommandsStayInBounds, PolicyAccepted, WriteRootProblem, SandboxOn
  <2>5. ModeIsChosen'
    BY <1>1, <1>2, <2>2, <2>3 DEF BoundsInvariant, ModeIsChosen
  <2> QED
    BY <2>4, <2>5 DEF BoundsInvariant
<1>4. CASE SandboxStage
  <2>1. /\ disk'.settings = disk.settings
        /\ \E denies : disk'.sandbox = [file |-> call.answers.sandbox,
                                        inHome |-> call.answers.root = "home",
                                        denies |-> denies]
    BY <1>4 DEF SandboxStage, Writes, Shaped, HomeFields
  <2>2. ~WriteRootProblem(disk'.sandbox)
    <3>1. PICK denies : disk'.sandbox = [file |-> call.answers.sandbox,
                                         inHome |-> call.answers.root = "home",
                                         denies |-> denies]
      BY <2>1
    <3>2. /\ disk'.sandbox.file = call.answers.sandbox
          /\ disk'.sandbox.inHome = (call.answers.root = "home")
      BY <3>1
    <3> QED
      BY <1>1, <3>2 DEF BoundsInvariant, PoliciesSpareHome, PolicyAccepted, WriteRootProblem,
         SandboxOn
  <2>3. disk'.sandbox = [field \in {"file", "inHome", "denies"} |-> disk'.sandbox[field]]
    BY <2>1
  <2>4. /\ chosen' = [s \in DOMAIN NoChoice |-> chosen'[s]]
        /\ chosen'.mode = chosen.mode
    BY <1>4, ChoosesKeepsMode DEF SandboxStage, NoChoice, BoundsInvariant
  <2> QED
    BY <1>1, <1>2, <2>1, <2>2, <2>3, <2>4 DEF BoundsInvariant, BoundsShape, ModeIsChosen,
       PoliciesSpareHome, CommandsStayInBounds, PolicyAccepted, WriteRootProblem, SandboxOn
<1> QED
  BY <1>3, <1>4

\* What is changed from outside is the owner's choice, or lost.
LEMMA EditStaysInBounds ==
  ASSUME Shaped, BoundsInvariant, UNCHANGED <<session, commands>>, NEW file, Edit(file)
  PROVE  BoundsInvariant'
<1> USE DEF BoundsInvariant
<1>1. call' = call /\ call.pc \notin Running
  BY DEF Edit, NoCall, Running, Writing
<1>2. CASE file = "settings"
  <2>1. /\ disk'.settings = DamagedSettings /\ disk'.sandbox = disk.sandbox
        /\ chosen' = ChoicesLost
    BY <1>2 DEF Edit, Writes, Shaped, HomeFields
  <2>2. /\ chosen' = [s \in DOMAIN NoChoice |-> chosen'[s]]
        /\ chosen'.mode = Unset
    BY <2>1 DEF ChoicesLost, BoundsShape, NoChoice
  <2>3. /\ disk'.settings = [field \in SettingsFields |-> disk'.settings[field]]
        /\ disk'.settings.mode = Unset
    BY <2>1 DEF DamagedSettings, NoSettings, SettingsFields
  <2> QED
    BY <1>1, <2>1, <2>2, <2>3 DEF BoundsShape, ModeIsChosen, PoliciesSpareHome, Unset,
       CommandsStayInBounds, WriteRootProblem, SandboxOn
<1>3. CASE file = "mode"
  <2>1. PICK mode \in Modes : /\ disk'.settings = Saved(disk.settings, "mode", mode)
                              /\ disk'.sandbox = disk.sandbox
                              /\ chosen' = [chosen EXCEPT !.mode = mode]
    BY <1>3 DEF Edit, Writes, Shaped, HomeFields
  <2>2. disk.settings.readable
    BY <1>3 DEF Edit
  <2>3. /\ disk'.settings = [field \in SettingsFields |-> disk'.settings[field]]
        /\ disk'.settings.mode = mode /\ disk'.settings.readable
    BY <2>1, <2>2 DEF Saved, BoundsShape, SettingsFields
  <2>4. /\ chosen' = [s \in DOMAIN NoChoice |-> chosen'[s]]
        /\ chosen'.mode = mode
    BY <2>1 DEF BoundsShape, NoChoice
  <2> QED
    BY <1>1, <2>1, <2>3, <2>4 DEF BoundsShape, ModeIsChosen, PoliciesSpareHome, Modes,
       CommandsStayInBounds, WriteRootProblem, SandboxOn
<1>4. CASE file = "sandbox"
  <2>1. /\ disk'.settings = disk.settings /\ chosen' = chosen
        /\ disk'.sandbox = [disk.sandbox EXCEPT !.file = "damaged"]
    BY <1>4 DEF Edit, Writes, Shaped, HomeFields
  <2>2. /\ disk'.sandbox = [field \in {"file", "inHome", "denies"} |-> disk'.sandbox[field]]
        /\ disk'.sandbox.file = "damaged"
    BY <2>1 DEF BoundsShape
  <2> QED
    BY <1>1, <2>1, <2>2 DEF BoundsShape, ModeIsChosen, PoliciesSpareHome,
       CommandsStayInBounds, WriteRootProblem, SandboxOn
<1>5. CASE file \notin {"settings", "mode", "sandbox"}
  <2>1. disk'.settings = disk.settings /\ disk'.sandbox = disk.sandbox /\ chosen' = chosen
    BY <1>5 DEF Edit, Writes, Shaped, HomeFields
  <2> QED
    BY <1>1, <2>1, BoundsFrame DEF BoundsShape
<1> QED
  BY <1>2, <1>3, <1>4, <1>5

\* A session begins with the policy on record, and its bash reads the mode for each command.
LEMMA SessionsStayInBounds ==
  ASSUME Shaped, BoundsInvariant, SessionsNext, UNCHANGED setupVars
  PROVE  BoundsInvariant'
<1> USE DEF BoundsInvariant
<1>1. call' = call /\ chosen' = chosen
  BY DEF setupVars
<1>2. disk'.settings = disk.settings /\ disk'.sandbox = disk.sandbox
  BY DEF SessionsNext, SessionBegins, SessionLoads, SessionOpens, SessionReplaced, SessionEnds,
     BashRuns, Shaped, HomeFields
<1>3. /\ session' = [field \in {"pc", "headless", "policy"} |-> session'[field]]
      /\ ~WriteRootProblem(session'.policy)
  <2>1. CASE \/ \E headless \in BOOLEAN : SessionBegins(headless)
             \/ SessionReplaced \/ SessionEnds
    <3>1. \E pc, headless :
            session' = [pc |-> pc, headless |-> headless, policy |-> NoPolicy]
      BY <2>1 DEF SessionBegins, SessionReplaced, SessionEnds, NoSession
    <3>2. PICK pc, headless :
            session' = [pc |-> pc, headless |-> headless, policy |-> NoPolicy]
      BY <3>1
    <3>3. session' = [field \in {"pc", "headless", "policy"} |-> session'[field]]
      BY <3>2
    <3>4. session'.policy.file = "missing"
      BY <3>2 DEF NoPolicy
    <3> QED
      BY <3>3, <3>4 DEF WriteRootProblem, SandboxOn
  <2>2. CASE SessionLoads
    BY <2>2 DEF SessionLoads, NoSession, NoPolicy, WriteRootProblem, SandboxOn, BoundsShape,
       PoliciesSpareHome
  <2>3. CASE SessionOpens
    BY <2>3 DEF SessionOpens, NoSession, NoPolicy, WriteRootProblem, SandboxOn, BoundsShape,
       PoliciesSpareHome
  <2>4. CASE \E text \in Texts : BashRuns(text, chosen.mode)
    BY <2>4 DEF BashRuns, BoundsShape, PoliciesSpareHome
  <2> QED
    BY <2>1, <2>2, <2>3, <2>4 DEF SessionsNext
<1>4. CommandsStayInBounds'
  <2>1. CASE UNCHANGED commands
    BY <2>1 DEF CommandsStayInBounds
  <2>2. ASSUME NEW text \in Texts, BashRuns(text, chosen.mode)
        PROVE  CommandsStayInBounds'
    <3> DEFINE new == [text |-> text, headless |-> session.headless, choice |-> chosen.mode,
                       policy |-> session.policy]
    <3>1. commands' = commands \cup {new} /\ ReachesShell(text)
      BY <2>2 DEF BashRuns
    <3>2. ~WriteRootProblem(new.policy)
      BY DEF PoliciesSpareHome
    <3>3. new.choice # "read-only"
      BY <3>1 DEF ReachesShell, EffectiveMode, ModeIsChosen, Unset
    <3>4. new.choice = "ask" => new.text = "other" /\ ~new.headless
      BY <3>1 DEF ReachesShell, EffectiveMode, ModeIsChosen, Unset
    <3> HIDE DEF new
    <3> QED
      BY <3>1, <3>2, <3>3, <3>4 DEF CommandsStayInBounds
  <2> QED
    BY <2>1, <2>2 DEF SessionsNext, SessionBegins, SessionLoads, SessionOpens, SessionReplaced,
       SessionEnds
<1> QED
  BY <1>1, <1>2, <1>3, <1>4 DEF BoundsShape, ModeIsChosen, PoliciesSpareHome

\* The invariant holds of every behaviour.
THEOREM BoundsInvariantHolds == Spec => []BoundsInvariant
<1>1. Init => BoundsInvariant
  <2> SUFFICES ASSUME Init
               PROVE  BoundsInvariant
    OBVIOUS
  <2>1. /\ disk.settings = NoSettings /\ disk.sandbox = NoPolicy /\ call.pc = "none"
        /\ chosen = NoChoice /\ session = NoSession /\ commands = {}
    BY DEF Init, SetupInit, SessionsInit, EmptyHome, NoCall
  <2>2. BoundsShape
    BY <2>1 DEF BoundsShape, NoSettings, NoPolicy, NoChoice, NoSession, SettingsFields
  <2>3. ModeIsChosen
    BY <2>1 DEF ModeIsChosen, NoSettings, NoChoice, Unset, Running, Writing
  <2>4. PoliciesSpareHome /\ CommandsStayInBounds
    BY <2>1 DEF PoliciesSpareHome, CommandsStayInBounds, NoPolicy, NoSession, WriteRootProblem,
       SandboxOn, Running, Writing
  <2> QED
    BY <2>2, <2>3, <2>4 DEF BoundsInvariant
<1>2. Shaped /\ BoundsInvariant /\ [Next]_vars => BoundsInvariant'
  <2> SUFFICES ASSUME Shaped, BoundsInvariant, [Next]_vars
               PROVE  BoundsInvariant'
    OBVIOUS
  <2>1. CASE SetupNext /\ UNCHANGED sessionVars
    <3>1. UNCHANGED <<session, commands>>
      BY <2>1 DEF sessionVars
    <3> QED
      BY <2>1, <3>1, CallsStayInBounds, QuestionsStayInBounds, StagesStayInBounds,
         PostureStaysInBounds, EditStaysInBounds DEF SetupNext
  <2>2. CASE SessionsNext /\ UNCHANGED setupVars
    BY <2>2, SessionsStayInBounds
  <2>3. CASE UNCHANGED <<disk, setupVars, sessionVars>>
    <3>1. UNCHANGED <<disk, call, chosen, session, commands>>
      BY <2>3 DEF setupVars, sessionVars
    <3> QED
      BY <3>1 DEF BoundsInvariant, BoundsShape, ModeIsChosen, PoliciesSpareHome,
         CommandsStayInBounds, PolicyAccepted
  <2>4. CASE GatewayNext /\ UNCHANGED <<setupVars, sessionVars>>
    BY <2>3, <2>4 DEF GatewayNext, Receive, BodyArrives
  <2>5. CASE UNCHANGED vars
    BY <2>3, <2>5 DEF vars
  <2> QED
    BY <2>1, <2>2, <2>4, <2>5 DEF Next
<1>3. Spec => []SetupInvariant
  BY SetupInvariantHolds
<1>4. SetupInvariant => Shaped
  BY DEF SetupInvariant
<1> QED
  BY <1>1, <1>2, <1>3, <1>4, PTL DEF Spec

\* CommandsStayInBounds: no command reaches a shell against the mode chosen last, nor in a
\* sandbox that may write the home, however calls, edits and sessions interleave.
THEOREM CommandsInBounds == Spec => []CommandsStayInBounds
<1>1. BoundsInvariant => CommandsStayInBounds
  BY DEF BoundsInvariant
<1> QED
  BY <1>1, BoundsInvariantHolds, PTL

-----------------------------------------------------------------------------
(* The permission config of a completed home.                              *)

ConfigAgrees ==
  /\ disk.config.changes = ChangeAction(EffectiveMode(disk.settings))
  /\ disk.config.bash = ChangeAction(EffectiveMode(disk.settings))
  /\ LoadedProtected \subseteq disk.config.denied

\* The protected paths are the sixth stage, the last that changes what the config follows.
ConfigKept ==
  /\ edits \in Nat
  /\ call.pc \in {"approve", "verify"} => call.done # 5
  /\ edits = 0 => disk.settings.readable
  /\ edits = 0 /\ disk.progress >= 6 => ConfigAgrees
  /\ edits = 0 /\ call.pc = "stamp" /\ call.done = 5 => ConfigAgrees

\* A step that leaves the config and what it follows alone, outside the sixth stage.
LEMMA ConfigFrame ==
  ASSUME ConfigKept, UNCHANGED edits,
         disk'.config = disk.config, disk'.protected = disk.protected,
         edits = 0 => /\ disk'.settings.readable
                      /\ EffectiveMode(disk'.settings) = EffectiveMode(disk.settings),
         disk'.progress = disk.progress \/ disk'.progress = 0,
         call'.pc \in {"approve", "verify", "stamp"} =>
           call'.done # 5 \/ (call'.pc = call.pc /\ call'.done = call.done)
  PROVE  ConfigKept'
  BY DEF ConfigKept, ConfigAgrees, LoadedProtected

\* A config just reconciled agrees with what it was reconciled from.
LEMMA ReconciledAgrees ==
  ASSUME disk'.settings = disk.settings, disk'.protected = disk.protected,
         disk'.config = PermissionPolicy(disk.config, EffectiveMode(disk.settings),
                                         LoadedProtected)
  PROVE  ConfigAgrees'
  BY DEF ConfigAgrees, PermissionPolicy, LoadedProtected

\* Saving another setting over settings that can be read keeps the mode in effect.
LEMMA SavedKeepsEffect ==
  ASSUME BoundsShape, disk.settings.readable, NEW field \in {"skills", "service"}, NEW value
  PROVE  LET saved == Saved(disk.settings, field, value)
         IN saved.readable /\ EffectiveMode(saved) = EffectiveMode(disk.settings)
  BY DEF BoundsShape, SettingsFields, Saved, EffectiveMode

\* A stage other than the sixth is at another place of the list.
LEMMA SixthStage ==
  ASSUME Shaped, NEW stage, At(stage), stage # "protected-paths"
  PROVE  call.done # 5
  BY DEF At, Stages, Shaped

\* What a call does before its first stage, between stages, and when it ends.
LEMMA CallsKeepConfig ==
  ASSUME Shaped, ConfigKept,
         \/ OfferImport \/ Menu \/ Login \/ Crash \/ (\E f \in Flags : Interview(f))
         \/ Review \/ (\E f \in Flags : Onboard(f)) \/ Reset \/ Complete
  PROVE  ConfigKept'
<1>1. UNCHANGED edits
  BY DEF OfferImport, Menu, Login, Crash, Interview, Review, Onboard, Reset, Complete, Asking,
     Bounded
<1>2. /\ disk'.config = disk.config /\ disk'.protected = disk.protected
      /\ disk'.settings = disk.settings
      /\ disk'.progress = disk.progress \/ disk'.progress = 0
  <2>1. \/ disk' = disk
        \/ disk' = [disk EXCEPT !.progress = 0]
        \/ \E mark : disk' = [disk EXCEPT !.marker = mark]
    BY DEF OfferImport, Menu, Login, Crash, Interview, Review, Onboard, Reset, Complete, Asking,
       RunOnboarding, Writes
  <2> QED
    BY <2>1 DEF Shaped, HomeFields, Writes
<1>3. call'.pc \notin {"approve", "verify", "stamp"}
  <2>1. CASE OfferImport \/ Menu \/ Login
    <3>1. \/ call' = NoCall
          \/ \E pc \in {"menu", "login"} : call' = [call EXCEPT !.pc = pc]
          \/ \E how : call' = [call EXCEPT !.pc = "review", !.flags.auth = how]
      BY <2>1 DEF OfferImport, Menu, Login, Goto, Authenticated, Fails
    <3>2. CASE call' = NoCall
      BY <3>2 DEF NoCall
    <3>3. CASE \E pc \in {"menu", "login"} : call' = [call EXCEPT !.pc = pc]
      BY <3>3 DEF Shaped
    <3>4. CASE \E how : call' = [call EXCEPT !.pc = "review", !.flags.auth = how]
      BY <3>4 DEF Shaped
    <3> QED
      BY <3>1, <3>2, <3>3, <3>4
  <2>2. ASSUME NEW f, Interview(f)
        PROVE  call'.pc = "offer"
    <3>1. call' = [pc |-> "offer", flags |-> f, answers |-> NoCall.answers,
                   explicit |-> NoCall.explicit, done |-> 0]
      BY <2>2 DEF Interview, NoCall
    <3> QED
      BY <3>1
  <2>3. CASE Crash \/ Complete
    <3>1. call' = NoCall
      BY <2>3 DEF Crash, Complete
    <3> QED
      BY <3>1 DEF NoCall
  <2>4. ASSUME NEW f, RunOnboarding(f)
        PROVE  call'.pc \in {"reset", "stage"}
    BY <2>4 DEF RunOnboarding, NoCall
  <2>5. CASE Reset
    BY <2>5 DEF Reset, Shaped
  <2>6. CASE Fails
    BY <2>6 DEF Fails, NoCall
  <2> QED
    BY <2>1, <2>2, <2>3, <2>4, <2>5, <2>6 DEF Review, Onboard
<1> QED
  BY <1>1, <1>2, <1>3, ConfigFrame DEF ConfigKept

\* A stage that writes nothing the config follows, or saves a setting that is not the mode.
LEMMA OtherStagesKeepConfig ==
  ASSUME Shaped, BoundsShape, ConfigKept,
         \/ HomeStage \/ AuthStage \/ ModelStage \/ ResourcesStage \/ Approve \/ SandboxStage
         \/ Verify \/ ServiceStage \/ ReadinessStage
  PROVE  ConfigKept'
<1>1. UNCHANGED edits
  BY DEF HomeStage, AuthStage, ModelStage, ResourcesStage, Approve, SandboxStage, Verify,
     ServiceStage, ReadinessStage, Bounded
<1>2. call.done # 5
  BY SixthStage DEF HomeStage, AuthStage, ModelStage, ResourcesStage, Approve, SandboxStage,
     Verify, ServiceStage, ReadinessStage, Calling, ConfigKept
<1>3. call'.done # 5
  <2>1. call' = NoCall \/ \E pc : call' = [call EXCEPT !.pc = pc]
    BY DEF HomeStage, AuthStage, ModelStage, ResourcesStage, Approve, SandboxStage, Verify,
       ServiceStage, ReadinessStage, Passed, Goto, Fails
  <2> QED
    BY <1>2, <2>1 DEF Shaped, NoCall
<1>4. /\ disk'.config = disk.config /\ disk'.protected = disk.protected
      /\ disk'.progress = disk.progress
      /\ \/ disk'.settings = disk.settings
         \/ \E field \in {"skills", "service"} : \E value :
              disk'.settings = Saved(disk.settings, field, value)
  <2> USE DEF Writes, Shaped, HomeFields
  <2>1. CASE ResourcesStage
    BY <2>1 DEF ResourcesStage
  <2>2. CASE ServiceStage
    <3>1. CASE ConfigureFails
      BY <3>1 DEF ConfigureFails
    <3>2. CASE \E launchd : disk' = [disk EXCEPT
                 !.launchd = launchd,
                 !.settings = Saved(@, "service", call.answers.service)]
      BY <3>2
    <3> QED
      BY <2>2, <3>1, <3>2 DEF ServiceStage
  <2>3. CASE AuthStage
    BY <2>3 DEF AuthStage
  <2>4. CASE HomeStage \/ ModelStage \/ Approve
    BY <2>4 DEF HomeStage, ModelStage, Approve
  <2>5. CASE SandboxStage \/ Verify \/ ReadinessStage
    BY <2>5 DEF SandboxStage, Verify, ReadinessStage
  <2> QED
    BY <2>1, <2>2, <2>3, <2>4, <2>5
<1>5. edits = 0 => /\ disk'.settings.readable
                   /\ EffectiveMode(disk'.settings) = EffectiveMode(disk.settings)
  BY <1>4, SavedKeepsEffect DEF ConfigKept
<1> QED
  BY <1>1, <1>3, <1>4, <1>5, ConfigFrame

\* The stages that change what the config follows come before the sixth is on record, and what
\* puts it on record comes after the config was reconciled.
LEMMA PostureKeepsConfig ==
  ASSUME SetupInvariant, BoundsShape, ConfigKept,
         CapabilitiesStage \/ ProtectedStage \/ Reconcile \/ Stamp
  PROVE  ConfigKept'
<1> USE DEF SetupInvariant, Shaped, HomeFields, Writes, Goto
<1>1. UNCHANGED edits
  BY DEF CapabilitiesStage, ProtectedStage, Reconcile, Stamp, Bounded
<1>2. CASE CapabilitiesStage
  <2>1. /\ ~(disk'.progress >= 6) /\ call'.pc = "reconcile"
    BY <1>2 DEF CapabilitiesStage, At, Calling, Stages, CallKeepsProgress, Writing
  <2>2. edits = 0 => disk'.settings.readable
    BY <1>2 DEF CapabilitiesStage, Saved, ConfigKept, BoundsShape, SettingsFields
  <2> QED
    BY <1>1, <2>1, <2>2 DEF ConfigKept
<1>3. CASE ProtectedStage
  <2>1. /\ ~(disk'.progress >= 6) /\ call'.pc = "reconcile"
    BY <1>3 DEF ProtectedStage, At, Calling, Stages, CallKeepsProgress, Writing
  <2>2. disk'.settings = disk.settings
    BY <1>3 DEF ProtectedStage
  <2> QED
    BY <1>1, <2>1, <2>2 DEF ConfigKept
<1>4. CASE Reconcile
  <2>1. CASE Fails /\ UNCHANGED disk
    BY <1>1, <2>1, ConfigFrame DEF Fails, NoCall, ConfigKept
  <2>2. CASE Passed /\ Writes("config", PermissionPolicy(disk.config,
                          EffectiveMode(disk.settings), LoadedProtected))
    <3>1. /\ disk'.settings = disk.settings /\ disk'.protected = disk.protected
          /\ disk'.config = PermissionPolicy(disk.config, EffectiveMode(disk.settings),
                                             LoadedProtected)
      BY <2>2
    <3>2. ConfigAgrees'
      BY <3>1, ReconciledAgrees
    <3>3. call'.pc = "stamp"
      BY <2>2 DEF Passed
    <3> QED
      BY <1>1, <3>1, <3>2, <3>3 DEF ConfigKept
  <2> QED
    BY <1>4, <2>1, <2>2 DEF Reconcile
<1>5. CASE Stamp
  <2>1. /\ call.pc = "stamp" /\ call.done = disk.progress /\ call'.pc = "stage"
        /\ disk'.progress = call.done + 1
        /\ disk'.settings = disk.settings /\ disk'.protected = disk.protected
        /\ disk'.config = disk.config
    BY <1>5 DEF Stamp, Calling, CallKeepsProgress, Writing
  <2>2. edits = 0 /\ disk'.progress >= 6 => ConfigAgrees
    BY <2>1 DEF ConfigKept
  <2> QED
    BY <1>1, <2>1, <2>2 DEF ConfigKept, ConfigAgrees, LoadedProtected
<1> QED
  BY <1>2, <1>3, <1>4, <1>5

\* ConfigFollowsChoices: the config of a completed home agrees with the mode and the protected
\* paths on record, though calls and sessions rewrite all of them at different times.
THEOREM ConfigFollows == Spec => []ConfigFollowsChoices
<1>1. Init => ConfigKept
  BY DEF Init, SetupInit, ConfigKept, EmptyHome, NoCall, NoSettings
<1>2. SetupInvariant /\ BoundsShape /\ ConfigKept /\ [Next]_vars => ConfigKept'
  <2> SUFFICES ASSUME SetupInvariant, BoundsShape, ConfigKept, [Next]_vars
               PROVE  ConfigKept'
    OBVIOUS
  <2> USE DEF SetupInvariant
  <2>1. ASSUME NEW file, Edit(file)
        PROVE  ConfigKept'
    <3>1. edits' = edits + 1 /\ call' = call /\ call.pc = "none"
      BY <2>1 DEF Edit, NoCall
    <3> QED
      BY <3>1 DEF ConfigKept
  <2>2. CASE SetupNext
    BY <2>1, <2>2, CallsKeepConfig, OtherStagesKeepConfig, PostureKeepsConfig DEF SetupNext
  <2>3. CASE UNCHANGED <<disk, setupVars>>
    <3>1. UNCHANGED <<disk, call, edits>>
      BY <2>3 DEF setupVars
    <3> QED
      BY <3>1 DEF ConfigKept, ConfigAgrees, LoadedProtected
  <2>4. CASE SessionLoads /\ UNCHANGED setupVars
    <3>1. UNCHANGED <<call, edits>>
      BY <2>4 DEF setupVars
    <3>2. CASE disk' = [disk EXCEPT
            !.config = PermissionPolicy(@, EffectiveMode(disk.settings), LoadedProtected)]
      <4>1. /\ disk'.settings = disk.settings /\ disk'.protected = disk.protected
            /\ disk'.config = PermissionPolicy(disk.config, EffectiveMode(disk.settings),
                                               LoadedProtected)
        BY <3>2 DEF Shaped, HomeFields
      <4>2. ConfigAgrees'
        BY <4>1, ReconciledAgrees
      <4> QED
        BY <3>1, <4>1, <4>2 DEF ConfigKept
    <3> QED
      BY <2>3, <2>4, <3>2 DEF SessionLoads
  <2>5. CASE SessionsNext /\ UNCHANGED setupVars
    BY <2>3, <2>4, <2>5 DEF SessionsNext, SessionBegins, SessionOpens, SessionReplaced,
       SessionEnds, BashRuns
  <2>6. CASE GatewayNext /\ UNCHANGED setupVars
    BY <2>3, <2>6 DEF GatewayNext, Receive, BodyArrives
  <2>7. CASE UNCHANGED vars
    BY <2>3, <2>7 DEF vars
  <2> QED
    BY <2>2, <2>5, <2>6, <2>7 DEF Next
<1>3. SetupInvariant /\ ConfigKept => ConfigFollowsChoices
  BY DEF SetupInvariant, CallKeepsProgress, ConfigKept, ConfigAgrees, ConfigFollowsChoices,
     SetupComplete
<1>4. BoundsInvariant => BoundsShape
  BY DEF BoundsInvariant
<1> QED
  BY <1>1, <1>2, <1>3, <1>4, SetupInvariantHolds, BoundsInvariantHolds, PTL DEF Spec

-----------------------------------------------------------------------------
(* The gateway's caller policy.                                            *)

\* AgentKeepsOutOfCommands: the check over the stored schedule and the write are one step, so
\* that it holds however long the body took.
THEOREM AgentKeepsOut == Spec => []AgentKeepsOutOfCommands
<1>1. Init => AgentKeepsOutOfCommands
  BY DEF Init, GatewayInit, NoEffect, AgentKeepsOutOfCommands
<1>2. AgentKeepsOutOfCommands /\ [Next]_vars => AgentKeepsOutOfCommands'
  <2> SUFFICES ASSUME AgentKeepsOutOfCommands, [Next]_vars
               PROVE  AgentKeepsOutOfCommands'
    OBVIOUS
  <2>1. CASE UNCHANGED effect
    BY <2>1 DEF AgentKeepsOutOfCommands
  <2>2. ASSUME NEW s \in Slots, NEW q \in Asks, Receive(s, q)
        PROVE  AgentKeepsOutOfCommands'
    BY <2>1, <2>2 DEF Receive, Nothing, Run, Delete, Note, Acts, MayTouch, AgentKeepsOutOfCommands
  <2>3. ASSUME NEW s \in Slots, BodyArrives(s)
        PROVE  AgentKeepsOutOfCommands'
    BY <2>1, <2>3 DEF BodyArrives, Nothing, Create, Update, Note, Acts, MayTouch,
       AgentKeepsOutOfCommands
  <2>4. CASE GatewayNext
    BY <2>2, <2>3, <2>4 DEF GatewayNext
  <2> QED
    BY <2>1, <2>4 DEF Next, vars, gatewayVars
<1> QED
  BY <1>1, <1>2, PTL DEF Spec
=============================================================================
