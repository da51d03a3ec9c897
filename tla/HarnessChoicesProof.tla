------------------------- MODULE HarnessChoicesProof -------------------------
(***************************************************************************)
(* What onboarding keeps of the owner's choices: the invariant behind      *)
(* ChoicesAreKept, for any flags, calls, crashes and changes from outside. *)
(***************************************************************************)
EXTENDS HarnessProof

-----------------------------------------------------------------------------
(* The invariant.                                                          *)

Questions == {"offer", "menu", "login", "review"}
Settled == {"skills", "service", "protected", "sandbox"}

\* A call that still asks may go on over the sandbox policy there is.
AnswersFit ==
  /\ call.pc \in Questions =>
       /\ call.flags \in FlagSet /\ call.flags.interactive
       /\ PolicyReadable \/ Given(call.flags, "sandbox")
  /\ call.pc \in Running =>
       /\ call.answers.protected \in {"empty", "some"} /\ call.answers.sandbox \in {"off", "on"}
       /\ call.answers.skills \in SkillModes \cup {"none"}
       /\ call.answers.service \in Choices \cup {"none"}

\* The settings record what was chosen last, all of it, or nothing of it once they are damaged.
SettingsAreChosen ==
  /\ disk.settings.skills = chosen.skills /\ chosen.skills \in SkillModes \cup {Unset}
  /\ disk.settings.service = chosen.service /\ chosen.service \in Choices \cup {Unset}
  /\ ~disk.settings.readable => chosen.skills = Unset /\ chosen.service = Unset

\* A file of its own records the choice, or is damaged, or was never written.
FilesAreChosen ==
  /\ \/ disk.protected = "damaged"
     \/ disk.protected = "missing" /\ chosen.protected = Unset
     \/ disk.protected = chosen.protected /\ chosen.protected # Unset
  /\ \/ disk.sandbox.file = "damaged"
     \/ disk.sandbox.file = "missing" /\ chosen.sandbox = Unset
     \/ disk.sandbox.file = chosen.sandbox /\ chosen.sandbox # Unset
  /\ chosen.protected \in {Unset, "empty", "some"} /\ chosen.sandbox \in {Unset, "off", "on"}

\* What a call was not told it answers as chosen; the skills only once there are approvals.
AnswersAreChosen ==
  /\ call.pc \in Running =>
       \A setting \in Settled :
         setting \notin call.explicit /\ chosen[setting] # Unset
         /\ (setting = "skills" => disk.approvals # "none") =>
           call.answers[setting] = chosen[setting]
  /\ call.pc = "approve" => call.answers.skills = chosen.skills

\* From the seventh stage on bash is denied what the owner protects.
DenialsHold ==
  /\ disk.progress >= 7 => LoadedProtected \subseteq disk.sandbox.denies
  /\ call.pc \in {"approve", "reconcile", "verify", "stamp"} /\ call.done = 6 =>
       LoadedProtected \subseteq disk.sandbox.denies

ChoicesInvariant ==
  AnswersFit /\ SettingsAreChosen /\ FilesAreChosen /\ AnswersAreChosen /\ DenialsHold

\* What the proofs of the steps start from.
Known == SetupInvariant /\ BoundsShape /\ ChoicesInvariant

\* A step that leaves the files of the choices alone, of a call that keeps its answers or ends.
LEMMA ChoicesFrame ==
  ASSUME ChoicesInvariant, DenialsHold', chosen' = chosen,
         disk'.settings = disk.settings, disk'.protected = disk.protected,
         disk'.sandbox = disk.sandbox, disk'.approvals = disk.approvals,
         \/ call'.pc \notin Running \cup Questions
         \/ /\ call.pc \in Running /\ call'.pc \in Running \ {"approve"}
            /\ call'.answers = call.answers /\ call'.explicit = call.explicit
  PROVE  ChoicesInvariant'
<1> USE DEF ChoicesInvariant
<1>1. AnswersFit'
  BY DEF AnswersFit, Running, Writing, Questions
<1>2. SettingsAreChosen' /\ FilesAreChosen'
  BY DEF SettingsAreChosen, FilesAreChosen
<1>3. AnswersAreChosen'
  BY DEF AnswersAreChosen, Running, Writing
<1> QED
  BY <1>1, <1>2, <1>3

\* The denials stand when neither side of them changes and no stage is newly passed.
LEMMA DenialsFrame ==
  ASSUME DenialsHold, disk'.protected = disk.protected, disk'.sandbox = disk.sandbox,
         disk'.progress = disk.progress \/ disk'.progress = 0,
         call'.pc \in {"approve", "reconcile", "verify", "stamp"} /\ call'.done = 6 =>
           /\ call.pc \in {"approve", "reconcile", "verify", "stamp"} /\ call.done = 6
  PROVE  DenialsHold'
  BY DEF DenialsHold, LoadedProtected

-----------------------------------------------------------------------------
(* A call begins.                                                          *)

\* What was not told is answered as the home records it, and so as it was chosen.
LEMMA RunOnboardingKeepsChoices ==
  ASSUME Known, NEW f \in FlagSet, RunOnboarding(f), UNCHANGED chosen,
         PolicyReadable \/ Given(f, "sandbox"), ProtectedReadable \/ Given(f, "protected")
  PROVE  ChoicesInvariant'
<1> USE DEF Known, ChoicesInvariant
<1>1. /\ disk'.settings = disk.settings /\ disk'.protected = disk.protected
      /\ disk'.sandbox = disk.sandbox /\ disk'.approvals = disk.approvals
      /\ disk'.progress = disk.progress
  BY DEF RunOnboarding, Writes, SetupInvariant, Shaped, HomeFields
<1>2. /\ call'.answers = Answers(f) /\ call'.explicit = ExplicitFlags(f)
      /\ call'.pc \in {"reset", "stage"}
  BY DEF RunOnboarding, NoCall
<1>3. /\ Answers(f).protected = Or(f.protected, Or(Recorded.protected, "empty"))
      /\ Answers(f).sandbox = Or(f.sandbox, Or(Recorded.sandbox, "off"))
      /\ Answers(f).skills = IF f.ack \/ f.interactive \/ Given(f, "skills")
                             THEN Or(f.skills, Or(Recorded.skills, "all")) ELSE Recorded.skills
      /\ Answers(f).service = Or(f.service, IF f.interactive THEN Or(Recorded.service, "declined")
                                            ELSE Recorded.service)
  BY DEF Answers, Recorded
<1>4. \A setting \in Settled : setting \notin ExplicitFlags(f) => f[setting] = "none"
  BY DEF ExplicitFlags, NoChoice, Given, Settled
<1>5. /\ Answers(f).protected \in {"empty", "some"} /\ Answers(f).sandbox \in {"off", "on"}
      /\ Answers(f).skills \in SkillModes \cup {"none"}
      /\ Answers(f).service \in Choices \cup {"none"}
  <2>1. Recorded.protected \in {"none", "empty", "some"}
    <3>1. Recorded.protected = IF disk.protected \in {"missing", "damaged"} THEN "none"
                               ELSE disk.protected
      BY DEF Recorded
    <3> QED
      BY <3>1 DEF FilesAreChosen, Unset
  <2>2. Recorded.sandbox \in {"none", "off", "on"}
    <3>1. Recorded.sandbox = IF disk.sandbox.file \in {"missing", "damaged"} THEN "none"
                             ELSE disk.sandbox.file
      BY DEF Recorded
    <3> QED
      BY <3>1 DEF FilesAreChosen, Unset
  <2>3. Recorded.skills \in SkillModes \cup {"none"}
    BY DEF Recorded, SkillsOf, SettingsAreChosen, SkillModes
  <2>4. Recorded.service \in Choices \cup {"none"}
    BY DEF Recorded, SettingsAreChosen
  <2>5. /\ f.protected \in {"none", "empty", "some"} /\ f.sandbox \in {"none", "off", "on"}
        /\ f.skills \in SkillModes \cup {"none"} /\ f.service \in Choices \cup {"none"}
    BY DEF FlagSet
  <2> QED
    BY <1>3, <2>1, <2>2, <2>3, <2>4, <2>5 DEF Or, SkillModes, Choices
<1>6. "protected" \notin ExplicitFlags(f) /\ chosen.protected # Unset =>
        Answers(f).protected = chosen.protected
  <2> SUFFICES ASSUME "protected" \notin ExplicitFlags(f), chosen.protected # Unset
               PROVE  Answers(f).protected = chosen.protected
    OBVIOUS
  <2>1. f.protected = "none"
    BY <1>4 DEF Settled
  <2>2. disk.protected = chosen.protected
    BY <2>1 DEF Given, ProtectedReadable, FilesAreChosen
  <2>3. Recorded.protected = chosen.protected
    BY <2>2 DEF Recorded, FilesAreChosen, Unset
  <2> QED
    BY <1>3, <2>1, <2>3 DEF Or, FilesAreChosen, Unset
<1>7. "sandbox" \notin ExplicitFlags(f) /\ chosen.sandbox # Unset =>
        Answers(f).sandbox = chosen.sandbox
  <2> SUFFICES ASSUME "sandbox" \notin ExplicitFlags(f), chosen.sandbox # Unset
               PROVE  Answers(f).sandbox = chosen.sandbox
    OBVIOUS
  <2>1. f.sandbox = "none"
    BY <1>4 DEF Settled
  <2>2. disk.sandbox.file = chosen.sandbox
    BY <2>1 DEF Given, PolicyReadable, FilesAreChosen
  <2>3. Recorded.sandbox = chosen.sandbox
    BY <2>2 DEF Recorded, FilesAreChosen, Unset
  <2> QED
    BY <1>3, <2>1, <2>3 DEF Or, FilesAreChosen, Unset
<1>8. "skills" \notin ExplicitFlags(f) /\ chosen.skills # Unset /\ disk.approvals # "none" =>
        Answers(f).skills = chosen.skills
  <2> SUFFICES ASSUME "skills" \notin ExplicitFlags(f), chosen.skills # Unset,
                      disk.approvals # "none"
               PROVE  Answers(f).skills = chosen.skills
    OBVIOUS
  <2>1. f.skills = "none"
    BY <1>4 DEF Settled
  <2>2. Recorded.skills = chosen.skills
    BY DEF Recorded, SkillsOf, SettingsAreChosen
  <2> QED
    BY <1>3, <2>1, <2>2 DEF Or, SettingsAreChosen, SkillModes, Unset
<1>9. "service" \notin ExplicitFlags(f) /\ chosen.service # Unset =>
        Answers(f).service = chosen.service
  <2> SUFFICES ASSUME "service" \notin ExplicitFlags(f), chosen.service # Unset
               PROVE  Answers(f).service = chosen.service
    OBVIOUS
  <2>1. f.service = "none"
    BY <1>4 DEF Settled
  <2>2. Recorded.service = chosen.service
    BY DEF Recorded, SettingsAreChosen
  <2> QED
    BY <1>3, <2>1, <2>2 DEF Or, SettingsAreChosen, Choices, Unset
<1>10. AnswersFit'
  BY <1>2, <1>5 DEF AnswersFit, Questions
<1>11. AnswersAreChosen'
  <2> SUFFICES ASSUME NEW setting \in Settled,
                      setting \notin ExplicitFlags(f), chosen[setting] # Unset,
                      setting = "skills" => disk.approvals # "none"
               PROVE  Answers(f)[setting] = chosen[setting]
    BY <1>1, <1>2 DEF AnswersAreChosen
  <2> QED
    BY <1>6, <1>7, <1>8, <1>9 DEF Settled
<1>12. DenialsHold'
  BY <1>1, <1>2, DenialsFrame
<1> QED
  BY <1>1, <1>10, <1>11, <1>12 DEF SettingsAreChosen, FilesAreChosen

\* Questions leave the home as it is, and the flags what they were but for the credential.
LEMMA QuestionsKeepChoices ==
  ASSUME Known, OfferImport \/ Menu \/ Login \/ Crash \/ (\E f \in Flags : Interview(f))
  PROVE  ChoicesInvariant'
<1> USE DEF Known, ChoicesInvariant
<1>1. UNCHANGED <<disk, chosen>>
  BY DEF OfferImport, Menu, Login, Crash, Interview, Asking
<1>2. call'.pc = "none" \/ (call'.pc \in Questions /\ AnswersFit')
  <2>1. CASE Crash \/ Fails
    <3>1. call' = NoCall
      BY <2>1 DEF Crash, Fails
    <3> QED
      BY <3>1 DEF NoCall
  <2>2. ASSUME NEW f \in Flags, Interview(f)
        PROVE  call'.pc \in Questions /\ AnswersFit'
    <3>1. call' = [pc |-> "offer", flags |-> f, answers |-> NoCall.answers,
                   explicit |-> NoCall.explicit, done |-> 0]
      BY <2>2 DEF Interview, NoCall
    <3>2. call'.pc = "offer" /\ call'.flags = f
      BY <3>1
    <3>3. f \in FlagSet /\ f.interactive /\ (PolicyReadable \/ Given(f, "sandbox"))
      BY <2>2, FlagsAssumption DEF Interview, Begins, AssertReadable
    <3> QED
      BY <1>1, <3>2, <3>3 DEF AnswersFit, Questions, Running, Writing, PolicyReadable
  <2>3. ASSUME call.pc \in Questions, NEW pc \in {"menu", "login"}, call' = [call EXCEPT !.pc = pc]
        PROVE  call'.pc \in Questions /\ AnswersFit'
    <3>1. call'.pc = pc /\ call'.flags = call.flags
      BY <2>3 DEF SetupInvariant, Shaped
    <3> QED
      BY <1>1, <2>3, <3>1 DEF AnswersFit, Questions, Running, Writing, PolicyReadable
  <2>4. ASSUME call.pc \in Questions, NEW how \in {"import", "given"}, Authenticated(how)
        PROVE  call'.pc \in Questions /\ AnswersFit'
    <3>1. call'.pc = "review" /\ call'.flags = [call.flags EXCEPT !.auth = how]
      BY <2>4 DEF SetupInvariant, Shaped, Authenticated
    <3>2. call.flags \in FlagSet
      BY <2>4 DEF AnswersFit
    <3>3. /\ call'.flags \in FlagSet /\ call'.flags.interactive = call.flags.interactive
          /\ call'.flags.sandbox = call.flags.sandbox
      BY <3>1, <3>2 DEF FlagSet
    <3> QED
      BY <1>1, <2>4, <3>1, <3>3 DEF AnswersFit, Questions, Running, Writing, PolicyReadable, Given
  <2> QED
    BY <2>1, <2>2, <2>3, <2>4 DEF OfferImport, Menu, Login, Goto, Questions, Calling
<1>3. DenialsHold'
  BY <1>1, <1>2, DenialsFrame DEF Questions
<1> QED
  BY <1>1, <1>2, <1>3, ChoicesFrame DEF Questions, Running, Writing, SettingsAreChosen,
     FilesAreChosen, AnswersAreChosen

\* A call runs over files it could read, or was told what to put in their place.
LEMMA CallsKeepChoices ==
  ASSUME Known, Review \/ (\E f \in Flags : Onboard(f))
  PROVE  ChoicesInvariant'
<1>1. ASSUME NEW f \in Flags, Onboard(f)
      PROVE  ChoicesInvariant'
  <2>1. /\ f \in FlagSet /\ UNCHANGED chosen
        /\ PolicyReadable \/ Given(f, "sandbox")
        /\ ProtectedReadable \/ Given(f, "protected")
    BY <1>1, FlagsAssumption DEF Onboard, Begins, AssertReadable
  <2> QED
    BY <1>1, <2>1, RunOnboardingKeepsChoices DEF Onboard
<1>2. CASE Review /\ RunOnboarding(call.flags) /\ ReviewAsks(call.flags)
  <2>1. /\ call.flags \in FlagSet /\ UNCHANGED chosen
        /\ PolicyReadable \/ Given(call.flags, "sandbox")
        /\ ProtectedReadable \/ Given(call.flags, "protected")
    BY <1>2 DEF Known, ChoicesInvariant, AnswersFit, Review, ReviewAsks, Calling, Questions
  <2> QED
    BY <1>2, <2>1, RunOnboardingKeepsChoices
<1>3. CASE Review /\ Fails /\ UNCHANGED disk
  <2>1. call'.pc = "none" /\ chosen' = chosen
    BY <1>3 DEF Fails, NoCall, Review
  <2>2. DenialsHold'
    BY <1>3, <2>1, DenialsFrame DEF Known, ChoicesInvariant
  <2> QED
    BY <1>3, <2>1, <2>2, ChoicesFrame DEF Known, Running, Writing, Questions
<1> QED
  BY <1>1, <1>2, <1>3 DEF Review

-----------------------------------------------------------------------------
(* The stages.                                                             *)

\* A stage other than the seventh is at another place of the list.
LEMMA SeventhStage ==
  ASSUME Shaped, NEW stage, At(stage), stage # "sandbox"
  PROVE  call.done # 6
  BY DEF At, Stages, Shaped

\* A stage that writes none of the choices.
LEMMA OtherStagesKeepChoices ==
  ASSUME Known,
         \/ Reset \/ HomeStage \/ AuthStage \/ ModelStage \/ Reconcile \/ Verify
         \/ ReadinessStage \/ Complete
  PROVE  ChoicesInvariant'
<1> USE DEF Known, SetupInvariant, Shaped
<1>1. /\ chosen' = chosen
      /\ disk'.settings = disk.settings /\ disk'.protected = disk.protected
      /\ disk'.sandbox = disk.sandbox /\ disk'.approvals = disk.approvals
      /\ disk'.progress = disk.progress \/ disk'.progress = 0
  <2> USE DEF Writes, HomeFields
  <2>1. CASE Reset
    BY <2>1 DEF Reset
  <2>2. CASE HomeStage
    BY <2>2 DEF HomeStage
  <2>3. CASE AuthStage
    BY <2>3 DEF AuthStage
  <2>4. CASE ModelStage
    BY <2>4 DEF ModelStage
  <2>5. CASE Reconcile
    BY <2>5 DEF Reconcile
  <2>6. CASE Verify
    BY <2>6 DEF Verify
  <2>7. CASE ReadinessStage \/ Complete
    BY <2>7 DEF ReadinessStage, Complete
  <2> QED
    BY <2>1, <2>2, <2>3, <2>4, <2>5, <2>6, <2>7
<1>2. \/ call' = NoCall
      \/ \E pc \in {"verify", "stamp"} : call' = [call EXCEPT !.pc = pc]
      \/ call' = [call EXCEPT !.pc = "stage", !.done = 0]
  BY DEF Reset, HomeStage, AuthStage, ModelStage, Reconcile, Verify, ReadinessStage, Complete,
     Passed, Goto, Fails
<1>3. /\ call'.pc \in {"none", "verify", "stamp", "stage"}
      /\ call'.pc # "none" => call'.answers = call.answers /\ call'.explicit = call.explicit
      /\ call'.pc \in {"verify", "stamp"} => call'.done = call.done
  <2>1. CASE call' = NoCall
    BY <2>1 DEF NoCall
  <2>2. CASE \E pc \in {"verify", "stamp"} : call' = [call EXCEPT !.pc = pc]
    BY <2>2
  <2>3. CASE call' = [call EXCEPT !.pc = "stage", !.done = 0]
    BY <2>3
  <2> QED
    BY <1>2, <2>1, <2>2, <2>3
<1>6. call.pc \in Running
  BY DEF Reset, HomeStage, AuthStage, ModelStage, Reconcile, Verify, ReadinessStage, Complete,
     At, Calling, Running, Writing
<1>4. call'.pc \in {"approve", "reconcile", "verify", "stamp"} /\ call'.done = 6 =>
        call.pc \in {"approve", "reconcile", "verify", "stamp"} /\ call.done = 6
  <2>1. CASE Reset
    <3>1. call'.pc = "stage"
      BY <2>1 DEF Reset
    <3> QED
      BY <3>1
  <2>2. CASE Complete
    <3>1. call'.pc = "none"
      BY <2>2 DEF Complete, NoCall
    <3> QED
      BY <3>1
  <2>3. CASE Reconcile \/ Verify
    <3>1. call.pc \in {"reconcile", "verify"}
      BY <2>3 DEF Reconcile, Verify, Calling
    <3> QED
      BY <1>3, <3>1
  <2>4. CASE HomeStage \/ AuthStage \/ ModelStage \/ ReadinessStage
    <3>1. call.done # 6
      BY <2>4, SeventhStage DEF HomeStage, AuthStage, ModelStage, ReadinessStage
    <3> QED
      BY <1>3, <3>1
  <2> QED
    BY <2>1, <2>2, <2>3, <2>4
<1>5. DenialsHold'
  BY <1>1, <1>4, DenialsFrame DEF ChoicesInvariant
<1> QED
  BY <1>1, <1>3, <1>5, <1>6, ChoicesFrame DEF Running, Writing, Questions

\* The skills: saved first, and kept by no one else before the approvals stand beside them.
LEMMA ResourcesKeepChoices ==
  ASSUME Known, ResourcesStage \/ Approve
  PROVE  ChoicesInvariant'
<1> USE DEF Known, ChoicesInvariant
<1>1. (call.pc \in Running /\ call.done # 6) \/ call.pc = "approve"
  BY DEF ResourcesStage, Approve, At, Calling, Stages, Running, Writing
<1>2. CASE Fails /\ UNCHANGED <<disk, chosen>>
  <2>1. call'.pc = "none"
    BY <1>2 DEF Fails, NoCall
  <2>2. DenialsHold'
    BY <1>2, <2>1, DenialsFrame
  <2> QED
    BY <1>2, <2>1, <2>2, ChoicesFrame DEF Running, Writing, Questions
<1>3. CASE ResourcesStage /\ Goto("approve")
  <2>1. /\ call.pc = "stage" /\ call.done # 6 /\ call'.pc = "approve" /\ call'.done = call.done
        /\ call'.answers = call.answers /\ call'.explicit = call.explicit
    BY <1>3 DEF ResourcesStage, Goto, SetupInvariant, Shaped, At, Calling, Stages
  <2>2. /\ call.answers.skills # "none"
        /\ disk'.settings = Saved(disk.settings, "skills", call.answers.skills)
        /\ disk'.protected = disk.protected /\ disk'.sandbox = disk.sandbox
        /\ disk'.approvals = disk.approvals /\ disk'.progress = disk.progress
    BY <1>3, <2>1 DEF ResourcesStage, Fails, NoCall, Writes, SetupInvariant, Shaped, HomeFields
  <2>3. /\ chosen'.skills = call.answers.skills
        /\ chosen'.service = chosen.service
        /\ chosen'.protected = chosen.protected /\ chosen'.sandbox = chosen.sandbox
    <3>1. \/ chosen' = [chosen EXCEPT !.skills = call.answers.skills]
          \/ chosen' = chosen /\ chosen.skills = call.answers.skills
      BY <1>3, <2>1, <2>2 DEF ResourcesStage, Fails, NoCall, Chooses, AnswersAreChosen, Running,
         Writing, Settled
    <3> QED
      BY <3>1 DEF BoundsShape, NoChoice
  <2>4. /\ disk'.settings.skills = call.answers.skills /\ disk'.settings.readable
        /\ disk'.settings.service = disk.settings.service
    <3>1. CASE disk.settings.readable
      BY <2>2, <3>1 DEF Saved, BoundsShape, SettingsFields
    <3>2. CASE ~disk.settings.readable
      BY <2>2, <3>2 DEF Saved, NoSettings, SettingsAreChosen
    <3> QED
      BY <3>1, <3>2
  <2>5. call.answers.skills \in SkillModes
    BY <2>1, <2>2 DEF AnswersFit, Running, Writing
  <2>6. AnswersFit' /\ SettingsAreChosen' /\ FilesAreChosen'
    BY <2>1, <2>2, <2>3, <2>4, <2>5 DEF AnswersFit, SettingsAreChosen, FilesAreChosen, Running,
       Writing, Questions
  <2>7. AnswersAreChosen'
    BY <2>1, <2>2, <2>3 DEF AnswersAreChosen, Running, Writing, Settled
  <2>8. DenialsHold'
    BY <2>1, <2>2, DenialsFrame
  <2> QED
    BY <2>6, <2>7, <2>8
<1>4. CASE Approve
  <2>1. /\ call.pc = "approve" /\ call'.pc = "stamp" /\ call'.done = call.done
        /\ call'.answers = call.answers /\ call'.explicit = call.explicit
    BY <1>4 DEF Approve, Passed, Goto, Calling, SetupInvariant, Shaped
  <2>2. /\ disk'.settings = disk.settings /\ disk'.protected = disk.protected
        /\ disk'.sandbox = disk.sandbox /\ disk'.progress = disk.progress
        /\ chosen' = chosen
    BY <1>4 DEF Approve, Writes, SetupInvariant, Shaped, HomeFields
  <2>3. AnswersAreChosen'
    BY <2>1, <2>2 DEF AnswersAreChosen, Running, Writing, Settled
  <2>4. DenialsHold'
    BY <2>1, <2>2, DenialsFrame
  <2>5. AnswersFit' /\ SettingsAreChosen' /\ FilesAreChosen'
    BY <2>1, <2>2 DEF AnswersFit, SettingsAreChosen, FilesAreChosen, Running, Writing, Questions
  <2> QED
    BY <2>3, <2>4, <2>5
<1> QED
  BY <1>2, <1>3, <1>4 DEF ResourcesStage

\* The mode leaves the other settings, those of a damaged file included: none was left.
LEMMA CapabilitiesKeepChoices ==
  ASSUME Known, CapabilitiesStage
  PROVE  ChoicesInvariant'
<1> USE DEF Known, ChoicesInvariant
<1>1. /\ call.pc = "stage" /\ call.done # 6 /\ call'.pc = "reconcile" /\ call'.done = call.done
      /\ call'.answers = call.answers /\ call'.explicit = call.explicit
  BY DEF CapabilitiesStage, Goto, SetupInvariant, Shaped, At, Calling, Stages
<1>2. /\ disk'.settings = Saved(disk.settings, "mode", call.answers.mode)
      /\ disk'.protected = disk.protected /\ disk'.sandbox = disk.sandbox
      /\ disk'.approvals = disk.approvals /\ disk'.progress = disk.progress
  BY DEF CapabilitiesStage, Writes, SetupInvariant, Shaped, HomeFields
<1>3. \A setting \in Settled : chosen'[setting] = chosen[setting]
  BY DEF CapabilitiesStage, Chooses, BoundsShape, NoChoice, Settled
<1>4. /\ disk'.settings.skills = disk.settings.skills
      /\ disk'.settings.service = disk.settings.service /\ disk'.settings.readable
  <2>1. CASE disk.settings.readable
    BY <1>2, <2>1 DEF Saved, BoundsShape, SettingsFields
  <2>2. CASE ~disk.settings.readable
    BY <1>2, <2>2 DEF Saved, NoSettings, SettingsAreChosen
  <2> QED
    BY <2>1, <2>2
<1>5. AnswersFit' /\ SettingsAreChosen' /\ FilesAreChosen'
  BY <1>1, <1>2, <1>3, <1>4 DEF AnswersFit, SettingsAreChosen, FilesAreChosen, Running, Writing,
     Questions, Settled
<1>6. AnswersAreChosen'
  BY <1>1, <1>2, <1>3 DEF AnswersAreChosen, Running, Writing, Settled
<1>7. DenialsHold'
  BY <1>1, <1>2, DenialsFrame
<1> QED
  BY <1>5, <1>6, <1>7

\* The protected paths, written before the sandbox policy that denies them.
LEMMA ProtectedKeepsChoices ==
  ASSUME Known, ProtectedStage
  PROVE  ChoicesInvariant'
<1> USE DEF Known, ChoicesInvariant
<1>1. /\ call.pc = "stage" /\ call.done = 5 /\ call'.pc = "reconcile" /\ call'.done = 5
      /\ call'.answers = call.answers /\ call'.explicit = call.explicit
  BY DEF ProtectedStage, Goto, SetupInvariant, Shaped, At, Calling, Stages
<1>2. /\ disk'.settings = disk.settings /\ disk'.protected = call.answers.protected
      /\ disk'.sandbox = disk.sandbox /\ disk'.approvals = disk.approvals
      /\ disk'.progress = disk.progress
  BY DEF ProtectedStage, Writes, SetupInvariant, Shaped, HomeFields
<1>3. /\ chosen'.protected = call.answers.protected
      /\ \A setting \in Settled \ {"protected"} : chosen'[setting] = chosen[setting]
  <2>1. \/ chosen' = [chosen EXCEPT !.protected = call.answers.protected]
        \/ chosen' = chosen /\ chosen.protected = call.answers.protected
    BY <1>1 DEF ProtectedStage, Chooses, AnswersAreChosen, Running, Writing, Settled
  <2> QED
    BY <2>1 DEF BoundsShape, NoChoice, Settled
<1>4. AnswersFit' /\ SettingsAreChosen' /\ FilesAreChosen'
  BY <1>1, <1>2, <1>3 DEF AnswersFit, SettingsAreChosen, FilesAreChosen, Running, Writing,
     Questions, Settled, Unset
<1>5. AnswersAreChosen'
  BY <1>1, <1>2, <1>3 DEF AnswersAreChosen, Running, Writing, Settled
<1>6. DenialsHold'
  <2>1. disk.progress = 5
    BY <1>1 DEF SetupInvariant, CallKeepsProgress, Writing
  <2> QED
    BY <1>1, <1>2, <2>1 DEF DenialsHold
<1> QED
  BY <1>4, <1>5, <1>6

\* The sandbox policy, which denies what is protected when it is written.
LEMMA SandboxKeepsChoices ==
  ASSUME Known, SandboxStage
  PROVE  ChoicesInvariant'
<1> USE DEF Known, ChoicesInvariant
<1>1. /\ call.pc = "stage" /\ call.done = 6 /\ call'.pc = "verify" /\ call'.done = 6
      /\ call'.answers = call.answers /\ call'.explicit = call.explicit
  BY DEF SandboxStage, Goto, SetupInvariant, Shaped, At, Calling, Stages
<1>2. /\ disk'.settings = disk.settings /\ disk'.protected = disk.protected
      /\ disk'.approvals = disk.approvals /\ disk'.progress = disk.progress
      /\ disk'.sandbox = [file |-> call.answers.sandbox, inHome |-> call.answers.root = "home",
           denies |-> call.answers.denies \cup {"credentials"} \cup LoadedProtected]
  BY DEF SandboxStage, Writes, SetupInvariant, Shaped, HomeFields
<1>3. /\ disk'.sandbox.file = call.answers.sandbox
      /\ disk'.sandbox.denies = call.answers.denies \cup {"credentials"} \cup LoadedProtected
  BY <1>2
<1>4. /\ chosen'.sandbox = call.answers.sandbox
      /\ \A setting \in Settled \ {"sandbox"} : chosen'[setting] = chosen[setting]
  <2>1. \/ chosen' = [chosen EXCEPT !.sandbox = call.answers.sandbox]
        \/ chosen' = chosen /\ chosen.sandbox = call.answers.sandbox
    BY <1>1 DEF SandboxStage, Chooses, AnswersAreChosen, Running, Writing, Settled
  <2> QED
    BY <2>1 DEF BoundsShape, NoChoice, Settled
<1>5. AnswersFit' /\ SettingsAreChosen' /\ FilesAreChosen'
  BY <1>1, <1>2, <1>3, <1>4 DEF AnswersFit, SettingsAreChosen, FilesAreChosen, Running, Writing,
     Questions, Settled, Unset
<1>6. AnswersAreChosen'
  BY <1>1, <1>2, <1>4 DEF AnswersAreChosen, Running, Writing, Settled
<1>7. DenialsHold'
  BY <1>2, <1>3 DEF DenialsHold, LoadedProtected
<1> QED
  BY <1>5, <1>6, <1>7

\* The service's choice is recorded after the service was configured, or not at all.
LEMMA ServiceKeepsChoices ==
  ASSUME Known, ServiceStage
  PROVE  ChoicesInvariant'
<1> USE DEF Known, ChoicesInvariant
<1>1. call.pc = "stage" /\ call.done = 7
  BY DEF ServiceStage, SetupInvariant, Shaped, At, Calling, Stages
<1>2. CASE Fails /\ ConfigureFails /\ UNCHANGED chosen
  <2>1. call'.pc = "none"
    BY <1>2 DEF Fails, NoCall
  <2>2. /\ disk'.settings = disk.settings /\ disk'.protected = disk.protected
        /\ disk'.sandbox = disk.sandbox /\ disk'.approvals = disk.approvals
        /\ disk'.progress = disk.progress
    BY <1>2 DEF ConfigureFails, Writes, SetupInvariant, Shaped, HomeFields
  <2>3. DenialsHold'
    BY <2>1, <2>2, DenialsFrame
  <2> QED
    BY <1>2, <2>1, <2>2, <2>3, ChoicesFrame DEF Running, Writing, Questions
<1>3. CASE /\ call.answers.service # "none"
           /\ disk' = [disk EXCEPT
                !.launchd = @ \/ call.answers.service = "installed",
                !.settings = Saved(@, "service", call.answers.service)]
           /\ Chooses("service", call.answers.service)
           /\ Passed \/ (call.answers.service = "installed" /\ Fails)
  <2>1. /\ disk'.settings = Saved(disk.settings, "service", call.answers.service)
        /\ disk'.protected = disk.protected
        /\ disk'.sandbox = disk.sandbox /\ disk'.approvals = disk.approvals
        /\ disk'.progress = disk.progress
    BY <1>3 DEF SetupInvariant, Shaped, HomeFields
  <2>2. /\ chosen'.service = call.answers.service
        /\ \A setting \in Settled \ {"service"} : chosen'[setting] = chosen[setting]
    <3>1. \/ chosen' = [chosen EXCEPT !.service = call.answers.service]
          \/ chosen' = chosen /\ chosen.service = call.answers.service
      BY <1>1, <1>3 DEF Chooses, AnswersAreChosen, Running, Writing, Settled
    <3> QED
      BY <3>1 DEF BoundsShape, NoChoice, Settled
  <2>3. /\ disk'.settings.service = call.answers.service /\ disk'.settings.readable
        /\ disk'.settings.skills = disk.settings.skills
    <3>1. CASE disk.settings.readable
      BY <2>1, <3>1 DEF Saved, BoundsShape, SettingsFields
    <3>2. CASE ~disk.settings.readable
      BY <2>1, <3>2 DEF Saved, NoSettings, SettingsAreChosen
    <3> QED
      BY <3>1, <3>2
  <2>4. call.answers.service \in Choices
    BY <1>1, <1>3 DEF AnswersFit, Running, Writing
  <2>5. \/ call'.pc = "none"
        \/ /\ call'.pc = "stamp" /\ call'.done = 7
           /\ call'.answers = call.answers /\ call'.explicit = call.explicit
    BY <1>1, <1>3 DEF Passed, Goto, Fails, NoCall, SetupInvariant, Shaped
  <2>6. AnswersFit' /\ SettingsAreChosen' /\ FilesAreChosen'
    BY <1>1, <2>1, <2>2, <2>3, <2>4, <2>5 DEF AnswersFit, SettingsAreChosen, FilesAreChosen,
       Running, Writing, Questions, Settled
  <2>7. AnswersAreChosen'
    BY <1>1, <2>1, <2>2, <2>5 DEF AnswersAreChosen, Running, Writing, Settled
  <2>8. DenialsHold'
    BY <1>1, <2>1, <2>5, DenialsFrame
  <2> QED
    BY <2>6, <2>7, <2>8
<1> QED
  BY <1>2, <1>3 DEF ServiceStage

\* The seventh stage is put on record with the denials in the policy.
LEMMA StampKeepsChoices ==
  ASSUME Known, Stamp
  PROVE  ChoicesInvariant'
<1> USE DEF Known, ChoicesInvariant
<1>1. /\ call.pc = "stamp" /\ call'.pc = "stage" /\ call.done = disk.progress
      /\ call'.answers = call.answers /\ call'.explicit = call.explicit
      /\ chosen' = chosen /\ call.done \in 0 .. 9
  BY DEF Stamp, Calling, SetupInvariant, Shaped, CallKeepsProgress, Writing
<1>2. /\ disk'.settings = disk.settings /\ disk'.protected = disk.protected
      /\ disk'.sandbox = disk.sandbox /\ disk'.approvals = disk.approvals
      /\ disk'.progress = call.done + 1
  BY DEF Stamp, Writes, SetupInvariant, Shaped, HomeFields
<1>3. DenialsHold'
  BY <1>1, <1>2 DEF DenialsHold, LoadedProtected
<1> QED
  BY <1>1, <1>2, <1>3, ChoicesFrame DEF Running, Writing

-----------------------------------------------------------------------------
(* What happens beside a call.                                             *)

\* A change from outside is a choice, or damages a file, whose choice is asked for again.
LEMMA EditKeepsChoices ==
  ASSUME Known, NEW file, Edit(file)
  PROVE  ChoicesInvariant'
<1> USE DEF Known, ChoicesInvariant
<1>1. call' = call /\ call.pc = "none"
  BY DEF Edit, NoCall
<1>2. AnswersFit' /\ AnswersAreChosen'
  BY <1>1 DEF AnswersFit, AnswersAreChosen, Running, Writing, Questions
<1>3. disk'.progress = disk.progress
  BY DEF Edit, Writes, SetupInvariant, Shaped, HomeFields
<1>4. CASE file \in {"settings", "mode"}
  <2>1. /\ disk'.protected = disk.protected /\ disk'.sandbox = disk.sandbox
        /\ \/ disk'.settings = DamagedSettings /\ chosen' = ChoicesLost
           \/ /\ disk.settings.readable
              /\ \E mode : /\ disk'.settings = Saved(disk.settings, "mode", mode)
                           /\ chosen' = [chosen EXCEPT !.mode = mode]
    BY <1>4 DEF Edit, Writes, SetupInvariant, Shaped, HomeFields
  <2>2. CASE disk'.settings = DamagedSettings /\ chosen' = ChoicesLost
    <3>1. /\ chosen'.skills = Unset /\ chosen'.service = Unset
          /\ chosen'.protected = chosen.protected /\ chosen'.sandbox = chosen.sandbox
      BY <2>2 DEF ChoicesLost, BoundsShape, NoChoice
    <3>2. disk'.settings.skills = Unset /\ disk'.settings.service = Unset
      BY <2>2 DEF DamagedSettings, NoSettings
    <3> QED
      BY <1>1, <1>2, <1>3, <2>1, <3>1, <3>2, DenialsFrame DEF SettingsAreChosen, FilesAreChosen
  <2>3. ASSUME disk.settings.readable, NEW mode,
               disk'.settings = Saved(disk.settings, "mode", mode),
               chosen' = [chosen EXCEPT !.mode = mode]
        PROVE  ChoicesInvariant'
    <3>1. \A setting \in Settled : chosen'[setting] = chosen[setting]
      BY <2>3 DEF BoundsShape, NoChoice, Settled
    <3>2. /\ disk'.settings.skills = disk.settings.skills
          /\ disk'.settings.service = disk.settings.service /\ disk'.settings.readable
      BY <2>3 DEF Saved, BoundsShape, SettingsFields
    <3> QED
      BY <1>1, <1>2, <1>3, <2>1, <3>1, <3>2, DenialsFrame DEF SettingsAreChosen, FilesAreChosen,
         Settled
  <2> QED
    BY <2>1, <2>2, <2>3
<1>5. CASE file = "protected"
  <2>1. /\ disk'.protected = "damaged" /\ disk'.settings = disk.settings
        /\ disk'.sandbox = disk.sandbox /\ chosen' = chosen
    BY <1>5 DEF Edit, Writes, SetupInvariant, Shaped, HomeFields
  <2>2. DenialsHold'
    BY <1>1, <1>3, <2>1 DEF DenialsHold, LoadedProtected
  <2> QED
    BY <1>2, <2>1, <2>2 DEF SettingsAreChosen, FilesAreChosen
<1>6. CASE file = "sandbox"
  <2>1. /\ disk'.protected = disk.protected /\ disk'.settings = disk.settings
        /\ disk'.sandbox = [disk.sandbox EXCEPT !.file = "damaged"] /\ chosen' = chosen
    BY <1>6 DEF Edit, Writes, SetupInvariant, Shaped, HomeFields
  <2>2. disk'.sandbox.file = "damaged" /\ disk'.sandbox.denies = disk.sandbox.denies
    BY <2>1 DEF BoundsShape
  <2>3. DenialsHold'
    BY <1>1, <1>3, <2>1, <2>2 DEF DenialsHold, LoadedProtected
  <2> QED
    BY <1>2, <2>1, <2>2, <2>3 DEF SettingsAreChosen, FilesAreChosen
<1>7. CASE file \notin {"settings", "mode", "protected", "sandbox"}
  <2>1. /\ disk'.protected = disk.protected /\ disk'.settings = disk.settings
        /\ disk'.sandbox = disk.sandbox /\ chosen' = chosen
    BY <1>7 DEF Edit, Writes, SetupInvariant, Shaped, HomeFields
  <2> QED
    BY <1>1, <1>2, <1>3, <2>1, DenialsFrame DEF SettingsAreChosen, FilesAreChosen
<1> QED
  BY <1>4, <1>5, <1>6, <1>7

\* Sessions and requests leave every file of the choices alone.
LEMMA OthersKeepChoices ==
  ASSUME Known, UNCHANGED setupVars, SessionsNext \/ GatewayNext \/ UNCHANGED disk
  PROVE  ChoicesInvariant'
<1> USE DEF Known, ChoicesInvariant
<1>1. UNCHANGED <<call, chosen>>
  BY DEF setupVars
<1>2. /\ disk'.settings = disk.settings /\ disk'.protected = disk.protected
      /\ disk'.sandbox = disk.sandbox /\ disk'.approvals = disk.approvals
      /\ disk'.progress = disk.progress
  BY DEF SessionsNext, SessionBegins, SessionLoads, SessionOpens, SessionReplaced, SessionEnds,
     BashRuns, GatewayNext, Receive, BodyArrives, SetupInvariant, Shaped, HomeFields
<1>3. AnswersFit' /\ SettingsAreChosen' /\ FilesAreChosen'
  BY <1>1, <1>2 DEF AnswersFit, SettingsAreChosen, FilesAreChosen, PolicyReadable
<1>4. AnswersAreChosen'
  BY <1>1, <1>2 DEF AnswersAreChosen
<1> QED
  BY <1>1, <1>2, <1>3, <1>4, DenialsFrame

-----------------------------------------------------------------------------
\* ChoicesAreKept: between calls the home records the owner's last choice of each setting, and
\* a completed home denies bash what they protect.
THEOREM ChoicesKept == Spec => []ChoicesAreKept
<1>1. Init => ChoicesInvariant
  <2> SUFFICES ASSUME Init
               PROVE  ChoicesInvariant
    OBVIOUS
  <2>1. /\ disk.settings = NoSettings /\ disk.sandbox = NoPolicy /\ disk.protected = "missing"
        /\ disk.progress = 0 /\ call.pc = "none" /\ chosen = NoChoice
    BY DEF Init, SetupInit, EmptyHome, NoCall
  <2> QED
    BY <2>1 DEF ChoicesInvariant, AnswersFit, SettingsAreChosen, FilesAreChosen,
       AnswersAreChosen, DenialsHold, NoSettings, NoPolicy, NoChoice, Questions, Running, Writing
<1>2. SetupInvariant /\ BoundsInvariant /\ ChoicesInvariant /\ [Next]_vars => ChoicesInvariant'
  <2> SUFFICES ASSUME SetupInvariant, BoundsInvariant, ChoicesInvariant, [Next]_vars
               PROVE  ChoicesInvariant'
    OBVIOUS
  <2>1. Known
    BY DEF Known, BoundsInvariant
  <2>2. CASE SetupNext
    BY <2>1, <2>2, CallsKeepChoices, QuestionsKeepChoices, OtherStagesKeepChoices,
       ResourcesKeepChoices, CapabilitiesKeepChoices, ProtectedKeepsChoices,
       SandboxKeepsChoices, ServiceKeepsChoices, StampKeepsChoices, EditKeepsChoices
       DEF SetupNext
  <2>3. CASE UNCHANGED setupVars /\ (SessionsNext \/ GatewayNext \/ UNCHANGED disk)
    BY <2>1, <2>3, OthersKeepChoices
  <2> QED
    BY <2>2, <2>3 DEF Next, vars
<1>3. SetupInvariant /\ BoundsInvariant /\ ChoicesInvariant => ChoicesAreKept
  <2> SUFFICES ASSUME SetupInvariant, BoundsInvariant, ChoicesInvariant
               PROVE  ChoicesAreKept
    OBVIOUS
  <2>1. disk.settings.mode = chosen.mode
    BY DEF BoundsInvariant, ModeIsChosen
  <2>2. SetupComplete => LoadedProtected \subseteq disk.sandbox.denies
    BY DEF SetupInvariant, CallKeepsProgress, ChoicesInvariant, DenialsHold, SetupComplete
  <2> QED
    BY <2>1, <2>2 DEF ChoicesInvariant, SettingsAreChosen, FilesAreChosen, ChoicesAreKept
<1>4. Spec => []SetupInvariant /\ []BoundsInvariant
  BY SetupInvariantHolds, BoundsInvariantHolds
<1> QED
  BY <1>1, <1>2, <1>3, <1>4, PTL DEF Spec
=============================================================================
