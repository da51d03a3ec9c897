-------------------------------- MODULE Setup --------------------------------
(***************************************************************************)
(* `pi-template onboard`: from the answers (src/cli/onboard.ts) through    *)
(* the stages and the completion marker (src/agent/onboarding.ts).         *)
(*                                                                         *)
(* A call is one process, which runs its stages in order, may be stopped   *)
(* between any two writes, and may be followed by another with other       *)
(* answers.                                                                *)
(***************************************************************************)
EXTENDS HarnessHome

CONSTANTS
  Flags,      \* what calls are made with
  MaxCalls,   \* bound: calls
  MaxCrashes, \* bound: processes stopped between two writes
  MaxEdits,   \* bound: changes to the home from outside
  Edits       \* which files they change

\* parseFlags: what the flags of a call may say, "none" where one is left out.
FlagSet ==
  [interactive : BOOLEAN, ack : BOOLEAN, auth : {"none", "given", "import"},
   model : {"none", "given"}, skills : SkillModes \cup {"none"}, mode : Modes \cup {"none"},
   protected : {"none", "empty", "some"}, sandbox : {"none", "off", "on"},
   root : {"none", "home", "outside"}, service : Choices \cup {"none"}]

ASSUME FlagsAssumption == Flags \subseteq FlagSet

VARIABLES
  call,   \* the call that runs: its pc, its answers, and its progress in memory
  chosen, \* the owner's last choice of each setting, for the properties
  edited, \* changed from outside since the readiness stage last passed
  calls, crashes, edits

setupVars == <<call, chosen, edited, calls, crashes, edits>>

NoFlags == [interactive |-> FALSE]
NoCall == [pc |-> "none", flags |-> NoFlags, answers |-> [kind |-> "none"], explicit |-> {},
           done |-> 0]
NoChoice == [mode |-> Unset, skills |-> Unset, protected |-> Unset, sandbox |-> Unset,
             service |-> Unset]

Given(f, flag) == f[flag] # "none"
Or(first, second) == IF first # "none" THEN first ELSE second

-----------------------------------------------------------------------------
(* The answers.                                                            *)

\* recordedAnswers: what the home records and can be read; "none" for the rest.
Recorded ==
  [auth |-> "none",
   model |-> IF disk.model THEN "given" ELSE "none",
   ids |-> disk.approvals,
   skills |-> IF disk.approvals = "none" THEN "none" ELSE SkillsOf(disk.settings),
   mode |-> IF disk.settings.mode = Unset THEN "none" ELSE disk.settings.mode,
   protected |-> IF disk.protected \in {"missing", "damaged"} THEN "none"
                 ELSE disk.protected,
   sandbox |-> IF disk.sandbox.file \in {"missing", "damaged"} THEN "none"
               ELSE disk.sandbox.file,
   root |-> IF disk.sandbox.inHome THEN "home" ELSE "outside",
   denies |-> IF PolicyReadable THEN disk.sandbox.denies ELSE {},
   service |-> IF disk.settings.service = Unset THEN "none" ELSE disk.settings.service]

\* parseFlags and the checks of answersFromFlags: a resource flag needs an acknowledgement
\* of the definition as it is, now or recorded.
UsageOK(f) == Given(f, "skills") => f.ack \/ Recorded.ids = "current"

\* The assertions over what a flag would not replace, for a damaged file has no answer.
AssertReadable(f) ==
  /\ PolicyReadable \/ Given(f, "sandbox")
  /\ f.interactive \/ disk.settings.readable \/ Given(f, "mode")
  /\ f.interactive \/ ProtectedReadable \/ Given(f, "protected")

\* Over damaged files the review takes no default: each answer they held is asked for.
ReviewAsks(f) ==
  f.interactive =>
    /\ ~disk.settings.readable => Given(f, "mode") /\ Given(f, "service")
    /\ ~ProtectedReadable => Given(f, "protected")

\* answersFromFlags and reviewDefaults, then the customized answers: the flag or the owner's
\* word, else what is recorded, else the default. Only the service has no default in flags,
\* and only the review acknowledges by itself.
SlipAnswers(f) ==
  [Recorded EXCEPT
     !.auth = f.auth,
     !.model = IF f.interactive \/ Given(f, "model") THEN "given" ELSE @,
     !.ids = IF f.ack \/ f.interactive THEN "current" ELSE @,
     !.skills = IF f.ack \/ f.interactive \/ Given(f, "skills")
                THEN Or(f.skills, Or(@, "all")) ELSE @,
     !.mode = Or(f.mode, "allow"),
     !.protected = Or(f.protected, Or(@, "empty")),
     !.sandbox = Or(f.sandbox, Or(@, "off")),
     !.root = Or(f.root, @),
     !.service = Or(f.service, IF f.interactive THEN Or(@, "declined") ELSE @)]

Answers(f) ==
  [Recorded EXCEPT
     !.auth = f.auth,
     !.model = IF f.interactive \/ Given(f, "model") THEN "given" ELSE @,
     !.ids = IF f.ack \/ f.interactive THEN "current" ELSE @,
     !.skills = IF f.ack \/ f.interactive \/ Given(f, "skills")
                THEN Or(f.skills, Or(@, "all")) ELSE @,
     !.mode = Or(f.mode, Or(@, "allow")),
     !.protected = Or(f.protected, Or(@, "empty")),
     !.sandbox = Or(f.sandbox, Or(@, "off")),
     !.root = Or(f.root, @),
     !.service = Or(f.service, IF f.interactive THEN Or(@, "declined") ELSE @)]

ExplicitFlags(f) == {flag \in DOMAIN NoChoice : Given(f, flag)}

\* assertRerunCanFinish.
CanFinish(a) ==
  /\ a.auth # "none" \/ disk.auth
  /\ a.model # "none" /\ a.mode # "none" /\ a.protected # "none" /\ a.sandbox # "none"
  /\ a.service # "none"
  /\ a.ids = "current" /\ a.skills # "none"

\* No policy that is on may let bash write the home itself.
PolicyAccepted(a) == ~(a.sandbox = "on" /\ a.root = "home")

Rerun == disk.marker /\ disk.progress = Len(Stages)

-----------------------------------------------------------------------------
Calling(pc) == call.pc = pc
At(stage) == Calling("stage") /\ call.done < Len(Stages) /\ Stages[call.done + 1] = stage
Goto(pc) == call' = [call EXCEPT !.pc = pc]
Fails == call' = NoCall
Writes(field, value) == disk' = [disk EXCEPT ![field] = value]
Bounded == UNCHANGED <<edited, calls, crashes, edits>>

\* What a stage writes is the owner's choice when a flag says so, and their first one stands
\* until then.
Chooses(setting, value) ==
  chosen' = IF setting \in call.explicit \/ chosen[setting] = Unset
            THEN [chosen EXCEPT ![setting] = value] ELSE chosen

-----------------------------------------------------------------------------
(* A call begins: its flags, or the questions it asks.                     *)

Begins(f) ==
  /\ Calling("none") /\ calls < MaxCalls /\ calls' = calls + 1
  /\ UsageOK(f) /\ AssertReadable(f)

Asking == UNCHANGED <<disk, chosen, edited, calls, crashes, edits>>

\* The marker of a completed home stands while its stages run again.
SlipRunOnboarding(f) ==
  LET a == Answers(f)
  IN /\ PolicyAccepted(a)
     /\ Rerun => CanFinish(a)
     /\ call' = [NoCall EXCEPT !.pc = IF Rerun THEN "reset" ELSE "stage", !.answers = a,
                               !.explicit = ExplicitFlags(f), !.done = disk.progress]
     /\ UNCHANGED disk

\* The start of runOnboarding: everything that can refuse comes before the first write, the
\* marker's removal.
RunOnboarding(f) ==
  LET a == Answers(f)
  IN /\ PolicyAccepted(a)
     /\ Rerun => CanFinish(a)
     /\ call' = [NoCall EXCEPT !.pc = IF Rerun THEN "reset" ELSE "stage", !.answers = a,
                               !.explicit = ExplicitFlags(f), !.done = disk.progress]
     /\ IF Rerun THEN Writes("marker", FALSE) ELSE UNCHANGED disk

Onboard(f) ==
  /\ ~f.interactive /\ Begins(f)
  /\ RunOnboarding(f)
  /\ UNCHANGED <<chosen, edited, crashes, edits>>

\* Nothing is asked about a policy that would be refused.
Interview(f) ==
  /\ f.interactive /\ Begins(f)
  /\ PolicyAccepted(Answers(f))
  /\ call' = [NoCall EXCEPT !.pc = "offer", !.flags = f]
  /\ UNCHANGED <<disk, chosen, edited, crashes, edits>>

Authenticated(how) == call' = [call EXCEPT !.pc = "review", !.flags.auth = how]

\* interactiveAuth: a standalone setup is imported, if it is usable; else a fresh login.
OfferImport ==
  /\ Calling("offer")
  /\ Goto("menu") \/ Authenticated("import") \/ Fails
  /\ Asking

\* freshAuthentication: a key, a provider to log in to, or neither.
Menu ==
  /\ Calling("menu")
  /\ Goto("login") \/ Authenticated("given") \/ Fails
  /\ Asking

\* loginCredential: a login that fails never ends the call, but offers the menu again.
Login ==
  /\ Calling("login")
  /\ Goto("menu") \/ Authenticated("given")
  /\ Asking

\* writeReview and the owner's decision, or one that does not count.
Review ==
  /\ Calling("review")
  /\ \/ ReviewAsks(call.flags) /\ RunOnboarding(call.flags)
     \/ Fails /\ UNCHANGED disk
  /\ UNCHANGED chosen /\ Bounded

-----------------------------------------------------------------------------
(* The stages.                                                             *)

Reset ==
  /\ Calling("reset")
  /\ call' = [call EXCEPT !.pc = "stage", !.done = 0]
  /\ Writes("progress", 0)
  /\ UNCHANGED chosen /\ Bounded

Passed == Goto("stamp")

HomeStage ==
  /\ At("home") /\ Passed
  /\ Writes("roots", TRUE)
  /\ UNCHANGED chosen /\ Bounded

\* A credential, an import or a login, which may fail; or none, when the home has one. An
\* import may bring a model selection.
AuthStage ==
  /\ At("auth")
  /\ \/ /\ call.answers.auth # "none" \/ ~disk.auth
        /\ Fails /\ UNCHANGED disk
     \/ /\ call.answers.auth # "none" \/ disk.auth
        /\ \E imported \in BOOLEAN :
             /\ imported => call.answers.auth = "import"
             /\ disk' = [disk EXCEPT !.auth = TRUE, !.model = @ \/ imported]
        /\ Passed
  /\ UNCHANGED chosen /\ Bounded

\* The selection is written, then its availability decides.
ModelStage ==
  /\ At("model")
  /\ Writes("model", disk.model \/ call.answers.model # "none")
  /\ Fails \/ (disk'.model /\ Passed)
  /\ UNCHANGED chosen /\ Bounded

\* recordedAnswers takes the skill policy only beside approvals: a call stopped before the first
\* are written leaves a policy in the settings that no later call keeps, and so no choice.
ResourcesStage ==
  /\ At("resources")
  /\ IF call.answers.skills = "none" \/ call.answers.ids # "current"
     THEN Fails /\ UNCHANGED <<disk, chosen>>
     ELSE /\ Goto("approve")
          /\ Writes("settings", Saved(disk.settings, "skills", call.answers.skills))
          /\ IF disk.approvals = "none"
             THEN chosen' = [chosen EXCEPT !.skills = call.answers.skills]
             ELSE Chooses("skills", call.answers.skills)
  /\ Bounded

Approve ==
  /\ Calling("approve") /\ Passed
  /\ Writes("approvals", "current")
  /\ UNCHANGED chosen /\ Bounded

CapabilitiesStage ==
  /\ At("capabilities") /\ Goto("reconcile")
  /\ Writes("settings", Saved(disk.settings, "mode", call.answers.mode))
  /\ Chooses("mode", call.answers.mode)
  /\ Bounded

\* The permission config is left as it was.
SlipProtectedStage ==
  /\ At("protected-paths") /\ Goto("stamp")
  /\ Writes("protected", call.answers.protected)
  /\ Chooses("protected", call.answers.protected)
  /\ Bounded

ProtectedStage ==
  /\ At("protected-paths") /\ Goto("reconcile")
  /\ Writes("protected", call.answers.protected)
  /\ Chooses("protected", call.answers.protected)
  /\ Bounded

\* reconcilePermissionSettings refuses a config it cannot parse.
Reconcile ==
  /\ Calling("reconcile")
  /\ IF disk.config.file = "damaged"
     THEN Fails /\ UNCHANGED disk
     ELSE /\ Passed
          /\ Writes("config", PermissionPolicy(disk.config, EffectiveMode(disk.settings),
                                               LoadedProtected))
  /\ UNCHANGED chosen /\ Bounded

\* The policy as answered, with what bash may never read: the credentials and the trees the
\* owner protects.
SandboxStage ==
  /\ At("sandbox")
  /\ Writes("sandbox", [file |-> call.answers.sandbox, inHome |-> call.answers.root = "home",
                        denies |-> call.answers.denies \cup {"credentials"} \cup LoadedProtected])
  /\ Chooses("sandbox", call.answers.sandbox)
  /\ Goto("verify")
  /\ Bounded

\* The probe of a policy that is on; what it found is written before it decides.
Verify ==
  /\ Calling("verify")
  /\ IF ~SandboxOn(disk.sandbox)
     THEN Writes("verification", "none") /\ Passed
     ELSE \/ Writes("verification", "ok") /\ Passed
          \/ Writes("verification", "failed") /\ Fails
  /\ UNCHANGED chosen /\ Bounded

\* configure writes the job before launchctl loads it, and a failure leaves what was done.
ConfigureFails ==
  \/ UNCHANGED disk
  \/ call.answers.service = "installed" /\ Writes("launchd", TRUE)

\* A service to install is configured; a rerun keeps one it has. Then the choice is recorded,
\* and verified.
ServiceStage ==
  /\ At("service")
  /\ \/ /\ call.answers.service # "declined"
        /\ Fails /\ ConfigureFails
        /\ UNCHANGED chosen
     \/ /\ call.answers.service # "none"
        /\ disk' = [disk EXCEPT
             !.launchd = @ \/ call.answers.service = "installed",
             !.settings = Saved(@, "service", call.answers.service)]
        /\ Chooses("service", call.answers.service)
        /\ Passed \/ (call.answers.service = "installed" /\ Fails)
  /\ Bounded

ReadinessStage ==
  /\ At("readiness")
  /\ Fails \/ (DoctorReady /\ Passed)
  /\ edited' = (edited /\ call' = NoCall)
  /\ UNCHANGED <<disk, chosen, calls, crashes, edits>>

\* A stage is on record only after it passed.
Stamp ==
  /\ Calling("stamp")
  /\ call' = [call EXCEPT !.pc = "stage", !.done = @ + 1]
  /\ Writes("progress", call.done + 1)
  /\ UNCHANGED chosen /\ Bounded

Complete ==
  /\ Calling("stage") /\ call.done = Len(Stages)
  /\ call' = NoCall
  /\ Writes("marker", TRUE)
  /\ UNCHANGED chosen /\ Bounded

Crash ==
  /\ call # NoCall /\ crashes < MaxCrashes /\ crashes' = crashes + 1
  /\ call' = NoCall
  /\ UNCHANGED <<disk, chosen, edited, calls, edits>>

\* What the owner is held to have chosen once settings.json is damaged: the choices it held are
\* lost with it.
ChoicesLost == [chosen EXCEPT !.mode = Unset, !.skills = Unset, !.service = Unset]

\* Bound: nothing else changes the home while a call runs.
Edit(file) ==
  /\ call = NoCall /\ edits < MaxEdits /\ edits' = edits + 1
  /\ file \in Edits
  /\ \/ file = "settings"  /\ Writes("settings", DamagedSettings) /\ chosen' = ChoicesLost
     \/ file = "mode"      /\ disk.settings.readable /\ disk.settings.mode # Unset
                           /\ \E mode \in Modes :
                                /\ Writes("settings", Saved(disk.settings, "mode", mode))
                                /\ chosen' = [chosen EXCEPT !.mode = mode]
     \/ file = "protected" /\ Writes("protected", "damaged") /\ UNCHANGED chosen
     \/ file = "sandbox"   /\ Writes("sandbox", [disk.sandbox EXCEPT !.file = "damaged"])
                           /\ UNCHANGED chosen
     \/ file = "config"    /\ Writes("config", [disk.config EXCEPT !.file = "damaged"])
                           /\ UNCHANGED chosen
     \/ file = "rules"     /\ Writes("config", [disk.config EXCEPT !.ownerDenies = {"cli"}])
                           /\ disk.config.file = "present" /\ UNCHANGED chosen
     \/ file = "auth"      /\ Writes("auth", FALSE) /\ UNCHANGED chosen
     \/ file = "definition" /\ disk.approvals = "current"
                           /\ Writes("approvals", "older") /\ UNCHANGED chosen
  /\ edited' = TRUE
  /\ UNCHANGED <<call, calls, crashes>>

SetupInit ==
  /\ disk = EmptyHome /\ call = NoCall /\ chosen = NoChoice /\ edited = FALSE
  /\ calls = 0 /\ crashes = 0 /\ edits = 0

SetupNext ==
  \/ \E f \in Flags : Onboard(f) \/ Interview(f)
  \/ OfferImport \/ Menu \/ Login \/ Review
  \/ Reset \/ HomeStage \/ AuthStage \/ ModelStage \/ ResourcesStage \/ Approve
  \/ CapabilitiesStage \/ ProtectedStage \/ Reconcile \/ SandboxStage \/ Verify
  \/ ServiceStage \/ ReadinessStage \/ Stamp \/ Complete \/ Crash
  \/ \E file \in Edits : Edit(file)

SetupTypeOK ==
  /\ HomeTypeOK
  /\ call.pc \in {"none", "offer", "menu", "login", "review", "reset", "stage", "approve",
                  "reconcile", "verify", "stamp"}
  /\ call.done \in 0 .. Len(Stages)
  /\ edited \in BOOLEAN
  /\ calls \in 0 .. MaxCalls /\ crashes \in 0 .. MaxCrashes /\ edits \in 0 .. MaxEdits

\* The completion marker stands only over a home the doctor called ready, whichever calls,
\* stopped or finished, wrote its files, until something else changes them.
MarkerMeansReady == disk.marker /\ ~edited => DoctorReady

\* Between calls every setting the home records is the owner's last choice of it, whatever
\* was left out since, and a policy that is on keeps bash from what they protect.
ChoicesAreKept ==
  call = NoCall =>
    /\ disk.settings.mode \in {Unset, chosen.mode}
    /\ disk.settings.skills \in {Unset, chosen.skills}
    /\ disk.settings.service \in {Unset, chosen.service}
    /\ disk.protected \in {"missing", "damaged", chosen.protected}
    /\ disk.sandbox.file \in {"missing", "damaged", chosen.sandbox}
    /\ SetupComplete /\ ~edited => LoadedProtected \subseteq disk.sandbox.denies
=============================================================================
