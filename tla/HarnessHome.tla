----------------------------- MODULE HarnessHome -----------------------------
(***************************************************************************)
(* The files of the harness home that setup writes and that sessions and   *)
(* the daemon read: packages/contracts/src/harness-home.ts,                *)
(* protected-paths.ts, permissions.ts, onboarding.ts, and the sandbox      *)
(* policy of src/agent/sandbox/sandbox.ts.                                 *)
(*                                                                         *)
(* A file is abstracted to what its readers tell apart: that it is         *)
(* missing, that it is damaged, and the choice it records.                 *)
(***************************************************************************)
EXTENDS Naturals, Sequences

Stages == <<"home", "auth", "model", "resources", "capabilities", "protected-paths",
            "sandbox", "service", "readiness">>

Modes == {"allow", "ask", "read-only"}
SkillModes == {"bundled", "all"}
Choices == {"installed", "declined"}
Unset == "unset"

VARIABLE disk  \* the files of the home, one field each, and the launchd service

-----------------------------------------------------------------------------
(* settings.json.                                                          *)

NoSettings == [readable |-> TRUE, mode |-> Unset, skills |-> Unset, service |-> Unset]
DamagedSettings == [NoSettings EXCEPT !.readable = FALSE]

\* loadHarnessSettings: a file that cannot be read, or names no mode there is, means read-only.
EffectiveMode(settings) ==
  CASE ~settings.readable    -> "read-only"
    [] settings.mode = Unset -> "allow"
    [] OTHER                 -> settings.mode

SkillsOf(settings) == IF settings.skills = Unset THEN "all" ELSE settings.skills

\* saveHarnessSettings merges over what it can read, and over nothing when it cannot.
Saved(settings, field, value) ==
  [(IF settings.readable THEN settings ELSE NoSettings) EXCEPT ![field] = value]

-----------------------------------------------------------------------------
(* protected_paths.json and sandbox.json.                                  *)

\* The trees the owner protects: a missing or damaged file protects none.
LoadedProtected == IF disk.protected = "some" THEN {"owner"} ELSE {}
ProtectedReadable == disk.protected # "damaged"

NoPolicy == [file |-> "missing", inHome |-> FALSE, denies |-> {}]
PolicyReadable == disk.sandbox.file # "damaged"
SandboxOn(policy) == policy.file = "on"

\* homeInWriteRootsProblem.
WriteRootProblem(policy) == SandboxOn(policy) /\ policy.inHome

-----------------------------------------------------------------------------
(* The permission extension's config.                                      *)

ChangeAction(mode) ==
  CASE mode = "allow" -> "allow" [] mode = "read-only" -> "deny" [] OTHER -> "ask"

\* permissionPolicy: the default and the rules the harness owns follow the mode and the
\* protected paths; the owner's own rules stay, the last to match.
PermissionPolicy(config, mode, protected) ==
  [file |-> "present",
   reads |-> "allow",
   changes |-> ChangeAction(mode),
   bash |-> ChangeAction(mode),
   cli |-> IF "cli" \in config.ownerDenies THEN "deny" ELSE "allow",
   pathWrite |-> IF mode = "allow" THEN "none" ELSE ChangeAction(mode),
   denied |-> {"control"} \cup protected,
   ownerDenies |-> config.ownerDenies]

NoConfig == [file |-> "missing", reads |-> "none", changes |-> "none", bash |-> "none",
             cli |-> "none", pathWrite |-> "none", denied |-> {}, ownerDenies |-> {}]

-----------------------------------------------------------------------------
(* onboarded.json, resource-approvals.json and the doctor.                 *)

SetupComplete == disk.marker

\* unacknowledgedResources.
Unacknowledged == disk.approvals # "current"

\* setupReady(runDoctor).
DoctorReady ==
  /\ disk.roots
  /\ disk.auth
  /\ disk.model
  /\ disk.progress >= 4 /\ ~Unacknowledged
  /\ disk.config.file # "missing"
  /\ ProtectedReadable
  /\ PolicyReadable /\ ~WriteRootProblem(disk.sandbox)
  /\ SandboxOn(disk.sandbox) => disk.verification = "ok"
  /\ disk.settings.service # Unset

EmptyHome ==
  [roots |-> FALSE, auth |-> FALSE, model |-> FALSE, settings |-> NoSettings,
   approvals |-> "none", protected |-> "missing", sandbox |-> NoPolicy,
   verification |-> "none", config |-> NoConfig, progress |-> 0, marker |-> FALSE,
   launchd |-> FALSE]

HomeTypeOK ==
  disk \in [roots : BOOLEAN, auth : BOOLEAN, model : BOOLEAN,
            settings : [readable : BOOLEAN, mode : Modes \cup {Unset},
                        skills : SkillModes \cup {Unset}, service : Choices \cup {Unset}],
            approvals : {"none", "older", "current"},
            protected : {"missing", "empty", "some", "damaged"},
            sandbox : [file : {"missing", "off", "on", "damaged"}, inHome : BOOLEAN,
                       denies : SUBSET {"credentials", "owner"}],
            verification : {"none", "ok", "failed"},
            config : [file : {"missing", "present", "damaged"}, reads : {"none", "allow"},
                      changes : {"none", "allow", "ask", "deny"},
                      bash : {"none", "allow", "ask", "deny"},
                      cli : {"none", "allow", "deny"},
                      pathWrite : {"none", "ask", "deny"},
                      denied : SUBSET {"control", "owner"}, ownerDenies : SUBSET {"cli"}],
            progress : 0 .. Len(Stages), marker : BOOLEAN, launchd : BOOLEAN]
=============================================================================
