------------------------------ MODULE Sessions ------------------------------
(***************************************************************************)
(* A harness session over the home: the setup gate in front of it, what it *)
(* reads when it starts, and how its bash runs a command                   *)
(* (src/agent/runtime.ts, agent-cli-command.ts, prompt-runner.ts and       *)
(* src/cli/entry.ts).                                                      *)
(*                                                                         *)
(* One session at a time: sessions share nothing but the home.             *)
(***************************************************************************)
EXTENDS HarnessHome

CONSTANT MaxSessions  \* bound: sessions started

VARIABLES
  session,  \* its pc, whether it is headless, and the sandbox policy its bash was built with
  commands, \* the commands a shell ran, as the properties see them
  sessions

sessionVars == <<session, commands, sessions>>

NoSession == [pc |-> "none", headless |-> FALSE, policy |-> NoPolicy]

\* What bash is given: one plain call of the CLI, a text that names the CLI otherwise, or
\* neither.
Texts == {"call", "names", "other"}

-----------------------------------------------------------------------------
\* requireOnboarded, the daemon's readiness for a chat, or the scheduled prompt's; what follows
\* is imported or awaited.
SessionBegins(headless) ==
  /\ session = NoSession /\ sessions < MaxSessions
  /\ SetupComplete
  /\ session' = [NoSession EXCEPT !.pc = "admitted", !.headless = headless]
  /\ sessions' = sessions + 1
  /\ UNCHANGED <<disk, commands>>

\* assertSessionCanStart.
SessionCanStart ==
  ProtectedReadable /\ PolicyReadable /\ ~WriteRootProblem(disk.sandbox) /\ ~Unacknowledged

\* Up to the await on Pi's services: the assertions, the reconciled permission config, and the
\* refusal of a config that does not parse.
SessionLoads ==
  /\ session.pc = "admitted"
  /\ IF SessionCanStart /\ disk.config.file # "damaged"
     THEN /\ session' = [session EXCEPT !.pc = "loading"]
          /\ disk' = [disk EXCEPT
               !.config = PermissionPolicy(@, EffectiveMode(disk.settings), LoadedProtected)]
     ELSE session' = NoSession /\ UNCHANGED disk
  /\ UNCHANGED <<commands, sessions>>

\* After it: bashExecutor reads the sandbox policy once for the session, and throws over a
\* damaged one.
SessionOpens ==
  /\ session.pc = "loading"
  /\ session' = IF PolicyReadable
                THEN [session EXCEPT !.pc = "live",
                        !.policy = IF SandboxOn(disk.sandbox) THEN disk.sandbox ELSE NoPolicy]
                ELSE NoSession
  /\ UNCHANGED <<disk, commands, sessions>>

\* The shell is taken for the mode the config had when the session was built.
SlipReachesShell(text) ==
  \/ disk.config.bash = "allow"
  \/ EffectiveMode(disk.settings) = "allow"
  \/ EffectiveMode(disk.settings) = "ask" /\ text = "other" /\ ~session.headless

\* bashOperations reads the mode for every command. In allow every text goes to the shell; in
\* ask what does not name the CLI, once the owner approved it, which nobody can in a headless run.
ReachesShell(text) ==
  \/ EffectiveMode(disk.settings) = "allow"
  \/ EffectiveMode(disk.settings) = "ask" /\ text = "other" /\ ~session.headless

BashRuns(text, choice) ==
  /\ session.pc = "live" /\ ReachesShell(text)
  /\ commands' = commands \cup
       {[text |-> text, headless |-> session.headless, choice |-> choice,
         policy |-> session.policy]}
  /\ UNCHANGED <<disk, session, sessions>>

\* /new, /resume and /fork in a terminal build the services again, without the setup gate.
SessionReplaced ==
  /\ session.pc = "live" /\ ~session.headless
  /\ session' = [NoSession EXCEPT !.pc = "admitted"]
  /\ UNCHANGED <<disk, commands, sessions>>

SessionEnds ==
  /\ session.pc # "none"
  /\ session' = NoSession
  /\ UNCHANGED <<disk, commands, sessions>>

SessionsInit == session = NoSession /\ commands = {} /\ sessions = 0

SessionsTypeOK ==
  /\ session.pc \in {"none", "admitted", "loading", "live"} /\ session.headless \in BOOLEAN
  /\ sessions \in 0 .. MaxSessions
=============================================================================
