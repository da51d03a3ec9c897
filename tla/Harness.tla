------------------------------- MODULE Harness -------------------------------
(***************************************************************************)
(* Setup, a session and the gateway's requests over one harness home: a    *)
(* rerun of onboarding writes the files under a session that lives and     *)
(* under requests that passed the gate.                                    *)
(***************************************************************************)
EXTENDS Setup, Sessions, Gateway

vars == <<disk, setupVars, sessionVars, gatewayVars>>

Init == SetupInit /\ SessionsInit /\ GatewayInit

SessionsNext ==
  \/ \E headless \in BOOLEAN : SessionBegins(headless)
  \/ SessionLoads \/ SessionOpens \/ SessionReplaced \/ SessionEnds
  \/ \E text \in Texts : BashRuns(text, chosen.mode)

GatewayNext ==
  \/ \E s \in Slots, q \in Asks : Receive(s, q)
  \/ \E s \in Slots : BodyArrives(s)

Next ==
  \/ SetupNext /\ UNCHANGED <<sessionVars, gatewayVars>>
  \/ SessionsNext /\ UNCHANGED <<setupVars, gatewayVars>>
  \/ GatewayNext /\ UNCHANGED <<setupVars, sessionVars>>

Spec == Init /\ [][Next]_vars

TypeOK == SetupTypeOK /\ SessionsTypeOK /\ GatewayTypeOK

\* A command reaches a shell only as the owner's latest choice of mode allows, also in a session
\* that began under another one, and its sandbox, read after the checks of the policy, never
\* lets it write the home.
CommandsStayInBounds ==
  \A c \in commands :
    /\ c.choice # "read-only"
    /\ c.choice = "ask" => c.text = "other" /\ ~c.headless
    /\ ~WriteRootProblem(c.policy)

\* Over a completed home whose files only onboarding and sessions wrote, the permission config
\* agrees with the mode and the protected paths on record, whichever calls wrote them and wherever
\* they stopped: the doctor asks only that there is a config.
ConfigFollowsChoices ==
  SetupComplete /\ edits = 0 =>
    /\ disk.config.changes = ChangeAction(EffectiveMode(disk.settings))
    /\ disk.config.bash = ChangeAction(EffectiveMode(disk.settings))
    /\ LoadedProtected \subseteq disk.config.denied
=============================================================================
