------------------------------- MODULE Gateway -------------------------------
(***************************************************************************)
(* The daemon's routes (src/gateway/server.ts): who may call what, the     *)
(* gate of an incomplete setup, and the request body, which arrives after  *)
(* both were decided.                                                      *)
(*                                                                         *)
(* One schedule and one note stand for their tables; the chat and file     *)
(* routes are decided here and modelled in ChatTurns and FileEditor.       *)
(***************************************************************************)
EXTENDS HarnessHome

CONSTANTS Slots, MaxRequests  \* connections; bound: requests made

Callers == {"owner", "agent"}
Kinds == {"prompt", "command"}
WithBody == {"create", "update", "addNote", "send"}
Operations == WithBody \cup {"run", "delete", "deleteNote", "status"}

\* A request: only a schedule's body has a payload kind that is looked at.
Asks ==
  [caller : Callers, op : {"create", "update"}, kind : Kinds] \cup
  [caller : Callers, op : Operations \ {"create", "update"}, kind : {"none"}]

VARIABLES
  requests, \* what each connection asks while its body is read
  schedule, \* the payload of the schedule, or "none"
  notes,
  effect,   \* what the latest request did to the schedule, as the properties see it
  made

gatewayVars == <<requests, schedule, notes, effect, made>>

NoEffect == [caller |-> "none", op |-> "none", was |-> "none", becomes |-> "none"]
Idle == [caller |-> "owner", op |-> "none", kind |-> "none"]

-----------------------------------------------------------------------------
\* The route table: what an agent may call, and what waits for setup.
AgentMay(op) == op # "send"
SetupGated(op) == op # "status"

\* agentAuthorization over the schedule as it is stored.
MayTouch(caller, payload) == caller = "owner" \/ payload # "command"

Acts(caller, op, becomes) ==
  /\ schedule' = becomes
  /\ effect' = [caller |-> caller, op |-> op, was |-> schedule, becomes |-> becomes]
  /\ UNCHANGED notes

Nothing == UNCHANGED <<schedule, notes, effect>>

\* POST /schedules, with the agent's refusal over the body.
Create(q) ==
  IF MayTouch(q.caller, q.kind) /\ schedule = "none"
  THEN Acts(q.caller, "create", q.kind) ELSE Nothing

\* The stored schedule is not looked at again.
SlipUpdate(q) ==
  IF MayTouch(q.caller, q.kind) /\ schedule # "none"
  THEN Acts(q.caller, "update", q.kind) ELSE Nothing

\* PUT /schedules/:id: the body decides, then the stored schedule, in the step that writes it.
Update(q) ==
  IF MayTouch(q.caller, q.kind) /\ schedule # "none" /\ MayTouch(q.caller, schedule)
  THEN Acts(q.caller, "update", q.kind) ELSE Nothing

\* POST /schedules/:id/run, which the scheduler claims in the same step.
Run(caller) ==
  IF schedule # "none" /\ MayTouch(caller, schedule)
  THEN Acts(caller, "run", schedule) ELSE Nothing

Delete(caller) == IF schedule # "none" THEN Acts(caller, "delete", "none") ELSE Nothing

Note(present) == notes' = present /\ UNCHANGED <<schedule, effect>>

\* handle: the token of the owner's listener, the gate, the route's caller policy; then a
\* handler that takes no body acts at once.
Admitted(q) == (SetupGated(q.op) => SetupComplete) /\ (q.caller = "agent" => AgentMay(q.op))

Receive(s, q) ==
  /\ requests[s] = Idle /\ made < MaxRequests /\ made' = made + 1
  /\ \/ ~Admitted(q) /\ Nothing
     \/ Admitted(q) /\ q.op \in WithBody \cup {"status"} /\ Nothing
     \/ Admitted(q) /\ q.op = "run" /\ Run(q.caller)
     \/ Admitted(q) /\ q.op = "delete" /\ Delete(q.caller)
     \/ Admitted(q) /\ q.op = "deleteNote" /\ Note(FALSE)
  /\ requests' = IF Admitted(q) /\ q.op \in WithBody THEN [requests EXCEPT ![s] = q] ELSE requests
  /\ UNCHANGED disk

\* readBody ends: with a body that counts, or with one too long, not JSON or refused.
BodyArrives(s) ==
  /\ requests[s] # Idle
  /\ LET q == requests[s]
     IN \/ q.op = "create" /\ Create(q)
        \/ q.op = "update" /\ Update(q)
        \/ q.op = "addNote" /\ Note(TRUE)
        \/ Nothing
  /\ requests' = [requests EXCEPT ![s] = Idle]
  /\ UNCHANGED <<disk, made>>

GatewayInit ==
  /\ requests = [s \in Slots |-> Idle] /\ schedule \in {"none"} \cup Kinds
  /\ notes = FALSE /\ effect = NoEffect /\ made = 0

GatewayTypeOK ==
  /\ requests \in [Slots -> Asks \cup {Idle}]
  /\ schedule \in {"none"} \cup Kinds /\ notes \in BOOLEAN /\ made \in 0 .. MaxRequests

\* An agent caller never creates a command schedule, never changes a schedule to or from one and
\* never runs one, whatever the owner makes of the schedule while the agent's body is read. It
\* may delete one.
AgentKeepsOutOfCommands ==
  effect.caller = "agent" /\ effect.op # "delete" =>
    effect.was # "command" /\ effect.becomes # "command"
=============================================================================
