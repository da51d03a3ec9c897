----------------------------- MODULE TurnLedger -----------------------------
(***************************************************************************)
(* What the chat service promises about the messages of one chat, with     *)
(* neither session nor page: docs/state-and-sessions.md, "Chats".  One     *)
(* message at a time is taken; it is refused, or its reply begins, comes   *)
(* to an end and tells it, once.  A turn is called cancelled only when     *)
(* someone asked for it, and then never failed.  A service that stops      *)
(* takes nothing more, cancels the turn at work and waits for it.  A       *)
(* reply is cut short only when the service's process dies.                *)
(***************************************************************************)
EXTENDS Naturals

CONSTANTS Turns, NoTurn

VARIABLES
  place,    \* per turn, where it is; its outcome once it has one
  work,     \* the turn at work, which has not told its end yet
  wish,     \* has someone asked to cancel it?
  stopping, \* the service: "no", "waiting" for the turn at work, or "done"
  deaths    \* how often it has died

Outcomes == {"completed", "cancelled", "failed"}

AtWork(where) == work # NoTurn /\ place[work] \in where
Now(where) == place' = [place EXCEPT ![work] = where]

LedgerInit ==
  /\ place = [t \in Turns |-> "unsent"]
  /\ work = NoTurn
  /\ wish = FALSE
  /\ stopping = "no"
  /\ deaths = 0

Take(t) ==
  /\ work = NoTurn /\ stopping = "no" /\ place[t] = "unsent"
  /\ place' = [place EXCEPT ![t] = "taken"]
  /\ work' = t /\ wish' = FALSE
  /\ UNCHANGED <<stopping, deaths>>

Refuse ==
  /\ AtWork({"taken"}) /\ Now("refused")
  /\ work' = NoTurn /\ wish' = FALSE
  /\ UNCHANGED <<stopping, deaths>>

Begin ==
  /\ AtWork({"taken"}) /\ Now("replying")
  /\ UNCHANGED <<work, wish, stopping, deaths>>

Finish(how) ==
  /\ AtWork({"replying"}) /\ Now(how)
  /\ how = "cancelled" => wish
  /\ how = "failed" => ~wish
  /\ UNCHANGED <<work, wish, stopping, deaths>>

Tell ==
  /\ AtWork(Outcomes)
  /\ work' = NoTurn /\ wish' = FALSE
  /\ UNCHANGED <<place, stopping, deaths>>

Ask ==
  /\ work # NoTurn /\ wish' = TRUE
  /\ UNCHANGED <<place, work, stopping, deaths>>

Stop ==
  /\ stopping = "no" /\ stopping' = "waiting"
  /\ wish' = (wish \/ work # NoTurn)
  /\ UNCHANGED <<place, work, deaths>>

Stopped ==
  /\ stopping = "waiting" /\ work = NoTurn
  /\ stopping' = "done"
  /\ UNCHANGED <<place, work, wish, deaths>>

Die ==
  /\ AtWork({"replying"} \cup Outcomes) /\ Now("cut")
  /\ deaths' = deaths + 1
  /\ work' = NoTurn /\ wish' = FALSE /\ stopping' = "no"

LedgerNext ==
  \/ \E t \in Turns : Take(t)
  \/ Refuse \/ Begin \/ \E how \in Outcomes : Finish(how)
  \/ Tell \/ Ask \/ Stop \/ Stopped \/ Die

LedgerSpec == LedgerInit /\ [][LedgerNext]_<<place, work, wish, stopping, deaths>>
=============================================================================
