------------------------------ MODULE MCPlayer ------------------------------
(* The two things a player has of its own, for TLC: a corrector of times and *)
(* a loop that is woken for packets. Neither reads what the other keeps, so  *)
(* that a behaviour in which one moves while the other is where it began     *)
(* shows all that either can do.                                             *)
EXTENDS PlayerPump, TimeCorrector

playerVars == <<pumpVars, vars>>

(* The corrector's behaviours need the pump in one state only.               *)
Joining == loop = "joining" /\ frame_index_ = 0 /\ publishing = [p \in Publishers |-> "idle"] /\ ~sending_

PlayerInit == PumpInit /\ Init

PlayerNext ==
  \/ Init /\ PumpNext /\ UNCHANGED vars
  \/ Joining /\ Next /\ UNCHANGED pumpVars

(* FairPumpSpec, for as long as it is the pump that moves.                   *)
PlayerSpec ==
  /\ PlayerInit /\ [][PlayerNext]_playerVars
  /\ WF_playerVars(Init /\ LoopStep /\ UNCHANGED vars)
  /\ WF_playerVars(Init /\ CheckAndSend /\ UNCHANGED vars)
=============================================================================
