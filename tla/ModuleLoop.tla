------------------------------- MODULE ModuleLoop ------------------------------
(***************************************************************************)
(* The main loop of a module with the motor it controls: ModuleMain knows  *)
(* of the motor that it runs or not, SpeedControl says when.  A behaviour  *)
(* looks at the chain, with a motor that may run at any time, or at the    *)
(* motor, with a chain that stays silent but for the motor's properties.   *)
(***************************************************************************)
EXTENDS ModuleMain, SpeedControl

VARIABLE used     (* "chain" or "motor" *)

loopVars == <<vars, speedVars, used>>

(* Bound: the clock only wraps where the chain is looked at. *)
LoopInit ==
  /\ Init /\ SpeedInit /\ used \in {"chain", "motor"}
  /\ used = "motor" => toWrap = 0

ChainStep(A) == used = "chain" /\ A /\ UNCHANGED <<speedVars, used>>

(* A pass of the loop: messages, a tick of the sense timer if there was    *)
(* one, a tick of the pwm timer if there was one, and the rest.            *)
MotorStep ==
  /\ used = "motor"
  /\ \/ pc = "node" /\ Writes /\ UNCHANGED vars
     \/ NodeTick /\ (Sense \/ UNCHANGED speedVars)
     \/ Control /\ MotorControl(IsRunning')
     \/ MotorControl(running) /\ UNCHANGED speedVars
     \/ (CommsStateUpdate \/ MotorStateUpdate \/ Again) /\ UNCHANGED speedVars
  /\ UNCHANGED used

LoopNext == ChainStep(Next) \/ MotorStep

(* ModuleMain's fairness, where the chain is looked at. *)
LoopSpec ==
  /\ LoopInit /\ [][LoopNext]_loopVars
  /\ WF_loopVars(ChainStep(Loop)) /\ WF_loopVars(ChainStep(Tick)) /\ WF_loopVars(ChainStep(MessageEnds))
  /\ SF_loopVars(ChainStep(MotorControl(FALSE)))

LoopTypeOK ==
  /\ TypeOK /\ SpeedTypeOK /\ used \in {"chain", "motor"}
  /\ used = "motor" => running = IsRunning
================================================================================
