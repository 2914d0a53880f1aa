------------------------------- MODULE ModuleMain -------------------------------
(***************************************************************************)
(* The main loop of a module: property writes change the configuration in  *)
(* RAM and raise flags; the loop stores the configuration and reboots only *)
(* when neither the motor nor the chain has been active for a while.       *)
(*                                                                         *)
(* The loop is a sequence of steps.  Messages, the clock and the power are *)
(* not under its control and act between any two of them.                  *)
(*                                                                         *)
(* A deadline is kept as the ticks left to it.  The clock, of 32 bits,     *)
(* wraps once in 49.7 days, or not at all while we look: the ticks to that *)
(* are kept too.  A deadline that is beyond the wrap counts as passed      *)
(* until then; one that has come before it counts as far away afterwards.  *)
(***************************************************************************)
EXTENDS Integers

CONSTANTS
  Configs,        (* contents of of_config that are told apart          *)
  Erased,         (* what an erased configuration sector reads as       *)
  CommsIdle,      (* COMMS_IDLE_TIMEOUT_MS                              *)
  MotorIdle,      (* MOTOR_IDLE_TIMEOUT_MS                              *)
  Wraps,          (* ticks to the wrap of the clock; 0 for none         *)
  PowerFails,     (* the power may go at any time                       *)
  MaxMessages,    (* bound: messages                                    *)
  MaxTurns        (* bound: times the motor starts to run               *)

ASSUME MainAssumption ==
  /\ Configs # {} /\ Erased \notin Configs
  /\ CommsIdle \in Nat /\ MotorIdle \in Nat /\ Wraps \subseteq Nat
  /\ PowerFails \in BOOLEAN /\ MaxMessages \in Nat /\ MaxTurns \in Nat

VARIABLES
  pc,                       (* main loop: next step                           *)
  config, nvs,              (* of_config, and the sector it is stored in      *)
  store, reboot,            (* store_config, reboot                           *)
  msg,                      (* message on the module: "none", "pending", "done" *)
  running,                  (* of_hal_motor_is_running                        *)
  commsActive, commsLeft,   (* comms_active, ticks to comms_active_timeout_tick *)
  motorActive, motorLeft,   (* motor_active, ticks to motor_active_timeout_tick *)
  toWrap,                   (* ticks to the wrap of the clock; 0 for none     *)
  messages, turns,          (* bounds: messages and turns so far              *)
  accepted,                 (* history: configuration accepted last           *)
  answered                  (* history: the REBOOT's message is over          *)

flags == <<store, reboot>>
timers == <<commsActive, commsLeft, motorActive, motorLeft, toWrap>>
bounds == <<messages, turns>>
vars == <<pc, config, nvs, flags, msg, running, timers, bounds, accepted, answered>>

Busy == msg # "none"    (* mdl_node_is_busy *)

Past == -1      (* a deadline that has passed,                              *)
Missed == -2    (* or had passed when the clock wrapped, and now is far off *)

(* main, up to the loop: the configuration is loaded, all else is zero. *)
Boot ==
  /\ pc' = "node" /\ config' = nvs
  /\ store' = FALSE /\ reboot' = FALSE
  /\ msg' = "none" /\ running' = FALSE
  /\ commsActive' = FALSE /\ commsLeft' = 0 /\ motorActive' = FALSE /\ motorLeft' = 0
  /\ toWrap' = 0
  /\ accepted' = config' /\ answered' = TRUE
  /\ UNCHANGED <<nvs, bounds>>

Init ==
  /\ pc = "node" /\ config \in Configs /\ nvs = config
  /\ store = FALSE /\ reboot = FALSE
  /\ msg = "none" /\ running = FALSE
  /\ commsActive = FALSE /\ commsLeft = 0 /\ motorActive = FALSE /\ motorLeft = 0
  /\ toWrap \in Wraps
  /\ messages = 0 /\ turns = 0
  /\ accepted = config /\ answered = TRUE

--------------------------------------------------------------------------------
(* mdl_node_tick: nothing to do, or one message *)

Goto(from, to) == pc = from /\ pc' = to

NodeTick ==
  /\ Goto("node", "pwm") /\ msg # "pending"
  /\ UNCHANGED <<config, nvs, flags, msg, running, timers, bounds, accepted, answered>>

Handle == Goto("node", "pwm") /\ msg = "pending" /\ msg' = "done"

(* A read, or a write of a property that is not stored. *)
OtherMessage ==
  /\ Handle
  /\ UNCHANGED <<config, nvs, flags, running, timers, bounds, accepted, answered>>

(* Mutant: the configuration is not marked for storing. *)
ConfigWriteUnmarked(new) ==
  /\ Handle
  /\ config' = new /\ accepted' = new
  /\ UNCHANGED <<nvs, flags, running, timers, bounds, answered>>

(* The setters of the stored properties. *)
ConfigWrite(new) ==
  /\ Handle
  /\ config' = new /\ accepted' = new
  /\ store' = (store \/ new # config)
  /\ UNCHANGED <<nvs, reboot, running, timers, bounds, answered>>

(* CMD_REBOOT *)
RebootWrite ==
  /\ Handle
  /\ reboot' = TRUE /\ answered' = FALSE
  /\ UNCHANGED <<config, nvs, store, running, timers, bounds, accepted>>

--------------------------------------------------------------------------------
(* motor_control_loop: what it decides is the matter of FlapMotion. *)
MotorControl(on) ==
  /\ Goto("pwm", "comms")
  /\ running' = on
  /\ turns' = turns + (IF on /\ ~running THEN 1 ELSE 0)
  /\ turns' <= MaxTurns
  /\ UNCHANGED <<config, nvs, flags, msg, timers, messages, accepted, answered>>

(* of_hal_tick_count_get() > deadline *)
Passed(left) == left = Past \/ (toWrap > 0 /\ left >= toWrap)

(* Mutant: the chain counts as idle as soon as it is not busy. *)
CommsStateUpdateBlind ==
  /\ Goto("comms", "motor")
  /\ commsActive' = FALSE
  /\ UNCHANGED <<config, nvs, flags, msg, running, commsLeft, motorActive, motorLeft, toWrap, bounds, accepted, answered>>

(* Mutant: the chain counts as active one tick longer. *)
CommsStateUpdateLong ==
  /\ Goto("comms", "motor")
  /\ \/ Busy /\ commsActive' = TRUE /\ commsLeft' = CommsIdle + 1
     \/ ~Busy /\ commsActive' = (commsActive /\ ~Passed(commsLeft)) /\ UNCHANGED commsLeft
  /\ UNCHANGED <<config, nvs, flags, msg, running, motorActive, motorLeft, toWrap, bounds, accepted, answered>>

CommsStateUpdate ==
  /\ Goto("comms", "motor")
  /\ \/ Busy /\ commsActive' = TRUE /\ commsLeft' = CommsIdle
     \/ ~Busy /\ commsActive' = (commsActive /\ ~Passed(commsLeft)) /\ UNCHANGED commsLeft
  /\ UNCHANGED <<config, nvs, flags, msg, running, motorActive, motorLeft, toWrap, bounds, accepted, answered>>

(* Mutant: the deadline is renewed as long as the motor counts as active. *)
MotorStateUpdateSticky ==
  /\ Goto("motor", "idle")
  /\ \/ (running \/ motorActive) /\ motorActive' = TRUE /\ motorLeft' = MotorIdle
     \/ ~running /\ ~motorActive /\ UNCHANGED <<motorActive, motorLeft>>
  /\ UNCHANGED <<config, nvs, flags, msg, running, commsActive, commsLeft, toWrap, bounds, accepted, answered>>

MotorStateUpdate ==
  /\ Goto("motor", "idle")
  /\ \/ running /\ motorActive' = TRUE /\ motorLeft' = MotorIdle
     \/ ~running /\ motorActive' = (motorActive /\ ~Passed(motorLeft)) /\ UNCHANGED motorLeft
  /\ UNCHANGED <<config, nvs, flags, msg, running, commsActive, commsLeft, toWrap, bounds, accepted, answered>>

--------------------------------------------------------------------------------
(* Idle logic *)

AtRest == ~motorActive /\ ~commsActive

(* The loop goes round: it is not idle, or there is nothing to do. *)
Again ==
  /\ pc = "idle" /\ pc' = "node"
  /\ ~AtRest \/ (~store /\ ~reboot)
  /\ UNCHANGED <<config, nvs, flags, msg, running, timers, bounds, accepted, answered>>

StoreBegin ==
  /\ Goto("idle", "erase")
  /\ AtRest /\ store
  /\ store' = FALSE
  /\ UNCHANGED <<config, nvs, reboot, msg, running, timers, bounds, accepted, answered>>

(* of_hal_config_store: the sector is erased, then programmed. *)
StoreErase ==
  /\ Goto("erase", "program")
  /\ nvs' = Erased
  /\ UNCHANGED <<config, flags, msg, running, timers, bounds, accepted, answered>>

StoreProgram ==
  /\ Goto("program", "idle")
  /\ nvs' = config
  /\ UNCHANGED <<config, flags, msg, running, timers, bounds, accepted, answered>>

(* Mutant: the reboot does not wait for the configuration to be stored. *)
RebootFirst ==
  /\ pc = "idle" /\ AtRest /\ reboot
  /\ Boot

(* NVIC_SystemReset *)
Reboot ==
  /\ pc = "idle" /\ AtRest /\ reboot /\ ~store
  /\ Boot

--------------------------------------------------------------------------------
(* What happens to the module *)

MessageArrives ==
  /\ msg = "none" /\ messages < MaxMessages
  /\ msg' = "pending" /\ messages' = messages + 1
  /\ UNCHANGED <<pc, config, nvs, flags, running, timers, turns, accepted, answered>>

(* The answer has left the module. *)
MessageEnds ==
  /\ msg = "done"
  /\ msg' = "none" /\ answered' = TRUE
  /\ UNCHANGED <<pc, config, nvs, flags, running, timers, bounds, accepted>>

(* A tick: an open deadline comes nearer; when the clock wraps, one that   *)
(* was not beyond that is missed.                                          *)
Sooner(left) ==
  IF toWrap = 1 /\ left < 1 THEN Missed
  ELSE IF left >= 0 THEN left - 1 ELSE left

Tick ==
  /\ commsLeft' = Sooner(commsLeft) /\ motorLeft' = Sooner(motorLeft)
  /\ toWrap' = IF toWrap > 0 THEN toWrap - 1 ELSE 0
  /\ UNCHANGED <<pc, config, nvs, flags, msg, running, commsActive, motorActive, bounds, accepted, answered>>

PowerLoss == PowerFails /\ Boot

--------------------------------------------------------------------------------
Loop ==
  \/ NodeTick \/ OtherMessage
  \/ \E new \in Configs : ConfigWrite(new)
  \/ RebootWrite
  \/ \E on \in BOOLEAN : MotorControl(on)
  \/ CommsStateUpdate \/ MotorStateUpdate
  \/ Again \/ StoreBegin \/ StoreErase \/ StoreProgram \/ Reboot

Next == Loop \/ MessageArrives \/ MessageEnds \/ Tick \/ PowerLoss

Spec == Init /\ [][Next]_vars

(* The loop goes on, the clock ticks, an answer leaves the module, and the *)
(* motor does not run for ever.                                            *)
FairSpec ==
  /\ Spec
  /\ WF_vars(Loop) /\ WF_vars(Tick) /\ WF_vars(MessageEnds)
  /\ SF_vars(MotorControl(FALSE))
--------------------------------------------------------------------------------
(* Every variable keeps its type; a deadline is never further away than    *)
(* its timeout, nor kept counting once it has passed.                      *)
TypeOK ==
  /\ pc \in {"node", "pwm", "comms", "motor", "idle", "erase", "program"}
  /\ {config, nvs, accepted} \subseteq Configs \cup {Erased}
  /\ {store, reboot, running, commsActive, motorActive, answered} \subseteq BOOLEAN
  /\ msg \in {"none", "pending", "done"}
  /\ commsLeft \in Missed .. CommsIdle /\ motorLeft \in Missed .. MotorIdle
  /\ toWrap \in Nat
  /\ messages \in 0 .. MaxMessages /\ turns \in 0 .. MaxTurns

(* An accepted configuration is in flash, or is due to be stored: no write *)
(* slips between the flag, the erasing and the programming, whenever it    *)
(* comes and whenever the power goes.                                      *)
StoredOrDue == nvs = config \/ store \/ pc \in {"erase", "program"}

(* A reboot on command loses no accepted configuration, though it may come *)
(* in the same pass of the loop as the write; and it waits for the         *)
(* communication that carried the command to end (property_handlers.c:38). *)
RebootIsSafe == [][Reboot => config' = accepted /\ answered]_vars

(* A module that is told to reboot does so, however often it was busy, and *)
(* although the clock wraps; but not if the loop was not there to see a    *)
(* deadline pass before the wrap (openflap.c:121, 138).                    *)
DeadlineMissed == (commsActive /\ commsLeft = Missed) \/ (motorActive /\ motorLeft = Missed)
RebootFollows == reboot ~> (~reboot \/ DeadlineMissed)
================================================================================
