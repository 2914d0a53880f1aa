-------------------------------- MODULE Controller -----------------------------
(***************************************************************************)
(* The controller: app_main starts the network, the display, the web       *)
(* server and its endpoints one after the other (main.c), and confirms or  *)
(* rolls back its own image.  A restart loses all of RAM, and ends what    *)
(* every service was doing.                                                *)
(*                                                                         *)
(* Once started, the services share no state: a behaviour uses one, the    *)
(* others stay as app_main has left them.                                  *)
(***************************************************************************)
EXTENDS ControllerOta, Networking, WebsocketLog, DisplayMemory

VARIABLES
  used,         (* the service in use: "ota", "network", "log" or "display"  *)
  step          (* app_main: what it starts next; "none" outside startup     *)

serviceVars == <<netVars, logVars, memVars>>
controllerVars == <<vars, serviceVars, used, step>>

Steps == {"networking", "wait", "display", "server", "logger", "api"}

ControllerInit ==
  /\ Init /\ NetInit /\ LogInit /\ MemInit
  /\ used \in {"ota", "network", "log", "display"} /\ step = "none"

(* An action of ControllerOta, which may be a restart of the controller. *)
Ota(A) ==
  /\ A
  /\ IF cpc' = "boot" THEN NetDrop /\ LogDrop /\ MemDrop /\ step' = "none"
     ELSE UNCHANGED <<serviceVars, step>>
  /\ UNCHANGED used

--------------------------------------------------------------------------------
(* app_main *)

Starting(from, to) ==
  /\ cpc = "startup" /\ step = from /\ step' = to
  /\ UNCHANGED <<vars, memVars, used>>

ImageBoots ==
  /\ Boot /\ step' = "networking"
  /\ UNCHANGED <<serviceVars, used>>

(* networking_setup; every other service needs its event loop. *)
NetworkingStarts == Starting("networking", "wait") /\ StationStarts /\ UNCHANGED logVars

(* Mutant: the wait is not limited. *)
ConnectionIsAwaited ==
  /\ connectedBit
  /\ Starting("wait", "display") /\ UNCHANGED <<netVars, logVars>>

(* networking_wait_for_connection: ten seconds at most, and the result is  *)
(* not looked at.                                                          *)
WaitEnds == Starting("wait", "display") /\ UNCHANGED <<netVars, logVars>>

(* of_display_init; from now on the master task waits for a round. *)
DisplayStarts == Starting("display", "server") /\ UNCHANGED <<netVars, logVars>>

(* webserver_init up to the handler of /log, and the rest of it *)
ServerStarts == Starting("server", "logger") /\ UNCHANGED <<netVars, logVars>>
LogStarts == Starting("logger", "api") /\ LoggerStarts /\ UNCHANGED netVars

(* A browser opens /log in between: xSemaphoreTake asserts that there is a *)
(* mutex.                                                                  *)
LogOpenedEarly ==
  /\ used = "ota" /\ cpc = "startup" /\ step = "logger"
  /\ losses < MaxLosses /\ losses' = losses + 1
  /\ Ota(Restart /\ UNCHANGED flashVars)

(* module_api_init and controller_ota_init *)
ApisStart ==
  /\ step = "api" /\ step' = "none"
  /\ StartupSucceeds
  /\ UNCHANGED <<serviceVars, used>>

StepFails ==
  /\ Works(running) => used = "ota"
  /\ step \in Steps \ {"wait"} /\ step' = "none"
  /\ StartupFails
  /\ UNCHANGED <<serviceVars, used>>

AppMain ==
  \/ ImageBoots \/ NetworkingStarts \/ WaitEnds \/ DisplayStarts \/ ServerStarts \/ LogStarts
  \/ ApisStart \/ StepFails \/ Ota(StartupCrashes) \/ Ota(Verify)

--------------------------------------------------------------------------------
(* The services *)

NetworkStep ==
  /\ used = "network" /\ (Radio \/ EventLoop)
  /\ UNCHANGED <<vars, logVars, memVars, used, step>>

(* The mutex exists from LogStarts on. *)
LogStep ==
  /\ used = "log" /\ mutex # "none"
  /\ \/ Log \/ Logger \/ OpenStep
     \/ \E f \in Fds : Connect(f) \/ Disconnect(f) \/ OpenLog(f)
  /\ UNCHANGED <<vars, netVars, memVars, used, step>>

(* Requests for the display come when app_main is done. *)
DisplayStep ==
  /\ used = "display" /\ cpc = "up"
  /\ (Request \/ Round)
  /\ UNCHANGED <<vars, netVars, logVars, used, step>>

DisplayFaults ==
  /\ used = "display" /\ Fault
  /\ Ota(Restart /\ UNCHANGED <<flashVars, losses>>)

(* Power is lost: at any time in a behaviour that looks at the updates; in *)
(* the others, where it only empties the RAM, after startup (bound).       *)
PowerIsLost ==
  \/ used = "ota" /\ Ota(PowerLoss)
  \/ used # "ota" /\ cpc = "up" /\ Ota(Restart /\ UNCHANGED <<flashVars, losses>>)

OtaStep ==
  /\ used = "ota"
  /\ \/ \E n \in Sizes, k \in Kinds : Ota(Put(n, k))
     \/ Ota(Receive) \/ Ota(Close) \/ Ota(Handler)

ControllerNext ==
  \/ AppMain \/ NetworkStep \/ LogStep \/ DisplayStep \/ DisplayFaults \/ OtaStep
  \/ LogOpenedEarly \/ Ota(TimerFires) \/ PowerIsLost

(* The tasks run on, a call of httpd_req_recv returns, and the timer fires. *)
ControllerSpec ==
  /\ ControllerInit /\ [][ControllerNext]_controllerVars
  /\ WF_controllerVars(AppMain) /\ WF_controllerVars(Ota(TimerFires))
  /\ WF_controllerVars(used = "ota" /\ Ota(Receive)) /\ WF_controllerVars(used = "ota" /\ Ota(Handler))

--------------------------------------------------------------------------------
ControllerTypeOK ==
  /\ TypeOK /\ NetTypeOK /\ LogTypeOK /\ MemTypeOK
  /\ used \in {"ota", "network", "log", "display"} /\ step \in Steps \cup {"none"}
  /\ (step # "none") <=> (cpc = "startup")
================================================================================
