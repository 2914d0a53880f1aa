--------------------------- MODULE ControllerServices_proofs -------------------
(***************************************************************************)
(* Proofs about the services of Controller - network, log and the memory   *)
(* behind the display - through every order of startup, restart and use,   *)
(* for any number of attempts, events, sockets, nodes, modules and         *)
(* properties.                                                             *)
(***************************************************************************)
EXTENDS Controller_proofs, SequenceTheorems, WellFoundedInduction, TLAPS

(* Where app_main is: what it has not started yet is as a restart left it. *)
StartupInv ==
  /\ (step # "none") <=> (cpc = "startup")
  /\ step \in Steps \cup {"none"}
  /\ cpc = "boot" \/ step \in Steps \ {"api"} => mutex = "none"

--------------------------------------------------------------------------------
(* The network *)

AddressEvents == {"STA_GOT_IP", "STA_LOST_IP"}
LeaveEvents == {"STA_START", "STA_DISCONNECTED"}

(* The last event about the address that is still to be heard tells what   *)
(* the address is; when there is none, the bit does.                       *)
AddressKnown ==
  /\ \A i \in DOMAIN events :
       events[i] \in AddressEvents /\ (\A j \in DOMAIN events : j > i => events[j] \notin AddressEvents)
         => (events[i] = "STA_GOT_IP" <=> address # "none")
  /\ (\A i \in DOMAIN events : events[i] \notin AddressEvents) => (connectedBit <=> address # "none")

(* A station that rests has used up its attempts, or will hear of it.      *)
RestIsHeard ==
  station = "idle" /\ (\A i \in DOMAIN events : events[i] \notin LeaveEvents) => attempts = RetryMax

(* Nothing has happened yet to a station that has not been started.        *)
StationOff == station = "off" => events = <<>> /\ address = "none" /\ connectedBit = FALSE

NetInv == NetTypeOK /\ AddressKnown /\ RestIsHeard /\ StationOff

--------------------------------------------------------------------------------
(* Startup and restart, as the services see them *)

RestartsServices == NetDrop /\ LogDrop /\ MemDrop /\ cpc' = "boot" /\ step' = "none"

(* An action of the update leaves the services alone, or restarts them.    *)
OtaAction == RestartsServices \/ (UNCHANGED <<serviceVars, step>> /\ cpc' # "boot")

NetNext == StationStarts \/ Radio \/ EventLoop \/ NetDrop
LogMove ==
  /\ mutex # "none"
  /\ \/ Log \/ Logger \/ OpenStep
     \/ \E f \in Fds : Connect(f) \/ Disconnect(f) \/ OpenLog(f)
LogNext == (LoggerStarts /\ step = "logger") \/ LogMove \/ LogDrop
DisplayNext == Request \/ Round \/ MemDrop

(* A step of the update, or of app_main after the image has booted, starts *)
(* a service, restarts all, or leaves all alone.                           *)
LEMMA PowerView ==
  ASSUME DisplayFaults \/ LogOpenedEarly \/ OtaStep \/ Ota(TimerFires) \/ PowerIsLost
         \/ Ota(StartupCrashes) \/ Ota(Verify)
  PROVE  OtaAction
<1>1. CASE DisplayFaults \/ LogOpenedEarly
  BY <1>1 DEF DisplayFaults, LogOpenedEarly, Ota, OtaAction, RestartsServices
<1>2. CASE OtaStep
  BY <1>2 DEF OtaStep, Ota, OtaAction, RestartsServices
<1>3. CASE PowerIsLost
  BY <1>3 DEF PowerIsLost, Ota, OtaAction, RestartsServices
<1>4. CASE Ota(TimerFires) \/ Ota(StartupCrashes) \/ Ota(Verify)
  BY <1>4 DEF Ota, OtaAction, RestartsServices
<1> QED
  BY <1>1, <1>2, <1>3, <1>4

(* Those steps begin or end startup only by a restart.                     *)
LEMMA PowerKeepsStartup ==
  ASSUME cpc' # "boot",
         DisplayFaults \/ LogOpenedEarly \/ OtaStep \/ Ota(TimerFires) \/ PowerIsLost
         \/ Ota(StartupCrashes) \/ Ota(Verify)
  PROVE  cpc' = cpc \/ (cpc = "serving" /\ cpc' = "up")
<1>1. CASE OtaStep
  BY <1>1 DEF OtaStep, Ota, Put, Receive, Close, Handler, OtaBegin, OtaBeginFails, OtaWrite, OtaWriteFails, OtaEnd,
    OtaEndFails, OtaSetBoot, OtaSetBootFails, OtaTimer, Abort, otaVars
<1>2. CASE Ota(Verify)
  BY <1>2 DEF Ota, Verify, Restart
<1>3. CASE DisplayFaults \/ LogOpenedEarly \/ Ota(TimerFires) \/ PowerIsLost \/ Ota(StartupCrashes)
  BY <1>3 DEF DisplayFaults, LogOpenedEarly, PowerIsLost, Ota, TimerFires, PowerLoss, StartupCrashes, Restart
<1> QED
  BY <1>1, <1>2, <1>3

(* What app_main has not started is down, through every restart.           *)
LEMMA StartupStep == StartupInv /\ [ControllerNext]_controllerVars => StartupInv'
<1> SUFFICES ASSUME StartupInv, [ControllerNext]_controllerVars PROVE StartupInv'
  OBVIOUS
<1> USE DEF StartupInv, Steps
<1>1. CASE DisplayFaults \/ LogOpenedEarly \/ OtaStep \/ Ota(TimerFires) \/ PowerIsLost
           \/ Ota(StartupCrashes) \/ Ota(Verify)
  <2>1. OtaAction
    BY <1>1, PowerView
  <2>2. CASE cpc' = "boot"
    BY <2>1, <2>2 DEF OtaAction, RestartsServices, LogDrop
  <2>3. CASE cpc' # "boot"
    <3>1. UNCHANGED <<step, mutex>>
      BY <2>1, <2>3 DEF OtaAction, RestartsServices, serviceVars, logVars
    <3>2. cpc' = cpc \/ (cpc = "serving" /\ cpc' = "up")
      BY <1>1, <2>3, PowerKeepsStartup
    <3> QED
      BY <2>3, <3>1, <3>2
  <2> QED
    BY <2>2, <2>3
<1>2. CASE ImageBoots
  BY <1>2 DEF ImageBoots, Boot, serviceVars, logVars
<1>3. CASE NetworkingStarts \/ WaitEnds \/ DisplayStarts \/ ServerStarts
  BY <1>3 DEF NetworkingStarts, WaitEnds, DisplayStarts, ServerStarts, Starting, vars, otaVars, logVars
<1>4. CASE LogStarts
  BY <1>4 DEF LogStarts, Starting, vars, otaVars
<1>5. CASE ApisStart \/ StepFails
  BY <1>5 DEF ApisStart, StepFails, StartupSucceeds, StartupFails
<1>6. CASE NetworkStep \/ DisplayStep
  BY <1>6 DEF NetworkStep, DisplayStep, vars, otaVars, logVars
<1>7. CASE LogStep
  BY <1>7 DEF LogStep, vars, otaVars
<1>8. CASE UNCHANGED controllerVars
  BY <1>8 DEF controllerVars, serviceVars, vars, otaVars, logVars
<1> QED
  BY <1>1, <1>2, <1>3, <1>4, <1>5, <1>6, <1>7, <1>8 DEF ControllerNext, AppMain

(* Each service sees only its own steps, its start, and restarts.          *)
LEMMA ServiceView ==
  [ControllerNext]_controllerVars => [NetNext]_netVars /\ [LogNext]_logVars /\ [DisplayNext]_memVars
<1> SUFFICES ASSUME [ControllerNext]_controllerVars
             PROVE  [NetNext]_netVars /\ [LogNext]_logVars /\ [DisplayNext]_memVars
  OBVIOUS
<1>1. CASE DisplayFaults \/ LogOpenedEarly \/ OtaStep \/ Ota(TimerFires) \/ PowerIsLost
           \/ Ota(StartupCrashes) \/ Ota(Verify)
  <2>1. OtaAction
    BY <1>1, PowerView
  <2> QED
    BY <2>1 DEF OtaAction, RestartsServices, serviceVars, NetNext, LogNext, DisplayNext
<1>2. CASE ImageBoots \/ ApisStart \/ StepFails
  BY <1>2 DEF ImageBoots, ApisStart, StepFails, serviceVars
<1>3. CASE NetworkingStarts
  BY <1>3 DEF NetworkingStarts, Starting, NetNext
<1>4. CASE WaitEnds \/ DisplayStarts \/ ServerStarts
  BY <1>4 DEF WaitEnds, DisplayStarts, ServerStarts, Starting
<1>5. CASE LogStarts
  BY <1>5 DEF LogStarts, Starting, LogNext
<1>6. CASE NetworkStep
  BY <1>6 DEF NetworkStep, NetNext
<1>7. CASE LogStep
  BY <1>7 DEF LogStep, LogNext, LogMove
<1>8. CASE DisplayStep
  BY <1>8 DEF DisplayStep, DisplayNext
<1>9. CASE UNCHANGED controllerVars
  BY <1>9 DEF controllerVars, serviceVars
<1> QED
  BY <1>1, <1>2, <1>3, <1>4, <1>5, <1>6, <1>7, <1>8, <1>9 DEF ControllerNext, AppMain

--------------------------------------------------------------------------------
(* The network: what is posted last is heard last. *)

Events == {"STA_START", "STA_CONNECTED", "STA_DISCONNECTED", "STA_GOT_IP", "STA_LOST_IP"}

(* The events after one more was posted. *)
LEMMA Posted ==
  ASSUME events \in Seq(Events), NEW e \in Events, Post(e)
  PROVE  /\ events' \in Seq(Events)
         /\ DOMAIN events' = 1 .. Len(events) + 1
         /\ \A i \in DOMAIN events : events'[i] = events[i]
         /\ events'[Len(events) + 1] = e
BY DEF Post

(* The events after the first was taken. *)
LEMMA Heard ==
  ASSUME events \in Seq(Events), NEW e, Handling(e)
  PROVE  /\ events' \in Seq(Events) /\ Len(events) \in Nat \ {0} /\ events[1] = e
         /\ DOMAIN events = 1 .. Len(events) /\ DOMAIN events' = 1 .. Len(events) - 1
         /\ \A i \in DOMAIN events' : events'[i] = events[i + 1]
<1>1. events # <<>> /\ events' = Tail(events) /\ Head(events) = e
  BY DEF Handling
<1> QED
  BY <1>1, HeadTailProperties

(* An event of another kind, posted or heard, leaves what is known of the  *)
(* address as it is.                                                       *)
LEMMA OtherPosted ==
  ASSUME NetTypeOK, AddressKnown, NEW e \in Events \ AddressEvents, Post(e),
         connectedBit' = connectedBit, (address' # "none") <=> (address # "none")
  PROVE  AddressKnown'
<1>1. events \in Seq(Events)
  BY DEF NetTypeOK, Events
<1>2. DOMAIN events = 1 .. Len(events) /\ Len(events) \in Nat
  BY <1>1
<1>3. /\ DOMAIN events' = 1 .. Len(events) + 1 /\ events'[Len(events) + 1] \notin AddressEvents
      /\ \A i \in DOMAIN events : events'[i] = events[i]
  BY <1>1, Posted
<1>4. ASSUME NEW i \in DOMAIN events', events'[i] \in AddressEvents,
             \A j \in DOMAIN events' : j > i => events'[j] \notin AddressEvents
      PROVE  events'[i] = "STA_GOT_IP" <=> address' # "none"
  <2>1. i \in DOMAIN events /\ events'[i] = events[i]
    BY <1>2, <1>3, <1>4
  <2>2. \A j \in DOMAIN events : j > i => events[j] \notin AddressEvents
    BY <1>2, <1>3, <1>4
  <2> QED
    BY <1>4, <2>1, <2>2 DEF AddressKnown
<1>5. ASSUME \A i \in DOMAIN events' : events'[i] \notin AddressEvents
      PROVE  connectedBit' <=> address' # "none"
  <2>1. \A i \in DOMAIN events : events[i] \notin AddressEvents
    BY <1>2, <1>3, <1>5
  <2> QED
    BY <2>1 DEF AddressKnown
<1> QED
  BY <1>4, <1>5 DEF AddressKnown

(* An event about the address is posted with it.                           *)
LEMMA AddressPosted ==
  ASSUME NetTypeOK, NEW e \in AddressEvents, Post(e), (e = "STA_GOT_IP") <=> (address' # "none")
  PROVE  AddressKnown'
<1>1. events \in Seq(Events) /\ e \in Events
  BY DEF NetTypeOK, Events, AddressEvents
<1>2. DOMAIN events = 1 .. Len(events) /\ Len(events) \in Nat
  BY <1>1
<1>3. DOMAIN events' = 1 .. Len(events) + 1 /\ events'[Len(events) + 1] = e
  BY <1>1, Posted
<1>4. ASSUME NEW i \in DOMAIN events', \A j \in DOMAIN events' : j > i => events'[j] \notin AddressEvents
      PROVE  i = Len(events) + 1
  BY <1>2, <1>3, <1>4
<1>5. ~ \A i \in DOMAIN events' : events'[i] \notin AddressEvents
  BY <1>2, <1>3
<1> QED
  BY <1>3, <1>4, <1>5 DEF AddressKnown

(* The handler hears the oldest event and sets the bit by it.              *)
LEMMA AddressHeard ==
  ASSUME NetTypeOK, AddressKnown, NEW e, Handling(e), address' = address,
         e \in AddressEvents => (connectedBit' <=> e = "STA_GOT_IP"),
         e \notin AddressEvents => connectedBit' = connectedBit
  PROVE  AddressKnown'
<1>1. events \in Seq(Events)
  BY DEF NetTypeOK, Events
<1>2. /\ Len(events) \in Nat \ {0} /\ events[1] = e
      /\ DOMAIN events = 1 .. Len(events) /\ DOMAIN events' = 1 .. Len(events) - 1
      /\ \A i \in DOMAIN events' : events'[i] = events[i + 1]
  BY <1>1, Heard
<1>3. \A j \in DOMAIN events : j = 1 \/ (j - 1 \in DOMAIN events' /\ events[j] = events'[j - 1])
  <2> TAKE j \in DOMAIN events
  <2>1. CASE j # 1
    <3>1. j - 1 \in DOMAIN events' /\ (j - 1) + 1 = j
      BY <1>2, <2>1
    <3> QED
      BY <1>2, <3>1
  <2> QED
    BY <2>1
<1>4. ASSUME NEW i \in DOMAIN events', events'[i] \in AddressEvents,
             \A j \in DOMAIN events' : j > i => events'[j] \notin AddressEvents
      PROVE  events'[i] = "STA_GOT_IP" <=> address' # "none"
  <2>1. i + 1 \in DOMAIN events /\ events'[i] = events[i + 1] /\ i \in Int
    BY <1>2
  <2>2. \A j \in DOMAIN events : j > i + 1 => events[j] \notin AddressEvents
    BY <1>2, <1>3, <1>4
  <2> QED
    BY <1>4, <2>1, <2>2 DEF AddressKnown
<1>5. ASSUME \A i \in DOMAIN events' : events'[i] \notin AddressEvents
      PROVE  connectedBit' <=> address' # "none"
  <2>1. \A j \in DOMAIN events : j > 1 => events[j] \notin AddressEvents
    BY <1>2, <1>3, <1>5
  <2>2. CASE e \in AddressEvents
    <3>1. 1 \in DOMAIN events
      BY <1>2
    <3>2. e = "STA_GOT_IP" <=> address # "none"
      BY <1>2, <2>1, <2>2, <3>1 DEF AddressKnown
    <3> QED
      BY <2>2, <3>2
  <2>3. CASE e \notin AddressEvents
    <3>1. \A j \in DOMAIN events : events[j] \notin AddressEvents
      BY <1>2, <1>3, <1>5, <2>3
    <3> QED
      BY <2>3, <3>1 DEF AddressKnown
  <2> QED
    BY <2>2, <2>3
<1> QED
  BY <1>4, <1>5 DEF AddressKnown

(* What has been posted stays posted, and so does what has not come to its *)
(* turn.                                                                   *)
LEMMA LeaveStaysPosted ==
  ASSUME events \in Seq(Events), NEW e \in Events, Post(e),
         \A i \in DOMAIN events' : events'[i] \notin LeaveEvents
  PROVE  e \notin LeaveEvents /\ \A i \in DOMAIN events : events[i] \notin LeaveEvents
<1>1. /\ DOMAIN events = 1 .. Len(events) /\ Len(events) \in Nat
      /\ DOMAIN events' = 1 .. Len(events) + 1 /\ events'[Len(events) + 1] = e
      /\ \A i \in DOMAIN events : events'[i] = events[i]
  BY Posted
<1> QED
  BY <1>1

LEMMA LeaveStaysDue ==
  ASSUME events \in Seq(Events), NEW e, Handling(e), e \notin LeaveEvents,
         \A i \in DOMAIN events' : events'[i] \notin LeaveEvents
  PROVE  \A i \in DOMAIN events : events[i] \notin LeaveEvents
<1>1. /\ Len(events) \in Nat \ {0} /\ events[1] = e
      /\ DOMAIN events = 1 .. Len(events) /\ DOMAIN events' = 1 .. Len(events) - 1
      /\ \A i \in DOMAIN events' : events'[i] = events[i + 1]
  BY Heard
<1> TAKE i \in DOMAIN events
<1>2. CASE i # 1
  <2>1. i - 1 \in DOMAIN events' /\ (i - 1) + 1 = i
    BY <1>1, <1>2
  <2> QED
    BY <1>1, <2>1
<1> QED
  BY <1>1, <1>2

(* The driver's steps.                                                     *)
LEMMA RadioStep ==
  ASSUME NetInv, StationStarts \/ Radio
  PROVE  NetInv'
<1>0. NetTypeOK /\ events \in Seq(Events) /\ RetryMax \in Nat
  BY NetAssumption DEF NetInv, NetTypeOK, Events
<1>1. PICK e \in Events : Post(e)
  BY DEF Radio, StationStarts, Joins, Leaves, GetsAddress, AddressExpires, Events
<1>2. events' \in Seq(Events) /\ UNCHANGED <<attempts, connectedBit>>
  BY <1>0, <1>1, Posted DEF Radio, StationStarts, Joins, Leaves, GetsAddress, AddressExpires
<1>3. NetTypeOK'
  <2>1. station' \in {"off", "idle", "connecting", "joined"} /\ address' \in {"none", "held", "expiring"}
    BY <1>0 DEF NetTypeOK, Radio, StationStarts, Joins, Leaves, GetsAddress, AddressExpires
  <2>2. attempts' \in 0 .. RetryMax
    BY <1>0, <1>2 DEF NetTypeOK
  <2>3. connectedBit' \in BOOLEAN
    BY <1>0, <1>2 DEF NetTypeOK
  <2> QED
    BY <1>2, <2>1, <2>2, <2>3 DEF NetTypeOK, Events
<1>4. AddressKnown'
  <2>1. CASE StationStarts \/ Joins \/ Leaves
    <3>1. /\ \E x \in Events \ AddressEvents : Post(x)
          /\ (address' # "none") <=> (address # "none")
      BY <2>1 DEF StationStarts, Joins, Leaves, Events, AddressEvents
    <3> QED
      BY <1>0, <1>2, <3>1, OtherPosted DEF NetInv
  <2>2. CASE GetsAddress
    BY <1>0, <2>2, AddressPosted DEF GetsAddress, AddressEvents
  <2>3. CASE AddressExpires
    BY <1>0, <2>3, AddressPosted DEF AddressExpires, AddressEvents
  <2> QED
    BY <2>1, <2>2, <2>3 DEF Radio
<1>5. RestIsHeard'
  <2> SUFFICES ASSUME station' = "idle", \A i \in DOMAIN events' : events'[i] \notin LeaveEvents
               PROVE  attempts' = RetryMax
    BY DEF RestIsHeard
  <2>1. \A x \in Events : Post(x) => x \notin LeaveEvents
    BY <1>0, LeaveStaysPosted
  <2>2. ~StationStarts /\ ~Leaves
    BY <2>1 DEF StationStarts, Leaves, LeaveEvents, Events
  <2>3. station = "idle"
    BY <2>2 DEF Radio, Joins, GetsAddress, AddressExpires
  <2>4. \A i \in DOMAIN events : events[i] \notin LeaveEvents
    BY <1>0, <1>1, LeaveStaysPosted
  <2> QED
    BY <1>2, <2>3, <2>4 DEF NetInv, RestIsHeard
<1>6. StationOff'
  BY <1>0 DEF NetInv, StationOff, Radio, StationStarts, Joins, Leaves, GetsAddress, AddressExpires
<1> QED
  BY <1>3, <1>4, <1>5, <1>6 DEF NetInv

(* The handler's steps.                                                    *)
LEMMA EventStep ==
  ASSUME NetInv, EventLoop
  PROVE  NetInv'
<1>0. NetTypeOK /\ events \in Seq(Events) /\ RetryMax \in Nat /\ attempts \in 0 .. RetryMax
  BY NetAssumption DEF NetInv, NetTypeOK, Events
<1>1. PICK e \in Events : Handling(e)
  BY DEF EventLoop, OnStart, OnLeave, OnJoin, OnAddress, Events
<1>2. events' \in Seq(Events) /\ events # <<>> /\ address' = address
  BY <1>0, <1>1, Heard DEF Handling, EventLoop, OnStart, OnLeave, OnJoin, OnAddress
<1>3. /\ station' \in {station, "connecting"} /\ attempts' \in 0 .. RetryMax
      /\ (OnStart \/ OnLeave) /\ station' = "idle" => attempts' = RetryMax
  BY <1>0 DEF EventLoop, OnStart, OnLeave, OnJoin, OnAddress, ReConnect
<1>4. NetTypeOK'
  <2>1. connectedBit' \in BOOLEAN
    BY <1>0 DEF NetTypeOK, EventLoop, OnStart, OnLeave, OnJoin, OnAddress
  <2> QED
    BY <1>0, <1>2, <1>3, <2>1 DEF NetTypeOK, Events
<1>5. AddressKnown'
  <2>1. CASE OnStart \/ OnLeave \/ OnJoin
    <3>1. (\E x \in Events \ AddressEvents : Handling(x)) /\ connectedBit' = connectedBit
      BY <2>1 DEF OnStart, OnLeave, OnJoin, Events, AddressEvents
    <3> QED
      BY <1>0, <1>2, <3>1, AddressHeard DEF NetInv
  <2>2. CASE OnAddress
    <3>1. PICK x \in AddressEvents : Handling(x) /\ (connectedBit' <=> x = "STA_GOT_IP")
      BY <2>2 DEF OnAddress, AddressEvents
    <3> QED
      BY <1>0, <1>2, <3>1, AddressHeard DEF NetInv
  <2> QED
    BY <2>1, <2>2 DEF EventLoop
<1>6. RestIsHeard'
  <2> SUFFICES ASSUME station' = "idle", \A i \in DOMAIN events' : events'[i] \notin LeaveEvents
               PROVE  attempts' = RetryMax
    BY DEF RestIsHeard
  <2>1. CASE OnStart \/ OnLeave
    BY <1>3, <2>1
  <2>2. CASE OnJoin \/ OnAddress
    <3>1. (\E x \in Events \ LeaveEvents : Handling(x)) /\ UNCHANGED <<station, attempts>>
      BY <2>2 DEF OnJoin, OnAddress, Events, LeaveEvents
    <3>2. \A i \in DOMAIN events : events[i] \notin LeaveEvents
      BY <1>0, <3>1, LeaveStaysDue
    <3> QED
      BY <3>1, <3>2 DEF NetInv, RestIsHeard
  <2> QED
    BY <2>1, <2>2 DEF EventLoop
<1>7. StationOff'
  BY <1>2, <1>3 DEF NetInv, StationOff
<1> QED
  BY <1>4, <1>5, <1>6, <1>7 DEF NetInv

(* A station that has just been switched off, or on, knows nothing.        *)
LEMMA OffIsKnown ==
  ASSUME station = "off", address = "none", events = <<>>, attempts = 0, connectedBit = FALSE
  PROVE  NetInv
<1>1. events \in Seq(Events) /\ DOMAIN events = {} /\ attempts \in 0 .. RetryMax
  BY NetAssumption
<1>2. NetTypeOK /\ RestIsHeard /\ StationOff
  BY <1>1 DEF NetTypeOK, RestIsHeard, StationOff, Events
<1>3. AddressKnown
  BY <1>1 DEF AddressKnown
<1> QED
  BY <1>2, <1>3 DEF NetInv

LEMMA NetStep == NetInv /\ [NetNext]_netVars => NetInv'
<1> SUFFICES ASSUME NetInv, [NetNext]_netVars PROVE NetInv'
  OBVIOUS
<1>1. CASE StationStarts \/ Radio
  BY <1>1, RadioStep
<1>2. CASE EventLoop
  BY <1>2, EventStep
<1>3. CASE NetDrop
  <2>1. station' = "off" /\ address' = "none" /\ events' = <<>> /\ attempts' = 0 /\ connectedBit' = FALSE
    BY <1>3 DEF NetDrop
  <2>2. events' \in Seq(Events) /\ DOMAIN events' = {} /\ attempts' \in 0 .. RetryMax
    BY <2>1, NetAssumption
  <2>3. NetTypeOK' /\ RestIsHeard' /\ StationOff'
    BY <2>1, <2>2 DEF NetTypeOK, RestIsHeard, StationOff, Events
  <2>4. AddressKnown'
    BY <2>1, <2>2 DEF AddressKnown
  <2> QED
    BY <2>3, <2>4 DEF NetInv
<1>4. CASE UNCHANGED netVars
  BY <1>4 DEF netVars, NetInv, NetTypeOK, RestIsHeard, StationOff, AddressKnown
<1> QED
  BY <1>1, <1>2, <1>3, <1>4 DEF NetNext

LEMMA NetInvariant == ControllerSpec => []NetInv
<1>1. ControllerInit => NetInv
  BY OffIsKnown DEF ControllerInit, NetInit
<1>2. NetInv /\ [ControllerNext]_controllerVars => NetInv'
  BY ServiceView, NetStep
<1> QED
  BY <1>1, <1>2, PTL DEF ControllerSpec

(* For any number of attempts and of events in flight, whatever order they *)
(* are heard in and however often the controller restarts: a station that  *)
(* is not connected tries again or has used up its attempts, and once all  *)
(* is heard, the bit that networking_wait_for_connection looks at is right.*)
THEOREM NetworkStaysKnown == ControllerSpec => []NetworkIsKnown
<1>1. NetInv => NetworkIsKnown
  <2> SUFFICES ASSUME NetInv PROVE NetworkIsKnown
    OBVIOUS
  <2>1. station = "idle" /\ ~(\E i \in DOMAIN events : events[i] \in LeaveEvents) => attempts = RetryMax
    BY DEF NetInv, RestIsHeard
  <2>2. events = <<>> => connectedBit = (address # "none")
    <3> SUFFICES ASSUME events = <<>> PROVE connectedBit = (address # "none")
      OBVIOUS
    <3>1. DOMAIN events = {}
      OBVIOUS
    <3>2. connectedBit <=> address # "none"
      BY <3>1 DEF NetInv, AddressKnown
    <3>3. connectedBit \in BOOLEAN
      BY DEF NetInv, NetTypeOK
    <3> QED
      BY <3>2, <3>3
  <2> QED
    BY <2>1, <2>2 DEF NetworkIsKnown, LeaveEvents
<1> QED
  BY <1>1, NetInvariant, PTL

--------------------------------------------------------------------------------
(* The list of the log *)

(* The nodes that are in the list: no link leaves them, no two lead to the *)
(* same one, none leads to the head, and each leads to a lower one.        *)
Kept == {n \in Nodes : Listed(n)}
ListShape ==
  /\ head \in Kept \cup {Nil}
  /\ \A n \in Kept : next[n] \in Kept \cup {Nil} /\ (next[n] = head => head = Nil)
  /\ \A m, n \in Kept : next[m] = next[n] /\ next[m] # Nil => m = n
  /\ \E rank \in [Nodes -> Nat] : \A n \in Kept : next[n] # Nil => rank[next[n]] < rank[n]

(* Who has the mutex, and what the two tasks have a pointer to.            *)
InsertPlace ==
  /\ wpc \in {"alloc", "link", "head"} => mutex = "http"
  /\ IF wpc \in {"link", "head"} THEN wnode \in live ELSE wnode = Nil
  /\ wpc = "head" => next[wnode] = head
WalkPlace ==
  /\ lpc \in {"walk", "remove"} => mutex = "logger"
  /\ lpc = "walk" => node \in live \cup {Nil}
  /\ lpc = "remove" => node \in live /\ tmp = next[node]

ListInv == LogTypeOK /\ ListShape /\ InsertPlace /\ WalkPlace

(* Every step keeps the variables of the log in their types.               *)
LEMMA LogTypeStep == LogTypeOK /\ WalkPlace /\ [LogNext]_logVars => LogTypeOK'
<1> SUFFICES ASSUME LogTypeOK, WalkPlace, [LogNext]_logVars PROVE LogTypeOK'
  OBVIOUS
<1> USE LogAssumption DEF LogTypeOK, listVars, queueVars, openVars, loggerVars
<1>1. CASE LoggerStarts
  BY <1>1 DEF LoggerStarts
<1>2. CASE LogDrop
  <2>1. <<>> \in Seq(1 .. MaxLines) /\ Len(<<>>) = 0 /\ 0 \in 0 .. MaxLines
    OBVIOUS
  <2>2. conn' \in [Fds -> {"none", "http", "ws"}] /\ got' \in [Fds -> 0 .. MaxLines]
    BY <1>2, <2>1 DEF LogDrop
  <2>3. /\ live' \subseteq Nodes /\ head' \in Nodes \cup {Nil}
        /\ fdOf' \in [Nodes -> Fds \cup {Nil}] /\ next' \in [Nodes -> Nodes \cup {Nil}]
    BY <1>2 DEF LogDrop
  <2>4. buffer' \in Seq(1 .. MaxLines) /\ Len(buffer') <= BufferLines
    BY <1>2, <2>1 DEF LogDrop
  <2> QED
    BY <1>2, <2>1, <2>2, <2>3, <2>4 DEF LogDrop
<1>3. CASE Log
  <2>1. lines' \in 1 .. MaxLines
    BY <1>3 DEF Log
  <2>2. buffer' \in Seq(1 .. MaxLines) /\ Len(buffer') <= BufferLines
    <3>1. CASE Len(buffer) < BufferLines
      <4>1. buffer' = Append(buffer, lines')
        BY <1>3, <3>1 DEF Log
      <4>2. Append(buffer, lines') \in Seq(1 .. MaxLines) /\ Len(Append(buffer, lines')) = Len(buffer) + 1
        BY <2>1, AppendProperties
      <4> QED
        BY <3>1, <4>1, <4>2
    <3>2. CASE ~(Len(buffer) < BufferLines)
      BY <1>3, <3>2 DEF Log
    <3> QED
      BY <3>1, <3>2
  <2> QED
    BY <1>3, <2>1, <2>2 DEF Log
<1>4. CASE LoggerReceives
  <2>1. Head(buffer) \in 1 .. MaxLines /\ Tail(buffer) \in Seq(1 .. MaxLines) /\ Len(Tail(buffer)) <= BufferLines
    BY <1>4, HeadTailProperties DEF LoggerReceives
  <2> QED
    BY <1>4, <2>1 DEF LoggerReceives, LoggerGoto
<1>5. CASE LoggerTakes \/ LoggerGives
  BY <1>5 DEF LoggerTakes, LoggerGives, LoggerGoto
<1>6. CASE LoggerSends
  <2>1. next[node] \in Nodes \cup {Nil}
    BY <1>6 DEF LoggerSends
  <2>2. got' \in [Fds -> 0 .. MaxLines]
    <3>1. got' = got \/ got' = [got EXCEPT ![fdOf[node]] = line]
      BY <1>6 DEF LoggerSends
    <3> QED
      BY <3>1
  <2> QED
    BY <1>6, <2>1, <2>2 DEF LoggerSends
<1>7. CASE LoggerRemoves
  <2>1. head' \in Nodes \cup {Nil} /\ next' \in [Nodes -> Nodes \cup {Nil}]
    <3>1. node \in Nodes /\ next[node] \in Nodes \cup {Nil}
      BY <1>7 DEF WalkPlace, LoggerRemoves, LoggerGoto
    <3>2. CASE head = node
      <4>1. head' = next[node] /\ next' = [next EXCEPT ![node] = Nil]
        BY <1>7, <3>2 DEF LoggerRemoves
      <4> QED
        BY <3>1, <4>1
    <3>3. CASE head # node
      <4>1. head' = head /\ next' = Without(node)
        BY <1>7, <3>3 DEF LoggerRemoves
      <4> QED
        BY <3>1, <4>1 DEF Without
    <3> QED
      BY <3>2, <3>3
  <2>2. live' \subseteq Nodes /\ fdOf' \in [Nodes -> Fds \cup {Nil}]
    BY <1>7 DEF LoggerRemoves, FreeNode
  <2> QED
    BY <1>7, <2>1, <2>2 DEF LoggerRemoves, LoggerGoto
<1>8. CASE OpenTake
  BY <1>8 DEF OpenTake, HandlerOver, Refused
<1>9. CASE OpenAlloc
  BY <1>9 DEF OpenAlloc, HandlerOver, Refused
<1>10. CASE OpenLink \/ OpenHead
  BY <1>10 DEF OpenLink, OpenHead, HandlerOver
<1>11. ASSUME NEW f \in Fds, Connect(f) \/ Disconnect(f) \/ OpenLog(f)
       PROVE  LogTypeOK'
  <2>1. conn' \in [Fds -> {"none", "http", "ws"}] /\ got' \in [Fds -> 0 .. MaxLines]
    <3>1. 0 \in 0 .. MaxLines /\ (got' = got \/ got' = [got EXCEPT ![f] = 0])
      BY <1>11 DEF Connect, Disconnect, OpenLog
    <3>2. \E x \in {"none", "http", "ws"} : conn' = [conn EXCEPT ![f] = x]
      BY <1>11 DEF Connect, Disconnect, OpenLog
    <3> QED
      BY <3>1, <3>2
  <2> QED
    BY <1>11, <2>1 DEF Connect, Disconnect, OpenLog
<1>12. CASE UNCHANGED logVars
  BY <1>12 DEF logVars
<1> QED
  BY <1>1, <1>2, <1>3, <1>4, <1>5, <1>6, <1>7, <1>8, <1>9, <1>10, <1>11, <1>12
  DEF LogNext, LogMove, Logger, OpenStep

(* A step that leaves the memory of the list alone leaves its shape alone. *)
LEMMA SameShape ==
  ASSUME ListShape, UNCHANGED <<live, next, head, wnode>>
  PROVE  ListShape'
BY DEF ListShape, Kept, Listed

(* A node that is not in the list yet becomes its head.                    *)
LEMMA ShapeOfInsert ==
  ASSUME ListInv, OpenHead
  PROVE  ListShape'
<1>1. /\ wnode \in live /\ wnode \in Nodes /\ next[wnode] = head /\ Nil \notin Nodes
      /\ head' = wnode /\ wnode' = Nil /\ UNCHANGED <<live, next>>
  BY LogAssumption DEF ListInv, LogTypeOK, InsertPlace, OpenHead, HandlerOver
<1>2. Kept' = Kept \cup {wnode} /\ wnode \notin Kept
  BY <1>1 DEF Kept, Listed
<1>3. head' \in Kept' \cup {Nil}
  BY <1>1, <1>2
<1>4. \A n \in Kept' : next'[n] \in Kept' \cup {Nil} /\ (next'[n] = head' => head' = Nil)
  BY <1>1, <1>2 DEF ListInv, ListShape
<1>5. \A m, n \in Kept' : next'[m] = next'[n] /\ next'[m] # Nil => m = n
  BY <1>1, <1>2 DEF ListInv, ListShape
<1>6. PICK rank \in [Nodes -> Nat] : \A n \in Kept : next[n] # Nil => rank[next[n]] < rank[n]
  BY DEF ListInv, ListShape
<1>7. \E r \in [Nodes -> Nat] : \A n \in Kept' : next'[n] # Nil => r[next'[n]] < r[n]
  <2>1. CASE head = Nil
    BY <1>1, <1>2, <1>6, <2>1
  <2>2. CASE head # Nil
    <3> DEFINE r == [rank EXCEPT ![wnode] = rank[head] + 1]
    <3>1. head \in Kept /\ head \in Nodes /\ head # wnode
      BY <1>2, <2>2 DEF ListInv, ListShape, Kept
    <3>2. r \in [Nodes -> Nat] /\ r[wnode] = rank[head] + 1 /\ \A n \in Kept : r[n] = rank[n]
      BY <1>1, <1>2, <1>6, <3>1 DEF Kept
    <3>3. \A n \in Kept : next[n] # Nil => next[n] \in Kept
      BY DEF ListInv, ListShape
    <3>4. rank[head] \in Nat
      BY <3>1, <1>6
    <3> HIDE DEF r
    <3>5. \A n \in Kept' : next'[n] # Nil => r[next'[n]] < r[n]
      BY <1>1, <1>2, <1>6, <3>1, <3>2, <3>3, <3>4
    <3> QED
      BY <3>2, <3>5
  <2> QED
    BY <2>1, <2>2
<1> QED
  BY <1>3, <1>4, <1>5, <1>7 DEF ListShape

(* A node is taken out of the list, wherever it is.                        *)
LEMMA ShapeOfRemove ==
  ASSUME ListInv, LoggerRemoves
  PROVE  ListShape'
<1>1. /\ node \in live /\ node \in Nodes /\ Nil \notin Nodes /\ live \subseteq Nodes
      /\ live' = live \ {node} /\ wnode = Nil /\ wnode' = Nil /\ next \in [Nodes -> Nodes \cup {Nil}]
  BY LogAssumption DEF ListInv, LogTypeOK, InsertPlace, WalkPlace, LoggerRemoves, LoggerGoto, FreeNode, openVars
<1>2. node \in Kept /\ Kept' = Kept \ {node} /\ Kept \subseteq Nodes
  BY <1>1 DEF Kept, Listed
<1>3. PICK rank \in [Nodes -> Nat] : \A n \in Kept : next[n] # Nil => rank[next[n]] < rank[n]
  BY DEF ListInv, ListShape
<1>4. next[node] \in Kept' \cup {Nil} /\ next[node] # node /\ (next[node] = head => head = Nil)
  <2>1. next[node] # node
    BY <1>1, <1>2, <1>3
  <2> QED
    BY <1>2, <2>1 DEF ListInv, ListShape
<1>5. CASE head = node
  <2>1. head' = next[node] /\ next' = [next EXCEPT ![node] = Nil]
    BY <1>5 DEF LoggerRemoves
  <2>2. \A n \in Kept' : next'[n] = next[n]
    BY <1>1, <1>2, <2>1
  <2>3. \A n \in Kept' : next[n] # node
    BY <1>1, <1>2, <1>5 DEF ListInv, ListShape
  <2>4. \A n \in Kept' : next'[n] \in Kept' \cup {Nil} /\ (next'[n] = head' => head' = Nil)
    BY <1>2, <2>1, <2>2, <2>3 DEF ListInv, ListShape
  <2>5. \A m, n \in Kept' : next'[m] = next'[n] /\ next'[m] # Nil => m = n
    BY <1>2, <2>2 DEF ListInv, ListShape
  <2>6. \A n \in Kept' : next'[n] # Nil => rank[next'[n]] < rank[n]
    BY <1>2, <1>3, <2>2
  <2> QED
    BY <1>3, <1>4, <2>1, <2>4, <2>5, <2>6 DEF ListShape
<1>6. CASE head # node
  <2>1. head' = head /\ next' = Without(node)
    BY <1>6 DEF LoggerRemoves
  <2>2. \A n \in Kept' : next'[n] = IF next[n] = node THEN next[node] ELSE next[n]
    BY <1>1, <1>2, <2>1 DEF Without, Kept, Listed
  <2>3. head' \in Kept' \cup {Nil}
    BY <1>2, <1>6, <2>1 DEF ListInv, ListShape
  <2>4. \A n \in Kept' : next'[n] \in Kept' \cup {Nil} /\ (next'[n] = head' => head' = Nil)
    BY <1>2, <1>4, <2>1, <2>2 DEF ListInv, ListShape
  <2>5. \A m, n \in Kept' : next'[m] = next'[n] /\ next'[m] # Nil => m = n
    <3> SUFFICES ASSUME NEW m \in Kept', NEW n \in Kept', next'[m] = next'[n], next'[m] # Nil
                 PROVE  m = n
      OBVIOUS
    <3>1. m \in Kept /\ n \in Kept /\ m # node /\ n # node
      BY <1>2
    <3>2. \A a, b \in Kept : next[a] = next[b] /\ next[a] # Nil => a = b
      BY DEF ListInv, ListShape
    <3>3. node # Nil
      BY <1>1
    <3> QED
      BY <1>2, <2>2, <3>1, <3>2, <3>3
  <2>6. \A n \in Kept' : next'[n] # Nil => rank[next'[n]] < rank[n]
    <3> SUFFICES ASSUME NEW n \in Kept', next'[n] # Nil PROVE rank[next'[n]] < rank[n]
      OBVIOUS
    <3>1. n \in Nodes /\ n \in Kept /\ rank[n] \in Nat /\ rank[node] \in Nat
      BY <1>1, <1>2, <1>3
    <3>2. CASE next[n] = node
      <4>1. next'[n] = next[node] /\ next[node] \in Nodes
        BY <1>1, <2>2, <3>2
      <4>2. rank[next[node]] < rank[node] /\ rank[node] < rank[n] /\ rank[next[node]] \in Nat
        BY <1>1, <1>2, <1>3, <3>1, <3>2, <4>1
      <4> QED
        BY <3>1, <4>1, <4>2
    <3>3. CASE next[n] # node
      BY <1>3, <2>2, <3>1, <3>3
    <3> QED
      BY <3>2, <3>3
  <2> QED
    BY <1>3, <2>3, <2>4, <2>5, <2>6 DEF ListShape
<1> QED
  BY <1>5, <1>6

(* What app_main, a browser, or any task that logs does to it: nothing.    *)
LEMMA OutsideKeepsList ==
  ASSUME ListInv, LogTypeOK', UNCHANGED listVars,
         \/ LoggerStarts /\ mutex = "none"
         \/ Log
         \/ \E f \in Fds : Connect(f) \/ Disconnect(f) \/ OpenLog(f)
  PROVE  ListInv'
<1>1. /\ UNCHANGED <<wnode, node, tmp, live, next, head>>
      /\ wpc' = wpc \/ (wpc = "idle" /\ wpc' = "take")
      /\ (mutex' = mutex /\ lpc' = lpc) \/ (mutex = "none" /\ lpc' = "receive")
  BY DEF LoggerStarts, Log, Connect, Disconnect, OpenLog, listVars, openVars, loggerVars
<1>2. ListShape'
  BY <1>1, SameShape DEF ListInv
<1>3. InsertPlace' /\ WalkPlace'
  BY <1>1 DEF ListInv, InsertPlace, WalkPlace
<1> QED
  BY <1>2, <1>3 DEF ListInv

(* The HTTP task, as far as the list is unchanged or a node is on its way. *)
LEMMA InsertKeepsList ==
  ASSUME ListInv, LogTypeOK', OpenStep
  PROVE  ListInv'
<1> USE DEF ListInv
<1>1. Nil \notin Nodes /\ live \subseteq Nodes /\ wnode \in Nodes \cup {Nil} /\ next \in [Nodes -> Nodes \cup {Nil}]
  BY LogAssumption DEF LogTypeOK
<1>2. CASE OpenTake
  <2>1. wnode = Nil /\ wnode' = Nil /\ UNCHANGED <<live, next, head, lpc, node, tmp>>
    BY <1>2 DEF OpenTake, HandlerOver, InsertPlace, listVars, loggerVars
  <2>2. ListShape'
    BY <2>1, SameShape
  <2>3. InsertPlace' /\ WalkPlace'
    BY <1>2, <2>1 DEF OpenTake, HandlerOver, InsertPlace, WalkPlace
  <2> QED
    BY <2>2, <2>3
<1>3. CASE OpenAlloc
  <2>1. wnode = Nil /\ mutex = "http" /\ lpc \notin {"walk", "remove"}
        /\ UNCHANGED <<next, head, mutex, lpc, node, tmp>>
    BY <1>3 DEF OpenAlloc, InsertPlace, WalkPlace, loggerVars
  <2>2. CASE wpc' = "link"
    <3>1. PICK n \in Nodes \ live : live' = live \cup {n} /\ wnode' = n
      BY <1>3, <2>2 DEF OpenAlloc, HandlerOver
    <3>2. Kept' = Kept
      BY <1>1, <2>1, <3>1 DEF Kept, Listed
    <3> QED
      BY <2>1, <2>2, <3>1, <3>2 DEF ListShape, InsertPlace, WalkPlace
  <2>3. CASE wpc' # "link"
    <3>1. wpc' = "idle" /\ wnode' = Nil /\ live' = live
      BY <1>3, <2>3 DEF OpenAlloc, HandlerOver
    <3>2. ListShape'
      BY <2>1, <3>1, SameShape
    <3> QED
      BY <2>1, <3>1, <3>2 DEF InsertPlace, WalkPlace
  <2> QED
    BY <2>2, <2>3
<1>4. CASE OpenLink
  <2>1. wnode \in live /\ wnode \in Nodes /\ mutex = "http" /\ lpc \notin {"walk", "remove"} /\ wpc' = "head"
        /\ next' = [next EXCEPT ![wnode] = head] /\ UNCHANGED <<live, head, mutex, wnode, lpc, node, tmp>>
    BY <1>1, <1>4 DEF OpenLink, InsertPlace, WalkPlace, loggerVars
  <2>2. Kept' = Kept /\ wnode \notin Kept /\ \A n \in Kept : n \in Nodes /\ next'[n] = next[n]
    BY <1>1, <2>1 DEF Kept, Listed
  <2>3. ListShape'
    BY <2>1, <2>2 DEF ListShape
  <2>4. next'[wnode] = head
    BY <1>1, <2>1
  <2> QED
    BY <2>1, <2>3, <2>4 DEF InsertPlace, WalkPlace
<1>5. CASE OpenHead
  <2>1. mutex = "http" /\ lpc \notin {"walk", "remove"} /\ wpc' = "idle" /\ wnode' = Nil
        /\ mutex' = "free" /\ UNCHANGED <<lpc, node, tmp>>
    BY <1>5 DEF OpenHead, HandlerOver, InsertPlace, WalkPlace, loggerVars
  <2> QED
    BY <1>5, <2>1, ShapeOfInsert DEF InsertPlace, WalkPlace
<1> QED
  BY <1>2, <1>3, <1>4, <1>5 DEF OpenStep

(* The node after the one that is taken out is another, or none.           *)
LEMMA NextIsAnother ==
  ASSUME ListInv, lpc = "remove"
  PROVE  node \in live /\ tmp = next[node] /\ next[node] \in (live \ {node}) \cup {Nil}
<1>1. node \in live /\ tmp = next[node] /\ wnode = Nil /\ node \in Nodes /\ Nil \notin Nodes
  BY LogAssumption DEF ListInv, WalkPlace, InsertPlace, LogTypeOK
<1>2. node \in Kept /\ Kept \subseteq live
  BY <1>1 DEF Kept, Listed
<1>3. PICK rank \in [Nodes -> Nat] : \A n \in Kept : next[n] # Nil => rank[next[n]] < rank[n]
  BY DEF ListInv, ListShape
<1>4. next[node] # node
  BY <1>1, <1>2, <1>3
<1> QED
  BY <1>1, <1>2, <1>4 DEF ListInv, ListShape

(* The logger: where its walk leads is in the list.                        *)
LEMMA WalkKeepsList ==
  ASSUME ListInv, LogTypeOK', Logger
  PROVE  ListInv'
<1> USE DEF ListInv
<1>0. Nil \notin Nodes /\ live \subseteq Nodes
  BY LogAssumption DEF LogTypeOK
<1>1. CASE LoggerRemoves
  <2>1. /\ mutex = "logger" /\ node \in live /\ tmp = next[node] /\ lpc' = "walk" /\ wnode = Nil
        /\ wpc \notin {"alloc", "link", "head"}
        /\ live' = live \ {node} /\ node' = tmp /\ UNCHANGED <<mutex, wpc, wnode>>
    BY <1>1 DEF LoggerRemoves, LoggerGoto, FreeNode, InsertPlace, WalkPlace, openVars
  <2>2. next[node] \in (live \ {node}) \cup {Nil}
    BY <1>1, NextIsAnother DEF LoggerRemoves, LoggerGoto
  <2> QED
    BY <1>1, <2>1, <2>2, ShapeOfRemove DEF InsertPlace, WalkPlace
<1>2. CASE LoggerSends
  <2>1. /\ lpc = "walk" /\ mutex = "logger" /\ node \in live /\ tmp' = next[node]
        /\ wpc \notin {"alloc", "link", "head"} /\ wnode = Nil
        /\ (lpc' = "walk" /\ node' = next[node]) \/ (lpc' = "remove" /\ node' = node)
        /\ UNCHANGED <<live, next, head, mutex, wpc, wnode>>
    BY <1>2 DEF LoggerSends, InsertPlace, WalkPlace, listVars, openVars
  <2>2. node \in Kept /\ Kept \subseteq live
    BY <1>0, <2>1 DEF Kept, Listed
  <2>3. next[node] \in live \cup {Nil}
    BY <2>2 DEF ListShape
  <2> QED
    BY <2>1, <2>3, SameShape DEF InsertPlace, WalkPlace
<1>3. CASE LoggerReceives
  <2>1. lpc' = "take" /\ UNCHANGED <<live, next, head, mutex, wpc, wnode>>
    BY <1>3 DEF LoggerReceives, LoggerGoto, listVars, openVars
  <2> QED
    BY <2>1, SameShape DEF InsertPlace, WalkPlace
<1>4. CASE LoggerTakes
  <2>1. /\ mutex \in {"free", "http"} /\ UNCHANGED <<live, next, head, wpc, wnode>>
        /\ (lpc' = "receive" /\ mutex' = mutex) \/ (lpc' = "walk" /\ mutex = "free" /\ mutex' = "logger" /\ node' = head)
    BY <1>4 DEF LoggerTakes, LoggerGoto, listVars, openVars
  <2>2. head \in live \cup {Nil}
    BY DEF ListShape, Kept, Listed
  <2> QED
    BY <2>1, <2>2, SameShape DEF InsertPlace, WalkPlace
<1>5. CASE LoggerGives
  <2>1. lpc' = "receive" /\ mutex = "logger" /\ mutex' = "free" /\ UNCHANGED <<live, next, head, wpc, wnode>>
    BY <1>5 DEF LoggerGives, LoggerGoto, WalkPlace, listVars, openVars
  <2> QED
    BY <2>1, SameShape DEF InsertPlace, WalkPlace
<1> QED
  BY <1>1, <1>2, <1>3, <1>4, <1>5 DEF Logger

(* A list that has just been created, or lost, is empty.                   *)
LEMMA EmptyList ==
  ASSUME LogTypeOK, live = {}, head = Nil, wnode = Nil, wpc = "idle", lpc = "off"
  PROVE  ListInv
<1>1. Kept = {}
  BY DEF Kept, Listed
<1>2. [n \in Nodes |-> 0] \in [Nodes -> Nat]
  OBVIOUS
<1>3. ListShape
  BY <1>1, <1>2 DEF ListShape
<1> QED
  BY <1>3 DEF ListInv, InsertPlace, WalkPlace

LEMMA ListStep ==
  ASSUME ListInv, StartupInv, [LogNext]_logVars
  PROVE  ListInv'
<1>1. LogTypeOK'
  BY LogTypeStep DEF ListInv
<1>2. CASE LoggerStarts /\ step = "logger"
  <2>1. mutex = "none" /\ UNCHANGED listVars
    BY <1>2 DEF StartupInv, Steps, LoggerStarts
  <2> QED
    BY <1>1, <1>2, <2>1, OutsideKeepsList
<1>3. CASE LogMove
  <2>1. CASE Log
    BY <1>1, <2>1, OutsideKeepsList DEF Log
  <2>2. CASE \E f \in Fds : Connect(f) \/ Disconnect(f) \/ OpenLog(f)
    <3>1. UNCHANGED listVars
      BY <2>2 DEF Connect, Disconnect, OpenLog
    <3> QED
      BY <1>1, <2>2, <3>1, OutsideKeepsList
  <2> QED
    BY <1>1, <1>3, <2>1, <2>2, InsertKeepsList, WalkKeepsList DEF LogMove
<1>4. CASE LogDrop
  <2>1. live' = {} /\ head' = Nil /\ wnode' = Nil /\ wpc' = "idle" /\ lpc' = "off"
    BY <1>4 DEF LogDrop
  <2>2. Kept' = {}
    BY <2>1 DEF Kept, Listed
  <2>3. [n \in Nodes |-> 0] \in [Nodes -> Nat]
    OBVIOUS
  <2>4. ListShape'
    BY <2>1, <2>2, <2>3 DEF ListShape
  <2> QED
    BY <1>1, <2>1, <2>4 DEF ListInv, InsertPlace, WalkPlace
<1>5. CASE UNCHANGED logVars
  BY <1>1, <1>5, SameShape DEF logVars, listVars, openVars, loggerVars, ListInv, InsertPlace, WalkPlace
<1> QED
  BY <1>2, <1>3, <1>4, <1>5 DEF LogNext

LEMMA StartupHolds == ControllerSpec => []StartupInv
<1>1. ControllerInit => StartupInv
  BY DEF ControllerInit, Init, LogInit, StartupInv, Steps
<1> QED
  BY <1>1, StartupStep, PTL DEF ControllerSpec

LEMMA ListInvariant == ControllerSpec => []ListInv
<1>1. ControllerInit => ListInv
  <2> SUFFICES ASSUME ControllerInit PROVE ListInv
    OBVIOUS
  <2>1. <<>> \in Seq(1 .. MaxLines) /\ Len(<<>>) = 0 /\ 0 \in 0 .. MaxLines
    BY LogAssumption
  <2>2. conn \in [Fds -> {"none", "http", "ws"}] /\ got \in [Fds -> 0 .. MaxLines]
    BY <2>1 DEF ControllerInit, LogInit
  <2>3. /\ live \subseteq Nodes /\ head \in Nodes \cup {Nil}
        /\ fdOf \in [Nodes -> Fds \cup {Nil}] /\ next \in [Nodes -> Nodes \cup {Nil}]
    BY DEF ControllerInit, LogInit
  <2>4. buffer \in Seq(1 .. MaxLines) /\ Len(buffer) <= BufferLines
    BY <2>1, LogAssumption DEF ControllerInit, LogInit
  <2>5. LogTypeOK
    BY <2>1, <2>2, <2>3, <2>4 DEF ControllerInit, LogInit, LogTypeOK
  <2> QED
    BY <2>5, EmptyList DEF ControllerInit, LogInit
<1>2. ListInv /\ StartupInv /\ [ControllerNext]_controllerVars => ListInv'
  BY ServiceView, ListStep
<1> QED
  BY <1>1, <1>2, StartupHolds, PTL DEF ControllerSpec

(* For any number of sockets, nodes and lines: the list of the log, and    *)
(* the place the logger has in it, is memory that is allocated.            *)
THEOREM LogListStaysLive == ControllerSpec => []ListLive
<1>1. ListInv => ListLive
  <2> SUFFICES ASSUME ListInv PROVE ListLive
    OBVIOUS
  <2>1. Kept \subseteq live /\ \A n \in Nodes : Listed(n) => n \in Kept
    BY DEF Kept, Listed
  <2>2. head \in live \cup {Nil} /\ \A n \in Nodes : Listed(n) => next[n] \in live \cup {Nil}
    BY <2>1 DEF ListInv, ListShape
  <2>3. lpc = "remove" => node \in live /\ tmp \in (live \ {node}) \cup {Nil}
    BY NextIsAnother
  <2> QED
    BY <2>2, <2>3 DEF ListInv, WalkPlace, ListLive
<1> QED
  BY <1>1, ListInvariant, PTL

--------------------------------------------------------------------------------
(* The walk of the logger: it comes past every node that is in the list. *)

(* From a, the links f of the nodes in K lead to n: every set that has a,  *)
(* and with a node in K the one it links to, has n.                        *)
LeadsTo(f, K, a, n) ==
  \A S \in SUBSET Nodes : a \in S \cup {Nil} /\ (\A m \in S \cap K : f[m] \in S \cup {Nil}) => n \in S

(* The sockets of the nodes are known, and of the one that is being opened.*)
SocketInv ==
  /\ \A n \in live : fdOf[n] \in Fds
  /\ IF wpc = "idle" THEN wfd = Nil ELSE wfd \in Fds

(* The head leads to every node, and what is ahead of the walk together    *)
(* with the browsers that have the line is the whole list.                 *)
HasLine(n) == conn[fdOf[n]] = "ws" /\ fdOf[n] # wfd => got[fdOf[n]] = line
Reached == \A n \in Kept : LeadsTo(next, Kept, head, n)
WalkInv ==
  /\ lpc = "walk" => \A n \in Kept : LeadsTo(next, Kept, node, n) \/ HasLine(n)
  /\ lpc = "remove" => \A n \in Kept \ {node} : LeadsTo(next, Kept, tmp, n) \/ HasLine(n)

LineInv == SocketInv /\ Reached /\ WalkInv

(* The end of the list leads nowhere.                                      *)
LEMMA NilLeadsNowhere == \A f, K, n : ~LeadsTo(f, K, Nil, n)
<1> SUFFICES ASSUME NEW f, NEW K, NEW n, LeadsTo(f, K, Nil, n) PROVE FALSE
  OBVIOUS
<1>1. {} \in SUBSET Nodes /\ Nil \in {} \cup {Nil} /\ \A m \in {} \cap K : f[m] \in {} \cup {Nil}
  OBVIOUS
<1> QED
  BY <1>1 DEF LeadsTo

(* Links of other nodes do not matter.                                     *)
LEMMA SameLinks ==
  ASSUME NEW f, NEW g, NEW K, \A m \in K : g[m] = f[m], NEW a, NEW n, LeadsTo(f, K, a, n)
  PROVE  LeadsTo(g, K, a, n)
BY DEF LeadsTo

(* What a node leads to is itself or comes after it.                       *)
LEMMA LeadsOn ==
  ASSUME NEW K \in SUBSET Nodes, NEW f, NEW a \in K, NEW n, n # a, LeadsTo(f, K, a, n)
  PROVE  LeadsTo(f, K, f[a], n)
<1> SUFFICES ASSUME NEW S \in SUBSET Nodes, f[a] \in S \cup {Nil}, \A m \in S \cap K : f[m] \in S \cup {Nil}
             PROVE  n \in S
  BY DEF LeadsTo
<1> DEFINE T == S \cup {a}
<1>1. T \in SUBSET Nodes /\ a \in T \cup {Nil}
  OBVIOUS
<1>2. \A m \in T \cap K : f[m] \in T \cup {Nil}
  OBVIOUS
<1>3. n \in T
  BY <1>1, <1>2 DEF LeadsTo
<1> QED
  BY <1>3

(* A node that links to the head leads to all that the head leads to.      *)
LEMMA LeadsFromNew ==
  ASSUME NEW K, NEW f, NEW w \in Nodes, Nil \notin Nodes, NEW n,
         n = w \/ LeadsTo(f, K, f[w], n)
  PROVE  LeadsTo(f, K \cup {w}, w, n)
<1> SUFFICES ASSUME NEW S \in SUBSET Nodes, w \in S \cup {Nil},
                    \A m \in S \cap (K \cup {w}) : f[m] \in S \cup {Nil}
             PROVE  n \in S
  BY DEF LeadsTo
<1>1. w \in S /\ f[w] \in S \cup {Nil} /\ \A m \in S \cap K : f[m] \in S \cup {Nil}
  OBVIOUS
<1> QED
  BY <1>1 DEF LeadsTo

(* Without the node x, which the links now pass over, all else is led to   *)
(* as before.                                                              *)
LEMMA LeadsPast ==
  ASSUME NEW K \in SUBSET Nodes, NEW f, NEW g, NEW x \in K,
         \A m \in K \ {x} : g[m] = IF f[m] = x THEN f[x] ELSE f[m],
         NEW a, NEW b, b = IF a = x THEN f[x] ELSE a,
         NEW n, n # x, LeadsTo(f, K, a, n)
  PROVE  LeadsTo(g, K \ {x}, b, n)
<1> SUFFICES ASSUME NEW S \in SUBSET Nodes, b \in S \cup {Nil},
                    \A m \in S \cap (K \ {x}) : g[m] \in S \cup {Nil}
             PROVE  n \in S
  BY DEF LeadsTo
<1>1. CASE f[x] \in S \cup {Nil}
  <2> DEFINE T == S \cup {x}
  <2>1. T \in SUBSET Nodes /\ a \in T \cup {Nil}
    OBVIOUS
  <2>2. \A m \in T \cap K : f[m] \in T \cup {Nil}
    <3> TAKE m \in T \cap K
    <3>1. CASE m = x
      BY <1>1, <3>1
    <3>2. CASE m # x
      <4>1. m \in S \cap (K \ {x}) /\ g[m] = IF f[m] = x THEN f[x] ELSE f[m]
        BY <3>2
      <4> QED
        BY <4>1
    <3> QED
      BY <3>1, <3>2
  <2>3. n \in T
    BY <2>1, <2>2 DEF LeadsTo
  <2> QED
    BY <2>3
<1>2. CASE f[x] \notin S \cup {Nil}
  <2> DEFINE T == S \ {x}
  <2>1. a # x /\ b = a
    BY <1>2
  <2>2. T \in SUBSET Nodes /\ a \in T \cup {Nil}
    BY <2>1
  <2>3. \A m \in T \cap K : f[m] \in T \cup {Nil}
    <3> TAKE m \in T \cap K
    <3>1. m \in S \cap (K \ {x}) /\ g[m] = (IF f[m] = x THEN f[x] ELSE f[m]) /\ g[m] \in S \cup {Nil}
      OBVIOUS
    <3>2. f[m] # x /\ g[m] = f[m]
      BY <1>2, <3>1
    <3> QED
      BY <3>1, <3>2
  <2>4. n \in T
    BY <2>2, <2>3 DEF LeadsTo
  <2> QED
    BY <2>4
<1> QED
  BY <1>1, <1>2

(* The links around a node that is taken out pass over it.                 *)
LEMMA LinksPastRemoved ==
  ASSUME ListInv, LoggerRemoves
  PROVE  /\ node \in Kept /\ Kept' = Kept \ {node}
         /\ \A m \in Kept \ {node} : next'[m] = IF next[m] = node THEN next[node] ELSE next[m]
         /\ head' = IF head = node THEN next[node] ELSE head
         /\ tmp = next[node] /\ tmp # node /\ node' = tmp
         /\ lpc = "remove" /\ lpc' = "walk"
<1>1. /\ node \in live /\ node \in Nodes /\ Nil \notin Nodes /\ live \subseteq Nodes
      /\ live' = live \ {node} /\ wnode = Nil /\ wnode' = Nil /\ next \in [Nodes -> Nodes \cup {Nil}]
      /\ lpc = "remove" /\ lpc' = "walk" /\ node' = tmp
  BY LogAssumption DEF ListInv, LogTypeOK, InsertPlace, WalkPlace, LoggerRemoves, LoggerGoto, FreeNode, openVars
<1>2. node \in Kept /\ Kept' = Kept \ {node} /\ Kept \subseteq Nodes /\ Kept \subseteq live
  BY <1>1 DEF Kept, Listed
<1>3. tmp = next[node] /\ tmp # node
  BY <1>1, NextIsAnother
<1>4. head' = IF head = node THEN next[node] ELSE head
  BY DEF LoggerRemoves
<1>5. \A m \in Kept \ {node} : next'[m] = IF next[m] = node THEN next[node] ELSE next[m]
  <2> TAKE m \in Kept \ {node}
  <2>1. CASE head = node
    <3>1. next' = [next EXCEPT ![node] = Nil]
      BY <2>1 DEF LoggerRemoves
    <3>2. next[m] # node
      BY <1>1, <2>1 DEF ListInv, ListShape
    <3> QED
      BY <1>1, <1>2, <3>1, <3>2
  <2>2. CASE head # node
    <3>1. next' = Without(node)
      BY <2>2 DEF LoggerRemoves
    <3> QED
      BY <1>1, <1>2, <3>1 DEF Without
  <2> QED
    BY <2>1, <2>2
<1> QED
  BY <1>1, <1>2, <1>3, <1>4, <1>5

(* Every node in the list has a socket.                                    *)
LEMMA SocketStep == ListInv /\ SocketInv /\ [LogNext]_logVars => SocketInv'
<1> SUFFICES ASSUME ListInv, SocketInv, [LogNext]_logVars PROVE SocketInv'
  OBVIOUS
<1>1. live \subseteq Nodes /\ fdOf \in [Nodes -> Fds \cup {Nil}]
  BY DEF ListInv, LogTypeOK
<1>2. CASE (LoggerStarts /\ step = "logger") \/ Log \/ LoggerReceives \/ LoggerTakes \/ LoggerSends \/ LoggerGives
           \/ UNCHANGED logVars
  <2>1. UNCHANGED <<live, fdOf, wpc, wfd>>
    BY <1>2 DEF LoggerStarts, Log, LoggerReceives, LoggerTakes, LoggerSends, LoggerGives, logVars, listVars, openVars
  <2> QED
    BY <2>1 DEF SocketInv
<1>3. CASE LoggerRemoves
  <2>1. live' = live \ {node} /\ fdOf' = [fdOf EXCEPT ![node] = Nil] /\ UNCHANGED <<wpc, wfd>>
    BY <1>3 DEF LoggerRemoves, FreeNode, openVars
  <2> QED
    BY <1>1, <2>1 DEF SocketInv
<1>4. ASSUME NEW f \in Fds, Connect(f) \/ Disconnect(f) \/ OpenLog(f) PROVE SocketInv'
  <2>1. /\ UNCHANGED <<live, fdOf>>
        /\ (UNCHANGED <<wpc, wfd>>) \/ (wpc' = "take" /\ wfd' = f)
    BY <1>4 DEF Connect, Disconnect, OpenLog, listVars, openVars
  <2> QED
    BY <1>4, <2>1 DEF SocketInv
<1>5. CASE OpenTake \/ OpenLink \/ OpenHead
  <2>1. /\ UNCHANGED <<live, fdOf>> /\ wpc # "idle"
        /\ (wpc' # "idle" /\ wfd' = wfd) \/ (wpc' = "idle" /\ wfd' = Nil)
    BY <1>5 DEF OpenTake, OpenLink, OpenHead, HandlerOver, listVars
  <2> QED
    BY <2>1 DEF SocketInv
<1>6. CASE OpenAlloc
  <2>1. wfd \in Fds
    BY <1>6 DEF OpenAlloc, SocketInv
  <2>2. CASE wpc' = "link"
    <3>1. PICK n \in Nodes \ live : live' = live \cup {n} /\ fdOf' = [fdOf EXCEPT ![n] = wfd] /\ UNCHANGED wfd
      BY <1>6, <2>2 DEF OpenAlloc, HandlerOver
    <3> QED
      BY <1>1, <2>1, <2>2, <3>1 DEF SocketInv
  <2>3. CASE wpc' # "link"
    BY <1>6, <2>3 DEF OpenAlloc, HandlerOver, SocketInv
  <2> QED
    BY <2>2, <2>3
<1>7. CASE LogDrop
  BY <1>7 DEF LogDrop, SocketInv
<1> QED
  BY <1>2, <1>3, <1>4, <1>5, <1>6, <1>7 DEF LogNext, LogMove, Logger, OpenStep

(* A node is put before the head, or taken out: the head leads to the rest.*)
LEMMA ReachedStep == ListInv /\ Reached /\ [LogNext]_logVars => Reached'
<1> SUFFICES ASSUME ListInv, Reached, [LogNext]_logVars PROVE Reached'
  OBVIOUS
<1>1. Nil \notin Nodes /\ live \subseteq Nodes /\ wnode \in Nodes \cup {Nil} /\ next \in [Nodes -> Nodes \cup {Nil}]
      /\ Kept \in SUBSET Nodes
  BY LogAssumption DEF ListInv, LogTypeOK, Kept
<1>2. ASSUME UNCHANGED <<live, next, head, wnode>> PROVE Reached'
  BY <1>2 DEF Reached, Kept, Listed
<1>3. CASE (LoggerStarts /\ step = "logger") \/ Log \/ LoggerReceives \/ LoggerTakes \/ LoggerSends \/ LoggerGives
           \/ UNCHANGED logVars
  BY <1>2, <1>3 DEF LoggerStarts, Log, LoggerReceives, LoggerTakes, LoggerSends, LoggerGives, logVars, listVars, openVars
<1>4. CASE \E f \in Fds : Connect(f) \/ Disconnect(f) \/ OpenLog(f)
  BY <1>2, <1>4 DEF Connect, Disconnect, OpenLog, listVars, openVars
<1>5. CASE OpenTake
  <2>1. wnode = Nil
    BY <1>5 DEF OpenTake, ListInv, InsertPlace
  <2> QED
    BY <1>2, <1>5, <2>1 DEF OpenTake, HandlerOver, listVars
<1>6. CASE OpenAlloc
  <2>1. wnode = Nil /\ UNCHANGED <<next, head>>
    BY <1>6 DEF OpenAlloc, ListInv, InsertPlace
  <2>2. CASE wpc' = "link"
    <3>1. PICK n \in Nodes \ live : live' = live \cup {n} /\ wnode' = n
      BY <1>6, <2>2 DEF OpenAlloc, HandlerOver
    <3>2. Kept' = Kept
      BY <1>1, <2>1, <3>1 DEF Kept, Listed
    <3> QED
      BY <2>1, <3>2 DEF Reached
  <2>3. CASE wpc' # "link"
    BY <1>2, <1>6, <2>1, <2>3 DEF OpenAlloc, HandlerOver
  <2> QED
    BY <2>2, <2>3
<1>7. CASE OpenLink
  <2>1. wnode \in live /\ next' = [next EXCEPT ![wnode] = head] /\ UNCHANGED <<live, head, wnode>>
    BY <1>7 DEF OpenLink, ListInv, InsertPlace
  <2>2. Kept' = Kept /\ \A m \in Kept : next'[m] = next[m]
    BY <1>1, <2>1 DEF Kept, Listed
  <2>3. ASSUME NEW n \in Kept PROVE LeadsTo(next', Kept, head, n)
    <3>1. LeadsTo(next, Kept, head, n)
      BY DEF Reached
    <3> QED
      BY <2>2, <3>1, SameLinks
  <2> QED
    BY <2>1, <2>2, <2>3 DEF Reached
<1>8. CASE OpenHead
  <2>1. /\ wnode \in live /\ wnode \in Nodes /\ next[wnode] = head
        /\ head' = wnode /\ wnode' = Nil /\ UNCHANGED <<live, next>>
    BY <1>1, <1>8 DEF ListInv, InsertPlace, OpenHead, HandlerOver
  <2>2. Kept' = Kept \cup {wnode}
    BY <1>1, <2>1 DEF Kept, Listed
  <2>3. ASSUME NEW n \in Kept \cup {wnode} PROVE LeadsTo(next, Kept \cup {wnode}, wnode, n)
    <3>1. n = wnode \/ LeadsTo(next, Kept, next[wnode], n)
      BY <2>1, <2>3 DEF Reached
    <3> QED
      BY <1>1, <2>1, <3>1, LeadsFromNew
  <2> QED
    BY <2>1, <2>2, <2>3 DEF Reached
<1>9. CASE LoggerRemoves
  <2>1. /\ node \in Kept /\ Kept' = Kept \ {node}
        /\ \A m \in Kept \ {node} : next'[m] = IF next[m] = node THEN next[node] ELSE next[m]
        /\ head' = IF head = node THEN next[node] ELSE head
    BY <1>9, LinksPastRemoved
  <2>2. ASSUME NEW n \in Kept \ {node} PROVE LeadsTo(next', Kept \ {node}, head', n)
    <3>1. LeadsTo(next, Kept, head, n) /\ n # node
      BY <2>2 DEF Reached
    <3> QED
      BY <1>1, <2>1, <3>1, LeadsPast
  <2> QED
    BY <2>1, <2>2 DEF Reached
<1>10. CASE LogDrop
  <2>1. Kept' = {}
    BY <1>10 DEF LogDrop, Kept, Listed
  <2> QED
    BY <2>1 DEF Reached
<1> QED
  BY <1>3, <1>4, <1>5, <1>6, <1>7, <1>8, <1>9, <1>10 DEF LogNext, LogMove, Logger, OpenStep

(* The walk goes on: what it has passed has the line, or is no browser.    *)
LEMMA WalkStep == ListInv /\ LineInv /\ [LogNext]_logVars => WalkInv'
<1> SUFFICES ASSUME ListInv, LineInv, [LogNext]_logVars PROVE WalkInv'
  OBVIOUS
<1>1. /\ Nil \notin Nodes /\ Nil \notin Fds /\ live \subseteq Nodes /\ Kept \in SUBSET Nodes /\ Kept \subseteq live
      /\ conn \in [Fds -> {"none", "http", "ws"}] /\ got \in [Fds -> 0 .. MaxLines]
      /\ \A n \in Kept : fdOf[n] \in Fds
  BY LogAssumption DEF ListInv, LogTypeOK, Kept, Listed, LineInv, SocketInv
<1>2. CASE lpc' \notin {"walk", "remove"}
  BY <1>2 DEF WalkInv
<1>3. ASSUME UNCHANGED <<live, fdOf, next, wnode, lpc, node, tmp, line>>,
             \A n \in Kept : HasLine(n) => HasLine(n)'
      PROVE  WalkInv'
  <2>1. Kept' = Kept
    BY <1>3 DEF Kept, Listed
  <2> QED
    BY <1>3, <2>1 DEF WalkInv, LineInv
<1>4. CASE Log \/ UNCHANGED logVars
  <2>1. UNCHANGED <<live, fdOf, next, wnode, lpc, node, tmp, line, conn, got, wfd>>
    BY <1>4 DEF Log, logVars, listVars, openVars, loggerVars
  <2> QED
    BY <1>3, <2>1 DEF HasLine
<1>5. ASSUME NEW f \in Fds, Connect(f) \/ Disconnect(f) \/ OpenLog(f) PROVE WalkInv'
  <2>1. UNCHANGED <<live, fdOf, next, wnode, lpc, node, tmp, line>>
    BY <1>5 DEF Connect, Disconnect, OpenLog, listVars, openVars, loggerVars
  <2>2. ASSUME NEW n \in Kept, HasLine(n) PROVE HasLine(n)'
    <3>1. fdOf'[n] = fdOf[n] /\ fdOf[n] \in Fds /\ line' = line
      BY <1>1, <2>1
    <3>2. CASE Connect(f) \/ Disconnect(f)
      <4>1. wfd' = wfd /\ conn'[f] # "ws"
            /\ \A e \in Fds \ {f} : conn'[e] = conn[e] /\ got'[e] = got[e]
        BY <1>1, <3>2 DEF Connect, Disconnect, openVars
      <4> QED
        BY <2>2, <3>1, <4>1 DEF HasLine
    <3>3. CASE OpenLog(f)
      <4>1. wfd' = f /\ wfd = Nil /\ got' = got /\ \A e \in Fds \ {f} : conn'[e] = conn[e]
        BY <1>1, <3>3 DEF OpenLog, LineInv, SocketInv
      <4> QED
        BY <1>1, <2>2, <3>1, <4>1 DEF HasLine
    <3> QED
      BY <1>5, <3>2, <3>3
  <2> QED
    BY <1>3, <2>1, <2>2
<1>6. CASE OpenStep /\ lpc' \in {"walk", "remove"}
  <2>1. lpc \in {"walk", "remove"} /\ mutex = "logger"
    BY <1>6 DEF OpenStep, OpenTake, OpenAlloc, OpenLink, OpenHead, loggerVars, ListInv, WalkPlace
  <2>2. OpenTake /\ wnode = Nil
    BY <1>6, <2>1 DEF OpenStep, OpenAlloc, OpenLink, OpenHead, ListInv, InsertPlace, OpenTake
  <2>3. /\ UNCHANGED <<live, fdOf, next, wnode, lpc, node, tmp, line, got>>
        /\ wfd' = Nil /\ conn' = [conn EXCEPT ![wfd] = "none"]
    BY <2>1, <2>2 DEF OpenTake, HandlerOver, Refused, listVars, loggerVars
  <2>4. wfd \in Fds
    BY <2>2 DEF OpenTake, LineInv, SocketInv
  <2>5. conn'[wfd] = "none" /\ \A e \in Fds \ {wfd} : conn'[e] = conn[e]
    BY <1>1, <2>3, <2>4
  <2>6. ASSUME NEW n \in Kept, HasLine(n) PROVE HasLine(n)'
    <3>1. fdOf[n] \in Fds
      BY <1>1
    <3> QED
      BY <2>3, <2>5, <2>6, <3>1 DEF HasLine
  <2> QED
    BY <1>3, <2>3, <2>6
<1>7. CASE LoggerTakes /\ lpc' \in {"walk", "remove"}
  <2>1. lpc' = "walk" /\ node' = head /\ UNCHANGED <<live, next, wnode>>
    BY <1>7 DEF LoggerTakes, LoggerGoto, listVars, openVars
  <2>2. Kept' = Kept
    BY <2>1 DEF Kept, Listed
  <2> QED
    BY <2>1, <2>2 DEF WalkInv, LineInv, Reached
<1>8. CASE LoggerSends
  <2>1. /\ lpc = "walk" /\ node # Nil /\ tmp' = next[node]
        /\ UNCHANGED <<live, fdOf, next, wnode, wfd, conn, line>>
    BY <1>8 DEF LoggerSends, listVars, openVars
  <2>2. Kept' = Kept /\ node \in Kept /\ fdOf[node] \in Fds
    <3>1. wnode = Nil /\ node \in live
      BY <2>1 DEF ListInv, WalkPlace, InsertPlace
    <3>2. node \in Kept
      BY <1>1, <3>1 DEF Kept, Listed
    <3> QED
      BY <1>1, <2>1, <3>2 DEF Kept, Listed
  <2>3. ASSUME NEW n \in Kept, n # node
        PROVE  LeadsTo(next, Kept, next[node], n) \/ HasLine(n)
    <3>1. LeadsTo(next, Kept, node, n) \/ HasLine(n)
      BY <2>1 DEF WalkInv, LineInv
    <3>2. ASSUME LeadsTo(next, Kept, node, n) PROVE LeadsTo(next, Kept, next[node], n)
      BY <1>1, <2>2, <2>3, <3>2, LeadsOn
    <3> QED
      BY <3>1, <3>2
  <2>4. \A n \in Kept : HasLine(n) => HasLine(n)'
    <3>1. got' = got \/ got' = [got EXCEPT ![fdOf[node]] = line]
      BY <1>8 DEF LoggerSends
    <3>2. \A e \in Fds : got'[e] = got[e] \/ got'[e] = line
      BY <1>1, <2>2, <3>1
    <3> QED
      BY <1>1, <2>1, <3>2 DEF HasLine
  <2>5. CASE lpc' = "remove"
    <3>1. \A n \in Kept' \ {node'} : LeadsTo(next', Kept', tmp', n) \/ HasLine(n)'
      <4>1. node' = node
        BY <1>8, <2>1, <2>5 DEF LoggerSends
      <4> QED
        BY <2>1, <2>2, <2>3, <2>4, <4>1
    <3> QED
      BY <2>5, <3>1 DEF WalkInv
  <2>6. CASE lpc' # "remove"
    <3>1. lpc' = "walk" /\ node' = next[node]
          /\ (conn[fdOf[node]] = "ws" => got' = [got EXCEPT ![fdOf[node]] = line])
      BY <1>8, <2>1, <2>6 DEF LoggerSends
    <3>2. ASSUME NEW n \in Kept, n = node PROVE HasLine(n)'
      <4>1. fdOf'[n] = fdOf[node] /\ conn' = conn /\ line' = line
        BY <2>1, <3>2
      <4>2. conn[fdOf[node]] = "ws" => got'[fdOf[node]] = line
        BY <1>1, <2>2, <3>1
      <4> QED
        BY <4>1, <4>2 DEF HasLine
    <3>3. ASSUME NEW n \in Kept PROVE LeadsTo(next, Kept, next[node], n) \/ HasLine(n)'
      BY <2>3, <2>4, <3>2
    <3> QED
      BY <2>1, <2>2, <3>1, <3>3 DEF WalkInv
  <2> QED
    BY <2>5, <2>6
<1>9. CASE LoggerRemoves
  <2>1. /\ node \in Kept /\ Kept' = Kept \ {node}
        /\ \A m \in Kept \ {node} : next'[m] = IF next[m] = node THEN next[node] ELSE next[m]
        /\ tmp = next[node] /\ tmp # node /\ node' = tmp
        /\ lpc = "remove" /\ lpc' = "walk"
    BY <1>9, LinksPastRemoved
  <2>2. fdOf' = [fdOf EXCEPT ![node] = Nil] /\ UNCHANGED <<conn, got, line, wfd>>
    BY <1>9 DEF LoggerRemoves, FreeNode, openVars
  <2>3. ASSUME NEW n \in Kept \ {node} PROVE LeadsTo(next', Kept \ {node}, tmp, n) \/ HasLine(n)'
    <3>1. LeadsTo(next, Kept, tmp, n) \/ HasLine(n)
      BY <2>1, <2>3 DEF WalkInv, LineInv
    <3>2. ASSUME LeadsTo(next, Kept, tmp, n) PROVE LeadsTo(next', Kept \ {node}, tmp, n)
      <4>1. n # node /\ tmp = IF tmp = node THEN next[node] ELSE tmp
        BY <2>1, <2>3
      <4> QED
        BY <1>1, <2>1, <3>2, <4>1, LeadsPast
    <3>3. fdOf'[n] = fdOf[n]
      BY <1>1, <2>2, <2>3 DEF ListInv, LogTypeOK
    <3>4. HasLine(n) => HasLine(n)'
      BY <2>2, <3>3 DEF HasLine
    <3> QED
      BY <3>1, <3>2, <3>4
  <2> QED
    BY <2>1, <2>3 DEF WalkInv
<1>10. lpc' \in {"walk", "remove"} => ~(LoggerStarts \/ LoggerReceives \/ LoggerGives \/ LogDrop)
  BY DEF LoggerStarts, LoggerReceives, LoggerGives, LoggerGoto, LogDrop
<1> QED
  BY <1>2, <1>4, <1>5, <1>6, <1>7, <1>8, <1>9, <1>10 DEF LogNext, LogMove, Logger

(* For any number of sockets, nodes and lines, whatever is opened, closed  *)
(* and removed meanwhile: at the end of a walk every browser in the list   *)
(* has the line.                                                           *)
THEOREM LineReachesEvery == ControllerSpec => LineReachesAll
<1>1. ControllerInit => LineInv
  <2> SUFFICES ASSUME ControllerInit PROVE LineInv
    OBVIOUS
  <2>1. live = {} /\ wpc = "idle" /\ wfd = Nil /\ lpc = "off"
    BY DEF ControllerInit, LogInit
  <2>2. Kept = {}
    BY <2>1 DEF Kept, Listed
  <2> QED
    BY <2>1, <2>2 DEF LineInv, SocketInv, Reached, WalkInv
<1>2. ListInv /\ LineInv /\ [ControllerNext]_controllerVars => LineInv'
  BY ServiceView, SocketStep, ReachedStep, WalkStep DEF LineInv
<1>3. ListInv /\ LineInv =>
        [LoggerGives => \A n \in live : conn[fdOf[n]] = "ws" /\ fdOf[n] # wfd => got[fdOf[n]] = line]_logVars
  <2> SUFFICES ASSUME ListInv, LineInv, LoggerGives, NEW n \in live PROVE HasLine(n)
    BY DEF HasLine
  <2>1. lpc = "walk" /\ node = Nil
    BY DEF LoggerGives, LoggerGoto
  <2>2. wnode = Nil /\ n \in Nodes /\ Nil \notin Nodes
    BY <2>1, LogAssumption DEF ListInv, LogTypeOK, WalkPlace, InsertPlace
  <2>3. n \in Kept
    BY <2>2 DEF Kept, Listed
  <2> QED
    BY <2>1, <2>3, NilLeadsNowhere DEF LineInv, WalkInv
<1> QED
  BY <1>1, <1>2, <1>3, ListInvariant, PTL DEF ControllerSpec, LineReachesAll

--------------------------------------------------------------------------------
(* The memory of the display *)

(* Where the two tasks are in their loops.                                 *)
RequestPlace ==
  /\ (dpc = "idle") <=> (op = "none")
  /\ dpc \in {"use", "convert"} => place \in Places
  /\ dpc = "use" /\ op = "get" => prop \in ReadProps \cup {PropCnt}
  /\ dpc = "convert" => op \in {"get", "post"} /\ prop \in ReadProps
RoundPlace ==
  /\ mpc \in {"resize", "set", "load", "toBin"} => mprop \in Props
  /\ mpc = "toBin" => mplace \in Places
  /\ mpc \in {"parked", "signal"} => mprop = 0
  /\ mpc \in {"parked", "decide", "resize", "signal"} => mplace = 0

(* A request that began between two rounds is at the display only between  *)
(* rounds, and its wait ends with the round it has started.                *)
Turn ==
  /\ mpc # "parked" => dpc \in {"idle", "wait"} /\ ~desync
  /\ desync => dpc \in {"idle", "wait"}
  /\ dpc = "set" \/ (dpc = "wait" /\ (mpc # "parked" \/ desync)) => ~sync

(* What is allocated is what the display points to, each at its place.     *)
Pointed ==
  /\ \A i \in Places :
       /\ mods[i] \in {Module(i), Null}
       /\ i >= count => mods[i] = Null
       /\ Module(i) \in heap <=> mods[i] # Null
  /\ \A p \in PropertyMemory :
       /\ field[p] \in {p, Null}
       /\ mods[p[1]] = Null => field[p] = Null
       /\ p \in heap <=> field[p] # Null

(* What the tasks have pointers to is what the display still points to.    *)
Held ==
  /\ IF dpc \in {"use", "convert"} THEN place < count /\ hmod = mods[place] ELSE hmod = Null
  /\ IF dpc = "convert" THEN hmod # Null /\ hptr = field[<<place, prop>>] ELSE hptr = Null
  /\ IF mpc = "toBin" THEN <<mplace, mprop>> \in flagged /\ mptr = field[<<mplace, mprop>>] ELSE mptr = Null

(* As long as there is memory and no round gives up: what a round has not  *)
(* read yet is still marked, and the rest is there in every module.        *)
Marked ==
  /\ reads \in {{}, {k \in ReadProps : k >= mprop}}
  /\ reads # {} => (op = "get" /\ dpc \in {"clear", "set"}) \/ desync \/ mpc \notin {"parked", "signal"}
  /\ mpc \in {"resize", "set"} => mprop \in reads
  /\ mpc \in {"load", "toBin"} => mprop \notin reads
Filled ==
  /\ \A i \in Places : i < count => mods[i] # Null /\ \A k \in ReadProps \ reads : field[<<i, k>>] # Null
  /\ mpc = "set" => \A i \in Places : i < mplace => field[<<i, mprop>>] # Null
  /\ \A p \in flagged : field[p] # Null
  /\ dpc = "use" /\ op = "put" => hmod # Null

MemPlaces == MemTypeOK /\ RequestPlace /\ RoundPlace
MemInv ==
  /\ MemPlaces
  /\ ~overlapped => Turn /\ Pointed /\ Held
  /\ ~overlapped /\ ~starved => Marked /\ Filled

--------------------------------------------------------------------------------
(* The smallest of some numbers, as From is defined. *)
LEMMA HasFirst ==
  ASSUME NEW T \in SUBSET Nat, T # {}
  PROVE  \E m \in T : \A j \in T : m <= j
<1> DEFINE R == {ss \in Nat \X Nat : ss[1] < ss[2]}
<1>1. IsWellFoundedOn(R, Nat)
  BY NatLessThanWellFounded DEF OpToRel
<1> HIDE DEF R
<1>2. PICK m \in T : \A j \in T : <<j, m>> \notin R
  BY <1>1, WFMin
<1>3. \A j \in T : ~(j < m)
  BY <1>2 DEF R
<1> QED
  BY <1>3

LEMMA FirstFrom ==
  ASSUME NEW S \in SUBSET Props, NEW k \in 0 .. PropCnt
  PROVE  From(S, k) \in S \cup {PropCnt}
<1> DEFINE T == {j \in S \cup {PropCnt} : j >= k}
<1>1. PropCnt \in Nat /\ S \subseteq Nat /\ k <= PropCnt
  BY MemAssumption DEF Props
<1>2. T \in SUBSET Nat /\ PropCnt \in T
  BY <1>1
<1>3. PICK m \in T : \A j \in T : m <= j
  BY <1>2, HasFirst
<1>4. m \in S \cup {PropCnt} /\ m >= k /\ \A i \in S : i >= k => m <= i
  BY <1>3
<1> QED
  BY <1>4 DEF From

LEMMA MemKinds ==
  /\ MaxChain \in Nat /\ PropCnt \in Nat /\ Null # Freed /\ Places \subseteq Nat /\ Props \subseteq Nat
  /\ ReadProps \subseteq Props /\ PostProps \subseteq ReadProps /\ PutProps \subseteq Props
  /\ Null \notin Memory /\ Freed \notin Memory
  /\ ModuleMemory \subseteq Memory /\ PropertyMemory \subseteq Memory
  /\ ModuleMemory \cap PropertyMemory = {}
  /\ \A i \in Places : Module(i) \in ModuleMemory /\ Module(i)[1] = i
  /\ \A m \in ModuleMemory : m[1] \in Places /\ m = Module(m[1])
  /\ \A i \in Places, k \in Props : <<i, k>> \in PropertyMemory
  /\ \A p \in PropertyMemory : p[1] \in Places /\ p[2] \in Props /\ p = <<p[1], p[2]>>
<1>1. -1 \notin Props /\ Places \subseteq Nat /\ Props \subseteq Nat
  BY MemAssumption DEF Props, Places
<1>2. ModuleMemory \cap PropertyMemory = {}
  BY <1>1 DEF ModuleMemory, PropertyMemory, Itself
<1>3. \A i \in Places : Module(i) \in ModuleMemory /\ Module(i)[1] = i
  BY DEF ModuleMemory, Module, Itself
<1>4. \A m \in ModuleMemory : m[1] \in Places /\ m = Module(m[1])
  BY DEF ModuleMemory, Module, Itself
<1>5. /\ \A i \in Places, k \in Props : <<i, k>> \in PropertyMemory
      /\ \A p \in PropertyMemory : p[1] \in Places /\ p[2] \in Props /\ p = <<p[1], p[2]>>
  BY DEF PropertyMemory
<1> QED
  BY <1>1, <1>2, <1>3, <1>4, <1>5, MemAssumption DEF Memory

LEMMA StaysPointer ==
  ASSUME NEW M, NEW S, NEW p \in M \cup {Null, Freed}
  PROVE  After(p, S) \in M \cup {Null, Freed}
BY DEF After

(* Property k of module i is replaced, or there is no memory for it.       *)
LEMMA ReplacedTypes ==
  ASSUME MemTypeOK, NEW i \in Places, NEW k \in Props, Replaced(i, k) \/ NoMemory
  PROVE  heap' \subseteq Memory /\ field' \in [PropertyMemory -> PropertyMemory \cup {Null}]
BY MemKinds DEF Replaced, NoMemory, MemTypeOK

(* The HTTP task keeps to its places.                                      *)
LEMMA RequestPlaces ==
  ASSUME MemPlaces, Request
  PROVE  MemPlaces'
<1> USE MemKinds DEF MemPlaces
<1>1. ASSUME NEW o \in {"get", "post", "put"}, RequestBegins(o)
      PROVE  MemPlaces'
  <2>1. MemTypeOK'
    BY <1>1 DEF RequestBegins, MemTypeOK, modelVars, bitVars, masterVars
  <2>2. RequestPlace' /\ RoundPlace'
    BY <1>1 DEF RequestBegins, RequestPlace, RoundPlace, masterVars
  <2> QED
    BY <2>1, <2>2
<1>2. CASE ModuleGet
  <2>1. op \in {"get", "post", "put"} /\ Handled \subseteq Props /\ (op = "get" => Handled = ReadProps)
    BY <1>2 DEF ModuleGet, RequestGoto, RequestPlace, MemTypeOK, Handled
  <2>2. prop' \in Handled \cup {PropCnt} /\ prop' \in 0 .. PropCnt
    <3>1. 0 \in 0 .. PropCnt /\ From(Handled, 0) \in Handled \cup {PropCnt}
      BY <2>1, FirstFrom
    <3> QED
      BY <1>2, <2>1, <3>1 DEF ModuleGet, Props
  <2>3. place' \in Places /\ place' \in 0 .. MaxChain /\ hmod' \in ModuleMemory \cup {Null}
    <3>1. place' \in Nat /\ place' < count /\ hmod' = mods[place']
      BY <1>2 DEF ModuleGet, MemTypeOK
    <3>2. place' \in Places
      BY <3>1 DEF Places, MemTypeOK
    <3> QED
      BY <3>1, <3>2 DEF Places, MemTypeOK
  <2>4. MemTypeOK'
    BY <1>2, <2>2, <2>3 DEF ModuleGet, RequestGoto, MemTypeOK, modelVars, wordVars, bitVars, masterVars, history
  <2>5. RequestPlace' /\ RoundPlace'
    BY <1>2, <2>1, <2>2, <2>3 DEF ModuleGet, RequestGoto, RequestPlace, RoundPlace, masterVars
  <2> QED
    BY <2>4, <2>5
<1>3. CASE PropertyGet
  <2>1. prop' \in ReadProps /\ prop' \in Props /\ prop' \in 0 .. PropCnt
    <3>1. prop' \in ReadProps
      BY <1>3 DEF PropertyGet, RequestGoto, RequestPlace
    <3> QED
      BY <3>1 DEF Props
  <2>2. hptr' \in PropertyMemory \cup {Null}
    <3>1. hmod[1] \in Places /\ <<hmod[1], prop'>> \in PropertyMemory /\ hptr' = field[<<hmod[1], prop'>>]
      BY <1>3, <2>1 DEF PropertyGet
    <3> QED
      BY <3>1 DEF MemTypeOK
  <2>3. MemTypeOK'
    BY <1>3, <2>1, <2>2 DEF PropertyGet, RequestGoto, MemTypeOK, modelVars, wordVars, bitVars, masterVars, history
  <2>4. RequestPlace' /\ RoundPlace'
    BY <1>3, <2>1 DEF PropertyGet, RequestGoto, RequestPlace, RoundPlace, masterVars
  <2> QED
    BY <2>3, <2>4
<1>4. CASE PropertyToJson
  <2>1. prop' \in ReadProps \cup {PropCnt} /\ prop' \in 0 .. PropCnt
    <3>1. prop \in Props /\ prop + 1 \in 0 .. PropCnt
      BY <1>4 DEF PropertyToJson, RequestGoto, RequestPlace, Props
    <3>2. From(ReadProps, prop + 1) \in ReadProps \cup {PropCnt}
      BY <3>1, FirstFrom
    <3> QED
      BY <1>4, <3>2 DEF PropertyToJson, Props
  <2>2. MemTypeOK'
    BY <1>4, <2>1 DEF PropertyToJson, RequestGoto, MemTypeOK, modelVars, wordVars, bitVars, masterVars, history
  <2>3. RequestPlace' /\ RoundPlace'
    BY <1>4, <2>1 DEF PropertyToJson, RequestGoto, RequestPlace, RoundPlace, masterVars
  <2> QED
    BY <2>2, <2>3
<1>5. CASE ModuleDone
  <2>1. place' \in 0 .. MaxChain
    BY <1>5 DEF ModuleDone, RequestGoto, RequestPlace, MemTypeOK, Places
  <2>2. MemTypeOK'
    BY <1>5, <2>1 DEF ModuleDone, RequestGoto, MemTypeOK, modelVars, wordVars, bitVars, masterVars, history
  <2>3. RequestPlace' /\ RoundPlace'
    BY <1>5 DEF ModuleDone, RequestGoto, RequestPlace, RoundPlace, masterVars
  <2> QED
    BY <2>2, <2>3
<1>6. CASE PropertyFromJson
  <2>1. place \in Places /\ prop \in Props /\ <<place, prop>> \in PropertyMemory
    BY <1>6 DEF PropertyFromJson, RequestGoto, RequestPlace
  <2>2. heap' \subseteq Memory /\ field' \in [PropertyMemory -> PropertyMemory \cup {Null}]
    BY <1>6, <2>1, ReplacedTypes DEF PropertyFromJson
  <2>3. mptr' \in PropertyMemory \cup {Null, Freed}
    BY <1>6, StaysPointer DEF PropertyFromJson, MemTypeOK
  <2>4. flagged' \subseteq PropertyMemory /\ writes' \subseteq Props /\ starved' \in BOOLEAN
    BY <1>6, <2>1 DEF PropertyFromJson, NoMemory, MemTypeOK
  <2>5. MemTypeOK'
    BY <1>6, <2>2, <2>3, <2>4 DEF PropertyFromJson, RequestGoto, MemTypeOK, bitVars
  <2>6. RequestPlace' /\ RoundPlace'
    BY <1>6 DEF PropertyFromJson, RequestGoto, RequestPlace, RoundPlace
  <2> QED
    BY <2>5, <2>6
<1>7. CASE PageSet
  <2>1. place \in Places /\ place' \in 0 .. MaxChain
    BY <1>7 DEF PageSet, RequestGoto, RequestPlace, Places, MemTypeOK
  <2>2. PICK k \in PutProps :
          /\ (Replaced(place, k) /\ mptr' = After(mptr, {field[<<place, k>>]} \ {Null}) /\ UNCHANGED starved)
             \/ (NoMemory /\ UNCHANGED mptr)
          /\ flagged' = flagged \cup {<<place, k>>} /\ writes' = writes \cup {k}
    BY <1>7 DEF PageSet
  <2>3. heap' \subseteq Memory /\ field' \in [PropertyMemory -> PropertyMemory \cup {Null}]
    BY <2>1, <2>2, ReplacedTypes
  <2>4. mptr' \in PropertyMemory \cup {Null, Freed}
    BY <2>2, StaysPointer DEF MemTypeOK
  <2>5. flagged' \subseteq PropertyMemory /\ writes' \subseteq Props /\ starved' \in BOOLEAN
    <3>1. <<place, k>> \in PropertyMemory /\ k \in Props
      BY <2>1
    <3>2. starved' = starved \/ starved' = TRUE
      BY <2>2 DEF NoMemory
    <3> QED
      BY <2>2, <3>1, <3>2 DEF MemTypeOK
  <2>6. MemTypeOK'
    BY <1>7, <2>1, <2>3, <2>4, <2>5 DEF PageSet, RequestGoto, MemTypeOK, bitVars
  <2>7. RequestPlace' /\ RoundPlace'
    BY <1>7 DEF PageSet, RequestGoto, RequestPlace, RoundPlace
  <2> QED
    BY <2>6, <2>7
<1>8. CASE LoopEnds \/ RoundAwaited \/ WaitExpires
  <2>1. RequestOver \/ (dpc' \in {"next", "clear"} /\ place' \in {place, 0} /\ UNCHANGED <<op, prop, hmod, hptr>>)
    BY <1>8 DEF LoopEnds, RoundAwaited, WaitExpires
  <2>2. /\ UNCHANGED <<modelVars, wordVars, desync, masterVars, history>> /\ sync' \in {sync, FALSE}
        /\ dpc # "idle"
    BY <1>8 DEF LoopEnds, RoundAwaited, WaitExpires, bitVars
  <2>3. /\ op' \in {"none", "get", "post", "put"} /\ dpc' \in {"idle", "next", "clear"}
        /\ place' \in 0 .. MaxChain /\ prop' \in 0 .. PropCnt
        /\ hmod' \in ModuleMemory \cup {Null, Freed} /\ hptr' \in PropertyMemory \cup {Null, Freed}
    BY <2>1 DEF RequestOver, MemTypeOK
  <2>4. MemTypeOK'
    BY <2>2, <2>3 DEF MemTypeOK, modelVars, wordVars, masterVars, history
  <2>5. RequestPlace' /\ RoundPlace'
    BY <2>1, <2>2 DEF RequestOver, RequestPlace, RoundPlace, masterVars
  <2> QED
    BY <2>4, <2>5
<1>9. CASE ClearSync \/ SetDesync
  <2>1. /\ UNCHANGED <<modelVars, wordVars, op, place, prop, hmod, hptr, masterVars, history>>
        /\ dpc' \in {"set", "wait"} /\ sync' \in BOOLEAN /\ desync' \in BOOLEAN
    BY <1>9 DEF ClearSync, SetDesync, RequestGoto, MemTypeOK
  <2>2. MemTypeOK'
    BY <2>1 DEF MemTypeOK, modelVars, wordVars, masterVars, history
  <2>3. RequestPlace' /\ RoundPlace'
    BY <1>9 DEF ClearSync, SetDesync, RequestGoto, RequestPlace, RoundPlace, masterVars
  <2> QED
    BY <2>2, <2>3
<1> QED
  BY <1>1, <1>2, <1>3, <1>4, <1>5, <1>6, <1>7, <1>8, <1>9 DEF Request

(* The master task keeps to its places.                                    *)
LEMMA RoundPlaces ==
  ASSUME MemPlaces, Round
  PROVE  MemPlaces'
<1> USE MemKinds DEF MemPlaces
<1>1. CASE RoundBegins \/ RoundEnds \/ PropertiesDone \/ PropertyGivenUp
  <2>1. /\ UNCHANGED <<modelVars, wordVars, requestVars, mptr, overlapped>>
        /\ mpc' \in {"parked", "decide", "signal"} /\ mplace' \in {mplace, 0} /\ mprop' \in {mprop, 0}
        /\ sync' \in BOOLEAN /\ desync' \in BOOLEAN /\ starved' \in BOOLEAN
    BY <1>1 DEF RoundBegins, RoundEnds, PropertiesDone, PropertyGivenUp, MasterGoto, bitVars, history, MemTypeOK
  <2>2. MemTypeOK'
    BY <2>1 DEF MemTypeOK, modelVars, wordVars, requestVars
  <2>3. RequestPlace' /\ RoundPlace'
    BY <1>1 DEF RoundBegins, RoundEnds, PropertiesDone, PropertyGivenUp, MasterGoto,
      RequestPlace, RoundPlace, requestVars
  <2> QED
    BY <2>2, <2>3
<1>2. CASE PropertyBegins
  <2>1. mprop \in Props /\ mprop' \in 0 .. PropCnt /\ mpc' \in {"decide", "resize", "load"} /\ mplace = 0
        /\ (mpc' # "decide" => mprop' = mprop)
    BY <1>2 DEF PropertyBegins, MemTypeOK, Props, RoundPlace
  <2>2. MemTypeOK'
    BY <1>2, <2>1 DEF PropertyBegins, MemTypeOK, modelVars, wordVars, bitVars, requestVars, history
  <2>3. RequestPlace' /\ RoundPlace'
    BY <1>2, <2>1 DEF PropertyBegins, RequestPlace, RoundPlace, requestVars
  <2> QED
    BY <2>2, <2>3
<1>3. CASE Resize
  <2>1. PICK chain, fails :
          chain \in 0 .. MaxChain /\ fails \in SUBSET (count .. chain - 1) /\ ResizeTo(chain, fails)
    BY <1>3 DEF Resize
  <2> DEFINE gone == UNION {OwnedBy(mods[i]) : i \in chain .. count - 1}
             new == (count .. chain - 1) \ fails
  <2>2. new \subseteq Places /\ \A i \in new : Module(i) \in ModuleMemory
    <3>1. count \in Nat /\ chain \in Nat /\ chain <= MaxChain
      BY <2>1 DEF MemTypeOK
    <3>2. new \subseteq Places
      BY <3>1 DEF Places
    <3> QED
      BY <3>2
  <2> HIDE DEF gone, new
  <2>3. count' \in 0 .. MaxChain /\ heap' \subseteq Memory
    BY <2>1, <2>2 DEF ResizeTo, gone, new, MemTypeOK
  <2>4. mods' \in [Places -> ModuleMemory \cup {Null}]
    BY <2>1, <2>2 DEF ResizeTo, gone, new, MemTypeOK
  <2>5. field' \in [PropertyMemory -> PropertyMemory \cup {Null}] /\ flagged' \subseteq PropertyMemory
    BY <2>1 DEF ResizeTo, gone, new, MemTypeOK
  <2>6. hmod' \in ModuleMemory \cup {Null, Freed} /\ hptr' \in PropertyMemory \cup {Null, Freed}
    BY <2>1, StaysPointer DEF ResizeTo, gone, new, MemTypeOK
  <2>7. starved' \in BOOLEAN
    BY <2>1 DEF ResizeTo, MemTypeOK
  <2>8. MemTypeOK'
    BY <1>3, <2>3, <2>4, <2>5, <2>6, <2>7 DEF Resize, MasterGoto, MemTypeOK, wordVars, bitVars
  <2>9. RequestPlace' /\ RoundPlace'
    BY <1>3 DEF Resize, MasterGoto, RequestPlace, RoundPlace
  <2> QED
    BY <2>8, <2>9
<1>4. CASE PropertyFromBin
  <2>1. mplace \in Places /\ mplace' \in 0 .. MaxChain /\ mprop \in Props
    BY <1>4 DEF PropertyFromBin, RoundPlace, MemTypeOK, Places
  <2>2. heap' \subseteq Memory /\ field' \in [PropertyMemory -> PropertyMemory \cup {Null}]
    BY <1>4, <2>1, ReplacedTypes DEF PropertyFromBin
  <2>3. hptr' \in PropertyMemory \cup {Null, Freed}
    BY <1>4, StaysPointer DEF PropertyFromBin, MemTypeOK
  <2>4. MemTypeOK'
    BY <1>4, <2>1, <2>2, <2>3 DEF PropertyFromBin, MemTypeOK, wordVars, bitVars, history
  <2>5. RequestPlace' /\ RoundPlace'
    BY <1>4 DEF PropertyFromBin, RequestPlace, RoundPlace
  <2> QED
    BY <2>4, <2>5
<1>5. CASE PropertyLoaded
  <2>1. mplace \in Places /\ mplace + 1 \in 0 .. MaxChain /\ mprop \in Props
    BY <1>5 DEF PropertyLoaded, RoundPlace, MemTypeOK, Places
  <2>2. /\ UNCHANGED <<modelVars, wordVars, bitVars, requestVars, mprop, history>>
        /\ (mpc' = "toBin" /\ mptr' = field[<<mplace, mprop>>] /\ mplace' = mplace)
           \/ (mpc' = "load" /\ mptr' = mptr /\ mplace' = mplace + 1)
    BY <1>5 DEF PropertyLoaded
  <2>3. mptr' \in PropertyMemory \cup {Null, Freed} /\ mplace' \in 0 .. MaxChain
    <3>1. field[<<mplace, mprop>>] \in PropertyMemory \cup {Null}
      BY <2>1 DEF MemTypeOK
    <3> QED
      BY <2>1, <2>2, <3>1 DEF MemTypeOK
  <2>4. MemTypeOK'
    BY <2>2, <2>3 DEF MemTypeOK, modelVars, wordVars, bitVars, requestVars, history
  <2>5. RequestPlace' /\ RoundPlace'
    BY <2>1, <2>2 DEF RequestPlace, RoundPlace, requestVars
  <2> QED
    BY <2>4, <2>5
<1>6. CASE PropertyToBin
  <2>1. mplace' \in 0 .. MaxChain
    BY <1>6 DEF PropertyToBin, MasterGoto, RoundPlace, MemTypeOK, Places
  <2>2. MemTypeOK'
    BY <1>6, <2>1 DEF PropertyToBin, MasterGoto, MemTypeOK, modelVars, wordVars, bitVars, requestVars, history
  <2>3. RequestPlace' /\ RoundPlace'
    BY <1>6 DEF PropertyToBin, MasterGoto, RequestPlace, RoundPlace, requestVars
  <2> QED
    BY <2>2, <2>3
<1>7. CASE PropertyEnds
  <2>1. mprop' \in 0 .. PropCnt /\ flagged' \subseteq PropertyMemory
    BY <1>7 DEF PropertyEnds, MasterGoto, RoundPlace, MemTypeOK, Props
  <2>2. MemTypeOK'
    BY <1>7, <2>1 DEF PropertyEnds, MasterGoto, MemTypeOK, bitVars, requestVars, history
  <2>3. RequestPlace' /\ RoundPlace'
    BY <1>7 DEF PropertyEnds, MasterGoto, RequestPlace, RoundPlace, requestVars
  <2> QED
    BY <2>2, <2>3
<1> QED
  BY <1>1, <1>2, <1>3, <1>4, <1>5, <1>6, <1>7 DEF Round

(* Memory that is replaced is pointed to like the old; nothing is lost.    *)
LEMMA ReplacedPointed ==
  ASSUME MemTypeOK, Pointed, NEW i \in Places, NEW k \in Props, mods[i] # Null,
         Replaced(i, k) \/ NoMemory, UNCHANGED <<count, mods>>
  PROVE  /\ Pointed'
         /\ \A p \in PropertyMemory : field[p] # Null => field'[p] # Null
         /\ Replaced(i, k) => field'[<<i, k>>] # Null
<1> USE MemKinds
<1>1. CASE NoMemory /\ ~Replaced(i, k)
  BY <1>1 DEF NoMemory, Pointed
<1>2. CASE Replaced(i, k)
  <2>1. /\ heap' = heap \cup {<<i, k>>} /\ <<i, k>> \in PropertyMemory
        /\ \A p \in PropertyMemory : field'[p] = IF p = <<i, k>> THEN <<i, k>> ELSE field[p]
    BY <1>2 DEF Replaced, MemTypeOK
  <2>2. \A j \in Places : Module(j) # <<i, k>>
    BY <2>1
  <2> QED
    BY <2>1, <2>2 DEF Pointed
<1> QED
  BY <1>1, <1>2

LEMMA OnceOverlapped ==
  ASSUME MemTypeOK, Request \/ Round
  PROVE  (~overlapped' => ~overlapped) /\ (~starved' => ~starved)
<1>1. CASE Request
  BY <1>1 DEF Request, RequestBegins, ModuleGet, PropertyGet, PropertyToJson, ModuleDone, PropertyFromJson,
    PageSet, LoopEnds, ClearSync, SetDesync, RoundAwaited, WaitExpires, NoMemory, history, MemTypeOK
<1>2. CASE Round
  BY <1>2 DEF Round, RoundBegins, PropertyBegins, Resize, ResizeTo, PropertyFromBin, PropertyLoaded,
    PropertyToBin, PropertyEnds, PropertyGivenUp, PropertiesDone, RoundEnds, history, MemTypeOK
<1> QED
  BY <1>1, <1>2

(* The HTTP task meets memory only between rounds, and there it is whole.  *)
LEMMA RequestIsSafe ==
  ASSUME MemInv, Request, ~overlapped'
  PROVE  Turn' /\ Pointed' /\ Held' /\ (~starved' => Marked' /\ Filled')
<1>0. /\ ~overlapped /\ (~starved' => ~starved) /\ MemTypeOK /\ RequestPlace /\ RoundPlace
      /\ Turn /\ Pointed /\ Held /\ (~starved => Marked /\ Filled)
  BY OnceOverlapped DEF MemInv, MemPlaces
<1> USE MemKinds
<1>1. ASSUME NEW o \in {"get", "post", "put"}, RequestBegins(o)
      PROVE  Turn' /\ Pointed' /\ Held' /\ (~starved' => Marked' /\ Filled')
  <2>1. /\ dpc = "idle" /\ op = "none" /\ mpc = "parked" /\ ~desync /\ mprop = 0 /\ mplace = 0
        /\ UNCHANGED <<count, mods, field, heap, flagged, desync, sync, place, hmod, hptr, mpc, mplace, mprop, mptr, starved>>
        /\ op' = o /\ (o = "get" => dpc' = "clear" /\ reads' = ReadProps)
        /\ (o # "get" => dpc' = "next" /\ reads' = reads)
    BY <1>0, <1>1 DEF RequestBegins, RequestPlace, RoundPlace, modelVars, bitVars, masterVars
  <2>2. Turn' /\ Pointed' /\ Held'
    BY <1>0, <2>1 DEF Turn, Pointed, Held
  <2>3. ~starved' => Marked' /\ Filled'
    <3>1. ReadProps = {k \in ReadProps : k >= 0}
      BY DEF Props
    <3> QED
      BY <1>0, <2>1, <3>1 DEF Marked, Filled
  <2> QED
    BY <2>2, <2>3
<1>2. CASE ModuleGet
  <2>1. /\ dpc = "next" /\ dpc' = "use" /\ mpc = "parked" /\ place' \in Places /\ place' < count
        /\ hmod' = mods[place'] /\ hptr = Null
        /\ UNCHANGED <<modelVars, wordVars, bitVars, op, hptr, masterVars, history>>
    BY <1>0, <1>2 DEF ModuleGet, RequestGoto, Turn, Held, Places, MemTypeOK
  <2>2. Turn' /\ Pointed' /\ Held'
    BY <1>0, <2>1 DEF Turn, Pointed, Held, modelVars, bitVars, masterVars
  <2>3. ~starved' => Marked' /\ Filled'
    BY <1>0, <2>1 DEF Marked, Filled, modelVars, wordVars, bitVars, masterVars, history
  <2> QED
    BY <2>2, <2>3
<1>3. CASE PropertyGet
  <2>1. /\ dpc = "use" /\ dpc' = "convert" /\ mpc = "parked" /\ place \in Places /\ place < count
        /\ hmod = mods[place] /\ hmod \in ModuleMemory /\ hptr' = field[<<hmod[1], prop'>>]
        /\ UNCHANGED <<modelVars, wordVars, bitVars, op, place, hmod, masterVars, history>>
    BY <1>0, <1>3 DEF PropertyGet, RequestGoto, RequestPlace, Turn, Held
  <2>2. hmod[1] = place /\ hmod # Null
    BY <1>0, <2>1 DEF Pointed
  <2>3. Turn' /\ Pointed' /\ Held'
    BY <1>0, <2>1, <2>2 DEF Turn, Pointed, Held, modelVars, bitVars, masterVars
  <2>4. ~starved' => Marked' /\ Filled'
    BY <1>0, <2>1 DEF Marked, Filled, modelVars, wordVars, bitVars, masterVars, history
  <2> QED
    BY <2>3, <2>4
<1>4. CASE PropertyToJson \/ ModuleDone
  <2>1. /\ dpc \in {"use", "convert"} /\ dpc' \in {"use", "next"} /\ mpc = "parked" /\ op = "get" /\ hptr' = Null
        /\ (dpc' = "use" => UNCHANGED <<place, hmod>> /\ dpc = "convert") /\ (dpc' = "next" => hmod' = Null)
        /\ UNCHANGED <<modelVars, wordVars, bitVars, op, masterVars, history>>
    BY <1>0, <1>4 DEF PropertyToJson, ModuleDone, RequestGoto, Turn, Held
  <2>2. Turn' /\ Pointed' /\ Held'
    BY <1>0, <2>1 DEF Turn, Pointed, Held, modelVars, bitVars, masterVars
  <2>3. ~starved' => Marked' /\ Filled'
    BY <1>0, <2>1 DEF Marked, Filled, modelVars, wordVars, bitVars, masterVars, history
  <2> QED
    BY <2>2, <2>3
<1>5. CASE PropertyFromJson
  <2>1. /\ dpc = "convert" /\ dpc' = "next" /\ mpc = "parked" /\ place \in Places /\ prop \in Props
        /\ hmod = mods[place] /\ hmod # Null /\ mptr = Null /\ hmod' = Null /\ hptr' = Null
        /\ hptr \in PropertyMemory /\ mptr' \in {mptr, After(mptr, {hptr})}
        /\ UNCHANGED <<count, mods, reads, desync, sync, op, mpc, mplace, mprop>>
    BY <1>0, <1>5 DEF PropertyFromJson, RequestGoto, RequestPlace, Turn, Held, bitVars
  <2>2. mptr' = Null
    BY <2>1 DEF After
  <2>3. /\ Replaced(place, prop) \/ NoMemory
        /\ flagged' = flagged \/ (Replaced(place, prop) /\ flagged' = flagged \cup {<<place, prop>>})
    BY <1>5 DEF PropertyFromJson
  <2>4. /\ Pointed' /\ \A p \in PropertyMemory : field[p] # Null => field'[p] # Null
        /\ Replaced(place, prop) => field'[<<place, prop>>] # Null
    BY <1>0, <2>1, <2>3, ReplacedPointed
  <2>5. Turn' /\ Held'
    BY <1>0, <2>1, <2>2 DEF Turn, Held
  <2>6. ~starved' => Marked' /\ Filled'
    <3>1. \A p \in flagged' : p \in flagged \/ field'[p] # Null
      BY <2>3, <2>4
    <3>2. flagged \subseteq PropertyMemory
      BY <1>0 DEF MemTypeOK
    <3> QED
      BY <1>0, <2>1, <2>4, <3>1, <3>2 DEF Marked, Filled
  <2> QED
    BY <2>4, <2>5, <2>6
<1>6. CASE PageSet
  <2>1. /\ dpc = "use" /\ dpc' = "next" /\ mpc = "parked" /\ place \in Places
        /\ hmod = mods[place] /\ hmod \in ModuleMemory /\ mptr = Null /\ hmod' = Null /\ hptr' = hptr /\ hptr = Null
        /\ UNCHANGED <<count, mods, reads, desync, sync, op, mpc, mplace, mprop>>
    BY <1>0, <1>6 DEF PageSet, RequestGoto, RequestPlace, Turn, Held, bitVars
  <2>2. PICK k \in PutProps :
          /\ (Replaced(place, k) /\ mptr' = After(mptr, {field[<<place, k>>]} \ {Null}) /\ UNCHANGED starved)
             \/ (NoMemory /\ UNCHANGED mptr)
          /\ flagged' = flagged \cup {<<place, k>>}
    BY <1>6 DEF PageSet
  <2>3. mptr' = Null
    BY <2>1, <2>2 DEF After
  <2>4. /\ Pointed' /\ \A p \in PropertyMemory : field[p] # Null => field'[p] # Null
        /\ Replaced(place, k) => field'[<<place, k>>] # Null
    BY <1>0, <2>1, <2>2, ReplacedPointed
  <2>5. Turn' /\ Held'
    BY <1>0, <2>1, <2>3 DEF Turn, Held
  <2>6. ~starved' => Marked' /\ Filled'
    <3>1. ~starved' => \A p \in flagged' : p \in flagged \/ field'[p] # Null
      BY <2>2, <2>4 DEF NoMemory
    <3>2. flagged \subseteq PropertyMemory
      BY <1>0 DEF MemTypeOK
    <3> QED
      BY <1>0, <2>1, <2>4, <3>1, <3>2 DEF Marked, Filled
  <2> QED
    BY <2>4, <2>5, <2>6
<1>7. CASE LoopEnds \/ WaitExpires
  <2>1. /\ dpc \in {"next", "wait"} /\ (dpc = "next" => mpc = "parked" /\ ~desync)
        /\ RequestOver \/ (dpc = "next" /\ dpc' = "clear" /\ UNCHANGED <<op, hmod, hptr>>)
        /\ UNCHANGED <<modelVars, wordVars, bitVars, masterVars, history>>
    BY <1>0, <1>7 DEF LoopEnds, WaitExpires, Turn
  <2>2. Turn' /\ Pointed' /\ Held'
    BY <1>0, <2>1 DEF Turn, Pointed, Held, RequestOver, modelVars, bitVars, masterVars
  <2>3. ~starved' => Marked' /\ Filled'
    BY <1>0, <2>1 DEF Marked, Filled, RequestOver, modelVars, wordVars, bitVars, masterVars, history
  <2> QED
    BY <2>2, <2>3
<1>8. CASE ClearSync
  <2>1. Turn' /\ Pointed' /\ Held'
    BY <1>0, <1>8 DEF ClearSync, RequestGoto, Turn, Pointed, Held, modelVars, masterVars
  <2>2. ~starved' => Marked' /\ Filled'
    BY <1>0, <1>8 DEF ClearSync, RequestGoto, Marked, Filled, modelVars, wordVars, masterVars, history
  <2> QED
    BY <2>1, <2>2
<1>9. CASE SetDesync
  <2>1. Turn' /\ Pointed' /\ Held'
    BY <1>0, <1>9 DEF SetDesync, RequestGoto, Turn, Pointed, Held, modelVars, masterVars
  <2>2. ~starved' => Marked' /\ Filled'
    BY <1>0, <1>9 DEF SetDesync, RequestGoto, Marked, Filled, modelVars, wordVars, masterVars, history
  <2> QED
    BY <2>1, <2>2
<1>10. CASE RoundAwaited
  <2>1. /\ dpc = "wait" /\ mpc = "parked" /\ ~desync /\ UNCHANGED <<modelVars, wordVars, desync, masterVars, history>>
        /\ RequestOver \/ (dpc' = "next" /\ UNCHANGED <<op, hmod, hptr>>)
    BY <1>0, <1>10 DEF RoundAwaited, Turn
  <2>2. Turn' /\ Pointed' /\ Held'
    BY <1>0, <2>1 DEF Turn, Pointed, Held, RequestOver, modelVars, masterVars
  <2>3. ~starved' => Marked' /\ Filled'
    BY <1>0, <2>1 DEF Marked, Filled, RequestOver, modelVars, wordVars, masterVars, history
  <2> QED
    BY <2>2, <2>3
<1> QED
  BY <1>1, <1>2, <1>3, <1>4, <1>5, <1>6, <1>7, <1>8, <1>9, <1>10 DEF Request

(* What is freed when the display gets shorter: all that the modules from  *)
(* chain on are and point to.                                              *)
Cut(chain) == UNION {OwnedBy(mods[i]) : i \in chain .. count - 1}

LEMMA CutOff ==
  ASSUME MemTypeOK, Pointed, NEW chain \in 0 .. MaxChain
  PROVE  /\ \A i \in Places : Module(i) \in Cut(chain) <=> i >= chain /\ mods[i] # Null
         /\ \A p \in PropertyMemory : p \in Cut(chain) <=> p[1] >= chain /\ field[p] # Null
         /\ Null \notin Cut(chain)
<1> USE MemKinds
<1>1. count \in 0 .. MaxChain /\ chain \in Nat
  BY DEF MemTypeOK
<1>2. \A i \in Places : i >= count => mods[i] = Null
  BY DEF Pointed
<1>3. \A i \in chain .. count - 1 : i \in Places
  BY <1>1 DEF Places
<1>4. \A i \in Places : OwnedBy(mods[i]) =
        IF mods[i] = Null THEN {} ELSE {Module(i)} \cup {p \in PropertyMemory : p[1] = i /\ field[p] # Null}
  <2> SUFFICES ASSUME NEW i \in Places, mods[i] # Null
               PROVE  OwnedBy(mods[i]) = {Module(i)} \cup {p \in PropertyMemory : p[1] = i /\ field[p] # Null}
    BY DEF OwnedBy
  <2>1. mods[i] = Module(i) /\ mods[i][1] = i
    BY DEF Pointed
  <2>2. OwnedBy(mods[i]) = {Module(i)} \cup ({field[<<i, k>>] : k \in Props} \ {Null})
    BY <2>1 DEF OwnedBy
  <2>3. \A k \in Props : field[<<i, k>>] \in {<<i, k>>, Null}
    BY DEF Pointed
  <2>4. ASSUME NEW q \in {field[<<i, k>>] : k \in Props} \ {Null}
        PROVE  q \in PropertyMemory /\ q[1] = i /\ field[q] # Null
    <3>1. PICK k \in Props : q = field[<<i, k>>] /\ q # Null
      BY <2>4
    <3>2. q = <<i, k>> /\ <<i, k>> \in PropertyMemory /\ <<i, k>>[1] = i
      BY <2>3, <3>1
    <3> QED
      BY <3>1, <3>2
  <2>5. ASSUME NEW q \in PropertyMemory, q[1] = i, field[q] # Null
        PROVE  q \in {field[<<i, k>>] : k \in Props} \ {Null}
    <3>1. q = <<i, q[2]>> /\ q[2] \in Props /\ field[q] = q
      BY <2>5 DEF Pointed
    <3> QED
      BY <2>5, <3>1
  <2> QED
    BY <2>2, <2>4, <2>5
<1>5. ASSUME NEW q \in Cut(chain)
      PROVE  \/ \E i \in Places : q = Module(i) /\ i >= chain /\ mods[i] # Null
             \/ q \in PropertyMemory /\ q[1] >= chain /\ field[q] # Null
  <2>1. PICK i \in chain .. count - 1 : q \in OwnedBy(mods[i])
    BY DEF Cut
  <2>2. i \in Places /\ i >= chain /\ mods[i] # Null
    BY <1>1, <1>3, <2>1 DEF OwnedBy
  <2>3. q \in {Module(i)} \cup {p \in PropertyMemory : p[1] = i /\ field[p] # Null}
    BY <1>4, <2>1, <2>2
  <2> QED
    BY <2>2, <2>3
<1>6. ASSUME NEW i \in Places, i >= chain, mods[i] # Null
      PROVE  OwnedBy(mods[i]) \subseteq Cut(chain)
  <2>1. i \in chain .. count - 1
    BY <1>1, <1>2, <1>6 DEF Places
  <2> QED
    BY <2>1 DEF Cut
<1>7. \A i \in Places : Module(i) \in Cut(chain) <=> i >= chain /\ mods[i] # Null
  <2> TAKE i \in Places
  <2>1. ASSUME Module(i) \in Cut(chain) PROVE i >= chain /\ mods[i] # Null
    <3>1. Module(i) \notin PropertyMemory
      OBVIOUS
    <3>2. PICK j \in Places : Module(i) = Module(j) /\ j >= chain /\ mods[j] # Null
      BY <1>5, <2>1, <3>1
    <3>3. j = i
      BY <3>2 DEF Module
    <3> QED
      BY <3>2, <3>3
  <2>2. ASSUME i >= chain, mods[i] # Null PROVE Module(i) \in Cut(chain)
    BY <1>4, <1>6, <2>2
  <2> QED
    BY <2>1, <2>2
<1>8. \A p \in PropertyMemory : p \in Cut(chain) <=> p[1] >= chain /\ field[p] # Null
  <2> TAKE p \in PropertyMemory
  <2>1. ASSUME p \in Cut(chain) PROVE p[1] >= chain /\ field[p] # Null
    <3>1. \A i \in Places : p # Module(i)
      OBVIOUS
    <3> QED
      BY <1>5, <2>1, <3>1
  <2>2. ASSUME p[1] >= chain, field[p] # Null PROVE p \in Cut(chain)
    <3>1. p[1] \in Places /\ mods[p[1]] # Null
      BY <2>2 DEF Pointed
    <3> QED
      BY <1>4, <1>6, <2>2, <3>1
  <2> QED
    BY <2>1, <2>2
<1>9. Null \notin Cut(chain)
  BY <1>5
<1> QED
  BY <1>7, <1>8, <1>9

(* The display after it was resized.                                       *)
LEMMA Resized ==
  ASSUME MemTypeOK, RoundPlace, Pointed, NEW chain \in 0 .. MaxChain, NEW fails \in SUBSET (count .. chain - 1),
         ResizeTo(chain, fails)
  PROVE  /\ Pointed'
         /\ \A i \in Places : i < count' => mods'[i] # Null \/ i \in fails \/ (i < count /\ mods[i] = Null)
         /\ \A p \in PropertyMemory : p[1] < count' /\ p[1] < count => field'[p] = field[p]
         /\ \A p \in flagged' : p \in flagged /\ (field[p] # Null => field'[p] # Null)
<1> USE MemKinds
<1> DEFINE new == (count .. chain - 1) \ fails
<1>1. /\ count' = chain /\ chain \in Nat /\ count \in Nat /\ flagged' = {p \in flagged : Module(p[1]) \notin Cut(chain)}
      /\ heap' = (heap \ Cut(chain)) \cup {Module(i) : i \in new}
      /\ \A i \in Places : mods'[i] = IF i \in new THEN Module(i) ELSE IF i >= chain THEN Null ELSE mods[i]
      /\ \A p \in PropertyMemory : field'[p] = IF Module(p[1]) \in Cut(chain) THEN Null ELSE field[p]
  BY DEF ResizeTo, Cut, MemTypeOK
<1>2. /\ new \subseteq Places /\ \A i \in new : i >= count /\ i < chain
      /\ \A i \in Places : i \in new <=> i >= count /\ i < chain /\ i \notin fails
  <2>1. chain <= MaxChain
    OBVIOUS
  <2> QED
    BY <1>1, <2>1 DEF Places
<1> HIDE DEF new
<1>3. /\ \A i \in Places : Module(i) \in Cut(chain) <=> i >= chain /\ mods[i] # Null
      /\ \A p \in PropertyMemory : p \in Cut(chain) <=> p[1] >= chain /\ field[p] # Null
  BY CutOff
<1>4. \A i, j \in Places : Module(i) = Module(j) => i = j
  BY DEF Module
<1>5. ASSUME NEW i \in Places
      PROVE  /\ mods'[i] \in {Module(i), Null}
             /\ i >= count' => mods'[i] = Null
             /\ Module(i) \in heap' <=> mods'[i] # Null
  <2>1. /\ mods[i] \in {Module(i), Null} /\ (i >= count => mods[i] = Null)
        /\ Module(i) \in heap <=> mods[i] # Null
    BY DEF Pointed
  <2>2. Module(i) \in {Module(j) : j \in new} <=> i \in new
    BY <1>2, <1>4
  <2>3. i \in Nat /\ Module(i) # Null
    OBVIOUS
  <2> QED
    BY <1>1, <1>2, <1>3, <2>1, <2>2, <2>3
<1>6. ASSUME NEW p \in PropertyMemory
      PROVE  /\ field'[p] \in {p, Null}
             /\ mods'[p[1]] = Null => field'[p] = Null
             /\ p \in heap' <=> field'[p] # Null
  <2>1. field[p] \in {p, Null} /\ (mods[p[1]] = Null => field[p] = Null) /\ (p \in heap <=> field[p] # Null)
    BY DEF Pointed
  <2>2. p \notin {Module(j) : j \in new} /\ p[1] \in Places /\ p[1] \in Nat
    BY <1>2
  <2>3. mods'[p[1]] = Null => mods[p[1]] = Null \/ p[1] >= chain
    BY <1>1, <2>2
  <2> QED
    BY <1>1, <1>2, <1>3, <2>1, <2>2, <2>3
<1>7. Pointed'
  BY <1>5, <1>6 DEF Pointed
<1>8. \A i \in Places : i < count' => mods'[i] # Null \/ i \in fails \/ (i < count /\ mods[i] = Null)
  <2> SUFFICES ASSUME NEW i \in Places, i < count', i \notin fails, ~(i < count /\ mods[i] = Null)
               PROVE  mods'[i] # Null
    OBVIOUS
  <2>1. i \in Nat /\ Module(i) # Null
    OBVIOUS
  <2> QED
    BY <1>1, <1>2, <2>1
<1>9. \A p \in PropertyMemory : p[1] < count' /\ p[1] < count => field'[p] = field[p]
  BY <1>1, <1>3
<1>10. \A p \in flagged' : p \in flagged /\ (field[p] # Null => field'[p] # Null)
  <2>1. flagged \subseteq PropertyMemory
    BY DEF MemTypeOK
  <2> QED
    BY <1>1, <2>1
<1> QED
  BY <1>7, <1>8, <1>9, <1>10

(* A round leaves the display whole, and frees nothing a request has.      *)
LEMMA RoundIsSafe ==
  ASSUME MemInv, Round, ~overlapped'
  PROVE  Turn' /\ Pointed' /\ Held' /\ (~starved' => Marked' /\ Filled')
<1>0. /\ ~overlapped /\ (~starved' => ~starved) /\ MemTypeOK /\ RequestPlace /\ RoundPlace
      /\ Turn /\ Pointed /\ Held /\ (~starved => Marked /\ Filled)
  BY OnceOverlapped DEF MemInv, MemPlaces
<1> USE MemKinds
<1>1. CASE RoundBegins
  <2>1. /\ mpc = "parked" /\ mpc' = "decide" /\ desync /\ ~desync'
        /\ UNCHANGED <<modelVars, wordVars, sync, requestVars, mplace, mprop, mptr, history>>
    BY <1>1 DEF RoundBegins, MasterGoto
  <2>2. Turn' /\ Pointed' /\ Held'
    BY <1>0, <2>1 DEF Turn, Pointed, Held, modelVars, requestVars
  <2>3. ~starved' => Marked' /\ Filled'
    BY <1>0, <2>1 DEF Marked, Filled, modelVars, wordVars, requestVars, history
  <2> QED
    BY <2>2, <2>3
<1>2. CASE PropertyBegins
  <2>1. /\ mpc = "decide" /\ mprop \in Props /\ dpc \in {"idle", "wait"} /\ ~desync
        /\ UNCHANGED <<modelVars, wordVars, bitVars, requestVars, mplace, mptr, history>>
        /\ \/ mprop \in reads /\ mpc' = "resize" /\ mprop' = mprop
           \/ mprop \notin reads /\ mpc' = "load" /\ mprop' = mprop
           \/ mprop \notin reads /\ mpc' = "decide" /\ mprop' = mprop + 1
    BY <1>0, <1>2 DEF PropertyBegins, Turn, MemTypeOK, Props
  <2>2. Turn' /\ Pointed' /\ Held'
    BY <1>0, <2>1 DEF Turn, Pointed, Held, modelVars, bitVars, requestVars
  <2>3. ~starved' => Marked' /\ Filled'
    <3>1. mprop \notin reads /\ reads = {k \in ReadProps : k >= mprop} => reads = {k \in ReadProps : k >= mprop + 1}
      BY <2>1
    <3> QED
      BY <1>0, <2>1, <3>1 DEF Marked, Filled, modelVars, wordVars, bitVars, requestVars, history
  <2> QED
    BY <2>2, <2>3
<1>3. CASE Resize
  <2>1. PICK chain, fails :
          chain \in 0 .. MaxChain /\ fails \in SUBSET (count .. chain - 1) /\ ResizeTo(chain, fails)
    BY <1>3 DEF Resize
  <2>2. /\ mpc = "resize" /\ mpc' = "set" /\ mprop \in Props /\ mplace = 0 /\ mprop' = mprop /\ mplace' = mplace
        /\ dpc \in {"idle", "wait"} /\ ~desync /\ hmod = Null /\ hptr = Null /\ mptr = Null
        /\ UNCHANGED <<wordVars, bitVars, op, dpc, place, prop, mptr, overlapped>>
    BY <1>0, <1>3 DEF Resize, MasterGoto, RoundPlace, Turn, Held
  <2>3. /\ Pointed'
        /\ \A i \in Places : i < count' => mods'[i] # Null \/ i \in fails \/ (i < count /\ mods[i] = Null)
        /\ \A p \in PropertyMemory : p[1] < count' /\ p[1] < count => field'[p] = field[p]
        /\ \A p \in flagged' : p \in flagged /\ (field[p] # Null => field'[p] # Null)
    BY <1>0, <2>1, Resized
  <2>4. hmod' = Null /\ hptr' = Null
    <3>1. hmod' = After(hmod, Cut(chain)) /\ hptr' = After(hptr, Cut(chain)) /\ Null \notin Cut(chain)
      BY <1>0, <2>1, CutOff DEF ResizeTo, Cut
    <3> QED
      BY <2>2, <3>1 DEF After
  <2>5. Turn' /\ Held'
    BY <1>0, <2>2, <2>4 DEF Turn, Held, bitVars
  <2>6. ASSUME ~starved' PROVE Marked' /\ Filled'
    <3>1. /\ fails = {} /\ count' = chain /\ count \in Nat /\ chain \in Nat
          /\ chain # count => \A k \in ReadProps : ~(k < mprop)
      <4>1. starved' = (starved \/ fails # {} \/ (chain # count /\ \E k \in ReadProps : k < mprop))
        BY <2>1 DEF ResizeTo
      <4>2. count' = chain
        BY <2>1 DEF ResizeTo
      <4>3. count \in Nat
        BY <1>0 DEF MemTypeOK
      <4>4. fails = {} /\ (chain # count => \A k \in ReadProps : ~(k < mprop))
        BY <2>6, <4>1, Zenon
      <4> QED
        BY <2>1, <4>2, <4>3, <4>4
    <3>2. Marked /\ Filled /\ mprop \in reads /\ reads' = reads
      BY <1>0, <2>2, <2>6 DEF Marked, wordVars
    <3>3. Marked'
      BY <2>2, <3>2 DEF Marked, wordVars, bitVars
    <3>4. chain # count => ReadProps \subseteq reads
      BY <3>1, <3>2, <2>2 DEF Marked
    <3>5. ASSUME NEW i \in Places, i < count'
          PROVE  mods'[i] # Null /\ \A k \in ReadProps \ reads' : field'[<<i, k>>] # Null
      <4>1. mods'[i] # Null
        BY <2>3, <3>1, <3>2, <3>5 DEF Filled
      <4>2. ASSUME NEW k \in ReadProps \ reads' PROVE field'[<<i, k>>] # Null
        <5>1. chain = count /\ i < count /\ <<i, k>> \in PropertyMemory /\ <<i, k>>[1] = i
          BY <3>1, <3>2, <3>4, <3>5
        <5>2. field'[<<i, k>>] = field[<<i, k>>]
          BY <2>3, <3>5, <5>1
        <5> QED
          BY <3>2, <5>1, <5>2 DEF Filled
      <4> QED
        BY <4>1, <4>2
    <3>6. \A p \in flagged' : field'[p] # Null
      BY <2>3, <3>2 DEF Filled
    <3>7. Filled'
      BY <2>2, <3>5, <3>6 DEF Filled
    <3> QED
      BY <3>3, <3>7
  <2> QED
    BY <2>3, <2>5, <2>6
<1>4. CASE PropertyFromBin
  <2>1. /\ mpc = "set" /\ mpc' = "set" /\ mplace < count /\ mods[mplace] # Null /\ mplace \in Places /\ mprop \in Props
        /\ Replaced(mplace, mprop) /\ hptr' = After(hptr, {field[<<mplace, mprop>>]} \ {Null})
        /\ mplace' = mplace + 1 /\ hptr = Null /\ dpc \in {"idle", "wait"}
        /\ UNCHANGED <<count, mods, flagged, wordVars, bitVars, op, dpc, place, prop, hmod, mpc, mprop, mptr, history>>
    BY <1>0, <1>4 DEF PropertyFromBin, RoundPlace, Turn, Held, Places, MemTypeOK
  <2>2. hptr' = Null
    BY <2>1 DEF After
  <2>3. /\ Pointed' /\ \A p \in PropertyMemory : field[p] # Null => field'[p] # Null
        /\ field'[<<mplace, mprop>>] # Null
    BY <1>0, <2>1, ReplacedPointed
  <2>4. Turn' /\ Held'
    BY <1>0, <2>1, <2>2 DEF Turn, Held, bitVars
  <2>5. ~starved' => Marked' /\ Filled'
    <3>1. \A i \in Places : i < mplace' => i < mplace \/ i = mplace
      BY <2>1
    <3>2. flagged \subseteq PropertyMemory
      BY <1>0 DEF MemTypeOK
    <3>3. \A i \in Places : <<i, mprop>> \in PropertyMemory
      BY <2>1
    <3> QED
      BY <1>0, <2>1, <2>3, <3>1, <3>2, <3>3 DEF Marked, Filled, wordVars, bitVars, history
  <2> QED
    BY <2>3, <2>4, <2>5
<1>5. CASE PropertyLoaded
  <2>1. /\ mpc = "load" /\ mpc' \in {"load", "toBin"} /\ mprop' = mprop
        /\ (mpc' = "toBin" => <<mplace, mprop>> \in flagged /\ mptr' = field[<<mplace, mprop>>] /\ mplace' = mplace)
        /\ (mpc' = "load" => mptr' = mptr)
        /\ UNCHANGED <<modelVars, wordVars, bitVars, requestVars, mprop, history>>
    BY <1>5 DEF PropertyLoaded
  <2>2. Turn' /\ Pointed' /\ Held'
    BY <1>0, <2>1 DEF Turn, Pointed, Held, modelVars, bitVars, requestVars
  <2>3. ~starved' => Marked' /\ Filled'
    BY <1>0, <2>1 DEF Marked, Filled, modelVars, wordVars, bitVars, requestVars, history
  <2> QED
    BY <2>2, <2>3
<1>6. CASE PropertyToBin
  <2>1. Turn' /\ Pointed' /\ Held'
    BY <1>0, <1>6 DEF PropertyToBin, MasterGoto, Turn, Pointed, Held, modelVars, bitVars, requestVars
  <2>2. ~starved' => Marked' /\ Filled'
    BY <1>0, <1>6 DEF PropertyToBin, MasterGoto, Marked, Filled, modelVars, wordVars, bitVars, requestVars, history
  <2> QED
    BY <2>1, <2>2
<1>7. CASE PropertyEnds
  <2>1. /\ mpc \in {"set", "load"} /\ mpc' = "decide" /\ mplace = count /\ mprop \in Props /\ mprop' = mprop + 1
        /\ reads' = reads \ {mprop} /\ flagged' \subseteq flagged
        /\ UNCHANGED <<count, mods, field, heap, bitVars, requestVars, mptr, history>>
    BY <1>0, <1>7 DEF PropertyEnds, MasterGoto, RoundPlace
  <2>2. Turn' /\ Pointed' /\ Held'
    BY <1>0, <2>1 DEF Turn, Pointed, Held, bitVars, requestVars
  <2>3. ASSUME ~starved' PROVE Marked' /\ Filled'
    <3>1. Marked /\ Filled /\ dpc \in {"idle", "wait"}
      BY <1>0, <2>1, <2>3 DEF Turn
    <3>2. {k \in ReadProps : k >= mprop} \ {mprop} = {k \in ReadProps : k >= mprop + 1}
      BY <2>1
    <3>3. Marked'
      BY <2>1, <3>1, <3>2 DEF Marked, bitVars, requestVars
    <3>4. ASSUME NEW i \in Places, i < count, NEW k \in ReadProps \ reads'
          PROVE  field[<<i, k>>] # Null
      <4>1. CASE k \in reads
        <5>1. k = mprop /\ mpc = "set"
          BY <2>1, <3>1, <3>4, <4>1 DEF Marked
        <5> QED
          BY <2>1, <3>1, <3>4, <5>1 DEF Filled
      <4>2. CASE k \notin reads
        BY <3>1, <3>4, <4>2 DEF Filled
      <4> QED
        BY <4>1, <4>2
    <3>5. Filled'
      BY <2>1, <3>1, <3>4 DEF Filled, requestVars
    <3> QED
      BY <3>3, <3>5
  <2> QED
    BY <2>2, <2>3
<1>8. CASE PropertyGivenUp
  <2>1. Turn' /\ Pointed' /\ Held'
    BY <1>0, <1>8 DEF PropertyGivenUp, Turn, Pointed, Held, modelVars, bitVars, requestVars
  <2>2. starved'
    BY <1>8 DEF PropertyGivenUp
  <2> QED
    BY <2>1, <2>2
<1>9. CASE PropertiesDone
  <2>1. /\ mpc = "decide" /\ mpc' = "signal" /\ mprop = PropCnt /\ mprop' = 0
        /\ UNCHANGED <<modelVars, wordVars, bitVars, requestVars, mplace, mptr, history>>
    BY <1>9 DEF PropertiesDone, MasterGoto
  <2>2. Turn' /\ Pointed' /\ Held'
    BY <1>0, <2>1 DEF Turn, Pointed, Held, modelVars, bitVars, requestVars
  <2>3. ~starved' => Marked' /\ Filled'
    <3>1. {k \in ReadProps : k >= mprop} = {}
      BY <2>1 DEF Props
    <3> QED
      BY <1>0, <2>1, <3>1 DEF Marked, Filled, modelVars, wordVars, bitVars, requestVars, history
  <2> QED
    BY <2>2, <2>3
<1>10. CASE RoundEnds
  <2>1. /\ mpc = "signal" /\ mpc' = "parked" /\ dpc \in {"idle", "wait"} /\ ~desync
        /\ UNCHANGED <<modelVars, wordVars, desync, requestVars, mplace, mprop, mptr, history>>
    BY <1>0, <1>10 DEF RoundEnds, MasterGoto, Turn
  <2>2. Turn' /\ Pointed' /\ Held'
    BY <1>0, <2>1 DEF Turn, Pointed, Held, modelVars, requestVars
  <2>3. ~starved' => Marked' /\ Filled'
    BY <1>0, <2>1 DEF Marked, Filled, modelVars, wordVars, requestVars, history
  <2> QED
    BY <2>2, <2>3
<1> QED
  BY <1>1, <1>2, <1>3, <1>4, <1>5, <1>6, <1>7, <1>8, <1>9, <1>10 DEF Round

(* A display that has just been started, or lost, is empty.                *)
LEMMA EmptyIsSafe == MemInit => MemInv
<1> SUFFICES ASSUME MemInit PROVE MemInv
  OBVIOUS
<1> USE MemKinds DEF MemInit
<1>1. MemPlaces
  <2>1. 0 \in 0 .. MaxChain /\ 0 \in 0 .. PropCnt
    OBVIOUS
  <2>2. mods \in [Places -> ModuleMemory \cup {Null}] /\ field \in [PropertyMemory -> PropertyMemory \cup {Null}]
    OBVIOUS
  <2>3. MemTypeOK
    BY <2>1, <2>2 DEF MemTypeOK
  <2> QED
    BY <2>3 DEF MemPlaces, RequestPlace, RoundPlace
<1>2. Turn /\ Pointed /\ Held /\ Marked /\ Filled
  BY DEF Turn, Pointed, Held, Marked, Filled
<1> QED
  BY <1>1, <1>2 DEF MemInv

LEMMA DropIsSafe == MemDrop => MemInv'
<1> SUFFICES ASSUME MemDrop PROVE MemInv'
  OBVIOUS
<1> USE MemKinds DEF MemDrop
<1>1. MemPlaces'
  <2>1. 0 \in 0 .. MaxChain /\ 0 \in 0 .. PropCnt
    OBVIOUS
  <2>2. mods' \in [Places -> ModuleMemory \cup {Null}] /\ field' \in [PropertyMemory -> PropertyMemory \cup {Null}]
    OBVIOUS
  <2>3. MemTypeOK'
    BY <2>1, <2>2 DEF MemTypeOK
  <2> QED
    BY <2>3 DEF MemPlaces, RequestPlace, RoundPlace
<1>2. Turn' /\ Pointed' /\ Held' /\ Marked' /\ Filled'
  BY DEF Turn, Pointed, Held, Marked, Filled
<1> QED
  BY <1>1, <1>2 DEF MemInv

LEMMA MemStep == MemInv /\ [DisplayNext]_memVars => MemInv'
<1> SUFFICES ASSUME MemInv, [DisplayNext]_memVars PROVE MemInv'
  OBVIOUS
<1>1. CASE Request
  <2>1. MemPlaces'
    BY <1>1, RequestPlaces DEF MemInv
  <2> QED
    BY <1>1, <2>1, RequestIsSafe DEF MemInv
<1>2. CASE Round
  <2>1. MemPlaces'
    BY <1>2, RoundPlaces DEF MemInv
  <2> QED
    BY <1>2, <2>1, RoundIsSafe DEF MemInv
<1>3. CASE MemDrop
  BY <1>3, DropIsSafe
<1>4. CASE UNCHANGED memVars
  BY <1>4 DEF memVars, modelVars, wordVars, bitVars, requestVars, masterVars, history, MemInv, MemPlaces, MemTypeOK,
    RequestPlace, RoundPlace, Turn, Pointed, Held, Marked, Filled
<1> QED
  BY <1>1, <1>2, <1>3, <1>4 DEF DisplayNext

LEMMA MemInvariant == ControllerSpec => []MemInv
<1>1. ControllerInit => MemInv
  BY EmptyIsSafe DEF ControllerInit
<1>2. MemInv /\ [ControllerNext]_controllerVars => MemInv'
  BY ServiceView, MemStep
<1> QED
  BY <1>1, <1>2, PTL DEF ControllerSpec

(* What is allocated is what the modules own.                              *)
LEMMA HeapIsOwned ==
  ASSUME MemTypeOK, Pointed
  PROVE  heap = UNION {OwnedBy(mods[i]) : i \in Places}
<1> USE MemKinds
<1>1. count \in 0 .. MaxChain /\ \A i \in Places : i >= count => mods[i] = Null
  BY DEF MemTypeOK, Pointed
<1>2. UNION {OwnedBy(mods[i]) : i \in Places} = Cut(0)
  <2>1. \A i \in 0 .. count - 1 : i \in Places
    BY <1>1 DEF Places
  <2>2. \A i \in Places : i \notin 0 .. count - 1 => OwnedBy(mods[i]) = {}
    BY <1>1 DEF OwnedBy, Places
  <2> QED
    BY <2>1, <2>2 DEF Cut
<1>3. 0 \in 0 .. MaxChain /\ \A i \in Places : i >= 0
  OBVIOUS
<1>4. /\ \A i \in Places : Module(i) \in Cut(0) <=> mods[i] # Null
      /\ \A p \in PropertyMemory : p \in Cut(0) <=> field[p] # Null
  BY <1>3, CutOff
<1>5. /\ \A i \in Places : Module(i) \in Cut(0) <=> Module(i) \in heap
      /\ \A p \in PropertyMemory : p \in Cut(0) <=> p \in heap
  BY <1>4 DEF Pointed
<1>6. Cut(0) \subseteq Memory /\ heap \subseteq Memory
  <2>1. ASSUME NEW i \in Places, NEW q \in OwnedBy(mods[i])
        PROVE  q \in Memory
    <3>1. mods[i] \in ModuleMemory
      BY DEF OwnedBy, MemTypeOK
    <3>2. mods[i][1] \in Places /\ mods[i] # Null
      BY <3>1
    <3>3. q = mods[i] \/ (q # Null /\ \E k \in Props : q = field[<<mods[i][1], k>>])
      BY <3>2 DEF OwnedBy
    <3>4. ASSUME NEW k \in Props, q = field[<<mods[i][1], k>>], q # Null
          PROVE  q \in PropertyMemory
      <4>1. <<mods[i][1], k>> \in PropertyMemory
        BY <3>2
      <4> QED
        BY <3>4, <4>1 DEF MemTypeOK
    <3>5. CASE q = mods[i]
      BY <3>1, <3>5
    <3>6. CASE q # mods[i]
      BY <3>3, <3>4, <3>6
    <3> QED
      BY <3>5, <3>6
  <2> QED
    BY <1>2, <2>1 DEF MemTypeOK
<1>7. \A x \in Memory : x \in PropertyMemory \/ \E i \in Places : x = Module(i)
  BY DEF Memory
<1> QED
  BY <1>2, <1>5, <1>6, <1>7

(* For any length of the chain and any properties, in every order of       *)
(* requests, rounds and restarts: nothing leaks, nothing that was freed is *)
(* still pointed to, and no null pointer is followed.                      *)
THEOREM DisplayMemoryStaysSafe == ControllerSpec => []MemoryIsSafe
<1>1. ASSUME MemInv, ~overlapped
      PROVE  heap = UNION {OwnedBy(mods[i]) : i \in Places} /\ {hmod, hptr, mptr} \subseteq heap \cup {Null}
  <2>1. MemTypeOK /\ Pointed /\ Held /\ RequestPlace /\ RoundPlace
    BY <1>1 DEF MemInv, MemPlaces
  <2>2. hmod \in heap \cup {Null}
    BY <2>1, MemKinds DEF Held, Pointed, RequestPlace
  <2>3. hptr \in heap \cup {Null}
    <3>1. dpc = "convert" => <<place, prop>> \in PropertyMemory
      BY <2>1, MemKinds DEF RequestPlace
    <3> QED
      BY <2>1, <3>1 DEF Held, Pointed
  <2>4. mptr \in heap \cup {Null}
    <3>1. mpc = "toBin" => <<mplace, mprop>> \in PropertyMemory
      BY <2>1, MemKinds DEF RoundPlace
    <3> QED
      BY <2>1, <3>1 DEF Held, Pointed
  <2> QED
    BY <2>1, <2>2, <2>3, <2>4, HeapIsOwned
<1>2. ASSUME MemInv, ~overlapped, ~starved
      PROVE  ~Fault
  <2>1. /\ MemTypeOK /\ Turn /\ Pointed /\ Held /\ Marked /\ Filled /\ RequestPlace /\ RoundPlace
    BY <1>2 DEF MemInv, MemPlaces
  <2>2. hmod # Freed /\ hptr # Freed /\ mptr # Freed
    <3>1. Freed \notin heap /\ Freed # Null
      BY <2>1, MemKinds DEF MemTypeOK
    <3> QED
      BY <1>1, <1>2, <3>1
  <2>3. dpc = "convert" => hptr # Null
    <3> SUFFICES ASSUME dpc = "convert" PROVE field[<<place, prop>>] # Null
      BY <2>1 DEF Held
    <3>1. mpc = "parked" /\ ~desync /\ reads = {}
      BY <2>1 DEF Turn, Marked
    <3>2. place \in Places /\ place < count /\ prop \in ReadProps
      BY <2>1 DEF RequestPlace, Held
    <3> QED
      BY <2>1, <3>1, <3>2 DEF Filled
  <2>4. mpc = "toBin" => mptr # Null
    BY <2>1 DEF Held, Filled
  <2> QED
    BY <2>1, <2>2, <2>3, <2>4 DEF Fault, Filled
<1>3. MemInv => MemoryIsSafe
  BY <1>1, <1>2 DEF MemoryIsSafe, MemoryIsOwned, NoFault
<1> QED
  BY <1>3, MemInvariant, PTL

--------------------------------------------------------------------------------
(* A behaviour uses one service from beginning to end.                     *)
UsedInv == used \in {"ota", "network", "log", "display"}

LEMMA UsedStep == UsedInv /\ [ControllerNext]_controllerVars => UsedInv'
<1> SUFFICES ASSUME UsedInv, [ControllerNext]_controllerVars PROVE UNCHANGED used
  BY DEF UsedInv
<1>1. CASE AppMain
  BY <1>1 DEF AppMain, ImageBoots, NetworkingStarts, WaitEnds, DisplayStarts, ServerStarts, LogStarts, Starting,
    ApisStart, StepFails, Ota
<1>2. CASE NetworkStep \/ LogStep \/ DisplayStep
  BY <1>2 DEF NetworkStep, LogStep, DisplayStep
<1>3. CASE DisplayFaults \/ LogOpenedEarly \/ OtaStep \/ Ota(TimerFires) \/ PowerIsLost
  BY <1>3 DEF DisplayFaults, LogOpenedEarly, OtaStep, PowerIsLost, Ota
<1>4. CASE UNCHANGED controllerVars
  BY <1>4 DEF controllerVars
<1> QED
  BY <1>1, <1>2, <1>3, <1>4 DEF ControllerNext

(* Every part of the controller keeps its variables in their types, and    *)
(* app_main has a next step exactly during startup.                        *)
THEOREM ControllerTypes == ControllerSpec => []ControllerTypeOK
<1>1. ControllerInit => UsedInv
  BY DEF ControllerInit, UsedInv
<1>2. TypeOK /\ NetInv /\ ListInv /\ MemInv /\ StartupInv /\ UsedInv => ControllerTypeOK
  BY DEF NetInv, ListInv, MemInv, MemPlaces, StartupInv, UsedInv, ControllerTypeOK
<1> QED
  BY <1>1, <1>2, UsedStep, OtaTypeCorrect, NetInvariant, ListInvariant, MemInvariant, StartupHolds, PTL
     DEF ControllerSpec
================================================================================
