------------------------------- MODULE Networking ------------------------------
(***************************************************************************)
(* The controller as a station of a wireless network (networking.c, in its *)
(* default configuration): the driver posts events, the task of the        *)
(* default event loop handles them in order and asks the driver to connect.*)
(*                                                                         *)
(* The driver and the network interface belong to ESP-IDF and are modelled *)
(* from the events networking.c handles.                                   *)
(***************************************************************************)
EXTENDS Integers, Sequences

CONSTANTS
  RetryMax,     (* retry_max: attempts to connect                            *)
  MaxEvents     (* bound: events not yet handled                             *)

ASSUME NetAssumption == RetryMax \in Nat /\ MaxEvents \in Nat \ {0}

VARIABLES
  station,      (* driver: "off", "idle", "connecting" or "joined"           *)
  address,      (* interface: "none", "held", or "expiring" after a loss     *)
  events,       (* posted and not yet handled                                *)
  attempts,     (* wifi_connection_attempt_cnt                               *)
  connectedBit  (* WIFI_CONNECTED_BIT                                        *)

netVars == <<station, address, events, attempts, connectedBit>>

NetInit ==
  /\ station = "off" /\ address = "none" /\ events = <<>>
  /\ attempts = 0 /\ connectedBit = FALSE

NetDrop ==
  /\ station' = "off" /\ address' = "none" /\ events' = <<>>
  /\ attempts' = 0 /\ connectedBit' = FALSE

--------------------------------------------------------------------------------
(* Driver and interface *)

MayPost == Len(events) < MaxEvents
Post(e) == events' = Append(events, e)

(* esp_wifi_start, at the end of networking_wifi_setup *)
StationStarts ==
  /\ station = "off" /\ station' = "idle"
  /\ Post("STA_START")
  /\ UNCHANGED <<address, attempts, connectedBit>>

Joins ==
  /\ station = "connecting" /\ station' = "joined"
  /\ MayPost /\ Post("STA_CONNECTED")
  /\ UNCHANGED <<address, attempts, connectedBit>>

(* Refused, not found, or lost again. *)
Leaves ==
  /\ station \in {"connecting", "joined"} /\ station' = "idle"
  /\ address' = IF address = "held" THEN "expiring" ELSE address
  /\ MayPost /\ Post("STA_DISCONNECTED")
  /\ UNCHANGED <<attempts, connectedBit>>

GetsAddress ==
  /\ station = "joined" /\ address # "held" /\ address' = "held"
  /\ MayPost /\ Post("STA_GOT_IP")
  /\ UNCHANGED <<station, attempts, connectedBit>>

AddressExpires ==
  /\ address = "expiring" /\ address' = "none"
  /\ MayPost /\ Post("STA_LOST_IP")
  /\ UNCHANGED <<station, attempts, connectedBit>>

Radio == Joins \/ Leaves \/ GetsAddress \/ AddressExpires

--------------------------------------------------------------------------------
(* networking_event_handler *)

Handling(e) == events # <<>> /\ Head(events) = e /\ events' = Tail(events)

(* wifi_re_connect *)
ReConnect ==
  IF attempts < RetryMax
  THEN station' = "connecting" /\ attempts' = attempts + 1
  ELSE UNCHANGED <<station, attempts>>

(* Mutant: only the start connects. *)
OnLeaveIgnored ==
  /\ Handling("STA_DISCONNECTED")
  /\ UNCHANGED <<station, attempts, address, connectedBit>>

OnStart == Handling("STA_START") /\ ReConnect /\ UNCHANGED <<address, connectedBit>>
OnLeave == Handling("STA_DISCONNECTED") /\ ReConnect /\ UNCHANGED <<address, connectedBit>>
OnJoin == Handling("STA_CONNECTED") /\ UNCHANGED <<station, attempts, address, connectedBit>>

OnAddress ==
  \/ Handling("STA_GOT_IP") /\ connectedBit' = TRUE /\ UNCHANGED <<station, attempts, address>>
  \/ Handling("STA_LOST_IP") /\ connectedBit' = FALSE /\ UNCHANGED <<station, attempts, address>>

EventLoop == OnStart \/ OnLeave \/ OnJoin \/ OnAddress

--------------------------------------------------------------------------------
NetTypeOK ==
  /\ station \in {"off", "idle", "connecting", "joined"}
  /\ address \in {"none", "held", "expiring"}
  /\ events \in Seq({"STA_START", "STA_CONNECTED", "STA_DISCONNECTED", "STA_GOT_IP", "STA_LOST_IP"})
  /\ attempts \in 0 .. RetryMax /\ connectedBit \in BOOLEAN

(* A station that is not connected tries again, whatever was joined, lost  *)
(* and joined before and in whatever order that is heard of: it rests only *)
(* after the attempts are used up.  And once all has been heard, the bit   *)
(* that networking_wait_for_connection looks at tells whether there is an  *)
(* address.                                                                *)
NetworkIsKnown ==
  /\ station = "idle" /\ ~(\E i \in DOMAIN events : events[i] \in {"STA_START", "STA_DISCONNECTED"})
       => attempts = RetryMax
  /\ events = <<>> => connectedBit = (address # "none")
================================================================================
