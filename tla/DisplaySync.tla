------------------------------ MODULE DisplaySync ------------------------------
(***************************************************************************)
(* The controller's copy of the display and the two tasks that share it.   *)
(*                                                                         *)
(*   - the HTTP server task runs one request handler at a time: GET        *)
(*     (module_api_get_handler) or POST (module_api_post_handler);         *)
(*   - of_mdl_master_task carries flagged properties over the chain.       *)
(*                                                                         *)
(* They share, without any lock, the model values, the flag words of the   *)
(* display and of each module, and an event group with two bits.  The flag *)
(* words are updated by a load and a later store (|= and &= ~), so both    *)
(* halves are steps of their own.  Time is not modelled: a wait of five    *)
(* seconds may end whenever the bit it waits for is clear.                 *)
(*                                                                         *)
(* The chain has been enumerated and keeps its length, which makes         *)
(* of_display_resize return at its first test.                             *)
(***************************************************************************)
EXTENDS Integers

CONSTANTS
  ModuleCount,    (* modules on the chain                                   *)
  PropCnt,        (* properties, synchronised in ascending order            *)
  GetAlt,         (* properties a GET reads from the modules                *)
  SetAlt,         (* properties a POST may write                            *)
  Compare,        (* properties with a compare handler                      *)
  StoresFirst,    (* properties stored by set_alt before it validates       *)
  Values,         (* values of a property                                   *)
  Default,        (* the value everything starts with                       *)
  Unsupported,    (* what set_alt stores for a value it then refuses        *)
  None,           (* nothing was put on the wire for a module               *)
  MaxAttempts,    (* tries per property and round                           *)
  PostsComing,    (* clients send POST requests, not only GET requests      *)
  ChainMayFail,   (* a communication attempt may fail                       *)
  WaitMayExpire   (* a blocking synchronize may run into its timeout        *)

Modules == 0 .. ModuleCount - 1
Props == 0 .. PropCnt - 1

ASSUME DisplayAssumption ==
  /\ ModuleCount \in Nat \ {0}
  /\ PropCnt \in Nat \ {0}
  /\ GetAlt \subseteq Props
  /\ SetAlt \subseteq Props
  /\ Compare \subseteq Props
  /\ StoresFirst \subseteq SetAlt
  /\ Default \in Values /\ Unsupported \in Values
  /\ None \notin Values
  /\ MaxAttempts \in Nat \ {0}
  /\ PostsComing \in BOOLEAN
  /\ ChainMayFail \in BOOLEAN
  /\ WaitMayExpire \in BOOLEAN

VARIABLES
  model,          (* module_t values, as the controller knows them          *)
  shown,          (* the values the modules hold                            *)
  dirty,          (* module_t.sync_prop_write_required                      *)
  readRequired,   (* of_display_t.sync_prop_read_required                   *)
  writeRequired,  (* of_display_t.sync_prop_write_required                  *)
  desyncBit,      (* OF_MDL_MASTER_MODEL_EVENT_DESYNCHRONIZED               *)
  syncBit,        (* OF_MDL_MASTER_MODEL_EVENT_SYNCHRONIZED                 *)
  hpc, hop,       (* HTTP task: next step, request being served             *)
  hmod, hprop,    (* HTTP task: module and property being handled           *)
  hword,          (* HTTP task: flag word loaded and not yet stored         *)
  mpc,            (* master task: next step                                 *)
  mprop, mact,    (* master task: property and its action                   *)
  mmod,           (* master task: next module of the loop it is in          *)
  mtry,           (* master task: attempt_cnt                               *)
  mword,          (* master task: flag word loaded and not yet stored       *)
  wire,           (* what the running attempt has serialised per module     *)
  wanted,         (* history: last value accepted from a client             *)
  disturbed,      (* history: properties posted while a round was running   *)
                  (*   or a read was due, flagged for reading while a write *)
                  (*   was due, or refused after they had been stored       *)
  trusted         (* history: the GET being served began with the master    *)
                  (*   parked and no property has been given up since       *)

flagVars == <<dirty, readRequired, writeRequired>>
bitVars == <<desyncBit, syncBit>>
httpVars == <<hpc, hop, hmod, hprop, hword>>
masterVars == <<mpc, mprop, mact, mmod, mtry, mword, wire>>
postHistory == <<wanted, disturbed>>
vars == <<model, shown, flagVars, bitVars, httpVars, masterVars, postHistory, trusted>>

(* of_mdl_master_init: no event is set, the task waits. *)
MasterInit ==
  /\ desyncBit = FALSE /\ syncBit = FALSE
  /\ mpc = "parked" /\ mprop = 0 /\ mact = "READ" /\ mmod = 0 /\ mtry = 1
  /\ mword = {} /\ wire = [m \in Modules |-> None]

(* of_display_init, of a chain that has been enumerated. *)
Init ==
  /\ model = [m \in Modules |-> [p \in Props |-> Default]]
  /\ shown = model
  /\ dirty = [m \in Modules |-> {}]
  /\ readRequired = {} /\ writeRequired = {}
  /\ MasterInit
  /\ hpc = "idle" /\ hop = "none" /\ hmod = 0 /\ hprop = 0 /\ hword = {}
  /\ wanted = model /\ disturbed = {}
  /\ trusted = FALSE

--------------------------------------------------------------------------------
(* HTTP task *)

HttpGoto(from, to) == hpc = from /\ hpc' = to

(* A POST step on property p while a round runs, or with a read of it to   *)
(* come, is remembered.                                                    *)
NoteOverlap(p) ==
  disturbed' = IF mpc = "parked" /\ p \notin readRequired THEN disturbed ELSE disturbed \cup {p}

WriteDue(p) == \E m \in Modules : p \in dirty[m]

GetBegin ==
  /\ HttpGoto("idle", "mark")
  /\ hop' = "get"
  /\ trusted' = (mpc = "parked" /\ ~desyncBit)
  /\ UNCHANGED <<model, shown, flagVars, bitVars, hmod, hprop, hword, masterVars, postHistory>>

(* One round of the loop that forces every readable property to be read. *)
GetMarkLoad ==
  /\ hpc = "mark"
  /\ \/ /\ hprop < PropCnt /\ hprop \notin GetAlt
        /\ hprop' = hprop + 1
        /\ UNCHANGED <<hpc, hword>>
     \/ /\ hprop < PropCnt /\ hprop \in GetAlt
        /\ hword' = readRequired
        /\ hpc' = "markStore"
        /\ UNCHANGED hprop
     \/ /\ hprop = PropCnt
        /\ hpc' = "clearSync" /\ hprop' = 0
        /\ UNCHANGED hword
  /\ UNCHANGED <<model, shown, flagVars, bitVars, hop, hmod, masterVars, postHistory, trusted>>

GetMarkStore ==
  /\ HttpGoto("markStore", "mark")
  /\ readRequired' = hword \cup {hprop}
  /\ hprop' = hprop + 1
  /\ hword' = {}
  /\ disturbed' = IF WriteDue(hprop) THEN disturbed \cup {hprop} ELSE disturbed
  /\ UNCHANGED <<model, shown, dirty, writeRequired, bitVars, hop, hmod, masterVars, wanted, trusted>>

PostBegin ==
  /\ PostsComing
  /\ HttpGoto("idle", "post")
  /\ hop' = "post"
  /\ UNCHANGED <<model, shown, flagVars, bitVars, hmod, hprop, hword, masterVars, postHistory, trusted>>

(* set_alt succeeded for one property of one module of the body. *)
PostSet(m, p, v) ==
  /\ HttpGoto("post", "dirtyLoad")
  /\ p \in SetAlt
  /\ model' = [model EXCEPT ![m][p] = v]
  /\ wanted' = [wanted EXCEPT ![m][p] = v]
  /\ hmod' = m /\ hprop' = p
  /\ NoteOverlap(p)
  /\ UNCHANGED <<shown, flagVars, bitVars, hop, hword, masterVars, trusted>>

(* set_alt fails: no flag is set.  command_from_json has by then replaced   *)
(* the command of the module.                                              *)
PostRefused ==
  /\ hpc = "post"
  /\ \E m \in Modules, p \in StoresFirst :
       /\ model' = [model EXCEPT ![m][p] = Unsupported]
       /\ disturbed' = disturbed \cup {p}
  /\ UNCHANGED <<shown, flagVars, bitVars, httpVars, masterVars, wanted, trusted>>

PostDirtyLoad ==
  /\ HttpGoto("dirtyLoad", "dirtyStore")
  /\ hword' = dirty[hmod]
  /\ NoteOverlap(hprop)
  /\ UNCHANGED <<model, shown, flagVars, bitVars, hop, hmod, hprop, masterVars, wanted, trusted>>

PostDirtyStore ==
  /\ HttpGoto("dirtyStore", "writeLoad")
  /\ dirty' = [dirty EXCEPT ![hmod] = hword \cup {hprop}]
  /\ hword' = {}
  /\ NoteOverlap(hprop)
  /\ UNCHANGED <<model, shown, readRequired, writeRequired, bitVars, hop, hmod, hprop, masterVars, wanted, trusted>>

PostWriteLoad ==
  /\ HttpGoto("writeLoad", "writeStore")
  /\ hword' = writeRequired
  /\ NoteOverlap(hprop)
  /\ UNCHANGED <<model, shown, flagVars, bitVars, hop, hmod, hprop, masterVars, wanted, trusted>>

PostWriteStore ==
  /\ HttpGoto("writeStore", "post")
  /\ writeRequired' = hword \cup {hprop}
  /\ hword' = {}
  /\ NoteOverlap(hprop)
  /\ UNCHANGED <<model, shown, dirty, readRequired, bitVars, hop, hmod, hprop, masterVars, wanted, trusted>>

(* The body is done: "OK" is sent, then the master is notified. *)
PostEnd ==
  /\ HttpGoto("post", "clearSync")
  /\ hmod' = 0 /\ hprop' = 0
  /\ UNCHANGED <<model, shown, flagVars, bitVars, hop, hword, masterVars, postHistory, trusted>>

(* Mutant: the SYNC bit of an earlier round is left set. *)
SynchronizeKeepsBit ==
  /\ HttpGoto("clearSync", "setDesync")
  /\ UNCHANGED <<model, shown, flagVars, bitVars, hop, hmod, hprop, hword, masterVars, postHistory, trusted>>

SynchronizeClear ==
  /\ HttpGoto("clearSync", "setDesync")
  /\ syncBit' = FALSE
  /\ UNCHANGED <<model, shown, flagVars, desyncBit, hop, hmod, hprop, hword, masterVars, postHistory, trusted>>

SynchronizeSet ==
  /\ HttpGoto("setDesync", "wait")
  /\ desyncBit' = TRUE
  /\ UNCHANGED <<model, shown, flagVars, syncBit, hop, hmod, hprop, hword, masterVars, postHistory, trusted>>

RequestOver == hpc' = "idle" /\ hop' = "none" /\ trusted' = FALSE

(* The wait ends with the bit set: it is cleared and ESP_OK is returned. *)
SynchronizeWoken ==
  /\ hpc = "wait" /\ syncBit
  /\ syncBit' = FALSE
  /\ \/ hop = "get" /\ hpc' = "reply" /\ UNCHANGED <<hop, trusted>>
     \/ hop = "post" /\ RequestOver
  /\ UNCHANGED <<model, shown, flagVars, desyncBit, hmod, hprop, hword, masterVars, postHistory>>

(* The wait ends without the bit: at once for a POST, whose timeout is zero. *)
SynchronizeExpired ==
  /\ hpc = "wait" /\ ~syncBit
  /\ hop = "post" \/ WaitMayExpire
  /\ RequestOver
  /\ UNCHANGED <<model, shown, flagVars, bitVars, hmod, hprop, hword, masterVars, postHistory>>

(* The answer to a GET is built from the model. *)
GetReply ==
  /\ hpc = "reply"
  /\ RequestOver
  /\ UNCHANGED <<model, shown, flagVars, bitVars, hmod, hprop, hword, masterVars, postHistory>>

--------------------------------------------------------------------------------
(* Master task *)

MasterGoto(from, to) == mpc = from /\ mpc' = to

(* Mutant: a stray byte on the UART makes the task start over. *)
MasterWakeOrContinue ==
  /\ mpc = "parked" /\ mpc' \in {"parked", "decide"}
  /\ desyncBit
  /\ desyncBit' = FALSE
  /\ UNCHANGED <<model, shown, flagVars, syncBit, httpVars, mprop, mact, mmod, mtry, mword, wire, postHistory, trusted>>

MasterWake ==
  /\ MasterGoto("parked", "decide")
  /\ desyncBit
  /\ desyncBit' = FALSE
  /\ UNCHANGED <<model, shown, flagVars, syncBit, httpVars, mprop, mact, mmod, mtry, mword, wire, postHistory, trusted>>

StartAction(act) ==
  mpc' = "comm" /\ mact' = act /\ mmod' = 0 /\ mtry' = 1

(* The locals of an action go out of scope. *)
EndAction == mact' = "READ" /\ mmod' = 0 /\ mtry' = 1

(* Mutant: the loop over the properties runs one too far. *)
MasterDecideTooFar ==
  /\ mpc = "decide"
  /\ \/ /\ mprop \in readRequired
        /\ StartAction("READ")
        /\ UNCHANGED mprop
     \/ /\ mprop \in writeRequired \ readRequired
        /\ mpc' = "scan" /\ mmod' = 0
        /\ UNCHANGED <<mprop, mact, mtry>>
     \/ /\ mprop <= PropCnt /\ mprop \notin readRequired \cup writeRequired
        /\ mprop' = mprop + 1
        /\ UNCHANGED <<mpc, mact, mmod, mtry>>
  /\ UNCHANGED <<model, shown, flagVars, bitVars, httpVars, mword, wire, postHistory, trusted>>

(* of_display_prop_sync_required up to its scan over the modules. *)
MasterDecide ==
  /\ mpc = "decide"
  /\ \/ /\ mprop \in readRequired
        /\ StartAction("READ")
        /\ UNCHANGED mprop
     \/ /\ mprop \in Props \ readRequired /\ mprop \in writeRequired
        /\ mpc' = "scan" /\ mmod' = 0
        /\ UNCHANGED <<mprop, mact, mtry>>
     \/ /\ mprop \in Props \ (readRequired \cup writeRequired)
        /\ mprop' = mprop + 1
        /\ UNCHANGED <<mpc, mact, mmod, mtry>>
     \/ /\ mprop = PropCnt
        /\ mpc' = "signal" /\ mprop' = 0
        /\ UNCHANGED <<mact, mmod, mtry>>
  /\ UNCHANGED <<model, shown, flagVars, bitVars, httpVars, mword, wire, postHistory, trusted>>

(* Mutant: the values of the modules are not compared. *)
BroadcastFitsUncompared(m, p) == p \in dirty[m] /\ p \in Compare

(* module_property_is_desynchronized *)
IsDesynchronized(m, p) == p \in dirty[m]

(* Module m does not stand in the way of a broadcast of property p. *)
BroadcastFits(m, p) ==
  /\ IsDesynchronized(m, p)
  /\ p \in Compare
  /\ model[m][p] = model[0][p]

MasterScan ==
  /\ mpc = "scan"
  /\ \/ /\ ~BroadcastFits(mmod, mprop)
        /\ StartAction("WRITE")
     \/ /\ BroadcastFits(mmod, mprop) /\ mmod + 1 = ModuleCount
        /\ StartAction("BROADCAST")
     \/ /\ BroadcastFits(mmod, mprop) /\ mmod + 1 < ModuleCount
        /\ mmod' = mmod + 1
        /\ UNCHANGED <<mpc, mact, mtry>>
  /\ UNCHANGED <<model, shown, flagVars, bitVars, httpVars, mprop, mword, wire, postHistory, trusted>>

(* handler.set for the next module of a READ. *)
CommRead ==
  /\ mpc = "comm" /\ mact = "READ" /\ mmod < ModuleCount
  /\ model' = [model EXCEPT ![mmod][mprop] = shown[mmod][mprop]]
  /\ mmod' = mmod + 1
  /\ UNCHANGED <<shown, flagVars, bitVars, httpVars, mpc, mprop, mact, mtry, mword, wire, postHistory, trusted>>

(* node_exists_and_must_be_written and handler.get for the next module. *)
CommWrite ==
  /\ mpc = "comm" /\ mact = "WRITE" /\ mmod < ModuleCount
  /\ wire' = [wire EXCEPT ![mmod] = IF IsDesynchronized(mmod, mprop) THEN model[mmod][mprop] ELSE None]
  /\ mmod' = mmod + 1
  /\ UNCHANGED <<model, shown, flagVars, bitVars, httpVars, mpc, mprop, mact, mtry, mword, postHistory, trusted>>

(* handler.get for module 0 serves every module. *)
CommBroadcast ==
  /\ mpc = "comm" /\ mact = "BROADCAST" /\ mmod < ModuleCount
  /\ wire' = [m \in Modules |-> model[0][mprop]]
  /\ mmod' = ModuleCount
  /\ UNCHANGED <<model, shown, flagVars, bitVars, httpVars, mpc, mprop, mact, mtry, mword, postHistory, trusted>>

Delivered(S) ==
  shown' = [m \in Modules |-> IF m \in S THEN [shown[m] EXCEPT ![mprop] = wire[m]] ELSE shown[m]]

OnWire == {m \in Modules : wire[m] # None}

CommOk ==
  /\ MasterGoto("comm", "readLoad")
  /\ mmod = ModuleCount
  /\ Delivered(OnWire)
  /\ wire' = [m \in Modules |-> None]
  /\ EndAction
  /\ UNCHANGED <<model, flagVars, bitVars, httpVars, mprop, mword, postHistory, trusted>>

(* Mutant: sync_done is called whatever the last attempt returned. *)
CommFailDone ==
  /\ mpc = "comm" /\ ChainMayFail
  /\ \E S \in SUBSET OnWire : Delivered(S)
  /\ wire' = [m \in Modules |-> None]
  /\ \/ /\ mtry < MaxAttempts
        /\ mtry' = mtry + 1 /\ mmod' = 0
        /\ UNCHANGED <<mpc, mact>>
     \/ /\ mtry = MaxAttempts
        /\ mpc' = "readLoad"
        /\ EndAction
  /\ UNCHANGED <<model, flagVars, bitVars, httpVars, mprop, mword, postHistory, trusted>>

(* A failed attempt may have reached any of the modules. *)
CommFail ==
  /\ mpc = "comm" /\ ChainMayFail
  /\ \E S \in SUBSET OnWire : Delivered(S)
  /\ wire' = [m \in Modules |-> None]
  /\ \/ /\ mtry < MaxAttempts
        /\ mtry' = mtry + 1 /\ mmod' = 0
        /\ UNCHANGED <<mpc, mprop, mact, trusted>>
     \/ /\ mtry = MaxAttempts
        /\ mpc' = "signal" /\ trusted' = FALSE /\ mprop' = 0
        /\ EndAction
  /\ UNCHANGED <<model, flagVars, bitVars, httpVars, mword, postHistory>>

(* display_property_indicate_synchronized: the two words of the display, *)
(* then the word of every module.                                        *)
DoneReadLoad ==
  /\ MasterGoto("readLoad", "readStore")
  /\ mword' = readRequired
  /\ UNCHANGED <<model, shown, flagVars, bitVars, httpVars, mprop, mact, mmod, mtry, wire, postHistory, trusted>>

DoneReadStore ==
  /\ MasterGoto("readStore", "writeLoad")
  /\ readRequired' = mword \ {mprop}
  /\ mword' = {}
  /\ UNCHANGED <<model, shown, dirty, writeRequired, bitVars, httpVars, mprop, mact, mmod, mtry, wire, postHistory, trusted>>

DoneWriteLoad ==
  /\ MasterGoto("writeLoad", "writeStore")
  /\ mword' = writeRequired
  /\ UNCHANGED <<model, shown, flagVars, bitVars, httpVars, mprop, mact, mmod, mtry, wire, postHistory, trusted>>

DoneWriteStore ==
  /\ MasterGoto("writeStore", "dirtyLoad")
  /\ writeRequired' = mword \ {mprop}
  /\ mword' = {}
  /\ UNCHANGED <<model, shown, dirty, readRequired, bitVars, httpVars, mprop, mact, mmod, mtry, wire, postHistory, trusted>>

DoneDirtyLoad ==
  /\ MasterGoto("dirtyLoad", "dirtyStore")
  /\ mword' = dirty[mmod]
  /\ UNCHANGED <<model, shown, flagVars, bitVars, httpVars, mprop, mact, mmod, mtry, wire, postHistory, trusted>>

DoneDirtyStore ==
  /\ mpc = "dirtyStore"
  /\ dirty' = [dirty EXCEPT ![mmod] = mword \ {mprop}]
  /\ mword' = {}
  /\ \/ /\ mmod + 1 < ModuleCount
        /\ mpc' = "dirtyLoad" /\ mmod' = mmod + 1
        /\ UNCHANGED mprop
     \/ /\ mmod + 1 = ModuleCount
        /\ mpc' = "decide" /\ mprop' = mprop + 1 /\ mmod' = 0
  /\ UNCHANGED <<model, shown, readRequired, writeRequired, bitVars, httpVars, mact, mtry, wire, postHistory, trusted>>

(* Mutant: the DESYNC bit is cleared at the end of the round, not on waking. *)
MasterSignalClears ==
  /\ MasterGoto("signal", "parked")
  /\ syncBit' = TRUE /\ desyncBit' = FALSE
  /\ UNCHANGED <<model, shown, flagVars, httpVars, mprop, mact, mmod, mtry, mword, wire, postHistory, trusted>>

(* The end of the round is signalled, also after a property failed. *)
MasterSignal ==
  /\ MasterGoto("signal", "parked")
  /\ syncBit' = TRUE
  /\ UNCHANGED <<model, shown, flagVars, desyncBit, httpVars, mprop, mact, mmod, mtry, mword, wire, postHistory, trusted>>

--------------------------------------------------------------------------------
HttpStep ==
  \/ GetMarkLoad \/ GetMarkStore \/ GetReply
  \/ PostDirtyLoad \/ PostDirtyStore \/ PostWriteLoad \/ PostWriteStore \/ PostEnd
  \/ SynchronizeClear \/ SynchronizeSet \/ SynchronizeWoken \/ SynchronizeExpired

HttpRequest ==
  \/ GetBegin
  \/ PostBegin
  \/ PostRefused
  \/ \E m \in Modules, p \in Props, v \in Values : PostSet(m, p, v)

MasterStep ==
  \/ MasterWake \/ MasterDecide \/ MasterScan \/ MasterSignal
  \/ CommRead \/ CommWrite \/ CommBroadcast \/ CommOk \/ CommFail
  \/ DoneReadLoad \/ DoneReadStore \/ DoneWriteLoad \/ DoneWriteStore
  \/ DoneDirtyLoad \/ DoneDirtyStore

Next == HttpRequest \/ HttpStep \/ MasterStep

Spec == Init /\ [][Next]_vars

(* Both tasks are scheduled as long as they can run, and a request body is *)
(* finite, so PostEnd cannot be put off for ever.                          *)
FairSpec == Spec /\ WF_vars(HttpStep) /\ SF_vars(PostEnd) /\ WF_vars(MasterStep)
--------------------------------------------------------------------------------
DataTypeOK ==
  /\ model \in [Modules -> [Props -> Values]]
  /\ shown \in [Modules -> [Props -> Values]]
  /\ dirty \in [Modules -> SUBSET Props]
  /\ readRequired \in SUBSET Props /\ writeRequired \in SUBSET Props
  /\ wanted \in [Modules -> [Props -> Values]] /\ disturbed \in SUBSET Props

HttpTypeOK ==
  /\ hpc \in {"idle", "mark", "markStore", "post", "dirtyLoad", "dirtyStore", "writeLoad", "writeStore",
              "clearSync", "setDesync", "wait", "reply"}
  /\ hop \in {"none", "get", "post"}
  /\ hmod \in Modules /\ hprop \in 0 .. PropCnt
  /\ hpc # "mark" => hprop \in Props
  /\ hword \in SUBSET Props

MasterTypeOK ==
  /\ mpc \in {"parked", "decide", "scan", "comm", "readLoad", "readStore", "writeLoad", "writeStore",
              "dirtyLoad", "dirtyStore", "signal"}
  /\ mprop \in 0 .. PropCnt /\ mact \in {"READ", "WRITE", "BROADCAST"}
  /\ mpc # "decide" => mprop \in Props
  /\ mmod \in 0 .. ModuleCount /\ mtry \in 1 .. MaxAttempts
  /\ mpc # "comm" => mmod \in Modules
  /\ mword \in SUBSET Props
  /\ wire \in [Modules -> Values \cup {None}]
  /\ mpc # "comm" => wire = [m \in Modules |-> None]

BitTypeOK == desyncBit \in BOOLEAN /\ syncBit \in BOOLEAN /\ trusted \in BOOLEAN

(* Types and ranges of the variables; the loop indices stay in bounds, and *)
(* nothing is on the wire outside an attempt.                              *)
TypeOK == DataTypeOK /\ HttpTypeOK /\ MasterTypeOK /\ BitTypeOK

(* The POST being served is still storing this property of this module. *)
Storing(m, p) ==
  hpc \in {"dirtyLoad", "dirtyStore", "writeLoad", "writeStore"} /\ hmod = m /\ hprop = p

(* An accepted write is not lost by the unlocked |= and &= ~ of the flag   *)
(* words, by failed attempts, by an abandoned round or by a read: while    *)
(* every POST on the property met a parked master with no read of it due,  *)
(* and every GET found it written, the module has the value, or the model  *)
(* has it with both flags up that make the next round of                   *)
(* of_mdl_master_task send it.                                             *)
AcceptedWriteKept ==
  \A m \in Modules, p \in SetAlt \ disturbed :
    \/ shown[m][p] = wanted[m][p]
    \/ model[m][p] = wanted[m][p] /\ p \in dirty[m] /\ p \in writeRequired
    \/ Storing(m, p)

(* A GET that began with the master parked, and whose round gave no        *)
(* property up, replies with what the modules hold: module_api_get_handler *)
(* cannot be woken by a bit an earlier round or request left behind.       *)
FreshReply ==
  hpc = "reply" /\ trusted =>
    \A m \in Modules, p \in GetAlt : p \notin readRequired /\ model[m][p] = shown[m][p]

(* A module only ever takes the value last accepted for that very module   *)
(* and property, also when of_display_prop_sync_required chose to send the *)
(* value of module 0 to all, unless a POST disturbed the property.         *)
ShowsOnlyAccepted ==
  [][\A m \in Modules, p \in Props \ disturbed :
       shown'[m][p] # shown[m][p] => shown'[m][p] = wanted[m][p]]_vars

(* openflap_mdl_master.h:123: ESP_OK from a blocking synchronize means     *)
(* that the model is synchronized: nothing the GET asked for is            *)
(* still to be read.  Where there are only GET requests, none of which     *)
(* runs into its timeout, each is woken by the round it started itself.    *)
OkMeansSynchronized == hpc = "reply" => readRequired = {}

(* Every value module_api_post_handler accepted has reached the module or  *)
(* is still indicated as needing to be written.                            *)
EveryWriteKept ==
  \A m \in Modules, p \in SetAlt :
    \/ shown[m][p] = wanted[m][p]
    \/ p \in dirty[m] /\ p \in writeRequired
    \/ Storing(m, p)

(* While the chain works, of_mdl_master_task eventually carries out every  *)
(* flagged write: no DESYNC notification is lost between two rounds.       *)
WritesDrain == \A p \in SetAlt : p \in writeRequired ~> p \notin writeRequired

(* A blocking synchronize is woken by the SYNC bit of the master, never    *)
(* only by its timeout.                                                    *)
WaiterIsWoken == (hpc = "wait") ~> (hpc # "wait")

--------------------------------------------------------------------------------
(* The parts of the inductive invariant.  Clean properties are those       *)
(* AcceptedWriteKept is about.                                             *)
Clean == SetAlt \ disturbed

StoringEarly(m, p) == hpc \in {"dirtyLoad", "dirtyStore"} /\ hmod = m /\ hprop = p
StoringLate(m, p) == hpc \in {"writeLoad", "writeStore"} /\ hmod = m /\ hprop = p

Carried == mpc \in {"readLoad", "readStore", "writeLoad", "writeStore", "dirtyLoad", "dirtyStore"}

(* Property p is flagged for reading, or will be by a loaded word, or is   *)
(* being read.                                                             *)
ReadDue(p) ==
  \/ p \in readRequired
  \/ hpc = "markStore" /\ p \in hword
  \/ mpc = "readStore" /\ p \in mword
  \/ mpc = "comm" /\ mact = "READ" /\ p = mprop

(* What is read over the model is what the client asked for. *)
ReadIsShown ==
  \A p \in Clean : ReadDue(p) => \A m \in Modules : shown[m][p] = wanted[m][p]

(* The HTTP task adds flags and the master removes them: a loaded word is  *)
(* an upper bound for the one and a lower bound for the other.             *)
LoadedWords ==
  /\ hpc = "dirtyStore" => dirty[hmod] \subseteq hword
  /\ hpc = "writeStore" => writeRequired \subseteq hword
  /\ mpc = "dirtyStore" => mword \subseteq dirty[mmod]
  /\ mpc = "writeStore" => mword \subseteq writeRequired

ModelIsWanted == \A m \in Modules, p \in Clean : model[m][p] = wanted[m][p]

BroadcastAgrees ==
  mprop \in Clean =>
    /\ mpc = "scan" => \A m \in 0 .. mmod - 1 : model[m][mprop] = model[0][mprop]
    /\ mpc = "comm" /\ mact = "BROADCAST" => \A m \in Modules : model[m][mprop] = model[0][mprop]

WireIsWanted ==
  mpc = "comm" =>
    /\ mact = "BROADCAST" /\ mmod = ModuleCount => \A m \in Modules : wire[m] # None
    /\ mprop \in Clean => \A m \in Modules :
         /\ wire[m] # None => wire[m] = wanted[m][mprop]
         /\ mact = "WRITE" /\ m < mmod /\ wire[m] = None =>
              shown[m][mprop] = wanted[m][mprop] \/ StoringEarly(m, mprop)

CarriedIsShown ==
  Carried /\ mprop \in Clean => \A m \in Modules :
    shown[m][mprop] = wanted[m][mprop] \/ StoringEarly(m, mprop)

(* A flag the master is not about to drop with a stale word. *)
DirtySafe(m, p) == p \in dirty[m] /\ (mpc = "dirtyStore" /\ mmod = m /\ p # mprop => p \in mword)
WriteSafe(p) == p \in writeRequired /\ (mpc = "writeStore" /\ p # mprop => p \in mword)

KeptSafely ==
  \A m \in Modules, p \in Clean :
    \/ shown[m][p] = wanted[m][p]
    \/ StoringEarly(m, p)
    \/ DirtySafe(m, p) /\ (WriteSafe(p) \/ StoringLate(m, p))

(* Inductive: what AcceptedWriteKept rests on, step by step of both tasks. *)
IInv ==
  /\ TypeOK /\ ReadIsShown /\ LoadedWords
  /\ ModelIsWanted /\ BroadcastAgrees /\ WireIsWanted /\ CarriedIsShown /\ KeptSafely
--------------------------------------------------------------------------------
(* What ShowsOnlyAccepted rests on besides IInv: only properties that can  *)
(* be written are ever sent, and a read sends nothing.                     *)
OnlySettable ==
  /\ writeRequired \subseteq SetAlt
  /\ hpc \in {"dirtyLoad", "dirtyStore", "writeLoad", "writeStore"} => hprop \in SetAlt
  /\ hpc = "writeStore" => hword \subseteq SetAlt
  /\ mpc = "writeStore" => mword \subseteq SetAlt
  /\ mpc = "scan" => mprop \in SetAlt
  /\ mpc = "comm" /\ mact # "READ" => mprop \in SetAlt
  /\ mpc = "comm" /\ mact = "READ" => \A m \in Modules : wire[m] = None

(* The indices start at 0 where a request or a round begins. *)
IndicesReset ==
  /\ hpc \in {"idle", "clearSync", "setDesync", "wait", "reply"} => hprop = 0
  /\ mpc \in {"parked", "signal"} => mprop = 0

(* Property p has been read in the round of the GET that asked for it. *)
ReadBack(p) == p \notin readRequired /\ \A m \in Modules : model[m][p] = shown[m][p]

(* How far the round of a trusted GET has come with property p: those      *)
(* before mprop have been read, those behind it are flagged.               *)
RoundReads(p) ==
  /\ mpc = "signal" \/ p < mprop => ReadBack(p) /\ (mpc = "readStore" => p \notin mword)
  /\ mpc # "signal" /\ p > mprop => p \in readRequired /\ (mpc = "readStore" => p \in mword)
  /\ mpc # "signal" /\ p = mprop =>
       /\ mpc # "scan"
       /\ mpc = "decide" => p \in readRequired
       /\ mpc = "comm" => mact = "READ" /\ \A m \in 0 .. mmod - 1 : model[m][p] = shown[m][p]
       /\ Carried => \A m \in Modules : model[m][p] = shown[m][p]
       /\ mpc \in {"writeLoad", "writeStore", "dirtyLoad", "dirtyStore"} => ReadBack(p)

(* The event bits as a trusted GET finds them: the master rests until it   *)
(* is asked, no old SYNC bit is left when it is, and what is asked once is *)
(* not asked again.                                                        *)
RoundBits ==
  /\ hpc # "wait" => ~desyncBit
  /\ hpc = "setDesync" => ~syncBit
  /\ hpc = "wait" /\ syncBit => mpc = "parked" /\ ~desyncBit
  /\ hpc = "wait" /\ mpc # "parked" => ~desyncBit

(* A trusted GET flags with the master parked; it is woken only by the     *)
(* round it started, which reads every property it flagged.                *)
RoundOfGet ==
  /\ hop = "get" /\ hpc \in {"mark", "markStore", "clearSync", "setDesync", "wait", "reply"}
  /\ hpc # "wait" => mpc = "parked"
  /\ hpc = "mark" => \A p \in GetAlt : p < hprop => p \in readRequired
  /\ hpc = "markStore" => \A p \in GetAlt : p < hprop => p \in hword
  /\ hpc \in {"clearSync", "setDesync"} => GetAlt \subseteq readRequired
  /\ hpc = "wait" /\ mpc = "parked" /\ desyncBit => GetAlt \subseteq readRequired
  /\ hpc = "wait" /\ mpc = "parked" /\ ~desyncBit => \A p \in GetAlt : ReadBack(p)
  /\ hpc = "wait" /\ mpc # "parked" => \A p \in GetAlt : RoundReads(p)
  /\ hpc = "reply" => \A p \in GetAlt : ReadBack(p)

TrustedRound == trusted => RoundBits /\ RoundOfGet

(* Inductive: what FreshReply and ShowsOnlyAccepted need beyond IInv. *)
FreshInv == TypeOK /\ OnlySettable /\ IndicesReset /\ TrustedRound
================================================================================
