------------------------------ MODULE DisplayMemory ----------------------------
(***************************************************************************)
(* The memory behind the controller's copy of the display: the modules,    *)
(* and what they point to.  The master task allocates and frees modules    *)
(* when the chain turns out longer or shorter (of_display_resize), and     *)
(* replaces what it reads; requests replace what they write.  No lock      *)
(* keeps a task from memory the other frees: only that a request waits for *)
(* the end of the round it has started, and that the master rests between  *)
(* rounds.  The flags of DisplaySync are set and cleared at once here.     *)
(*                                                                         *)
(* Memory is named by what it is for: module i, or property k of module i. *)
(* A pointer to memory that was freed is Freed from then on; what a task   *)
(* does that follows one is undefined, and a fault here.                   *)
(***************************************************************************)
EXTENDS Integers

CONSTANTS
  MaxChain,     (* modules on the chain, at most                             *)
  PropCnt,      (* properties with memory of their own, in their order:      *)
  ReadProps,    (*   read from the modules by a GET,                         *)
  PostProps,    (*   of those, the ones a POST replaces,                     *)
  PutProps,     (*   replaced by an upload                                   *)
  Null, Freed

Props == 0 .. PropCnt - 1
Itself == -1
Places == 0 .. MaxChain - 1
ModuleMemory == Places \X {Itself}
PropertyMemory == Places \X Props
Memory == ModuleMemory \cup PropertyMemory
Module(i) == <<i, Itself>>

ASSUME MemAssumption ==
  /\ MaxChain \in Nat /\ PropCnt \in Nat /\ Null # Freed /\ {Null, Freed} \cap Memory = {}
  /\ ReadProps \subseteq Props /\ PostProps \subseteq ReadProps /\ PutProps \subseteq Props

VARIABLES
  count,        (* module_count                                              *)
  mods,         (* modules: pointers to module_t                             *)
  field,        (* pointers in the module_t for module i, at <<i, prop>>     *)
  heap,         (* memory that is allocated                                  *)
  flagged,      (* module_t.sync_prop_write_required of module i, likewise   *)
  reads, writes,(* of_display_t.sync_prop_read_required, ..write_required    *)
  desync, sync, (* the bits of the event group                               *)
  op, dpc,      (* HTTP task: "get", "post", "put", or "none"; next step     *)
  place, prop,  (* HTTP task: where it is in its loops                       *)
  hmod, hptr,   (* HTTP task: a module_t and a property it has a pointer to  *)
  mpc, mplace,  (* master task: next step, module it is at                   *)
  mprop, mptr,  (* master task: prop_id, a property it has a pointer to      *)
  overlapped,   (* history: a request began while a round was running or due *)
  starved       (* history: a malloc failed, a round gave a property up, or  *)
                (*   found another length after it had read a property       *)

modelVars == <<count, mods, field, heap, flagged>>
wordVars == <<reads, writes>>
bitVars == <<desync, sync>>
requestVars == <<op, dpc, place, prop, hmod, hptr>>
masterVars == <<mpc, mplace, mprop, mptr>>
history == <<overlapped, starved>>
memVars == <<modelVars, wordVars, bitVars, requestVars, masterVars, history>>

MemInit ==
  /\ count = 0 /\ mods = [i \in Places |-> Null] /\ field = [p \in PropertyMemory |-> Null]
  /\ heap = {} /\ flagged = {}
  /\ reads = {} /\ writes = {} /\ desync = FALSE /\ sync = FALSE
  /\ op = "none" /\ dpc = "idle" /\ place = 0 /\ prop = 0 /\ hmod = Null /\ hptr = Null
  /\ mpc = "parked" /\ mplace = 0 /\ mprop = 0 /\ mptr = Null
  /\ overlapped = FALSE /\ starved = FALSE

MemDrop ==
  /\ count' = 0 /\ mods' = [i \in Places |-> Null] /\ field' = [p \in PropertyMemory |-> Null]
  /\ heap' = {} /\ flagged' = {}
  /\ reads' = {} /\ writes' = {} /\ desync' = FALSE /\ sync' = FALSE
  /\ op' = "none" /\ dpc' = "idle" /\ place' = 0 /\ prop' = 0 /\ hmod' = Null /\ hptr' = Null
  /\ mpc' = "parked" /\ mplace' = 0 /\ mprop' = 0 /\ mptr' = Null
  /\ overlapped' = FALSE /\ starved' = FALSE

--------------------------------------------------------------------------------
(* module_new, module_free, and the new and free of a property *)

(* What becomes of pointer p when the memory S is freed. *)
After(p, S) == IF p \in S THEN Freed ELSE p

(* Mutant: what a module points to is not freed with it. *)
OwnedByItself(m) == IF m = Null THEN {} ELSE {m}

(* module_free: the module and what it points to *)
OwnedBy(m) == IF m = Null THEN {} ELSE {m} \cup ({field[<<m[1], k>>] : k \in Props} \ {Null})

(* Property k of module i is replaced: new, free of the old, store.  When  *)
(* there is no memory the old one stays.                                   *)
Replaced(i, k) ==
  /\ heap' = heap \cup {<<i, k>>}
  /\ field' = [field EXCEPT ![<<i, k>>] = <<i, k>>]
NoMemory == starved' = TRUE /\ UNCHANGED <<heap, field>>

--------------------------------------------------------------------------------
(* HTTP task *)

RequestGoto(from, to) == dpc = from /\ dpc' = to
RequestOver == dpc' = "idle" /\ op' = "none" /\ place' = 0 /\ prop' = 0 /\ hmod' = Null /\ hptr' = Null

(* Nothing is said of what follows a request that overlapped a round, so   *)
(* it is the last (bound).                                                 *)
RequestBegins(o) ==
  /\ dpc = "idle" /\ ~overlapped /\ op' = o
  /\ overlapped' = (mpc # "parked" \/ desync)
  /\ IF o = "get"
     THEN dpc' = "clear" /\ reads' = ReadProps
     ELSE dpc' = "next" /\ UNCHANGED reads
  /\ UNCHANGED <<modelVars, writes, bitVars, place, prop, hmod, hptr, masterVars, starved>>

Handled == CASE op = "get" -> ReadProps [] op = "post" -> PostProps [] op = "put" -> PutProps

(* The first of the properties S that is not before k. *)
From(S, k) == CHOOSE j \in S \cup {PropCnt} : j >= k /\ \A i \in S : i >= k => j <= i

(* display_module_get: of each module in turn, or of one the body of a     *)
(* POST names.                                                             *)
ModuleGet ==
  /\ RequestGoto("next", "use")
  /\ \E i \in IF op = "post" THEN Places ELSE {place} :
       /\ i < count /\ place' = i /\ hmod' = mods[i]
       /\ op = "post" => mods[i] # Null
  /\ prop' = From(Handled, 0)
  /\ UNCHANGED <<modelVars, wordVars, bitVars, op, hptr, masterVars, history>>

(* A handler reads a pointer in the module; an upload only replaces it.    *)
PropertyGet ==
  /\ RequestGoto("use", "convert") /\ hmod \in ModuleMemory
  /\ \/ op = "get" /\ prop < PropCnt /\ UNCHANGED prop
     \/ op = "post" /\ prop' \in PostProps
  /\ hptr' = field[<<hmod[1], prop'>>]
  /\ UNCHANGED <<modelVars, wordVars, bitVars, op, place, hmod, masterVars, history>>

(* to_json reads what the pointer points to. *)
PropertyToJson ==
  /\ RequestGoto("convert", "use") /\ op = "get" /\ hptr \in PropertyMemory
  /\ prop' = From(ReadProps, prop + 1) /\ hptr' = Null
  /\ UNCHANGED <<modelVars, wordVars, bitVars, op, place, hmod, masterVars, history>>

(* All properties of the module are in the reply; one that could not be    *)
(* allocated has none.                                                     *)
ModuleDone ==
  /\ RequestGoto("use", "next") /\ op = "get"
  /\ hmod = Null \/ prop = PropCnt
  /\ place' = place + 1 /\ prop' = 0 /\ hmod' = Null
  /\ UNCHANGED <<modelVars, wordVars, bitVars, op, hptr, masterVars, history>>

(* from_json: the size of the old one is looked at, and it is replaced.    *)
PropertyFromJson ==
  /\ RequestGoto("convert", "next") /\ op = "post" /\ hptr \in PropertyMemory
  /\ \/ /\ Replaced(place, prop) /\ mptr' = After(mptr, {hptr})
        /\ flagged' = flagged \cup {<<place, prop>>} /\ writes' = writes \cup {prop}
        /\ UNCHANGED starved
     \/ NoMemory /\ UNCHANGED <<mptr, flagged, writes>>
  /\ prop' = 0 /\ hptr' = Null /\ hmod' = Null /\ place' = 0
  /\ UNCHANGED <<count, mods, reads, bitVars, op, mpc, mplace, mprop, overlapped>>

(* of_module_firmware_update_property_set, whose result is not looked at   *)
PageSet ==
  /\ RequestGoto("use", "next") /\ op = "put" /\ hmod \in ModuleMemory
  /\ \E k \in PutProps :
       /\ \/ /\ Replaced(place, k) /\ mptr' = After(mptr, {field[<<place, k>>]} \ {Null})
             /\ UNCHANGED starved
          \/ NoMemory /\ UNCHANGED mptr
       /\ flagged' = flagged \cup {<<place, k>>} /\ writes' = writes \cup {k}
  /\ place' = place + 1 /\ prop' = 0 /\ hmod' = Null
  /\ UNCHANGED <<count, mods, reads, bitVars, op, hptr, mpc, mplace, mprop, overlapped>>

(* The loop over the modules ends: a reply is complete, or a round is due. *)
LoopEnds ==
  /\ dpc = "next" /\ (op = "post" \/ place >= count)
  /\ IF op = "get" THEN RequestOver
     ELSE dpc' = "clear" /\ place' = 0 /\ UNCHANGED <<op, prop, hmod, hptr>>
  /\ UNCHANGED <<modelVars, wordVars, bitVars, masterVars, history>>

(* of_mdl_master_synchronize *)
ClearSync ==
  /\ RequestGoto("clear", "set") /\ sync' = FALSE
  /\ UNCHANGED <<modelVars, wordVars, desync, op, place, prop, hmod, hptr, masterVars, history>>

SetDesync ==
  /\ RequestGoto("set", "wait") /\ desync' = TRUE
  /\ UNCHANGED <<modelVars, wordVars, sync, op, place, prop, hmod, hptr, masterVars, history>>

(* The round is over: a GET goes on to its reply, an upload to its next    *)
(* chunk, or it ends.                                                      *)
RoundAwaited ==
  /\ dpc = "wait" /\ sync /\ sync' = FALSE
  /\ \/ op # "post" /\ dpc' = "next" /\ UNCHANGED <<op, place, prop, hmod, hptr>>
     \/ op # "get" /\ RequestOver
  /\ UNCHANGED <<modelVars, wordVars, desync, masterVars, history>>

(* Five seconds have passed, or none for a POST. *)
WaitExpires ==
  /\ dpc = "wait" /\ ~sync
  /\ RequestOver
  /\ UNCHANGED <<modelVars, wordVars, bitVars, masterVars, history>>

Request ==
  \/ \E o \in {"get", "post", "put"} : RequestBegins(o)
  \/ ModuleGet \/ PropertyGet \/ PropertyToJson \/ ModuleDone \/ PropertyFromJson \/ PageSet
  \/ LoopEnds \/ ClearSync \/ SetDesync \/ RoundAwaited \/ WaitExpires

--------------------------------------------------------------------------------
(* Master task *)

MasterGoto(from, to) == mpc = from /\ mpc' = to

RoundBegins ==
  /\ MasterGoto("parked", "decide") /\ desync /\ desync' = FALSE
  /\ UNCHANGED <<modelVars, wordVars, sync, requestVars, mplace, mprop, mptr, history>>

(* of_display_prop_sync_required *)
PropertyBegins ==
  /\ mpc = "decide" /\ mprop < PropCnt
  /\ \/ mprop \in reads /\ mpc' = "resize" /\ UNCHANGED mprop
     \/ mprop \in writes \ reads /\ mpc' = "load" /\ UNCHANGED mprop
     \/ mprop \notin reads \cup writes /\ mprop' = mprop + 1 /\ UNCHANGED mpc
  /\ UNCHANGED <<modelVars, wordVars, bitVars, requestVars, mplace, mptr, history>>

(* of_display_resize, to the length the chain has: modules are freed, or   *)
(* allocated, and one that cannot be is a null pointer.  A longer array    *)
(* may fail to be allocated; a shorter one is cut from the old one.        *)
ResizeTo(chain, fails) ==
  LET gone == UNION {OwnedBy(mods[i]) : i \in chain .. count - 1}
      new == (count .. chain - 1) \ fails
  IN  /\ count' = chain
      /\ heap' = (heap \ gone) \cup {Module(i) : i \in new}
      /\ mods' = [i \in Places |-> IF i \in new THEN Module(i) ELSE IF i >= chain THEN Null ELSE mods[i]]
      /\ field' = [p \in PropertyMemory |-> IF Module(p[1]) \in gone THEN Null ELSE field[p]]
      /\ flagged' = {p \in flagged : Module(p[1]) \notin gone}
      /\ hmod' = After(hmod, gone) /\ hptr' = After(hptr, gone)
      /\ starved' = (starved \/ fails # {} \/ (chain # count /\ \E k \in ReadProps : k < mprop))

Resize ==
  /\ MasterGoto("resize", "set")
  /\ \E chain \in 0 .. MaxChain : \E fails \in SUBSET (count .. chain - 1) : ResizeTo(chain, fails)
  /\ UNCHANGED <<wordVars, bitVars, op, dpc, place, prop, mplace, mprop, mptr, overlapped>>

(* from_bin, module by module *)
PropertyFromBin ==
  /\ mpc = "set" /\ mplace < count /\ mods[mplace] # Null
  /\ Replaced(mplace, mprop)
  /\ hptr' = After(hptr, {field[<<mplace, mprop>>]} \ {Null})
  /\ mplace' = mplace + 1
  /\ UNCHANGED <<count, mods, flagged, wordVars, bitVars, op, dpc, place, prop, hmod, mpc, mprop, mptr, history>>

(* to_bin, of the modules that are to be written *)
PropertyLoaded ==
  /\ mpc = "load" /\ mplace < count
  /\ IF <<mplace, mprop>> \in flagged
     THEN mpc' = "toBin" /\ mptr' = field[<<mplace, mprop>>] /\ UNCHANGED mplace
     ELSE mplace' = mplace + 1 /\ UNCHANGED <<mpc, mptr>>
  /\ UNCHANGED <<modelVars, wordVars, bitVars, requestVars, mprop, history>>

PropertyToBin ==
  /\ MasterGoto("toBin", "load") /\ mptr \in PropertyMemory
  /\ mplace' = mplace + 1 /\ mptr' = Null
  /\ UNCHANGED <<modelVars, wordVars, bitVars, requestVars, mprop, history>>

(* Mutant: the end of a round is signalled before its last property. *)
PropertyEndsEarly ==
  /\ mpc \in {"set", "load"} /\ mplace = count
  /\ mpc' = "decide" /\ sync' = TRUE
  /\ reads' = reads \ {mprop} /\ writes' = writes \ {mprop}
  /\ flagged' = {p \in flagged : p[2] # mprop}
  /\ mprop' = mprop + 1 /\ mplace' = 0
  /\ UNCHANGED <<count, mods, field, heap, desync, requestVars, mptr, history>>

(* display_property_indicate_synchronized *)
PropertyEnds ==
  /\ MasterGoto(mpc, "decide") /\ mpc \in {"set", "load"} /\ mplace = count
  /\ reads' = reads \ {mprop} /\ writes' = writes \ {mprop}
  /\ flagged' = {p \in flagged : p[2] # mprop}
  /\ mprop' = mprop + 1 /\ mplace' = 0
  /\ UNCHANGED <<count, mods, field, heap, bitVars, requestVars, mptr, history>>

(* The attempts are used up, in the middle of a property (there may also   *)
(* be no memory for what was read, or for more modules): the round ends.   *)
PropertyGivenUp ==
  /\ mpc \in {"resize", "set", "load"} /\ mpc' = "signal"
  /\ starved' = TRUE /\ mprop' = 0 /\ mplace' = 0
  /\ UNCHANGED <<modelVars, wordVars, bitVars, requestVars, mptr, overlapped>>

PropertiesDone ==
  /\ MasterGoto("decide", "signal")
  /\ mprop = PropCnt /\ mprop' = 0
  /\ UNCHANGED <<modelVars, wordVars, bitVars, requestVars, mplace, mptr, history>>

RoundEnds ==
  /\ MasterGoto("signal", "parked") /\ sync' = TRUE
  /\ UNCHANGED <<modelVars, wordVars, desync, requestVars, mplace, mprop, mptr, history>>

Round ==
  \/ RoundBegins \/ PropertyBegins \/ Resize \/ PropertyFromBin
  \/ PropertyLoaded \/ PropertyToBin \/ PropertyEnds \/ PropertyGivenUp \/ PropertiesDone \/ RoundEnds

--------------------------------------------------------------------------------
(* A pointer is followed that is null or to memory that was freed, or an   *)
(* assertion fails.  At best the controller restarts.                      *)
Fault ==
  \/ dpc = "use" /\ (hmod = Freed \/ (op = "put" /\ hmod = Null))
  \/ dpc = "convert" /\ hptr \in {Null, Freed}
  \/ mpc = "toBin" /\ mptr \in {Null, Freed}

MemNext == Request \/ Round \/ (Fault /\ MemDrop)
MemSpec == MemInit /\ [][MemNext]_memVars

--------------------------------------------------------------------------------
MemTypeOK ==
  /\ count \in 0 .. MaxChain
  /\ mods \in [Places -> ModuleMemory \cup {Null}]
  /\ field \in [PropertyMemory -> PropertyMemory \cup {Null}]
  /\ heap \subseteq Memory /\ flagged \subseteq PropertyMemory
  /\ reads \subseteq Props /\ writes \subseteq Props
  /\ desync \in BOOLEAN /\ sync \in BOOLEAN
  /\ op \in {"none", "get", "post", "put"}
  /\ dpc \in {"idle", "next", "use", "convert", "clear", "set", "wait"}
  /\ place \in 0 .. MaxChain /\ prop \in 0 .. PropCnt
  /\ hmod \in ModuleMemory \cup {Null, Freed} /\ hptr \in PropertyMemory \cup {Null, Freed}
  /\ mpc \in {"parked", "decide", "resize", "set", "load", "toBin", "signal"}
  /\ mplace \in 0 .. MaxChain /\ mprop \in 0 .. PropCnt
  /\ mptr \in PropertyMemory \cup {Null, Freed}
  /\ overlapped \in BOOLEAN /\ starved \in BOOLEAN

(* As long as every request began while the master was at rest, the memory *)
(* that is allocated is exactly what the display points to (nothing leaks, *)
(* nothing is freed twice or still pointed to), and every pointer a task   *)
(* has taken out of the display is to memory that is still allocated: a    *)
(* reply or an upload never meets a module or a property that a round has  *)
(* freed, whatever the chain has grown or shrunk to meanwhile.             *)
MemoryIsOwned ==
  ~overlapped =>
    /\ heap = UNION {OwnedBy(mods[i]) : i \in Places}
    /\ {hmod, hptr, mptr} \subseteq heap \cup {Null}

(* If moreover no round gave up, no malloc failed and the chain kept its   *)
(* length during rounds, no null pointer is followed: a module has all its *)
(* properties once a request gets at it.                                   *)
NoFault == ~overlapped /\ ~starved => ~Fault

MemoryIsSafe == MemoryIsOwned /\ NoFault
================================================================================
