------------------------------ MODULE PropertyPath ------------------------------
(***************************************************************************)
(* The way of a property value: JSON of a request, fields of module_t in   *)
(* the controller, bytes on the chain, configuration of the module (RAM    *)
(* and flash), and back to the JSON of a reply.  Two programs convert at   *)
(* the two ends of the chain and each has limits of its own.               *)
(*                                                                         *)
(* A behaviour is about one property of one module: values of different    *)
(* properties do not mix.  How requests, rounds and failing attempts       *)
(* interleave is the subject of DisplaySync, what CHARACTER does to the    *)
(* wheel that of FlapMotion.                                               *)
(***************************************************************************)
EXTENDS Integers, Sequences

CONSTANTS
  Props,                (* the properties looked at                           *)
  Numbers, Ramps,       (* numbers in a request; Ramps for the motion ramps   *)
  Colours,              (* colours in a request, 24 bit                       *)
  NotHex, Blank,        (* "#" and six characters that are no number, blanks  *)
  Symbols,              (* symbols in a request                               *)
  SymbolCnt,            (* SYMBOL_CNT                                         *)
  Checksum, Version,    (* the checksum's bytes in memory, the version string *)
  None                  (* no value                                           *)

Byte == 0 .. 255

(* All 24 bits of a colour, all 16 bits of a threshold. *)
White == 16777215
FullWord == 65535
Colour == 0 .. White

ASSUME PathAssumption ==
  /\ Props \subseteq {"offset", "minimum_rotation", "motion", "ir_threshold", "color",
                      "character_set", "character", "firmware_version", "module_info"}
  /\ Numbers \subseteq Int /\ Ramps \subseteq Int
  /\ Colours \subseteq Colour
  /\ SymbolCnt \in 1 .. 255
  /\ Checksum \in [1 .. 4 -> Byte] /\ Version \in Seq(Byte)
  /\ None \notin Seq(Int)

VARIABLES
  prop,       (* the property this behaviour is about                       *)
  model,      (* controller: its fields in module_t, None before a read     *)
  due,        (* controller: sync_prop_write_required                       *)
  config,     (* module: its fields in of_config, or what stands for them   *)
  store,      (* module: store_config                                       *)
  flash,      (* module: the stored configuration                           *)
  symbols,    (* controller: the module's character set, for prop character *)
  flaps,      (* module: flap_setpoint and flap_position, for prop character *)
  posted,     (* history: the value posted last, while nothing replaced it  *)
  fresh       (* history: nothing has changed since the value was read      *)

moduleVars == <<config, store, flash>>
characterVars == <<symbols, flaps>>
vars == <<prop, model, due, moduleVars, characterVars, posted, fresh>>

Least(a, b) == IF a < b THEN a ELSE b
Greatest(a, b) == IF a > b THEN a ELSE b

--------------------------------------------------------------------------------
(* Controller: the handlers of one property each.  A number is accepted    *)
(* from 0 to top, a pair that has to rise only when it does; width is the  *)
(* number of bytes of a field on the chain, the most significant first.    *)

Offset          == [width |-> 1, fields |-> 1, top |-> 255, rising |-> FALSE]
MinimumRotation == [width |-> 1, fields |-> 1, top |-> 255, rising |-> FALSE]
Motion          == [width |-> 1, fields |-> 4, top |-> 255, rising |-> FALSE]
IrThreshold     == [width |-> 2, fields |-> 2, top |-> 1024, rising |-> TRUE]

Numeric == [offset |-> Offset, minimum_rotation |-> MinimumRotation,
            motion |-> Motion, ir_threshold |-> IrThreshold]

NumbersFromJson(d, json) ==
  IF (\A i \in DOMAIN json : json[i] \in 0 .. d.top) /\ (d.rising => json[1] < json[2])
  THEN json ELSE None

NumbersToBin(d, v) ==
  [i \in 1 .. d.width * Len(v) |->
     IF d.width = 1 THEN v[i] % 256
     ELSE IF i % 2 = 1 THEN (v[(i + 1) \div 2] \div 256) % 256 ELSE v[i \div 2] % 256]

(* Mutant: the less significant byte of a threshold first. *)
NumbersFromBinSwapped(d, bin) ==
  [k \in 1 .. Len(bin) \div d.width |->
     IF d.width = 1 THEN bin[k] ELSE 256 * bin[2 * k] + bin[2 * k - 1]]

(* Thresholds are int16_t in the controller. *)
Signed16(n) == IF n < 32768 THEN n ELSE n - 65536

NumbersFromBin(d, bin) ==
  [k \in 1 .. Len(bin) \div d.width |->
     IF d.width = 1 THEN bin[k] ELSE Signed16(256 * bin[2 * k - 1] + bin[2 * k])]

(* Colours are red, green and blue in the controller, words in a module;   *)
(* a word is signed here, so that an erased one is -1.                     *)
Rgb(c) == <<(c \div 65536) % 256, (c \div 256) % 256, c % 256>>

(* Mutant: green is shifted like red. *)
Rgb24Green(v, i) == 65536 * v[i] + 65536 * v[i + 1] + v[i + 2]

Rgb24(v, i) == 65536 * v[i] + 256 * v[i + 1] + v[i + 2]

(* sscanf of blanks returns EOF, which passes for a converted value. *)
JsonToColor(c) == IF c = Blank THEN Rgb(0) ELSE Rgb(c)

ColorFromJson(json) ==
  IF NotHex \in {json[1], json[2]} THEN None ELSE JsonToColor(json[1]) \o JsonToColor(json[2])
ColorToJson(v) == <<Rgb24(v, 1), Rgb24(v, 4)>>

(* Only a whole set replaces a set that was read before. *)
CharacterSetFromJson(json) == IF Len(json) = Len(model) THEN json ELSE None

(* Mutant: the index is counted from one. *)
CharacterFromJsonOne(symbol) ==
  LET At == {i \in DOMAIN symbols : symbols[i] = symbol}
  IN  IF At = {} THEN None ELSE <<CHOOSE i \in At : \A j \in At : i <= j>>

(* module_character_set_index_of_character: the first flap of that symbol. *)
CharacterFromJson(symbol) ==
  LET At == {i \in DOMAIN symbols : symbols[i] = symbol}
  IN  IF At = {} THEN None ELSE <<(CHOOSE i \in At : \A j \in At : i <= j) - 1>>

CharacterToJson(v) == symbols[v[1] + 1]

(* The only fact of module_info: whether the module is the last of its column. *)
ColumnEnd(bin) == bin[1] = 1

(* The last four bytes are the checksum, the least significant first. *)
FirmwareVersionFromBin(bin) ==
  [str |-> SubSeq(bin, 1, Len(bin) - 4), crc |-> [i \in 1 .. 4 |-> bin[Len(bin) - 4 + i]]]
FirmwareVersionToJson(v) == [description |-> v.str, crc |-> [i \in 1 .. 4 |-> v.crc[5 - i]]]

FromJson(json) ==
  CASE prop \in DOMAIN Numeric -> NumbersFromJson(Numeric[prop], json)
    [] prop = "color"          -> ColorFromJson(json)
    [] prop = "character_set"  -> CharacterSetFromJson(json)
    [] prop = "character"      -> CharacterFromJson(json)

ToBin(v) == IF prop \in DOMAIN Numeric THEN NumbersToBin(Numeric[prop], v) ELSE v

FromBin(bin) ==
  CASE prop \in DOMAIN Numeric      -> NumbersFromBin(Numeric[prop], bin)
    [] prop = "firmware_version"    -> FirmwareVersionFromBin(bin)
    [] prop = "module_info"         -> ColumnEnd(bin)
    [] OTHER                        -> bin

ToJson(v) ==
  CASE prop = "color"            -> ColorToJson(v)
    [] prop = "firmware_version" -> FirmwareVersionToJson(v)
    [] prop = "character"        -> CharacterToJson(v)
    [] OTHER                     -> v

--------------------------------------------------------------------------------
(* Module: the set and get handlers *)

Taken(c) == [ok |-> TRUE, config |-> c, store |-> TRUE]
AlreadySet == [ok |-> TRUE, config |-> config, store |-> store]
Declined == [ok |-> FALSE, config |-> config, store |-> store]

OffsetSet(bin, moving) ==
  IF config = bin THEN AlreadySet ELSE IF moving THEN Declined ELSE Taken(bin)

MinimumRotationSet(bin) ==
  IF config = bin THEN AlreadySet ELSE Taken(<<Least(bin[1], SymbolCnt)>>)

ColorSet(bin) ==
  LET new == <<Rgb24(bin, 1), Rgb24(bin, 4)>>
  IN  IF config = new THEN AlreadySet ELSE Taken(new)

(* Mutant: only the power limits are compared with the old ones. *)
MotionSetHalfCompared(bin) ==
  IF config[1] = bin[1] /\ config[2] = bin[2] THEN AlreadySet
  ELSE Taken(<<Greatest(bin[1], 35), Least(bin[2], 200), bin[3], bin[4]>>)

(* Mutant: the old values are not compared. *)
MotionSetAlways(bin) == Taken(<<Greatest(bin[1], 35), Least(bin[2], 200), bin[3], bin[4]>>)

(* Mutant: the upper limit of the power is forgotten. *)
MotionSetUnlimited(bin) ==
  IF config = bin THEN AlreadySet ELSE Taken(<<Greatest(bin[1], 35), bin[2], bin[3], bin[4]>>)

MotionSet(bin) ==
  IF config = bin THEN AlreadySet
  ELSE Taken(<<Greatest(bin[1], 35), Least(bin[2], 200), bin[3], bin[4]>>)

(* Mutant: the range of the controller is taken to be 0 to 1023. *)
IrThresholdSetShort(bin) ==
  LET new == <<256 * bin[1] + bin[2], 256 * bin[3] + bin[4]>>
  IN  IF config = new THEN AlreadySet
      ELSE IF new[1] > new[2] \/ new[2] > 1023 THEN Declined ELSE Taken(new)

IrThresholdSet(bin) ==
  LET new == <<256 * bin[1] + bin[2], 256 * bin[3] + bin[4]>>
  IN  IF config = new THEN AlreadySet
      ELSE IF new[1] > new[2] THEN Declined ELSE Taken(new)

(* Two bytes of the address of the buffer are compared with SYMBOL_CNT, in *)
(* place of its contents: no set is taken (no buffer has that address).    *)
CharacterSetSet(bin) == Declined

NodeSet(bin, moving) ==
  CASE prop = "offset"           -> OffsetSet(bin, moving)
    [] prop = "minimum_rotation" -> MinimumRotationSet(bin)
    [] prop = "color"            -> ColorSet(bin)
    [] prop = "motion"           -> MotionSet(bin)
    [] prop = "ir_threshold"     -> IrThresholdSet(bin)
    [] prop = "character_set"    -> CharacterSetSet(bin)
    [] prop = "character"        -> AlreadySet

(* property_character_set: the index is not compared with anything. *)
CharacterSet(bin) == flaps' = IF prop = "character" THEN <<bin[1], flaps[2]>> ELSE flaps

ColorGet == Rgb(config[1]) \o Rgb(config[2])
IrThresholdGet ==
  <<(config[1] \div 256) % 256, config[1] % 256, (config[2] \div 256) % 256, config[2] % 256>>

(* The most significant byte of the checksum first. *)
FirmwareGet == config \o [i \in 1 .. 4 |-> Checksum[5 - i]]

NodeGet ==
  CASE prop = "color"            -> ColorGet
    [] prop = "ir_threshold"     -> IrThresholdGet
    [] prop = "firmware_version" -> FirmwareGet
    [] prop = "character"        -> <<flaps[2]>>
    [] OTHER                     -> config

--------------------------------------------------------------------------------
(* State machine *)

Default(p) ==
  CASE p = "offset"           -> <<0>>
    [] p = "minimum_rotation" -> <<1>>
    [] p = "color"            -> <<White, 0>>
    [] p = "motion"           -> <<70, 150, 5, 10>>
    [] p = "ir_threshold"     -> <<90, 110>>
    [] p \in {"character_set", "character"} -> [i \in 1 .. SymbolCnt |-> i]
    [] p = "firmware_version" -> Version
    [] p = "module_info"      -> <<1>>

(* What an erased sector reads as. *)
Erased ==
  CASE prop = "ir_threshold" -> <<FullWord, FullWord>>
    [] prop = "color"        -> <<-1, -1>>
    [] OTHER                 -> [i \in DOMAIN config |-> 255]

Init ==
  /\ prop \in Props /\ model = None /\ due = FALSE
  /\ config = Default(prop) /\ flash = config /\ store = FALSE
  /\ symbols = None /\ flaps = <<0, 0>>
  /\ posted = None /\ fresh = FALSE

(* Values a request may carry. *)
Json ==
  CASE prop = "motion"        -> Numbers \X Numbers \X Ramps \X Ramps
    [] prop = "ir_threshold"  -> Numbers \X Numbers
    [] prop \in {"offset", "minimum_rotation"} -> {<<n>> : n \in Numbers}
    [] prop = "color"         -> (Colours \cup {NotHex, Blank}) \X (Colours \cup {NotHex, Blank})
    [] prop = "character_set" -> {[i \in 1 .. n |-> s] : n \in {SymbolCnt - 1, SymbolCnt}, s \in Symbols}
    [] prop = "character"     -> Symbols
    [] OTHER                  -> {}

(* module_api_post_handler.  A character posted through a set that is not  *)
(* the module's (see CharacterSetSet) is not held against the module.      *)
Post(json) ==
  /\ prop = "character_set" => model # None
  /\ prop = "character" => symbols # None
  /\ LET v == FromJson(json)
     IN  /\ v # None
         /\ model' = v /\ due' = TRUE /\ fresh' = FALSE
         /\ posted' = IF prop = "character" /\ symbols # config THEN None ELSE json
  /\ UNCHANGED <<prop, moduleVars, characterVars>>

(* A round writes the property; it fails when the module declines, or when *)
(* the answer is lost on its way through the chain.                        *)
Write(moving, answered) ==
  /\ due
  /\ LET r == NodeSet(ToBin(model), moving)
     IN  /\ config' = r.config /\ store' = r.store /\ due' = ~(r.ok /\ answered)
         /\ fresh' = (fresh /\ r.config = config)
  /\ CharacterSet(ToBin(model))
  /\ UNCHANGED <<prop, model, flash, symbols, posted>>

(* A round reads the property; what was read replaces what was posted.     *)
(* Once all modules have answered the flags are cleared, also the one for  *)
(* writing.                                                                *)
Read(answered) ==
  /\ model' = FromBin(NodeGet) /\ fresh' = TRUE
  /\ due' = (due /\ ~answered)
  /\ posted' = IF due THEN None ELSE posted
  /\ UNCHANGED <<prop, moduleVars, characterVars>>

(* The character set that goes with a character: read from the module, or  *)
(* replaced by a request.                                                  *)
SymbolsChange ==
  /\ prop = "character"
  /\ \/ symbols' = config
     \/ symbols # None /\ \E s \in Symbols : symbols' = [i \in DOMAIN symbols |-> s]
  /\ UNCHANGED <<prop, model, due, moduleVars, flaps, posted, fresh>>

(* The wheel arrives (FlapMotion has the flaps in between). *)
Arrive ==
  /\ prop = "character" /\ flaps[1] # flaps[2]
  /\ flaps' = <<flaps[1], flaps[1]>> /\ fresh' = FALSE
  /\ UNCHANGED <<prop, model, due, moduleVars, symbols, posted>>

(* CMD_OFFSET_RESET *)
OffsetReset ==
  /\ prop = "offset"
  /\ config' = <<0>> /\ store' = TRUE /\ posted' = None /\ fresh' = FALSE
  /\ UNCHANGED <<prop, model, due, flash, characterVars>>

(* of_hal_config_store, once the module is idle *)
Store ==
  /\ store /\ store' = FALSE /\ flash' = config
  /\ UNCHANGED <<prop, model, due, config, characterVars, posted, fresh>>

(* A module starts again; without power in the middle of Store, with an    *)
(* erased sector.  Both keep the controller's model.                       *)
Restart(stored) ==
  /\ flash' = stored /\ config' = stored /\ store' = FALSE
  /\ flaps' = <<0, 0>>
  /\ posted' = None /\ fresh' = FALSE
  /\ UNCHANGED <<prop, model, due, symbols>>
Loss == Restart(flash)
LossInStore == store /\ Restart(Erased)

Next ==
  \/ \E json \in Json : Post(json)
  \/ \E answered \in BOOLEAN :
       Read(answered) \/ \E moving \in BOOLEAN : Write(moving, answered)
  \/ SymbolsChange \/ Arrive \/ OffsetReset \/ Store \/ Loss \/ LossInStore

Spec == Init /\ [][Next]_vars

--------------------------------------------------------------------------------
(* Properties *)

Configs ==
  CASE prop = "color"        -> (-1 .. White) \X (-1 .. White)
    [] prop = "ir_threshold" -> (0 .. FullWord) \X (0 .. FullWord)
    [] prop \in {"offset", "minimum_rotation", "motion"} -> [1 .. Numeric[prop].fields -> Byte]
    [] OTHER                 -> {Default(prop)}

(* Types: a module's configuration fits its fields, and only properties    *)
(* that are kept in flash are ever stored.                                 *)
TypeOK ==
  /\ prop \in Props
  /\ due \in BOOLEAN /\ store \in BOOLEAN /\ fresh \in BOOLEAN
  /\ config \in Configs /\ flash \in Configs
  /\ symbols = None \/ DOMAIN symbols = 1 .. SymbolCnt
  /\ due => model # None

(* Limits: whatever was posted, read back, repeated or lost, a module that *)
(* does not run from an erased sector drives its motor within the limits   *)
(* of motion_property_set, turns at most one revolution more, has a lower  *)
(* threshold below the upper one, and is only sent to flaps it has.        *)
InLimits ==
  config # Erased =>
    CASE prop = "motion"           -> config[1] >= 35 /\ config[2] <= 200
      [] prop = "minimum_rotation" -> config[1] <= SymbolCnt
      [] prop = "ir_threshold"     -> config[1] < config[2]
      [] prop = "character"        -> flaps[1] < SymbolCnt
      [] OTHER                     -> TRUE

(* What a module should make of a request, stated without the chain's      *)
(* bytes and the controller's fields.                                      *)
Meant(json) ==
  CASE prop = "motion" -> <<Greatest(json[1], 35), Least(json[2], 200), json[3], json[4]>>
    [] prop = "minimum_rotation" -> <<Least(json[1], SymbolCnt)>>
    [] prop = "color" -> [i \in 1 .. 2 |-> IF json[i] = Blank THEN 0 ELSE json[i]]
    [] OTHER -> json

(* End to end: when the last accepted request has been written, the module *)
(* has what the JSON said, up to its limits, and turns to the flap with    *)
(* the character that was asked for.  (A module that runs from an erased   *)
(* sector finds 255 already set and does not limit it.)                    *)
WrittenAsPosted ==
  (~due /\ posted # None /\ config # Erased) =>
    IF prop = "character" THEN config[flaps[1] + 1] = posted ELSE config = Meant(posted)

(* And back: a value read and not touched since is shown as the module     *)
(* itself would show it: colours, thresholds and limits as configured, the *)
(* checksum as the module's start message prints it (main.c), the          *)
(* character that is on the flap, if the controller has the module's set.  *)
ShownAsConfigured ==
  (fresh /\ config # Erased /\ (prop = "character" => symbols = config)) =>
    ToJson(model) =
      CASE prop = "firmware_version" -> [description |-> Version, crc |-> Checksum]
        [] prop = "module_info"      -> config[1] = 1
        [] prop = "character"        -> config[flaps[2] + 1]
        [] OTHER                     -> config

(* The two ends agree: a module at rest takes what the controller accepts, *)
(* so that no accepted request makes every round after it fail.  (Not so   *)
(* the character set, which no module takes, see CharacterSetSet.)         *)
AcceptedIsTaken ==
  (due /\ posted # None /\ prop # "character_set") => NodeSet(ToBin(model), FALSE).ok

(* A request on its way: it will be taken, and what arrives is what was    *)
(* asked for.                                                              *)
PostedArrives == AcceptedIsTaken /\ WrittenAsPosted

(* Writing back what a module already has costs no write of its flash      *)
(* (unless it runs from an erased sector: 0xFFFFFFFF is not 0xFFFFFF).     *)
RewriteIsSilent ==
  [][(\E moving, answered \in BOOLEAN : Write(moving, answered)) /\ ToBin(model) = NodeGet
       /\ config # Erased => UNCHANGED moduleVars]_vars

================================================================================
