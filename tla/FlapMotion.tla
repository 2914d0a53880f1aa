------------------------------- MODULE FlapMotion -------------------------------
(***************************************************************************)
(* Positioning of the flap wheel by a module.  The main loop samples a     *)
(* quadrature encoder and a zero sensor, counts flaps, keeps the distance  *)
(* that is left to the wanted flap, and drives the motor; property writes  *)
(* change the setpoint and the configuration between two samples.          *)
(*                                                                         *)
(* The wheel itself (phys, back) is the environment: it turns forward when *)
(* driven, and is pulled back a little by the motor's backspin.            *)
(***************************************************************************)
EXTENDS Integers

CONSTANTS
  Rev,          (* ENCODER_PULSES_PER_REVOLUTION, SYMBOL_CNT               *)
  ZeroWidth,    (* pulses before the mark during which the zero sensor is on *)
  MaxBack,      (* most pulses the wheel falls back                        *)
  LockoutPast,  (* position past which the zero sensor is trusted again (5) *)
  CounterHalf,  (* half the range of the backspin counter, an int8_t (128) *)
  BackTicks,    (* MOTOR_BACKSPIN_DURATION_TICKS                           *)
  Setpoints,    (* characters that are asked for                           *)
  Offsets,      (* encoder offsets that are stored or written              *)
  Minima,       (* minimum rotations that are stored or written            *)
  Slips,        (* the wheel may turn two pulses from one sample to the next *)
  Coasts,       (* the wheel may move when it is not driven                *)
  Power,        (* readings of the 12 V detection                          *)
  MaxCommands   (* bound: property writes                                  *)

ASSUME WheelAssumption ==
  /\ Rev \in Nat /\ Rev > 0 /\ Rev % 4 = 0
  /\ ZeroWidth \in 1 .. Rev - 1 /\ MaxBack \in 0 .. Rev - 1
  /\ LockoutPast \in Nat /\ CounterHalf \in Nat /\ CounterHalf > Rev
  /\ BackTicks \in Nat \ {0} /\ MaxCommands \in Nat
  /\ Setpoints \subseteq 0 .. Rev - 1 /\ Offsets \subseteq Nat /\ Minima \subseteq Nat
  /\ Slips \in BOOLEAN /\ Coasts \in BOOLEAN /\ Power \subseteq BOOLEAN

VARIABLES
  phys, back,                       (* wheel: pulses since the mark, pulses fallen back *)
  oldPattern, zeroPrev,             (* of_encoder_position_update: statics              *)
  backspin, lockout,                (*   backspin_prevention, zero_lockout              *)
  position, setpoint, distance,     (* flap_position, flap_setpoint, flap_distance      *)
  extend,                           (* extend_revolution                                *)
  offset, minimum,                  (* of_config: encoder_offset, minimum_rotation      *)
  override, speed,                  (* motor_control_override, speed setpoint not 0     *)
  backTimeout, distancePrev,        (* motor_backspin_timeout_tick, flap_distance_prev  *)
  drive,                            (* what the bridge does: "off", "fwd", "back"       *)
  commands,                         (* bound: property writes so far                    *)
  origin,                           (* history: where the encoder was last zeroed, or Lost
                                       if not yet, or slipped or offset rewritten since   *)
  owed,                             (* history: pulses the minimum rotation still asks for *)
  homed                             (* history: the mark was seen since start ("yes", "no"),
                                       or homing was called off before it ("off")       *)

wheelVars == <<phys, back>>
encoderVars == <<oldPattern, zeroPrev, backspin, lockout>>
flapVars == <<position, setpoint, distance, extend>>
configVars == <<offset, minimum>>
motorVars == <<backTimeout, distancePrev, drive>>
vars == <<wheelVars, encoderVars, flapVars, configVars, override, speed, motorVars, commands, origin, owed, homed>>

(* flapIndex_wrap_calc: C's % takes the sign of its left operand, the sum  *)
(* and the second % make the result what TLA+'s % gives at once.           *)
Wrap(index) == index % Rev

(* Two's complement: past either end the counter comes round to the other. *)
Narrow(i) == ((i + CounterHalf) % (2 * CounterHalf)) - CounterHalf

(* No place of the wheel. *)
Lost == -1

Init ==
  /\ phys \in 0 .. Rev - 1 /\ back = 0
  /\ oldPattern = 0 /\ zeroPrev = FALSE /\ backspin = -Rev /\ lockout = FALSE
  /\ position = 0 /\ setpoint = 0 /\ distance = Rev /\ extend = FALSE
  /\ offset \in Offsets
  /\ minimum \in {IF m < Rev THEN m ELSE Rev : m \in Minima}
  /\ override = TRUE /\ speed = FALSE
  /\ backTimeout = 0 /\ distancePrev = 0 /\ drive = "off"
  /\ commands = 0 /\ origin = Lost /\ owed = 0 /\ homed = "no"

--------------------------------------------------------------------------------
(* Distance *)

Left(from, to) == Wrap(to - from)

(* distance_update *)
DistanceUpdate(from, to) ==
  LET left == Left(from, to)
  IN  /\ extend' = (extend /\ left < minimum)
      /\ distance' = IF extend' THEN left + Rev ELSE left

--------------------------------------------------------------------------------
(* Encoder: of_encoder_position_update *)

Pattern(p) == <<0, 2, 3, 1>>[(p % 4) + 1]
Qem(old, new) == <<0, -1, 1, 2, 1, 0, 2, -1, -1, 2, 0, 1, 2, 1, -1, 0>>[4 * old + new + 1]
AtZero(p) == p >= Rev - ZeroWidth

EncoderZero ==
  /\ position' = offset
  /\ DistanceUpdate(position', setpoint)

(* Mutant: a position past the last flap is not wrapped. *)
EncoderIncrementFlat ==
  /\ position' = position + 1
  /\ DistanceUpdate(position', setpoint)

EncoderIncrement ==
  /\ position' = Wrap(position + 1)
  /\ DistanceUpdate(position', setpoint)

ZeroSeen == ~AtZero(phys') /\ zeroPrev /\ ~lockout

(* Mutant: pulses are counted while the wheel makes up for a backspin. *)
CountEager(qem) ==
  IF qem # 1
  THEN /\ backspin' = Narrow(backspin + qem)
       /\ UNCHANGED <<lockout, position, distance, extend>>
  ELSE /\ EncoderIncrement
       /\ lockout' = (lockout /\ position' <= LockoutPast)
       /\ UNCHANGED backspin

(* Mutant: the zero sensor is trusted again at once. *)
CountUnlocked(qem) ==
  IF backspin < 0 \/ qem # 1
  THEN /\ backspin' = Narrow(backspin + qem)
       /\ UNCHANGED <<lockout, position, distance, extend>>
  ELSE /\ EncoderIncrement
       /\ lockout' = FALSE
       /\ UNCHANGED backspin

(* A pulse counts once the backspin counter is wound up to 0. *)
Count(qem) ==
  IF backspin < 0 \/ qem # 1
  THEN /\ backspin' = Narrow(backspin + qem)
       /\ UNCHANGED <<lockout, position, distance, extend>>
  ELSE /\ EncoderIncrement
       /\ lockout' = (lockout /\ position' <= LockoutPast)
       /\ UNCHANGED backspin

PositionUpdate ==
  LET qem == Qem(oldPattern, Pattern(phys'))
  IN  /\ oldPattern' = Pattern(phys')
      /\ IF qem = 2
         THEN UNCHANGED <<zeroPrev, backspin, lockout, position, distance, extend>>
         ELSE /\ zeroPrev' = AtZero(phys')
              /\ \/ ZeroSeen /\ EncoderZero /\ backspin' = 0 /\ lockout' = TRUE
                 \/ ~ZeroSeen /\ Count(qem)

(* The wheel: forward when driven, back by at most MaxBack pulses, until   *)
(* the flaps lock up against the ratchet notch.                            *)
CanTurn(d) ==
  /\ d > 0 => drive = "fwd" \/ Coasts
  /\ d < 0 => back < MaxBack /\ (drive = "back" \/ Coasts)

(* Pulses from one sample to the next. *)
Steps == {-1, 0, 1} \cup IF Slips THEN {2} ELSE {}

Turn(d) ==
  /\ phys' = Wrap(phys + d)
  /\ back' = IF back > d THEN back - d ELSE 0

(* of_speed_setpoint_set_from_distance: below one symbol to go, stand      *)
(* still; how fast to turn otherwise is left out.                          *)
WantsSpeed(left) == left >= 1

(* The zero sensor went off (a slip is an invalid QEM value).              *)
Zeroed(d) == d # 2 /\ ZeroSeen

(* History: a slip hides an edge of the window, so that the sensor goes    *)
(* off late, at a place that says nothing.                                 *)
OriginMoves(d) ==
  origin' = CASE d = 2 \/ (Zeroed(d) /\ ~AtZero(phys)) -> Lost
              [] Zeroed(d) /\ AtZero(phys) -> phys'
              [] OTHER -> origin

(* A tick of the sense timer: of_encoder_values_update, then               *)
(* of_encoder_position_update and of_speed_setpoint_set_from_distance.     *)
Sample(d) ==
  /\ CanTurn(d)
  /\ Turn(d)
  /\ PositionUpdate
  /\ speed' = WantsSpeed(distance')
  /\ OriginMoves(d)
  /\ LET kept == Lost \notin {origin, origin'} /\ position' \in {position, Wrap(position + 1)}
     IN  owed' = CASE ~kept -> 0
                   [] kept /\ position' = Wrap(position + 1) /\ owed > 0 -> owed - 1
                   [] OTHER -> owed
  /\ homed' = CASE Zeroed(d) /\ phys' = 0 -> "yes"
                [] homed = "no" /\ (d = 2 \/ (Zeroed(d) /\ phys' # 0)) -> "off"
                [] OTHER -> homed
  /\ UNCHANGED <<setpoint, configVars, override, motorVars, commands>>

--------------------------------------------------------------------------------
(* Motor: motor_control_loop *)

(* of_hal_motor_control: without 12 V the bridge is off; duty cycle and    *)
(* decay are left out.                                                     *)
Bridge(powered, wanted) == IF powered THEN wanted ELSE "off"

(* Mutant: the duration of the backspin does not run down. *)
MotorStuck(powered) ==
  /\ ~override
  /\ distancePrev' = distance
  /\ backTimeout' = IF distance = 0 /\ distancePrev # 0 THEN BackTicks ELSE backTimeout
  /\ drive' = Bridge(powered, CASE backTimeout > 0 /\ ~(distance = 0 /\ distancePrev # 0) -> "back"
                                [] OTHER -> IF speed THEN "fwd" ELSE "off")
  /\ UNCHANGED <<wheelVars, encoderVars, flapVars, configVars, override, speed, commands, origin, owed, homed>>

Motor(powered) ==
  LET arrived == distance = 0 /\ distancePrev # 0
      backing == ~arrived /\ backTimeout > 0
  IN  /\ ~override
      /\ distancePrev' = distance
      /\ backTimeout' = CASE arrived -> BackTicks [] backing -> backTimeout - 1 [] OTHER -> backTimeout
      /\ drive' = Bridge(powered, CASE backing -> "back"
                                    [] ~backing /\ speed /\ (arrived \/ distance > 0) -> "fwd"
                                    [] OTHER -> "off")
      /\ UNCHANGED <<wheelVars, encoderVars, flapVars, configVars, override, speed, commands, origin, owed, homed>>

--------------------------------------------------------------------------------
(* Property writes, handled by the main loop between samples *)

Command ==
  /\ commands < MaxCommands /\ commands' = commands + 1
  /\ homed' = IF homed = "no" /\ distance' = 0 THEN "off" ELSE homed

(* Mutant: a short rotation is not extended. *)
CharacterSetShort(index) ==
  /\ setpoint' = index
  /\ extend' = FALSE
  /\ distance' = Left(position, index)
  /\ owed' = IF origin # Lost THEN minimum ELSE 0
  /\ UNCHANGED <<wheelVars, encoderVars, position, configVars, override, speed, motorVars, origin>>
  /\ Command

(* property_character_set: distance_update, and an extension by one        *)
(* revolution unless distance_update has already made it.                  *)
CharacterSet(index) ==
  /\ setpoint' = index
  /\ extend' = (Left(position, index) < minimum)
  /\ distance' = IF extend' THEN Left(position, index) + Rev ELSE Left(position, index)
  /\ owed' = IF origin # Lost THEN minimum ELSE 0
  /\ UNCHANGED <<wheelVars, encoderVars, position, configVars, override, speed, motorVars, origin>>
  /\ Command

(* CMD_MOTOR_UNLOCK *)
MotorUnlock ==
  /\ override' = FALSE
  /\ UNCHANGED <<wheelVars, encoderVars, flapVars, configVars, speed, motorVars, origin, owed>>
  /\ Command

(* Mutant: the distance is not updated. *)
OffsetResetStale ==
  /\ setpoint' = 0
  /\ position' = Wrap(position - offset)
  /\ offset' = 0
  /\ owed' = 0
  /\ UNCHANGED <<wheelVars, encoderVars, distance, extend, minimum, override, speed, motorVars, origin>>
  /\ Command

(* CMD_OFFSET_RESET *)
OffsetReset ==
  /\ setpoint' = 0
  /\ position' = Wrap(position - offset)
  /\ offset' = 0
  /\ DistanceUpdate(position', 0)
  /\ owed' = 0
  /\ UNCHANGED <<wheelVars, encoderVars, minimum, override, speed, motorVars, origin>>
  /\ Command

(* property_offset_set: refused while the wheel has a distance to go. *)
OffsetSet(new) ==
  /\ new # offset /\ distance = 0
  /\ offset' = new
  /\ position' = Wrap(position + (offset - new))
  /\ UNCHANGED setpoint
  /\ DistanceUpdate(position', setpoint)
  /\ origin' = Lost /\ owed' = 0
  /\ UNCHANGED <<wheelVars, encoderVars, minimum, override, speed, motorVars>>
  /\ Command

(* minimum_rotation_property_set *)
MinimumRotationSet(new) ==
  /\ new # minimum
  /\ minimum' = IF new < Rev THEN new ELSE Rev
  /\ owed' = 0
  /\ UNCHANGED <<wheelVars, encoderVars, flapVars, offset, override, speed, motorVars, origin>>
  /\ Command

--------------------------------------------------------------------------------
Next ==
  \/ \E d \in Steps : Sample(d)
  \/ \E powered \in Power : Motor(powered)
  \/ \E index \in Setpoints : CharacterSet(index)
  \/ MotorUnlock
  \/ OffsetReset
  \/ \E new \in Offsets : OffsetSet(new)
  \/ \E new \in Minima : MinimumRotationSet(new)

Spec == Init /\ [][Next]_vars

(* Both timers keep ticking, a driven wheel turns, and the 12 V are there. *)
FairSpec ==
  /\ Spec
  /\ WF_vars(Sample(0)) /\ WF_vars(Sample(1))
  /\ WF_vars(Motor(TRUE))
--------------------------------------------------------------------------------
(* Every variable keeps its type; the backspin counter stays in its width. *)
TypeOK ==
  /\ phys \in 0 .. Rev - 1 /\ back \in 0 .. MaxBack
  /\ oldPattern \in 0 .. 3 /\ zeroPrev \in BOOLEAN /\ lockout \in BOOLEAN
  /\ backspin \in -CounterHalf .. CounterHalf - 1
  /\ position \in 0 .. Rev - 1 \cup Offsets /\ setpoint \in 0 .. Rev - 1
  /\ distance \in 0 .. 2 * Rev - 1 /\ extend \in BOOLEAN
  /\ offset \in Offsets \cup {0} /\ minimum \in 0 .. Rev
  /\ override \in BOOLEAN /\ speed \in BOOLEAN
  /\ backTimeout \in 0 .. BackTicks /\ distancePrev \in 0 .. 2 * Rev - 1
  /\ drive \in {"off", "fwd", "back"}
  /\ commands \in 0 .. MaxCommands /\ origin \in 0 .. Rev - 1 \cup {Lost} /\ owed \in 0 .. Rev
  /\ homed \in {"no", "yes", "off"}

(* The encoder is zeroed at two places only: the mark, where the wheel     *)
(* comes forward out of the zero sensor's window, and the place before the *)
(* window, where a wheel that is not locked out falls back out of it: the  *)
(* count is then ZeroWidth + 1 flaps ahead of the wheel until it is zeroed *)
(* at the mark (openflap.c:79 tests the sensor and not the way the wheel   *)
(* turns).  From either place on, the count of flaps and the backspin      *)
(* counter together follow the wheel through every reversal, no pulse      *)
(* counted twice and none lost, until the wheel slips or the offset is     *)
(* rewritten.                                                              *)
Tracks ==
  origin # Lost =>
    /\ origin \in {0, Rev - ZeroWidth - 1}
    /\ backspin \in -MaxBack .. 0
    /\ Wrap(position) = Wrap(phys - origin - backspin + offset)

(* The distance is never stale: whoever changes the position, the setpoint *)
(* or the offset also updates it.                                          *)
DistanceIsCurrent == Wrap(distance) = Left(position, setpoint)

(* A turn does not end before the minimum rotation that was in force when  *)
(* the character was set, unless the configuration is changed, the wheel   *)
(* slips, or the position jumps to the offset on the way, where the zero   *)
(* sensor goes off (see Tracks and NeverBack).                             *)
MinimumKept == owed <= distance

(* Both hold at once of the one distance the motor is driven by.           *)
DistanceHolds == DistanceIsCurrent /\ MinimumKept

(* The comments at openflap.c:57 and 60: the flap position is not          *)
(* decremented, and does not jump back over the mark.  That is claimed of  *)
(* a position that was zeroed at the mark and stays so: where the wheel    *)
(* falls back out of the sensor's window it jumps, and again at the mark.  *)
NeverBack ==
  [][origin = 0 /\ origin' = 0 /\ offset' = offset => position' \in {position, Wrap(position + 1)}]_vars

(* An unlocked module brings the wheel to the wanted flap, if the minimum  *)
(* rotation is less than a whole one (from a whole one on, distance_update *)
(* extends every turn again and again).  It arrives after it has passed    *)
(* the mark once, unless homing is called off before that: by a slip that  *)
(* hides the mark, by the sensor going off elsewhere (see Tracks), or by a *)
(* write, as the character at the invalid position 0 of main.c:104 is      *)
(* "there" at once.                                                        *)
Arrives == ~override ~> distance = 0 /\ homed # "no"

(* openflap_config.h:23: the offset is that of the encoder compared to the *)
(* symbol index, also right after it has been changed.                     *)
OffsetHolds == [][origin = 0 /\ backspin = 0 /\ offset' # offset => position' = Wrap(phys' + offset')]_vars
================================================================================
