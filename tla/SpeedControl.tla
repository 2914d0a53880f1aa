------------------------------ MODULE SpeedControl -----------------------------
(***************************************************************************)
(* The arithmetic behind the motor of a module: how fast the wheel turns,  *)
(* how fast it should, and what a PID controller, two interpolations and a *)
(* pair of pwm registers make of the difference.                           *)
(*                                                                         *)
(* FlapMotion decides on the direction of the motor alone and leaves speed *)
(* and decay out; PlannedDrive is its decision, DrivesAsPlanned says that  *)
(* the arithmetic never turns it into another one.                         *)
(***************************************************************************)
EXTENDS Integers, Sequences

CONSTANTS
  Distances,    (* flap distances                                            *)
  Deltas,       (* pulses, modulo a revolution, since the last measurement   *)
  Gaps,         (* ticks of the sense timer since the last measurement       *)
  Supply,       (* readings of the 12 V detection                            *)
  SpinTicks,    (* MOTOR_BACKSPIN_DURATION_TICKS                             *)
  MaxTicks      (* bound: ticks of the sense and pwm timers                  *)

ASSUME SpeedAssumption ==
  /\ Distances \subseteq Nat /\ Deltas \subseteq 0 .. 47 /\ Gaps \subseteq Nat \ {0}
  /\ Supply \subseteq BOOLEAN /\ SpinTicks \in Nat /\ MaxTicks \in Nat

VARIABLES
  wanted, actual,         (* encoder_rps_x100_setpoint, encoder_rps_x100_actual  *)
  integral,               (* pid_ctx.integral                                    *)
  ccr3, ccr4,             (* TIM1: compare values of the bridge                  *)
  left, leftPrev,         (* flap_distance, flap_distance_prev                   *)
  spinLeft,               (* motor_backspin_timeout_tick                         *)
  locked,                 (* motor_control_override                              *)
  ticks                   (* bound: ticks so far                                 *)

speedVars == <<wanted, actual, integral, ccr3, ccr4, left, leftPrev, spinLeft, locked, ticks>>

SpeedInit ==
  /\ wanted = 0 /\ actual = 0 /\ integral = 0 /\ ccr3 = 0 /\ ccr4 = 0
  /\ left = 48 /\ leftPrev = 0 /\ spinLeft = 0 /\ locked = TRUE /\ ticks = 0

AbsOf(a) == IF a < 0 THEN -a ELSE a
Clamp(a, low, high) == IF a < low THEN low ELSE IF a > high THEN high ELSE a

(* C's division, which truncates towards zero. *)
Quot(a, b) == LET q == AbsOf(a) \div AbsOf(b) IN IF (a < 0) = (b < 0) THEN q ELSE -q

--------------------------------------------------------------------------------
(* Interpolation: interpolation.c, with the tables of main.c *)

(* The interval of the knots xs that v is in. *)
Interval(xs, v) == CHOOSE i \in 1 .. Len(xs) - 1 : xs[i] <= v /\ (v < xs[i + 1] \/ i + 1 = Len(xs))

Linear(xs, ys, v) ==
  LET c == Clamp(v, xs[1], xs[Len(xs)])
      i == Interval(xs, c)
  IN  ys[i] + Quot((ys[i + 1] - ys[i]) * (c - xs[i]), xs[i + 1] - xs[i])

SpeedKnots == <<0, 25, 30, 40, 50, 70, 100>>
DecayKnots == <<0, 250, 500, 750, 1000>>
PwmTable ==
  << <<  0,   0,   0,   0,   0>>, <<150, 210, 260, 300, 310>>, <<165, 230, 290, 340, 340>>,
     <<185, 280, 350, 412, 420>>, <<215, 325, 420, 490, 500>>, <<320, 500, 600, 675, 690>>,
     <<700, 800, 900, 900, 900>> >>

Bilinear(v, w) ==
  LET x == Clamp(v, 0, 100)
      y == Clamp(w, 0, 1000)
      i == Interval(SpeedKnots, x)
      j == Interval(DecayKnots, y)
      x0 == SpeedKnots[i]  x1 == SpeedKnots[i + 1]
      y0 == DecayKnots[j]  y1 == DecayKnots[j + 1]
  IN  (  PwmTable[i][j] * (x1 - x) * (y1 - y) + PwmTable[i + 1][j] * (x - x0) * (y1 - y)
       + PwmTable[i][j + 1] * (x1 - x) * (y - y0) + PwmTable[i + 1][j + 1] * (x - x0) * (y - y0))
      \div ((x1 - x0) * (y1 - y0))

(* of_speed_setpoint_set_from_distance *)
WantedSpeed(d) == IF d < 1 THEN 0 ELSE Linear(<<2, 6>>, <<18, 75>>, d)

DecayFor(speed) == IF speed = 0 THEN 1000 ELSE Linear(<<30, 60>>, <<650, 0>>, speed)

--------------------------------------------------------------------------------
(* A tick of the sense timer: of_encoder_speed_calc *)

(* 48 * gap in 32 bits, of which it needs more from gap = 2^26 on.         *)
RevTicks(gap) ==
  LET r == (3 * gap) % 268435456 IN 16 * (IF r < 134217728 THEN r ELSE r - 268435456)

(* What a division by zero makes of a sum of speeds: nothing, or the most  *)
(* or the least that eight summands leave of an int32_t.                   *)
MostSpeed == 268435455
LeastSpeed == -268435456
NoQuotient == {0, MostSpeed, LeastSpeed}

(* The sliding average; a revolution takes 48 * gap / delta ticks.         *)
Averages(delta, gap) ==
  IF delta = 0 THEN {Quot(actual * 7, 8)} \cup NoQuotient
  ELSE LET rev == Quot(RevTicks(gap), delta)
       IN  IF rev = 0 THEN NoQuotient ELSE {Quot(actual * 7 + Quot(100000, rev), 8)}

CountTick == ticks < MaxTicks /\ ticks' = ticks + 1

(* The wheel has turned, or a write has moved its position. *)
SenseMoved(d, delta, gap) ==
  /\ CountTick
  /\ left' = d /\ wanted' = WantedSpeed(d)
  /\ actual' \in Averages(delta, gap)
  /\ UNCHANGED <<integral, ccr3, ccr4, leftPrev, spinLeft, locked>>

(* It has not: after 200 ticks the speed is 0, and next to the wrapping of *)
(* the 32-bit tick it may be so at once, or stay what it was.              *)
SenseStill ==
  /\ CountTick
  /\ wanted' = WantedSpeed(left)
  /\ actual' \in {actual, 0}
  /\ UNCHANGED <<integral, ccr3, ccr4, left, leftPrev, spinLeft, locked>>

--------------------------------------------------------------------------------
(* A tick of the pwm timer: motor_control_loop *)

(* pid_compute with kp = 6000, ki = 6, kd = 0 and the limits +-75 and      *)
(* +-1000; an error this large makes 6000 * error overflow: any output.    *)
IntegralLimit == 12500
Integral(error) == Clamp((IF wanted = 0 THEN 0 ELSE integral) + error, -IntegralLimit, IntegralLimit)
PidOutputs(error) ==
  IF AbsOf(error) > 345000 THEN {-1000, 0, 1000}
  ELSE {Clamp(Quot(6000 * error + 6 * Integral(error), 1000), -1000, 1000)}

(* Mutant: too fast a wheel is slowed by less speed, not by more decay. *)
SpeedByBrake(pid) == Bilinear(wanted, DecayFor(wanted)) + pid

ClSpeed(pid) == Bilinear(wanted, DecayFor(wanted)) + (IF pid < 0 THEN 0 ELSE pid)
Decay(pid) == DecayFor(wanted) - (IF pid < 0 THEN 4 * pid ELSE 0)

(* of_hal_motor_control: speed and decay become two compare values, which  *)
(* differ by the speed.                                                    *)
Registers(powered, speed, decay) ==
  LET s == IF powered THEN Clamp(speed, -1000, 1000) ELSE 0
      d == IF powered THEN Clamp(decay, 0, 1000) ELSE 0
      v == AbsOf(s)
      pwm1 == ((1000 - v) * d) \div 1000
      pwm2 == (v * (1000 - d)) \div 1000 + d
  IN  IF s >= 0 THEN ccr4' = pwm1 /\ ccr3' = pwm2 ELSE ccr3' = pwm1 /\ ccr4' = pwm2

Arriving == left = 0 /\ leftPrev # 0

ControlLoop(powered) ==
  /\ CountTick
  /\ integral' = Integral(wanted - actual)
  /\ \E pid \in PidOutputs(wanted - actual) :
       \/ /\ locked
          /\ UNCHANGED <<ccr3, ccr4, leftPrev, spinLeft>>
       \/ /\ ~locked
          /\ leftPrev' = left
          /\ \/ /\ Arriving
                /\ spinLeft' = SpinTicks
                /\ Registers(powered, ClSpeed(pid), Decay(pid))
             \/ /\ ~Arriving /\ spinLeft > 0
                /\ spinLeft' = spinLeft - 1
                /\ Registers(powered, -350, 1000)
             \/ /\ ~Arriving /\ spinLeft = 0
                /\ UNCHANGED spinLeft
                /\ IF left = 0 THEN Registers(powered, 0, 0)
                   ELSE Registers(powered, ClSpeed(pid), Decay(pid))
  /\ UNCHANGED <<wanted, actual, left, locked>>

(* of_hal_motor_is_running, and the way the bridge turns the motor *)
IsRunning == ccr3 # ccr4
Drive == IF ccr3 > ccr4 THEN "fwd" ELSE IF ccr3 < ccr4 THEN "back" ELSE "off"

--------------------------------------------------------------------------------
(* Property writes: CHARACTER and other setters change the distance,       *)
(* CMD_MOTOR_UNLOCK releases the motor.                                    *)
DistanceWrite(d) ==
  /\ left' = d
  /\ UNCHANGED <<wanted, actual, integral, ccr3, ccr4, leftPrev, spinLeft, locked, ticks>>

UnlockWrite ==
  /\ locked' = FALSE
  /\ UNCHANGED <<wanted, actual, integral, ccr3, ccr4, left, leftPrev, spinLeft, ticks>>

Sense == SenseStill \/ \E d \in Distances, delta \in Deltas, gap \in Gaps : SenseMoved(d, delta, gap)
Control == \E powered \in Supply : ControlLoop(powered)
Writes == UnlockWrite \/ \E d \in Distances : DistanceWrite(d)

--------------------------------------------------------------------------------
SpeedTypeOK ==
  /\ wanted \in 0 .. 75 /\ actual \in LeastSpeed .. MostSpeed
  /\ integral \in -IntegralLimit .. IntegralLimit /\ ccr3 \in 0 .. 1000 /\ ccr4 \in 0 .. 1000
  /\ left \in Distances \cup {48} /\ leftPrev \in Distances \cup {0, 48}
  /\ spinLeft \in 0 .. SpinTicks /\ locked \in BOOLEAN /\ ticks \in 0 .. MaxTicks

(* What FlapMotion's Motor wants of the bridge. *)
PlannedDrive ==
  IF ~Arriving /\ spinLeft > 0 THEN "back"
  ELSE IF wanted # 0 /\ (Arriving \/ left > 0) THEN "fwd"
  ELSE "off"

(* openflap.c:186-206: whatever the measured speed is - from a position    *)
(* that jumps, from a gap that overflows, from a division by zero - and    *)
(* whatever the PID has integrated, each powered tick of an unlocked motor *)
(* leaves the bridge turning the wheel the way that distance and backspin  *)
(* call for.  One thing the arithmetic may add: a wheel whose measured      *)
(* speed is negative, or makes the product overflow, is pushed forward     *)
(* though it is to stand.                                                  *)
PoweredTick == ~locked /\ ControlLoop(TRUE)
AsPlanned ==
  \/ Drive' = PlannedDrive
  \/ wanted = 0 /\ (actual < 0 \/ actual > 345000) /\ PlannedDrive = "off" /\ Drive' = "fwd"

DrivesAsPlanned == [][PoweredTick => AsPlanned]_speedVars
================================================================================
