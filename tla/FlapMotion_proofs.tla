--------------------------- MODULE FlapMotion_proofs ---------------------------
(***************************************************************************)
(* What holds of the positioning of the flap wheel for every wheel, every  *)
(* backspin shorter than a turn, and every configuration: the types, the   *)
(* count of flaps that follows the wheel, the distance that is kept, and,  *)
(* for offsets that the lockout of the zero sensor leaves room for, the    *)
(* position that never goes back.                                          *)
(***************************************************************************)
EXTENDS FlapMotion, TLAPS

--------------------------------------------------------------------------------
(* Arithmetic round the wheel *)

LEMMA RevType == Rev \in Nat /\ Rev > 0 /\ Rev >= 4
<1>1. Rev \in Nat /\ Rev > 0 /\ Rev % 4 = 0
  BY WheelAssumption
<1>. QED BY <1>1

LEMMA WrapType == \A x \in Int : Wrap(x) \in 0 .. Rev - 1
BY RevType DEF Wrap

LEMMA Division == \A x \in Int : (x \div Rev) \in Int /\ x = Rev * (x \div Rev) + (x % Rev)
BY RevType

LEMMA Remainder ==
  ASSUME NEW q \in Int, NEW r \in 0 .. Rev - 1
  PROVE  (Rev * q + r) % Rev = r
BY RevType

(* Whole turns do not move the wheel. *)
LEMMA WholeTurns ==
  ASSUME NEW q \in Int, NEW x \in Int
  PROVE  Wrap(x + Rev * q) = Wrap(x)
<1> DEFINE d == x \div Rev
           p == q + d
           r == x % Rev
           u == Rev * q
           v == Rev * d
<1>1. /\ d \in Int /\ p \in Int /\ r \in 0 .. Rev - 1 /\ x = v + r
  BY Division, WrapType DEF Wrap
<1>2. u \in Int /\ v \in Int /\ u + v = Rev * p
  BY <1>1, RevType
<1>. HIDE DEF p, r, u, v
<1>3. x + u = Rev * p + r
  BY <1>1, <1>2, RevType
<1>. QED BY <1>1, <1>3, Remainder DEF r, u, Wrap

LEMMA WrapSame == ASSUME NEW x \in 0 .. Rev - 1 PROVE Wrap(x) = x
BY RevType DEF Wrap

(* Every number is a whole number of turns off the place it wraps to. *)
LEMMA WrapTurns ==
  ASSUME NEW x \in Int
  PROVE  \E q \in Int : Wrap(x) = x + Rev * q
<1>1. PICK d \in Int : x = Rev * d + Wrap(x)
  BY Division DEF Wrap
<1>2. WITNESS -d \in Int
<1>3. Rev * d \in Int /\ Rev * (-d) = -(Rev * d)
  BY <1>1, RevType
<1>. QED BY <1>1, <1>3, WrapType

(* Two numbers at one place stay at one place when both move alike. *)
LEMMA MoveAlike ==
  ASSUME NEW a \in Int, NEW b \in Int, NEW c \in Int, Wrap(a) = Wrap(b)
  PROVE  Wrap(a + c) = Wrap(b + c) /\ Wrap(c - a) = Wrap(c - b)
<1>1. PICK q \in Int : Wrap(a) = a + Rev * q
  BY WrapTurns
<1>2. PICK r \in Int : Wrap(b) = b + Rev * r
  BY WrapTurns
<1> DEFINE u == Rev * q
           v == Rev * r
<1>3. u \in Int /\ v \in Int /\ Rev * (r - q) = v - u /\ Rev * (q - r) = u - v
  <2>1. u \in Int /\ v \in Int
    BY RevType
  <2>2. Rev * (r - q) = Rev * r - Rev * q
    BY RevType
  <2>3. Rev * (q - r) = Rev * q - Rev * r
    BY RevType
  <2>. QED BY <2>1, <2>2, <2>3
<1>4. a + u = b + v
  BY <1>1, <1>2
<1>. HIDE DEF u, v
<1>5. a + c = (b + c) + Rev * (r - q) /\ c - a = (c - b) + Rev * (q - r)
  BY <1>3, <1>4
<1>6. b + c \in Int /\ c - b \in Int /\ r - q \in Int /\ q - r \in Int
  OBVIOUS
<1>7. Wrap((b + c) + Rev * (r - q)) = Wrap(b + c)
  BY <1>6, WholeTurns
<1>8. Wrap((c - b) + Rev * (q - r)) = Wrap(c - b)
  BY <1>6, WholeTurns
<1>. QED BY <1>5, <1>7, <1>8

LEMMA StayTogether ==
  ASSUME NEW a \in Int, NEW b \in Int, NEW x \in Int, NEW y \in Int,
         Wrap(a) = Wrap(b), x - a = y - b
  PROVE  Wrap(x) = Wrap(y)
<1>1. x - a \in Int /\ x = a + (x - a) /\ y = b + (x - a)
  OBVIOUS
<1>2. Wrap(a + (x - a)) = Wrap(b + (x - a))
  BY <1>1, MoveAlike
<1>. QED BY <1>1, <1>2

LEMMA WrapTwice == ASSUME NEW x \in Int PROVE Wrap(Wrap(x)) = Wrap(x)
BY WrapType, WrapSame

(* One pulse forward, one back: round the end of the wheel, or one place on. *)
LEMMA OnePulse ==
  ASSUME NEW x \in Int
  PROVE  /\ Wrap(x + 1) = IF Wrap(x) = Rev - 1 THEN 0 ELSE Wrap(x) + 1
         /\ Wrap(x - 1) = IF Wrap(x) = 0 THEN Rev - 1 ELSE Wrap(x) - 1
<1> DEFINE p == Wrap(x)
<1>1. p \in 0 .. Rev - 1 /\ Wrap(p) = Wrap(x)
  BY WrapType, WrapTwice
<1>2. Wrap(x + 1) = Wrap(p + 1) /\ Wrap(x + (-1)) = Wrap(p + (-1))
  BY <1>1, MoveAlike
<1>. HIDE DEF p
<1>3. CASE p \in 1 .. Rev - 2
  BY <1>1, <1>2, <1>3, WrapSame, RevType DEF p
<1>4. CASE p = Rev - 1
  <2>1. Wrap(0 + Rev * 1) = Wrap(0)
    BY WholeTurns
  <2>2. Wrap(0) = 0 /\ Wrap(Rev - 2) = Rev - 2 /\ p + 1 = 0 + Rev * 1 /\ p + (-1) = Rev - 2
    BY <1>4, WrapSame, RevType
  <2>. QED BY <2>1, <2>2, <1>2, <1>4, RevType DEF p
<1>5. CASE p = 0
  <2>1. Wrap((Rev - 1) + Rev * (-1)) = Wrap(Rev - 1)
    BY WholeTurns, RevType
  <2>2. /\ Wrap(Rev - 1) = Rev - 1 /\ Wrap(1) = 1 /\ p + 1 = 1
        /\ p + (-1) = (Rev - 1) + Rev * (-1)
    BY <1>5, WrapSame, RevType
  <2>. QED BY <2>1, <2>2, <1>2, <1>5, RevType DEF p
<1>. QED BY <1>1, <1>3, <1>4, <1>5, RevType

LEMMA NarrowType == \A i \in Int : Narrow(i) \in -CounterHalf .. CounterHalf - 1
BY RevType, WheelAssumption DEF Narrow

LEMMA NarrowSame ==
  ASSUME NEW i \in -CounterHalf .. CounterHalf - 1 PROVE Narrow(i) = i
BY RevType, WheelAssumption DEF Narrow

--------------------------------------------------------------------------------
(* The encoder *)

LEMMA PatternType == \A p \in Int : Pattern(p) \in 0 .. 3
<1> SUFFICES ASSUME NEW p \in Int PROVE Pattern(p) \in 0 .. 3
  OBVIOUS
<1>1. p % 4 \in {0, 1, 2, 3}
  OBVIOUS
<1>. QED BY <1>1 DEF Pattern

LEMMA QemType == \A old, new \in 0 .. 3 : Qem(old, new) \in {-1, 0, 1, 2}
<1> SUFFICES ASSUME NEW old \in 0 .. 3, NEW new \in 0 .. 3 PROVE Qem(old, new) \in {-1, 0, 1, 2}
  OBVIOUS
<1>1. old \in {0, 1, 2, 3} /\ new \in {0, 1, 2, 3}
  OBVIOUS
<1>2. CASE old = 0
  BY <1>1, <1>2 DEF Qem
<1>3. CASE old = 1
  BY <1>1, <1>3 DEF Qem
<1>4. CASE old = 2
  BY <1>1, <1>4 DEF Qem
<1>5. CASE old = 3
  BY <1>1, <1>5 DEF Qem
<1>. QED BY <1>1, <1>2, <1>3, <1>4, <1>5

(* A pattern that follows the wheel tells every single pulse, and its way. *)
LEMMA QemTells ==
  ASSUME NEW p \in 0 .. Rev - 1
  PROVE  /\ Qem(Pattern(p), Pattern(p)) = 0
         /\ Qem(Pattern(p), Pattern(Wrap(p + 1))) = 1
         /\ Qem(Pattern(p), Pattern(Wrap(p - 1))) = -1
<1>1. /\ Wrap(p + 1) = IF p = Rev - 1 THEN 0 ELSE p + 1
      /\ Wrap(p - 1) = IF p = 0 THEN Rev - 1 ELSE p - 1
  BY OnePulse, WrapSame, RevType
<1>2. Rev \in Nat /\ Rev % 4 = 0
  BY WheelAssumption
<1>3. /\ Wrap(p + 1) % 4 = (p + 1) % 4
      /\ Wrap(p - 1) % 4 = (p - 1) % 4
  BY <1>1, <1>2, RevType
<1>4. CASE p % 4 = 0
  <2>1. (p + 1) % 4 = 1 /\ (p - 1) % 4 = 3
    BY <1>4
  <2>. QED BY <1>3, <1>4, <2>1 DEF Pattern, Qem
<1>5. CASE p % 4 = 1
  <2>1. (p + 1) % 4 = 2 /\ (p - 1) % 4 = 0
    BY <1>5
  <2>. QED BY <1>3, <1>5, <2>1 DEF Pattern, Qem
<1>6. CASE p % 4 = 2
  <2>1. (p + 1) % 4 = 3 /\ (p - 1) % 4 = 1
    BY <1>6
  <2>. QED BY <1>3, <1>6, <2>1 DEF Pattern, Qem
<1>7. CASE p % 4 = 3
  <2>1. (p + 1) % 4 = 0 /\ (p - 1) % 4 = 2
    BY <1>7
  <2>. QED BY <1>3, <1>7, <2>1 DEF Pattern, Qem
<1>. QED BY <1>4, <1>5, <1>6, <1>7

LEMMA LeftType == \A from, to \in Int : Left(from, to) \in 0 .. Rev - 1
BY WrapType DEF Left

--------------------------------------------------------------------------------
(* The types *)

(* The distance is less than two turns, whatever it is computed from. *)
LEMMA UpdateTypes ==
  ASSUME TypeOK, NEW from \in Int, NEW to \in Int, DistanceUpdate(from, to)
  PROVE  /\ extend' \in BOOLEAN
         /\ distance' \in 0 .. 2 * Rev - 1
         /\ distance' = Left(from, to) + (IF extend' THEN Rev ELSE 0)
<1>1. Left(from, to) \in 0 .. Rev - 1
  BY LeftType
<1>2. extend' \in BOOLEAN
  BY DEF DistanceUpdate, TypeOK
<1>3. distance' = IF extend' THEN Left(from, to) + Rev ELSE Left(from, to)
  BY DEF DistanceUpdate
<1>. QED BY <1>1, <1>2, <1>3, RevType

(* Places of a position: a flap of the wheel, or an offset as it is stored. *)
LEMMA PlaceTypes ==
  ASSUME TypeOK
  PROVE  /\ phys \in Int /\ back \in Int /\ position \in Int /\ setpoint \in Int /\ offset \in Int
         /\ backspin \in Int /\ minimum \in Int /\ distance \in Int /\ owed \in Int
         /\ offset \in 0 .. Rev - 1 \cup Offsets
         /\ Wrap(phys) = phys
BY WheelAssumption, RevType, WrapSame DEF TypeOK

LEMMA CountTypes ==
  ASSUME TypeOK, NEW qem \in {-1, 0, 1, 2}, Count(qem)
  PROVE  /\ backspin' \in -CounterHalf .. CounterHalf - 1 /\ lockout' \in BOOLEAN
         /\ position' \in 0 .. Rev - 1 \cup Offsets
         /\ extend' \in BOOLEAN /\ distance' \in 0 .. 2 * Rev - 1
<1>1. CASE backspin < 0 \/ qem # 1
  <2>1. backspin' = Narrow(backspin + qem) /\ UNCHANGED <<lockout, position, distance, extend>>
    BY <1>1 DEF Count
  <2>2. backspin + qem \in Int
    BY PlaceTypes
  <2>. QED BY <2>1, <2>2, NarrowType DEF TypeOK
<1>2. CASE ~(backspin < 0 \/ qem # 1)
  <2>1. /\ EncoderIncrement /\ UNCHANGED backspin
        /\ lockout' = (lockout /\ position' <= LockoutPast)
    BY <1>2 DEF Count
  <2>2. position' \in 0 .. Rev - 1
    <3>1. position + 1 \in Int
      BY PlaceTypes
    <3>. QED BY <2>1, <3>1, WrapType DEF EncoderIncrement
  <2>3. position' \in Int /\ setpoint \in Int
    BY <2>2, PlaceTypes
  <2>4. extend' \in BOOLEAN /\ distance' \in 0 .. 2 * Rev - 1
    BY <2>1, <2>3, UpdateTypes DEF EncoderIncrement
  <2>5. lockout' \in BOOLEAN
    BY <2>1 DEF TypeOK
  <2>. QED BY <2>1, <2>2, <2>4, <2>5 DEF TypeOK
<1>. QED BY <1>1, <1>2

LEMMA ZeroTypes ==
  ASSUME TypeOK, EncoderZero
  PROVE  /\ position' \in 0 .. Rev - 1 \cup Offsets
         /\ extend' \in BOOLEAN /\ distance' \in 0 .. 2 * Rev - 1
<1>1. position' \in 0 .. Rev - 1 \cup Offsets /\ position' \in Int /\ setpoint \in Int
  BY PlaceTypes DEF EncoderZero
<1>. QED BY <1>1, UpdateTypes DEF EncoderZero

LEMMA TurnTypes ==
  ASSUME TypeOK, NEW d \in Steps, CanTurn(d), Turn(d)
  PROVE  /\ phys' \in 0 .. Rev - 1 /\ phys' \in Int /\ back' \in 0 .. MaxBack
         /\ Pattern(phys') \in 0 .. 3
         /\ Qem(oldPattern, Pattern(phys')) \in {-1, 0, 1, 2}
<1>1. d \in {-1, 0, 1, 2}
  BY DEF Steps
<1>2. phys' \in 0 .. Rev - 1
  <2>1. phys + d \in Int
    BY <1>1, PlaceTypes
  <2>. QED BY <2>1, WrapType DEF Turn
<1>3. back' \in 0 .. MaxBack
  <2>1. back \in 0 .. MaxBack /\ MaxBack \in Nat /\ (d < 0 => back < MaxBack)
    BY WheelAssumption, RevType DEF TypeOK, CanTurn
  <2>2. back' = IF back > d THEN back - d ELSE 0
    BY DEF Turn
  <2>. QED BY <1>1, <2>1, <2>2
<1>4. phys' \in Int
  BY <1>2
<1>5. Pattern(phys') \in 0 .. 3 /\ oldPattern \in 0 .. 3
  BY <1>4, PatternType DEF TypeOK
<1>. QED BY <1>2, <1>3, <1>4, <1>5, QemType

LEMMA PositionTypes ==
  ASSUME TypeOK, NEW d \in Steps, CanTurn(d), Turn(d), PositionUpdate
  PROVE  /\ oldPattern' \in 0 .. 3 /\ zeroPrev' \in BOOLEAN /\ lockout' \in BOOLEAN
         /\ backspin' \in -CounterHalf .. CounterHalf - 1
         /\ position' \in 0 .. Rev - 1 \cup Offsets
         /\ extend' \in BOOLEAN /\ distance' \in 0 .. 2 * Rev - 1
<1> DEFINE qem == Qem(oldPattern, Pattern(phys'))
<1>1. Pattern(phys') \in 0 .. 3 /\ qem \in {-1, 0, 1, 2}
  BY TurnTypes
<1>2. oldPattern' \in 0 .. 3
  BY <1>1 DEF PositionUpdate
<1>3. CASE qem = 2
  <2>1. UNCHANGED <<zeroPrev, backspin, lockout, position, distance, extend>>
    BY <1>3 DEF PositionUpdate
  <2>. QED BY <1>2, <2>1 DEF TypeOK
<1>4. CASE qem # 2
  <2>1. /\ zeroPrev' = AtZero(phys')
        /\ \/ EncoderZero /\ backspin' = 0 /\ lockout' = TRUE
           \/ Count(qem)
    BY <1>4 DEF PositionUpdate
  <2>2. zeroPrev' \in BOOLEAN
    BY <2>1 DEF AtZero
  <2>3. 0 \in -CounterHalf .. CounterHalf - 1
    BY WheelAssumption, RevType
  <2>4. CASE EncoderZero /\ backspin' = 0 /\ lockout' = TRUE
    BY <1>2, <2>2, <2>3, <2>4, ZeroTypes
  <2>5. CASE Count(qem)
    BY <1>1, <1>2, <2>2, <2>5, CountTypes
  <2>. QED BY <2>1, <2>4, <2>5
<1>. QED BY <1>3, <1>4

(* A sample finds the wheel zeroed, or loses its place, or neither. *)
LEMMA OriginCases ==
  ASSUME NEW d \in Steps, Sample(d)
  PROVE  \/ origin' = Lost
         \/ d # 2 /\ Zeroed(d) /\ AtZero(phys) /\ origin' = phys'
         \/ d # 2 /\ ~Zeroed(d) /\ origin' = origin
<1> DEFINE lost == d = 2 \/ (Zeroed(d) /\ ~AtZero(phys))
           found == Zeroed(d) /\ AtZero(phys)
<1>1. origin' = CASE lost -> Lost [] found -> phys' [] OTHER -> origin
  BY DEF Sample, OriginMoves
<1>2. ~(lost /\ found)
  BY DEF Zeroed
<1>3. CASE lost
  <2>. HIDE DEF lost, found
  <2>. QED BY <1>1, <1>2, <1>3
<1>4. CASE found
  <2>1. origin' = phys'
    <3>. HIDE DEF lost, found
    <3>. QED BY <1>1, <1>2, <1>4
  <2>. QED BY <1>4, <2>1 DEF Zeroed
<1>5. CASE ~lost /\ ~found
  <2>1. origin' = origin
    <3>. HIDE DEF lost, found
    <3>. QED BY <1>1, <1>5
  <2>2. d # 2 /\ ~Zeroed(d)
    BY <1>5 DEF AtZero
  <2>. QED BY <2>1, <2>2
<1>. QED BY <1>3, <1>4, <1>5

(* A sample calls off what is owed, takes one pulse off it, or leaves it. *)
LEMMA OwedCases ==
  ASSUME NEW d \in Steps, Sample(d)
  PROVE  \/ owed' = 0
         \/ /\ owed > 0 /\ owed' = owed - 1
            /\ position' = Wrap(position + 1)
         \/ /\ owed' = owed /\ (owed > 0 => position' # Wrap(position + 1))
            /\ position' \in {position, Wrap(position + 1)}
<1> DEFINE kept == Lost \notin {origin, origin'} /\ position' \in {position, Wrap(position + 1)}
           off == ~kept
           paid == kept /\ position' = Wrap(position + 1) /\ owed > 0
<1>1. owed' = CASE off -> 0 [] paid -> owed - 1 [] OTHER -> owed
  BY DEF Sample
<1>2. off => ~paid
  OBVIOUS
<1>3. CASE off
  <2>. HIDE DEF off, paid
  <2>. QED BY <1>1, <1>2, <1>3
<1>4. CASE paid
  <2>1. owed' = owed - 1
    <3>. HIDE DEF off, paid
    <3>. QED BY <1>1, <1>2, <1>4
  <2>. QED BY <1>4, <2>1
<1>5. CASE ~off /\ ~paid
  <2>1. owed' = owed
    <3>. HIDE DEF off, paid
    <3>. QED BY <1>1, <1>5
  <2>. QED BY <1>5, <2>1
<1>. QED BY <1>3, <1>4, <1>5

LEMMA TypeInit == Init => TypeOK
<1> SUFFICES ASSUME Init PROVE TypeOK
  OBVIOUS
<1>1. minimum \in 0 .. Rev
  BY WheelAssumption, RevType DEF Init
<1>2. -Rev \in -CounterHalf .. CounterHalf - 1 /\ Rev \in 0 .. 2 * Rev - 1 /\ 0 \in 0 .. Rev - 1
  BY WheelAssumption, RevType
<1>3. 0 \in 0 .. MaxBack /\ 0 \in 0 .. BackTicks /\ 0 \in 0 .. MaxCommands /\ 0 \in 0 .. 2 * Rev - 1
  BY WheelAssumption, RevType
<1>4. phys \in 0 .. Rev - 1 /\ offset \in Offsets
  BY DEF Init
<1>5. 0 \in 0 .. 3 /\ 0 \in 0 .. Rev
  BY RevType
<1>6. zeroPrev \in BOOLEAN /\ lockout \in BOOLEAN /\ extend \in BOOLEAN /\ override \in BOOLEAN /\ speed \in BOOLEAN /\ origin \in 0 .. Rev - 1 \cup {Lost}
  BY DEF Init
<1>. QED BY <1>1, <1>2, <1>3, <1>4, <1>5, <1>6 DEF Init, TypeOK

LEMMA CommandTypes ==
  ASSUME TypeOK, Command
  PROVE  commands' \in 0 .. MaxCommands /\ homed' \in {"no", "yes", "off"}
<1>1. commands' \in 0 .. MaxCommands
  BY WheelAssumption DEF TypeOK, Command
<1>2. homed' \in {"no", "yes", "off"}
  BY DEF TypeOK, Command
<1>. QED BY <1>1, <1>2

LEMMA TypeNext == TypeOK /\ [Next]_vars => TypeOK'
<1> SUFFICES ASSUME TypeOK, [Next]_vars PROVE TypeOK'
  OBVIOUS
<1>. USE DEF wheelVars, encoderVars, flapVars, configVars, motorVars
<1>a. position \in Int /\ setpoint \in Int /\ offset \in Int /\ 0 \in 0 .. Rev - 1 /\ 0 \in 0 .. Rev /\ 0 \in Int
  BY PlaceTypes, RevType
<1>1. ASSUME NEW d \in Steps, Sample(d) PROVE TypeOK'
  <2>1. CanTurn(d) /\ Turn(d) /\ PositionUpdate
    BY <1>1 DEF Sample
  <2>2. /\ phys' \in 0 .. Rev - 1 /\ back' \in 0 .. MaxBack
    BY <2>1, TurnTypes
  <2>3. /\ oldPattern' \in 0 .. 3 /\ zeroPrev' \in BOOLEAN /\ lockout' \in BOOLEAN
        /\ backspin' \in -CounterHalf .. CounterHalf - 1
        /\ position' \in 0 .. Rev - 1 \cup Offsets
        /\ extend' \in BOOLEAN /\ distance' \in 0 .. 2 * Rev - 1
    BY <2>1, PositionTypes
  <2>4. speed' \in BOOLEAN
    BY <1>1 DEF Sample, WantsSpeed
  <2>5. origin' \in 0 .. Rev - 1 \cup {Lost}
    <3>1. origin' \in {Lost, phys', origin}
      BY <1>1, OriginCases
    <3>. QED BY <2>2, <3>1 DEF TypeOK
  <2>6. owed' \in 0 .. Rev
    <3>1. owed' \in {0, owed} \/ (owed > 0 /\ owed' = owed - 1)
      BY <1>1, OwedCases
    <3>. QED BY <3>1, RevType DEF TypeOK
  <2>7. homed' \in {"no", "yes", "off"}
    BY <1>1 DEF Sample, TypeOK
  <2>8. UNCHANGED <<setpoint, configVars, override, motorVars, commands>>
    BY <1>1 DEF Sample
  <2>. QED BY <2>2, <2>3, <2>4, <2>5, <2>6, <2>7, <2>8 DEF TypeOK
<1>2. ASSUME NEW powered \in Power, Motor(powered) PROVE TypeOK'
  <2>1. backTimeout' \in 0 .. BackTicks
    <3>1. \/ backTimeout' = BackTicks
          \/ backTimeout > 0 /\ backTimeout' = backTimeout - 1
          \/ backTimeout' = backTimeout
      BY <1>2 DEF Motor
    <3>. QED BY <3>1, WheelAssumption DEF TypeOK
  <2>2. drive' \in {"off", "fwd", "back"}
    BY <1>2 DEF Motor, Bridge
  <2>3. distancePrev' = distance
    BY <1>2 DEF Motor
  <2>. QED BY <1>2, <2>1, <2>2, <2>3 DEF TypeOK, Motor
<1>3. ASSUME NEW index \in Setpoints, CharacterSet(index) PROVE TypeOK'
  <2>1. commands' \in 0 .. MaxCommands /\ homed' \in {"no", "yes", "off"}
    BY <1>3, CommandTypes DEF CharacterSet
  <2>2. index \in 0 .. Rev - 1 /\ index \in Int
    BY WheelAssumption
  <2>3. Left(position, index) \in 0 .. Rev - 1
    BY <1>a, <2>2, LeftType
  <2>4. extend' \in BOOLEAN
    BY <1>3 DEF CharacterSet
  <2>5. distance' \in 0 .. 2 * Rev - 1
    <3>1. distance' = IF extend' THEN Left(position, index) + Rev ELSE Left(position, index)
      BY <1>3 DEF CharacterSet
    <3>. QED BY <2>3, <3>1, RevType
  <2>6. owed' \in 0 .. Rev
    BY <1>3, <1>a DEF CharacterSet, TypeOK
  <2>. QED BY <1>3, <2>1, <2>2, <2>4, <2>5, <2>6 DEF TypeOK, CharacterSet
<1>4. CASE MotorUnlock
  <2>1. commands' \in 0 .. MaxCommands /\ homed' \in {"no", "yes", "off"}
    BY <1>4, CommandTypes DEF MotorUnlock
  <2>. QED BY <1>4, <2>1 DEF TypeOK, MotorUnlock
<1>5. CASE OffsetReset
  <2>1. commands' \in 0 .. MaxCommands /\ homed' \in {"no", "yes", "off"}
    BY <1>5, CommandTypes DEF OffsetReset
  <2>2. position' \in 0 .. Rev - 1
    <3>1. position - offset \in Int
      BY <1>a
    <3>. QED BY <1>5, <3>1, WrapType DEF OffsetReset
  <2>3. position' \in Int
    BY <2>2
  <2>4. extend' \in BOOLEAN /\ distance' \in 0 .. 2 * Rev - 1
    BY <1>5, <1>a, <2>3, UpdateTypes DEF OffsetReset
  <2>. QED BY <1>5, <1>a, <2>1, <2>2, <2>4 DEF TypeOK, OffsetReset
<1>6. ASSUME NEW new \in Offsets, OffsetSet(new) PROVE TypeOK'
  <2>1. commands' \in 0 .. MaxCommands /\ homed' \in {"no", "yes", "off"}
    BY <1>6, CommandTypes DEF OffsetSet
  <2>2. position' \in 0 .. Rev - 1
    <3>1. position + (offset - new) \in Int
      BY <1>a, WheelAssumption
    <3>. QED BY <1>6, <3>1, WrapType DEF OffsetSet
  <2>3. position' \in Int
    BY <2>2
  <2>4. extend' \in BOOLEAN /\ distance' \in 0 .. 2 * Rev - 1
    BY <1>6, <1>a, <2>3, UpdateTypes DEF OffsetSet
  <2>. QED BY <1>6, <1>a, <2>1, <2>2, <2>4 DEF TypeOK, OffsetSet
<1>7. ASSUME NEW new \in Minima, MinimumRotationSet(new) PROVE TypeOK'
  <2>1. commands' \in 0 .. MaxCommands /\ homed' \in {"no", "yes", "off"}
    BY <1>7, CommandTypes DEF MinimumRotationSet
  <2>2. minimum' \in 0 .. Rev
    BY <1>7, WheelAssumption, RevType DEF MinimumRotationSet
  <2>. QED BY <1>7, <1>a, <2>1, <2>2 DEF TypeOK, MinimumRotationSet
<1>8. CASE UNCHANGED vars
  BY <1>8 DEF TypeOK, vars
<1>. QED BY <1>1, <1>2, <1>3, <1>4, <1>5, <1>6, <1>7, <1>8 DEF Next

(* Every variable keeps its type: in particular the distance is less than  *)
(* two turns, and the backspin counter stays in its width.                 *)
THEOREM MotionTypes == Spec => []TypeOK
<1>. QED BY TypeInit, TypeNext, PTL DEF Spec

--------------------------------------------------------------------------------
(* The count of flaps that follows the wheel *)

(* Nothing was sampled before the zero sensor was last seen on. *)
PatternInv == zeroPrev => oldPattern = Pattern(phys)

(* What the count rests on: the last sample is of the place the wheel is   *)
(* at, and no more is to be made up for than the wheel has fallen back.    *)
TrackInv ==
  origin # Lost =>
    /\ oldPattern = Pattern(phys) /\ zeroPrev = AtZero(phys)
    /\ origin \in {0, Rev - ZeroWidth - 1}
    /\ backspin \in -back .. 0
    /\ Wrap(position) = Wrap(phys - origin - backspin + offset)

LEMMA TrackImplies == TypeOK /\ TrackInv => Tracks
<1> SUFFICES ASSUME TypeOK, TrackInv, origin # Lost
             PROVE  /\ origin \in {0, Rev - ZeroWidth - 1}
                    /\ backspin \in -MaxBack .. 0
                    /\ Wrap(position) = Wrap(phys - origin - backspin + offset)
  BY DEF Tracks
<1>. QED BY WheelAssumption, RevType DEF TypeOK, TrackInv

LEMMA PatternSampled ==
  ASSUME TypeOK, PatternInv, NEW d \in Steps, Sample(d)
  PROVE  /\ PatternInv' /\ oldPattern' = Pattern(phys')
         /\ phys' = Wrap(phys + d) /\ back' = (IF back > d THEN back - d ELSE 0)
<1>1. oldPattern' = Pattern(phys')
  BY DEF Sample, PositionUpdate
<1>. QED BY <1>1 DEF Sample, Turn, PatternInv

(* The zero sensor's window has two ends: the wheel leaves it where it     *)
(* passes the mark, or where it falls back to the place before the window. *)
LEMMA WindowEnds ==
  ASSUME TypeOK, NEW d \in {-1, 0, 1}, phys' = Wrap(phys + d), AtZero(phys), ~AtZero(phys')
  PROVE  \/ d = 1 /\ phys = Rev - 1 /\ phys' = 0
         \/ d = -1 /\ phys' = Rev - ZeroWidth - 1
<1>1. /\ phys \in 0 .. Rev - 1 /\ Wrap(phys) = phys
      /\ phys >= Rev - ZeroWidth /\ ~(phys' >= Rev - ZeroWidth) /\ ZeroWidth \in 1 .. Rev - 1
  BY PlaceTypes, WheelAssumption, RevType DEF TypeOK, AtZero
<1>2. CASE d = 0
  <2>1. phys + 0 = phys
    BY <1>1
  <2>. QED BY <1>1, <1>2, <2>1
<1>3. CASE d = -1
  <2>1. phys + (-1) = phys - 1
    BY <1>1
  <2>2. phys' = IF phys = 0 THEN Rev - 1 ELSE phys - 1
    BY <1>1, <1>3, <2>1, OnePulse
  <2>. QED BY <1>1, <1>3, <2>2, RevType
<1>4. CASE d = 1
  <2>1. phys' = IF phys = Rev - 1 THEN 0 ELSE phys + 1
    BY <1>1, <1>4, OnePulse
  <2>. QED BY <1>1, <1>4, <2>1, RevType
<1>. QED BY <1>2, <1>3, <1>4

(* A turn by one pulse, or none, is told from the pattern. *)
LEMMA PulseTold ==
  ASSUME TypeOK, NEW d \in {-1, 0, 1}, oldPattern = Pattern(phys), phys' = Wrap(phys + d)
  PROVE  Qem(oldPattern, Pattern(phys')) = d
<1>1. phys \in 0 .. Rev - 1 /\ Wrap(phys) = phys /\ phys \in Int
  BY PlaceTypes DEF TypeOK
<1>2. CASE d = 0
  <2>1. phys + 0 = phys
    BY <1>1
  <2>. QED BY <1>1, <1>2, <2>1, QemTells
<1>3. CASE d = -1
  <2>1. phys + (-1) = phys - 1
    BY <1>1
  <2>. QED BY <1>1, <1>3, <2>1, QemTells
<1>4. CASE d = 1
  BY <1>1, <1>4, QemTells
<1>. QED BY <1>2, <1>3, <1>4

(* Where it is zeroed, the position is the way from there. *)
LEMMA ZeroedTracks ==
  ASSUME TypeOK, TypeOK', oldPattern' = Pattern(phys'), zeroPrev' = AtZero(phys'),
         origin' = phys', phys' \in {0, Rev - ZeroWidth - 1},
         position' = offset, offset' = offset, backspin' = 0
  PROVE  TrackInv'
<1>1. back' \in Nat
  BY WheelAssumption, RevType DEF TypeOK
<1>2. \A n \in Nat : 0 \in -n .. 0
  OBVIOUS
<1>3. phys' - origin' - backspin' + offset' = position'
  <2>1. phys' \in 0 .. Rev - 1
    BY DEF TypeOK
  <2>2. phys' \in Int
    BY <2>1
  <2>3. offset \in Int
    BY PlaceTypes
  <2>4. \A x, y \in Int : x - x - 0 + y = y
    OBVIOUS
  <2>5. phys' - phys' - 0 + offset = offset
    BY <2>2, <2>3, <2>4
  <2>. QED BY <2>5
<1>. QED BY <1>1, <1>2, <1>3 DEF TrackInv

(* Counted or made up for, a pulse that is told keeps the count in step. *)
LEMMA CountTracks ==
  ASSUME TypeOK, TypeOK', TrackInv, origin # Lost, NEW d \in {-1, 0, 1}, CanTurn(d), Count(d),
         phys' = Wrap(phys + d), back' = (IF back > d THEN back - d ELSE 0),
         UNCHANGED <<offset, origin>>
  PROVE  /\ backspin' \in -back' .. 0
         /\ Wrap(position') = Wrap(phys' - origin' - backspin' + offset')
<1>1. /\ backspin \in -back .. 0 /\ Wrap(position) = Wrap(phys - origin - backspin + offset)
      /\ back \in 0 .. MaxBack /\ MaxBack \in Nat /\ MaxBack < CounterHalf /\ CounterHalf \in Nat
      /\ (d < 0 => back < MaxBack)
  BY WheelAssumption, RevType DEF TrackInv, TypeOK, CanTurn
<1>2. /\ phys \in Int /\ position \in Int /\ offset \in Int /\ backspin \in Int
      /\ origin \in Int /\ phys + d \in Int /\ d \in Int
  BY PlaceTypes, WheelAssumption, RevType DEF TrackInv
<1>3. Wrap(phys') = Wrap(phys + d)
  BY <1>2, WrapTwice
<1>4. phys' \in Int
  BY <1>2, WrapType
<1>5. CASE backspin < 0 \/ d # 1
  <2>1. backspin' = Narrow(backspin + d) /\ position' = position
    BY <1>5 DEF Count
  <2>2. backspin + d \in -CounterHalf .. CounterHalf - 1
    BY <1>1, <1>2, <1>5
  <2>3. backspin' = backspin + d
    BY <2>1, <2>2, NarrowSame
  <2>4. backspin' \in -back' .. 0
    <3>1. CASE back > d
      BY <1>1, <1>2, <1>5, <2>3, <3>1
    <3>2. CASE ~(back > d)
      BY <1>1, <1>2, <1>5, <2>3, <3>2
    <3>. QED BY <3>1, <3>2
  <2> DEFINE x == phys' - origin' - backspin' + offset'
             y == phys - origin - backspin + offset
             z == phys + d
  <2>5. x \in Int /\ y \in Int /\ z \in Int /\ x - phys' = y - z
    BY <1>2, <1>4, <2>3
  <2>. HIDE DEF x, y, z
  <2>6. Wrap(phys') = Wrap(z)
    BY <1>3 DEF z
  <2>7. Wrap(x) = Wrap(y)
    BY <1>4, <2>5, <2>6, StayTogether
  <2>. QED BY <1>1, <2>1, <2>4, <2>7 DEF x, y
<1>6. CASE ~(backspin < 0 \/ d # 1)
  <2>1. d = 1 /\ backspin = 0 /\ backspin' = 0 /\ position' = Wrap(position + 1)
    BY <1>1, <1>2, <1>6 DEF Count, EncoderIncrement
  <2>2. backspin' \in -back' .. 0
    <3>1. CASE back > d
      BY <1>1, <1>2, <2>1, <3>1
    <3>2. CASE ~(back > d)
      BY <1>1, <1>2, <2>1, <3>2
    <3>. QED BY <3>1, <3>2
  <2>3. Wrap(position') = Wrap(position + 1)
    <3>1. position + 1 \in Int
      BY <1>2
    <3>. QED BY <2>1, <3>1, WrapTwice
  <2> DEFINE x == phys' - origin' - backspin' + offset'
             y == phys - origin - backspin + offset
             z == phys + d
             u == y + 1
             v == position + 1
  <2>4. /\ x \in Int /\ y \in Int /\ z \in Int /\ u \in Int /\ v \in Int
        /\ x - phys' = u - z /\ u - y = v - position
    BY <1>2, <1>4, <2>1
  <2>5. Wrap(phys') = Wrap(z) /\ Wrap(y) = Wrap(position)
    BY <1>1, <1>3
  <2>. HIDE DEF x, y, z, u, v
  <2>6. Wrap(x) = Wrap(u)
    BY <1>4, <2>4, <2>5, StayTogether
  <2>7. Wrap(u) = Wrap(v)
    <3>1. Wrap(y + 1) = Wrap(position + 1)
      BY <1>2, <2>4, <2>5, MoveAlike
    <3>. QED BY <3>1 DEF u, v
  <2>. QED BY <2>2, <2>3, <2>6, <2>7 DEF x, v
<1>. QED BY <1>5, <1>6

LEMMA SampleTracks ==
  ASSUME TypeOK, TypeOK', PatternInv, TrackInv, NEW d \in Steps, Sample(d)
  PROVE  TrackInv'
<1> SUFFICES ASSUME origin' # Lost PROVE TrackInv'
  BY DEF TrackInv
<1> DEFINE qem == Qem(oldPattern, Pattern(phys'))
<1>1. /\ CanTurn(d) /\ Turn(d) /\ PositionUpdate /\ UNCHANGED offset
      /\ d # 2
      /\ \/ ZeroSeen /\ AtZero(phys) /\ origin' = phys'
         \/ ~ZeroSeen /\ origin # Lost /\ origin' = origin
  BY OriginCases DEF Sample, configVars, Zeroed
<1>2. d \in {-1, 0, 1}
  BY <1>1 DEF Steps
<1>3. /\ oldPattern' = Pattern(phys') /\ phys' = Wrap(phys + d)
      /\ back' = (IF back > d THEN back - d ELSE 0)
  BY PatternSampled
<1>4. oldPattern = Pattern(phys)
  BY <1>1 DEF TrackInv, PatternInv, ZeroSeen
<1>5. qem = d /\ qem # 2
  BY <1>2, <1>3, <1>4, PulseTold
<1>6. /\ zeroPrev' = AtZero(phys')
      /\ \/ ZeroSeen /\ EncoderZero /\ backspin' = 0
         \/ ~ZeroSeen /\ Count(d)
  BY <1>1, <1>5 DEF PositionUpdate
<1>7. CASE ZeroSeen
  <2>1. position' = offset /\ backspin' = 0
    BY <1>6, <1>7 DEF EncoderZero
  <2>2. phys' \in {0, Rev - ZeroWidth - 1}
    <3>1. AtZero(phys) /\ ~AtZero(phys')
      BY <1>1, <1>7 DEF ZeroSeen
    <3>. QED BY <1>2, <1>3, <3>1, WindowEnds
  <2>. QED BY <1>1, <1>3, <1>6, <1>7, <2>1, <2>2, ZeroedTracks
<1>8. CASE ~ZeroSeen
  <2>1. origin # Lost /\ origin' = origin /\ Count(d)
    BY <1>1, <1>6, <1>8
  <2>2. /\ backspin' \in -back' .. 0
        /\ Wrap(position') = Wrap(phys' - origin' - backspin' + offset')
    BY <1>1, <1>2, <1>3, <2>1, CountTracks
  <2>3. origin' \in {0, Rev - ZeroWidth - 1}
    BY <2>1 DEF TrackInv
  <2>. QED BY <1>3, <1>6, <2>2, <2>3 DEF TrackInv
<1>. QED BY <1>7, <1>8

LEMMA TrackInit == Init => PatternInv /\ TrackInv
BY DEF Init, PatternInv, TrackInv

LEMMA TrackNext == TypeOK /\ TypeOK' /\ PatternInv /\ TrackInv /\ [Next]_vars => PatternInv' /\ TrackInv'
<1> SUFFICES ASSUME TypeOK, TypeOK', PatternInv, TrackInv, [Next]_vars PROVE PatternInv' /\ TrackInv'
  OBVIOUS
<1>. USE DEF wheelVars, encoderVars, configVars
<1>0. ASSUME UNCHANGED <<phys, back, oldPattern, zeroPrev, backspin, position, offset, origin>>
      PROVE  PatternInv' /\ TrackInv'
  BY <1>0 DEF PatternInv, TrackInv, AtZero, Pattern, Wrap
<1>1. ASSUME NEW d \in Steps, Sample(d) PROVE PatternInv' /\ TrackInv'
  BY <1>1, SampleTracks, PatternSampled
<1>2. ASSUME NEW powered \in Power, Motor(powered) PROVE PatternInv' /\ TrackInv'
  BY <1>0, <1>2 DEF Motor, flapVars
<1>3. ASSUME NEW index \in Setpoints, CharacterSet(index) PROVE PatternInv' /\ TrackInv'
  BY <1>0, <1>3 DEF CharacterSet
<1>4. CASE MotorUnlock
  BY <1>0, <1>4 DEF MotorUnlock, flapVars
<1>5. CASE OffsetReset
  <2>1. /\ UNCHANGED <<phys, back, oldPattern, zeroPrev, backspin, origin>>
        /\ position' = Wrap(position - offset) /\ offset' = 0
    BY <1>5 DEF OffsetReset
  <2>2. PatternInv'
    BY <2>1 DEF PatternInv, Pattern
  <2>3. ASSUME origin # Lost PROVE Wrap(position') = Wrap(phys' - origin' - backspin' + offset')
    <3>1. phys \in Int /\ position \in Int /\ offset \in Int /\ backspin \in Int /\ origin \in Int
      BY <2>3, PlaceTypes, WheelAssumption, RevType DEF TrackInv
    <3> DEFINE x == position - offset
               y == phys - origin - backspin + offset
               z == phys - origin - backspin + 0
    <3>2. x \in Int /\ y \in Int /\ z \in Int /\ x - position = z - y
      BY <3>1
    <3>3. Wrap(position) = Wrap(y)
      BY <2>3 DEF TrackInv
    <3>4. position' = Wrap(x) /\ Wrap(phys' - origin' - backspin' + offset') = Wrap(z)
      BY <2>1
    <3>. HIDE DEF x, y, z
    <3>5. Wrap(x) = Wrap(z)
      <4> DEFINE c == -offset
      <4>1. c \in Int /\ x = position + c /\ z = y + c
        BY <3>1 DEF x, y, z
      <4>. HIDE DEF c
      <4>2. position \in Int /\ y \in Int /\ c \in Int
        BY <3>1, <3>2, <4>1
      <4>3. Wrap(position + c) = Wrap(y + c)
        BY <3>3, <4>2, MoveAlike
      <4>. QED BY <4>1, <4>3
    <3>6. Wrap(Wrap(x)) = Wrap(x)
      BY <3>2, WrapTwice
    <3>. QED BY <3>4, <3>5, <3>6
  <2>. QED BY <2>1, <2>2, <2>3 DEF TrackInv, AtZero, Pattern
<1>6. ASSUME NEW new \in Offsets, OffsetSet(new) PROVE PatternInv' /\ TrackInv'
  BY <1>6 DEF OffsetSet, PatternInv, TrackInv, Pattern
<1>7. ASSUME NEW new \in Minima, MinimumRotationSet(new) PROVE PatternInv' /\ TrackInv'
  BY <1>0, <1>7 DEF MinimumRotationSet, flapVars
<1>8. CASE UNCHANGED vars
  BY <1>0, <1>8 DEF vars, flapVars
<1>. QED BY <1>1, <1>2, <1>3, <1>4, <1>5, <1>6, <1>7, <1>8 DEF Next

(* The encoder is zeroed at the mark, or where the wheel falls back out of *)
(* the zero sensor's window, and nowhere else; from there on, the count of *)
(* flaps and the backspin counter together follow the wheel, every pulse   *)
(* counted once through every reversal, until the wheel slips or the       *)
(* offset is rewritten.  Nothing is assumed of where the wheel turns back. *)
THEOREM CountFollowsWheel == Spec => []Tracks
<1>1. Init => TypeOK /\ PatternInv /\ TrackInv
  BY TypeInit, TrackInit
<1>2. TypeOK /\ PatternInv /\ TrackInv /\ [Next]_vars => (TypeOK /\ PatternInv /\ TrackInv)'
  BY TypeNext, TrackNext
<1>3. TypeOK /\ PatternInv /\ TrackInv => Tracks
  BY TrackImplies
<1>. QED BY <1>1, <1>2, <1>3, PTL DEF Spec

--------------------------------------------------------------------------------
(* The distance that is left *)

(* Why the distance outlasts the minimum rotation: while pulses are owed,  *)
(* it is the way to the flap, one turn more if it is extended, and only a  *)
(* way that is shorter than the minimum is extended.                       *)
RotationInv ==
  owed > 0 =>
    /\ owed <= minimum /\ owed <= distance
    /\ distance = Left(position, setpoint) + (IF extend THEN Rev ELSE 0)
    /\ extend => Left(position, setpoint) < minimum

DistanceInv == DistanceIsCurrent /\ RotationInv

LEMMA DistanceImplies == TypeOK /\ DistanceInv => DistanceHolds
<1> SUFFICES ASSUME TypeOK, DistanceInv PROVE owed <= distance
  BY DEF DistanceHolds, DistanceInv, MinimumKept
<1>1. owed \in Nat /\ distance \in Nat
  BY RevType DEF TypeOK
<1>. QED BY <1>1 DEF DistanceInv, RotationInv

(* A distance that is the way to the flap, or a turn more, is current. *)
LEMMA CurrentIf ==
  ASSUME NEW from \in Int, NEW to \in Int,
         NEW left, left = Left(from, to) \/ left = Left(from, to) + Rev
  PROVE  Wrap(left) = Left(from, to)
<1>1. to - from \in Int /\ Left(from, to) \in 0 .. Rev - 1 /\ Left(from, to) \in Int
  BY LeftType
<1>2. Wrap(Left(from, to)) = Left(from, to)
  BY <1>1, WrapSame
<1>3. Wrap(Left(from, to) + Rev * 1) = Wrap(Left(from, to))
  BY <1>1, WholeTurns
<1>4. Rev * 1 = Rev
  BY RevType
<1>. QED BY <1>2, <1>3, <1>4

LEMMA UpdateCurrent ==
  ASSUME TypeOK, NEW from \in Int, NEW to \in Int, DistanceUpdate(from, to)
  PROVE  Wrap(distance') = Left(from, to)
<1>1. distance' = Left(from, to) \/ distance' = Left(from, to) + Rev
  BY DEF DistanceUpdate
<1>. QED BY <1>1, CurrentIf

LEMMA CurrentInit == Init => DistanceInv
<1> SUFFICES ASSUME Init PROVE DistanceInv
  OBVIOUS
<1>1. Left(0, 0) = 0
  BY WrapSame, RevType DEF Left
<1>2. Wrap(Rev) = Left(0, 0)
  BY <1>1, CurrentIf, RevType
<1>3. ~(0 > 0)
  OBVIOUS
<1>. QED BY <1>2, <1>3 DEF Init, DistanceInv, DistanceIsCurrent, RotationInv

(* What a sample does to the position and the distance. *)
LEMMA SampleMoves ==
  ASSUME TypeOK, NEW d \in Steps, Sample(d)
  PROVE  /\ UNCHANGED <<setpoint, offset, minimum>>
         /\ \/ UNCHANGED <<position, distance, extend>>
            \/ DistanceUpdate(position', setpoint)
<1>1. PositionUpdate /\ UNCHANGED <<setpoint, offset, minimum>>
  BY DEF Sample, configVars
<1>2. \/ UNCHANGED <<position, distance, extend>>
      \/ DistanceUpdate(position', setpoint)
  BY <1>1 DEF PositionUpdate, Count, EncoderZero, EncoderIncrement
<1>. QED BY <1>1, <1>2

(* One flap on, the way is one flap shorter, or all round again. *)
LEMMA OneFlapOn ==
  ASSUME NEW from \in Int, NEW to \in Int
  PROVE  Left(Wrap(from + 1), to) =
           IF Left(from, to) = 0 THEN Rev - 1 ELSE Left(from, to) - 1
<1> DEFINE next == Wrap(from + 1)
           on   == from + 1
           way  == to - from
<1>1. on \in Int /\ next \in Int /\ way \in Int /\ Wrap(next) = Wrap(on)
  BY WrapType, WrapTwice
<1>. HIDE DEF next, on
<1>2. Wrap(to - next) = Wrap(to - on)
  BY <1>1, MoveAlike
<1>3. to - on = way - 1
  BY DEF on
<1>. HIDE DEF way
<1>4. Wrap(way - 1) = IF Wrap(way) = 0 THEN Rev - 1 ELSE Wrap(way) - 1
  BY <1>1, OnePulse
<1>5. Left(next, to) = Wrap(to - next) /\ Left(from, to) = Wrap(way)
  BY DEF Left, way
<1>. QED BY <1>2, <1>3, <1>4, <1>5 DEF next, on

(* A counted pulse takes one off the distance, if it does not reach the    *)
(* flap; an extension is kept until the whole turn is made.                *)
LEMMA PaidBack ==
  ASSUME TypeOK, RotationInv, owed > 0, position' = Wrap(position + 1),
         DistanceUpdate(position', setpoint), UNCHANGED <<setpoint, minimum>>,
         owed' = owed - 1
  PROVE  RotationInv'
<1> DEFINE old == Left(position, setpoint)
           new == Left(position', setpoint)
<1>1. /\ owed \in Nat /\ minimum \in 0 .. Rev /\ distance \in Nat /\ extend \in BOOLEAN
      /\ position \in Int /\ setpoint \in Int /\ position + 1 \in Int
  BY PlaceTypes, RevType DEF TypeOK
<1>2. /\ owed <= minimum /\ owed <= distance
      /\ distance = old + (IF extend THEN Rev ELSE 0)
      /\ extend => old < minimum
  BY DEF RotationInv
<1>3. old \in 0 .. Rev - 1 /\ new \in 0 .. Rev - 1 /\ position' \in Int
  <2>1. position' \in Int
    BY <1>1, WrapType
  <2>. QED BY <1>1, <2>1, LeftType
<1>4. new = IF old = 0 THEN Rev - 1 ELSE old - 1
  BY <1>1, OneFlapOn
<1>5. /\ extend' = (extend /\ new < minimum)
      /\ distance' = new + (IF extend' THEN Rev ELSE 0)
      /\ extend' \in BOOLEAN
  <2>1. extend' = (extend /\ new < minimum)
    BY DEF DistanceUpdate
  <2>. QED BY <1>1, <1>3, <2>1, UpdateTypes
<1>6. minimum' = minimum /\ Left(position', setpoint') = new
  OBVIOUS
<1>. HIDE DEF old, new
<1>7. CASE ~extend
  <2>1. ~extend' /\ distance' = new /\ distance = old
    <3>1. ~extend'
      BY <1>5, <1>7
    <3>2. distance' = new + 0 /\ distance = old + 0
      BY <1>2, <1>5, <1>7, <3>1
    <3>. QED BY <1>3, <3>1, <3>2, RevType
  <2>2. owed' <= distance' /\ owed' <= minimum
    BY <1>1, <1>2, <1>3, <1>4, <2>1, RevType
  <2>. QED BY <1>3, <1>5, <1>6, <2>1, <2>2 DEF RotationInv
<1>8. CASE extend
  <2>1. distance = old + Rev /\ old < minimum
    BY <1>2, <1>8
  <2>2. owed' <= distance' /\ owed' <= minimum
    <3>1. distance' \in {new, new + Rev}
      BY <1>3, <1>5, RevType
    <3>2. CASE old = 0
      BY <1>1, <1>2, <1>3, <1>4, <2>1, <3>1, <3>2, RevType
    <3>3. CASE old # 0
      <4>1. new < minimum /\ new = old - 1
        BY <1>1, <1>3, <1>4, <2>1, <3>3, RevType
      <4>2. extend'
        BY <1>5, <1>8, <4>1
      <4>3. distance' = new + Rev
        BY <1>5, <4>2
      <4>. QED BY <1>1, <1>2, <1>3, <2>1, <4>1, <4>3, RevType
    <3>. QED BY <3>2, <3>3
  <2>3. extend' => new < minimum
    BY <1>5
  <2>. QED BY <1>5, <1>6, <2>2, <2>3 DEF RotationInv
<1>. QED BY <1>7, <1>8

(* An update on the spot finds the distance as it is. *)
LEMMA SameSpot ==
  ASSUME TypeOK, RotationInv, owed > 0, position' = position,
         DistanceUpdate(position', setpoint), UNCHANGED <<setpoint, minimum, owed>>
  PROVE  RotationInv'
<1> DEFINE way == Left(position, setpoint)
<1>1. extend \in BOOLEAN /\ position \in Int /\ setpoint \in Int
  BY PlaceTypes DEF TypeOK
<1>2. /\ owed <= minimum /\ owed <= distance
      /\ distance = way + (IF extend THEN Rev ELSE 0)
      /\ extend => way < minimum
  BY DEF RotationInv
<1>3. /\ extend' = (extend /\ way < minimum)
      /\ distance' = way + (IF extend' THEN Rev ELSE 0)
  <2>1. extend' = (extend /\ way < minimum)
    BY DEF DistanceUpdate
  <2>. QED BY <1>1, <2>1, UpdateTypes
<1>4. /\ minimum' = minimum /\ Left(position', setpoint') = way /\ owed' = owed
  OBVIOUS
<1>. HIDE DEF way
<1>5. extend' = extend
  BY <1>1, <1>2, <1>3
<1>6. distance' = distance
  BY <1>2, <1>3, <1>5
<1>. QED BY <1>2, <1>4, <1>5, <1>6 DEF RotationInv

LEMMA SampleKeepsMinimum ==
  ASSUME TypeOK, TypeOK', DistanceInv, NEW d \in Steps, Sample(d)
  PROVE  RotationInv'
<1>1. owed \in Nat /\ owed' \in Nat
  BY RevType DEF TypeOK
<1>2. CASE owed' = 0
  BY <1>2 DEF RotationInv
<1>3. CASE owed' # 0
  <2>1. /\ owed > 0 /\ RotationInv
        /\ \/ owed' = owed - 1 /\ position' = Wrap(position + 1)
           \/ owed' = owed /\ position' = position
    <3>1. RotationInv
      BY DEF DistanceInv
    <3>2. CASE owed > 0 /\ owed' = owed - 1 /\ position' = Wrap(position + 1)
      BY <3>1, <3>2
    <3>3. CASE /\ owed' = owed /\ (owed > 0 => position' # Wrap(position + 1))
               /\ position' \in {position, Wrap(position + 1)}
      <4>1. owed > 0
        BY <1>1, <1>3, <3>3
      <4>. QED BY <3>1, <3>3, <4>1
    <3>. QED BY <1>3, <3>2, <3>3, OwedCases
  <2>2. /\ UNCHANGED <<setpoint, offset, minimum>>
        /\ \/ UNCHANGED <<position, distance, extend>>
           \/ DistanceUpdate(position', setpoint)
    BY SampleMoves
  <2>3. CASE owed' = owed /\ position' = position /\ UNCHANGED <<position, distance, extend>>
    BY <2>1, <2>2, <2>3 DEF RotationInv, Left
  <2>4. CASE owed' = owed /\ position' = position /\ DistanceUpdate(position', setpoint)
    BY <2>1, <2>2, <2>4, SameSpot
  <2>5. CASE /\ owed' = owed - 1 /\ position' = Wrap(position + 1)
             /\ DistanceUpdate(position', setpoint)
    BY <2>1, <2>2, <2>5, PaidBack
  <2>6. CASE /\ owed' = owed - 1 /\ position' = Wrap(position + 1)
             /\ UNCHANGED <<position, distance, extend>>
    <3>1. position = Wrap(position + 1) /\ position \in Int
      BY <2>6, PlaceTypes
    <3>2. Wrap(position) = position
      <4>1. position + 1 \in Int
        BY <3>1
      <4>. QED BY <3>1, <4>1, WrapTwice
    <3>3. Wrap(position + 1) = IF position = Rev - 1 THEN 0 ELSE position + 1
      BY <3>1, <3>2, OnePulse
    <3>. QED BY <3>1, <3>3, RevType
  <2>. QED BY <2>1, <2>2, <2>3, <2>4, <2>5, <2>6
<1>. QED BY <1>2, <1>3

LEMMA DistanceNext == TypeOK /\ TypeOK' /\ DistanceInv /\ [Next]_vars => DistanceInv'
<1> SUFFICES ASSUME TypeOK, TypeOK', DistanceInv, [Next]_vars PROVE DistanceInv'
  OBVIOUS
<1>. USE DEF wheelVars, encoderVars, flapVars, configVars
<1>a. /\ position \in Int /\ setpoint \in Int /\ offset \in Int
      /\ minimum \in 0 .. Rev /\ ~(0 > 0)
  BY PlaceTypes DEF TypeOK
<1>0. ASSUME UNCHANGED <<position, setpoint, distance>>, owed' = 0 \/ UNCHANGED <<owed, extend, minimum>>
      PROVE  DistanceInv'
  <2>1. DistanceIsCurrent'
    BY <1>0 DEF DistanceInv, DistanceIsCurrent, Left, Wrap
  <2>2. CASE owed' = 0
    BY <1>a, <2>1, <2>2 DEF DistanceInv, RotationInv
  <2>3. CASE UNCHANGED <<owed, extend, minimum>>
    BY <1>0, <2>1, <2>3 DEF DistanceInv, RotationInv, Left
  <2>. QED BY <1>0, <2>2, <2>3
<1>1. ASSUME NEW d \in Steps, Sample(d) PROVE DistanceInv'
  <2>1. RotationInv'
    BY <1>1, SampleKeepsMinimum
  <2>2. DistanceIsCurrent'
    <3>1. setpoint' = setpoint /\ position' \in Int
      BY <1>1, SampleMoves, WheelAssumption, RevType DEF TypeOK
    <3>2. CASE UNCHANGED <<position, distance>>
      BY <3>1, <3>2 DEF DistanceInv, DistanceIsCurrent, Left
    <3>3. CASE DistanceUpdate(position', setpoint)
      BY <1>a, <3>1, <3>3, UpdateCurrent DEF DistanceIsCurrent
    <3>. QED BY <1>1, <3>2, <3>3, SampleMoves
  <2>. QED BY <2>1, <2>2 DEF DistanceInv
<1>2. ASSUME NEW powered \in Power, Motor(powered) PROVE DistanceInv'
  BY <1>0, <1>2 DEF Motor
<1>3. ASSUME NEW index \in Setpoints, CharacterSet(index) PROVE DistanceInv'
  <2> DEFINE way == Left(position, index)
  <2>1. /\ setpoint' = index /\ position' = position /\ minimum' = minimum
        /\ extend' = (way < minimum)
        /\ distance' = IF extend' THEN way + Rev ELSE way
        /\ owed' = IF origin # Lost THEN minimum ELSE 0
    BY <1>3 DEF CharacterSet
  <2>2. index \in Int /\ way \in 0 .. Rev - 1
    <3>1. index \in Int
      BY WheelAssumption, RevType
    <3>. QED BY <1>a, <3>1, LeftType
  <2>3. DistanceIsCurrent'
    <3>1. distance' = way \/ distance' = way + Rev
      BY <2>1
    <3>. QED BY <1>a, <2>1, <2>2, <3>1, CurrentIf DEF DistanceIsCurrent
  <2>4. Left(position', setpoint') = way
    BY <2>1
  <2>. HIDE DEF way
  <2>5. RotationInv'
    <3>1. CASE way < minimum
      <4>1. extend' /\ distance' = way + Rev
        BY <2>1, <3>1
      <4>2. owed' <= minimum /\ owed' <= distance'
        BY <1>a, <2>1, <2>2, <4>1, RevType
      <4>. QED BY <2>1, <2>4, <3>1, <4>1, <4>2 DEF RotationInv
    <3>2. CASE ~(way < minimum)
      <4>1. ~extend' /\ distance' = way
        BY <2>1, <3>2
      <4>2. owed' <= minimum /\ owed' <= distance' /\ distance' = way + 0
        BY <1>a, <2>1, <2>2, <3>2, <4>1, RevType
      <4>. QED BY <2>1, <2>4, <4>1, <4>2 DEF RotationInv
    <3>. QED BY <3>1, <3>2
  <2>. QED BY <2>3, <2>5 DEF DistanceInv
<1>4. CASE MotorUnlock
  BY <1>0, <1>4 DEF MotorUnlock
<1>5. CASE OffsetReset
  <2>1. /\ setpoint' = 0 /\ owed' = 0 /\ position' = Wrap(position - offset)
        /\ DistanceUpdate(position', 0)
    BY <1>5 DEF OffsetReset
  <2>2. position' \in Int
    <3>1. position - offset \in Int
      BY <1>a
    <3>. QED BY <2>1, <3>1, WrapType
  <2>3. Wrap(distance') = Left(position', 0)
    BY <2>1, <2>2, UpdateCurrent
  <2>. QED BY <1>a, <2>1, <2>3 DEF DistanceInv, DistanceIsCurrent, RotationInv
<1>6. ASSUME NEW new \in Offsets, OffsetSet(new) PROVE DistanceInv'
  <2>1. /\ setpoint' = setpoint /\ owed' = 0 /\ position' = Wrap(position + (offset - new))
        /\ DistanceUpdate(position', setpoint)
    BY <1>6 DEF OffsetSet
  <2>2. position' \in Int
    <3>1. position + (offset - new) \in Int
      BY <1>a, WheelAssumption
    <3>. QED BY <2>1, <3>1, WrapType
  <2>3. Wrap(distance') = Left(position', setpoint)
    BY <1>a, <2>1, <2>2, UpdateCurrent
  <2>. QED BY <1>a, <2>1, <2>3 DEF DistanceInv, DistanceIsCurrent, RotationInv
<1>7. ASSUME NEW new \in Minima, MinimumRotationSet(new) PROVE DistanceInv'
  BY <1>0, <1>7 DEF MinimumRotationSet
<1>8. CASE UNCHANGED vars
  BY <1>0, <1>8 DEF vars
<1>. QED BY <1>1, <1>2, <1>3, <1>4, <1>5, <1>6, <1>7, <1>8 DEF Next

(* The one distance the motor is driven by is never stale, and never ends  *)
(* the turn before the minimum rotation in force when it was asked for.    *)
THEOREM DistanceStaysRight == Spec => []DistanceHolds
<1>1. Init => TypeOK /\ DistanceInv
  BY TypeInit, CurrentInit
<1>2. TypeOK /\ DistanceInv /\ [Next]_vars => (TypeOK /\ DistanceInv)'
  BY TypeNext, DistanceNext
<1>3. TypeOK /\ DistanceInv => DistanceHolds
  BY DistanceImplies
<1>. QED BY <1>1, <1>2, <1>3, PTL DEF Spec

--------------------------------------------------------------------------------
(* The lockout of the zero sensor *)

(* What the lockout needs to do its work: it counts from the offset, so it *)
(* lasts for LockoutPast - offset pulses, and the wheel may fall back over *)
(* the mark as long as it has not come further than it can fall back.  The *)
(* place before the zero sensor's window is not the mark itself.           *)
LockoutCovers ==
  /\ LockoutPast < Rev - 1 /\ ZeroWidth < Rev - 1
  /\ \A o \in Offsets \cup {0} : o + MaxBack <= LockoutPast

(* The furthest the wheel has come, which a backspin does not change. *)
Furthest == Wrap(phys - backspin)

LockInv ==
  origin = 0 =>
    /\ lockout => Furthest + offset <= LockoutPast
    /\ ~lockout => Furthest > MaxBack

LEMMA CoveredOffset ==
  ASSUME TypeOK, LockoutCovers
  PROVE  /\ LockoutPast \in Nat /\ MaxBack \in Nat /\ LockoutPast < Rev - 1
         /\ offset \in Nat /\ offset + MaxBack <= LockoutPast
         /\ position \in 0 .. Rev - 1 /\ Wrap(position) = position
<1>1. LockoutPast \in Nat /\ MaxBack \in Nat /\ LockoutPast < Rev - 1
  BY WheelAssumption, RevType DEF LockoutCovers
<1>2. \A o \in Offsets \cup {0} : o \in Nat /\ o + MaxBack <= LockoutPast
  BY WheelAssumption DEF LockoutCovers
<1>3. offset \in Nat /\ offset + MaxBack <= LockoutPast
  BY <1>2 DEF TypeOK
<1>4. \A o \in Offsets : o \in 0 .. Rev - 1
  BY <1>1, <1>2, RevType
<1>5. position \in 0 .. Rev - 1
  BY <1>4 DEF TypeOK
<1>. QED BY <1>1, <1>3, <1>5, WrapSame

(* What the count is of a wheel that was zeroed at the mark. *)
LEMMA CountOfMark ==
  ASSUME TypeOK, TrackInv, origin = 0
  PROVE  /\ zeroPrev = AtZero(phys) /\ oldPattern = Pattern(phys)
         /\ backspin \in -MaxBack .. 0 /\ Wrap(position) = Wrap(phys - backspin + offset)
<1>1. origin # Lost /\ Tracks
  BY TrackImplies DEF Lost
<1>2. phys - origin - backspin + offset = phys - backspin + offset
  BY PlaceTypes
<1>. QED BY <1>1, <1>2 DEF Tracks, TrackInv

(* Where the sensor goes off while it is trusted, nothing is to be made up *)
(* for: a wheel that fell back over the mark is still locked out.          *)
LEMMA NothingOwedAtMark ==
  ASSUME TypeOK, LockoutCovers, TrackInv, LockInv, origin = 0, ~lockout, phys = Rev - 1
  PROVE  backspin = 0 /\ Wrap(position + 1) = offset
<1>1. /\ backspin \in -MaxBack .. 0 /\ Wrap(position) = Wrap(phys - backspin + offset)
      /\ Wrap(phys - backspin) > MaxBack
  BY CountOfMark DEF LockInv, Furthest
<1>2. /\ MaxBack \in Nat /\ offset \in Nat /\ offset \in 0 .. Rev - 1 /\ position \in Int
      /\ MaxBack <= Rev - 1
  BY CoveredOffset, PlaceTypes, RevType
<1>3. backspin = 0
  <2>1. SUFFICES ASSUME backspin < 0 PROVE FALSE
    BY <1>1, <1>2
  <2> DEFINE r == -backspin - 1
  <2>2. r \in 0 .. Rev - 1 /\ r < MaxBack /\ phys - backspin = r + Rev * 1
    BY <1>1, <1>2, <2>1, RevType
  <2>. HIDE DEF r
  <2>3. Wrap(r + Rev * 1) = Wrap(r)
    BY <2>2, WholeTurns
  <2>4. Wrap(r) = r
    BY <2>2, WrapSame
  <2>. QED BY <1>1, <1>2, <2>2, <2>3, <2>4
<1> DEFINE at == phys - backspin + offset
<1>4. at \in Int /\ Wrap(position) = Wrap(at) /\ at + 1 = offset + Rev * 1
  BY <1>1, <1>2, <1>3, RevType
<1>. HIDE DEF at
<1>5. Wrap(position + 1) = Wrap(at + 1)
  BY <1>2, <1>4, MoveAlike
<1>6. Wrap(offset + Rev * 1) = Wrap(offset)
  BY <1>2, WholeTurns
<1>7. Wrap(offset) = offset
  BY <1>2, WrapSame
<1>. QED BY <1>3, <1>4, <1>5, <1>6, <1>7

(* What a sample is that leaves the count that of the mark: the mark is    *)
(* passed, or a pulse, or none, is told and counted.                       *)
LEMMA MarkedSample ==
  ASSUME TypeOK, TypeOK', LockoutCovers, PatternInv, TrackInv, NEW d \in Steps, Sample(d), origin' = 0
  PROVE  /\ UNCHANGED offset /\ phys' = Wrap(phys + d) /\ d \in {-1, 0, 1}
         /\ \/ /\ ZeroSeen /\ ~lockout /\ phys' = 0 /\ phys = Rev - 1
               /\ position' = offset /\ backspin' = 0 /\ lockout' = TRUE
            \/ ~ZeroSeen /\ origin = 0 /\ Count(d)
<1> DEFINE qem == Qem(oldPattern, Pattern(phys'))
<1>1. /\ CanTurn(d) /\ Turn(d) /\ PositionUpdate /\ UNCHANGED offset
      /\ d # 2
      /\ \/ ZeroSeen /\ AtZero(phys) /\ phys' = 0
         \/ ~ZeroSeen /\ origin = 0
  BY OriginCases DEF Sample, configVars, Zeroed, Lost
<1>2. d \in {-1, 0, 1}
  BY <1>1 DEF Steps
<1>3. phys' = Wrap(phys + d)
  BY PatternSampled
<1>4. oldPattern = Pattern(phys)
  BY <1>1, CountOfMark DEF PatternInv, ZeroSeen
<1>5. qem = d /\ qem # 2
  BY <1>2, <1>3, <1>4, PulseTold
<1>6. \/ ZeroSeen /\ EncoderZero /\ backspin' = 0 /\ lockout' = TRUE
      \/ ~ZeroSeen /\ Count(d)
  BY <1>1, <1>5 DEF PositionUpdate
<1>7. CASE ZeroSeen
  <2>1. ~lockout /\ position' = offset /\ backspin' = 0 /\ lockout' = TRUE
    BY <1>6, <1>7 DEF EncoderZero, ZeroSeen
  <2>2. AtZero(phys) /\ ~AtZero(phys') /\ phys' = 0
    BY <1>1, <1>7 DEF ZeroSeen
  <2>3. \/ d = 1 /\ phys = Rev - 1 /\ phys' = 0
        \/ d = -1 /\ phys' = Rev - ZeroWidth - 1
    BY <1>2, <1>3, <2>2, WindowEnds
  <2>4. Rev - ZeroWidth - 1 # 0
    BY WheelAssumption, RevType DEF LockoutCovers
  <2>5. phys = Rev - 1
    BY <2>2, <2>3, <2>4
  <2>. QED BY <1>1, <1>2, <1>3, <1>7, <2>1, <2>2, <2>5
<1>8. CASE ~ZeroSeen
  BY <1>1, <1>2, <1>3, <1>6, <1>8
<1>. QED BY <1>7, <1>8

(* A counted pulse: the lockout ends after the wheel has come further than *)
(* it can fall back, and before it comes round to the mark.                *)
LEMMA CountKeepsLock ==
  ASSUME TypeOK, TypeOK', LockoutCovers, TrackInv, LockInv, origin = 0, ~ZeroSeen,
         NEW d \in {-1, 0, 1}, CanTurn(d), Count(d), UNCHANGED offset, phys' = Wrap(phys + d)
  PROVE  LockInv'
<1>1. /\ backspin \in -MaxBack .. 0 /\ Wrap(position) = Wrap(phys - backspin + offset)
      /\ MaxBack \in Nat /\ MaxBack < CounterHalf /\ CounterHalf \in Nat
      /\ phys \in 0 .. Rev - 1 /\ Wrap(phys) = phys
      /\ zeroPrev = AtZero(phys)
  BY CountOfMark, PlaceTypes, WheelAssumption, RevType DEF TypeOK
<1>2. /\ LockoutPast \in Nat /\ LockoutPast < Rev - 1 /\ offset \in Nat
      /\ offset + MaxBack <= LockoutPast
      /\ position \in 0 .. Rev - 1 /\ Wrap(position) = position
  BY CoveredOffset
<1>3. CASE backspin < 0 \/ d # 1
  <2>1. backspin' = Narrow(backspin + d) /\ lockout' = lockout
    BY <1>3 DEF Count
  <2>2. back \in 0 .. MaxBack /\ (d < 0 => back < MaxBack) /\ backspin \in -back .. 0
    BY DEF TypeOK, CanTurn, TrackInv, Lost
  <2>3. backspin + d \in -CounterHalf .. CounterHalf - 1
    BY <1>1, <1>3
  <2>4. backspin' = backspin + d
    BY <2>1, <2>3, NarrowSame
  <2> DEFINE at == phys + d
             old == phys - backspin
             new == phys' - backspin'
             c == -backspin'
  <2>5. /\ at \in Int /\ phys' = Wrap(at) /\ phys' \in Int /\ c \in Int
        /\ new = phys' + c /\ old = at + c
    BY <1>1, <2>4, RevType DEF TypeOK
  <2>. HIDE DEF at, old, new, c
  <2>6. Wrap(phys') = Wrap(at)
    BY <2>5, WrapTwice
  <2>7. Wrap(phys' + c) = Wrap(at + c)
    BY <2>5, <2>6, MoveAlike
  <2>8. Furthest' = Furthest
    BY <2>5, <2>7 DEF Furthest, old, new
  <2>. QED BY <2>1, <2>8 DEF LockInv
<1>4. CASE ~(backspin < 0 \/ d # 1)
  <2>1. /\ d = 1 /\ backspin = 0 /\ backspin' = 0 /\ position' = Wrap(position + 1)
        /\ lockout' = (lockout /\ position' <= LockoutPast)
    BY <1>1, <1>4 DEF Count, EncoderIncrement
  <2>2. Furthest = phys /\ Furthest' = phys'
    <3>1. phys - 0 = phys /\ phys' - 0 = phys'
      BY <1>1 DEF TypeOK
    <3>2. phys' \in 0 .. Rev - 1
      BY DEF TypeOK
    <3>. QED BY <1>1, <2>1, <3>1, <3>2, WrapSame DEF Furthest
  <2>3. phys' = IF phys = Rev - 1 THEN 0 ELSE phys + 1
    BY <1>1, <2>1, OnePulse
  <2>4. CASE lockout
    <3>1. phys + offset <= LockoutPast
      BY <2>2, <2>4 DEF LockInv
    <3>2. phys' = phys + 1
      BY <1>1, <1>2, <2>3, <3>1, RevType
    <3>3. position = phys + offset
      <4>1. phys - backspin + offset = phys + offset /\ phys + offset \in 0 .. Rev - 1
        BY <1>1, <1>2, <2>1, <3>1, RevType
      <4>2. Wrap(phys + offset) = phys + offset
        BY <4>1, WrapSame
      <4>. QED BY <1>1, <1>2, <4>1, <4>2
    <3>4. position' = position + 1
      <4>1. position \in Int /\ position # Rev - 1
        BY <1>2, <3>1, <3>3, RevType
      <4>. QED BY <1>2, <2>1, <4>1, OnePulse
    <3>5. phys' + offset = position'
      BY <1>1, <1>2, <3>2, <3>3, <3>4
    <3>6. CASE position' <= LockoutPast
      <4>1. lockout' /\ Furthest' + offset' <= LockoutPast
        BY <2>1, <2>2, <2>4, <3>5, <3>6
      <4>. QED BY <4>1 DEF LockInv
    <3>7. CASE ~(position' <= LockoutPast)
      <4>1. ~lockout' /\ Furthest' > MaxBack
        <5>1. ~lockout'
          BY <2>1, <3>7
        <5>2. phys' > MaxBack
          BY <1>1, <1>2, <3>2, <3>3, <3>4, <3>7, RevType
        <5>. QED BY <2>2, <5>1, <5>2
      <4>. QED BY <4>1 DEF LockInv
    <3>. QED BY <3>6, <3>7
  <2>5. CASE ~lockout
    <3>1. phys > MaxBack /\ ~lockout'
      BY <2>1, <2>2, <2>5 DEF LockInv
    <3>2. phys # Rev - 1
      <4>1. SUFFICES ASSUME phys = Rev - 1 PROVE ZeroSeen
        OBVIOUS
      <4>2. ZeroWidth \in 1 .. Rev - 1
        BY WheelAssumption
      <4>3. AtZero(phys) /\ ~AtZero(phys')
        BY <2>3, <4>1, <4>2, RevType DEF AtZero
      <4>. QED BY <1>1, <2>5, <4>3 DEF ZeroSeen
    <3>3. phys' > MaxBack
      BY <1>1, <2>3, <3>1, <3>2, RevType
    <3>. QED BY <2>2, <3>1, <3>3 DEF LockInv
  <2>. QED BY <2>4, <2>5
<1>. QED BY <1>3, <1>4

LEMMA LockNext ==
  TypeOK /\ TypeOK' /\ LockoutCovers /\ PatternInv /\ TrackInv /\ LockInv /\ [Next]_vars
    => /\ LockInv'
       /\ origin = 0 /\ origin' = 0 /\ offset' = offset => position' \in {position, Wrap(position + 1)}
<1> DEFINE Goal == /\ LockInv'
                   /\ origin = 0 /\ origin' = 0 /\ offset' = offset
                        => position' \in {position, Wrap(position + 1)}
<1> SUFFICES ASSUME TypeOK, TypeOK', LockoutCovers, PatternInv, TrackInv, LockInv, [Next]_vars
             PROVE  Goal
  OBVIOUS
<1>. USE DEF wheelVars, encoderVars, flapVars, configVars
<1>0. ASSUME UNCHANGED <<phys, backspin, lockout, position, offset, origin>> PROVE Goal
  BY <1>0 DEF LockInv, Furthest
<1>1. ASSUME NEW d \in Steps, Sample(d) PROVE Goal
  <2>0. CASE origin' # 0
    BY <2>0 DEF LockInv
  <2>1. CASE origin' = 0
    <3>1. /\ UNCHANGED offset /\ phys' = Wrap(phys + d) /\ d \in {-1, 0, 1}
          /\ \/ /\ ZeroSeen /\ ~lockout /\ phys' = 0 /\ phys = Rev - 1
                /\ position' = offset /\ backspin' = 0 /\ lockout' = TRUE
             \/ ~ZeroSeen /\ origin = 0 /\ Count(d)
      BY <1>1, <2>1, MarkedSample
    <3>2. CASE /\ ZeroSeen /\ ~lockout /\ phys' = 0 /\ phys = Rev - 1
               /\ position' = offset /\ backspin' = 0 /\ lockout' = TRUE
      <4>1. ASSUME origin = 0 PROVE position' = Wrap(position + 1)
        BY <3>2, <4>1, NothingOwedAtMark
      <4>2. Furthest' = 0
        <5>1. phys' - backspin' = 0 /\ 0 \in 0 .. Rev - 1
          BY <3>2, RevType
        <5>. QED BY <5>1, WrapSame DEF Furthest
      <4>3. 0 + offset <= LockoutPast
        BY CoveredOffset
      <4>4. LockInv'
        BY <3>1, <3>2, <4>2, <4>3 DEF LockInv
      <4>. QED BY <4>1, <4>4
    <3>3. CASE ~ZeroSeen /\ origin = 0 /\ Count(d)
      <4>1. CanTurn(d)
        BY <1>1 DEF Sample
      <4>2. LockInv'
        BY <3>1, <3>3, <4>1, CountKeepsLock
      <4>3. position' = position \/ position' = Wrap(position + 1)
        BY <3>3 DEF Count, EncoderIncrement
      <4>. QED BY <4>2, <4>3
    <3>. QED BY <3>1, <3>2, <3>3
  <2>. QED BY <2>0, <2>1
<1>2. ASSUME NEW powered \in Power, Motor(powered) PROVE Goal
  BY <1>0, <1>2 DEF Motor
<1>3. ASSUME NEW index \in Setpoints, CharacterSet(index) PROVE Goal
  BY <1>0, <1>3 DEF CharacterSet
<1>4. CASE MotorUnlock
  BY <1>0, <1>4 DEF MotorUnlock
<1>5. CASE OffsetReset
  <2>1. /\ UNCHANGED <<phys, backspin, lockout, origin>> /\ offset' = 0
        /\ position' = Wrap(position - offset)
    BY <1>5 DEF OffsetReset
  <2>2. Furthest' = Furthest /\ Furthest \in Int
    <3>1. phys - backspin \in Int
      BY PlaceTypes
    <3>. QED BY <2>1, <3>1, WrapType DEF Furthest
  <2>3. LockInv'
    <3>1. offset \in Nat /\ LockoutPast \in Nat
      BY CoveredOffset
    <3>2. Furthest + offset <= LockoutPast => Furthest + offset' <= LockoutPast
      BY <2>1, <2>2, <3>1
    <3>. QED BY <2>1, <2>2, <3>2 DEF LockInv
  <2>4. ASSUME offset' = offset PROVE position' = position
    <3>1. position - offset = position /\ Wrap(position) = position
      BY <2>1, <2>4, CoveredOffset
    <3>. QED BY <2>1, <3>1
  <2>. QED BY <2>3, <2>4
<1>6. ASSUME NEW new \in Offsets, OffsetSet(new) PROVE Goal
  BY <1>6 DEF OffsetSet, LockInv, Lost
<1>7. ASSUME NEW new \in Minima, MinimumRotationSet(new) PROVE Goal
  BY <1>0, <1>7 DEF MinimumRotationSet
<1>8. CASE UNCHANGED vars
  BY <1>0, <1>8 DEF vars
<1>. QED BY <1>1, <1>2, <1>3, <1>4, <1>5, <1>6, <1>7, <1>8 DEF Next

(* With offsets the lockout has room for, the position of a wheel that was *)
(* zeroed and has not slipped since only ever goes on by one flap: it does *)
(* not jump back when the wheel falls back over the mark.  A wheel that    *)
(* falls back out of the sensor's window is no longer zeroed at the mark.  *)
THEOREM PositionNeverGoesBack ==
  ASSUME LockoutCovers
  PROVE  Spec => NeverBack
<1>1. Init => TypeOK /\ PatternInv /\ TrackInv /\ LockInv
  BY TypeInit, TrackInit DEF Init, LockInv, Lost
<1>2. (TypeOK /\ PatternInv /\ TrackInv /\ LockInv) /\ [Next]_vars
      => (TypeOK /\ PatternInv /\ TrackInv /\ LockInv)'
  BY TypeNext, TrackNext, LockNext
<1>3. (TypeOK /\ PatternInv /\ TrackInv /\ LockInv) /\ [Next]_vars
      => [origin = 0 /\ origin' = 0 /\ offset' = offset => position' \in {position, Wrap(position + 1)}]_vars
  BY TypeNext, TrackNext, LockNext
<1>. QED BY <1>1, <1>2, <1>3, PTL DEF Spec, NeverBack
================================================================================
