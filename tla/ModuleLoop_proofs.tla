--------------------------- MODULE ModuleLoop_proofs ---------------------------
(***************************************************************************)
(* Proofs about ModuleMain, for all timeouts and configurations and any    *)
(* number of messages: no order of messages, motor, clock and power loses  *)
(* a configuration or reboots a module before its answer.  And about       *)
(* ModuleLoop: the loop with its motor is the loop of ModuleMain, and what *)
(* the arithmetic of SpeedControl makes of any measured speed turns the    *)
(* wheel the way it is meant to turn and stays in its ranges.              *)
(***************************************************************************)
EXTENDS ModuleLoop, TLAPS

--------------------------------------------------------------------------------
(* The main loop, with a motor that may run at any time *)

(* A deadline only gets nearer, and counts no further once it has passed.  *)
LEMMA SoonerInRange == \A max \in Nat : \A t \in Missed .. max : Sooner(t) \in Missed .. max
BY DEF Sooner, Missed

(* What RAM holds is what was accepted, and is in flash or due.            *)
ConfigInv == config = accepted /\ StoredOrDue

(* The message that carried an unanswered REBOOT is still on the module,   *)
(* and from the next comms_state_update on the chain counts as active.     *)
AnswerInv == ~answered => msg = "done" /\ (commsActive \/ pc \in {"pwm", "comms"})

IInv == TypeOK /\ ConfigInv /\ AnswerInv

(* One step keeps the types.                                               *)
LEMMA TypeStep == TypeOK /\ [Next]_vars => TypeOK'
<1> SUFFICES ASSUME TypeOK, [Next]_vars PROVE TypeOK'
  OBVIOUS
<1> USE MainAssumption DEF TypeOK, flags, timers, bounds, Goto
<1>1. CASE NodeTick \/ OtherMessage \/ RebootWrite \/ (\E new \in Configs : ConfigWrite(new))
  BY <1>1 DEF NodeTick, Handle, OtherMessage, RebootWrite, ConfigWrite
<1>2. ASSUME NEW on \in BOOLEAN, MotorControl(on) PROVE TypeOK'
  BY <1>2 DEF MotorControl
<1>3. CASE CommsStateUpdate
  <2>1. commsActive' \in BOOLEAN
    BY <1>3, Zenon DEF CommsStateUpdate
  <2>2. commsLeft' \in Missed .. CommsIdle
    BY <1>3 DEF CommsStateUpdate, Missed
  <2>3. pc' = "motor"
    BY <1>3 DEF CommsStateUpdate
  <2>4. UNCHANGED <<config, nvs, store, reboot, msg, running, motorActive, motorLeft, toWrap, messages, turns, accepted, answered>>
    BY <1>3 DEF CommsStateUpdate
  <2> QED
    BY <2>1, <2>2, <2>3, <2>4
<1>4. CASE MotorStateUpdate
  <2>1. motorActive' \in BOOLEAN
    BY <1>4, Zenon DEF MotorStateUpdate
  <2>2. motorLeft' \in Missed .. MotorIdle
    BY <1>4 DEF MotorStateUpdate, Missed
  <2>3. pc' = "idle"
    BY <1>4 DEF MotorStateUpdate
  <2>4. UNCHANGED <<config, nvs, store, reboot, msg, running, commsActive, commsLeft, toWrap, messages, turns, accepted, answered>>
    BY <1>4 DEF MotorStateUpdate
  <2> QED
    BY <2>1, <2>2, <2>3, <2>4
<1>5. CASE Again \/ StoreBegin \/ StoreErase \/ StoreProgram
  BY <1>5 DEF Again, StoreBegin, StoreErase, StoreProgram
<1>6. CASE Reboot \/ PowerLoss
  <2>1. Boot
    BY <1>6 DEF Reboot, PowerLoss
  <2>2. {config', nvs', accepted'} \subseteq Configs \cup {Erased} /\ messages' = messages /\ turns' = turns
    BY <2>1 DEF Boot
  <2>3. {store', reboot', running', commsActive', motorActive', answered'} \subseteq BOOLEAN
    BY <2>1 DEF Boot
  <2>4. pc' = "node" /\ msg' = "none" /\ commsLeft' = 0 /\ motorLeft' = 0 /\ toWrap' = 0
    BY <2>1 DEF Boot
  <2> QED
    BY <2>2, <2>3, <2>4 DEF Missed
<1>7. CASE MessageArrives \/ MessageEnds
  <2>1. UNCHANGED <<pc, config, nvs, store, reboot, running, commsActive, commsLeft, motorActive, motorLeft, toWrap, turns, accepted>>
    BY <1>7 DEF MessageArrives, MessageEnds
  <2>2. answered' \in BOOLEAN
    BY <1>7, Zenon DEF MessageArrives, MessageEnds
  <2>3. msg' \in {"none", "pending", "done"} /\ messages' \in 0 .. MaxMessages
    BY <1>7 DEF MessageArrives, MessageEnds
  <2> QED
    BY <2>1, <2>2, <2>3
<1>8. CASE Tick
  <2>1. commsLeft' \in Missed .. CommsIdle /\ motorLeft' \in Missed .. MotorIdle
    BY <1>8, SoonerInRange DEF Tick
  <2>2. toWrap' \in Nat
    BY <1>8 DEF Tick
  <2> QED
    BY <1>8, <2>1, <2>2 DEF Tick
<1>9. CASE UNCHANGED vars
  BY <1>9 DEF vars
<1> QED
  BY <1>1, <1>2, <1>3, <1>4, <1>5, <1>6, <1>7, <1>8, <1>9 DEF Next, Loop

(* A write marks what it changes, a store clears the mark before it reads, *)
(* and a start takes what is in flash.                                     *)
LEMMA ConfigStep == ConfigInv /\ [Next]_vars => ConfigInv'
<1> SUFFICES ASSUME ConfigInv, [Next]_vars PROVE ConfigInv'
  OBVIOUS
<1> USE DEF ConfigInv, StoredOrDue, flags, timers, bounds, Goto
<1>1. ASSUME NEW new \in Configs, ConfigWrite(new) PROVE ConfigInv'
  BY <1>1 DEF ConfigWrite, Handle
<1>2. CASE StoreBegin \/ StoreErase \/ StoreProgram
  BY <1>2 DEF StoreBegin, StoreErase, StoreProgram
<1>3. CASE Reboot \/ PowerLoss
  BY <1>3 DEF Reboot, PowerLoss, Boot
<1>4. CASE NodeTick \/ OtherMessage \/ RebootWrite \/ (\E on \in BOOLEAN : MotorControl(on))
  BY <1>4 DEF NodeTick, OtherMessage, RebootWrite, Handle, MotorControl
<1>5. CASE CommsStateUpdate \/ MotorStateUpdate \/ Again
  BY <1>5 DEF CommsStateUpdate, MotorStateUpdate, Again
<1>6. CASE MessageArrives \/ MessageEnds \/ Tick \/ UNCHANGED vars
  BY <1>6 DEF MessageArrives, MessageEnds, Tick, vars
<1> QED
  BY <1>1, <1>2, <1>3, <1>4, <1>5, <1>6 DEF Next, Loop

(* comms_state_update renews the activity of the chain while the message   *)
(* is there, and nothing but the end of the message takes it away.         *)
LEMMA AnswerStep == TypeOK /\ AnswerInv /\ [Next]_vars => AnswerInv'
<1> SUFFICES ASSUME TypeOK, AnswerInv, [Next]_vars PROVE AnswerInv'
  OBVIOUS
<1> USE DEF AnswerInv, flags, timers, bounds, Goto
<1>1. CASE OtherMessage \/ RebootWrite \/ (\E new \in Configs : ConfigWrite(new))
  BY <1>1 DEF OtherMessage, RebootWrite, ConfigWrite, Handle
<1>2. CASE NodeTick \/ (\E on \in BOOLEAN : MotorControl(on))
  BY <1>2 DEF NodeTick, MotorControl
<1>3. CASE CommsStateUpdate
  BY <1>3 DEF CommsStateUpdate, Busy
<1>4. CASE MotorStateUpdate \/ Again \/ StoreBegin \/ StoreErase \/ StoreProgram
  BY <1>4 DEF MotorStateUpdate, Again, StoreBegin, StoreErase, StoreProgram
<1>5. CASE Reboot \/ PowerLoss \/ MessageEnds
  BY <1>5 DEF Reboot, PowerLoss, Boot, MessageEnds
<1>6. CASE MessageArrives \/ Tick \/ UNCHANGED vars
  BY <1>6 DEF MessageArrives, Tick, vars
<1> QED
  BY <1>1, <1>2, <1>3, <1>4, <1>5, <1>6 DEF Next, Loop

(* It holds when the module starts.                                        *)
LEMMA InitInv == Init => IInv
<1>1. ASSUME Init PROVE TypeOK
  <2>1. {config, nvs, accepted} \subseteq Configs \cup {Erased}
    BY <1>1 DEF Init
  <2>2. {store, reboot, running, commsActive, motorActive, answered} \subseteq BOOLEAN
    BY <1>1 DEF Init
  <2>3. pc = "node" /\ msg = "none" /\ commsLeft = 0 /\ motorLeft = 0 /\ toWrap \in Nat /\ messages = 0 /\ turns = 0
    BY <1>1, MainAssumption DEF Init
  <2> QED
    BY <2>1, <2>2, <2>3, MainAssumption DEF TypeOK, Missed
<1>2. Init => ConfigInv
  BY DEF Init, ConfigInv, StoredOrDue
<1>3. Init => AnswerInv
  BY DEF Init, AnswerInv
<1> QED
  BY <1>1, <1>2, <1>3 DEF IInv

(* The invariant holds in every reachable state.                           *)
LEMMA InvariantHolds == Spec => []IInv
<1>1. IInv /\ [Next]_vars => IInv'
  BY TypeStep, ConfigStep, AnswerStep DEF IInv
<1> QED
  BY InitInv, <1>1, PTL DEF Spec

(* Type correctness of the main loop: a deadline is never further away     *)
(* than its timeout, for all timeouts.                                     *)
THEOREM TypeCorrect == Spec => []TypeOK
<1>1. IInv => TypeOK
  BY DEF IInv
<1> QED
  BY <1>1, InvariantHolds, PTL

(* An accepted configuration is in flash or due to be stored, whenever a   *)
(* write comes and the power goes.                                         *)
THEOREM ConfigIsStoredOrDue == Spec => []StoredOrDue
<1>1. IInv => StoredOrDue
  BY DEF IInv, ConfigInv
<1> QED
  BY <1>1, InvariantHolds, PTL

(* A reboot on command starts with the configuration accepted last, and    *)
(* comes after the answer to the command.                                  *)
THEOREM RebootLosesNothing == Spec => RebootIsSafe
<1>1. IInv /\ [Next]_vars => [Reboot => config' = accepted /\ answered]_vars
  <2> SUFFICES ASSUME IInv, Reboot PROVE config' = accepted /\ answered
    BY DEF IInv
  <2>1. config' = accepted
    BY DEF IInv, ConfigInv, StoredOrDue, Reboot, Boot
  <2>2. answered
    BY DEF IInv, AnswerInv, TypeOK, Reboot, AtRest
  <2> QED
    BY <2>1, <2>2
<1> QED
  BY <1>1, InvariantHolds, PTL DEF Spec, RebootIsSafe

--------------------------------------------------------------------------------
(* The main loop with its motor *)

(* A pass of the loop with a motor is one with a motor that may run at any *)
(* time.                                                                   *)
LEMMA LoopStep == TypeOK /\ [LoopNext]_loopVars => [Next]_vars
<1> SUFFICES ASSUME TypeOK, [LoopNext]_loopVars PROVE [Next]_vars
  OBVIOUS
<1>1. CASE ChainStep(Next)
  BY <1>1 DEF ChainStep
<1>2. CASE MotorStep
  <2>1. CASE UNCHANGED vars
    BY <2>1
  <2>2. CASE NodeTick \/ CommsStateUpdate \/ MotorStateUpdate \/ Again
    BY <2>2 DEF Next, Loop
  <2>3. ASSUME NEW on \in BOOLEAN, MotorControl(on) PROVE Next
    BY <2>3 DEF Next, Loop
  <2>4. CASE MotorControl(IsRunning') \/ MotorControl(running)
    <3>1. IsRunning' \in BOOLEAN
      BY DEF IsRunning
    <3>2. running \in BOOLEAN
      BY DEF TypeOK
    <3> QED
      BY <2>3, <2>4, <3>1, <3>2
  <2> QED
    BY <1>2, <2>1, <2>2, <2>4 DEF MotorStep
<1>3. CASE UNCHANGED loopVars
  BY <1>3 DEF loopVars
<1> QED
  BY <1>1, <1>2, <1>3 DEF LoopNext

(* Hence all that is proved of the loop with any motor holds of the loop   *)
(* with this one, type correctness first.                                  *)
LEMMA LoopInv == LoopSpec => []IInv
<1>1. LoopInit => IInv
  BY InitInv DEF LoopInit
<1>2. IInv /\ [LoopNext]_loopVars => IInv'
  BY LoopStep, TypeStep, ConfigStep, AnswerStep DEF IInv
<1> QED
  BY <1>1, <1>2, PTL DEF LoopSpec

(* The loop with the motor it controls is a loop with a motor that runs at *)
(* will: a refinement, with ModuleMain as the abstract specification.      *)
THEOREM LoopImplementsMain == LoopSpec => Spec
<1>1. LoopInit => Init
  BY DEF LoopInit
<1>2. IInv /\ [LoopNext]_loopVars => [Next]_vars
  BY LoopStep DEF IInv
<1> QED
  BY <1>1, <1>2, LoopInv, PTL DEF LoopSpec, Spec

(* With the motor that the code controls, too, RAM and flash only differ   *)
(* while a store is due or under way.                                      *)
THEOREM LoopStoresOrMarks == LoopSpec => []StoredOrDue
BY LoopImplementsMain, ConfigIsStoredOrDue, PTL

(* And a reboot on command loses no accepted configuration and waits for   *)
(* the answer to the command.                                              *)
THEOREM LoopRebootsSafely == LoopSpec => RebootIsSafe
BY LoopImplementsMain, RebootLosesNothing, PTL

--------------------------------------------------------------------------------
(* C's division keeps to the integers, and a divisor that is not negative  *)
(* does not change the sign.                                               *)
LEMMA QuotSign ==
  \A a \in Int, b \in Int \ {0} :
    /\ Quot(a, b) \in Int
    /\ b > 0 /\ a >= 0 => Quot(a, b) >= 0
    /\ b > 0 /\ a <= 0 => Quot(a, b) <= 0
<1> SUFFICES ASSUME NEW a \in Int, NEW b \in Int \ {0}
             PROVE  /\ Quot(a, b) \in Int
                    /\ b > 0 /\ a >= 0 => Quot(a, b) >= 0
                    /\ b > 0 /\ a <= 0 => Quot(a, b) <= 0
  OBVIOUS
<1> DEFINE q == AbsOf(a) \div AbsOf(b)
<1>1. AbsOf(a) \in Nat /\ AbsOf(b) \in Nat /\ AbsOf(b) > 0 /\ (a = 0 => AbsOf(a) = 0)
  BY DEF AbsOf
<1>2. q \in Int /\ q >= 0 /\ (a = 0 => q = 0)
  BY <1>1
<1>3. Quot(a, b) = IF (a < 0) = (b < 0) THEN q ELSE -q
  BY DEF Quot
<1> HIDE DEF q
<1> QED
  BY <1>2, <1>3

(* The knots decide on the interval.                                       *)
LEMMA IntervalIs ==
  ASSUME NEW xs, NEW v, NEW k \in 1 .. Len(xs) - 1,
         xs[k] <= v /\ (v < xs[k + 1] \/ k + 1 = Len(xs)),
         \A i \in 1 .. Len(xs) - 1 : xs[i] <= v /\ (v < xs[i + 1] \/ i + 1 = Len(xs)) => i = k
  PROVE  Interval(xs, v) = k
BY DEF Interval

(* Two knots make one interval.                                            *)
LEMMA TwoKnots ==
  \A a, b, v \in Int : a <= v => Interval(<<a, b>>, v) = 1
<1> SUFFICES ASSUME NEW a \in Int, NEW b \in Int, NEW v \in Int, a <= v PROVE Interval(<<a, b>>, v) = 1
  OBVIOUS
<1> DEFINE xs == <<a, b>>
<1>1. Len(xs) = 2 /\ xs[1] = a /\ xs[2] = b
  OBVIOUS
<1>2. 1 .. Len(xs) - 1 = {1}
  BY <1>1
<1>3. xs[1] <= v /\ (v < xs[1 + 1] \/ 1 + 1 = Len(xs))
  BY <1>1
<1> HIDE DEF xs
<1>4. Interval(xs, v) = 1
  BY <1>2, <1>3, IntervalIs
<1> QED
  BY <1>4 DEF xs

(* interpolation_linear_compute on a line                                  *)
LEMMA LinearOfTwo ==
  \A a, b, p, q, v \in Int :
    a < b => Linear(<<a, b>>, <<p, q>>, v) = p + Quot((q - p) * (Clamp(v, a, b) - a), b - a)
<1> SUFFICES ASSUME NEW a \in Int, NEW b \in Int, NEW p \in Int, NEW q \in Int, NEW v \in Int, a < b
             PROVE  Linear(<<a, b>>, <<p, q>>, v) = p + Quot((q - p) * (Clamp(v, a, b) - a), b - a)
  OBVIOUS
<1> DEFINE c == Clamp(v, a, b)
<1>1. c \in Int /\ a <= c
  BY DEF Clamp
<1>2. Interval(<<a, b>>, c) = 1
  BY <1>1, TwoKnots
<1>3. Len(<<a, b>>) = 2 /\ <<a, b>>[1] = a /\ <<a, b>>[2] = b /\ <<p, q>>[1] = p /\ <<p, q>>[2] = q
  OBVIOUS
<1> QED
  BY <1>2, <1>3 DEF Linear

(* The speeds the wheel is wanted to turn at, and the decay at each.       *)
Speeds == {0, 18, 32, 46, 60, 75}

LEMMA WantedIsSpeed == \A d \in Nat : WantedSpeed(d) \in Speeds
<1> SUFFICES ASSUME NEW d \in Nat, d >= 1 PROVE WantedSpeed(d) \in Speeds
  BY DEF WantedSpeed, Speeds
<1> DEFINE c == Clamp(d, 2, 6)
<1>1. c \in {2, 3, 4, 5, 6}
  BY DEF Clamp
<1>2. WantedSpeed(d) = 18 + Quot(57 * (c - 2), 4)
  BY LinearOfTwo DEF WantedSpeed
<1>3. /\ Quot(0, 4) = 0 /\ Quot(57, 4) = 14 /\ Quot(114, 4) = 28
      /\ Quot(171, 4) = 42 /\ Quot(228, 4) = 57
  BY DEF Quot, AbsOf
<1> HIDE DEF c
<1> QED
  BY <1>1, <1>2, <1>3 DEF Speeds

(* The decay for each of the speeds                                        *)
LEMMA DecayAt ==
  /\ DecayFor(0) = 1000 /\ DecayFor(18) = 650 /\ DecayFor(32) = 607
  /\ DecayFor(46) = 304 /\ DecayFor(60) = 0 /\ DecayFor(75) = 0
<1>1. ASSUME NEW w \in Nat \ {0} PROVE DecayFor(w) = 650 + Quot((-650) * (Clamp(w, 30, 60) - 30), 30)
  BY LinearOfTwo DEF DecayFor
<1>2. /\ Clamp(18, 30, 60) = 30 /\ Clamp(32, 30, 60) = 32 /\ Clamp(46, 30, 60) = 46
      /\ Clamp(60, 30, 60) = 60 /\ Clamp(75, 30, 60) = 60
  BY DEF Clamp
<1>3. /\ Quot(0, 30) = 0 /\ Quot(-1300, 30) = -43 /\ Quot(-10400, 30) = -346 /\ Quot(-19500, 30) = -650
  BY DEF Quot, AbsOf
<1>4. DecayFor(0) = 1000
  BY DEF DecayFor
<1> QED
  BY <1>1, <1>2, <1>3, <1>4

(* Each of them is in one interval of either axis of the table.            *)
LEMMA SpeedIntervals ==
  /\ Interval(SpeedKnots, 0) = 1 /\ Interval(SpeedKnots, 18) = 1 /\ Interval(SpeedKnots, 32) = 3
  /\ Interval(SpeedKnots, 46) = 4 /\ Interval(SpeedKnots, 60) = 5 /\ Interval(SpeedKnots, 75) = 6
<1>1. Len(SpeedKnots) = 7
  BY DEF SpeedKnots
<1>2. /\ SpeedKnots[1] = 0 /\ SpeedKnots[2] = 25 /\ SpeedKnots[3] = 30 /\ SpeedKnots[4] = 40
      /\ SpeedKnots[5] = 50 /\ SpeedKnots[6] = 70 /\ SpeedKnots[7] = 100
  BY DEF SpeedKnots
<1>3. ASSUME NEW v \in Int, NEW k \in 1 .. 6,
             SpeedKnots[k] <= v, v < SpeedKnots[k + 1]
      PROVE  Interval(SpeedKnots, v) = k
  <2>1. k \in 1 .. Len(SpeedKnots) - 1
    BY <1>1
  <2>2. SpeedKnots[k] <= v /\ (v < SpeedKnots[k + 1] \/ k + 1 = Len(SpeedKnots))
    BY <1>1, <1>3
  <2>3. \A i \in 1 .. Len(SpeedKnots) - 1 :
          SpeedKnots[i] <= v /\ (v < SpeedKnots[i + 1] \/ i + 1 = Len(SpeedKnots)) => i = k
    BY <1>1, <1>2, <1>3
  <2> QED
    BY ONLY <2>1, <2>2, <2>3, IntervalIs
<1> QED
  BY <1>2, <1>3

(* And so are the decays.                                                  *)
LEMMA DecayIntervals ==
  /\ Interval(DecayKnots, 0) = 1 /\ Interval(DecayKnots, 304) = 2 /\ Interval(DecayKnots, 607) = 3
  /\ Interval(DecayKnots, 650) = 3 /\ Interval(DecayKnots, 1000) = 4
<1>1. Len(DecayKnots) = 5
  BY DEF DecayKnots
<1>2. /\ DecayKnots[1] = 0 /\ DecayKnots[2] = 250 /\ DecayKnots[3] = 500
      /\ DecayKnots[4] = 750 /\ DecayKnots[5] = 1000
  BY DEF DecayKnots
<1>3. ASSUME NEW v \in Int, NEW k \in 1 .. 4,
             DecayKnots[k] <= v /\ (v < DecayKnots[k + 1] \/ k + 1 = 5)
      PROVE  Interval(DecayKnots, v) = k
  <2>1. k \in 1 .. Len(DecayKnots) - 1
    BY <1>1
  <2>2. DecayKnots[k] <= v /\ (v < DecayKnots[k + 1] \/ k + 1 = Len(DecayKnots))
    BY <1>1, <1>3
  <2>3. \A i \in 1 .. Len(DecayKnots) - 1 :
          DecayKnots[i] <= v /\ (v < DecayKnots[i + 1] \/ i + 1 = Len(DecayKnots)) => i = k
    BY <1>1, <1>2, <1>3
  <2> QED
    BY ONLY <2>1, <2>2, <2>3, IntervalIs
<1> QED
  BY <1>2, <1>3

(* A wheel that is wanted to turn gets a pwm, one that is not gets none.   *)
LEMMA PwmAt ==
  /\ Bilinear(0, DecayFor(0)) = 0
  /\ \A w \in Speeds \ {0} : Bilinear(w, DecayFor(w)) \in Nat \ {0}
<1>1. /\ PwmTable[1][3] = 0 /\ PwmTable[1][4] = 0 /\ PwmTable[1][5] = 0
      /\ PwmTable[2][3] = 260 /\ PwmTable[2][4] = 300 /\ PwmTable[2][5] = 310
      /\ PwmTable[3][3] = 290 /\ PwmTable[3][4] = 340
      /\ PwmTable[4][2] = 280 /\ PwmTable[4][3] = 350 /\ PwmTable[4][4] = 412
      /\ PwmTable[5][1] = 215 /\ PwmTable[5][2] = 325 /\ PwmTable[5][3] = 420
      /\ PwmTable[6][1] = 320 /\ PwmTable[6][2] = 500
      /\ PwmTable[7][1] = 700 /\ PwmTable[7][2] = 800
  BY DEF PwmTable
<1>2. /\ SpeedKnots[1] = 0 /\ SpeedKnots[2] = 25 /\ SpeedKnots[3] = 30 /\ SpeedKnots[4] = 40
      /\ SpeedKnots[5] = 50 /\ SpeedKnots[6] = 70 /\ SpeedKnots[7] = 100
  BY DEF SpeedKnots
<1>3. /\ DecayKnots[1] = 0 /\ DecayKnots[2] = 250 /\ DecayKnots[3] = 500
      /\ DecayKnots[4] = 750 /\ DecayKnots[5] = 1000
  BY DEF DecayKnots
<1>4. Bilinear(0, 1000) = 0
  <2>1. Clamp(0, 0, 100) = 0 /\ Clamp(1000, 0, 1000) = 1000
    BY DEF Clamp
  <2>2. Bilinear(0, 1000)
          = (  0 * (25 - 0) * (1000 - 1000) + 300 * (0 - 0) * (1000 - 1000)
             + 0 * (25 - 0) * (1000 - 750) + 310 * (0 - 0) * (1000 - 750))
            \div ((25 - 0) * (1000 - 750))
    BY <1>1, <1>2, <1>3, <2>1, SpeedIntervals, DecayIntervals DEF Bilinear
  <2> QED
    BY <2>2
<1>5. Bilinear(18, 650) = 204
  <2>1. Clamp(18, 0, 100) = 18 /\ Clamp(650, 0, 1000) = 650
    BY DEF Clamp
  <2>2. Bilinear(18, 650)
          = (  0 * (25 - 18) * (750 - 650) + 260 * (18 - 0) * (750 - 650)
             + 0 * (25 - 18) * (650 - 500) + 300 * (18 - 0) * (650 - 500))
            \div ((25 - 0) * (750 - 500))
    BY <1>1, <1>2, <1>3, <2>1, SpeedIntervals, DecayIntervals DEF Bilinear
  <2> QED
    BY <2>2
<1>6. Bilinear(32, 607) = 324
  <2>1. Clamp(32, 0, 100) = 32 /\ Clamp(607, 0, 1000) = 607
    BY DEF Clamp
  <2>2. Bilinear(32, 607)
          = (  290 * (40 - 32) * (750 - 607) + 350 * (32 - 30) * (750 - 607)
             + 340 * (40 - 32) * (607 - 500) + 412 * (32 - 30) * (607 - 500))
            \div ((40 - 30) * (750 - 500))
    BY <1>1, <1>2, <1>3, <2>1, SpeedIntervals, DecayIntervals DEF Bilinear
  <2> QED
    BY <2>2
<1>7. Bilinear(46, 304) = 325
  <2>1. Clamp(46, 0, 100) = 46 /\ Clamp(304, 0, 1000) = 304
    BY DEF Clamp
  <2>2. Bilinear(46, 304)
          = (  280 * (50 - 46) * (500 - 304) + 325 * (46 - 40) * (500 - 304)
             + 350 * (50 - 46) * (304 - 250) + 420 * (46 - 40) * (304 - 250))
            \div ((50 - 40) * (500 - 250))
    BY <1>1, <1>2, <1>3, <2>1, SpeedIntervals, DecayIntervals DEF Bilinear
  <2> QED
    BY <2>2
<1>8. Bilinear(60, 0) = 267
  <2>1. Clamp(60, 0, 100) = 60 /\ Clamp(0, 0, 1000) = 0
    BY DEF Clamp
  <2>2. Bilinear(60, 0)
          = (  215 * (70 - 60) * (250 - 0) + 320 * (60 - 50) * (250 - 0)
             + 325 * (70 - 60) * (0 - 0) + 500 * (60 - 50) * (0 - 0))
            \div ((70 - 50) * (250 - 0))
    BY <1>1, <1>2, <1>3, <2>1, SpeedIntervals, DecayIntervals DEF Bilinear
  <2> QED
    BY <2>2
<1>9. Bilinear(75, 0) = 383
  <2>1. Clamp(75, 0, 100) = 75 /\ Clamp(0, 0, 1000) = 0
    BY DEF Clamp
  <2>2. Bilinear(75, 0)
          = (  320 * (100 - 75) * (250 - 0) + 700 * (75 - 70) * (250 - 0)
             + 500 * (100 - 75) * (0 - 0) + 800 * (75 - 70) * (0 - 0))
            \div ((100 - 70) * (250 - 0))
    BY <1>1, <1>2, <1>3, <2>1, SpeedIntervals, DecayIntervals DEF Bilinear
  <2> QED
    BY <2>2
<1> QED
  BY <1>4, <1>5, <1>6, <1>7, <1>8, <1>9, DecayAt DEF Speeds

(* What the two roundings of a pair of compare values do: cancel out.      *)
Cancel(v, d) ==
  /\ ((1000 - v) * d) \div 1000 \in Int
  /\ (v * (1000 - d)) \div 1000 \in Int
  /\ (v * (1000 - d)) \div 1000 + d - ((1000 - v) * d) \div 1000 = v

LEMMA Roundings == \A v, d \in Int : Cancel(v, d)
<1> SUFFICES ASSUME NEW v \in Int, NEW d \in Int PROVE Cancel(v, d)
  OBVIOUS
<1> DEFINE m == (1000 - v) * d
           n == v * (1000 - d)
<1>1. m \in Int /\ n \in Int
  OBVIOUS
<1>2. n = m + 1000 * (v - d)
  OBVIOUS
<1> HIDE DEF m, n
<1>3. v - d \in Int
  OBVIOUS
<1>4. \A i, k \in Int : (i + 1000 * k) \div 1000 = i \div 1000 + k
  OBVIOUS
<1>5. m \div 1000 \in Int /\ n \div 1000 = m \div 1000 + (v - d)
  BY <1>1, <1>2, <1>3, <1>4
<1> QED
  BY <1>5 DEF m, n, Cancel

(* of_hal_motor_control while the 12 V are there                           *)
Powered(speed, decay) == Registers(TRUE, speed, decay)

(* The compare values of the bridge differ by the speed, however the wheel *)
(* is braked.                                                              *)
LEMMA RegistersDiffer ==
  ASSUME NEW s \in Int, NEW d \in Int, Powered(s, d)
  PROVE  {ccr3', ccr4'} \subseteq Int /\ ccr3' - ccr4' = Clamp(s, -1000, 1000)
<1> DEFINE cs == Clamp(s, -1000, 1000)
           cd == Clamp(d, 0, 1000)
           v == AbsOf(cs)
           low == ((1000 - v) * cd) \div 1000
           high == (v * (1000 - cd)) \div 1000
<1>1. IF cs >= 0 THEN ccr4' = low /\ ccr3' = high + cd ELSE ccr3' = low /\ ccr4' = high + cd
  BY DEF Powered, Registers
<1>2. cs \in Int /\ cd \in Int
  BY DEF Clamp
<1> HIDE DEF cs, cd
<1>3. v \in Int /\ (cs >= 0 => v = cs) /\ (cs < 0 => v = -cs)
  BY <1>2 DEF AbsOf
<1> HIDE DEF v
<1>4. low \in Int /\ high \in Int /\ high + cd - low = v
  <2>1. Cancel(v, cd)
    BY <1>2, <1>3, Roundings
  <2> QED
    BY <2>1 DEF Cancel
<1> HIDE DEF low, high
<1>5. {ccr3', ccr4'} \subseteq Int /\ ccr3' - ccr4' = cs
  BY <1>1, <1>2, <1>3, <1>4
<1> QED
  BY <1>5 DEF cs

(* The PID controller stays within the integers, and does not push a wheel *)
(* that is to stand and turns forward.                                     *)
LEMMA PidSign ==
  ASSUME integral \in Int, wanted \in Speeds, NEW error \in Int, NEW pid \in PidOutputs(error)
  PROVE  /\ Integral(error) \in Int /\ pid \in Int
         /\ wanted = 0 /\ error <= 0 /\ error >= -345000 => pid <= 0
<1>1. Integral(error) \in Int /\ (wanted = 0 /\ error <= 0 => Integral(error) <= 0)
  BY DEF Integral, IntegralLimit, Clamp
<1> DEFINE sum == 6000 * error + 6 * Integral(error)
<1>2. sum \in Int /\ (wanted = 0 /\ error <= 0 => sum <= 0)
  BY <1>1
<1> DEFINE q == Quot(sum, 1000)
<1>3. PidOutputs(error) = IF AbsOf(error) > 345000 THEN {-1000, 0, 1000} ELSE {Clamp(q, -1000, 1000)}
  BY DEF PidOutputs
<1> HIDE DEF sum
<1>4. q \in Int /\ (sum <= 0 => q <= 0)
  BY <1>2, QuotSign
<1> HIDE DEF q
<1>5. Clamp(q, -1000, 1000) \in Int /\ (q <= 0 => Clamp(q, -1000, 1000) <= 0)
  BY <1>4 DEF Clamp
<1>6. error <= 0 /\ error >= -345000 => ~(AbsOf(error) > 345000)
  BY DEF AbsOf
<1>7. pid \in {-1000, 0, 1000} \/ pid = Clamp(q, -1000, 1000)
  BY <1>3
<1>8. error <= 0 /\ error >= -345000 => pid = Clamp(q, -1000, 1000)
  BY <1>3, <1>6
<1>9. pid \in Int
  BY <1>5, <1>7
<1>10. ASSUME wanted = 0, error <= 0, error >= -345000 PROVE pid <= 0
  <2>1. q <= 0
    BY <1>2, <1>4, <1>10
  <2> QED
    BY <1>5, <1>8, <1>10, <2>1
<1> QED
  BY <1>1, <1>9, <1>10

--------------------------------------------------------------------------------
(* What the arithmetic keeps to: the wheel is wanted to stand or to turn   *)
(* at one of five speeds, and all else stays within the integers.          *)
SpeedInv ==
  /\ wanted \in Speeds /\ actual \in Int /\ integral \in Int
  /\ left \in Nat /\ leftPrev \in Nat /\ spinLeft \in Nat

(* of_encoder_speed_calc, whatever it divides by                           *)
LEMMA AveragesInt ==
  ASSUME actual \in Int, NEW delta \in Deltas, NEW gap \in Gaps
  PROVE  Averages(delta, gap) \subseteq Int
<1>1. delta \in Int /\ gap \in Int
  BY SpeedAssumption
<1>2. NoQuotient \subseteq Int
  BY DEF NoQuotient, MostSpeed, LeastSpeed
<1>3. Quot(actual * 7, 8) \in Int
  <2>1. actual * 7 \in Int /\ 8 \in Int \ {0}
    OBVIOUS
  <2> QED
    BY <2>1, QuotSign
<1>4. RevTicks(gap) \in Int
  BY <1>1 DEF RevTicks
<1>5. ASSUME delta # 0 PROVE Quot(RevTicks(gap), delta) \in Int
  BY <1>1, <1>4, <1>5, QuotSign
<1>6. ASSUME NEW rev \in Int, rev # 0 PROVE Quot(actual * 7 + Quot(100000, rev), 8) \in Int
  <2>1. Quot(100000, rev) \in Int
    BY <1>6, QuotSign
  <2>2. actual * 7 + Quot(100000, rev) \in Int
    BY <2>1
  <2> QED
    BY <2>2, QuotSign
<1>7. CASE delta = 0
  <2>1. Averages(delta, gap) = {Quot(actual * 7, 8)} \cup NoQuotient
    BY <1>7 DEF Averages
  <2> QED
    BY <1>2, <1>3, <2>1
<1>8. CASE delta # 0
  <2> DEFINE rev == Quot(RevTicks(gap), delta)
             new == Quot(actual * 7 + Quot(100000, rev), 8)
  <2>1. Averages(delta, gap) = IF rev = 0 THEN NoQuotient ELSE {new}
    BY <1>8 DEF Averages
  <2>2. rev \in Int
    BY <1>5, <1>8
  <2> HIDE DEF rev
  <2>3. rev # 0 => new \in Int
    BY <1>6, <2>2
  <2> HIDE DEF new
  <2> QED
    BY <1>2, <2>1, <2>3
<1> QED
  BY <1>7, <1>8

(* It holds at the start of the module,                                    *)
LEMMA SpeedInvInit == LoopInit => SpeedInv
BY DEF LoopInit, SpeedInit, SpeedInv, Speeds

(* A tick of the pwm timer                                                 *)
LEMMA ControlStep ==
  ASSUME SpeedInv, NEW powered \in BOOLEAN, ControlLoop(powered)
  PROVE  SpeedInv'
<1>1. UNCHANGED <<wanted, actual, left>>
  BY DEF ControlLoop
<1>2. integral' \in Int
  <2>1. wanted - actual \in Int
    BY DEF SpeedInv, Speeds
  <2> QED
    BY <2>1 DEF ControlLoop, Integral, IntegralLimit, Clamp, SpeedInv
<1>3. leftPrev' \in {left, leftPrev} /\ spinLeft' \in {spinLeft, SpinTicks, spinLeft - 1}
  BY DEF ControlLoop
<1>4. spinLeft' = spinLeft - 1 => spinLeft > 0 \/ spinLeft' \in {spinLeft, SpinTicks}
  BY DEF ControlLoop
<1>5. spinLeft' \in Nat
  BY <1>3, <1>4, SpeedAssumption DEF SpeedInv
<1> QED
  BY <1>1, <1>2, <1>3, <1>5 DEF SpeedInv

(* and in every step.                                                      *)
LEMMA SpeedStep == SpeedInv /\ [LoopNext]_loopVars => SpeedInv'
<1> SUFFICES ASSUME SpeedInv, [LoopNext]_loopVars PROVE SpeedInv'
  OBVIOUS
<1>1. CASE UNCHANGED speedVars
  BY <1>1 DEF SpeedInv, speedVars
<1>2. CASE Writes
  <2>1. UNCHANGED <<wanted, actual, integral, leftPrev, spinLeft>>
    BY <1>2 DEF Writes, UnlockWrite, DistanceWrite
  <2>2. left' \in Nat
    BY <1>2, SpeedAssumption DEF Writes, UnlockWrite, DistanceWrite, SpeedInv
  <2> QED
    BY <2>1, <2>2 DEF SpeedInv
<1>3. CASE Sense
  <2>1. CASE SenseStill
    BY <2>1, WantedIsSpeed DEF SenseStill, SpeedInv
  <2>2. ASSUME NEW d \in Distances, NEW delta \in Deltas, NEW gap \in Gaps, SenseMoved(d, delta, gap)
        PROVE  SpeedInv'
    <3>1. d \in Nat
      BY SpeedAssumption
    <3>2. actual' \in Int
      BY <2>2, AveragesInt DEF SenseMoved, SpeedInv
    <3> QED
      BY <2>2, <3>1, <3>2, WantedIsSpeed DEF SenseMoved, SpeedInv
  <2> QED
    BY <1>3, <2>1, <2>2 DEF Sense
<1>4. CASE Control
  BY <1>4, ControlStep, SpeedAssumption DEF Control
<1> QED
  BY <1>1, <1>2, <1>3, <1>4 DEF LoopNext, ChainStep, MotorStep, loopVars

(* The speed and the decay that the pwm is made of                         *)
LEMMA ClosedLoop ==
  ASSUME SpeedInv, NEW pid \in PidOutputs(wanted - actual)
  PROVE  /\ ClSpeed(pid) \in Int /\ Decay(pid) \in Int
         /\ wanted # 0 => ClSpeed(pid) > 0
         /\ wanted = 0 => ClSpeed(pid) >= 0
         /\ wanted = 0 /\ actual >= 0 /\ actual <= 345000 => ClSpeed(pid) = 0
<1>1. wanted \in Speeds /\ wanted \in Int /\ actual \in Int
  BY DEF SpeedInv, Speeds
<1> DEFINE error == wanted - actual
<1>2. error \in Int /\ (wanted = 0 => error = -actual)
  BY <1>1
<1> HIDE DEF error
<1>3. pid \in Int /\ (wanted = 0 /\ error <= 0 /\ error >= -345000 => pid <= 0)
  BY <1>1, <1>2, PidSign DEF SpeedInv, error
<1>4. DecayFor(wanted) \in Int
  BY <1>1, DecayAt DEF Speeds
<1> DEFINE pwm == Bilinear(wanted, DecayFor(wanted))
<1>5. pwm \in Int /\ (wanted # 0 => pwm > 0) /\ (wanted = 0 => pwm = 0)
  BY <1>1, PwmAt
<1>6. ClSpeed(pid) = pwm + (IF pid < 0 THEN 0 ELSE pid)
  BY DEF ClSpeed
<1>7. Decay(pid) \in Int
  BY <1>3, <1>4 DEF Decay
<1> HIDE DEF pwm
<1> QED
  BY <1>1, <1>2, <1>3, <1>5, <1>6, <1>7

(* The way the bridge turns the motor, by the sign of the speed            *)
LEMMA DriveBySign ==
  ASSUME NEW s \in Int, NEW d \in Int, Powered(s, d)
  PROVE  /\ s > 0 => Drive' = "fwd"
         /\ s < 0 => Drive' = "back"
         /\ s = 0 => Drive' = "off"
<1>1. ccr3' \in Int /\ ccr4' \in Int /\ ccr3' - ccr4' = Clamp(s, -1000, 1000)
  BY RegistersDiffer
<1>2. /\ s > 0 => Clamp(s, -1000, 1000) > 0
      /\ s < 0 => Clamp(s, -1000, 1000) < 0
      /\ s = 0 => Clamp(s, -1000, 1000) = 0
  BY DEF Clamp
<1>3. ASSUME NEW x \in Int, NEW y \in Int, NEW c \in Int, x - y = c
      PROVE  /\ c > 0 => x > y
             /\ c < 0 => x < y /\ ~(x > y)
             /\ c = 0 => ~(x > y) /\ ~(x < y)
  BY <1>3
<1>4. Clamp(s, -1000, 1000) \in Int
  BY DEF Clamp
<1>5. /\ s > 0 => ccr3' > ccr4'
      /\ s < 0 => ccr3' < ccr4' /\ ~(ccr3' > ccr4')
      /\ s = 0 => ~(ccr3' > ccr4') /\ ~(ccr3' < ccr4')
  BY <1>1, <1>2, <1>3, <1>4
<1> QED
  BY <1>5 DEF Drive

(* Whatever speed is measured and whatever has been integrated: a powered, *)
(* unlocked motor turns the way that distance and backspin call for.       *)
THEOREM DriveFollowsPlan == LoopSpec => DrivesAsPlanned
<1>1. ASSUME SpeedInv, PoweredTick PROVE AsPlanned
  <2>1. PICK pid \in PidOutputs(wanted - actual) :
          \/ Arriving /\ Powered(ClSpeed(pid), Decay(pid))
          \/ ~Arriving /\ spinLeft > 0 /\ Powered(-350, 1000)
          \/ /\ ~Arriving /\ spinLeft = 0
             /\ IF left = 0 THEN Powered(0, 0) ELSE Powered(ClSpeed(pid), Decay(pid))
    BY <1>1, Zenon DEF PoweredTick, ControlLoop, Powered
  <2>2. left \in Nat /\ spinLeft \in Nat /\ wanted \in Int /\ actual \in Int
    BY <1>1 DEF SpeedInv, Speeds
  <2>3. ASSUME Powered(ClSpeed(pid), Decay(pid)),
               ~(~Arriving /\ spinLeft > 0), Arriving \/ left > 0
        PROVE  AsPlanned
    <3> DEFINE speed == ClSpeed(pid)
    <3>1. /\ speed \in Int /\ Decay(pid) \in Int
          /\ wanted # 0 => speed > 0
          /\ wanted = 0 => speed >= 0
          /\ wanted = 0 /\ actual >= 0 /\ actual <= 345000 => speed = 0
      BY <1>1, ClosedLoop
    <3>2. (speed > 0 => Drive' = "fwd") /\ (speed = 0 => Drive' = "off")
      BY <2>3, <3>1, DriveBySign
    <3>3. (wanted # 0 => PlannedDrive = "fwd") /\ (wanted = 0 => PlannedDrive = "off")
      BY <2>3 DEF PlannedDrive
    <3> HIDE DEF speed
    <3>4. CASE wanted # 0
      BY <3>1, <3>2, <3>3, <3>4 DEF AsPlanned
    <3>5. CASE wanted = 0 /\ speed = 0
      BY <3>2, <3>3, <3>5 DEF AsPlanned
    <3>6. CASE wanted = 0 /\ speed > 0
      BY <2>2, <3>1, <3>2, <3>3, <3>6 DEF AsPlanned
    <3> QED
      BY <3>1, <3>4, <3>5, <3>6
  <2>4. ASSUME ~Arriving, spinLeft > 0, Powered(-350, 1000) PROVE AsPlanned
    <3>1. Drive' = "back"
      BY <2>4, DriveBySign
    <3> QED
      BY <2>4, <3>1 DEF PlannedDrive, AsPlanned
  <2>5. ASSUME ~Arriving, spinLeft = 0, left = 0, Powered(0, 0) PROVE AsPlanned
    <3>1. Drive' = "off"
      BY <2>5, DriveBySign
    <3>2. PlannedDrive = "off"
      BY <2>5 DEF PlannedDrive
    <3> QED
      BY <3>1, <3>2 DEF AsPlanned
  <2>6. CASE Arriving
    BY <2>1, <2>3, <2>6
  <2>7. CASE ~Arriving /\ spinLeft > 0
    BY <2>1, <2>2, <2>4, <2>7
  <2>8. CASE ~Arriving /\ spinLeft = 0
    BY <2>1, <2>2, <2>3, <2>5, <2>8
  <2> QED
    BY <2>2, <2>6, <2>7, <2>8
<1>2. SpeedInv /\ [LoopNext]_loopVars => [PoweredTick => AsPlanned]_speedVars
  BY <1>1
<1> QED
  BY <1>2, SpeedInvInit, SpeedStep, PTL DEF LoopSpec, DrivesAsPlanned

--------------------------------------------------------------------------------
(* The loop with its motor stays within its types *)

LEMMA WithinRange == \A a, b, c \in Int : a <= c /\ c <= b => c \in a .. b
OBVIOUS

LEMMA ClampInRange == \A c, low, high \in Int : low <= high => Clamp(c, low, high) \in low .. high
BY DEF Clamp

LEMMA DivBelow == \A a \in Nat, b \in Nat \ {0} : a \div b \in Nat /\ a \div b <= a
OBVIOUS

(* A quotient is no further from zero than what is divided,                *)
LEMMA QuotBelow ==
  ASSUME NEW a \in Int, NEW b \in Int \ {0}
  PROVE  Quot(a, b) \in Int /\ AbsOf(Quot(a, b)) <= AbsOf(a)
<1> DEFINE q == AbsOf(a) \div AbsOf(b)
<1>1. AbsOf(a) \in Nat /\ AbsOf(b) \in Nat \ {0}
  BY DEF AbsOf
<1>2. q \in Nat /\ q <= AbsOf(a)
  BY <1>1, DivBelow
<1>3. Quot(a, b) = q \/ Quot(a, b) = -q
  BY DEF Quot
<1> HIDE DEF q
<1>4. \A m \in Nat : AbsOf(m) = m /\ AbsOf(-m) = m
  BY DEF AbsOf
<1> QED
  BY <1>2, <1>3, <1>4

(* and an eighth of what is within eight times a bound is within it.       *)
LEMMA EighthBelow ==
  ASSUME NEW a \in Int, NEW m \in Nat, -8 * m <= a, a <= 8 * m
  PROVE  -m <= Quot(a, 8) /\ Quot(a, 8) <= m
<1>1. AbsOf(a) \in Nat /\ AbsOf(a) <= 8 * m /\ AbsOf(8) = 8
  BY DEF AbsOf
<1>2. \A k \in Nat : k <= 8 * m => k \div 8 \in Nat /\ k \div 8 <= m
  OBVIOUS
<1> DEFINE q == AbsOf(a) \div AbsOf(8)
<1>3. q \in Nat /\ q <= m
  BY <1>1, <1>2
<1>4. Quot(a, 8) = q \/ Quot(a, 8) = -q
  BY DEF Quot
<1> HIDE DEF q
<1> QED
  BY <1>3, <1>4

(* The sliding average never leaves the range of eight summands.           *)
LEMMA AverageBelow ==
  ASSUME actual \in Int, LeastSpeed <= actual, actual <= MostSpeed,
         NEW x \in Int, -100000 <= x, x <= 100000
  PROVE  LeastSpeed <= Quot(actual * 7 + x, 8) /\ Quot(actual * 7 + x, 8) <= MostSpeed
<1>1. MostSpeed \in Nat /\ LeastSpeed \in Int /\ LeastSpeed <= -MostSpeed
  BY SMT DEF MostSpeed, LeastSpeed
<1> DEFINE a == actual * 7 + x
<1>2. a \in Int /\ -8 * MostSpeed <= a /\ a <= 8 * MostSpeed
  BY SMT DEF MostSpeed, LeastSpeed
<1> HIDE DEF a
<1>3. -MostSpeed <= Quot(a, 8) /\ Quot(a, 8) <= MostSpeed
  BY <1>1, <1>2, EighthBelow
<1>4. Quot(a, 8) \in Int
  BY <1>2, QuotSign
<1>5. LeastSpeed <= Quot(a, 8)
  BY <1>1, <1>3, <1>4
<1> QED
  BY <1>3, <1>5 DEF a

LEMMA SpeedBounds == MostSpeed \in Int /\ LeastSpeed \in Int /\ LeastSpeed <= 0 /\ 0 <= MostSpeed
BY SMT DEF MostSpeed, LeastSpeed

LEMMA AveragesInRange ==
  ASSUME actual \in LeastSpeed .. MostSpeed, NEW delta \in Deltas, NEW gap \in Gaps
  PROVE  Averages(delta, gap) \subseteq LeastSpeed .. MostSpeed
<1>1. MostSpeed \in Int /\ LeastSpeed \in Int /\ LeastSpeed <= 0 /\ 0 <= MostSpeed
  BY SpeedBounds
<1>2. actual \in Int /\ LeastSpeed <= actual /\ actual <= MostSpeed
  BY <1>1
<1>3. NoQuotient \subseteq LeastSpeed .. MostSpeed
  <2>1. 0 \in LeastSpeed .. MostSpeed /\ MostSpeed \in LeastSpeed .. MostSpeed /\ LeastSpeed \in LeastSpeed .. MostSpeed
    BY <1>1
  <2> QED
    BY <2>1 DEF NoQuotient
<1>4. ASSUME NEW x \in Int, -100000 <= x, x <= 100000
      PROVE  Quot(actual * 7 + x, 8) \in LeastSpeed .. MostSpeed
  <2> DEFINE a == actual * 7 + x
  <2>1. LeastSpeed <= Quot(a, 8) /\ Quot(a, 8) <= MostSpeed
    BY <1>2, <1>4, AverageBelow
  <2>2. a \in Int
    BY <1>2
  <2> HIDE DEF a
  <2>3. Quot(a, 8) \in Int
    BY <2>2, QuotSign
  <2>4. Quot(a, 8) \in LeastSpeed .. MostSpeed
    BY <1>1, <2>1, <2>3, WithinRange
  <2> QED
    BY <2>4 DEF a
<1>5. Quot(actual * 7, 8) \in LeastSpeed .. MostSpeed
  <2>1. actual * 7 + 0 = actual * 7
    BY <1>2
  <2>2. Quot(actual * 7 + 0, 8) \in LeastSpeed .. MostSpeed
    BY <1>4, SMT
  <2> QED
    BY <2>1, <2>2
<1>6. ASSUME NEW rev \in Int, rev # 0
      PROVE  Quot(actual * 7 + Quot(100000, rev), 8) \in LeastSpeed .. MostSpeed
  <2> DEFINE x == Quot(100000, rev)
  <2>1. x \in Int /\ AbsOf(x) <= AbsOf(100000)
    BY <1>6, QuotBelow, SMT
  <2> HIDE DEF x
  <2>2. -100000 <= x /\ x <= 100000
    BY <2>1, SMT DEF AbsOf
  <2>3. Quot(actual * 7 + x, 8) \in LeastSpeed .. MostSpeed
    BY <1>4, <2>1, <2>2, SMT
  <2> QED
    BY <2>3, SMT DEF x
<1>7. delta \in Int /\ gap \in Int
  BY SpeedAssumption
<1>8. RevTicks(gap) \in Int
  BY <1>7, SMT DEF RevTicks
<1>9. ASSUME delta # 0 PROVE Quot(RevTicks(gap), delta) \in Int
  BY <1>7, <1>8, <1>9, QuotSign
<1>10. CASE delta = 0
  <2>1. Averages(delta, gap) = {Quot(actual * 7, 8)} \cup NoQuotient
    BY <1>10 DEF Averages
  <2> QED
    BY <1>3, <1>5, <2>1
<1>11. CASE delta # 0
  <2> DEFINE rev == Quot(RevTicks(gap), delta)
             new == Quot(actual * 7 + Quot(100000, rev), 8)
  <2>1. Averages(delta, gap) = IF rev = 0 THEN NoQuotient ELSE {new}
    BY <1>11, SMT DEF Averages
  <2>2. rev \in Int
    BY <1>9, <1>11
  <2> HIDE DEF rev
  <2>3. rev # 0 => new \in LeastSpeed .. MostSpeed
    BY <1>6, <2>2, SMT
  <2> HIDE DEF new
  <2> QED
    BY <1>3, <2>1, <2>3
<1> QED
  BY <1>10, <1>11

(* Speed and decay, cut to their ranges, make compare values in theirs.    *)
Promille == 0 .. 1000
PwmFits(v, d) ==
  /\ ((1000 - v) * d) \div 1000 \in Promille
  /\ (v * (1000 - d)) \div 1000 + d \in Promille

LEMMA InPromille == \A c \in Int : 0 <= c /\ c <= 1000 => c \in Promille
  BY DEF Promille

LEMMA PwmInRange == \A v, d \in Promille : PwmFits(v, d)
<1> SUFFICES ASSUME NEW v \in Promille, NEW d \in Promille PROVE PwmFits(v, d)
  BY Zenon
<1>1. \A a, b, c \in Nat : a <= c => a * b <= c * b
  OBVIOUS
<1> DEFINE m == (1000 - v) * d
           n == v * (1000 - d)
<1>2. (1000 - v) \in Nat /\ 1000 - v <= 1000 /\ (1000 - d) \in Nat /\ v \in Nat /\ d \in Nat /\ v <= 1000 /\ d <= 1000
  BY DEF Promille
<1>3. m \in Nat /\ m <= 1000 * d
  <2> DEFINE a == 1000 - v
  <2>1. a \in Nat /\ a <= 1000
    BY <1>2
  <2> HIDE DEF a
  <2>2. a * d <= 1000 * d /\ a * d \in Nat
    BY <1>1, <1>2, <2>1
  <2> QED
    BY <2>2 DEF a
<1>4. n \in Nat /\ n <= 1000 * (1000 - d)
  <2> DEFINE b == 1000 - d
  <2>1. b \in Nat
    BY <1>2
  <2> HIDE DEF b
  <2>2. v * b <= 1000 * b /\ v * b \in Nat
    BY <1>1, <1>2, <2>1
  <2> QED
    BY <2>2 DEF b
<1> HIDE DEF m, n
<1>5. \A k, c \in Nat : k <= 1000 * c => k \div 1000 \in Nat /\ k \div 1000 <= c
  OBVIOUS
<1>6. m \div 1000 \in Nat /\ m \div 1000 <= d
  BY <1>2, <1>3, <1>5
<1>7. n \div 1000 \in Nat /\ n \div 1000 <= 1000 - d
  BY <1>2, <1>4, <1>5
<1>8. n \div 1000 + d \in Int /\ 0 <= n \div 1000 + d /\ n \div 1000 + d <= 1000
  BY <1>2, <1>7
<1>9. m \div 1000 \in Int /\ 0 <= m \div 1000 /\ m \div 1000 <= 1000
  BY <1>2, <1>6
<1>10. m \div 1000 \in Promille
  BY <1>9, InPromille
<1>11. n \div 1000 + d \in Promille
  BY <1>8, InPromille
<1> QED
  BY <1>10, <1>11 DEF m, n, PwmFits

LEMMA RegistersInRange ==
  ASSUME NEW on \in BOOLEAN, NEW s \in Int, NEW d \in Int, Registers(on, s, d)
  PROVE  ccr3' \in Promille /\ ccr4' \in Promille
<1> DEFINE cs == IF on THEN Clamp(s, -1000, 1000) ELSE 0
           cd == IF on THEN Clamp(d, 0, 1000) ELSE 0
           v == AbsOf(cs)
           low == ((1000 - v) * cd) \div 1000
           high == (v * (1000 - cd)) \div 1000 + cd
<1>1. IF cs >= 0 THEN ccr4' = low /\ ccr3' = high ELSE ccr3' = low /\ ccr4' = high
  BY DEF Registers
<1>2. cs \in Int /\ -1000 <= cs /\ cs <= 1000 /\ cd \in Int /\ 0 <= cd /\ cd <= 1000
  BY DEF Clamp
<1> HIDE DEF cs, cd
<1>3. v \in Int /\ 0 <= v /\ v <= 1000
  BY <1>2 DEF AbsOf
<1> HIDE DEF v
<1>4. v \in Promille /\ cd \in Promille
  BY <1>2, <1>3, InPromille
<1>5. PwmFits(v, cd)
  BY <1>4, PwmInRange
<1>6. low \in Promille /\ high \in Promille
  BY <1>5, Zenon DEF PwmFits
<1> HIDE DEF low, high
<1> QED
  BY <1>1, <1>6

(* A tick of the pwm timer                                                 *)
LEMMA ControlInRange ==
  ASSUME SpeedInv, SpeedTypeOK, NEW powered \in BOOLEAN, ControlLoop(powered)
  PROVE  SpeedTypeOK'
<1>1. /\ UNCHANGED <<wanted, actual, left, locked>> /\ ticks < MaxTicks /\ ticks' = ticks + 1
      /\ integral' = Integral(wanted - actual)
  BY DEF ControlLoop, CountTick
<1>2. integral' \in -IntegralLimit .. IntegralLimit
  <2>1. IntegralLimit \in Nat
    BY SMT DEF IntegralLimit
  <2> DEFINE sum == (IF wanted = 0 THEN 0 ELSE integral) + (wanted - actual)
  <2>2. sum \in Int /\ -IntegralLimit \in Int /\ -IntegralLimit <= IntegralLimit
    BY <2>1 DEF SpeedInv, Speeds
  <2>3. integral' = Clamp(sum, -IntegralLimit, IntegralLimit)
    BY <1>1 DEF Integral
  <2> HIDE DEF sum
  <2> QED
    BY <2>1, <2>2, <2>3, ClampInRange
<1>3. leftPrev' \in {left, leftPrev} /\ spinLeft' \in {spinLeft, SpinTicks, spinLeft - 1}
      /\ (spinLeft' = spinLeft - 1 => spinLeft > 0 \/ spinLeft' \in {spinLeft, SpinTicks})
  BY DEF ControlLoop
<1>4. spinLeft' \in 0 .. SpinTicks
  BY <1>3, SpeedAssumption DEF SpeedTypeOK, SpeedInv
<1>5. leftPrev' \in Distances \cup {0, 48}
  BY <1>3 DEF SpeedTypeOK
<1>6. ccr3' \in Promille /\ ccr4' \in Promille
  <2>1. PICK pid \in PidOutputs(wanted - actual) :
          \/ UNCHANGED <<ccr3, ccr4, leftPrev, spinLeft>>
          \/ Registers(powered, ClSpeed(pid), Decay(pid))
          \/ Registers(powered, -350, 1000)
          \/ Registers(powered, 0, 0)
    <3> DEFINE Out(s, d) == Registers(powered, s, d)
    <3>1. PICK pid \in PidOutputs(wanted - actual) :
            \/ locked /\ UNCHANGED <<ccr3, ccr4, leftPrev, spinLeft>>
            \/ /\ ~locked
               /\ leftPrev' = left
               /\ \/ Arriving /\ spinLeft' = SpinTicks /\ Out(ClSpeed(pid), Decay(pid))
                  \/ ~Arriving /\ spinLeft > 0 /\ spinLeft' = spinLeft - 1 /\ Out(-350, 1000)
                  \/ /\ ~Arriving /\ spinLeft = 0
                     /\ UNCHANGED spinLeft
                     /\ IF left = 0 THEN Out(0, 0) ELSE Out(ClSpeed(pid), Decay(pid))
      BY DEF ControlLoop
    <3>2. \/ UNCHANGED <<ccr3, ccr4, leftPrev, spinLeft>>
          \/ Out(ClSpeed(pid), Decay(pid))
          \/ Out(-350, 1000)
          \/ Out(0, 0)
      <4> HIDE DEF Out
      <4> QED
        BY <3>1
    <3> QED
      BY <3>1, <3>2
  <2>2. ClSpeed(pid) \in Int /\ Decay(pid) \in Int
    BY ClosedLoop
  <2>3. -350 \in Int /\ 1000 \in Int /\ 0 \in Int
    OBVIOUS
  <2>4. ccr3 \in Promille /\ ccr4 \in Promille
    BY Zenon DEF SpeedTypeOK, Promille
  <2>5. CASE UNCHANGED <<ccr3, ccr4, leftPrev, spinLeft>>
    BY <2>4, <2>5
  <2>6. CASE Registers(powered, ClSpeed(pid), Decay(pid))
    BY <2>2, <2>6, RegistersInRange
  <2>7. CASE Registers(powered, -350, 1000)
    BY <2>3, <2>7, RegistersInRange
  <2>8. CASE Registers(powered, 0, 0)
    BY <2>3, <2>8, RegistersInRange
  <2> QED
    BY <2>1, <2>5, <2>6, <2>7, <2>8
<1>7. ticks' \in 0 .. MaxTicks
  BY <1>1, SpeedAssumption DEF SpeedTypeOK
<1>8. wanted' \in 0 .. 75 /\ actual' \in LeastSpeed .. MostSpeed /\ left' \in Distances \cup {48} /\ locked' \in BOOLEAN
  <2>1. wanted' = wanted /\ actual' = actual /\ left' = left /\ locked' = locked
    BY <1>1
  <2>2. wanted \in 0 .. 75 /\ actual \in LeastSpeed .. MostSpeed /\ left \in Distances \cup {48} /\ locked \in BOOLEAN
    BY Zenon DEF SpeedTypeOK
  <2> QED
    BY <2>1, <2>2, Zenon
<1>9. wanted' \in 0 .. 75 /\ actual' \in LeastSpeed .. MostSpeed
  BY <1>8
<1>10. left' \in Distances \cup {48} /\ locked' \in BOOLEAN
  BY <1>8
<1>11. ccr3' \in 0 .. 1000
  BY <1>6, Zenon DEF Promille
<1>12. ccr4' \in 0 .. 1000
  BY <1>6, Zenon DEF Promille
<1> QED
  BY <1>2, <1>4, <1>5, <1>7, <1>9, <1>10, <1>11, <1>12, ZenonT(60) DEF SpeedTypeOK

LEMMA SpeedTypeStep == SpeedInv /\ SpeedTypeOK /\ [LoopNext]_loopVars => SpeedTypeOK'
<1> SUFFICES ASSUME SpeedInv, SpeedTypeOK, [LoopNext]_loopVars PROVE SpeedTypeOK'
  OBVIOUS
<1>1. CASE UNCHANGED speedVars
  BY <1>1 DEF SpeedTypeOK, speedVars
<1>2. CASE Writes
  <2>1. UNCHANGED <<wanted, actual, integral, ccr3, ccr4, leftPrev, spinLeft, ticks>>
    BY <1>2 DEF Writes, UnlockWrite, DistanceWrite
  <2>2. left' \in Distances \cup {48}
    BY <1>2 DEF Writes, UnlockWrite, DistanceWrite, SpeedTypeOK
  <2>3. locked' \in BOOLEAN
    BY <1>2, Zenon DEF Writes, UnlockWrite, DistanceWrite, SpeedTypeOK
  <2>4. /\ wanted' = wanted /\ actual' = actual /\ integral' = integral /\ ccr3' = ccr3 /\ ccr4' = ccr4
        /\ leftPrev' = leftPrev /\ spinLeft' = spinLeft /\ ticks' = ticks
    BY <2>1
  <2> QED
    BY <2>2, <2>3, <2>4, Zenon DEF SpeedTypeOK
<1>3. CASE Sense
  <2>1. wanted' \in 0 .. 75
    <3>1. \A s \in Speeds : s \in 0 .. 75
      BY DEF Speeds
    <3>2. wanted' \in Speeds
      <4>1. wanted' = WantedSpeed(left')
        BY <1>3 DEF Sense, SenseStill, SenseMoved
      <4>2. left' \in Nat
        BY <1>3, SpeedAssumption DEF Sense, SenseStill, SenseMoved, SpeedInv
      <4> QED
        BY <4>1, <4>2, WantedIsSpeed
    <3> QED
      BY <3>1, <3>2
  <2>2. actual' \in LeastSpeed .. MostSpeed
    <3>1. actual \in LeastSpeed .. MostSpeed
      BY DEF SpeedTypeOK
    <3>2. CASE SenseStill
      <4>1. 0 \in LeastSpeed .. MostSpeed
        BY SpeedBounds
      <4> QED
        BY <3>1, <3>2, <4>1 DEF SenseStill
    <3>3. ASSUME NEW d \in Distances, NEW delta \in Deltas, NEW gap \in Gaps, SenseMoved(d, delta, gap)
          PROVE  actual' \in LeastSpeed .. MostSpeed
      <4>1. actual' \in Averages(delta, gap)
        BY <3>3 DEF SenseMoved
      <4> QED
        BY <3>1, <4>1, AveragesInRange
    <3> QED
      BY <1>3, <3>2, <3>3 DEF Sense
  <2>3. left' \in Distances \cup {48}
    BY <1>3 DEF Sense, SenseStill, SenseMoved, SpeedTypeOK
  <2>4. ticks' \in 0 .. MaxTicks
    <3>1. ticks < MaxTicks /\ ticks' = ticks + 1
      BY <1>3 DEF Sense, SenseStill, SenseMoved, CountTick
    <3> QED
      BY <3>1, SpeedAssumption DEF SpeedTypeOK
  <2>5. UNCHANGED <<integral, ccr3, ccr4, leftPrev, spinLeft, locked>>
    BY <1>3 DEF Sense, SenseStill, SenseMoved
  <2> QED
    BY <2>1, <2>2, <2>3, <2>4, <2>5, Zenon DEF SpeedTypeOK
<1>4. CASE Control
  BY <1>4, ControlInRange, SpeedAssumption DEF Control
<1> QED
  BY <1>1, <1>2, <1>3, <1>4 DEF LoopNext, ChainStep, MotorStep, loopVars

(* Where the motor is looked at, the loop knows whether it runs.           *)
MotorKnown == used \in {"chain", "motor"} /\ (used = "motor" => running = IsRunning)

LEMMA KnownStep == TypeOK /\ MotorKnown /\ [LoopNext]_loopVars => MotorKnown'
<1> SUFFICES ASSUME TypeOK, MotorKnown, [LoopNext]_loopVars PROVE MotorKnown'
  OBVIOUS
<1>1. CASE ChainStep(Next)
  BY <1>1 DEF ChainStep, MotorKnown
<1>2. CASE MotorStep
  <2>1. used' = used
    BY <1>2 DEF MotorStep
  <2>2. CASE pc = "node" /\ Writes /\ UNCHANGED vars
    <3>1. UNCHANGED <<ccr3, ccr4, running>>
      BY <2>2 DEF Writes, UnlockWrite, DistanceWrite, vars
    <3> QED
      BY <2>1, <3>1 DEF MotorKnown, IsRunning
  <2>3. CASE NodeTick /\ (Sense \/ UNCHANGED speedVars)
    <3>1. UNCHANGED <<ccr3, ccr4, running>>
      BY <2>3 DEF NodeTick, Sense, SenseStill, SenseMoved, speedVars
    <3> QED
      BY <2>1, <3>1 DEF MotorKnown, IsRunning
  <2>4. CASE Control /\ MotorControl(IsRunning')
    BY <2>1, <2>4 DEF MotorControl, MotorKnown
  <2>5. CASE MotorControl(running) /\ UNCHANGED speedVars
    <3>1. UNCHANGED <<ccr3, ccr4, running>>
      BY <2>5 DEF MotorControl, speedVars
    <3> QED
      BY <2>1, <3>1 DEF MotorKnown, IsRunning
  <2>6. CASE (CommsStateUpdate \/ MotorStateUpdate \/ Again) /\ UNCHANGED speedVars
    <3>1. UNCHANGED <<ccr3, ccr4, running>>
      BY <2>6 DEF CommsStateUpdate, MotorStateUpdate, Again, speedVars
    <3> QED
      BY <2>1, <3>1 DEF MotorKnown, IsRunning
  <2> QED
    BY <1>2, <2>2, <2>3, <2>4, <2>5, <2>6 DEF MotorStep
<1>3. CASE UNCHANGED loopVars
  BY <1>3 DEF loopVars, vars, speedVars, MotorKnown, IsRunning
<1> QED
  BY <1>1, <1>2, <1>3 DEF LoopNext

LEMMA LoopStart == LoopInit => SpeedTypeOK /\ MotorKnown
<1> SUFFICES ASSUME LoopInit PROVE SpeedTypeOK /\ MotorKnown
  OBVIOUS
<1>1. /\ wanted = 0 /\ actual = 0 /\ integral = 0 /\ ccr3 = 0 /\ ccr4 = 0 /\ left = 48 /\ leftPrev = 0
      /\ spinLeft = 0 /\ locked = TRUE /\ ticks = 0 /\ running = FALSE /\ used \in {"chain", "motor"}
  BY DEF LoopInit, SpeedInit, Init
<1>2. MotorKnown
  BY <1>1 DEF MotorKnown, IsRunning
<1>3. 0 \in -IntegralLimit .. IntegralLimit
  <2>1. IntegralLimit \in Nat
    BY SMT DEF IntegralLimit
  <2> QED
    BY <2>1
<1>4. 0 \in LeastSpeed .. MostSpeed
  BY SpeedBounds
<1>5. 0 \in 0 .. 75 /\ 0 \in 0 .. 1000 /\ 0 \in 0 .. SpinTicks /\ 0 \in 0 .. MaxTicks
  BY SpeedAssumption
<1>6. SpeedTypeOK
  BY <1>1, <1>3, <1>4, <1>5, Zenon DEF SpeedTypeOK
<1> QED
  BY <1>2, <1>6

(* Whatever is measured, integrated and interpolated stays in its range,   *)
(* the compare values of the bridge among them, and the main loop knows    *)
(* whether the motor runs.                                                 *)
THEOREM LoopTypes == LoopSpec => []LoopTypeOK
<1>1. TypeOK /\ SpeedTypeOK /\ MotorKnown => LoopTypeOK
  BY DEF LoopTypeOK, MotorKnown
<1>2. LoopSpec => []TypeOK
  <2>1. IInv => TypeOK
    BY DEF IInv
  <2> QED
    BY <2>1, LoopInv, PTL
<1> QED
  BY <1>1, <1>2, LoopStart, SpeedInvInit, SpeedStep, SpeedTypeStep, KnownStep, PTL DEF LoopSpec
================================================================================
