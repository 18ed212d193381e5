---------------------------- MODULE Teleop_proofs ----------------------------
(***************************************************************************)
(* The velocity limits and the ramps of teleoperation, for every number of *)
(* key presses to the limits and of braking steps.                         *)
(***************************************************************************)
EXTENDS Teleop, TLAPS

(* The velocities the loop keeps are within the limits.                    *)
KeptWithinLimits ==
  \A axis \in Axis : /\ Abs(target[axis]) <= Limit(axis)
                     /\ Abs(control[axis]) <= Limit(axis)
                     /\ Abs(last[axis]) <= Limit(axis)

(* What was published last is the controlled velocity, or the place the    *)
(* ramp has reached, or rest.                                              *)
PublishedIsKept ==
  pc \in {"getKey", "publish"} =>
    IF braking
    THEN /\ control = Zero
         /\ target = Zero
         /\ pc = "getKey" => cmd = Zero /\ steps < 0
         /\ steps \in 0 .. BrakeSteps - 1 =>
              \A axis \in Axis : cmd[axis] = (steps + 1) * last[axis]
         /\ steps < 0 => cmd = Zero
    ELSE \A axis \in Axis : cmd[axis] = BrakeSteps * control[axis]

TeleopInvariant == TypeOK /\ KeptWithinLimits /\ WithinLimits /\ PublishedIsKept

-----------------------------------------------------------------------------
(* The limits are positive integers.                                       *)
LEMMA LimitType == \A axis \in Axis : Limit(axis) \in Nat \ {0}
  BY StepsAssumption DEF Axis, Limit, KeyStep

(* A part of a velocity within the limit is within the limit.              *)
LEMMA PartWithin ==
  ASSUME NEW B \in Nat, NEW i \in 0 .. B, NEW L \in Nat, NEW v \in Int,
         Abs(v) <= L
  PROVE  /\ i * v \in Int
         /\ Abs(i * v) <= B * L
<1>1. i * v <= B * L
  <2>1. i * v <= i * L
    BY Z3 DEF Abs
  <2>2. i * L <= B * L
    BY Z3
  <2> QED BY <2>1, <2>2, Z3
<1>2. -(i * v) <= B * L
  <2>1. i * (-v) <= i * L
    BY Z3 DEF Abs
  <2>2. i * L <= B * L
    BY Z3
  <2>3. i * (-v) = -(i * v)
    BY Z3
  <2> QED BY <2>1, <2>2, <2>3, Z3
<1> QED BY <1>1, <1>2, Z3 DEF Abs

(* The ramp is the i-th part of the velocity braked from.                  *)
LEMMA RampValue ==
  ASSUME NEW v \in Int, NEW i \in Int
  PROVE  BrakingProfile(v, i) = i * v
<1> DEFINE B == BrakeSteps
<1>1. B \in Int
  BY StepsAssumption
<1>2. (B - i) * v = B * v - i * v
  BY <1>1, Z3
<1>3. B * v \in Int /\ i * v \in Int
  BY <1>1, Z3
<1> QED BY <1>2, <1>3, Z3 DEF BrakingProfile

(* makeSimpleProfile moves by at most a slop and stays between its input   *)
(* and its output.                                                         *)
LEMMA SimpleProfileMoves ==
  ASSUME NEW output \in Int, NEW input \in Int, NEW L \in Nat,
         Abs(output) <= L, Abs(input) <= L
  PROVE  /\ SimpleProfile(output, input) \in Int
         /\ Abs(SimpleProfile(output, input) - output) <= Slop
         /\ Abs(SimpleProfile(output, input)) <= L
  BY DEF SimpleProfile, Slop, Abs

(* A constrained velocity is within its limit.                             *)
LEMMA ConstrainedWithin ==
  ASSUME NEW axis \in Axis, NEW v \in Int
  PROVE  /\ Constrained(axis, v) \in Int
         /\ Abs(Constrained(axis, v)) <= Limit(axis)
<1>1. Limit(axis) \in Nat
  BY LimitType
<1> QED BY <1>1 DEF Constrained, Abs

-----------------------------------------------------------------------------
LEMMA InitInvariant == Init => TeleopInvariant
<1> SUFFICES ASSUME Init PROVE TeleopInvariant
  OBVIOUS
<1>1. \A axis \in Axis : Zero[axis] = 0 /\ Limit(axis) \in Nat
  BY LimitType DEF Zero
<1>2. BrakeSteps \in Nat \ {0} /\ \A axis \in Axis : BrakeSteps * Limit(axis) >= 0
  BY <1>1, StepsAssumption, Z3
<1>3. TypeOK
  <2>1. Zero \in [Axis -> Int]
    BY DEF Zero
  <2>2. -1 \in -1 .. BrakeSteps
    BY StepsAssumption
  <2> QED BY <2>1, <2>2 DEF Init, TypeOK, Places
<1>4. KeptWithinLimits /\ WithinLimits
  BY <1>1, <1>2 DEF Init, KeptWithinLimits, WithinLimits, Abs
<1>5. BrakeSteps * 0 = 0
  BY <1>2, Z3
<1>6. PublishedIsKept
  BY <1>1, <1>5 DEF Init, PublishedIsKept
<1> QED BY <1>3, <1>4, <1>6 DEF TeleopInvariant

(* A motion key moves a target within its limit; a braked robot is at rest *)
(* by then.                                                                *)
LEMMA MotionKeyInvariant ==
  ASSUME TeleopInvariant, NEW axis \in Axis, NEW change \in {KeyStep, -KeyStep},
         MotionKey(axis, change)
  PROVE  TeleopInvariant'
<1>1. target[axis] \in Int /\ change \in Int /\ target[axis] + change \in Int
  BY DEF TeleopInvariant, TypeOK, KeyStep
<1>2. /\ Constrained(axis, target[axis] + change) \in Int
      /\ Abs(Constrained(axis, target[axis] + change)) <= Limit(axis)
  BY <1>1, ConstrainedWithin
<1>3. TypeOK'
  BY <1>2 DEF TeleopInvariant, TypeOK, MotionKey, Places
<1>4. KeptWithinLimits'
  BY <1>2 DEF TeleopInvariant, TypeOK, KeptWithinLimits, MotionKey
<1>5. WithinLimits'
  BY DEF TeleopInvariant, WithinLimits, MotionKey
<1>6. \A a \in Axis : cmd[a] = BrakeSteps * control[a]
  <2>1. CASE braking
    <3>1. \A a \in Axis : cmd[a] = 0 /\ control[a] = 0
      BY <2>1 DEF TeleopInvariant, PublishedIsKept, MotionKey, Zero
    <3>2. BrakeSteps * 0 = 0
      BY StepsAssumption, Z3
    <3> QED BY <3>1, <3>2
  <2>2. CASE ~braking
    BY <2>2 DEF TeleopInvariant, PublishedIsKept, MotionKey
  <2> QED BY <2>1, <2>2
<1>7. PublishedIsKept'
  BY <1>6 DEF PublishedIsKept, MotionKey
<1> QED BY <1>3, <1>4, <1>5, <1>7 DEF TeleopInvariant

LEMMA StopKeyInvariant ==
  ASSUME TeleopInvariant, StopKey PROVE TeleopInvariant'
<1>1. BrakeSteps \in Nat \ {0} /\ Zero \in [Axis -> Int]
  BY StepsAssumption DEF Zero
<1>2. TypeOK'
  BY <1>1 DEF TeleopInvariant, TypeOK, StopKey, Places
<1>3. \A a \in Axis : Zero[a] = 0 /\ Limit(a) \in Nat
  BY LimitType DEF Zero
<1>4. KeptWithinLimits' /\ WithinLimits'
  BY <1>3 DEF TeleopInvariant, KeptWithinLimits, WithinLimits, StopKey, Abs
<1>5. PublishedIsKept'
  BY <1>1 DEF PublishedIsKept, StopKey
<1> QED BY <1>2, <1>4, <1>5 DEF TeleopInvariant

LEMMA PublishControlInvariant ==
  ASSUME TeleopInvariant, PublishControl
  PROVE  /\ TeleopInvariant'
         /\ \A a \in Axis : Abs(cmd'[a] - cmd[a]) <= BrakeSteps * Slop
<1> DEFINE B == BrakeSteps
           next(a) == SimpleProfile(control[a], target[a])
<1>1. B \in Nat /\ \A a \in Axis : Limit(a) \in Nat
  BY StepsAssumption, LimitType
<1>2. \A a \in Axis : /\ next(a) \in Int
                      /\ Abs(next(a) - control[a]) <= Slop
                      /\ Abs(next(a)) <= Limit(a)
  BY <1>1, SimpleProfileMoves DEF TeleopInvariant, TypeOK, KeptWithinLimits
<1>3. \A a \in Axis : /\ B * next(a) \in Int
                      /\ Abs(B * next(a)) <= B * Limit(a)
  <2> SUFFICES ASSUME NEW a \in Axis
               PROVE  B * next(a) \in Int /\ Abs(B * next(a)) <= B * Limit(a)
    OBVIOUS
  <2>1. B \in 0 .. B
    BY <1>1
  <2> HIDE DEF B, next
  <2> QED BY <1>1, <1>2, <2>1, PartWithin
<1>4. control' = [a \in Axis |-> next(a)] /\ cmd' = [a \in Axis |-> B * next(a)]
  BY DEF PublishControl
<1>5. TypeOK'
  BY <1>2, <1>3, <1>4 DEF TeleopInvariant, TypeOK, PublishControl, Places
<1>6. KeptWithinLimits' /\ WithinLimits'
  BY <1>2, <1>3, <1>4 DEF TeleopInvariant, KeptWithinLimits, WithinLimits, PublishControl
<1>7. PublishedIsKept'
  BY <1>4 DEF PublishedIsKept, PublishControl
<1>8. \A a \in Axis : Abs(cmd'[a] - cmd[a]) <= B * Slop
  <2> SUFFICES ASSUME NEW a \in Axis PROVE Abs(cmd'[a] - cmd[a]) <= B * Slop
    OBVIOUS
  <2>1. cmd[a] = B * control[a] /\ control[a] \in Int
    BY DEF TeleopInvariant, TypeOK, PublishedIsKept, PublishControl
  <2>2. cmd'[a] = B * next(a)
    BY <1>4
  <2> DEFINE d == next(a) - control[a]
  <2>3. d \in Int /\ Abs(d) <= Slop /\ Slop \in Nat /\ B \in 0 .. B
    BY <1>1, <1>2, <2>1 DEF Slop
  <2>4. B * next(a) - B * control[a] = B * d
    <3>1. next(a) \in Int
      BY <1>2
    <3> HIDE DEF B, next
    <3> QED BY <1>1, <2>1, <3>1, Z3
  <2>5. Abs(B * d) <= B * Slop
    <3> HIDE DEF B, d
    <3> QED BY <1>1, <2>3, PartWithin
  <2> QED BY <2>1, <2>2, <2>4, <2>5
<1> QED BY <1>5, <1>6, <1>7, <1>8 DEF TeleopInvariant

LEMMA PublishRampInvariant ==
  ASSUME TeleopInvariant, PublishRamp
  PROVE  TeleopInvariant' /\ cmd' = [a \in Axis |-> steps * last[a]]
<1>1. /\ BrakeSteps \in Nat \ {0} /\ steps \in 0 .. BrakeSteps /\ steps \in Int
      /\ \A a \in Axis : last[a] \in Int /\ Limit(a) \in Nat
  BY StepsAssumption, LimitType DEF TeleopInvariant, TypeOK, PublishRamp
<1>2. cmd' = [a \in Axis |-> steps * last[a]]
  BY <1>1, RampValue DEF PublishRamp
<1>3. \A a \in Axis : /\ steps * last[a] \in Int
                      /\ Abs(steps * last[a]) <= BrakeSteps * Limit(a)
  BY <1>1, PartWithin DEF TeleopInvariant, KeptWithinLimits
<1>4. TypeOK'
  BY <1>1, <1>2, <1>3 DEF TeleopInvariant, TypeOK, PublishRamp
<1>5. KeptWithinLimits' /\ WithinLimits'
  BY <1>2, <1>3 DEF TeleopInvariant, KeptWithinLimits, WithinLimits, PublishRamp
<1>6. steps' = steps - 1 /\ steps' + 1 = steps
  BY <1>1 DEF PublishRamp
<1>7. ASSUME steps' < 0 PROVE cmd' = Zero
  <2>1. steps = 0
    BY <1>1, <1>6, <1>7
  <2>2. \A a \in Axis : 0 * last[a] = 0
    BY <1>1, Z3
  <2> QED BY <1>2, <2>1, <2>2 DEF Zero
<1>8. PublishedIsKept'
  BY <1>2, <1>6, <1>7 DEF TeleopInvariant, PublishedIsKept, PublishRamp
<1> QED BY <1>2, <1>4, <1>5, <1>8 DEF TeleopInvariant

(* The steps that leave the kept velocities alone.                         *)
LEMMA OtherStepsInvariant ==
  ASSUME TeleopInvariant,
         \/ OtherKey \/ QuitKey \/ PublishHalt \/ Interrupt
         \/ \E published \in BOOLEAN : Finally(published)
         \/ UNCHANGED vars
  PROVE  TeleopInvariant'
<1>1. \A a \in Axis : Zero[a] = 0 /\ Abs(0) <= BrakeSteps * Limit(a)
  <2>1. \A a \in Axis : BrakeSteps * Limit(a) >= 0
    BY StepsAssumption, LimitType, Z3
  <2> QED BY <2>1 DEF Zero, Abs
<1>2. Zero \in [Axis -> Int]
  BY DEF Zero
<1>3. TypeOK'
  BY <1>2 DEF TeleopInvariant, TypeOK, OtherKey, QuitKey, PublishHalt, Interrupt,
              Finally, vars, Places
<1>4. KeptWithinLimits'
  BY DEF TeleopInvariant, KeptWithinLimits, OtherKey, QuitKey, PublishHalt,
         Interrupt, Finally, vars
<1>5. WithinLimits'
  BY <1>1 DEF TeleopInvariant, WithinLimits, OtherKey, QuitKey, PublishHalt,
              Interrupt, Finally, vars
<1>6. PublishedIsKept'
  BY DEF TeleopInvariant, TypeOK, PublishedIsKept, OtherKey, QuitKey, PublishHalt,
         Interrupt, Finally, vars
<1> QED BY <1>3, <1>4, <1>5, <1>6 DEF TeleopInvariant

LEMMA StepInvariant == TeleopInvariant /\ [Next]_vars => TeleopInvariant'
  BY MotionKeyInvariant, StopKeyInvariant, PublishControlInvariant,
     PublishRampInvariant, OtherStepsInvariant DEF Next, Key, Publish

-----------------------------------------------------------------------------
(* No published velocity exceeds the limits.                               *)
THEOREM TeleopWithinLimits == Spec => []WithinLimits
<1>1. TeleopInvariant => WithinLimits
  BY DEF TeleopInvariant
<1> QED BY <1>1, InitInvariant, StepInvariant, PTL DEF Spec

(* Types.                                                                  *)
THEOREM TeleopTypeOK == Spec => []TypeOK
<1>1. TeleopInvariant => TypeOK
  BY DEF TeleopInvariant
<1> QED BY <1>1, InitInvariant, StepInvariant, PTL DEF Spec

(* Driving, the published velocity changes by at most one slop at a time.  *)
THEOREM TeleopDrivesSmoothly == Spec => DrivesSmoothly
<1>1. TeleopInvariant /\ [Next]_vars =>
        [PublishControl => \A axis \in Axis :
            Abs(cmd'[axis] - cmd[axis]) <= BrakeSteps * Slop]_vars
  BY PublishControlInvariant
<1> QED BY <1>1, InitInvariant, StepInvariant, PTL DEF Spec, DrivesSmoothly

(* Within a ramp the speed does not rise again and keeps its direction.    *)
LEMMA RampFalls ==
  ASSUME NEW v \in Int, NEW i \in Nat
  PROVE  Abs(i * v) <= Abs((i + 1) * v) /\ (i * v) * ((i + 1) * v) >= 0
<1>1. (i + 1) * v = i * v + v
  BY Z3
<1>2. CASE v >= 0
  <2>1. i * v >= 0
    BY <1>2, Z3
  <2>2. i * v + v >= 0 /\ i * v <= i * v + v
    BY <1>2, <2>1
  <2> DEFINE x == i * v  y == i * v + v
  <2>3. x \in Int /\ y \in Int /\ x >= 0 /\ y >= 0 /\ x <= y
    BY <2>1, <2>2
  <2>4. Abs(x) <= Abs(y) /\ x * y >= 0
    <3> HIDE DEF x, y
    <3>1. Abs(x) <= Abs(y)
      BY <2>3 DEF Abs
    <3>2. x * y >= 0
      BY <2>3, Z3
    <3> QED BY <3>1, <3>2
  <2> QED BY <1>1, <2>4
<1>3. CASE v < 0
  <2>1. i * v <= 0
    BY <1>3, Z3
  <2>2. i * v + v <= 0 /\ i * v + v <= i * v
    BY <1>3, <2>1
  <2> DEFINE x == i * v  y == i * v + v
  <2>3. x \in Int /\ y \in Int /\ x <= 0 /\ y <= 0 /\ y <= x
    BY <2>1, <2>2
  <2>4. Abs(x) <= Abs(y) /\ x * y >= 0
    <3> HIDE DEF x, y
    <3>1. Abs(x) <= Abs(y)
      BY <2>3 DEF Abs
    <3>2. x * y >= 0
      BY <2>3, Z3
    <3> QED BY <3>1, <3>2
  <2> QED BY <1>1, <2>4
<1> QED BY <1>2, <1>3

(* The braking ramp only slows the robot down once it has begun.           *)
THEOREM TeleopRampSlows == Spec => RampOnlySlows
<1>1. ASSUME TeleopInvariant, PublishRamp, steps < BrakeSteps, NEW axis \in Axis
      PROVE  /\ Abs(cmd'[axis]) <= Abs(cmd[axis])
             /\ cmd'[axis] * cmd[axis] >= 0
  <2>1. steps \in 0 .. BrakeSteps - 1 /\ steps \in Nat /\ last[axis] \in Int
    BY <1>1, StepsAssumption DEF TeleopInvariant, TypeOK, PublishRamp
  <2>2. cmd[axis] = (steps + 1) * last[axis]
    BY <1>1, <2>1 DEF TeleopInvariant, PublishedIsKept, PublishRamp
  <2>3. cmd'[axis] = steps * last[axis]
    BY <1>1, PublishRampInvariant
  <2> QED BY <2>1, <2>2, <2>3, RampFalls
<1>2. TeleopInvariant /\ [Next]_vars =>
        [PublishRamp /\ steps < BrakeSteps => \A axis \in Axis :
           /\ Abs(cmd'[axis]) <= Abs(cmd[axis])
           /\ cmd'[axis] * cmd[axis] >= 0]_vars
  BY <1>1
<1> QED BY <1>2, InitInvariant, StepInvariant, PTL DEF Spec, RampOnlySlows

(* A halted robot stays halted until a motion key is pressed.              *)
THEOREM TeleopHalts == Spec => HaltedUntilMotionKey
<1>1. ASSUME TeleopInvariant, [Next]_vars, Halted, braking' PROVE Halted'
  <2>1. CASE StopKey
    BY <1>1, <2>1 DEF TeleopInvariant, PublishedIsKept, Halted, StopKey
  <2>2. CASE PublishRamp
    <3>1. steps \in Int /\ steps >= 0 /\ last = Zero
      BY <1>1, <2>2 DEF TeleopInvariant, TypeOK, Halted, PublishRamp
    <3>2. cmd' = [a \in Axis |-> steps * last[a]]
      BY <1>1, <2>2, PublishRampInvariant
    <3>3. \A a \in Axis : steps * last[a] = 0
      BY <3>1, Z3 DEF Zero
    <3>4. cmd' = Zero
      BY <3>2, <3>3 DEF Zero
    <3> QED BY <1>1, <2>2, <3>1, <3>4 DEF Halted, PublishRamp
  <2>3. CASE ~StopKey /\ ~PublishRamp
    BY <1>1, <2>3 DEF Halted, Next, Key, Publish, MotionKey, OtherKey, QuitKey,
                      PublishControl, PublishHalt, Interrupt, Finally, vars
  <2> QED BY <2>1, <2>2, <2>3
<1>2. TeleopInvariant /\ [Next]_vars => [Halted /\ braking' => Halted']_vars
  BY <1>1
<1> QED BY <1>2, InitInvariant, StepInvariant, PTL DEF Spec, HaltedUntilMotionKey
=============================================================================
