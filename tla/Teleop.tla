------------------------------- MODULE Teleop -------------------------------
(***************************************************************************)
(* Keyboard teleoperation (teleop_key.py): a loop that reads a key, moves  *)
(* a target velocity and publishes a velocity that follows it, or, after a *)
(* force stop, a braking ramp.                                             *)
(*                                                                         *)
(* Velocities are counted in slops, half the change that a key makes: 0.025 *)
(* m/s and 0.03 rad/s.  The ramp divides by its number of steps, so what   *)
(* is published, cmd, is counted in parts of a slop, BrakeSteps to one.    *)
(***************************************************************************)
EXTENDS Integers

CONSTANTS
  LinSteps,    \* key presses from rest to the linear limit: 20 in the code
  AngSteps,    \* and to the angular limit: 10
  BrakeSteps   \* the steps of the braking ramp: 5

ASSUME StepsAssumption ==
  /\ LinSteps \in Nat \ {0}
  /\ AngSteps \in Nat \ {0}
  /\ BrakeSteps \in Nat \ {0}

VARIABLES
  target,    \* target_linear_vel, target_angular_vel
  control,   \* control_linear_vel, control_angular_vel
  last,      \* last_control_linear_vel, last_control_angular_vel
  braking,
  steps,     \* of the ramp, -1 after its end
  cmd,       \* the last velocities published
  pc         \* where the loop is

vars == <<target, control, last, braking, steps, cmd, pc>>

Axis == {"linear", "angular"}
KeyStep == 2
Slop == 1
Limit(axis) == KeyStep * (IF axis = "linear" THEN LinSteps ELSE AngSteps)
Zero == [axis \in Axis |-> 0]
Abs(v) == IF v < 0 THEN -v ELSE v

(* getKey and the branches on the key, then publishing; "quit" and          *)
(* "interrupted" are the way to the finally block.                         *)
Places == {"getKey", "publish", "quit", "interrupted", "end"}

TypeOK ==
  /\ target \in [Axis -> Int]
  /\ control \in [Axis -> Int]
  /\ last \in [Axis -> Int]
  /\ braking \in BOOLEAN
  /\ steps \in -1 .. BrakeSteps
  /\ cmd \in [Axis -> Int]
  /\ pc \in Places

(* Before the first force stop steps is not bound, and not read.           *)
Init ==
  /\ target = Zero
  /\ control = Zero
  /\ last = Zero
  /\ braking = FALSE
  /\ steps = -1
  /\ cmd = Zero
  /\ pc = "getKey"

(***************************************************************************)
(* The functions of the velocities.                                        *)
(***************************************************************************)
(* Mutant: the lower limit is forgotten.                                   *)
ConstrainedAbove(axis, v) == IF v > Limit(axis) THEN Limit(axis) ELSE v

Constrained(axis, v) ==
  IF v < -Limit(axis) THEN -Limit(axis)
  ELSE IF v > Limit(axis) THEN Limit(axis) ELSE v

SimpleProfile(output, input) ==
  IF input > output THEN IF output + Slop < input THEN output + Slop ELSE input
  ELSE IF output - Slop > input THEN output - Slop ELSE input

(* Mutant: the ramp runs the wrong way.                                    *)
BrakingProfileRises(input, i) == BrakeSteps * input - i * input

(* input - (steps - i) * input / steps, in parts of a slop.                *)
BrakingProfile(input, i) == BrakeSteps * input - (BrakeSteps - i) * input

(***************************************************************************)
(* The keys.                                                               *)
(***************************************************************************)
(* w and x move the linear target, a and d the angular one.                *)
MotionKey(axis, change) ==
  /\ pc = "getKey"
  /\ braking' = FALSE
  /\ target' = [target EXCEPT ![axis] = Constrained(axis, @ + change)]
  /\ pc' = "publish"
  /\ UNCHANGED <<control, last, steps, cmd>>

(* Mutant: the controlled velocity survives the stop.                      *)
StopKeyKeepsControl ==
  /\ pc = "getKey"
  /\ braking' = TRUE
  /\ steps' = BrakeSteps
  /\ last' = target
  /\ target' = Zero
  /\ pc' = "publish"
  /\ UNCHANGED <<control, cmd>>

(* Mutant: the target survives the stop.                                   *)
StopKeyKeepsTarget ==
  /\ pc = "getKey"
  /\ braking' = TRUE
  /\ steps' = BrakeSteps
  /\ last' = target
  /\ control' = Zero
  /\ pc' = "publish"
  /\ UNCHANGED <<target, cmd>>

(* Space and s.                                                            *)
StopKey ==
  /\ pc = "getKey"
  /\ braking' = TRUE
  /\ steps' = BrakeSteps
  /\ last' = target
  /\ target' = Zero
  /\ control' = Zero
  /\ pc' = "publish"
  /\ UNCHANGED cmd

(* Any other key, or none for 0.1 s.                                       *)
OtherKey ==
  /\ pc = "getKey"
  /\ pc' = "publish"
  /\ UNCHANGED <<target, control, last, braking, steps, cmd>>

QuitKey ==
  /\ pc = "getKey"
  /\ pc' = "quit"
  /\ UNCHANGED <<target, control, last, braking, steps, cmd>>

(***************************************************************************)
(* Publishing.                                                             *)
(***************************************************************************)
PublishControl ==
  /\ pc = "publish"
  /\ ~braking
  /\ control' = [axis \in Axis |-> SimpleProfile(control[axis], target[axis])]
  /\ cmd' = [axis \in Axis |-> BrakeSteps * control'[axis]]
  /\ pc' = "getKey"
  /\ UNCHANGED <<target, last, braking, steps>>

(* Mutant: the step of the ramp is not counted.                            *)
PublishRampForever ==
  /\ pc = "publish"
  /\ braking
  /\ steps >= 0
  /\ cmd' = [axis \in Axis |-> BrakingProfile(last[axis], steps)]
  /\ UNCHANGED <<target, control, last, braking, steps, pc>>

(* Mutant: one round too many.                                             *)
PublishRampOnceMore ==
  /\ pc = "publish"
  /\ braking
  /\ steps >= -1
  /\ cmd' = [axis \in Axis |-> BrakingProfile(last[axis], steps)]
  /\ steps' = steps - 1
  /\ UNCHANGED <<target, control, last, braking, pc>>

PublishRamp ==
  /\ pc = "publish"
  /\ braking
  /\ steps >= 0
  /\ cmd' = [axis \in Axis |-> BrakingProfile(last[axis], steps)]
  /\ steps' = steps - 1
  /\ UNCHANGED <<target, control, last, braking, pc>>

PublishHalt ==
  /\ pc = "publish"
  /\ braking
  /\ steps < 0
  /\ cmd' = Zero
  /\ pc' = "getKey"
  /\ UNCHANGED <<target, control, last, braking, steps>>

(***************************************************************************)
(* The end.  A SIGINT that comes while the terminal is not raw, or from    *)
(* another process, raises KeyboardInterrupt; rclpy's own handler shuts    *)
(* the context down beside it, after which publishing fails.               *)
(***************************************************************************)
Interrupt ==
  /\ pc \in {"getKey", "publish"}
  /\ pc' = "interrupted"
  /\ UNCHANGED <<target, control, last, braking, steps, cmd>>

Finally(published) ==
  /\ pc \in {"quit", "interrupted"}
  /\ pc = "quit" => published
  /\ cmd' = IF published THEN Zero ELSE cmd
  /\ pc' = "end"
  /\ UNCHANGED <<target, control, last, braking, steps>>

Key ==
  \/ \E axis \in Axis, change \in {KeyStep, -KeyStep} : MotionKey(axis, change)
  \/ StopKey
  \/ OtherKey
  \/ QuitKey

Publish == PublishControl \/ PublishRamp \/ PublishHalt

Next ==
  \/ Key
  \/ Publish
  \/ Interrupt
  \/ \E published \in BOOLEAN : Finally(published)

(* Only the loop's own work is fair: the operator may leave the keyboard   *)
(* alone, but getKey gives up after 0.1 s.                                 *)
Spec == Init /\ [][Next]_vars /\ WF_vars(Publish)

(***************************************************************************)
(* Properties.                                                             *)
(***************************************************************************)

(* What is published never exceeds the model's limits, however many keys   *)
(* are pressed and wherever a ramp starts (checkLinearLimitVelocity,       *)
(* checkAngularLimitVelocity).                                             *)
WithinLimits == \A axis \in Axis : Abs(cmd[axis]) <= BrakeSteps * Limit(axis)

(* Driving, one published velocity differs from the one before by at most  *)
(* one slop, also across a force stop: after it the robot starts from rest *)
(* (makeSimpleProfile).                                                    *)
DrivesSmoothly ==
  [][PublishControl => \A axis \in Axis :
        Abs(cmd'[axis] - cmd[axis]) <= BrakeSteps * Slop]_vars

(* Within a ramp the published speed never rises again once it has begun   *)
(* to fall, and the direction never turns (makeBrakingProfile).            *)
RampOnlySlows ==
  [][PublishRamp /\ steps < BrakeSteps => \A axis \in Axis :
        /\ Abs(cmd'[axis]) <= Abs(cmd[axis])
        /\ cmd'[axis] * cmd[axis] >= 0]_vars

(* A force stop comes to rest, whatever keys follow it, unless the program *)
(* is interrupted first.                                                   *)
ForceStopStops ==
  (pc = "publish" /\ braking) ~> (cmd = Zero \/ pc \in {"interrupted", "end"})

(* A robot that came to rest in a force stop stays at rest until a motion  *)
(* key is pressed: neither another force stop, nor any other key, nor the  *)
(* loop's repeated publishing starts it again (teleop_key.py:167-209).     *)
Halted == braking /\ cmd = Zero /\ (steps < 0 \/ last = Zero)
HaltedUntilMotionKey == [][Halted /\ braking' => Halted']_vars
=============================================================================
