----------------------------- MODULE Simulator -----------------------------
(***************************************************************************)
(* The state machine of the mock robot (mock_robot/simulator.py, class     *)
(* RobotSimulator): what one output assembly image does to it, what time   *)
(* does to it, and an error injected by a test.                            *)
(*                                                                         *)
(* Every handler of the class is an operator from a robot to a robot, so   *)
(* that apply_output_assembly is their composition in the order of the     *)
(* code and other modules can run a robot of their own.                    *)
(*                                                                         *)
(* Abstractions of data: the six joints are one angle in whole degrees;    *)
(* time is counted in ticks, one tick being the time a joint takes for one *)
(* degree, and a deadline is the number of ticks left until it; the two    *)
(* placeholder kinematics are the identity; a move has one speed, which    *)
(* the velocity percentage does not scale; and the values written to robot *)
(* variables are left out (both commands are accepted and acknowledged).   *)
(***************************************************************************)
EXTENDS Integers

CONSTANTS
  Images,          \* the output images the scanner may produce
  ElapsedTimes,    \* ticks that may pass between two visits of _advance
  ActivationTime,  \* ticks of an activation, and of a deactivation
  HomingTime,      \* ticks of the homing sequence
  LowerLimit,      \* joint limits
  UpperLimit,
  HomePosition     \* where the joint is at the end of homing

Angle == LowerLimit .. UpperLimit

\* reached_checkpoint is masked to 16 bits.
Checkpoints == 0 .. 65535

States == {"deactivated", "activating", "deactivating", "activated",
           "homing", "idle", "moving", "error"}

ErrorCodes == {"NONE", "UNKNOWN_MOTION_COMMAND", "MOVE_WITHOUT_HOMING",
               "MOVE_OUT_OF_RANGE", "INJECTED"}

\* What a test may inject: any number, one of no SimulatorErrorCode included.
InjectedCodes == ErrorCodes \cup {"unlisted"}

\* What a motion command identifier can be to this robot: 0, in no table, a
\* robot variable, one of the commands with a modelled effect (of the ones
\* that move, MoveJoints also stands for MovePose and MoveLin, MoveJointsRel
\* for the two relative linear moves), or any other declared command.
CommandNames == {"none", "unknown", "variable", "StartProgram",
                 "SetCheckpoint", "SetJointVel", "Delay", "MoveJoints",
                 "MoveJointsRel", "MoveJointsVel", "unmodelled"}

RobotControl ==
  [activate : BOOLEAN, deactivate : BOOLEAN, home : BOOLEAN,
   reset_error : BOOLEAN, enable_simulation : BOOLEAN,
   enable_recovery_mode : BOOLEAN]

MotionControl ==
  [setpoint : BOOLEAN, pause : BOOLEAN, clear_move : BOOLEAN,
   resume_motion : BOOLEAN, move_id : Nat]

MotionCommand == [name : CommandNames, argument : Int]

\* One output assembly image, decoded.
Image == [robot : RobotControl, motion : MotionControl, command : MotionCommand]

\* The all-zero image a scanner starts from.
ZeroImage ==
  [robot |-> [activate |-> FALSE, deactivate |-> FALSE, home |-> FALSE,
              reset_error |-> FALSE, enable_simulation |-> FALSE,
              enable_recovery_mode |-> FALSE],
   motion |-> [setpoint |-> FALSE, pause |-> FALSE, clear_move |-> FALSE,
               resume_motion |-> FALSE, move_id |-> 0],
   command |-> [name |-> "none", argument |-> 0]]

ASSUME SimulatorAssumption ==
  /\ Images \subseteq Image
  /\ ElapsedTimes \subseteq Nat
  /\ ActivationTime \in Nat
  /\ HomingTime \in Nat
  /\ LowerLimit \in Int /\ UpperLimit \in Int
  /\ HomePosition \in Angle
  /\ 0 \in Angle

\* The private fields of RobotSimulator. state_left and move_left are the
\* ticks from the last visit of _advance to _state_deadline and to
\* _move_end_time, 0 once these are in the past. holding says that
\* _joint_velocity is not None, joint_velocity which it is (0 if None).
Robot ==
  [state : States,
   error_code : ErrorCodes,
   homed : BOOLEAN,
   paused : BOOLEAN,
   cleared : BOOLEAN,
   simulation_mode : BOOLEAN,
   recovery_mode : BOOLEAN,
   joints : Int,
   holding : BOOLEAN,
   joint_velocity : Int,
   state_left : Nat,
   move_left : Nat,
   move_start : Int,
   move_target : Int,
   received_move_id : Nat,
   previous_move_id : Nat,
   previous_resume_motion : BOOLEAN,
   reached_checkpoint : Int,
   offline_program_id : Int]

InitialRobot ==
  [state |-> "deactivated", error_code |-> "NONE", homed |-> FALSE,
   paused |-> FALSE, cleared |-> FALSE, simulation_mode |-> FALSE,
   recovery_mode |-> FALSE, joints |-> 0, holding |-> FALSE, joint_velocity |-> 0,
   state_left |-> 0, move_left |-> 0, move_start |-> 0, move_target |-> 0,
   received_move_id |-> 0, previous_move_id |-> 0,
   previous_resume_motion |-> FALSE, reached_checkpoint |-> 0,
   offline_program_id |-> 0]

----------------------------------------------------------------------------
(* Helpers of the handlers.                                                *)

Distance(a, b) == IF a <= b THEN b - a ELSE a - b

\* Mutant of Clamp: no clamping.
Unclamped(angle) == angle

Clamp(angle) ==
  IF angle < LowerLimit THEN LowerLimit
  ELSE IF angle > UpperLimit THEN UpperLimit ELSE angle

\* Mutant of EnterError: the code is not set.
EnterErrorSilently(r, code) == [r EXCEPT !.state = "error"]

\* The state is set before the code is converted: for a number that is in no
\* enumeration the conversion raises in between, and the old code stays.
EnterError(r, code) ==
  [r EXCEPT !.state = "error",
            !.error_code = IF code \in ErrorCodes THEN code ELSE @]

\* Leave a state of motion alone: nothing here is moving any more.
Settle(r) == [r EXCEPT !.state = IF @ = "moving" THEN "idle" ELSE @]

\* Mutant of ReleaseVelocity: the state of motion stays.
ReleaseUnsettled(r) == [r EXCEPT !.holding = FALSE, !.joint_velocity = 0]

ReleaseVelocity(r) ==
  IF r.holding
  THEN Settle([r EXCEPT !.holding = FALSE, !.joint_velocity = 0]) ELSE r

\* Where the joint is, move_left ticks before the end of its move.
Interpolate(r) ==
  IF r.move_left >= Distance(r.move_start, r.move_target) THEN r.move_start
  ELSE IF r.move_start <= r.move_target THEN r.move_target - r.move_left
  ELSE r.move_target + r.move_left

----------------------------------------------------------------------------
(* Time.                                                                   *)

Remaining(left, elapsed) == IF elapsed < left THEN left - elapsed ELSE 0

\* The deadline of a timed state has come.
Due(r, elapsed) ==
  /\ r.state \in {"activating", "deactivating", "homing"}
  /\ r.state_left <= elapsed

\* Mutant of Complete: a deactivation keeps the homing reference.
CompleteKeepingHomed(r) ==
  CASE r.state = "activating"   -> [r EXCEPT !.state = "activated"]
    [] r.state = "deactivating" -> [r EXCEPT !.state = "deactivated"]
    [] OTHER                    -> [r EXCEPT !.state = "idle", !.homed = TRUE,
                                             !.joints = HomePosition]

Complete(r) ==
  CASE r.state = "activating"   -> [r EXCEPT !.state = "activated"]
    [] r.state = "deactivating" -> [r EXCEPT !.state = "deactivated",
                                             !.homed = FALSE]
    [] r.state = "homing"       -> [r EXCEPT !.state = "idle",
                                             !.homed = TRUE,
                                             !.joints = HomePosition]
    [] OTHER                    -> r

\* Mutant of Integrate: the pause is not looked at.
IntegrateWhilePaused(r, elapsed) ==
  [r EXCEPT !.joints = Clamp(r.joints + r.joint_velocity * elapsed),
            !.state = IF r.joint_velocity # 0 THEN "moving" ELSE "idle"]

\* A held velocity command is integrated, whatever the state was.
Integrate(r, elapsed) ==
  IF r.paused THEN [r EXCEPT !.state = "idle"]
  ELSE [r EXCEPT !.joints = Clamp(r.joints + r.joint_velocity * elapsed),
                 !.state = IF r.joint_velocity # 0 THEN "moving" ELSE "idle"]

\* Mutant of Track: the end of the move is reached but not reported.
TrackForever(r) ==
  [r EXCEPT !.joints = IF r.move_left = 0 THEN r.move_target ELSE Interpolate(r)]

\* A queued move runs towards its target.
Track(r) ==
  IF r.move_left = 0
  THEN [r EXCEPT !.state = "idle", !.joints = r.move_target]
  ELSE [r EXCEPT !.joints = Interpolate(r)]

\* Mutant of Frozen: the end of a paused move is not pushed forward.
NeverFrozen(r) == FALSE

\* A paused move is frozen: both its bounds are pushed forward, unless the
\* visit is spent on a held velocity command.
Frozen(r) == r.state = "moving" /\ ~r.holding /\ r.paused

Advance(r, elapsed) ==
  LET t == [r EXCEPT !.state_left = Remaining(@, elapsed),
                     !.move_left = IF Frozen(r) THEN @
                                   ELSE Remaining(@, elapsed)]
  IN IF Due(r, elapsed) THEN Complete(t)
     ELSE IF r.holding THEN Integrate(t, elapsed)
     ELSE IF r.state = "moving" THEN Track(t)
     ELSE t

----------------------------------------------------------------------------
(* The handlers of one output image.                                       *)

\* Mutant of Reset: the error code stays.
ResetKeepingCode(r) == [r EXCEPT !.homed = FALSE, !.state = "deactivated"]

Reset(r) ==
  [r EXCEPT !.error_code = "NONE", !.homed = FALSE, !.state = "deactivated"]

\* The mode bits; simulation may only be toggled while the robot is off.
ApplyModes(r, control) ==
  [r EXCEPT !.recovery_mode = control.enable_recovery_mode,
            !.simulation_mode = IF r.state = "deactivated"
                                THEN control.enable_simulation ELSE @]

\* Mutant of ApplyPower: activation wins.
ActivateFirst(r, control) ==
  CASE control.activate /\ r.state = "deactivated" ->
         [r EXCEPT !.state = "activating", !.state_left = ActivationTime]
    [] control.deactivate /\ r.state \notin {"deactivated", "deactivating"} ->
         [r EXCEPT !.state = "deactivating", !.state_left = ActivationTime]
    [] control.home /\ ~r.homed /\ r.state = "activated" ->
         [r EXCEPT !.state = "homing", !.state_left = HomingTime]
    [] OTHER -> r

\* Mutant of ApplyPower: a repeated deactivation starts over.
RestartDeactivation(r, control) ==
  IF control.deactivate
  THEN IF r.state = "deactivated" THEN r
       ELSE [r EXCEPT !.state = "deactivating", !.state_left = ActivationTime]
  ELSE ActivateFirst(r, control)

\* Deactivation wins over activation, and activation over homing.
ApplyPower(r, control) ==
  CASE control.deactivate ->
         IF r.state \in {"deactivated", "deactivating"} THEN r
         ELSE [r EXCEPT !.state = "deactivating",
                        !.state_left = ActivationTime]
    [] ~control.deactivate /\ control.activate /\ r.state = "deactivated" ->
         [r EXCEPT !.state = "activating", !.state_left = ActivationTime]
    [] ~control.deactivate /\ control.home /\ ~r.homed /\ r.state = "activated" ->
         [r EXCEPT !.state = "homing", !.state_left = HomingTime]
    [] OTHER -> r

\* Mutant of ApplyRobotControl: no early return in error.
ControlInError(r, control) ==
  ApplyPower(ApplyModes(IF r.state = "error" /\ control.reset_error
                        THEN Reset(r) ELSE r, control), control)

ApplyRobotControl(r, control) ==
  IF r.state = "error"
  THEN IF control.reset_error THEN Reset(r) ELSE r
  ELSE ApplyPower(ApplyModes(r, control), control)

\* Mutant of ClearMove: the queue is emptied but not paused.
ClearWithoutPause(r) ==
  [Settle(ReleaseVelocity(r)) EXCEPT !.cleared = TRUE, !.offline_program_id = 0]

ClearMove(r) ==
  [Settle(ReleaseVelocity(r)) EXCEPT !.cleared = TRUE, !.paused = TRUE,
                                     !.offline_program_id = 0]

\* Mutant of ApplyMotionControl: the resume bit acts on its level.
ResumeOnLevel(r, control) ==
  LET s == IF control.clear_move THEN ClearMove(r)
           ELSE [r EXCEPT !.paused = @ \/ control.pause]
  IN [s EXCEPT !.paused = @ /\ ~control.resume_motion,
               !.cleared = @ /\ ~control.resume_motion]

\* ResumeMotion is the only bit that acts on a rising edge.
ApplyMotionControl(r, control) ==
  LET s == IF control.clear_move THEN ClearMove(r)
           ELSE [r EXCEPT !.paused = @ \/ control.pause]
      rising == control.resume_motion /\ ~r.previous_resume_motion
  IN [s EXCEPT !.paused = @ /\ ~rising,
               !.cleared = @ /\ ~rising,
               !.previous_resume_motion = control.resume_motion]

\* Mutant of ApplyVelocityCommand: another declared command drops no velocity.
KeepUnderOther(r, command) ==
  IF command.name = "none" THEN ReleaseVelocity(r)
  ELSE IF r.state = "error" THEN r
  ELSE IF command.name \in {"unknown", "variable"}
  THEN EnterError(r, "UNKNOWN_MOTION_COMMAND")
  ELSE IF command.name # "MoveJointsVel" THEN r
  ELSE IF r.state \notin {"idle", "moving"} THEN EnterError(r, "MOVE_WITHOUT_HOMING")
  ELSE [r EXCEPT !.holding = TRUE, !.joint_velocity = command.argument]

\* Move id 0: the command is held, not queued. One that has no name here, and
\* a velocity for a robot that may not move, end in an error and leave a
\* velocity that was held before.
ApplyVelocityCommand(r, command) ==
  CASE command.name = "none" -> ReleaseVelocity(r)
    [] command.name # "none" /\ r.state = "error" -> r
    [] command.name \in {"unknown", "variable"} /\ r.state # "error" ->
         EnterError(r, "UNKNOWN_MOTION_COMMAND")
    [] command.name = "MoveJointsVel" /\ r.state \in {"idle", "moving"} ->
         [r EXCEPT !.holding = TRUE, !.joint_velocity = command.argument]
    [] command.name = "MoveJointsVel" /\ r.state \notin {"idle", "moving", "error"} ->
         EnterError(r, "MOVE_WITHOUT_HOMING")
    [] OTHER ->  \* any other declared command, whether or not it is a velocity
         [r EXCEPT !.holding = FALSE, !.joint_velocity = 0]

\* The target of a positional move; the caller refuses one out of the limits.
ResolveTarget(r, command) ==
  IF command.name = "MoveJoints" THEN command.argument
  ELSE r.joints + command.argument

StartMotion(r, target, duration) ==
  [r EXCEPT !.state = "moving", !.cleared = FALSE, !.move_left = duration,
            !.move_start = r.joints, !.move_target = target]

\* Mutant of StartMove: the limits are not checked.
StartMoveUnchecked(r, command) ==
  LET target == ResolveTarget(r, command)
  IN StartMotion(r, target, Distance(r.joints, target))

StartMove(r, command) ==
  LET target == ResolveTarget(r, command)
  IN IF target \in Angle THEN StartMotion(r, target, Distance(r.joints, target))
     ELSE EnterError(r, "MOVE_OUT_OF_RANGE")

StartHold(r, command) ==
  StartMotion(r, r.joints, IF command.argument > 0 THEN command.argument ELSE 0)

\* What a robot that may move does with a command it knows.
Execute(r, command) ==
  IF command.name = "StartProgram"
  THEN [r EXCEPT !.offline_program_id = command.argument]
  ELSE IF command.name = "SetCheckpoint"
  THEN [r EXCEPT !.reached_checkpoint = command.argument % 65536]
  ELSE IF command.name = "Delay" THEN StartHold(r, command)
  ELSE IF command.name \in {"MoveJoints", "MoveJointsRel"}
  THEN StartMove(r, command)
  ELSE IF command.name = "MoveJointsVel" THEN EnterError(r, "MOVE_OUT_OF_RANGE")
  ELSE r

\* Mutant of Accept: nothing asks whether the robot may move.
AcceptUnhomed(r, move_id, command) ==
  LET a == [r EXCEPT !.received_move_id = move_id]
  IN IF command.name \in {"none", "unknown"}
     THEN EnterError(a, "UNKNOWN_MOTION_COMMAND") ELSE Execute(a, command)

\* A queued command whose move id the robot has not seen in the last image.
Accept(r, move_id, command) ==
  LET a == [r EXCEPT !.received_move_id = move_id]
  IN CASE command.name = "variable" -> a
       [] command.name \in {"none", "unknown"} ->
            EnterError(a, "UNKNOWN_MOTION_COMMAND")
       [] command.name \notin {"variable", "none", "unknown"}
            /\ r.state \notin {"idle", "moving"} ->
            EnterError(a, "MOVE_WITHOUT_HOMING")
       [] OTHER -> Execute(a, command)

\* Mutant of ApplyMotionCommand: a command refused in error stays new.
RememberAcceptedOnly(r, control, command) ==
  LET released == ReleaseVelocity(r)
  IN IF ~control.setpoint \/ control.move_id = 0
     THEN [released EXCEPT !.previous_move_id = control.move_id]
     ELSE IF control.move_id = r.previous_move_id \/ r.state = "error" THEN released
     ELSE Accept([released EXCEPT !.previous_move_id = control.move_id],
                 control.move_id, command)

\* Mutant of ApplyMotionCommand: withdrawing the setpoint stops no velocity.
SetpointKeepsVelocity(r, control, command) ==
  LET s == [r EXCEPT !.previous_move_id = control.move_id]
  IN IF ~control.setpoint THEN s
     ELSE IF control.move_id = 0 THEN ApplyVelocityCommand(s, command)
     ELSE IF control.move_id = r.previous_move_id \/ r.state = "error"
          THEN ReleaseVelocity(s)
     ELSE Accept(ReleaseVelocity(s), control.move_id, command)

\* previous_move_id follows the image in every case, a command refused in
\* error included.
ApplyMotionCommand(r, control, command) ==
  LET s == [r EXCEPT !.previous_move_id = control.move_id]
      released == ReleaseVelocity(s)
  IN IF ~control.setpoint THEN released
     ELSE IF control.move_id = 0 THEN ApplyVelocityCommand(s, command)
     ELSE IF control.move_id = r.previous_move_id \/ r.state = "error" THEN released
     ELSE Accept(released, control.move_id, command)

\* One output image, applied under the lock.
ApplyOutputAssembly(r, image, elapsed) ==
  ApplyMotionCommand(
    ApplyMotionControl(
      ApplyRobotControl(Advance(r, elapsed), image.robot),
      image.motion),
    image.motion, image.command)

----------------------------------------------------------------------------
(* What the robot publishes.                                               *)

Activated(r) == r.state \in {"activated", "homing", "idle", "moving"}

Status(r) ==
  [activated |-> Activated(r),
   busy |-> r.state \in {"activating", "deactivating", "homing"},
   homed |-> Activated(r) /\ r.homed,
   error |-> r.error_code # "NONE"]

MotionStatus(r) ==
  [paused |-> r.paused, cleared |-> r.cleared,
   end_of_block |-> r.state # "moving", move_id |-> r.received_move_id]

----------------------------------------------------------------------------
(* The robot on its own, visited by any scanner.                           *)

VARIABLES
  robot,  \* the simulated robot
  frame   \* the image applied last, for the properties

vars == <<robot, frame>>

Init == robot = InitialRobot /\ frame = ZeroImage

\* A frame of the scanner arrives; elapsed ticks went by since the last visit.
Apply ==
  /\ frame' \in Images
  /\ \E elapsed \in ElapsedTimes : robot' = ApplyOutputAssembly(robot, frame', elapsed)

\* The producing thread builds an input image, or a test calls update.
Build ==
  \E elapsed \in ElapsedTimes :
    /\ robot' = Advance(robot, elapsed)
    /\ UNCHANGED frame

\* A test injects an error. The ValueError it may get leaves the robot changed.
InjectError ==
  \E code \in InjectedCodes :
    /\ robot' = EnterError(robot, code)
    /\ UNCHANGED frame

Next == Apply \/ Build \/ InjectError

Spec == Init /\ [][Next]_vars

\* The clock runs and the input image keeps being built: the producing thread
\* does so every requested packet interval. This is the only fairness.
TimePasses ==
  \E elapsed \in ElapsedTimes \ {0} :
    /\ robot' = Advance(robot, elapsed)
    /\ UNCHANGED frame

FairSpec == Spec /\ WF_vars(TimePasses)

----------------------------------------------------------------------------
(* Properties.                                                             *)

\* Types and ranges; in particular the joint, the start and the target of a
\* move stay within the limits however moves, holds, velocities and resets of
\* the state machine are interleaved.
TypeOK ==
  /\ robot \in Robot
  /\ {robot.joints, robot.move_start, robot.move_target} \subseteq Angle
  /\ robot.reached_checkpoint \in Checkpoints
  /\ frame \in Image

\* No image holds a joint velocity, the one command whose effect outlives the
\* state it was accepted in.
QueuedOnly ==
  \A image \in Images :
    image.motion.setpoint /\ image.motion.move_id = 0
      => image.command.name # "MoveJointsVel"

\* The homing reference does not survive a power cycle: whatever path led to
\* an activation, the robot that comes out of it has to be homed again.
ReferenceLostWhenDown ==
  robot.homed => robot.state \in {"idle", "moving", "deactivating", "error"}

\* A robot that publishes activated, not busy and not activated-only is homed:
\* every way into idle or moving passes the homing sequence.
ReadyMeansHomed == robot.state \in {"idle", "moving"} => robot.homed

\* "Current error code, 0 when the robot is not in error" (docstring of
\* error_code): whatever led out of the error state has taken the code back, so
\* that a scanner refuses no robot that is well.
CodeOnlyInError == robot.error_code # "NONE" => robot.state = "error"

\* "A non-zero error code is what signals the error state" (docstring of
\* RobotStatus.error_status). It need not after the injection of a number that
\* is 0 or no error code.
ErrorStateSignalled == robot.state = "error" => robot.error_code # "NONE"

\* A new image never makes a robot go unsignalled into the error state, however
\* many of its handlers change the state on the way: whatever refuses a command
\* says why, and what takes a code back leaves the state.
ErrorsOfImagesSignalled ==
  [][frame' # frame /\ ErrorStateSignalled => ErrorStateSignalled']_vars

\* "Deactivation wins over activation": as long as the last image orders a
\* deactivation the robot is down, going down or in error, whatever else that
\* image asks for.
DeactivateWins ==
  frame.robot.deactivate =>
    robot.state \in {"deactivated", "deactivating", "error"}

\* "ERROR [...] leaving only through a reset" (docstring of SimulatorState).
ErrorLeftOnlyByReset ==
  [][robot.state = "error" /\ robot'.state # "error"
       => frame'.robot.reset_error]_vars

\* A scanner clears and pauses in one go: a cleared queue never runs on before
\* a resume, and a resume takes the cleared flag away with the pause.
ClearedMeansPaused ==
  robot.cleared => robot.paused

\* An image produced over and over starts its command at most once: a step
\* under an unchanged move id acknowledges nothing and starts, restarts or
\* prolongs no move, even when the command was refused before.
MoveOncePerId ==
  [][frame'.motion.move_id = frame.motion.move_id =>
       /\ robot'.received_move_id = robot.received_move_id
       /\ robot'.move_start = robot.move_start
       /\ robot'.move_target = robot.move_target
       /\ robot'.move_left <= robot.move_left]_vars

\* A new image asks for a pause, alone or as part of a clear.
AsksForPause(control) == control.pause \/ control.clear_move

\* A pause that is in force or asked for is not in force after this step.
PauseLifted ==
  /\ robot.paused \/ (frame' # frame /\ AsksForPause(frame'.motion))
  /\ ~robot'.paused

\* "ResumeMotion is the only bit that acts on a rising edge": a pause ends, and
\* the request for one is overruled, only in the first of a run of images that
\* carry the bit. A resume that stays latched undoes no later pause.
ResumeOnRisingEdge ==
  [][PauseLifted => /\ frame'.motion.resume_motion
                    /\ ~frame.motion.resume_motion]_vars

\* A paused robot does not move, whether a queued move, a hold or a velocity
\* is under way; the homing sequence ignores the pause.
PausedRobotHoldsStill ==
  [][robot.paused /\ robot.state # "homing"
       => robot'.joints = robot.joints]_vars

\* Releasing a velocity "hands the robot back" to no earlier target: between
\* two visits the joint travels no further than its speed allows.
NoJump ==
  [][\/ robot.state = "homing"
     \/ \E elapsed \in ElapsedTimes :
          Distance(robot.joints, robot'.joints)
            <= elapsed * (IF robot.holding
                          THEN Distance(0, robot.joint_velocity) ELSE 1)]_vars

\* The image asks for this joint velocity.
AsksForVelocity(image, velocity) ==
  /\ image.motion.setpoint
  /\ image.motion.move_id = 0
  /\ image.command = [name |-> "MoveJointsVel", argument |-> velocity]

\* Everything that ends a velocity does: no setpoint (a new scanner's zeros), a
\* move id, no command, another declared command, the last also for a robot in
\* error, since the visit before the command takes it out of that state. Of all
\* images that ask for no joint velocity, only a command without a name keeps one.
VelocityOnlyWhileHeld ==
  robot.holding =>
    /\ frame.motion.setpoint
    /\ frame.motion.move_id = 0
    /\ frame.command.name \in {"MoveJointsVel", "unknown", "variable"}

\* A new image that does not ask for the velocity held either ends it, or is
\* refused as an error: the scanner whose robot keeps moving against its will
\* is told so.
VelocityKeptOnlyByRefusal ==
  [][frame' # frame /\ robot'.holding
       => \/ AsksForVelocity(frame', robot'.joint_velocity)
          \/ robot'.state = "error"]_vars

\* Activation, deactivation and homing end, whatever the scanner repeats
\* meanwhile: a repeated request does not restart their clock.
TimedStatesEnd ==
  \A s \in {"activating", "deactivating", "homing"} :
    (robot.state = s) ~> (robot.state # s)

\* Once the scanner stays on one image, the robot reports the end of the block
\* again and again, unless that image leaves it paused.
BlockEnds ==
  (\E image \in Images : <>[](frame = image))
    => []<>(MotionStatus(robot).end_of_block \/ MotionStatus(robot).paused)

=============================================================================
