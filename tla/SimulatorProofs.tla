-------------------------- MODULE SimulatorProofs --------------------------
(***************************************************************************)
(* Theorems about the state machine of the mock robot, for every set of    *)
(* images a scanner may produce, every timing and every limits.            *)
(*                                                                         *)
(* The handlers are operators from robots to robots, so the proofs go      *)
(* handler by handler: what each one returns is a robot (section 1), what  *)
(* it keeps of the invariant (section 2), and what it leaves alone         *)
(* (section 3); an action is a composition of them. Section 4 follows the  *)
(* joint: a handler leaves it in its place, and where it was on its way.   *)
(* Section 5 is about a robot that no velocity is held for, section 6      *)
(* about how long one is held, and section 7 about the error state and the *)
(* code that signals it, both again for every image.                       *)
(***************************************************************************)
EXTENDS Simulator, TLAPS

----------------------------------------------------------------------------
(* 1. Every handler returns a robot.                                       *)

LEMMA Numbers == 0 \in Int /\ 0 \in Nat
OBVIOUS

LEMMA ConstantTypes ==
  /\ HomePosition \in Int
  /\ ActivationTime \in Nat
  /\ HomingTime \in Nat
  /\ \A elapsed \in ElapsedTimes : elapsed \in Nat
  /\ \A image \in Images : image \in Image
BY SimulatorAssumption DEF Angle

LEMMA ImageParts ==
  ASSUME NEW image \in Image
  PROVE  /\ image.robot \in RobotControl
         /\ image.motion \in MotionControl
         /\ image.command \in MotionCommand
BY Zenon DEF Image

LEMMA SettleTyped ==
  ASSUME NEW r \in Robot PROVE Settle(r) \in Robot
BY Zenon DEF Settle, Robot, States

LEMMA EnterErrorTyped ==
  ASSUME NEW r \in Robot, NEW code
  PROVE  EnterError(r, code) \in Robot
BY Zenon DEF EnterError, Robot, States

LEMMA DropTyped ==
  ASSUME NEW r \in Robot
  PROVE  [r EXCEPT !.holding = FALSE, !.joint_velocity = 0] \in Robot
BY Zenon, Numbers DEF Robot

LEMMA ReleaseVelocityTyped ==
  ASSUME NEW r \in Robot PROVE ReleaseVelocity(r) \in Robot
<1> DEFINE d == [r EXCEPT !.holding = FALSE, !.joint_velocity = 0]
<1>1. d \in Robot
  BY DropTyped
<1>2. ReleaseVelocity(r) = IF r.holding THEN Settle(d) ELSE r
  BY Zenon DEF ReleaseVelocity
<1> HIDE DEF d
<1>3. Settle(d) \in Robot
  BY <1>1, SettleTyped
<1>4. QED
  BY <1>2, <1>3, Zenon

LEMMA RemainingTyped ==
  ASSUME NEW left \in Nat, NEW elapsed \in Nat
  PROVE  /\ Remaining(left, elapsed) \in Nat
         /\ Remaining(left, elapsed) <= left
BY DEF Remaining

LEMMA CompleteTyped ==
  ASSUME NEW r \in Robot PROVE Complete(r) \in Robot
BY Zenon, ConstantTypes DEF Complete, Robot, States

LEMMA ClampTyped ==
  ASSUME NEW angle \in Int
  PROVE  Clamp(angle) \in Angle
BY SimulatorAssumption DEF Clamp, Angle

LEMMA AngleTyped ==
  \A angle \in Angle : angle \in Int
BY SimulatorAssumption DEF Angle

LEMMA IntegrateTyped ==
  ASSUME NEW r \in Robot, NEW elapsed \in Nat
  PROVE  Integrate(r, elapsed) \in Robot
<1> DEFINE j == Clamp(r.joints + r.joint_velocity * elapsed)
<1> DEFINE s == IF r.joint_velocity # 0 THEN "moving" ELSE "idle"
<1>1. r.joints \in Int /\ r.joint_velocity \in Int
  BY Zenon DEF Robot
<1>2. r.joints + r.joint_velocity * elapsed \in Int
  BY <1>1
<1>3. j \in Int
  BY <1>2, ClampTyped, AngleTyped
<1>4. s \in States
  BY Zenon DEF States
<1>5. Integrate(r, elapsed) = IF r.paused THEN [r EXCEPT !.state = "idle"]
                              ELSE [r EXCEPT !.joints = j, !.state = s]
  BY Zenon DEF Integrate
<1> HIDE DEF j, s
<1>6. [r EXCEPT !.joints = j, !.state = s] \in Robot
  BY <1>3, <1>4, Zenon DEF Robot
<1>7. [r EXCEPT !.state = "idle"] \in Robot
  BY Zenon DEF Robot, States
<1>8. QED
  BY <1>5, <1>6, <1>7, Zenon

LEMMA InterpolateTyped ==
  ASSUME NEW r \in Robot PROVE Interpolate(r) \in Int
<1>1. r.move_start \in Int /\ r.move_target \in Int /\ r.move_left \in Nat
  BY Zenon DEF Robot
<1>2. QED
  BY <1>1 DEF Interpolate

LEMMA TrackTyped ==
  ASSUME NEW r \in Robot PROVE Track(r) \in Robot
BY Zenon, InterpolateTyped DEF Track, Robot, States

LEMMA AdvanceTyped ==
  ASSUME NEW r \in Robot, NEW elapsed \in Nat
  PROVE  Advance(r, elapsed) \in Robot
<1> DEFINE s == Remaining(r.state_left, elapsed)
<1> DEFINE m == IF Frozen(r) THEN r.move_left ELSE Remaining(r.move_left, elapsed)
<1> DEFINE t == [r EXCEPT !.state_left = s, !.move_left = m]
<1>1. r.state_left \in Nat /\ r.move_left \in Nat
  BY Zenon DEF Robot
<1>2. s \in Nat /\ m \in Nat
  BY <1>1, RemainingTyped, Zenon
<1>3. Advance(r, elapsed) = IF Due(r, elapsed) THEN Complete(t)
                            ELSE IF r.holding THEN Integrate(t, elapsed)
                            ELSE IF r.state = "moving" THEN Track(t)
                            ELSE t
  BY Zenon DEF Advance
<1> HIDE DEF s, m
<1>4. t \in Robot
  BY <1>2, Zenon DEF Robot
<1> HIDE DEF t
<1>5. Complete(t) \in Robot /\ Integrate(t, elapsed) \in Robot /\ Track(t) \in Robot
  BY <1>4, CompleteTyped, IntegrateTyped, TrackTyped
<1>6. QED
  BY <1>3, <1>4, <1>5, Zenon

LEMMA ApplyRobotControlTyped ==
  ASSUME NEW r \in Robot, NEW control \in RobotControl
  PROVE  ApplyRobotControl(r, control) \in Robot
<1> DEFINE m == ApplyModes(r, control)
<1>1. m \in Robot
  BY Zenon DEF ApplyModes, Robot, RobotControl
<1>2. Reset(r) \in Robot
  BY Zenon DEF Reset, Robot, States, ErrorCodes
<1>3. ApplyRobotControl(r, control) =
        IF r.state = "error" THEN IF control.reset_error THEN Reset(r) ELSE r
        ELSE ApplyPower(m, control)
  BY Zenon DEF ApplyRobotControl
<1> HIDE DEF m
<1>4. ApplyPower(m, control) \in Robot
  BY <1>1, ConstantTypes, Zenon DEF ApplyPower, Robot, States
<1>5. QED
  BY <1>1, <1>2, <1>3, <1>4, Zenon

LEMMA ClearMoveTyped ==
  ASSUME NEW r \in Robot PROVE ClearMove(r) \in Robot
<1> DEFINE s == Settle(ReleaseVelocity(r))
<1>1. s \in Robot
  BY ReleaseVelocityTyped, SettleTyped
<1>2. ClearMove(r) = [s EXCEPT !.cleared = TRUE, !.paused = TRUE,
                               !.offline_program_id = 0]
  BY Zenon DEF ClearMove
<1> HIDE DEF s
<1>3. QED
  BY <1>1, <1>2, Numbers, Zenon DEF Robot

LEMMA ApplyMotionControlTyped ==
  ASSUME NEW r \in Robot, NEW control \in MotionControl
  PROVE  ApplyMotionControl(r, control) \in Robot
<1> DEFINE s == IF control.clear_move THEN ClearMove(r)
                ELSE [r EXCEPT !.paused = @ \/ control.pause]
<1> DEFINE rising == control.resume_motion /\ ~r.previous_resume_motion
<1>1. [r EXCEPT !.paused = @ \/ control.pause] \in Robot
  BY Zenon DEF Robot, MotionControl
<1>2. s \in Robot
  BY <1>1, ClearMoveTyped, Zenon
<1>3. rising \in BOOLEAN /\ control.resume_motion \in BOOLEAN
  BY Zenon DEF MotionControl
<1>4. ApplyMotionControl(r, control) =
        [s EXCEPT !.paused = @ /\ ~rising, !.cleared = @ /\ ~rising,
                  !.previous_resume_motion = control.resume_motion]
  BY Zenon DEF ApplyMotionControl
<1> HIDE DEF s, rising
<1> DEFINE p == s.paused /\ ~rising
<1> DEFINE c == s.cleared /\ ~rising
<1>5. p \in BOOLEAN /\ c \in BOOLEAN
  BY Zenon
<1>6. ApplyMotionControl(r, control) =
        [s EXCEPT !.paused = p, !.cleared = c,
                  !.previous_resume_motion = control.resume_motion]
  BY <1>4, Zenon
<1> HIDE DEF p, c
<1>7. QED
  BY <1>2, <1>3, <1>5, <1>6, ZenonT(60) DEF Robot

LEMMA ApplyVelocityCommandTyped ==
  ASSUME NEW r \in Robot, NEW command \in MotionCommand
  PROVE  ApplyVelocityCommand(r, command) \in Robot
<1>1. ReleaseVelocity(r) \in Robot
  BY ReleaseVelocityTyped
<1>2. /\ EnterError(r, "UNKNOWN_MOTION_COMMAND") \in Robot
      /\ EnterError(r, "MOVE_WITHOUT_HOMING") \in Robot
  BY EnterErrorTyped
<1>3. [r EXCEPT !.holding = FALSE, !.joint_velocity = 0] \in Robot
  BY DropTyped
<1>4. [r EXCEPT !.holding = TRUE, !.joint_velocity = command.argument] \in Robot
  BY Zenon DEF Robot, MotionCommand
<1>5. QED
  BY <1>1, <1>2, <1>3, <1>4, Zenon DEF ApplyVelocityCommand

LEMMA StartMotionTyped ==
  ASSUME NEW r \in Robot, NEW target \in Int, NEW duration \in Nat
  PROVE  StartMotion(r, target, duration) \in Robot
BY Zenon DEF StartMotion, Robot, States

LEMMA StartMoveTyped ==
  ASSUME NEW r \in Robot, NEW command \in MotionCommand
  PROVE  StartMove(r, command) \in Robot
<1> DEFINE target == ResolveTarget(r, command)
<1>1. r.joints \in Int /\ command.argument \in Int
  BY Zenon DEF Robot, MotionCommand
<1>2. target \in Int
  BY <1>1 DEF ResolveTarget
<1>3. StartMove(r, command) =
        IF target \in Angle
        THEN StartMotion(r, target, Distance(r.joints, target))
        ELSE EnterError(r, "MOVE_OUT_OF_RANGE")
  BY Zenon DEF StartMove
<1> HIDE DEF target
<1>4. Distance(r.joints, target) \in Nat
  BY <1>1, <1>2 DEF Distance
<1>5. StartMotion(r, target, Distance(r.joints, target)) \in Robot
  BY <1>2, <1>4, StartMotionTyped
<1>6. EnterError(r, "MOVE_OUT_OF_RANGE") \in Robot
  BY EnterErrorTyped
<1>7. QED
  BY <1>3, <1>5, <1>6, Zenon

LEMMA StartHoldTyped ==
  ASSUME NEW r \in Robot, NEW command \in MotionCommand
  PROVE  StartHold(r, command) \in Robot
<1> DEFINE d == IF command.argument > 0 THEN command.argument ELSE 0
<1>1. r.joints \in Int /\ command.argument \in Int
  BY Zenon DEF Robot, MotionCommand
<1>2. d \in Nat
  BY <1>1
<1>3. StartHold(r, command) = StartMotion(r, r.joints, d)
  BY Zenon DEF StartHold
<1> HIDE DEF d
<1>4. QED
  BY <1>1, <1>2, <1>3, StartMotionTyped

\* The outcomes of Execute, for the steps that need no more than their list.
LEMMA ExecuteOutcomes ==
  ASSUME NEW r, NEW command
  PROVE  \/ Execute(r, command) = [r EXCEPT !.offline_program_id = command.argument]
         \/ Execute(r, command)
              = [r EXCEPT !.reached_checkpoint = command.argument % 65536]
         \/ Execute(r, command) = StartHold(r, command)
         \/ Execute(r, command) = StartMove(r, command)
         \/ Execute(r, command) = EnterError(r, "MOVE_OUT_OF_RANGE")
         \/ Execute(r, command) = r
BY DEF Execute

LEMMA ExecuteTyped ==
  ASSUME NEW r \in Robot, NEW command \in MotionCommand
  PROVE  Execute(r, command) \in Robot
<1> DEFINE c == command.argument % 65536
<1>1. command.argument \in Int
  BY Zenon DEF MotionCommand
<1>2. c \in Int
  BY <1>1
<1>3. \/ Execute(r, command) = [r EXCEPT !.offline_program_id = command.argument]
      \/ Execute(r, command) = [r EXCEPT !.reached_checkpoint = c]
      \/ Execute(r, command) = StartHold(r, command)
      \/ Execute(r, command) = StartMove(r, command)
      \/ Execute(r, command) = EnterError(r, "MOVE_OUT_OF_RANGE")
      \/ Execute(r, command) = r
  BY ExecuteOutcomes
<1> HIDE DEF c
<1>4. [r EXCEPT !.offline_program_id = command.argument] \in Robot
  BY <1>1, Zenon DEF Robot
<1>5. [r EXCEPT !.reached_checkpoint = c] \in Robot
  BY <1>2, Zenon DEF Robot
<1>6. StartHold(r, command) \in Robot /\ StartMove(r, command) \in Robot
  BY StartHoldTyped, StartMoveTyped
<1>7. EnterError(r, "MOVE_OUT_OF_RANGE") \in Robot
  BY EnterErrorTyped
<1>8. QED
  BY <1>3, <1>4, <1>5, <1>6, <1>7, Zenon

LEMMA AcceptTyped ==
  ASSUME NEW r \in Robot, NEW move_id \in Nat, NEW command \in MotionCommand
  PROVE  Accept(r, move_id, command) \in Robot
<1> DEFINE a == [r EXCEPT !.received_move_id = move_id]
<1>1. a \in Robot
  BY Zenon DEF Robot
<1>2. Accept(r, move_id, command) \in
        {a, EnterError(a, "UNKNOWN_MOTION_COMMAND"),
         EnterError(a, "MOVE_WITHOUT_HOMING"), Execute(a, command)}
  BY Zenon DEF Accept
<1> HIDE DEF a
<1>3. /\ EnterError(a, "UNKNOWN_MOTION_COMMAND") \in Robot
      /\ EnterError(a, "MOVE_WITHOUT_HOMING") \in Robot
  BY <1>1, EnterErrorTyped
<1>4. Execute(a, command) \in Robot
  BY <1>1, ExecuteTyped
<1>5. QED
  BY <1>1, <1>2, <1>3, <1>4, Zenon

LEMMA ApplyMotionCommandTyped ==
  ASSUME NEW r \in Robot, NEW control \in MotionControl,
         NEW command \in MotionCommand
  PROVE  ApplyMotionCommand(r, control, command) \in Robot
<1> DEFINE s == [r EXCEPT !.previous_move_id = control.move_id]
<1>1. control.move_id \in Nat
  BY Zenon DEF MotionControl
<1>2. s \in Robot
  BY <1>1, ZenonT(60) DEF Robot
<1>3. ApplyMotionCommand(r, control, command) \in
        {ReleaseVelocity(s), ApplyVelocityCommand(s, command),
         Accept(ReleaseVelocity(s), control.move_id, command)}
  BY Zenon DEF ApplyMotionCommand
<1> HIDE DEF s
<1>4. ReleaseVelocity(s) \in Robot
  BY <1>2, ReleaseVelocityTyped
<1>5. ApplyVelocityCommand(s, command) \in Robot
  BY <1>2, ApplyVelocityCommandTyped
<1>6. Accept(ReleaseVelocity(s), control.move_id, command) \in Robot
  BY <1>1, <1>4, AcceptTyped
<1>7. QED
  BY <1>3, <1>4, <1>5, <1>6, Zenon

----------------------------------------------------------------------------
(* 2. Every handler keeps what a robot must be, whatever the images hold.  *)

\* A robot within its limits.
InLimits(r) ==
  /\ r.joints \in Angle
  /\ r.move_start \in Angle
  /\ r.move_target \in Angle
  /\ r.reached_checkpoint \in Checkpoints

\* The two safety invariants that need no assumption on the images.
Safe(r) ==
  /\ r.homed => r.state \in {"idle", "moving", "deactivating", "error"}
  /\ r.cleared => r.paused

LEMMA MaskTyped ==
  ASSUME NEW value \in Int
  PROVE  value % 65536 \in Checkpoints
BY SMTT(30) DEF Checkpoints

LEMMA SettleSafe ==
  ASSUME NEW r \in Robot, InLimits(r), Safe(r)
  PROVE  InLimits(Settle(r)) /\ Safe(Settle(r))
BY Zenon DEF InLimits, Safe, Settle, Robot

LEMMA EnterErrorSafe ==
  ASSUME NEW r \in Robot, InLimits(r), Safe(r), NEW code
  PROVE  InLimits(EnterError(r, code)) /\ Safe(EnterError(r, code))
BY Zenon DEF InLimits, Safe, EnterError, Robot

LEMMA DropSafe ==
  ASSUME NEW r \in Robot, InLimits(r), Safe(r), NEW b, NEW v
  PROVE  /\ InLimits([r EXCEPT !.holding = b, !.joint_velocity = v])
         /\ Safe([r EXCEPT !.holding = b, !.joint_velocity = v])
BY Zenon DEF InLimits, Safe, Robot

LEMMA ReleaseVelocitySafe ==
  ASSUME NEW r \in Robot, InLimits(r), Safe(r)
  PROVE  InLimits(ReleaseVelocity(r)) /\ Safe(ReleaseVelocity(r))
<1> DEFINE d == [r EXCEPT !.holding = FALSE, !.joint_velocity = 0]
<1>1. d \in Robot /\ InLimits(d) /\ Safe(d)
  BY DropTyped, DropSafe
<1>2. ReleaseVelocity(r) = IF r.holding THEN Settle(d) ELSE r
  BY Zenon DEF ReleaseVelocity
<1> HIDE DEF d
<1>3. InLimits(Settle(d)) /\ Safe(Settle(d))
  BY <1>1, SettleSafe
<1>4. QED
  BY <1>2, <1>3, Zenon

LEMMA InterpolateInLimits ==
  ASSUME NEW r \in Robot, InLimits(r)
  PROVE  Interpolate(r) \in Angle
<1>1. /\ r.move_start \in Angle
      /\ r.move_target \in Angle
      /\ r.move_left \in Nat
  BY Zenon DEF Robot, InLimits
<1> DEFINE a == r.move_start
<1> DEFINE b == r.move_target
<1> DEFINE n == r.move_left
<1>2. Interpolate(r) = IF n >= Distance(a, b) THEN a
                       ELSE IF a <= b THEN b - n ELSE b + n
  BY Zenon DEF Interpolate
<1> HIDE DEF a, b, n
<1>3. a \in Angle /\ b \in Angle /\ n \in Nat
  BY <1>1 DEF a, b, n
<1>4. QED
  BY <1>2, <1>3, SimulatorAssumption DEF Distance, Angle

LEMMA CompleteSafe ==
  ASSUME NEW r \in Robot, InLimits(r), Safe(r)
  PROVE  InLimits(Complete(r)) /\ Safe(Complete(r))
<1>1. HomePosition \in Angle
  BY SimulatorAssumption
<1>2. InLimits(Complete(r))
  BY <1>1, Zenon DEF InLimits, Complete, Robot
<1>3. Safe(Complete(r))
  BY Zenon DEF Safe, Complete, Robot
<1>4. QED
  BY <1>2, <1>3

LEMMA IntegrateSafe ==
  ASSUME NEW r \in Robot, InLimits(r), Safe(r), NEW elapsed \in Nat,
         r.state = "deactivated" => ~r.homed
  PROVE  InLimits(Integrate(r, elapsed)) /\ Safe(Integrate(r, elapsed))
<1> DEFINE j == Clamp(r.joints + r.joint_velocity * elapsed)
<1>1. r.joints \in Int /\ r.joint_velocity \in Int
  BY Zenon DEF Robot
<1>2. r.joints + r.joint_velocity * elapsed \in Int
  BY <1>1
<1>3. j \in Angle
  BY <1>2, ClampTyped
<1>4. Integrate(r, elapsed) =
        IF r.paused THEN [r EXCEPT !.state = "idle"]
        ELSE [r EXCEPT !.joints = j,
                       !.state = IF r.joint_velocity # 0 THEN "moving" ELSE "idle"]
  BY Zenon DEF Integrate
<1> HIDE DEF j
<1>5. CASE r.paused
  BY <1>4, <1>5, Zenon DEF InLimits, Safe, Robot
<1>6. CASE ~r.paused
  <2> DEFINE s == IF r.joint_velocity # 0 THEN "moving" ELSE "idle"
  <2>1. s \in {"idle", "moving"}
    BY Zenon
  <2>2. Integrate(r, elapsed) = [r EXCEPT !.joints = j, !.state = s]
    BY <1>4, <1>6, Zenon
  <2> HIDE DEF s
  <2>3. QED
    BY <1>3, <1>6, <2>1, <2>2, Zenon DEF InLimits, Safe, Robot
<1>7. QED
  BY <1>5, <1>6

LEMMA TrackSafe ==
  ASSUME NEW r \in Robot, InLimits(r), Safe(r), r.state = "moving"
  PROVE  InLimits(Track(r)) /\ Safe(Track(r))
<1>1. Interpolate(r) \in Angle
  BY InterpolateInLimits
<1>2. QED
  BY <1>1, Zenon DEF InLimits, Safe, Track, Robot

LEMMA AdvanceSafe ==
  ASSUME NEW r \in Robot, InLimits(r), Safe(r), NEW elapsed \in Nat
  PROVE  InLimits(Advance(r, elapsed)) /\ Safe(Advance(r, elapsed))
<1> DEFINE s == Remaining(r.state_left, elapsed)
<1> DEFINE m == IF Frozen(r) THEN r.move_left ELSE Remaining(r.move_left, elapsed)
<1> DEFINE t == [r EXCEPT !.state_left = s, !.move_left = m]
<1>1. r.state_left \in Nat /\ r.move_left \in Nat
  BY Zenon DEF Robot
<1>2. s \in Nat /\ m \in Nat
  BY <1>1, RemainingTyped, Zenon
<1>3. Advance(r, elapsed) = IF Due(r, elapsed) THEN Complete(t)
                            ELSE IF r.holding THEN Integrate(t, elapsed)
                            ELSE IF r.state = "moving" THEN Track(t)
                            ELSE t
  BY Zenon DEF Advance
<1> HIDE DEF s, m
<1>4. t \in Robot
  BY <1>2, Zenon DEF Robot
<1>5. InLimits(t) /\ Safe(t) /\ t.state = r.state
  BY Zenon DEF InLimits, Safe, Robot
<1>6. t.state = "deactivated" => ~t.homed
  BY Zenon DEF Safe, Robot
<1> HIDE DEF t
<1>7. InLimits(Complete(t)) /\ Safe(Complete(t))
  BY <1>4, <1>5, CompleteSafe
<1>8. InLimits(Integrate(t, elapsed)) /\ Safe(Integrate(t, elapsed))
  BY <1>4, <1>5, <1>6, IntegrateSafe
<1>9. r.state = "moving" => InLimits(Track(t)) /\ Safe(Track(t))
  BY <1>4, <1>5, TrackSafe
<1>10. QED
  BY <1>3, <1>5, <1>7, <1>8, <1>9, Zenon

LEMMA ApplyModesSafe ==
  ASSUME NEW r \in Robot, InLimits(r), Safe(r), NEW control
  PROVE  InLimits(ApplyModes(r, control)) /\ Safe(ApplyModes(r, control))
BY Zenon DEF InLimits, Safe, ApplyModes, Robot

LEMMA ApplyPowerSafe ==
  ASSUME NEW r \in Robot, InLimits(r), Safe(r), NEW control
  PROVE  InLimits(ApplyPower(r, control)) /\ Safe(ApplyPower(r, control))
<1>1. InLimits(ApplyPower(r, control))
  BY Zenon DEF InLimits, ApplyPower, Robot
<1>2. Safe(ApplyPower(r, control))
  BY Zenon DEF Safe, ApplyPower, Robot
<1>3. QED
  BY <1>1, <1>2

LEMMA ApplyRobotControlSafe ==
  ASSUME NEW r \in Robot, InLimits(r), Safe(r), NEW control \in RobotControl
  PROVE  /\ InLimits(ApplyRobotControl(r, control))
         /\ Safe(ApplyRobotControl(r, control))
<1> DEFINE m == ApplyModes(r, control)
<1>1. m \in Robot
  BY Zenon DEF ApplyModes, Robot, RobotControl
<1>2. InLimits(m) /\ Safe(m)
  BY ApplyModesSafe
<1>3. InLimits(Reset(r)) /\ Safe(Reset(r))
  BY Zenon DEF InLimits, Safe, Reset, Robot
<1>4. ApplyRobotControl(r, control) =
        IF r.state = "error" THEN IF control.reset_error THEN Reset(r) ELSE r
        ELSE ApplyPower(m, control)
  BY Zenon DEF ApplyRobotControl
<1> HIDE DEF m
<1>5. InLimits(ApplyPower(m, control)) /\ Safe(ApplyPower(m, control))
  BY <1>1, <1>2, ApplyPowerSafe
<1>6. QED
  BY <1>3, <1>4, <1>5, Zenon

LEMMA ClearMoveSafe ==
  ASSUME NEW r \in Robot, InLimits(r), Safe(r)
  PROVE  InLimits(ClearMove(r)) /\ Safe(ClearMove(r))
<1> DEFINE s == Settle(ReleaseVelocity(r))
<1>1. s \in Robot /\ InLimits(s) /\ Safe(s)
  BY ReleaseVelocityTyped, ReleaseVelocitySafe, SettleTyped, SettleSafe
<1>2. ClearMove(r) = [s EXCEPT !.cleared = TRUE, !.paused = TRUE,
                               !.offline_program_id = 0]
  BY Zenon DEF ClearMove
<1> HIDE DEF s
<1>3. QED
  BY <1>1, <1>2, Zenon DEF InLimits, Safe, Robot

LEMMA ApplyMotionControlSafe ==
  ASSUME NEW r \in Robot, InLimits(r), Safe(r), NEW control \in MotionControl
  PROVE  /\ InLimits(ApplyMotionControl(r, control))
         /\ Safe(ApplyMotionControl(r, control))
<1> DEFINE q == [r EXCEPT !.paused = @ \/ control.pause]
<1> DEFINE s == IF control.clear_move THEN ClearMove(r) ELSE q
<1> DEFINE rising == control.resume_motion /\ ~r.previous_resume_motion
<1>1. q \in Robot /\ InLimits(q) /\ Safe(q)
  BY Zenon DEF InLimits, Safe, Robot, MotionControl
<1>2. s \in Robot /\ InLimits(s) /\ Safe(s)
  BY <1>1, ClearMoveTyped, ClearMoveSafe, Zenon
<1> DEFINE p == s.paused /\ ~rising
<1> DEFINE c == s.cleared /\ ~rising
<1>3. ApplyMotionControl(r, control) =
        [s EXCEPT !.paused = p, !.cleared = c,
                  !.previous_resume_motion = control.resume_motion]
  BY Zenon DEF ApplyMotionControl
<1>4. c => p
  BY <1>2, Zenon DEF Safe
<1> HIDE DEF s, p, c
<1>5. QED
  BY <1>2, <1>3, <1>4, Zenon DEF InLimits, Safe, Robot

LEMMA ApplyVelocityCommandSafe ==
  ASSUME NEW r \in Robot, InLimits(r), Safe(r), NEW command
  PROVE  /\ InLimits(ApplyVelocityCommand(r, command))
         /\ Safe(ApplyVelocityCommand(r, command))
<1> DEFINE drop == [r EXCEPT !.holding = FALSE, !.joint_velocity = 0]
<1> DEFINE hold == [r EXCEPT !.holding = TRUE, !.joint_velocity = command.argument]
<1>1. \/ ApplyVelocityCommand(r, command) = ReleaseVelocity(r)
      \/ ApplyVelocityCommand(r, command) = r
      \/ ApplyVelocityCommand(r, command) = EnterError(r, "UNKNOWN_MOTION_COMMAND")
      \/ ApplyVelocityCommand(r, command) = hold
      \/ ApplyVelocityCommand(r, command) = EnterError(r, "MOVE_WITHOUT_HOMING")
      \/ ApplyVelocityCommand(r, command) = drop
  BY Zenon DEF ApplyVelocityCommand
<1>2. InLimits(drop) /\ Safe(drop) /\ InLimits(hold) /\ Safe(hold)
  BY DropSafe
<1> HIDE DEF drop, hold
<1>3. QED
  BY <1>1, <1>2, ReleaseVelocitySafe, EnterErrorSafe, Zenon

LEMMA StartMoveSafe ==
  ASSUME NEW r \in Robot, InLimits(r), Safe(r), NEW command
  PROVE  InLimits(StartMove(r, command)) /\ Safe(StartMove(r, command))
<1> DEFINE target == ResolveTarget(r, command)
<1> DEFINE start == StartMotion(r, target, Distance(r.joints, target))
<1>1. StartMove(r, command) = IF target \in Angle THEN start
                              ELSE EnterError(r, "MOVE_OUT_OF_RANGE")
  BY Zenon DEF StartMove
<1>2. target \in Angle => InLimits(start) /\ Safe(start)
  BY Zenon DEF InLimits, Safe, StartMotion, Robot
<1>3. InLimits(EnterError(r, "MOVE_OUT_OF_RANGE"))
      /\ Safe(EnterError(r, "MOVE_OUT_OF_RANGE"))
  BY EnterErrorSafe
<1> HIDE DEF target, start
<1>4. QED
  BY <1>1, <1>2, <1>3, Zenon

LEMMA StartHoldSafe ==
  ASSUME NEW r \in Robot, InLimits(r), Safe(r), NEW command
  PROVE  InLimits(StartHold(r, command)) /\ Safe(StartHold(r, command))
<1> DEFINE d == IF command.argument > 0 THEN command.argument ELSE 0
<1>1. StartHold(r, command) = StartMotion(r, r.joints, d)
  BY Zenon DEF StartHold
<1> HIDE DEF d
<1>2. QED
  BY <1>1, Zenon DEF InLimits, Safe, StartMotion, Robot

LEMMA ExecuteSafe ==
  ASSUME NEW r \in Robot, InLimits(r), Safe(r), NEW command \in MotionCommand
  PROVE  InLimits(Execute(r, command)) /\ Safe(Execute(r, command))
<1> DEFINE c == command.argument % 65536
<1>1. command.argument \in Int
  BY Zenon DEF MotionCommand
<1>2. c \in Checkpoints
  BY <1>1, MaskTyped
<1>3. \/ Execute(r, command) = [r EXCEPT !.offline_program_id = command.argument]
      \/ Execute(r, command) = [r EXCEPT !.reached_checkpoint = c]
      \/ Execute(r, command) = StartHold(r, command)
      \/ Execute(r, command) = StartMove(r, command)
      \/ Execute(r, command) = EnterError(r, "MOVE_OUT_OF_RANGE")
      \/ Execute(r, command) = r
  BY ExecuteOutcomes
<1> HIDE DEF c
<1> DEFINE program == [r EXCEPT !.offline_program_id = command.argument]
<1> DEFINE checkpoint == [r EXCEPT !.reached_checkpoint = c]
<1>4. InLimits(program) /\ Safe(program)
  BY Zenon DEF InLimits, Safe, Robot
<1>5. InLimits(checkpoint) /\ Safe(checkpoint)
  BY <1>2, Zenon DEF InLimits, Safe, Robot
<1>6. InLimits(StartHold(r, command)) /\ Safe(StartHold(r, command))
  BY StartHoldSafe
<1>7. InLimits(StartMove(r, command)) /\ Safe(StartMove(r, command))
  BY StartMoveSafe
<1>8. InLimits(EnterError(r, "MOVE_OUT_OF_RANGE"))
      /\ Safe(EnterError(r, "MOVE_OUT_OF_RANGE"))
  BY EnterErrorSafe
<1>9. QED
  BY <1>3, <1>4, <1>5, <1>6, <1>7, <1>8, Zenon

LEMMA AcceptSafe ==
  ASSUME NEW r \in Robot, InLimits(r), Safe(r), NEW move_id \in Nat,
         NEW command \in MotionCommand
  PROVE  /\ InLimits(Accept(r, move_id, command))
         /\ Safe(Accept(r, move_id, command))
<1> DEFINE a == [r EXCEPT !.received_move_id = move_id]
<1>1. a \in Robot /\ InLimits(a) /\ Safe(a)
  BY Zenon DEF InLimits, Safe, Robot
<1>2. \/ Accept(r, move_id, command) = a
      \/ Accept(r, move_id, command) = EnterError(a, "UNKNOWN_MOTION_COMMAND")
      \/ Accept(r, move_id, command) = EnterError(a, "MOVE_WITHOUT_HOMING")
      \/ Accept(r, move_id, command) = Execute(a, command)
  BY Zenon DEF Accept
<1> HIDE DEF a
<1>3. InLimits(Execute(a, command)) /\ Safe(Execute(a, command))
  BY <1>1, ExecuteSafe
<1>4. QED
  BY <1>1, <1>2, <1>3, EnterErrorSafe, Zenon

LEMMA ApplyMotionCommandSafe ==
  ASSUME NEW r \in Robot, InLimits(r), Safe(r), NEW control \in MotionControl,
         NEW command \in MotionCommand
  PROVE  /\ InLimits(ApplyMotionCommand(r, control, command))
         /\ Safe(ApplyMotionCommand(r, control, command))
<1> DEFINE s == [r EXCEPT !.previous_move_id = control.move_id]
<1> DEFINE released == ReleaseVelocity(s)
<1>1. control.move_id \in Nat
  BY Zenon DEF MotionControl
<1>2. s \in Robot /\ InLimits(s) /\ Safe(s)
  BY <1>1, Zenon DEF InLimits, Safe, Robot
<1>3. \/ ApplyMotionCommand(r, control, command) = released
      \/ ApplyMotionCommand(r, control, command) = ApplyVelocityCommand(s, command)
      \/ ApplyMotionCommand(r, control, command)
           = Accept(released, control.move_id, command)
  BY Zenon DEF ApplyMotionCommand
<1> HIDE DEF s
<1>4. released \in Robot /\ InLimits(released) /\ Safe(released)
  BY <1>2, ReleaseVelocityTyped, ReleaseVelocitySafe
<1> HIDE DEF released
<1>5. InLimits(ApplyVelocityCommand(s, command)) /\ Safe(ApplyVelocityCommand(s, command))
  BY <1>2, ApplyVelocityCommandSafe
<1>6. /\ InLimits(Accept(released, control.move_id, command))
      /\ Safe(Accept(released, control.move_id, command))
  BY <1>1, <1>4, AcceptSafe
<1>7. QED
  BY <1>3, <1>4, <1>5, <1>6, Zenon

LEMMA ApplyOutputAssemblySafe ==
  ASSUME NEW r \in Robot, InLimits(r), Safe(r),
         NEW image \in Image, NEW elapsed \in Nat
  PROVE  /\ ApplyOutputAssembly(r, image, elapsed) \in Robot
         /\ InLimits(ApplyOutputAssembly(r, image, elapsed))
         /\ Safe(ApplyOutputAssembly(r, image, elapsed))
<1> DEFINE a == Advance(r, elapsed)
<1> DEFINE b == ApplyRobotControl(a, image.robot)
<1> DEFINE c == ApplyMotionControl(b, image.motion)
<1>1. a \in Robot /\ InLimits(a) /\ Safe(a)
  BY AdvanceTyped, AdvanceSafe
<1> HIDE DEF a
<1>2. b \in Robot /\ InLimits(b) /\ Safe(b)
  BY <1>1, ImageParts, ApplyRobotControlTyped, ApplyRobotControlSafe
<1> HIDE DEF b
<1>3. c \in Robot /\ InLimits(c) /\ Safe(c)
  BY <1>2, ImageParts, ApplyMotionControlTyped, ApplyMotionControlSafe
<1> HIDE DEF c
<1>4. /\ ApplyMotionCommand(c, image.motion, image.command) \in Robot
      /\ InLimits(ApplyMotionCommand(c, image.motion, image.command))
      /\ Safe(ApplyMotionCommand(c, image.motion, image.command))
  BY <1>3, ImageParts, ApplyMotionCommandTyped, ApplyMotionCommandSafe
<1>5. QED
  BY <1>4 DEF ApplyOutputAssembly, a, b, c

----------------------------------------------------------------------------
(* The theorems that need no assumption on the images.                     *)

\* The inductive invariant: the types, and the two facts about a robot that
\* the handlers keep.
TypedAndSafe == TypeOK /\ Safe(robot)

LEMMA TypeOKParts ==
  TypeOK <=> robot \in Robot /\ InLimits(robot) /\ frame \in Image
BY Zenon DEF TypeOK, InLimits

LEMMA InitTypedAndSafe == Init => TypedAndSafe
<1>1. InitialRobot \in Robot /\ InLimits(InitialRobot) /\ Safe(InitialRobot)
  BY SimulatorAssumption DEF InitialRobot, Robot, States, ErrorCodes, InLimits,
                             Safe, Checkpoints
<1>2. ZeroImage \in Image
  BY DEF ZeroImage, Image, RobotControl, MotionControl, MotionCommand, CommandNames
<1>3. QED
  BY <1>1, <1>2, TypeOKParts, Zenon DEF Init, TypedAndSafe

LEMMA NextTypedAndSafe == TypedAndSafe /\ [Next]_vars => TypedAndSafe'
<1> SUFFICES ASSUME TypedAndSafe, [Next]_vars
             PROVE  TypedAndSafe'
  OBVIOUS
<1>1. robot \in Robot /\ InLimits(robot) /\ Safe(robot) /\ frame \in Image
  BY TypeOKParts DEF TypedAndSafe
<1>2. (robot \in Robot /\ InLimits(robot) /\ Safe(robot) /\ frame \in Image)'
  <2>1. CASE Apply
    BY <1>1, <2>1, ConstantTypes, ApplyOutputAssemblySafe DEF Apply
  <2>2. CASE Build
    BY <1>1, <2>2, ConstantTypes, AdvanceTyped, AdvanceSafe DEF Build
  <2>3. CASE InjectError
    BY <1>1, <2>3, EnterErrorTyped, EnterErrorSafe DEF InjectError
  <2>4. CASE UNCHANGED vars
    BY <1>1, <2>4, Zenon DEF vars
  <2>5. QED
    BY <2>1, <2>2, <2>3, <2>4 DEF Next
<1>3. QED
  BY <1>2, TypeOKParts, PTL DEF TypedAndSafe

\* The joint, the start and the target of a move are within the limits, and
\* every field has its type, in every reachable state.
THEOREM TypeCorrect == Spec => []TypeOK
<1>1. TypedAndSafe => TypeOK
  BY DEF TypedAndSafe
<1>2. QED
  BY <1>1, InitTypedAndSafe, NextTypedAndSafe, PTL DEF Spec

\* A robot that went down has lost its homing reference.
THEOREM HomingNeverStale == Spec => []ReferenceLostWhenDown
<1>1. TypedAndSafe => ReferenceLostWhenDown
  BY DEF TypedAndSafe, Safe, ReferenceLostWhenDown
<1>2. QED
  BY <1>1, InitTypedAndSafe, NextTypedAndSafe, PTL DEF Spec

\* A cleared queue stays paused until a resume.
THEOREM ClearedStaysPaused == Spec => []ClearedMeansPaused
<1>1. TypedAndSafe => ClearedMeansPaused
  BY DEF TypedAndSafe, Safe, ClearedMeansPaused
<1>2. QED
  BY <1>1, InitTypedAndSafe, NextTypedAndSafe, PTL DEF Spec

----------------------------------------------------------------------------
(* 3. What a handler leaves alone: the move under way, the copies of the   *)
(* last image, the pause.                                                  *)

\* The move under way, and its acknowledgement, are those of r, with no more
\* time to run.
SameMove(r, s) ==
  /\ s.received_move_id = r.received_move_id
  /\ s.move_start = r.move_start
  /\ s.move_target = r.move_target
  /\ s.move_left \in Nat
  /\ s.move_left <= r.move_left

\* The copies of the last image, the pause and the hold are those of r.
SameInputs(r, s) ==
  /\ s.previous_move_id = r.previous_move_id
  /\ s.previous_resume_motion = r.previous_resume_motion
  /\ s.paused = r.paused
  /\ s.holding = r.holding

LEMMA SameMoveTransitive ==
  ASSUME NEW r, NEW s, NEW t, r.move_left \in Nat, SameMove(r, s), SameMove(s, t)
  PROVE  SameMove(r, t)
<1>1. s.move_left \in Nat /\ t.move_left \in Nat
  BY DEF SameMove
<1>2. s.move_left <= r.move_left /\ t.move_left <= s.move_left
  BY Zenon DEF SameMove
<1> DEFINE x == r.move_left
<1> DEFINE y == s.move_left
<1> DEFINE z == t.move_left
<1>3. x \in Nat /\ y \in Nat /\ z \in Nat /\ y <= x /\ z <= y
  BY <1>1, <1>2
<1> HIDE DEF x, y, z
<1>4. z <= x
  BY <1>3
<1>5. QED
  BY <1>4, Zenon DEF SameMove, x, y, z

LEMMA SameLeft ==
  ASSUME NEW r \in Robot PROVE r.move_left \in Nat /\ r.move_left <= r.move_left
<1>1. r.move_left \in Nat
  BY Zenon DEF Robot
<1>2. QED
  BY <1>1

LEMMA SettleLeaves ==
  ASSUME NEW r \in Robot
  PROVE  SameMove(r, Settle(r)) /\ SameInputs(r, Settle(r))
BY SameLeft, Zenon DEF Settle, Robot, SameMove, SameInputs

LEMMA EnterErrorLeaves ==
  ASSUME NEW r \in Robot, NEW code
  PROVE  SameMove(r, EnterError(r, code)) /\ SameInputs(r, EnterError(r, code))
BY SameLeft, Zenon DEF EnterError, Robot, SameMove, SameInputs

\* Everything but the hold.
SameButHold(r, s) ==
  /\ s.previous_move_id = r.previous_move_id
  /\ s.previous_resume_motion = r.previous_resume_motion
  /\ s.paused = r.paused

LEMMA DropLeaves ==
  ASSUME NEW r \in Robot, NEW b, NEW v
  PROVE  /\ SameMove(r, [r EXCEPT !.holding = b, !.joint_velocity = v])
         /\ SameButHold(r, [r EXCEPT !.holding = b, !.joint_velocity = v])
         /\ [r EXCEPT !.holding = b, !.joint_velocity = v].holding = b
BY SameLeft, Zenon DEF Robot, SameMove, SameButHold

LEMMA ReleaseVelocityLeaves ==
  ASSUME NEW r \in Robot
  PROVE  /\ SameMove(r, ReleaseVelocity(r))
         /\ SameButHold(r, ReleaseVelocity(r))
         /\ ReleaseVelocity(r).holding = FALSE
<1> DEFINE d == [r EXCEPT !.holding = FALSE, !.joint_velocity = 0]
<1>1. d \in Robot /\ SameMove(r, d) /\ SameButHold(r, d) /\ d.holding = FALSE
  BY DropTyped, DropLeaves
<1>2. ReleaseVelocity(r) = IF r.holding THEN Settle(d) ELSE r
  BY Zenon DEF ReleaseVelocity
<1> HIDE DEF d
<1>3. SameMove(d, Settle(d)) /\ SameInputs(d, Settle(d))
  BY <1>1, SettleLeaves
<1>4. SameMove(r, Settle(d))
  BY <1>1, <1>3, SameLeft, SameMoveTransitive
<1>5. SameButHold(r, Settle(d)) /\ Settle(d).holding = FALSE
  BY <1>1, <1>3, Zenon DEF SameButHold, SameInputs
<1>6. ~r.holding => r.holding = FALSE
  BY Zenon DEF Robot
<1>7. SameMove(r, r) /\ SameButHold(r, r)
  BY SameLeft, Zenon DEF SameMove, SameButHold
<1>8. QED
  BY <1>2, <1>4, <1>5, <1>6, <1>7, Zenon

LEMMA AdvanceLeaves ==
  ASSUME NEW r \in Robot, NEW elapsed \in Nat
  PROVE  SameMove(r, Advance(r, elapsed)) /\ SameInputs(r, Advance(r, elapsed))
<1> DEFINE s == Remaining(r.state_left, elapsed)
<1> DEFINE m == IF Frozen(r) THEN r.move_left ELSE Remaining(r.move_left, elapsed)
<1> DEFINE t == [r EXCEPT !.state_left = s, !.move_left = m]
<1>1. r.state_left \in Nat /\ r.move_left \in Nat
  BY Zenon DEF Robot
<1>2. s \in Nat /\ m \in Nat /\ m <= r.move_left
  BY <1>1, RemainingTyped, SameLeft, Zenon
<1>3. Advance(r, elapsed) = IF Due(r, elapsed) THEN Complete(t)
                            ELSE IF r.holding THEN Integrate(t, elapsed)
                            ELSE IF r.state = "moving" THEN Track(t)
                            ELSE t
  BY Zenon DEF Advance
<1> HIDE DEF s, m
<1>4. t \in Robot
  BY <1>2, Zenon DEF Robot
<1>5. SameMove(r, t) /\ SameInputs(r, t)
  BY <1>2, Zenon DEF Robot, SameMove, SameInputs
<1> HIDE DEF t
<1>6. SameMove(t, Complete(t)) /\ SameInputs(t, Complete(t))
  BY <1>4, SameLeft, Zenon DEF Complete, Robot, SameMove, SameInputs
<1>7. SameMove(t, Integrate(t, elapsed)) /\ SameInputs(t, Integrate(t, elapsed))
  BY <1>4, SameLeft, Zenon DEF Integrate, Robot, SameMove, SameInputs
<1>8. SameMove(t, Track(t)) /\ SameInputs(t, Track(t))
  BY <1>4, SameLeft, Zenon DEF Track, Robot, SameMove, SameInputs
<1>9. /\ SameMove(r, Complete(t))
      /\ SameMove(r, Integrate(t, elapsed))
      /\ SameMove(r, Track(t))
  BY <1>1, <1>5, <1>6, <1>7, <1>8, SameMoveTransitive
<1>10. /\ SameInputs(r, Complete(t))
       /\ SameInputs(r, Integrate(t, elapsed))
       /\ SameInputs(r, Track(t))
  BY <1>5, <1>6, <1>7, <1>8, Zenon DEF SameInputs
<1>11. QED
  BY <1>3, <1>5, <1>9, <1>10, Zenon

LEMMA ApplyRobotControlLeaves ==
  ASSUME NEW r \in Robot, NEW control \in RobotControl
  PROVE  /\ SameMove(r, ApplyRobotControl(r, control))
         /\ SameInputs(r, ApplyRobotControl(r, control))
<1> DEFINE m == ApplyModes(r, control)
<1>1. m \in Robot
  BY Zenon DEF ApplyModes, Robot, RobotControl
<1>2. SameMove(r, m) /\ SameInputs(r, m)
  BY SameLeft, Zenon DEF ApplyModes, Robot, SameMove, SameInputs
<1>3. SameMove(r, Reset(r)) /\ SameInputs(r, Reset(r))
  BY SameLeft, Zenon DEF Reset, Robot, SameMove, SameInputs
<1>4. ApplyRobotControl(r, control) =
        IF r.state = "error" THEN IF control.reset_error THEN Reset(r) ELSE r
        ELSE ApplyPower(m, control)
  BY Zenon DEF ApplyRobotControl
<1> HIDE DEF m
<1>5. SameMove(m, ApplyPower(m, control))
  BY <1>1, SameLeft, Zenon DEF ApplyPower, Robot, SameMove
<1>6. SameInputs(m, ApplyPower(m, control))
  BY <1>1, Zenon DEF ApplyPower, Robot, SameInputs
<1>7. SameMove(r, ApplyPower(m, control))
  BY <1>2, <1>5, SameLeft, SameMoveTransitive
<1>8. SameInputs(r, ApplyPower(m, control))
  BY <1>2, <1>6, Zenon DEF SameInputs
<1>9. SameMove(r, r) /\ SameInputs(r, r)
  BY SameLeft, Zenon DEF SameMove, SameInputs
<1>10. QED
  BY <1>3, <1>4, <1>7, <1>8, <1>9, Zenon

LEMMA ApplyMotionControlLeaves ==
  ASSUME NEW r \in Robot, NEW control \in MotionControl
  PROVE  LET a == ApplyMotionControl(r, control)
         IN /\ SameMove(r, a)
            /\ a.previous_move_id = r.previous_move_id
            /\ a.previous_resume_motion = control.resume_motion
            /\ (r.paused \/ AsksForPause(control)) /\ ~a.paused
                 => control.resume_motion /\ ~r.previous_resume_motion
<1> DEFINE q == [r EXCEPT !.paused = @ \/ control.pause]
<1> DEFINE s == IF control.clear_move THEN ClearMove(r) ELSE q
<1> DEFINE rising == control.resume_motion /\ ~r.previous_resume_motion
<1> DEFINE settled == Settle(ReleaseVelocity(r))
<1>1. q \in Robot
  BY Zenon DEF Robot, MotionControl
<1>2. s \in Robot
  BY <1>1, ClearMoveTyped, Zenon
<1>3. SameMove(r, q) /\ q.previous_move_id = r.previous_move_id
      /\ (r.paused \/ control.pause => q.paused)
  BY SameLeft, Zenon DEF Robot, SameMove
<1>4. ReleaseVelocity(r) \in Robot /\ settled \in Robot
  BY ReleaseVelocityTyped, SettleTyped
<1>5. SameMove(r, settled) /\ settled.previous_move_id = r.previous_move_id
  <2>1. SameMove(r, settled)
    BY <1>4, ReleaseVelocityLeaves, SettleLeaves, SameLeft, SameMoveTransitive
  <2>2. SameButHold(r, ReleaseVelocity(r)) /\ SameInputs(ReleaseVelocity(r), settled)
    BY <1>4, ReleaseVelocityLeaves, SettleLeaves
  <2>3. QED
    BY <2>1, <2>2, Zenon DEF SameButHold, SameInputs
<1>6. ClearMove(r) = [settled EXCEPT !.cleared = TRUE, !.paused = TRUE,
                                     !.offline_program_id = 0]
  BY Zenon DEF ClearMove
<1> HIDE DEF settled
<1>7. SameMove(settled, ClearMove(r)) /\ ClearMove(r).paused
      /\ ClearMove(r).previous_move_id = settled.previous_move_id
  BY <1>4, <1>6, SameLeft, Zenon DEF Robot, SameMove
<1>8. SameMove(r, ClearMove(r))
  BY <1>5, <1>7, SameLeft, SameMoveTransitive
<1>9. /\ SameMove(r, s)
      /\ s.previous_move_id = r.previous_move_id
      /\ r.paused \/ AsksForPause(control) => s.paused
  BY <1>3, <1>5, <1>7, <1>8, Zenon DEF AsksForPause
<1> DEFINE p == s.paused /\ ~rising
<1> DEFINE c == s.cleared /\ ~rising
<1>10. ApplyMotionControl(r, control) =
        [s EXCEPT !.paused = p, !.cleared = c,
                  !.previous_resume_motion = control.resume_motion]
  BY Zenon DEF ApplyMotionControl
<1>11. (r.paused \/ AsksForPause(control)) /\ ~p
         => control.resume_motion /\ ~r.previous_resume_motion
  BY <1>9, Zenon
<1> HIDE DEF s, p, c, q
<1> DEFINE a == [s EXCEPT !.paused = p, !.cleared = c,
                          !.previous_resume_motion = control.resume_motion]
<1>12. /\ SameMove(s, a)
       /\ a.previous_move_id = s.previous_move_id
       /\ a.previous_resume_motion = control.resume_motion
       /\ a.paused = p
  BY <1>2, SameLeft, Zenon DEF Robot, SameMove
<1> HIDE DEF a
<1>13. SameMove(r, a)
  BY <1>9, <1>12, SameLeft, SameMoveTransitive
<1>14. ApplyMotionControl(r, control) = a
  BY <1>10 DEF a
<1>15. QED
  BY <1>9, <1>11, <1>12, <1>13, <1>14, Zenon

LEMMA ApplyVelocityCommandLeaves ==
  ASSUME NEW r \in Robot, NEW command \in MotionCommand
  PROVE  LET a == ApplyVelocityCommand(r, command)
         IN SameMove(r, a) /\ SameButHold(r, a)
<1> DEFINE a == ApplyVelocityCommand(r, command)
<1> DEFINE taken == [r EXCEPT !.holding = TRUE, !.joint_velocity = command.argument]
<1> DEFINE dropped == [r EXCEPT !.holding = FALSE, !.joint_velocity = 0]
<1>1. \/ a = ReleaseVelocity(r)
      \/ a = r
      \/ a = EnterError(r, "UNKNOWN_MOTION_COMMAND")
      \/ a = EnterError(r, "MOVE_WITHOUT_HOMING")
      \/ a = taken
      \/ a = dropped
  BY Zenon DEF ApplyVelocityCommand
<1>2. SameMove(r, r) /\ SameButHold(r, r)
  BY SameLeft, Zenon DEF SameMove, SameButHold
<1>3. ASSUME NEW code
      PROVE  SameMove(r, EnterError(r, code)) /\ SameButHold(r, EnterError(r, code))
  BY EnterErrorLeaves, Zenon DEF SameInputs, SameButHold
<1>4. SameMove(r, ReleaseVelocity(r)) /\ SameButHold(r, ReleaseVelocity(r))
  BY ReleaseVelocityLeaves, Zenon
<1>5. /\ SameMove(r, taken) /\ SameButHold(r, taken)
      /\ SameMove(r, dropped) /\ SameButHold(r, dropped)
  BY DropLeaves
<1> HIDE DEF a, taken, dropped
<1>6. SameMove(r, a) /\ SameButHold(r, a)
  BY <1>1, <1>2, <1>3, <1>4, <1>5, Zenon
<1>7. QED
  BY <1>6 DEF a

LEMMA StartMotionInputs ==
  ASSUME NEW r \in Robot, NEW target, NEW duration
  PROVE  SameInputs(r, StartMotion(r, target, duration))
BY Zenon DEF StartMotion, Robot, SameInputs

LEMMA ExecuteInputs ==
  ASSUME NEW r \in Robot, NEW command \in MotionCommand
  PROVE  SameInputs(r, Execute(r, command))
<1> DEFINE c == command.argument % 65536
<1> DEFINE program == [r EXCEPT !.offline_program_id = command.argument]
<1> DEFINE checkpoint == [r EXCEPT !.reached_checkpoint = c]
<1>1. \/ Execute(r, command) = program
      \/ Execute(r, command) = checkpoint
      \/ Execute(r, command) = StartHold(r, command)
      \/ Execute(r, command) = StartMove(r, command)
      \/ Execute(r, command) = EnterError(r, "MOVE_OUT_OF_RANGE")
      \/ Execute(r, command) = r
  BY ExecuteOutcomes
<1> HIDE DEF c
<1>2. SameInputs(r, program) /\ SameInputs(r, checkpoint) /\ SameInputs(r, r)
  BY Zenon DEF Robot, SameInputs
<1>3. SameInputs(r, StartHold(r, command))
  BY StartMotionInputs, Zenon DEF StartHold
<1>4. ASSUME NEW code PROVE SameInputs(r, EnterError(r, code))
  BY EnterErrorLeaves, Zenon
<1>5. SameInputs(r, StartMove(r, command))
  BY StartMotionInputs, <1>4, Zenon DEF StartMove
<1> HIDE DEF program, checkpoint
<1>6. QED
  BY <1>1, <1>2, <1>3, <1>4, <1>5, Zenon

LEMMA AcceptInputs ==
  ASSUME NEW r \in Robot, NEW move_id \in Nat, NEW command \in MotionCommand
  PROVE  SameInputs(r, Accept(r, move_id, command))
<1> DEFINE a == [r EXCEPT !.received_move_id = move_id]
<1>1. a \in Robot /\ SameInputs(r, a)
  BY Zenon DEF Robot, SameInputs
<1>2. \/ Accept(r, move_id, command) = a
      \/ Accept(r, move_id, command) = EnterError(a, "UNKNOWN_MOTION_COMMAND")
      \/ Accept(r, move_id, command) = EnterError(a, "MOVE_WITHOUT_HOMING")
      \/ Accept(r, move_id, command) = Execute(a, command)
  BY Zenon DEF Accept
<1> HIDE DEF a
<1>3. SameInputs(a, Execute(a, command))
  BY <1>1, ExecuteInputs
<1>4. ASSUME NEW code PROVE SameInputs(a, EnterError(a, code))
  BY <1>1, EnterErrorLeaves, Zenon
<1>5. SameInputs(a, Accept(r, move_id, command)) \/ Accept(r, move_id, command) = a
  BY <1>2, <1>3, <1>4, Zenon
<1>6. QED
  BY <1>1, <1>5, Zenon DEF SameInputs

LEMMA ApplyMotionCommandLeaves ==
  ASSUME NEW r \in Robot, NEW control \in MotionControl,
         NEW command \in MotionCommand
  PROVE  LET a == ApplyMotionCommand(r, control, command)
         IN /\ a.previous_move_id = control.move_id
            /\ a.previous_resume_motion = r.previous_resume_motion
            /\ a.paused = r.paused
            /\ control.move_id = r.previous_move_id => SameMove(r, a)
<1> DEFINE s == [r EXCEPT !.previous_move_id = control.move_id]
<1> DEFINE released == ReleaseVelocity(s)
<1> DEFINE held == ApplyVelocityCommand(s, command)
<1> DEFINE accepted == Accept(released, control.move_id, command)
<1> DEFINE a == ApplyMotionCommand(r, control, command)
<1>1. control.move_id \in Nat
  BY Zenon DEF MotionControl
<1>2. /\ s \in Robot
      /\ SameMove(r, s)
      /\ s.previous_move_id = control.move_id
      /\ s.previous_resume_motion = r.previous_resume_motion
      /\ s.paused = r.paused
  BY <1>1, SameLeft, Zenon DEF Robot, SameMove
<1>3. \/ a = released
      \/ a = held
      \/ control.move_id # r.previous_move_id /\ a = accepted
  BY Zenon DEF ApplyMotionCommand
<1> HIDE DEF s
<1>4. released \in Robot /\ SameMove(s, released) /\ SameButHold(s, released)
  BY <1>2, ReleaseVelocityTyped, ReleaseVelocityLeaves
<1>5. SameMove(s, held) /\ SameButHold(s, held)
  BY <1>2, ApplyVelocityCommandLeaves
<1> HIDE DEF released, held
<1>6. SameInputs(released, accepted)
  BY <1>1, <1>4, AcceptInputs
<1> HIDE DEF accepted
<1>7. SameMove(r, released) /\ SameMove(r, held)
  BY <1>2, <1>4, <1>5, SameLeft, SameMoveTransitive
<1>8. SameButHold(s, accepted)
  BY <1>4, <1>6, Zenon DEF SameButHold, SameInputs
<1> HIDE DEF a
<1>9. SameButHold(s, a)
  BY <1>3, <1>4, <1>5, <1>8, Zenon
<1>10. control.move_id = r.previous_move_id => SameMove(r, a)
  BY <1>3, <1>7, Zenon
<1>11. QED
  BY <1>2, <1>9, <1>10, Zenon DEF SameButHold, a

\* One image, from what the robot remembered of the last one.
LEMMA ApplyOutputAssemblyLeaves ==
  ASSUME NEW r \in Robot, NEW image \in Image, NEW elapsed \in Nat
  PROVE  LET a == ApplyOutputAssembly(r, image, elapsed)
         IN /\ a.previous_move_id = image.motion.move_id
            /\ a.previous_resume_motion = image.motion.resume_motion
            /\ (r.paused \/ AsksForPause(image.motion)) /\ ~a.paused
                 => image.motion.resume_motion /\ ~r.previous_resume_motion
            /\ image.motion.move_id = r.previous_move_id => SameMove(r, a)
<1> DEFINE x == Advance(r, elapsed)
<1> DEFINE y == ApplyRobotControl(x, image.robot)
<1> DEFINE z == ApplyMotionControl(y, image.motion)
<1> DEFINE a == ApplyMotionCommand(z, image.motion, image.command)
<1>1. x \in Robot /\ SameMove(r, x) /\ SameInputs(r, x)
  BY AdvanceTyped, AdvanceLeaves
<1>2. ApplyOutputAssembly(r, image, elapsed) = a
  BY Zenon DEF ApplyOutputAssembly
<1> HIDE DEF x
<1>3. y \in Robot /\ SameMove(x, y) /\ SameInputs(x, y)
  BY <1>1, ImageParts, ApplyRobotControlTyped, ApplyRobotControlLeaves
<1> HIDE DEF y
<1>4. /\ z \in Robot /\ SameMove(y, z)
      /\ z.previous_move_id = y.previous_move_id
      /\ z.previous_resume_motion = image.motion.resume_motion
      /\ (y.paused \/ AsksForPause(image.motion)) /\ ~z.paused
           => image.motion.resume_motion /\ ~y.previous_resume_motion
  BY <1>3, ImageParts, ApplyMotionControlTyped, ApplyMotionControlLeaves
<1> HIDE DEF z
<1>5. /\ a.previous_move_id = image.motion.move_id
      /\ a.previous_resume_motion = z.previous_resume_motion
      /\ a.paused = z.paused
      /\ image.motion.move_id = z.previous_move_id => SameMove(z, a)
  BY <1>4, ImageParts, ApplyMotionCommandLeaves
<1> HIDE DEF a
<1>6. /\ z.previous_move_id = r.previous_move_id
      /\ y.paused = r.paused
      /\ y.previous_resume_motion = r.previous_resume_motion
  BY <1>1, <1>3, <1>4, Zenon DEF SameInputs
<1>7. SameMove(r, z)
  BY <1>1, <1>3, <1>4, SameLeft, SameMoveTransitive
<1>8. SameMove(z, a) => SameMove(r, a)
  BY <1>4, <1>7, SameLeft, SameMoveTransitive
<1>9. QED
  BY <1>2, <1>4, <1>5, <1>6, <1>8, Zenon

\* The robot remembers the last image.
Remembers ==
  /\ robot.previous_move_id = frame.motion.move_id
  /\ robot.previous_resume_motion = frame.motion.resume_motion

LEMMA InitRemembers == Init => Remembers
<1>1. /\ InitialRobot.previous_move_id = ZeroImage.motion.move_id
      /\ InitialRobot.previous_resume_motion = ZeroImage.motion.resume_motion
  BY Zenon DEF InitialRobot, ZeroImage
<1>2. QED
  BY <1>1, Zenon DEF Init, Remembers

LEMMA NextRemembers == TypedAndSafe /\ Remembers /\ [Next]_vars => Remembers'
<1> SUFFICES ASSUME TypedAndSafe, Remembers, [Next]_vars
             PROVE  Remembers'
  OBVIOUS
<1>1. robot \in Robot
  BY TypeOKParts DEF TypedAndSafe
<1>2. CASE Apply
  <2>1. PICK image \in Images, elapsed \in ElapsedTimes :
          /\ robot' = ApplyOutputAssembly(robot, image, elapsed)
          /\ frame' = image
    BY <1>2 DEF Apply
  <2>2. image \in Image /\ elapsed \in Nat
    BY ConstantTypes
  <2> DEFINE a == ApplyOutputAssembly(robot, image, elapsed)
  <2>3. /\ a.previous_move_id = image.motion.move_id
        /\ a.previous_resume_motion = image.motion.resume_motion
    BY <1>1, <2>2, ApplyOutputAssemblyLeaves
  <2>4. robot' = a /\ frame' = image
    BY <2>1
  <2> HIDE DEF a
  <2>5. QED
    BY <2>3, <2>4, Zenon DEF Remembers
<1>3. ASSUME SameInputs(robot, robot'), frame' = frame
      PROVE  Remembers'
  BY <1>3, Zenon DEF SameInputs, Remembers
<1>4. CASE Build
  <2>1. SameInputs(robot, robot') /\ frame' = frame
    BY <1>1, <1>4, ConstantTypes, AdvanceLeaves DEF Build
  <2>2. QED
    BY <1>3, <2>1
<1>5. CASE InjectError
  BY <1>1, <1>3, <1>5, EnterErrorLeaves, Zenon DEF InjectError
<1>6. CASE UNCHANGED vars
  BY <1>6, Zenon DEF vars, Remembers
<1>7. QED
  BY <1>2, <1>4, <1>5, <1>6 DEF Next

LEMMA RemembersAlways == Spec => [](TypedAndSafe /\ Remembers)
BY InitTypedAndSafe, NextTypedAndSafe, InitRemembers, NextRemembers, PTL DEF Spec

\* What a step does to the move under way and to the pause.
LEMMA StepLeaves ==
  ASSUME TypedAndSafe, Remembers, [Next]_vars
  PROVE  /\ frame'.motion.move_id = frame.motion.move_id => SameMove(robot, robot')
         /\ PauseLifted
              => frame'.motion.resume_motion /\ ~frame.motion.resume_motion
<1>1. robot \in Robot
  BY TypeOKParts DEF TypedAndSafe
<1>2. CASE Apply
  <2>1. PICK image \in Images, elapsed \in ElapsedTimes :
          /\ robot' = ApplyOutputAssembly(robot, image, elapsed)
          /\ frame' = image
    BY <1>2 DEF Apply
  <2>2. image \in Image /\ elapsed \in Nat
    BY ConstantTypes
  <2> DEFINE a == ApplyOutputAssembly(robot, image, elapsed)
  <2>3. /\ image.motion.move_id = robot.previous_move_id => SameMove(robot, a)
        /\ (robot.paused \/ AsksForPause(image.motion)) /\ ~a.paused
             => image.motion.resume_motion /\ ~robot.previous_resume_motion
    BY <1>1, <2>2, ApplyOutputAssemblyLeaves
  <2>4. robot' = a /\ frame' = image
    BY <2>1
  <2> HIDE DEF a
  <2>5. QED
    BY <2>3, <2>4, Zenon DEF Remembers, PauseLifted
<1>3. CASE Build
  <2>1. SameMove(robot, robot') /\ SameInputs(robot, robot') /\ frame' = frame
    BY <1>1, <1>3, ConstantTypes, AdvanceLeaves DEF Build
  <2>2. QED
    BY <2>1, Zenon DEF SameInputs, PauseLifted
<1>4. CASE InjectError
  <2>1. SameMove(robot, robot') /\ SameInputs(robot, robot') /\ frame' = frame
    BY <1>1, <1>4, EnterErrorLeaves, Zenon DEF InjectError
  <2>2. QED
    BY <2>1, Zenon DEF SameInputs, PauseLifted
<1>5. CASE UNCHANGED vars
  <2>1. robot' = robot /\ frame' = frame /\ SameMove(robot, robot)
    BY <1>1, <1>5, SameLeft, Zenon DEF vars, SameMove
  <2>2. QED
    BY <2>1, Zenon DEF PauseLifted
<1>6. QED
  BY <1>2, <1>3, <1>4, <1>5 DEF Next

\* A repeated image acknowledges and starts nothing.
THEOREM CommandsStartOnce == Spec => MoveOncePerId
<1>1. TypedAndSafe /\ Remembers /\ [Next]_vars
        => [frame'.motion.move_id = frame.motion.move_id =>
              /\ robot'.received_move_id = robot.received_move_id
              /\ robot'.move_start = robot.move_start
              /\ robot'.move_target = robot.move_target
              /\ robot'.move_left <= robot.move_left]_vars
  BY StepLeaves, Zenon DEF SameMove
<1>2. QED
  BY <1>1, RemembersAlways, PTL DEF Spec, MoveOncePerId

\* A pause ends only on the rising edge of the resume bit.
THEOREM PauseEndsOnEdge == Spec => ResumeOnRisingEdge
<1>1. TypedAndSafe /\ Remembers /\ [Next]_vars
        => [PauseLifted
              => /\ frame'.motion.resume_motion
                 /\ ~frame.motion.resume_motion]_vars
  BY StepLeaves, Zenon
<1>2. QED
  BY <1>1, RemembersAlways, PTL DEF Spec, ResumeOnRisingEdge

----------------------------------------------------------------------------
(* 4. Where the joint is, for a scanner that holds no other declared       *)
(* command than MoveJointsVel: one of these ends a hold and leaves the     *)
(* state of motion as it is.                                               *)

NothingElseHeld ==
  \A image \in Images :
    image.motion.setpoint /\ image.motion.move_id = 0
      => image.command.name \in {"none", "unknown", "variable", "MoveJointsVel"}

\* A robot that runs towards a target is where its interpolation says.
OnTrack(r) == r.state = "moving" /\ ~r.holding => r.joints = Interpolate(r)

\* The joint stays, and so does the move under way, if there is one.
StaysThere(r, s) ==
  /\ s.joints = r.joints
  /\ s.move_start = r.move_start
  /\ s.move_target = r.move_target
  /\ s.move_left = r.move_left
  /\ s.state = "moving" /\ ~s.holding => r.state = "moving" /\ ~r.holding

\* The joint stays, and is on the track of the new move, if there is one.
KeepsTrack(r, s) == s.joints = r.joints /\ (OnTrack(r) => OnTrack(s))

LEMMA StayingKeepsTrack ==
  ASSUME NEW r, NEW s, StaysThere(r, s) PROVE KeepsTrack(r, s)
BY Zenon DEF StaysThere, KeepsTrack, OnTrack, Interpolate

LEMMA KeepsTrackTransitive ==
  ASSUME NEW r, NEW s, NEW t, KeepsTrack(r, s), KeepsTrack(s, t)
  PROVE  KeepsTrack(r, t)
BY Zenon DEF KeepsTrack

LEMMA KeepsOwnTrack ==
  ASSUME NEW r PROVE KeepsTrack(r, r)
BY Zenon DEF KeepsTrack

LEMMA SettleStays ==
  ASSUME NEW r \in Robot PROVE StaysThere(r, Settle(r)) /\ Settle(r).state # "moving"
BY Zenon DEF Settle, Robot, StaysThere

LEMMA EnterErrorStays ==
  ASSUME NEW r \in Robot, NEW code PROVE StaysThere(r, EnterError(r, code))
BY Zenon DEF EnterError, Robot, StaysThere

LEMMA ReleaseVelocityStays ==
  ASSUME NEW r \in Robot PROVE StaysThere(r, ReleaseVelocity(r))
<1> DEFINE d == [r EXCEPT !.holding = FALSE, !.joint_velocity = 0]
<1>1. /\ d \in Robot /\ d.joints = r.joints /\ d.move_start = r.move_start
      /\ d.move_target = r.move_target /\ d.move_left = r.move_left
  BY DropTyped, Zenon DEF Robot
<1>2. ReleaseVelocity(r) = IF r.holding THEN Settle(d) ELSE r
  BY Zenon DEF ReleaseVelocity
<1> HIDE DEF d
<1>3. StaysThere(d, Settle(d)) /\ Settle(d).state # "moving"
  BY <1>1, SettleStays
<1>4. StaysThere(r, Settle(d)) /\ StaysThere(r, r)
  BY <1>1, <1>3, Zenon DEF StaysThere
<1>5. QED
  BY <1>2, <1>4, Zenon

LEMMA ApplyRobotControlStays ==
  ASSUME NEW r \in Robot, NEW control \in RobotControl
  PROVE  StaysThere(r, ApplyRobotControl(r, control))
<1> DEFINE m == ApplyModes(r, control)
<1>1. m \in Robot /\ StaysThere(r, m)
  BY Zenon DEF ApplyModes, Robot, RobotControl, StaysThere
<1>2. StaysThere(r, Reset(r)) /\ StaysThere(r, r)
  BY Zenon DEF Reset, Robot, StaysThere
<1>3. ApplyRobotControl(r, control) =
        IF r.state = "error" THEN IF control.reset_error THEN Reset(r) ELSE r
        ELSE ApplyPower(m, control)
  BY Zenon DEF ApplyRobotControl
<1> HIDE DEF m
<1>4. StaysThere(m, ApplyPower(m, control))
  BY <1>1, Zenon DEF ApplyPower, Robot, StaysThere
<1>5. StaysThere(r, ApplyPower(m, control))
  BY <1>1, <1>4, Zenon DEF StaysThere
<1>6. QED
  BY <1>2, <1>3, <1>5, Zenon

LEMMA ApplyMotionControlStays ==
  ASSUME NEW r \in Robot, NEW control \in MotionControl
  PROVE  StaysThere(r, ApplyMotionControl(r, control))
<1> DEFINE q == [r EXCEPT !.paused = @ \/ control.pause]
<1> DEFINE s == IF control.clear_move THEN ClearMove(r) ELSE q
<1> DEFINE settled == Settle(ReleaseVelocity(r))
<1>1. q \in Robot /\ StaysThere(r, q)
  BY Zenon DEF Robot, MotionControl, StaysThere
<1>2. settled \in Robot /\ StaysThere(r, settled)
  <2>1. ReleaseVelocity(r) \in Robot /\ StaysThere(r, ReleaseVelocity(r))
    BY ReleaseVelocityTyped, ReleaseVelocityStays
  <2>2. settled \in Robot /\ StaysThere(ReleaseVelocity(r), settled)
    BY <2>1, SettleTyped, SettleStays
  <2>3. QED
    BY <2>1, <2>2, Zenon DEF StaysThere
<1>3. ClearMove(r) = [settled EXCEPT !.cleared = TRUE, !.paused = TRUE,
                                     !.offline_program_id = 0]
  BY Zenon DEF ClearMove
<1> HIDE DEF settled
<1>4. StaysThere(settled, ClearMove(r)) /\ ClearMove(r) \in Robot
  BY <1>2, <1>3, ClearMoveTyped, Zenon DEF Robot, StaysThere
<1>5. s \in Robot /\ StaysThere(r, s)
  BY <1>1, <1>2, <1>4, Zenon DEF StaysThere
<1> DEFINE rising == control.resume_motion /\ ~r.previous_resume_motion
<1> DEFINE p == s.paused /\ ~rising
<1> DEFINE c == s.cleared /\ ~rising
<1> DEFINE a == [s EXCEPT !.paused = p, !.cleared = c,
                          !.previous_resume_motion = control.resume_motion]
<1>6. ApplyMotionControl(r, control) = a
  BY Zenon DEF ApplyMotionControl
<1> HIDE DEF s, p, c
<1>7. StaysThere(s, a)
  BY <1>5, Zenon DEF Robot, StaysThere
<1> HIDE DEF a
<1>8. QED
  BY <1>5, <1>6, <1>7, Zenon DEF StaysThere

\* Ending the hold of an unmodelled command is the one case left out.
LEMMA ApplyVelocityCommandStays ==
  ASSUME NEW r \in Robot, NEW command \in MotionCommand,
         command.name \in {"none", "unknown", "variable", "MoveJointsVel"}
  PROVE  StaysThere(r, ApplyVelocityCommand(r, command))
<1> DEFINE a == ApplyVelocityCommand(r, command)
<1> DEFINE taken == [r EXCEPT !.holding = TRUE, !.joint_velocity = command.argument]
<1>1. \/ a = ReleaseVelocity(r)
      \/ a = r
      \/ a = EnterError(r, "UNKNOWN_MOTION_COMMAND")
      \/ a = EnterError(r, "MOVE_WITHOUT_HOMING")
      \/ a = taken
  BY Zenon DEF ApplyVelocityCommand
<1>2. StaysThere(r, taken) /\ StaysThere(r, r)
  BY Zenon DEF Robot, StaysThere
<1> HIDE DEF a, taken
<1>3. StaysThere(r, a)
  BY <1>1, <1>2, ReleaseVelocityStays, EnterErrorStays, Zenon
<1>4. QED
  BY <1>3 DEF a

\* A move starts where the joint is, and a hold stays there.
LEMMA StartMotionOnTrack ==
  ASSUME NEW r \in Robot, NEW target \in Int, NEW duration \in Nat,
         duration >= Distance(r.joints, target)
  PROVE  KeepsTrack(r, StartMotion(r, target, duration))
<1> DEFINE s == StartMotion(r, target, duration)
<1>1. /\ s.joints = r.joints /\ s.move_start = r.joints
      /\ s.move_target = target /\ s.move_left = duration
  BY Zenon DEF StartMotion, Robot
<1> HIDE DEF s
<1>2. s.move_left >= Distance(s.move_start, s.move_target)
  BY <1>1
<1>3. Interpolate(s) = s.joints
  BY <1>1, <1>2, Zenon DEF Interpolate
<1>4. QED
  BY <1>1, <1>3, Zenon DEF KeepsTrack, OnTrack, s

LEMMA ExecuteKeepsTrack ==
  ASSUME NEW r \in Robot, NEW command \in MotionCommand
  PROVE  KeepsTrack(r, Execute(r, command))
<1> DEFINE c == command.argument % 65536
<1> DEFINE program == [r EXCEPT !.offline_program_id = command.argument]
<1> DEFINE checkpoint == [r EXCEPT !.reached_checkpoint = c]
<1>1. \/ Execute(r, command) = program
      \/ Execute(r, command) = checkpoint
      \/ Execute(r, command) = StartHold(r, command)
      \/ Execute(r, command) = StartMove(r, command)
      \/ Execute(r, command) = EnterError(r, "MOVE_OUT_OF_RANGE")
      \/ Execute(r, command) = r
  BY ExecuteOutcomes
<1> HIDE DEF c
<1>2. KeepsTrack(r, program) /\ KeepsTrack(r, checkpoint) /\ KeepsTrack(r, r)
  <2>1. StaysThere(r, program) /\ StaysThere(r, checkpoint)
    BY Zenon DEF Robot, StaysThere
  <2>2. QED
    BY <2>1, StayingKeepsTrack, KeepsOwnTrack
<1>3. KeepsTrack(r, EnterError(r, "MOVE_OUT_OF_RANGE"))
  BY EnterErrorStays, StayingKeepsTrack
<1>4. r.joints \in Int /\ command.argument \in Int
  BY Zenon DEF Robot, MotionCommand
<1>5. KeepsTrack(r, StartHold(r, command))
  <2> DEFINE d == IF command.argument > 0 THEN command.argument ELSE 0
  <2>1. d \in Nat
    BY <1>4
  <2>2. d >= Distance(r.joints, r.joints)
    BY <1>4 DEF Distance
  <2>3. StartHold(r, command) = StartMotion(r, r.joints, d)
    BY Zenon DEF StartHold
  <2> HIDE DEF d
  <2>4. QED
    BY <1>4, <2>1, <2>2, <2>3, StartMotionOnTrack
<1>6. KeepsTrack(r, StartMove(r, command))
  <2> DEFINE target == ResolveTarget(r, command)
  <2>1. \/ StartMove(r, command) = StartMotion(r, target, Distance(r.joints, target))
        \/ StartMove(r, command) = EnterError(r, "MOVE_OUT_OF_RANGE")
    BY Zenon DEF StartMove
  <2>2. target \in Int
    BY <1>4 DEF ResolveTarget
  <2> HIDE DEF target
  <2>3. Distance(r.joints, target) \in Nat
        /\ Distance(r.joints, target) >= Distance(r.joints, target)
    BY <1>4, <2>2 DEF Distance
  <2>4. KeepsTrack(r, StartMotion(r, target, Distance(r.joints, target)))
    BY <2>2, <2>3, StartMotionOnTrack
  <2>5. QED
    BY <1>3, <2>1, <2>4, Zenon
<1> HIDE DEF program, checkpoint
<1>7. QED
  BY <1>1, <1>2, <1>3, <1>5, <1>6, Zenon

LEMMA AcceptKeepsTrack ==
  ASSUME NEW r \in Robot, NEW move_id \in Nat, NEW command \in MotionCommand
  PROVE  KeepsTrack(r, Accept(r, move_id, command))
<1> DEFINE a == [r EXCEPT !.received_move_id = move_id]
<1>1. a \in Robot /\ StaysThere(r, a)
  BY Zenon DEF Robot, StaysThere
<1>2. \/ Accept(r, move_id, command) = a
      \/ Accept(r, move_id, command) = EnterError(a, "UNKNOWN_MOTION_COMMAND")
      \/ Accept(r, move_id, command) = EnterError(a, "MOVE_WITHOUT_HOMING")
      \/ Accept(r, move_id, command) = Execute(a, command)
  BY Zenon DEF Accept
<1> HIDE DEF a
<1>3. KeepsTrack(r, a)
  BY <1>1, StayingKeepsTrack
<1>4. ASSUME NEW code PROVE KeepsTrack(a, EnterError(a, code))
  BY <1>1, EnterErrorStays, StayingKeepsTrack
<1>5. KeepsTrack(a, Execute(a, command))
  BY <1>1, ExecuteKeepsTrack
<1>6. KeepsTrack(a, Accept(r, move_id, command)) \/ Accept(r, move_id, command) = a
  BY <1>2, <1>4, <1>5, Zenon
<1>7. QED
  BY <1>3, <1>6, KeepsTrackTransitive

LEMMA ApplyMotionCommandKeepsTrack ==
  ASSUME NEW r \in Robot, NEW control \in MotionControl, NEW command \in MotionCommand,
         control.setpoint /\ control.move_id = 0
           => command.name \in {"none", "unknown", "variable", "MoveJointsVel"}
  PROVE  KeepsTrack(r, ApplyMotionCommand(r, control, command))
<1> DEFINE s == [r EXCEPT !.previous_move_id = control.move_id]
<1> DEFINE released == ReleaseVelocity(s)
<1> DEFINE held == ApplyVelocityCommand(s, command)
<1> DEFINE accepted == Accept(released, control.move_id, command)
<1> DEFINE a == ApplyMotionCommand(r, control, command)
<1>1. control.move_id \in Nat
  BY Zenon DEF MotionControl
<1>2. s \in Robot /\ StaysThere(r, s)
  BY <1>1, Zenon DEF Robot, StaysThere
<1>3. \/ a = released
      \/ control.setpoint /\ control.move_id = 0 /\ a = held
      \/ a = accepted
  BY Zenon DEF ApplyMotionCommand
<1> HIDE DEF s
<1>4. KeepsTrack(r, s)
  BY <1>2, StayingKeepsTrack
<1>5. released \in Robot /\ KeepsTrack(s, released)
  BY <1>2, ReleaseVelocityTyped, ReleaseVelocityStays, StayingKeepsTrack
<1>6. ASSUME control.setpoint, control.move_id = 0
      PROVE  KeepsTrack(s, held)
  BY <1>2, <1>6, ApplyVelocityCommandStays, StayingKeepsTrack
<1> HIDE DEF released, held
<1>7. KeepsTrack(s, accepted)
  BY <1>1, <1>5, AcceptKeepsTrack, KeepsTrackTransitive
<1> HIDE DEF accepted, a
<1>8. KeepsTrack(s, a)
  BY <1>3, <1>5, <1>6, <1>7, Zenon
<1>9. KeepsTrack(r, a)
  BY <1>4, <1>8, KeepsTrackTransitive
<1>10. QED
  BY <1>9 DEF a

\* The two ends of a move and what is between them.
LEMMA InterpolateReaches ==
  ASSUME NEW a \in Int, NEW b \in Int, NEW n \in Nat, NEW m \in Nat, m <= n
  PROVE  LET At(k) == IF k >= Distance(a, b) THEN a
                      ELSE IF a <= b THEN b - k ELSE b + k
         IN /\ At(0) = b
            /\ Distance(At(n), At(m)) \in Nat
            /\ Distance(At(n), At(m)) <= n - m
BY DEF Distance

LEMMA ProductIsNatural ==
  ASSUME NEW a \in Nat, NEW b \in Nat PROVE a * b \in Nat /\ 0 <= a * b
OBVIOUS

\* A velocity is integrated, and the joint stops at its limits.
LEMMA ClampReaches ==
  ASSUME NEW angle \in Angle, NEW v \in Int, NEW elapsed \in Nat
  PROVE  Distance(angle, Clamp(angle + v * elapsed)) <= elapsed * Distance(0, v)
<1>1. v * elapsed \in Int
  OBVIOUS
<1>2. CASE 0 <= v
  <2>1. elapsed * Distance(0, v) = v * elapsed
    BY <1>2 DEF Distance
  <2>2. 0 <= v * elapsed
    BY <1>2, ProductIsNatural
  <2> DEFINE p == v * elapsed
  <2> HIDE DEF p
  <2>3. p \in Int /\ 0 <= p
    BY <1>1, <2>2 DEF p
  <2>4. Distance(angle, Clamp(angle + p)) <= p
    BY <2>3, SimulatorAssumption DEF Distance, Clamp, Angle
  <2>5. QED
    BY <2>1, <2>4 DEF p
<1>3. CASE v < 0
  <2> DEFINE w == 0 - v
  <2>1. w \in Nat /\ Distance(0, v) = w
    BY <1>3 DEF Distance
  <2>2. v * elapsed = 0 - w * elapsed /\ elapsed * w = w * elapsed
    BY <1>3
  <2> HIDE DEF w
  <2> DEFINE p == w * elapsed
  <2>3. p \in Nat /\ 0 <= p
    BY <2>1, ProductIsNatural
  <2> HIDE DEF p
  <2>4. Distance(angle, Clamp(angle + (0 - p))) <= p
    BY <2>3, SimulatorAssumption DEF Distance, Clamp, Angle
  <2>5. QED
    BY <2>1, <2>2, <2>4 DEF p
<1>4. QED
  BY <1>2, <1>3

\* What the time between two visits does to the joint.
LEMMA AdvanceOnTrack ==
  ASSUME NEW r \in Robot, InLimits(r), OnTrack(r), NEW elapsed \in Nat
  PROVE  LET x == Advance(r, elapsed)
         IN /\ OnTrack(x)
            /\ r.state # "homing" =>
                 /\ r.paused => x.joints = r.joints
                 /\ Distance(r.joints, x.joints)
                      <= elapsed * (IF r.holding THEN Distance(0, r.joint_velocity) ELSE 1)
<1> DEFINE s == Remaining(r.state_left, elapsed)
<1> DEFINE m == IF Frozen(r) THEN r.move_left ELSE Remaining(r.move_left, elapsed)
<1> DEFINE t == [r EXCEPT !.state_left = s, !.move_left = m]
<1> DEFINE x == Advance(r, elapsed)
<1> DEFINE speed == IF r.holding THEN Distance(0, r.joint_velocity) ELSE 1
<1>1. /\ r.state_left \in Nat /\ r.move_left \in Nat /\ r.joints \in Int
      /\ r.move_start \in Int /\ r.move_target \in Int /\ r.joint_velocity \in Int
      /\ r.holding \in BOOLEAN /\ r.paused \in BOOLEAN
  BY Zenon DEF Robot
<1>2. /\ m \in Nat /\ s \in Nat /\ m <= r.move_left /\ r.move_left - m <= elapsed
      /\ Frozen(r) => m = r.move_left
  BY <1>1 DEF Remaining
<1>3. \/ Due(r, elapsed) /\ x = Complete(t)
      \/ ~Due(r, elapsed) /\ r.holding /\ x = Integrate(t, elapsed)
      \/ ~Due(r, elapsed) /\ ~r.holding /\ r.state = "moving" /\ x = Track(t)
      \/ ~Due(r, elapsed) /\ ~r.holding /\ r.state # "moving" /\ x = t
  BY Zenon DEF Advance
<1> HIDE DEF s, m
<1>4. /\ t \in Robot /\ t.joints = r.joints /\ t.state = r.state
      /\ t.holding = r.holding /\ t.paused = r.paused
      /\ t.move_start = r.move_start /\ t.move_target = r.move_target
      /\ t.move_left = m /\ t.joint_velocity = r.joint_velocity
  BY <1>2, Zenon DEF Robot
<1>5. Distance(r.joints, r.joints) = 0 /\ speed \in Nat
  BY <1>1 DEF Distance
<1> HIDE DEF speed
<1>6. 0 <= elapsed * speed
  BY <1>5, ProductIsNatural
<1> DEFINE Goal == /\ OnTrack(x)
                   /\ r.state # "homing" =>
                        /\ r.paused => x.joints = r.joints
                        /\ Distance(r.joints, x.joints) <= elapsed * speed
<1> HIDE DEF t, x
<1>7. SUFFICES Goal
  BY DEF x, speed
<1>8. ASSUME r.state # "homing" => x.joints = r.joints, OnTrack(x) PROVE Goal
  BY <1>5, <1>6, <1>8
<1>9. CASE Due(r, elapsed) /\ x = Complete(t)
  <2>1. /\ r.state # "homing" => x.joints = t.joints
        /\ x.state # "moving"
    BY <1>4, <1>9, Zenon DEF Due, Complete, Robot
  <2>2. QED
    BY <1>4, <1>8, <2>1 DEF OnTrack
<1>10. CASE r.holding /\ x = Integrate(t, elapsed)
  <2>1. x.holding
    BY <1>4, <1>10, Zenon DEF Integrate, Robot
  <2>2. OnTrack(x)
    BY <2>1 DEF OnTrack
  <2>3. CASE r.paused
    <3>1. x.joints = r.joints
      BY <1>4, <1>10, <2>3, Zenon DEF Integrate, Robot
    <3>2. QED
      BY <1>8, <2>2, <3>1
  <2>4. CASE ~r.paused
    <3> DEFINE j == Clamp(r.joints + r.joint_velocity * elapsed)
    <3>1. Distance(r.joints, j) <= elapsed * speed
      BY <1>1, <1>10, ClampReaches DEF speed, InLimits
    <3>2. x = [t EXCEPT !.joints = j,
                        !.state = IF t.joint_velocity # 0 THEN "moving" ELSE "idle"]
      BY <1>4, <1>10, <2>4, Zenon DEF Integrate
    <3> HIDE DEF j
    <3>3. x.joints = j
      BY <1>4, <3>2, Zenon DEF Robot
    <3>4. QED
      BY <2>2, <2>4, <3>1, <3>3, Zenon
  <2>5. QED
    BY <2>3, <2>4
<1>11. CASE ~r.holding /\ r.state = "moving" /\ x = Track(t)
  <2> DEFINE a == r.move_start
  <2> DEFINE b == r.move_target
  <2> DEFINE At(k) == IF k >= Distance(a, b) THEN a
                      ELSE IF a <= b THEN b - k ELSE b + k
  <2>1. Interpolate(r) = At(r.move_left) /\ Interpolate(t) = At(m)
    BY <1>4, Zenon DEF Interpolate
  <2>2. r.joints = At(r.move_left)
    BY <1>11, <2>1, Zenon DEF OnTrack
  <2> DEFINE n == r.move_left
  <2>3. a \in Int /\ b \in Int /\ n \in Nat /\ m \in Nat /\ m <= n
    BY <1>1, <1>2
  <2> HIDE DEF a, b, n
  <2>4. At(0) = b /\ Distance(At(n), At(m)) \in Nat /\ Distance(At(n), At(m)) <= n - m
    BY <2>3, InterpolateReaches
  <2> USE DEF a, b, n
  <2>5. /\ At(0) = b
        /\ Distance(At(r.move_left), At(m)) \in Nat
        /\ Distance(At(r.move_left), At(m)) <= r.move_left - m
    BY <2>4
  <2>6. Interpolate(t) \in Int
    BY <1>4, InterpolateTyped
  <2> HIDE DEF At
  <2>7. \/ m = 0 /\ x.joints = b /\ x.state = "idle"
        \/ m # 0 /\ x = [t EXCEPT !.joints = Interpolate(t)] /\ x.joints = At(m)
    BY <1>4, <1>11, <2>1, Zenon DEF Track, Robot
  <2>8. x.joints = At(m)
    BY <2>5, <2>7, Zenon
  <2>9. OnTrack(x)
    <3>1. CASE m = 0
      BY <2>7, <3>1, Zenon DEF OnTrack
    <3>2. CASE m # 0
      <4>1. x = [t EXCEPT !.joints = Interpolate(t)]
        BY <2>7, <3>2, Zenon
      <4>2. /\ x.move_start = t.move_start /\ x.move_target = t.move_target
            /\ x.move_left = t.move_left
        BY <1>4, <4>1, Zenon DEF Robot
      <4>3. Interpolate(x) = Interpolate(t)
        BY <4>2, Zenon DEF Interpolate
      <4>4. QED
        BY <2>1, <2>8, <4>3, Zenon DEF OnTrack
    <3>3. QED
      BY <3>1, <3>2
  <2>10. r.paused => x.joints = r.joints
    BY <1>2, <1>11, <2>2, <2>8, Zenon DEF Frozen
  <2>11. elapsed * speed = elapsed
    BY <1>11 DEF speed
  <2>12. Distance(r.joints, x.joints) <= elapsed * speed
    BY <1>1, <1>2, <2>2, <2>5, <2>8, <2>11
  <2>13. QED
    BY <2>9, <2>10, <2>12
<1>12. CASE r.state # "moving" /\ x = t
  BY <1>4, <1>8, <1>12 DEF OnTrack
<1>13. QED
  BY <1>3, <1>9, <1>10, <1>11, <1>12, Zenon

\* The rest of an image leaves the joint where the time has brought it.
LEMMA ApplyOutputAssemblyOnTrack ==
  ASSUME NEW r \in Robot, InLimits(r), OnTrack(r), NEW elapsed \in Nat, NEW image \in Image,
         image.motion.setpoint /\ image.motion.move_id = 0
           => image.command.name \in {"none", "unknown", "variable", "MoveJointsVel"}
  PROVE  LET a == ApplyOutputAssembly(r, image, elapsed)
         IN OnTrack(a) /\ a.joints = Advance(r, elapsed).joints
<1> DEFINE x == Advance(r, elapsed)
<1> DEFINE y == ApplyRobotControl(x, image.robot)
<1> DEFINE z == ApplyMotionControl(y, image.motion)
<1> DEFINE a == ApplyMotionCommand(z, image.motion, image.command)
<1>1. x \in Robot /\ OnTrack(x)
  BY AdvanceTyped, AdvanceOnTrack
<1>2. ApplyOutputAssembly(r, image, elapsed) = a
  BY Zenon DEF ApplyOutputAssembly
<1> HIDE DEF x
<1>3. y \in Robot /\ KeepsTrack(x, y)
  BY <1>1, ImageParts, ApplyRobotControlTyped, ApplyRobotControlStays, StayingKeepsTrack
<1> HIDE DEF y
<1>4. z \in Robot /\ KeepsTrack(y, z)
  BY <1>3, ImageParts, ApplyMotionControlTyped, ApplyMotionControlStays, StayingKeepsTrack
<1> HIDE DEF z
<1>5. KeepsTrack(z, a)
  BY <1>4, ImageParts, ApplyMotionCommandKeepsTrack
<1> HIDE DEF a
<1>6. OnTrack(a) /\ a.joints = x.joints
  BY <1>1, <1>3, <1>4, <1>5, Zenon DEF KeepsTrack
<1>7. QED
  BY <1>2, <1>6, Zenon DEF x

LEMMA StepOnTrack ==
  ASSUME NothingElseHeld, TypedAndSafe, OnTrack(robot), [Next]_vars
  PROVE  /\ OnTrack(robot)'
         /\ \/ robot'.joints = robot.joints
            \/ \E elapsed \in ElapsedTimes :
                 robot.state # "homing" =>
                   /\ robot.paused => robot'.joints = robot.joints
                   /\ Distance(robot.joints, robot'.joints)
                        <= elapsed * (IF robot.holding
                                      THEN Distance(0, robot.joint_velocity) ELSE 1)
<1>1. robot \in Robot /\ InLimits(robot)
  BY TypeOKParts DEF TypedAndSafe
<1>2. CASE Apply
  <2>1. PICK image \in Images, elapsed \in ElapsedTimes :
          robot' = ApplyOutputAssembly(robot, image, elapsed)
    BY <1>2 DEF Apply
  <2>2. /\ image \in Image /\ elapsed \in Nat
        /\ image.motion.setpoint /\ image.motion.move_id = 0
             => image.command.name \in {"none", "unknown", "variable", "MoveJointsVel"}
    BY ConstantTypes DEF NothingElseHeld
  <2> DEFINE x == Advance(robot, elapsed)
  <2>3. /\ robot.state # "homing" =>
             /\ robot.paused => x.joints = robot.joints
             /\ Distance(robot.joints, x.joints)
                  <= elapsed * (IF robot.holding
                                THEN Distance(0, robot.joint_velocity) ELSE 1)
    BY <1>1, <2>2, AdvanceOnTrack
  <2>4. OnTrack(robot') /\ robot'.joints = x.joints
    BY <1>1, <2>1, <2>2, ApplyOutputAssemblyOnTrack
  <2> HIDE DEF x
  <2>5. QED
    BY <2>3, <2>4, Zenon DEF OnTrack, Interpolate
<1>3. CASE Build
  <2>1. PICK elapsed \in ElapsedTimes : robot' = Advance(robot, elapsed)
    BY <1>3 DEF Build
  <2>2. elapsed \in Nat
    BY ConstantTypes
  <2>3. /\ OnTrack(robot')
        /\ robot.state # "homing" =>
             /\ robot.paused => robot'.joints = robot.joints
             /\ Distance(robot.joints, robot'.joints)
                  <= elapsed * (IF robot.holding
                                THEN Distance(0, robot.joint_velocity) ELSE 1)
    BY <1>1, <2>1, <2>2, AdvanceOnTrack
  <2>4. QED
    BY <2>3, Zenon DEF OnTrack, Interpolate
<1>4. CASE InjectError
  <2>1. PICK code \in InjectedCodes : robot' = EnterError(robot, code)
    BY <1>4 DEF InjectError
  <2>2. KeepsTrack(robot, robot')
    BY <1>1, <2>1, EnterErrorStays, StayingKeepsTrack
  <2>3. QED
    BY <2>2, Zenon DEF KeepsTrack, OnTrack, Interpolate
<1>5. CASE UNCHANGED vars
  BY <1>5, Zenon DEF vars, OnTrack, Interpolate
<1>6. QED
  BY <1>2, <1>3, <1>4, <1>5 DEF Next

LEMMA OnTrackAlways ==
  ASSUME NothingElseHeld PROVE Spec => [](TypedAndSafe /\ OnTrack(robot))
<1>1. Init => OnTrack(robot)
  <2>1. InitialRobot.state = "deactivated"
    BY Zenon DEF InitialRobot
  <2>2. QED
    BY <2>1 DEF Init, OnTrack
<1>2. TypedAndSafe /\ OnTrack(robot) /\ [Next]_vars => OnTrack(robot)'
  BY StepOnTrack
<1>3. QED
  BY <1>1, <1>2, InitTypedAndSafe, NextTypedAndSafe, PTL DEF Spec

\* A paused robot does not move, but to its home position: a paused move is
\* frozen between its two ends, a paused velocity is not integrated.
THEOREM PauseStopsTheJoint ==
  ASSUME NothingElseHeld PROVE Spec => PausedRobotHoldsStill
<1>1. TypedAndSafe /\ OnTrack(robot) /\ [Next]_vars
        => [robot.paused /\ robot.state # "homing" => robot'.joints = robot.joints]_vars
  BY StepOnTrack, Zenon
<1>2. QED
  BY <1>1, OnTrackAlways, PTL DEF Spec, PausedRobotHoldsStill

\* The joint runs at its speed: neither the end of a hold, nor the end of a
\* move, nor a clamp, a pause or a reset makes it jump.
THEOREM JointNeverJumps ==
  ASSUME NothingElseHeld, ElapsedTimes # {} PROVE Spec => NoJump
<1> DEFINE Reach ==
      \/ robot.state = "homing"
      \/ \E elapsed \in ElapsedTimes :
           Distance(robot.joints, robot'.joints)
             <= elapsed * (IF robot.holding
                           THEN Distance(0, robot.joint_velocity) ELSE 1)
<1>1. ASSUME TypedAndSafe, OnTrack(robot), [Next]_vars PROVE Reach
  <2>1. CASE robot'.joints = robot.joints
    <3>1. PICK elapsed \in ElapsedTimes : TRUE
      OBVIOUS
    <3>2. elapsed \in Nat
      BY ConstantTypes
    <3>3. robot.joints \in Int /\ robot.joint_velocity \in Int
      BY <1>1, TypeOKParts, Zenon DEF TypedAndSafe, Robot
    <3> DEFINE speed == IF robot.holding THEN Distance(0, robot.joint_velocity) ELSE 1
    <3>4. Distance(robot.joints, robot'.joints) = 0 /\ speed \in Nat
      BY <2>1, <3>3 DEF Distance
    <3> HIDE DEF speed
    <3>5. Distance(robot.joints, robot'.joints) <= elapsed * speed
      BY <3>2, <3>4, ProductIsNatural
    <3>6. QED
      BY <3>5, Zenon DEF speed
  <2>2. QED
    BY <1>1, <2>1, StepOnTrack, Zenon
<1>2. TypedAndSafe /\ OnTrack(robot) /\ [Next]_vars => [Reach]_vars
  BY <1>1, Zenon
<1>3. QED
  BY <1>2, OnTrackAlways, PTL DEF Spec, NoJump

----------------------------------------------------------------------------
(* 5. As long as no image holds a joint velocity (QueuedOnly), the state,  *)
(* the error code and the homing reference agree, deactivation wins, and   *)
(* only a reset leaves the error state, which takes the code back. With a  *)
(* held velocity the code does not keep these facts (see                   *)
(* ErrorLeftOnlyByReset in README.md): the assumption cannot be dropped.   *)

\* Nothing is held, a robot that may move is homed, and one with an error code
\* is in error.
Consistent(r) ==
  /\ r.holding = FALSE
  /\ r.state \in {"idle", "moving"} => r.homed
  /\ r.error_code # "NONE" => r.state = "error"

Down(r) == r.state \in {"deactivated", "deactivating", "error"}

\* s is consistent, and as far down as r was.
Follows(r, s) ==
  /\ Consistent(s)
  /\ Down(r) => Down(s)
  /\ r.state = "error" => s.state = "error"

LEMMA FollowsItself ==
  ASSUME NEW r, Consistent(r) PROVE Follows(r, r)
BY Zenon DEF Follows

LEMMA FollowsTransitive ==
  ASSUME NEW r, NEW s, NEW t, Follows(r, s), Follows(s, t)
  PROVE  Follows(r, t)
BY Zenon DEF Follows

----------------------------------------------------------------------------
(* One lemma per handler.                                                  *)

LEMMA SettleFollows ==
  ASSUME NEW r \in Robot, Consistent(r) PROVE Follows(r, Settle(r))
<1>1. CASE r.state = "moving"
  <2>1. Settle(r) = [r EXCEPT !.state = "idle"]
    BY <1>1, Zenon DEF Settle
  <2>2. QED
    BY <1>1, <2>1, Zenon DEF Robot, Follows, Consistent, Down
<1>2. CASE r.state # "moving"
  <2>1. Settle(r) = [r EXCEPT !.state = r.state]
    BY <1>2, Zenon DEF Settle
  <2>2. QED
    BY <1>2, <2>1, Zenon DEF Robot, Follows, Consistent, Down
<1>3. QED
  BY <1>1, <1>2

LEMMA EnterErrorFollows ==
  ASSUME NEW r \in Robot, Consistent(r), NEW code
  PROVE  Follows(r, EnterError(r, code))
BY Zenon DEF EnterError, Robot, Follows, Consistent, Down

LEMMA ReleaseVelocityFollows ==
  ASSUME NEW r \in Robot, Consistent(r)
  PROVE  ReleaseVelocity(r) = r
BY Zenon DEF ReleaseVelocity, Consistent

LEMMA AdvanceFollows ==
  ASSUME NEW r \in Robot, Consistent(r), NEW elapsed \in Nat
  PROVE  Follows(r, Advance(r, elapsed))
<1> DEFINE s == Remaining(r.state_left, elapsed)
<1> DEFINE m == IF Frozen(r) THEN r.move_left ELSE Remaining(r.move_left, elapsed)
<1> DEFINE t == [r EXCEPT !.state_left = s, !.move_left = m]
<1>1. s \in Nat /\ m \in Nat
  <2>1. r.state_left \in Nat /\ r.move_left \in Nat
    BY Zenon DEF Robot
  <2>2. QED
    BY <2>1, RemainingTyped, Zenon
<1>2. \/ Due(r, elapsed) /\ Advance(r, elapsed) = Complete(t)
      \/ r.state = "moving" /\ Advance(r, elapsed) = Track(t)
      \/ Advance(r, elapsed) = t
  BY Zenon DEF Advance, Consistent
<1> HIDE DEF s, m
<1>3. t \in Robot /\ t.state = r.state /\ Follows(r, t)
  BY <1>1, Zenon DEF Robot, Follows, Consistent, Down
<1> HIDE DEF t
<1>4. ASSUME Due(r, elapsed) PROVE Follows(t, Complete(t))
  <2>1. \/ t.state = "activating" /\ Complete(t) = [t EXCEPT !.state = "activated"]
        \/ /\ t.state = "deactivating"
           /\ Complete(t) = [t EXCEPT !.state = "deactivated", !.homed = FALSE]
        \/ /\ t.state = "homing"
           /\ Complete(t) = [t EXCEPT !.state = "idle", !.homed = TRUE,
                                      !.joints = HomePosition]
    BY <1>3, <1>4, Zenon DEF Due, Complete
  <2>2. QED
    BY <1>3, <2>1, ZenonT(60) DEF Robot, Follows, Consistent, Down
<1>5. ASSUME r.state = "moving" PROVE Follows(t, Track(t))
  <2>1. \/ Track(t) = [t EXCEPT !.state = "idle", !.joints = t.move_target]
        \/ Track(t) = [t EXCEPT !.joints = Interpolate(t)]
    BY Zenon DEF Track
  <2>2. t.state = "moving"
    BY <1>3, <1>5
  <2>3. QED
    BY <1>3, <2>1, <2>2, ZenonT(60) DEF Robot, Follows, Consistent, Down
<1>6. QED
  BY <1>2, <1>3, <1>4, <1>5, FollowsTransitive

LEMMA ApplyRobotControlFollows ==
  ASSUME NEW r \in Robot, Consistent(r), NEW control \in RobotControl
  PROVE  LET a == ApplyRobotControl(r, control)
         IN /\ Consistent(a)
            /\ control.deactivate /\ r.state # "error" => Down(a)
            /\ r.state = "error" /\ ~control.reset_error => a = r
            /\ r.state = "error" => Down(a)
<1> DEFINE m == ApplyModes(r, control)
<1> DEFINE a == ApplyRobotControl(r, control)
<1>1. \/ r.state = "error" /\ control.reset_error /\ a = Reset(r)
      \/ r.state = "error" /\ ~control.reset_error /\ a = r
      \/ r.state # "error" /\ a = ApplyPower(m, control)
  BY Zenon DEF ApplyRobotControl
<1>2. m \in Robot /\ m.state = r.state /\ Consistent(m)
  BY Zenon DEF ApplyModes, Robot, RobotControl, Consistent
<1>3. Consistent(Reset(r)) /\ Down(Reset(r))
  BY Zenon DEF Reset, Robot, Consistent, Down
<1> HIDE DEF m
<1>4. ASSUME r.state # "error"
      PROVE  /\ Consistent(ApplyPower(m, control))
             /\ control.deactivate => Down(ApplyPower(m, control))
  <2> DEFINE p == ApplyPower(m, control)
  <2>1. \/ p = [m EXCEPT !.state = "deactivating", !.state_left = ActivationTime]
        \/ ~control.deactivate
             /\ p = [m EXCEPT !.state = "activating", !.state_left = ActivationTime]
        \/ ~control.deactivate
             /\ p = [m EXCEPT !.state = "homing", !.state_left = HomingTime]
        \/ p = m /\ (control.deactivate => Down(m))
    BY Zenon DEF ApplyPower, Down
  <2> HIDE DEF p
  <2>2. m.error_code = "NONE"
    BY <1>2, <1>4, Zenon DEF Consistent
  <2>3. QED
    BY <1>2, <2>1, <2>2, ZenonT(60) DEF Robot, Consistent, Down, p
<1>5. r.state = "error" => Down(r)
  BY Zenon DEF Down
<1> HIDE DEF a
<1>6. /\ Consistent(a)
      /\ control.deactivate /\ r.state # "error" => Down(a)
      /\ r.state = "error" /\ ~control.reset_error => a = r
      /\ r.state = "error" => Down(a)
  BY <1>1, <1>3, <1>4, <1>5, Zenon
<1>7. QED
  BY <1>6 DEF a

LEMMA ApplyMotionControlFollows ==
  ASSUME NEW r \in Robot, Consistent(r), NEW control \in MotionControl
  PROVE  Follows(r, ApplyMotionControl(r, control))
<1> DEFINE q == [r EXCEPT !.paused = @ \/ control.pause]
<1> DEFINE s == IF control.clear_move THEN ClearMove(r) ELSE q
<1> DEFINE rising == control.resume_motion /\ ~r.previous_resume_motion
<1> DEFINE p == s.paused /\ ~rising
<1> DEFINE c == s.cleared /\ ~rising
<1>1. ApplyMotionControl(r, control) =
        [s EXCEPT !.paused = p, !.cleared = c,
                  !.previous_resume_motion = control.resume_motion]
  BY Zenon DEF ApplyMotionControl
<1>2. q \in Robot /\ Follows(r, q)
  BY Zenon DEF Robot, MotionControl, Follows, Consistent, Down
<1>3. Settle(r) \in Robot /\ Follows(r, Settle(r))
  BY SettleTyped, SettleFollows
<1>4. ClearMove(r) = [Settle(r) EXCEPT !.cleared = TRUE, !.paused = TRUE,
                                       !.offline_program_id = 0]
  BY ReleaseVelocityFollows, Zenon DEF ClearMove
<1> DEFINE d == Settle(r)
<1> HIDE DEF q, p, c
<1>5. Follows(r, ClearMove(r))
  <2>1. d \in Robot /\ Follows(r, d)
    BY <1>3
  <2>2. ClearMove(r) = [d EXCEPT !.cleared = TRUE, !.paused = TRUE,
                                 !.offline_program_id = 0]
    BY <1>4
  <2> HIDE DEF d
  <2>3. QED
    BY <2>1, <2>2, Zenon DEF Robot, Follows, Consistent, Down
<1>6. s \in Robot /\ Follows(r, s)
  BY <1>2, <1>5, ClearMoveTyped, Zenon
<1> HIDE DEF s
<1>7. Follows(s, [s EXCEPT !.paused = p, !.cleared = c,
                           !.previous_resume_motion = control.resume_motion])
  BY <1>6, Zenon DEF Robot, Follows, Consistent, Down
<1>8. QED
  BY <1>1, <1>6, <1>7, FollowsTransitive, Zenon

LEMMA ApplyVelocityCommandFollows ==
  ASSUME NEW r \in Robot, Consistent(r),
         NEW command \in MotionCommand, command.name # "MoveJointsVel"
  PROVE  Follows(r, ApplyVelocityCommand(r, command))
<1> DEFINE a == ApplyVelocityCommand(r, command)
<1> DEFINE d == [r EXCEPT !.holding = FALSE, !.joint_velocity = 0]
<1>1. \/ a = ReleaseVelocity(r)
      \/ a = r
      \/ a = EnterError(r, "UNKNOWN_MOTION_COMMAND")
      \/ a = d
  BY Zenon DEF ApplyVelocityCommand
<1>2. Follows(r, d)
  BY Zenon DEF Robot, Follows, Consistent, Down
<1>3. Follows(r, EnterError(r, "UNKNOWN_MOTION_COMMAND"))
  BY EnterErrorFollows, Zenon
<1> HIDE DEF a, d
<1>4. Follows(r, a)
  BY <1>1, <1>2, <1>3, ReleaseVelocityFollows, FollowsItself, Zenon
<1>5. QED
  BY <1>4 DEF a

LEMMA StartMotionFollows ==
  ASSUME NEW r \in Robot, Consistent(r), r.state \in {"idle", "moving"},
         NEW target, NEW duration
  PROVE  Follows(r, StartMotion(r, target, duration))
BY Zenon DEF StartMotion, Robot, Follows, Consistent, Down

LEMMA ExecuteFollows ==
  ASSUME NEW r \in Robot, Consistent(r), r.state \in {"idle", "moving"},
         NEW command \in MotionCommand
  PROVE  Follows(r, Execute(r, command))
<1> DEFINE c == command.argument % 65536
<1> DEFINE program == [r EXCEPT !.offline_program_id = command.argument]
<1> DEFINE checkpoint == [r EXCEPT !.reached_checkpoint = c]
<1>1. \/ Execute(r, command) = program
      \/ Execute(r, command) = checkpoint
      \/ Execute(r, command) = StartHold(r, command)
      \/ Execute(r, command) = StartMove(r, command)
      \/ Execute(r, command) = EnterError(r, "MOVE_OUT_OF_RANGE")
      \/ Execute(r, command) = r
  BY ExecuteOutcomes
<1> HIDE DEF c
<1>2. Follows(r, program) /\ Follows(r, checkpoint)
  BY Zenon DEF Robot, Follows, Consistent, Down
<1>3. Follows(r, StartHold(r, command))
  BY StartMotionFollows, Zenon DEF StartHold
<1>4. Follows(r, EnterError(r, "MOVE_OUT_OF_RANGE"))
  BY EnterErrorFollows, Zenon
<1>5. Follows(r, StartMove(r, command))
  BY StartMotionFollows, <1>4, Zenon DEF StartMove
<1> HIDE DEF program, checkpoint
<1>6. QED
  BY <1>1, <1>2, <1>3, <1>4, <1>5, FollowsItself, Zenon

LEMMA AcceptFollows ==
  ASSUME NEW r \in Robot, Consistent(r), NEW move_id \in Nat,
         NEW command \in MotionCommand
  PROVE  Follows(r, Accept(r, move_id, command))
<1> DEFINE a == [r EXCEPT !.received_move_id = move_id]
<1>1. a \in Robot /\ a.state = r.state /\ Follows(r, a)
  BY Zenon DEF Robot, Follows, Consistent, Down
<1>2. \/ Accept(r, move_id, command) = a
      \/ Accept(r, move_id, command) = EnterError(a, "UNKNOWN_MOTION_COMMAND")
      \/ Accept(r, move_id, command) = EnterError(a, "MOVE_WITHOUT_HOMING")
      \/ /\ r.state \in {"idle", "moving"}
         /\ Accept(r, move_id, command) = Execute(a, command)
  BY Zenon DEF Accept
<1> HIDE DEF a
<1>3. Consistent(a)
  BY <1>1, Zenon DEF Follows
<1>4. ASSUME r.state \in {"idle", "moving"} PROVE Follows(a, Execute(a, command))
  BY <1>1, <1>3, <1>4, ExecuteFollows
<1>5. /\ Follows(a, EnterError(a, "UNKNOWN_MOTION_COMMAND"))
      /\ Follows(a, EnterError(a, "MOVE_WITHOUT_HOMING"))
  BY <1>1, <1>3, EnterErrorFollows, Zenon
<1>6. Follows(a, a)
  BY <1>3, FollowsItself
<1>7. Follows(a, Accept(r, move_id, command))
  BY <1>2, <1>4, <1>5, <1>6, Zenon
<1>8. QED
  BY <1>1, <1>7, FollowsTransitive

LEMMA ApplyMotionCommandFollows ==
  ASSUME NEW r \in Robot, Consistent(r), NEW control \in MotionControl,
         NEW command \in MotionCommand,
         control.setpoint /\ control.move_id = 0 => command.name # "MoveJointsVel"
  PROVE  Follows(r, ApplyMotionCommand(r, control, command))
<1> DEFINE s == [r EXCEPT !.previous_move_id = control.move_id]
<1>1. control.move_id \in Nat
  BY Zenon DEF MotionControl
<1>2. s \in Robot /\ Follows(r, s)
  BY <1>1, Zenon DEF Robot, Follows, Consistent, Down
<1>3. \/ ApplyMotionCommand(r, control, command) = ReleaseVelocity(s)
      \/ /\ command.name # "MoveJointsVel"
         /\ ApplyMotionCommand(r, control, command) = ApplyVelocityCommand(s, command)
      \/ ApplyMotionCommand(r, control, command)
           = Accept(ReleaseVelocity(s), control.move_id, command)
  BY Zenon DEF ApplyMotionCommand
<1> HIDE DEF s
<1>4. Consistent(s)
  BY <1>2, Zenon DEF Follows
<1>5. ReleaseVelocity(s) = s
  BY <1>2, <1>4, ReleaseVelocityFollows
<1>6. /\ command.name # "MoveJointsVel" => Follows(s, ApplyVelocityCommand(s, command))
      /\ Follows(s, Accept(s, control.move_id, command))
      /\ Follows(s, s)
  BY <1>1, <1>2, <1>4, ApplyVelocityCommandFollows, AcceptFollows, FollowsItself
<1>7. Follows(s, ApplyMotionCommand(r, control, command))
  BY <1>3, <1>5, <1>6, Zenon
<1>8. QED
  BY <1>2, <1>7, FollowsTransitive

\* One image: a deactivation takes the robot down, and an image without a reset
\* leaves the error alone.
LEMMA ApplyOutputAssemblyFollows ==
  ASSUME NEW r \in Robot, Consistent(r), NEW elapsed \in Nat,
         NEW image \in Image,
         image.motion.setpoint /\ image.motion.move_id = 0
           => image.command.name # "MoveJointsVel"
  PROVE  LET a == ApplyOutputAssembly(r, image, elapsed)
         IN /\ Consistent(a)
            /\ image.robot.deactivate => Down(a)
            /\ r.state = "error" /\ ~image.robot.reset_error => a.state = "error"
<1> DEFINE x == Advance(r, elapsed)
<1> DEFINE y == ApplyRobotControl(x, image.robot)
<1> DEFINE z == ApplyMotionControl(y, image.motion)
<1> DEFINE a == ApplyMotionCommand(z, image.motion, image.command)
<1>1. x \in Robot /\ Follows(r, x)
  BY AdvanceTyped, AdvanceFollows
<1>2. ApplyOutputAssembly(r, image, elapsed) = a
  BY Zenon DEF ApplyOutputAssembly
<1> HIDE DEF x
<1>3. Consistent(x) /\ (r.state = "error" => x.state = "error")
  BY <1>1, Zenon DEF Follows
<1>4. /\ y \in Robot /\ Consistent(y)
      /\ image.robot.deactivate /\ x.state # "error" => Down(y)
      /\ x.state = "error" /\ ~image.robot.reset_error => y = x
      /\ x.state = "error" => Down(y)
  BY <1>1, <1>3, ImageParts, ApplyRobotControlTyped, ApplyRobotControlFollows
<1> HIDE DEF y
<1>5. z \in Robot /\ Follows(y, z)
  BY <1>4, ImageParts, ApplyMotionControlTyped, ApplyMotionControlFollows
<1> HIDE DEF z
<1>6. Consistent(z)
  BY <1>5, Zenon DEF Follows
<1>7. Follows(z, a)
  BY <1>5, <1>6, ImageParts, ApplyMotionCommandFollows
<1> HIDE DEF a
<1>8. Follows(y, a)
  BY <1>5, <1>7, FollowsTransitive
<1>9. /\ Consistent(a)
      /\ image.robot.deactivate => Down(a)
      /\ r.state = "error" /\ ~image.robot.reset_error => a.state = "error"
  BY <1>3, <1>4, <1>8, Zenon DEF Follows
<1>10. QED
  BY <1>2, <1>9

----------------------------------------------------------------------------
(* The inductive invariant and the theorems.                               *)

QueuedInv ==
  /\ TypedAndSafe
  /\ Consistent(robot)
  /\ DeactivateWins

LEMMA InitQueuedInv == Init => QueuedInv
<1>1. Consistent(InitialRobot) /\ ZeroImage.robot.deactivate = FALSE
  BY Zenon DEF Consistent, InitialRobot, ZeroImage
<1>2. QED
  BY <1>1, InitTypedAndSafe, Zenon DEF Init, QueuedInv, DeactivateWins

\* What a step keeps, and the one way out of the error state.
LEMMA StepFollows ==
  ASSUME QueuedOnly, QueuedInv, [Next]_vars
  PROVE  /\ Consistent(robot')
         /\ frame'.robot.deactivate => Down(robot')
         /\ robot.state = "error" /\ robot'.state # "error"
              => frame'.robot.reset_error
<1>1. /\ robot \in Robot /\ Consistent(robot)
      /\ frame.robot.deactivate => Down(robot)
  BY TypeOKParts, Zenon DEF QueuedInv, TypedAndSafe, DeactivateWins, Down
<1>2. CASE Apply
  <2>1. PICK image \in Images, elapsed \in ElapsedTimes :
          /\ robot' = ApplyOutputAssembly(robot, image, elapsed)
          /\ frame' = image
    BY <1>2 DEF Apply
  <2>2. /\ image \in Image /\ elapsed \in Nat
        /\ image.motion.setpoint /\ image.motion.move_id = 0
             => image.command.name # "MoveJointsVel"
    BY ConstantTypes DEF QueuedOnly
  <2> DEFINE a == ApplyOutputAssembly(robot, image, elapsed)
  <2>3. /\ Consistent(a)
        /\ image.robot.deactivate => Down(a)
        /\ robot.state = "error" /\ ~image.robot.reset_error => a.state = "error"
    BY <1>1, <2>2, ApplyOutputAssemblyFollows
  <2>4. robot' = a /\ frame' = image
    BY <2>1
  <2> HIDE DEF a
  <2>5. QED
    BY <2>3, <2>4, Zenon
<1>3. ASSUME Follows(robot, robot'), frame' = frame
      PROVE  /\ Consistent(robot')
             /\ frame'.robot.deactivate => Down(robot')
             /\ robot.state = "error" => robot'.state = "error"
  BY <1>1, <1>3, Zenon DEF Follows
<1>4. CASE Build
  <2>1. Follows(robot, robot') /\ frame' = frame
    BY <1>1, <1>4, ConstantTypes, AdvanceFollows DEF Build
  <2>2. QED
    BY <1>3, <2>1
<1>5. CASE InjectError
  <2>1. Follows(robot, robot') /\ frame' = frame
    BY <1>1, <1>5, EnterErrorFollows, Zenon DEF InjectError
  <2>2. QED
    BY <1>3, <2>1
<1>6. CASE UNCHANGED vars
  <2>1. Follows(robot, robot') /\ frame' = frame
    BY <1>1, <1>6, FollowsItself, Zenon DEF vars
  <2>2. QED
    BY <1>3, <2>1
<1>7. QED
  BY <1>2, <1>4, <1>5, <1>6 DEF Next

LEMMA NextQueuedInv ==
  ASSUME QueuedOnly PROVE QueuedInv /\ [Next]_vars => QueuedInv'
<1> SUFFICES ASSUME QueuedInv, [Next]_vars PROVE QueuedInv'
  OBVIOUS
<1>1. TypedAndSafe'
  BY NextTypedAndSafe DEF QueuedInv
<1>2. Consistent(robot') /\ (frame'.robot.deactivate => Down(robot'))
  BY StepFollows
<1>3. Consistent(robot)' /\ DeactivateWins'
  BY <1>2, Zenon DEF DeactivateWins, Down, Consistent
<1>4. QED
  BY <1>1, <1>3 DEF QueuedInv

LEMMA QueuedInvAlways ==
  ASSUME QueuedOnly PROVE Spec => []QueuedInv
BY InitQueuedInv, NextQueuedInv, PTL DEF Spec

\* Without held velocities a robot that may move has been homed.
THEOREM ReadyIsHomed == ASSUME QueuedOnly PROVE Spec => []ReadyMeansHomed
<1>1. QueuedInv => ReadyMeansHomed
  BY Zenon DEF QueuedInv, Consistent, ReadyMeansHomed
<1>2. QED
  BY <1>1, QueuedInvAlways, PTL

\* Without held velocities a robot that publishes an error code is in error:
\* whatever was injected, the way out of the error state takes the code back.
THEOREM CodeTakenBack == ASSUME QueuedOnly PROVE Spec => []CodeOnlyInError
<1>1. QueuedInv => CodeOnlyInError
  BY Zenon DEF QueuedInv, Consistent, CodeOnlyInError
<1>2. QED
  BY <1>1, QueuedInvAlways, PTL

\* Without held velocities a robot told to deactivate is down or on its way.
THEOREM DeactivationWins == ASSUME QueuedOnly PROVE Spec => []DeactivateWins
<1>1. QueuedInv => DeactivateWins
  BY DEF QueuedInv
<1>2. QED
  BY <1>1, QueuedInvAlways, PTL

\* Without held velocities the error state is left only by a reset.
THEOREM OnlyResetLeavesError == ASSUME QueuedOnly PROVE Spec => ErrorLeftOnlyByReset
<1>1. QueuedInv /\ [Next]_vars
        => [robot.state = "error" /\ robot'.state # "error"
              => frame'.robot.reset_error]_vars
  BY StepFollows
<1>2. QED
  BY <1>1, QueuedInvAlways, PTL DEF Spec, ErrorLeftOnlyByReset

----------------------------------------------------------------------------
(* 6. How long a velocity is held. In error the handler of a held command  *)
(* would keep a velocity under every command but none. It never comes to   *)
(* that: the visit that precedes it takes a robot with a velocity out of   *)
(* the error state, and no handler in between brings it back there.        *)

Awake(r) == r.holding => r.state # "error"

LEMMA AdvanceAwake ==
  ASSUME NEW r \in Robot, NEW elapsed \in Nat
  PROVE  Awake(Advance(r, elapsed))
<1> DEFINE s == Remaining(r.state_left, elapsed)
<1> DEFINE m == IF Frozen(r) THEN r.move_left ELSE Remaining(r.move_left, elapsed)
<1> DEFINE t == [r EXCEPT !.state_left = s, !.move_left = m]
<1>1. s \in Nat /\ m \in Nat
  <2>1. r.state_left \in Nat /\ r.move_left \in Nat
    BY Zenon DEF Robot
  <2>2. QED
    BY <2>1, RemainingTyped, Zenon
<1>2. Advance(r, elapsed) = IF Due(r, elapsed) THEN Complete(t)
                            ELSE IF r.holding THEN Integrate(t, elapsed)
                            ELSE IF r.state = "moving" THEN Track(t)
                            ELSE t
  BY Zenon DEF Advance
<1> HIDE DEF s, m
<1>3. t \in Robot /\ t.state = r.state /\ t.holding = r.holding
  BY <1>1, Zenon DEF Robot
<1> HIDE DEF t
<1>4. ASSUME Due(r, elapsed) PROVE Awake(Complete(t))
  BY <1>3, <1>4, Zenon DEF Due, Complete, Awake, Robot
<1>5. Awake(Integrate(t, elapsed))
  <2> DEFINE j == Clamp(t.joints + t.joint_velocity * elapsed)
  <2> DEFINE moving == IF t.joint_velocity # 0 THEN "moving" ELSE "idle"
  <2>1. \/ Integrate(t, elapsed) = [t EXCEPT !.state = "idle"]
        \/ Integrate(t, elapsed) = [t EXCEPT !.joints = j, !.state = moving]
    BY Zenon DEF Integrate
  <2>2. moving # "error"
    BY Zenon
  <2> HIDE DEF j, moving
  <2>3. QED
    BY <1>3, <2>1, <2>2, Zenon DEF Robot, Awake
<1>6. ASSUME ~r.holding PROVE Awake(Track(t)) /\ Awake(t)
  BY <1>3, <1>6, Zenon DEF Track, Robot, Awake
<1>7. QED
  BY <1>2, <1>4, <1>5, <1>6, Zenon

LEMMA ApplyRobotControlAwake ==
  ASSUME NEW r \in Robot, Awake(r), NEW control \in RobotControl
  PROVE  Awake(ApplyRobotControl(r, control))
<1> DEFINE m == ApplyModes(r, control)
<1>1. m \in Robot /\ m.state = r.state /\ m.holding = r.holding
  BY Zenon DEF ApplyModes, Robot, RobotControl
<1>2. \/ ApplyRobotControl(r, control) = Reset(r)
      \/ ApplyRobotControl(r, control) = r
      \/ ApplyRobotControl(r, control) = ApplyPower(m, control)
  BY Zenon DEF ApplyRobotControl
<1> HIDE DEF m
<1>3. Awake(Reset(r))
  BY Zenon DEF Reset, Robot, Awake
<1>4. Awake(m)
  BY <1>1, Zenon DEF Awake
<1>5. Awake(ApplyPower(m, control))
  BY <1>1, <1>4, Zenon DEF ApplyPower, Robot, Awake
<1>6. QED
  BY <1>2, <1>3, <1>5, Zenon

LEMMA ApplyMotionControlAwake ==
  ASSUME NEW r \in Robot, Awake(r), NEW control \in MotionControl
  PROVE  Awake(ApplyMotionControl(r, control))
<1> DEFINE q == [r EXCEPT !.paused = @ \/ control.pause]
<1> DEFINE s == IF control.clear_move THEN ClearMove(r) ELSE q
<1> DEFINE settled == Settle(ReleaseVelocity(r))
<1> DEFINE rising == control.resume_motion /\ ~r.previous_resume_motion
<1> DEFINE p == s.paused /\ ~rising
<1> DEFINE c == s.cleared /\ ~rising
<1>1. q \in Robot /\ q.holding = r.holding /\ q.state = r.state
  BY Zenon DEF Robot, MotionControl
<1>2. settled \in Robot /\ settled.holding = FALSE
  <2>1. ReleaseVelocity(r) \in Robot /\ ReleaseVelocity(r).holding = FALSE
    BY ReleaseVelocityTyped, ReleaseVelocityLeaves
  <2>2. settled \in Robot /\ SameInputs(ReleaseVelocity(r), settled)
    BY <2>1, SettleTyped, SettleLeaves
  <2>3. QED
    BY <2>1, <2>2, Zenon DEF SameInputs
<1>3. ClearMove(r) = [settled EXCEPT !.cleared = TRUE, !.paused = TRUE,
                                     !.offline_program_id = 0]
  BY Zenon DEF ClearMove
<1>4. ApplyMotionControl(r, control) =
        [s EXCEPT !.paused = p, !.cleared = c,
                  !.previous_resume_motion = control.resume_motion]
  BY Zenon DEF ApplyMotionControl
<1> HIDE DEF q, settled
<1>5. ClearMove(r) \in Robot /\ ClearMove(r).holding = FALSE
  BY <1>2, <1>3, ClearMoveTyped, Zenon DEF Robot
<1>6. s \in Robot /\ Awake(s)
  BY <1>1, <1>5, Zenon DEF Awake
<1> HIDE DEF s, p, c
<1>7. QED
  BY <1>4, <1>6, Zenon DEF Robot, Awake

\* What a held command leaves: no velocity, its own, or that of an image
\* before under an error.
HeldUnder(r, command) ==
  r.holding =>
    /\ command.name \in {"MoveJointsVel", "unknown", "variable"}
    /\ \/ command = [name |-> "MoveJointsVel", argument |-> r.joint_velocity]
       \/ r.state = "error"

LEMMA ApplyVelocityCommandHeld ==
  ASSUME NEW r \in Robot, Awake(r), NEW command \in MotionCommand
  PROVE  HeldUnder(ApplyVelocityCommand(r, command), command)
<1> DEFINE a == ApplyVelocityCommand(r, command)
<1> DEFINE taken == [r EXCEPT !.holding = TRUE, !.joint_velocity = command.argument]
<1> DEFINE dropped == [r EXCEPT !.holding = FALSE, !.joint_velocity = 0]
<1>1. \/ a = ReleaseVelocity(r)
      \/ r.state = "error" /\ a = r
      \/ /\ command.name \in {"MoveJointsVel", "unknown", "variable"}
         /\ \/ a = EnterError(r, "UNKNOWN_MOTION_COMMAND")
            \/ a = EnterError(r, "MOVE_WITHOUT_HOMING")
      \/ command.name = "MoveJointsVel" /\ a = taken
      \/ a = dropped
  BY Zenon DEF ApplyVelocityCommand
<1>2. ~ReleaseVelocity(r).holding
  BY ReleaseVelocityLeaves
<1>3. r.state = "error" => ~r.holding
  BY Zenon DEF Awake
<1>4. \A code : EnterError(r, code).state = "error"
  BY Zenon DEF EnterError, Robot
<1>5. /\ taken.joint_velocity = command.argument
      /\ ~dropped.holding
  BY Zenon DEF Robot
<1>6. command = [name |-> command.name, argument |-> command.argument]
  BY DEF MotionCommand
<1> HIDE DEF a, taken, dropped
<1>7. HeldUnder(a, command)
  BY <1>1, <1>2, <1>3, <1>4, <1>5, <1>6, Zenon DEF HeldUnder
<1>8. QED
  BY <1>7 DEF a

LEMMA ApplyMotionCommandHeld ==
  ASSUME NEW r \in Robot, Awake(r), NEW control \in MotionControl,
         NEW command \in MotionCommand
  PROVE  LET a == ApplyMotionCommand(r, control, command)
         IN /\ HeldUnder(a, command)
            /\ a.holding => control.setpoint /\ control.move_id = 0
<1> DEFINE s == [r EXCEPT !.previous_move_id = control.move_id]
<1> DEFINE released == ReleaseVelocity(s)
<1> DEFINE held == ApplyVelocityCommand(s, command)
<1> DEFINE accepted == Accept(released, control.move_id, command)
<1> DEFINE a == ApplyMotionCommand(r, control, command)
<1>1. control.move_id \in Nat
  BY Zenon DEF MotionControl
<1>2. s \in Robot /\ Awake(s)
  BY <1>1, ZenonT(60) DEF Robot, Awake
<1>3. \/ a = released
      \/ control.setpoint /\ control.move_id = 0 /\ a = held
      \/ a = accepted
  BY Zenon DEF ApplyMotionCommand
<1> HIDE DEF s
<1>4. released \in Robot /\ released.holding = FALSE
  BY <1>2, ReleaseVelocityTyped, ReleaseVelocityLeaves
<1>5. HeldUnder(held, command)
  BY <1>2, ApplyVelocityCommandHeld
<1> HIDE DEF released, held
<1>6. accepted.holding = FALSE
  BY <1>1, <1>4, AcceptInputs, Zenon DEF SameInputs
<1> HIDE DEF accepted, a
<1>7. /\ HeldUnder(a, command)
      /\ a.holding => control.setpoint /\ control.move_id = 0
  BY <1>3, <1>4, <1>5, <1>6, Zenon DEF HeldUnder
<1>8. QED
  BY <1>7 DEF a

\* One image, whatever the robot was doing.
LEMMA ApplyOutputAssemblyHeld ==
  ASSUME NEW r \in Robot, NEW image \in Image, NEW elapsed \in Nat
  PROVE  LET a == ApplyOutputAssembly(r, image, elapsed)
         IN /\ HeldUnder(a, image.command)
            /\ a.holding => image.motion.setpoint /\ image.motion.move_id = 0
<1> DEFINE x == Advance(r, elapsed)
<1> DEFINE y == ApplyRobotControl(x, image.robot)
<1> DEFINE z == ApplyMotionControl(y, image.motion)
<1>1. x \in Robot /\ Awake(x)
  BY AdvanceTyped, AdvanceAwake
<1>2. ApplyOutputAssembly(r, image, elapsed)
        = ApplyMotionCommand(z, image.motion, image.command)
  BY Zenon DEF ApplyOutputAssembly
<1> HIDE DEF x
<1>3. y \in Robot /\ Awake(y)
  BY <1>1, ImageParts, ApplyRobotControlTyped, ApplyRobotControlAwake
<1> HIDE DEF y
<1>4. z \in Robot /\ Awake(z)
  BY <1>3, ImageParts, ApplyMotionControlTyped, ApplyMotionControlAwake
<1> HIDE DEF z
<1>5. QED
  BY <1>2, <1>4, ImageParts, ApplyMotionCommandHeld

\* What a step leaves of a velocity.
LEMMA StepHeld ==
  ASSUME TypedAndSafe, [Next]_vars
  PROVE  /\ VelocityOnlyWhileHeld => VelocityOnlyWhileHeld'
         /\ frame' # frame /\ robot'.holding
              => \/ AsksForVelocity(frame', robot'.joint_velocity)
                 \/ robot'.state = "error"
<1>1. robot \in Robot
  BY TypeOKParts DEF TypedAndSafe
<1>2. CASE Apply
  <2>1. PICK image \in Images, elapsed \in ElapsedTimes :
          /\ robot' = ApplyOutputAssembly(robot, image, elapsed)
          /\ frame' = image
    BY <1>2 DEF Apply
  <2>2. image \in Image /\ elapsed \in Nat
    BY ConstantTypes
  <2> DEFINE a == ApplyOutputAssembly(robot, image, elapsed)
  <2>3. /\ HeldUnder(a, image.command)
        /\ a.holding => image.motion.setpoint /\ image.motion.move_id = 0
    BY <1>1, <2>2, ApplyOutputAssemblyHeld
  <2>4. robot' = a /\ frame' = image
    BY <2>1
  <2> HIDE DEF a
  <2>5. QED
    BY <2>3, <2>4, Zenon DEF HeldUnder, VelocityOnlyWhileHeld, AsksForVelocity
<1>3. ASSUME SameInputs(robot, robot'), frame' = frame
      PROVE  VelocityOnlyWhileHeld => VelocityOnlyWhileHeld'
  BY <1>3, Zenon DEF SameInputs, VelocityOnlyWhileHeld
<1>4. CASE Build
  <2>1. SameInputs(robot, robot') /\ frame' = frame
    BY <1>1, <1>4, ConstantTypes, AdvanceLeaves DEF Build
  <2>2. QED
    BY <1>3, <2>1
<1>5. CASE InjectError
  <2>1. SameInputs(robot, robot') /\ frame' = frame
    BY <1>1, <1>5, EnterErrorLeaves DEF InjectError
  <2>2. QED
    BY <1>3, <2>1
<1>6. CASE UNCHANGED vars
  BY <1>6, Zenon DEF vars, VelocityOnlyWhileHeld
<1>7. QED
  BY <1>2, <1>4, <1>5, <1>6 DEF Next

\* No setpoint, a move id, no command and every other declared command end a
\* velocity, in the error state too: a robot holds one only under an image that
\* holds MoveJointsVel or a command without a name.
THEOREM VelocityDeadMan == Spec => []VelocityOnlyWhileHeld
<1>1. Init => VelocityOnlyWhileHeld
  <2>1. InitialRobot.holding = FALSE
    BY Zenon DEF InitialRobot
  <2>2. QED
    BY <2>1, Zenon DEF Init, VelocityOnlyWhileHeld
<1>2. TypedAndSafe /\ VelocityOnlyWhileHeld /\ [Next]_vars => VelocityOnlyWhileHeld'
  BY StepHeld
<1>3. QED
  BY <1>1, <1>2, InitTypedAndSafe, NextTypedAndSafe, PTL DEF Spec

\* A new image that does not ask for the velocity held, and leaves it held,
\* leaves the robot in error.
THEOREM RefusalIsTold == Spec => VelocityKeptOnlyByRefusal
<1>1. TypedAndSafe /\ [Next]_vars
        => [frame' # frame /\ robot'.holding
              => \/ AsksForVelocity(frame', robot'.joint_velocity)
                 \/ robot'.state = "error"]_vars
  BY StepHeld, Zenon
<1>2. QED
  BY <1>1, InitTypedAndSafe, NextTypedAndSafe, PTL DEF Spec, VelocityKeptOnlyByRefusal

----------------------------------------------------------------------------
(* 7. Whatever refuses a command says why, and what takes a code back      *)
(* leaves the error state: every handler keeps a robot whose error is      *)
(* signalled by a code, whatever velocities are held.                      *)

Signalled(r) == r.state = "error" => r.error_code # "NONE"

LEMMA EnterErrorSignals ==
  ASSUME NEW r \in Robot, NEW code \in ErrorCodes \ {"NONE"}
  PROVE  Signalled(EnterError(r, code))
BY Zenon DEF EnterError, Robot, Signalled

\* The three codes the handlers give.
LEMMA RefusalSignals ==
  ASSUME NEW r \in Robot
  PROVE  /\ Signalled(EnterError(r, "UNKNOWN_MOTION_COMMAND"))
         /\ Signalled(EnterError(r, "MOVE_WITHOUT_HOMING"))
         /\ Signalled(EnterError(r, "MOVE_OUT_OF_RANGE"))
<1>1. {"UNKNOWN_MOTION_COMMAND", "MOVE_WITHOUT_HOMING", "MOVE_OUT_OF_RANGE"}
        \subseteq ErrorCodes \ {"NONE"}
  BY DEF ErrorCodes
<1>2. QED
  BY <1>1, EnterErrorSignals

LEMMA SettleSignals ==
  ASSUME NEW r \in Robot, Signalled(r) PROVE Signalled(Settle(r))
BY Zenon DEF Settle, Robot, Signalled

LEMMA ReleaseVelocitySignals ==
  ASSUME NEW r \in Robot, Signalled(r) PROVE Signalled(ReleaseVelocity(r))
<1> DEFINE d == [r EXCEPT !.holding = FALSE, !.joint_velocity = 0]
<1>1. d \in Robot /\ Signalled(d)
  BY DropTyped, Zenon DEF Robot, Signalled
<1>2. ReleaseVelocity(r) = IF r.holding THEN Settle(d) ELSE r
  BY Zenon DEF ReleaseVelocity
<1> HIDE DEF d
<1>3. QED
  BY <1>1, <1>2, SettleSignals, Zenon

LEMMA AdvanceSignals ==
  ASSUME NEW r \in Robot, Signalled(r), NEW elapsed \in Nat
  PROVE  Signalled(Advance(r, elapsed))
<1> DEFINE s == Remaining(r.state_left, elapsed)
<1> DEFINE m == IF Frozen(r) THEN r.move_left ELSE Remaining(r.move_left, elapsed)
<1> DEFINE t == [r EXCEPT !.state_left = s, !.move_left = m]
<1>1. s \in Nat /\ m \in Nat
  <2>1. r.state_left \in Nat /\ r.move_left \in Nat
    BY Zenon DEF Robot
  <2>2. QED
    BY <2>1, RemainingTyped, Zenon
<1>2. Advance(r, elapsed) \in
        {Complete(t), Integrate(t, elapsed), Track(t), t}
  BY Zenon DEF Advance
<1> HIDE DEF s, m
<1>3. t \in Robot /\ Signalled(t)
  BY <1>1, Zenon DEF Robot, Signalled
<1> HIDE DEF t
<1>4. Signalled(Complete(t))
  BY <1>3, Zenon DEF Complete, Robot, Signalled
<1>5. Signalled(Integrate(t, elapsed))
  <2> DEFINE j == Clamp(t.joints + t.joint_velocity * elapsed)
  <2> DEFINE moving == IF t.joint_velocity # 0 THEN "moving" ELSE "idle"
  <2>1. \/ Integrate(t, elapsed) = [t EXCEPT !.state = "idle"]
        \/ Integrate(t, elapsed) = [t EXCEPT !.joints = j, !.state = moving]
    BY Zenon DEF Integrate
  <2>2. moving # "error"
    BY Zenon
  <2> HIDE DEF j, moving
  <2>3. QED
    BY <1>3, <2>1, <2>2, Zenon DEF Robot, Signalled
<1>6. Signalled(Track(t))
  BY <1>3, Zenon DEF Track, Robot, Signalled
<1>7. QED
  BY <1>2, <1>3, <1>4, <1>5, <1>6, Zenon

LEMMA ApplyRobotControlSignals ==
  ASSUME NEW r \in Robot, Signalled(r), NEW control \in RobotControl
  PROVE  Signalled(ApplyRobotControl(r, control))
<1> DEFINE m == ApplyModes(r, control)
<1>1. m \in Robot /\ Signalled(m)
  BY Zenon DEF ApplyModes, Robot, RobotControl, Signalled
<1>2. ApplyRobotControl(r, control) \in {Reset(r), r, ApplyPower(m, control)}
  BY Zenon DEF ApplyRobotControl
<1> HIDE DEF m
<1>3. Signalled(Reset(r))
  BY Zenon DEF Reset, Robot, Signalled
<1>4. Signalled(ApplyPower(m, control))
  BY <1>1, Zenon DEF ApplyPower, Robot, Signalled
<1>5. QED
  BY <1>2, <1>3, <1>4, Zenon

LEMMA ApplyMotionControlSignals ==
  ASSUME NEW r \in Robot, Signalled(r), NEW control \in MotionControl
  PROVE  Signalled(ApplyMotionControl(r, control))
<1> DEFINE q == [r EXCEPT !.paused = @ \/ control.pause]
<1> DEFINE s == IF control.clear_move THEN ClearMove(r) ELSE q
<1> DEFINE settled == Settle(ReleaseVelocity(r))
<1> DEFINE rising == control.resume_motion /\ ~r.previous_resume_motion
<1> DEFINE p == s.paused /\ ~rising
<1> DEFINE c == s.cleared /\ ~rising
<1>1. q \in Robot /\ Signalled(q)
  BY Zenon DEF Robot, MotionControl, Signalled
<1>2. settled \in Robot /\ Signalled(settled)
  BY ReleaseVelocityTyped, ReleaseVelocitySignals, SettleTyped, SettleSignals
<1>3. ClearMove(r) = [settled EXCEPT !.cleared = TRUE, !.paused = TRUE,
                                     !.offline_program_id = 0]
  BY Zenon DEF ClearMove
<1>4. ApplyMotionControl(r, control) =
        [s EXCEPT !.paused = p, !.cleared = c,
                  !.previous_resume_motion = control.resume_motion]
  BY Zenon DEF ApplyMotionControl
<1> HIDE DEF q, settled
<1>5. ClearMove(r) \in Robot /\ Signalled(ClearMove(r))
  BY <1>2, <1>3, ClearMoveTyped, Zenon DEF Robot, Signalled
<1>6. s \in Robot /\ Signalled(s)
  BY <1>1, <1>5, Zenon
<1> HIDE DEF s, p, c
<1>7. QED
  BY <1>4, <1>6, Zenon DEF Robot, Signalled

LEMMA ApplyVelocityCommandSignals ==
  ASSUME NEW r \in Robot, Signalled(r), NEW command \in MotionCommand
  PROVE  Signalled(ApplyVelocityCommand(r, command))
<1> DEFINE taken == [r EXCEPT !.holding = TRUE, !.joint_velocity = command.argument]
<1> DEFINE dropped == [r EXCEPT !.holding = FALSE, !.joint_velocity = 0]
<1>1. ApplyVelocityCommand(r, command) \in
        {ReleaseVelocity(r), r, EnterError(r, "UNKNOWN_MOTION_COMMAND"),
         EnterError(r, "MOVE_WITHOUT_HOMING"), taken, dropped}
  BY Zenon DEF ApplyVelocityCommand
<1>2. Signalled(taken) /\ Signalled(dropped)
  BY Zenon DEF Robot, Signalled
<1> HIDE DEF taken, dropped
<1>3. QED
  BY <1>1, <1>2, ReleaseVelocitySignals, RefusalSignals, Zenon

LEMMA ExecuteSignals ==
  ASSUME NEW r \in Robot, Signalled(r), NEW command \in MotionCommand
  PROVE  Signalled(Execute(r, command))
<1> DEFINE c == command.argument % 65536
<1> DEFINE program == [r EXCEPT !.offline_program_id = command.argument]
<1> DEFINE checkpoint == [r EXCEPT !.reached_checkpoint = c]
<1>1. \/ Execute(r, command) = program
      \/ Execute(r, command) = checkpoint
      \/ Execute(r, command) = StartHold(r, command)
      \/ Execute(r, command) = StartMove(r, command)
      \/ Execute(r, command) = EnterError(r, "MOVE_OUT_OF_RANGE")
      \/ Execute(r, command) = r
  BY ExecuteOutcomes
<1> HIDE DEF c
<1>2. Signalled(program) /\ Signalled(checkpoint)
  BY Zenon DEF Robot, Signalled
<1>3. ASSUME NEW target, NEW duration
      PROVE  Signalled(StartMotion(r, target, duration))
  BY Zenon DEF StartMotion, Robot, Signalled
<1>4. Signalled(StartHold(r, command))
  BY <1>3, Zenon DEF StartHold
<1>5. Signalled(StartMove(r, command))
  BY <1>3, RefusalSignals, Zenon DEF StartMove
<1> HIDE DEF program, checkpoint
<1>6. QED
  BY <1>1, <1>2, <1>4, <1>5, RefusalSignals, Zenon

LEMMA ApplyMotionCommandSignals ==
  ASSUME NEW r \in Robot, Signalled(r), NEW control \in MotionControl,
         NEW command \in MotionCommand
  PROVE  Signalled(ApplyMotionCommand(r, control, command))
<1> DEFINE s == [r EXCEPT !.previous_move_id = control.move_id]
<1> DEFINE released == ReleaseVelocity(s)
<1> DEFINE accepted == [released EXCEPT !.received_move_id = control.move_id]
<1>1. control.move_id \in Nat
  BY Zenon DEF MotionControl
<1>2. s \in Robot /\ Signalled(s)
  BY <1>1, Zenon DEF Robot, Signalled
<1>3. \/ ApplyMotionCommand(r, control, command) = released
      \/ ApplyMotionCommand(r, control, command) = ApplyVelocityCommand(s, command)
      \/ ApplyMotionCommand(r, control, command)
           = Accept(released, control.move_id, command)
  BY Zenon DEF ApplyMotionCommand
<1>4. Accept(released, control.move_id, command) \in
        {accepted, EnterError(accepted, "UNKNOWN_MOTION_COMMAND"),
         EnterError(accepted, "MOVE_WITHOUT_HOMING"), Execute(accepted, command)}
  BY Zenon DEF Accept
<1> HIDE DEF s
<1>5. released \in Robot /\ Signalled(released)
  BY <1>2, ReleaseVelocityTyped, ReleaseVelocitySignals
<1> HIDE DEF released
<1>6. accepted \in Robot /\ Signalled(accepted)
  BY <1>1, <1>5, Zenon DEF Robot, Signalled
<1> HIDE DEF accepted
<1>7. Signalled(Accept(released, control.move_id, command))
  BY <1>4, <1>6, RefusalSignals, ExecuteSignals, Zenon
<1>8. Signalled(ApplyVelocityCommand(s, command))
  BY <1>2, ApplyVelocityCommandSignals
<1>9. QED
  BY <1>3, <1>5, <1>7, <1>8, Zenon

LEMMA ApplyOutputAssemblySignals ==
  ASSUME NEW r \in Robot, Signalled(r), NEW image \in Image, NEW elapsed \in Nat
  PROVE  Signalled(ApplyOutputAssembly(r, image, elapsed))
<1> DEFINE x == Advance(r, elapsed)
<1> DEFINE y == ApplyRobotControl(x, image.robot)
<1> DEFINE z == ApplyMotionControl(y, image.motion)
<1>1. x \in Robot /\ Signalled(x)
  BY AdvanceTyped, AdvanceSignals
<1>2. ApplyOutputAssembly(r, image, elapsed)
        = ApplyMotionCommand(z, image.motion, image.command)
  BY Zenon DEF ApplyOutputAssembly
<1> HIDE DEF x
<1>3. y \in Robot /\ Signalled(y)
  BY <1>1, ImageParts, ApplyRobotControlTyped, ApplyRobotControlSignals
<1> HIDE DEF y
<1>4. z \in Robot /\ Signalled(z)
  BY <1>3, ImageParts, ApplyMotionControlTyped, ApplyMotionControlSignals
<1> HIDE DEF z
<1>5. QED
  BY <1>2, <1>4, ImageParts, ApplyMotionCommandSignals

\* No image takes a robot into an error state without a code: only an injection
\* does, the one step this leaves out.
THEOREM ImagesSignalTheirErrors == Spec => ErrorsOfImagesSignalled
<1>1. ASSUME TypedAndSafe, [Next]_vars, frame' # frame, ErrorStateSignalled
      PROVE  ErrorStateSignalled'
  <2>1. robot \in Robot /\ Signalled(robot)
    BY <1>1, TypeOKParts DEF TypedAndSafe, ErrorStateSignalled, Signalled
  <2>2. Apply
    BY <1>1 DEF Next, Build, InjectError, vars
  <2>3. PICK image \in Images, elapsed \in ElapsedTimes :
          robot' = ApplyOutputAssembly(robot, image, elapsed)
    BY <2>2 DEF Apply
  <2>4. image \in Image /\ elapsed \in Nat
    BY ConstantTypes
  <2>5. Signalled(robot')
    BY <2>1, <2>3, <2>4, ApplyOutputAssemblySignals
  <2>6. QED
    BY <2>5 DEF Signalled, ErrorStateSignalled
<1>2. TypedAndSafe /\ [Next]_vars
        => [frame' # frame /\ ErrorStateSignalled => ErrorStateSignalled']_vars
  BY <1>1, Zenon
<1>3. QED
  BY <1>2, InitTypedAndSafe, NextTypedAndSafe, PTL DEF Spec, ErrorsOfImagesSignalled

=============================================================================
