--------------------------- MODULE ExchangeProofs ---------------------------
(***************************************************************************)
(* Theorems about the facade and the mock robot over a Class 1 connection. *)
(*                                                                         *)
(* Section 1 proves the types. Section 2 proves that the robot behind the  *)
(* connection is the robot of the module Simulator, so that what is proved *)
(* there holds here. Section 3 proves what the numbering of the motion     *)
(* commands is for. The others are about what the blocking calls promise   *)
(* when they return: the robot did what was asked, whichever frames were   *)
(* lost, repeated or overtaken by the next image on the way. Section 4     *)
(* proves what one image does to the power, the pause and the motion of    *)
(* the robot, section 5 is about WaitIdle, section 6 about ActivateRobot,  *)
(* DeactivateRobot and Home, section 7 about PauseMotion and ResumeMotion. *)
(***************************************************************************)
EXTENDS CyclicExchange, SimulatorProofs

----------------------------------------------------------------------------
(* 1. Types.                                                               *)

LEMMA Ranges ==
  /\ MaxMoveId \in Nat /\ 1 <= MaxMoveId
  /\ FirstMoveId \in MoveIds
  /\ LastMoveId \in Nat /\ 1 <= LastMoveId /\ LastMoveId <= MaxMoveId
  /\ \A id : id \in MoveIds <=> id \in Nat /\ id <= MaxMoveId
  /\ 0 \in MoveIds
<1>1. MaxMoveId \in Nat /\ 1 <= MaxMoveId
  BY DEF MaxMoveId
<1>2. FirstMoveId \in MoveIds
  BY ExchangeAssumption, Zenon DEF MoveIds
<1>3. LastMoveId \in 1 .. MaxMoveId
  BY FacadeAssumption, Zenon
<1>4. LastMoveId \in Nat /\ 1 <= LastMoveId /\ LastMoveId <= MaxMoveId
  BY <1>1, <1>3
<1>5. \A id : id \in MoveIds <=> id \in Nat /\ id <= MaxMoveId
  BY <1>1 DEF MoveIds
<1>6. 0 \in MoveIds
  BY <1>1 DEF MoveIds
<1>7. QED
  BY <1>1, <1>2, <1>4, <1>5, <1>6

LEMMA ZeroImageTyped == ZeroImage \in Image /\ ZeroImage.motion.move_id = 0
BY DEF ZeroImage, Image, RobotControl, MotionControl, MotionCommand, CommandNames

LEMMA InitialRobotTyped ==
  /\ InitialRobot \in Robot /\ InLimits(InitialRobot) /\ Safe(InitialRobot)
  /\ InitialRobot.received_move_id = 0
BY SimulatorAssumption DEF InitialRobot, Robot, States, ErrorCodes, InLimits,
                           Safe, Checkpoints

\* An image is well formed, and its move id is in the range.
ImageOK(image) == image \in Image /\ image.motion.move_id \in MoveIds

LEMMA ZeroImageOK == ImageOK(ZeroImage)
BY ZeroImageTyped, Ranges DEF ImageOK

\* What the facade does to an image.
LEMMA ControlWritten ==
  ASSUME NEW image, ImageOK(image), NEW a \in BOOLEAN, NEW b \in BOOLEAN, NEW c \in BOOLEAN
  PROVE  /\ ImageOK([image EXCEPT !.robot.activate = a])
         /\ ImageOK([image EXCEPT !.robot.activate = a, !.robot.deactivate = b])
         /\ ImageOK([image EXCEPT !.robot.deactivate = a, !.robot.activate = b,
                                  !.robot.home = c])
         /\ ImageOK([image EXCEPT !.robot.deactivate = a])
         /\ ImageOK([image EXCEPT !.robot.home = a])
         /\ ImageOK([image EXCEPT !.robot.reset_error = a])
BY Zenon DEF ImageOK, Image, RobotControl

LEMMA MotionWritten ==
  ASSUME NEW image, ImageOK(image), NEW a \in BOOLEAN, NEW b \in BOOLEAN, NEW c \in BOOLEAN
  PROVE  /\ ImageOK([image EXCEPT !.motion.pause = a])
         /\ ImageOK([image EXCEPT !.motion.pause = a, !.motion.clear_move = b,
                                  !.motion.resume_motion = c])
         /\ ImageOK([image EXCEPT !.motion.resume_motion = a])
         /\ ImageOK([image EXCEPT !.motion.clear_move = a])
BY Zenon DEF ImageOK, Image, MotionControl

LEMMA CommandWritten ==
  ASSUME NEW image, ImageOK(image), NEW command \in MotionCommand,
         NEW setpoint \in BOOLEAN, NEW id \in MoveIds
  PROVE  LET written == [image EXCEPT !.command = command, !.motion.setpoint = setpoint,
                                      !.motion.move_id = id]
         IN ImageOK(written) /\ written.motion.move_id = id
<1>1. id \in Nat
  BY Ranges
<1>2. QED
  BY <1>1, Zenon DEF ImageOK, Image, MotionControl

LEMMA CallTyped ==
  ASSUME NEW method \in Methods, NEW stage \in Stages, NEW outcome \in Outcomes
  PROVE  [method |-> method, stage |-> stage, outcome |-> outcome] \in Call
BY Zenon DEF Call

LEMMA CallMoved ==
  ASSUME NEW c \in Call, NEW stage \in Stages, NEW outcome \in Outcomes
  PROVE  /\ [c EXCEPT !.stage = stage] \in Call
         /\ [c EXCEPT !.stage = stage, !.outcome = outcome] \in Call
         /\ [c EXCEPT !.stage = stage].method = c.method
         /\ [c EXCEPT !.stage = stage, !.outcome = outcome].method = c.method
         /\ [c EXCEPT !.stage = stage].stage = stage
         /\ [c EXCEPT !.stage = stage, !.outcome = outcome].stage = stage
         /\ [c EXCEPT !.stage = stage, !.outcome = outcome].outcome = outcome
BY Zenon DEF Call

LEMMA Names ==
  /\ Calls \subseteq Methods
  /\ {"raising", "waiting", "releasing", "closing", "done"} \subseteq Stages
  /\ {"pending", "returned", "robot_error", "timeout"} \subseteq Outcomes
BY FacadeAssumption, Zenon DEF Stages, Outcomes

\* What the robot publishes.
LEMMA NoInputTyped == NoInput \in InputImage
BY Ranges, Zenon DEF NoInput, InputImage

LEMMA ViewTyped ==
  ASSUME NEW r \in Robot, r.received_move_id \in MoveIds
  PROVE  View(r) \in InputImage
<1>1. Status(r) \in [activated : BOOLEAN, busy : BOOLEAN, homed : BOOLEAN, error : BOOLEAN]
  BY DEF Status, Activated
<1>2. r.paused \in BOOLEAN /\ r.cleared \in BOOLEAN
  BY Zenon DEF Robot
<1>3. MotionStatus(r) \in
        [paused : BOOLEAN, cleared : BOOLEAN, end_of_block : BOOLEAN, move_id : MoveIds]
  BY <1>2, Zenon DEF MotionStatus
<1>4. QED
  BY <1>1, <1>3, Zenon DEF View, InputImage

\* The state of the facade.
FacadeOK ==
  /\ ImageOK(output)
  /\ move_id \in MoveIds
  /\ call \in Call
  /\ input \in InputImage
  /\ connected \in BOOLEAN

\* The number after an id.
LEMMA Following ==
  ASSUME NEW id \in MoveIds
  PROVE  /\ (id % MaxMoveId) + 1 \in MoveIds
         /\ (id % MaxMoveId) + 1 = IF id = MaxMoveId THEN 1 ELSE id + 1
<1>1. id \in Nat /\ id <= MaxMoveId /\ MaxMoveId \in Nat /\ 1 <= MaxMoveId
  BY Ranges
<1>2. id = MaxMoveId => id % MaxMoveId = 0
  BY <1>1
<1>3. id < MaxMoveId => id % MaxMoveId = id
  BY <1>1
<1>4. (id % MaxMoveId) + 1 = IF id = MaxMoveId THEN 1 ELSE id + 1
  BY <1>1, <1>2, <1>3
<1>5. (id % MaxMoveId) + 1 \in Nat /\ (id % MaxMoveId) + 1 <= MaxMoveId
  BY <1>1, <1>4
<1>6. QED
  BY <1>4, <1>5, Ranges

LEMMA CallWritten ==
  ASSUME NEW method \in Methods, NEW stage \in Stages,
         Goes(method, stage) \/ Returns(method)
  PROVE  call' \in Call
<1>1. "pending" \in Outcomes /\ "returned" \in Outcomes /\ "done" \in Stages
  BY Names
<1>2. QED
  BY <1>1, CallTyped, Zenon DEF Goes, Returns

\* A command of the application is numbered and written.
LEMMA CommandSteps ==
  ASSUME FacadeOK,
         \/ \E command \in Queued : SendMotionCommand(command)
         \/ \E command \in Held : StartVelocityCommand(command)
         \/ StopVelocityCommand
  PROVE  FacadeOK'
<1>1. /\ "SendMotionCommand" \in Methods /\ "StartVelocityCommand" \in Methods
      /\ "StopVelocityCommand" \in Methods /\ "done" \in Stages
  BY Names, Zenon DEF Methods
<1>2. /\ Queued \subseteq MotionCommand /\ Held \subseteq MotionCommand
      /\ ZeroImage.command \in MotionCommand
  BY FacadeAssumption, ZeroImageTyped, Zenon DEF Image
<1>3. ASSUME NEW command \in Queued, SendMotionCommand(command)
      PROVE  FacadeOK'
  <2> DEFINE id == (move_id % MaxMoveId) + 1
  <2>1. id \in MoveIds
    BY Following DEF FacadeOK
  <2>2. /\ move_id' = id
        /\ output' = [output EXCEPT !.command = command, !.motion.setpoint = TRUE,
                                    !.motion.move_id = move_id']
    BY <1>3, Zenon DEF SendMotionCommand
  <2> HIDE DEF id
  <2>3. output' = [output EXCEPT !.command = command, !.motion.setpoint = TRUE,
                                 !.motion.move_id = id]
    BY <2>2, Zenon
  <2>4. ImageOK(output)'
    BY <1>2, <2>1, <2>3, CommandWritten, Zenon DEF FacadeOK, ImageOK
  <2>5. call' \in Call
    BY <1>1, <1>3, CallWritten, Zenon DEF SendMotionCommand
  <2>6. input' = input /\ connected' = connected
    BY <1>3, Zenon DEF SendMotionCommand
  <2>7. QED
    BY <2>1, <2>2, <2>4, <2>5, <2>6, Zenon DEF FacadeOK
<1>4. ASSUME NEW command \in Held, StartVelocityCommand(command)
      PROVE  FacadeOK'
  <2>1. output' = [output EXCEPT !.command = command, !.motion.setpoint = TRUE,
                                 !.motion.move_id = 0]
    BY <1>4, Zenon DEF StartVelocityCommand
  <2>2. ImageOK(output)'
    BY <1>2, <2>1, CommandWritten, Ranges, Zenon DEF FacadeOK, ImageOK
  <2>3. call' \in Call
    BY <1>1, <1>4, CallWritten, Zenon DEF StartVelocityCommand
  <2>4. move_id' = move_id /\ input' = input /\ connected' = connected
    BY <1>4, Zenon DEF StartVelocityCommand
  <2>5. QED
    BY <2>2, <2>3, <2>4, Zenon DEF FacadeOK
<1>5. CASE StopVelocityCommand
  <2>1. output' = [output EXCEPT !.command = ZeroImage.command, !.motion.setpoint = FALSE,
                                 !.motion.move_id = 0]
    BY <1>5, Zenon DEF StopVelocityCommand
  <2>2. ImageOK(output)'
    BY <1>2, <2>1, CommandWritten, Ranges, Zenon DEF FacadeOK, ImageOK
  <2>3. call' \in Call
    BY <1>1, <1>5, CallWritten, Zenon DEF StopVelocityCommand
  <2>4. move_id' = move_id /\ input' = input /\ connected' = connected
    BY <1>5, Zenon DEF StopVelocityCommand
  <2>5. QED
    BY <2>2, <2>3, <2>4, Zenon DEF FacadeOK
<1>6. QED
  BY <1>3, <1>4, <1>5

\* A call that changes the state of the robot, or its motion, is begun.
LEMMA BeginningSteps ==
  ASSUME FacadeOK,
         \/ ActivateRobot \/ DeactivateRobot \/ Home \/ ResetError
         \/ PauseMotion \/ ResumeMotion \/ ClearMotion \/ WaitIdle
  PROVE  FacadeOK'
<1>1. ImageOK(output) /\ TRUE \in BOOLEAN /\ FALSE \in BOOLEAN
  BY Zenon DEF FacadeOK
<1>2. /\ {"ActivateRobot", "DeactivateRobot", "Home", "ResetError", "PauseMotion",
          "ResumeMotion", "ClearMotion", "WaitIdle"} \subseteq Methods
      /\ "waiting" \in Stages /\ "raising" \in Stages
  BY Names, Zenon DEF Methods
<1>3. ImageOK(output)'
  <2>1. \/ output' = output
        \/ output' = [output EXCEPT !.robot.activate = TRUE, !.robot.deactivate = FALSE]
        \/ output' = [output EXCEPT !.robot.deactivate = TRUE, !.robot.activate = FALSE,
                                    !.robot.home = FALSE]
        \/ output' = [output EXCEPT !.robot.home = TRUE]
        \/ output' = [output EXCEPT !.robot.reset_error = TRUE]
        \/ output' = [output EXCEPT !.motion.pause = TRUE]
        \/ output' = [output EXCEPT !.motion.pause = FALSE, !.motion.clear_move = FALSE,
                                    !.motion.resume_motion = FALSE]
        \/ output' = [output EXCEPT !.motion.clear_move = TRUE]
    BY Zenon DEF ActivateRobot, DeactivateRobot, Home, ResetError, PauseMotion,
                 ResumeMotion, ClearMotion, WaitIdle
  <2>2. ImageOK(output')
    BY <1>1, <2>1, ControlWritten, MotionWritten, ZenonT(60)
  <2>3. QED
    BY <2>2, Zenon DEF ImageOK
<1>4. call' \in Call
  BY <1>2, CallWritten, Zenon DEF ActivateRobot, DeactivateRobot, Home, ResetError,
       PauseMotion, ResumeMotion, ClearMotion, WaitIdle
<1>5. move_id' = move_id /\ input' = input /\ connected' = connected
  BY Zenon DEF ActivateRobot, DeactivateRobot, Home, ResetError,
       PauseMotion, ResumeMotion, ClearMotion, WaitIdle
<1>6. QED
  BY <1>3, <1>4, <1>5, Zenon DEF FacadeOK

\* A call goes on, and ends.
LEMMA ProceedSteps == ASSUME FacadeOK, Proceed PROVE FacadeOK'
<1>1. ImageOK(output) /\ TRUE \in BOOLEAN /\ FALSE \in BOOLEAN /\ call \in Call
  BY Zenon DEF FacadeOK
<1>2. "ResumeMotion" \in Methods
  BY Zenon DEF Methods
<1>3. CASE Poll
  <2>1. PICK outcome \in {"returned", "robot_error", "timeout"} :
          call' = [call EXCEPT
            !.stage = IF \/ call.method \in Pulsed
                         \/ call.method \in Connects /\ outcome = "returned"
                      THEN "releasing" ELSE "done",
            !.outcome = outcome]
    BY <1>3, Zenon DEF Poll
  <2>2. outcome \in Outcomes
    BY Names
  <2>3. (IF \/ call.method \in Pulsed
            \/ call.method \in Connects /\ outcome = "returned"
         THEN "releasing" ELSE "done") \in Stages
    BY Names, Zenon
  <2>4. call' \in Call
    BY <1>1, <2>1, <2>2, <2>3, CallMoved, Zenon
  <2>5. output' = output /\ move_id' = move_id /\ input' = input /\ connected' = connected
    BY <1>3, Zenon DEF Poll
  <2>6. QED
    BY <2>4, <2>5, Zenon DEF FacadeOK, ImageOK
<1>4. CASE Release
  <2>1. call' = [call EXCEPT !.stage = "done"]
    BY <1>4, Zenon DEF Release
  <2>2. call' \in Call
    BY <1>1, <2>1, CallMoved, Names, Zenon DEF Outcomes
  <2>3. \/ output' = [output EXCEPT !.robot.deactivate = FALSE]
        \/ output' = [output EXCEPT !.robot.home = FALSE]
        \/ output' = [output EXCEPT !.robot.reset_error = FALSE]
        \/ output' = [output EXCEPT !.motion.resume_motion = FALSE]
        \/ output' = [output EXCEPT !.motion.clear_move = FALSE]
    BY <1>4, Zenon DEF Release, Pulsed
  <2>4. ImageOK(output')
    BY <1>1, <2>3, ControlWritten, MotionWritten, Zenon
  <2>5. move_id' = move_id /\ input' = input /\ connected' = connected
    BY <1>4, Zenon DEF Release
  <2>6. QED
    BY <2>2, <2>4, <2>5, Zenon DEF FacadeOK, ImageOK
<1>5. CASE RaiseResume
  <2>1. call' \in Call
    BY <1>2, <1>5, CallWritten, Names, Zenon DEF RaiseResume, Stages
  <2>2. output' = [output EXCEPT !.motion.resume_motion = TRUE]
    BY <1>5, Zenon DEF RaiseResume
  <2>3. ImageOK(output')
    BY <1>1, <2>2, MotionWritten, Zenon
  <2>4. move_id' = move_id /\ input' = input /\ connected' = connected
    BY <1>5, Zenon DEF RaiseResume
  <2>5. QED
    BY <2>1, <2>3, <2>4, Zenon DEF FacadeOK, ImageOK
<1>6. CASE ResumeNumbering
  <2>1. call' = [call EXCEPT !.stage = "done", !.outcome = "returned"]
    BY <1>6, Zenon DEF ResumeNumbering
  <2>2. call' \in Call
    BY <1>1, <2>1, CallMoved, Zenon DEF Stages, Outcomes
  <2>3. move_id' = input.motion.move_id
    BY <1>6, Zenon DEF ResumeNumbering
  <2>4. input.motion.move_id \in MoveIds
    BY Zenon DEF FacadeOK, InputImage
  <2>5. output' = output /\ input' = input /\ connected' = connected
    BY <1>6, Zenon DEF ResumeNumbering
  <2>6. QED
    BY <2>2, <2>3, <2>4, <2>5, Zenon DEF FacadeOK, ImageOK
<1>7. QED
  BY <1>3, <1>4, <1>5, <1>6 DEF Proceed

\* A connection opens and closes.
LEMMA ConnectionSteps ==
  ASSUME FacadeOK,
         (\E method \in Calls : Connect(method)) \/ Disconnect \/ CloseTransport
  PROVE  FacadeOK'
<1>1. call \in Call /\ ImageOK(ZeroImage) /\ ImageOK(output)
  BY ZeroImageOK, Zenon DEF FacadeOK
<1>2. ASSUME NEW method \in Calls, Connect(method) PROVE FacadeOK'
  <2>1. method \in Methods
    BY Names
  <2>2. (IF method = "ConnectAtOnce" THEN "releasing" ELSE "waiting") \in Stages
    BY Names, Zenon
  <2>3. call' \in Call
    BY <1>2, <2>1, <2>2, CallWritten, Zenon DEF Connect
  <2>4. input' \in InputImage
    BY <1>2, NoInputTyped, Zenon DEF Connect, FacadeOK
  <2>5. output' = ZeroImage /\ move_id' = move_id /\ connected' = TRUE
    BY <1>2, Zenon DEF Connect
  <2>6. QED
    BY <1>1, <2>3, <2>4, <2>5, Zenon DEF FacadeOK, ImageOK
<1>3. CASE Disconnect
  <2>1. call' \in Call
    BY <1>3, CallWritten, Zenon DEF Disconnect, Methods, Stages
  <2>2. output' = ZeroImage /\ UNCHANGED <<move_id, input, connected>>
    BY <1>3, Zenon DEF Disconnect
  <2>3. QED
    BY <1>1, <2>1, <2>2, Zenon DEF FacadeOK, ImageOK
<1>4. CASE CloseTransport
  <2>1. call' = [call EXCEPT !.stage = "done", !.outcome = "returned"]
    BY <1>4, Zenon DEF CloseTransport
  <2>2. call' \in Call
    BY <1>1, <2>1, CallMoved, Zenon DEF Stages, Outcomes
  <2>3. connected' = FALSE /\ UNCHANGED <<output, move_id, input>>
    BY <1>4, Zenon DEF CloseTransport
  <2>4. QED
    BY <1>1, <2>2, <2>3, Zenon DEF FacadeOK, ImageOK
<1>5. QED
  BY <1>2, <1>3, <1>4

LEMMA StartSteps == ASSUME FacadeOK, Start PROVE FacadeOK'
BY CommandSteps, BeginningSteps, ConnectionSteps DEF Start

\* The robot acknowledges the move id of a command that it takes, and no other.
LEMMA AcceptReceives ==
  ASSUME NEW r \in Robot, NEW id \in Nat, NEW command \in MotionCommand
  PROVE  Accept(r, id, command).received_move_id = id
<1> DEFINE a == [r EXCEPT !.received_move_id = id]
<1> DEFINE c == command.argument % 65536
<1> DEFINE program == [a EXCEPT !.offline_program_id = command.argument]
<1> DEFINE checkpoint == [a EXCEPT !.reached_checkpoint = c]
<1>1. a \in Robot /\ a.received_move_id = id
  BY Zenon DEF Robot
<1>2. \/ Accept(r, id, command) = a
      \/ Accept(r, id, command) = EnterError(a, "UNKNOWN_MOTION_COMMAND")
      \/ Accept(r, id, command) = EnterError(a, "MOVE_WITHOUT_HOMING")
      \/ Accept(r, id, command) = Execute(a, command)
  BY Zenon DEF Accept
<1> HIDE DEF a
<1>3. \/ Execute(a, command) = program
      \/ Execute(a, command) = checkpoint
      \/ Execute(a, command) = StartHold(a, command)
      \/ Execute(a, command) = StartMove(a, command)
      \/ Execute(a, command) = EnterError(a, "MOVE_OUT_OF_RANGE")
      \/ Execute(a, command) = a
  BY ExecuteOutcomes
<1> HIDE DEF c
<1>4. program.received_move_id = id /\ checkpoint.received_move_id = id
  BY <1>1, Zenon DEF Robot
<1> HIDE DEF program, checkpoint
<1>5. ASSUME NEW target, NEW duration
      PROVE  StartMotion(a, target, duration).received_move_id = id
  BY <1>1, Zenon DEF StartMotion, Robot
<1>6. ASSUME NEW code PROVE EnterError(a, code).received_move_id = id
  BY <1>1, Zenon DEF EnterError, Robot
<1>7. StartHold(a, command).received_move_id = id
  BY <1>5, Zenon DEF StartHold
<1>8. StartMove(a, command).received_move_id = id
  BY <1>5, <1>6, Zenon DEF StartMove
<1>9. QED
  BY <1>1, <1>2, <1>3, <1>4, <1>6, <1>7, <1>8, Zenon

LEMMA ApplyVelocityCommandReceives ==
  ASSUME NEW r \in Robot, NEW command
  PROVE  ApplyVelocityCommand(r, command).received_move_id = r.received_move_id
<1> DEFINE held == [r EXCEPT !.holding = TRUE, !.joint_velocity = command.argument]
<1> DEFINE dropped == [r EXCEPT !.holding = FALSE, !.joint_velocity = 0]
<1>1. /\ held.received_move_id = r.received_move_id
      /\ dropped.received_move_id = r.received_move_id
  BY Zenon DEF Robot
<1>2. \/ ApplyVelocityCommand(r, command) = ReleaseVelocity(r)
      \/ ApplyVelocityCommand(r, command) = r
      \/ \E code : ApplyVelocityCommand(r, command) = EnterError(r, code)
      \/ ApplyVelocityCommand(r, command) = held
      \/ ApplyVelocityCommand(r, command) = dropped
  BY Zenon DEF ApplyVelocityCommand
<1>3. \A code : EnterError(r, code).received_move_id = r.received_move_id
  BY EnterErrorLeaves, Zenon DEF SameMove
<1>4. ReleaseVelocity(r).received_move_id = r.received_move_id
  BY ReleaseVelocityLeaves, Zenon DEF SameMove
<1>5. QED
  BY <1>1, <1>2, <1>3, <1>4, Zenon

LEMMA ApplyMotionCommandReceives ==
  ASSUME NEW r \in Robot, NEW control \in MotionControl, NEW command \in MotionCommand
  PROVE  LET a == ApplyMotionCommand(r, control, command)
         IN \/ a.received_move_id = r.received_move_id
            \/ control.move_id # 0 /\ a.received_move_id = control.move_id
<1> DEFINE s == [r EXCEPT !.previous_move_id = control.move_id]
<1> DEFINE released == ReleaseVelocity(s)
<1> DEFINE held == ApplyVelocityCommand(s, command)
<1> DEFINE accepted == Accept(released, control.move_id, command)
<1> DEFINE a == ApplyMotionCommand(r, control, command)
<1>1. control.move_id \in Nat
  BY Zenon DEF MotionControl
<1>2. s \in Robot /\ s.received_move_id = r.received_move_id
  BY <1>1, Zenon DEF Robot
<1>3. \/ a = released
      \/ a = held
      \/ control.move_id # 0 /\ a = accepted
  BY Zenon DEF ApplyMotionCommand
<1> HIDE DEF s
<1>4. released \in Robot /\ released.received_move_id = r.received_move_id
  BY <1>2, ReleaseVelocityTyped, ReleaseVelocityLeaves, Zenon DEF SameMove
<1>5. held.received_move_id = r.received_move_id
  BY <1>2, ApplyVelocityCommandReceives
<1> HIDE DEF released, held
<1>6. accepted.received_move_id = control.move_id
  BY <1>1, <1>4, AcceptReceives
<1> HIDE DEF accepted, a
<1>7. QED
  BY <1>3, <1>4, <1>5, <1>6, Zenon DEF a

LEMMA ApplyOutputAssemblyReceives ==
  ASSUME NEW r \in Robot, NEW image \in Image, NEW elapsed \in Nat
  PROVE  LET a == ApplyOutputAssembly(r, image, elapsed)
         IN \/ a.received_move_id = r.received_move_id
            \/ image.motion.move_id # 0 /\ a.received_move_id = image.motion.move_id
<1> DEFINE x == Advance(r, elapsed)
<1> DEFINE y == ApplyRobotControl(x, image.robot)
<1> DEFINE z == ApplyMotionControl(y, image.motion)
<1> DEFINE a == ApplyMotionCommand(z, image.motion, image.command)
<1>1. x \in Robot /\ SameMove(r, x)
  BY AdvanceTyped, AdvanceLeaves
<1>2. ApplyOutputAssembly(r, image, elapsed) = a
  BY Zenon DEF ApplyOutputAssembly
<1> HIDE DEF x
<1>3. y \in Robot /\ SameMove(x, y)
  BY <1>1, ImageParts, ApplyRobotControlTyped, ApplyRobotControlLeaves
<1> HIDE DEF y
<1>4. z \in Robot /\ SameMove(y, z)
  BY <1>3, ImageParts, ApplyMotionControlTyped, ApplyMotionControlLeaves
<1>5. z.received_move_id = r.received_move_id
  BY <1>1, <1>3, <1>4, Zenon DEF SameMove
<1> HIDE DEF z
<1>6. \/ a.received_move_id = z.received_move_id
      \/ image.motion.move_id # 0 /\ a.received_move_id = image.motion.move_id
  BY <1>4, ImageParts, ApplyMotionCommandReceives
<1> HIDE DEF a
<1>7. QED
  BY <1>2, <1>5, <1>6, Zenon

\* The inductive invariant of the types: the robot is also within its limits.
RobotOK(r) == r \in Robot /\ InLimits(r) /\ Safe(r) /\ r.received_move_id \in MoveIds
WireOK(w) == w \in [sent : BOOLEAN, image : Image] /\ w.image.motion.move_id \in MoveIds

ExchangeInv == RobotOK(robot) /\ frame \in Image /\ WireOK(wire) /\ FacadeOK

LEMMA ExchangeInvTypes == ExchangeInv => ExchangeTypeOK
BY Zenon DEF ExchangeInv, RobotOK, WireOK, FacadeOK, ImageOK, ExchangeTypeOK

LEMMA NoFrameOK == WireOK(NoFrame) /\ ~NoFrame.sent
BY ZeroImageOK, Zenon DEF WireOK, NoFrame, ImageOK

LEMMA InitExchangeInv == InitExchange => ExchangeInv
<1> SUFFICES ASSUME InitExchange PROVE ExchangeInv
  OBVIOUS
<1> DEFINE r == [InitialRobot EXCEPT !.received_move_id = FirstMoveId]
<1>1. FirstMoveId \in Nat /\ FirstMoveId \in MoveIds
  BY Ranges
<1>2. InitialRobot \in Robot /\ InLimits(InitialRobot) /\ Safe(InitialRobot)
  BY InitialRobotTyped
<1>3. r \in Robot /\ InLimits(r) /\ Safe(r) /\ r.received_move_id = FirstMoveId
  BY <1>1, <1>2, Zenon DEF Robot, InLimits, Safe
<1>4. robot = r /\ frame = ZeroImage /\ wire = NoFrame
  BY Zenon DEF InitExchange
<1> HIDE DEF r
<1>5. /\ output = ZeroImage /\ move_id = 0 /\ input = NoInput /\ connected = FALSE
      /\ call = [method |-> "Disconnect", stage |-> "done", outcome |-> "returned"]
  BY Zenon DEF InitExchange, InitFacade
<1>6. "Disconnect" \in Methods
  BY Zenon DEF Methods
<1>7. call \in Call
  BY <1>5, <1>6, CallTyped, Names
<1>8. FacadeOK
  BY <1>5, <1>7, ZeroImageOK, NoInputTyped, Ranges, Zenon DEF FacadeOK
<1>9. RobotOK(robot)
  BY <1>1, <1>3, <1>4, Zenon DEF RobotOK
<1>10. QED
  BY <1>4, <1>8, <1>9, NoFrameOK, ZeroImageTyped, Zenon DEF ExchangeInv

LEMMA RobotVisited ==
  ASSUME NEW r, RobotOK(r), NEW elapsed \in ElapsedTimes, NEW image, ImageOK(image)
  PROVE  /\ RobotOK(Advance(r, elapsed))
         /\ Advance(r, elapsed).received_move_id = r.received_move_id
         /\ RobotOK(ApplyOutputAssembly(r, image, elapsed))
<1>1. elapsed \in Nat /\ image \in Image /\ image.motion.move_id \in MoveIds
  BY ConstantTypes DEF ImageOK
<1>2. r \in Robot /\ InLimits(r) /\ Safe(r) /\ r.received_move_id \in MoveIds
  BY DEF RobotOK
<1> DEFINE x == Advance(r, elapsed)
<1> DEFINE y == ApplyOutputAssembly(r, image, elapsed)
<1>3. x \in Robot /\ InLimits(x) /\ Safe(x) /\ SameMove(r, x)
  BY <1>1, <1>2, AdvanceTyped, AdvanceSafe, AdvanceLeaves
<1>4. y \in Robot /\ InLimits(y) /\ Safe(y)
  BY <1>1, <1>2, ApplyOutputAssemblySafe
<1>5. \/ y.received_move_id = r.received_move_id
      \/ y.received_move_id = image.motion.move_id
  BY <1>1, <1>2, ApplyOutputAssemblyReceives
<1> HIDE DEF x, y
<1>6. RobotOK(x) /\ RobotOK(y) /\ x.received_move_id = r.received_move_id
  BY <1>1, <1>2, <1>3, <1>4, <1>5, Zenon DEF RobotOK, SameMove
<1>7. QED
  BY <1>6 DEF x, y

LEMMA NextExchangeInv == ExchangeInv /\ [NextExchange]_allVars => ExchangeInv'
<1> SUFFICES ASSUME ExchangeInv, [NextExchange]_allVars PROVE ExchangeInv'
  OBVIOUS
<1>1. RobotOK(robot) /\ frame \in Image /\ WireOK(wire) /\ FacadeOK
  BY DEF ExchangeInv
<1>2. wire.image \in Image /\ ImageOK(wire.image) /\ ImageOK(output)
  BY <1>1, Zenon DEF WireOK, ImageOK, FacadeOK
<1>3. CASE FacadeStep
  <2>1. (Start \/ Proceed) /\ robot' = robot /\ frame' = frame /\ wire' = wire
    BY <1>3, Zenon DEF FacadeStep
  <2>2. FacadeOK'
    BY <1>1, <2>1, StartSteps, ProceedSteps
  <2>3. QED
    BY <1>1, <2>1, <2>2, Zenon DEF ExchangeInv
<1>4. CASE OpenOrClose
  <2>1. /\ (\E method \in Calls : Connect(method)) \/ CloseTransport
        /\ wire' = wire \/ wire' = NoFrame
        /\ robot' = robot /\ frame' = frame
    BY <1>4, Zenon DEF OpenOrClose
  <2>2. FacadeOK'
    BY <1>1, <2>1, ConnectionSteps
  <2>3. WireOK(wire')
    BY <1>1, <2>1, NoFrameOK, Zenon
  <2>4. QED
    BY <1>1, <2>1, <2>2, <2>3, Zenon DEF ExchangeInv
<1>5. CASE ProduceOutput
  <2>1. wire' = [sent |-> TRUE, image |-> output]
    BY <1>5, Zenon DEF ProduceOutput
  <2>2. WireOK(wire')
    BY <1>2, <2>1, Zenon DEF WireOK, ImageOK
  <2>3. robot' = robot /\ frame' = frame /\ facade' = facade
    BY <1>5, Zenon DEF ProduceOutput
  <2>4. QED
    BY <1>1, <2>2, <2>3, Zenon DEF ExchangeInv, facade, FacadeOK
<1>6. CASE ConsumeOutput
  <2>1. PICK elapsed \in ElapsedTimes :
          robot' = ApplyOutputAssembly(robot, wire.image, elapsed)
    BY <1>6, Zenon DEF ConsumeOutput
  <2>2. frame' = wire.image /\ facade' = facade /\ wire' = wire
    BY <1>6, Zenon DEF ConsumeOutput
  <2>3. RobotOK(robot')
    BY <1>1, <1>2, <2>1, RobotVisited
  <2>4. QED
    BY <1>1, <1>2, <2>2, <2>3, Zenon DEF ExchangeInv, facade, FacadeOK
<1>7. CASE ProduceInput
  <2>1. PICK elapsed \in ElapsedTimes : robot' = Advance(robot, elapsed)
    BY <1>7, Zenon DEF ProduceInput
  <2>2. RobotOK(robot')
    BY <1>1, <1>2, <2>1, RobotVisited
  <2>3. input' \in InputImage
    BY <1>7, <2>2, ViewTyped, Zenon DEF ProduceInput, RobotOK
  <2>4. UNCHANGED <<frame, output, move_id, call, connected, wire>>
    BY <1>7, Zenon DEF ProduceInput
  <2>5. QED
    BY <1>1, <2>2, <2>3, <2>4, Zenon DEF ExchangeInv, FacadeOK
<1>8. CASE LoseInput
  <2>1. PICK elapsed \in ElapsedTimes : robot' = Advance(robot, elapsed)
    BY <1>8, Zenon DEF LoseInput
  <2>2. RobotOK(robot')
    BY <1>1, <1>2, <2>1, RobotVisited
  <2>3. frame' = frame /\ facade' = facade /\ wire' = wire
    BY <1>8, Zenon DEF LoseInput
  <2>4. QED
    BY <1>1, <2>2, <2>3, Zenon DEF ExchangeInv, facade, FacadeOK
<1>9. CASE UNCHANGED allVars
  BY <1>1, <1>9, Zenon DEF allVars, ExchangeInv, facade, FacadeOK
<1>10. QED
  BY <1>3, <1>4, <1>5, <1>6, <1>7, <1>8, <1>9 DEF NextExchange

LEMMA ExchangeInvAlways == ExchangeSpec => []ExchangeInv
BY InitExchangeInv, NextExchangeInv, PTL DEF ExchangeSpec

\* Types hold, and every move id stays in the range of the numbering, for any
\* calls, commands, timing and limits.
THEOREM ExchangeTypeCorrect == ExchangeSpec => []ExchangeTypeOK
BY ExchangeInvAlways, ExchangeInvTypes, PTL

----------------------------------------------------------------------------
(* 2. The robot behind the connection is the robot on its own.             *)

\* The operators of the instance are those of the module: it changes none of
\* the constants they look at.
LEMMA SameAdvance ==
  \A r, elapsed : OnItsOwn!Advance(r, elapsed) = Advance(r, elapsed)
<1>1. \A r, elapsed : OnItsOwn!Integrate(r, elapsed) = Integrate(r, elapsed)
  BY Zenon DEF OnItsOwn!Integrate, OnItsOwn!Clamp, Integrate, Clamp
<1>2. \A r : OnItsOwn!Track(r) = Track(r)
  BY Zenon DEF OnItsOwn!Track, OnItsOwn!Interpolate, OnItsOwn!Distance, Track,
               Interpolate, Distance
<1>3. \A r : OnItsOwn!Complete(r) = Complete(r)
  BY Zenon DEF OnItsOwn!Complete, Complete
<1>4. \A left, elapsed : OnItsOwn!Remaining(left, elapsed) = Remaining(left, elapsed)
  BY Zenon DEF OnItsOwn!Remaining, Remaining
<1>5. \A r, elapsed : OnItsOwn!Due(r, elapsed) <=> Due(r, elapsed)
  BY Zenon DEF OnItsOwn!Due, Due
<1>6. \A r : OnItsOwn!Frozen(r) <=> Frozen(r)
  BY Zenon DEF OnItsOwn!Frozen, Frozen
<1> SUFFICES ASSUME NEW r, NEW elapsed
             PROVE  OnItsOwn!Advance(r, elapsed) = Advance(r, elapsed)
  OBVIOUS
<1> DEFINE t == [r EXCEPT !.state_left = Remaining(@, elapsed),
                          !.move_left = IF Frozen(r) THEN @ ELSE Remaining(@, elapsed)]
<1> DEFINE u == [r EXCEPT !.state_left = OnItsOwn!Remaining(@, elapsed),
                          !.move_left = IF OnItsOwn!Frozen(r) THEN @
                                        ELSE OnItsOwn!Remaining(@, elapsed)]
<1>7. t = u
  <2>1. OnItsOwn!Remaining(r.state_left, elapsed) = Remaining(r.state_left, elapsed)
    BY <1>4
  <2>2. (IF OnItsOwn!Frozen(r) THEN r.move_left ELSE OnItsOwn!Remaining(r.move_left, elapsed))
          = (IF Frozen(r) THEN r.move_left ELSE Remaining(r.move_left, elapsed))
    BY <1>4, <1>6, Zenon
  <2>3. QED
    BY <2>1, <2>2, Zenon
<1>8. Advance(r, elapsed) =
        IF Due(r, elapsed) THEN Complete(t)
        ELSE IF r.holding THEN Integrate(t, elapsed)
        ELSE IF r.state = "moving" THEN Track(t) ELSE t
  BY Zenon DEF Advance
<1>9. OnItsOwn!Advance(r, elapsed) =
        IF OnItsOwn!Due(r, elapsed) THEN OnItsOwn!Complete(u)
        ELSE IF r.holding THEN OnItsOwn!Integrate(u, elapsed)
        ELSE IF r.state = "moving" THEN OnItsOwn!Track(u) ELSE u
  BY Zenon DEF OnItsOwn!Advance
<1> HIDE DEF t, u
<1>10. CASE Due(r, elapsed)
  BY <1>3, <1>5, <1>7, <1>8, <1>9, <1>10, Zenon
<1>11. CASE ~Due(r, elapsed) /\ r.holding
  BY <1>1, <1>5, <1>7, <1>8, <1>9, <1>11, Zenon
<1>12. CASE ~Due(r, elapsed) /\ ~r.holding
  BY <1>2, <1>5, <1>7, <1>8, <1>9, <1>12, Zenon
<1>13. QED
  BY <1>10, <1>11, <1>12

LEMMA SameControl ==
  \A r, control : OnItsOwn!ApplyRobotControl(r, control) = ApplyRobotControl(r, control)
BY Zenon DEF OnItsOwn!ApplyRobotControl, OnItsOwn!ApplyPower, OnItsOwn!ApplyModes,
   OnItsOwn!Reset, ApplyRobotControl, ApplyPower, ApplyModes, Reset

LEMMA SameMotionControl ==
  \A r, control : OnItsOwn!ApplyMotionControl(r, control) = ApplyMotionControl(r, control)
BY Zenon DEF OnItsOwn!ApplyMotionControl, OnItsOwn!ClearMove, OnItsOwn!ReleaseVelocity,
   OnItsOwn!Settle, ApplyMotionControl, ClearMove, ReleaseVelocity, Settle

LEMMA SameMotionCommand ==
  \A r, control, command :
    OnItsOwn!ApplyMotionCommand(r, control, command) = ApplyMotionCommand(r, control, command)
<1>1. \A r : OnItsOwn!ReleaseVelocity(r) = ReleaseVelocity(r)
  BY Zenon DEF OnItsOwn!ReleaseVelocity, OnItsOwn!Settle, ReleaseVelocity, Settle
<1>2. \A r, code : OnItsOwn!EnterError(r, code) = EnterError(r, code)
  BY Zenon DEF OnItsOwn!EnterError, OnItsOwn!ErrorCodes, EnterError, ErrorCodes
<1>3. \A r, target, duration :
        OnItsOwn!StartMotion(r, target, duration) = StartMotion(r, target, duration)
  BY Zenon DEF OnItsOwn!StartMotion, StartMotion
<1>4. \A r, command : OnItsOwn!StartHold(r, command) = StartHold(r, command)
  BY <1>3, Zenon DEF OnItsOwn!StartHold, StartHold
<1>5. \A r, command : OnItsOwn!StartMove(r, command) = StartMove(r, command)
  <2>1. \A a, b : OnItsOwn!Distance(a, b) = Distance(a, b)
    BY Zenon DEF OnItsOwn!Distance, Distance
  <2>2. \A r, command : OnItsOwn!ResolveTarget(r, command) = ResolveTarget(r, command)
    BY Zenon DEF OnItsOwn!ResolveTarget, ResolveTarget
  <2>3. OnItsOwn!Angle = Angle
    BY Zenon DEF OnItsOwn!Angle, Angle
  <2>4. QED
    BY <1>2, <1>3, <2>1, <2>2, <2>3, Zenon DEF OnItsOwn!StartMove, StartMove
<1>6. ASSUME NEW r, NEW command
      PROVE  OnItsOwn!Execute(r, command) = Execute(r, command)
  <2>1. /\ OnItsOwn!StartHold(r, command) = StartHold(r, command)
        /\ OnItsOwn!StartMove(r, command) = StartMove(r, command)
        /\ OnItsOwn!EnterError(r, "MOVE_OUT_OF_RANGE") = EnterError(r, "MOVE_OUT_OF_RANGE")
    BY <1>2, <1>4, <1>5
  <2>2. QED
    BY <2>1, SMT DEF OnItsOwn!Execute, Execute
<1>7. ASSUME NEW r, NEW id, NEW command
      PROVE  OnItsOwn!Accept(r, id, command) = Accept(r, id, command)
  <2> DEFINE a == [r EXCEPT !.received_move_id = id]
  <2>1. /\ OnItsOwn!EnterError(a, "UNKNOWN_MOTION_COMMAND")
             = EnterError(a, "UNKNOWN_MOTION_COMMAND")
        /\ OnItsOwn!EnterError(a, "MOVE_WITHOUT_HOMING")
             = EnterError(a, "MOVE_WITHOUT_HOMING")
        /\ OnItsOwn!Execute(a, command) = Execute(a, command)
    BY <1>2, <1>6
  <2>2. Accept(r, id, command) =
          CASE command.name = "variable" -> a
            [] command.name \in {"none", "unknown"} ->
                 EnterError(a, "UNKNOWN_MOTION_COMMAND")
            [] command.name \notin {"variable", "none", "unknown"}
                 /\ r.state \notin {"idle", "moving"} ->
                 EnterError(a, "MOVE_WITHOUT_HOMING")
            [] OTHER -> Execute(a, command)
    BY Zenon DEF Accept
  <2>3. OnItsOwn!Accept(r, id, command) =
          CASE command.name = "variable" -> a
            [] command.name \in {"none", "unknown"} ->
                 OnItsOwn!EnterError(a, "UNKNOWN_MOTION_COMMAND")
            [] command.name \notin {"variable", "none", "unknown"}
                 /\ r.state \notin {"idle", "moving"} ->
                 OnItsOwn!EnterError(a, "MOVE_WITHOUT_HOMING")
            [] OTHER -> OnItsOwn!Execute(a, command)
    BY Zenon DEF OnItsOwn!Accept
  <2> HIDE DEF a
  <2>4. QED
    BY <2>1, <2>2, <2>3, Zenon
<1>8. \A r, command :
        OnItsOwn!ApplyVelocityCommand(r, command) = ApplyVelocityCommand(r, command)
  BY <1>1, <1>2, SMT DEF OnItsOwn!ApplyVelocityCommand, ApplyVelocityCommand
<1>9. QED
  BY <1>1, <1>7, <1>8, SMT DEF OnItsOwn!ApplyMotionCommand, ApplyMotionCommand

LEMMA SameApply ==
  \A r, image, elapsed :
    OnItsOwn!ApplyOutputAssembly(r, image, elapsed) = ApplyOutputAssembly(r, image, elapsed)
BY SameAdvance, SameControl, SameMotionControl, SameMotionCommand, Zenon
   DEF OnItsOwn!ApplyOutputAssembly, ApplyOutputAssembly

LEMMA InitOnItsOwn == FirstMoveId = 0 /\ InitExchange => OnItsOwn!Init
<1> SUFFICES ASSUME FirstMoveId = 0, InitExchange PROVE OnItsOwn!Init
  OBVIOUS
<1>1. OnItsOwn!InitialRobot = InitialRobot /\ OnItsOwn!ZeroImage = ZeroImage
  BY Zenon DEF OnItsOwn!InitialRobot, InitialRobot, OnItsOwn!ZeroImage, ZeroImage
<1>2. robot = [InitialRobot EXCEPT !.received_move_id = 0] /\ frame = ZeroImage
  BY DEF InitExchange
<1>3. robot = InitialRobot
  BY <1>2, SMT DEF InitialRobot
<1>4. QED
  BY <1>1, <1>2, <1>3 DEF OnItsOwn!Init

LEMMA StepOnItsOwn ==
  ExchangeInv /\ [NextExchange]_allVars => [OnItsOwn!Next]_(OnItsOwn!vars)
<1> SUFFICES ASSUME ExchangeInv, [NextExchange]_allVars
             PROVE  OnItsOwn!Next \/ UNCHANGED <<robot, frame>>
  BY DEF OnItsOwn!vars
<1>1. CASE ConsumeOutput
  <2>1. wire.image \in Image
    BY Zenon DEF ExchangeInv, WireOK
  <2>2. PICK elapsed \in ElapsedTimes :
          robot' = ApplyOutputAssembly(robot, wire.image, elapsed)
    BY <1>1 DEF ConsumeOutput
  <2>3. frame' = wire.image
    BY <1>1 DEF ConsumeOutput
  <2>4. OnItsOwn!Apply
    BY <2>1, <2>2, <2>3, SameApply, Zenon DEF OnItsOwn!Apply
  <2>5. QED
    BY <2>4 DEF OnItsOwn!Next
<1>2. CASE ProduceInput \/ LoseInput
  <2>1. PICK elapsed \in ElapsedTimes : robot' = Advance(robot, elapsed)
    BY <1>2 DEF ProduceInput, LoseInput
  <2>2. frame' = frame
    BY <1>2 DEF ProduceInput, LoseInput
  <2>3. OnItsOwn!Build
    BY <2>1, <2>2, SameAdvance, Zenon DEF OnItsOwn!Build
  <2>4. QED
    BY <2>3 DEF OnItsOwn!Next
<1>3. CASE FacadeStep \/ OpenOrClose \/ ProduceOutput \/ UNCHANGED allVars
  BY <1>3 DEF FacadeStep, OpenOrClose, ProduceOutput, allVars
<1>4. QED
  BY <1>1, <1>2, <1>3 DEF NextExchange

\* The robot behind the connection is the robot of Simulator, under some
\* scanner, whatever frames are lost, delayed or repeated: what is proved there
\* of every scanner holds here.
THEOREM SimulatorRefined ==
  ASSUME FirstMoveId = 0
  PROVE  ExchangeSpec => ImplementsSimulator
<1>1. InitExchange => OnItsOwn!Init
  BY InitOnItsOwn
<1>2. QED
  BY <1>1, StepOnItsOwn, ExchangeInvAlways, PTL
     DEF ExchangeSpec, ImplementsSimulator, OnItsOwn!Spec

----------------------------------------------------------------------------
(* 3. The numbering of the motion commands, for an application that waits  *)
(* for the first input image and gives Connect the time to get it.         *)

WaitsForImage ==
  Calls \cap {"ConnectAtOnce", "ConnectAgain"} = {} /\ "Connect" \notin MayTimeOut

OutputId == output.motion.move_id
WireId == wire.image.motion.move_id
Received == robot.received_move_id

\* From the beginning of Connect to the next call no frame carries a command,
\* so that what was read of the robot stays true.
ConnectInv ==
  call.method \in Connects =>
    /\ call.method = "Connect" /\ connected
    /\ call.stage \in {"waiting", "releasing", "done"}
    /\ OutputId = 0
    /\ wire.sent => WireId = 0
    /\ input.live => input.motion.move_id = Received
    /\ call.stage = "releasing" => input.live
    /\ call.stage = "done" => move_id = Received

\* What is latched or under way is between the last command taken and the last
\* one sent.
NumberInv ==
  Numbered =>
    /\ Place(Received) <= Place(move_id)
    /\ OutputId \in {0, move_id}
    /\ wire.sent => \/ WireId = 0
                    \/ Place(Received) <= Place(WireId) /\ Place(WireId) <= Place(move_id)

OrderInv == ConnectInv /\ NumberInv /\ (~connected => ~wire.sent)

Sent == Place(IF Numbered THEN move_id ELSE Received)
Taken == Place(Received)

OrderStep == OrderInv' /\ (Numbering!Next \/ UNCHANGED <<Sent, Taken>>)

LEMMA PlaceTyped == \A id \in MoveIds : Place(id) \in Nat
<1> SUFFICES ASSUME NEW id \in MoveIds PROVE Place(id) \in Nat
  OBVIOUS
<1>1. id \in Nat /\ MaxMoveId \in Nat
  BY Ranges
<1>2. QED
  BY <1>1 DEF Place

\* The number after an id has its place after it, also where the ids wrap.
LEMMA PlaceFollows ==
  ASSUME NEW id \in MoveIds, id # LastMoveId
  PROVE  Place((id % MaxMoveId) + 1) > Place(id)
<1> DEFINE next == (id % MaxMoveId) + 1
<1>1. next = IF id = MaxMoveId THEN 1 ELSE id + 1
  BY Following
<1>2. /\ id \in Nat /\ id <= MaxMoveId /\ MaxMoveId \in Nat
      /\ LastMoveId \in Nat /\ 1 <= LastMoveId /\ LastMoveId <= MaxMoveId
  BY Ranges
<1> HIDE DEF next
<1>3. next \in Nat
  BY <1>1, <1>2
<1>4. Place(next) = (IF 1 <= next /\ next <= LastMoveId THEN next + MaxMoveId ELSE next)
  BY <1>2, <1>3 DEF Place
<1>5. Place(id) = (IF 1 <= id /\ id <= LastMoveId THEN id + MaxMoveId ELSE id)
  BY <1>2 DEF Place
<1>6. Place(next) > Place(id)
  BY <1>1, <1>2, <1>4, <1>5
<1>7. QED
  BY <1>6 DEF next

\* What the calls that send no command write.
ControlWrites(image, written) ==
  \/ written = image
  \/ written = [image EXCEPT !.robot.activate = TRUE, !.robot.deactivate = FALSE]
  \/ written = [image EXCEPT !.robot.deactivate = TRUE, !.robot.activate = FALSE,
                             !.robot.home = FALSE]
  \/ \E bit \in BOOLEAN :
       \/ written = [image EXCEPT !.robot.deactivate = bit]
       \/ written = [image EXCEPT !.robot.home = bit]
       \/ written = [image EXCEPT !.robot.reset_error = bit]
       \/ written = [image EXCEPT !.motion.pause = bit]
       \/ written = [image EXCEPT !.motion.resume_motion = bit]
       \/ written = [image EXCEPT !.motion.clear_move = bit]
  \/ written = [image EXCEPT !.motion.pause = FALSE, !.motion.clear_move = FALSE,
                             !.motion.resume_motion = FALSE]

LEMMA ControlKeepsId ==
  ASSUME NEW image \in Image, NEW written, ControlWrites(image, written)
  PROVE  written.motion.move_id = image.motion.move_id
<1>1. ASSUME NEW bit,
             \/ written = [image EXCEPT !.robot.deactivate = bit]
             \/ written = [image EXCEPT !.robot.home = bit]
             \/ written = [image EXCEPT !.robot.reset_error = bit]
      PROVE  written.motion = image.motion
  BY <1>1, Zenon DEF Image
<1>2. ASSUME NEW bit,
             \/ written = [image EXCEPT !.motion.pause = bit]
             \/ written = [image EXCEPT !.motion.resume_motion = bit]
             \/ written = [image EXCEPT !.motion.clear_move = bit]
      PROVE  written.motion.move_id = image.motion.move_id
  BY <1>2, ZenonT(60) DEF Image, MotionControl
<1>3. ASSUME \/ written = [image EXCEPT !.robot.activate = TRUE, !.robot.deactivate = FALSE]
             \/ written = [image EXCEPT !.robot.deactivate = TRUE, !.robot.activate = FALSE,
                                        !.robot.home = FALSE]
      PROVE  written.motion = image.motion
  BY <1>3, Zenon DEF Image
<1>4. ASSUME written = [image EXCEPT !.motion.pause = FALSE, !.motion.clear_move = FALSE,
                                     !.motion.resume_motion = FALSE]
      PROVE  written.motion.move_id = image.motion.move_id
  BY <1>4, Zenon DEF Image, MotionControl
<1>5. QED
  BY <1>1, <1>2, <1>3, <1>4, Zenon DEF ControlWrites

\* Facts about the ids of a state that satisfies the invariant of the types.
LEMMA IdsTyped ==
  ExchangeInv => /\ Received \in MoveIds /\ move_id \in MoveIds /\ OutputId \in MoveIds
                 /\ WireId \in MoveIds /\ output \in Image
                 /\ connected \in BOOLEAN
BY Zenon DEF ExchangeInv, RobotOK, WireOK, FacadeOK, ImageOK, Received, OutputId, WireId

\* A step that touches neither the numbering nor the connection.
LEMMA NothingSent ==
  ASSUME ExchangeInv, OrderInv,
         Numbered' <=> Numbered,
         OutputId' = OutputId \/ OutputId' = 0,
         UNCHANGED <<move_id, Received, wire, connected>>,
         ConnectInv'
  PROVE  OrderStep
<1>1. NumberInv'
  BY Zenon DEF OrderInv, NumberInv, WireId
<1>2. (~connected => ~wire.sent)'
  BY Zenon DEF OrderInv
<1>3. UNCHANGED <<Sent, Taken>>
  BY DEF Sent, Taken, Place
<1>4. QED
  BY <1>1, <1>2, <1>3 DEF OrderStep, OrderInv

LEMMA SendStep ==
  ASSUME ExchangeInv, OrderInv, UNCHANGED <<robot, frame, wire>>,
         NEW command \in Queued, SendMotionCommand(command)
  PROVE  OrderStep
<1>1. /\ call.stage = "done" /\ connected /\ move_id # LastMoveId
      /\ move_id' = (move_id % MaxMoveId) + 1
      /\ output' = [output EXCEPT !.command = command, !.motion.setpoint = TRUE,
                                  !.motion.move_id = move_id']
      /\ call'.method = "SendMotionCommand"
      /\ connected' = connected
  BY Zenon DEF SendMotionCommand, Begins, Idle, Returns
<1>2. Numbered /\ Numbered' /\ "SendMotionCommand" \notin Connects
  BY <1>1 DEF Numbered, Connects
<1>3. /\ Place(move_id') > Place(move_id) /\ move_id' \in MoveIds
      /\ Place(Received) \in Nat /\ Place(move_id) \in Nat /\ Place(move_id') \in Nat
      /\ WireId \in MoveIds /\ Place(WireId) \in Nat
  BY <1>1, IdsTyped, PlaceTyped, PlaceFollows, Following
<1>4. OutputId' = move_id'
  <2>1. output \in Image
    BY IdsTyped
  <2>2. QED
    BY <1>1, <2>1, Zenon DEF OutputId, Image, MotionControl
<1>5. Received' = Received /\ WireId' = WireId /\ wire' = wire
  BY DEF Received, WireId
<1>6. /\ Place(Received) <= Place(move_id)
      /\ wire.sent => \/ WireId = 0
                      \/ Place(Received) <= Place(WireId) /\ Place(WireId) <= Place(move_id)
  BY <1>2 DEF OrderInv, NumberInv
<1>7. Place(Received') <= Place(move_id')
  BY <1>3, <1>5, <1>6
<1>8. wire.sent' => \/ WireId' = 0
                    \/ Place(Received') <= Place(WireId') /\ Place(WireId') <= Place(move_id')
  BY <1>3, <1>5, <1>6
<1>9. NumberInv'
  BY <1>4, <1>7, <1>8 DEF NumberInv
<1>10. ConnectInv'
  BY <1>1, <1>2, Zenon DEF ConnectInv
<1>11. Sent = Place(move_id) /\ Sent' = Place(move_id') /\ Taken' = Taken
  BY <1>2, <1>5 DEF Sent, Taken
<1>12. Numbering!Send
  BY <1>3, <1>11 DEF Numbering!Send, Sent, Taken, Received
<1>13. QED
  BY <1>1, <1>9, <1>10, <1>12, Zenon DEF OrderStep, OrderInv, Numbering!Next

LEMMA StartStep ==
  ASSUME ExchangeInv, OrderInv, UNCHANGED <<robot, frame, wire>>,
         \/ \E command \in Held : StartVelocityCommand(command)
         \/ StopVelocityCommand \/ WaitIdle \/ Disconnect
         \/ ActivateRobot \/ DeactivateRobot \/ Home \/ ResetError
         \/ PauseMotion \/ ResumeMotion \/ ClearMotion
  PROVE  OrderStep
<1>1. /\ call.stage = "done" /\ connected
      /\ move_id' = move_id /\ connected' = connected
  BY Zenon DEF StartVelocityCommand, StopVelocityCommand, WaitIdle, Disconnect,
       ActivateRobot, DeactivateRobot, Home, ResetError, PauseMotion, ResumeMotion,
       ClearMotion, Begins, Idle
<1>2. call'.method \notin Connects
  <2>1. PICK method \in {"StartVelocityCommand", "StopVelocityCommand", "WaitIdle",
                         "Disconnect", "ActivateRobot", "DeactivateRobot", "Home",
                         "ResetError", "PauseMotion", "ResumeMotion", "ClearMotion"} :
          \E stage : Goes(method, stage) \/ Returns(method)
    BY Zenon DEF StartVelocityCommand, StopVelocityCommand, WaitIdle, Disconnect,
         ActivateRobot, DeactivateRobot, Home, ResetError, PauseMotion, ResumeMotion,
         ClearMotion
  <2>2. call'.method = method
    BY <2>1, SMT DEF Goes, Returns
  <2>3. QED
    BY <2>2, Zenon DEF Connects
<1>3. OutputId' = OutputId \/ OutputId' = 0
  <2>1. output \in Image /\ TRUE \in BOOLEAN /\ FALSE \in BOOLEAN
    BY IdsTyped
  <2>2. CASE StopVelocityCommand
    BY <2>1, <2>2, Zenon DEF StopVelocityCommand, OutputId, Image, MotionControl
  <2>3. ASSUME NEW command \in Held, StartVelocityCommand(command)
        PROVE  OutputId' = 0
    BY <2>1, <2>3, Zenon DEF StartVelocityCommand, OutputId, Image, MotionControl
  <2>4. CASE Disconnect
    BY <2>4, ZeroImageTyped, Zenon DEF Disconnect, OutputId
  <2>5. CASE \/ WaitIdle \/ ActivateRobot \/ DeactivateRobot \/ Home \/ ResetError
             \/ PauseMotion \/ ResumeMotion \/ ClearMotion
    <3>1. ControlWrites(output, output')
      BY <2>1, <2>5, Zenon DEF WaitIdle, ActivateRobot, DeactivateRobot, Home,
           ResetError, PauseMotion, ResumeMotion, ClearMotion, ControlWrites
    <3>2. QED
      BY <2>1, <3>1, ControlKeepsId DEF OutputId
  <2>6. QED
    BY <2>2, <2>3, <2>4, <2>5
<1>4. Numbered /\ Numbered' /\ ConnectInv'
  BY <1>1, <1>2, Zenon DEF Numbered, ConnectInv
<1>5. UNCHANGED <<move_id, Received, wire, connected>>
  BY <1>1, Zenon DEF Received
<1>6. QED
  BY <1>3, <1>4, <1>5, NothingSent

LEMMA ProceedStep ==
  ASSUME WaitsForImage, ExchangeInv, OrderInv, UNCHANGED <<robot, frame, wire>>, Proceed
  PROVE  OrderStep
<1>1. output \in Image /\ call \in Call
  BY IdsTyped, Zenon DEF ExchangeInv, FacadeOK
<1>2. ConnectInv
  BY DEF OrderInv
<1>3. CASE Poll
  <2>1. PICK outcome \in {"returned", "robot_error", "timeout"} :
          /\ outcome = "returned" => Confirmed(call.method)
          /\ outcome = "robot_error" => Aborted(call.method)
          /\ outcome = "timeout" => call.method \in MayTimeOut
          /\ call' = [call EXCEPT
               !.stage = IF \/ call.method \in Pulsed
                            \/ call.method \in Connects /\ outcome = "returned"
                         THEN "releasing" ELSE "done",
               !.outcome = outcome]
    BY <1>3, Zenon DEF Poll
  <2>2. call.stage = "waiting" /\ UNCHANGED <<output, move_id, input, connected>>
    BY <1>3, Zenon DEF Poll
  <2>3. call'.method = call.method
    BY <1>1, <2>1, Zenon DEF Call
  <2>4. call.method \in Connects => /\ call'.stage = "releasing" /\ input.live
    <3>1. SUFFICES ASSUME call.method \in Connects
                   PROVE  call'.stage = "releasing" /\ input.live
      OBVIOUS
    <3>2. call.method = "Connect"
      BY <1>2, <3>1 DEF ConnectInv
    <3>3. outcome = "returned"
      BY <2>1, <3>1, <3>2, Zenon DEF Aborted, WaitsForImage
    <3>4. input.live
      BY <2>1, <3>2, <3>3 DEF Confirmed
    <3>5. call'.stage = "releasing"
      BY <1>1, <2>1, <3>1, <3>3, Zenon DEF Call
    <3>6. QED
      BY <3>4, <3>5
  <2>5. ConnectInv'
    BY <1>2, <2>2, <2>3, <2>4, Zenon DEF ConnectInv, OutputId, WireId, Received
  <2>6. Numbered' <=> Numbered
    BY <2>2, <2>3, <2>4, Zenon DEF Numbered
  <2>7. QED
    BY <2>2, <2>5, <2>6, NothingSent, Zenon DEF OutputId, Received
<1>4. CASE Release \/ RaiseResume
  <2>1. call.method \notin Connects
    BY <1>2, <1>4, Zenon DEF Release, RaiseResume, Pulsed, Connects, ConnectInv
  <2>2. call'.method \notin Connects
    <3>1. CASE Release
      BY <1>1, <2>1, <3>1, Zenon DEF Release, Call
    <3>2. CASE RaiseResume
      BY <3>2, Zenon DEF RaiseResume, Goes, Connects
    <3>3. QED
      BY <1>4, <3>1, <3>2
  <2>3. UNCHANGED <<move_id, input, connected>>
    BY <1>4, Zenon DEF Release, RaiseResume
  <2>4. ControlWrites(output, output')
    <3>1. TRUE \in BOOLEAN /\ FALSE \in BOOLEAN
      OBVIOUS
    <3>2. QED
      BY <1>4, <3>1, Zenon DEF Release, RaiseResume, Pulsed, ControlWrites
  <2>5. OutputId' = OutputId
    BY <1>1, <2>4, ControlKeepsId DEF OutputId
  <2>6. QED
    BY <2>1, <2>2, <2>3, <2>5, NothingSent, Zenon DEF Numbered, ConnectInv, Received
<1>5. CASE ResumeNumbering
  <2>1. /\ call.method \in Connects /\ call.stage = "releasing"
        /\ move_id' = input.motion.move_id
        /\ call' = [call EXCEPT !.stage = "done", !.outcome = "returned"]
        /\ UNCHANGED <<output, input, connected>>
    BY <1>5, Zenon DEF ResumeNumbering
  <2>2. call'.method = call.method /\ call'.stage = "done"
    BY <1>1, <2>1, Zenon DEF Call
  <2>3. /\ connected /\ OutputId = 0 /\ (wire.sent => WireId = 0)
        /\ call.method = "Connect"
        /\ (input.live => input.motion.move_id = Received)
        /\ move_id' = Received
    BY <1>2, <2>1, Zenon DEF ConnectInv
  <2>4. OutputId' = 0 /\ WireId' = WireId /\ Received' = Received /\ wire' = wire
    BY <2>1, <2>3, Zenon DEF OutputId, WireId, Received
  <2>5. ConnectInv'
    BY <2>1, <2>2, <2>3, <2>4, Zenon DEF ConnectInv
  <2>6. Place(Received) \in Nat
    BY IdsTyped, PlaceTyped
  <2>7. Place(Received') <= Place(move_id')
    BY <2>3, <2>4, <2>6
  <2>8. NumberInv'
    BY <2>3, <2>4, <2>7, Zenon DEF NumberInv
  <2>9. ~Numbered
    BY <2>1 DEF Numbered
  <2>10. UNCHANGED <<Sent, Taken>>
    BY <2>3, <2>4, <2>9, Zenon DEF Sent, Taken
  <2>11. QED
    BY <2>1, <2>3, <2>5, <2>8, <2>10, Zenon DEF OrderStep, OrderInv
<1>6. QED
  BY <1>3, <1>4, <1>5 DEF Proceed

LEMMA OpenStep ==
  ASSUME WaitsForImage, ExchangeInv, OrderInv, OpenOrClose
  PROVE  OrderStep
<1>1. call \in Call /\ connected \in BOOLEAN
  BY Zenon DEF ExchangeInv, FacadeOK
<1>2. /\ wire' = IF connected /\ connected' THEN wire ELSE NoFrame
      /\ robot' = robot
  BY Zenon DEF OpenOrClose
<1>3. Received' = Received /\ ~NoFrame.sent
  BY <1>2, NoFrameOK DEF Received
<1>4. CASE \E method \in Calls : Connect(method)
  <2>1. PICK method \in Calls : Connect(method)
    BY <1>4
  <2>2. method = "Connect"
    BY <2>1, Zenon DEF Connect, WaitsForImage, Connects
  <2>3. /\ connected = FALSE /\ connected' = TRUE
        /\ input' = NoInput /\ output' = ZeroImage
        /\ Goes("Connect", "waiting")
    BY <1>1, <2>1, <2>2, Zenon DEF Connect
  <2>4. call'.method = "Connect" /\ call'.stage = "waiting"
    BY <2>3, Zenon DEF Goes
  <2>5. OutputId' = 0 /\ wire' = NoFrame /\ ~input'.live
    BY <1>2, <2>3, ZeroImageTyped, Zenon DEF OutputId, NoInput
  <2>6. ConnectInv'
    BY <1>3, <2>3, <2>4, <2>5, Zenon DEF ConnectInv
  <2>7. ~Numbered /\ ~Numbered'
    BY <2>3, <2>4, Zenon DEF Numbered, Connects
  <2>8. UNCHANGED <<Sent, Taken>>
    BY <1>3, <2>7, Zenon DEF Sent, Taken
  <2>9. QED
    BY <2>3, <2>6, <2>7, <2>8, Zenon DEF OrderStep, OrderInv, NumberInv
<1>5. CASE CloseTransport
  <2>1. /\ call.stage = "closing" /\ connected' = FALSE
        /\ call' = [call EXCEPT !.stage = "done", !.outcome = "returned"]
    BY <1>5, Zenon DEF CloseTransport
  <2>2. call.method \notin Connects
    BY <2>1, Zenon DEF OrderInv, ConnectInv
  <2>3. call'.method = call.method
    BY <1>1, <2>1, Zenon DEF Call
  <2>4. wire' = NoFrame
    BY <1>2, <2>1, Zenon
  <2>5. ConnectInv' /\ ~Numbered'
    BY <2>1, <2>2, <2>3, Zenon DEF ConnectInv, Numbered
  <2>6. Sent' = Taken /\ Taken' = Taken
    BY <1>3, <2>5, Zenon DEF Sent, Taken
  <2>7. Numbering!Resume
    BY <2>6 DEF Numbering!Resume, Sent, Taken, Received
  <2>8. QED
    BY <1>3, <2>4, <2>5, <2>7, Zenon DEF OrderStep, OrderInv, NumberInv, Numbering!Next
<1>6. QED
  BY <1>4, <1>5 DEF OpenOrClose

LEMMA ProduceOutputStep ==
  ASSUME ExchangeInv, OrderInv, ProduceOutput
  PROVE  OrderStep
<1>1. connected /\ wire' = [sent |-> TRUE, image |-> output] /\ UNCHANGED <<robot, facade>>
  BY Zenon DEF ProduceOutput
<1>2. /\ UNCHANGED <<output, move_id, call, input, connected, robot>>
      /\ WireId' = OutputId /\ OutputId' = OutputId /\ Received' = Received
  BY <1>1, Zenon DEF facade, WireId, OutputId, Received
<1>3. Place(move_id) \in Nat /\ Place(Received) \in Nat
  BY IdsTyped, PlaceTyped
<1>4. ConnectInv'
  BY <1>2, Zenon DEF OrderInv, ConnectInv
<1>5. Numbered' <=> Numbered
  BY <1>2 DEF Numbered
<1>6. NumberInv'
  <2>1. SUFFICES ASSUME Numbered
                 PROVE  /\ Place(Received) <= Place(move_id)
                        /\ OutputId \in {0, move_id}
                        /\ \/ OutputId = 0
                           \/ /\ Place(Received) <= Place(OutputId)
                              /\ Place(OutputId) <= Place(move_id)
    BY <1>2, <1>5, Zenon DEF NumberInv
  <2>2. Place(Received) <= Place(move_id) /\ OutputId \in {0, move_id}
    BY <2>1 DEF OrderInv, NumberInv
  <2>3. Place(move_id) <= Place(move_id)
    BY <1>3
  <2>4. QED
    BY <2>2, <2>3, Zenon
<1>7. UNCHANGED <<Sent, Taken>>
  BY <1>2, <1>5, Zenon DEF Sent, Taken
<1>8. QED
  BY <1>1, <1>2, <1>4, <1>6, <1>7, Zenon DEF OrderStep, OrderInv

LEMMA ConsumeOutputStep ==
  ASSUME ExchangeInv, OrderInv, ConsumeOutput
  PROVE  OrderStep
<1>1. connected /\ wire.sent /\ UNCHANGED <<facade, wire>>
  BY Zenon DEF ConsumeOutput
<1>2. UNCHANGED <<output, move_id, call, input, connected, wire, OutputId, WireId>>
  BY <1>1, Zenon DEF facade, WireId, OutputId
<1>3. Received' = Received \/ (WireId # 0 /\ Received' = WireId)
  <2>1. PICK elapsed \in ElapsedTimes :
          robot' = ApplyOutputAssembly(robot, wire.image, elapsed)
    BY DEF ConsumeOutput
  <2>2. robot \in Robot /\ wire.image \in Image /\ elapsed \in Nat
    BY ConstantTypes, Zenon DEF ExchangeInv, RobotOK, WireOK
  <2>3. QED
    BY <2>1, <2>2, ApplyOutputAssemblyReceives, Zenon DEF Received, WireId
<1>4. Numbered' <=> Numbered
  BY <1>2 DEF Numbered
<1>5. /\ Place(move_id) \in Nat /\ Place(Received) \in Nat /\ Place(WireId) \in Nat
  BY IdsTyped, PlaceTyped
<1>6. CASE call.method \in Connects
  <2>1. Received' = Received
    BY <1>1, <1>3, <1>6, Zenon DEF OrderInv, ConnectInv
  <2>2. ConnectInv' /\ NumberInv'
    BY <1>2, <1>4, <2>1, Zenon DEF OrderInv, ConnectInv, NumberInv
  <2>3. UNCHANGED <<Sent, Taken>>
    BY <1>2, <1>4, <2>1, Zenon DEF Sent, Taken
  <2>4. QED
    BY <1>1, <1>2, <2>2, <2>3, Zenon DEF OrderStep, OrderInv
<1>7. CASE call.method \notin Connects
  <2>1. Numbered /\ Numbered' /\ ConnectInv'
    BY <1>1, <1>2, <1>7, Zenon DEF Numbered, ConnectInv
  <2>2. /\ Place(Received) <= Place(move_id)
        /\ OutputId \in {0, move_id}
        /\ \/ WireId = 0
           \/ Place(Received) <= Place(WireId) /\ Place(WireId) <= Place(move_id)
    BY <1>1, <2>1 DEF OrderInv, NumberInv
  <2>3. Place(Received) <= Place(Received') /\ Place(Received') <= Place(move_id)
    BY <1>3, <1>5, <2>2
  <2>4. \/ WireId = 0
        \/ Place(Received') <= Place(WireId) /\ Place(WireId) <= Place(move_id)
    BY <1>3, <1>5, <2>2
  <2>5. NumberInv'
    BY <1>2, <2>2, <2>3, <2>4, Zenon DEF NumberInv
  <2>6. Sent = Place(move_id) /\ Sent' = Place(move_id) /\ Taken' = Place(Received')
    BY <1>2, <2>1, Zenon DEF Sent, Taken
  <2>7. Place(Received') \in Nat
    BY <1>3, <1>5
  <2>8. Numbering!Take \/ UNCHANGED <<Sent, Taken>>
    <3>1. CASE Place(Received') = Place(Received)
      BY <2>6, <3>1 DEF Taken
    <3>2. CASE Place(Received') # Place(Received)
      <4>1. Taken' \in Taken + 1 .. Sent
        BY <1>5, <2>3, <2>6, <2>7, <3>2 DEF Taken
      <4>2. QED
        BY <2>6, <4>1 DEF Numbering!Take, Sent, Taken, Received
    <3>3. QED
      BY <3>1, <3>2
  <2>9. QED
    BY <1>1, <1>2, <2>1, <2>5, <2>8, Zenon DEF OrderStep, OrderInv, Numbering!Next
<1>8. QED
  BY <1>6, <1>7

LEMMA InputStep ==
  ASSUME ExchangeInv, OrderInv, ProduceInput \/ LoseInput
  PROVE  OrderStep
<1>1. PICK elapsed \in ElapsedTimes : robot' = Advance(robot, elapsed)
  BY DEF ProduceInput, LoseInput
<1>2. RobotOK(robot) /\ ImageOK(output)
  BY Zenon DEF ExchangeInv, FacadeOK
<1>3. Received' = Received
  BY <1>1, <1>2, RobotVisited DEF Received
<1>4. UNCHANGED <<output, move_id, call, connected, wire>>
  BY Zenon DEF ProduceInput, LoseInput, facade
<1>5. \/ input' = input
      \/ input'.live /\ input'.motion.move_id = Received'
  <2>1. CASE LoseInput
    BY <2>1, Zenon DEF LoseInput, facade
  <2>2. CASE ProduceInput
    BY <2>2, Zenon DEF ProduceInput, View, MotionStatus, Received
  <2>3. QED
    BY <2>1, <2>2
<1>6. ConnectInv'
  BY <1>3, <1>4, <1>5, Zenon DEF OrderInv, ConnectInv, OutputId, WireId
<1>7. QED
  BY <1>3, <1>4, <1>6, NothingSent, Zenon DEF Numbered, OutputId

LEMMA InitOrderInv == InitExchange => OrderInv /\ Numbering!Init
<1> SUFFICES ASSUME InitExchange PROVE OrderInv /\ Numbering!Init
  OBVIOUS
<1>1. call.method = "Disconnect" /\ connected = FALSE /\ wire = NoFrame
  BY Zenon DEF InitExchange, InitFacade
<1>2. OrderInv /\ ~Numbered
  BY <1>1, NoFrameOK, Zenon DEF OrderInv, ConnectInv, NumberInv, Numbered, Connects
<1>3. Taken \in Nat
  BY InitExchangeInv, IdsTyped, PlaceTyped DEF Taken
<1>4. Sent = Taken
  BY <1>2, Zenon DEF Sent, Taken
<1>5. QED
  BY <1>2, <1>3, <1>4 DEF Numbering!Init, Sent, Taken, Received

LEMMA NextOrderStep ==
  ASSUME WaitsForImage
  PROVE  ExchangeInv /\ OrderInv /\ [NextExchange]_allVars => OrderStep
<1> SUFFICES ASSUME ExchangeInv, OrderInv, [NextExchange]_allVars PROVE OrderStep
  OBVIOUS
<1>1. CASE FacadeStep
  BY <1>1, SendStep, StartStep, ProceedStep DEF FacadeStep, Start
<1>2. CASE OpenOrClose \/ ProduceOutput \/ ConsumeOutput \/ ProduceInput \/ LoseInput
  BY <1>2, OpenStep, ProduceOutputStep, ConsumeOutputStep, InputStep
<1>3. CASE UNCHANGED allVars
  <2>1. UNCHANGED <<output, move_id, call, input, connected, robot, wire>>
    BY <1>3 DEF allVars, facade
  <2>2. ConnectInv'
    BY <2>1, Zenon DEF OrderInv, ConnectInv, OutputId, WireId, Received
  <2>3. QED
    BY <2>1, <2>2, NothingSent, Zenon DEF Numbered, OutputId, Received
<1>4. QED
  BY <1>1, <1>2, <1>3 DEF NextExchange

LEMMA OrderInvAlways ==
  ASSUME WaitsForImage PROVE ExchangeSpec => [](ExchangeInv /\ OrderInv)
<1>1. ExchangeInv /\ OrderInv /\ [NextExchange]_allVars => OrderInv'
  BY NextOrderStep DEF OrderStep
<1>2. QED
  BY <1>1, InitOrderInv, InitExchangeInv, NextExchangeInv, PTL DEF ExchangeSpec

\* Each motion command is taken once and in the order of sending, over any
\* number of connections, lost or repeated frames and wraps of the ids.
THEOREM CommandsInOrder ==
  ASSUME WaitsForImage PROVE ExchangeSpec => ImplementsCommandOrder
<1>1. InitExchange => Numbering!Init
  BY InitOrderInv
<1>2. ExchangeInv /\ OrderInv /\ [NextExchange]_allVars
        => [Numbering!Next]_(Numbering!vars)
  BY NextOrderStep DEF OrderStep, Numbering!vars, Sent, Taken, Received
<1>3. QED
  BY <1>1, <1>2, OrderInvAlways, PTL
     DEF ExchangeSpec, ImplementsCommandOrder, Numbering!Spec

\* Connect resumes the numbering where the robot is.
THEOREM NumberingTakenOver ==
  ASSUME WaitsForImage PROVE ExchangeSpec => []NumberingResumed
<1>1. OrderInv => NumberingResumed
  BY Zenon DEF OrderInv, ConnectInv, NumberingResumed, Returned, Received
<1>2. QED
  BY <1>1, OrderInvAlways, PTL

----------------------------------------------------------------------------
(* 4. What one image does to a robot that holds no velocity.               *)

\* The power of the robot and its homing reference stay, but for an error.
SamePower(r, s) ==
  /\ s.state = r.state \/ (Activated(r) /\ Activated(s)) \/ s.state = "error"
  /\ s.homed = r.homed

LEMMA SamePowerTransitive ==
  ASSUME NEW r, NEW s, NEW t, SamePower(r, s), SamePower(s, t),
         s.state = "error" => t.state = "error"
  PROVE  SamePower(r, t)
BY Zenon DEF SamePower, Activated

LEMMA AdvancePower ==
  ASSUME NEW r \in Robot, Consistent(r), NEW elapsed \in Nat
  PROVE  LET x == Advance(r, elapsed)
         IN /\ \/ x.state = r.state
               \/ Activated(r) /\ Activated(x)
               \/ r.state = "activating" /\ x.state = "activated"
               \/ r.state = "deactivating" /\ x.state = "deactivated"
            /\ r.homed /\ r.state # "deactivating" => x.homed
            /\ x.state = "moving" => r.state = "moving"
<1> DEFINE s == Remaining(r.state_left, elapsed)
<1> DEFINE m == IF Frozen(r) THEN r.move_left ELSE Remaining(r.move_left, elapsed)
<1> DEFINE t == [r EXCEPT !.state_left = s, !.move_left = m]
<1> DEFINE x == Advance(r, elapsed)
<1>1. \/ Due(r, elapsed) /\ x = Complete(t)
      \/ r.state = "moving" /\ x = Track(t)
      \/ x = t
  BY Zenon DEF Advance, Consistent
<1>2. s \in Nat /\ m \in Nat
  <2>1. r.state_left \in Nat /\ r.move_left \in Nat
    BY Zenon DEF Robot
  <2>2. QED
    BY <2>1, RemainingTyped, Zenon
<1> HIDE DEF s, m
<1>3. t \in Robot /\ t.state = r.state /\ t.homed = r.homed
  BY <1>2, Zenon DEF Robot
<1> HIDE DEF t, x
<1>4. CASE Due(r, elapsed) /\ x = Complete(t)
  <2>1. \/ t.state = "activating" /\ x = [t EXCEPT !.state = "activated"]
        \/ /\ t.state = "deactivating"
           /\ x = [t EXCEPT !.state = "deactivated", !.homed = FALSE]
        \/ /\ t.state = "homing"
           /\ x = [t EXCEPT !.state = "idle", !.homed = TRUE, !.joints = HomePosition]
    BY <1>3, <1>4, Zenon DEF Due, Complete
  <2>2. \/ t.state = "activating" /\ x.state = "activated" /\ x.homed = t.homed
        \/ t.state = "deactivating" /\ x.state = "deactivated"
        \/ t.state = "homing" /\ x.state = "idle" /\ x.homed
    BY <1>3, <2>1, Zenon DEF Robot
  <2>3. QED
    BY <1>3, <2>2, Zenon DEF Activated, x
<1>5. CASE r.state = "moving" /\ x = Track(t)
  <2>1. \/ x = [t EXCEPT !.state = "idle", !.joints = t.move_target]
        \/ x = [t EXCEPT !.joints = Interpolate(t)]
    BY <1>5, Zenon DEF Track
  <2>2. x.state \in {"idle", "moving"} /\ x.homed = t.homed
    BY <1>3, <1>5, <2>1, Zenon DEF Robot
  <2>3. QED
    BY <1>3, <1>5, <2>2, Zenon DEF Activated, x
<1>6. CASE x = t
  BY <1>3, <1>6, Zenon DEF x
<1>7. QED
  BY <1>1, <1>4, <1>5, <1>6

\* What the bits of the power do, without a reset.
LEMMA ApplyRobotControlPower ==
  ASSUME NEW r \in Robot, NEW control \in RobotControl
  PROVE  LET y == ApplyRobotControl(r, control)
         IN /\ y.state = "moving" => r.state = "moving"
            /\ ~control.reset_error => y.homed = r.homed
            /\ \/ control.reset_error
               \/ ~control.deactivate /\ SamePower(r, y)
               \/ r.state \in {"deactivated", "deactivating", "error"} /\ y.state = r.state
               \/ /\ control.deactivate /\ r.state # "deactivated"
                  /\ y.state = "deactivating"
               \/ ~control.deactivate /\ control.activate
                    /\ r.state = "deactivated" /\ y.state = "activating"
<1> DEFINE m == ApplyModes(r, control)
<1> DEFINE y == ApplyRobotControl(r, control)
<1>1. m \in Robot /\ m.state = r.state /\ m.homed = r.homed
  BY Zenon DEF ApplyModes, Robot, RobotControl
<1>2. \/ r.state = "error" /\ ~control.reset_error /\ y = r
      \/ r.state # "error" /\ y = ApplyPower(m, control)
      \/ control.reset_error /\ y = Reset(r)
  BY Zenon DEF ApplyRobotControl
<1> HIDE DEF m
<1>3. ASSUME y = ApplyPower(m, control)
      PROVE  \/ /\ control.deactivate /\ m.state # "deactivated"
                /\ y = [m EXCEPT !.state = "deactivating", !.state_left = ActivationTime]
             \/ /\ ~control.deactivate /\ control.activate /\ m.state = "deactivated"
                /\ y = [m EXCEPT !.state = "activating", !.state_left = ActivationTime]
             \/ /\ ~control.deactivate /\ m.state = "activated"
                /\ y = [m EXCEPT !.state = "homing", !.state_left = HomingTime]
             \/ y = m /\ (control.deactivate => m.state \in {"deactivated", "deactivating"})
  BY <1>3, Zenon DEF ApplyPower
<1> HIDE DEF y
<1>4. ASSUME y = ApplyPower(m, control)
      PROVE  /\ y.homed = m.homed
             /\ \/ /\ control.deactivate /\ m.state # "deactivated"
                   /\ y.state = "deactivating"
                \/ /\ ~control.deactivate /\ control.activate
                   /\ m.state = "deactivated" /\ y.state = "activating"
                \/ ~control.deactivate /\ m.state = "activated" /\ y.state = "homing"
                \/ /\ y.state = m.state
                   /\ control.deactivate => m.state \in {"deactivated", "deactivating"}
  BY <1>1, <1>3, <1>4, Zenon DEF Robot
<1>5. Reset(r).state = "deactivated"
  BY Zenon DEF Reset, Robot
<1>6. /\ y.state = "moving" => r.state = "moving"
      /\ ~control.reset_error => y.homed = r.homed
      /\ \/ control.reset_error
         \/ ~control.deactivate /\ SamePower(r, y)
         \/ r.state \in {"deactivated", "deactivating", "error"} /\ y.state = r.state
         \/ /\ control.deactivate /\ r.state # "deactivated"
            /\ y.state = "deactivating"
         \/ ~control.deactivate /\ control.activate
              /\ r.state = "deactivated" /\ y.state = "activating"
  BY <1>1, <1>2, <1>4, <1>5, Zenon DEF SamePower, Activated
<1>7. QED
  BY <1>6 DEF y

LEMMA SettlePower ==
  ASSUME NEW r \in Robot
  PROVE  SamePower(r, Settle(r)) /\ Settle(r).state # "moving"
         /\ Settle(r).paused = r.paused
<1>1. CASE r.state = "moving"
  <2>1. Settle(r) = [r EXCEPT !.state = "idle"]
    BY <1>1, Zenon DEF Settle
  <2>2. QED
    BY <1>1, <2>1, Zenon DEF Robot, SamePower, Activated
<1>2. CASE r.state # "moving"
  <2>1. Settle(r) = [r EXCEPT !.state = r.state]
    BY <1>2, Zenon DEF Settle
  <2>2. QED
    BY <1>2, <2>1, Zenon DEF Robot, SamePower, Activated
<1>3. QED
  BY <1>1, <1>2

\* Clearing settles the robot; a pause follows its bit until a resume edge.
LEMMA ApplyMotionControlPower ==
  ASSUME NEW r \in Robot, Consistent(r), NEW control \in MotionControl
  PROVE  LET z == ApplyMotionControl(r, control)
         IN /\ SamePower(r, z)
            /\ z.state = "moving" => r.state = "moving"
            /\ ~control.clear_move =>
                 (z.paused <=> /\ r.paused \/ control.pause
                               /\ ~(control.resume_motion /\ ~r.previous_resume_motion))
<1> DEFINE q == [r EXCEPT !.paused = @ \/ control.pause]
<1> DEFINE d == Settle(r)
<1> DEFINE k == [d EXCEPT !.cleared = TRUE, !.paused = TRUE, !.offline_program_id = 0]
<1> DEFINE s == IF control.clear_move THEN k ELSE q
<1> DEFINE rising == control.resume_motion /\ ~r.previous_resume_motion
<1> DEFINE p == s.paused /\ ~rising
<1> DEFINE c == s.cleared /\ ~rising
<1> DEFINE z == [s EXCEPT !.paused = p, !.cleared = c,
                          !.previous_resume_motion = control.resume_motion]
<1>1. ApplyMotionControl(r, control) = z
  BY ReleaseVelocityFollows, Zenon DEF ApplyMotionControl, ClearMove
<1>2. /\ q \in Robot /\ q.state = r.state /\ q.homed = r.homed
      /\ q.paused <=> r.paused \/ control.pause
  BY Zenon DEF Robot, MotionControl
<1>3. d \in Robot /\ SamePower(r, d) /\ d.state # "moving"
  BY SettleTyped, SettlePower
<1> HIDE DEF d
<1>4. k \in Robot /\ k.state = d.state /\ k.homed = d.homed
  BY <1>3, Numbers, Zenon DEF Robot
<1>5. SamePower(r, k) /\ k.state # "moving"
  BY <1>3, <1>4, Zenon DEF SamePower, Activated
<1> HIDE DEF k, q
<1>6. s \in Robot /\ SamePower(r, s) /\ (s.state = "moving" => r.state = "moving")
      /\ (~control.clear_move => s = q)
  BY <1>2, <1>4, <1>5, Zenon DEF SamePower
<1> HIDE DEF s, p, c
<1>7. z.state = s.state /\ z.homed = s.homed /\ z.paused = p
  BY <1>6, Zenon DEF Robot
<1> HIDE DEF z
<1>8. SamePower(r, z) /\ (z.state = "moving" => r.state = "moving")
  BY <1>6, <1>7, Zenon DEF SamePower, Activated
<1>9. ~control.clear_move =>
        (z.paused <=> /\ r.paused \/ control.pause
                      /\ ~(control.resume_motion /\ ~r.previous_resume_motion))
  BY <1>2, <1>6, <1>7, Zenon DEF p
<1>10. QED
  BY <1>1, <1>8, <1>9

LEMMA EnterErrorPower ==
  ASSUME NEW r \in Robot, NEW code PROVE SamePower(r, EnterError(r, code))
BY Zenon DEF EnterError, Robot, SamePower

LEMMA StartMotionPower ==
  ASSUME NEW r \in Robot, Activated(r), NEW target, NEW duration
  PROVE  SamePower(r, StartMotion(r, target, duration))
BY Zenon DEF StartMotion, Robot, SamePower, Activated

LEMMA AcceptPower ==
  ASSUME NEW r \in Robot, NEW id \in Nat, NEW command \in MotionCommand
  PROVE  SamePower(r, Accept(r, id, command))
<1> DEFINE a == [r EXCEPT !.received_move_id = id]
<1> DEFINE b == Accept(r, id, command)
<1> DEFINE c == command.argument % 65536
<1> DEFINE program == [a EXCEPT !.offline_program_id = command.argument]
<1> DEFINE checkpoint == [a EXCEPT !.reached_checkpoint = c]
<1>1. a \in Robot /\ a.state = r.state /\ a.homed = r.homed
  BY Zenon DEF Robot
<1>2. \/ b = a
      \/ \E code : b = EnterError(a, code)
      \/ r.state \in {"idle", "moving"} /\ b = Execute(a, command)
  BY Zenon DEF Accept
<1> HIDE DEF a, b
<1>3. \/ Execute(a, command) = program
      \/ Execute(a, command) = checkpoint
      \/ Execute(a, command) = StartHold(a, command)
      \/ Execute(a, command) = StartMove(a, command)
      \/ Execute(a, command) = EnterError(a, "MOVE_OUT_OF_RANGE")
      \/ Execute(a, command) = a
  BY ExecuteOutcomes
<1> HIDE DEF c
<1>4. SamePower(a, program) /\ SamePower(a, checkpoint) /\ SamePower(a, a)
  BY <1>1, Zenon DEF Robot, SamePower
<1> HIDE DEF program, checkpoint
<1>5. \A code : SamePower(a, EnterError(a, code))
  BY <1>1, EnterErrorPower
<1>6. ASSUME r.state \in {"idle", "moving"}
      PROVE  SamePower(a, StartHold(a, command)) /\ SamePower(a, StartMove(a, command))
  <2>1. Activated(a)
    BY <1>1, <1>6 DEF Activated
  <2>2. QED
    BY <1>1, <1>5, <2>1, StartMotionPower, Zenon DEF StartHold, StartMove
<1>7. SamePower(a, b)
  BY <1>2, <1>3, <1>4, <1>5, <1>6, Zenon
<1>8. QED
  BY <1>1, <1>7, Zenon DEF SamePower, Activated, b

\* Only a command under a new move id starts a motion.
LEMMA ApplyMotionCommandPower ==
  ASSUME NEW r \in Robot, Consistent(r), NEW control \in MotionControl,
         NEW command \in MotionCommand, control.setpoint => control.move_id # 0
  PROVE  LET a == ApplyMotionCommand(r, control, command)
         IN /\ SamePower(r, a)
            /\ a.state = "moving" =>
                 \/ r.state = "moving"
                 \/ /\ control.move_id # 0 /\ control.move_id # r.previous_move_id
                    /\ a.received_move_id = control.move_id
<1> DEFINE s == [r EXCEPT !.previous_move_id = control.move_id]
<1> DEFINE accepted == Accept(s, control.move_id, command)
<1> DEFINE a == ApplyMotionCommand(r, control, command)
<1>1. control.move_id \in Nat
  BY Zenon DEF MotionControl
<1>2. /\ s \in Robot /\ Follows(r, s)
      /\ s.state = r.state /\ s.homed = r.homed
  BY <1>1, Zenon DEF Robot, Follows, Consistent, Down
<1>3. \/ a = ReleaseVelocity(s)
      \/ /\ control.setpoint /\ control.move_id # r.previous_move_id
         /\ a = Accept(ReleaseVelocity(s), control.move_id, command)
  BY Zenon DEF ApplyMotionCommand
<1> HIDE DEF s
<1>4. ReleaseVelocity(s) = s
  BY <1>2, ReleaseVelocityFollows DEF Follows
<1>5. SamePower(s, accepted) /\ accepted.received_move_id = control.move_id
  BY <1>1, <1>2, AcceptPower, AcceptReceives
<1>6. \/ a = s
      \/ /\ control.move_id # 0 /\ control.move_id # r.previous_move_id
         /\ a = accepted
  BY <1>3, <1>4, Zenon
<1> HIDE DEF a, accepted
<1>7. SamePower(r, a)
  BY <1>2, <1>5, <1>6, Zenon DEF SamePower, Activated
<1>8. a.state = "moving" =>
        \/ r.state = "moving"
        \/ /\ control.move_id # 0 /\ control.move_id # r.previous_move_id
           /\ a.received_move_id = control.move_id
  BY <1>2, <1>5, <1>6, Zenon
<1>9. QED
  BY <1>7, <1>8 DEF a

\* No velocity is held: every command of an image is queued.
Queues(image) == image.motion.setpoint => image.motion.move_id # 0

\* From r to s by an image that deactivates, or by any other one.
PowersDown(r, s) ==
  /\ s.state \in {"deactivated", "deactivating"}
  /\ r.state = "deactivated" => s.state = "deactivated"
  /\ s.state = "deactivated" => r.state \in {"deactivated", "deactivating"}

PowersUp(r, s, activate) ==
  /\ Activated(r) => Activated(s)
  /\ r.state = "activating" => s.state = "activating" \/ Activated(s)
  /\ r.state = "deactivated"
       => s.state = "deactivated" \/ (activate /\ s.state = "activating")
  /\ r.state = "deactivating"
       => \/ s.state \in {"deactivated", "deactivating"}
          \/ activate /\ s.state = "activating"

LEMMA ApplyOutputAssemblyPower ==
  ASSUME NEW r \in Robot, Consistent(r), NEW elapsed \in Nat,
         NEW image \in Image, Queues(image)
  PROVE  LET a == ApplyOutputAssembly(r, image, elapsed)
         IN /\ a \in Robot /\ Consistent(a)
            /\ a.state = "moving" =>
                 \/ r.state = "moving"
                 \/ /\ image.motion.move_id # 0
                    /\ image.motion.move_id # r.previous_move_id
                    /\ a.received_move_id = image.motion.move_id
            /\ ~image.robot.reset_error /\ a.state # "error" =>
                 /\ r.state # "error"
                 /\ image.robot.deactivate => PowersDown(r, a)
                 /\ ~image.robot.deactivate => PowersUp(r, a, image.robot.activate)
                 /\ r.homed /\ r.state # "deactivating" => a.homed
            /\ ~image.motion.clear_move =>
                 (a.paused <=>
                    /\ r.paused \/ image.motion.pause
                    /\ ~(image.motion.resume_motion /\ ~r.previous_resume_motion))
<1> DEFINE x == Advance(r, elapsed)
<1> DEFINE y == ApplyRobotControl(x, image.robot)
<1> DEFINE z == ApplyMotionControl(y, image.motion)
<1> DEFINE a == ApplyMotionCommand(z, image.motion, image.command)
<1> DEFINE id == image.motion.move_id
<1>0. /\ image.robot \in RobotControl /\ image.motion \in MotionControl
      /\ image.command \in MotionCommand
      /\ image.motion.setpoint => id # 0
  BY ImageParts DEF Queues
<1>1. /\ x \in Robot /\ Consistent(x) /\ SameInputs(r, x)
      /\ r.state = "error" => x.state = "error"
      /\ \/ x.state = r.state
         \/ Activated(r) /\ Activated(x)
         \/ r.state = "activating" /\ x.state = "activated"
         \/ r.state = "deactivating" /\ x.state = "deactivated"
      /\ r.homed /\ r.state # "deactivating" => x.homed
      /\ x.state = "moving" => r.state = "moving"
  BY AdvanceTyped, AdvanceLeaves, AdvanceFollows, AdvancePower DEF Follows
<1>2. ApplyOutputAssembly(r, image, elapsed) = a
  BY Zenon DEF ApplyOutputAssembly
<1> HIDE DEF x
<1>3. /\ y \in Robot /\ Consistent(y) /\ SameInputs(x, y)
      /\ x.state = "error" /\ ~image.robot.reset_error => y = x
      /\ y.state = "moving" => x.state = "moving"
      /\ ~image.robot.reset_error => y.homed = x.homed
      /\ \/ image.robot.reset_error
         \/ ~image.robot.deactivate /\ SamePower(x, y)
         \/ x.state \in {"deactivated", "deactivating", "error"} /\ y.state = x.state
         \/ /\ image.robot.deactivate /\ x.state # "deactivated"
            /\ y.state = "deactivating"
         \/ ~image.robot.deactivate /\ image.robot.activate
              /\ x.state = "deactivated" /\ y.state = "activating"
  BY <1>0, <1>1, ApplyRobotControlTyped, ApplyRobotControlLeaves, ApplyRobotControlFollows,
     ApplyRobotControlPower
<1> HIDE DEF y
<1>4. /\ z \in Robot /\ Consistent(z)
      /\ z.previous_move_id = y.previous_move_id
      /\ y.state = "error" => z.state = "error"
      /\ SamePower(y, z)
      /\ z.state = "moving" => y.state = "moving"
      /\ ~image.motion.clear_move =>
           (z.paused <=>
              /\ y.paused \/ image.motion.pause
              /\ ~(image.motion.resume_motion /\ ~y.previous_resume_motion))
  BY <1>0, <1>3, ApplyMotionControlTyped, ApplyMotionControlLeaves,
     ApplyMotionControlFollows, ApplyMotionControlPower DEF Follows
<1> HIDE DEF z
<1>5. /\ a \in Robot /\ Consistent(a)
      /\ z.state = "error" => a.state = "error"
      /\ a.paused = z.paused
      /\ SamePower(z, a)
      /\ a.state = "moving" =>
           \/ z.state = "moving"
           \/ id # 0 /\ id # z.previous_move_id /\ a.received_move_id = id
  <2>1. a \in Robot /\ a.paused = z.paused
    BY <1>0, <1>4, ApplyMotionCommandTyped, ApplyMotionCommandLeaves
  <2>2. Follows(z, a)
    BY <1>0, <1>4, ApplyMotionCommandFollows
  <2>3. /\ SamePower(z, a)
        /\ a.state = "moving" =>
             \/ z.state = "moving"
             \/ id # 0 /\ id # z.previous_move_id /\ a.received_move_id = id
    BY <1>0, <1>4, ApplyMotionCommandPower
  <2>4. QED
    BY <2>1, <2>2, <2>3, Zenon DEF Follows
<1> HIDE DEF a
<1>6. /\ z.previous_move_id = r.previous_move_id
      /\ y.paused = r.paused
      /\ y.previous_resume_motion = r.previous_resume_motion
  BY <1>1, <1>3, <1>4, Zenon DEF SameInputs
<1>7. a.state = "moving" =>
        \/ r.state = "moving"
        \/ id # 0 /\ id # r.previous_move_id /\ a.received_move_id = id
  BY <1>1, <1>3, <1>4, <1>5, <1>6, Zenon
<1>8. ~image.motion.clear_move =>
        (a.paused <=>
           /\ r.paused \/ image.motion.pause
           /\ ~(image.motion.resume_motion /\ ~r.previous_resume_motion))
  BY <1>4, <1>5, <1>6, Zenon
<1>9. ASSUME ~image.robot.reset_error, a.state # "error"
      PROVE  /\ r.state # "error"
             /\ image.robot.deactivate => PowersDown(r, a)
             /\ ~image.robot.deactivate => PowersUp(r, a, image.robot.activate)
             /\ r.homed /\ r.state # "deactivating" => a.homed
  <2>1. r.state # "error" /\ x.state # "error" /\ y.state # "error" /\ z.state # "error"
    BY <1>1, <1>3, <1>4, <1>5, <1>9, Zenon
  <2>2. a.state = y.state \/ (Activated(y) /\ Activated(a))
    BY <1>4, <1>5, <1>9, <2>1, Zenon DEF SamePower, Activated
  <2>3. r.homed /\ r.state # "deactivating" => a.homed
    BY <1>1, <1>3, <1>4, <1>5, <1>9, Zenon DEF SamePower
  <2>4. \/ ~image.robot.deactivate /\ (y.state = x.state \/ (Activated(x) /\ Activated(y)))
        \/ x.state \in {"deactivated", "deactivating"} /\ y.state = x.state
        \/ /\ image.robot.deactivate /\ x.state # "deactivated"
           /\ y.state = "deactivating"
        \/ ~image.robot.deactivate /\ image.robot.activate
             /\ x.state = "deactivated" /\ y.state = "activating"
    BY <1>3, <1>9, <2>1, Zenon DEF SamePower
  <2>5. image.robot.deactivate => PowersDown(r, a)
    BY <1>1, <2>1, <2>2, <2>4 DEF PowersDown, Activated
  <2>6. ~image.robot.deactivate => PowersUp(r, a, image.robot.activate)
    BY <1>1, <2>1, <2>2, <2>4 DEF PowersUp, Activated
  <2>7. QED
    BY <2>1, <2>3, <2>5, <2>6
<1>10. QED
  BY <1>2, <1>5, <1>7, <1>8, <1>9, Zenon

----------------------------------------------------------------------------
(* 5. WaitIdle, for an application that queues every motion.               *)

NeverHolds == "StartVelocityCommand" \notin Calls

\* A call in progress has a connection; only Disconnect closes it, and with
\* nothing latched.
StageInv ==
  /\ call.stage # "done" => connected
  /\ call.stage = "closing" => call.method = "Disconnect" /\ OutputId = 0

HoldInv ==
  /\ Consistent(robot)
  /\ Queues(output) /\ Queues(wire.image)

\* A command that the robot has not taken yet, and the one that it has taken
\* last and ignores.
New(id) == Place(id) > Place(Received)
Repeats(id) == id = Received /\ robot.previous_move_id = id

\* A frame repeats the last command taken or carries a later one; once the
\* command latched is taken, the frame under way carries it too.
FreshInv ==
  /\ wire.sent /\ WireId # 0 => New(WireId) \/ Repeats(WireId)
  /\ OutputId # 0 =>
       New(OutputId) \/ (Repeats(OutputId) /\ wire.sent /\ WireId = OutputId)

\* An input image is from before the last command, or what it says of the end
\* of the block is still true.
IdleInv ==
  /\ Place(input.motion.move_id) <= Place(Received)
  /\ input.motion.end_of_block /\ input.motion.move_id = Received
       => robot.state # "moving"

LEMMA PlaceInjective ==
  ASSUME NEW a \in MoveIds, NEW b \in MoveIds, Place(a) = Place(b)
  PROVE  a = b
<1>1. /\ a \in Nat /\ b \in Nat /\ a <= MaxMoveId /\ b <= MaxMoveId
      /\ MaxMoveId \in Nat /\ LastMoveId \in Nat
  BY Ranges
<1>2. /\ \/ a \in 1 .. LastMoveId /\ Place(a) = a + MaxMoveId
         \/ a \notin 1 .. LastMoveId /\ Place(a) = a
      /\ \/ b \in 1 .. LastMoveId /\ Place(b) = b + MaxMoveId
         \/ b \notin 1 .. LastMoveId /\ Place(b) = b
  BY Zenon DEF Place
<1>3. \/ a + MaxMoveId = b + MaxMoveId
      \/ 1 <= a /\ a + MaxMoveId = b
      \/ 1 <= b /\ b + MaxMoveId = a
      \/ a = b
  BY <1>1, <1>2
<1>4. QED
  BY <1>1, <1>3

LEMMA PlaceZero == Place(0) = 0
<1>1. 0 \notin 1 .. LastMoveId
  BY Ranges
<1>2. QED
  BY <1>1 DEF Place

\* A call begins, on a connection, with what it writes.
Begun(method, stage, outcome) ==
  /\ method \in Calls /\ call.stage = "done" /\ connected
  /\ call'.method = method /\ call'.stage = stage /\ call'.outcome = outcome

\* What a control bit leaves of an image.
LEMMA ControlKeepsCommand ==
  ASSUME NEW image \in Image, NEW written, ControlWrites(image, written)
  PROVE  /\ written.motion.move_id = image.motion.move_id
         /\ written.motion.setpoint <=> image.motion.setpoint
<1>1. ASSUME NEW bit,
             \/ written = [image EXCEPT !.robot.deactivate = bit]
             \/ written = [image EXCEPT !.robot.home = bit]
             \/ written = [image EXCEPT !.robot.reset_error = bit]
      PROVE  written.motion = image.motion
  BY <1>1, Zenon DEF Image
<1>2. ASSUME NEW bit,
             \/ written = [image EXCEPT !.motion.pause = bit]
             \/ written = [image EXCEPT !.motion.resume_motion = bit]
             \/ written = [image EXCEPT !.motion.clear_move = bit]
      PROVE  written.motion.setpoint <=> image.motion.setpoint
  BY <1>2, Zenon DEF Image, MotionControl
<1>3. ASSUME \/ written = [image EXCEPT !.robot.activate = TRUE, !.robot.deactivate = FALSE]
             \/ written = [image EXCEPT !.robot.deactivate = TRUE, !.robot.activate = FALSE,
                                        !.robot.home = FALSE]
      PROVE  written.motion = image.motion
  BY <1>3, Zenon DEF Image
<1>4. ASSUME written = [image EXCEPT !.motion.pause = FALSE, !.motion.clear_move = FALSE,
                                     !.motion.resume_motion = FALSE]
      PROVE  written.motion.setpoint <=> image.motion.setpoint
  BY <1>4, Zenon DEF Image, MotionControl
<1>5. written.motion.setpoint <=> image.motion.setpoint
  BY <1>1, <1>2, <1>3, <1>4, Zenon DEF ControlWrites
<1>6. QED
  BY <1>5, ControlKeepsId

\* What a step of the facade does to the numbers.
LEMMA FacadeNumbers ==
  ASSUME ExchangeInv, NeverHolds, HoldInv, StageInv, FacadeStep
  PROVE  /\ UNCHANGED <<robot, wire, input, connected>>
         /\ Queues(output')
         /\ \/ OutputId' = OutputId /\ (move_id' = move_id \/ ResumeNumbering)
            \/ OutputId' = 0 /\ move_id' = move_id
            \/ /\ connected /\ call.stage = "done" /\ OutputId' = move_id'
               /\ Place(move_id') > Place(move_id)
         /\ call'.stage # "done" => connected
         /\ call'.stage = "closing" => call'.method = "Disconnect" /\ OutputId' = 0
         /\ Returned("WaitIdle")' =>
              \/ call.stage = "waiting" /\ Confirmed("WaitIdle") /\ move_id' = move_id
                   /\ call.method = "WaitIdle"
<1>1. /\ output \in Image /\ call \in Call /\ Queues(output)
      /\ (Start \/ Proceed) /\ UNCHANGED <<robot, wire>>
      /\ TRUE \in BOOLEAN /\ FALSE \in BOOLEAN
  BY IdsTyped, Zenon DEF ExchangeInv, FacadeOK, FacadeStep, HoldInv
<1>2. ASSUME NEW command \in Queued, SendMotionCommand(command)
      PROVE  /\ UNCHANGED <<input, connected>>
             /\ Queues(output')
             /\ OutputId' = move_id' /\ Place(move_id') > Place(move_id)
             /\ Begun("SendMotionCommand", "done", "returned")
  <2>1. /\ move_id # LastMoveId /\ move_id' = (move_id % MaxMoveId) + 1
        /\ output' = [output EXCEPT !.command = command, !.motion.setpoint = TRUE,
                                    !.motion.move_id = move_id']
        /\ UNCHANGED <<input, connected>>
        /\ Begun("SendMotionCommand", "done", "returned")
    BY <1>2, Zenon DEF SendMotionCommand, Begins, Returns, Idle, Begun
  <2>2. Place(move_id') > Place(move_id) /\ move_id' \in MoveIds /\ move_id \in MoveIds
    BY <2>1, IdsTyped, PlaceFollows, Following
  <2>3. move_id' # 0
    BY <2>2, PlaceZero, PlaceTyped
  <2>4. OutputId' = move_id'
    BY <1>1, <2>1, Zenon DEF OutputId, Image, MotionControl
  <2>5. QED
    BY <2>1, <2>2, <2>3, <2>4 DEF Queues, OutputId
<1>3. CASE StopVelocityCommand
  <2>1. /\ output' = [output EXCEPT !.command = ZeroImage.command,
                                    !.motion.setpoint = FALSE, !.motion.move_id = 0]
        /\ UNCHANGED <<move_id, input, connected>>
        /\ Begun("StopVelocityCommand", "done", "returned")
    BY <1>3, Zenon DEF StopVelocityCommand, Begins, Returns, Idle, Begun
  <2>2. output'.motion.setpoint = FALSE /\ OutputId' = 0
    BY <1>1, <2>1, Zenon DEF OutputId, Image, MotionControl
  <2>3. QED
    BY <1>1, <2>1, <2>2, Zenon DEF Queues, Begun, Returned
<1>4. CASE Disconnect
  <2>1. /\ output' = ZeroImage /\ UNCHANGED <<move_id, input, connected>>
        /\ Begun("Disconnect", "closing", "pending")
    BY <1>4, Zenon DEF Disconnect, Begins, Goes, Idle, Begun
  <2>2. output'.motion.setpoint = FALSE /\ OutputId' = 0
    BY <2>1, Zenon DEF OutputId, ZeroImage
  <2>3. QED
    BY <1>1, <2>1, <2>2, Zenon DEF Queues, Begun, Returned
<1>5. ASSUME \/ ActivateRobot \/ DeactivateRobot \/ Home \/ ResetError
             \/ PauseMotion \/ ResumeMotion \/ ClearMotion \/ WaitIdle
      PROVE  /\ UNCHANGED <<move_id, input, connected>>
             /\ ControlWrites(output, output')
             /\ connected /\ call'.outcome = "pending" /\ call'.stage # "closing"
  <2>1. ControlWrites(output, output')
    BY <1>1, <1>5, Zenon DEF WaitIdle, ActivateRobot, DeactivateRobot, Home,
         ResetError, PauseMotion, ResumeMotion, ClearMotion, ControlWrites
  <2>2. /\ UNCHANGED <<move_id, input, connected>> /\ connected
        /\ \E method \in Methods, stage \in {"waiting", "raising"} : Goes(method, stage)
    BY <1>5, FacadeAssumption, Zenon DEF WaitIdle, ActivateRobot, DeactivateRobot, Home, ResetError,
         PauseMotion, ResumeMotion, ClearMotion, Begins
  <2>3. call'.outcome = "pending" /\ call'.stage # "closing"
    BY <2>2, SMT DEF Goes
  <2>4. QED
    BY <2>1, <2>2, <2>3
<1>6. ASSUME RaiseResume \/ Release
      PROVE  /\ UNCHANGED <<move_id, input, connected>>
             /\ ControlWrites(output, output')
             /\ call.stage # "done" /\ call'.stage # "closing"
             /\ ~Returned("WaitIdle")'
  <2>1. ControlWrites(output, output')
    BY <1>1, <1>6, Zenon DEF Release, RaiseResume, Pulsed, ControlWrites
  <2>2. UNCHANGED <<move_id, input, connected>> /\ call.stage # "done"
    BY <1>6, Zenon DEF Release, RaiseResume
  <2>3. CASE RaiseResume
    BY <2>1, <2>2, <2>3, Zenon DEF RaiseResume, Goes, Returned
  <2>4. CASE Release
    <3>1. call' = [call EXCEPT !.stage = "done"] /\ call.method # "WaitIdle"
      BY <2>4, Zenon DEF Release, Pulsed
    <3>2. call'.stage = "done" /\ call'.method = call.method
      BY <1>1, <3>1, Zenon DEF Call
    <3>3. QED
      BY <2>1, <2>2, <3>1, <3>2, Zenon DEF Returned
  <2>5. QED
    BY <1>6, <2>3, <2>4
<1>7. CASE Poll
  <2>1. PICK outcome \in {"returned", "robot_error", "timeout"} :
          /\ outcome = "returned" => Confirmed(call.method)
          /\ call' = [call EXCEPT
               !.stage = IF \/ call.method \in Pulsed
                            \/ call.method \in Connects /\ outcome = "returned"
                         THEN "releasing" ELSE "done",
               !.outcome = outcome]
    BY <1>7, Zenon DEF Poll
  <2>2. call.stage = "waiting" /\ UNCHANGED <<output, move_id, input, connected>>
    BY <1>7, Zenon DEF Poll
  <2>3. /\ call'.method = call.method /\ call'.outcome = outcome
        /\ call'.stage \in {"releasing", "done"}
    BY <1>1, <2>1, Zenon DEF Call
  <2>4. OutputId' = OutputId /\ Queues(output')
    BY <1>1, <2>2, Zenon DEF OutputId, Queues
  <2>5. connected
    BY <2>2, Zenon DEF StageInv
  <2>6. QED
    BY <1>1, <2>1, <2>2, <2>3, <2>4, <2>5, Zenon DEF Returned
<1>8. CASE ResumeNumbering
  <2>1. /\ call.method \in Connects /\ call.stage = "releasing"
        /\ call' = [call EXCEPT !.stage = "done", !.outcome = "returned"]
        /\ UNCHANGED <<output, input, connected>>
    BY <1>8, Zenon DEF ResumeNumbering
  <2>2. call'.method = call.method /\ call'.stage = "done"
    BY <1>1, <2>1, Zenon DEF Call
  <2>3. call'.method # "WaitIdle"
    BY <2>1, <2>2, Zenon DEF Connects
  <2>4. OutputId' = OutputId /\ Queues(output')
    BY <1>1, <2>1, Zenon DEF OutputId, Queues
  <2>5. QED
    BY <1>1, <1>8, <2>1, <2>2, <2>3, <2>4, Zenon DEF Returned
<1>9. ASSUME ControlWrites(output, output')
      PROVE  OutputId' = OutputId /\ Queues(output')
  <2>1. output' .motion.move_id = output.motion.move_id
        /\ (output'.motion.setpoint <=> output.motion.setpoint)
    BY <1>1, <1>9, ControlKeepsCommand
  <2>2. QED
    BY <1>1, <2>1, Zenon DEF OutputId, Queues
<1>10. CASE ActivateRobot \/ DeactivateRobot \/ Home \/ ResetError
            \/ PauseMotion \/ ResumeMotion \/ ClearMotion \/ WaitIdle
  BY <1>1, <1>5, <1>9, <1>10, Zenon DEF Returned
<1>11. CASE RaiseResume \/ Release
  <2>1. connected
    BY <1>6, <1>11 DEF StageInv
  <2>2. QED
    BY <1>1, <1>6, <1>9, <1>11, <2>1, Zenon
<1>12. ASSUME NEW command \in Held, StartVelocityCommand(command) PROVE FALSE
  BY <1>12, Zenon DEF StartVelocityCommand, Begins, NeverHolds
<1>13. CASE \E command \in Queued : SendMotionCommand(command)
  BY <1>1, <1>2, <1>13, Zenon DEF Begun, Returned
<1>14. QED
  BY <1>1, <1>3, <1>4, <1>7, <1>8, <1>10, <1>11, <1>12, <1>13, Zenon DEF Start, Proceed

\* The inductive invariant of this section, on top of the types and the order
\* of the numbers.
WaitIdleInv ==
  ExchangeInv /\ OrderInv /\ StageInv /\ HoldInv /\ FreshInv /\ IdleInv /\ IdleConfirmed

LEMMA InitWaitIdleInv == InitExchange => WaitIdleInv
<1> SUFFICES ASSUME InitExchange PROVE WaitIdleInv
  OBVIOUS
<1> DEFINE r == [InitialRobot EXCEPT !.received_move_id = FirstMoveId]
<1>1. ExchangeInv /\ OrderInv
  BY InitExchangeInv, InitOrderInv
<1>2. /\ robot = r /\ wire = NoFrame /\ output = ZeroImage /\ move_id = 0 /\ input = NoInput
      /\ call = [method |-> "Disconnect", stage |-> "done", outcome |-> "returned"]
  BY Zenon DEF InitExchange, InitFacade
<1>3. Consistent(r)
  <2>1. r.holding = FALSE /\ r.state = "deactivated" /\ r.error_code = "NONE"
    BY Zenon DEF InitialRobot
  <2>2. QED
    BY <2>1, Zenon DEF Consistent
<1> HIDE DEF r
<1>4. /\ ~ZeroImage.motion.setpoint /\ ZeroImage.motion.move_id = 0
      /\ ~NoFrame.sent /\ ~NoFrame.image.motion.setpoint
      /\ ~NoInput.motion.end_of_block /\ NoInput.motion.move_id = 0
  BY Zenon DEF ZeroImage, NoFrame, NoInput
<1>5. HoldInv
  BY <1>2, <1>3, <1>4, Zenon DEF HoldInv, Queues
<1>6. StageInv /\ FreshInv /\ IdleConfirmed
  BY <1>2, <1>4, Zenon DEF StageInv, FreshInv, IdleConfirmed, Returned, OutputId
<1>7. Place(Received) \in Nat
  BY <1>1, IdsTyped, PlaceTyped
<1>8. IdleInv
  BY <1>2, <1>4, <1>7, PlaceZero DEF IdleInv
<1>9. QED
  BY <1>1, <1>5, <1>6, <1>8 DEF WaitIdleInv

LEMMA FacadeIdle ==
  ASSUME NeverHolds, WaitIdleInv, FacadeStep
  PROVE  (StageInv /\ HoldInv /\ FreshInv /\ IdleInv /\ IdleConfirmed)'
<1>1. /\ ExchangeInv /\ OrderInv /\ StageInv /\ HoldInv /\ FreshInv /\ IdleInv
  BY DEF WaitIdleInv
<1>2. /\ UNCHANGED <<robot, wire, input, connected>>
      /\ Queues(output')
      /\ \/ OutputId' = OutputId /\ (move_id' = move_id \/ ResumeNumbering)
         \/ OutputId' = 0 /\ move_id' = move_id
         \/ /\ connected /\ call.stage = "done" /\ OutputId' = move_id'
            /\ Place(move_id') > Place(move_id)
      /\ call'.stage # "done" => connected
      /\ call'.stage = "closing" => call'.method = "Disconnect" /\ OutputId' = 0
      /\ Returned("WaitIdle")' =>
           \/ call.stage = "waiting" /\ Confirmed("WaitIdle") /\ move_id' = move_id
                /\ call.method = "WaitIdle"
  BY <1>1, FacadeNumbers
<1>3. UNCHANGED <<Received, WireId>>
  BY <1>2, Zenon DEF Received, WireId
<1>4. \A id : (New(id)' <=> New(id)) /\ (Repeats(id)' <=> Repeats(id))
  BY <1>2, <1>3, Zenon DEF New, Repeats, Place
<1>5. ASSUME connected, call.stage = "done", OutputId' = move_id',
             Place(move_id') > Place(move_id), Place(move_id') \in Nat
      PROVE  New(OutputId')
  <2>1. Numbered
    BY <1>5 DEF Numbered
  <2>2. Place(Received) <= Place(move_id)
    BY <1>1, <2>1 DEF OrderInv, NumberInv
  <2>3. Place(move_id) \in Nat /\ Place(Received) \in Nat
    BY <1>1, IdsTyped, PlaceTyped
  <2>4. QED
    BY <1>5, <2>2, <2>3 DEF New
<1>6. Place(move_id') \in Nat
  <2>1. ExchangeInv'
    BY <1>1, NextExchangeInv DEF NextExchange
  <2>2. move_id' \in MoveIds
    BY <2>1, Zenon DEF ExchangeInv, FacadeOK
  <2>3. QED
    BY <2>2, PlaceTyped
<1>7. FreshInv'
  <2>1. wire.sent' /\ WireId' # 0 => New(WireId)' \/ Repeats(WireId)'
    BY <1>1, <1>2, <1>3, <1>4, Zenon DEF FreshInv, New, Repeats
  <2>2. OutputId' # 0 => \/ New(OutputId')
                         \/ Repeats(OutputId') /\ wire.sent /\ WireId = OutputId'
    BY <1>1, <1>2, <1>5, <1>6, Zenon DEF FreshInv
  <2>3. OutputId' # 0 => \/ New(OutputId)'
                         \/ Repeats(OutputId)' /\ wire'.sent /\ WireId' = OutputId'
    BY <1>2, <1>3, <2>2, Zenon DEF New, Repeats, Place
  <2>4. QED
    BY <2>1, <2>3, Zenon DEF FreshInv
<1>8. IdleInv'
  BY <1>1, <1>2, <1>3, Zenon DEF IdleInv, Place
<1>9. StageInv' /\ HoldInv'
  BY <1>1, <1>2, Zenon DEF StageInv, HoldInv, Consistent, Queues
<1>10. IdleConfirmed'
  <2>1. SUFFICES ASSUME Returned("WaitIdle")', move_id' # 0
                 PROVE  Received = move_id /\ robot.state # "moving" /\ move_id' = move_id
    BY <1>2, <1>3, Zenon DEF IdleConfirmed, Received
  <2>2. /\ call.stage = "waiting" /\ call.method = "WaitIdle" /\ move_id' = move_id
        /\ Confirmed("WaitIdle")
    BY <1>2, <2>1
  <2>3. input.motion.move_id = move_id /\ input.motion.end_of_block
    BY <2>1, <2>2, Zenon DEF Confirmed, Acknowledged, Connects
  <2>4. Numbered
    BY <1>1, <2>2 DEF Numbered, StageInv, Connects
  <2>5. Place(Received) <= Place(move_id)
    BY <1>1, <2>4 DEF OrderInv, NumberInv
  <2>6. Place(move_id) <= Place(Received)
    BY <1>1, <2>3 DEF IdleInv
  <2>7. /\ Place(move_id) \in Nat /\ Place(Received) \in Nat
        /\ move_id \in MoveIds /\ Received \in MoveIds
    BY <1>1, IdsTyped, PlaceTyped
  <2>8. Received = move_id
    BY <2>5, <2>6, <2>7, PlaceInjective
  <2>9. QED
    BY <1>1, <2>2, <2>3, <2>8 DEF IdleInv
<1>11. QED
  BY <1>7, <1>8, <1>9, <1>10

LEMMA OpenOrCloseIdle ==
  ASSUME WaitsForImage, WaitIdleInv, OpenOrClose
  PROVE  (StageInv /\ HoldInv /\ FreshInv /\ IdleInv /\ IdleConfirmed)'
<1>1. /\ ExchangeInv /\ OrderInv /\ StageInv /\ HoldInv /\ FreshInv /\ IdleInv
      /\ IdleConfirmed
  BY DEF WaitIdleInv
<1>2. /\ UNCHANGED robot
      /\ wire' = IF connected /\ connected' THEN wire ELSE NoFrame
      /\ connected \in BOOLEAN /\ call \in Call
  BY <1>1, Zenon DEF OpenOrClose, ExchangeInv, FacadeOK
<1>3. /\ ~ZeroImage.motion.setpoint /\ ZeroImage.motion.move_id = 0
      /\ ~NoFrame.sent /\ ~NoFrame.image.motion.setpoint
      /\ ~NoInput.motion.end_of_block /\ NoInput.motion.move_id = 0
  BY Zenon DEF ZeroImage, NoFrame, NoInput
<1>4. Received' = Received /\ Place(Received) \in Nat
  BY <1>1, <1>2, IdsTyped, PlaceTyped DEF Received
<1>5. CASE \E method \in Calls : Connect(method)
  <2>1. PICK method \in Calls : Connect(method)
    BY <1>5
  <2>2. method = "Connect"
    BY <2>1, Zenon DEF Connect, WaitsForImage, Connects
  <2>3. /\ connected = FALSE /\ connected' = TRUE
        /\ input' = NoInput /\ output' = ZeroImage
        /\ Goes("Connect", "waiting")
    BY <1>2, <2>1, <2>2, Zenon DEF Connect
  <2>4. call'.method = "Connect" /\ call'.stage = "waiting" /\ OutputId' = 0
        /\ wire' = NoFrame
    BY <1>2, <1>3, <2>3, Zenon DEF Goes, OutputId
  <2>5. HoldInv'
    BY <1>1, <1>2, <1>3, <2>3, <2>4, Zenon DEF HoldInv, Queues, Consistent
  <2>6. StageInv' /\ FreshInv' /\ IdleConfirmed'
    BY <1>3, <2>3, <2>4, Zenon DEF StageInv, FreshInv, IdleConfirmed, Returned
  <2>7. IdleInv'
    BY <1>3, <1>4, <2>3, PlaceZero DEF IdleInv, Place
  <2>8. QED
    BY <2>5, <2>6, <2>7
<1>6. CASE CloseTransport
  <2>1. /\ call.stage = "closing" /\ connected' = FALSE
        /\ call' = [call EXCEPT !.stage = "done", !.outcome = "returned"]
        /\ UNCHANGED <<output, move_id, input>>
    BY <1>6, Zenon DEF CloseTransport
  <2>2. /\ call'.method = "Disconnect" /\ call'.stage = "done" /\ wire' = NoFrame
        /\ OutputId = 0 /\ OutputId' = OutputId
    BY <1>1, <1>2, <2>1, Zenon DEF StageInv, Call, OutputId
  <2>3. HoldInv'
    BY <1>1, <1>2, <1>3, <2>1, <2>2, Zenon DEF HoldInv, Queues, Consistent
  <2>4. StageInv' /\ FreshInv' /\ IdleConfirmed'
    BY <1>3, <2>1, <2>2, Zenon DEF StageInv, FreshInv, IdleConfirmed, Returned
  <2>5. IdleInv'
    BY <1>1, <1>2, <1>4, <2>1, Zenon DEF IdleInv, Place
  <2>6. QED
    BY <2>3, <2>4, <2>5
<1>7. QED
  BY <1>5, <1>6 DEF OpenOrClose

LEMMA ProduceOutputIdle ==
  ASSUME WaitIdleInv, ProduceOutput
  PROVE  (StageInv /\ HoldInv /\ FreshInv /\ IdleInv /\ IdleConfirmed)'
<1>1. /\ ExchangeInv /\ StageInv /\ HoldInv /\ FreshInv /\ IdleInv /\ IdleConfirmed
  BY DEF WaitIdleInv
<1>2. wire' = [sent |-> TRUE, image |-> output] /\ UNCHANGED <<robot, facade>>
  BY Zenon DEF ProduceOutput
<1>3. /\ UNCHANGED <<output, move_id, call, input, connected, robot>>
      /\ wire'.image = output /\ wire'.sent
      /\ WireId' = OutputId /\ OutputId' = OutputId /\ Received' = Received
  BY <1>2, Zenon DEF facade, WireId, OutputId, Received
<1>4. StageInv' /\ HoldInv' /\ IdleInv' /\ IdleConfirmed'
  BY <1>1, <1>3, Zenon DEF StageInv, HoldInv, Queues, Consistent, IdleInv, IdleConfirmed,
     Returned, Place
<1>5. FreshInv'
  BY <1>1, <1>3, Zenon DEF FreshInv, New, Repeats, Place
<1>6. QED
  BY <1>4, <1>5

LEMMA InputIdle ==
  ASSUME WaitIdleInv, ProduceInput \/ LoseInput
  PROVE  (StageInv /\ HoldInv /\ FreshInv /\ IdleInv /\ IdleConfirmed)'
<1>1. /\ ExchangeInv /\ StageInv /\ HoldInv /\ FreshInv /\ IdleInv /\ IdleConfirmed
  BY DEF WaitIdleInv
<1>2. PICK elapsed \in ElapsedTimes : robot' = Advance(robot, elapsed)
  BY DEF ProduceInput, LoseInput
<1>3. /\ UNCHANGED <<output, move_id, call, connected, wire>>
      /\ input' = input \/ input' = View(robot')
  BY Zenon DEF ProduceInput, LoseInput, facade
<1>4. /\ elapsed \in Nat /\ robot \in Robot /\ Consistent(robot)
  BY <1>1, ConstantTypes, Zenon DEF ExchangeInv, RobotOK, HoldInv
<1>5. /\ Consistent(robot') /\ SameInputs(robot, robot') /\ SameMove(robot, robot')
      /\ robot'.state = "moving" => robot.state = "moving"
  BY <1>2, <1>4, AdvanceFollows, AdvanceLeaves, AdvancePower DEF Follows
<1>6. UNCHANGED <<Received, WireId, OutputId, robot.previous_move_id>>
  BY <1>3, <1>5, Zenon DEF Received, WireId, OutputId, SameMove, SameInputs
<1>7. Place(Received') \in Nat
  BY <1>1, <1>6, IdsTyped, PlaceTyped
<1>8. /\ StageInv' /\ FreshInv' /\ IdleConfirmed'
  BY <1>1, <1>3, <1>5, <1>6, Zenon DEF StageInv, FreshInv, IdleConfirmed, Returned, New,
     Repeats, Place, Received
<1>9. HoldInv'
  BY <1>1, <1>3, <1>5, Zenon DEF HoldInv, Queues
<1>10. CASE input' = input
  BY <1>1, <1>5, <1>6, <1>8, <1>9, <1>10, Zenon DEF IdleInv, Place
<1>11. CASE input' = View(robot')
  <2>1. /\ input'.motion.move_id = Received'
        /\ input'.motion.end_of_block <=> robot'.state # "moving"
    BY <1>11, Zenon DEF View, MotionStatus, Received
  <2>2. Place(input'.motion.move_id) <= Place(Received')
    BY <1>7, <2>1
  <2>3. QED
    BY <1>8, <1>9, <2>1, <2>2, Zenon DEF IdleInv, Place
<1>12. QED
  BY <1>3, <1>8, <1>9, <1>10, <1>11

LEMMA ConsumeOutputIdle ==
  ASSUME WaitIdleInv, ConsumeOutput
  PROVE  (StageInv /\ HoldInv /\ FreshInv /\ IdleInv /\ IdleConfirmed)'
<1>1. /\ ExchangeInv /\ OrderInv /\ StageInv /\ HoldInv /\ FreshInv /\ IdleInv
      /\ IdleConfirmed
  BY DEF WaitIdleInv
<1>2. PICK elapsed \in ElapsedTimes :
        robot' = ApplyOutputAssembly(robot, wire.image, elapsed)
  BY DEF ConsumeOutput
<1>3. /\ connected /\ wire.sent
      /\ UNCHANGED <<output, move_id, call, input, connected, wire, OutputId, WireId>>
  BY Zenon DEF ConsumeOutput, facade, WireId, OutputId
<1>4. /\ elapsed \in Nat /\ robot \in Robot /\ wire.image \in Image
      /\ Consistent(robot) /\ Queues(wire.image)
  BY <1>1, ConstantTypes, Zenon DEF ExchangeInv, RobotOK, WireOK, HoldInv
<1>5. /\ Consistent(robot')
      /\ robot'.state = "moving" =>
           \/ robot.state = "moving"
           \/ WireId # 0 /\ WireId # robot.previous_move_id /\ Received' = WireId
      /\ robot'.previous_move_id = WireId
      /\ Received' = Received \/ (WireId # 0 /\ Received' = WireId)
  <2> DEFINE a == ApplyOutputAssembly(robot, wire.image, elapsed)
  <2> DEFINE id == wire.image.motion.move_id
  <2>1. /\ Consistent(a)
        /\ a.state = "moving" =>
             \/ robot.state = "moving"
             \/ id # 0 /\ id # robot.previous_move_id /\ a.received_move_id = id
    BY <1>4, ApplyOutputAssemblyPower
  <2>2. a.previous_move_id = id
    BY <1>4, ApplyOutputAssemblyLeaves
  <2>3. a.received_move_id = robot.received_move_id \/ (id # 0 /\ a.received_move_id = id)
    BY <1>4, ApplyOutputAssemblyReceives
  <2>4. robot' = a
    BY <1>2
  <2> HIDE DEF a
  <2>5. QED
    BY <2>1, <2>2, <2>3, <2>4, Zenon DEF WireId, Received
<1>6. /\ Place(move_id) \in Nat /\ Place(Received) \in Nat /\ Place(WireId) \in Nat
      /\ move_id \in MoveIds /\ Received \in MoveIds /\ WireId \in MoveIds
  BY <1>1, IdsTyped, PlaceTyped
<1>7. Received' \in MoveIds /\ Place(Received') \in Nat
  BY <1>5, <1>6, Zenon
<1>8. StageInv' /\ HoldInv'
  BY <1>1, <1>3, <1>5, Zenon DEF StageInv, HoldInv, Queues
<1>9. CASE call.method \in Connects
  <2>1. OutputId = 0 /\ WireId = 0 /\ Received' = Received
    BY <1>1, <1>3, <1>5, <1>9, Zenon DEF OrderInv, ConnectInv
  <2>2. robot'.state = "moving" => robot.state = "moving"
    BY <1>5, <2>1
  <2>3. FreshInv'
    BY <1>3, <2>1, Zenon DEF FreshInv
  <2>4. IdleInv'
    BY <1>1, <1>3, <2>1, <2>2, Zenon DEF IdleInv, Place
  <2>5. IdleConfirmed'
    BY <1>3, <1>9 DEF IdleConfirmed, Returned, Connects
  <2>6. QED
    BY <1>8, <2>3, <2>4, <2>5
<1>10. CASE call.method \notin Connects
  <2>1. Numbered
    BY <1>3, <1>10 DEF Numbered
  <2>2. /\ Place(Received) <= Place(move_id)
        /\ OutputId \in {0, move_id}
        /\ \/ WireId = 0
           \/ Place(Received) <= Place(WireId) /\ Place(WireId) <= Place(move_id)
    BY <1>1, <1>3, <2>1 DEF OrderInv, NumberInv
  <2>3. Place(Received) <= Place(Received') /\ Place(Received') <= Place(move_id)
    BY <1>5, <1>6, <2>2
  <2>4. WireId # 0 => New(WireId) \/ Repeats(WireId)
    BY <1>1, <1>3 DEF FreshInv
  <2>5. WireId # 0 => \/ Place(WireId) > Place(Received')
                      \/ WireId = Received'
    <3>1. CASE Received' = Received
      BY <2>4, <3>1 DEF New, Repeats
    <3>2. CASE Received' = WireId
      BY <3>2
    <3>3. QED
      BY <1>5, <3>1, <3>2
  <2>6. WireId # 0 => New(WireId)' \/ Repeats(WireId)'
    BY <1>3, <1>5, <2>5, Zenon DEF New, Repeats, Place
  <2>7. OutputId # 0 => \/ Place(OutputId) > Place(Received')
                        \/ Received' = OutputId /\ WireId = OutputId
    <3>1. SUFFICES ASSUME OutputId # 0, ~(Place(OutputId) > Place(Received'))
                   PROVE  Received' = OutputId /\ WireId = OutputId
      OBVIOUS
    <3>2. OutputId = move_id
      BY <2>2, <3>1
    <3>3. Received' = OutputId
      BY <1>6, <1>7, <2>3, <3>1, <3>2, PlaceInjective
    <3>4. CASE Received' = WireId
      BY <3>3, <3>4
    <3>5. CASE Received' = Received
      <4>1. ~New(OutputId)
        BY <1>6, <3>2, <3>3, <3>5 DEF New
      <4>2. WireId = OutputId
        BY <1>1, <3>1, <4>1 DEF FreshInv
      <4>3. QED
        BY <3>3, <4>2
    <3>6. QED
      BY <1>5, <3>4, <3>5
  <2>8. OutputId # 0 => \/ New(OutputId)'
                        \/ Repeats(OutputId)' /\ WireId' = OutputId'
    BY <1>3, <1>5, <2>7, Zenon DEF New, Repeats, Place
  <2>9. FreshInv'
    BY <1>3, <2>6, <2>8, Zenon DEF FreshInv
  <2>10. ASSUME robot'.state = "moving", robot.state # "moving"
         PROVE  Received' = WireId /\ Place(WireId) > Place(Received)
    <3>1. WireId # 0 /\ WireId # robot.previous_move_id /\ Received' = WireId
      BY <1>5, <2>10
    <3>2. New(WireId)
      BY <2>4, <3>1 DEF Repeats
    <3>3. QED
      BY <3>1, <3>2 DEF New
  <2> DEFINE seen == input.motion.move_id
  <2>11. seen \in MoveIds /\ Place(seen) \in Nat /\ Place(seen) <= Place(Received)
    BY <1>1, PlaceTyped, Zenon DEF IdleInv, ExchangeInv, FacadeOK, InputImage
  <2>12. Place(seen) <= Place(Received')
    BY <1>6, <1>7, <2>3, <2>11
  <2>13. input.motion.end_of_block /\ seen = Received' => robot'.state # "moving"
    <3>1. SUFFICES ASSUME input.motion.end_of_block, seen = Received',
                          robot'.state = "moving"
                   PROVE  FALSE
      OBVIOUS
    <3>2. Place(Received) = Place(Received')
      BY <1>6, <1>7, <2>3, <2>11, <3>1
    <3>3. Received' = Received
      BY <1>6, <1>7, <3>2, PlaceInjective
    <3>4. robot.state # "moving"
      BY <1>1, <3>1, <3>3 DEF IdleInv
    <3>5. Place(Received') > Place(Received)
      BY <2>10, <3>1, <3>4
    <3>6. QED
      BY <1>6, <3>3, <3>5
  <2>14. IdleInv'
    BY <1>3, <2>12, <2>13, Zenon DEF IdleInv, Place
  <2>15. IdleConfirmed'
    <3>1. SUFFICES ASSUME Returned("WaitIdle"), move_id # 0
                   PROVE  Received' = move_id /\ robot'.state # "moving"
      BY <1>3, Zenon DEF IdleConfirmed, Returned, Received
    <3>2. Received = move_id /\ robot.state # "moving"
      BY <1>1, <3>1 DEF IdleConfirmed, Received
    <3>3. Received' = Received
      BY <1>6, <1>7, <2>3, <3>2, PlaceInjective
    <3>4. robot'.state # "moving"
      BY <1>6, <2>10, <3>2, <3>3
    <3>5. QED
      BY <3>2, <3>3, <3>4
  <2>16. QED
    BY <1>8, <2>9, <2>14, <2>15
<1>11. QED
  BY <1>9, <1>10

LEMMA WaitIdleInvAlways ==
  ASSUME WaitsForImage, NeverHolds PROVE ExchangeSpec => []WaitIdleInv
<1>1. WaitIdleInv /\ [NextExchange]_allVars => WaitIdleInv'
  <2> SUFFICES ASSUME WaitIdleInv, [NextExchange]_allVars PROVE WaitIdleInv'
    OBVIOUS
  <2>1. ExchangeInv' /\ OrderInv'
    BY NextExchangeInv, NextOrderStep DEF WaitIdleInv, OrderStep
  <2>2. (StageInv /\ HoldInv /\ FreshInv /\ IdleInv /\ IdleConfirmed)'
    <3>1. CASE UNCHANGED allVars
      <4>1. UNCHANGED <<output, move_id, call, input, connected, robot, wire>>
        BY <3>1 DEF allVars, facade
      <4>2. QED
        BY <4>1, ZenonT(60) DEF WaitIdleInv, StageInv, HoldInv, Queues, Consistent, FreshInv,
           New, Repeats, IdleInv, IdleConfirmed, Returned, Place, OutputId, WireId, Received
    <3>2. QED
      BY <3>1, FacadeIdle, OpenOrCloseIdle, ProduceOutputIdle, ConsumeOutputIdle, InputIdle
         DEF NextExchange
  <2>3. QED
    BY <2>1, <2>2 DEF WaitIdleInv
<1>2. QED
  BY <1>1, InitWaitIdleInv, PTL DEF ExchangeSpec

\* When WaitIdle returns, the robot has taken the last command and is done with
\* it, and it stays so until the next call: neither an image from before the
\* command nor the echo of another one ends the wait (WaitIdle in robot.py).
THEOREM IdleWhenReturned ==
  ASSUME WaitsForImage, NeverHolds PROVE ExchangeSpec => []IdleConfirmed
<1>1. WaitIdleInv => IdleConfirmed
  BY DEF WaitIdleInv
<1>2. QED
  BY <1>1, WaitIdleInvAlways, PTL

----------------------------------------------------------------------------
(* 6. ActivateRobot, DeactivateRobot and Home, for an application that     *)
(* resets no error and lets no activation or deactivation time out: after  *)
(* a timeout its bit stays latched, and may take effect under a later call *)
(* that reads it from an older image.                                      *)

NeverResets == Calls \cap {"ResetError", "StartVelocityCommand"} = {}
PowerIsAwaited == MayTimeOut \cap {"ActivateRobot", "DeactivateRobot"} = {}

During(method) == call.method = method /\ call.stage # "done"

\* ActivateRobot waits; DeactivateRobot waits, and has not released its bit.
Activating == During("ActivateRobot")
Deactivating == call.method = "DeactivateRobot" /\ call.stage = "waiting"

\* There is an input image once Connect is past its wait; the error state stays,
\* and no image shows it before it is there.
SeenInv ==
  /\ connected /\ ~(call.method = "Connect" /\ call.stage = "waiting") => input.live
  /\ call.stage = "raising" => call.method = "ResumeMotion"
  /\ call.stage = "closing" => call.method = "Disconnect"
  /\ ~output.robot.reset_error /\ ~wire.image.robot.reset_error
  /\ input.status.error => robot.state = "error"
  /\ input.status.homed => input.status.activated

\* What the rest of this section and the next one rest on.
SessionInv == WaitIdleInv /\ SeenInv

\* Between the calls that change the power, the robot is down or up and the
\* image says which. While one of them waits, what it waits for is true of the
\* robot once an image says so.
PowerAgrees ==
  /\ ~Activating /\ ~Deactivating =>
       /\ robot.state = "deactivated" \/ Activated(robot)
       /\ input.live => (input.status.activated <=> Activated(robot))
  /\ Activating =>
       /\ robot.state # "deactivating"
       /\ input.status.activated => Activated(robot)
  /\ Deactivating =>
       /\ robot.state # "activating"
       /\ input.live /\ ~input.status.activated /\ ~input.status.busy
            => robot.state = "deactivated"

\* No bit is latched or under way that would turn the robot against the last
\* request: an activation only while the robot is up or goes up, a deactivation
\* only while it is down.
PowerBits ==
  /\ ~(output.robot.activate /\ output.robot.deactivate)
  /\ ~(wire.image.robot.activate /\ wire.image.robot.deactivate)
  /\ output.robot.deactivate => During("DeactivateRobot")
  /\ Deactivating => output.robot.deactivate
  /\ ~Activating /\ robot.state \in {"deactivated", "deactivating"} =>
       ~output.robot.activate /\ ~(wire.sent /\ wire.image.robot.activate)
  /\ ~Deactivating /\ wire.sent /\ wire.image.robot.deactivate
       => robot.state = "deactivated"

\* A homing reference that was seen is there until a deactivation begins.
PowerKept ==
  /\ ~Deactivating /\ input.status.homed => robot.homed
  /\ call.method = "DeactivateRobot" /\ ~Deactivating => robot.state = "deactivated"
  /\ call.method = "ActivateRobot" /\ ~Activating => Activated(robot)
  /\ call.method = "Home" /\ call.outcome = "returned" => robot.homed

PowerInv == robot.state # "error" => PowerAgrees /\ PowerBits /\ PowerKept


\* What a step of the facade does to the bits of the power and of the pause.
SamePowerBits(v, w) ==
  /\ v.robot.activate <=> w.robot.activate
  /\ v.robot.deactivate <=> w.robot.deactivate

SamePauseBits(v, w) ==
  /\ v.motion.pause <=> w.motion.pause
  /\ v.motion.resume_motion <=> w.motion.resume_motion

\* A wait ends: what it waited for was seen, or an error, or its time was up.
Ends(outcome) ==
  /\ outcome \in {"returned", "robot_error", "timeout"}
  /\ outcome = "returned" => Confirmed(call.method)
  /\ outcome = "robot_error" => Aborted(call.method)
  /\ outcome = "timeout" => call.method \in MayTimeOut
  /\ call'.method = call.method
  /\ call'.outcome = outcome
  /\ call'.stage = IF \/ call.method \in Pulsed
                      \/ call.method \in Connects /\ outcome = "returned"
                   THEN "releasing" ELSE "done"

\* The calls that change no bit of the power and of the pause.
Others == {"Home", "ResetError", "SendMotionCommand", "StartVelocityCommand",
           "StopVelocityCommand", "ClearMotion", "WaitIdle"}

FacadeEffect ==
  \/ /\ Begun("ActivateRobot", "waiting", "pending")
     /\ output'.robot.activate /\ ~output'.robot.deactivate
     /\ SamePauseBits(output', output)
  \/ /\ Begun("DeactivateRobot", "waiting", "pending")
     /\ ~output'.robot.activate /\ output'.robot.deactivate
     /\ SamePauseBits(output', output)
  \/ /\ Begun("PauseMotion", "waiting", "pending")
     /\ output'.motion.pause
     /\ output'.motion.resume_motion <=> output.motion.resume_motion
     /\ SamePowerBits(output', output)
  \/ /\ Begun("ResumeMotion", "raising", "pending")
     /\ ~output'.motion.pause /\ ~output'.motion.resume_motion
     /\ SamePowerBits(output', output)
  \/ \E method \in Others :
       /\ method = "Home" => input.status.activated
       /\ \/ Begun(method, "waiting", "pending")
          \/ method # "Home" /\ Begun(method, "done", "returned")
       /\ SamePowerBits(output', output) /\ SamePauseBits(output', output)
  \/ /\ Begun("Disconnect", "closing", "pending")
     /\ ~output'.robot.activate /\ ~output'.robot.deactivate
     /\ ~output'.motion.pause /\ ~output'.motion.resume_motion
  \/ /\ call.stage = "waiting"
     /\ \E outcome : Ends(outcome)
     /\ SamePowerBits(output', output) /\ SamePauseBits(output', output)
  \/ /\ call.stage = "releasing" /\ call.method \in Pulsed
     /\ call'.method = call.method /\ call'.stage = "done"
     /\ call'.outcome = call.outcome
     /\ output'.robot.activate <=> output.robot.activate
     /\ output'.robot.deactivate
          <=> output.robot.deactivate /\ call.method # "DeactivateRobot"
     /\ output'.motion.pause <=> output.motion.pause
     /\ output'.motion.resume_motion
          <=> output.motion.resume_motion /\ call.method # "ResumeMotion"
  \/ /\ call.stage = "raising"
     /\ call'.method = "ResumeMotion" /\ call'.stage = "waiting"
     /\ call'.outcome = "pending"
     /\ SamePowerBits(output', output)
     /\ output'.motion.pause <=> output.motion.pause
     /\ output'.motion.resume_motion
  \/ /\ call.stage = "releasing" /\ call.method \in Connects
     /\ call'.method = call.method /\ call'.stage = "done"
     /\ SamePowerBits(output', output) /\ SamePauseBits(output', output)

LEMMA CommandBits ==
  ASSUME NEW image \in Image, NEW command, NEW setpoint, NEW id
  PROVE  LET written == [image EXCEPT !.command = command, !.motion.setpoint = setpoint,
                                      !.motion.move_id = id]
         IN /\ SamePowerBits(written, image) /\ SamePauseBits(written, image)
            /\ written.robot.reset_error <=> image.robot.reset_error
            /\ written.motion.clear_move <=> image.motion.clear_move
BY Zenon DEF Image, MotionControl, SamePowerBits, SamePauseBits

LEMMA FacadeBits ==
  ASSUME ExchangeInv, FacadeStep
  PROVE  /\ UNCHANGED <<robot, wire, input, connected>>
         /\ FacadeEffect
         /\ "ResetError" \notin Calls /\ output'.robot.reset_error
              => output.robot.reset_error
         /\ "ClearMotion" \notin Calls /\ output'.motion.clear_move
              => output.motion.clear_move
<1>1. /\ output \in Image /\ call \in Call
      /\ (Start \/ Proceed) /\ UNCHANGED <<robot, wire>>
  BY IdsTyped, Zenon DEF ExchangeInv, FacadeOK, FacadeStep
<1>2. CASE ActivateRobot
  <2>1. /\ output' = [output EXCEPT !.robot.activate = TRUE, !.robot.deactivate = FALSE]
        /\ UNCHANGED <<input, connected>> /\ Begun("ActivateRobot", "waiting", "pending")
    BY <1>2, Zenon DEF ActivateRobot, Begins, Goes, Idle, Begun
  <2>2. /\ output'.robot.activate /\ ~output'.robot.deactivate
        /\ output'.robot.reset_error = output.robot.reset_error
        /\ output'.motion = output.motion
    BY <1>1, <2>1, Zenon DEF Image, RobotControl
  <2>3. QED
    BY <1>1, <2>1, <2>2, Zenon DEF FacadeEffect, SamePauseBits
<1>3. CASE DeactivateRobot
  <2>1. /\ output' = [output EXCEPT !.robot.deactivate = TRUE,
                                    !.robot.activate = FALSE, !.robot.home = FALSE]
        /\ UNCHANGED <<input, connected>> /\ Begun("DeactivateRobot", "waiting", "pending")
    BY <1>3, Zenon DEF DeactivateRobot, Begins, Goes, Idle, Begun
  <2>2. /\ ~output'.robot.activate /\ output'.robot.deactivate
        /\ output'.robot.reset_error = output.robot.reset_error
        /\ output'.motion = output.motion
    BY <1>1, <2>1, Zenon DEF Image, RobotControl
  <2>3. QED
    BY <1>1, <2>1, <2>2, Zenon DEF FacadeEffect, SamePauseBits
<1>4. CASE PauseMotion
  <2>1. /\ output' = [output EXCEPT !.motion.pause = TRUE]
        /\ UNCHANGED <<input, connected>> /\ Begun("PauseMotion", "waiting", "pending")
    BY <1>4, Zenon DEF PauseMotion, Begins, Goes, Idle, Begun
  <2>2. /\ output'.motion.pause
        /\ output'.motion.resume_motion = output.motion.resume_motion
        /\ output'.motion.clear_move = output.motion.clear_move
        /\ output'.robot = output.robot
    BY <1>1, <2>1, Zenon DEF Image, MotionControl
  <2>3. QED
    BY <1>1, <2>1, <2>2, Zenon DEF FacadeEffect, SamePowerBits
<1>5. CASE ResumeMotion
  <2>1. /\ output' = [output EXCEPT !.motion.pause = FALSE, !.motion.clear_move = FALSE,
                                    !.motion.resume_motion = FALSE]
        /\ UNCHANGED <<input, connected>> /\ Begun("ResumeMotion", "raising", "pending")
    BY <1>5, Zenon DEF ResumeMotion, Begins, Goes, Idle, Begun
  <2>2. /\ ~output'.motion.pause /\ ~output'.motion.resume_motion
        /\ ~output'.motion.clear_move
        /\ output'.robot = output.robot
    BY <1>1, <2>1, Zenon DEF Image, MotionControl
  <2>3. QED
    BY <1>1, <2>1, <2>2, Zenon DEF FacadeEffect, SamePowerBits
<1>6. ASSUME NEW method \in Others,
             \/ Begun(method, "waiting", "pending")
             \/ method # "Home" /\ Begun(method, "done", "returned"),
             method = "Home" => input.status.activated,
             SamePowerBits(output', output), SamePauseBits(output', output)
      PROVE  FacadeEffect
  BY <1>6, Zenon DEF FacadeEffect
<1>7. CASE Home
  <2>1. /\ output' = [output EXCEPT !.robot.home = TRUE]
        /\ UNCHANGED <<input, connected>> /\ Begun("Home", "waiting", "pending")
        /\ input.status.activated
    BY <1>7, Zenon DEF Home, Begins, Goes, Idle, Begun
  <2>2. /\ output'.motion = output.motion
        /\ output'.robot.activate = output.robot.activate
        /\ output'.robot.deactivate = output.robot.deactivate
        /\ output'.robot.reset_error = output.robot.reset_error
    BY <1>1, <2>1, Zenon DEF Image, RobotControl
  <2>3. SamePowerBits(output', output) /\ SamePauseBits(output', output)
    BY <2>2, Zenon DEF SamePowerBits, SamePauseBits
  <2>4. "Home" \in Others /\ "Home" \in Calls
    BY <2>1, Zenon DEF Others, Begun
  <2>5. FacadeEffect
    BY <1>6, <2>1, <2>3, <2>4
  <2>6. QED
    BY <1>1, <2>1, <2>2, <2>4, <2>5, Zenon
<1>8. CASE ResetError
  <2>1. /\ output' = [output EXCEPT !.robot.reset_error = TRUE]
        /\ UNCHANGED <<input, connected>> /\ Begun("ResetError", "waiting", "pending")
    BY <1>8, Zenon DEF ResetError, Begins, Goes, Idle, Begun
  <2>2. /\ output'.motion = output.motion
        /\ output'.robot.activate = output.robot.activate
        /\ output'.robot.deactivate = output.robot.deactivate
    BY <1>1, <2>1, Zenon DEF Image, RobotControl
  <2>3. SamePowerBits(output', output) /\ SamePauseBits(output', output)
    BY <2>2, Zenon DEF SamePowerBits, SamePauseBits
  <2>4. "ResetError" \in Others /\ "ResetError" \in Calls
    BY <2>1, Zenon DEF Others, Begun
  <2>5. FacadeEffect
    BY <1>6, <2>1, <2>3, <2>4
  <2>6. QED
    BY <1>1, <2>1, <2>2, <2>4, <2>5, Zenon
<1>16. CASE ClearMotion
  <2>1. /\ output' = [output EXCEPT !.motion.clear_move = TRUE]
        /\ UNCHANGED <<input, connected>> /\ Begun("ClearMotion", "waiting", "pending")
    BY <1>16, Zenon DEF ClearMotion, Begins, Goes, Idle, Begun
  <2>2. /\ output'.robot = output.robot
        /\ output'.motion.pause = output.motion.pause
        /\ output'.motion.resume_motion = output.motion.resume_motion
    BY <1>1, <2>1, Zenon DEF Image, MotionControl
  <2>3. SamePowerBits(output', output) /\ SamePauseBits(output', output)
    BY <2>2, Zenon DEF SamePowerBits, SamePauseBits
  <2>4. "ClearMotion" \in Others /\ "ClearMotion" \in Calls
    BY <2>1, Zenon DEF Others, Begun
  <2>5. FacadeEffect
    BY <1>6, <2>1, <2>3, <2>4
  <2>6. QED
    BY <1>1, <2>1, <2>2, <2>4, <2>5, Zenon
<1>17. ASSUME NEW command, SendMotionCommand(command)
      PROVE  /\ UNCHANGED <<robot, wire, input, connected>>
             /\ FacadeEffect
             /\ output'.robot.reset_error => output.robot.reset_error
             /\ output'.motion.clear_move => output.motion.clear_move
  <2>1. /\ output' = [output EXCEPT !.command = command, !.motion.setpoint = TRUE,
                                    !.motion.move_id = move_id']
        /\ UNCHANGED <<input, connected>> /\ Begun("SendMotionCommand", "done", "returned")
    BY <1>17, Zenon DEF SendMotionCommand, Begins, Returns, Idle, Begun
  <2>2. /\ SamePowerBits(output', output) /\ SamePauseBits(output', output)
        /\ output'.robot.reset_error <=> output.robot.reset_error
        /\ output'.motion.clear_move <=> output.motion.clear_move
    BY <1>1, <2>1, CommandBits, Zenon
  <2>3. "SendMotionCommand" \in Others /\ "SendMotionCommand" # "Home"
    BY Zenon DEF Others
  <2>4. FacadeEffect
    BY <1>6, <2>1, <2>2, <2>3
  <2>5. QED
    BY <1>1, <2>1, <2>2, <2>4, Zenon
<1>18. ASSUME NEW command, StartVelocityCommand(command)
      PROVE  /\ UNCHANGED <<robot, wire, input, connected>>
             /\ FacadeEffect
             /\ output'.robot.reset_error => output.robot.reset_error
             /\ output'.motion.clear_move => output.motion.clear_move
  <2>1. /\ output' = [output EXCEPT !.command = command, !.motion.setpoint = TRUE,
                                    !.motion.move_id = 0]
        /\ UNCHANGED <<input, connected>> /\ Begun("StartVelocityCommand", "done", "returned")
    BY <1>18, Zenon DEF StartVelocityCommand, Begins, Returns, Idle, Begun
  <2>2. /\ SamePowerBits(output', output) /\ SamePauseBits(output', output)
        /\ output'.robot.reset_error <=> output.robot.reset_error
        /\ output'.motion.clear_move <=> output.motion.clear_move
    BY <1>1, <2>1, CommandBits, Zenon
  <2>3. "StartVelocityCommand" \in Others /\ "StartVelocityCommand" # "Home"
    BY Zenon DEF Others
  <2>4. FacadeEffect
    BY <1>6, <2>1, <2>2, <2>3
  <2>5. QED
    BY <1>1, <2>1, <2>2, <2>4, Zenon
<1>19. ASSUME NEW command, StopVelocityCommand
      PROVE  /\ UNCHANGED <<robot, wire, input, connected>>
             /\ FacadeEffect
             /\ output'.robot.reset_error => output.robot.reset_error
             /\ output'.motion.clear_move => output.motion.clear_move
  <2>1. /\ output' = [output EXCEPT !.command = ZeroImage.command, !.motion.setpoint = FALSE,
                                    !.motion.move_id = 0]
        /\ UNCHANGED <<input, connected>> /\ Begun("StopVelocityCommand", "done", "returned")
    BY <1>19, Zenon DEF StopVelocityCommand, Begins, Returns, Idle, Begun
  <2>2. /\ SamePowerBits(output', output) /\ SamePauseBits(output', output)
        /\ output'.robot.reset_error <=> output.robot.reset_error
        /\ output'.motion.clear_move <=> output.motion.clear_move
    BY <1>1, <2>1, CommandBits, Zenon
  <2>3. "StopVelocityCommand" \in Others /\ "StopVelocityCommand" # "Home"
    BY Zenon DEF Others
  <2>4. FacadeEffect
    BY <1>6, <2>1, <2>2, <2>3
  <2>5. QED
    BY <1>1, <2>1, <2>2, <2>4, Zenon
<1>9. CASE WaitIdle
  <2>1. UNCHANGED <<output, input, connected>> /\ Begun("WaitIdle", "waiting", "pending")
    BY <1>9, Zenon DEF WaitIdle, Begins, Goes, Idle, Begun
  <2>2. SamePowerBits(output', output) /\ SamePauseBits(output', output)
    BY <2>1, Zenon DEF SamePowerBits, SamePauseBits
  <2>3. "WaitIdle" \in Others
    BY Zenon DEF Others
  <2>4. FacadeEffect
    BY <1>6, <2>1, <2>2, <2>3
  <2>5. QED
    BY <1>1, <2>1, <2>4, Zenon
<1>10. CASE Disconnect
  <2>1. /\ output' = ZeroImage
        /\ UNCHANGED <<input, connected>> /\ Begun("Disconnect", "closing", "pending")
    BY <1>10, Zenon DEF Disconnect, Begins, Goes, Idle, Begun
  <2>2. /\ ~output'.robot.activate /\ ~output'.robot.deactivate
        /\ ~output'.robot.reset_error /\ ~output'.motion.clear_move
        /\ ~output'.motion.pause /\ ~output'.motion.resume_motion
    BY <2>1, Zenon DEF ZeroImage
  <2>3. QED
    BY <1>1, <2>1, <2>2, Zenon DEF FacadeEffect
<1>11. CASE Poll
  <2>1. PICK outcome \in {"returned", "robot_error", "timeout"} :
          /\ outcome = "returned" => Confirmed(call.method)
          /\ outcome = "robot_error" => Aborted(call.method)
          /\ outcome = "timeout" => call.method \in MayTimeOut
          /\ call' = [call EXCEPT
               !.stage = IF \/ call.method \in Pulsed
                            \/ call.method \in Connects /\ outcome = "returned"
                         THEN "releasing" ELSE "done",
               !.outcome = outcome]
    BY <1>11, Zenon DEF Poll
  <2>2. call.stage = "waiting" /\ UNCHANGED <<output, input, connected>>
    BY <1>11, Zenon DEF Poll
  <2>3. Ends(outcome)
    BY <1>1, <2>1, Zenon DEF Ends, Call
  <2>4. SamePowerBits(output', output) /\ SamePauseBits(output', output)
    BY <2>2, Zenon DEF SamePowerBits, SamePauseBits
  <2>5. FacadeEffect
    BY <2>2, <2>3, <2>4, Zenon DEF FacadeEffect
  <2>6. QED
    BY <1>1, <2>2, <2>5, Zenon
<1>12. CASE Release
  <2>1. /\ call.method \in Pulsed /\ call.stage = "releasing"
        /\ call' = [call EXCEPT !.stage = "done"] /\ UNCHANGED <<input, connected>>
        /\ \/ /\ call.method = "DeactivateRobot"
              /\ output' = [output EXCEPT !.robot.deactivate = FALSE]
           \/ call.method = "Home" /\ output' = [output EXCEPT !.robot.home = FALSE]
           \/ /\ call.method = "ResetError"
              /\ output' = [output EXCEPT !.robot.reset_error = FALSE]
           \/ /\ call.method = "ResumeMotion"
              /\ output' = [output EXCEPT !.motion.resume_motion = FALSE]
           \/ /\ call.method = "ClearMotion"
              /\ output' = [output EXCEPT !.motion.clear_move = FALSE]
    BY <1>12, Zenon DEF Release, Pulsed
  <2> DEFINE Bits ==
        /\ output'.robot.activate <=> output.robot.activate
        /\ output'.robot.deactivate
             <=> output.robot.deactivate /\ call.method # "DeactivateRobot"
        /\ output'.robot.reset_error => output.robot.reset_error
        /\ output'.motion.pause <=> output.motion.pause
        /\ output'.motion.resume_motion
             <=> output.motion.resume_motion /\ call.method # "ResumeMotion"
        /\ output'.motion.clear_move => output.motion.clear_move
  <2>6. ASSUME call.method = "DeactivateRobot",
               output' = [output EXCEPT !.robot.deactivate = FALSE]
        PROVE  Bits
    <3>1. /\ output'.motion = output.motion
          /\ output'.robot.activate = output.robot.activate
          /\ output'.robot.reset_error = output.robot.reset_error
          /\ ~output'.robot.deactivate
      BY <1>1, <2>6, Zenon DEF Image, RobotControl
    <3>2. QED
      BY <2>6, <3>1, Zenon
  <2>7. ASSUME call.method = "Home",
               output' = [output EXCEPT !.robot.home = FALSE]
        PROVE  Bits
    <3>1. /\ output'.motion = output.motion
          /\ output'.robot.activate = output.robot.activate
          /\ output'.robot.deactivate = output.robot.deactivate
          /\ output'.robot.reset_error = output.robot.reset_error
      BY <1>1, <2>7, Zenon DEF Image, RobotControl
    <3>2. QED
      BY <2>7, <3>1, Zenon
  <2>8. ASSUME call.method = "ResetError",
               output' = [output EXCEPT !.robot.reset_error = FALSE]
        PROVE  Bits
    <3>1. /\ output'.motion = output.motion
          /\ output'.robot.activate = output.robot.activate
          /\ output'.robot.deactivate = output.robot.deactivate
          /\ ~output'.robot.reset_error
      BY <1>1, <2>8, Zenon DEF Image, RobotControl
    <3>2. QED
      BY <2>8, <3>1, Zenon
  <2>9. ASSUME call.method = "ResumeMotion",
               output' = [output EXCEPT !.motion.resume_motion = FALSE]
        PROVE  Bits
    <3>1. /\ output'.robot = output.robot
          /\ output'.motion.pause = output.motion.pause
          /\ output'.motion.clear_move = output.motion.clear_move
          /\ ~output'.motion.resume_motion
      BY <1>1, <2>9, Zenon DEF Image, MotionControl
    <3>2. QED
      BY <2>9, <3>1, Zenon
  <2>10. ASSUME call.method = "ClearMotion",
               output' = [output EXCEPT !.motion.clear_move = FALSE]
        PROVE  Bits
    <3>1. /\ output'.robot = output.robot
          /\ output'.motion.pause = output.motion.pause
          /\ output'.motion.resume_motion = output.motion.resume_motion
          /\ ~output'.motion.clear_move
      BY <1>1, <2>10, Zenon DEF Image, MotionControl
    <3>2. QED
      BY <2>10, <3>1, Zenon
  <2>2. Bits
    BY <2>1, <2>6, <2>7, <2>8, <2>9, <2>10, Zenon
  <2>3. call'.method = call.method /\ call'.stage = "done" /\ call'.outcome = call.outcome
    BY <1>1, <2>1, Zenon DEF Call
  <2>4. FacadeEffect
    BY <2>1, <2>2, <2>3, Zenon DEF FacadeEffect
  <2>5. QED
    BY <1>1, <2>1, <2>2, <2>4, Zenon
<1>13. CASE RaiseResume
  <2>1. /\ call.stage = "raising" /\ UNCHANGED <<input, connected>>
        /\ output' = [output EXCEPT !.motion.resume_motion = TRUE]
        /\ call'.method = "ResumeMotion" /\ call'.stage = "waiting"
        /\ call'.outcome = "pending"
    BY <1>13, Zenon DEF RaiseResume, Goes
  <2>2. /\ output'.motion.pause = output.motion.pause
        /\ output'.motion.resume_motion
        /\ output'.motion.clear_move = output.motion.clear_move
        /\ output'.robot = output.robot
    BY <1>1, <2>1, Zenon DEF Image, MotionControl
  <2>3. QED
    BY <1>1, <2>1, <2>2, Zenon DEF FacadeEffect, SamePowerBits
<1>14. CASE ResumeNumbering
  <2>1. /\ call.method \in Connects /\ call.stage = "releasing"
        /\ call' = [call EXCEPT !.stage = "done", !.outcome = "returned"]
        /\ UNCHANGED <<output, input, connected>>
    BY <1>14, Zenon DEF ResumeNumbering
  <2>2. call'.method = call.method /\ call'.stage = "done"
    BY <1>1, <2>1, Zenon DEF Call
  <2>3. QED
    BY <1>1, <2>1, <2>2, Zenon DEF FacadeEffect, SamePowerBits, SamePauseBits
<1>15. QED
  BY <1>1, <1>2, <1>3, <1>4, <1>5, <1>7, <1>8, <1>9, <1>10, <1>11, <1>12, <1>13, <1>14,
     <1>16, <1>17, <1>18, <1>19, Zenon DEF Start, Proceed

\* What a frame, and the time that passes with an input image, do to the robot.
LEMMA ConsumeOutputEffect ==
  ASSUME ExchangeInv, HoldInv, ConsumeOutput, ~wire.image.robot.reset_error
  PROVE  /\ robot'.state # "error" =>
              /\ robot.state # "error"
              /\ wire.image.robot.deactivate => PowersDown(robot, robot')
              /\ ~wire.image.robot.deactivate
                   => PowersUp(robot, robot', wire.image.robot.activate)
              /\ robot.homed /\ robot.state # "deactivating" => robot'.homed
         /\ ~wire.image.motion.clear_move =>
              (robot'.paused <=>
                 /\ robot.paused \/ wire.image.motion.pause
                 /\ ~(wire.image.motion.resume_motion /\ ~robot.previous_resume_motion))
         /\ robot'.previous_resume_motion = wire.image.motion.resume_motion
<1>1. PICK elapsed \in ElapsedTimes :
        robot' = ApplyOutputAssembly(robot, wire.image, elapsed)
  BY DEF ConsumeOutput
<1>2. /\ elapsed \in Nat /\ robot \in Robot /\ wire.image \in Image
      /\ Consistent(robot) /\ Queues(wire.image)
  BY ConstantTypes, Zenon DEF ExchangeInv, RobotOK, WireOK, HoldInv
<1> DEFINE a == ApplyOutputAssembly(robot, wire.image, elapsed)
<1>3. /\ a.state # "error" =>
           /\ robot.state # "error"
           /\ wire.image.robot.deactivate => PowersDown(robot, a)
           /\ ~wire.image.robot.deactivate
                => PowersUp(robot, a, wire.image.robot.activate)
           /\ robot.homed /\ robot.state # "deactivating" => a.homed
      /\ ~wire.image.motion.clear_move =>
           (a.paused <=>
              /\ robot.paused \/ wire.image.motion.pause
              /\ ~(wire.image.motion.resume_motion /\ ~robot.previous_resume_motion))
  BY <1>2, ApplyOutputAssemblyPower
<1>4. a.previous_resume_motion = wire.image.motion.resume_motion
  BY <1>2, ApplyOutputAssemblyLeaves
<1> HIDE DEF a
<1>5. robot' = a
  BY <1>1 DEF a
<1>6. QED
  BY <1>3, <1>4, <1>5, Zenon

LEMMA InputEffect ==
  ASSUME ExchangeInv, HoldInv, ProduceInput \/ LoseInput
  PROVE  /\ robot' \in Robot /\ Consistent(robot')
         /\ \/ robot'.state = robot.state
            \/ Activated(robot) /\ Activated(robot')
            \/ robot.state = "activating" /\ robot'.state = "activated"
            \/ robot.state = "deactivating" /\ robot'.state = "deactivated"
         /\ robot.homed /\ robot.state # "deactivating" => robot'.homed
         /\ SameInputs(robot, robot')
<1>1. PICK elapsed \in ElapsedTimes : robot' = Advance(robot, elapsed)
  BY DEF ProduceInput, LoseInput
<1>2. /\ elapsed \in Nat /\ robot \in Robot /\ Consistent(robot)
  BY ConstantTypes, Zenon DEF ExchangeInv, RobotOK, HoldInv
<1>3. QED
  BY <1>1, <1>2, AdvanceTyped, AdvanceFollows, AdvanceLeaves, AdvancePower DEF Follows

LEMMA SessionInvAlways ==
  ASSUME WaitsForImage, NeverResets PROVE ExchangeSpec => []SessionInv
<1>1. ExchangeSpec => []WaitIdleInv
  <2>1. NeverHolds
    BY Zenon DEF NeverResets, NeverHolds
  <2>2. QED
    BY <2>1, WaitIdleInvAlways
<1>2. InitExchange => SeenInv
  <2> SUFFICES ASSUME InitExchange PROVE SeenInv
    OBVIOUS
  <2>1. /\ wire = NoFrame /\ output = ZeroImage /\ input = NoInput /\ connected = FALSE
        /\ call = [method |-> "Disconnect", stage |-> "done", outcome |-> "returned"]
    BY Zenon DEF InitExchange, InitFacade
  <2>2. /\ ~output.robot.reset_error /\ ~wire.image.robot.reset_error
        /\ ~input.status.error /\ ~input.status.homed
    BY <2>1, Zenon DEF NoFrame, ZeroImage, NoInput
  <2>3. call.stage = "done"
    BY <2>1
  <2>4. QED
    BY <2>1, <2>2, <2>3 DEF SeenInv
<1>3. SessionInv /\ [NextExchange]_allVars => SeenInv'
  <2> SUFFICES ASSUME SessionInv, [NextExchange]_allVars PROVE SeenInv'
    OBVIOUS
  <2>1. /\ ExchangeInv /\ StageInv /\ HoldInv /\ SeenInv /\ call \in Call
        /\ connected \in BOOLEAN
    BY Zenon DEF SessionInv, WaitIdleInv, ExchangeInv, FacadeOK
  <2>2. CASE FacadeStep
    <3>1. /\ UNCHANGED <<robot, wire, input, connected>>
          /\ FacadeEffect
          /\ ~output'.robot.reset_error
      BY <2>1, <2>2, FacadeBits, Zenon DEF SeenInv, NeverResets
    <3>2. UNCHANGED <<robot.state, wire.sent, wire.image, input.live, input.status>>
      BY <3>1
    <3>3. ASSUME NEW outcome, Ends(outcome), call.method = "Connect"
          PROVE  input.live
      BY <3>3, Zenon DEF Ends, Aborted, Confirmed, WaitsForImage, Connects
    <3>4. connected' /\ ~(call.method = "Connect" /\ call.stage = "waiting")' => input.live'
      BY <2>1, <3>1, <3>2, <3>3, SMT DEF SeenInv, FacadeEffect, Begun, Ends
    <3>5. /\ (call.stage = "raising" => call.method = "ResumeMotion")'
          /\ (call.stage = "closing" => call.method = "Disconnect")'
      BY <2>1, <3>1, SMT DEF SeenInv, FacadeEffect, Begun, Ends, Others
    <3>6. QED
      BY <2>1, <3>1, <3>2, <3>4, <3>5, Zenon DEF SeenInv
  <2>3. CASE \E method \in Calls : Connect(method) /\ OpenOrClose
    <3>1. PICK method \in Calls : Connect(method) /\ OpenOrClose
      BY <2>3
    <3>2. method = "Connect"
      BY <3>1, Zenon DEF Connect, WaitsForImage, Connects
    <3>3. /\ connected = FALSE /\ connected' = TRUE /\ UNCHANGED robot
          /\ input' = NoInput /\ output' = ZeroImage /\ wire' = NoFrame
          /\ call'.method = "Connect" /\ call'.stage = "waiting"
      BY <2>1, <3>1, <3>2, Zenon DEF Connect, OpenOrClose, Goes
    <3>4. /\ ~NoFrame.image.robot.reset_error /\ ~ZeroImage.robot.reset_error
          /\ ~NoInput.status.error /\ ~NoInput.status.homed
      BY Zenon DEF NoFrame, ZeroImage, NoInput
    <3>5. QED
      BY <3>3, <3>4, SMT DEF SeenInv
  <2>4. CASE CloseTransport /\ OpenOrClose
    <3>1. /\ call.stage = "closing" /\ connected' = FALSE /\ UNCHANGED robot
          /\ call' = [call EXCEPT !.stage = "done", !.outcome = "returned"]
          /\ UNCHANGED <<output, input>>
          /\ wire' = NoFrame
      BY <2>1, <2>4, Zenon DEF CloseTransport, OpenOrClose
    <3>2. call'.stage = "done"
      BY <2>1, <3>1, Zenon DEF Call
    <3>3. ~NoFrame.image.robot.reset_error
      BY Zenon DEF NoFrame, ZeroImage
    <3>4. QED
      BY <2>1, <3>1, <3>2, <3>3, Zenon DEF SeenInv
  <2>5. CASE ProduceOutput
    <3>1. wire' = [sent |-> TRUE, image |-> output] /\ UNCHANGED <<robot, facade>>
      BY <2>5, Zenon DEF ProduceOutput
    <3>2. wire'.image = output /\ UNCHANGED <<output, call, input, connected, robot>>
      BY <3>1, Zenon DEF facade
    <3>3. QED
      BY <2>1, <3>2, Zenon DEF SeenInv
  <2>6. CASE ConsumeOutput
    <3>1. UNCHANGED <<output, call, input, connected, wire>>
      BY <2>6, Zenon DEF ConsumeOutput, facade
    <3>2. robot'.state # "error" => robot.state # "error"
      BY <2>1, <2>6, ConsumeOutputEffect, Zenon DEF SeenInv
    <3>3. QED
      BY <2>1, <3>1, <3>2, Zenon DEF SeenInv
  <2>7. CASE ProduceInput \/ LoseInput
    <3>1. /\ UNCHANGED <<output, call, connected, wire>>
          /\ input' = input \/ input' = View(robot')
      BY <2>7, Zenon DEF ProduceInput, LoseInput, facade
    <3>2. Consistent(robot') /\ (robot.state = "error" => robot'.state = "error")
      BY <2>1, <2>7, InputEffect DEF Activated
    <3>3. /\ View(robot').live
          /\ View(robot').status.homed => View(robot').status.activated
          /\ View(robot').status.error <=> robot'.error_code # "NONE"
      BY Zenon DEF View, Status
    <3>4. QED
      BY <2>1, <3>1, <3>2, <3>3, Zenon DEF SeenInv, Consistent
  <2>8. CASE UNCHANGED allVars
    <3>1. UNCHANGED <<output, call, input, connected, robot, wire>>
      BY <2>8 DEF allVars, facade
    <3>2. QED
      BY <2>1, <3>1, Zenon DEF SeenInv
  <2>9. QED
    BY <2>2, <2>3, <2>4, <2>5, <2>6, <2>7, <2>8, Zenon DEF NextExchange, OpenOrClose
<1>4. QED
  BY <1>1, <1>2, <1>3, PTL DEF ExchangeSpec, SessionInv

LEMMA InitPowers == InitExchange => PowerInv
<1> SUFFICES ASSUME InitExchange PROVE PowerInv
  OBVIOUS
<1>1. /\ wire = NoFrame /\ output = ZeroImage /\ input = NoInput /\ connected = FALSE
      /\ call = [method |-> "Disconnect", stage |-> "done", outcome |-> "returned"]
  BY Zenon DEF InitExchange, InitFacade
<1>2. robot.state = "deactivated"
  BY Zenon DEF InitExchange, InitialRobot
<1>3. /\ ~output.robot.reset_error /\ ~wire.image.robot.reset_error
      /\ ~output.robot.activate /\ ~output.robot.deactivate
      /\ ~wire.sent /\ ~wire.image.robot.activate /\ ~wire.image.robot.deactivate
      /\ ~input.live /\ ~input.status.error /\ ~input.status.homed
      /\ ~input.status.activated
  BY <1>1, Zenon DEF NoFrame, ZeroImage, NoInput
<1>4. call.method = "Disconnect" /\ call.stage = "done"
  BY <1>1
<1>5. QED
  BY <1>2, <1>3, <1>4 DEF PowerInv, PowerAgrees, PowerBits, PowerKept, Activating,
     Deactivating, During

\* A call that begins, or ends, agrees with what the image says.
LEMMA FacadePowers ==
  ASSUME PowerIsAwaited, SessionInv, PowerInv, FacadeStep
  PROVE  PowerInv'
<1>1. /\ ExchangeInv /\ StageInv /\ SeenInv /\ call \in Call
  BY Zenon DEF SessionInv, WaitIdleInv, ExchangeInv, FacadeOK
<1>2. UNCHANGED <<robot, wire, input, connected>> /\ FacadeEffect
  BY <1>1, FacadeBits, Zenon
<1>3. /\ UNCHANGED <<robot.state, robot.homed, wire.sent, wire.image, input.live, input.status>>
      /\ Activated(robot)' <=> Activated(robot)
  BY <1>2, Zenon DEF Activated
<1>5. SUFFICES ASSUME robot.state # "error"
               PROVE  (PowerAgrees /\ PowerBits /\ PowerKept)'
  BY <1>3, Zenon DEF PowerInv
<1>6. /\ PowerAgrees /\ PowerBits /\ PowerKept
      /\ ~input.status.error
  BY <1>1, <1>5, Zenon DEF PowerInv, SeenInv
<1>7. CASE Begun("ActivateRobot", "waiting", "pending")
        /\ output'.robot.activate /\ ~output'.robot.deactivate
  BY <1>1, <1>3, <1>6, <1>7, SMT DEF SeenInv, PowerAgrees, PowerBits, PowerKept, Activating,
     Deactivating, During, Begun, Activated
<1>8. CASE Begun("DeactivateRobot", "waiting", "pending")
        /\ ~output'.robot.activate /\ output'.robot.deactivate
  BY <1>1, <1>3, <1>6, <1>8, SMT DEF SeenInv, PowerAgrees, PowerBits, PowerKept, Activating,
     Deactivating, During, Begun, Activated
<1>9. ASSUME NEW method \in Others \cup {"PauseMotion", "ResumeMotion", "Disconnect"},
             NEW stage, NEW outcome, Begun(method, stage, outcome),
             method = "Home" => outcome = "pending",
             \/ SamePowerBits(output', output)
             \/ ~output'.robot.activate /\ ~output'.robot.deactivate
      PROVE  (PowerAgrees /\ PowerBits /\ PowerKept)'
  BY <1>1, <1>3, <1>6, <1>9, SMT DEF SeenInv, PowerAgrees, PowerBits, PowerKept, Activating,
     Deactivating, During, Begun, Activated, SamePowerBits, Others
<1>10. ASSUME call.stage = "waiting", NEW outcome, Ends(outcome), SamePowerBits(output', output)
       PROVE  (PowerAgrees /\ PowerBits /\ PowerKept)'
  <2>1. /\ outcome \in {"returned", "timeout"}
        /\ call.method \in {"ActivateRobot", "DeactivateRobot"} => outcome = "returned"
        /\ outcome = "returned" => Confirmed(call.method)
        /\ call'.method = call.method /\ call'.outcome = outcome
        /\ call'.stage \in {"releasing", "done"}
        /\ call.method \in {"DeactivateRobot", "Home"} => call'.stage = "releasing"
    BY <1>6, <1>10, SMT DEF Ends, Aborted, PowerIsAwaited, Pulsed
  <2>2. /\ call.method = "ActivateRobot" => input.status.activated
        /\ call.method = "DeactivateRobot" =>
             input.live /\ ~input.status.activated /\ ~input.status.busy
        /\ call.method = "Home" /\ outcome = "returned" => input.status.homed
    BY <1>1, <1>10, <2>1, Zenon DEF Confirmed, SeenInv, StageInv, Connects
  <2>3. QED
    BY <1>1, <1>3, <1>6, <1>10, <2>1, <2>2, SMT DEF SeenInv, PowerAgrees, PowerBits, PowerKept,
       Activating, Deactivating, During, Activated, SamePowerBits
<1>11. ASSUME call.stage = "releasing", call'.method = call.method, call'.stage = "done",
              call.method \in Pulsed \cup Connects,
              call'.outcome = call.outcome \/ call.method \in Connects,
              output'.robot.activate <=> output.robot.activate,
              output'.robot.deactivate
                <=> output.robot.deactivate /\ call.method # "DeactivateRobot"
       PROVE  (PowerAgrees /\ PowerBits /\ PowerKept)'
  <2>1. call.method # "ActivateRobot" /\ (call.method = "Home" => call'.outcome = call.outcome)
    BY <1>11, SMT DEF Pulsed, Connects
  <2>2. PowerAgrees'
    BY <1>3, <1>6, <1>11, <2>1, SMT DEF PowerAgrees, Activating, Deactivating, During, Activated
  <2>3. PowerBits'
    BY <1>3, <1>6, <1>11, <2>1, SMT DEF PowerBits, Activating, Deactivating, During
  <2>4. PowerKept'
    BY <1>3, <1>6, <1>11, <2>1, SMT DEF PowerKept, Activating, Deactivating, During, Activated
  <2>5. QED
    BY <2>2, <2>3, <2>4
<1>12. ASSUME call.stage = "raising", call'.method = "ResumeMotion", call'.stage = "waiting",
              SamePowerBits(output', output)
       PROVE  (PowerAgrees /\ PowerBits /\ PowerKept)'
  BY <1>1, <1>3, <1>6, <1>12, SMT DEF SeenInv, PowerAgrees, PowerBits, PowerKept,
     Activating, Deactivating, During, Activated, SamePowerBits
<1>13. CASE \E method \in Others :
       /\ method = "Home" => input.status.activated
       /\ \/ Begun(method, "waiting", "pending")
          \/ method # "Home" /\ Begun(method, "done", "returned")
       /\ SamePowerBits(output', output)
  BY <1>9, <1>13, Zenon
<1>14. ASSUME NEW method \in {"PauseMotion", "ResumeMotion", "Disconnect"}, NEW stage,
              Begun(method, stage, "pending"),
              \/ SamePowerBits(output', output)
              \/ ~output'.robot.activate /\ ~output'.robot.deactivate
       PROVE  (PowerAgrees /\ PowerBits /\ PowerKept)'
  <2>1. method \in Others \cup {"PauseMotion", "ResumeMotion", "Disconnect"}
    BY <1>14, Zenon
  <2>2. QED
    BY <1>9, <1>14, <2>1
<1>15. CASE \/ Begun("PauseMotion", "waiting", "pending") /\ SamePowerBits(output', output)
            \/ Begun("ResumeMotion", "raising", "pending") /\ SamePowerBits(output', output)
            \/ /\ Begun("Disconnect", "closing", "pending")
               /\ ~output'.robot.activate /\ ~output'.robot.deactivate
  BY <1>14, <1>15, Zenon
<1>16. CASE /\ call.stage = "releasing"
            /\ call'.method = call.method /\ call'.stage = "done"
            /\ \/ /\ call.method \in Pulsed /\ call'.outcome = call.outcome
                  /\ output'.robot.activate <=> output.robot.activate
                  /\ output'.robot.deactivate
                       <=> output.robot.deactivate /\ call.method # "DeactivateRobot"
               \/ /\ call.method \in Connects
                  /\ SamePowerBits(output', output)
  <2>1. call.method \in Connects => call.method # "DeactivateRobot"
    BY SMT DEF Connects
  <2>2. QED
    BY <1>11, <1>16, <2>1, Zenon DEF SamePowerBits
<1>17. CASE \/ /\ call.stage = "waiting"
               /\ \E outcome : Ends(outcome)
               /\ SamePowerBits(output', output)
            \/ /\ call.stage = "raising"
               /\ call'.method = "ResumeMotion" /\ call'.stage = "waiting"
               /\ SamePowerBits(output', output)
  BY <1>10, <1>12, <1>17, Zenon
<1>18. QED
  BY <1>2, <1>7, <1>8, <1>13, <1>15, <1>16, <1>17, Zenon DEF FacadeEffect

LEMMA OpenOrClosePowers ==
  ASSUME WaitsForImage, SessionInv, PowerInv, OpenOrClose PROVE PowerInv'
<1>1. /\ SeenInv /\ call \in Call
      /\ connected \in BOOLEAN /\ UNCHANGED robot
      /\ wire' = IF connected /\ connected' THEN wire ELSE NoFrame
  BY Zenon DEF SessionInv, WaitIdleInv, ExchangeInv, FacadeOK, OpenOrClose
<1>2. /\ ~NoFrame.sent /\ ~NoFrame.image.robot.activate
      /\ ~NoFrame.image.robot.deactivate /\ ~NoFrame.image.robot.reset_error
      /\ ~ZeroImage.robot.activate /\ ~ZeroImage.robot.deactivate
      /\ ~ZeroImage.robot.reset_error
      /\ ~NoInput.live /\ ~NoInput.status.error /\ ~NoInput.status.homed
  BY Zenon DEF NoFrame, ZeroImage, NoInput
<1>3. /\ UNCHANGED <<robot.state, robot.homed>>
      /\ Activated(robot)' <=> Activated(robot)
  BY <1>1, Zenon DEF Activated
<1>4. CASE \E method \in Calls : Connect(method)
  <2>1. PICK method \in Calls : Connect(method)
    BY <1>4
  <2>2. method = "Connect"
    BY <2>1, Zenon DEF Connect, WaitsForImage, Connects
  <2>3. /\ connected = FALSE /\ connected' = TRUE /\ call.stage = "done"
        /\ input' = NoInput /\ output' = ZeroImage
        /\ Goes("Connect", "waiting")
    BY <1>1, <2>1, <2>2, Zenon DEF Connect, Idle
  <2>4. call'.method = "Connect" /\ call'.stage = "waiting" /\ wire' = NoFrame
    BY <1>1, <2>3, Zenon DEF Goes
  <2>5. QED
    BY <1>1, <1>2, <1>3, <2>3, <2>4, SMT DEF PowerInv, PowerAgrees, PowerBits, PowerKept,
       Activating, Deactivating, During
<1>5. CASE CloseTransport
  <2>1. /\ call.stage = "closing" /\ connected' = FALSE
        /\ call' = [call EXCEPT !.stage = "done", !.outcome = "returned"]
        /\ UNCHANGED <<output, input>>
    BY <1>5, Zenon DEF CloseTransport
  <2>2. /\ call.method = "Disconnect" /\ call'.method = "Disconnect"
        /\ call'.stage = "done" /\ wire' = NoFrame
    BY <1>1, <2>1, Zenon DEF SeenInv, Call
  <2>3. /\ UNCHANGED <<input.status, input.live, input.status.activated,
                       input.status.homed, input.status.error>>
        /\ UNCHANGED <<output.robot, output.robot.activate, output.robot.deactivate,
                       output.robot.reset_error>>
    BY <2>1, Zenon
  <2>4. QED
    BY <1>1, <1>2, <1>3, <2>1, <2>2, <2>3, SMT DEF PowerInv, PowerAgrees, PowerBits, PowerKept,
       Activating, Deactivating, During
<1>6. QED
  BY <1>4, <1>5 DEF OpenOrClose

LEMMA ProduceOutputPowers ==
  ASSUME PowerInv, ProduceOutput PROVE PowerInv'
<1>2. wire' = [sent |-> TRUE, image |-> output] /\ UNCHANGED <<robot, facade>>
  BY Zenon DEF ProduceOutput
<1>3. /\ UNCHANGED <<output, call, input, connected, robot>>
      /\ wire'.image = output /\ wire'.sent
  BY <1>2, Zenon DEF facade
<1>5. ASSUME robot.state # "error" PROVE (PowerAgrees /\ PowerBits /\ PowerKept)'
  <2>1. PowerAgrees /\ PowerBits /\ PowerKept
    BY <1>5 DEF PowerInv
  <2>2. PowerAgrees' /\ PowerKept'
    BY <1>3, <2>1, Zenon DEF PowerAgrees, PowerKept, Activating, Deactivating, During, Activated
  <2>3. PowerBits'
    BY <1>3, <2>1, Zenon DEF PowerBits, PowerKept, Activating, Deactivating, During
  <2>4. QED
    BY <2>2, <2>3
<1>6. QED
  BY <1>3, <1>5, Zenon DEF PowerInv

LEMMA InputPowers ==
  ASSUME SessionInv, PowerInv, ProduceInput \/ LoseInput PROVE PowerInv'
<1>1. ExchangeInv /\ HoldInv /\ SeenInv
  BY DEF SessionInv, WaitIdleInv
<1>3. /\ UNCHANGED <<output, call, connected, wire>>
      /\ input' = input \/ input' = View(robot')
  BY Zenon DEF ProduceInput, LoseInput, facade
<1>5. /\ robot' \in Robot
      /\ \/ robot'.state = robot.state
         \/ Activated(robot) /\ Activated(robot')
         \/ robot.state = "activating" /\ robot'.state = "activated"
         \/ robot.state = "deactivating" /\ robot'.state = "deactivated"
      /\ robot.homed /\ robot.state # "deactivating" => robot'.homed
  BY <1>1, InputEffect
<1>6. robot.state = "error" <=> robot'.state = "error"
  BY <1>5, SMT DEF Activated
<1>7. CASE input' = input
  <2>2. ASSUME robot.state # "error" PROVE (PowerAgrees /\ PowerBits /\ PowerKept)'
    <3>1. PowerAgrees /\ PowerBits /\ PowerKept
      BY <2>2 DEF PowerInv
    <3>2. PowerAgrees'
      BY <1>3, <1>5, <1>7, <3>1, SMT DEF PowerAgrees, Activating, Deactivating, During, Activated
    <3>3. PowerBits'
      BY <1>3, <1>5, <1>7, <3>1, SMT DEF PowerBits, Activating, Deactivating, During, Activated
    <3>4. PowerKept'
      BY <1>3, <1>5, <1>7, <3>1, SMT DEF PowerAgrees, PowerKept, Activating, Deactivating,
         During, Activated
    <3>5. QED
      BY <3>2, <3>3, <3>4
  <2>3. QED
    BY <1>6, <2>2, Zenon DEF PowerInv
<1>8. CASE input' = View(robot')
  <2>1. /\ input'.live
        /\ input'.status.activated <=> Activated(robot')
        /\ input'.status.busy <=> robot'.state \in {"activating", "deactivating", "homing"}
        /\ input'.status.homed <=> Activated(robot') /\ robot'.homed
    BY <1>8, Zenon DEF View, Status
  <2>3. ASSUME robot.state # "error" PROVE (PowerAgrees /\ PowerBits /\ PowerKept)'
    <3>1. PowerAgrees /\ PowerBits /\ PowerKept
      BY <2>3 DEF PowerInv
    <3>2. robot' \in Robot /\ robot'.state # "error"
      BY <1>5, <1>6, <2>3
    <3>3. robot'.state \in {"deactivated", "activating", "deactivating"} \/ Activated(robot')
      BY <3>2, SMT DEF Activated, Robot, States
    <3>4. PowerAgrees'
      BY <1>3, <1>5, <2>1, <3>1, <3>3, SMT DEF PowerAgrees, Activating, Deactivating, During,
         Activated
    <3>5. PowerBits'
      BY <1>3, <1>5, <3>1, SMT DEF PowerBits, Activating, Deactivating, During, Activated
    <3>6. PowerKept'
      BY <1>3, <1>5, <2>1, <3>1, SMT DEF PowerAgrees, PowerKept, Activating, Deactivating,
         During, Activated
    <3>7. QED
      BY <3>4, <3>5, <3>6
  <2>4. QED
    BY <1>6, <2>3, Zenon DEF PowerInv
<1>9. QED
  BY <1>3, <1>7, <1>8

\* A frame turns the robot only the way the last request asks for.
LEMMA ConsumeOutputPowers ==
  ASSUME SessionInv, PowerInv, ConsumeOutput PROVE PowerInv'
<1>1. ExchangeInv /\ HoldInv /\ SeenInv /\ robot \in Robot
  BY DEF SessionInv, WaitIdleInv, ExchangeInv, RobotOK
<1>3. /\ wire.sent /\ UNCHANGED <<output, call, input, connected, wire>>
  BY Zenon DEF ConsumeOutput, facade
<1> DEFINE deactivate == wire.image.robot.deactivate
<1> DEFINE activate == wire.image.robot.activate
<1>5. robot'.state # "error" =>
        /\ robot.state # "error"
        /\ deactivate => PowersDown(robot, robot')
        /\ ~deactivate => PowersUp(robot, robot', activate)
        /\ robot.homed /\ robot.state # "deactivating" => robot'.homed
  BY <1>1, ConsumeOutputEffect DEF SeenInv
<1>7. ASSUME robot'.state # "error" PROVE (PowerAgrees /\ PowerBits /\ PowerKept)'
  <2>1. PowerAgrees /\ PowerBits /\ PowerKept
    BY <1>5, <1>7 DEF PowerInv
  <2>2. CASE deactivate
    <3>1. ~activate /\ (~Deactivating => robot.state = "deactivated")
      BY <1>3, <2>1, <2>2 DEF PowerBits
    <3>2. /\ robot'.state \in {"deactivated", "deactivating"}
          /\ robot.state = "deactivated" => robot'.state = "deactivated"
          /\ robot'.state = "deactivated" => robot.state \in {"deactivated", "deactivating"}
          /\ robot.homed /\ robot.state # "deactivating" => robot'.homed
      BY <1>5, <1>7, <2>2 DEF PowersDown
    <3>3. PowerAgrees'
      BY <1>3, <2>1, <3>1, <3>2, SMT DEF PowerAgrees, Activating, Deactivating, During, Activated
    <3>4. PowerBits'
      BY <1>3, <2>1, <3>1, <3>2, SMT DEF PowerBits, Activating, Deactivating, During, Activated
    <3>5. PowerKept'
      BY <1>3, <2>1, <3>1, <3>2, SMT DEF PowerKept, Activating, Deactivating, During, Activated
    <3>6. QED
      BY <3>3, <3>4, <3>5
  <2>3. CASE ~deactivate
    <3>1. /\ Activated(robot) => Activated(robot')
          /\ robot.state = "activating" => robot'.state = "activating" \/ Activated(robot')
          /\ robot.state = "deactivated"
               => robot'.state = "deactivated" \/ (activate /\ robot'.state = "activating")
          /\ robot.state = "deactivating"
               => \/ robot'.state \in {"deactivated", "deactivating"}
                  \/ activate /\ robot'.state = "activating"
          /\ robot.homed /\ robot.state # "deactivating" => robot'.homed
      BY <1>5, <1>7, <2>3 DEF PowersUp
    <3>2. ~Activating /\ robot.state \in {"deactivated", "deactivating"} => ~activate
      BY <1>3, <2>1 DEF PowerBits
    <3>3. \/ robot.state \in {"deactivated", "deactivating", "activating"}
          \/ Activated(robot)
      BY <1>1, <1>5, <1>7, SMT DEF Robot, States, Activated
    <3>4. PowerAgrees'
      BY <1>3, <2>1, <3>1, <3>2, <3>3, SMT DEF PowerAgrees, Activating, Deactivating, During,
         Activated
    <3>5. PowerBits'
      BY <1>3, <2>1, <2>3, <3>1, <3>2, <3>3, SMT DEF PowerBits, Activating, Deactivating, During,
         Activated
    <3>6. PowerKept'
      BY <1>3, <2>1, <3>1, <3>2, <3>3, SMT DEF PowerAgrees, PowerKept, Activating, Deactivating,
         During, Activated
    <3>7. QED
      BY <3>4, <3>5, <3>6
  <2>4. QED
    BY <2>2, <2>3
<1>8. QED
  BY <1>7 DEF PowerInv

LEMMA PowerInvAlways ==
  ASSUME WaitsForImage, NeverResets, PowerIsAwaited PROVE ExchangeSpec => []PowerInv
<1>1. SessionInv /\ PowerInv /\ [NextExchange]_allVars => PowerInv'
  <2> SUFFICES ASSUME SessionInv, PowerInv, [NextExchange]_allVars PROVE PowerInv'
    OBVIOUS
  <2>1. CASE UNCHANGED allVars
    <3>1. UNCHANGED <<output, call, input, connected, robot, wire>>
      BY <2>1 DEF allVars, facade
    <3>2. QED
      BY <3>1, Zenon DEF PowerInv, PowerAgrees, PowerBits, PowerKept, Activating,
         Deactivating, During, Activated
  <2>2. QED
    BY <2>1, FacadePowers, OpenOrClosePowers, ProduceOutputPowers, ConsumeOutputPowers,
       InputPowers DEF NextExchange
<1>2. QED
  BY <1>1, InitPowers, SessionInvAlways, PTL DEF ExchangeSpec

\* ActivateRobot, DeactivateRobot and Home confirm on the robot: what they
\* waited for is true of it when they return, and until the next call, unless
\* it fails. No image from before the request ends the wait, and no frame from
\* before it undoes what was confirmed (ActivateRobot, DeactivateRobot and Home
\* in robot.py).
THEOREM PowerWhenReturned ==
  ASSUME WaitsForImage, NeverResets, PowerIsAwaited PROVE ExchangeSpec => []PowerConfirmed
<1>1. PowerInv => PowerConfirmed
  BY SMT DEF PowerInv, PowerKept, PowerConfirmed, Returned, Activating, Deactivating,
     During, Activated
<1>2. QED
  BY <1>1, PowerInvAlways, PTL

----------------------------------------------------------------------------
(* 7. PauseMotion and ResumeMotion, for an application that does not clear *)
(* the motion, which pauses too, and lets neither of them time out.        *)

NeverClears == "ClearMotion" \notin Calls
PauseIsAwaited == MayTimeOut \cap {"PauseMotion", "ResumeMotion"} = {}

Pausing == During("PauseMotion")
Resuming == During("ResumeMotion")

\* A resume is seen by the robot because the frame before it had none: the
\* frames that kept the robot paused.
PauseBits ==
  /\ ~(output.motion.pause /\ output.motion.resume_motion)
  /\ ~(wire.image.motion.pause /\ wire.image.motion.resume_motion)
  /\ output.motion.resume_motion => Resuming
  /\ Resuming => ~output.motion.pause
  /\ Pausing => output.motion.pause
  /\ robot.paused => ~robot.previous_resume_motion

\* A frame changes the pause only for the call in progress.
PauseUnderWay ==
  /\ wire.sent /\ wire.image.motion.resume_motion /\ robot.paused => Resuming
  /\ output.motion.pause \/ (wire.sent /\ wire.image.motion.pause)
       => robot.paused \/ Pausing

\* Between the two calls the image says whether the robot is paused; while one
\* of them waits, what it waits for is true once an image says so.
PauseAgrees ==
  /\ input.live /\ ~Pausing /\ ~Resuming => (input.motion.paused <=> robot.paused)
  /\ Pausing /\ input.motion.paused => robot.paused
  /\ Resuming /\ input.live /\ ~input.motion.paused => ~robot.paused
  /\ call.method = "PauseMotion" /\ call.stage = "done" => robot.paused
  /\ call.method = "ResumeMotion" /\ call.stage \notin {"raising", "waiting"}
       => ~robot.paused /\ ~input.motion.paused

\* No bit asks to clear the motion.
ClearInv == ~output.motion.clear_move /\ ~wire.image.motion.clear_move

PauseInv ==
  /\ ClearInv
  /\ robot.state # "error" => PauseBits /\ PauseUnderWay /\ PauseAgrees

LEMMA InitPause == InitExchange => PauseInv
<1> SUFFICES ASSUME InitExchange PROVE PauseInv
  OBVIOUS
<1>1. /\ wire = NoFrame /\ output = ZeroImage /\ input = NoInput
      /\ call = [method |-> "Disconnect", stage |-> "done", outcome |-> "returned"]
  BY Zenon DEF InitExchange, InitFacade
<1>2. ~robot.paused
  BY Zenon DEF InitExchange, InitialRobot
<1>3. /\ ~output.motion.clear_move /\ ~wire.image.motion.clear_move
      /\ ~output.motion.pause /\ ~output.motion.resume_motion
      /\ ~wire.sent /\ ~wire.image.motion.pause /\ ~wire.image.motion.resume_motion
      /\ ~input.live
  BY <1>1, Zenon DEF NoFrame, ZeroImage, NoInput
<1>4. call.method = "Disconnect" /\ call.stage = "done"
  BY <1>1
<1>5. QED
  BY <1>2, <1>3, <1>4 DEF PauseInv, ClearInv, PauseBits, PauseUnderWay, PauseAgrees, Pausing,
     Resuming, During

LEMMA FacadePause ==
  ASSUME NeverClears, PauseIsAwaited, SessionInv, PauseInv, FacadeStep
  PROVE  PauseInv'
<1>1. /\ ExchangeInv /\ StageInv /\ SeenInv /\ call \in Call
  BY Zenon DEF SessionInv, WaitIdleInv, ExchangeInv, FacadeOK
<1>2. /\ UNCHANGED <<robot, wire, input, connected>> /\ FacadeEffect
      /\ ~output'.motion.clear_move
  BY <1>1, FacadeBits, Zenon DEF PauseInv, ClearInv, NeverClears
<1>3. UNCHANGED <<robot.state, robot.paused, robot.previous_resume_motion, wire.sent,
                  wire.image, input.live, input.status, input.motion>>
  BY <1>2
<1>4. ClearInv'
  BY <1>2, <1>3, Zenon DEF PauseInv, ClearInv
<1> DEFINE Goal == (PauseBits /\ PauseUnderWay /\ PauseAgrees)'
<1>5. SUFFICES ASSUME robot.state # "error" PROVE Goal
  BY <1>3, <1>4, Zenon DEF PauseInv
<1>6. /\ PauseBits /\ PauseUnderWay /\ PauseAgrees /\ ~input.status.error
  BY <1>1, <1>5, Zenon DEF PauseInv, SeenInv
<1>7. call.stage = "done" /\ connected => input.live
  BY <1>1, SMT DEF SeenInv
<1>8. ASSUME Begun("PauseMotion", "waiting", "pending"), output'.motion.pause,
             output'.motion.resume_motion <=> output.motion.resume_motion
      PROVE  Goal
  <2>1. PauseBits'
    BY <1>3, <1>6, <1>8, SMT DEF PauseBits, Pausing, Resuming, During, Begun
  <2>2. PauseUnderWay'
    BY <1>3, <1>6, <1>8, SMT DEF PauseUnderWay, Pausing, Resuming, During, Begun
  <2>3. PauseAgrees'
    BY <1>3, <1>6, <1>7, <1>8, SMT DEF PauseAgrees, Pausing, Resuming, During, Begun
  <2>4. QED
    BY <2>1, <2>2, <2>3
<1>9. ASSUME Begun("ResumeMotion", "raising", "pending"),
             ~output'.motion.pause, ~output'.motion.resume_motion
      PROVE  Goal
  <2>1. PauseBits'
    BY <1>3, <1>6, <1>9, SMT DEF PauseBits, Pausing, Resuming, During, Begun
  <2>2. PauseUnderWay'
    BY <1>3, <1>6, <1>9, SMT DEF PauseUnderWay, Pausing, Resuming, During, Begun
  <2>3. PauseAgrees'
    BY <1>3, <1>6, <1>7, <1>9, SMT DEF PauseAgrees, Pausing, Resuming, During, Begun
  <2>4. QED
    BY <2>1, <2>2, <2>3
<1>10. ASSUME NEW method \in Others \cup {"ActivateRobot", "DeactivateRobot", "Disconnect"},
              NEW stage, NEW outcome, Begun(method, stage, outcome),
              \/ SamePauseBits(output', output)
              \/ ~output'.motion.pause /\ ~output'.motion.resume_motion
       PROVE  Goal
  <2>1. method \notin {"PauseMotion", "ResumeMotion"}
    BY SMT DEF Others
  <2>2. PauseBits'
    BY <1>3, <1>6, <1>10, <2>1, SMT DEF PauseBits, SamePauseBits, Pausing, Resuming, During, Begun
  <2>3. PauseUnderWay'
    BY <1>3, <1>6, <1>10, <2>1, SMT DEF PauseUnderWay, SamePauseBits, Pausing, Resuming, During,
       Begun
  <2>4. PauseAgrees'
    BY <1>3, <1>6, <1>7, <1>10, <2>1, SMT DEF PauseAgrees, Pausing, Resuming, During, Begun
  <2>5. QED
    BY <2>2, <2>3, <2>4
<1>11. ASSUME call.stage = "waiting", NEW outcome, Ends(outcome), SamePauseBits(output', output)
       PROVE  Goal
  <2>1. /\ call'.method = call.method
        /\ call.method \in {"PauseMotion", "ResumeMotion"} => Confirmed(call.method)
        /\ call'.stage \in {"releasing", "done"}
        /\ call.method = "PauseMotion" => call'.stage = "done"
        /\ call.method = "ResumeMotion" => call'.stage = "releasing"
    BY <1>6, <1>11, SMT DEF Ends, Aborted, PauseIsAwaited, Pulsed, Connects
  <2>2. /\ call.method = "PauseMotion" => input.motion.paused
        /\ call.method = "ResumeMotion" => input.live /\ ~input.motion.paused
    BY <1>1, <1>11, <2>1, Zenon DEF Confirmed, SeenInv, StageInv, Connects
  <2>3. PauseBits'
    BY <1>3, <1>6, <1>11, <2>1, SMT DEF PauseBits, SamePauseBits, Pausing, Resuming, During
  <2>4. PauseUnderWay'
    BY <1>3, <1>6, <1>11, <2>1, <2>2, SMT DEF PauseUnderWay, PauseAgrees, SamePauseBits, Pausing,
       Resuming, During
  <2>5. PauseAgrees'
    BY <1>3, <1>6, <1>11, <2>1, <2>2, SMT DEF PauseAgrees, Pausing, Resuming, During
  <2>6. QED
    BY <2>3, <2>4, <2>5
<1>12. ASSUME call.stage = "releasing", call'.method = call.method, call'.stage = "done",
              call.method # "PauseMotion",
              output'.motion.pause <=> output.motion.pause,
              output'.motion.resume_motion
                <=> output.motion.resume_motion /\ call.method # "ResumeMotion"
       PROVE  Goal
  <2>1. PauseBits'
    BY <1>3, <1>6, <1>12, SMT DEF PauseBits, Pausing, Resuming, During
  <2>2. PauseUnderWay'
    BY <1>3, <1>6, <1>12, SMT DEF PauseUnderWay, PauseAgrees, Pausing, Resuming, During
  <2>3. PauseAgrees'
    BY <1>3, <1>6, <1>12, SMT DEF PauseAgrees, Pausing, Resuming, During
  <2>4. QED
    BY <2>1, <2>2, <2>3
<1>13. ASSUME call.stage = "raising", call'.method = "ResumeMotion", call'.stage = "waiting",
              output'.motion.pause <=> output.motion.pause
       PROVE  Goal
  <2>1. call.method = "ResumeMotion"
    BY <1>1, <1>13 DEF SeenInv
  <2>2. PauseBits'
    BY <1>3, <1>6, <1>13, <2>1, SMT DEF PauseBits, Pausing, Resuming, During
  <2>3. PauseUnderWay'
    BY <1>3, <1>6, <1>13, <2>1, SMT DEF PauseUnderWay, Pausing, Resuming, During
  <2>4. PauseAgrees'
    BY <1>3, <1>6, <1>13, <2>1, SMT DEF PauseAgrees, Pausing, Resuming, During
  <2>5. QED
    BY <2>2, <2>3, <2>4
<1> HIDE DEF Goal
<1>14. CASE \/ /\ Begun("PauseMotion", "waiting", "pending") /\ output'.motion.pause
               /\ output'.motion.resume_motion <=> output.motion.resume_motion
            \/ /\ Begun("ResumeMotion", "raising", "pending")
               /\ ~output'.motion.pause /\ ~output'.motion.resume_motion
            \/ /\ call.stage = "waiting"
               /\ \E outcome : Ends(outcome)
               /\ SamePauseBits(output', output)
            \/ /\ call.stage = "raising"
               /\ call'.method = "ResumeMotion" /\ call'.stage = "waiting"
               /\ output'.motion.pause <=> output.motion.pause
  BY <1>8, <1>9, <1>11, <1>13, <1>14, Zenon
<1>15. ASSUME NEW method \in {"ActivateRobot", "DeactivateRobot", "Disconnect"}, NEW stage,
              Begun(method, stage, "pending"),
              \/ SamePauseBits(output', output)
              \/ ~output'.motion.pause /\ ~output'.motion.resume_motion
       PROVE  Goal
  <2>1. method \in Others \cup {"ActivateRobot", "DeactivateRobot", "Disconnect"}
    BY <1>15, Zenon
  <2>2. QED
    BY <1>10, <1>15, <2>1
<1>16. CASE \/ Begun("ActivateRobot", "waiting", "pending") /\ SamePauseBits(output', output)
            \/ Begun("DeactivateRobot", "waiting", "pending") /\ SamePauseBits(output', output)
            \/ /\ Begun("Disconnect", "closing", "pending")
               /\ ~output'.motion.pause /\ ~output'.motion.resume_motion
  BY <1>15, <1>16, Zenon
<1>17. CASE \E method \in Others :
              /\ \/ Begun(method, "waiting", "pending")
                 \/ method # "Home" /\ Begun(method, "done", "returned")
              /\ SamePauseBits(output', output)
  BY <1>10, <1>17, Zenon
<1>18. CASE /\ call.stage = "releasing"
            /\ call'.method = call.method /\ call'.stage = "done"
            /\ \/ /\ call.method \in Pulsed
                  /\ output'.motion.pause <=> output.motion.pause
                  /\ output'.motion.resume_motion
                       <=> output.motion.resume_motion /\ call.method # "ResumeMotion"
               \/ /\ call.method \in Connects
                  /\ SamePauseBits(output', output)
  <2>1. /\ call.method \in Connects => call.method \notin {"PauseMotion", "ResumeMotion"}
        /\ call.method \in Pulsed => call.method # "PauseMotion"
    BY SMT DEF Connects, Pulsed
  <2>2. QED
    BY <1>12, <1>18, <2>1, Zenon DEF SamePauseBits
<1>19. QED
  BY <1>2, <1>14, <1>16, <1>17, <1>18, Zenon DEF FacadeEffect

LEMMA OpenOrClosePause ==
  ASSUME WaitsForImage, SessionInv, PauseInv, OpenOrClose PROVE PauseInv'
<1>1. /\ SeenInv /\ call \in Call
      /\ connected \in BOOLEAN /\ UNCHANGED robot
      /\ wire' = IF connected /\ connected' THEN wire ELSE NoFrame
  BY Zenon DEF SessionInv, WaitIdleInv, ExchangeInv, FacadeOK, OpenOrClose
<1>2. /\ ~NoFrame.sent /\ ~NoFrame.image.motion.pause
      /\ ~NoFrame.image.motion.resume_motion /\ ~NoFrame.image.motion.clear_move
      /\ ~ZeroImage.motion.pause /\ ~ZeroImage.motion.resume_motion
      /\ ~ZeroImage.motion.clear_move /\ ~NoInput.live
  BY Zenon DEF NoFrame, ZeroImage, NoInput
<1>3. UNCHANGED <<robot.state, robot.paused, robot.previous_resume_motion>>
  BY <1>1
<1>4. CASE \E method \in Calls : Connect(method)
  <2>1. PICK method \in Calls : Connect(method)
    BY <1>4
  <2>2. method = "Connect"
    BY <2>1, Zenon DEF Connect, WaitsForImage, Connects
  <2>3. /\ connected = FALSE /\ call.stage = "done"
        /\ input' = NoInput /\ output' = ZeroImage
        /\ Goes("Connect", "waiting")
    BY <1>1, <2>1, <2>2, Zenon DEF Connect, Idle
  <2>4. call'.method = "Connect" /\ call'.stage = "waiting" /\ wire' = NoFrame
    BY <1>1, <2>3, Zenon DEF Goes
  <2>5. QED
    BY <1>2, <1>3, <2>3, <2>4, SMT DEF PauseInv, ClearInv, PauseBits, PauseUnderWay,
       PauseAgrees, Pausing, Resuming, During
<1>5. CASE CloseTransport
  <2>1. /\ call.stage = "closing" /\ connected' = FALSE
        /\ call' = [call EXCEPT !.stage = "done", !.outcome = "returned"]
        /\ UNCHANGED <<output, input>>
    BY <1>5, Zenon DEF CloseTransport
  <2>2. /\ call.method = "Disconnect" /\ call'.method = "Disconnect"
        /\ call'.stage = "done" /\ wire' = NoFrame
    BY <1>1, <2>1, Zenon DEF SeenInv, Call
  <2>3. UNCHANGED <<input.live, input.motion, output.motion>>
    BY <2>1, Zenon
  <2>4. QED
    BY <1>2, <1>3, <2>2, <2>3, SMT DEF PauseInv, ClearInv, PauseBits, PauseUnderWay,
       PauseAgrees, Pausing, Resuming, During
<1>6. QED
  BY <1>4, <1>5 DEF OpenOrClose

LEMMA ProduceOutputPause ==
  ASSUME PauseInv, ProduceOutput PROVE PauseInv'
<1>1. wire' = [sent |-> TRUE, image |-> output] /\ UNCHANGED <<robot, facade>>
  BY Zenon DEF ProduceOutput
<1>2. /\ UNCHANGED <<output, call, input, robot>>
      /\ wire'.image = output /\ wire'.sent
  BY <1>1, Zenon DEF facade
<1>3. QED
  BY <1>2, Zenon DEF PauseInv, ClearInv, PauseBits, PauseUnderWay, PauseAgrees, Pausing,
     Resuming, During

LEMMA InputPause ==
  ASSUME SessionInv, PauseInv, ProduceInput \/ LoseInput PROVE PauseInv'
<1>1. ExchangeInv /\ HoldInv
  BY DEF SessionInv, WaitIdleInv
<1>2. /\ UNCHANGED <<output, call, wire>>
      /\ input' = input \/ input' = View(robot')
  BY Zenon DEF ProduceInput, LoseInput, facade
<1>3. /\ robot.state = "error" <=> robot'.state = "error"
      /\ UNCHANGED <<robot.paused, robot.previous_resume_motion>>
  BY <1>1, InputEffect DEF Activated, SameInputs
<1>4. CASE input' = input
  BY <1>2, <1>3, <1>4, Zenon DEF PauseInv, ClearInv, PauseBits, PauseUnderWay, PauseAgrees,
     Pausing, Resuming, During
<1>5. CASE input' = View(robot')
  <2>1. input'.motion.paused = robot'.paused
    BY <1>5, Zenon DEF View, MotionStatus
  <2>2. QED
    BY <1>2, <1>3, <2>1, Zenon DEF PauseInv, ClearInv, PauseBits, PauseUnderWay, PauseAgrees,
       Pausing, Resuming, During
<1>6. QED
  BY <1>2, <1>4, <1>5

\* A frame pauses the robot only for PauseMotion, and ends the pause only for
\* ResumeMotion.
LEMMA ConsumeOutputPause ==
  ASSUME SessionInv, PauseInv, ConsumeOutput PROVE PauseInv'
<1>1. ExchangeInv /\ HoldInv /\ SeenInv /\ robot \in Robot /\ wire.image \in Image
  BY DEF SessionInv, WaitIdleInv, ExchangeInv, RobotOK, WireOK
<1>2. /\ wire.sent /\ UNCHANGED <<output, call, input, wire>>
  BY Zenon DEF ConsumeOutput, facade
<1> DEFINE pause == wire.image.motion.pause
<1> DEFINE resume == wire.image.motion.resume_motion
<1>3. /\ robot'.state # "error" => robot.state # "error"
      /\ robot'.paused <=> /\ robot.paused \/ pause
                           /\ ~(resume /\ ~robot.previous_resume_motion)
      /\ robot'.previous_resume_motion = resume
  BY <1>1, ConsumeOutputEffect, Zenon DEF SeenInv, PauseInv, ClearInv
<1>4. ASSUME robot'.state # "error" PROVE (PauseBits /\ PauseUnderWay /\ PauseAgrees)'
  <2>1. PauseBits /\ PauseUnderWay /\ PauseAgrees
    BY <1>3, <1>4 DEF PauseInv
  <2>2. /\ robot'.paused => ~resume
        /\ pause => robot'.paused
        /\ pause /\ ~robot.paused => Pausing
        /\ robot.paused /\ ~robot'.paused => Resuming /\ resume
        /\ ~robot.paused /\ robot'.paused => Pausing /\ pause
    BY <1>2, <1>3, <2>1, Zenon DEF PauseBits, PauseUnderWay
  <2>3. PauseBits'
    BY <1>2, <1>3, <2>1, <2>2, Zenon DEF PauseBits, Pausing, Resuming, During
  <2>4. PauseUnderWay'
    BY <1>2, <2>1, <2>2, Zenon DEF PauseUnderWay, PauseBits, Pausing, Resuming, During
  <2>5. ~(Pausing /\ Resuming)
    BY SMT DEF Pausing, Resuming, During
  <2>6. PauseAgrees'
    <3>1. CASE robot'.paused <=> robot.paused
      BY <1>2, <2>1, <3>1, Zenon DEF PauseAgrees, Pausing, Resuming, During
    <3>2. CASE robot.paused /\ ~robot'.paused
      BY <1>2, <2>1, <2>2, <3>2, SMT DEF PauseAgrees, Pausing, Resuming, During
    <3>3. CASE ~robot.paused /\ robot'.paused
      BY <1>2, <2>1, <2>2, <3>3, SMT DEF PauseAgrees, Pausing, Resuming, During
    <3>4. QED
      BY <3>1, <3>2, <3>3
  <2>7. QED
    BY <2>3, <2>4, <2>6
<1>5. ClearInv'
  BY <1>2, Zenon DEF PauseInv, ClearInv
<1>6. QED
  BY <1>4, <1>5 DEF PauseInv

LEMMA PauseInvAlways ==
  ASSUME WaitsForImage, NeverResets, NeverClears, PauseIsAwaited
  PROVE  ExchangeSpec => []PauseInv
<1>1. SessionInv /\ PauseInv /\ [NextExchange]_allVars => PauseInv'
  <2> SUFFICES ASSUME SessionInv, PauseInv, [NextExchange]_allVars PROVE PauseInv'
    OBVIOUS
  <2>1. CASE UNCHANGED allVars
    <3>1. UNCHANGED <<output, call, input, robot, wire>>
      BY <2>1 DEF allVars, facade
    <3>2. QED
      BY <3>1, Zenon DEF PauseInv, ClearInv, PauseBits, PauseUnderWay, PauseAgrees, Pausing,
         Resuming, During
  <2>2. QED
    BY <2>1, FacadePause, OpenOrClosePause, ProduceOutputPause, ConsumeOutputPause,
       InputPause DEF NextExchange
<1>2. QED
  BY <1>1, InitPause, SessionInvAlways, PTL DEF ExchangeSpec

\* When PauseMotion returns the robot is paused, and when ResumeMotion returns it
\* is not, until the next call and unless it fails: each is confirmed on the
\* robot and not on an image from before it, although the pause of the robot is
\* a latch that a frame sets and only a rising edge of the resume bit releases.
THEOREM PauseWhenReturned ==
  ASSUME WaitsForImage, NeverResets, NeverClears, PauseIsAwaited
  PROVE  ExchangeSpec => []PauseConfirmed
<1>1. PauseInv => PauseConfirmed
  BY SMT DEF PauseInv, PauseAgrees, PauseConfirmed, Returned
<1>2. QED
  BY <1>1, PauseInvAlways, PTL

=============================================================================
