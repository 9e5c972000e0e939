--------------------------- MODULE LoopbackProofs ---------------------------
(***************************************************************************)
(* Theorems about the facade and the mock robot in one process, for any    *)
(* calls, commands, time-outs, timing and limits: there the facade needs   *)
(* none of the care that the same calls take over a connection             *)
(* (ExchangeProofs).                                                       *)
(*                                                                         *)
(* Section 1 is about the robot: what it does at once with an image.       *)
(* Section 2 is about the facade: what its steps do to the latched image.  *)
(* Section 3 puts the two together.                                        *)
(***************************************************************************)
EXTENDS Loopback, ExchangeProofs

----------------------------------------------------------------------------
(* 1. What the robot does with an image, at once.                          *)

\* What a robot has cleared, and that it is in error, outlive a visit.
LEMMA AdvanceKeeps ==
  ASSUME NEW r \in Robot, NEW elapsed \in Nat
  PROVE  /\ Advance(r, elapsed).cleared = r.cleared
         /\ r.state = "error" => r.holding \/ Advance(r, elapsed).state = "error"
<1> DEFINE s == Remaining(r.state_left, elapsed)
<1> DEFINE m == IF Frozen(r) THEN r.move_left ELSE Remaining(r.move_left, elapsed)
<1> DEFINE t == [r EXCEPT !.state_left = s, !.move_left = m]
<1>1. s \in Nat /\ m \in Nat
  BY RemainingTyped, Zenon DEF Robot
<1>2. \/ Due(r, elapsed) /\ Advance(r, elapsed) = Complete(t)
      \/ r.holding /\ Advance(r, elapsed) = Integrate(t, elapsed)
      \/ r.state = "moving" /\ Advance(r, elapsed) = Track(t)
      \/ Advance(r, elapsed) = t
  BY Zenon DEF Advance
<1> HIDE DEF s, m
<1>3. t \in Robot /\ t.cleared = r.cleared /\ t.state = r.state
  BY <1>1, Zenon DEF Robot
<1> HIDE DEF t
<1>4. /\ Complete(t).cleared = t.cleared
      /\ Integrate(t, elapsed).cleared = t.cleared
      /\ Track(t).cleared = t.cleared
  BY <1>3, Zenon DEF Complete, Integrate, Track, Robot
<1>5. ASSUME r.state = "error", ~r.holding PROVE Advance(r, elapsed) = t
  BY <1>2, <1>5 DEF Due
<1>6. QED
  BY <1>2, <1>3, <1>4, <1>5, Zenon

LEMMA ApplyRobotControlKeeps ==
  ASSUME NEW r \in Robot, NEW control \in RobotControl
  PROVE  ApplyRobotControl(r, control).cleared = r.cleared
<1> DEFINE m == ApplyModes(r, control)
<1>1. m \in Robot /\ m.cleared = r.cleared
  BY Zenon DEF ApplyModes, Robot, RobotControl
<1>2. Reset(r).cleared = r.cleared
  BY Zenon DEF Reset, Robot
<1>3. ApplyRobotControl(r, control) =
        IF r.state = "error" THEN IF control.reset_error THEN Reset(r) ELSE r
        ELSE ApplyPower(m, control)
  BY Zenon DEF ApplyRobotControl
<1> HIDE DEF m
<1>4. ApplyPower(m, control).cleared = m.cleared
  BY <1>1, Zenon DEF ApplyPower, Robot
<1>5. QED
  BY <1>1, <1>2, <1>3, <1>4, Zenon

LEMMA ReleaseVelocityKeeps ==
  ASSUME NEW r \in Robot
  PROVE  /\ ReleaseVelocity(r).cleared = r.cleared
         /\ r.state = "error" => ReleaseVelocity(r).state = "error"
<1> DEFINE d == [r EXCEPT !.holding = FALSE, !.joint_velocity = 0]
<1>1. d \in Robot /\ d.cleared = r.cleared /\ d.state = r.state
  BY DropTyped, Zenon DEF Robot
<1>2. ReleaseVelocity(r) = IF r.holding THEN Settle(d) ELSE r
  BY Zenon DEF ReleaseVelocity
<1> HIDE DEF d
<1>3. Settle(d).cleared = d.cleared /\ (d.state = "error" => Settle(d) = d)
  BY <1>1, Zenon DEF Settle, Robot
<1>4. QED
  BY <1>1, <1>2, <1>3, Zenon

\* Only a rising resume takes the cleared flag away.
LEMMA ApplyMotionControlKeeps ==
  ASSUME NEW r \in Robot, NEW control \in MotionControl,
         r.cleared, ~control.resume_motion
  PROVE  ApplyMotionControl(r, control).cleared
<1> DEFINE settled == Settle(ReleaseVelocity(r))
<1> DEFINE s == IF control.clear_move THEN ClearMove(r)
                ELSE [r EXCEPT !.paused = @ \/ control.pause]
<1> DEFINE rising == control.resume_motion /\ ~r.previous_resume_motion
<1> DEFINE p == s.paused /\ ~rising
<1> DEFINE c == s.cleared /\ ~rising
<1>1. settled \in Robot
  BY ReleaseVelocityTyped, SettleTyped
<1>2. ClearMove(r) \in Robot /\ ClearMove(r).cleared
  <2>1. ClearMove(r) = [settled EXCEPT !.cleared = TRUE, !.paused = TRUE,
                                       !.offline_program_id = 0]
    BY Zenon DEF ClearMove
  <2> HIDE DEF settled
  <2>2. QED
    BY <1>1, <2>1, ClearMoveTyped, Zenon DEF Robot
<1>3. s \in Robot /\ s.cleared
  BY <1>2, Zenon DEF Robot, MotionControl
<1>4. ApplyMotionControl(r, control) =
        [s EXCEPT !.paused = p, !.cleared = c,
                  !.previous_resume_motion = control.resume_motion]
  BY Zenon DEF ApplyMotionControl
<1>5. c
  BY <1>3, Zenon
<1> HIDE DEF s, p, c
<1>6. QED
  BY <1>3, <1>4, <1>5, Zenon DEF Robot

\* A command that is not new starts nothing, and a new one is taken, unless the
\* robot is in error.
LEMMA ApplyMotionCommandActs ==
  ASSUME NEW r \in Robot, NEW control \in MotionControl, NEW command \in MotionCommand
  PROVE  LET a == ApplyMotionCommand(r, control, command)
         IN /\ control.move_id = r.previous_move_id => a.cleared = r.cleared
            /\ control.setpoint /\ control.move_id \notin {0, r.previous_move_id} =>
                 a.received_move_id = control.move_id \/ a.state = "error"
<1> DEFINE s == [r EXCEPT !.previous_move_id = control.move_id]
<1> DEFINE released == ReleaseVelocity(s)
<1> DEFINE held == ApplyVelocityCommand(s, command)
<1> DEFINE accepted == Accept(released, control.move_id, command)
<1> DEFINE a == ApplyMotionCommand(r, control, command)
<1>1. control.move_id \in Nat
  BY Zenon DEF MotionControl
<1>2. s \in Robot /\ s.cleared = r.cleared /\ s.state = r.state
  BY <1>1, Zenon DEF Robot
<1>3. /\ control.move_id = r.previous_move_id => a = released \/ a = held
      /\ control.setpoint /\ control.move_id \notin {0, r.previous_move_id} =>
           a = accepted \/ (r.state = "error" /\ a = released)
  BY Zenon DEF ApplyMotionCommand
<1> HIDE DEF s
<1>4. /\ released \in Robot /\ released.cleared = r.cleared
      /\ r.state = "error" => released.state = "error"
  BY <1>2, ReleaseVelocityTyped, ReleaseVelocityKeeps, Zenon
<1> DEFINE taken == [s EXCEPT !.holding = TRUE, !.joint_velocity = command.argument]
<1> DEFINE dropped == [s EXCEPT !.holding = FALSE, !.joint_velocity = 0]
<1>5. \/ held = released
      \/ held = s
      \/ \E code : held = EnterError(s, code)
      \/ held = taken
      \/ held = dropped
  BY Zenon DEF ApplyVelocityCommand
<1>6. /\ taken.cleared = s.cleared /\ dropped.cleared = s.cleared
      /\ \A code : EnterError(s, code).cleared = s.cleared
  BY <1>2, Zenon DEF Robot, EnterError
<1> HIDE DEF released, held, taken, dropped
<1>7. held.cleared = r.cleared
  BY <1>2, <1>4, <1>5, <1>6, Zenon
<1>8. accepted.received_move_id = control.move_id
  BY <1>1, <1>4, AcceptReceives
<1> HIDE DEF accepted, a
<1>9. QED
  BY <1>3, <1>4, <1>7, <1>8, Zenon DEF a

\* One image.
LEMMA ApplyOutputAssemblyActs ==
  ASSUME NEW r \in Robot, NEW image \in Image, NEW elapsed \in Nat
  PROVE  LET a == ApplyOutputAssembly(r, image, elapsed)
             id == image.motion.move_id
         IN /\ r.cleared /\ ~image.motion.resume_motion /\ id = r.previous_move_id
                 => a.cleared
            /\ image.motion.setpoint /\ id \notin {0, r.previous_move_id} =>
                 a.received_move_id = id \/ a.state = "error"
<1> DEFINE x == Advance(r, elapsed)
<1> DEFINE y == ApplyRobotControl(x, image.robot)
<1> DEFINE z == ApplyMotionControl(y, image.motion)
<1> DEFINE a == ApplyMotionCommand(z, image.motion, image.command)
<1>1. x \in Robot /\ SameInputs(r, x) /\ x.cleared = r.cleared
  BY AdvanceTyped, AdvanceLeaves, AdvanceKeeps
<1>2. ApplyOutputAssembly(r, image, elapsed) = a
  BY Zenon DEF ApplyOutputAssembly
<1> HIDE DEF x
<1>3. y \in Robot /\ SameInputs(x, y) /\ y.cleared = x.cleared
  BY <1>1, ImageParts, ApplyRobotControlTyped, ApplyRobotControlLeaves,
     ApplyRobotControlKeeps
<1> HIDE DEF y
<1>4. /\ z \in Robot
      /\ z.previous_move_id = y.previous_move_id
      /\ y.cleared /\ ~image.motion.resume_motion => z.cleared
  BY <1>3, ImageParts, ApplyMotionControlTyped, ApplyMotionControlLeaves,
     ApplyMotionControlKeeps
<1> HIDE DEF z
<1>5. /\ image.motion.move_id = z.previous_move_id => a.cleared = z.cleared
      /\ image.motion.setpoint /\ image.motion.move_id \notin {0, z.previous_move_id} =>
           a.received_move_id = image.motion.move_id \/ a.state = "error"
  BY <1>4, ImageParts, ApplyMotionCommandActs
<1> HIDE DEF a
<1>6. z.previous_move_id = r.previous_move_id
  BY <1>1, <1>3, <1>4, Zenon DEF SameInputs
<1>7. QED
  BY <1>1, <1>2, <1>3, <1>4, <1>5, <1>6, Zenon

----------------------------------------------------------------------------
(* 2. What a step of the facade does to the latched image.                 *)

\* The resume bit is set by ResumeMotion only, which releases it however it ends.
ResumeReleased ==
  output.motion.resume_motion =>
    call.method = "ResumeMotion" /\ call.stage \in {"waiting", "releasing"}

LatchInv ==
  /\ OutputId \in {0, move_id}
  /\ call.method \in Connects => OutputId = 0
  /\ ResumeReleased
  /\ ~connected => Idle
  /\ call.stage = "closing" => call.method = "Disconnect"

\* The steps that write, by what they write: the next command,
SendsNext ==
  /\ OutputId' = move_id' /\ OutputId' \notin {0, OutputId}
  /\ output'.motion.setpoint
  /\ call'.method = "SendMotionCommand" /\ call'.stage = "done" /\ connected'

\* a velocity or the end of one, or nothing at all,
DropsCommand ==
  /\ OutputId' = 0 /\ move_id' = move_id
  /\ ~connected' => call'.stage = "done"
  /\ \/ call'.method = "StartVelocityCommand" /\ call'.stage = "done" /\ connected'
     \/ /\ ~output'.motion.setpoint
        /\ \/ call'.method = "StopVelocityCommand"
           \/ /\ call'.method \in Connects \cup {"Disconnect"}
              /\ call'.outcome = "pending" /\ connected'

\* or a bit, as the call begins, goes on, or ends.
SetsBit ==
  /\ OutputId' = OutputId /\ move_id' = move_id /\ connected /\ connected'
  /\ \/ call'.outcome = "pending" /\ call'.stage \in {"waiting", "raising"}
     \/ /\ call.stage = "releasing" /\ call'.stage = "done"
        /\ call'.method = call.method /\ call'.outcome = call.outcome
        /\ ~output'.motion.resume_motion
  /\ call'.method \notin
       Connects \cup {"Disconnect", "SendMotionCommand", "StopVelocityCommand", "WaitIdle"}

LEMMA ControlKeepsResume ==
  ASSUME NEW image \in Image, NEW written,
         \/ written = [image EXCEPT !.robot.activate = TRUE, !.robot.deactivate = FALSE]
         \/ written = [image EXCEPT !.robot.deactivate = TRUE, !.robot.activate = FALSE,
                                    !.robot.home = FALSE]
         \/ \E bit \in BOOLEAN :
              \/ written = [image EXCEPT !.robot.deactivate = bit]
              \/ written = [image EXCEPT !.robot.home = bit]
              \/ written = [image EXCEPT !.robot.reset_error = bit]
              \/ written = [image EXCEPT !.motion.pause = bit]
              \/ written = [image EXCEPT !.motion.clear_move = bit]
  PROVE  written.motion.resume_motion = image.motion.resume_motion
BY Zenon DEF Image, MotionControl

LEMMA SendWrites ==
  ASSUME FacadeOK, LatchInv, NEW command \in Queued, SendMotionCommand(command)
  PROVE  LatchInv' /\ SendsNext
<1>1. /\ move_id' = (move_id % MaxMoveId) + 1 /\ move_id # LastMoveId
      /\ output' = [output EXCEPT !.command = command, !.motion.setpoint = TRUE,
                                  !.motion.move_id = move_id']
      /\ call'.method = "SendMotionCommand" /\ call'.stage = "done"
      /\ call.stage = "done" /\ connected /\ connected' = connected
  BY Zenon DEF SendMotionCommand, Begins, Idle, Returns
<1>2. output \in Image /\ move_id \in MoveIds
  BY Zenon DEF FacadeOK, ImageOK
<1>3. Place(move_id') > Place(move_id) /\ Place(move_id) \in Nat
  BY <1>1, <1>2, PlaceFollows, PlaceTyped
<1>4. move_id' # 0 /\ move_id' # move_id
  BY <1>3, PlaceZero
<1>5. /\ OutputId' = move_id' /\ output'.motion.setpoint
      /\ output'.motion.resume_motion = output.motion.resume_motion
  BY <1>1, <1>2, Zenon DEF Image, MotionControl, OutputId
<1>6. "SendMotionCommand" \notin Connects
  BY Zenon DEF Connects
<1>7. QED
  BY <1>1, <1>4, <1>5, <1>6, SMT DEF LatchInv, ResumeReleased, SendsNext, Idle

LEMMA VelocityWrites ==
  ASSUME FacadeOK, LatchInv,
         StopVelocityCommand \/ \E command \in Held : StartVelocityCommand(command)
  PROVE  LatchInv' /\ DropsCommand
<1>1. output \in Image
  BY Zenon DEF FacadeOK, ImageOK
<1>2. ASSUME NEW command, NEW setpoint \in BOOLEAN,
             NEW method \in {"StartVelocityCommand", "StopVelocityCommand"},
             method = "StartVelocityCommand" \/ setpoint = FALSE,
             output' = [output EXCEPT !.command = command, !.motion.setpoint = setpoint,
                                      !.motion.move_id = 0],
             Returns(method), call.stage = "done", connected,
             UNCHANGED <<move_id, connected>>
      PROVE  LatchInv' /\ DropsCommand
  <2>1. /\ OutputId' = 0 /\ output'.motion.setpoint = setpoint
        /\ output'.motion.resume_motion = output.motion.resume_motion
    BY <1>1, <1>2, Zenon DEF Image, MotionControl, OutputId
  <2>2. call'.method = method /\ call'.stage = "done"
    BY <1>2, Zenon DEF Returns
  <2>3. ~output'.motion.resume_motion
    BY <1>2, <2>1, SMT DEF LatchInv, ResumeReleased
  <2>4. method \notin Connects
    BY <1>2, SMT DEF Connects
  <2>5. LatchInv'
    BY <1>2, <2>1, <2>2, <2>3, <2>4, SMT DEF LatchInv, ResumeReleased
  <2>6. DropsCommand
    BY <1>2, <2>1, <2>2, SMT DEF DropsCommand
  <2>7. QED
    BY <2>5, <2>6
<1>3. CASE StopVelocityCommand
  <2>1. /\ output' = [output EXCEPT !.command = ZeroImage.command,
                                    !.motion.setpoint = FALSE, !.motion.move_id = 0]
        /\ Returns("StopVelocityCommand")
        /\ call.stage = "done" /\ connected /\ UNCHANGED <<move_id, connected>>
    BY <1>3, Zenon DEF StopVelocityCommand, Begins, Idle
  <2>2. QED
    BY <1>2, <2>1, Zenon
<1>4. ASSUME NEW command \in Held, StartVelocityCommand(command)
      PROVE  LatchInv' /\ DropsCommand
  <2>1. /\ output' = [output EXCEPT !.command = command,
                                    !.motion.setpoint = TRUE, !.motion.move_id = 0]
        /\ Returns("StartVelocityCommand")
        /\ call.stage = "done" /\ connected /\ UNCHANGED <<move_id, connected>>
    BY <1>4, Zenon DEF StartVelocityCommand, Begins, Idle
  <2>2. QED
    BY <1>2, <2>1, Zenon
<1>5. QED
  BY <1>3, <1>4

LEMMA ConnectionWrites ==
  ASSUME FacadeOK, LatchInv, Disconnect \/ \E method \in Calls : Connect(method)
  PROVE  LatchInv' /\ DropsCommand
<1>1. PICK method \in Connects \cup {"Disconnect"}, stage \in Stages :
        /\ output' = ZeroImage /\ Goes(method, stage) /\ move_id' = move_id /\ connected'
        /\ stage = "closing" => method = "Disconnect"
  <2>1. {"waiting", "releasing", "closing"} \subseteq Stages
    BY Zenon DEF Stages
  <2>2. CASE Disconnect
    BY <2>1, <2>2, Zenon DEF Disconnect, Begins
  <2>3. ASSUME NEW method \in Calls, Connect(method)
        PROVE  \E stage \in Stages :
                 /\ method \in Connects
                 /\ output' = ZeroImage /\ Goes(method, stage)
                 /\ move_id' = move_id /\ connected'
                 /\ stage # "closing"
    BY <2>1, <2>3, Zenon DEF Connect
  <2>4. QED
    BY <2>2, <2>3, Zenon
<1>2. /\ OutputId' = 0 /\ ~output'.motion.setpoint /\ ~output'.motion.resume_motion
  BY <1>1, Zenon DEF ZeroImage, OutputId
<1>3. call'.method = method /\ call'.stage = stage /\ call'.outcome = "pending"
  BY <1>1, Zenon DEF Goes
<1>4. QED
  BY <1>1, <1>2, <1>3, Zenon DEF LatchInv, ResumeReleased, DropsCommand

LEMMA ControlBegins ==
  ASSUME FacadeOK, LatchInv,
         \/ ActivateRobot \/ DeactivateRobot \/ Home \/ ResetError
         \/ PauseMotion \/ ResumeMotion \/ ClearMotion
  PROVE  LatchInv' /\ SetsBit
<1>1. output \in Image
  BY Zenon DEF FacadeOK, ImageOK
<1>2. /\ call.stage = "done" /\ connected /\ UNCHANGED <<move_id, connected>>
      /\ ControlWrites(output, output')
  BY Zenon DEF ActivateRobot, DeactivateRobot, Home, ResetError,
       PauseMotion, ResumeMotion, ClearMotion, Begins, Idle, ControlWrites
<1>3. ~output'.motion.resume_motion
  <2>1. ~output.motion.resume_motion
    BY <1>2 DEF LatchInv, ResumeReleased
  <2>2. CASE ResumeMotion
    BY <1>1, <2>2, Zenon DEF ResumeMotion, Image, MotionControl
  <2>3. CASE \/ ActivateRobot \/ DeactivateRobot \/ Home \/ ResetError
             \/ PauseMotion \/ ClearMotion
    <3>1. output'.motion.resume_motion = output.motion.resume_motion
      BY <1>1, <2>3, ControlKeepsResume, Zenon DEF ActivateRobot, DeactivateRobot, Home,
         ResetError, PauseMotion, ClearMotion
    <3>2. QED
      BY <2>1, <3>1
  <2>4. QED
    BY <2>2, <2>3
<1>4. OutputId' = OutputId
  BY <1>1, <1>2, ControlKeepsId, Zenon DEF OutputId
<1>5. PICK method \in {"ActivateRobot", "DeactivateRobot", "Home", "ResetError",
                      "PauseMotion", "ResumeMotion", "ClearMotion"},
           stage \in {"waiting", "raising"} : Goes(method, stage)
  BY Zenon DEF ActivateRobot, DeactivateRobot, Home, ResetError,
       PauseMotion, ResumeMotion, ClearMotion
<1>6. call'.method = method /\ call'.stage = stage /\ call'.outcome = "pending"
  BY <1>5, Zenon DEF Goes
<1>7. method \notin
        Connects \cup {"Disconnect", "SendMotionCommand", "StopVelocityCommand", "WaitIdle"}
  BY <1>5, SMT DEF Connects
<1>8. QED
  BY <1>2, <1>3, <1>4, <1>5, <1>6, <1>7, Zenon DEF LatchInv, ResumeReleased, SetsBit

LEMMA ControlGoesOn ==
  ASSUME FacadeOK, LatchInv, RaiseResume \/ Release
  PROVE  LatchInv' /\ SetsBit
<1>1. output \in Image /\ call \in Call /\ TRUE \in BOOLEAN /\ FALSE \in BOOLEAN
  BY Zenon DEF FacadeOK, ImageOK
<1>2. call.stage # "done" /\ UNCHANGED <<move_id, connected>>
  BY Zenon DEF RaiseResume, Release
<1>3. connected
  BY <1>2 DEF LatchInv, Idle
<1>4. ControlWrites(output, output')
  BY <1>1, Zenon DEF Release, RaiseResume, Pulsed, ControlWrites
<1>5. OutputId' = OutputId
  BY <1>1, <1>4, ControlKeepsId, Zenon DEF OutputId
<1>6. CASE RaiseResume
  <2>1. /\ call'.method = "ResumeMotion" /\ call'.stage = "waiting"
        /\ call'.outcome = "pending"
    BY <1>6, Zenon DEF RaiseResume, Goes
  <2>2. call'.method \notin
          Connects \cup {"Disconnect", "SendMotionCommand", "StopVelocityCommand", "WaitIdle"}
    BY <2>1, SMT DEF Connects
  <2>3. QED
    BY <1>2, <1>3, <1>5, <2>1, <2>2, Zenon DEF LatchInv, ResumeReleased, SetsBit
<1>7. CASE Release
  <2>1. call.method \in Pulsed /\ call.stage = "releasing"
        /\ call' = [call EXCEPT !.stage = "done"]
    BY <1>7, Zenon DEF Release
  <2>2. /\ call'.method = call.method /\ call'.stage = "done"
        /\ call'.outcome = call.outcome
    BY <1>1, <2>1, Zenon DEF Call
  <2>3. call.method \notin
          Connects \cup {"Disconnect", "SendMotionCommand", "StopVelocityCommand", "WaitIdle"}
    BY <2>1, SMT DEF Connects, Pulsed
  <2>4. ~output'.motion.resume_motion
    <3>1. CASE call.method = "ResumeMotion"
      <4>1. output' = [output EXCEPT !.motion.resume_motion = FALSE]
        BY <1>7, <3>1, Zenon DEF Release
      <4>2. QED
        BY <1>1, <4>1, Zenon DEF Image, MotionControl
    <3>2. CASE call.method # "ResumeMotion"
      <4>1. ~output.motion.resume_motion
        BY <3>2 DEF LatchInv, ResumeReleased
      <4>2. \/ output' = [output EXCEPT !.robot.deactivate = FALSE]
            \/ output' = [output EXCEPT !.robot.home = FALSE]
            \/ output' = [output EXCEPT !.robot.reset_error = FALSE]
            \/ output' = [output EXCEPT !.motion.clear_move = FALSE]
        BY <1>7, <3>2, ZenonT(60) DEF Release, Pulsed
      <4>3. output'.motion.resume_motion = output.motion.resume_motion
        BY <1>1, <4>2, ControlKeepsResume, ZenonT(60)
      <4>4. QED
        BY <4>1, <4>3
    <3>3. QED
      BY <3>1, <3>2
  <2>5. QED
    BY <1>2, <1>3, <1>5, <2>1, <2>2, <2>3, <2>4, Zenon DEF LatchInv, ResumeReleased, SetsBit
<1>8. QED
  BY <1>6, <1>7

----------------------------------------------------------------------------
(* 3. In one process.                                                      *)

\* What a call that returned has done to the robot.
EffectInv ==
  /\ call.method = "SendMotionCommand" =>
       /\ ~robot.holding
       /\ robot.received_move_id = move_id \/ robot.state = "error"
  /\ call.method = "StopVelocityCommand" => ~robot.holding
  /\ call.method = "ClearMotion" /\ call.outcome = "returned" => robot.cleared
  /\ call.stage = "closing" \/ ~connected => ~robot.holding

\* The robot has the image that is latched, and what was read of it just now
\* is what it is.
InProcessInv ==
  /\ LatchInv
  /\ robot.previous_move_id = OutputId
  /\ fresh => input = View(robot)
  /\ EffectInv

LEMMA InitInProcess == InitBoth => InProcessInv
<1> SUFFICES ASSUME InitBoth PROVE InProcessInv
  OBVIOUS
<1> DEFINE r == [InitialRobot EXCEPT !.received_move_id = FirstMoveId]
<1>1. /\ robot = r /\ output = ZeroImage /\ move_id = 0 /\ connected = FALSE
      /\ call = [method |-> "Disconnect", stage |-> "done", outcome |-> "returned"]
      /\ fresh = FALSE
  BY Zenon DEF InitBoth, InitExchange, InitFacade
<1>2. r.previous_move_id = 0 /\ r.holding = FALSE
  BY Zenon DEF InitialRobot
<1> HIDE DEF r
<1>3. OutputId = 0 /\ ~output.motion.resume_motion
  BY <1>1, Zenon DEF ZeroImage, OutputId
<1>4. call.method = "Disconnect" /\ call.stage = "done"
  BY <1>1, Zenon
<1>5. QED
  BY <1>1, <1>2, <1>3, <1>4, SMT DEF InProcessInv, LatchInv, ResumeReleased, Idle, EffectInv

\* An image that is written has its effect in the same step.
LEMMA WriteActs ==
  ASSUME robot \in Robot, robot.previous_move_id = OutputId,
         output' \in Image, WriteOutputAssembly
  PROVE  /\ robot'.previous_move_id = OutputId'
         /\ robot'.holding => output'.motion.setpoint /\ OutputId' = 0
         /\ robot.cleared /\ ~output'.motion.resume_motion /\ OutputId' = OutputId
              => robot'.cleared
         /\ output'.motion.setpoint /\ OutputId' \notin {0, OutputId} =>
              robot'.received_move_id = OutputId' \/ robot'.state = "error"
<1>1. PICK elapsed \in ElapsedTimes : robot' = ApplyOutputAssembly(robot, output', elapsed)
  BY DEF WriteOutputAssembly
<1> DEFINE a == ApplyOutputAssembly(robot, output', elapsed)
<1> DEFINE id == output'.motion.move_id
<1>2. elapsed \in Nat
  BY ConstantTypes
<1>3. /\ a.previous_move_id = id
      /\ a.holding => output'.motion.setpoint /\ id = 0
  BY <1>2, ApplyOutputAssemblyLeaves, ApplyOutputAssemblyHeld
<1>4. /\ robot.cleared /\ ~output'.motion.resume_motion /\ id = robot.previous_move_id
           => a.cleared
      /\ output'.motion.setpoint /\ id \notin {0, robot.previous_move_id} =>
           a.received_move_id = id \/ a.state = "error"
  BY <1>2, ApplyOutputAssemblyActs
<1>5. robot' = a /\ OutputId' = id
  BY <1>1 DEF OutputId
<1> HIDE DEF a, id
<1>6. QED
  BY <1>3, <1>4, <1>5, Zenon

LEMMA WriteInProcess ==
  ASSUME robot \in Robot, InProcessInv, output' \in Image, WriteOutputAssembly,
         LatchInv', SendsNext \/ DropsCommand \/ SetsBit, ~fresh'
  PROVE  InProcessInv'
<1>1. /\ LatchInv /\ EffectInv /\ robot.previous_move_id = OutputId
  BY DEF InProcessInv
<1>2. /\ robot'.previous_move_id = OutputId'
      /\ robot'.holding => output'.motion.setpoint /\ OutputId' = 0
      /\ robot.cleared /\ ~output'.motion.resume_motion /\ OutputId' = OutputId
           => robot'.cleared
      /\ output'.motion.setpoint /\ OutputId' \notin {0, OutputId} =>
           robot'.received_move_id = OutputId' \/ robot'.state = "error"
  BY <1>1, WriteActs
<1>3. CASE SendsNext
  <2>1. EffectInv'
    BY <1>2, <1>3, SMT DEF SendsNext, EffectInv
  <2>2. QED
    BY <1>2, <2>1 DEF InProcessInv
<1>4. CASE DropsCommand
  <2>1. EffectInv'
    BY <1>2, <1>4, SMT DEF DropsCommand, EffectInv, Connects
  <2>2. QED
    BY <1>2, <2>1 DEF InProcessInv
<1>5. CASE SetsBit
  <2>1. /\ connected' /\ call'.stage # "closing"
        /\ call'.method \notin {"SendMotionCommand", "StopVelocityCommand"}
    BY <1>5, SMT DEF SetsBit
  <2>2. ASSUME call'.method = "ClearMotion", call'.outcome = "returned"
        PROVE  robot'.cleared
    <3>1. /\ call.method = "ClearMotion" /\ call.outcome = "returned"
          /\ ~output'.motion.resume_motion /\ OutputId' = OutputId
      BY <1>5, <2>2, SMT DEF SetsBit
    <3>2. QED
      BY <1>1, <1>2, <3>1 DEF EffectInv
  <2>3. QED
    BY <1>2, <2>1, <2>2, Zenon DEF InProcessInv, EffectInv
<1>6. QED
  BY <1>3, <1>4, <1>5

\* The steps that write nothing.
LEMMA LookInProcess ==
  ASSUME call \in Call, InProcessInv, UNCHANGED robot, ~fresh',
         fresh /\ (Poll \/ ResumeNumbering)
  PROVE  InProcessInv'
<1>1. /\ LatchInv /\ EffectInv /\ robot.previous_move_id = OutputId
      /\ input = View(robot)
  BY DEF InProcessInv
<1>2. CASE Poll
  <2>1. PICK outcome \in {"returned", "robot_error", "timeout"} :
          /\ outcome = "returned" => Confirmed(call.method)
          /\ call' = [call EXCEPT
               !.stage = IF \/ call.method \in Pulsed
                            \/ call.method \in Connects /\ outcome = "returned"
                         THEN "releasing" ELSE "done",
               !.outcome = outcome]
    BY <1>2, Zenon DEF Poll
  <2>2. call.stage = "waiting" /\ UNCHANGED <<output, move_id, input, connected>>
    BY <1>2, Zenon DEF Poll
  <2>3. /\ call'.method = call.method /\ call'.outcome = outcome
        /\ call'.stage = IF \/ call.method \in Pulsed
                            \/ call.method \in Connects /\ outcome = "returned"
                         THEN "releasing" ELSE "done"
    BY <2>1, Zenon DEF Call
  <2>4. connected
    BY <1>1, <2>2, SMT DEF LatchInv, Idle
  <2>5. OutputId' = OutputId
    BY <2>2 DEF OutputId
  <2>6. call.method = "ResumeMotion" => call'.stage = "releasing"
    BY <2>3, Zenon DEF Pulsed
  <2>7. LatchInv'
    BY <1>1, <2>2, <2>3, <2>4, <2>5, <2>6, SMT DEF LatchInv, ResumeReleased, Idle
  <2>8. ASSUME call.method = "ClearMotion", outcome = "returned" PROVE robot.cleared
    <3>1. input.motion.cleared
      BY <2>1, <2>8, SMT DEF Confirmed, Connects
    <3>2. QED
      BY <1>1, <3>1, Zenon DEF View, MotionStatus
  <2>9. call'.stage # "closing"
    BY <2>3
  <2>10. QED
    BY <1>1, <2>2, <2>3, <2>4, <2>5, <2>7, <2>8, <2>9, Zenon DEF InProcessInv, EffectInv
<1>3. CASE ResumeNumbering
  <2>1. /\ call.method \in Connects /\ call.stage = "releasing"
        /\ call' = [call EXCEPT !.stage = "done", !.outcome = "returned"]
        /\ UNCHANGED <<output, input, connected>>
    BY <1>3, Zenon DEF ResumeNumbering
  <2>2. call'.method = call.method /\ call'.stage = "done"
    BY <2>1, Zenon DEF Call
  <2>3. OutputId' = OutputId /\ OutputId = 0
    BY <1>1, <2>1 DEF OutputId, LatchInv
  <2>4. LatchInv'
    BY <1>1, <2>1, <2>2, <2>3, SMT DEF LatchInv, ResumeReleased, Idle, Connects
  <2>5. connected
    BY <1>1, <2>1, SMT DEF LatchInv, Idle
  <2>6. EffectInv'
    BY <2>1, <2>2, <2>5, SMT DEF EffectInv, Connects
  <2>7. QED
    BY <1>1, <2>3, <2>4, <2>6, Zenon DEF InProcessInv
<1>4. QED
  BY <1>2, <1>3

LEMMA WaitOrCloseInProcess ==
  ASSUME call \in Call, InProcessInv, UNCHANGED robot, ~fresh', WaitIdle \/ CloseTransport
  PROVE  InProcessInv'
<1>1. /\ LatchInv /\ EffectInv /\ robot.previous_move_id = OutputId
  BY DEF InProcessInv
<1>2. UNCHANGED <<output, move_id>>
  BY DEF WaitIdle, CloseTransport
<1>3. OutputId' = OutputId
  BY <1>2 DEF OutputId
<1>4. CASE WaitIdle
  <2>1. /\ call'.method = "WaitIdle" /\ call'.stage = "waiting"
        /\ call.stage = "done" /\ connected /\ connected' = connected
    BY <1>4, Zenon DEF WaitIdle, Begins, Idle, Goes
  <2>2. LatchInv'
    BY <1>1, <1>2, <1>3, <2>1, SMT DEF LatchInv, ResumeReleased, Connects, Idle
  <2>3. EffectInv'
    BY <2>1, SMT DEF EffectInv
  <2>4. QED
    BY <1>1, <1>3, <2>2, <2>3, Zenon DEF InProcessInv
<1>5. CASE CloseTransport
  <2>1. /\ call.stage = "closing"
        /\ call' = [call EXCEPT !.stage = "done", !.outcome = "returned"]
    BY <1>5, Zenon DEF CloseTransport
  <2>2. call'.method = "Disconnect" /\ call'.stage = "done" /\ call.method = "Disconnect"
    BY <1>1, <2>1, Zenon DEF Call, LatchInv
  <2>3. LatchInv'
    BY <1>1, <1>2, <1>3, <2>1, <2>2, SMT DEF LatchInv, ResumeReleased, Connects, Idle
  <2>4. EffectInv'
    BY <1>1, <2>1, <2>2, SMT DEF EffectInv
  <2>5. QED
    BY <1>1, <1>3, <2>3, <2>4, Zenon DEF InProcessInv
<1>6. QED
  BY <1>4, <1>5

LEMMA ReadInProcess ==
  ASSUME robot \in Robot, InProcessInv, ReadInputAssembly PROVE InProcessInv'
<1>1. PICK elapsed \in ElapsedTimes : robot' = Advance(robot, elapsed)
  BY DEF ReadInputAssembly
<1>2. elapsed \in Nat
  BY ConstantTypes
<1>3. /\ SameMove(robot, robot') /\ SameInputs(robot, robot')
      /\ robot'.cleared = robot.cleared
      /\ robot.state = "error" => robot.holding \/ robot'.state = "error"
  BY <1>1, <1>2, AdvanceLeaves, AdvanceKeeps
<1>4. /\ UNCHANGED <<output, move_id, call, connected>> /\ input' = View(robot')
  BY DEF ReadInputAssembly
<1>5. OutputId' = OutputId
  BY <1>4 DEF OutputId
<1>6. LatchInv'
  BY <1>4, <1>5, Zenon DEF InProcessInv, LatchInv, ResumeReleased, Idle
<1>7. EffectInv'
  BY <1>3, <1>4, Zenon DEF InProcessInv, EffectInv, SameMove, SameInputs
<1>8. QED
  BY <1>3, <1>4, <1>5, <1>6, <1>7, Zenon DEF InProcessInv, SameInputs

\* The types, which the exchange has too, and in one process the rest.
BothInv == ExchangeInv /\ (kind = "loopback" => InProcessInv)

LEMMA ReadTyped ==
  ASSUME ExchangeInv, ReadInputAssembly PROVE ExchangeInv'
<1>1. PICK elapsed \in ElapsedTimes : robot' = Advance(robot, elapsed)
  BY DEF ReadInputAssembly
<1>2. /\ UNCHANGED <<frame, output, move_id, call, connected, wire>>
      /\ input' = View(robot')
  BY DEF ReadInputAssembly
<1>3. RobotOK(robot')
  BY <1>1, ZeroImageOK, RobotVisited DEF ExchangeInv
<1>4. input' \in InputImage
  BY <1>2, <1>3, ViewTyped DEF RobotOK
<1>5. QED
  BY <1>2, <1>3, <1>4, Zenon DEF ExchangeInv, FacadeOK

LEMMA CallStepTyped ==
  ASSUME ExchangeInv, CallStep PROVE ExchangeInv'
<1>1. /\ RobotOK(robot) /\ frame \in Image /\ WireOK(wire) /\ FacadeOK
      /\ wire' = wire
  BY DEF ExchangeInv, CallStep
<1>2. FacadeOK'
  BY <1>1, StartSteps, ProceedSteps, ConnectionSteps
     DEF CallStep, Looks, LooksAndWrites, Writes, Proceed, Start
<1>3. ImageOK(output') /\ output' \in Image
  BY <1>2, Zenon DEF FacadeOK, ImageOK
<1>4. CASE WriteOutputAssembly
  <2>1. PICK elapsed \in ElapsedTimes : robot' = ApplyOutputAssembly(robot, output', elapsed)
    BY <1>4 DEF WriteOutputAssembly
  <2>2. RobotOK(robot') /\ frame' = output'
    BY <1>1, <1>3, <1>4, <2>1, RobotVisited DEF WriteOutputAssembly
  <2>3. QED
    BY <1>1, <1>2, <1>3, <2>2, Zenon DEF ExchangeInv
<1>5. CASE UNCHANGED <<robot, frame>>
  BY <1>1, <1>2, <1>5, Zenon DEF ExchangeInv
<1>6. QED
  BY <1>4, <1>5 DEF CallStep

LEMMA CallStepInProcess ==
  ASSUME ExchangeInv, InProcessInv, CallStep PROVE InProcessInv'
<1>1. /\ robot \in Robot /\ FacadeOK /\ LatchInv /\ call \in Call /\ ~fresh'
  BY DEF ExchangeInv, RobotOK, FacadeOK, InProcessInv, CallStep
<1>2. output' \in Image
  BY CallStepTyped, Zenon DEF ExchangeInv, FacadeOK, ImageOK
<1>3. CASE fresh /\ Looks /\ UNCHANGED <<robot, frame>>
  BY <1>1, <1>3, LookInProcess DEF Looks
<1>4. CASE fresh /\ LooksAndWrites /\ WriteOutputAssembly
  <2>1. ASSUME WaitIdle PROVE call'.method = "WaitIdle"
    BY <2>1, Zenon DEF WaitIdle, Goes
  <2>2. ASSUME Disconnect PROVE call'.method = "Disconnect"
    BY <2>2, Zenon DEF Disconnect, Goes
  <2>3. LatchInv' /\ (SendsNext \/ DropsCommand \/ SetsBit)
    BY <1>1, <1>4, <2>1, <2>2, SendWrites, VelocityWrites, ControlBegins
       DEF LooksAndWrites, Start
  <2>4. QED
    BY <1>1, <1>2, <1>4, <2>3, WriteInProcess
<1>5. CASE Writes /\ WriteOutputAssembly
  <2>1. LatchInv' /\ (SendsNext \/ DropsCommand \/ SetsBit)
    BY <1>1, <1>5, ConnectionWrites, ControlGoesOn DEF Writes
  <2>2. QED
    BY <1>1, <1>2, <1>5, <2>1, WriteInProcess
<1>6. CASE (WaitIdle \/ CloseTransport) /\ UNCHANGED <<robot, frame>>
  BY <1>1, <1>6, WaitOrCloseInProcess
<1>7. QED
  BY <1>3, <1>4, <1>5, <1>6 DEF CallStep

LEMMA NextBothInv == BothInv /\ [NextBoth]_bothVars => BothInv'
<1> SUFFICES ASSUME BothInv, [NextBoth]_bothVars PROVE BothInv'
  OBVIOUS
<1>1. CASE kind = "cyclic" /\ NextExchange /\ UNCHANGED <<kind, fresh>>
  <2>1. ExchangeInv'
    BY <1>1, NextExchangeInv DEF BothInv
  <2>2. QED
    BY <1>1, <2>1 DEF BothInv
<1>2. CASE kind = "loopback" /\ ReadInputAssembly /\ UNCHANGED kind
  <2>1. robot \in Robot
    BY DEF BothInv, ExchangeInv, RobotOK
  <2>2. QED
    BY <1>2, <2>1, ReadTyped, ReadInProcess DEF BothInv
<1>3. CASE kind = "loopback" /\ CallStep /\ UNCHANGED kind
  BY <1>3, CallStepTyped, CallStepInProcess DEF BothInv
<1>4. CASE UNCHANGED bothVars
  <2>1. UNCHANGED <<robot, frame, output, move_id, call, input, connected, wire, kind, fresh>>
    BY <1>4, Zenon DEF bothVars, allVars, facade
  <2>2. ExchangeInv'
    BY <2>1, Zenon DEF BothInv, ExchangeInv, FacadeOK
  <2>3. InProcessInv => InProcessInv'
    BY <2>1, Zenon DEF InProcessInv, LatchInv, ResumeReleased, Idle, EffectInv, OutputId
  <2>4. QED
    BY <2>1, <2>2, <2>3, Zenon DEF BothInv
<1>5. QED
  BY <1>1, <1>2, <1>3, <1>4 DEF NextBoth

LEMMA BothInvAlways == FairBothSpec => []BothInv
<1>1. InitBoth => BothInv
  BY InitExchangeInv, InitInProcess DEF InitBoth, BothInv
<1>2. QED
  BY <1>1, NextBothInv, PTL DEF FairBothSpec

\* In one process a call that returned has had its effect, whatever the calls,
\* their time-outs and the timing: "nothing to race".
THEOREM InProcessNothingRaces == FairBothSpec => []NothingToRace
<1>1. BothInv => NothingToRace
  BY Zenon DEF BothInv, InProcessInv, EffectInv, NothingToRace, Returned, ClearConfirmed,
       DisconnectReleases
<1>2. QED
  BY <1>1, BothInvAlways, PTL

LEMMA StepOfBothOnItsOwn ==
  BothInv /\ [NextBoth]_bothVars => [OnItsOwn!Next]_(OnItsOwn!vars)
<1> SUFFICES ASSUME BothInv, [NextBoth]_bothVars
             PROVE  OnItsOwn!Next \/ UNCHANGED <<robot, frame>>
  BY DEF OnItsOwn!vars
<1>1. CASE kind = "cyclic" /\ NextExchange /\ UNCHANGED <<kind, fresh>>
  <2>1. [OnItsOwn!Next]_(OnItsOwn!vars)
    BY <1>1, StepOnItsOwn DEF BothInv
  <2>2. QED
    BY <2>1 DEF OnItsOwn!vars
<1>2. CASE ReadInputAssembly
  <2>1. PICK elapsed \in ElapsedTimes : robot' = Advance(robot, elapsed)
    BY <1>2 DEF ReadInputAssembly
  <2>2. frame' = frame
    BY <1>2 DEF ReadInputAssembly
  <2>3. OnItsOwn!Build
    BY <2>1, <2>2, SameAdvance, Zenon DEF OnItsOwn!Build
  <2>4. QED
    BY <2>3 DEF OnItsOwn!Next
<1>3. CASE CallStep /\ WriteOutputAssembly
  <2>1. output' \in Image
    BY <1>3, CallStepTyped, Zenon DEF BothInv, ExchangeInv, FacadeOK, ImageOK
  <2>2. PICK elapsed \in ElapsedTimes : robot' = ApplyOutputAssembly(robot, output', elapsed)
    BY <1>3 DEF WriteOutputAssembly
  <2>3. frame' = output'
    BY <1>3 DEF WriteOutputAssembly
  <2>4. OnItsOwn!Apply
    BY <2>1, <2>2, <2>3, SameApply, Zenon DEF OnItsOwn!Apply
  <2>5. QED
    BY <2>4 DEF OnItsOwn!Next
<1>4. CASE UNCHANGED bothVars
  BY <1>4, Zenon DEF bothVars, allVars
<1>5. CallStep => WriteOutputAssembly \/ UNCHANGED <<robot, frame>>
  BY DEF CallStep
<1>6. QED
  BY <1>1, <1>2, <1>3, <1>4, <1>5 DEF NextBoth

\* The robot is the robot of Simulator over either transport.
THEOREM SimulatorRefinedOverBoth ==
  ASSUME FirstMoveId = 0
  PROVE  FairBothSpec => ImplementsSimulator
<1>1. InitBoth => OnItsOwn!Init
  BY InitOnItsOwn DEF InitBoth
<1>2. QED
  BY <1>1, StepOfBothOnItsOwn, BothInvAlways, PTL
     DEF FairBothSpec, ImplementsSimulator, OnItsOwn!Spec

=============================================================================
