--------------------------- MODULE FieldbusRobot ---------------------------
(***************************************************************************)
(* The facade (mecademic_fieldbus/robot.py, class FieldbusRobot): the      *)
(* output image it latches, the numbering of its motion commands, and each *)
(* of its blocking calls cut at the points where the other threads of the  *)
(* scanner and the robot run: between two writes of the image, and around  *)
(* every poll of the input image.                                          *)
(*                                                                         *)
(* A call that raises before its first write changes nothing and is not an *)
(* action: its early returns are the guards. The deadline of a wait is not *)
(* a clock: whether it has passed at a poll is free, for the calls named   *)
(* in MayTimeOut. The connection is never a monitoring one.                *)
(***************************************************************************)
EXTENDS Simulator

CONSTANTS
  Calls,       \* the methods the application uses
  Queued,      \* the commands it gives to SendMotionCommand
  Held,        \* the commands it gives to StartVelocityCommand
  MayTimeOut,  \* the methods whose deadline may pass
  LastMoveId   \* bound: a command is not sent after this move id

\* Connect, Connect with wait_for_cyclic_data=False, and Connect on a
\* transport that is connected already.
Connects == {"Connect", "ConnectAtOnce", "ConnectAgain"}

Methods ==
  Connects \cup
  {"Disconnect", "ActivateRobot", "DeactivateRobot", "Home", "ResetError",
   "SendMotionCommand", "StartVelocityCommand", "StopVelocityCommand",
   "PauseMotion", "ResumeMotion", "ClearMotion", "WaitIdle"}

MaxMoveId == 32767

ASSUME FacadeAssumption ==
  /\ Calls \subseteq Methods /\ MayTimeOut \subseteq Methods
  /\ Queued \subseteq MotionCommand /\ Held \subseteq MotionCommand
  /\ \A command \in Queued : command.name # "MoveJointsVel"
  /\ \A command \in Held : command.name = "MoveJointsVel"
  /\ LastMoveId \in 1 .. MaxMoveId

VARIABLES
  output,     \* the latched image, as handed over to the transport
  move_id,    \* number of the last command
  call,       \* the call in progress, or the last one and how it ended
  input,      \* the last input image received
  connected   \* the transport is connected

facade == <<output, move_id, call, input, connected>>

Stages == {"raising", "waiting", "releasing", "closing", "done"}

Outcomes == {"pending", "returned", "robot_error", "timeout"}

Call == [method : Methods, stage : Stages, outcome : Outcomes]

\* What a scanner makes of an input image; live: it is not all zeros.
View(r) == [live |-> TRUE, status |-> Status(r), motion |-> MotionStatus(r)]

\* The all-zero image, before anything is received.
NoInput ==
  [live |-> FALSE,
   status |-> [activated |-> FALSE, busy |-> FALSE, homed |-> FALSE, error |-> FALSE],
   motion |-> [paused |-> FALSE, cleared |-> FALSE, end_of_block |-> FALSE, move_id |-> 0]]

InitFacade ==
  /\ output = ZeroImage
  /\ move_id = 0
  /\ call = [method |-> "Disconnect", stage |-> "done", outcome |-> "returned"]
  /\ input = NoInput
  /\ connected = FALSE

----------------------------------------------------------------------------
(* How a call goes on.                                                     *)

Idle == call.stage = "done"

Goes(method, stage) ==
  call' = [method |-> method, stage |-> stage, outcome |-> "pending"]

\* A call that only writes.
Returns(method) ==
  call' = [method |-> method, stage |-> "done", outcome |-> "returned"]

\* A call made while connected, on a robot that this scanner may control.
Begins(method) == method \in Calls /\ Idle /\ connected

\* RobotStatus.is_ready.
Ready ==
  input.status.activated /\ input.status.homed
    /\ ~input.status.error /\ ~input.status.busy

----------------------------------------------------------------------------
(* Connection.                                                             *)

\* The images of a connected transport stay as they are.
Connect(method) ==
  /\ method \in Calls \cap Connects /\ Idle
  /\ connected <=> method = "ConnectAgain"
  /\ connected' = TRUE
  /\ input' = IF connected THEN input ELSE NoInput
  /\ output' = ZeroImage
  /\ Goes(method, IF method = "ConnectAtOnce" THEN "releasing" ELSE "waiting")
  /\ UNCHANGED move_id

\* Mutant of ResumeNumbering: the numbering starts over.
StartNumbering ==
  /\ call.method \in Connects /\ call.stage = "releasing"
  /\ move_id' = 0
  /\ call' = [call EXCEPT !.stage = "done", !.outcome = "returned"]
  /\ UNCHANGED <<output, input, connected>>

\* The end of Connect: the numbering resumes where the robot left it.
ResumeNumbering ==
  /\ call.method \in Connects /\ call.stage = "releasing"
  /\ move_id' = input.motion.move_id
  /\ call' = [call EXCEPT !.stage = "done", !.outcome = "returned"]
  /\ UNCHANGED <<output, input, connected>>

\* Everything is released, then the transport is closed.
Disconnect ==
  /\ Begins("Disconnect")
  /\ output' = ZeroImage
  /\ Goes("Disconnect", "closing")
  /\ UNCHANGED <<move_id, input, connected>>

CloseTransport ==
  /\ call.stage = "closing"
  /\ connected' = FALSE
  /\ call' = [call EXCEPT !.stage = "done", !.outcome = "returned"]
  /\ UNCHANGED <<output, move_id, input>>

----------------------------------------------------------------------------
(* The calls that change the state of the robot.                           *)

ActivateRobot ==
  /\ Begins("ActivateRobot")
  /\ output' = [output EXCEPT !.robot.activate = TRUE, !.robot.deactivate = FALSE]
  /\ Goes("ActivateRobot", "waiting")
  /\ UNCHANGED <<move_id, input, connected>>

\* Mutant of DeactivateRobot: the activation stays latched.
DeactivateOnly ==
  /\ Begins("DeactivateRobot")
  /\ output' = [output EXCEPT !.robot.deactivate = TRUE, !.robot.home = FALSE]
  /\ Goes("DeactivateRobot", "waiting")
  /\ UNCHANGED <<move_id, input, connected>>

DeactivateRobot ==
  /\ Begins("DeactivateRobot")
  /\ output' = [output EXCEPT !.robot.deactivate = TRUE,
                              !.robot.activate = FALSE, !.robot.home = FALSE]
  /\ Goes("DeactivateRobot", "waiting")
  /\ UNCHANGED <<move_id, input, connected>>

Home ==
  /\ Begins("Home")
  /\ input.status.activated
  /\ output' = [output EXCEPT !.robot.home = TRUE]
  /\ Goes("Home", "waiting")
  /\ UNCHANGED <<move_id, input, connected>>

ResetError ==
  /\ Begins("ResetError")
  /\ output' = [output EXCEPT !.robot.reset_error = TRUE]
  /\ Goes("ResetError", "waiting")
  /\ UNCHANGED <<move_id, input, connected>>

----------------------------------------------------------------------------
(* The calls that move the robot.                                          *)

\* Mutant of SendMotionCommand: the ids wrap to 0.
SendWrappingToZero(command) ==
  /\ Begins("SendMotionCommand")
  /\ move_id # LastMoveId
  /\ Ready
  /\ move_id' = (move_id + 1) % (MaxMoveId + 1)
  /\ output' = [output EXCEPT !.command = command, !.motion.setpoint = TRUE,
                              !.motion.move_id = move_id']
  /\ Returns("SendMotionCommand")
  /\ UNCHANGED <<input, connected>>

\* Mutant of SendMotionCommand: the ids do not wrap.
SendWithoutWrap(command) ==
  /\ Begins("SendMotionCommand")
  /\ move_id # LastMoveId
  /\ Ready
  /\ move_id' = move_id + 1
  /\ output' = [output EXCEPT !.command = command, !.motion.setpoint = TRUE,
                              !.motion.move_id = move_id']
  /\ Returns("SendMotionCommand")
  /\ UNCHANGED <<input, connected>>

\* SendMotionCommand, and so MoveJoints and MovePose; it does not wait.
SendMotionCommand(command) ==
  /\ Begins("SendMotionCommand")
  /\ move_id # LastMoveId
  /\ Ready
  /\ move_id' = (move_id % MaxMoveId) + 1
  /\ output' = [output EXCEPT !.command = command, !.motion.setpoint = TRUE,
                              !.motion.move_id = move_id']
  /\ Returns("SendMotionCommand")
  /\ UNCHANGED <<input, connected>>

StartVelocityCommand(command) ==
  /\ Begins("StartVelocityCommand")
  /\ Ready
  /\ output' = [output EXCEPT !.command = command, !.motion.setpoint = TRUE,
                              !.motion.move_id = 0]
  /\ Returns("StartVelocityCommand")
  /\ UNCHANGED <<move_id, input, connected>>

StopVelocityCommand ==
  /\ Begins("StopVelocityCommand")
  /\ output' = [output EXCEPT !.command = ZeroImage.command,
                              !.motion.setpoint = FALSE, !.motion.move_id = 0]
  /\ Returns("StopVelocityCommand")
  /\ UNCHANGED <<move_id, input, connected>>

PauseMotion ==
  /\ Begins("PauseMotion")
  /\ output' = [output EXCEPT !.motion.pause = TRUE]
  /\ Goes("PauseMotion", "waiting")
  /\ UNCHANGED <<move_id, input, connected>>

\* Mutant of ResumeMotion: the pause stays latched.
ResumeUnderPause ==
  /\ Begins("ResumeMotion")
  /\ output' = [output EXCEPT !.motion.clear_move = FALSE, !.motion.resume_motion = FALSE]
  /\ Goes("ResumeMotion", "raising")
  /\ UNCHANGED <<move_id, input, connected>>

\* ResumeMotion is a pulse: the bit is lowered first, in case it was left set.
ResumeMotion ==
  /\ Begins("ResumeMotion")
  /\ output' = [output EXCEPT !.motion.pause = FALSE, !.motion.clear_move = FALSE,
                              !.motion.resume_motion = FALSE]
  /\ Goes("ResumeMotion", "raising")
  /\ UNCHANGED <<move_id, input, connected>>

RaiseResume ==
  /\ call.stage = "raising"
  /\ output' = [output EXCEPT !.motion.resume_motion = TRUE]
  /\ Goes("ResumeMotion", "waiting")
  /\ UNCHANGED <<move_id, input, connected>>

ClearMotion ==
  /\ Begins("ClearMotion")
  /\ output' = [output EXCEPT !.motion.clear_move = TRUE]
  /\ Goes("ClearMotion", "waiting")
  /\ UNCHANGED <<move_id, input, connected>>

WaitIdle ==
  /\ Begins("WaitIdle")
  /\ Goes("WaitIdle", "waiting")
  /\ UNCHANGED <<output, move_id, input, connected>>

----------------------------------------------------------------------------
(* Waiting.                                                                *)

\* Mutant of Acknowledged: the echoed move id is not looked at.
AcknowledgedByAny == TRUE

\* The robot has echoed the number of the last command, if there was one.
Acknowledged == move_id = 0 \/ input.motion.move_id = move_id

\* The predicate a method waits for, on the input image alone.
Confirmed(method) ==
  \/ method \in Connects /\ input.live
  \/ method = "ActivateRobot" /\ input.status.activated /\ ~input.status.busy
  \/ method = "DeactivateRobot" /\ ~input.status.activated /\ ~input.status.busy
  \/ method = "Home" /\ input.status.homed /\ ~input.status.busy
  \/ method = "ResetError" /\ ~input.status.error
  \/ method = "PauseMotion" /\ input.motion.paused
  \/ method = "ResumeMotion" /\ ~input.motion.paused
  \/ method = "ClearMotion" /\ input.motion.cleared
  \/ /\ method = "WaitIdle" /\ ~input.status.error
     /\ Acknowledged /\ input.motion.end_of_block

\* A robot error ends the wait of these; WaitIdle looks at it first, the others
\* after their predicate.
Aborted(method) ==
  /\ method \notin Connects \cup {"DeactivateRobot", "ResetError"}
  /\ input.status.error
  /\ ~Confirmed(method)

\* The bits a method releases in its finally clause.
Pulsed == {"DeactivateRobot", "Home", "ResetError", "ResumeMotion", "ClearMotion"}

\* One round of a wait that ends it; any other round changes nothing.
Poll ==
  /\ call.stage = "waiting"
  /\ \E outcome \in {"returned", "robot_error", "timeout"} :
       /\ outcome = "returned" => Confirmed(call.method)
       /\ outcome = "robot_error" => Aborted(call.method)
       /\ outcome = "timeout" => /\ call.method \in MayTimeOut
                                 /\ ~Confirmed(call.method)
                                 /\ ~Aborted(call.method)
       /\ call' = [call EXCEPT
            !.stage = IF \/ call.method \in Pulsed
                         \/ call.method \in Connects /\ outcome = "returned"
                      THEN "releasing" ELSE "done",
            !.outcome = outcome]
  /\ UNCHANGED <<output, move_id, input, connected>>

\* Mutant of Release: the resume bit stays set.
ReleaseButResume ==
  /\ call.method \in Pulsed /\ call.stage = "releasing"
  /\ output' =
       CASE call.method = "DeactivateRobot" -> [output EXCEPT !.robot.deactivate = FALSE]
         [] call.method = "Home" -> [output EXCEPT !.robot.home = FALSE]
         [] call.method = "ResetError" -> [output EXCEPT !.robot.reset_error = FALSE]
         [] call.method = "ResumeMotion" -> output
         [] call.method = "ClearMotion" -> [output EXCEPT !.motion.clear_move = FALSE]
  /\ call' = [call EXCEPT !.stage = "done"]
  /\ UNCHANGED <<move_id, input, connected>>

\* The finally clause, whatever ended the wait.
Release ==
  /\ call.method \in Pulsed /\ call.stage = "releasing"
  /\ output' =
       CASE call.method = "DeactivateRobot" -> [output EXCEPT !.robot.deactivate = FALSE]
         [] call.method = "Home" -> [output EXCEPT !.robot.home = FALSE]
         [] call.method = "ResetError" -> [output EXCEPT !.robot.reset_error = FALSE]
         [] call.method = "ResumeMotion" -> [output EXCEPT !.motion.resume_motion = FALSE]
         [] call.method = "ClearMotion" -> [output EXCEPT !.motion.clear_move = FALSE]
  /\ call' = [call EXCEPT !.stage = "done"]
  /\ UNCHANGED <<move_id, input, connected>>

\* A call in progress goes on; the application may start another one.
Proceed == Poll \/ Release \/ RaiseResume \/ ResumeNumbering

Start ==
  \/ ActivateRobot \/ DeactivateRobot \/ Home \/ ResetError
  \/ \E command \in Queued : SendMotionCommand(command)
  \/ \E command \in Held : StartVelocityCommand(command)
  \/ StopVelocityCommand \/ PauseMotion \/ ResumeMotion \/ ClearMotion
  \/ WaitIdle \/ Disconnect

=============================================================================
