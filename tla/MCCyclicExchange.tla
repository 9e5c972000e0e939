-------------------------- MODULE MCCyclicExchange -------------------------
(* Instances of CyclicExchange for TLC: which calls the application makes. *)
EXTENDS CyclicExchange

MCLower == 0

Move(angle) == [name |-> "MoveJoints", argument |-> angle]
Velocity(v) == [name |-> "MoveJointsVel", argument |-> v]

\* A session as in the README, over and over, with the pause around its moves.
SessionCalls ==
  {"Connect", "ActivateRobot", "Home", "SendMotionCommand", "WaitIdle",
   "PauseMotion", "ResumeMotion", "DeactivateRobot", "Disconnect"}

\* Every call that waits, around one queued move. ClearMotion pauses the robot.
WaitingCalls ==
  {"Connect", "ActivateRobot", "Home", "SendMotionCommand", "WaitIdle",
   "ClearMotion", "ResumeMotion", "ResetError"}

ClearCalls ==
  {"Connect", "ActivateRobot", "Home", "SendMotionCommand", "ClearMotion"}

\* A held velocity, left by a disconnection.
HoldCalls ==
  {"Connect", "ActivateRobot", "Home", "StartVelocityCommand", "Disconnect"}

NoCommands == {}
Moves == {Move(1), Move(2)}  \* the second is out of the limits
OneMove == {Move(1)}
Velocities == {Velocity(1)}
=============================================================================
