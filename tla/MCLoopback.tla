----------------------------- MODULE MCLoopback -----------------------------
(* An instance of Loopback: the same calls over both transports.           *)
EXTENDS Loopback

MCLower == 0

MCCalls ==
  {"Connect", "ActivateRobot", "Home", "StartVelocityCommand",
   "StopVelocityCommand", "SendMotionCommand", "ClearMotion", "Disconnect"}

MCQueued == {[name |-> "MoveJoints", argument |-> 1]}
MCHeld == {[name |-> "MoveJointsVel", argument |-> 1]}

=============================================================================
