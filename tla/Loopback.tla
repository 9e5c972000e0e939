------------------------------ MODULE Loopback ------------------------------
(***************************************************************************)
(* The facade and the mock robot over either transport: the cyclic         *)
(* exchange of a Class 1 connection (CyclicExchange), or the transport     *)
(* that wires the facade to a simulator in process                         *)
(* (mock_robot/loopback.py). In process an image is applied as it is       *)
(* written, and an input image is built as it is read: one thread does     *)
(* everything, and time passes between its visits of the robot.            *)
(***************************************************************************)
EXTENDS CyclicExchange

VARIABLES
  kind,   \* the transport the facade was given
  fresh   \* loopback: the input image has just been read

bothVars == <<allVars, kind, fresh>>

InitBoth ==
  /\ InitExchange
  /\ kind \in {"cyclic", "loopback"}
  /\ fresh = FALSE

\* read_input_assembly: the robot is advanced, and builds its image.
ReadInputAssembly ==
  /\ connected
  /\ \E elapsed \in ElapsedTimes : robot' = Advance(robot, elapsed)
  /\ input' = View(robot')
  /\ fresh' = TRUE
  /\ UNCHANGED <<frame, output, move_id, call, connected, wire>>

\* Mutant of WriteOutputAssembly: the robot is not brought up to date first.
WriteToStaleRobot ==
  /\ robot' = ApplyOutputAssembly(robot, output', 0)
  /\ frame' = output'

\* write_output_assembly, at the end of a step that writes.
WriteOutputAssembly ==
  /\ \E elapsed \in ElapsedTimes : robot' = ApplyOutputAssembly(robot, output', elapsed)
  /\ frame' = output'

\* The steps that look at the input image read it first, the others do not.
Looks == Poll \/ ResumeNumbering
LooksAndWrites == Start /\ call'.method \notin {"WaitIdle", "Disconnect"}
Writes == Disconnect \/ RaiseResume \/ Release \/ \E method \in Calls : Connect(method)

CallStep ==
  /\ \/ fresh /\ Looks /\ UNCHANGED <<robot, frame>>
     \/ fresh /\ LooksAndWrites /\ WriteOutputAssembly
     \/ Writes /\ WriteOutputAssembly
     \/ (WaitIdle \/ CloseTransport) /\ UNCHANGED <<robot, frame>>
  /\ fresh' = FALSE
  /\ UNCHANGED wire

NextBoth ==
  \/ kind = "cyclic" /\ NextExchange /\ UNCHANGED <<kind, fresh>>
  \/ kind = "loopback" /\ ReadInputAssembly /\ UNCHANGED kind
  \/ kind = "loopback" /\ CallStep /\ UNCHANGED kind

\* The threads of the cyclic transport keep running, as in FairExchangeSpec.
\* Nothing is assumed of the loopback.
FairBothSpec ==
  /\ InitBoth /\ [][NextBoth]_bothVars
  /\ WF_bothVars(kind = "cyclic" /\ ProduceOutput /\ UNCHANGED <<kind, fresh>>)
  /\ WF_bothVars(kind = "cyclic" /\ ConsumeOutput /\ UNCHANGED <<kind, fresh>>)

----------------------------------------------------------------------------
\* "nothing to race": in process, a call that returned has already had its
\* effect. A command has been taken, or the robot is in error; a stopped
\* velocity is released; a cleared queue stays cleared; and nothing is held by
\* a robot nobody is connected to.
NothingToRace ==
  kind = "loopback" =>
    /\ Returned("SendMotionCommand") =>
         robot.received_move_id = move_id \/ robot.state = "error"
    /\ Returned("StopVelocityCommand") => ~robot.holding
    /\ ClearConfirmed
    /\ DisconnectReleases

=============================================================================
