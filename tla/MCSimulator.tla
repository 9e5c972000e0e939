---------------------------- MODULE MCSimulator ----------------------------
(* Instances of Simulator for TLC: which images the scanner produces.      *)
EXTENDS Simulator

MCLower == -1

Power(bits) ==
  [activate |-> "activate" \in bits, deactivate |-> "deactivate" \in bits,
   home |-> "home" \in bits, reset_error |-> "reset" \in bits,
   enable_simulation |-> "simulation" \in bits,
   enable_recovery_mode |-> "recovery" \in bits]

Motion(bits, id) ==
  [setpoint |-> "setpoint" \in bits, pause |-> "pause" \in bits,
   clear_move |-> "clear" \in bits, resume_motion |-> "resume" \in bits,
   move_id |-> id]

Command(name, argument) == [name |-> name, argument |-> argument]

Output(power, motion, command) ==
  [robot |-> power, motion |-> motion, command |-> command]

Nothing == Command("none", 0)
Still   == Motion({}, 0)

\* Power cycles, with every pair of bits the code gives a priority to.
PowerImages ==
  {Output(Power(bits), Still, Nothing) :
     bits \in {{}, {"activate", "home"}, {"deactivate"},
               {"activate", "deactivate"}, {"activate", "reset"}}}

\* The motion bits, around a move that stays latched or is withdrawn.
ControlImages ==
  {Output(Power({"activate"}), Motion(bits, 1), Command("MoveJoints", 1)) :
     bits \in {{"setpoint"}, {"setpoint", "pause"}, {"setpoint", "clear"},
               {"setpoint", "resume"}, {"setpoint", "pause", "resume"}, {}}}

\* The kinds of queued commands, and a second one under the next id.
QueuedImages ==
  {Output(Power({"activate"}), Motion({"setpoint"}, 1), command) :
     command \in {Command("MoveJointsRel", 2), Command("variable", 0),
                  Command("unknown", 0), Command("unmodelled", 0),
                  Command("MoveJointsVel", 1)}}
  \cup {Output(Power(bits), Motion({"setpoint"}, 2), Command("MoveJoints", -1)) :
     bits \in {{"activate"}, {"deactivate"}, {"activate", "reset"}}}
  \cup {Output(Power({"activate"}), Motion({"setpoint"}, 2), Command("Delay", 1))}

QueuedRun == PowerImages \cup ControlImages \cup QueuedImages

\* A joint velocity in both directions and at rest, held, paused, withdrawn,
\* replaced by a queued move, by a command without a name or, on the way down,
\* by another declared one, with power cycles.
VelocityImages ==
  {Output(Power({"activate"}), Motion(bits, 0), Command("MoveJointsVel", v)) :
     bits \in {{"setpoint"}, {"setpoint", "pause"}, {"setpoint", "clear"},
               {"setpoint", "resume"}},
     v \in {-1, 0, 2}}
  \cup {Output(Power({"activate"}), Motion({"setpoint"}, 0), command) :
     command \in {Nothing, Command("unknown", 0), Command("variable", 0)}}
  \cup {Output(Power({"activate"}), Motion({"setpoint"}, 1), command) :
     command \in {Command("MoveJoints", 2), Command("MoveJointsVel", 1)}}
  \cup {Output(Power({"deactivate"}), Motion({"setpoint"}, 0), command) :
     command \in {Command("MoveJointsVel", 2), Command("unmodelled", 0)}}

\* The modes and the configuration commands as well.
HeldImages ==
  VelocityImages
  \cup {Output(Power(bits), Still, Nothing) :
          bits \in {{"simulation", "recovery"}, {"activate", "home"},
                    {"deactivate"}, {"activate", "reset"}}}
  \cup {Output(Power({"activate"}), Motion({"setpoint"}, 1), command) :
          command \in {Command("SetCheckpoint", 65537), Command("StartProgram", 0)}}

\* The same with a declared command that is not a joint velocity held.
OtherVelocityImages ==
  HeldImages
  \cup {Output(Power({"activate"}), Motion({"setpoint"}, 0),
               Command("unmodelled", 0))}
=============================================================================
