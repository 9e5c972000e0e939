--------------------------- MODULE CyclicExchange --------------------------
(***************************************************************************)
(* The facade and the mock robot over a Class 1 connection. Nothing is     *)
(* sent when the facade writes: a producing thread of the scanner's stack  *)
(* samples the latched image once per packet interval, and the producing   *)
(* thread of the robot samples its own state the same way, so that an      *)
(* image may be overwritten before it is sampled, and an input image is    *)
(* old by the time it is read.                                             *)
(*                                                                         *)
(* The wire holds the last frame sent to the robot. It may arrive any      *)
(* number of times or be overwritten by the next one: lost, late or        *)
(* repeated, but not out of order. A frame of a closed connection is       *)
(* dropped by the robot. An input image needs no slot of its own: reading  *)
(* it late is the same as having received it early.                        *)
(***************************************************************************)
EXTENDS FieldbusRobot

CONSTANT
  FirstMoveId   \* the move id a previous scanner left in the robot

ASSUME ExchangeAssumption == FirstMoveId \in 0 .. MaxMoveId

VARIABLE wire

allVars == <<robot, frame, facade, wire>>

NoFrame == [sent |-> FALSE, image |-> ZeroImage]

InitExchange ==
  /\ robot = [InitialRobot EXCEPT !.received_move_id = FirstMoveId]
  /\ frame = ZeroImage
  /\ wire = NoFrame
  /\ InitFacade

----------------------------------------------------------------------------
\* The stack of the scanner samples the latched image.
ProduceOutput ==
  /\ connected
  /\ wire' = [sent |-> TRUE, image |-> output]
  /\ UNCHANGED <<robot, frame, facade>>

\* A cyclic frame reaches the robot.
ConsumeOutput ==
  /\ connected /\ wire.sent
  /\ \E elapsed \in ElapsedTimes :
       robot' = ApplyOutputAssembly(robot, wire.image, elapsed)
  /\ frame' = wire.image
  /\ UNCHANGED <<facade, wire>>

\* The robot produces an input image, and the scanner receives it.
ProduceInput ==
  /\ connected
  /\ \E elapsed \in ElapsedTimes : robot' = Advance(robot, elapsed)
  /\ input' = View(robot')
  /\ UNCHANGED <<frame, output, move_id, call, connected, wire>>

\* It produces one that is lost, or has nobody to produce to.
LoseInput ==
  /\ \E elapsed \in ElapsedTimes : robot' = Advance(robot, elapsed)
  /\ UNCHANGED <<frame, facade, wire>>

\* A new connection starts with empty images, and a closed one takes the frame
\* that is under way with it.
OpenOrClose ==
  /\ \/ \E method \in Calls : Connect(method)
     \/ CloseTransport
  /\ wire' = IF connected /\ connected' THEN wire ELSE NoFrame
  /\ UNCHANGED <<robot, frame>>

FacadeStep ==
  /\ Start \/ Proceed
  /\ UNCHANGED <<robot, frame, wire>>

NextExchange ==
  \/ FacadeStep \/ OpenOrClose
  \/ ProduceOutput \/ ConsumeOutput \/ ProduceInput \/ LoseInput

ExchangeSpec == InitExchange /\ [][NextExchange]_allVars

\* Each thread keeps running: the poll loop of the call in progress, the two
\* producing threads, and a network that does not lose every frame. The clock
\* of the robot runs with its input images.
FairExchangeSpec ==
  /\ ExchangeSpec
  /\ WF_allVars(Proceed /\ UNCHANGED <<robot, frame, wire>>)
  /\ WF_allVars(CloseTransport /\ OpenOrClose)
  /\ WF_allVars(ProduceOutput)
  /\ WF_allVars(ConsumeOutput)
  /\ WF_allVars(ProduceInput /\ \E elapsed \in ElapsedTimes \ {0} :
                                  robot' = Advance(robot, elapsed))

----------------------------------------------------------------------------
MoveIds == 0 .. MaxMoveId

InputImage ==
  [live : BOOLEAN,
   status : [activated : BOOLEAN, busy : BOOLEAN, homed : BOOLEAN, error : BOOLEAN],
   motion : [paused : BOOLEAN, cleared : BOOLEAN, end_of_block : BOOLEAN, move_id : MoveIds]]

\* Types; in particular every move id, latched, under way or acknowledged, stays
\* in the range of the numbering, however often it wraps.
ExchangeTypeOK ==
  /\ robot \in Robot /\ robot.received_move_id \in MoveIds
  /\ frame \in Image
  /\ output \in Image /\ output.motion.move_id \in MoveIds
  /\ wire \in [sent : BOOLEAN, image : Image] /\ wire.image.motion.move_id \in MoveIds
  /\ move_id \in MoveIds
  /\ call \in Call
  /\ input \in InputImage
  /\ connected \in BOOLEAN

----------------------------------------------------------------------------
(* What the exchange implements.                                           *)

\* The robot of the exchange is the robot on its own, under a scanner that may
\* produce any image.
OnItsOwn == INSTANCE Simulator WITH Images <- Image

\* Whatever is proved of the state machine of the robot holds behind the
\* connection too, where frames are lost, delayed and repeated.
ImplementsSimulator == OnItsOwn!Spec

\* The place of a move id in the order they are used in: after the last one of
\* the bound, none is used.
Place(id) == IF id \in 1 .. LastMoveId THEN id + MaxMoveId ELSE id

\* Connect has taken over the numbering, and the connection is still there.
Numbered == connected /\ ~(call.method \in Connects /\ call.stage # "done")

Numbering == INSTANCE CommandOrder WITH
  sent  <- Place(IF Numbered THEN move_id ELSE robot.received_move_id),
  taken <- Place(robot.received_move_id)

\* Each motion command is taken once, in the order they were sent in, across
\* the wrap of the ids, lost and repeated frames and new connections: "The
\* robot ignores a move id it has already handled, so resume the sequence
\* where it left it".
ImplementsCommandOrder == Numbering!Spec

----------------------------------------------------------------------------
(* What a call that returned has promised. Each property is about the time *)
(* from the return to the next call.                                       *)

Returned(method) ==
  call.method = method /\ call.stage = "done" /\ call.outcome = "returned"

\* ActivateRobot, DeactivateRobot and Home confirm on the robot, not on an
\* image from before the request: the robot is in the state they waited for
\* when they return, or has failed since.
PowerConfirmed ==
  robot.state # "error" =>
    /\ Returned("ActivateRobot") => Activated(robot)
    /\ Returned("DeactivateRobot") => ~Activated(robot)
    /\ Returned("Home") => robot.homed

\* PauseMotion and ResumeMotion too: "every motion control action is confirmed
\* by a status bit, never by a delay".
PauseConfirmed ==
  robot.state # "error" =>
    /\ Returned("PauseMotion") => robot.paused
    /\ Returned("ResumeMotion") => ~robot.paused

\* ClearMotion holds its request "until the robot confirms it": once it
\* returns, the queue is cleared and stays so.
ClearConfirmed == Returned("ClearMotion") => robot.cleared

\* WaitIdle returns only when the robot has taken the last command and is done
\* with it: neither an image from before the command nor the echo of another
\* one ends the wait.
IdleConfirmed ==
  Returned("WaitIdle") /\ move_id # 0 =>
    robot.received_move_id = move_id /\ robot.state # "moving"

\* Connect resumes the numbering "from the last identifier the robot
\* acknowledged", so that no id is used twice, also across the wrap.
NumberingResumed ==
  (\E method \in Connects : Returned(method)) => move_id = robot.received_move_id

\* Disconnect releases every command before it closes the connection: a
\* velocity does not stay held with nobody left to stop it.
DisconnectReleases == ~connected => ~robot.holding

\* A call that waits ends without its deadline, whatever calls came before: no
\* confirmation is waited for that cannot come. (DeactivateRobot and Home keep
\* this only while the other of them is not used: see README.)
CallsEnd ==
  \A method \in Calls \ {"WaitIdle"} :
    call.method = method /\ call.stage # "done" ~> call.stage = "done"

\* So does WaitIdle, unless the robot is left paused.
IdleEnds ==
  call.method = "WaitIdle" /\ call.stage # "done"
    ~> call.stage = "done" \/ robot.paused

\* StopVelocityCommand stops the robot although it waits for nothing: no frame
\* that still holds the velocity arrives for ever, as long as nothing starts it
\* again or closes the connection (DisconnectReleases).
StopTakesEffect ==
  Returned("StopVelocityCommand")
    ~> ~robot.holding \/ call.method \in {"StartVelocityCommand", "Disconnect"}

=============================================================================
