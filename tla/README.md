# A formal model of mecademicpy-cyclic

TLA+ modules for the library that drives a Mecademic robot over a cyclic
fieldbus, for the mock robot it is tested against and for the diagnostic scanner
that comes with it; TLC configurations that check them on small instances;
proofs that TLAPS checks for every value of the constants. Paths below are
relative to `src/`, the root of the repository.

## The system

An application calls a facade of blocking methods. The facade does not send
anything: it *latches* an output image, which a producing thread samples once
per packet interval, and it *polls* the input image received last.

| part | state | operations | talks to |
|---|---|---|---|
| `FieldbusRobot` (`mecademic_fieldbus/robot.py`) | latched output image, number of the last move | `Connect`, `Disconnect`, activation, homing, reset, queued and held commands, pause, resume, clear, `WaitIdle` | a transport and an I/O map, from the thread of the application |
| I/O maps (`mecademic_fieldbus/io_map/`) | the layout loaded | loading, encoding and decoding of every field of an image | called by the facade, the mock robot and the tools |
| EtherNet/IP transport (`mecademic_fieldbus/transports/ethernetip.py`) | session, connection, the two bit lists of the images | connect, disconnect, read, write | the threads of a third-party stack, which share the bit lists |
| loopback transport (`mock_robot/loopback.py`) | connected or not | the same | calls the simulator at once |
| `MockRobotServer` (`mock_robot/server.py`) | sessions, Class 1 connections, sockets | start, stop; accept, session, receive and produce threads; encapsulation; Forward Open and Close | datagrams and TCP; calls the simulator |
| `RobotSimulator` (`mock_robot/simulator.py`) | the state machine of the robot | apply an output image, build an input image, update, inject an error | called under its lock by the receive and produce threads |
| diagnostic scanner (`tools/diagnose_connection.py`, `tools/eip_originator.py`) | one session, one connection, a producing thread | open, listen, close | the server, as a scanner of its own |
| generators (`tools/eds_to_spec.py`, `make_fixtures.py`, `update_companion_tables.py`), `examples/` | - | text conversion, fixtures, a sample session | outside of the running system |

What is hard here, and which component it concerns:

* **Levels, edges and identifiers.** The same image arrives again and again.
  Control bits act as levels, the resume bit on an edge, a command when its
  move id changes. Correct means: repetition is harmless, nothing is done twice
  and nothing refused is done later (simulator).
* **Effects that outlive their cause.** A held velocity, a homing reference, a
  stored target, an absolute deadline (simulator).
* **Confirmation on an old image.** A call writes its request and looks at an
  image that may be older than the request (facade with the cyclic exchange).
* **Coalesced writes.** Two writes within one packet interval are one image to
  the robot (facade with the cyclic exchange).
* **Loss, repetition and delay of frames**, a connection closed under an image
  that was never produced, reconnections, a numbering that wraps (cyclic
  exchange).
* **Threads of the server**: decisions taken under the lock and used after it,
  an attribute shared by all sessions, a stop in the middle of a request.
* **Failures of one step of several**: connect, disconnect and the shutdown of
  the receiving socket (transport); timeouts, late replies and the death of the
  process (diagnostic scanner).
* **Two ends that read the same bytes**: messages cut anywhere by TCP, layouts
  that differ, fields next to each other in one image (server and I/O maps).

`PROJECT.json` lists each of these at the line where it bites, with the
properties that would catch it.

## The modules

    Simulator <- FieldbusRobot <- CyclicExchange <- Loopback
                                       |
                                  CommandOrder (abstract)
    Server <- Transport <- Originator <- Link
    Assembly <- AssemblyV1 <- Wire

An arrow points to the module that is extended. The three lines meet at
interfaces: a cyclic frame is a whole image in the first, the connection it
belongs to in the second, and bytes in the third.

### The robot and its facade

`Simulator` is the robot alone, visited by an arbitrary scanner. Each handler of
`RobotSimulator` is an operator from a robot to a robot; `ApplyOutputAssembly`
composes them in the order of `apply_output_assembly`, under the lock and
therefore in one step. The handlers carry the names of the methods; the larger
methods are split: `_apply_robot_control` into `Reset`, `ApplyModes` and
`ApplyPower`, `_apply_motion_command` into `ApplyMotionCommand` (what the move
id decides), `Accept` (whether the robot may) and `Execute` (what it does).
`robot` holds the private fields; `frame` is the image applied last and exists
for the properties. The actions are `Apply` (a frame arrives), `Build` (the
producing thread, `update`) and `InjectError`. An injection takes any number, 0
and numbers of no error code included; as in the code, `EnterError` sets the
state first, and a number the conversion refuses leaves the old code
(`InjectedCodes`).

* Time. Deadlines are absolute in the code and relative here: `state_left` and
  `move_left` count the ticks left, and every visit of `_advance` takes the
  elapsed ticks off. One tick is the time a joint needs for one degree, so an
  interpolated position is a whole number. Pushing both bounds of a paused move
  forward is leaving `move_left` as it is.
* Data. One angle stands for six joints, the two placeholder kinematics are
  the identity, and commands are grouped by their effect (`CommandNames`).
  Values of robot variables, timestamps, safety status and dynamic data are left
  out; nothing else in the state machine reads them. The velocity percentage is
  left out with the duration it scales: a move takes the time of its distance.

`FieldbusRobot` is the facade. A blocking call is cut where other threads run:
a first write (the action with the method's name), for `ResumeMotion` a second
one (`RaiseResume`), the poll that ends the wait (`Poll`, with `Confirmed` the
predicate and `Aborted` the robot error), and the write of the `finally` clause
(`Release`); `Connect` ends by taking over the move id (`ResumeNumbering`),
`Disconnect` by closing the transport (`CloseTransport`). A poll that goes on
changes nothing and is not an action. `call` is the call in progress, or the
last one and how it ended. A deadline is a free choice, for the methods in
`MayTimeOut`. Early raises are guards.

`CyclicExchange` composes the facade with a robot. `ProduceOutput` samples the
latched image onto the wire; the wire holds the last frame sent, which
`ConsumeOutput` delivers any number of times or not at all before the next one
overwrites it. `ProduceInput` and `LoseInput` are the producing thread of the
robot. There is no slot for an input image under way, because receiving it
early and reading it late is the same to the facade. Frames are not reordered,
images are whole, and a frame of a closed connection is dropped in the same
step in which the server looks the connection up (`Link` has that step in two).

`Loopback` gives the facade either transport (`kind`). In process, every write
of a call is applied to the robot at once (`WriteOutputAssembly`) and every look
at the input image is preceded by a read that lets the robot catch up and build
one (`ReadInputAssembly`); `fresh` keeps the two together.

Two abstract specifications are implemented by the exchange:

* `ImplementsSimulator`: the robot in it is `Simulator` with some image applied
  at each step, so that what is shown of the robot on its own holds behind a
  connection. The images of `Simulator` are mapped to all images.
* `ImplementsCommandOrder`: `CommandOrder` says what numbers are for. It counts
  commands without a bound; the refinement mapping places an id of the code
  relative to the one taken last, across the wrap from 32767 to 1.

### The server and its scanners

`Server` is `MockRobotServer` without the robot. Its threads are cut where they
let go of the lock. A session thread takes one message at a time: `ForwardOpen`
and `ForwardClose` change the table under the lock, `SetItems`, `CollectItems`
and `Answer` are what happens to the shared socket-address items after it.
`Receive` looks a frame up under the lock, `Apply` hands it to the robot
without. `StopServer` sets the event, each loop and session thread sees it
between two rounds, `StopReturns` has joined them and clears the tables. The
produce loop changes none of this; it is `ProduceInput` in `CyclicExchange`.

`Transport` is the library's `EthernetIpTransport`: `connect` and `disconnect`
cut at every answer, each able to fail there, and the teardown with the
shutdown of the stack's receiving socket (`ShutdownListener`), which may find
internals it does not know or fail to wake the stack's thread. The stack is
modelled from how the transport uses it.

`Originator` is a run of the diagnostic tool on its `EipOriginator`. Every wait
may time out, after which the tool goes on with whatever reply comes next;
the process may be killed at any point.

`Link` composes the three. `abandoned` counts how often a scanner left
without a clean end (a failure, a timeout, a kill); `older` and `overtaken`
record which connections were closed before which ones were opened. They are
history variables: no guard reads them.

### Bytes

`Assembly` is the codec of one assembly: which layouts `codec.py` accepts and,
byte by byte and bit by bit, how a field is written into an image and read from
it. `AssemblyV1` is the shipped layout (`spec/assembly_v1.json`), the groups of
fields that `v1.py` encodes and decodes at once, and the loader. `Wire` uses
them for what two ends say to each other, each with an I/O map of its own: the
messages of a session in a stream that arrives in pieces (`ReceiveBytes`,
`HandleMessage`), the comparison of a Forward Open with the map of the server,
strict or permissive (`Validated`), and cyclic frames whose images are taken
apart by the receiver (`ReceiveFrame`). A behaviour follows one direction of the
cyclic data.

### Instances and proofs

`MCSimulator`, `MCCyclicExchange`, `MCLoopback`, `MCLink` and `MCWire` hold the
sets of images, calls, scanners and layouts of the runs. `SimulatorProofs`,
`ExchangeProofs`, `LoopbackProofs`, `LinkProofs`, `LinkLeftProofs`,
`LinkOrderProofs`, `AssemblyProofs` and `WireProofs` hold theorems.

The operators marked "Mutant of" are broken variants of a definition; nothing in
a specification uses them. Putting one in the place of its original shows that
the property named in `PROJECT.json` notices.

## The runs

| run (configuration) | what it explores | what it shows |
|---|---|---|
| `queued` (`MCSimulatorQueued`) | power cycles, every pair of bits the code ranks, all kinds of queued commands under two ids, any error number injected at any time, fairness | the safety and action properties of the state machine, for a scanner that sends anything in any order; timed states end, and the end of block returns |
| `held` (`MCSimulatorHeld`) | joint velocities of both signs and of zero, held, paused, cleared, withdrawn, replaced, and power cycles | a velocity ends with every image that does not ask for it, or that image is refused with an error; no jump; a pause holds the robot still |
| `error_exit` (violation) | the images of `held` | a robot with a held velocity leaves ERROR without a reset |
| `stale_target` (violation) | the same and one more held command | the joints jump to the target of an earlier move |
| `session` (`MCCyclicExchangeSession`) | whole sessions, one after the other, with pauses, good and bad moves, across the wrap of the move id | a call that returned has told the truth about the robot; commands are taken in order and once |
| `ends` (`MCCyclicExchangeEnds`) | the waiting calls, errors and resets, fairness | no call waits for what cannot come |
| `stop` (`MCLoopback`) | the same calls over both transports: power, held velocities, a queued move, clear, disconnect; fairness for the cyclic one | in process there is nothing to race; over either transport the robot is the one of `Simulator`, and a stopped velocity is released |
| `clear` (violation) | two `ClearMotion` around a move | the second one returns on the image of the first |
| `released` (violation) | a held velocity and `Disconnect` | the connection closes before the release is produced |
| `link` (`MCLink`) | a transport and a diagnostic tool, failures, timeouts and kills anywhere, a server that stops and starts again | nobody loses a connection to somebody else; what is left behind is bounded; the stack's port is given back; a stop clears everything; the robot never goes back to a former scanner from one that has always left cleanly |
| `reply_items` (violation) | the same two scanners, one start, no cyclic frames | the reply to one Forward Open carries the endpoint of the other, or none |
| `wire` (`MCWire`) | eleven layouts, equal and different on the two ends, streams cut in and around the headers, images that change between frames | no byte of a stream is dropped or kept twice; ends that are connected agree, headers apart; what is said is what is read |

`CHECK_DEADLOCK` is off in `link`, `reply_items` and `wire`, whose bounded
resources (TCP connections, starts, writes, bytes) may all be used up.

**The disagreements.** The five violations are differences between the code and
what its docstrings, comments or the README promise; `PROJECT.json` quotes both
sides.

1. A deactivation or an error does not drop a held velocity; `_advance` then
   overwrites the state at its next visit.
2. A held command that is not a joint velocity drops the velocity without
   leaving MOVING, which `_release_velocity` explains must not happen.
3. `ClearMotion` can be confirmed by the clear before it: the flag in the image
   received last is older than the request.
4. `Disconnect` latches the all-zero image and stops the producing thread at
   once; a held velocity then stays in force, since the mock robot has no
   watchdog for a silent scanner.
5. The socket-address items of a Forward Open pass from one handler to another
   through one attribute of the server, outside of the lock, while each session
   has its own thread: a reply may echo the endpoint of another scanner.

Two more have no run of their own; the properties of `queued` and `held` are
stated around them.

* A held command that has no name, and a velocity for a robot that may not move,
  are refused with an error and leave the velocity held before in place
  (`simulator.py:767` and `775`). By the first disagreement the robot then
  leaves ERROR and goes on with it, for as long as the refused image stays,
  whereas the comment at `simulator.py:553` has a velocity integrated "for as
  long as it stays held".
* `inject_error(0)` puts the robot in ERROR with the code that says there is no
  error, and a number of no error code raises `ValueError` when the state is
  ERROR already and the code still the old one, as a rule none
  (`simulator.py:857`). The scanner then sees no error and `ResetError` returns
  at once, whereas the docstring at `robot_classes.py:93` has an error
  code signal the error state.

**Where a property is conditional.** What a scanner is promised of a held velocity
is `VelocityOnlyWhileHeld`, which names the commands that do not end it, and
`VelocityKeptOnlyByRefusal`, that the robot is then in error; that no other
velocity than the one asked for is held is not true of the code (above). In error
`_apply_velocity_command` returns before it looks at the name, and would keep a
velocity under every command; this is never reached with one, because the visit
that starts the same `apply_output_assembly` has taken such a robot out of ERROR.
Of the error code and the error state, `CodeOnlyInError` says the one direction,
without held velocities; the other one holds of everything an image does
(`ErrorsOfImagesSignalled`) and not of an injection.

The confirmations of `session` exempt a robot in error, since an error aborts the
wait of a pause and the next `ResumeMotion` is confirmed by an image from before; the run has no
`ResetError`, so that an error lasts. `ResetError` is in `ends`, without
`DeactivateRobot`: after a reset under a latched activation the robot
re-activates by itself, `DeactivateRobot` can return on the image in between,
and a `Home` right after it then waits for a robot that goes down. Held
velocities are kept away from `DeactivateRobot` because of the first
disagreement, which also keeps that call from ending. `ConnectedIsOpen` speaks
of every transport, since a close that a transport left behind meets an entry
older than the one it has opened since, and of a run of the tool only while none
of them was cut short: the entry left in the table has the serial the tool uses
again, and a close takes the oldest match. `NewScannerPrevails` speaks of
scanners that have always left cleanly. With a third TCP connection a run of the
tool that was cut short can leave behind a close that takes the connection of the
next run, and an open whose entry then lets the frames of that run pass; and the
last frames of a transport can meet such an entry after the server has started
again. The run `link`, with two, does not reach that. `AcceptedAgree` speaks of
ends whose run/idle headers agree, and of sizes below 512: the size in a Forward
Open has nine bits and counts the header in, so that a map of 60 bytes with a
header and one of 64 without are taken for the same. The server then reads the
header as the start of the image, or ignores every frame; `wire` has such maps.

**Bounds.** Limits -1..1 or -1..2 (0..1 in the exchange) give a move of two
ticks that can be interrupted, paused and replaced in its middle and a target
out of range. Activation takes one or two ticks, homing one or two.
`ElapsedTimes` contains 0 and 1 where it matters that a visit takes no time; any
longer gap is a series of visits, except that a gap over a deadline finishes it
in one. In `held` a declared command that is no joint velocity is held only by an
image that deactivates, which takes the robot out of MOVING first: anywhere else
it runs into the second disagreement (`stale_target`). Two move ids suffice for new, repeated and returning ids. `LastMoveId`
bounds the commands of `session`: ids 32766, 32767 and 1, so the wrap and the
first id after it happen, also across a reconnection; the other exchange runs
send one move. The wire needs one frame because delivery only depends on the one
sent last. In `link`, `MaxSockets` = 2 lets each scanner have one TCP connection,
or one scanner two in a row, which is where an old entry meets a new one, and
`MaxStarts` = 2 lets a scanner outlive a server; one serial is the worst case,
for two scanners that draw the same. One datagram under way is enough for a
frame to be applied late: the receive loop holds another. In `wire`,
`MaxWrites` = 2 lets a value be written over another, and the two values of each
group differ in every bit field, so that a bit left over shows.

**Fairness.** For the simulator alone: the clock runs and the producing thread
keeps visiting (`TimePasses`), which `_produce_loop` does even with no
connection. Nothing is assumed of the scanner; `BlockEnds` starts from one that
stays on an image. For the exchange (`FairExchangeSpec`): the poll loop of a
call in progress, the two producing threads, the closing of a connection and a
network that delivers frames again and again. The application is under no
fairness: it may stop calling. `FairBothSpec` assumes only the two cyclic
threads of the output; of the loopback it assumes nothing. `Link` and `Wire`
are checked for safety only.

## What is proved

TLAPS proves 34 theorems for every value of the constants that the named
assumptions of the modules allow (`SimulatorAssumption`, `FacadeAssumption`,
`ExchangeAssumption`, `ServerAssumption`, `TransportAssumption`,
`OriginatorAssumption`, `WireAssumption`, `GroupsAssumption`): any set of images,
limits, times and durations, any calls, commands and deadlines, any number of
scanners, TCP connections, starts and frames under way, any specifications.

`SimulatorProofs`, about `Spec` with no further assumption:

* `TypeCorrect`: `TypeOK`. The lemmas follow the handlers: each maps a typed
  robot to a typed robot, and keeps the joint, the start and the target within
  the limits (an interpolated joint because its two ends are, an integrated one
  because it is clamped, a target because it is refused otherwise). It is proved
  together with the next two, as the inductive invariant `TypedAndSafe`.
* `HomingNeverStale`: `ReferenceLostWhenDown`. By what each handler may do to
  `homed` and the state together.
* `ClearedStaysPaused`: `ClearedMeansPaused`. A clear pauses, a resume takes
  both away, a start of a move only clears the flag.
* `CommandsStartOnce`: the action property `MoveOncePerId`. It needs the
  invariant that `previous_move_id` is the id of the last image, whatever was
  done with that image.
* `PauseEndsOnEdge`: the action property `ResumeOnRisingEdge` (a latched resume
  ends no pause and overrules no request for one), from the same
  fact about `previous_resume_motion`.
* `VelocityDeadMan`: `VelocityOnlyWhileHeld`, and the action property
  `RefusalIsTold`: `VelocityKeptOnlyByRefusal` (section 6). The step that applies
  an image establishes both anew, whatever the robot was doing: `Awake`, that a
  robot with a velocity is not in error, holds of what `Advance` returns and is
  kept by the handlers before the one of the command.
* `ImagesSignalTheirErrors`: the action property `ErrorsOfImagesSignalled`
  (section 7). Every handler keeps `Signalled`, that a robot in error has a code.
* `PauseStopsTheJoint`: `PausedRobotHoldsStill`, and the action property
  `JointNeverJumps`: `NoJump`. Both assume `NothingElseHeld`, that an image with
  a setpoint and move id 0 carries no command, one that names none, an MXT
  variable or `MoveJointsVel`; any other command would hold whatever it was
  numbered, and what a held velocity does is the subject of `VelocityDeadMan`.
  `NoJump` needs besides that some time can elapse. The invariant `OnTrack`
  places the joint of a robot that runs towards a target where `Interpolate` says,
  between the start and the target by the time that is left (`move_left`), so that
  a new move that starts from the joint does not jump.

Section 5 of `SimulatorProofs`, under `QueuedOnly`, the assumption that no image holds
a joint velocity (with one, the first disagreement refutes the first three
and the action property):

* `ReadyIsHomed`, `CodeTakenBack` (`CodeOnlyInError`), `DeactivationWins` and, as an action
  property, `OnlyResetLeavesError`. The inductive invariant adds that nothing is
  held; the velocity branch of `Advance` is then unreachable.

`ExchangeProofs`, about the facade, the wire and the robot together:

* `ExchangeTypeCorrect`: `ExchangeTypeOK`. The inductive invariant `ExchangeInv`
  adds to the types which images may be on the wire, and the range of every
  move id in them.
* `SimulatorRefined`: `ImplementsSimulator`, for a session that starts from
  move id 0, as the code does. Every step of the exchange either leaves the
  robot alone or is a step of `Simulator`.
* `CommandsInOrder`: `ImplementsCommandOrder`, and `NumberingTakenOver`:
  `NumberingResumed`, under `WaitsForImage`: every `Connect` opens a new
  connection, waits for an image and does not time out. `OrderInv` adds to `ExchangeInv` where the ids in the
  latched image, on the wire and in the input image may lie relative to each
  other, during a `Connect` and after it, and that a closed connection has no
  frame under way.

Sections 4 to 7 of `ExchangeProofs`, that what a call waits for is true of the
robot when the call returns, and not of an older image. All three under
`WaitsForImage`:

* `IdleWhenReturned`: `IdleConfirmed`, if no call holds a velocity
  (`NeverHolds`). `WaitIdleInv` follows the last move id through the latched
  image, the frames out, the robot, the frames back and the input image: an idle
  bit travelling with that id was computed after the robot saw it.
* `PowerWhenReturned`: `PowerConfirmed`, if the session resets no error and holds
  no velocity (`NeverResets`) and a call that changes the power does not time out
  (`PowerIsAwaited`: one that does leaves its bit latched, and the bit acts later,
  which is the hazard at `robot.py:212`). `PowerInv` adds to `SessionInv` which
  power bits each image under way may hold and that the robot has the power the
  latest confirmed call asked for, unless it is in error.
* `PauseWhenReturned`: `PauseConfirmed`, likewise, if the session clears no motion
  (`NeverClears`: a clear pauses on its own) and pausing calls do not time out
  (`PauseIsAwaited`).

The run `session` has all of these assumptions true.

`LoopbackProofs`, about the exchange and its copy without a network together:

* `InProcessNothingRaces`: `NothingToRace`, with no further assumption. In
  process a cycle is one step; `InProcessInv` says that the robot has the image
  that is latched and that an image read just now is what the robot is.
* `SimulatorRefinedOverBoth`: `ImplementsSimulator` of `Loopback`, for a session
  that starts from move id 0: the cycle in process steps the robot as the frames
  over a network do.

`LinkProofs`, about the server with all its scanners, if there is a scanner (a
TCP connection that is not made yet has an arbitrary owner):

* `LinkTypeCorrect`: `LinkTypeOK`. That the session and connection counters
  stay in range is not inductive: `LinkInv` adds who owns which TCP connection
  and what may still be asked on it. Each one registers one session and opens
  one connection at most, so the counters are bounded by counting those that
  have done so.
* `StopClears`: `StoppedIsEmpty`. A server that is down has no thread and serves
  nobody, and a frame is being applied only while the receive loop runs; so
  nothing can enter the tables after they are cleared.
* `ListenerIsReleased`: `ListenerReleased`, from what each phase of a transport
  says of the receiving socket and of the run flag of the stack.

Section 4 of `LinkProofs` holds lemmas for the two modules after it. They assume
that every scanner is a transport or a run of the tool and has a vendor id of its
own (`Cast`): a scanner has one message under way at most unless a wait of it has
timed out, and it asks for a close only on the TCP connection it has and only
when it is done.

`LinkLeftProofs`, under `Cast` and if there is a scanner:

* `NothingIsLeft`: `NothingLeftBehind`. `RecordsInv` says that a session belongs
  to one TCP connection and is there as long as both of its ends are, and what a
  scanner asks for in each phase. `CountsInv` counts, for each scanner: its
  entries in the table together with its requests for one that are still to be
  handled are no more than the ends that were not clean, and one while it may
  hold a connection; the sessions that nobody will give back are no more than
  those ends. That a clean end took an entry out needs a third count: a transport
  has no more closes under way with a serial than entries with it.

`LinkOrderProofs`, under the same two assumptions:

* `ConnectedStaysOpen`: `ConnectedIsOpen`. `KeptInv` says that what a scanner has
  been told it has, or is about to be told, is in the table unless the server has
  stopped since. For a transport, the closes it has left behind with its serial
  are no more than the entries with it that are older than its own, and a close
  takes the oldest.
* `FormerScannersStayOut`: the action property `NewScannerPrevails`. `OrderInv`
  says that connection ids are drawn in order and that what was closed stays
  closed, and that no frame of a clean scanner is behind one of a connection
  opened after its own was closed, except where the server has stopped under that
  scanner. A frame of that kind is not let pass, and such a scanner does not leave
  cleanly.

`AssemblyProofs`, about the codec, for every layout that `Accepted` lets through:

* `WrittenIsRead`: a value of its type that fits a field of one element is read as
  it was written, from any image it is written into, and every other such field
  reads as before. `ElementSurvives` takes an element apart into its bytes and puts
  it together, in both orders of the bytes; `WriteBoolField` and
  `WriteElementField` say which bits and bytes change; two accepted fields share no
  bit, which is enough although bits of several share a byte (`ReadRest`).
* `EncodeSays`, for the groups of `v1.py`: after `Encode` the fields of the group
  read as the values given, and all others as before. The fold that `Pack` is goes
  over any number of fields. The induction theorems of the library take an operator
  and cannot be used; `NatSetInduction` states induction for a set instead, proved
  from the well-foundedness of `<`, and `TableSteps` unfolds a fold with it.

`WireProofs`, for any specifications that the two ends may have loaded:

* `StreamStaysInStep`: `StreamInStep`. `StreamInv` says that what was sent and
  what was handled are the first messages of the session and that the buffer
  starts where the handled ones end. A stream is as long as a fold over its
  messages; since there are four of them the lemmas `SizeOfPart`, `SizeGrows` and
  `SizeMonotone` can unfold it.
* `StrictServerAgrees`: `AcceptedAgree`. An open connection is one that the
  server would accept again.
* `ImagesHaveTheirSize`: `WireTypeOK`, and `WhatIsSaidIsRead`: `SaidIsRead`, both
  from `ValueInv`. It says of the image that is kept, of the one in the frame under
  way and, if both ends have one map, of the one applied last that every field of
  every group reads as what was said of it (`Means`). `WriteMeans` is the step of
  the facade, `InputMeans` the nine groups of `build_input_assembly` one after the
  other, `BlankMeans` the zeros a connection starts from. `FrameArrived` and
  `PayloadSays` follow a frame, whole or cut, with and without a run/idle header:
  what has a usable size is the image that was sent, and a cut frame never has one
  if both ends have the same map.

Two assumptions carry these two. `WireAssumption` asks of the constants what the
code has: every specification that can be loaded has the fields of every group,
with one element each, the values are of the types of those fields, and those of
the robot are in range (the facade may be given others, which `RefuseGroup`
refuses). `GroupsAssumption` holds of the tables of groups themselves: no field
name is in them twice, and the position starts with the configuration. The names
are strings put together from parts, which the provers cannot compare, so this one
is evaluated by TLC and not proved.

Model-checked only: all liveness (`TimedStatesEnd`, `BlockEnds`, `CallsEnd`,
`IdleEnds`, `StopTakesEffect`), since fairness is out of the prover's reach. Every
invariant and action property of the runs that hold is stated by a theorem.
Arrays, fields of more than one element, are in the codec that TLC
evaluates and in no theorem: no field of a group is one.

## What is not modelled

* **Torn images.** The stack's thread reads the bit list while the transport
  writes it. A mixture of two images is again an image of `Simulator`, whose
  theorems hold for all of them; what the facade may conclude from it is not
  modelled.
* **Frames out of order.** Sequence numbers are sent and never looked at;
  exchange and link deliver in order.
* **Malformed messages and commands the server does not support.** They are
  answered with an error and change nothing.
* **The choice of UDP ports, and the stack itself** (a library).
* **64-bit and unsigned 32-bit fields, and float arithmetic.** The first are
  beyond the integers of TLC, and the layout does not use them; a float is its
  four bytes. Arguments that cannot be encoded are therefore outside, and so are
  arguments that are not numbers: angles are integers here and have an order,
  while a NaN passes the limit test and the clamp of the simulator, so that what
  `TypeOK` says of the limits is said of ordered angles.
* **Digital outputs, dynamic data, safety status and robot variables** in the
  simulator and the facade: no decision reads them. The **velocity percentage**
  scales the duration of a move and nothing else; the model has one speed. Their
  bytes are in `AssemblyV1`.
* **Monitoring connections**, which do not write, and the kinematics, which are
  placeholders in the code.
* **Generators and examples**: text conversion run by hand, and a sequence of
  calls among those that `session` explores. Logging and the texts of
  exceptions.

Hazards that no property covers are listed in `PROJECT.json` with the reason:
`ResetError` confirmed by an image from before the error, bits left latched by a
timeout, the numbering after a `Connect` that does not wait, arguments that fail
to encode, torn images and sequence numbers.
