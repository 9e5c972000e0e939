-------------------------------- MODULE Wire --------------------------------
(***************************************************************************)
(* What the two ends say to each other, as bytes, frames and images: the   *)
(* messages of a session in a TCP stream that arrives in pieces, the       *)
(* Forward Open that the server checks against its I/O map, and the cyclic *)
(* frames that carry the assemblies (mock_robot/server.py,                 *)
(* tools/eip_originator.py, io_map/v1.py). The two ends may have loaded    *)
(* different I/O maps, and the server may be permissive.                   *)
(*                                                                         *)
(* A message counts with its length: what is inside is a record. Only the  *)
(* assemblies are byte for byte. Each behaviour follows one direction of   *)
(* the cyclic data; the two do not touch.                                  *)
(***************************************************************************)
EXTENDS AssemblyV1

CONSTANTS
  Specs,        \* specifications, by name
  Setups,       \* the ones the two ends are given, and whether the server is strict
  GroupValues,  \* for each group of the output, the values it is given
  InputValues,  \* the values all groups of the input are given at once
  MaxWrites     \* bound: times the image changes

\* The specifications that can be loaded.
Loadable == {name \in DOMAIN Specs : Loads(Specs[name])}

\* What can be loaded has the fields of every group; the facade and the robot give
\* them values of their types, and those of the robot are in range.
ASSUME WireAssumption ==
  /\ \A name \in DOMAIN Specs : Specs[name] \in Specification
  /\ \A name \in Loadable : LET loaded == Load(Specs[name]) IN
       /\ \A group \in DOMAIN OutputGroups :
            /\ HasFields(loaded.output, OutputGroups[group])
            /\ \A values \in GroupValues[group] :
                 Suit(loaded.output, OutputGroups[group], values)
       /\ \A group \in DOMAIN InputGroups :
            /\ HasFields(loaded.input, InputGroups[group])
            /\ \A values \in InputValues :
                 /\ Suit(loaded.input, InputGroups[group], values[group])
                 /\ Encodable(loaded.input, InputGroups[group], values[group],
                              Zeros(loaded.input.size_bytes))
  /\ MaxWrites \in Nat

\* No field is in two groups, or twice in one, and those of the configuration of
\* the arm are in the position.
NoFieldTwice(groups) ==
  \A g, h \in DOMAIN groups : \A k \in DOMAIN groups[g], j \in DOMAIN groups[h] :
    groups[g][k] = groups[h][j] => g = h /\ k = j

ASSUME GroupsAssumption ==
  /\ NoFieldTwice(OutputGroups) /\ NoFieldTwice(InputGroups)
  /\ \A group \in DOMAIN OutputGroups : \A k \in DOMAIN OutputGroups[group] :
       OutputGroups[group][k] \notin {Configuration[i] : i \in DOMAIN Configuration}
  /\ \A group \in DOMAIN InputGroups : InputGroups[group] # DynamicConfig
  /\ IsPrefix(Configuration, InputGroups.position)

VARIABLES
  scanner_map, server_map,  \* the I/O maps they loaded
  strict,                   \* the server compares Forward Opens with its map
  direction,                \* of the cyclic data that is followed
  sent,                     \* the commands the scanner has sent in its session
  received,                 \* bytes of them that were received
  first,                    \* position in the stream of the first byte buffered
  handled,                  \* the commands the server has handled
  connection,               \* closed, open or refused
  image,                    \* what the sender would send
  said,                     \* history: the value of each group in it
  writes,                   \* times it has changed
  datagram,                 \* the last frame sent
  latest                    \* what the receiver applied last, and its meaning

session == <<sent, received, first, handled, connection>>
content == <<image, said, writes>>
wireVars == <<scanner_map, server_map, strict, direction, session, content, datagram, latest>>
maps == <<scanner_map, server_map, strict, direction>>

Groups == IF direction = "output" THEN OutputGroups ELSE InputGroups
AssemblyOf(spec) == IF direction = "output" THEN spec.output ELSE spec.input
Sender == AssemblyOf(IF direction = "output" THEN scanner_map ELSE server_map)
Receiver == AssemblyOf(IF direction = "output" THEN server_map ELSE scanner_map)

\* What an image of zeros says.
Blank ==
  [group \in DOMAIN Groups |->
     [k \in DOMAIN Groups[group] |-> Zero(Field(Sender, Groups[group][k]).type)]]

Nothing == [sent |-> FALSE]

\* Both ends have loaded their specification.
InitWire ==
  /\ \E setup \in {s \in Setups : {s.scanner, s.server} \subseteq Loadable} :
       /\ scanner_map = Load(Specs[setup.scanner]) /\ server_map = Load(Specs[setup.server])
       /\ strict = setup.strict
  /\ direction \in {"output", "input"}
  /\ sent = <<>> /\ received = 0 /\ first = 0 /\ handled = <<>>
  /\ connection = "closed"
  /\ image = Zeros(Sender.size_bytes)
  /\ said = Blank
  /\ writes = 0
  /\ datagram = Nothing /\ latest = Nothing

----------------------------------------------------------------------------
(* The session: a stream of encapsulation messages.                        *)

HeaderSize == 24

\* The length in the header of each message. The path of the Forward Open is
\* three words long.
PayloadLength == [register |-> 4, open |-> 84, close |-> 40, unregister |-> 0]

Size(commands) ==
  FoldLeft(LAMBDA bytes, command : bytes + HeaderSize + PayloadLength[command], 0, commands)

\* Bound: the positions a piece of the stream may end at, in and around each
\* header and each payload.
Cuts ==
  (0 .. Size(sent)) \cap
  ({Size(sent)} \cup
   {Size(SubSeq(sent, 1, k - 1)) + cut : k \in DOMAIN sent, cut \in {1, 23, 24, 25}})

\* The scanner sends its next message: when the last one was answered, or when
\* it no longer waits for that. It cannot open before it has a session.
SendMessage ==
  /\ sent' = CASE sent = <<>> -> <<"register">>
               [] sent # <<>> /\ Last(sent) = "register" /\ Len(handled) = 1 ->
                    Append(sent, "open")
               [] sent # <<>> /\ Last(sent) = "open" -> Append(sent, "close")
               [] sent # <<>> /\ Last(sent) = "close" -> Append(sent, "unregister")
               [] OTHER -> sent
  /\ sent' # sent
  /\ UNCHANGED <<received, first, handled, connection, maps, content, datagram, latest>>

\* The message whose header the buffer starts with.
Buffered == CHOOSE k \in DOMAIN sent : Size(SubSeq(sent, 1, k - 1)) = first

\* The loop of _session_loop finds a whole message in the buffer.
Whole ==
  /\ received - first >= HeaderSize
  /\ received - first >= HeaderSize + PayloadLength[sent[Buffered]]

\* recv: some more bytes, once no whole message is left.
ReceiveBytes ==
  /\ ~Whole
  /\ received' \in {cut \in Cuts : cut > received}
  /\ UNCHANGED <<sent, first, handled, connection, maps, content, datagram, latest>>

\* _parse_connection_path: the connection points, up to the first segment that
\* is none of those a Class 1 connection needs.
ConnectionPoints(path) ==
  LET known == {"key", "class", "instance", "connection point"}
      walked == SelectSeq([k \in DOMAIN path |-> k],
                  LAMBDA k : /\ \A i \in 1 .. k : path[i][1] \in known
                             /\ path[k][1] = "connection point")
  IN [k \in DOMAIN walked |-> path[walked[k]][2]]

SequenceCount == 2
RunIdleHeader == 4

\* What forward_open asks for. The input direction never counts a header.
RequestedOutput ==
  scanner_map.output.size_bytes + SequenceCount
    + (IF scanner_map.output_run_idle_header THEN RunIdleHeader ELSE 0)
RequestedInput == scanner_map.input.size_bytes + SequenceCount

ExpectedOutput ==
  server_map.output.size_bytes + SequenceCount
    + (IF server_map.output_run_idle_header THEN RunIdleHeader ELSE 0)
ExpectedInput ==
  server_map.input.size_bytes + SequenceCount
    + (IF server_map.input_run_idle_header THEN RunIdleHeader ELSE 0)

\* Mutant of Validated: the direction from the robot is not compared.
ValidatedOutputOnly ==
  strict =>
    /\ ConnectionPoints(scanner_map.connection_path)
         = <<server_map.output.instance, server_map.input.instance>>
    /\ RequestedOutput % 512 = ExpectedOutput

\* _validate_forward_open. A size has nine bits.
Validated ==
  strict =>
    /\ ConnectionPoints(scanner_map.connection_path)
         = <<server_map.output.instance, server_map.input.instance>>
    /\ RequestedOutput % 512 = ExpectedOutput
    /\ RequestedInput % 512 = ExpectedInput

\* What becomes of the connection.
Outcome(command) ==
  CASE command = "open" -> IF Validated THEN "open" ELSE "refused"
    [] command = "close" -> "closed"
    [] OTHER -> connection

\* The images and the frame under way are gone with the connection.
Forgotten ==
  /\ image' = Zeros(Sender.size_bytes)
  /\ said' = Blank
  /\ writes' = MaxWrites
  /\ datagram' = Nothing /\ latest' = Nothing

\* Mutant of HandleMessage: what follows the message in the buffer is dropped.
HandleAndForget ==
  /\ Whole
  /\ handled' = Append(handled, sent[Buffered])
  /\ first' = received
  /\ connection' = Outcome(sent[Buffered])
  /\ IF sent[Buffered] = "close" THEN Forgotten ELSE UNCHANGED <<content, datagram, latest>>
  /\ UNCHANGED <<sent, received, maps>>

\* The message at the front of the buffer is taken out of it and handled.
HandleMessage ==
  /\ Whole
  /\ handled' = Append(handled, sent[Buffered])
  /\ first' = first + HeaderSize + PayloadLength[sent[Buffered]]
  /\ connection' = Outcome(sent[Buffered])
  /\ IF sent[Buffered] = "close" THEN Forgotten ELSE UNCHANGED <<content, datagram, latest>>
  /\ UNCHANGED <<sent, received, maps>>

----------------------------------------------------------------------------
(* The images.                                                             *)

\* The facade writes one group into its output image, and keeps the rest.
WriteGroup ==
  /\ connection = "open" /\ direction = "output" /\ writes < MaxWrites
  /\ \E group \in DOMAIN OutputGroups : \E values \in GroupValues[group] :
       /\ Encodable(Sender, OutputGroups[group], values, image)
       /\ image' = Encode(Sender, OutputGroups[group], values, image)
       /\ said' = [said EXCEPT ![group] =
                     values \o SubSeq(@, Len(values) + 1, Len(@))]
  /\ writes' = writes + 1
  /\ UNCHANGED <<maps, session, datagram, latest>>

\* Values that do not fit raise an error, and the image stays as it was.
RefuseGroup ==
  /\ connection = "open" /\ direction = "output" /\ writes < MaxWrites
  /\ \E group \in DOMAIN OutputGroups : \E values \in GroupValues[group] :
       ~Encodable(Sender, OutputGroups[group], values, image)
  /\ writes' = writes + 1
  /\ UNCHANGED <<maps, session, image, said, datagram, latest>>

\* build_input_assembly: every group, one after the other, into an empty image.
InputOrder ==
  <<"status", "motion_status", "safety_status", "position", "timestamp",
    "dynamic_data_0", "dynamic_data_1", "dynamic_data_2", "dynamic_data_3">>

InputImage(values) ==
  FoldLeft(LAMBDA raw, group : Encode(Sender, InputGroups[group], values[group], raw),
           Zeros(Sender.size_bytes), InputOrder)

BuildInput ==
  /\ connection = "open" /\ direction = "input" /\ writes < MaxWrites
  /\ \E values \in InputValues : said' = values /\ image' = InputImage(values)
  /\ writes' = writes + 1
  /\ UNCHANGED <<maps, session, datagram, latest>>

----------------------------------------------------------------------------
(* The cyclic frames.                                                      *)

\* A Common Packet Format item by its type; of two of a type the last one.
Item(items, type) ==
  LET of == {k \in DOMAIN items : items[k].type = type}
  IN items[CHOOSE k \in of : \A i \in of : i <= k]

HasItem(items, type) == \E k \in DOMAIN items : items[k].type = type

\* build_output_frame puts a run/idle header before the image whatever the
\* profile says; build_cyclic_frame never does.
CyclicItems(id, assembly) ==
  <<[type |-> "sequenced_address", data |-> <<id>>],
    [type |-> "connected_data", data |->
       Zeros(SequenceCount)
       \o (IF direction = "output" THEN <<1, 0, 0, 0>> ELSE <<>>) \o assembly]>>

\* strip_run_idle_header tells the two layouts apart by their size.
StripRunIdleHeader(payload) ==
  IF Len(payload) = Receiver.size_bytes THEN payload
  ELSE SubSeq(payload, RunIdleHeader + 1, Len(payload))

\* Mutant of UsableSize: any frame that is long enough.
LongEnoughSize(payload) == Len(payload) >= Receiver.size_bytes

UsableSize(payload) ==
  Len(payload) \in {Receiver.size_bytes, Receiver.size_bytes + RunIdleHeader}

OwnId == 1
OtherId == 2  \* of a connection that was closed before

SendFrame ==
  /\ connection = "open"
  /\ datagram' = [sent |-> TRUE, items |-> CyclicItems(OwnId, image),
                  image |-> image, said |-> said]
  /\ UNCHANGED <<maps, session, content, latest>>

\* What may come out of the socket: the last frame, once more or cut short, or
\* one of an earlier connection.
Arrivals ==
  {datagram.items, <<datagram.items[1]>>, <<datagram.items[2]>>,
   <<datagram.items[1],
     [datagram.items[2] EXCEPT !.data = SubSeq(@, 1, Len(@) - RunIdleHeader - 1)]>>,
   CyclicItems(OtherId, Zeros(Receiver.size_bytes))}

\* The receive loop of the server, parse_input_frame of the scanner: what is not
\* a frame of the connection with an image of the size of the assembly is
\* ignored.
ReceiveFrame ==
  /\ connection = "open" /\ datagram.sent
  /\ \E items \in Arrivals :
       /\ HasItem(items, "sequenced_address") /\ HasItem(items, "connected_data")
       /\ Item(items, "sequenced_address").data[1] = OwnId
       /\ LET data == Item(items, "connected_data").data
              payload == SubSeq(data, SequenceCount + 1, Len(data))
          IN /\ UsableSize(payload)
             /\ latest' = [sent |-> TRUE, image |-> StripRunIdleHeader(payload),
                           said |-> datagram.said]
  /\ UNCHANGED <<maps, session, content, datagram>>

NextWire ==
  \/ SendMessage \/ ReceiveBytes \/ HandleMessage
  \/ WriteGroup \/ RefuseGroup \/ BuildInput \/ SendFrame \/ ReceiveFrame

WireSpec == InitWire /\ [][NextWire]_wireVars

----------------------------------------------------------------------------
(* An image has the size of the assembly it is an image of, so that it can *)
(* be decoded: frames of other sizes never get that far.                   *)
WireTypeOK ==
  /\ connection \in {"closed", "open", "refused"}
  /\ first <= received /\ received <= Size(sent)
  /\ image \in Seq(Byte) /\ Len(image) = Sender.size_bytes
  /\ latest.sent => /\ latest.image \in Seq(Byte)
                    /\ Len(latest.image) = Receiver.size_bytes

\* However the stream is cut, the server handles what was sent, in that order,
\* and its buffer always starts at a header (_session_loop).
StreamInStep ==
  /\ IsPrefix(handled, sent)
  /\ first = Size(handled)

\* A connection that a strict server accepts has two ends with the same
\* connection points, and with assemblies of the same size, as far as the nine
\* bits of a size show it. Sizes are compared with the run/idle header counted
\* in: the ends may still differ in both, by as much
\* (_validate_forward_open).
AcceptedAgree ==
  strict /\ connection = "open" =>
    /\ scanner_map.output_run_idle_header = server_map.output_run_idle_header =>
         scanner_map.output.size_bytes % 512 = server_map.output.size_bytes
    /\ ~server_map.input_run_idle_header =>
         scanner_map.input.size_bytes % 512 = server_map.input.size_bytes
    /\ ConnectionPoints(scanner_map.connection_path)
         = <<server_map.output.instance, server_map.input.instance>>

\* With one I/O map at both ends, whatever was written in whatever order, every
\* group decodes at the other end to what was last said of it: no group
\* disturbs another, and no image is a mixture of frames. A configuration sign
\* that is none decodes as undefined (encode_ and decode_ methods of IoMapV1).
SaidIsRead ==
  latest.sent /\ scanner_map = server_map =>
    \A group \in DOMAIN Groups :
      Decode(Receiver, Groups[group], latest.image)
        = [k \in DOMAIN latest.said[group] |->
             IF group = "position" /\ k <= Len(Configuration)
             THEN FromRaw(latest.said[group][k]) ELSE latest.said[group][k]]

=============================================================================
