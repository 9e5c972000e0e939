------------------------------- MODULE Server -------------------------------
(***************************************************************************)
(* The mock robot on the network (mock_robot/server.py, class              *)
(* MockRobotServer): its sessions, its table of Class 1 connections and    *)
(* its threads, each cut where it lets go of the lock. The robot itself is *)
(* the module Simulator; here a cyclic frame is the connection it belongs  *)
(* to, and a message is what the handlers read of it (its bytes are the    *)
(* module Wire).                                                           *)
(*                                                                         *)
(* A TCP connection is a pair of streams in order. A thread that is told   *)
(* to stop ends at the next test of the stop event, well within the 2 s    *)
(* that stop allows for its join. The cyclic frames of all scanners arrive *)
(* in the order they were sent in, or not at all.                          *)
(* The produce loop is ProduceInput in CyclicExchange: it changes none of   *)
(* the tables, and ends as the others do.                                  *)
(***************************************************************************)
EXTENDS Integers, Sequences, FiniteSetsExt

CONSTANTS
  Scanners,      \* whoever connects
  Vendor,        \* the vendor id of each scanner
  Serials,       \* connection serial numbers
  MaxSockets,    \* bound: TCP connections that are ever made
  MaxStarts,     \* bound: times the server is started
  MaxDatagrams   \* bound: cyclic frames under way

ASSUME ServerAssumption ==
  /\ MaxSockets \in Nat /\ MaxStarts \in Nat /\ MaxDatagrams \in Nat
  /\ Serials \subseteq Nat /\ DOMAIN Vendor = Scanners

VARIABLES
  stage,               \* of the server: down, up or stopping
  starts,              \* how often it was started
  threads,             \* its background loops that run
  sockets,             \* the TCP connections, and the session thread of each
  sessions,            \* the session handles handed out and not given back
  next_session,
  connections,         \* the table of open Class 1 connections
  next_connection_id,
  forward_open_items,  \* _last_forward_open_items: whose endpoint it names
  applying,            \* receive loop: a frame found to be of a known connection
  datagrams,           \* cyclic frames on their way to the server
  older,               \* history: connections closed when each one was opened
  overtaken            \* history: closed before one a frame of was applied opened

tables == <<sessions, next_session, connections, next_connection_id, older>>
cyclic == <<applying, datagrams, overtaken>>
serverVars == <<stage, starts, threads, sockets, tables, forward_open_items, cyclic>>

Loops == {"accept", "receive"}

SocketIds == 1 .. MaxSockets
Ids == 0 .. MaxSockets  \* a TCP connection asks for one session and one connection

NoFrame == [vendor |-> "none", serial |-> 0, id |-> 0]
NoItems == "no items"
Frame == [vendor : {Vendor[s] : s \in Scanners}, serial : Serials, id : Ids]

\* One entry of the table. The O->T id of a scanner goes with its serial.
Connection == Frame

ThreadStages ==
  {"unused", "backlog", "reading", "opened", "answered", "collected", "ended"}

Request ==
  [kind : {"register", "unregister", "open", "close"}, session : Ids,
   serial : Serials \cup {0}, fits : BOOLEAN]

Reply ==
  [kind : {"registered", "opened", "refused", "closed", "invalid session"},
   value : Ids, items : Scanners \cup {NoItems}]

NoReply == [kind |-> "invalid session", value |-> 0, items |-> NoItems]

Socket ==
  [owner : Scanners,             \* the scanner that made it
   peer : {"here", "closed", "gone"},  \* whether its end is open
   requests : Seq(Request), replies : Seq(Reply),
   thread : ThreadStages,        \* the session thread
   reply : Reply,                \* the reply it is about to send
   handle : Ids]                 \* history: the session registered on it

UnusedSocket(s) ==
  [owner |-> s, peer |-> "here", requests |-> <<>>, replies |-> <<>>,
   thread |-> "unused", reply |-> NoReply, handle |-> 0]

InitServer ==
  /\ stage = "down" /\ starts = 0 /\ threads = {}
  /\ sockets = [c \in SocketIds |-> UnusedSocket(CHOOSE s \in Scanners : TRUE)]
  /\ sessions = {} /\ next_session = 1
  /\ connections = {} /\ next_connection_id = 0
  /\ forward_open_items = NoItems
  /\ applying = NoFrame /\ datagrams = <<>>
  /\ older = [k \in Ids |-> {}] /\ overtaken = {}

----------------------------------------------------------------------------
(* The ends of a TCP connection, for the scanners.                         *)

Listening == stage # "down"

\* The next TCP connection to be made.
FreeSocket == {c \in SocketIds : sockets[c].thread = "unused"
                  /\ \A d \in 1 .. c - 1 : sockets[d].thread # "unused"}

\* The scanner connects, and sends its first request.
Dial(s, c, request) ==
  sockets' = [sockets EXCEPT ![c] =
    [UnusedSocket(s) EXCEPT !.thread = "backlog", !.requests = <<request>>]]

Send(c, request) ==
  sockets' = [sockets EXCEPT ![c].requests = Append(@, request)]

\* The reply that has arrived is read, and the next request sent.
Exchange(c, request) ==
  sockets' = [sockets EXCEPT ![c].replies = Tail(@),
                             ![c].requests = Append(@, request)]

Arrived(c) == sockets[c].replies # <<>>

\* The server has closed its end, and every reply has been read.
Broken(c) == sockets[c].thread = "ended" /\ ~Arrived(c)

\* The scanner sends its last messages and closes its end. A scanner that has
\* an answer coming resets the connection, which may take what the server has
\* not read with it.
CloseSocket(c, last, abrupt) ==
  sockets' = [sockets EXCEPT ![c].peer = IF abrupt THEN "gone" ELSE "closed",
                             ![c].requests = @ \o last, ![c].replies = <<>>]

----------------------------------------------------------------------------
(* Life of the server.                                                     *)

\* A start that cannot bind its ports closes them and changes nothing.
StartServer ==
  /\ stage = "down" /\ starts < MaxStarts
  /\ stage' = "up" /\ starts' = starts + 1
  /\ threads' = Loops
  /\ UNCHANGED <<sockets, tables, forward_open_items, cyclic>>

\* stop sets the event and starts to join the threads.
StopServer ==
  /\ stage = "up"
  /\ stage' = "stopping"
  /\ UNCHANGED <<starts, threads, sockets, tables, forward_open_items, cyclic>>

\* A loop looks at the event between two rounds.
LoopEnds(t) ==
  /\ stage = "stopping" /\ t \in threads
  /\ t = "receive" => applying = NoFrame
  /\ threads' = threads \ {t}
  /\ UNCHANGED <<stage, starts, sockets, tables, forward_open_items, cyclic>>

Serving == {c \in SocketIds :
              sockets[c].thread \in {"reading", "opened", "answered", "collected"}}

\* Mutant of StopReturns: the session threads are not joined.
StopWithoutJoin ==
  /\ stage = "stopping" /\ threads = {}
  /\ stage' = "down"
  /\ connections' = {} /\ sessions' = {} /\ UNCHANGED older
  /\ sockets' = [c \in SocketIds |->
       IF sockets[c].thread = "backlog"
       THEN [sockets[c] EXCEPT !.thread = "ended", !.requests = <<>>] ELSE sockets[c]]
  /\ UNCHANGED <<starts, threads, next_session, next_connection_id,
                 forward_open_items, cyclic>>

\* Every thread is joined: the tables are cleared and the sockets closed.
StopReturns ==
  /\ stage = "stopping" /\ threads = {} /\ Serving = {}
  /\ stage' = "down"
  /\ connections' = {} /\ sessions' = {} /\ UNCHANGED older
  /\ sockets' = [c \in SocketIds |->
       IF sockets[c].thread = "backlog"
       THEN [sockets[c] EXCEPT !.thread = "ended", !.requests = <<>>] ELSE sockets[c]]
  /\ UNCHANGED <<starts, threads, next_session, next_connection_id,
                 forward_open_items, cyclic>>

----------------------------------------------------------------------------
(* The accept loop and the session threads.                                *)

Accept(c) ==
  /\ "accept" \in threads /\ sockets[c].thread = "backlog"
  /\ sockets' = [sockets EXCEPT ![c].thread = "reading"]
  /\ UNCHANGED <<stage, starts, threads, tables, forward_open_items, cyclic>>

\* The session thread takes a request of this kind.
Takes(c, kind) ==
  /\ sockets[c].thread = "reading" /\ sockets[c].requests # <<>>
  /\ Head(sockets[c].requests).kind = kind

\* A reply goes out, to a peer that is still there.
Sent(socket, reply) ==
  [socket EXCEPT !.replies = IF socket.peer = "here" THEN Append(@, reply) ELSE @]

RegisterSession(c) ==
  /\ Takes(c, "register")
  /\ sessions' = sessions \cup {next_session}
  /\ next_session' = next_session + 1
  /\ sockets' = [sockets EXCEPT ![c] =
       Sent([sockets[c] EXCEPT !.requests = Tail(@), !.handle = next_session],
            [kind |-> "registered", value |-> next_session, items |-> NoItems])]
  /\ UNCHANGED <<stage, starts, threads, connections, next_connection_id,
                 older, forward_open_items, cyclic>>

UnregisterSession(c) ==
  /\ Takes(c, "unregister")
  /\ sessions' = sessions \ {Head(sockets[c].requests).session}
  /\ sockets' = [sockets EXCEPT ![c].requests = Tail(@)]
  /\ UNCHANGED <<stage, starts, threads, next_session, connections,
                 next_connection_id, older, forward_open_items, cyclic>>

\* A CIP request under a session that is not registered.
RefuseSession(c) ==
  /\ Takes(c, "open") \/ Takes(c, "close")
  /\ Head(sockets[c].requests).session \notin sessions
  /\ sockets' = [sockets EXCEPT ![c] = Sent([sockets[c] EXCEPT !.requests = Tail(@)], NoReply)]
  /\ UNCHANGED <<stage, starts, threads, tables, forward_open_items, cyclic>>

\* The session thread has handled a CIP request, and has yet to answer it.
Handled(c, next, kind, value) ==
  sockets' = [sockets EXCEPT ![c].requests = Tail(@), ![c].thread = next,
    ![c].reply = [kind |-> kind, value |-> value, items |-> NoItems]]

\* Mutant of ForwardOpen: an id is drawn for each direction.
ForwardOpenTwoIds(c) ==
  LET request == Head(sockets[c].requests)
  IN /\ Takes(c, "open")
     /\ request.session \in sessions /\ request.fits
     /\ next_connection_id' = next_connection_id + 2
     /\ connections' = connections \cup
          {[vendor |-> Vendor[sockets[c].owner], serial |-> request.serial,
            id |-> next_connection_id']}
     /\ older' = [older EXCEPT ![next_connection_id'] =
          1 .. next_connection_id \ {k.id : k \in connections}]
     /\ Handled(c, "opened", "opened", next_connection_id')
     /\ UNCHANGED <<stage, starts, threads, sessions, next_session,
                    forward_open_items, cyclic>>

\* The connection enters the table under the lock.
ForwardOpen(c) ==
  LET request == Head(sockets[c].requests)
  IN /\ Takes(c, "open")
     /\ request.session \in sessions /\ request.fits
     /\ next_connection_id' = next_connection_id + 1
     /\ connections' = connections \cup
          {[vendor |-> Vendor[sockets[c].owner], serial |-> request.serial,
            id |-> next_connection_id']}
     /\ older' = [older EXCEPT ![next_connection_id'] =
          1 .. next_connection_id \ {k.id : k \in connections}]
     /\ Handled(c, "opened", "opened", next_connection_id')
     /\ UNCHANGED <<stage, starts, threads, sessions, next_session,
                    forward_open_items, cyclic>>

\* The connection points or the sizes do not match the I/O map.
RefuseForwardOpen(c) ==
  LET request == Head(sockets[c].requests)
  IN /\ Takes(c, "open")
     /\ request.session \in sessions /\ ~request.fits
     /\ Handled(c, "answered", "refused", 0)
     /\ UNCHANGED <<stage, starts, threads, tables, forward_open_items, cyclic>>

\* Mutant of Matching: the vendor is not looked at.
MatchingAnyVendor(c) ==
  {k \in connections : k.serial = Head(sockets[c].requests).serial}

\* The connections a Forward Close means: the originator serial is not compared.
Matching(c) ==
  {k \in connections : /\ k.serial = Head(sockets[c].requests).serial
                       /\ k.vendor = Vendor[sockets[c].owner]}

\* The oldest match leaves the table; the reply is a success even without one.
ForwardClose(c) ==
  /\ Takes(c, "close")
  /\ Head(sockets[c].requests).session \in sessions
  /\ connections' = connections \
       {k \in Matching(c) : \A other \in Matching(c) : k.id <= other.id}
  /\ Handled(c, "answered", "closed", 0)
  /\ UNCHANGED <<stage, starts, threads, sessions, next_session,
                 next_connection_id, older, forward_open_items, cyclic>>

\* The end of _handle_forward_open, without the lock.
SetItems(c) ==
  /\ sockets[c].thread = "opened"
  /\ forward_open_items' = sockets[c].owner
  /\ sockets' = [sockets EXCEPT ![c].thread = "answered"]
  /\ UNCHANGED <<stage, starts, threads, tables, cyclic>>

\* The end of _handle_send_rr_data, without the lock: the items are read ...
CollectItems(c) ==
  /\ sockets[c].thread = "answered"
  /\ sockets' = [sockets EXCEPT ![c].thread = "collected",
                                ![c].reply.items = forward_open_items]
  /\ UNCHANGED <<stage, starts, threads, tables, forward_open_items, cyclic>>

\* ... and reset, and the reply is sent.
Answer(c) ==
  /\ sockets[c].thread = "collected"
  /\ forward_open_items' = NoItems
  /\ sockets' = [sockets EXCEPT ![c] =
       Sent([sockets[c] EXCEPT !.thread = "reading", !.reply = NoReply], sockets[c].reply)]
  /\ UNCHANGED <<stage, starts, threads, tables, cyclic>>

\* The end of the stream, a broken one, or the stop event. Neither the session
\* nor the connections of the peer are touched.
SessionEnds(c) ==
  /\ sockets[c].thread = "reading"
  /\ \/ sockets[c].requests = <<>> /\ sockets[c].peer # "here"
     \/ sockets[c].peer = "gone"
     \/ stage = "stopping"
  /\ sockets' = [sockets EXCEPT ![c].thread = "ended", ![c].requests = <<>>]
  /\ UNCHANGED <<stage, starts, threads, tables, forward_open_items, cyclic>>

SessionStep(c) ==
  \/ RegisterSession(c) \/ UnregisterSession(c) \/ RefuseSession(c)
  \/ ForwardOpen(c) \/ RefuseForwardOpen(c) \/ ForwardClose(c)
  \/ SetItems(c) \/ CollectItems(c) \/ Answer(c) \/ SessionEnds(c)

----------------------------------------------------------------------------
(* The receive loop.                                                       *)

Known(f) == \E k \in connections : k.vendor = f.vendor /\ k.serial = f.serial

\* Mutant of Receive: the connection is not looked up.
ReceiveAny ==
  /\ "receive" \in threads /\ applying = NoFrame /\ datagrams # <<>>
  /\ datagrams' = Tail(datagrams)
  /\ applying' = Head(datagrams)
  /\ UNCHANGED <<stage, starts, threads, sockets, tables, forward_open_items,
                 overtaken>>

\* A frame is looked up under the lock; one of no connection is ignored.
Receive ==
  /\ "receive" \in threads /\ applying = NoFrame /\ datagrams # <<>>
  /\ datagrams' = Tail(datagrams)
  /\ applying' = IF Known(Head(datagrams)) THEN Head(datagrams) ELSE NoFrame
  /\ UNCHANGED <<stage, starts, threads, sockets, tables, forward_open_items,
                 overtaken>>

\* The frame is handed over to the robot, without the lock.
Apply ==
  /\ applying # NoFrame
  /\ overtaken' = overtaken \cup older[applying.id]
  /\ applying' = NoFrame
  /\ UNCHANGED <<stage, starts, threads, sockets, tables, forward_open_items,
                 datagrams>>

LoseDatagram ==
  /\ datagrams # <<>>
  /\ datagrams' = Tail(datagrams)
  /\ UNCHANGED <<stage, starts, threads, sockets, tables, forward_open_items,
                 applying, overtaken>>

ServerStep ==
  \/ StartServer \/ StopServer \/ StopReturns \/ \E t \in Loops : LoopEnds(t)
  \/ \E c \in SocketIds : Accept(c) \/ SessionStep(c)
  \/ Receive \/ Apply \/ LoseDatagram

=============================================================================
