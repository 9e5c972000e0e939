----------------------------- MODULE Transport -----------------------------
(***************************************************************************)
(* The EtherNet/IP transport of the library                                *)
(* (mecademic_fieldbus/transports/ethernetip.py), on the stack it wraps:   *)
(* connect and disconnect cut at every answer they wait for, a failure     *)
(* possible at every step, and the shutdown of the receiving socket of the *)
(* stack. The stack itself is not part of the repository: a call of it is  *)
(* a request to the server and an answer, or OSError. It draws the serial  *)
(* of a connection, and drops its TCP connection when the transport drops  *)
(* the stack.                                                              *)
(***************************************************************************)
EXTENDS Server

CONSTANT Transports  \* the scanners that are transports

ASSUME TransportAssumption == Transports \subseteq Scanners

VARIABLES
  transport,  \* the fields of each transport, and its stack
  abandoned   \* history: how often each scanner left without a clean end

Phases == {"idle", "registering", "opening", "connected", "closing"}

\* io_state is the run flag of the stack, bound says that its receiving socket
\* is open.
Listener == [bound : BOOLEAN, io_state : {0, 1}]

\* _connection is None when idle; the bit lists are there whenever it is not.
TransportState ==
  [phase : Phases, socket : Ids, session : Ids, serial : Serials \cup {0},
   id : Ids, listener : Listener]

NoListener == [bound |-> FALSE, io_state |-> 0]

InitTransport ==
  transport = [t \in Transports |->
    [phase |-> "idle", socket |-> 0, session |-> 0, serial |-> 0, id |-> 0,
     listener |-> NoListener]]

Only == UNCHANGED <<stage, starts, threads, tables, forward_open_items, cyclic>>

----------------------------------------------------------------------------
(* Teardown.                                                               *)

\* How the shutdown of the listener may fail: it finds other internals than
\* it knows, or cannot wake the thread of the stack.
ShutdownFailures == {"none", "internals", "wake"}

\* _shutdown_listener raises AttributeError before it has changed anything.
TakesOver(listener, failure) ==
  listener.bound /\ listener.io_state = 1 /\ failure # "internals"

\* Mutant of ShutdownListener: the socket is closed only if all went well.
ShutdownUnlessFailed(listener, failure) ==
  IF TakesOver(listener, failure)
  THEN [bound |-> failure = "wake", io_state |-> 0] ELSE listener

\* _shutdown_listener: the flag first, the socket in the finally clause.
ShutdownListener(listener, failure) ==
  IF TakesOver(listener, failure) THEN NoListener ELSE listener

\* stopIO closes a socket that it still considers running.
StackStopIO(listener) == IF listener.io_state = 1 THEN NoListener ELSE listener

StopIO(listener, failure) ==
  LET shut == ShutdownListener(listener, failure)
  IN IF TakesOver(listener, failure) /\ failure # "wake" THEN shut
     ELSE StackStopIO(shut)

\* The stack and the images are forgotten.
Forget(t) ==
  \E failure \in ShutdownFailures :
    transport' = [transport EXCEPT ![t] =
      [phase |-> "idle", socket |-> 0, session |-> 0, serial |-> 0, id |-> 0,
       listener |-> StopIO(transport[t].listener, failure)]]

\* A step of connect or disconnect has failed.
Fails(t, abrupt) ==
  /\ Forget(t)
  /\ CloseSocket(transport[t].socket, <<>>, abrupt)
  /\ abandoned' = [abandoned EXCEPT ![t] = @ + 1]
  /\ Only

----------------------------------------------------------------------------
(* connect.                                                                *)

\* The TCP connection, the assemblies, and the request for a session. Without
\* anybody listening nothing changes.
Connect(t) ==
  /\ transport[t].phase = "idle" /\ Listening
  /\ \E c \in FreeSocket :
       /\ Dial(t, c, [kind |-> "register", session |-> 0, serial |-> 0, fits |-> TRUE])
       /\ transport' = [transport EXCEPT ![t].phase = "registering", ![t].socket = c]
  /\ UNCHANGED abandoned /\ Only

\* The session is there, the receiving socket is bound, the Forward Open sent,
\* for an I/O map that matches the one of the robot or not.
RequestOpen(t) ==
  LET c == transport[t].socket IN
  /\ transport[t].phase = "registering" /\ Arrived(c)
  /\ ~transport[t].listener.bound
  /\ \E serial \in Serials, fits \in BOOLEAN :
       /\ Exchange(c, [kind |-> "open", session |-> Head(sockets[c].replies).value,
                       serial |-> serial, fits |-> fits])
       /\ transport' = [transport EXCEPT ![t].phase = "opening", ![t].serial = serial,
            ![t].session = Head(sockets[c].replies).value,
            ![t].listener = [bound |-> TRUE, io_state |-> 1]]
  /\ UNCHANGED abandoned /\ Only

\* The connection is open, and the stack starts to produce.
Opened(t) ==
  LET c == transport[t].socket IN
  /\ transport[t].phase = "opening" /\ Arrived(c)
  /\ Head(sockets[c].replies).kind = "opened"
  /\ sockets' = [sockets EXCEPT ![c].replies = Tail(@)]
  /\ transport' = [transport EXCEPT ![t].phase = "connected",
                                    ![t].id = Head(sockets[c].replies).value]
  /\ UNCHANGED abandoned /\ Only

\* connect raises, after any of its steps: no answer, a refusal, a receiving
\* port that is taken, a thread of the stack that does not start.
ConnectFails(t) ==
  /\ transport[t].phase \in {"registering", "opening"}
  /\ Fails(t, ~Broken(transport[t].socket))

----------------------------------------------------------------------------
(* The cyclic exchange and disconnect.                                     *)

Emit(vendor, serial, id) ==
  /\ Len(datagrams) < MaxDatagrams
  /\ datagrams' = Append(datagrams, [vendor |-> vendor, serial |-> serial, id |-> id])
  /\ UNCHANGED <<stage, starts, threads, sockets, tables, forward_open_items,
                 applying, overtaken>>

\* The producing thread of the stack, between produce and stopProduce, whether
\* or not the server is still there.
EmitFrame(t) ==
  /\ transport[t].phase = "connected"
  /\ Emit(Vendor[t], transport[t].serial, transport[t].id)
  /\ UNCHANGED <<transport, abandoned>>

\* Mutant of Disconnect: the session is given back first.
DisconnectUnregisterFirst(t) ==
  LET state == transport[t] IN
  /\ state.phase = "connected"
  /\ sockets' = [sockets EXCEPT ![state.socket].requests = @ \o
       <<[kind |-> "unregister", session |-> state.session, serial |-> 0, fits |-> TRUE],
         [kind |-> "close", session |-> state.session, serial |-> state.serial,
          fits |-> TRUE]>>]
  /\ transport' = [transport EXCEPT ![t].phase = "closing"]
  /\ UNCHANGED abandoned /\ Only

\* Production stops, the connection is closed ...
Disconnect(t) ==
  LET state == transport[t] IN
  /\ state.phase = "connected" /\ ~Broken(state.socket)
  /\ Send(state.socket, [kind |-> "close", session |-> state.session,
                         serial |-> state.serial, fits |-> TRUE])
  /\ transport' = [transport EXCEPT ![t].phase = "closing"]
  /\ UNCHANGED abandoned /\ Only

\* ... then the session, whatever the answer was.
Disconnected(t) ==
  LET state == transport[t] IN
  /\ state.phase = "closing" /\ Arrived(state.socket)
  /\ CloseSocket(state.socket,
       <<[kind |-> "unregister", session |-> state.session, serial |-> 0,
          fits |-> TRUE]>>, FALSE)
  /\ Forget(t)
  /\ UNCHANGED abandoned /\ Only

\* OSError: the steps that are left are skipped.
DisconnectFails(t) ==
  /\ \/ transport[t].phase = "connected" /\ Broken(transport[t].socket)
     \/ transport[t].phase = "closing"
  /\ Fails(t, ~Broken(transport[t].socket))

TransportStep(t) ==
  \/ Connect(t) \/ RequestOpen(t) \/ Opened(t) \/ ConnectFails(t)
  \/ EmitFrame(t) \/ Disconnect(t) \/ Disconnected(t) \/ DisconnectFails(t)

=============================================================================
