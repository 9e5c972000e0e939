----------------------------- MODULE Originator -----------------------------
(***************************************************************************)
(* The scanner of tools/diagnose_connection.py: one run of the tool with   *)
(* the EipOriginator of tools/eip_originator.py. Its calls are cut at the  *)
(* answers they wait for, any wait may run into the timeout of the socket, *)
(* and the tool may be killed at any time. It goes on with whatever reply  *)
(* comes first: nothing in a reply says which request it answers.          *)
(*                                                                         *)
(* Every run starts from the same serial, vendor and originator serial.    *)
(***************************************************************************)
EXTENDS Transport

CONSTANT
  Originators,  \* the scanners that are runs of the tool, one after the other
  FirstSerial   \* the serial of the first connection of a run

ASSUME OriginatorAssumption ==
  Originators \subseteq Scanners \ Transports /\ FirstSerial \in Serials

VARIABLE originator

RunPhases == {"idle", "registering", "opening", "listening", "closing"}

\* timed_out: a wait of this run has timed out.
OriginatorState ==
  [phase : RunPhases, socket : Ids, session : Ids, id : Ids, timed_out : BOOLEAN]

IdleRun == [phase |-> "idle", socket |-> 0, session |-> 0, id |-> 0, timed_out |-> FALSE]

InitOriginator == originator = [o \in Originators |-> IdleRun]

Calm == UNCHANGED <<stage, starts, threads, tables, forward_open_items, cyclic, transport>>

\* open_session connects and registers.
OpenSession(o) ==
  /\ originator[o].phase = "idle" /\ Listening
  /\ \E c \in FreeSocket :
       /\ Dial(o, c, [kind |-> "register", session |-> 0, serial |-> 0, fits |-> TRUE])
       /\ originator' = [originator EXCEPT ![o] =
            [IdleRun EXCEPT !.phase = "registering", !.socket = c]]
  /\ UNCHANGED abandoned /\ Calm

\* forward_open, with the path and the sizes of the I/O map of the tool.
RequestForwardOpen(o) ==
  LET c == originator[o].socket IN
  /\ originator[o].phase = "registering" /\ Arrived(c)
  /\ \E fits \in BOOLEAN :
       Exchange(c, [kind |-> "open", session |-> Head(sockets[c].replies).value,
                    serial |-> FirstSerial, fits |-> fits])
  /\ originator' = [originator EXCEPT ![o].phase = "opening",
                      ![o].session = Head(sockets[c].replies).value]
  /\ UNCHANGED abandoned /\ Calm

\* Accepted: the tool produces and listens.
StartListening(o) ==
  LET c == originator[o].socket IN
  /\ originator[o].phase = "opening" /\ Arrived(c)
  /\ Head(sockets[c].replies).kind = "opened"
  /\ sockets' = [sockets EXCEPT ![c].replies = Tail(@)]
  /\ originator' = [originator EXCEPT ![o].phase = "listening",
                                      ![o].id = Head(sockets[c].replies).value]
  /\ UNCHANGED abandoned /\ Calm

EmitZeros(o) ==
  /\ originator[o].phase = "listening"
  /\ Emit(Vendor[o], FirstSerial, originator[o].id)
  /\ UNCHANGED <<transport, abandoned, originator>>

CloseRequest(o) ==
  [kind |-> "close", session |-> originator[o].session, serial |-> FirstSerial,
   fits |-> TRUE]

\* forward_close, in the finally clause: after the listening, ...
RequestForwardClose(o) ==
  /\ originator[o].phase = "listening" /\ ~Broken(originator[o].socket)
  /\ Send(originator[o].socket, CloseRequest(o))
  /\ originator' = [originator EXCEPT ![o].phase = "closing"]
  /\ UNCHANGED abandoned /\ Calm

\* ... after a refusal, ...
CloseAfterRefusal(o) ==
  LET c == originator[o].socket IN
  /\ originator[o].phase = "opening" /\ Arrived(c)
  /\ Head(sockets[c].replies).kind # "opened"
  /\ Exchange(c, CloseRequest(o))
  /\ originator' = [originator EXCEPT ![o].phase = "closing"]
  /\ UNCHANGED abandoned /\ Calm

\* ... and after a wait that timed out, whose reply is still to come.
CloseAfterTimeout(o) ==
  LET c == originator[o].socket IN
  /\ originator[o].phase \in {"registering", "opening"} /\ ~Arrived(c) /\ ~Broken(c)
  /\ Send(c, CloseRequest(o))
  /\ originator' = [originator EXCEPT ![o].phase = "closing", ![o].timed_out = TRUE]
  /\ UNCHANGED abandoned /\ Calm

\* close: the session is given back if there is one, the socket is closed.
Leaves(o, abrupt, clean) ==
  /\ CloseSocket(originator[o].socket,
       IF originator[o].session = 0 THEN <<>>
       ELSE <<[kind |-> "unregister", session |-> originator[o].session,
               serial |-> 0, fits |-> TRUE]>>, abrupt)
  /\ originator' = [originator EXCEPT ![o] = IdleRun]
  /\ abandoned' = [abandoned EXCEPT ![o] = IF clean THEN @ ELSE @ + 1]
  /\ Calm

\* forward_close has read one reply, its own or a late one of a request before.
Finish(o) ==
  /\ originator[o].phase = "closing" /\ Arrived(originator[o].socket)
  /\ Leaves(o, originator[o].timed_out, ~originator[o].timed_out)

\* No reply: the target has closed the connection, or takes too long.
FinishUnanswered(o) ==
  LET c == originator[o].socket IN
  /\ \/ originator[o].phase = "closing" /\ ~Arrived(c)
     \/ originator[o].phase \in {"registering", "opening", "listening"} /\ Broken(c)
  /\ Leaves(o, ~Broken(c), FALSE)

\* The tool is killed: nothing more is sent.
Kill(o) ==
  /\ originator[o].phase # "idle"
  /\ CloseSocket(originator[o].socket, <<>>, TRUE)
  /\ originator' = [originator EXCEPT ![o] = IdleRun]
  /\ abandoned' = [abandoned EXCEPT ![o] = @ + 1]
  /\ Calm

OriginatorStep(o) ==
  \/ OpenSession(o) \/ RequestForwardOpen(o) \/ StartListening(o) \/ EmitZeros(o)
  \/ RequestForwardClose(o) \/ CloseAfterRefusal(o) \/ CloseAfterTimeout(o)
  \/ Finish(o) \/ FinishUnanswered(o) \/ Kill(o)

=============================================================================
