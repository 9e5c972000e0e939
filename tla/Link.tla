-------------------------------- MODULE Link --------------------------------
(***************************************************************************)
(* The server with its scanners: transports of the library, and runs of    *)
(* the diagnostic tool.                                                    *)
(***************************************************************************)
EXTENDS Originator

linkVars == <<serverVars, transport, originator, abandoned>>

InitLink ==
  /\ InitServer /\ InitTransport /\ InitOriginator
  /\ abandoned = [s \in Scanners |-> 0]

NextLink ==
  \/ ServerStep /\ UNCHANGED <<transport, originator, abandoned>>
  \/ \E t \in Transports : TransportStep(t) /\ UNCHANGED originator
  \/ \E o \in Originators : OriginatorStep(o)

LinkSpec == InitLink /\ [][NextLink]_linkVars

----------------------------------------------------------------------------
(* Properties.                                                             *)

\* Types and ranges.
LinkTypeOK ==
  /\ stage \in {"down", "up", "stopping"} /\ starts \in 0 .. MaxStarts
  /\ threads \subseteq Loops
  /\ sockets \in [SocketIds -> Socket]
  /\ sessions \subseteq Ids /\ next_session \in 1 .. MaxSockets + 1
  /\ connections \subseteq Connection /\ next_connection_id \in Ids
  /\ forward_open_items \in Scanners \cup {NoItems}
  /\ applying \in Frame \cup {NoFrame} /\ datagrams \in Seq(Frame)
  /\ older \in [Ids -> SUBSET Ids] /\ overtaken \subseteq Ids
  /\ transport \in [Transports -> TransportState]
  /\ originator \in [Originators -> OriginatorState]
  /\ abandoned \in [Scanners -> Nat]

\* The connection a scanner believes to be open, if it does.
Believes(s) ==
  IF s \in Transports
  THEN transport[s].phase = "connected" /\ sockets[transport[s].socket].thread # "ended"
  ELSE originator[s].phase = "listening" /\ sockets[originator[s].socket].thread # "ended"

Believed(s) == IF s \in Transports THEN transport[s].id ELSE originator[s].id

\* A transport that is connected is in the table, and so is a run of the tool
\* unless a run before it was cut short: neither a refusal, nor the end or the
\* death of another scanner, nor a late request of one, nor one that a transport
\* has left behind, closes a connection that is not its own.
ConnectedIsOpen ==
  \A s \in Scanners :
    Believes(s) /\ (s \in Transports \/ abandoned[s] = 0) =>
      \E k \in connections : k.vendor = Vendor[s] /\ k.id = Believed(s)

Active(s) ==
  IF s \in Transports THEN transport[s].phase # "idle" ELSE originator[s].phase # "idle"

\* A scanner that leaves cleanly leaves nothing behind, its session and its
\* connection are closed; each end that is not clean leaves one of each at most.
\* Forward Close comes before the session is given back.
NothingLeftBehind ==
  \A s \in Scanners :
    /\ Cardinality({k \in connections : k.vendor = Vendor[s]})
         <= (IF Active(s) THEN 1 ELSE 0) + abandoned[s]
    /\ stage # "stopping" =>
         Cardinality({c \in SocketIds : sockets[c].owner = s /\ sockets[c].thread = "ended"
                                          /\ sockets[c].handle \in sessions})
           <= abandoned[s]

\* The receiving socket of the stack is closed by every way out of connect and
\* of disconnect, however its shutdown went: "the next connection" does not
\* find its port taken.
ListenerReleased ==
  \A t \in Transports :
    /\ transport[t].phase \in {"idle", "registering"} => ~transport[t].listener.bound
    /\ transport[t].phase \in {"connected", "closing"} => transport[t].listener.bound

\* A stopped server has forgotten every session and connection, and no thread
\* of it touches the robot any more.
StoppedIsEmpty ==
  stage = "down" =>
    /\ connections = {} /\ sessions = {}
    /\ applying = NoFrame

\* The robot never goes back to a former scanner: once a frame of a connection
\* has been applied, none of a connection closed before that one was opened is,
\* if its scanner has always left cleanly. The one frame that may be applied
\* after its connection was closed comes first. (A run of the tool that was cut
\* short may leave a Forward Close that takes the connection of the next run,
\* and a Forward Open whose connection then lets its frames pass.)
NewScannerPrevails ==
  [][\A s \in Scanners :
       /\ applying # NoFrame /\ applying' = NoFrame
       /\ applying.vendor = Vendor[s] /\ abandoned[s] = 0
       => applying.id \notin overtaken]_linkVars

\* "Echo back the endpoint the scanner asked to be produced to": the socket
\* address items of the reply to a Forward Open are those of that request.
OwnEndpointEchoed ==
  \A c \in SocketIds :
    \A i \in 1 .. Len(sockets[c].replies) :
      sockets[c].replies[i].kind = "opened" => sockets[c].replies[i].items = sockets[c].owner

=============================================================================
