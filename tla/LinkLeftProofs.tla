--------------------------- MODULE LinkLeftProofs ---------------------------
(***************************************************************************)
(* A scanner that leaves cleanly leaves nothing behind in the server, and  *)
(* each end that is not clean one session and one connection at most, for  *)
(* any number of scanners with vendor ids of their own.                    *)
(*                                                                         *)
(* The argument counts, for each scanner, the entries in the table and the *)
(* requests for one that are still to be handled, against the ends that    *)
(* were not clean. A clean end is possible only after the Forward Close    *)
(* was handled; that it took an entry out is a second count: a transport   *)
(* has no more closes under way with a serial than entries with it.        *)
(***************************************************************************)
EXTENDS LinkProofs

----------------------------------------------------------------------------
(* 1. Sessions and requests.                                               *)

InService(a) == a.thread \notin {"unused", "backlog", "ended"}

\* A session belongs to one TCP connection.
HandlesApart ==
  /\ \A n \in sessions : n < next_session
  /\ \A c \in SocketIds : sockets[c].handle < next_session
  /\ \A c, d \in SocketIds :
       sockets[c].handle = sockets[d].handle /\ sockets[c].handle # 0 => c = d

\* The session of a TCP connection is there as long as both ends are, it is given
\* back only by a peer that leaves, and gone when the server ended it.
SessionKept(a) ==
  /\ \A i \in 1 .. Len(a.requests) : a.requests[i].kind = "unregister" =>
       a.requests[i].session = a.handle /\ a.handle # 0 /\ a.peer # "here"
  /\ a.thread \in {"unused", "backlog"} => a.handle = 0
  /\ a.peer = "here" /\ a.handle # 0 /\ InService(a) => a.handle \in sessions
  /\ a.peer = "here" /\ a.thread = "ended" /\ stage # "stopping" => a.handle \notin sessions

\* A run of the tool uses one serial, a transport closes a connection once.
SerialsKept(a) ==
  /\ a.owner \in Originators => \A i \in 1 .. Len(a.requests) :
       a.requests[i].kind \in {"open", "close"} => a.requests[i].serial = FirstSerial
  /\ a.owner \in Transports => \A i, j \in 1 .. Len(a.requests) :
       a.requests[i].kind = "close" /\ a.requests[j].kind = "close" => i = j

\* A peer that is there is a scanner on the TCP connection it has.
PeerIsThere(c) ==
  sockets[c].peer = "here" /\ sockets[c].thread # "unused" =>
    Phase(sockets[c].owner) # "idle" /\ Current(sockets[c].owner) = c

SocketKept(c) == SessionKept(sockets[c]) /\ SerialsKept(sockets[c]) /\ PeerIsThere(c)

\* A run of the tool knows the session of its TCP connection, or none.
SessionKnown(s) ==
  s \notin Transports /\ Phase(s) # "idle" => State(s).session \in {0, sockets[Current(s)].handle}

\* What a scanner asks for in a phase, in the session it has.
Wanted(phase, session, serial, r) ==
  /\ phase = "registering" => r.kind = "register"
  /\ phase = "opening" => r.kind = "open"
  /\ phase \notin {"registering", "opening"} => r.kind = "close"
  /\ r.kind # "register" => r.session = session /\ r.serial = serial

\* A scanner that no wait of has timed out is told of its session, and has it
\* from then on.
AsksInPhase(s) ==
  Phase(s) # "idle" /\ ~Late(s) =>
    /\ \A i \in 1 .. Len(sockets[Current(s)].requests) :
         Wanted(Phase(s), State(s).session, SerialOf(s), sockets[Current(s)].requests[i])
    /\ Phase(s) = "registering" =>
         /\ ~Busy(sockets[Current(s)])
         /\ \A i \in 1 .. Len(sockets[Current(s)].replies) :
              /\ sockets[Current(s)].replies[i].value = sockets[Current(s)].handle
              /\ sockets[Current(s)].handle # 0
    /\ Phase(s) # "registering" =>
         State(s).session = sockets[Current(s)].handle /\ State(s).session # 0

UserKept(s) == SessionKnown(s) /\ AsksInPhase(s)

\* Connections are told apart by their ids, and the connections of runs of the
\* tool have one serial.
ConnectionsApart ==
  /\ \A k, l \in connections : k.id = l.id => k = l
  /\ \A k \in connections : k.id <= next_connection_id
  /\ \A o \in Originators : \A k \in connections : k.vendor = Vendor[o] => k.serial = FirstSerial

RecordsInv ==
  /\ HandlesApart
  /\ \A c \in SocketIds : SocketKept(c)
  /\ \A s \in Users : UserKept(s)
  /\ ConnectionsApart

----------------------------------------------------------------------------
\* A TCP connection that the server changes: by whom.
LEMMA ChangedBy ==
  ASSUME LinkInv, ServerStep
  PROVE  /\ \A c \in SocketIds :
              \/ sockets'[c] = sockets[c]
              \/ StopReturns \/ Accept(c) \/ SessionStep(c)
         /\ \/ sockets' = sockets /\ UNCHANGED <<sessions, next_session, connections,
                                                next_connection_id>>
            \/ StopReturns
            \/ \E c \in SocketIds : Accept(c)
            \/ \E c \in SocketIds : SessionStep(c)
<1>1. sockets \in [SocketIds -> Socket]
  BY Zenon DEF LinkInv, LinkTypeOK
<1>2. \/ sockets' = sockets /\ UNCHANGED <<sessions, next_session, connections,
                                          next_connection_id>>
      \/ StopReturns
      \/ \E c \in SocketIds : Accept(c) \/ SessionStep(c)
  BY Zenon DEF ServerStep, StartServer, StopServer, LoopEnds, Receive, Apply, LoseDatagram,
               tables
<1>3. ASSUME NEW c \in SocketIds, Accept(c) \/ SessionStep(c)
      PROVE  \A d \in SocketIds : d # c => sockets'[d] = sockets[d]
  <2>1. Moves(c)
    BY <1>1, <1>3, AcceptMoves, SessionMoves, Zenon
  <2>2. QED
    BY <2>1, Zenon DEF Moves
<1>4. QED
  BY <1>2, <1>3, Zenon

\* Which sessions a step of the server begins and ends.
LEMMA SessionsMove ==
  ASSUME LinkInv, ServerStep
  PROVE  /\ \/ next_session' = next_session /\ sessions' \subseteq sessions
            \/ /\ next_session' = next_session + 1
               /\ sessions' = sessions \cup {next_session}
         /\ \A c \in SocketIds :
              \/ sockets'[c].handle = sockets[c].handle
              \/ RegisterSession(c) /\ sockets'[c].handle = next_session
         /\ \A c \in SocketIds : RegisterSession(c) =>
              /\ next_session' = next_session + 1 /\ next_session \in sessions'
              /\ sockets[c].handle = 0 /\ ~Lacks(sockets[c], "register")
              /\ \A d \in SocketIds : d # c => sockets'[d] = sockets[d]
         /\ \A n \in sessions : n \in sessions' \/ StopReturns
              \/ \E c \in SocketIds :
                   UnregisterSession(c) /\ n = Head(sockets[c].requests).session
         /\ StopReturns => sessions' = {}
<1>1. sockets \in [SocketIds -> Socket] /\ AllMove
  BY ServerMoves, Zenon DEF LinkInv, LinkTypeOK
<1>2. \/ sockets' = sockets /\ UNCHANGED <<sessions, next_session, connections,
                                          next_connection_id>>
      \/ StopReturns
      \/ \E c \in SocketIds : Accept(c)
      \/ \E c \in SocketIds : SessionStep(c)
  BY ChangedBy, Zenon
<1>3. ASSUME NEW c \in SocketIds, RegisterSession(c)
      PROVE  /\ next_session' = next_session + 1
             /\ sessions' = sessions \cup {next_session}
             /\ sockets[c].handle = 0 /\ ~Lacks(sockets[c], "register")
             /\ \A d \in SocketIds : d # c => sockets'[d] = sockets[d]
  <2>1. Takes(c, "register") /\ SessionStep(c)
    BY <1>3, Zenon DEF RegisterSession, SessionStep
  <2>2. Moves(c) /\ ~Lacks(sockets[c], "register")
    BY <2>1, SessionMoves, HeadOf, Zenon
  <2>3. QED
    BY <1>3, <2>2, RegisterAllowed, Zenon DEF Moves, RegisterSession
<1>4. ASSUME NEW c \in SocketIds, SessionStep(c)
      PROVE  \/ RegisterSession(c)
             \/ next_session' = next_session /\ sessions' \subseteq sessions
  BY <1>4, Zenon DEF SessionStep, UnregisterSession, RefuseSession, ForwardOpen,
       RefuseForwardOpen, ForwardClose, SetItems, CollectItems, Answer, SessionEnds, tables
<1>5. ASSUME NEW c \in SocketIds, SessionStep(c), NEW n \in sessions, n \notin sessions'
      PROVE  UnregisterSession(c) /\ n = Head(sockets[c].requests).session
  BY <1>5, Zenon DEF SessionStep, RegisterSession, UnregisterSession, RefuseSession,
       ForwardOpen, RefuseForwardOpen, ForwardClose, SetItems, CollectItems, Answer,
       SessionEnds, tables
<1>6. ASSUME NEW c \in SocketIds, Accept(c)
      PROVE  /\ next_session' = next_session /\ sessions' = sessions
             /\ sockets'[c].handle = sockets[c].handle
  <2>1. next_session' = next_session /\ sessions' = sessions
    BY <1>6, Zenon DEF Accept, tables
  <2>2. sockets'[c].handle = sockets[c].handle
    BY <1>1, <1>6, SocketFields, Zenon DEF Accept, Socket
  <2>3. QED
    BY <2>1, <2>2, Zenon
<1>7. ASSUME NEW c \in SocketIds
      PROVE  \/ sockets'[c].handle = sockets[c].handle
             \/ RegisterSession(c) /\ sockets'[c].handle = next_session
  BY <1>1, <1>6, <1>7, ChangedBy, StopReturnsMoves, SessionMoves, Zenon
<1>8. StopReturns => next_session' = next_session /\ sessions' = {}
  BY Zenon DEF StopReturns
<1>9. \/ next_session' = next_session /\ sessions' \subseteq sessions
      \/ /\ next_session' = next_session + 1
         /\ sessions' = sessions \cup {next_session}
  BY <1>2, <1>3, <1>4, <1>6, <1>8, Zenon
<1>10. ASSUME NEW n \in sessions, n \notin sessions'
       PROVE  StopReturns \/ \E c \in SocketIds :
                UnregisterSession(c) /\ n = Head(sockets[c].requests).session
  BY <1>2, <1>5, <1>6, <1>10, Zenon
<1>11. QED
  BY <1>3, <1>7, <1>8, <1>9, <1>10, Zenon

LEMMA ServerHandles ==
  ASSUME LinkInv, ServerStep, HandlesApart
  PROVE  HandlesApart'
<1>1. /\ next_session \in Nat /\ 1 <= next_session
      /\ \A n \in sessions : n \in Nat
      /\ \A c \in SocketIds : sockets[c].handle \in Nat
  <2>1. /\ next_session \in 1 .. MaxSockets + 1 /\ MaxSockets \in Nat
        /\ sessions \subseteq Ids /\ sockets \in [SocketIds -> Socket]
    BY Ranges, Zenon DEF LinkInv, LinkTypeOK
  <2>2. QED
    BY <2>1, SocketFields, Ranges
<1>2. /\ \/ next_session' = next_session /\ sessions' \subseteq sessions
         \/ /\ next_session' = next_session + 1
            /\ sessions' = sessions \cup {next_session}
      /\ \A c \in SocketIds :
           \/ sockets'[c].handle = sockets[c].handle
           \/ RegisterSession(c) /\ sockets'[c].handle = next_session
      /\ \A c \in SocketIds : RegisterSession(c) =>
           /\ next_session' = next_session + 1
           /\ \A d \in SocketIds : d # c => sockets'[d] = sockets[d]
  BY SessionsMove, Zenon
<1>3. /\ \A n \in sessions : n < next_session
      /\ \A c \in SocketIds : sockets[c].handle < next_session
      /\ \A c, d \in SocketIds :
           sockets[c].handle = sockets[d].handle /\ sockets[c].handle # 0 => c = d
  BY Zenon DEF HandlesApart
<1>4. \A n \in sessions' : n < next_session'
  BY <1>1, <1>2, <1>3
<1>5. ASSUME NEW c \in SocketIds
      PROVE  sockets'[c].handle < next_session'
  <2>1. sockets[c].handle < next_session'
    BY <1>1, <1>2, <1>3
  <2>2. RegisterSession(c) => next_session < next_session'
    BY <1>1, <1>2
  <2>3. QED
    BY <1>2, <2>1, <2>2, Zenon
<1>6. ASSUME NEW c \in SocketIds, NEW d \in SocketIds,
             sockets'[c].handle = sockets'[d].handle, sockets'[c].handle # 0
      PROVE  c = d
  <2>1. CASE sockets'[c].handle = sockets[c].handle /\ sockets'[d].handle = sockets[d].handle
    BY <1>3, <1>6, <2>1, Zenon
  <2>2. ASSUME NEW e \in SocketIds PROVE next_session # sockets[e].handle
    BY <1>1, <1>3
  <2>3. CASE RegisterSession(c) /\ sockets'[c].handle = next_session
    <3>1. sockets'[d].handle # sockets[d].handle
      BY <1>6, <2>2, <2>3, Zenon
    <3>2. QED
      BY <1>2, <2>3, <3>1, Zenon
  <2>4. CASE RegisterSession(d) /\ sockets'[d].handle = next_session
    <3>1. sockets'[c].handle # sockets[c].handle
      BY <1>6, <2>2, <2>4, Zenon
    <3>2. QED
      BY <1>2, <2>4, <3>1, Zenon
  <2>5. QED
    BY <1>2, <2>1, <2>3, <2>4, Zenon
<1>7. QED
  BY <1>4, <1>5, <1>6, Zenon DEF HandlesApart

\* The requests that a move leaves were there before, in the same order.
LEMMA MoveRequests ==
  ASSUME NEW a \in Socket, NEW b, Move(a, b)
  PROVE  \E n \in {0, 1} : \A i \in 1 .. Len(b.requests) :
           /\ i \in Nat /\ i + n \in 1 .. Len(a.requests)
           /\ b.requests[i] = a.requests[i + n]
<1>1. a.requests \in Seq(Request)
  BY SocketFields, Zenon
<1>2. ASSUME b.requests = a.requests
      PROVE  \A i \in 1 .. Len(b.requests) :
               /\ i \in Nat /\ i + 0 \in 1 .. Len(a.requests)
               /\ b.requests[i] = a.requests[i + 0]
  <2> DEFINE q == a.requests
  <2>1. \A i \in 1 .. Len(q) : i \in Nat /\ i + 0 = i
    BY <1>1
  <2>2. QED
    BY <1>2, <2>1, Zenon
<1>3. ASSUME b.requests = Tail(a.requests), a.requests # <<>>
      PROVE  \A i \in 1 .. Len(b.requests) :
               /\ i \in Nat /\ i + 1 \in 1 .. Len(a.requests)
               /\ b.requests[i] = a.requests[i + 1]
  BY <1>1, <1>3, TailElements, Zenon
<1>4. ASSUME b.requests = <<>>
      PROVE  \A i \in 1 .. Len(b.requests) : FALSE
  BY <1>4, SMT
<1>5. \/ b.requests = a.requests
      \/ b.requests = Tail(a.requests) /\ a.requests # <<>>
      \/ b.requests = <<>>
  BY Zenon DEF Move, Starts, Serves, Handles, GoesOn, Answers, Ends
<1>6. QED
  BY <1>2, <1>3, <1>4, <1>5, Zenon

\* What a step of the server leaves of a TCP connection.
LEMMA ServerLeaves ==
  ASSUME LinkInv, ServerStep, NEW c \in SocketIds
  PROVE  /\ sockets[c] \in Socket /\ SocketOK(sockets[c])
         /\ Move(sockets[c], sockets'[c])
         /\ sockets'[c].owner = sockets[c].owner /\ sockets'[c].peer = sockets[c].peer
         /\ sockets[c].thread # "unused" <=> sockets'[c].thread # "unused"
         /\ sockets[c].thread = "ended" => sockets'[c] = sockets[c]
         /\ sockets'[c].thread \in {"unused", "backlog"} => sockets'[c] = sockets[c]
         /\ sockets'[c].thread = "ended" => sockets'[c].handle = sockets[c].handle
         /\ sockets[c].handle # 0 => sockets'[c].handle = sockets[c].handle
         /\ sockets'[c].thread = "ended" /\ sockets[c].thread # "ended" =>
              \/ StopReturns
              \/ SessionEnds(c)
         /\ \A kind : Lacks(sockets[c], kind) => Lacks(sockets'[c], kind)
<1> DEFINE a == sockets[c]
           b == sockets'[c]
<1>1. /\ a \in Socket /\ SocketOK(a) /\ Move(a, b)
  BY ServerMoves, Zenon DEF LinkInv, LinkTypeOK, SocketsOK, AllMove
<1>2. /\ b.owner = a.owner /\ b.peer = a.peer
      /\ a.thread # "unused" <=> b.thread # "unused"
      /\ \A kind : Lacks(a, kind) => Lacks(b, kind)
  BY <1>1, MoveKeeps, Zenon
<1>3. /\ a.thread = "ended" => b = a
      /\ b.thread \in {"unused", "backlog"} => b = a
      /\ b.thread = "ended" => b = a \/ Ends(a, b)
  BY <1>1, Zenon DEF Move, Starts, Serves, Handles, GoesOn, Answers, Ends
<1>4. b.thread = "ended" => b.handle = a.handle
  BY <1>3, Zenon DEF Ends
<1>5. a.handle # 0 => b.handle = a.handle
  BY SessionsMove, Zenon
<1>6. ASSUME b.thread = "ended", a.thread # "ended", ~StopReturns
      PROVE  SessionEnds(c)
  <2>1. Ends(a, b) /\ b # a
    BY <1>3, <1>6, Zenon
  <2>2. sockets \in [SocketIds -> Socket] /\ forward_open_items \in Scanners \cup {NoItems}
        /\ 0 \in Ids
    BY Ranges, Zenon DEF LinkInv, LinkTypeOK
  <2>3. ~Accept(c)
    BY <1>6, <2>2, Zenon DEF Accept, Socket
  <2>4. SessionStep(c)
    BY <1>6, <2>1, <2>3, ChangedBy, Zenon
  <2>5. ~(Serves(a, b) \/ Handles(a, b))
    BY <1>6, Zenon DEF Serves, Handles
  <2>6. ~RegisterSession(c)
    <3>1. ASSUME RegisterSession(c) PROVE next_session \in Ids
      BY <3>1, RegisterAllowed, Ranges, Zenon
    <3>2. QED
      BY <2>2, <2>5, <3>1, RegisterMoves, Zenon
  <2>7. ~UnregisterSession(c) /\ ~RefuseSession(c)
    BY <2>2, <2>5, UnregisterMoves, RefuseMoves, Zenon
  <2>8. ~RefuseForwardOpen(c) /\ ~ForwardClose(c)
    BY <2>2, <2>5, HandledMoves, Zenon DEF RefuseForwardOpen, ForwardClose
  <2>9. ~ForwardOpen(c)
    <3>1. ASSUME ForwardOpen(c) PROVE next_connection_id' \in Ids
      BY <3>1, OpenAllowed, Zenon DEF ForwardOpen
    <3>2. QED
      BY <2>2, <2>5, <3>1, HandledMoves, Zenon DEF ForwardOpen
  <2>10. a.thread \in {"reading", "backlog"}
    BY <2>1, Zenon DEF Ends
  <2>11. ~SetItems(c) /\ ~CollectItems(c) /\ ~Answer(c)
    BY <2>10, Zenon DEF SetItems, CollectItems, Answer
  <2>12. QED
    BY <2>4, <2>6, <2>7, <2>8, <2>9, <2>11, Zenon DEF SessionStep
<1>7. QED
  BY <1>1, <1>2, <1>3, <1>4, <1>5, <1>6, Zenon

LEMMA ServerSessionKept ==
  ASSUME LinkInv, ServerStep, HandlesApart, \A d \in SocketIds : SessionKept(sockets[d]),
         NEW c \in SocketIds
  PROVE  SessionKept(sockets[c])'
<1> DEFINE a == sockets[c]
           b == sockets'[c]
<1>1. /\ a \in Socket /\ Move(a, b) /\ b.peer = a.peer
      /\ a.thread = "ended" => b = a
      /\ b.thread \in {"unused", "backlog"} => b = a
      /\ b.thread = "ended" => b.handle = a.handle
      /\ a.handle # 0 => b.handle = a.handle
      /\ b.thread = "ended" /\ a.thread # "ended" => StopReturns \/ SessionEnds(c)
  BY ServerLeaves, Zenon
<1>2. SessionKept(a)
  OBVIOUS
<1>3. ASSUME NEW i \in 1 .. Len(b.requests), b.requests[i].kind = "unregister"
      PROVE  b.requests[i].session = b.handle /\ b.handle # 0 /\ b.peer # "here"
  <2>1. \E j \in 1 .. Len(a.requests) : b.requests[i] = a.requests[j]
    BY <1>1, MoveRequests, ZenonT(60)
  <2>2. b.requests[i].session = a.handle /\ a.handle # 0 /\ a.peer # "here"
    BY <1>2, <1>3, <2>1, Zenon DEF SessionKept
  <2>3. QED
    BY <1>1, <2>2, Zenon
<1>4. b.thread \in {"unused", "backlog"} => b.handle = 0
  BY <1>1, <1>2, Zenon DEF SessionKept
<1>5. ASSUME b.peer = "here", b.handle # 0, InService(b)
      PROVE  b.handle \in sessions'
  <2>1. CASE b.handle # a.handle
    <3>1. RegisterSession(c) /\ b.handle = next_session
      BY <2>1, SessionsMove, Zenon
    <3>2. QED
      BY <3>1, SessionsMove, Zenon
  <2>2. CASE b.handle = a.handle
    <3>1. a.thread \notin {"unused", "backlog"}
      BY <1>2, <1>5, <2>2, Zenon DEF SessionKept
    <3>2. a.thread # "ended"
      BY <1>1, <1>5, Zenon DEF InService
    <3>3. a.handle \in sessions
      BY <1>1, <1>2, <1>5, <2>2, <3>1, <3>2, Zenon DEF SessionKept, InService
    <3>4. ~StopReturns
      <4>1. StopReturns => b.thread \in {"unused", "ended"}
        BY StopReturnsMoves, Zenon DEF LinkInv, LinkTypeOK
      <4>2. QED
        BY <1>5, <4>1, Zenon DEF InService
    <3>5. ASSUME NEW d \in SocketIds, UnregisterSession(d),
                 a.handle = Head(sockets[d].requests).session
          PROVE  FALSE
      <4>1. Takes(d, "unregister")
        BY <3>5, Zenon DEF UnregisterSession
      <4>2. /\ 1 \in 1 .. Len(sockets[d].requests)
            /\ sockets[d].requests[1].kind = "unregister"
            /\ sockets[d].requests[1] = Head(sockets[d].requests)
        BY <4>1, HeadOf, Zenon
      <4>3. /\ Head(sockets[d].requests).session = sockets[d].handle
            /\ sockets[d].handle # 0 /\ sockets[d].peer # "here"
        BY <4>2, Zenon DEF SessionKept
      <4>4. c = d
        BY <3>5, <4>3, Zenon DEF HandlesApart
      <4>5. QED
        BY <1>1, <1>5, <4>3, <4>4, Zenon
    <3>6. \A n \in sessions : n \in sessions' \/ StopReturns
            \/ \E d \in SocketIds : UnregisterSession(d) /\ n = Head(sockets[d].requests).session
      BY SessionsMove, Zenon
    <3>7. a.handle \in sessions'
      BY <3>3, <3>4, <3>5, <3>6, Zenon
    <3>8. QED
      BY <2>2, <3>7, Zenon
  <2>3. QED
    BY <2>1, <2>2, Zenon
<1>6. ASSUME b.peer = "here", b.thread = "ended", stage' # "stopping"
      PROVE  b.handle \notin sessions'
  <2>1. CASE StopReturns
    BY <2>1, SessionsMove, Zenon
  <2>2. CASE ~StopReturns
    <3>1. stage # "stopping"
      BY <1>6, <2>2, Zenon DEF ServerStep, SessionStep, StartServer, StopServer, LoopEnds,
         Accept, RegisterSession, UnregisterSession, RefuseSession, ForwardOpen,
         RefuseForwardOpen, ForwardClose, SetItems, CollectItems, Answer, SessionEnds,
         Receive, Apply, LoseDatagram
    <3>2. ~SessionEnds(c)
      BY <1>1, <1>6, <3>1, Zenon DEF SessionEnds
    <3>3. a.thread = "ended" /\ b.handle = a.handle
      BY <1>1, <1>6, <2>2, <3>2, Zenon
    <3>4. a.handle \notin sessions
      BY <1>1, <1>2, <1>6, <3>1, <3>3, Zenon DEF SessionKept
    <3>5. a.handle # next_session
      <4>1. a.handle < next_session /\ next_session \in Nat
        BY Ranges DEF HandlesApart, LinkInv, LinkTypeOK
      <4>2. a.handle \in Nat
        BY <1>1, SocketFields, Ranges, Zenon
      <4>3. QED
        BY <4>1, <4>2
    <3>6. sessions' \subseteq sessions \cup {next_session}
      BY SessionsMove, Zenon
    <3>7. a.handle \notin sessions'
      BY <3>4, <3>5, <3>6, Zenon
    <3>8. QED
      BY <3>3, <3>7, Zenon
  <2>3. QED
    BY <2>1, <2>2, Zenon
<1>7. QED
  BY <1>3, <1>4, <1>5, <1>6, Zenon DEF SessionKept, InService

LEMMA ServerSerialsKept ==
  ASSUME NEW a \in Socket, NEW b, Move(a, b), b.owner = a.owner, SerialsKept(a)
  PROVE  SerialsKept(b)
<1>1. PICK n \in {0, 1} : \A i \in 1 .. Len(b.requests) :
        /\ i \in Nat /\ i + n \in 1 .. Len(a.requests)
        /\ b.requests[i] = a.requests[i + n]
  BY MoveRequests, Zenon
<1>2. \A i, j \in Nat : i + n = j + n => i = j
  OBVIOUS
<1>3. ASSUME b.owner \in Originators, NEW i \in 1 .. Len(b.requests),
             b.requests[i].kind \in {"open", "close"}
      PROVE  b.requests[i].serial = FirstSerial
  BY <1>1, <1>3, Zenon DEF SerialsKept
<1>4. ASSUME b.owner \in Transports,
             NEW i \in 1 .. Len(b.requests), NEW j \in 1 .. Len(b.requests),
             b.requests[i].kind = "close", b.requests[j].kind = "close"
      PROVE  i = j
  <2>1. /\ i \in Nat /\ i + n \in 1 .. Len(a.requests) /\ a.requests[i + n].kind = "close"
        /\ j \in Nat /\ j + n \in 1 .. Len(a.requests) /\ a.requests[j + n].kind = "close"
    BY <1>1, <1>4, Zenon
  <2>2. i + n = j + n
    BY <1>4, <2>1, Zenon DEF SerialsKept
  <2>3. QED
    BY <1>2, <2>1, <2>2, Zenon
<1>5. QED
  BY <1>3, <1>4, Zenon DEF SerialsKept

LEMMA ServerSocketKept ==
  ASSUME LinkInv, ServerStep, UNCHANGED <<transport, originator>>,
         RecordsInv, NEW c \in SocketIds
  PROVE  SocketKept(c)'
<1>1. /\ sockets[c] \in Socket /\ Move(sockets[c], sockets'[c])
      /\ sockets'[c].owner = sockets[c].owner /\ sockets'[c].peer = sockets[c].peer
      /\ sockets[c].thread # "unused" <=> sockets'[c].thread # "unused"
  BY ServerLeaves, Zenon
<1>2. SessionKept(sockets[c])'
  BY ServerSessionKept, Zenon DEF RecordsInv, SocketKept
<1>3. SerialsKept(sockets'[c])
  BY <1>1, ServerSerialsKept, Zenon DEF RecordsInv, SocketKept
<1>4. PeerIsThere(c)'
  <2>1. PeerIsThere(c)
    BY Zenon DEF RecordsInv, SocketKept
  <2>2. QED
    BY <1>1, <2>1, Zenon DEF PeerIsThere, Phase, Current, State
<1>5. QED
  BY <1>2, <1>3, <1>4, Zenon DEF SocketKept, SerialsKept

\* A request that is taken is served or handled, by what its kind asks for.
LEMMA StepTakes ==
  ASSUME LinkInv, ServerStep, NEW c \in SocketIds,
         Serves(sockets[c], sockets'[c]) \/ Handles(sockets[c], sockets'[c])
  PROVE  \/ RegisterSession(c) \/ UnregisterSession(c) \/ RefuseSession(c)
         \/ ForwardOpen(c) \/ RefuseForwardOpen(c) \/ ForwardClose(c)
<1> DEFINE a == sockets[c]
           b == sockets'[c]
<1>1. /\ a.thread = "reading" /\ b.thread \in {"reading", "opened", "answered"}
      /\ a.requests # <<>> /\ b.requests = Tail(a.requests)
  BY Zenon DEF Serves, Handles
<1>2. /\ sockets \in [SocketIds -> Socket] /\ 0 \in Ids
      /\ forward_open_items \in Scanners \cup {NoItems}
  BY Ranges, Zenon DEF LinkInv, LinkTypeOK
<1>3. Tail(a.requests) # a.requests
  <2>1. a.requests \in Seq(Request)
    BY <1>2, SocketFields, Zenon
  <2>2. Len(Tail(a.requests)) = Len(a.requests) - 1 /\ Len(a.requests) \in Nat
    BY <1>1, <2>1, Headed, Zenon
  <2>3. Len(Tail(a.requests)) # Len(a.requests)
    BY <2>2
  <2>4. QED
    BY <2>3, Zenon
<1>4. b # a
  BY <1>1, <1>3, Zenon
<1>5. ~StopReturns
  BY <1>1, <1>2, StopReturnsMoves, Zenon
<1>6. ~Accept(c)
  BY <1>1, Zenon DEF Accept
<1>7. ~SetItems(c) /\ ~CollectItems(c) /\ ~Answer(c)
  BY <1>1, Zenon DEF SetItems, CollectItems, Answer
<1>8. ~SessionEnds(c)
  BY <1>1, <1>2, SessionEndsMoves, Zenon
<1>9. SessionStep(c)
  BY <1>4, <1>5, <1>6, ChangedBy, Zenon
<1>10. QED
  BY <1>7, <1>8, <1>9, Zenon DEF SessionStep

\* The replies after one more.
LEMMA RepliesAppended ==
  ASSUME NEW a, NEW b, NEW m \in Reply, a.replies \in Seq(Reply),
         b.replies = Append(a.replies, m)
  PROVE  \A i \in 1 .. Len(b.replies) :
           \/ i \in 1 .. Len(a.replies) /\ b.replies[i] = a.replies[i]
           \/ b.replies[i] = m
<1> DEFINE q == a.replies
           p == b.replies
<1>1. q \in Seq(Reply) /\ p = Append(q, m)
  OBVIOUS
<1> HIDE DEF q, p
<1>2. \A i \in 1 .. Len(p) :
        \/ i \in 1 .. Len(q) /\ p[i] = q[i]
        \/ p[i] = m
  BY <1>1
<1>3. QED
  BY <1>2, Zenon DEF p, q

\* A scanner in step that registers is answered with its session, and nothing else
\* is asked for.
LEMMA RegisteringServed ==
  ASSUME LinkInv, ServerStep, NEW c \in SocketIds, ~Busy(sockets[c]),
         Lacks(sockets[c], "unregister"), Lacks(sockets[c], "open"), Lacks(sockets[c], "close"),
         \A i \in 1 .. Len(sockets[c].replies) :
           sockets[c].replies[i].value = sockets[c].handle /\ sockets[c].handle # 0
  PROVE  /\ ~Busy(sockets'[c])
         /\ \A i \in 1 .. Len(sockets'[c].replies) :
              sockets'[c].replies[i].value = sockets'[c].handle /\ sockets'[c].handle # 0
<1> DEFINE a == sockets[c]
           b == sockets'[c]
<1>1. /\ a \in Socket /\ Move(a, b) /\ a.replies \in Seq(Reply)
      /\ a.handle # 0 => b.handle = a.handle
  BY ServerLeaves, SocketFields, Zenon
<1>2. ~Takes(c, "unregister") /\ ~Takes(c, "open") /\ ~Takes(c, "close")
  BY HeadOf, Zenon
<1>3. ASSUME Serves(a, b) \/ Handles(a, b) PROVE RegisterSession(c)
  <2>1. \/ RegisterSession(c) \/ UnregisterSession(c) \/ RefuseSession(c)
        \/ ForwardOpen(c) \/ RefuseForwardOpen(c) \/ ForwardClose(c)
    BY <1>3, StepTakes, Zenon
  <2>2. QED
    BY <1>2, <2>1, Zenon DEF UnregisterSession, RefuseSession, ForwardOpen,
                             RefuseForwardOpen, ForwardClose
<1>4. CASE b.replies = a.replies /\ ~Busy(b)
  BY <1>1, <1>4, Zenon
<1>5. CASE RegisterSession(c)
  <2>1. next_session \in Ids /\ next_session # 0 /\ a.handle = 0
    BY <1>5, RegisterAllowed, Ranges
  <2>2. /\ b.handle = next_session /\ Serves(a, b)
        /\ \/ b.replies = a.replies
           \/ \E m \in Reply : m.value = next_session /\ b.replies = Append(a.replies, m)
    BY <1>5, <2>1, RegisterMoves, Zenon DEF LinkInv, LinkTypeOK
  <2>3. ASSUME NEW m \in Reply, m.value = next_session, b.replies = Append(a.replies, m),
               NEW i \in 1 .. Len(b.replies)
        PROVE  b.replies[i].value = b.handle
    <3>1. \A j \in 1 .. Len(b.replies) :
            \/ j \in 1 .. Len(a.replies) /\ b.replies[j] = a.replies[j]
            \/ b.replies[j] = m
      BY <1>1, <2>3, RepliesAppended, Zenon
    <3>2. \/ i \in 1 .. Len(a.replies) /\ b.replies[i] = a.replies[i]
          \/ b.replies[i] = m
      BY <2>3, <3>1, Zenon
    <3>3. QED
      BY <2>1, <2>2, <2>3, <3>2, Zenon
  <2>4. \A i \in 1 .. Len(b.replies) : b.replies[i].value = b.handle /\ b.handle # 0
    BY <2>1, <2>2, <2>3, Zenon
  <2>5. ~Busy(b)
    BY <2>2, Zenon DEF Serves, Busy
  <2>6. QED
    BY <2>4, <2>5, Zenon
<1>6. CASE b = a \/ Starts(a, b) \/ GoesOn(a, b) \/ Answers(a, b) \/ Ends(a, b)
  <2>1. b.replies = a.replies /\ ~Busy(b)
    BY <1>6, Zenon DEF Starts, GoesOn, Answers, Ends, Busy
  <2>2. QED
    BY <1>4, <2>1, Zenon
<1>7. QED
  BY <1>1, <1>3, <1>5, <1>6, Zenon DEF Move

LEMMA ServerUserKept ==
  ASSUME LinkInv, ServerStep, UNCHANGED <<transport, originator>>, RecordsInv,
         NEW s \in Users
  PROVE  UserKept(s)'
<1> DEFINE c == Current(s)
           a == sockets[c]
           b == sockets'[c]
<1>1. /\ State(s)' = State(s) /\ Phase(s)' = Phase(s) /\ Current(s)' = c
      /\ (Late(s)' <=> Late(s)) /\ SerialOf(s)' = SerialOf(s)
  BY Zenon DEF State, Phase, Current, Late, SerialOf
<1>2. UserKept(s) /\ Owned(s)
  BY Zenon DEF RecordsInv, LinkInv, UsersOK
<1>3. CASE Phase(s) = "idle"
  BY <1>1, <1>3, Zenon DEF UserKept, SessionKnown, AsksInPhase
<1>4. CASE Phase(s) # "idle"
  <2>1. /\ c \in SocketIds /\ a \in Socket /\ Move(a, b)
        /\ a.handle # 0 => b.handle = a.handle
    BY <1>2, <1>4, ServerLeaves, Zenon DEF Owned
  <2>2. SessionKnown(s)'
    BY <1>1, <1>2, <2>1, Zenon DEF UserKept, SessionKnown
  <2>3. ASSUME ~Late(s)
        PROVE  AsksInPhase(s)'
    <3>1. \A i \in 1 .. Len(a.requests) :
            Wanted(Phase(s), State(s).session, SerialOf(s), a.requests[i])
      BY <1>2, <1>4, <2>3, Zenon DEF UserKept, AsksInPhase
    <3>2. ASSUME NEW i \in 1 .. Len(b.requests)
          PROVE  Wanted(Phase(s), State(s).session, SerialOf(s), b.requests[i])
      <4>1. \E j \in 1 .. Len(a.requests) : b.requests[i] = a.requests[j]
        BY <2>1, MoveRequests, Zenon
      <4>2. QED
        BY <3>1, <4>1, Zenon
    <3>3. ASSUME Phase(s) = "registering"
          PROVE  /\ ~Busy(b)
                 /\ \A i \in 1 .. Len(b.replies) :
                      b.replies[i].value = b.handle /\ b.handle # 0
      <4>1. \A i \in 1 .. Len(a.requests) : a.requests[i].kind = "register"
        BY <3>1, <3>3, Zenon DEF Wanted
      <4>2. Lacks(a, "unregister") /\ Lacks(a, "open") /\ Lacks(a, "close")
        BY <4>1, Zenon DEF Lacks
      <4>3. /\ ~Busy(a)
            /\ \A i \in 1 .. Len(a.replies) : a.replies[i].value = a.handle /\ a.handle # 0
        BY <1>2, <1>4, <2>3, <3>3, Zenon DEF UserKept, AsksInPhase
      <4>4. QED
        BY <2>1, <4>2, <4>3, RegisteringServed, Zenon
    <3>4. Phase(s) # "registering" => State(s).session = b.handle /\ State(s).session # 0
      BY <1>2, <1>4, <2>1, <2>3, Zenon DEF UserKept, AsksInPhase
    <3>5. QED
      BY <1>1, <3>2, <3>3, <3>4, Zenon DEF AsksInPhase, Busy
  <2>4. CASE Late(s)
    BY <1>1, <2>2, <2>4, Zenon DEF UserKept, AsksInPhase
  <2>5. QED
    BY <2>2, <2>3, <2>4, Zenon DEF UserKept
<1>5. QED
  BY <1>3, <1>4, Zenon

\* What a step of the server does to the table.
LEMMA TableMoves ==
  ASSUME LinkInv, ServerStep
  PROVE  \/ connections' = connections /\ next_connection_id' = next_connection_id
         \/ StopReturns /\ connections' = {} /\ next_connection_id' = next_connection_id
         \/ \E c \in SocketIds : ForwardOpen(c)
         \/ \E c \in SocketIds : ForwardClose(c)
<1>1. ASSUME NEW c \in SocketIds, SessionStep(c)
      PROVE  \/ connections' = connections /\ next_connection_id' = next_connection_id
             \/ ForwardOpen(c) \/ ForwardClose(c)
  BY <1>1, Zenon DEF SessionStep, RegisterSession, UnregisterSession, RefuseSession,
       RefuseForwardOpen, SetItems, CollectItems, Answer, SessionEnds, tables
<1>2. ASSUME NEW c \in SocketIds, Accept(c)
      PROVE  connections' = connections /\ next_connection_id' = next_connection_id
  BY <1>2, Zenon DEF Accept, tables
<1>3. StopReturns => connections' = {} /\ next_connection_id' = next_connection_id
  BY Zenon DEF StopReturns
<1>4. QED
  BY <1>1, <1>2, <1>3, ChangedBy, Zenon

\* The entry that a Forward Open makes.
NewEntry(c) ==
  [vendor |-> Vendor[sockets[c].owner], serial |-> Head(sockets[c].requests).serial,
   id |-> next_connection_id + 1]

LEMMA OpensEntry ==
  ASSUME LinkInv, ConnectionsApart, NEW c \in SocketIds, ForwardOpen(c)
  PROVE  /\ connections' = connections \cup {NewEntry(c)}
         /\ next_connection_id' = next_connection_id + 1
         /\ NewEntry(c).id = next_connection_id + 1
         /\ NewEntry(c).vendor = Vendor[sockets[c].owner]
         /\ NewEntry(c).serial = Head(sockets[c].requests).serial
         /\ NewEntry(c).serial \in Serials
         /\ next_connection_id \in Nat
         /\ \A k \in connections : k.id \in Nat /\ k.id # next_connection_id + 1
<1>1. next_connection_id \in Nat /\ Head(sockets[c].requests).serial \in Serials
  BY OpenAllowed, Zenon
<1>2. next_connection_id' = next_connection_id + 1
  BY Zenon DEF ForwardOpen
<1>3. connections' = connections \cup {NewEntry(c)}
  BY <1>2, Zenon DEF ForwardOpen, NewEntry
<1>4. ASSUME NEW k \in connections PROVE k.id \in Nat /\ k.id # next_connection_id + 1
  <2>1. k.id \in Ids /\ k.id <= next_connection_id
    BY Zenon DEF ConnectionsApart, LinkInv, LinkTypeOK, Connection, Frame
  <2>2. QED
    BY <1>1, <2>1, Ranges
<1>5. QED
  BY <1>1, <1>2, <1>3, <1>4, Zenon DEF NewEntry

LEMMA ServerConnectionsApart ==
  ASSUME LinkInv, Cast, ServerStep, RecordsInv
  PROVE  ConnectionsApart'
<1>1. ConnectionsApart /\ \A c \in SocketIds : SerialsKept(sockets[c])
  BY Zenon DEF RecordsInv, SocketKept
<1>2. CASE connections' \subseteq connections /\ next_connection_id' = next_connection_id
  BY <1>1, <1>2, Zenon DEF ConnectionsApart
<1>3. ASSUME NEW c \in SocketIds, ForwardOpen(c)
      PROVE  ConnectionsApart'
  <2> DEFINE e == NewEntry(c)
  <2>1. /\ connections' = connections \cup {e} /\ next_connection_id' = next_connection_id + 1
        /\ e.id = next_connection_id + 1 /\ e.vendor = Vendor[sockets[c].owner]
        /\ e.serial = Head(sockets[c].requests).serial /\ next_connection_id \in Nat
        /\ \A k \in connections : k.id \in Nat /\ k.id # next_connection_id + 1
    BY <1>1, <1>3, OpensEntry, Zenon
  <2> HIDE DEF e
  <2>2. \A k, l \in connections' : k.id = l.id => k = l
    BY <1>1, <2>1, Zenon DEF ConnectionsApart
  <2>3. \A k \in connections' : k.id <= next_connection_id'
    <3>1. \A k \in connections : k.id <= next_connection_id
      BY <1>1, Zenon DEF ConnectionsApart
    <3>2. QED
      BY <2>1, <3>1
  <2>4. ASSUME NEW o \in Originators, e.vendor = Vendor[o] PROVE e.serial = FirstSerial
    <3>1. Takes(c, "open")
      BY <1>3, Zenon DEF ForwardOpen
    <3>2. /\ sockets[c].owner \in Scanners /\ o \in Scanners
          /\ 1 \in 1 .. Len(sockets[c].requests)
          /\ sockets[c].requests[1] = Head(sockets[c].requests)
          /\ sockets[c].requests[1].kind = "open"
      BY <3>1, HeadOf, SocketFields, Zenon DEF Cast, Users
    <3>3. sockets[c].owner = o
      BY <2>1, <2>4, <3>2, Zenon DEF Cast
    <3>4. "open" \in {"open", "close"}
      BY Zenon
    <3>5. QED
      BY <1>1, <2>1, <3>2, <3>3, <3>4, Zenon DEF SerialsKept
  <2>5. \A o \in Originators : \A k \in connections' :
          k.vendor = Vendor[o] => k.serial = FirstSerial
    BY <1>1, <2>1, <2>4, Zenon DEF ConnectionsApart
  <2>6. QED
    BY <2>2, <2>3, <2>5, Zenon DEF ConnectionsApart
<1>4. ASSUME NEW c \in SocketIds, ForwardClose(c)
      PROVE  connections' \subseteq connections /\ next_connection_id' = next_connection_id
  BY <1>4, Zenon DEF ForwardClose
<1>5. QED
  BY <1>2, <1>3, <1>4, TableMoves, Zenon

LEMMA ServerRecords ==
  ASSUME LinkInv, Cast, ServerStep, UNCHANGED <<transport, originator, abandoned>>, RecordsInv
  PROVE  RecordsInv'
<1>1. HandlesApart'
  BY ServerHandles, Zenon DEF RecordsInv
<1>2. \A c \in SocketIds : SocketKept(c)'
  BY ServerSocketKept, Zenon
<1>3. \A s \in Users : UserKept(s)'
  BY ServerUserKept, Zenon
<1>4. ConnectionsApart'
  BY ServerConnectionsApart, Zenon
<1>5. QED
  BY <1>1, <1>2, <1>3, <1>4, Zenon DEF RecordsInv

----------------------------------------------------------------------------
\* Steps of a scanner: what it leaves to the others, ...
LEMMA OtherRests ==
  ASSUME LinkInv, NEW s \in Users, ScannerMove(s), NEW u \in Users \ {s}
  PROVE  /\ State(u)' = State(u) /\ Phase(u)' = Phase(u) /\ Current(u)' = Current(u)
         /\ (Late(u)' <=> Late(u)) /\ SerialOf(u)' = SerialOf(u)
         /\ abandoned'[u] = abandoned[u]
         /\ Phase(u) # "idle" =>
              Current(u) \in SocketIds /\ sockets'[Current(u)] = sockets[Current(u)]
         /\ \A d \in SocketIds : sockets'[d].owner = u => sockets'[d] = sockets[d]
         /\ \A d \in SocketIds :
              sockets[d].owner = u /\ sockets[d].thread # "unused" => sockets'[d] = sockets[d]
<1>1. /\ State(u)' = State(u) /\ (Late(u)' <=> Late(u)) /\ abandoned'[u] = abandoned[u]
  BY Zenon DEF ScannerMove, OthersRest
<1>2. Phase(u)' = Phase(u) /\ Current(u)' = Current(u) /\ SerialOf(u)' = SerialOf(u)
  BY <1>1, Zenon DEF Phase, Current, SerialOf
<1>3. Owned(u)
  BY Zenon DEF LinkInv, UsersOK
<1>4. CASE sockets' = sockets
  BY <1>1, <1>2, <1>3, <1>4, Zenon DEF Owned
<1>5. ASSUME NEW c \in SocketIds, Effect(s, c)
      PROVE  \A d \in SocketIds :
               sockets'[d].owner = u \/ (sockets[d].owner = u /\ sockets[d].thread # "unused")
                 => sockets'[d] = sockets[d]
  BY <1>5, Zenon DEF Effect
<1>6. \/ sockets' = sockets
      \/ \E c \in SocketIds : Effect(s, c)
  BY MoveEffect, Zenon DEF Rests
<1>7. QED
  BY <1>1, <1>2, <1>3, <1>4, <1>5, <1>6, Zenon DEF Owned

\* ... and to the server.
LEMMA TablesRest ==
  ASSUME LinkInv, NEW s \in Users, ScannerMove(s)
  PROVE  /\ UNCHANGED <<stage, sessions, next_session, connections, next_connection_id>>
         /\ \A c \in SocketIds : sockets'[c].handle = sockets[c].handle
<1>1. \A c \in SocketIds : Effect(s, c) =>
        \A d \in SocketIds : sockets'[d].handle = sockets[d].handle
  BY Zenon DEF Effect
<1>2. \A c \in SocketIds : sockets'[c].handle = sockets[c].handle
  BY <1>1, MoveEffect, Zenon DEF Rests
<1>3. QED
  BY <1>2, Zenon DEF ScannerMove, ServerRests, tables

\* What is left to show of a step that changes a TCP connection.
LEMMA MoverRecords ==
  ASSUME LinkInv, Cast, RecordsInv, NEW s \in Users, ScannerMove(s),
         NEW c \in SocketIds, Effect(s, c),
         sockets[c].thread = "unused" => Phase(s) = "idle",
         sockets'[c].thread = sockets[c].thread \/ sockets[c].thread = "unused",
         Phase(s)' = "idle" => sockets'[c].peer # "here",
         \A i \in 1 .. Len(sockets'[c].requests) :
           sockets'[c].requests[i].kind = "unregister" =>
             /\ sockets'[c].requests[i].session = sockets[c].handle
             /\ sockets[c].handle # 0 /\ sockets'[c].peer # "here",
         SerialsKept(sockets'[c]),
         UserKept(s)'
  PROVE  RecordsInv'
<1> DEFINE a == sockets[c]
           b == sockets'[c]
<1>1. /\ \A d \in SocketIds \ {c} : sockets'[d] = sockets[d]
      /\ a.thread # "unused" => a.owner = s /\ Phase(s) # "idle" /\ Current(s) = c
      /\ b.thread # "unused" /\ b.owner = s /\ b.handle = a.handle
      /\ Phase(s)' # "idle" => Current(s)' = c
  BY Zenon DEF Effect
<1>2. /\ UNCHANGED <<stage, sessions, next_session, connections, next_connection_id>>
      /\ \A d \in SocketIds : sockets'[d].handle = sockets[d].handle
  BY TablesRest, Zenon
<1>3. /\ HandlesApart /\ ConnectionsApart /\ Owned(s)
      /\ \A d \in SocketIds : SocketKept(d) /\ SocketOK(sockets[d]) /\ sockets[d] \in Socket
      /\ \A u \in Users : UserKept(u)
  BY Zenon DEF RecordsInv, LinkInv, LinkTypeOK, SocketsOK, UsersOK
<1>4. HandlesApart'
  BY <1>2, <1>3, Zenon DEF HandlesApart
<1>5. ConnectionsApart'
  BY <1>2, <1>3, Zenon DEF ConnectionsApart
<1>6. SessionKept(sockets[c])'
  <2>1. SessionKept(a) /\ (a.thread = "unused" => a.handle = 0)
    BY <1>3, Zenon DEF SocketKept, SocketOK
  <2>2. a.thread # "unused" => a.peer = "here"
    BY <1>1, <1>3, Zenon DEF Owned
  <2>3. b.thread \in {"unused", "backlog"} => b.handle = 0
    BY <1>1, <2>1, Zenon DEF SessionKept
  <2>4. a.handle # 0 => b.thread = a.thread /\ a.peer = "here"
    BY <2>1, <2>2, Zenon
  <2>5. ASSUME b.peer = "here", b.handle # 0, InService(b) PROVE b.handle \in sessions'
    BY <1>1, <1>2, <2>1, <2>4, <2>5, Zenon DEF SessionKept, InService
  <2>6. ASSUME b.peer = "here", b.thread = "ended", stage' # "stopping"
        PROVE  b.handle \notin sessions'
    <3>1. CASE a.thread = "unused"
      <4>1. b.thread \in {"backlog", "unused"}
        BY <3>1, Zenon DEF Effect
      <4>2. QED
        BY <2>6, <4>1, Zenon
    <3>2. CASE a.thread # "unused"
      BY <1>1, <1>2, <2>1, <2>2, <2>6, <3>2, Zenon DEF SessionKept
    <3>3. QED
      BY <3>1, <3>2, Zenon
  <2>7. QED
    BY <1>1, <2>3, <2>5, <2>6, Zenon DEF SessionKept, InService
<1>7. ASSUME NEW d \in SocketIds PROVE SocketKept(d)'
  <2>1. CASE d = c
    <3>1. PeerIsThere(c)'
      BY <1>1, Zenon DEF PeerIsThere
    <3>2. QED
      BY <1>6, <2>1, <3>1, Zenon DEF SocketKept, SerialsKept
  <2>2. CASE d # c
    <3>1. sockets'[d] = sockets[d] /\ SocketKept(d)
      BY <1>1, <1>3, <2>2, Zenon
    <3>2. SessionKept(sockets[d])'
      BY <1>2, <3>1, Zenon DEF SocketKept, SessionKept, InService
    <3>3. PeerIsThere(d)'
      <4>1. ASSUME NEW o \in Users, o = sockets[d].owner, sockets[d].peer = "here",
                   sockets[d].thread # "unused"
            PROVE  Phase(o)' # "idle" /\ Current(o)' = d
        <5>1. Phase(o) # "idle" /\ Current(o) = d
          BY <3>1, <4>1, Zenon DEF SocketKept, PeerIsThere
        <5>2. o # s
          BY <1>1, <2>2, <5>1, Zenon
        <5>3. QED
          BY <4>1, <5>1, <5>2, OtherRests, Zenon
      <4>2. sockets[d].owner \in Users
        BY <1>3, SocketFields, Zenon DEF Cast
      <4>3. QED
        BY <3>1, <4>1, <4>2, Zenon DEF PeerIsThere, Phase, Current, State
    <3>4. QED
      BY <3>1, <3>2, <3>3, Zenon DEF SocketKept, SerialsKept
  <2>3. QED
    BY <2>1, <2>2, Zenon
<1>8. ASSUME NEW u \in Users PROVE UserKept(u)'
  <2>1. CASE u = s
    BY <2>1, Zenon
  <2>2. CASE u # s
    <3>1. /\ State(u)' = State(u) /\ Phase(u)' = Phase(u) /\ Current(u)' = Current(u)
          /\ (Late(u)' <=> Late(u)) /\ SerialOf(u)' = SerialOf(u)
          /\ Phase(u) # "idle" => sockets'[Current(u)] = sockets[Current(u)]
      BY <2>2, OtherRests, ZenonT(60)
    <3>2. UserKept(u)
      BY <1>3, Zenon
    <3>3. SessionKnown(u)'
      BY <3>1, <3>2, Zenon DEF UserKept, SessionKnown
    <3>4. AsksInPhase(u)'
      BY <3>1, <3>2, Zenon DEF UserKept, AsksInPhase, Busy
    <3>5. QED
      BY <3>3, <3>4, Zenon DEF UserKept
  <2>3. QED
    BY <2>1, <2>2, Zenon
<1>9. QED
  BY <1>4, <1>5, <1>7, <1>8, Zenon DEF RecordsInv

\* A request that is sent when there is no other.
LEMMA OnlyAsked ==
  ASSUME NEW a, NEW b, NEW m \in Request, a.requests = <<>>,
         b.requests = Append(a.requests, m)
  PROVE  \A i \in 1 .. Len(b.requests) : i = 1 /\ b.requests[i] = m
<1> DEFINE q == b.requests
<1>1. q = Append(<<>>, m)
  BY Zenon
<1> HIDE DEF q
<1>2. \A i \in 1 .. Len(q) : i = 1 /\ q[i] = m
  BY <1>1
<1>3. QED
  BY <1>2, Zenon DEF q

LEMMA RequestsAppended ==
  ASSUME NEW a, NEW b, NEW m \in Request, a.requests \in Seq(Request),
         b.requests = Append(a.requests, m)
  PROVE  \A i \in 1 .. Len(b.requests) :
           \/ i \in 1 .. Len(a.requests) /\ b.requests[i] = a.requests[i]
           \/ b.requests[i] = m
<1> DEFINE q == a.requests
           p == b.requests
<1>1. q \in Seq(Request) /\ p = Append(q, m)
  OBVIOUS
<1> HIDE DEF q, p
<1>2. \A i \in 1 .. Len(p) :
        \/ i \in 1 .. Len(q) /\ p[i] = q[i]
        \/ p[i] = m
  BY <1>1
<1>3. QED
  BY <1>2, Zenon DEF p, q

LEMMA DialsRecords ==
  ASSUME LinkInv, Cast, RecordsInv, NEW s \in Users, ScannerMove(s), Dials(s)
  PROVE  RecordsInv'
<1> DEFINE c == Current(s)'
<1>1. /\ c \in SocketIds /\ sockets[c].thread = "unused" /\ Phase(s) = "idle"
      /\ Phase(s)' = "registering"
      /\ s \in Transports \/ State(s)'.session = 0
  BY Zenon DEF Dials
<1>2. PICK b \in Socket :
        /\ Becomes(c, b)
        /\ b.owner = s /\ b.thread = "backlog" /\ b.peer = "here" /\ b.handle = 0
        /\ Len(b.requests) = 1 /\ b.requests[1].kind = "register" /\ b.replies = <<>>
  BY Zenon DEF Dials
<1>3. PICK e \in SocketIds : Effect(s, e)
  BY DialsEffect, Zenon DEF LinkInv, SocketsOK
<1>4. e = c
  <2>1. "registering" # "idle"
    BY Zenon
  <2>2. QED
    BY <1>1, <1>3, <2>1, Zenon DEF Effect
<1> HIDE DEF c
<1>5. sockets'[c] = b
  BY <1>1, <1>2, Changed, Zenon DEF LinkInv, LinkTypeOK
<1>6. \A i \in 1 .. Len(b.requests) : i = 1 /\ b.requests[i].kind = "register"
  BY <1>2, SMT
<1>7. \A i \in 1 .. Len(b.replies) : FALSE
  BY <1>2, SMT
<1>8. UserKept(s)'
  <2>1. Current(s)' = c
    BY Zenon DEF c
  <2>2. SessionKnown(s)'
    BY <1>1, Zenon DEF SessionKnown
  <2>3. AsksInPhase(s)'
    BY <1>1, <1>2, <1>5, <1>6, <1>7, <2>1, Zenon DEF AsksInPhase, Wanted, Busy
  <2>4. QED
    BY <2>2, <2>3, Zenon DEF UserKept
<1>9. SerialsKept(b)
  BY <1>6, Zenon DEF SerialsKept
<1>10. QED
  BY <1>1, <1>3, <1>4, <1>5, <1>6, <1>8, <1>9, MoverRecords, Zenon

LEMMA OpensRecords ==
  ASSUME LinkInv, Cast, StepInv, RecordsInv, NEW s \in Users, ScannerMove(s), Opens(s)
  PROVE  RecordsInv'
<1> DEFINE c == Current(s)
           a == sockets[c]
<1>1. /\ Phase(s) = "registering" /\ Phase(s)' = "opening" /\ Current(s)' = c
      /\ a.replies # <<>> /\ (Late(s)' <=> Late(s))
  BY Zenon DEF Opens
<1>2. ScannerInv(s) /\ Owned(s) /\ Lacks(a, "open") /\ UserKept(s)
  BY <1>1, Zenon DEF StepInv, LinkInv, UsersOK, RecordsInv
<1>3. /\ c \in SocketIds /\ Effect(s, c)
      /\ \E m \in Request :
           /\ m.kind = "open" /\ m.serial = SerialOf(s)' /\ m.session = Head(a.replies).value
           /\ State(s)'.session = m.session /\ Appends(c, m, Tail(a.replies))
  BY <1>2, OpensEffect, Zenon DEF LinkInv, SocketsOK
<1>4. PICK m \in Request :
        /\ m.kind = "open" /\ m.serial = SerialOf(s)' /\ m.session = Head(a.replies).value
        /\ State(s)'.session = m.session /\ Appends(c, m, Tail(a.replies))
  BY <1>3, Zenon
<1>5. PICK b \in Socket :
        /\ Becomes(c, b) /\ b.thread = a.thread /\ b.owner = a.owner /\ b.handle = a.handle
        /\ b.requests = Append(a.requests, m) /\ b.replies = Tail(a.replies)
  BY <1>4, Zenon DEF Appends
<1>6. a \in Socket /\ a.owner = s /\ a.thread # "unused"
  BY <1>1, <1>2, <1>3, Zenon DEF Owned, LinkInv, LinkTypeOK
<1>7. ~Late(s) /\ OneMessage(a) /\ AsksInPhase(s)
  <2>1. "registering" \notin {"idle", "closing"}
    BY Zenon
  <2>2. QED
    BY <1>1, <1>2, <2>1, Zenon DEF ScannerInv, InStep, UserKept
<1>8. /\ a.requests = <<>> /\ 1 \in 1 .. Len(a.replies) /\ a.replies[1] = Head(a.replies)
  BY <1>1, <1>6, <1>7, ReplyAlone, Zenon
<1>9. m.session = a.handle /\ a.handle # 0
  BY <1>1, <1>4, <1>7, <1>8, Zenon DEF AsksInPhase
<1>10. \A i \in 1 .. Len(b.requests) : i = 1 /\ b.requests[i] = m
  BY <1>5, <1>8, OnlyAsked, Zenon
<1> HIDE DEF c
<1>11. sockets'[c] = b
  BY <1>3, <1>5, Changed, Zenon DEF LinkInv, LinkTypeOK
<1>12. UserKept(s)'
  <2>1. SessionKnown(s)'
    BY <1>1, <1>4, <1>5, <1>9, <1>11, Zenon DEF SessionKnown
  <2>2. \A i \in 1 .. Len(b.requests) :
          Wanted(Phase(s)', State(s)'.session, SerialOf(s)', b.requests[i])
    BY <1>1, <1>4, <1>10, Zenon DEF Wanted
  <2>3. AsksInPhase(s)'
    BY <1>1, <1>4, <1>5, <1>9, <1>11, <2>2, Zenon DEF AsksInPhase
  <2>4. QED
    BY <2>1, <2>3, Zenon DEF UserKept
<1>13. SerialsKept(b)
  <2>1. s \in Originators => m.serial = FirstSerial
    BY <1>4, SerialOfRun, Zenon
  <2>2. QED
    BY <1>5, <1>6, <1>10, <2>1, Zenon DEF SerialsKept
<1>14. QED
  BY <1>1, <1>3, <1>4, <1>5, <1>6, <1>10, <1>11, <1>12, <1>13, MoverRecords, Zenon

LEMMA ReadsRecords ==
  ASSUME LinkInv, Cast, StepInv, RecordsInv, NEW s \in Users, ScannerMove(s), Reads(s)
  PROVE  RecordsInv'
<1> DEFINE c == Current(s)
           a == sockets[c]
           b == sockets'[c]
<1>1. /\ Phase(s) = "opening" /\ Phase(s)' \in {"connected", "listening"}
      /\ Current(s)' = c /\ a.replies # <<>> /\ (Late(s)' <=> Late(s))
      /\ State(s)'.session = State(s).session
  BY Zenon DEF Reads
<1>2. ScannerInv(s) /\ Owned(s) /\ UserKept(s) /\ SocketKept(c)
  BY <1>1, Zenon DEF StepInv, LinkInv, UsersOK, RecordsInv, Owned
<1>3. /\ c \in SocketIds /\ Effect(s, c)
      /\ b.requests = a.requests /\ b.thread = a.thread
  BY <1>2, ReadsEffect, Zenon DEF LinkInv, SocketsOK
<1>4. a \in Socket /\ a.owner = s /\ a.thread # "unused" /\ a.peer = "here"
  BY <1>1, <1>2, <1>3, Zenon DEF Owned, LinkInv, LinkTypeOK
<1>5. ~Late(s) /\ OneMessage(a) /\ AsksInPhase(s)
  <2>1. "opening" \notin {"idle", "closing"}
    BY Zenon
  <2>2. QED
    BY <1>1, <1>2, <2>1, Zenon DEF ScannerInv, InStep, UserKept
<1>6. a.requests = <<>>
  BY <1>1, <1>4, <1>5, ReplyAlone, Zenon
<1>7. \A i \in 1 .. Len(b.requests) : FALSE
  <2>1. b.requests = <<>>
    BY <1>3, <1>6, Zenon
  <2>2. QED
    BY <2>1, SMT
<1>8. b.handle = a.handle
  BY <1>3, Zenon DEF Effect
<1>9. UserKept(s)'
  <2>1. SessionKnown(s)'
    BY <1>1, <1>2, <1>8, Zenon DEF UserKept, SessionKnown
  <2>2. State(s).session = a.handle /\ State(s).session # 0
    BY <1>1, <1>5, Zenon DEF AsksInPhase
  <2>3. AsksInPhase(s)'
    BY <1>1, <1>7, <1>8, <2>2, Zenon DEF AsksInPhase
  <2>4. QED
    BY <2>1, <2>3, Zenon DEF UserKept
<1>10. SerialsKept(b)
  BY <1>7, Zenon DEF SerialsKept
<1> HIDE DEF c
<1>11. QED
  BY <1>1, <1>3, <1>4, <1>7, <1>9, <1>10, MoverRecords, Zenon

LEMMA ClosesRecords ==
  ASSUME LinkInv, Cast, StepInv, RecordsInv, NEW s \in Users, ScannerMove(s), Closes(s)
  PROVE  RecordsInv'
<1> DEFINE c == Current(s)
           a == sockets[c]
<1>1. /\ Phase(s) \notin {"idle", "closing"} /\ Phase(s)' = "closing" /\ Current(s)' = c
      /\ State(s)'.session = State(s).session /\ SerialOf(s)' = SerialOf(s)
      /\ s \in Transports => Phase(s) = "connected"
  BY Zenon DEF Closes
<1>2. ScannerInv(s) /\ Owned(s) /\ UserKept(s)
  BY Zenon DEF StepInv, LinkInv, UsersOK, RecordsInv
<1>3. /\ c \in SocketIds /\ Effect(s, c)
      /\ \E m \in Request :
           /\ m.kind = "close" /\ m.session = State(s).session /\ m.serial = SerialOf(s)
           /\ \/ Late(s)' /\ Appends(c, m, a.replies)
              \/ Phase(s) \in {"connected", "listening"} /\ Appends(c, m, a.replies)
              \/ Phase(s) = "opening" /\ a.replies # <<>> /\ Appends(c, m, Tail(a.replies))
  BY <1>2, ClosesEffect, Zenon DEF LinkInv, SocketsOK
<1>4. PICK m \in Request :
        /\ m.kind = "close" /\ m.session = State(s).session /\ m.serial = SerialOf(s)
        /\ \/ Late(s)' /\ Appends(c, m, a.replies)
           \/ Phase(s) \in {"connected", "listening"} /\ Appends(c, m, a.replies)
           \/ Phase(s) = "opening" /\ a.replies # <<>> /\ Appends(c, m, Tail(a.replies))
  BY <1>3, Zenon
<1>5. PICK b \in Socket :
        /\ Becomes(c, b) /\ b.thread = a.thread /\ b.owner = a.owner /\ b.handle = a.handle
        /\ b.peer = a.peer /\ b.requests = Append(a.requests, m)
  BY <1>4, Zenon DEF Appends
<1>6. /\ a \in Socket /\ a.owner = s /\ a.thread # "unused" /\ a.requests \in Seq(Request)
      /\ SocketKept(c)
  BY <1>1, <1>2, <1>3, SocketFields, Zenon DEF Owned, LinkInv, LinkTypeOK, RecordsInv
<1>7. ~Late(s) /\ OneMessage(a) /\ AsksInPhase(s)
  BY <1>1, <1>2, Zenon DEF ScannerInv, InStep, UserKept
<1>8. ~Late(s)' => a.requests = <<>> /\ Phase(s) # "registering"
  <2>1. Phase(s) \in {"connected", "listening"} => Quiet(a) /\ Phase(s) # "registering"
    BY <1>1, <1>2, <1>7, Zenon DEF ScannerInv, InStep
  <2>2. a.replies # <<>> => a.requests = <<>>
    BY <1>6, <1>7, ReplyAlone, Zenon
  <2>3. QED
    BY <1>4, <2>1, <2>2, Zenon DEF Quiet
<1>9. a.requests = <<>> => \A i \in 1 .. Len(b.requests) : i = 1 /\ b.requests[i] = m
  BY <1>5, OnlyAsked, Zenon
<1>10. \A i \in 1 .. Len(b.requests) :
         \/ i \in 1 .. Len(a.requests) /\ b.requests[i] = a.requests[i]
         \/ b.requests[i] = m
  BY <1>5, <1>6, RequestsAppended, Zenon
<1>11. sockets'[c] = b
  BY <1>3, <1>5, Changed, Zenon DEF LinkInv, LinkTypeOK
<1>12. UserKept(s)'
  <2>1. SessionKnown(s)'
    BY <1>1, <1>2, <1>5, <1>11, Zenon DEF UserKept, SessionKnown
  <2>2. ASSUME ~Late(s)' PROVE AsksInPhase(s)'
    <3>1. State(s).session = a.handle /\ State(s).session # 0
      BY <1>1, <1>7, <1>8, <2>2, Zenon DEF AsksInPhase
    <3>2. \A i \in 1 .. Len(b.requests) :
            Wanted(Phase(s)', State(s)'.session, SerialOf(s)', b.requests[i])
      BY <1>1, <1>4, <1>8, <1>9, <2>2, Zenon DEF Wanted
    <3>3. QED
      BY <1>1, <1>5, <1>11, <3>1, <3>2, Zenon DEF AsksInPhase
  <2>3. Late(s)' => AsksInPhase(s)'
    BY Zenon DEF AsksInPhase
  <2>4. QED
    BY <2>1, <2>2, <2>3, Zenon DEF UserKept
<1>13. SerialsKept(b)
  <2>1. SerialsKept(a) /\ b.owner = s
    BY <1>5, <1>6, Zenon DEF SocketKept
  <2>2. ASSUME s \in Originators, NEW i \in 1 .. Len(b.requests),
               b.requests[i].kind \in {"open", "close"}
        PROVE  b.requests[i].serial = FirstSerial
    <3>1. m.serial = FirstSerial
      BY <1>4, <2>2, SerialOfRun, Zenon
    <3>2. QED
      BY <1>6, <1>10, <2>1, <2>2, <3>1, Zenon DEF SerialsKept
  <2>3. ASSUME s \in Transports
        PROVE  \A i, j \in 1 .. Len(b.requests) : i = j
    <3>1. ~Late(s)'
      BY <2>3, Zenon DEF Late
    <3>2. QED
      BY <1>8, <1>9, <3>1, Zenon
  <2>4. QED
    BY <2>1, <2>2, <2>3, Zenon DEF SerialsKept
<1>14. \A i \in 1 .. Len(b.requests) : b.requests[i].kind = "unregister" =>
         b.requests[i].session = a.handle /\ a.handle # 0 /\ b.peer # "here"
  BY <1>4, <1>5, <1>6, <1>10, Zenon DEF SocketKept, SessionKept
<1>15. Phase(s)' # "idle"
  BY <1>1, Zenon
<1> HIDE DEF c
<1>16. QED
  BY <1>3, <1>5, <1>6, <1>11, <1>12, <1>13, <1>14, <1>15, MoverRecords, Zenon

LEMMA GoesRecords ==
  ASSUME LinkInv, Cast, StepInv, RecordsInv, NEW s \in Users, ScannerMove(s), Goes(s)
  PROVE  RecordsInv'
<1> DEFINE c == Current(s)
           a == sockets[c]
           b == sockets'[c]
<1>1. Phase(s) # "idle" /\ Phase(s)' = "idle"
  BY Zenon DEF Goes
<1>2. ScannerInv(s) /\ Owned(s) /\ UserKept(s)
  BY Zenon DEF StepInv, LinkInv, UsersOK, RecordsInv
<1>3. /\ c \in SocketIds /\ Effect(s, c) /\ b.peer # "here" /\ b.thread = a.thread
      /\ \A i \in 1 .. Len(b.requests) :
           \/ i \in 1 .. Len(a.requests) /\ b.requests[i] = a.requests[i]
           \/ /\ GivesBack(b.requests[i], State(s).session)
              /\ IF s \in Transports THEN Phase(s) = "closing" ELSE State(s).session # 0
  BY <1>2, GoesEffect, Zenon DEF LinkInv, SocketsOK
<1>4. /\ a \in Socket /\ a.owner = s /\ a.thread # "unused" /\ SocketKept(c)
  BY <1>1, <1>2, <1>3, Zenon DEF Owned, LinkInv, LinkTypeOK, RecordsInv
<1>5. ASSUME IF s \in Transports THEN Phase(s) = "closing" ELSE State(s).session # 0
      PROVE  State(s).session = a.handle /\ a.handle # 0
  <2>1. CASE s \in Transports
    <3>1. ~Late(s) /\ Phase(s) = "closing"
      BY <1>5, <2>1, Zenon DEF Late
    <3>2. QED
      BY <1>2, <3>1, Zenon DEF UserKept, AsksInPhase
  <2>2. CASE s \notin Transports
    BY <1>1, <1>2, <1>5, <2>2, Zenon DEF UserKept, SessionKnown
  <2>3. QED
    BY <2>1, <2>2, Zenon
<1>6. \A i \in 1 .. Len(b.requests) :
        \/ i \in 1 .. Len(a.requests) /\ b.requests[i] = a.requests[i]
        \/ b.requests[i].kind = "unregister" /\ b.requests[i].session = a.handle /\ a.handle # 0
  BY <1>3, <1>5, Zenon DEF GivesBack
<1>7. \A i \in 1 .. Len(b.requests) : b.requests[i].kind = "unregister" =>
        b.requests[i].session = a.handle /\ a.handle # 0 /\ b.peer # "here"
  BY <1>3, <1>4, <1>6, Zenon DEF SocketKept, SessionKept
<1>8. SerialsKept(b)
  <2>1. "unregister" \notin {"open", "close"} /\ "unregister" # "close"
    BY Zenon
  <2>2. SerialsKept(a) /\ b.owner = a.owner
    BY <1>3, <1>4, Zenon DEF SocketKept, Effect
  <2>3. ASSUME b.owner \in Originators, NEW i \in 1 .. Len(b.requests),
               b.requests[i].kind \in {"open", "close"}
        PROVE  b.requests[i].serial = FirstSerial
    BY <1>6, <2>1, <2>2, <2>3, Zenon DEF SerialsKept
  <2>4. ASSUME b.owner \in Transports,
               NEW i \in 1 .. Len(b.requests), NEW j \in 1 .. Len(b.requests),
               b.requests[i].kind = "close", b.requests[j].kind = "close"
        PROVE  i = j
    <3>1. /\ i \in 1 .. Len(a.requests) /\ a.requests[i].kind = "close"
          /\ j \in 1 .. Len(a.requests) /\ a.requests[j].kind = "close"
      BY <1>6, <2>1, <2>4, Zenon
    <3>2. QED
      BY <2>2, <2>4, <3>1, Zenon DEF SerialsKept
  <2>5. QED
    BY <2>3, <2>4, Zenon DEF SerialsKept
<1>9. UserKept(s)'
  BY <1>1, Zenon DEF UserKept, SessionKnown, AsksInPhase
<1> HIDE DEF c
<1>10. QED
  BY <1>1, <1>3, <1>4, <1>7, <1>8, <1>9, MoverRecords, Zenon

LEMMA RestsRecords ==
  ASSUME LinkInv, Cast, RecordsInv,
         \/ UNCHANGED linkVars
         \/ \E s \in Users : ScannerMove(s) /\ Rests(s)
  PROVE  RecordsInv'
<1>1. /\ sockets' = sockets
      /\ UNCHANGED <<stage, sessions, next_session, connections, next_connection_id>>
      /\ \A u \in Users : State(u)' = State(u) /\ (Late(u)' <=> Late(u))
  <2>1. CASE UNCHANGED linkVars
    BY <2>1, Zenon DEF State, Late, linkVars, serverVars, tables
  <2>2. ASSUME NEW s \in Users, ScannerMove(s), Rests(s)
        PROVE  /\ sockets' = sockets
               /\ UNCHANGED <<stage, sessions, next_session, connections, next_connection_id>>
               /\ \A u \in Users : State(u)' = State(u) /\ (Late(u)' <=> Late(u))
    BY <2>2, TablesRest, Zenon DEF Rests, ScannerMove, OthersRest
  <2>3. QED
    BY <2>1, <2>2, Zenon
<1>2. \A u \in Users : /\ Phase(u)' = Phase(u) /\ Current(u)' = Current(u)
                       /\ SerialOf(u)' = SerialOf(u)
  BY <1>1, Zenon DEF Phase, Current, SerialOf
<1>3. HandlesApart' /\ ConnectionsApart'
  BY <1>1, Zenon DEF RecordsInv, HandlesApart, ConnectionsApart
<1>4. ASSUME NEW c \in SocketIds PROVE SocketKept(c)'
  <2>1. SocketKept(c) /\ sockets[c].owner \in Users
    BY SocketFields, Zenon DEF RecordsInv, LinkInv, LinkTypeOK, Cast
  <2>2. ASSUME NEW o \in Users, o = sockets[c].owner,
               sockets[c].peer = "here", sockets[c].thread # "unused"
        PROVE  Phase(o)' # "idle" /\ Current(o)' = c
    BY <1>2, <2>1, <2>2, Zenon DEF SocketKept, PeerIsThere
  <2>3. PeerIsThere(c)'
    BY <1>1, <2>1, <2>2, Zenon DEF PeerIsThere, Phase, Current, State
  <2>4. SessionKept(sockets[c])'
    BY <1>1, <2>1, Zenon DEF SocketKept, SessionKept, InService
  <2>5. QED
    BY <1>1, <2>1, <2>3, <2>4, Zenon DEF SocketKept, SerialsKept
<1>5. ASSUME NEW u \in Users PROVE UserKept(u)'
  <2>1. UserKept(u)
    BY Zenon DEF RecordsInv
  <2>2. SessionKnown(u)'
    BY <1>1, <1>2, <2>1, Zenon DEF UserKept, SessionKnown
  <2>3. AsksInPhase(u)'
    BY <1>1, <1>2, <2>1, Zenon DEF UserKept, AsksInPhase, Busy
  <2>4. QED
    BY <2>2, <2>3, Zenon DEF UserKept
<1>6. QED
  BY <1>3, <1>4, <1>5, Zenon DEF RecordsInv

LEMMA RecordsNext ==
  ASSUME LinkInv, Cast, StepInv, RecordsInv, [NextLink]_linkVars
  PROVE  RecordsInv'
<1>1. CASE ServerStep /\ UNCHANGED <<transport, originator, abandoned>>
  BY <1>1, ServerRecords, Zenon
<1>2. ASSUME NEW s \in Users, ScannerMove(s) PROVE RecordsInv'
  BY <1>2, DialsRecords, OpensRecords, ReadsRecords, ClosesRecords, GoesRecords,
     RestsRecords, Zenon DEF ScannerMove
<1>3. ASSUME NEW t \in Transports, TransportStep(t), UNCHANGED originator
      PROVE  RecordsInv'
  BY <1>2, <1>3, TransportTyped, Zenon DEF Users
<1>4. ASSUME NEW o \in Originators, OriginatorStep(o)
      PROVE  RecordsInv'
  BY <1>2, <1>4, OriginatorTyped, Zenon DEF Users
<1>5. CASE UNCHANGED linkVars
  BY <1>5, RestsRecords, Zenon
<1>6. QED
  BY <1>1, <1>3, <1>4, <1>5, Zenon DEF NextLink

LEMMA RecordsInit ==
  ASSUME InitLink, Scanners # {}
  PROVE  RecordsInv
<1>1. /\ next_session = 1 /\ sessions = {} /\ connections = {}
      /\ \A c \in SocketIds :
           /\ sockets[c].thread = "unused" /\ sockets[c].requests = <<>>
           /\ sockets[c].handle = 0
  BY Zenon DEF InitLink, InitServer, UnusedSocket
<1>2. \A s \in Users : Phase(s) = "idle"
  BY Kinds, Zenon DEF Phase, State, InitLink, InitTransport, InitOriginator, IdleRun
<1>3. HandlesApart
  <2>1. 0 < 1
    OBVIOUS
  <2>2. QED
    BY <1>1, <2>1, Zenon DEF HandlesApart
<1>4. ConnectionsApart
  BY <1>1, Zenon DEF ConnectionsApart
<1>5. ASSUME NEW c \in SocketIds PROVE SocketKept(c)
  <2>1. \A i \in 1 .. Len(sockets[c].requests) : FALSE
    <3>1. sockets[c].requests = <<>>
      BY <1>1, Zenon
    <3>2. QED
      BY <3>1, SMT
  <2>2. QED
    BY <1>1, <2>1, Zenon DEF SocketKept, SessionKept, SerialsKept, PeerIsThere, InService
<1>6. \A s \in Users : UserKept(s)
  BY <1>2, Zenon DEF UserKept, SessionKnown, AsksInPhase
<1>7. QED
  BY <1>3, <1>4, <1>5, <1>6, Zenon DEF RecordsInv

----------------------------------------------------------------------------
(* 2. Counts.                                                              *)

\* The server may still handle such a request.
Asked(a, kind) == a.thread # "ended" /\ ~Lacks(a, kind)

Entries(s) == {k \in connections : k.vendor = Vendor[s]}
Opening(s) == {c \in SocketIds : sockets[c].owner = s /\ Asked(sockets[c], "open")}

Answered(a) == a.replies # <<>> \/ Busy(a)

\* From the request for a connection to the answer of its Forward Close.
Holding(s) ==
  /\ Phase(s) \notin {"idle", "registering"}
  /\ ~(Phase(s) = "closing" /\ ~Late(s) /\ Answered(sockets[Current(s)]))

EntriesBounded(s) ==
  Cardinality(Entries(s)) + Cardinality(Opening(s))
    <= abandoned[s] + (IF Holding(s) THEN 1 ELSE 0)

\* The session of a TCP connection is gone for good, or about to go.
GivenBack(a) ==
  \/ a.handle \notin sessions /\ (a.thread = "ended" \/ Lacks(a, "register"))
  \/ a.peer = "closed" /\ a.thread # "ended" /\ ~Lacks(a, "unregister")

\* What a peer that is gone may leave behind.
Debt(a) ==
  /\ a.thread # "unused" /\ a.peer # "here"
  /\ Asked(a, "open") \/ (stage # "stopping" /\ ~GivenBack(a))

Debts(s) == {c \in SocketIds : sockets[c].owner = s /\ Debt(sockets[c])}

DebtsBounded(s) == Cardinality(Debts(s)) <= abandoned[s]

\* A transport hears, or has heard, that its connection is open.
Promised(a) ==
  \/ Busy(a) /\ a.reply.kind = "opened"
  \/ \E i \in 1 .. Len(a.replies) : a.replies[i].kind = "opened"

Granted(t, a) ==
  /\ a.thread # "ended"
  /\ Phase(t) = "connected" \/ (Phase(t) = "opening" /\ Promised(a))

CloseAsked(a, n) ==
  /\ a.thread # "ended"
  /\ \E i \in 1 .. Len(a.requests) : a.requests[i].kind = "close" /\ a.requests[i].serial = n

\* The TCP connections on which a transport closes, or has yet to close, a
\* connection with this serial that was opened.
Owing(t, n) ==
  {c \in SocketIds :
     /\ sockets[c].owner = t
     /\ \/ CloseAsked(sockets[c], n)
        \/ Current(t) = c /\ SerialOf(t) = n /\ Granted(t, sockets[c])}

EntriesOf(s, n) == {k \in connections : k.vendor = Vendor[s] /\ k.serial = n}

ClosesMatched(t) ==
  \A n \in Serials : Cardinality(Owing(t, n)) <= Cardinality(EntriesOf(t, n))

CountsInv ==
  /\ IsFiniteSet(connections)
  /\ \A s \in Users : EntriesBounded(s) /\ DebtsBounded(s)
  /\ \A t \in Transports : ClosesMatched(t)

----------------------------------------------------------------------------
\* One of some connections is the oldest.
LEMMA OldestEntry ==
  ASSUME NEW T, T # {}, \A k \in T : k.id \in Nat
  PROVE  \E k \in T : \A other \in T : k.id <= other.id
<1> DEFINE ids == {k.id : k \in T}
<1>1. ids \subseteq Nat /\ ids # {}
  BY Zenon
<1>2. PICK m \in ids : \A n \in ids : <<n, m>> \notin OpToRel(<, Nat)
  BY <1>1, NatLessThanWellFounded, WFMin, Zenon
<1>3. \A n \in ids : ~(n < m)
  BY <1>1, <1>2, Zenon DEF OpToRel
<1>4. \A n \in ids : m <= n
  BY <1>1, <1>3
<1>5. QED
  BY <1>2, <1>4, Zenon

\* A part of a finite set, and how many it lacks.
LEMMA Part ==
  ASSUME NEW T, IsFiniteSet(T), NEW S, S \subseteq T
  PROVE  /\ IsFiniteSet(S) /\ Cardinality(S) \in Nat /\ Cardinality(T) \in Nat
         /\ Cardinality(S) <= Cardinality(T)
         /\ \A k \in T : k \notin S => Cardinality(S) + 1 <= Cardinality(T)
         /\ \A k : T \subseteq S \cup {k} => Cardinality(T) <= Cardinality(S) + 1
<1>1. /\ IsFiniteSet(S) /\ Cardinality(S) \in Nat /\ Cardinality(T) \in Nat
      /\ Cardinality(S) <= Cardinality(T)
  BY FS_Subset, FS_CardinalityType, Zenon
<1>2. ASSUME NEW k
      PROVE  /\ IsFiniteSet(S \cup {k})
             /\ Cardinality(S \cup {k}) = Cardinality(S)
                  \/ Cardinality(S \cup {k}) = Cardinality(S) + 1
             /\ k \notin S => Cardinality(S \cup {k}) = Cardinality(S) + 1
  BY <1>1, FS_AddElement, Zenon
<1>3. ASSUME NEW k \in T, k \notin S
      PROVE  Cardinality(S) + 1 <= Cardinality(T)
  <2>1. S \cup {k} \subseteq T
    BY <1>3
  <2>2. Cardinality(S \cup {k}) <= Cardinality(T)
    BY <2>1, FS_Subset, Zenon
  <2>3. QED
    BY <1>2, <1>3, <2>2, Zenon
<1>4. ASSUME NEW k, T \subseteq S \cup {k}
      PROVE  Cardinality(T) <= Cardinality(S) + 1
  <2>1. Cardinality(T) <= Cardinality(S \cup {k})
    BY <1>2, <1>4, FS_Subset, Zenon
  <2> DEFINE n == Cardinality(S \cup {k})
  <2>2. n = Cardinality(S) \/ n = Cardinality(S) + 1
    BY <1>2, Zenon
  <2> HIDE DEF n
  <2>3. QED
    BY <1>1, <2>1, <2>2 DEF n
<1>5. QED
  BY <1>1, <1>3, <1>4, Zenon

LEMMA SocketSets ==
  ASSUME NEW S \in SUBSET SocketIds
  PROVE  IsFiniteSet(S) /\ Cardinality(S) \in Nat
BY Ranges, FS_Subset, FS_CardinalityType, Zenon

\* The request that is no longer there is the one that was taken.
LEMMA HeadTaken ==
  ASSUME NEW a, NEW b, NEW kind, a.requests \in Seq(Request), a.requests # <<>>,
         b.requests = Tail(a.requests), ~Lacks(a, kind), Lacks(b, kind)
  PROVE  Head(a.requests).kind = kind
<1> DEFINE q == a.requests
           p == b.requests
<1>1. PICK i \in 1 .. Len(q) : q[i].kind = kind
  BY Zenon DEF Lacks
<1>2. \A j \in 1 .. Len(p) : p[j].kind # kind
  BY Zenon DEF Lacks
<1>3. q \in Seq(Request) /\ q # <<>> /\ p = Tail(q)
  OBVIOUS
<1> HIDE DEF q, p
<1>4. CASE i = 1
  BY <1>1, <1>3, <1>4, Headed DEF q
<1>5. CASE i # 1
  <2>1. i - 1 \in 1 .. Len(p) /\ p[i - 1] = q[i]
    BY <1>1, <1>3, <1>5
  <2>2. QED
    BY <1>1, <1>2, <2>1, Zenon
<1>6. QED
  BY <1>4, <1>5, Zenon


\* What the server has yet to handle only gets less.
LEMMA ServerAsked ==
  ASSUME LinkInv, ServerStep, NEW c \in SocketIds
  PROVE  \A kind : Asked(sockets'[c], kind) => Asked(sockets[c], kind)
BY ServerLeaves, Zenon DEF Asked

----------------------------------------------------------------------------
(* What a scanner that is gone may leave behind.                           *)

\* A session that was given back stays so.
LEMMA StaysGivenBack ==
  ASSUME LinkInv, ServerStep, RecordsInv, NEW c \in SocketIds, GivenBack(sockets[c]),
         stage # "stopping", ~StopReturns
  PROVE  GivenBack(sockets[c])'
<1> DEFINE a == sockets[c]
           b == sockets'[c]
<1>1. /\ a \in Socket /\ SocketOK(a) /\ Move(a, b) /\ b.peer = a.peer
      /\ a.thread = "ended" => b = a
      /\ b.thread = "ended" /\ a.thread # "ended" => SessionEnds(c)
      /\ \A kind : Lacks(a, kind) => Lacks(b, kind)
  BY ServerLeaves, Zenon
<1>2. /\ b.handle = a.handle \/ RegisterSession(c)
      /\ RegisterSession(c) => ~Lacks(a, "register")
      /\ sessions' \subseteq sessions \cup {next_session}
  BY SessionsMove, Zenon
<1>3. a.handle # next_session
  <2>1. a.handle < next_session /\ a.handle \in Nat /\ next_session \in Nat
    <3>1. next_session \in 1 .. MaxSockets + 1
      BY Zenon DEF LinkInv, LinkTypeOK
    <3>2. a.handle \in Ids /\ a.handle < next_session
      BY <1>1, SocketFields, Zenon DEF RecordsInv, HandlesApart
    <3>3. QED
      BY <3>1, <3>2, Ranges
  <2>2. QED
    BY <2>1
<1>4. CASE a.handle \notin sessions /\ (a.thread = "ended" \/ Lacks(a, "register"))
  <2>1. ~RegisterSession(c)
    <3>1. a.thread = "ended" => ~RegisterSession(c)
      BY Zenon DEF RegisterSession, Takes
    <3>2. QED
      BY <1>2, <1>4, <3>1, Zenon
  <2>2. b.handle = a.handle /\ b.handle \notin sessions'
    BY <1>2, <1>3, <1>4, <2>1, Zenon
  <2>3. b.thread = "ended" \/ Lacks(b, "register")
    BY <1>1, <1>4, Zenon
  <2>4. QED
    BY <2>2, <2>3, Zenon DEF GivenBack, Lacks
<1>5. CASE a.peer = "closed" /\ a.thread # "ended" /\ ~Lacks(a, "unregister")
  <2>1. b.thread # "ended"
    <3>1. a.requests # <<>>
      BY <1>5 DEF Lacks
    <3>2. ~SessionEnds(c)
      BY <1>5, <3>1, Zenon DEF SessionEnds
    <3>3. QED
      BY <1>1, <1>5, <3>2, Zenon
  <2>2. CASE ~Lacks(b, "unregister")
    BY <1>1, <1>5, <2>1, <2>2, Zenon DEF GivenBack, Lacks
  <2>3. CASE Lacks(b, "unregister")
    <3>1. b.requests # a.requests
      BY <1>5, <2>3, Zenon DEF Lacks
    <3>2. Serves(a, b) \/ Handles(a, b)
      BY <1>1, <2>1, <3>1, Zenon DEF Move, Starts, GoesOn, Answers, Ends
    <3>3. a.requests \in Seq(Request) /\ a.requests # <<>> /\ b.requests = Tail(a.requests)
      BY <1>1, <3>2, SocketFields, Zenon DEF Serves, Handles
    <3>4. Head(a.requests).kind = "unregister"
      BY <1>5, <2>3, <3>3, HeadTaken, Zenon
    <3>5. UnregisterSession(c)
      <4>1. "unregister" \notin {"register", "open", "close"}
        BY Zenon
      <4>2. QED
        BY <3>2, <3>4, <4>1, StepTakes, Zenon DEF RegisterSession, RefuseSession,
           ForwardOpen, RefuseForwardOpen, ForwardClose, Takes
    <3>6. /\ 1 \in 1 .. Len(a.requests) /\ a.requests[1] = Head(a.requests)
          /\ a.requests[1].kind = "unregister"
      BY <3>5, HeadOf, Zenon DEF UnregisterSession
    <3>7. Head(a.requests).session = a.handle
      BY <3>6, Zenon DEF RecordsInv, SocketKept, SessionKept
    <3>8. sessions' = sessions \ {a.handle}
      BY <3>5, <3>7, Zenon DEF UnregisterSession
    <3>9. b.handle = a.handle
      BY <3>5, UnregisterMoves, Zenon DEF LinkInv, LinkTypeOK
    <3>10. Lacks(b, "register")
      BY <1>1, <3>3, OneTaken, Zenon DEF SocketOK
    <3>11. QED
      BY <3>8, <3>9, <3>10, Zenon DEF GivenBack, Lacks
  <2>4. QED
    BY <2>2, <2>3, Zenon
<1>6. QED
  BY <1>4, <1>5, Zenon DEF GivenBack

LEMMA ServerDebt ==
  ASSUME LinkInv, ServerStep, RecordsInv, NEW c \in SocketIds, Debt(sockets[c])'
  PROVE  Debt(sockets[c])
<1> DEFINE a == sockets[c]
           b == sockets'[c]
<1>1. /\ b.peer = a.peer /\ (a.thread # "unused" <=> b.thread # "unused")
      /\ \A kind : Lacks(a, kind) => Lacks(b, kind)
      /\ a.thread = "ended" => b = a
  BY ServerLeaves, Zenon
<1>2. /\ b.thread # "unused" /\ b.peer # "here"
      /\ Asked(b, "open") \/ (stage' # "stopping" /\ ~GivenBack(a)')
  BY Zenon DEF Debt, Asked, Lacks
<1>3. CASE Asked(b, "open")
  BY <1>1, <1>2, <1>3, ServerAsked, Zenon DEF Debt
<1>4. CASE stage' # "stopping" /\ ~GivenBack(a)'
  <2>1. CASE StopReturns
    <3>1. sessions' = {} /\ b.thread \in {"unused", "ended"}
      BY <2>1, StopReturnsMoves, Zenon DEF StopReturns, LinkInv, LinkTypeOK
    <3>2. QED
      BY <1>2, <1>4, <3>1, Zenon DEF GivenBack
  <2>2. CASE ~StopReturns
    <3>1. stage # "stopping"
      BY <1>4, <2>2, Zenon DEF ServerStep, StartServer, StopServer, LoopEnds, Accept,
         SessionStep, RegisterSession, UnregisterSession, RefuseSession, ForwardOpen,
         RefuseForwardOpen, ForwardClose, SetItems, CollectItems, Answer, SessionEnds,
         Receive, Apply, LoseDatagram
    <3>2. ~GivenBack(a)
      BY <1>4, <2>2, <3>1, StaysGivenBack, Zenon
    <3>3. QED
      BY <1>1, <1>2, <3>1, <3>2, Zenon DEF Debt
  <2>3. QED
    BY <2>1, <2>2, Zenon
<1>5. QED
  BY <1>2, <1>3, <1>4, Zenon

LEMMA ServerDebts ==
  ASSUME LinkInv, ServerStep, UNCHANGED abandoned, RecordsInv, NEW s \in Users, DebtsBounded(s)
  PROVE  DebtsBounded(s)'
<1>1. Debts(s)' \subseteq Debts(s)
  <2>1. \A c \in SocketIds : sockets'[c].owner = sockets[c].owner
    BY ServerLeaves, Zenon
  <2>2. QED
    BY <2>1, ServerDebt, Zenon DEF Debts
<1>2. /\ Cardinality(Debts(s)) \in Nat /\ Cardinality(Debts(s)') \in Nat
      /\ Cardinality(Debts(s)') <= Cardinality(Debts(s))
  <2>1. Debts(s) \in SUBSET SocketIds
    BY Zenon DEF Debts
  <2>2. QED
    BY <1>1, <2>1, SocketSets, Part, Zenon
<1>3. abandoned[s] \in Nat
  BY Kinds, Zenon DEF LinkInv, LinkTypeOK
<1>4. Cardinality(Debts(s)) <= abandoned[s] /\ abandoned'[s] = abandoned[s]
  BY Zenon DEF DebtsBounded
<1>5. Cardinality(Debts(s)') <= abandoned'[s]
  BY <1>2, <1>3, <1>4
<1>6. QED
  BY <1>5, Zenon DEF DebtsBounded


LEMMA SameDebt ==
  ASSUME UNCHANGED <<stage, sessions>>, NEW d \in SocketIds, sockets'[d] = sockets[d], NEW s
  PROVE  d \in Debts(s)' <=> d \in Debts(s)
<1>1. GivenBack(sockets[d])' <=> GivenBack(sockets[d])
  BY Zenon DEF GivenBack, Lacks
<1>2. Debt(sockets[d])' <=> Debt(sockets[d])
  BY <1>1, Zenon DEF Debt, Asked, Lacks
<1>3. QED
  BY <1>2, Zenon DEF Debts

\* A peer that is there leaves nothing.
LEMMA StayersDebts ==
  ASSUME LinkInv, NEW s \in Users, ScannerMove(s), NEW u \in Users, u # s \/ ~Goes(s)
  PROVE  Debts(u)' \subseteq Debts(u) /\ abandoned'[u] = abandoned[u]
<1>1. UNCHANGED <<stage, sessions>>
  BY TablesRest, Zenon
<1>2. CASE u # s
  <2>1. \A d \in SocketIds : sockets'[d].owner = u => sockets'[d] = sockets[d]
    BY <1>2, OtherRests, Zenon
  <2>2. \A d \in SocketIds : d \in Debts(u)' => sockets'[d].owner = u
    BY Zenon DEF Debts
  <2>3. Debts(u)' \subseteq SocketIds
    BY Zenon DEF Debts
  <2>4. QED
    BY <1>1, <1>2, <2>1, <2>2, <2>3, SameDebt, OtherRests, Zenon
<1>3. CASE u = s /\ Rests(s)
  <2>1. Debts(u)' \subseteq SocketIds
    BY Zenon DEF Debts
  <2>2. QED
    BY <1>1, <1>3, <2>1, SameDebt, Zenon DEF Rests
<1>4. CASE u = s /\ ~Goes(s) /\ ~Rests(s)
  <2>1. Phase(s)' # "idle" /\ abandoned'[s] = abandoned[s]
    BY <1>4, Zenon DEF ScannerMove, Dials, Opens, Reads, Closes
  <2>2. PICK c \in SocketIds : Effect(s, c)
    BY <1>4, MoveEffect, Zenon
  <2>3. sockets'[c].peer = "here" /\ \A d \in SocketIds \ {c} : sockets'[d] = sockets[d]
    BY <2>1, <2>2, Zenon DEF Effect
  <2>4. Debts(u)' \subseteq SocketIds /\ c \notin Debts(u)'
    BY <2>3, Zenon DEF Debts, Debt
  <2>5. QED
    BY <1>1, <1>4, <2>1, <2>3, <2>4, SameDebt, Zenon
<1>5. QED
  BY <1>2, <1>3, <1>4, Zenon

\* A scanner that goes leaves its TCP connection behind, cleanly or not.
LEMMA GoersDebts ==
  ASSUME LinkInv, RecordsInv, NEW s \in Users, ScannerMove(s), Goes(s)
  PROVE  \/ Debts(s)' \subseteq Debts(s) /\ abandoned'[s] = abandoned[s]
         \/ /\ Debts(s)' \subseteq Debts(s) \cup {Current(s)}
            /\ abandoned'[s] = abandoned[s] + 1
<1>1. Owned(s) /\ UserKept(s) /\ Phase(s) # "idle" /\ Current(s) \in SocketIds
  BY Zenon DEF LinkInv, UsersOK, RecordsInv, Goes, Owned
<1>0. PICK c \in SocketIds : c = Current(s)
  BY <1>1, Zenon
<1> DEFINE a == sockets[c]
           b == sockets'[c]
<1>2. /\ Effect(s, c) /\ b.thread = a.thread
      /\ Asks(a, b, {"unregister"})
      /\ \/ abandoned'[s] = abandoned[s] + 1
         \/ /\ abandoned'[s] = abandoned[s] /\ Phase(s) = "closing" /\ ~Late(s)
            /\ b.peer = "closed"
            /\ State(s).session # 0 => ~Lacks(b, "unregister")
  BY <1>1, <1>0, GoesEffect, Zenon DEF LinkInv, SocketsOK
<1>3. UNCHANGED <<stage, sessions>> /\ b.handle = a.handle
  BY <1>2, TablesRest, Zenon
<1>4. \A d \in SocketIds \ {c} : sockets'[d] = sockets[d]
  BY <1>2, Zenon DEF Effect
<1>5. \A d \in Debts(s)' : d \in Debts(s) \/ d = c
  <2>1. Debts(s)' \subseteq SocketIds
    BY Zenon DEF Debts
  <2>2. QED
    BY <1>3, <1>4, <2>1, SameDebt, Zenon
<1>6. ASSUME Phase(s) = "closing", ~Late(s), b.peer = "closed",
             State(s).session # 0 => ~Lacks(b, "unregister")
      PROVE  c \notin Debts(s)'
  <2>1. /\ a.handle # 0 /\ State(s).session # 0
        /\ \A i \in 1 .. Len(a.requests) : a.requests[i].kind = "close"
    <3>1. "closing" \notin {"idle", "registering", "opening"}
      BY Zenon
    <3>2. QED
      BY <1>1, <1>0, <1>6, <3>1, Zenon DEF UserKept, AsksInPhase, Wanted
  <2>2. Lacks(b, "open")
    <3>1. "open" # "close" /\ "open" \notin {"unregister"}
      BY Zenon
    <3>2. Lacks(a, "open")
      BY <2>1, <3>1, Zenon DEF Lacks
    <3>3. QED
      BY <1>2, <3>1, <3>2, AsksKeeps, Zenon
  <2>3. SessionKept(a) /\ a.peer = "here"
    BY <1>1, <1>0, Zenon DEF RecordsInv, SocketKept, Owned
  <2>4. CASE stage' = "stopping"
    BY <2>2, <2>4, Zenon DEF Debts, Debt, Asked, Lacks
  <2>5. CASE b.thread = "ended" /\ stage' # "stopping"
    <3>1. b.handle \notin sessions'
      BY <1>2, <1>3, <2>3, <2>5, Zenon DEF SessionKept
    <3>2. GivenBack(a)'
      BY <2>5, <3>1, Zenon DEF GivenBack
    <3>3. QED
      BY <2>2, <3>2, Zenon DEF Debts, Debt, Asked, Lacks, GivenBack
  <2>6. CASE b.thread # "ended"
    <3>1. GivenBack(a)'
      BY <1>6, <2>1, <2>6, Zenon DEF GivenBack, Lacks
    <3>2. QED
      BY <2>2, <3>1, Zenon DEF Debts, Debt, Asked, Lacks, GivenBack
  <2>7. QED
    BY <2>4, <2>5, <2>6, Zenon
<1>7. QED
  <2>1. CASE abandoned'[s] = abandoned[s] + 1
    BY <1>0, <1>5, <2>1, Zenon
  <2>2. CASE abandoned'[s] # abandoned[s] + 1
    <3>1. c \notin Debts(s)' /\ abandoned'[s] = abandoned[s]
      BY <1>2, <1>6, <2>2, Zenon
    <3>2. QED
      BY <1>0, <1>5, <3>1, Zenon
  <2>3. QED
    BY <2>1, <2>2, Zenon

LEMMA ScannerDebts ==
  ASSUME LinkInv, RecordsInv, NEW s \in Users, ScannerMove(s), NEW u \in Users, DebtsBounded(u)
  PROVE  DebtsBounded(u)'
<1>1. \/ Debts(u)' \subseteq Debts(u) /\ abandoned'[u] = abandoned[u]
      \/ /\ \E c : Debts(u)' \subseteq Debts(u) \cup {c}
         /\ abandoned'[u] = abandoned[u] + 1
  BY StayersDebts, GoersDebts, Zenon
<1>2. Debts(u) \in SUBSET SocketIds /\ Debts(u)' \in SUBSET SocketIds
  BY Zenon DEF Debts
<1>3. /\ Cardinality(Debts(u)) \in Nat /\ Cardinality(Debts(u)') \in Nat
      /\ IsFiniteSet(Debts(u)) /\ IsFiniteSet(Debts(u)')
  BY <1>2, SocketSets, Zenon
<1>4. abandoned[u] \in Nat
  BY Kinds, Zenon DEF LinkInv, LinkTypeOK
<1>5. Cardinality(Debts(u)) <= abandoned[u]
  BY Zenon DEF DebtsBounded
<1>6. CASE Debts(u)' \subseteq Debts(u) /\ abandoned'[u] = abandoned[u]
  <2>1. Cardinality(Debts(u)') <= Cardinality(Debts(u))
    BY <1>3, <1>6, Part, Zenon
  <2>2. Cardinality(Debts(u)') <= abandoned'[u]
    BY <1>3, <1>4, <1>5, <1>6, <2>1
  <2>3. QED
    BY <2>2, Zenon DEF DebtsBounded
<1>7. ASSUME NEW c, Debts(u)' \subseteq Debts(u) \cup {c},
             abandoned'[u] = abandoned[u] + 1
      PROVE  DebtsBounded(u)'
  <2> DEFINE W == Debts(u) \cup {c}
  <2>1. /\ IsFiniteSet(W) /\ Cardinality(W) \in Nat
        /\ Cardinality(W) <= Cardinality(Debts(u)) + 1
    <3>1. IsFiniteSet(W)
      BY <1>3, FS_AddElement, Zenon
    <3>2. Debts(u) \subseteq W
      BY Zenon
    <3>3. QED
      BY <3>1, <3>2, Part, Zenon
  <2> HIDE DEF W
  <2>2. Cardinality(Debts(u)') <= Cardinality(W)
    BY <1>7, <2>1, Part, Zenon DEF W
  <2>3. Cardinality(Debts(u)') <= abandoned'[u]
    BY <1>3, <1>4, <1>5, <1>7, <2>1, <2>2
  <2>4. QED
    BY <2>3, Zenon DEF DebtsBounded
<1>8. QED
  BY <1>1, <1>6, <1>7, Zenon


----------------------------------------------------------------------------
(* What a transport has yet to close.                                      *)

\* A connection is promised by the Forward Open alone.
LEMMA PromisedBefore ==
  ASSUME LinkInv, ServerStep, NEW c \in SocketIds, ~ForwardOpen(c), Promised(sockets'[c])
  PROVE  Promised(sockets[c])
<1> DEFINE a == sockets[c]
           b == sockets'[c]
<1>1. a \in Socket /\ Move(a, b) /\ a.replies \in Seq(Reply) /\ a.reply \in Reply
  BY ServerLeaves, SocketFields, Zenon
<1>2. ASSUME b.replies = a.replies, Busy(b) /\ b.reply.kind = "opened" =>
                                      Busy(a) /\ a.reply.kind = "opened"
      PROVE  Promised(a)
  BY <1>2, Zenon DEF Promised
<1>3. ASSUME NEW m \in Reply, b.replies = Append(a.replies, m), ~Busy(b),
             m.kind = "opened" => Busy(a) /\ a.reply.kind = "opened"
      PROVE  Promised(a)
  <2>1. \A i \in 1 .. Len(b.replies) :
          \/ i \in 1 .. Len(a.replies) /\ b.replies[i] = a.replies[i]
          \/ b.replies[i] = m
    BY <1>1, <1>3, RepliesAppended, Zenon
  <2>2. QED
    BY <1>3, <2>1, Zenon DEF Promised
<1>4. CASE b = a
  BY <1>4, Zenon
<1>5. CASE Starts(a, b) \/ Ends(a, b)
  BY <1>2, <1>5, Zenon DEF Starts, Ends, Busy
<1>6. CASE Serves(a, b)
  BY <1>2, <1>3, <1>6, Zenon DEF Serves, Busy
<1>7. CASE Handles(a, b)
  <2>1. b.reply.kind # "opened"
    BY <1>7, HandlesWhat, Zenon
  <2>2. QED
    BY <1>2, <1>7, <2>1, Zenon DEF Handles
<1>8. CASE GoesOn(a, b)
  BY <1>2, <1>8, Zenon DEF GoesOn, Busy
<1>9. CASE Answers(a, b)
  BY <1>1, <1>2, <1>3, <1>9, Zenon DEF Answers, Busy
<1>10. QED
  BY <1>1, <1>4, <1>5, <1>6, <1>7, <1>8, <1>9, Zenon DEF Move

LEMMA CloseAskedBefore ==
  ASSUME LinkInv, ServerStep, NEW c \in SocketIds, NEW n, CloseAsked(sockets'[c], n)
  PROVE  CloseAsked(sockets[c], n)
<1> DEFINE a == sockets[c]
           b == sockets'[c]
<1>1. /\ a \in Socket /\ Move(a, b) /\ (a.thread = "ended" => b = a)
  BY ServerLeaves, Zenon
<1>2. \A i \in 1 .. Len(b.requests) :
        \E j \in 1 .. Len(a.requests) : b.requests[i] = a.requests[j]
  BY <1>1, MoveRequests, ZenonT(60)
<1>3. QED
  BY <1>1, <1>2, Zenon DEF CloseAsked

\* A transport that is in one of these phases has asked for nothing but its
\* connection.
LEMMA GrantedAsks ==
  ASSUME LinkInv, StepInv, RecordsInv, NEW t \in Transports,
         Phase(t) \in {"opening", "connected"}
  PROVE  /\ Current(t) \in SocketIds /\ sockets[Current(t)].owner = t
         /\ sockets[Current(t)].thread # "unused"
         /\ OneMessage(sockets[Current(t)])
         /\ \A i \in 1 .. Len(sockets[Current(t)].requests) :
              /\ Phase(t) = "opening"
              /\ sockets[Current(t)].requests[i].kind = "open"
              /\ sockets[Current(t)].requests[i].serial = SerialOf(t)
<1>1. t \in Users /\ ~Late(t) /\ Phase(t) # "idle"
  BY Zenon DEF Users, Late
<1>2. Owned(t) /\ InStep(t) /\ AsksInPhase(t)
  BY <1>1, Zenon DEF LinkInv, UsersOK, StepInv, ScannerInv, RecordsInv, UserKept
<1>3. Phase(t) = "connected" => \A i \in 1 .. Len(sockets[Current(t)].requests) : FALSE
  <2>1. Phase(t) = "connected" => sockets[Current(t)].requests = <<>>
    BY <1>1, <1>2, Zenon DEF InStep, Quiet
  <2>2. \A i \in 1 .. Len(<<>>) : FALSE
    BY SMT
  <2>3. QED
    BY <2>1, <2>2, Zenon
<1>4. \A i \in 1 .. Len(sockets[Current(t)].requests) :
        Phase(t) = "opening" =>
          /\ sockets[Current(t)].requests[i].kind = "open"
          /\ sockets[Current(t)].requests[i].serial = SerialOf(t)
  BY <1>1, <1>2, Zenon DEF AsksInPhase, Wanted
<1>5. QED
  BY <1>1, <1>2, <1>3, <1>4, Zenon DEF Owned, InStep


LEMMA OwingBefore ==
  ASSUME LinkInv, ServerStep, UNCHANGED <<transport, originator>>, NEW t \in Transports,
         NEW n, NEW d \in SocketIds, d \in Owing(t, n)',
         sockets'[d] = sockets[d] \/ ~ForwardOpen(d)
  PROVE  d \in Owing(t, n)
<1> DEFINE a == sockets[d]
           b == sockets'[d]
<1>1. /\ Current(t)' = Current(t) /\ SerialOf(t)' = SerialOf(t) /\ Phase(t)' = Phase(t)
  BY Zenon DEF Current, SerialOf, Phase, State
<1>2. b.owner = a.owner /\ (a.thread = "ended" => b = a)
  BY ServerLeaves, Zenon
<1>3. /\ b.owner = t
      /\ \/ CloseAsked(b, n)
         \/ /\ Current(t) = d /\ SerialOf(t) = n
            /\ b.thread # "ended"
            /\ Phase(t) = "connected" \/ (Phase(t) = "opening" /\ Promised(b))
  BY <1>1, Zenon DEF Owing, Granted, CloseAsked, Promised, Busy
<1>4. CloseAsked(b, n) => CloseAsked(a, n)
  BY CloseAskedBefore, Zenon
<1>5. Promised(b) => Promised(a)
  BY PromisedBefore, Zenon
<1>6. QED
  BY <1>2, <1>3, <1>4, <1>5, Zenon DEF Owing, Granted

\* Who has just been given a connection owes its close.
LEMMA OwingOpened ==
  ASSUME LinkInv, StepInv, RecordsInv, ServerStep, UNCHANGED <<transport, originator>>,
         NEW t \in Transports, NEW n, NEW c \in SocketIds, ForwardOpen(c),
         c \in Owing(t, n)', c \notin Owing(t, n)
  PROVE  sockets[c].owner = t /\ n = Head(sockets[c].requests).serial
<1>1. /\ Current(t)' = Current(t) /\ SerialOf(t)' = SerialOf(t) /\ Phase(t)' = Phase(t)
  BY Zenon DEF Current, SerialOf, Phase, State
<1>2. sockets'[c].owner = sockets[c].owner
  BY ServerLeaves, Zenon
<1>3. /\ sockets'[c].owner = t
      /\ \/ CloseAsked(sockets'[c], n)
         \/ /\ Current(t) = c /\ SerialOf(t) = n
            /\ Phase(t) \in {"opening", "connected"}
  BY <1>1, Zenon DEF Owing, Granted, CloseAsked
<1>4. ~CloseAsked(sockets'[c], n)
  BY <1>2, <1>3, CloseAskedBefore, Zenon DEF Owing
<1>5. 1 \in 1 .. Len(sockets[c].requests) /\ sockets[c].requests[1] = Head(sockets[c].requests)
  BY HeadOf, Zenon DEF ForwardOpen
<1>6. Head(sockets[c].requests).serial = SerialOf(t)
  <2>1. Current(t) = c /\ Phase(t) \in {"opening", "connected"}
    BY <1>3, <1>4, Zenon
  <2>2. sockets[c].requests[1].serial = SerialOf(t)
    BY <1>5, <2>1, GrantedAsks, Zenon
  <2>3. QED
    BY <1>5, <2>2, Zenon
<1>7. QED
  BY <1>2, <1>3, <1>4, <1>6, Zenon

LEMMA OwingTaken ==
  ASSUME LinkInv, NEW t \in Transports, NEW n, NEW c \in SocketIds, ForwardClose(c),
         sockets[c].owner = t, n = Head(sockets[c].requests).serial
  PROVE  c \in Owing(t, n)
<1>1. /\ 1 \in 1 .. Len(sockets[c].requests) /\ sockets[c].thread = "reading"
      /\ sockets[c].requests[1] = Head(sockets[c].requests)
      /\ sockets[c].requests[1].kind = "close"
  BY HeadOf, Zenon DEF ForwardClose
<1>2. QED
  BY <1>1, Zenon DEF Owing, CloseAsked

\* The close of a connection is handled once.
LEMMA OwingClosed ==
  ASSUME LinkInv, StepInv, RecordsInv, ServerStep, UNCHANGED <<transport, originator>>,
         NEW t \in Transports, NEW n, NEW c \in SocketIds, ForwardClose(c),
         sockets[c].owner = t, n = Head(sockets[c].requests).serial
  PROVE  c \in Owing(t, n) /\ c \notin Owing(t, n)'
<1> DEFINE a == sockets[c]
           b == sockets'[c]
<1>1. /\ a \in Socket /\ 1 \in 1 .. Len(a.requests) /\ a.requests # <<>>
      /\ a.requests \in Seq(Request) /\ a.thread = "reading"
      /\ a.requests[1] = Head(a.requests) /\ a.requests[1].kind = "close"
  BY HeadOf, Zenon DEF ForwardClose
<1>2. c \in Owing(t, n)
  BY OwingTaken, Zenon
<1>3. b.requests = Tail(a.requests)
  <2>1. sockets \in [SocketIds -> Socket] /\ 0 \in Ids
    BY Ranges, Zenon DEF LinkInv, LinkTypeOK
  <2>2. Handles(a, b)
    BY <2>1, HandledMoves, Zenon DEF ForwardClose
  <2>3. QED
    BY <2>2, Zenon DEF Handles
<1>4. ~CloseAsked(b, n)
  <2>1. \A i \in 1 .. Len(b.requests) :
          /\ i \in Nat /\ i + 1 \in 1 .. Len(a.requests) /\ i + 1 # 1
          /\ b.requests[i] = a.requests[i + 1]
    BY <1>1, <1>3, TailElements, Zenon
  <2>2. SerialsKept(a)
    BY Zenon DEF RecordsInv, SocketKept
  <2>3. \A i \in 1 .. Len(b.requests) : b.requests[i].kind # "close"
    BY <1>1, <2>1, <2>2, Zenon DEF SerialsKept
  <2>4. QED
    BY <2>3, Zenon DEF CloseAsked
<1>5. ~(Current(t) = c /\ Phase(t) \in {"opening", "connected"})
  <2>1. "close" # "open"
    BY Zenon
  <2>2. QED
    BY <1>1, <2>1, GrantedAsks, Zenon
<1>6. Current(t)' = Current(t) /\ Phase(t)' = Phase(t)
  BY Zenon DEF Current, Phase, State
<1>7. c \notin Owing(t, n)'
  BY <1>4, <1>5, <1>6, Zenon DEF Owing, Granted, CloseAsked
<1>8. QED
  BY <1>2, <1>7, Zenon

\* Entries that a step leaves alone.
LEMMA OthersEntries ==
  ASSUME LinkInv, Cast, ConnectionsApart, NEW c \in SocketIds, NEW s \in Users, NEW n,
         ForwardOpen(c) \/ ForwardClose(c),
         sockets[c].owner # s \/ n # Head(sockets[c].requests).serial
  PROVE  /\ EntriesOf(s, n)' = EntriesOf(s, n)
         /\ sockets[c].owner # s => Entries(s)' = Entries(s)
<1>1. sockets[c].owner \in Scanners /\ s \in Scanners
  BY Kinds, SocketFields, Zenon DEF LinkInv, LinkTypeOK
<1>2. sockets[c].owner # s => Vendor[sockets[c].owner] # Vendor[s]
  BY <1>1, Zenon DEF Cast
<1>3. CASE ForwardOpen(c)
  <2>1. /\ connections' = connections \cup {NewEntry(c)}
        /\ NewEntry(c).vendor = Vendor[sockets[c].owner]
        /\ NewEntry(c).serial = Head(sockets[c].requests).serial
    BY <1>3, OpensEntry, Zenon
  <2>2. QED
    BY <1>2, <2>1, Zenon DEF EntriesOf, Entries
<1>4. CASE ForwardClose(c)
  <2>1. /\ connections' \subseteq connections
        /\ \A k \in connections : k \in connections' \/ k \in Matching(c)
    BY <1>4, Zenon DEF ForwardClose
  <2>2. \A k \in Matching(c) : /\ k.vendor = Vendor[sockets[c].owner]
                               /\ k.serial = Head(sockets[c].requests).serial
    BY Zenon DEF Matching
  <2>3. QED
    BY <1>2, <2>1, <2>2, Zenon DEF EntriesOf, Entries
<1>5. QED
  BY <1>3, <1>4, Zenon

LEMMA ServerFinite ==
  ASSUME LinkInv, ServerStep, ConnectionsApart, IsFiniteSet(connections)
  PROVE  IsFiniteSet(connections)'
<1>1. CASE \E c \in SocketIds : ForwardOpen(c)
  <2>1. PICK c \in SocketIds : connections' = connections \cup {NewEntry(c)}
    BY <1>1, OpensEntry, Zenon
  <2>2. IsFiniteSet(connections \cup {NewEntry(c)})
    BY FS_AddElement, Zenon
  <2>3. QED
    BY <2>1, <2>2, Zenon
<1>2. CASE \E c \in SocketIds : ForwardClose(c)
  <2>1. connections' \subseteq connections
    BY <1>2, Zenon DEF ForwardClose
  <2>2. QED
    BY <2>1, Part, Zenon
<1>3. CASE connections' = {}
  BY <1>3, FS_EmptySet, Zenon
<1>4. QED
  BY <1>1, <1>2, <1>3, TableMoves, Zenon


\* A Forward Close takes one entry out of the table at most, and one if there is one.
LEMMA ClosesEntry ==
  ASSUME LinkInv, ConnectionsApart, NEW c \in SocketIds, ForwardClose(c)
  PROVE  /\ connections' \subseteq connections /\ Matching(c) \subseteq connections
         /\ \A k, l \in connections : k \notin connections' /\ l \notin connections' => k = l
         /\ Matching(c) # {} => \E k \in Matching(c) : k \notin connections'
<1> DEFINE oldest == {k \in Matching(c) : \A other \in Matching(c) : k.id <= other.id}
<1>1. connections' = connections \ oldest
  BY Zenon DEF ForwardClose
<1>2. \A k \in connections : k.id \in Nat
  <2>1. connections \subseteq Connection
    BY Zenon DEF LinkInv, LinkTypeOK
  <2>2. \A k \in connections : k.id \in Ids
    BY <2>1, Zenon DEF Connection, Frame
  <2>3. QED
    BY <2>2, Ranges, Zenon
<1>3. Matching(c) \subseteq connections
  BY Zenon DEF Matching
<1>4. ASSUME NEW k \in oldest, NEW l \in oldest PROVE k = l
  <2>1. k \in connections /\ l \in connections /\ k.id <= l.id /\ l.id <= k.id
    BY <1>3, Zenon
  <2>2. k.id = l.id
    BY <1>2, <2>1
  <2>3. QED
    BY <2>1, <2>2, Zenon DEF ConnectionsApart
<1>5. Matching(c) # {} => \E k \in Matching(c) : k \in oldest
  BY <1>2, <1>3, OldestEntry, Zenon
<1> HIDE DEF oldest
<1>6. QED
  BY <1>1, <1>3, <1>4, <1>5, Zenon

LEMMA ServerMatched ==
  ASSUME LinkInv, Cast, StepInv, RecordsInv, ServerStep,
         UNCHANGED <<transport, originator, abandoned>>, IsFiniteSet(connections),
         NEW t \in Transports, ClosesMatched(t)
  PROVE  ClosesMatched(t)'
<1>1. t \in Users /\ ConnectionsApart /\ UNCHANGED <<transport, originator>>
  BY Zenon DEF Users, RecordsInv
<1>2. SUFFICES ASSUME NEW n \in Serials
               PROVE  Cardinality(Owing(t, n)') <= Cardinality(EntriesOf(t, n)')
  BY Zenon DEF ClosesMatched
<1> DEFINE owing == Owing(t, n)
           owed == Owing(t, n)'
           entries == EntriesOf(t, n)
           left == EntriesOf(t, n)'
<1>3. /\ IsFiniteSet(owing) /\ IsFiniteSet(owed) /\ Cardinality(owing) \in Nat
      /\ Cardinality(owed) \in Nat
      /\ owing \subseteq SocketIds /\ owed \subseteq SocketIds
  <2>1. owing \in SUBSET SocketIds /\ owed \in SUBSET SocketIds
    BY Zenon DEF Owing
  <2>2. QED
    BY <2>1, SocketSets, Zenon
<1>4. /\ IsFiniteSet(entries) /\ IsFiniteSet(left)
      /\ Cardinality(entries) \in Nat /\ Cardinality(left) \in Nat
  <2>1. entries \subseteq connections /\ left \subseteq connections'
    BY Zenon DEF EntriesOf
  <2>2. IsFiniteSet(connections')
    BY <1>1, ServerFinite, Zenon
  <2>3. QED
    BY <2>1, <2>2, Part, Zenon
<1>5. Cardinality(owing) <= Cardinality(entries)
  BY Zenon DEF ClosesMatched
<1>6. ASSUME owed \subseteq owing, left = entries
      PROVE  Cardinality(owed) <= Cardinality(left)
  <2>1. Cardinality(owed) <= Cardinality(owing)
    BY <1>3, <1>6, Part, Zenon
  <2> HIDE DEF owing, owed, entries, left
  <2>2. QED
    BY <1>3, <1>4, <1>5, <1>6, <2>1
<1>7. ASSUME NEW d \in SocketIds, d \in owed, d \notin owing
      PROVE  ForwardOpen(d)
  BY <1>1, <1>7, OwingBefore, Zenon
<1>8. CASE connections' = connections /\ next_connection_id' = next_connection_id
  <2>1. ASSUME NEW d \in SocketIds PROVE ~ForwardOpen(d)
    <3>1. next_connection_id \in Nat
      BY Ranges, Zenon DEF LinkInv, LinkTypeOK
    <3>2. next_connection_id # next_connection_id + 1
      BY <3>1
    <3>3. QED
      BY <1>8, <3>2, Zenon DEF ForwardOpen
  <2>2. owed \subseteq owing
    BY <1>3, <1>7, <2>1, Zenon
  <2>3. left = entries
    BY <1>8, Zenon DEF EntriesOf
  <2>4. QED
    BY <1>6, <2>2, <2>3, Zenon
<1>9. CASE StopReturns
  <2>1. \A d \in SocketIds : sockets'[d].thread \in {"unused", "ended"}
    BY <1>9, StopReturnsMoves, Zenon DEF LinkInv, LinkTypeOK
  <2>2. Owned(t) /\ (Phase(t)' = Phase(t)) /\ (Current(t)' = Current(t))
    BY <1>1, Zenon DEF LinkInv, UsersOK, Phase, Current, State
  <2>3. ASSUME NEW d \in SocketIds, d \in owed PROVE FALSE
    <3>1. CASE sockets'[d].thread = "unused"
      <4>1. sockets'[d] = sockets[d] /\ SocketOK(sockets[d])
        BY <3>1, ServerLeaves, Zenon
      <4>2. \A i \in 1 .. Len(sockets'[d].requests) : FALSE
        <5>1. sockets'[d].requests = <<>>
          BY <3>1, <4>1, Zenon DEF SocketOK
        <5>2. QED
          BY <5>1, SMT
      <4>3. ~(Phase(t) # "idle" /\ Current(t) = d)
        BY <2>2, <3>1, <4>1, Zenon DEF Owned
      <4>4. QED
        BY <2>2, <2>3, <4>2, <4>3, Zenon DEF Owing, CloseAsked, Granted
    <3>2. CASE sockets'[d].thread = "ended"
      BY <2>3, <3>2, Zenon DEF Owing, CloseAsked, Granted
    <3>3. QED
      BY <2>1, <3>1, <3>2, Zenon
  <2>4. owed = {}
    BY <1>3, <2>3, Zenon
  <2>5. Cardinality(owed) = 0
    BY <2>4, FS_EmptySet, Zenon
  <2> HIDE DEF owed, left
  <2>6. Cardinality(owed) <= Cardinality(left)
    BY <1>4, <2>5
  <2>7. QED
    BY <2>6, Zenon DEF owed, left
<1>10. ASSUME NEW c \in SocketIds, SessionStep(c)
       PROVE  \A d \in SocketIds : d \in owed => d \in owing \/ (d = c /\ ForwardOpen(c))
  <2>1. \A d \in SocketIds : d # c => sockets'[d] = sockets[d]
    BY <1>10, SessionMoves, Zenon DEF Moves
  <2>2. QED
    BY <1>1, <2>1, OwingBefore, Zenon
<1>11. ASSUME NEW c \in SocketIds, ForwardOpen(c)
       PROVE  Cardinality(owed) <= Cardinality(left)
  <2>1. \A d \in SocketIds : d \in owed => d \in owing \/ d = c
    BY <1>10, <1>11, Zenon DEF SessionStep
  <2>2. CASE sockets[c].owner = t /\ n = Head(sockets[c].requests).serial
    <3>1. Cardinality(owed) <= Cardinality(owing) + 1
      <4>1. owed \subseteq owing \cup {c}
        BY <1>3, <2>1, Zenon
      <4>2. IsFiniteSet(owing \cup {c}) /\ owing \subseteq owing \cup {c}
        BY <1>3, FS_AddElement, Zenon
      <4>3. Cardinality(owed) <= Cardinality(owing \cup {c})
        BY <4>1, <4>2, Part, Zenon
      <4>4. /\ Cardinality(owing \cup {c}) <= Cardinality(owing) + 1
            /\ Cardinality(owing \cup {c}) \in Nat
        BY <4>2, Part, FS_CardinalityType, Zenon
      <4> HIDE DEF owing, owed
      <4>5. QED
        BY <1>3, <4>3, <4>4
    <3>2. Cardinality(entries) + 1 <= Cardinality(left)
      <4>1. /\ connections' = connections \cup {NewEntry(c)}
            /\ NewEntry(c).vendor = Vendor[t] /\ NewEntry(c).serial = n
            /\ NewEntry(c).id = next_connection_id + 1
            /\ \A k \in connections : k.id # next_connection_id + 1
        BY <1>1, <1>11, <2>2, OpensEntry, Zenon
      <4>2. entries \subseteq left /\ NewEntry(c) \in left /\ NewEntry(c) \notin entries
        BY <4>1, Zenon DEF EntriesOf
      <4>3. QED
        BY <1>4, <4>2, Part, Zenon
    <3> HIDE DEF owing, owed, entries, left
    <3>3. QED
      BY <1>3, <1>4, <1>5, <3>1, <3>2
  <2>3. CASE ~(sockets[c].owner = t /\ n = Head(sockets[c].requests).serial)
    <3>1. owed \subseteq owing
      <4>1. c \in owed => c \in owing
        BY <1>1, <1>11, <2>3, OwingOpened, Zenon
      <4>2. QED
        BY <1>3, <2>1, <4>1, Zenon
    <3>2. left = entries
      BY <1>1, <1>11, <2>3, OthersEntries, Zenon
    <3>3. QED
      BY <1>6, <3>1, <3>2, Zenon
  <2>4. QED
    BY <2>2, <2>3, Zenon
<1>12. ASSUME NEW c \in SocketIds, ForwardClose(c)
       PROVE  Cardinality(owed) <= Cardinality(left)
  <2>1. owed \subseteq owing
    <3>1. ~ForwardOpen(c)
      <4>1. "open" # "close"
        BY Zenon
      <4>2. QED
        BY <1>12, <4>1, Zenon DEF ForwardOpen, ForwardClose, Takes
    <3>2. QED
      BY <1>3, <1>10, <1>12, <3>1, Zenon DEF SessionStep
  <2>2. CASE sockets[c].owner = t /\ n = Head(sockets[c].requests).serial
    <3>1. c \in owing /\ c \notin owed
      BY <1>1, <1>12, <2>2, OwingClosed, Zenon
    <3>2. Cardinality(owed) + 1 <= Cardinality(owing)
      BY <1>3, <2>1, <3>1, Part, Zenon
    <3>3. Cardinality(entries) <= Cardinality(left) + 1
      <4>1. /\ connections' \subseteq connections
            /\ \A k, l \in connections :
                 k \notin connections' /\ l \notin connections' => k = l
        BY <1>1, <1>12, ClosesEntry, Zenon
      <4>2. left \subseteq entries
        BY <4>1, Zenon DEF EntriesOf
      <4>3. \A k, l \in entries : k \notin left /\ l \notin left => k = l
        BY <4>1, Zenon DEF EntriesOf
      <4>4. \E k : entries \subseteq left \cup {k}
        BY <4>3, Zenon
      <4>5. QED
        BY <1>4, <4>2, <4>4, Part, Zenon
    <3> HIDE DEF owing, owed, entries, left
    <3>4. QED
      BY <1>3, <1>4, <1>5, <3>2, <3>3
  <2>3. CASE ~(sockets[c].owner = t /\ n = Head(sockets[c].requests).serial)
    <3>1. left = entries
      BY <1>1, <1>12, <2>3, OthersEntries, Zenon
    <3>2. QED
      BY <1>6, <2>1, <3>1, Zenon
  <2>4. QED
    BY <2>2, <2>3, Zenon
<1>13. QED
  BY <1>8, <1>9, <1>11, <1>12, TableMoves, Zenon


LEMMA SameClose ==
  ASSUME NEW a, NEW b, NEW kinds, Asks(a, b, kinds), "close" \notin kinds,
         b.thread = a.thread, NEW n, CloseAsked(b, n)
  PROVE  CloseAsked(a, n)
BY Zenon DEF Asks, CloseAsked

\* What is left to show of a transport that changes its TCP connection.
LEMMA OwingElsewhere ==
  ASSUME NEW t \in Transports, NEW c \in SocketIds, Effect(t, c), NEW n,
         c \in Owing(t, n)' => c \in Owing(t, n)
  PROVE  Owing(t, n)' \subseteq Owing(t, n)
<1>1. /\ \A d \in SocketIds \ {c} : sockets'[d] = sockets[d]
      /\ Phase(t)' # "idle" => Current(t)' = c
  BY Zenon DEF Effect
<1>2. ASSUME NEW d \in SocketIds, d \in Owing(t, n)', d # c
      PROVE  d \in Owing(t, n)
  <2>1. sockets'[d] = sockets[d] /\ ~(Phase(t)' \in {"opening", "connected"} /\ Current(t)' = d)
    BY <1>1, <1>2, Zenon
  <2>2. sockets[d].owner = t /\ CloseAsked(sockets[d], n)
    BY <1>2, <2>1, Zenon DEF Owing, Granted, CloseAsked
  <2>3. QED
    BY <2>2, Zenon DEF Owing
<1>3. Owing(t, n)' \subseteq SocketIds
  BY Zenon DEF Owing
<1>4. QED
  BY <1>2, <1>3, Zenon

LEMMA DialsOwing ==
  ASSUME LinkInv, NEW t \in Transports, ScannerMove(t), Dials(t), NEW n
  PROVE  Owing(t, n)' \subseteq Owing(t, n)
<1>1. t \in Users
  BY Zenon DEF Users
<1>2. PICK c \in SocketIds : c = Current(t)'
  BY Zenon DEF Dials
<1>3. /\ Phase(t)' = "registering"
      /\ \E b \in Socket : Becomes(c, b) /\ Len(b.requests) = 1
                             /\ b.requests[1].kind = "register"
  BY <1>2, Zenon DEF Dials
<1>4. PICK b \in Socket : Becomes(c, b) /\ Len(b.requests) = 1
                            /\ b.requests[1].kind = "register"
  BY <1>3, Zenon
<1>5. Effect(t, c)
  <2>1. PICK e \in SocketIds : Effect(t, e)
    BY <1>1, DialsEffect, Zenon DEF LinkInv, SocketsOK
  <2>2. "registering" # "idle"
    BY Zenon
  <2>3. QED
    BY <1>2, <1>3, <2>1, <2>2, Zenon DEF Effect
<1>6. sockets'[c] = b
  BY <1>4, Changed, Zenon DEF LinkInv, LinkTypeOK
<1>7. \A i \in 1 .. Len(b.requests) : b.requests[i].kind # "close"
  <2>1. \A i \in 1 .. Len(b.requests) : i = 1
    BY <1>4, SMT
  <2>2. "register" # "close"
    BY Zenon
  <2>3. QED
    BY <1>4, <2>1, <2>2, Zenon
<1>8. c \notin Owing(t, n)'
  BY <1>3, <1>6, <1>7, Zenon DEF Owing, CloseAsked, Granted
<1>9. QED
  BY <1>5, <1>8, OwingElsewhere, Zenon

LEMMA OpensOwing ==
  ASSUME LinkInv, StepInv, NEW t \in Transports, ScannerMove(t), Opens(t), NEW n
  PROVE  Owing(t, n)' \subseteq Owing(t, n)
<1>1. /\ t \in Users /\ ~Late(t) /\ Phase(t) = "registering" /\ Phase(t)' = "opening"
      /\ Current(t)' = Current(t) /\ sockets[Current(t)].replies # <<>>
  BY Zenon DEF Users, Late, Opens
<1>2. Owned(t) /\ InStep(t) /\ Lacks(sockets[Current(t)], "open")
  BY <1>1, Zenon DEF LinkInv, UsersOK, StepInv, ScannerInv
<1>3. PICK c \in SocketIds : c = Current(t)
  BY <1>1, <1>2, Zenon DEF Owned
<1> DEFINE a == sockets[c]
           b == sockets'[c]
<1>4. Effect(t, c) /\ \E m \in Request : m.kind = "open" /\ Appends(c, m, Tail(a.replies))
  BY <1>1, <1>2, <1>3, OpensEffect, Zenon DEF LinkInv, SocketsOK
<1>5. PICK m \in Request : m.kind = "open" /\ Appends(c, m, Tail(a.replies))
  BY <1>4, Zenon
<1>6. a \in Socket /\ a.requests \in Seq(Request)
  BY SocketFields, Zenon DEF LinkInv, LinkTypeOK
<1>7. /\ b.thread = a.thread /\ b.requests = Append(a.requests, m)
      /\ b.replies = Tail(a.replies)
  BY <1>5, Changed, Zenon DEF Appends, LinkInv, LinkTypeOK
<1>8. Tail(a.replies) = <<>> /\ ~Busy(a)
  BY <1>1, <1>2, <1>3, <1>6, ReplyAlone, Zenon DEF InStep
<1>9. ~Promised(b)
  <2>1. \A i \in 1 .. Len(<<>>) : FALSE
    BY SMT
  <2>2. QED
    BY <1>7, <1>8, <2>1, Zenon DEF Promised, Busy
<1>10. CloseAsked(b, n) => CloseAsked(a, n)
  <2>1. Asks(a, b, {"open"})
    BY <1>5, <1>6, <1>7, AppendAsks, Zenon
  <2>2. QED
    BY <1>7, <2>1, SameClose, Zenon
<1>11. ASSUME c \in Owing(t, n)' PROVE c \in Owing(t, n)
  <2>1. /\ b.owner = t
        /\ CloseAsked(b, n) \/ (Phase(t)' = "connected") \/ Promised(b)
    BY <1>11, Zenon DEF Owing, CloseAsked, Granted, Promised, Busy
  <2>2. a.owner = t
    BY <1>1, <1>2, <1>3, Zenon DEF Owned
  <2>3. QED
    BY <1>1, <1>9, <1>10, <2>1, <2>2, Zenon DEF Owing
<1>12. QED
  BY <1>4, <1>11, OwingElsewhere, Zenon

LEMMA ReadsOwing ==
  ASSUME LinkInv, NEW t \in Transports, ScannerMove(t), Reads(t), NEW n
  PROVE  Owing(t, n)' \subseteq Owing(t, n)
<1>1. /\ t \in Users /\ Phase(t) = "opening" /\ Current(t)' = Current(t)
      /\ sockets[Current(t)].replies # <<>> /\ SerialOf(t)' = SerialOf(t)
      /\ Head(sockets[Current(t)].replies).kind = "opened"
  BY Zenon DEF Users, Reads
<1>2. Owned(t)
  BY <1>1, Zenon DEF LinkInv, UsersOK
<1>3. PICK c \in SocketIds : c = Current(t)
  BY <1>1, <1>2, Zenon DEF Owned
<1> DEFINE a == sockets[c]
           b == sockets'[c]
<1>4. Effect(t, c) /\ b.requests = a.requests /\ b.thread = a.thread
  BY <1>1, <1>2, <1>3, ReadsEffect, Zenon DEF LinkInv, SocketsOK
<1>5. Promised(a) /\ a.owner = t
  <2>1. a.replies \in Seq(Reply)
    BY SocketFields, Zenon DEF LinkInv, LinkTypeOK
  <2>2. 1 \in 1 .. Len(a.replies) /\ a.replies[1] = Head(a.replies)
    <3> DEFINE q == a.replies
    <3>1. q \in Seq(Reply) /\ q # <<>>
      BY <1>1, <1>3, <2>1, Zenon
    <3> HIDE DEF q
    <3>2. 1 \in 1 .. Len(q) /\ q[1] = Head(q)
      BY <3>1
    <3>3. QED
      BY <3>2, Zenon DEF q
  <2>3. QED
    BY <1>1, <1>2, <1>3, <2>2, Zenon DEF Promised, Owned
<1>6. ASSUME c \in Owing(t, n)' PROVE c \in Owing(t, n)
  <2>1. CloseAsked(b, n) \/ (SerialOf(t)' = n /\ b.thread # "ended")
    BY <1>6, Zenon DEF Owing, CloseAsked, Granted
  <2>2. CloseAsked(b, n) => CloseAsked(a, n)
    BY <1>4, Zenon DEF CloseAsked
  <2>3. QED
    BY <1>1, <1>3, <1>4, <1>5, <2>1, <2>2, Zenon DEF Owing, Granted
<1>7. QED
  BY <1>4, <1>6, OwingElsewhere, Zenon

LEMMA ClosesOwing ==
  ASSUME LinkInv, NEW t \in Transports, ScannerMove(t), Closes(t), NEW n
  PROVE  Owing(t, n)' \subseteq Owing(t, n)
<1>1. /\ t \in Users /\ Phase(t) = "connected" /\ Phase(t)' = "closing"
  BY Zenon DEF Users, Closes
<1>2. Owned(t)
  BY <1>1, Zenon DEF LinkInv, UsersOK
<1>3. PICK c \in SocketIds : c = Current(t)
  BY <1>1, <1>2, Zenon DEF Owned
<1> DEFINE a == sockets[c]
           b == sockets'[c]
<1>4. /\ Effect(t, c)
      /\ \E m \in Request : m.serial = SerialOf(t) /\ \E replies : Appends(c, m, replies)
  <2>1. /\ Effect(t, Current(t))
        /\ \E m \in Request :
             /\ m.serial = SerialOf(t)
             /\ \/ Appends(Current(t), m, sockets[Current(t)].replies)
                \/ Appends(Current(t), m, Tail(sockets[Current(t)].replies))
    BY <1>1, <1>2, ClosesEffect, Zenon DEF LinkInv, SocketsOK
  <2>2. QED
    BY <1>3, <2>1, Zenon
<1>5. PICK m \in Request : m.serial = SerialOf(t) /\ \E replies : Appends(c, m, replies)
  BY <1>4, Zenon
<1>6. a.requests \in Seq(Request) /\ a.owner = t
  BY <1>1, <1>2, <1>3, SocketFields, Zenon DEF LinkInv, LinkTypeOK, Owned
<1>7. b.thread = a.thread /\ b.requests = Append(a.requests, m)
  BY <1>5, Changed, Zenon DEF Appends, LinkInv, LinkTypeOK
<1>8. \A i \in 1 .. Len(b.requests) :
        (i \in 1 .. Len(a.requests) /\ b.requests[i] = a.requests[i]) \/ b.requests[i] = m
  BY <1>6, <1>7, RequestsAppended, Zenon
<1>9. ASSUME c \in Owing(t, n)' PROVE c \in Owing(t, n)
  <2>1. CloseAsked(b, n)
    BY <1>1, <1>9, Zenon DEF Owing, CloseAsked, Granted
  <2>2. a.thread # "ended" /\ (CloseAsked(a, n) \/ n = SerialOf(t))
    BY <1>5, <1>7, <1>8, <2>1, Zenon DEF CloseAsked
  <2>3. QED
    BY <1>1, <1>3, <1>6, <2>2, Zenon DEF Owing, Granted
<1>10. QED
  BY <1>4, <1>9, OwingElsewhere, Zenon

LEMMA GoesOwing ==
  ASSUME LinkInv, NEW t \in Transports, ScannerMove(t), Goes(t), NEW n
  PROVE  Owing(t, n)' \subseteq Owing(t, n)
<1>1. t \in Users /\ Phase(t) # "idle" /\ Phase(t)' = "idle"
  BY Zenon DEF Users, Goes
<1>2. Owned(t)
  BY <1>1, Zenon DEF LinkInv, UsersOK
<1>3. PICK c \in SocketIds : c = Current(t)
  BY <1>1, <1>2, Zenon DEF Owned
<1> DEFINE a == sockets[c]
           b == sockets'[c]
<1>4. Effect(t, c) /\ b.thread = a.thread /\ Asks(a, b, {"unregister"}) /\ a.owner = t
  BY <1>1, <1>2, <1>3, GoesEffect, Zenon DEF LinkInv, SocketsOK, Owned
<1>5. ASSUME c \in Owing(t, n)' PROVE c \in Owing(t, n)
  <2>1. CloseAsked(b, n)
    BY <1>1, <1>5, Zenon DEF Owing, CloseAsked, Granted
  <2>2. CloseAsked(a, n)
    <3>1. "close" \notin {"unregister"}
      BY Zenon
    <3>2. QED
      BY <1>4, <2>1, <3>1, SameClose, Zenon
  <2>3. QED
    BY <1>4, <2>2, Zenon DEF Owing
<1>6. QED
  BY <1>4, <1>5, OwingElsewhere, Zenon


LEMMA ScannerMatched ==
  ASSUME LinkInv, StepInv, NEW s \in Users, ScannerMove(s), NEW t \in Transports,
         IsFiniteSet(connections), ClosesMatched(t)
  PROVE  ClosesMatched(t)'
<1>1. t \in Users /\ connections' = connections
  BY TablesRest, Zenon DEF Users
<1>2. SUFFICES ASSUME NEW n \in Serials
               PROVE  Cardinality(Owing(t, n)') <= Cardinality(EntriesOf(t, n)')
  BY Zenon DEF ClosesMatched
<1>3. Owing(t, n)' \subseteq Owing(t, n)
  <2>1. CASE t # s
    <3>1. /\ Phase(t)' = Phase(t) /\ Current(t)' = Current(t) /\ SerialOf(t)' = SerialOf(t)
          /\ \A d \in SocketIds : sockets'[d].owner = t => sockets'[d] = sockets[d]
      BY <1>1, <2>1, OtherRests, Zenon
    <3>2. QED
      BY <3>1, Zenon DEF Owing, CloseAsked, Granted, Promised, Busy
  <2>2. CASE t = s /\ Rests(s)
    <3>1. sockets' = sockets /\ State(t)' = State(t)
      BY <2>2, Zenon DEF Rests
    <3>2. Phase(t)' = Phase(t) /\ Current(t)' = Current(t) /\ SerialOf(t)' = SerialOf(t)
      BY <3>1, Zenon DEF Phase, Current, SerialOf
    <3>3. QED
      BY <3>1, <3>2, Zenon DEF Owing, CloseAsked, Granted, Promised, Busy
  <2>3. CASE t = s /\ ~Rests(s)
    BY <2>3, DialsOwing, OpensOwing, ReadsOwing, ClosesOwing, GoesOwing, Zenon DEF ScannerMove
  <2>4. QED
    BY <2>1, <2>2, <2>3, Zenon
<1>4. Cardinality(Owing(t, n)') <= Cardinality(Owing(t, n))
  <2>1. Owing(t, n) \in SUBSET SocketIds
    BY Zenon DEF Owing
  <2>2. QED
    BY <1>3, <2>1, SocketSets, Part, Zenon
<1>5. Cardinality(Owing(t, n)) <= Cardinality(EntriesOf(t, n))
  BY Zenon DEF ClosesMatched
<1>6. EntriesOf(t, n)' = EntriesOf(t, n)
  BY <1>1, Zenon DEF EntriesOf
<1>7. /\ Cardinality(Owing(t, n)) \in Nat /\ Cardinality(Owing(t, n)') \in Nat
      /\ Cardinality(EntriesOf(t, n)) \in Nat
  <2>1. Owing(t, n) \in SUBSET SocketIds /\ Owing(t, n)' \in SUBSET SocketIds
    BY Zenon DEF Owing
  <2>2. EntriesOf(t, n) \subseteq connections
    BY Zenon DEF EntriesOf
  <2>3. QED
    BY <2>1, <2>2, SocketSets, Part, Zenon
<1> DEFINE p == Cardinality(Owing(t, n)')
           q == Cardinality(EntriesOf(t, n)')
<1>8. q = Cardinality(EntriesOf(t, n))
  BY <1>6, Zenon
<1>9. p \in Nat /\ p <= Cardinality(Owing(t, n))
  BY <1>4, <1>7, Zenon
<1> HIDE DEF p, q
<1>10. p <= q
  BY <1>5, <1>7, <1>8, <1>9
<1>11. QED
  BY <1>10, Zenon DEF p, q

----------------------------------------------------------------------------
(* What a scanner has in the table, or may still be given.                 *)

\* An answer stays, and comes of what was handled.
LEMMA AnsweredMoves ==
  ASSUME NEW a \in Socket, NEW b, Move(a, b), a.peer = "here"
  PROVE  /\ Answered(a) => Answered(b)
         /\ ~Answered(a) /\ Answered(b) =>
              /\ a.thread = "reading" /\ a.requests # <<>>
              /\ Serves(a, b) \/ Handles(a, b)
<1>1. a.replies \in Seq(Reply) /\ a.reply \in Reply
  BY SocketFields, Zenon
<1>2. \A m \in Reply : Append(a.replies, m) # <<>>
  <2> DEFINE q == a.replies
  <2>1. q \in Seq(Reply)
    BY <1>1, Zenon
  <2> HIDE DEF q
  <2>2. ASSUME NEW m \in Reply PROVE Append(q, m) # <<>>
    <3>1. Len(Append(q, m)) = Len(q) + 1 /\ Len(q) \in Nat
      BY <2>1
    <3>2. Len(<<>>) = 0
      OBVIOUS
    <3>3. Len(Append(q, m)) # Len(<<>>)
      BY <3>1, <3>2
    <3>4. QED
      BY <3>3, Zenon
  <2>3. QED
    BY <2>2, Zenon DEF q
<1>3. CASE b = a
  BY <1>3, Zenon
<1>4. CASE Starts(a, b) \/ Ends(a, b)
  BY <1>4, Zenon DEF Starts, Ends, Answered, Busy
<1>5. CASE Serves(a, b)
  BY <1>2, <1>5, Zenon DEF Serves, Answered, Busy
<1>6. CASE Handles(a, b)
  BY <1>6, Zenon DEF Handles, Answered, Busy
<1>7. CASE GoesOn(a, b)
  BY <1>7, Zenon DEF GoesOn, Answered, Busy
<1>8. CASE Answers(a, b)
  BY <1>1, <1>2, <1>8, Zenon DEF Answers, Answered, Busy
<1>9. QED
  BY <1>3, <1>4, <1>5, <1>6, <1>7, <1>8, Zenon DEF Move

\* The answer of a Forward Close comes of its having been handled.
LEMMA CloseIsHandled ==
  ASSUME LinkInv, RecordsInv, ServerStep, UNCHANGED <<transport, originator>>,
         NEW s \in Users, Holding(s), ~Holding(s)'
  PROVE  /\ Phase(s) = "closing" /\ ~Late(s)
         /\ Current(s) \in SocketIds /\ ForwardClose(Current(s))
         /\ Head(sockets[Current(s)].requests).serial = SerialOf(s)
<1>1. /\ Phase(s)' = Phase(s) /\ Current(s)' = Current(s) /\ (Late(s)' <=> Late(s))
  BY Zenon DEF Phase, Current, Late, State
<1>2. /\ Phase(s) = "closing" /\ ~Late(s) /\ ~Answered(sockets[Current(s)])
      /\ Answered(sockets'[Current(s)])
  BY <1>1, Zenon DEF Holding, Answered, Busy
<1>3. Owned(s) /\ AsksInPhase(s)
  BY Zenon DEF LinkInv, UsersOK, RecordsInv, UserKept
<1>4. PICK c \in SocketIds : c = Current(s)
  BY <1>2, <1>3, Zenon DEF Owned
<1> DEFINE a == sockets[c]
           b == sockets'[c]
<1>5. a \in Socket /\ Move(a, b) /\ a.peer = "here"
  BY <1>2, <1>3, <1>4, ServerLeaves, Zenon DEF Owned
<1>6. a.thread = "reading" /\ a.requests # <<>> /\ (Serves(a, b) \/ Handles(a, b))
  BY <1>2, <1>4, <1>5, AnsweredMoves, Zenon
<1>7. 1 \in 1 .. Len(a.requests) /\ a.requests[1] = Head(a.requests)
  <2> DEFINE q == a.requests
  <2>1. q \in Seq(Request) /\ q # <<>>
    BY <1>5, <1>6, SocketFields, Zenon
  <2> HIDE DEF q
  <2>2. 1 \in 1 .. Len(q) /\ q[1] = Head(q)
    BY <2>1
  <2>3. QED
    BY <2>2, Zenon DEF q
<1>8. /\ Head(a.requests).kind = "close" /\ Head(a.requests).serial = SerialOf(s)
      /\ Head(a.requests).session = a.handle /\ a.handle # 0
  <2>1. "closing" \notin {"idle", "registering", "opening"} /\ "close" # "register"
    BY Zenon
  <2>2. /\ Wanted(Phase(s), State(s).session, SerialOf(s), a.requests[1])
        /\ State(s).session = a.handle /\ State(s).session # 0
    BY <1>2, <1>3, <1>4, <1>7, <2>1, Zenon DEF AsksInPhase
  <2>3. QED
    BY <1>2, <1>7, <2>1, <2>2, Zenon DEF Wanted
<1>9. ForwardClose(c)
  <2>1. a.handle \in sessions
    BY <1>5, <1>6, <1>8, Zenon DEF RecordsInv, SocketKept, SessionKept, InService
  <2>2. ~RefuseSession(c)
    BY <1>8, <2>1, Zenon DEF RefuseSession
  <2>3. "close" \notin {"register", "unregister", "open"}
    BY Zenon
  <2>4. ~RegisterSession(c) /\ ~UnregisterSession(c) /\ ~ForwardOpen(c)
          /\ ~RefuseForwardOpen(c)
    BY <1>8, <2>3, Zenon DEF RegisterSession, UnregisterSession, ForwardOpen,
       RefuseForwardOpen, Takes
  <2>5. QED
    BY <1>6, <2>2, <2>4, StepTakes, Zenon
<1>10. QED
  BY <1>2, <1>4, <1>8, <1>9, Zenon


\* A run of the tool whose close finds nothing: what is still asked for was
\* asked for by runs before it, which were not clean.
LEMMA OpeningAreDebts ==
  ASSUME LinkInv, RecordsInv, NEW s \in Users, Phase(s) = "closing", ~Late(s)
  PROVE  Opening(s) \subseteq Debts(s)
<1>1. AsksInPhase(s) /\ \A c \in SocketIds : PeerIsThere(c) /\ SocketOK(sockets[c])
  BY Zenon DEF RecordsInv, UserKept, SocketKept, LinkInv, SocketsOK
<1>2. ASSUME NEW c \in SocketIds, sockets[c].owner = s, Asked(sockets[c], "open")
      PROVE  c \in Debts(s)
  <2>1. sockets[c].thread # "unused"
    <3>1. Lacks(sockets[c], "open") \/ sockets[c].requests # <<>>
      BY NoneLeft, Zenon
    <3>2. QED
      BY <1>1, <1>2, <3>1, Zenon DEF Asked, SocketOK
  <2>2. sockets[c].peer # "here"
    <3>1. ASSUME sockets[c].peer = "here" PROVE FALSE
      <4>1. "closing" \notin {"idle", "registering", "opening"} /\ "close" # "open"
        BY Zenon
      <4>2. Current(s) = c
        BY <1>1, <1>2, <2>1, <3>1, Zenon DEF PeerIsThere
      <4>3. Lacks(sockets[c], "open")
        BY <1>1, <4>1, <4>2, Zenon DEF AsksInPhase, Wanted, Lacks
      <4>4. QED
        BY <1>2, <4>3, Zenon DEF Asked
    <3>2. QED
      BY <3>1, Zenon
  <2>3. QED
    BY <1>2, <2>1, <2>2, Zenon DEF Debts, Debt
<1>3. QED
  BY <1>2, Zenon DEF Opening

LEMMA OpeningShrinks ==
  ASSUME LinkInv, ServerStep, NEW s
  PROVE  Opening(s)' \subseteq Opening(s)
<1>1. \A c \in SocketIds : sockets'[c].owner = sockets[c].owner
  BY ServerLeaves, Zenon
<1>2. \A c \in SocketIds : Asked(sockets'[c], "open") => Asked(sockets[c], "open")
  BY ServerAsked, Zenon
<1>3. QED
  BY <1>1, <1>2, Zenon DEF Opening, Asked, Lacks

\* A Forward Open that is handled is no longer asked for.
LEMMA OpeningHandled ==
  ASSUME LinkInv, ServerStep, NEW c \in SocketIds, ForwardOpen(c)
  PROVE  /\ c \in Opening(sockets[c].owner)
         /\ \A s : s = sockets[c].owner => c \notin Opening(s)'
<1> DEFINE a == sockets[c]
           b == sockets'[c]
<1>1. /\ a.thread = "reading" /\ ~Lacks(a, "open") /\ a.requests \in Seq(Request)
      /\ a.requests # <<>> /\ a.requests[1].kind = "open" /\ OpensOnce(a)
  BY HeadOf, Zenon DEF ForwardOpen, SocketOK
<1>2. c \in Opening(a.owner)
  BY <1>1, Zenon DEF Opening, Asked
<1>3. b.requests = Tail(a.requests)
  <2>1. sockets \in [SocketIds -> Socket] /\ next_connection_id' \in Ids
    BY OpenAllowed, Zenon DEF LinkInv, LinkTypeOK, ForwardOpen
  <2>2. Handles(a, b)
    BY <2>1, HandledMoves, Zenon DEF ForwardOpen
  <2>3. QED
    BY <2>2, Zenon DEF Handles
<1>4. Lacks(b, "open")
  BY <1>1, <1>3, OneTaken, Zenon
<1>5. \A s : c \notin Opening(s)'
  BY <1>4, Zenon DEF Opening, Asked, Lacks
<1>6. QED
  BY <1>2, <1>5, Zenon

LEMMA ServerEntries ==
  ASSUME LinkInv, Cast, RecordsInv, CountsInv, ServerStep,
         UNCHANGED <<transport, originator, abandoned>>, NEW s \in Users
  PROVE  EntriesBounded(s)'
<1>1. /\ s \in Scanners /\ ConnectionsApart /\ UNCHANGED <<transport, originator>>
      /\ EntriesBounded(s) /\ DebtsBounded(s) /\ IsFiniteSet(connections)
      /\ \A t \in Transports : ClosesMatched(t)
  BY Kinds, Zenon DEF RecordsInv, CountsInv
<1> DEFINE e == Cardinality(Entries(s))
           o == Cardinality(Opening(s))
           h == IF Holding(s) THEN 1 ELSE 0
           e1 == Cardinality(Entries(s)')
           o1 == Cardinality(Opening(s)')
           h1 == IF Holding(s)' THEN 1 ELSE 0
           n == abandoned[s]
<1>2. /\ Opening(s) \in SUBSET SocketIds /\ Opening(s)' \in SUBSET SocketIds
      /\ Opening(s)' \subseteq Opening(s)
  BY OpeningShrinks, Zenon DEF Opening
<1>3. /\ Entries(s) \subseteq connections /\ Entries(s)' \subseteq connections'
      /\ IsFiniteSet(connections')
  BY <1>1, ServerFinite, Zenon DEF Entries
<1>4. /\ e \in Nat /\ o \in Nat /\ e1 \in Nat /\ o1 \in Nat /\ n \in Nat
      /\ o1 <= o
      /\ IsFiniteSet(Entries(s)) /\ IsFiniteSet(Entries(s)') /\ IsFiniteSet(Opening(s))
  BY <1>1, <1>2, <1>3, SocketSets, Part, Zenon DEF LinkInv, LinkTypeOK
<1>5. e + o <= n + h
  BY <1>1, Zenon DEF EntriesBounded
<1>6. h \in {0, 1} /\ h1 \in {0, 1}
  BY Zenon
<1>7. SUFFICES e1 + o1 <= n + h1
  <2>1. abandoned'[s] = abandoned[s]
    BY Zenon
  <2>2. QED
    BY <2>1, Zenon DEF EntriesBounded
<1>8. ASSUME NEW c \in SocketIds, ForwardClose(c)
      PROVE  /\ Entries(s)' \subseteq Entries(s)
             /\ sockets[c].owner = s /\ Matching(c) # {} => e1 + 1 <= e
  <2>1. /\ connections' \subseteq connections /\ Matching(c) \subseteq connections
        /\ Matching(c) # {} => \E k \in Matching(c) : k \notin connections'
    BY <1>1, <1>8, ClosesEntry, Zenon
  <2>2. Entries(s)' \subseteq Entries(s)
    BY <2>1, Zenon DEF Entries
  <2>3. ASSUME sockets[c].owner = s, Matching(c) # {}
        PROVE  e1 + 1 <= e
    <3>1. \E k \in Entries(s) : k \notin Entries(s)'
      BY <2>1, <2>3, Zenon DEF Entries, Matching
    <3>2. QED
      BY <1>4, <2>2, <3>1, Part, Zenon
  <2>4. QED
    BY <2>2, <2>3, Zenon
<1>9. ASSUME Entries(s)' \subseteq Entries(s) PROVE e1 <= e
  BY <1>4, <1>9, Part, Zenon
<1>10. CASE Holding(s) => Holding(s)'
  <2>1. h <= h1
    <3>1. h = 0 \/ h1 = 1
      BY <1>10, Zenon
    <3> HIDE DEF h, h1
    <3>2. QED
      BY <1>6, <3>1
  <2>2. CASE connections' = connections \/ connections' = {}
    <3>1. e1 <= e
      BY <1>9, <2>2, Zenon DEF Entries
    <3> HIDE DEF e, o, h, e1, o1, h1, n
    <3>2. QED
      BY <1>4, <1>5, <1>6, <2>1, <3>1
  <2>3. ASSUME NEW c \in SocketIds, ForwardClose(c) PROVE e1 + o1 <= n + h1
    <3>1. e1 <= e
      BY <1>8, <1>9, <2>3, Zenon
    <3> HIDE DEF e, o, h, e1, o1, h1, n
    <3>2. QED
      BY <1>4, <1>5, <1>6, <2>1, <3>1
  <2>4. ASSUME NEW c \in SocketIds, ForwardOpen(c), sockets[c].owner = s
        PROVE  e1 + o1 <= n + h1
    <3>1. c \in Opening(s) /\ c \notin Opening(s)'
      BY <2>4, OpeningHandled, Zenon
    <3>2. o1 + 1 <= o
      BY <1>2, <1>4, <3>1, Part, Zenon
    <3>3. connections' = connections \cup {NewEntry(c)}
      BY <1>1, <2>4, OpensEntry, Zenon
    <3>4. e1 <= e + 1
      <4>1. Entries(s)' \subseteq Entries(s) \cup {NewEntry(c)}
        BY <3>3, Zenon DEF Entries
      <4>2. Entries(s) \subseteq Entries(s)'
        BY <3>3, Zenon DEF Entries
      <4>3. QED
        BY <1>4, <4>1, <4>2, Part, Zenon
    <3> HIDE DEF e, o, h, e1, o1, h1, n
    <3>5. QED
      BY <1>4, <1>5, <1>6, <2>1, <3>2, <3>4
  <2>5. ASSUME NEW c \in SocketIds, ForwardOpen(c), sockets[c].owner # s
        PROVE  e1 + o1 <= n + h1
    <3>1. Entries(s)' = Entries(s)
      BY <1>1, <2>5, OthersEntries, Zenon
    <3>2. e1 <= e
      BY <1>9, <3>1, Zenon
    <3> HIDE DEF e, o, h, e1, o1, h1, n
    <3>3. QED
      BY <1>4, <1>5, <1>6, <2>1, <3>2
  <2>6. QED
    BY <2>2, <2>3, <2>4, <2>5, TableMoves, Zenon
<1>11. CASE Holding(s) /\ ~Holding(s)'
  <2>1. /\ Phase(s) = "closing" /\ ~Late(s) /\ Current(s) \in SocketIds
        /\ ForwardClose(Current(s))
        /\ Head(sockets[Current(s)].requests).serial = SerialOf(s)
    BY <1>1, <1>11, CloseIsHandled, Zenon
  <2>2. PICK c \in SocketIds : c = Current(s)
    BY <2>1, Zenon
  <2>3. /\ ForwardClose(c) /\ Head(sockets[c].requests).serial = SerialOf(s)
        /\ sockets[c].owner = s
    BY <2>1, <2>2, Zenon DEF LinkInv, UsersOK, Owned
  <2>4. h = 1 /\ h1 = 0
    BY <1>11, Zenon
  <2>5. CASE Matching(c) # {}
    <3>1. e1 + 1 <= e
      BY <1>8, <2>3, <2>5, Zenon
    <3> HIDE DEF e, o, h, e1, o1, h1, n
    <3>2. QED
      BY <1>4, <1>5, <2>4, <3>1
  <2>6. CASE Matching(c) = {}
    <3>1. EntriesOf(s, SerialOf(s)) = {}
      BY <2>3, <2>6, Zenon DEF EntriesOf, Matching
    <3>2. s \notin Transports
      <4>1. ASSUME s \in Transports PROVE FALSE
        <5>1. SerialOf(s) \in Serials /\ c \in Owing(s, SerialOf(s))
          <6>1. TransportOK(transport[s]) /\ SerialOf(s) = transport[s].serial
            BY <4>1, Zenon DEF LinkInv, TransportsOK, SerialOf, State
          <6>2. transport[s].phase = "closing"
            BY <2>1, <4>1, Zenon DEF Phase, State
          <6>3. c \in Owing(s, SerialOf(s))
            BY <1>1, <2>3, <4>1, OwingTaken, Zenon
          <6>4. QED
            BY <6>1, <6>2, <6>3, Zenon DEF TransportOK
        <5>2. Cardinality(Owing(s, SerialOf(s))) <= Cardinality(EntriesOf(s, SerialOf(s)))
          BY <1>1, <4>1, <5>1, Zenon DEF ClosesMatched
        <5>3. Cardinality(EntriesOf(s, SerialOf(s))) = 0
          BY <3>1, FS_EmptySet, Zenon
        <5>4. /\ {} \subseteq Owing(s, SerialOf(s)) /\ IsFiniteSet(Owing(s, SerialOf(s)))
              /\ Cardinality({}) = 0
          <6>1. Owing(s, SerialOf(s)) \in SUBSET SocketIds
            BY Zenon DEF Owing
          <6>2. QED
            BY <6>1, SocketSets, FS_EmptySet, Zenon
        <5>5. 0 + 1 <= Cardinality(Owing(s, SerialOf(s)))
          BY <5>1, <5>4, Part, Zenon
        <5> DEFINE w == Cardinality(Owing(s, SerialOf(s)))
        <5>6. w \in Nat /\ w <= 0 /\ 0 + 1 <= w
          BY <5>2, <5>3, <5>4, <5>5, FS_CardinalityType, Zenon
        <5> HIDE DEF w
        <5>7. QED
          BY <5>6
      <4>2. QED
        BY <4>1, Zenon
    <3>3. e1 = 0
      <4>1. s \in Originators /\ SerialOf(s) = FirstSerial
        BY <3>2, Kinds, SerialOfRun, Zenon
      <4>2. Entries(s) = {}
        BY <1>1, <3>1, <4>1, Zenon DEF Entries, EntriesOf, ConnectionsApart
      <4>3. Entries(s)' = {}
        BY <1>8, <2>3, <4>2, Zenon
      <4>4. QED
        BY <4>3, FS_EmptySet, Zenon
    <3>4. o <= n
      <4>1. Opening(s) \subseteq Debts(s) /\ Debts(s) \in SUBSET SocketIds
        BY <2>1, OpeningAreDebts, Zenon DEF Debts
      <4>2. o <= Cardinality(Debts(s)) /\ Cardinality(Debts(s)) \in Nat
        BY <4>1, SocketSets, Part, Zenon
      <4>3. Cardinality(Debts(s)) <= n
        BY <1>1, Zenon DEF DebtsBounded
      <4> HIDE DEF o, n
      <4>4. QED
        BY <1>4, <4>2, <4>3
    <3> HIDE DEF e, o, h, e1, o1, h1, n
    <3>5. QED
      BY <1>4, <2>4, <3>3, <3>4
  <2>7. QED
    BY <2>5, <2>6, Zenon
<1>12. QED
  BY <1>10, <1>11, Zenon


\* What a step of a scanner may do to what is counted.
Grows(s) ==
  \/ /\ Opening(s)' \subseteq Opening(s) /\ (Holding(s) => Holding(s)')
     /\ abandoned'[s] = abandoned[s]
  \/ /\ \E c : Opening(s)' \subseteq Opening(s) \cup {c}
     /\ ~Holding(s) /\ Holding(s)' /\ abandoned'[s] = abandoned[s]
  \/ Opening(s)' \subseteq Opening(s) /\ abandoned'[s] = abandoned[s] + 1

LEMMA OpeningElsewhere ==
  ASSUME NEW s, NEW c \in SocketIds, Effect(s, c)
  PROVE  /\ Opening(s)' \subseteq Opening(s) \cup {c}
         /\ (c \in Opening(s)' => c \in Opening(s)) => Opening(s)' \subseteq Opening(s)
<1>1. \A d \in SocketIds \ {c} : sockets'[d] = sockets[d]
  BY Zenon DEF Effect
<1>2. \A d \in Opening(s)' : d \in Opening(s) \/ d = c
  BY <1>1, Zenon DEF Opening, Asked, Lacks
<1>3. QED
  BY <1>2, Zenon

LEMMA SameOpening ==
  ASSUME NEW s, NEW c \in SocketIds, sockets[c].owner = s,
         sockets'[c].thread = sockets[c].thread, NEW kinds, "open" \notin kinds,
         Asks(sockets[c], sockets'[c], kinds), c \in Opening(s)'
  PROVE  c \in Opening(s)
<1>1. sockets'[c].thread # "ended" /\ ~Lacks(sockets'[c], "open")
  BY Zenon DEF Opening, Asked, Lacks
<1>2. Lacks(sockets[c], "open") => Lacks(sockets'[c], "open")
  BY Zenon DEF Asks, Lacks
<1>3. QED
  BY <1>1, <1>2, Zenon DEF Opening, Asked

LEMMA DialsGrows ==
  ASSUME LinkInv, NEW s \in Users, ScannerMove(s), Dials(s)
  PROVE  Grows(s)
<1>1. /\ Phase(s) = "idle" /\ Phase(s)' = "registering" /\ abandoned'[s] = abandoned[s]
  BY Zenon DEF Dials
<1>2. PICK c \in SocketIds : Effect(s, c)
  BY DialsEffect, Zenon DEF LinkInv, SocketsOK
<1>3. Lacks(sockets'[c], "open")
  BY <1>1, <1>2, Zenon DEF Effect
<1>4. Opening(s)' \subseteq Opening(s)
  <2>1. c \notin Opening(s)'
    BY <1>3, Zenon DEF Opening, Asked, Lacks
  <2>2. QED
    BY <1>2, <2>1, OpeningElsewhere, Zenon
<1>5. ~Holding(s)
  BY <1>1, Zenon DEF Holding
<1>6. QED
  BY <1>1, <1>4, <1>5, Zenon DEF Grows

LEMMA OpensGrows ==
  ASSUME LinkInv, NEW s \in Users, ScannerMove(s), Opens(s)
  PROVE  Grows(s)
<1>1. /\ Phase(s) = "registering" /\ Phase(s)' = "opening" /\ abandoned'[s] = abandoned[s]
  BY Zenon DEF Opens
<1>2. Owned(s) /\ Lacks(sockets[Current(s)], "open")
  BY <1>1, Zenon DEF LinkInv, UsersOK
<1>3. Current(s) \in SocketIds /\ Effect(s, Current(s))
  BY <1>2, OpensEffect, Zenon DEF LinkInv, SocketsOK
<1>4. PICK c \in SocketIds : Effect(s, c)
  BY <1>3, Zenon
<1>5. Opening(s)' \subseteq Opening(s) \cup {c}
  BY <1>4, OpeningElsewhere, Zenon
<1>6. ~Holding(s) /\ Holding(s)'
  BY <1>1, Zenon DEF Holding
<1>7. QED
  BY <1>1, <1>5, <1>6, Zenon DEF Grows

LEMMA ReadsGrows ==
  ASSUME LinkInv, NEW s \in Users, ScannerMove(s), Reads(s)
  PROVE  Grows(s)
<1>1. /\ Phase(s) = "opening" /\ Phase(s)' \in {"connected", "listening"}
      /\ abandoned'[s] = abandoned[s]
  BY Zenon DEF Reads
<1>2. Owned(s)
  BY <1>1, Zenon DEF LinkInv, UsersOK
<1>3. PICK c \in SocketIds : c = Current(s)
  BY <1>1, <1>2, Zenon DEF Owned
<1>4. /\ Effect(s, c) /\ sockets'[c].requests = sockets[c].requests
      /\ sockets'[c].thread = sockets[c].thread /\ sockets[c].owner = s
  BY <1>1, <1>2, <1>3, ReadsEffect, Zenon DEF LinkInv, SocketsOK, Owned
<1>5. c \in Opening(s)' => c \in Opening(s)
  BY <1>4, Zenon DEF Opening, Asked, Lacks
<1>6. Opening(s)' \subseteq Opening(s)
  BY <1>4, <1>5, OpeningElsewhere, Zenon
<1>7. Holding(s)'
  BY <1>1, Zenon DEF Holding
<1>8. QED
  BY <1>1, <1>6, <1>7, Zenon DEF Grows

\* Who asks to close has no answer yet.
LEMMA ClosesGrows ==
  ASSUME LinkInv, StepInv, NEW s \in Users, ScannerMove(s), Closes(s)
  PROVE  Grows(s)
<1>1. /\ Phase(s) \notin {"idle", "closing"} /\ Phase(s)' = "closing"
      /\ abandoned'[s] = abandoned[s] /\ Current(s)' = Current(s)
  BY Zenon DEF Closes
<1>2. Owned(s) /\ ScannerInv(s)
  BY <1>1, Zenon DEF LinkInv, UsersOK, StepInv
<1>3. ~Late(s) /\ InStep(s)
  BY <1>1, <1>2, Zenon DEF ScannerInv
<1>4. PICK c \in SocketIds : c = Current(s)
  BY <1>1, <1>2, Zenon DEF Owned
<1> DEFINE a == sockets[c]
           b == sockets'[c]
<1>5. /\ Effect(s, Current(s))
      /\ \E m \in Request :
           /\ m.kind = "close"
           /\ \/ Late(s)' /\ Appends(Current(s), m, sockets[Current(s)].replies)
              \/ /\ Phase(s) \in {"connected", "listening"}
                 /\ Appends(Current(s), m, sockets[Current(s)].replies)
              \/ /\ sockets[Current(s)].replies # <<>>
                 /\ Appends(Current(s), m, Tail(sockets[Current(s)].replies))
  BY <1>2, ClosesEffect, Zenon DEF LinkInv, SocketsOK
<1>6. PICK m \in Request :
        /\ m.kind = "close"
        /\ \/ Late(s)' /\ Appends(c, m, a.replies)
           \/ Phase(s) \in {"connected", "listening"} /\ Appends(c, m, a.replies)
           \/ a.replies # <<>> /\ Appends(c, m, Tail(a.replies))
  BY <1>4, <1>5, Zenon
<1>7. a \in Socket /\ a.requests \in Seq(Request) /\ a.owner = s
  BY <1>1, <1>2, <1>4, SocketFields, Zenon DEF LinkInv, LinkTypeOK, Owned
<1>8. /\ b.thread = a.thread /\ b.requests = Append(a.requests, m)
      /\ \/ Late(s)'
         \/ Phase(s) \in {"connected", "listening"} /\ b.replies = a.replies
         \/ a.replies # <<>> /\ b.replies = Tail(a.replies)
  BY <1>6, Changed, Zenon DEF Appends, LinkInv, LinkTypeOK
<1>9. Opening(s)' \subseteq Opening(s)
  <2>1. Asks(a, b, {"close"}) /\ "open" \notin {"close"}
    BY <1>6, <1>7, <1>8, AppendAsks, ZenonT(60)
  <2>2. c \in Opening(s)' => c \in Opening(s)
    BY <1>7, <1>8, <2>1, SameOpening, Zenon
  <2>3. QED
    BY <1>4, <1>5, <2>2, OpeningElsewhere, Zenon
<1>10. ASSUME ~Late(s)' PROVE ~Answered(b)
  <2>1. Phase(s) \in {"connected", "listening"} => a.replies = <<>> /\ ~Busy(a)
    BY <1>1, <1>3, <1>4, Zenon DEF InStep, Quiet
  <2>2. a.replies # <<>> => Tail(a.replies) = <<>> /\ ~Busy(a)
    BY <1>1, <1>3, <1>4, <1>7, ReplyAlone, Zenon DEF InStep
  <2>3. QED
    BY <1>8, <1>10, <2>1, <2>2, Zenon DEF Answered, Busy
<1>11. Holding(s)'
  BY <1>1, <1>4, <1>10, Zenon DEF Holding, Answered, Busy
<1>12. QED
  BY <1>1, <1>9, <1>11, Zenon DEF Grows

\* Who leaves cleanly has the answer.
LEMMA GoesGrows ==
  ASSUME LinkInv, NEW s \in Users, ScannerMove(s), Goes(s)
  PROVE  Grows(s)
<1>1. Phase(s) # "idle" /\ Phase(s)' = "idle"
  BY Zenon DEF Goes
<1>2. Owned(s)
  BY <1>1, Zenon DEF LinkInv, UsersOK
<1>3. PICK c \in SocketIds : c = Current(s)
  BY <1>1, <1>2, Zenon DEF Owned
<1>4. /\ Effect(s, c) /\ sockets[c].owner = s
      /\ sockets'[c].thread = sockets[c].thread
      /\ Asks(sockets[c], sockets'[c], {"unregister"})
      /\ \/ abandoned'[s] = abandoned[s] + 1
         \/ /\ abandoned'[s] = abandoned[s] /\ Phase(s) = "closing"
            /\ sockets[c].replies # <<>> /\ ~Late(s)
  BY <1>1, <1>2, <1>3, GoesEffect, Zenon DEF LinkInv, SocketsOK, Owned
<1>5. Opening(s)' \subseteq Opening(s)
  <2>1. "open" \notin {"unregister"}
    BY Zenon
  <2>2. c \in Opening(s)' => c \in Opening(s)
    BY <1>4, <2>1, SameOpening, Zenon
  <2>3. QED
    BY <1>4, <2>2, OpeningElsewhere, Zenon
<1>6. Phase(s) = "closing" /\ sockets[c].replies # <<>> /\ ~Late(s) => ~Holding(s)
  BY <1>3, Zenon DEF Holding, Answered
<1>7. QED
  BY <1>4, <1>5, <1>6, Zenon DEF Grows

LEMMA RestsGrows ==
  ASSUME LinkInv, NEW s \in Users, ScannerMove(s), NEW u \in Users, u # s \/ Rests(s)
  PROVE  Grows(u)
<1>1. /\ Phase(u)' = Phase(u) /\ Current(u)' = Current(u) /\ (Late(u)' <=> Late(u))
      /\ abandoned'[u] = abandoned[u]
      /\ Phase(u) # "idle" => sockets'[Current(u)] = sockets[Current(u)]
      /\ \A d \in SocketIds : sockets'[d].owner = u => sockets'[d] = sockets[d]
  <2>1. CASE u # s
    BY <2>1, OtherRests, Zenon
  <2>2. CASE u = s /\ Rests(s)
    BY <2>2, Zenon DEF Rests, Phase, Current
  <2>3. QED
    BY <2>1, <2>2, Zenon
<1>2. Opening(u)' \subseteq Opening(u)
  BY <1>1, Zenon DEF Opening, Asked, Lacks
<1>3. Holding(u) => Holding(u)'
  BY <1>1, Zenon DEF Holding, Answered, Busy
<1>4. QED
  BY <1>1, <1>2, <1>3, Zenon DEF Grows

LEMMA ScannerEntries ==
  ASSUME LinkInv, StepInv, NEW s \in Users, ScannerMove(s), IsFiniteSet(connections),
         NEW u \in Users, EntriesBounded(u)
  PROVE  EntriesBounded(u)'
<1> DEFINE e == Cardinality(Entries(u))
           o == Cardinality(Opening(u))
           h == IF Holding(u) THEN 1 ELSE 0
           o1 == Cardinality(Opening(u)')
           h1 == IF Holding(u)' THEN 1 ELSE 0
           n == abandoned[u]
           n1 == abandoned'[u]
<1>1. Grows(u)
  <2>1. CASE u # s \/ Rests(s)
    BY <2>1, RestsGrows, Zenon
  <2>2. CASE u = s /\ ~Rests(s)
    BY <2>2, DialsGrows, OpensGrows, ReadsGrows, ClosesGrows, GoesGrows, Zenon DEF ScannerMove
  <2>3. QED
    BY <2>1, <2>2, Zenon
<1>2. Entries(u)' = Entries(u) /\ u \in Scanners
  BY TablesRest, Kinds, Zenon DEF Entries
<1>3. /\ Opening(u) \in SUBSET SocketIds /\ Opening(u)' \in SUBSET SocketIds
      /\ Entries(u) \subseteq connections
  BY Zenon DEF Opening, Entries
<1>4. /\ e \in Nat /\ o \in Nat /\ o1 \in Nat /\ n \in Nat
      /\ IsFiniteSet(Opening(u)) /\ IsFiniteSet(Opening(u)')
  BY <1>2, <1>3, SocketSets, Part, Zenon DEF LinkInv, LinkTypeOK
<1>5. e + o <= n + h /\ h \in {0, 1} /\ h1 \in {0, 1}
  BY Zenon DEF EntriesBounded
<1>6. SUFFICES e + o1 <= n1 + h1
  BY <1>2, Zenon DEF EntriesBounded
<1>7. ASSUME Opening(u)' \subseteq Opening(u) PROVE o1 <= o
  BY <1>4, <1>7, Part, Zenon
<1>8. CASE Opening(u)' \subseteq Opening(u) /\ (Holding(u) => Holding(u)') /\ n1 = n
  <2>1. o1 <= o /\ n1 = n /\ (h = 0 \/ h1 = 1)
    BY <1>7, <1>8, Zenon
  <2> HIDE DEF e, o, h, o1, h1, n, n1
  <2>2. QED
    BY <1>4, <1>5, <2>1
<1>9. ASSUME NEW c, Opening(u)' \subseteq Opening(u) \cup {c}, ~Holding(u), Holding(u)',
             n1 = n
      PROVE  e + o1 <= n1 + h1
  <2>1. o1 <= o + 1
    <3> DEFINE W == Opening(u) \cup {c}
    <3>1. IsFiniteSet(W) /\ Opening(u) \subseteq W
      BY <1>4, FS_AddElement, Zenon
    <3>2. Cardinality(W) \in Nat /\ Cardinality(W) <= o + 1
      BY <3>1, Part, Zenon
    <3>3. o1 <= Cardinality(W)
      BY <1>9, <3>1, Part, Zenon
    <3> HIDE DEF W, o, o1
    <3>4. QED
      BY <1>4, <3>2, <3>3
  <2>2. h = 0 /\ h1 = 1
    BY <1>9, Zenon
  <2>3. n1 = n
    BY <1>9, Zenon
  <2> HIDE DEF e, o, h, o1, h1, n, n1
  <2>4. QED
    BY <1>4, <1>5, <2>1, <2>2, <2>3
<1>10. CASE Opening(u)' \subseteq Opening(u) /\ n1 = n + 1
  <2>1. o1 <= o /\ n1 = n + 1
    BY <1>7, <1>10, Zenon
  <2> HIDE DEF e, o, h, o1, h1, n, n1
  <2>2. QED
    BY <1>4, <1>5, <2>1
<1>11. QED
  BY <1>1, <1>8, <1>9, <1>10, Zenon DEF Grows


LEMMA CountsNext ==
  ASSUME LinkInv, Cast, StepInv, RecordsInv, CountsInv, [NextLink]_linkVars
  PROVE  CountsInv'
<1>1. CASE ServerStep /\ UNCHANGED <<transport, originator, abandoned>>
  <2>1. UNCHANGED abandoned /\ ConnectionsApart
    BY <1>1, Zenon DEF RecordsInv
  <2>2. \A s \in Users : EntriesBounded(s)'
    BY <1>1, ServerEntries, Zenon
  <2>3. \A s \in Users : DebtsBounded(s)'
    BY <1>1, <2>1, ServerDebts, Zenon DEF CountsInv
  <2>4. \A t \in Transports : ClosesMatched(t)'
    BY <1>1, ServerMatched, Zenon DEF CountsInv
  <2>5. IsFiniteSet(connections)'
    BY <1>1, <2>1, ServerFinite, Zenon DEF CountsInv
  <2>6. QED
    BY <2>2, <2>3, <2>4, <2>5, Zenon DEF CountsInv
<1>2. ASSUME NEW s \in Users, ScannerMove(s) PROVE CountsInv'
  <2>1. \A u \in Users : EntriesBounded(u)'
    BY <1>2, ScannerEntries, Zenon DEF CountsInv
  <2>2. \A u \in Users : DebtsBounded(u)'
    BY <1>2, ScannerDebts, Zenon DEF CountsInv
  <2>3. \A t \in Transports : ClosesMatched(t)'
    BY <1>2, ScannerMatched, Zenon DEF CountsInv
  <2>4. IsFiniteSet(connections)'
    <3>1. connections' = connections
      BY <1>2, TablesRest, Zenon
    <3>2. QED
      BY <3>1, Zenon DEF CountsInv
  <2>5. QED
    BY <2>1, <2>2, <2>3, <2>4, Zenon DEF CountsInv
<1>3. ASSUME NEW t \in Transports, TransportStep(t), UNCHANGED originator
      PROVE  CountsInv'
  BY <1>2, <1>3, TransportTyped, Zenon DEF Users
<1>4. ASSUME NEW o \in Originators, OriginatorStep(o)
      PROVE  CountsInv'
  BY <1>2, <1>4, OriginatorTyped, Zenon DEF Users
<1>5. CASE UNCHANGED linkVars
  <2>1. UNCHANGED <<stage, sockets, sessions, connections, transport, originator, abandoned>>
    BY <1>5, Zenon DEF linkVars, serverVars, tables
  <2>2. ASSUME NEW s \in Users
        PROVE  /\ Phase(s)' = Phase(s) /\ Current(s)' = Current(s)
               /\ (Late(s)' <=> Late(s)) /\ SerialOf(s)' = SerialOf(s)
    BY <2>1, Zenon DEF Phase, Current, Late, SerialOf, State
  <2>3. ASSUME NEW s \in Users PROVE EntriesBounded(s)'
    <3>1. Entries(s)' = Entries(s) /\ Opening(s)' = Opening(s)
      BY <2>1, Zenon DEF Entries, Opening, Asked, Lacks
    <3>2. Holding(s)' <=> Holding(s)
      BY <2>1, <2>2, Zenon DEF Holding, Answered, Busy
    <3>3. EntriesBounded(s) /\ abandoned'[s] = abandoned[s]
      BY <2>1, Zenon DEF CountsInv
    <3>4. QED
      BY <3>1, <3>2, <3>3, Zenon DEF EntriesBounded
  <2>4. ASSUME NEW s \in Users PROVE DebtsBounded(s)'
    <3>1. \A d \in SocketIds : d \in Debts(s)' <=> d \in Debts(s)
      BY <2>1, SameDebt, Zenon
    <3>2. Debts(s) \subseteq SocketIds /\ Debts(s)' \subseteq SocketIds
      BY Zenon DEF Debts
    <3>3. Debts(s)' = Debts(s)
      BY <3>1, <3>2, Zenon
    <3>4. QED
      BY <2>1, <3>3, Zenon DEF CountsInv, DebtsBounded
  <2>5. ASSUME NEW t \in Transports PROVE ClosesMatched(t)'
    <3>1. \A n : Owing(t, n)' = Owing(t, n) /\ EntriesOf(t, n)' = EntriesOf(t, n)
      BY <2>1, <2>2, ZenonT(60) DEF Owing, EntriesOf, CloseAsked, Granted, Promised, Busy, Users
    <3>2. QED
      BY <3>1, Zenon DEF CountsInv, ClosesMatched
  <2>6. QED
    BY <2>1, <2>3, <2>4, <2>5, Zenon DEF CountsInv
<1>6. QED
  BY <1>1, <1>3, <1>4, <1>5, Zenon DEF NextLink

LEMMA CountsInit ==
  ASSUME InitLink
  PROVE  CountsInv
<1>1. /\ connections = {} /\ Cardinality({}) = 0 /\ IsFiniteSet({})
      /\ \A c \in SocketIds : sockets[c].thread = "unused" /\ sockets[c].requests = <<>>
  BY FS_EmptySet, Zenon DEF InitLink, InitServer, UnusedSocket
<1>2. \A c \in SocketIds : \A kind : Lacks(sockets[c], kind)
  BY <1>1, NoneLeft, Zenon
<1>3. ASSUME NEW s \in Users PROVE EntriesBounded(s) /\ DebtsBounded(s)
  <2>1. Phase(s) = "idle" /\ abandoned[s] = 0
    BY Kinds, Zenon DEF Phase, State, InitLink, InitTransport, InitOriginator, IdleRun
  <2>2. Entries(s) = {} /\ Opening(s) = {} /\ Debts(s) = {} /\ ~Holding(s)
    BY <1>1, <1>2, <2>1, Zenon DEF Entries, Opening, Debts, Debt, Asked, Holding
  <2>3. 0 + 0 <= 0 + 0 /\ 0 <= 0
    OBVIOUS
  <2>4. QED
    BY <1>1, <2>1, <2>2, <2>3, Zenon DEF EntriesBounded, DebtsBounded
<1>4. ASSUME NEW t \in Transports PROVE ClosesMatched(t)
  <2>1. Phase(t) = "idle"
    BY Zenon DEF Phase, State, InitLink, InitTransport
  <2>2. \A c \in SocketIds : \A i \in 1 .. Len(sockets[c].requests) :
          sockets[c].requests[i].kind # "close"
    BY <1>2, Zenon DEF Lacks
  <2>3. \A n : Owing(t, n) = {} /\ EntriesOf(t, n) = {}
    BY <1>1, <2>1, <2>2, Zenon DEF Owing, CloseAsked, Granted, EntriesOf
  <2>4. 0 <= 0
    OBVIOUS
  <2>5. QED
    BY <1>1, <2>3, <2>4, Zenon DEF ClosesMatched
<1>5. QED
  BY <1>1, <1>3, <1>4, Zenon DEF CountsInv

\* Every clean end gives back the session and closes the connection, every other
\* leaves one of each at most, whatever the order in which the server, the
\* transports and the runs of the tool take their steps.
THEOREM NothingIsLeft ==
  ASSUME Scanners # {}, Cast
  PROVE  LinkSpec => []NothingLeftBehind
<1> DEFINE Inv == LinkInv /\ StepInv /\ RecordsInv /\ CountsInv
<1>1. InitLink => Inv
  BY LinkInvInit, StepInit, RecordsInit, CountsInit, Zenon
<1>2. Inv /\ [NextLink]_linkVars => Inv'
  BY LinkInvNext, StepNext, RecordsNext, CountsNext, Zenon
<1>3. Inv => NothingLeftBehind
  <2>1. SUFFICES ASSUME Inv, NEW s \in Scanners
                 PROVE  /\ Cardinality(Entries(s)) <= (IF Active(s) THEN 1 ELSE 0) + abandoned[s]
                        /\ stage # "stopping" =>
                             Cardinality({c \in SocketIds :
                               /\ sockets[c].owner = s /\ sockets[c].thread = "ended"
                               /\ sockets[c].handle \in sessions}) <= abandoned[s]
    BY Zenon DEF NothingLeftBehind, Entries
  <2>2. /\ s \in Users /\ EntriesBounded(s) /\ DebtsBounded(s) /\ abandoned[s] \in Nat
        /\ IsFiniteSet(connections)
    BY <2>1, Zenon DEF Cast, CountsInv, LinkInv, LinkTypeOK
  <2> DEFINE e == Cardinality(Entries(s))
             o == Cardinality(Opening(s))
             h == IF Holding(s) THEN 1 ELSE 0
             r == IF Active(s) THEN 1 ELSE 0
             n == abandoned[s]
             left == {c \in SocketIds : /\ sockets[c].owner = s /\ sockets[c].thread = "ended"
                                        /\ sockets[c].handle \in sessions}
  <2>3. e \in Nat /\ o \in Nat
    <3>1. Entries(s) \subseteq connections /\ Opening(s) \in SUBSET SocketIds
      BY Zenon DEF Entries, Opening
    <3>2. QED
      BY <2>2, <3>1, Part, SocketSets, Zenon
  <2>4. e <= r + n
    <3>1. Holding(s) => Active(s)
      BY <2>2, Zenon DEF Holding, Active, Phase, State
    <3>2. h \in {0, 1} /\ r \in {0, 1} /\ (h = 0 \/ r = 1)
      BY <3>1, Zenon
    <3>3. e + o <= n + h
      BY <2>2, Zenon DEF EntriesBounded
    <3>4. n \in Nat
      BY <2>2, Zenon
    <3> HIDE DEF e, o, h, r, n
    <3>5. QED
      BY <2>3, <3>2, <3>3, <3>4
  <2>5. ASSUME stage # "stopping" PROVE Cardinality(left) <= n
    <3>1. ASSUME NEW c \in left PROVE c \in Debts(s)
      <4>1. sockets[c].owner = s /\ sockets[c].thread = "ended" /\ sockets[c].handle \in sessions
            /\ c \in SocketIds
        BY <3>1, Zenon
      <4>2. sockets[c].peer # "here"
        BY <2>1, <2>5, <4>1, Zenon DEF RecordsInv, SocketKept, SessionKept
      <4>3. QED
        BY <2>5, <4>1, <4>2, Zenon DEF Debts, Debt, GivenBack
    <3>2. Debts(s) \in SUBSET SocketIds
      BY Zenon DEF Debts
    <3>3. /\ Cardinality(left) <= Cardinality(Debts(s)) /\ Cardinality(left) \in Nat
          /\ Cardinality(Debts(s)) \in Nat
      <4>1. left \subseteq Debts(s)
        BY <3>1, Zenon
      <4>2. QED
        BY <3>2, <4>1, SocketSets, Part, Zenon
    <3>4. Cardinality(Debts(s)) <= n /\ n \in Nat
      BY <2>2, Zenon DEF DebtsBounded
    <3> HIDE DEF left, n
    <3>5. QED
      BY <3>3, <3>4
  <2>6. QED
    BY <2>4, <2>5, Zenon
<1>4. QED
  BY <1>1, <1>2, <1>3, PTL DEF LinkSpec

=============================================================================
