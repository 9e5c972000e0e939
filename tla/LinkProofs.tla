----------------------------- MODULE LinkProofs -----------------------------
(***************************************************************************)
(* Theorems about the server with its scanners, for any number of          *)
(* transports and of runs of the diagnostic tool, of TCP connections and   *)
(* of starts of the server.                                                *)
(*                                                                         *)
(* Section 1 says what a step does to one TCP connection and to one        *)
(* scanner. Section 2 proves the types, which count what the TCP           *)
(* connections can still ask for. Section 3 proves what stop and the       *)
(* shutdown of the listener leave. Section 4 holds the lemmas that         *)
(* LinkLeftProofs and LinkOrderProofs build on.                            *)
(***************************************************************************)
EXTENDS Link, SequenceTheorems, FiniteSetTheorems, TLAPS

----------------------------------------------------------------------------
(* 1. TCP connections and scanners.                                        *)

\* One TCP connection is changed, in this step.
Becomes(c, b) == sockets' = [sockets EXCEPT ![c] = b]

LEMMA Changed ==
  ASSUME sockets \in [SocketIds -> Socket], NEW c \in SocketIds, NEW b \in Socket,
         Becomes(c, b)
  PROVE  /\ sockets' \in [SocketIds -> Socket] /\ sockets'[c] = b
         /\ \A d \in SocketIds \ {c} : sockets'[d] = sockets[d]
BY Zenon DEF Becomes

LEMMA Appended ==
  ASSUME NEW S, NEW q \in Seq(S), NEW m \in S
  PROVE  /\ Append(q, m) \in Seq(S) /\ Len(Append(q, m)) = Len(q) + 1
         /\ \A i \in 1 .. Len(q) : Append(q, m)[i] = q[i]
         /\ Append(q, m)[Len(q) + 1] = m
OBVIOUS

LEMMA Headed ==
  ASSUME NEW S, NEW q \in Seq(S), q # <<>>
  PROVE  /\ Head(q) \in S /\ Tail(q) \in Seq(S) /\ Len(Tail(q)) = Len(q) - 1
         /\ Len(q) \in Nat /\ 1 <= Len(q) /\ q[1] = Head(q)
         /\ \A i \in 1 .. Len(Tail(q)) : Tail(q)[i] = q[i + 1]
OBVIOUS

\* The fields of a record of this kind, one replaced at a time.
LEMMA SocketFields ==
  ASSUME NEW a \in Socket
  PROVE  /\ a.owner \in Scanners /\ a.peer \in {"here", "closed", "gone"}
         /\ a.requests \in Seq(Request) /\ a.replies \in Seq(Reply)
         /\ a.thread \in ThreadStages /\ a.reply \in Reply /\ a.handle \in Ids
BY Zenon DEF Socket

\* What the server does to a TCP connection in a step.
Starts(a, b) ==
  /\ a.thread = "backlog" /\ b.thread = "reading"
  /\ b.requests = a.requests /\ b.replies = a.replies /\ b.handle = a.handle

Serves(a, b) ==
  /\ a.thread = "reading" /\ b.thread = "reading"
  /\ a.requests # <<>> /\ b.requests = Tail(a.requests)
  /\ \/ b.replies = a.replies
     \/ \E m \in Reply : m.kind # "opened" /\ b.replies = Append(a.replies, m)

Handles(a, b) ==
  /\ a.thread = "reading" /\ b.thread \in {"opened", "answered"}
  /\ a.requests # <<>> /\ b.requests = Tail(a.requests)
  /\ b.replies = a.replies /\ b.handle = a.handle

GoesOn(a, b) ==
  /\ a.thread \in {"opened", "answered"} /\ b.thread \in {"answered", "collected"}
  /\ b.requests = a.requests /\ b.replies = a.replies /\ b.handle = a.handle
  /\ b.reply.kind = a.reply.kind /\ b.reply.value = a.reply.value

Answers(a, b) ==
  /\ a.thread = "collected" /\ b.thread = "reading"
  /\ b.requests = a.requests /\ b.handle = a.handle
  /\ \/ b.replies = a.replies /\ a.peer # "here"
     \/ b.replies = Append(a.replies, a.reply)

Ends(a, b) ==
  /\ a.thread \in {"reading", "backlog"} /\ b.thread = "ended"
  /\ b.requests = <<>> /\ b.replies = a.replies /\ b.handle = a.handle

Move(a, b) ==
  \/ b = a
  \/ /\ b \in Socket /\ b.owner = a.owner /\ b.peer = a.peer
     /\ Starts(a, b) \/ Serves(a, b) \/ Handles(a, b) \/ GoesOn(a, b)
          \/ Answers(a, b) \/ Ends(a, b)

\* Only the TCP connection c moves.
Moves(c) ==
  /\ sockets' \in [SocketIds -> Socket]
  /\ Move(sockets[c], sockets'[c]) /\ sockets'[c] \in Socket
  /\ \A d \in SocketIds \ {c} : sockets'[d] = sockets[d]

LEMMA SentFields ==
  ASSUME NEW a \in Socket, NEW m \in Reply
  PROVE  /\ Sent(a, m) \in Socket
         /\ Sent(a, m).owner = a.owner /\ Sent(a, m).peer = a.peer
         /\ Sent(a, m).requests = a.requests /\ Sent(a, m).thread = a.thread
         /\ Sent(a, m).reply = a.reply /\ Sent(a, m).handle = a.handle
         /\ \/ Sent(a, m).replies = a.replies /\ a.peer # "here"
            \/ Sent(a, m).replies = Append(a.replies, m)
<1> DEFINE q == IF a.peer = "here" THEN Append(a.replies, m) ELSE a.replies
<1>1. /\ q \in Seq(Reply)
      /\ \/ q = a.replies /\ a.peer # "here"
         \/ q = Append(a.replies, m)
  BY SocketFields, Appended, Zenon
<1>2. Sent(a, m) = [a EXCEPT !.replies = q]
  BY Zenon DEF Sent
<1> HIDE DEF q
<1>3. /\ Sent(a, m) \in Socket /\ Sent(a, m).replies = q
      /\ Sent(a, m).owner = a.owner /\ Sent(a, m).peer = a.peer
      /\ Sent(a, m).requests = a.requests /\ Sent(a, m).thread = a.thread
      /\ Sent(a, m).reply = a.reply /\ Sent(a, m).handle = a.handle
  BY <1>1, <1>2, Zenon DEF Socket
<1>4. QED
  BY <1>1, <1>3, Zenon

LEMMA AcceptMoves ==
  ASSUME sockets \in [SocketIds -> Socket], NEW c \in SocketIds, Accept(c)
  PROVE  Moves(c)
<1> DEFINE b == [sockets[c] EXCEPT !.thread = "reading"]
<1>1. Becomes(c, b)
  BY Zenon DEF Accept, Becomes
<1>2. sockets[c] \in Socket /\ sockets[c].thread = "backlog"
  BY Zenon DEF Accept
<1>3. /\ b \in Socket /\ b.owner = sockets[c].owner /\ b.peer = sockets[c].peer
      /\ Starts(sockets[c], b)
  BY <1>2, Zenon DEF Socket, ThreadStages, Starts
<1> HIDE DEF b
<1>4. QED
  BY <1>1, <1>3, Changed, Zenon DEF Moves, Move

LEMMA TakesFields ==
  ASSUME sockets \in [SocketIds -> Socket], NEW c \in SocketIds, NEW kind, Takes(c, kind)
  PROVE  /\ sockets[c] \in Socket /\ sockets[c].thread = "reading"
         /\ sockets[c].requests # <<>>
         /\ Tail(sockets[c].requests) \in Seq(Request)
         /\ Head(sockets[c].requests) \in Request
         /\ sockets[c].requests[1].kind = kind
BY SocketFields, Headed, Zenon DEF Takes

LEMMA ReplyTyped ==
  ASSUME NEW kind \in {"registered", "opened", "refused", "closed", "invalid session"},
         NEW value \in Ids, NEW items \in Scanners \cup {NoItems}
  PROVE  LET m == [kind |-> kind, value |-> value, items |-> items]
         IN  m \in Reply /\ m.kind = kind /\ m.value = value
BY Zenon DEF Reply

LEMMA RegisterMoves ==
  ASSUME sockets \in [SocketIds -> Socket], NEW c \in SocketIds,
         next_session \in Ids, RegisterSession(c)
  PROVE  /\ Moves(c) /\ sockets'[c].handle = next_session
         /\ Serves(sockets[c], sockets'[c])
         /\ \/ sockets'[c].replies = sockets[c].replies
            \/ \E m \in Reply :
                 m.value = next_session /\ sockets'[c].replies = Append(sockets[c].replies, m)
<1> DEFINE a == sockets[c]
           t == [a EXCEPT !.requests = Tail(a.requests), !.handle = next_session]
           m == [kind |-> "registered", value |-> next_session, items |-> NoItems]
<1>1. Becomes(c, Sent(t, m))
  BY Zenon DEF RegisterSession, Becomes
<1>2. /\ a \in Socket /\ a.thread = "reading" /\ a.requests # <<>>
      /\ Tail(a.requests) \in Seq(Request)
  BY TakesFields, Zenon DEF RegisterSession
<1>3. m \in Reply /\ m.kind # "opened" /\ m.value = next_session
  BY ReplyTyped, Zenon
<1>4. /\ t \in Socket /\ t.owner = a.owner /\ t.peer = a.peer /\ t.thread = "reading"
      /\ t.requests = Tail(a.requests) /\ t.replies = a.replies /\ t.handle = next_session
  BY <1>2, Zenon DEF Socket
<1> HIDE DEF a, t, m
<1>5. /\ Sent(t, m) \in Socket /\ Sent(t, m).handle = next_session
      /\ Sent(t, m).owner = a.owner /\ Sent(t, m).peer = a.peer
      /\ Serves(a, Sent(t, m))
      /\ \/ Sent(t, m).replies = a.replies
         \/ m \in Reply /\ m.value = next_session /\ Sent(t, m).replies = Append(a.replies, m)
  <2> DEFINE b == Sent(t, m)
  <2>1. /\ b \in Socket /\ b.owner = t.owner /\ b.peer = t.peer /\ b.handle = t.handle
        /\ b.requests = t.requests /\ b.thread = t.thread
        /\ b.replies = t.replies \/ b.replies = Append(t.replies, m)
    BY <1>3, <1>4, SentFields, Zenon
  <2> HIDE DEF b
  <2>2. QED
    BY <1>2, <1>3, <1>4, <2>1, Zenon DEF Serves, b
<1>6. Move(a, Sent(t, m))
  BY <1>5, Zenon DEF Move
<1>7. Moves(c) /\ sockets'[c] = Sent(t, m)
  BY <1>1, <1>5, <1>6, Changed, Zenon DEF Moves, a
<1>8. QED
  BY <1>5, <1>7, Zenon DEF a

LEMMA UnregisterMoves ==
  ASSUME sockets \in [SocketIds -> Socket], NEW c \in SocketIds, UnregisterSession(c)
  PROVE  /\ Moves(c) /\ sockets'[c].handle = sockets[c].handle
         /\ Serves(sockets[c], sockets'[c]) /\ sockets'[c].replies = sockets[c].replies
<1> DEFINE a == sockets[c]
           b == [a EXCEPT !.requests = Tail(a.requests)]
<1>1. Becomes(c, b)
  BY Zenon DEF UnregisterSession, Becomes
<1>2. /\ a \in Socket /\ a.thread = "reading" /\ a.requests # <<>>
      /\ Tail(a.requests) \in Seq(Request)
  BY TakesFields, Zenon DEF UnregisterSession
<1>3. /\ b \in Socket /\ b.owner = a.owner /\ b.peer = a.peer /\ b.handle = a.handle
      /\ Serves(a, b) /\ b.replies = a.replies
  BY <1>2, Zenon DEF Socket, Serves
<1> HIDE DEF a, b
<1>4. QED
  BY <1>1, <1>3, Changed, Zenon DEF Moves, Move, a

LEMMA RefuseMoves ==
  ASSUME sockets \in [SocketIds -> Socket], NEW c \in SocketIds,
         0 \in Ids, RefuseSession(c)
  PROVE  /\ Moves(c) /\ sockets'[c].handle = sockets[c].handle
         /\ Serves(sockets[c], sockets'[c])
<1> DEFINE a == sockets[c]
           t == [a EXCEPT !.requests = Tail(a.requests)]
<1>1. Becomes(c, Sent(t, NoReply))
  BY Zenon DEF RefuseSession, Becomes
<1>2. /\ a \in Socket /\ a.thread = "reading" /\ a.requests # <<>>
      /\ Tail(a.requests) \in Seq(Request)
  BY TakesFields, Zenon DEF RefuseSession
<1>3. NoReply \in Reply /\ NoReply.kind # "opened"
  BY ReplyTyped, Zenon DEF NoReply
<1>4. /\ t \in Socket /\ t.owner = a.owner /\ t.peer = a.peer /\ t.thread = "reading"
      /\ t.requests = Tail(a.requests) /\ t.replies = a.replies /\ t.handle = a.handle
  BY <1>2, Zenon DEF Socket
<1> HIDE DEF a, t
<1>5. /\ Sent(t, NoReply) \in Socket /\ Sent(t, NoReply).handle = a.handle
      /\ Sent(t, NoReply).owner = a.owner /\ Sent(t, NoReply).peer = a.peer
      /\ Serves(a, Sent(t, NoReply))
  <2> DEFINE b == Sent(t, NoReply)
  <2>1. /\ b \in Socket /\ b.owner = t.owner /\ b.peer = t.peer /\ b.handle = t.handle
        /\ b.requests = t.requests /\ b.thread = t.thread
        /\ b.replies = t.replies \/ b.replies = Append(t.replies, NoReply)
    BY <1>3, <1>4, SentFields, Zenon
  <2> HIDE DEF b
  <2>2. QED
    BY <1>2, <1>3, <1>4, <2>1, Zenon DEF Serves, b
<1>6. QED
  BY <1>1, <1>5, Changed, Zenon DEF Moves, Move, a

\* A CIP request that was handled.
LEMMA HandledMoves ==
  ASSUME sockets \in [SocketIds -> Socket], NEW c \in SocketIds,
         NEW taken, Takes(c, taken), NEW next \in {"opened", "answered"},
         NEW kind \in {"opened", "refused", "closed"}, NEW value \in Ids,
         Handled(c, next, kind, value)
  PROVE  /\ Moves(c) /\ sockets'[c].handle = sockets[c].handle
         /\ Handles(sockets[c], sockets'[c]) /\ sockets'[c].owner = sockets[c].owner
         /\ sockets'[c].reply.kind = kind /\ sockets'[c].reply.value = value
<1> DEFINE a == sockets[c]
           m == [kind |-> kind, value |-> value, items |-> NoItems]
           b == [a EXCEPT !.requests = Tail(a.requests), !.thread = next, !.reply = m]
<1>1. Becomes(c, b)
  BY Zenon DEF Handled, Becomes
<1>2. /\ a \in Socket /\ a.thread = "reading" /\ a.requests # <<>>
      /\ Tail(a.requests) \in Seq(Request)
  BY TakesFields, Zenon
<1>3. m \in Reply /\ m.kind = kind /\ m.value = value
  BY ReplyTyped, Zenon
<1> HIDE DEF m
<1>4. next \in ThreadStages
  BY Zenon DEF ThreadStages
<1>5. /\ b \in Socket /\ b.owner = a.owner /\ b.peer = a.peer /\ b.handle = a.handle
      /\ Handles(a, b) /\ b.reply.kind = kind /\ b.reply.value = value
  BY <1>2, <1>3, <1>4, Zenon DEF Socket, Handles
<1> HIDE DEF a, b
<1>6. QED
  BY <1>1, <1>5, Changed, Zenon DEF Moves, Move, a

LEMMA SetItemsMoves ==
  ASSUME sockets \in [SocketIds -> Socket], NEW c \in SocketIds, SetItems(c)
  PROVE  Moves(c) /\ sockets'[c].handle = sockets[c].handle
<1> DEFINE a == sockets[c]
           b == [a EXCEPT !.thread = "answered"]
<1>1. Becomes(c, b) /\ a \in Socket /\ a.thread = "opened"
  BY Zenon DEF SetItems, Becomes
<1>2. /\ b \in Socket /\ b.owner = a.owner /\ b.peer = a.peer /\ b.handle = a.handle
      /\ GoesOn(a, b)
  BY <1>1, Zenon DEF Socket, GoesOn, ThreadStages
<1> HIDE DEF a, b
<1>3. QED
  BY <1>1, <1>2, Changed, Zenon DEF Moves, Move, a

LEMMA CollectMoves ==
  ASSUME sockets \in [SocketIds -> Socket], NEW c \in SocketIds,
         forward_open_items \in Scanners \cup {NoItems}, CollectItems(c)
  PROVE  Moves(c) /\ sockets'[c].handle = sockets[c].handle
<1> DEFINE a == sockets[c]
           m == [a.reply EXCEPT !.items = forward_open_items]
           b == [a EXCEPT !.thread = "collected", !.reply = m]
<1>1. a \in Socket /\ a.thread = "answered" /\ a.reply \in Reply
  BY SocketFields, Zenon DEF CollectItems
<1>2. Becomes(c, b)
  BY Zenon DEF CollectItems, Becomes
<1>3. m \in Reply /\ m.kind = a.reply.kind /\ m.value = a.reply.value
  BY <1>1, Zenon DEF Reply
<1> HIDE DEF m
<1>4. /\ b \in Socket /\ b.owner = a.owner /\ b.peer = a.peer /\ b.handle = a.handle
      /\ GoesOn(a, b)
  BY <1>1, <1>3, Zenon DEF Socket, GoesOn, ThreadStages
<1> HIDE DEF a, b
<1>5. QED
  BY <1>2, <1>4, Changed, Zenon DEF Moves, Move, a

LEMMA AnswerMoves ==
  ASSUME sockets \in [SocketIds -> Socket], NEW c \in SocketIds, 0 \in Ids, Answer(c)
  PROVE  Moves(c) /\ sockets'[c].handle = sockets[c].handle
<1> DEFINE a == sockets[c]
           t == [a EXCEPT !.thread = "reading", !.reply = NoReply]
           m == a.reply
<1>1. a \in Socket /\ a.thread = "collected" /\ m \in Reply
  BY SocketFields, Zenon DEF Answer
<1>2. Becomes(c, Sent(t, m))
  BY Zenon DEF Answer, Becomes
<1>3. NoReply \in Reply
  BY ReplyTyped, Zenon DEF NoReply
<1>4. /\ t \in Socket /\ t.owner = a.owner /\ t.peer = a.peer /\ t.handle = a.handle
      /\ t.thread = "reading" /\ t.requests = a.requests /\ t.replies = a.replies
  BY <1>1, <1>3, Zenon DEF Socket, ThreadStages
<1> HIDE DEF t
<1>5. /\ Sent(t, m) \in Socket /\ Sent(t, m).owner = a.owner /\ Sent(t, m).peer = a.peer
      /\ Sent(t, m).handle = a.handle /\ Answers(a, Sent(t, m))
  <2> DEFINE b == Sent(t, m)
  <2>1. /\ b \in Socket /\ b.owner = t.owner /\ b.peer = t.peer /\ b.handle = t.handle
        /\ b.requests = t.requests /\ b.thread = t.thread
        /\ \/ b.replies = t.replies /\ t.peer # "here"
           \/ b.replies = Append(t.replies, m)
    BY <1>1, <1>4, SentFields, Zenon
  <2> HIDE DEF b
  <2>2. QED
    BY <1>1, <1>4, <2>1, Zenon DEF Answers, b
<1> HIDE DEF a, m
<1>6. QED
  BY <1>2, <1>5, Changed, Zenon DEF Moves, Move, a

LEMMA SessionEndsMoves ==
  ASSUME sockets \in [SocketIds -> Socket], NEW c \in SocketIds, SessionEnds(c)
  PROVE  /\ Moves(c) /\ sockets'[c].handle = sockets[c].handle
         /\ sockets'[c].thread = "ended"
<1> DEFINE a == sockets[c]
           b == [a EXCEPT !.thread = "ended", !.requests = <<>>]
<1>1. Becomes(c, b) /\ a \in Socket /\ a.thread = "reading"
  BY Zenon DEF SessionEnds, Becomes
<1>2. <<>> \in Seq(Request)
  BY EmptySeq, Zenon
<1>3. /\ b \in Socket /\ b.owner = a.owner /\ b.peer = a.peer /\ b.handle = a.handle
      /\ Ends(a, b)
  BY <1>1, <1>2, Zenon DEF Socket, Ends, ThreadStages
<1> HIDE DEF a, b
<1>4. QED
  BY <1>1, <1>3, Changed, Zenon DEF Moves, Move, Ends, a

\* stop returns: every TCP connection that nobody accepted ends.
LEMMA StopReturnsMoves ==
  ASSUME sockets \in [SocketIds -> Socket], StopReturns
  PROVE  /\ sockets' \in [SocketIds -> Socket]
         /\ \A c \in SocketIds : /\ Move(sockets[c], sockets'[c])
                                 /\ sockets'[c].handle = sockets[c].handle
                                 /\ sockets'[c].thread \in {"unused", "ended"}
<1>1. ASSUME NEW c \in SocketIds
      PROVE  /\ sockets'[c] \in Socket /\ Move(sockets[c], sockets'[c])
             /\ sockets'[c].handle = sockets[c].handle
             /\ sockets'[c].thread \in {"unused", "ended"}
  <2> DEFINE a == sockets[c]
             b == [a EXCEPT !.thread = "ended", !.requests = <<>>]
  <2>1. a \in Socket /\ a.thread \in {"unused", "backlog", "ended"}
    BY SocketFields, Zenon DEF StopReturns, Serving, ThreadStages
  <2>2. sockets'[c] = IF a.thread = "backlog" THEN b ELSE a
    BY <1>1, Zenon DEF StopReturns
  <2>3. <<>> \in Seq(Request)
    BY EmptySeq, Zenon
  <2>4. CASE a.thread = "backlog"
    <3>1. /\ b \in Socket /\ b.owner = a.owner /\ b.peer = a.peer /\ b.handle = a.handle
          /\ Ends(a, b)
      BY <2>1, <2>3, <2>4, Zenon DEF Socket, Ends, ThreadStages
    <3>2. QED
      BY <2>2, <2>4, <3>1, Zenon DEF Move, Ends
  <2>5. CASE a.thread # "backlog"
    BY <2>1, <2>2, <2>5, Zenon DEF Move
  <2>6. QED
    BY <2>4, <2>5, Zenon
<1>2. sockets' \in [SocketIds -> Socket]
  <2>1. sockets' = [c \in SocketIds |-> sockets'[c]]
    BY Zenon DEF StopReturns
  <2>2. QED
    BY <1>1, <2>1, Zenon
<1>3. QED
  BY <1>1, <1>2, Zenon

----------------------------------------------------------------------------
\* A scanner, of either kind.
Users == Transports \cup Originators
State(s) == IF s \in Transports THEN transport[s] ELSE originator[s]
Phase(s) == State(s).phase
Current(s) == State(s).socket
Late(s) == s \notin Transports /\ originator[s].timed_out

\* The serial a scanner gives its connection.
SerialOf(s) == IF s \in Transports THEN State(s).serial ELSE FirstSerial

\* Everything of the server but its TCP connections and datagrams stays as it is.
ServerRests ==
  UNCHANGED <<stage, starts, threads, tables, forward_open_items, applying>>

\* The other scanners stay as they are.
OthersRest(s) ==
  \A u \in Users \ {s} : State(u)' = State(u) /\ (Late(u)' <=> Late(u))
                          /\ abandoned'[u] = abandoned[u]

\* What a scanner does in a step: it makes a TCP connection and asks for a
\* session, ...
Dials(s) ==
  /\ Phase(s) = "idle" /\ Phase(s)' = "registering"
  /\ Current(s)' \in SocketIds /\ sockets[Current(s)'].thread = "unused"
  /\ \E b \in Socket :
       /\ Becomes(Current(s)', b)
       /\ b.owner = s /\ b.thread = "backlog" /\ b.peer = "here" /\ b.handle = 0
       /\ Len(b.requests) = 1 /\ b.requests[1].kind = "register" /\ b.replies = <<>>
  /\ ~Late(s)' /\ abandoned'[s] = abandoned[s]
  /\ s \in Transports \/ State(s)'.session = 0

\* ... it asks for a connection, ...
Opens(s) ==
  /\ Phase(s) = "registering" /\ Phase(s)' = "opening"
  /\ Current(s)' = Current(s) /\ sockets[Current(s)].replies # <<>>
  /\ \E m \in Request :
       /\ m.kind = "open" /\ m.serial \in Serials /\ m.serial = SerialOf(s)'
       /\ m.session = Head(sockets[Current(s)].replies).value
       /\ State(s)'.session = m.session
       /\ Exchange(Current(s), m)
  /\ (Late(s)' <=> Late(s)) /\ abandoned'[s] = abandoned[s]

\* ... it reads that it has one, ...
Reads(s) ==
  /\ Phase(s) = "opening" /\ Phase(s)' \in {"connected", "listening"}
  /\ Current(s)' = Current(s) /\ sockets[Current(s)].replies # <<>>
  /\ Head(sockets[Current(s)].replies).kind = "opened"
  /\ State(s)'.id = Head(sockets[Current(s)].replies).value
  /\ State(s)'.session = State(s).session /\ SerialOf(s)' = SerialOf(s)
  /\ Becomes(Current(s), [sockets[Current(s)] EXCEPT !.replies = Tail(@)])
  /\ (Late(s)' <=> Late(s)) /\ abandoned'[s] = abandoned[s]

\* ... it asks to close it, after a timeout or with every answer read, ...
Closes(s) ==
  /\ Phase(s) \notin {"idle", "closing"} /\ Phase(s)' = "closing"
  /\ Current(s)' = Current(s)
  /\ State(s)'.session = State(s).session /\ SerialOf(s)' = SerialOf(s)
  /\ s \in Transports => Phase(s) = "connected"
  /\ \E m \in Request :
       /\ m.kind = "close" /\ m.session = State(s).session /\ m.serial = SerialOf(s)
       /\ \/ /\ Phase(s) \in {"connected", "listening"}
             /\ Send(Current(s), m) /\ (Late(s)' <=> Late(s))
          \/ /\ Phase(s) = "opening" /\ sockets[Current(s)].replies # <<>>
             /\ Exchange(Current(s), m) /\ (Late(s)' <=> Late(s))
          \/ Send(Current(s), m) /\ Late(s)'
  /\ abandoned'[s] = abandoned[s]

\* ... it leaves, cleanly or not, ...
GivesBack(m, session) == m.kind = "unregister" /\ m.session = session

Goes(s) ==
  /\ Phase(s) # "idle" /\ Phase(s)' = "idle"
  /\ \E last \in Seq(Request), abrupt \in BOOLEAN :
       /\ CloseSocket(Current(s), last, abrupt)
       /\ \A i \in 1 .. Len(last) : GivesBack(last[i], State(s).session)
       /\ last # <<>> => IF s \in Transports THEN Phase(s) = "closing" ELSE State(s).session # 0
       /\ \/ abandoned'[s] = abandoned[s] + 1
          \/ /\ abandoned'[s] = abandoned[s] /\ Phase(s) = "closing"
             /\ sockets[Current(s)].replies # <<>> /\ ~Late(s)
             /\ ~abrupt /\ (State(s).session # 0 => Len(last) = 1)

\* ... or it does not touch its TCP connection.
Rests(s) ==
  /\ State(s)' = State(s) /\ (Late(s)' <=> Late(s)) /\ abandoned'[s] = abandoned[s]
  /\ sockets' = sockets

ScannerMove(s) ==
  /\ OthersRest(s) /\ ServerRests
  /\ Dials(s) \/ Opens(s) \/ Reads(s) \/ Closes(s) \/ Goes(s) \/ Rests(s)

LEMMA Ranges ==
  /\ MaxSockets \in Nat /\ 0 \in Ids /\ SocketIds \subseteq Ids /\ IsFiniteSet(SocketIds)
  /\ Cardinality(SocketIds) = MaxSockets
  /\ \A n : n \in Ids <=> n \in Nat /\ n <= MaxSockets
  /\ \A n : n \in SocketIds <=> n \in Nat /\ 1 <= n /\ n <= MaxSockets
<1>1. MaxSockets \in Nat
  BY ServerAssumption, Zenon
<1>2. IsFiniteSet(SocketIds) /\ Cardinality(SocketIds) = MaxSockets
  BY <1>1, FS_Interval, SMT DEF SocketIds
<1>3. QED
  BY <1>1, <1>2 DEF Ids, SocketIds

LEMMA DialMakes ==
  ASSUME NEW s \in Scanners, NEW c \in SocketIds,
         Dial(s, c, [kind |-> "register", session |-> 0, serial |-> 0, fits |-> TRUE])
  PROVE  \E b \in Socket :
           /\ Becomes(c, b)
           /\ b.owner = s /\ b.thread = "backlog" /\ b.peer = "here" /\ b.handle = 0
           /\ Len(b.requests) = 1 /\ b.requests[1].kind = "register" /\ b.replies = <<>>
<1> DEFINE m == [kind |-> "register", session |-> 0, serial |-> 0, fits |-> TRUE]
           q == <<m>>
           b == [UnusedSocket(s) EXCEPT !.thread = "backlog", !.requests = q]
<1>1. m \in Request /\ m.kind = "register"
  BY Ranges, Zenon DEF Request
<1> HIDE DEF m
<1>2. q \in Seq(Request) /\ Len(q) = 1 /\ q[1].kind = "register"
  BY <1>1, SMT
<1> HIDE DEF q
<1>3. NoReply \in Reply
  BY Ranges, ReplyTyped, Zenon DEF NoReply
<1>4. <<>> \in Seq(Reply) /\ <<>> \in Seq(Request)
  BY EmptySeq, Zenon
<1>5. UnusedSocket(s) \in Socket /\ UnusedSocket(s).owner = s /\ UnusedSocket(s).peer = "here"
      /\ UnusedSocket(s).handle = 0 /\ UnusedSocket(s).replies = <<>>
  BY <1>3, <1>4, Ranges, Zenon DEF UnusedSocket, Socket, ThreadStages
<1>6. /\ b \in Socket /\ b.owner = s /\ b.thread = "backlog" /\ b.peer = "here"
      /\ b.handle = 0 /\ b.requests = q /\ b.replies = <<>>
  BY <1>2, <1>5, Zenon DEF Socket, ThreadStages
<1>7. Becomes(c, b)
  BY Zenon DEF Dial, Becomes, q, m
<1> HIDE DEF b
<1>8. QED
  BY <1>2, <1>6, <1>7, Zenon

LEMMA Kinds ==
  ASSUME NEW t \in Users
  PROVE  /\ t \in Scanners
         /\ t \in Transports => t \notin Originators
         /\ t \notin Transports => t \in Originators
BY TransportAssumption, OriginatorAssumption, Zenon DEF Users

\* A transport moves, and nobody else.
LEMMA TransportRests ==
  ASSUME NEW t \in Transports, transport \in [Transports -> TransportState],
         NEW b \in TransportState, transport' = [transport EXCEPT ![t] = b],
         originator' = originator, abandoned \in [Scanners -> Nat],
         \/ abandoned' = abandoned
         \/ abandoned' = [abandoned EXCEPT ![t] = @ + 1]
  PROVE  /\ OthersRest(t) /\ State(t) = transport[t] /\ State(t)' = b
         /\ ~Late(t) /\ ~Late(t)'
         /\ transport' \in [Transports -> TransportState]
<1>1. \A u \in Transports \ {t} : transport'[u] = transport[u]
  BY Zenon
<1>2. transport'[t] = b /\ transport' \in [Transports -> TransportState]
  BY Zenon
<1>3. ASSUME NEW u \in Users \ {t} PROVE abandoned'[u] = abandoned[u]
  BY <1>3, Kinds, Zenon
<1>4. QED
  BY <1>1, <1>2, <1>3, Zenon DEF OthersRest, State, Late

LEMMA OriginatorRests ==
  ASSUME NEW o \in Originators, originator \in [Originators -> OriginatorState],
         NEW b \in OriginatorState, originator' = [originator EXCEPT ![o] = b],
         transport' = transport, abandoned \in [Scanners -> Nat],
         \/ abandoned' = abandoned
         \/ abandoned' = [abandoned EXCEPT ![o] = @ + 1]
         \/ \E clean \in BOOLEAN :
              abandoned' = [abandoned EXCEPT ![o] = IF clean THEN @ ELSE @ + 1]
  PROVE  /\ OthersRest(o) /\ State(o) = originator[o] /\ State(o)' = b
         /\ (Late(o) <=> originator[o].timed_out) /\ (Late(o)' <=> b.timed_out)
         /\ originator' \in [Originators -> OriginatorState]
<1>1. \A u \in Originators \ {o} : originator'[u] = originator[u]
  BY Zenon
<1>2. originator'[o] = b /\ originator' \in [Originators -> OriginatorState]
  BY Zenon
<1>3. ASSUME NEW u \in Users \ {o} PROVE abandoned'[u] = abandoned[u]
  BY <1>3, Kinds, Zenon
<1>4. o \notin Transports
  BY Kinds, Zenon DEF Users
<1>5. ASSUME NEW u \in Users \ {o} PROVE State(u)' = State(u) /\ (Late(u)' <=> Late(u))
  BY <1>1, <1>5, Kinds, Zenon DEF State, Late
<1>6. /\ State(o) = originator[o] /\ State(o)' = b
      /\ (Late(o) <=> originator[o].timed_out) /\ (Late(o)' <=> b.timed_out)
  BY <1>2, <1>4, Zenon DEF State, Late
<1>7. QED
  BY <1>2, <1>3, <1>5, <1>6, Zenon DEF OthersRest

\* The TCP connection of a scanner that is not idle.
Owned(s) ==
  Phase(s) # "idle" =>
    /\ Current(s) \in SocketIds
    /\ sockets[Current(s)].owner = s /\ sockets[Current(s)].thread # "unused"
    /\ sockets[Current(s)].peer = "here"

LEMMA TransportFields ==
  ASSUME NEW r \in TransportState
  PROVE  /\ r.phase \in Phases /\ r.socket \in Ids /\ r.session \in Ids
         /\ r.serial \in Serials \cup {0} /\ r.id \in Ids /\ r.listener \in Listener
BY Zenon DEF TransportState

LEMMA FirstReply ==
  ASSUME sockets \in [SocketIds -> Socket], NEW c \in SocketIds, Arrived(c)
  PROVE  /\ sockets[c].replies # <<>>
         /\ Head(sockets[c].replies) \in Reply /\ Head(sockets[c].replies).value \in Ids
         /\ Tail(sockets[c].replies) \in Seq(Reply)
<1>1. sockets[c].replies \in Seq(Reply) /\ sockets[c].replies # <<>>
  BY SocketFields, Zenon DEF Arrived
<1>2. Head(sockets[c].replies) \in Reply /\ Tail(sockets[c].replies) \in Seq(Reply)
  BY <1>1, Headed, Zenon
<1>3. QED
  BY <1>1, <1>2, Zenon DEF Reply

LEMMA ConnectMove ==
  ASSUME LinkTypeOK, NEW t \in Transports, Connect(t), UNCHANGED originator
  PROVE  ScannerMove(t) /\ transport' \in [Transports -> TransportState]
<1> DEFINE m == [kind |-> "register", session |-> 0, serial |-> 0, fits |-> TRUE]
<1>1. PICK c \in FreeSocket :
        /\ Dial(t, c, m)
        /\ transport' = [transport EXCEPT ![t].phase = "registering", ![t].socket = c]
  BY Zenon DEF Connect
<1> DEFINE r == transport[t]
           b == [r EXCEPT !.phase = "registering", !.socket = c]
<1>2. transport' = [transport EXCEPT ![t] = b] /\ r \in TransportState /\ r.phase = "idle"
  BY <1>1, Zenon DEF LinkTypeOK, Connect
<1>3. c \in SocketIds /\ sockets[c].thread = "unused"
  BY Zenon DEF FreeSocket
<1>4. b \in TransportState /\ b.phase = "registering" /\ b.socket = c
  BY <1>2, <1>3, Ranges, Zenon DEF TransportState, Phases
<1> HIDE DEF b
<1>5. /\ OthersRest(t) /\ State(t) = r /\ State(t)' = b /\ ~Late(t)'
      /\ transport' \in [Transports -> TransportState] /\ abandoned'[t] = abandoned[t]
  BY <1>2, <1>4, TransportRests, Zenon DEF LinkTypeOK, Connect
<1>6. t \in Scanners
  BY Kinds, Zenon DEF Users
<1>7. Dials(t)
  BY <1>1, <1>2, <1>3, <1>4, <1>5, <1>6, DialMakes, ZenonT(60) DEF Dials, Phase, Current
<1>8. ServerRests
  BY Zenon DEF Connect, Only, cyclic, ServerRests
<1>9. QED
  BY <1>5, <1>7, <1>8, Zenon DEF ScannerMove

LEMMA RequestOpenMove ==
  ASSUME LinkTypeOK, NEW t \in Transports, Owned(t), RequestOpen(t), UNCHANGED originator
  PROVE  /\ ScannerMove(t) /\ transport' \in [Transports -> TransportState]
         /\ transport'[t].serial \in Serials
<1> DEFINE r == transport[t]
           c == r.socket
           session == Head(sockets[c].replies).value
<1>1. r \in TransportState /\ r.phase = "registering" /\ State(t) = r /\ Arrived(c)
  BY Zenon DEF LinkTypeOK, RequestOpen, State
<1>2. c \in SocketIds
  BY <1>1, Zenon DEF Owned, Phase, Current
<1>3. PICK serial \in Serials, fits \in BOOLEAN :
        /\ Exchange(c, [kind |-> "open", session |-> session, serial |-> serial, fits |-> fits])
        /\ transport' = [transport EXCEPT ![t].phase = "opening", ![t].serial = serial,
             ![t].session = session, ![t].listener = [bound |-> TRUE, io_state |-> 1]]
  BY Zenon DEF RequestOpen
<1>4. session \in Ids /\ sockets[c].replies # <<>>
  BY <1>1, <1>2, FirstReply, Zenon DEF LinkTypeOK
<1> DEFINE m == [kind |-> "open", session |-> session, serial |-> serial, fits |-> fits]
           b == [r EXCEPT !.phase = "opening", !.serial = serial, !.session = session,
                          !.listener = [bound |-> TRUE, io_state |-> 1]]
<1> HIDE DEF session
<1>5. m \in Request /\ m.kind = "open" /\ m.serial = serial /\ m.session = session
  BY <1>4, Zenon DEF Request
<1>6. transport' = [transport EXCEPT ![t] = b]
  BY <1>3, Zenon DEF LinkTypeOK
<1>7. [bound |-> TRUE, io_state |-> 1] \in Listener
  BY Zenon DEF Listener
<1>8. /\ b \in TransportState /\ b.phase = "opening" /\ b.socket = c
      /\ b.serial = serial /\ b.session = session
  BY <1>1, <1>4, <1>7, Zenon DEF TransportState, Phases
<1>9. Exchange(c, m)
  BY <1>3, Zenon
<1> HIDE DEF b, m
<1>10. /\ OthersRest(t) /\ State(t)' = b /\ ~Late(t)' /\ ~Late(t)
       /\ transport' \in [Transports -> TransportState] /\ abandoned'[t] = abandoned[t]
  BY <1>6, <1>8, TransportRests, Zenon DEF LinkTypeOK, RequestOpen
<1>11. SerialOf(t)' = serial
  BY <1>8, <1>10, Zenon DEF SerialOf
<1>12. Current(t) = c /\ session = Head(sockets[c].replies).value
  BY <1>1, Zenon DEF Current, session
<1>13. Opens(t)
  <2>1. Phase(t) = "registering" /\ Phase(t)' = "opening" /\ Current(t)' = Current(t)
    BY <1>1, <1>8, <1>10, <1>12, Zenon DEF Phase, Current
  <2>2. m.serial = SerialOf(t)' /\ m.serial \in Serials /\ State(t)'.session = m.session
    BY <1>5, <1>8, <1>10, <1>11, Zenon
  <2>3. QED
    BY <1>4, <1>5, <1>9, <1>10, <1>12, <2>1, <2>2, Zenon DEF Opens
<1>14. ServerRests /\ transport'[t] = b
  BY <1>6, Zenon DEF RequestOpen, Only, cyclic, ServerRests, LinkTypeOK
<1>15. QED
  BY <1>8, <1>10, <1>13, <1>14, Zenon DEF ScannerMove

LEMMA OpenedMove ==
  ASSUME LinkTypeOK, NEW t \in Transports, Owned(t), Opened(t), UNCHANGED originator
  PROVE  ScannerMove(t) /\ transport' \in [Transports -> TransportState]
<1> DEFINE r == transport[t]
           c == r.socket
           id == Head(sockets[c].replies).value
           b == [r EXCEPT !.phase = "connected", !.id = id]
<1>1. r \in TransportState /\ r.phase = "opening" /\ State(t) = r /\ Arrived(c)
  BY Zenon DEF LinkTypeOK, Opened, State
<1>2. c \in SocketIds
  BY <1>1, Zenon DEF Owned, Phase, Current
<1>3. id \in Ids /\ sockets[c].replies # <<>> /\ Head(sockets[c].replies).kind = "opened"
  BY <1>1, <1>2, FirstReply, Zenon DEF LinkTypeOK, Opened
<1>4. transport' = [transport EXCEPT ![t] = b]
  BY Zenon DEF LinkTypeOK, Opened
<1>5. Becomes(c, [sockets[c] EXCEPT !.replies = Tail(@)])
  BY <1>2, Zenon DEF LinkTypeOK, Opened, Becomes
<1>6. /\ b \in TransportState /\ b.phase = "connected" /\ b.socket = c /\ b.id = id
      /\ b.session = r.session /\ b.serial = r.serial
  BY <1>1, <1>3, Zenon DEF TransportState, Phases
<1> HIDE DEF b
<1>7. /\ OthersRest(t) /\ State(t)' = b /\ ~Late(t)' /\ ~Late(t)
      /\ transport' \in [Transports -> TransportState] /\ abandoned'[t] = abandoned[t]
  BY <1>4, <1>6, TransportRests, Zenon DEF LinkTypeOK, Opened
<1>8. Reads(t)
  BY <1>1, <1>3, <1>5, <1>6, <1>7, Zenon DEF Reads, Phase, Current, SerialOf
<1>9. ServerRests
  BY Zenon DEF Opened, Only, cyclic, ServerRests
<1>10. QED
  BY <1>7, <1>8, <1>9, Zenon DEF ScannerMove

\* The receiving socket is closed when the stack has been stopped.
LEMMA StopIOReleases ==
  ASSUME NEW listener \in Listener, listener.bound => listener.io_state = 1,
         NEW failure \in ShutdownFailures
  PROVE  StopIO(listener, failure) \in Listener /\ ~StopIO(listener, failure).bound
<1>1. NoListener \in Listener /\ ~NoListener.bound
  BY Zenon DEF NoListener, Listener
<1>2. CASE TakesOver(listener, failure)
  <2>1. StackStopIO(NoListener) = NoListener
    BY Zenon DEF StackStopIO
  <2>2. QED
    BY <1>1, <1>2, <2>1, Zenon DEF StopIO, ShutdownListener
<1>3. CASE ~TakesOver(listener, failure)
  <2>1. StopIO(listener, failure) = StackStopIO(listener)
    BY <1>3, Zenon DEF StopIO, ShutdownListener
  <2>2. QED
    BY <1>1, <2>1, Zenon DEF StackStopIO
<1>4. QED
  BY <1>2, <1>3, Zenon

\* The flag of the stack and its receiving socket go together.
ListenerInStep ==
  \A t \in Transports : transport[t].listener.bound => transport[t].listener.io_state = 1

LEMMA ForgetMakes ==
  ASSUME LinkTypeOK, ListenerInStep, NEW t \in Transports, Forget(t)
  PROVE  \E b \in TransportState :
           /\ transport' = [transport EXCEPT ![t] = b]
           /\ b.phase = "idle" /\ ~b.listener.bound
<1>1. PICK failure \in ShutdownFailures :
        transport' = [transport EXCEPT ![t] =
          [phase |-> "idle", socket |-> 0, session |-> 0, serial |-> 0, id |-> 0,
           listener |-> StopIO(transport[t].listener, failure)]]
  BY Zenon DEF Forget
<1> DEFINE l == StopIO(transport[t].listener, failure)
           b == [phase |-> "idle", socket |-> 0, session |-> 0, serial |-> 0, id |-> 0,
                 listener |-> l]
<1>2. transport[t].listener \in Listener
  BY TransportFields, Zenon DEF LinkTypeOK
<1>3. l \in Listener /\ ~l.bound
  BY <1>2, StopIOReleases, Zenon DEF ListenerInStep
<1>4. transport' = [transport EXCEPT ![t] = b]
  BY <1>1, Zenon
<1> HIDE DEF l
<1>5. b \in TransportState /\ b.phase = "idle" /\ ~b.listener.bound
  BY <1>3, Ranges, Zenon DEF TransportState, Phases
<1>6. QED
  BY <1>4, <1>5, Zenon

LEMMA NothingSaid ==
  <<>> \in Seq(Request) /\ \A session : \A i \in 1 .. Len(<<>>) : GivesBack(<<>>[i], session)
<1>1. <<>> \in Seq(Request) /\ \A i \in 1 .. Len(<<>>) : FALSE
  BY EmptySeq, SMT
<1>2. QED
  BY <1>1, Zenon

LEMMA FailsMove ==
  ASSUME LinkTypeOK, ListenerInStep, NEW t \in Transports, Owned(t),
         transport[t].phase # "idle", NEW abrupt \in BOOLEAN, Fails(t, abrupt),
         UNCHANGED originator
  PROVE  /\ ScannerMove(t) /\ transport' \in [Transports -> TransportState]
         /\ transport'[t].phase = "idle" /\ ~transport'[t].listener.bound
<1>1. PICK b \in TransportState :
        /\ transport' = [transport EXCEPT ![t] = b]
        /\ b.phase = "idle" /\ ~b.listener.bound
  BY ForgetMakes, Zenon DEF Fails
<1>2. /\ OthersRest(t) /\ State(t) = transport[t] /\ State(t)' = b
      /\ transport' \in [Transports -> TransportState]
  BY <1>1, TransportRests, Zenon DEF LinkTypeOK, Fails
<1>3. abandoned'[t] = abandoned[t] + 1
  BY Kinds, Zenon DEF LinkTypeOK, Fails, Users
<1>4. CloseSocket(Current(t), <<>>, abrupt)
  BY <1>2, Zenon DEF Fails, Current
<1>5. <<>> \in Seq(Request) /\ \A i \in 1 .. Len(<<>>) : GivesBack(<<>>[i], State(t).session)
  BY NothingSaid, Zenon
<1>6. Goes(t)
  BY <1>1, <1>2, <1>3, <1>4, <1>5, Zenon DEF Goes, Phase
<1>7. ServerRests /\ transport'[t] = b
  BY <1>1, Zenon DEF Fails, Only, cyclic, ServerRests, LinkTypeOK
<1>8. QED
  BY <1>1, <1>2, <1>6, <1>7, Zenon DEF ScannerMove

LEMMA DisconnectMove ==
  ASSUME LinkTypeOK, NEW t \in Transports, Owned(t), Disconnect(t), UNCHANGED originator
  PROVE  ScannerMove(t) /\ transport' \in [Transports -> TransportState]
<1> DEFINE r == transport[t]
           c == r.socket
           m == [kind |-> "close", session |-> r.session, serial |-> r.serial, fits |-> TRUE]
           b == [r EXCEPT !.phase = "closing"]
<1>1. r \in TransportState /\ r.phase = "connected" /\ State(t) = r
  BY Zenon DEF LinkTypeOK, Disconnect, State
<1>2. /\ m \in Request /\ m.kind = "close"
      /\ m.session = r.session /\ m.serial = r.serial
  BY <1>1, TransportFields, Zenon DEF Request
<1>3. Send(c, m) /\ transport' = [transport EXCEPT ![t] = b]
  BY Zenon DEF LinkTypeOK, Disconnect
<1>4. /\ b \in TransportState /\ b.phase = "closing" /\ b.socket = c
      /\ b.session = r.session /\ b.serial = r.serial
  BY <1>1, Zenon DEF TransportState, Phases
<1> HIDE DEF b, m
<1>5. /\ OthersRest(t) /\ State(t)' = b /\ ~Late(t)' /\ ~Late(t)
      /\ transport' \in [Transports -> TransportState] /\ abandoned'[t] = abandoned[t]
  BY <1>3, <1>4, TransportRests, Zenon DEF LinkTypeOK, Disconnect
<1>6. Closes(t)
  BY <1>1, <1>2, <1>3, <1>4, <1>5, Zenon DEF Closes, Phase, Current, SerialOf
<1>7. ServerRests
  BY Zenon DEF Disconnect, Only, cyclic, ServerRests
<1>8. QED
  BY <1>5, <1>6, <1>7, Zenon DEF ScannerMove

\* The last message of a scanner that gives its session back.
LEMMA LastMessage ==
  ASSUME NEW session \in Ids
  PROVE  LET last == <<[kind |-> "unregister", session |-> session, serial |-> 0,
                        fits |-> TRUE]>>
         IN  /\ last \in Seq(Request) /\ Len(last) = 1
             /\ \A i \in 1 .. Len(last) : GivesBack(last[i], session)
<1> DEFINE m == [kind |-> "unregister", session |-> session, serial |-> 0, fits |-> TRUE]
<1>1. m \in Request /\ GivesBack(m, session)
  BY Zenon DEF Request, GivesBack
<1> HIDE DEF m
<1>2. /\ <<m>> \in Seq(Request) /\ Len(<<m>>) = 1
      /\ \A i \in 1 .. Len(<<m>>) : <<m>>[i] = m
  BY <1>1, SMT
<1>3. QED
  BY <1>1, <1>2, Zenon DEF m

LEMMA DisconnectedMove ==
  ASSUME LinkTypeOK, ListenerInStep, NEW t \in Transports, Owned(t), Disconnected(t),
         UNCHANGED originator
  PROVE  /\ ScannerMove(t) /\ transport' \in [Transports -> TransportState]
         /\ transport'[t].phase = "idle" /\ ~transport'[t].listener.bound
<1> DEFINE last == <<[kind |-> "unregister", session |-> transport[t].session,
                      serial |-> 0, fits |-> TRUE]>>
<1>1. PICK b \in TransportState :
        /\ transport' = [transport EXCEPT ![t] = b]
        /\ b.phase = "idle" /\ ~b.listener.bound
  BY ForgetMakes, Zenon DEF Disconnected
<1>2. /\ OthersRest(t) /\ State(t) = transport[t] /\ State(t)' = b /\ ~Late(t)
      /\ transport' \in [Transports -> TransportState] /\ abandoned'[t] = abandoned[t]
  BY <1>1, TransportRests, Zenon DEF LinkTypeOK, Disconnected
<1>3. transport[t].phase = "closing" /\ sockets[transport[t].socket].replies # <<>>
  BY Zenon DEF Disconnected, Arrived
<1>4. transport[t].session \in Ids
  BY TransportFields, Zenon DEF LinkTypeOK
<1>5. /\ last \in Seq(Request) /\ Len(last) = 1
      /\ \A i \in 1 .. Len(last) : GivesBack(last[i], transport[t].session)
  BY <1>4, LastMessage, Zenon
<1>6. CloseSocket(transport[t].socket, last, FALSE)
  BY Zenon DEF Disconnected
<1> HIDE DEF last
<1>7. Goes(t)
  BY <1>1, <1>2, <1>3, <1>5, <1>6, Zenon DEF Goes, Phase, Current
<1>8. ServerRests /\ transport'[t] = b
  BY <1>1, Zenon DEF Disconnected, Only, cyclic, ServerRests, LinkTypeOK
<1>9. QED
  BY <1>1, <1>2, <1>7, <1>8, Zenon DEF ScannerMove

LEMMA EmitFrameMove ==
  ASSUME NEW t \in Transports, EmitFrame(t), UNCHANGED originator
  PROVE  ScannerMove(t)
BY Zenon DEF EmitFrame, Emit, ScannerMove, Rests, OthersRest, ServerRests, State, Late

LEMMA OriginatorFields ==
  ASSUME NEW r \in OriginatorState
  PROVE  /\ r.phase \in RunPhases /\ r.socket \in Ids /\ r.session \in Ids
         /\ r.id \in Ids /\ r.timed_out \in BOOLEAN
BY Zenon DEF OriginatorState

LEMMA IdleRunTyped ==
  /\ IdleRun \in OriginatorState /\ IdleRun.phase = "idle" /\ ~IdleRun.timed_out
  /\ IdleRun.session = 0
BY Ranges, Zenon DEF IdleRun, OriginatorState, RunPhases

LEMMA NotATransport ==
  ASSUME NEW o \in Originators
  PROVE  o \in Scanners /\ o \in Users /\ State(o) = originator[o]
BY OriginatorAssumption, Zenon DEF Users, State

LEMMA SerialOfRun ==
  ASSUME NEW o \in Originators
  PROVE  o \notin Transports /\ SerialOf(o) = FirstSerial /\ SerialOf(o)' = FirstSerial
BY OriginatorAssumption, Zenon DEF SerialOf

LEMMA OpenSessionMove ==
  ASSUME LinkTypeOK, NEW o \in Originators, OpenSession(o)
  PROVE  ScannerMove(o) /\ originator' \in [Originators -> OriginatorState]
<1> DEFINE m == [kind |-> "register", session |-> 0, serial |-> 0, fits |-> TRUE]
<1>1. PICK c \in FreeSocket :
        /\ Dial(o, c, m)
        /\ originator' = [originator EXCEPT ![o] =
             [IdleRun EXCEPT !.phase = "registering", !.socket = c]]
  BY Zenon DEF OpenSession
<1> DEFINE b == [IdleRun EXCEPT !.phase = "registering", !.socket = c]
<1>2. originator[o].phase = "idle" /\ State(o) = originator[o] /\ o \in Scanners
  BY NotATransport, Zenon DEF OpenSession
<1>3. c \in SocketIds /\ sockets[c].thread = "unused"
  BY Zenon DEF FreeSocket
<1>4. /\ b \in OriginatorState /\ b.phase = "registering" /\ b.socket = c /\ ~b.timed_out
      /\ b.session = 0
  BY <1>3, Ranges, IdleRunTyped, Zenon DEF OriginatorState, RunPhases
<1> HIDE DEF b
<1>5. /\ OthersRest(o) /\ State(o)' = b /\ ~Late(o)'
      /\ originator' \in [Originators -> OriginatorState] /\ abandoned'[o] = abandoned[o]
  BY <1>1, <1>4, OriginatorRests, Zenon DEF LinkTypeOK, OpenSession, Calm, b
<1>6. Dials(o)
  <2>1. State(o)'.session = 0 /\ State(o).phase = "idle"
    BY <1>2, <1>4, <1>5, Zenon
  <2>2. /\ Current(o)' = c /\ Phase(o)' = "registering"
    BY <1>4, <1>5, Zenon DEF Phase, Current
  <2>3. QED
    BY <1>1, <1>2, <1>3, <1>5, <2>1, <2>2, DialMakes, ZenonT(60) DEF Dials, Phase
<1>7. ServerRests
  BY Zenon DEF OpenSession, Calm, cyclic, ServerRests
<1>8. QED
  BY <1>5, <1>6, <1>7, Zenon DEF ScannerMove

LEMMA RequestForwardOpenMove ==
  ASSUME LinkTypeOK, NEW o \in Originators, Owned(o), RequestForwardOpen(o)
  PROVE  ScannerMove(o) /\ originator' \in [Originators -> OriginatorState]
<1> DEFINE r == originator[o]
           c == r.socket
           session == Head(sockets[c].replies).value
<1>1. r \in OriginatorState /\ r.phase = "registering" /\ State(o) = r /\ Arrived(c)
  BY NotATransport, Zenon DEF LinkTypeOK, RequestForwardOpen
<1>2. c \in SocketIds
  BY <1>1, Zenon DEF Owned, Phase, Current
<1>3. PICK fits \in BOOLEAN :
        Exchange(c, [kind |-> "open", session |-> session, serial |-> FirstSerial,
                     fits |-> fits])
  BY Zenon DEF RequestForwardOpen
<1>4. session \in Ids /\ sockets[c].replies # <<>>
  BY <1>1, <1>2, FirstReply, Zenon DEF LinkTypeOK
<1> DEFINE m == [kind |-> "open", session |-> session, serial |-> FirstSerial, fits |-> fits]
           b == [r EXCEPT !.phase = "opening", !.session = session]
<1>5. originator' = [originator EXCEPT ![o] = b]
  BY Zenon DEF LinkTypeOK, RequestForwardOpen
<1> HIDE DEF session
<1>6. /\ m \in Request /\ m.kind = "open" /\ m.serial \in Serials
      /\ m.serial = FirstSerial /\ m.session = session
  BY <1>4, OriginatorAssumption, Zenon DEF Request
<1>7. /\ b \in OriginatorState /\ b.phase = "opening" /\ b.socket = c
      /\ b.timed_out = r.timed_out /\ b.session = session
  BY <1>1, <1>4, Zenon DEF OriginatorState, RunPhases
<1>8. Exchange(c, m)
  BY <1>3, Zenon
<1> HIDE DEF b, m
<1>9. /\ OthersRest(o) /\ State(o)' = b /\ (Late(o)' <=> Late(o))
      /\ originator' \in [Originators -> OriginatorState] /\ abandoned'[o] = abandoned[o]
  BY <1>5, <1>7, OriginatorRests, Zenon DEF LinkTypeOK, RequestForwardOpen, Calm
<1>10. SerialOf(o)' = FirstSerial
  BY OriginatorAssumption, Zenon DEF SerialOf
<1>11. Current(o) = c /\ session = Head(sockets[c].replies).value
  BY <1>1, Zenon DEF Current, session
<1>12. Opens(o)
  <2>1. Phase(o) = "registering" /\ Phase(o)' = "opening" /\ Current(o)' = Current(o)
    BY <1>1, <1>7, <1>9, <1>11, Zenon DEF Phase, Current
  <2>2. m.serial = SerialOf(o)' /\ m.serial \in Serials /\ State(o)'.session = m.session
    BY <1>6, <1>7, <1>9, <1>10, Zenon
  <2>3. QED
    BY <1>4, <1>6, <1>8, <1>9, <1>11, <2>1, <2>2, Zenon DEF Opens
<1>13. ServerRests
  BY Zenon DEF RequestForwardOpen, Calm, cyclic, ServerRests
<1>14. QED
  BY <1>9, <1>12, <1>13, Zenon DEF ScannerMove

LEMMA StartListeningMove ==
  ASSUME LinkTypeOK, NEW o \in Originators, Owned(o), StartListening(o)
  PROVE  ScannerMove(o) /\ originator' \in [Originators -> OriginatorState]
<1> DEFINE r == originator[o]
           c == r.socket
           id == Head(sockets[c].replies).value
           b == [r EXCEPT !.phase = "listening", !.id = id]
<1>1. r \in OriginatorState /\ r.phase = "opening" /\ State(o) = r /\ Arrived(c)
  BY NotATransport, Zenon DEF LinkTypeOK, StartListening
<1>2. c \in SocketIds
  BY <1>1, Zenon DEF Owned, Phase, Current
<1>3. id \in Ids /\ sockets[c].replies # <<>> /\ Head(sockets[c].replies).kind = "opened"
  BY <1>1, <1>2, FirstReply, Zenon DEF LinkTypeOK, StartListening
<1>4. originator' = [originator EXCEPT ![o] = b]
  BY Zenon DEF LinkTypeOK, StartListening
<1>5. Becomes(c, [sockets[c] EXCEPT !.replies = Tail(@)])
  BY <1>2, Zenon DEF LinkTypeOK, StartListening, Becomes
<1>6. /\ b \in OriginatorState /\ b.phase = "listening" /\ b.socket = c /\ b.id = id
      /\ b.timed_out = r.timed_out /\ b.session = r.session
  BY <1>1, <1>3, Zenon DEF OriginatorState, RunPhases
<1> HIDE DEF b
<1>7. /\ OthersRest(o) /\ State(o)' = b /\ (Late(o)' <=> Late(o))
      /\ originator' \in [Originators -> OriginatorState] /\ abandoned'[o] = abandoned[o]
  BY <1>4, <1>6, OriginatorRests, Zenon DEF LinkTypeOK, StartListening, Calm
<1>8. Reads(o)
  BY <1>1, <1>3, <1>5, <1>6, <1>7, NotATransport, SerialOfRun, Zenon
     DEF Reads, Phase, Current
<1>9. ServerRests
  BY Zenon DEF StartListening, Calm, cyclic, ServerRests
<1>10. QED
  BY <1>7, <1>8, <1>9, Zenon DEF ScannerMove

\* The three ways to forward_close.
LEMMA ForwardCloseMove ==
  ASSUME LinkTypeOK, NEW o \in Originators, Owned(o),
         RequestForwardClose(o) \/ CloseAfterRefusal(o) \/ CloseAfterTimeout(o)
  PROVE  ScannerMove(o) /\ originator' \in [Originators -> OriginatorState]
<1> DEFINE r == originator[o]
           c == r.socket
           m == CloseRequest(o)
<1>1. r \in OriginatorState /\ State(o) = r
  BY NotATransport, Zenon DEF LinkTypeOK
<1>2. /\ m \in Request /\ m.kind = "close"
      /\ m.session = r.session /\ m.serial = FirstSerial
  BY <1>1, OriginatorFields, OriginatorAssumption, Zenon DEF Request, CloseRequest
<1>3. abandoned' = abandoned /\ transport' = transport /\ ServerRests
  BY Zenon DEF RequestForwardClose, CloseAfterRefusal, CloseAfterTimeout, Calm, cyclic, ServerRests
<1>4. CASE RequestForwardClose(o) \/ CloseAfterRefusal(o)
  <2> DEFINE b == [r EXCEPT !.phase = "closing"]
  <2>1. originator' = [originator EXCEPT ![o] = b]
    BY <1>4, Zenon DEF LinkTypeOK, RequestForwardClose, CloseAfterRefusal
  <2>2. /\ b \in OriginatorState /\ b.phase = "closing" /\ b.socket = c
        /\ b.timed_out = r.timed_out /\ b.session = r.session
    BY <1>1, Zenon DEF OriginatorState, RunPhases
  <2> HIDE DEF b, m
  <2>3. /\ OthersRest(o) /\ State(o)' = b /\ (Late(o)' <=> Late(o))
        /\ originator' \in [Originators -> OriginatorState] /\ abandoned'[o] = abandoned[o]
    BY <1>3, <2>1, <2>2, OriginatorRests, Zenon DEF LinkTypeOK
  <2>4. \/ r.phase = "listening" /\ Send(c, m)
        \/ r.phase = "opening" /\ sockets[c].replies # <<>> /\ Exchange(c, m)
    BY <1>4, Zenon DEF RequestForwardClose, CloseAfterRefusal, Arrived, m
  <2>5. Closes(o)
    BY <1>1, <1>2, <2>2, <2>3, <2>4, SerialOfRun, Zenon DEF Closes, Phase, Current
  <2>6. QED
    BY <1>3, <2>3, <2>5, Zenon DEF ScannerMove
<1>5. CASE CloseAfterTimeout(o)
  <2> DEFINE b == [r EXCEPT !.phase = "closing", !.timed_out = TRUE]
  <2>1. originator' = [originator EXCEPT ![o] = b]
    BY <1>5, Zenon DEF LinkTypeOK, CloseAfterTimeout
  <2>2. /\ b \in OriginatorState /\ b.phase = "closing" /\ b.socket = c /\ b.timed_out
        /\ b.session = r.session
    BY <1>1, Zenon DEF OriginatorState, RunPhases
  <2> HIDE DEF b, m
  <2>3. /\ OthersRest(o) /\ State(o)' = b /\ Late(o)'
        /\ originator' \in [Originators -> OriginatorState] /\ abandoned'[o] = abandoned[o]
    BY <1>3, <2>1, <2>2, OriginatorRests, Zenon DEF LinkTypeOK
  <2>4. r.phase \in {"registering", "opening"} /\ Send(c, m)
    BY <1>5, Zenon DEF CloseAfterTimeout, m
  <2>5. Closes(o)
    BY <1>1, <1>2, <2>2, <2>3, <2>4, SerialOfRun, Zenon DEF Closes, Phase, Current
  <2>6. QED
    BY <1>3, <2>3, <2>5, Zenon DEF ScannerMove
<1>6. QED
  BY <1>4, <1>5, Zenon

\* What is left once the socket is closed, and how clean that was.
LEMMA RunGoes ==
  ASSUME LinkTypeOK, NEW o \in Originators, originator[o].phase # "idle",
         NEW last \in Seq(Request),
         \A i \in 1 .. Len(last) : GivesBack(last[i], originator[o].session),
         last # <<>> => originator[o].session # 0,
         NEW abrupt \in BOOLEAN, CloseSocket(originator[o].socket, last, abrupt),
         originator' = [originator EXCEPT ![o] = IdleRun], Calm,
         \/ abandoned' = [abandoned EXCEPT ![o] = @ + 1]
         \/ /\ abandoned' = abandoned /\ originator[o].phase = "closing"
            /\ sockets[originator[o].socket].replies # <<>> /\ ~originator[o].timed_out
            /\ ~abrupt /\ (originator[o].session # 0 => Len(last) = 1)
  PROVE  ScannerMove(o) /\ originator' \in [Originators -> OriginatorState]
<1>1. /\ OthersRest(o) /\ State(o) = originator[o] /\ State(o)' = IdleRun
      /\ (Late(o) <=> originator[o].timed_out)
      /\ originator' \in [Originators -> OriginatorState]
  BY IdleRunTyped, OriginatorRests, Zenon DEF LinkTypeOK, Calm
<1>2. \/ abandoned'[o] = abandoned[o] + 1
      \/ /\ abandoned'[o] = abandoned[o] /\ originator[o].phase = "closing"
         /\ sockets[originator[o].socket].replies # <<>> /\ ~originator[o].timed_out
         /\ ~abrupt /\ (originator[o].session # 0 => Len(last) = 1)
  BY NotATransport, Zenon DEF LinkTypeOK
<1>3. Goes(o)
  BY <1>1, <1>2, IdleRunTyped, SerialOfRun, Zenon DEF Goes, Phase, Current
<1>4. ServerRests
  BY Zenon DEF Calm, cyclic, ServerRests
<1>5. QED
  BY <1>1, <1>3, <1>4, Zenon DEF ScannerMove

LEMMA LeavesMove ==
  ASSUME LinkTypeOK, NEW o \in Originators, originator[o].phase # "idle",
         NEW abrupt \in BOOLEAN, NEW clean \in BOOLEAN, Leaves(o, abrupt, clean),
         clean => /\ originator[o].phase = "closing" /\ ~originator[o].timed_out
                  /\ sockets[originator[o].socket].replies # <<>> /\ ~abrupt
  PROVE  ScannerMove(o) /\ originator' \in [Originators -> OriginatorState]
<1> DEFINE last == IF originator[o].session = 0 THEN <<>>
                   ELSE <<[kind |-> "unregister", session |-> originator[o].session,
                           serial |-> 0, fits |-> TRUE]>>
<1>1. /\ last \in Seq(Request) /\ (originator[o].session # 0 => Len(last) = 1)
      /\ last # <<>> => originator[o].session # 0
      /\ \A i \in 1 .. Len(last) : GivesBack(last[i], originator[o].session)
  <2>1. CASE originator[o].session = 0
    BY <2>1, NothingSaid, Zenon
  <2>2. CASE originator[o].session # 0
    <3>1. originator[o].session \in Ids
      BY OriginatorFields, Zenon DEF LinkTypeOK
    <3>2. QED
      BY <2>2, <3>1, LastMessage, Zenon
  <2>3. QED
    BY <2>1, <2>2, Zenon
<1>2. /\ CloseSocket(originator[o].socket, last, abrupt)
      /\ originator' = [originator EXCEPT ![o] = IdleRun] /\ Calm
      /\ abandoned' = [abandoned EXCEPT ![o] = IF clean THEN @ ELSE @ + 1]
  BY Zenon DEF Leaves
<1>3. \/ abandoned' = [abandoned EXCEPT ![o] = @ + 1]
      \/ clean /\ abandoned' = abandoned
  BY <1>2, NotATransport, Zenon DEF LinkTypeOK
<1> HIDE DEF last
<1>4. QED
  BY <1>1, <1>2, <1>3, RunGoes, Zenon

LEMMA RunEndsMove ==
  ASSUME LinkTypeOK, NEW o \in Originators,
         Finish(o) \/ FinishUnanswered(o) \/ Kill(o)
  PROVE  ScannerMove(o) /\ originator' \in [Originators -> OriginatorState]
<1>1. originator[o].phase # "idle" /\ originator[o].timed_out \in BOOLEAN
  BY OriginatorFields, Zenon DEF LinkTypeOK, Finish, FinishUnanswered, Kill
<1>2. CASE Finish(o)
  BY <1>1, <1>2, LeavesMove, Zenon DEF Finish, Arrived
<1>3. CASE FinishUnanswered(o)
  BY <1>1, <1>3, LeavesMove, Zenon DEF FinishUnanswered
<1>4. CASE Kill(o)
  <2>1. QED
    BY <1>1, <1>4, NothingSaid, RunGoes, Zenon DEF Kill
<1>5. QED
  BY <1>2, <1>3, <1>4, Zenon

LEMMA EmitZerosMove ==
  ASSUME NEW o \in Originators, EmitZeros(o)
  PROVE  ScannerMove(o)
BY Zenon DEF EmitZeros, Emit, ScannerMove, Rests, OthersRest, ServerRests, State, Late

----------------------------------------------------------------------------
(* 2. Types. A TCP connection registers one session and opens one          *)
(* connection at most, which is why neither number outgrows its bound.     *)

\* No request of this kind waits for the server.
Lacks(a, kind) == \A i \in 1 .. Len(a.requests) : a.requests[i].kind # kind

RegistersOnce(a) ==
  \A i \in 1 .. Len(a.requests) :
    a.requests[i].kind = "register" => i = 1 /\ a.handle = 0

OpensOnce(a) ==
  \A i, j \in 1 .. Len(a.requests) :
    a.requests[i].kind = "open" /\ a.requests[j].kind = "open" => i = j

AsksWithSerial(a) ==
  \A i \in 1 .. Len(a.requests) :
    a.requests[i].kind = "open" => a.requests[i].serial \in Serials

SocketOK(a) ==
  /\ a.thread = "unused" => a.requests = <<>> /\ a.handle = 0
  /\ RegistersOnce(a) /\ OpensOnce(a) /\ AsksWithSerial(a)

LEMMA TailElements ==
  ASSUME NEW S, NEW q \in Seq(S), q # <<>>
  PROVE  \A i \in 1 .. Len(Tail(q)) :
           /\ i \in Nat /\ i + 1 \in 1 .. Len(q) /\ i + 1 # 1 /\ Tail(q)[i] = q[i + 1]
BY Headed

\* One request less: what held of all of them holds of the others.
LEMMA OneTaken ==
  ASSUME NEW a, NEW b, a.requests \in Seq(Request), a.requests # <<>>,
         b.requests = Tail(a.requests)
  PROVE  /\ RegistersOnce(a) => RegistersOnce(b) /\ Lacks(b, "register")
         /\ OpensOnce(a) => OpensOnce(b)
         /\ OpensOnce(a) /\ a.requests[1].kind = "open" => Lacks(b, "open")
         /\ AsksWithSerial(a) => AsksWithSerial(b)
         /\ \A kind : Lacks(a, kind) => Lacks(b, kind)
<1>1. \A i \in 1 .. Len(b.requests) :
        /\ i \in Nat /\ i + 1 \in 1 .. Len(a.requests) /\ i + 1 # 1
        /\ b.requests[i] = a.requests[i + 1]
  BY TailElements, Zenon
<1>2. \A i, j \in Nat : i + 1 = j + 1 => i = j
  OBVIOUS
<1>3. RegistersOnce(a) => RegistersOnce(b) /\ Lacks(b, "register")
  BY <1>1, Zenon DEF RegistersOnce, Lacks
<1>4. OpensOnce(a) => OpensOnce(b)
  BY <1>1, <1>2, ZenonT(60) DEF OpensOnce
<1>5. OpensOnce(a) /\ a.requests[1].kind = "open" => Lacks(b, "open")
  <2>1. 1 \in 1 .. Len(a.requests)
    BY Headed
  <2>2. QED
    BY <1>1, <2>1, Zenon DEF OpensOnce, Lacks
<1>6. AsksWithSerial(a) => AsksWithSerial(b)
  BY <1>1, Zenon DEF AsksWithSerial
<1>7. \A kind : Lacks(a, kind) => Lacks(b, kind)
  BY <1>1, Zenon DEF Lacks
<1>8. QED
  BY <1>3, <1>4, <1>5, <1>6, <1>7, Zenon

LEMMA NoneLeft ==
  ASSUME NEW b, b.requests = <<>>
  PROVE  /\ RegistersOnce(b) /\ OpensOnce(b) /\ AsksWithSerial(b)
         /\ \A kind : Lacks(b, kind)
<1>1. Len(<<>>) = 0
  BY EmptySeq, Zenon
<1>2. \A i \in 1 .. Len(b.requests) : FALSE
  BY <1>1, SMT
<1>3. QED
  BY <1>2, Zenon DEF RegistersOnce, OpensOnce, AsksWithSerial, Lacks

LEMMA MoveKeeps ==
  ASSUME NEW a \in Socket, NEW b, Move(a, b), SocketOK(a)
  PROVE  /\ SocketOK(b) /\ b.owner = a.owner /\ b.peer = a.peer
         /\ a.thread # "unused" => b.thread # "unused"
         /\ a.thread = "unused" => b = a
         /\ \A kind : Lacks(a, kind) => Lacks(b, kind)
<1>1. a.requests \in Seq(Request)
  BY SocketFields, Zenon
<1>2. CASE b = a
  BY <1>2, Zenon
<1>3. CASE Starts(a, b) \/ GoesOn(a, b) \/ Answers(a, b)
  <2>1. b.requests = a.requests /\ b.handle = a.handle
    BY <1>3, Zenon DEF Starts, GoesOn, Answers
  <2>2. a.thread # "unused" /\ b.thread # "unused"
    BY <1>3, Zenon DEF Starts, GoesOn, Answers
  <2>3. QED
    BY <1>3, <2>1, <2>2, Zenon DEF Move, SocketOK, RegistersOnce, OpensOnce,
                                   AsksWithSerial, Lacks, Starts, GoesOn, Answers
<1>4. CASE Serves(a, b) \/ Handles(a, b)
  <2>1. b.requests = Tail(a.requests) /\ a.requests # <<>>
    BY <1>4, Zenon DEF Serves, Handles
  <2>2. a.thread # "unused" /\ b.thread # "unused"
    BY <1>4, Zenon DEF Serves, Handles
  <2>3. QED
    BY <1>1, <2>1, <2>2, OneTaken, Zenon DEF Move, SocketOK
<1>5. CASE Ends(a, b)
  <2>1. b.requests = <<>> /\ a.thread # "unused" /\ b.thread # "unused"
    BY <1>5, Zenon DEF Ends
  <2>2. QED
    BY <2>1, NoneLeft, Zenon DEF Move, SocketOK
<1>6. QED
  BY <1>2, <1>3, <1>4, <1>5, Zenon DEF Move

\* Every TCP connection moves, or stays as it is.
AllMove ==
  /\ sockets' \in [SocketIds -> Socket]
  /\ \A c \in SocketIds : Move(sockets[c], sockets'[c])

LEMMA MovesAll ==
  ASSUME NEW c \in SocketIds, Moves(c)
  PROVE  AllMove
BY Zenon DEF Moves, AllMove, Move

\* What a scanner adds to its requests.
Asks(a, b, kinds) ==
  \A i \in 1 .. Len(b.requests) :
    \/ i \in 1 .. Len(a.requests) /\ b.requests[i] = a.requests[i]
    \/ b.requests[i].kind \in kinds

LEMMA AppendAsks ==
  ASSUME NEW a, NEW b, NEW m \in Request, a.requests \in Seq(Request),
         b.requests = Append(a.requests, m)
  PROVE  /\ Asks(a, b, {m.kind})
         /\ \A i \in 1 .. Len(b.requests) :
              i \notin 1 .. Len(a.requests) => i = Len(a.requests) + 1 /\ b.requests[i] = m
<1>1. \A i \in 1 .. Len(b.requests) :
        \/ i \in 1 .. Len(a.requests) /\ b.requests[i] = a.requests[i]
        \/ i = Len(a.requests) + 1 /\ b.requests[i] = m
  BY Appended
<1>2. Len(a.requests) + 1 \notin 1 .. Len(a.requests)
  OBVIOUS
<1>3. QED
  BY <1>1, <1>2, Zenon DEF Asks

LEMMA ConcatAsks ==
  ASSUME NEW a, NEW b, NEW last \in Seq(Request), a.requests \in Seq(Request),
         b.requests = a.requests \o last, NEW session,
         \A i \in 1 .. Len(last) : GivesBack(last[i], session)
  PROVE  /\ b.requests \in Seq(Request) /\ Asks(a, b, {"unregister"})
         /\ \A i \in 1 .. Len(b.requests) :
              \/ i \in 1 .. Len(a.requests) /\ b.requests[i] = a.requests[i]
              \/ GivesBack(b.requests[i], session)
         /\ Len(last) = 1 => ~Lacks(b, "unregister")
<1>1. /\ b.requests \in Seq(Request)
      /\ Len(b.requests) = Len(a.requests) + Len(last)
      /\ \A i \in 1 .. Len(a.requests) + Len(last) : b.requests[i] =
           IF i <= Len(a.requests) THEN a.requests[i] ELSE last[i - Len(a.requests)]
  <2> DEFINE q == a.requests
  <2>1. /\ q \o last \in Seq(Request) /\ Len(q \o last) = Len(q) + Len(last)
        /\ \A i \in 1 .. Len(q) + Len(last) : (q \o last)[i] =
             IF i <= Len(q) THEN q[i] ELSE last[i - Len(q)]
    <3> HIDE DEF q
    <3>1. q \in Seq(Request)
      BY Zenon DEF q
    <3>2. QED
      BY <3>1, ConcatProperties
  <2>2. b.requests = q \o last
    BY Zenon
  <2> HIDE DEF q
  <2>3. QED
    BY <2>1, <2>2, Zenon DEF q
<1>2. Len(a.requests) \in Nat /\ Len(last) \in Nat
  BY LenProperties, Zenon
<1>3. ASSUME NEW i \in 1 .. Len(b.requests), i \notin 1 .. Len(a.requests)
      PROVE  GivesBack(b.requests[i], session)
  <2>1. i > Len(a.requests) /\ i - Len(a.requests) \in 1 .. Len(last)
        /\ i \in 1 .. Len(a.requests) + Len(last) /\ ~(i <= Len(a.requests))
    BY <1>1, <1>2, <1>3
  <2>2. QED
    BY <1>1, <2>1, Zenon
<1>4. ASSUME NEW i \in 1 .. Len(b.requests), i \in 1 .. Len(a.requests)
      PROVE  b.requests[i] = a.requests[i]
  <2>1. i <= Len(a.requests) /\ i \in 1 .. Len(a.requests) + Len(last)
    BY <1>1, <1>2, <1>4
  <2>2. QED
    BY <1>1, <2>1, Zenon
<1>5. ASSUME Len(last) = 1 PROVE ~Lacks(b, "unregister")
  <2>1. Len(b.requests) \in 1 .. Len(b.requests) /\ Len(b.requests) \notin 1 .. Len(a.requests)
    BY <1>1, <1>2, <1>5
  <2>2. QED
    BY <1>3, <2>1, Zenon DEF Lacks, GivesBack
<1>6. QED
  BY <1>1, <1>3, <1>4, <1>5, Zenon DEF Asks, GivesBack

LEMMA AsksKeeps ==
  ASSUME NEW a, NEW b, NEW kinds, Asks(a, b, kinds)
  PROVE  /\ "register" \notin kinds /\ b.handle = a.handle /\ RegistersOnce(a)
              => RegistersOnce(b)
         /\ "open" \notin kinds /\ OpensOnce(a) => OpensOnce(b)
         /\ "open" \notin kinds /\ AsksWithSerial(a) => AsksWithSerial(b)
         /\ \A kind : kind \notin kinds /\ Lacks(a, kind) => Lacks(b, kind)
BY Zenon DEF Asks, RegistersOnce, OpensOnce, AsksWithSerial, Lacks

\* One TCP connection is asked for a connection.
LEMMA OpenAsked ==
  ASSUME NEW a, NEW b, NEW m \in Request, m.kind = "open", m.serial \in Serials,
         a.requests \in Seq(Request), b.requests = Append(a.requests, m),
         b.handle = a.handle, b.thread = a.thread, a.thread # "unused",
         SocketOK(a), Lacks(a, "open")
  PROVE  SocketOK(b)
<1>1. /\ Asks(a, b, {"open"})
      /\ \A i \in 1 .. Len(b.requests) :
           i \notin 1 .. Len(a.requests) => i = Len(a.requests) + 1 /\ b.requests[i] = m
  BY AppendAsks, ZenonT(60)
<1>2. RegistersOnce(b)
  <2>1. "register" \notin {"open"}
    BY Zenon
  <2>2. QED
    BY <1>1, <2>1, AsksKeeps, Zenon DEF SocketOK
<1>3. \A i \in 1 .. Len(b.requests) :
        b.requests[i].kind = "open" => i = Len(a.requests) + 1 /\ b.requests[i] = m
  BY <1>1, AppendAsks, Appended, SMT DEF Lacks
<1>4. OpensOnce(b) /\ AsksWithSerial(b)
  BY <1>3, Zenon DEF OpensOnce, AsksWithSerial
<1>5. QED
  BY <1>2, <1>4, Zenon DEF SocketOK

\* What a scanner does to its TCP connection, as far as types go.
Effect(s, c) ==
  /\ \A d \in SocketIds \ {c} : sockets'[d] = sockets[d]
  /\ sockets[c].thread # "unused" =>
       /\ sockets[c].owner = s /\ Phase(s) # "idle" /\ Current(s) = c
       /\ Phase(s)' # "registering"
  /\ sockets'[c].thread # "unused" /\ sockets'[c].owner = s
  /\ sockets'[c].handle = sockets[c].handle
  /\ sockets'[c].thread \in {"backlog", sockets[c].thread}
  /\ SocketOK(sockets'[c])
  /\ Phase(s)' # "idle" => Current(s)' = c /\ sockets'[c].peer = "here"
  /\ Phase(s)' = "registering" => Lacks(sockets'[c], "open")
  /\ Phase(s) # "registering" /\ Lacks(sockets[c], "open") => Lacks(sockets'[c], "open")

LEMMA DialsEffect ==
  ASSUME LinkTypeOK, NEW s \in Users, Dials(s), \A c \in SocketIds : SocketOK(sockets[c])
  PROVE  sockets' \in [SocketIds -> Socket] /\ \E c \in SocketIds : Effect(s, c)
<1> DEFINE c == Current(s)'
<1>1. c \in SocketIds /\ sockets[c].thread = "unused" /\ sockets[c].handle = 0
  BY Zenon DEF Dials, SocketOK
<1>2. PICK b \in Socket :
        /\ Becomes(c, b)
        /\ b.owner = s /\ b.thread = "backlog" /\ b.peer = "here" /\ b.handle = 0
        /\ Len(b.requests) = 1 /\ b.requests[1].kind = "register" /\ b.replies = <<>>
  BY Zenon DEF Dials
<1>3. \A i \in 1 .. Len(b.requests) : i = 1 /\ b.requests[i].kind = "register"
  BY <1>2, SMT
<1>4. SocketOK(b) /\ Lacks(b, "open")
  BY <1>2, <1>3, Zenon DEF SocketOK, RegistersOnce, OpensOnce, AsksWithSerial, Lacks
<1>5. Phase(s)' = "registering"
  BY Zenon DEF Dials
<1> HIDE DEF c
<1>6. /\ sockets' \in [SocketIds -> Socket] /\ sockets'[c] = b
      /\ \A d \in SocketIds \ {c} : sockets'[d] = sockets[d]
  BY <1>1, <1>2, Changed, Zenon DEF LinkTypeOK
<1>7. Effect(s, c)
  BY <1>1, <1>2, <1>4, <1>5, <1>6, Zenon DEF Effect, c
<1>8. QED
  BY <1>1, <1>6, <1>7, Zenon

\* The requests that go out in Opens and in Closes.
Appends(c, m, replies) ==
  \E b \in Socket :
    /\ Becomes(c, b)
    /\ b.owner = sockets[c].owner /\ b.peer = sockets[c].peer
    /\ b.thread = sockets[c].thread /\ b.handle = sockets[c].handle
    /\ b.reply = sockets[c].reply
    /\ b.requests = Append(sockets[c].requests, m) /\ b.replies = replies

LEMMA SendFields ==
  ASSUME sockets \in [SocketIds -> Socket], NEW c \in SocketIds, NEW m \in Request,
         Send(c, m)
  PROVE  Appends(c, m, sockets[c].replies)
<1> DEFINE a == sockets[c]
           q == Append(a.requests, m)
           b == [a EXCEPT !.requests = q]
<1>1. a \in Socket /\ q \in Seq(Request)
  BY SocketFields, Appended, Zenon
<1>2. Becomes(c, b)
  BY Zenon DEF Send, Becomes
<1>3. /\ b \in Socket /\ b.owner = a.owner /\ b.peer = a.peer /\ b.thread = a.thread
      /\ b.handle = a.handle /\ b.reply = a.reply /\ b.requests = q
      /\ b.replies = a.replies
  BY <1>1, Zenon DEF Socket
<1> HIDE DEF b
<1>4. QED
  BY <1>2, <1>3, Zenon DEF Appends

LEMMA ExchangeFields ==
  ASSUME sockets \in [SocketIds -> Socket], NEW c \in SocketIds, NEW m \in Request,
         Exchange(c, m), sockets[c].replies # <<>>
  PROVE  Appends(c, m, Tail(sockets[c].replies))
<1> DEFINE a == sockets[c]
           q == Append(a.requests, m)
           p == Tail(a.replies)
           b == [a EXCEPT !.replies = p, !.requests = q]
<1>1. a \in Socket /\ q \in Seq(Request) /\ p \in Seq(Reply)
  BY SocketFields, Appended, Headed, Zenon
<1>2. Becomes(c, b)
  BY Zenon DEF Exchange, Becomes
<1>3. /\ b \in Socket /\ b.owner = a.owner /\ b.peer = a.peer /\ b.thread = a.thread
      /\ b.handle = a.handle /\ b.reply = a.reply /\ b.requests = q /\ b.replies = p
  BY <1>1, Zenon DEF Socket
<1> HIDE DEF b
<1>4. QED
  BY <1>2, <1>3, Zenon DEF Appends

LEMMA OpensEffect ==
  ASSUME LinkTypeOK, NEW s \in Users, Opens(s), Owned(s),
         \A c \in SocketIds : SocketOK(sockets[c]), Lacks(sockets[Current(s)], "open")
  PROVE  /\ sockets' \in [SocketIds -> Socket]
         /\ Current(s) \in SocketIds /\ Effect(s, Current(s))
         /\ \E m \in Request :
              /\ m.kind = "open" /\ m.serial = SerialOf(s)'
              /\ m.session = Head(sockets[Current(s)].replies).value
              /\ State(s)'.session = m.session
              /\ Appends(Current(s), m, Tail(sockets[Current(s)].replies))
<1> DEFINE c == Current(s)
           a == sockets[c]
<1>1. c \in SocketIds /\ a.owner = s /\ a.thread # "unused" /\ a.peer = "here"
  BY Zenon DEF Opens, Owned
<1>2. PICK m \in Request :
        /\ m.kind = "open" /\ m.serial \in Serials /\ Exchange(c, m)
        /\ m.serial = SerialOf(s)' /\ m.session = State(s)'.session
        /\ m.session = Head(a.replies).value
  BY Zenon DEF Opens
<1>3. Appends(c, m, Tail(a.replies))
  BY <1>1, <1>2, ExchangeFields, Zenon DEF LinkTypeOK, Opens
<1>4. PICK b \in Socket :
        /\ Becomes(c, b)
        /\ b.owner = a.owner /\ b.peer = a.peer /\ b.thread = a.thread
        /\ b.handle = a.handle /\ b.requests = Append(a.requests, m)
  BY <1>1, <1>2, <1>3, Zenon DEF Appends
<1>5. a.requests \in Seq(Request)
  BY <1>1, SocketFields, Zenon DEF LinkTypeOK
<1>6. SocketOK(b)
  BY <1>1, <1>2, <1>4, <1>5, OpenAsked, Zenon
<1>7. Phase(s) = "registering" /\ Phase(s)' = "opening" /\ Current(s)' = c
  BY Zenon DEF Opens
<1> HIDE DEF c
<1>8. /\ sockets' \in [SocketIds -> Socket] /\ sockets'[c] = b
      /\ \A d \in SocketIds \ {c} : sockets'[d] = sockets[d]
  BY <1>1, <1>4, Changed, Zenon DEF LinkTypeOK
<1>9. Effect(s, c)
  BY <1>1, <1>4, <1>6, <1>7, <1>8, Zenon DEF Effect, c
<1>10. QED
  BY <1>1, <1>2, <1>8, <1>9, <1>3, Zenon DEF c

LEMMA ClosesEffect ==
  ASSUME LinkTypeOK, NEW s \in Users, Closes(s), Owned(s),
         \A c \in SocketIds : SocketOK(sockets[c])
  PROVE  /\ sockets' \in [SocketIds -> Socket]
         /\ Current(s) \in SocketIds /\ Effect(s, Current(s))
         /\ \E m \in Request :
              /\ m.kind = "close" /\ m.session = State(s).session /\ m.serial = SerialOf(s)
              /\ \/ Late(s)' /\ Appends(Current(s), m, sockets[Current(s)].replies)
                 \/ /\ Phase(s) \in {"connected", "listening"}
                    /\ Appends(Current(s), m, sockets[Current(s)].replies)
                 \/ /\ Phase(s) = "opening" /\ sockets[Current(s)].replies # <<>>
                    /\ Appends(Current(s), m, Tail(sockets[Current(s)].replies))
<1> DEFINE c == Current(s)
           a == sockets[c]
<1>1. c \in SocketIds /\ a.owner = s /\ a.thread # "unused" /\ a.peer = "here"
  BY Zenon DEF Closes, Owned
<1>2. PICK m \in Request :
        /\ m.kind = "close" /\ m.session = State(s).session /\ m.serial = SerialOf(s)
        /\ \/ Phase(s) \in {"connected", "listening"} /\ Send(c, m)
           \/ Phase(s) = "opening" /\ a.replies # <<>> /\ Exchange(c, m)
           \/ Send(c, m) /\ Late(s)'
  BY Zenon DEF Closes
<1>3. /\ Send(c, m) => Appends(c, m, a.replies)
      /\ Exchange(c, m) /\ a.replies # <<>> => Appends(c, m, Tail(a.replies))
  BY <1>1, SendFields, ExchangeFields, Zenon DEF LinkTypeOK
<1>4. \E m1 \in Request :
         /\ m1.kind = "close" /\ m1.session = State(s).session /\ m1.serial = SerialOf(s)
         /\ \/ Late(s)' /\ Appends(c, m1, a.replies)
            \/ Phase(s) \in {"connected", "listening"} /\ Appends(c, m1, a.replies)
            \/ Phase(s) = "opening" /\ a.replies # <<>> /\ Appends(c, m1, Tail(a.replies))
  BY <1>2, <1>3, Zenon
<1>5. PICK b \in Socket :
        /\ Becomes(c, b)
        /\ b.owner = a.owner /\ b.peer = a.peer /\ b.thread = a.thread
        /\ b.handle = a.handle /\ b.requests = Append(a.requests, m)
  BY <1>2, <1>3, Zenon DEF Appends
<1>6. a.requests \in Seq(Request)
  BY <1>1, SocketFields, Zenon DEF LinkTypeOK
<1>7. Asks(a, b, {"close"})
  <2>1. Asks(a, b, {m.kind})
    BY <1>5, <1>6, AppendAsks, Zenon
  <2>2. QED
    BY <1>2, <2>1, Zenon
<1>8. SocketOK(b) /\ (Lacks(a, "open") => Lacks(b, "open"))
  <2>1. "register" \notin {"close"} /\ "open" \notin {"close"}
    BY Zenon
  <2>2. QED
    BY <1>1, <1>5, <1>7, <2>1, AsksKeeps, Zenon DEF SocketOK
<1>9. Phase(s) # "idle" /\ Phase(s)' = "closing" /\ Current(s)' = c
  BY Zenon DEF Closes
<1> HIDE DEF c
<1>10. /\ sockets' \in [SocketIds -> Socket] /\ sockets'[c] = b
       /\ \A d \in SocketIds \ {c} : sockets'[d] = sockets[d]
  BY <1>1, <1>5, Changed, Zenon DEF LinkTypeOK
<1>11. Effect(s, c)
  BY <1>1, <1>5, <1>8, <1>9, <1>10, Zenon DEF Effect, c
<1>12. QED
  BY <1>1, <1>10, <1>11, <1>4, Zenon DEF c

LEMMA ReadsEffect ==
  ASSUME LinkTypeOK, NEW s \in Users, Reads(s), Owned(s),
         \A c \in SocketIds : SocketOK(sockets[c])
  PROVE  /\ sockets' \in [SocketIds -> Socket]
         /\ Current(s) \in SocketIds /\ Effect(s, Current(s))
         /\ sockets'[Current(s)].replies = Tail(sockets[Current(s)].replies)
         /\ sockets'[Current(s)].requests = sockets[Current(s)].requests
         /\ sockets'[Current(s)].thread = sockets[Current(s)].thread
<1> DEFINE c == Current(s)
           a == sockets[c]
           p == Tail(a.replies)
           b == [a EXCEPT !.replies = p]
<1>1. c \in SocketIds /\ a.owner = s /\ a.thread # "unused" /\ a.peer = "here" /\ a \in Socket
  BY Zenon DEF Reads, Owned, LinkTypeOK
<1>2. p \in Seq(Reply)
  BY <1>1, SocketFields, Headed, Zenon DEF Reads
<1>3. Becomes(c, b)
  BY Zenon DEF Reads, Becomes
<1>4. /\ b \in Socket /\ b.owner = a.owner /\ b.peer = a.peer /\ b.thread = a.thread
      /\ b.handle = a.handle /\ b.requests = a.requests /\ b.replies = p
  BY <1>1, <1>2, Zenon DEF Socket
<1> HIDE DEF b
<1>5. SocketOK(b) /\ (Lacks(a, "open") => Lacks(b, "open"))
  BY <1>1, <1>4, Zenon DEF SocketOK, RegistersOnce, OpensOnce, AsksWithSerial, Lacks
<1>6. Phase(s) # "idle" /\ Phase(s)' \in {"connected", "listening"} /\ Current(s)' = c
  BY Zenon DEF Reads
<1> HIDE DEF c
<1>7. /\ sockets' \in [SocketIds -> Socket] /\ sockets'[c] = b
      /\ \A d \in SocketIds \ {c} : sockets'[d] = sockets[d]
  BY <1>1, <1>3, <1>4, Changed, Zenon DEF LinkTypeOK
<1>8. Effect(s, c)
  BY <1>1, <1>4, <1>5, <1>6, <1>7, Zenon DEF Effect, c
<1>9. QED
  BY <1>1, <1>4, <1>7, <1>8, Zenon DEF c

LEMMA GoesEffect ==
  ASSUME LinkTypeOK, NEW s \in Users, Goes(s), Owned(s),
         \A c \in SocketIds : SocketOK(sockets[c])
  PROVE  /\ sockets' \in [SocketIds -> Socket]
         /\ Current(s) \in SocketIds /\ Effect(s, Current(s))
         /\ Asks(sockets[Current(s)], sockets'[Current(s)], {"unregister"})
         /\ sockets'[Current(s)].peer # "here"
         /\ sockets'[Current(s)].thread = sockets[Current(s)].thread
         /\ \A i \in 1 .. Len(sockets'[Current(s)].requests) :
              \/ /\ i \in 1 .. Len(sockets[Current(s)].requests)
                 /\ sockets'[Current(s)].requests[i] = sockets[Current(s)].requests[i]
              \/ /\ GivesBack(sockets'[Current(s)].requests[i], State(s).session)
                 /\ IF s \in Transports THEN Phase(s) = "closing" ELSE State(s).session # 0
         /\ \/ abandoned'[s] = abandoned[s] + 1
            \/ /\ abandoned'[s] = abandoned[s] /\ Phase(s) = "closing"
               /\ sockets[Current(s)].replies # <<>> /\ ~Late(s)
               /\ sockets'[Current(s)].peer = "closed"
               /\ State(s).session # 0 => ~Lacks(sockets'[Current(s)], "unregister")
<1> DEFINE c == Current(s)
           a == sockets[c]
<1>1. /\ c \in SocketIds /\ a.owner = s /\ a.thread # "unused" /\ a \in Socket
      /\ a.requests \in Seq(Request)
  BY SocketFields, Zenon DEF Goes, Owned, LinkTypeOK
<1>2. PICK last \in Seq(Request), abrupt \in BOOLEAN :
        /\ CloseSocket(c, last, abrupt)
        /\ \A i \in 1 .. Len(last) : GivesBack(last[i], State(s).session)
        /\ last # <<>> => IF s \in Transports THEN Phase(s) = "closing" ELSE State(s).session # 0
        /\ \/ abandoned'[s] = abandoned[s] + 1
           \/ /\ abandoned'[s] = abandoned[s] /\ Phase(s) = "closing"
              /\ a.replies # <<>> /\ ~Late(s)
              /\ ~abrupt /\ (State(s).session # 0 => Len(last) = 1)
  BY Zenon DEF Goes
<1> DEFINE q == a.requests \o last
           peer == IF abrupt THEN "gone" ELSE "closed"
           b == [a EXCEPT !.peer = peer, !.requests = q, !.replies = <<>>]
<1>3. Becomes(c, b)
  BY <1>2, Zenon DEF CloseSocket, Becomes
<1>4. q \in Seq(Request)
  BY <1>1, ConcatProperties, Zenon
<1>5. /\ <<>> \in Seq(Reply) /\ peer \in {"here", "closed", "gone"}
      /\ peer # "here" /\ (~abrupt => peer = "closed")
  BY EmptySeq, Zenon
<1> HIDE DEF peer
<1>6. /\ b \in Socket /\ b.owner = a.owner /\ b.thread = a.thread /\ b.peer = peer
      /\ b.handle = a.handle /\ b.requests = q
  BY <1>1, <1>4, <1>5, Zenon DEF Socket
<1> HIDE DEF b
<1>7. /\ Asks(a, b, {"unregister"})
      /\ \A i \in 1 .. Len(b.requests) :
           \/ i \in 1 .. Len(a.requests) /\ b.requests[i] = a.requests[i]
           \/ GivesBack(b.requests[i], State(s).session)
      /\ Len(last) = 1 => ~Lacks(b, "unregister")
  BY <1>1, <1>2, <1>6, ConcatAsks, ZenonT(60)
<1>13. ASSUME NEW i \in 1 .. Len(b.requests),
              ~(i \in 1 .. Len(a.requests) /\ b.requests[i] = a.requests[i])
       PROVE  IF s \in Transports THEN Phase(s) = "closing" ELSE State(s).session # 0
  <2>1. last = <<>> => b.requests = a.requests
    BY <1>1, <1>6
  <2>2. last # <<>>
    BY <1>13, <2>1, Zenon
  <2>3. QED
    BY <1>2, <2>2, Zenon
<1>8. SocketOK(b) /\ (Lacks(a, "open") => Lacks(b, "open"))
  <2>1. "register" \notin {"unregister"} /\ "open" \notin {"unregister"}
    BY Zenon
  <2>2. QED
    BY <1>1, <1>6, <1>7, <2>1, AsksKeeps, Zenon DEF SocketOK
<1>9. Phase(s) # "idle" /\ Phase(s)' = "idle"
  BY Zenon DEF Goes
<1> HIDE DEF c
<1>10. /\ sockets' \in [SocketIds -> Socket] /\ sockets'[c] = b
       /\ \A d \in SocketIds \ {c} : sockets'[d] = sockets[d]
  BY <1>1, <1>3, <1>6, Changed, Zenon DEF LinkTypeOK
<1>11. Effect(s, c)
  BY <1>1, <1>6, <1>8, <1>9, <1>10, Zenon DEF Effect, c
<1>12. \/ abandoned'[s] = abandoned[s] + 1
       \/ /\ abandoned'[s] = abandoned[s] /\ Phase(s) = "closing"
          /\ a.replies # <<>> /\ ~Late(s) /\ b.peer = "closed"
          /\ State(s).session # 0 => ~Lacks(b, "unregister")
  BY <1>2, <1>5, <1>6, <1>7, Zenon
<1>14. QED
  BY <1>1, <1>5, <1>6, <1>7, <1>10, <1>11, <1>12, <1>13, Zenon DEF c

\* The strengthening of the types.
SocketsOK == \A c \in SocketIds : SocketOK(sockets[c])

UsersOK ==
  \A s \in Users :
    Owned(s) /\ (Phase(s) = "registering" => Lacks(sockets[Current(s)], "open"))

\* A receiving socket is bound from the Forward Open on, with a serial of the
\* stack's.
TransportOK(r) ==
  /\ r.listener.bound => r.listener.io_state = 1
  /\ r.phase \in {"idle", "registering"} => ~r.listener.bound
  /\ r.phase \in {"opening", "connected", "closing"} =>
       r.listener.bound /\ r.serial \in Serials

TransportsOK == \A t \in Transports : TransportOK(transport[t])

\* Each TCP connection has registered a session or not, and may or may not
\* still open a connection.
Registered == {c \in SocketIds : sockets[c].handle # 0}

MayOpen(c) ==
  \/ sockets[c].thread = "unused"
  \/ \E s \in Users : Phase(s) = "registering" /\ Current(s) = c
  \/ ~Lacks(sockets[c], "open")

Spent == {c \in SocketIds : ~MayOpen(c)}

Counted ==
  /\ next_session <= 1 + Cardinality(Registered)
  /\ next_connection_id <= Cardinality(Spent)

LinkInv == LinkTypeOK /\ SocketsOK /\ UsersOK /\ TransportsOK /\ Counted

LEMMA CountsUp ==
  ASSUME NEW S \in SUBSET SocketIds, NEW T \in SUBSET SocketIds, S \subseteq T
  PROVE  /\ Cardinality(S) \in Nat /\ Cardinality(T) \in Nat
         /\ Cardinality(S) <= Cardinality(T) /\ Cardinality(T) <= MaxSockets
         /\ \A c \in T \ S : Cardinality(S) + 1 <= Cardinality(T)
<1>1. IsFiniteSet(SocketIds) /\ Cardinality(SocketIds) = MaxSockets
  BY Ranges, Zenon
<1>2. /\ IsFiniteSet(T) /\ Cardinality(T) <= MaxSockets
  BY <1>1, FS_Subset, Zenon
<1>3. /\ IsFiniteSet(S) /\ Cardinality(S) <= Cardinality(T)
      /\ Cardinality(T) = Cardinality(S) => T = S
  BY <1>2, FS_Subset, Zenon
<1>4. Cardinality(S) \in Nat /\ Cardinality(T) \in Nat
  BY <1>2, <1>3, FS_CardinalityType, Zenon
<1>5. \A c \in T \ S : Cardinality(T) # Cardinality(S)
  BY <1>3, Zenon
<1>6. QED
  BY <1>2, <1>3, <1>4, <1>5

LEMMA HeadOf ==
  ASSUME LinkInv, NEW c \in SocketIds, NEW kind, Takes(c, kind)
  PROVE  /\ sockets[c] \in Socket /\ SocketOK(sockets[c]) /\ sockets[c].thread = "reading"
         /\ sockets[c].requests \in Seq(Request) /\ sockets[c].requests # <<>>
         /\ 1 \in 1 .. Len(sockets[c].requests)
         /\ sockets[c].requests[1] = Head(sockets[c].requests)
         /\ sockets[c].requests[1].kind = kind /\ ~Lacks(sockets[c], kind)
<1>1. sockets[c] \in Socket /\ SocketOK(sockets[c]) /\ sockets[c].requests # <<>>
  BY Zenon DEF LinkInv, LinkTypeOK, SocketsOK, Takes
<1>2. sockets[c].requests \in Seq(Request)
  BY <1>1, SocketFields, Zenon
<1>3. 1 \in 1 .. Len(sockets[c].requests)
      /\ sockets[c].requests[1] = Head(sockets[c].requests)
  BY <1>1, <1>2, Headed
<1>4. QED
  BY <1>1, <1>2, <1>3, Zenon DEF Takes, Lacks

\* A session can be registered, ...
LEMMA RegisterAllowed ==
  ASSUME LinkInv, NEW c \in SocketIds, RegisterSession(c)
  PROVE  /\ next_session \in Nat /\ 1 <= next_session /\ next_session <= MaxSockets
         /\ sockets[c].handle = 0
<1>1. Takes(c, "register")
  BY Zenon DEF RegisterSession
<1>2. sockets[c].handle = 0
  BY <1>1, HeadOf, Zenon DEF SocketOK, RegistersOnce
<1>3. Registered \in SUBSET SocketIds /\ c \notin Registered
  BY <1>2, Zenon DEF Registered
<1>4. Cardinality(Registered) \in Nat /\ Cardinality(Registered) + 1 <= MaxSockets
  <2>1. /\ Cardinality(Registered) + 1 <= Cardinality(SocketIds)
        /\ Cardinality(Registered) \in Nat
    BY <1>3, CountsUp, Zenon
  <2>2. QED
    BY <2>1, Ranges, Zenon
<1>5. next_session \in 1 .. MaxSockets + 1 /\ next_session <= 1 + Cardinality(Registered)
  BY Zenon DEF LinkInv, LinkTypeOK, Counted
<1>6. MaxSockets \in Nat
  BY Ranges, Zenon
<1>7. QED
  BY <1>2, <1>4, <1>5, <1>6

\* ... and a connection opened.
LEMMA OpenAllowed ==
  ASSUME LinkInv, NEW c \in SocketIds, ForwardOpen(c)
  PROVE  /\ next_connection_id \in Nat /\ next_connection_id + 1 \in Ids
         /\ c \notin Spent /\ Head(sockets[c].requests).serial \in Serials
<1>1. Takes(c, "open")
  BY Zenon DEF ForwardOpen
<1>2. ~Lacks(sockets[c], "open") /\ Head(sockets[c].requests).serial \in Serials
  BY <1>1, HeadOf, Zenon DEF SocketOK, AsksWithSerial
<1>3. Spent \in SUBSET SocketIds /\ c \notin Spent
  BY <1>2, Zenon DEF Spent, MayOpen
<1>4. Cardinality(Spent) \in Nat /\ Cardinality(Spent) + 1 <= MaxSockets
  <2>1. Cardinality(Spent) + 1 <= Cardinality(SocketIds) /\ Cardinality(Spent) \in Nat
    BY <1>3, CountsUp, Zenon
  <2>2. QED
    BY <2>1, Ranges, Zenon
<1>5. next_connection_id \in Ids /\ next_connection_id <= Cardinality(Spent)
  BY Zenon DEF LinkInv, LinkTypeOK, Counted
<1>6. next_connection_id \in Nat /\ next_connection_id + 1 <= MaxSockets
  BY <1>4, <1>5, Ranges
<1>7. QED
  BY <1>2, <1>3, <1>6, Ranges

LEMMA SessionMoves ==
  ASSUME LinkInv, NEW c \in SocketIds, SessionStep(c)
  PROVE  /\ Moves(c)
         /\ \/ sockets'[c].handle = sockets[c].handle
            \/ RegisterSession(c) /\ sockets'[c].handle = next_session
<1>1. /\ sockets \in [SocketIds -> Socket] /\ forward_open_items \in Scanners \cup {NoItems}
      /\ 0 \in Ids
  BY Ranges, Zenon DEF LinkInv, LinkTypeOK
<1>2. CASE RegisterSession(c)
  <2>1. next_session \in Ids
    BY <1>2, RegisterAllowed, Ranges, Zenon
  <2>2. QED
    BY <1>1, <1>2, <2>1, RegisterMoves, Zenon
<1>3. CASE ForwardOpen(c)
  <2>1. next_connection_id + 1 \in Ids
    BY <1>3, OpenAllowed, Zenon
  <2>2. QED
    BY <1>1, <1>3, <2>1, HandledMoves, Zenon DEF ForwardOpen
<1>4. CASE RefuseForwardOpen(c)
  BY <1>1, <1>4, HandledMoves, Zenon DEF RefuseForwardOpen
<1>5. CASE ForwardClose(c)
  BY <1>1, <1>5, HandledMoves, Zenon DEF ForwardClose
<1>6. CASE UnregisterSession(c)
  BY <1>1, <1>6, UnregisterMoves, Zenon
<1>7. CASE RefuseSession(c)
  BY <1>1, <1>7, RefuseMoves, Zenon
<1>8. CASE SetItems(c)
  BY <1>1, <1>8, SetItemsMoves, Zenon
<1>9. CASE CollectItems(c)
  BY <1>1, <1>9, CollectMoves, Zenon
<1>10. CASE Answer(c)
  BY <1>1, <1>10, AnswerMoves, Zenon
<1>11. CASE SessionEnds(c)
  BY <1>1, <1>11, SessionEndsMoves, Zenon
<1>12. QED
  BY <1>2, <1>3, <1>4, <1>5, <1>6, <1>7, <1>8, <1>9, <1>10, <1>11, Zenon DEF SessionStep

LEMMA ServerMoves ==
  ASSUME LinkInv, ServerStep
  PROVE  /\ AllMove
         /\ \A c \in SocketIds : sockets[c].handle # 0 => sockets'[c].handle # 0
<1>1. sockets \in [SocketIds -> Socket]
  BY Zenon DEF LinkInv, LinkTypeOK
<1>2. CASE sockets' = sockets
  BY <1>1, <1>2, Zenon DEF AllMove, Move
<1>3. CASE StopReturns
  BY <1>1, <1>3, StopReturnsMoves, Zenon DEF AllMove
<1>4. ASSUME NEW c \in SocketIds, Accept(c)
      PROVE  AllMove /\ \A d \in SocketIds : sockets[d].handle # 0 => sockets'[d].handle # 0
  <2>1. Moves(c)
    BY <1>1, <1>4, AcceptMoves, Zenon
  <2>2. sockets'[c].handle = sockets[c].handle
    BY <1>1, <1>4, SocketFields, Zenon DEF Accept, Socket
  <2>3. QED
    BY <2>1, <2>2, MovesAll, Zenon DEF Moves
<1>5. ASSUME NEW c \in SocketIds, SessionStep(c)
      PROVE  AllMove /\ \A d \in SocketIds : sockets[d].handle # 0 => sockets'[d].handle # 0
  <2>1. Moves(c)
    BY <1>5, SessionMoves, Zenon
  <2>2. sockets[c].handle # 0 => sockets'[c].handle # 0
    <3>1. ASSUME RegisterSession(c) PROVE next_session # 0
      BY <3>1, RegisterAllowed
    <3>2. QED
      BY <1>5, <3>1, SessionMoves, Zenon
  <2>3. QED
    BY <2>1, <2>2, MovesAll, Zenon DEF Moves
<1>6. \/ sockets' = sockets \/ StopReturns
      \/ \E c \in SocketIds : Accept(c) \/ SessionStep(c)
  BY Zenon DEF ServerStep, StartServer, StopServer, LoopEnds, Receive, Apply, LoseDatagram
<1>7. QED
  BY <1>2, <1>3, <1>4, <1>5, <1>6, Zenon

\* The types of everything of the server but its TCP connections.
TablesOK ==
  /\ stage \in {"down", "up", "stopping"} /\ starts \in 0 .. MaxStarts
  /\ threads \subseteq Loops
  /\ sessions \subseteq Ids /\ next_session \in 1 .. MaxSockets + 1
  /\ connections \subseteq Connection /\ next_connection_id \in Ids
  /\ forward_open_items \in Scanners \cup {NoItems}
  /\ older \in [Ids -> SUBSET Ids]

CyclicOK ==
  /\ applying \in Frame \cup {NoFrame} /\ datagrams \in Seq(Frame)
  /\ overtaken \subseteq Ids

LEMMA SessionTables ==
  ASSUME LinkInv, NEW c \in SocketIds, SessionStep(c)
  PROVE  TablesOK'
<1>1. TablesOK
  BY Zenon DEF LinkInv, LinkTypeOK, TablesOK
<1>2. sockets[c].owner \in Scanners
  BY SocketFields, Zenon DEF LinkInv, LinkTypeOK
<1>3. CASE RegisterSession(c)
  <2>1. next_session \in Nat /\ 1 <= next_session /\ next_session <= MaxSockets
    BY <1>3, RegisterAllowed, Zenon
  <2>2. next_session \in Ids /\ next_session + 1 \in 1 .. MaxSockets + 1
    BY <2>1, Ranges
  <2>3. QED
    BY <1>1, <1>3, <2>2, Zenon DEF RegisterSession, TablesOK
<1>4. CASE ForwardOpen(c)
  <2> DEFINE k == [vendor |-> Vendor[sockets[c].owner],
                   serial |-> Head(sockets[c].requests).serial, id |-> next_connection_id']
             closed == 1 .. next_connection_id \ {other.id : other \in connections}
  <2>1. /\ next_connection_id \in Nat /\ next_connection_id' \in Ids
        /\ Head(sockets[c].requests).serial \in Serials
    BY <1>4, OpenAllowed, Zenon DEF ForwardOpen
  <2>2. k \in Connection
    BY <1>2, <2>1, Zenon DEF Connection, Frame
  <2>3. closed \in SUBSET Ids
    <3>1. 1 .. next_connection_id \subseteq Ids
      BY <1>1, <2>1, Ranges DEF TablesOK
    <3>2. QED
      BY <3>1, Zenon
  <2>4. connections' = connections \cup {k}
    BY <1>4, Zenon DEF ForwardOpen
  <2>5. older' = [older EXCEPT ![next_connection_id'] = closed]
    BY <1>4, Zenon DEF ForwardOpen
  <2> HIDE DEF k, closed
  <2>6. older' \in [Ids -> SUBSET Ids]
    BY <1>1, <2>3, <2>5, Zenon DEF TablesOK
  <2>7. QED
    BY <1>1, <1>4, <2>1, <2>2, <2>4, <2>6, Zenon DEF ForwardOpen, TablesOK
<1>5. CASE ForwardClose(c) \/ UnregisterSession(c)
  BY <1>1, <1>5, Zenon DEF ForwardClose, UnregisterSession, TablesOK
<1>6. CASE SetItems(c) \/ Answer(c)
  BY <1>1, <1>2, <1>6, Zenon DEF SetItems, Answer, TablesOK, tables
<1>7. CASE \/ RefuseSession(c) \/ RefuseForwardOpen(c) \/ CollectItems(c) \/ SessionEnds(c)
  BY <1>1, <1>7, Zenon DEF RefuseSession, RefuseForwardOpen, CollectItems, SessionEnds,
                           TablesOK, tables
<1>8. QED
  BY <1>3, <1>4, <1>5, <1>6, <1>7, Zenon DEF SessionStep

LEMMA ServerTables ==
  ASSUME LinkInv, ServerStep
  PROVE  TablesOK' /\ CyclicOK'
<1>1. TablesOK /\ CyclicOK
  BY Zenon DEF LinkInv, LinkTypeOK, TablesOK, CyclicOK
<1>2. CASE StartServer
  <2>1. starts + 1 \in 0 .. MaxStarts
    BY <1>1, <1>2, ServerAssumption DEF StartServer, TablesOK
  <2>2. QED
    BY <1>1, <1>2, <2>1, Zenon DEF StartServer, TablesOK, CyclicOK, tables, cyclic
<1>3. CASE StopServer \/ StopReturns
  BY <1>1, <1>3, Zenon DEF StopServer, StopReturns, TablesOK, CyclicOK, tables, cyclic
<1>4. CASE \E t \in Loops : LoopEnds(t)
  BY <1>1, <1>4, Zenon DEF LoopEnds, TablesOK, CyclicOK, tables, cyclic
<1>5. ASSUME NEW c \in SocketIds, Accept(c) \/ SessionStep(c)
      PROVE  TablesOK' /\ CyclicOK'
  <2>1. CASE Accept(c)
    BY <1>1, <2>1, Zenon DEF Accept, TablesOK, CyclicOK, tables, cyclic
  <2>2. CASE SessionStep(c)
    <3>1. UNCHANGED cyclic
      BY <2>2, Zenon DEF SessionStep, RegisterSession, UnregisterSession, RefuseSession,
           ForwardOpen, RefuseForwardOpen, ForwardClose, SetItems, CollectItems, Answer,
           SessionEnds
    <3>2. QED
      BY <1>1, <2>2, <3>1, SessionTables, Zenon DEF CyclicOK, cyclic
  <2>3. QED
    BY <1>5, <2>1, <2>2, Zenon
<1>6. CASE Receive \/ LoseDatagram
  <2>1. datagrams \in Seq(Frame) /\ datagrams # <<>>
    BY <1>1, <1>6, Zenon DEF Receive, LoseDatagram, CyclicOK
  <2>2. Head(datagrams) \in Frame /\ Tail(datagrams) \in Seq(Frame)
    BY <2>1, Headed, Zenon
  <2>3. QED
    BY <1>1, <1>6, <2>2, Zenon DEF Receive, LoseDatagram, TablesOK, CyclicOK, tables
<1>7. CASE Apply
  <2>1. applying.id \in Ids
    <3>1. applying \in Frame
      BY <1>1, <1>7, Zenon DEF CyclicOK, Apply
    <3>2. QED
      BY <3>1, Zenon DEF Frame
  <2>2. older[applying.id] \subseteq Ids
    BY <1>1, <2>1, Zenon DEF TablesOK
  <2>3. QED
    BY <1>1, <1>7, <2>2, Zenon DEF Apply, TablesOK, CyclicOK, tables
<1>8. QED
  BY <1>2, <1>3, <1>4, <1>5, <1>6, <1>7, Zenon DEF ServerStep

LEMMA ServerKeeps ==
  ASSUME LinkInv, ServerStep, UNCHANGED <<transport, originator, abandoned>>
  PROVE  LinkInv'
<1>1. /\ AllMove /\ \A c \in SocketIds : sockets[c] \in Socket
      /\ \A c \in SocketIds : sockets[c].handle # 0 => sockets'[c].handle # 0
  BY ServerMoves, Zenon DEF LinkInv, LinkTypeOK
<1>2. \A c \in SocketIds :
        /\ SocketOK(sockets'[c]) /\ sockets'[c].owner = sockets[c].owner
        /\ sockets'[c].peer = sockets[c].peer
        /\ sockets[c].thread # "unused" => sockets'[c].thread # "unused"
        /\ \A kind : Lacks(sockets[c], kind) => Lacks(sockets'[c], kind)
  BY <1>1, MoveKeeps, Zenon DEF AllMove, LinkInv, SocketsOK
<1>3. \A s \in Users : State(s)' = State(s)
  BY Zenon DEF State
<1>4. LinkTypeOK'
  BY <1>1, ServerTables, Zenon DEF LinkInv, LinkTypeOK, TablesOK, CyclicOK, AllMove
<1>5. SocketsOK'
  BY <1>2, Zenon DEF SocketsOK
<1>6. UsersOK'
  <2>1. ASSUME NEW s \in Users, Phase(s)' # "idle"
        PROVE  /\ Current(s)' = Current(s) /\ Phase(s)' = Phase(s)
               /\ Current(s) \in SocketIds
               /\ sockets[Current(s)].owner = s /\ sockets[Current(s)].thread # "unused"
               /\ sockets[Current(s)].peer = "here"
               /\ Phase(s) = "registering" => Lacks(sockets[Current(s)], "open")
    BY <1>3, <2>1, Zenon DEF LinkInv, UsersOK, Owned, Phase, Current
  <2>2. ASSUME NEW s \in Users PROVE Owned(s)'
    BY <1>2, <2>1, ZenonT(60) DEF Owned
  <2>3. ASSUME NEW s \in Users, Phase(s)' = "registering"
        PROVE  Lacks(sockets[Current(s)], "open")'
    <3>1. Lacks(sockets'[Current(s)'], "open")
      BY <1>2, <2>1, <2>3, Zenon
    <3>2. QED
      BY <3>1, Zenon
  <2>4. QED
    BY <2>2, <2>3, Zenon DEF UsersOK
<1>7. TransportsOK'
  BY Zenon DEF LinkInv, TransportsOK
<1>8. Registered \in SUBSET SocketIds /\ Registered' \in SUBSET SocketIds
      /\ Registered \subseteq Registered'
  BY <1>1, Zenon DEF Registered
<1>9. ASSUME NEW c \in SocketIds, MayOpen(c)' PROVE MayOpen(c)
  BY <1>2, <1>3, <1>9, Zenon DEF MayOpen, Phase, Current
<1>10. Spent \in SUBSET SocketIds /\ Spent' \in SUBSET SocketIds /\ Spent \subseteq Spent'
  BY <1>9, Zenon DEF Spent
<1>11. next_session' <= 1 + Cardinality(Registered')
  <2>1. /\ Cardinality(Registered) \in Nat /\ Cardinality(Registered') \in Nat
        /\ Cardinality(Registered) <= Cardinality(Registered')
        /\ \A c \in Registered' \ Registered :
             Cardinality(Registered) + 1 <= Cardinality(Registered')
    BY <1>8, CountsUp, Zenon
  <2>2. next_session \in Nat /\ next_session <= 1 + Cardinality(Registered)
    <3>1. next_session \in 1 .. MaxSockets + 1 /\ next_session <= 1 + Cardinality(Registered)
      BY Zenon DEF LinkInv, LinkTypeOK, Counted
    <3>2. MaxSockets \in Nat
      BY Ranges, Zenon
    <3>3. QED
      BY <3>1, <3>2
  <2>3. CASE next_session' = next_session
    BY <2>1, <2>2, <2>3
  <2>4. ASSUME NEW c \in SocketIds, RegisterSession(c)
        PROVE  next_session' = next_session + 1 /\ c \in Registered' \ Registered
    <3>1. /\ next_session \in Nat /\ 1 <= next_session /\ sockets[c].handle = 0
      BY <2>4, RegisterAllowed, Zenon
    <3>2. next_session # 0
      BY <3>1
    <3>3. sockets'[c].handle = next_session
      <4>1. next_session \in Ids /\ sockets \in [SocketIds -> Socket]
        BY <2>4, RegisterAllowed, Ranges, Zenon DEF LinkInv, LinkTypeOK
      <4>2. QED
        BY <2>4, <4>1, RegisterMoves, Zenon
    <3>4. QED
      BY <2>4, <3>1, <3>2, <3>3, Zenon DEF RegisterSession, Registered
  <2>5. CASE \E c \in SocketIds : RegisterSession(c)
    <3>1. next_session' = next_session + 1
          /\ Cardinality(Registered) + 1 <= Cardinality(Registered')
      BY <2>1, <2>4, <2>5, Zenon
    <3>2. QED
      BY <2>1, <2>2, <3>1
  <2>6. next_session' = next_session \/ \E c \in SocketIds : RegisterSession(c)
    BY Zenon DEF ServerStep, SessionStep, StartServer, StopServer, StopReturns, LoopEnds,
         Accept, UnregisterSession, RefuseSession, ForwardOpen, RefuseForwardOpen,
         ForwardClose, SetItems, CollectItems, Answer, SessionEnds, Receive, Apply,
         LoseDatagram, tables
  <2>7. QED
    BY <2>3, <2>5, <2>6, Zenon
<1>12. next_connection_id' <= Cardinality(Spent')
  <2>1. /\ Cardinality(Spent) \in Nat /\ Cardinality(Spent') \in Nat
        /\ Cardinality(Spent) <= Cardinality(Spent')
        /\ \A c \in Spent' \ Spent : Cardinality(Spent) + 1 <= Cardinality(Spent')
    BY <1>10, CountsUp, Zenon
  <2>2. next_connection_id \in Nat /\ next_connection_id <= Cardinality(Spent)
    BY Ranges, Zenon DEF LinkInv, LinkTypeOK, Counted
  <2>3. CASE next_connection_id' = next_connection_id
    BY <2>1, <2>2, <2>3
  <2>4. ASSUME NEW c \in SocketIds, ForwardOpen(c)
        PROVE  next_connection_id' = next_connection_id + 1 /\ c \in Spent' \ Spent
    <3>1. Takes(c, "open") /\ next_connection_id' = next_connection_id + 1
      BY <2>4, Zenon DEF ForwardOpen
    <3>2. /\ SocketOK(sockets[c]) /\ sockets[c].thread = "reading"
          /\ sockets[c].requests \in Seq(Request) /\ sockets[c].requests # <<>>
          /\ sockets[c].requests[1].kind = "open" /\ ~Lacks(sockets[c], "open")
      BY <3>1, HeadOf, Zenon
    <3>3. c \notin Spent /\ next_connection_id + 1 \in Ids
      BY <2>4, OpenAllowed, Zenon
    <3>4. sockets'[c].requests = Tail(sockets[c].requests)
      BY <2>4, <3>1, <3>3, HandledMoves, Zenon DEF ForwardOpen, Handles, LinkInv, LinkTypeOK
    <3>5. Lacks(sockets'[c], "open")
      BY <3>2, <3>4, OneTaken, Zenon DEF SocketOK
    <3>6. ~MayOpen(c)'
      <4>1. ASSUME NEW s \in Users PROVE ~(Phase(s)' = "registering" /\ Current(s)' = c)
        BY <1>3, <3>2, Zenon DEF LinkInv, UsersOK, Phase, Current
      <4>2. sockets'[c].thread # "unused"
        BY <1>2, <3>2, Zenon
      <4>3. QED
        BY <3>5, <4>1, <4>2, Zenon DEF MayOpen
    <3>7. QED
      BY <3>1, <3>3, <3>6, Zenon DEF Spent
  <2>5. CASE \E c \in SocketIds : ForwardOpen(c)
    <3>1. next_connection_id' = next_connection_id + 1
          /\ Cardinality(Spent) + 1 <= Cardinality(Spent')
      BY <2>1, <2>4, <2>5, Zenon
    <3>2. QED
      BY <2>1, <2>2, <3>1
  <2>6. next_connection_id' = next_connection_id \/ \E c \in SocketIds : ForwardOpen(c)
    BY Zenon DEF ServerStep, SessionStep, StartServer, StopServer, StopReturns, LoopEnds,
         Accept, RegisterSession, UnregisterSession, RefuseSession, RefuseForwardOpen,
         ForwardClose, SetItems, CollectItems, Answer, SessionEnds, Receive, Apply,
         LoseDatagram, tables
  <2>7. QED
    BY <2>3, <2>5, <2>6, Zenon
<1>13. QED
  BY <1>4, <1>5, <1>6, <1>7, <1>11, <1>12, Zenon DEF LinkInv, Counted

\* A transport that becomes b, and nothing else of the transports.
LEMMA TransportBecomes ==
  ASSUME LinkInv, NEW t \in Transports, NEW b \in TransportState,
         transport' = [transport EXCEPT ![t] = b], TransportOK(b)
  PROVE  TransportsOK'
<1>1. transport'[t] = b /\ \A u \in Transports \ {t} : transport'[u] = transport[u]
  BY Zenon DEF LinkInv, LinkTypeOK
<1>2. QED
  BY <1>1, Zenon DEF LinkInv, TransportsOK

\* What a scanner leaves of the fields that are not in ScannerMove.
RestTyped ==
  /\ CyclicOK' /\ TransportsOK'
  /\ transport' \in [Transports -> TransportState]
  /\ originator' \in [Originators -> OriginatorState]
  /\ abandoned' \in [Scanners -> Nat]

LEMMA AbandonedOnce ==
  ASSUME LinkInv, NEW s \in Scanners,
         \/ abandoned' = abandoned
         \/ abandoned' = [abandoned EXCEPT ![s] = @ + 1]
         \/ \E clean \in BOOLEAN :
              abandoned' = [abandoned EXCEPT ![s] = IF clean THEN @ ELSE @ + 1]
  PROVE  abandoned' \in [Scanners -> Nat]
<1>1. abandoned \in [Scanners -> Nat]
  BY Zenon DEF LinkInv, LinkTypeOK
<1>2. abandoned[s] \in Nat /\ abandoned[s] + 1 \in Nat
  BY <1>1
<1>3. QED
  BY <1>1, <1>2, Zenon

LEMMA EmitTyped ==
  ASSUME LinkInv, NEW s \in Scanners, NEW serial \in Serials, NEW id \in Ids,
         Emit(Vendor[s], serial, id)
  PROVE  CyclicOK'
<1> DEFINE f == [vendor |-> Vendor[s], serial |-> serial, id |-> id]
<1>1. f \in Frame
  BY Zenon DEF Frame
<1>2. datagrams \in Seq(Frame) /\ datagrams' = Append(datagrams, f)
  BY Zenon DEF Emit, LinkInv, LinkTypeOK
<1> HIDE DEF f
<1>3. datagrams' \in Seq(Frame)
  BY <1>1, <1>2, Appended, Zenon
<1>4. QED
  BY <1>3, Zenon DEF Emit, CyclicOK, LinkInv, LinkTypeOK

LEMMA TransportTyped ==
  ASSUME LinkInv, NEW t \in Transports, TransportStep(t), UNCHANGED originator
  PROVE  ScannerMove(t) /\ RestTyped
<1> DEFINE r == transport[t]
<1>1. /\ LinkTypeOK /\ ListenerInStep /\ Owned(t) /\ t \in Scanners /\ r \in TransportState
      /\ TransportOK(r)
  <2>1. t \in Users /\ t \in Scanners
    BY Kinds, Zenon DEF Users
  <2>2. QED
    BY <2>1, Zenon DEF LinkInv, LinkTypeOK, UsersOK, TransportsOK, TransportOK, ListenerInStep
<1>2. originator' \in [Originators -> OriginatorState]
  BY <1>1, Zenon DEF LinkTypeOK
<1>3. ASSUME Only PROVE CyclicOK'
  BY <1>1, <1>3, Zenon DEF LinkTypeOK, CyclicOK, Only, cyclic
<1>4. ASSUME UNCHANGED abandoned PROVE abandoned' \in [Scanners -> Nat]
  BY <1>1, <1>4, Zenon DEF LinkTypeOK
<1>5. ASSUME NEW b, transport' = [transport EXCEPT ![t] = b],
             transport' \in [Transports -> TransportState], TransportOK(b)
      PROVE  TransportsOK'
  <2>1. b \in TransportState
    BY <1>1, <1>5, Zenon DEF LinkTypeOK
  <2>2. QED
    BY <1>5, <2>1, TransportBecomes, Zenon
<1>6. CASE Connect(t)
  <2>1. ScannerMove(t) /\ transport' \in [Transports -> TransportState]
    BY <1>1, <1>6, ConnectMove, Zenon
  <2>2. PICK c \in FreeSocket :
          transport' = [transport EXCEPT ![t].phase = "registering", ![t].socket = c]
    BY <1>6, Zenon DEF Connect
  <2> DEFINE b == [r EXCEPT !.phase = "registering", !.socket = c]
  <2>3. transport' = [transport EXCEPT ![t] = b]
    BY <2>2, <1>1, Zenon DEF LinkTypeOK
  <2>4. b.phase = "registering" /\ b.listener = r.listener /\ r.phase = "idle"
    BY <1>1, <1>6, Zenon DEF TransportState, Connect
  <2> HIDE DEF b
  <2>5. TransportOK(b)
    BY <1>1, <2>4, Zenon DEF TransportOK
  <2>6. QED
    BY <1>2, <1>3, <1>4, <1>5, <1>6, <2>1, <2>3, <2>5, Zenon DEF Connect, RestTyped
<1>7. CASE RequestOpen(t)
  <2>1. ScannerMove(t) /\ transport' \in [Transports -> TransportState]
    BY <1>1, <1>7, RequestOpenMove, Zenon
  <2>2. PICK serial \in Serials :
          transport' = [transport EXCEPT ![t].phase = "opening", ![t].serial = serial,
            ![t].session = Head(sockets[r.socket].replies).value,
            ![t].listener = [bound |-> TRUE, io_state |-> 1]]
    BY <1>7, Zenon DEF RequestOpen
  <2> DEFINE b == [r EXCEPT !.phase = "opening", !.serial = serial,
                     !.session = Head(sockets[r.socket].replies).value,
                     !.listener = [bound |-> TRUE, io_state |-> 1]]
  <2>3. transport' = [transport EXCEPT ![t] = b]
    BY <2>2, <1>1, Zenon DEF LinkTypeOK
  <2>4. /\ b.phase = "opening" /\ b.serial = serial
        /\ b.listener = [bound |-> TRUE, io_state |-> 1]
    BY <1>1, Zenon DEF TransportState
  <2> HIDE DEF b
  <2>5. TransportOK(b)
    <3>1. b.listener.bound /\ b.listener.io_state = 1
      BY <2>4
    <3>2. b.phase \notin {"idle", "registering"}
      BY <2>4, Zenon
    <3>3. QED
      BY <2>4, <3>1, <3>2, Zenon DEF TransportOK
  <2>6. QED
    BY <1>2, <1>3, <1>4, <1>5, <1>7, <2>1, <2>3, <2>5, Zenon DEF RequestOpen, RestTyped
<1>8. CASE Opened(t)
  <2> DEFINE b == [r EXCEPT !.phase = "connected",
                            !.id = Head(sockets[r.socket].replies).value]
  <2>1. ScannerMove(t) /\ transport' \in [Transports -> TransportState]
    BY <1>1, <1>8, OpenedMove, Zenon
  <2>2. transport' = [transport EXCEPT ![t] = b]
    BY <1>1, <1>8, Zenon DEF LinkTypeOK, Opened
  <2>3. /\ b.phase = "connected" /\ b.serial = r.serial /\ b.listener = r.listener
        /\ r.phase = "opening"
    BY <1>1, <1>8, Zenon DEF TransportState, Opened
  <2> HIDE DEF b
  <2>4. TransportOK(b)
    BY <1>1, <2>3, Zenon DEF TransportOK
  <2>5. QED
    BY <1>2, <1>3, <1>4, <1>5, <1>8, <2>1, <2>2, <2>4, Zenon DEF Opened, RestTyped
<1>9. CASE Disconnect(t)
  <2> DEFINE b == [r EXCEPT !.phase = "closing"]
  <2>1. ScannerMove(t) /\ transport' \in [Transports -> TransportState]
    BY <1>1, <1>9, DisconnectMove, Zenon
  <2>2. transport' = [transport EXCEPT ![t] = b]
    BY <1>1, <1>9, Zenon DEF LinkTypeOK, Disconnect
  <2>3. /\ b.phase = "closing" /\ b.serial = r.serial /\ b.listener = r.listener
        /\ r.phase = "connected"
    BY <1>1, <1>9, Zenon DEF TransportState, Disconnect
  <2> HIDE DEF b
  <2>4. TransportOK(b)
    BY <1>1, <2>3, Zenon DEF TransportOK
  <2>5. QED
    BY <1>2, <1>3, <1>4, <1>5, <1>9, <2>1, <2>2, <2>4, Zenon DEF Disconnect, RestTyped
<1>10. ASSUME Forget(t) PROVE TransportsOK'
  <2>1. PICK b \in TransportState :
          /\ transport' = [transport EXCEPT ![t] = b]
          /\ b.phase = "idle" /\ ~b.listener.bound
    BY <1>1, <1>10, ForgetMakes, Zenon
  <2>2. TransportOK(b)
    BY <2>1, Zenon DEF TransportOK
  <2>3. QED
    BY <2>1, <2>2, TransportBecomes, Zenon
<1>11. ASSUME NEW abrupt \in BOOLEAN, r.phase # "idle", Fails(t, abrupt)
       PROVE  ScannerMove(t) /\ RestTyped
  <2>1. ScannerMove(t) /\ transport' \in [Transports -> TransportState]
    BY <1>1, <1>11, FailsMove, Zenon
  <2>2. abandoned' \in [Scanners -> Nat]
    BY <1>1, <1>11, AbandonedOnce, Zenon DEF Fails
  <2>3. QED
    BY <1>2, <1>3, <1>10, <1>11, <2>1, <2>2, Zenon DEF Fails, RestTyped
<1>12. CASE ConnectFails(t) \/ DisconnectFails(t)
  <2>1. r.phase # "idle" /\ \E abrupt \in BOOLEAN : Fails(t, abrupt)
    BY <1>12, Zenon DEF ConnectFails, DisconnectFails
  <2>2. QED
    BY <1>11, <2>1, Zenon
<1>13. CASE Disconnected(t)
  <2>1. ScannerMove(t) /\ transport' \in [Transports -> TransportState]
    BY <1>1, <1>13, DisconnectedMove, Zenon
  <2>2. QED
    BY <1>2, <1>3, <1>4, <1>10, <1>13, <2>1, Zenon DEF Disconnected, RestTyped
<1>14. CASE EmitFrame(t)
  <2>1. r.phase = "connected" /\ Emit(Vendor[t], r.serial, r.id)
        /\ UNCHANGED <<transport, abandoned>>
    BY <1>14, Zenon DEF EmitFrame
  <2>2. r.serial \in Serials /\ r.id \in Ids
    BY <1>1, <2>1, TransportFields, Zenon DEF TransportOK
  <2>3. CyclicOK'
    BY <1>1, <2>1, <2>2, EmitTyped, Zenon
  <2>4. TransportsOK' /\ transport' \in [Transports -> TransportState]
    BY <1>1, <2>1, Zenon DEF LinkInv, LinkTypeOK, TransportsOK
  <2>5. ScannerMove(t)
    BY <1>14, EmitFrameMove, Zenon
  <2>6. QED
    BY <1>2, <1>4, <2>1, <2>3, <2>4, <2>5, Zenon DEF RestTyped
<1>15. QED
  BY <1>6, <1>7, <1>8, <1>9, <1>12, <1>13, <1>14, Zenon DEF TransportStep

LEMMA OriginatorTyped ==
  ASSUME LinkInv, NEW o \in Originators, OriginatorStep(o)
  PROVE  ScannerMove(o) /\ RestTyped
<1>1. /\ LinkTypeOK /\ Owned(o) /\ o \in Scanners
  BY NotATransport, Zenon DEF LinkInv, UsersOK
<1>2. UNCHANGED transport
  BY Zenon DEF OriginatorStep, OpenSession, RequestForwardOpen, StartListening, EmitZeros,
       RequestForwardClose, CloseAfterRefusal, CloseAfterTimeout, Finish, FinishUnanswered,
       Kill, Leaves, Calm
<1>3. transport' \in [Transports -> TransportState] /\ TransportsOK'
  BY <1>1, <1>2, Zenon DEF LinkInv, LinkTypeOK, TransportsOK
<1>4. ASSUME Calm PROVE CyclicOK'
  BY <1>1, <1>4, Zenon DEF LinkTypeOK, CyclicOK, Calm, cyclic
<1>5. ASSUME UNCHANGED abandoned PROVE abandoned' \in [Scanners -> Nat]
  BY <1>1, <1>5, Zenon DEF LinkTypeOK
<1>6. CASE OpenSession(o)
  BY <1>1, <1>3, <1>4, <1>5, <1>6, OpenSessionMove, Zenon DEF OpenSession, RestTyped
<1>7. CASE RequestForwardOpen(o)
  BY <1>1, <1>3, <1>4, <1>5, <1>7, RequestForwardOpenMove, Zenon
     DEF RequestForwardOpen, RestTyped
<1>8. CASE StartListening(o)
  BY <1>1, <1>3, <1>4, <1>5, <1>8, StartListeningMove, Zenon DEF StartListening, RestTyped
<1>9. CASE RequestForwardClose(o) \/ CloseAfterRefusal(o) \/ CloseAfterTimeout(o)
  BY <1>1, <1>3, <1>4, <1>5, <1>9, ForwardCloseMove, Zenon
     DEF RequestForwardClose, CloseAfterRefusal, CloseAfterTimeout, RestTyped
<1>10. CASE Finish(o) \/ FinishUnanswered(o) \/ Kill(o)
  <2>1. ScannerMove(o) /\ originator' \in [Originators -> OriginatorState]
    BY <1>1, <1>10, RunEndsMove, Zenon
  <2>2. \/ abandoned' = [abandoned EXCEPT ![o] = @ + 1]
        \/ \E clean \in BOOLEAN :
             abandoned' = [abandoned EXCEPT ![o] = IF clean THEN @ ELSE @ + 1]
    <3>1. (~originator[o].timed_out) \in BOOLEAN /\ FALSE \in BOOLEAN
      BY Zenon
    <3>2. CASE Finish(o)
      <4>1. abandoned' = [abandoned EXCEPT ![o] = IF ~originator[o].timed_out THEN @ ELSE @ + 1]
        BY <3>2, Zenon DEF Finish, Leaves
      <4>2. QED
        BY <3>1, <4>1, Zenon
    <3>3. CASE FinishUnanswered(o)
      <4>1. abandoned' = [abandoned EXCEPT ![o] = IF FALSE THEN @ ELSE @ + 1]
        BY <3>3, Zenon DEF FinishUnanswered, Leaves
      <4>2. QED
        BY <4>1, Zenon
    <3>4. CASE Kill(o)
      BY <3>4, Zenon DEF Kill
    <3>5. QED
      BY <1>10, <3>2, <3>3, <3>4, Zenon
  <2>3. abandoned' \in [Scanners -> Nat]
    BY <1>1, <2>2, AbandonedOnce, Zenon
  <2>4. Calm
    BY <1>10, Zenon DEF Finish, FinishUnanswered, Kill, Leaves
  <2>5. QED
    BY <1>3, <1>4, <2>1, <2>3, <2>4, Zenon DEF RestTyped
<1>11. CASE EmitZeros(o)
  <2>1. /\ Emit(Vendor[o], FirstSerial, originator[o].id)
        /\ UNCHANGED <<transport, abandoned, originator>>
    BY <1>11, Zenon DEF EmitZeros
  <2>2. originator[o].id \in Ids /\ FirstSerial \in Serials
    BY <1>1, OriginatorFields, OriginatorAssumption, Zenon DEF LinkTypeOK
  <2>3. CyclicOK'
    BY <1>1, <2>1, <2>2, EmitTyped, Zenon
  <2>4. ScannerMove(o) /\ originator' \in [Originators -> OriginatorState]
    BY <1>1, <1>11, <2>1, EmitZerosMove, Zenon DEF LinkTypeOK
  <2>5. QED
    BY <1>3, <1>5, <2>1, <2>3, <2>4, Zenon DEF RestTyped
<1>12. QED
  BY <1>6, <1>7, <1>8, <1>9, <1>10, <1>11, Zenon DEF OriginatorStep

\* What a step of a scanner does to its TCP connection, whatever the step is.
LEMMA MoveEffect ==
  ASSUME LinkInv, NEW s \in Users, ScannerMove(s)
  PROVE  \/ Rests(s)
         \/ sockets' \in [SocketIds -> Socket] /\ \E c \in SocketIds : Effect(s, c)
<1>1. /\ LinkTypeOK /\ Owned(s) /\ \A c \in SocketIds : SocketOK(sockets[c])
      /\ Phase(s) = "registering" => Lacks(sockets[Current(s)], "open")
  BY Zenon DEF LinkInv, SocketsOK, UsersOK
<1>2. CASE Dials(s)
  BY <1>1, <1>2, DialsEffect, Zenon
<1>3. CASE Opens(s)
  BY <1>1, <1>3, OpensEffect, Zenon DEF Opens
<1>4. CASE Reads(s)
  BY <1>1, <1>4, ReadsEffect, Zenon
<1>5. CASE Closes(s)
  BY <1>1, <1>5, ClosesEffect, Zenon
<1>6. CASE Goes(s)
  BY <1>1, <1>6, GoesEffect, Zenon
<1>7. QED
  BY <1>2, <1>3, <1>4, <1>5, <1>6, Zenon DEF ScannerMove

LEMMA ScannerKeeps ==
  ASSUME LinkInv, NEW s \in Users, ScannerMove(s), RestTyped
  PROVE  LinkInv'
<1>1. /\ LinkTypeOK /\ TablesOK /\ SocketsOK /\ UsersOK /\ Counted
      /\ sockets \in [SocketIds -> Socket]
  BY Zenon DEF LinkInv, LinkTypeOK, TablesOK
<1>2. TablesOK' /\ UNCHANGED <<next_session, next_connection_id>>
  BY <1>1, Zenon DEF ScannerMove, ServerRests, TablesOK, tables
<1>3. \A u \in Users \ {s} : State(u)' = State(u)
  BY Zenon DEF ScannerMove, OthersRest
<1>4. CASE Rests(s)
  <2>1. sockets' = sockets /\ \A u \in Users : State(u)' = State(u)
    BY <1>3, <1>4, Zenon DEF Rests
  <2>2. LinkTypeOK'
    BY <1>1, <1>2, <2>1, Zenon DEF LinkTypeOK, TablesOK, CyclicOK, RestTyped
  <2>3. SocketsOK' /\ UsersOK'
    <3>1. SocketsOK'
      BY <1>1, <2>1, Zenon DEF SocketsOK
    <3>2. ASSUME NEW u \in Users
          PROVE  Owned(u)' /\ (Phase(u)' = "registering" => Lacks(sockets[Current(u)], "open")')
      <4>1. /\ Phase(u)' = Phase(u) /\ Current(u)' = Current(u) /\ Owned(u)
            /\ Phase(u) = "registering" => Lacks(sockets[Current(u)], "open")
        BY <1>1, <2>1, Zenon DEF UsersOK, Phase, Current
      <4>2. QED
        BY <2>1, <4>1, Zenon DEF Owned, Lacks
    <3>3. QED
      BY <3>1, <3>2, Zenon DEF UsersOK
  <2>4. Registered' = Registered /\ Spent' = Spent
    BY <2>1, Zenon DEF Registered, Spent, MayOpen, Phase, Current
  <2>5. QED
    BY <1>1, <1>2, <2>2, <2>3, <2>4, Zenon DEF LinkInv, Counted, RestTyped
<1>5. ASSUME NEW c \in SocketIds, Effect(s, c), sockets' \in [SocketIds -> Socket]
      PROVE  LinkInv'
  <2>1. LinkTypeOK'
    BY <1>2, <1>5, Zenon DEF LinkTypeOK, TablesOK, CyclicOK, RestTyped
  <2>2. SocketsOK'
    BY <1>1, <1>5, Zenon DEF SocketsOK, Effect
  <2>3. ASSUME NEW u \in Users \ {s}, Phase(u)' # "idle"
        PROVE  /\ Phase(u)' = Phase(u) /\ Current(u)' = Current(u) /\ Current(u) # c
               /\ Current(u) \in SocketIds /\ sockets'[Current(u)] = sockets[Current(u)]
    <3>1. /\ Phase(u)' = Phase(u) /\ Current(u)' = Current(u) /\ Owned(u)
      BY <1>1, <1>3, Zenon DEF Phase, Current, UsersOK
    <3>2. Current(u) # c
      BY <1>5, <2>3, <3>1, Zenon DEF Owned, Effect
    <3>3. QED
      BY <1>5, <2>3, <3>1, <3>2, Zenon DEF Owned, Effect
  <2>4. ASSUME NEW u \in Users PROVE Owned(u)'
    <3>1. CASE u = s
      BY <1>5, <3>1, Zenon DEF Owned, Effect
    <3>2. CASE u # s /\ Phase(u)' # "idle"
      <4>1. Owned(u)
        BY <1>1, Zenon DEF UsersOK
      <4>2. QED
        BY <2>3, <3>2, <4>1, Zenon DEF Owned
    <3>3. QED
      BY <3>1, <3>2, Zenon DEF Owned
  <2>5. ASSUME NEW u \in Users, Phase(u)' = "registering"
        PROVE  Lacks(sockets'[Current(u)'], "open")
    <3>1. CASE u = s
      BY <1>5, <2>5, <3>1, Zenon DEF Effect
    <3>2. CASE u # s
      BY <1>1, <2>3, <2>5, <3>2, Zenon DEF UsersOK
    <3>3. QED
      BY <3>1, <3>2, Zenon
  <2>6. UsersOK'
    <3>1. ASSUME NEW u \in Users, Phase(u)' = "registering"
          PROVE  Lacks(sockets[Current(u)], "open")'
      <4>1. Lacks(sockets'[Current(u)'], "open")
        BY <2>5, <3>1, Zenon
      <4>2. QED
        BY <4>1, Zenon
    <3>2. QED
      BY <2>4, <3>1, Zenon DEF UsersOK
  <2>7. \A d \in SocketIds : sockets'[d].handle = sockets[d].handle
    BY <1>5, Zenon DEF Effect
  <2>8. Registered' = Registered
    BY <2>7, Zenon DEF Registered
  <2>9. ASSUME NEW d \in SocketIds, MayOpen(d)' PROVE MayOpen(d)
    <3>1. CASE \E u \in Users \ {s} : Phase(u)' = "registering" /\ Current(u)' = d
      BY <2>3, <3>1, Zenon DEF MayOpen
    <3>2. CASE d = c /\ ~\E u \in Users \ {s} : Phase(u)' = "registering" /\ Current(u)' = d
      BY <1>5, <2>9, <3>2, Zenon DEF MayOpen, Effect
    <3>3. CASE d # c /\ ~\E u \in Users \ {s} : Phase(u)' = "registering" /\ Current(u)' = d
      <4>1. "registering" # "idle"
        BY Zenon
      <4>2. ~(Phase(s)' = "registering" /\ Current(s)' = d) /\ sockets'[d] = sockets[d]
        <5>1. \A e \in SocketIds \ {c} : sockets'[e] = sockets[e]
          BY <1>5, Zenon DEF Effect
        <5>2. sockets'[d] = sockets[d]
          BY <3>3, <5>1, Zenon
        <5>3. Phase(s)' # "idle" => Current(s)' = c
          BY <1>5, Zenon DEF Effect
        <5>4. ASSUME Phase(s)' = "registering" PROVE Current(s)' # d
          BY <3>3, <4>1, <5>3, <5>4, Zenon
        <5>5. QED
          BY <5>2, <5>4, Zenon
      <4>3. ~\E u \in Users : Phase(u)' = "registering" /\ Current(u)' = d
        BY <3>3, <4>2, Zenon
      <4>4. sockets'[d].thread = "unused" \/ ~Lacks(sockets'[d], "open")
        BY <2>9, <4>3, Zenon DEF MayOpen
      <4>5. sockets[d].thread = "unused" \/ ~Lacks(sockets[d], "open")
        BY <4>2, <4>4, Zenon DEF Lacks
      <4>6. QED
        BY <4>5, Zenon DEF MayOpen
    <3>4. QED
      BY <3>1, <3>2, <3>3, Zenon
  <2>10. Spent \in SUBSET SocketIds /\ Spent' \in SUBSET SocketIds /\ Spent \subseteq Spent'
    BY <2>9, Zenon DEF Spent
  <2>11. next_connection_id' <= Cardinality(Spent')
    <3>1. /\ Cardinality(Spent) \in Nat /\ Cardinality(Spent') \in Nat
          /\ Cardinality(Spent) <= Cardinality(Spent')
      BY <2>10, CountsUp, Zenon
    <3>2. next_connection_id \in Nat /\ next_connection_id <= Cardinality(Spent)
      BY <1>1, Ranges, Zenon DEF LinkTypeOK, Counted
    <3>3. QED
      BY <1>2, <3>1, <3>2
  <2>12. QED
    BY <1>1, <1>2, <2>1, <2>2, <2>6, <2>8, <2>11, Zenon DEF LinkInv, Counted, RestTyped
<1>6. QED
  BY <1>4, <1>5, MoveEffect, Zenon

LEMMA LinkStutters ==
  ASSUME LinkInv, UNCHANGED linkVars
  PROVE  LinkInv'
<1>1. /\ LinkTypeOK' /\ SocketsOK' /\ TransportsOK'
  BY Zenon DEF LinkInv, LinkTypeOK, SocketsOK, TransportsOK, linkVars, serverVars, tables,
               cyclic
<1>2. UsersOK' /\ Counted'
  BY Zenon DEF LinkInv, UsersOK, Counted, Registered, Spent, MayOpen, Owned, Phase, Current,
               State, linkVars, serverVars, tables, cyclic
<1>3. QED
  BY <1>1, <1>2, Zenon DEF LinkInv

LEMMA LinkInvNext ==
  ASSUME LinkInv, [NextLink]_linkVars
  PROVE  LinkInv'
<1>1. CASE ServerStep /\ UNCHANGED <<transport, originator, abandoned>>
  BY <1>1, ServerKeeps, Zenon
<1>2. ASSUME NEW t \in Transports, TransportStep(t), UNCHANGED originator
      PROVE  LinkInv'
  BY <1>2, TransportTyped, ScannerKeeps, Zenon DEF Users
<1>3. ASSUME NEW o \in Originators, OriginatorStep(o)
      PROVE  LinkInv'
  BY <1>3, OriginatorTyped, ScannerKeeps, Zenon DEF Users
<1>4. CASE UNCHANGED linkVars
  BY <1>4, LinkStutters, Zenon
<1>5. QED
  BY <1>1, <1>2, <1>3, <1>4, Zenon DEF NextLink

\* Somebody connects: otherwise a TCP connection has no owner to begin with.
LEMMA LinkInvInit ==
  ASSUME InitLink, Scanners # {}
  PROVE  LinkInv
<1>1. \A c \in SocketIds : \E s \in Scanners : sockets[c] = UnusedSocket(s)
  BY Zenon DEF InitLink, InitServer
<1>2. NoReply \in Reply
  BY Ranges, ReplyTyped, Zenon DEF NoReply
<1>3. <<>> \in Seq(Reply) /\ <<>> \in Seq(Request) /\ <<>> \in Seq(Frame) /\ Len(<<>>) = 0
  BY EmptySeq, Zenon
<1>4. ASSUME NEW s \in Scanners
      PROVE  /\ UnusedSocket(s) \in Socket /\ UnusedSocket(s).handle = 0
             /\ UnusedSocket(s).thread = "unused" /\ UnusedSocket(s).requests = <<>>
  BY <1>2, <1>3, Ranges, Zenon DEF UnusedSocket, Socket, ThreadStages
<1>5. sockets \in [SocketIds -> Socket]
  <2>1. sockets = [c \in SocketIds |-> sockets[c]]
    BY Zenon DEF InitLink, InitServer
  <2>2. \A c \in SocketIds : sockets[c] \in Socket
    BY <1>1, <1>4, Zenon
  <2>3. QED
    BY <2>1, <2>2, Zenon
<1>6. SocketsOK
  <2>1. ASSUME NEW c \in SocketIds
        PROVE  sockets[c].requests = <<>> /\ sockets[c].handle = 0
    BY <1>1, <1>4, Zenon
  <2>2. QED
    BY <2>1, NoneLeft, Zenon DEF SocketsOK, SocketOK
<1>7. /\ \A t \in Transports : /\ transport[t].phase = "idle"
                               /\ transport[t].listener = NoListener
      /\ transport \in [Transports -> TransportState]
  <2>1. NoListener \in Listener
    BY Zenon DEF NoListener, Listener
  <2>2. [phase |-> "idle", socket |-> 0, session |-> 0, serial |-> 0, id |-> 0,
         listener |-> NoListener] \in TransportState
    BY <2>1, Ranges, Zenon DEF TransportState, Phases
  <2>3. QED
    BY <2>2, Zenon DEF InitLink, InitTransport
<1>8. /\ \A o \in Originators : originator[o].phase = "idle"
      /\ originator \in [Originators -> OriginatorState]
  BY IdleRunTyped, Zenon DEF InitLink, InitOriginator
<1>9. TransportsOK
  <2>1. ~NoListener.bound /\ "idle" \notin {"opening", "connected", "closing"}
    BY Zenon DEF NoListener
  <2>2. QED
    BY <1>7, <2>1, Zenon DEF TransportsOK, TransportOK
<1>10. UsersOK
  <2>1. ASSUME NEW s \in Users PROVE Phase(s) = "idle"
    BY <1>7, <1>8, Kinds, Zenon DEF Phase, State
  <2>2. "idle" # "registering"
    BY Zenon
  <2>3. QED
    BY <2>1, <2>2, Zenon DEF UsersOK, Owned
<1>11. Counted
  <2>1. Registered \in SUBSET SocketIds /\ Spent \in SUBSET SocketIds
    BY Zenon DEF Registered, Spent
  <2>2. Cardinality(Registered) \in Nat /\ Cardinality(Spent) \in Nat
    BY <2>1, CountsUp, Zenon
  <2>3. next_session = 1 /\ next_connection_id = 0
    BY Zenon DEF InitLink, InitServer
  <2>4. QED
    BY <2>2, <2>3 DEF Counted
<1>12. LinkTypeOK
  <2>1. 0 \in 0 .. MaxStarts /\ 1 \in 1 .. MaxSockets + 1
    BY ServerAssumption
  <2>2. abandoned \in [Scanners -> Nat]
    <3>1. abandoned = [s \in Scanners |-> 0] /\ 0 \in Nat
      BY SMT DEF InitLink
    <3>2. QED
      BY <3>1, Zenon
  <2>3. older \in [Ids -> SUBSET Ids]
    BY Zenon DEF InitLink, InitServer
  <2>4. QED
    BY <1>3, <1>5, <1>7, <1>8, <2>1, <2>2, <2>3, Ranges, Zenon
       DEF LinkTypeOK, InitLink, InitServer
<1>13. QED
  BY <1>6, <1>9, <1>10, <1>11, <1>12, Zenon DEF LinkInv

\* Types, the ranges of the counters of the server, and with them: a TCP
\* connection registers one session and opens one connection at most.
THEOREM LinkTypeCorrect ==
  ASSUME Scanners # {}
  PROVE  LinkSpec => []LinkTypeOK
<1>1. InitLink => LinkInv
  BY LinkInvInit, Zenon
<1>2. LinkInv /\ [NextLink]_linkVars => LinkInv'
  BY LinkInvNext, Zenon
<1>3. LinkInv => LinkTypeOK
  BY Zenon DEF LinkInv
<1>4. QED
  BY <1>1, <1>2, <1>3, PTL DEF LinkSpec

----------------------------------------------------------------------------
(* 3. What stop and the shutdown of the listener leave.                    *)

\* A server that is down runs no thread, and a frame is only under way inside
\* of the receive loop.
StoppedInv ==
  /\ stage = "down" =>
       threads = {} /\ Serving = {} /\ connections = {} /\ sessions = {}
  /\ applying # NoFrame => "receive" \in threads

LEMMA StoppedServer ==
  ASSUME LinkInv, StoppedInv, ServerStep
  PROVE  StoppedInv'
<1>1. ASSUME NEW c \in SocketIds, SessionStep(c)
      PROVE  stage' # "down" /\ UNCHANGED <<threads, applying>>
  <2>1. c \in Serving
    BY <1>1, Zenon DEF SessionStep, RegisterSession, UnregisterSession, RefuseSession,
         ForwardOpen, RefuseForwardOpen, ForwardClose, SetItems, CollectItems, Answer,
         SessionEnds, Takes, Serving
  <2>2. UNCHANGED <<stage, threads, applying>>
    BY <1>1, Zenon DEF SessionStep, RegisterSession, UnregisterSession, RefuseSession,
         ForwardOpen, RefuseForwardOpen, ForwardClose, SetItems, CollectItems, Answer,
         SessionEnds, cyclic
  <2>3. QED
    BY <2>1, <2>2, Zenon DEF StoppedInv
<1>2. ASSUME NEW c \in SocketIds, Accept(c)
      PROVE  stage' # "down" /\ UNCHANGED <<threads, applying>>
  BY <1>2, Zenon DEF Accept, StoppedInv, cyclic
<1>3. CASE StartServer \/ StopServer
  <2>1. stage' # "down" /\ applying' = applying
    BY <1>3, Zenon DEF StartServer, StopServer, cyclic
  <2>2. applying # NoFrame => "receive" \in threads'
    BY <1>3, Zenon DEF StartServer, StopServer, StoppedInv, Loops
  <2>3. QED
    BY <2>1, <2>2, Zenon DEF StoppedInv
<1>4. CASE StopReturns
  <2>1. \A c \in SocketIds : sockets'[c].thread \in {"unused", "ended"}
    BY <1>4, StopReturnsMoves, Zenon DEF LinkInv, LinkTypeOK
  <2>2. Serving' = {}
    BY <2>1, Zenon DEF Serving
  <2>3. QED
    BY <1>4, <2>2, Zenon DEF StopReturns, StoppedInv, cyclic
<1>5. CASE \E t \in Loops : LoopEnds(t)
  BY <1>5, Zenon DEF LoopEnds, StoppedInv, cyclic
<1>6. CASE Receive \/ Apply \/ LoseDatagram
  BY <1>6, Zenon DEF Receive, Apply, LoseDatagram, StoppedInv, Serving, tables
<1>7. QED
  BY <1>1, <1>2, <1>3, <1>4, <1>5, <1>6, Zenon DEF ServerStep, StoppedInv

LEMMA StoppedScanner ==
  ASSUME LinkInv, StoppedInv, NEW s \in Users, ScannerMove(s)
  PROVE  StoppedInv'
<1>1. UNCHANGED <<stage, threads, connections, sessions, applying>>
  BY Zenon DEF ScannerMove, ServerRests, tables
<1>2. ASSUME NEW c \in SocketIds
      PROVE  sockets'[c].thread \in {"backlog", sockets[c].thread}
  BY MoveEffect, Zenon DEF Effect, Rests
<1>3. Serving' \subseteq Serving
  BY <1>2, Zenon DEF Serving
<1>4. QED
  BY <1>1, <1>3, Zenon DEF StoppedInv

LEMMA StoppedNext ==
  ASSUME LinkInv, StoppedInv, [NextLink]_linkVars
  PROVE  StoppedInv'
<1>1. CASE ServerStep
  BY <1>1, StoppedServer, Zenon
<1>2. ASSUME NEW t \in Transports, TransportStep(t), UNCHANGED originator
      PROVE  StoppedInv'
  BY <1>2, TransportTyped, StoppedScanner, Zenon DEF Users
<1>3. ASSUME NEW o \in Originators, OriginatorStep(o)
      PROVE  StoppedInv'
  BY <1>3, OriginatorTyped, StoppedScanner, Zenon DEF Users
<1>4. CASE UNCHANGED linkVars
  BY <1>4, Zenon DEF StoppedInv, Serving, linkVars, serverVars, tables, cyclic
<1>5. QED
  BY <1>1, <1>2, <1>3, <1>4, Zenon DEF NextLink

\* A server that has stopped has forgotten every session and connection, and
\* hands no frame to the robot any more: stop joins its threads before it
\* clears the tables.
THEOREM StopClears ==
  ASSUME Scanners # {}
  PROVE  LinkSpec => []StoppedIsEmpty
<1>1. InitLink => LinkInv
  BY LinkInvInit, Zenon
<1>2. InitLink => StoppedInv
  <2>1. SUFFICES ASSUME InitLink PROVE StoppedInv
    OBVIOUS
  <2>2. ASSUME NEW c \in SocketIds PROVE sockets[c].thread = "unused"
    BY <2>1, Zenon DEF InitLink, InitServer, UnusedSocket
  <2>3. Serving = {}
    BY <2>2, Zenon DEF Serving
  <2>4. QED
    BY <2>1, <2>3, Zenon DEF InitLink, InitServer, StoppedInv
<1>3. LinkInv /\ [NextLink]_linkVars => LinkInv'
  BY LinkInvNext, Zenon
<1>4. LinkInv /\ StoppedInv /\ [NextLink]_linkVars => StoppedInv'
  BY StoppedNext, Zenon
<1>5. LinkInv /\ StoppedInv => StoppedIsEmpty
  <2>1. LinkInv /\ StoppedInv /\ stage = "down" => applying = NoFrame
    BY Zenon DEF StoppedInv
  <2>2. QED
    BY <2>1, Zenon DEF StoppedInv, StoppedIsEmpty
<1>6. QED
  BY <1>1, <1>2, <1>3, <1>4, <1>5, PTL DEF LinkSpec

\* The receiving socket of the stack is closed by every way out of connect and
\* of disconnect, however the shutdown of the listener went, and is there while
\* the connection is.
THEOREM ListenerIsReleased ==
  ASSUME Scanners # {}
  PROVE  LinkSpec => []ListenerReleased
<1>1. InitLink => LinkInv
  BY LinkInvInit, Zenon
<1>2. LinkInv /\ [NextLink]_linkVars => LinkInv'
  BY LinkInvNext, Zenon
<1>3. LinkInv => ListenerReleased
  BY Zenon DEF LinkInv, TransportsOK, TransportOK, ListenerReleased
<1>4. QED
  BY <1>1, <1>2, <1>3, PTL DEF LinkSpec

----------------------------------------------------------------------------
(* 4. Who has a message under way. A scanner has one at most, unless a     *)
(* wait of it has timed out; so it has asked to close its connection only  *)
(* once it is done with it.                                                *)

\* The scanners are those that are modelled, each with a vendor id of its own.
Cast ==
  /\ Scanners = Users
  /\ \A s, u \in Scanners : Vendor[s] = Vendor[u] => s = u

\* A request has been handled, and is yet to be answered.
Busy(a) == a.thread \in {"opened", "answered", "collected"}

\* One message is under way at most on a TCP connection: a request, the one that
\* is being handled, or a reply.
OneMessage(a) ==
  \/ a.requests = <<>> /\ a.replies = <<>>
  \/ ~Busy(a) /\ Len(a.requests) = 1 /\ a.replies = <<>>
  \/ ~Busy(a) /\ a.requests = <<>> /\ Len(a.replies) = 1

Quiet(a) == a.requests = <<>> /\ a.replies = <<>> /\ ~Busy(a)

InStep(s) ==
  Phase(s) # "idle" /\ ~Late(s) =>
    /\ OneMessage(sockets[Current(s)])
    /\ Phase(s) \in {"connected", "listening"} => Quiet(sockets[Current(s)])

\* The last thing a scanner asks for, on the TCP connection it has.
ClosesOwn(s) ==
  \A c \in SocketIds :
    sockets[c].owner = s /\ sockets[c].thread # "unused" /\ ~Lacks(sockets[c], "close") =>
      Phase(s) = "closing" /\ Current(s) = c

ScannerInv(s) ==
  /\ Late(s) => Phase(s) \in {"closing", "idle"}
  /\ InStep(s)
  /\ abandoned[s] = 0 => ClosesOwn(s)

StepInv == \A s \in Users : ScannerInv(s)

----------------------------------------------------------------------------
(* Steps of the server.                                                    *)

LEMMA Single ==
  ASSUME NEW S, NEW q \in Seq(S)
  PROVE  /\ Len(q) = 1 => q # <<>> /\ Tail(q) = <<>>
         /\ Len(q) = 0 => q = <<>>
         /\ \A m \in S : q = <<>> => Len(Append(q, m)) = 1
<1>1. ASSUME Len(q) = 0 PROVE q = <<>>
  BY <1>1, EmptySeq
<1>2. ASSUME Len(q) = 1 PROVE q # <<>> /\ Tail(q) = <<>>
  <2>1. q # <<>>
    BY <1>2
  <2>2. Tail(q) \in Seq(S) /\ Len(Tail(q)) = 0
    BY <1>2, <2>1, Headed
  <2>3. QED
    BY <2>1, <2>2, EmptySeq
<1>3. ASSUME NEW m \in S, q = <<>> PROVE Len(Append(q, m)) = 1
  BY <1>3, Appended
<1>4. QED
  BY <1>1, <1>2, <1>3, Zenon

LEMMA MoveInStep ==
  ASSUME NEW a \in Socket, NEW b, Move(a, b)
  PROVE  /\ OneMessage(a) => OneMessage(b)
         /\ Quiet(a) => Quiet(b)
<1>1. /\ a.requests \in Seq(Request) /\ a.replies \in Seq(Reply) /\ a.reply \in Reply
  BY SocketFields, Zenon
<1>2. /\ Len(a.requests) = 1 => Tail(a.requests) = <<>>
      /\ \A m \in Reply : a.replies = <<>> => Len(Append(a.replies, m)) = 1
  BY <1>1, Single, Zenon
<1>3. Len(<<>>) # 1
  BY SMT
<1>4. CASE b = a
  BY <1>4, Zenon
<1>5. CASE Starts(a, b)
  BY <1>5, Zenon DEF Starts, OneMessage, Quiet, Busy
<1>6. CASE Serves(a, b)
  BY <1>2, <1>6, Zenon DEF Serves, OneMessage, Quiet, Busy
<1>7. CASE Handles(a, b)
  BY <1>2, <1>7, Zenon DEF Handles, OneMessage, Quiet, Busy
<1>8. CASE GoesOn(a, b)
  BY <1>8, Zenon DEF GoesOn, OneMessage, Quiet, Busy
<1>9. CASE Answers(a, b)
  BY <1>1, <1>2, <1>9, Zenon DEF Answers, OneMessage, Quiet, Busy
<1>10. CASE Ends(a, b)
  BY <1>10, Zenon DEF Ends, OneMessage, Quiet, Busy
<1>11. QED
  BY <1>4, <1>5, <1>6, <1>7, <1>8, <1>9, <1>10, Zenon DEF Move

\* A request that is handled opens a connection, or its reply does not say so.
LEMMA HandlesWhat ==
  ASSUME LinkInv, ServerStep, NEW c \in SocketIds, Handles(sockets[c], sockets'[c])
  PROVE  \/ sockets'[c].reply.kind # "opened"
         \/ ForwardOpen(c) /\ sockets'[c].reply.value = next_connection_id'
<1>1. /\ sockets \in [SocketIds -> Socket] /\ 0 \in Ids
      /\ forward_open_items \in Scanners \cup {NoItems}
  BY Ranges, Zenon DEF LinkInv, LinkTypeOK
<1>2. /\ sockets[c].thread = "reading"
      /\ sockets'[c].thread \in {"opened", "answered"}
  BY Zenon DEF Handles
<1>3. sockets' # sockets
  BY <1>2, Zenon
<1>4. ~StopReturns
  BY <1>1, <1>2, StopReturnsMoves, Zenon
<1>5. ASSUME NEW d \in SocketIds, Accept(d) \/ SessionStep(d) PROVE d = c
  <2>1. Moves(d)
    BY <1>1, <1>5, AcceptMoves, SessionMoves, Zenon
  <2>2. QED
    BY <1>2, <2>1, Zenon DEF Moves
<1>6. ~Accept(c)
  BY <1>2, Zenon DEF Accept
<1>7. SessionStep(c)
  <2>1. \/ sockets' = sockets \/ StopReturns
        \/ \E d \in SocketIds : Accept(d) \/ SessionStep(d)
    BY Zenon DEF ServerStep, StartServer, StopServer, LoopEnds, Receive, Apply, LoseDatagram
  <2>2. QED
    BY <1>3, <1>4, <1>5, <1>6, <2>1, Zenon
<1>8. ~Serves(sockets[c], sockets'[c])
  BY <1>2, Zenon DEF Serves
<1>9. ~RegisterSession(c)
  <2>1. ASSUME RegisterSession(c) PROVE next_session \in Ids
    BY <2>1, RegisterAllowed, Ranges, Zenon
  <2>2. QED
    BY <1>1, <1>8, <2>1, RegisterMoves, Zenon
<1>10. ~UnregisterSession(c) /\ ~RefuseSession(c)
  BY <1>1, <1>8, UnregisterMoves, RefuseMoves, Zenon
<1>11. ~SetItems(c) /\ ~CollectItems(c) /\ ~Answer(c)
  BY <1>2, Zenon DEF SetItems, CollectItems, Answer
<1>12. ~SessionEnds(c)
  BY <1>1, <1>2, SessionEndsMoves, Zenon
<1>13. CASE ForwardOpen(c)
  <2>1. next_connection_id' \in Ids
    BY <1>13, OpenAllowed, Zenon DEF ForwardOpen
  <2>2. QED
    BY <1>1, <1>13, <2>1, HandledMoves, Zenon DEF ForwardOpen
<1>14. CASE RefuseForwardOpen(c)
  <2>1. sockets'[c].reply.kind = "refused"
    BY <1>1, <1>14, HandledMoves, Zenon DEF RefuseForwardOpen
  <2>2. QED
    BY <2>1, Zenon
<1>15. CASE ForwardClose(c)
  <2>1. sockets'[c].reply.kind = "closed"
    BY <1>1, <1>15, HandledMoves, Zenon DEF ForwardClose
  <2>2. QED
    BY <2>1, Zenon
<1>16. QED
  BY <1>7, <1>9, <1>10, <1>11, <1>12, <1>13, <1>14, <1>15, Zenon DEF SessionStep

LEMMA ServerInStep ==
  ASSUME LinkInv, StepInv, ServerStep,
         UNCHANGED <<transport, originator, abandoned>>, NEW s \in Users
  PROVE  ScannerInv(s)'
<1> DEFINE c == Current(s)
<1>1. /\ State(s)' = State(s) /\ Phase(s)' = Phase(s) /\ Current(s)' = c
      /\ (Late(s)' <=> Late(s)) /\ abandoned'[s] = abandoned[s]
  BY Zenon DEF State, Phase, Current, Late
<1>2. ScannerInv(s) /\ Owned(s) /\ AllMove
  BY ServerMoves, Zenon DEF StepInv, LinkInv, UsersOK
<1>3. \A d \in SocketIds :
        /\ sockets[d] \in Socket /\ SocketOK(sockets[d]) /\ Move(sockets[d], sockets'[d])
  BY <1>2, Zenon DEF AllMove, LinkInv, LinkTypeOK, SocketsOK
<1>4. Late(s)' => Phase(s)' \in {"closing", "idle"}
  BY <1>1, <1>2, Zenon DEF ScannerInv
<1>5. InStep(s)'
  <2>1. SUFFICES ASSUME Phase(s) # "idle", ~Late(s)
                 PROVE  /\ OneMessage(sockets'[c])
                        /\ Phase(s) \in {"connected", "listening"} => Quiet(sockets'[c])
    BY <1>1, Zenon DEF InStep, OneMessage, Quiet, Busy
  <2>2. /\ c \in SocketIds /\ OneMessage(sockets[c])
        /\ Phase(s) \in {"connected", "listening"} => Quiet(sockets[c])
    BY <1>2, <2>1, Zenon DEF ScannerInv, InStep, Owned
  <2>3. QED
    BY <1>3, <2>2, MoveInStep, Zenon
<1>6. ASSUME abandoned'[s] = 0 PROVE ClosesOwn(s)'
  <2>1. ClosesOwn(s)
    BY <1>1, <1>2, <1>6, Zenon DEF ScannerInv
  <2>2. ASSUME NEW d \in SocketIds, sockets'[d].owner = s, sockets'[d].thread # "unused",
               ~Lacks(sockets'[d], "close")
        PROVE  Phase(s) = "closing" /\ c = d
    <3>1. /\ sockets[d].owner = s /\ ~Lacks(sockets[d], "close")
          /\ sockets[d].thread # "unused"
      BY <1>3, <2>2, MoveKeeps, Zenon
    <3>2. QED
      BY <2>1, <3>1, Zenon DEF ClosesOwn
  <2>3. QED
    BY <1>1, <2>2, Zenon DEF ClosesOwn, Lacks
<1>7. QED
  BY <1>4, <1>5, <1>6, Zenon DEF ScannerInv

----------------------------------------------------------------------------
(* Steps of a scanner.                                                     *)

\* A scanner that does not move.
LEMMA OtherScanner ==
  ASSUME LinkInv, StepInv, NEW s \in Users, ScannerMove(s), NEW u \in Users \ {s}
  PROVE  ScannerInv(u)'
<1>1. /\ State(u)' = State(u) /\ (Late(u)' <=> Late(u)) /\ abandoned'[u] = abandoned[u]
  BY Zenon DEF ScannerMove, OthersRest
<1>2. Phase(u)' = Phase(u) /\ Current(u)' = Current(u)
  BY <1>1, Zenon DEF Phase, Current
<1>3. ScannerInv(u) /\ Owned(u)
  BY Zenon DEF StepInv, LinkInv, UsersOK
<1>4. /\ Phase(u) # "idle" => sockets'[Current(u)] = sockets[Current(u)]
      /\ \A d \in SocketIds :
           sockets'[d].owner = u /\ sockets'[d].thread # "unused" => sockets'[d] = sockets[d]
  <2>1. CASE Rests(s)
    BY <2>1, Zenon DEF Rests
  <2>2. ASSUME NEW c \in SocketIds, Effect(s, c)
        PROVE  /\ Phase(u) # "idle" => sockets'[Current(u)] = sockets[Current(u)]
               /\ \A d \in SocketIds : sockets'[d].owner = u => sockets'[d] = sockets[d]
    <3>1. /\ \A d \in SocketIds \ {c} : sockets'[d] = sockets[d]
          /\ sockets[c].thread # "unused" => sockets[c].owner = s
          /\ sockets'[c].owner = s
      BY <2>2, Zenon DEF Effect
    <3>2. Phase(u) # "idle" => Current(u) \in SocketIds \ {c}
      BY <1>3, <3>1, Zenon DEF Owned
    <3>3. QED
      BY <3>1, <3>2, Zenon
  <2>3. QED
    BY <2>1, <2>2, MoveEffect, Zenon
<1>5. Late(u)' => Phase(u)' \in {"closing", "idle"}
  BY <1>1, <1>2, <1>3, Zenon DEF ScannerInv
<1>6. InStep(u)'
  BY <1>1, <1>2, <1>3, <1>4, Zenon DEF ScannerInv, InStep, OneMessage, Quiet, Busy
<1>7. ASSUME abandoned'[u] = 0 PROVE ClosesOwn(u)'
  <2>1. ClosesOwn(u)
    BY <1>1, <1>3, <1>7, Zenon DEF ScannerInv
  <2>2. QED
    BY <1>2, <1>4, <2>1, Zenon DEF ClosesOwn, Lacks
<1>8. QED
  BY <1>5, <1>6, <1>7, Zenon DEF ScannerInv

\* What a scanner finds when a reply has arrived, before it asks to close.
LEMMA ReplyAlone ==
  ASSUME NEW a \in Socket, OneMessage(a), a.replies # <<>>
  PROVE  /\ a.requests = <<>> /\ Tail(a.replies) = <<>> /\ ~Busy(a)
         /\ 1 \in 1 .. Len(a.replies) /\ a.replies[1] = Head(a.replies)
<1>1. a.replies \in Seq(Reply)
  BY SocketFields, Zenon
<1>2. a.requests = <<>> /\ ~Busy(a) /\ Len(a.replies) = 1
  BY Zenon DEF OneMessage
<1>3. Tail(a.replies) = <<>>
  BY <1>1, <1>2, Single, Zenon
<1>4. 1 \in 1 .. Len(a.replies) /\ a.replies[1] = Head(a.replies)
  BY <1>1, <1>2, Headed
<1>5. QED
  BY <1>2, <1>3, <1>4, Zenon

\* The scanner has sent one request after everything else.
LEMMA AskedAlone ==
  ASSUME NEW a \in Socket, NEW b, NEW m \in Request, a.requests = <<>>, ~Busy(a),
         b.thread = a.thread, b.requests = Append(a.requests, m), b.replies = <<>>
  PROVE  OneMessage(b)
<1>1. a.requests \in Seq(Request)
  BY SocketFields, Zenon
<1>2. Len(Append(a.requests, m)) = 1
  BY <1>1, Single, Zenon
<1>3. QED
  BY <1>2, Zenon DEF OneMessage, Busy

\* What is shown of a scanner that moves, in terms of its TCP connection then.
LEMMA Mover ==
  ASSUME NEW s \in Users, NEW c \in SocketIds,
         Late(s)' => Phase(s)' \in {"closing", "idle"},
         Phase(s)' # "idle" => Current(s)' = c,
         Phase(s)' # "idle" /\ ~Late(s)' =>
           /\ OneMessage(sockets'[c])
           /\ Phase(s)' \in {"connected", "listening"} => Quiet(sockets'[c]),
         abandoned'[s] = 0 =>
           /\ \A d \in SocketIds \ {c} :
                sockets'[d].owner = s /\ sockets'[d].thread # "unused" =>
                  Lacks(sockets'[d], "close")
           /\ Phase(s)' # "closing" => Lacks(sockets'[c], "close")
  PROVE  ScannerInv(s)'
<1>1. InStep(s)'
  BY Zenon DEF InStep, OneMessage, Quiet, Busy
<1>2. ASSUME abandoned'[s] = 0 PROVE ClosesOwn(s)'
  <2>1. ASSUME NEW d \in SocketIds, sockets'[d].owner = s, sockets'[d].thread # "unused",
               ~Lacks(sockets'[d], "close")
        PROVE  Phase(s)' = "closing" /\ Current(s)' = d
    <3>1. d = c /\ Phase(s)' = "closing"
      BY <1>2, <2>1, Zenon
    <3>2. "closing" # "idle"
      BY Zenon
    <3>3. QED
      BY <3>1, <3>2, Zenon
  <2>2. QED
    BY <2>1, Zenon DEF ClosesOwn, Lacks
<1>3. QED
  BY <1>1, <1>2, Zenon DEF ScannerInv

\* Before it asks to close, a scanner has asked nothing of the kind.
LEMMA NothingClosed ==
  ASSUME NEW s \in Users, ScannerInv(s), abandoned[s] = 0, Phase(s) # "closing"
  PROVE  \A d \in SocketIds :
           sockets[d].owner = s /\ sockets[d].thread # "unused" => Lacks(sockets[d], "close")
BY Zenon DEF ScannerInv, ClosesOwn

LEMMA DialsStep ==
  ASSUME LinkInv, StepInv, NEW s \in Users, ScannerMove(s), Dials(s)
  PROVE  ScannerInv(s)'
<1> DEFINE c == Current(s)'
<1>1. c \in SocketIds /\ Phase(s) = "idle" /\ ScannerInv(s)
  BY Zenon DEF Dials, StepInv
<1>2. PICK b \in Socket :
        /\ Becomes(c, b)
        /\ b.owner = s /\ b.thread = "backlog" /\ b.peer = "here" /\ b.handle = 0
        /\ Len(b.requests) = 1 /\ b.requests[1].kind = "register" /\ b.replies = <<>>
  BY Zenon DEF Dials
<1>3. ~Late(s)' /\ Phase(s)' = "registering" /\ abandoned'[s] = abandoned[s]
  BY Zenon DEF Dials
<1> HIDE DEF c
<1>4. /\ sockets'[c] = b /\ \A d \in SocketIds \ {c} : sockets'[d] = sockets[d]
  BY <1>1, <1>2, Changed, Zenon DEF LinkInv, LinkTypeOK
<1>5. OneMessage(b) /\ Lacks(b, "close")
  <2>1. \A i \in 1 .. Len(b.requests) : i = 1
    BY <1>2, SMT
  <2>2. QED
    BY <1>2, <2>1, Zenon DEF OneMessage, Lacks, Busy
<1>6. Phase(s)' \notin {"idle", "closing", "connected", "listening"} /\ Phase(s) # "closing"
  BY <1>1, <1>3, Zenon
<1>7. abandoned'[s] = 0 =>
        \A d \in SocketIds \ {c} :
          sockets'[d].owner = s /\ sockets'[d].thread # "unused" => Lacks(sockets'[d], "close")
  BY <1>1, <1>3, <1>4, <1>6, NothingClosed, Zenon
<1>8. Current(s)' = c
  BY Zenon DEF c
<1>9. QED
  BY <1>1, <1>3, <1>4, <1>5, <1>6, <1>7, <1>8, Mover, Zenon

LEMMA OpensStep ==
  ASSUME LinkInv, StepInv, NEW s \in Users, ScannerMove(s), Opens(s)
  PROVE  ScannerInv(s)'
<1> DEFINE c == Current(s)
           a == sockets[c]
<1>1. /\ Phase(s) = "registering" /\ Phase(s)' = "opening" /\ Current(s)' = c
      /\ a.replies # <<>> /\ (Late(s)' <=> Late(s)) /\ abandoned'[s] = abandoned[s]
  BY Zenon DEF Opens
<1>2. ScannerInv(s) /\ Owned(s) /\ Lacks(a, "open")
  BY <1>1, Zenon DEF StepInv, LinkInv, UsersOK
<1>3. /\ c \in SocketIds /\ Effect(s, c)
      /\ \E m \in Request : m.kind = "open" /\ Appends(c, m, Tail(a.replies))
  BY <1>2, OpensEffect, Zenon DEF LinkInv, SocketsOK
<1>4. PICK m \in Request : m.kind = "open" /\ Appends(c, m, Tail(a.replies))
  BY <1>3, Zenon
<1>5. PICK b \in Socket :
        /\ Becomes(c, b) /\ b.thread = a.thread
        /\ b.requests = Append(a.requests, m) /\ b.replies = Tail(a.replies)
  BY <1>4, Zenon DEF Appends
<1>6. a \in Socket /\ a.owner = s /\ a.thread # "unused" /\ a.requests \in Seq(Request)
  BY <1>1, <1>2, <1>3, SocketFields, Zenon DEF Owned, LinkInv, LinkTypeOK
<1>7. "registering" \notin {"idle", "closing"}
      /\ "opening" \notin {"idle", "closing", "connected", "listening"}
  BY Zenon
<1>8. ~Late(s) /\ OneMessage(a)
  BY <1>1, <1>2, <1>7, Zenon DEF ScannerInv, InStep
<1>9. /\ a.requests = <<>> /\ Tail(a.replies) = <<>> /\ ~Busy(a)
  BY <1>1, <1>6, <1>8, ReplyAlone, Zenon
<1>10. Asks(a, b, {"open"})
  BY <1>4, <1>5, <1>6, AppendAsks, ZenonT(60)
<1>11. Lacks(a, "close") => Lacks(b, "close")
  <2>1. "close" \notin {"open"}
    BY Zenon
  <2>2. QED
    BY <1>10, <2>1, AsksKeeps, Zenon
<1> HIDE DEF c
<1>12. /\ sockets'[c] = b /\ \A d \in SocketIds \ {c} : sockets'[d] = sockets[d]
  BY <1>3, <1>5, Changed, Zenon DEF LinkInv, LinkTypeOK
<1>13. OneMessage(b)
  BY <1>5, <1>6, <1>9, AskedAlone, Zenon
<1>14. abandoned'[s] = 0 =>
         \A d \in SocketIds :
           sockets[d].owner = s /\ sockets[d].thread # "unused" => Lacks(sockets[d], "close")
  BY <1>1, <1>2, <1>7, NothingClosed, Zenon
<1>15. QED
  BY <1>1, <1>3, <1>6, <1>7, <1>8, <1>11, <1>12, <1>13, <1>14, Mover, Zenon

LEMMA ReadsStep ==
  ASSUME LinkInv, StepInv, NEW s \in Users, ScannerMove(s), Reads(s)
  PROVE  ScannerInv(s)'
<1> DEFINE c == Current(s)
           a == sockets[c]
           b == sockets'[c]
<1>1. /\ Phase(s) = "opening" /\ Phase(s)' \in {"connected", "listening"}
      /\ Current(s)' = c /\ a.replies # <<>> /\ Head(a.replies).kind = "opened"
      /\ (Late(s)' <=> Late(s)) /\ abandoned'[s] = abandoned[s]
  BY Zenon DEF Reads
<1>2. ScannerInv(s) /\ Owned(s)
  BY Zenon DEF StepInv, LinkInv, UsersOK
<1>3. /\ c \in SocketIds /\ Effect(s, c)
      /\ b.replies = Tail(a.replies) /\ b.requests = a.requests /\ b.thread = a.thread
  BY <1>2, ReadsEffect, Zenon DEF LinkInv, SocketsOK
<1>4. a \in Socket /\ a.owner = s /\ a.thread # "unused"
  BY <1>1, <1>2, <1>3, Zenon DEF Owned, LinkInv, LinkTypeOK
<1>5. "opening" \notin {"idle", "closing"} /\ Phase(s)' \notin {"idle", "closing"}
  BY <1>1, Zenon
<1>6. ~Late(s) /\ OneMessage(a)
  BY <1>1, <1>2, <1>5, Zenon DEF ScannerInv, InStep
<1>7. /\ a.requests = <<>> /\ Tail(a.replies) = <<>> /\ ~Busy(a)
      /\ 1 \in 1 .. Len(a.replies) /\ a.replies[1] = Head(a.replies)
  BY <1>1, <1>4, <1>6, ReplyAlone, Zenon
<1>8. \A d \in SocketIds \ {c} : sockets'[d] = sockets[d]
  BY <1>3, Zenon DEF Effect
<1>9. Quiet(b) /\ OneMessage(b)
  BY <1>3, <1>7, Zenon DEF Quiet, OneMessage, Busy
<1>10. abandoned'[s] = 0 =>
         \A d \in SocketIds :
           sockets[d].owner = s /\ sockets[d].thread # "unused" => Lacks(sockets[d], "close")
  BY <1>1, <1>2, <1>5, NothingClosed, Zenon
<1>11. Lacks(a, "close") => Lacks(b, "close")
  BY <1>3, Zenon DEF Lacks
<1> HIDE DEF c
<1>12. QED
  BY <1>1, <1>3, <1>4, <1>5, <1>6, <1>8, <1>9, <1>10, <1>11, Mover, Zenon

LEMMA ClosesStep ==
  ASSUME LinkInv, StepInv, NEW s \in Users, ScannerMove(s), Closes(s)
  PROVE  ScannerInv(s)'
<1> DEFINE c == Current(s)
           a == sockets[c]
<1>1. /\ Phase(s) \notin {"idle", "closing"} /\ Phase(s)' = "closing" /\ Current(s)' = c
      /\ abandoned'[s] = abandoned[s]
  BY Zenon DEF Closes
<1>2. ScannerInv(s) /\ Owned(s)
  BY Zenon DEF StepInv, LinkInv, UsersOK
<1>3. /\ c \in SocketIds /\ Effect(s, c)
      /\ \E m \in Request :
           \/ Late(s)' /\ Appends(c, m, a.replies)
           \/ Phase(s) \in {"connected", "listening"} /\ Appends(c, m, a.replies)
           \/ Phase(s) = "opening" /\ a.replies # <<>> /\ Appends(c, m, Tail(a.replies))
  BY <1>2, ClosesEffect, Zenon DEF LinkInv, SocketsOK
<1>4. a \in Socket /\ a.owner = s /\ a.thread # "unused"
  BY <1>1, <1>2, <1>3, Zenon DEF Owned, LinkInv, LinkTypeOK
<1>5. ~Late(s)
  BY <1>1, <1>2, Zenon DEF ScannerInv
<1>6. OneMessage(a) /\ (Phase(s) \in {"connected", "listening"} => Quiet(a))
  BY <1>1, <1>2, <1>5, Zenon DEF ScannerInv, InStep
<1> HIDE DEF c
<1>7. ASSUME NEW m \in Request, NEW replies, Appends(c, m, replies),
             a.requests = <<>>, ~Busy(a), replies = <<>>
      PROVE  OneMessage(sockets'[c])
  <2>1. PICK b \in Socket :
          /\ Becomes(c, b) /\ b.thread = a.thread
          /\ b.requests = Append(a.requests, m) /\ b.replies = replies
    BY <1>7, Zenon DEF Appends
  <2>2. sockets'[c] = b
    BY <1>3, <2>1, Changed, Zenon DEF LinkInv, LinkTypeOK
  <2>3. OneMessage(b)
    BY <1>4, <1>7, <2>1, AskedAlone, Zenon
  <2>4. QED
    BY <2>2, <2>3, Zenon
<1>8. Late(s)' \/ OneMessage(sockets'[c])
  <2>1. CASE Phase(s) \in {"connected", "listening"}
             /\ \E m \in Request : Appends(c, m, a.replies)
    BY <1>6, <1>7, <2>1, Zenon DEF Quiet
  <2>2. CASE a.replies # <<>> /\ \E m \in Request : Appends(c, m, Tail(a.replies))
    BY <1>4, <1>6, <1>7, <2>2, ReplyAlone, Zenon
  <2>3. QED
    BY <1>3, <2>1, <2>2, Zenon
<1>9. \A d \in SocketIds \ {c} : sockets'[d] = sockets[d]
  BY <1>3, Zenon DEF Effect
<1>10. abandoned'[s] = 0 =>
         \A d \in SocketIds :
           sockets[d].owner = s /\ sockets[d].thread # "unused" => Lacks(sockets[d], "close")
  BY <1>1, <1>2, NothingClosed, Zenon
<1>11. "closing" \notin {"connected", "listening"}
  BY Zenon
<1>12. QED
  BY <1>1, <1>3, <1>8, <1>9, <1>10, <1>11, Mover, Zenon

LEMMA GoesStep ==
  ASSUME LinkInv, StepInv, NEW s \in Users, ScannerMove(s), Goes(s)
  PROVE  ScannerInv(s)'
<1> DEFINE c == Current(s)
           a == sockets[c]
<1>1. Phase(s) # "idle" /\ Phase(s)' = "idle"
  BY Zenon DEF Goes
<1>2. ScannerInv(s) /\ Owned(s) /\ s \in Scanners /\ abandoned[s] \in Nat
  BY Kinds, Zenon DEF StepInv, LinkInv, LinkTypeOK, UsersOK
<1>3. c \in SocketIds /\ Effect(s, c) /\ Asks(a, sockets'[c], {"unregister"})
  BY <1>2, GoesEffect, Zenon DEF LinkInv, SocketsOK
<1>4. a \in Socket
  BY <1>3, Zenon DEF LinkInv, LinkTypeOK
<1>5. ASSUME abandoned'[s] = 0
      PROVE  /\ abandoned[s] = 0 /\ Phase(s) = "closing" /\ a.replies # <<>> /\ ~Late(s)
  <2>1. abandoned'[s] # abandoned[s] + 1
    BY <1>2, <1>5
  <2>2. QED
    BY <1>5, <2>1, Zenon DEF Goes
<1>6. ASSUME abandoned'[s] = 0 PROVE Lacks(sockets'[c], "close")
  <2>1. OneMessage(a) /\ a.replies # <<>>
    BY <1>1, <1>2, <1>5, <1>6, Zenon DEF ScannerInv, InStep
  <2>2. a.requests = <<>>
    BY <1>4, <2>1, ReplyAlone, Zenon
  <2>3. Lacks(a, "close")
    BY <2>2, NoneLeft, Zenon
  <2>4. "close" \notin {"unregister"}
    BY Zenon
  <2>5. QED
    BY <1>3, <2>3, <2>4, AsksKeeps, Zenon
<1>7. \A d \in SocketIds \ {c} : sockets'[d] = sockets[d]
  BY <1>3, Zenon DEF Effect
<1>8. abandoned'[s] = 0 =>
        \A d \in SocketIds \ {c} :
          sockets[d].owner = s /\ sockets[d].thread # "unused" => Lacks(sockets[d], "close")
  BY <1>2, <1>5, Zenon DEF ScannerInv, ClosesOwn
<1> HIDE DEF c
<1>9. QED
  BY <1>1, <1>3, <1>6, <1>7, <1>8, Mover, Zenon

LEMMA RestsStep ==
  ASSUME StepInv, NEW s \in Users,
         (ScannerMove(s) /\ Rests(s)) \/ UNCHANGED linkVars
  PROVE  ScannerInv(s)'
<1>1. /\ State(s)' = State(s) /\ (Late(s)' <=> Late(s)) /\ abandoned'[s] = abandoned[s]
      /\ sockets' = sockets
  <2>1. CASE ScannerMove(s) /\ Rests(s)
    BY <2>1, Zenon DEF Rests
  <2>2. CASE UNCHANGED linkVars
    BY <2>2, Zenon DEF State, Late, linkVars, serverVars
  <2>3. QED
    BY <2>1, <2>2, Zenon
<1>2. Phase(s)' = Phase(s) /\ Current(s)' = Current(s)
  BY <1>1, Zenon DEF Phase, Current
<1>3. ScannerInv(s)
  BY Zenon DEF StepInv
<1>4. QED
  BY <1>1, <1>2, <1>3, Zenon DEF ScannerInv, InStep, OneMessage, Quiet, ClosesOwn, Lacks, Busy

LEMMA ScannerInStep ==
  ASSUME LinkInv, StepInv, NEW s \in Users, ScannerMove(s)
  PROVE  StepInv'
<1>1. ScannerInv(s)'
  BY DialsStep, OpensStep, ReadsStep, ClosesStep, GoesStep, RestsStep, Zenon
     DEF ScannerMove
<1>2. QED
  BY <1>1, OtherScanner, Zenon DEF StepInv

LEMMA StepNext ==
  ASSUME LinkInv, StepInv, [NextLink]_linkVars
  PROVE  StepInv'
<1>1. CASE ServerStep /\ UNCHANGED <<transport, originator, abandoned>>
  BY <1>1, ServerInStep, Zenon DEF StepInv
<1>2. ASSUME NEW t \in Transports, TransportStep(t), UNCHANGED originator
      PROVE  StepInv'
  BY <1>2, TransportTyped, ScannerInStep, Zenon DEF Users
<1>3. ASSUME NEW o \in Originators, OriginatorStep(o)
      PROVE  StepInv'
  BY <1>3, OriginatorTyped, ScannerInStep, Zenon DEF Users
<1>4. CASE UNCHANGED linkVars
  BY <1>4, RestsStep, Zenon DEF StepInv
<1>5. QED
  BY <1>1, <1>2, <1>3, <1>4, Zenon DEF NextLink

LEMMA StepInit ==
  ASSUME InitLink
  PROVE  StepInv
<1>1. SUFFICES ASSUME NEW s \in Users PROVE ScannerInv(s)
  BY Zenon DEF StepInv
<1>2. Phase(s) = "idle"
  BY Kinds, Zenon DEF Phase, State, InitLink, InitTransport, InitOriginator, IdleRun
<1>3. ASSUME NEW c \in SocketIds PROVE sockets[c].thread = "unused"
  BY Zenon DEF InitLink, InitServer, UnusedSocket
<1>4. QED
  BY <1>2, <1>3, Zenon DEF ScannerInv, InStep, ClosesOwn

=============================================================================
