-------------------------- MODULE LinkOrderProofs --------------------------
(***************************************************************************)
(* A scanner that is connected is in the table of the server, and the      *)
(* robot does not go back to a former scanner, for any number of scanners  *)
(* with vendor ids of their own.                                           *)
(*                                                                         *)
(* Section 1: what takes an entry out of the table is a request of its     *)
(* vendor, or the stop of the server. A run of the tool asks for it only   *)
(* when it is done, if none was cut short. A transport may have left a     *)
(* Forward Close behind, but then also an older entry with that serial,    *)
(* which goes first. Section 2: an entry was opened after everything that  *)
(* was closed before it, and the frames arrive in the order they were sent *)
(* in.                                                                     *)
(***************************************************************************)
EXTENDS LinkLeftProofs

----------------------------------------------------------------------------
(* 1. Who is connected is in the table.                                    *)

\* A TCP connection brings, or is about to bring, the news of this connection.
Announces(a, v) ==
  \/ Busy(a) /\ a.reply.kind = "opened" /\ a.reply.value = v
  \/ \E i \in 1 .. Len(a.replies) : a.replies[i].kind = "opened" /\ a.replies[i].value = v

\* The connection that was opened for a scanner, whether or not it has read so.
Knows(s, v) ==
  \/ Phase(s) = "opening" /\ Announces(sockets[Current(s)], v)
  \/ Phase(s) \in {"connected", "listening"} /\ State(s).id = v

\* The server has stopped since: it has nothing of a scanner, and hears nothing.
Gone(s) ==
  /\ Entries(s) = {}
  /\ \A c \in SocketIds :
       sockets[c].owner = s /\ sockets[c].thread # "unused" => sockets[c].thread = "ended"

\* An entry of the table, by its id.
Holds(table, s, id) == \E k \in table : k.vendor = Vendor[s] /\ k.id = id

\* The closes that a transport has left behind with the serial it has now are met
\* by entries older than this one.
Leftover(t) == Owing(t, SerialOf(t)) \ {Current(t)}
Before(t, v) == {k \in EntriesOf(t, SerialOf(t)) : k.id < v}

LastClosed(t, v) ==
  /\ \E k \in EntriesOf(t, SerialOf(t)) : k.id = v
  /\ Cardinality(Leftover(t)) <= Cardinality(Before(t, v))

Secured(s, v) == IF s \in Transports THEN LastClosed(s, v) ELSE Holds(connections, s, v)

Faithful(s) == s \in Transports \/ abandoned[s] = 0

Kept(s) == Faithful(s) => \A v \in Ids : Knows(s, v) => Gone(s) \/ Secured(s, v)

KeptInv == \A s \in Users : Kept(s)

LEMMA AnnouncesBefore ==
  ASSUME LinkInv, ServerStep, NEW c \in SocketIds, NEW v, Announces(sockets'[c], v)
  PROVE  Announces(sockets[c], v) \/ (ForwardOpen(c) /\ v = next_connection_id')
<1> DEFINE a == sockets[c]
           b == sockets'[c]
<1>1. a \in Socket /\ Move(a, b) /\ a.replies \in Seq(Reply) /\ a.reply \in Reply
  BY ServerLeaves, SocketFields, Zenon
<1>2. ASSUME b.replies = a.replies, ~Busy(b) PROVE Announces(a, v)
  BY <1>2, Zenon DEF Announces
<1>3. ASSUME NEW m \in Reply, b.replies = Append(a.replies, m), ~Busy(b),
             m.kind = "opened" => Busy(a) /\ a.reply = m
      PROVE  Announces(a, v)
  <2>1. \A i \in 1 .. Len(b.replies) :
          \/ i \in 1 .. Len(a.replies) /\ b.replies[i] = a.replies[i]
          \/ b.replies[i] = m
    BY <1>1, <1>3, RepliesAppended, Zenon
  <2>2. QED
    BY <1>3, <2>1, Zenon DEF Announces
<1>4. CASE b = a
  BY <1>4, Zenon
<1>5. CASE Starts(a, b) \/ Ends(a, b)
  BY <1>2, <1>5, Zenon DEF Starts, Ends, Busy
<1>6. CASE Serves(a, b)
  BY <1>2, <1>3, <1>6, Zenon DEF Serves, Busy
<1>7. CASE Handles(a, b)
  <2>1. \/ b.reply.kind # "opened"
        \/ ForwardOpen(c) /\ b.reply.value = next_connection_id'
    BY <1>7, HandlesWhat, Zenon
  <2>2. QED
    BY <1>7, <2>1, Zenon DEF Handles, Announces
<1>8. CASE GoesOn(a, b)
  BY <1>8, Zenon DEF GoesOn, Busy, Announces
<1>9. CASE Answers(a, b)
  BY <1>1, <1>2, <1>3, <1>9, Zenon DEF Answers, Busy
<1>10. QED
  BY <1>1, <1>4, <1>5, <1>6, <1>7, <1>8, <1>9, Zenon DEF Move

\* What a step of the server tells a scanner is the connection it has opened.
LEMMA KnewBefore ==
  ASSUME LinkInv, ServerStep, UNCHANGED <<transport, originator>>, NEW s \in Users,
         NEW v, Knows(s, v)', ~Knows(s, v)
  PROVE  /\ Phase(s) = "opening" /\ v = next_connection_id'
         /\ \E c \in SocketIds : c = Current(s) /\ ForwardOpen(c)
<1>1. State(s)' = State(s) /\ Phase(s)' = Phase(s) /\ Current(s)' = Current(s)
  BY Zenon DEF State, Phase, Current
<1>2. Phase(s) = "opening" /\ Announces(sockets'[Current(s)], v)
  BY <1>1, Zenon DEF Knows, Announces, Busy
<1>3. PICK c \in SocketIds : c = Current(s)
  <2>1. "opening" # "idle"
    BY Zenon
  <2>2. QED
    BY <1>2, <2>1, Zenon DEF LinkInv, UsersOK, Owned
<1>4. Announces(sockets'[c], v) /\ ~Announces(sockets[c], v)
  BY <1>2, <1>3, Zenon DEF Knows
<1>5. ForwardOpen(c) /\ v = next_connection_id'
  <2>1. Announces(sockets[c], v) \/ (ForwardOpen(c) /\ v = next_connection_id')
    BY <1>4, AnnouncesBefore
  <2>2. QED
    BY <1>4, <2>1, Zenon
<1>6. QED
  BY <1>2, <1>3, <1>5, Zenon

LEMMA TransportPhase ==
  ASSUME LinkInv, NEW t \in Transports, NEW v, Knows(t, v)
  PROVE  Phase(t) \in {"opening", "connected"}
<1>1. transport[t] \in TransportState
  BY Zenon DEF LinkInv, LinkTypeOK
<1>2. transport[t].phase \in Phases
  BY <1>1, TransportFields, Zenon
<1>3. QED
  BY <1>2, Zenon DEF Knows, Phase, State, Phases

LEMMA LeftoverBefore ==
  ASSUME LinkInv, ServerStep, UNCHANGED <<transport, originator>>, NEW t \in Transports
  PROVE  Leftover(t)' \subseteq Leftover(t)
<1>1. SerialOf(t)' = SerialOf(t) /\ Current(t)' = Current(t)
  BY Zenon DEF SerialOf, State, Current
<1>2. SUFFICES ASSUME NEW d \in Leftover(t)' PROVE d \in Leftover(t)
  BY Zenon
<1>3. /\ d \in SocketIds /\ d # Current(t)
      /\ sockets'[d].owner = t /\ CloseAsked(sockets'[d], SerialOf(t))
  BY <1>1, Zenon DEF Leftover, Owing, CloseAsked
<1>4. sockets[d].owner = t /\ CloseAsked(sockets[d], SerialOf(t))
  BY <1>3, CloseAskedBefore, ServerLeaves, Zenon
<1>5. QED
  BY <1>3, <1>4, Zenon DEF Leftover, Owing

\* The sets that are counted.
LEMMA CountedSets ==
  ASSUME IsFiniteSet(connections), NEW t, NEW v
  PROVE  /\ IsFiniteSet(Leftover(t)) /\ Cardinality(Leftover(t)) \in Nat
         /\ IsFiniteSet(Before(t, v)) /\ Cardinality(Before(t, v)) \in Nat
         /\ IsFiniteSet(EntriesOf(t, SerialOf(t))) /\ EntriesOf(t, SerialOf(t)) \subseteq connections
         /\ IsFiniteSet(Owing(t, SerialOf(t))) /\ Leftover(t) \subseteq Owing(t, SerialOf(t))
         /\ Before(t, v) \subseteq EntriesOf(t, SerialOf(t))
<1>1. EntriesOf(t, SerialOf(t)) \subseteq connections
  BY Zenon DEF EntriesOf
<1>2. Before(t, v) \subseteq connections /\ Before(t, v) \subseteq EntriesOf(t, SerialOf(t))
  BY <1>1, Zenon DEF Before
<1>3. /\ Leftover(t) \in SUBSET SocketIds /\ Owing(t, SerialOf(t)) \in SUBSET SocketIds
      /\ Leftover(t) \subseteq Owing(t, SerialOf(t))
  BY Zenon DEF Leftover, Owing
<1>4. QED
  BY <1>1, <1>2, <1>3, Part, SocketSets, Zenon

\* The connection of a transport is closed after the older ones with its serial.
LEMMA TransportStays ==
  ASSUME LinkInv, Cast, StepInv, RecordsInv, IsFiniteSet(connections), ServerStep,
         ~StopReturns, UNCHANGED <<transport, originator, abandoned>>,
         NEW t \in Transports, NEW v \in Ids, Knows(t, v), LastClosed(t, v)
  PROVE  LastClosed(t, v)'
<1>1. /\ t \in Users /\ ConnectionsApart /\ Phase(t) \in {"opening", "connected"}
      /\ UNCHANGED <<transport, originator>>
  BY TransportPhase, Zenon DEF Users, RecordsInv
<1>2. SerialOf(t)' = SerialOf(t)
  BY Zenon DEF SerialOf, State
<1>3. PICK n : n = SerialOf(t)
  BY Zenon
<1> DEFINE entries == EntriesOf(t, n)
           kept == EntriesOf(t, n)'
           older1 == Before(t, v)
           older2 == Before(t, v)'
           left1 == Leftover(t)
           left2 == Leftover(t)'
<1>4. /\ older1 = {k \in entries : k.id < v} /\ older2 = {k \in kept : k.id < v}
  BY <1>2, <1>3, Zenon DEF Before, EntriesOf
<1>5. PICK k \in entries : k.id = v
  BY <1>3, Zenon DEF LastClosed
<1>6. Cardinality(left1) <= Cardinality(older1)
  BY Zenon DEF LastClosed
<1>7. left2 \subseteq left1
  BY <1>1, LeftoverBefore, Zenon
<1>8. /\ IsFiniteSet(left1) /\ IsFiniteSet(older1) /\ IsFiniteSet(older2)
      /\ Cardinality(left1) \in Nat /\ Cardinality(older1) \in Nat
  <2>1. IsFiniteSet(connections') /\ older2 \subseteq connections'
    BY <1>1, <1>4, ServerFinite, Zenon DEF EntriesOf
  <2>2. QED
    BY <2>1, CountedSets, Part, Zenon
<1>9. Cardinality(left2) \in Nat /\ Cardinality(left2) <= Cardinality(left1)
  BY <1>7, <1>8, Part, Zenon
<1>10. Cardinality(older2) \in Nat
  BY <1>8, FS_CardinalityType, Zenon
<1>11. SUFFICES k \in kept /\ Cardinality(left2) <= Cardinality(older2)
  BY <1>2, <1>3, <1>5, Zenon DEF LastClosed, EntriesOf, Leftover, Owing, Before,
       Granted, CloseAsked, Promised, Busy
<1>12. ASSUME entries \subseteq kept
       PROVE  k \in kept /\ Cardinality(left2) <= Cardinality(older2)
  <2>1. older1 \subseteq older2
    BY <1>4, <1>12, Zenon
  <2>2. Cardinality(older1) <= Cardinality(older2)
    BY <1>8, <2>1, Part, Zenon
  <2>3. k \in kept
    BY <1>12, Zenon
  <2> HIDE DEF older1, older2, left1, left2, entries, kept
  <2>4. QED
    BY <1>6, <1>8, <1>9, <1>10, <2>2, <2>3
<1>13. CASE connections' = connections
  BY <1>12, <1>13, Zenon DEF EntriesOf
<1>14. ASSUME NEW e \in SocketIds, ForwardOpen(e) PROVE entries \subseteq kept
  BY <1>14, Zenon DEF ForwardOpen, EntriesOf
<1>15. ASSUME NEW e \in SocketIds, ForwardClose(e)
       PROVE  k \in kept /\ Cardinality(left2) <= Cardinality(older2)
  <2>1. CASE ~(sockets[e].owner = t /\ n = Head(sockets[e].requests).serial)
    <3>1. kept = entries
      BY <1>1, <1>15, <2>1, OthersEntries, Zenon
    <3>2. QED
      BY <1>12, <3>1, Zenon
  <2>2. CASE sockets[e].owner = t /\ n = Head(sockets[e].requests).serial
    <3>1. e \in left1 /\ e \notin left2
      <4>1. e \in Owing(t, n) /\ e \notin Owing(t, n)'
        BY <1>1, <1>15, <2>2, OwingClosed, Zenon
      <4>2. e # Current(t)
        <5>1. /\ 1 \in 1 .. Len(sockets[e].requests)
              /\ sockets[e].requests[1].kind = "close"
          BY <1>15, HeadOf, Zenon DEF ForwardClose
        <5>2. "close" # "open"
          BY Zenon
        <5>3. QED
          BY <1>1, <5>1, <5>2, GrantedAsks, Zenon
      <4>3. QED
        BY <1>2, <1>3, <4>1, <4>2, Zenon DEF Leftover
    <3>2. Cardinality(left2) + 1 <= Cardinality(left1)
      BY <1>7, <1>8, <3>1, Part, Zenon
    <3>3. older1 # {}
      <4>1. ASSUME older1 = {} PROVE Cardinality(older1) = 0
        BY <4>1, FS_EmptySet, Zenon
      <4> HIDE DEF older1, left1, left2
      <4>2. Cardinality(older1) # 0
        BY <1>6, <1>8, <1>9, <3>2
      <4>3. QED
        BY <4>1, <4>2, Zenon
    <3>4. PICK l \in older1 : TRUE
      BY <3>3, Zenon
    <3>5. l \in Matching(e) /\ l.id < k.id /\ k.id \in Nat /\ l.id \in Nat
      <4>1. l \in entries /\ l.id < k.id
        BY <1>4, <1>5, Zenon
      <4>2. l \in Matching(e)
        BY <2>2, <4>1, Zenon DEF EntriesOf, Matching
      <4>3. l \in connections /\ k \in connections /\ connections \subseteq Connection
        BY <4>1, Zenon DEF EntriesOf, LinkInv, LinkTypeOK
      <4>4. l.id \in Ids /\ k.id \in Ids
        BY <4>3, Zenon DEF Connection, Frame
      <4>5. QED
        BY <4>1, <4>2, <4>4, Ranges, Zenon
    <3>6. k \in kept
      <4>1. ~(k.id <= l.id)
        BY <3>5
      <4>2. k \in connections'
        BY <1>15, <3>5, <4>1, Zenon DEF ForwardClose, EntriesOf
      <4>3. QED
        BY <4>2, Zenon DEF EntriesOf
    <3>7. Cardinality(older1) <= Cardinality(older2) + 1
      <4>1. /\ connections' \subseteq connections
            /\ \A x, y \in connections :
                 x \notin connections' /\ y \notin connections' => x = y
        BY <1>1, <1>15, ClosesEntry, Zenon
      <4>2. older2 \subseteq older1
        BY <1>4, <4>1, Zenon DEF EntriesOf
      <4>3. \A x, y \in older1 : x \notin older2 /\ y \notin older2 => x = y
        BY <1>4, <4>1, Zenon DEF EntriesOf
      <4>4. \E x : older1 \subseteq older2 \cup {x}
        BY <4>3, Zenon
      <4>5. QED
        BY <1>8, <4>2, <4>4, Part, Zenon
    <3> HIDE DEF older1, older2, left1, left2, entries, kept
    <3>8. QED
      BY <1>6, <1>8, <1>9, <1>10, <3>2, <3>6, <3>7
  <2>3. QED
    BY <2>1, <2>2, Zenon
<1>16. QED
  BY <1>12, <1>13, <1>14, <1>15, TableMoves, Zenon

\* A connection that was just opened is closed after all that are there.
LEMMA NewlyKnown ==
  ASSUME LinkInv, Cast, StepInv, RecordsInv, CountsInv, ServerStep,
         UNCHANGED <<transport, originator, abandoned>>,
         NEW s \in Users, Phase(s) = "opening", NEW c \in SocketIds, c = Current(s),
         ForwardOpen(c), NEW v \in Ids, v = next_connection_id'
  PROVE  Secured(s, v)'
<1>1. /\ sockets[c].owner = s /\ ConnectionsApart
      /\ UNCHANGED <<transport, originator>>
  <2>1. "opening" # "idle"
    BY Zenon
  <2>2. QED
    BY <2>1, Zenon DEF LinkInv, UsersOK, Owned, RecordsInv
<1>2. PICK k : k = NewEntry(c)
  BY Zenon
<1>3. /\ connections' = connections \cup {k}
      /\ v = next_connection_id + 1 /\ k.id = v /\ k.vendor = Vendor[s]
      /\ k.serial = Head(sockets[c].requests).serial /\ k.serial \in Serials
      /\ next_connection_id \in Nat /\ \A l \in connections : l.id \in Nat
  BY <1>1, <1>2, OpensEntry, Zenon
<1>4. CASE s \notin Transports
  <2>1. Holds(connections', s, v)
    BY <1>3, Zenon DEF Holds
  <2>2. QED
    BY <1>4, <2>1, Zenon DEF Secured, Holds
<1>5. CASE s \in Transports
  <2>1. SerialOf(s)' = SerialOf(s)
    BY Zenon DEF SerialOf, State
  <2>2. PICK n \in Serials : n = SerialOf(s) /\ n = k.serial
    <3>1. /\ 1 \in 1 .. Len(sockets[c].requests)
          /\ sockets[c].requests[1] = Head(sockets[c].requests)
      BY HeadOf, Zenon DEF ForwardOpen
    <3>2. sockets[c].requests[1].serial = SerialOf(s)
      BY <1>5, <3>1, GrantedAsks, Zenon
    <3>3. QED
      BY <1>3, <3>1, <3>2, Zenon
  <2> DEFINE entries == EntriesOf(s, n)
             owing == Owing(s, n)
             left1 == Leftover(s)
             left2 == Leftover(s)'
             before == Before(s, v)'
  <2>3. left2 \subseteq left1 /\ left1 \subseteq owing
    BY <1>1, <1>5, <2>2, LeftoverBefore, Zenon DEF Leftover
  <2>4. Cardinality(owing) <= Cardinality(entries) /\ IsFiniteSet(connections)
    BY <1>5, Zenon DEF CountsInv, ClosesMatched
  <2>5. before = {l \in EntriesOf(s, n)' : l.id < v}
    BY <2>1, <2>2, Zenon DEF Before, EntriesOf
  <2>6. entries \subseteq before
    <3>1. SUFFICES ASSUME NEW l \in entries PROVE l \in before
      BY Zenon
    <3>2. l \in connections /\ l \in EntriesOf(s, n)'
      BY <1>3, Zenon DEF EntriesOf
    <3>3. l.id < v
      <4>1. l.id \in Nat /\ l.id <= next_connection_id
        BY <1>1, <1>3, <3>2, Zenon DEF ConnectionsApart
      <4>2. QED
        BY <1>3, <4>1
    <3>4. QED
      BY <2>5, <3>2, <3>3, Zenon
  <2>7. Cardinality(left2) <= Cardinality(before)
    <3>1. /\ IsFiniteSet(owing) /\ Cardinality(owing) \in Nat
          /\ IsFiniteSet(entries) /\ Cardinality(entries) \in Nat
      BY <2>2, <2>4, CountedSets, Part, Zenon
    <3>2. IsFiniteSet(before)
      <4>1. IsFiniteSet(connections') /\ before \subseteq connections'
        BY <1>1, <2>4, <2>5, ServerFinite, Zenon DEF EntriesOf
      <4>2. QED
        BY <4>1, Part, Zenon
    <3>3. /\ Cardinality(left2) \in Nat /\ Cardinality(left2) <= Cardinality(owing)
          /\ Cardinality(before) \in Nat /\ Cardinality(entries) <= Cardinality(before)
      <4>1. left2 \subseteq owing
        BY <2>3, Zenon
      <4>2. QED
        BY <2>6, <3>1, <3>2, <4>1, Part, Zenon
    <3> HIDE DEF entries, owing, left1, left2, before
    <3>4. QED
      BY <2>4, <3>1, <3>3
  <2>8. LastClosed(s, v)'
    <3>1. k \in EntriesOf(s, SerialOf(s))'
      BY <1>3, <2>1, <2>2, Zenon DEF EntriesOf
    <3>2. QED
      BY <1>3, <2>7, <3>1, Zenon DEF LastClosed
  <2>9. QED
    BY <1>5, <2>8, Zenon DEF Secured
<1>6. QED
  BY <1>4, <1>5, Zenon

\* Whom a server that has stopped knew, it does not know any more.
LEMMA GoneStays ==
  ASSUME LinkInv, Cast, RecordsInv, ServerStep, NEW s \in Users, Gone(s)
  PROVE  Gone(s)'
<1>1. SUFFICES Entries(s)' = {}
  <2>1. ASSUME NEW c \in SocketIds, sockets'[c].owner = s, sockets'[c].thread # "unused"
        PROVE  sockets'[c].thread = "ended"
    <3>1. sockets[c].owner = s /\ sockets[c].thread # "unused"
      BY <2>1, ServerLeaves, Zenon
    <3>2. sockets[c].thread = "ended"
      BY <3>1, Zenon DEF Gone
    <3>3. QED
      BY <3>2, ServerLeaves, Zenon
  <2>2. QED
    BY <1>1, <2>1, Zenon DEF Gone
<1>2. Entries(s) = {} /\ ConnectionsApart
  BY Zenon DEF Gone, RecordsInv
<1>3. ASSUME NEW c \in SocketIds, ForwardOpen(c) \/ ForwardClose(c) PROVE Entries(s)' = {}
  <2>1. sockets[c].thread = "reading"
    BY <1>3, Zenon DEF ForwardOpen, ForwardClose, Takes
  <2>2. "reading" # "unused" /\ "reading" # "ended"
    BY Zenon
  <2>3. sockets[c].owner # s
    BY <2>1, <2>2, Zenon DEF Gone
  <2>4. QED
    BY <1>2, <1>3, <2>3, OthersEntries, Zenon
<1>4. CASE connections' = connections
  BY <1>2, <1>4, Zenon DEF Entries
<1>5. CASE connections' = {}
  BY <1>5, Zenon DEF Entries
<1>6. QED
  BY <1>3, <1>4, <1>5, TableMoves, Zenon

LEMMA StopForgets ==
  ASSUME LinkInv, StopReturns, NEW s \in Users
  PROVE  Gone(s)'
<1>1. \A c \in SocketIds : sockets'[c].thread \in {"unused", "ended"}
  BY StopReturnsMoves, Zenon DEF LinkInv, LinkTypeOK
<1>2. Entries(s)' = {}
  BY Zenon DEF StopReturns, Entries
<1>3. QED
  BY <1>1, <1>2, Zenon DEF Gone

\* An entry leaves the table at the request of its vendor, or when the server
\* has stopped.
LEMMA TableKeeps ==
  ASSUME LinkInv, Cast, ServerStep, ~StopReturns, NEW s \in Users,
         ClosesOwn(s), Phase(s) # "closing", NEW id, Holds(connections, s, id)
  PROVE  Holds(connections', s, id)
<1>1. PICK k \in connections : k.vendor = Vendor[s] /\ k.id = id
  BY Zenon DEF Holds
<1>2. ASSUME NEW c \in SocketIds, ForwardClose(c)
      PROVE  k \in connections'
  <2>1. Takes(c, "close")
    BY <1>2, Zenon DEF ForwardClose
  <2>2. /\ sockets[c].thread = "reading" /\ ~Lacks(sockets[c], "close")
        /\ sockets[c].owner \in Scanners
    BY <2>1, HeadOf, SocketFields, Zenon
  <2>3. sockets[c].thread # "unused"
    BY <2>2, Zenon
  <2>4. sockets[c].owner # s
    BY <2>2, <2>3, Zenon DEF ClosesOwn
  <2>5. Vendor[sockets[c].owner] # Vendor[s]
    BY <2>2, <2>4, Zenon DEF Cast
  <2>6. k \notin Matching(c)
    BY <1>1, <2>5, Zenon DEF Matching
  <2>7. QED
    BY <1>1, <1>2, <2>6, Zenon DEF ForwardClose
<1>3. CASE connections' = connections
  BY <1>1, <1>3, Zenon DEF Holds
<1>4. ASSUME NEW c \in SocketIds, ForwardOpen(c)
      PROVE  k \in connections'
  BY <1>1, <1>4, Zenon DEF ForwardOpen
<1>5. \/ connections' = connections
      \/ \E c \in SocketIds : ForwardOpen(c) \/ ForwardClose(c)
  BY Zenon DEF ServerStep, SessionStep, StartServer, StopServer, LoopEnds, Accept,
       RegisterSession, UnregisterSession, RefuseSession, RefuseForwardOpen, SetItems,
       CollectItems, Answer, SessionEnds, Receive, Apply, LoseDatagram, tables
<1>6. QED
  BY <1>1, <1>2, <1>3, <1>4, <1>5, Zenon DEF Holds

LEMMA ServerKept ==
  ASSUME LinkInv, Cast, StepInv, RecordsInv, CountsInv, ServerStep,
         UNCHANGED <<transport, originator, abandoned>>, NEW s \in Users, Kept(s)
  PROVE  Kept(s)'
<1>1. SUFFICES ASSUME Faithful(s), NEW v \in Ids, Knows(s, v)', ~StopReturns
               PROVE  Gone(s)' \/ Secured(s, v)'
  <2>1. Faithful(s)' => Faithful(s)
    BY Zenon DEF Faithful
  <2>2. QED
    BY <1>1, <2>1, StopForgets, Zenon DEF Kept
<1>2. UNCHANGED <<transport, originator>> /\ IsFiniteSet(connections)
  BY Zenon DEF CountsInv
<1>3. CASE ~Knows(s, v)
  <2>1. /\ Phase(s) = "opening" /\ v = next_connection_id'
        /\ \E c \in SocketIds : c = Current(s) /\ ForwardOpen(c)
    BY <1>1, <1>2, <1>3, KnewBefore
  <2>2. PICK c \in SocketIds : c = Current(s) /\ ForwardOpen(c)
    BY <2>1, Zenon
  <2>3. Secured(s, v)'
    BY <2>1, <2>2, NewlyKnown
  <2>4. QED
    BY <2>3, Zenon
<1>4. CASE Knows(s, v) /\ Gone(s)
  BY <1>4, GoneStays, Zenon
<1>5. CASE Knows(s, v) /\ Secured(s, v) /\ s \in Transports
  <2>1. LastClosed(s, v)
    BY <1>5, Zenon DEF Secured
  <2>2. LastClosed(s, v)'
    BY <1>1, <1>2, <1>5, <2>1, TransportStays
  <2>3. QED
    BY <1>5, <2>2, Zenon DEF Secured
<1>6. CASE Knows(s, v) /\ Secured(s, v) /\ s \notin Transports
  <2>1. Holds(connections, s, v)
    BY <1>6, Zenon DEF Secured
  <2>2. ClosesOwn(s) /\ Phase(s) # "closing"
    <3>1. abandoned[s] = 0
      BY <1>1, <1>6, Zenon DEF Faithful
    <3>2. "opening" # "closing" /\ "connected" # "closing" /\ "listening" # "closing"
      BY Zenon
    <3>3. QED
      BY <1>6, <3>1, <3>2, Zenon DEF StepInv, ScannerInv, Knows
  <2>3. Holds(connections', s, v)
    BY <1>1, <2>1, <2>2, TableKeeps, Zenon
  <2>4. QED
    BY <1>6, <2>3, Zenon DEF Secured, Holds
<1>7. QED
  BY <1>1, <1>3, <1>4, <1>5, <1>6, Zenon DEF Kept

\* A scanner whose TCP connection before the last ones nobody touches.
LEMMA SecuredRests ==
  ASSUME UNCHANGED connections, IsFiniteSet(connections), NEW u, NEW v,
         SerialOf(u)' = SerialOf(u), Leftover(u)' \subseteq Leftover(u), Secured(u, v)
  PROVE  Secured(u, v)'
<1>1. CASE u \notin Transports
  BY <1>1, Zenon DEF Secured, Holds
<1>2. CASE u \in Transports
  <2> DEFINE left1 == Leftover(u)
             left2 == Leftover(u)'
             older1 == Before(u, v)
             older2 == Before(u, v)'
  <2>1. older2 = older1 /\ EntriesOf(u, SerialOf(u))' = EntriesOf(u, SerialOf(u))
    BY Zenon DEF Before, EntriesOf
  <2>2. /\ \E k \in EntriesOf(u, SerialOf(u)) : k.id = v
        /\ Cardinality(left1) <= Cardinality(older1)
    BY <1>2, Zenon DEF Secured, LastClosed
  <2>3. /\ IsFiniteSet(left1) /\ Cardinality(left1) \in Nat
        /\ IsFiniteSet(older1) /\ Cardinality(older1) \in Nat
    BY CountedSets, Zenon
  <2>4. Cardinality(left2) \in Nat /\ Cardinality(left2) <= Cardinality(left1)
    BY <2>3, Part, Zenon
  <2>5. Cardinality(left2) <= Cardinality(older2)
    <3> HIDE DEF left1, left2, older1, older2
    <3>1. QED
      BY <2>1, <2>2, <2>3, <2>4
  <2>6. QED
    BY <1>2, <2>1, <2>2, <2>5, Zenon DEF Secured, LastClosed
<1>3. QED
  BY <1>1, <1>2, Zenon

\* A scanner that nothing happens to.
StaysAsItIs(u) ==
  /\ State(u)' = State(u) /\ Phase(u)' = Phase(u) /\ Current(u)' = Current(u)
  /\ SerialOf(u)' = SerialOf(u) /\ abandoned'[u] = abandoned[u]
  /\ Phase(u) # "idle" => sockets'[Current(u)] = sockets[Current(u)]
  /\ \A d \in SocketIds : sockets'[d].owner = u => sockets'[d] = sockets[d]

LEMMA RestsKnows ==
  ASSUME NEW u \in Users, StaysAsItIs(u), NEW v, Knows(u, v)'
  PROVE  Knows(u, v)
<1>1. CASE Phase(u) = "opening"
  <2>1. "opening" # "idle" /\ "opening" # "connected" /\ "opening" # "listening"
    BY Zenon
  <2>2. sockets'[Current(u)] = sockets[Current(u)] /\ Announces(sockets'[Current(u)], v)
    BY <1>1, <2>1, Zenon DEF StaysAsItIs, Knows, Announces, Busy
  <2>3. QED
    BY <1>1, <2>2, Zenon DEF Knows, Announces, Busy
<1>2. CASE Phase(u) # "opening"
  BY <1>2, Zenon DEF Knows, StaysAsItIs
<1>3. QED
  BY <1>1, <1>2, Zenon

LEMMA RestsGone ==
  ASSUME UNCHANGED connections, NEW u \in Users, StaysAsItIs(u), Gone(u)
  PROVE  Gone(u)'
BY Zenon DEF Gone, Entries, StaysAsItIs

LEMMA RestsKept ==
  ASSUME UNCHANGED connections, IsFiniteSet(connections), NEW u \in Users, Kept(u),
         StaysAsItIs(u)
  PROVE  Kept(u)'
<1>1. SUFFICES ASSUME Faithful(u)', NEW v \in Ids, Knows(u, v)', ~Gone(u)
               PROVE  Secured(u, v)'
  BY <1>1, RestsGone, Zenon DEF Kept
<1>2. Knows(u, v)
  BY <1>1, RestsKnows, Zenon
<1>3. Secured(u, v)
  <2>1. Faithful(u)
    BY <1>1, Zenon DEF Faithful, StaysAsItIs
  <2>2. QED
    BY <1>1, <1>2, <2>1, Zenon DEF Kept
<1>4. Leftover(u)' \subseteq Leftover(u)
  <2>1. SUFFICES ASSUME NEW d \in Leftover(u)' PROVE d \in Leftover(u)
    BY Zenon
  <2>2. /\ d \in SocketIds /\ d # Current(u)
        /\ sockets'[d].owner = u /\ CloseAsked(sockets'[d], SerialOf(u))
    BY <2>1, Zenon DEF Leftover, Owing, CloseAsked, StaysAsItIs
  <2>3. sockets[d].owner = u /\ CloseAsked(sockets[d], SerialOf(u))
    BY <2>2, Zenon DEF StaysAsItIs
  <2>4. QED
    BY <2>2, <2>3, Zenon DEF Leftover, Owing
<1>5. QED
  BY <1>3, <1>4, SecuredRests, Zenon DEF StaysAsItIs

\* A scanner that asks for a connection has not heard of one.
LEMMA OpensKnows ==
  ASSUME LinkInv, StepInv, NEW s \in Users, ScannerMove(s), Opens(s), NEW v
  PROVE  ~Knows(s, v)'
<1>1. SUFFICES ASSUME Knows(s, v)' PROVE FALSE
  BY <1>1, Zenon
<1>2. Phase(s) = "registering" /\ sockets[Current(s)].replies # <<>> /\ Current(s)' = Current(s)
  BY Zenon DEF Opens
<1>3. Phase(s)' = "opening" /\ Announces(sockets'[Current(s)], v)
  <2>1. Phase(s)' = "opening" /\ "opening" # "connected" /\ "opening" # "listening"
    BY Zenon DEF Opens
  <2>2. QED
    BY <1>1, <1>2, <2>1, Zenon DEF Knows, Announces, Busy
<1>4. PICK c \in SocketIds :
        /\ c = Current(s) /\ sockets[c] \in Socket /\ OneMessage(sockets[c])
        /\ Lacks(sockets[c], "open")
  <2>1. "registering" # "idle" /\ "registering" # "closing"
    BY Zenon
  <2>2. Current(s) \in SocketIds /\ Lacks(sockets[Current(s)], "open")
    BY <1>2, <2>1, Zenon DEF LinkInv, UsersOK, Owned
  <2>3. OneMessage(sockets[Current(s)])
    BY <1>2, <2>1, Zenon DEF StepInv, ScannerInv, InStep
  <2>4. QED
    BY <2>2, <2>3, Zenon DEF LinkInv, LinkTypeOK
<1>5. Tail(sockets[c].replies) = <<>> /\ ~Busy(sockets[c])
  BY <1>2, <1>4, ReplyAlone, Zenon
<1>6. PICK m \in Request : Appends(c, m, Tail(sockets[c].replies))
  BY <1>4, OpensEffect, Zenon DEF LinkInv, UsersOK, SocketsOK
<1>7. PICK b : /\ sockets'[c] = b /\ b.replies = <<>> /\ b.thread = sockets[c].thread
  BY <1>5, <1>6, Changed, Zenon DEF Appends, LinkInv, LinkTypeOK
<1>8. ~Busy(b) /\ b.replies = <<>>
  BY <1>5, <1>7, Zenon DEF Busy
<1>9. \A i \in 1 .. Len(b.replies) : FALSE
  <2>1. Len(<<>>) = 0
    OBVIOUS
  <2>2. \A i : i \notin 1 .. 0
    OBVIOUS
  <2>3. QED
    BY <1>8, <2>1, <2>2, Zenon
<1>10. QED
  BY <1>3, <1>4, <1>7, <1>8, <1>9, Zenon DEF Announces

\* A scanner reads what it was about to hear.
LEMMA ReadsKnows ==
  ASSUME LinkInv, NEW s \in Users, ScannerMove(s), Reads(s), NEW v, Knows(s, v)'
  PROVE  Knows(s, v)
<1>1. /\ Phase(s) = "opening" /\ Phase(s)' \in {"connected", "listening"}
      /\ sockets[Current(s)].replies # <<>>
      /\ Head(sockets[Current(s)].replies).kind = "opened"
      /\ State(s)'.id = Head(sockets[Current(s)].replies).value
  BY Zenon DEF Reads
<1>2. PICK c \in SocketIds : c = Current(s)
  <2>1. "opening" # "idle"
    BY Zenon
  <2>2. QED
    BY <1>1, <2>1, Zenon DEF LinkInv, UsersOK, Owned
<1>3. v = Head(sockets[c].replies).value
  <2>1. "opening" # "connected" /\ "opening" # "listening"
    BY Zenon
  <2>2. QED
    BY <1>1, <1>2, <2>1, Zenon DEF Knows
<1>4. 1 \in 1 .. Len(sockets[c].replies) /\ sockets[c].replies[1] = Head(sockets[c].replies)
  <2>1. sockets[c].replies \in Seq(Reply) /\ sockets[c].replies # <<>>
    BY <1>1, <1>2, SocketFields, Zenon DEF LinkInv, LinkTypeOK
  <2>2. QED
    BY <2>1, Headed
<1>5. Announces(sockets[c], v)
  BY <1>1, <1>2, <1>3, <1>4, Zenon DEF Announces
<1>6. QED
  BY <1>1, <1>2, <1>5, Zenon DEF Knows

LEMMA ReadsKept ==
  ASSUME LinkInv, IsFiniteSet(connections), NEW s \in Users, ScannerMove(s), Reads(s), Kept(s)
  PROVE  Kept(s)'
<1>1. SUFFICES ASSUME Faithful(s)', NEW v \in Ids, Knows(s, v)'
               PROVE  Gone(s)' \/ Secured(s, v)'
  BY <1>1, Zenon DEF Kept
<1>2. /\ Phase(s) = "opening" /\ Current(s)' = Current(s)
      /\ SerialOf(s)' = SerialOf(s) /\ abandoned'[s] = abandoned[s]
  BY Zenon DEF Reads
<1>3. PICK c \in SocketIds :
        /\ c = Current(s) /\ sockets[c].owner = s /\ sockets[c].thread # "unused"
        /\ sockets'[c].thread = sockets[c].thread
        /\ \A d \in SocketIds \ {c} : sockets'[d] = sockets[d]
  <2>1. "opening" # "idle"
    BY Zenon
  <2>2. /\ Owned(s) /\ Current(s) \in SocketIds /\ sockets[Current(s)].owner = s
        /\ sockets[Current(s)].thread # "unused"
    BY <1>2, <2>1, Zenon DEF LinkInv, UsersOK, Owned
  <2>3. QED
    BY <2>2, ReadsEffect, Zenon DEF LinkInv, SocketsOK, Effect
<1>4. UNCHANGED connections
  BY TablesRest, Zenon
<1>5. Faithful(s) /\ Knows(s, v)
  BY <1>1, <1>2, ReadsKnows, Zenon DEF Faithful
<1>6. CASE Gone(s)
  <2>1. Entries(s)' = {}
    BY <1>4, <1>6, Zenon DEF Gone, Entries
  <2>2. ASSUME NEW d \in SocketIds, sockets'[d].owner = s, sockets'[d].thread # "unused"
        PROVE  sockets'[d].thread = "ended"
    BY <1>3, <1>6, <2>2, Zenon DEF Gone
  <2>3. QED
    BY <2>1, <2>2, Zenon DEF Gone
<1>7. CASE Secured(s, v)
  <2>1. Leftover(s)' \subseteq Leftover(s)
    <3>1. SUFFICES ASSUME NEW d \in Leftover(s)' PROVE d \in Leftover(s)
      BY Zenon
    <3>2. /\ d \in SocketIds /\ d # Current(s)
          /\ sockets'[d].owner = s /\ CloseAsked(sockets'[d], SerialOf(s))
      BY <1>2, <3>1, Zenon DEF Leftover, Owing, CloseAsked
    <3>3. sockets[d].owner = s /\ CloseAsked(sockets[d], SerialOf(s))
      BY <1>3, <3>2, Zenon
    <3>4. QED
      BY <3>2, <3>3, Zenon DEF Leftover, Owing
  <2>2. QED
    BY <1>2, <1>4, <1>7, <2>1, SecuredRests, Zenon
<1>8. QED
  BY <1>5, <1>6, <1>7, Zenon DEF Kept

\* Who has no connection knows of none.
LEMMA MoversKnow ==
  ASSUME NEW s, Dials(s) \/ Closes(s) \/ Goes(s), NEW v
  PROVE  ~Knows(s, v)'
<1>1. Phase(s)' \in {"registering", "closing", "idle"}
  BY Zenon DEF Dials, Closes, Goes
<1>2. /\ "registering" \notin {"opening", "connected", "listening"}
      /\ "closing" \notin {"opening", "connected", "listening"}
      /\ "idle" \notin {"opening", "connected", "listening"}
  BY Zenon
<1>3. QED
  BY <1>1, <1>2, Zenon DEF Knows

\* Who is left alone by a step of a scanner, ...
LEMMA OthersStay ==
  ASSUME LinkInv, NEW s \in Users, ScannerMove(s), NEW u \in Users, u # s \/ Rests(s)
  PROVE  StaysAsItIs(u)
<1>1. CASE u # s
  BY <1>1, OtherRests, Zenon DEF StaysAsItIs
<1>2. CASE u = s /\ Rests(s)
  BY <1>2, Zenon DEF Rests, StaysAsItIs, Phase, Current, SerialOf
<1>3. QED
  BY <1>1, <1>2, Zenon

\* ... and what a scanner knows after its step it knew before.
LEMMA ScannerKnows ==
  ASSUME LinkInv, StepInv, NEW s \in Users, ScannerMove(s), NEW u \in Users,
         NEW v, Knows(u, v)'
  PROVE  Knows(u, v)
<1>1. CASE u # s \/ Rests(s)
  BY <1>1, OthersStay, RestsKnows, Zenon
<1>2. CASE u = s /\ (Reads(s) \/ Opens(s))
  BY <1>2, ReadsKnows, OpensKnows, Zenon
<1>3. CASE u = s /\ (Dials(s) \/ Closes(s) \/ Goes(s))
  BY <1>3, MoversKnow, Zenon
<1>4. QED
  BY <1>1, <1>2, <1>3, Zenon DEF ScannerMove

LEMMA ScannerKept ==
  ASSUME LinkInv, StepInv, IsFiniteSet(connections), NEW s \in Users, ScannerMove(s),
         NEW u \in Users, Kept(u)
  PROVE  Kept(u)'
<1>1. UNCHANGED connections
  BY TablesRest, Zenon
<1>2. CASE u # s \/ Rests(s)
  BY <1>1, <1>2, OthersStay, RestsKept, Zenon
<1>3. CASE u = s /\ Reads(s)
  BY <1>3, ReadsKept, Zenon
<1>4. CASE u = s /\ Opens(s)
  BY <1>4, OpensKnows, Zenon DEF Kept
<1>5. CASE u = s /\ (Dials(s) \/ Closes(s) \/ Goes(s))
  BY <1>5, MoversKnow, Zenon DEF Kept
<1>6. QED
  BY <1>2, <1>3, <1>4, <1>5, Zenon DEF ScannerMove

\* Nobody has moved.
LEMMA AllStay ==
  ASSUME UNCHANGED linkVars, NEW u \in Users
  PROVE  StaysAsItIs(u) /\ UNCHANGED <<connections, next_connection_id, older, cyclic>>
<1>1. UNCHANGED <<sockets, tables, cyclic, abandoned, transport, originator>>
  BY Zenon DEF linkVars, serverVars
<1>2. QED
  BY <1>1, Zenon DEF tables, StaysAsItIs, State, Phase, Current, SerialOf

LEMMA KeptNext ==
  ASSUME LinkInv, Cast, StepInv, RecordsInv, CountsInv, KeptInv, [NextLink]_linkVars
  PROVE  KeptInv'
<1>1. IsFiniteSet(connections)
  BY Zenon DEF CountsInv
<1>2. ASSUME ServerStep, UNCHANGED <<transport, originator, abandoned>> PROVE KeptInv'
  BY <1>2, ServerKept, Zenon DEF KeptInv
<1>3. ASSUME NEW s \in Users, ScannerMove(s) PROVE KeptInv'
  BY <1>1, <1>3, ScannerKept, Zenon DEF KeptInv
<1>4. ASSUME NEW t \in Transports, TransportStep(t), UNCHANGED originator PROVE KeptInv'
  BY <1>3, <1>4, TransportTyped, Zenon DEF Users
<1>5. ASSUME NEW o \in Originators, OriginatorStep(o) PROVE KeptInv'
  BY <1>3, <1>5, OriginatorTyped, Zenon DEF Users
<1>6. CASE UNCHANGED linkVars
  BY <1>1, <1>6, AllStay, RestsKept, Zenon DEF KeptInv
<1>7. QED
  BY <1>2, <1>4, <1>5, <1>6, Zenon DEF NextLink

LEMMA KeptInit ==
  ASSUME InitLink
  PROVE  KeptInv
<1>1. SUFFICES ASSUME NEW s \in Users PROVE Phase(s) = "idle"
  <2>1. "idle" \notin {"opening", "connected", "listening"}
    BY Zenon
  <2>2. QED
    BY <1>1, <2>1, Zenon DEF KeptInv, Kept, Knows
<1>2. CASE s \in Transports
  BY <1>2, Zenon DEF InitLink, InitTransport, Phase, State
<1>3. CASE s \notin Transports
  BY <1>3, Zenon DEF InitLink, InitOriginator, IdleRun, Phase, State, Users
<1>4. QED
  BY <1>2, <1>3, Zenon

KnownInv == LinkInv /\ StepInv /\ RecordsInv /\ CountsInv /\ KeptInv

LEMMA KnownNext ==
  ASSUME Cast, KnownInv, [NextLink]_linkVars
  PROVE  KnownInv'
BY LinkInvNext, StepNext, RecordsNext, CountsNext, KeptNext, Zenon DEF KnownInv

LEMMA KnownInit ==
  ASSUME InitLink, Scanners # {}
  PROVE  KnownInv
BY LinkInvInit, StepInit, RecordsInit, CountsInit, KeptInit, Zenon DEF KnownInv

\* What the server and a scanner know of each other, as far as it has not stopped.
LEMMA SecuredEntry ==
  ASSUME NEW s \in Users, NEW v, Secured(s, v)
  PROVE  \E k \in connections : k.vendor = Vendor[s] /\ k.id = v
BY Zenon DEF Secured, LastClosed, EntriesOf, Holds

\* A transport that is connected is in the table of the server, and so is a run of
\* the tool if none before it was cut short: no refusal, no end or death of another
\* scanner, no late request of one and no Forward Close that a transport has left
\* behind closes a connection that is not its own.
THEOREM ConnectedStaysOpen ==
  ASSUME Scanners # {}, Cast
  PROVE  LinkSpec => []ConnectedIsOpen
<1>1. InitLink => KnownInv
  BY KnownInit, Zenon
<1>2. KnownInv /\ [NextLink]_linkVars => KnownInv'
  BY KnownNext, Zenon
<1>3. KnownInv => ConnectedIsOpen
  <2>1. SUFFICES ASSUME KnownInv, NEW s \in Scanners, Believes(s), Faithful(s)
                 PROVE  \E k \in connections : k.vendor = Vendor[s] /\ k.id = Believed(s)
    BY Zenon DEF ConnectedIsOpen, Faithful
  <2>2. s \in Users /\ Kept(s) /\ LinkInv
    BY <2>1, Zenon DEF Cast, KnownInv, KeptInv
  <2>3. /\ Phase(s) \in {"connected", "listening"} /\ sockets[Current(s)].thread # "ended"
        /\ Believed(s) = State(s).id
    BY <2>1, Zenon DEF Believes, Believed, Phase, Current, State
  <2>4. Knows(s, State(s).id)
    BY <2>3, Zenon DEF Knows
  <2>5. ~Gone(s)
    <3>1. Phase(s) # "idle"
      BY <2>3, Zenon
    <3>2. QED
      BY <2>2, <2>3, <3>1, Zenon DEF Gone, LinkInv, UsersOK, Owned
  <2>6. State(s).id \in Ids
    <3>1. s \in Transports => transport[s] \in TransportState
      BY <2>2, Zenon DEF LinkInv, LinkTypeOK
    <3>2. s \notin Transports => originator[s] \in OriginatorState
      BY <2>2, Zenon DEF LinkInv, LinkTypeOK, Users
    <3>3. QED
      BY <3>1, <3>2, Zenon DEF State, TransportState, OriginatorState
  <2>7. Secured(s, State(s).id)
    BY <2>1, <2>2, <2>4, <2>5, <2>6, Zenon DEF Kept
  <2>8. QED
    BY <2>2, <2>3, <2>7, SecuredEntry, Zenon
<1>4. QED
  BY <1>1, <1>2, <1>3, PTL DEF LinkSpec

----------------------------------------------------------------------------
(* 2. The order of the frames.                                             *)

\* A connection id that was handed out, and one whose connection was closed.
Drawn(n) == n <= next_connection_id
Past(n) == n \in Ids /\ Drawn(n) /\ \A k \in connections : k.id # n

\* Every id that somebody has heard of was drawn, and what was closed stays closed.
HistoryInv ==
  /\ \A s \in Users : \A v \in Ids : Knows(s, v) => Drawn(v)
  /\ Drawn(applying.id) /\ \A i \in 1 .. Len(datagrams) : Drawn(datagrams[i].id)
  /\ older[0] = {} /\ \A n \in Ids : \A m \in older[n] : Past(m)
  /\ \A m \in overtaken : Past(m)

\* A scanner that has, or believes to have, a connection to produce on; the server
\* has stopped, and it has not noticed.
Sends(s) == Phase(s) \in {"connected", "listening"}
Cut(s) == Sends(s) /\ Gone(s)

\* A frame is not behind one of a connection that was opened after its own was
\* closed.
Fresh(i) ==
  /\ datagrams[i].id \notin overtaken /\ datagrams[i].id \notin older[applying.id]
  /\ \A j \in 1 .. i - 1 : datagrams[i].id \notin older[datagrams[j].id]

\* That holds of every frame of a clean scanner, but for those of one that is cut
\* off, which the server does not let pass.
FramesInOrder(s) ==
  abandoned[s] = 0 =>
    /\ applying # NoFrame /\ applying.vendor = Vendor[s] => applying.id \notin overtaken
    /\ ~Cut(s) => \A i \in 1 .. Len(datagrams) : datagrams[i].vendor = Vendor[s] => Fresh(i)

OrderInv == HistoryInv /\ \A s \in Users : FramesInOrder(s)

\* What a step of the server does to the frames.
LEMMA FramesMove ==
  ASSUME LinkInv, ServerStep
  PROVE  \/ UNCHANGED <<older, applying, datagrams, overtaken, next_connection_id>>
         \/ \E c \in SocketIds : ForwardOpen(c) /\ UNCHANGED cyclic
         \/ Receive /\ UNCHANGED next_connection_id
         \/ Apply /\ UNCHANGED next_connection_id
         \/ LoseDatagram /\ UNCHANGED next_connection_id
<1>1. CASE StartServer \/ StopServer \/ StopReturns \/ \E t \in Loops : LoopEnds(t)
  BY <1>1, Zenon DEF StartServer, StopServer, StopReturns, LoopEnds, tables, cyclic
<1>2. ASSUME NEW c \in SocketIds, Accept(c)
      PROVE  UNCHANGED <<older, applying, datagrams, overtaken, next_connection_id>>
  BY <1>2, Zenon DEF Accept, tables, cyclic
<1>3. ASSUME NEW c \in SocketIds, SessionStep(c)
      PROVE  \/ UNCHANGED <<older, applying, datagrams, overtaken, next_connection_id>>
             \/ ForwardOpen(c) /\ UNCHANGED cyclic
  <2>1. CASE ForwardOpen(c)
    BY <2>1, Zenon DEF ForwardOpen
  <2>2. CASE RegisterSession(c) \/ UnregisterSession(c) \/ RefuseSession(c)
    BY <2>2, Zenon DEF RegisterSession, UnregisterSession, RefuseSession, tables, cyclic
  <2>3. CASE RefuseForwardOpen(c) \/ ForwardClose(c)
    BY <2>3, Zenon DEF RefuseForwardOpen, ForwardClose, tables, cyclic
  <2>4. CASE SetItems(c) \/ CollectItems(c) \/ Answer(c) \/ SessionEnds(c)
    BY <2>4, Zenon DEF SetItems, CollectItems, Answer, SessionEnds, tables, cyclic
  <2>5. QED
    BY <1>3, <2>1, <2>2, <2>3, <2>4, Zenon DEF SessionStep
<1>4. CASE Receive
  BY <1>4, Zenon DEF Receive, tables
<1>5. CASE Apply
  BY <1>5, Zenon DEF Apply, tables
<1>6. CASE LoseDatagram
  BY <1>6, Zenon DEF LoseDatagram, tables
<1>7. QED
  BY <1>1, <1>2, <1>3, <1>4, <1>5, <1>6, Zenon DEF ServerStep

\* The types of the frames.
LEMMA FrameIds ==
  ASSUME LinkInv
  PROVE  /\ applying.id \in Ids /\ NoFrame.id = 0 /\ 0 \in Ids
         /\ datagrams \in Seq(Frame) /\ \A i \in 1 .. Len(datagrams) : datagrams[i].id \in Ids
         /\ next_connection_id \in Nat /\ older \in [Ids -> SUBSET Ids]
<1>1. /\ applying \in Frame \cup {NoFrame} /\ datagrams \in Seq(Frame)
      /\ next_connection_id \in Ids /\ older \in [Ids -> SUBSET Ids]
  BY Zenon DEF LinkInv, LinkTypeOK
<1>2. \A f \in Frame : f.id \in Ids
  BY Zenon DEF Frame
<1>3. NoFrame.id = 0
  BY Zenon DEF NoFrame
<1>4. \A i \in 1 .. Len(datagrams) : datagrams[i] \in Frame
  BY <1>1
<1>5. QED
  BY <1>1, <1>2, <1>3, <1>4, Ranges, Zenon

\* Ids are drawn in order.
LEMMA StaysPast ==
  ASSUME LinkInv, RecordsInv, ServerStep, NEW m \in Ids
  PROVE  (Drawn(m) => Drawn(m)') /\ (Past(m) => Past(m)')
<1>1. m \in Nat /\ next_connection_id \in Nat /\ ConnectionsApart
  BY FrameIds, Ranges, Zenon DEF RecordsInv
<1>2. ASSUME NEW c \in SocketIds, ForwardOpen(c)
      PROVE  (Drawn(m) => Drawn(m)') /\ (Past(m) => Past(m)')
  <2>1. /\ connections' = connections \cup {NewEntry(c)}
        /\ next_connection_id' = next_connection_id + 1
        /\ NewEntry(c).id = next_connection_id + 1
    BY <1>1, <1>2, OpensEntry, Zenon
  <2>2. Drawn(m) => Drawn(m)' /\ m # next_connection_id + 1
    BY <1>1, <2>1 DEF Drawn
  <2>3. QED
    BY <2>1, <2>2, Zenon DEF Past, Drawn
<1>3. ASSUME connections' \subseteq connections, next_connection_id' = next_connection_id
      PROVE  (Drawn(m) => Drawn(m)') /\ (Past(m) => Past(m)')
  BY <1>3, Zenon DEF Drawn, Past
<1>4. ASSUME NEW c \in SocketIds, ForwardClose(c)
      PROVE  connections' \subseteq connections /\ next_connection_id' = next_connection_id
  BY <1>1, <1>4, ClosesEntry, Zenon DEF ForwardClose
<1>5. QED
  BY <1>2, <1>3, <1>4, TableMoves, Zenon

\* The first frame is taken away.
LEMMA FirstFrame ==
  ASSUME LinkInv, datagrams # <<>>, datagrams' = Tail(datagrams)
  PROVE  /\ 1 \in 1 .. Len(datagrams) /\ datagrams[1] = Head(datagrams)
         /\ \A i \in 1 .. Len(datagrams') :
              /\ i + 1 \in 1 .. Len(datagrams) /\ datagrams'[i] = datagrams[i + 1]
              /\ 1 \in 1 .. (i + 1) - 1
              /\ \A j \in 1 .. i - 1 : /\ j + 1 \in 1 .. (i + 1) - 1
                                       /\ datagrams'[j] = datagrams[j + 1]
<1>1. datagrams \in Seq(Frame)
  BY FrameIds, Zenon
<1>2. /\ Len(datagrams) \in Nat /\ 1 <= Len(datagrams) /\ datagrams[1] = Head(datagrams)
      /\ Len(datagrams') = Len(datagrams) - 1
      /\ \A i \in 1 .. Len(datagrams') : datagrams'[i] = datagrams[i + 1]
  BY <1>1, Headed
<1>3. QED
  BY <1>2

\* What a Forward Open notes.
LEMMA OpensHistory ==
  ASSUME LinkInv, RecordsInv, NEW c \in SocketIds, ForwardOpen(c)
  PROVE  /\ \A n \in Ids : Drawn(n) => older'[n] = older[n]
         /\ \A n \in Ids : \A m \in older'[n] :
              m \in older[n] \/ Past(m)
<1>1. /\ older' = [older EXCEPT ![next_connection_id'] =
                     1 .. next_connection_id \ {k.id : k \in connections}]
      /\ next_connection_id' = next_connection_id + 1
  BY Zenon DEF ForwardOpen
<1>2. next_connection_id \in Nat /\ next_connection_id + 1 \in Ids
  BY OpenAllowed, Zenon
<1>3. older \in [Ids -> SUBSET Ids] /\ \A n : n \in Ids <=> n \in Nat /\ n <= MaxSockets
  BY FrameIds, Ranges, Zenon
<1>4. ASSUME NEW n \in Ids, Drawn(n) PROVE older'[n] = older[n]
  <2>1. n # next_connection_id + 1
    BY <1>2, <1>3, <1>4 DEF Drawn
  <2>2. QED
    BY <1>1, <1>3, <2>1, Zenon
<1>5. ASSUME NEW n \in Ids, NEW m \in older'[n], m \notin older[n] PROVE Past(m)
  <2>1. m \in 1 .. next_connection_id /\ \A k \in connections : k.id # m
    BY <1>1, <1>2, <1>3, <1>5, Zenon
  <2>2. m \in Ids /\ Drawn(m)
    <3>1. MaxSockets \in Nat /\ next_connection_id <= MaxSockets
      BY <1>2, <1>3, Ranges, Zenon DEF LinkInv, LinkTypeOK
    <3>2. QED
      BY <1>2, <1>3, <2>1, <3>1 DEF Drawn
  <2>3. QED
    BY <2>1, <2>2, Zenon DEF Past
<1>6. QED
  BY <1>4, <1>5, Zenon

LEMMA ServerHistory ==
  ASSUME LinkInv, RecordsInv, HistoryInv, ServerStep, UNCHANGED <<transport, originator>>
  PROVE  HistoryInv'
<1>1. \A m \in Ids : (Drawn(m) => Drawn(m)') /\ (Past(m) => Past(m)')
  BY StaysPast, Zenon
<1>2. \A m : Past(m) => Past(m)'
  BY <1>1, Zenon DEF Past
<1>3. ASSUME NEW s \in Users, NEW v \in Ids, Knows(s, v)' PROVE Drawn(v)'
  <2>1. CASE Knows(s, v)
    BY <1>1, <2>1, Zenon DEF HistoryInv
  <2>2. CASE ~Knows(s, v)
    <3>1. v = next_connection_id'
      BY <1>3, <2>2, KnewBefore
    <3>2. v \in Nat
      BY Ranges, Zenon
    <3>3. v <= v
      BY <3>2
    <3>4. QED
      BY <3>1, <3>3, Zenon DEF Drawn
  <2>3. QED
    BY <2>1, <2>2, Zenon
<1>4. /\ \A i \in 1 .. Len(datagrams) : datagrams[i].id \in Ids
      /\ applying.id \in Ids /\ NoFrame.id = 0 /\ 0 \in Ids
  BY FrameIds, Zenon
<1>5. 0 <= next_connection_id
  BY FrameIds
<1>6. Drawn(0)'
  BY <1>1, <1>4, <1>5, Zenon DEF Drawn
<1>7. CASE UNCHANGED <<older, applying, datagrams, overtaken, next_connection_id>>
  BY <1>1, <1>2, <1>3, <1>4, <1>7, Zenon DEF HistoryInv
<1>8. ASSUME NEW c \in SocketIds, ForwardOpen(c), UNCHANGED cyclic PROVE HistoryInv'
  <2>1. UNCHANGED <<applying, datagrams, overtaken>>
    BY <1>8, Zenon DEF cyclic
  <2>2. /\ \A n \in Ids : Drawn(n) => older'[n] = older[n]
        /\ \A n \in Ids : \A m \in older'[n] : m \in older[n] \/ Past(m)
    BY <1>8, OpensHistory, Zenon
  <2>3. older'[0] = {}
    BY <1>4, <1>5, <2>2, Zenon DEF HistoryInv, Drawn
  <2>4. \A n \in Ids : \A m \in older'[n] : Past(m)'
    BY <1>2, <2>2, Zenon DEF HistoryInv
  <2>5. QED
    BY <1>1, <1>2, <1>3, <1>4, <2>1, <2>3, <2>4, Zenon DEF HistoryInv
<1>9. CASE Receive \/ LoseDatagram
  <2>1. /\ datagrams # <<>> /\ datagrams' = Tail(datagrams)
        /\ UNCHANGED <<older, overtaken, next_connection_id>>
        /\ applying' \in {applying, Head(datagrams), NoFrame}
    BY <1>9, Zenon DEF Receive, LoseDatagram, tables
  <2>2. \A i \in 1 .. Len(datagrams') :
          i + 1 \in 1 .. Len(datagrams) /\ datagrams'[i] = datagrams[i + 1]
    BY <2>1, FirstFrame, Zenon
  <2>3. 1 \in 1 .. Len(datagrams) /\ datagrams[1] = Head(datagrams)
    BY <2>1, FirstFrame, Zenon
  <2>4. \A i \in 1 .. Len(datagrams') : Drawn(datagrams'[i].id)
    BY <2>2, Zenon DEF HistoryInv
  <2>5. Drawn(applying'.id)
    BY <1>4, <1>5, <2>1, <2>3, Zenon DEF HistoryInv, Drawn
  <2>6. QED
    BY <1>2, <1>3, <2>1, <2>4, <2>5, Zenon DEF HistoryInv, Drawn
<1>10. CASE Apply
  <2>1. /\ overtaken' = overtaken \cup older[applying.id] /\ applying' = NoFrame
        /\ UNCHANGED <<older, datagrams>>
    BY <1>10, Zenon DEF Apply, tables
  <2>2. \A m \in overtaken' : Past(m)'
    BY <1>2, <1>4, <2>1, Zenon DEF HistoryInv
  <2>3. QED
    BY <1>1, <1>2, <1>3, <1>4, <1>6, <2>1, <2>2, Zenon DEF HistoryInv
<1>11. QED
  BY <1>7, <1>8, <1>9, <1>10, FramesMove, Zenon

LEMMA ServerFrames ==
  ASSUME LinkInv, Cast, RecordsInv, HistoryInv, ServerStep,
         UNCHANGED <<transport, originator, abandoned>>, NEW s \in Users, FramesInOrder(s)
  PROVE  FramesInOrder(s)'
<1>1. SUFFICES ASSUME abandoned[s] = 0
               PROVE  /\ applying' # NoFrame /\ applying'.vendor = Vendor[s]
                           => applying'.id \notin overtaken'
                      /\ ~Cut(s)' => \A i \in 1 .. Len(datagrams') :
                           datagrams'[i].vendor = Vendor[s] => Fresh(i)'
  BY <1>1, Zenon DEF FramesInOrder
<1>2. ~Cut(s)' => ~Cut(s)
  <2>1. Sends(s)' <=> Sends(s)
    BY Zenon DEF Sends, Phase, State
  <2>2. QED
    BY <2>1, GoneStays, Zenon DEF Cut
<1>3. applying # NoFrame /\ applying.vendor = Vendor[s] => applying.id \notin overtaken
  BY <1>1, Zenon DEF FramesInOrder
<1>4. ASSUME ~Cut(s), NEW i \in 1 .. Len(datagrams), datagrams[i].vendor = Vendor[s]
      PROVE  /\ datagrams[i].id \notin overtaken /\ datagrams[i].id \notin older[applying.id]
             /\ \A j \in 1 .. i - 1 : datagrams[i].id \notin older[datagrams[j].id]
  BY <1>1, <1>4, Zenon DEF FramesInOrder, Fresh
<1>5. /\ \A i \in 1 .. Len(datagrams) : datagrams[i].id \in Ids
      /\ applying.id \in Ids /\ NoFrame.id = 0 /\ 0 \in Ids
  BY FrameIds, Zenon
<1>6. older[0] = {}
  BY Zenon DEF HistoryInv
<1>7. CASE UNCHANGED <<older, applying, datagrams, overtaken, next_connection_id>>
  BY <1>2, <1>3, <1>4, <1>7, Zenon DEF Fresh
<1>8. ASSUME NEW c \in SocketIds, ForwardOpen(c), UNCHANGED cyclic
      PROVE  /\ applying' # NoFrame /\ applying'.vendor = Vendor[s]
                  => applying'.id \notin overtaken'
             /\ ~Cut(s)' => \A i \in 1 .. Len(datagrams') :
                  datagrams'[i].vendor = Vendor[s] => Fresh(i)'
  <2>1. UNCHANGED <<applying, datagrams, overtaken>>
    BY <1>8, Zenon DEF cyclic
  <2>2. \A n \in Ids : Drawn(n) => older'[n] = older[n]
    BY <1>8, OpensHistory, Zenon
  <2>3. older'[applying.id] = older[applying.id]
    BY <1>5, <2>2, Zenon DEF HistoryInv
  <2>4. \A j \in 1 .. Len(datagrams) : older'[datagrams[j].id] = older[datagrams[j].id]
    BY <1>5, <2>2, Zenon DEF HistoryInv
  <2>5. \A i \in 1 .. Len(datagrams) : \A j \in 1 .. i - 1 : j \in 1 .. Len(datagrams)
    <3>1. Len(datagrams) \in Nat
      BY FrameIds
    <3>2. QED
      BY <3>1
  <2>6. QED
    BY <1>2, <1>3, <1>4, <2>1, <2>3, <2>4, <2>5, Zenon DEF Fresh
<1>9. ASSUME datagrams # <<>>, datagrams' = Tail(datagrams), UNCHANGED <<older, overtaken>>,
             ~Cut(s), NEW i \in 1 .. Len(datagrams'), datagrams'[i].vendor = Vendor[s],
             applying' \in {applying, Head(datagrams), NoFrame}
      PROVE  Fresh(i)'
  <2>1. /\ 1 \in 1 .. Len(datagrams) /\ datagrams[1] = Head(datagrams)
        /\ i + 1 \in 1 .. Len(datagrams) /\ datagrams'[i] = datagrams[i + 1]
        /\ 1 \in 1 .. (i + 1) - 1
        /\ \A j \in 1 .. i - 1 : /\ j + 1 \in 1 .. (i + 1) - 1
                                 /\ datagrams'[j] = datagrams[j + 1]
    BY <1>9, FirstFrame, Zenon
  <2>2. PICK n : n = i + 1
    BY Zenon
  <2>3. /\ n \in 1 .. Len(datagrams) /\ datagrams[n].vendor = Vendor[s]
        /\ datagrams'[i] = datagrams[n]
    BY <1>9, <2>1, <2>2, Zenon
  <2>4. /\ datagrams[n].id \notin overtaken /\ datagrams[n].id \notin older[applying.id]
        /\ \A j \in 1 .. n - 1 : datagrams[n].id \notin older[datagrams[j].id]
    BY <1>4, <1>9, <2>3, Zenon
  <2>5. datagrams[n].id \notin older[applying'.id]
    BY <1>5, <1>6, <1>9, <2>1, <2>2, <2>4, Zenon
  <2>6. \A j \in 1 .. i - 1 : datagrams[n].id \notin older[datagrams'[j].id]
    BY <2>1, <2>2, <2>4, Zenon
  <2>7. QED
    BY <1>9, <2>3, <2>4, <2>5, <2>6, Zenon DEF Fresh
<1>10. CASE LoseDatagram
  <2>1. /\ datagrams # <<>> /\ datagrams' = Tail(datagrams)
        /\ UNCHANGED <<older, overtaken, applying>>
    BY <1>10, Zenon DEF LoseDatagram, tables
  <2>2. QED
    BY <1>2, <1>3, <1>9, <2>1, Zenon
<1>11. CASE Receive
  <2>1. /\ datagrams # <<>> /\ datagrams' = Tail(datagrams)
        /\ UNCHANGED <<older, overtaken>>
        /\ applying' = IF Known(Head(datagrams)) THEN Head(datagrams) ELSE NoFrame
    BY <1>11, Zenon DEF Receive, tables
  <2>2. 1 \in 1 .. Len(datagrams) /\ datagrams[1] = Head(datagrams)
    BY <2>1, FirstFrame, Zenon
  <2>3. ASSUME applying' # NoFrame, applying'.vendor = Vendor[s]
        PROVE  applying'.id \notin overtaken'
    <3>1. applying' = datagrams[1] /\ Known(datagrams[1]) /\ datagrams[1].vendor = Vendor[s]
      BY <2>1, <2>2, <2>3, Zenon
    <3>2. ~Cut(s)
      BY <3>1, Zenon DEF Known, Cut, Gone, Entries
    <3>3. QED
      BY <1>4, <2>1, <2>2, <3>1, <3>2, Zenon
  <2>4. ASSUME ~Cut(s)', NEW i \in 1 .. Len(datagrams'), datagrams'[i].vendor = Vendor[s]
        PROVE  Fresh(i)'
    BY <1>2, <1>9, <2>1, <2>4, Zenon
  <2>5. QED
    BY <2>3, <2>4, Zenon
<1>12. CASE Apply
  <2>1. /\ overtaken' = overtaken \cup older[applying.id] /\ applying' = NoFrame
        /\ UNCHANGED <<older, datagrams>>
    BY <1>12, Zenon DEF Apply, tables
  <2>2. ASSUME ~Cut(s)', NEW i \in 1 .. Len(datagrams), datagrams[i].vendor = Vendor[s]
        PROVE  Fresh(i)'
    BY <1>2, <1>4, <1>5, <1>6, <2>1, <2>2, Zenon DEF Fresh
  <2>3. QED
    BY <2>1, <2>2, Zenon
<1>13. QED
  BY <1>7, <1>8, <1>10, <1>11, <1>12, FramesMove, Zenon

\* The frames a scanner sends, and what it finds when it asks to close.
Produces(s) ==
  /\ Sends(s)
  /\ \E n \in Serials :
       datagrams' = Append(datagrams, [vendor |-> Vendor[s], serial |-> n, id |-> State(s).id])

OnTheWire(s) ==
  /\ UNCHANGED overtaken
  /\ UNCHANGED datagrams \/ Produces(s)
  /\ Sends(s) /\ Phase(s)' = "closing" => ~Broken(Current(s))

LEMMA TransportSends ==
  ASSUME LinkInv, NEW t \in Transports, TransportStep(t), UNCHANGED originator
  PROVE  OnTheWire(t)
<1>1. State(t) = transport[t] /\ Phase(t) = transport[t].phase /\ Current(t) = transport[t].socket
  BY Zenon DEF State, Phase, Current
<1>2. CASE EmitFrame(t)
  <2>1. transport[t].serial \in Serials /\ transport[t].phase = "connected"
    BY <1>2, Zenon DEF EmitFrame, LinkInv, TransportsOK, TransportOK
  <2>2. /\ datagrams' = Append(datagrams, [vendor |-> Vendor[t],
             serial |-> transport[t].serial, id |-> transport[t].id])
        /\ UNCHANGED <<overtaken, transport>>
    BY <1>2, Zenon DEF EmitFrame, Emit
  <2>3. Phase(t)' = "connected" /\ "connected" # "closing"
    BY <2>1, <2>2, Zenon DEF Phase, State
  <2>4. QED
    BY <1>1, <2>1, <2>2, <2>3, Zenon DEF OnTheWire, Produces, Sends
<1>3. CASE Disconnect(t)
  BY <1>1, <1>3, Zenon DEF Disconnect, OnTheWire, Only, cyclic
<1>4. ASSUME Only, Phase(t)' # "closing" PROVE OnTheWire(t)
  BY <1>4, Zenon DEF OnTheWire, Only, cyclic
<1>5. ASSUME NEW b, transport' = [transport EXCEPT ![t] = b], b.phase # "closing"
      PROVE  Phase(t)' # "closing"
  BY <1>5, Zenon DEF Phase, State, LinkInv, LinkTypeOK
<1>6. ASSUME Forget(t) PROVE Phase(t)' # "closing"
  <2>1. \E b \in TransportState :
          transport' = [transport EXCEPT ![t] = b] /\ b.phase = "idle"
    BY <1>6, ForgetMakes, Zenon DEF LinkInv, TransportsOK, TransportOK, ListenerInStep
  <2>2. "idle" # "closing"
    BY Zenon
  <2>3. QED
    BY <1>5, <2>1, <2>2, Zenon
<1>7. CASE ConnectFails(t) \/ DisconnectFails(t) \/ Disconnected(t)
  BY <1>4, <1>6, <1>7, Zenon DEF ConnectFails, DisconnectFails, Disconnected, Fails
<1>8. CASE Connect(t) \/ RequestOpen(t) \/ Opened(t)
  <2>1. Only /\ transport[t].phase # "connected"
    BY <1>8, Zenon DEF Connect, RequestOpen, Opened
  <2>2. ~Sends(t)
    BY <1>1, <1>8, Zenon DEF Connect, RequestOpen, Opened, Sends
  <2>3. QED
    BY <2>1, <2>2, Zenon DEF OnTheWire, Only, cyclic
<1>9. QED
  BY <1>2, <1>3, <1>7, <1>8, Zenon DEF TransportStep

LEMMA OriginatorSends ==
  ASSUME LinkInv, NEW o \in Originators, OriginatorStep(o)
  PROVE  OnTheWire(o)
<1>1. /\ State(o) = originator[o] /\ State(o)' = originator'[o]
      /\ Phase(o) = originator[o].phase /\ Current(o) = originator[o].socket
      /\ Phase(o)' = originator'[o].phase
      /\ originator \in [Originators -> OriginatorState]
  BY Kinds, Zenon DEF State, Phase, Current, Users, LinkInv, LinkTypeOK
<1>2. CASE EmitZeros(o)
  <2>1. /\ originator[o].phase = "listening"
        /\ datagrams' = Append(datagrams, [vendor |-> Vendor[o],
             serial |-> FirstSerial, id |-> originator[o].id])
        /\ UNCHANGED <<overtaken, originator>>
    BY <1>2, Zenon DEF EmitZeros, Emit
  <2>2. FirstSerial \in Serials /\ "listening" # "closing"
    BY OriginatorAssumption, Zenon
  <2>3. QED
    BY <1>1, <2>1, <2>2, Zenon DEF OnTheWire, Produces, Sends
<1>3. CASE RequestForwardClose(o)
  BY <1>1, <1>3, Zenon DEF RequestForwardClose, OnTheWire, Calm, cyclic
<1>4. ASSUME Calm, ~Sends(o) PROVE OnTheWire(o)
  BY <1>4, Zenon DEF OnTheWire, Calm, cyclic
<1>5. CASE OpenSession(o) \/ RequestForwardOpen(o) \/ StartListening(o)
             \/ CloseAfterRefusal(o) \/ CloseAfterTimeout(o)
  <2>1. Calm
    BY <1>5, Zenon DEF OpenSession, RequestForwardOpen, StartListening, CloseAfterRefusal,
         CloseAfterTimeout
  <2>2. ~Sends(o)
    BY <1>1, <1>5, Zenon DEF OpenSession, RequestForwardOpen, StartListening,
         CloseAfterRefusal, CloseAfterTimeout, Sends
  <2>3. QED
    BY <1>4, <2>1, <2>2, Zenon
<1>6. CASE Finish(o) \/ FinishUnanswered(o) \/ Kill(o)
  <2>1. Calm /\ originator' = [originator EXCEPT ![o] = IdleRun]
    BY <1>6, Zenon DEF Finish, FinishUnanswered, Kill, Leaves
  <2>2. Phase(o)' # "closing"
    BY <1>1, <2>1, Zenon DEF IdleRun
  <2>3. QED
    BY <2>1, <2>2, Zenon DEF OnTheWire, Calm, cyclic
<1>7. QED
  BY <1>2, <1>3, <1>5, <1>6, Zenon DEF OriginatorStep

\* Who sends has an id that was drawn, and the entry of it unless it is cut off.
LEMMA SenderKnown ==
  ASSUME LinkInv, KeptInv, HistoryInv, NEW s \in Users, Sends(s)
  PROVE  /\ State(s).id \in Ids /\ Drawn(State(s).id)
         /\ abandoned[s] = 0 /\ ~Cut(s) => \E k \in connections : k.id = State(s).id
<1>1. State(s).id \in Ids
  <2>1. s \in Transports => transport[s] \in TransportState
    BY Zenon DEF LinkInv, LinkTypeOK
  <2>2. s \notin Transports => originator[s] \in OriginatorState
    BY Zenon DEF LinkInv, LinkTypeOK, Users
  <2>3. QED
    BY <2>1, <2>2, Zenon DEF State, TransportState, OriginatorState
<1>2. Knows(s, State(s).id)
  BY Zenon DEF Sends, Knows
<1>3. Drawn(State(s).id)
  BY <1>1, <1>2, Zenon DEF HistoryInv
<1>4. abandoned[s] = 0 /\ ~Cut(s) => Secured(s, State(s).id)
  BY <1>1, <1>2, Zenon DEF KeptInv, Kept, Faithful, Cut
<1>5. QED
  BY <1>1, <1>3, <1>4, SecuredEntry, Zenon

\* The last frame is the one that was sent.
LEMMA LastFrame ==
  ASSUME LinkInv, NEW s \in Users, NEW n \in Serials, NEW v \in Ids,
         datagrams' = Append(datagrams, [vendor |-> Vendor[s], serial |-> n, id |-> v])
  PROVE  \A i \in 1 .. Len(datagrams') :
           /\ \A j \in 1 .. i - 1 :
                j \in 1 .. Len(datagrams) /\ datagrams'[j] = datagrams[j]
           /\ \/ i \in 1 .. Len(datagrams) /\ datagrams'[i] = datagrams[i]
              \/ datagrams'[i].vendor = Vendor[s] /\ datagrams'[i].id = v
<1> DEFINE f == [vendor |-> Vendor[s], serial |-> n, id |-> v]
<1>1. f \in Frame /\ f.vendor = Vendor[s] /\ f.id = v
  BY Kinds, Zenon DEF Frame
<1>2. datagrams \in Seq(Frame) /\ datagrams' = Append(datagrams, f)
  BY FrameIds, Zenon
<1> HIDE DEF f
<1>3. /\ Len(datagrams') = Len(datagrams) + 1 /\ Len(datagrams) \in Nat
      /\ \A i \in 1 .. Len(datagrams) : datagrams'[i] = datagrams[i]
      /\ datagrams'[Len(datagrams) + 1] = f
  BY <1>1, <1>2, Appended
<1>4. ASSUME NEW i \in 1 .. Len(datagrams')
      PROVE  /\ \A j \in 1 .. i - 1 : j \in 1 .. Len(datagrams)
             /\ i \in 1 .. Len(datagrams) \/ i = Len(datagrams) + 1
  BY <1>3, <1>4
<1>5. QED
  BY <1>1, <1>3, <1>4, Zenon

LEMMA ScannerHistory ==
  ASSUME LinkInv, StepInv, KeptInv, HistoryInv, NEW s \in Users, ScannerMove(s),
         OnTheWire(s)
  PROVE  HistoryInv'
<1>1. UNCHANGED <<connections, next_connection_id, older, applying, overtaken>>
  BY Zenon DEF ScannerMove, ServerRests, tables, OnTheWire
<1>2. ASSUME NEW u \in Users, NEW v \in Ids, Knows(u, v)' PROVE Drawn(v)
  BY <1>2, ScannerKnows, Zenon DEF HistoryInv
<1>3. \A i \in 1 .. Len(datagrams') : Drawn(datagrams'[i].id)
  <2>1. CASE UNCHANGED datagrams
    BY <2>1, Zenon DEF HistoryInv
  <2>2. CASE Produces(s)
    <3>1. PICK n \in Serials, v \in Ids :
            /\ v = State(s).id /\ Drawn(v)
            /\ datagrams' = Append(datagrams, [vendor |-> Vendor[s], serial |-> n, id |-> v])
      BY <2>2, SenderKnown, Zenon DEF Produces
    <3>2. ASSUME NEW i \in 1 .. Len(datagrams')
          PROVE  \/ i \in 1 .. Len(datagrams) /\ datagrams'[i] = datagrams[i]
                 \/ datagrams'[i].id = v
      BY <3>1, <3>2, LastFrame
    <3>3. QED
      BY <3>1, <3>2, Zenon DEF HistoryInv
  <2>3. QED
    BY <2>1, <2>2, Zenon DEF OnTheWire
<1>4. QED
  BY <1>1, <1>2, <1>3, Zenon DEF HistoryInv, Drawn, Past

\* A scanner that is cut off does not leave cleanly.
LEMMA CutStays ==
  ASSUME LinkInv, StepInv, NEW s \in Users, ScannerMove(s), OnTheWire(s),
         NEW u \in Users, abandoned'[u] = 0, Cut(u)
  PROVE  abandoned[u] = 0 /\ Cut(u)'
<1>1. UNCHANGED connections /\ abandoned[u] \in Nat
  BY TablesRest, Kinds, Zenon DEF LinkInv, LinkTypeOK
<1>2. CASE u # s \/ Rests(s)
  <2>1. StaysAsItIs(u)
    BY <1>2, OthersStay, Zenon
  <2>2. QED
    BY <1>1, <2>1, RestsGone, Zenon DEF Cut, Sends, StaysAsItIs
<1>3. CASE u = s /\ (Dials(s) \/ Opens(s) \/ Reads(s))
  <2>1. Phase(s) \in {"idle", "registering", "opening"}
    BY <1>3, Zenon DEF Dials, Opens, Reads
  <2>2. QED
    BY <1>3, <2>1, Zenon DEF Cut, Sends
<1>4. CASE u = s /\ Goes(s)
  <2>1. abandoned'[s] # abandoned[s] + 1
    BY <1>1, <1>4
  <2>2. Phase(s) = "closing"
    BY <1>4, <2>1, Zenon DEF Goes
  <2>3. QED
    BY <1>4, <2>2, Zenon DEF Cut, Sends
<1>5. CASE u = s /\ Closes(s)
  <2>1. ~Broken(Current(s)) /\ Sends(s) /\ Gone(s)
    BY <1>5, Zenon DEF OnTheWire, Closes, Cut
  <2>2. Phase(s) \in {"connected", "listening"} /\ Phase(s) # "idle" /\ Phase(s) # "closing"
    BY <2>1, Zenon DEF Sends
  <2>3. Quiet(sockets[Current(s)])
    BY <2>2, Zenon DEF StepInv, ScannerInv, InStep
  <2>4. sockets[Current(s)].thread = "ended"
    BY <2>1, <2>2, Zenon DEF LinkInv, UsersOK, Owned, Gone
  <2>5. QED
    BY <2>1, <2>3, <2>4, Zenon DEF Broken, Arrived, Quiet
<1>6. QED
  BY <1>2, <1>3, <1>4, <1>5, Zenon DEF ScannerMove

LEMMA AbandonedGrows ==
  ASSUME LinkInv, NEW s \in Users, ScannerMove(s), NEW u \in Users, abandoned'[u] = 0
  PROVE  abandoned[u] = 0
<1>1. abandoned[u] \in Nat
  BY Kinds, Zenon DEF LinkInv, LinkTypeOK
<1>2. abandoned'[u] = abandoned[u] \/ abandoned'[u] = abandoned[u] + 1
  BY Zenon DEF ScannerMove, OthersRest, Dials, Opens, Reads, Closes, Goes, Rests
<1>3. QED
  BY <1>1, <1>2

LEMMA ScannerFrames ==
  ASSUME LinkInv, Cast, StepInv, KeptInv, HistoryInv, NEW s \in Users, ScannerMove(s),
         OnTheWire(s), NEW u \in Users, FramesInOrder(u)
  PROVE  FramesInOrder(u)'
<1>1. UNCHANGED <<connections, older, applying, overtaken>>
  BY Zenon DEF ScannerMove, ServerRests, tables, OnTheWire
<1>2. SUFFICES ASSUME abandoned'[u] = 0, ~Cut(u)', NEW i \in 1 .. Len(datagrams'),
                      datagrams'[i].vendor = Vendor[u]
               PROVE  Fresh(i)'
  BY <1>1, <1>2, AbandonedGrows, Zenon DEF FramesInOrder
<1>3. abandoned[u] = 0 /\ ~Cut(u)
  BY <1>2, AbandonedGrows, CutStays, Zenon
<1>4. ASSUME NEW l \in 1 .. Len(datagrams), datagrams[l].vendor = Vendor[u] PROVE Fresh(l)
  BY <1>3, <1>4, Zenon DEF FramesInOrder
<1>5. CASE UNCHANGED datagrams
  BY <1>1, <1>2, <1>4, <1>5, Zenon DEF Fresh
<1>6. CASE Produces(s)
  <2>1. PICK n \in Serials, v \in Ids :
          /\ v = State(s).id
          /\ datagrams' = Append(datagrams, [vendor |-> Vendor[s], serial |-> n, id |-> v])
    BY <1>6, SenderKnown, Zenon DEF Produces
  <2>2. /\ \A j \in 1 .. i - 1 :
             j \in 1 .. Len(datagrams) /\ datagrams'[j] = datagrams[j]
        /\ \/ i \in 1 .. Len(datagrams) /\ datagrams'[i] = datagrams[i]
           \/ datagrams'[i].vendor = Vendor[s] /\ datagrams'[i].id = v
    BY <1>2, <2>1, LastFrame
  <2>3. CASE i \in 1 .. Len(datagrams) /\ datagrams'[i] = datagrams[i]
    <3>1. Fresh(i)
      BY <1>2, <1>4, <2>3, Zenon
    <3>2. QED
      BY <1>1, <2>2, <2>3, <3>1, Zenon DEF Fresh
  <2>4. CASE datagrams'[i].vendor = Vendor[s] /\ datagrams'[i].id = v
    <3>1. u = s
      BY <1>2, <2>4, Kinds, Zenon DEF Cast
    <3>2. PICK k \in connections : k.id = v
      BY <1>3, <1>6, <2>1, <3>1, SenderKnown, Zenon DEF Produces
    <3>3. v \notin overtaken /\ \A m \in Ids : v \notin older[m]
      BY <3>2, Zenon DEF HistoryInv, Past
    <3>4. applying.id \in Ids /\ \A j \in 1 .. Len(datagrams) : datagrams[j].id \in Ids
      BY FrameIds, Zenon
    <3>5. QED
      BY <1>1, <2>2, <2>4, <3>3, <3>4, Zenon DEF Fresh
  <2>5. QED
    BY <2>2, <2>3, <2>4, Zenon
<1>7. QED
  BY <1>5, <1>6, Zenon DEF OnTheWire

LEMMA OrderNext ==
  ASSUME Cast, KnownInv, OrderInv, [NextLink]_linkVars
  PROVE  OrderInv'
<1>1. /\ LinkInv /\ StepInv /\ RecordsInv /\ KeptInv /\ HistoryInv
      /\ \A s \in Users : FramesInOrder(s)
  BY Zenon DEF KnownInv, OrderInv
<1>2. ASSUME ServerStep, UNCHANGED <<transport, originator, abandoned>> PROVE OrderInv'
  <2>1. UNCHANGED <<transport, originator>>
    BY <1>2, Zenon
  <2>2. QED
    BY <1>1, <1>2, <2>1, ServerHistory, ServerFrames, Zenon DEF OrderInv
<1>3. ASSUME NEW s \in Users, ScannerMove(s), OnTheWire(s) PROVE OrderInv'
  BY <1>1, <1>3, ScannerHistory, ScannerFrames, Zenon DEF OrderInv
<1>4. ASSUME NEW t \in Transports, TransportStep(t), UNCHANGED originator PROVE OrderInv'
  BY <1>1, <1>3, <1>4, TransportTyped, TransportSends, Zenon DEF Users
<1>5. ASSUME NEW o \in Originators, OriginatorStep(o) PROVE OrderInv'
  BY <1>1, <1>3, <1>5, OriginatorTyped, OriginatorSends, Zenon DEF Users
<1>6. CASE UNCHANGED linkVars
  <2>1. UNCHANGED <<connections, next_connection_id, older, applying, datagrams, overtaken>>
    BY <1>6, Zenon DEF linkVars, serverVars, tables, cyclic
  <2>2. HistoryInv'
    BY <1>1, <1>6, <2>1, AllStay, RestsKnows, Zenon DEF HistoryInv, Drawn, Past
  <2>3. ASSUME NEW u \in Users PROVE FramesInOrder(u)'
    <3>1. StaysAsItIs(u)
      BY <1>6, AllStay, Zenon
    <3>2. Cut(u) => Cut(u)'
      BY <2>1, <3>1, RestsGone, Zenon DEF Cut, Sends, StaysAsItIs
    <3>3. QED
      BY <1>1, <2>1, <3>1, <3>2, ZenonT(60) DEF FramesInOrder, Fresh, StaysAsItIs
  <2>4. QED
    BY <2>2, <2>3, Zenon DEF OrderInv
<1>7. QED
  BY <1>2, <1>4, <1>5, <1>6, Zenon DEF NextLink

LEMMA OrderInit ==
  ASSUME InitLink
  PROVE  OrderInv
<1>1. /\ connections = {} /\ next_connection_id = 0 /\ applying = NoFrame
      /\ datagrams = <<>> /\ older = [k \in Ids |-> {}] /\ overtaken = {}
  BY Zenon DEF InitLink, InitServer
<1>2. \A i \in 1 .. Len(datagrams) : FALSE
  BY <1>1
<1>3. ASSUME NEW s \in Users, NEW v PROVE ~Knows(s, v)
  <2>1. Phase(s) = "idle"
    BY Kinds, Zenon DEF Phase, State, InitLink, InitTransport, InitOriginator, IdleRun
  <2>2. "idle" \notin {"opening", "connected", "listening"}
    BY Zenon
  <2>3. QED
    BY <2>1, <2>2, Zenon DEF Knows
<1>4. Drawn(applying.id)
  <2>1. applying.id = 0 /\ next_connection_id = 0
    BY <1>1, Zenon DEF NoFrame
  <2>2. QED
    BY <2>1 DEF Drawn
<1>5. older[0] = {} /\ \A n \in Ids : older[n] = {}
  BY <1>1, Ranges, Zenon
<1>6. HistoryInv
  BY <1>1, <1>2, <1>3, <1>4, <1>5, Zenon DEF HistoryInv
<1>7. QED
  BY <1>1, <1>2, <1>6, Zenon DEF OrderInv, FramesInOrder

\* The robot never goes back to a former scanner that has always left cleanly: the
\* frames arrive in the order they were sent in, each connection is in the table
\* while its scanner sends, and a connection that was opened later has a larger id.
THEOREM FormerScannersStayOut ==
  ASSUME Scanners # {}, Cast
  PROVE  LinkSpec => NewScannerPrevails
<1> DEFINE Inv == KnownInv /\ OrderInv
<1>1. InitLink => Inv
  BY KnownInit, OrderInit, Zenon
<1>2. Inv /\ [NextLink]_linkVars => Inv'
  BY KnownNext, OrderNext, Zenon
<1>3. Inv => \A s \in Scanners :
        applying # NoFrame /\ applying.vendor = Vendor[s] /\ abandoned[s] = 0
          => applying.id \notin overtaken
  BY Zenon DEF Cast, OrderInv, FramesInOrder
<1>4. Inv /\ [NextLink]_linkVars =>
        [\A s \in Scanners :
           /\ applying # NoFrame /\ applying' = NoFrame
           /\ applying.vendor = Vendor[s] /\ abandoned[s] = 0
           => applying.id \notin overtaken]_linkVars
  BY <1>3, Zenon
<1>5. QED
  BY <1>1, <1>2, <1>4, PTL DEF LinkSpec, NewScannerPrevails

=============================================================================
