----------------------------- MODULE WireProofs -----------------------------
(***************************************************************************)
(* Proofs about Wire: the stream of messages stays in step however it is   *)
(* cut, what a strict server accepts agrees with it, every image has the   *)
(* size of its assembly, and what is read is what was said.                *)
(***************************************************************************)
EXTENDS Wire, AssemblyProofs

\* The messages of a session are these four, in this order; where each of them
\* ends in the stream.
Commands == {"register", "open", "close", "unregister"}
Script == <<"register", "open", "close", "unregister">>
Part(n) == SubSeq(Script, 1, n)
End(n) == CASE n = 0 -> 0 [] n = 1 -> 28 [] n = 2 -> 136 [] n = 3 -> 200 [] n = 4 -> 224

\* The first messages of a sequence of them.
LEMMA FirstOnes ==
  ASSUME NEW s \in Seq(Commands), NEW n \in Nat, n <= Len(s)
  PROVE  /\ SubSeq(s, 1, n) \in Seq(Commands)
         /\ Len(SubSeq(s, 1, n)) = n
         /\ \A k \in Nat : k <= n => SubSeq(SubSeq(s, 1, n), 1, k) = SubSeq(s, 1, k)
         /\ n < Len(s) => SubSeq(s, 1, n + 1) = Append(SubSeq(s, 1, n), s[n + 1])
PROOF
  OBVIOUS

\* The parts of the session: their length, and the parts of those.
LEMMA Parts ==
  ASSUME NEW n \in Nat, n <= 4
  PROVE  /\ Part(n) \in Seq(Commands)
         /\ Len(Part(n)) = n
         /\ \A k \in Nat : k <= n => SubSeq(Part(n), 1, k) = Part(k)
         /\ n < 4 => Part(n + 1) = Append(Part(n), Script[n + 1])
PROOF
<1>1. Script \in Seq(Commands) /\ Len(Script) = 4
  BY DEF Script, Commands
<1>2. QED
  BY <1>1, FirstOnes DEF Part

\* The messages of a part.
LEMMA PartElements ==
  ASSUME NEW n \in Nat, n <= 4
  PROVE  /\ DOMAIN Part(n) = 1 .. n
         /\ \A k \in 1 .. n : Part(n)[k] = Script[k]
PROOF
<1>1. Script \in Seq(Commands) /\ Len(Script) = 4
  BY DEF Script, Commands
<1>2. QED
  BY <1>1 DEF Part

\* Nothing, and the first message.
LEMMA FirstPart == Part(0) = <<>> /\ Part(1) = <<"register">>
PROOF
<1>1. /\ Part(0) \in Seq(Commands) /\ Len(Part(0)) = 0
      /\ Part(1) = Append(Part(0), Script[1])
  <2>1. 0 \in Nat /\ 0 <= 4 /\ 0 < 4 /\ 0 + 1 = 1
    OBVIOUS
  <2>2. QED
    BY <2>1, Parts
<1>2. Part(0) = <<>>
  BY <1>1
<1>3. Append(<<>>, Script[1]) = <<"register">>
  BY DEF Script
<1>4. QED
  BY <1>1, <1>2, <1>3

\* Where the parts of the session end in the stream: the fold that Size is makes
\* the sum from the last message back.
LEMMA SizeOfPart ==
  ASSUME NEW n \in Nat, n <= 4
  PROVE  Size(Part(n)) = End(n)
PROOF
<1> DEFINE S == 1 .. n
           payload(x) == PayloadLength[Part(n)[x]]
           weight(x) == CASE x = 1 -> 28 [] x = 2 -> 108 [] x = 3 -> 64 [] x = 4 -> 24
           sum(s) == (IF 1 \in s THEN 28 ELSE 0) + (IF 2 \in s THEN 108 ELSE 0)
                     + (IF 3 \in s THEN 64 ELSE 0) + (IF 4 \in s THEN 24 ELSE 0)
           step(f) == [s \in SUBSET S |->
                         IF s = {} THEN 0
                         ELSE f[s \ {Max(s)}] + HeaderSize + payload(Max(s))]
           iter == CHOOSE f : f = step(f)
           sums == [s \in SUBSET S |-> sum(s)]
<1>1. Size(Part(n)) = iter[S]
  <2>1. DOMAIN Part(n) = S
    BY PartElements
  <2>2. QED
    BY <2>1 DEF Size, FoldLeft, MapThenFoldSet
<1>2. ASSUME NEW x \in S
      PROVE  HeaderSize = 24 /\ payload(x) \in Int /\ HeaderSize + payload(x) = weight(x)
  <2>1. Part(n)[x] = Script[x]
    BY PartElements
  <2>2. x = 1 \/ x = 2 \/ x = 3 \/ x = 4
    OBVIOUS
  <2>3. QED
    BY <2>1, <2>2 DEF Script, PayloadLength, HeaderSize
<1>3. ASSUME NEW s \in SUBSET S, s # {}
      PROVE  /\ Max(s) \in S /\ s \ {Max(s)} \in SUBSET S
             /\ sum(s) = sum(s \ {Max(s)}) + weight(Max(s))
  <2>1. Max(s) \in s
    BY <1>3, LargestIsOneOf, Zenon
  <2>2. ASSUME NEW m \in s PROVE m \in S /\ sum(s) = sum(s \ {m}) + weight(m)
    <3>1. m = 1 \/ m = 2 \/ m = 3 \/ m = 4
      OBVIOUS
    <3>2. QED
      BY <3>1
  <2>3. QED
    BY <2>1, <2>2
<1>4. sums = step(sums)
  <2>1. ASSUME NEW s \in SUBSET S, s # {}
        PROVE  sums[s] = sums[s \ {Max(s)}] + HeaderSize + payload(Max(s))
    <3>1. sums[s] = sum(s) /\ sums[s \ {Max(s)}] = sum(s \ {Max(s)})
      BY <1>3, <2>1
    <3>2. sum(s \ {Max(s)}) \in Int
      OBVIOUS
    <3>3. /\ HeaderSize = 24 /\ payload(Max(s)) \in Int
          /\ HeaderSize + payload(Max(s)) = weight(Max(s))
      BY <1>2, <1>3, <2>1
    <3>4. sum(s) = sum(s \ {Max(s)}) + weight(Max(s))
      BY <1>3, <2>1
    <3> HIDE DEF sum, payload, sums, weight
    <3>5. QED
      BY <3>1, <3>2, <3>3, <3>4
  <2>2. sums[{}] = 0
    OBVIOUS
  <2> HIDE DEF sum, payload
  <2>3. QED
    BY <2>1, <2>2
<1>5. iter = step(iter)
  <2> HIDE DEF sums
  <2>1. QED
    BY <1>4, Zenon
<1>6. \A s \in SUBSET S : s # {} => iter[s] = iter[s \ {Max(s)}] + HeaderSize + payload(Max(s))
  <2> HIDE DEF iter, payload
  <2>1. QED
    BY <1>5
<1>7. iter[{}] = 0
  <2> HIDE DEF iter, payload
  <2>1. QED
    BY <1>5
<1>8. ASSUME NEW k \in Nat, NEW j \in Nat, k = j + 1, k <= n, iter[1 .. j] \in Int
      PROVE  iter[1 .. k] = iter[1 .. j] + weight(k)
  <2>1. Max(1 .. k) = k
    BY <1>8, LargestOfInterval
  <2>2. (1 .. k) \ {k} = 1 .. j /\ 1 .. k \in SUBSET S /\ 1 .. k # {} /\ k \in S
    BY <1>8
  <2>3. HeaderSize = 24 /\ payload(k) \in Int /\ HeaderSize + payload(k) = weight(k)
    BY <1>2, <2>2
  <2> HIDE DEF iter, payload, weight
  <2>4. iter[1 .. k] = iter[1 .. j] + HeaderSize + payload(k)
    BY <1>6, <2>1, <2>2, Zenon
  <2>5. QED
    BY <1>8, <2>3, <2>4
<1>9. iter[1 .. 0] = 0
  <2>1. 1 .. 0 = {}
    OBVIOUS
  <2>2. QED
    BY <1>7, <2>1
<1>10. /\ n >= 1 => iter[1 .. 1] = 28
       /\ n >= 2 => iter[1 .. 2] = 136
       /\ n >= 3 => iter[1 .. 3] = 200
       /\ n >= 4 => iter[1 .. 4] = 224
  <2>1. weight(1) = 28 /\ weight(2) = 108 /\ weight(3) = 64 /\ weight(4) = 24
    OBVIOUS
  <2> HIDE DEF iter, weight
  <2>2. ASSUME n >= 1 PROVE iter[1 .. 1] = 28
    <3>1. PICK k \in Nat, j \in Nat : k = 1 /\ j = 0
      OBVIOUS
    <3>2. iter[1 .. j] = 0
      BY <1>9, <2>2, <3>1
    <3>3. k = j + 1 /\ k <= n /\ iter[1 .. j] \in Int
      BY <2>2, <3>1, <3>2
    <3>4. iter[1 .. k] = iter[1 .. j] + weight(k)
      BY <1>8, <3>3, Zenon
    <3>5. QED
      BY <2>1, <3>1, <3>2, <3>4
  <2>3. ASSUME n >= 2 PROVE iter[1 .. 2] = 136
    <3>1. PICK k \in Nat, j \in Nat : k = 2 /\ j = 1
      OBVIOUS
    <3>2. iter[1 .. j] = 28
      BY <2>2, <2>3, <3>1
    <3>3. k = j + 1 /\ k <= n /\ iter[1 .. j] \in Int
      BY <2>3, <3>1, <3>2
    <3>4. iter[1 .. k] = iter[1 .. j] + weight(k)
      BY <1>8, <3>3, Zenon
    <3>5. QED
      BY <2>1, <3>1, <3>2, <3>4
  <2>4. ASSUME n >= 3 PROVE iter[1 .. 3] = 200
    <3>1. PICK k \in Nat, j \in Nat : k = 3 /\ j = 2
      OBVIOUS
    <3>2. iter[1 .. j] = 136
      BY <2>3, <2>4, <3>1
    <3>3. k = j + 1 /\ k <= n /\ iter[1 .. j] \in Int
      BY <2>4, <3>1, <3>2
    <3>4. iter[1 .. k] = iter[1 .. j] + weight(k)
      BY <1>8, <3>3, Zenon
    <3>5. QED
      BY <2>1, <3>1, <3>2, <3>4
  <2>5. ASSUME n >= 4 PROVE iter[1 .. 4] = 224
    <3>1. PICK k \in Nat, j \in Nat : k = 4 /\ j = 3
      OBVIOUS
    <3>2. iter[1 .. j] = 200
      BY <2>4, <2>5, <3>1
    <3>3. k = j + 1 /\ k <= n /\ iter[1 .. j] \in Int
      BY <2>5, <3>1, <3>2
    <3>4. iter[1 .. k] = iter[1 .. j] + weight(k)
      BY <1>8, <3>3, Zenon
    <3>5. QED
      BY <2>1, <3>1, <3>2, <3>4
  <2>6. QED
    BY <2>2, <2>3, <2>4, <2>5
<1>11. QED
  <2>1. n = 0 \/ n = 1 \/ n = 2 \/ n = 3 \/ n = 4
    OBVIOUS
  <2> HIDE DEF iter
  <2>2. CASE n = 0
    <3>1. S = 1 .. 0 /\ n >= 0 /\ End(n) = 0
      BY <2>2 DEF End
    <3>2. QED
      BY <1>1, <1>9, <3>1
  <2>3. CASE n = 1
    <3>1. S = 1 .. 1 /\ n >= 1 /\ End(n) = 28
      BY <2>3 DEF End
    <3>2. QED
      <4>1. iter[S] = End(n)
        BY <1>10, <3>1
      <4>2. QED
        BY <1>1, <4>1, Zenon
  <2>4. CASE n = 2
    <3>1. S = 1 .. 2 /\ n >= 2 /\ End(n) = 136
      BY <2>4 DEF End
    <3>2. QED
      <4>1. iter[S] = End(n)
        BY <1>10, <3>1
      <4>2. QED
        BY <1>1, <4>1, Zenon
  <2>5. CASE n = 3
    <3>1. S = 1 .. 3 /\ n >= 3 /\ End(n) = 200
      BY <2>5 DEF End
    <3>2. QED
      <4>1. iter[S] = End(n)
        BY <1>10, <3>1
      <4>2. QED
        BY <1>1, <4>1, Zenon
  <2>6. CASE n = 4
    <3>1. S = 1 .. 4 /\ n >= 4 /\ End(n) = 224
      BY <2>6 DEF End
    <3>2. QED
      <4>1. iter[S] = End(n)
        BY <1>10, <3>1
      <4>2. QED
        BY <1>1, <4>1, Zenon
  <2>7. QED
    BY <2>1, <2>2, <2>3, <2>4, <2>5, <2>6

\* So a message adds its header and its payload.
LEMMA SizeGrows ==
  ASSUME NEW n \in Nat, n < 4
  PROVE  /\ Size(Part(n + 1)) = Size(Part(n)) + HeaderSize + PayloadLength[Script[n + 1]]
         /\ PayloadLength[Script[n + 1]] \in Nat
PROOF
<1>1. n = 0 \/ n = 1 \/ n = 2 \/ n = 3
  OBVIOUS
<1>2. Size(Part(n)) = End(n) /\ Size(Part(n + 1)) = End(n + 1)
  BY SizeOfPart
<1>3. QED
  BY <1>1, <1>2 DEF End, HeaderSize, PayloadLength, Script

\* Of two parts the longer one is longer by a header at least.
LEMMA SizeMonotone ==
  ASSUME NEW m \in Nat, NEW n \in Nat, n <= 4
  PROVE  /\ m < n => Size(Part(m)) + HeaderSize <= Size(Part(n))
         /\ Size(Part(n)) \in Nat
PROOF
<1>1. n = 0 \/ n = 1 \/ n = 2 \/ n = 3 \/ n = 4
  OBVIOUS
<1>2. m < n => m = 0 \/ m = 1 \/ m = 2 \/ m = 3
  OBVIOUS
<1>3. Size(Part(n)) = End(n) /\ (m < n => Size(Part(m)) = End(m))
  BY SizeOfPart
<1>4. QED
  BY <1>1, <1>2, <1>3 DEF End, HeaderSize

----------------------------------------------------------------------------
(* The stream.                                                             *)

\* What was sent and what was handled are parts of the session, the buffer
\* starts where the handled part ends, and holds no more than was sent.
StreamInv ==
  \E n, h \in 0 .. 4 :
    /\ h <= n /\ sent = Part(n) /\ handled = Part(h)
    /\ first = Size(Part(h))
    /\ received \in Nat /\ first <= received /\ received <= Size(Part(n))

LEMMA StreamInit ==
  ASSUME InitWire
  PROVE  StreamInv
PROOF
<1>1. Part(0) = <<>> /\ Size(Part(0)) = 0
  BY FirstPart, SizeOfPart DEF End
<1>2. 0 \in 0 .. 4 /\ 0 <= 0 /\ 0 \in Nat
  OBVIOUS
<1>3. QED
  BY <1>1, <1>2 DEF InitWire, StreamInv

LEMMA StreamSent ==
  ASSUME StreamInv, SendMessage
  PROVE  StreamInv'
PROOF
<1>1. PICK n \in 0 .. 4, h \in 0 .. 4 :
        /\ h <= n /\ sent = Part(n) /\ handled = Part(h)
        /\ first = Size(Part(h))
        /\ received \in Nat /\ first <= received /\ received <= Size(Part(n))
  BY DEF StreamInv
<1>2. n < 4 /\ sent' = Part(n + 1)
  <2>1. /\ Part(n) \in Seq(Commands) /\ Len(Part(n)) = n
        /\ \A k \in 1 .. n : Part(n)[k] = Script[k]
        /\ n < 4 => Part(n + 1) = Append(Part(n), Script[n + 1])
    <3>1. n \in Nat /\ n <= 4
      OBVIOUS
    <3>2. QED
      BY <3>1, Parts, PartElements, Zenon
  <2>2. CASE n = 0
    <3>1. sent = <<>>
      BY <1>1, <2>2, FirstPart
    <3>2. sent' = <<"register">>
      BY <3>1, Zenon DEF SendMessage
    <3>3. QED
      BY <2>2, <3>2, FirstPart
  <2>3. ASSUME n > 0 PROVE sent # <<>> /\ Last(sent) = Script[n]
    <3>1. Len(sent) = n /\ n \in 1 .. n /\ sent[n] = Script[n]
      BY <1>1, <2>1, <2>3
    <3>2. Len(<<>>) = 0
      OBVIOUS
    <3>3. QED
      BY <2>3, <3>1, <3>2 DEF Last
  <2>4. ASSUME n < 4, sent' = Append(sent, Script[n + 1])
        PROVE  n < 4 /\ sent' = Part(n + 1)
    BY <1>1, <2>1, <2>4
  <2>5. CASE n = 1
    <3>1. sent # <<>> /\ Last(sent) = "register" /\ Script[n + 1] = "open" /\ n < 4
      BY <2>3, <2>5 DEF Script
    <3>2. sent' = Append(sent, "open")
      BY <3>1 DEF SendMessage
    <3>3. QED
      BY <2>4, <3>1, <3>2
  <2>6. CASE n = 2
    <3>1. sent # <<>> /\ Last(sent) = "open" /\ Script[n + 1] = "close" /\ n < 4
      BY <2>3, <2>6 DEF Script
    <3>2. sent' = Append(sent, "close")
      BY <3>1 DEF SendMessage
    <3>3. QED
      BY <2>4, <3>1, <3>2
  <2>7. CASE n = 3
    <3>1. sent # <<>> /\ Last(sent) = "close" /\ Script[n + 1] = "unregister" /\ n < 4
      BY <2>3, <2>7 DEF Script
    <3>2. sent' = Append(sent, "unregister")
      BY <3>1 DEF SendMessage
    <3>3. QED
      BY <2>4, <3>1, <3>2
  <2>8. CASE n = 4
    <3>1. sent # <<>> /\ Last(sent) = "unregister"
      BY <2>3, <2>8 DEF Script
    <3>2. QED
      BY <3>1 DEF SendMessage
  <2>9. QED
    BY <2>2, <2>5, <2>6, <2>7, <2>8
<1>3. Size(Part(n)) <= Size(Part(n + 1)) /\ Size(Part(n)) \in Nat /\ Size(Part(n + 1)) \in Nat
  <2>1. n \in Nat /\ n + 1 \in Nat /\ n + 1 <= 4 /\ n <= 4
    BY <1>2
  <2>2. Size(Part(n)) + HeaderSize <= Size(Part(n + 1)) /\ Size(Part(n)) \in Nat
        /\ Size(Part(n + 1)) \in Nat
    BY <2>1, SizeMonotone
  <2>3. QED
    BY <2>2 DEF HeaderSize
<1>4. QED
  <2>1. n + 1 \in 0 .. 4 /\ h <= n + 1
    BY <1>1, <1>2
  <2>2. handled' = Part(h) /\ first' = Size(Part(h)) /\ received' = received
    BY <1>1 DEF SendMessage
  <2>3. received' \in Nat /\ first' <= received' /\ received' <= Size(Part(n + 1))
    BY <1>1, <1>3, <2>2
  <2>4. QED
    BY <1>1, <1>2, <2>1, <2>2, <2>3, Zenon DEF StreamInv

LEMMA StreamReceived ==
  ASSUME StreamInv, ReceiveBytes
  PROVE  StreamInv'
PROOF
<1>1. PICK n \in 0 .. 4, h \in 0 .. 4 :
        /\ h <= n /\ sent = Part(n) /\ handled = Part(h)
        /\ first = Size(Part(h))
        /\ received \in Nat /\ first <= received /\ received <= Size(Part(n))
  BY DEF StreamInv
<1>2. Size(Part(n)) \in Nat /\ Size(Part(h)) \in Nat
  BY SizeMonotone
<1>3. received' \in 0 .. Size(sent) /\ received' > received
  BY DEF ReceiveBytes, Cuts
<1>4. sent' = sent /\ handled' = handled /\ first' = first
  BY DEF ReceiveBytes
<1>5. received' \in Nat /\ first' <= received' /\ received' <= Size(Part(n))
  BY <1>1, <1>2, <1>3, <1>4
<1>6. QED
  BY <1>1, <1>4, <1>5, Zenon DEF StreamInv

\* The message at the front of the buffer is the next of the session.
LEMMA NextInBuffer ==
  ASSUME NEW n \in 0 .. 4, NEW h \in 0 .. 4,
         h <= n, sent = Part(n), first = Size(Part(h)),
         received \in Nat, received <= Size(Part(n)),
         Whole
  PROVE  /\ h < n
         /\ Buffered = h + 1
         /\ sent[Buffered] = Script[h + 1]
         /\ first + HeaderSize + PayloadLength[Script[h + 1]] <= received
PROOF
<1>1. Size(Part(n)) \in Nat /\ Size(Part(h)) \in Nat
  BY SizeMonotone
<1>2. h < n
  <2>1. received - first >= 24
    BY DEF Whole, HeaderSize
  <2>2. h # n
    BY <1>1, <2>1
  <2>3. QED
    BY <2>2
<1>3. ASSUME NEW k \in DOMAIN sent
      PROVE  Size(SubSeq(sent, 1, k - 1)) = first <=> k = h + 1
  <2>1. k \in 1 .. n
    BY PartElements
  <2>2. k - 1 \in Nat /\ k - 1 <= n /\ k - 1 <= 4
    BY <2>1
  <2>3. SubSeq(sent, 1, k - 1) = Part(k - 1)
    <3>1. n \in Nat /\ n <= 4
      OBVIOUS
    <3>2. \A j \in Nat : j <= n => SubSeq(Part(n), 1, j) = Part(j)
      BY <3>1, Parts, Zenon
    <3>3. QED
      BY <2>2, <3>2, Zenon
  <2>4. /\ Size(Part(k - 1)) \in Nat
        /\ k - 1 < h => Size(Part(k - 1)) + 24 <= Size(Part(h))
        /\ h < k - 1 => Size(Part(h)) + 24 <= Size(Part(k - 1))
    BY <2>2, SizeMonotone DEF HeaderSize
  <2>5. Size(Part(k - 1)) = first <=> k - 1 = h
    <3>1. k - 1 = h \/ k - 1 < h \/ h < k - 1
      BY <2>2
    <3>2. CASE k - 1 = h
      BY <3>2
    <3>3. CASE k - 1 < h
      BY <1>1, <2>4, <3>3
    <3>4. CASE h < k - 1
      BY <1>1, <2>4, <3>4
    <3>5. QED
      BY <3>1, <3>2, <3>3, <3>4
  <2>6. k - 1 = h <=> k = h + 1
    BY <2>1
  <2>7. QED
    BY <2>3, <2>5, <2>6, Zenon
<1>4. h + 1 \in DOMAIN sent
  BY <1>2, PartElements
<1>5. Buffered = h + 1
  BY <1>3, <1>4, Zenon DEF Buffered
<1>6. sent[h + 1] = Script[h + 1]
  <2>1. h + 1 \in 1 .. n
    BY <1>2
  <2>2. QED
    BY <2>1, PartElements
<1>7. PayloadLength[Script[h + 1]] \in Nat
  BY <1>2, SizeGrows
<1>8. received - first >= 24 + PayloadLength[Script[h + 1]]
  BY <1>5, <1>6 DEF Whole, HeaderSize
<1>9. QED
  BY <1>1, <1>2, <1>5, <1>6, <1>7, <1>8 DEF HeaderSize

LEMMA StreamHandled ==
  ASSUME StreamInv, HandleMessage
  PROVE  StreamInv'
PROOF
<1>1. PICK n \in 0 .. 4, h \in 0 .. 4 :
        /\ h <= n /\ sent = Part(n) /\ handled = Part(h)
        /\ first = Size(Part(h))
        /\ received \in Nat /\ first <= received /\ received <= Size(Part(n))
  BY DEF StreamInv
<1>2. /\ h < n
      /\ Buffered = h + 1
      /\ sent[Buffered] = Script[h + 1]
      /\ first + HeaderSize + PayloadLength[Script[h + 1]] <= received
  BY <1>1, NextInBuffer DEF HandleMessage
<1>3. h \in Nat /\ h < 4 /\ h + 1 \in 0 .. 4 /\ h + 1 <= n
  BY <1>2
<1>4. Part(h + 1) = Append(Part(h), Script[h + 1])
  <2>1. h <= 4
    BY <1>3
  <2>2. QED
    BY <1>3, <2>1, Parts, Zenon
<1>5. handled' = Part(h + 1) /\ sent' = sent /\ received' = received
      /\ first' = first + HeaderSize + PayloadLength[Script[h + 1]]
  BY <1>1, <1>2, <1>4 DEF HandleMessage
<1>6. first' = Size(Part(h + 1))
  BY <1>1, <1>3, <1>5, SizeGrows
<1>7. received' \in Nat /\ first' <= received' /\ received' <= Size(Part(n))
  BY <1>1, <1>2, <1>5
<1>8. QED
  BY <1>1, <1>3, <1>5, <1>6, <1>7, Zenon DEF StreamInv

LEMMA StreamNext ==
  ASSUME StreamInv, [NextWire]_wireVars
  PROVE  StreamInv'
PROOF
<1>1. CASE SendMessage
  BY <1>1, StreamSent
<1>2. CASE ReceiveBytes
  BY <1>2, StreamReceived
<1>3. CASE HandleMessage
  BY <1>3, StreamHandled
<1>4. ASSUME UNCHANGED session PROVE StreamInv'
  BY <1>4 DEF StreamInv, session
<1>5. CASE WriteGroup
  BY <1>4, <1>5 DEF WriteGroup
<1>6. CASE RefuseGroup
  BY <1>4, <1>6 DEF RefuseGroup
<1>7. CASE BuildInput
  BY <1>4, <1>7 DEF BuildInput
<1>8. CASE SendFrame
  BY <1>4, <1>8 DEF SendFrame
<1>9. CASE ReceiveFrame
  BY <1>4, <1>9 DEF ReceiveFrame
<1>10. CASE UNCHANGED wireVars
  BY <1>4, <1>10 DEF wireVars
<1>11. QED
  BY <1>1, <1>2, <1>3, <1>5, <1>6, <1>7, <1>8, <1>9, <1>10 DEF NextWire

LEMMA StreamInStepHolds ==
  ASSUME StreamInv
  PROVE  StreamInStep
PROOF
<1>1. PICK n \in 0 .. 4, h \in 0 .. 4 :
        h <= n /\ sent = Part(n) /\ handled = Part(h) /\ first = Size(Part(h))
  BY DEF StreamInv
<1>2. Len(Part(n)) = n /\ Len(Part(h)) = h
  BY Parts
<1>3. SubSeq(Part(n), 1, h) = Part(h) /\ SubSeq(Part(h), 1, h) = Part(h)
  <2>1. n \in Nat /\ n <= 4 /\ h \in Nat /\ h <= 4 /\ h <= n /\ h <= h
    BY <1>1
  <2>2. QED
    BY <2>1, Parts, Zenon
<1>4. QED
  BY <1>1, <1>2, <1>3 DEF StreamInStep, IsPrefix

\* However the stream is cut into pieces, the server handles the messages that
\* were sent, in the order they were sent in, and its buffer starts at a header:
\* the loop of _session_loop takes out what it handles and nothing else.
THEOREM StreamStaysInStep == WireSpec => []StreamInStep
PROOF
<1>1. InitWire => StreamInv
  BY StreamInit
<1>2. StreamInv /\ [NextWire]_wireVars => StreamInv'
  BY StreamNext
<1>3. StreamInv => StreamInStep
  BY StreamInStepHolds
<1>4. QED
  BY <1>1, <1>2, <1>3, PTL DEF WireSpec

----------------------------------------------------------------------------
(* What is accepted.                                                       *)

\* The sizes of the assemblies are numbers, and a connection that is open is one
\* that the server would accept again.
AgreeInv ==
  /\ scanner_map.output.size_bytes \in Nat /\ scanner_map.input.size_bytes \in Nat
  /\ server_map.output.size_bytes \in Nat /\ server_map.input.size_bytes \in Nat
  /\ connection = "open" => Validated

\* Loading a specification keeps its sizes.
LEMMA LoadKeepsSizes ==
  ASSUME NEW spec \in Specification
  PROVE  /\ Load(spec).output.size_bytes \in Nat
         /\ Load(spec).input.size_bytes \in Nat
PROOF
<1>1. ASSUME NEW layout \in Layout
      PROVE  Codec(layout).size_bytes \in Nat
  BY DEF Layout, Codec
<1>2. Load(spec).output = Codec(spec.output) /\ Load(spec).input = Codec(spec.input)
  BY DEF Specification, Load
<1>3. spec.output \in Layout /\ spec.input \in Layout
  BY DEF Specification
<1>4. QED
  BY <1>1, <1>2, <1>3

LEMMA AgreeInit ==
  ASSUME InitWire
  PROVE  AgreeInv
PROOF
<1>1. PICK setup \in {s \in Setups : {s.scanner, s.server} \subseteq Loadable} :
        scanner_map = Load(Specs[setup.scanner]) /\ server_map = Load(Specs[setup.server])
  BY DEF InitWire
<1>2. setup.scanner \in DOMAIN Specs /\ setup.server \in DOMAIN Specs
  BY DEF Loadable
<1>3. Specs[setup.scanner] \in Specification /\ Specs[setup.server] \in Specification
  BY <1>2, WireAssumption
<1>4. QED
  BY <1>1, <1>3, LoadKeepsSizes DEF InitWire, AgreeInv

LEMMA AgreeNext ==
  ASSUME AgreeInv, [NextWire]_wireVars
  PROVE  AgreeInv'
PROOF
<1>1. ASSUME UNCHANGED maps, connection' = "open" => Validated PROVE AgreeInv'
  <2>1. Validated' = Validated
    BY <1>1 DEF maps, Validated, RequestedOutput, RequestedInput, ExpectedOutput, ExpectedInput
  <2>2. QED
    BY <1>1, <2>1 DEF AgreeInv, maps
<1>2. CASE HandleMessage
  <2>1. connection' = "open" => Validated
    BY <1>2 DEF HandleMessage, Outcome, AgreeInv
  <2>2. QED
    BY <1>1, <1>2, <2>1 DEF HandleMessage
<1>3. ASSUME UNCHANGED <<maps, connection>> PROVE AgreeInv'
  BY <1>1, <1>3 DEF AgreeInv
<1>4. CASE SendMessage
  BY <1>3, <1>4 DEF SendMessage
<1>5. CASE ReceiveBytes
  BY <1>3, <1>5 DEF ReceiveBytes
<1>6. CASE WriteGroup
  BY <1>3, <1>6 DEF WriteGroup, session
<1>7. CASE RefuseGroup
  BY <1>3, <1>7 DEF RefuseGroup, session
<1>8. CASE BuildInput
  BY <1>3, <1>8 DEF BuildInput, session
<1>9. CASE SendFrame
  BY <1>3, <1>9 DEF SendFrame, session
<1>10. CASE ReceiveFrame
  BY <1>3, <1>10 DEF ReceiveFrame, session
<1>11. CASE UNCHANGED wireVars
  BY <1>3, <1>11 DEF wireVars, session, maps
<1>12. QED
  BY <1>2, <1>4, <1>5, <1>6, <1>7, <1>8, <1>9, <1>10, <1>11 DEF NextWire

\* Sizes with the same header in front of them that agree in nine bits.
LEMMA SameWithoutHeader ==
  ASSUME NEW a \in Nat, NEW b \in Nat, NEW header \in Nat,
         (a + 2 + header) % 512 = b + 2 + header
  PROVE  a % 512 = b
PROOF
  OBVIOUS

LEMMA AcceptedAgreeHolds ==
  ASSUME AgreeInv
  PROVE  AcceptedAgree
PROOF
<1>1. SUFFICES ASSUME strict, connection = "open" PROVE AcceptedAgree
  BY DEF AcceptedAgree
<1>2. /\ ConnectionPoints(scanner_map.connection_path)
           = <<server_map.output.instance, server_map.input.instance>>
      /\ RequestedOutput % 512 = ExpectedOutput
      /\ RequestedInput % 512 = ExpectedInput
  BY <1>1 DEF AgreeInv, Validated
<1>3. ASSUME scanner_map.output_run_idle_header = server_map.output_run_idle_header
      PROVE  scanner_map.output.size_bytes % 512 = server_map.output.size_bytes
  <2>1. PICK header \in {0, 4} :
          /\ RequestedOutput = scanner_map.output.size_bytes + 2 + header
          /\ ExpectedOutput = server_map.output.size_bytes + 2 + header
    BY <1>3 DEF RequestedOutput, ExpectedOutput, SequenceCount, RunIdleHeader
  <2>2. QED
    BY <1>2, <2>1, SameWithoutHeader DEF AgreeInv
<1>4. ASSUME ~server_map.input_run_idle_header
      PROVE  scanner_map.input.size_bytes % 512 = server_map.input.size_bytes
  <2>1. /\ RequestedInput = scanner_map.input.size_bytes + 2 + 0
        /\ ExpectedInput = server_map.input.size_bytes + 2 + 0
    BY <1>4 DEF AgreeInv, RequestedInput, ExpectedInput, SequenceCount
  <2>2. QED
    BY <1>2, <2>1, SameWithoutHeader DEF AgreeInv
<1>5. QED
  BY <1>2, <1>3, <1>4 DEF AcceptedAgree

\* What a strict server accepts agrees with its own I/O map, for any two
\* specifications: connection points, and sizes as far as a Forward Open can
\* tell them apart (_validate_forward_open).
THEOREM StrictServerAgrees == WireSpec => []AcceptedAgree
PROOF
<1>1. InitWire => AgreeInv
  BY AgreeInit
<1>2. AgreeInv /\ [NextWire]_wireVars => AgreeInv'
  BY AgreeNext
<1>3. AgreeInv => AcceptedAgree
  BY AcceptedAgreeHolds
<1>4. QED
  BY <1>1, <1>2, <1>3, PTL DEF WireSpec

----------------------------------------------------------------------------
(* What an image says. A group that is written says its values from then on,*)
(* and leaves what the others say; so an input that is built group by group*)
(* says all of them.                                                       *)

\* A value is kept as a function from the places of its elements.
Listed(value, n) == value = [k \in 1 .. n |-> value[k]]

\* Such a value is a sequence.
LEMMA ListedSeq ==
  ASSUME NEW n \in Nat, NEW value, Listed(value, n)
  PROVE  /\ DOMAIN value = 1 .. n /\ Len(value) = n
         /\ \A S : (\A k \in 1 .. n : value[k] \in S) => value \in Seq(S)
PROOF
<1>1. PICK f : f = [k \in 1 .. n |-> value[k]]
  OBVIOUS
<1>2. value = f
  BY <1>1, Zenon DEF Listed
<1>3. DOMAIN f = 1 .. n /\ Len(f) = n
  BY <1>1
<1>4. ASSUME NEW S, \A k \in 1 .. n : value[k] \in S PROVE f \in Seq(S)
  BY <1>1, <1>4
<1>5. QED
  BY <1>2, <1>3, <1>4, Zenon

\* New elements in front of the rest of the old ones.
Over(value, n, old, m) == value \o SubSeq(old, n + 1, m)

\* They are the first elements, and the others stay.
LEMMA Overwrite ==
  ASSUME NEW m \in Nat, NEW n \in Nat, n <= m,
         NEW old, Listed(old, m), NEW value, Listed(value, n)
  PROVE  /\ Listed(Over(value, n, old, m), m)
         /\ \A k \in 1 .. m : Over(value, n, old, m)[k] = IF k <= n THEN value[k] ELSE old[k]
PROOF
<1>1. PICK S : S = {value[k] : k \in 1 .. n} \cup {old[k] : k \in 1 .. m}
  OBVIOUS
<1>2. value \in Seq(S) /\ Len(value) = n
  <2>1. \A k \in 1 .. n : value[k] \in S
    BY <1>1
  <2>2. QED
    BY <2>1, ListedSeq, Zenon
<1>3. PICK rest : rest = SubSeq(old, n + 1, m)
  OBVIOUS
<1>4. /\ rest \in Seq(S) /\ Len(rest) = m - n
      /\ \A k \in 1 .. m - n : rest[k] = old[n + k]
  <2>1. PICK s \in Int : s = n + 1
    OBVIOUS
  <2>2. \A k \in s .. m : old[k] \in S
    BY <1>1, <2>1
  <2>3. m \in Int
    OBVIOUS
  <2>4. /\ SubSeq(old, s, m) \in Seq(S)
        /\ Len(SubSeq(old, s, m)) = IF s <= m THEN m - s + 1 ELSE 0
        /\ \A k \in 1 .. m - s + 1 : SubSeq(old, s, m)[k] = old[s + k - 1]
    BY <2>2, <2>3, SubSeqProperties
  <2>5. (IF s <= m THEN m - s + 1 ELSE 0) = m - n /\ m - s + 1 = m - n
    BY <2>1
  <2>6. \A k \in 1 .. m - n : s + k - 1 = n + k
    BY <2>1
  <2>7. \A k \in 1 .. m - n : SubSeq(old, s, m)[k] = old[n + k]
    BY <2>4, <2>5, <2>6, Zenon
  <2>8. rest = SubSeq(old, s, m)
    BY <1>3, <2>1, Zenon
  <2>9. QED
    BY <2>4, <2>5, <2>7, <2>8, Zenon
<1>5. PICK new : new = value \o rest
  OBVIOUS
<1>6. /\ new \in Seq(S)
      /\ Len(new) = Len(value) + Len(rest)
      /\ \A k \in 1 .. Len(value) + Len(rest) :
           new[k] = IF k <= Len(value) THEN value[k] ELSE rest[k - Len(value)]
  BY <1>2, <1>4, <1>5, ConcatProperties
<1>7. Len(value) + Len(rest) = m
  BY <1>2, <1>4
<1>8. Listed(new, m)
  <2>1. new \in [1 .. m -> S]
    BY <1>6, <1>7, LenProperties
  <2>2. QED
    BY <2>1 DEF Listed
<1>9. ASSUME NEW k \in 1 .. m PROVE new[k] = IF k <= n THEN value[k] ELSE old[k]
  <2>1. new[k] = IF k <= n THEN value[k] ELSE rest[k - n]
    BY <1>2, <1>6, <1>7, Zenon
  <2>2. CASE k <= n
    BY <2>1, <2>2, Zenon
  <2>3. CASE ~(k <= n)
    <3>1. PICK j \in 1 .. m - n : j = k - n /\ n + j = k
      BY <2>3
    <3>2. rest[k - n] = old[k]
      BY <1>4, <3>1, Zenon
    <3>3. QED
      BY <2>1, <2>3, <3>2, Zenon
  <2>4. QED
    BY <2>2, <2>3
<1>10. QED
  BY <1>3, <1>5, <1>8, <1>9, Zenon DEF Over

\* An image says the values of these groups.
Means(assembly, groups, meaning, img) ==
  /\ img \in ImageOf(assembly.size_bytes)
  /\ \A group \in DOMAIN groups :
       /\ Listed(meaning[group], Len(groups[group]))
       /\ \A k \in DOMAIN groups[group] :
            Read(assembly, img, groups[group][k]) = <<meaning[group][k]>>

\* The fields of these groups are in the layout.
HasGroups(assembly, groups) ==
  /\ Sound(assembly) /\ NoFieldTwice(groups)
  /\ \A group \in DOMAIN groups : HasFields(assembly, groups[group])

\* What is encoded fits the fields, whatever it is written into.
LEMMA GroupFits ==
  ASSUME NEW assembly, NEW names, HasFields(assembly, names),
         NEW values, Suit(assembly, names, values),
         NEW base, Encodable(assembly, names, values, base)
  PROVE  /\ Len(values) \in Nat /\ Len(names) \in Nat /\ DOMAIN names = 1 .. Len(names)
         /\ Listed(values, Len(values)) /\ DOMAIN values = 1 .. Len(values)
         /\ Len(values) = Len(names) \/ (Len(values) < Len(names) /\ names = DynamicConfig)
         /\ \A k \in 1 .. Len(values) : FitsField(assembly, names[k], values[k])
PROOF
<1>1. PICK m, n : m = Len(names) /\ n = Len(values)
  OBVIOUS
<1>2. m \in Nat /\ DOMAIN names = 1 .. m /\ n \in Nat /\ Listed(values, n)
  BY <1>1, Zenon DEF HasFields, Suit, Listed
<1>3. n = m \/ (n < m /\ names = DynamicConfig)
  BY <1>1, Zenon DEF Encodable
<1>4. DOMAIN values = 1 .. n
  BY <1>2, ListedSeq, Zenon
<1>5. ASSUME NEW k \in 1 .. n PROVE FitsField(assembly, names[k], values[k])
  <2>1. k \in DOMAIN values \cap DOMAIN names
    <3>1. n <= m
      BY <1>2, <1>3
    <3>2. QED
      BY <1>2, <1>4, <3>1
  <2>2. values[k] \in ElementsOf(Field(assembly, names[k]).type)
    BY <2>1, Zenon DEF Suit
  <2>3. Packable(assembly, SubSeq(names, 1, n), Elements(values), base)
    BY <1>1, Zenon DEF Encodable
  <2>4. k \in DOMAIN SubSeq(names, 1, n) /\ SubSeq(names, 1, n)[k] = names[k]
    BY <1>2, FirstNames, Zenon
  <2>5. Writable(assembly, names[k], Elements(values)[k])
    BY <2>3, <2>4, Zenon DEF Packable
  <2>6. Elements(values)[k] = <<values[k]>>
    BY <2>1 DEF Elements
  <2>7. 1 \in DOMAIN <<values[k]>> /\ <<values[k]>>[1] = values[k]
    OBVIOUS
  <2>8. IsBool(Field(assembly, names[k]))
          \/ FitsFormat(Formats[Field(assembly, names[k]).type], values[k])
    BY <2>5, <2>6, <2>7, Zenon DEF Writable
  <2>9. QED
    BY <2>2, <2>8, Zenon DEF FitsField
<1>6. QED
  BY <1>1, <1>2, <1>3, <1>4, <1>5, Zenon

\* A group that is written says its values from then on, and the others what they
\* said.
LEMMA WriteMeans ==
  ASSUME NEW assembly, NEW groups, HasGroups(assembly, groups),
         NEW meaning, NEW old, Means(assembly, groups, meaning, old),
         DOMAIN meaning = DOMAIN groups,
         NEW group \in DOMAIN groups, NEW values,
         Suit(assembly, groups[group], values),
         Encodable(assembly, groups[group], values, old)
  PROVE  Means(assembly, groups,
               [meaning EXCEPT ![group] =
                  values \o SubSeq(@, Len(values) + 1, Len(@))],
               Encode(assembly, groups[group], values, old))
PROOF
<1>1. PICK names, m, n, new : /\ names = groups[group] /\ m = Len(names) /\ n = Len(values)
                              /\ new = Encode(assembly, names, values, old)
  OBVIOUS
<1>2. /\ m \in Nat /\ n \in Nat /\ n <= m /\ DOMAIN names = 1 .. m
      /\ Listed(values, n) /\ DOMAIN values = 1 .. n
      /\ Sound(assembly) /\ HasFields(assembly, names)
      /\ \A k \in 1 .. n : FitsField(assembly, names[k], values[k])
  <2>1. HasFields(assembly, names) /\ Sound(assembly)
    BY <1>1, Zenon DEF HasGroups
  <2>2. Suit(assembly, names, values) /\ Encodable(assembly, names, values, old)
    BY <1>1, Zenon
  <2>3. /\ Len(values) \in Nat /\ Len(names) \in Nat /\ DOMAIN names = 1 .. Len(names)
        /\ Listed(values, Len(values)) /\ DOMAIN values = 1 .. Len(values)
        /\ Len(values) = Len(names) \/ (Len(values) < Len(names) /\ names = DynamicConfig)
        /\ \A k \in 1 .. Len(values) : FitsField(assembly, names[k], values[k])
    BY <2>1, <2>2, GroupFits, Zenon
  <2>4. n <= m
    BY <1>1, <2>3
  <2>5. QED
    BY <1>1, <2>1, <2>3, <2>4, Zenon
<1>3. old \in ImageOf(assembly.size_bytes)
  BY Zenon DEF Means
<1>4. \A j, k \in DOMAIN names : names[j] = names[k] => j = k
  BY <1>1, Zenon DEF HasGroups, NoFieldTwice
<1>5. Says(assembly, names, values, n, old, new)
  BY <1>1, <1>2, <1>3, <1>4, EncodeSays, Zenon
<1>6. PICK said2 : said2 = [meaning EXCEPT ![group] = values \o SubSeq(@, Len(values) + 1, Len(@))]
  OBVIOUS
<1>7. Listed(meaning[group], m) /\ Len(meaning[group]) = m
  <2>1. Listed(meaning[group], m)
    BY <1>1, Zenon DEF Means
  <2>2. QED
    BY <1>2, <2>1, ListedSeq, Zenon
<1>8. /\ said2[group] = values \o SubSeq(meaning[group], n + 1, m)
       /\ \A other \in DOMAIN groups : other # group => said2[other] = meaning[other]
  BY <1>1, <1>6, <1>7, Zenon
<1>9. /\ Listed(said2[group], m)
       /\ \A k \in 1 .. m : said2[group][k] = IF k <= n THEN values[k] ELSE meaning[group][k]
  <2>1. PICK before : before = meaning[group]
    OBVIOUS
  <2>2. Listed(before, m)
    BY <1>7, <2>1, Zenon
  <2>3. m \in Nat /\ n \in Nat /\ n <= m /\ Listed(values, n)
    BY <1>2, Zenon
  <2>4. /\ Listed(Over(values, n, before, m), m)
        /\ \A k \in 1 .. m :
             Over(values, n, before, m)[k] = IF k <= n THEN values[k] ELSE before[k]
    BY <2>2, <2>3, Overwrite
  <2>5. QED
    BY <1>8, <2>1, <2>4, Zenon DEF Over
<1>10. ASSUME NEW other \in DOMAIN groups
       PROVE  /\ Listed(said2[other], Len(groups[other]))
              /\ \A k \in DOMAIN groups[other] :
                   Read(assembly, new, groups[other][k]) = <<said2[other][k]>>
  <2>1. CASE other = group
    <3>1. Listed(said2[other], Len(groups[other]))
      BY <1>1, <1>9, <2>1, Zenon
    <3>2. ASSUME NEW k \in DOMAIN names
          PROVE  Read(assembly, new, names[k]) = <<said2[group][k]>>
      <4>1. k \in 1 .. m
        BY <1>2
      <4>2. CASE k <= n
        <5>1. k \in 1 .. n
          BY <4>1, <4>2
        <5>2. Read(assembly, new, names[k]) = <<values[k]>>
          BY <1>5, <5>1, Zenon DEF Says
        <5>3. QED
          BY <1>9, <4>1, <4>2, <5>2, Zenon
      <4>3. CASE ~(k <= n)
        <5>1. \A j \in 1 .. n : j \in DOMAIN names /\ j # k
          BY <1>2, <4>3
        <5>2. \A j \in 1 .. n : names[j] # names[k]
          BY <1>4, <5>1, Zenon
        <5>3. Single(assembly, names[k])
          BY <1>2, Zenon DEF HasFields, Single
        <5>4. Read(assembly, new, names[k]) = Read(assembly, old, names[k])
          BY <1>5, <5>2, <5>3, Zenon DEF Says
        <5>5. Read(assembly, old, names[k]) = <<meaning[group][k]>>
          BY <1>1, Zenon DEF Means
        <5>6. QED
          BY <1>9, <4>1, <4>3, <5>4, <5>5, Zenon
      <4>4. QED
        BY <4>2, <4>3
    <3>3. QED
      BY <1>1, <2>1, <3>1, <3>2, Zenon
  <2>2. CASE other # group
    <3>1. said2[other] = meaning[other]
      BY <1>8, <2>2, Zenon
    <3>2. Listed(meaning[other], Len(groups[other]))
      BY Zenon DEF Means
    <3>3. ASSUME NEW k \in DOMAIN groups[other]
          PROVE  Read(assembly, new, groups[other][k]) = <<said2[other][k]>>
      <4>1. \A j \in 1 .. n : j \in DOMAIN names
        BY <1>2
      <4>2. \A j \in 1 .. n : names[j] # groups[other][k]
        BY <1>1, <2>2, <4>1, Zenon DEF HasGroups, NoFieldTwice
      <4>3. Single(assembly, groups[other][k])
        BY Zenon DEF HasGroups, HasFields, Single
      <4>4. Read(assembly, new, groups[other][k]) = Read(assembly, old, groups[other][k])
        BY <1>5, <4>2, <4>3, Zenon DEF Says
      <4>5. Read(assembly, old, groups[other][k]) = <<meaning[other][k]>>
        BY Zenon DEF Means
      <4>6. QED
        BY <3>1, <4>4, <4>5, Zenon
    <3>4. QED
      BY <3>1, <3>2, <3>3, Zenon
  <2>3. QED
    BY <2>1, <2>2
<1>11. new \in ImageOf(assembly.size_bytes)
  BY <1>5, Zenon DEF Says
<1>12. Means(assembly, groups, said2, new)
  BY <1>10, <1>11, Zenon DEF Means
<1>13. QED
  BY <1>1, <1>6, <1>12, Zenon

\* An image says the values of some of the groups.
PartMeans(assembly, some, meaning, img) ==
  /\ img \in ImageOf(assembly.size_bytes)
  /\ \A group \in some : \A k \in DOMAIN InputGroups[group] :
       Read(assembly, img, InputGroups[group][k]) = <<meaning[group][k]>>

\* The values that all groups of the input are given, and that fit.
InputFits(assembly, values) ==
  \A group \in DOMAIN InputGroups :
    /\ Suit(assembly, InputGroups[group], values[group])
    /\ Encodable(assembly, InputGroups[group], values[group], Zeros(assembly.size_bytes))

\* Each group of the input is written whole, and says its values.
LEMMA InputGroupSays ==
  ASSUME NEW assembly, HasGroups(assembly, InputGroups),
         NEW values, InputFits(assembly, values),
         NEW group \in DOMAIN InputGroups,
         NEW mid \in ImageOf(assembly.size_bytes)
  PROVE  /\ Len(values[group]) = Len(InputGroups[group])
         /\ Listed(values[group], Len(InputGroups[group]))
         /\ DOMAIN InputGroups[group] = 1 .. Len(InputGroups[group])
         /\ Says(assembly, InputGroups[group], values[group], Len(InputGroups[group]), mid,
                 Encode(assembly, InputGroups[group], values[group], mid))
PROOF
<1>1. PICK names, v, n, m : /\ names = InputGroups[group] /\ v = values[group]
                            /\ n = Len(v) /\ m = Len(names)
  OBVIOUS
<1>2. HasFields(assembly, names) /\ Sound(assembly)
  BY <1>1, Zenon DEF HasGroups
<1>3. Suit(assembly, names, v) /\ Encodable(assembly, names, v, Zeros(assembly.size_bytes))
  BY <1>1, Zenon DEF InputFits
<1>4. /\ Len(v) \in Nat /\ Len(names) \in Nat /\ DOMAIN names = 1 .. Len(names)
      /\ Listed(v, Len(v)) /\ DOMAIN v = 1 .. Len(v)
      /\ Len(v) = Len(names) \/ (Len(v) < Len(names) /\ names = DynamicConfig)
      /\ \A k \in 1 .. Len(v) : FitsField(assembly, names[k], v[k])
  BY <1>2, <1>3, GroupFits, Zenon
<1>5. names # DynamicConfig
  BY <1>1, GroupsAssumption, Zenon
<1>6. n = m /\ n \in Nat /\ n <= Len(names) /\ n = Len(v) /\ DOMAIN v = 1 .. n
  BY <1>1, <1>4, <1>5
<1>7. \A j, k \in DOMAIN names : names[j] = names[k] => j = k
  BY <1>1, Zenon DEF HasGroups, NoFieldTwice
<1>8. \A k \in 1 .. n : FitsField(assembly, names[k], v[k])
  BY <1>4, <1>6, Zenon
<1>9. Says(assembly, names, v, n, mid, Encode(assembly, names, v, mid))
  BY <1>2, <1>6, <1>7, <1>8, EncodeSays, Zenon
<1>10. QED
  BY <1>1, <1>4, <1>6, <1>9, Zenon

\* A group that is written after others leaves what those say.
LEMMA OneGroupMore ==
  ASSUME NEW assembly, HasGroups(assembly, InputGroups),
         NEW values, InputFits(assembly, values),
         NEW some \in SUBSET (DOMAIN InputGroups),
         NEW group \in DOMAIN InputGroups, group \notin some,
         NEW mid, PartMeans(assembly, some, values, mid)
  PROVE  PartMeans(assembly, some \cup {group}, values,
                   Encode(assembly, InputGroups[group], values[group], mid))
PROOF
<1>1. PICK names, n, new : /\ names = InputGroups[group] /\ n = Len(names)
                           /\ new = Encode(assembly, names, values[group], mid)
  OBVIOUS
<1>2. mid \in ImageOf(assembly.size_bytes)
  BY Zenon DEF PartMeans
<1>3. DOMAIN names = 1 .. n /\ Says(assembly, names, values[group], n, mid, new)
  BY <1>1, <1>2, InputGroupSays, Zenon
<1>4. new \in ImageOf(assembly.size_bytes)
  BY <1>3, Zenon DEF Says
<1>5. ASSUME NEW other \in some \cup {group}, NEW k \in DOMAIN InputGroups[other]
      PROVE  Read(assembly, new, InputGroups[other][k]) = <<values[other][k]>>
  <2>1. CASE other = group
    <3>1. k \in 1 .. n
      BY <1>1, <1>3, <2>1, Zenon
    <3>2. Read(assembly, new, names[k]) = <<values[group][k]>>
      BY <1>3, <3>1, Zenon DEF Says
    <3>3. QED
      BY <1>1, <2>1, <3>2, Zenon
  <2>2. CASE other \in some
    <3>1. other # group /\ other \in DOMAIN InputGroups
      BY <2>2
    <3>2. \A j \in 1 .. n : names[j] # InputGroups[other][k]
      BY <1>1, <1>3, <3>1, Zenon DEF HasGroups, NoFieldTwice
    <3>3. Single(assembly, InputGroups[other][k])
      BY <3>1, Zenon DEF HasGroups, HasFields, Single
    <3>4. Read(assembly, new, InputGroups[other][k]) = Read(assembly, mid, InputGroups[other][k])
      BY <1>3, <3>2, <3>3, Zenon DEF Says
    <3>5. QED
      BY <2>2, <3>4, Zenon DEF PartMeans
  <2>3. QED
    BY <2>1, <2>2
<1>6. PartMeans(assembly, some \cup {group}, values, new)
  BY <1>4, <1>5, Zenon DEF PartMeans
<1>7. QED
  BY <1>1, <1>6, Zenon

\* The groups of the input, in their order.
Before(k) == {InputOrder[j] : j \in 1 .. k}

\* It is an order of all of them.
LEMMA OrderOfInput ==
  /\ DOMAIN InputOrder = 1 .. 9
  /\ Before(9) = DOMAIN InputGroups
  /\ \A j, k \in 1 .. 9 : InputOrder[j] = InputOrder[k] => j = k
PROOF
<1>1. /\ InputOrder[1] = "status" /\ InputOrder[2] = "motion_status"
      /\ InputOrder[3] = "safety_status" /\ InputOrder[4] = "position"
      /\ InputOrder[5] = "timestamp" /\ InputOrder[6] = "dynamic_data_0"
      /\ InputOrder[7] = "dynamic_data_1" /\ InputOrder[8] = "dynamic_data_2"
      /\ InputOrder[9] = "dynamic_data_3" /\ DOMAIN InputOrder = 1 .. 9
  BY DEF InputOrder
<1>2. \A k \in 1 .. 9 : \/ k = 1 \/ k = 2 \/ k = 3 \/ k = 4 \/ k = 5 \/ k = 6 \/ k = 7
                        \/ k = 8 \/ k = 9
  OBVIOUS
<1>3. DOMAIN InputGroups =
        {"status", "motion_status", "safety_status", "position", "timestamp",
         "dynamic_data_0", "dynamic_data_1", "dynamic_data_2", "dynamic_data_3"}
  BY DEF InputGroups
<1>4. ASSUME NEW j \in 1 .. 9, NEW k \in 1 .. 9, InputOrder[j] = InputOrder[k] PROVE j = k
  BY <1>1, <1>2, <1>4
<1>5. ASSUME NEW k \in 1 .. 9 PROVE InputOrder[k] \in DOMAIN InputGroups
  BY <1>1, <1>2, <1>3
<1>6. ASSUME NEW group \in DOMAIN InputGroups PROVE \E k \in 1 .. 9 : InputOrder[k] = group
  BY <1>1, <1>3
<1>7. Before(9) = DOMAIN InputGroups
  BY <1>5, <1>6, Zenon DEF Before
<1>8. QED
  BY <1>1, <1>4, <1>7

\* build_input_assembly: the image says all the values.
LEMMA InputMeans ==
  ASSUME HasGroups(Sender, InputGroups), NEW values, InputFits(Sender, values)
  PROVE  Means(Sender, InputGroups, values, InputImage(values))
PROOF
<1> DEFINE D == ImageOf(Sender.size_bytes)
           base == Zeros(Sender.size_bytes)
           encode(k, img) ==
             Encode(Sender, InputGroups[InputOrder[k]], values[InputOrder[k]], img)
           step(f) == [s \in SUBSET (1 .. 9) |->
                         IF s = {} THEN base ELSE encode(Max(s), f[s \ {Max(s)}])]
           iter == CHOOSE f : f = step(f)
           F == [k \in 1 .. 9 |-> [img \in D |-> encode(k, img)]]
<1>1. base \in D
  <2>1. Sender.size_bytes \in Nat
    BY Zenon DEF HasGroups, Sound
  <2>2. QED
    BY <2>1, ZerosAre, Zenon
<1>2. InputImage(values) = iter[1 .. 9]
  BY OrderOfInput, Zenon DEF InputImage, FoldLeft, MapThenFoldSet
<1>3. \A k \in 1 .. 9 : InputOrder[k] \in DOMAIN InputGroups
  BY OrderOfInput, Zenon DEF Before
<1>4. ASSUME NEW k \in 1 .. 9, NEW img \in D PROVE encode(k, img) \in D
  <2>1. PICK group \in DOMAIN InputGroups : group = InputOrder[k]
    BY <1>3
  <2>2. Says(Sender, InputGroups[group], values[group], Len(InputGroups[group]), img,
             Encode(Sender, InputGroups[group], values[group], img))
    BY InputGroupSays, Zenon
  <2>3. QED
    BY <2>1, <2>2, Zenon DEF Says
<1>5. F \in [1 .. 9 -> [D -> D]]
  <2> HIDE DEF D, encode
  <2>1. QED
    BY <1>4
<1>6. PICK f \in [SUBSET (1 .. 9) -> D] : Table(f, 9, base, F)
  <2>1. 9 \in Nat
    OBVIOUS
  <2> HIDE DEF F, D, base
  <2>2. QED
    BY <1>1, <1>5, <2>1, TableExists, Zenon
<1>7. \A s \in SUBSET (1 .. 9) : s # {} => Max(s) \in 1 .. 9
  <2>1. ASSUME NEW s \in SUBSET (1 .. 9), s # {} PROVE Max(s) \in 1 .. 9
    <3>1. 9 \in Nat
      OBVIOUS
    <3>2. Max(s) \in s
      BY <2>1, <3>1, LargestIsOneOf, Zenon
    <3>3. QED
      BY <3>2, Zenon
  <2>2. QED
    BY <2>1
<1>8. f = step(f)
  <2>1. ASSUME NEW s \in SUBSET (1 .. 9), s # {}
        PROVE  F[Max(s)][f[s \ {Max(s)}]] = encode(Max(s), f[s \ {Max(s)}])
    <3>1. Max(s) \in 1 .. 9
      BY <1>7, <2>1, Zenon
    <3>2. s \ {Max(s)} \in SUBSET (1 .. 9)
      OBVIOUS
    <3>3. f[s \ {Max(s)}] \in D
      <4> HIDE DEF D
      <4>1. QED
        BY <3>2
    <3> HIDE DEF encode, D
    <3>4. QED
      BY <3>1, <3>3
  <2> HIDE DEF encode, F, D, base
  <2>2. QED
    BY <1>6, <2>1 DEF Table
<1>9. iter = step(iter)
  <2> HIDE DEF step
  <2>1. QED
    BY <1>8, Zenon
<1>10. iter[1 .. 0] = base /\ \A k \in 1 .. 9 : iter[1 .. k] = encode(k, iter[1 .. k - 1])
  <2> HIDE DEF iter, encode, base
  <2>1. \A s \in SUBSET (1 .. 9) :
          iter[s] = IF s = {} THEN base ELSE encode(Max(s), iter[s \ {Max(s)}])
    BY <1>9, Zenon
  <2>2. ASSUME NEW k \in 1 .. 9
        PROVE  /\ 1 .. k \in SUBSET (1 .. 9) /\ 1 .. k # {} /\ (1 .. k) \ {k} = 1 .. k - 1
               /\ Max(1 .. k) = k
    <3>1. k \in Nat /\ k > 0
      OBVIOUS
    <3>2. Max(1 .. k) = k
      BY <3>1, LargestOfInterval, Zenon
    <3>3. PICK n \in Nat : n = 9 /\ k \in 1 .. n
      OBVIOUS
    <3>4. 1 .. k \in SUBSET (1 .. n) /\ 1 .. k # {}
      <4>1. k <= n /\ k \in 1 .. k
        BY <3>1, <3>3
      <4>2. \A j \in 1 .. k : j \in 1 .. n
        BY <3>1, <4>1
      <4>3. QED
        BY <4>1, <4>2
    <3>5. (1 .. k) \ {k} = 1 .. k - 1
      <4>1. PICK i \in Nat : i = k /\ i > 0
        BY <3>1
      <4>2. (1 .. i) \ {i} = 1 .. i - 1
        OBVIOUS
      <4>3. QED
        BY <4>1, <4>2, Zenon
    <3>6. QED
      BY <3>2, <3>3, <3>4, <3>5, Zenon
  <2>3. 1 .. 0 = {} /\ {} \in SUBSET (1 .. 9)
    OBVIOUS
  <2>4. iter[1 .. 0] = base
    BY <2>1, <2>3, Zenon
  <2>5. ASSUME NEW k \in 1 .. 9 PROVE iter[1 .. k] = encode(k, iter[1 .. k - 1])
    <3>1. iter[1 .. k] = encode(Max(1 .. k), iter[(1 .. k) \ {Max(1 .. k)}])
      BY <2>1, <2>2, Zenon
    <3>2. QED
      BY <2>2, <3>1, Zenon
  <2>6. QED
    BY <2>4, <2>5
<1> HIDE DEF iter
<1> DEFINE P(k) == k <= 9 => PartMeans(Sender, Before(k), values, iter[1 .. k])
           S == {k \in Nat : P(k)}
<1>11. P(0)
  <2>1. Before(0) = {}
    BY DEF Before
  <2>2. QED
    BY <1>1, <1>10, <2>1, Zenon DEF PartMeans
<1>12. ASSUME NEW k \in Nat, P(k) PROVE P(k + 1)
  <2>1. SUFFICES ASSUME k + 1 <= 9 PROVE PartMeans(Sender, Before(k + 1), values, iter[1 .. k + 1])
    BY Zenon
  <2>2. k <= 9 /\ k + 1 \in 1 .. 9 /\ k + 1 - 1 = k /\ \A i \in 1 .. k : i \in 1 .. 9 /\ i # k + 1
    BY <2>1
  <2>3. PICK group, mid : /\ group \in DOMAIN InputGroups
                          /\ group = InputOrder[k + 1] /\ mid = iter[1 .. k]
    BY <1>3, <2>2, Zenon
  <2>4. PartMeans(Sender, Before(k), values, mid)
    BY <1>12, <2>2, <2>3, Zenon
  <2>5. Before(k) \in SUBSET (DOMAIN InputGroups) /\ group \notin Before(k)
    <3>1. ASSUME NEW g \in Before(k) PROVE g \in DOMAIN InputGroups /\ g # group
      <4>1. PICK i \in 1 .. k : g = InputOrder[i]
        BY DEF Before
      <4>2. QED
        BY <1>3, <2>2, <2>3, <4>1, OrderOfInput, Zenon
    <3>2. QED
      BY <3>1, Zenon
  <2>6. Before(k + 1) = Before(k) \cup {group}
    <3>1. \A i : i \in 1 .. k + 1 <=> i \in 1 .. k \/ i = k + 1
      OBVIOUS
    <3>2. QED
      BY <2>3, <3>1 DEF Before
  <2>7. PartMeans(Sender, Before(k) \cup {group}, values,
                  Encode(Sender, InputGroups[group], values[group], mid))
    BY <2>3, <2>4, <2>5, OneGroupMore, Zenon
  <2>8. iter[1 .. k + 1] = Encode(Sender, InputGroups[group], values[group], mid)
    <3>1. PICK i \in 1 .. 9 : i = k + 1 /\ i - 1 = k
      BY <2>2
    <3>2. iter[1 .. i] = encode(i, iter[1 .. i - 1])
      BY <1>10, Zenon
    <3>3. QED
      BY <2>3, <3>1, <3>2, Zenon
  <2>9. QED
    BY <2>6, <2>7, <2>8, Zenon
<1>13. 9 \in S
  <2> HIDE DEF P
  <2>1. 0 \in S /\ \A k \in Nat : k \in S => k + 1 \in S
    BY <1>11, <1>12
  <2> HIDE DEF S
  <2>2. Nat \subseteq S
    BY <2>1, NatSetInduction, Zenon
  <2>3. QED
    BY <2>2
<1>14. PartMeans(Sender, DOMAIN InputGroups, values, InputImage(values))
  <2>1. 9 <= 9
    OBVIOUS
  <2>2. QED
    BY <1>2, <1>13, <2>1, OrderOfInput, Zenon
<1>15. ASSUME NEW group \in DOMAIN InputGroups
       PROVE  Listed(values[group], Len(InputGroups[group]))
  BY <1>1, InputGroupSays, Zenon
<1>16. QED
  BY <1>14, <1>15, Zenon DEF PartMeans, Means

----------------------------------------------------------------------------
(* The two ends, what they have loaded, and the frames between them.       *)

\* Both ends have a map that was loaded.
MapsLoaded ==
  /\ \E a, b \in Loadable : scanner_map = Load(Specs[a]) /\ server_map = Load(Specs[b])
  /\ direction \in {"output", "input"}

\* Its codecs are sound, have the fields, and the values suit them.
LEMMA LoadedSuits ==
  ASSUME NEW name \in Loadable
  PROVE  /\ HasGroups(Load(Specs[name]).output, OutputGroups)
         /\ HasGroups(Load(Specs[name]).input, InputGroups)
         /\ \A group \in DOMAIN OutputGroups : \A values \in GroupValues[group] :
              Suit(Load(Specs[name]).output, OutputGroups[group], values)
         /\ \A values \in InputValues : InputFits(Load(Specs[name]).input, values)
PROOF
<1>1. PICK spec : spec = Specs[name]
  OBVIOUS
<1>2. spec \in Specification /\ Loads(spec)
  BY <1>1, WireAssumption, Zenon DEF Loadable
<1>3. /\ Load(spec).output = Codec(spec.output) /\ Load(spec).input = Codec(spec.input)
      /\ spec.output \in Layout /\ spec.input \in Layout
  BY <1>2 DEF Specification, Load
<1>4. Accepted(spec.output) /\ Accepted(spec.input)
  BY <1>2, Zenon DEF Loads
<1>5. Sound(Load(spec).output) /\ Sound(Load(spec).input)
  BY <1>3, <1>4, CodecSound, Zenon
<1>6. PICK loaded : loaded = Load(spec)
  OBVIOUS
<1>7. /\ \A group \in DOMAIN OutputGroups :
           /\ HasFields(loaded.output, OutputGroups[group])
           /\ \A values \in GroupValues[group] :
                Suit(loaded.output, OutputGroups[group], values)
      /\ \A group \in DOMAIN InputGroups :
           /\ HasFields(loaded.input, InputGroups[group])
           /\ \A values \in InputValues :
                /\ Suit(loaded.input, InputGroups[group], values[group])
                /\ Encodable(loaded.input, InputGroups[group], values[group],
                             Zeros(loaded.input.size_bytes))
  BY <1>1, <1>6, WireAssumption, Zenon
<1>8. HasGroups(loaded.output, OutputGroups) /\ HasGroups(loaded.input, InputGroups)
  BY <1>5, <1>6, <1>7, GroupsAssumption, Zenon DEF HasGroups
<1>9. \A values \in InputValues : InputFits(loaded.input, values)
  BY <1>7, Zenon DEF InputFits
<1>10. QED
  BY <1>1, <1>6, <1>7, <1>8, <1>9, Zenon

\* So are those of the sender and the receiver, whichever end they are.
LEMMA SidesSuit ==
  ASSUME MapsLoaded
  PROVE  /\ HasGroups(Sender, Groups)
         /\ Sender.size_bytes \in Nat /\ Receiver.size_bytes \in Nat
         /\ direction = "output" =>
              \A group \in DOMAIN OutputGroups : \A values \in GroupValues[group] :
                Suit(Sender, OutputGroups[group], values)
         /\ direction = "input" => \A values \in InputValues : InputFits(Sender, values)
         /\ scanner_map = server_map => Receiver = Sender
PROOF
<1>1. PICK a \in Loadable, b \in Loadable :
        scanner_map = Load(Specs[a]) /\ server_map = Load(Specs[b])
  BY DEF MapsLoaded
<1>2. direction = "output" \/ (direction = "input" /\ direction # "output")
  BY DEF MapsLoaded
<1>3. direction = "output" =>
        Sender = scanner_map.output /\ Receiver = server_map.output /\ Groups = OutputGroups
  BY DEF Sender, Receiver, AssemblyOf, Groups
<1>4. direction # "output" =>
        Sender = server_map.input /\ Receiver = scanner_map.input /\ Groups = InputGroups
  BY DEF Sender, Receiver, AssemblyOf, Groups
<1>5. HasGroups(Sender, Groups)
  BY <1>1, <1>2, <1>3, <1>4, LoadedSuits, Zenon
<1>6. /\ direction = "output" =>
           \A group \in DOMAIN OutputGroups : \A values \in GroupValues[group] :
             Suit(Sender, OutputGroups[group], values)
      /\ direction = "input" => \A values \in InputValues : InputFits(Sender, values)
  <2>1. CASE direction = "output"
    <3>1. direction # "input"
      BY <2>1
    <3>2. QED
      BY <1>1, <1>3, <2>1, <3>1, LoadedSuits, Zenon
  <2>2. CASE direction # "output"
    BY <1>1, <1>4, <2>2, LoadedSuits, Zenon
  <2>3. QED
    BY <2>1, <2>2, Zenon
<1>7. \E groups : HasGroups(Receiver, groups)
  BY <1>1, <1>2, <1>3, <1>4, LoadedSuits, Zenon
<1>8. Sender.size_bytes \in Nat /\ Receiver.size_bytes \in Nat
  BY <1>5, <1>7, Zenon DEF HasGroups, Sound
<1>9. scanner_map = server_map => Receiver = Sender
  BY <1>2, <1>3, <1>4
<1>10. QED
  BY <1>5, <1>6, <1>8, <1>9

\* An image of zeros says that nothing is set.
LEMMA BlankMeans ==
  ASSUME MapsLoaded
  PROVE  /\ Means(Sender, Groups, Blank, Zeros(Sender.size_bytes))
         /\ DOMAIN Blank = DOMAIN Groups
PROOF
<1>1. HasGroups(Sender, Groups) /\ Sender.size_bytes \in Nat
  BY SidesSuit
<1>2. Zeros(Sender.size_bytes) \in ImageOf(Sender.size_bytes)
  BY <1>1, ZerosAre
<1>3. DOMAIN Blank = DOMAIN Groups
  BY DEF Blank
<1>4. ASSUME NEW group \in DOMAIN Groups
      PROVE  /\ Listed(Blank[group], Len(Groups[group]))
             /\ \A k \in DOMAIN Groups[group] :
                  Read(Sender, Zeros(Sender.size_bytes), Groups[group][k])
                    = <<Blank[group][k]>>
  <2>1. PICK names : names = Groups[group]
    OBVIOUS
  <2>2. HasFields(Sender, names) /\ Sound(Sender)
    BY <1>1, <2>1, Zenon DEF HasGroups
  <2>3. Blank[group] = [k \in DOMAIN names |-> Zero(Field(Sender, names[k]).type)]
    BY <2>1, Zenon DEF Blank
  <2>4. DOMAIN names = 1 .. Len(names)
    BY <2>2, Zenon DEF HasFields
  <2>5. Listed(Blank[group], Len(names))
    BY <2>3, <2>4 DEF Listed
  <2>6. ASSUME NEW k \in DOMAIN names
        PROVE  Read(Sender, Zeros(Sender.size_bytes), names[k]) = <<Blank[group][k]>>
    <3>1. Single(Sender, names[k])
      BY <2>2, Zenon DEF HasFields, Single
    <3>2. Read(Sender, Zeros(Sender.size_bytes), names[k])
            = <<Zero(Field(Sender, names[k]).type)>>
      BY <2>2, <3>1, ReadZeros, Zenon
    <3>3. Blank[group][k] = Zero(Field(Sender, names[k]).type)
      BY <2>3, Zenon
    <3>4. QED
      BY <3>2, <3>3, Zenon
  <2>7. QED
    BY <2>1, <2>5, <2>6, Zenon
<1>5. QED
  BY <1>2, <1>3, <1>4, Zenon DEF Means

\* A frame of this connection with these bytes.
FrameOf(id, data) ==
  <<[type |-> "sequenced_address", data |-> <<id>>],
    [type |-> "connected_data", data |-> data]>>

\* What stands before an image, and the bytes of a whole frame.
Ahead == IF direction = "output" THEN <<1, 0, 0, 0>> ELSE <<>>
Content(img) == Zeros(SequenceCount) \o Ahead \o img

\* What is left of the bytes of a frame, without the sequence count.
PayloadOf(data) == SubSeq(data, SequenceCount + 1, Len(data))

\* The largest of one number.
LEMMA OnlyOne ==
  ASSUME NEW n \in Int, NEW of, of = {n}
  PROVE  (CHOOSE k \in of : \A i \in of : i <= k) = n
PROOF
<1>1. n <= n
  OBVIOUS
<1>2. n \in of /\ \A i \in of : i <= n
  BY <1>1
<1>3. \E k \in of : \A i \in of : i <= k
  BY <1>2, Zenon
<1>4. (CHOOSE k \in of : \A i \in of : i <= k) \in of
  BY <1>3, Zenon
<1>5. QED
  BY <1>4

\* The items of a frame.
LEMMA TwoItems ==
  ASSUME NEW id, NEW data
  PROVE  /\ DOMAIN FrameOf(id, data) = {1, 2}
         /\ FrameOf(id, data)[1].type = "sequenced_address"
         /\ FrameOf(id, data)[1].data = <<id>>
         /\ FrameOf(id, data)[2].type = "connected_data"
         /\ FrameOf(id, data)[2].data = data
PROOF
<1>1. PICK a : a = [type |-> "sequenced_address", data |-> <<id>>]
  OBVIOUS
<1>2. PICK b : b = [type |-> "connected_data", data |-> data]
  OBVIOUS
<1>3. PICK items : items = <<a, b>>
  OBVIOUS
<1>4. DOMAIN items = {1, 2} /\ items[1] = a /\ items[2] = b
  BY <1>3
<1>5. a.type = "sequenced_address" /\ a.data = <<id>>
  BY <1>1
<1>6. b.type = "connected_data" /\ b.data = data
  BY <1>2
<1>7. FrameOf(id, data) = items
  BY <1>1, <1>2, <1>3, Zenon DEF FrameOf
<1>8. QED
  BY <1>4, <1>5, <1>6, <1>7, Zenon

\* They are found by their type.
LEMMA ItemsOfFrame ==
  ASSUME NEW id, NEW data
  PROVE  /\ Item(FrameOf(id, data), "sequenced_address").data[1] = id
         /\ Item(FrameOf(id, data), "connected_data").data = data
PROOF
<1>1. PICK items : items = FrameOf(id, data)
  OBVIOUS
<1>2. /\ DOMAIN items = {1, 2}
      /\ items[1].type = "sequenced_address" /\ items[1].data = <<id>>
      /\ items[2].type = "connected_data" /\ items[2].data = data
  BY <1>1, TwoItems
<1>3. /\ {k \in DOMAIN items : items[k].type = "sequenced_address"} = {1}
      /\ {k \in DOMAIN items : items[k].type = "connected_data"} = {2}
  BY <1>2
<1>4. 1 \in Int /\ 2 \in Int
  OBVIOUS
<1>5. Item(items, "sequenced_address") = items[1] /\ Item(items, "connected_data") = items[2]
  BY <1>3, <1>4, OnlyOne, Zenon DEF Item
<1>6. <<id>>[1] = id
  OBVIOUS
<1>7. QED
  BY <1>1, <1>2, <1>5, <1>6, Zenon

\* Only the last frame, whole or cut, is taken for one of the connection.
LEMMA FrameArrived ==
  ASSUME NEW img, datagram.items = CyclicItems(OwnId, img),
         NEW items \in Arrivals,
         HasItem(items, "sequenced_address"), HasItem(items, "connected_data"),
         Item(items, "sequenced_address").data[1] = OwnId
  PROVE  LET whole == Content(img)
             cut == SubSeq(whole, 1, Len(whole) - RunIdleHeader - 1)
         IN Item(items, "connected_data").data \in {whole, cut}
PROOF
<1>1. PICK whole, cut : /\ whole = Content(img)
                        /\ cut = SubSeq(whole, 1, Len(whole) - RunIdleHeader - 1)
  OBVIOUS
<1>2. \A id, i : CyclicItems(id, i) = FrameOf(id, Content(i))
  BY Zenon DEF CyclicItems, FrameOf, Content, Ahead
<1>3. datagram.items = FrameOf(OwnId, whole)
  BY <1>1, <1>2, Zenon
<1>4. CASE items = datagram.items
  <2>1. Item(items, "connected_data").data = whole
    BY <1>3, <1>4, ItemsOfFrame
  <2>2. QED
    BY <1>1, <2>1, Zenon
<1>5. ASSUME NEW a, items = <<a>> PROVE DOMAIN items = {1} /\ items[1] = a
  BY <1>5
<1>6. CASE items = <<datagram.items[1]>>
  <2>1. DOMAIN items = {1} /\ items[1].type = "sequenced_address"
    BY <1>3, <1>5, <1>6, TwoItems
  <2>2. items[1].type = "connected_data"
    BY <2>1, Zenon DEF HasItem
  <2>3. "connected_data" # "sequenced_address"
    OBVIOUS
  <2>4. QED
    BY <2>1, <2>2, <2>3, Zenon
<1>7. CASE items = <<datagram.items[2]>>
  <2>1. DOMAIN items = {1} /\ items[1].type = "connected_data"
    BY <1>3, <1>5, <1>7, TwoItems
  <2>2. items[1].type = "sequenced_address"
    BY <2>1, Zenon DEF HasItem
  <2>3. "connected_data" # "sequenced_address"
    OBVIOUS
  <2>4. QED
    BY <2>1, <2>2, <2>3, Zenon
<1>8. CASE items = <<datagram.items[1],
                     [datagram.items[2] EXCEPT
                        !.data = SubSeq(@, 1, Len(@) - RunIdleHeader - 1)]>>
  <2>1. PICK b, c : /\ b = [type |-> "connected_data", data |-> whole]
                    /\ c = [type |-> "connected_data", data |-> cut]
    OBVIOUS
  <2>2. b.data = whole /\ [b EXCEPT !.data = cut] = c
    BY <2>1
  <2>3. datagram.items[2] = b
    BY <1>3, <2>1 DEF FrameOf
  <2>4. datagram.items[1] = [type |-> "sequenced_address", data |-> <<OwnId>>]
    BY <1>3 DEF FrameOf
  <2>5. [b EXCEPT !.data = SubSeq(@, 1, Len(@) - RunIdleHeader - 1)]
          = [b EXCEPT !.data = cut]
    BY <1>1, <2>2, Zenon
  <2>6. items = <<datagram.items[1], c>>
    BY <1>8, <2>2, <2>3, <2>5, Zenon
  <2>7. items = FrameOf(OwnId, cut)
    BY <2>1, <2>4, <2>6, Zenon DEF FrameOf
  <2>8. Item(items, "connected_data").data = cut
    BY <2>7, ItemsOfFrame
  <2>9. QED
    BY <1>1, <2>8, Zenon
<1>9. CASE items = CyclicItems(OtherId, Zeros(Receiver.size_bytes))
  <2>1. Item(items, "sequenced_address").data[1] = OtherId
    BY <1>2, <1>9, ItemsOfFrame, Zenon
  <2>2. OtherId # OwnId
    BY DEF OtherId, OwnId
  <2>3. QED
    BY <2>1, <2>2, Zenon
<1>10. QED
  BY <1>4, <1>6, <1>7, <1>9, <1>8, Zenon DEF Arrivals

\* What is stripped is an image of the size of the receiver's assembly.
LEMMA StrippedIsImage ==
  ASSUME Receiver.size_bytes \in Nat, NEW payload \in Seq(Byte), UsableSize(payload)
  PROVE  StripRunIdleHeader(payload) \in ImageOf(Receiver.size_bytes)
PROOF
<1>1. PICK r \in Nat : r = Receiver.size_bytes
  OBVIOUS
<1>2. PICK n \in Nat : n = Len(payload)
  BY LenProperties
<1>3. CASE n = r
  <2>1. StripRunIdleHeader(payload) = payload
    BY <1>1, <1>2, <1>3, Zenon DEF StripRunIdleHeader
  <2>2. QED
    BY <1>1, <1>2, <1>3, <2>1, ImageIsSeq, Zenon
<1>4. CASE n # r
  <2>1. n = 4 + r
    <3>1. n \in {r, r + 4}
      BY <1>1, <1>2, Zenon DEF UsableSize, RunIdleHeader
    <3>2. QED
      BY <1>4, <3>1
  <2>2. payload \in ImageOf(n)
    BY <1>2, ImageIsSeq, Zenon
  <2>3. StripRunIdleHeader(payload) = SubSeq(payload, 4 + 1, n)
    BY <1>1, <1>2, <1>4, Zenon DEF StripRunIdleHeader, RunIdleHeader
  <2>4. StripRunIdleHeader(payload) = Piece(payload, 4, r)
    BY <2>1, <2>3 DEF Piece
  <2>5. 4 \in Nat /\ 4 + r <= n
    BY <2>1
  <2>6. Piece(payload, 4, r) \in ImageOf(r)
    BY <2>2, <2>5, PieceOfImage
  <2>7. QED
    BY <1>1, <2>4, <2>6, Zenon
<1>5. QED
  BY <1>3, <1>4, Zenon

\* The end of a sequence of bytes.
LEMMA EndOfBytes ==
  ASSUME NEW n \in Nat, NEW data \in ImageOf(n), NEW k \in Nat
  PROVE  /\ SubSeq(data, k + 1, n) \in Seq(Byte)
         /\ Len(SubSeq(data, k + 1, n)) = IF k <= n THEN n - k ELSE 0
PROOF
<1>1. data \in Seq(Byte) /\ Len(data) = n
  BY ImageIsSeq, Zenon
<1>2. PICK m \in Int : m = k + 1
  OBVIOUS
<1>3. \A i \in m .. n : data[i] \in Byte
  <2>1. \A i \in m .. n : i \in 1 .. n
    BY <1>2
  <2>2. QED
    BY <2>1, Zenon DEF ImageOf
<1>4. n \in Int
  OBVIOUS
<1>5. /\ SubSeq(data, m, n) \in Seq(Byte)
      /\ Len(SubSeq(data, m, n)) = IF m <= n THEN n - m + 1 ELSE 0
  BY <1>3, <1>4, SubSeqProperties
<1>6. (IF m <= n THEN n - m + 1 ELSE 0) = IF k <= n THEN n - k ELSE 0
  BY <1>2
<1>7. QED
  BY <1>2, <1>5, <1>6, Zenon

\* The start of one.
LEMMA StartOfBytes ==
  ASSUME NEW n \in Nat, NEW data \in ImageOf(n), NEW k \in Int, k <= n
  PROVE  /\ SubSeq(data, 1, k) \in ImageOf(Len(SubSeq(data, 1, k)))
         /\ Len(SubSeq(data, 1, k)) = IF 1 <= k THEN k ELSE 0
PROOF
<1>1. \A i \in 1 .. k : data[i] \in Byte
  <2>1. \A i \in 1 .. k : i \in 1 .. n
    OBVIOUS
  <2>2. QED
    BY <2>1, Zenon DEF ImageOf
<1>2. PICK one \in Int : one = 1
  OBVIOUS
<1>3. /\ SubSeq(data, one, k) \in Seq(Byte)
      /\ Len(SubSeq(data, one, k)) = IF one <= k THEN k - one + 1 ELSE 0
  BY <1>1, <1>2, SubSeqProperties
<1>4. (IF one <= k THEN k - one + 1 ELSE 0) = IF 1 <= k THEN k ELSE 0
  BY <1>2
<1>5. Len(SubSeq(data, 1, k)) \in Nat
  BY <1>2, <1>3, LenProperties, Zenon
<1>6. QED
  BY <1>2, <1>3, <1>4, <1>5, ImageIsSeq, Zenon

\* The bytes of a frame.
LEMMA ContentIs ==
  ASSUME NEW s \in Nat, NEW img \in ImageOf(s)
  PROVE  \E h \in {0, 4} :
           /\ Content(img) \in ImageOf((2 + h) + s)
           /\ \A i \in 1 .. s : Content(img)[(2 + h) + i] = img[i]
PROOF
<1>1. Zeros(SequenceCount) \in ImageOf(2)
  BY ZerosAre DEF SequenceCount
<1>2. ASSUME NEW h \in Nat, Ahead \in ImageOf(h)
      PROVE  /\ Content(img) \in ImageOf((2 + h) + s)
             /\ \A i \in 1 .. s : Content(img)[(2 + h) + i] = img[i]
  <2>1. PICK lead, two, m : /\ lead = Zeros(SequenceCount) \o Ahead /\ two = 2 /\ m = 2 + h
    OBVIOUS
  <2>2. m \in Nat /\ two \in Nat /\ two + h = m
    BY <2>1
  <2>3. lead \in ImageOf(m)
    BY <1>1, <1>2, <2>1, <2>2, JoinImages
  <2>4. /\ lead \o img \in ImageOf(m + s)
        /\ \A i \in 1 .. s : (lead \o img)[m + i] = img[i]
    BY <2>2, <2>3, JoinImages
  <2>5. Content(img) = lead \o img
    BY <2>1, Zenon DEF Content
  <2>6. QED
    BY <2>1, <2>4, <2>5, Zenon
<1>3. CASE direction = "output"
  <2>1. Ahead = <<1, 0, 0, 0>>
    BY <1>3, Zenon DEF Ahead
  <2>2. <<1, 0, 0, 0>> \in Seq(Byte) /\ Len(<<1, 0, 0, 0>>) = 4
    <3>1. 0 \in Byte /\ 1 \in Byte
      BY DEF Byte
    <3>2. QED
      BY <3>1
  <2>3. 4 \in Nat
    OBVIOUS
  <2>4. Ahead \in ImageOf(4)
    BY <2>1, <2>2, <2>3, ImageIsSeq, Zenon
  <2>5. QED
    BY <1>2, <2>3, <2>4, Zenon
<1>4. CASE direction # "output"
  <2>1. Ahead = <<>>
    BY <1>4, Zenon DEF Ahead
  <2>2. <<>> \in Seq(Byte) /\ Len(<<>>) = 0 /\ 0 \in Nat
    OBVIOUS
  <2>3. Ahead \in ImageOf(0)
    BY <2>1, <2>2, ImageIsSeq, Zenon
  <2>4. QED
    BY <1>2, <2>2, <2>3, Zenon
<1>5. QED
  BY <1>3, <1>4, Zenon

\* What is taken out of a frame, whole or cut: bytes, and if it has a size that
\* is used, and the ends have the same size, the image that was sent.
LEMMA PayloadSays ==
  ASSUME NEW s \in Nat, NEW img \in ImageOf(s), Receiver.size_bytes \in Nat,
         NEW data,
         data \in {Content(img),
                   SubSeq(Content(img), 1, Len(Content(img)) - RunIdleHeader - 1)},
         UsableSize(PayloadOf(data))
  PROVE  /\ StripRunIdleHeader(PayloadOf(data)) \in ImageOf(Receiver.size_bytes)
         /\ Receiver.size_bytes = s => StripRunIdleHeader(PayloadOf(data)) = img
PROOF
<1>1. PICK h \in {0, 4} : /\ Content(img) \in ImageOf((2 + h) + s)
                          /\ \A i \in 1 .. s : Content(img)[(2 + h) + i] = img[i]
  BY ContentIs
<1>2. PICK whole, n, cut : /\ whole = Content(img) /\ n = (2 + h) + s
                           /\ cut = SubSeq(whole, 1, n - 4 - 1)
  OBVIOUS
<1>3. n \in Nat /\ whole \in ImageOf(n)
  BY <1>1, <1>2
<1>4. Len(whole) = n
  BY <1>3, ImageIsSeq, Zenon
<1>5. data = whole \/ data = cut
  BY <1>2, <1>4, Zenon DEF RunIdleHeader
<1>6. PICK c : c = Len(cut)
  OBVIOUS
<1>7. cut \in ImageOf(c) /\ c = IF 1 <= n - 4 - 1 THEN n - 4 - 1 ELSE 0
  <2>1. PICK k \in Int : k = n - 4 - 1 /\ k <= n
    BY <1>3
  <2>2. cut = SubSeq(whole, 1, k)
    BY <1>2, <2>1, Zenon
  <2>3. /\ SubSeq(whole, 1, k) \in ImageOf(Len(SubSeq(whole, 1, k)))
        /\ Len(SubSeq(whole, 1, k)) = IF 1 <= k THEN k ELSE 0
    BY <1>3, <2>1, StartOfBytes, Zenon
  <2>4. QED
    BY <1>6, <2>1, <2>2, <2>3, Zenon
<1>8. c \in Nat
  BY <1>3, <1>7
<1>9. PICK m \in Nat : /\ data \in ImageOf(m)
                       /\ (data = whole /\ m = n) \/ m = c
  BY <1>3, <1>5, <1>7, <1>8, Zenon
<1>10. PICK payload, r : payload = PayloadOf(data) /\ r = Receiver.size_bytes
  OBVIOUS
<1>11. payload = SubSeq(data, 2 + 1, m)
  <2>1. Len(data) = m
    BY <1>9, ImageIsSeq, Zenon
  <2>2. QED
    BY <1>10, <2>1, Zenon DEF PayloadOf, SequenceCount
<1>12. payload \in Seq(Byte) /\ Len(payload) = IF 2 <= m THEN m - 2 ELSE 0
  <2>1. 2 \in Nat
    OBVIOUS
  <2>2. QED
    BY <1>9, <1>11, <2>1, EndOfBytes, Zenon
<1>13. StripRunIdleHeader(payload) \in ImageOf(r)
  BY <1>10, <1>12, StrippedIsImage, Zenon
<1>14. ASSUME r = s PROVE StripRunIdleHeader(payload) = img
  <2>1. Len(payload) \in {s, s + 4}
    BY <1>10, <1>14, Zenon DEF UsableSize, RunIdleHeader
  <2>2. CASE s = 0
    <3>1. \A a, b : a \in ImageOf(0) /\ b \in ImageOf(0) => a = b
      BY DEF ImageOf
    <3>2. StripRunIdleHeader(payload) \in ImageOf(0) /\ img \in ImageOf(0)
      BY <1>13, <1>14, <2>2, Zenon
    <3>3. QED
      BY <3>1, <3>2, Zenon
  <2>3. CASE s # 0
    <3>1. data = whole /\ m = n
      <4>1. m # c
        <5>1. SUFFICES ASSUME m = c PROVE FALSE
          OBVIOUS
        <5>2. QED
          BY <1>1, <1>2, <1>7, <1>12, <2>1, <2>3, <5>1
      <4>2. QED
        BY <1>9, <4>1
    <3>2. Len(payload) = h + s
      BY <1>1, <1>2, <1>12, <3>1
    <3>3. \A i \in 1 .. s : data[(2 + h) + i] = img[i]
      BY <1>1, <1>2, <3>1, Zenon
    <3>4. CASE h = 0
      <4>1. payload = Piece(data, 2, s)
        <5>1. m = 2 + s
          BY <1>2, <3>1, <3>4
        <5>2. QED
          BY <1>11, <5>1, Zenon DEF Piece
      <4>2. 2 \in Nat /\ 2 + s <= m
        BY <1>2, <3>1, <3>4
      <4>3. payload \in ImageOf(s) /\ \A i \in 1 .. s : payload[i] = data[2 + i]
        BY <1>9, <4>1, <4>2, PieceOfImage
      <4>4. \A i \in 1 .. s : payload[i] = img[i]
        BY <3>3, <3>4, <4>3
      <4>5. payload = img
        BY <4>3, <4>4 DEF ImageOf
      <4>6. Len(payload) = r
        BY <1>14, <3>2, <3>4
      <4>7. QED
        BY <1>10, <4>5, <4>6, Zenon DEF StripRunIdleHeader
    <3>5. CASE h = 4
      <4>1. PICK p : p = Len(payload)
        OBVIOUS
      <4>2. p = 4 + s /\ p # r /\ p \in Nat
        BY <1>14, <3>2, <3>5, <4>1
      <4>3. payload \in ImageOf(p)
        BY <1>12, <4>1, <4>2, ImageIsSeq, Zenon
      <4>4. StripRunIdleHeader(payload) = SubSeq(payload, 4 + 1, p)
        BY <1>10, <4>1, <4>2, Zenon DEF StripRunIdleHeader, RunIdleHeader
      <4>5. StripRunIdleHeader(payload) = Piece(payload, 4, s)
        BY <4>2, <4>4, Zenon DEF Piece
      <4>6. 4 + s <= p /\ 2 + p <= m
        BY <1>2, <3>1, <3>5, <4>2
      <4>7. 4 \in Nat /\ 2 \in Nat /\ p \in Nat
        BY <4>2
      <4>8. /\ Piece(payload, 4, s) \in ImageOf(s)
            /\ \A i \in 1 .. s : Piece(payload, 4, s)[i] = payload[4 + i]
        BY <4>3, <4>6, <4>7, PieceOfImage
      <4>9. payload = Piece(data, 2, p)
        <5>1. m = 2 + p
          BY <1>2, <3>1, <3>5, <4>2
        <5>2. QED
          BY <1>11, <5>1, Zenon DEF Piece
      <4>10. \A i \in 1 .. p : payload[i] = data[2 + i]
        <5>1. data \in ImageOf(m)
          BY <1>9
        <5>2. \A i \in 1 .. p : Piece(data, 2, p)[i] = data[2 + i]
          BY <4>6, <4>7, <5>1, PieceOfImage
        <5>3. QED
          BY <4>9, <5>2, Zenon
      <4>11. ASSUME NEW i \in 1 .. s PROVE payload[4 + i] = img[i]
        <5>1. PICK j \in 1 .. p : j = 4 + i /\ 2 + j = (2 + h) + i
          BY <3>5, <4>2
        <5>2. payload[j] = data[2 + j]
          BY <4>10, Zenon
        <5>3. QED
          BY <3>3, <5>1, <5>2, Zenon
      <4>12. PICK piece : piece = Piece(payload, 4, s)
        OBVIOUS
      <4>13. \A i \in 1 .. s : piece[i] = img[i]
        BY <4>8, <4>11, <4>12, Zenon
      <4>14. piece \in ImageOf(s)
        BY <4>8, <4>12, Zenon
      <4>15. piece = img
        BY <4>13, <4>14 DEF ImageOf
      <4>16. QED
        BY <4>5, <4>12, <4>15, Zenon
    <3>6. QED
      BY <3>4, <3>5
  <2>4. QED
    BY <2>2, <2>3
<1>15. QED
  BY <1>10, <1>13, <1>14, Zenon

----------------------------------------------------------------------------
(* What is said stays true of the image, of the frame under way and of what*)
(* was applied last.                                                       *)

\* What is said of the image is true of it.
ImageInv ==
  /\ Means(Sender, Groups, said, image)
  /\ direction = "output" => DOMAIN said = DOMAIN Groups

\* And the frame under way carries an image that says what it says it does.
FrameInv ==
  datagram.sent =>
    /\ datagram.items = CyclicItems(OwnId, datagram.image)
    /\ Means(Sender, Groups, datagram.said, datagram.image)

\* What was applied is an image, and with one map at both ends the one that was sent.
LatestInv ==
  latest.sent =>
    /\ latest.image \in ImageOf(Receiver.size_bytes)
    /\ scanner_map = server_map => Means(Receiver, Groups, latest.said, latest.image)

\* The three of them, with what was loaded.
ValueInv ==
  /\ connection \in {"closed", "open", "refused"}
  /\ MapsLoaded /\ ImageInv /\ FrameInv /\ LatestInv

\* No image has been written yet.
LEMMA ValueInit ==
  ASSUME InitWire
  PROVE  ValueInv
PROOF
<1>1. MapsLoaded
  <2>1. PICK setup \in {s \in Setups : {s.scanner, s.server} \subseteq Loadable} :
          scanner_map = Load(Specs[setup.scanner]) /\ server_map = Load(Specs[setup.server])
    BY DEF InitWire
  <2>2. setup.scanner \in Loadable /\ setup.server \in Loadable
    BY <2>1
  <2>3. direction \in {"output", "input"}
    BY DEF InitWire
  <2>4. QED
    BY <2>1, <2>2, <2>3, Zenon DEF MapsLoaded
<1>2. ImageInv
  <2>1. image = Zeros(Sender.size_bytes) /\ said = Blank
    BY DEF InitWire
  <2>2. QED
    BY <1>1, <2>1, BlankMeans, Zenon DEF ImageInv
<1>3. ~datagram.sent /\ ~latest.sent
  BY DEF InitWire, Nothing
<1>4. connection \in {"closed", "open", "refused"}
  BY DEF InitWire
<1>5. QED
  BY <1>1, <1>2, <1>3, <1>4, Zenon DEF ValueInv, FrameInv, LatestInv

\* The ends keep their maps.
LEMMA MapsKept ==
  ASSUME UNCHANGED maps
  PROVE  /\ MapsLoaded' = MapsLoaded /\ direction' = direction
         /\ Groups' = Groups /\ Sender' = Sender /\ Receiver' = Receiver
         /\ scanner_map' = scanner_map /\ server_map' = server_map
PROOF
<1>1. scanner_map' = scanner_map /\ server_map' = server_map /\ direction' = direction
  BY DEF maps
<1>2. Groups' = Groups /\ Sender' = Sender /\ Receiver' = Receiver
  BY <1>1 DEF Groups, Sender, Receiver, AssemblyOf
<1>3. MapsLoaded' = MapsLoaded
  BY <1>1 DEF MapsLoaded
<1>4. QED
  BY <1>1, <1>2, <1>3

\* What is said stays with the image, the frame and what was applied.
LEMMA ImageKept ==
  ASSUME UNCHANGED maps, UNCHANGED <<image, said>>, ImageInv
  PROVE  ImageInv'
  BY MapsKept DEF ImageInv

\* The same for the frame under way.
LEMMA FrameKept ==
  ASSUME UNCHANGED maps, UNCHANGED datagram, FrameInv
  PROVE  FrameInv'
PROOF
<1>1. \A id, img : CyclicItems(id, img)' = CyclicItems(id, img)
  BY MapsKept DEF CyclicItems
<1>2. QED
  BY MapsKept, <1>1 DEF FrameInv, CyclicItems

\* The same for what was applied last.
LEMMA LatestKept ==
  ASSUME UNCHANGED maps, UNCHANGED latest, LatestInv
  PROVE  LatestInv'
  BY MapsKept DEF LatestInv

\* A connection that is closed leaves an image of zeros, and no frames.
LEMMA ValueHandled ==
  ASSUME ValueInv, HandleMessage
  PROVE  ValueInv'
PROOF
<1>1. /\ MapsLoaded /\ ImageInv /\ FrameInv /\ LatestInv
      /\ connection \in {"closed", "open", "refused"}
  BY Zenon DEF ValueInv
<1>2. UNCHANGED maps
  BY DEF HandleMessage
<1>3. MapsLoaded'
  BY <1>1, <1>2, MapsKept
<1>4. connection' \in {"closed", "open", "refused"}
  BY <1>1 DEF HandleMessage, Outcome
<1>5. CASE sent[Buffered] = "close"
  <2>1. /\ image' = Zeros(Sender.size_bytes) /\ said' = Blank
        /\ datagram' = Nothing /\ latest' = Nothing
    BY <1>5, Zenon DEF HandleMessage, Forgotten
  <2>2. ImageInv'
    BY <1>1, <1>2, <2>1, MapsKept, BlankMeans DEF ImageInv
  <2>3. ~datagram'.sent /\ ~latest'.sent
    BY <2>1 DEF Nothing
  <2>4. QED
    BY <1>3, <1>4, <2>2, <2>3, Zenon DEF ValueInv, FrameInv, LatestInv
<1>6. CASE sent[Buffered] # "close"
  <2>1. UNCHANGED <<image, said>> /\ UNCHANGED datagram /\ UNCHANGED latest
    BY <1>6, Zenon DEF HandleMessage, content
  <2>2. ImageInv' /\ FrameInv' /\ LatestInv'
    BY <1>1, <1>2, <2>1, ImageKept, FrameKept, LatestKept
  <2>3. QED
    BY <1>3, <1>4, <2>2, Zenon DEF ValueInv
<1>7. QED
  BY <1>5, <1>6

\* A group that is written.
LEMMA ValueWritten ==
  ASSUME MapsLoaded, ImageInv, WriteGroup
  PROVE  ImageInv'
PROOF
<1>1. direction = "output" /\ UNCHANGED maps
  BY DEF WriteGroup
<1>2. PICK group \in DOMAIN OutputGroups : \E values \in GroupValues[group] :
        /\ Encodable(Sender, OutputGroups[group], values, image)
        /\ image' = Encode(Sender, OutputGroups[group], values, image)
        /\ said' = [said EXCEPT ![group] =
                      values \o SubSeq(@, Len(values) + 1, Len(@))]
  BY Zenon DEF WriteGroup
<1>3. PICK values \in GroupValues[group] :
        /\ Encodable(Sender, OutputGroups[group], values, image)
        /\ image' = Encode(Sender, OutputGroups[group], values, image)
        /\ said' = [said EXCEPT ![group] =
                      values \o SubSeq(@, Len(values) + 1, Len(@))]
  BY <1>2, Zenon
<1>4. Groups = OutputGroups
  BY <1>1 DEF Groups
<1>5. HasGroups(Sender, OutputGroups) /\ Suit(Sender, OutputGroups[group], values)
  BY <1>1, <1>4, SidesSuit
<1>6. Means(Sender, OutputGroups, said, image) /\ DOMAIN said = DOMAIN OutputGroups
  BY <1>1, <1>4, Zenon DEF ImageInv
<1>7. Means(Sender, OutputGroups, said', image')
  BY <1>3, <1>5, <1>6, WriteMeans, Zenon
<1>8. DOMAIN said' = DOMAIN said
  BY <1>3, Zenon
<1>9. Sender' = Sender /\ Groups' = OutputGroups
  BY <1>1, <1>4, MapsKept
<1>10. QED
  BY <1>6, <1>7, <1>8, <1>9, Zenon DEF ImageInv

\* An input assembly that is built.
LEMMA ValueBuilt ==
  ASSUME MapsLoaded, BuildInput
  PROVE  ImageInv'
PROOF
<1>1. direction = "input" /\ UNCHANGED maps
  BY DEF BuildInput
<1>2. PICK values \in InputValues : said' = values /\ image' = InputImage(values)
  BY Zenon DEF BuildInput
<1>3. direction # "output" /\ Groups = InputGroups
  BY <1>1 DEF Groups
<1>4. HasGroups(Sender, InputGroups) /\ InputFits(Sender, values)
  BY <1>1, <1>3, SidesSuit
<1>5. Means(Sender, InputGroups, said', image')
  BY <1>2, <1>4, InputMeans, Zenon
<1>6. Sender' = Sender /\ Groups' = InputGroups /\ direction' # "output"
  BY <1>1, <1>3, MapsKept
<1>7. QED
  BY <1>5, <1>6, Zenon DEF ImageInv

\* A frame that is sent carries the image.
LEMMA ValueSent ==
  ASSUME ImageInv, SendFrame
  PROVE  FrameInv'
PROOF
<1>1. UNCHANGED maps
  BY DEF SendFrame
<1>2. /\ datagram'.items = CyclicItems(OwnId, image)
      /\ datagram'.image = image /\ datagram'.said = said
  BY DEF SendFrame
<1>3. direction' = direction
  BY <1>1, MapsKept
<1>4. datagram'.items = CyclicItems(OwnId, datagram.image)'
  BY <1>2, <1>3 DEF CyclicItems
<1>5. Means(Sender, Groups, said, image)
  BY Zenon DEF ImageInv
<1>6. Means(Sender', Groups', datagram'.said, datagram'.image)
  BY <1>1, <1>2, <1>5, MapsKept
<1>7. QED
  BY <1>4, <1>6, Zenon DEF FrameInv

\* A frame that is received.
LEMMA ValueReceived ==
  ASSUME MapsLoaded, FrameInv, ReceiveFrame
  PROVE  LatestInv'
PROOF
<1>1. UNCHANGED maps /\ datagram.sent
  BY DEF ReceiveFrame
<1>2. PICK items \in Arrivals :
        /\ HasItem(items, "sequenced_address") /\ HasItem(items, "connected_data")
        /\ Item(items, "sequenced_address").data[1] = OwnId
        /\ LET data == Item(items, "connected_data").data
               payload == SubSeq(data, SequenceCount + 1, Len(data))
           IN /\ UsableSize(payload)
              /\ latest' = [sent |-> TRUE, image |-> StripRunIdleHeader(payload),
                            said |-> datagram.said]
  BY Zenon DEF ReceiveFrame
<1>3. PICK data, img : data = Item(items, "connected_data").data /\ img = datagram.image
  OBVIOUS
<1>4. UsableSize(PayloadOf(data))
  BY <1>2, <1>3, Zenon DEF PayloadOf
<1>5. latest' = [sent |-> TRUE, image |-> StripRunIdleHeader(PayloadOf(data)),
                 said |-> datagram.said]
  BY <1>2, <1>3, Zenon DEF PayloadOf
<1>6. datagram.items = CyclicItems(OwnId, img) /\ Means(Sender, Groups, datagram.said, img)
  BY <1>1, <1>3, Zenon DEF FrameInv
<1>7. PICK s \in Nat : s = Sender.size_bytes
  BY SidesSuit
<1>8. img \in ImageOf(s) /\ Receiver.size_bytes \in Nat
  <2>1. Receiver.size_bytes \in Nat
    BY SidesSuit
  <2>2. QED
    BY <1>6, <1>7, <2>1, Zenon DEF Means
<1>9. data \in {Content(img),
                SubSeq(Content(img), 1, Len(Content(img)) - RunIdleHeader - 1)}
  BY <1>2, <1>3, <1>6, FrameArrived, Zenon
<1>10. PICK stripped : stripped = StripRunIdleHeader(PayloadOf(data))
  OBVIOUS
<1>11. /\ stripped \in ImageOf(Receiver.size_bytes)
       /\ Receiver.size_bytes = s => stripped = img
  BY <1>4, <1>8, <1>9, <1>10, PayloadSays, Zenon
<1>12. latest'.image = stripped /\ latest'.said = datagram.said
  BY <1>5, <1>10
<1>13. scanner_map = server_map => Means(Receiver, Groups, latest'.said, latest'.image)
  <2>1. scanner_map = server_map => Receiver = Sender
    BY SidesSuit
  <2>2. QED
    BY <1>6, <1>7, <1>11, <1>12, <2>1, Zenon
<1>14. QED
  BY <1>1, <1>11, <1>12, <1>13, MapsKept DEF LatestInv

\* Every step keeps what is said.
LEMMA ValueNext ==
  ASSUME ValueInv, [NextWire]_wireVars
  PROVE  ValueInv'
PROOF
<1>1. /\ MapsLoaded /\ ImageInv /\ FrameInv /\ LatestInv
      /\ connection \in {"closed", "open", "refused"}
  BY Zenon DEF ValueInv
<1>2. ASSUME UNCHANGED maps, UNCHANGED connection, ImageInv', FrameInv', LatestInv'
      PROVE  ValueInv'
  <2>1. MapsLoaded'
    BY <1>1, <1>2, MapsKept
  <2>2. connection' \in {"closed", "open", "refused"}
    BY <1>1, <1>2
  <2>3. QED
    BY <1>2, <2>1, <2>2, Zenon DEF ValueInv
<1>3. ASSUME UNCHANGED maps, UNCHANGED connection, UNCHANGED content, UNCHANGED datagram,
             UNCHANGED latest
      PROVE  ValueInv'
  <2>1. UNCHANGED <<image, said>>
    BY <1>3 DEF content
  <2>2. ImageInv' /\ FrameInv' /\ LatestInv'
    BY <1>1, <1>3, <2>1, ImageKept, FrameKept, LatestKept
  <2>3. QED
    BY <1>2, <1>3, <2>2
<1>4. CASE SendMessage
  BY <1>3, <1>4 DEF SendMessage
<1>5. CASE ReceiveBytes
  BY <1>3, <1>5 DEF ReceiveBytes
<1>6. CASE HandleMessage
  BY <1>6, ValueHandled
<1>7. ASSUME UNCHANGED maps, UNCHANGED session, UNCHANGED datagram, UNCHANGED latest, ImageInv'
      PROVE  ValueInv'
  <2>1. FrameInv' /\ LatestInv'
    BY <1>1, <1>7, FrameKept, LatestKept
  <2>2. UNCHANGED connection
    BY <1>7 DEF session
  <2>3. QED
    BY <1>2, <1>7, <2>1, <2>2
<1>8. CASE WriteGroup
  <2>1. ImageInv'
    BY <1>1, <1>8, ValueWritten
  <2>2. QED
    BY <1>7, <1>8, <2>1 DEF WriteGroup
<1>9. CASE RefuseGroup
  <2>1. UNCHANGED <<image, said>> /\ UNCHANGED maps
    BY <1>9 DEF RefuseGroup
  <2>2. ImageInv'
    BY <1>1, <2>1, ImageKept
  <2>3. QED
    BY <1>7, <1>9, <2>2 DEF RefuseGroup
<1>10. CASE BuildInput
  <2>1. ImageInv'
    BY <1>1, <1>10, ValueBuilt
  <2>2. QED
    BY <1>7, <1>10, <2>1 DEF BuildInput
<1>11. CASE SendFrame
  <2>1. /\ UNCHANGED maps /\ UNCHANGED connection /\ UNCHANGED <<image, said>>
        /\ UNCHANGED latest
    BY <1>11 DEF SendFrame, session, content
  <2>2. ImageInv' /\ LatestInv'
    BY <1>1, <2>1, ImageKept, LatestKept
  <2>3. FrameInv'
    BY <1>1, <1>11, ValueSent
  <2>4. QED
    BY <1>2, <2>1, <2>2, <2>3
<1>12. CASE ReceiveFrame
  <2>1. /\ UNCHANGED maps /\ UNCHANGED connection /\ UNCHANGED <<image, said>>
        /\ UNCHANGED datagram
    BY <1>12 DEF ReceiveFrame, session, content
  <2>2. ImageInv' /\ FrameInv'
    BY <1>1, <2>1, ImageKept, FrameKept
  <2>3. LatestInv'
    BY <1>1, <1>12, ValueReceived
  <2>4. QED
    BY <1>2, <2>1, <2>2, <2>3
<1>13. CASE UNCHANGED wireVars
  BY <1>3, <1>13 DEF wireVars, session, maps
<1>14. QED
  BY <1>4, <1>5, <1>6, <1>8, <1>9, <1>10, <1>11, <1>12, <1>13 DEF NextWire

\* Images have the size of their assembly.
LEMMA WireTypeHolds ==
  ASSUME ValueInv, StreamInv
  PROVE  WireTypeOK
PROOF
<1>1. /\ MapsLoaded /\ ImageInv /\ LatestInv
      /\ connection \in {"closed", "open", "refused"}
  BY Zenon DEF ValueInv
<1>2. Sender.size_bytes \in Nat /\ Receiver.size_bytes \in Nat
  BY <1>1, SidesSuit
<1>3. first <= received /\ received <= Size(sent)
  BY DEF StreamInv
<1>4. image \in ImageOf(Sender.size_bytes)
  BY <1>1, Zenon DEF ImageInv, Means
<1>5. image \in Seq(Byte) /\ Len(image) = Sender.size_bytes
  BY <1>2, <1>4, ImageIsSeq, Zenon
<1>6. latest.sent =>
        latest.image \in Seq(Byte) /\ Len(latest.image) = Receiver.size_bytes
  BY <1>1, <1>2, ImageIsSeq, Zenon DEF LatestInv
<1>7. QED
  BY <1>1, <1>3, <1>5, <1>6, Zenon DEF WireTypeOK

\* The names that decode_position converts are the first of the position.
LEMMA ConfigurationPlaces ==
  ASSUME MapsLoaded, NEW group \in DOMAIN Groups, NEW k \in DOMAIN Groups[group]
  PROVE  Groups[group][k] \in {Configuration[i] : i \in DOMAIN Configuration}
           <=> group = "position" /\ k <= Len(Configuration)
PROOF
<1>1. CASE direction = "output"
  <2>1. Groups = OutputGroups
    BY <1>1 DEF Groups
  <2>2. group # "position"
    BY <2>1 DEF OutputGroups
  <2>3. Groups[group][k] \notin {Configuration[i] : i \in DOMAIN Configuration}
    BY <2>1, GroupsAssumption, Zenon
  <2>4. QED
    BY <2>2, <2>3
<1>2. CASE direction # "output"
  <2>1. Groups = InputGroups
    BY <1>2 DEF Groups
  <2>2. PICK position : position = InputGroups["position"]
    OBVIOUS
  <2>3. "position" \in DOMAIN InputGroups
    BY DEF InputGroups
  <2>4. Len(position) \in Nat /\ DOMAIN position = 1 .. Len(position)
    BY <2>1, <2>2, <2>3, SidesSuit, Zenon DEF HasGroups, HasFields
  <2>5. DOMAIN Configuration = 1 .. 4 /\ Len(Configuration) = 4
    BY DEF Configuration
  <2>6. 4 <= Len(position) /\ SubSeq(Configuration, 1, 4) = SubSeq(position, 1, 4)
    BY <2>2, <2>5, GroupsAssumption, Zenon DEF IsPrefix
  <2>7. \A i \in 1 .. 4 : position[i] = Configuration[i]
    <3>1. 4 \in Nat
      OBVIOUS
    <3>2. QED
      BY <2>6, <3>1, FirstNames, Zenon
  <2>8. \A i \in 1 .. 4 : i \in DOMAIN position
    BY <2>4, <2>6
  <2>9. ASSUME NEW i \in 1 .. 4, Groups[group][k] = Configuration[i]
        PROVE  group = "position" /\ k <= 4
    <3>1. InputGroups[group][k] = InputGroups["position"][i]
      BY <2>1, <2>2, <2>7, <2>9, Zenon
    <3>2. group = "position" /\ k = i
      <4>1. NoFieldTwice(InputGroups)
        BY GroupsAssumption
      <4>2. group \in DOMAIN InputGroups /\ k \in DOMAIN InputGroups[group]
        BY <2>1, Zenon
      <4>3. i \in DOMAIN InputGroups["position"]
        BY <2>2, <2>8, Zenon
      <4>4. PICK p \in DOMAIN InputGroups : p = "position"
        BY <2>3
      <4>5. InputGroups[group][k] = InputGroups[p][i] /\ i \in DOMAIN InputGroups[p]
        BY <3>1, <4>3, <4>4
      <4>6. group = p /\ k = i
        BY <4>1, <4>2, <4>5 DEF NoFieldTwice
      <4>7. QED
        BY <4>4, <4>6, Zenon
    <3>3. QED
      BY <3>2
  <2>10. ASSUME group = "position", k <= 4
         PROVE  Groups[group][k] \in {Configuration[i] : i \in DOMAIN Configuration}
    <3>1. k \in 1 .. Len(position)
      BY <2>1, <2>2, <2>4, <2>10
    <3>2. k \in 1 .. 4
      BY <2>4, <2>10, <3>1
    <3>3. Groups[group][k] = Configuration[k]
      BY <2>1, <2>2, <2>7, <2>10, <3>2, Zenon
    <3>4. QED
      BY <2>5, <3>2, <3>3, Zenon
  <2>11. QED
    BY <2>5, <2>9, <2>10, Zenon
<1>3. QED
  BY <1>1, <1>2

\* What is applied decodes to what was said.
LEMMA SaidIsReadHolds ==
  ASSUME ValueInv
  PROVE  SaidIsRead
PROOF
<1>1. SUFFICES ASSUME latest.sent, scanner_map = server_map, NEW group \in DOMAIN Groups
               PROVE  Decode(Receiver, Groups[group], latest.image)
                        = [k \in DOMAIN latest.said[group] |->
                             IF group = "position" /\ k <= Len(Configuration)
                             THEN FromRaw(latest.said[group][k]) ELSE latest.said[group][k]]
  BY Zenon DEF SaidIsRead
<1>2. MapsLoaded /\ Means(Receiver, Groups, latest.said, latest.image)
  BY <1>1, Zenon DEF ValueInv, LatestInv
<1>3. PICK names, values, converted :
        /\ names = Groups[group] /\ values = latest.said[group]
        /\ converted = {Configuration[i] : i \in DOMAIN Configuration}
  OBVIOUS
<1>4. Listed(values, Len(names)) /\ \A k \in DOMAIN names :
        Read(Receiver, latest.image, names[k]) = <<values[k]>>
  BY <1>2, <1>3, Zenon DEF Means
<1>5. HasGroups(Receiver, Groups)
  BY <1>1, <1>2, SidesSuit
<1>6. Len(names) \in Nat /\ DOMAIN names = 1 .. Len(names)
  BY <1>3, <1>5, Zenon DEF HasGroups, HasFields
<1>7. DOMAIN values = DOMAIN names
  BY <1>4, <1>6, ListedSeq, Zenon
<1>8. ASSUME NEW k \in DOMAIN names
      PROVE  ReadMany(Receiver, latest.image, names)[k][1] = values[k]
  <2>1. ReadMany(Receiver, latest.image, names)[k] = <<values[k]>>
    BY <1>4, Zenon DEF ReadMany
  <2>2. <<values[k]>>[1] = values[k]
    OBVIOUS
  <2>3. QED
    BY <2>1, <2>2, Zenon
<1>9. \A k \in DOMAIN names :
        names[k] \in converted <=> group = "position" /\ k <= Len(Configuration)
  BY <1>2, <1>3, ConfigurationPlaces, Zenon
<1>10. PICK read : read = ReadMany(Receiver, latest.image, names)
  OBVIOUS
<1>11. Decode(Receiver, names, latest.image)
         = [k \in DOMAIN names |->
              IF names[k] \in converted THEN FromRaw(read[k][1]) ELSE read[k][1]]
  BY <1>3, <1>10, Zenon DEF Decode
<1>12. \A k \in DOMAIN names :
         (IF names[k] \in converted THEN FromRaw(read[k][1]) ELSE read[k][1])
           = (IF group = "position" /\ k <= Len(Configuration)
              THEN FromRaw(values[k]) ELSE values[k])
  BY <1>8, <1>9, <1>10, Zenon
<1>13. [k \in DOMAIN names |->
          IF names[k] \in converted THEN FromRaw(read[k][1]) ELSE read[k][1]]
         = [k \in DOMAIN names |->
              IF group = "position" /\ k <= Len(Configuration)
              THEN FromRaw(values[k]) ELSE values[k]]
  BY <1>12, Zenon
<1>14. QED
  BY <1>3, <1>7, <1>11, <1>13, Zenon

\* Every image has the size of the assembly it is an image of: a frame of another
\* size, a part of one or one of an earlier connection is never applied, and the
\* buffer of the session holds no more than was sent (build_output_frame,
\* parse_input_frame, strip_run_idle_header, _session_loop).
THEOREM ImagesHaveTheirSize == WireSpec => []WireTypeOK
PROOF
<1>1. InitWire => ValueInv /\ StreamInv
  BY ValueInit, StreamInit
<1>2. ValueInv /\ StreamInv /\ [NextWire]_wireVars => (ValueInv /\ StreamInv)'
  BY ValueNext, StreamNext
<1>3. ValueInv /\ StreamInv => WireTypeOK
  BY WireTypeHolds
<1>4. QED
  BY <1>1, <1>2, <1>3, PTL DEF WireSpec

\* With one I/O map at both ends, what is applied at the other end decodes to what
\* was last said of every group before the frame was sent, whatever was written in
\* whatever order: for any layout that is accepted and has the fields, in either
\* order of the bytes (the encode_ and decode_ methods of IoMapV1).
THEOREM WhatIsSaidIsRead == WireSpec => []SaidIsRead
PROOF
<1>1. InitWire => ValueInv
  BY ValueInit
<1>2. ValueInv /\ [NextWire]_wireVars => ValueInv'
  BY ValueNext
<1>3. ValueInv => SaidIsRead
  BY SaidIsReadHolds
<1>4. QED
  BY <1>1, <1>2, <1>3, PTL DEF WireSpec

=============================================================================
