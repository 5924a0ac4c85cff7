-------------------------- MODULE MgHttpStreamFraming --------------------------
(***************************************************************************)
(* What the parsers of MgHttpStream find in a buffer that holds a part of  *)
(* the stream of a session, as it came or with chunks or fragments joined: *)
(* a chunk, a frame or a request that was read in full, with its data and  *)
(* nothing else, and none where a byte is missing.  Nothing here depends   *)
(* on the variables; s is a session, k a message of it, i and j are pieces *)
(* of the message, r is the number of bytes read.                          *)
(***************************************************************************)
EXTENDS MgHttpStream, SequenceTheorems, WellFoundedInduction, TLAPS

----------------------------------------------------------------------------
\* What recv_mbuf may hold.

\* Where piece i of message k ends in the stream.
At(s, k, i) == s.starts[k] + Place(s.msgs[k], i)

\* What recv_mbuf holds.
Letters == Bytes \X (0..255) \X Nat

\* What the code keeps in front of u reassembled bytes of message k.
Gathered(k, u) == <<<<"op", 0, k>>>> \o Cell(u)

\* What the buffer b holds when r bytes have been read and messages before
\* message k have been taken: the stream from there on ...
Untouched(s, k, r, b) == s.starts[k] <= r /\ b = Wire(s, s.starts[k], r)

\* ... or its headers and the payload of chunks up to i, from byte t on ...
HasChunks(s, k, i, t, r, b) ==
    /\ i \in 0..Len(s.msgs[k].ends) /\ At(s, k, i) <= r
    /\ t \in Nat /\ t <= Upto(s.msgs[k], i)
    /\ b = (<<<<"head", 0, k>>>> \o Payload(s.msgs[k], k, t, Upto(s.msgs[k], i)))
           \o Wire(s, At(s, k, i), r)

\* ... or fragments up to i, reassembled, and the stream from there on.
Held(s, k, i) ==
    IF i = 0 THEN <<>> ELSE Gathered(k, Upto(s.msgs[k], i)) \o Payload(s.msgs[k], k, 0, Upto(s.msgs[k], i))

\* The fragments of message k up to i, and the stream from there on.
HasFrames(s, k, i, r, b) ==
    /\ i \in 0..(Len(s.msgs[k].ends) - 1) /\ At(s, k, i) <= r
    /\ b = Held(s, k, i) \o Wire(s, At(s, k, i), r)

----------------------------------------------------------------------------
\* Sessions, as the assumption has them.

\* A set of naturals has a least element.
LEMMA Least ==
  ASSUME NEW T \in SUBSET Nat, T # {}
  PROVE  \E x \in T : \A y \in T : x <= y
<1> DEFINE R == OpToRel(<, Nat)
<1>1. \A x, y \in Nat : <<y, x>> \in R <=> y < x
  BY DEF OpToRel
<1>2. IsWellFoundedOn(R, Nat)
  BY NatLessThanWellFounded, Zenon
<1> HIDE DEF R
<1>3. PICK x \in T : \A y \in T : <<y, x>> \notin R
  BY <1>2, WFMin, Zenon
<1>4. ASSUME NEW y \in T PROVE x <= y
  <2>1. <<y, x>> \notin R
    BY <1>3
  <2>2. x \in Nat /\ y \in Nat
    OBVIOUS
  <2> QED BY <1>1, <2>1, <2>2
<1> QED BY <1>4

\* Message k of session s, as the assumption on sessions has it.
LEMMA Shape ==
  ASSUME NEW s \in Sessions, NEW k \in 1..Len(s.msgs)
  PROVE  /\ s.msgs[k] \in Messages
         /\ s.starts[k] \in Nat /\ s.starts[k + 1] \in Nat
         /\ Proper(s, k)
<1>1. s.msgs \in Seq(Messages) /\ DOMAIN s.msgs = 1..Len(s.msgs)
  BY SessionsAssumption
<1>2. s.starts \in Seq(Nat) /\ Len(s.starts) = Len(s.msgs) + 1
  BY SessionsAssumption
<1>3. Len(s.msgs) \in Nat
  BY <1>1
<1> QED BY <1>1, <1>2, <1>3, SessionsAssumption, SMTT(30)

\* Numbers of session s.
LEMMA Counts ==
  ASSUME NEW s \in Sessions
  PROVE  /\ Len(s.msgs) \in Nat /\ DOMAIN s.msgs = 1..Len(s.msgs)
         /\ s.starts[1] = 0
         /\ \A k \in 1..(Len(s.msgs) + 1) : s.starts[k] \in Nat
<1>1. s.msgs \in Seq(Messages) /\ s.starts \in Seq(Nat) /\ Len(s.starts) = Len(s.msgs) + 1
  BY SessionsAssumption
<1> QED BY <1>1, SessionsAssumption

\* Numbers of message k.
LEMMA Upward ==
  ASSUME NEW s \in Sessions, NEW k \in 1..Len(s.msgs), NEW m, m = s.msgs[k]
  PROVE  /\ Len(m.ends) \in Nat \ {0} /\ DOMAIN m.ends = 1..Len(m.ends)
         /\ \A i \in 0..Len(m.ends) : Upto(m, i) \in Nat
         /\ \A i, j \in 0..Len(m.ends) : i <= j => Upto(m, i) <= Upto(m, j)
         /\ Size(m) \in Nat /\ m.from \in Nat /\ m.from + Size(m) <= 255
         /\ m.kind \in Http \cup Data
         /\ Upto(m, 0) = 0
<1>1. m \in Messages /\ Proper(s, k)
  BY Shape
<1>2. m.ends \in Seq(Nat)
  BY <1>1 DEF Messages
<1>3. Len(m.ends) \in Nat \ {0} /\ DOMAIN m.ends = 1..Len(m.ends)
  BY <1>1, <1>2 DEF Proper
<1>4. \A i \in 0..Len(m.ends) : Upto(m, i) \in Nat
  BY <1>2, <1>3 DEF Upto
<1>5. \A i, j \in 0..Len(m.ends) : i <= j => Upto(m, i) <= Upto(m, j)
  BY <1>1 DEF Proper
<1>6. m.from + Size(m) <= 255
  BY <1>1 DEF Proper
<1>7. m.from \in Nat /\ m.kind \in Http \cup Data
  BY <1>1 DEF Messages
<1> QED BY <1>3, <1>4, <1>5, <1>6, <1>7 DEF Size, Upto

\* The pieces of a message follow each other.
LEMMA Places ==
  ASSUME NEW s \in Sessions, NEW k \in 1..Len(s.msgs), NEW m, m = s.msgs[k]
  PROVE  /\ \A i \in 0..Len(m.ends) : Place(m, i) \in Nat
         /\ \A i \in 0..Len(m.ends) :
              /\ m.kind \in Data => Place(m, i) = Upto(m, i) + 6 * i
              /\ m.kind = "chunked" => Place(m, i) = 1 + Upto(m, i) + 5 * i
              /\ m.kind \in Http /\ m.kind # "chunked" => Place(m, i) = 1 + Upto(m, i)
         /\ \A i, j \in 0..Len(m.ends) : i <= j => Place(m, i) <= Place(m, j)
         /\ Length(m) \in Nat \ {0}
         /\ m.kind \in Data => Place(m, 0) = 0
         /\ m.kind \in Http => Place(m, 0) = 1
<1> DEFINE n == Len(m.ends)
<1>1. /\ n \in Nat \ {0} /\ \A i \in 0..n : Upto(m, i) \in Nat
      /\ \A i, j \in 0..n : i <= j => Upto(m, i) <= Upto(m, j)
      /\ m.kind \in Http \cup Data /\ Upto(m, 0) = 0
  BY Upward
<1> HIDE DEF n
<1>2. ASSUME NEW i \in 0..n
      PROVE  /\ m.kind \in Data => Place(m, i) = Upto(m, i) + 6 * i
             /\ m.kind = "chunked" => Place(m, i) = 1 + Upto(m, i) + 5 * i
             /\ m.kind \in Http /\ m.kind # "chunked" => Place(m, i) = 1 + Upto(m, i)
  BY DEF Place, Data, Http
<1>3. ASSUME NEW i \in 0..n PROVE Place(m, i) \in Nat
  <2>1. Upto(m, i) \in Nat /\ i \in Nat
    BY <1>1
  <2> QED BY <1>1, <1>2, <2>1, SMTT(30)
<1>4. ASSUME NEW i \in 0..n, NEW j \in 0..n, i <= j PROVE Place(m, i) <= Place(m, j)
  <2>1. Upto(m, i) \in Nat /\ i \in Nat /\ Upto(m, j) \in Nat /\ j \in Nat /\ Upto(m, i) <= Upto(m, j)
    BY <1>1, <1>4
  <2>2. CASE m.kind \in Data
    BY <1>2, <1>4, <2>1, <2>2
  <2>3. CASE m.kind = "chunked"
    BY <1>2, <1>4, <2>1, <2>3
  <2>4. CASE m.kind \in Http /\ m.kind # "chunked"
    BY <1>2, <1>4, <2>1, <2>4
  <2> QED BY <1>1, <2>2, <2>3, <2>4
<1>5. /\ m.kind \in Data => Place(m, 0) = 0
      /\ m.kind \in Http => Place(m, 0) = 1
  <2>1. 0 \in 0..n
    BY <1>1
  <2> QED BY <1>1, <1>2, <2>1
<1>6. Length(m) \in Nat \ {0}
  <2>1. n \in 0..n /\ n \in Nat /\ n # 0 /\ Upto(m, n) \in Nat
    BY <1>1
  <2>2. Place(m, n) # 0
    <3>1. CASE m.kind \in Data
      BY <1>2, <2>1, <3>1
    <3>2. CASE m.kind = "chunked"
      BY <1>2, <2>1, <3>2
    <3>3. CASE m.kind \in Http /\ m.kind # "chunked"
      BY <1>2, <2>1, <3>3
    <3> QED BY <1>1, <3>1, <3>2, <3>3
  <2> QED BY <1>3, <2>1, <2>2 DEF Length, n
<1> QED BY <1>2, <1>3, <1>4, <1>5, <1>6 DEF n

\* A later message starts behind an earlier one.
LEMMA Starts ==
  ASSUME NEW s \in Sessions, NEW j \in 1..(Len(s.msgs) + 1), NEW k \in 1..(Len(s.msgs) + 1), j < k
  PROVE  s.starts[j] < s.starts[k]
<1> DEFINE T == {i \in Nat : i \in (j + 1)..(Len(s.msgs) + 1) /\ ~(s.starts[j] < s.starts[i])}
<1>1. Len(s.msgs) \in Nat /\ \A i \in 1..(Len(s.msgs) + 1) : s.starts[i] \in Nat
  BY Counts
<1>2. \A i \in 1..Len(s.msgs) : s.starts[i] < s.starts[i + 1]
  <2> TAKE i \in 1..Len(s.msgs)
  <2>1. s.starts[i + 1] = s.starts[i] + Length(s.msgs[i])
    BY Shape DEF Proper
  <2>2. Length(s.msgs[i]) \in Nat \ {0}
    BY Places
  <2> QED BY <1>1, <2>1, <2>2
<1>3. T = {}
  <2> SUFFICES ASSUME T # {} PROVE FALSE
    OBVIOUS
  <2>1. PICK i \in T : \A x \in T : i <= x
    BY Least
  <2>2. i \in (j + 1)..(Len(s.msgs) + 1) /\ ~(s.starts[j] < s.starts[i])
    BY <2>1
  <2>3. i - 1 \in 1..Len(s.msgs) /\ s.starts[i - 1] \in Nat /\ s.starts[j] \in Nat
    BY <1>1, <2>2
  <2>4. s.starts[i - 1] < s.starts[i] /\ s.starts[i] \in Nat
    <3> DEFINE h == i - 1
    <3>1. h \in 1..Len(s.msgs) /\ h + 1 = i
      BY <2>2, <2>3
    <3> HIDE DEF h
    <3>2. s.starts[h] < s.starts[h + 1]
      BY <1>2, <3>1
    <3> QED BY <1>1, <2>2, <3>1, <3>2 DEF h
  <2>5. CASE i = j + 1
    <3>1. i - 1 = j
      BY <2>2, <2>5
    <3> QED BY <2>2, <2>4, <3>1
  <2>6. CASE i # j + 1
    <3>1. i - 1 \in (j + 1)..(Len(s.msgs) + 1) /\ i - 1 \in Nat /\ ~(i <= i - 1)
      BY <1>1, <2>2, <2>6
    <3>2. i - 1 \notin T
      BY <2>1, <3>1
    <3>3. s.starts[j] < s.starts[i - 1]
      BY <3>1, <3>2
    <3> QED BY <2>2, <2>3, <2>4, <3>3
  <2> QED BY <2>5, <2>6
<1> QED BY <1>1, <1>3

----------------------------------------------------------------------------
\* Where bytes of the stream come from.

\* A number o above a.
LEMMA Offset ==
  ASSUME NEW a \in Nat, NEW o \in Nat, 0 < o, NEW q, q = a + o
  PROVE  q \in Nat /\ a < q /\ q - a = o
OBVIOUS

\* Byte q is of message k.
LEMMA MessageIs ==
  ASSUME NEW s \in Sessions, NEW k \in 1..Len(s.msgs), NEW q \in Nat,
         s.starts[k] < q, q <= s.starts[k + 1]
  PROVE  MessageOf(s, q) = k
<1>1. /\ Len(s.msgs) \in Nat /\ DOMAIN s.msgs = 1..Len(s.msgs)
      /\ \A j \in 1..(Len(s.msgs) + 1) : s.starts[j] \in Nat
  BY Counts
<1>2. ASSUME NEW j \in 1..Len(s.msgs), s.starts[j] < q, q <= s.starts[j + 1], j # k PROVE FALSE
  <2>1. /\ s.starts[j] \in Nat /\ s.starts[j + 1] \in Nat /\ s.starts[k] \in Nat /\ s.starts[k + 1] \in Nat
    BY <1>1
  <2>2. CASE j < k
    <3>1. j + 1 = k \/ s.starts[j + 1] < s.starts[k]
      BY <1>1, <2>2, Starts
    <3> QED BY <1>2, <2>1, <3>1
  <2>3. CASE k < j
    <3>1. k + 1 = j \/ s.starts[k + 1] < s.starts[j]
      BY <1>1, <2>3, Starts
    <3> QED BY <1>2, <2>1, <3>1
  <2> QED BY <1>1, <1>2, <2>2, <2>3
<1>3. k \in DOMAIN s.msgs /\ s.starts[k] < q /\ q <= s.starts[k + 1]
  BY <1>1
<1>4. \A j \in DOMAIN s.msgs : s.starts[j] < q /\ q <= s.starts[j + 1] => j = k
  BY <1>1, <1>2
<1> QED BY <1>3, <1>4 DEF MessageOf

\* Byte o of a message is of piece i.
LEMMA PieceIs ==
  ASSUME NEW s \in Sessions, NEW k \in 1..Len(s.msgs), NEW m, m = s.msgs[k],
         NEW i \in 1..Len(m.ends), NEW o \in Nat, Place(m, i - 1) < o, o <= Place(m, i)
  PROVE  PieceOf(m, o) = i
<1> DEFINE n == Len(m.ends)
<1>1. n \in Nat \ {0} /\ DOMAIN m.ends = 1..n
  BY Upward
<1>2. /\ \A h \in 0..n : Place(m, h) \in Nat
      /\ \A h, j \in 0..n : h <= j => Place(m, h) <= Place(m, j)
  BY Places
<1> HIDE DEF n
<1>3. i \in 1..n
  BY DEF n
<1>4. ASSUME NEW h \in 1..n, Place(m, h - 1) < o, o <= Place(m, h), h # i PROVE FALSE
  <2>1. h \in 0..n /\ h - 1 \in 0..n /\ i \in 0..n /\ i - 1 \in 0..n
    BY <1>1, <1>3
  <2>2. CASE h < i
    <3>1. h <= i - 1
      BY <1>3, <2>2
    <3>2. Place(m, h) <= Place(m, i - 1)
      BY <1>2, <2>1, <3>1
    <3> QED BY <1>2, <1>4, <2>1, <3>2
  <2>3. CASE i < h
    <3>1. i <= h - 1
      BY <1>3, <2>3
    <3>2. Place(m, i) <= Place(m, h - 1)
      BY <1>2, <2>1, <3>1
    <3> QED BY <1>2, <1>4, <2>1, <3>2
  <2> QED BY <1>3, <1>4, <2>2, <2>3
<1>5. i \in DOMAIN m.ends /\ Place(m, i - 1) < o /\ o <= Place(m, i)
  BY <1>1, <1>3
<1>6. \A h \in DOMAIN m.ends : Place(m, h - 1) < o /\ o <= Place(m, h) => h = i
  BY <1>1, <1>4
<1> QED BY <1>5, <1>6 DEF PieceOf

\* A request has its headers where it starts.
LEMMA HeadByte ==
  ASSUME NEW s \in Sessions, NEW k \in 1..Len(s.msgs), s.msgs[k].kind \in Http
  PROVE  /\ Byte(s, s.starts[k] + 1) = <<"head", 0, k>>
         /\ s.starts[k] + 1 <= s.starts[k + 1]
<1>1. s.starts[k] \in Nat /\ s.starts[k + 1] = s.starts[k] + Length(s.msgs[k])
  BY Shape DEF Proper
<1>2. Length(s.msgs[k]) \in Nat \ {0} /\ Place(s.msgs[k], 0) = 1
  BY Places
<1>3. s.starts[k] + 1 \in Nat /\ s.starts[k] < s.starts[k] + 1 /\ s.starts[k] + 1 <= s.starts[k + 1]
  BY <1>1, <1>2
<1> DEFINE q == s.starts[k] + 1
<1>4. q \in Nat /\ s.starts[k] < q /\ q <= s.starts[k + 1] /\ q - s.starts[k] = 1
  BY <1>1, <1>3
<1> HIDE DEF q
<1>5. MessageOf(s, q) = k
  BY <1>4, MessageIs
<1>6. q - s.starts[MessageOf(s, q)] <= Place(s.msgs[MessageOf(s, q)], 0)
  BY <1>2, <1>4, <1>5
<1>7. Byte(s, q) = <<"head", 0, k>>
  BY <1>5, <1>6 DEF Byte
<1> QED BY <1>3, <1>7 DEF q

\* Pieces of message k are in message k.
LEMMA PlaceIn ==
  ASSUME NEW s \in Sessions, NEW k \in 1..Len(s.msgs), NEW i \in 0..Len(s.msgs[k].ends)
  PROVE  /\ At(s, k, i) \in Nat /\ s.starts[k] <= At(s, k, i) /\ At(s, k, i) <= s.starts[k + 1]
         /\ At(s, k, Len(s.msgs[k].ends)) = s.starts[k + 1]
         /\ \A j \in 0..Len(s.msgs[k].ends) : i <= j => At(s, k, i) <= At(s, k, j)
<1> DEFINE m == s.msgs[k]
           n == Len(m.ends)
<1>1. n \in Nat \ {0}
  BY Upward
<1>2. /\ \A h \in 0..n : Place(m, h) \in Nat
      /\ \A h, j \in 0..n : h <= j => Place(m, h) <= Place(m, j)
  BY Places
<1>3. s.starts[k] \in Nat /\ s.starts[k + 1] = s.starts[k] + Place(m, n)
  BY Shape DEF Proper, Length
<1> HIDE DEF n, m
<1>4. i \in 0..n /\ n \in 0..n /\ i <= n
  BY <1>1 DEF n, m
<1>5. Place(m, i) \in Nat /\ Place(m, n) \in Nat /\ Place(m, i) <= Place(m, n)
  BY <1>2, <1>4
<1>6. \A j \in 0..n : i <= j => s.starts[k] + Place(m, i) <= s.starts[k] + Place(m, j)
  BY <1>2, <1>3, <1>4
<1> QED BY <1>3, <1>5, <1>6 DEF At, m, n

\* Byte j of piece i.
LEMMA PieceByte ==
  ASSUME NEW s \in Sessions, NEW k \in 1..Len(s.msgs), NEW i \in 1..Len(s.msgs[k].ends),
         NEW j \in Nat, 1 <= j, At(s, k, i - 1) + j <= At(s, k, i)
  PROVE  Byte(s, At(s, k, i - 1) + j) = Piece(s.msgs[k], k, i)[j]
<1> DEFINE m == s.msgs[k]
           n == Len(m.ends)
<1>1. n \in Nat \ {0}
  BY Upward
<1>2. i \in 0..n /\ i - 1 \in 0..n /\ 0 \in 0..n /\ 0 <= i - 1
  BY <1>1
<1>3. /\ Place(m, i) \in Nat /\ Place(m, i - 1) \in Nat /\ Place(m, 0) \in Nat
      /\ Place(m, 0) <= Place(m, i - 1)
  BY <1>2, Places
<1>4. s.starts[k] \in Nat /\ At(s, k, i) <= s.starts[k + 1] /\ s.starts[k + 1] \in Nat
  BY <1>2, Shape, PlaceIn
<1> HIDE DEF m, n
<1> DEFINE q == At(s, k, i - 1) + j
           o == Place(m, i - 1) + j
<1>5. /\ q \in Nat /\ s.starts[k] < q /\ q <= s.starts[k + 1] /\ q - s.starts[k] = o
      /\ o \in Nat /\ Place(m, i - 1) < o /\ o <= Place(m, i) /\ o - Place(m, i - 1) = j
      /\ ~(o <= Place(m, 0))
  <2>1. At(s, k, i - 1) = s.starts[k] + Place(m, i - 1) /\ At(s, k, i) = s.starts[k] + Place(m, i)
    BY DEF At, m
  <2>2. o \in Nat /\ Place(m, i - 1) < o /\ o - Place(m, i - 1) = j
    BY <1>3
  <2>3. q = s.starts[k] + o
    BY <1>3, <1>4, <2>1
  <2>4. o <= Place(m, i)
    BY <1>3, <1>4, <2>1
  <2>5. q <= At(s, k, i) /\ At(s, k, i) \in Nat /\ At(s, k, i - 1) \in Nat
    BY <1>2, PlaceIn DEF m, n
  <2> HIDE DEF q, o
  <2>6. q \in Nat /\ s.starts[k] < q /\ q - s.starts[k] = o
    <3>1. o \in Nat /\ 0 < o
      BY <1>3, <2>2
    <3>2. s.starts[k] \in Nat
      BY <1>4
    <3> QED BY <2>3, <3>1, <3>2, Offset
  <2>7. q <= s.starts[k + 1]
    <3>1. At(s, k, i) <= s.starts[k + 1] /\ s.starts[k + 1] \in Nat
      BY <1>4
    <3> QED BY <2>5, <2>6, <3>1, SMTT(30)
  <2>8. ~(o <= Place(m, 0))
    BY <1>3, <2>2
  <2> QED BY <2>2, <2>4, <2>6, <2>7, <2>8
<1> HIDE DEF q, o
<1>6. MessageOf(s, q) = k
  BY <1>5, MessageIs
<1>7. PieceOf(m, o) = i
  BY <1>5, PieceIs DEF m
<1>8. Byte(s, q) = Piece(m, k, i)[j]
  BY <1>5, <1>6, <1>7 DEF Byte, m
<1> QED BY <1>8 DEF q, m

----------------------------------------------------------------------------
\* What chunks and frames are made of.

\* c is a with b behind it.
IsJoin(S, a, b, c) ==
    /\ c \in Seq(S) /\ Len(a) \in Nat /\ Len(b) \in Nat /\ Len(c) = Len(a) + Len(b)
    /\ \A j \in 1..Len(a) : c[j] = a[j]
    /\ \A j \in 1..Len(b) : c[Len(a) + j] = b[j]

\* What \o does.
LEMMA Joined ==
  ASSUME NEW S, NEW a \in Seq(S), NEW b \in Seq(S), NEW c, c = a \o b
  PROVE  IsJoin(S, a, b, c)
BY DEF IsJoin

\* w is a chunk: a size, c and l, data d of n bytes, c and l.
IsChunk(w, x, c, l, d, n) ==
    /\ Len(w) = n + 5
    /\ w[1] = x /\ w[2] = c /\ w[3] = l
    /\ \A j \in 1..n : w[3 + j] = d[j]
    /\ w[n + 4] = c /\ w[n + 5] = l

\* A chunk is what Chunk writes.
LEMMA ChunkParts ==
  ASSUME NEW S, NEW x \in S, NEW c \in S, NEW l \in S, NEW d \in Seq(S)
  PROVE  \E w \in Seq(S) :
            w = <<x>> \o <<c, l>> \o d \o <<c, l>> /\ IsChunk(w, x, c, l, d, Len(d))
<1>1. PICK n \in Nat : n = Len(d)
  OBVIOUS
<1>2. PICK v : v = <<x>> \o <<c, l>>
  OBVIOUS
<1>3. v \in Seq(S) /\ Len(v) = 3 /\ v[1] = x /\ v[2] = c /\ v[3] = l
  BY <1>2
<1>4. PICK y : y = v \o d
  OBVIOUS
<1>5. /\ y \in Seq(S) /\ Len(y) = 3 + n /\ y[1] = x /\ y[2] = c /\ y[3] = l
      /\ \A j \in 1..n : y[3 + j] = d[j]
  <2>1. IsJoin(S, v, d, y)
    BY <1>3, <1>4, Joined
  <2>2. 1 \in 1..Len(v) /\ 2 \in 1..Len(v) /\ 3 \in 1..Len(v)
    BY <1>3
  <2> QED BY <1>1, <1>3, <2>1, <2>2 DEF IsJoin
<1>6. PICK z : z = <<c, l>>
  OBVIOUS
<1>7. z \in Seq(S) /\ Len(z) = 2 /\ z[1] = c /\ z[2] = l
  BY <1>6
<1>w. PICK w : w = y \o z
  OBVIOUS
<1>8. /\ w \in Seq(S) /\ Len(w) = (3 + n) + 2
      /\ \A j \in 1..(3 + n) : w[j] = y[j]
      /\ w[(3 + n) + 1] = c /\ w[(3 + n) + 2] = l
  <2>1. IsJoin(S, y, z, w)
    BY <1>5, <1>7, <1>w, Joined
  <2>2. 1 \in 1..Len(z) /\ 2 \in 1..Len(z)
    BY <1>7
  <2> QED BY <1>5, <1>7, <2>1, <2>2 DEF IsJoin
<1>9. ASSUME NEW j \in 1..n PROVE w[3 + j] = d[j]
  <2>1. 3 + j \in 1..(3 + n)
    OBVIOUS
  <2> QED BY <1>5, <1>8, <2>1
<1>10. (3 + n) + 1 = n + 4 /\ (3 + n) + 2 = n + 5 /\ n \in Nat
  OBVIOUS
<1>11. w[1] = x /\ w[2] = c /\ w[3] = l
  BY <1>5, <1>8
<1>12. w = <<x>> \o <<c, l>> \o d \o <<c, l>>
  BY <1>2, <1>4, <1>6, <1>w, Zenon
<1>13. IsChunk(w, x, c, l, d, n)
  BY <1>8, <1>9, <1>10, <1>11 DEF IsChunk
<1> QED BY <1>1, <1>8, <1>12, <1>13, Zenon

\* w is a frame: an opcode, a length, a mask of four bytes, data d of n bytes.
IsFrame(w, x, y, z, d, n) ==
    /\ Len(w) = n + 6
    /\ w[1] = x /\ w[2] = y /\ \A j \in 3..6 : w[j] = z
    /\ \A j \in 1..n : w[6 + j] = d[j]

\* A frame is what Frame writes.
LEMMA FrameParts ==
  ASSUME NEW S, NEW x \in S, NEW y \in S, NEW z \in S, NEW d \in Seq(S)
  PROVE  \E w \in Seq(S) :
            w = <<x, y>> \o [j \in 1..4 |-> z] \o d /\ IsFrame(w, x, y, z, d, Len(d))
<1>1. PICK n \in Nat : n = Len(d)
  OBVIOUS
<1>2. PICK f : f = [j \in 1..4 |-> z]
  OBVIOUS
<1>3. f \in Seq(S) /\ Len(f) = 4 /\ \A j \in 1..4 : f[j] = z
  BY <1>2
<1>4. PICK g : g = <<x, y>>
  OBVIOUS
<1>5. g \in Seq(S) /\ Len(g) = 2 /\ g[1] = x /\ g[2] = y
  BY <1>4
<1>6. PICK v : v = g \o f
  OBVIOUS
<1>7. /\ v \in Seq(S) /\ Len(v) = 6 /\ v[1] = x /\ v[2] = y /\ v[3] = z /\ v[4] = z /\ v[5] = z /\ v[6] = z
  <2>0. IsJoin(S, g, f, v)
    BY <1>3, <1>5, <1>6, Joined
  <2>1. /\ v \in Seq(S) /\ Len(v) = 6 /\ \A j \in 1..2 : v[j] = g[j]
        /\ \A j \in 1..4 : v[2 + j] = f[j]
    BY <1>3, <1>5, <2>0 DEF IsJoin
  <2>2. v[1] = x /\ v[2] = y
    BY <1>5, <2>1
  <2>3. \A j \in 1..4 : v[2 + j] = z
    BY <1>3, <2>1
  <2>4. v[2 + 1] = z /\ v[2 + 2] = z /\ v[2 + 3] = z /\ v[2 + 4] = z
    BY <2>3
  <2> QED BY <2>1, <2>2, <2>4
<1>8. PICK w : w = v \o d
  OBVIOUS
<1>12. w = <<x, y>> \o [j \in 1..4 |-> z] \o d
  BY <1>2, <1>4, <1>6, <1>8, Zenon
<1>9. /\ w \in Seq(S) /\ Len(w) = 6 + n /\ \A j \in 1..6 : w[j] = v[j]
      /\ \A j \in 1..n : w[6 + j] = d[j]
  <2>1. IsJoin(S, v, d, w)
    BY <1>7, <1>8, Joined
  <2> QED BY <1>1, <1>7, <2>1 DEF IsJoin
<1>10. w[1] = x /\ w[2] = y /\ w[3] = z /\ w[4] = z /\ w[5] = z /\ w[6] = z
  BY <1>7, <1>9
<1>11. \A j \in 3..6 : w[j] = z
  BY <1>10
<1>13. Len(w) = n + 6
  BY <1>9
<1>14. IsFrame(w, x, y, z, d, n)
  BY <1>9, <1>10, <1>11, <1>13 DEF IsFrame
<1> QED BY <1>1, <1>9, <1>12, <1>14, Zenon

\* A function from 1..n is a sequence.
LEMMA Listed ==
  ASSUME NEW S, NEW n \in Nat, NEW f \in [1..n -> S]
  PROVE  f \in Seq(S) /\ Len(f) = n
OBVIOUS

\* What Payload(m, k, i, j) is.
IsPayload(m, k, i, j, d) ==
    /\ d \in Seq(Letters) /\ Len(d) = j - i
    /\ \A l \in 1..(j - i) : d[l] = <<"byte", m.from + i + l - 1, k>>

\* A payload is bytes, with their numbers.
LEMMA PayloadIs ==
  ASSUME NEW m, m.from \in Nat, NEW k \in Nat, NEW i \in Nat, NEW j \in Nat, i <= j, m.from + j <= 255
  PROVE  IsPayload(m, k, i, j, Payload(m, k, i, j))
<1>1. PICK n \in Nat : n = j - i
  OBVIOUS
<1>2. PICK a \in Nat : a = m.from + i
  OBVIOUS
<1>3. a + n <= 255
  BY <1>1, <1>2
<1>4. PICK d : d = Payload(m, k, i, j)
  OBVIOUS
<1>5. d = [l \in 1..n |-> <<"byte", a + l - 1, k>>]
  BY <1>1, <1>2, <1>4 DEF Payload
<1>6. ASSUME NEW l \in 1..n PROVE <<"byte", a + l - 1, k>> \in Letters
  <2>1. a + l - 1 \in 0..255
    BY <1>3
  <2>2. "byte" \in Bytes
    BY DEF Bytes
  <2> QED BY <2>1, <2>2 DEF Letters
<1>7. d \in [1..n -> Letters]
  BY <1>5, <1>6
<1>8. d \in Seq(Letters) /\ Len(d) = n
  BY <1>7, Listed
<1>9. \A l \in 1..n : d[l] = <<"byte", a + l - 1, k>>
  BY <1>5
<1> QED BY <1>1, <1>2, <1>4, <1>8, <1>9 DEF IsPayload

\* A byte of the stream.
LEMMA LetterIs ==
  ASSUME NEW b \in Bytes, NEW v \in Nat, v < 256, NEW k \in Nat
  PROVE  <<b, v, k>> \in Letters
BY DEF Letters

\* The data of piece i.
LEMMA DataIs ==
  ASSUME NEW s \in Sessions, NEW k \in 1..Len(s.msgs), NEW m, m = s.msgs[k],
         NEW i \in 1..Len(m.ends)
  PROVE  /\ Upto(m, i - 1) \in Nat /\ Upto(m, i) \in Nat /\ Upto(m, i - 1) <= Upto(m, i)
         /\ Upto(m, i) <= Size(m)
         /\ IsPayload(m, k, Upto(m, i - 1), Upto(m, i), Payload(m, k, Upto(m, i - 1), Upto(m, i)))
<1> DEFINE e == Len(m.ends)
<1>1. /\ e \in Nat \ {0} /\ m.from \in Nat /\ m.from + Size(m) <= 255 /\ Size(m) \in Nat
      /\ \A h \in 0..e : Upto(m, h) \in Nat
      /\ \A h, j \in 0..e : h <= j => Upto(m, h) <= Upto(m, j)
  BY Upward
<1>2. i \in 0..e /\ i - 1 \in 0..e /\ e \in 0..e /\ i - 1 <= i /\ i <= e /\ i \in Nat
  BY <1>1, SMTT(30)
<1> DEFINE u == Upto(m, i - 1)
           v == Upto(m, i)
<1>3. u \in Nat /\ v \in Nat /\ u <= v /\ v <= Size(m)
  BY <1>1, <1>2 DEF Size
<1> HIDE DEF u, v, e
<1>4. m.from + v <= 255
  BY <1>1, <1>3
<1>5. k \in Nat
  OBVIOUS
<1>6. IsPayload(m, k, u, v, Payload(m, k, u, v))
  BY <1>1, <1>3, <1>4, <1>5, PayloadIs
<1> QED BY <1>3, <1>6 DEF u, v

\* The length of a chunk ...
LEMMA Around5 ==
  ASSUME NEW i \in Int, NEW u \in Nat, NEW v \in Nat,
         NEW a, a = 1 + v + 5 * i, NEW b, b = 1 + u + 5 * (i - 1)
  PROVE  a - b = (v - u) + 5
OBVIOUS

\* ... and of a frame.
LEMMA Around6 ==
  ASSUME NEW i \in Int, NEW u \in Nat, NEW v \in Nat,
         NEW a, a = v + 6 * i, NEW b, b = u + 6 * (i - 1)
  PROVE  a - b = (v - u) + 6
OBVIOUS

\* A piece of a chunked request is a chunk, the last one is empty.
LEMMA ChunkPiece ==
  ASSUME NEW s \in Sessions, NEW k \in 1..Len(s.msgs), NEW m, m = s.msgs[k],
         NEW i \in 1..Len(m.ends), m.kind = "chunked",
         NEW n, n = Upto(m, i) - Upto(m, i - 1)
  PROVE  /\ n \in Nat /\ n < 16 /\ (n = 0 <=> i = Len(m.ends))
         /\ Piece(m, k, i) \in Seq(Letters)
         /\ IsChunk(Piece(m, k, i), <<"hex", n, k>>, <<"cr", 0, k>>, <<"lf", 0, k>>,
                    Payload(m, k, Upto(m, i - 1), Upto(m, i)), n)
         /\ Place(m, i) - Place(m, i - 1) = n + 5
<1> DEFINE u == Upto(m, i - 1)
           v == Upto(m, i)
           d == Payload(m, k, u, v)
<1>1. u \in Nat /\ v \in Nat /\ u <= v /\ IsPayload(m, k, u, v, d)
  BY DataIs
<1>2. n < 16 /\ (v = u <=> i = Len(m.ends))
  BY Shape DEF Proper
<1>3. n \in Nat /\ n = v - u /\ (n = 0 <=> v = u)
  BY <1>1
<1>4. d \in Seq(Letters) /\ Len(d) = n
  BY <1>1, <1>3 DEF IsPayload
<1> DEFINE hex == <<"hex", n, k>>
           cr  == <<"cr", 0, k>>
           lf  == <<"lf", 0, k>>
<1>5. hex \in Letters /\ cr \in Letters /\ lf \in Letters
  <2>1. PICK a \in Nat : a = n /\ a < 16
    BY <1>2, <1>3
  <2>2. a < 256 /\ k \in Nat
    BY <2>1
  <2>3. "hex" \in Bytes /\ "cr" \in Bytes /\ "lf" \in Bytes /\ 0 \in Nat /\ 0 < 256
    BY DEF Bytes
  <2> QED BY <2>1, <2>2, <2>3, LetterIs
<1>6. Piece(m, k, i) = <<hex>> \o <<cr, lf>> \o d \o <<cr, lf>>
  BY <1>3 DEF Piece, Chunk, CrLf, Data
<1>7. Place(m, i) - Place(m, i - 1) = n + 5
  <2>1. Len(m.ends) \in Nat
    BY Upward
  <2>2. i \in 0..Len(m.ends) /\ i - 1 \in 0..Len(m.ends)
    BY <2>1
  <2>3. Place(m, i) = 1 + v + 5 * i /\ Place(m, i - 1) = 1 + u + 5 * (i - 1)
    BY <2>2, Places, SMTT(30)
  <2> HIDE DEF u, v
  <2>4. Place(m, i) - Place(m, i - 1) = (v - u) + 5
    BY <1>1, <2>3, Around5
  <2> QED BY <1>3, <2>4, Zenon
<1>8. Piece(m, k, i) \in Seq(Letters) /\ IsChunk(Piece(m, k, i), hex, cr, lf, d, n)
  <2> HIDE DEF hex, cr, lf, d
  <2>1. PICK w \in Seq(Letters) :
           w = <<hex>> \o <<cr, lf>> \o d \o <<cr, lf>> /\ IsChunk(w, hex, cr, lf, d, Len(d))
    BY <1>4, <1>5, ChunkParts
  <2> QED BY <1>4, <1>6, <2>1
<1> QED BY <1>2, <1>3, <1>7, <1>8, Zenon DEF d, hex, cr, lf

\* Opcodes fit a byte.
LEMMA OpIs ==
  ASSUME NEW m, m.kind \in Data, NEW i
  PROVE  Op(m, i) \in Nat /\ Op(m, i) < 256
<1>1. Opcode["text"] = 1 /\ Opcode["close"] = 8 /\ Opcode["ping"] = 9
  BY DEF Opcode
<1>2. PICK a : a = Opcode[m.kind]
  OBVIOUS
<1>3. a \in {1, 8, 9}
  BY <1>1, <1>2 DEF Data
<1>4. PICK b : b = IF i = 1 THEN a ELSE 0
  OBVIOUS
<1>5. PICK c : c = IF i = Len(m.ends) THEN Fin ELSE 0
  OBVIOUS
<1>6. b \in {0, 1, 8, 9} /\ c \in {0, 128}
  BY <1>3, <1>4, <1>5 DEF Fin
<1>7. Op(m, i) = b + c
  BY <1>2, <1>4, <1>5 DEF Op
<1> QED BY <1>6, <1>7

\* A piece of a message behind the upgrade is a frame ...
LEMMA FrameIs ==
  ASSUME NEW m, m.kind \in Data, NEW k, NEW i, NEW n, n = Upto(m, i) - Upto(m, i - 1)
  PROVE  Piece(m, k, i) = Frame(Op(m, i), n, Payload(m, k, Upto(m, i - 1), Upto(m, i)), k)
BY DEF Piece, Data

\* ... of a length that fits seven bits ...
LEMMA FrameShort ==
  ASSUME NEW s, NEW k, Proper(s, k), NEW m, m = s.msgs[k], m.kind \in Data, NEW i \in 1..Len(m.ends)
  PROVE  Upto(m, i) - Upto(m, i - 1) < 126
BY DEF Proper

\* ... with the parts of one.
LEMMA FramePiece ==
  ASSUME NEW s \in Sessions, NEW k \in 1..Len(s.msgs), NEW m, m = s.msgs[k],
         NEW i \in 1..Len(m.ends), m.kind \in Data,
         NEW n, n = Upto(m, i) - Upto(m, i - 1)
  PROVE  /\ n \in Nat /\ n < 126
         /\ Piece(m, k, i) \in Seq(Letters)
         /\ IsFrame(Piece(m, k, i), <<"op", Op(m, i), k>>, <<"len", 128 + n, k>>, <<"mask", 0, k>>,
                    Payload(m, k, Upto(m, i - 1), Upto(m, i)), n)
         /\ Place(m, i) - Place(m, i - 1) = n + 6
<1> DEFINE u == Upto(m, i - 1)
           v == Upto(m, i)
           d == Payload(m, k, u, v)
<1>1. u \in Nat /\ v \in Nat /\ u <= v /\ IsPayload(m, k, u, v, d)
  BY DataIs
<1>2. n < 126
  BY Shape, FrameShort
<1>3. n \in Nat /\ n = v - u
  BY <1>1
<1>4. d \in Seq(Letters) /\ Len(d) = n
  BY <1>1, <1>3 DEF IsPayload
<1>5. Op(m, i) \in Nat /\ Op(m, i) < 256
  BY OpIs
<1> DEFINE op   == <<"op", Op(m, i), k>>
           len  == <<"len", 128 + n, k>>
           mask == <<"mask", 0, k>>
<1>6. op \in Letters /\ len \in Letters /\ mask \in Letters
  <2>1. PICK a \in Nat : a = n /\ a < 126
    BY <1>2, <1>3
  <2>2. 128 + a < 256 /\ 128 + a \in Nat /\ k \in Nat
    BY <2>1
  <2>3. PICK c \in Nat : c = Op(m, i) /\ c < 256
    BY <1>5
  <2>4. "op" \in Bytes /\ "len" \in Bytes /\ "mask" \in Bytes /\ 0 \in Nat /\ 0 < 256
    BY DEF Bytes
  <2> QED BY <2>1, <2>2, <2>3, <2>4, LetterIs
<1>7. Piece(m, k, i) = <<op, len>> \o [j \in 1..4 |-> mask] \o d
  <2>1. Piece(m, k, i) = Frame(Op(m, i), n, d, k)
    BY FrameIs
  <2> HIDE DEF d
  <2> QED BY <2>1, Zenon DEF Frame
<1>8. Place(m, i) - Place(m, i - 1) = n + 6
  <2>1. Len(m.ends) \in Nat
    BY Upward
  <2>2. i \in 0..Len(m.ends) /\ i - 1 \in 0..Len(m.ends)
    BY <2>1
  <2>3. Place(m, i) = v + 6 * i /\ Place(m, i - 1) = u + 6 * (i - 1)
    BY <2>2, Places
  <2> HIDE DEF u, v
  <2>4. Place(m, i) - Place(m, i - 1) = (v - u) + 6
    BY <1>1, <2>3, Around6
  <2> QED BY <1>3, <2>4, Zenon
<1>9. Piece(m, k, i) \in Seq(Letters) /\ IsFrame(Piece(m, k, i), op, len, mask, d, n)
  <2> HIDE DEF op, len, mask, d
  <2>1. PICK w \in Seq(Letters) :
           w = <<op, len>> \o [j \in 1..4 |-> mask] \o d /\ IsFrame(w, op, len, mask, d, Len(d))
    BY <1>4, <1>6, FrameParts
  <2> QED BY <1>4, <1>7, <2>1
<1> QED BY <1>2, <1>3, <1>5, <1>8, <1>9, Zenon DEF d, op, len, mask

\* Other requests have their body in one piece.
LEMMA BodyPiece ==
  ASSUME NEW s \in Sessions, NEW k \in 1..Len(s.msgs), NEW m, m = s.msgs[k],
         m.kind \in Http, m.kind # "chunked"
  PROVE  /\ Len(m.ends) = 1
         /\ Piece(m, k, 1) = Payload(m, k, 0, Size(m))
         /\ IsPayload(m, k, 0, Size(m), Payload(m, k, 0, Size(m)))
         /\ Place(m, 0) = 1 /\ Place(m, 1) = 1 + Size(m)
<1>1. Len(m.ends) = 1
  <2>1. m.kind # "text"
    BY DEF Http
  <2> QED BY <2>1, Shape DEF Proper
<1>2. Upto(m, 0) = 0 /\ Size(m) = Upto(m, 1)
  BY <1>1 DEF Upto, Size
<1>3. IsPayload(m, k, 0, Size(m), Payload(m, k, 0, Size(m)))
  <2>1. 1 \in 1..Len(m.ends) /\ 1 - 1 = 0
    BY <1>1
  <2> QED BY <1>2, <2>1, DataIs
<1>4. Place(m, 0) = 1 /\ Place(m, 1) = 1 + Size(m)
  BY <1>2 DEF Place, Http, Data
<1>5. Piece(m, k, 1) = Payload(m, k, 0, Size(m))
  BY <1>2 DEF Piece, Http, Data
<1> QED BY <1>1, <1>3, <1>4, <1>5

\* In all of these cases a piece is a sequence of bytes.
LEMMA PieceIsSeq ==
  ASSUME NEW s \in Sessions, NEW k \in 1..Len(s.msgs), NEW m, m = s.msgs[k],
         NEW i \in 1..Len(m.ends)
  PROVE  /\ Piece(m, k, i) \in Seq(Letters)
         /\ Len(Piece(m, k, i)) = Place(m, i) - Place(m, i - 1)
<1>1. m.kind \in Http \cup Data
  BY Upward
<1> DEFINE n == Upto(m, i) - Upto(m, i - 1)
<1>2. CASE m.kind = "chunked"
  <2>1. Piece(m, k, i) \in Seq(Letters) /\ Len(Piece(m, k, i)) = n + 5 /\ Place(m, i) - Place(m, i - 1) = n + 5
    BY <1>2, ChunkPiece DEF IsChunk
  <2> QED BY <2>1
<1>3. CASE m.kind \in Data
  <2>1. Piece(m, k, i) \in Seq(Letters) /\ Len(Piece(m, k, i)) = n + 6 /\ Place(m, i) - Place(m, i - 1) = n + 6
    BY <1>3, FramePiece DEF IsFrame
  <2> QED BY <2>1
<1>4. CASE m.kind \in Http /\ m.kind # "chunked"
  <2> DEFINE d == Payload(m, k, 0, Size(m))
  <2>1. /\ Len(m.ends) = 1 /\ Piece(m, k, 1) = d /\ IsPayload(m, k, 0, Size(m), d)
        /\ Place(m, 0) = 1 /\ Place(m, 1) = 1 + Size(m)
    BY <1>4, BodyPiece
  <2>2. i = 1 /\ Size(m) \in Nat
    BY <2>1, Upward
  <2>3. d \in Seq(Letters) /\ Len(d) = Size(m) - 0
    BY <2>1 DEF IsPayload
  <2> QED BY <2>1, <2>2, <2>3
<1> QED BY <1>1, <1>2, <1>3, <1>4

----------------------------------------------------------------------------
\* All bytes of the stream.

\* Every byte of the stream is in a message, and there in a piece or the headers.
LEMMA InMessage ==
  ASSUME NEW s \in Sessions, NEW h \in 1..(Len(s.msgs) + 1), NEW q \in 1..s.starts[h]
  PROVE  \E k \in 1..Len(s.msgs) : k < h /\ s.starts[k] < q /\ q <= s.starts[k + 1]
<1> DEFINE T == {k \in Nat : k \in 1..(Len(s.msgs) + 1) /\ q <= s.starts[k]}
<1>1. /\ Len(s.msgs) \in Nat /\ s.starts[1] = 0
      /\ \A k \in 1..(Len(s.msgs) + 1) : s.starts[k] \in Nat
  BY Counts
<1>2. s.starts[h] \in Nat /\ q \in Nat /\ q <= s.starts[h] /\ q # 0 /\ h \in T
  BY <1>1
<1>3. PICK i \in T : \A x \in T : i <= x
  BY <1>2, Least
<1>4. i \in 1..(Len(s.msgs) + 1) /\ q <= s.starts[i] /\ i # 1 /\ i <= h
  BY <1>1, <1>2, <1>3
<1> HIDE DEF T
<1>5. PICK k \in 1..Len(s.msgs) : k + 1 = i /\ k = i - 1
  <2>1. i - 1 \in 1..Len(s.msgs) /\ (i - 1) + 1 = i
    BY <1>1, <1>4
  <2> QED BY <2>1
<1>6. k \notin T
  BY <1>3, <1>5
<1>7. s.starts[k] < q
  BY <1>1, <1>2, <1>5, <1>6, SMTT(30) DEF T
<1>8. k < h
  BY <1>4, <1>5
<1> QED BY <1>4, <1>5, <1>7, <1>8

\* A byte of a message behind its headers is in a piece.
LEMMA InPiece ==
  ASSUME NEW s \in Sessions, NEW k \in 1..Len(s.msgs), NEW m, m = s.msgs[k],
         NEW o \in Nat, Place(m, 0) < o, o <= Length(m)
  PROVE  \E i \in 1..Len(m.ends) : Place(m, i - 1) < o /\ o <= Place(m, i)
<1> DEFINE n == Len(m.ends)
           T == {i \in Nat : i \in 0..n /\ o <= Place(m, i)}
<1>1. n \in Nat \ {0}
  BY Upward
<1>2. \A i \in 0..n : Place(m, i) \in Nat
  BY Places
<1> HIDE DEF n
<1>3. n \in T
  BY <1>1 DEF Length, n
<1>4. PICK i \in T : \A x \in T : i <= x
  BY <1>3, Least
<1>5. i \in 0..n /\ o <= Place(m, i) /\ i # 0
  <2>1. 0 \in 0..n /\ i \in 0..n /\ o <= Place(m, i)
    BY <1>1, <1>4
  <2> QED BY <1>2, <2>1
<1>6. i - 1 \in 0..n /\ ~(i <= i - 1) /\ i - 1 \in Nat
  BY <1>1, <1>5
<1>7. ~(o <= Place(m, i - 1))
  BY <1>4, <1>6
<1>8. Place(m, i - 1) < o
  <2>1. Place(m, i - 1) \in Nat
    BY <1>2, <1>6
  <2> QED BY <1>7, <2>1
<1>9. i \in 1..n
  BY <1>5
<1> QED BY <1>5, <1>8, <1>9 DEF n

\* The way from a to q ...
LEMMA Back ==
  ASSUME NEW a \in Nat, NEW q \in Nat, a < q, NEW c \in Nat, q <= a + c
  PROVE  \E o \in Nat : o = q - a /\ q = a + o /\ 0 < o /\ o <= c
<1>1. q - a \in Nat /\ q = a + (q - a) /\ 0 < q - a /\ q - a <= c
  OBVIOUS
<1> QED BY <1>1

\* ... and on from there.
LEMMA Behind ==
  ASSUME NEW a \in Nat, NEW x \in Nat, NEW y \in Nat, NEW j \in Nat, x + j <= y
  PROVE  a + (x + j) = (a + x) + j /\ (a + x) + j <= a + y
OBVIOUS

\* Byte q is the headers of message k, or byte j of a piece of it.
LEMMA ByteIn ==
  ASSUME NEW s \in Sessions, NEW k \in 1..Len(s.msgs), NEW q \in Nat,
         s.starts[k] < q, q <= s.starts[k + 1]
  PROVE  \/ s.msgs[k].kind \in Http /\ q = s.starts[k] + 1 /\ Byte(s, q) = <<"head", 0, k>>
         \/ \E i \in 1..Len(s.msgs[k].ends) : \E j \in 1..Len(Piece(s.msgs[k], k, i)) :
               q = At(s, k, i - 1) + j /\ Byte(s, q) = Piece(s.msgs[k], k, i)[j]
<1> DEFINE m == s.msgs[k]
<1>1. s.starts[k] \in Nat /\ s.starts[k + 1] = s.starts[k] + Length(m)
  BY Shape DEF Proper
<1>2. /\ m.kind \in Data => Place(m, 0) = 0
      /\ m.kind \in Http => Place(m, 0) = 1
      /\ Length(m) \in Nat
  BY Places
<1>3. m.kind \in Http \cup Data
  BY Upward
<1> HIDE DEF m
<1>4. PICK o \in Nat : o = q - s.starts[k] /\ q = s.starts[k] + o /\ 0 < o /\ o <= Length(m)
  <2>1. q <= s.starts[k] + Length(m) /\ Length(m) \in Nat
    BY <1>1, <1>2
  <2> QED BY <1>1, <2>1, Back
<1>5. CASE o <= Place(m, 0)
  <2>1. m.kind \in Http /\ q = s.starts[k] + 1
    BY <1>2, <1>3, <1>4, <1>5
  <2> QED BY <2>1, HeadByte DEF m
<1>6. CASE Place(m, 0) < o
  <2>1. PICK i \in 1..Len(m.ends) : Place(m, i - 1) < o /\ o <= Place(m, i)
    BY <1>4, <1>6, InPiece DEF m
  <2>2. Len(m.ends) \in Nat
    BY Upward DEF m
  <2>3. Place(m, i - 1) \in Nat /\ Place(m, i) \in Nat
    <3>1. i \in 0..Len(m.ends) /\ i - 1 \in 0..Len(m.ends)
      BY <2>2
    <3> QED BY <3>1, Places DEF m
  <2>4. PICK j \in Nat : j = o - Place(m, i - 1) /\ o = Place(m, i - 1) + j /\ 1 <= j /\ j <= Place(m, i) - Place(m, i - 1)
    BY <2>1, <2>3
  <2>5. Len(Piece(m, k, i)) = Place(m, i) - Place(m, i - 1)
    BY PieceIsSeq DEF m
  <2>6. At(s, k, i - 1) = s.starts[k] + Place(m, i - 1) /\ At(s, k, i) = s.starts[k] + Place(m, i)
    BY DEF At, m
  <2>7. q = At(s, k, i - 1) + j /\ At(s, k, i - 1) + j <= At(s, k, i)
    <3>1. Place(m, i - 1) + j <= Place(m, i)
      BY <2>1, <2>4
    <3>2. /\ s.starts[k] + (Place(m, i - 1) + j) = (s.starts[k] + Place(m, i - 1)) + j
          /\ (s.starts[k] + Place(m, i - 1)) + j <= s.starts[k] + Place(m, i)
      BY <1>1, <2>3, <3>1, Behind
    <3> QED BY <1>4, <2>4, <2>6, <3>2, Zenon
  <2>8. j \in 1..Len(Piece(m, k, i))
    BY <2>3, <2>4, <2>5
  <2>9. Byte(s, q) = Piece(m, k, i)[j]
    BY <2>4, <2>7, PieceByte DEF m
  <2> QED BY <2>7, <2>8, <2>9 DEF m
<1>7. Place(m, 0) \in Nat
  BY <1>2, <1>3
<1> QED BY <1>5, <1>6, <1>7

\* Every byte of the stream is one.
LEMMA ByteLetter ==
  ASSUME NEW s \in Sessions, NEW h \in 1..(Len(s.msgs) + 1), NEW q \in 1..s.starts[h]
  PROVE  Byte(s, q) \in Letters
<1>1. PICK k \in 1..Len(s.msgs) : s.starts[k] < q /\ q <= s.starts[k + 1]
  BY InMessage
<1>2. q \in Nat
  OBVIOUS
<1>3. CASE Byte(s, q) = <<"head", 0, k>>
  <2>1. "head" \in Bytes /\ 0 \in Nat /\ 0 < 256 /\ k \in Nat
    BY DEF Bytes
  <2> QED BY <1>3, <2>1, LetterIs
<1>4. CASE \E i \in 1..Len(s.msgs[k].ends) : \E j \in 1..Len(Piece(s.msgs[k], k, i)) :
               Byte(s, q) = Piece(s.msgs[k], k, i)[j]
  <2>1. PICK i \in 1..Len(s.msgs[k].ends) : \E j \in 1..Len(Piece(s.msgs[k], k, i)) :
               Byte(s, q) = Piece(s.msgs[k], k, i)[j]
    BY <1>4
  <2>2. Piece(s.msgs[k], k, i) \in Seq(Letters)
    BY PieceIsSeq
  <2> QED BY <2>1, <2>2
<1> QED BY <1>1, <1>2, <1>3, <1>4, ByteIn, SMTT(30)

----------------------------------------------------------------------------
\* Parts of sequences, and of the stream.

\* d is z without its first a elements, and up to the one at b.
IsCut(S, z, a, b, d) ==
    /\ d \in Seq(S) /\ Len(d) = b - a
    /\ \A j \in 1..(b - a) : d[j] = z[a + j]

\* What SubSeq does.
LEMMA Cut ==
  ASSUME NEW S, NEW z \in Seq(S), NEW a \in Nat, NEW b \in Nat, a <= b, b <= Len(z)
  PROVE  IsCut(S, z, a, b, SubSeq(z, a + 1, b))
<1>1. \A i \in (a + 1)..b : z[i] \in S
  OBVIOUS
<1>2. PICK d : d = SubSeq(z, a + 1, b)
  OBVIOUS
<1>3. /\ d \in Seq(S) /\ Len(d) = IF a + 1 <= b THEN b - (a + 1) + 1 ELSE 0
      /\ \A i \in 1..(b - (a + 1) + 1) : d[i] = z[(a + 1) + i - 1]
  BY <1>1, <1>2, SubSeqProperties
<1>4. ASSUME NEW j \in 1..(b - a) PROVE d[j] = z[a + j]
  <2>1. j \in 1..(b - (a + 1) + 1) /\ (a + 1) + j - 1 = a + j
    OBVIOUS
  <2> QED BY <1>3, <2>1
<1> QED BY <1>2, <1>3, <1>4 DEF IsCut

\* The order in which sequences are joined does not matter.
IsAssociative(x, y, z) == (x \o y) \o z = x \o (y \o z)

\* Joining sequences is associative.
LEMMA Associated ==
  ASSUME NEW x \in Seq(Letters), NEW y \in Seq(Letters), NEW z \in Seq(Letters)
  PROVE  IsAssociative(x, y, z)
BY ConcatAssociative DEF IsAssociative

\* The front and the back of x with y behind it.
LEMMA CutFront ==
  ASSUME NEW S, NEW x \in Seq(S), NEW y \in Seq(S), NEW n, n = Len(x)
  PROVE  SubSeq(x \o y, 1, n) = x
<1>1. PICK z : z = x \o y
  OBVIOUS
<1>2. IsJoin(S, x, y, z)
  BY <1>1, Joined
<1>3. n \in Nat /\ 0 <= n /\ n <= Len(z) /\ z \in Seq(S) /\ \A j \in 1..n : z[j] = x[j]
  BY <1>2 DEF IsJoin
<1>4. PICK d : d = SubSeq(z, 0 + 1, n)
  OBVIOUS
<1>5. IsCut(S, z, 0, n, d)
  BY <1>3, <1>4, Cut
<1>6. d \in Seq(S) /\ Len(d) = Len(x) /\ \A j \in 1..Len(d) : d[j] = x[j]
  BY <1>3, <1>5 DEF IsCut
<1>7. d = x
  BY <1>6, SeqEqual
<1> QED BY <1>1, <1>4, <1>7

\* A part of the back.
LEMMA CutBack ==
  ASSUME NEW S, NEW x \in Seq(S), NEW y \in Seq(S), NEW n, n = Len(x),
         NEW a \in Nat, NEW b \in Nat, a <= b, b <= Len(y)
  PROVE  SubSeq(x \o y, n + a + 1, n + b) = SubSeq(y, a + 1, b)
<1>1. PICK z : z = x \o y
  OBVIOUS
<1>2. IsJoin(S, x, y, z)
  BY <1>1, Joined
<1>3. n \in Nat /\ n + a \in Nat /\ n + b \in Nat /\ n + a <= n + b /\ n + b <= Len(z) /\ z \in Seq(S)
  BY <1>2 DEF IsJoin
<1>4. PICK d : d = SubSeq(z, (n + a) + 1, n + b)
  OBVIOUS
<1>5. PICK e : e = SubSeq(y, a + 1, b)
  OBVIOUS
<1>6. IsCut(S, z, n + a, n + b, d) /\ IsCut(S, y, a, b, e)
  BY <1>3, <1>4, <1>5, Cut
<1>7. (n + b) - (n + a) = b - a
  BY <1>3
<1>8. ASSUME NEW j \in 1..(b - a) PROVE d[j] = e[j]
  <2>1. a + j \in 1..Len(y) /\ (n + a) + j = n + (a + j)
    BY <1>3
  <2>2. z[n + (a + j)] = y[a + j]
    BY <1>2, <2>1 DEF IsJoin
  <2>3. d[j] = z[(n + a) + j] /\ e[j] = y[a + j]
    BY <1>6, <1>7 DEF IsCut
  <2> QED BY <2>1, <2>2, <2>3
<1>9. d \in Seq(S) /\ e \in Seq(S) /\ Len(d) = Len(e) /\ Len(d) = b - a
  BY <1>6, <1>7 DEF IsCut
<1>10. d = e
  BY <1>8, <1>9, SeqEqual
<1> QED BY <1>1, <1>4, <1>5, <1>10

\* There are r bytes in the messages of session s.
Reach(s, r) == r \in Nat /\ \E h \in 1..(Len(s.msgs) + 1) : r <= s.starts[h]

\* Fewer bytes are there too.
LEMMA ReachDown ==
  ASSUME NEW s \in Sessions, NEW r, Reach(s, r), NEW p \in Nat, p <= r
  PROVE  Reach(s, p)
<1>1. PICK h \in 1..(Len(s.msgs) + 1) : r <= s.starts[h]
  BY DEF Reach
<1>2. s.starts[h] \in Nat /\ r \in Nat
  BY Counts DEF Reach
<1>3. p <= s.starts[h]
  BY <1>1, <1>2
<1> QED BY <1>3 DEF Reach

\* w is what the stream has after p and up to r.
IsWire(s, p, r, w) ==
    /\ w \in Seq(Letters) /\ Len(w) = r - p
    /\ \A j \in 1..(r - p) : w[j] = Byte(s, p + j)

\* A part of the stream is what its bytes are.
LEMMA WireIs ==
  ASSUME NEW s \in Sessions, NEW p \in Nat, NEW r, Reach(s, r), p <= r
  PROVE  IsWire(s, p, r, Wire(s, p, r))
<1>1. PICK h \in 1..(Len(s.msgs) + 1) : r <= s.starts[h]
  BY DEF Reach
<1>2. s.starts[h] \in Nat /\ r \in Nat
  BY Counts DEF Reach
<1>3. PICK n \in Nat : n = r - p
  BY <1>2
<1>4. \A j \in 1..n : p + j \in 1..s.starts[h]
  BY <1>1, <1>2, <1>3
<1>5. \A j \in 1..n : Byte(s, p + j) \in Letters
  BY <1>4, ByteLetter
<1>6. PICK w : w = Wire(s, p, r)
  OBVIOUS
<1>7. w = [j \in 1..n |-> Byte(s, p + j)]
  BY <1>3, <1>6 DEF Wire
<1>8. w \in [1..n -> Letters] /\ \A j \in 1..n : w[j] = Byte(s, p + j)
  BY <1>5, <1>7
<1>9. w \in Seq(Letters) /\ Len(w) = n
  BY <1>8, Listed
<1> QED BY <1>3, <1>6, <1>8, <1>9 DEF IsWire

\* Nothing is between p and p.
LEMMA WireEmpty ==
  ASSUME NEW s \in Sessions, NEW p \in Nat, Reach(s, p)
  PROVE  Wire(s, p, p) = <<>>
<1>1. p <= p /\ p - p = 0
  OBVIOUS
<1>2. IsWire(s, p, p, Wire(s, p, p))
  BY <1>1, WireIs
<1>3. Wire(s, p, p) \in Seq(Letters) /\ Len(Wire(s, p, p)) = 0
  BY <1>1, <1>2 DEF IsWire
<1> QED BY <1>3, EmptySeq

\* A part of a part of the stream is a part of the stream ...
LEMMA WireCut ==
  ASSUME NEW s \in Sessions, NEW p \in Nat, NEW r, Reach(s, r),
         NEW a \in Nat, NEW b \in Nat, a <= b, p + b <= r
  PROVE  SubSeq(Wire(s, p, r), a + 1, b) = Wire(s, p + a, p + b)
<1>1. r \in Nat
  BY DEF Reach
<1>2. p <= r /\ p + a \in Nat /\ p + b \in Nat /\ p + a <= p + b /\ b <= r - p /\ (p + b) - (p + a) = b - a
  BY <1>1
<1>3. PICK w : w = Wire(s, p, r)
  OBVIOUS
<1>4. PICK v : v = Wire(s, p + a, p + b)
  OBVIOUS
<1>5. IsWire(s, p, r, w)
  BY <1>2, <1>3, WireIs
<1>6. IsWire(s, p + a, p + b, v)
  <2>1. Reach(s, p + b)
    BY <1>2, ReachDown
  <2> QED BY <1>2, <1>4, <2>1, WireIs
<1>7. PICK d : d = SubSeq(w, a + 1, b)
  OBVIOUS
<1>8. w \in Seq(Letters) /\ b <= Len(w)
  BY <1>2, <1>5 DEF IsWire
<1>9. IsCut(Letters, w, a, b, d)
  BY <1>7, <1>8, Cut
<1>10. ASSUME NEW j \in 1..(b - a) PROVE d[j] = v[j]
  <2>1. a + j \in 1..(r - p) /\ p + (a + j) = (p + a) + j
    BY <1>1, <1>2
  <2>2. d[j] = w[a + j]
    BY <1>9 DEF IsCut
  <2>3. w[a + j] = Byte(s, p + (a + j))
    BY <1>5, <2>1 DEF IsWire
  <2>4. v[j] = Byte(s, (p + a) + j)
    BY <1>2, <1>6 DEF IsWire
  <2> QED BY <2>1, <2>2, <2>3, <2>4
<1>11. d \in Seq(Letters) /\ v \in Seq(Letters) /\ Len(d) = Len(v) /\ Len(d) = b - a
  BY <1>2, <1>6, <1>9 DEF IsWire, IsCut
<1>12. d = v
  BY <1>10, <1>11, SeqEqual
<1> QED BY <1>3, <1>4, <1>7, <1>12

\* ... and two that meet are one.
LEMMA WireJoin ==
  ASSUME NEW s \in Sessions, NEW p \in Nat, NEW q \in Nat, NEW r, Reach(s, r), p <= q, q <= r
  PROVE  Wire(s, p, q) \o Wire(s, q, r) = Wire(s, p, r)
<1>1. r \in Nat /\ p <= r
  BY DEF Reach
<1>2. PICK x : x = Wire(s, p, q)
  OBVIOUS
<1>3. PICK y : y = Wire(s, q, r)
  OBVIOUS
<1>4. PICK w : w = Wire(s, p, r)
  OBVIOUS
<1>5. Reach(s, q)
  BY ReachDown
<1>6. IsWire(s, p, q, x) /\ IsWire(s, q, r, y) /\ IsWire(s, p, r, w)
  BY <1>1, <1>2, <1>3, <1>4, <1>5, WireIs
<1>7. x \in Seq(Letters) /\ y \in Seq(Letters) /\ w \in Seq(Letters) /\ Len(x) = q - p /\ Len(y) = r - q /\ Len(w) = r - p
  BY <1>6 DEF IsWire
<1>8. PICK z : z = x \o y
  OBVIOUS
<1>9. IsJoin(Letters, x, y, z)
  BY <1>7, <1>8, Joined
<1>10. z \in Seq(Letters) /\ Len(z) = r - p
  BY <1>1, <1>7, <1>9 DEF IsJoin
<1>11. ASSUME NEW j \in 1..(r - p) PROVE z[j] = w[j]
  <2>1. w[j] = Byte(s, p + j)
    BY <1>6 DEF IsWire
  <2>2. CASE j \in 1..(q - p)
    <3>1. z[j] = x[j]
      BY <1>7, <1>9, <2>2 DEF IsJoin
    <3>2. x[j] = Byte(s, p + j)
      BY <1>6, <2>2 DEF IsWire
    <3> QED BY <2>1, <3>1, <3>2
  <2>3. CASE j \notin 1..(q - p)
    <3>1. PICK i \in 1..(r - q) : j = (q - p) + i /\ p + j = q + i
      <4>1. j - (q - p) \in 1..(r - q) /\ j = (q - p) + (j - (q - p)) /\ p + j = q + (j - (q - p))
        BY <1>1, <2>3
      <4> QED BY <4>1
    <3>2. z[(q - p) + i] = y[i]
      BY <1>7, <1>9 DEF IsJoin
    <3>3. y[i] = Byte(s, q + i)
      BY <1>6 DEF IsWire
    <3> QED BY <2>1, <3>1, <3>2, <3>3
  <2> QED BY <2>2, <2>3
<1>12. z = w
  BY <1>7, <1>10, <1>11, SeqEqual
<1> QED BY <1>2, <1>3, <1>4, <1>8, <1>12

\* The distance of two places.
LEMMA Distance ==
  ASSUME NEW a \in Nat, NEW x \in Nat, NEW y \in Nat, NEW n, n = y - x
  PROVE  (a + y) - (a + x) = n /\ a + y = (a + x) + n
OBVIOUS

\* On the wire piece i of message k is what it is.
LEMMA WirePiece ==
  ASSUME NEW s \in Sessions, NEW k \in 1..Len(s.msgs), NEW i \in 1..Len(s.msgs[k].ends)
  PROVE  /\ Wire(s, At(s, k, i - 1), At(s, k, i)) = Piece(s.msgs[k], k, i)
         /\ At(s, k, i) = At(s, k, i - 1) + Len(Piece(s.msgs[k], k, i))
<1> DEFINE m == s.msgs[k]
           p == At(s, k, i - 1)
           r == At(s, k, i)
<1>1. PICK w : w = Piece(m, k, i)
  OBVIOUS
<1>2. w \in Seq(Letters) /\ Len(w) = Place(m, i) - Place(m, i - 1)
  BY <1>1, PieceIsSeq
<1>3. i \in 0..Len(m.ends) /\ i - 1 \in 0..Len(m.ends) /\ i - 1 <= i
  <2>1. Len(m.ends) \in Nat
    BY Upward
  <2> QED BY <2>1
<1>4. p \in Nat /\ r \in Nat /\ p <= r /\ r <= s.starts[k + 1]
  BY <1>3, PlaceIn
<1>5. Reach(s, r)
  <2>1. k + 1 \in 1..(Len(s.msgs) + 1)
    BY Counts
  <2> QED BY <1>4, <2>1 DEF Reach
<1>6. r - p = Len(w) /\ r = p + Len(w)
  <2>1. s.starts[k] \in Nat /\ Place(m, i) \in Nat /\ Place(m, i - 1) \in Nat
    BY <1>3, Places, Shape
  <2>2. p = s.starts[k] + Place(m, i - 1) /\ r = s.starts[k] + Place(m, i)
    BY DEF At
  <2> HIDE DEF p, r, m
  <2>3. /\ (s.starts[k] + Place(m, i)) - (s.starts[k] + Place(m, i - 1)) = Len(w)
        /\ s.starts[k] + Place(m, i) = (s.starts[k] + Place(m, i - 1)) + Len(w)
    BY <1>2, <2>1, Distance
  <2> QED BY <2>2, <2>3, Zenon
<1>7. PICK v : v = Wire(s, p, r)
  OBVIOUS
<1>8. IsWire(s, p, r, v)
  BY <1>4, <1>5, <1>7, WireIs
<1>9. ASSUME NEW j \in 1..Len(w) PROVE v[j] = w[j]
  <2>1. Byte(s, p + j) = Piece(m, k, i)[j]
    <3>1. j \in Nat /\ 1 <= j /\ p + j <= r
      BY <1>4, <1>6
    <3> QED BY <3>1, PieceByte
  <2>2. v[j] = Byte(s, p + j)
    BY <1>6, <1>8 DEF IsWire
  <2> QED BY <1>1, <2>1, <2>2
<1>10. v \in Seq(Letters) /\ Len(v) = Len(w)
  BY <1>6, <1>8 DEF IsWire
<1>11. v = w
  BY <1>2, <1>9, <1>10, SeqEqual
<1> QED BY <1>1, <1>6, <1>7, <1>11

\* On the wire a request begins with its headers.
LEMMA WireHead ==
  ASSUME NEW s \in Sessions, NEW k \in 1..Len(s.msgs), s.msgs[k].kind \in Http
  PROVE  Wire(s, s.starts[k], s.starts[k] + 1) = <<<<"head", 0, k>>>> /\ At(s, k, 0) = s.starts[k] + 1
<1>1. s.starts[k] \in Nat /\ Byte(s, s.starts[k] + 1) = <<"head", 0, k>>
  BY Shape, HeadByte
<1>2. (s.starts[k] + 1) - s.starts[k] = 1
  BY <1>1
<1>3. Wire(s, s.starts[k], s.starts[k] + 1) = [j \in 1..1 |-> Byte(s, s.starts[k] + j)]
  BY <1>2, Zenon DEF Wire
<1>4. [j \in 1..1 |-> Byte(s, s.starts[k] + j)] = <<Byte(s, s.starts[k] + 1)>>
  OBVIOUS
<1>5. Place(s.msgs[k], 0) = 1
  BY Places
<1> QED BY <1>1, <1>3, <1>4, <1>5 DEF At

\* Two parts of a payload that meet are one.
IsGrown(m, k, i, j, l) == Payload(m, k, i, j) \o Payload(m, k, j, l) = Payload(m, k, i, l)

\* Parts of a payload can be joined.
LEMMA PayloadJoin ==
  ASSUME NEW m, m.from \in Nat, NEW k \in Nat, NEW i \in Nat, NEW j \in Nat, NEW l \in Nat,
         i <= j, j <= l, m.from + l <= 255
  PROVE  IsGrown(m, k, i, j, l)
<1>1. PICK x : x = Payload(m, k, i, j)
  OBVIOUS
<1>2. PICK y : y = Payload(m, k, j, l)
  OBVIOUS
<1>3. PICK w : w = Payload(m, k, i, l)
  OBVIOUS
<1>4. i <= l /\ m.from + j <= 255
  OBVIOUS
<1>5. IsPayload(m, k, i, j, x) /\ IsPayload(m, k, j, l, y) /\ IsPayload(m, k, i, l, w)
  BY <1>1, <1>2, <1>3, <1>4, PayloadIs
<1>6. x \in Seq(Letters) /\ y \in Seq(Letters) /\ w \in Seq(Letters) /\ Len(x) = j - i /\ Len(y) = l - j /\ Len(w) = l - i
  BY <1>5 DEF IsPayload
<1>7. PICK z : z = x \o y
  OBVIOUS
<1>8. IsJoin(Letters, x, y, z)
  BY <1>6, <1>7, Joined
<1>9. z \in Seq(Letters) /\ Len(z) = l - i
  BY <1>6, <1>8 DEF IsJoin
<1>10. ASSUME NEW g \in 1..(l - i) PROVE z[g] = w[g]
  <2>1. w[g] = <<"byte", m.from + i + g - 1, k>>
    BY <1>5 DEF IsPayload
  <2>2. CASE g \in 1..(j - i)
    <3>1. z[g] = x[g]
      BY <1>6, <1>8, <2>2 DEF IsJoin
    <3>2. x[g] = <<"byte", m.from + i + g - 1, k>>
      BY <1>5, <2>2 DEF IsPayload
    <3> QED BY <2>1, <3>1, <3>2
  <2>3. CASE g \notin 1..(j - i)
    <3>1. PICK h \in 1..(l - j) : g = (j - i) + h /\ m.from + i + g - 1 = m.from + j + h - 1
      <4>1. /\ g - (j - i) \in 1..(l - j) /\ g = (j - i) + (g - (j - i))
            /\ m.from + i + g - 1 = m.from + j + (g - (j - i)) - 1
        BY <2>3
      <4> QED BY <4>1
    <3>2. z[(j - i) + h] = y[h]
      BY <1>6, <1>8 DEF IsJoin
    <3>3. y[h] = <<"byte", m.from + j + h - 1, k>>
      BY <1>5 DEF IsPayload
    <3> QED BY <2>1, <3>1, <3>2, <3>3
  <2> QED BY <2>2, <2>3
<1>11. z = w
  BY <1>6, <1>9, <1>10, SeqEqual
<1> QED BY <1>1, <1>2, <1>3, <1>7, <1>11, Zenon DEF IsGrown

----------------------------------------------------------------------------
\* What a parser finds, whatever the buffer holds in front of the chunk ...

\* b is x, w and z.
AreParts(S, b, x, w, z) ==
    /\ b \in Seq(S) /\ Len(b) = Len(x) + (Len(w) + Len(z))
    /\ \A j \in 1..Len(x) : b[j] = x[j]
    /\ \A j \in 1..Len(w) : b[Len(x) + j] = w[j]
    /\ \A j \in 1..Len(z) : b[Len(x) + (Len(w) + j)] = z[j]

\* A buffer of three parts.
LEMMA Parts ==
  ASSUME NEW S, NEW x \in Seq(S), NEW w \in Seq(S), NEW z \in Seq(S), NEW b, b = x \o (w \o z)
  PROVE  AreParts(S, b, x, w, z)
<1>1. PICK y : y = w \o z
  OBVIOUS
<1>2. IsJoin(S, w, z, y)
  BY <1>1, Joined
<1>3. y \in Seq(S)
  BY <1>2 DEF IsJoin
<1>4. IsJoin(S, x, y, b)
  BY <1>1, <1>3, Joined
<1>5. PICK l \in Nat : l = Len(x)
  OBVIOUS
<1>6. PICK m \in Nat : m = Len(w)
  OBVIOUS
<1>7. PICK n \in Nat : n = Len(z)
  OBVIOUS
<1>8. b \in Seq(S) /\ Len(y) = m + n /\ Len(b) = l + (m + n)
  BY <1>2, <1>4, <1>5, <1>6, <1>7 DEF IsJoin
<1>9. \A j \in 1..l : b[j] = x[j]
  BY <1>4, <1>5 DEF IsJoin
<1>10. \A j \in 1..(m + n) : b[l + j] = y[j]
  BY <1>4, <1>5, <1>8 DEF IsJoin
<1>11. ASSUME NEW j \in 1..m PROVE b[l + j] = w[j]
  <2>1. j \in 1..(m + n)
    OBVIOUS
  <2>2. y[j] = w[j]
    BY <1>2, <1>6 DEF IsJoin
  <2> QED BY <1>10, <2>1, <2>2
<1>12. ASSUME NEW j \in 1..n PROVE b[l + (m + j)] = z[j]
  <2>1. m + j \in 1..(m + n)
    OBVIOUS
  <2>2. y[m + j] = z[j]
    BY <1>2, <1>6, <1>7 DEF IsJoin
  <2> QED BY <1>10, <2>1, <2>2
<1> QED BY <1>5, <1>6, <1>7, <1>8, <1>9, <1>11, <1>12, Zenon DEF AreParts

\* y is what is behind the first n elements of b.
IsBehind(b, n, y) == SubSeq(b, n + 1, Len(b)) = y

\* SubSeq to the end gives what is behind x.
LEMMA CutRest ==
  ASSUME NEW S, NEW x \in Seq(S), NEW y \in Seq(S), NEW b, b = x \o y, NEW n, n = Len(x)
  PROVE  IsBehind(b, n, y)
<1>1. PICK a \in Nat : a = 0
  OBVIOUS
<1>2. PICK m \in Nat : m = Len(y)
  OBVIOUS
<1>3. n \in Nat /\ a <= m /\ m <= Len(y)
  BY <1>1, <1>2
<1>4. SubSeq(x \o y, n + a + 1, n + m) = SubSeq(y, a + 1, m)
  BY <1>3, CutBack
<1>5. SubSeq(y, 1, m) = y
  BY <1>2, SubSeqFull
<1>6. n + a + 1 = n + 1 /\ a + 1 = 1
  BY <1>1, <1>3
<1>7. Len(b) = n + m
  <2>1. IsJoin(S, x, y, b)
    BY Joined
  <2> QED BY <1>2, <2>1 DEF IsJoin
<1> QED BY <1>4, <1>5, <1>6, <1>7 DEF IsBehind

\* What is behind x and w.
LEMMA CutLast ==
  ASSUME NEW S, NEW x \in Seq(S), NEW w \in Seq(S), NEW z \in Seq(S), NEW b, b = x \o (w \o z),
         NEW n, n = Len(x) + Len(w)
  PROVE  IsBehind(b, n, z)
<1>1. PICK y : y = x \o w
  OBVIOUS
<1>2. IsJoin(S, x, w, y)
  BY <1>1, Joined
<1>3. y \in Seq(S) /\ Len(y) = n
  BY <1>2 DEF IsJoin
<1>4. b = y \o z
  BY <1>1, ConcatAssociative, SMTT(30)
<1> QED BY <1>3, <1>4, CutRest

\* A part of w, which has d behind its first a elements.
HasAt(w, a, n, d) == a + n <= Len(w) /\ \A j \in 1..n : w[a + j] = d[j]

\* b has d behind p and a elements.
IsAt(b, p, a, n, d) == SubSeq(b, p + a + 1, p + (a + n)) = d

\* Data in the middle of a buffer.
LEMMA CutData ==
  ASSUME NEW S, NEW x \in Seq(S), NEW w \in Seq(S), NEW z \in Seq(S), NEW b, b = x \o (w \o z),
         NEW p, p = Len(x), NEW d \in Seq(S), NEW n, n = Len(d), NEW a \in Nat, HasAt(w, a, n, d)
  PROVE  IsAt(b, p, a, n, d)
<1>1. p \in Nat /\ n \in Nat
  OBVIOUS
<1>2. PICK m \in Nat : m = Len(w)
  OBVIOUS
<1>3. b \in Seq(S) /\ Len(b) = p + (m + Len(z)) /\ \A j \in 1..m : b[p + j] = w[j]
  <2>1. AreParts(S, b, x, w, z)
    BY Parts
  <2> QED BY <1>2, <2>1 DEF AreParts
<1>4. a + n <= m /\ \A j \in 1..n : w[a + j] = d[j]
  BY <1>2 DEF HasAt
<1>5. p + a \in Nat /\ p + (a + n) \in Nat /\ p + a <= p + (a + n) /\ p + (a + n) <= Len(b)
  <2>1. PICK l \in Nat : l = Len(z)
    OBVIOUS
  <2> QED BY <1>1, <1>3, <1>4, <2>1
<1>6. PICK e : e = SubSeq(b, (p + a) + 1, p + (a + n))
  OBVIOUS
<1>7. IsCut(S, b, p + a, p + (a + n), e)
  BY <1>3, <1>5, <1>6, Cut
<1>8. (p + (a + n)) - (p + a) = n
  BY <1>1
<1>9. e \in Seq(S) /\ Len(e) = n /\ \A j \in 1..n : e[j] = b[(p + a) + j]
  BY <1>7, <1>8 DEF IsCut
<1>10. ASSUME NEW j \in 1..n PROVE e[j] = d[j]
  <2>1. a + j \in 1..m /\ (p + a) + j = p + (a + j)
    BY <1>1, <1>4
  <2> QED BY <1>3, <1>4, <1>9, <2>1
<1>11. e = d
  BY <1>9, <1>10, SeqEqual
<1> QED BY <1>6, <1>11 DEF IsAt

\* The chunk of n bytes d is whole behind x, with z behind it.
IsFound(b, p, n, x, d, z) ==
    /\ b[p + 1][2] = n /\ WholeChunk(b, p)
    /\ SubSeq(b, 1, p) = x
    /\ SubSeq(b, p + 4, p + 3 + n) = d
    /\ SubSeq(b, p + n + 6, Len(b)) = z

\* What mg_http_parse_chunk() looks at.
IsSized(b, p, n, k) ==
    /\ Len(b) \in Nat /\ Len(b) >= p + n + 5
    /\ b[p + 1] = <<"hex", n, k>> /\ b[p + 2] = <<"cr", 0, k>> /\ b[p + 3] = <<"lf", 0, k>>
    /\ b[p + n + 4] = <<"cr", 0, k>> /\ b[p + n + 5] = <<"lf", 0, k>>

\* It is a whole chunk.
LEMMA ChunkTest ==
  ASSUME NEW b, NEW p \in Nat, NEW n \in Nat, NEW k, IsSized(b, p, n, k)
  PROVE  b[p + 1][2] = n /\ WholeChunk(b, p)
<1>0. /\ Len(b) \in Nat /\ Len(b) >= p + n + 5
      /\ b[p + 1] = <<"hex", n, k>> /\ b[p + 2] = <<"cr", 0, k>> /\ b[p + 3] = <<"lf", 0, k>>
      /\ b[p + n + 4] = <<"cr", 0, k>> /\ b[p + n + 5] = <<"lf", 0, k>>
  BY DEF IsSized
<1>1. b[p + 1][1] = "hex" /\ b[p + 1][2] = n /\ b[p + 2][1] = "cr" /\ b[p + 3][1] = "lf"
  BY <1>0
<1>2. b[p + n + 4][1] = "cr" /\ b[p + n + 5][1] = "lf"
  BY <1>0
<1>3. Len(b) >= p + 5
  BY <1>0
<1>4. PICK g : g = b[p + 1][2]
  OBVIOUS
<1>5. g = n
  BY <1>1, <1>4
<1>6. Len(b) >= p + g + 5 /\ b[p + g + 4][1] = "cr" /\ b[p + g + 5][1] = "lf"
  BY <1>0, <1>2, <1>5
<1> QED BY <1>1, <1>3, <1>4, <1>6, Zenon DEF WholeChunk

\* A chunk that is there is found ...
LEMMA ChunkFound ==
  ASSUME NEW S, NEW x \in Seq(S), NEW w \in Seq(S), NEW z \in Seq(S), NEW b, b = x \o (w \o z),
         NEW p \in Nat, p = Len(x), NEW d \in Seq(S), NEW n \in Nat, n = Len(d), NEW k,
         IsChunk(w, <<"hex", n, k>>, <<"cr", 0, k>>, <<"lf", 0, k>>, d, n)
  PROVE  IsFound(b, p, n, x, d, z)
<1>1. Len(w) = n + 5
  BY DEF IsChunk
<1>2. PICK l \in Nat : l = Len(z)
  OBVIOUS
<1>3. /\ Len(b) = p + ((n + 5) + l)
      /\ \A j \in 1..(n + 5) : b[p + j] = w[j]
  <2>1. AreParts(S, b, x, w, z)
    BY Parts
  <2> QED BY <1>1, <1>2, <2>1 DEF AreParts
<1>4. /\ w[1] = <<"hex", n, k>> /\ w[2] = <<"cr", 0, k>> /\ w[3] = <<"lf", 0, k>>
      /\ w[n + 4] = <<"cr", 0, k>> /\ w[n + 5] = <<"lf", 0, k>>
      /\ \A j \in 1..n : w[3 + j] = d[j]
  BY DEF IsChunk
<1>5. 1 \in 1..(n + 5) /\ 2 \in 1..(n + 5) /\ 3 \in 1..(n + 5) /\ n + 4 \in 1..(n + 5) /\ n + 5 \in 1..(n + 5)
  OBVIOUS
<1>6. /\ b[p + 1] = <<"hex", n, k>> /\ b[p + 2] = <<"cr", 0, k>> /\ b[p + 3] = <<"lf", 0, k>>
      /\ b[p + (n + 4)] = <<"cr", 0, k>> /\ b[p + (n + 5)] = <<"lf", 0, k>>
  BY <1>3, <1>4, <1>5
<1>7. p + (n + 4) = p + n + 4 /\ p + (n + 5) = p + n + 5 /\ p + 3 + 1 = p + 4 /\ p + (3 + n) = p + 3 + n
  OBVIOUS
<1>8. b[p + n + 4] = <<"cr", 0, k>> /\ b[p + n + 5] = <<"lf", 0, k>>
  BY <1>6, <1>7, Zenon
<1>9. Len(b) \in Nat /\ Len(b) >= p + n + 5
  BY <1>2, <1>3
<1>10. b[p + 1][2] = n /\ WholeChunk(b, p)
  <2>1. IsSized(b, p, n, k)
    BY <1>6, <1>8, <1>9, Zenon DEF IsSized
  <2> QED BY <2>1, ChunkTest
<1>11. SubSeq(b, 1, p) = x
  <2>1. PICK y : y = w \o z
    OBVIOUS
  <2>2. y \in Seq(S) /\ b = x \o y
    BY <2>1
  <2> QED BY <2>2, CutFront
<1>12. SubSeq(b, p + 3 + 1, p + (3 + n)) = d
  <2>1. 3 + n <= Len(w)
    BY <1>1
  <2>2. HasAt(w, 3, n, d)
    BY <1>4, <2>1 DEF HasAt
  <2>3. IsAt(b, p, 3, n, d)
    BY <2>2, CutData
  <2> QED BY <2>3, Zenon DEF IsAt
<1>13. SubSeq(b, p + (n + 5) + 1, Len(b)) = z
  <2>1. PICK a \in Nat : a = p + (n + 5)
    OBVIOUS
  <2>2. a = Len(x) + Len(w)
    BY <1>1, <2>1
  <2>3. IsBehind(b, a, z)
    BY <2>2, CutLast
  <2> QED BY <2>1, <2>3 DEF IsBehind
<1>14. p + (n + 5) + 1 = p + n + 6
  OBVIOUS
<1> QED BY <1>7, <1>10, <1>11, <1>12, <1>13, <1>14, Zenon DEF IsFound

\* ... and one of which a part is missing is not.
LEMMA ChunkShort ==
  ASSUME NEW S, NEW x \in Seq(S), NEW v \in Seq(S), NEW b, b = x \o v, NEW p, p = Len(x),
         NEW n \in Nat, NEW k, Len(v) < n + 5, Len(v) >= 1 => v[1] = <<"hex", n, k>>
  PROVE  ~WholeChunk(b, p)
<1>1. IsJoin(S, x, v, b)
  BY Joined
<1>2. PICK l \in Nat : l = Len(v)
  OBVIOUS
<1>3. p \in Nat /\ Len(b) = p + l /\ \A j \in 1..l : b[p + j] = v[j]
  BY <1>1, <1>2 DEF IsJoin
<1>4. ASSUME WholeChunk(b, p) PROVE FALSE
  <2>1. Len(b) >= p + 5 /\ Len(b) >= p + b[p + 1][2] + 5
    BY <1>4 DEF WholeChunk
  <2>2. 1 \in 1..l /\ l >= 1
    BY <1>2, <1>3, <2>1
  <2>3. b[p + 1] = <<"hex", n, k>>
    BY <1>2, <1>3, <2>2
  <2>4. p + l >= p + n + 5
    BY <1>3, <2>1, <2>3
  <2> QED BY <1>2, <1>3, <2>4
<1> QED BY <1>4

----------------------------------------------------------------------------
\* ... or of the frame.

\* The frame of n bytes d is at off, with z behind it.
IsFramed(b, off, n, op, d, z) ==
    /\ b[off + 1] = op /\ Len(b) >= off + 6
    /\ DataEnd(b, off) = off + 6 + n /\ Len(b) >= DataEnd(b, off)
    /\ SubSeq(b, off + 7, DataEnd(b, off)) = d
    /\ SubSeq(b, DataEnd(b, off) + 1, Len(b)) = z

\* A frame that is there is found ...
LEMMA FrameFound ==
  ASSUME NEW S, NEW x \in Seq(S), NEW w \in Seq(S), NEW z \in Seq(S), NEW b, b = x \o (w \o z),
         NEW off \in Nat, off = Len(x), NEW d \in Seq(S), NEW n \in Nat, n = Len(d), NEW k, NEW op, NEW y,
         IsFrame(w, op, <<"len", 128 + n, k>>, y, d, n)
  PROVE  IsFramed(b, off, n, op, d, z)
<1>1. Len(w) = n + 6 /\ w[1] = op /\ w[2] = <<"len", 128 + n, k>> /\ \A j \in 1..n : w[6 + j] = d[j]
  BY DEF IsFrame
<1>2. PICK l \in Nat : l = Len(z)
  OBVIOUS
<1>3. /\ Len(b) = off + ((n + 6) + l)
      /\ \A j \in 1..(n + 6) : b[off + j] = w[j]
  <2>1. AreParts(S, b, x, w, z)
    BY Parts
  <2> QED BY <1>1, <1>2, <2>1 DEF AreParts
<1>4. 1 \in 1..(n + 6) /\ 2 \in 1..(n + 6)
  OBVIOUS
<1>5. b[off + 1] = op /\ b[off + 2] = <<"len", 128 + n, k>>
  BY <1>1, <1>3, <1>4
<1>6. DataEnd(b, off) = off + 6 + n
  <2>1. b[off + 2][2] = 128 + n
    BY <1>5
  <2> QED BY <2>1 DEF DataEnd
<1>7. Len(b) >= off + 6 /\ Len(b) >= off + 6 + n
  BY <1>2, <1>3
<1>8. SubSeq(b, off + 6 + 1, off + (6 + n)) = d
  <2>1. 6 + n <= Len(w)
    BY <1>1
  <2>2. HasAt(w, 6, n, d)
    BY <1>1, <2>1 DEF HasAt
  <2>3. IsAt(b, off, 6, n, d)
    BY <2>2, CutData
  <2> QED BY <2>3, Zenon DEF IsAt
<1>9. SubSeq(b, off + (n + 6) + 1, Len(b)) = z
  <2>1. PICK a \in Nat : a = off + (n + 6)
    OBVIOUS
  <2>2. a = Len(x) + Len(w)
    BY <1>1, <2>1
  <2>3. IsBehind(b, a, z)
    BY <2>2, CutLast
  <2> QED BY <2>1, <2>3 DEF IsBehind
<1>10. off + 6 + 1 = off + 7 /\ off + (6 + n) = off + 6 + n /\ off + (n + 6) + 1 = off + 6 + n + 1
  OBVIOUS
<1> QED BY <1>5, <1>6, <1>7, <1>8, <1>9, <1>10, Zenon DEF IsFramed

\* ... and one of which a part is missing is not.
LEMMA FrameShortOf ==
  ASSUME NEW S, NEW x \in Seq(S), NEW v \in Seq(S), NEW b, b = x \o v, NEW off \in Nat, off = Len(x),
         NEW n \in Nat, NEW k, Len(v) < n + 6, Len(v) >= 2 => v[2] = <<"len", 128 + n, k>>
  PROVE  ~(Len(b) >= off + 6 /\ Len(b) >= DataEnd(b, off))
<1>1. IsJoin(S, x, v, b)
  BY Joined
<1>2. PICK l \in Nat : l = Len(v)
  OBVIOUS
<1>3. Len(b) = off + l /\ \A j \in 1..l : b[off + j] = v[j]
  BY <1>1, <1>2 DEF IsJoin
<1>4. ASSUME Len(b) >= off + 6, Len(b) >= DataEnd(b, off) PROVE FALSE
  <2>1. 2 \in 1..l /\ l >= 2
    BY <1>3, <1>4
  <2>2. b[off + 2] = <<"len", 128 + n, k>>
    BY <1>2, <1>3, <2>1
  <2>3. b[off + 2][2] = 128 + n
    BY <2>2
  <2>4. DataEnd(b, off) = off + 6 + n
    BY <2>3 DEF DataEnd
  <2>5. off + l >= off + 6 + n
    BY <1>3, <1>4, <2>4
  <2> QED BY <1>2, <2>5
<1> QED BY <1>4

\* A frame with an opcode of its own is behind no fragments.
LEMMA NoneYet ==
  ASSUME NEW b, Len(b) \in Nat, NEW op, Len(b) >= 1 => b[1][2] = op, op \in Nat, op % 16 # 0
  PROVE  Reassembled(b) = 0
<1>1. CASE Len(b) >= 5
  <2>1. b[1][2] = op
    BY <1>1
  <2>2. ~(Fragment(op) /\ ~First(op))
    BY DEF Fragment, First
  <2> QED BY <2>1, <2>2 DEF Reassembled
<1>2. CASE ~(Len(b) >= 5)
  BY <1>2 DEF Reassembled
<1> QED BY <1>1, <1>2

\* The five bytes that the code keeps in front of fragments.
LEMMA GatheredIs ==
  ASSUME NEW k \in Nat, NEW u \in Nat, u < 256
  PROVE  /\ Gathered(k, u) \in Seq(Letters) /\ Len(Gathered(k, u)) = 5
         /\ Gathered(k, u)[1] = <<"op", 0, k>> /\ Gathered(k, u)[2] = <<"cell", u, 0>>
<1> DEFINE a == <<"op", 0, k>>
           c == <<"cell", u, 0>>
           e == <<"cell", 0, 0>>
<1>1. a \in Letters /\ c \in Letters /\ e \in Letters
  <2>1. "op" \in Bytes /\ "cell" \in Bytes /\ 0 \in Nat /\ 0 < 256
    BY DEF Bytes
  <2> QED BY <2>1, LetterIs
<1> HIDE DEF a, c, e
<1>2. PICK f : f = [j \in 1..3 |-> e]
  OBVIOUS
<1>3. f \in Seq(Letters) /\ Len(f) = 3
  BY <1>1, <1>2
<1>4. PICK g : g = <<c>>
  OBVIOUS
<1>5. g \in Seq(Letters) /\ Len(g) = 1 /\ g[1] = c
  BY <1>1, <1>4
<1>6. PICK v : v = g \o f
  OBVIOUS
<1>7. v \in Seq(Letters) /\ Len(v) = 4 /\ v[1] = c
  <2>1. IsJoin(Letters, g, f, v)
    BY <1>3, <1>5, <1>6, Joined
  <2>2. 1 \in 1..Len(g)
    BY <1>5
  <2> QED BY <1>3, <1>5, <2>1, <2>2 DEF IsJoin
<1>8. PICK h : h = <<a>>
  OBVIOUS
<1>9. h \in Seq(Letters) /\ Len(h) = 1 /\ h[1] = a
  BY <1>1, <1>8
<1>10. PICK w : w = h \o v
  OBVIOUS
<1>11. w \in Seq(Letters) /\ Len(w) = 5 /\ w[1] = a /\ w[2] = c
  <2>1. IsJoin(Letters, h, v, w)
    BY <1>7, <1>9, <1>10, Joined
  <2>2. 1 \in 1..Len(h) /\ 1 \in 1..Len(v)
    BY <1>7, <1>9
  <2>3. w[1] = h[1] /\ w[1 + 1] = v[1]
    BY <1>9, <2>1, <2>2 DEF IsJoin
  <2>4. w \in Seq(Letters) /\ Len(w) = 5
    BY <1>7, <1>9, <2>1 DEF IsJoin
  <2> QED BY <1>7, <1>9, <2>3, <2>4
<1>12. Gathered(k, u) = w
  BY <1>2, <1>4, <1>6, <1>8, <1>10, Zenon DEF Gathered, Cell, a, c, e
<1> QED BY <1>11, <1>12 DEF a, c

\* b has u reassembled bytes d in front.
IsSome(k, u, d, v, b) ==
    /\ b \in Seq(Letters) /\ Len(b) = 5 + u + Len(v)
    /\ b[1] = <<"op", 0, k>> /\ Reassembled(b) = 5 + u
    /\ SubSeq(b, 6, 5 + u) = d

\* A buffer with u reassembled bytes d in front of v.
LEMMA SomeYet ==
  ASSUME NEW k \in Nat, NEW u \in Nat, u < 256, NEW d \in Seq(Letters), Len(d) = u, NEW v \in Seq(Letters),
         NEW b, b = Gathered(k, u) \o (d \o v)
  PROVE  IsSome(k, u, d, v, b)
<1>1. PICK f : f = Gathered(k, u)
  OBVIOUS
<1>2. f \in Seq(Letters) /\ Len(f) = 5 /\ f[1] = <<"op", 0, k>> /\ f[2] = <<"cell", u, 0>>
  BY <1>1, GatheredIs
<1>3. PICK l \in Nat : l = Len(v)
  OBVIOUS
<1>4. AreParts(Letters, b, f, d, v)
  <2>1. f \in Seq(Letters) /\ b = f \o (d \o v)
    BY <1>1, <1>2
  <2> QED BY <2>1, Parts
<1>5. b \in Seq(Letters) /\ Len(b) = 5 + (u + l) /\ \A j \in 1..5 : b[j] = f[j]
  <2>1. b \in Seq(Letters) /\ Len(b) = Len(f) + (Len(d) + Len(v)) /\ \A j \in 1..Len(f) : b[j] = f[j]
    BY <1>4, Zenon DEF AreParts
  <2>2. Len(f) + (Len(d) + Len(v)) = 5 + (u + l) /\ 1..Len(f) = 1..5
    BY <1>2, <1>3
  <2> QED BY <2>1, <2>2
<1>6. b[1] = <<"op", 0, k>> /\ b[2] = <<"cell", u, 0>>
  <2>1. 1 \in 1..5 /\ 2 \in 1..5
    OBVIOUS
  <2>2. b[1] = f[1] /\ b[2] = f[2]
    BY <1>5, <2>1, Zenon
  <2> QED BY <1>2, <2>2, Zenon
<1>7. Reassembled(b) = 5 + u
  <2>1. b[1][2] = 0 /\ b[2][2] = u
    BY <1>6
  <2>2. Fragment(0) /\ ~First(0)
    BY DEF Fragment, First, Fin
  <2>3. Len(b) >= 5 /\ Len(b) >= 5 + u
    BY <1>3, <1>5
  <2> QED BY <2>1, <2>2, <2>3 DEF Reassembled
<1>8. SubSeq(b, 5 + 0 + 1, 5 + (0 + u)) = d
  <2>1. HasAt(d, 0, u, d)
    BY DEF HasAt
  <2>2. b = f \o (d \o v) /\ 5 = Len(f) /\ 0 \in Nat
    BY <1>1, <1>2
  <2>3. IsAt(b, 5, 0, u, d)
    BY <1>2, <2>1, <2>2, CutData
  <2> QED BY <2>3, Zenon DEF IsAt
<1>9. 5 + 0 + 1 = 6 /\ 5 + (0 + u) = 5 + u /\ Len(b) = 5 + u + l
  BY <1>3, <1>5
<1> QED BY <1>3, <1>5, <1>6, <1>7, <1>8, <1>9 DEF IsSome

----------------------------------------------------------------------------
\* What the buffer of the invariant gives the parsers: chunks ...

\* A part of the stream is a sequence of bytes.
LEMMA WireSeq ==
  ASSUME NEW s \in Sessions, NEW p \in Nat, NEW r, Reach(s, r), p <= r
  PROVE  /\ Wire(s, p, r) \in Seq(Letters) /\ Len(Wire(s, p, r)) = r - p
         /\ p < r => Wire(s, p, r)[1] = Byte(s, p + 1)
<1>1. IsWire(s, p, r, Wire(s, p, r))
  BY WireIs
<1>2. r \in Nat
  BY DEF Reach
<1>3. p < r => 1 \in 1..(r - p)
  BY <1>2
<1> QED BY <1>1, <1>3 DEF IsWire

\* What is read goes behind the rest.
IsReadOn(s, x, p, r, n) == (x \o Wire(s, p, r)) \o Wire(s, r, n) = x \o Wire(s, p, n)

\* Bytes that are read continue the stream.
LEMMA ReadOn ==
  ASSUME NEW s \in Sessions, NEW x \in Seq(Letters), NEW p \in Nat, NEW r \in Nat, NEW n,
         Reach(s, n), p <= r, r <= n
  PROVE  IsReadOn(s, x, p, r, n)
<1>1. Reach(s, r)
  BY ReachDown
<1>2. PICK v : v = Wire(s, p, r)
  OBVIOUS
<1>3. PICK w : w = Wire(s, r, n)
  OBVIOUS
<1>4. v \in Seq(Letters) /\ w \in Seq(Letters)
  BY <1>1, <1>2, <1>3, WireSeq
<1>5. v \o w = Wire(s, p, n)
  BY <1>2, <1>3, WireJoin
<1>6. (x \o v) \o w = x \o (v \o w)
  BY <1>4, ConcatAssociative, SMTT(30)
<1> QED BY <1>2, <1>3, <1>5, <1>6, Zenon DEF IsReadOn

\* Messages start at a byte of the stream.
LEMMA StartIn ==
  ASSUME NEW s \in Sessions, NEW k \in 1..(Len(s.msgs) + 1)
  PROVE  s.starts[k] \in Nat /\ Reach(s, s.starts[k])
<1>1. s.starts[k] \in Nat
  BY Counts
<1> QED BY <1>1 DEF Reach

\* More of a message that nothing was taken from.
LEMMA ReadUntouched ==
  ASSUME NEW s \in Sessions, NEW k \in 1..(Len(s.msgs) + 1), NEW r \in Nat, NEW n, Reach(s, n), r <= n,
         NEW b, Untouched(s, k, r, b)
  PROVE  Untouched(s, k, n, b \o Wire(s, r, n))
<1>1. s.starts[k] \in Nat /\ s.starts[k] <= r /\ b = Wire(s, s.starts[k], r) /\ n \in Nat
  BY StartIn DEF Untouched, Reach
<1>2. b \o Wire(s, r, n) = Wire(s, s.starts[k], n)
  BY <1>1, WireJoin, Zenon
<1>3. s.starts[k] <= n
  BY <1>1
<1> QED BY <1>2, <1>3 DEF Untouched

\* Headers are a byte of the stream here.
LEMMA HeadLetter ==
  ASSUME NEW k \in Nat
  PROVE  <<<<"head", 0, k>>>> \in Seq(Letters) /\ Len(<<<<"head", 0, k>>>>) = 1
<1>1. PICK h : h = <<"head", 0, k>>
  OBVIOUS
<1>2. h \in Letters
  <2>1. "head" \in Bytes /\ 0 \in Nat /\ 0 < 256
    BY DEF Bytes
  <2> QED BY <1>1, <2>1, LetterIs
<1>3. <<h>> \in Seq(Letters) /\ Len(<<h>>) = 1
  BY <1>2
<1> QED BY <1>1, <1>3

\* The parts of such a buffer.
AreChunks(s, k, i, t, r, b, x, d, v) ==
    /\ x = <<<<"head", 0, k>>>> \o d /\ v = Wire(s, At(s, k, i), r) /\ b = x \o v
    /\ d = Payload(s.msgs[k], k, t, Upto(s.msgs[k], i))
    /\ x \in Seq(Letters) /\ d \in Seq(Letters) /\ v \in Seq(Letters)
    /\ Len(d) = Upto(s.msgs[k], i) - t /\ Len(x) = 1 + (Upto(s.msgs[k], i) - t) /\ Len(v) = r - At(s, k, i)
    /\ Upto(s.msgs[k], i) \in Nat /\ At(s, k, i) \in Nat /\ r \in Nat
    /\ x[1] = <<"head", 0, k>>

\* A buffer with chunks has its parts.
LEMMA ChunkView ==
  ASSUME NEW s \in Sessions, NEW k \in 1..Len(s.msgs), NEW r, Reach(s, r),
         NEW i, NEW t, NEW b, HasChunks(s, k, i, t, r, b)
  PROVE  \E x, d, v : AreChunks(s, k, i, t, r, b, x, d, v)
<1> DEFINE m == s.msgs[k]
<1>1. /\ i \in 0..Len(m.ends) /\ At(s, k, i) <= r /\ t \in Nat /\ t <= Upto(m, i)
      /\ b = (<<<<"head", 0, k>>>> \o Payload(m, k, t, Upto(m, i))) \o Wire(s, At(s, k, i), r)
  BY DEF HasChunks
<1>2. PICK u : u = Upto(m, i)
  OBVIOUS
<1>3. PICK p : p = At(s, k, i)
  OBVIOUS
<1>4. u \in Nat /\ m.from \in Nat /\ m.from + u <= 255
  <2>1. /\ Len(m.ends) \in Nat /\ Upto(m, i) \in Nat /\ Upto(m, i) <= Upto(m, Len(m.ends))
        /\ m.from \in Nat /\ m.from + Size(m) <= 255 /\ Size(m) \in Nat
    <3>1. /\ Len(m.ends) \in Nat \ {0}
          /\ \A h \in 0..Len(m.ends) : Upto(m, h) \in Nat
          /\ \A h, j \in 0..Len(m.ends) : h <= j => Upto(m, h) <= Upto(m, j)
          /\ m.from \in Nat /\ m.from + Size(m) <= 255 /\ Size(m) \in Nat
      BY Upward
    <3>2. Len(m.ends) \in 0..Len(m.ends) /\ i <= Len(m.ends)
      BY <1>1, <3>1
    <3> QED BY <1>1, <3>1, <3>2
  <2>2. u <= Size(m)
    BY <1>2, <2>1 DEF Size
  <2> HIDE DEF m
  <2> QED BY <1>2, <2>1, <2>2
<1>5. p \in Nat /\ r \in Nat /\ p <= r
  <2>1. r \in Nat
    BY DEF Reach
  <2> QED BY <1>1, <1>3, <2>1, PlaceIn
<1>6. PICK d : d = Payload(m, k, t, u)
  OBVIOUS
<1>7. d \in Seq(Letters) /\ Len(d) = u - t
  <2>1. IsPayload(m, k, t, u, d)
    <3>1. k \in Nat /\ t <= u
      BY <1>1, <1>2
    <3> QED BY <1>1, <1>4, <1>6, <3>1, PayloadIs
  <2> QED BY <2>1 DEF IsPayload
<1>8. PICK h : h = <<<<"head", 0, k>>>>
  OBVIOUS
<1>9. h \in Seq(Letters) /\ Len(h) = 1 /\ h[1] = <<"head", 0, k>>
  BY <1>8, HeadLetter
<1>10. PICK x : x = h \o d
  OBVIOUS
<1>11. x \in Seq(Letters) /\ Len(x) = 1 + (u - t) /\ x[1] = <<"head", 0, k>>
  <2>1. IsJoin(Letters, h, d, x)
    BY <1>7, <1>9, <1>10, Joined
  <2>2. 1 \in 1..Len(h)
    BY <1>9
  <2> QED BY <1>7, <1>9, <2>1, <2>2 DEF IsJoin
<1>12. PICK v : v = Wire(s, p, r)
  OBVIOUS
<1>13. v \in Seq(Letters) /\ Len(v) = r - p
  BY <1>5, <1>12, WireSeq
<1>14. b = x \o v
  BY <1>1, <1>2, <1>3, <1>6, <1>8, <1>10, <1>12, Zenon
<1>15. AreChunks(s, k, i, t, r, b, x, d, v)
  BY <1>2, <1>3, <1>4, <1>5, <1>6, <1>7, <1>8, <1>10, <1>11, <1>12, <1>13, <1>14, Zenon DEF AreChunks
<1> QED BY <1>15

\* Chunk j, behind chunk i: n bytes d in w.
IsNext(s, k, i, j, n, d, w) ==
    /\ n \in Nat /\ Upto(s.msgs[k], i) \in Nat /\ Upto(s.msgs[k], j) = Upto(s.msgs[k], i) + n
    /\ n = 0 <=> j = Len(s.msgs[k].ends)
    /\ d \in Seq(Letters) /\ Len(d) = n /\ d = Payload(s.msgs[k], k, Upto(s.msgs[k], i), Upto(s.msgs[k], j))
    /\ w \in Seq(Letters) /\ w = Wire(s, At(s, k, i), At(s, k, j))
    /\ IsChunk(w, <<"hex", n, k>>, <<"cr", 0, k>>, <<"lf", 0, k>>, d, n)
    /\ At(s, k, i) \in Nat /\ At(s, k, j) = At(s, k, i) + (n + 5)
    /\ Byte(s, At(s, k, i) + 1) = <<"hex", n, k>>

\* Behind chunk i comes the next one, if it has been read.
LEMMA ChunkNext ==
  ASSUME NEW s \in Sessions, NEW k \in 1..Len(s.msgs), s.msgs[k].kind = "chunked",
         NEW j \in 1..Len(s.msgs[k].ends), NEW i, i = j - 1
  PROVE  \E n, d, w : IsNext(s, k, i, j, n, d, w)
<1> DEFINE m == s.msgs[k]
           n == Upto(m, j) - Upto(m, j - 1)
           d == Payload(m, k, Upto(m, j - 1), Upto(m, j))
           w == Piece(m, k, j)
<1>1. Len(m.ends) \in Nat
  BY Upward
<1>2. /\ n \in Nat /\ (n = 0 <=> j = Len(m.ends))
      /\ w \in Seq(Letters) /\ IsChunk(w, <<"hex", n, k>>, <<"cr", 0, k>>, <<"lf", 0, k>>, d, n)
  BY ChunkPiece
<1>3. Upto(m, j - 1) \in Nat /\ Upto(m, j) \in Nat /\ IsPayload(m, k, Upto(m, j - 1), Upto(m, j), d)
  BY DataIs
<1>4. d \in Seq(Letters) /\ Len(d) = n
  BY <1>3, Zenon DEF IsPayload, n
<1>5. Wire(s, At(s, k, j - 1), At(s, k, j)) = w /\ At(s, k, j) = At(s, k, j - 1) + Len(w)
  BY WirePiece
<1>6. Len(w) = n + 5 /\ w[1] = <<"hex", n, k>>
  BY <1>2, Zenon DEF IsChunk
<1>7. At(s, k, j - 1) \in Nat
  <2>1. j - 1 \in 0..Len(m.ends)
    BY <1>1
  <2> QED BY <2>1, PlaceIn
<1> HIDE DEF n, d, w
<1>8. At(s, k, j - 1) + 1 <= At(s, k, j) /\ 1 \in Nat /\ 1 <= 1
  <2>1. PICK a \in Nat : a = At(s, k, j - 1)
    BY <1>7
  <2>2. a + 1 <= a + (n + 5)
    BY <1>2
  <2> QED BY <1>5, <1>6, <2>1, <2>2
<1>9. Byte(s, At(s, k, j - 1) + 1) = w[1]
  BY <1>8, PieceByte DEF w
<1>10. Upto(m, j) = Upto(m, j - 1) + n
  BY <1>3 DEF n
<1>11. IsNext(s, k, j - 1, j, n, d, w)
  BY <1>2, <1>3, <1>4, <1>5, <1>6, <1>7, <1>9, <1>10, Zenon DEF IsNext, d
<1> QED BY <1>11

\* The data of the next chunk continues the body.
LEMMA PayloadGrows ==
  ASSUME NEW s \in Sessions, NEW k \in 1..Len(s.msgs),
         NEW i \in 0..Len(s.msgs[k].ends), NEW j \in 0..Len(s.msgs[k].ends), i <= j,
         NEW t \in Nat, t <= Upto(s.msgs[k], i)
  PROVE  /\ Payload(s.msgs[k], k, t, Upto(s.msgs[k], i)) \o Payload(s.msgs[k], k, Upto(s.msgs[k], i), Upto(s.msgs[k], j))
            = Payload(s.msgs[k], k, t, Upto(s.msgs[k], j))
         /\ t <= Upto(s.msgs[k], j)
<1> DEFINE m == s.msgs[k]
<1>1. /\ Len(m.ends) \in Nat \ {0}
      /\ \A h \in 0..Len(m.ends) : Upto(m, h) \in Nat
      /\ \A h, l \in 0..Len(m.ends) : h <= l => Upto(m, h) <= Upto(m, l)
      /\ m.from \in Nat /\ m.from + Size(m) <= 255 /\ Size(m) \in Nat
  BY Upward, ZenonT(30)
<1>2. Upto(m, i) <= Upto(m, j) /\ Upto(m, i) \in Nat /\ Upto(m, j) \in Nat
  BY <1>1
<1>3. Upto(m, j) <= Size(m)
  <2>1. Len(m.ends) \in 0..Len(m.ends) /\ j <= Len(m.ends)
    BY <1>1
  <2> QED BY <1>1, <2>1 DEF Size
<1> HIDE DEF m
<1>4. PICK u \in Nat : u = Upto(m, i)
  BY <1>2
<1>5. PICK v \in Nat : v = Upto(m, j)
  BY <1>2
<1>6. t <= u /\ u <= v /\ m.from \in Nat /\ m.from + v <= 255 /\ k \in Nat
  BY <1>1, <1>2, <1>3, <1>4, <1>5, SMTT(30) DEF m
<1>7. IsGrown(m, k, t, u, v)
  BY <1>6, PayloadJoin
<1>8. t <= v
  BY <1>6
<1> QED BY <1>4, <1>5, <1>7, <1>8, Zenon DEF m, IsGrown

\* What a pass of the loop of mg_handle_chunked() makes of b.
IsCollapse(b, p, n, e) ==
    /\ WholeChunk(b, p) /\ b[p + 1][2] = n
    /\ e = SubSeq(b, 1, p) \o SubSeq(b, p + 4, p + 3 + n) \o SubSeq(b, p + n + 6, Len(b))

\* The pass finds the chunk and leaves the body with its data.
IsPass(s, k, j, t, r, b, c, p, n, e) ==
    /\ n \in Nat /\ IsCollapse(b, p, n, e) /\ HasChunks(s, k, j, t, r, e)
    /\ Upto(s.msgs[k], j) = t + (c + n) /\ (n = 0 <=> j = Len(s.msgs[k].ends))

\* A pass of the loop collapses the next chunk if it is there.
LEMMA CollapseChunk ==
  ASSUME NEW s \in Sessions, NEW k \in 1..Len(s.msgs), s.msgs[k].kind = "chunked", NEW r, Reach(s, r),
         NEW i, NEW t, NEW b, HasChunks(s, k, i, t, r, b), NEW j \in 1..Len(s.msgs[k].ends), i = j - 1,
         NEW c \in Nat, Upto(s.msgs[k], i) = t + c, NEW p, p = 1 + c, At(s, k, j) <= r
  PROVE  \E n, e : IsPass(s, k, j, t, r, b, c, p, n, e)
<1> DEFINE m == s.msgs[k]
<1>1. i \in 0..Len(m.ends) /\ t \in Nat /\ t <= Upto(m, i)
  BY DEF HasChunks
<1>2. PICK x, d0, v : AreChunks(s, k, i, t, r, b, x, d0, v)
  BY ChunkView
<1>3. PICK n, d, w : IsNext(s, k, i, j, n, d, w)
  BY ChunkNext
<1> HIDE DEF m
<1>4. /\ x = <<<<"head", 0, k>>>> \o d0 /\ v = Wire(s, At(s, k, i), r) /\ b = x \o v
      /\ d0 = Payload(m, k, t, Upto(m, i))
      /\ x \in Seq(Letters) /\ d0 \in Seq(Letters) /\ v \in Seq(Letters)
      /\ Len(x) = 1 + (Upto(m, i) - t) /\ r \in Nat /\ At(s, k, i) \in Nat
  BY <1>2, Zenon DEF AreChunks, m
<1>5. /\ n \in Nat /\ Upto(m, i) \in Nat /\ Upto(m, j) = Upto(m, i) + n /\ (n = 0 <=> j = Len(m.ends))
      /\ d \in Seq(Letters) /\ Len(d) = n /\ d = Payload(m, k, Upto(m, i), Upto(m, j))
      /\ w \in Seq(Letters) /\ w = Wire(s, At(s, k, i), At(s, k, j))
      /\ IsChunk(w, <<"hex", n, k>>, <<"cr", 0, k>>, <<"lf", 0, k>>, d, n)
      /\ At(s, k, j) = At(s, k, i) + (n + 5)
  BY <1>3, Zenon DEF IsNext, m
<1>6. PICK a \in Nat : a = At(s, k, i)
  BY <1>4
<1>7. PICK q \in Nat : q = At(s, k, j)
  BY <1>4, <1>5
<1>8. a <= q /\ q <= r
  <2>1. q = a + (n + 5)
    BY <1>5, <1>6, <1>7
  <2> QED BY <1>5, <1>7, <2>1, SMTT(30)
<1>9. PICK z : z = Wire(s, q, r)
  OBVIOUS
<1>10. v = w \o z /\ z \in Seq(Letters)
  <2>1. w = Wire(s, a, q) /\ v = Wire(s, a, r)
    BY <1>4, <1>5, <1>6, <1>7
  <2>2. Wire(s, a, q) \o Wire(s, q, r) = Wire(s, a, r)
    BY <1>8, WireJoin
  <2>3. Wire(s, q, r) \in Seq(Letters)
    BY <1>8, WireSeq
  <2> QED BY <1>9, <2>1, <2>2, <2>3, Zenon
<1>11. b = x \o (w \o z)
  BY <1>4, <1>10, Zenon
<1>12. p \in Nat /\ p = Len(x)
  <2>1. Upto(m, i) - t = c
    BY <1>1 DEF m
  <2> QED BY <1>4, <2>1
<1>13. n \in Nat /\ n = Len(d)
  BY <1>5
<1>14. IsFound(b, p, n, x, d, z)
  BY <1>4, <1>5, <1>10, <1>11, <1>12, <1>13, ChunkFound
<1>15. PICK e : e = x \o d \o z
  OBVIOUS
<1>16. IsCollapse(b, p, n, e)
  BY <1>14, <1>15, Zenon DEF IsFound, IsCollapse
<1>17. j \in 0..Len(m.ends) /\ i <= j
  BY <1>1 DEF m
<1>18. d0 \o d = Payload(m, k, t, Upto(m, j)) /\ t <= Upto(m, j)
  <2>1. /\ Payload(m, k, t, Upto(m, i)) \o Payload(m, k, Upto(m, i), Upto(m, j)) = Payload(m, k, t, Upto(m, j))
        /\ t <= Upto(m, j)
    BY <1>1, <1>17, PayloadGrows DEF m
  <2> QED BY <1>4, <1>5, <2>1, Zenon
<1>19. x \o d = <<<<"head", 0, k>>>> \o Payload(m, k, t, Upto(m, j))
  <2>1. PICK h : h = <<<<"head", 0, k>>>>
    OBVIOUS
  <2>2. h \in Seq(Letters)
    <3>1. k \in Nat
      OBVIOUS
    <3>2. <<<<"head", 0, k>>>> \in Seq(Letters)
      BY <3>1, HeadLetter
    <3> QED BY <2>1, <3>2, Zenon
  <2>3. (h \o d0) \o d = h \o (d0 \o d)
    <3>1. d0 \in Seq(Letters) /\ d \in Seq(Letters)
      BY <1>4, <1>5, Zenon
    <3>2. IsAssociative(h, d0, d)
      BY <2>2, <3>1, Associated
    <3> QED BY <3>2, Zenon DEF IsAssociative
  <2> QED BY <1>4, <1>18, <2>1, <2>3, Zenon
<1>20. HasChunks(s, k, j, t, r, e)
  <2>1. At(s, k, j) <= r
    OBVIOUS
  <2> QED BY <1>1, <1>7, <1>9, <1>15, <1>17, <1>18, <1>19, <2>1, Zenon DEF HasChunks, m
<1>21. Upto(m, j) = t + (c + n)
  <2>1. Upto(m, i) = t + c
    BY DEF m
  <2> QED BY <1>1, <1>5, <2>1
<1> QED BY <1>5, <1>16, <1>20, <1>21, Zenon DEF m, IsPass

\* A chunk that has not been read in full is not found.
LEMMA NoChunkYet ==
  ASSUME NEW s \in Sessions, NEW k \in 1..Len(s.msgs), s.msgs[k].kind = "chunked", NEW r, Reach(s, r),
         NEW i, NEW t, NEW b, HasChunks(s, k, i, t, r, b), NEW j \in 1..Len(s.msgs[k].ends), i = j - 1,
         NEW c \in Nat, Upto(s.msgs[k], i) = t + c, NEW p, p = 1 + c, r < At(s, k, j)
  PROVE  ~WholeChunk(b, p)
<1> DEFINE m == s.msgs[k]
<1>1. t \in Nat /\ At(s, k, i) <= r
  BY DEF HasChunks
<1>2. PICK x, d0, v : AreChunks(s, k, i, t, r, b, x, d0, v)
  BY ChunkView
<1>3. PICK n, d, w : IsNext(s, k, i, j, n, d, w)
  BY ChunkNext
<1> HIDE DEF m
<1>4. /\ b = x \o v /\ x \in Seq(Letters) /\ v \in Seq(Letters) /\ Len(x) = 1 + (Upto(m, i) - t)
      /\ v = Wire(s, At(s, k, i), r) /\ Len(v) = r - At(s, k, i) /\ r \in Nat /\ At(s, k, i) \in Nat
  BY <1>2, Zenon DEF AreChunks, m
<1>5. n \in Nat /\ At(s, k, j) = At(s, k, i) + (n + 5) /\ Byte(s, At(s, k, i) + 1) = <<"hex", n, k>>
  BY <1>3, Zenon DEF IsNext
<1>6. PICK a \in Nat : a = At(s, k, i)
  BY <1>4
<1>7. Len(v) < n + 5
  <2>1. r < a + (n + 5) /\ Len(v) = r - a
    BY <1>4, <1>5, <1>6
  <2> QED BY <1>4, <1>5, <2>1
<1>8. Len(v) >= 1 => v[1] = <<"hex", n, k>>
  <2>1. a <= r /\ Byte(s, a + 1) = <<"hex", n, k>> /\ v = Wire(s, a, r) /\ Len(v) = r - a
    BY <1>1, <1>4, <1>5, <1>6
  <2>2. Len(v) >= 1 => a < r
    BY <1>4, <2>1, SMTT(30)
  <2> QED BY <2>1, <2>2, WireSeq
<1>9. p = Len(x)
  <2>1. Upto(m, i) - t = c
    BY <1>1 DEF m
  <2> QED BY <1>4, <2>1
<1> QED BY <1>4, <1>5, <1>7, <1>8, <1>9, ChunkShort

\* No bytes of a payload.
LEMMA PayloadEmpty ==
  ASSUME NEW m, NEW k, NEW i \in Nat
  PROVE  Payload(m, k, i, i) = <<>>
<1>1. 1..(i - i) = {}
  OBVIOUS
<1> QED BY <1>1 DEF Payload

\* b has a body d of c bytes, and without it is e.
IsBody(b, c, d, e) ==
    /\ SubSeq(b, 2, 1 + c) = d
    /\ SubSeq(b, 1, 1) \o SubSeq(b, c + 2, Len(b)) = e

\* A request of message k with c bytes of its body in front.
IsHeaded(b, c, r, p, k) == b \in Seq(Letters) /\ b[1] = <<"head", 0, k>> /\ Len(b) = (1 + c) + (r - p)

\* What the user gets of a body, and what is left of it when he takes it out.
LEMMA ChunkBody ==
  ASSUME NEW s \in Sessions, NEW k \in 1..Len(s.msgs), NEW r, Reach(s, r),
         NEW i, NEW t, NEW b, HasChunks(s, k, i, t, r, b),
         NEW c \in Nat, NEW u, u = Upto(s.msgs[k], i), u = t + c
  PROVE  /\ IsHeaded(b, c, r, At(s, k, i), k)
         /\ \E e : IsBody(b, c, Payload(s.msgs[k], k, t, u), e) /\ HasChunks(s, k, i, u, r, e)
<1> DEFINE m == s.msgs[k]
<1>1. i \in 0..Len(m.ends) /\ At(s, k, i) <= r /\ t \in Nat /\ t <= u
  BY DEF HasChunks
<1>2. PICK x, d, v : AreChunks(s, k, i, t, r, b, x, d, v)
  BY ChunkView
<1> HIDE DEF m
<1>3. PICK h : h = <<<<"head", 0, k>>>>
  OBVIOUS
<1>4. h \in Seq(Letters) /\ Len(h) = 1
  <2>1. k \in Nat
    OBVIOUS
  <2>2. <<<<"head", 0, k>>>> \in Seq(Letters) /\ Len(<<<<"head", 0, k>>>>) = 1
    BY <2>1, HeadLetter
  <2> QED BY <1>3, <2>2, Zenon
<1>5. /\ x = h \o d /\ v = Wire(s, At(s, k, i), r) /\ b = x \o v
      /\ d = Payload(m, k, t, u)
      /\ x \in Seq(Letters) /\ d \in Seq(Letters) /\ v \in Seq(Letters)
      /\ Len(d) = u - t /\ Len(v) = r - At(s, k, i) /\ r \in Nat /\ At(s, k, i) \in Nat
      /\ x[1] = <<"head", 0, k>>
  BY <1>2, <1>3, Zenon DEF AreChunks, m
<1>6. Len(d) = c
  BY <1>1, <1>5
<1>7. b = h \o (d \o v)
  <2>1. IsAssociative(h, d, v)
    BY <1>4, <1>5, Associated
  <2> QED BY <1>5, <2>1, Zenon DEF IsAssociative
<1>8. AreParts(Letters, b, h, d, v)
  BY <1>4, <1>5, <1>7, Parts
<1>9. b \in Seq(Letters) /\ Len(b) = (1 + c) + (r - At(s, k, i))
  <2>1. b \in Seq(Letters) /\ Len(b) = Len(h) + (Len(d) + Len(v))
    BY <1>8, Zenon DEF AreParts
  <2>2. PICK a \in Nat : a = At(s, k, i)
    BY <1>5
  <2>3. Len(h) + (Len(d) + Len(v)) = (1 + c) + (r - a)
    <3>1. Len(h) = 1 /\ Len(d) = c /\ Len(v) = r - a
      BY <1>4, <1>5, <1>6, <2>2, Zenon
    <3>2. r - a \in Int
      BY <1>5, <2>2
    <3>3. 1 + (c + (r - a)) = (1 + c) + (r - a)
      BY <3>2
    <3> QED BY <3>1, <3>3, Zenon
  <2> QED BY <2>1, <2>2, <2>3
<1>10. b[1] = <<"head", 0, k>>
  <2>1. IsJoin(Letters, x, v, b)
    BY <1>5, Joined
  <2>2. Len(x) >= 1 /\ Len(x) \in Nat
    <3>1. IsJoin(Letters, h, d, x)
      BY <1>4, <1>5, Joined
    <3>2. Len(x) = Len(h) + Len(d)
      BY <3>1 DEF IsJoin
    <3> QED BY <1>4, <1>6, <3>2
  <2>3. 1 \in 1..Len(x)
    BY <2>2
  <2>4. b[1] = x[1]
    BY <2>1, <2>3, Zenon DEF IsJoin
  <2> QED BY <1>5, <2>4, Zenon
<1>11. SubSeq(b, 2, 1 + c) = d
  <2>1. HasAt(d, 0, c, d)
    BY <1>5, <1>6 DEF HasAt
  <2>2. 1 = Len(h) /\ 0 \in Nat /\ c = Len(d)
    BY <1>4, <1>6
  <2>3. IsAt(b, 1, 0, c, d)
    BY <1>4, <1>5, <1>7, <2>1, <2>2, CutData
  <2>4. 1 + 0 + 1 = 2 /\ 1 + (0 + c) = 1 + c
    OBVIOUS
  <2> QED BY <2>3, <2>4, Zenon DEF IsAt
<1>12. SubSeq(b, c + 2, Len(b)) = v
  <2>1. PICK n \in Nat : n = 1 + c
    OBVIOUS
  <2>2. n = Len(h) + Len(d)
    BY <1>4, <1>6, <2>1
  <2>3. IsBehind(b, n, v)
    <3>1. v \in Seq(Letters) /\ d \in Seq(Letters)
      BY <1>5, Zenon
    <3> QED BY <1>4, <1>7, <2>2, <3>1, CutLast
  <2>4. n + 1 = c + 2
    BY <2>1
  <2> QED BY <2>3, <2>4, Zenon DEF IsBehind
<1>13. SubSeq(b, 1, 1) = h
  <2>1. PICK y : y = d \o v
    OBVIOUS
  <2>2. y \in Seq(Letters) /\ b = h \o y
    <3>1. IsJoin(Letters, d, v, y)
      BY <1>5, <2>1, Joined
    <3>2. y \in Seq(Letters)
      BY <3>1, Zenon DEF IsJoin
    <3> QED BY <1>7, <2>1, <3>2, Zenon
  <2>3. 1 = Len(h)
    BY <1>4
  <2> QED BY <1>4, <2>2, <2>3, CutFront
<1>14. PICK e : e = h \o v
  OBVIOUS
<1>15. IsBody(b, c, Payload(m, k, t, u), e)
  BY <1>5, <1>11, <1>12, <1>13, <1>14, Zenon DEF IsBody
<1>16. u \in Nat /\ u <= u
  BY <1>1
<1>17. HasChunks(s, k, i, u, r, e)
  <2>1. Payload(m, k, u, u) = <<>>
    BY <1>16, PayloadEmpty
  <2>2. h \o <<>> = h
    BY <1>4, ConcatEmptySeq
  <2>3. e = (h \o Payload(m, k, u, u)) \o Wire(s, At(s, k, i), r)
    BY <1>5, <1>14, <2>1, <2>2, Zenon
  <2>4. u = Upto(m, i)
    BY DEF m
  <2>5. e = (h \o Payload(m, k, u, Upto(m, i))) \o Wire(s, At(s, k, i), r) /\ u <= Upto(m, i)
    BY <1>16, <2>3, <2>4, Zenon
  <2> QED BY <1>1, <1>3, <1>16, <2>5, Zenon DEF HasChunks, m
<1> QED BY <1>9, <1>10, <1>15, <1>17, Zenon DEF m, IsHeaded

\* A request at the head of the buffer.
LEMMA Headed ==
  ASSUME NEW s \in Sessions, NEW k \in 1..Len(s.msgs), s.msgs[k].kind \in Http, NEW r, Reach(s, r),
         NEW b, Untouched(s, k, r, b), s.starts[k] < r
  PROVE  /\ b \in Seq(Letters) /\ b[1] = <<"head", 0, k>> /\ Len(b) = r - s.starts[k]
         /\ b = <<<<"head", 0, k>>>> \o Wire(s, At(s, k, 0), r)
         /\ At(s, k, 0) = s.starts[k] + 1 /\ At(s, k, 0) <= r
<1>1. PICK a \in Nat : a = s.starts[k]
  BY Shape
<1>2. r \in Nat /\ a < r /\ a <= r /\ a + 1 \in Nat /\ a + 1 <= r /\ a <= a + 1
  BY <1>1 DEF Reach
<1>3. b = Wire(s, a, r)
  BY <1>1 DEF Untouched
<1>4. Wire(s, a, a + 1) = <<<<"head", 0, k>>>> /\ At(s, k, 0) = a + 1
  BY <1>1, WireHead
<1>5. Wire(s, a, a + 1) \o Wire(s, a + 1, r) = Wire(s, a, r)
  BY <1>2, WireJoin
<1>6. Byte(s, a + 1) = <<"head", 0, k>>
  BY <1>1, HeadByte
<1>7. b \in Seq(Letters) /\ Len(b) = r - a /\ b[1] = Byte(s, a + 1)
  BY <1>2, <1>3, WireSeq
<1> QED BY <1>1, <1>2, <1>3, <1>4, <1>5, <1>6, <1>7

\* A chunked request of which nothing has been collapsed.
LEMMA FirstChunks ==
  ASSUME NEW s \in Sessions, NEW k \in 1..Len(s.msgs), s.msgs[k].kind = "chunked", NEW r, Reach(s, r),
         NEW b, Untouched(s, k, r, b), s.starts[k] < r
  PROVE  HasChunks(s, k, 0, 0, r, b) /\ Upto(s.msgs[k], 0) = 0
<1> DEFINE m == s.msgs[k]
<1>1. m.kind \in Http
  BY DEF Http
<1>2. PICK h : h = <<<<"head", 0, k>>>>
  OBVIOUS
<1>3. b = h \o Wire(s, At(s, k, 0), r) /\ At(s, k, 0) <= r
  BY <1>1, <1>2, Headed
<1>4. Upto(m, 0) = 0 /\ 0 \in 0..Len(m.ends)
  <2>1. Len(m.ends) \in Nat
    BY Upward
  <2> QED BY <2>1 DEF Upto
<1> HIDE DEF m
<1>5. Payload(m, k, 0, 0) = <<>>
  BY PayloadEmpty
<1>6. h \o <<>> = h
  <2>1. k \in Nat
    OBVIOUS
  <2>2. <<<<"head", 0, k>>>> \in Seq(Letters)
    BY <2>1, HeadLetter
  <2>3. h \in Seq(Letters)
    BY <1>2, <2>2, Zenon
  <2> QED BY <2>3, ConcatEmptySeq
<1>7. b = (h \o Payload(m, k, 0, Upto(m, 0))) \o Wire(s, At(s, k, 0), r)
  BY <1>3, <1>4, <1>5, <1>6, Zenon
<1>8. 0 \in Nat /\ 0 <= Upto(m, 0)
  BY <1>4
<1> QED BY <1>2, <1>3, <1>4, <1>7, <1>8, Zenon DEF HasChunks, m

----------------------------------------------------------------------------
\* ... requests with a length or without one ...

\* Where the next message starts.
LEMMA NextIn ==
  ASSUME NEW s \in Sessions, NEW k \in 1..Len(s.msgs)
  PROVE  k + 1 \in 1..(Len(s.msgs) + 1) /\ k \in 1..(Len(s.msgs) + 1)
<1>1. Len(s.msgs) \in Nat
  BY Counts
<1> QED BY <1>1

\* The body of a request that is not chunked.
LEMMA BodyWire ==
  ASSUME NEW s \in Sessions, NEW k \in 1..Len(s.msgs), s.msgs[k].kind \in Http, s.msgs[k].kind # "chunked",
         NEW d, d = Payload(s.msgs[k], k, 0, Size(s.msgs[k]))
  PROVE  /\ d \in Seq(Letters) /\ Len(d) = Size(s.msgs[k]) /\ Size(s.msgs[k]) \in Nat
         /\ Wire(s, At(s, k, 0), s.starts[k + 1]) = d
         /\ At(s, k, 0) = s.starts[k] + 1
         /\ s.starts[k + 1] = s.starts[k] + (1 + Size(s.msgs[k]))
<1> DEFINE m == s.msgs[k]
<1>1. /\ Len(m.ends) = 1 /\ Piece(m, k, 1) = Payload(m, k, 0, Size(m))
      /\ IsPayload(m, k, 0, Size(m), Payload(m, k, 0, Size(m)))
      /\ Place(m, 0) = 1 /\ Place(m, 1) = 1 + Size(m)
  BY BodyPiece
<1>2. Size(m) \in Nat
  BY Upward
<1>3. d \in Seq(Letters) /\ Len(d) = Size(m)
  <2>1. d \in Seq(Letters) /\ Len(d) = Size(m) - 0
    BY <1>1, Zenon DEF IsPayload
  <2> QED BY <1>2, <2>1
<1>4. 1 \in 1..Len(m.ends) /\ 1 - 1 = 0
  BY <1>1
<1>5. Wire(s, At(s, k, 1 - 1), At(s, k, 1)) = Piece(m, k, 1)
  BY <1>4, WirePiece
<1>6. s.starts[k + 1] = s.starts[k] + Length(m)
  BY Shape DEF Proper
<1>7. Length(m) = 1 + Size(m)
  BY <1>1 DEF Length
<1>8. At(s, k, 1) = s.starts[k + 1] /\ At(s, k, 0) = s.starts[k] + 1
  BY <1>1, <1>6, <1>7, Zenon DEF At
<1> QED BY <1>1, <1>2, <1>3, <1>4, <1>5, <1>6, <1>7, <1>8

\* b has a request of n bytes with body d in front of e.
IsRequest(b, n, d, e) == SubSeq(b, 2, n) = d /\ SubSeq(b, n + 1, Len(b)) = e

\* A request that is whole is taken out, with its body and nothing else.
LEMMA RequestWhole ==
  ASSUME NEW s \in Sessions, NEW k \in 1..Len(s.msgs), s.msgs[k].kind \in Http, s.msgs[k].kind # "chunked",
         NEW r, Reach(s, r), NEW b, Untouched(s, k, r, b), s.starts[k] < r,
         NEW n, n = 1 + Size(s.msgs[k])
  PROVE  /\ n <= Len(b) <=> s.starts[k + 1] <= r
         /\ s.starts[k + 1] <= r =>
              \E e : IsRequest(b, n, Payload(s.msgs[k], k, 0, Size(s.msgs[k])), e) /\ Untouched(s, k + 1, r, e)
<1> DEFINE m == s.msgs[k]
<1>1. PICK d : d = Payload(m, k, 0, Size(m))
  OBVIOUS
<1>2. PICK h : h = <<<<"head", 0, k>>>>
  OBVIOUS
<1>3. h \in Seq(Letters) /\ Len(h) = 1
  <2>1. k \in Nat
    OBVIOUS
  <2>2. <<<<"head", 0, k>>>> \in Seq(Letters) /\ Len(<<<<"head", 0, k>>>>) = 1
    BY <2>1, HeadLetter
  <2> QED BY <1>2, <2>2, Zenon
<1>4. /\ d \in Seq(Letters) /\ Len(d) = Size(m) /\ Size(m) \in Nat
      /\ Wire(s, At(s, k, 0), s.starts[k + 1]) = d
      /\ At(s, k, 0) = s.starts[k] + 1
      /\ s.starts[k + 1] = s.starts[k] + (1 + Size(m))
  BY <1>1, BodyWire
<1>5. /\ b \in Seq(Letters) /\ Len(b) = r - s.starts[k]
      /\ b = h \o Wire(s, At(s, k, 0), r) /\ At(s, k, 0) <= r
  BY <1>2, Headed
<1> HIDE DEF m
<1>6. PICK a \in Nat : a = s.starts[k]
  BY Shape
<1>7. r \in Nat
  BY DEF Reach
<1>8. PICK c \in Nat : c = Size(m)
  BY <1>4
<1>9. n = 1 + c
  BY <1>8 DEF m
<1>10. n <= Len(b) <=> s.starts[k + 1] <= r
  <2>1. Len(b) = r - a /\ s.starts[k + 1] = a + (1 + c)
    BY <1>4, <1>5, <1>6, <1>8
  <2> QED BY <1>6, <1>7, <1>8, <1>9, <2>1, SMTT(30)
<1>11. ASSUME s.starts[k + 1] <= r
       PROVE  \E e : IsRequest(b, n, d, e) /\ Untouched(s, k + 1, r, e)
  <2>1. PICK q \in Nat : q = s.starts[k + 1]
    BY Shape
  <2>2. PICK p \in Nat : p = At(s, k, 0)
    BY <1>4, <1>6
  <2>3. p <= q /\ q <= r
    <3>1. p = a + 1 /\ q = a + (1 + c)
      BY <1>4, <1>6, <1>8, <2>1, <2>2
    <3> QED BY <1>11, <2>1, <3>1
  <2>4. PICK z : z = Wire(s, q, r)
    OBVIOUS
  <2>5. Wire(s, p, q) \o Wire(s, q, r) = Wire(s, p, r) /\ z \in Seq(Letters)
    BY <2>3, <2>4, WireJoin, WireSeq, ZenonT(30)
  <2>6. b = h \o (d \o z)
    BY <1>4, <1>5, <2>1, <2>2, <2>4, <2>5, Zenon
  <2>7. SubSeq(b, 2, n) = d
    <3>1. HasAt(d, 0, c, d)
      BY <1>4, <1>8 DEF HasAt
    <3>2. 1 = Len(h) /\ 0 \in Nat /\ c = Len(d)
      BY <1>3, <1>4, <1>8
    <3>3. d \in Seq(Letters)
      BY <1>4
    <3>4. IsAt(b, 1, 0, c, d)
      BY <1>3, <2>5, <2>6, <3>1, <3>2, <3>3, CutData
    <3>5. 1 + 0 + 1 = 2 /\ 1 + (0 + c) = n
      BY <1>9
    <3> QED BY <3>4, <3>5, Zenon DEF IsAt
  <2>8. SubSeq(b, n + 1, Len(b)) = z
    <3>1. n = Len(h) + Len(d) /\ d \in Seq(Letters)
      BY <1>3, <1>4, <1>8, <1>9
    <3>2. IsBehind(b, n, z)
      BY <1>3, <2>5, <2>6, <3>1, CutLast
    <3> QED BY <3>2 DEF IsBehind
  <2>9. IsRequest(b, n, d, z)
    BY <2>7, <2>8 DEF IsRequest
  <2>10. Untouched(s, k + 1, r, z)
    BY <1>11, <2>1, <2>4 DEF Untouched
  <2> QED BY <2>9, <2>10
<1> QED BY <1>1, <1>10, <1>11, Zenon DEF m

\* A request whose end is the end of the connection.
LEMMA OpenRest ==
  ASSUME NEW s \in Sessions, NEW k \in 1..Len(s.msgs), s.msgs[k].kind = "open",
         NEW r, Reach(s, r), NEW b, Untouched(s, k, r, b), s.starts[k] < r, r <= s.starts[k + 1]
  PROVE  IsPrefix(Tail(b), Payload(s.msgs[k], k, 0, Size(s.msgs[k])))
<1> DEFINE m == s.msgs[k]
<1>1. m.kind \in Http /\ m.kind # "chunked"
  BY DEF Http
<1>2. PICK d : d = Payload(m, k, 0, Size(m))
  OBVIOUS
<1>3. PICK h : h = <<<<"head", 0, k>>>>
  OBVIOUS
<1>4. h \in Seq(Letters) /\ Len(h) = 1
  <2>1. k \in Nat
    OBVIOUS
  <2>2. <<<<"head", 0, k>>>> \in Seq(Letters) /\ Len(<<<<"head", 0, k>>>>) = 1
    BY <2>1, HeadLetter
  <2> QED BY <1>3, <2>2, Zenon
<1>5. PICK p \in Nat : p = At(s, k, 0)
  BY <1>1, Shape, BodyWire
<1>6. PICK q \in Nat : q = s.starts[k + 1]
  BY Shape
<1>7. Wire(s, p, q) = d
  BY <1>1, <1>2, <1>5, <1>6, BodyWire
<1>8. b = h \o Wire(s, p, r) /\ p <= r /\ r \in Nat /\ b \in Seq(Letters)
  BY <1>1, <1>3, <1>5, Headed DEF Reach
<1> HIDE DEF m
<1>9. PICK v : v = Wire(s, p, r)
  OBVIOUS
<1>10. PICK w : w = Wire(s, r, q)
  OBVIOUS
<1>11. r <= q
  BY <1>6
<1>12. Reach(s, q)
  BY <1>6, StartIn, NextIn
<1>13. v \in Seq(Letters) /\ w \in Seq(Letters) /\ v \o w = d
  BY <1>7, <1>8, <1>9, <1>10, <1>11, <1>12, WireSeq, WireJoin
<1>14. Tail(b) = v
  <2>1. IsJoin(Letters, h, v, b)
    BY <1>4, <1>8, <1>9, <1>13, Joined
  <2>2. Len(b) = 1 + Len(v) /\ Len(v) \in Nat
    BY <1>4, <2>1 DEF IsJoin
  <2>3. b # <<>>
    BY <1>8, <2>2
  <2>4. Tail(b) = SubSeq(b, 2, Len(b))
    BY <1>8, <2>3, TailIsSubSeq
  <2>5. IsBehind(b, 1, v)
    BY <1>4, <1>8, <1>9, <1>13, CutRest
  <2>6. 1 + 1 = 2
    OBVIOUS
  <2> QED BY <2>4, <2>5, <2>6, Zenon DEF IsBehind
<1>15. IsPrefix(v, d)
  <2>1. IsJoin(Letters, v, w, d)
    BY <1>13, Joined
  <2>2. Len(v) <= Len(d)
    BY <2>1 DEF IsJoin
  <2>3. SubSeq(v \o w, 1, Len(v)) = v
    BY <1>13, CutFront
  <2>4. SubSeq(v, 1, Len(v)) = v
    BY <1>13, SubSeqFull
  <2> QED BY <1>13, <2>2, <2>3, <2>4, Zenon DEF IsPrefix
<1> QED BY <1>2, <1>14, <1>15, Zenon DEF m

----------------------------------------------------------------------------
\* ... and frames.

\* The opcode bytes of the fragments of a message.
OpOf(o, i, n) == (IF i = 1 THEN o ELSE 0) + (IF i = n THEN 128 ELSE 0)

\* v is what the tests of the opcode byte say of fragment i of n.
AreOps(o, i, n, v) ==
    /\ v < 128 <=> i # n
    /\ i = 1 => v % 16 # 0
    /\ i # 1 => v \in {0, 128}
    /\ v % 16 = 8 => i = 1 /\ o = 8
    /\ i = 1 /\ n = 1 => v = o + 128
    /\ i = 1 /\ n > 1 => v = 1

\* Opcodes of a first, a middle, a last fragment and of a whole message.
LEMMA Numbers ==
  ASSUME NEW o \in {1, 8, 9}, NEW i, NEW n, n > 1 => o = 1, NEW v, v = OpOf(o, i, n), n \in Nat \ {0}
  PROVE  AreOps(o, i, n, v)
<1>1. CASE i = 1 /\ i = n
  <2>1. v \in {129, 136, 137} /\ v = o + 128
    BY <1>1 DEF OpOf
  <2>2. CASE o = 1
    BY <1>1, <2>1, <2>2 DEF AreOps
  <2>3. CASE o = 8
    BY <1>1, <2>1, <2>3 DEF AreOps
  <2>4. CASE o = 9
    BY <1>1, <2>1, <2>4 DEF AreOps
  <2> QED BY <2>2, <2>3, <2>4
<1>2. CASE i = 1 /\ i # n
  <2>1. n > 1
    BY <1>2
  <2>2. v = 1 /\ o = 1
    BY <1>2, <2>1 DEF OpOf
  <2> QED BY <1>2, <2>1, <2>2 DEF AreOps
<1>3. CASE i # 1 /\ i = n
  <2>1. v = 128
    BY <1>3 DEF OpOf
  <2> QED BY <1>3, <2>1 DEF AreOps
<1>4. CASE i # 1 /\ i # n
  <2>1. v = 0
    BY <1>4 DEF OpOf
  <2> QED BY <1>4, <2>1 DEF AreOps
<1> QED BY <1>1, <1>2, <1>3, <1>4

\* What Fragment and First find in them.
LEMMA Ops ==
  ASSUME NEW m, m.kind \in Data, NEW i, Len(m.ends) \in Nat \ {0}, Len(m.ends) > 1 => m.kind = "text"
  PROVE  /\ AreOps(Opcode[m.kind], i, Len(m.ends), Op(m, i))
         /\ m.kind = "text" => Opcode[m.kind] = 1
         /\ m.kind = "close" => Opcode[m.kind] = 8
         /\ m.kind = "ping" => Opcode[m.kind] = 9
         /\ Op(m, i) \in Nat
<1>1. /\ m.kind = "text" => Opcode[m.kind] = 1
      /\ m.kind = "close" => Opcode[m.kind] = 8
      /\ m.kind = "ping" => Opcode[m.kind] = 9
  BY DEF Opcode
<1>2. PICK o : o = Opcode[m.kind]
  OBVIOUS
<1>3. o \in {1, 8, 9}
  BY <1>1, <1>2 DEF Data
<1>4. PICK n \in Nat \ {0} : n = Len(m.ends)
  OBVIOUS
<1>5. n > 1 => o = 1
  BY <1>1, <1>2, <1>4
<1>6. Op(m, i) = OpOf(o, i, n)
  BY <1>2, <1>4, Zenon DEF Op, OpOf, Fin
<1>7. AreOps(o, i, n, Op(m, i))
  BY <1>3, <1>5, <1>6, Numbers
<1>8. Op(m, i) \in Nat
  BY OpIs
<1> QED BY <1>1, <1>2, <1>4, <1>7, <1>8

\* Only a text message has fragments.
LEMMA OnlyText ==
  ASSUME NEW s, NEW k, Proper(s, k), s.msgs[k].kind \in Data
  PROVE  /\ Len(s.msgs[k].ends) = 1 \/ s.msgs[k].kind = "text"
         /\ s.msgs[k].kind = "close" => k = Len(s.msgs)
<1>1. s.msgs[k].kind \notin {"chunked", "text"} => Len(s.msgs[k].ends) = 1
  BY DEF Proper
<1>2. s.msgs[k].kind \in {"open", "close"} => k = Len(s.msgs)
  BY DEF Proper
<1>3. s.msgs[k].kind # "chunked"
  BY DEF Data
<1> QED BY <1>1, <1>2, <1>3

\* The other frames are whole messages.
LEMMA Alone ==
  ASSUME NEW s \in Sessions, NEW k \in 1..Len(s.msgs), s.msgs[k].kind \in Data
  PROVE  /\ Len(s.msgs[k].ends) \in Nat \ {0}
         /\ Len(s.msgs[k].ends) > 1 => s.msgs[k].kind = "text"
         /\ s.msgs[k].kind = "close" => k = Len(s.msgs)
<1>1. Len(s.msgs[k].ends) = 1 \/ s.msgs[k].kind = "text"
  BY Shape, OnlyText
<1>2. s.msgs[k].kind = "close" => k = Len(s.msgs)
  BY Shape, OnlyText
<1>3. Len(s.msgs[k].ends) \in Nat \ {0}
  BY Upward
<1>4. Len(s.msgs[k].ends) > 1 => s.msgs[k].kind = "text"
  <2>1. PICK n \in Nat : n = Len(s.msgs[k].ends)
    BY <1>3
  <2>2. n = 1 => ~(n > 1)
    OBVIOUS
  <2> QED BY <1>1, <2>1, <2>2, Zenon
<1> QED BY <1>2, <1>3, <1>4, Zenon

\* Fragment j, behind fragment i: n bytes d in w.
IsNextFrame(s, k, i, j, n, d, w) ==
    /\ n \in Nat /\ Upto(s.msgs[k], i) \in Nat /\ Upto(s.msgs[k], j) = Upto(s.msgs[k], i) + n
    /\ d \in Seq(Letters) /\ Len(d) = n /\ d = Payload(s.msgs[k], k, Upto(s.msgs[k], i), Upto(s.msgs[k], j))
    /\ w \in Seq(Letters) /\ w = Wire(s, At(s, k, i), At(s, k, j))
    /\ IsFrame(w, <<"op", Op(s.msgs[k], j), k>>, <<"len", 128 + n, k>>, <<"mask", 0, k>>, d, n)
    /\ At(s, k, i) \in Nat /\ At(s, k, j) = At(s, k, i) + (n + 6)
    /\ Byte(s, At(s, k, i) + 1) = <<"op", Op(s.msgs[k], j), k>>
    /\ Byte(s, At(s, k, i) + 2) = <<"len", 128 + n, k>>

\* Behind fragment i comes the next one, if it has been read.
LEMMA FrameNext ==
  ASSUME NEW s \in Sessions, NEW k \in 1..Len(s.msgs), s.msgs[k].kind \in Data,
         NEW j \in 1..Len(s.msgs[k].ends), NEW i, i = j - 1
  PROVE  \E n, d, w : IsNextFrame(s, k, i, j, n, d, w)
<1> DEFINE m == s.msgs[k]
           n == Upto(m, j) - Upto(m, j - 1)
           d == Payload(m, k, Upto(m, j - 1), Upto(m, j))
           w == Piece(m, k, j)
<1>1. Len(m.ends) \in Nat
  BY Upward
<1>2. /\ n \in Nat
      /\ w \in Seq(Letters)
      /\ IsFrame(w, <<"op", Op(m, j), k>>, <<"len", 128 + n, k>>, <<"mask", 0, k>>, d, n)
  BY FramePiece
<1>3. Upto(m, j - 1) \in Nat /\ Upto(m, j) \in Nat /\ IsPayload(m, k, Upto(m, j - 1), Upto(m, j), d)
  BY DataIs
<1>4. d \in Seq(Letters) /\ Len(d) = n
  BY <1>3, Zenon DEF IsPayload, n
<1>5. Wire(s, At(s, k, j - 1), At(s, k, j)) = w /\ At(s, k, j) = At(s, k, j - 1) + Len(w)
  BY WirePiece
<1>6. Len(w) = n + 6 /\ w[1] = <<"op", Op(m, j), k>> /\ w[2] = <<"len", 128 + n, k>>
  BY <1>2, Zenon DEF IsFrame
<1>7. At(s, k, j - 1) \in Nat
  <2>1. j - 1 \in 0..Len(m.ends)
    BY <1>1
  <2> QED BY <2>1, PlaceIn
<1> HIDE DEF n, d, w
<1>8. At(s, k, j - 1) + 1 <= At(s, k, j) /\ At(s, k, j - 1) + 2 <= At(s, k, j) /\ 1 \in Nat /\ 1 <= 1 /\ 2 \in Nat /\ 1 <= 2
  <2>1. PICK a \in Nat : a = At(s, k, j - 1)
    BY <1>7
  <2>2. a + 1 <= a + (n + 6) /\ a + 2 <= a + (n + 6)
    BY <1>2
  <2> QED BY <1>5, <1>6, <2>1, <2>2
<1>9. Byte(s, At(s, k, j - 1) + 1) = w[1] /\ Byte(s, At(s, k, j - 1) + 2) = w[2]
  BY <1>8, PieceByte DEF w
<1>10. Upto(m, j) = Upto(m, j - 1) + n
  BY <1>3 DEF n
<1>11. IsNextFrame(s, k, j - 1, j, n, d, w)
  BY <1>2, <1>3, <1>4, <1>5, <1>6, <1>7, <1>9, <1>10, Zenon DEF IsNextFrame, d
<1> QED BY <1>11

\* d is what fragments up to i had, u bytes.
IsPart(s, k, i, u, d) ==
    /\ u = Upto(s.msgs[k], i) /\ d = Payload(s.msgs[k], k, 0, u)
    /\ u \in Nat /\ u < 256 /\ d \in Seq(Letters) /\ Len(d) = u

\* So it is.
LEMMA UptoIn ==
  ASSUME NEW s \in Sessions, NEW k \in 1..Len(s.msgs), NEW i \in 0..Len(s.msgs[k].ends)
  PROVE  \E u, d : IsPart(s, k, i, u, d)
<1> DEFINE m == s.msgs[k]
<1>1. /\ Len(m.ends) \in Nat \ {0}
      /\ \A h \in 0..Len(m.ends) : Upto(m, h) \in Nat
      /\ \A h, j \in 0..Len(m.ends) : h <= j => Upto(m, h) <= Upto(m, j)
      /\ m.from \in Nat /\ m.from + Size(m) <= 255 /\ Size(m) \in Nat
  BY Upward
<1>2. Len(m.ends) \in 0..Len(m.ends) /\ i <= Len(m.ends)
  BY <1>1
<1>3. PICK u : u = Upto(m, i)
  OBVIOUS
<1>4. u \in Nat /\ u <= Size(m)
  BY <1>1, <1>2, <1>3 DEF Size
<1>5. PICK d : d = Payload(m, k, 0, u)
  OBVIOUS
<1> HIDE DEF m
<1>6. m.from + u <= 255 /\ u < 256 /\ 0 \in Nat /\ 0 <= u /\ k \in Nat
  BY <1>1, <1>4
<1>7. IsPayload(m, k, 0, u, d)
  BY <1>1, <1>4, <1>5, <1>6, PayloadIs
<1>8. d \in Seq(Letters) /\ Len(d) = u - 0
  BY <1>7, Zenon DEF IsPayload
<1>9. Len(d) = u
  BY <1>4, <1>8
<1>10. IsPart(s, k, i, u, d)
  BY <1>3, <1>4, <1>5, <1>6, <1>8, <1>9, Zenon DEF IsPart, m
<1> QED BY <1>10

\* x is what is kept of fragments up to i, and ends at off.
IsHeld(s, k, i, x, off) ==
    /\ x = Held(s, k, i) /\ x \in Seq(Letters) /\ off \in Nat /\ Len(x) = off
    /\ i = 0 => off = 0 /\ x = <<>>
    /\ i # 0 => off = 5 + Upto(s.msgs[k], i)

\* What the code keeps is that.
LEMMA HeldIs ==
  ASSUME NEW s \in Sessions, NEW k \in 1..Len(s.msgs), NEW i \in 0..Len(s.msgs[k].ends)
  PROVE  \E x, off : IsHeld(s, k, i, x, off)
<1>1. CASE i = 0
  <2>1. Held(s, k, i) = <<>>
    BY <1>1 DEF Held
  <2>2. <<>> \in Seq(Letters) /\ 0 \in Nat /\ Len(<<>>) = 0
    OBVIOUS
  <2>3. IsHeld(s, k, i, <<>>, 0)
    BY <1>1, <2>1, <2>2, Zenon DEF IsHeld
  <2> QED BY <2>3
<1>2. CASE i # 0
  <2>1. PICK u, d : IsPart(s, k, i, u, d)
    BY UptoIn
  <2>2. u = Upto(s.msgs[k], i) /\ d = Payload(s.msgs[k], k, 0, u)
    BY <2>1, Zenon DEF IsPart
  <2>3. u \in Nat /\ u < 256 /\ d \in Seq(Letters) /\ Len(d) = u
    BY <2>1, Zenon DEF IsPart
  <2>4. PICK f : f = Gathered(k, u)
    OBVIOUS
  <2>5. f \in Seq(Letters) /\ Len(f) = 5
    <3>1. k \in Nat
      OBVIOUS
    <3> QED BY <2>3, <2>4, <3>1, GatheredIs
  <2>6. PICK x : x = f \o d
    OBVIOUS
  <2>7. x \in Seq(Letters) /\ Len(x) = 5 + u
    <3>1. IsJoin(Letters, f, d, x)
      BY <2>3, <2>5, <2>6, Joined
    <3>2. x \in Seq(Letters) /\ Len(x) = Len(f) + Len(d)
      BY <3>1, Zenon DEF IsJoin
    <3> QED BY <2>3, <2>5, <3>2
  <2>8. x = Held(s, k, i)
    BY <1>2, <2>2, <2>4, <2>6, Zenon DEF Held
  <2>9. 5 + u \in Nat
    BY <2>3
  <2>10. IsHeld(s, k, i, x, 5 + u)
    BY <1>2, <2>2, <2>7, <2>8, <2>9, Zenon DEF IsHeld
  <2> QED BY <2>10
<1> QED BY <1>1, <1>2

\* The parts of a buffer with fragments.
AreFrames(s, k, i, r, b, x, off, v) ==
    /\ IsHeld(s, k, i, x, off)
    /\ v = Wire(s, At(s, k, i), r) /\ v \in Seq(Letters) /\ Len(v) = r - At(s, k, i) /\ b = x \o v
    /\ r \in Nat /\ At(s, k, i) \in Nat /\ At(s, k, i) <= r
    /\ b \in Seq(Letters) /\ Len(b) = off + Len(v)
    /\ Reassembled(b) = off
    /\ SubSeq(b, 6, off) = Payload(s.msgs[k], k, 0, Upto(s.msgs[k], i))
    /\ i = 0 => b = v
    /\ i # 0 => b[1] = <<"op", 0, k>>

\* With fragments up to i in front.
AreSome(s, k, i, off, v, b) ==
    /\ b \in Seq(Letters) /\ Len(b) = off + Len(v)
    /\ Reassembled(b) = off /\ b[1] = <<"op", 0, k>>
    /\ SubSeq(b, 6, off) = Payload(s.msgs[k], k, 0, Upto(s.msgs[k], i))

\* What is kept of fragments is recognised as that.
LEMMA SomeView ==
  ASSUME NEW s \in Sessions, NEW k \in 1..Len(s.msgs), NEW i \in 0..Len(s.msgs[k].ends), i # 0,
         NEW v \in Seq(Letters), NEW x, NEW off, IsHeld(s, k, i, x, off), NEW b, b = x \o v
  PROVE  AreSome(s, k, i, off, v, b)
<1>1. PICK u, d : IsPart(s, k, i, u, d)
  BY UptoIn
<1>2. u = Upto(s.msgs[k], i) /\ d = Payload(s.msgs[k], k, 0, u)
  BY <1>1, Zenon DEF IsPart
<1>3. u \in Nat /\ u < 256 /\ d \in Seq(Letters) /\ Len(d) = u
  BY <1>1, Zenon DEF IsPart
<1>4. PICK f : f = Gathered(k, u)
  OBVIOUS
<1>5. k \in Nat
  OBVIOUS
<1>6. f \in Seq(Letters)
  BY <1>3, <1>4, <1>5, GatheredIs
<1>7. x = f \o d /\ off = 5 + u
  BY <1>2, <1>4, Zenon DEF IsHeld, Held
<1>8. b = f \o (d \o v)
  <2>1. IsAssociative(f, d, v)
    BY <1>3, <1>6, Associated
  <2> QED BY <1>7, <2>1, Zenon DEF IsAssociative
<1>9. IsSome(k, u, d, v, b)
  <2>1. b = Gathered(k, u) \o (d \o v)
    BY <1>4, <1>8, Zenon
  <2> QED BY <1>3, <1>5, <2>1, SomeYet
<1> QED BY <1>2, <1>7, <1>9, Zenon DEF IsSome, AreSome

\* A buffer with fragments has its parts.
LEMMA FrameView ==
  ASSUME NEW s \in Sessions, NEW k \in 1..Len(s.msgs), s.msgs[k].kind \in Data, NEW r, Reach(s, r),
         NEW i, NEW b, HasFrames(s, k, i, r, b)
  PROVE  \E x, off, v : AreFrames(s, k, i, r, b, x, off, v)
<1> DEFINE m == s.msgs[k]
<1>1. /\ i \in 0..(Len(m.ends) - 1) /\ At(s, k, i) <= r
      /\ b = Held(s, k, i) \o Wire(s, At(s, k, i), r)
  BY DEF HasFrames
<1>2. Len(m.ends) \in Nat \ {0} /\ (Len(m.ends) > 1 => m.kind = "text")
  BY Alone, Zenon
<1>3. i \in 0..Len(m.ends)
  BY <1>1, <1>2
<1>4. PICK x, off : IsHeld(s, k, i, x, off)
  BY <1>3, HeldIs
<1>5. PICK p : p = At(s, k, i)
  OBVIOUS
<1>6. p \in Nat /\ r \in Nat /\ p <= r
  <2>1. r \in Nat
    BY DEF Reach
  <2> QED BY <1>1, <1>3, <1>5, <2>1, PlaceIn
<1>7. PICK v : v = Wire(s, p, r)
  OBVIOUS
<1>8. v \in Seq(Letters) /\ Len(v) = r - p /\ (p < r => v[1] = Byte(s, p + 1))
  BY <1>6, <1>7, WireSeq
<1>9. b = x \o v /\ x \in Seq(Letters) /\ Len(x) = off /\ off \in Nat
  BY <1>1, <1>4, <1>5, <1>7, Zenon DEF IsHeld
<1>10. CASE i # 0
  <2>1. AreSome(s, k, i, off, v, b)
    <3>1. v \in Seq(Letters) /\ b = x \o v
      BY <1>8, <1>9, Zenon
    <3> QED BY <1>3, <1>4, <1>10, <3>1, SomeView
  <2>2. AreFrames(s, k, i, r, b, x, off, v)
    BY <1>4, <1>5, <1>6, <1>7, <1>8, <1>9, <1>10, <2>1, Zenon DEF AreFrames, AreSome, m
  <2> QED BY <2>2
<1>11. CASE i = 0
  <2>1. x = <<>> /\ off = 0
    BY <1>4, <1>11, Zenon DEF IsHeld
  <2>2. b = v
    BY <1>8, <1>9, <2>1, ConcatEmptySeq
  <2>3. b \in Seq(Letters) /\ Len(b) = off + Len(v)
    BY <1>8, <2>1, <2>2
  <2>4. SubSeq(b, 6, off) = Payload(m, k, 0, Upto(m, i))
    <3>1. Upto(m, i) = 0
      BY <1>11 DEF Upto
    <3>2. Payload(m, k, 0, 0) = <<>>
      BY PayloadEmpty
    <3>3. SubSeq(b, 6, 0) = <<>>
      BY <2>3
    <3> QED BY <2>1, <3>1, <3>2, <3>3, Zenon
  <2>5. Reassembled(b) = off
    <3>1. 1 \in 1..Len(m.ends) /\ i = 1 - 1
      BY <1>2, <1>11
    <3>2. PICK n, d, w : IsNextFrame(s, k, i, 1, n, d, w)
      BY <3>1, FrameNext
    <3>3. Byte(s, p + 1) = <<"op", Op(m, 1), k>>
      BY <1>5, <3>2, Zenon DEF IsNextFrame, m
    <3>4. PICK o : o = Op(m, 1)
      OBVIOUS
    <3>5. o \in Nat /\ o % 16 # 0
      <4>1. AreOps(Opcode[m.kind], 1, Len(m.ends), o) /\ o \in Nat
        BY <1>2, <3>4, Ops
      <4> QED BY <4>1, Zenon DEF AreOps
    <3>6. Len(b) \in Nat /\ (Len(b) >= 1 => b[1][2] = o)
      <4>1. Len(b) = r - p
        BY <1>8, <2>2
      <4>2. Len(b) >= 1 => p < r
        BY <1>6, <4>1
      <4>3. p < r => b[1] = <<"op", o, k>>
        BY <1>8, <2>2, <3>3, <3>4
      <4> QED BY <2>3, <4>2, <4>3
    <3>7. Reassembled(b) = 0
      BY <3>5, <3>6, NoneYet
    <3> QED BY <2>1, <3>7, Zenon
  <2>6. AreFrames(s, k, i, r, b, x, off, v)
    BY <1>4, <1>5, <1>6, <1>7, <1>8, <1>9, <1>11, <2>2, <2>3, <2>4, <2>5, Zenon DEF AreFrames, m
  <2> QED BY <2>6
<1> QED BY <1>10, <1>11

\* A frame is found only when it has been read ...
LEMMA FrameTest ==
  ASSUME NEW s \in Sessions, NEW k \in 1..Len(s.msgs), s.msgs[k].kind \in Data, NEW r, Reach(s, r),
         NEW j \in 1..Len(s.msgs[k].ends), NEW i, i = j - 1, NEW b, HasFrames(s, k, i, r, b), WholeFrame(b)
  PROVE  At(s, k, j) <= r
<1>1. PICK x, off, v : AreFrames(s, k, i, r, b, x, off, v)
  BY FrameView
<1>2. PICK n, d, w : IsNextFrame(s, k, i, j, n, d, w)
  BY FrameNext
<1>3. /\ v = Wire(s, At(s, k, i), r) /\ v \in Seq(Letters) /\ Len(v) = r - At(s, k, i) /\ b = x \o v
      /\ r \in Nat /\ At(s, k, i) \in Nat /\ At(s, k, i) <= r /\ Reassembled(b) = off
      /\ x \in Seq(Letters) /\ off \in Nat /\ Len(x) = off
  BY <1>1, Zenon DEF AreFrames, IsHeld
<1>4. n \in Nat /\ At(s, k, j) = At(s, k, i) + (n + 6) /\ Byte(s, At(s, k, i) + 2) = <<"len", 128 + n, k>>
  BY <1>2, Zenon DEF IsNextFrame
<1>5. PICK a \in Nat : a = At(s, k, i)
  BY <1>3
<1>6. IsWire(s, a, r, v)
  BY <1>3, <1>5, WireIs
<1>7. Len(b) >= off + 6 /\ Len(b) >= DataEnd(b, off)
  BY <1>3 DEF WholeFrame
<1>8. ASSUME r < a + (n + 6) PROVE FALSE
  <2>1. Len(v) < n + 6
    <3>1. Len(v) = r - a
      BY <1>3, <1>5
    <3> QED BY <1>3, <1>4, <1>8, <3>1
  <2>2. Len(v) >= 2 => v[2] = <<"len", 128 + n, k>>
    <3>1. Len(v) = r - a /\ \A l \in 1..(r - a) : v[l] = Byte(s, a + l)
      BY <1>6, Zenon DEF IsWire
    <3>2. Len(v) >= 2 => 2 \in 1..(r - a)
      BY <1>3, <3>1
    <3>3. Byte(s, a + 2) = <<"len", 128 + n, k>>
      BY <1>4, <1>5
    <3> QED BY <3>1, <3>2, <3>3, Zenon
  <2> QED BY <1>3, <1>4, <1>7, <2>1, <2>2, FrameShortOf
<1>9. ~(r < a + (n + 6)) => a + (n + 6) <= r
  BY <1>3, <1>4
<1> QED BY <1>4, <1>5, <1>8, <1>9, Zenon

\* Frame j, taken out of the buffer.
IsTaken(s, k, i, j, r, b, x, off, v, n, d, w, z) ==
    /\ AreFrames(s, k, i, r, b, x, off, v) /\ IsNextFrame(s, k, i, j, n, d, w)
    /\ z = Wire(s, At(s, k, j), r) /\ z \in Seq(Letters) /\ v = w \o z
    /\ IsFramed(b, off, n, <<"op", Op(s.msgs[k], j), k>>, d, z)
    /\ WholeFrame(b)

\* ... and then it is found, with what is behind it.
LEMMA FrameTaken ==
  ASSUME NEW s \in Sessions, NEW k \in 1..Len(s.msgs), s.msgs[k].kind \in Data, NEW r, Reach(s, r),
         NEW j \in 1..Len(s.msgs[k].ends), NEW i, i = j - 1, NEW b, HasFrames(s, k, i, r, b), At(s, k, j) <= r
  PROVE  \E x, off, v, n, d, w, z : IsTaken(s, k, i, j, r, b, x, off, v, n, d, w, z)
<1>1. PICK x, off, v : AreFrames(s, k, i, r, b, x, off, v)
  BY FrameView
<1>2. PICK n, d, w : IsNextFrame(s, k, i, j, n, d, w)
  BY FrameNext
<1>3. /\ v = Wire(s, At(s, k, i), r) /\ b = x \o v
      /\ r \in Nat /\ At(s, k, i) \in Nat /\ Reassembled(b) = off
      /\ x \in Seq(Letters) /\ off \in Nat /\ Len(x) = off
  BY <1>1, Zenon DEF AreFrames, IsHeld
<1>4. /\ n \in Nat /\ At(s, k, j) = At(s, k, i) + (n + 6) /\ w \in Seq(Letters) /\ d \in Seq(Letters) /\ Len(d) = n
      /\ w = Wire(s, At(s, k, i), At(s, k, j))
      /\ IsFrame(w, <<"op", Op(s.msgs[k], j), k>>, <<"len", 128 + n, k>>, <<"mask", 0, k>>, d, n)
  BY <1>2, Zenon DEF IsNextFrame
<1>5. PICK a \in Nat : a = At(s, k, i)
  BY <1>3
<1>6. PICK q \in Nat : q = At(s, k, j)
  BY <1>3, <1>4
<1>7. a <= q /\ q <= r
  <2>1. q = a + (n + 6)
    BY <1>4, <1>5, <1>6
  <2>2. a <= q
    BY <1>4, <2>1
  <2> QED BY <1>6, <2>2
<1>8. PICK z : z = Wire(s, q, r)
  OBVIOUS
<1>9. z \in Seq(Letters)
  BY <1>7, <1>8, WireSeq
<1>10. v = w \o z
  <2>1. Wire(s, a, q) \o Wire(s, q, r) = Wire(s, a, r)
    BY <1>7, WireJoin
  <2> QED BY <1>3, <1>4, <1>5, <1>6, <1>8, <2>1, Zenon
<1>11. b = x \o (w \o z)
  BY <1>3, <1>10, Zenon
<1>12. IsFramed(b, off, n, <<"op", Op(s.msgs[k], j), k>>, d, z)
  BY <1>3, <1>4, <1>9, <1>11, FrameFound
<1>13. Len(b) >= off + 6 /\ Len(b) >= DataEnd(b, off)
  BY <1>12, Zenon DEF IsFramed
<1>14. WholeFrame(b)
  BY <1>3, <1>13, Zenon DEF WholeFrame
<1>15. IsTaken(s, k, i, j, r, b, x, off, v, n, d, w, z)
  BY <1>1, <1>2, <1>6, <1>8, <1>9, <1>10, <1>12, <1>14, Zenon DEF IsTaken
<1> QED BY <1>15

\* What is left behind the last frame of a message.
LEMMA LastFrame ==
  ASSUME NEW s \in Sessions, NEW k \in 1..Len(s.msgs), NEW r, NEW j, j = Len(s.msgs[k].ends), At(s, k, j) <= r,
         NEW z, z = Wire(s, At(s, k, j), r)
  PROVE  Untouched(s, k + 1, r, z) /\ At(s, k, j) = s.starts[k + 1]
<1>1. Len(s.msgs[k].ends) \in Nat
  BY Upward
<1>2. j \in 0..Len(s.msgs[k].ends)
  BY <1>1
<1>3. At(s, k, j) = s.starts[k + 1]
  BY <1>2, PlaceIn
<1> QED BY <1>3, Zenon DEF Untouched

\* Fragments up to i and the data of the next are the fragments up to j.
IsWith(s, k, i, j, d) ==
    Payload(s.msgs[k], k, 0, Upto(s.msgs[k], i)) \o d = Payload(s.msgs[k], k, 0, Upto(s.msgs[k], j))

\* The data of fragment j continues the message.
LEMMA JoinPayload ==
  ASSUME NEW s \in Sessions, NEW k \in 1..Len(s.msgs), NEW j \in 1..Len(s.msgs[k].ends), NEW i, i = j - 1,
         NEW n, NEW d, NEW w, IsNextFrame(s, k, i, j, n, d, w)
  PROVE  IsWith(s, k, i, j, d)
<1>1. Len(s.msgs[k].ends) \in Nat
  BY Upward
<1>2. i \in 0..Len(s.msgs[k].ends) /\ j \in 0..Len(s.msgs[k].ends) /\ i <= j
  BY <1>1
<1>3. 0 \in Nat /\ 0 <= Upto(s.msgs[k], i)
  <2>1. Upto(s.msgs[k], i) \in Nat
    BY Zenon DEF IsNextFrame
  <2> QED BY <2>1
<1>4. Payload(s.msgs[k], k, 0, Upto(s.msgs[k], i)) \o Payload(s.msgs[k], k, Upto(s.msgs[k], i), Upto(s.msgs[k], j))
         = Payload(s.msgs[k], k, 0, Upto(s.msgs[k], j))
  BY <1>2, <1>3, PayloadGrows
<1>5. d = Payload(s.msgs[k], k, Upto(s.msgs[k], i), Upto(s.msgs[k], j))
  BY Zenon DEF IsNextFrame
<1> QED BY <1>4, <1>5, Zenon DEF IsWith

----------------------------------------------------------------------------
\* The byte that the code takes for an opcode.

\* What is left of old under new.
IsOver(new, old, c) ==
    \A j \in Nat \ {0} : /\ j <= Len(new) => c[j] = new[j] /\ j <= Len(c)
                         /\ Len(new) < j /\ j <= Len(old) => c[j] = old[j] /\ j <= Len(c)

\* Over leaves what it does not write.
LEMMA OverIs ==
  ASSUME NEW S, NEW new \in Seq(S), NEW old \in Seq(S), NEW c, c = Over(new, old)
  PROVE  IsOver(new, old, c) /\ c \in Seq(S)
<1>1. PICK a \in Nat : a = Len(new)
  OBVIOUS
<1>2. PICK b \in Nat : b = Len(old)
  OBVIOUS
<1>3. PICK t : t = SubSeq(old, a + 1, b)
  OBVIOUS
<1>4. c = new \o t
  BY <1>1, <1>2, <1>3 DEF Over
<1>5. CASE a <= b
  <2>1. IsCut(S, old, a, b, t)
    BY <1>2, <1>3, <1>5, Cut
  <2>2. t \in Seq(S) /\ Len(t) = b - a /\ \A j \in 1..(b - a) : t[j] = old[a + j]
    BY <2>1, Zenon DEF IsCut
  <2>3. IsJoin(S, new, t, c)
    BY <1>4, <2>2, Joined
  <2>4. /\ c \in Seq(S) /\ Len(c) = a + (b - a)
        /\ \A j \in 1..a : c[j] = new[j]
        /\ \A j \in 1..(b - a) : c[a + j] = t[j]
    BY <1>1, <2>2, <2>3, Zenon DEF IsJoin
  <2>5. Len(c) = b
    BY <2>4
  <2>6. ASSUME NEW j \in Nat \ {0}, j <= a PROVE c[j] = new[j] /\ j <= Len(c)
    <3>1. j \in 1..a /\ j <= b
      BY <1>5, <2>6
    <3> QED BY <2>4, <2>5, <3>1
  <2>7. ASSUME NEW j \in Nat \ {0}, a < j, j <= b PROVE c[j] = old[j] /\ j <= Len(c)
    <3>1. PICK l : l = j - a
      OBVIOUS
    <3>2. l \in 1..(b - a) /\ a + l = j
      BY <2>7, <3>1
    <3>3. c[a + l] = old[a + l]
      BY <2>2, <2>4, <3>2, Zenon
    <3> QED BY <2>5, <2>7, <3>2, <3>3
  <2> QED BY <1>1, <1>2, <2>4, <2>6, <2>7 DEF IsOver
<1>6. CASE b < a
  <2>1. t = <<>>
    BY <1>3, <1>6
  <2>2. c = new
    BY <1>4, <2>1, ConcatEmptySeq
  <2>3. ASSUME NEW j \in Nat \ {0}, a < j, j <= b PROVE FALSE
    BY <1>6, <2>3
  <2> QED BY <1>1, <1>2, <2>2, <2>3 DEF IsOver
<1> QED BY <1>5, <1>6

\* What the code looks at when it has joined a fragment: the data of the fragment,
\* what is behind it, or what was there before.
IsLook(v, c, l) == c[l] \in {v[g] : g \in 1..Len(v)} /\ l <= Len(c)

\* Numbers for Look.
LEMMA LookAt ==
  ASSUME NEW L \in Nat, NEW n \in Nat, NEW m \in Nat
  PROVE  /\ L + 1 \in Nat \ {0}
         /\ n >= 1 => 1 \in 1..n /\ 7 \in 1..(n + 6) /\ 6 + 1 = 7 /\ 7 \in 1..((n + 6) + m)
OBVIOUS

\* The place L + 1 is in the old buffer, at g behind off.
IsBefore(off, L, n, m, g) ==
    /\ g \in 1..((n + 6) + m) /\ off + g = L + 1 /\ off \in Nat
    /\ L + (n + m) < L + 1 /\ L + 1 <= off + ((n + 6) + m)

\* It is there when nothing is behind.
LEMMA LookBefore ==
  ASSUME NEW L \in Nat, NEW n \in Nat, NEW m \in Nat, n + m = 0, NEW off, off = L \/ (off = 0 /\ L = 5)
  PROVE  \E g : IsBefore(off, L, n, m, g)
<1>1. IsBefore(off, L, n, m, (L - off) + 1)
  BY DEF IsBefore
<1> QED BY <1>1

\* The byte is one of those behind what was kept.
LEMMA Look ==
  ASSUME NEW S, NEW y \in Seq(S), NEW L \in Nat, L = Len(y), NEW w \in Seq(S), NEW z \in Seq(S), NEW d \in Seq(S),
         NEW n \in Nat, n = Len(d), Len(w) = n + 6, \A j \in 1..n : w[6 + j] = d[j],
         NEW v, v = w \o z, NEW e, e = y \o (d \o z), NEW x \in Seq(S), NEW off, off = Len(x),
         off = L \/ (off = 0 /\ L = 5), NEW b, b = x \o v, NEW c, c = Over(e, b)
  PROVE  IsLook(v, c, L + 1)
<1>1. PICK h : h = d \o z
  OBVIOUS
<1>2. PICK m \in Nat : m = Len(z)
  OBVIOUS
<1>3. IsJoin(S, d, z, h) /\ IsJoin(S, w, z, v)
  BY <1>1, Joined
<1>4. /\ h \in Seq(S) /\ Len(h) = n + m
      /\ \A j \in 1..n : h[j] = d[j]
      /\ \A j \in 1..m : h[n + j] = z[j]
  BY <1>2, <1>3, Zenon DEF IsJoin
<1>5. /\ v \in Seq(S) /\ Len(v) = (n + 6) + m
      /\ \A j \in 1..(n + 6) : v[j] = w[j]
      /\ \A j \in 1..m : v[(n + 6) + j] = z[j]
  BY <1>2, <1>3, Zenon DEF IsJoin
<1>6. IsJoin(S, y, h, e) /\ IsJoin(S, x, v, b)
  BY <1>1, <1>4, <1>5, Joined
<1>7. /\ e \in Seq(S) /\ Len(e) = L + (n + m)
      /\ \A j \in 1..(n + m) : e[L + j] = h[j]
  BY <1>4, <1>6, Zenon DEF IsJoin
<1>8. /\ b \in Seq(S) /\ Len(b) = off + ((n + 6) + m)
      /\ \A j \in 1..((n + 6) + m) : b[off + j] = v[j]
  BY <1>5, <1>6, Zenon DEF IsJoin
<1>9. IsOver(e, b, c)
  BY <1>7, <1>8, OverIs
<1>10. L + 1 \in Nat \ {0}
  BY LookAt, Zenon
<1>11. CASE n + m >= 1
  <2>1. L + 1 <= Len(e) /\ 1 \in 1..(n + m)
    BY <1>7, <1>11
  <2>2. c[L + 1] = h[1] /\ L + 1 <= Len(c)
    BY <1>7, <1>9, <1>10, <2>1, Zenon DEF IsOver
  <2>3. 7 \in 1..Len(v) /\ h[1] = v[7]
    <3>1. CASE n >= 1
      <4>1. 1 \in 1..n /\ 7 \in 1..(n + 6) /\ 6 + 1 = 7 /\ 7 \in 1..((n + 6) + m)
        BY <3>1, LookAt, Zenon
      <4>2. h[1] = d[1] /\ w[6 + 1] = d[1] /\ v[7] = w[7]
        BY <1>4, <1>5, <4>1, Zenon
      <4> QED BY <1>5, <4>1, <4>2
    <3>2. CASE n = 0
      <4>1. 1 \in 1..m /\ n + 1 = 1 /\ (n + 6) + 1 = 7 /\ 7 \in 1..((n + 6) + m)
        BY <1>11, <3>2
      <4>2. h[n + 1] = z[1] /\ v[(n + 6) + 1] = z[1]
        BY <1>4, <1>5, <4>1, Zenon
      <4> QED BY <1>5, <4>1, <4>2
    <3> QED BY <3>1, <3>2
  <2> QED BY <2>2, <2>3, Zenon DEF IsLook
<1>12. CASE n + m = 0
  <2>1. PICK g : IsBefore(off, L, n, m, g)
    <3>1. \E g : IsBefore(off, L, n, m, g)
      BY <1>12, LookBefore
    <3> QED BY <3>1
  <2>2. /\ g \in 1..((n + 6) + m) /\ off + g = L + 1 /\ off \in Nat
        /\ L + (n + m) < L + 1 /\ L + 1 <= off + ((n + 6) + m)
    BY <2>1, Zenon DEF IsBefore
  <2>3. Len(e) < L + 1 /\ L + 1 <= Len(b)
    BY <1>7, <1>8, <2>2, Zenon
  <2>4. c[L + 1] = b[L + 1] /\ L + 1 <= Len(c)
    BY <1>9, <1>10, <2>3, Zenon DEF IsOver
  <2>5. b[L + 1] = v[g]
    BY <1>8, <2>2, Zenon
  <2>6. g \in 1..Len(v)
    BY <1>5, <2>2, Zenon
  <2> QED BY <2>4, <2>5, <2>6, Zenon DEF IsLook
<1> QED BY <1>2, <1>11, <1>12

\* The same when the last fragment is gone.
LEMMA LookOver ==
  ASSUME NEW S, NEW w \in Seq(S), NEW z \in Seq(S), NEW v, v = w \o z,
         NEW c \in Seq(S), NEW l \in Nat \ {0}, IsLook(v, c, l), NEW e, e = Over(z, c)
  PROVE  IsLook(v, e, l)
<1>1. IsOver(z, c, e)
  BY OverIs
<1>2. IsJoin(S, w, z, v)
  BY Joined
<1>3. PICK a \in Nat : a = Len(w)
  OBVIOUS
<1>4. PICK m \in Nat : m = Len(z)
  OBVIOUS
<1>5. Len(v) = a + m /\ \A j \in 1..m : v[a + j] = z[j]
  BY <1>2, <1>3, <1>4, Zenon DEF IsJoin
<1>6. CASE l <= m
  <2>1. e[l] = z[l] /\ l <= Len(e)
    BY <1>1, <1>4, <1>6, Zenon DEF IsOver
  <2>2. l \in 1..m /\ a + l \in 1..Len(v)
    BY <1>5, <1>6
  <2>3. v[a + l] = z[l]
    BY <1>5, <2>2, Zenon
  <2> QED BY <2>1, <2>2, <2>3, Zenon DEF IsLook
<1>7. CASE m < l
  <2>1. l <= Len(c) /\ c[l] \in {v[g] : g \in 1..Len(v)}
    BY DEF IsLook
  <2>2. e[l] = c[l] /\ l <= Len(e)
    BY <1>1, <1>4, <1>7, <2>1, Zenon DEF IsOver
  <2> QED BY <2>1, <2>2, Zenon DEF IsLook
<1> QED BY <1>6, <1>7

\* The values of Join's names.
AtJoin(b, off, op, end, whole, rest, kept, now, at) ==
    /\ off = Reassembled(b) /\ op = b[off + 1][2] /\ end = DataEnd(b, off)
    /\ whole = SubSeq(b, 6, off) \o SubSeq(b, off + 7, end)
    /\ rest = SubSeq(b, end + 1, Len(b))
    /\ kept = <<<<"op", 0, b[1][3]>>>> \o Cell(Len(whole)) \o whole \o rest
    /\ now = Over(kept, b)
    /\ at = (IF off = 0 THEN 5 ELSE off) + 1

\* The header f, the payload p and the data d in front of z.
IsRegrouped(f, p, d, z) == (f \o (p \o d)) \o z = (f \o p) \o (d \o z)

\* Sequences joined in another order.
LEMMA Regroup ==
  ASSUME NEW f \in Seq(Letters), NEW p \in Seq(Letters), NEW d \in Seq(Letters), NEW z \in Seq(Letters)
  PROVE  IsRegrouped(f, p, d, z)
<1>1. PICK y : y = f \o p
  OBVIOUS
<1>2. y \in Seq(Letters)
  BY <1>1
<1>3. IsAssociative(f, p, d) /\ IsAssociative(y, d, z)
  BY <1>2, Associated
<1> QED BY <1>1, <1>3, Zenon DEF IsAssociative, IsRegrouped

\* What these values are, when fragment j is joined.
IsJoint(s, k, j, b, off, v, z, op, whole, rest, kept, now, at) ==
    /\ op = Op(s.msgs[k], j) /\ whole = Payload(s.msgs[k], k, 0, Upto(s.msgs[k], j)) /\ rest = z
    /\ kept = Held(s, k, j) \o z /\ b[off + 1] = <<"op", op, k>>
    /\ IsLook(v, now, at)

\* Join finds fragment j and joins it.
LEMMA AtJoinIs ==
  ASSUME NEW s \in Sessions, NEW k \in 1..Len(s.msgs), NEW r,
         NEW j \in 1..Len(s.msgs[k].ends), NEW i, i = j - 1, NEW b,
         NEW x, NEW off, NEW v, NEW n, NEW d, NEW w, NEW z, IsTaken(s, k, i, j, r, b, x, off, v, n, d, w, z),
         NEW op, NEW end, NEW whole, NEW rest, NEW kept, NEW now, NEW at,
         AtJoin(b, off, op, end, whole, rest, kept, now, at)
  PROVE  IsJoint(s, k, j, b, off, v, z, op, whole, rest, kept, now, at)
<1> DEFINE m == s.msgs[k]
<1>1. AreFrames(s, k, i, r, b, x, off, v) /\ IsNextFrame(s, k, i, j, n, d, w)
  BY Zenon DEF IsTaken
<1>2. /\ z \in Seq(Letters) /\ v = w \o z
      /\ IsFramed(b, off, n, <<"op", Op(m, j), k>>, d, z)
  BY Zenon DEF IsTaken, m
<1>3. /\ x \in Seq(Letters) /\ off \in Nat /\ Len(x) = off /\ b = x \o v
      /\ SubSeq(b, 6, off) = Payload(m, k, 0, Upto(m, i))
      /\ i = 0 => off = 0
      /\ i # 0 => off = 5 + Upto(m, i)
      /\ i # 0 => b[1] = <<"op", 0, k>>
  BY <1>1, Zenon DEF AreFrames, IsHeld, m
<1>4. /\ n \in Nat /\ Upto(m, i) \in Nat
      /\ d \in Seq(Letters) /\ Len(d) = n /\ w \in Seq(Letters)
      /\ IsFrame(w, <<"op", Op(m, j), k>>, <<"len", 128 + n, k>>, <<"mask", 0, k>>, d, n)
  BY <1>1, Zenon DEF IsNextFrame, m
<1>5. /\ b[off + 1] = <<"op", Op(m, j), k>>
      /\ SubSeq(b, off + 7, DataEnd(b, off)) = d
      /\ SubSeq(b, DataEnd(b, off) + 1, Len(b)) = z
  BY <1>2, Zenon DEF IsFramed
<1>6. op = Op(m, j) /\ rest = z /\ end = DataEnd(b, off)
  <2>1. op = b[off + 1][2] /\ end = DataEnd(b, off) /\ rest = SubSeq(b, end + 1, Len(b))
    BY Zenon DEF AtJoin
  <2>2. b[off + 1][2] = Op(m, j)
    BY <1>5
  <2> QED BY <1>5, <2>1, <2>2, Zenon
<1>7. PICK p : p = Payload(m, k, 0, Upto(m, i))
  OBVIOUS
<1>8. PICK e : e = Payload(m, k, 0, Upto(m, j))
  OBVIOUS
<1>9. p \o d = e
  <2>1. Payload(m, k, 0, Upto(m, i)) \o d = Payload(m, k, 0, Upto(m, j))
    <3>1. IsWith(s, k, i, j, d)
      BY <1>1, JoinPayload
    <3> QED BY <3>1, Zenon DEF IsWith, m
  <2> QED BY <1>7, <1>8, <2>1, Zenon
<1>10. whole = e
  <2>1. whole = SubSeq(b, 6, off) \o SubSeq(b, off + 7, end)
    BY Zenon DEF AtJoin
  <2> QED BY <1>3, <1>5, <1>6, <1>7, <1>9, <2>1, Zenon
<1>11. Len(m.ends) \in Nat
  BY Upward
<1>12. i \in 0..Len(m.ends) /\ j \in 0..Len(m.ends) /\ j # 0
  BY <1>11
<1>13. PICK u : u = Upto(m, j)
  OBVIOUS
<1>14. u \in Nat /\ u < 256 /\ e \in Seq(Letters) /\ Len(e) = u
  <2>1. PICK u1, e1 : IsPart(s, k, j, u1, e1)
    BY <1>12, UptoIn
  <2>2. u1 = Upto(m, j) /\ e1 = Payload(m, k, 0, u1) /\ u1 \in Nat /\ u1 < 256 /\ e1 \in Seq(Letters) /\ Len(e1) = u1
    BY <2>1, Zenon DEF IsPart, m
  <2> QED BY <1>8, <1>13, <2>2, Zenon
<1>15. PICK t : t = Upto(m, i)
  OBVIOUS
<1>16. t \in Nat /\ p \in Seq(Letters) /\ Len(p) = t /\ (i = 0 => t = 0)
  <2>1. PICK u1, e1 : IsPart(s, k, i, u1, e1)
    BY <1>12, UptoIn
  <2>2. u1 = Upto(m, i) /\ e1 = Payload(m, k, 0, u1) /\ u1 \in Nat /\ e1 \in Seq(Letters) /\ Len(e1) = u1
    BY <2>1, Zenon DEF IsPart, m
  <2>3. i = 0 => Upto(m, i) = 0
    BY DEF Upto
  <2> QED BY <1>7, <1>15, <2>2, <2>3, Zenon
<1>17. b[1][3] = k
  <2>1. CASE i = 0
    <3>1. off + 1 = 1
      BY <1>3, <2>1
    <3>2. b[1] = <<"op", Op(m, j), k>>
      BY <1>5, <3>1, Zenon
    <3> QED BY <3>2
  <2>2. CASE i # 0
    <3>1. b[1] = <<"op", 0, k>>
      BY <1>3, <2>2, Zenon
    <3> QED BY <3>1
  <2> QED BY <2>1, <2>2
<1>18. PICK f : f = Gathered(k, u)
  OBVIOUS
<1>19. f \in Seq(Letters) /\ Len(f) = 5
  <2>1. k \in Nat
    OBVIOUS
  <2> QED BY <1>14, <1>18, <2>1, GatheredIs
<1>20. kept = (f \o e) \o z
  <2>1. kept = <<<<"op", 0, b[1][3]>>>> \o Cell(Len(whole)) \o whole \o rest
    BY Zenon DEF AtJoin
  <2>2. f = <<<<"op", 0, k>>>> \o Cell(u)
    BY <1>18, Zenon DEF Gathered
  <2>3. Len(whole) = u
    BY <1>10, <1>14, Zenon
  <2> QED BY <1>6, <1>10, <1>17, <2>1, <2>2, <2>3, Zenon
<1>21. kept = Held(s, k, j) \o z
  <2>1. Held(s, k, j) = f \o e
    BY <1>8, <1>12, <1>13, <1>18, Zenon DEF Held, m
  <2> QED BY <1>20, <2>1, Zenon
<1>22. PICK y : y = f \o p
  OBVIOUS
<1>23. y \in Seq(Letters) /\ Len(y) = 5 + t
  <2>1. IsJoin(Letters, f, p, y)
    BY <1>16, <1>19, <1>22, Joined
  <2>2. y \in Seq(Letters) /\ Len(y) = Len(f) + Len(p)
    BY <2>1, Zenon DEF IsJoin
  <2> QED BY <1>16, <1>19, <2>2, Zenon
<1>24. kept = y \o (d \o z)
  <2>1. (f \o (p \o d)) \o z = (f \o p) \o (d \o z)
    <3>1. IsRegrouped(f, p, d, z)
      BY <1>2, <1>4, <1>16, <1>19, Regroup
    <3> QED BY <3>1, Zenon DEF IsRegrouped
  <2> QED BY <1>9, <1>20, <1>22, <2>1, Zenon
<1>25. PICK L \in Nat : L = 5 + t
  BY <1>16
<1>26. off = L \/ (off = 0 /\ L = 5)
  BY <1>3, <1>15, <1>16, <1>25
<1>27. at = L + 1
  <2>1. at = (IF off = 0 THEN 5 ELSE off) + 1
    BY Zenon DEF AtJoin
  <2>2. off = 0 => L = 5
    BY <1>16, <1>25, <1>26
  <2> QED BY <1>26, <2>1, <2>2
<1>28. now = Over(kept, b)
  BY Zenon DEF AtJoin
<1>29. Len(w) = n + 6 /\ \A l \in 1..n : w[6 + l] = d[l]
  BY <1>4, Zenon DEF IsFrame
<1>30. IsLook(v, now, L + 1)
  <2>1. n = Len(d) /\ L = Len(y) /\ off = Len(x)
    BY <1>3, <1>4, <1>23, <1>25
  <2> QED BY <1>2, <1>3, <1>4, <1>23, <1>24, <1>26, <1>28, <1>29, <2>1, Look, ZenonT(30)
<1> QED BY <1>5, <1>6, <1>8, <1>10, <1>21, <1>27, <1>30, Zenon DEF m, IsJoint

\* A byte that reads like the opcode of a close frame is one, or is data or a length.
IsCloseLike(c) == c[2] % 16 = 8 => (c[1] = "op" /\ c[2] = 136) \/ c[1] \in {"byte", "len"}

\* An opcode byte that reads like the one of a close frame is that one.
IsCloseOp(o) == o % 16 = 8 => o = 136

\* d is payload.
AreBytes(d, n) == \A l \in 1..n : d[l][1] = "byte"

\* In a frame only the opcode, the length and the data may read like a close frame.
LEMMA FrameLetter ==
  ASSUME NEW w, NEW o, NEW v, NEW d, NEW n \in Nat, NEW k, IsFrame(w, <<"op", o, k>>, <<"len", v, k>>, <<"mask", 0, k>>, d, n),
         IsCloseOp(o), AreBytes(d, n), NEW j \in 1..Len(w), NEW c, c = w[j]
  PROVE  IsCloseLike(c)
<1>1. /\ Len(w) = n + 6
      /\ w[1] = <<"op", o, k>> /\ w[2] = <<"len", v, k>> /\ \A l \in 3..6 : w[l] = <<"mask", 0, k>>
      /\ \A l \in 1..n : w[6 + l] = d[l]
  BY Zenon DEF IsFrame
<1>2. CASE j = 1
  <2>1. w[j][1] = "op" /\ w[j][2] = o
    BY <1>1, <1>2
  <2> QED BY <2>1 DEF IsCloseLike, IsCloseOp
<1>3. CASE j = 2
  <2>1. w[j][1] = "len"
    BY <1>1, <1>3
  <2> QED BY <2>1 DEF IsCloseLike
<1>4. CASE j \in 3..6
  <2>1. w[j][2] = 0
    BY <1>1, <1>4
  <2>2. 0 % 16 # 8
    OBVIOUS
  <2> QED BY <2>1, <2>2 DEF IsCloseLike
<1>5. CASE j > 6
  <2>1. PICK l : l = j - 6
    OBVIOUS
  <2>2. l \in 1..n /\ 6 + l = j
    BY <1>1, <1>5, <2>1
  <2>3. w[j] = d[l]
    BY <1>1, <2>2, Zenon
  <2>4. d[l][1] = "byte"
    BY <2>2 DEF AreBytes
  <2>5. w[j][1] = "byte"
    BY <2>3, <2>4
  <2> QED BY <2>5 DEF IsCloseLike
<1>6. j = 1 \/ j = 2 \/ j \in 3..6 \/ j > 6
  <2>1. j \in Nat /\ j >= 1
    BY <1>1
  <2> QED BY <2>1
<1> QED BY <1>2, <1>3, <1>4, <1>5, <1>6

\* A message has one piece, or more.
LEMMA OneOrMore ==
  ASSUME NEW n \in Nat \ {0}
  PROVE  n = 1 \/ n > 1
OBVIOUS

\* The opcode byte of fragment j.
LEMMA OpClose ==
  ASSUME NEW s \in Sessions, NEW k \in 1..Len(s.msgs), s.msgs[k].kind \in Data,
         NEW j \in 1..Len(s.msgs[k].ends), NEW o, o = Op(s.msgs[k], j)
  PROVE  IsCloseOp(o)
<1> DEFINE m == s.msgs[k]
<1>1. Len(m.ends) \in Nat \ {0} /\ (Len(m.ends) > 1 => m.kind = "text")
  BY Alone, Zenon
<1>2. /\ AreOps(Opcode[m.kind], j, Len(m.ends), o)
      /\ m.kind = "text" => Opcode[m.kind] = 1
      /\ m.kind = "close" => Opcode[m.kind] = 8
      /\ m.kind = "ping" => Opcode[m.kind] = 9
  BY <1>1, Ops
<1>3. PICK a : a = Opcode[m.kind]
  OBVIOUS
<1>4. PICK n \in Nat \ {0} : n = Len(m.ends)
  BY <1>1
<1>5. /\ o % 16 = 8 => j = 1 /\ a = 8
      /\ j = 1 /\ n = 1 => o = a + 128
  BY <1>2, <1>3, <1>4, Zenon DEF AreOps
<1>6. a = 8 => n = 1
  <2>1. n > 1 => a = 1
    BY <1>1, <1>2, <1>3, <1>4, Zenon
  <2>2. n = 1 \/ n > 1
    BY <1>4, OneOrMore
  <2>3. 1 # 8
    OBVIOUS
  <2> QED BY <2>1, <2>2, <2>3, Zenon
<1> QED BY <1>5, <1>6 DEF IsCloseOp

\* The same for a byte of the stream in such a message ...
LEMMA FrameByte ==
  ASSUME NEW s \in Sessions, NEW k \in 1..Len(s.msgs), s.msgs[k].kind \in Data, NEW q \in Nat,
         s.starts[k] < q, q <= s.starts[k + 1]
  PROVE  IsCloseLike(Byte(s, q))
<1> DEFINE m == s.msgs[k]
<1>1. m.kind \notin Http
  BY DEF Http, Data
<1>2. PICK i \in 1..Len(m.ends) : \E j \in 1..Len(Piece(m, k, i)) : Byte(s, q) = Piece(m, k, i)[j]
  BY <1>1, ByteIn, SMTT(30)
<1>3. PICK j \in 1..Len(Piece(m, k, i)) : Byte(s, q) = Piece(m, k, i)[j]
  BY <1>2
<1>4. PICK n : n = Upto(m, i) - Upto(m, i - 1)
  OBVIOUS
<1>5. PICK d : d = Payload(m, k, Upto(m, i - 1), Upto(m, i))
  OBVIOUS
<1>6. PICK w : w = Piece(m, k, i)
  OBVIOUS
<1>7. n \in Nat /\ IsFrame(w, <<"op", Op(m, i), k>>, <<"len", 128 + n, k>>, <<"mask", 0, k>>, d, n)
  <2>1. /\ n \in Nat
        /\ IsFrame(Piece(m, k, i), <<"op", Op(m, i), k>>, <<"len", 128 + n, k>>, <<"mask", 0, k>>,
                    Payload(m, k, Upto(m, i - 1), Upto(m, i)), n)
    BY <1>4, FramePiece, SMTT(30)
  <2> QED BY <1>5, <1>6, <2>1, Zenon
<1>8. IsPayload(m, k, Upto(m, i - 1), Upto(m, i), d)
  BY <1>5, DataIs
<1>9. \A l \in 1..n : d[l] = <<"byte", m.from + Upto(m, i - 1) + l - 1, k>>
  BY <1>4, <1>8, Zenon DEF IsPayload
<1>10. AreBytes(d, n)
  BY <1>9 DEF AreBytes
<1>11. PICK o : o = Op(m, i)
  OBVIOUS
<1>12. IsCloseOp(o)
  BY <1>11, OpClose
<1>13. j \in 1..Len(w) /\ Byte(s, q) = w[j]
  BY <1>3, <1>6, Zenon
<1>14. PICK c : c = w[j]
  OBVIOUS
<1>15. IsCloseLike(c)
  <2>1. IsFrame(w, <<"op", o, k>>, <<"len", 128 + n, k>>, <<"mask", 0, k>>, d, n)
    BY <1>7, <1>11, Zenon
  <2>2. n \in Nat
    BY <1>7
  <2>3. j \in 1..Len(w)
    BY <1>13
  <2> QED BY <1>10, <1>12, <1>14, <2>1, <2>2, <2>3, FrameLetter
<1> QED BY <1>13, <1>14, <1>15, Zenon

\* Frames follow frames.
LEMMA DataOn ==
  ASSUME NEW s \in Sessions, NEW k \in 1..Len(s.msgs), s.msgs[k].kind \in Data, NEW h \in 1..Len(s.msgs), k <= h
  PROVE  s.msgs[h].kind \in Data
<1>1. Proper(s, k) /\ Proper(s, h)
  BY Shape
<1>2. s.msgs[k].kind \in Data <=> \E u \in 1..(k - 1) : s.msgs[u].kind = "upgrade"
  BY <1>1 DEF Proper
<1>3. s.msgs[h].kind \in Data <=> \E u \in 1..(h - 1) : s.msgs[u].kind = "upgrade"
  BY <1>1 DEF Proper
<1>4. PICK u \in 1..(k - 1) : s.msgs[u].kind = "upgrade"
  BY <1>2
<1>5. u \in 1..(h - 1)
  BY <1>4
<1> QED BY <1>3, <1>4, <1>5

\* ... and for all that is read behind it.
LEMMA ByteFrom ==
  ASSUME NEW s \in Sessions, NEW k \in 1..Len(s.msgs), s.msgs[k].kind \in Data, NEW r, Reach(s, r),
         NEW q \in Nat, s.starts[k] < q, q <= r
  PROVE  IsCloseLike(Byte(s, q)) /\ q \in 1..r
<1>1. PICK g \in 1..(Len(s.msgs) + 1) : r <= s.starts[g]
  BY DEF Reach
<1>2. PICK c \in Nat : c = s.starts[g]
  BY Counts
<1>3. PICK a \in Nat : a = s.starts[k]
  BY Shape
<1>4. r \in Nat
  BY DEF Reach
<1>5. q \in 1..c /\ q \in 1..r
  BY <1>1, <1>2, <1>3, <1>4
<1>6. PICK h \in 1..Len(s.msgs) : h < g /\ s.starts[h] < q /\ q <= s.starts[h + 1]
  BY <1>2, <1>5, InMessage
<1>7. k <= h
  <2>1. ASSUME h < k PROVE FALSE
    <3>1. s.starts[h + 1] <= s.starts[k]
      <4>1. Len(s.msgs) \in Nat
        BY Counts
      <4>2. h + 1 \in 1..(Len(s.msgs) + 1) /\ k \in 1..(Len(s.msgs) + 1) /\ (h + 1 = k \/ h + 1 < k)
        BY <2>1, <4>1
      <4>3. s.starts[h + 1] \in Nat /\ s.starts[k] \in Nat
        BY Shape
      <4>4. h + 1 < k => s.starts[h + 1] < s.starts[k]
        BY <4>2, Starts
      <4> QED BY <4>2, <4>3, <4>4
    <3>2. PICK e \in Nat : e = s.starts[h + 1]
      BY Shape
    <3>3. e <= a /\ a < q /\ q <= e
      BY <1>3, <1>6, <3>1, <3>2
    <3> QED BY <3>3
  <2> QED BY <2>1
<1>8. s.msgs[h].kind \in Data
  BY <1>7, DataOn
<1> QED BY <1>5, <1>6, <1>8, FrameByte

\* A byte that was read.
IsSeen(s, r, c) == IsCloseLike(c) /\ \E q \in 1..r : c = Byte(s, q)

\* The byte that the code looks at was read.
LEMMA LookSeen ==
  ASSUME NEW s \in Sessions, NEW k \in 1..Len(s.msgs), s.msgs[k].kind \in Data, NEW r, Reach(s, r),
         NEW i \in 0..Len(s.msgs[k].ends), NEW v, v = Wire(s, At(s, k, i), r), At(s, k, i) <= r,
         NEW c, NEW l, IsLook(v, c, l)
  PROVE  IsSeen(s, r, c[l])
<1>1. PICK p \in Nat : p = At(s, k, i)
  BY PlaceIn
<1>2. PICK a \in Nat : a = s.starts[k]
  BY Shape
<1>3. a <= p /\ p <= r /\ r \in Nat
  BY <1>1, <1>2, PlaceIn DEF Reach
<1>4. IsWire(s, p, r, v)
  BY <1>1, <1>3, WireIs
<1>5. Len(v) = r - p /\ \A g \in 1..(r - p) : v[g] = Byte(s, p + g)
  BY <1>4, Zenon DEF IsWire
<1>6. PICK g \in 1..Len(v) : c[l] = v[g]
  BY DEF IsLook
<1>7. g \in 1..(r - p) /\ c[l] = Byte(s, p + g)
  BY <1>5, <1>6, Zenon
<1>8. PICK q : q = p + g
  OBVIOUS
<1>9. q \in Nat /\ a < q /\ q <= r
  BY <1>2, <1>3, <1>7, <1>8
<1>10. IsCloseLike(Byte(s, q)) /\ q \in 1..r
  BY <1>2, <1>9, ByteFrom
<1> QED BY <1>7, <1>8, <1>10, Zenon DEF IsSeen

\* The first byte of a message, when there is more of it.
LEMMA FirstByte ==
  ASSUME NEW s \in Sessions, NEW k \in 1..Len(s.msgs), s.msgs[k].kind \in Data, NEW r, Reach(s, r),
         s.starts[k] < r
  PROVE  \E q \in 1..r : Byte(s, q) = <<"op", Op(s.msgs[k], 1), k>>
<1>1. PICK a \in Nat : a = s.starts[k]
  BY Shape
<1>2. At(s, k, 0) = a
  <2>1. Place(s.msgs[k], 0) = 0
    BY Places
  <2> QED BY <1>1, <2>1 DEF At
<1>3. 1 \in 1..Len(s.msgs[k].ends) /\ 0 = 1 - 1
  <2>1. Len(s.msgs[k].ends) \in Nat \ {0}
    BY Upward
  <2> QED BY <2>1
<1>4. PICK n, d, w : IsNextFrame(s, k, 0, 1, n, d, w)
  BY <1>3, FrameNext
<1>5. Byte(s, a + 1) = <<"op", Op(s.msgs[k], 1), k>>
  BY <1>2, <1>4, Zenon DEF IsNextFrame
<1>6. a + 1 \in 1..r
  BY <1>1 DEF Reach
<1> QED BY <1>5, <1>6, Zenon

\* What Join does with the message, and the byte it looks at.
IsJoinStep(s, k, r, b, off, op, whole, rest, kept, now, at) ==
    /\ s.msgs[k].kind = "text"
    /\ \E q \in 1..r : Byte(s, q) = <<"op", 1, k>>
    /\ op < Fin => (\E j : HasFrames(s, k, j, r, kept)) /\ IsSeen(s, r, now[at])
    /\ ~(op < Fin) =>
          /\ whole = Payload(s.msgs[k], k, 0, Size(s.msgs[k])) /\ Untouched(s, k + 1, r, rest)
          /\ Event(b[off + 1]) = "frame" /\ IsSeen(s, r, Over(rest, now)[at])

\* Join keeps the fragments or hands the message over, as it was sent.
LEMMA JoinStep ==
  ASSUME NEW s \in Sessions, NEW k \in 1..Len(s.msgs), s.msgs[k].kind \in Data, NEW r, Reach(s, r),
         NEW i, NEW b, HasFrames(s, k, i, r, b), WholeFrame(b), Fragment(b[1][2]),
         NEW off, NEW op, NEW end, NEW whole, NEW rest, NEW kept, NEW now, NEW at,
         AtJoin(b, off, op, end, whole, rest, kept, now, at)
  PROVE  IsJoinStep(s, k, r, b, off, op, whole, rest, kept, now, at)
<1> DEFINE m == s.msgs[k]
<1>1. Len(m.ends) \in Nat \ {0} /\ (Len(m.ends) > 1 => m.kind = "text")
  BY Alone, Zenon
<1>2. PICK L \in Nat \ {0} : L = Len(m.ends)
  BY <1>1
<1>3. i \in 0..(L - 1)
  BY <1>2, Zenon DEF HasFrames
<1>4. PICK j : j = i + 1
  OBVIOUS
<1>5. j \in 1..L /\ i = j - 1 /\ i \in 0..L /\ j \in 0..L
  BY <1>3, <1>4
<1>6. At(s, k, j) <= r
  <2>1. j \in 1..Len(m.ends) /\ i = j - 1
    BY <1>2, <1>5, Zenon
  <2> QED BY <2>1, FrameTest
<1>7. PICK x, off0, v, n, d, w, z : IsTaken(s, k, i, j, r, b, x, off0, v, n, d, w, z)
  <2>1. j \in 1..Len(m.ends) /\ i = j - 1
    BY <1>2, <1>5, Zenon
  <2>2. \E x, off0, v, n, d, w, z : IsTaken(s, k, i, j, r, b, x, off0, v, n, d, w, z)
    BY <1>6, <2>1, FrameTaken
  <2> QED BY <2>2, Zenon
<1>8. /\ AreFrames(s, k, i, r, b, x, off0, v)
      /\ z = Wire(s, At(s, k, j), r) /\ z \in Seq(Letters) /\ v = w \o z
  BY <1>7, Zenon DEF IsTaken
<1>9. /\ Reassembled(b) = off0 /\ v = Wire(s, At(s, k, i), r) /\ v \in Seq(Letters) /\ At(s, k, i) <= r
      /\ b \in Seq(Letters)
  BY <1>8, Zenon DEF AreFrames
<1>10. off = off0
  BY <1>9, Zenon DEF AtJoin
<1>11. /\ op = Op(m, j) /\ whole = Payload(m, k, 0, Upto(m, j)) /\ rest = z
       /\ kept = Held(s, k, j) \o z /\ b[off + 1] = <<"op", op, k>>
       /\ IsLook(v, now, at)
  <2>1. j \in 1..Len(m.ends) /\ i = j - 1
    BY <1>2, <1>5, Zenon
  <2>2. IsTaken(s, k, i, j, r, b, x, off, v, n, d, w, z)
    BY <1>7, <1>10, Zenon
  <2>3. IsJoint(s, k, j, b, off, v, z, op, whole, rest, kept, now, at)
    BY <2>1, <2>2, AtJoinIs
  <2> QED BY <2>3, Zenon DEF IsJoint, m
<1>12. /\ AreOps(Opcode[m.kind], j, L, op)
       /\ op \in Nat
  BY <1>1, <1>2, <1>11, Ops
<1>13. /\ op < 128 <=> j # L
       /\ j = 1 => op % 16 # 0
       /\ j # 1 => op \in {0, 128}
       /\ j = 1 /\ L > 1 => op = 1
  BY <1>12, Zenon DEF AreOps
<1>14. L > 1
  <2>1. CASE i = 0
    <3>1. off = 0
      BY <1>8, <1>10, <2>1, Zenon DEF AreFrames, IsHeld
    <3>2. off + 1 = 1
      BY <3>1
    <3>3. b[1] = <<"op", op, k>>
      BY <1>11, <3>2, Zenon
    <3>4. b[1][2] = op
      BY <3>3
    <3>5. Fragment(op)
      BY <3>4, Zenon
    <3>6. j = 1
      BY <1>4, <2>1
    <3>7. op < 128
      BY <1>13, <3>5, <3>6, Zenon DEF Fragment, Fin
    <3>8. j # L
      BY <1>13, <3>7, Zenon
    <3>9. L = 1 \/ L > 1
      BY <1>2, OneOrMore
    <3> QED BY <3>6, <3>8, <3>9, Zenon
  <2>2. CASE i # 0
    BY <1>2, <1>3, <2>2
  <2> QED BY <2>1, <2>2
<1>15. m.kind = "text"
  BY <1>1, <1>2, <1>14, Zenon
<1>16. \E q \in 1..r : Byte(s, q) = <<"op", 1, k>>
  <2>1. s.starts[k] < r
    <3>1. PICK a \in Nat : a = At(s, k, i)
      BY <1>2, <1>5, PlaceIn
    <3>2. s.starts[k] <= a /\ s.starts[k] \in Nat
      BY <1>2, <1>5, <3>1, PlaceIn, Shape
    <3>3. n \in Nat /\ At(s, k, j) = a + (n + 6)
      BY <1>7, <3>1, Zenon DEF IsTaken, IsNextFrame
    <3>4. a < r
      <4>1. r \in Nat
        BY DEF Reach
      <4> QED BY <1>6, <3>3, <4>1
    <3>5. r \in Nat
      BY DEF Reach
    <3> QED BY <3>2, <3>4, <3>5
  <2>2. Op(m, 1) = 1
    <3>1. AreOps(Opcode[m.kind], 1, L, Op(m, 1))
      BY <1>1, <1>2, Ops
    <3> QED BY <1>14, <3>1, Zenon DEF AreOps
  <2>3. \E q \in 1..r : Byte(s, q) = <<"op", Op(m, 1), k>>
    BY <2>1, FirstByte
  <2> QED BY <2>2, <2>3, Zenon
<1>17. IsSeen(s, r, now[at])
  <2>1. i \in 0..Len(m.ends)
    BY <1>2, <1>5, Zenon
  <2> QED BY <1>9, <1>11, <2>1, LookSeen
<1>18. ASSUME op < Fin PROVE \E l : HasFrames(s, k, l, r, kept)
  <2>1. j # L
    BY <1>13, <1>18, Zenon DEF Fin
  <2>2. j \in 0..(L - 1)
    BY <1>5, <2>1
  <2>3. HasFrames(s, k, j, r, kept)
    BY <1>2, <1>6, <1>8, <1>11, <2>2, Zenon DEF HasFrames, m
  <2> QED BY <2>3
<1>19. ASSUME ~(op < Fin)
       PROVE  /\ whole = Payload(m, k, 0, Size(m)) /\ Untouched(s, k + 1, r, rest)
              /\ Event(b[off + 1]) = "frame" /\ IsSeen(s, r, Over(rest, now)[at])
  <2>1. j = L
    BY <1>13, <1>19, Zenon DEF Fin
  <2>2. Untouched(s, k + 1, r, rest)
    <3>1. j = Len(m.ends) /\ z = Wire(s, At(s, k, j), r)
      BY <1>2, <1>8, <2>1, Zenon
    <3>2. Untouched(s, k + 1, r, z)
      BY <1>6, <3>1, LastFrame
    <3> QED BY <1>11, <3>2, Zenon
  <2>3. Size(m) = Upto(m, j)
    BY <1>2, <2>1, Zenon DEF Size
  <2>4. Event(b[off + 1]) = "frame"
    <3>1. op = 128
      <4>1. j # 1
        BY <1>14, <2>1
      <4>2. op \in {0, 128}
        BY <1>13, <4>1, Zenon
      <4> QED BY <1>19, <4>2 DEF Fin
    <3>2. b[off + 1][2] = 128
      BY <1>11, <3>1
    <3>3. ~((128 \div 8) % 2 = 1)
      OBVIOUS
    <3> QED BY <3>2, <3>3, Zenon DEF Event, IsControl
  <2>5. IsSeen(s, r, Over(rest, now)[at])
    <3>1. PICK e : e = Over(z, now)
      OBVIOUS
    <3>2. IsLook(v, e, at)
      <4>1. at \in Nat \ {0}
        <5>1. at = (IF off = 0 THEN 5 ELSE off) + 1
          BY Zenon DEF AtJoin
        <5>2. off \in Nat
          BY <1>8, <1>10, Zenon DEF AreFrames, IsHeld
        <5> QED BY <5>1, <5>2
      <4>2. w \in Seq(Letters)
        BY <1>7, Zenon DEF IsTaken, IsNextFrame
      <4>3. now \in Seq(Letters)
        <5>1. kept \in Seq(Letters)
          <6>1. PICK y, u : IsHeld(s, k, j, y, u)
            BY <1>2, <1>5, HeldIs
          <6>2. y = Held(s, k, j) /\ y \in Seq(Letters)
            BY <6>1, Zenon DEF IsHeld
          <6>3. kept = y \o z
            BY <1>11, <6>2, Zenon
          <6> QED BY <1>8, <6>2, <6>3
        <5>2. now = Over(kept, b)
          BY Zenon DEF AtJoin
        <5> QED BY <1>9, <5>1, <5>2, OverIs
      <4>4. IsLook(v, now, at) /\ z \in Seq(Letters) /\ v = w \o z
        BY <1>8, <1>11, Zenon
      <4> QED BY <3>1, <4>1, <4>2, <4>3, <4>4, LookOver
    <3>3. i \in 0..Len(m.ends)
      BY <1>2, <1>5, Zenon
    <3>4. IsSeen(s, r, e[at])
      BY <1>9, <3>2, <3>3, LookSeen
    <3> QED BY <1>11, <3>1, <3>4, Zenon
  <2> QED BY <1>11, <2>2, <2>3, <2>4, <2>5, Zenon
<1> QED BY <1>15, <1>16, <1>17, <1>18, <1>19, Zenon DEF IsJoinStep, m

----------------------------------------------------------------------------
\* What more bytes do to the buffer, and how long it is.

\* No more is read than was sent.
LEMMA Ends ==
  ASSUME NEW s \in Sessions, NEW r, Reach(s, r)
  PROVE  r <= s.starts[Len(s.msgs) + 1] /\ r \in Nat
<1>1. PICK h \in 1..(Len(s.msgs) + 1) : r <= s.starts[h]
  BY DEF Reach
<1>2. Len(s.msgs) \in Nat
  BY Counts
<1>3. PICK g \in Nat : g = Len(s.msgs) + 1
  BY <1>2
<1>4. g \in 1..(Len(s.msgs) + 1) /\ (h = g \/ h < g)
  BY <1>2, <1>3
<1>5. h < g => s.starts[h] < s.starts[g]
  BY <1>3, <1>4, Starts
<1>6. s.starts[g] \in Nat /\ s.starts[h] \in Nat /\ r \in Nat
  BY <1>4, Counts DEF Reach
<1>7. r <= s.starts[g]
  BY <1>1, <1>4, <1>5, <1>6
<1> QED BY <1>3, <1>6, <1>7

\* What is left when there is more to read.
LEMMA NotLast ==
  ASSUME NEW s \in Sessions, NEW k \in 1..(Len(s.msgs) + 1), NEW r, Reach(s, r), s.starts[k] < r
  PROVE  k \in 1..Len(s.msgs)
<1>1. Len(s.msgs) \in Nat
  BY Counts
<1>2. k # Len(s.msgs) + 1
  <2>1. r <= s.starts[Len(s.msgs) + 1] /\ r \in Nat
    BY Ends
  <2>2. s.starts[k] \in Nat
    BY Counts
  <2> QED BY <2>1, <2>2
<1> QED BY <1>1, <1>2

\* A message of frames has no headers.
LEMMA AtZero ==
  ASSUME NEW s \in Sessions, NEW k \in 1..Len(s.msgs), s.msgs[k].kind \in Data
  PROVE  At(s, k, 0) = s.starts[k] /\ s.starts[k] \in Nat
<1>1. Place(s.msgs[k], 0) = 0
  BY Places
<1>2. s.starts[k] \in Nat
  BY Shape
<1> QED BY <1>1, <1>2 DEF At

\* With no fragments kept, the buffer is the stream.
LEMMA FirstFrames ==
  ASSUME NEW s \in Sessions, NEW k \in 1..Len(s.msgs), s.msgs[k].kind \in Data, NEW r, Reach(s, r),
         NEW b, Untouched(s, k, r, b)
  PROVE  HasFrames(s, k, 0, r, b)
<1>1. PICK a \in Nat : a = s.starts[k]
  BY Shape
<1>2. At(s, k, 0) = a
  BY <1>1, AtZero
<1>3. 0 \in 0..(Len(s.msgs[k].ends) - 1)
  <2>1. Len(s.msgs[k].ends) \in Nat \ {0}
    BY Upward
  <2> QED BY <2>1
<1>4. a <= r /\ b = Wire(s, a, r)
  BY <1>1, Zenon DEF Untouched
<1>5. Wire(s, a, r) \in Seq(Letters)
  BY <1>4, WireSeq
<1>6. Held(s, k, 0) = <<>>
  BY DEF Held
<1>7. b = <<>> \o Wire(s, a, r)
  BY <1>4, <1>5, ConcatEmptySeq
<1> QED BY <1>2, <1>3, <1>4, <1>6, <1>7, Zenon DEF HasFrames, IsReadOn

\* More is read behind fragments ...
LEMMA ReadFrames ==
  ASSUME NEW s \in Sessions, NEW k \in 1..Len(s.msgs), s.msgs[k].kind \in Data, NEW r \in Nat, NEW n, Reach(s, n), r <= n,
         NEW i, NEW b, HasFrames(s, k, i, r, b)
  PROVE  HasFrames(s, k, i, n, b \o Wire(s, r, n))
<1>1. Reach(s, r)
  BY ReachDown
<1>2. PICK x, off, v : AreFrames(s, k, i, r, b, x, off, v)
  BY <1>1, FrameView
<1>3. x = Held(s, k, i) /\ x \in Seq(Letters) /\ v = Wire(s, At(s, k, i), r) /\ At(s, k, i) \in Nat /\ b = x \o v
  BY <1>2, Zenon DEF AreFrames, IsHeld
<1>4. PICK p \in Nat : p = At(s, k, i)
  BY <1>3
<1>5. i \in 0..(Len(s.msgs[k].ends) - 1) /\ At(s, k, i) <= r
  BY Zenon DEF HasFrames
<1>6. IsReadOn(s, x, p, r, n)
  BY <1>3, <1>4, <1>5, ReadOn
<1>7. At(s, k, i) <= n
  <2>1. n \in Nat
    BY DEF Reach
  <2> QED BY <1>4, <1>5, <2>1
<1> QED BY <1>3, <1>4, <1>5, <1>6, <1>7, Zenon DEF HasFrames, IsReadOn

\* ... and behind chunks.
LEMMA ReadChunks ==
  ASSUME NEW s \in Sessions, NEW k \in 1..Len(s.msgs), NEW r \in Nat, NEW n, Reach(s, n), r <= n,
         NEW i, NEW t, NEW b, HasChunks(s, k, i, t, r, b)
  PROVE  HasChunks(s, k, i, t, n, b \o Wire(s, r, n))
<1>1. Reach(s, r)
  BY ReachDown
<1>2. PICK x, d, v : AreChunks(s, k, i, t, r, b, x, d, v)
  BY <1>1, ChunkView
<1>3. /\ x = <<<<"head", 0, k>>>> \o d /\ v = Wire(s, At(s, k, i), r) /\ b = x \o v
      /\ d = Payload(s.msgs[k], k, t, Upto(s.msgs[k], i))
      /\ x \in Seq(Letters) /\ At(s, k, i) \in Nat
  BY <1>2, Zenon DEF AreChunks
<1>4. PICK p \in Nat : p = At(s, k, i)
  BY <1>3
<1>5. /\ i \in 0..Len(s.msgs[k].ends) /\ At(s, k, i) <= r
      /\ t \in Nat /\ t <= Upto(s.msgs[k], i)
  BY Zenon DEF HasChunks
<1>6. IsReadOn(s, x, p, r, n)
  BY <1>3, <1>4, <1>5, ReadOn
<1>7. At(s, k, i) <= n
  <2>1. n \in Nat
    BY DEF Reach
  <2> QED BY <1>4, <1>5, <2>1
<1> QED BY <1>3, <1>4, <1>5, <1>6, <1>7, Zenon DEF HasChunks, IsReadOn

\* A buffer holds bytes, and no more than were read.
Fits(r, b) == b \in Seq(Letters) /\ Len(b) <= r

\* The stream is no longer than what was read ...
LEMMA FitsUntouched ==
  ASSUME NEW s \in Sessions, NEW k \in 1..(Len(s.msgs) + 1), NEW r, Reach(s, r), NEW b, Untouched(s, k, r, b)
  PROVE  Fits(r, b)
<1>1. PICK a \in Nat : a = s.starts[k]
  BY Counts
<1>2. a <= r /\ b = Wire(s, a, r) /\ r \in Nat
  BY <1>1, Zenon DEF Untouched, Reach
<1>3. b \in Seq(Letters) /\ Len(b) = r - a
  BY <1>2, WireSeq
<1> QED BY <1>2, <1>3 DEF Fits

\* ... nor are fragments with the five bytes in front of them ...
LEMMA FitsFrames ==
  ASSUME NEW s \in Sessions, NEW k \in 1..Len(s.msgs), s.msgs[k].kind \in Data, NEW r, Reach(s, r),
         NEW i, NEW b, HasFrames(s, k, i, r, b)
  PROVE  Fits(r, b)
<1>1. PICK x, off, v : AreFrames(s, k, i, r, b, x, off, v)
  BY FrameView
<1>2. /\ Len(v) = r - At(s, k, i) /\ r \in Nat /\ At(s, k, i) \in Nat /\ At(s, k, i) <= r
      /\ b \in Seq(Letters) /\ Len(b) = off + Len(v)
      /\ off \in Nat
      /\ i = 0 => off = 0
      /\ i # 0 => off = 5 + Upto(s.msgs[k], i)
  BY <1>1, Zenon DEF AreFrames, IsHeld
<1>3. i \in 0..(Len(s.msgs[k].ends) - 1)
  BY Zenon DEF HasFrames
<1>4. off <= At(s, k, i)
  <2>1. CASE i = 0
    BY <1>2, <2>1
  <2>2. CASE i # 0
    <3>1. Len(s.msgs[k].ends) \in Nat
      BY Upward
    <3>2. i \in 0..Len(s.msgs[k].ends) /\ i \in Nat /\ i >= 1
      BY <1>3, <2>2, <3>1
    <3>3. Place(s.msgs[k], i) = Upto(s.msgs[k], i) + 6 * i
      BY <3>2, Places
    <3>4. PICK u \in Nat : u = Upto(s.msgs[k], i)
      BY <3>2, Upward
    <3>5. PICK a \in Nat : a = s.starts[k]
      BY Shape
    <3>6. At(s, k, i) = a + (u + 6 * i)
      BY <3>3, <3>4, <3>5, Zenon DEF At
    <3>7. off = 5 + u
      BY <1>2, <2>2, <3>4
    <3> QED BY <3>2, <3>6, <3>7
  <2> QED BY <2>1, <2>2
<1>5. Len(b) <= r
  <2>1. PICK p \in Nat : p = At(s, k, i)
    BY <1>2
  <2>2. Len(b) = off + (r - p) /\ off <= p /\ r \in Nat /\ off \in Nat
    BY <1>2, <1>4, <2>1
  <2> QED BY <2>2
<1> QED BY <1>2, <1>5 DEF Fits

\* ... nor chunks.
LEMMA FitsChunks ==
  ASSUME NEW s \in Sessions, NEW k \in 1..Len(s.msgs), s.msgs[k].kind = "chunked", NEW r, Reach(s, r),
         NEW i, NEW t, NEW b, HasChunks(s, k, i, t, r, b)
  PROVE  Fits(r, b) /\ Upto(s.msgs[k], i) - t <= r
<1>1. /\ i \in 0..Len(s.msgs[k].ends) /\ At(s, k, i) <= r
      /\ t \in Nat /\ t <= Upto(s.msgs[k], i)
  BY Zenon DEF HasChunks
<1>2. PICK u \in Nat : u = Upto(s.msgs[k], i)
  BY <1>1, Upward
<1>3. PICK c \in Nat : c = u - t
  BY <1>1, <1>2
<1>4. u = t + c
  BY <1>1, <1>3
<1>5. b \in Seq(Letters) /\ Len(b) = (1 + c) + (r - At(s, k, i))
  <2>1. IsHeaded(b, c, r, At(s, k, i), k)
    BY <1>2, <1>4, ChunkBody
  <2> QED BY <2>1, Zenon DEF IsHeaded
<1>6. PICK a \in Nat : a = s.starts[k]
  BY Shape
<1>7. At(s, k, i) = a + (1 + u + 5 * i)
  <2>1. Place(s.msgs[k], i) = 1 + Upto(s.msgs[k], i) + 5 * i
    BY <1>1, Places
  <2> QED BY <1>2, <1>6, <2>1, Zenon DEF At
<1>8. i \in Nat
  BY <1>1
<1>9. r \in Nat
  BY DEF Reach
<1>10. PICK p : p = At(s, k, i)
  OBVIOUS
<1>11. p = a + (1 + u + 5 * i) /\ p <= r /\ Len(b) = (1 + c) + (r - p)
  BY <1>1, <1>5, <1>7, <1>10
<1>12. Len(b) <= r /\ c <= r
  BY <1>1, <1>4, <1>8, <1>9, <1>11
<1> QED BY <1>2, <1>3, <1>5, <1>12 DEF Fits

----------------------------------------------------------------------------
\* A message in one frame.

\* What Whole does with the message, and the byte it looks at.
IsWholeStep(s, k, r, b, data, rest, c) ==
    /\ data = Payload(s.msgs[k], k, 0, Size(s.msgs[k])) /\ Untouched(s, k + 1, r, rest)
    /\ Event(b[1]) = Expected(s.msgs[k].kind)
    /\ IsClose(c) => \E q \in 1..r : Byte(s, q)[1] = "op" /\ Byte(s, q)[2] = 136
    /\ s.msgs[k].kind = "close" => IsClose(c)

\* The event of a frame is the one of its kind.
LEMMA EventIs ==
  ASSUME NEW kind \in Data, NEW op, op = (IF kind = "close" THEN 136 ELSE IF kind = "ping" THEN 137 ELSE 129), NEW b, b[2] = op
  PROVE  Event(b) = Expected(kind) /\ (kind = "close" => IsClose(b))
<1>1. CASE kind = "text"
  <2>1. op = 129 /\ ~((129 \div 8) % 2 = 1)
    BY <1>1
  <2>2. Event(b) = "frame"
    BY <2>1, Zenon DEF Event, IsControl
  <2>3. Expected(kind) = "frame"
    BY <1>1 DEF Expected
  <2> QED BY <1>1, <2>2, <2>3
<1>2. CASE kind = "close"
  <2>1. op = 136 /\ (136 \div 8) % 2 = 1 /\ 136 % 16 = 8
    BY <1>2
  <2>2. Event(b) = "control"
    BY <2>1, Zenon DEF Event, IsControl
  <2>3. Expected(kind) = "control"
    BY <1>2 DEF Expected
  <2>4. Opcode.close = 8
    BY DEF Opcode
  <2>5. IsClose(b)
    BY <2>1, <2>4, Zenon DEF IsClose
  <2> QED BY <2>2, <2>3, <2>5
<1>3. CASE kind = "ping"
  <2>1. op = 137 /\ (137 \div 8) % 2 = 1
    BY <1>3
  <2>2. Event(b) = "control"
    BY <2>1, Zenon DEF Event, IsControl
  <2>3. Expected(kind) = "control"
    BY <1>3 DEF Expected
  <2> QED BY <1>3, <2>2, <2>3
<1> QED BY <1>1, <1>2, <1>3 DEF Data

\* A byte that is the first of a message.
IsOp(s, r, c) == \E q \in 1..r : \E o, k : Byte(s, q) = <<"op", o, k>> /\ c = <<"op", o, k>> /\ IsCloseOp(o)

\* If it closes the connection, it is the opcode of a close frame.
LEMMA OpSeen ==
  ASSUME NEW s, NEW r, NEW c, IsOp(s, r, c), IsClose(c)
  PROVE  \E q \in 1..r : Byte(s, q)[1] = "op" /\ Byte(s, q)[2] = 136
<1>0. PICK q \in 1..r : \E o, k : Byte(s, q) = <<"op", o, k>> /\ c = <<"op", o, k>> /\ IsCloseOp(o)
  BY DEF IsOp
<1>1. PICK o, k : Byte(s, q) = <<"op", o, k>> /\ c = <<"op", o, k>> /\ IsCloseOp(o)
  BY <1>0
<1>2. Byte(s, q)[1] = "op" /\ Byte(s, q)[2] = o /\ c[2] = o
  BY <1>1
<1>3. o % 16 = 8
  BY <1>2 DEF IsClose, Opcode
<1>4. o = 136
  BY <1>1, <1>3 DEF IsCloseOp
<1> QED BY <1>2, <1>4

\* A message begins with its opcode.
LEMMA FirstOp ==
  ASSUME NEW s \in Sessions, NEW k \in 1..Len(s.msgs), s.msgs[k].kind \in Data, NEW r, Reach(s, r),
         NEW c, c = Byte(s, s.starts[k] + 1), s.starts[k] < r
  PROVE  IsOp(s, r, c)
<1>1. PICK a \in Nat : a = s.starts[k]
  BY Shape
<1>2. At(s, k, 0) = a
  BY <1>1, AtZero
<1>3. 1 \in 1..Len(s.msgs[k].ends) /\ 0 = 1 - 1
  <2>1. Len(s.msgs[k].ends) \in Nat \ {0}
    BY Upward
  <2> QED BY <2>1
<1>4. PICK n, d, w : IsNextFrame(s, k, 0, 1, n, d, w)
  BY <1>3, FrameNext
<1>5. PICK o : o = Op(s.msgs[k], 1)
  OBVIOUS
<1>6. Byte(s, a + 1) = <<"op", o, k>>
  BY <1>2, <1>4, <1>5, Zenon DEF IsNextFrame
<1>7. a + 1 \in 1..r
  BY <1>1 DEF Reach
<1>8. IsCloseOp(o)
  BY <1>3, <1>5, OpClose
<1> QED BY <1>1, <1>6, <1>7, <1>8, Zenon DEF IsOp

\* The values of Whole's names.
AtWhole(b, end, data, rest, c) ==
    /\ end = DataEnd(b, 0) /\ data = SubSeq(b, 7, end)
    /\ rest = SubSeq(b, end + 1, Len(b)) /\ c = Over(rest, b)[1]

\* Whole hands the message over, as it was sent.
LEMMA WholeStep ==
  ASSUME NEW s \in Sessions, NEW k \in 1..Len(s.msgs), s.msgs[k].kind \in Data, NEW r, Reach(s, r),
         NEW i, NEW b, HasFrames(s, k, i, r, b), WholeFrame(b), Reassembled(b) = 0, ~Fragment(b[1][2]),
         NEW end, NEW data, NEW rest, NEW c, AtWhole(b, end, data, rest, c)
  PROVE  IsWholeStep(s, k, r, b, data, rest, c)
<1> DEFINE m == s.msgs[k]
<1>1. Len(m.ends) \in Nat \ {0} /\ (Len(m.ends) > 1 => m.kind = "text")
  BY Alone, Zenon
<1>2. PICK L \in Nat \ {0} : L = Len(m.ends)
  BY <1>1
<1>3. i \in 0..(L - 1)
  BY <1>2, Zenon DEF HasFrames
<1>4. i = 0
  <2>1. PICK x, off, v : AreFrames(s, k, i, r, b, x, off, v)
    BY FrameView
  <2>2. off = 0 /\ (i # 0 => off = 5 + Upto(m, i))
    BY <2>1, Zenon DEF AreFrames, IsHeld, m
  <2>3. i \in 0..Len(m.ends)
    BY <1>2, <1>3
  <2>4. PICK u \in Nat : u = Upto(m, i)
    BY <2>3, Upward
  <2>5. 5 + u # 0
    BY <2>4
  <2> QED BY <2>2, <2>4, <2>5, Zenon
<1>5. 1 \in 1..Len(m.ends) /\ i = 1 - 1
  BY <1>1, <1>4
<1>6. At(s, k, 1) <= r
  BY <1>5, FrameTest
<1>7. PICK x, off, v, n, d, w, z : IsTaken(s, k, i, 1, r, b, x, off, v, n, d, w, z)
  <2>2. \E x, off, v, n, d, w, z : IsTaken(s, k, i, 1, r, b, x, off, v, n, d, w, z)
    BY <1>5, <1>6, FrameTaken
  <2> QED BY <2>2, Zenon
<1>8. PICK op : op = Op(m, 1)
  OBVIOUS
<1>9. /\ AreFrames(s, k, i, r, b, x, off, v) /\ IsNextFrame(s, k, i, 1, n, d, w)
      /\ z = Wire(s, At(s, k, 1), r) /\ z \in Seq(Letters) /\ v = w \o z
      /\ IsFramed(b, off, n, <<"op", op, k>>, d, z)
  BY <1>7, <1>8, Zenon DEF IsTaken, m
<1>10. off = 0 /\ b \in Seq(Letters)
  BY <1>4, <1>9, Zenon DEF AreFrames, IsHeld
<1>11. b[1] = <<"op", op, k>> /\ data = d /\ rest = z /\ Len(b) >= 6
  <2>1. /\ b[off + 1] = <<"op", op, k>> /\ SubSeq(b, off + 7, DataEnd(b, off)) = d
        /\ SubSeq(b, DataEnd(b, off) + 1, Len(b)) = z /\ Len(b) >= off + 6
    BY <1>9, Zenon DEF IsFramed
  <2>2. off + 1 = 1 /\ off + 7 = 7 /\ off + 6 = 6
    BY <1>10
  <2> QED BY <1>10, <2>1, <2>2, Zenon DEF AtWhole
<1>12. /\ AreOps(Opcode[m.kind], 1, L, op)
       /\ op \in Nat
       /\ m.kind = "text" => Opcode[m.kind] = 1
       /\ m.kind = "close" => Opcode[m.kind] = 8
       /\ m.kind = "ping" => Opcode[m.kind] = 9
  BY <1>1, <1>2, <1>8, Ops
<1>13. L = 1
  <2>1. b[1][2] = op
    BY <1>11
  <2>2. ~(op < Fin)
    BY <2>1, Zenon DEF Fragment
  <2>3. op < 128 <=> 1 # L
    BY <1>12, Zenon DEF AreOps
  <2> QED BY <2>2, <2>3, Zenon DEF Fin
<1>14. op = (IF m.kind = "close" THEN 136 ELSE IF m.kind = "ping" THEN 137 ELSE 129)
  <2>1. op = Opcode[m.kind] + 128
    <3>1. 1 = 1 /\ L = 1 => op = Opcode[m.kind] + 128
      BY <1>12, Zenon DEF AreOps
    <3> QED BY <1>13, <3>1, Zenon
  <2>2. 1 + 128 = 129 /\ 8 + 128 = 136 /\ 9 + 128 = 137
    OBVIOUS
  <2>3. m.kind = "text" \/ m.kind = "close" \/ m.kind = "ping"
    BY DEF Data
  <2>4. CASE m.kind = "text"
    BY <1>12, <2>1, <2>2, <2>4
  <2>5. CASE m.kind = "close"
    BY <1>12, <2>1, <2>2, <2>5
  <2>6. CASE m.kind = "ping"
    BY <1>12, <2>1, <2>2, <2>6
  <2> QED BY <2>3, <2>4, <2>5, <2>6
<1>15. b[1][2] = op
  BY <1>11
<1>16. Event(b[1]) = Expected(m.kind) /\ (m.kind = "close" => IsClose(b[1]))
  BY <1>14, <1>15, EventIs
<1>17. Untouched(s, k + 1, r, rest) /\ At(s, k, 1) = s.starts[k + 1]
  <2>1. 1 = Len(m.ends) /\ rest = Wire(s, At(s, k, 1), r)
    BY <1>2, <1>9, <1>11, <1>13, Zenon
  <2> QED BY <1>6, <2>1, LastFrame
<1>18. data = Payload(m, k, 0, Size(m))
  <2>1. d = Payload(m, k, Upto(m, i), Upto(m, 1))
    BY <1>9, Zenon DEF IsNextFrame, m
  <2>2. Upto(m, 0) = 0
    BY DEF Upto
  <2>3. Size(m) = Upto(m, 1)
    BY <1>2, <1>13, Zenon DEF Size
  <2> QED BY <1>4, <1>11, <2>1, <2>2, <2>3, Zenon
<1>19. IsOver(rest, b, Over(rest, b))
  BY <1>9, <1>10, <1>11, OverIs
<1>20. c = Over(rest, b)[1]
  BY Zenon DEF AtWhole
<1>21. 1 \in Nat \ {0} /\ 1 <= Len(b) /\ Len(rest) \in Nat
  BY <1>9, <1>10, <1>11
<1>22. PICK a \in Nat : a = s.starts[k]
  BY Shape
<1>23. PICK e \in Nat : e = s.starts[k + 1]
  BY Shape
<1>24. a < e /\ e <= r /\ r \in Nat
  <2>1. k \in 1..(Len(s.msgs) + 1) /\ k + 1 \in 1..(Len(s.msgs) + 1) /\ k < k + 1
    BY NextIn
  <2>2. a < e
    BY <1>22, <1>23, <2>1, Starts
  <2> QED BY <1>6, <1>17, <1>23, <2>2 DEF Reach
<1>25. Len(rest) = r - e /\ (e < r => rest[1] = Byte(s, e + 1))
  <2>1. rest = Wire(s, e, r)
    BY <1>9, <1>11, <1>17, <1>23, Zenon
  <2> QED BY <1>24, <2>1, WireSeq
<1>26. CASE e < r
  <2>1. k + 1 \in 1..Len(s.msgs)
    <3>1. k + 1 \in 1..(Len(s.msgs) + 1)
      BY NextIn
    <3> QED BY <1>23, <1>26, <3>1, NotLast
  <2>2. c = rest[1]
    <3>1. 1 <= Len(rest)
      BY <1>24, <1>25, <1>26
    <3> QED BY <1>19, <1>21, <1>20, <3>1, Zenon DEF IsOver
  <2>3. PICK h \in 1..Len(s.msgs) : h = k + 1
    BY <2>1
  <2>4. s.msgs[h].kind \in Data
    <3>1. k <= h
      BY <2>3
    <3> QED BY <3>1, DataOn
  <2>5. IsOp(s, r, c)
    <3>1. c = Byte(s, s.starts[h] + 1) /\ s.starts[h] < r
      BY <1>23, <1>25, <1>26, <2>2, <2>3
    <3> QED BY <2>4, <3>1, FirstOp
  <2>6. m.kind # "close"
    <3>1. m.kind = "close" => k = Len(s.msgs)
      BY Alone, Zenon
    <3>2. k # Len(s.msgs)
      <4>1. Len(s.msgs) \in Nat
        BY Counts
      <4> QED BY <2>1, <4>1
    <3> QED BY <3>1, <3>2, Zenon
  <2>7. IsClose(c) => \E q \in 1..r : Byte(s, q)[1] = "op" /\ Byte(s, q)[2] = 136
    BY <2>5, OpSeen
  <2> QED BY <1>16, <1>17, <1>18, <2>6, <2>7, Zenon DEF IsWholeStep, m
<1>27. CASE ~(e < r)
  <2>1. Len(rest) < 1
    BY <1>24, <1>25, <1>27
  <2>2. c = b[1]
    BY <1>19, <1>21, <1>20, <2>1, Zenon DEF IsOver
  <2>3. Byte(s, a + 1) = <<"op", op, k>>
    <3>1. At(s, k, 0) = a
      BY <1>22, AtZero
    <3> QED BY <1>4, <1>8, <1>9, <3>1, Zenon DEF IsNextFrame, m
  <2>4. IsOp(s, r, c)
    <3>1. c = Byte(s, s.starts[k] + 1) /\ s.starts[k] < r
      <4>1. a < r
        BY <1>24
      <4> QED BY <1>11, <1>22, <2>2, <2>3, <4>1, Zenon
    <3> QED BY <3>1, FirstOp
  <2>5. IsClose(c) => \E q \in 1..r : Byte(s, q)[1] = "op" /\ Byte(s, q)[2] = 136
    BY <2>4, OpSeen
  <2> QED BY <1>16, <1>17, <1>18, <2>2, <2>5, Zenon DEF IsWholeStep, m
<1> QED BY <1>26, <1>27
===============================================================================
