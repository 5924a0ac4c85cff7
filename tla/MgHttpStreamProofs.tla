--------------------------- MODULE MgHttpStreamProofs ---------------------------
(***************************************************************************)
(* For any sessions, with messages of any number and of any length that    *)
(* the notation allows, and wherever reads cut the stream: messages are    *)
(* handed over whole, in order and once; none is forgotten; a close frame  *)
(* closes the connection and little else does; and, when chunked requests  *)
(* are answered one at a time, the assertion of mg_handle_chunked() holds. *)
(*                                                                         *)
(* The invariant relates recv_mbuf to the stream: what the handler has not *)
(* handed over is there, as it came or with its chunks or its fragments    *)
(* joined.  Each action leaves such a buffer.                              *)
(***************************************************************************)
EXTENDS MgHttpStreamFraming

----------------------------------------------------------------------------
\* The inductive invariant.

\* The message whose bytes come next.
Now == Len(events) + 1

\* What the user may be told.
Names == {"request", "upgrade", "frame", "control", "rest"}

\* What has been sent, read and handed over; who waits for an answer has sent
\* no request behind the one that comes next.
Peer ==
    /\ session \in Sessions /\ sent \in 0..Len(session.msgs)
    /\ read \in Nat /\ out \in read..session.starts[sent + 1]
    /\ ended \in BOOLEAN /\ (~ended => out = session.starts[sent + 1])
    /\ events \in Seq([event : Names, payload : Seq(Letters)]) /\ Len(events) <= sent
    /\ session.ahead # "always" => \A k \in 1..sent : session.msgs[k].kind \in Http => k <= Now

\* The variables of the handler; the assertion has not failed.
Handler ==
    /\ stage \in {"idle", "parse", "chunks", "frames"} /\ zero \in BOOLEAN /\ closing \in BOOLEAN
    /\ collapsed \in 0..read /\ body_len \in 0..read /\ taken \in Seq(Letters)
    /\ proto \in {"http", "ws", "closed"} /\ fault \in {"none", "moved"}

\* pd->chunk.body_len is 0 before a request, or what a chunked one has left.
Fresh ==
    \/ body_len = 0
    \/ session.deletes # {TRUE} /\ \E j \in 1..Len(events) : session.msgs[j].kind = "chunked"

\* Chunks up to i of the request that comes next are in the buffer, collapsed,
\* but for what the user took.
InChunks(i) ==
    /\ Now <= sent /\ session.msgs[Now].kind = "chunked"
    /\ HasChunks(session, Now, i, Len(taken), read, rbuf)
    /\ taken = Payload(session.msgs[Now], Now, 0, Len(taken))
    /\ body_len <= Upto(session.msgs[Now], i) - Len(taken)
    /\ stage = "chunks" => /\ collapsed = Upto(session.msgs[Now], i) - Len(taken)
                           /\ zero <=> i = Len(session.msgs[Now].ends)
    /\ stage # "chunks" => /\ body_len = Upto(session.msgs[Now], i) - Len(taken)
                           /\ i # Len(session.msgs[Now].ends)

\* Nothing was taken from the message that comes next.
Start == Untouched(session, Now, read, rbuf)

\* Before the upgrade: a request as it came, or its chunks.
HttpBuffer ==
    /\ \A k \in 1..Len(events) : session.msgs[k].kind # "upgrade"
    /\ stage # "frames"
    /\ stage # "idle" => session.starts[Now] < read
    /\ (Start /\ taken = <<>> /\ Fresh /\ stage # "chunks") \/ \E i : InChunks(i)

\* Fragments of the message that comes next are in the buffer, joined.
InFrames == Now <= sent /\ \E i : HasFrames(session, Now, i, read, rbuf)

\* After the upgrade: a frame as it came, or fragments.
WsBuffer ==
    /\ \E k \in 1..Len(events) : session.msgs[k].kind = "upgrade"
    /\ stage \in {"idle", "frames"}
    /\ Start \/ InFrames

\* recv_mbuf, in each stage of the connection.
Buffer ==
    /\ proto = "http" => HttpBuffer
    /\ proto = "ws" => WsBuffer
    /\ proto = "closed" => rbuf = <<>>

\* Between reads the rest of the message that comes next is missing.
Waiting ==
    Running /\ stage = "idle" /\ session.ahead # "always" /\ Now <= sent /\ session.msgs[Now].kind # "open"
        => read < session.starts[Now + 1]

\* recv_mbuf continues what was handed over, which is what was sent so far.
IInv == Peer /\ Handler /\ Buffer /\ Waiting /\ InOrder /\ ClosesForClose

----------------------------------------------------------------------------
\* The invariant holds at first.

\* The numbers that Peer allows.
IsPlaced ==
    /\ Len(events) \in Nat /\ Now \in Nat /\ Now \in 1..(Len(session.msgs) + 1)
    /\ Now <= sent => Now \in 1..Len(session.msgs)
    /\ sent + 1 \in 1..(Len(session.msgs) + 1)
    /\ Reach(session, read) /\ Reach(session, out) /\ read \in Nat
    /\ session.starts[Now] < read => Now <= sent
    /\ read <= session.starts[sent + 1] /\ session.starts[Now] \in Nat

\* Peer gives the numbers their ranges.
LEMMA Placed ==
  ASSUME Peer
  PROVE  IsPlaced
<1>1. session \in Sessions
  BY DEF Peer
<1>2. Len(session.msgs) \in Nat /\ \A k \in 1..(Len(session.msgs) + 1) : session.starts[k] \in Nat
  BY <1>1, Counts
<1>3. PICK N \in Nat : N = Len(session.msgs)
  BY <1>2
<1>4. sent \in 0..N
  BY <1>3 DEF Peer
<1>5. Len(events) \in Nat
  BY DEF Peer
<1>6. PICK e \in Nat : e = Len(events)
  BY <1>5
<1>7. e <= sent
  BY <1>6 DEF Peer
<1>8. Now = e + 1
  BY <1>6 DEF Now
<1>9. Now \in Nat /\ Now \in 1..(N + 1) /\ (Now <= sent => Now \in 1..N) /\ sent + 1 \in 1..(N + 1)
  BY <1>4, <1>7, <1>8
<1>10. session.starts[sent + 1] \in Nat /\ session.starts[Now] \in Nat
  BY <1>2, <1>3, <1>9
<1>11. read \in Nat /\ out \in read..session.starts[sent + 1]
  BY DEF Peer
<1>12. out \in Nat /\ out <= session.starts[sent + 1] /\ read <= session.starts[sent + 1]
  BY <1>10, <1>11
<1>13. Reach(session, read) /\ Reach(session, out)
  BY <1>3, <1>9, <1>11, <1>12 DEF Reach
<1>14. ASSUME session.starts[Now] < read PROVE Now <= sent
  <2>1. ASSUME ~(Now <= sent) PROVE FALSE
    <3>1. Now = sent + 1
      BY <1>4, <1>7, <1>8, <2>1
    <3>2. session.starts[sent + 1] < read
      BY <1>14, <3>1
    <3> QED BY <1>10, <1>11, <1>12, <3>2
  <2> QED BY <2>1
<1> QED BY <1>3, <1>5, <1>9, <1>10, <1>11, <1>12, <1>13, <1>14, Zenon DEF IsPlaced

\* Messages before the upgrade are requests, messages behind it are frames.
LEMMA HttpKind ==
  ASSUME NEW s \in Sessions, NEW k \in 1..Len(s.msgs), \A u \in 1..(k - 1) : s.msgs[u].kind # "upgrade"
  PROVE  s.msgs[k].kind \in Http
<1>1. Proper(s, k)
  BY Shape
<1>2. s.msgs[k].kind \in Data <=> \E u \in 1..(k - 1) : s.msgs[u].kind = "upgrade"
  BY <1>1 DEF Proper
<1>3. s.msgs[k].kind \in Http \cup Data
  BY Upward
<1> QED BY <1>2, <1>3

\* So it is behind the upgrade.
LEMMA DataKind ==
  ASSUME NEW s \in Sessions, NEW k \in 1..Len(s.msgs), NEW u \in 1..(k - 1), s.msgs[u].kind = "upgrade"
  PROVE  s.msgs[k].kind \in Data
<1>1. Proper(s, k)
  BY Shape
<1>2. s.msgs[k].kind \in Data <=> \E v \in 1..(k - 1) : s.msgs[v].kind = "upgrade"
  BY <1>1 DEF Proper
<1> QED BY <1>2

\* No message is both.
LEMMA Kinds ==
  ASSUME NEW kind
  PROVE  ~(kind \in Http /\ kind \in Data)
BY DEF Http, Data

\* The invariant holds at first.
LEMMA InitIInv == Init => IInv
<1> SUFFICES ASSUME Init PROVE IInv
  OBVIOUS
<1>1. /\ session \in Sessions
      /\ sent = 0 /\ out = 0 /\ ended = FALSE /\ read = 0 /\ rbuf = <<>>
      /\ stage = "idle" /\ collapsed = 0 /\ zero = FALSE
      /\ body_len = 0 /\ proto = "http" /\ closing = FALSE
      /\ taken = <<>> /\ events = <<>> /\ fault = "none"
  BY DEF Init
<1>2. Len(session.msgs) \in Nat /\ session.starts[1] = 0
  BY <1>1, Counts
<1>3. Len(events) = 0 /\ Now = 1
  BY <1>1 DEF Now
<1>4. Peer
  <2>1. sent + 1 = 1 /\ 0 \in 0..Len(session.msgs) /\ 0 \in 0..0
    BY <1>1, <1>2
  <2>2. \A k \in 1..0 : FALSE
    OBVIOUS
  <2>3. events \in Seq([event : Names, payload : Seq(Letters)]) /\ Len(events) <= sent
    BY <1>1
  <2>4. out \in read..session.starts[sent + 1] /\ read \in Nat /\ out = session.starts[sent + 1]
    BY <1>1, <1>2, <2>1
  <2> QED BY <1>1, <2>1, <2>2, <2>3, <2>4 DEF Peer
<1>5. Handler
  <2>1. 0 \in 0..0 /\ <<>> \in Seq(Letters) /\ FALSE \in BOOLEAN
    OBVIOUS
  <2> QED BY <1>1, <2>1, Zenon DEF Handler
<1>6. Start
  <2>1. Reach(session, 0)
    <3>1. 1 \in 1..(Len(session.msgs) + 1)
      BY <1>2
    <3> QED BY <1>2, <3>1 DEF Reach
  <2>2. Wire(session, 0, 0) = <<>>
    BY <1>1, <2>1, WireEmpty
  <2> QED BY <1>1, <1>2, <1>3, <2>2 DEF Start, Untouched
<1>7. Buffer
  BY <1>1, <1>3, <1>6 DEF Buffer, HttpBuffer, Fresh
<1>8. Waiting
  <2>1. ~(Now <= sent)
    BY <1>1, <1>3
  <2> QED BY <2>1, Zenon DEF Waiting
<1>9. InOrder
  BY <1>1 DEF InOrder
<1>10. ClosesForClose
  BY <1>1 DEF ClosesForClose
<1> QED BY <1>4, <1>5, <1>7, <1>8, <1>9, <1>10 DEF IInv

----------------------------------------------------------------------------
\* What the parts of the invariant need from a step.

\* What is handed over.
Handings == [event : Names, payload : Seq(Letters)]

\* The same peer.
LEMMA KeepPeer ==
  ASSUME Peer, UNCHANGED <<session, sent, out, ended, read, events>>
  PROVE  Peer' /\ Now' = Now
<1>1. Now' = Now
  BY DEF Now
<1> QED BY <1>1 DEF Peer, Now

\* A message was handed over.
LEMMA HandPeer ==
  ASSUME Peer, Now <= sent, NEW h \in Handings, events' = Append(events, h),
         UNCHANGED <<session, sent, out, ended, read>>
  PROVE  Peer' /\ Now' = Now + 1
<1>1. events \in Seq(Handings) /\ Len(events) \in Nat
  BY DEF Peer, Handings
<1>2. events' \in Seq(Handings) /\ Len(events') = Len(events) + 1
  BY <1>1
<1>3. Now' = Now + 1 /\ Now = Len(events) + 1
  BY <1>2 DEF Now
<1>4. sent \in Nat
  BY DEF Peer
<1>5. Len(events') <= sent
  BY <1>2, <1>3
<1>6. session.ahead # "always" => \A k \in 1..sent : session.msgs[k].kind \in Http => k <= Now + 1
  <2>1. \A k \in 1..sent : k <= Now => k <= Now + 1
    BY <1>1, <1>3, <1>4
  <2> QED BY <2>1 DEF Peer
<1>7. /\ session \in Sessions /\ sent \in 0..Len(session.msgs)
      /\ read \in Nat /\ out \in read..session.starts[sent + 1]
      /\ ended \in BOOLEAN /\ (~ended => out = session.starts[sent + 1])
  BY DEF Peer
<1>8. session' = session /\ sent' = sent /\ out' = out /\ ended' = ended /\ read' = read
  OBVIOUS
<1>9. session'.ahead # "always" => \A k \in 1..sent' : session'.msgs[k].kind \in Http => k <= Now'
  BY <1>3, <1>6, <1>8
<1>10. /\ session' \in Sessions /\ sent' \in 0..Len(session'.msgs)
       /\ read' \in Nat /\ out' \in read'..session'.starts[sent' + 1]
       /\ ended' \in BOOLEAN /\ (~ended' => out' = session'.starts[sent' + 1])
  BY <1>7, <1>8
<1>11. events' \in Seq([event : Names, payload : Seq(Letters)]) /\ Len(events') <= sent'
  BY <1>2, <1>5, <1>8, Zenon DEF Handings
<1> QED BY <1>3, <1>9, <1>10, <1>11, Zenon DEF Peer

\* Nothing is handed over.
LEMMA KeepOrder ==
  ASSUME InOrder, UNCHANGED <<session, events, proto>>
  PROVE  InOrder'
BY DEF InOrder, Sent, msgs

\* h is message k.
IsMessage(s, k, h) ==
    /\ h.event # "rest" /\ h.event = Expected(s.msgs[k].kind)
    /\ h.payload = Payload(s.msgs[k], k, 0, Size(s.msgs[k]))

\* The message that comes next is handed over.
LEMMA HandOrder ==
  ASSUME Peer, InOrder, proto # "closed", NEW h \in Handings, events' = Append(events, h), session' = session,
         IsMessage(session, Now, h)
  PROVE  InOrder'
<1>1. events \in Seq(Handings) /\ Len(events) \in Nat
  BY DEF Peer, Handings
<1>2. /\ DOMAIN events' = 1..(Len(events) + 1) /\ events'[Len(events) + 1] = h
      /\ \A i \in 1..Len(events) : events'[i] = events[i]
  BY <1>1
<1>3. ASSUME NEW i \in DOMAIN events'
      PROVE  /\ events'[i].event # "rest"
             /\ events'[i].event = Expected(session.msgs[i].kind)
             /\ events'[i].payload = Payload(session.msgs[i], i, 0, Size(session.msgs[i]))
  <2>1. CASE i \in 1..Len(events)
    <3>1. i \in DOMAIN events /\ events'[i] = events[i]
      BY <1>1, <1>2, <2>1
    <3>2. events[i].event # "rest"
      BY <3>1, Zenon DEF InOrder
    <3>3. /\ events[i].event = Expected(session.msgs[i].kind)
          /\ events[i].payload = Payload(session.msgs[i], i, 0, Size(session.msgs[i]))
      BY <3>1, <3>2, Zenon DEF InOrder, Sent, msgs
    <3> QED BY <3>1, <3>2, <3>3, Zenon
  <2>2. CASE i = Now
    <3>1. events'[i] = h
      BY <1>2, <2>2, Zenon DEF Now
    <3> QED BY <2>2, <3>1, Zenon DEF IsMessage
  <2>3. i \in 1..Len(events) \/ i = Now
    BY <1>1, <1>2 DEF Now
  <2> QED BY <2>1, <2>2, <2>3
<1>4. \A i \in DOMAIN events' :
             /\ events'[i].event # "rest"
             /\ events'[i].event = Expected(session'.msgs[i].kind)
             /\ events'[i].payload = Payload(session'.msgs[i], i, 0, Size(session'.msgs[i]))
  BY <1>3
<1> QED BY <1>4, Zenon DEF InOrder, Sent, msgs

\* What was read stays read.
LEMMA StillReceived ==
  ASSUME read \in Nat, read' \in Nat, read <= read', session' = session, NEW kind
  PROVE  Received(kind) \subseteq Received(kind)'
<1>1. 1..read \subseteq 1..read'
  OBVIOUS
<1> QED BY <1>1 DEF Received

\* Nothing but the reason that ClosesForClose names.
Reason ==
    \/ Fin + Opcode.close \in Received("op")
    \/ /\ \E op \in Received("op") : First(op)
       /\ \E b \in Received("byte") \cup Received("len") : b % 16 = Opcode.close

\* A reason to close stays one.
LEMMA StillReason ==
  ASSUME read \in Nat, read' \in Nat, read <= read', session' = session, Reason
  PROVE  Reason'
<1>1. /\ Received("op") \subseteq Received("op")' /\ Received("byte") \subseteq Received("byte")'
      /\ Received("len") \subseteq Received("len")'
  BY StillReceived
<1> QED BY <1>1, Zenon DEF Reason

\* No decision is made ...
LEMMA KeepClose ==
  ASSUME ClosesForClose, read \in Nat, read' \in Nat, read <= read', UNCHANGED <<session, events, closing>>
  PROVE  ClosesForClose'
<1>1. closing => Reason
  BY DEF ClosesForClose, Reason
<1>2. closing' => Reason'
  BY <1>1, StillReason
<1>3. \A i \in DOMAIN events' :
          session'.msgs[i].kind = "close" /\ events'[i].event = "control" => closing'
  BY DEF ClosesForClose, msgs
<1> QED BY <1>2, <1>3, Zenon DEF ClosesForClose, Reason, msgs

\* ... or a message is handed over, and the decision has a reason.
LEMMA HandClose ==
  ASSUME Peer, ClosesForClose, NEW h, events' = Append(events, h), UNCHANGED <<session, read>>,
         closing => closing', closing' => closing \/ Reason,
         session.msgs[Now].kind = "close" => closing'
  PROVE  ClosesForClose'
<1>1. events \in Seq(Handings) /\ Len(events) \in Nat /\ read \in Nat
  BY DEF Peer, Handings
<1>2. /\ DOMAIN events' = 1..(Len(events) + 1)
      /\ \A i \in 1..Len(events) : events'[i] = events[i]
  BY <1>1
<1>3. closing => Reason
  BY DEF ClosesForClose, Reason
<1>4. closing' => Reason'
  <2>1. closing' => Reason
    BY <1>3
  <2>2. read <= read' /\ read' \in Nat
    BY <1>1
  <2> QED BY <1>1, <2>1, <2>2, StillReason
<1>5. ASSUME NEW i \in DOMAIN events', session.msgs[i].kind = "close", events'[i].event = "control"
      PROVE  closing'
  <2>1. CASE i \in 1..Len(events)
    <3>1. i \in DOMAIN events /\ events'[i] = events[i]
      BY <1>1, <1>2, <2>1
    <3>2. closing
      BY <1>5, <3>1, Zenon DEF ClosesForClose, msgs
    <3> QED BY <3>2
  <2>2. CASE i = Now
    BY <1>5, <2>2
  <2>3. i \in 1..Len(events) \/ i = Now
    BY <1>1, <1>2 DEF Now
  <2> QED BY <2>1, <2>2, <2>3
<1>6. \A i \in DOMAIN events' :
          session'.msgs[i].kind = "close" /\ events'[i].event = "control" => closing'
  BY <1>5
<1> QED BY <1>4, <1>6, Zenon DEF ClosesForClose, Reason, msgs

----------------------------------------------------------------------------
\* Every action keeps the invariant.

\* Every message has a length.
LEMMA NextLater ==
  ASSUME NEW s \in Sessions, NEW k \in 1..Len(s.msgs)
  PROVE  s.starts[k] < s.starts[k + 1] /\ s.starts[k] \in Nat /\ s.starts[k + 1] \in Nat
<1>1. PICK j \in 1..(Len(s.msgs) + 1) : j = k
  BY NextIn
<1>2. PICK l \in 1..(Len(s.msgs) + 1) : l = k + 1
  BY NextIn
<1>3. j < l
  BY <1>1, <1>2
<1>4. s.starts[j] < s.starts[l]
  BY <1>3, Starts
<1>5. s.starts[j] \in Nat /\ s.starts[l] \in Nat
  BY Counts
<1> QED BY <1>1, <1>2, <1>4, <1>5, Zenon

\* Steps that only peers take leave the buffer as it is.
LEMMA KeepBuffer ==
  ASSUME Buffer, Now' = Now, sent \in Nat, sent' \in Nat, sent <= sent', Now \in Nat,
         UNCHANGED <<session, events, read, rbuf, stage, taken, body_len, collapsed, zero, proto>>
  PROVE  Buffer'
<1>1. Now <= sent => Now' <= sent'
  OBVIOUS
<1>2. Start => Start'
  BY Zenon DEF Start
<1>3. Fresh => Fresh'
  BY Zenon DEF Fresh
<1>4. ASSUME NEW i, InChunks(i) PROVE InChunks(i)'
  BY <1>1, <1>4, Zenon DEF InChunks
<1>5. InFrames => InFrames'
  BY <1>1, Zenon DEF InFrames
<1>6. HttpBuffer => HttpBuffer'
  <2> SUFFICES ASSUME HttpBuffer PROVE HttpBuffer'
    OBVIOUS
  <2>1. /\ \A k \in 1..Len(events') : session'.msgs[k].kind # "upgrade"
        /\ stage' # "frames" /\ (stage' # "idle" => session'.starts[Now'] < read')
    BY Zenon DEF HttpBuffer
  <2>2. CASE Start /\ taken = <<>> /\ Fresh /\ stage # "chunks"
    BY <1>2, <1>3, <2>1, <2>2, Zenon DEF HttpBuffer
  <2>3. CASE \E i : InChunks(i)
    BY <1>4, <2>1, <2>3, Zenon DEF HttpBuffer
  <2> QED BY <2>2, <2>3, Zenon DEF HttpBuffer
<1>7. WsBuffer => WsBuffer'
  BY <1>2, <1>5, Zenon DEF WsBuffer
<1> QED BY <1>6, <1>7, Zenon DEF Buffer

\* The peer sends: what is expected next stays what it was.
LEMMA StepSend ==
  ASSUME IInv, Send
  PROVE  IInv'
<1>1. Peer /\ Handler /\ Buffer /\ Waiting /\ InOrder /\ ClosesForClose
  BY Zenon DEF IInv
<1>2. /\ sent' = sent + 1 /\ out' = session.starts[sent + 2] /\ ~ended /\ ended' = ended
      /\ session' = session /\ read' = read /\ rbuf' = rbuf /\ stage' = stage
      /\ collapsed' = collapsed /\ zero' = zero
      /\ body_len' = body_len /\ proto' = proto /\ closing' = closing /\ taken' = taken
      /\ events' = events /\ fault' = fault
      /\ sent < Len(session.msgs) /\ MaySend
  BY DEF Send, local, handled, msgs, starts
<1>3. /\ session \in Sessions /\ sent \in Nat /\ Len(session.msgs) \in Nat /\ read \in Nat
      /\ Len(events) \in Nat /\ Len(events) <= sent
  <2>1. session \in Sessions /\ sent \in 0..Len(session.msgs) /\ read \in Nat
        /\ events \in Seq([event : Names, payload : Seq(Letters)]) /\ Len(events) <= sent
    BY Zenon, <1>1 DEF Peer
  <2>2. Len(session.msgs) \in Nat
    BY <2>1, Counts
  <2> QED BY <2>1, <2>2
<1>4. Now' = Now /\ Now = Len(events) + 1 /\ Now \in Nat
  BY <1>2, <1>3 DEF Now
<1>5. PICK k \in 1..Len(session.msgs) : k = sent + 1
  BY <1>2, <1>3
<1>6. session.starts[k] < session.starts[k + 1] /\ session.starts[k] \in Nat /\ session.starts[k + 1] \in Nat
  BY <1>3, NextLater
<1>7. sent' = k /\ sent + 2 = k + 1
  BY <1>2, <1>3, <1>5
<1>8. read <= session.starts[k]
  BY <1>1, <1>5, Placed, Zenon DEF IsPlaced
<1>9. Peer'
  <2>1. sent' \in 0..Len(session.msgs) /\ Len(events) <= sent'
    BY <1>3, <1>5, <1>7
  <2>2. out' = session.starts[sent' + 1] /\ out' \in read..session.starts[sent' + 1]
    <3>1. out' = session.starts[k + 1] /\ sent' + 1 = k + 1
      BY <1>2, <1>7
    <3>2. session.starts[k + 1] \in read..session.starts[k + 1]
      BY <1>3, <1>6, <1>8
    <3> QED BY <3>1, <3>2
  <2>3. ASSUME session.ahead # "always", NEW j \in 1..sent', session.msgs[j].kind \in Http
        PROVE  j <= Now
    <3>1. CASE j \in 1..sent
      BY <1>1, <2>3, <3>1, Zenon DEF Peer
    <3>2. CASE j = k
      <4>1. CASE Len(events) = sent
        BY <1>4, <1>5, <3>2, <4>1
      <4>2. CASE \E u \in 1..sent : msgs[u].kind = "upgrade"
        <5>1. PICK u \in 1..sent : session.msgs[u].kind = "upgrade"
          BY <4>2, Zenon DEF msgs
        <5>2. u \in 1..(k - 1)
          BY <1>3, <1>5
        <5>3. session.msgs[k].kind \in Data
          BY <1>3, <5>1, <5>2, DataKind
        <5> QED BY <2>3, <3>2, <5>3, Kinds
      <4> QED BY <1>2, <2>3, <4>1, <4>2, Zenon DEF MaySend
    <3>3. j \in 1..sent \/ j = k
      BY <1>3, <1>5, <1>7
    <3> QED BY <3>1, <3>2, <3>3
  <2>4. \A j \in 1..sent' : session.ahead # "always" /\ session.msgs[j].kind \in Http => j <= Now
    BY <2>3
  <2>5. /\ session' \in Sessions /\ sent' \in 0..Len(session'.msgs) /\ read' \in Nat
        /\ out' \in read'..session'.starts[sent' + 1] /\ out' = session'.starts[sent' + 1]
        /\ ended' \in BOOLEAN
        /\ events' \in Seq([event : Names, payload : Seq(Letters)]) /\ Len(events') <= sent'
    <3>1. ended \in BOOLEAN /\ events \in Seq([event : Names, payload : Seq(Letters)])
      BY <1>1, Zenon DEF Peer
    <3> QED BY <1>2, <1>3, <2>1, <2>2, <3>1
  <2>6. session'.ahead # "always" => \A j \in 1..sent' : session'.msgs[j].kind \in Http => j <= Now'
    BY <1>2, <1>4, <2>4
  <2> QED BY <2>5, <2>6, Zenon DEF Peer
<1>10. Handler'
  BY <1>1, <1>2, Zenon DEF Handler
<1>11. Buffer'
  <2>1. sent' \in Nat /\ sent <= sent'
    BY <1>2, <1>3
  <2> QED BY <1>1, <1>2, <1>3, <1>4, <2>1, KeepBuffer
<1>12. Waiting'
  <2>1. ASSUME Running, stage = "idle", session.ahead # "always", Now <= sent', session.msgs[Now].kind # "open"
        PROVE  read < session.starts[Now + 1]
    <3>1. CASE Now <= sent
      BY <1>1, <2>1, <3>1, Zenon DEF Waiting
    <3>2. CASE Now = k
      BY <1>3, <1>6, <1>8, <3>2
    <3>3. Now <= sent \/ Now = k
      BY <1>3, <1>4, <1>5, <1>7, <2>1
    <3> QED BY <3>1, <3>2, <3>3
  <2>2. Running' <=> Running
    BY <1>2, Zenon DEF Running
  <2> QED BY <1>2, <1>4, <2>1, <2>2, Zenon DEF Waiting
<1>13. InOrder'
  BY <1>1, <1>2, KeepOrder
<1>14. ClosesForClose'
  BY <1>1, <1>2, <1>3, KeepClose
<1> QED BY <1>9, <1>10, <1>11, <1>12, <1>13, <1>14, Zenon DEF IInv

\* The peer ends, and what was read stays read.
LEMMA StepEnd ==
  ASSUME IInv, NEW n \in read..out, End(n)
  PROVE  IInv'
<1>1. Peer /\ Handler /\ Buffer /\ Waiting /\ InOrder /\ ClosesForClose
  BY Zenon DEF IInv
<1>2. /\ sent' = sent /\ out' = n /\ ended' = TRUE
      /\ session' = session /\ read' = read /\ rbuf' = rbuf /\ stage' = stage
      /\ collapsed' = collapsed /\ zero' = zero
      /\ body_len' = body_len /\ proto' = proto /\ closing' = closing /\ taken' = taken
      /\ events' = events /\ fault' = fault
  BY DEF End, local, handled
<1>3. session \in Sessions /\ sent \in Nat /\ read \in Nat /\ out \in Nat /\ Now \in Nat
  <2>1. session \in Sessions /\ sent \in 0..Len(session.msgs) /\ read \in Nat
    BY Zenon, <1>1 DEF Peer
  <2>2. out \in Nat /\ Now \in Nat
    BY <1>1, Placed, Zenon DEF IsPlaced, Reach
  <2> QED BY <2>1, <2>2
<1>4. Now' = Now
  BY <1>2, Zenon DEF Now
<1>5. Peer'
  <2>1. n \in read..session.starts[sent + 1]
    <3>1. session.starts[sent + 1] \in Nat
      BY <1>1, <1>3, Placed, Counts, Zenon DEF IsPlaced
    <3>2. out \in read..session.starts[sent + 1]
      BY <1>1, Zenon DEF Peer
    <3> QED BY <1>3, <3>1, <3>2
  <2>2. ended' \in BOOLEAN /\ ended'
    BY <1>2
  <2> QED BY <1>1, <1>2, <1>4, <2>1, <2>2, Zenon DEF Peer
<1>6. Handler'
  BY <1>1, <1>2, Zenon DEF Handler
<1>7. Buffer'
  <2>1. sent' \in Nat /\ sent <= sent'
    BY <1>2, <1>3
  <2> QED BY <1>1, <1>2, <1>3, <1>4, <2>1, KeepBuffer
<1>8. Waiting'
  BY <1>1, <1>2, <1>4, Zenon DEF Waiting, Running
<1>9. InOrder'
  BY <1>1, <1>2, KeepOrder
<1>10. ClosesForClose'
  BY <1>1, <1>2, <1>3, KeepClose
<1> QED BY <1>5, <1>6, <1>7, <1>8, <1>9, <1>10, Zenon DEF IInv

\* Stuttering.
LEMMA StepNone ==
  ASSUME IInv, UNCHANGED vars
  PROVE  IInv'
<1>1. /\ sent' = sent /\ out' = out /\ ended' = ended
      /\ session' = session /\ read' = read /\ rbuf' = rbuf /\ stage' = stage
      /\ collapsed' = collapsed /\ zero' = zero
      /\ body_len' = body_len /\ proto' = proto /\ closing' = closing /\ taken' = taken
      /\ events' = events /\ fault' = fault
  BY DEF vars, peer, local, handled
<1>2. Peer /\ Handler /\ Buffer /\ Waiting /\ InOrder /\ ClosesForClose
  BY Zenon DEF IInv
<1>3. sent \in Nat /\ read \in Nat /\ Now \in Nat
  <2>1. session \in Sessions /\ sent \in 0..Len(session.msgs) /\ read \in Nat
    BY Zenon, <1>2 DEF Peer
  <2>2. Now \in Nat
    BY <1>2, Placed, Zenon DEF IsPlaced
  <2> QED BY <2>1, <2>2
<1>4. Peer' /\ Now' = Now
  BY <1>1, <1>2, KeepPeer
<1>5. Handler'
  BY <1>1, <1>2, Zenon DEF Handler
<1>6. Buffer'
  BY <1>1, <1>2, <1>3, <1>4, KeepBuffer
<1>7. Waiting'
  BY <1>1, <1>2, <1>4, Zenon DEF Waiting, Running
<1>8. InOrder'
  BY <1>1, <1>2, KeepOrder
<1>9. ClosesForClose'
  BY <1>1, <1>2, <1>3, KeepClose
<1> QED BY <1>4, <1>5, <1>6, <1>7, <1>8, <1>9, Zenon DEF IInv

\* Requests come next until the upgrade, frames after it.
LEMMA HttpNow ==
  ASSUME Peer, HttpBuffer, Now <= sent
  PROVE  Now \in 1..Len(session.msgs) /\ session.msgs[Now].kind \in Http
<1>1. session \in Sessions
  BY Zenon DEF Peer
<1>2. Len(events) \in Nat /\ Now \in 1..Len(session.msgs)
  BY Placed, Zenon DEF IsPlaced
<1>3. PICK k \in 1..Len(session.msgs) : k = Now
  BY <1>2
<1>4. \A u \in 1..(k - 1) : session.msgs[u].kind # "upgrade"
  <2>1. 1..(k - 1) = 1..Len(events)
    BY <1>2, <1>3 DEF Now
  <2> QED BY <2>1, Zenon DEF HttpBuffer
<1> QED BY <1>1, <1>3, <1>4, HttpKind

\* The same after the upgrade.
LEMMA WsNow ==
  ASSUME Peer, WsBuffer, Now <= sent
  PROVE  Now \in 1..Len(session.msgs) /\ session.msgs[Now].kind \in Data
<1>1. session \in Sessions
  BY Zenon DEF Peer
<1>2. Len(events) \in Nat /\ Now \in 1..Len(session.msgs)
  BY Placed, Zenon DEF IsPlaced
<1>3. PICK k \in 1..Len(session.msgs) : k = Now
  BY <1>2
<1>4. PICK u \in 1..Len(events) : session.msgs[u].kind = "upgrade"
  BY Zenon DEF WsBuffer
<1>5. u \in 1..(k - 1)
  BY <1>2, <1>3 DEF Now
<1> QED BY <1>1, <1>3, <1>4, <1>5, DataKind

\* What is in the buffer begins with the message that comes next.
LEMMA ChunksFrom ==
  ASSUME Peer, NEW i, InChunks(i)
  PROVE  /\ Now \in 1..Len(session.msgs) /\ session.starts[Now] <= read
         /\ i \in 0..Len(session.msgs[Now].ends)
<1>1. session \in Sessions /\ read \in Nat
  BY Zenon DEF Peer
<1>2. Now \in 1..Len(session.msgs)
  BY Placed, Zenon DEF IsPlaced, InChunks
<1>3. PICK k \in 1..Len(session.msgs) : k = Now
  BY <1>2
<1>4. i \in 0..Len(session.msgs[k].ends) /\ At(session, k, i) <= read
  BY <1>3, Zenon DEF InChunks, HasChunks
<1>5. At(session, k, i) \in Nat /\ session.starts[k] <= At(session, k, i)
  BY <1>1, <1>4, PlaceIn
<1>6. session.starts[k] \in Nat
  BY <1>1, Shape
<1>7. session.starts[k] <= read
  BY <1>1, <1>4, <1>5, <1>6
<1> QED BY <1>3, <1>4, <1>7, Zenon

\* What is read goes behind the rest, be it untouched, chunks or fragments.
LEMMA StepRecv ==
  ASSUME IInv, NEW n \in (read + 1)..out, Recv(n)
  PROVE  IInv'
<1>1. Peer /\ Handler /\ Buffer /\ InOrder /\ ClosesForClose
  BY Zenon DEF IInv
<1>2. /\ sent' = sent /\ out' = out /\ ended' = ended /\ session' = session
      /\ read' = n /\ rbuf' = rbuf \o Wire(session, read, n)
      /\ collapsed' = collapsed /\ zero' = zero
      /\ body_len' = body_len /\ proto' = proto /\ closing' = closing /\ taken' = taken
      /\ events' = events /\ fault' = fault
      /\ stage = "idle" /\ proto # "closed"
      /\ stage' = (IF proto = "ws" THEN "frames" ELSE "parse")
  BY DEF Recv, local, handled, Running, peer
<1>3. /\ session \in Sessions /\ sent \in Nat /\ read \in Nat /\ out \in Nat /\ Now \in Nat
      /\ Reach(session, out) /\ Now \in 1..(Len(session.msgs) + 1)
      /\ session.starts[Now] \in Nat /\ session.starts[sent + 1] \in Nat
  <2>1. session \in Sessions /\ sent \in 0..Len(session.msgs) /\ read \in Nat
    BY Zenon, <1>1 DEF Peer
  <2>2. /\ Reach(session, out) /\ Now \in Nat /\ Now \in 1..(Len(session.msgs) + 1)
        /\ session.starts[Now] \in Nat /\ sent + 1 \in 1..(Len(session.msgs) + 1)
    BY <1>1, Placed, Zenon DEF IsPlaced
  <2>3. out \in Nat /\ session.starts[sent + 1] \in Nat
    BY <2>1, <2>2, Counts, Zenon DEF Reach
  <2> QED BY <2>1, <2>2, <2>3
<1>4. Now' = Now
  BY <1>2, Zenon DEF Now
<1>5. n \in Nat /\ read < n /\ read <= n /\ n <= out /\ Reach(session, n)
  <2>1. n \in Nat /\ read < n /\ read <= n /\ n <= out
    BY <1>3
  <2> QED BY <1>3, <2>1, ReachDown
<1>6. Peer'
  <2>1. out \in n..session.starts[sent + 1]
    <3>1. out \in read..session.starts[sent + 1]
      BY <1>1, Zenon DEF Peer
    <3> QED BY <1>3, <1>5, <3>1
  <2> QED BY <1>1, <1>2, <1>4, <1>5, <2>1, Zenon DEF Peer
<1>7. Handler'
  <2>1. collapsed \in 0..n /\ body_len \in 0..n
    <3>1. collapsed \in 0..read /\ body_len \in 0..read
      BY <1>1, Zenon DEF Handler
    <3> QED BY <1>3, <1>5, <3>1
  <2>2. stage' \in {"idle", "parse", "chunks", "frames"}
    BY <1>2
  <2> QED BY <1>1, <1>2, <2>1, <2>2, Zenon DEF Handler
<1>8. Start => Start' /\ session.starts[Now] < n
  <2> SUFFICES ASSUME Start PROVE Start' /\ session.starts[Now] < n
    OBVIOUS
  <2>1. PICK k \in 1..(Len(session.msgs) + 1) : k = Now
    BY <1>3
  <2>2. Untouched(session, k, read, rbuf)
    BY <2>1, Zenon DEF Start
  <2>3. Untouched(session, k, n, rbuf \o Wire(session, read, n))
    BY <1>3, <1>5, <2>2, ReadUntouched
  <2>4. Start'
    BY <1>2, <1>4, <2>1, <2>3, Zenon DEF Start
  <2>5. session.starts[Now] <= read
    BY Zenon DEF Start, Untouched
  <2> QED BY <1>3, <1>5, <2>4, <2>5
<1>9. ASSUME proto = "http" PROVE HttpBuffer'
  <2>1. HttpBuffer
    BY <1>1, <1>9, Zenon DEF Buffer
  <2>2. stage' = "parse" /\ "parse" # "frames" /\ "parse" # "chunks" /\ "idle" # "chunks"
    BY <1>2, <1>9
  <2>3. \A k \in 1..Len(events') : session'.msgs[k].kind # "upgrade"
    BY <1>2, <2>1, Zenon DEF HttpBuffer
  <2>4. CASE Start /\ taken = <<>> /\ Fresh /\ stage # "chunks"
    <3>1. Start' /\ session'.starts[Now'] < read'
      BY <1>2, <1>4, <1>8, <2>4, Zenon
    <3>2. Fresh'
      BY <1>2, <2>4, Zenon DEF Fresh
    <3> QED BY <1>2, <2>2, <2>3, <2>4, <3>1, <3>2, Zenon DEF HttpBuffer
  <2>5. CASE \E i : InChunks(i)
    <3>1. PICK i : InChunks(i)
      BY <2>5
    <3>2. Now \in 1..Len(session.msgs) /\ session.starts[Now] <= read
      BY <1>1, <3>1, ChunksFrom
    <3>3. session'.starts[Now'] < read'
      <4>1. session.starts[Now] < n
        BY <1>3, <1>5, <3>2
      <4> QED BY <1>2, <1>4, <4>1, Zenon
    <3>4. PICK k \in 1..Len(session.msgs) : k = Now
      BY <3>2
    <3>5. HasChunks(session, k, i, Len(taken), read, rbuf)
      BY <3>1, <3>4, Zenon DEF InChunks
    <3>6. HasChunks(session, k, i, Len(taken), n, rbuf \o Wire(session, read, n))
      BY <1>3, <1>5, <3>5, ReadChunks
    <3>7. InChunks(i)'
      BY <1>2, <1>4, <2>2, <3>1, <3>4, <3>6, Zenon DEF InChunks
    <3> QED BY <2>2, <2>3, <3>3, <3>7, Zenon DEF HttpBuffer
  <2> QED BY <2>1, <2>4, <2>5, Zenon DEF HttpBuffer
<1>10. ASSUME proto = "ws" PROVE WsBuffer'
  <2>1. WsBuffer
    BY <1>1, <1>10, Zenon DEF Buffer
  <2>2. stage' \in {"idle", "frames"}
    BY <1>2, <1>10
  <2>3. \E k \in 1..Len(events') : session'.msgs[k].kind = "upgrade"
    BY <1>2, <2>1, Zenon DEF WsBuffer
  <2>4. InFrames => InFrames'
    <3> SUFFICES ASSUME InFrames PROVE InFrames'
      OBVIOUS
    <3>1. PICK i : HasFrames(session, Now, i, read, rbuf)
      BY Zenon DEF InFrames
    <3>2. Now <= sent
      BY Zenon DEF InFrames
    <3>3. PICK k \in 1..Len(session.msgs) : k = Now /\ session.msgs[k].kind \in Data
      BY <1>1, <2>1, <3>2, WsNow
    <3>4. HasFrames(session, k, i, n, rbuf \o Wire(session, read, n))
      BY <1>3, <1>5, <3>1, <3>3, ReadFrames
    <3> QED BY <1>2, <1>4, <3>2, <3>3, <3>4, Zenon DEF InFrames
  <2>5. Start' \/ InFrames'
    BY <1>8, <2>1, <2>4, Zenon DEF WsBuffer
  <2> QED BY <2>2, <2>3, <2>5, Zenon DEF WsBuffer
<1>11. Buffer'
  BY <1>2, <1>9, <1>10, Zenon DEF Buffer
<1>12. Waiting'
  <2>1. stage' # "idle"
    BY <1>2
  <2> QED BY <2>1, Zenon DEF Waiting
<1>13. InOrder'
  BY <1>1, <1>2, KeepOrder
<1>14. ClosesForClose'
  <2>1. read' \in Nat /\ read <= read'
    BY <1>2, <1>5
  <2> QED BY <1>1, <1>2, <1>3, <2>1, KeepClose
<1> QED BY <1>6, <1>7, <1>11, <1>12, <1>13, <1>14, Zenon DEF IInv

\* What the handler knows when it parses a request.
IsParsed ==
    /\ proto = "http" /\ HttpBuffer /\ Now <= sent /\ Now \in 1..Len(session.msgs)
    /\ session.msgs[Now].kind \in Http /\ session.starts[Now] < read /\ Reach(session, read)
    /\ rbuf[1][3] = Now
    /\ session.msgs[Now].kind # "chunked" => Start /\ taken = <<>> /\ Fresh

\* A request is at the head of the buffer when it is parsed.
LEMMA ParseHead ==
  ASSUME Peer, Handler, Buffer, Running, stage = "parse"
  PROVE  IsParsed
<1>1. proto = "http"
  <2>1. proto \in {"http", "ws", "closed"}
    BY Zenon DEF Handler
  <2>2. proto # "ws"
    <3>1. ASSUME proto = "ws" PROVE FALSE
      <4>1. stage \in {"idle", "frames"}
        BY <3>1, Zenon DEF Buffer, WsBuffer
      <4> QED BY <4>1
    <3> QED BY <3>1
  <2>3. proto # "closed"
    BY Zenon DEF Running
  <2> QED BY <2>1, <2>2, <2>3
<1>2. HttpBuffer
  BY <1>1, Zenon DEF Buffer
<1>3. session.starts[Now] < read
  <2>1. stage # "idle"
    OBVIOUS
  <2> QED BY <1>2, <2>1, Zenon DEF HttpBuffer
<1>4. Now <= sent /\ Reach(session, read) /\ read \in Nat
  BY <1>3, Placed, Zenon DEF IsPlaced
<1>5. PICK k \in 1..Len(session.msgs) : k = Now /\ session.msgs[k].kind \in Http
  BY <1>2, <1>4, HttpNow
<1>6. session \in Sessions
  BY Zenon DEF Peer
<1>7. CASE Start /\ taken = <<>> /\ Fresh
  <2>1. Untouched(session, k, read, rbuf) /\ session.starts[k] < read
    BY <1>3, <1>5, <1>7, Zenon DEF Start
  <2>2. rbuf[1] = <<"head", 0, k>>
    BY <1>4, <1>5, <1>6, <2>1, Headed
  <2>3. rbuf[1][3] = k
    BY <2>2
  <2> QED BY <1>1, <1>2, <1>3, <1>4, <1>5, <1>7, <2>3, Zenon DEF IsParsed
<1>8. CASE \E i : InChunks(i)
  <2>1. PICK i : InChunks(i)
    BY <1>8
  <2>2. HasChunks(session, k, i, Len(taken), read, rbuf) /\ session.msgs[k].kind = "chunked"
    BY <1>5, <2>1, Zenon DEF InChunks
  <2>3. /\ i \in 0..Len(session.msgs[k].ends) /\ Len(taken) \in Nat
        /\ Len(taken) <= Upto(session.msgs[k], i)
    BY <2>2, Zenon DEF HasChunks
  <2>4. PICK u \in Nat : u = Upto(session.msgs[k], i)
    BY <1>6, <2>3, Upward
  <2>5. PICK c \in Nat : c = u - Len(taken)
    BY <2>3, <2>4
  <2>6. u = Len(taken) + c
    BY <2>3, <2>5
  <2>7. IsHeaded(rbuf, c, read, At(session, k, i), k)
    BY <1>4, <1>6, <2>2, <2>4, <2>6, ChunkBody
  <2>8. rbuf[1][3] = k
    <3>1. rbuf[1] = <<"head", 0, k>>
      BY <2>7, Zenon DEF IsHeaded
    <3> QED BY <3>1
  <2> QED BY <1>1, <1>2, <1>3, <1>4, <1>5, <2>2, <2>8, Zenon DEF IsParsed
<1> QED BY <1>2, <1>7, <1>8, Zenon DEF HttpBuffer

\* Who waits for answers sends nothing behind a request.
LEMMA NoNext ==
  ASSUME Peer, HttpBuffer, Now <= sent, session.msgs[Now].kind # "upgrade", session.ahead # "always"
  PROVE  sent <= Now
<1>1. session \in Sessions /\ sent \in 0..Len(session.msgs)
  BY Zenon DEF Peer
<1>2. Len(events) \in Nat /\ Now \in Nat
  BY Placed, Zenon DEF IsPlaced
<1>3. Len(session.msgs) \in Nat
  BY <1>1, Counts
<1>4. ASSUME ~(sent <= Now) PROVE FALSE
  <2>1. PICK k \in 1..Len(session.msgs) : k = Now + 1
    BY <1>1, <1>2, <1>3, <1>4
  <2>2. ASSUME NEW u \in 1..(k - 1) PROVE session.msgs[u].kind # "upgrade"
    <3>1. u \in 1..Len(events) \/ u = Now
      BY <1>2, <2>1 DEF Now
    <3>2. ASSUME u \in 1..Len(events) PROVE session.msgs[u].kind # "upgrade"
      BY <3>2, Zenon DEF HttpBuffer
    <3> QED BY <3>1, <3>2
  <2>3. session.msgs[k].kind \in Http
    BY <1>1, <2>2, HttpKind
  <2>4. k \in 1..sent
    BY <1>1, <1>2, <1>3, <1>4, <2>1
  <2>5. k <= Now
    BY <2>3, <2>4, Zenon DEF Peer
  <2> QED BY <1>2, <2>1, <2>5
<1> QED BY <1>4

\* What a message handed over leaves for the rest of the invariant.
IsHanded ==
    /\ Peer' /\ Now' = Now + 1 /\ InOrder' /\ ClosesForClose'
    /\ Len(events') = Now
    /\ \A k \in 1..Len(events) : k \in 1..Len(events')
    /\ \A k \in 1..Len(events') : k \in 1..Len(events) \/ k = Now

\* A message was handed over that does not close the connection.
LEMMA HandOver ==
  ASSUME Peer, InOrder, ClosesForClose, proto # "closed", Now <= sent,
         NEW h \in Handings, IsMessage(session, Now, h), events' = Append(events, h),
         UNCHANGED <<session, sent, out, ended, read>>,
         closing => closing', closing' => closing \/ Reason, session.msgs[Now].kind = "close" => closing'
  PROVE  IsHanded
<1>1. Peer' /\ Now' = Now + 1
  BY HandPeer
<1>2. InOrder'
  BY HandOrder
<1>3. ClosesForClose'
  BY HandClose
<1>4. events \in Seq(Handings) /\ Len(events) \in Nat
  BY DEF Peer, Handings
<1>5. Len(events') = Len(events) + 1
  BY <1>4
<1>6. /\ Len(events') = Now
      /\ \A k \in 1..Len(events) : k \in 1..Len(events')
      /\ \A k \in 1..Len(events') : k \in 1..Len(events) \/ k = Now
  BY <1>4, <1>5 DEF Now
<1> QED BY <1>1, <1>2, <1>3, <1>6, Zenon DEF IsHanded

\* A request that is not chunked leaves body_len as it is.
LEMMA FreshOn ==
  ASSUME Fresh, UNCHANGED <<session, body_len>>, \A k \in 1..Len(events) : k \in 1..Len(events')
  PROVE  Fresh'
BY Zenon DEF Fresh

\* The body of a request is a sequence of bytes.
LEMMA BodyIn ==
  ASSUME NEW s \in Sessions, NEW k \in 1..Len(s.msgs), s.msgs[k].kind \in Http, s.msgs[k].kind # "chunked"
  PROVE  Payload(s.msgs[k], k, 0, Size(s.msgs[k])) \in Seq(Letters)
<1>1. PICK d : d = Payload(s.msgs[k], k, 0, Size(s.msgs[k]))
  OBVIOUS
<1>2. d \in Seq(Letters)
  BY <1>1, BodyWire
<1> QED BY <1>1, <1>2

\* Handed is one of Handings.
LEMMA HandedIs ==
  ASSUME NEW event \in Names, NEW payload \in Seq(Letters), NEW h, h = Handed(event, payload)
  PROVE  h.event = event /\ h.payload = payload /\ h \in Handings
<1>1. PICK Q : Q = Seq(Letters)
  OBVIOUS
<1>2. h = [event |-> event, payload |-> payload] /\ payload \in Q
  BY <1>1, Zenon DEF Handed
<1>3. h \in [event : Names, payload : Q]
  BY <1>2
<1> QED BY <1>1, <1>2, <1>3 DEF Handings

\* The request is whole and goes; what follows it stays.
LEMMA StepDeliver ==
  ASSUME IInv, Deliver
  PROVE  IInv'
<1>1. Peer /\ Handler /\ Buffer /\ InOrder /\ ClosesForClose
  BY Zenon DEF IInv
<1>2. /\ Running /\ stage = "parse" /\ session.msgs[rbuf[1][3]].kind = "request"
      /\ MessageLen(session.msgs[rbuf[1][3]]) <= Len(rbuf)
      /\ rbuf' = Removed(rbuf, MessageLen(session.msgs[rbuf[1][3]]))
      /\ events' = Append(events, Handed("request", SubSeq(rbuf, 2, MessageLen(session.msgs[rbuf[1][3]]))))
      /\ stage' = "idle" /\ sent' = sent /\ out' = out /\ ended' = ended /\ session' = session /\ read' = read
      /\ collapsed' = collapsed /\ zero' = zero
      /\ body_len' = body_len /\ proto' = proto /\ closing' = closing /\ taken' = taken /\ fault' = fault
  BY DEF Deliver, Parsing, WholeRequest, local, peer, msgs
<1>3. IsParsed
  BY <1>1, <1>2, ParseHead
<1>4. PICK k \in 1..Len(session.msgs) : k = Now
  BY <1>3, Zenon DEF IsParsed
<1>5. PICK n : n = 1 + Size(session.msgs[k])
  OBVIOUS
<1>6. rbuf[1][3] = k /\ n = MessageLen(session.msgs[rbuf[1][3]])
  BY <1>3, <1>4, <1>5, Zenon DEF IsParsed, MessageLen
<1>7. session.msgs[k].kind = "request" /\ n <= Len(rbuf) /\ rbuf' = Removed(rbuf, n)
  BY <1>2, <1>6, Zenon
<1>8. /\ session \in Sessions /\ Reach(session, read) /\ session.starts[k] < read
      /\ session.msgs[k].kind \in Http /\ session.msgs[k].kind # "chunked"
      /\ session.msgs[k].kind # "close" /\ session.msgs[k].kind # "upgrade"
      /\ Start /\ taken = <<>> /\ Fresh /\ proto = "http" /\ HttpBuffer /\ Now <= sent
      /\ Untouched(session, k, read, rbuf)
  <2>1. session.msgs[k].kind # "chunked" /\ session.msgs[k].kind # "close" /\ session.msgs[k].kind # "upgrade"
    BY <1>7
  <2> QED BY <1>1, <1>3, <1>4, <2>1, Zenon DEF IsParsed, Peer, Start
<1>9. PICK d : d = Payload(session.msgs[k], k, 0, Size(session.msgs[k]))
  OBVIOUS
<1>10. PICK e : IsRequest(rbuf, n, d, e) /\ Untouched(session, k + 1, read, e)
  <2>1. /\ n <= Len(rbuf) <=> session.starts[k + 1] <= read
        /\ session.starts[k + 1] <= read =>
              \E e : IsRequest(rbuf, n, Payload(session.msgs[k], k, 0, Size(session.msgs[k])), e)
                     /\ Untouched(session, k + 1, read, e)
    BY <1>5, <1>8, RequestWhole
  <2> QED BY <1>7, <1>9, <2>1, Zenon
<1>11. rbuf' = e
  BY <1>7, <1>10, Zenon DEF Removed, IsRequest
<1>12. PICK h : h = Handed("request", SubSeq(rbuf, 2, n))
  OBVIOUS
<1>13. events' = Append(events, h)
  BY <1>2, <1>6, <1>12, Zenon
<1>14. h.event = "request" /\ h.payload = d /\ h \in Handings
  <2>1. SubSeq(rbuf, 2, n) = d
    BY <1>10, Zenon DEF IsRequest
  <2>2. Payload(session.msgs[k], k, 0, Size(session.msgs[k])) \in Seq(Letters)
    BY <1>8, BodyIn
  <2>3. d \in Seq(Letters) /\ h = Handed("request", d)
    BY <1>9, <1>12, <2>1, <2>2, Zenon
  <2>4. "request" \in Names
    BY DEF Names
  <2> QED BY <2>3, <2>4, HandedIs
<1>15. IsMessage(session, Now, h)
  <2>1. Expected(session.msgs[k].kind) = "request" /\ "rest" # "request"
    BY <1>7 DEF Expected
  <2> QED BY <1>4, <1>9, <1>14, <2>1, Zenon DEF IsMessage
<1>16. IsHanded
  BY <1>1, <1>2, <1>4, <1>8, <1>13, <1>14, <1>15, HandOver, Zenon
<1>17. Handler'
  BY <1>1, <1>2, Zenon DEF Handler
<1>18. Buffer'
  <2>1. Fresh'
    BY <1>2, <1>8, <1>16, FreshOn, Zenon DEF IsHanded
  <2>2. Start'
    BY <1>2, <1>4, <1>10, <1>11, <1>16, Zenon DEF Start, IsHanded
  <2>3. \A j \in 1..Len(events') : session'.msgs[j].kind # "upgrade"
    BY <1>2, <1>4, <1>8, <1>16, Zenon DEF HttpBuffer, IsHanded
  <2>4. stage' = "idle" /\ "idle" # "frames" /\ "idle" # "chunks"
    BY <1>2
  <2>5. HttpBuffer'
    BY <1>2, <1>8, <2>1, <2>2, <2>3, <2>4, Zenon DEF HttpBuffer
  <2>6. proto' = "http" /\ "http" # "ws" /\ "http" # "closed"
    BY <1>2, <1>8
  <2> QED BY <2>5, <2>6, Zenon DEF Buffer
<1>19. Waiting'
  <2>1. ASSUME session.ahead # "always" PROVE ~(Now + 1 <= sent)
    <3>1. sent <= Now
      BY <1>1, <1>4, <1>8, <2>1, NoNext
    <3>2. sent \in Nat /\ Now \in Nat
      <4>1. Now \in Nat
        BY <1>1, Placed, Zenon DEF IsPlaced
      <4>2. sent \in 0..Len(session.msgs)
        BY <1>1, Zenon DEF Peer
      <4> QED BY <4>1, <4>2
    <3> QED BY <3>1, <3>2
  <2>2. session'.ahead # "always" => ~(Now' <= sent')
    <3>1. Now' = Now + 1
      BY <1>16, Zenon DEF IsHanded
    <3> QED BY <1>2, <2>1, <3>1
  <2> QED BY <2>2, Zenon DEF Waiting
<1> QED BY <1>16, <1>17, <1>18, <1>19, Zenon DEF IInv, IsHanded

\* The request is not whole, or has no length: its end is to be read.
LEMMA StepIncomplete ==
  ASSUME IInv, Incomplete
  PROVE  IInv'
<1>1. Peer /\ Handler /\ Buffer /\ InOrder /\ ClosesForClose
  BY Zenon DEF IInv
<1>2. /\ Running /\ stage = "parse" /\ session.msgs[rbuf[1][3]].kind \in {"request", "open"}
      /\ ~WholeRequest(rbuf)
      /\ rbuf' = rbuf /\ events' = events
      /\ stage' = "idle" /\ sent' = sent /\ out' = out /\ ended' = ended /\ session' = session /\ read' = read
      /\ collapsed' = collapsed /\ zero' = zero
      /\ body_len' = body_len /\ proto' = proto /\ closing' = closing /\ taken' = taken /\ fault' = fault
  BY DEF Incomplete, Parsing, local, peer, msgs, handled
<1>3. IsParsed
  BY <1>1, <1>2, ParseHead
<1>4. PICK k \in 1..Len(session.msgs) : k = Now
  BY <1>3, Zenon DEF IsParsed
<1>5. rbuf[1][3] = k
  BY <1>3, <1>4, Zenon DEF IsParsed
<1>6. session.msgs[k].kind = "request" \/ session.msgs[k].kind = "open"
  BY <1>2, <1>5
<1>7. /\ session \in Sessions /\ Reach(session, read) /\ session.starts[k] < read
      /\ session.msgs[k].kind \in Http /\ session.msgs[k].kind # "chunked"
      /\ Start /\ taken = <<>> /\ Fresh /\ proto = "http" /\ HttpBuffer
      /\ Untouched(session, k, read, rbuf)
  <2>1. session.msgs[k].kind # "chunked"
    BY <1>6
  <2> QED BY <1>1, <1>3, <1>4, <2>1, Zenon DEF IsParsed, Peer, Start
<1>8. Peer' /\ Now' = Now
  BY <1>1, <1>2, KeepPeer
<1>9. Handler'
  <2>1. stage' \in {"idle", "parse", "chunks", "frames"}
    BY <1>2
  <2> QED BY <1>1, <1>2, <2>1, Zenon DEF Handler
<1>10. Buffer'
  <2>1. Fresh' /\ Start'
    BY <1>2, <1>7, <1>8, Zenon DEF Start, Fresh
  <2>2. stage' = "idle" /\ "idle" # "frames" /\ "idle" # "chunks"
    BY <1>2
  <2>3. HttpBuffer'
    BY <1>2, <1>7, <2>1, <2>2, Zenon DEF HttpBuffer
  <2>4. proto' = "http" /\ "http" # "ws" /\ "http" # "closed"
    BY <1>2, <1>7
  <2> QED BY <2>3, <2>4, Zenon DEF Buffer
<1>11. Waiting'
  <2>1. ASSUME session.msgs[k].kind # "open" PROVE read < session.starts[k + 1]
    <3>1. session.msgs[k].kind = "request"
      BY <1>6, <2>1
    <3>2. PICK n : n = 1 + Size(session.msgs[k])
      OBVIOUS
    <3>3. ~(n <= Len(rbuf))
      BY <1>2, <1>5, <3>1, <3>2, Zenon DEF WholeRequest, MessageLen, msgs
    <3>4. n <= Len(rbuf) <=> session.starts[k + 1] <= read
      BY <1>7, <3>2, RequestWhole
    <3>5. session.starts[k + 1] \in Nat /\ read \in Nat
      BY <1>7, Shape DEF Reach
    <3> QED BY <3>3, <3>4, <3>5
  <2>2. session'.msgs[Now'].kind # "open" => read' < session'.starts[Now' + 1]
    BY <1>2, <1>4, <1>8, <2>1, Zenon
  <2> QED BY <2>2, Zenon DEF Waiting
<1>12. InOrder'
  BY <1>1, <1>2, KeepOrder
<1>13. ClosesForClose'
  <2>1. read \in Nat /\ read <= read
    BY <1>7 DEF Reach
  <2> QED BY <1>1, <1>2, <2>1, KeepClose
<1> QED BY <1>8, <1>9, <1>10, <1>11, <1>12, <1>13, Zenon DEF IInv

\* What follows the upgrade is frames.
LEMMA StepUpgrade ==
  ASSUME IInv, Upgrade
  PROVE  IInv'
<1>1. Peer /\ Handler /\ Buffer /\ InOrder /\ ClosesForClose
  BY Zenon DEF IInv
<1>2. /\ Running /\ stage = "parse" /\ session.msgs[rbuf[1][3]].kind = "upgrade"
      /\ rbuf' = Removed(rbuf, 1) /\ events' = Append(events, Handed("upgrade", <<>>))
      /\ proto' = "ws" /\ stage' = "frames"
      /\ sent' = sent /\ out' = out /\ ended' = ended /\ session' = session /\ read' = read
      /\ collapsed' = collapsed /\ zero' = zero
      /\ body_len' = body_len /\ closing' = closing /\ taken' = taken /\ fault' = fault
  BY DEF Upgrade, Parsing, local, peer, msgs
<1>3. IsParsed
  BY <1>1, <1>2, ParseHead
<1>4. PICK k \in 1..Len(session.msgs) : k = Now
  BY <1>3, Zenon DEF IsParsed
<1>5. session.msgs[k].kind = "upgrade"
  BY <1>2, <1>3, <1>4, Zenon DEF IsParsed
<1>6. /\ session \in Sessions /\ Reach(session, read) /\ session.starts[k] < read
      /\ session.msgs[k].kind \in Http /\ session.msgs[k].kind # "chunked" /\ session.msgs[k].kind # "close"
      /\ Start /\ proto = "http" /\ HttpBuffer /\ Now <= sent
      /\ Untouched(session, k, read, rbuf) /\ proto # "closed"
  <2>1. session.msgs[k].kind # "chunked" /\ session.msgs[k].kind # "close" /\ "http" # "closed"
    BY <1>5
  <2> QED BY <1>1, <1>3, <1>4, <2>1, Zenon DEF IsParsed, Peer, Start
<1>7. Size(session.msgs[k]) = 0
  <2>1. Proper(session, k)
    BY <1>6, Shape
  <2> QED BY <1>5, <2>1, Zenon DEF Proper
<1>8. PICK n : n = 1 + Size(session.msgs[k])
  OBVIOUS
<1>9. n = 1 /\ n <= Len(rbuf)
  <2>1. Len(rbuf) = read - session.starts[k]
    BY <1>6, Headed
  <2>2. read \in Nat /\ session.starts[k] \in Nat
    BY <1>6, Shape DEF Reach
  <2> QED BY <1>6, <1>7, <1>8, <2>1, <2>2
<1>10. PICK d : d = Payload(session.msgs[k], k, 0, Size(session.msgs[k]))
  OBVIOUS
<1>11. d = <<>>
  <2>1. Payload(session.msgs[k], k, 0, 0) = <<>>
    BY PayloadEmpty
  <2> QED BY <1>7, <1>10, <2>1, Zenon
<1>12. PICK e : IsRequest(rbuf, n, d, e) /\ Untouched(session, k + 1, read, e)
  <2>1. /\ n <= Len(rbuf) <=> session.starts[k + 1] <= read
        /\ session.starts[k + 1] <= read =>
              \E e : IsRequest(rbuf, n, Payload(session.msgs[k], k, 0, Size(session.msgs[k])), e)
                     /\ Untouched(session, k + 1, read, e)
    BY <1>6, <1>8, RequestWhole
  <2> QED BY <1>9, <1>10, <2>1, Zenon
<1>13. rbuf' = e
  <2>1. rbuf' = Removed(rbuf, n)
    BY <1>2, <1>9
  <2> QED BY <1>9, <1>12, <2>1, Zenon DEF Removed, IsRequest
<1>14. PICK h : h = Handed("upgrade", <<>>)
  OBVIOUS
<1>15. h.event = "upgrade" /\ h.payload = d /\ h \in Handings
  <2>1. "upgrade" \in Names /\ <<>> \in Seq(Letters)
    BY DEF Names
  <2>2. h.event = "upgrade" /\ h.payload = <<>> /\ h \in Handings
    BY <1>14, <2>1, HandedIs
  <2> QED BY <1>11, <2>2
<1>16. IsMessage(session, Now, h)
  <2>1. Expected(session.msgs[k].kind) = "upgrade" /\ "rest" # "upgrade"
    BY <1>5 DEF Expected
  <2> QED BY <1>4, <1>10, <1>15, <2>1, Zenon DEF IsMessage
<1>17. events' = Append(events, h)
  BY <1>2, <1>14, Zenon
<1>18. IsHanded
  BY <1>1, <1>2, <1>4, <1>6, <1>15, <1>16, <1>17, HandOver, Zenon
<1>19. Handler'
  <2>1. stage' \in {"idle", "parse", "chunks", "frames"} /\ proto' \in {"http", "ws", "closed"}
    BY <1>2
  <2> QED BY <1>1, <1>2, <2>1, Zenon DEF Handler
<1>20. Buffer'
  <2>1. Start'
    BY <1>2, <1>4, <1>12, <1>13, <1>18, Zenon DEF Start, IsHanded
  <2>2. \E j \in 1..Len(events') : session'.msgs[j].kind = "upgrade"
    <3>1. k \in 1..Len(events')
      <4>1. Len(events') = k
        BY <1>4, <1>18, Zenon DEF IsHanded
      <4>2. k \in Nat /\ k >= 1
        <5>1. Len(session.msgs) \in Nat
          BY <1>6, Counts
        <5> QED BY <5>1
      <4> QED BY <4>1, <4>2
    <3> QED BY <1>2, <1>5, <3>1
  <2>3. stage' \in {"idle", "frames"}
    BY <1>2
  <2>4. WsBuffer'
    BY <2>1, <2>2, <2>3, Zenon DEF WsBuffer
  <2>5. proto' # "http" /\ proto' # "closed"
    BY <1>2
  <2> QED BY <2>4, <2>5, Zenon DEF Buffer
<1>21. Waiting'
  <2>1. stage' # "idle"
    BY <1>2
  <2> QED BY <2>1, Zenon DEF Waiting
<1> QED BY <1>18, <1>19, <1>20, <1>21, Zenon DEF IInv, IsHanded

\* The numbers of a chunked request at the head of the buffer: u bytes of its
\* body have come, c of them are in the buffer.
IsCounted(i, k, u, c) ==
    /\ k \in 1..Len(session.msgs) /\ k = Now /\ session.msgs[k].kind = "chunked"
    /\ session \in Sessions /\ Reach(session, read) /\ read \in Nat
    /\ HasChunks(session, k, i, Len(taken), read, rbuf) /\ i \in 0..Len(session.msgs[k].ends)
    /\ Len(taken) \in Nat /\ taken = Payload(session.msgs[k], k, 0, Len(taken))
    /\ u \in Nat /\ u = Upto(session.msgs[k], i)
    /\ c \in Nat /\ u = Len(taken) + c /\ c = u - Len(taken) /\ c <= read /\ Len(rbuf) - 1 >= c

\* It has such numbers.
LEMMA Counted ==
  ASSUME Peer, NEW i, InChunks(i)
  PROVE  \E k, u, c : IsCounted(i, k, u, c)
<1>1. session \in Sessions /\ read \in Nat
  BY Zenon DEF Peer
<1>2. Now \in 1..Len(session.msgs) /\ Reach(session, read)
  BY Placed, Zenon DEF IsPlaced, InChunks
<1>3. PICK k \in 1..Len(session.msgs) : k = Now
  BY <1>2
<1>4. /\ session.msgs[k].kind = "chunked" /\ HasChunks(session, k, i, Len(taken), read, rbuf)
      /\ taken = Payload(session.msgs[k], k, 0, Len(taken))
  BY <1>3, Zenon DEF InChunks
<1>5. /\ i \in 0..Len(session.msgs[k].ends) /\ At(session, k, i) <= read
      /\ Len(taken) \in Nat /\ Len(taken) <= Upto(session.msgs[k], i)
  BY <1>4, Zenon DEF HasChunks
<1>6. PICK u \in Nat : u = Upto(session.msgs[k], i)
  BY <1>1, <1>5, Upward
<1>7. PICK t \in Nat : t = Len(taken)
  BY <1>5
<1>8. PICK c \in Nat : c = u - t
  BY <1>5, <1>6, <1>7
<1>9. u = t + c
  BY <1>8
<1>10. HasChunks(session, k, i, t, read, rbuf)
  BY <1>4, <1>7
<1>11. IsHeaded(rbuf, c, read, At(session, k, i), k)
  BY <1>1, <1>2, <1>6, <1>9, <1>10, ChunkBody
<1>12. Len(rbuf) - 1 >= c
  <2>1. PICK p \in Nat : p = At(session, k, i)
    BY <1>1, <1>5, PlaceIn
  <2>2. Len(rbuf) = (1 + c) + (read - p) /\ p <= read
    BY <1>5, <1>11, <2>1, Zenon DEF IsHeaded
  <2> QED BY <1>1, <2>2
<1>13. c <= read
  <2>1. Upto(session.msgs[k], i) - t <= read
    BY <1>1, <1>2, <1>4, <1>10, FitsChunks
  <2> QED BY <1>6, <1>8, <2>1
<1> QED BY <1>1, <1>2, <1>3, <1>4, <1>5, <1>6, <1>7, <1>8, <1>9, <1>12, <1>13, Zenon DEF IsCounted

\* The same while chunks are collapsed.
IsChunking(i, k, u, c) ==
    /\ proto = "http" /\ HttpBuffer /\ InChunks(i) /\ IsCounted(i, k, u, c)
    /\ session.starts[k] < read /\ Now <= sent
    /\ collapsed = c /\ (zero <=> i = Len(session.msgs[k].ends))

\* While chunks are collapsed there is a chunked request at the head.
LEMMA Chunking ==
  ASSUME Peer, Handler, Buffer, Running, stage = "chunks"
  PROVE  \E i, k, u, c : IsChunking(i, k, u, c)
<1>1. proto = "http"
  <2>1. proto \in {"http", "ws", "closed"}
    BY Zenon DEF Handler
  <2>2. proto # "ws"
    <3>1. ASSUME proto = "ws" PROVE FALSE
      <4>1. stage \in {"idle", "frames"}
        BY <3>1, Zenon DEF Buffer, WsBuffer
      <4> QED BY <4>1
    <3> QED BY <3>1
  <2>3. proto # "closed"
    BY Zenon DEF Running
  <2> QED BY <2>1, <2>2, <2>3
<1>2. HttpBuffer
  BY <1>1, Zenon DEF Buffer
<1>3. PICK i : InChunks(i)
  BY <1>2, Zenon DEF HttpBuffer
<1>4. PICK k, u, c : IsCounted(i, k, u, c)
  BY <1>3, Counted
<1>5. session.starts[k] < read
  <2>1. stage # "idle"
    OBVIOUS
  <2> QED BY <1>2, <1>4, <2>1, Zenon DEF HttpBuffer, IsCounted
<1>6. /\ Now <= sent /\ collapsed = Upto(session.msgs[Now], i) - Len(taken)
      /\ zero <=> i = Len(session.msgs[Now].ends)
  BY <1>3, Zenon DEF InChunks
<1> QED BY <1>1, <1>2, <1>3, <1>4, <1>5, <1>6, Zenon DEF IsChunking, IsCounted

\* A chunk that is not whole is not all there, and neither is the request.
LEMMA Missing ==
  ASSUME NEW i, NEW k, NEW u, NEW c, IsCounted(i, k, u, c), i # Len(session.msgs[k].ends), ~WholeChunk(rbuf, 1 + c)
  PROVE  read < session.starts[k + 1]
<1>1. PICK p : p = 1 + c
  OBVIOUS
<1>2. ~WholeChunk(rbuf, p)
  BY <1>1
<1>3. PICK t \in Nat : t = Len(taken)
  BY Zenon DEF IsCounted
<1>4. /\ session \in Sessions /\ k \in 1..Len(session.msgs) /\ session.msgs[k].kind = "chunked"
      /\ Reach(session, read) /\ read \in Nat /\ HasChunks(session, k, i, t, read, rbuf)
      /\ i \in 0..Len(session.msgs[k].ends) /\ c \in Nat /\ Upto(session.msgs[k], i) = t + c
  BY <1>3, Zenon DEF IsCounted
<1>5. PICK j \in 1..Len(session.msgs[k].ends) : i = j - 1
  <2>1. Len(session.msgs[k].ends) \in Nat
    BY <1>4, Upward
  <2>2. i + 1 \in 1..Len(session.msgs[k].ends) /\ i = (i + 1) - 1
    BY <1>4, <2>1
  <2> QED BY <2>2
<1>6. ASSUME At(session, k, j) <= read PROVE FALSE
  <2>1. PICK n, e : IsPass(session, k, j, t, read, rbuf, c, p, n, e)
    BY <1>1, <1>4, <1>5, <1>6, CollapseChunk
  <2> QED BY <1>2, <2>1, Zenon DEF IsPass, IsCollapse
<1>7. At(session, k, j) \in Nat /\ At(session, k, j) <= session.starts[k + 1]
  <2>1. j \in 0..Len(session.msgs[k].ends)
    BY <1>5
  <2> QED BY <1>4, <2>1, PlaceIn
<1>8. session.starts[k + 1] \in Nat
  BY <1>4, Shape
<1> QED BY <1>4, <1>6, <1>7, <1>8

\* The assertion: body_len counts what is in the buffer.
LEMMA StepStartChunks ==
  ASSUME IInv, Careful(session), StartChunks
  PROVE  IInv'
<1>1. Peer /\ Handler /\ Buffer /\ InOrder /\ ClosesForClose
  BY Zenon DEF IInv
<1>2. /\ Running /\ stage = "parse" /\ session.msgs[rbuf[1][3]].kind = "chunked"
      /\ Len(rbuf) - 1 >= body_len =>
            stage' = "chunks" /\ collapsed' = body_len /\ zero' = FALSE /\ fault' = fault
      /\ rbuf' = rbuf /\ events' = events
      /\ sent' = sent /\ out' = out /\ ended' = ended /\ session' = session /\ read' = read
      /\ body_len' = body_len /\ proto' = proto /\ closing' = closing /\ taken' = taken
  BY DEF StartChunks, Parsing, peer, msgs
<1>3. IsParsed
  BY <1>1, <1>2, ParseHead
<1>4. PICK k \in 1..Len(session.msgs) : k = Now
  BY <1>3, Zenon DEF IsParsed
<1>5. /\ session.msgs[k].kind = "chunked" /\ session \in Sessions /\ Reach(session, read)
      /\ session.starts[k] < read /\ proto = "http" /\ HttpBuffer /\ Now <= sent
  BY <1>1, <1>2, <1>3, <1>4, Zenon DEF IsParsed, Peer
<1>6. \E i : InChunks(i)
  <2>1. CASE Start /\ taken = <<>> /\ Fresh
    <3>1. body_len = 0
      <4>1. ASSUME NEW j \in 1..Len(events), session.msgs[j].kind = "chunked", session.deletes # {TRUE}
            PROVE  FALSE
        <5>1. j < k /\ j \in 1..Len(session.msgs)
          <6>1. Len(events) \in Nat
            BY <1>1, Placed, Zenon DEF IsPlaced
          <6>2. Len(session.msgs) \in Nat
            BY <1>5, Counts
          <6> QED BY <1>4, <6>1, <6>2 DEF Now
        <5>2. DOMAIN session.msgs = 1..Len(session.msgs)
          BY <1>5, Counts
        <5> QED BY <1>5, <4>1, <5>1, <5>2, Zenon DEF Careful
      <4> QED BY <2>1, <4>1, Zenon DEF Fresh
    <3>2. Untouched(session, k, read, rbuf)
      BY <1>4, <2>1, Zenon DEF Start
    <3>3. HasChunks(session, k, 0, 0, read, rbuf) /\ Upto(session.msgs[k], 0) = 0
      BY <1>5, <3>2, FirstChunks
    <3>4. Len(taken) = 0 /\ 0 - 0 = 0 /\ 0 <= 0
      BY <2>1
    <3>5. Payload(session.msgs[k], k, 0, 0) = <<>>
      BY PayloadEmpty
    <3>6. 0 # Len(session.msgs[k].ends)
      BY <1>5, Upward
    <3>7. stage # "chunks"
      BY <1>2
    <3>8. /\ taken = Payload(session.msgs[k], k, 0, Len(taken))
          /\ body_len = Upto(session.msgs[k], 0) - Len(taken)
          /\ body_len <= Upto(session.msgs[k], 0) - Len(taken)
          /\ HasChunks(session, k, 0, Len(taken), read, rbuf)
      BY <2>1, <3>1, <3>3, <3>4, <3>5, Zenon
    <3>9. InChunks(0)
      BY <1>4, <1>5, <3>6, <3>7, <3>8, Zenon DEF InChunks
    <3> QED BY <3>9
  <2> QED BY <1>2, <1>5, <2>1, Zenon DEF HttpBuffer
<1>7. PICK i : InChunks(i)
  BY <1>6
<1>8. PICK l, u, c : IsCounted(i, l, u, c)
  BY <1>1, <1>7, Counted
<1>9. /\ body_len = Upto(session.msgs[Now], i) - Len(taken) /\ i # Len(session.msgs[Now].ends)
  <2>1. stage # "chunks"
    BY <1>2
  <2> QED BY <1>7, <2>1, Zenon DEF InChunks
<1>10. body_len = c /\ Len(rbuf) - 1 >= body_len
  BY <1>8, <1>9, Zenon DEF IsCounted
<1>11. stage' = "chunks" /\ collapsed' = body_len /\ zero' = FALSE /\ fault' = fault
  BY <1>2, <1>10, Zenon
<1>12. Peer' /\ Now' = Now
  BY <1>1, <1>2, KeepPeer
<1>13. Handler'
  <2>1. stage' \in {"idle", "parse", "chunks", "frames"} /\ zero' \in BOOLEAN
    BY <1>11
  <2> QED BY <1>1, <1>2, <1>11, <2>1, Zenon DEF Handler
<1>14. Buffer'
  <2>1. InChunks(i)'
    BY <1>2, <1>7, <1>9, <1>11, <1>12, Zenon DEF InChunks
  <2>2. stage' # "frames" /\ session'.starts[Now'] < read'
    BY <1>2, <1>4, <1>5, <1>11, <1>12
  <2>3. HttpBuffer'
    BY <1>2, <1>5, <2>1, <2>2, Zenon DEF HttpBuffer
  <2>4. proto' = "http" /\ "http" # "ws" /\ "http" # "closed"
    BY <1>2, <1>5
  <2> QED BY <2>3, <2>4, Zenon DEF Buffer
<1>15. Waiting'
  <2>1. stage' # "idle"
    BY <1>11
  <2> QED BY <2>1, Zenon DEF Waiting
<1>16. InOrder'
  BY <1>1, <1>2, KeepOrder
<1>17. ClosesForClose'
  <2>1. read \in Nat /\ read <= read
    BY <1>5 DEF Reach
  <2> QED BY <1>1, <1>2, <2>1, KeepClose
<1> QED BY <1>12, <1>13, <1>14, <1>15, <1>16, <1>17, Zenon DEF IInv

\* Nothing was collapsed, the rest is to be read.
LEMMA StepNoChunk ==
  ASSUME IInv, NoChunk
  PROVE  IInv'
<1>1. Peer /\ Handler /\ Buffer /\ InOrder /\ ClosesForClose
  BY Zenon DEF IInv
<1>2. /\ Running /\ stage = "chunks" /\ ~WholeChunk(rbuf, 1 + collapsed)
      /\ collapsed = body_len /\ ~zero
      /\ rbuf' = rbuf /\ events' = events
      /\ stage' = "idle" /\ sent' = sent /\ out' = out /\ ended' = ended /\ session' = session /\ read' = read
      /\ collapsed' = collapsed /\ zero' = zero
      /\ body_len' = body_len /\ proto' = proto /\ closing' = closing /\ taken' = taken /\ fault' = fault
  BY DEF NoChunk, Collapsed, local, peer, handled
<1>3. PICK i, k, u, c : IsChunking(i, k, u, c)
  BY <1>1, <1>2, Chunking
<1>4. /\ proto = "http" /\ HttpBuffer /\ InChunks(i) /\ IsCounted(i, k, u, c)
      /\ collapsed = c /\ i # Len(session.msgs[k].ends)
      /\ k = Now /\ read \in Nat /\ c = Upto(session.msgs[k], i) - Len(taken)
  BY <1>2, <1>3, Zenon DEF IsChunking, IsCounted
<1>5. read < session.starts[k + 1]
  <2>1. ~WholeChunk(rbuf, 1 + c)
    BY <1>2, <1>4, Zenon
  <2> QED BY <1>4, <2>1, Missing
<1>6. Peer' /\ Now' = Now
  BY <1>1, <1>2, KeepPeer
<1>7. Handler'
  <2>1. stage' \in {"idle", "parse", "chunks", "frames"}
    BY <1>2
  <2> QED BY <1>1, <1>2, <2>1, Zenon DEF Handler
<1>8. Buffer'
  <2>1. stage' = "idle" /\ "idle" # "frames" /\ "idle" # "chunks"
    BY <1>2
  <2>2. InChunks(i)'
    BY <1>2, <1>4, <1>6, <2>1, Zenon DEF InChunks
  <2>3. HttpBuffer'
    BY <1>2, <1>4, <2>1, <2>2, Zenon DEF HttpBuffer
  <2>4. proto' = "http" /\ "http" # "ws" /\ "http" # "closed"
    BY <1>2, <1>4
  <2> QED BY <2>3, <2>4, Zenon DEF Buffer
<1>9. Waiting'
  <2>1. read' < session'.starts[Now' + 1]
    BY <1>2, <1>4, <1>5, <1>6, Zenon
  <2> QED BY <2>1, Zenon DEF Waiting
<1>10. InOrder'
  BY <1>1, <1>2, KeepOrder
<1>11. ClosesForClose'
  <2>1. read <= read
    BY <1>4
  <2> QED BY <1>1, <1>2, <1>4, <2>1, KeepClose
<1> QED BY <1>6, <1>7, <1>8, <1>9, <1>10, <1>11, Zenon DEF IInv

\* One pass of the loop moves the data of one chunk.
LEMMA StepCollapse ==
  ASSUME IInv, Collapse
  PROVE  IInv'
<1>1. Peer /\ Handler /\ Buffer /\ InOrder /\ ClosesForClose
  BY Zenon DEF IInv
<1>2. /\ Running /\ stage = "chunks" /\ ~zero /\ WholeChunk(rbuf, 1 + collapsed)
      /\ IsCollapse(rbuf, 1 + collapsed, rbuf[1 + collapsed + 1][2], rbuf')
      /\ collapsed' = collapsed + rbuf[1 + collapsed + 1][2]
      /\ zero' = (rbuf[1 + collapsed + 1][2] = 0)
      /\ events' = events
      /\ stage' = stage /\ sent' = sent /\ out' = out /\ ended' = ended /\ session' = session /\ read' = read
      /\ body_len' = body_len /\ proto' = proto /\ closing' = closing /\ taken' = taken /\ fault' = fault
  BY DEF Collapse, peer, handled, IsCollapse
<1>3. PICK i, k, u, c : IsChunking(i, k, u, c)
  BY <1>1, <1>2, Chunking
<1>4. /\ proto = "http" /\ HttpBuffer /\ InChunks(i) /\ IsCounted(i, k, u, c)
      /\ collapsed = c /\ i # Len(session.msgs[k].ends) /\ session.starts[k] < read /\ Now <= sent
      /\ k = Now
  BY <1>2, <1>3, Zenon DEF IsChunking, IsCounted
<1>5. PICK t \in Nat : t = Len(taken)
  BY <1>4, Zenon DEF IsCounted
<1>6. /\ session \in Sessions /\ k \in 1..Len(session.msgs) /\ session.msgs[k].kind = "chunked"
      /\ Reach(session, read) /\ read \in Nat /\ HasChunks(session, k, i, t, read, rbuf)
      /\ i \in 0..Len(session.msgs[k].ends) /\ c \in Nat /\ Upto(session.msgs[k], i) = t + c
      /\ taken = Payload(session.msgs[k], k, 0, Len(taken))
  BY <1>4, <1>5, Zenon DEF IsCounted
<1>7. PICK p : p = 1 + c
  OBVIOUS
<1>8. PICK n : n = rbuf[p + 1][2]
  OBVIOUS
<1>9. WholeChunk(rbuf, p) /\ IsCollapse(rbuf, p, n, rbuf') /\ collapsed' = c + n /\ zero' = (n = 0)
  BY <1>2, <1>4, <1>7, <1>8, Zenon
<1>10. PICK j \in 1..Len(session.msgs[k].ends) : i = j - 1
  <2>1. Len(session.msgs[k].ends) \in Nat
    BY <1>6, Upward
  <2>2. i + 1 \in 1..Len(session.msgs[k].ends) /\ i = (i + 1) - 1
    BY <1>4, <1>6, <2>1, SMTT(30)
  <2> QED BY <2>2
<1>11. At(session, k, j) <= read
  <2>1. ASSUME read < At(session, k, j) PROVE FALSE
    <3>1. ~WholeChunk(rbuf, p)
      BY <1>6, <1>7, <1>10, <2>1, NoChunkYet
    <3> QED BY <1>9, <3>1
  <2>2. j \in 0..Len(session.msgs[k].ends)
    BY <1>10
  <2>3. At(session, k, j) \in Nat
    BY <1>6, <2>2, PlaceIn
  <2> QED BY <1>6, <2>1, <2>3
<1>12. PICK g, e : IsPass(session, k, j, t, read, rbuf, c, p, g, e)
  BY <1>6, <1>7, <1>10, <1>11, CollapseChunk
<1>13. g = n /\ e = rbuf'
  BY <1>8, <1>9, <1>12, Zenon DEF IsPass, IsCollapse
<1>14. /\ n \in Nat /\ HasChunks(session, k, j, t, read, rbuf') /\ Upto(session.msgs[k], j) = t + (c + n)
       /\ n = 0 <=> j = Len(session.msgs[k].ends)
  BY <1>12, <1>13, Zenon DEF IsPass
<1>15. PICK w : w = Upto(session.msgs[k], j) - t
  OBVIOUS
<1>16. w = c + n /\ w \in Nat /\ c <= w
  BY <1>5, <1>6, <1>14, <1>15, SMTT(30)
<1>17. w <= read
  <2>1. Upto(session.msgs[k], j) - t <= read
    BY <1>6, <1>14, FitsChunks
  <2> QED BY <1>15, <2>1
<1>18. Peer' /\ Now' = Now
  BY <1>1, <1>2, KeepPeer
<1>19. Handler'
  <2>1. collapsed' \in 0..read /\ zero' \in BOOLEAN
    BY <1>6, <1>9, <1>16, <1>17
  <2> QED BY <1>1, <1>2, <2>1, Zenon DEF Handler
<1>20. Buffer'
  <2>1. /\ collapsed' = Upto(session.msgs[k], j) - Len(taken)
        /\ zero' <=> j = Len(session.msgs[k].ends)
    BY <1>5, <1>9, <1>14, <1>15, <1>16
  <2>2. body_len <= Upto(session.msgs[k], j) - Len(taken)
    <3>1. body_len <= Upto(session.msgs[k], i) - Len(taken)
      BY <1>4, Zenon DEF InChunks
    <3>2. body_len <= c
      BY <1>5, <1>6, <3>1
    <3>3. body_len \in 0..read
      BY <1>1, Zenon DEF Handler
    <3>4. body_len <= w
      BY <1>6, <1>16, <3>2, <3>3
    <3> QED BY <1>5, <1>15, <3>4
  <2>3. stage' = "chunks"
    BY <1>2
  <2>4. /\ Now' <= sent' /\ session'.msgs[Now'].kind = "chunked"
        /\ HasChunks(session', Now', j, Len(taken'), read', rbuf')
        /\ taken' = Payload(session'.msgs[Now'], Now', 0, Len(taken'))
        /\ body_len' <= Upto(session'.msgs[Now'], j) - Len(taken')
        /\ collapsed' = Upto(session'.msgs[Now'], j) - Len(taken')
        /\ zero' <=> j = Len(session'.msgs[Now'].ends)
    BY <1>2, <1>4, <1>5, <1>6, <1>14, <1>18, <2>1, <2>2, Zenon
  <2>5. InChunks(j)'
    BY <2>3, <2>4, Zenon DEF InChunks
  <2>6. stage' # "frames" /\ session'.starts[Now'] < read'
    BY <1>2, <1>4, <1>18
  <2>7. HttpBuffer'
    BY <1>2, <1>4, <2>5, <2>6, Zenon DEF HttpBuffer
  <2>8. proto' = "http" /\ "http" # "ws" /\ "http" # "closed"
    BY <1>2, <1>4
  <2> QED BY <2>7, <2>8, Zenon DEF Buffer
<1>21. Waiting'
  <2>1. stage' # "idle"
    BY <1>2
  <2> QED BY <2>1, Zenon DEF Waiting
<1>22. InOrder'
  BY <1>1, <1>2, KeepOrder
<1>23. ClosesForClose'
  <2>1. read <= read
    BY <1>6
  <2> QED BY <1>1, <1>2, <1>6, <2>1, KeepClose
<1> QED BY <1>18, <1>19, <1>20, <1>21, <1>22, <1>23, Zenon DEF IInv

\* d is the body in the buffer and e the rest; with what was taken d is the body up to i.
IsTakenBody(i, k, u, c, d, e) ==
    /\ IsBody(rbuf, c, d, e) /\ HasChunks(session, k, i, u, read, e)
    /\ d \in Seq(Letters) /\ taken \o d = Payload(session.msgs[k], k, 0, u)
    /\ Payload(session.msgs[k], k, 0, u) \in Seq(Letters)
    /\ Len(Payload(session.msgs[k], k, 0, u)) = u

\* What the user took and what the buffer holds are the body up to here.
LEMMA TakenBody ==
  ASSUME NEW i, NEW k, NEW u, NEW c, IsCounted(i, k, u, c)
  PROVE  \E d, e : IsTakenBody(i, k, u, c, d, e)
<1> DEFINE m == session.msgs[k]
<1>1. PICK t \in Nat : t = Len(taken)
  BY Zenon DEF IsCounted
<1>2. /\ session \in Sessions /\ k \in 1..Len(session.msgs) /\ m.kind = "chunked"
      /\ Reach(session, read) /\ HasChunks(session, k, i, t, read, rbuf)
      /\ i \in 0..Len(m.ends) /\ c \in Nat /\ u = t + c /\ u \in Nat /\ u = Upto(m, i)
      /\ taken = Payload(m, k, 0, t)
  BY <1>1, Zenon DEF IsCounted
<1>3. PICK d : d = Payload(m, k, t, u)
  OBVIOUS
<1>4. PICK e : IsBody(rbuf, c, d, e) /\ HasChunks(session, k, i, u, read, e)
  <2>1. \E e : IsBody(rbuf, c, Payload(session.msgs[k], k, t, u), e) /\ HasChunks(session, k, i, u, read, e)
    BY <1>1, <1>2, ChunkBody
  <2> QED BY <1>3, <2>1, Zenon
<1>5. /\ m.from \in Nat /\ m.from + u <= 255 /\ k \in Nat
  <2>1. /\ Len(m.ends) \in Nat \ {0} /\ Size(m) \in Nat /\ m.from \in Nat /\ m.from + Size(m) <= 255
        /\ \A h, l \in 0..Len(m.ends) : h <= l => Upto(m, h) <= Upto(m, l)
    BY <1>2, Upward, ZenonT(30)
  <2>2. Len(m.ends) \in 0..Len(m.ends) /\ i <= Len(m.ends)
    BY <1>2, <2>1
  <2>3. u <= Size(m)
    BY <1>2, <2>1, <2>2 DEF Size
  <2>4. k \in Nat
    BY <1>2
  <2> QED BY <1>2, <2>1, <2>3, <2>4, SMTT(30)
<1> HIDE DEF m
<1>6. t <= u /\ 0 <= t /\ 0 <= u
  BY <1>1, <1>2
<1>7. IsGrown(m, k, 0, t, u)
  BY <1>1, <1>2, <1>5, <1>6, PayloadJoin
<1>8. IsPayload(m, k, t, u, Payload(m, k, t, u))
  BY <1>1, <1>2, <1>5, <1>6, PayloadIs
<1>9. IsPayload(m, k, 0, u, Payload(m, k, 0, u))
  BY <1>2, <1>5, <1>6, PayloadIs
<1>10. u - 0 = u
  BY <1>2
<1>11. taken \o d = Payload(m, k, 0, u)
  BY <1>2, <1>3, <1>7, Zenon DEF IsGrown
<1> QED BY <1>3, <1>4, <1>8, <1>9, <1>10, <1>11, Zenon DEF IsPayload, IsTakenBody, m

\* Behind the last chunk of a request that is waited for nothing has been read.
LEMMA ReadAll ==
  ASSUME Peer, NEW i, NEW k, NEW u, NEW c, IsChunking(i, k, u, c), session.ahead # "always",
         i = Len(session.msgs[k].ends)
  PROVE  Untouched(session, k + 1, read, <<>>) /\ ~(k + 1 <= sent) /\ u = Size(session.msgs[k])
<1>1. /\ HttpBuffer /\ Now <= sent /\ k = Now /\ k \in 1..Len(session.msgs) /\ session.msgs[k].kind = "chunked"
      /\ session \in Sessions /\ read \in Nat /\ Reach(session, read)
      /\ HasChunks(session, k, i, Len(taken), read, rbuf) /\ u = Upto(session.msgs[k], i)
  BY Zenon DEF IsChunking, IsCounted
<1>2. session.msgs[Now].kind # "upgrade"
  BY <1>1
<1>3. sent <= Now
  BY <1>1, <1>2, NoNext
<1>4. sent = k
  <2>1. sent \in 0..Len(session.msgs)
    BY Zenon DEF Peer
  <2>2. Len(session.msgs) \in Nat
    BY <1>1, Counts
  <2> QED BY <1>1, <1>3, <2>1, <2>2
<1>5. read <= session.starts[k + 1]
  BY <1>4, Placed, Zenon DEF IsPlaced
<1>6. At(session, k, i) <= read
  BY <1>1, Zenon DEF HasChunks
<1>7. At(session, k, i) = session.starts[k + 1]
  <2>1. i \in 0..Len(session.msgs[k].ends)
    BY <1>1, Zenon DEF HasChunks
  <2>2. At(session, k, Len(session.msgs[k].ends)) = session.starts[k + 1]
    BY <1>1, <2>1, PlaceIn
  <2> QED BY <2>2
<1>8. session.starts[k + 1] = read
  <2>1. session.starts[k + 1] \in Nat
    BY <1>1, Shape
  <2> QED BY <1>1, <1>5, <1>6, <1>7, <2>1
<1>9. Wire(session, read, read) = <<>>
  BY <1>1, WireEmpty
<1>10. read <= read
  BY <1>1
<1>11. Untouched(session, k + 1, read, <<>>)
  BY <1>8, <1>9, <1>10, Zenon DEF Untouched
<1>12. ~(k + 1 <= sent)
  BY <1>1, <1>4
<1> QED BY <1>1, <1>11, <1>12, Zenon DEF Size

\* The user gets the chunks, and the request after the last one; nothing is lost
\* behind it as nothing was sent there yet.
LEMMA StepChunks ==
  ASSUME IInv, Careful(session), NEW delete \in session.deletes, Chunks(delete)
  PROVE  IInv'
<1>1. Peer /\ Handler /\ Buffer /\ InOrder /\ ClosesForClose
  BY Zenon DEF IInv
<1>2. /\ Running /\ stage = "chunks" /\ (zero \/ ~WholeChunk(rbuf, 1 + collapsed))
      /\ body_len' = (IF delete THEN 0 ELSE collapsed)
      /\ zero => /\ events' = Append(events, Handed("request", taken \o SubSeq(rbuf, 2, 1 + collapsed)))
                 /\ taken' = <<>> /\ rbuf' = <<>>
      /\ ~zero /\ delete => /\ taken' = taken \o SubSeq(rbuf, 2, 1 + collapsed)
                            /\ rbuf' = SubSeq(rbuf, 1, 1) \o SubSeq(rbuf, collapsed + 2, Len(rbuf))
                            /\ events' = events
      /\ ~zero /\ ~delete => events' = events /\ taken' = taken /\ rbuf' = rbuf
      /\ stage' = "idle" /\ sent' = sent /\ out' = out /\ ended' = ended /\ session' = session /\ read' = read
      /\ collapsed' = collapsed /\ zero' = zero
      /\ proto' = proto /\ closing' = closing /\ fault' = fault
  BY DEF Chunks, Collapsed, local, peer, BodyLeft
<1>3. PICK i, k, u, c : IsChunking(i, k, u, c)
  BY <1>1, <1>2, Chunking
<1>4. /\ proto = "http" /\ HttpBuffer /\ InChunks(i) /\ IsCounted(i, k, u, c)
      /\ collapsed = c /\ (zero <=> i = Len(session.msgs[k].ends)) /\ Now <= sent
      /\ k = Now /\ read \in Nat /\ c = u - Len(taken) /\ c \in Nat /\ c <= read /\ u \in Nat
      /\ u = Upto(session.msgs[k], i) /\ k \in 1..Len(session.msgs)
      /\ session.msgs[k].kind = "chunked" /\ session \in Sessions
      /\ HasChunks(session, k, i, Len(taken), read, rbuf)
  BY <1>3, Zenon DEF IsChunking, IsCounted
<1>5. PICK d, e : /\ IsBody(rbuf, c, d, e) /\ HasChunks(session, k, i, u, read, e)
                  /\ d \in Seq(Letters) /\ taken \o d = Payload(session.msgs[k], k, 0, u)
                  /\ Payload(session.msgs[k], k, 0, u) \in Seq(Letters)
                  /\ Len(Payload(session.msgs[k], k, 0, u)) = u
  <2>1. PICK d, e : IsTakenBody(i, k, u, c, d, e)
    BY <1>4, TakenBody
  <2> QED BY <2>1, Zenon DEF IsTakenBody
<1>6. session.ahead # "always"
  <2>1. k \in DOMAIN session.msgs
    BY <1>4, Counts
  <2> QED BY <1>4, <2>1, Zenon DEF Careful
<1>7. SubSeq(rbuf, 2, 1 + collapsed) = d
  BY <1>4, <1>5, Zenon DEF IsBody
<1>8. body_len' \in 0..read
  <2>1. c \in 0..read /\ 0 \in 0..read
    BY <1>4
  <2> QED BY <1>2, <1>4, <2>1
<1>9. stage' = "idle" /\ "idle" # "frames" /\ "idle" # "chunks" /\ stage' \in {"idle", "parse", "chunks", "frames"}
  BY <1>2
<1>10. proto' = "http" /\ "http" # "ws" /\ "http" # "closed"
  BY <1>2, <1>4
<1>11. CASE zero
  <2>1. Untouched(session, k + 1, read, <<>>) /\ ~(k + 1 <= sent) /\ u = Size(session.msgs[k])
    BY <1>1, <1>3, <1>4, <1>6, <1>11, ReadAll
  <2>2. PICK h : h = Handed("request", taken \o d)
    OBVIOUS
  <2>3. events' = Append(events, h)
    BY <1>2, <1>7, <1>11, <2>2, Zenon
  <2>4. PICK f : f = Payload(session.msgs[k], k, 0, Size(session.msgs[k]))
    OBVIOUS
  <2>5. f \in Seq(Letters) /\ h = Handed("request", f)
    BY <1>5, <2>1, <2>2, <2>4, Zenon
  <2>6. h.event = "request" /\ h.payload = f /\ h \in Handings
    <3>1. "request" \in Names
      BY DEF Names
    <3> QED BY <2>5, <3>1, HandedIs
  <2>7. IsMessage(session, Now, h)
    <3>1. Expected(session.msgs[k].kind) = "request" /\ "rest" # "request"
      BY <1>4 DEF Expected
    <3> QED BY <1>4, <2>4, <2>6, <3>1, Zenon DEF IsMessage
  <2>8. session.msgs[Now].kind # "close" /\ session.msgs[Now].kind # "upgrade" /\ proto # "closed"
    BY <1>4, <1>10
  <2>9. IsHanded
    BY <1>1, <1>2, <1>4, <2>3, <2>6, <2>7, <2>8, HandOver, Zenon
  <2>10. Handler'
    <3>1. <<>> \in Seq(Letters)
      OBVIOUS
    <3> QED BY <1>1, <1>2, <1>8, <1>9, <1>11, <3>1, Zenon DEF Handler
  <2>11. Fresh'
    <3>1. CASE delete
      BY <1>2, <3>1, Zenon DEF Fresh
    <3>2. CASE ~delete
      <4>1. ASSUME session.deletes = {TRUE} PROVE FALSE
        <5>1. delete \in {TRUE}
          BY <4>1, Zenon
        <5>2. delete = TRUE
          BY <5>1, Zenon
        <5> QED BY <3>2, <5>2, Zenon
      <4>2. k \in 1..Len(events')
        <5>1. Len(session.msgs) \in Nat
          BY <1>4, Counts
        <5>2. k \in 1..k
          BY <1>4, <5>1
        <5> QED BY <1>4, <2>9, <5>2, Zenon DEF IsHanded
      <4> QED BY <1>2, <1>4, <4>1, <4>2, Zenon DEF Fresh
    <3> QED BY <3>1, <3>2
  <2>12. Start'
    BY <1>2, <1>4, <1>11, <2>1, <2>9, Zenon DEF Start, IsHanded
  <2>13. \A j \in 1..Len(events') : session'.msgs[j].kind # "upgrade"
    BY <1>2, <1>4, <2>8, <2>9, Zenon DEF HttpBuffer, IsHanded
  <2>14. HttpBuffer'
    BY <1>2, <1>9, <1>11, <2>11, <2>12, <2>13, Zenon DEF HttpBuffer
  <2>15. Buffer'
    BY <1>10, <2>14, Zenon DEF Buffer
  <2>16. Waiting'
    <3>1. ~(Now' <= sent')
      <4>1. Now' = k + 1
        BY <1>4, <2>9, Zenon DEF IsHanded
      <4> QED BY <1>2, <2>1, <4>1, Zenon
    <3> QED BY <3>1, Zenon DEF Waiting
  <2> QED BY <2>9, <2>10, <2>15, <2>16, Zenon DEF IInv, IsHanded
<1>12. CASE ~zero
  <2>1. events' = events
    BY <1>2, <1>12, Zenon
  <2>2. Peer' /\ Now' = Now
    BY <1>1, <1>2, <2>1, KeepPeer
  <2>3. read < session.starts[k + 1]
    <3>1. ~WholeChunk(rbuf, 1 + c) /\ i # Len(session.msgs[k].ends)
      BY <1>2, <1>4, <1>12, Zenon
    <3> QED BY <1>4, <3>1, Missing
  <2>4. Waiting'
    <3>1. read' < session'.starts[Now' + 1]
      BY <1>2, <1>4, <2>2, <2>3, Zenon
    <3> QED BY <3>1, Zenon DEF Waiting
  <2>5. InOrder'
    BY <1>1, <1>2, <2>1, KeepOrder
  <2>6. ClosesForClose'
    <3>1. read <= read
      BY <1>4
    <3> QED BY <1>1, <1>2, <1>4, <2>1, <3>1, KeepClose
  <2>7. CASE delete
    <3>1. PICK f : f = Payload(session.msgs[k], k, 0, u)
      OBVIOUS
    <3>2. taken' = f /\ f \in Seq(Letters) /\ Len(f) = u
      BY <1>2, <1>5, <1>7, <1>12, <2>7, <3>1, Zenon
    <3>3. rbuf' = e
      <4>1. c + 2 = collapsed + 2
        BY <1>4
      <4> QED BY <1>2, <1>4, <1>5, <1>12, <2>7, Zenon DEF IsBody
    <3>4. body_len' = 0 /\ u - u = 0 /\ 0 <= 0
      BY <1>2, <1>4, <2>7
    <3>5. Handler'
      BY <1>1, <1>2, <1>8, <1>9, <3>2, Zenon DEF Handler
    <3>6. /\ Now' <= sent' /\ session'.msgs[Now'].kind = "chunked"
          /\ HasChunks(session', Now', i, Len(taken'), read', rbuf')
          /\ taken' = Payload(session'.msgs[Now'], Now', 0, Len(taken'))
          /\ body_len' <= Upto(session'.msgs[Now'], i) - Len(taken')
          /\ body_len' = Upto(session'.msgs[Now'], i) - Len(taken')
          /\ i # Len(session'.msgs[Now'].ends)
      BY <1>2, <1>4, <1>5, <1>12, <2>2, <3>1, <3>2, <3>3, <3>4, Zenon
    <3>7. InChunks(i)'
      BY <1>9, <3>6, Zenon DEF InChunks
    <3>8. HttpBuffer'
      BY <1>2, <1>4, <1>9, <2>1, <3>7, Zenon DEF HttpBuffer
    <3>9. Buffer'
      BY <1>10, <3>8, Zenon DEF Buffer
    <3> QED BY <2>2, <2>4, <2>5, <2>6, <3>5, <3>9, Zenon DEF IInv
  <2>8. CASE ~delete
    <3>1. taken' = taken /\ rbuf' = rbuf /\ body_len' = c /\ c <= c
      BY <1>2, <1>4, <1>12, <2>8
    <3>2. Handler'
      BY <1>1, <1>2, <1>8, <1>9, <3>1, Zenon DEF Handler
    <3>3. taken = Payload(session.msgs[k], k, 0, Len(taken))
      BY <1>4, Zenon DEF IsCounted
    <3>4. /\ Now' <= sent' /\ session'.msgs[Now'].kind = "chunked"
          /\ HasChunks(session', Now', i, Len(taken'), read', rbuf')
          /\ taken' = Payload(session'.msgs[Now'], Now', 0, Len(taken'))
          /\ body_len' <= Upto(session'.msgs[Now'], i) - Len(taken')
          /\ body_len' = Upto(session'.msgs[Now'], i) - Len(taken')
          /\ i # Len(session'.msgs[Now'].ends)
      BY <1>2, <1>4, <1>12, <2>2, <3>1, <3>3, Zenon
    <3>5. InChunks(i)'
      BY <1>9, <3>4, Zenon DEF InChunks
    <3>6. HttpBuffer'
      BY <1>2, <1>4, <1>9, <2>1, <3>5, Zenon DEF HttpBuffer
    <3>7. Buffer'
      BY <1>10, <3>6, Zenon DEF Buffer
    <3> QED BY <2>2, <2>4, <2>5, <2>6, <3>2, <3>7, Zenon DEF IInv
  <2> QED BY <2>7, <2>8
<1> QED BY <1>11, <1>12

\* What the handler knows when it looks for frames.
IsFraming == proto = "ws" /\ WsBuffer /\ session \in Sessions /\ Reach(session, read) /\ read \in Nat

\* It knows that.
LEMMA Framing ==
  ASSUME Peer, Handler, Buffer, Running, stage = "frames"
  PROVE  IsFraming
<1>1. proto = "ws"
  <2>1. proto \in {"http", "ws", "closed"}
    BY Zenon DEF Handler
  <2>2. proto # "http"
    BY Zenon DEF Buffer, HttpBuffer
  <2>3. proto # "closed"
    BY Zenon DEF Running
  <2> QED BY <2>1, <2>2, <2>3
<1>2. Reach(session, read) /\ read \in Nat
  BY Placed, Zenon DEF IsPlaced
<1> QED BY <1>1, <1>2, Zenon DEF IsFraming, Peer, Buffer

\* Fragments up to i of the message k that comes next.
AtFragment(k, i) ==
    /\ k \in 1..Len(session.msgs) /\ k = Now /\ session.msgs[k].kind \in Data
    /\ HasFrames(session, k, i, read, rbuf)

\* The message that comes next is the one whose fragments are there.
LEMMA FramesNow ==
  ASSUME Peer, IsFraming, Now <= sent
  PROVE  \E k, i : AtFragment(k, i)
<1>1. WsBuffer /\ session \in Sessions /\ Reach(session, read)
  BY Zenon DEF IsFraming
<1>2. PICK k \in 1..Len(session.msgs) : k = Now /\ session.msgs[k].kind \in Data
  BY <1>1, WsNow
<1>3. CASE Start
  <2>1. Untouched(session, k, read, rbuf)
    BY <1>2, <1>3, Zenon DEF Start
  <2>2. HasFrames(session, k, 0, read, rbuf)
    BY <1>1, <1>2, <2>1, FirstFrames
  <2> QED BY <1>2, <2>2, Zenon DEF AtFragment
<1>4. CASE InFrames
  BY <1>2, <1>4, Zenon DEF AtFragment, InFrames
<1> QED BY <1>1, <1>3, <1>4, Zenon DEF WsBuffer

\* There is no frame where nothing was sent.
LEMMA FrameSent ==
  ASSUME Peer, IsFraming, WholeFrame(rbuf)
  PROVE  Now <= sent
<1>1. WsBuffer /\ session \in Sessions /\ Reach(session, read) /\ read \in Nat
  BY Zenon DEF IsFraming
<1>2. session.starts[Now] \in Nat /\ (session.starts[Now] < read => Now <= sent)
  BY Placed, Zenon DEF IsPlaced
<1>3. ASSUME Start, ~(session.starts[Now] < read) PROVE FALSE
  <2>1. session.starts[Now] <= read /\ rbuf = Wire(session, session.starts[Now], read)
    BY <1>3, Zenon DEF Start, Untouched
  <2>2. session.starts[Now] = read
    BY <1>1, <1>2, <1>3, <2>1
  <2>3. Wire(session, read, read) = <<>>
    BY <1>1, WireEmpty
  <2>4. rbuf = <<>>
    BY <2>1, <2>2, <2>3, Zenon
  <2>5. Len(rbuf) = 0
    BY <2>4
  <2>6. Reassembled(rbuf) = 0
    BY <2>5 DEF Reassembled
  <2> QED BY <2>5, <2>6 DEF WholeFrame
<1> QED BY <1>1, <1>2, <1>3, Zenon DEF WsBuffer, InFrames

\* A payload is a sequence of bytes.
LEMMA PayloadIn ==
  ASSUME NEW s \in Sessions, NEW k \in 1..Len(s.msgs)
  PROVE  Payload(s.msgs[k], k, 0, Size(s.msgs[k])) \in Seq(Letters)
<1>1. PICK n \in 0..Len(s.msgs[k].ends) : n = Len(s.msgs[k].ends)
  <2>1. Len(s.msgs[k].ends) \in Nat
    BY Upward
  <2> QED BY <2>1
<1>2. PICK u, d : IsPart(s, k, n, u, d)
  BY UptoIn
<1> QED BY <1>1, <1>2, Zenon DEF IsPart, Size

\* A frame has an event.
LEMMA EventIn ==
  ASSUME NEW b
  PROVE  Event(b) \in Names
<1>1. "control" \in Names /\ "frame" \in Names
  BY DEF Names
<1> QED BY <1>1, Zenon DEF Event

\* The event of a message in frames.
LEMMA ExpectedFrame ==
  ASSUME NEW kind \in Data
  PROVE  Expected(kind) # "rest" /\ (kind = "text" => Expected(kind) = "frame")
<1>1. CASE kind = "text"
  BY <1>1 DEF Expected
<1>2. CASE kind \in {"ping", "close"}
  BY <1>2 DEF Expected
<1> QED BY <1>1, <1>2 DEF Data

\* The byte of a close frame that was read is the reason to close.
LEMMA CloseRead ==
  ASSUME read \in Nat, NEW q \in 1..read, NEW o, NEW kind, Byte(session, q)[1] = kind, Byte(session, q)[2] = o
  PROVE  o \in Received(kind)
BY DEF Received

\* The opcode of a close frame is a reason to close ...
LEMMA CloseReason ==
  ASSUME read \in Nat, \E q \in 1..read : Byte(session, q)[1] = "op" /\ Byte(session, q)[2] = 136
  PROVE  Reason
<1>1. 136 \in Received("op")
  BY CloseRead
<1>2. Fin + Opcode.close = 136
  BY DEF Fin, Opcode
<1> QED BY <1>1, <1>2, ZenonT(30) DEF Reason

\* ... and so is a byte that reads like it, behind fragments.
LEMMA SeenReason ==
  ASSUME read \in Nat, NEW k, \E q \in 1..read : Byte(session, q) = <<"op", 1, k>>,
         NEW c, IsSeen(session, read, c), IsClose(c)
  PROVE  Reason
<1>1. PICK q \in 1..read : c = Byte(session, q)
  BY Zenon DEF IsSeen
<1>2. c[2] % 16 = 8
  BY DEF IsClose, Opcode
<1>3. (c[1] = "op" /\ c[2] = 136) \/ c[1] = "byte" \/ c[1] = "len"
  <2>1. IsCloseLike(c)
    BY Zenon DEF IsSeen
  <2> QED BY <1>2, <2>1 DEF IsCloseLike
<1>4. CASE c[1] = "op" /\ c[2] = 136
  BY <1>1, <1>4, CloseReason
<1>5. CASE c[1] = "byte" \/ c[1] = "len"
  <2>1. c[2] \in Received("byte") \cup Received("len")
    <3>1. c[1] = "byte" => c[2] \in Received("byte")
      BY <1>1, CloseRead
    <3>2. c[1] = "len" => c[2] \in Received("len")
      BY <1>1, CloseRead
    <3> QED BY <1>5, <3>1, <3>2
  <2>2. PICK g \in 1..read : Byte(session, g) = <<"op", 1, k>>
    OBVIOUS
  <2>3. Byte(session, g)[1] = "op" /\ Byte(session, g)[2] = 1
    BY <2>2
  <2>4. 1 \in Received("op")
    BY <2>3, CloseRead
  <2>5. First(1)
    BY DEF First, Fin
  <2>6. \E b \in Received("byte") \cup Received("len") : b % 16 = Opcode.close
    BY <1>2, <2>1 DEF Opcode
  <2> QED BY <2>4, <2>5, <2>6, Zenon DEF Reason
<1> QED BY <1>3, <1>4, <1>5

\* A fragment may close the connection, for such a reason.
LEMMA MoreClose ==
  ASSUME ClosesForClose, UNCHANGED <<session, events, read>>, read \in Nat,
         closing => closing', closing' => closing \/ Reason
  PROVE  ClosesForClose'
<1>1. closing' => Reason
  BY Zenon DEF ClosesForClose, Reason
<1>2. closing' => Reason'
  <2>1. read <= read'
    OBVIOUS
  <2>2. read' \in Nat
    OBVIOUS
  <2> QED BY <1>1, <2>1, <2>2, StillReason
<1>3. \A i \in DOMAIN events' :
          session'.msgs[i].kind = "close" /\ events'[i].event = "control" => closing'
  BY DEF ClosesForClose, msgs
<1> QED BY <1>2, <1>3, Zenon DEF ClosesForClose, Reason, msgs

\* A frame is handed over; if it was a close frame, its opcode is still at the head
\* of the memory.
LEMMA StepWhole ==
  ASSUME IInv, Whole
  PROVE  IInv'
<1>1. Peer /\ Handler /\ Buffer /\ InOrder /\ ClosesForClose
  BY Zenon DEF IInv
<1>2. PICK end : end = DataEnd(rbuf, 0)
  OBVIOUS
<1>3. PICK data : data = SubSeq(rbuf, 7, end)
  OBVIOUS
<1>4. PICK rest : rest = SubSeq(rbuf, end + 1, Len(rbuf))
  OBVIOUS
<1>5. PICK c : c = Over(rest, rbuf)[1]
  OBVIOUS
<1>6. /\ Running /\ stage = "frames" /\ WholeFrame(rbuf) /\ 0 = Reassembled(rbuf) /\ ~Fragment(rbuf[1][2])
      /\ rbuf' = rest /\ events' = Append(events, Handed(Event(rbuf[1]), data))
      /\ CloseToo(c)
      /\ stage' = stage /\ sent' = sent /\ out' = out /\ ended' = ended /\ session' = session /\ read' = read
      /\ collapsed' = collapsed /\ zero' = zero
      /\ body_len' = body_len /\ proto' = proto /\ taken' = taken /\ fault' = fault
  BY <1>2, <1>3, <1>4, <1>5 DEF Whole, FrameAt, local, peer
<1>7. IsFraming
  BY <1>1, <1>6, Framing
<1>8. proto = "ws" /\ WsBuffer /\ session \in Sessions /\ Reach(session, read) /\ read \in Nat
  BY <1>7, Zenon DEF IsFraming
<1>9. Now <= sent
  BY <1>1, <1>6, <1>7, FrameSent
<1>10. PICK k, i : AtFragment(k, i)
  BY <1>1, <1>7, <1>9, FramesNow
<1>11. k \in 1..Len(session.msgs) /\ k = Now /\ session.msgs[k].kind \in Data /\ HasFrames(session, k, i, read, rbuf)
  BY <1>10, Zenon DEF AtFragment
<1>12. AtWhole(rbuf, end, data, rest, c)
  BY <1>2, <1>3, <1>4, <1>5, Zenon DEF AtWhole
<1>13. IsWholeStep(session, k, read, rbuf, data, rest, c)
  <2>1. Reassembled(rbuf) = 0
    BY <1>6
  <2> QED BY <1>6, <1>8, <1>11, <1>12, <2>1, WholeStep
<1>14. PICK h : h = Handed(Event(rbuf[1]), data)
  OBVIOUS
<1>15. data = Payload(session.msgs[k], k, 0, Size(session.msgs[k])) /\ Untouched(session, k + 1, read, rest)
  BY <1>13, Zenon DEF IsWholeStep
<1>16. h.event = Event(rbuf[1]) /\ h.payload = data /\ h \in Handings
  <2>1. Event(rbuf[1]) \in Names
    BY EventIn
  <2>2. data \in Seq(Letters)
    <3>1. Payload(session.msgs[k], k, 0, Size(session.msgs[k])) \in Seq(Letters)
      BY <1>8, <1>11, PayloadIn
    <3> QED BY <1>15, <3>1, Zenon
  <2> QED BY <1>14, <2>1, <2>2, HandedIs
<1>17. IsMessage(session, Now, h)
  <2>1. Event(rbuf[1]) = Expected(session.msgs[k].kind)
    BY <1>13, Zenon DEF IsWholeStep
  <2>2. Expected(session.msgs[k].kind) # "rest"
    BY <1>11, ExpectedFrame
  <2> QED BY <1>11, <1>15, <1>16, <2>1, <2>2, Zenon DEF IsMessage
<1>18. /\ closing \in BOOLEAN /\ closing' = (closing \/ IsClose(c))
       /\ IsClose(c) \in BOOLEAN
  BY <1>1, <1>6, Zenon DEF CloseToo, Handler, IsClose
<1>19. IsClose(c) => Reason
  <2>1. ASSUME IsClose(c) PROVE \E q \in 1..read : Byte(session, q)[1] = "op" /\ Byte(session, q)[2] = 136
    BY <1>13, <2>1, Zenon DEF IsWholeStep
  <2> QED BY <1>8, <2>1, CloseReason
<1>20. /\ closing => closing'
       /\ closing' => closing \/ Reason
       /\ session.msgs[Now].kind = "close" => closing'
       /\ closing' \in BOOLEAN
  BY <1>11, <1>13, <1>18, <1>19, Zenon DEF IsWholeStep
<1>21. IsHanded
  <2>1. events' = Append(events, h) /\ proto # "closed"
    BY <1>6, <1>8, <1>14
  <2> QED BY <1>1, <1>6, <1>9, <1>16, <1>17, <1>20, <2>1, HandOver, Zenon
<1>22. Handler'
  BY <1>1, <1>6, <1>20, Zenon DEF Handler
<1>23. Buffer'
  <2>1. \E j \in 1..Len(events') : session'.msgs[j].kind = "upgrade"
    BY <1>6, <1>8, <1>21, Zenon DEF WsBuffer, IsHanded
  <2>2. Start'
    BY <1>6, <1>11, <1>15, <1>21, Zenon DEF Start, IsHanded
  <2>3. stage' \in {"idle", "frames"} /\ proto' = "ws" /\ "ws" # "http" /\ "ws" # "closed"
    BY <1>6, <1>8
  <2>4. WsBuffer'
    BY <2>1, <2>2, <2>3, Zenon DEF WsBuffer
  <2> QED BY <2>3, <2>4, Zenon DEF Buffer
<1>24. Waiting'
  <2>1. stage' # "idle"
    BY <1>6
  <2> QED BY <2>1, Zenon DEF Waiting
<1> QED BY <1>21, <1>22, <1>23, <1>24, Zenon DEF IInv, IsHanded

\* The first fragment of a message: nothing is left to keep.
LEMMA StepMoved ==
  ASSUME IInv, Moved
  PROVE  IInv'
<1>1. Peer /\ Handler /\ Buffer /\ InOrder /\ ClosesForClose
  BY Zenon DEF IInv
<1>2. /\ fault' = "moved"
      /\ stage' = stage /\ sent' = sent /\ out' = out /\ ended' = ended /\ session' = session /\ read' = read
      /\ collapsed' = collapsed /\ zero' = zero /\ rbuf' = rbuf /\ events' = events /\ closing' = closing
      /\ body_len' = body_len /\ proto' = proto /\ taken' = taken
  BY DEF Moved, local, peer
<1>3. sent \in Nat /\ read \in Nat /\ Now \in Nat /\ read <= read /\ sent <= sent
  <2>1. session \in Sessions /\ sent \in 0..Len(session.msgs) /\ read \in Nat
    BY Zenon, <1>1 DEF Peer
  <2>2. Now \in Nat
    BY <1>1, Placed, Zenon DEF IsPlaced
  <2> QED BY <2>1, <2>2
<1>4. Peer' /\ Now' = Now
  BY <1>1, <1>2, KeepPeer
<1>5. Handler'
  <2>1. fault' \in {"none", "moved"}
    BY <1>2
  <2> QED BY <1>1, <1>2, <2>1, Zenon DEF Handler
<1>6. Buffer'
  BY <1>1, <1>2, <1>3, <1>4, KeepBuffer
<1>7. Waiting'
  <2>1. fault' # "none"
    BY <1>2
  <2> QED BY <2>1, Zenon DEF Waiting, Running
<1>8. InOrder'
  BY <1>1, <1>2, KeepOrder
<1>9. ClosesForClose'
  BY <1>1, <1>2, <1>3, KeepClose
<1> QED BY <1>4, <1>5, <1>6, <1>7, <1>8, <1>9, Zenon DEF IInv

\* A frame that is not whole is not all there, and neither is the message.
LEMMA MissingFrame ==
  ASSUME IsFraming, NEW k, NEW i, AtFragment(k, i), ~WholeFrame(rbuf)
  PROVE  read < session.starts[k + 1]
<1>1. /\ session \in Sessions /\ Reach(session, read) /\ read \in Nat
      /\ k \in 1..Len(session.msgs) /\ session.msgs[k].kind \in Data /\ HasFrames(session, k, i, read, rbuf)
  BY Zenon DEF AtFragment, IsFraming
<1>2. PICK j \in 1..Len(session.msgs[k].ends) : i = j - 1
  <2>1. Len(session.msgs[k].ends) \in Nat
    BY <1>1, Upward
  <2>2. i \in 0..(Len(session.msgs[k].ends) - 1)
    BY <1>1, Zenon DEF HasFrames
  <2>3. i + 1 \in 1..Len(session.msgs[k].ends) /\ i = (i + 1) - 1
    BY <2>1, <2>2
  <2> QED BY <2>3
<1>3. ASSUME At(session, k, j) <= read PROVE FALSE
  <2>1. \E x, off, v, n, d, w, z : IsTaken(session, k, i, j, read, rbuf, x, off, v, n, d, w, z)
    BY <1>1, <1>2, <1>3, FrameTaken
  <2> QED BY <2>1, Zenon DEF IsTaken
<1>4. At(session, k, j) \in Nat /\ At(session, k, j) <= session.starts[k + 1]
  <2>1. j \in 0..Len(session.msgs[k].ends)
    BY <1>2
  <2> QED BY <1>1, <2>1, PlaceIn
<1>5. session.starts[k + 1] \in Nat
  BY <1>1, Shape
<1> QED BY <1>1, <1>3, <1>4, <1>5

\* No frame is whole, the rest is to be read.
LEMMA StepNoFrame ==
  ASSUME IInv, NoFrame
  PROVE  IInv'
<1>1. Peer /\ Handler /\ Buffer /\ InOrder /\ ClosesForClose
  BY Zenon DEF IInv
<1>2. /\ Running /\ stage = "frames" /\ ~WholeFrame(rbuf)
      /\ stage' = "idle" /\ sent' = sent /\ out' = out /\ ended' = ended /\ session' = session /\ read' = read
      /\ collapsed' = collapsed /\ zero' = zero /\ rbuf' = rbuf /\ events' = events /\ closing' = closing
      /\ body_len' = body_len /\ proto' = proto /\ taken' = taken /\ fault' = fault
  BY DEF NoFrame, local, peer, handled
<1>3. IsFraming
  BY <1>1, <1>2, Framing
<1>4. proto = "ws" /\ WsBuffer /\ read \in Nat /\ read <= read
  <2>1. proto = "ws" /\ WsBuffer /\ read \in Nat
    BY <1>3, Zenon DEF IsFraming
  <2> QED BY <2>1
<1>5. Peer' /\ Now' = Now
  BY <1>1, <1>2, KeepPeer
<1>6. Handler'
  <2>1. stage' \in {"idle", "parse", "chunks", "frames"}
    BY <1>2
  <2> QED BY <1>1, <1>2, <2>1, Zenon DEF Handler
<1>7. Buffer'
  <2>1. stage' \in {"idle", "frames"} /\ proto' = "ws" /\ "ws" # "http" /\ "ws" # "closed"
    BY <1>2, <1>4
  <2>2. Start => Start'
    BY <1>2, <1>5, Zenon DEF Start
  <2>3. InFrames => InFrames'
    BY <1>2, <1>5, Zenon DEF InFrames
  <2>4. WsBuffer'
    BY <1>2, <1>4, <2>1, <2>2, <2>3, Zenon DEF WsBuffer
  <2> QED BY <2>1, <2>4, Zenon DEF Buffer
<1>8. Waiting'
  <2>1. ASSUME Now <= sent PROVE read < session.starts[Now + 1]
    <3>1. PICK k, i : AtFragment(k, i)
      BY <1>1, <1>3, <2>1, FramesNow
    <3>2. read < session.starts[k + 1]
      BY <1>2, <1>3, <3>1, MissingFrame
    <3> QED BY <3>1, <3>2, Zenon DEF AtFragment
  <2> QED BY <1>2, <1>5, <2>1, Zenon DEF Waiting
<1>9. InOrder'
  BY <1>1, <1>2, KeepOrder
<1>10. ClosesForClose'
  BY <1>1, <1>2, <1>4, KeepClose
<1> QED BY <1>5, <1>6, <1>7, <1>8, <1>9, <1>10, Zenon DEF IInv

\* A fragment is joined to the others; the last hands the message over.
LEMMA StepJoin ==
  ASSUME IInv, NEW off \in 0..Len(rbuf), Join(off)
  PROVE  IInv'
<1>1. Peer /\ Handler /\ Buffer /\ InOrder /\ ClosesForClose
  BY Zenon DEF IInv
<1>2. PICK op : op = rbuf[off + 1][2]
  OBVIOUS
<1>3. PICK end : end = DataEnd(rbuf, off)
  OBVIOUS
<1>4. PICK whole : whole = SubSeq(rbuf, 6, off) \o SubSeq(rbuf, off + 7, end)
  OBVIOUS
<1>5. PICK rest : rest = SubSeq(rbuf, end + 1, Len(rbuf))
  OBVIOUS
<1>6. PICK kept : kept = <<<<"op", 0, rbuf[1][3]>>>> \o Cell(Len(whole)) \o whole \o rest
  OBVIOUS
<1>7. PICK now : now = Over(kept, rbuf)
  OBVIOUS
<1>8. PICK at : at = (IF off = 0 THEN 5 ELSE off) + 1
  OBVIOUS
<1>9. /\ Running /\ stage = "frames" /\ WholeFrame(rbuf) /\ off = Reassembled(rbuf) /\ Fragment(rbuf[1][2])
      /\ IF op < Fin
           THEN rbuf' = kept /\ events' = events /\ CloseToo(now[at])
           ELSE /\ rbuf' = rest
                /\ events' = Append(events, Handed(Event(rbuf[off + 1]), whole))
                /\ CloseToo(Over(rest, now)[at])
      /\ stage' = stage /\ sent' = sent /\ out' = out /\ ended' = ended /\ session' = session /\ read' = read
      /\ collapsed' = collapsed /\ zero' = zero
      /\ body_len' = body_len /\ proto' = proto /\ taken' = taken /\ fault' = fault
  BY <1>2, <1>3, <1>4, <1>5, <1>6, <1>7, <1>8, Zenon DEF Join, FrameAt, local, peer
<1>10. IsFraming
  BY <1>1, <1>9, Framing
<1>11. proto = "ws" /\ WsBuffer /\ session \in Sessions /\ Reach(session, read) /\ read \in Nat
  BY <1>10, Zenon DEF IsFraming
<1>12. Now <= sent
  BY <1>1, <1>9, <1>10, FrameSent
<1>13. PICK k, i : AtFragment(k, i)
  BY <1>1, <1>10, <1>12, FramesNow
<1>14. k \in 1..Len(session.msgs) /\ k = Now /\ session.msgs[k].kind \in Data /\ HasFrames(session, k, i, read, rbuf)
  BY <1>13, Zenon DEF AtFragment
<1>15. AtJoin(rbuf, off, op, end, whole, rest, kept, now, at)
  BY <1>2, <1>3, <1>4, <1>5, <1>6, <1>7, <1>8, <1>9, Zenon DEF AtJoin
<1>16. IsJoinStep(session, k, read, rbuf, off, op, whole, rest, kept, now, at)
  BY <1>9, <1>11, <1>14, <1>15, JoinStep
<1>17. session.msgs[k].kind = "text" /\ \E q \in 1..read : Byte(session, q) = <<"op", 1, k>>
  BY <1>16, Zenon DEF IsJoinStep
<1>18. session.msgs[k].kind # "close"
  BY <1>17
<1>19. stage' # "idle" /\ stage' \in {"idle", "frames"} /\ proto' = "ws" /\ "ws" # "http" /\ "ws" # "closed"
  BY <1>9, <1>11
<1>20. Waiting'
  BY <1>19, Zenon DEF Waiting
<1>21. ASSUME NEW c, IsSeen(session, read, c), CloseToo(c)
       PROVE  closing' \in BOOLEAN /\ (closing => closing') /\ (closing' => closing \/ Reason)
  <2>1. IsClose(c) => Reason
    BY <1>11, <1>17, <1>21, SeenReason
  <2>2. closing' = (closing \/ IsClose(c)) /\ closing \in BOOLEAN
    BY <1>1, <1>21, Zenon DEF CloseToo, Handler
  <2> QED BY <2>1, <2>2, Zenon
<1>22. CASE op < Fin
  <2>1. rbuf' = kept /\ events' = events /\ CloseToo(now[at])
    BY <1>9, <1>22, Zenon
  <2>2. (\E j : HasFrames(session, k, j, read, kept)) /\ IsSeen(session, read, now[at])
    BY <1>16, <1>22, Zenon DEF IsJoinStep
  <2>3. closing' \in BOOLEAN /\ (closing => closing') /\ (closing' => closing \/ Reason)
    BY <1>21, <2>1, <2>2, Zenon
  <2>4. Peer' /\ Now' = Now
    BY <1>1, <1>9, <2>1, KeepPeer
  <2>5. Handler'
    BY <1>1, <1>9, <2>3, Zenon DEF Handler
  <2>6. Buffer'
    <3>1. InFrames'
      BY <1>9, <1>12, <1>14, <2>1, <2>2, <2>4, Zenon DEF InFrames
    <3>2. WsBuffer'
      BY <1>9, <1>11, <1>19, <2>1, <3>1, Zenon DEF WsBuffer
    <3> QED BY <1>19, <3>2, Zenon DEF Buffer
  <2>7. InOrder'
    BY <1>1, <1>9, <2>1, KeepOrder
  <2>8. ClosesForClose'
    BY <1>1, <1>9, <1>11, <2>1, <2>3, MoreClose
  <2> QED BY <1>20, <2>4, <2>5, <2>6, <2>7, <2>8, Zenon DEF IInv
<1>23. CASE ~(op < Fin)
  <2>1. /\ rbuf' = rest
        /\ events' = Append(events, Handed(Event(rbuf[off + 1]), whole))
        /\ CloseToo(Over(rest, now)[at])
    BY <1>9, <1>23, Zenon
  <2>2. /\ whole = Payload(session.msgs[k], k, 0, Size(session.msgs[k])) /\ Untouched(session, k + 1, read, rest)
        /\ Event(rbuf[off + 1]) = "frame" /\ IsSeen(session, read, Over(rest, now)[at])
    BY <1>16, <1>23, Zenon DEF IsJoinStep
  <2>3. closing' \in BOOLEAN /\ (closing => closing') /\ (closing' => closing \/ Reason)
    BY <1>21, <2>1, <2>2, Zenon
  <2>4. PICK h : h = Handed(Event(rbuf[off + 1]), whole)
    OBVIOUS
  <2>5. h.event = Event(rbuf[off + 1]) /\ h.payload = whole /\ h \in Handings
    <3>1. Event(rbuf[off + 1]) \in Names
      BY EventIn
    <3>2. whole \in Seq(Letters)
      <4>1. Payload(session.msgs[k], k, 0, Size(session.msgs[k])) \in Seq(Letters)
        BY <1>11, <1>14, PayloadIn
      <4> QED BY <2>2, <4>1, Zenon
    <3> QED BY <2>4, <3>1, <3>2, HandedIs
  <2>6. IsMessage(session, Now, h)
    <3>1. Expected(session.msgs[k].kind) # "rest" /\ Expected(session.msgs[k].kind) = "frame"
      BY <1>14, <1>17, ExpectedFrame
    <3> QED BY <1>14, <2>2, <2>5, <3>1, Zenon DEF IsMessage
  <2>7. IsHanded
    <3>1. events' = Append(events, h) /\ proto # "closed" /\ session.msgs[Now].kind # "close"
      BY <1>11, <1>14, <1>18, <1>19, <2>1, <2>4, Zenon
    <3> QED BY <1>1, <1>9, <1>12, <2>3, <2>5, <2>6, <3>1, HandOver, Zenon
  <2>8. Handler'
    BY <1>1, <1>9, <2>3, Zenon DEF Handler
  <2>9. Buffer'
    <3>1. \E j \in 1..Len(events') : session'.msgs[j].kind = "upgrade"
      BY <1>9, <1>11, <2>7, Zenon DEF WsBuffer, IsHanded
    <3>2. Start'
      BY <1>9, <1>14, <2>1, <2>2, <2>7, Zenon DEF Start, IsHanded
    <3>3. WsBuffer'
      BY <1>19, <3>1, <3>2, Zenon DEF WsBuffer
    <3> QED BY <1>19, <3>3, Zenon DEF Buffer
  <2> QED BY <1>20, <2>7, <2>8, <2>9, Zenon DEF IInv, IsHanded
<1> QED BY <1>22, <1>23

\* The buffer without its first byte.
LEMMA TailIn ==
  ASSUME NEW b \in Seq(Letters), b # <<>>
  PROVE  Tail(b) \in Seq(Letters)
<1>1. PICK S : S = Letters
  OBVIOUS
<1>2. b \in Seq(S)
  BY <1>1, Zenon
<1>3. Tail(b) \in Seq(S)
  BY <1>2
<1> QED BY <1>1, <1>3, Zenon

\* What is handed over at the end of the connection.
IsRest(h) ==
    /\ h.event = "rest" /\ h \in Handings /\ Now <= sent
    /\ session.msgs[Now].kind = "open" => IsPrefix(h.payload, Payload(session.msgs[Now], Now, 0, Size(session.msgs[Now])))

\* The rest of a request is what was read of it.
LEMMA RestIs ==
  ASSUME Peer, HttpBuffer, rbuf # <<>>, NEW h, h = Handed("rest", Tail(rbuf))
  PROVE  IsRest(h) /\ session.msgs[Now].kind # "close"
<1>1. session \in Sessions /\ Reach(session, read) /\ read \in Nat /\ session.starts[Now] \in Nat
      /\ Now \in 1..(Len(session.msgs) + 1)
  BY Placed, Zenon DEF IsPlaced, Peer
<1>2. ASSUME Start PROVE session.starts[Now] < read
  <2>1. session.starts[Now] <= read /\ rbuf = Wire(session, session.starts[Now], read)
    BY <1>2, Zenon DEF Start, Untouched
  <2>2. ASSUME session.starts[Now] = read PROVE FALSE
    <3>1. Wire(session, read, read) = <<>>
      BY <1>1, WireEmpty
    <3> QED BY <2>1, <2>2, <3>1, Zenon
  <2> QED BY <1>1, <2>1, <2>2
<1>3. Now <= sent
  <2>1. ASSUME Start PROVE Now <= sent
    <3>1. session.starts[Now] < read
      BY <1>2, <2>1
    <3> QED BY <3>1, Placed, Zenon DEF IsPlaced
  <2> QED BY <2>1, Zenon DEF HttpBuffer, InChunks
<1>4. PICK k \in 1..Len(session.msgs) : k = Now /\ session.msgs[k].kind \in Http
  BY <1>3, HttpNow
<1>5. rbuf \in Seq(Letters)
  <2>1. CASE Start
    <3>1. PICK g \in 1..(Len(session.msgs) + 1) : g = Now
      BY <1>1
    <3>2. Untouched(session, g, read, rbuf)
      BY <2>1, <3>1, Zenon DEF Start
    <3>3. Fits(read, rbuf)
      BY <1>1, <3>2, FitsUntouched
    <3> QED BY <3>3, Zenon DEF Fits
  <2>2. CASE \E i : InChunks(i)
    <3>1. PICK i : InChunks(i)
      BY <2>2
    <3>2. session.msgs[k].kind = "chunked" /\ HasChunks(session, k, i, Len(taken), read, rbuf)
      BY <1>4, <3>1, Zenon DEF InChunks
    <3>3. Fits(read, rbuf)
      BY <1>1, <3>2, FitsChunks
    <3> QED BY <3>3, Zenon DEF Fits
  <2> QED BY <2>1, <2>2, Zenon DEF HttpBuffer
<1>6. h.event = "rest" /\ h.payload = Tail(rbuf) /\ h \in Handings
  <2>1. "rest" \in Names
    BY DEF Names
  <2>2. Tail(rbuf) \in Seq(Letters)
    BY <1>5, TailIn
  <2> QED BY <2>1, <2>2, HandedIs
<1>7. ASSUME session.msgs[k].kind = "open"
      PROVE  IsPrefix(Tail(rbuf), Payload(session.msgs[k], k, 0, Size(session.msgs[k])))
  <2>1. Start
    <3>1. ASSUME NEW i, InChunks(i) PROVE FALSE
      <4>1. session.msgs[k].kind = "chunked"
        BY <1>4, <3>1, Zenon DEF InChunks
      <4> QED BY <1>7, <4>1
    <3> QED BY <3>1, Zenon DEF HttpBuffer
  <2>2. Untouched(session, k, read, rbuf) /\ session.starts[k] < read
    BY <1>2, <1>4, <2>1, Zenon DEF Start
  <2>3. k = Len(session.msgs)
    <3>1. Proper(session, k)
      BY <1>1, Shape
    <3>2. session.msgs[k].kind \in {"open", "close"}
      BY <1>7
    <3> QED BY <3>1, <3>2, Zenon DEF Proper
  <2>4. read <= session.starts[k + 1]
    <3>1. read <= session.starts[Len(session.msgs) + 1]
      BY <1>1, Ends
    <3> QED BY <2>3, <3>1, Zenon
  <2> QED BY <1>1, <1>7, <2>2, <2>4, OpenRest
<1>8. session.msgs[k].kind # "close"
  BY <1>4 DEF Http
<1> QED BY <1>3, <1>4, <1>6, <1>7, <1>8, Zenon DEF IsRest

\* It is handed over last.
LEMMA RestOrder ==
  ASSUME Peer, InOrder, proto # "closed", proto' = "closed", NEW h, IsRest(h), events' = Append(events, h),
         session' = session
  PROVE  InOrder'
<1>1. events \in Seq(Handings) /\ Len(events) \in Nat
  BY DEF Peer, Handings
<1>2. h \in Handings /\ h.event = "rest"
  BY Zenon DEF IsRest
<1>3. /\ DOMAIN events' = 1..(Len(events) + 1) /\ events'[Len(events) + 1] = h
      /\ Len(events') = Len(events) + 1
      /\ \A i \in 1..Len(events) : events'[i] = events[i]
  BY <1>1, <1>2
<1>4. Now = Len(events) + 1
  BY DEF Now
<1>5. ASSUME NEW i \in DOMAIN events'
      PROVE  IF events'[i].event = "rest"
               THEN /\ proto' = "closed" /\ i = Len(events')
                    /\ session.msgs[i].kind = "open" =>
                          IsPrefix(events'[i].payload, Payload(session.msgs[i], i, 0, Size(session.msgs[i])))
               ELSE /\ events'[i].event = Expected(session.msgs[i].kind)
                    /\ events'[i].payload = Payload(session.msgs[i], i, 0, Size(session.msgs[i]))
  <2>1. CASE i \in 1..Len(events)
    <3>1. i \in DOMAIN events /\ events'[i] = events[i]
      BY <1>1, <1>3, <2>1
    <3>2. events[i].event # "rest"
      BY <3>1, Zenon DEF InOrder
    <3>3. /\ events[i].event = Expected(session.msgs[i].kind)
          /\ events[i].payload = Payload(session.msgs[i], i, 0, Size(session.msgs[i]))
      BY <3>1, <3>2, Zenon DEF InOrder, Sent, msgs
    <3> QED BY <3>1, <3>2, <3>3, Zenon
  <2>2. CASE i = Now
    <3>1. events'[i] = h /\ i = Len(events')
      BY <1>3, <1>4, <2>2, Zenon
    <3> QED BY <1>2, <2>2, <3>1, Zenon DEF IsRest
  <2>3. i \in 1..Len(events) \/ i = Now
    BY <1>1, <1>3, <1>4
  <2> QED BY <2>1, <2>2, <2>3
<1> QED BY <1>5, Zenon DEF InOrder, Sent, msgs

\* The connection ends, the rest of a request goes to the user.
LEMMA StepClose ==
  ASSUME IInv, Close
  PROVE  IInv'
<1>1. Peer /\ Handler /\ Buffer /\ InOrder /\ ClosesForClose
  BY Zenon DEF IInv
<1>2. /\ proto # "closed" /\ proto' = "closed" /\ rbuf' = <<>>
      /\ events' = (IF proto = "http" /\ rbuf # <<>> THEN Append(events, Handed("rest", Tail(rbuf))) ELSE events)
      /\ stage' = stage /\ sent' = sent /\ out' = out /\ ended' = ended /\ session' = session /\ read' = read
      /\ collapsed' = collapsed /\ zero' = zero /\ closing' = closing
      /\ body_len' = body_len /\ taken' = taken /\ fault' = fault
  BY DEF Close, Running, local, peer
<1>3. Handler'
  <2>1. proto' \in {"http", "ws", "closed"}
    BY <1>2
  <2> QED BY <1>1, <1>2, <2>1, Zenon DEF Handler
<1>4. Buffer'
  <2>1. proto' # "http" /\ proto' # "ws"
    BY <1>2
  <2> QED BY <1>2, <2>1, Zenon DEF Buffer
<1>5. Waiting'
  BY <1>2, Zenon DEF Waiting, Running
<1>6. CASE proto = "http" /\ rbuf # <<>>
  <2>1. PICK h : h = Handed("rest", Tail(rbuf))
    OBVIOUS
  <2>2. events' = Append(events, h)
    BY <1>2, <1>6, <2>1, Zenon
  <2>3. HttpBuffer
    BY <1>1, <1>6, Zenon DEF Buffer
  <2>4. IsRest(h) /\ session.msgs[Now].kind # "close"
    BY <1>1, <1>6, <2>1, <2>3, RestIs
  <2>5. h \in Handings /\ Now <= sent
    BY <2>4, Zenon DEF IsRest
  <2>6. Peer'
    BY <1>1, <1>2, <2>2, <2>5, HandPeer
  <2>7. InOrder'
    BY <1>1, <1>2, <2>2, <2>4, RestOrder
  <2>8. ClosesForClose'
    BY <1>1, <1>2, <2>2, <2>4, HandClose
  <2> QED BY <1>3, <1>4, <1>5, <2>6, <2>7, <2>8, Zenon DEF IInv
<1>7. CASE ~(proto = "http" /\ rbuf # <<>>)
  <2>1. events' = events
    BY <1>2, <1>7, Zenon
  <2>2. Peer'
    BY <1>1, <1>2, <2>1, KeepPeer
  <2>3. InOrder'
    <3>1. ASSUME NEW i \in DOMAIN events
          PROVE  /\ events[i].event # "rest" /\ events[i].event = Expected(session.msgs[i].kind)
                 /\ events[i].payload = Payload(session.msgs[i], i, 0, Size(session.msgs[i]))
      <4>1. events[i].event # "rest"
        BY <1>1, <1>2, <3>1, Zenon DEF InOrder
      <4> QED BY <1>1, <3>1, <4>1, Zenon DEF InOrder, Sent, msgs
    <3> QED BY <1>2, <2>1, <3>1, Zenon DEF InOrder, Sent, msgs
  <2>4. ClosesForClose'
    <3>1. read \in Nat
      BY <1>1, Zenon DEF Peer
    <3>2. read <= read'
      BY <1>2, <3>1
    <3> QED BY <1>1, <1>2, <2>1, <3>1, <3>2, KeepClose
  <2> QED BY <1>3, <1>4, <1>5, <2>2, <2>3, <2>4, Zenon DEF IInv
<1> QED BY <1>6, <1>7

----------------------------------------------------------------------------
\* The theorems.

\* The invariant is inductive.
LEMMA NextIInv ==
  ASSUME \A s \in Sessions : Careful(s), IInv, [Next]_vars
  PROVE  IInv'
<1>1. Careful(session)
  BY Zenon DEF IInv, Peer
<1>2. CASE Send
  BY <1>2, StepSend
<1>3. CASE \E n \in read..out : End(n)
  BY <1>3, StepEnd
<1>4. CASE \E n \in (read + 1)..out : Recv(n)
  BY <1>4, StepRecv
<1>5. CASE Deliver
  BY <1>5, StepDeliver
<1>6. CASE Incomplete
  BY <1>6, StepIncomplete
<1>7. CASE Upgrade
  BY <1>7, StepUpgrade
<1>8. CASE StartChunks
  BY <1>1, <1>8, StepStartChunks
<1>9. CASE Collapse
  BY <1>9, StepCollapse
<1>10. CASE NoChunk
  BY <1>10, StepNoChunk
<1>11. CASE \E delete \in session.deletes : Chunks(delete)
  BY <1>1, <1>11, StepChunks
<1>12. CASE Whole
  BY <1>12, StepWhole
<1>13. CASE Moved
  BY <1>13, StepMoved
<1>14. CASE NoFrame
  BY <1>14, StepNoFrame
<1>15. CASE \E off \in 0..Len(rbuf) : Join(off)
  BY <1>15, StepJoin
<1>16. CASE Close
  BY <1>16, StepClose
<1>17. CASE UNCHANGED vars
  BY <1>17, StepNone
<1> QED BY <1>2, <1>3, <1>4, <1>5, <1>6, <1>7, <1>8, <1>9, <1>10, <1>11, <1>12, <1>13,
           <1>14, <1>15, <1>16, <1>17, Zenon DEF Next

\* The buffer holds what was read, at most.
LEMMA BufferFits ==
  ASSUME IInv
  PROVE  Fits(read, rbuf)
<1>1. Peer /\ Handler /\ Buffer
  BY Zenon DEF IInv
<1>2. /\ session \in Sessions /\ Reach(session, read) /\ read \in Nat
      /\ Now \in 1..(Len(session.msgs) + 1)
  BY <1>1, Placed, Zenon DEF IsPlaced, Peer
<1>3. ASSUME Start PROVE Fits(read, rbuf)
  <2>1. PICK k \in 1..(Len(session.msgs) + 1) : k = Now
    BY <1>2
  <2>2. Untouched(session, k, read, rbuf)
    BY <1>3, <2>1, Zenon DEF Start
  <2> QED BY <1>2, <2>2, FitsUntouched
<1>4. CASE proto = "http"
  <2>1. HttpBuffer
    BY <1>1, <1>4, Zenon DEF Buffer
  <2>2. ASSUME NEW i, InChunks(i) PROVE Fits(read, rbuf)
    <3>1. PICK k \in 1..Len(session.msgs) : k = Now
      BY <1>1, <2>2, ChunksFrom
    <3>2. session.msgs[k].kind = "chunked" /\ HasChunks(session, k, i, Len(taken), read, rbuf)
      BY <2>2, <3>1, Zenon DEF InChunks
    <3> QED BY <1>2, <3>2, FitsChunks
  <2> QED BY <1>3, <2>1, <2>2, Zenon DEF HttpBuffer
<1>5. CASE proto = "ws"
  <2>1. WsBuffer
    BY <1>1, <1>5, Zenon DEF Buffer
  <2>2. ASSUME InFrames PROVE Fits(read, rbuf)
    <3>1. Now <= sent
      BY <2>2, Zenon DEF InFrames
    <3>2. PICK k \in 1..Len(session.msgs) : k = Now /\ session.msgs[k].kind \in Data
      BY <1>1, <2>1, <3>1, WsNow
    <3>3. PICK i : HasFrames(session, k, i, read, rbuf)
      BY <2>2, <3>2, Zenon DEF InFrames
    <3> QED BY <1>2, <3>2, <3>3, FitsFrames
  <2> QED BY <1>3, <2>1, <2>2, Zenon DEF WsBuffer
<1>6. CASE proto = "closed"
  <2>1. rbuf = <<>>
    BY <1>1, <1>6, Zenon DEF Buffer
  <2>2. <<>> \in Seq(Letters) /\ Len(<<>>) <= read
    BY <1>2
  <2> QED BY <2>1, <2>2, Zenon DEF Fits
<1>7. proto = "http" \/ proto = "ws" \/ proto = "closed"
  <2>1. proto \in {"http", "ws", "closed"}
    BY <1>1, Zenon DEF Handler
  <2> QED BY <2>1
<1> QED BY <1>4, <1>5, <1>6, <1>7

\* The invariant gives the types, and the bounds of the counters ...
LEMMA TypeOKHolds ==
  ASSUME IInv
  PROVE  TypeOK
<1>1. Peer /\ Handler
  BY Zenon DEF IInv
<1>2. rbuf \in Seq(Bytes \X (0..255) \X Nat) /\ Len(rbuf) <= read
  BY BufferFits, Zenon DEF Fits, Letters
<1>3. fault \in {"none", "assertion", "moved"}
  <2>1. fault \in {"none", "moved"}
    BY <1>1, Zenon DEF Handler
  <2> QED BY <2>1
<1>4. session \in Sessions /\ sent \in 0..Len(session.msgs) /\ read \in Nat
      /\ out \in read..session.starts[sent + 1] /\ ended \in BOOLEAN /\ Len(events) <= sent
  BY <1>1, Zenon DEF Peer
<1> QED BY <1>1, <1>2, <1>3, <1>4, Zenon DEF TypeOK, Handler, msgs, starts

\* ... and that nothing is left when all has been read ...
LEMMA CaughtUpHolds ==
  ASSUME IInv
  PROVE  CaughtUp
<1>1. Peer /\ Waiting
  BY Zenon DEF IInv
<1>2. /\ session \in Sessions /\ sent \in 0..Len(session.msgs) /\ read \in Nat
      /\ ~ended => out = session.starts[sent + 1]
  BY <1>1, Zenon DEF Peer
<1>3. Len(events) \in Nat /\ Now \in Nat /\ Now = Len(events) + 1 /\ Len(session.msgs) \in Nat
  <2>1. Len(events) \in Nat /\ Now \in Nat
    BY <1>1, Placed, Zenon DEF IsPlaced
  <2>2. Len(session.msgs) \in Nat
    BY <1>2, Counts
  <2> QED BY <2>1, <2>2 DEF Now
<1>4. ASSUME Running, stage = "idle", ~ended, read = out, session.ahead # "always",
             NEW k \in 1..sent, session.msgs[k].kind # "open", ~(k <= Len(events))
      PROVE  FALSE
  <2>1. Now <= k /\ k <= sent /\ sent <= Len(session.msgs)
    BY <1>2, <1>3, <1>4
  <2>2. PICK h \in 1..Len(session.msgs) : h = Now
    BY <1>2, <1>3, <2>1
  <2>3. CASE session.msgs[h].kind = "open"
    <3>1. h = Len(session.msgs)
      <4>1. Proper(session, h)
        BY <1>2, Shape
      <4>2. session.msgs[h].kind \in {"open", "close"}
        BY <2>3
      <4> QED BY <4>1, <4>2, Zenon DEF Proper
    <3>2. k = h
      BY <1>2, <1>3, <2>1, <2>2, <3>1
    <3> QED BY <1>4, <2>3, <3>2
  <2>4. CASE session.msgs[h].kind # "open"
    <3>1. Now <= sent
      BY <1>2, <1>3, <2>1
    <3>2. read < session.starts[h + 1]
      BY <1>1, <1>4, <2>2, <2>4, <3>1, Zenon DEF Waiting
    <3>3. read = session.starts[sent + 1]
      BY <1>2, <1>4, Zenon
    <3>4. PICK a \in 1..(Len(session.msgs) + 1) : a = h + 1
      BY <1>2, NextIn
    <3>5. PICK b \in 1..(Len(session.msgs) + 1) : b = sent + 1
      BY <1>2, <1>3
    <3>6. a < b \/ a = b
      BY <1>2, <1>3, <2>2, <3>1, <3>4, <3>5
    <3>7. a < b => session.starts[a] < session.starts[b]
      BY <1>2, Starts
    <3>8. session.starts[a] \in Nat /\ session.starts[b] \in Nat
      BY <1>2, Counts
    <3>9. session.starts[b] < session.starts[a]
      BY <3>2, <3>3, <3>4, <3>5
    <3> QED BY <3>6, <3>7, <3>8, <3>9
  <2> QED BY <2>3, <2>4
<1> QED BY <1>4, Zenon DEF CaughtUp, msgs

\* ... and the assertion.
LEMMA BodyBufferedHolds ==
  ASSUME IInv
  PROVE  BodyBuffered
<1>1. fault \in {"none", "moved"}
  BY Zenon DEF IInv, Handler
<1>2. fault # "assertion"
  BY <1>1
<1> QED BY <1>2, Zenon DEF BodyBuffered

\* mg_recv_common(), mg_handle_chunked(): the variables have their types; body_len and
\* the body joined so far are never more than was read, and no more messages are
\* handed over than were sent.
THEOREM Typed ==
  ASSUME \A s \in Sessions : Careful(s)
  PROVE  Spec => []TypeOK
<1>1. Init => IInv
  BY InitIInv
<1>2. IInv /\ [Next]_vars => IInv'
  BY NextIInv
<1>3. IInv => TypeOK
  BY TypeOKHolds
<1> QED BY <1>1, <1>2, <1>3, PTL DEF Spec

\* mg_http_handler(), mg_deliver_websocket_data(): however reads cut the stream, the
\* n-th message handed over is the n-th sent, with its payload, but for the last one,
\* which the end of the connection may cut short.
THEOREM Ordered ==
  ASSUME \A s \in Sessions : Careful(s)
  PROVE  Spec => []InOrder
<1>1. Init => IInv
  BY InitIInv
<1>2. IInv /\ [Next]_vars => IInv'
  BY NextIInv
<1>3. IInv => InOrder
  BY Zenon DEF IInv
<1> QED BY <1>1, <1>2, <1>3, PTL DEF Spec

\* mg_http_handler(), mg_ws_handler(): when all was read and the connection is open,
\* whoever waits for answers has had every whole message handed over.
THEOREM UpToDate ==
  ASSUME \A s \in Sessions : Careful(s)
  PROVE  Spec => []CaughtUp
<1>1. Init => IInv
  BY InitIInv
<1>2. IInv /\ [Next]_vars => IInv'
  BY NextIInv
<1>3. IInv => CaughtUp
  BY CaughtUpHolds
<1> QED BY <1>1, <1>2, <1>3, PTL DEF Spec

\* mg_deliver_websocket_data(): a close frame closes the connection, and a connection
\* that closes has had one, or fragments with a byte that reads like one.
THEOREM ClosedForClose ==
  ASSUME \A s \in Sessions : Careful(s)
  PROVE  Spec => []ClosesForClose
<1>1. Init => IInv
  BY InitIInv
<1>2. IInv /\ [Next]_vars => IInv'
  BY NextIInv
<1>3. IInv => ClosesForClose
  BY Zenon DEF IInv
<1> QED BY <1>1, <1>2, <1>3, PTL DEF Spec

\* mg_handle_chunked(): the assertion blen >= body_len holds, if chunked requests are
\* not sent ahead and a user who keeps chunks gets one of them.
THEOREM BodyThere ==
  ASSUME \A s \in Sessions : Careful(s)
  PROVE  Spec => []BodyBuffered
<1>1. Init => IInv
  BY InitIInv
<1>2. IInv /\ [Next]_vars => IInv'
  BY NextIInv
<1>3. IInv => BodyBuffered
  BY BodyBufferedHolds
<1> QED BY <1>1, <1>2, <1>3, PTL DEF Spec
===============================================================================
