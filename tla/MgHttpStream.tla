------------------------------ MODULE MgHttpStream ------------------------------
(***************************************************************************)
(* The receiving half of one connection of an HTTP or WebSocket server:    *)
(* mg_http_handler(), mg_handle_chunked(), mg_ws_handler() and             *)
(* mg_deliver_websocket_data() find messages in recv_mbuf, wherever the    *)
(* stream was cut into reads.  Offsets matter, so the buffer is a sequence *)
(* of bytes <<kind, value, message>>; only a block of headers counts as    *)
(* one.  Numbers in size lines have one digit, masks are zero.  One pass   *)
(* of a loop of the code is one step here.                                 *)
(***************************************************************************)
EXTENDS Integers, Sequences, SequencesExt

CONSTANT Sessions   \* what peers may send: see SessionsAssumption

Http   == {"request", "open", "chunked", "upgrade"}
Opcode == [text |-> 1, close |-> 8, ping |-> 9]
Data   == {"text", "close", "ping"}
Fin    == 128

----------------------------------------------------------------------------
\* What peers put on the wire.  A message m has its payload in pieces (chunks,
\* fragments; one otherwise), and m.ends tells how much of it has gone when each
\* piece ends.  The bytes of the payload are numbered from m.from.

Upto(m, i) == IF i = 0 THEN 0 ELSE m.ends[i]
Size(m)    == Upto(m, Len(m.ends))

\* Where piece i ends in the message: a chunk has five bytes around its data, a
\* frame six in front, and a request has its headers first.
Place(m, i) ==
    CASE m.kind \in Data      -> Upto(m, i) + 6 * i
      [] m.kind = "chunked"   -> 1 + Upto(m, i) + 5 * i
      [] OTHER                -> 1 + Upto(m, i)

Length(m) == Place(m, Len(m.ends))

\* The payload after i bytes and up to j.
Payload(m, k, i, j) == [l \in 1..(j - i) |-> <<"byte", m.from + i + l - 1, k>>]

CrLf(k)           == <<<<"cr", 0, k>>, <<"lf", 0, k>>>>
Chunk(n, data, k) == <<<<"hex", n, k>>>> \o CrLf(k) \o data \o CrLf(k)

Op(m, i) == (IF i = 1 THEN Opcode[m.kind] ELSE 0) + (IF i = Len(m.ends) THEN Fin ELSE 0)
Frame(op, n, data, k) ==
    <<<<"op", op, k>>, <<"len", 128 + n, k>>>> \o [j \in 1..4 |-> <<"mask", 0, k>>] \o data

Piece(m, k, i) ==
    LET n    == Upto(m, i) - Upto(m, i - 1)
        data == Payload(m, k, Upto(m, i - 1), Upto(m, i))
    IN  CASE m.kind \in Data    -> Frame(Op(m, i), n, data, k)
          [] m.kind = "chunked" -> Chunk(n, data, k)
          [] OTHER              -> data

\* Message k of a session is what is sent after starts[k] bytes.  A chunked
\* body ends with an empty chunk; an "open" request has no length and ends with
\* the connection; frames follow an upgrade, and nothing follows a close frame.
Proper(s, k) ==
    LET m == s.msgs[k]
        n == Len(m.ends)
    IN  /\ n >= 1 /\ m.from + Size(m) <= 255
        /\ \A i, j \in 0..n : i <= j => Upto(m, i) <= Upto(m, j)
        /\ s.starts[k + 1] = s.starts[k] + Length(m)
        /\ m.kind \in Data <=> \E u \in 1..(k - 1) : s.msgs[u].kind = "upgrade"
        /\ m.kind \notin {"chunked", "text"} => n = 1
        /\ m.kind = "upgrade" => Size(m) = 0
        /\ m.kind \in {"open", "close"} => k = Len(s.msgs)
        /\ m.kind \in Data => \A i \in 1..n : Upto(m, i) - Upto(m, i - 1) < 126
        /\ m.kind = "chunked" => \A i \in 1..n :
              /\ Upto(m, i) - Upto(m, i - 1) < 16
              /\ Upto(m, i) = Upto(m, i - 1) <=> i = n

Messages == [kind : Http \cup Data, ends : Seq(Nat), from : Nat]

ASSUME SessionsAssumption ==
    \A s \in Sessions :
        /\ DOMAIN s = {"msgs", "starts", "deletes", "ahead"}
        /\ s.msgs \in Seq(Messages)
        /\ s.starts \in Seq(Nat) /\ Len(s.starts) = Len(s.msgs) + 1 /\ s.starts[1] = 0
        /\ s.deletes \in (SUBSET BOOLEAN) \ {{}}
        /\ s.ahead \in {"never", "frames", "always"}
        /\ \A k \in DOMAIN s.msgs : Proper(s, k)

\* A peer and a user that mg_handle_chunked() can serve: a chunked request
\* is answered before the next message is sent, and a user who keeps chunks gets
\* one chunked request on a connection.
Careful(s) ==
    /\ \A k \in DOMAIN s.msgs : s.msgs[k].kind = "chunked" => s.ahead # "always"
    /\ \A j, k \in DOMAIN s.msgs :
          j < k /\ s.msgs[j].kind = "chunked" /\ s.msgs[k].kind = "chunked"
              => s.deletes = {TRUE}

\* Byte q of the stream of session s, and the bytes after p up to r.
MessageOf(s, q) == CHOOSE k \in DOMAIN s.msgs : s.starts[k] < q /\ q <= s.starts[k + 1]
PieceOf(m, o)   == CHOOSE i \in DOMAIN m.ends : Place(m, i - 1) < o /\ o <= Place(m, i)

Byte(s, q) ==
    LET k == MessageOf(s, q)
        m == s.msgs[k]
        o == q - s.starts[k]
        i == PieceOf(m, o)
    IN  IF o <= Place(m, 0) THEN <<"head", 0, k>> ELSE Piece(m, k, i)[o - Place(m, i - 1)]

Wire(s, p, r) == [j \in 1..(r - p) |-> Byte(s, p + j)]

----------------------------------------------------------------------------
VARIABLES
    session,    \* the peer's messages, what the user's handler answers to
                \* MG_EV_HTTP_CHUNK, and when the peer sends without waiting
    sent,       \* messages the peer has begun to send
    out,        \* bytes it has sent
    ended,      \* the peer has finished or broken off
    read,       \* bytes read so far
    rbuf,       \* recv_mbuf
    stage,      \* where the handler is: "idle", "parse", "chunks", "frames"
    collapsed,  \* mg_handle_chunked()'s own body_len, and whether it has
    zero,       \* received the empty chunk
    body_len,   \* pd->chunk.body_len
    proto,      \* nc->proto_handler: "http", "ws", and "closed" when freed
    closing,    \* MG_F_SEND_AND_CLOSE
    taken,      \* payload the user took out with MG_F_DELETE_CHUNK
    events,     \* messages handed to the user, oldest first
    fault       \* a failed assertion, or a write through a stale pointer

peer    == <<session, sent, out, ended>>
local   == <<collapsed, zero>>
handled == <<body_len, proto, closing, taken, events, fault>>
vars    == <<peer, read, rbuf, stage, local, handled>>

msgs   == session.msgs
starts == session.starts

----------------------------------------------------------------------------
Init ==
    /\ session \in Sessions
    /\ sent = 0 /\ out = 0 /\ ended = FALSE /\ read = 0 /\ rbuf = <<>>
    /\ stage = "idle" /\ collapsed = 0 /\ zero = FALSE
    /\ body_len = 0 /\ proto = "http" /\ closing = FALSE
    /\ taken = <<>> /\ events = <<>> /\ fault = "none"

Running == proto # "closed" /\ fault = "none"

MaySend ==
    \/ Len(events) = sent
    \/ session.ahead = "always"
    \/ session.ahead = "frames" /\ \E k \in 1..sent : msgs[k].kind = "upgrade"

Send ==
    /\ Running /\ ~ended /\ sent < Len(msgs) /\ MaySend
    /\ sent' = sent + 1
    /\ out' = starts[sent + 2]
    /\ UNCHANGED <<session, ended, read, rbuf, stage, local, handled>>

\* The peer closes, and the last bytes may be lost.
End(n) ==
    /\ Running /\ ~ended
    /\ ended' = TRUE
    /\ out' = n
    /\ UNCHANGED <<session, sent, read, rbuf, stage, local, handled>>

\* mg_recv_common() puts what was read behind the rest, and calls the handler.
Recv(n) ==
    /\ Running /\ stage = "idle"
    /\ read' = n
    /\ rbuf' = rbuf \o Wire(session, read, n)
    /\ stage' = IF proto = "ws" THEN "frames" ELSE "parse"
    /\ UNCHANGED <<peer, local, handled>>

Handed(event, payload) == [event |-> event, payload |-> payload]

----------------------------------------------------------------------------
\* mg_http_handler() at MG_EV_RECV.  At most one message is handed over each
\* time, and what is behind it waits for the next read.

Parsing(kinds) == Running /\ stage = "parse" /\ msgs[rbuf[1][3]].kind \in kinds

\* message.len, when headers tell it
MessageLenBody(m) == Size(m)
MessageLen(m)     == 1 + Size(m)

\* mbuf_remove()
RemovedLess(buf, n) == IF n < Len(buf) THEN SubSeq(buf, n + 1, Len(buf)) ELSE buf
Removed(buf, n)     == IF n <= Len(buf) THEN SubSeq(buf, n + 1, Len(buf)) ELSE buf

WholeRequest(buf) ==
    LET m == msgs[buf[1][3]]
    IN  m.kind = "request" /\ MessageLen(m) <= Len(buf)

Deliver ==
    /\ Parsing({"request"}) /\ WholeRequest(rbuf)
    /\ LET n == MessageLen(msgs[rbuf[1][3]])
       IN  /\ rbuf' = Removed(rbuf, n)
           /\ events' = Append(events, Handed("request", SubSeq(rbuf, 2, n)))
    /\ stage' = "idle"
    /\ UNCHANGED <<peer, read, local, body_len, proto, closing, taken, fault>>

Incomplete ==
    /\ Parsing({"request", "open"}) /\ ~WholeRequest(rbuf)
    /\ stage' = "idle"
    /\ UNCHANGED <<peer, read, rbuf, local, handled>>

\* The request that turns the connection into a WebSocket.
Upgrade ==
    /\ Parsing({"upgrade"})
    /\ rbuf' = Removed(rbuf, 1)
    /\ events' = Append(events, Handed("upgrade", <<>>))
    /\ proto' = "ws" /\ stage' = "frames"
    /\ UNCHANGED <<peer, read, local, body_len, closing, taken, fault>>

----------------------------------------------------------------------------
\* mg_handle_chunked(): body_len outlives the request, only MG_F_DELETE_CHUNK
\* puts it back to 0.

StartChunks ==
    /\ Parsing({"chunked"})
    /\ IF Len(rbuf) - 1 >= body_len
         THEN stage' = "chunks" /\ collapsed' = body_len /\ zero' = FALSE /\ UNCHANGED fault
         ELSE fault' = "assertion" /\ UNCHANGED <<stage, local>>
    /\ UNCHANGED <<peer, read, rbuf, body_len, proto, closing, taken, events>>

\* mg_http_parse_chunk(): a chunk is whole behind the first p bytes.
WholeChunk(buf, p) ==
    /\ Len(buf) >= p + 5 /\ buf[p + 1][1] = "hex"
    /\ LET n == buf[p + 1][2]
       IN  /\ Len(buf) >= p + n + 5
           /\ buf[p + 2][1] = "cr" /\ buf[p + 3][1] = "lf"
           /\ buf[p + n + 4][1] = "cr" /\ buf[p + n + 5][1] = "lf"

\* The loop moves the data of a chunk to the end of the body.
Collapse ==
    /\ Running /\ stage = "chunks" /\ ~zero
    /\ LET p == 1 + collapsed
           n == rbuf[p + 1][2]
       IN  /\ WholeChunk(rbuf, p)
           /\ rbuf' = SubSeq(rbuf, 1, p) \o SubSeq(rbuf, p + 4, p + 3 + n)
                      \o SubSeq(rbuf, p + n + 6, Len(rbuf))
           /\ collapsed' = collapsed + n
           /\ zero' = (n = 0)
    /\ UNCHANGED <<peer, read, stage, handled>>

Collapsed == Running /\ stage = "chunks" /\ (zero \/ ~WholeChunk(rbuf, 1 + collapsed))

NoChunk ==
    /\ Collapsed /\ collapsed = body_len /\ ~zero
    /\ stage' = "idle"
    /\ UNCHANGED <<peer, read, rbuf, local, handled>>

BodyLeftNone(delete) == 0
BodyLeftKept(delete) == collapsed
BodyLeft(delete) == IF delete THEN 0 ELSE collapsed

\* MG_EV_HTTP_CHUNK.  After the last chunk message.len is what is left in
\* recv_mbuf, all of it.
Chunks(delete) ==
    /\ Collapsed /\ (collapsed # body_len \/ zero)
    /\ body_len' = BodyLeft(delete)
    /\ LET body == SubSeq(rbuf, 2, 1 + collapsed)
       IN  IF zero
             THEN /\ events' = Append(events, Handed("request", taken \o body))
                  /\ taken' = <<>>
                  /\ rbuf' = <<>>
           ELSE IF delete
             THEN /\ taken' = taken \o body
                  /\ rbuf' = SubSeq(rbuf, 1, 1) \o SubSeq(rbuf, collapsed + 2, Len(rbuf))
                  /\ UNCHANGED events
           ELSE UNCHANGED <<events, taken, rbuf>>
    /\ stage' = "idle"
    /\ UNCHANGED <<peer, read, local, proto, closing, fault>>

----------------------------------------------------------------------------
\* mg_deliver_websocket_data(): one frame at the head of the buffer, or one
\* fragment behind the bytes reassembled so far, which are kept behind an
\* opcode byte and a cell of four bytes that holds their number.

Fragment(op) == op < Fin \/ op % 16 = 0
First(op)    == op < Fin /\ op % 16 # 0
Cell(n)      == <<<<"cell", n, 0>>>> \o [j \in 1..3 |-> <<"cell", 0, 0>>]

Reassembled(buf) ==
    IF /\ Len(buf) >= 5
       /\ Fragment(buf[1][2]) /\ ~First(buf[1][2])
       /\ Len(buf) >= 5 + buf[2][2]
      THEN 5 + buf[2][2] ELSE 0

DataEnd(buf, off) == off + 6 + buf[off + 2][2] - 128

WholeFrame(buf) ==
    LET off == Reassembled(buf)
    IN  Len(buf) >= off + 6 /\ Len(buf) >= DataEnd(buf, off)

\* Memory is not cleared when bytes are moved down.
Over(new, old) == new \o SubSeq(old, Len(new) + 1, Len(old))

IsControl(byte) == (byte[2] \div 8) % 2 = 1
IsClose(byte)   == byte[2] % 16 = Opcode.close

Event(byte) == IF IsControl(byte) THEN "control" ELSE "frame"

\* The code takes the byte at `buf` for the opcode of the frame it has just removed.
CloseToo(byte) == closing' = (closing \/ IsClose(byte))

FrameAt(off) == Running /\ stage = "frames" /\ WholeFrame(rbuf) /\ off = Reassembled(rbuf)

Whole ==
    /\ FrameAt(0) /\ ~Fragment(rbuf[1][2])
    /\ LET end  == DataEnd(rbuf, 0)
           rest == SubSeq(rbuf, end + 1, Len(rbuf))
       IN  /\ rbuf' = rest
           /\ events' = Append(events, Handed(Event(rbuf[1]), SubSeq(rbuf, 7, end)))
           /\ CloseToo(Over(rest, rbuf)[1])
    /\ UNCHANGED <<peer, read, stage, local, body_len, proto, taken, fault>>

\* A fragment is joined to the ones before it; the last is handed over with them.
Join(off) ==
    /\ FrameAt(off) /\ Fragment(rbuf[1][2])
    /\ LET op    == rbuf[off + 1][2]
           end   == DataEnd(rbuf, off)
           whole == SubSeq(rbuf, 6, off) \o SubSeq(rbuf, off + 7, end)
           rest  == SubSeq(rbuf, end + 1, Len(rbuf))
           kept  == <<<<"op", 0, rbuf[1][3]>>>> \o Cell(Len(whole)) \o whole \o rest
           now   == Over(kept, rbuf)
           at    == (IF off = 0 THEN 5 ELSE off) + 1
       IN  IF op < Fin
             THEN rbuf' = kept /\ UNCHANGED events /\ CloseToo(now[at])
             ELSE /\ rbuf' = rest
                  /\ events' = Append(events, Handed(Event(rbuf[off + 1]), whole))
                  /\ CloseToo(Over(rest, now)[at])
    /\ UNCHANGED <<peer, read, stage, local, body_len, proto, taken, fault>>

\* A first fragment calls mbuf_resize() and goes on with the old pointer.
Moved ==
    /\ FrameAt(0) /\ First(rbuf[1][2])
    /\ fault' = "moved"
    /\ UNCHANGED <<peer, read, rbuf, stage, local, body_len, proto, closing, taken, events>>

\* The loop of mg_ws_handler() ends.
NoFrame ==
    /\ Running /\ stage = "frames" /\ ~WholeFrame(rbuf)
    /\ stage' = "idle"
    /\ UNCHANGED <<peer, read, rbuf, local, handled>>

----------------------------------------------------------------------------
\* The connection is freed, because the peer has finished or after a close
\* frame; mg_http_handler() hands over what it has, as the end of a request.
Close ==
    /\ Running /\ stage = "idle"
    /\ closing \/ (ended /\ read = out)
    /\ proto' = "closed"
    /\ events' = IF proto = "http" /\ rbuf # <<>>
                   THEN Append(events, Handed("rest", Tail(rbuf))) ELSE events
    /\ rbuf' = <<>>
    /\ UNCHANGED <<peer, read, stage, local, body_len, closing, taken, fault>>

Next ==
    \/ Send
    \/ \E n \in read..out : End(n)
    \/ \E n \in (read + 1)..out : Recv(n)
    \/ Deliver \/ Incomplete \/ Upgrade
    \/ StartChunks \/ Collapse \/ NoChunk
    \/ \E delete \in session.deletes : Chunks(delete)
    \/ Whole \/ Moved \/ NoFrame
    \/ \E off \in 0..Len(rbuf) : Join(off)
    \/ Close

Spec == Init /\ [][Next]_vars

----------------------------------------------------------------------------
Bytes == {"head", "byte", "hex", "cr", "lf", "op", "len", "mask", "cell"}

\* The types; a user is never given more messages than were sent, and what the
\* buffer holds was read (but for the five bytes in front of fragments).
TypeOK ==
    /\ session \in Sessions
    /\ sent \in 0..Len(msgs) /\ out \in read..starts[sent + 1] /\ ended \in BOOLEAN
    /\ read \in Nat
    /\ rbuf \in Seq(Bytes \X (0..255) \X Nat) /\ Len(rbuf) <= read
    /\ stage \in {"idle", "parse", "chunks", "frames"}
    /\ collapsed \in 0..read /\ zero \in BOOLEAN /\ body_len \in 0..read
    /\ proto \in {"http", "ws", "closed"} /\ closing \in BOOLEAN
    /\ fault \in {"none", "assertion", "moved"}
    /\ Len(events) <= sent

Expected(kind) ==
    CASE kind \in {"request", "chunked"} -> "request"
      [] kind = "upgrade" -> "upgrade"
      [] kind = "text" -> "frame"
      [] kind \in {"ping", "close"} -> "control"
      [] OTHER -> "rest"

Sent(k) == Payload(msgs[k], k, 0, Size(msgs[k]))

\* mg_http_handler(), mg_deliver_websocket_data(): the n-th message handed to
\* the user is the n-th that was sent, with its payload and nothing else,
\* however reads cut the stream.  Only the last one may be cut short, by the
\* end of the connection.
InOrder ==
    \A i \in DOMAIN events :
        IF events[i].event = "rest"
          THEN /\ proto = "closed" /\ i = Len(events)
               /\ msgs[i].kind = "open" => IsPrefix(events[i].payload, Sent(i))
          ELSE /\ events[i].event = Expected(msgs[i].kind)
               /\ events[i].payload = Sent(i)

\* mg_http_handler(), mg_ws_handler(): when nothing is left to read, every
\* message that came whole has been handed over, if peers wait for the answer
\* to a request (mg_http_handler() takes one request for each read); frames
\* need not be waited for.
CaughtUp ==
    Running /\ stage = "idle" /\ ~ended /\ read = out /\ session.ahead # "always"
        => \A k \in 1..sent : msgs[k].kind # "open" => k <= Len(events)

\* The values of the bytes of one kind that were read.
Received(kind) == {Byte(session, q)[2] : q \in {r \in 1..read : Byte(session, r)[1] = kind}}

\* mg_deliver_websocket_data(), "If client closes, close too": a close frame
\* handed to the user closes the connection, and nothing else does, but for a
\* byte of a fragmented message, of its payload or of a length, that reads like
\* the opcode of a close frame.
ClosesForClose ==
    /\ \A i \in DOMAIN events :
          msgs[i].kind = "close" /\ events[i].event = "control" => closing
    /\ closing => \/ Fin + Opcode.close \in Received("op")
                  \/ /\ \E op \in Received("op") : First(op)
                     /\ \E b \in Received("byte") \cup Received("len") : b % 16 = Opcode.close

\* mg_handle_chunked(), "assert(blen >= body_len)": the bytes of the body that
\* were reassembled before are in the buffer.
BodyBuffered == fault # "assertion"
=============================================================================
