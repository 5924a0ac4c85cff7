--------------------------- MODULE MultiThreadServer ---------------------------
(***************************************************************************)
(* HttpServerMultiThread.cpp on top of the event loop of mongoose.c.       *)
(*                                                                         *)
(* One IO thread polls the connections.  For each HTTP request its         *)
(* ev_handler() writes a work_request on sock[0], a blocking stream socket;*)
(* the worker threads read sock[1], sleep, and hand a work_result back     *)
(* with mg_broadcast(), blocking until the IO thread has acknowledged it.  *)
(* The callback on_work_complete() then runs in the IO thread and answers  *)
(* the connection whose user_data is the conn_id of the result.            *)
(*                                                                         *)
(* A connection is named by the order of its accept, so a name is never    *)
(* used twice; the code tells connections apart by user_data alone.  A     *)
(* request is <<connection, its rank there>> plus the conn_id the code     *)
(* copies; connection and rank are carried for the properties only, and    *)
(* no guard or assignment of a step reads them except to say whose text a  *)
(* pointer addresses.                                                      *)
(***************************************************************************)
EXTENDS Integers, Sequences, FiniteSets, SequencesExt

CONSTANTS
    Workers,    \* the s_num_worker_threads threads
    MaxConns,   \* bound: connections the clients open
    MaxReqs,    \* bound: requests the clients send, over all connections
    Cap,        \* room of the stream sock[0] -> sock[1], in fragments
    Parts,      \* fragments of the 4096 bytes written for one work_request
    IdMod,      \* s_next_id is an unsigned long: it counts modulo IdMod
    Env         \* what clients and operator do in this instance

ASSUME ConstantsAssumption ==
    /\ IsFiniteSet(Workers) /\ Workers # {}
    /\ MaxConns \in Nat /\ MaxReqs \in Nat
    /\ Cap \in Nat \ {0} /\ Parts \in Nat \ {0} /\ IdMod \in Nat \ {0}
    /\ Env \subseteq {"pipeline", "fin", "reset", "signal"}

Ctl      == -1                  \* ctl[1] in the descriptor sets of select()
Listener == 0                   \* the connection mg_bind() returned
Accepted == 1..MaxConns
Conns    == {Listener} \cup Accepted

\* struct work_request; NoReq is one that was only zeroed.
Request == [conn : Accepted, rank : 1..MaxReqs, id : 0..(IdMod - 1)]
NoReq   == [conn |-> Listener, rank |-> 0, id |-> 0]

\* What travels on the stream.
Fragment == [req : Request, part : 1..Parts]
Fragments(r) == [i \in 1..Parts |-> [req |-> r, part |-> i]]

VARIABLES
    \* the IO thread, in mg_mgr_poll() unless said otherwise
    io,         \* where it is
    phase,      \* "run", "last" poll of mg_mgr_free(), "free": closing everything
    todo,       \* connections still to visit in the pass over the list
    readable,   \* descriptors select() reported readable ...
    writable,   \* ... and writable
    pend,       \* fragments the blocking write on sock[0] still has to place
    msg,        \* the ctl message whose callback is to run
    \* the connections
    active,     \* mgr->active_connections, head first
    accepted,   \* how many were accepted: ++s_next_id is accepted + 1
    udata,      \* nc->user_data, 0 for NULL
    flags,      \* nc->flags, of which the two closing ones
    rbuf,       \* whole requests in recv_mbuf
    sbuf,       \* answers in send_mbuf
    text,       \* rank of the last request delivered, while the bytes its
                \* http_message points to are still in place; else 0
    delivered,  \* how many requests were delivered to ev_handler()
    \* the clients
    backlog,    \* connections waiting in accept()'s queue
    client,     \* the client's end: "open", "fin" or "reset"
    wire,       \* requests on their way to the server
    budget,     \* requests clients may still send
    answered,   \* <<connection, rank>> of the answers written to the socket
    \* the two socket pairs
    stream, sock, ctl, acks, ctlOpen,
    \* the workers
    wpc, wreq,
    \* the process
    signal, crashed,
    handled     \* history: <<connection, rank>> whose callback has run

ioVars     == <<io, phase, todo, readable, writable, pend, msg>>
connVars   == <<active, accepted, udata, flags, rbuf, sbuf, text, delivered>>
clientVars == <<backlog, client, wire, budget, answered>>
sockVars   == <<stream, sock>>
ctlVars    == <<ctl, acks, ctlOpen>>
workVars   == <<wpc, wreq>>
procVars   == <<signal, crashed, handled>>
serverVars == <<ioVars, connVars, sockVars, ctlVars, workVars, procVars>>
vars == <<ioVars, connVars, clientVars, sockVars, ctlVars, workVars, procVars>>

\* After mg_bind() and the start of the workers, before the first poll.
Init ==
    /\ io = "select" /\ phase = "run" /\ todo = << >>
    /\ readable = {} /\ writable = {} /\ pend = << >> /\ msg = NoReq
    /\ active = <<Listener>> /\ accepted = 0
    /\ udata = [c \in Conns |-> 0] /\ flags = [c \in Conns |-> {}]
    /\ rbuf = [c \in Conns |-> 0] /\ sbuf = [c \in Conns |-> << >>]
    /\ text = [c \in Conns |-> 0] /\ delivered = [c \in Conns |-> 0]
    /\ backlog = 0 /\ client = [c \in Conns |-> "open"]
    /\ wire = [c \in Conns |-> 0] /\ budget = MaxReqs /\ answered = {}
    /\ stream = << >> /\ sock = "open"
    /\ ctl = << >> /\ acks = 0 /\ ctlOpen = TRUE
    /\ wpc = [w \in Workers |-> "loop"] /\ wreq = [w \in Workers |-> NoReq]
    /\ signal = FALSE /\ crashed = FALSE /\ handled = {}
-------------------------------------------------------------------------------
\* A crash stops every thread; clients are of no interest then.
IOAt(p)        == io = p /\ ~crashed
WorkerAt(w, p) == wpc[w] = p /\ ~crashed

(* The clients and the operator *)

IsActive(c) == \E i \in 1..Len(active) : active[i] = c

ClientConnect ==
    /\ accepted + backlog < MaxConns /\ ~crashed
    /\ backlog' = backlog + 1
    /\ UNCHANGED <<client, wire, budget, answered, serverVars>>

\* A client that does not pipeline waits for the answer before it asks again.
Quiet(c) == /\ wire[c] = 0 /\ rbuf[c] = 0
            /\ \A k \in 1..delivered[c] : <<c, k>> \in answered

ClientSend(c) ==
    /\ IsActive(c) /\ client[c] = "open" /\ budget > 0 /\ ~crashed
    /\ "pipeline" \in Env \/ Quiet(c)
    /\ wire' = [wire EXCEPT ![c] = @ + 1]
    /\ budget' = budget - 1
    /\ UNCHANGED <<backlog, client, answered, serverVars>>

ClientFin(c) ==
    /\ "fin" \in Env /\ IsActive(c) /\ client[c] = "open" /\ ~crashed
    /\ client' = [client EXCEPT ![c] = "fin"]
    /\ UNCHANGED <<backlog, wire, budget, answered, serverVars>>

\* Data the server has not read yet is gone.
ClientReset(c) ==
    /\ "reset" \in Env /\ IsActive(c) /\ client[c] # "reset" /\ ~crashed
    /\ client' = [client EXCEPT ![c] = "reset"]
    /\ wire' = [wire EXCEPT ![c] = 0]
    /\ UNCHANGED <<backlog, budget, answered, serverVars>>

Client == \/ ClientConnect
          \/ \E c \in Accepted : ClientSend(c) \/ ClientFin(c) \/ ClientReset(c)

\* signal_handler() for SIGINT or SIGTERM.
SignalHandler ==
    /\ "signal" \in Env /\ ~signal /\ ~crashed
    /\ signal' = TRUE
    /\ UNCHANGED <<ioVars, connVars, clientVars, sockVars, ctlVars, workVars, crashed, handled>>
-------------------------------------------------------------------------------
(* The IO thread: mg_socket_if_poll() *)

CanRead(c)  == IF c = Listener THEN backlog > 0
                               ELSE wire[c] > 0 \/ client[c] # "open"
CanWrite(c) == sbuf[c] # << >>

\* MultiThreadStart() tests the signal before each poll and leaves its loop for
\* mg_mgr_free(), which polls once more; then select().
Select ==
    /\ IOAt("select")
    /\ phase' = IF signal THEN "last" ELSE "run"
    /\ readable' = {c \in Conns : IsActive(c) /\ CanRead(c)}
                     \cup (IF ctl # << >> THEN {Ctl} ELSE {})
    /\ writable' = {c \in Accepted : IsActive(c) /\ CanWrite(c)}
    /\ io' = "ctl"
    /\ UNCHANGED <<todo, pend, msg, connVars, clientVars, sockVars, ctlVars, workVars, procVars>>

\* The byte for one blocked mg_broadcast().  (Each: sent with every callback.)
AcknowledgedEach == acks + Len(active)
AcknowledgedNot  == acks
Acknowledged     == acks + 1

\* mg_mgr_handle_ctl_sock(): one message a poll, acknowledged at once.
HandleCtlSock ==
    /\ IOAt("ctl") /\ Ctl \in readable
    /\ msg' = Head(ctl)
    /\ ctl' = Tail(ctl)
    /\ acks' = Acknowledged
    /\ io' = "callback"
    /\ UNCHANGED <<phase, todo, readable, writable, pend, connVars, clientVars,
                   sockVars, ctlOpen, workVars, procVars>>

SkipCtlSock ==
    /\ IOAt("ctl") /\ Ctl \notin readable
    /\ todo' = active
    /\ io' = "read"
    /\ UNCHANGED <<phase, readable, writable, pend, msg, connVars, clientVars,
                   sockVars, ctlVars, workVars, procVars>>

\* The callback is called once for each connection, and on_work_complete()
\* itself loops over all of them.
Answers(m) == [i \in 1..Len(active) |-> m]
AddressedAny(c, m) == IsActive(c) /\ udata[c] # 0     \* without the comparison
Addressed(c, m) == IsActive(c) /\ udata[c] # 0 /\ udata[c] = m.id

OnWorkComplete ==
    /\ IOAt("callback")
    /\ sbuf' = [c \in Conns |-> IF Addressed(c, msg) THEN sbuf[c] \o Answers(msg)
                                                     ELSE sbuf[c]]
    /\ handled' = handled \cup {<<msg.conn, msg.rank>>}
    /\ msg' = NoReq
    /\ todo' = active
    /\ io' = "read"
    /\ UNCHANGED <<phase, readable, writable, pend, active, accepted, udata, flags, rbuf, text,
                   delivered, clientVars, sockVars, ctlVars, workVars, signal, crashed>>

\* `(void *) ++s_next_id', kept in user_data.  (Post: s_next_id++ instead.)
IdOfPost(n) == (n - 1) % IdMod
IdOf(n)     == n % IdMod

\* mg_mgr_handle_conn() of the listener; the new connection goes to the head of
\* the list, so this pass does not visit it.  ev_handler() gives it its id.
VisitListener ==
    /\ IOAt("read") /\ todo # << >> /\ Head(todo) = Listener
    /\ todo' = Tail(todo)
    /\ \/ /\ Listener \in readable /\ backlog > 0
          /\ accepted' = accepted + 1
          /\ backlog' = backlog - 1
          /\ active' = <<accepted + 1>> \o active
          /\ udata' = [udata EXCEPT ![accepted + 1] = IdOf(accepted + 1)]
       \/ /\ Listener \notin readable \/ backlog = 0
          /\ UNCHANGED <<accepted, backlog, active, udata>>
    /\ UNCHANGED <<io, phase, readable, writable, pend, msg, flags, rbuf, sbuf, text, delivered,
                   client, wire, budget, answered, sockVars, ctlVars, workVars, procVars>>

\* ev_handler(): MG_EV_HTTP_REQUEST, up to the blocking write.
NextRequest(c) == [conn |-> c, rank |-> delivered[c] + 1, id |-> udata[c]]
Deliver(c) == /\ pend' = Fragments(NextRequest(c))
              /\ delivered' = [delivered EXCEPT ![c] = @ + 1]
              /\ text' = [text EXCEPT ![c] = delivered[c] + 1]

\* mg_handle_tcp_read() with data: mg_http_handler() delivers one message,
\* however many recv_mbuf holds.
Recv(c) ==
    /\ wire[c] > 0
    /\ \E n \in 1..wire[c] : /\ rbuf' = [rbuf EXCEPT ![c] = @ + n]
                             /\ wire' = [wire EXCEPT ![c] = @ - n]
    /\ Deliver(c)
    /\ io' = "send"
    /\ UNCHANGED flags

\* ... and without: an orderly shutdown, or an error.
RecvNothing(c) ==
    /\ wire[c] = 0
    /\ flags' = [flags EXCEPT ![c] = @ \cup
                    {IF client[c] = "fin" THEN "SEND_AND_CLOSE" ELSE "CLOSE_IMMEDIATELY"}]
    /\ io' = "write"
    /\ UNCHANGED <<rbuf, wire, pend, delivered, text>>

VisitRead(c) ==
    /\ IOAt("read") /\ todo # << >> /\ Head(todo) = c
    /\ \/ c \in readable /\ (Recv(c) \/ RecvNothing(c))
       \/ /\ c \notin readable
          /\ io' = "write"
          /\ UNCHANGED <<rbuf, wire, pend, delivered, text, flags>>
    /\ UNCHANGED <<phase, todo, readable, writable, msg, active, accepted, udata, sbuf,
                   backlog, client, budget, answered, sockVars, ctlVars, workVars, procVars>>

\* mg_write_to_socket(), skipped for a connection that is to be dropped.
VisitWrite(c) ==
    /\ IOAt("write") /\ todo # << >> /\ Head(todo) = c
    /\ \/ /\ c \in writable /\ "CLOSE_IMMEDIATELY" \notin flags[c] /\ client[c] # "reset"
          /\ \E n \in 1..Len(sbuf[c]) :
                /\ sbuf' = [sbuf EXCEPT ![c] = SubSeq(@, n + 1, Len(@))]
                /\ answered' = answered \cup
                      {<<c, sbuf[c][i].rank>> : i \in {j \in 1..n : sbuf[c][j].conn = c}}
          /\ UNCHANGED flags
       \/ /\ c \in writable /\ "CLOSE_IMMEDIATELY" \notin flags[c] /\ client[c] = "reset"
          /\ flags' = [flags EXCEPT ![c] = @ \cup {"CLOSE_IMMEDIATELY"}]
          /\ UNCHANGED <<sbuf, answered>>
       \/ /\ c \notin writable \/ "CLOSE_IMMEDIATELY" \in flags[c]
          /\ UNCHANGED <<sbuf, answered, flags>>
    /\ todo' = Tail(todo)
    /\ io' = "read"
    /\ UNCHANGED <<phase, readable, writable, pend, msg, active, accepted, udata, rbuf, text,
                   delivered, backlog, client, wire, budget, sockVars, ctlVars, workVars, procVars>>

\* The last pass closes what is marked, if its output is flushed.
StartClosePass ==
    /\ IOAt("read") /\ todo = << >>
    /\ todo' = active
    /\ io' = "close"
    /\ UNCHANGED <<phase, readable, writable, pend, msg, connVars, clientVars,
                   sockVars, ctlVars, workVars, procVars>>

\* (Unflushed: without waiting for the output; Served: without keep-alive.)
MustCloseUnflushed(c) == phase = "free" \/ flags[c] # {}
MustCloseServed(c)    == phase = "free" \/ (delivered[c] > 0 /\ sbuf[c] = << >>)
MustClose(c) == \/ phase = "free"
                \/ "CLOSE_IMMEDIATELY" \in flags[c]
                \/ "SEND_AND_CLOSE" \in flags[c] /\ sbuf[c] = << >>

KeepConn ==
    /\ IOAt("close") /\ todo # << >> /\ ~MustClose(Head(todo))
    /\ todo' = Tail(todo)
    /\ UNCHANGED <<io, phase, readable, writable, pend, msg, connVars, clientVars,
                   sockVars, ctlVars, workVars, procVars>>

\* What mg_close_conn() leaves of a connection: EV_CLOSE clears user_data, then
\* both buffers are freed.
Forget(c) == /\ udata' = [udata EXCEPT ![c] = 0]
             /\ rbuf' = [rbuf EXCEPT ![c] = 0]
             /\ sbuf' = [sbuf EXCEPT ![c] = << >>]
             /\ flags' = [flags EXCEPT ![c] = {}]
             /\ todo' = Tail(todo)

\* mg_remove_conn()
RemoveConn(c) == \E i \in 1..Len(active) : active[i] = c /\ active' = RemoveAt(active, i)

CloseConn ==
    /\ IOAt("close") /\ todo # << >> /\ MustClose(Head(todo))
    /\ rbuf[Head(todo)] = 0
    /\ RemoveConn(Head(todo))
    /\ Forget(Head(todo))
    /\ text' = [text EXCEPT ![Head(todo)] = 0]
    /\ UNCHANGED <<io, phase, readable, writable, pend, msg, accepted, delivered,
                   clientVars, sockVars, ctlVars, workVars, procVars>>

\* mg_http_handler() on MG_EV_CLOSE: whatever recv_mbuf still holds is delivered
\* as one request, from a connection that is already off the list.
CloseConnDelivering ==
    /\ IOAt("close") /\ todo # << >> /\ MustClose(Head(todo))
    /\ rbuf[Head(todo)] > 0
    /\ RemoveConn(Head(todo))
    /\ Deliver(Head(todo))
    /\ io' = "sendclose"
    /\ UNCHANGED <<phase, todo, readable, writable, msg, accepted, udata, flags, rbuf,
                   sbuf, clientVars, sockVars, ctlVars, workVars, procVars>>

\* The blocking write on sock[0]: it places what fits and waits for the rest.
Room == Cap - Len(stream)
Place(n) == /\ n > 0
            /\ stream' = stream \o SubSeq(pend, 1, n)
            /\ pend' = SubSeq(pend, n + 1, Len(pend))

WriteSome ==
    /\ IOAt("send") \/ IOAt("sendclose")
    /\ Room < Len(pend)
    /\ Place(Room)
    /\ UNCHANGED <<io, phase, todo, readable, writable, msg, connVars, clientVars, sock,
                   ctlVars, workVars, procVars>>

\* The write returns; ev_handler() returns to mg_http_handler(), whose
\* mbuf_remove() moves the rest of recv_mbuf over the request.
WriteDone ==
    /\ IOAt("send")
    /\ Room >= Len(pend)
    /\ Place(Len(pend))
    /\ LET c == Head(todo) IN
          /\ rbuf' = [rbuf EXCEPT ![c] = @ - 1]
          /\ text' = [text EXCEPT ![c] = IF rbuf[c] > 1 THEN 0 ELSE @]
    /\ io' = "write"
    /\ UNCHANGED <<phase, todo, readable, writable, msg, active, accepted, udata, flags, sbuf,
                   delivered, clientVars, sock, ctlVars, workVars, procVars>>

WriteDoneClosing ==
    /\ IOAt("sendclose")
    /\ Room >= Len(pend)
    /\ Place(Len(pend))
    /\ Forget(Head(todo))
    /\ text' = [text EXCEPT ![Head(todo)] = 0]
    /\ io' = "close"
    /\ UNCHANGED <<phase, readable, writable, msg, active, accepted, delivered,
                   clientVars, sock, ctlVars, workVars, procVars>>

\* (Again: the last poll is not told from the others.)
AfterPassAgain == IF phase = "free" THEN "sock0" ELSE "select"
AfterPass == CASE phase = "run"  -> "select"
               [] phase = "last" -> "free"
               [] phase = "free" -> "sock0"

EndClosePass ==
    /\ IOAt("close") /\ todo = << >>
    /\ io' = AfterPass
    /\ UNCHANGED <<phase, todo, readable, writable, pend, msg, connVars, clientVars,
                   sockVars, ctlVars, workVars, procVars>>

\* mg_mgr_free() after its last poll: the ctl pair, then every connection.
FreeCtl ==
    /\ IOAt("free")
    /\ ctlOpen' = FALSE /\ ctl' = << >> /\ acks' = 0
    /\ phase' = "free"
    /\ todo' = active
    /\ io' = "close"
    /\ UNCHANGED <<readable, writable, pend, msg, connVars, clientVars, sockVars,
                   workVars, procVars>>

\* MultiThreadStart() closes its pair and returns; nobody joins the workers.
CloseSock0 ==
    /\ IOAt("sock0")
    /\ sock' = "half"
    /\ io' = "sock1"
    /\ UNCHANGED <<phase, todo, readable, writable, pend, msg, connVars, clientVars, stream,
                   ctlVars, workVars, procVars>>

CloseSock1 ==
    /\ IOAt("sock1")
    /\ sock' = "closed" /\ stream' = << >>
    /\ io' = "returned"
    /\ UNCHANGED <<phase, todo, readable, writable, pend, msg, connVars, clientVars,
                   ctlVars, workVars, procVars>>

IOThread ==
    \/ Select \/ HandleCtlSock \/ SkipCtlSock \/ OnWorkComplete
    \/ VisitListener \/ \E c \in Accepted : VisitRead(c) \/ VisitWrite(c)
    \/ StartClosePass \/ KeepConn \/ CloseConn \/ CloseConnDelivering
    \/ WriteSome \/ WriteDone \/ WriteDoneClosing
    \/ EndClosePass \/ FreeCtl \/ CloseSock0 \/ CloseSock1
-------------------------------------------------------------------------------
(* The workers: worker_thread_proc() *)

TestSignal(w) ==
    /\ WorkerAt(w, "loop")
    /\ wpc' = [wpc EXCEPT ![w] = IF signal THEN "done" ELSE "recv"]
    /\ UNCHANGED <<ioVars, connVars, clientVars, sockVars, ctlVars, wreq, procVars>>

\* A recv takes what is there, up to one work_request.  The method and uri of
\* the copied http_message still point into recv_mbuf: reading them when those
\* bytes were overwritten or freed, or when the tail that holds them is missing,
\* is undefined, and the outcomes are some other text or a crash.  The tail of a
\* work_request read as a head holds zeroes, and string(NULL) crashes.
\* (Peeked: with MSG_PEEK; All: with no limit.)
TakenPeeked == 0
TakenAll    == Len(stream)
Taken       == IF Parts <= Len(stream) THEN Parts ELSE Len(stream)
Intact(r)   == text[r.conn] = r.rank
WorkerRead(w) ==
    /\ WorkerAt(w, "recv") /\ stream # << >>
    /\ stream' = SubSeq(stream, Taken + 1, Len(stream))
    /\ LET f == Head(stream) IN
         \/ /\ f.part = 1
            /\ wreq' = [wreq EXCEPT ![w] = f.req]
            /\ wpc' = [wpc EXCEPT ![w] = "work"]
            /\ UNCHANGED crashed
         \/ /\ f.part # 1 \/ Taken < Parts \/ ~Intact(f.req)
            /\ crashed' = TRUE
            /\ UNCHANGED workVars
    /\ UNCHANGED <<ioVars, connVars, clientVars, sock, ctlVars, signal, handled>>

\* recvfrom() fails or returns 0; only perror() is called, and the zeroed
\* work_request is read as if it had been received.
WorkerReadFails(w) ==
    /\ WorkerAt(w, "recv") /\ stream = << >> /\ sock # "open"
    /\ crashed' = TRUE
    /\ UNCHANGED <<ioVars, connVars, clientVars, sockVars, ctlVars, workVars, signal, handled>>

\* After the sleep: the send of mg_broadcast(), or nothing once ctl[0] is
\* INVALID_SOCKET (after the return of MultiThreadStart() the manager's stack
\* frame is gone too; whatever is read there, no IO thread is left to tell).
CtlUsableAlways == TRUE                             \* without the test
CtlUsable       == ctlOpen                          \* ctl[0] != INVALID_SOCKET

WorkerBroadcast(w) ==
    /\ WorkerAt(w, "work")
    /\ \/ /\ CtlUsable
          /\ ctl' = Append(ctl, wreq[w])
          /\ wpc' = [wpc EXCEPT ![w] = "ack"]
       \/ /\ ~CtlUsable
          /\ wpc' = [wpc EXCEPT ![w] = "loop"]
          /\ UNCHANGED ctl
    /\ wreq' = [wreq EXCEPT ![w] = NoReq]
    /\ UNCHANGED <<ioVars, connVars, clientVars, sockVars, acks, ctlOpen, procVars>>

ByteArrivedOrNot == TRUE                            \* a recv that does not block
ByteArrived      == acks > 0

\* The recv of mg_broadcast(), which any thread's byte satisfies, and a closed
\* socket too.
WorkerAck(w) ==
    /\ WorkerAt(w, "ack")
    /\ \/ ctlOpen /\ ByteArrived /\ acks' = acks - 1
       \/ ~ctlOpen /\ UNCHANGED acks
    /\ wpc' = [wpc EXCEPT ![w] = "loop"]
    /\ UNCHANGED <<ioVars, connVars, clientVars, sockVars, ctl, ctlOpen, wreq, procVars>>

Worker(w) == \/ TestSignal(w) \/ WorkerRead(w) \/ WorkerReadFails(w)
             \/ WorkerBroadcast(w) \/ WorkerAck(w)
-------------------------------------------------------------------------------
Next == \/ Client \/ SignalHandler
        \/ IOThread
        \/ \E w \in Workers : Worker(w)

SafeSpec == Init /\ [][Next]_vars

\* Every thread that can run does: select() has a timeout, sleep() ends, and a
\* recv() or write() that can complete returns.
Spec == /\ SafeSpec
        /\ WF_vars(IOThread)
        /\ \A w \in Workers : WF_vars(Worker(w))
-------------------------------------------------------------------------------
IOTypeOK ==
    /\ io \in {"select", "ctl", "callback", "read", "send", "write", "close", "sendclose",
               "free", "sock0", "sock1", "returned"}
    /\ phase \in {"run", "last", "free"}
    /\ todo \in Seq(Conns)
    /\ readable \subseteq Conns \cup {Ctl} /\ writable \subseteq Accepted
    /\ pend \in Seq(Fragment)
    /\ msg \in Request \cup {NoReq}
ConnTypeOK ==
    /\ active \in Seq(Conns) /\ accepted \in Nat
    /\ udata \in [Conns -> 0..(IdMod - 1)]
    /\ flags \in [Conns -> SUBSET {"SEND_AND_CLOSE", "CLOSE_IMMEDIATELY"}]
    /\ rbuf \in [Conns -> Nat] /\ sbuf \in [Conns -> Seq(Request)]
    /\ text \in [Conns -> 0..MaxReqs] /\ delivered \in [Conns -> 0..MaxReqs]
ClientTypeOK ==
    /\ backlog \in Nat /\ client \in [Conns -> {"open", "fin", "reset"}]
    /\ wire \in [Conns -> Nat] /\ budget \in Nat
    /\ answered \subseteq Accepted \X (1..MaxReqs)
SockTypeOK == stream \in Seq(Fragment) /\ sock \in {"open", "half", "closed"}
CtlTypeOK  == ctl \in Seq(Request) /\ acks \in Nat /\ ctlOpen \in BOOLEAN
WorkTypeOK == /\ wpc \in [Workers -> {"loop", "recv", "work", "ack", "done"}]
              /\ wreq \in [Workers -> Request \cup {NoReq}]
ProcTypeOK == /\ signal \in BOOLEAN /\ crashed \in BOOLEAN
              /\ handled \subseteq Accepted \X (1..MaxReqs)

\* What the program keeps, group by group.  The ranks and the ids stay in range,
\* and no step takes the head of an empty queue.
TypeOK == /\ IOTypeOK /\ ConnTypeOK /\ ClientTypeOK
          /\ SockTypeOK /\ CtlTypeOK /\ WorkTypeOK /\ ProcTypeOK

\* What makes TypeOK inductive.  While the write on sock[0] lasts, the request
\* it carries is counted both as delivered and as buffered.
Twice(c)       == IF io \in {"send", "sendclose"} /\ c = Head(todo) THEN 1 ELSE 0
CtlReady       == io = "ctl" /\ Ctl \in readable => ctl # << >>
MsgTaken       == io = "callback" => msg \in Request
ConnVisited    == io \in {"send", "sendclose", "write"}
                     => todo # << >> /\ Head(todo) \in Accepted
TextKept       == io \in {"send", "sendclose"} => rbuf[Head(todo)] > 0
ListenerSilent == rbuf[Listener] = 0
ConnsBounded   == accepted + backlog <= MaxConns
ReqsBounded    == \A c \in Accepted : delivered[c] + rbuf[c] + wire[c] + budget
                                        <= MaxReqs + Twice(c)
WorkersHold    == \A w \in Workers : wpc[w] = "work" => wreq[w] \in Request

Consistent == /\ CtlReady /\ MsgTaken /\ ConnVisited /\ TextKept
              /\ ListenerSilent /\ ConnsBounded /\ ReqsBounded /\ WorkersHold

\* mg_broadcast() called by several workers at once: one queued message or one
\* acknowledgement for each worker blocked in it, until the pair is closed.
Blocked == {w \in Workers : wpc[w] = "ack"}
CtlAccounting == ctlOpen => Cardinality(Blocked) = Len(ctl) + acks

\* "This ID tells which connection the message is for": whatever happened
\* between the request and its callback (closes, new accepts), the answers in a
\* connection's send buffer are answers to its own requests.
NoCrossTalk == \A c \in Accepted : \A i \in 1..Len(sbuf[c]) : sbuf[c][i].conn = c

\* Where a delivered request can be: in the hands of the IO thread, on the
\* stream, with a worker, on its way back, in the callback.
Heads(s, c, k) == Cardinality({i \in 1..Len(s) :
                     s[i].part = 1 /\ s[i].req.conn = c /\ s[i].req.rank = k})
Copies(c, k) ==
    LET Is(r) == r.conn = c /\ r.rank = k
    IN  Heads(pend, c, k) + Heads(stream, c, k)
          + Cardinality({w \in Workers : Is(wreq[w])})
          + Cardinality({i \in 1..Len(ctl) : Is(ctl[i])})
          + (IF Is(msg) THEN 1 ELSE 0)
          + (IF <<c, k>> \in handled THEN 1 ELSE 0)

\* The workers share one stream and one ctl pair: no request is taken by two of
\* them and none is handled twice; none is lost while both pairs are open.
NoRequestTwice == \A c \in Accepted, k \in 1..MaxReqs : Copies(c, k) <= 1
NoRequestLost ==
    ctlOpen /\ ~crashed => \A c \in Accepted : \A k \in 1..delivered[c] : Copies(c, k) >= 1

\* "Print the message received": what a worker prints is the request the IO
\* thread wrote, so no worker dies reading it.
WorkersReadWhatWasSent == ~crashed

\* "The IO thread sends the worker a message": what the next recv() finds on the
\* stream starts with the start of a message.
MessagesWhole == stream # << >> => Head(stream).part = 1

\* The IO thread writes "the result" of a request back: one response for one
\* request.
AnsweredOnce ==
    \A c \in Accepted : \A i, j \in 1..Len(sbuf[c]) :
        sbuf[c][i] = sbuf[c][j] => i = j

\* Every request delivered to ev_handler() is answered, unless its connection
\* or the server goes first.
RequestsAnswered ==
    \A c \in Accepted, k \in 1..MaxReqs :
        delivered[c] >= k ~> \/ <<c, k>> \in answered
                            \/ client[c] # "open" \/ signal \/ crashed

\* MG_F_SEND_AND_CLOSE: an answer already in the send buffer reaches a client
\* that has only finished sending.
AnswersFlushed ==
    \A c \in Accepted, k \in 1..MaxReqs :
        (\E i \in 1..Len(sbuf[c]) : sbuf[c][i].rank = k)
            ~> \/ <<c, k>> \in answered
               \/ client[c] = "reset" \/ signal \/ crashed

\* Nobody is left to read what the IO thread is writing: each worker has seen the
\* signal, or waits in mg_broadcast() for this very thread.
WriteStuck == /\ io \in {"send", "sendclose"} /\ Room < Len(pend)
              /\ \A w \in Workers : wpc[w] \in {"done", "ack"}

\* Neither the write nor any mg_broadcast() will ever return: the workers wait for
\* the IO thread, whose write waits for them.
Deadlocked == /\ io \in {"send", "sendclose"} /\ Room < Len(pend)
              /\ ctlOpen /\ acks = 0 /\ \A w \in Workers : wpc[w] = "ack"

\* Requests delivered to ev_handler() whose callback has not run.
OpenRequests == {r \in Accepted \X (1..MaxReqs) : r[2] <= delivered[r[1]] /\ r \notin handled}

\* "The IO thread sends the worker a message": its write returns sooner or later
\* as long as the open requests that no worker holds fit into the stream, with
\* what may be left there of one more.
DeadlockTakesLoad ==
    Deadlocked => Parts * (Cardinality(OpenRequests) + 1 - Cardinality(Workers)) > Cap + 1

\* A signal ends the IO thread: it leaves its loop, frees the manager and starts
\* to close the socket pair.  The one thing that can keep it is a write on
\* sock[0] that no worker will ever make room for.
ShutdownCompletes == signal ~> io \in {"sock1", "returned"} \/ crashed \/ WriteStuck

\* The hand-over of results by the workers and the event loop is the one that
\* mg_broadcast() promises: its steps, and that every call returns.
Broadcast == INSTANCE MgBroadcast WITH
                 Callers <- Workers,
                 Payload <- Request,
                 caller  <- [w \in Workers |-> IF wpc[w] = "ack" THEN "waiting" ELSE "idle"],
                 open    <- ctlOpen,
                 calling <- io = "callback"
BroadcastSafe == Broadcast!SafeSpec
BroadcastSpec == Broadcast!Spec

\* ... whoever takes the byte that was sent for another.
BroadcastReturns == Broadcast!BroadcastReturns
===============================================================================
