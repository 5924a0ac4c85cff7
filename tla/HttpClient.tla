------------------------------- MODULE HttpClient -------------------------------
(***************************************************************************)
(* HttpClient.cpp: SendReq() makes a manager with one connection, polls    *)
(* until the static s_exit_flag is set by OnHttpEvent(), and frees the     *)
(* manager, which polls once more.  One thread runs all of it; what        *)
(* interleaves with its polls is the network and the server.               *)
(*                                                                         *)
(* A reply is two pieces, its headers and its body: as long as the headers *)
(* are not complete mg_parse_http() sees nothing.  Pieces are counted: the *)
(* odd ones are headers.                                                   *)
(***************************************************************************)
EXTENDS Integers, FiniteSets

CONSTANTS
    Calls,       \* bound: calls of SendReq(), one after the other
    MaxReplies,  \* bound: replies a server sends to one request
    Env          \* what may go wrong in this instance

ASSUME ConstantsAssumption ==
    /\ Calls \in Nat /\ MaxReplies \in Nat \ {0}
    /\ Env \subseteq {"badurl", "nodns", "icmp", "refuse", "break"}

VARIABLES
    \* the thread
    call,     \* which call of SendReq() it is in or was in last
    pc,       \* where it is in the poll of its manager
    phase,    \* "run", or "last": the poll of mg_mgr_free()
    exit,     \* s_exit_flag # 0
    ready,    \* what select() reported of the connection
    \* the connection
    conn,     \* "resolving", "connecting", "open", "gone"
    flags,    \* nc->flags, of which the two closing ones
    out,      \* the request is in send_mbuf
    rbuf,     \* pieces in recv_mbuf
    \* resolver, network and server
    dns,      \* "pending", "answer", "failed"
    net,      \* "syn", "up", "refused", "fin", "reset": the server's end
    asked,    \* the request has reached the server
    sized,    \* its replies have a Content-Length
    sent,     \* pieces it has sent
    wire,     \* pieces on their way
    \* history
    called,   \* how often req_callback has run for each call
    got,      \* calls in which some piece was read
    cut,      \* calls in which req_callback was given a reply without its end
    broken    \* calls in which the server did not complete a reply

threadVars == <<call, pc, phase, exit, ready>>
connVars   == <<conn, flags, out, rbuf>>
peerVars   == <<dns, net, asked, sized, sent, wire>>
history    == <<called, got, cut, broken>>
vars == <<threadVars, connVars, peerVars, history>>

Init ==
    /\ call = 0 /\ pc = "idle" /\ phase = "run" /\ exit = FALSE /\ ready = {}
    /\ conn = "gone" /\ flags = {} /\ out = FALSE /\ rbuf = 0
    /\ dns = "pending" /\ net = "syn" /\ asked = FALSE /\ sized = FALSE
    /\ sent = 0 /\ wire = 0
    /\ called = [k \in 1..Calls |-> 0] /\ got = {} /\ cut = {} /\ broken = {}
-------------------------------------------------------------------------------
(* Resolver, network and server *)

Resolved ==
    /\ conn = "resolving" /\ dns = "pending"
    /\ \/ dns' = "answer"
       \/ "nodns" \in Env /\ dns' = "failed"
    /\ UNCHANGED <<threadVars, connVars, net, asked, sized, sent, wire, history>>

Accept ==
    /\ conn = "connecting" /\ net = "syn"
    /\ \/ net' = "up"
       \/ "refuse" \in Env /\ net' = "refused"
    /\ UNCHANGED <<threadVars, connVars, dns, asked, sized, sent, wire, history>>

ServerSend ==
    /\ conn = "open" /\ net = "up" /\ asked
    /\ sent < 2 * (IF sized THEN MaxReplies ELSE 1)
    /\ sent' = sent + 1 /\ wire' = wire + 1
    /\ UNCHANGED <<threadVars, connVars, dns, net, asked, sized, history>>

Replied == sent > 0 /\ sent % 2 = 0
ServerClose ==
    /\ conn \in {"connecting", "open"} /\ net = "up"
    /\ Replied \/ "break" \in Env
    /\ net' = "fin"
    /\ broken' = IF Replied THEN broken ELSE broken \cup {call}
    /\ UNCHANGED <<threadVars, connVars, dns, asked, sized, sent, wire, called, got, cut>>

ServerReset ==
    /\ "break" \in Env /\ conn \in {"connecting", "open"} /\ net \in {"up", "fin"}
    /\ net' = "reset" /\ wire' = 0
    /\ broken' = broken \cup {call}
    /\ UNCHANGED <<threadVars, connVars, dns, asked, sized, sent, called, got, cut>>

Peer == Resolved \/ Accept \/ ServerSend \/ ServerClose \/ ServerReset
-------------------------------------------------------------------------------
(* SendReq() and the poll of its manager *)

\* mg_connect_http() puts the request in send_mbuf at once.  A host name is
\* resolved first.  For a url it cannot parse it returns NULL, which
\* mg_set_protocol_http_websocket() dereferences.
SendReq ==
    /\ pc = "idle" /\ call < Calls
    /\ call' = call + 1
    /\ \/ pc' = "loop" /\ conn' \in {"resolving", "connecting"} /\ out' = TRUE
       \/ "badurl" \in Env /\ pc' = "crashed" /\ UNCHANGED <<conn, out>>
    /\ phase' = "run" /\ ready' = {} /\ flags' = {} /\ rbuf' = 0
    /\ dns' = "pending" /\ net' = "syn" /\ asked' = FALSE /\ sized' \in BOOLEAN
    /\ sent' = 0 /\ wire' = 0
    /\ UNCHANGED <<exit, history>>

\* `while (s_exit_flag == 0)', else the last poll of mg_mgr_free(); select().
CanRead  == wire > 0 \/ net \in {"fin", "reset"}
CanWrite == IF conn = "connecting" THEN net # "syn" ELSE out
Select ==
    /\ pc = "loop"
    /\ phase' = IF exit THEN "last" ELSE "run"
    /\ ready' = IF conn \in {"connecting", "open"}
                THEN {d \in {"read", "write"} : IF d = "read" THEN CanRead ELSE CanWrite}
                ELSE {}
    /\ pc' = "visit"
    /\ UNCHANGED <<call, exit, connVars, peerVars, history>>

\* resolve_cb() with an address: the connection joins the list at its head, so
\* this poll does not visit it.
Resolve ==
    /\ pc = "visit" /\ conn = "resolving" /\ dns = "answer"
    /\ conn' = "connecting"
    /\ pc' = "close"
    /\ UNCHANGED <<call, phase, exit, ready, flags, out, rbuf, peerVars, history>>

\* OnHttpEvent(), MG_EV_CONNECT with an error.
OnConnectError == exit' = TRUE

\* ... and with a failure: EV_CONNECT with an error, EV_CLOSE.
ResolveFails ==
    /\ pc = "visit" /\ conn = "resolving" /\ dns = "failed"
    /\ OnConnectError
    /\ conn' = "gone"
    /\ pc' = "close"
    /\ UNCHANGED <<call, phase, ready, flags, out, rbuf, peerVars, history>>

\* ... and where the resolver's recvfrom() failed, the buffer that was freed is
\* freed again, with what effect nobody can say.
ResolverCrashes ==
    /\ "icmp" \in Env /\ pc = "visit" /\ conn = "resolving"
    /\ pc' = "crashed" /\ conn' = "gone"
    /\ UNCHANGED <<call, phase, exit, ready, flags, out, rbuf, peerVars, history>>

\* mg_mgr_handle_conn() of a connecting socket that select() reported.
Connect ==
    /\ pc = "visit" /\ conn = "connecting" /\ ready # {} /\ net \in {"up", "fin"}
    /\ conn' = "open"
    /\ pc' = "read"
    /\ UNCHANGED <<call, phase, exit, ready, flags, out, rbuf, peerVars, history>>

ConnectFails ==
    /\ pc = "visit" /\ conn = "connecting" /\ ready # {} /\ net \in {"refused", "reset"}
    /\ OnConnectError
    /\ flags' = flags \cup {"CLOSE_IMMEDIATELY"}
    /\ conn' = "open"
    /\ pc' = "close"
    /\ UNCHANGED <<call, phase, ready, out, rbuf, peerVars, history>>

VisitOther ==
    /\ pc = "visit"
    /\ \/ conn = "open" /\ pc' = "read"
       \/ /\ \/ conn = "gone"
             \/ conn = "resolving" /\ dns = "pending"
             \/ conn = "connecting" /\ ready = {}
          /\ pc' = "close"
    /\ UNCHANGED <<call, phase, exit, ready, connVars, peerVars, history>>

\* OnHttpEvent(), MG_EV_HTTP_REPLY, with b pieces.
OnReply(b) ==
    /\ exit' = TRUE
    /\ called' = [called EXCEPT ![call] = @ + 1]
    /\ cut' = IF b % 2 = 0 THEN cut ELSE cut \cup {call}

\* mg_http_handler() on MG_EV_RECV: at most one message, if it is all there, and
\* mbuf_remove() of it.  Without Content-Length its length is ~0.  (Head: without
\* the test; All: nothing is removed.)
WholeHead(b) == sized
Whole(b)     == sized /\ b >= 2
Message(b)   == IF b >= 2 THEN 2 ELSE b
LeftAll(b)   == b
Left(b)      == b - Message(b)

Recv ==
    /\ pc = "read" /\ "read" \in ready /\ wire > 0
    /\ \E n \in 1..wire :
          /\ wire' = wire - n
          /\ \/ /\ Whole(rbuf + n)
                /\ rbuf' = Left(rbuf + n)
                /\ OnReply(Message(rbuf + n))
                /\ flags' = flags \cup {"SEND_AND_CLOSE"}
             \/ /\ ~Whole(rbuf + n)
                /\ rbuf' = rbuf + n
                /\ UNCHANGED <<exit, called, cut, flags>>
    /\ got' = got \cup {call}
    /\ pc' = "write"
    /\ UNCHANGED <<call, phase, ready, conn, out, dns, net, asked, sized, sent, broken>>

RecvNothing ==
    /\ pc = "read"
    /\ \/ /\ "read" \in ready /\ wire = 0
          /\ flags' = flags \cup {IF net = "fin" THEN "SEND_AND_CLOSE" ELSE "CLOSE_IMMEDIATELY"}
       \/ "read" \notin ready /\ UNCHANGED flags
    /\ pc' = "write"
    /\ UNCHANGED <<call, phase, exit, ready, conn, out, rbuf, peerVars, history>>

Write ==
    /\ pc = "write"
    /\ \/ /\ "write" \in ready /\ out /\ "CLOSE_IMMEDIATELY" \notin flags /\ net # "reset"
          /\ out' = FALSE /\ asked' = TRUE
          /\ UNCHANGED flags
       \/ /\ "write" \in ready /\ out /\ "CLOSE_IMMEDIATELY" \notin flags /\ net = "reset"
          /\ flags' = flags \cup {"CLOSE_IMMEDIATELY"}
          /\ UNCHANGED <<out, asked>>
       \/ /\ "write" \notin ready \/ ~out \/ "CLOSE_IMMEDIATELY" \in flags
          /\ UNCHANGED <<out, asked, flags>>
    /\ pc' = "close"
    /\ UNCHANGED <<call, phase, exit, ready, conn, rbuf, dns, net, sized, sent, wire, history>>

\* The last pass of the poll, or the loop of mg_mgr_free().  (Flushed: only of
\* what has been flushed.)
MustCloseFlushed == pc = "free" \/ ("SEND_AND_CLOSE" \in flags /\ ~out)
MustClose == \/ pc = "free"
             \/ "CLOSE_IMMEDIATELY" \in flags
             \/ "SEND_AND_CLOSE" \in flags /\ ~out
AfterPass == CASE pc = "free"     -> "idle"
               [] pc = "close" /\ phase = "last" -> "free"
               [] pc = "close" /\ phase = "run"  -> "loop"

\* mg_http_handler() on MG_EV_CLOSE hands over whatever recv_mbuf holds, and
\* OnHttpEvent() sets the flag on MG_EV_CLOSE.  (Not: it does not.)
HandedNot  == FALSE
Handed     == rbuf > 0
OnCloseNot == exit
OnClose    == TRUE
CloseConn ==
    /\ pc \in {"close", "free"} /\ conn \in {"connecting", "open"} /\ MustClose
    /\ \/ Handed /\ OnReply(rbuf)
       \/ ~Handed /\ exit' = OnClose /\ UNCHANGED <<called, cut>>
    /\ conn' = "gone" /\ rbuf' = 0
    /\ pc' = AfterPass
    /\ UNCHANGED <<call, phase, ready, flags, out, peerVars, got, broken>>

\* Freeing the manager closes the resolver's connection, whose callback fails.
CloseResolver ==
    /\ pc = "free" /\ conn = "resolving"
    /\ OnConnectError
    /\ conn' = "gone"
    /\ pc' = AfterPass
    /\ UNCHANGED <<call, phase, ready, flags, out, rbuf, peerVars, history>>

CloseNothing ==
    /\ \/ pc \in {"close", "free"} /\ conn = "gone"
       \/ pc = "close" /\ conn = "resolving"
       \/ pc = "close" /\ conn \in {"connecting", "open"} /\ ~MustClose
    /\ pc' = AfterPass
    /\ UNCHANGED <<call, phase, exit, ready, connVars, peerVars, history>>

Poll == \/ Select \/ Resolve \/ ResolveFails \/ ResolverCrashes \/ Connect \/ ConnectFails
        \/ VisitOther \/ Recv \/ RecvNothing \/ Write \/ CloseConn \/ CloseResolver \/ CloseNothing

Next == Peer \/ SendReq \/ Poll

SafeSpec == Init /\ [][Next]_vars

\* The thread runs; the resolver reports an answer or a failure after its
\* retries; a server that accepts and is asked completes its replies, and closes
\* where only that ends a reply.  SendReq() sets no timer, so nothing can be said
\* of it with a server that is silent for ever.
Spec == /\ SafeSpec
        /\ WF_vars(Poll)
        /\ WF_vars(Resolved) /\ WF_vars(Accept) /\ WF_vars(ServerSend)
        /\ WF_vars(~sized /\ ServerClose)
-------------------------------------------------------------------------------
\* The states of a call; no call runs its callback more often than its server
\* sent replies, whether a reply was handed over on receipt or on close.
TypeOK ==
    /\ call \in 0..Calls
    /\ pc \in {"idle", "loop", "visit", "read", "write", "close", "free", "crashed"}
    /\ phase \in {"run", "last"} /\ exit \in BOOLEAN
    /\ ready \subseteq {"read", "write"}
    /\ conn \in {"resolving", "connecting", "open", "gone"}
    /\ flags \subseteq {"SEND_AND_CLOSE", "CLOSE_IMMEDIATELY"}
    /\ out \in BOOLEAN /\ rbuf \in Nat
    /\ dns \in {"pending", "answer", "failed"}
    /\ net \in {"syn", "up", "refused", "fin", "reset"}
    /\ asked \in BOOLEAN /\ sized \in BOOLEAN
    /\ sent \in 0..(2 * MaxReplies) /\ wire \in Nat
    /\ called \in [1..Calls -> 0..MaxReplies]
    /\ got \subseteq 1..Calls /\ cut \subseteq 1..Calls /\ broken \subseteq 1..Calls

\* The loop of SendReq() has no other end than the flag: it never goes on with
\* the flag clear when there is no connection left that could set it.
PollsForSomething == pc = "loop" /\ ~exit => conn # "gone"

\* What makes TypeOK, PollsForSomething and NothingDropped inductive.
CallOpen   == /\ pc \notin {"idle", "crashed"} => call > 0
              /\ pc \in {"idle", "crashed"} => conn = "gone"
              /\ pc \in {"read", "write"} => conn = "open"
FlagSet    == pc \notin {"idle", "crashed"} /\ conn = "gone" => exit
PiecesOf   == conn # "gone" => 2 * called[call] + rbuf + wire <= sent
CallsToCome == \A k \in 1..Calls : k > call => called[k] = 0
ReadKept   == \A k \in got : /\ k <= call
                             /\ called[k] = 0 => k = call /\ conn = "open" /\ rbuf > 0
Consistent == CallOpen /\ FlagSet /\ PiecesOf /\ CallsToCome /\ ReadKept

\* What was read of a reply is not dropped when the manager is freed: if anything
\* was read, the callback has run before SendReq() returns.
NothingDropped == pc = "idle" => \A k \in got : called[k] >= 1

\* "Send one request and call back": one callback for one request, whether the
\* reply ends with its length or with the connection.
CalledBackOnce == \A k \in 1..Calls : called[k] <= 1

\* However a reply is fragmented, the callback gets all of it, unless the server
\* itself broke off.
RepliesWhole == cut \subseteq broken

\* "Send one request and call back": with a server that accepts and answers,
\* every call has run its callback when it returns.
EachCallAnswered == pc = "idle" => \A k \in 1..call : called[k] >= 1
===============================================================================
