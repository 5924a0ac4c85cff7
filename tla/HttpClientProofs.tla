---------------------------- MODULE HttpClientProofs ----------------------------
(***************************************************************************)
(* For any number of calls of SendReq() and of replies to each: the types, *)
(* with the bound on callbacks they hold; that the loop never polls for    *)
(* nothing; that nothing read is dropped; that callbacks get whole replies.*)
(*                                                                         *)
(* The callbacks of a call are bounded by counting pieces (PiecesOf): two  *)
(* for each callback, the ones in recv_mbuf and the ones on the wire are   *)
(* at most the ones sent.  For whole replies that count is exact until the *)
(* server breaks off (NoneLost), and Ends adds what may mark a connection  *)
(* for closing, and that a flag left by the call before leaves no time to  *)
(* read anything.                                                          *)
(***************************************************************************)
EXTENDS HttpClientLookup, TLAPS

Inv == TypeOK /\ Consistent

\* The server and the network only add pieces they count as sent.
LEMMA PeerStep == Inv /\ Peer => Inv'
<1> SUFFICES ASSUME Inv, Peer PROVE Inv'
  OBVIOUS
<1> USE DEF Inv, Consistent, threadVars, connVars, peerVars, history
<1>1. CASE Resolved
  <2>1. TypeOK'
    BY <1>1, ConstantsAssumption DEF Resolved, TypeOK
  <2>2. CallOpen' /\ FlagSet'
    BY <1>1 DEF Resolved, TypeOK, CallOpen, FlagSet
  <2>3. PiecesOf'
    BY <1>1 DEF Resolved, TypeOK, CallOpen, PiecesOf
  <2>4. CallsToCome' /\ ReadKept'
    BY <1>1 DEF Resolved, TypeOK, CallOpen, CallsToCome, ReadKept
  <2> QED BY <2>1, <2>2, <2>3, <2>4
<1>2. CASE Accept
  <2>1. TypeOK'
    BY <1>2, ConstantsAssumption DEF Accept, TypeOK
  <2>2. CallOpen' /\ FlagSet'
    BY <1>2 DEF Accept, TypeOK, CallOpen, FlagSet
  <2>3. PiecesOf'
    BY <1>2 DEF Accept, TypeOK, CallOpen, PiecesOf
  <2>4. CallsToCome' /\ ReadKept'
    BY <1>2 DEF Accept, TypeOK, CallOpen, CallsToCome, ReadKept
  <2> QED BY <2>1, <2>2, <2>3, <2>4
<1>3. CASE ServerSend
  <2>1. TypeOK'
    BY <1>3, ConstantsAssumption DEF ServerSend, TypeOK
  <2>2. CallOpen' /\ FlagSet'
    BY <1>3 DEF ServerSend, TypeOK, CallOpen, FlagSet
  <2>3. PiecesOf'
    BY <1>3 DEF ServerSend, TypeOK, CallOpen, PiecesOf
  <2>4. CallsToCome' /\ ReadKept'
    BY <1>3 DEF ServerSend, TypeOK, CallOpen, CallsToCome, ReadKept
  <2> QED BY <2>1, <2>2, <2>3, <2>4
<1>4. CASE ServerClose
  <2>1. TypeOK'
    <3>1. call \in 1..Calls
      BY <1>4 DEF ServerClose, TypeOK, CallOpen
    <3>2. broken' \subseteq 1..Calls
      BY <1>4, <3>1 DEF ServerClose, TypeOK
    <3>3. wire' \in Nat /\ net' \in {"fin", "reset"}
      BY <1>4 DEF ServerClose, TypeOK
    <3> QED BY <1>4, <3>2, <3>3 DEF ServerClose, TypeOK
  <2>2. CallOpen' /\ FlagSet'
    BY <1>4 DEF ServerClose, TypeOK, CallOpen, FlagSet
  <2>3. PiecesOf'
    BY <1>4 DEF ServerClose, TypeOK, CallOpen, PiecesOf
  <2>4. CallsToCome' /\ ReadKept'
    BY <1>4 DEF ServerClose, TypeOK, CallOpen, CallsToCome, ReadKept
  <2> QED BY <2>1, <2>2, <2>3, <2>4
<1>5. CASE ServerReset
  <2>1. TypeOK'
    <3>1. call \in 1..Calls
      BY <1>5 DEF ServerReset, TypeOK, CallOpen
    <3>2. broken' \subseteq 1..Calls
      BY <1>5, <3>1 DEF ServerReset, TypeOK
    <3>3. wire' \in Nat /\ net' \in {"fin", "reset"}
      BY <1>5 DEF ServerReset, TypeOK
    <3> QED BY <1>5, <3>2, <3>3 DEF ServerReset, TypeOK
  <2>2. CallOpen' /\ FlagSet'
    BY <1>5 DEF ServerReset, TypeOK, CallOpen, FlagSet
  <2>3. PiecesOf'
    BY <1>5 DEF ServerReset, TypeOK, CallOpen, PiecesOf
  <2>4. CallsToCome' /\ ReadKept'
    BY <1>5 DEF ServerReset, TypeOK, CallOpen, CallsToCome, ReadKept
  <2> QED BY <2>1, <2>2, <2>3, <2>4
<1> QED BY <1>1, <1>2, <1>3, <1>4, <1>5 DEF Peer

\* A new call starts with nothing sent and no callback.
LEMMA SendReqStep == Inv /\ SendReq => Inv'
<1> SUFFICES ASSUME Inv, SendReq PROVE Inv'
  OBVIOUS
<1> USE ConstantsAssumption DEF Inv, TypeOK, Consistent, CallOpen, FlagSet, PiecesOf,
        CallsToCome, ReadKept, history
<1>1. call' = call + 1 /\ call' \in 1..Calls /\ called[call'] = 0
  BY DEF SendReq
<1>2. TypeOK'
  <2>1. 0 \in 0..(2 * MaxReplies)
    OBVIOUS
  <2>2. UNCHANGED <<exit, called, got, cut, broken>>
    BY DEF SendReq
  <2>3. /\ pc' \in {"loop", "crashed"} /\ out' \in BOOLEAN
        /\ conn' \in {"resolving", "connecting", "open", "gone"}
    BY DEF SendReq
  <2>4. /\ phase' = "run" /\ ready' = {} /\ flags' = {} /\ rbuf' = 0
        /\ dns' = "pending" /\ net' = "syn" /\ asked' = FALSE /\ sized' \in BOOLEAN
        /\ sent' = 0 /\ wire' = 0
    BY DEF SendReq
  <2>5. call' \in 0..Calls
    BY <1>1
  <2> QED BY <2>1, <2>2, <2>3, <2>4, <2>5
<1>3. CallOpen' /\ FlagSet' /\ PiecesOf' /\ CallsToCome'
  BY <1>1 DEF SendReq
<1>4. ReadKept'
  BY <1>1 DEF SendReq
<1> QED BY <1>2, <1>3, <1>4

\* A callback finds room in its bound when a piece of its reply was counted.
LEMMA ReplyCounted ==
  ASSUME Inv, NEW b \in Nat, conn # "gone", pc \notin {"idle", "crashed"},
         b > 0, 2 * called[call] + b <= sent, OnReply(b)
  PROVE  /\ called' \in [1..Calls -> 0..MaxReplies]
         /\ called'[call] = called[call] + 1
         /\ \A k \in 1..Calls : k # call => called'[k] = called[k]
         /\ cut' \subseteq 1..Calls
         /\ exit'
<1>1. call \in 1..Calls
  BY DEF Inv, TypeOK, Consistent, CallOpen
<1>2. called[call] \in 0..MaxReplies /\ sent \in 0..(2 * MaxReplies)
  BY <1>1 DEF Inv, TypeOK
<1>3. called[call] + 1 \in 0..MaxReplies
  BY <1>2, ConstantsAssumption
<1> QED BY <1>1, <1>3 DEF Inv, TypeOK, OnReply

LEMMA RecvStep == Inv /\ Recv => Inv'
<1> SUFFICES ASSUME Inv, Recv PROVE Inv'
  OBVIOUS
<1>1. PICK n \in 1..wire :
          /\ wire' = wire - n
          /\ \/ /\ Whole(rbuf + n)
                /\ rbuf' = Left(rbuf + n)
                /\ OnReply(Message(rbuf + n))
                /\ flags' = flags \cup {"SEND_AND_CLOSE"}
             \/ /\ ~Whole(rbuf + n)
                /\ rbuf' = rbuf + n
                /\ UNCHANGED <<exit, called, cut, flags>>
  BY DEF Recv
<1>2. /\ conn = "open" /\ call \in 1..Calls /\ pc = "read"
      /\ wire \in Nat /\ rbuf \in Nat /\ called[call] \in Nat /\ sent \in Nat
      /\ 2 * called[call] + rbuf + wire <= sent
  BY DEF Recv, Inv, TypeOK, Consistent, CallOpen, PiecesOf
<1>3. CASE Whole(rbuf + n)
  <2>1. /\ rbuf + n >= 2 /\ Message(rbuf + n) = 2
        /\ rbuf' = (rbuf + n) - 2 /\ OnReply(2)
        /\ flags' = flags \cup {"SEND_AND_CLOSE"} /\ wire' = wire - n
    BY <1>1, <1>2, <1>3 DEF Whole, Message, Left
  <2>2. /\ called' \in [1..Calls -> 0..MaxReplies]
        /\ called'[call] = called[call] + 1
        /\ \A k \in 1..Calls : k # call => called'[k] = called[k]
        /\ cut' \subseteq 1..Calls
        /\ exit'
    BY <1>2, <2>1, ReplyCounted
  <2>3. TypeOK'
    BY <1>2, <2>1, <2>2 DEF Recv, OnReply, Inv, TypeOK
  <2>4. CallOpen' /\ FlagSet' /\ PiecesOf' /\ CallsToCome'
    BY <1>2, <2>1, <2>2 DEF Recv, Inv, TypeOK, Consistent, CallOpen, FlagSet, PiecesOf, CallsToCome
  <2>5. ReadKept'
    BY <1>2, <2>2 DEF Recv, Inv, TypeOK, Consistent, ReadKept
  <2> QED BY <2>3, <2>4, <2>5 DEF Inv, Consistent
<1>4. CASE ~Whole(rbuf + n)
  <2>1. rbuf' = rbuf + n /\ wire' = wire - n /\ UNCHANGED <<exit, called, cut, flags>>
    BY <1>1, <1>4
  <2>2. TypeOK'
    BY <1>2, <2>1 DEF Recv, Inv, TypeOK
  <2>3. CallOpen' /\ FlagSet' /\ PiecesOf' /\ CallsToCome'
    BY <1>2, <2>1 DEF Recv, Inv, TypeOK, Consistent, CallOpen, FlagSet, PiecesOf, CallsToCome
  <2>4. ReadKept'
    BY <1>2, <2>1 DEF Recv, Inv, TypeOK, Consistent, ReadKept
  <2> QED BY <2>2, <2>3, <2>4 DEF Inv, Consistent
<1> QED BY <1>3, <1>4

LEMMA CloseConnStep == Inv /\ CloseConn => Inv'
<1> SUFFICES ASSUME Inv, CloseConn PROVE Inv'
  OBVIOUS
<1>1. /\ conn # "gone" /\ call \in 1..Calls /\ pc \in {"close", "free"}
      /\ wire \in Nat /\ rbuf \in Nat /\ called[call] \in Nat /\ sent \in Nat
      /\ 2 * called[call] + rbuf + wire <= sent
  BY DEF CloseConn, Inv, TypeOK, Consistent, CallOpen, PiecesOf
<1>2. pc' \in {"idle", "free", "loop"} /\ conn' = "gone" /\ rbuf' = 0
  BY <1>1 DEF CloseConn, AfterPass, Inv, TypeOK
<1>3. CASE Handed
  <2>1. rbuf > 0 /\ 2 * called[call] + rbuf <= sent /\ OnReply(rbuf)
    BY <1>1, <1>3 DEF CloseConn, Handed
  <2>2. /\ called' \in [1..Calls -> 0..MaxReplies]
        /\ called'[call] = called[call] + 1
        /\ \A k \in 1..Calls : k # call => called'[k] = called[k]
        /\ cut' \subseteq 1..Calls
        /\ exit'
    BY <1>1, <2>1, ReplyCounted
  <2>3. TypeOK'
    BY <1>1, <1>2, <2>1, <2>2 DEF CloseConn, OnReply, Inv, TypeOK, peerVars
  <2>4. CallOpen' /\ FlagSet' /\ PiecesOf' /\ CallsToCome'
    BY <1>1, <1>2, <2>2 DEF CloseConn, Inv, TypeOK, Consistent, CallOpen, FlagSet, PiecesOf,
                            CallsToCome
  <2>5. ReadKept'
    BY <1>1, <1>2, <2>2 DEF CloseConn, Inv, TypeOK, Consistent, ReadKept
  <2> QED BY <2>3, <2>4, <2>5 DEF Inv, Consistent
<1>4. CASE ~Handed
  <2>1. rbuf = 0 /\ exit' = TRUE /\ UNCHANGED <<called, cut>>
    BY <1>1, <1>4 DEF CloseConn, Handed, OnClose
  <2>2. TypeOK'
    BY <1>1, <1>2, <2>1 DEF CloseConn, Inv, TypeOK, peerVars
  <2>3. CallOpen' /\ FlagSet' /\ PiecesOf' /\ CallsToCome'
    BY <1>1, <1>2, <2>1 DEF CloseConn, Inv, TypeOK, Consistent, CallOpen, FlagSet, PiecesOf,
                            CallsToCome
  <2>4. ReadKept'
    BY <1>1, <1>2, <2>1 DEF CloseConn, Inv, TypeOK, Consistent, ReadKept
  <2> QED BY <2>2, <2>3, <2>4 DEF Inv, Consistent
<1> QED BY <1>3, <1>4

LEMMA PollStep == Inv /\ Poll => Inv'
<1> SUFFICES ASSUME Inv, Poll PROVE Inv'
  OBVIOUS
<1> USE DEF Inv, Consistent, connVars, peerVars, history
<1>1. CASE Select
  <2>1. TypeOK'
    BY <1>1, ConstantsAssumption DEF Select, TypeOK
  <2>2. CallOpen' /\ FlagSet'
    BY <1>1 DEF Select, TypeOK, CallOpen, FlagSet
  <2>3. PiecesOf'
    BY <1>1 DEF Select, TypeOK, CallOpen, PiecesOf
  <2>4. CallsToCome' /\ ReadKept'
    BY <1>1 DEF Select, TypeOK, CallOpen, CallsToCome, ReadKept
  <2> QED BY <2>1, <2>2, <2>3, <2>4
<1>2. CASE Resolve
  <2>1. TypeOK'
    BY <1>2, ConstantsAssumption DEF Resolve, TypeOK
  <2>2. CallOpen' /\ FlagSet'
    BY <1>2 DEF Resolve, TypeOK, CallOpen, FlagSet
  <2>3. PiecesOf'
    BY <1>2 DEF Resolve, TypeOK, CallOpen, PiecesOf
  <2>4. CallsToCome' /\ ReadKept'
    BY <1>2 DEF Resolve, TypeOK, CallOpen, CallsToCome, ReadKept
  <2> QED BY <2>1, <2>2, <2>3, <2>4
<1>3. CASE ResolveFails
  <2>1. TypeOK'
    BY <1>3, ConstantsAssumption DEF ResolveFails, OnConnectError, TypeOK
  <2>2. CallOpen' /\ FlagSet'
    BY <1>3 DEF ResolveFails, OnConnectError, TypeOK, CallOpen, FlagSet
  <2>3. PiecesOf'
    BY <1>3 DEF ResolveFails, OnConnectError, TypeOK, CallOpen, PiecesOf
  <2>4. CallsToCome' /\ ReadKept'
    BY <1>3 DEF ResolveFails, OnConnectError, TypeOK, CallOpen, CallsToCome, ReadKept
  <2> QED BY <2>1, <2>2, <2>3, <2>4
<1>4. CASE Connect
  <2>1. TypeOK'
    BY <1>4, ConstantsAssumption DEF Connect, TypeOK
  <2>2. CallOpen' /\ FlagSet'
    BY <1>4 DEF Connect, TypeOK, CallOpen, FlagSet
  <2>3. PiecesOf'
    BY <1>4 DEF Connect, TypeOK, CallOpen, PiecesOf
  <2>4. CallsToCome' /\ ReadKept'
    BY <1>4 DEF Connect, TypeOK, CallOpen, CallsToCome, ReadKept
  <2> QED BY <2>1, <2>2, <2>3, <2>4
<1>5. CASE ConnectFails
  <2>1. TypeOK'
    BY <1>5, ConstantsAssumption DEF ConnectFails, OnConnectError, TypeOK
  <2>2. CallOpen' /\ FlagSet'
    BY <1>5 DEF ConnectFails, OnConnectError, TypeOK, CallOpen, FlagSet
  <2>3. PiecesOf'
    BY <1>5 DEF ConnectFails, OnConnectError, TypeOK, CallOpen, PiecesOf
  <2>4. CallsToCome' /\ ReadKept'
    BY <1>5 DEF ConnectFails, OnConnectError, TypeOK, CallOpen, CallsToCome, ReadKept
  <2> QED BY <2>1, <2>2, <2>3, <2>4
<1>6. CASE VisitOther
  <2>1. TypeOK'
    BY <1>6, ConstantsAssumption DEF VisitOther, TypeOK
  <2>2. CallOpen' /\ FlagSet'
    BY <1>6 DEF VisitOther, TypeOK, CallOpen, FlagSet
  <2>3. PiecesOf'
    BY <1>6 DEF VisitOther, TypeOK, CallOpen, PiecesOf
  <2>4. CallsToCome' /\ ReadKept'
    BY <1>6 DEF VisitOther, TypeOK, CallOpen, CallsToCome, ReadKept
  <2> QED BY <2>1, <2>2, <2>3, <2>4
<1>7. CASE Recv
  BY <1>7, RecvStep
<1>8. CASE RecvNothing
  <2>1. TypeOK'
    <3>1. flags' \subseteq {"SEND_AND_CLOSE", "CLOSE_IMMEDIATELY"}
      BY <1>8 DEF RecvNothing, TypeOK
    <3>2. pc' = "write"
      BY <1>8 DEF RecvNothing, TypeOK
    <3> QED BY <1>8, <3>1, <3>2 DEF RecvNothing, TypeOK
  <2>2. CallOpen' /\ FlagSet'
    BY <1>8 DEF RecvNothing, TypeOK, CallOpen, FlagSet
  <2>3. PiecesOf'
    BY <1>8 DEF RecvNothing, TypeOK, CallOpen, PiecesOf
  <2>4. CallsToCome' /\ ReadKept'
    BY <1>8 DEF RecvNothing, TypeOK, CallOpen, CallsToCome, ReadKept
  <2> QED BY <2>1, <2>2, <2>3, <2>4
<1>9. CASE Write
  <2>1. TypeOK'
    <3>1. flags' \subseteq {"SEND_AND_CLOSE", "CLOSE_IMMEDIATELY"}
      BY <1>9 DEF Write, TypeOK
    <3>2. pc' = "close" /\ out' \in BOOLEAN /\ asked' \in BOOLEAN
      BY <1>9 DEF Write, TypeOK
    <3> QED BY <1>9, <3>1, <3>2 DEF Write, TypeOK
  <2>2. CallOpen' /\ FlagSet'
    BY <1>9 DEF Write, TypeOK, CallOpen, FlagSet
  <2>3. PiecesOf'
    BY <1>9 DEF Write, TypeOK, CallOpen, PiecesOf
  <2>4. CallsToCome' /\ ReadKept'
    BY <1>9 DEF Write, TypeOK, CallOpen, CallsToCome, ReadKept
  <2> QED BY <2>1, <2>2, <2>3, <2>4
<1>10. CASE CloseConn
  BY <1>10, CloseConnStep
<1>11. CASE CloseResolver
  <2>1. TypeOK'
    BY <1>11, ConstantsAssumption DEF CloseResolver, OnConnectError, AfterPass, TypeOK
  <2>2. CallOpen' /\ FlagSet'
    BY <1>11 DEF CloseResolver, OnConnectError, AfterPass, TypeOK, CallOpen, FlagSet
  <2>3. PiecesOf'
    BY <1>11 DEF CloseResolver, OnConnectError, AfterPass, TypeOK, CallOpen, PiecesOf
  <2>4. CallsToCome' /\ ReadKept'
    BY <1>11 DEF CloseResolver, OnConnectError, AfterPass, TypeOK, CallOpen, CallsToCome, ReadKept
  <2> QED BY <2>1, <2>2, <2>3, <2>4
<1>12. CASE CloseNothing
  <2>1. TypeOK'
    BY <1>12, ConstantsAssumption DEF CloseNothing, AfterPass, TypeOK
  <2>2. CallOpen' /\ FlagSet'
    BY <1>12 DEF CloseNothing, AfterPass, TypeOK, CallOpen, FlagSet
  <2>3. PiecesOf'
    BY <1>12 DEF CloseNothing, AfterPass, TypeOK, CallOpen, PiecesOf
  <2>4. CallsToCome' /\ ReadKept'
    BY <1>12 DEF CloseNothing, AfterPass, TypeOK, CallOpen, CallsToCome, ReadKept
  <2> QED BY <2>1, <2>2, <2>3, <2>4
<1>13. CASE ResolverCrashes
  <2>1. TypeOK'
    BY <1>13, ConstantsAssumption DEF ResolverCrashes, TypeOK
  <2>2. CallOpen' /\ FlagSet'
    BY <1>13 DEF ResolverCrashes, TypeOK, CallOpen, FlagSet
  <2>3. PiecesOf'
    BY <1>13 DEF ResolverCrashes, TypeOK, CallOpen, PiecesOf
  <2>4. CallsToCome' /\ ReadKept'
    BY <1>13 DEF ResolverCrashes, TypeOK, CallOpen, CallsToCome, ReadKept
  <2> QED BY <2>1, <2>2, <2>3, <2>4
<1> QED BY <1>1, <1>2, <1>3, <1>4, <1>5, <1>6, <1>7, <1>8, <1>9, <1>10, <1>11, <1>12,
           <1>13 DEF Poll

LEMMA ClientInit == Init => Inv
<1> SUFFICES ASSUME Init PROVE Inv
  OBVIOUS
<1>1. 0 \in 0..Calls /\ 0 \in 0..MaxReplies /\ 0 \in 0..(2 * MaxReplies)
  BY ConstantsAssumption
<1>2. called \in [1..Calls -> 0..MaxReplies]
  BY <1>1 DEF Init
<1>3. TypeOK
  BY <1>1, <1>2 DEF Init, TypeOK
<1>4. Consistent
  BY DEF Init, Consistent, CallOpen, FlagSet, PiecesOf, CallsToCome, ReadKept
<1> QED BY <1>3, <1>4 DEF Inv

LEMMA ClientStep == Inv /\ [Next]_vars => Inv'
<1> SUFFICES ASSUME Inv, [Next]_vars PROVE Inv'
  OBVIOUS
<1>1. CASE UNCHANGED vars
  BY <1>1 DEF vars, threadVars, connVars, peerVars, history, Inv, TypeOK, Consistent, CallOpen,
     FlagSet, PiecesOf, CallsToCome, ReadKept
<1> QED BY <1>1, PeerStep, SendReqStep, PollStep DEF Next

LEMMA Invariance == SafeSpec => []Inv
BY ClientInit, ClientStep, PTL DEF SafeSpec

\* The types, and that no call runs its callback more often than the server may
\* reply to it.
THEOREM TypeCorrect == SafeSpec => []TypeOK
BY Invariance, PTL DEF Inv

\* The loop of SendReq() never polls a manager that can set the flag no more.
THEOREM NoIdlePolling == SafeSpec => []PollsForSomething
<1>1. Inv => PollsForSomething
  BY DEF Inv, Consistent, FlagSet, PollsForSomething
<1> QED BY <1>1, Invariance, PTL

\* Whatever was read of a reply reaches the callback before SendReq() returns.
THEOREM ReadIsDelivered == SafeSpec => []NothingDropped
<1>1. Inv => NothingDropped
  BY DEF Inv, TypeOK, Consistent, CallOpen, ReadKept, NothingDropped
<1> QED BY <1>1, Invariance, PTL

\* With servers that send one reply to one request, one callback a call.
THEOREM CallbackOnce ==
  ASSUME MaxReplies = 1
  PROVE  SafeSpec => []CalledBackOnce
<1>1. Inv => CalledBackOnce
  BY DEF Inv, TypeOK, CalledBackOnce
<1> QED BY <1>1, Invariance, PTL
-------------------------------------------------------------------------------
(* What a reply loses when its connection goes.                            *)

\* The server's end: it says nothing before it is asked, and if it goes before
\* its reply is complete the call is one of the broken ones.
PeerKept ==
    /\ conn = "resolving" => net = "syn"
    /\ conn \in {"resolving", "connecting"} => ~asked
    /\ net \in {"syn", "refused"} \/ ~asked => sent = 0
    /\ net = "fin" => call \in broken \/ sent % 2 = 0
    /\ net = "reset" => call \in broken

\* Every piece is in a callback, in recv_mbuf or on the wire.
NoneLost == conn # "gone" => call \in broken \/ 2 * called[call] + rbuf + wire = sent

\* select() reports a socket readable that has a piece, or an end.
Readable == pc \in {"visit", "read"} /\ "read" \in ready => wire > 0 \/ net \in {"fin", "reset"}

\* A connection is marked for closing by a whole reply or by the server's end.
ClosedByEnd ==
    conn # "gone" =>
        /\ "CLOSE_IMMEDIATELY" \in flags => net \in {"refused", "reset"}
        /\ "SEND_AND_CLOSE" \in flags /\ called[call] = 0
              => net = "reset" \/ (net = "fin" /\ wire = 0)

\* The last poll is made with the flag set.
LastPoll == (pc = "free" => phase = "last") /\ (phase = "last" => exit)

\* A flag left by the call before leaves this call one poll, in which nothing is
\* read.
StaleExit ==
    exit /\ conn # "gone" /\ called[call] = 0 =>
        /\ rbuf = 0
        /\ pc \in {"loop", "visit", "read", "write"} => ~asked
        /\ pc = "loop" \/ phase = "last" \/ "CLOSE_IMMEDIATELY" \in flags

\* The first callback of a call is given a whole reply.
FirstWhole == \A k \in cut : k \in broken \/ called[k] > 1

Ends == /\ PeerKept /\ NoneLost /\ Readable /\ ClosedByEnd
        /\ LastPoll /\ StaleExit /\ FirstWhole

LEMMA PeerEnds == Inv /\ Ends /\ Peer => Ends'
<1> SUFFICES ASSUME Inv, Ends, Peer PROVE Ends'
  OBVIOUS
<1> USE DEF Inv, TypeOK, Consistent, CallOpen, PiecesOf, Ends, threadVars, connVars, history
<1>1. CASE Resolved
  <2>1. PeerKept'
    BY <1>1 DEF Resolved, PeerKept
  <2>2. NoneLost'
    BY <1>1 DEF Resolved, NoneLost
  <2>3. Readable'
    BY <1>1 DEF Resolved, Readable
  <2>4. ClosedByEnd'
    BY <1>1 DEF Resolved, ClosedByEnd
  <2>5. LastPoll'
    BY <1>1 DEF Resolved, LastPoll
  <2>6. StaleExit'
    BY <1>1 DEF Resolved, StaleExit
  <2>7. FirstWhole'
    BY <1>1 DEF Resolved, FirstWhole
  <2> QED BY <2>1, <2>2, <2>3, <2>4, <2>5, <2>6, <2>7
<1>2. CASE Accept
  <2>1. PeerKept'
    BY <1>2 DEF Accept, PeerKept
  <2>2. NoneLost'
    BY <1>2 DEF Accept, NoneLost
  <2>3. Readable'
    BY <1>2 DEF Accept, Readable
  <2>4. ClosedByEnd'
    BY <1>2 DEF Accept, ClosedByEnd
  <2>5. LastPoll'
    BY <1>2 DEF Accept, LastPoll
  <2>6. StaleExit'
    BY <1>2 DEF Accept, StaleExit
  <2>7. FirstWhole'
    BY <1>2 DEF Accept, FirstWhole
  <2> QED BY <2>1, <2>2, <2>3, <2>4, <2>5, <2>6, <2>7
<1>3. CASE ServerSend
  <2>1. PeerKept'
    BY <1>3 DEF ServerSend, PeerKept
  <2>2. NoneLost'
    BY <1>3 DEF ServerSend, NoneLost
  <2>3. Readable'
    BY <1>3 DEF ServerSend, Readable
  <2>4. ClosedByEnd'
    BY <1>3 DEF ServerSend, ClosedByEnd
  <2>5. LastPoll'
    BY <1>3 DEF ServerSend, LastPoll
  <2>6. StaleExit'
    BY <1>3 DEF ServerSend, StaleExit
  <2>7. FirstWhole'
    BY <1>3 DEF ServerSend, FirstWhole
  <2> QED BY <2>1, <2>2, <2>3, <2>4, <2>5, <2>6, <2>7
<1>4. CASE ServerClose
  <2>1. PeerKept'
    BY <1>4 DEF ServerClose, Replied, PeerKept
  <2>2. NoneLost'
    BY <1>4 DEF ServerClose, Replied, NoneLost
  <2>3. Readable'
    BY <1>4 DEF ServerClose, Replied, Readable
  <2>4. ClosedByEnd'
    BY <1>4 DEF ServerClose, Replied, ClosedByEnd
  <2>5. LastPoll'
    BY <1>4 DEF ServerClose, Replied, LastPoll
  <2>6. StaleExit'
    BY <1>4 DEF ServerClose, Replied, StaleExit
  <2>7. FirstWhole'
    BY <1>4 DEF ServerClose, Replied, FirstWhole
  <2> QED BY <2>1, <2>2, <2>3, <2>4, <2>5, <2>6, <2>7
<1>5. CASE ServerReset
  <2>1. PeerKept'
    BY <1>5 DEF ServerReset, PeerKept
  <2>2. NoneLost'
    BY <1>5 DEF ServerReset, NoneLost
  <2>3. Readable'
    BY <1>5 DEF ServerReset, Readable
  <2>4. ClosedByEnd'
    BY <1>5 DEF ServerReset, ClosedByEnd
  <2>5. LastPoll'
    BY <1>5 DEF ServerReset, LastPoll
  <2>6. StaleExit'
    BY <1>5 DEF ServerReset, StaleExit
  <2>7. FirstWhole'
    BY <1>5 DEF ServerReset, FirstWhole
  <2> QED BY <2>1, <2>2, <2>3, <2>4, <2>5, <2>6, <2>7
<1> QED BY <1>1, <1>2, <1>3, <1>4, <1>5 DEF Peer

\* A new call finds no piece of an earlier one.
LEMMA SendReqEnds == Inv /\ Ends /\ SendReq => Ends'
<1> SUFFICES ASSUME Inv, Ends, SendReq PROVE Ends'
  OBVIOUS
<1> USE DEF Inv, TypeOK, Consistent, CallOpen, CallsToCome, Ends, history
<1>1. /\ call' \in 1..Calls /\ called'[call'] = 0 /\ UNCHANGED <<called, cut, broken>>
      /\ sent' = 0 /\ wire' = 0 /\ rbuf' = 0 /\ asked' = FALSE /\ net' = "syn" /\ flags' = {}
      /\ ready' = {}
  <2>1. call' \in 1..Calls /\ call' > call
    BY ConstantsAssumption DEF SendReq
  <2>2. called[call'] = 0 /\ UNCHANGED <<called, cut, broken>>
    BY <2>1 DEF SendReq
  <2> QED BY <2>1, <2>2 DEF SendReq
<1>2. pc' = "crashed" => conn' = "gone"
  <2>1. pc = "idle" /\ conn = "gone"
    BY DEF SendReq
  <2> QED BY <2>1 DEF SendReq
<1>3. PeerKept' /\ NoneLost' /\ Readable' /\ ClosedByEnd' /\ FirstWhole'
  BY <1>1, <1>2 DEF PeerKept, NoneLost, Readable, ClosedByEnd, FirstWhole
<1>4. LastPoll' /\ StaleExit'
  BY <1>1, <1>2 DEF SendReq, LastPoll, StaleExit
<1> QED BY <1>3, <1>4

LEMMA RecvEnds == Inv /\ Ends /\ Recv => Ends'
<1> SUFFICES ASSUME Inv, Ends, Recv PROVE Ends'
  OBVIOUS
<1> USE DEF Ends
<1>1. PICK n \in 1..wire :
          /\ wire' = wire - n
          /\ \/ /\ Whole(rbuf + n)
                /\ rbuf' = Left(rbuf + n)
                /\ OnReply(Message(rbuf + n))
                /\ flags' = flags \cup {"SEND_AND_CLOSE"}
             \/ /\ ~Whole(rbuf + n)
                /\ rbuf' = rbuf + n
                /\ UNCHANGED <<exit, called, cut, flags>>
  BY DEF Recv
<1>2. /\ conn = "open" /\ call \in 1..Calls /\ pc = "read" /\ pc' = "write"
      /\ wire \in Nat /\ rbuf \in Nat /\ called[call] \in Nat /\ sent \in Nat /\ wire > 0
      /\ called \in [1..Calls -> 0..MaxReplies] /\ cut \subseteq 1..Calls
      /\ flags \subseteq {"SEND_AND_CLOSE", "CLOSE_IMMEDIATELY"}
      /\ 2 * called[call] + rbuf + wire <= sent
      /\ UNCHANGED <<call, phase, ready, conn, dns, net, asked, sent, broken>>
  BY DEF Recv, Inv, TypeOK, Consistent, CallOpen, PiecesOf
<1>3. PeerKept' /\ Readable'
  BY <1>2 DEF PeerKept, Readable
<1>4. CASE Whole(rbuf + n)
  <2>1. /\ Message(rbuf + n) = 2 /\ rbuf' = (rbuf + n) - 2 /\ wire' = wire - n /\ OnReply(2)
        /\ flags' = flags \cup {"SEND_AND_CLOSE"}
    BY <1>1, <1>2, <1>4 DEF Whole, Message, Left
  <2>2. /\ called' = [called EXCEPT ![call] = @ + 1] /\ cut' = cut
        /\ called'[call] = called[call] + 1
    BY <1>2, <2>1 DEF OnReply
  <2>3. NoneLost' /\ ClosedByEnd' /\ LastPoll' /\ StaleExit'
    <3>1. exit' /\ called'[call] # 0
      BY <1>2, <2>1, <2>2 DEF OnReply
    <3>2. NoneLost'
      BY <1>2, <2>1, <2>2 DEF NoneLost
    <3>3. ClosedByEnd' /\ LastPoll' /\ StaleExit'
      BY <1>2, <2>1, <3>1 DEF ClosedByEnd, LastPoll, StaleExit
    <3> QED BY <3>2, <3>3
  <2>4. FirstWhole'
    <3>1. \A k \in 1..Calls : called[k] \in Nat /\ called'[k] \in {called[k], called[k] + 1}
      BY <1>2, <2>2, ConstantsAssumption
    <3>2. \A k \in cut : k \in 1..Calls
      BY <1>2
    <3> QED BY <1>2, <2>2, <3>1, <3>2 DEF FirstWhole
  <2> QED BY <1>3, <2>3, <2>4
<1>5. CASE ~Whole(rbuf + n)
  <2>1. rbuf' = rbuf + n /\ wire' = wire - n /\ UNCHANGED <<exit, called, cut, flags>>
    BY <1>1, <1>5
  <2>2. NoneLost' /\ ClosedByEnd' /\ LastPoll' /\ FirstWhole'
    BY <1>2, <2>1 DEF NoneLost, ClosedByEnd, LastPoll, FirstWhole
  <2>3. StaleExit'
    <3>1. sent > 0
      BY <1>2
    <3>2. asked
      BY <1>2, <3>1 DEF PeerKept
    <3>3. ~(exit /\ called[call] = 0)
      BY <1>2, <3>2 DEF StaleExit
    <3> QED BY <1>2, <2>1, <3>3 DEF StaleExit
  <2> QED BY <1>3, <2>2, <2>3
<1> QED BY <1>4, <1>5

\* What a connection that goes still holds: all of a reply, if it is the first.
LEMMA HandedWhole ==
  ASSUME Inv, Ends, CloseConn, rbuf > 0, call \notin broken, called[call] = 0
  PROVE  rbuf % 2 = 0
<1>1. /\ conn # "gone" /\ call \in 1..Calls /\ rbuf \in Nat /\ wire \in Nat /\ sent \in Nat
      /\ rbuf + wire = sent
  BY DEF CloseConn, Inv, TypeOK, Consistent, CallOpen, Ends, NoneLost
<1>2. pc # "free"
  <2>1. ~exit
    BY <1>1 DEF Ends, StaleExit
  <2> QED BY <2>1 DEF Ends, LastPoll
<1>3. "CLOSE_IMMEDIATELY" \notin flags
  BY <1>1 DEF Ends, PeerKept, ClosedByEnd
<1>4. "SEND_AND_CLOSE" \in flags
  BY <1>2, <1>3 DEF CloseConn, MustClose
<1>5. net = "fin" /\ wire = 0
  BY <1>1, <1>4 DEF Ends, PeerKept, ClosedByEnd
<1> QED BY <1>1, <1>5 DEF Ends, PeerKept

LEMMA CloseConnEnds == Inv /\ Ends /\ CloseConn => Ends'
<1> SUFFICES ASSUME Inv, Ends, CloseConn PROVE Ends'
  OBVIOUS
<1> USE DEF Ends
<1>1. /\ call \in 1..Calls /\ conn' = "gone" /\ rbuf \in Nat
      /\ called \in [1..Calls -> 0..MaxReplies] /\ cut \subseteq 1..Calls
      /\ UNCHANGED <<call, phase, ready, dns, net, asked, sent, wire, broken>>
  BY DEF CloseConn, Inv, TypeOK, Consistent, CallOpen, peerVars
<1>2. pc' \in {"idle", "free", "loop"}
  BY DEF CloseConn, AfterPass, Inv, TypeOK
<1>3. PeerKept' /\ NoneLost' /\ Readable' /\ ClosedByEnd' /\ StaleExit'
  BY <1>1, <1>2 DEF PeerKept, NoneLost, Readable, ClosedByEnd, StaleExit
<1>5. LastPoll'
  <2>1. exit'
    BY DEF CloseConn, OnReply, OnClose
  <2>2. pc' = "free" => phase = "last"
    BY DEF CloseConn, AfterPass, Inv, TypeOK
  <2> QED BY <1>1, <2>1, <2>2 DEF LastPoll
<1>4. FirstWhole'
  <2>1. CASE Handed
    <3>1. /\ rbuf > 0 /\ called' = [called EXCEPT ![call] = @ + 1]
          /\ cut' = IF rbuf % 2 = 0 THEN cut ELSE cut \cup {call}
      BY <1>1, <2>1 DEF CloseConn, Handed, OnReply
    <3>2. \A k \in 1..Calls : called[k] \in Nat /\ called'[k] \in {called[k], called[k] + 1}
      BY <1>1, <3>1, ConstantsAssumption
    <3>3. \A k \in cut : k \in broken \/ called'[k] > 1
      <4>1. \A k \in cut : k \in 1..Calls
        BY <1>1
      <4> QED BY <3>2, <4>1 DEF FirstWhole
    <3>4. CASE rbuf % 2 = 0
      BY <1>1, <3>1, <3>3, <3>4 DEF FirstWhole
    <3>5. CASE rbuf % 2 # 0
      <4>1. call \in broken \/ called[call] # 0
        BY <3>1, <3>5, HandedWhole
      <4>2. called'[call] = called[call] + 1 /\ called[call] \in Nat
        BY <1>1, <3>1
      <4>3. call \in broken \/ called'[call] > 1
        BY <4>1, <4>2
      <4> QED BY <1>1, <3>1, <3>3, <3>5, <4>3 DEF FirstWhole
    <3> QED BY <3>4, <3>5
  <2>2. CASE ~Handed
    BY <1>1, <2>2 DEF CloseConn, Handed, FirstWhole
  <2> QED BY <2>1, <2>2
<1> QED BY <1>3, <1>4, <1>5

LEMMA PollEnds == Inv /\ Ends /\ Poll => Ends'
<1> SUFFICES ASSUME Inv, Ends, Poll PROVE Ends'
  OBVIOUS
<1> USE DEF Inv, TypeOK, Consistent, CallOpen, PiecesOf, Ends, connVars, peerVars, history
<1>1. CASE Select
  <2>1. PeerKept'
    BY <1>1 DEF Select, CanRead, PeerKept
  <2>2. NoneLost'
    BY <1>1 DEF Select, CanRead, NoneLost
  <2>3. Readable'
    BY <1>1 DEF Select, CanRead, Readable
  <2>4. ClosedByEnd'
    BY <1>1 DEF Select, CanRead, ClosedByEnd
  <2>5. LastPoll'
    BY <1>1 DEF Select, CanRead, LastPoll
  <2>6. StaleExit'
    BY <1>1 DEF Select, CanRead, StaleExit
  <2>7. FirstWhole'
    BY <1>1 DEF Select, CanRead, FirstWhole
  <2> QED BY <2>1, <2>2, <2>3, <2>4, <2>5, <2>6, <2>7
<1>2. CASE Resolve
  <2>1. PeerKept'
    BY <1>2 DEF Resolve, PeerKept
  <2>2. NoneLost'
    BY <1>2 DEF Resolve, NoneLost
  <2>3. Readable'
    BY <1>2 DEF Resolve, Readable
  <2>4. ClosedByEnd'
    BY <1>2 DEF Resolve, ClosedByEnd
  <2>5. LastPoll'
    BY <1>2 DEF Resolve, LastPoll
  <2>6. StaleExit'
    BY <1>2 DEF Resolve, StaleExit
  <2>7. FirstWhole'
    BY <1>2 DEF Resolve, FirstWhole
  <2> QED BY <2>1, <2>2, <2>3, <2>4, <2>5, <2>6, <2>7
<1>3. CASE ResolveFails
  <2>1. PeerKept'
    BY <1>3 DEF ResolveFails, OnConnectError, PeerKept
  <2>2. NoneLost'
    BY <1>3 DEF ResolveFails, OnConnectError, NoneLost
  <2>3. Readable'
    BY <1>3 DEF ResolveFails, OnConnectError, Readable
  <2>4. ClosedByEnd'
    BY <1>3 DEF ResolveFails, OnConnectError, ClosedByEnd
  <2>5. LastPoll'
    BY <1>3 DEF ResolveFails, OnConnectError, LastPoll
  <2>6. StaleExit'
    BY <1>3 DEF ResolveFails, OnConnectError, StaleExit
  <2>7. FirstWhole'
    BY <1>3 DEF ResolveFails, OnConnectError, FirstWhole
  <2> QED BY <2>1, <2>2, <2>3, <2>4, <2>5, <2>6, <2>7
<1>4. CASE ResolverCrashes
  <2>1. PeerKept'
    BY <1>4 DEF ResolverCrashes, PeerKept
  <2>2. NoneLost'
    BY <1>4 DEF ResolverCrashes, NoneLost
  <2>3. Readable'
    BY <1>4 DEF ResolverCrashes, Readable
  <2>4. ClosedByEnd'
    BY <1>4 DEF ResolverCrashes, ClosedByEnd
  <2>5. LastPoll'
    BY <1>4 DEF ResolverCrashes, LastPoll
  <2>6. StaleExit'
    BY <1>4 DEF ResolverCrashes, StaleExit
  <2>7. FirstWhole'
    BY <1>4 DEF ResolverCrashes, FirstWhole
  <2> QED BY <2>1, <2>2, <2>3, <2>4, <2>5, <2>6, <2>7
<1>5. CASE Connect
  <2>1. PeerKept'
    BY <1>5 DEF Connect, PeerKept
  <2>2. NoneLost'
    BY <1>5 DEF Connect, NoneLost
  <2>3. Readable'
    BY <1>5 DEF Connect, Readable
  <2>4. ClosedByEnd'
    BY <1>5 DEF Connect, ClosedByEnd
  <2>5. LastPoll'
    BY <1>5 DEF Connect, LastPoll
  <2>6. StaleExit'
    BY <1>5 DEF Connect, StaleExit
  <2>7. FirstWhole'
    BY <1>5 DEF Connect, FirstWhole
  <2> QED BY <2>1, <2>2, <2>3, <2>4, <2>5, <2>6, <2>7
<1>6. CASE ConnectFails
  <2>1. PeerKept'
    BY <1>6 DEF ConnectFails, OnConnectError, PeerKept
  <2>2. NoneLost'
    BY <1>6 DEF ConnectFails, OnConnectError, NoneLost
  <2>3. Readable'
    BY <1>6 DEF ConnectFails, OnConnectError, Readable
  <2>4. ClosedByEnd'
    BY <1>6 DEF ConnectFails, OnConnectError, ClosedByEnd
  <2>5. LastPoll'
    BY <1>6 DEF ConnectFails, OnConnectError, LastPoll
  <2>6. StaleExit'
    BY <1>6 DEF ConnectFails, OnConnectError, PeerKept, StaleExit
  <2>7. FirstWhole'
    BY <1>6 DEF ConnectFails, OnConnectError, FirstWhole
  <2> QED BY <2>1, <2>2, <2>3, <2>4, <2>5, <2>6, <2>7
<1>7. CASE VisitOther
  <2>1. PeerKept'
    BY <1>7 DEF VisitOther, PeerKept
  <2>2. NoneLost'
    BY <1>7 DEF VisitOther, NoneLost
  <2>3. Readable'
    BY <1>7 DEF VisitOther, Readable
  <2>4. ClosedByEnd'
    BY <1>7 DEF VisitOther, ClosedByEnd
  <2>5. LastPoll'
    BY <1>7 DEF VisitOther, LastPoll
  <2>6. StaleExit'
    BY <1>7 DEF VisitOther, StaleExit
  <2>7. FirstWhole'
    BY <1>7 DEF VisitOther, FirstWhole
  <2> QED BY <2>1, <2>2, <2>3, <2>4, <2>5, <2>6, <2>7
<1>8. CASE RecvNothing
  <2>1. PeerKept'
    BY <1>8 DEF RecvNothing, PeerKept
  <2>2. NoneLost'
    BY <1>8 DEF RecvNothing, NoneLost
  <2>3. Readable'
    BY <1>8 DEF RecvNothing, Readable
  <2>4. ClosedByEnd'
    <3>1. \/ UNCHANGED flags
          \/ net = "fin" /\ wire = 0 /\ flags' = flags \cup {"SEND_AND_CLOSE"}
          \/ net = "reset" /\ flags' = flags \cup {"CLOSE_IMMEDIATELY"}
      BY <1>8 DEF RecvNothing, Readable
    <3>2. UNCHANGED <<conn, called, call, net, wire>>
      BY <1>8 DEF RecvNothing
    <3> QED BY <3>1, <3>2 DEF ClosedByEnd
  <2>5. LastPoll'
    BY <1>8 DEF RecvNothing, LastPoll
  <2>6. StaleExit'
    BY <1>8 DEF RecvNothing, StaleExit
  <2>7. FirstWhole'
    BY <1>8 DEF RecvNothing, FirstWhole
  <2> QED BY <2>1, <2>2, <2>3, <2>4, <2>5, <2>6, <2>7
<1>9. CASE Write
  <2>1. PeerKept'
    BY <1>9 DEF Write, PeerKept
  <2>2. NoneLost'
    BY <1>9 DEF Write, NoneLost
  <2>3. Readable'
    BY <1>9 DEF Write, Readable
  <2>4. ClosedByEnd'
    BY <1>9 DEF Write, ClosedByEnd
  <2>5. LastPoll'
    BY <1>9 DEF Write, LastPoll
  <2>6. StaleExit'
    BY <1>9 DEF Write, StaleExit
  <2>7. FirstWhole'
    BY <1>9 DEF Write, FirstWhole
  <2> QED BY <2>1, <2>2, <2>3, <2>4, <2>5, <2>6, <2>7
<1>10. CASE CloseResolver
  <2>1. PeerKept'
    BY <1>10 DEF CloseResolver, OnConnectError, AfterPass, PeerKept
  <2>2. NoneLost'
    BY <1>10 DEF CloseResolver, OnConnectError, AfterPass, NoneLost
  <2>3. Readable'
    BY <1>10 DEF CloseResolver, OnConnectError, AfterPass, Readable
  <2>4. ClosedByEnd'
    BY <1>10 DEF CloseResolver, OnConnectError, AfterPass, ClosedByEnd
  <2>5. LastPoll'
    BY <1>10 DEF CloseResolver, OnConnectError, AfterPass, LastPoll
  <2>6. StaleExit'
    BY <1>10 DEF CloseResolver, OnConnectError, AfterPass, StaleExit
  <2>7. FirstWhole'
    BY <1>10 DEF CloseResolver, OnConnectError, AfterPass, FirstWhole
  <2> QED BY <2>1, <2>2, <2>3, <2>4, <2>5, <2>6, <2>7
<1>11. CASE CloseNothing
  <2>1. PeerKept'
    BY <1>11 DEF CloseNothing, MustClose, AfterPass, PeerKept
  <2>2. NoneLost'
    BY <1>11 DEF CloseNothing, MustClose, AfterPass, NoneLost
  <2>3. Readable'
    BY <1>11 DEF CloseNothing, MustClose, AfterPass, Readable
  <2>4. ClosedByEnd'
    BY <1>11 DEF CloseNothing, MustClose, AfterPass, ClosedByEnd
  <2>5. LastPoll'
    BY <1>11 DEF CloseNothing, MustClose, AfterPass, LastPoll
  <2>6. StaleExit'
    <3>1. UNCHANGED <<exit, conn, called, call, rbuf, asked, phase, flags>>
      BY <1>11 DEF CloseNothing
    <3>2. CASE pc' = "loop"
      <4>1. pc = "close" /\ phase = "run"
        BY <1>11, <3>2 DEF CloseNothing, AfterPass
      <4>2. conn # "gone" => "CLOSE_IMMEDIATELY" \notin flags
        BY <1>11, <4>1 DEF CloseNothing, MustClose, PeerKept, ClosedByEnd
      <4> QED BY <3>1, <4>1, <4>2 DEF StaleExit
    <3>3. CASE pc' # "loop"
      <4>1. pc' \in {"free", "idle"} /\ pc # "loop"
        BY <1>11, <3>3 DEF CloseNothing, AfterPass
      <4> QED BY <3>1, <4>1 DEF StaleExit
    <3> QED BY <3>2, <3>3
  <2>7. FirstWhole'
    BY <1>11 DEF CloseNothing, MustClose, AfterPass, FirstWhole
  <2> QED BY <2>1, <2>2, <2>3, <2>4, <2>5, <2>6, <2>7
<1> QED BY <1>1, <1>2, <1>3, <1>4, <1>5, <1>6, <1>7, <1>8, <1>9, <1>10, <1>11, RecvEnds, CloseConnEnds DEF Poll

LEMMA EndsStep == Inv /\ Ends /\ [Next]_vars => Ends'
<1> SUFFICES ASSUME Inv, Ends, [Next]_vars PROVE Ends'
  OBVIOUS
<1>1. CASE UNCHANGED vars
  BY <1>1 DEF vars, threadVars, connVars, peerVars, history, Ends, PeerKept, NoneLost, Readable,
     ClosedByEnd, LastPoll, StaleExit, FirstWhole
<1> QED BY <1>1, PeerEnds, SendReqEnds, PollEnds DEF Next

LEMMA EndsInvariance == SafeSpec => []Ends
<1>1. Init => Ends
  BY DEF Init, Ends, PeerKept, NoneLost, Readable, ClosedByEnd, LastPoll, StaleExit, FirstWhole
<1> QED BY <1>1, EndsStep, Invariance, PTL DEF SafeSpec

\* Whatever the number of replies, the first callback of a call is given a whole
\* reply, unless the server broke off.
THEOREM FirstReplyWhole == SafeSpec => []FirstWhole
BY EndsInvariance, PTL DEF Ends

\* With servers that send one reply to one request, every callback is.
THEOREM WholeReplies ==
  ASSUME MaxReplies = 1
  PROVE  SafeSpec => []RepliesWhole
<1>1. Inv /\ Ends => RepliesWhole
  <2> SUFFICES ASSUME Inv, Ends, NEW k \in cut PROVE k \in broken
    BY DEF RepliesWhole
  <2>1. k \in 1..Calls /\ called[k] \in 0..1
    BY DEF Inv, TypeOK
  <2> QED BY <2>1 DEF Ends, FirstWhole
<1> QED BY <1>1, Invariance, EndsInvariance, PTL

-------------------------------------------------------------------------------

P == INSTANCE MgResolverProofs

\* The steps of the resolver, as the composition takes them.
ResolverStep == R!World \/ R!Select \/ R!Visit \/ R!Close \/ R!Free

LEMMA Kept ==
  ASSUME P!Inv, ResolverStep \/ UNCHANGED resolver
  PROVE  P!Inv'
<1>1. ResolverStep => P!Next
  BY DEF ResolverStep, P!Next, R!World, P!World, R!Datagram, P!Datagram, R!Kinds, P!Kinds, R!Tick,
         P!Tick, R!Live, P!Live, R!Select, P!Select, R!Visit, P!Visit, R!Connect, P!Connect,
         R!Query, P!Query, R!ReadAnswer, P!ReadAnswer, R!Forgotten, P!Forgotten, R!ReadFailure,
         P!ReadFailure, R!ReadNothing, P!ReadNothing, R!PassOver, P!PassOver, R!Write, P!Write, R!Oldest, P!Oldest,
         R!GiveUp, P!GiveUp, R!Spent, P!Spent, R!Retry, P!Retry, R!Wait, P!Wait, R!Close,
         P!Close, R!Free, P!Free, R!Shut, P!Shut, R!Cleared, P!Cleared
<1>2. UNCHANGED resolver => UNCHANGED P!resolver
  BY DEF resolver, P!resolver
<1> QED BY <1>1, <1>2, P!Step

LEMMA Simulation == [NextLookup]_<<vars, resolver>> => [Next]_vars
<1>1. PeerOfClient => Next
  BY DEF PeerOfClient, Next, Peer
<1>2. WorldOfResolver => UNCHANGED vars
  BY DEF WorldOfResolver
<1>3. StartCall => Next
  BY DEF StartCall, Next
<1>4. PollBoth => [Next]_vars
  BY DEF PollBoth, SelectBoth, VisitResolver, CloseFailed, CloseAnswered, Alone, FreeResolver,
         Next, Poll, Peer
<1> QED BY <1>1, <1>2, <1>3, <1>4 DEF NextLookup

\* Every behaviour of the client with its resolver is one of HttpClient.
THEOREM Implements == SafeLookup => SafeSpec
<1>1. InitLookup => Init
  BY DEF InitLookup
<1> QED BY <1>1, Simulation, PTL DEF SafeLookup, SafeSpec

\* While the client waits, its resolver is at rest outside of its visit.
AtRest == conn = "resolving" /\ dns = "pending" /\ pc # "visit" => at = "out" /\ stage # "closing"

Both == Inv /\ P!Inv /\ Fit /\ AtRest

\* What the parts of a visit do to the life of a lookup.
LEMMA VisitFacts ==
  ASSUME P!Inv, R!Visit, R!Live, req
  PROVE  \/ R!Live' /\ req' = req /\ callbacks' = callbacks
         \/ stage' = "closing" /\ req' = FALSE /\ callbacks' # callbacks
<1>1. callbacks = << >>
  BY DEF P!Inv, P!Owed
<1>2. CASE R!ReadAnswer
  <2>1. Len(callbacks') = 1
    BY <1>1, <1>2 DEF R!ReadAnswer
  <2> QED BY <1>1, <1>2, <2>1 DEF R!ReadAnswer, R!Forgotten
<1>3. CASE ~R!ReadAnswer
  BY <1>3 DEF R!Visit, R!Live, R!Connect, R!ReadFailure, R!ReadNothing, R!Write, R!GiveUp,
              R!Retry, R!Wait
<1> QED BY <1>2, <1>3

LEMMA FitStep == Both /\ [NextLookup]_<<vars, resolver>> => Fit' /\ AtRest'
<1> SUFFICES ASSUME Both, [NextLookup]_<<vars, resolver>> PROVE Fit' /\ AtRest'
  OBVIOUS
<1> USE DEF Both, Fit, AtRest
<1>1. CASE UNCHANGED <<vars, resolver>>
  BY <1>1 DEF vars, threadVars, connVars, peerVars, resolver, R!Live
<1>2. CASE PeerOfClient
  BY <1>2 DEF PeerOfClient, Accept, ServerSend, ServerClose, ServerReset, threadVars, connVars,
              resolver, R!Live
<1>3. CASE WorldOfResolver
  BY <1>3 DEF WorldOfResolver, R!World, R!Datagram, R!Tick, vars, threadVars, connVars, peerVars,
              R!Live
<1>4. CASE StartCall
  <2>1. /\ conn' = "resolving" => R!Begin("connecting", TRUE)
        /\ conn' # "resolving" => R!Begin("none", FALSE)
    BY <1>4 DEF StartCall
  <2>2. conn' = "resolving" => pc' = "loop" /\ dns' = "pending"
    BY <1>4 DEF StartCall, SendReq, Inv, Consistent, CallOpen
  <2> QED BY <2>1, <2>2 DEF R!Begin, R!Cleared, R!Live
<1>5. CASE SelectBoth
  BY <1>5 DEF SelectBoth, Select, R!Select, connVars, peerVars, resolver, R!Live
<1>6. CASE VisitResolver
  <2>1. /\ pc = "visit" /\ conn = "resolving" /\ dns = "pending" /\ R!Live /\ req
        /\ callbacks' = callbacks => UNCHANGED vars
        /\ callbacks' # callbacks => Resolved
    BY <1>6 DEF VisitResolver, Looking
  <2>2. CASE R!Live' /\ req' = req /\ callbacks' = callbacks
    BY <2>1, <2>2 DEF vars, threadVars, connVars, peerVars
  <2>3. CASE stage' = "closing" /\ req' = FALSE /\ callbacks' # callbacks
    BY <2>1, <2>3 DEF Resolved, threadVars, connVars, R!Live
  <2> QED BY <1>6, <2>1, <2>2, <2>3, VisitFacts DEF VisitResolver
<1>7. CASE CloseFailed
  <2>1. stage' = "closed"
    BY <1>7 DEF CloseFailed, R!Close, R!Shut
  <2>2. ~(conn' = "resolving" /\ dns' = "pending")
    BY <1>7 DEF CloseFailed, ResolverCrashes
  <2> QED BY <2>1, <2>2 DEF R!Live
<1>8. CASE CloseAnswered
  BY <1>8 DEF CloseAnswered, R!Close, R!Shut, vars, threadVars, connVars, peerVars, R!Live
<1>9. CASE Alone
  <2> USE DEF R!Live
  <2>1. UNCHANGED resolver /\ UNCHANGED <<stage, at, req>>
    BY <1>9 DEF Alone, resolver
  <2>2. CASE Resolve \/ ResolveFails
    BY <2>1, <2>2 DEF Resolve, ResolveFails, peerVars
  <2>3. CASE Connect \/ ConnectFails
    BY <2>1, <2>3 DEF Connect, ConnectFails, peerVars
  <2>4. CASE Settled /\ VisitOther
    BY <2>1, <2>4 DEF Settled, VisitOther, connVars, peerVars
  <2>5. CASE Recv \/ RecvNothing \/ Write
    BY <2>1, <2>5 DEF Recv, RecvNothing, Write, connVars, peerVars, Inv, Consistent, CallOpen
  <2>6. CASE Settled /\ (CloseConn \/ CloseNothing)
    <3>1. pc' # "visit" /\ pc \in {"close", "free"}
      BY <2>6 DEF CloseConn, CloseNothing, AfterPass, Inv, TypeOK
    <3>2. \/ conn' = "gone"
          \/ conn' = conn /\ dns' = dns
      BY <2>6 DEF CloseConn, CloseNothing, connVars, peerVars
    <3>3. pc' = "idle" => conn # "resolving"
      BY <2>6, <3>1 DEF CloseConn, CloseNothing, AfterPass, Inv, TypeOK
    <3>4. pc' # "crashed"
      BY <2>6 DEF CloseConn, CloseNothing, AfterPass, Inv, TypeOK
    <3>5. CloseConn => conn # "resolving"
      BY DEF CloseConn
    <3> QED BY <2>1, <2>6, <3>1, <3>2, <3>3, <3>4, <3>5 DEF Settled, CloseNothing, connVars, peerVars
  <2> QED BY <1>9, <2>2, <2>3, <2>4, <2>5, <2>6 DEF Alone
<1>10. CASE FreeResolver
  BY <1>10 DEF FreeResolver, CloseResolver, R!Free, R!Shut, R!Live
<1> QED BY <1>1, <1>2, <1>3, <1>4, <1>5, <1>6, <1>7, <1>8, <1>9, <1>10 DEF NextLookup, PollBoth

LEMMA BothStep == Both /\ [NextLookup]_<<vars, resolver>> => Both'
<1> SUFFICES ASSUME Both, [NextLookup]_<<vars, resolver>> PROVE Both'
  OBVIOUS
<1>1. Inv'
  BY Simulation, ClientStep DEF Both
<1>2. P!Inv'
  <2>1. CASE StartCall
    <3>1. P!Parameters
      BY LookupAssumption DEF R!Parameters, P!Parameters
    <3>2. P!Begin("connecting", TRUE) \/ P!Begin("none", FALSE)
      BY <2>1 DEF StartCall, R!Begin, P!Begin, R!Cleared, P!Cleared
    <3> QED BY <3>1, <3>2, P!BeginInv
  <2>2. CASE ResolverStep \/ UNCHANGED resolver
    BY <2>2, Kept DEF Both
  <2> QED BY <2>1, <2>2 DEF ResolverStep, NextLookup, PeerOfClient, WorldOfResolver, PollBoth,
          SelectBoth, VisitResolver, CloseFailed, CloseAnswered, Alone, FreeResolver
<1> QED BY <1>1, <1>2, FitStep DEF Both

LEMMA LookupInvariance == SafeLookup => []Both
<1>1. InitLookup => Both
  <2> SUFFICES ASSUME InitLookup PROVE Both
    OBVIOUS
  <2>1. Inv
    BY ClientInit DEF InitLookup
  <2>2. P!Parameters
    BY LookupAssumption DEF R!Parameters, P!Parameters
  <2>3. P!None
    BY DEF InitLookup, R!None, P!None, R!Fresh, P!Fresh
  <2>4. P!Inv
    BY <2>2, <2>3, P!InitInv
  <2>5. Fit /\ AtRest
    BY DEF InitLookup, R!None, Init, Fit, AtRest, R!Live
  <2> QED BY <2>1, <2>4, <2>5 DEF Both
<1> QED BY <1>1, BothStep, PTL DEF SafeLookup

LEMMA Promises == P!Inv => R!TypeOK /\ CallsBackOnce /\ LastQueryUnheard
<1>1. P!Inv => P!TypeOK /\ P!OneCallback /\ P!LastQueryUnheard
  BY P!Inside
<1>2. P!TypeOK => R!TypeOK
  BY DEF P!TypeOK, R!TypeOK, P!Datagrams, R!Datagrams, P!Callbacks, R!Callbacks
<1>3. P!OneCallback => CallsBackOnce
  BY DEF P!OneCallback, R!OneCallback, CallsBackOnce
<1>4. P!LastQueryUnheard => LastQueryUnheard
  BY DEF P!LastQueryUnheard, R!LastQueryUnheard, LastQueryUnheard
<1> QED BY <1>1, <1>2, <1>3, <1>4

\* The resolver's types, and a lookup lives only while the client waits for it.
THEOREM LookupTypes == SafeLookup => []LookupTypeOK
<1>1. Both => LookupTypeOK
  BY Promises DEF Both, LookupTypeOK
<1> QED BY <1>1, LookupInvariance, PTL

\* A lookup of the client calls back exactly once.
THEOREM LookupOnce == SafeLookup => []CallsBackOnce
<1>1. Both => CallsBackOnce
  BY Promises DEF Both
<1> QED BY <1>1, LookupInvariance, PTL

\* No answer to its last query is heard, whatever the number of retries.
THEOREM LastInVain == SafeLookup => []LastQueryUnheard
<1>1. Both => LastQueryUnheard
  BY Promises DEF Both
<1> QED BY <1>1, LookupInvariance, PTL

\* The resolver gives up on a server only when no answer of it waits to be read,
\* for any number of retries and any time-out.
THEOREM UnheardOnly == SafeLookup => AnswerBeforeTimeout
<1>1. P!Inv => P!GivesUpUnheard
  BY P!Inside
<1>2. P!GivesUpUnheard => R!GivesUpUnheard
  BY DEF P!GivesUpUnheard, R!GivesUpUnheard, P!GiveUp, R!GiveUp, P!Spent, R!Spent
<1>3. Both => [R!GivesUpUnheard]_<<vars, resolver>>
  BY <1>1, <1>2 DEF Both
<1> QED BY <1>3, LookupInvariance, PTL DEF AnswerBeforeTimeout
===============================================================================
