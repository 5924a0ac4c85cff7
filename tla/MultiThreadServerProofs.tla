------------------------ MODULE MultiThreadServerProofs ------------------------
(***************************************************************************)
(* Theorems about MultiThreadServer for every value of its constants.      *)
(*                                                                         *)
(* TypeOK is not inductive: mg_mgr_handle_ctl_sock() takes the head of a   *)
(* queue that must not be empty, and ev_handler() numbers a request that   *)
(* must still be within the bound.  Inv adds what those steps rely on; one *)
(* lemma for each step says that it keeps Inv.                             *)
(*                                                                         *)
(* Then what the IO thread and the workers promise each other: the         *)
(* accounting of the ctl pair, the routing of answers by conn_id, and that *)
(* the workers and the event loop implement MgBroadcast, step by step.     *)
(***************************************************************************)
EXTENDS MultiThreadServer, FiniteSetTheorems, SequenceTheorems, TLAPS

Inv == TypeOK /\ Consistent

LEMMA Domains ==
    /\ Listener \in Conns /\ Accepted \subseteq Conns /\ Listener \notin Accepted
    /\ \A c \in Conns : c # Listener => c \in Accepted
    /\ MaxReqs \in Nat /\ MaxConns \in Nat
    /\ Cap \in Nat \ {0} /\ Parts \in Nat \ {0} /\ IdMod \in Nat \ {0}
  BY ConstantsAssumption DEF Conns, Accepted, Listener

LEMMA IdType == ASSUME NEW n \in Nat PROVE IdOf(n) \in 0..(IdMod - 1)
  BY ConstantsAssumption DEF IdOf

LEMMA FragmentsType ==
  ASSUME NEW r \in Request
  PROVE  Fragments(r) \in Seq(Fragment) /\ Len(Fragments(r)) = Parts
<1>1. Fragments(r) \in [1..Parts -> Fragment]
  BY DEF Fragments, Fragment
<1> QED
  BY <1>1, Domains

\* The next request of a connection that has one left is a request.
LEMMA NextType ==
  ASSUME ConnTypeOK, NEW c \in Accepted, delivered[c] < MaxReqs
  PROVE  NextRequest(c) \in Request /\ delivered[c] + 1 \in 1..MaxReqs
  BY Domains DEF ConnTypeOK, NextRequest, Request

\* The bound on the requests of one connection, with its types.
LEMMA Bound ==
  ASSUME Inv, NEW c \in Accepted
  PROVE  /\ c \in Conns /\ MaxReqs \in Nat
         /\ delivered[c] \in Nat /\ rbuf[c] \in Nat /\ wire[c] \in Nat /\ budget \in Nat
         /\ Twice(c) \in {0, 1}
         /\ delivered[c] + rbuf[c] + wire[c] + budget <= MaxReqs + Twice(c)
<1>1. c \in Conns /\ MaxReqs \in Nat
  BY Domains
<1>2. delivered[c] \in Nat /\ rbuf[c] \in Nat /\ wire[c] \in Nat /\ budget \in Nat
  BY <1>1 DEF Inv, TypeOK, ConnTypeOK, ClientTypeOK
<1>3. Twice(c) \in {0, 1}
  BY DEF Twice
<1>4. delivered[c] + rbuf[c] + wire[c] + budget <= MaxReqs + Twice(c)
  BY DEF Inv, Consistent, ReqsBounded
<1> QED
  BY <1>1, <1>2, <1>3, <1>4

LEMMA ReqLeft ==
  ASSUME Inv, NEW c \in Accepted, wire[c] > 0 \/ rbuf[c] > 0, Twice(c) = 0
  PROVE  delivered[c] < MaxReqs
  BY Bound

\* A connection leaves the list.
LEMMA Removed ==
  ASSUME ConnTypeOK, NEW c \in Conns, RemoveConn(c)
  PROVE  active' \in Seq(Conns)
<1>1. PICK i \in 1..Len(active) : active' = RemoveAt(active, i)
  BY DEF RemoveConn
<1>2. active' = SubSeq(active, 1, i - 1) \o SubSeq(active, i + 1, Len(active))
  BY <1>1 DEF RemoveAt
<1>3. /\ i \in Int /\ Len(active) \in Int
      /\ \A j \in 1..Len(active) : active[j] \in Conns
  BY DEF ConnTypeOK
<1>4. SubSeq(active, 1, i - 1) \in Seq(Conns)
  BY <1>3, SubSeqProperties
<1>5. SubSeq(active, i + 1, Len(active)) \in Seq(Conns)
  BY <1>3, SubSeqProperties
<1> QED
  BY <1>2, <1>4, <1>5, ConcatProperties

LEMMA Forgotten ==
  ASSUME ConnTypeOK, NEW c \in Conns, Forget(c), text' = [text EXCEPT ![c] = 0]
  PROVE  /\ udata' \in [Conns -> 0..(IdMod - 1)] /\ rbuf' \in [Conns -> Nat]
         /\ sbuf' \in [Conns -> Seq(Request)] /\ text' \in [Conns -> 0..MaxReqs]
         /\ flags' \in [Conns -> SUBSET {"SEND_AND_CLOSE", "CLOSE_IMMEDIATELY"}]
<1>1. << >> \in Seq(Request)
  OBVIOUS
<1> QED
  BY <1>1, Domains DEF ConnTypeOK, Forget

\* Variables that do not change keep their types.
LEMMA Stable ==
    /\ IOTypeOK /\ UNCHANGED ioVars => IOTypeOK'
    /\ ConnTypeOK /\ UNCHANGED connVars => ConnTypeOK'
    /\ ClientTypeOK /\ UNCHANGED clientVars => ClientTypeOK'
    /\ SockTypeOK /\ UNCHANGED sockVars => SockTypeOK'
    /\ CtlTypeOK /\ UNCHANGED ctlVars => CtlTypeOK'
    /\ WorkTypeOK /\ UNCHANGED workVars => WorkTypeOK'
    /\ ProcTypeOK /\ UNCHANGED procVars => ProcTypeOK'
<1> USE DEF ioVars, connVars, clientVars, sockVars, ctlVars, workVars, procVars
<1>1. IOTypeOK /\ UNCHANGED ioVars => IOTypeOK'
  BY DEF IOTypeOK
<1>2. ConnTypeOK /\ UNCHANGED connVars => ConnTypeOK'
  BY DEF ConnTypeOK
<1>3. ClientTypeOK /\ UNCHANGED clientVars => ClientTypeOK'
  BY DEF ClientTypeOK
<1>4. /\ SockTypeOK /\ UNCHANGED sockVars => SockTypeOK'
      /\ CtlTypeOK /\ UNCHANGED ctlVars => CtlTypeOK'
      /\ WorkTypeOK /\ UNCHANGED workVars => WorkTypeOK'
      /\ ProcTypeOK /\ UNCHANGED procVars => ProcTypeOK'
  BY DEF SockTypeOK, CtlTypeOK, WorkTypeOK, ProcTypeOK
<1> QED
  BY <1>1, <1>2, <1>3, <1>4
\* What Consistent says of variables that do not change, and of places where the
\* IO thread is not, it goes on saying.
LEMMA Kept ==
  ASSUME Consistent
  PROVE  /\ io' # "ctl" => CtlReady'
         /\ io' # "callback" => MsgTaken'
         /\ io' \notin {"send", "sendclose", "write"} => ConnVisited' /\ TextKept'
         /\ UNCHANGED rbuf => ListenerSilent'
         /\ UNCHANGED <<accepted, backlog>> => ConnsBounded'
         /\ (/\ UNCHANGED <<delivered, rbuf, wire, budget>>
             /\ io \notin {"send", "sendclose"} /\ io' \notin {"send", "sendclose"})
               => ReqsBounded'
         /\ UNCHANGED workVars => WorkersHold'
<1>1. /\ io' # "ctl" => CtlReady'
      /\ io' # "callback" => MsgTaken'
      /\ io' \notin {"send", "sendclose", "write"} => ConnVisited' /\ TextKept'
  BY DEF CtlReady, MsgTaken, ConnVisited, TextKept
<1>2. /\ UNCHANGED rbuf => ListenerSilent'
      /\ UNCHANGED <<accepted, backlog>> => ConnsBounded'
      /\ UNCHANGED workVars => WorkersHold'
  BY DEF Consistent, ListenerSilent, ConnsBounded, WorkersHold, workVars
<1>3. ASSUME UNCHANGED <<delivered, rbuf, wire, budget>>,
             io \notin {"send", "sendclose"}, io' \notin {"send", "sendclose"}
      PROVE  ReqsBounded'
  BY <1>3 DEF Consistent, ReqsBounded, Twice
<1> QED
  BY <1>1, <1>2, <1>3

LEMMA IOKept ==
  ASSUME Consistent, UNCHANGED ioVars
  PROVE  /\ MsgTaken' /\ ConnVisited'
         /\ UNCHANGED connVars => TextKept' /\ ListenerSilent'
         /\ UNCHANGED ctlVars => CtlReady'
         /\ UNCHANGED connVars /\ UNCHANGED clientVars => ConnsBounded' /\ ReqsBounded'
<1> USE DEF Consistent, ioVars, connVars
<1>1. MsgTaken' /\ ConnVisited'
  BY DEF MsgTaken, ConnVisited
<1>2. UNCHANGED connVars => TextKept' /\ ListenerSilent'
  BY DEF TextKept, ListenerSilent
<1>3. UNCHANGED ctlVars => CtlReady'
  BY DEF CtlReady, ctlVars
<1>4. UNCHANGED connVars /\ UNCHANGED clientVars => ConnsBounded' /\ ReqsBounded'
  BY DEF ConnsBounded, ReqsBounded, Twice, clientVars
<1> QED
  BY <1>1, <1>2, <1>3, <1>4

-------------------------------------------------------------------------------

LEMMA ClientConnectKeeps == ASSUME Inv, ClientConnect PROVE Inv'
<1>1. /\ IOTypeOK' /\ ConnTypeOK' /\ SockTypeOK'
      /\ CtlTypeOK' /\ WorkTypeOK' /\ ProcTypeOK'
  BY Stable DEF ClientConnect, Inv, TypeOK, serverVars
<1>2. ClientTypeOK'
  BY DEF ClientConnect, Inv, TypeOK, ClientTypeOK
<1>3. ConnsBounded'
  BY Domains DEF ClientConnect, serverVars, connVars, Inv, TypeOK, ConnTypeOK, ClientTypeOK,
            ConnsBounded
<1>4. ReqsBounded'
  BY DEF ClientConnect, serverVars, ioVars, connVars, Inv, Consistent, ReqsBounded, Twice
<1>5. /\ CtlReady' /\ MsgTaken' /\ ConnVisited'
      /\ TextKept' /\ ListenerSilent' /\ WorkersHold'
  BY IOKept, Kept DEF ClientConnect, Inv, serverVars
<1> QED
  BY <1>1, <1>2, <1>3, <1>4, <1>5 DEF Inv, TypeOK, Consistent

LEMMA ClientSendKeeps == ASSUME Inv, NEW c \in Accepted, ClientSend(c) PROVE Inv'
<1>1. /\ IOTypeOK' /\ ConnTypeOK' /\ SockTypeOK'
      /\ CtlTypeOK' /\ WorkTypeOK' /\ ProcTypeOK'
  BY Stable DEF ClientSend, Inv, TypeOK, serverVars
<1>2. ClientTypeOK'
  BY Domains DEF ClientSend, Inv, TypeOK, ClientTypeOK
<1>3. ConnsBounded'
  BY Kept DEF ClientSend, serverVars, connVars, Inv
<1>4. ReqsBounded'
  <2>1. /\ wire' = [wire EXCEPT ![c] = @ + 1] /\ budget' = budget - 1 /\ budget > 0
        /\ UNCHANGED <<delivered, rbuf, todo, io>>
    BY DEF ClientSend, serverVars, connVars, ioVars
  <2> SUFFICES ASSUME NEW d \in Accepted
               PROVE  delivered'[d] + rbuf'[d] + wire'[d] + budget' <= MaxReqs + Twice(d)'
    BY DEF ReqsBounded
  <2>2. Twice(d)' = Twice(d)
    BY <2>1 DEF Twice
  <2>3. wire'[d] = IF d = c THEN wire[d] + 1 ELSE wire[d]
    BY <2>1, Bound, Domains DEF Inv, TypeOK, ClientTypeOK
  <2> QED
    BY <2>1, <2>2, <2>3, Bound
<1>5. /\ CtlReady' /\ MsgTaken' /\ ConnVisited'
      /\ TextKept' /\ ListenerSilent' /\ WorkersHold'
  BY IOKept, Kept DEF ClientSend, Inv, serverVars
<1> QED
  BY <1>1, <1>2, <1>3, <1>4, <1>5 DEF Inv, TypeOK, Consistent

LEMMA ClientFinKeeps == ASSUME Inv, NEW c \in Accepted, ClientFin(c) PROVE Inv'
<1>1. /\ IOTypeOK' /\ ConnTypeOK' /\ SockTypeOK'
      /\ CtlTypeOK' /\ WorkTypeOK' /\ ProcTypeOK'
  BY Stable DEF ClientFin, Inv, TypeOK, serverVars
<1>2. ClientTypeOK'
  BY DEF ClientFin, Inv, TypeOK, ClientTypeOK
<1>3. ConnsBounded'
  BY Kept DEF ClientFin, serverVars, connVars, Inv
<1>4. ReqsBounded'
  BY DEF ClientFin, serverVars, ioVars, connVars, Inv, Consistent, ReqsBounded, Twice
<1>5. /\ CtlReady' /\ MsgTaken' /\ ConnVisited'
      /\ TextKept' /\ ListenerSilent' /\ WorkersHold'
  BY IOKept, Kept DEF ClientFin, Inv, serverVars
<1> QED
  BY <1>1, <1>2, <1>3, <1>4, <1>5 DEF Inv, TypeOK, Consistent

LEMMA ClientResetKeeps == ASSUME Inv, NEW c \in Accepted, ClientReset(c) PROVE Inv'
<1>1. /\ IOTypeOK' /\ ConnTypeOK' /\ SockTypeOK'
      /\ CtlTypeOK' /\ WorkTypeOK' /\ ProcTypeOK'
  BY Stable DEF ClientReset, Inv, TypeOK, serverVars
<1>2. ClientTypeOK'
  BY DEF ClientReset, Inv, TypeOK, ClientTypeOK
<1>3. ConnsBounded'
  BY Kept DEF ClientReset, serverVars, connVars, Inv
<1>4. ReqsBounded'
  <2>1. wire' = [wire EXCEPT ![c] = 0] /\ UNCHANGED <<budget, delivered, rbuf, todo, io>>
    BY DEF ClientReset, serverVars, connVars, ioVars
  <2> SUFFICES ASSUME NEW d \in Accepted
               PROVE  delivered'[d] + rbuf'[d] + wire'[d] + budget' <= MaxReqs + Twice(d)'
    BY DEF ReqsBounded
  <2>2. Twice(d)' = Twice(d)
    BY <2>1 DEF Twice
  <2>3. wire'[d] = IF d = c THEN 0 ELSE wire[d]
    BY <2>1, Bound, Domains DEF Inv, TypeOK, ClientTypeOK
  <2> QED
    BY <2>1, <2>2, <2>3, Bound
<1>5. /\ CtlReady' /\ MsgTaken' /\ ConnVisited'
      /\ TextKept' /\ ListenerSilent' /\ WorkersHold'
  BY IOKept, Kept DEF ClientReset, Inv, serverVars
<1> QED
  BY <1>1, <1>2, <1>3, <1>4, <1>5 DEF Inv, TypeOK, Consistent

LEMMA SignalHandlerKeeps == ASSUME Inv, SignalHandler PROVE Inv'
<1>1. /\ IOTypeOK' /\ ConnTypeOK' /\ ClientTypeOK'
      /\ SockTypeOK' /\ CtlTypeOK' /\ WorkTypeOK'
  BY Stable DEF SignalHandler, Inv, TypeOK
<1>2. ProcTypeOK'
  BY DEF SignalHandler, Inv, TypeOK, ProcTypeOK
<1>3. /\ CtlReady' /\ MsgTaken' /\ ConnVisited' /\ TextKept'
      /\ ListenerSilent' /\ ConnsBounded' /\ ReqsBounded' /\ WorkersHold'
  BY IOKept, Kept DEF SignalHandler, Inv
<1> QED
  BY <1>1, <1>2, <1>3 DEF Inv, TypeOK, Consistent

LEMMA SelectKeeps == ASSUME Inv, Select PROVE Inv'
<1>1. /\ ConnTypeOK' /\ ClientTypeOK' /\ SockTypeOK'
      /\ CtlTypeOK' /\ WorkTypeOK' /\ ProcTypeOK'
  BY Stable DEF Select, Inv, TypeOK
<1>2. IOTypeOK'
  BY DEF Select, Inv, TypeOK, IOTypeOK
<1>3. CtlReady'
  BY Domains DEF Select, CtlReady, Conns, Accepted, Listener, Ctl, ctlVars
<1>4. /\ MsgTaken' /\ ConnVisited' /\ TextKept' /\ ListenerSilent'
      /\ ConnsBounded' /\ ReqsBounded' /\ WorkersHold'
  BY Kept DEF Select, IOAt, Inv, connVars, clientVars
<1> QED
  BY <1>1, <1>2, <1>3, <1>4 DEF Inv, TypeOK, Consistent

LEMMA HandleCtlSockKeeps == ASSUME Inv, HandleCtlSock PROVE Inv'
<1>1. ConnTypeOK' /\ ClientTypeOK' /\ SockTypeOK' /\ WorkTypeOK' /\ ProcTypeOK'
  BY Stable DEF HandleCtlSock, Inv, TypeOK
<1>2. IOTypeOK'
  BY DEF HandleCtlSock, IOAt, Inv, TypeOK, IOTypeOK, CtlTypeOK, Consistent, CtlReady
<1>3. CtlTypeOK'
  BY DEF HandleCtlSock, IOAt, Acknowledged, Inv, TypeOK, CtlTypeOK, Consistent, CtlReady
<1>4. MsgTaken'
  BY DEF HandleCtlSock, IOAt, Inv, TypeOK, CtlTypeOK, Consistent, CtlReady, MsgTaken
<1>5. /\ CtlReady' /\ ConnVisited' /\ TextKept' /\ ListenerSilent'
      /\ ConnsBounded' /\ ReqsBounded' /\ WorkersHold'
  BY Kept DEF HandleCtlSock, IOAt, Inv, connVars, clientVars
<1> QED
  BY <1>1, <1>2, <1>3, <1>4, <1>5 DEF Inv, TypeOK, Consistent

LEMMA SkipCtlSockKeeps == ASSUME Inv, SkipCtlSock PROVE Inv'
<1>1. /\ ConnTypeOK' /\ ClientTypeOK' /\ SockTypeOK'
      /\ CtlTypeOK' /\ WorkTypeOK' /\ ProcTypeOK'
  BY Stable DEF SkipCtlSock, Inv, TypeOK
<1>2. IOTypeOK'
  BY DEF SkipCtlSock, Inv, TypeOK, IOTypeOK, ConnTypeOK
<1>3. /\ CtlReady' /\ MsgTaken' /\ ConnVisited' /\ TextKept'
      /\ ListenerSilent' /\ ConnsBounded' /\ ReqsBounded' /\ WorkersHold'
  BY Kept DEF SkipCtlSock, IOAt, Inv, connVars, clientVars
<1> QED
  BY <1>1, <1>2, <1>3 DEF Inv, TypeOK, Consistent

LEMMA OnWorkCompleteKeeps == ASSUME Inv, OnWorkComplete PROVE Inv'
<1>1. ClientTypeOK' /\ SockTypeOK' /\ CtlTypeOK' /\ WorkTypeOK'
  BY Stable DEF OnWorkComplete, Inv, TypeOK
<1>2. IOTypeOK'
  BY DEF OnWorkComplete, Inv, TypeOK, IOTypeOK, ConnTypeOK, Request, NoReq
<1>3. ConnTypeOK'
  <2>1. msg \in Request
    BY DEF OnWorkComplete, IOAt, Inv, Consistent, MsgTaken
  <2>2. Answers(msg) \in Seq(Request)
    BY <2>1 DEF Answers, Inv, TypeOK, ConnTypeOK
  <2>3. sbuf' \in [Conns -> Seq(Request)]
    BY <2>2 DEF OnWorkComplete, Inv, TypeOK, ConnTypeOK
  <2> QED
    BY <2>3 DEF OnWorkComplete, Inv, TypeOK, ConnTypeOK
<1>4. ProcTypeOK'
  BY DEF OnWorkComplete, IOAt, Inv, TypeOK, ProcTypeOK, Consistent, MsgTaken, Request
<1>5. /\ CtlReady' /\ MsgTaken' /\ ConnVisited' /\ TextKept'
      /\ ListenerSilent' /\ ConnsBounded' /\ ReqsBounded' /\ WorkersHold'
  BY Kept DEF OnWorkComplete, IOAt, Inv, clientVars
<1> QED
  BY <1>1, <1>2, <1>3, <1>4, <1>5 DEF Inv, TypeOK, Consistent

LEMMA VisitListenerKeeps == ASSUME Inv, VisitListener PROVE Inv'
<1>1. SockTypeOK' /\ CtlTypeOK' /\ WorkTypeOK' /\ ProcTypeOK'
  BY Stable DEF VisitListener, Inv, TypeOK
<1>2. IOTypeOK'
  BY DEF VisitListener, Inv, TypeOK, IOTypeOK
<1>3. ConnTypeOK'
  <2>1. CASE /\ backlog > 0 /\ active' = <<accepted + 1>> \o active
             /\ accepted' = accepted + 1
             /\ udata' = [udata EXCEPT ![accepted + 1] = IdOf(accepted + 1)]
    <3>1. accepted + 1 \in Conns
      BY <2>1, Domains
         DEF Inv, TypeOK, ConnTypeOK, ClientTypeOK, Consistent, ConnsBounded, Conns, Accepted
    <3>2. active' \in Seq(Conns)
      BY <2>1, <3>1 DEF Inv, TypeOK, ConnTypeOK
    <3>3. IdOf(accepted + 1) \in 0..(IdMod - 1)
      BY IdType DEF Inv, TypeOK, ConnTypeOK
    <3>4. udata' \in [Conns -> 0..(IdMod - 1)]
      BY <2>1, <3>3 DEF Inv, TypeOK, ConnTypeOK
    <3> QED
      BY <2>1, <3>2, <3>4 DEF VisitListener, Inv, TypeOK, ConnTypeOK
  <2>2. CASE UNCHANGED <<accepted, active, udata>>
    BY <2>2 DEF VisitListener, Inv, TypeOK, ConnTypeOK
  <2> QED
    BY <2>1, <2>2 DEF VisitListener
<1>4. ClientTypeOK'
  BY DEF VisitListener, Inv, TypeOK, ClientTypeOK
<1>5. ConnsBounded'
  BY Domains DEF VisitListener, Inv, TypeOK, ConnTypeOK, ClientTypeOK, Consistent, ConnsBounded
<1>6. /\ CtlReady' /\ MsgTaken' /\ ConnVisited' /\ TextKept'
      /\ ListenerSilent' /\ ReqsBounded' /\ WorkersHold'
  BY Kept DEF VisitListener, IOAt, Inv
<1> QED
  BY <1>1, <1>2, <1>3, <1>4, <1>5, <1>6 DEF Inv, TypeOK, Consistent

LEMMA VisitReadKeeps == ASSUME Inv, NEW c \in Accepted, VisitRead(c) PROVE Inv'
<1>0. /\ c \in Conns /\ c # Listener /\ io = "read" /\ todo # << >> /\ Head(todo) = c
      /\ UNCHANGED <<phase, todo, readable, writable, msg, active, accepted, udata, sbuf,
                     backlog, client, budget, answered>>
      /\ rbuf[c] \in Nat /\ wire[c] \in Nat /\ delivered[c] \in 0..MaxReqs
  BY Domains DEF VisitRead, IOAt, Inv, TypeOK, ConnTypeOK, ClientTypeOK
<1>1. SockTypeOK' /\ CtlTypeOK' /\ WorkTypeOK' /\ ProcTypeOK'
  BY Stable DEF VisitRead, Inv, TypeOK
<1>2. io' \in {"send", "write"}
  BY DEF VisitRead, Recv, RecvNothing
<1>3. CtlReady' /\ MsgTaken' /\ ConnVisited' /\ ConnsBounded' /\ WorkersHold'
  BY <1>0, <1>2
     DEF VisitRead, Inv, Consistent, CtlReady, MsgTaken, ConnVisited, ConnsBounded,
         WorkersHold, workVars
<1>4. ASSUME Recv(c)
      PROVE  IOTypeOK' /\ ConnTypeOK' /\ ClientTypeOK' /\ ListenerSilent' /\ ReqsBounded' /\ TextKept'
  <2>1. PICK n \in 1..wire[c] : /\ rbuf' = [rbuf EXCEPT ![c] = @ + n]
                                /\ wire' = [wire EXCEPT ![c] = @ - n]
    BY <1>4 DEF Recv
  <2>2. delivered[c] < MaxReqs
    BY <1>0, <1>4, ReqLeft DEF Recv, Twice
  <2>3. NextRequest(c) \in Request /\ delivered[c] + 1 \in 1..MaxReqs
    BY <2>2, NextType DEF Inv, TypeOK
  <2>4. /\ pend' \in Seq(Fragment) /\ delivered' = [delivered EXCEPT ![c] = @ + 1]
        /\ text' = [text EXCEPT ![c] = delivered[c] + 1] /\ flags' = flags /\ io' = "send"
    BY <1>4, <2>3, FragmentsType DEF Recv, Deliver
  <2>5. IOTypeOK'
    BY <1>0, <2>4 DEF Inv, TypeOK, IOTypeOK
  <2>6. rbuf[c] + n \in Nat /\ wire[c] - n \in Nat /\ rbuf[c] + n > 0
    BY <1>0, <2>1
  <2>7. ConnTypeOK'
    <3>1. rbuf' \in [Conns -> Nat]
      BY <1>0, <2>1, <2>6 DEF Inv, TypeOK, ConnTypeOK
    <3>2. text' \in [Conns -> 0..MaxReqs]
      BY <2>3, <2>4, Domains DEF Inv, TypeOK, ConnTypeOK
    <3>3. delivered' \in [Conns -> 0..MaxReqs]
      BY <1>0, <2>3, <2>4 DEF Inv, TypeOK, ConnTypeOK
    <3> QED
      BY <1>0, <2>4, <3>1, <3>2, <3>3 DEF Inv, TypeOK, ConnTypeOK
  <2>8. ClientTypeOK'
    BY <1>0, <2>1, <2>6 DEF Inv, TypeOK, ClientTypeOK
  <2>9. ListenerSilent' /\ TextKept'
    BY <1>0, <2>1, <2>4, <2>6, Domains
       DEF Inv, TypeOK, ConnTypeOK, Consistent, ListenerSilent, TextKept
  <2>10. ReqsBounded'
    <3> SUFFICES ASSUME NEW d \in Accepted
                 PROVE  delivered'[d] + rbuf'[d] + wire'[d] + budget' <= MaxReqs + Twice(d)'
      BY DEF ReqsBounded
    <3>1. Twice(d) = 0 /\ Twice(d)' = (IF d = c THEN 1 ELSE 0)
      BY <1>0, <2>4 DEF Twice
    <3>2. CASE d = c
      <4>1. /\ delivered'[d] = delivered[d] + 1 /\ rbuf'[d] = rbuf[d] + n
            /\ wire'[d] = wire[d] - n /\ budget' = budget /\ n \in Int
        BY <3>2, <1>0, <2>1, <2>4, Bound DEF Inv, TypeOK, ConnTypeOK, ClientTypeOK
      <4> QED
        BY <4>1, <3>1, <3>2, Bound
    <3>3. CASE d # c
      <4>1. /\ delivered'[d] = delivered[d] /\ rbuf'[d] = rbuf[d] /\ wire'[d] = wire[d]
            /\ budget' = budget
        BY <3>3, <1>0, <2>1, <2>4, Bound DEF Inv, TypeOK, ConnTypeOK, ClientTypeOK
      <4> QED
        BY <4>1, <3>1, <3>3, Bound
    <3> QED
      BY <3>2, <3>3
  <2> QED
    BY <2>5, <2>7, <2>8, <2>9, <2>10
<1>5. ASSUME UNCHANGED <<rbuf, wire, pend, delivered, text>>, io' = "write",
             flags' \in [Conns -> SUBSET {"SEND_AND_CLOSE", "CLOSE_IMMEDIATELY"}]
      PROVE  IOTypeOK' /\ ConnTypeOK' /\ ClientTypeOK' /\ ListenerSilent' /\ ReqsBounded' /\ TextKept'
  <2>1. IOTypeOK' /\ ConnTypeOK' /\ ClientTypeOK'
    BY <1>0, <1>5 DEF Inv, TypeOK, IOTypeOK, ConnTypeOK, ClientTypeOK
  <2>2. ListenerSilent' /\ TextKept'
    BY <1>0, <1>5 DEF Inv, Consistent, ListenerSilent, TextKept
  <2>3. ReqsBounded'
    BY <1>0, <1>5 DEF Inv, Consistent, ReqsBounded, Twice
  <2> QED
    BY <2>1, <2>2, <2>3
<1>6. \/ Recv(c)
      \/ /\ UNCHANGED <<rbuf, wire, pend, delivered, text>> /\ io' = "write"
         /\ flags' \in [Conns -> SUBSET {"SEND_AND_CLOSE", "CLOSE_IMMEDIATELY"}]
  <2>1. \A x \in SUBSET {"SEND_AND_CLOSE", "CLOSE_IMMEDIATELY"} :
           [flags EXCEPT ![c] = @ \cup x]
             \in [Conns -> SUBSET {"SEND_AND_CLOSE", "CLOSE_IMMEDIATELY"}]
    BY <1>0 DEF Inv, TypeOK, ConnTypeOK
  <2>2. {IF client[c] = "fin" THEN "SEND_AND_CLOSE" ELSE "CLOSE_IMMEDIATELY"}
          \in SUBSET {"SEND_AND_CLOSE", "CLOSE_IMMEDIATELY"}
    OBVIOUS
  <2>3. CASE RecvNothing(c)
    BY <2>1, <2>2, <2>3 DEF RecvNothing
  <2>4. CASE io' = "write" /\ UNCHANGED <<rbuf, wire, pend, delivered, text, flags>>
    BY <2>4 DEF Inv, TypeOK, ConnTypeOK
  <2> QED
    BY <2>3, <2>4 DEF VisitRead
<1> QED
  BY <1>1, <1>3, <1>4, <1>5, <1>6 DEF Inv, TypeOK, Consistent

LEMMA VisitWriteKeeps == ASSUME Inv, NEW c \in Accepted, VisitWrite(c) PROVE Inv'
<1>1. ConnTypeOK' /\ ClientTypeOK'
  <2>0. /\ c \in Conns /\ sbuf[c] \in Seq(Request)
        /\ UNCHANGED <<active, accepted, udata, rbuf, text, delivered,
                       backlog, client, wire, budget>>
    BY Domains DEF VisitWrite, Inv, TypeOK, ConnTypeOK, ClientTypeOK
  <2>1. CASE \E n \in 1..Len(sbuf[c]) :
                /\ sbuf' = [sbuf EXCEPT ![c] = SubSeq(@, n + 1, Len(@))]
                /\ answered' = answered \cup
                      {<<c, sbuf[c][i].rank>> : i \in {j \in 1..n : sbuf[c][j].conn = c}}
                /\ UNCHANGED flags
    <3>1. PICK n \in 1..Len(sbuf[c]) :
            /\ sbuf' = [sbuf EXCEPT ![c] = SubSeq(@, n + 1, Len(@))]
            /\ answered' = answered \cup
                  {<<c, sbuf[c][i].rank>> : i \in {j \in 1..n : sbuf[c][j].conn = c}}
            /\ UNCHANGED flags
      BY <2>1
    <3>2. SubSeq(sbuf[c], n + 1, Len(sbuf[c])) \in Seq(Request)
      BY <2>0, SubSeqProperties
    <3>3. ConnTypeOK'
      BY <2>0, <3>1, <3>2 DEF Inv, TypeOK, ConnTypeOK
    <3>4. \A i \in 1..n : sbuf[c][i] \in Request
      BY <2>0
    <3>5. \A i \in 1..n : sbuf[c][i].rank \in 1..MaxReqs
      BY <3>4 DEF Request
    <3>6. answered' \subseteq Accepted \X (1..MaxReqs)
      BY <3>1, <3>5 DEF Inv, TypeOK, ClientTypeOK
    <3>7. ClientTypeOK'
      BY <2>0, <3>6 DEF Inv, TypeOK, ClientTypeOK
    <3> QED
      BY <3>3, <3>7
  <2>2. CASE /\ UNCHANGED <<sbuf, answered>>
             /\ \/ UNCHANGED flags
                \/ flags' = [flags EXCEPT ![c] = @ \cup {"CLOSE_IMMEDIATELY"}]
    <3>1. flags' \in [Conns -> SUBSET {"SEND_AND_CLOSE", "CLOSE_IMMEDIATELY"}]
      BY <2>0, <2>2 DEF Inv, TypeOK, ConnTypeOK
    <3> QED
      BY <2>0, <2>2, <3>1 DEF Inv, TypeOK, ConnTypeOK, ClientTypeOK
  <2> QED
    BY <2>1, <2>2 DEF VisitWrite
<1>2. SockTypeOK' /\ CtlTypeOK' /\ WorkTypeOK' /\ ProcTypeOK'
  BY Stable DEF VisitWrite, Inv, TypeOK
<1>3. IOTypeOK'
  BY DEF VisitWrite, Inv, TypeOK, IOTypeOK
<1>4. Consistent'
  BY Kept DEF VisitWrite, IOAt, Inv, Consistent
<1> QED
  BY <1>1, <1>2, <1>3, <1>4 DEF Inv, TypeOK

LEMMA StartClosePassKeeps == ASSUME Inv, StartClosePass PROVE Inv'
<1>1. /\ ConnTypeOK' /\ ClientTypeOK' /\ SockTypeOK'
      /\ CtlTypeOK' /\ WorkTypeOK' /\ ProcTypeOK'
  BY Stable DEF StartClosePass, Inv, TypeOK
<1>2. IOTypeOK'
  BY DEF StartClosePass, Inv, TypeOK, IOTypeOK, ConnTypeOK
<1>3. /\ CtlReady' /\ MsgTaken' /\ ConnVisited' /\ TextKept'
      /\ ListenerSilent' /\ ConnsBounded' /\ ReqsBounded' /\ WorkersHold'
  BY Kept DEF StartClosePass, IOAt, Inv, connVars, clientVars
<1> QED
  BY <1>1, <1>2, <1>3 DEF Inv, TypeOK, Consistent

LEMMA KeepConnKeeps == ASSUME Inv, KeepConn PROVE Inv'
<1>1. /\ ConnTypeOK' /\ ClientTypeOK' /\ SockTypeOK'
      /\ CtlTypeOK' /\ WorkTypeOK' /\ ProcTypeOK'
  BY Stable DEF KeepConn, Inv, TypeOK
<1>2. IOTypeOK'
  BY DEF KeepConn, Inv, TypeOK, IOTypeOK
<1>3. /\ CtlReady' /\ MsgTaken' /\ ConnVisited' /\ TextKept'
      /\ ListenerSilent' /\ ConnsBounded' /\ ReqsBounded' /\ WorkersHold'
  BY Kept DEF KeepConn, IOAt, Inv, connVars, clientVars
<1> QED
  BY <1>1, <1>2, <1>3 DEF Inv, TypeOK, Consistent

LEMMA CloseConnKeeps == ASSUME Inv, CloseConn PROVE Inv'
<1>1. ClientTypeOK' /\ SockTypeOK' /\ CtlTypeOK' /\ WorkTypeOK' /\ ProcTypeOK'
  BY Stable DEF CloseConn, Inv, TypeOK
<1>2. IOTypeOK'
  BY DEF CloseConn, Forget, Inv, TypeOK, IOTypeOK
<1>3. ConnTypeOK'
  <2>1. Head(todo) \in Conns
    BY DEF CloseConn, Inv, TypeOK, IOTypeOK
  <2>2. active' \in Seq(Conns)
    BY <2>1, Removed DEF CloseConn, Inv, TypeOK
  <2>3. /\ udata' \in [Conns -> 0..(IdMod - 1)] /\ rbuf' \in [Conns -> Nat]
        /\ sbuf' \in [Conns -> Seq(Request)] /\ text' \in [Conns -> 0..MaxReqs]
        /\ flags' \in [Conns -> SUBSET {"SEND_AND_CLOSE", "CLOSE_IMMEDIATELY"}]
    BY <2>1, Forgotten DEF CloseConn, Inv, TypeOK
  <2> QED
    BY <2>2, <2>3 DEF CloseConn, Inv, TypeOK, ConnTypeOK
<1>4. ListenerSilent' /\ ReqsBounded'
  <2>1. rbuf' = rbuf
    BY DEF CloseConn, Forget, Inv, TypeOK, ConnTypeOK
  <2> QED
    BY <2>1, Kept DEF CloseConn, IOAt, Inv, clientVars
<1>5. /\ CtlReady' /\ MsgTaken' /\ ConnVisited'
      /\ TextKept' /\ ConnsBounded' /\ WorkersHold'
  BY Kept DEF CloseConn, IOAt, Inv, connVars, clientVars
<1> QED
  BY <1>1, <1>2, <1>3, <1>4, <1>5 DEF Inv, TypeOK, Consistent

LEMMA CloseConnDeliveringKeeps == ASSUME Inv, CloseConnDelivering PROVE Inv'
<1> DEFINE c == Head(todo)
<1>0. /\ todo # << >> /\ c \in Conns /\ rbuf[c] > 0 /\ io = "close" /\ io' = "sendclose"
      /\ pend' = Fragments(NextRequest(c)) /\ RemoveConn(c)
      /\ delivered' = [delivered EXCEPT ![c] = @ + 1]
      /\ text' = [text EXCEPT ![c] = delivered[c] + 1]
      /\ UNCHANGED <<phase, todo, readable, writable, msg, accepted, udata, flags, rbuf, sbuf>>
      /\ UNCHANGED <<clientVars, sockVars, ctlVars, workVars, procVars>>
  BY DEF CloseConnDelivering, Deliver, IOAt, Inv, TypeOK, IOTypeOK
<1>1. c \in Accepted
  BY <1>0, Domains DEF Inv, Consistent, ListenerSilent
<1>2. Twice(c) = 0
  BY <1>0 DEF Twice
<1>3. delivered[c] < MaxReqs
  BY <1>0, <1>1, <1>2, ReqLeft
<1>4. NextRequest(c) \in Request /\ delivered[c] + 1 \in 1..MaxReqs
  BY <1>1, <1>3, NextType DEF Inv, TypeOK
<1>5. IOTypeOK'
  <2>1. pend' \in Seq(Fragment)
    BY <1>0, <1>4, FragmentsType
  <2> QED
    BY <1>0, <2>1 DEF Inv, TypeOK, IOTypeOK
<1>6. ConnTypeOK'
  <2>1. active' \in Seq(Conns)
    BY <1>0, Removed DEF Inv, TypeOK
  <2>2. delivered' \in [Conns -> 0..MaxReqs]
    BY <1>0, <1>4 DEF Inv, TypeOK, ConnTypeOK
  <2>3. text' \in [Conns -> 0..MaxReqs]
    BY <1>0, <1>4, Domains DEF Inv, TypeOK, ConnTypeOK
  <2> QED
    BY <1>0, <2>1, <2>2, <2>3 DEF Inv, TypeOK, ConnTypeOK
<1>7. ClientTypeOK' /\ SockTypeOK' /\ CtlTypeOK' /\ WorkTypeOK' /\ ProcTypeOK'
  BY <1>0, Stable DEF Inv, TypeOK
<1>8. ReqsBounded'
  <2> SUFFICES ASSUME NEW d \in Accepted
               PROVE  delivered'[d] + rbuf'[d] + wire'[d] + budget' <= MaxReqs + Twice(d)'
    BY DEF ReqsBounded
  <2>1. Twice(d) = 0 /\ Twice(d)' = (IF d = c THEN 1 ELSE 0)
    BY <1>0 DEF Twice
  <2>2. delivered'[d] = IF d = c THEN delivered[d] + 1 ELSE delivered[d]
    BY <1>0, <1>1, Bound DEF Inv, TypeOK, ConnTypeOK
  <2>3. UNCHANGED <<rbuf, wire, budget>>
    BY <1>0 DEF clientVars
  <2> QED
    BY <2>1, <2>2, <2>3, Bound
<1>9. /\ CtlReady' /\ MsgTaken' /\ ConnVisited' /\ TextKept'
      /\ ListenerSilent' /\ ConnsBounded' /\ WorkersHold'
  BY <1>0, <1>1
     DEF Inv, Consistent, CtlReady, MsgTaken, ConnVisited, TextKept, ListenerSilent,
         ConnsBounded, WorkersHold, clientVars, workVars
<1> QED
  BY <1>5, <1>6, <1>7, <1>8, <1>9 DEF Inv, TypeOK, Consistent

\* The write places a part of what is pending, or all of it.
LEMMA Placed ==
  ASSUME IOTypeOK, SockTypeOK, NEW n \in 0..Len(pend), Place(n)
  PROVE  stream' \in Seq(Fragment) /\ pend' \in Seq(Fragment)
<1>1. SubSeq(pend, 1, n) \in Seq(Fragment) /\ SubSeq(pend, n + 1, Len(pend)) \in Seq(Fragment)
  BY SubSeqProperties DEF IOTypeOK
<1> QED
  BY <1>1, ConcatProperties DEF Place, SockTypeOK

LEMMA WriteSomeKeeps == ASSUME Inv, WriteSome PROVE Inv'
<1>1. Room \in 0..Len(pend) /\ Place(Room)
  BY Domains DEF WriteSome, Room, Place, Inv, TypeOK, IOTypeOK, SockTypeOK
<1>2. stream' \in Seq(Fragment) /\ pend' \in Seq(Fragment)
  BY <1>1, Placed DEF Inv, TypeOK
<1>3. ConnTypeOK' /\ ClientTypeOK' /\ CtlTypeOK' /\ WorkTypeOK' /\ ProcTypeOK'
  BY Stable DEF WriteSome, Inv, TypeOK
<1>4. IOTypeOK' /\ SockTypeOK'
  BY <1>2 DEF WriteSome, Inv, TypeOK, IOTypeOK, SockTypeOK
<1>5. UNCHANGED <<io, todo, rbuf, delivered, wire, budget>>
  BY DEF WriteSome, connVars, clientVars
<1>6. CtlReady' /\ MsgTaken' /\ ListenerSilent' /\ ConnsBounded' /\ WorkersHold'
  BY <1>5, Kept DEF WriteSome, IOAt, Inv, connVars, clientVars
<1>7. ConnVisited' /\ TextKept' /\ ReqsBounded'
  BY <1>5 DEF Inv, Consistent, ConnVisited, TextKept, ReqsBounded, Twice
<1> QED
  BY <1>3, <1>4, <1>6, <1>7 DEF Inv, TypeOK, Consistent

LEMMA WriteDoneKeeps == ASSUME Inv, WriteDone PROVE Inv'
<1> DEFINE c == Head(todo)
<1>1. c \in Accepted /\ c \in Conns /\ c # Listener /\ todo # << >> /\ rbuf[c] - 1 \in Nat
  BY Domains DEF WriteDone, IOAt, Inv, TypeOK, ConnTypeOK, Consistent, ConnVisited, TextKept
<1>2. /\ io = "send" /\ io' = "write"
      /\ rbuf' = [rbuf EXCEPT ![c] = rbuf[c] - 1]
      /\ text' = text \/ text' = [text EXCEPT ![c] = 0]
      /\ UNCHANGED <<phase, todo, readable, writable, msg, active, accepted, udata, flags, sbuf,
                     delivered, backlog, wire, budget, sock>>
  BY <1>1 DEF WriteDone, IOAt, clientVars, Inv, TypeOK, ConnTypeOK
<1>3. stream' \in Seq(Fragment) /\ pend' \in Seq(Fragment)
  BY Placed DEF WriteDone, Inv, TypeOK, IOTypeOK
<1>4. ClientTypeOK' /\ CtlTypeOK' /\ WorkTypeOK' /\ ProcTypeOK'
  BY Stable DEF WriteDone, Inv, TypeOK
<1>5. IOTypeOK' /\ SockTypeOK'
  BY <1>2, <1>3 DEF Inv, TypeOK, IOTypeOK, SockTypeOK
<1>6. ConnTypeOK'
  <2>1. rbuf' \in [Conns -> Nat]
    BY <1>1, <1>2 DEF Inv, TypeOK, ConnTypeOK
  <2>2. text \in [Conns -> 0..MaxReqs] /\ [text EXCEPT ![c] = 0] \in [Conns -> 0..MaxReqs]
    BY <1>1, Domains DEF Inv, TypeOK, ConnTypeOK
  <2> QED
    BY <1>2, <2>1, <2>2 DEF Inv, TypeOK, ConnTypeOK
<1>7. CtlReady' /\ MsgTaken' /\ ConnsBounded' /\ WorkersHold'
  BY <1>2, Kept DEF WriteDone, Inv
<1>8. ConnVisited' /\ TextKept' /\ ListenerSilent'
  BY <1>1, <1>2, Domains
     DEF Inv, TypeOK, ConnTypeOK, Consistent, ConnVisited, TextKept, ListenerSilent
<1>9. ReqsBounded'
  <2> SUFFICES ASSUME NEW d \in Accepted
               PROVE  delivered'[d] + rbuf'[d] + wire'[d] + budget' <= MaxReqs + Twice(d)'
    BY DEF ReqsBounded
  <2>1. /\ Twice(d) = (IF d = c THEN 1 ELSE 0) /\ Twice(d)' = 0
    BY <1>2 DEF Twice
  <2>2. rbuf'[d] = IF d = c THEN rbuf[d] - 1 ELSE rbuf[d]
    BY <1>2, Bound DEF Inv, TypeOK, ConnTypeOK
  <2> QED
    BY <1>2, <2>1, <2>2, Bound
<1> QED
  BY <1>4, <1>5, <1>6, <1>7, <1>8, <1>9 DEF Inv, TypeOK, Consistent

LEMMA WriteDoneClosingKeeps == ASSUME Inv, WriteDoneClosing PROVE Inv'
<1> DEFINE c == Head(todo)
<1>1. c \in Accepted /\ c \in Conns /\ c # Listener /\ todo # << >> /\ rbuf[c] > 0
  BY Domains DEF WriteDoneClosing, IOAt, Inv, Consistent, ConnVisited, TextKept
<1>2. /\ io = "sendclose" /\ io' = "close" /\ todo' = Tail(todo) /\ Forget(c)
      /\ rbuf' = [rbuf EXCEPT ![c] = 0] /\ text' = [text EXCEPT ![c] = 0]
      /\ UNCHANGED <<phase, readable, writable, msg, active, accepted, delivered,
                     backlog, wire, budget, sock>>
  BY DEF WriteDoneClosing, Forget, IOAt, clientVars
<1>3. stream' \in Seq(Fragment) /\ pend' \in Seq(Fragment)
  BY Placed DEF WriteDoneClosing, Inv, TypeOK, IOTypeOK
<1>4. ClientTypeOK' /\ CtlTypeOK' /\ WorkTypeOK' /\ ProcTypeOK'
  BY Stable DEF WriteDoneClosing, Inv, TypeOK
<1>5. IOTypeOK' /\ SockTypeOK'
  BY <1>1, <1>2, <1>3 DEF Inv, TypeOK, IOTypeOK, SockTypeOK
<1>6. ConnTypeOK'
  BY <1>1, <1>2, Forgotten DEF Inv, TypeOK, ConnTypeOK
<1>7. CtlReady' /\ MsgTaken' /\ ConnVisited' /\ TextKept' /\ ConnsBounded' /\ WorkersHold'
  BY <1>2, Kept DEF WriteDoneClosing, Inv
<1>8. ListenerSilent'
  BY <1>1, <1>2, Domains DEF Inv, TypeOK, ConnTypeOK, Consistent, ListenerSilent
<1>9. ReqsBounded'
  <2> SUFFICES ASSUME NEW d \in Accepted
               PROVE  delivered'[d] + rbuf'[d] + wire'[d] + budget' <= MaxReqs + Twice(d)'
    BY DEF ReqsBounded
  <2>1. /\ Twice(d) = (IF d = c THEN 1 ELSE 0) /\ Twice(d)' = 0
    BY <1>2 DEF Twice
  <2>2. rbuf'[d] = IF d = c THEN 0 ELSE rbuf[d]
    BY <1>2, Bound DEF Inv, TypeOK, ConnTypeOK
  <2>3. /\ d = c => rbuf[d] >= 1
        /\ UNCHANGED <<delivered, wire, budget>>
    BY <1>1, <1>2, Bound
  <2> QED
    BY <2>1, <2>2, <2>3, Bound
<1> QED
  BY <1>4, <1>5, <1>6, <1>7, <1>8, <1>9 DEF Inv, TypeOK, Consistent

LEMMA EndClosePassKeeps == ASSUME Inv, EndClosePass PROVE Inv'
<1>1. /\ ConnTypeOK' /\ ClientTypeOK' /\ SockTypeOK'
      /\ CtlTypeOK' /\ WorkTypeOK' /\ ProcTypeOK'
  BY Stable DEF EndClosePass, Inv, TypeOK
<1>2. IOTypeOK'
  BY DEF EndClosePass, AfterPass, Inv, TypeOK, IOTypeOK
<1>3. /\ CtlReady' /\ MsgTaken' /\ ConnVisited' /\ TextKept'
      /\ ListenerSilent' /\ ConnsBounded' /\ ReqsBounded' /\ WorkersHold'
  BY Kept DEF EndClosePass, IOAt, Inv, connVars, clientVars, AfterPass, TypeOK, IOTypeOK
<1> QED
  BY <1>1, <1>2, <1>3 DEF Inv, TypeOK, Consistent

LEMMA FreeCtlKeeps == ASSUME Inv, FreeCtl PROVE Inv'
<1>1. ConnTypeOK' /\ ClientTypeOK' /\ SockTypeOK' /\ WorkTypeOK' /\ ProcTypeOK'
  BY Stable DEF FreeCtl, Inv, TypeOK
<1>2. IOTypeOK'
  BY DEF FreeCtl, Inv, TypeOK, IOTypeOK, ConnTypeOK
<1>3. CtlTypeOK'
  <2>1. ctl' \in Seq(Request)
    BY DEF FreeCtl
  <2> QED
    BY <2>1 DEF FreeCtl, CtlTypeOK
<1>4. /\ CtlReady' /\ MsgTaken' /\ ConnVisited' /\ TextKept'
      /\ ListenerSilent' /\ ConnsBounded' /\ ReqsBounded' /\ WorkersHold'
  BY Kept DEF FreeCtl, IOAt, Inv, connVars, clientVars
<1> QED
  BY <1>1, <1>2, <1>3, <1>4 DEF Inv, TypeOK, Consistent

LEMMA CloseSock0Keeps == ASSUME Inv, CloseSock0 PROVE Inv'
<1>1. ConnTypeOK' /\ ClientTypeOK' /\ CtlTypeOK' /\ WorkTypeOK' /\ ProcTypeOK'
  BY Stable DEF CloseSock0, Inv, TypeOK
<1>2. IOTypeOK'
  BY DEF CloseSock0, Inv, TypeOK, IOTypeOK
<1>3. SockTypeOK'
  BY DEF CloseSock0, Inv, TypeOK, SockTypeOK
<1>4. /\ CtlReady' /\ MsgTaken' /\ ConnVisited' /\ TextKept'
      /\ ListenerSilent' /\ ConnsBounded' /\ ReqsBounded' /\ WorkersHold'
  BY Kept DEF CloseSock0, IOAt, Inv, connVars, clientVars
<1> QED
  BY <1>1, <1>2, <1>3, <1>4 DEF Inv, TypeOK, Consistent

LEMMA CloseSock1Keeps == ASSUME Inv, CloseSock1 PROVE Inv'
<1>1. ConnTypeOK' /\ ClientTypeOK' /\ CtlTypeOK' /\ WorkTypeOK' /\ ProcTypeOK'
  BY Stable DEF CloseSock1, Inv, TypeOK
<1>2. IOTypeOK'
  BY DEF CloseSock1, Inv, TypeOK, IOTypeOK
<1>3. SockTypeOK'
  <2>1. stream' \in Seq(Fragment)
    BY DEF CloseSock1
  <2> QED
    BY <2>1 DEF CloseSock1, SockTypeOK
<1>4. /\ CtlReady' /\ MsgTaken' /\ ConnVisited' /\ TextKept'
      /\ ListenerSilent' /\ ConnsBounded' /\ ReqsBounded' /\ WorkersHold'
  BY Kept DEF CloseSock1, IOAt, Inv, connVars, clientVars
<1> QED
  BY <1>1, <1>2, <1>3, <1>4 DEF Inv, TypeOK, Consistent

LEMMA TestSignalKeeps == ASSUME Inv, NEW w \in Workers, TestSignal(w) PROVE Inv'
<1>1. /\ IOTypeOK' /\ ConnTypeOK' /\ ClientTypeOK'
      /\ SockTypeOK' /\ CtlTypeOK' /\ ProcTypeOK'
  BY Stable DEF TestSignal, Inv, TypeOK
<1>2. WorkTypeOK'
  BY DEF TestSignal, Inv, TypeOK, WorkTypeOK
<1>3. WorkersHold'
  BY DEF TestSignal, Inv, TypeOK, WorkTypeOK, Consistent, WorkersHold
<1>4. /\ CtlReady' /\ MsgTaken' /\ ConnVisited' /\ TextKept'
      /\ ListenerSilent' /\ ConnsBounded' /\ ReqsBounded'
  BY IOKept, Kept DEF TestSignal, Inv
<1> QED
  BY <1>1, <1>2, <1>3, <1>4 DEF Inv, TypeOK, Consistent

LEMMA WorkerReadKeeps == ASSUME Inv, NEW w \in Workers, WorkerRead(w) PROVE Inv'
<1>1. /\ Head(stream).req \in Request /\ UNCHANGED <<signal, handled>>
      /\ \/ /\ wreq' = [wreq EXCEPT ![w] = Head(stream).req] /\ UNCHANGED crashed
            /\ wpc' = [wpc EXCEPT ![w] = "work"]
         \/ UNCHANGED wreq /\ UNCHANGED wpc /\ crashed' = TRUE
  <2>1. Head(stream).req \in Request
    <3>1. stream # << >> /\ stream \in Seq(Fragment)
      BY DEF WorkerRead, Inv, TypeOK, SockTypeOK
    <3>2. Head(stream) \in Fragment
      BY <3>1
    <3> QED
      BY <3>2 DEF Fragment
  <2>2. \/ /\ wreq' = [wreq EXCEPT ![w] = Head(stream).req] /\ UNCHANGED crashed
           /\ wpc' = [wpc EXCEPT ![w] = "work"]
        \/ UNCHANGED workVars /\ crashed' = TRUE
    BY DEF WorkerRead
  <2>3. UNCHANGED workVars => UNCHANGED wreq /\ UNCHANGED wpc
    BY DEF workVars
  <2> QED
    BY <2>1, <2>2, <2>3 DEF WorkerRead
<1>2. IOTypeOK' /\ ConnTypeOK' /\ ClientTypeOK' /\ CtlTypeOK'
  BY Stable DEF WorkerRead, Inv, TypeOK
<1>3. SockTypeOK'
  BY Domains, SubSeqProperties DEF WorkerRead, Taken, Inv, TypeOK, SockTypeOK
<1>4. WorkTypeOK' /\ ProcTypeOK'
  BY <1>1 DEF Inv, TypeOK, WorkTypeOK, ProcTypeOK
<1>5. WorkersHold'
  BY <1>1 DEF Inv, TypeOK, WorkTypeOK, Consistent, WorkersHold
<1>6. /\ CtlReady' /\ MsgTaken' /\ ConnVisited' /\ TextKept'
      /\ ListenerSilent' /\ ConnsBounded' /\ ReqsBounded'
  BY IOKept DEF WorkerRead, Inv
<1> QED
  BY <1>2, <1>3, <1>4, <1>5, <1>6 DEF Inv, TypeOK, Consistent

LEMMA WorkerReadFailsKeeps == ASSUME Inv, NEW w \in Workers, WorkerReadFails(w) PROVE Inv'
<1>1. /\ IOTypeOK' /\ ConnTypeOK' /\ ClientTypeOK'
      /\ SockTypeOK' /\ CtlTypeOK' /\ WorkTypeOK'
  BY Stable DEF WorkerReadFails, Inv, TypeOK
<1>2. ProcTypeOK'
  BY DEF WorkerReadFails, Inv, TypeOK, ProcTypeOK
<1>3. /\ CtlReady' /\ MsgTaken' /\ ConnVisited' /\ TextKept'
      /\ ListenerSilent' /\ ConnsBounded' /\ ReqsBounded' /\ WorkersHold'
  BY IOKept, Kept DEF WorkerReadFails, Inv
<1> QED
  BY <1>1, <1>2, <1>3 DEF Inv, TypeOK, Consistent

LEMMA WorkerBroadcastKeeps == ASSUME Inv, NEW w \in Workers, WorkerBroadcast(w) PROVE Inv'
<1>1. IOTypeOK' /\ ConnTypeOK' /\ ClientTypeOK' /\ SockTypeOK' /\ ProcTypeOK'
  BY Stable DEF WorkerBroadcast, Inv, TypeOK
<1>2. CtlTypeOK'
  BY DEF WorkerBroadcast, WorkerAt, Inv, TypeOK, CtlTypeOK, Consistent, WorkersHold
<1>3. WorkTypeOK'
  BY DEF WorkerBroadcast, Inv, TypeOK, WorkTypeOK
<1>4. CtlReady'
  <2>1. ctl # << >> => ctl' # << >>
    BY DEF WorkerBroadcast, Inv, TypeOK, CtlTypeOK
  <2> QED
    BY <2>1 DEF WorkerBroadcast, ioVars, Inv, Consistent, CtlReady
<1>5. WorkersHold'
  <2>1. wpc'[w] # "work" /\ \A v \in Workers \ {w} : wpc'[v] = wpc[v] /\ wreq'[v] = wreq[v]
    BY DEF WorkerBroadcast, Inv, TypeOK, WorkTypeOK
  <2> QED
    BY <2>1 DEF Inv, Consistent, WorkersHold
<1>6. /\ MsgTaken' /\ ConnVisited' /\ TextKept'
      /\ ListenerSilent' /\ ConnsBounded' /\ ReqsBounded'
  BY IOKept, Kept DEF WorkerBroadcast, Inv
<1> QED
  BY <1>1, <1>2, <1>3, <1>4, <1>5, <1>6 DEF Inv, TypeOK, Consistent

LEMMA WorkerAckKeeps == ASSUME Inv, NEW w \in Workers, WorkerAck(w) PROVE Inv'
<1>1. IOTypeOK' /\ ConnTypeOK' /\ ClientTypeOK' /\ SockTypeOK' /\ ProcTypeOK'
  BY Stable DEF WorkerAck, Inv, TypeOK
<1>2. CtlTypeOK'
  BY DEF WorkerAck, Inv, TypeOK, CtlTypeOK, ByteArrived
<1>3. WorkTypeOK'
  BY DEF WorkerAck, Inv, TypeOK, WorkTypeOK
<1>4. CtlReady'
  BY DEF WorkerAck, ioVars, Inv, Consistent, CtlReady
<1>5. WorkersHold'
  BY DEF WorkerAck, Inv, TypeOK, WorkTypeOK, Consistent, WorkersHold
<1>6. /\ MsgTaken' /\ ConnVisited' /\ TextKept'
      /\ ListenerSilent' /\ ConnsBounded' /\ ReqsBounded'
  BY IOKept, Kept DEF WorkerAck, Inv
<1> QED
  BY <1>1, <1>2, <1>3, <1>4, <1>5, <1>6 DEF Inv, TypeOK, Consistent

-------------------------------------------------------------------------------
LEMMA InitInv == Init => Inv
<1> SUFFICES ASSUME Init
             PROVE  Inv
  OBVIOUS
<1>1. << >> \in Seq(Conns) /\ << >> \in Seq(Fragment) /\ << >> \in Seq(Request)
  OBVIOUS
<1>2. <<Listener>> \in Seq(Conns)
  BY Domains
<1>3. IOTypeOK /\ SockTypeOK /\ CtlTypeOK
  BY <1>1 DEF Init, IOTypeOK, SockTypeOK, CtlTypeOK
<1>4. ConnTypeOK
  BY <1>1, <1>2, Domains DEF Init, ConnTypeOK
<1>5. ClientTypeOK /\ WorkTypeOK /\ ProcTypeOK
  BY Domains DEF Init, ClientTypeOK, WorkTypeOK, ProcTypeOK
<1>6. CtlReady /\ MsgTaken /\ ConnVisited /\ TextKept /\ WorkersHold
  BY DEF Init, CtlReady, MsgTaken, ConnVisited, TextKept, WorkersHold
<1>7. ListenerSilent /\ ConnsBounded
  BY Domains DEF Init, ListenerSilent, ConnsBounded
<1>8. ReqsBounded
  BY Domains DEF Init, ReqsBounded, Twice
<1> QED
  BY <1>3, <1>4, <1>5, <1>6, <1>7, <1>8 DEF Inv, TypeOK, Consistent

LEMMA NextInv == Inv /\ [Next]_vars => Inv'
<1> SUFFICES ASSUME Inv, [Next]_vars
             PROVE  Inv'
  OBVIOUS
<1>1. CASE Client
  BY <1>1, ClientConnectKeeps, ClientSendKeeps, ClientFinKeeps, ClientResetKeeps DEF Client
<1>2. CASE SignalHandler
  BY <1>2, SignalHandlerKeeps
<1>3. CASE IOThread
  BY <1>3, SelectKeeps, HandleCtlSockKeeps, SkipCtlSockKeeps, OnWorkCompleteKeeps,
     VisitListenerKeeps, VisitReadKeeps, VisitWriteKeeps, StartClosePassKeeps, KeepConnKeeps,
     CloseConnKeeps, CloseConnDeliveringKeeps, WriteSomeKeeps, WriteDoneKeeps,
     WriteDoneClosingKeeps, EndClosePassKeeps, FreeCtlKeeps, CloseSock0Keeps, CloseSock1Keeps
     DEF IOThread
<1>4. CASE \E w \in Workers : Worker(w)
  BY <1>4, TestSignalKeeps, WorkerReadKeeps, WorkerReadFailsKeeps, WorkerBroadcastKeeps,
     WorkerAckKeeps DEF Worker
<1>5. CASE UNCHANGED vars
  <2>1. TypeOK'
    BY <1>5, Stable DEF vars, Inv, TypeOK
  <2>2. Consistent'
    BY <1>5, IOKept, Kept DEF vars, Inv, Consistent
  <2> QED
    BY <2>1, <2>2 DEF Inv
<1> QED
  BY <1>1, <1>2, <1>3, <1>4, <1>5 DEF Next

LEMMA Invariance == SafeSpec => []Inv
  BY InitInv, NextInv, PTL DEF SafeSpec

\* Every value the program keeps stays within its type, in particular no step of
\* the IO thread takes the head of an empty queue of messages or of connections.
THEOREM TypeCorrect == SafeSpec => []TypeOK
  BY Invariance, PTL DEF Inv
-------------------------------------------------------------------------------
LEMMA BlockedFinite == IsFiniteSet(Blocked) /\ Cardinality(Blocked) \in Nat
  BY ConstantsAssumption, FS_Subset, FS_CardinalityType DEF Blocked

LEMMA BlockedGrows ==
  ASSUME Inv, NEW w \in Workers, wpc[w] = "work", wpc' = [wpc EXCEPT ![w] = "ack"]
  PROVE  Cardinality(Blocked') = Cardinality(Blocked) + 1
<1>1. Blocked' = Blocked \cup {w} /\ w \notin Blocked
  BY DEF Blocked, Inv, TypeOK, WorkTypeOK
<1> QED
  BY <1>1, BlockedFinite, FS_AddElement

LEMMA BlockedShrinks ==
  ASSUME Inv, NEW w \in Workers, wpc[w] = "ack", wpc' = [wpc EXCEPT ![w] = "loop"]
  PROVE  Cardinality(Blocked') = Cardinality(Blocked) - 1
<1>1. Blocked' = Blocked \ {w} /\ w \in Blocked
  BY DEF Blocked, Inv, TypeOK, WorkTypeOK
<1> QED
  BY <1>1, BlockedFinite, FS_RemoveElement

\* A worker that neither enters mg_broadcast() nor returns from it.
LEMMA BlockedSame ==
  ASSUME Inv, NEW w \in Workers, NEW p \in {"recv", "work", "done", "loop"}, wpc[w] # "ack",
         wpc' = [wpc EXCEPT ![w] = p]
  PROVE  Blocked' = Blocked
  BY DEF Blocked, Inv, TypeOK, WorkTypeOK

LEMMA NextAccounting == Inv /\ CtlAccounting /\ [Next]_vars => CtlAccounting'
<1> SUFFICES ASSUME Inv, CtlAccounting, [Next]_vars
             PROVE  CtlAccounting'
  OBVIOUS
<1>0. Cardinality(Blocked) \in Nat /\ Len(ctl) \in Nat /\ acks \in Nat
  BY BlockedFinite DEF Inv, TypeOK, CtlTypeOK
<1>1. ASSUME UNCHANGED <<ctlVars, workVars>>
      PROVE  CtlAccounting'
  BY <1>1 DEF CtlAccounting, Blocked, ctlVars, workVars
<1>2. CASE HandleCtlSock
  <2>1. ctl # << >> /\ ctl' = Tail(ctl) /\ acks' = acks + 1 /\ UNCHANGED <<ctlOpen, wpc>>
    BY <1>2 DEF HandleCtlSock, Acknowledged, IOAt, Inv, Consistent, CtlReady, workVars
  <2>2. Len(ctl') = Len(ctl) - 1
    BY <2>1 DEF Inv, TypeOK, CtlTypeOK
  <2> QED
    BY <1>0, <2>1, <2>2 DEF CtlAccounting, Blocked
<1>3. CASE FreeCtl
  BY <1>3 DEF FreeCtl, CtlAccounting
<1>4. ASSUME NEW w \in Workers, TestSignal(w)
      PROVE  CtlAccounting'
  <2>1. Blocked' = Blocked
    BY <1>4, BlockedSame DEF TestSignal, WorkerAt
  <2> QED
    BY <1>4, <2>1 DEF TestSignal, CtlAccounting, ctlVars
<1>5. ASSUME NEW w \in Workers, WorkerRead(w)
      PROVE  CtlAccounting'
  <2>1. wpc[w] = "recv" /\ UNCHANGED <<ctl, acks, ctlOpen>>
    BY <1>5 DEF WorkerRead, WorkerAt, ctlVars
  <2>2. wpc' = wpc \/ wpc' = [wpc EXCEPT ![w] = "work"]
    BY <1>5 DEF WorkerRead, workVars
  <2>3. Blocked' = Blocked
    BY <2>1, <2>2, BlockedSame DEF Blocked
  <2> QED
    BY <2>1, <2>3 DEF CtlAccounting
<1>6. ASSUME NEW w \in Workers, WorkerBroadcast(w)
      PROVE  CtlAccounting'
  <2>1. CASE ctlOpen
    <3>1. /\ wpc' = [wpc EXCEPT ![w] = "ack"] /\ ctl' = Append(ctl, wreq[w])
          /\ wpc[w] = "work" /\ UNCHANGED <<acks, ctlOpen>>
      BY <1>6, <2>1 DEF WorkerBroadcast, CtlUsable, WorkerAt
    <3>2. Len(ctl') = Len(ctl) + 1
      BY <3>1 DEF Inv, TypeOK, CtlTypeOK
    <3>3. Cardinality(Blocked') = Cardinality(Blocked) + 1
      BY <3>1, BlockedGrows
    <3> QED
      BY <1>0, <2>1, <3>1, <3>2, <3>3 DEF CtlAccounting
  <2>2. CASE ~ctlOpen
    BY <1>6, <2>2 DEF WorkerBroadcast, CtlAccounting
  <2> QED
    BY <2>1, <2>2
<1>7. ASSUME NEW w \in Workers, WorkerAck(w)
      PROVE  CtlAccounting'
  <2>1. wpc[w] = "ack" /\ wpc' = [wpc EXCEPT ![w] = "loop"] /\ UNCHANGED <<ctl, ctlOpen>>
    BY <1>7 DEF WorkerAck, WorkerAt
  <2>2. ctlOpen => acks' = acks - 1
    BY <1>7 DEF WorkerAck
  <2>3. Cardinality(Blocked') = Cardinality(Blocked) - 1
    BY <2>1, BlockedShrinks
  <2> QED
    BY <1>0, <2>1, <2>2, <2>3 DEF CtlAccounting
<1>8. ASSUME NEW w \in Workers, WorkerReadFails(w)
      PROVE  CtlAccounting'
  BY <1>1, <1>8 DEF WorkerReadFails
<1>9. CASE Client \/ SignalHandler \/ UNCHANGED vars
  BY <1>1, <1>9 DEF Client, ClientConnect, ClientSend, ClientFin, ClientReset, SignalHandler,
     serverVars, vars
<1>10. CASE IOThread /\ ~HandleCtlSock /\ ~FreeCtl
  <2>1. UNCHANGED <<ctlVars, workVars>>
    BY <1>10
       DEF IOThread, Select, SkipCtlSock, OnWorkComplete, VisitListener, VisitRead, VisitWrite,
           StartClosePass, KeepConn, CloseConn, CloseConnDelivering, WriteSome, WriteDone,
           WriteDoneClosing, EndClosePass, CloseSock0, CloseSock1
  <2> QED
    BY <1>1, <2>1
<1> QED
  BY <1>2, <1>3, <1>4, <1>5, <1>6, <1>7, <1>8, <1>9, <1>10 DEF Next, Worker

\* mg_broadcast() inside the server: until mg_mgr_free() closes the ctl pair, each
\* worker blocked in it has its message or a byte there, and nothing else is.
THEOREM Accounting == SafeSpec => []CtlAccounting
<1>1. Init => CtlAccounting
  <2> SUFFICES ASSUME Init
               PROVE  CtlAccounting
    OBVIOUS
  <2>1. Blocked = {}
    BY DEF Init, Blocked
  <2> QED
    BY <2>1, FS_EmptySet DEF Init, CtlAccounting
<1> QED
  BY <1>1, NextAccounting, Invariance, PTL DEF SafeSpec
-------------------------------------------------------------------------------
\* Requests that carry the conn_id of their own connection, or none, and the
\* fragments of such requests.
OwnRequest  == {r \in Request : r.id \in {0, r.conn}}
OwnFragment == [req : OwnRequest, part : 1..Parts]
To(c)       == {r \in Request : r.conn = c}

\* Where NoCrossTalk comes from: user_data is the connection's own id or NULL,
\* and so is the conn_id of every request wherever it is.
IdsOwn      == \A c \in Conns : udata[c] \in {0, c}
SendsOwn    == pend \in Seq(OwnFragment)
StreamOwn   == stream \in Seq(OwnFragment)
WorkersOwn  == wreq \in [Workers -> OwnRequest \cup {NoReq}]
ResultsOwn  == ctl \in Seq(OwnRequest) /\ msg \in OwnRequest \cup {NoReq}
AnswersOwn  == \A c \in Accepted : sbuf[c] \in Seq(To(c))
Routed == IdsOwn /\ SendsOwn /\ StreamOwn /\ WorkersOwn /\ ResultsOwn /\ AnswersOwn

LEMMA RoutedStable ==
    /\ SendsOwn /\ UNCHANGED pend => SendsOwn'
    /\ StreamOwn /\ UNCHANGED stream => StreamOwn'
    /\ WorkersOwn /\ UNCHANGED wreq => WorkersOwn'
    /\ ResultsOwn /\ UNCHANGED <<ctl, msg>> => ResultsOwn'
    /\ IdsOwn /\ UNCHANGED udata => IdsOwn'
    /\ AnswersOwn /\ UNCHANGED sbuf => AnswersOwn'
  BY DEF SendsOwn, StreamOwn, WorkersOwn, ResultsOwn, IdsOwn, AnswersOwn

\* s_next_id has not come back to an id while there are fewer connections than ids.
LEMMA IdFits ==
  ASSUME MaxConns < IdMod, NEW n \in Accepted
  PROVE  IdOf(n) = n
  BY ConstantsAssumption DEF IdOf, Accepted

LEMMA DeliverOwn ==
  ASSUME Inv, Inv', Routed, NEW c \in Accepted, Deliver(c)
  PROVE  SendsOwn'
<1>1. NextRequest(c).id \in {0, c} /\ NextRequest(c).conn = c
  BY Domains DEF NextRequest, Routed, IdsOwn
<1>2. pend' = Fragments(NextRequest(c))
  BY DEF Deliver
<1>3. Len(pend') = Parts /\ \A i \in 1..Parts : pend'[i] = [req |-> NextRequest(c), part |-> i]
  BY <1>2, Domains DEF Fragments
<1>4. NextRequest(c) \in Request
  <2>1. pend'[1] \in Fragment
    BY <1>3, Domains DEF Inv, TypeOK, IOTypeOK
  <2> QED
    BY <1>3, <2>1, Domains DEF Fragment
<1>5. Fragments(NextRequest(c)) \in [1..Parts -> OwnFragment]
  BY <1>1, <1>4 DEF Fragments, OwnFragment, OwnRequest
<1> QED
  BY <1>2, <1>5, Domains DEF SendsOwn

LEMMA PlaceOwn ==
  ASSUME Routed, NEW n \in Int, n <= Len(pend), Place(n)
  PROVE  SendsOwn' /\ StreamOwn'
<1>1. pend \in Seq(OwnFragment) /\ stream \in Seq(OwnFragment) /\ n > 0
  BY DEF Routed, SendsOwn, StreamOwn, Place
<1>2. /\ SubSeq(pend, 1, n) \in Seq(OwnFragment)
      /\ SubSeq(pend, n + 1, Len(pend)) \in Seq(OwnFragment)
  BY <1>1, SubSeqProperties
<1> QED
  BY <1>1, <1>2 DEF SendsOwn, StreamOwn, Place

LEMMA ForgetOwn ==
  ASSUME Inv, Routed, NEW c \in Conns, Forget(c)
  PROVE  IdsOwn' /\ AnswersOwn'
<1>1. \A d \in Accepted : << >> \in Seq(To(d))
  OBVIOUS
<1>2. \A d \in Accepted : sbuf'[d] = (IF d = c THEN << >> ELSE sbuf[d])
  BY Domains DEF Inv, TypeOK, ConnTypeOK, Forget
<1>3. AnswersOwn'
  BY <1>1, <1>2 DEF Routed, AnswersOwn
<1>4. IdsOwn'
  BY DEF Inv, TypeOK, ConnTypeOK, Forget, Routed, IdsOwn
<1> QED
  BY <1>3, <1>4

LEMMA NextRouted ==
  ASSUME MaxConns < IdMod
  PROVE  Inv /\ Inv' /\ Routed /\ [Next]_vars => Routed'
<1> SUFFICES ASSUME Inv, Inv', Routed, [Next]_vars
             PROVE  Routed'
  OBVIOUS
<1>1. CASE HandleCtlSock
  <2>1. ctl # << >> /\ msg' = Head(ctl) /\ ctl' = Tail(ctl)
    BY <1>1 DEF HandleCtlSock, IOAt, Inv, Consistent, CtlReady
  <2>2. ResultsOwn'
    BY <2>1 DEF Routed, ResultsOwn
  <2> QED
    BY <1>1, <2>2, RoutedStable DEF HandleCtlSock, Routed, connVars, sockVars, workVars
<1>2. CASE OnWorkComplete
  <2>1. ResultsOwn'
    BY <1>2 DEF OnWorkComplete, ctlVars, Routed, ResultsOwn
  <2>2. ASSUME NEW c \in Accepted
        PROVE  sbuf'[c] \in Seq(To(c))
    <3>1. CASE Addressed(c, msg)
      <4>1. msg.id = c /\ msg \in Request /\ msg.conn = c
        BY <1>2, <3>1, Domains
           DEF Addressed, OnWorkComplete, IOAt, Routed, IdsOwn, ResultsOwn, OwnRequest, Inv,
               Consistent, MsgTaken, NoReq, Accepted, Listener
      <4>2. Answers(msg) \in Seq(To(c))
        <5>1. Len(active) \in Nat
          BY DEF Inv, TypeOK, ConnTypeOK
        <5>2. Answers(msg) \in [1..Len(active) -> To(c)]
          BY <4>1 DEF Answers, To
        <5> QED
          BY <5>1, <5>2
      <4>3. sbuf'[c] = sbuf[c] \o Answers(msg)
        BY <1>2, <3>1, Domains DEF OnWorkComplete
      <4>4. sbuf[c] \in Seq(To(c))
        BY DEF Routed, AnswersOwn
      <4> QED
        BY <4>2, <4>3, <4>4, ConcatProperties
    <3>2. CASE ~Addressed(c, msg)
      BY <1>2, <3>2, Domains DEF OnWorkComplete, Routed, AnswersOwn
    <3> QED
      BY <3>1, <3>2
  <2>3. AnswersOwn'
    BY <2>2 DEF AnswersOwn
  <2> QED
    BY <1>2, <2>1, <2>3, RoutedStable DEF OnWorkComplete, Routed, sockVars, workVars
<1>3. CASE VisitListener
  <2>1. ASSUME backlog > 0, udata' = [udata EXCEPT ![accepted + 1] = IdOf(accepted + 1)]
        PROVE  IdsOwn'
    <3>1. accepted + 1 \in Accepted
      BY <2>1, Domains
         DEF Inv, TypeOK, ConnTypeOK, ClientTypeOK, Consistent, ConnsBounded, Accepted
    <3>2. IdOf(accepted + 1) = accepted + 1
      BY <3>1, IdFits
    <3>3. udata' = [udata EXCEPT ![accepted + 1] = accepted + 1]
      BY <2>1, <3>2
    <3> QED
      BY <3>1, <3>3 DEF Inv, TypeOK, ConnTypeOK, Routed, IdsOwn
  <2>2. IdsOwn'
    BY <1>3, <2>1, RoutedStable DEF VisitListener, Routed
  <2> QED
    BY <1>3, <2>2, RoutedStable DEF VisitListener, Routed, sockVars, ctlVars, workVars
<1>4. ASSUME NEW c \in Accepted, VisitRead(c)
      PROVE  Routed'
  <2>1. SendsOwn'
    BY <1>4, DeliverOwn, RoutedStable DEF VisitRead, Recv, RecvNothing, Routed
  <2> QED
    BY <1>4, <2>1, RoutedStable DEF VisitRead, Routed, sockVars, ctlVars, workVars
<1>5. ASSUME NEW c \in Accepted, VisitWrite(c)
      PROVE  Routed'
  <2>1. \/ UNCHANGED sbuf
        \/ \E n \in 1..Len(sbuf[c]) : sbuf' = [sbuf EXCEPT ![c] = SubSeq(@, n + 1, Len(@))]
    BY <1>5 DEF VisitWrite
  <2>2. ASSUME NEW n \in 1..Len(sbuf[c]), sbuf' = [sbuf EXCEPT ![c] = SubSeq(@, n + 1, Len(@))]
        PROVE  AnswersOwn'
    <3>1. sbuf[c] \in Seq(To(c))
      BY DEF Routed, AnswersOwn
    <3>2. SubSeq(sbuf[c], n + 1, Len(sbuf[c])) \in Seq(To(c))
      BY <3>1, SubSeqProperties
    <3> QED
      BY <2>2, <3>2, Domains DEF Inv, TypeOK, ConnTypeOK, Routed, AnswersOwn
  <2>3. AnswersOwn'
    BY <2>1, <2>2, RoutedStable DEF Routed
  <2> QED
    BY <1>5, <2>3, RoutedStable DEF VisitWrite, Routed, sockVars, ctlVars, workVars
<1>6. CASE CloseConn
  <2>1. Head(todo) \in Conns
    BY <1>6 DEF CloseConn, Inv, TypeOK, IOTypeOK
  <2> QED
    BY <1>6, <2>1, ForgetOwn, RoutedStable DEF CloseConn, Routed, sockVars, ctlVars, workVars
<1>7. CASE CloseConnDelivering
  <2>1. Head(todo) \in Accepted
    <3>1. Head(todo) \in Conns /\ Head(todo) # Listener
      BY <1>7 DEF CloseConnDelivering, Inv, TypeOK, IOTypeOK, Consistent, ListenerSilent
    <3> QED
      BY <3>1, Domains
  <2> QED
    BY <1>7, <2>1, DeliverOwn, RoutedStable
       DEF CloseConnDelivering, Routed, sockVars, ctlVars, workVars
<1>8. CASE WriteSome \/ WriteDone
  <2>1. Room \in Int /\ Len(pend) \in Int
    BY Domains DEF Room, Inv, TypeOK, IOTypeOK, SockTypeOK
  <2>2. SendsOwn' /\ StreamOwn'
    BY <1>8, <2>1, PlaceOwn DEF WriteSome, WriteDone
  <2> QED
    BY <1>8, <2>2, RoutedStable DEF WriteSome, WriteDone, Routed, connVars, ctlVars, workVars
<1>9. CASE WriteDoneClosing
  <2>1. Len(pend) \in Int /\ Head(todo) \in Conns
    BY <1>9, Domains
       DEF WriteDoneClosing, IOAt, Inv, TypeOK, IOTypeOK, Consistent, ConnVisited
  <2>2. SendsOwn' /\ StreamOwn' /\ IdsOwn' /\ AnswersOwn'
    BY <1>9, <2>1, PlaceOwn, ForgetOwn DEF WriteDoneClosing
  <2> QED
    BY <1>9, <2>2, RoutedStable DEF WriteDoneClosing, Routed, ctlVars, workVars
<1>10. CASE FreeCtl
  <2>1. ctl' \in Seq(OwnRequest)
    BY <1>10 DEF FreeCtl
  <2>2. ResultsOwn'
    BY <1>10, <2>1 DEF FreeCtl, Routed, ResultsOwn
  <2> QED
    BY <1>10, <2>2, RoutedStable DEF FreeCtl, Routed, connVars, sockVars, workVars
<1>11. CASE CloseSock1
  <2>1. stream' \in Seq(OwnFragment)
    BY <1>11 DEF CloseSock1
  <2> QED
    BY <1>11, <2>1, RoutedStable
       DEF CloseSock1, Routed, StreamOwn, connVars, ctlVars, workVars
<1>12. ASSUME NEW w \in Workers, WorkerRead(w)
       PROVE  Routed'
  <2>1. stream # << >> /\ stream \in Seq(OwnFragment)
    BY <1>12 DEF WorkerRead, Routed, StreamOwn
  <2>2. Head(stream).req \in OwnRequest
    <3>1. Head(stream) \in OwnFragment
      BY <2>1
    <3> QED
      BY <3>1 DEF OwnFragment
  <2>3. stream' \in Seq(OwnFragment)
    <3>1. Taken \in Nat /\ Len(stream) \in Nat
      BY <2>1, Domains DEF Taken
    <3>2. \A i \in 1..Len(stream) : stream[i] \in OwnFragment
      BY <2>1
    <3>3. Taken + 1 \in Int /\ \A i \in (Taken + 1)..Len(stream) : stream[i] \in OwnFragment
      BY <3>1, <3>2
    <3>4. SubSeq(stream, Taken + 1, Len(stream)) \in Seq(OwnFragment)
      BY <3>1, <3>3, SubSeqProperties
    <3> QED
      BY <1>12, <3>4 DEF WorkerRead
  <2>4. wreq' = wreq \/ wreq' = [wreq EXCEPT ![w] = Head(stream).req]
    BY <1>12 DEF WorkerRead, workVars
  <2>5. WorkersOwn'
    BY <2>2, <2>4 DEF Routed, WorkersOwn
  <2> QED
    BY <1>12, <2>3, <2>5, RoutedStable DEF WorkerRead, Routed, StreamOwn, ioVars, connVars, ctlVars
<1>13. ASSUME NEW w \in Workers, WorkerBroadcast(w)
       PROVE  Routed'
  <2>1. wreq[w] \in OwnRequest
    <3>1. wreq[w] \in Request /\ wreq[w] \in OwnRequest \cup {NoReq}
      BY <1>13
         DEF WorkerBroadcast, WorkerAt, Inv, Consistent, WorkersHold, Routed, WorkersOwn
    <3>2. NoReq \notin Request
      BY Domains DEF NoReq, Request
    <3> QED
      BY <3>1, <3>2
  <2>2. ctl' = ctl \/ ctl' = Append(ctl, wreq[w])
    BY <1>13 DEF WorkerBroadcast
  <2>3. ResultsOwn'
    BY <1>13, <2>1, <2>2 DEF WorkerBroadcast, ioVars, Routed, ResultsOwn
  <2>4. WorkersOwn'
    BY <1>13 DEF WorkerBroadcast, Routed, WorkersOwn
  <2> QED
    BY <1>13, <2>3, <2>4, RoutedStable DEF WorkerBroadcast, Routed, ioVars, connVars, sockVars
<1>14. ASSUME NEW w \in Workers, TestSignal(w) \/ WorkerReadFails(w) \/ WorkerAck(w)
       PROVE  Routed'
  BY <1>14, RoutedStable
     DEF TestSignal, WorkerReadFails, WorkerAck, Routed, ioVars, connVars, sockVars, ctlVars,
         workVars
<1>15. CASE Client \/ SignalHandler \/ UNCHANGED vars
  <2>1. UNCHANGED <<pend, stream, wreq, ctl, msg, udata, sbuf>>
    BY <1>15
       DEF Client, ClientConnect, ClientSend, ClientFin, ClientReset, SignalHandler, serverVars,
           vars, ioVars, connVars, sockVars, ctlVars, workVars
  <2> QED
    BY <2>1, RoutedStable DEF Routed
<1>16. CASE Select \/ SkipCtlSock \/ StartClosePass \/ KeepConn \/ EndClosePass \/ CloseSock0
  <2>1. UNCHANGED <<pend, stream, wreq, ctl, msg, udata, sbuf>>
    BY <1>16
       DEF Select, SkipCtlSock, StartClosePass, KeepConn, EndClosePass, CloseSock0, connVars,
           sockVars, ctlVars, workVars
  <2> QED
    BY <2>1, RoutedStable DEF Routed
<1> QED
  BY <1>1, <1>2, <1>3, <1>4, <1>5, <1>6, <1>7, <1>8, <1>9, <1>10, <1>11, <1>12, <1>13, <1>14,
     <1>15, <1>16 DEF Next, IOThread, Worker

\* The conn_id tells whom an answer is for as long as s_next_id has not wrapped:
\* with fewer connections than ids, whatever closes and is accepted between a
\* request and its callback, no connection is given the answer to another's.
THEOREM Routing ==
  ASSUME MaxConns < IdMod
  PROVE  SafeSpec => []NoCrossTalk
<1>1. Init => Routed
  <2> SUFFICES ASSUME Init
               PROVE  Routed
    OBVIOUS
  <2>1. << >> \in Seq(OwnFragment) /\ << >> \in Seq(OwnRequest)
    OBVIOUS
  <2>2. \A c \in Accepted : << >> \in Seq(To(c))
    OBVIOUS
  <2> QED
    BY <2>1, <2>2, Domains
       DEF Init, Routed, IdsOwn, SendsOwn, StreamOwn, WorkersOwn, ResultsOwn, AnswersOwn
<1>2. Inv /\ Inv' /\ Routed /\ [Next]_vars => Routed'
  BY NextRouted
<1>3. Routed => NoCrossTalk
  <2> SUFFICES ASSUME Routed, NEW c \in Accepted, NEW i \in 1..Len(sbuf[c])
               PROVE  sbuf[c][i].conn = c
    BY DEF NoCrossTalk
  <2>1. sbuf[c] \in Seq(To(c))
    BY DEF Routed, AnswersOwn
  <2>2. sbuf[c][i] \in To(c)
    BY <2>1
  <2> QED
    BY <2>2 DEF To
<1> QED
  BY <1>1, <1>2, <1>3, Invariance, PTL DEF SafeSpec
-------------------------------------------------------------------------------
\* mg_mgr_free() closes the ctl pair once, after the last poll, and no later step
\* polls or frees again.
CtlClosed ==
    ~ctlOpen => /\ phase = "free" /\ ctl = << >>
                /\ io \in {"close", "sendclose", "sock0", "sock1", "returned"}

LEMMA ClosedStable ==
  ASSUME CtlClosed, UNCHANGED <<io, phase, ctl, ctlOpen>>
  PROVE  CtlClosed'
  BY DEF CtlClosed

LEMMA NextClosed == Inv /\ CtlClosed /\ [Next]_vars => CtlClosed'
<1> SUFFICES ASSUME Inv, CtlClosed, [Next]_vars
             PROVE  CtlClosed'
  OBVIOUS
<1>1. CASE Client \/ SignalHandler \/ UNCHANGED vars
  <2>1. UNCHANGED <<io, phase, ctl, ctlOpen>>
    BY <1>1
       DEF Client, ClientConnect, ClientSend, ClientFin, ClientReset, SignalHandler,
           serverVars, vars, ioVars, ctlVars
  <2> QED
    BY <2>1, ClosedStable
<1>2. ASSUME NEW w \in Workers, Worker(w)
      PROVE  CtlClosed'
  <2>1. CASE WorkerBroadcast(w)
    BY <2>1 DEF WorkerBroadcast, CtlUsable, CtlClosed, ioVars
  <2>2. CASE TestSignal(w) \/ WorkerRead(w) \/ WorkerReadFails(w) \/ WorkerAck(w)
    <3>1. UNCHANGED <<io, phase, ctl, ctlOpen>>
      BY <2>2 DEF TestSignal, WorkerRead, WorkerReadFails, WorkerAck, ioVars, ctlVars
    <3> QED
      BY <3>1, ClosedStable
  <2> QED
    BY <1>2, <2>1, <2>2 DEF Worker
<1>3. CASE \/ Select \/ HandleCtlSock \/ SkipCtlSock \/ OnWorkComplete \/ VisitListener
           \/ \E c \in Accepted : VisitRead(c) \/ VisitWrite(c)
  <2>1. io \in {"select", "ctl", "callback", "read", "write"}
    BY <1>3
       DEF Select, HandleCtlSock, SkipCtlSock, OnWorkComplete, VisitListener, VisitRead,
           VisitWrite, IOAt
  <2>2. UNCHANGED ctlOpen
    BY <1>3
       DEF Select, HandleCtlSock, SkipCtlSock, OnWorkComplete, VisitListener, VisitRead,
           VisitWrite, ctlVars
  <2> QED
    BY <2>1, <2>2 DEF CtlClosed
<1>4. CASE StartClosePass \/ WriteDone
  BY <1>4 DEF StartClosePass, WriteDone, IOAt, CtlClosed, ctlVars
<1>5. CASE KeepConn \/ CloseConn \/ WriteSome
  <2>1. UNCHANGED <<io, phase, ctl, ctlOpen>>
    BY <1>5 DEF KeepConn, CloseConn, WriteSome, ctlVars
  <2> QED
    BY <2>1, ClosedStable
<1>6. CASE CloseConnDelivering \/ WriteDoneClosing
  BY <1>6 DEF CloseConnDelivering, WriteDoneClosing, CtlClosed, ctlVars
<1>7. CASE EndClosePass \/ CloseSock0 \/ CloseSock1
  BY <1>7 DEF EndClosePass, AfterPass, CloseSock0, CloseSock1, CtlClosed, ctlVars
<1>8. CASE FreeCtl
  BY <1>8 DEF FreeCtl, CtlClosed
<1> QED
  BY <1>1, <1>2, <1>3, <1>4, <1>5, <1>6, <1>7, <1>8 DEF Next, IOThread

LEMMA ClosedInvariance == SafeSpec => []CtlClosed
<1>1. Init => CtlClosed
  BY DEF Init, CtlClosed
<1> QED
  BY <1>1, NextClosed, Invariance, PTL DEF SafeSpec
-------------------------------------------------------------------------------
\* A step that mg_broadcast() does not notice.
LEMMA Stutter ==
  ASSUME UNCHANGED <<ctl, acks, ctlOpen>>, (io' = "callback") = (io = "callback"),
         \A w \in Workers : (wpc'[w] = "ack") = (wpc[w] = "ack")
  PROVE  UNCHANGED Broadcast!vars
  BY DEF Broadcast!vars

LEMMA Step ==
  ASSUME Inv, CtlClosed, [Next]_vars
  PROVE  [Broadcast!Next]_(Broadcast!vars)
<1> USE DEF Inv, TypeOK
<1>1. CASE Client \/ SignalHandler \/ UNCHANGED vars
  <2>1. UNCHANGED <<ctl, acks, ctlOpen, io, wpc>>
    BY <1>1
       DEF Client, ClientConnect, ClientSend, ClientFin, ClientReset, SignalHandler,
           serverVars, vars, ioVars, ctlVars, workVars
  <2> QED
    BY <2>1, Stutter
<1>2. CASE HandleCtlSock
  <2>1. ctl # << >> /\ io = "ctl"
    BY <1>2 DEF HandleCtlSock, IOAt, Consistent, CtlReady
  <2>2. ctlOpen
    BY <2>1 DEF CtlClosed
  <2>3. Broadcast!Take
    BY <1>2, <2>1, <2>2
       DEF HandleCtlSock, Acknowledged, Broadcast!Take, Broadcast!Acknowledged, workVars
  <2> QED
    BY <2>3 DEF Broadcast!Next, Broadcast!IO
<1>3. CASE OnWorkComplete
  <2>1. Broadcast!Callback
    BY <1>3 DEF OnWorkComplete, IOAt, Broadcast!Callback, ctlVars, workVars
  <2> QED
    BY <2>1 DEF Broadcast!Next, Broadcast!IO
<1>4. CASE FreeCtl
  <2>1. ctlOpen
    BY <1>4 DEF FreeCtl, IOAt, CtlClosed
  <2>2. Broadcast!Close
    BY <1>4, <2>1 DEF FreeCtl, IOAt, Broadcast!Close, workVars
  <2> QED
    BY <2>2 DEF Broadcast!Next
<1>5. CASE IOThread /\ ~HandleCtlSock /\ ~OnWorkComplete /\ ~FreeCtl
  <2>1. UNCHANGED <<ctl, acks, ctlOpen, wpc>>
    BY <1>5
       DEF IOThread, Select, SkipCtlSock, VisitListener, VisitRead, VisitWrite, StartClosePass,
           KeepConn, CloseConn, CloseConnDelivering, WriteSome, WriteDone, WriteDoneClosing,
           EndClosePass, CloseSock0, CloseSock1, ctlVars, workVars
  <2>2. io # "callback" /\ io' # "callback"
    BY <1>5
       DEF IOThread, Select, SkipCtlSock, VisitListener, VisitRead, VisitWrite, StartClosePass,
           KeepConn, CloseConn, CloseConnDelivering, WriteSome, WriteDone, WriteDoneClosing,
           EndClosePass, AfterPass, CloseSock0, CloseSock1, IOAt, Recv, RecvNothing, IOTypeOK
  <2> QED
    BY <2>1, <2>2, Stutter
<1>6. ASSUME NEW w \in Workers, TestSignal(w) \/ WorkerRead(w) \/ WorkerReadFails(w)
      PROVE  [Broadcast!Next]_(Broadcast!vars)
  <2>1. UNCHANGED <<ctl, acks, ctlOpen, io>>
    BY <1>6 DEF TestSignal, WorkerRead, WorkerReadFails, ctlVars, ioVars
  <2>2. /\ \A v \in Workers \ {w} : wpc'[v] = wpc[v]
        /\ wpc'[w] = wpc[w] \/ (wpc[w] # "ack" /\ wpc'[w] # "ack")
    BY <1>6 DEF TestSignal, WorkerRead, WorkerReadFails, WorkerAt, WorkTypeOK, workVars
  <2> QED
    BY <2>1, <2>2, Stutter
<1>7. ASSUME NEW w \in Workers, WorkerBroadcast(w)
      PROVE  [Broadcast!Next]_(Broadcast!vars)
  <2>1. CASE ctlOpen
    <3>1. /\ wpc[w] = "work" /\ wreq[w] \in Request
          /\ wpc' = [wpc EXCEPT ![w] = "ack"] /\ ctl' = Append(ctl, wreq[w])
          /\ UNCHANGED <<acks, ctlOpen, io>>
      BY <1>7, <2>1
         DEF WorkerBroadcast, WorkerAt, CtlUsable, Consistent, WorkersHold, ioVars
    <3>2. Broadcast!Broadcast(w)
      BY <2>1, <3>1 DEF Broadcast!Broadcast, WorkTypeOK
    <3> QED
      BY <3>2 DEF Broadcast!Next
  <2>2. CASE ~ctlOpen
    <3>1. /\ UNCHANGED <<ctl, acks, ctlOpen, io>>
          /\ wpc[w] = "work" /\ wpc' = [wpc EXCEPT ![w] = "loop"]
      BY <1>7, <2>2 DEF WorkerBroadcast, WorkerAt, CtlUsable, ioVars
    <3>2. \A v \in Workers : (wpc'[v] = "ack") = (wpc[v] = "ack")
      BY <3>1 DEF WorkTypeOK
    <3> QED
      BY <3>1, <3>2, Stutter
  <2> QED
    BY <2>1, <2>2
<1>8. ASSUME NEW w \in Workers, WorkerAck(w)
      PROVE  [Broadcast!Next]_(Broadcast!vars)
  <2>1. /\ wpc[w] = "ack" /\ wpc' = [wpc EXCEPT ![w] = "loop"]
        /\ UNCHANGED <<ctl, ctlOpen, io>>
    BY <1>8 DEF WorkerAck, WorkerAt, ioVars
  <2>2. [v \in Workers |-> IF wpc'[v] = "ack" THEN "waiting" ELSE "idle"]
          = [[v \in Workers |-> IF wpc[v] = "ack" THEN "waiting" ELSE "idle"]
                EXCEPT ![w] = "idle"]
    BY <2>1 DEF WorkTypeOK
  <2>3. CASE ctlOpen
    <3>1. Broadcast!Release(w)
      BY <1>8, <2>1, <2>2, <2>3
         DEF WorkerAck, ByteArrived, Broadcast!Release, Broadcast!ByteQueued
    <3> QED
      BY <3>1 DEF Broadcast!Next
  <2>4. CASE ~ctlOpen
    <3>1. Broadcast!Abandon(w)
      BY <1>8, <2>1, <2>2, <2>4 DEF WorkerAck, Broadcast!Abandon, Broadcast!Broken
    <3> QED
      BY <3>1 DEF Broadcast!Next
  <2> QED
    BY <2>3, <2>4
<1> QED
  BY <1>1, <1>2, <1>3, <1>4, <1>5, <1>6, <1>7, <1>8 DEF Next, Worker

\* The server's use of the ctl pair is a behaviour of MgBroadcast: each message is
\* taken once, in order, acknowledged by one byte, and handled before the next.
THEOREM Implements == SafeSpec => BroadcastSafe
<1>1. Init => Broadcast!Init
  BY DEF Init, Broadcast!Init
<1>2. Inv /\ CtlClosed /\ [Next]_vars => [Broadcast!Next]_(Broadcast!vars)
  BY Step
<1> QED
  BY <1>1, <1>2, Invariance, ClosedInvariance, PTL
     DEF SafeSpec, BroadcastSafe, Broadcast!SafeSpec
===============================================================================
