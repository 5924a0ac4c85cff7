---------------------------- MODULE HttpClientLookup ----------------------------
(***************************************************************************)
(* HttpClient with the resolver it really has: where HttpClient lets a     *)
(* lookup end at will, here the connection of MgResolver is visited by the *)
(* polls of SendReq()'s manager.  The resolver's socket is in the          *)
(* manager's list, and the client's own connection is not until resolve_cb *)
(* puts it there.                                                          *)
(***************************************************************************)
EXTENDS HttpClient, Sequences

CONSTANTS MaxRetries, Timeout, MaxAnswers, Faults  \* of MgResolver

VARIABLES stage, at, avail, room, req, err, retries, age, sendq, stale, inbox, budget, queried,
          callbacks, corrupt

R == INSTANCE MgResolver

ASSUME LookupAssumption ==
    /\ R!Parameters
    /\ Faults # {} => "nodns" \in Env
    /\ "icmp" \in Faults => "icmp" \in Env

resolver == <<stage, at, avail, room, req, err, retries, age, sendq, stale, inbox, budget,
              queried, callbacks, corrupt>>

InitLookup == Init /\ R!None
-------------------------------------------------------------------------------
\* mg_connect_opt(): a host name makes a lookup, an address none.
StartCall ==
    /\ SendReq
    /\ IF conn' = "resolving" THEN R!Begin("connecting", TRUE) ELSE R!Begin("none", FALSE)

\* One select() for both connections.
SelectBoth == Select /\ IF conn = "resolving" THEN R!Select ELSE UNCHANGED resolver

\* The resolver's part of the poll: one step of mg_mgr_handle_conn(), where an
\* answer calls resolve_cb(), which looks for an address in it; or the closing
\* of its connection without an answer, which calls it too.
Looking == pc = "visit" /\ conn = "resolving" /\ dns = "pending"
VisitResolver ==
    /\ Looking /\ R!Visit
    /\ IF callbacks' = callbacks THEN UNCHANGED vars ELSE Resolved
CloseFailed ==
    /\ Looking /\ R!Close
    /\ \/ Resolved /\ dns' = "failed"
       \/ stale /\ ResolverCrashes
CloseAnswered == pc = "close" /\ R!Close /\ UNCHANGED vars

\* The rest of the poll is the client's own.
Settled == stage # "closing" /\ at = "out"
Alone == /\ \/ Resolve \/ ResolveFails \/ Connect \/ ConnectFails
            \/ Settled /\ VisitOther
            \/ Recv \/ RecvNothing \/ Write
            \/ Settled /\ (CloseConn \/ CloseNothing)
         /\ UNCHANGED resolver

\* mg_mgr_free() with the lookup still going on.
FreeResolver == CloseResolver /\ R!Free

PollBoth == \/ SelectBoth \/ VisitResolver \/ CloseFailed \/ CloseAnswered \/ Alone
            \/ FreeResolver

PeerOfClient == (Accept \/ ServerSend \/ ServerClose \/ ServerReset) /\ UNCHANGED resolver
WorldOfResolver == R!World /\ UNCHANGED vars

NextLookup == PeerOfClient \/ WorldOfResolver \/ StartCall \/ PollBoth

SafeLookup == InitLookup /\ [][NextLookup]_<<vars, resolver>>

\* As in HttpClient, with the passing of time in place of an answer that must
\* come.
LookupSpec ==
    /\ SafeLookup
    /\ WF_<<vars, resolver>>(PollBoth)
    /\ WF_<<vars, resolver>>(R!Tick /\ UNCHANGED vars)
    /\ WF_<<vars, resolver>>(Accept /\ UNCHANGED resolver)
    /\ WF_<<vars, resolver>>(ServerSend /\ UNCHANGED resolver)
    /\ WF_<<vars, resolver>>(~sized /\ ServerClose /\ UNCHANGED resolver)
-------------------------------------------------------------------------------
\* HttpClient's resolver is a fair picture of this one: the client with it does
\* what HttpClient says, and every lookup ends.
ClientSpec == Spec

\* The two connections' states fit: a lookup lives only while the client waits
\* for it, but for the last pass of the poll that answered it.
Fit ==
    /\ conn = "resolving" /\ dns = "pending" => R!Live /\ req
    /\ R!Live => pc \notin {"idle", "crashed"}
    /\ R!Live /\ ~(conn = "resolving" /\ dns = "pending") => stage = "closing" /\ ~req
LookupTypeOK == R!TypeOK /\ Fit

\* mg_resolve_async() calls back exactly once, however an answer, a failure, the
\* time-out and the end of the manager meet.
CallsBackOnce == R!OneCallback

\* With max_retries at its default of two, three queries are sent and answers to
\* two are heard: the query that takes the count past max_retries goes out in the
\* very visit that gives the lookup up.
LastQueryUnheard == R!LastQueryUnheard

\* An answer that has come when select() returns is not lost to the time-out
\* that is due in the same visit.
AnswerBeforeTimeout == [][R!GivesUpUnheard]_<<vars, resolver>>

\* SendReq() returns, however resolving, connecting or the server fails, unless
\* the resolver has broken the heap.
SendReqReturns == pc = "loop" ~> pc = "idle" \/ corrupt
===============================================================================
