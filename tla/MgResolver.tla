------------------------------- MODULE MgResolver -------------------------------
(***************************************************************************)
(* The asynchronous resolver of mongoose.c: mg_resolve_async_opt() opens a *)
(* UDP connection to a nameserver, whose handler mg_resolve_async_eh()     *)
(* sends a query, sends it again after each time-out, and calls back once  *)
(* with an answer or an error.  One lookup.  Datagrams may be lost, come   *)
(* late and come twice.                                                    *)
(*                                                                         *)
(* A query is named by its rank; a datagram that carries several queries   *)
(* (see Write) asks the oldest.  The event loop visits the connection      *)
(* after select(): its handler's events run in the order of                *)
(* mg_mgr_handle_conn(), each an action here.                              *)
(***************************************************************************)
EXTENDS Integers, Sequences

CONSTANTS
    MaxRetries,  \* req->max_retries, 2 unless the caller says otherwise
    Timeout,     \* req->timeout, in seconds
    MaxAnswers,  \* bound: datagrams the nameserver sends in all
    Faults       \* what may go wrong: see below

\* What the module that looks a name up chooses them from.
Parameters ==
    /\ MaxRetries \in Nat \ {0} /\ Timeout \in Nat \ {0} /\ MaxAnswers \in Nat
    /\ Faults \subseteq {"empty", "icmp", "nosend", "nosocket"}

VARIABLES
    stage,    \* "none", "connecting", "up", "closing" (CLOSE_IMMEDIATELY), "closed"
    at,       \* where mg_mgr_handle_conn() is with it: "out", "read", "write", "poll"
    avail,    \* select() reported a datagram to read ...
    room,     \* ... and room to write
    req,      \* nc->user_data is the request, not NULL
    err,      \* req->err
    retries,  \* req->retries: queries made
    age,      \* seconds since req->last_time, counted up to Timeout
    sendq,    \* queries in send_mbuf
    stale,    \* recv_mbuf.buf is a buffer that was freed
    inbox,    \* datagrams in the socket, oldest first
    budget,   \* datagrams the nameserver may still send
    \* history
    queried,    \* queries that have left
    callbacks,    \* callbacks: what was passed, and the query it answers
    corrupt    \* memory was freed twice

resolver == <<stage, at, avail, room, req, err, retries, age, sendq, stale, inbox, budget,
              queried, callbacks, corrupt>>

Fresh ==
    /\ at = "out" /\ avail = FALSE /\ room = FALSE
    /\ err = "ok" /\ retries = 0 /\ age = 0 /\ sendq = {} /\ stale = FALSE
    /\ inbox = << >> /\ budget = MaxAnswers
    /\ queried = {} /\ callbacks = << >> /\ corrupt = FALSE
None == stage = "none" /\ req = FALSE /\ Fresh
Init == stage = "connecting" /\ req = TRUE /\ Fresh

\* A new lookup, and the end of one: what was in the request, in the buffers and
\* in the socket is gone.
Cleared ==
    /\ at' = "out" /\ avail' = FALSE /\ room' = FALSE
    /\ err' = "ok" /\ retries' = 0 /\ age' = 0 /\ sendq' = {} /\ stale' = FALSE
    /\ inbox' = << >> /\ budget' = MaxAnswers
Begin(s, r) ==
    /\ stage' = s /\ req' = r /\ Cleared
    /\ queried' = {} /\ callbacks' = << >> /\ corrupt' = FALSE

Live == stage \in {"connecting", "up", "closing"}
-------------------------------------------------------------------------------
(* Nameserver, network and clock *)

\* A datagram for a query that has left: with answers, without, or the system's
\* report that nobody listens there.  It may never come, or come late or twice.
Kinds == {"answer"} \cup (Faults \cap {"empty", "icmp"})
Datagram ==
    /\ Live /\ budget > 0
    /\ \E q \in queried, k \in Kinds : inbox' = Append(inbox, [kind |-> k, query |-> q])
    /\ budget' = budget - 1
    /\ UNCHANGED <<stage, at, avail, room, req, err, retries, age, sendq, stale, queried, callbacks,
                   corrupt>>

Tick ==
    /\ Live /\ age < Timeout
    /\ age' = age + 1
    /\ UNCHANGED <<stage, at, avail, room, req, err, retries, sendq, stale, inbox, budget, queried,
                   callbacks, corrupt>>

World == Datagram \/ Tick
-------------------------------------------------------------------------------
(* The connection in mg_socket_if_poll() *)

\* select(): a UDP socket always has room; it is asked for while connecting and
\* while something is to be sent.
Select ==
    /\ Live /\ stage # "closing" /\ at = "out"
    /\ avail' = (stage = "up" /\ inbox # << >>)
    /\ room' = (stage = "connecting" \/ sendq # {})
    /\ at' = "read"
    /\ UNCHANGED <<stage, req, err, retries, age, sendq, stale, inbox, budget, queried, callbacks, corrupt>>

\* mg_send_dns_query() and what the handler keeps of it.  (Uncounted: not the
\* number.)
QueryUncounted == sendq' = sendq \cup {retries + 1} /\ retries' = retries /\ age' = 0
Query == /\ sendq' = sendq \cup {retries + 1}
         /\ retries' = retries + 1
         /\ age' = 0

\* EV_CONNECT sends the first query, also when there was no socket: then the
\* connection is to be closed already.
Connect ==
    /\ at = "read" /\ stage = "connecting"
    /\ \/ stage' = "up" /\ at' = "write"
       \/ "nosocket" \in Faults /\ stage' = "closing" /\ at' = "out"
    /\ Query
    /\ UNCHANGED <<avail, room, req, err, stale, inbox, budget, queried, callbacks, corrupt>>

\* EV_RECV with answers: the callback, and the request is forgotten.  (Kept: it
\* is not.)
ForgottenKept == TRUE
Forgotten     == FALSE
ReadAnswer ==
    /\ at = "read" /\ stage = "up" /\ avail /\ Head(inbox).kind = "answer"
    /\ callbacks' = Append(callbacks, [what |-> "answer", query |-> Head(inbox).query])
    /\ req' = Forgotten
    /\ inbox' = Tail(inbox)
    /\ stage' = "closing" /\ at' = "out"
    /\ UNCHANGED <<avail, room, err, retries, age, sendq, stale, budget, queried, corrupt>>

\* EV_RECV without.  When recvfrom() fails mg_recvfrom() frees its buffer, and
\* mg_recv_common() puts it in recv_mbuf all the same.
ReadFailure ==
    /\ at = "read" /\ stage = "up" /\ avail /\ Head(inbox).kind # "answer"
    /\ err' = "noanswers"
    /\ stale' = (Head(inbox).kind = "icmp")
    /\ inbox' = Tail(inbox)
    /\ stage' = "closing" /\ at' = "out"
    /\ UNCHANGED <<avail, room, req, retries, age, sendq, budget, queried, callbacks, corrupt>>

\* (Writing: only where there is nothing to write either.)
PassOverWriting == ~avail \/ room
PassOver        == ~avail
ReadNothing ==
    /\ at = "read" /\ stage = "up" /\ PassOver
    /\ at' = "write"
    /\ UNCHANGED <<stage, avail, room, req, err, retries, age, sendq, stale, inbox, budget, queried,
                   callbacks, corrupt>>

\* mg_write_to_socket(): one datagram with whatever is in send_mbuf; a failure
\* leaves it there.
Oldest(s) == {q \in s : \A p \in s : q <= p}
Write ==
    /\ at = "write"
    /\ \/ /\ room /\ sendq # {}
          /\ queried' = queried \cup Oldest(sendq) /\ sendq' = {}
       \/ /\ ~room \/ sendq = {} \/ "nosend" \in Faults
          /\ UNCHANGED <<queried, sendq>>
    /\ at' = "poll"
    /\ UNCHANGED <<stage, avail, room, req, err, retries, age, stale, inbox, budget, callbacks, corrupt>>

\* EV_POLL, in the same visit.  (Later: when the last query has timed out too.)
SpentLater == retries > MaxRetries /\ age >= Timeout
Spent      == retries > MaxRetries
GiveUp ==
    /\ at = "poll" /\ Spent
    /\ err' = "retries"
    /\ stage' = "closing" /\ at' = "out"
    /\ UNCHANGED <<avail, room, req, retries, age, sendq, stale, inbox, budget, queried, callbacks, corrupt>>

Retry ==
    /\ at = "poll" /\ ~Spent /\ age >= Timeout
    /\ Query
    /\ at' = "out"
    /\ UNCHANGED <<stage, avail, room, req, err, stale, inbox, budget, queried, callbacks, corrupt>>

Wait ==
    /\ at = "poll" /\ ~Spent /\ age < Timeout
    /\ at' = "out"
    /\ UNCHANGED <<stage, avail, room, req, err, retries, age, sendq, stale, inbox, budget, queried,
                   callbacks, corrupt>>

\* mg_close_conn(), from the last pass of a poll, or from mg_mgr_free() whatever
\* the stage: EV_CLOSE calls back with the error if nothing has yet; then
\* recv_mbuf is freed.
Shut ==
    /\ callbacks' = IF req THEN Append(callbacks, [what |-> err, query |-> 0]) ELSE callbacks
    /\ corrupt' = stale
    /\ stage' = "closed" /\ req' = FALSE /\ Cleared
    /\ UNCHANGED queried
Close == stage = "closing" /\ Shut
Free  == Live /\ at = "out" /\ Shut

Visit == \/ Connect \/ ReadAnswer \/ ReadFailure \/ ReadNothing \/ Write
         \/ GiveUp \/ Retry \/ Wait

Next == World \/ Select \/ Visit \/ Close \/ Free

SafeSpec == Init /\ [][Next]_resolver

\* The loop polls and time passes; the nameserver owes nothing.
Spec == /\ SafeSpec
        /\ WF_resolver(Select) /\ WF_resolver(Visit) /\ WF_resolver(Close) /\ WF_resolver(Tick)
-------------------------------------------------------------------------------
(* What the lookup promises *)

Datagrams == [kind : {"answer", "empty", "icmp"}, query : 1..(MaxRetries + 1)]
Callbacks == [what : {"answer", "ok", "noanswers", "retries"}, query : 0..(MaxRetries + 1)]
TypeOK ==
    /\ stage \in {"none", "connecting", "up", "closing", "closed"}
    /\ at \in {"out", "read", "write", "poll"}
    /\ avail \in BOOLEAN /\ room \in BOOLEAN /\ req \in BOOLEAN
    /\ err \in {"ok", "noanswers", "retries"}
    /\ retries \in 0..(MaxRetries + 1) /\ age \in 0..Timeout
    /\ sendq \subseteq 1..retries /\ queried \subseteq 1..(MaxRetries + 1)
    /\ stale \in BOOLEAN /\ corrupt \in BOOLEAN
    /\ inbox \in Seq(Datagrams)
    /\ budget \in 0..MaxAnswers
    /\ callbacks \in Seq(Callbacks)

\* A lookup calls back exactly once: at most once however answers, errors and the
\* closing of its connection meet, and once it is closed, no less.
OneCallback == /\ Len(callbacks) <= 1
               /\ stage = "closed" => Len(callbacks) = 1

\* The query that takes `retries' past max_retries goes out in the very visit
\* that gives the lookup up, so no answer to it is ever heard.
LastQueryUnheard ==
    \A i \in 1..Len(callbacks) : callbacks[i].what = "answer" => callbacks[i].query <= MaxRetries

\* A lookup ends, whatever the nameserver does.
LookupEnds == stage = "connecting" ~> stage = "closed"

\* An answer that has arrived when select() returns is not lost to the time-out.
GivesUpUnheard == GiveUp => ~avail
===============================================================================
