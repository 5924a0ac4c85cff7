------------------------------ MODULE MgBroadcast ------------------------------
(***************************************************************************)
(* The hand-over that mg_broadcast() of mongoose.c promises to the threads *)
(* that are not the IO thread: a caller pushes a message on ctl[0] and     *)
(* blocks there until one byte comes back; the IO thread, from             *)
(* mg_mgr_poll(), takes one message off ctl[1], sends the byte, and only   *)
(* then runs the callback.  Both directions share one pair of datagram     *)
(* sockets, so the byte that releases a caller need not be the answer to   *)
(* its own message.                                                        *)
(***************************************************************************)
EXTENDS Integers, Sequences, FiniteSets

CONSTANTS Callers,   \* the threads that call mg_broadcast(), finitely many
          Payload    \* what they pass in `data'

VARIABLES caller,    \* "idle", or "waiting" in the recv() of mg_broadcast()
          ctl,       \* messages queued on ctl[1], oldest first
          acks,      \* bytes queued on ctl[0]
          open,      \* FALSE once mg_mgr_free() has closed the pair
          calling    \* the IO thread has taken a message and runs its callback

vars == <<caller, ctl, acks, open, calling>>

Waiting == {c \in Callers : caller[c] = "waiting"}

Init == /\ caller = [c \in Callers |-> "idle"]
        /\ ctl = << >>
        /\ acks = 0
        /\ open = TRUE
        /\ calling = FALSE

\* The send of mg_broadcast().
Broadcast(c) == /\ caller[c] = "idle"
                /\ open
                /\ \E m \in Payload : ctl' = Append(ctl, m)
                /\ caller' = [caller EXCEPT ![c] = "waiting"]
                /\ UNCHANGED <<acks, open, calling>>

\* Its recv: any queued byte will do.  (OrNot: a recv that does not block.)
ByteQueuedOrNot == TRUE
ByteQueued      == acks > 0
Release(c) == /\ caller[c] = "waiting"
              /\ open
              /\ ByteQueued
              /\ acks' = acks - 1
              /\ caller' = [caller EXCEPT ![c] = "idle"]
              /\ UNCHANGED <<ctl, open, calling>>

\* Its recv on a socket that was closed meanwhile: the error is ignored.  (Never:
\* the pair is not closed by mg_mgr_free(), and recv waits on.)
BrokenNever == FALSE
Broken      == ~open
Abandon(c) == /\ caller[c] = "waiting"
              /\ Broken
              /\ caller' = [caller EXCEPT ![c] = "idle"]
              /\ UNCHANGED <<ctl, acks, open, calling>>

\* mg_mgr_handle_ctl_sock(): receive, then acknowledge ...  (Not: the send is
\* skipped; the callers wait for a byte that is not sent.)
AcknowledgedNot == acks
Acknowledged    == acks + 1
Take == /\ open
        /\ ~calling
        /\ ctl # << >>
        /\ ctl' = Tail(ctl)
        /\ acks' = Acknowledged
        /\ calling' = TRUE
        /\ UNCHANGED <<caller, open>>

\* ... then the callback, once per connection.
Callback == /\ calling
            /\ calling' = FALSE
            /\ UNCHANGED <<caller, ctl, acks, open>>

\* mg_mgr_free(): what is still queued in either direction is lost.
Close == /\ open
         /\ ~calling
         /\ open' = FALSE
         /\ ctl' = << >>
         /\ acks' = 0
         /\ UNCHANGED <<caller, calling>>

IO == Take \/ Callback

Next == \/ \E c \in Callers : Broadcast(c) \/ Release(c) \/ Abandon(c)
        \/ IO
        \/ Close

SafeSpec == Init /\ [][Next]_vars

\* The IO thread polls for as long as the pair is open.  The system queues the
\* threads blocked on one socket, so that none is overtaken for ever: strong
\* fairness, since a byte can come and be taken by another caller.
Spec == /\ SafeSpec
        /\ WF_vars(IO)
        /\ \A c \in Callers : SF_vars(Release(c)) /\ WF_vars(Abandon(c))
-------------------------------------------------------------------------------
\* What the socket pair may hold, and the state of each mg_broadcast() call.
TypeOK == /\ caller \in [Callers -> {"idle", "waiting"}]
          /\ ctl \in Seq(Payload)
          /\ acks \in Nat
          /\ open \in BOOLEAN
          /\ calling \in BOOLEAN

\* No byte and no message goes missing: while the pair is open there is exactly
\* one queued message or byte for every thread blocked in mg_broadcast(), so a
\* thread that takes the byte sent for another leaves a byte for that one.
CtlAccounting == open => Cardinality(Waiting) = Len(ctl) + acks

\* Every call of mg_broadcast() returns, whoever takes whose byte and whether or
\* not mg_mgr_free() comes first.
BroadcastReturns ==
    \A c \in Callers : caller[c] = "waiting" ~> caller[c] = "idle"
===============================================================================
