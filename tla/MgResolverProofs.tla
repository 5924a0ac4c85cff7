---------------------------- MODULE MgResolverProofs ----------------------------
(***************************************************************************)
(* For any number of retries and any time-out: the types, with the bound   *)
(* on the queries made; that a lookup calls back once; that no answer to   *)
(* its last query is heard.                                                *)
(***************************************************************************)
EXTENDS MgResolver, TLAPS

\* A callback is owed exactly as long as the request is there ...
Owed == /\ req => callbacks = << >>
        /\ ~req /\ stage # "none" => Len(callbacks) = 1
        /\ stage \in {"connecting", "up"} => req
        /\ stage \in {"none", "closed"} => ~req
        /\ stage = "none" => callbacks = << >>
\* ... and between the write step and EV_POLL of one visit is the only time at
\* which the last query has left and the connection is still to be read.
LastOut == /\ stage = "connecting" => retries = 0 /\ queried = {}
           /\ stage = "none" => queried = {}
           /\ at \in {"write", "poll"} => stage = "up"
           /\ MaxRetries + 1 \in queried =>
                 \/ stage \in {"closing", "closed"}
                 \/ at = "poll" /\ Spent
\* What select() reported is there to be read, answers a query that was asked,
\* and is read before the rest.
Heard == /\ at = "read" /\ avail => inbox # << >>
         /\ \A i \in 1..Len(inbox) : inbox[i].query \in queried
         /\ at \in {"write", "poll"} => ~avail
         /\ stage = "connecting" => ~avail
Inv == Parameters /\ TypeOK /\ Owed /\ LastOut /\ Heard /\ LastQueryUnheard

LEMMA Small ==
  ASSUME Parameters
  PROVE  /\ 0 \in 0..(MaxRetries + 1) /\ 0 \in 0..Timeout /\ MaxAnswers \in 0..MaxAnswers
         /\ << >> \in Seq(Datagrams) /\ << >> \in Seq(Callbacks)
BY DEF Parameters

LEMMA InitInv == Parameters /\ (Init \/ None) => Inv
<1> SUFFICES ASSUME Parameters, Init \/ None PROVE Inv
  OBVIOUS
<1>1. inbox = << >> /\ callbacks = << >>
  BY DEF Init, None, Fresh
<1>2. TypeOK
  BY Small DEF Init, None, Fresh, TypeOK
<1>3. Owed /\ LastOut
  BY <1>1 DEF Init, None, Fresh, Owed, LastOut
<1>4. Heard /\ LastQueryUnheard
  BY <1>1 DEF Init, None, Fresh, Heard, LastQueryUnheard
<1> QED BY <1>2, <1>3, <1>4 DEF Inv

LEMMA BeginInv == Parameters /\ (Begin("connecting", TRUE) \/ Begin("none", FALSE)) => Inv'
<1> SUFFICES ASSUME Parameters, Begin("connecting", TRUE) \/ Begin("none", FALSE) PROVE Inv'
  OBVIOUS
<1>0. Parameters'
  BY DEF Parameters
<1>1. inbox' = << >> /\ callbacks' = << >>
  BY DEF Begin, Cleared
<1>2. TypeOK'
  BY Small DEF Begin, Cleared, TypeOK
<1>3. Owed' /\ LastOut'
  BY <1>1 DEF Begin, Cleared, Owed, LastOut
<1>4. Heard' /\ LastQueryUnheard'
  BY <1>1 DEF Begin, Cleared, Heard, LastQueryUnheard
<1> QED BY <1>0, <1>2, <1>3, <1>4 DEF Inv

LEMMA WorldStep == Inv /\ World => Inv'
<1> SUFFICES ASSUME Inv, World PROVE Inv'
  OBVIOUS
<1> USE DEF Inv, Parameters
<1>1. CASE Tick
  <2>1. TypeOK'
    BY <1>1 DEF Tick, TypeOK
  <2>2. Owed' /\ LastOut'
    BY <1>1 DEF Tick, Owed, LastOut, Spent
  <2>3. Heard' /\ LastQueryUnheard'
    BY <1>1 DEF Tick, Heard, LastQueryUnheard
  <2> QED BY <2>1, <2>2, <2>3
<1>2. CASE Datagram
  <2>1. PICK q \in queried, k \in Kinds : inbox' = Append(inbox, [kind |-> k, query |-> q])
    BY <1>2 DEF Datagram
  <2>2. inbox' \in Seq(Datagrams) /\ inbox' # << >>
    <3>1. [kind |-> k, query |-> q] \in Datagrams
      BY DEF Kinds, Datagrams, TypeOK
    <3> QED BY <2>1, <3>1 DEF TypeOK
  <2>3. \A i \in 1..Len(inbox') : inbox'[i].query \in queried
    BY <2>1 DEF TypeOK, Heard
  <2>4. TypeOK'
    BY <1>2, <2>2 DEF Datagram, TypeOK
  <2>5. Owed' /\ LastOut'
    BY <1>2 DEF Datagram, Owed, LastOut, Spent
  <2>6. Heard' /\ LastQueryUnheard'
    BY <1>2, <2>2, <2>3 DEF Datagram, Heard, LastQueryUnheard
  <2> QED BY <2>4, <2>5, <2>6
<1> QED BY <1>1, <1>2 DEF World

LEMMA SelectStep == Inv /\ Select => Inv'
<1> SUFFICES ASSUME Inv, Select PROVE Inv'
  OBVIOUS
<1>1. TypeOK'
  BY DEF Inv, Select, TypeOK
<1>2. Owed' /\ LastOut'
  BY DEF Inv, Select, Live, TypeOK, Owed, LastOut
<1>3. Heard' /\ LastQueryUnheard'
  BY DEF Inv, Select, Live, TypeOK, Heard, LastQueryUnheard
<1> QED BY <1>1, <1>2, <1>3 DEF Inv

\* A datagram is taken out of the socket.
LEMMA TailOf ==
  ASSUME TypeOK, Heard, inbox # << >>
  PROVE  /\ Head(inbox) \in Datagrams /\ Head(inbox).query \in queried
         /\ Tail(inbox) \in Seq(Datagrams)
         /\ \A i \in 1..Len(Tail(inbox)) : Tail(inbox)[i].query \in queried
<1>1. inbox \in Seq(Datagrams) /\ Len(inbox) > 0
  BY DEF TypeOK
<1> QED BY <1>1 DEF Heard

\* What is read was asked for, and before the write step that is no last query.
LEMMA ReadAnswerStep == Inv /\ ReadAnswer => Inv'
<1> SUFFICES ASSUME Inv, ReadAnswer PROVE Inv'
  OBVIOUS
<1> USE DEF Inv, Parameters
<1> DEFINE q == Head(inbox).query
<1>1. inbox # << >>
  BY DEF ReadAnswer, Heard
<1>2. /\ q \in queried /\ inbox' \in Seq(Datagrams)
      /\ \A i \in 1..Len(inbox') : inbox'[i].query \in queried
  BY <1>1, TailOf DEF ReadAnswer
<1>3. q \in 1..(MaxRetries + 1) /\ q # MaxRetries + 1
  BY <1>2 DEF ReadAnswer, TypeOK, LastOut
<1>4. /\ Len(callbacks') = 1 /\ callbacks' \in Seq(Callbacks)
      /\ callbacks'[1] = [what |-> "answer", query |-> q]
  <2>1. [what |-> "answer", query |-> q] \in Callbacks
    BY <1>3 DEF Callbacks
  <2>2. callbacks = << >>
    BY DEF ReadAnswer, Owed
  <2> QED BY <2>1, <2>2 DEF ReadAnswer
<1>5. TypeOK'
  BY <1>2, <1>4 DEF ReadAnswer, TypeOK, Forgotten
<1>6. Owed' /\ LastOut'
  BY <1>4 DEF ReadAnswer, Owed, Forgotten, LastOut
<1>7. Heard'
  BY <1>2 DEF ReadAnswer, Heard
<1>8. LastQueryUnheard'
  BY <1>3, <1>4 DEF LastQueryUnheard
<1> QED BY <1>5, <1>6, <1>7, <1>8

LEMMA ReadFailureStep == Inv /\ ReadFailure => Inv'
<1> SUFFICES ASSUME Inv, ReadFailure PROVE Inv'
  OBVIOUS
<1> USE DEF Inv, Parameters
<1>1. inbox # << >>
  BY DEF ReadFailure, Heard
<1>2. /\ inbox' \in Seq(Datagrams)
      /\ \A i \in 1..Len(inbox') : inbox'[i].query \in queried
  BY <1>1, TailOf DEF ReadFailure
<1>3. TypeOK'
  BY <1>2 DEF ReadFailure, TypeOK
<1>4. Owed' /\ LastOut'
  BY DEF ReadFailure, Owed, LastOut
<1>5. Heard' /\ LastQueryUnheard'
  BY <1>2 DEF ReadFailure, Heard, LastQueryUnheard
<1> QED BY <1>3, <1>4, <1>5

LEMMA WriteStep == Inv /\ Write => Inv'
<1> SUFFICES ASSUME Inv, Write PROVE Inv'
  OBVIOUS
<1> USE DEF Inv, Parameters
<1>1. /\ queried' \subseteq 1..(MaxRetries + 1) /\ queried \subseteq queried'
      /\ sendq' \subseteq 1..retries
      /\ MaxRetries + 1 \in queried' => retries > MaxRetries
  <2>1. CASE UNCHANGED <<queried, sendq>>
    BY <2>1 DEF Write, TypeOK, LastOut
  <2>2. CASE queried' = queried \cup Oldest(sendq) /\ sendq' = {}
    <3>1. Oldest(sendq) \subseteq 1..retries /\ retries \in 0..(MaxRetries + 1)
      BY DEF Oldest, TypeOK
    <3>2. /\ queried \subseteq 1..(MaxRetries + 1) /\ MaxRetries + 1 \notin queried
          /\ MaxRetries \in Nat
      BY DEF Write, TypeOK, LastOut
    <3>3. queried' \subseteq 1..(MaxRetries + 1) /\ queried \subseteq queried' /\ sendq' = {}
      <4>1. \A q \in 1..retries : q \in 1..(MaxRetries + 1)
        BY <3>1, <3>2
      <4> QED BY <2>2, <3>1, <3>2, <4>1, Zenon
    <3>4. MaxRetries + 1 \in queried' => retries > MaxRetries
      BY <2>2, <3>1, <3>2
    <3> QED BY <3>3, <3>4
  <2> QED BY <2>1, <2>2 DEF Write
<1>2. TypeOK'
  BY <1>1 DEF Write, TypeOK
<1>3. Owed'
  BY DEF Write, Owed
<1>4. LastOut'
  BY <1>1 DEF Write, LastOut, Spent
<1>5. Heard'
  BY <1>1 DEF Write, Heard
<1>6. LastQueryUnheard'
  BY DEF Write, LastQueryUnheard
<1> QED BY <1>2, <1>3, <1>4, <1>5, <1>6

\* EV_CONNECT and a time-out: one more query.
LEMMA QueryStep == Inv /\ (Connect \/ Retry) => Inv'
<1> SUFFICES ASSUME Inv, Connect \/ Retry PROVE Inv'
  OBVIOUS
<1> USE DEF Inv, Parameters
<1>1. retries \in 0..MaxRetries
  BY DEF Connect, Retry, Spent, TypeOK, LastOut
<1>2. /\ retries' = retries + 1 /\ retries' \in 0..(MaxRetries + 1)
      /\ sendq' = sendq \cup {retries'} /\ age' = 0
  BY <1>1 DEF Connect, Retry, Query
<1>3. sendq' \subseteq 1..retries'
  BY <1>1, <1>2 DEF TypeOK
<1>4. TypeOK'
  <2>1. /\ stage' \in {"connecting", "up", "closing"} /\ at' \in {"out", "write"}
        /\ UNCHANGED <<avail, room, req, err, stale, inbox, budget, queried, callbacks, corrupt>>
    <3>1. CASE Connect
      BY <3>1 DEF Connect, TypeOK
    <3>2. CASE Retry
      BY <3>2 DEF Retry, LastOut
    <3> QED BY <3>1, <3>2
  <2>2. age' \in 0..Timeout
    BY <1>2, Small
  <2> QED BY <1>2, <1>3, <2>1, <2>2 DEF TypeOK
<1>5. Owed'
  BY DEF Connect, Retry, TypeOK, Owed, LastOut
<1>6. LastOut'
  BY <1>1 DEF Connect, Retry, Spent, TypeOK, LastOut
<1>7. Heard' /\ LastQueryUnheard'
  BY DEF Connect, Retry, TypeOK, Heard, LastQueryUnheard
<1> QED BY <1>4, <1>5, <1>6, <1>7

LEMMA VisitStep == Inv /\ Visit => Inv'
<1> SUFFICES ASSUME Inv, Visit PROVE Inv'
  OBVIOUS
<1> USE DEF Inv, Parameters
<1>1. CASE ReadNothing
  BY <1>1 DEF ReadNothing, PassOver, TypeOK, Owed, LastOut, Heard, LastQueryUnheard
<1>2. CASE GiveUp
  BY <1>2 DEF GiveUp, TypeOK, Owed, LastOut, Heard, LastQueryUnheard
<1>3. CASE Wait
  BY <1>3 DEF Wait, Spent, TypeOK, Owed, LastOut, Heard, LastQueryUnheard
<1> QED BY <1>1, <1>2, <1>3, ReadAnswerStep, ReadFailureStep, WriteStep, QueryStep DEF Visit

LEMMA ShutStep == Inv /\ (Close \/ Free) => Inv'
<1> SUFFICES ASSUME Inv, Close \/ Free PROVE Inv'
  OBVIOUS
<1> USE DEF Inv, Parameters
<1>1. Live /\ Shut
  BY DEF Close, Free, Live
<1>2. callbacks' \in Seq(Callbacks) /\ Len(callbacks') = 1
  <2>1. CASE req
    <3>1. callbacks = << >> /\ [what |-> err, query |-> 0] \in Callbacks
      BY <2>1 DEF Owed, TypeOK, Callbacks
    <3> QED BY <1>1, <2>1, <3>1 DEF Shut
  <2>2. CASE ~req
    BY <1>1, <2>2 DEF Shut, Live, Owed, TypeOK
  <2> QED BY <2>1, <2>2
<1>3. LastQueryUnheard'
  <2>1. CASE req
    <3>1. Len(callbacks') = 1 /\ callbacks'[1] = [what |-> err, query |-> 0]
      BY <1>1, <2>1 DEF Shut, Owed
    <3>2. err # "answer"
      BY DEF TypeOK
    <3> QED BY <3>1, <3>2 DEF LastQueryUnheard
  <2>2. CASE ~req
    BY <1>1, <2>2 DEF Shut, LastQueryUnheard
  <2> QED BY <2>1, <2>2
<1>4. inbox' = << >> /\ Len(inbox') = 0
  BY <1>1 DEF Shut, Cleared
<1>5. TypeOK'
  BY <1>1, <1>2, Small DEF Shut, Cleared, TypeOK
<1>6. Owed' /\ LastOut' /\ Heard'
  BY <1>1, <1>2, <1>4 DEF Shut, Cleared, Owed, LastOut, Heard
<1> QED BY <1>3, <1>5, <1>6

LEMMA Step == Inv /\ [Next]_resolver => Inv'
<1>1. Inv /\ UNCHANGED resolver => Inv'
  BY DEF resolver, Inv, TypeOK, Owed, LastOut, Heard, Spent, LastQueryUnheard
<1> QED BY <1>1, WorldStep, SelectStep, VisitStep, ShutStep DEF Next

LEMMA Invariance == ASSUME Parameters PROVE SafeSpec => []Inv
BY InitInv, Step, PTL DEF SafeSpec

\* What the invariant says to those who cannot see its parts.
LEMMA Inside ==
  Inv => TypeOK /\ OneCallback /\ LastQueryUnheard /\ GivesUpUnheard
<1>1. Inv => OneCallback
  <2> SUFFICES ASSUME Inv PROVE OneCallback
    OBVIOUS
  <2>1. CASE req \/ stage = "none"
    <3>1. callbacks = << >> /\ stage # "closed"
      BY <2>1 DEF Inv, Owed, TypeOK
    <3>2. Len(callbacks) = 0
      BY <3>1
    <3> QED BY <3>1, <3>2 DEF OneCallback
  <2>2. CASE ~req /\ stage # "none"
    <3>1. Len(callbacks) = 1
      BY <2>2 DEF Inv, Owed
    <3> QED BY <3>1 DEF OneCallback
  <2> QED BY <2>1, <2>2
<1>2. Inv => GivesUpUnheard
  BY DEF Inv, Heard, GivesUpUnheard, GiveUp
<1> QED BY <1>1, <1>2 DEF Inv

\* A lookup never makes more than max_retries + 1 queries, and the rest of the
\* types.
THEOREM TypeCorrect == ASSUME Parameters PROVE SafeSpec => []TypeOK
BY Invariance, Inside, PTL

\* mg_resolve_async() calls back exactly once.
THEOREM CalledBack == ASSUME Parameters PROVE SafeSpec => []OneCallback
BY Invariance, Inside, PTL

\* No answer to the last query is heard, whatever the number of retries.
THEOREM LastInVain == ASSUME Parameters PROVE SafeSpec => []LastQueryUnheard
BY Invariance, Inside, PTL
===============================================================================
