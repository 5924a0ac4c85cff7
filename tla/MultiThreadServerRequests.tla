----------------------- MODULE MultiThreadServerRequests -----------------------
(***************************************************************************)
(* What becomes of a request that ev_handler() was given, for any number   *)
(* of workers, connections and requests and any way its 4096 bytes are cut *)
(* on the stream: it is never taken by two workers and never handled       *)
(* twice, and it is not lost while both socket pairs are open.             *)
(*                                                                         *)
(* The argument counts.  A step moves a request from one place to the next *)
(* and so keeps its number of copies; what makes each move safe is that    *)
(* the place it comes from holds it once (Once), that a place is empty     *)
(* before the step that fills it (SendsPlaced, MsgPlaced, WorkersPlaced),  *)
(* and that the fragments behind the head of a request are its own         *)
(* (Spaced).                                                               *)
(*                                                                         *)
(* The same counts tell how much the server takes.  The IO thread and the  *)
(* workers can wait for each other for good only if more requests are open *)
(* than the stream and the workers hold, whatever clients and operator do  *)
(* (DeadlockLoad): the fragments on their way to the stream belong to that *)
(* many requests, and each worker waits for one more.                      *)
(*                                                                         *)
(* Clients that wait for an answer before they ask again and never leave   *)
(* (Env = {}), and a work_request that travels in one piece (Parts = 1),   *)
(* get more (Patience): no worker reads the text of a request after it was *)
(* overwritten or freed, and with no more connections than the stream and  *)
(* the workers hold requests, the write on sock[0] always returns.         *)
(***************************************************************************)
EXTENDS MultiThreadServerProofs

(* Counting in sequences *)

At(s, S)      == {i \in 1..Len(s) : s[i] \in S}
HowMany(s, S) == Cardinality(At(s, S))

LEMMA CountType ==
  ASSUME NEW T, NEW s \in Seq(T), NEW S
  PROVE  IsFiniteSet(At(s, S)) /\ HowMany(s, S) \in Nat
<1>1. IsFiniteSet(1..Len(s))
  BY FS_Interval
<1>2. IsFiniteSet(At(s, S))
  BY <1>1, FS_Subset DEF At
<1> QED
  BY <1>2, FS_CardinalityType DEF HowMany

LEMMA CountNone ==
  ASSUME NEW T, NEW s \in Seq(T), NEW S, \A i \in 1..Len(s) : s[i] \notin S
  PROVE  HowMany(s, S) = 0
<1>1. At(s, S) = {}
  BY DEF At
<1> QED
  BY <1>1, FS_EmptySet DEF HowMany

LEMMA CountEmpty == ASSUME NEW S PROVE HowMany(<< >>, S) = 0
<1>1. At(<< >>, S) = {}
  BY DEF At
<1> QED
  BY <1>1, FS_EmptySet DEF HowMany

\* Only the first element is counted.
LEMMA CountFirst ==
  ASSUME NEW T, NEW s \in Seq(T), s # << >>, NEW S, \A i \in 2..Len(s) : s[i] \notin S
  PROVE  HowMany(s, S) = IF s[1] \in S THEN 1 ELSE 0
<1>1. Len(s) \in Nat /\ Len(s) >= 1
  BY EmptySeq
<1>2. CASE s[1] \in S
  <2>1. At(s, S) = {1}
    BY <1>1, <1>2 DEF At
  <2> QED
    BY <1>2, <2>1, FS_Singleton DEF HowMany
<1>3. CASE s[1] \notin S
  <2>1. \A i \in 1..Len(s) : s[i] \notin S
    BY <1>1, <1>3
  <2> QED
    BY <1>3, <2>1, CountNone
<1> QED
  BY <1>2, <1>3

LEMMA CountConcat ==
  ASSUME NEW T, NEW s \in Seq(T), NEW t \in Seq(T), NEW S
  PROVE  HowMany(s \o t, S) = HowMany(s, S) + HowMany(t, S)
<1> DEFINE Behind == {i + Len(s) : i \in At(t, S)}
           shift  == [i \in At(t, S) |-> i + Len(s)]
<1>1. Len(s) \in Nat /\ Len(t) \in Nat
  OBVIOUS
<1>2. /\ s \o t \in Seq(T) /\ Len(s \o t) = Len(s) + Len(t)
      /\ \A i \in 1..(Len(s) + Len(t)) :
            (s \o t)[i] = IF i <= Len(s) THEN s[i] ELSE t[i - Len(s)]
  BY ConcatProperties
<1>3. IsFiniteSet(At(s, S)) /\ IsFiniteSet(At(t, S))
  BY CountType
<1>4. IsFiniteSet(Behind) /\ Cardinality(Behind) = HowMany(t, S)
  <2>1. \A i \in At(t, S) : i \in Int
    BY DEF At
  <2>2. shift \in Bijection(At(t, S), Behind)
    BY <1>1, <2>1 DEF Bijection, Injection, Surjection, IsInjective
  <2> QED
    BY <1>3, <2>2, FS_Bijection DEF ExistsBijection, HowMany
<1>5. At(s \o t, S) = At(s, S) \cup Behind
  <2>1. ASSUME NEW i \in At(s \o t, S)
        PROVE  i \in At(s, S) \cup Behind
    <3>1. i \in 1..(Len(s) + Len(t)) /\ (s \o t)[i] \in S
      BY <1>2 DEF At
    <3>2. CASE i <= Len(s)
      BY <1>1, <1>2, <3>1, <3>2 DEF At
    <3>3. CASE i > Len(s)
      <4>1. i - Len(s) \in At(t, S)
        BY <1>1, <1>2, <3>1, <3>3 DEF At
      <4>2. i = (i - Len(s)) + Len(s)
        BY <1>1, <3>1
      <4> QED
        BY <4>1, <4>2
    <3> QED
      BY <1>1, <3>1, <3>2, <3>3
  <2>2. ASSUME NEW i \in At(s, S)
        PROVE  i \in At(s \o t, S)
    BY <1>1, <1>2 DEF At
  <2>3. ASSUME NEW i \in At(t, S)
        PROVE  i + Len(s) \in At(s \o t, S)
    <3>1. i \in 1..Len(t) /\ t[i] \in S
      BY DEF At
    <3>2. i + Len(s) \in 1..(Len(s) + Len(t)) /\ ~(i + Len(s) <= Len(s))
          /\ (i + Len(s)) - Len(s) = i
      BY <1>1, <3>1
    <3> QED
      BY <1>2, <3>1, <3>2 DEF At
  <2> QED
    BY <2>1, <2>2, <2>3
<1>6. At(s, S) \cap Behind = {}
  <2>1. \A i \in At(t, S) : i + Len(s) > Len(s) /\ i + Len(s) \in Nat
    BY <1>1 DEF At
  <2>2. \A i \in At(s, S) : i <= Len(s)
    BY <1>1 DEF At
  <2> QED
    BY <1>1, <2>1, <2>2
<1>7. Cardinality(At(s, S) \cup Behind) = Cardinality(At(s, S)) + Cardinality(Behind) - 0
  BY <1>3, <1>4, <1>6, FS_Union, FS_EmptySet
<1> QED
  BY <1>3, <1>4, <1>5, <1>7, CountType DEF HowMany

LEMMA CountSplit ==
  ASSUME NEW T, NEW s \in Seq(T), NEW S, NEW n \in 0..Len(s)
  PROVE  /\ SubSeq(s, 1, n) \in Seq(T) /\ SubSeq(s, n + 1, Len(s)) \in Seq(T)
         /\ SubSeq(s, 1, n) \o SubSeq(s, n + 1, Len(s)) = s
         /\ HowMany(s, S) = HowMany(SubSeq(s, 1, n), S) + HowMany(SubSeq(s, n + 1, Len(s)), S)
<1>1. Len(s) \in Nat /\ n \in Int /\ n >= 0 /\ n <= Len(s) /\ \A i \in 1..Len(s) : s[i] \in T
  OBVIOUS
<1>2. SubSeq(s, 1, n) \in Seq(T) /\ SubSeq(s, n + 1, Len(s)) \in Seq(T)
  <2>1. n + 1 \in Int /\ \A i \in (n + 1)..Len(s) : s[i] \in T
    BY <1>1
  <2>2. \A i \in 1..n : s[i] \in T
    BY <1>1
  <2> QED
    BY <1>1, <2>1, <2>2, SubSeqProperties
<1>3. SubSeq(s, 1, n) \o SubSeq(s, n + 1, Len(s)) = s
  <2>1. 1 \in 1..(Len(s) + 1) /\ n \in (1 - 1)..Len(s) /\ Len(s) \in n..Len(s)
    BY <1>1
  <2>2. SubSeq(s, 1, n) \o SubSeq(s, n + 1, Len(s)) = SubSeq(s, 1, Len(s))
    BY <2>1, ConcatAdjacentSubSeq
  <2> QED
    BY <2>2, SubSeqFull
<1>4. HowMany(SubSeq(s, 1, n) \o SubSeq(s, n + 1, Len(s)), S)
        = HowMany(SubSeq(s, 1, n), S) + HowMany(SubSeq(s, n + 1, Len(s)), S)
  BY <1>2, CountConcat
<1> QED
  BY <1>2, <1>3, <1>4

LEMMA CountOne ==
  ASSUME NEW T, NEW e \in T, NEW S
  PROVE  <<e>> \in Seq(T) /\ HowMany(<<e>>, S) = IF e \in S THEN 1 ELSE 0
<1>1. <<e>> \in Seq(T) /\ <<e>> # << >> /\ <<e>>[1] = e /\ Len(<<e>>) = 1
  OBVIOUS
<1>2. \A i \in 2..Len(<<e>>) : <<e>>[i] \notin S
  BY <1>1
<1> QED
  BY <1>1, <1>2, CountFirst

\* An element more at the end, and one less at the head.
LEMMA CountAppend ==
  ASSUME NEW T, NEW s \in Seq(T), NEW e \in T, NEW S
  PROVE  HowMany(Append(s, e), S) = HowMany(s, S) + (IF e \in S THEN 1 ELSE 0)
<1>1. Append(s, e) = s \o <<e>>
  BY AppendIsConcat
<1>2. <<e>> \in Seq(T) /\ HowMany(<<e>>, S) = IF e \in S THEN 1 ELSE 0
  BY CountOne
<1>3. HowMany(s \o <<e>>, S) = HowMany(s, S) + HowMany(<<e>>, S)
  BY <1>2, CountConcat
<1> QED
  BY <1>1, <1>2, <1>3

LEMMA CountTail ==
  ASSUME NEW T, NEW s \in Seq(T), s # << >>, NEW S
  PROVE  HowMany(s, S) = HowMany(Tail(s), S) + (IF Head(s) \in S THEN 1 ELSE 0)
<1>1. Len(s) \in Nat /\ Len(s) >= 1 /\ Head(s) \in T /\ Tail(s) \in Seq(T)
  BY EmptySeq, HeadTailProperties
<1>2. SubSeq(s, 1, 1) = <<Head(s)>>
  <2>1. SubSeq(s, 1, 1) = <<s[1]>> \o SubSeq(s, 2, 1) /\ SubSeq(s, 2, 1) = << >>
    BY <1>1, SubSeqRecursiveFirst, SubSeqEmpty
  <2>2. <<s[1]>> \o << >> = <<s[1]>>
    BY <1>1, ConcatEmptySeq
  <2>3. Head(s) = s[1]
    OBVIOUS
  <2> QED
    BY <2>1, <2>2, <2>3
<1>3. SubSeq(s, 1 + 1, Len(s)) = Tail(s)
  BY <1>1, TailIsSubSeq
<1>4. /\ HowMany(s, S) = HowMany(<<Head(s)>>, S) + HowMany(Tail(s), S)
      /\ HowMany(Tail(s), S) \in Nat
  <2>1. 1 \in 0..Len(s)
    BY <1>1
  <2>2. HowMany(s, S) = HowMany(SubSeq(s, 1, 1), S) + HowMany(SubSeq(s, 1 + 1, Len(s)), S)
    BY <2>1, CountSplit
  <2> QED
    BY <1>1, <1>2, <1>3, <2>2, CountType
<1>5. HowMany(<<Head(s)>>, S) = IF Head(s) \in S THEN 1 ELSE 0
  BY <1>1, CountOne
<1> QED
  BY <1>4, <1>5
-------------------------------------------------------------------------------
(* Where a request is *)

HeadOf(c, k)  == {f \in Fragment : f.part = 1 /\ f.req.conn = c /\ f.req.rank = k}
ReqOf(c, k)   == {r \in Request : r.conn = c /\ r.rank = k}
Holders(c, k) == {w \in Workers : wreq[w].conn = c /\ wreq[w].rank = k}

InPend(c, k)    == HowMany(pend, HeadOf(c, k))
InStream(c, k)  == HowMany(stream, HeadOf(c, k))
InWorkers(c, k) == Cardinality(Holders(c, k))
InCtl(c, k)     == HowMany(ctl, ReqOf(c, k))
InMsg(c, k)     == IF msg.conn = c /\ msg.rank = k THEN 1 ELSE 0
InHandled(c, k) == IF <<c, k>> \in handled THEN 1 ELSE 0

\* The places a request is counted in, of which a step changes at most two.
Places(c, k) == InPend(c, k) + InStream(c, k) + InWorkers(c, k)
                  + InCtl(c, k) + InMsg(c, k) + InHandled(c, k)

LEMMA HeadsCounted ==
  ASSUME NEW s \in Seq(Fragment), NEW c, NEW k
  PROVE  Heads(s, c, k) = HowMany(s, HeadOf(c, k))
<1>1. \A i \in 1..Len(s) : s[i] \in Fragment
  OBVIOUS
<1>2. At(s, HeadOf(c, k))
        = {i \in 1..Len(s) : s[i].part = 1 /\ s[i].req.conn = c /\ s[i].req.rank = k}
  BY <1>1 DEF At, HeadOf
<1> QED
  BY <1>2 DEF Heads, HowMany

LEMMA ReqsCounted ==
  ASSUME NEW s \in Seq(Request), NEW c, NEW k
  PROVE  Cardinality({i \in 1..Len(s) : s[i].conn = c /\ s[i].rank = k})
           = HowMany(s, ReqOf(c, k))
<1>1. \A i \in 1..Len(s) : s[i] \in Request
  OBVIOUS
<1>2. At(s, ReqOf(c, k)) = {i \in 1..Len(s) : s[i].conn = c /\ s[i].rank = k}
  BY <1>1 DEF At, ReqOf
<1> QED
  BY <1>2 DEF HowMany

\* Copies is the sum of the places.
LEMMA CopiesInt ==
  ASSUME Inv, NEW c \in Accepted, NEW k \in 1..MaxReqs
  PROVE  /\ Copies(c, k) = Places(c, k) /\ Copies(c, k) \in Nat
         /\ InPend(c, k) \in Nat /\ InStream(c, k) \in Nat /\ InWorkers(c, k) \in Nat
         /\ InCtl(c, k) \in Nat /\ InMsg(c, k) \in {0, 1} /\ InHandled(c, k) \in {0, 1}
<1>1. pend \in Seq(Fragment) /\ stream \in Seq(Fragment) /\ ctl \in Seq(Request)
  BY DEF Inv, TypeOK, IOTypeOK, SockTypeOK, CtlTypeOK
<1>2. Copies(c, k) = Places(c, k)
  <2>1. Heads(pend, c, k) = InPend(c, k)
    BY <1>1, HeadsCounted DEF InPend
  <2>2. Heads(stream, c, k) = InStream(c, k)
    BY <1>1, HeadsCounted DEF InStream
  <2>3. Cardinality({i \in 1..Len(ctl) : ctl[i].conn = c /\ ctl[i].rank = k}) = InCtl(c, k)
    BY <1>1, ReqsCounted DEF InCtl
  <2> QED
    BY <2>1, <2>2, <2>3 DEF Copies, Places, InWorkers, InMsg, InHandled, Holders
<1>3. InWorkers(c, k) \in Nat
  BY ConstantsAssumption, FS_Subset, FS_CardinalityType DEF InWorkers, Holders
<1>4. InPend(c, k) \in Nat /\ InStream(c, k) \in Nat /\ InCtl(c, k) \in Nat
  BY <1>1, CountType DEF InPend, InStream, InCtl
<1>5. InMsg(c, k) \in {0, 1} /\ InHandled(c, k) \in {0, 1}
  BY DEF InMsg, InHandled
<1> QED
  BY <1>2, <1>3, <1>4, <1>5 DEF Places

\* ... before and after a step.
LEMMA CopiesCounted ==
  ASSUME Inv, Inv', NEW c \in Accepted, NEW k \in 1..MaxReqs
  PROVE  /\ Copies(c, k) = Places(c, k) /\ Copies(c, k)' = Places(c, k)'
         /\ InPend(c, k) \in Nat /\ InStream(c, k) \in Nat /\ InWorkers(c, k) \in Nat
         /\ InCtl(c, k) \in Nat /\ InMsg(c, k) \in {0, 1} /\ InHandled(c, k) \in {0, 1}
         /\ InPend(c, k)' \in Nat /\ InStream(c, k)' \in Nat /\ InWorkers(c, k)' \in Nat
         /\ InCtl(c, k)' \in Nat /\ InMsg(c, k)' \in {0, 1} /\ InHandled(c, k)' \in {0, 1}
<1>1. pend' \in Seq(Fragment) /\ stream' \in Seq(Fragment) /\ ctl' \in Seq(Request)
  BY DEF Inv, TypeOK, IOTypeOK, SockTypeOK, CtlTypeOK
<1>2. /\ Copies(c, k) = Places(c, k)
      /\ InPend(c, k) \in Nat /\ InStream(c, k) \in Nat /\ InWorkers(c, k) \in Nat
      /\ InCtl(c, k) \in Nat /\ InMsg(c, k) \in {0, 1} /\ InHandled(c, k) \in {0, 1}
  BY CopiesInt
<1>3. Copies(c, k)' = Places(c, k)'
  BY <1>1, HeadsCounted, ReqsCounted
     DEF Copies, Places, InPend, InStream, InWorkers, InCtl, InMsg, InHandled, Holders
<1>4. InWorkers(c, k)' \in Nat
  BY ConstantsAssumption, FS_Subset, FS_CardinalityType DEF InWorkers, Holders
<1>5. InPend(c, k)' \in Nat /\ InStream(c, k)' \in Nat /\ InCtl(c, k)' \in Nat
  BY <1>1, CountType DEF InPend, InStream, InCtl
<1>6. InMsg(c, k)' \in {0, 1} /\ InHandled(c, k)' \in {0, 1}
  BY DEF InMsg, InHandled
<1> QED
  BY <1>2, <1>3, <1>4, <1>5, <1>6

\* A place that does not change holds what it held.
LEMMA PlacesKept ==
  ASSUME NEW c, NEW k
  PROVE  /\ UNCHANGED pend => InPend(c, k)' = InPend(c, k)
         /\ UNCHANGED stream => InStream(c, k)' = InStream(c, k)
         /\ UNCHANGED wreq => InWorkers(c, k)' = InWorkers(c, k)
         /\ UNCHANGED ctl => InCtl(c, k)' = InCtl(c, k)
         /\ UNCHANGED msg => InMsg(c, k)' = InMsg(c, k)
         /\ UNCHANGED handled => InHandled(c, k)' = InHandled(c, k)
  BY DEF InPend, InStream, InWorkers, Holders, InCtl, InMsg, InHandled
-------------------------------------------------------------------------------
(* What makes the moves safe *)

\* Every head of a request is followed by the rest of its fragments, and every
\* fragment by its head preceded, if that was not taken.
SpacedOut(s) ==
    /\ \A i \in 1..Len(s) : s[i].part = 1 =>
          /\ i + Parts - 1 <= Len(s)
          /\ \A j \in (i + 1)..(i + Parts - 1) : s[j].part # 1
    /\ \A i, j \in 1..Len(s) : i < j /\ j < i + s[j].part => s[i].part + j = s[j].part + i

\* No place is filled before the step that empties it.
SendsPlaced   == io \notin {"send", "sendclose"} => pend = << >>
MsgPlaced     == io # "callback" => msg = NoReq
WorkersPlaced == \A w \in Workers : wpc[w] # "work" => wreq[w] = NoReq
Spaced        == SpacedOut(stream \o pend)

\* The last pass of mg_mgr_free() and what follows it find the ctl pair closed.
FreedCtl == phase = "free" \/ io \in {"sock0", "sock1", "returned"} => ~ctlOpen

Carried == SendsPlaced /\ MsgPlaced /\ WorkersPlaced /\ Spaced /\ FreedCtl

LEMMA CarriedStable ==
    /\ SendsPlaced /\ UNCHANGED <<io, pend>> => SendsPlaced'
    /\ MsgPlaced /\ UNCHANGED <<io, msg>> => MsgPlaced'
    /\ WorkersPlaced /\ UNCHANGED <<wpc, wreq>> => WorkersPlaced'
    /\ Spaced /\ UNCHANGED <<stream, pend>> => Spaced'
    /\ FreedCtl /\ UNCHANGED <<io, phase, ctlOpen>> => FreedCtl'
  BY DEF SendsPlaced, MsgPlaced, WorkersPlaced, Spaced, FreedCtl

LEMMA PartType ==
  ASSUME NEW s \in Seq(Fragment), NEW i \in 1..Len(s)
  PROVE  s[i] \in Fragment /\ s[i].part \in 1..Parts /\ s[i].part \in Nat
<1>1. s[i] \in Fragment
  OBVIOUS
<1> QED
  BY <1>1, Domains DEF Fragment

LEMMA BehindHead ==
  ASSUME NEW s \in Seq(Fragment), SpacedOut(s), NEW a \in 1..Len(s), NEW b \in 1..Len(s),
         a < b, b < a + s[b].part
  PROVE  s[a].part + b = s[b].part + a
<1>1. \A i, j \in 1..Len(s) : i < j /\ j < i + s[j].part => s[i].part + j = s[j].part + i
  BY DEF SpacedOut
<1> QED
  BY <1>1

\* Fragments taken from the front leave the rest spaced.
LEMMA SpacedShift ==
  ASSUME NEW s \in Seq(Fragment), NEW t \in Seq(Fragment), NEW n \in Nat,
         Len(t) = Len(s) - n, \A i \in 1..Len(t) : t[i] = s[i + n], SpacedOut(s)
  PROVE  SpacedOut(t)
<1>1. Len(s) \in Nat /\ Len(t) \in Nat /\ Parts \in Nat
  BY Domains
<1>6. ASSUME NEW i \in 1..Len(t), NEW j \in 1..Len(t), i < j, j < i + t[j].part
      PROVE  t[i].part + j = t[j].part + i
  <2>1. PICK a \in 1..Len(s) : a = i + n
    BY <1>1
  <2>2. PICK b \in 1..Len(s) : b = j + n
    BY <1>1
  <2>3. t[i] = s[a] /\ t[j] = s[b]
    BY <2>1, <2>2
  <2>5. t[j].part \in Nat /\ t[i].part \in Nat
    BY PartType
  <2>6. a < b /\ b < a + s[b].part
    BY <1>1, <1>6, <2>1, <2>2, <2>3, <2>5
  <2>7. s[a].part + b = s[b].part + a
    BY <2>6, BehindHead
  <2>8. PICK x \in Nat, y \in Nat : x = t[i].part /\ y = t[j].part
    BY <2>5
  <2>9. x + b = y + a
    BY <2>3, <2>7, <2>8
  <2>10. x + j = y + i
    BY <2>1, <2>2, <2>9
  <2> QED
    BY <2>8, <2>10
<1> SUFFICES ASSUME NEW i \in 1..Len(t), t[i].part = 1
             PROVE  /\ i + Parts - 1 <= Len(t)
                    /\ \A j \in (i + 1)..(i + Parts - 1) : t[j].part # 1
  BY <1>6 DEF SpacedOut
<1>2. i + n \in 1..Len(s) /\ s[i + n].part = 1
  BY <1>1
<1>3. /\ (i + n) + Parts - 1 <= Len(s)
      /\ \A j \in ((i + n) + 1)..((i + n) + Parts - 1) : s[j].part # 1
  BY <1>2 DEF SpacedOut
<1>4. i + Parts - 1 <= Len(t)
  BY <1>1, <1>3
<1>5. ASSUME NEW j \in (i + 1)..(i + Parts - 1)
      PROVE  t[j].part # 1
  <2>1. j \in 1..Len(t) /\ j + n \in ((i + n) + 1)..((i + n) + Parts - 1)
    BY <1>1, <1>4
  <2> QED
    BY <1>3, <2>1
<1> QED
  BY <1>4, <1>5

\* A whole request more at the end leaves them spaced.
LEMMA SpacedMore ==
  ASSUME NEW s \in Seq(Fragment), NEW r \in Request, SpacedOut(s)
  PROVE  SpacedOut(s \o Fragments(r))
<1> DEFINE t == s \o Fragments(r)
<1>1. /\ Len(s) \in Nat /\ Parts \in Nat \ {0}
      /\ Fragments(r) \in Seq(Fragment) /\ Len(Fragments(r)) = Parts
  BY Domains, FragmentsType
<1>2. /\ Len(t) = Len(s) + Parts
      /\ \A i \in 1..(Len(s) + Parts) : t[i] = IF i <= Len(s) THEN s[i] ELSE Fragments(r)[i - Len(s)]
  BY <1>1, ConcatProperties
<1>3. \A i \in (Len(s) + 1)..(Len(s) + Parts) : t[i].part = i - Len(s)
  BY <1>1, <1>2 DEF Fragments
<1>6. ASSUME NEW i \in 1..Len(t), NEW j \in 1..Len(t), i < j, j < i + t[j].part
      PROVE  t[i].part + j = t[j].part + i
  <2>1. CASE j <= Len(s)
    <3>1. i \in 1..Len(s) /\ j \in 1..Len(s) /\ t[i] = s[i] /\ t[j] = s[j]
      BY <1>1, <1>2, <1>6, <2>1
    <3> QED
      BY <1>6, <3>1 DEF SpacedOut
  <2>2. CASE j > Len(s)
    <3>1. t[j].part = j - Len(s) /\ i > Len(s)
      BY <1>1, <1>2, <1>3, <1>6, <2>2
    <3> QED
      BY <1>1, <1>2, <1>3, <3>1
  <2> QED
    BY <1>1, <1>2, <2>1, <2>2
<1> SUFFICES ASSUME NEW i \in 1..Len(t), t[i].part = 1
             PROVE  /\ i + Parts - 1 <= Len(t)
                    /\ \A j \in (i + 1)..(i + Parts - 1) : t[j].part # 1
  BY <1>6 DEF SpacedOut
<1>4. CASE i <= Len(s)
  <2>1. i \in 1..Len(s) /\ s[i].part = 1
    BY <1>1, <1>2, <1>4
  <2>2. i + Parts - 1 <= Len(s) /\ \A j \in (i + 1)..(i + Parts - 1) : s[j].part # 1
    BY <2>1 DEF SpacedOut
  <2>3. \A j \in (i + 1)..(i + Parts - 1) : t[j] = s[j]
    BY <1>1, <1>2, <2>1, <2>2
  <2> QED
    BY <1>1, <1>2, <2>2, <2>3
<1>5. CASE i > Len(s)
  <2>1. i = Len(s) + 1
    BY <1>1, <1>2, <1>3, <1>5
  <2> QED
    BY <1>1, <1>2, <1>3, <2>1
<1> QED
  BY <1>1, <1>2, <1>4, <1>5

\* The write on sock[0] moves fragments on, in order.
LEMMA PlaceMoves ==
  ASSUME Inv, NEW n \in 0..Len(pend), Place(n)
  PROVE  /\ stream' \o pend' = stream \o pend
         /\ \A c, k : InPend(c, k)' + InStream(c, k)' = InPend(c, k) + InStream(c, k)
<1>1. pend \in Seq(Fragment) /\ stream \in Seq(Fragment)
  BY DEF Inv, TypeOK, IOTypeOK, SockTypeOK
<1>2. PICK front \in Seq(Fragment), back \in Seq(Fragment) :
         front \o back = pend /\ stream' = stream \o front /\ pend' = back
  <2>1. /\ SubSeq(pend, 1, n) \in Seq(Fragment) /\ SubSeq(pend, n + 1, Len(pend)) \in Seq(Fragment)
        /\ SubSeq(pend, 1, n) \o SubSeq(pend, n + 1, Len(pend)) = pend
    BY <1>1, CountSplit
  <2> QED
    BY <2>1 DEF Place
<1>3. (stream \o front) \o back = stream \o (front \o back)
  BY <1>1, ConcatAssociative
<1>4. stream' \o pend' = stream \o pend
  BY <1>2, <1>3
<1>5. ASSUME NEW c, NEW k
      PROVE  InPend(c, k)' + InStream(c, k)' = InPend(c, k) + InStream(c, k)
  <2> DEFINE H == HeadOf(c, k)
  <2>1. HowMany(front \o back, H) = HowMany(front, H) + HowMany(back, H)
    BY CountConcat
  <2>2. HowMany(stream \o front, H) = HowMany(stream, H) + HowMany(front, H)
    BY <1>1, CountConcat
  <2>3. HowMany(stream, H) \in Nat /\ HowMany(front, H) \in Nat /\ HowMany(back, H) \in Nat
    BY <1>1, CountType
  <2>4. InPend(c, k)' = HowMany(back, H) /\ InStream(c, k)' = HowMany(stream \o front, H)
    BY <1>2 DEF InPend, InStream
  <2> QED
    BY <1>2, <2>1, <2>2, <2>3, <2>4 DEF InPend, InStream
<1> QED
  BY <1>4, <1>5

LEMMA DeliverSpaced ==
  ASSUME Inv, Inv', Carried, io \notin {"send", "sendclose"}, NEW c \in Accepted, Deliver(c),
         UNCHANGED stream
  PROVE  /\ pend = << >> /\ pend' = Fragments(NextRequest(c)) /\ NextRequest(c) \in Request
         /\ Spaced'
<1>1. pend = << >> /\ pend' = Fragments(NextRequest(c))
  BY DEF Carried, SendsPlaced, Deliver
<1>2. NextRequest(c) \in Request
  <2>1. Len(pend') = Parts /\ pend'[1] = [req |-> NextRequest(c), part |-> 1]
    BY <1>1, Domains DEF Fragments
  <2>2. pend'[1] \in Fragment
    BY <2>1, Domains DEF Inv, TypeOK, IOTypeOK
  <2> QED
    BY <2>1, <2>2 DEF Fragment
<1>3. stream \in Seq(Fragment) /\ stream \o pend = stream
  BY <1>1 DEF Inv, TypeOK, SockTypeOK
<1>4. SpacedOut(stream \o Fragments(NextRequest(c)))
  BY <1>2, <1>3, SpacedMore DEF Carried, Spaced
<1> QED
  BY <1>1, <1>2, <1>4 DEF Spaced

LEMMA ReadSpaced ==
  ASSUME Inv, Carried, NEW w \in Workers, WorkerRead(w)
  PROVE  Spaced'
<1>1. /\ stream \in Seq(Fragment) /\ pend \in Seq(Fragment) /\ UNCHANGED pend
      /\ stream' = SubSeq(stream, Taken + 1, Len(stream)) /\ Taken \in 0..Len(stream)
  BY Domains DEF WorkerRead, Taken, ioVars, Inv, TypeOK, IOTypeOK, SockTypeOK
<1>2. /\ stream' \in Seq(Fragment) /\ Len(stream') = Len(stream) - Taken
      /\ \A i \in 1..Len(stream') : stream'[i] = stream[i + Taken]
  BY <1>1
<1>3. /\ stream \o pend \in Seq(Fragment) /\ stream' \o pend \in Seq(Fragment)
      /\ Len(stream' \o pend) = Len(stream \o pend) - Taken
  BY <1>1, <1>2
<1>4. ASSUME NEW i \in 1..Len(stream' \o pend)
      PROVE  (stream' \o pend)[i] = (stream \o pend)[i + Taken]
  <2>1. Len(stream) \in Nat /\ Len(stream') \in Nat /\ Len(pend) \in Nat /\ Taken \in Nat
    BY <1>1, <1>2
  <2>2. /\ \A j \in 1..(Len(stream') + Len(pend)) : (stream' \o pend)[j] =
              IF j <= Len(stream') THEN stream'[j] ELSE pend[j - Len(stream')]
        /\ \A j \in 1..(Len(stream) + Len(pend)) : (stream \o pend)[j] =
              IF j <= Len(stream) THEN stream[j] ELSE pend[j - Len(stream)]
        /\ Len(stream' \o pend) = Len(stream') + Len(pend)
    BY <1>1, <1>2, ConcatProperties
  <2>3. i \in 1..(Len(stream') + Len(pend)) /\ i + Taken \in 1..(Len(stream) + Len(pend))
    BY <1>2, <2>1, <2>2
  <2>4. CASE i <= Len(stream')
    BY <1>2, <2>1, <2>2, <2>3, <2>4
  <2>5. CASE i > Len(stream')
    <3>1. i + Taken > Len(stream) /\ (i + Taken) - Len(stream) = i - Len(stream')
      BY <1>2, <2>1, <2>3, <2>5
    <3> QED
      BY <2>1, <2>2, <2>3, <2>5, <3>1
  <2> QED
    BY <2>1, <2>3, <2>4, <2>5
<1>5. SpacedOut(stream' \o pend)
  <2>1. PICK s \in Seq(Fragment), t \in Seq(Fragment) : s = stream \o pend /\ t = stream' \o pend
    BY <1>3
  <2>2. Taken \in Nat /\ Len(t) = Len(s) - Taken /\ \A i \in 1..Len(t) : t[i] = s[i + Taken]
    BY <1>1, <1>3, <1>4, <2>1
  <2>3. SpacedOut(s)
    BY <2>1 DEF Carried, Spaced
  <2>4. SpacedOut(t)
    BY <2>2, <2>3, SpacedShift
  <2> QED
    BY <2>1, <2>4
<1> QED
  BY <1>1, <1>5 DEF Spaced

LEMMA PlaceSpaced ==
  ASSUME Inv, Carried, WriteSome \/ WriteDone \/ WriteDoneClosing
  PROVE  /\ Spaced' /\ SendsPlaced'
         /\ \A c, k : InPend(c, k)' + InStream(c, k)' = InPend(c, k) + InStream(c, k)
<1>1. Room \in Int /\ Len(pend) \in Nat /\ pend \in Seq(Fragment)
  BY Domains DEF Room, Inv, TypeOK, IOTypeOK, SockTypeOK
<1>2. PICK n \in 0..Len(pend) : Place(n) /\ (WriteSome \/ n = Len(pend))
  <2>1. CASE WriteSome
    <3>1. Place(Room) /\ Room > 0 /\ Room < Len(pend)
      BY <2>1 DEF WriteSome, Place
    <3> QED
      BY <1>1, <2>1, <3>1
  <2>2. CASE WriteDone \/ WriteDoneClosing
    <3>1. Place(Len(pend))
      BY <2>2 DEF WriteDone, WriteDoneClosing
    <3> QED
      BY <1>1, <3>1
  <2> QED
    BY <2>1, <2>2
<1>3. /\ stream' \o pend' = stream \o pend
      /\ \A c, k : InPend(c, k)' + InStream(c, k)' = InPend(c, k) + InStream(c, k)
  BY <1>2, PlaceMoves
<1>4. Spaced'
  BY <1>3 DEF Carried, Spaced
<1>5. CASE WriteSome
  BY <1>3, <1>4, <1>5 DEF WriteSome, IOAt, SendsPlaced
<1>6. CASE n = Len(pend)
  <2>1. pend' = SubSeq(pend, Len(pend) + 1, Len(pend))
    BY <1>2, <1>6 DEF Place
  <2>2. pend' = << >>
    BY <1>1, <2>1, SubSeqEmpty
  <2> QED
    BY <1>3, <1>4, <2>2 DEF SendsPlaced
<1> QED
  BY <1>2, <1>3, <1>5, <1>6

LEMMA NextCarried == Inv /\ Inv' /\ Carried /\ [Next]_vars => Carried'
<1> SUFFICES ASSUME Inv, Inv', Carried, [Next]_vars
             PROVE  Carried'
  OBVIOUS
<1> USE DEF Carried
<1>1. CASE Client \/ SignalHandler \/ UNCHANGED vars
  <2>1. UNCHANGED <<io, phase, pend, stream, msg, ctlOpen, wpc, wreq>>
    BY <1>1
       DEF Client, ClientConnect, ClientSend, ClientFin, ClientReset, SignalHandler,
           serverVars, vars, ioVars, sockVars, ctlVars, workVars
  <2> QED
    BY <2>1, CarriedStable
<1>2. ASSUME NEW w \in Workers, Worker(w)
      PROVE  Carried'
  <2>1. UNCHANGED <<io, phase, pend, msg, ctlOpen>>
    BY <1>2
       DEF Worker, TestSignal, WorkerRead, WorkerReadFails, WorkerBroadcast, WorkerAck, ioVars,
           ctlVars
  <2>2. WorkersPlaced'
    <3>1. \A v \in Workers \ {w} : wpc'[v] = wpc[v] /\ wreq'[v] = wreq[v]
      BY <1>2
         DEF Worker, TestSignal, WorkerRead, WorkerReadFails, WorkerBroadcast, WorkerAck,
             workVars, Inv, TypeOK, WorkTypeOK
    <3>2. wpc'[w] # "work" => wreq'[w] = NoReq
      BY <1>2
         DEF Worker, TestSignal, WorkerRead, WorkerReadFails, WorkerBroadcast, WorkerAck,
             WorkerAt, workVars, Inv, TypeOK, WorkTypeOK, WorkersPlaced
    <3> QED
      BY <3>1, <3>2 DEF WorkersPlaced
  <2>3. Spaced'
    <3>1. CASE WorkerRead(w)
      BY <3>1, ReadSpaced
    <3>2. CASE ~WorkerRead(w)
      <4>1. UNCHANGED <<stream, pend>>
        BY <1>2, <2>1, <3>2
           DEF Worker, TestSignal, WorkerReadFails, WorkerBroadcast, WorkerAck, sockVars
      <4> QED
        BY <4>1, CarriedStable
    <3> QED
      BY <3>1, <3>2
  <2> QED
    BY <2>1, <2>2, <2>3, CarriedStable
<1>3. CASE IOThread
  <2>1. WorkersPlaced'
    <3>1. UNCHANGED <<wpc, wreq>>
      BY <1>3
         DEF IOThread, Select, HandleCtlSock, SkipCtlSock, OnWorkComplete, VisitListener,
             VisitRead, VisitWrite, StartClosePass, KeepConn, CloseConn, CloseConnDelivering,
             WriteSome, WriteDone, WriteDoneClosing, EndClosePass, FreeCtl, CloseSock0,
             CloseSock1, workVars
    <3> QED
      BY <3>1, CarriedStable
  <2>2. FreedCtl'
    <3>1. CASE EndClosePass
      BY <3>1 DEF EndClosePass, AfterPass, FreedCtl, ctlVars, Inv, TypeOK, IOTypeOK
    <3>2. CASE FreeCtl \/ CloseSock0 \/ CloseSock1
      BY <3>2 DEF FreeCtl, CloseSock0, CloseSock1, IOAt, FreedCtl, ctlVars
    <3>3. CASE ~EndClosePass /\ ~FreeCtl /\ ~CloseSock0 /\ ~CloseSock1
      <4>1. phase' \in {phase, "run", "last"} /\ UNCHANGED ctlOpen
        BY <1>3, <3>3
           DEF IOThread, Select, HandleCtlSock, SkipCtlSock, OnWorkComplete, VisitListener,
               VisitRead, VisitWrite, StartClosePass, KeepConn, CloseConn, CloseConnDelivering,
               WriteSome, WriteDone, WriteDoneClosing, ctlVars
      <4>2. io' \notin {"sock0", "sock1", "returned"}
        BY <1>3, <3>3
           DEF IOThread, Select, HandleCtlSock, SkipCtlSock, OnWorkComplete, VisitListener,
               VisitRead, Recv, RecvNothing, VisitWrite, StartClosePass, KeepConn, CloseConn,
               CloseConnDelivering, WriteSome, WriteDone, WriteDoneClosing, IOAt
      <4> QED
        BY <4>1, <4>2 DEF FreedCtl
    <3> QED
      BY <3>1, <3>2, <3>3
  <2>3. MsgPlaced'
    <3>1. CASE HandleCtlSock \/ OnWorkComplete
      BY <3>1 DEF HandleCtlSock, OnWorkComplete, MsgPlaced
    <3>2. CASE ~HandleCtlSock /\ ~OnWorkComplete
      <4>1. io # "callback" /\ UNCHANGED msg
        BY <1>3, <3>2
           DEF IOThread, Select, SkipCtlSock, VisitListener, VisitRead, VisitWrite,
               StartClosePass, KeepConn, CloseConn, CloseConnDelivering, WriteSome, WriteDone,
               WriteDoneClosing, EndClosePass, FreeCtl, CloseSock0, CloseSock1, IOAt
      <4> QED
        BY <4>1 DEF MsgPlaced
    <3> QED
      BY <3>1, <3>2
  <2>4. CASE WriteSome \/ WriteDone \/ WriteDoneClosing
    BY <2>1, <2>2, <2>3, <2>4, PlaceSpaced
  <2>5. ASSUME NEW c \in Accepted, io \notin {"send", "sendclose"}, Deliver(c),
               io' \in {"send", "sendclose"}, UNCHANGED stream
        PROVE  SendsPlaced' /\ Spaced'
    BY <2>5, DeliverSpaced DEF SendsPlaced
  <2>6. ASSUME io \notin {"send", "sendclose"}, UNCHANGED <<stream, pend>>
        PROVE  SendsPlaced' /\ Spaced'
    BY <2>6, CarriedStable DEF SendsPlaced
  <2>7. ASSUME NEW c \in Accepted, VisitRead(c)
        PROVE  SendsPlaced' /\ Spaced'
    <3>1. io = "read" /\ UNCHANGED stream
      BY <2>7 DEF VisitRead, IOAt, sockVars
    <3> QED
      BY <2>7, <3>1, <2>5, <2>6 DEF VisitRead, Recv, RecvNothing
  <2>8. CASE CloseConnDelivering
    <3>1. Head(todo) \in Conns /\ Head(todo) # Listener
      BY <2>8 DEF CloseConnDelivering, Inv, TypeOK, IOTypeOK, Consistent, ListenerSilent
    <3>2. Head(todo) \in Accepted
      BY <3>1, Domains
    <3> QED
      BY <2>8, <3>2, <2>5, <2>1, <2>2, <2>3 DEF CloseConnDelivering, IOAt, sockVars
  <2>9. CASE CloseSock1
    <3>1. pend = << >> /\ pend' = << >> /\ stream' = << >>
      BY <2>9 DEF CloseSock1, IOAt, SendsPlaced
    <3>2. stream' \o pend' = << >>
      BY <3>1
    <3>3. Spaced'
      BY <3>2 DEF Spaced, SpacedOut
    <3> QED
      BY <2>1, <2>2, <2>3, <3>1, <3>3 DEF SendsPlaced
  <2>10. CASE \/ Select \/ HandleCtlSock \/ SkipCtlSock \/ OnWorkComplete \/ VisitListener
              \/ StartClosePass \/ KeepConn \/ CloseConn \/ EndClosePass \/ FreeCtl \/ CloseSock0
              \/ \E c \in Accepted : VisitWrite(c)
    <3>1. io \notin {"send", "sendclose"} /\ UNCHANGED <<stream, pend>>
      BY <2>10
         DEF Select, HandleCtlSock, SkipCtlSock, OnWorkComplete, VisitListener, VisitWrite,
             StartClosePass, KeepConn, CloseConn, EndClosePass, FreeCtl, CloseSock0, IOAt, sockVars
    <3> QED
      BY <3>1, <2>6, <2>1, <2>2, <2>3
  <2> QED
    BY <1>3, <2>1, <2>2, <2>3, <2>4, <2>7, <2>8, <2>9, <2>10 DEF IOThread
<1> QED
  BY <1>1, <1>2, <1>3 DEF Next

LEMMA CarriedInvariance == SafeSpec => []Carried
<1>1. Init => Carried
  <2> SUFFICES ASSUME Init
               PROVE  Carried
    OBVIOUS
  <2>1. stream \o pend = << >>
    BY DEF Init
  <2> QED
    BY <2>1
       DEF Init, Carried, SendsPlaced, MsgPlaced, WorkersPlaced, Spaced, SpacedOut, FreedCtl
<1> QED
  BY <1>1, NextCarried, Invariance, PTL DEF SafeSpec
-------------------------------------------------------------------------------
(* Each request once *)

\* One copy of what was delivered at most, none of what was not; and one at least
\* while there is somebody to carry it.
OnceAt(c, k) ==
    /\ Copies(c, k) <= (IF k <= delivered[c] THEN 1 ELSE 0)
    /\ ctlOpen /\ ~crashed /\ k <= delivered[c] => Copies(c, k) >= 1
Once == \A c \in Accepted, k \in 1..MaxReqs : OnceAt(c, k)

\* A step that delivers nothing new keeps this if it makes no copy, and loses none
\* but when the pair is closed or the process dies.
LEMMA OnceKept ==
  ASSUME Inv, Inv', Once, NEW c \in Accepted, NEW k \in 1..MaxReqs, UNCHANGED delivered,
         Places(c, k)' <= Places(c, k),
         ctlOpen' /\ ~crashed' =>
            ctlOpen /\ ~crashed /\ Places(c, k)' = Places(c, k)
  PROVE  OnceAt(c, k)'
<1>1. Copies(c, k) = Places(c, k) /\ Copies(c, k)' = Places(c, k)'
  BY CopiesCounted
<1>2. Places(c, k) \in Nat /\ Places(c, k)' \in Nat
  BY CopiesCounted DEF Places
<1>3. OnceAt(c, k)
  BY DEF Once
<1> QED
  BY <1>1, <1>2, <1>3 DEF OnceAt

LEMMA DeliverOnce ==
  ASSUME Inv, Inv', Once, Carried, io \notin {"send", "sendclose"}, NEW d \in Accepted, Deliver(d),
         UNCHANGED <<stream, wreq, ctl, msg, handled, ctlOpen, crashed>>,
         NEW c \in Accepted, NEW k \in 1..MaxReqs
  PROVE  OnceAt(c, k)'
<1> DEFINE r == NextRequest(d)
<1>1. pend = << >> /\ pend' = Fragments(r) /\ r \in Request
  BY DeliverSpaced
<1>2. InPend(c, k) = 0
  BY <1>1, CountEmpty DEF InPend
<1>3. InPend(c, k)' = IF c = d /\ k = delivered[d] + 1 THEN 1 ELSE 0
  <2>1. /\ Fragments(r) \in Seq(Fragment) /\ Len(Fragments(r)) = Parts /\ Fragments(r) # << >>
        /\ Fragments(r)[1] = [req |-> r, part |-> 1]
        /\ \A i \in 2..Len(Fragments(r)) : Fragments(r)[i].part # 1
    BY <1>1, FragmentsType, Domains DEF Fragments
  <2>2. \A i \in 2..Len(Fragments(r)) : Fragments(r)[i] \notin HeadOf(c, k)
    BY <2>1 DEF HeadOf
  <2>3. HowMany(Fragments(r), HeadOf(c, k)) = IF Fragments(r)[1] \in HeadOf(c, k) THEN 1 ELSE 0
    BY <2>1, <2>2, CountFirst
  <2>4. Fragments(r)[1] \in Fragment
    BY <1>1, <2>1, Domains DEF Fragment
  <2>5. Fragments(r)[1] \in HeadOf(c, k) <=> c = d /\ k = delivered[d] + 1
    BY <2>1, <2>4 DEF HeadOf, NextRequest
  <2> QED
    BY <1>1, <2>3, <2>5 DEF InPend
<1>4. Places(c, k)' = Places(c, k) + InPend(c, k)'
  BY <1>2, PlacesKept, CopiesCounted DEF Places
<1>5. /\ Copies(c, k) = Places(c, k) /\ Copies(c, k)' = Places(c, k)'
      /\ Places(c, k) \in Nat /\ Places(c, k)' \in Nat
  BY CopiesCounted DEF Places
<1>6. /\ delivered'[c] = IF c = d THEN delivered[d] + 1 ELSE delivered[c]
      /\ delivered[c] \in Nat
  <2>1. delivered \in [Conns -> 0..MaxReqs] /\ c \in Conns /\ d \in Conns /\ MaxReqs \in Nat
    BY Domains DEF Inv, TypeOK, ConnTypeOK
  <2>2. delivered' = [delivered EXCEPT ![d] = @ + 1]
    BY DEF Deliver
  <2> QED
    BY <2>1, <2>2
<1>7. OnceAt(c, k)
  BY DEF Once
<1> QED
  BY <1>3, <1>4, <1>5, <1>6, <1>7 DEF OnceAt

LEMMA PlaceOnce ==
  ASSUME Inv, Inv', Once, Carried, WriteSome \/ WriteDone \/ WriteDoneClosing,
         NEW c \in Accepted, NEW k \in 1..MaxReqs
  PROVE  OnceAt(c, k)'
<1>1. InPend(c, k)' + InStream(c, k)' = InPend(c, k) + InStream(c, k)
  BY PlaceSpaced
<1>2. UNCHANGED <<wreq, ctl, msg, handled, delivered, ctlOpen, crashed>>
  BY DEF WriteSome, WriteDone, WriteDoneClosing, Forget, connVars, ctlVars, workVars, procVars
<1>3. Places(c, k)' = Places(c, k)
  BY <1>1, <1>2, PlacesKept, CopiesCounted DEF Places
<1>4. Places(c, k) \in Nat
  BY CopiesCounted DEF Places
<1> QED
  BY <1>2, <1>3, <1>4, OnceKept

LEMMA CtlOnce ==
  ASSUME Inv, Inv', Once, Carried, HandleCtlSock, NEW c \in Accepted, NEW k \in 1..MaxReqs
  PROVE  OnceAt(c, k)'
<1>1. /\ ctl # << >> /\ ctl \in Seq(Request) /\ msg' = Head(ctl) /\ ctl' = Tail(ctl) /\ msg = NoReq
      /\ UNCHANGED <<pend, stream, wreq, handled, delivered, ctlOpen, crashed>>
  BY DEF HandleCtlSock, IOAt, Inv, TypeOK, CtlTypeOK, Consistent, CtlReady, Carried, MsgPlaced,
         connVars, sockVars, workVars, procVars
<1>2. InMsg(c, k) = 0
  BY <1>1, Domains DEF InMsg, NoReq
<1>3. InCtl(c, k) = InCtl(c, k)' + (IF Head(ctl) \in ReqOf(c, k) THEN 1 ELSE 0)
  BY <1>1, CountTail DEF InCtl
<1>4. InMsg(c, k)' = IF Head(ctl) \in ReqOf(c, k) THEN 1 ELSE 0
  <2>1. Head(ctl) \in Request
    BY <1>1
  <2> QED
    BY <1>1, <2>1 DEF InMsg, ReqOf
<1>5. Places(c, k)' = Places(c, k)
  BY <1>1, <1>2, <1>3, <1>4, PlacesKept, CopiesCounted DEF Places
<1>6. Places(c, k) \in Nat
  BY CopiesCounted DEF Places
<1> QED
  BY <1>1, <1>5, <1>6, OnceKept

\* The history may hold the request already, which is why one copy at most matters.
LEMMA CallbackOnce ==
  ASSUME Inv, Inv', Once, OnWorkComplete, NEW c \in Accepted, NEW k \in 1..MaxReqs
  PROVE  OnceAt(c, k)'
<1>1. /\ handled' = handled \cup {<<msg.conn, msg.rank>>} /\ msg' = NoReq
      /\ UNCHANGED <<pend, stream, wreq, ctl, delivered, ctlOpen, crashed>>
  BY DEF OnWorkComplete, sockVars, ctlVars, workVars
<1>2. InMsg(c, k)' = 0
  BY <1>1, Domains DEF InMsg, NoReq
<1>3. Copies(c, k) = Places(c, k) /\ Copies(c, k) <= 1 /\ Places(c, k) \in Nat
  BY CopiesCounted DEF Once, OnceAt, Places
<1>4. InMsg(c, k) + InHandled(c, k) <= 1
  BY <1>3, CopiesCounted DEF Places
<1>5. InHandled(c, k)' = InMsg(c, k) + InHandled(c, k)
  <2>1. CASE msg.conn = c /\ msg.rank = k
    <3>1. <<c, k>> \in handled'
      BY <1>1, <2>1
    <3>2. InMsg(c, k) = 1
      BY <2>1 DEF InMsg
    <3> QED
      BY <1>4, <3>1, <3>2 DEF InHandled
  <2>2. CASE ~(msg.conn = c /\ msg.rank = k)
    <3>1. <<c, k>> \in handled' <=> <<c, k>> \in handled
      BY <1>1, <2>2
    <3>2. InMsg(c, k) = 0
      BY <2>2 DEF InMsg
    <3> QED
      BY <3>1, <3>2 DEF InHandled
  <2> QED
    BY <2>1, <2>2
<1>6. Places(c, k)' = Places(c, k)
  BY <1>1, <1>2, <1>5, PlacesKept, CopiesCounted DEF Places
<1> QED
  BY <1>1, <1>3, <1>6, OnceKept

LEMMA CloseOnce ==
  ASSUME Inv, Inv', Once, Carried, FreeCtl \/ CloseSock1, NEW c \in Accepted, NEW k \in 1..MaxReqs
  PROVE  OnceAt(c, k)'
<1>1. ~ctlOpen' /\ UNCHANGED <<pend, wreq, msg, handled, delivered>>
  BY DEF FreeCtl, CloseSock1, IOAt, Carried, FreedCtl, connVars, ctlVars, workVars, procVars
<1>2. \/ ctl' = << >> /\ UNCHANGED stream
      \/ stream' = << >> /\ UNCHANGED ctl
  BY DEF FreeCtl, CloseSock1, sockVars, ctlVars
<1>3. InCtl(c, k)' + InStream(c, k)' <= InCtl(c, k) + InStream(c, k)
  <2>1. CASE ctl' = << >> /\ UNCHANGED stream
    <3>1. InCtl(c, k)' = 0
      BY <2>1, CountEmpty DEF InCtl
    <3> QED
      BY <2>1, <3>1, PlacesKept, CopiesCounted
  <2>2. CASE stream' = << >> /\ UNCHANGED ctl
    <3>1. InStream(c, k)' = 0
      BY <2>2, CountEmpty DEF InStream
    <3> QED
      BY <2>2, <3>1, PlacesKept, CopiesCounted
  <2> QED
    BY <1>2, <2>1, <2>2
<1>4. Places(c, k)' <= Places(c, k)
  BY <1>1, <1>3, PlacesKept, CopiesCounted DEF Places
<1> QED
  BY <1>1, <1>4, OnceKept

\* What a worker that reads takes from the stream holds one head: its first fragment.
LEMMA TakenHead ==
  ASSUME Inv, Carried, stream # << >>, Head(stream).part = 1, NEW c, NEW k
  PROVE  InStream(c, k) = HowMany(SubSeq(stream, Taken + 1, Len(stream)), HeadOf(c, k))
                            + (IF Head(stream) \in HeadOf(c, k) THEN 1 ELSE 0)
<1> DEFINE front == SubSeq(stream, 1, Taken)
           back  == SubSeq(stream, Taken + 1, Len(stream))
<1>1. /\ stream \in Seq(Fragment) /\ pend \in Seq(Fragment) /\ Head(stream) = stream[1]
      /\ Len(stream) \in Nat /\ Len(stream) >= 1 /\ Parts \in Nat \ {0}
  BY Domains, EmptySeq DEF Inv, TypeOK, IOTypeOK, SockTypeOK
<1>2. Taken \in 1..Len(stream) /\ Taken <= Parts
  BY <1>1 DEF Taken
<1>3. /\ front \in Seq(Fragment) /\ back \in Seq(Fragment)
      /\ HowMany(stream, HeadOf(c, k)) = HowMany(front, HeadOf(c, k)) + HowMany(back, HeadOf(c, k))
      /\ HowMany(back, HeadOf(c, k)) \in Nat
  <2>1. Taken \in 0..Len(stream)
    BY <1>2
  <2> QED
    BY <1>1, <2>1, CountSplit, CountType
<1>4. Len(front) = Taken /\ \A i \in 1..Taken : front[i] = stream[i]
  BY <1>1, <1>2
<1> HIDE DEF front
<1>5. \A j \in 2..Taken : stream[j].part # 1
  <2>1. /\ Len(stream \o pend) = Len(stream) + Len(pend) /\ Len(pend) \in Nat
        /\ \A i \in 1..Len(stream) : (stream \o pend)[i] = stream[i]
    BY <1>1
  <2>2. (stream \o pend)[1].part = 1 /\ 1 \in 1..Len(stream \o pend)
    BY <1>1, <2>1
  <2>3. \A j \in (1 + 1)..(1 + Parts - 1) : (stream \o pend)[j].part # 1
    BY <2>2 DEF Carried, Spaced, SpacedOut
  <2>4. ASSUME NEW j \in 2..Taken
        PROVE  stream[j].part # 1
    <3>1. j \in (1 + 1)..(1 + Parts - 1) /\ j \in 1..Len(stream)
      BY <1>1, <1>2
    <3> QED
      BY <2>1, <2>3, <3>1
  <2> QED
    BY <2>4
<1>6. HowMany(front, HeadOf(c, k)) = IF front[1] \in HeadOf(c, k) THEN 1 ELSE 0
  <2>1. front # << >> /\ \A j \in 2..Len(front) : front[j] \notin HeadOf(c, k)
    BY <1>2, <1>4, <1>5 DEF HeadOf
  <2> QED
    BY <1>3, <2>1, CountFirst
<1>7. front[1] = Head(stream)
  BY <1>1, <1>2, <1>4
<1>8. HowMany(front, HeadOf(c, k)) = IF Head(stream) \in HeadOf(c, k) THEN 1 ELSE 0
  BY <1>6, <1>7
<1> HIDE DEF back
<1>9. InStream(c, k) = HowMany(back, HeadOf(c, k))
                         + (IF Head(stream) \in HeadOf(c, k) THEN 1 ELSE 0)
  BY <1>3, <1>8 DEF InStream
<1> QED
  BY <1>9 DEF back

\* A worker's hands, when it takes a request and when it passes it on.
LEMMA HoldersGrow ==
  ASSUME Inv, Carried, NEW w \in Workers, wpc[w] # "work", NEW r \in Request,
         wreq' = [wreq EXCEPT ![w] = r], NEW c \in Accepted, NEW k
  PROVE  InWorkers(c, k)' = InWorkers(c, k) + (IF r \in ReqOf(c, k) THEN 1 ELSE 0)
<1>1. wreq[w] = NoReq /\ w \notin Holders(c, k)
  BY Domains DEF Carried, WorkersPlaced, Holders, NoReq
<1>2. IsFiniteSet(Holders(c, k))
  BY ConstantsAssumption, FS_Subset DEF Holders
<1>3. Holders(c, k)' = IF r \in ReqOf(c, k) THEN Holders(c, k) \cup {w} ELSE Holders(c, k)
  BY <1>1 DEF Inv, TypeOK, WorkTypeOK, Holders, ReqOf
<1>4. Cardinality(Holders(c, k) \cup {w}) = Cardinality(Holders(c, k)) + 1
  BY <1>1, <1>2, FS_AddElement
<1>5. Cardinality(Holders(c, k)) \in Nat
  BY <1>2, FS_CardinalityType
<1> QED
  BY <1>3, <1>4, <1>5 DEF InWorkers

LEMMA HoldersShrink ==
  ASSUME Inv, NEW w \in Workers, wreq[w] \in Request,
         wreq' = [wreq EXCEPT ![w] = NoReq], NEW c \in Accepted, NEW k
  PROVE  InWorkers(c, k) = InWorkers(c, k)' + (IF wreq[w] \in ReqOf(c, k) THEN 1 ELSE 0)
<1>1. IsFiniteSet(Holders(c, k))
  BY ConstantsAssumption, FS_Subset DEF Holders
<1>2. Holders(c, k)' = Holders(c, k) \ {w}
  BY Domains DEF Inv, TypeOK, WorkTypeOK, Holders, NoReq
<1>3. w \in Holders(c, k) <=> wreq[w] \in ReqOf(c, k)
  BY DEF Holders, ReqOf
<1>4. w \in Holders(c, k) => Cardinality(Holders(c, k) \ {w}) = Cardinality(Holders(c, k)) - 1
  BY <1>1, FS_RemoveElement
<1>5. w \notin Holders(c, k) => Holders(c, k) \ {w} = Holders(c, k)
  OBVIOUS
<1>6. Cardinality(Holders(c, k)) \in Nat
  BY <1>1, FS_CardinalityType
<1>7. CASE w \in Holders(c, k)
  BY <1>2, <1>3, <1>4, <1>6, <1>7 DEF InWorkers
<1>8. CASE w \notin Holders(c, k)
  BY <1>2, <1>3, <1>5, <1>6, <1>8 DEF InWorkers
<1> QED
  BY <1>7, <1>8

LEMMA ReadOnce ==
  ASSUME Inv, Inv', Once, Carried, NEW w \in Workers, WorkerRead(w),
         NEW c \in Accepted, NEW k \in 1..MaxReqs
  PROVE  OnceAt(c, k)'
<1>1. /\ stream # << >> /\ stream \in Seq(Fragment) /\ wpc[w] = "recv" /\ ~crashed
      /\ stream' = SubSeq(stream, Taken + 1, Len(stream))
      /\ UNCHANGED <<pend, ctl, msg, handled, delivered, ctlOpen>>
  BY DEF WorkerRead, WorkerAt, Inv, TypeOK, SockTypeOK, ioVars, connVars, ctlVars
<1>2. CASE /\ Head(stream).part = 1
           /\ wreq' = [wreq EXCEPT ![w] = Head(stream).req] /\ UNCHANGED crashed
  <2>1. Head(stream) \in Fragment /\ Head(stream).req \in Request
    <3>1. Head(stream) \in Fragment
      BY <1>1
    <3> QED
      BY <3>1 DEF Fragment
  <2>2. InStream(c, k) = InStream(c, k)' + (IF Head(stream) \in HeadOf(c, k) THEN 1 ELSE 0)
    BY <1>1, <1>2, TakenHead DEF InStream
  <2>3. InWorkers(c, k)' = InWorkers(c, k)
                             + (IF Head(stream).req \in ReqOf(c, k) THEN 1 ELSE 0)
    BY <1>1, <1>2, <2>1, HoldersGrow
  <2>4. Head(stream) \in HeadOf(c, k) <=> Head(stream).req \in ReqOf(c, k)
    BY <1>2, <2>1 DEF HeadOf, ReqOf
  <2>5. InStream(c, k)' + InWorkers(c, k)' = InStream(c, k) + InWorkers(c, k)
    BY <2>2, <2>3, <2>4, CopiesCounted
  <2>6. /\ InPend(c, k)' = InPend(c, k) /\ InCtl(c, k)' = InCtl(c, k)
        /\ InMsg(c, k)' = InMsg(c, k) /\ InHandled(c, k)' = InHandled(c, k)
    BY <1>1, PlacesKept
  <2>7. Places(c, k)' = Places(c, k) /\ Places(c, k) \in Nat
    BY <2>5, <2>6, CopiesCounted DEF Places
  <2> QED
    BY <1>1, <1>2, <2>7, OnceKept
<1>3. CASE crashed' /\ UNCHANGED workVars
  <2>1. Taken \in 0..Len(stream)
    BY <1>1, Domains DEF Taken
  <2>2. InStream(c, k)' <= InStream(c, k)
    <3>1. /\ SubSeq(stream, 1, Taken) \in Seq(Fragment)
          /\ HowMany(stream, HeadOf(c, k)) = HowMany(SubSeq(stream, 1, Taken), HeadOf(c, k))
                                               + HowMany(stream', HeadOf(c, k))
      BY <1>1, <2>1, CountSplit
    <3>2. HowMany(SubSeq(stream, 1, Taken), HeadOf(c, k)) \in Nat
      BY <3>1, CountType
    <3> QED
      BY <3>1, <3>2, CopiesCounted DEF InStream
  <2>3. /\ InPend(c, k)' = InPend(c, k) /\ InWorkers(c, k)' = InWorkers(c, k)
        /\ InCtl(c, k)' = InCtl(c, k) /\ InMsg(c, k)' = InMsg(c, k)
        /\ InHandled(c, k)' = InHandled(c, k)
    BY <1>1, <1>3, PlacesKept DEF workVars
  <2>4. Places(c, k)' <= Places(c, k)
    BY <2>2, <2>3, CopiesCounted DEF Places
  <2> QED
    BY <1>1, <1>3, <2>4, OnceKept
<1> QED
  BY <1>2, <1>3 DEF WorkerRead

LEMMA BroadcastOnce ==
  ASSUME Inv, Inv', Once, NEW w \in Workers, WorkerBroadcast(w),
         NEW c \in Accepted, NEW k \in 1..MaxReqs
  PROVE  OnceAt(c, k)'
<1>1. /\ wreq[w] \in Request /\ ctl \in Seq(Request) /\ wreq' = [wreq EXCEPT ![w] = NoReq]
      /\ UNCHANGED <<pend, stream, msg, handled, delivered, ctlOpen, crashed>>
  BY DEF WorkerBroadcast, WorkerAt, Inv, TypeOK, CtlTypeOK, Consistent, WorkersHold, ioVars,
         connVars, sockVars, procVars
<1>2. InWorkers(c, k) = InWorkers(c, k)' + (IF wreq[w] \in ReqOf(c, k) THEN 1 ELSE 0)
  BY <1>1, HoldersShrink
<1>3. /\ InPend(c, k)' = InPend(c, k) /\ InStream(c, k)' = InStream(c, k)
      /\ InMsg(c, k)' = InMsg(c, k) /\ InHandled(c, k)' = InHandled(c, k)
  BY <1>1, PlacesKept
<1>4. CASE ctlOpen
  <2>1. ctl' = Append(ctl, wreq[w])
    BY <1>4 DEF WorkerBroadcast, CtlUsable
  <2>2. InCtl(c, k)' = InCtl(c, k) + (IF wreq[w] \in ReqOf(c, k) THEN 1 ELSE 0)
    BY <1>1, <2>1, CountAppend DEF InCtl
  <2>3. InCtl(c, k)' + InWorkers(c, k)' = InCtl(c, k) + InWorkers(c, k)
    BY <1>2, <2>2, CopiesCounted
  <2>4. Places(c, k)' = Places(c, k) /\ Places(c, k) \in Nat
    BY <1>3, <2>3, CopiesCounted DEF Places
  <2> QED
    BY <1>1, <2>4, OnceKept
<1>5. CASE ~ctlOpen
  <2>1. InCtl(c, k)' = InCtl(c, k)
    BY <1>5, PlacesKept DEF WorkerBroadcast, CtlUsable
  <2>2. InWorkers(c, k)' <= InWorkers(c, k)
    BY <1>2, CopiesCounted
  <2>3. Places(c, k)' <= Places(c, k)
    BY <1>3, <2>1, <2>2, CopiesCounted DEF Places
  <2> QED
    BY <1>1, <1>5, <2>3, OnceKept
<1> QED
  BY <1>4, <1>5

LEMMA NextOnce == Inv /\ Inv' /\ Carried /\ Once /\ [Next]_vars => Once'
<1> SUFFICES ASSUME Inv, Inv', Carried, Once, [Next]_vars,
                    NEW c \in Accepted, NEW k \in 1..MaxReqs
             PROVE  OnceAt(c, k)'
  BY DEF Once
\* Steps that touch none of the places.
<1>1. ASSUME UNCHANGED <<pend, stream, wreq, ctl, msg, handled, delivered, ctlOpen>>,
             ~crashed' => ~crashed
      PROVE  OnceAt(c, k)'
  <2>1. Places(c, k)' = Places(c, k) /\ Places(c, k) \in Nat
    BY <1>1, PlacesKept, CopiesCounted DEF Places
  <2> QED
    BY <1>1, <2>1, OnceKept
<1>2. CASE Client \/ SignalHandler \/ UNCHANGED vars
  BY <1>1, <1>2
     DEF Client, ClientConnect, ClientSend, ClientFin, ClientReset, SignalHandler, serverVars,
         vars, ioVars, connVars, sockVars, ctlVars, workVars, procVars
<1>3. ASSUME NEW w \in Workers, TestSignal(w) \/ WorkerReadFails(w) \/ WorkerAck(w)
      PROVE  OnceAt(c, k)'
  BY <1>1, <1>3
     DEF TestSignal, WorkerReadFails, WorkerAck, ioVars, connVars, sockVars, ctlVars, workVars,
         procVars
<1>4. ASSUME NEW w \in Workers, WorkerRead(w) \/ WorkerBroadcast(w)
      PROVE  OnceAt(c, k)'
  BY <1>4, ReadOnce, BroadcastOnce
<1>5. ASSUME NEW d \in Accepted, VisitRead(d)
      PROVE  OnceAt(c, k)'
  <2>1. /\ io = "read"
        /\ UNCHANGED <<stream, wreq, ctl, msg, handled, ctlOpen, crashed>>
        /\ Deliver(d) \/ UNCHANGED <<pend, delivered>>
    BY <1>5 DEF VisitRead, Recv, RecvNothing, IOAt, sockVars, ctlVars, workVars, procVars
  <2> QED
    BY <1>1, <2>1, DeliverOnce
<1>6. CASE CloseConnDelivering
  <2>1. Head(todo) \in Conns /\ Head(todo) # Listener
    BY <1>6 DEF CloseConnDelivering, Inv, TypeOK, IOTypeOK, Consistent, ListenerSilent
  <2>2. Head(todo) \in Accepted
    BY <2>1, Domains
  <2>3. /\ io = "close" /\ Deliver(Head(todo))
        /\ UNCHANGED <<stream, wreq, ctl, msg, handled, ctlOpen, crashed>>
    BY <1>6 DEF CloseConnDelivering, IOAt, sockVars, ctlVars, workVars, procVars
  <2> QED
    BY <2>2, <2>3, DeliverOnce
<1>7. CASE \/ WriteSome \/ WriteDone \/ WriteDoneClosing \/ HandleCtlSock \/ OnWorkComplete
           \/ FreeCtl \/ CloseSock1
  BY <1>7, PlaceOnce, CtlOnce, CallbackOnce, CloseOnce
<1>8. CASE \/ Select \/ SkipCtlSock \/ VisitListener \/ \E d \in Accepted : VisitWrite(d)
           \/ StartClosePass \/ KeepConn \/ CloseConn \/ EndClosePass \/ CloseSock0
  BY <1>1, <1>8
     DEF Select, SkipCtlSock, VisitListener, VisitWrite, StartClosePass, KeepConn, CloseConn,
         Forget, EndClosePass, CloseSock0, connVars, sockVars, ctlVars, workVars, procVars
<1> QED
  BY <1>2, <1>3, <1>4, <1>5, <1>6, <1>7, <1>8 DEF Next, IOThread, Worker

LEMMA OnceInvariance == SafeSpec => []Once
<1>1. Init => Once
  <2> SUFFICES ASSUME Init, NEW c \in Accepted, NEW k \in 1..MaxReqs
               PROVE  OnceAt(c, k)
    BY DEF Once
  <2>1. InPend(c, k) = 0 /\ InStream(c, k) = 0 /\ InCtl(c, k) = 0
    BY CountEmpty DEF Init, InPend, InStream, InCtl
  <2>2. Holders(c, k) = {}
    BY Domains DEF Init, Holders, NoReq
  <2>3. InWorkers(c, k) = 0
    BY <2>2, FS_EmptySet DEF InWorkers
  <2>4. InMsg(c, k) = 0 /\ InHandled(c, k) = 0 /\ delivered[c] = 0
    BY Domains DEF Init, NoReq, InMsg, InHandled
  <2>5. Copies(c, k) = Places(c, k)
    BY InitInv, CopiesInt
  <2>6. Copies(c, k) = 0
    BY <2>1, <2>3, <2>4, <2>5 DEF Places
  <2> QED
    BY <2>4, <2>6 DEF OnceAt
<1>2. Inv /\ Inv' /\ Carried /\ Once /\ [Next]_vars => Once'
  BY NextOnce
<1> QED
  BY <1>1, <1>2, Invariance, CarriedInvariance, PTL DEF SafeSpec

\* The workers share one stream and one ctl pair, and one fragment of a request may
\* be read by another worker than the next: still no two workers take the same
\* request, and none is handled a second time.
THEOREM NotTwice == SafeSpec => []NoRequestTwice
<1>1. Inv /\ Once => NoRequestTwice
  <2> SUFFICES ASSUME Inv, Once, NEW c \in Accepted, NEW k \in 1..MaxReqs
               PROVE  Copies(c, k) <= 1
    BY DEF NoRequestTwice
  <2>1. Copies(c, k) <= (IF k <= delivered[c] THEN 1 ELSE 0)
    BY DEF Once, OnceAt
  <2>2. Copies(c, k) \in Int
    BY CopiesInt
  <2> QED
    BY <2>1, <2>2
<1> QED
  BY <1>1, Invariance, OnceInvariance, PTL

\* A request that ev_handler() was given is somewhere on its way, or its callback
\* has run, until the manager closes its pair or the process dies.
THEOREM NotLost == SafeSpec => []NoRequestLost
<1>1. Inv /\ Once => NoRequestLost
  <2> SUFFICES ASSUME Inv, Once, ctlOpen, ~crashed, NEW c \in Accepted, NEW k \in 1..delivered[c]
               PROVE  Copies(c, k) >= 1
    BY DEF NoRequestLost
  <2>1. delivered[c] \in 0..MaxReqs /\ MaxReqs \in Nat
    BY Domains DEF Inv, TypeOK, ConnTypeOK
  <2>2. k \in 1..MaxReqs /\ k <= delivered[c]
    BY <2>1
  <2> QED
    BY <2>2 DEF Once, OnceAt
<1> QED
  BY <1>1, Invariance, OnceInvariance, PTL

(* When the write on sock[0] never returns *)

LEMMA OneOfThem ==
  ASSUME NEW T, IsFiniteSet(T), NEW x \in T
  PROVE  Cardinality(T) \in Nat /\ Cardinality(T) >= 1
<1>1. Cardinality(T) \in Nat /\ Cardinality(T) # 0
  BY FS_CardinalityType, FS_EmptySet
<1> QED
  BY <1>1

\* Two elements of a finite set count for two.
LEMMA TwoOfThem ==
  ASSUME NEW T, IsFiniteSet(T), NEW x \in T, NEW y \in T, x # y
  PROVE  Cardinality(T) \in Nat /\ Cardinality(T) >= 2
<1>1. IsFiniteSet({x}) /\ Cardinality({x}) = 1
  BY FS_Singleton
<1>2. PICK P : P = {x} \cup {y}
  OBVIOUS
<1>3. IsFiniteSet(P) /\ Cardinality(P) = Cardinality({x}) + 1
  <2>1. y \notin {x}
    OBVIOUS
  <2> QED
    BY <1>1, <1>2, <2>1, FS_AddElement
<1>4. P \in SUBSET T
  BY <1>2
<1>5. Cardinality(P) <= Cardinality(T)
  BY <1>4, FS_Subset
<1>6. Cardinality(T) \in Nat
  BY FS_CardinalityType
<1> QED
  BY <1>1, <1>3, <1>5, <1>6

LEMMA UpTo == ASSUME NEW n \in Nat PROVE IsFiniteSet(1..n) /\ Cardinality(1..n) = n
<1>1. IsFiniteSet(1..n) /\ Cardinality(1..n) = IF 1 > n THEN 0 ELSE n - 1 + 1
  BY FS_Interval
<1> QED
  BY <1>1

\* Where the requests of a sequence of fragments start.
Starts(s) == {i \in 1..Len(s) : s[i].part = 1}

\* The fragments are those of the requests that start there, and what is left of
\* one whose head was taken.
LEMMA FragmentsBound ==
  ASSUME NEW s \in Seq(Fragment), SpacedOut(s)
  PROVE  /\ IsFiniteSet(Starts(s)) /\ Cardinality(Starts(s)) \in Nat
         /\ Len(s) <= Cardinality(Starts(s)) * Parts + (Parts - 1)
<1>1. Len(s) \in Nat /\ Parts \in Nat \ {0}
  BY Domains
<1>2. \A i \in 1..Len(s) : s[i].part \in 1..Parts
  BY PartType
<1>3. IsFiniteSet(Starts(s)) /\ Cardinality(Starts(s)) \in Nat
  <2>1. IsFiniteSet(1..Len(s)) /\ Starts(s) \subseteq 1..Len(s)
    BY <1>1, UpTo DEF Starts
  <2> QED
    BY <2>1, FS_Subset, FS_CardinalityType
<1>4. PICK start : start = [i \in 1..Len(s) |-> IF s[i].part <= i THEN i - s[i].part + 1 ELSE 0]
  OBVIOUS
<1>5. PICK f : f = [i \in 1..Len(s) |-> <<start[i], s[i].part>>]
  OBVIOUS
<1>6. PICK A : A = Starts(s) \X (1..Parts)
  OBVIOUS
<1>7. PICK B : B = {0} \X (2..Parts)
  OBVIOUS
<1>8. ASSUME NEW i \in 1..Len(s)
      PROVE  f[i] \in A \cup B
  <2>1. i \in Nat /\ s[i].part \in 1..Parts /\ f[i] = <<start[i], s[i].part>>
    BY <1>1, <1>2, <1>5
  <2>2. CASE s[i].part <= i
    <3>1. PICK h \in 1..i : h = i - s[i].part + 1 /\ h = start[i]
      BY <1>4, <2>1, <2>2
    <3>2. h \in 1..Len(s) /\ s[h].part \in 1..Parts
      BY <1>1, <1>2, <3>1
    <3>3. CASE h = i
      <4>1. s[h].part = 1
        BY <2>1, <3>1, <3>3
      <4> QED
        BY <1>6, <2>1, <3>1, <3>2, <4>1 DEF Starts
    <3>4. CASE h < i
      <4>1. i < h + s[i].part
        BY <2>1, <3>1
      <4>2. s[h].part + i = s[i].part + h
        BY <3>2, <3>4, <4>1, BehindHead
      <4>3. s[h].part = 1
        BY <2>1, <3>1, <3>2, <4>2
      <4> QED
        BY <1>6, <2>1, <3>1, <3>2, <4>3 DEF Starts
    <3> QED
      BY <2>1, <3>1, <3>3, <3>4
  <2>3. CASE s[i].part > i
    <3>1. start[i] = 0 /\ s[i].part \in 2..Parts
      BY <1>1, <1>4, <2>1, <2>3
    <3> QED
      BY <1>7, <2>1, <3>1
  <2> QED
    BY <2>1, <2>2, <2>3
<1>9. ASSUME NEW i \in 1..Len(s), NEW j \in 1..Len(s), f[i] = f[j], i < j
      PROVE  FALSE
  <2>1. start[i] = start[j] /\ s[i].part = s[j].part
    BY <1>5, <1>9
  <2>2. PICK p \in 1..Parts : p = s[i].part /\ p = s[j].part
    BY <1>2, <2>1
  <2>3. /\ start[i] = IF p <= i THEN i - p + 1 ELSE 0
        /\ start[j] = IF p <= j THEN j - p + 1 ELSE 0
    BY <1>4, <2>2
  <2>4. p > j
    <3>1. PICK x : x = start[i] /\ x = start[j]
      BY <2>1
    <3>2. x = (IF p <= i THEN i - p + 1 ELSE 0) /\ x = (IF p <= j THEN j - p + 1 ELSE 0)
      BY <2>3, <3>1
    <3>3. i \in Nat /\ j \in Nat /\ p \in Nat
      BY <1>1
    <3> QED
      BY <1>9, <3>2, <3>3
  <2>5. j < i + s[j].part
    BY <1>1, <2>2, <2>4
  <2>6. s[i].part + j = s[j].part + i
    BY <1>9, <2>5, BehindHead
  <2> QED
    BY <1>1, <1>9, <2>2, <2>6
<1>10. f \in Injection(1..Len(s), A \cup B)
  <2>1. f \in [1..Len(s) -> A \cup B]
    BY <1>5, <1>8
  <2>2. ASSUME NEW i \in 1..Len(s), NEW j \in 1..Len(s), f[i] = f[j]
        PROVE  i = j
    <3>1. ~(i < j) /\ ~(j < i)
      BY <1>9, <2>2
    <3> QED
      BY <1>1, <3>1
  <2> QED
    BY <2>1, <2>2 DEF Injection, IsInjective
<1>11. IsFiniteSet(A) /\ Cardinality(A) = Cardinality(Starts(s)) * Parts
  <2>1. IsFiniteSet(1..Parts) /\ Cardinality(1..Parts) = Parts
    BY <1>1, UpTo
  <2> QED
    BY <1>3, <1>6, <2>1, FS_Product
<1>12. IsFiniteSet(B) /\ Cardinality(B) = Parts - 1
  <2>1. IsFiniteSet(2..Parts) /\ Cardinality(2..Parts) = Parts - 1
    <3>1. /\ IsFiniteSet(2..Parts)
          /\ Cardinality(2..Parts) = IF 2 > Parts THEN 0 ELSE Parts - 2 + 1
      BY <1>1, FS_Interval
    <3> QED
      BY <1>1, <3>1
  <2>2. IsFiniteSet({0}) /\ Cardinality({0}) = 1
    BY FS_Singleton
  <2>3. IsFiniteSet(B) /\ Cardinality(B) = 1 * (Parts - 1)
    <3>1. /\ IsFiniteSet({0} \X (2..Parts))
          /\ Cardinality({0} \X (2..Parts)) = Cardinality({0}) * Cardinality(2..Parts)
      BY <2>1, <2>2, FS_Product
    <3> QED
      BY <1>7, <2>1, <2>2, <3>1
  <2> QED
    BY <1>1, <2>3
<1>13. IsFiniteSet(A \cup B) /\ Cardinality(A \cup B) <= Cardinality(A) + Cardinality(B)
  <2>1. /\ IsFiniteSet(A \cup B)
        /\ Cardinality(A \cup B) = Cardinality(A) + Cardinality(B) - Cardinality(A \cap B)
    BY <1>11, <1>12, FS_Union
  <2>2. Cardinality(A \cap B) \in Nat
    <3>1. IsFiniteSet(A \cap B)
      BY <1>11, FS_Intersection
    <3> QED
      BY <3>1, FS_CardinalityType
  <2>3. Cardinality(A) \in Nat /\ Cardinality(B) \in Nat
    BY <1>11, <1>12, FS_CardinalityType
  <2> QED
    BY <2>1, <2>2, <2>3
<1>14. Cardinality(1..Len(s)) <= Cardinality(A \cup B)
  BY <1>10, <1>13, FS_Injection
<1>15. Cardinality(1..Len(s)) = Len(s)
  BY <1>1, UpTo
<1>16. Cardinality(A) \in Nat /\ Cardinality(B) \in Nat /\ Cardinality(A \cup B) \in Nat
  BY <1>11, <1>12, <1>13, FS_CardinalityType
<1>17. Len(s) <= Cardinality(A) + Cardinality(B)
  BY <1>1, <1>13, <1>14, <1>15, <1>16
<1> QED
  BY <1>3, <1>11, <1>12, <1>17

\* A sequence that holds each request once at most, and only requests of a set, is no
\* longer than the set.
LEMMA NoLonger ==
  ASSUME NEW q \in Seq(Request), NEW S, IsFiniteSet(S),
         \A i \in 1..Len(q) : <<q[i].conn, q[i].rank>> \in S,
         \A c \in Accepted, k \in 1..MaxReqs : HowMany(q, ReqOf(c, k)) <= 1
  PROVE  Len(q) <= Cardinality(S)
<1> DEFINE f == [i \in 1..Len(q) |-> <<q[i].conn, q[i].rank>>]
<1>1. Len(q) \in Nat /\ \A i \in 1..Len(q) : q[i] \in Request
  OBVIOUS
<1>2. ASSUME NEW i \in 1..Len(q), NEW j \in 1..Len(q), f[i] = f[j], i # j
      PROVE  FALSE
  <2>1. PICK c \in Accepted, k \in 1..MaxReqs : c = q[i].conn /\ k = q[i].rank
    BY <1>1 DEF Request
  <2>2. q[j].conn = c /\ q[j].rank = k
    BY <1>2, <2>1
  <2>3. i \in At(q, ReqOf(c, k)) /\ j \in At(q, ReqOf(c, k))
    BY <1>1, <2>1, <2>2 DEF At, ReqOf
  <2>4. IsFiniteSet(At(q, ReqOf(c, k)))
    BY CountType
  <2>5. PICK T : T = At(q, ReqOf(c, k))
    OBVIOUS
  <2>6. i \in T /\ j \in T /\ i # j /\ IsFiniteSet(T)
    BY <1>2, <2>3, <2>4, <2>5
  <2>7. Cardinality(T) \in Nat /\ Cardinality(T) >= 2
    BY <2>6, TwoOfThem
  <2>8. Cardinality(T) <= 1
    BY <2>5 DEF HowMany
  <2> QED
    BY <2>7, <2>8
<1>3. f \in Injection(1..Len(q), S)
  <2>1. f \in [1..Len(q) -> S]
    OBVIOUS
  <2>2. \A i, j \in 1..Len(q) : f[i] = f[j] => i = j
    BY <1>2
  <2> HIDE DEF f
  <2> QED
    BY <2>1, <2>2 DEF Injection, IsInjective
<1>4. Cardinality(1..Len(q)) <= Cardinality(S)
  BY <1>3, FS_Injection
<1>5. Cardinality(1..Len(q)) = Len(q)
  BY <1>1, UpTo
<1> QED
  BY <1>4, <1>5

LEMMA OpenFinite == IsFiniteSet(OpenRequests) /\ Cardinality(OpenRequests) \in Nat
<1>1. IsFiniteSet(Accepted) /\ IsFiniteSet(1..MaxReqs)
  BY Domains, FS_Interval DEF Accepted
<1>2. IsFiniteSet(Accepted \X (1..MaxReqs))
  BY <1>1, FS_Product
<1>3. OpenRequests \subseteq Accepted \X (1..MaxReqs)
  BY DEF OpenRequests
<1>4. IsFiniteSet(OpenRequests)
  BY <1>2, <1>3, FS_Subset
<1> QED
  BY <1>4, FS_CardinalityType

\* What is on its way to a worker or back is open.
LEMMA OnTheWay ==
  ASSUME Inv, Once, NEW c \in Accepted, NEW k \in 1..MaxReqs
  PROVE  /\ InStream(c, k) + InPend(c, k) + InCtl(c, k) <= 1
         /\ InStream(c, k) + InPend(c, k) + InCtl(c, k) >= 1 => <<c, k>> \in OpenRequests
<1>1. Copies(c, k) <= (IF k <= delivered[c] THEN 1 ELSE 0)
  BY DEF Once, OnceAt
<1>2. /\ Copies(c, k) = Places(c, k)
      /\ InPend(c, k) \in Nat /\ InStream(c, k) \in Nat /\ InWorkers(c, k) \in Nat
      /\ InCtl(c, k) \in Nat /\ InMsg(c, k) \in {0, 1} /\ InHandled(c, k) \in {0, 1}
  BY CopiesInt
<1>3. InStream(c, k) + InPend(c, k) + InCtl(c, k) + InHandled(c, k)
        <= (IF k <= delivered[c] THEN 1 ELSE 0)
  BY <1>1, <1>2 DEF Places
<1>4. ASSUME InStream(c, k) + InPend(c, k) + InCtl(c, k) >= 1
      PROVE  k <= delivered[c] /\ <<c, k>> \notin handled
  BY <1>2, <1>3, <1>4 DEF InHandled
<1> QED
  BY <1>2, <1>3, <1>4 DEF OpenRequests

\* A request is on the stream, or being written to it, as often as it starts there.
LEMMA StartsCounted ==
  ASSUME Inv, NEW s, s = stream \o pend, NEW c, NEW k
  PROVE  /\ s \in Seq(Fragment) /\ Len(s) = Len(stream) + Len(pend)
         /\ IsFiniteSet(At(s, HeadOf(c, k)))
         /\ HowMany(s, HeadOf(c, k)) = InStream(c, k) + InPend(c, k)
<1>1. stream \in Seq(Fragment) /\ pend \in Seq(Fragment)
  BY DEF Inv, TypeOK, IOTypeOK, SockTypeOK
<1>2. s \in Seq(Fragment) /\ Len(s) = Len(stream) + Len(pend)
  BY <1>1
<1>3. HowMany(s, HeadOf(c, k)) = InStream(c, k) + InPend(c, k)
  BY <1>1, CountConcat DEF InStream, InPend
<1>4. IsFiniteSet(At(s, HeadOf(c, k)))
  BY <1>2, CountType
<1> QED
  BY <1>2, <1>3, <1>4

\* The requests a start and a result in ctl stand for.
Written == {r \in OpenRequests : InStream(r[1], r[2]) + InPend(r[1], r[2]) >= 1}
Decided == {r \in OpenRequests : InCtl(r[1], r[2]) >= 1}

LEMMA StartsOpen ==
  ASSUME Inv, Once, NEW s, s = stream \o pend
  PROVE  Cardinality(Starts(s)) <= Cardinality(Written)
<1>1. s \in Seq(Fragment)
  BY StartsCounted
<1>2. PICK f : f = [i \in Starts(s) |-> <<s[i].req.conn, s[i].req.rank>>]
  OBVIOUS
<1>3. ASSUME NEW i \in Starts(s)
      PROVE  \E c \in Accepted, k \in 1..MaxReqs : f[i] = <<c, k>> /\ i \in At(s, HeadOf(c, k))
  <2>1. i \in 1..Len(s) /\ s[i] \in Fragment /\ s[i].part = 1
    BY <1>1, PartType DEF Starts
  <2>2. s[i].req.conn \in Accepted /\ s[i].req.rank \in 1..MaxReqs
    BY <2>1 DEF Fragment, Request
  <2>3. i \in At(s, HeadOf(s[i].req.conn, s[i].req.rank))
    BY <2>1 DEF At, HeadOf
  <2> QED
    BY <1>2, <2>2, <2>3
<1>4. ASSUME NEW i \in Starts(s)
      PROVE  f[i] \in Written
  <2>1. PICK c \in Accepted, k \in 1..MaxReqs : f[i] = <<c, k>> /\ i \in At(s, HeadOf(c, k))
    BY <1>3
  <2>2. IsFiniteSet(At(s, HeadOf(c, k))) /\ HowMany(s, HeadOf(c, k)) = InStream(c, k) + InPend(c, k)
    BY StartsCounted
  <2>3. InStream(c, k) + InPend(c, k) >= 1
    BY <2>1, <2>2, OneOfThem DEF HowMany
  <2>4. InStream(c, k) \in Nat /\ InPend(c, k) \in Nat /\ InCtl(c, k) \in Nat
    BY CopiesInt
  <2>5. <<c, k>> \in OpenRequests
    BY <2>3, <2>4, OnTheWay
  <2> QED
    BY <2>1, <2>3, <2>5 DEF Written
<1>5. ASSUME NEW i \in Starts(s), NEW j \in Starts(s), f[i] = f[j], i # j
      PROVE  FALSE
  <2>1. PICK c \in Accepted, k \in 1..MaxReqs : f[i] = <<c, k>> /\ i \in At(s, HeadOf(c, k))
    BY <1>3
  <2>2. PICK d \in Accepted, l \in 1..MaxReqs : f[j] = <<d, l>> /\ j \in At(s, HeadOf(d, l))
    BY <1>3
  <2>3. c = d /\ k = l
    <3>1. <<c, k>> = <<d, l>>
      BY <1>5, <2>1, <2>2
    <3> QED
      BY <3>1
  <2>4. IsFiniteSet(At(s, HeadOf(c, k))) /\ HowMany(s, HeadOf(c, k)) = InStream(c, k) + InPend(c, k)
    BY StartsCounted
  <2>5. InStream(c, k) + InPend(c, k) >= 2
    <3>1. PICK T : T = At(s, HeadOf(c, k))
      OBVIOUS
    <3>2. i \in T /\ j \in T /\ i # j /\ IsFiniteSet(T)
      BY <1>5, <2>1, <2>2, <2>3, <2>4, <3>1
    <3>3. Cardinality(T) \in Nat /\ Cardinality(T) >= 2
      BY <3>2, TwoOfThem
    <3> QED
      BY <2>4, <3>1, <3>3 DEF HowMany
  <2>6. InStream(c, k) \in Nat /\ InPend(c, k) \in Nat /\ InCtl(c, k) \in Nat
    BY CopiesInt
  <2>7. InStream(c, k) + InPend(c, k) + InCtl(c, k) <= 1
    BY OnTheWay
  <2> QED
    BY <2>5, <2>6, <2>7
<1>6. f \in Injection(Starts(s), Written)
  <2>1. f \in [Starts(s) -> Written]
    BY <1>2, <1>4
  <2>2. \A i, j \in Starts(s) : f[i] = f[j] => i = j
    BY <1>5
  <2> QED
    BY <2>1, <2>2 DEF Injection, IsInjective
<1>7. IsFiniteSet(Written)
  BY OpenFinite, FS_Subset DEF Written
<1> QED
  BY <1>6, <1>7, FS_Injection

LEMMA ResultsOpen ==
  ASSUME Inv, Once
  PROVE  Len(ctl) <= Cardinality(Decided)
<1>1. ctl \in Seq(Request)
  BY DEF Inv, TypeOK, CtlTypeOK
<1>2. ASSUME NEW c \in Accepted, NEW k \in 1..MaxReqs
      PROVE  /\ InCtl(c, k) \in Nat /\ InCtl(c, k) <= 1
             /\ InCtl(c, k) >= 1 => <<c, k>> \in OpenRequests
  <2>1. InStream(c, k) \in Nat /\ InPend(c, k) \in Nat /\ InCtl(c, k) \in Nat
    BY CopiesInt
  <2>2. /\ InStream(c, k) + InPend(c, k) + InCtl(c, k) <= 1
        /\ InStream(c, k) + InPend(c, k) + InCtl(c, k) >= 1 => <<c, k>> \in OpenRequests
    BY OnTheWay
  <2> QED
    BY <2>1, <2>2
<1>3. \A c \in Accepted, k \in 1..MaxReqs : HowMany(ctl, ReqOf(c, k)) <= 1
  BY <1>2 DEF InCtl
<1>4. ASSUME NEW i \in 1..Len(ctl)
      PROVE  <<ctl[i].conn, ctl[i].rank>> \in Decided
  <2>1. ctl[i] \in Request
    BY <1>1
  <2>2. PICK c \in Accepted, k \in 1..MaxReqs : c = ctl[i].conn /\ k = ctl[i].rank
    BY <2>1 DEF Request
  <2>3. i \in At(ctl, ReqOf(c, k))
    BY <2>1, <2>2 DEF At, ReqOf
  <2>4. IsFiniteSet(At(ctl, ReqOf(c, k)))
    BY <1>1, CountType
  <2>5. InCtl(c, k) >= 1
    BY <2>3, <2>4, OneOfThem DEF InCtl, HowMany
  <2> QED
    BY <1>2, <2>2, <2>5 DEF Decided
<1>5. IsFiniteSet(Decided)
  BY OpenFinite, FS_Subset DEF Decided
<1> QED
  BY <1>1, <1>3, <1>4, <1>5, NoLonger

\* A request is not on the stream and decided at once.
LEMMA OpenBound ==
  ASSUME Inv, Once
  PROVE  Cardinality(Written) + Cardinality(Decided) <= Cardinality(OpenRequests)
<1>1. Written \subseteq OpenRequests /\ Decided \subseteq OpenRequests
  BY DEF Written, Decided
<1>2. IsFiniteSet(Written) /\ IsFiniteSet(Decided) /\ IsFiniteSet(OpenRequests)
  BY <1>1, OpenFinite, FS_Subset
<1>3. Written \cap Decided = {}
  <2> SUFFICES ASSUME NEW r \in OpenRequests, r \in Written, r \in Decided
               PROVE  FALSE
    BY <1>1
  <2>1. PICK c \in Accepted, k \in 1..MaxReqs : r[1] = c /\ r[2] = k
    BY DEF OpenRequests
  <2>2. InStream(c, k) + InPend(c, k) >= 1 /\ InCtl(c, k) >= 1
    BY <2>1 DEF Written, Decided
  <2>3. InStream(c, k) \in Nat /\ InPend(c, k) \in Nat /\ InCtl(c, k) \in Nat
    BY CopiesInt
  <2>4. InStream(c, k) + InPend(c, k) + InCtl(c, k) <= 1
    BY OnTheWay
  <2> QED
    BY <2>2, <2>3, <2>4
<1>4. PICK U : U = Written \cup Decided
  OBVIOUS
<1>5. Cardinality(U) = Cardinality(Written) + Cardinality(Decided) - Cardinality({})
  BY <1>2, <1>3, <1>4, FS_Union
<1>6. Cardinality(U) <= Cardinality(OpenRequests)
  BY <1>1, <1>2, <1>4, FS_Subset
<1>7. Cardinality(Written) \in Nat /\ Cardinality(Decided) \in Nat /\ Cardinality({}) = 0
  BY <1>2, FS_CardinalityType, FS_EmptySet
<1> QED
  BY <1>5, <1>6, <1>7

LEMMA LoadNeeded ==
  ASSUME Inv, Once, Carried, CtlAccounting, Deadlocked
  PROVE  /\ Parts * (Cardinality(OpenRequests) + 1 - Cardinality(Workers)) > Cap + 1
         /\ Cardinality(Workers) \in Nat /\ Cardinality(OpenRequests) \in Nat
<1>1. PICK s : s = stream \o pend
  OBVIOUS
<1>2. s \in Seq(Fragment) /\ Len(s) = Len(stream) + Len(pend) /\ SpacedOut(s)
  BY <1>1, StartsCounted DEF Carried, Spaced
<1>3. Len(stream) \in Nat /\ Len(pend) \in Nat /\ Len(s) > Cap
  <2>1. stream \in Seq(Fragment) /\ pend \in Seq(Fragment)
    BY DEF Inv, TypeOK, IOTypeOK, SockTypeOK
  <2>2. Len(stream) \in Nat /\ Len(pend) \in Nat
    BY <2>1
  <2> QED
    BY <1>2, <2>2, Domains DEF Deadlocked, Room
<1>4. Len(ctl) = Cardinality(Workers)
  <2>1. Blocked = Workers
    BY DEF Deadlocked, Blocked
  <2>2. Len(ctl) \in Nat
    BY DEF Inv, TypeOK, CtlTypeOK
  <2> QED
    BY <2>1, <2>2 DEF Deadlocked, CtlAccounting
<1>5. PICK n \in Nat : n = Cardinality(Starts(s))
  BY <1>2, FragmentsBound
<1>6. Len(s) <= n * Parts + (Parts - 1)
  BY <1>2, <1>5, FragmentsBound
<1>7. PICK o \in Nat : o = Cardinality(OpenRequests)
  BY OpenFinite
<1>8. PICK m \in Nat : m = Cardinality(Workers)
  BY ConstantsAssumption, FS_CardinalityType
<1>9. n + m <= o
  <2>1. Cardinality(Written) \in Nat /\ Cardinality(Decided) \in Nat
    <3>1. IsFiniteSet(Written) /\ IsFiniteSet(Decided)
      BY OpenFinite, FS_Subset DEF Written, Decided
    <3> QED
      BY <3>1, FS_CardinalityType
  <2>2. n <= Cardinality(Written)
    BY <1>1, <1>5, StartsOpen
  <2>3. m <= Cardinality(Decided)
    BY <1>4, <1>8, ResultsOpen
  <2>4. Cardinality(Written) + Cardinality(Decided) <= o
    BY <1>7, OpenBound
  <2> QED
    BY <2>1, <2>2, <2>3, <2>4
<1>10. Parts \in Nat /\ Cap \in Nat
  BY Domains
<1>11. PICK d \in Nat : o - m = n + d
  BY <1>9
<1>12. Parts * (o + 1 - m) = n * Parts + d * Parts + Parts /\ d * Parts >= 0
  BY <1>10, <1>11
<1>13. n * Parts + Parts > Cap + 1
  BY <1>3, <1>6, <1>10
<1> QED
  BY <1>7, <1>8, <1>10, <1>12, <1>13

\* Whatever clients and operator do: for the IO thread to wait for the workers in its
\* write and they for it in mg_broadcast(), so many requests must be open that those
\* no worker holds, with what is left of one more, do not fit the stream.
THEOREM DeadlockLoad == SafeSpec => []DeadlockTakesLoad
<1>1. Inv /\ Once /\ Carried /\ CtlAccounting => DeadlockTakesLoad
  BY LoadNeeded DEF DeadlockTakesLoad
<1> QED
  BY <1>1, Invariance, OnceInvariance, CarriedInvariance, Accounting, PTL
-------------------------------------------------------------------------------
(* Patient clients *)

\* Nothing fails, nothing closes, nobody has asked the server to stop.
Serving ==
    /\ ~signal /\ ~crashed /\ phase = "run" /\ sock = "open"
    /\ io \in {"select", "ctl", "callback", "read", "send", "write", "close"}
    /\ \A c \in Conns : client[c] = "open" /\ flags[c] = {}

\* A pass visits a connection once.
ListedOnce ==
    /\ \A i, j \in 1..Len(active) : active[i] = active[j] => i = j
    /\ \A i \in 1..Len(active) : active[i] <= accepted
VisitedOnce == \A i, j \in 1..Len(todo) : todo[i] = todo[j] => i = j

\* What select() reported readable has a request until it is read: mg_mgr_poll()
\* never takes an empty read for a shutdown.
DataThere ==
    \A c \in Accepted \cap readable :
        /\ io \in {"ctl", "callback"} => wire[c] > 0
        /\ \A i \in 1..Len(todo) :
              todo[i] = c => \/ wire[c] > 0 \/ io \notin {"read", "send", "write"}
                             \/ io # "read" /\ i = 1

\* A connection has one open request at most, and its bytes are still in place.
OneRequest ==
    \A c \in Accepted : rbuf[c] = Twice(c) /\ wire[c] + Twice(c) <= 1 /\ text[c] = delivered[c]
OneOpen ==
    \A c \in Accepted : \A k \in 1..delivered[c] :
        k < delivered[c] \/ wire[c] > 0 => <<c, k>> \in handled

\* Nothing is answered before its callback has run.
AnswersHandled ==
    /\ answered \subseteq handled
    /\ \A c \in Accepted : \A i \in 1..Len(sbuf[c]) :
          <<sbuf[c][i].conn, sbuf[c][i].rank>> \in handled

Patience == Serving /\ ListedOnce /\ VisitedOnce /\ DataThere /\ OneRequest /\ OneOpen
              /\ AnswersHandled

LEMMA PatienceStable ==
    /\ Serving /\ UNCHANGED <<signal, crashed, phase, sock, io, client, flags>> => Serving'
    /\ ListedOnce /\ UNCHANGED <<active, accepted>> => ListedOnce'
    /\ VisitedOnce /\ UNCHANGED todo => VisitedOnce'
    /\ DataThere /\ UNCHANGED <<readable, wire, todo, io>> => DataThere'
    /\ OneRequest /\ UNCHANGED <<rbuf, wire, text, delivered, io, todo>> => OneRequest'
    /\ OneOpen /\ UNCHANGED <<delivered, wire, handled>> => OneOpen'
    /\ AnswersHandled /\ UNCHANGED <<answered, handled, sbuf>> => AnswersHandled'
  BY DEF Serving, ListedOnce, VisitedOnce, DataThere, OneRequest, OneOpen, AnswersHandled, Twice

\* Outside the write on sock[0] no request is both delivered and in the buffer.
LEMMA OneRequestKept ==
  ASSUME OneRequest, io \notin {"send", "sendclose"}, io' \notin {"send", "sendclose"},
         UNCHANGED <<rbuf, wire, text, delivered>>
  PROVE  OneRequest'
  BY DEF OneRequest, Twice

\* The pass goes on to the next connection.
LEMMA TailVisits ==
  ASSUME Inv, VisitedOnce, todo # << >>, todo' = Tail(todo)
  PROVE  /\ VisitedOnce'
         /\ \A i \in 1..Len(todo') : i + 1 \in 1..Len(todo) /\ todo'[i] = todo[i + 1]
  BY DEF Inv, TypeOK, IOTypeOK, VisitedOnce

LEMMA PatientTypes ==
  ASSUME Inv, NEW c \in Accepted
  PROVE  /\ c \in Conns /\ wire \in [Conns -> Nat] /\ rbuf \in [Conns -> Nat]
         /\ delivered \in [Conns -> 0..MaxReqs] /\ text \in [Conns -> 0..MaxReqs]
         /\ todo \in Seq(Conns) /\ MaxReqs \in Nat
  BY Domains DEF Inv, TypeOK, IOTypeOK, ConnTypeOK, ClientTypeOK

LEMMA ClientSendPatient ==
  ASSUME Env = {}, Inv, Patience, NEW c \in Accepted, ClientSend(c)
  PROVE  Patience'
<1> USE DEF Patience
<1>1. /\ wire' = [wire EXCEPT ![c] = @ + 1] /\ Quiet(c)
      /\ UNCHANGED <<signal, crashed, phase, sock, io, client, flags, active, accepted, todo,
                     readable, rbuf, text, delivered, answered, handled, sbuf>>
  BY DEF ClientSend, serverVars, ioVars, connVars, sockVars, procVars
<1>2. DataThere'
  BY <1>1, PatientTypes DEF DataThere
<1>3. OneRequest'
  <2>1. wire[c] = 0 /\ Twice(c) = 0 /\ wire'[c] = 1
    BY <1>1, PatientTypes DEF OneRequest, Quiet
  <2>2. \A d \in Accepted : Twice(d)' = Twice(d) /\ (d # c => wire'[d] = wire[d])
    BY <1>1, PatientTypes DEF Twice
  <2> QED
    BY <1>1, <2>1, <2>2 DEF OneRequest
<1>4. OneOpen'
  BY <1>1, PatientTypes DEF OneOpen, Quiet, AnswersHandled
<1> QED
  BY <1>1, <1>2, <1>3, <1>4, PatienceStable

LEMMA SelectPatient ==
  ASSUME Inv, Patience, Select
  PROVE  Patience'
<1> USE DEF Patience
<1>1. /\ io = "select" /\ io' = "ctl" /\ phase' = "run"
      /\ readable' = {c \in Conns : IsActive(c) /\ CanRead(c)}
                       \cup (IF ctl # << >> THEN {Ctl} ELSE {})
      /\ UNCHANGED <<signal, crashed, sock, client, flags, active, accepted, todo, wire,
                     rbuf, text, delivered, answered, handled, sbuf>>
  BY DEF Select, IOAt, Serving, connVars, clientVars, sockVars, procVars
<1>2. DataThere'
  <2> SUFFICES ASSUME NEW c \in Accepted, c \in readable'
               PROVE  wire[c] > 0
    BY <1>1 DEF DataThere
  <2>1. c \in Conns /\ c # Listener /\ c # Ctl
    BY Domains DEF Accepted, Listener, Ctl
  <2>2. CanRead(c)
    BY <1>1, <2>1
  <2> QED
    BY <2>1, <2>2 DEF CanRead, Serving
<1>3. OneRequest'
  BY <1>1, OneRequestKept
<1>4. Serving'
  BY <1>1 DEF Serving
<1> QED
  BY <1>1, <1>2, <1>3, <1>4, PatienceStable

LEMMA CtlPatient ==
  ASSUME Inv, Patience, HandleCtlSock \/ SkipCtlSock
  PROVE  Patience'
<1> USE DEF Patience
<1>1. /\ io = "ctl"
      /\ \/ io' = "callback" /\ UNCHANGED todo
         \/ io' = "read" /\ todo' = active
      /\ UNCHANGED <<signal, crashed, phase, sock, client, flags, active, accepted, readable,
                     wire, rbuf, text, delivered, answered, handled, sbuf>>
  BY DEF HandleCtlSock, SkipCtlSock, IOAt, connVars, clientVars, sockVars, procVars
<1>2. DataThere' /\ Serving'
  BY <1>1 DEF DataThere, Serving
<1>3. VisitedOnce'
  BY <1>1 DEF VisitedOnce, ListedOnce
<1>4. OneRequest'
  BY <1>1, OneRequestKept
<1> QED
  BY <1>1, <1>2, <1>3, <1>4, PatienceStable

LEMMA CallbackPatient ==
  ASSUME Inv, Patience, OnWorkComplete
  PROVE  Patience'
<1> USE DEF Patience
<1>1. /\ io = "callback" /\ io' = "read" /\ todo' = active
      /\ handled' = handled \cup {<<msg.conn, msg.rank>>}
      /\ sbuf' = [c \in Conns |-> IF Addressed(c, msg) THEN sbuf[c] \o Answers(msg) ELSE sbuf[c]]
      /\ UNCHANGED <<signal, crashed, phase, sock, client, flags, active, accepted, readable,
                     wire, rbuf, text, delivered, answered>>
  BY DEF OnWorkComplete, IOAt, clientVars, sockVars
<1>2. DataThere' /\ Serving'
  BY <1>1 DEF DataThere, Serving
<1>3. VisitedOnce'
  BY <1>1 DEF VisitedOnce, ListedOnce
<1>4. OneRequest'
  BY <1>1, OneRequestKept
<1>5. OneOpen'
  BY <1>1 DEF OneOpen
<1>6. ASSUME NEW c \in Accepted, NEW i \in 1..Len(sbuf'[c])
      PROVE  <<sbuf'[c][i].conn, sbuf'[c][i].rank>> \in handled'
  <2>1. sbuf[c] \in Seq(Request) /\ msg \in Request /\ Len(active) \in Nat
    BY <1>1, Domains DEF Inv, TypeOK, ConnTypeOK, Consistent, MsgTaken
  <2>2. Answers(msg) \in Seq(Request) /\ \A j \in 1..Len(Answers(msg)) : Answers(msg)[j] = msg
    BY <2>1 DEF Answers
  <2>3. sbuf'[c] = sbuf[c] \o Answers(msg) \/ sbuf'[c] = sbuf[c]
    BY <1>1, Domains
  <2>4. (\E j \in 1..Len(sbuf[c]) : sbuf'[c][i] = sbuf[c][j]) \/ sbuf'[c][i] = msg
    <3>1. PICK a \in Seq(Request) : a = Answers(msg) /\ \A j \in 1..Len(a) : a[j] = msg
      BY <2>2
    <3>2. CASE sbuf'[c] = sbuf[c] \o a
      <4>1. Len(a) \in Nat /\ Len(sbuf[c]) \in Nat /\ i \in 1..(Len(sbuf[c]) + Len(a))
        BY <2>1, <3>2
      <4>2. CASE i <= Len(sbuf[c])
        BY <2>1, <3>2, <4>1, <4>2
      <4>3. CASE i > Len(sbuf[c])
        <5>1. i - Len(sbuf[c]) \in 1..Len(a) /\ sbuf'[c][i] = a[i - Len(sbuf[c])]
          BY <2>1, <3>2, <4>1, <4>3
        <5> QED
          BY <3>1, <5>1
      <4> QED
        BY <4>1, <4>2, <4>3
    <3> QED
      BY <2>3, <3>1, <3>2
  <2> QED
    BY <1>1, <2>4 DEF AnswersHandled
<1>7. AnswersHandled'
  BY <1>1, <1>6 DEF AnswersHandled
<1> QED
  BY <1>1, <1>2, <1>3, <1>4, <1>5, <1>7, PatienceStable

LEMMA ListenerPatient ==
  ASSUME Inv, Inv', Patience, VisitListener
  PROVE  Patience'
<1> USE DEF Patience
<1>1. /\ io = "read" /\ io' = "read" /\ todo # << >> /\ todo' = Tail(todo)
      /\ \/ accepted' = accepted + 1 /\ active' = <<accepted + 1>> \o active
         \/ UNCHANGED <<accepted, active>>
      /\ UNCHANGED <<signal, crashed, phase, sock, client, flags, readable,
                     wire, rbuf, text, delivered, answered, handled, sbuf>>
  BY DEF VisitListener, IOAt, sockVars, procVars
<1>2. VisitedOnce' /\ \A i \in 1..Len(todo') : i + 1 \in 1..Len(todo) /\ todo'[i] = todo[i + 1]
  BY <1>1, TailVisits
<1>3. DataThere'
  BY <1>1, <1>2 DEF DataThere
<1>4. OneRequest'
  BY <1>1, OneRequestKept
<1>5. ListedOnce'
  <2>1. CASE accepted' = accepted + 1 /\ active' = <<accepted + 1>> \o active
    <3>1. active \in Seq(Conns) /\ accepted \in Nat /\ Len(active) \in Nat
          /\ \A i \in 1..Len(active) : active[i] \in Int
      BY DEF Inv, TypeOK, ConnTypeOK, Conns, Accepted, Listener
    <3>2. /\ Len(active') = Len(active) + 1 /\ active'[1] = accepted + 1
          /\ \A i \in 2..Len(active') : i - 1 \in 1..Len(active) /\ active'[i] = active[i - 1]
      BY <2>1, <3>1
    <3>3. \A i \in 2..Len(active') : active'[i] <= accepted /\ active'[i] \in Int
      BY <3>1, <3>2 DEF ListedOnce
    <3>4. \A i \in 1..Len(active') : i = 1 \/ i \in 2..Len(active')
      BY <3>1, <3>2
    <3>5. \A i \in 1..Len(active') : active'[i] <= accepted'
      BY <2>1, <3>1, <3>2, <3>3, <3>4
    <3>6. \A i, j \in 2..Len(active') : active'[i] = active'[j] => i = j
      BY <3>1, <3>2 DEF ListedOnce
    <3>7. \A i, j \in 1..Len(active') : active'[i] = active'[j] => i = j
      BY <3>1, <3>2, <3>3, <3>4, <3>6
    <3> QED
      BY <3>5, <3>7 DEF ListedOnce
  <2>2. CASE UNCHANGED <<accepted, active>>
    BY <2>2, PatienceStable
  <2> QED
    BY <1>1, <2>1, <2>2
<1> QED
  BY <1>1, <1>2, <1>3, <1>4, <1>5, PatienceStable DEF Serving

LEMMA ReadPatient ==
  ASSUME Inv, Patience, NEW c \in Accepted, VisitRead(c)
  PROVE  Patience'
<1> USE DEF Patience
<1>1. /\ io = "read" /\ todo # << >> /\ Head(todo) = c
      /\ UNCHANGED <<signal, crashed, phase, sock, client, active, accepted, todo, readable,
                     answered, handled, sbuf>>
  BY DEF VisitRead, IOAt, sockVars, procVars
<1>2. /\ Len(todo) \in Nat /\ 1 \in 1..Len(todo) /\ todo[1] = c /\ c \in Conns
  BY <1>1, PatientTypes
<1>3. CASE c \in readable /\ Recv(c)
  <2>1. /\ wire[c] = 1 /\ wire' = [wire EXCEPT ![c] = 0] /\ rbuf' = [rbuf EXCEPT ![c] = 1]
    <3>1. wire[c] = 1 /\ rbuf[c] = 0
      BY <1>1, <1>3, PatientTypes DEF Recv, OneRequest, Twice
    <3> QED
      BY <1>3, <3>1, PatientTypes DEF Recv
  <2>2. /\ io' = "send" /\ UNCHANGED flags
        /\ delivered' = [delivered EXCEPT ![c] = @ + 1]
        /\ text' = [text EXCEPT ![c] = delivered[c] + 1]
    BY <1>3 DEF Recv, Deliver
  <2>3. Serving'
    BY <1>1, <2>2 DEF Serving
  <2>4. DataThere'
    <3> SUFFICES ASSUME NEW d \in Accepted \cap readable, NEW i \in 1..Len(todo), todo[i] = d,
                        i # 1
                 PROVE  wire'[d] > 0
      BY <1>1, <2>2 DEF DataThere
    <3>1. d # c
      BY <1>2 DEF VisitedOnce
    <3>2. wire[d] > 0
      BY <1>1 DEF DataThere
    <3> QED
      BY <2>1, <3>1, <3>2, PatientTypes
  <2>5. OneRequest'
    <3> SUFFICES ASSUME NEW d \in Accepted
                 PROVE  rbuf'[d] = Twice(d)' /\ wire'[d] + Twice(d)' <= 1 /\ text'[d] = delivered'[d]
      BY DEF OneRequest
    <3>1. CASE d = c
      BY <1>1, <2>1, <2>2, <3>1, PatientTypes DEF Twice
    <3>2. CASE d # c
      <4>1. Twice(d) = 0 /\ Twice(d)' = 0
        BY <1>1, <3>2 DEF Twice
      <4> QED
        BY <2>1, <2>2, <3>2, <4>1, PatientTypes DEF OneRequest
    <3> QED
      BY <3>1, <3>2
  <2>6. OneOpen'
    <3> SUFFICES ASSUME NEW d \in Accepted, NEW k \in 1..delivered'[d],
                        k < delivered'[d] \/ wire'[d] > 0
                 PROVE  <<d, k>> \in handled
      BY <1>1 DEF OneOpen
    <3>1. CASE d = c
      <4>1. k \in 1..delivered[c]
        BY <2>1, <2>2, <3>1, PatientTypes
      <4> QED
        BY <2>1, <3>1, <4>1 DEF OneOpen
    <3>2. CASE d # c
      BY <2>1, <2>2, <3>2, PatientTypes DEF OneOpen
    <3> QED
      BY <3>1, <3>2
  <2> QED
    BY <1>1, <2>3, <2>4, <2>5, <2>6, PatienceStable
<1>4. ~(c \in readable /\ RecvNothing(c))
  BY <1>1, <1>2, PatientTypes DEF DataThere, RecvNothing
<1>5. CASE /\ c \notin readable /\ io' = "write"
           /\ UNCHANGED <<rbuf, wire, pend, delivered, text, flags>>
  <2>1. Serving' /\ DataThere'
    BY <1>1, <1>5 DEF Serving, DataThere
  <2>2. OneRequest'
    BY <1>1, <1>5, OneRequestKept
  <2> QED
    BY <1>1, <1>5, <2>1, <2>2, PatienceStable
<1> QED
  BY <1>3, <1>4, <1>5 DEF VisitRead

LEMMA WritePatient ==
  ASSUME Inv, Patience, NEW c \in Accepted, VisitWrite(c)
  PROVE  Patience'
<1> USE DEF Patience
<1>1. /\ io = "write" /\ io' = "read" /\ todo # << >> /\ todo' = Tail(todo)
      /\ UNCHANGED <<signal, crashed, phase, sock, client, active, accepted, readable, wire, rbuf,
                     text, delivered, handled>>
  BY DEF VisitWrite, IOAt, sockVars, procVars
<1>2. UNCHANGED flags
  BY Domains DEF VisitWrite, Serving
<1>3. VisitedOnce' /\ \A i \in 1..Len(todo') : i + 1 \in 1..Len(todo) /\ todo'[i] = todo[i + 1]
  BY <1>1, TailVisits
<1>4. DataThere'
  BY <1>1, <1>3 DEF DataThere
<1>5. OneRequest'
  BY <1>1, OneRequestKept
<1>6. AnswersHandled'
  <2>1. CASE UNCHANGED <<sbuf, answered>>
    BY <1>1, <2>1, PatienceStable
  <2>2. ASSUME NEW n \in 1..Len(sbuf[c]), sbuf' = [sbuf EXCEPT ![c] = SubSeq(@, n + 1, Len(@))],
               answered' = answered \cup
                      {<<c, sbuf[c][i].rank>> : i \in {j \in 1..n : sbuf[c][j].conn = c}}
        PROVE  AnswersHandled'
    <3>1. sbuf[c] \in Seq(Request) /\ sbuf \in [Conns -> Seq(Request)] /\ c \in Conns
          /\ n \in 1..Len(sbuf[c]) /\ Len(sbuf[c]) \in Nat
      BY Domains DEF Inv, TypeOK, ConnTypeOK
    <3>2. answered' \subseteq handled'
      <4>1. \A i \in 1..n : i \in 1..Len(sbuf[c])
        BY <3>1
      <4>2. \A i \in 1..n : sbuf[c][i].conn = c => <<c, sbuf[c][i].rank>> \in handled
        BY <4>1 DEF AnswersHandled
      <4> QED
        BY <1>1, <2>2, <4>2 DEF AnswersHandled
    <3>3. ASSUME NEW d \in Accepted, NEW i \in 1..Len(sbuf'[d])
          PROVE  <<sbuf'[d][i].conn, sbuf'[d][i].rank>> \in handled'
      <4>1. CASE d = c
        <5>1. sbuf'[c] = SubSeq(sbuf[c], n + 1, Len(sbuf[c]))
          BY <2>2, <3>1
        <5>2. i + n \in 1..Len(sbuf[c]) /\ sbuf'[c][i] = sbuf[c][i + n]
          BY <3>1, <4>1, <5>1
        <5> QED
          BY <1>1, <4>1, <5>2 DEF AnswersHandled
      <4>2. CASE d # c
        BY <1>1, <2>2, <3>1, <4>2, Domains DEF AnswersHandled
      <4> QED
        BY <4>1, <4>2
    <3> QED
      BY <3>2, <3>3 DEF AnswersHandled
  <2> QED
    BY <2>1, <2>2 DEF VisitWrite
<1>7. Serving'
  BY <1>1, <1>2 DEF Serving
<1> QED
  BY <1>1, <1>3, <1>4, <1>5, <1>6, <1>7, PatienceStable

LEMMA WriteDonePatient ==
  ASSUME Inv, Patience, WriteDone
  PROVE  Patience'
<1> USE DEF Patience
<1>0. PICK c \in Accepted : c = Head(todo)
  BY DEF WriteDone, IOAt, Inv, Consistent, ConnVisited
<1>1. /\ io = "send" /\ io' = "write"
      /\ rbuf' = [rbuf EXCEPT ![c] = @ - 1]
      /\ text' = [text EXCEPT ![c] = IF rbuf[c] > 1 THEN 0 ELSE @]
      /\ UNCHANGED <<signal, crashed, phase, sock, client, flags, active, accepted, todo,
                     readable, wire, delivered, answered, handled, sbuf>>
  BY <1>0 DEF WriteDone, IOAt, clientVars, procVars
<1>2. Twice(c) = 1 /\ \A d \in Accepted : d # c => Twice(d) = 0
  BY <1>0, <1>1 DEF Twice
<1>3. Serving' /\ DataThere'
  BY <1>1 DEF Serving, DataThere
<1>4. OneRequest'
  <2>1. rbuf[c] = 1 /\ text' = text
    <3>1. rbuf[c] = 1
      BY <1>2 DEF OneRequest
    <3> QED
      BY <1>1, <3>1, PatientTypes
  <2>2. \A d \in Accepted : Twice(d)' = 0
    BY <1>1 DEF Twice
  <2>3. \A d \in Accepted : rbuf'[d] = 0
    BY <1>1, <1>2, <2>1, PatientTypes DEF OneRequest
  <2>4. \A d \in Accepted : wire[d] \in Nat /\ wire[d] <= 1
    BY <1>2, PatientTypes DEF OneRequest
  <2> QED
    BY <1>1, <2>1, <2>2, <2>3, <2>4 DEF OneRequest
<1> QED
  BY <1>1, <1>3, <1>4, PatienceStable

\* The passes over the list, which close nothing.
LEMMA PassPatient ==
  ASSUME Inv, Patience, StartClosePass \/ KeepConn \/ EndClosePass
  PROVE  Patience'
<1> USE DEF Patience
<1>1. /\ io \in {"read", "close"} /\ io' \in {"close", "select"}
      /\ \/ UNCHANGED todo
         \/ todo' = active
         \/ todo # << >> /\ todo' = Tail(todo)
      /\ UNCHANGED <<signal, crashed, phase, sock, client, flags, active, accepted, readable,
                     wire, rbuf, text, delivered, answered, handled, sbuf>>
  BY DEF StartClosePass, KeepConn, EndClosePass, AfterPass, IOAt, Serving, connVars, clientVars,
         sockVars, procVars
<1>2. Serving' /\ DataThere'
  BY <1>1 DEF Serving, DataThere
<1>3. VisitedOnce'
  <2>1. CASE todo' = active
    BY <2>1 DEF VisitedOnce, ListedOnce
  <2>2. CASE todo # << >> /\ todo' = Tail(todo)
    BY <2>2, TailVisits
  <2> QED
    BY <1>1, <2>1, <2>2, PatienceStable
<1>4. OneRequest'
  BY <1>1, OneRequestKept
<1> QED
  BY <1>1, <1>2, <1>3, <1>4, PatienceStable

\* What is at the head of the stream was delivered last on its connection, since all
\* before it was handled; so its text is still there.
LEMMA HeadIntact ==
  ASSUME Parts = 1, Inv, Once, Patience, stream # << >>
  PROVE  Head(stream).part = 1 /\ Intact(Head(stream).req)
<1>1. stream \in Seq(Fragment)
  BY DEF Inv, TypeOK, SockTypeOK
<1>2. Head(stream) \in Fragment
  BY <1>1
<1>3. PICK r \in Request, c \in Accepted, k \in 1..MaxReqs :
         Head(stream).req = r /\ Head(stream).part = 1 /\ r.conn = c /\ r.rank = k
  BY <1>2 DEF Fragment, Request
<1>4. Head(stream) \in HeadOf(c, k)
  BY <1>2, <1>3 DEF HeadOf
<1>5. InStream(c, k) >= 1
  <2>1. InStream(c, k) = HowMany(Tail(stream), HeadOf(c, k)) + 1
    <3>1. HowMany(stream, HeadOf(c, k)) = HowMany(Tail(stream), HeadOf(c, k))
                                            + (IF Head(stream) \in HeadOf(c, k) THEN 1 ELSE 0)
      BY <1>1, CountTail
    <3> QED
      BY <1>4, <3>1 DEF InStream
  <2>2. HowMany(Tail(stream), HeadOf(c, k)) \in Nat
    <3>1. Tail(stream) \in Seq(Fragment)
      BY <1>1
    <3> QED
      BY <3>1, CountType
  <2> QED
    BY <2>1, <2>2
<1>6. /\ Copies(c, k) <= (IF k <= delivered[c] THEN 1 ELSE 0)
      /\ Copies(c, k) >= 1 + InHandled(c, k)
  <2>1. Copies(c, k) <= (IF k <= delivered[c] THEN 1 ELSE 0)
    BY <1>3 DEF Once, OnceAt
  <2>2. /\ Copies(c, k) = Places(c, k)
        /\ InPend(c, k) \in Nat /\ InStream(c, k) \in Nat /\ InWorkers(c, k) \in Nat
        /\ InCtl(c, k) \in Nat /\ InMsg(c, k) \in {0, 1} /\ InHandled(c, k) \in {0, 1}
    BY <1>3, CopiesInt
  <2> QED
    BY <1>5, <2>1, <2>2 DEF Places
<1>7. InHandled(c, k) \in {0, 1} /\ Copies(c, k) \in Nat
  BY <1>3, CopiesInt
<1>8. k <= delivered[c] /\ <<c, k>> \notin handled
  BY <1>6, <1>7 DEF InHandled
<1>9. k = delivered[c]
  BY <1>3, <1>8, PatientTypes DEF Patience, OneOpen
<1> QED
  BY <1>3, <1>9 DEF Intact, Patience, OneRequest

LEMMA WorkerPatient ==
  ASSUME Parts = 1, Inv, Once, Patience, NEW w \in Workers, Worker(w)
  PROVE  Patience'
<1> USE DEF Patience
<1>1. UNCHANGED <<signal, phase, sock, io, client, flags, active, accepted, todo, readable, wire,
                  rbuf, text, delivered, answered, handled, sbuf>>
  BY DEF Worker, TestSignal, WorkerRead, WorkerReadFails, WorkerBroadcast, WorkerAck, ioVars,
         connVars, clientVars, sockVars, procVars
<1>2. ~crashed'
  <2>1. CASE WorkerRead(w)
    <3>1. stream # << >> /\ stream \in Seq(Fragment)
      BY <2>1 DEF WorkerRead, Inv, TypeOK, SockTypeOK
    <3>2. Head(stream).part = 1 /\ Intact(Head(stream).req)
      BY <3>1, HeadIntact
    <3>3. ~(Taken < Parts)
      BY <3>1 DEF Taken
    <3> QED
      BY <2>1, <3>2, <3>3 DEF WorkerRead, WorkerAt
  <2>2. ~WorkerReadFails(w)
    BY DEF WorkerReadFails, Serving
  <2>3. CASE TestSignal(w) \/ WorkerBroadcast(w) \/ WorkerAck(w)
    BY <2>3 DEF TestSignal, WorkerBroadcast, WorkerAck, procVars, Serving
  <2> QED
    BY <2>1, <2>2, <2>3 DEF Worker
<1>3. Serving'
  BY <1>1, <1>2 DEF Serving
<1> QED
  BY <1>1, <1>3, PatienceStable

LEMMA NextPatient ==
  ASSUME Env = {}, Parts = 1
  PROVE  Inv /\ Inv' /\ Once /\ Patience /\ [Next]_vars => Patience'
<1> SUFFICES ASSUME Inv, Inv', Once, Patience, [Next]_vars
             PROVE  Patience'
  OBVIOUS
\* What these clients and this operator do not do, and what the server then does not.
<1>1. ~SignalHandler /\ \A c \in Accepted : ~ClientFin(c) /\ ~ClientReset(c)
  BY DEF SignalHandler, ClientFin, ClientReset
<1>2. ~CloseConn /\ ~CloseConnDelivering
  <2>1. io = "close" /\ todo # << >> => ~MustClose(Head(todo))
    BY PatientTypes DEF MustClose, Patience, Serving, Inv, TypeOK, IOTypeOK
  <2> QED
    BY <2>1 DEF CloseConn, CloseConnDelivering, IOAt
<1>3. ~WriteDoneClosing /\ ~FreeCtl /\ ~CloseSock0 /\ ~CloseSock1
  BY DEF WriteDoneClosing, FreeCtl, CloseSock0, CloseSock1, IOAt, Patience, Serving
<1>4. ASSUME UNCHANGED <<signal, crashed, phase, sock, io, client, flags, active, accepted, todo,
                         readable, wire, rbuf, text, delivered, answered, handled, sbuf>>
      PROVE  Patience'
  BY <1>4, PatienceStable DEF Patience
<1>5. CASE ClientConnect \/ WriteSome \/ UNCHANGED vars
  BY <1>4, <1>5
     DEF ClientConnect, WriteSome, vars, serverVars, ioVars, connVars, clientVars, sockVars,
         procVars
<1>6. CASE Client
  BY <1>1, <1>5, <1>6, ClientSendPatient DEF Client
<1>7. CASE IOThread
  BY <1>2, <1>3, <1>5, <1>7, SelectPatient, CtlPatient, CallbackPatient, ListenerPatient,
     ReadPatient, WritePatient, WriteDonePatient, PassPatient DEF IOThread
<1>8. CASE \E w \in Workers : Worker(w)
  BY <1>8, WorkerPatient
<1> QED
  BY <1>1, <1>5, <1>6, <1>7, <1>8 DEF Next

LEMMA PatientInvariance ==
  ASSUME Env = {}, Parts = 1
  PROVE  SafeSpec => []Patience
<1>1. Init => Patience
  <2> SUFFICES ASSUME Init
               PROVE  Patience
    OBVIOUS
  <2>1. Serving /\ VisitedOnce /\ DataThere
    BY DEF Init, Serving, VisitedOnce, DataThere
  <2>2. ListedOnce
    BY DEF Init, ListedOnce, Listener
  <2>3. OneRequest /\ OneOpen /\ AnswersHandled
    BY Domains DEF Init, OneRequest, Twice, OneOpen, AnswersHandled
  <2> QED
    BY <2>1, <2>2, <2>3 DEF Patience
<1>2. Inv /\ Inv' /\ Once /\ Patience /\ [Next]_vars => Patience'
  BY NextPatient
<1> QED
  BY <1>1, <1>2, Invariance, OnceInvariance, PTL DEF SafeSpec

\* Clients that wait for each answer and stay: no worker reads the text of a request
\* after the next read or a close took its bytes, nor from a closed socket.
THEOREM TextKeptForWorkers ==
  ASSUME Env = {}, Parts = 1
  PROVE  SafeSpec => []WorkersReadWhatWasSent
<1>1. Patience => WorkersReadWhatWasSent
  BY DEF Patience, Serving, WorkersReadWhatWasSent
<1>2. SafeSpec => []Patience
  BY PatientInvariance
<1> QED
  BY <1>1, <1>2, PTL
-------------------------------------------------------------------------------
(* When the write on sock[0] always returns *)

\* One request of a connection is open at a time.
LEMMA OnePerConnection ==
  ASSUME Inv, Patience
  PROVE  Cardinality(OpenRequests) <= MaxConns
<1> DEFINE f == [r \in OpenRequests |-> r[1]]
<1>1. ASSUME NEW r \in OpenRequests
      PROVE  r = <<r[1], r[2]>> /\ r[1] \in Accepted /\ r[2] = delivered[r[1]]
  <2>1. r = <<r[1], r[2]>> /\ r[1] \in Accepted /\ r[2] \in 1..MaxReqs
        /\ r[2] <= delivered[r[1]] /\ r \notin handled
    BY DEF OpenRequests
  <2>2. delivered[r[1]] \in Nat /\ r[2] \in 1..delivered[r[1]]
    BY <2>1, PatientTypes
  <2>3. ~(r[2] < delivered[r[1]])
    BY <2>1, <2>2 DEF Patience, OneOpen
  <2> QED
    BY <2>1, <2>2, <2>3
<1>2. f \in Injection(OpenRequests, Accepted)
  <2>1. f \in [OpenRequests -> Accepted]
    BY <1>1
  <2>2. ASSUME NEW r \in OpenRequests, NEW s \in OpenRequests, f[r] = f[s]
        PROVE  r = s
    <3>1. r[1] = s[1]
      BY <2>2
    <3>2. r[2] = s[2]
      BY <1>1, <3>1
    <3> QED
      BY <1>1, <3>1, <3>2
  <2> QED
    BY <2>1, <2>2 DEF Injection, IsInjective
<1>3. IsFiniteSet(Accepted) /\ Cardinality(Accepted) <= MaxConns
  BY Domains, FS_Interval DEF Accepted
<1>4. Cardinality(OpenRequests) <= Cardinality(Accepted)
  BY <1>2, <1>3, FS_Injection
<1>5. Cardinality(Accepted) \in Nat /\ Cardinality(OpenRequests) \in Nat /\ MaxConns \in Nat
  BY <1>3, Domains, OpenFinite, FS_CardinalityType
<1> QED
  BY <1>3, <1>4, <1>5

\* With clients that wait and stay, as many connections as the stream has room for and
\* there are workers can never block the IO thread for good.
THEOREM NeverDeadlocked ==
  ASSUME Env = {}, Parts = 1, MaxConns <= Cap + Cardinality(Workers)
  PROVE  SafeSpec => []~Deadlocked
<1>1. Inv /\ Once /\ Carried /\ CtlAccounting /\ Patience => ~Deadlocked
  <2> SUFFICES ASSUME Inv, Once, Carried, CtlAccounting, Patience, Deadlocked
               PROVE  FALSE
    OBVIOUS
  <2>1. Parts * (Cardinality(OpenRequests) + 1 - Cardinality(Workers)) > Cap + 1
    BY LoadNeeded
  <2>2. Cardinality(OpenRequests) <= MaxConns
    BY OnePerConnection
  <2>3. Cap \in Nat /\ Cardinality(Workers) \in Nat /\ Cardinality(OpenRequests) \in Nat
        /\ MaxConns \in Nat
    BY ConstantsAssumption, FS_CardinalityType, OpenFinite
  <2> QED
    BY <2>1, <2>2, <2>3
<1>2. SafeSpec => []Patience
  BY PatientInvariance
<1> QED
  BY <1>1, <1>2, Invariance, OnceInvariance, CarriedInvariance, Accounting, PTL
===============================================================================
