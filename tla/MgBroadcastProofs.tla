--------------------------- MODULE MgBroadcastProofs ---------------------------
(* The accounting of mg_broadcast() for any number of threads. *)
EXTENDS MgBroadcast, FiniteSetTheorems, TLAPS

LEMMA TypeCorrect == SafeSpec => []TypeOK
<1>1. Init => TypeOK
  <2> SUFFICES ASSUME Init
               PROVE  TypeOK
    OBVIOUS
  <2>1. caller \in [Callers -> {"idle", "waiting"}]
    BY DEF Init
  <2>2. ctl \in Seq(Payload)
    BY DEF Init
  <2>3. acks \in Nat /\ open \in BOOLEAN /\ calling \in BOOLEAN
    BY DEF Init
  <2> QED
    BY <2>1, <2>2, <2>3 DEF TypeOK
<1>2. TypeOK /\ [Next]_vars => TypeOK'
  <2> SUFFICES ASSUME TypeOK, [Next]_vars
               PROVE  TypeOK'
    OBVIOUS
  <2> USE DEF TypeOK
  <2>1. ASSUME NEW c \in Callers, Broadcast(c)
        PROVE  TypeOK'
    BY <2>1 DEF Broadcast
  <2>2. ASSUME NEW c \in Callers, Release(c)
        PROVE  TypeOK'
    BY <2>2 DEF Release, ByteQueued
  <2>3. ASSUME NEW c \in Callers, Abandon(c)
        PROVE  TypeOK'
    BY <2>3 DEF Abandon
  <2>4. CASE Take
    BY <2>4 DEF Take, Acknowledged
  <2>5. CASE Callback
    BY <2>5 DEF Callback
  <2>6. CASE Close
    <3>1. ctl' \in Seq(Payload)
      BY <2>6 DEF Close
    <3> QED
      BY <2>6, <3>1 DEF Close
  <2>7. CASE UNCHANGED vars
    BY <2>7 DEF vars
  <2> QED
    BY <2>1, <2>2, <2>3, <2>4, <2>5, <2>6, <2>7 DEF Next, IO
<1> QED
  BY <1>1, <1>2, PTL DEF SafeSpec

\* One caller more or one caller less in Waiting.
LEMMA WaitingFinite ==
  ASSUME IsFiniteSet(Callers)
  PROVE  IsFiniteSet(Waiting) /\ Cardinality(Waiting) \in Nat
BY FS_Subset, FS_CardinalityType DEF Waiting

LEMMA WaitingGrows ==
  ASSUME IsFiniteSet(Callers), TypeOK, NEW c \in Callers,
         caller[c] = "idle", caller' = [caller EXCEPT ![c] = "waiting"]
  PROVE  Cardinality(Waiting') = Cardinality(Waiting) + 1
<1>1. Waiting' = Waiting \cup {c} /\ c \notin Waiting
  BY DEF Waiting, TypeOK
<1> QED
  BY <1>1, WaitingFinite, FS_AddElement

LEMMA WaitingShrinks ==
  ASSUME IsFiniteSet(Callers), TypeOK, NEW c \in Callers,
         caller[c] = "waiting", caller' = [caller EXCEPT ![c] = "idle"]
  PROVE  Cardinality(Waiting') = Cardinality(Waiting) - 1
<1>1. Waiting' = Waiting \ {c} /\ c \in Waiting
  BY DEF Waiting, TypeOK
<1> QED
  BY <1>1, WaitingFinite, FS_RemoveElement

\* While the pair is open, each thread blocked in mg_broadcast() has its message
\* or a byte in the pair: CtlAccounting is inductive relative to TypeOK.
THEOREM Accounting ==
  ASSUME IsFiniteSet(Callers)
  PROVE  SafeSpec => []CtlAccounting
<1>1. Init => CtlAccounting
  <2> SUFFICES ASSUME Init
               PROVE  CtlAccounting
    OBVIOUS
  <2>1. Waiting = {}
    BY DEF Init, Waiting
  <2> QED
    BY <2>1, FS_EmptySet DEF Init, CtlAccounting
<1>2. TypeOK /\ CtlAccounting /\ [Next]_vars => CtlAccounting'
  <2> SUFFICES ASSUME TypeOK, CtlAccounting, [Next]_vars
               PROVE  CtlAccounting'
    OBVIOUS
  <2>0. Cardinality(Waiting) \in Nat /\ Len(ctl) \in Nat
    BY WaitingFinite DEF TypeOK
  <2>1. ASSUME NEW c \in Callers, Broadcast(c)
        PROVE  CtlAccounting'
    <3>1. PICK m \in Payload : ctl' = Append(ctl, m)
      BY <2>1 DEF Broadcast
    <3>2. Len(ctl') = Len(ctl) + 1
      BY <3>1 DEF TypeOK
    <3>3. Cardinality(Waiting') = Cardinality(Waiting) + 1
      BY <2>1, WaitingGrows DEF Broadcast
    <3> QED
      BY <2>0, <2>1, <3>2, <3>3 DEF Broadcast, CtlAccounting, TypeOK
  <2>2. ASSUME NEW c \in Callers, Release(c)
        PROVE  CtlAccounting'
    <3>1. Cardinality(Waiting') = Cardinality(Waiting) - 1
      BY <2>2, WaitingShrinks DEF Release
    <3> QED
      BY <2>0, <2>2, <3>1 DEF Release, ByteQueued, CtlAccounting, TypeOK
  <2>3. ASSUME NEW c \in Callers, Abandon(c)
        PROVE  CtlAccounting'
    BY <2>3 DEF Abandon, Broken, CtlAccounting
  <2>4. CASE Take
    <3>1. Len(ctl') = Len(ctl) - 1
      BY <2>4 DEF Take, TypeOK
    <3>2. Waiting' = Waiting
      BY <2>4 DEF Take, Waiting
    <3> QED
      BY <2>0, <2>4, <3>1, <3>2 DEF Take, Acknowledged, CtlAccounting, TypeOK
  <2>5. CASE Callback
    BY <2>5 DEF Callback, CtlAccounting, Waiting
  <2>6. CASE Close
    BY <2>6 DEF Close, CtlAccounting
  <2>7. CASE UNCHANGED vars
    BY <2>7 DEF vars, CtlAccounting, Waiting
  <2> QED
    BY <2>1, <2>2, <2>3, <2>4, <2>5, <2>6, <2>7 DEF Next, IO
<1> QED
  BY <1>1, <1>2, TypeCorrect, PTL DEF SafeSpec
===============================================================================
