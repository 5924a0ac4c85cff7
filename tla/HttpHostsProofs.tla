---------------------------- MODULE HttpHostsProofs ----------------------------
(***************************************************************************)
(* For any number of clients, requests and calls of Bind(): the types, the *)
(* life of connections, TLS, the answers owed at Close(), and that only    *)
(* misuse reaches freed memory.                                            *)
(***************************************************************************)
EXTENDS HttpHosts, TLAPS

Typed ==
    /\ host \in Hosts /\ mgr \in {"zero", "live", "freed"}
    /\ active \subseteq Nodes
    /\ mgr # "live" => active = {}
    /\ tls \in BOOLEAN /\ cert \in BOOLEAN /\ freeing \in BOOLEAN
    /\ pc \in {"program", "visit", "free", "returned"}
    /\ todo \subseteq active
    /\ ready.r \subseteq Nodes /\ ready.w \subseteq Conns
    /\ flagged \subseteq In(active)
    /\ out \in [Conns -> Nat] /\ answers \in [Conns -> Nat]
    /\ client \in [Conns -> {"away", "backlog", "open", "left"}]
    /\ request \in [Conns -> {"none", "hello", "close"}]
    /\ asks \in [Conns -> 0..MaxAsks] /\ told \in [Conns -> Nat]
    /\ owed \in [Conns -> Nat]
    /\ undefined \in BOOLEAN /\ bound \in BOOLEAN /\ stopped \in BOOLEAN
    /\ dropped \subseteq Conns

\* Where the control is, and what it must have there.
Control ==
    /\ pc # "visit" => todo = {} /\ flagged = {}
    /\ pc \in {"visit", "free"} => mgr = "live"
    /\ pc = "free" => freeing
    /\ freeing => pc \in {"visit", "free"} /\ host = "dll" /\ ~bound
    /\ bound => mgr = "live"
    /\ host # "dll" => mgr # "freed"

\* Each answer, sent or buffered, has its request.
Asked(c) == IF request[c] = "hello" THEN 1 ELSE 0
Counted  == \A c \in Conns : answers[c] + out[c] + Asked(c) <= asks[c]

\* A client that was not accepted has nothing from the server yet.
Unaccepted ==
    \A c \in Conns : client[c] \in {"away", "backlog"} =>
        /\ out[c] = 0 /\ answers[c] = 0 /\ told[c] = 0 /\ owed[c] = 0
        /\ c \notin active \cup dropped

\* The options of Bind(), and the listener that has them.
Options ==
    /\ binds \in Seq([cert : BOOLEAN, ok : BOOLEAN])
    /\ cert <=> \E i \in DOMAIN binds : binds[i].cert
    /\ Listens => (tls <=> cert)

\* What the last poll has done so far about the answers owed.
Owing ==
    freeing => \A c \in In(active) : client[c] = "open" =>
        IF c \in todo THEN /\ answers[c] + out[c] >= owed[c]
                           /\ out[c] > 0 => c \in ready.w
                      ELSE answers[c] >= owed[c]

Inv == Typed /\ Control /\ Counted /\ Unaccepted /\ ClosedOnce /\ Options /\ Owing

USE HostsAssumption

LEMMA InvInit == Init => Inv
<1> SUFFICES ASSUME Init PROVE Inv
  OBVIOUS
<1>1. Typed
  <2>1. /\ out \in [Conns -> Nat] /\ answers \in [Conns -> Nat]
        /\ told \in [Conns -> Nat] /\ owed \in [Conns -> Nat]
        /\ asks \in [Conns -> 0..MaxAsks]
    BY DEF Init
  <2>2. /\ client \in [Conns -> {"away", "backlog", "open", "left"}]
        /\ request \in [Conns -> {"none", "hello", "close"}]
    BY DEF Init
  <2>3. ready.r = {} /\ ready.w = {}
    BY DEF Init, NoneReady
  <2> QED
    BY <2>1, <2>2, <2>3 DEF Init, Typed, In
<1>2. Control /\ Counted /\ Unaccepted /\ ClosedOnce
  BY DEF Init, Control, Counted, Asked, Unaccepted, ClosedOnce
<1>3. Options /\ Owing
  BY DEF Init, Options, Listens, Owing, In
<1> QED
  BY <1>1, <1>2, <1>3 DEF Inv

\* A Bind() adds its options to those of the calls before it.
LEMMA Appended ==
    ASSUME NEW named \in BOOLEAN, NEW ok \in BOOLEAN, Options,
           binds' = Append(binds, [cert |-> named, ok |-> ok])
    PROVE  /\ binds' \in Seq([cert : BOOLEAN, ok : BOOLEAN])
           /\ (\E i \in DOMAIN binds' : binds'[i].cert) <=> cert \/ named
<1> DEFINE call == [cert |-> named, ok |-> ok]
<1>1. /\ call \in [cert : BOOLEAN, ok : BOOLEAN]
      /\ binds \in Seq([cert : BOOLEAN, ok : BOOLEAN])
  BY DEF Options
<1>2. binds' \in Seq([cert : BOOLEAN, ok : BOOLEAN])
  BY <1>1
<1>3. /\ Len(binds) \in Nat /\ DOMAIN binds = 1..Len(binds)
      /\ DOMAIN binds' = 1..(Len(binds) + 1)
      /\ \A i \in 1..Len(binds) : binds'[i] = binds[i]
      /\ binds'[Len(binds) + 1] = call
  BY <1>1
<1>4. call.cert = named
  OBVIOUS
<1>5. CASE named
  BY <1>2, <1>3, <1>4, <1>5
<1>6. CASE ~named
  <2>1. ASSUME NEW i \in DOMAIN binds', binds'[i].cert PROVE cert
    BY <1>3, <1>4, <1>6, <2>1 DEF Options
  <2>2. ASSUME cert PROVE \E i \in DOMAIN binds' : binds'[i].cert
    <3>1. PICK i \in DOMAIN binds : binds[i].cert
      BY <2>2 DEF Options
    <3>2. i \in DOMAIN binds' /\ binds'[i].cert
      BY <1>3, <3>1
    <3> QED
      BY <3>2
  <2> QED
    BY <1>2, <1>6, <2>1, <2>2
<1> QED
  BY <1>5, <1>6

LEMMA InvBindNoPort == Inv /\ BindNoPort => Inv'
<1> SUFFICES ASSUME Inv, BindNoPort PROVE Inv'
  OBVIOUS
<1> USE DEF BindNoPort, Inv
<1>1. Typed' /\ Control'
  BY DEF Typed, Control, In, manager, poll, clients, Idle
<1>2. Counted' /\ Unaccepted'
  BY DEF Counted, Asked, Unaccepted, manager, clients
<1>3. ClosedOnce' /\ Owing'
  BY DEF ClosedOnce, Owing, In, manager, poll, clients
<1>4. Options'
  BY Appended, FALSE \in BOOLEAN DEF Options, Listens, manager
<1> QED
  BY <1>1, <1>2, <1>3, <1>4

LEMMA InvBind == \A named, ok \in BOOLEAN : Inv /\ Bind(named, ok) => Inv'
<1> SUFFICES ASSUME NEW named \in BOOLEAN, NEW ok \in BOOLEAN, Inv, Bind(named, ok)
             PROVE Inv'
  OBVIOUS
<1> USE DEF Bind, Inv
<1>1. Control /\ pc = "program" /\ todo = {} /\ flagged = {} /\ ~freeing
  BY DEF Control, Idle
<1>2. /\ active' \subseteq Nodes /\ tls' \in BOOLEAN /\ cert' \in BOOLEAN
      /\ pc' \in {"program", "returned"} /\ dropped' \subseteq Conns
  BY <1>1 DEF Typed, Nodes, In, CertKept, Listener
<1>3. client' \in [Conns -> {"away", "backlog", "open", "left"}]
  BY DEF Typed, Gone
<1>4. Typed'
  BY <1>1, <1>2, <1>3 DEF Typed, In, Inited
<1>5. Control'
  BY <1>1, <1>2 DEF Control, Inited
<1>6. Counted'
  BY DEF Counted, Asked
<1>7. \A c \in Conns : client'[c] = IF c \in Waiting THEN "left" ELSE client[c]
  BY DEF Gone
<1>8. \A c \in Conns : c \notin active' /\ (c \in dropped' <=> c \in active \cup dropped)
  BY DEF In, Listener
<1>9. Unaccepted'
  BY <1>7, <1>8 DEF Unaccepted
<1>10. ClosedOnce'
  BY <1>7, <1>8 DEF ClosedOnce
<1>11. Owing'
  BY <1>1 DEF Owing
<1>12. Options'
  BY Appended DEF Options, Listens, CertKept
<1> QED
  BY <1>4, <1>5, <1>6, <1>9, <1>10, <1>11, <1>12

\* Everything that only looks at the connections and the clients.
LEMMA Undisturbed ==
    ASSUME Inv, UNCHANGED <<manager, out, clients, told, dropped>>,
           \A c \in Conns : client[c] \in {"away", "backlog"} => owed'[c] = 0
    PROVE  Counted' /\ Unaccepted' /\ ClosedOnce'
<1> USE DEF Inv, manager, clients
<1>1. Counted'
  BY DEF Counted, Asked
<1>2. Unaccepted'
  BY DEF Unaccepted
<1>3. ClosedOnce'
  BY DEF ClosedOnce
<1> QED
  BY <1>1, <1>2, <1>3

LEMMA InvPoll == Inv /\ (StartListen \/ Close) => Inv'
<1> SUFFICES ASSUME Inv, NEW free \in BOOLEAN, Uses(free), MgrPoll(free),
                    free => host = "dll",
                    owed' = IF free THEN [c \in Conns |-> answers[c] + out[c]] ELSE owed
             PROVE  Inv'
  BY DEF StartListen, Close, LastPoll
<1> USE DEF Inv
<1>1. /\ UNCHANGED <<manager, out, clients, told, dropped>>
      /\ UNCHANGED <<host, flagged, binds, stopped>>
      /\ pc = "program" /\ ~freeing /\ todo = {} /\ flagged = {}
      /\ bound' = (bound /\ ~free)
  BY DEF Uses, Control, Idle
<1>2. owed' \in [Conns -> Nat]
  BY DEF Typed
<1>3. /\ Counted' /\ Unaccepted' /\ ClosedOnce'
  <2>1. \A c \in Conns : client[c] \in {"away", "backlog"} => owed'[c] = 0
    BY DEF Unaccepted
  <2> QED
    BY <1>1, <2>1, Undisturbed
<1>4. Options'
  BY <1>1 DEF Options, Listens, manager
<1>5. CASE mgr = "live" /\ Begin(free)
  <2>1. ready'.r \subseteq Nodes /\ ready'.w = {c \in In(active) : out[c] > 0}
    BY <1>5 DEF Begin, Typed, In, Nodes
  <2>2. Typed'
    BY <1>1, <1>2, <1>5, <2>1 DEF Begin, Typed, In, Nodes, manager, clients
  <2>3. Control'
    BY <1>1, <1>5 DEF Begin, Control, Typed, manager
  <2>4. Owing'
    BY <1>1, <1>5, <2>1 DEF Begin, Owing, Typed, In, Nodes, manager, clients
  <2> QED
    BY <1>3, <1>4, <2>2, <2>3, <2>4
<1>6. CASE mgr = "zero" /\ UNCHANGED <<pc, freeing, todo, ready, undefined>>
  <2>1. Typed' /\ Control' /\ Owing'
    BY <1>1, <1>2, <1>6 DEF Typed, In, Control, Owing, manager, clients
  <2> QED
    BY <1>3, <1>4, <2>1
<1>7. CASE mgr = "freed" /\ undefined' = TRUE /\ UNCHANGED <<pc, freeing, todo, ready>>
  <2>1. Typed' /\ Control' /\ Owing'
    BY <1>1, <1>2, <1>7 DEF Typed, In, Control, Owing, manager, clients
  <2> QED
    BY <1>3, <1>4, <2>1
<1> QED
  BY <1>5, <1>6, <1>7 DEF MgrPoll

LEMMA InvVisitListener == Inv /\ VisitListener => Inv'
<1> SUFFICES ASSUME Inv, VisitListener PROVE Inv'
  OBVIOUS
<1> USE DEF VisitListener, Visit, program, Inv
<1>1. CASE UNCHANGED <<client, active>>
  <2>1. Typed' /\ Control'
    BY <1>1 DEF Typed, Control, In
  <2>2. Counted' /\ Unaccepted' /\ ClosedOnce'
    BY <1>1, Undisturbed DEF manager, clients, Unaccepted
  <2>3. Owing'
    BY <1>1 DEF Owing, In, Listener
  <2>4. Options'
    BY <1>1 DEF Options, Listens
  <2> QED
    BY <2>1, <2>2, <2>3, <2>4
<1>2. ASSUME NEW c \in Waiting, client' = [client EXCEPT ![c] = "open"],
             active' = active \cup {c}
      PROVE  Inv'
  <2>1. c \in Conns /\ client[c] = "backlog" /\ c # Listener
    BY DEF Waiting, Listener
  <2>2. \A d \in Conns : client'[d] = IF d = c THEN "open" ELSE client[d]
    BY <1>2, <2>1 DEF Typed
  <2>3. c \notin active \cup dropped /\ out[c] = 0 /\ answers[c] = 0 /\ told[c] = 0
        /\ owed[c] = 0
    BY <2>1 DEF Unaccepted
  <2>4. Typed'
    BY <1>2, <2>1 DEF Typed, In, Nodes
  <2>5. Control'
    BY <1>2 DEF Control
  <2>6. Counted'
    BY DEF Counted, Asked
  <2>7. Unaccepted' /\ ClosedOnce'
    BY <1>2, <2>2, <2>3 DEF Unaccepted, ClosedOnce
  <2>8. Owing'
    BY <1>2, <2>2, <2>3 DEF Owing, Typed, In, Nodes
  <2>9. Options'
    BY <1>2, <2>1 DEF Options, Listens
  <2> QED
    BY <2>4, <2>5, <2>6, <2>7, <2>8, <2>9
<1> QED
  BY <1>1, <1>2

\* What the second half of a visit does to the answers of a connection.
LEMMA Written ==
    ASSUME NEW c \in Conns, NEW buffered \in Nat, Writes(c, buffered),
           Typed, client' = client, buffered >= out[c]
    PROVE  /\ out' \in [Conns -> Nat] /\ answers' \in [Conns -> Nat]
           /\ \A d \in Conns \ {c} : out'[d] = out[d] /\ answers'[d] = answers[d]
           /\ answers'[c] + out'[c] <= answers[c] + buffered
           /\ client[c] = "open" /\ (out[c] > 0 => c \in ready.w) =>
                  \/ out[c] = 0 /\ answers'[c] = answers[c]
                  \/ answers'[c] >= answers[c] + out[c]
<1> USE DEF Writes
<1>1. CASE c \in ready.w
  BY <1>1 DEF Typed
<1>2. CASE c \notin ready.w
  BY <1>2 DEF Typed
<1> QED
  BY <1>1, <1>2

LEMMA InvVisit ==
    ASSUME NEW c \in Conns, Inv, OnHello(c) \/ OnClose(c) \/ VisitOther(c)
    PROVE  Inv'
<1> USE DEF Inv
<1>1. /\ UNCHANGED <<host, manager, client, asks, told, binds, bound, dropped, owed,
                     pc, freeing, ready>>
      /\ pc = "visit" /\ c \in todo /\ todo' = todo \ {c}
  BY DEF OnHello, OnClose, VisitOther, Reads, Visit, program
<1>2. /\ undefined' \in BOOLEAN /\ stopped' \in BOOLEAN
      /\ flagged' \in {flagged, flagged \cup {c}}
  BY DEF Typed, OnHello, OnClose, VisitOther, program, HandlerFrees
<1>3. c \in In(active)
  BY <1>1 DEF Typed, In, Listener
<1>4. PICK buffered \in Nat :
        /\ Writes(c, buffered) /\ buffered >= out[c]
        /\ request' \in [Conns -> {"none", "hello", "close"}]
        /\ \A d \in Conns \ {c} : request'[d] = request[d]
        /\ buffered + Asked(c)' <= out[c] + Asked(c)
  <2>1. CASE OnHello(c)
    BY <2>1 DEF OnHello, Reads, Typed, Asked
  <2>2. CASE OnClose(c)
    BY <2>2 DEF OnClose, Reads, Typed, Asked
  <2>3. CASE VisitOther(c)
    BY <2>3 DEF VisitOther, Typed, Asked
  <2> QED
    BY <2>1, <2>2, <2>3
<1>5. /\ out' \in [Conns -> Nat] /\ answers' \in [Conns -> Nat]
      /\ \A d \in Conns \ {c} : out'[d] = out[d] /\ answers'[d] = answers[d]
      /\ answers'[c] + out'[c] <= answers[c] + buffered
      /\ client[c] = "open" /\ (out[c] > 0 => c \in ready.w) =>
             \/ out[c] = 0 /\ answers'[c] = answers[c]
             \/ answers'[c] >= answers[c] + out[c]
  BY <1>1, <1>4, Written
<1>6. Typed'
  BY <1>1, <1>2, <1>3, <1>4, <1>5 DEF Typed, In, manager
<1>7. Control'
  BY <1>1 DEF Control, manager
<1>8. Counted'
  <2> SUFFICES ASSUME NEW d \in Conns
               PROVE  answers'[d] + out'[d] + Asked(d)' <= asks[d]
    BY <1>1 DEF Counted
  <2>1. CASE d = c
    BY <1>4, <1>5, <2>1 DEF Counted, Typed, Asked
  <2>2. CASE d # c
    BY <1>4, <1>5, <2>2 DEF Counted, Asked
  <2> QED
    BY <2>1, <2>2
<1>9. Unaccepted'
  BY <1>1, <1>3, <1>5 DEF Unaccepted, manager, In
<1>10. ClosedOnce'
  BY <1>1 DEF ClosedOnce, manager
<1>11. Owing'
  <2> SUFFICES ASSUME freeing, NEW d \in In(active), client[d] = "open"
               PROVE  IF d \in todo \ {c} THEN /\ answers'[d] + out'[d] >= owed[d]
                                               /\ out'[d] > 0 => d \in ready.w
                                          ELSE answers'[d] >= owed[d]
    BY <1>1 DEF Owing, In, manager
  <2>1. d \in Conns /\ owed[d] \in Nat /\ answers[d] \in Nat /\ out[d] \in Nat
    BY DEF Typed, In, Nodes
  <2>2. CASE d = c
    BY <1>1, <1>5, <2>1, <2>2 DEF Owing, Typed
  <2>3. CASE d # c
    BY <1>5, <2>1, <2>3 DEF Owing
  <2> QED
    BY <2>2, <2>3
<1>12. Options'
  BY <1>1 DEF Options, Listens, manager
<1> QED
  BY <1>6, <1>7, <1>8, <1>9, <1>10, <1>11, <1>12

\* mg_close_conn() for a set of connections on the list.
LEMMA Closed ==
    ASSUME Inv, NEW set \in SUBSET active, NEW gone \in SUBSET Conns, CloseConns(set),
           client' = Gone(gone), In(set) \subseteq gone, gone \subseteq In(set) \cup Waiting,
           UNCHANGED <<out, answers, request, asks, dropped>>,
           \A c \in Conns : client[c] \in {"away", "backlog"} => owed'[c] = 0
    PROVE  /\ client' \in [Conns -> {"away", "backlog", "open", "left"}]
           /\ told' \in [Conns -> Nat]
           /\ Counted' /\ Unaccepted' /\ ClosedOnce'
<1> USE DEF Inv
<1>1. /\ active' = active \ set /\ client' \in [Conns -> {"away", "backlog", "open", "left"}]
      /\ told' \in [Conns -> Nat]
  BY DEF CloseConns, Left, Gone, Typed
<1>2. \A c \in Conns : /\ client'[c] = IF c \in gone THEN "left" ELSE client[c]
                       /\ told'[c] = IF c \in set THEN told[c] + 1 ELSE told[c]
  BY DEF CloseConns, Gone
<1>3. \A c \in Conns : c \in In(set) <=> c \in set
  BY DEF In, Listener
<1>4. Counted'
  BY DEF Counted, Asked
<1>5. Unaccepted'
  BY <1>1, <1>2, <1>3 DEF Unaccepted
<1>6. ClosedOnce'
  <2> SUFFICES ASSUME NEW c \in Conns
               PROVE  /\ told'[c] <= 1
                      /\ told'[c] = 1 => c \notin active' \cup dropped
                      /\ c \in dropped => c \notin active'
                      /\ client'[c] = "open" => c \in active' \cup dropped
    BY DEF ClosedOnce
  <2>1. told[c] \in Nat
    BY DEF Typed
  <2>2. CASE c \in set
    BY <1>1, <1>2, <1>3, <2>1, <2>2 DEF ClosedOnce
  <2>3. CASE c \notin set
    BY <1>1, <1>2, <1>3, <2>1, <2>3 DEF ClosedOnce, Waiting
  <2> QED
    BY <2>2, <2>3
<1> QED
  BY <1>1, <1>4, <1>5, <1>6

LEMMA InvPass == Inv /\ Pass => Inv'
<1> SUFFICES ASSUME Inv, Pass PROVE Inv'
  OBVIOUS
<1> USE DEF Pass, Inv, program
<1>1. flagged \subseteq In(active) /\ flagged \subseteq Conns /\ In(flagged) = flagged
  BY DEF Typed, In, Nodes
<1>2. \A c \in Conns : client[c] \in {"away", "backlog"} => owed'[c] = 0
  BY DEF Unaccepted
<1>3. /\ client' \in [Conns -> {"away", "backlog", "open", "left"}]
      /\ told' \in [Conns -> Nat]
      /\ Counted' /\ Unaccepted' /\ ClosedOnce'
  BY <1>1, <1>2, Closed DEF In
<1>4. active' = active \ flagged /\ flagged' = {} /\ todo = {}
  BY DEF CloseConns, Left
<1>5. Typed'
  BY <1>3, <1>4 DEF Typed, In, NoneReady
<1>6. Control'
  BY <1>4 DEF Control
<1>7. Owing'
  BY <1>1, <1>4 DEF Owing, Typed, In, Nodes, Gone
<1>8. Options'
  BY <1>1, <1>4 DEF Options, Listens, In
<1> QED
  BY <1>3, <1>5, <1>6, <1>7, <1>8

LEMMA InvFree == Inv /\ Free => Inv'
<1> SUFFICES ASSUME Inv, Free PROVE Inv'
  OBVIOUS
<1> USE DEF Free, Inv
<1>1. active \cap Conns = In(active)
  BY DEF Typed, In, Nodes, Listener
<1>2. client' = Gone(In(active) \cup Waiting)
  BY <1>1 DEF Gone
<1>3. In(active) \cup Waiting \subseteq Conns
  BY <1>1 DEF Waiting
<1>4. \A c \in Conns : client[c] \in {"away", "backlog"} => owed'[c] = 0
  OBVIOUS
<1>5. /\ client' \in [Conns -> {"away", "backlog", "open", "left"}]
      /\ told' \in [Conns -> Nat]
      /\ Counted' /\ Unaccepted' /\ ClosedOnce'
  BY <1>2, <1>3, <1>4, Closed
<1>6. active' = {} /\ flagged' = {} /\ todo = {} /\ freeing
  BY DEF CloseConns, Left, Control
<1>7. Typed'
  BY <1>5, <1>6 DEF Typed, In
<1>8. Control'
  BY <1>6 DEF Control
<1>9. Owing' /\ Options'
  BY <1>6 DEF Owing, Options, Listens
<1> QED
  BY <1>5, <1>7, <1>8, <1>9

LEMMA InvClient == Inv /\ Client => Inv'
<1> SUFFICES ASSUME Inv, NEW c \in Conns,
                    Connect(c) \/ Leave(c) \/ \E kind \in {"hello", "close"} : Ask(c, kind)
             PROVE  Inv'
  BY DEF Client
<1> USE DEF Inv, manager, poll, program
<1>1. Control' /\ Options'
  BY DEF Connect, Leave, Ask, Control, Options, Listens
<1>2. CASE Connect(c)
  <2>1. \A d \in Conns : client'[d] = IF d = c THEN "backlog" ELSE client[d]
    BY <1>2 DEF Connect, Typed
  <2>2. Typed'
    BY <1>2 DEF Connect, Typed, In
  <2>3. Counted' /\ Unaccepted' /\ ClosedOnce'
    BY <1>2, <2>1 DEF Connect, Counted, Asked, Unaccepted, ClosedOnce
  <2>4. Owing'
    BY <1>2, <2>1 DEF Connect, Owing, Typed, In, Nodes
  <2> QED
    BY <1>1, <2>2, <2>3, <2>4
<1>3. CASE Leave(c)
  <2>1. \A d \in Conns : client'[d] = IF d = c THEN "left" ELSE client[d]
    BY <1>3 DEF Leave, Typed
  <2>2. Typed'
    BY <1>3 DEF Leave, Typed, In
  <2>3. Counted' /\ Unaccepted' /\ ClosedOnce'
    BY <1>3, <2>1 DEF Leave, Counted, Asked, Unaccepted, ClosedOnce
  <2>4. Owing'
    BY <1>3, <2>1 DEF Leave, Owing, Typed, In, Nodes
  <2> QED
    BY <1>1, <2>2, <2>3, <2>4
<1>4. ASSUME NEW kind \in {"hello", "close"}, Ask(c, kind) PROVE Inv'
  <2>1. \A d \in Conns : /\ d # c => request'[d] = request[d] /\ asks'[d] = asks[d]
                         /\ asks[d] \in Nat /\ answers[d] \in Nat /\ out[d] \in Nat
    BY <1>4 DEF Ask, Typed
  <2>2. asks'[c] = asks[c] + 1 /\ request[c] = "none"
    BY <1>4 DEF Ask, Typed
  <2>3. Typed'
    BY <1>4 DEF Ask, Typed, In
  <2>4. Counted'
    <3> SUFFICES ASSUME NEW d \in Conns
                 PROVE  answers[d] + out[d] + Asked(d)' <= asks'[d]
      BY <1>4 DEF Counted, Ask
    <3>1. CASE d = c
      BY <2>1, <2>2, <3>1 DEF Counted, Asked
    <3>2. CASE d # c
      BY <2>1, <3>2 DEF Counted, Asked
    <3> QED
      BY <3>1, <3>2
  <2>5. Unaccepted' /\ ClosedOnce' /\ Owing'
    BY <1>4 DEF Ask, Unaccepted, ClosedOnce, Owing, In
  <2> QED
    BY <1>1, <2>3, <2>4, <2>5
<1> QED
  BY <1>2, <1>3, <1>4

LEMMA InvStep == Inv /\ [Next]_vars => Inv'
<1> SUFFICES ASSUME Inv, [Next]_vars PROVE Inv'
  OBVIOUS
<1>1. CASE Next
  BY <1>1, InvBindNoPort, InvBind, InvPoll, InvVisitListener, InvVisit, InvPass,
     InvFree, InvClient DEF Next, InPoll
<1>2. CASE UNCHANGED vars
  BY <1>2 DEF vars, manager, poll, clients, program, Inv, Typed, Control, Counted,
              Asked, Unaccepted, ClosedOnce, Options, Owing, In, Listens, Listener
<1> QED
  BY <1>1, <1>2

LEMMA Invariance == SafeSpec => []Inv
  BY InvInit, InvStep, PTL DEF SafeSpec

\* The types, and that no client gets more answers than it sent requests.
THEOREM TypeCorrect == SafeSpec => []TypeOK
<1>1. Inv => TypeOK
  BY DEF Inv, Typed, TypeOK, Control, Counted, Asked
<1> QED
  BY <1>1, Invariance, PTL

\* Each connection taken is on the list, closed once, or forgotten by a Bind().
THEOREM Closing == SafeSpec => []ClosedOnce
<1>1. Inv => ClosedOnce
  BY DEF Inv
<1> QED
  BY <1>1, Invariance, PTL

\* A certificate once named in a Bind() is there for every listener after it.
THEOREM Certificates == SafeSpec => []TlsForGood
<1>1. Inv => TlsForGood
  BY DEF Inv, Options, TlsForGood
<1> QED
  BY <1>1, Invariance, PTL

\* mg_mgr_free() sends what was buffered when it was called.
THEOREM LastPollFlushes == SafeSpec => []OwedFlushed
<1>1. Inv => OwedFlushed
  BY DEF Inv, Control, Owing, OwedFlushed
<1> QED
  BY <1>1, Invariance, PTL

\* A program that keeps to the order of calls never reaches freed memory.
THEOREM OnlyMisuse == SafeSpec => HarmOnlyByMisuse
<1> DEFINE Harm == undefined' # undefined => \/ host = "dll" /\ ~bound
                                             \/ host # "http" /\ stopped'
<1>1. Inv /\ [Next]_vars => [Harm]_vars
  <2> SUFFICES ASSUME Inv, Next PROVE Harm
    BY DEF vars
  <2>1. CASE StartListen \/ Close
    BY <2>1 DEF StartListen, Close, LastPoll, MgrPoll, Begin, Uses, Inv, Control
  <2>2. CASE \E c \in Conns : OnClose(c)
    BY <2>2 DEF OnClose, HandlerFrees, Reads, Visit, Inv, Typed
  <2>3. CASE BindNoPort \/ \E named, ok \in BOOLEAN : Bind(named, ok)
    BY <2>3 DEF BindNoPort, Bind
  <2>4. CASE VisitListener \/ Pass \/ Free \/ Client
               \/ \E c \in Conns : OnHello(c) \/ VisitOther(c)
    BY <2>4 DEF VisitListener, Pass, Free, Client, Connect, Ask, Leave, OnHello, VisitOther
  <2> QED
    BY <2>1, <2>2, <2>3, <2>4 DEF Next, InPoll
<1> QED
  BY <1>1, Invariance, PTL DEF SafeSpec, HarmOnlyByMisuse
=============================================================================
