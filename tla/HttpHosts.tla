------------------------------- MODULE HttpHosts -------------------------------
(***************************************************************************)
(* The programs that keep a manager in a static variable: the calls of     *)
(* HttpInterfaces.cpp (host "dll"), made by a program in any order, and    *)
(* the two services of HttpServer.cpp, which poll for ever: "http", whose  *)
(* manager is local while Close() is given the static one, and "https".    *)
(***************************************************************************)
EXTENDS Integers, Sequences

CONSTANTS
    Hosts,      \* hosts to consider
    Conns,      \* clients, each with one connection
    MaxBinds,   \* calls of Bind(), or 1
    MaxAsks     \* requests on one connection

ASSUME HostsAssumption ==
    /\ Hosts \subseteq {"dll", "http", "https"}
    /\ "listener" \notin Conns
    /\ MaxBinds \in Nat \ {0} /\ MaxAsks \in Nat

VARIABLES
    host,
    mgr,        \* the polled manager: "zero", "live" or "freed"
    active,     \* its active_connections, the listener among them: a list in the
                \* code, whose order nothing here depends on
    tls,        \* MG_F_SSL of the listener
    cert,       \* m_bind_opts.ssl_cert is set
    pc,         \* "program" between calls, "visit", "free", "returned"
    freeing,    \* the poll is the last one, of mg_mgr_free()
    todo,       \* connections this poll has still to visit
    ready,      \* what its select() found readable and writable
    flagged,    \* MG_F_CLOSE_IMMEDIATELY
    out,        \* answers in the send_mbuf of each connection
    undefined,  \* freed memory is used
    client,     \* "away", "backlog", "open", "left"
    request,    \* the request on the wire: "none", "hello", "close"
    asks,       \* requests sent
    answers,    \* answers received
    told,       \* MG_EV_CLOSE events
    binds,      \* the calls of Bind(): did it name a certificate, did it succeed
    bound,      \* the last Bind() succeeded and no Close() came since
    dropped,    \* connections a Bind() made the manager forget
    owed,       \* answers a client should have got, had Close() come later
    stopped     \* a "/close" was handled

manager == <<mgr, active, tls, cert>>
poll    == <<pc, freeing, todo, ready, flagged>>
clients == <<client, request, asks, answers>>
program == <<binds, bound, dropped, owed, stopped>>
vars    == <<host, manager, poll, out, undefined, clients, told, program>>

Listener == "listener"

NoneReady == [r |-> {}, w |-> {}]

Init ==
    /\ host \in Hosts
    /\ mgr = "zero" /\ active = {} /\ tls = FALSE /\ cert = FALSE
    /\ pc = "program" /\ freeing = FALSE /\ todo = {} /\ flagged = {}
    /\ ready = NoneReady
    /\ out = [c \in Conns |-> 0] /\ undefined = FALSE
    /\ client = [c \in Conns |-> "away"] /\ request = [c \in Conns |-> "none"]
    /\ asks = [c \in Conns |-> 0] /\ answers = [c \in Conns |-> 0]
    /\ told = [c \in Conns |-> 0]
    /\ binds = <<>> /\ bound = FALSE /\ dropped = {}
    /\ owed = [c \in Conns |-> 0] /\ stopped = FALSE

In(set)  == set \ {Listener}
Idle     == pc = "program" /\ ~undefined
Listens  == Listener \in active

\* Clients that a listener leaves unaccepted, and those that were closed.
Gone(cs) == [c \in Conns |-> IF c \in cs THEN "left" ELSE client[c]]
Waiting  == {c \in Conns : client[c] = "backlog"}

----------------------------------------------------------------------------
\* Calls of the program that loads the DLL, and the start of a service.

\* Bind() with a port that is NULL or empty.
BindNoPort ==
    /\ Idle /\ host = "dll" /\ Len(binds) < MaxBinds
    /\ binds' = Append(binds, [cert |-> FALSE, ok |-> FALSE])
    /\ bound' = FALSE
    /\ UNCHANGED <<host, manager, poll, out, undefined, clients, told, dropped,
                   owed, stopped>>

\* m_bind_opts is cleared only when there is a certificate to put there.
CertFresh(named) == named
CertKept(named)  == named \/ cert

InitedOnce == IF mgr = "zero" THEN "live" ELSE mgr
Inited     == "live"

\* mg_mgr_init() forgets what the manager had; the address, the port or the
\* certificate may be refused (ok).
Bind(named, ok) ==
    /\ Idle /\ Len(binds) < MaxBinds
    /\ host # "dll" => mgr = "zero" /\ named = (host = "https")
    /\ mgr' = Inited
    /\ cert' = CertKept(named)
    /\ active' = IF ok THEN {Listener} ELSE {}
    /\ tls' = (ok /\ cert')
    /\ dropped' = dropped \cup In(active)
    /\ client' = Gone(Waiting)
    /\ binds' = Append(binds, [cert |-> named, ok |-> ok])
    /\ bound' = ok
    /\ pc' = IF host # "dll" /\ ~ok THEN "returned" ELSE pc
    /\ UNCHANGED <<host, freeing, todo, ready, flagged, out, undefined, request,
                   asks, answers, told, owed, stopped>>

Uses(free) ==
    /\ Idle
    /\ bound' = (bound /\ ~free)
    /\ UNCHANGED <<host, manager, flagged, out, clients, told, binds, dropped, stopped>>

Begin(free) ==
    /\ pc' = "visit" /\ freeing' = free
    /\ todo' = active
    /\ ready' = [r |-> {c \in In(active) : request[c] # "none" \/ client[c] = "left"}
                       \cup (IF Waiting # {} THEN {Listener} ELSE {}),
                 w |-> {c \in In(active) : out[c] > 0}]
    /\ UNCHANGED undefined

\* mg_mgr_poll(): no interface, a list of interfaces that was freed, or select().
MgrPoll(free) ==
    \/ mgr = "zero"  /\ UNCHANGED <<pc, freeing, todo, ready, undefined>>
    \/ mgr = "freed" /\ undefined' = TRUE /\ UNCHANGED <<pc, freeing, todo, ready>>
    \/ mgr = "live"  /\ Begin(free)

StartListen ==
    /\ host # "dll" => mgr = "live"
    /\ Uses(FALSE)
    /\ MgrPoll(FALSE)
    /\ UNCHANGED owed

\* mg_mgr_free() begins with a last poll.
LastPollNot ==
    \/ mgr # "live" /\ MgrPoll(TRUE)
    \/ mgr = "live" /\ pc' = "free" /\ freeing' = TRUE
       /\ UNCHANGED <<todo, ready, undefined>>
LastPoll == MgrPoll(TRUE)

Close ==
    /\ host = "dll"
    /\ Uses(TRUE)
    /\ LastPoll
    /\ owed' = [c \in Conns |-> answers[c] + out[c]]

----------------------------------------------------------------------------
\* One poll, as mg_socket_if_poll() walks the list.

Visit(n) ==
    /\ pc = "visit" /\ ~undefined /\ n \in todo
    /\ todo' = todo \ {n}
    /\ UNCHANGED <<pc, freeing, ready>>

AcceptsOne == Listener \in ready.r /\ In(active) = {}
Accepts    == Listener \in ready.r

\* mg_accept_conn(): one connection, which this poll does not visit any more.
VisitListener ==
    /\ Visit(Listener)
    /\ IF Accepts
         THEN \E c \in Waiting : /\ client' = [client EXCEPT ![c] = "open"]
                                 /\ active' = active \cup {c}
         ELSE UNCHANGED <<client, active>>
    /\ UNCHANGED <<host, mgr, tls, cert, flagged, out, undefined, request, asks,
                   answers, told, program>>

Reads(c, kind) ==
    /\ Visit(c)
    /\ c \in ready.r /\ request[c] = kind
    /\ request' = [request EXCEPT ![c] = "none"]

\* The other half of the visit: the answers buffered so far are written if
\* there were some when select() looked.
Writes(c, buffered) ==
    IF c \in ready.w
      THEN /\ out' = [out EXCEPT ![c] = 0]
           /\ answers' = IF client[c] = "open"
                           THEN [answers EXCEPT ![c] = @ + buffered] ELSE answers
      ELSE /\ out' = [out EXCEPT ![c] = buffered]
           /\ UNCHANGED answers

\* ev_handler(), or the program's callback with SendResponse().
OnHello(c) ==
    /\ Reads(c, "hello")
    /\ Writes(c, out[c] + 1)
    /\ UNCHANGED <<host, manager, flagged, undefined, client, asks, told, program>>

\* The request "/close", or a callback that calls Close().  The static manager
\* of HttpServer is all zero in the "http" service, so that nothing is freed
\* and nothing is answered; otherwise the connection is freed under the handler.
HandlerFreesAlways == TRUE
HandlerFrees       == host # "http"

OnClose(c) ==
    /\ Reads(c, "close")
    /\ undefined' = HandlerFrees
    /\ stopped' = TRUE
    /\ Writes(c, out[c])
    /\ UNCHANGED <<host, manager, flagged, client, asks, told, binds, bound,
                   dropped, owed>>

\* Nothing to read, or the end of the stream.
VisitOther(c) ==
    /\ Visit(c)
    /\ c \in ready.r => request[c] = "none"
    /\ flagged' = IF c \in ready.r THEN flagged \cup {c} ELSE flagged
    /\ Writes(c, out[c])
    /\ UNCHANGED <<host, manager, undefined, client, request, asks, told, program>>

LeftAll(set) == active
Left(set)    == active \ set

\* mg_close_conn() for each connection of a set.
CloseConns(set) ==
    /\ active' = Left(set)
    /\ told' = [c \in Conns |-> IF c \in set THEN told[c] + 1 ELSE told[c]]
    /\ flagged' = {}

\* The last pass of the poll.
Pass ==
    /\ pc = "visit" /\ ~undefined /\ todo = {}
    /\ CloseConns(flagged)
    /\ client' = Gone(flagged)
    /\ pc' = IF freeing THEN "free" ELSE "program"
    /\ ready' = NoneReady
    /\ UNCHANGED <<host, mgr, tls, cert, freeing, todo, out, undefined, request,
                   asks, answers, program>>

\* mg_mgr_free() after its last poll.  The manager keeps its pointers.
Free ==
    /\ pc = "free"
    /\ CloseConns(active)
    /\ client' = Gone(active \cup Waiting)
    /\ mgr' = "freed"
    /\ tls' = FALSE
    /\ pc' = "program" /\ freeing' = FALSE
    /\ owed' = [c \in Conns |-> 0]
    /\ UNCHANGED <<host, cert, todo, ready, out, undefined, request, asks, answers,
                   binds, bound, dropped, stopped>>

----------------------------------------------------------------------------
Connect(c) ==
    /\ client[c] = "away" /\ Listens
    /\ client' = [client EXCEPT ![c] = "backlog"]
    /\ UNCHANGED <<host, manager, poll, out, undefined, request, asks, answers,
                   told, program>>

Ask(c, kind) ==
    /\ client[c] \in {"backlog", "open"} /\ request[c] = "none" /\ asks[c] < MaxAsks
    /\ request' = [request EXCEPT ![c] = kind]
    /\ asks' = [asks EXCEPT ![c] = @ + 1]
    /\ UNCHANGED <<host, manager, poll, out, undefined, client, answers, told, program>>

Leave(c) ==
    /\ client[c] = "open"
    /\ client' = [client EXCEPT ![c] = "left"]
    /\ UNCHANGED <<host, manager, poll, out, undefined, request, asks, answers,
                   told, program>>

Client ==
    /\ ~undefined
    /\ \E c \in Conns :
          Connect(c) \/ Leave(c) \/ \E kind \in {"hello", "close"} : Ask(c, kind)

InPoll ==
    \/ VisitListener \/ Pass \/ Free
    \/ \E c \in Conns : OnHello(c) \/ OnClose(c) \/ VisitOther(c)

Next ==
    \/ BindNoPort \/ \E named, ok \in BOOLEAN : Bind(named, ok)
    \/ StartListen \/ Close
    \/ InPoll
    \/ Client

\* A poll ends, and the services poll for ever; when a program that loads the
\* DLL calls is its own affair.
Fairness ==
    /\ WF_vars(InPoll)
    /\ WF_vars(host # "dll" /\ StartListen)

SafeSpec == Init /\ [][Next]_vars

Spec == SafeSpec /\ Fairness

----------------------------------------------------------------------------
Nodes == Conns \cup {Listener}

\* The types; only a live manager has connections, and only some of them are
\* visited.
TypeOK ==
    /\ host \in Hosts /\ mgr \in {"zero", "live", "freed"}
    /\ active \subseteq Nodes
    /\ mgr # "live" => active = {}
    /\ tls \in BOOLEAN /\ cert \in BOOLEAN /\ freeing \in BOOLEAN
    /\ pc \in {"program", "visit", "free", "returned"}
    /\ todo \subseteq active
    /\ ready.r \subseteq Nodes /\ ready.w \subseteq Conns
    /\ flagged \subseteq In(active)
    /\ out \in [Conns -> 0..MaxAsks] /\ answers \in [Conns -> 0..MaxAsks]
    /\ client \in [Conns -> {"away", "backlog", "open", "left"}]
    /\ request \in [Conns -> {"none", "hello", "close"}]
    /\ asks \in [Conns -> 0..MaxAsks] /\ told \in [Conns -> Nat]

\* mg_close_conn(), mg_mgr_free(): every connection the server took is either
\* on the list, or closed with one MG_EV_CLOSE, or was forgotten by a Bind().
ClosedOnce ==
    \A c \in Conns :
        /\ told[c] <= 1
        /\ told[c] = 1 => c \notin active \cup dropped
        /\ c \in dropped => c \notin active
        /\ client[c] = "open" => c \in active \cup dropped

\* Bind(): m_bind_opts outlives the call, so that after one Bind() with a
\* certificate, even one that failed, every listener speaks TLS.
TlsForGood == Listens => (tls <=> \E i \in DOMAIN binds : binds[i].cert)

\* mg_mgr_free(), "Do one last poll": answers that were buffered when Close()
\* was called have been sent before the connections are closed.
OwedFlushed ==
    pc = "free" => \A c \in In(active) : client[c] = "open" => answers[c] >= owed[c]

\* HttpInterfaces.cpp: a program that calls StartListen() and Close() only after
\* a Bind() that succeeded, once for each, and not from its callback never
\* makes the library use freed memory, whatever calls came before; and a
\* service does so only when it is asked to close, the plain one never.
HarmOnlyByMisuse ==
    [][undefined' # undefined => \/ host = "dll" /\ ~bound
                                 \/ host # "http" /\ stopped']_vars

Unanswered(c) == (client[c] = "backlog" /\ request[c] = "hello")
                 \/ (client[c] = "open" /\ (request[c] = "hello" \/ out[c] > 0))

\* startHttpService(), ev_handler(): every request for anything but "/close" is
\* answered, unless its client leaves or someone closes the https service; to the
\* plain service "/close" makes no difference.
ServiceAnswers ==
    \A c \in Conns : host # "dll" /\ Unanswered(c) ~> ~Unanswered(c) \/ undefined
=============================================================================
