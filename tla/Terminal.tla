------------------------------- MODULE Terminal -------------------------------
(***************************************************************************)
(* The web terminal (webui/webterm.go): a browser's WebSocket is bridged to  *)
(* an exec stream of the proxy that owns the instance. The sessions of one   *)
(* proxy share a pooled gRPC connection; a session is a handler goroutine,   *)
(* which negotiates, and two copying goroutines, which share a done channel. *)
(***************************************************************************)
EXTENDS GoValues, Integers, Sequences, FiniteSets

CONSTANTS
    Sessions,      \* WebSocket requests, all for one instance
    Addrs,         \* gRPC addresses of proxies
    Protocols,     \* protocol parameters: "" (the old one), "v1", "unknown"
    Keys,          \* messages a browser sends: "resize", "eof", "data"
    Typists,       \* sessions whose browser sends messages
    MaxTyped,      \* bound: messages such a browser sends
    MaxConns,      \* bound: connections made
    MaxMoves       \* bound: events about the instance

ASSUME SessionsAssumption == IsFiniteSet(Sessions)

VARIABLES
    located,       \* what the instance watch and the master know of the instance
    grpcPool,      \* [Addrs -> [conn, refCnt]], conn None when there is no entry
    grpcConns,     \* [made, closed]: connections, by number
    sess,          \* [Sessions -> session]
    panicked       \* a channel was closed twice: the process is gone

terminalVars == <<located, grpcPool, grpcConns, sess, panicked>>

NoSession == [pc |-> "new", tty |-> FALSE, v1 |-> FALSE, addr |-> None, conn |-> 0, browser |-> "there",
              wire |-> <<>>, typed |-> 0, broken |-> FALSE, pending |-> <<>>, got |-> <<>>, ws |-> "none",
              cancelled |-> FALSE, output |-> "off", input |-> "off", done |-> FALSE]

Set1(s, r) == sess' = [sess EXCEPT ![s] = r]
SessionAt(s, pc) == ~panicked /\ sess[s].pc = pc
Keep == UNCHANGED <<located, grpcPool, grpcConns, panicked>>

------------------------------------------------------------------------------
\* The pool

\* acquireGrpcConn: the entry of the address, or a new connection.
AcquireGrpcConn(addr) ==
    IF grpcPool[addr].conn # 0
    THEN /\ grpcPool' = [grpcPool EXCEPT ![addr].refCnt = @ + 1]
         /\ UNCHANGED grpcConns
    ELSE /\ grpcConns.made < MaxConns
         /\ grpcConns' = [grpcConns EXCEPT !.made = @ + 1]
         /\ grpcPool' = [grpcPool EXCEPT ![addr] = [conn |-> grpcConns.made + 1, refCnt |-> 1]]

\* Faulty variant: the connection goes with the last but one session.
CloseEarly(addr) ==
    LET left == grpcPool[addr].refCnt - 1
    IN  IF left <= 1
        THEN /\ grpcConns' = [grpcConns EXCEPT !.closed = @ \cup {grpcPool[addr].conn}]
             /\ grpcPool' = [grpcPool EXCEPT ![addr] = [conn |-> 0, refCnt |-> 0]]
        ELSE /\ grpcPool' = [grpcPool EXCEPT ![addr].refCnt = left]
             /\ UNCHANGED grpcConns

\* releaseGrpcConn
ReleaseGrpcConn(addr) ==
    IF grpcPool[addr].conn = 0 THEN UNCHANGED <<grpcPool, grpcConns>>
    ELSE LET left == grpcPool[addr].refCnt - 1
         IN  IF left <= 0
             THEN /\ grpcConns' = [grpcConns EXCEPT !.closed = @ \cup {grpcPool[addr].conn}]
                  /\ grpcPool' = [grpcPool EXCEPT ![addr] = [conn |-> 0, refCnt |-> 0]]
             ELSE /\ grpcPool' = [grpcPool EXCEPT ![addr].refCnt = left]
                  /\ UNCHANGED grpcConns

------------------------------------------------------------------------------
\* Before the upgrade: failures are HTTP answers

\* The request is refused with an HTTP status before it became a WebSocket.
RefuseSession(s) == Set1(s, [NoSession EXCEPT !.pc = "ended"])

\* HandleWebSocket: a token from the header, the query, the cookie or the subprotocol must
\* parse and be valid for the IAM server, unless the check is switched off.
TokenAccepted(token) == token \in {"valid", "not checked"}

\* parseTerminalProtocol
KnownProtocol(protocol) == protocol \in {"", "v1"}

\* HandleWebSocket: the parameters of the request.
ParseRequest(s, token, protocol, tty) ==
    /\ SessionAt(s, "new")
    /\ IF ~(TokenAccepted(token) /\ KnownProtocol(protocol)) THEN RefuseSession(s)
       ELSE Set1(s, [NoSession EXCEPT !.pc = "resolving", !.v1 = protocol = "v1", !.tty = tty])
    /\ Keep

\* getExecAddr: a paused instance is refused, the cache of the watch comes before the
\* master.
GetExecAddr(s) ==
    /\ SessionAt(s, "resolving")
    /\ CASE located.paused -> RefuseSession(s)
         [] ~located.paused /\ located.local # None ->
                Set1(s, [sess[s] EXCEPT !.pc = "connecting", !.addr = located.local])
         [] OTHER -> Set1(s, [sess[s] EXCEPT !.pc = "asking"])
    /\ Keep

\* queryMaster and the search of its answer.
QueryMaster(s, ok) ==
    /\ SessionAt(s, "asking")
    /\ IF ok /\ located.master # None
       THEN Set1(s, [sess[s] EXCEPT !.pc = "connecting", !.addr = located.master])
       ELSE RefuseSession(s)
    /\ Keep

\* HandleWebSocket: the pooled connection.
Connect(s) ==
    /\ SessionAt(s, "connecting")
    /\ AcquireGrpcConn(sess[s].addr)
    /\ Set1(s, [sess[s] EXCEPT !.pc = "upgrading", !.conn = grpcPool'[sess[s].addr].conn])
    /\ UNCHANGED <<located, panicked>>

\* HandleWebSocket: the stream and the upgrade; either failure gives the connection back.
Upgrade(s, ok) ==
    /\ SessionAt(s, "upgrading")
    /\ IF ok THEN /\ Set1(s, [sess[s] EXCEPT !.ws = "open", !.pc = IF sess[s].tty THEN "sizing" ELSE "starting"])
                  /\ UNCHANGED <<grpcPool, grpcConns>>
       ELSE RefuseSession(s) /\ ReleaseGrpcConn(sess[s].addr)
    /\ UNCHANGED <<located, panicked>>

------------------------------------------------------------------------------
\* The browser

\* The browser sends a message or goes away.
Type(s, m) ==
    /\ s \in Typists /\ ~panicked /\ sess[s].ws = "open" /\ sess[s].browser = "there" /\ sess[s].typed < MaxTyped
    /\ Set1(s, [sess[s] EXCEPT !.wire = Append(@, m), !.typed = @ + 1])
    /\ Keep
LeaveBrowser(s) ==
    /\ ~panicked /\ sess[s].ws = "open" /\ sess[s].browser = "there"
    /\ Set1(s, [sess[s] EXCEPT !.browser = "gone"])
    /\ Keep

------------------------------------------------------------------------------
\* The session

\* What every return of the handler does: release, cancel, close. Its goroutines may
\* still have their last steps to take.
EndedSession(s) ==
    [NoSession EXCEPT !.pc = "ended", !.cancelled = TRUE, !.ws = "closed",
                      !.output = IF sess[s].output = "reading" THEN "leaving" ELSE sess[s].output,
                      !.input = IF sess[s].input = "reading" THEN "leaving" ELSE sess[s].input,
                      !.done = sess[s].done]
Leave(s) ==
    /\ Set1(s, EndedSession(s))
    /\ ReleaseGrpcConn(sess[s].addr)
    /\ UNCHANGED <<located, panicked>>

\* The wait for the first size: anything else is kept to be replayed as input.
InitialSize(s) ==
    /\ SessionAt(s, "sizing") /\ sess[s].wire # <<>>
    /\ LET m == Head(sess[s].wire)
           read == [sess[s] EXCEPT !.wire = Tail(@)]
       IN  Set1(s, IF m = "resize" THEN [read EXCEPT !.pc = "starting"]
                   ELSE [read EXCEPT !.pending = Append(@, m)])
    /\ Keep

\* The wait ends after a second with the default size. The library keeps the error of a
\* timed-out read: every later read of the connection returns it.
SizeTimeout(s) ==
    /\ SessionAt(s, "sizing")
    /\ Set1(s, [sess[s] EXCEPT !.pc = "starting", !.broken = TRUE])
    /\ Keep
SizeFails(s) ==
    /\ SessionAt(s, "sizing") /\ sess[s].wire = <<>> /\ sess[s].browser = "gone"
    /\ Leave(s)

\* writeControl: only the versioned protocol has events, which a closed WebSocket fails.
WriteControlFails(s) == sess[s].v1 /\ sess[s].ws = "closed"

\* The start request and the replay of what was kept, all of it as input data.
Start(s, ok) ==
    /\ SessionAt(s, "starting")
    /\ IF ok
       THEN /\ Set1(s, [sess[s] EXCEPT !.pc = "running", !.output = "reading", !.input = "reading",
                        !.got = [i \in DOMAIN sess[s].pending |-> <<"data", sess[s].pending[i]>>],
                        !.pending = <<>>])
            /\ Keep
       ELSE Leave(s)

\* The goroutine that reads the exec stream: a started event, or an end.
Receive(s, status) ==
    /\ SessionAt(s, "running") /\ sess[s].output = "reading"
    /\ (status = "broken") \/ ~sess[s].cancelled
    /\ Set1(s, [sess[s] EXCEPT !.output =
           CASE status = "output" -> IF sess[s].ws = "closed" THEN "leaving" ELSE @
             [] status = "started" -> IF WriteControlFails(s) THEN "leaving" ELSE @
             [] OTHER -> "leaving"])
    /\ Keep

\* The goroutine that reads the WebSocket: sizes, the end of the input, data.
AsSent(m) == CASE m = "resize" -> <<"resize", m>> [] m = "eof" -> <<"eof", m>> [] OTHER -> <<"data", m>>
ReadTyped(s, sent) ==
    /\ SessionAt(s, "running") /\ sess[s].input = "reading"
    /\ IF sess[s].broken \/ sess[s].ws = "closed" \/ (sess[s].wire = <<>> /\ sess[s].browser = "gone")
       THEN Set1(s, [sess[s] EXCEPT !.input = "leaving"])
       ELSE /\ sess[s].wire # <<>>
            /\ LET m == Head(sess[s].wire)
                   read == [sess[s] EXCEPT !.wire = Tail(@)]
               IN  Set1(s, IF sent THEN [read EXCEPT !.got = Append(@, AsSent(m))]
                           ELSE [read EXCEPT !.input = IF m = "data" THEN "leaving" ELSE @])
    /\ sent \/ sess[s].cancelled \/ sess[s].output # "reading"
    /\ Keep

\* Both goroutines end alike: done is looked at, then closed in a later step, then the
\* other side is told.
LookAtDone(s, g) ==
    /\ ~panicked /\ sess[s][g] = "leaving"
    /\ Set1(s, [sess[s] EXCEPT ![g] = IF sess[s].done THEN "telling" ELSE "closing"])
    /\ Keep
CloseDone(s, g) ==
    /\ ~panicked /\ sess[s][g] = "closing"
    /\ panicked' = sess[s].done
    /\ Set1(s, [sess[s] EXCEPT ![g] = "telling", !.done = TRUE])
    /\ UNCHANGED <<located, grpcPool, grpcConns>>
Tell(s, g) ==
    /\ ~panicked /\ sess[s][g] = "telling"
    /\ Set1(s, IF g = "input" THEN [sess[s] EXCEPT ![g] = "off", !.cancelled = TRUE]
               ELSE [sess[s] EXCEPT ![g] = "off", !.ws = "closed"])
    /\ Keep

\* The handler waits for done.
Done(s) ==
    /\ SessionAt(s, "running") /\ sess[s].done
    /\ Leave(s)

------------------------------------------------------------------------------
\* The instance is paused, runs (again) where the watch has not seen it yet, or is seen.
Move(l) ==
    /\ ~panicked /\ located.moves < MaxMoves
    /\ located' = [l EXCEPT !.moves = located.moves + 1]
    /\ UNCHANGED <<grpcPool, grpcConns, sess, panicked>>
Moves == {[located EXCEPT !.paused = TRUE], [located EXCEPT !.local = located.master]}
             \cup {[paused |-> FALSE, local |-> None, master |-> a, moves |-> 0] : a \in Addrs}

TerminalInit ==
    /\ \E a \in Addrs : located = [paused |-> FALSE, local |-> a, master |-> a, moves |-> 0]
    /\ grpcPool = [a \in Addrs |-> [conn |-> 0, refCnt |-> 0]]
    /\ grpcConns = [made |-> 0, closed |-> {}]
    /\ sess = [s \in Sessions |-> NoSession]
    /\ panicked = FALSE

TerminalNext ==
    \/ \E l \in Moves : Move(l)
    \/ \E s \in Sessions :
           \/ \E token \in {"none", "bad", "valid"}, protocol \in Protocols, tty \in BOOLEAN :
                  ParseRequest(s, token, protocol, tty)
           \/ GetExecAddr(s) \/ Connect(s) \/ LeaveBrowser(s) \/ InitialSize(s) \/ SizeTimeout(s)
           \/ SizeFails(s) \/ Done(s)
           \/ \E ok \in BOOLEAN : QueryMaster(s, ok) \/ Upgrade(s, ok) \/ Start(s, ok) \/ ReadTyped(s, ok)
           \/ \E m \in Keys : Type(s, m)
           \/ \E status \in {"output", "started", "exited", "failed", "broken"} : Receive(s, status)
           \/ \E g \in {"output", "input"} : LookAtDone(s, g) \/ CloseDone(s, g) \/ Tell(s, g)

TerminalSpec == TerminalInit /\ [][TerminalNext]_terminalVars

------------------------------------------------------------------------------
\* Properties

\* A session of the terminal uses a connection that no other session's end has closed,
\* and the pool still counts it.
Holds(s) == sess[s].pc \in {"upgrading", "sizing", "starting", "running"}
SharedConnStaysOpen ==
    \A s \in Sessions : Holds(s) =>
        /\ sess[s].conn \notin grpcConns.closed
        /\ grpcPool[sess[s].addr].conn = sess[s].conn
        /\ grpcPool[sess[s].addr].refCnt = Cardinality({o \in Sessions : Holds(o) /\ sess[o].addr = sess[s].addr})

\* The end of the input closes the standard input of the command.
EofClosesStdin == \A s \in Sessions : \A i \in DOMAIN sess[s].got : sess[s].got[i] # <<"data", "eof">>

\* A terminal that has sent no size starts with the default one and is read.
DefaultSizeWorks ==
    \A s \in Sessions : sess[s].input = "leaving" => (sess[s].browser = "gone" \/ sess[s].ws = "closed" \/ sess[s].cancelled
                                                      \/ sess[s].output # "reading")

\* The done channel is closed once.
DoneClosedOnce == ~panicked
=============================================================================
