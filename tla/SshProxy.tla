------------------------------ MODULE SshProxy ------------------------------
(***************************************************************************)
(* The SSH bastion (sshproxy): a bounded number of connections, the target   *)
(* taken from the user name, the tunnel to the instance dialled with         *)
(* retries, and one channel of a session copied between client and backend:  *)
(* data, end of input, the exit status and the close travel separately.      *)
(***************************************************************************)
EXTENDS GoValues, Integers, Sequences, SequencesExt, FiniteSets

CONSTANTS
    SshConns,          \* connections of clients
    UserNames,         \* user names they give
    SshTargets,        \* [instance -> [paused, routed, running, user]]
    ConnectionLimit,   \* config.connectionLimit
    BackendAttempts,   \* config.backendAttempts
    MaxData            \* bound: pieces of data each side sends

VARIABLES
    sshConns,          \* [SshConns -> [pc, name, attempt]]
    slots,             \* connections holding a slot
    chan               \* [SshConns -> the channel of the session]

sshVars == <<sshConns, slots, chan>>

\* A channel. Of the backend: data and requests read from the mux and not yet copied, eof,
\* closed, and whether it ever sent a status. Of the client: what it typed, eof, what it got.
NoChannel == [open |-> FALSE, bData |-> 0, bSent |-> 0, bStatus |-> "none", bReq |-> 0, bEof |-> FALSE, bClosed |-> FALSE,
              cData |-> 0, cSent |-> 0, cEof |-> FALSE, cClosed |-> FALSE, got |-> 0, gotStatus |-> FALSE, gotClose |-> FALSE,
              upDone |-> FALSE, downDone |-> FALSE, reqDone |-> FALSE]

------------------------------------------------------------------------------
\* The user name

\* parseRouteOptions: known options, each once, with a value.
ParseRouteOptions(options) ==
    /\ \A i \in DOMAIN options : /\ options[i].key \in {"port", "trace"} /\ options[i].value # ""
                                 /\ options[i].key = "port" => options[i].valid
    /\ \A i, j \in DOMAIN options : options[i].key = options[j].key => i = j

\* parseRoute
ParseRoute(name) ==
    /\ name.prefix = "yr" /\ name.type = "instance"
    /\ name.instance # "" /\ name.short
    /\ ParseRouteOptions(name.options)

------------------------------------------------------------------------------
\* The connection

ConnGo(c, pc) == sshConns' = [sshConns EXCEPT ![c].pc = pc]

\* serve, acquireConnection: a connection over the limit is closed at once.
AcceptConn(c, name) ==
    /\ sshConns[c].pc = "none"
    /\ IF Cardinality(slots) < ConnectionLimit
       THEN slots' = slots \cup {c} /\ sshConns' = [sshConns EXCEPT ![c] = [pc |-> "handshake", name |-> name, attempt |-> 0]]
       ELSE UNCHANGED <<slots, sshConns>>
    /\ UNCHANGED chan

\* releaseConnection when the handler returns, with the deferred closes.
EndConnection(c) ==
    /\ sshConns' = [sshConns EXCEPT ![c] = [pc |-> "none", name |-> None, attempt |-> 0]]
    /\ slots' = slots \ {c}
    /\ chan' = [chan EXCEPT ![c] = NoChannel]

\* handleConnection up to the target: handshake and user name.
Handshake(c) ==
    /\ sshConns[c].pc = "handshake"
    /\ \/ ParseRoute(sshConns[c].name) /\ ConnGo(c, "resolve") /\ UNCHANGED <<slots, chan>>
       \/ EndConnection(c)

\* resolveInstance and authorizeResolvedTarget.
ResolveTarget(c) ==
    /\ sshConns[c].pc = "resolve"
    /\ LET t == SshTargets[sshConns[c].name.instance]
       IN  \/ ~t.paused /\ t.routed /\ t.running /\ t.user # "" /\ ConnGo(c, "dial") /\ UNCHANGED <<slots, chan>>
           \/ EndConnection(c)

\* dialTunnelWithTimeout: the proxy accepts the header, or the connection, its deadline, the
\* exchange or the proxy's answer fails and what was opened is closed.
TunnelOutcomes == {"accepted", "failed"}

\* dialBackend: a tunnel that fails, or whose handshake fails and which is closed, is tried
\* again, a limited number of times.
DialBackend(c) ==
    /\ sshConns[c].pc = "dial"
    /\ LET n == sshConns[c].attempt + 1
       IN  \E tunnel \in TunnelOutcomes, handshake \in BOOLEAN :
               IF tunnel = "accepted" /\ handshake
               THEN sshConns' = [sshConns EXCEPT ![c].pc = "open", ![c].attempt = n] /\ UNCHANGED <<slots, chan>>
               ELSE \/ n < BackendAttempts /\ sshConns' = [sshConns EXCEPT ![c].attempt = n] /\ UNCHANGED <<slots, chan>>
                    \/ n = BackendAttempts /\ EndConnection(c)

\* Either connection ends: the handler returns and closes the other one.
Disconnect(c) == sshConns[c].pc = "open" /\ EndConnection(c)

------------------------------------------------------------------------------
\* The channel

Chan(c, new) == chan' = [chan EXCEPT ![c] = new] /\ UNCHANGED <<sshConns, slots>>
InChannel(c) == sshConns[c].pc = "open" /\ chan[c].open

\* proxyChannel: a channel the backend refuses is refused to the client.
OpenChannel(c) ==
    /\ sshConns[c].pc = "open" /\ ~chan[c].open
    /\ Chan(c, [NoChannel EXCEPT !.open = TRUE])

\* The backend and the client, as the mux of each connection hears them.
BackendSends(c) ==
    /\ InChannel(c) /\ ~chan[c].bClosed
    /\ \/ ~chan[c].bEof /\ chan[c].bSent < MaxData
          /\ Chan(c, [chan[c] EXCEPT !.bData = @ + 1, !.bSent = @ + 1])
       \/ chan[c].bStatus = "none" /\ Chan(c, [chan[c] EXCEPT !.bStatus = "sent", !.bReq = 1])
       \/ ~chan[c].bEof /\ Chan(c, [chan[c] EXCEPT !.bEof = TRUE])
       \/ Chan(c, [chan[c] EXCEPT !.bEof = TRUE, !.bClosed = TRUE])
SshClientSends(c) ==
    /\ InChannel(c) /\ ~chan[c].cClosed
    /\ \/ ~chan[c].cEof /\ chan[c].cSent < MaxData
          /\ Chan(c, [chan[c] EXCEPT !.cData = @ + 1, !.cSent = @ + 1])
       \/ ~chan[c].cEof /\ Chan(c, [chan[c] EXCEPT !.cEof = TRUE])
       \/ Chan(c, [chan[c] EXCEPT !.cEof = TRUE, !.cClosed = TRUE])

\* copyChannel from the client: it ends with the client's input, or when a write fails
\* because the backend has closed.
CopyToBackend(c) ==
    /\ InChannel(c) /\ ~chan[c].upDone
    /\ \/ chan[c].cData > 0 /\ Chan(c, [chan[c] EXCEPT !.cData = @ - 1, !.upDone = chan[c].bClosed])
       \/ chan[c].cData = 0 /\ chan[c].cEof /\ Chan(c, [chan[c] EXCEPT !.upDone = TRUE])

\* copyChannel to the client.
CopyToClient(c) ==
    /\ InChannel(c) /\ ~chan[c].downDone
    /\ \/ chan[c].bData > 0
          /\ Chan(c, [chan[c] EXCEPT !.bData = @ - 1, !.got = IF chan[c].cClosed THEN @ ELSE @ + 1, !.downDone = chan[c].cClosed])
       \/ chan[c].bData = 0 /\ chan[c].bEof /\ Chan(c, [chan[c] EXCEPT !.downDone = TRUE])

\* proxyChannelRequests: the exit status, then the end of the requests once the backend closed.
ProxyChannelRequests(c) ==
    /\ InChannel(c) /\ ~chan[c].reqDone
    /\ \/ chan[c].bReq > 0 /\ Chan(c, [chan[c] EXCEPT !.bReq = 0, !.gotStatus = ~chan[c].cClosed])
       \/ chan[c].bReq = 0 /\ chan[c].bClosed /\ Chan(c, [chan[c] EXCEPT !.reqDone = TRUE])

\* Faulty variant: the channels close with the copies.
CloseAfterCopies(c) ==
    /\ InChannel(c) /\ chan[c].upDone /\ chan[c].downDone /\ ~chan[c].gotClose
    /\ Chan(c, [chan[c] EXCEPT !.gotClose = TRUE])

\* The deferred closes of proxyChannel, after both copies and the backend's requests.
CloseChannels(c) ==
    /\ InChannel(c) /\ chan[c].upDone /\ chan[c].downDone /\ chan[c].reqDone /\ ~chan[c].gotClose
    /\ Chan(c, [chan[c] EXCEPT !.gotClose = TRUE])

------------------------------------------------------------------------------
SshInit ==
    /\ sshConns = [c \in SshConns |-> [pc |-> "none", name |-> None, attempt |-> 0]]
    /\ slots = {} /\ chan = [c \in SshConns |-> NoChannel]

SshNext ==
    \E c \in SshConns :
        \/ \E name \in UserNames : AcceptConn(c, name)
        \/ Handshake(c) \/ ResolveTarget(c) \/ DialBackend(c) \/ Disconnect(c) \/ OpenChannel(c)
        \/ BackendSends(c) \/ SshClientSends(c) \/ CopyToBackend(c) \/ CopyToClient(c)
        \/ ProxyChannelRequests(c) \/ CloseChannels(c)

ProxySteps(c) == CopyToBackend(c) \/ CopyToClient(c) \/ ProxyChannelRequests(c) \/ CloseChannels(c)
SshSpec == SshInit /\ [][SshNext]_sshVars
FairSshSpec == SshSpec /\ \A c \in SshConns : WF_sshVars(ProxySteps(c))

------------------------------------------------------------------------------
\* Properties

\* A client that did not close its channel itself has all the output and the exit status of
\* the command when its channel is closed, though they travel through different goroutines
\* and the status may follow the end of the output.
ClosedAfterStatus ==
    \A c \in SshConns : (chan[c].gotClose /\ ~chan[c].cClosed) =>
        /\ chan[c].got = chan[c].bSent
        /\ chan[c].bStatus = "sent" => chan[c].gotStatus

\* A slot is held exactly by the connections being served, through every way out.
SlotsMatch == slots = {c \in SshConns : sshConns[c].pc # "none"}

\* Once the backend has closed the channel the client is told, if the connection stays.
CloseIsPassedOn ==
    \A c \in SshConns : chan[c].bClosed ~> (chan[c].gotClose \/ ~chan[c].open)
=============================================================================
