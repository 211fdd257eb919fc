------------------------------ MODULE PosixWs ------------------------------
(***************************************************************************)
(* A POSIX WebSocket session (posixws): the handshake, the read loop that    *)
(* starts a goroutine for every message, the call to the function system and *)
(* the answers, written in the order in which the calls end. Messages are    *)
(* JSON texts or binary frames; frames are sequences of bytes.               *)
(***************************************************************************)
EXTENDS GoValues, Integers, Sequences, FiniteSets

CONSTANTS
    HandshakeTokens,  \* [header, query, cookie, protocol, tenant -> a tenant, "", "invalid", or None: absent]
    Messages,         \* what the client may send, with an ID of its own each:
                      \*   [bin |-> TRUE, data |-> bytes] or
                      \*   [bin |-> FALSE, form |-> "ping", "request" or "garbage", op, id, payload]
    MaxMessages       \* bound: messages in a session

VARIABLES
    wsState,          \* "new", "refused", "open", "closed"
    wsTenant,         \* tenantID
    unreadMsgs,       \* sent by the client, not read yet
    wsSent,           \* messages sent (history)
    handling,         \* messages with a goroutine
    reply,            \* [a message whose call has ended -> the answer to write]
    wsCalls,          \* [a message -> what the function system answered] (history)
    wsReceived        \* answers the client has received

wsVars == <<wsState, wsTenant, unreadMsgs, wsSent, handling, reply, wsCalls, wsReceived>>

------------------------------------------------------------------------------
\* Frames

BinFrameVersion == 1
BinOpCreate == 1
BinOpInvoke == 2
BinStatusOK == 0
BinStatusError == 1
HeaderLen == 4

Uint16(n) == <<(n \div 256) % 256, n % 256>>
Uint32(n) == <<0, 0>> \o Uint16(n)

\* ParseBinaryRequest: [version][op][id length, big endian][id][payload], or None
ParseBinaryRequest(data) ==
    IF Len(data) < HeaderLen THEN None
    ELSE LET start == HeaderLen + data[3] * 256 + data[4]
         IN  IF data[1] # BinFrameVersion \/ Len(data) < start THEN None
             ELSE [op |-> data[2], id |-> SubSeq(data, HeaderLen + 1, start), payload |-> SubSeq(data, start + 1, Len(data))]

\* Faulty variant: the length field counts the header as well.
LengthWithHeader(id, status, payload) ==
    <<BinFrameVersion, status>> \o Uint16(Len(id) + HeaderLen) \o id \o payload

BuildBinaryResponse(id, status, payload) ==
    <<BinFrameVersion, status>> \o Uint16(Len(id)) \o id \o payload

BuildBinaryErrorPayload(code, msg) == Uint32(code) \o msg

ErrInvalidMessage == 1003
ErrInvalidOperation == 1004
ErrProcessFailed == 1005

BinaryAnswer(id, status, payload) == [bin |-> TRUE, data |-> BuildBinaryResponse(id, status, payload)]

\* NewSuccessResponse, NewErrorResponse, NewPongMessage
NewSuccessResponse(id, payload) == [bin |-> FALSE, form |-> "success", id |-> id, payload |-> payload]
NewErrorResponse(id, code) == [bin |-> FALSE, form |-> "error", id |-> id, payload |-> <<code>>]
PongMessage == [bin |-> FALSE, form |-> "pong", id |-> <<>>, payload |-> <<>>]

------------------------------------------------------------------------------
\* The handshake

\* authenticateWebSocket: the first token there is, of the header, the query, the cookie and
\* the subprotocol; without authentication the query names the tenant. "" stands for a token
\* without subject, None for a refusal.
WsToken(h) ==
    IF h.header # None THEN h.header ELSE IF h.query # None THEN h.query
    ELSE IF h.cookie # None THEN h.cookie ELSE h.protocol

TenantOf(authOn, h) ==
    IF ~authOn THEN IF h.tenant = None THEN "default" ELSE h.tenant
    ELSE IF WsToken(h) \in {None, "invalid"} THEN None
    ELSE IF WsToken(h) = "" THEN "default" ELSE WsToken(h)

\* HandlePosixWebSocket; Upgrade may fail.
OpenSession(authOn, h) ==
    /\ wsState = "new"
    /\ LET tenant == TenantOf(authOn, h)
       IN  IF tenant = None THEN wsState' = "refused" /\ UNCHANGED wsTenant
           ELSE \/ wsState' = "open" /\ wsTenant' = tenant
                \/ wsState' = "refused" /\ UNCHANGED wsTenant
    /\ UNCHANGED <<unreadMsgs, wsSent, handling, reply, wsCalls, wsReceived>>

------------------------------------------------------------------------------
\* Messages

ClientSends(m) ==
    /\ wsState = "open" /\ m \notin wsSent /\ Cardinality(wsSent) < MaxMessages
    /\ unreadMsgs' = Append(unreadMsgs, m) /\ wsSent' = wsSent \cup {m}
    /\ UNCHANGED <<wsState, wsTenant, handling, reply, wsCalls, wsReceived>>

\* run: every message gets a goroutine, and the loop reads on.
ReadMessage ==
    /\ wsState = "open" /\ unreadMsgs # <<>>
    /\ unreadMsgs' = Tail(unreadMsgs) /\ handling' = handling \cup {Head(unreadMsgs)}
    /\ UNCHANGED <<wsState, wsTenant, wsSent, reply, wsCalls, wsReceived>>

\* run ends: the client leaves, or nothing arrived within pongWait. The goroutines go on.
CloseSession ==
    /\ wsState = "open" /\ wsState' = "closed" /\ unreadMsgs' = <<>>
    /\ UNCHANGED <<wsTenant, wsSent, handling, reply, wsCalls, wsReceived>>

\* What a message asks of the function system: an operation on a payload, or None.
AskedOf(m) ==
    IF m.bin THEN LET r == ParseBinaryRequest(m.data)
                  IN  IF r = None THEN None
                      ELSE IF r.op \in {BinOpCreate, BinOpInvoke} THEN r ELSE None
    ELSE IF m.form = "request" /\ m.op \in {BinOpCreate, BinOpInvoke} /\ m.payload # None
         THEN [op |-> m.op, id |-> m.id, payload |-> m.payload] ELSE None

\* handleBinaryMessage and handleMessage without a call: a frame that cannot be parsed is
\* dropped, an unknown operation and a text that cannot be parsed are answered by an error, a
\* ping by a pong. A payload that is not base64 fails like the call.
Immediate(m) ==
    IF m.bin THEN LET r == ParseBinaryRequest(m.data)
                  IN  IF r = None THEN None
                      ELSE BinaryAnswer(r.id, BinStatusError, BuildBinaryErrorPayload(ErrInvalidOperation, <<>>))
    ELSE CASE m.form = "ping" -> PongMessage
           [] m.form = "garbage" -> NewErrorResponse(<<>>, ErrInvalidMessage)
           [] OTHER -> NewErrorResponse(m.id, IF m.payload = None /\ m.op \in {BinOpCreate, BinOpInvoke}
                                              THEN ErrProcessFailed ELSE ErrInvalidOperation)

HandleWithoutCall(m) ==
    /\ m \in handling /\ m \notin DOMAIN reply /\ AskedOf(m) = None
    /\ IF Immediate(m) = None
       THEN handling' = handling \ {m} /\ UNCHANGED reply
       ELSE reply' = [x \in DOMAIN reply \cup {m} |-> IF x = m THEN Immediate(m) ELSE reply[x]] /\ UNCHANGED handling
    /\ UNCHANGED <<wsState, wsTenant, unreadMsgs, wsSent, wsCalls, wsReceived>>

\* The result of an operation on a payload (external).
RawResult(op, payload) == Append(payload, op)

\* The answer to a message whose call returned a result or, as None, an error.
CallAnswer(m, id, result) ==
    CASE m.bin /\ result # None -> BinaryAnswer(id, BinStatusOK, result)
      [] m.bin /\ result = None -> BinaryAnswer(id, BinStatusError, BuildBinaryErrorPayload(ErrProcessFailed, <<>>))
      [] ~m.bin /\ result # None -> NewSuccessResponse(id, result)
      [] OTHER -> NewErrorResponse(id, ErrProcessFailed)

\* ProcessCreateRaw, ProcessInvokeRaw, and ProcessCreate and ProcessInvoke between the two base64
\* conversions: the call ends, with a result or an error.
CallEnds(m, ok) ==
    /\ m \in handling /\ m \notin DOMAIN reply /\ AskedOf(m) # None
    /\ LET r == AskedOf(m)
           result == IF ok THEN RawResult(r.op, r.payload) ELSE None
       IN  /\ wsCalls' = [x \in DOMAIN wsCalls \cup {m} |-> IF x = m THEN result ELSE wsCalls[x]]
           /\ reply' = [x \in DOMAIN reply \cup {m} |-> IF x = m THEN CallAnswer(m, r.id, result) ELSE reply[x]]
    /\ UNCHANGED <<wsState, wsTenant, unreadMsgs, wsSent, handling, wsReceived>>

\* sendBinaryResponse, sendBinaryError, sendResponse, sendPong: one writer at a time; the write
\* to a closed connection fails and is only logged.
WriteAnswer(m) ==
    /\ m \in DOMAIN reply
    /\ wsReceived' = IF wsState = "open" THEN Append(wsReceived, reply[m]) ELSE wsReceived
    /\ reply' = [x \in DOMAIN reply \ {m} |-> reply[x]] /\ handling' = handling \ {m}
    /\ UNCHANGED <<wsState, wsTenant, unreadMsgs, wsSent, wsCalls>>

------------------------------------------------------------------------------
WsInit ==
    /\ wsState = "new" /\ wsTenant = None /\ unreadMsgs = <<>> /\ wsSent = {} /\ handling = {}
    /\ reply = [x \in {} |-> None] /\ wsCalls = [x \in {} |-> None] /\ wsReceived = <<>>

WsNext ==
    \/ \E authOn \in BOOLEAN, h \in HandshakeTokens : OpenSession(authOn, h)
    \/ ReadMessage \/ CloseSession
    \/ \E m \in Messages : \/ ClientSends(m) \/ HandleWithoutCall(m) \/ WriteAnswer(m)
                          \/ \E ok \in BOOLEAN : CallEnds(m, ok)

WsSpec == WsInit /\ [][WsNext]_wsVars

------------------------------------------------------------------------------
\* Properties

\* What the client reads out of a binary answer: the layout of a request, with the status in
\* the place of the operation.
ClientReads(data) == ParseBinaryRequest(data)

\* The client matches answers to requests by ID alone, and the goroutines of a session write
\* them in any order: every answer with a result, read back from its bytes, is what the function
\* system returned for the message that carried this ID, and no message has two answers.
AnswersMatch ==
    /\ \A i, j \in DOMAIN wsReceived : (wsReceived[i] = wsReceived[j] /\ wsReceived[i] # PongMessage /\ wsReceived[i].bin) => i = j
    /\ \A i \in DOMAIN wsReceived :
        LET a == wsReceived[i]
        IN  IF a.bin
            THEN \E m \in wsSent :
                     /\ m.bin /\ ClientReads(a.data) # None /\ ParseBinaryRequest(m.data) # None
                     /\ ParseBinaryRequest(m.data).id = ClientReads(a.data).id
                     /\ (ClientReads(a.data).op = BinStatusOK) =>
                            (m \in DOMAIN wsCalls /\ wsCalls[m] = ClientReads(a.data).payload)
            ELSE a.form = "success" => \E m \in wsSent \cap DOMAIN wsCalls : ~m.bin /\ m.id = a.id /\ wsCalls[m] = a.payload

\* Every message that was read is answered while the session is open.
EveryMessageAnswered ==
    wsState = "open" /\ handling = {} /\ unreadMsgs = <<>> => Len(wsReceived) = Cardinality(wsSent)
=============================================================================
