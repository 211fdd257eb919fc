--------------------------- MODULE SessionContext ----------------------------
(***************************************************************************)
(* The queries on session contexts (sessioncontext, api/v1                  *)
(* /session_context.go): a session is a log of Turn and Event records that  *)
(* the SDK writes into the data system, one key each, while the frontend    *)
(* reads it key by key and aggregates it; sessions are listed from a        *)
(* registry, page by page; forks and deletions are sent to the scheduler    *)
(* that owns the function.                                                  *)
(***************************************************************************)
EXTENDS GoValues, Integers, Sequences, FiniteSets, FiniteSetsExt, SequencesExt

CONSTANTS
    Queries,        \* requests
    Calls,          \* what they may be: [op, error] (error: why the scope is refused, or None)
    EventTypes,     \* the types of events the SDK writes
    PageLimit,      \* limit of a page of sessions or turns
    EventLimit,     \* limit of a page of events
    MaxTurns, MaxEventsPerLog, MaxSessions, \* bounds of the writer
    MaxPosts        \* attempts of HTTPManagerClient.Post

ASSUME PageAssumption == PageLimit \in Nat
ASSUME NilAssumption == None \notin Nat \cup {"ok", "get", "list", "turn", "events", "filtered", "sessions"}

VARIABLES
    turns,      \* the Turn records: <<StartSeq, ...>>
    log,        \* the Event records: <<[turn, type], ...>>
    sessions,   \* the registry: <<session, ...>> in the order of their creation
    removed,    \* the session was deleted
    query       \* [Queries -> the request]

sessionVars == <<turns, log, sessions, removed, query>>

\* got: what was read so far; page: what was listed, over all pages; size: the events on the
\* current page; seen: the states [turns, events] of the log
\* since the query started; first: the sessions at its start; dirty: records were
\* deleted since then.
NewQuery == [pc |-> "new", op |-> None, got |-> [turns |-> <<>>, events |-> <<>>], page |-> <<>>,
             after |-> 0, size |-> 0, posts |-> 0, seen |-> {}, first |-> {}, dirty |-> FALSE, res |-> None]

Now == [turns |-> Len(turns), events |-> Len(log)]

\* Every query in progress sees the new state of the log.
Witness(q) == IF query[q].pc \in {"new", "done"} THEN query[q]
              ELSE [query[q] EXCEPT !.seen = @ \union {[turns |-> Len(turns'), events |-> Len(log')]}]

------------------------------------------------------------------------------
\* The writer: the SDK of the function, and the scheduler

\* A turn starts at the next sequence number. (A session is deleted once, for good.)
StartTurn ==
    /\ ~removed /\ Len(turns) < MaxTurns
    /\ turns' = Append(turns, Len(log) + 1)
    /\ log' = log
    /\ query' = [q \in Queries |-> Witness(q)]
    /\ UNCHANGED <<sessions, removed>>

AppendEvent(type) ==
    /\ turns # <<>> /\ Len(log) < MaxEventsPerLog
    /\ log' = Append(log, [turn |-> Len(turns), type |-> type])
    /\ turns' = turns
    /\ query' = [q \in Queries |-> Witness(q)]
    /\ UNCHANGED <<sessions, removed>>

RegisterSession ==
    /\ ~removed /\ Len(sessions) < MaxSessions
    /\ sessions' = Append(sessions, Len(sessions) + 1)
    /\ UNCHANGED <<turns, log, removed, query>>

\* The scheduler deletes the session: its records and its place in the registry.
DeleteSession ==
    /\ ~removed /\ removed' = TRUE
    /\ turns' = <<>> /\ log' = <<>>
    /\ sessions' = IF sessions = <<>> THEN sessions ELSE Front(sessions)
    /\ query' = [q \in Queries |-> [Witness(q) EXCEPT !.dirty = TRUE]]

------------------------------------------------------------------------------
\* The handlers

Answer(q, res) == query' = [query EXCEPT ![q].pc = "done", ![q].res = res]

ManagerOps == {"fork", "delete"}

\* Where a handler starts: at the scheduler, the registry, the events or the turns.
FirstStep(c) == CASE c \in ManagerOps -> "post" [] c = "sessions" -> "sessions"
                  [] c \in {"events", "filtered"} -> "events" [] OTHER -> "turns"

\* sessionContextScope and sessionContextResourceScope: the URN, the tenant, the
\* function and the session ID are checked, the query's numbers are in range.
Begin(q, c) ==
    /\ query[q].pc = "new"
    /\ IF c.error # None THEN Answer(q, c.error)
       ELSE query' = [query EXCEPT ![q] =
                [NewQuery EXCEPT !.pc = FirstStep(c.op), !.op = c.op, !.seen = {Now}, !.first = ToSet(sessions)]]
    /\ UNCHANGED <<turns, log, sessions, removed>>

\* A key cannot be read: DATASYSTEM_ERROR.
ReadFails(q) ==
    /\ query[q].pc \in {"turns", "log", "sessions", "events"}
    /\ Answer(q, "dataSystemError")
    /\ UNCHANGED <<turns, log, sessions, removed>>

\* readSequential, one key a step: the turns until one is missing ...
ReadTurn(q) ==
    LET i == Len(query[q].got.turns) + 1 IN
    /\ query[q].pc = "turns"
    /\ query' = IF i \in DOMAIN turns
                THEN [query EXCEPT ![q].got.turns = Append(@, turns[i])]
                ELSE [query EXCEPT ![q].pc = "log"]
    /\ UNCHANGED <<turns, log, sessions, removed>>

\* ... and then the events.
ReadEvent(q) ==
    LET i == Len(query[q].got.events) + 1 IN
    /\ query[q].pc = "log"
    /\ query' = IF i \in DOMAIN log
                THEN [query EXCEPT ![q].got.events = Append(@, log[i])]
                ELSE [query EXCEPT ![q].pc = "aggregate"]
    /\ UNCHANGED <<turns, log, sessions, removed>>

\* The range of events of turn i of the records that were read.
LastSeq(h, i) == IF i < Len(h.turns) THEN h.turns[i + 1] - 1
                 ELSE IF h.events = <<>> THEN h.turns[i] - 1 ELSE Len(h.events)

Span(h, i) == {s \in DOMAIN h.events : h.turns[i] <= s /\ s <= LastSeq(h, i)}

\* Faulty variant: the turn an event names is not compared.
RangesOnly(h) ==
    /\ \A i \in DOMAIN h.turns : h.turns[i] <= LastSeq(h, i) + 1
    /\ h.turns = <<>> => h.events = <<>>

\* aggregateTurns accepts the records: every event lies in the range of the turn it
\* names, and no range is inside out.
Consistent(h) ==
    /\ \A i \in DOMAIN h.turns :
           /\ h.turns[i] <= LastSeq(h, i) + 1
           /\ \A s \in Span(h, i) : h.events[s].turn = i
    /\ h.turns = <<>> => h.events = <<>>

Effect == [input |-> "WORKING", required |-> "INPUT_REQUIRED", completed |-> "COMPLETED", failed |-> "FAILED"]

\* applyEvent: the last event that says anything decides.
TurnState(h, i) ==
    LET says == {s \in Span(h, i) : h.events[s].type \in DOMAIN Effect} IN
    IF says = {} THEN "WORKING"
    ELSE Effect[h.events[CHOOSE s \in says : \A t \in says : t <= s].type]

\* A page of a list: from the token's offset, refused when the list became shorter.
\* The token of the last page is None.
Page(list, offset, limit) ==
    LET end == IF offset + limit < Len(list) THEN offset + limit ELSE Len(list) IN
    [part |-> SubSeq(list, offset + 1, end), next |-> IF end < Len(list) THEN end ELSE None,
     ok |-> offset <= Len(list)]

AggregatedTurns(h) == [i \in DOMAIN h.turns |-> [turn |-> i, state |-> TurnState(h, i)]]

\* GetSession, ListTurns (newest first) and GetTurn.
Aggregate(q, turn) ==
    LET h == query[q].got  p == Page(Reverse(AggregatedTurns(h)), 0, PageLimit) IN
    /\ query[q].pc = "aggregate"
    /\ CASE ~Consistent(h)                    -> Answer(q, "dataCorrupted")
         [] Consistent(h) /\ query[q].op = "get" ->
                IF h.turns = <<>> /\ h.events = <<>> /\ sessions = <<>> THEN Answer(q, "sessionNotFound")
                ELSE Answer(q, "ok")
         [] Consistent(h) /\ query[q].op = "list" ->
                IF h.turns = <<>> /\ h.events = <<>> THEN Answer(q, "sessionNotFound")
                ELSE query' = [query EXCEPT ![q].pc = "done", ![q].res = "ok", ![q].page = p.part]
         [] OTHER -> Answer(q, IF turn \in DOMAIN h.turns THEN "ok" ELSE "turnNotFound")
    /\ UNCHANGED <<turns, log, sessions, removed>>

\* The event passes the filter of the query.
Passes(q, s) == query[q].op = "filtered" => log[s].type = "completed"

\* The page has its last event: its limit is reached.
PageFull(q, s) == Passes(q, s) /\ query[q].size + 1 = EventLimit

\* ListEvents looks at the event after the last one it looked at, which moves the position of the
\* next page whether the event passes the filter or not. A full page is answered, and the client
\* asks for the next one.
ListEvent(q) ==
    LET s == query[q].after + 1 IN
    /\ query[q].pc = "events" /\ s \in DOMAIN log
    /\ query' = [query EXCEPT ![q].after = s,
                     ![q].page = IF Passes(q, s) THEN Append(@, s) ELSE @,
                     ![q].size = IF PageFull(q, s) THEN 0 ELSE IF Passes(q, s) THEN @ + 1 ELSE @]
    /\ UNCHANGED <<turns, log, sessions, removed>>

\* The next event is missing: the page is answered, and the client stops at an empty one. A first
\* page that read nothing asks whether there is a turn.
ListEventsEnds(q) ==
    /\ query[q].pc = "events" /\ query[q].after + 1 \notin DOMAIN log
    /\ IF query[q].after = 0 /\ turns = <<>> THEN Answer(q, "sessionNotFound")
       ELSE IF query[q].size = 0 THEN Answer(q, "ok")
       ELSE query' = [query EXCEPT ![q].size = 0]
    /\ UNCHANGED <<turns, log, sessions, removed>>

\* ListSessions, newest first, and the next page with the token of the last.
ListSessions(q) ==
    LET p == Page(Reverse(sessions), query[q].after, PageLimit) IN
    /\ query[q].pc = "sessions"
    /\ IF ~p.ok THEN Answer(q, "invalidQuery")
       ELSE query' = [query EXCEPT ![q].page = @ \o p.part,
                          ![q].pc = IF p.next = None THEN "done" ELSE "sessions",
                          ![q].res = IF p.next = None THEN "ok" ELSE None,
                          ![q].after = IF p.next = None THEN @ ELSE p.next]
    /\ UNCHANGED <<turns, log, sessions, removed>>

\* HTTPManagerClient.Post: a scheduler that does not own the function names the one
\* that does, up to a number of attempts.
Post(q, redirected) ==
    /\ query[q].pc = "post"
    /\ query' = [query EXCEPT ![q].posts = @ + 1,
                     ![q].pc = IF redirected /\ query[q].posts + 1 < MaxPosts THEN "post" ELSE "done",
                     ![q].res = IF redirected
                                THEN IF query[q].posts + 1 < MaxPosts THEN None ELSE "schedulerUnavailable"
                                ELSE "ok"]
    /\ UNCHANGED <<turns, log, sessions, removed>>

------------------------------------------------------------------------------
SessionInit ==
    /\ turns = <<>> /\ log = <<>> /\ sessions = <<>> /\ removed = FALSE
    /\ query = [q \in Queries |-> NewQuery]

SessionNext ==
    \/ StartTurn \/ RegisterSession \/ DeleteSession \/ \E t \in EventTypes : AppendEvent(t)
    \/ \E q \in Queries :
           \/ \E c \in Calls : Begin(q, c)
           \/ ReadFails(q) \/ ReadTurn(q) \/ ReadEvent(q)
           \/ ListEvent(q) \/ ListEventsEnds(q) \/ ListSessions(q)
           \/ \E t \in 1 .. MaxTurns : Aggregate(q, t)
           \/ \E b \in BOOLEAN : Post(q, b)

SessionSpec == SessionInit /\ [][SessionNext]_sessionVars

------------------------------------------------------------------------------
\* Properties

Succeeded(q, ops) == query[q].res = "ok" /\ query[q].op \in ops

\* The records of a session are read one key at a time while the SDK goes on writing,
\* yet an answer that is not an error is the log as it was at one moment during the
\* query: the aggregation refuses every mixture (sessioncontext/service.go readHistory,
\* aggregate.go). A deletion in between is not noticed.
AnswerIsSnapshot ==
    \A q \in Queries : Succeeded(q, {"get", "list", "turn"}) /\ ~query[q].dirty =>
        [turns |-> Len(query[q].got.turns), events |-> Len(query[q].got.events)] \in query[q].seen

\* Pages neither skip nor repeat: the events of successive pages are those of the log
\* that pass the filter, in order, and every session that was registered when the first page was asked for is
\* on some page, although new ones shift the offsets (service.go ListEvents,
\* ListSessions).
PagesComplete ==
    \A q \in Queries : ~query[q].dirty =>
        /\ query[q].op \in {"events", "filtered"} =>
               /\ ToSet(query[q].page) = {s \in DOMAIN log : s <= query[q].after /\ Passes(q, s)}
               /\ \A i, j \in DOMAIN query[q].page : i < j => query[q].page[i] < query[q].page[j]
        /\ Succeeded(q, {"sessions"}) => query[q].first \subseteq ToSet(query[q].page)

\* A read of a session answers with one state of it, and the pages of a list add up to the list
\* (sessioncontext/service.go).
SessionReadsSound == AnswerIsSnapshot /\ PagesComplete

\* A log nobody damaged is never called damaged. A turn that starts between the two
\* reads makes a query answer SESSION_CONTEXT_DATA_CORRUPTED.
HealthyLogIsAccepted == \A q \in Queries : ~removed => query[q].res # "dataCorrupted"
=============================================================================
