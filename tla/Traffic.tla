------------------------------ MODULE Traffic ------------------------------
(***************************************************************************)
(* Live traffic of one lab: the filter routes of backend/routes            *)
(* /traffic_filters.py, the capture sessions of backend/services           *)
(* /traffic_service.py and the sockets of backend/api                      *)
(* /traffic_websocket.py.                                                  *)
(*                                                                         *)
(* One event loop runs every coroutine: `turn` is the one it is in, and a  *)
(* coroutine keeps the turn until it suspends.  TrafficService._lock is a  *)
(* threading.Lock: it is not reentrant, a coroutine that waits for it      *)
(* stops the loop, and it is held across awaits.  Next to the loop, one    *)
(* thread per tcpdump reads packets, and waits for the loop to send them.  *)
(*                                                                         *)
(* A tcpdump runs inside its container, and the backend has a child on the *)
(* host for it, the `docker exec` client whose output the thread reads.    *)
(* A signal reaches the client only: Docker leaves the command it began to *)
(* run in the container.                                                   *)
(***************************************************************************)
EXTENDS Integers, FiniteSets, Sequences

CONSTANTS
    Filters,    \* ids of the filters of the lab
    Requests,   \* concurrent HTTP requests on them
    Clients,    \* browsers with a socket of the lab
    Sessions,   \* CaptureSession objects; one is free again once nothing refers to it
    Interfaces, \* container interfaces on links of the lab
    MaxLines,   \* bound: packets that match
    BatchMax,   \* events in one batch (20)
    Nobody,     \* nobody has the turn or the lock
    None,       \* no session, filter or update
    Faults      \* "slow" (a send suspends), "break" (a connection dies), "exit" (a `docker exec`
                \* exits), "start" (a capture cannot start), "crash", "lab" (the lab is deleted)

ASSUME SessionsAssumption ==
    /\ IsFiniteSet(Filters) /\ IsFiniteSet(Sessions) /\ IsFiniteSet(Clients)
    /\ IsFiniteSet(Interfaces)
    /\ Cardinality(Sessions) >= Cardinality(Filters) + MaxLines
    /\ MaxLines \in Nat /\ BatchMax \in Nat \ {0}
    /\ Nobody \notin Requests \union (Sessions \X Interfaces) /\ None \notin Sessions \union Filters
    /\ Requests \intersect (1..MaxLines) = {}
    /\ Requests \intersect (Sessions \X Interfaces) = {}

Readers == Sessions \X Interfaces
Batches == 1..MaxLines      \* send_traffic_batch coroutines: each carries a packet at least
Coroutines == Requests \union Batches

VARIABLES
    row,        \* traffic_filters.enabled, or the absence of the row
    session,    \* TrafficService._sessions
    execs,      \* the Popen handles of this backend whose `docker exec -t` client runs
    dumps,      \* history: the tcpdumps begun in the containers, of a filter on an interface, that
                \* the backend has not ended
    reader,     \* where each reader thread is
    pending,    \* Len(session.pending_events)
    lines,      \* packets read so far
    lock,       \* TrafficService._lock
    turn,       \* the coroutine the event loop is in
    at,         \* where each request is; in a broadcast, the message it sends
    serves,     \* the filter of each request
    update,     \* the write it is about to make
    plan,       \* the calls of the service it will make after that
    batch,      \* batch coroutines
    cast,       \* the broadcast each coroutine is in
    open,       \* clients whose socket handler runs
    broken,     \* of those, the ones whose connection is dead
    conns,      \* _connections[lab_id]
    view,       \* what each client was last told of each filter
    excused,    \* history: filters whose row and session a failure or an overlap has parted
    crowded,    \* history: requests that met another one on their filter
    cut         \* history: filters whose last notification was cut short

captures == <<session, execs, dumps, reader, pending, lines>>
locals == <<serves, update, plan>>
routes == <<at, locals>>
sockets == <<open, broken, conns, view>>
histories == <<excused, crowded, cut>>
vars == <<row, captures, lock, turn, routes, batch, cast, sockets, histories>>

Messages == {"activated", "deactivated", "error"}
Plans == {<<>>, <<"start">>, <<"stop">>, <<"stop", "start">>}

NoCast == [rest |-> {}, size |-> 0, dead |-> {}]

TypeOK ==
    /\ row \in [Filters -> {"unborn", "off", "on", "gone"}]
    /\ session \in [Filters -> Sessions \union {None}]
    /\ execs \subseteq Readers
    /\ dumps \subseteq Filters \X Interfaces
    /\ reader \in [Readers -> {"reading", "queued", "flushing", "ended"}]
    /\ pending \in [Sessions -> 0..MaxLines]
    /\ lines \in 0..MaxLines
    /\ lock \in {Nobody} \union Requests \union Readers
    /\ turn \in {Nobody} \union Coroutines
    /\ at \in [Requests -> {"idle", "write", "call", "start", "stop", "nested"} \union Messages]
    /\ serves \in [Requests -> Filters \union {None}]
    /\ \A r \in Requests : at[r] = "idle" <=> serves[r] = None
    /\ \A r \in Requests : at[r] = "write" <=> update[r] # None
    /\ plan \in [Requests -> Plans]
    /\ batch \in [Batches -> {"free", "scheduled", "sending", "done"}]
    /\ \A c \in Coroutines : cast[c].rest \subseteq Clients /\ cast[c].dead \subseteq Clients
    /\ broken \subseteq open /\ conns \subseteq open /\ open \subseteq Clients
    /\ view \in [Clients -> [Filters -> {"untold", "on", "off"}]]
    /\ excused \subseteq Filters /\ crowded \subseteq Requests /\ cut \subseteq Filters

Init ==
    /\ row = [f \in Filters |-> "unborn"]
    /\ session = [f \in Filters |-> None]
    /\ execs = {} /\ dumps = {} /\ lines = 0
    /\ reader = [p \in Readers |-> "ended"]
    /\ pending = [s \in Sessions |-> 0]
    /\ lock = Nobody /\ turn = Nobody
    /\ at = [r \in Requests |-> "idle"]
    /\ serves = [r \in Requests |-> None]
    /\ update = [r \in Requests |-> None]
    /\ plan = [r \in Requests |-> <<>>]
    /\ batch = [k \in Batches |-> "free"]
    /\ cast = [c \in Coroutines |-> NoCast]
    /\ open = {} /\ broken = {} /\ conns = {}
    /\ view = [w \in Clients |-> [f \in Filters |-> "untold"]]
    /\ excused = {} /\ crowded = {} /\ cut = {}

----------------------------------------------------------------------------
(* Sockets and broadcast.                                                  *)

\* Iteration over the live set of connections begins.
Broadcasting(c) == cast' = [cast EXCEPT ![c] = [rest |-> conns, size |-> Cardinality(conns), dead |-> {}]]

Sending(c) == IF c \in Requests THEN at[c] \in Messages ELSE batch[c] = "sending"
InCast(c) == turn = c /\ Sending(c)

\* CPython raises at the next step of an iteration over a set whose size has changed.
Unchanged(c) == Cardinality(conns) = cast[c].size

\* What client w knows after receiving the message of c; a batch tells of no filter.
Told(c, w) ==
    IF c \in Requests /\ at[c] # "error"
    THEN [view EXCEPT ![w][serves[c]] = IF at[c] = "activated" THEN "on" ELSE "off"]
    ELSE view

\* One send_text: it fails on a dead connection, and suspends while the peer reads slowly.
SendText(c) ==
    /\ InCast(c) /\ Unchanged(c)
    /\ \E w \in cast[c].rest :
        \/ /\ w \notin broken
           /\ view' = Told(c, w)
           /\ cast' = [cast EXCEPT ![c].rest = @ \ {w}]
           /\ turn' \in {c} \union IF "slow" \in Faults THEN {Nobody} ELSE {}
        \/ /\ w \in broken
           /\ cast' = [cast EXCEPT ![c].rest = @ \ {w}, ![c].dead = @ \union {w}]
           /\ UNCHANGED <<view, turn>>
    /\ UNCHANGED <<row, captures, lock, routes, batch, open, broken, conns, histories>>

\* The loop goes on with a coroutine whose send was suspended.
Resume(c) ==
    /\ turn = Nobody /\ Sending(c)
    /\ turn' = c
    /\ UNCHANGED <<row, captures, lock, routes, batch, cast, sockets, histories>>

\* The loop is over, and dead connections are discarded from the set; or it raises.
CastDone(c) ==
    /\ InCast(c) /\ Unchanged(c) /\ cast[c].rest = {}
    /\ conns' = conns \ cast[c].dead
    /\ cast' = [cast EXCEPT ![c] = NoCast]

CastRaises(c) ==
    /\ InCast(c) /\ ~Unchanged(c)
    /\ UNCHANGED conns

\* A new socket may or may not turn up in the iterations under way.
Connect(w) ==
    /\ turn = Nobody /\ w \notin open
    /\ open' = open \union {w}
    /\ conns' = conns \union {w}
    /\ \E seen \in SUBSET {c \in Coroutines : Sending(c)} :
        cast' = [c \in Coroutines |->
                    IF c \in seen THEN [cast[c] EXCEPT !.rest = @ \union {w}] ELSE cast[c]]
    /\ UNCHANGED <<row, captures, lock, turn, routes, batch, broken, view, histories>>

\* The handler's finally clause.  The last to leave deletes the set: a later Connect makes a
\* new one, and iterations under way are left with an empty set of the wrong size.
Disconnect(w) ==
    /\ turn = Nobody /\ w \in open
    /\ open' = open \ {w}
    /\ broken' = broken \ {w}
    /\ conns' = conns \ {w}
    /\ view' = [view EXCEPT ![w] = [f \in Filters |-> "untold"]]
    /\ cast' = [c \in Coroutines |->
                    IF ~Sending(c) THEN cast[c]
                    ELSE [cast[c] EXCEPT !.rest = @ \ {w}, !.size = IF conns' = {} THEN -1 ELSE @]]
    /\ UNCHANGED <<row, captures, lock, turn, routes, batch, histories>>

\* The peer is gone and the handler has not noticed.
Break(w) ==
    /\ "break" \in Faults
    /\ w \in open \ broken
    /\ broken' = broken \union {w}
    /\ UNCHANGED <<row, captures, lock, turn, routes, batch, cast, open, conns, view, histories>>

----------------------------------------------------------------------------
(* The filter routes, up to the call of the service.                       *)

Busy(f) == \E r \in Requests : serves[r] = f

\* A request on f begins.  Requests on one filter are not serialised.
Enter(r, f, enabled, strict, calls) ==
    /\ at[r] = "idle"
    /\ at' = [at EXCEPT ![r] = "write"]
    /\ serves' = [serves EXCEPT ![r] = f]
    /\ update' = [update EXCEPT ![r] = [enabled |-> enabled, strict |-> strict]]
    /\ plan' = [plan EXCEPT ![r] = calls]
    /\ crowded' = IF Busy(f)
                  THEN crowded \union {r} \union {q \in Requests : serves[q] = f}
                  ELSE crowded
    /\ excused' = IF Busy(f) THEN excused \union {f} ELSE excused
    /\ UNCHANGED <<row, captures, lock, turn, batch, cast, sockets, cut>>

HasRow(f) == row[f] \in {"on", "off"}
Opposite(enabled) == IF enabled = "on" THEN "off" ELSE "on"

\* POST /filters: enabled by default, and nothing is captured for it.
CreateFilter(f) ==
    /\ turn = Nobody /\ row[f] = "unborn"
    /\ \E enabled \in {"on", "off"} :
        /\ row' = [row EXCEPT ![f] = enabled]
        /\ excused' = IF enabled = "on" THEN excused \union {f} ELSE excused
    /\ UNCHANGED <<captures, lock, turn, routes, batch, cast, sockets, crowded, cut>>

\* POST /toggle reads the row and will write its negation, whatever it is by then.
Toggle(r, f) ==
    /\ turn = Nobody /\ HasRow(f)
    /\ Enter(r, f, Opposite(row[f]), FALSE,
             IF row[f] = "on" THEN <<"stop">> ELSE <<"start">>)

\* Mutant of PatchPlan: a filter that is disabled while it changes is restarted.
RestartAnyway(old, changed, body) ==
    CASE old = "on" /\ changed -> <<"stop", "start">>
      [] ~(old = "on" /\ changed) /\ body # "keep" -> IF body = "on" THEN <<"start">> ELSE <<"stop">>
      [] OTHER -> <<>>

\* What PATCH does to the capture: old is the row it read, changed whether the expression
\* or the colour differ, body the enabled field of the request.
PatchPlan(old, changed, body) ==
    CASE old = "on" /\ changed -> IF body = "off" THEN <<"stop">> ELSE <<"stop", "start">>
      [] ~(old = "on" /\ changed) /\ body # "keep" -> IF body = "on" THEN <<"start">> ELSE <<"stop">>
      [] OTHER -> <<>>

Patch(r, f) ==
    /\ turn = Nobody /\ HasRow(f)
    /\ \E changed \in BOOLEAN, body \in {"keep", "on", "off"} :
        Enter(r, f, body, TRUE, PatchPlan(row[f], changed, body))

Delete(r, f) ==
    /\ turn = Nobody /\ row[f] # "unborn"
    /\ Enter(r, f, "gone", TRUE, <<"stop">>)

Leave(r) ==
    /\ at' = [at EXCEPT ![r] = "idle"]
    /\ serves' = [serves EXCEPT ![r] = None]
    /\ update' = [update EXCEPT ![r] = None]
    /\ plan' = [plan EXCEPT ![r] = <<>>]
    /\ crowded' = crowded \ {r}
    /\ turn' = Nobody

\* UPDATE or DELETE, and commit.  PATCH and DELETE end here with 404 when the row is gone,
\* PATCH also when it touched neither state nor expression; toggle never looks.
Write(r) ==
    LET f == serves[r] IN
    /\ turn = Nobody /\ at[r] = "write"
    /\ row' = IF HasRow(f) /\ update[r].enabled # "keep"
              THEN [row EXCEPT ![f] = update[r].enabled]
              ELSE row
    /\ IF plan[r] = <<>> \/ (update[r].strict /\ ~HasRow(f))
       THEN Leave(r)
       ELSE /\ at' = [at EXCEPT ![r] = "call"]
            /\ update' = [update EXCEPT ![r] = None]
            /\ UNCHANGED <<serves, plan, turn, crowded>>
    /\ UNCHANGED <<captures, lock, batch, cast, sockets, excused, cut>>

\* The rest of the plan: stop_capture, start_capture, or both.
Proceed(r) ==
    /\ at' = [at EXCEPT ![r] = Head(plan[r])]
    /\ plan' = [plan EXCEPT ![r] = Tail(@)]
    /\ UNCHANGED <<serves, update>>

Call(r) ==
    /\ turn = Nobody /\ at[r] = "call"
    /\ turn' = r
    /\ Proceed(r)
    /\ UNCHANGED <<row, captures, lock, batch, cast, sockets, histories>>

\* The handler has done all it planned.  Alone on its filter, it has brought row and
\* session together again.
Complete(r) ==
    /\ Leave(r)
    /\ excused' = IF r \in crowded THEN excused ELSE excused \ {serves[r]}

ProceedOrComplete(r) ==
    IF plan[r] = <<>>
    THEN Complete(r)
    ELSE Proceed(r) /\ UNCHANGED <<turn, crowded, excused>>

\* DELETE /api/labs/{id}: the filters go with the lab; nothing stops their captures.
DeleteLab ==
    /\ "lab" \in Faults
    /\ turn = Nobody
    /\ row' = [f \in Filters |-> "gone"]
    /\ excused' = Filters
    /\ crowded' = {r \in Requests : at[r] # "idle"}
    /\ UNCHANGED <<captures, lock, turn, routes, batch, cast, sockets, cut>>

----------------------------------------------------------------------------
(* TrafficService on the event loop.                                       *)

Say(r, message) ==
    /\ at' = [at EXCEPT ![r] = message]
    /\ Broadcasting(r)

\* Nothing refers to the session any more.
Forgotten(s) ==
    /\ \A f \in Filters : session[f] # s
    /\ \A i \in Interfaces : reader[<<s, i>>] = "ended"
Fresh == CHOOSE s \in Sessions : Forgotten(s)

Least(n, m) == IF n < m THEN n ELSE m
NextBatch == CHOOSE k \in Batches : batch[k] = "free" /\ \A j \in Batches : batch[j] = "free" => k <= j

\* _flush_batch: at most BatchMax events leave the queue, as one coroutine for the loop.
Flush(s, queued) ==
    /\ pending' = [pending EXCEPT ![s] = queued - Least(queued, BatchMax)]
    /\ batch' = IF queued = 0 THEN batch ELSE [batch EXCEPT ![NextBatch] = "scheduled"]

\* A client cannot be started, or there is no interface at all: the clients already running
\* are killed, the error is sent, the row stays as it is.  Readers of the killed ones may
\* have read a packet by then.
StartFails(r, f, s) ==
    /\ \E begun \in SUBSET Interfaces \ {Interfaces} : \E late \in SUBSET begun :
        /\ lines' = lines + Cardinality(late)
        /\ lines' <= MaxLines
        /\ reader' = [p \in Readers |->
                        IF p[1] # s THEN reader[p] ELSE IF p[2] \in late THEN "queued" ELSE "ended"]
        /\ dumps' = dumps \union ({f} \X begun)
    /\ pending' = [pending EXCEPT ![s] = 0]
    /\ excused' = excused \union {f}
    /\ Say(r, "error")
    /\ UNCHANGED <<session, execs>>

\* Mutant of HoldLock: the lock covers the bookkeeping and not the broadcast.
ReleaseEarly(r) == UNCHANGED lock

\* with self._lock, to the end of the method, its awaits included.
HoldLock(r) == lock' = r

\* Mutant of Terminate: the session is forgotten and its clients are not.
TerminateNothing(s) == UNCHANGED <<execs, reader>>

\* process.terminate, process.kill: every `docker exec` client ends, and its reader with it;
\* a reader between its packet and the lock outlives the join.  The tcpdumps go on.
Terminate(s) ==
    /\ execs' = execs \ ({s} \X Interfaces)
    /\ reader' = [p \in Readers |-> IF p[1] = s /\ reader[p] = "reading" THEN "ended" ELSE reader[p]]

\* start_capture once it has the lock.  A session of the filter is to be stopped first, by
\* stop_capture, which takes the lock itself.
StartCapture(r) ==
    LET f == serves[r]  s == Fresh IN
    /\ turn = r /\ at[r] = "start" /\ lock = Nobody
    /\ HoldLock(r)
    /\ \/ /\ session[f] # None
          /\ at' = [at EXCEPT ![r] = "nested"]
          /\ UNCHANGED <<captures, cast, excused>>
       \/ /\ session[f] = None
          /\ session' = [session EXCEPT ![f] = s]
          /\ execs' = execs \union ({s} \X Interfaces)
          /\ dumps' = dumps \union ({f} \X Interfaces)
          /\ reader' = [p \in Readers |-> IF p[1] = s THEN "reading" ELSE reader[p]]
          /\ pending' = [pending EXCEPT ![s] = 0]
          /\ Say(r, "activated")
          /\ UNCHANGED <<lines, excused>>
       \/ /\ "start" \in Faults /\ session[f] = None
          /\ StartFails(r, f, s)
    /\ UNCHANGED <<row, turn, locals, batch, sockets, crowded, cut>>

\* stop_capture, with the lock held to the end of the broadcast.  The final flush can only
\* time out, as the loop it waits for is the one it runs on; its batch goes out later.
StopCapture(r) ==
    LET f == serves[r]  s == session[f] IN
    /\ turn = r /\ at[r] = "stop" /\ lock = Nobody
    /\ \/ /\ s = None
          /\ ProceedOrComplete(r)
          /\ UNCHANGED <<captures, lock, batch, cast>>
       \/ /\ s # None
          /\ HoldLock(r)
          /\ session' = [session EXCEPT ![f] = None]
          /\ Flush(s, pending[s])
          /\ Terminate(s)
          /\ Say(r, "deactivated")
          /\ UNCHANGED <<dumps, lines, locals, turn, crowded, excused>>
    /\ UNCHANGED <<row, sockets, cut>>

\* The message is out: the lock is released and the handler goes on.
NotifyDone(r) ==
    /\ CastDone(r)
    /\ lock' = Nobody
    /\ IF at[r] = "error"
       THEN Leave(r) /\ UNCHANGED <<excused, cut>>
       ELSE ProceedOrComplete(r) /\ cut' = cut \ {serves[r]}
    /\ UNCHANGED <<row, captures, batch, open, broken, view>>

\* The broadcast raises.  start_capture reports that as a failed start, of a capture that
\* runs; out of stop_capture, or of the report, it ends the request, a restart included.
NotifyRaises(r) ==
    LET f == serves[r] IN
    /\ CastRaises(r)
    /\ IF at[r] = "activated"
       THEN Say(r, "error") /\ UNCHANGED <<lock, locals, turn, crowded>>
       ELSE lock' = Nobody /\ Leave(r) /\ cast' = [cast EXCEPT ![r] = NoCast]
    /\ cut' = IF at[r] = "error" THEN cut ELSE cut \union {f}
    /\ excused' = IF plan[r] # <<>> THEN excused \union {f} ELSE excused
    /\ UNCHANGED <<row, captures, batch, open, broken, view>>

BatchStarts(k) ==
    /\ turn = Nobody /\ batch[k] = "scheduled"
    /\ turn' = k
    /\ batch' = [batch EXCEPT ![k] = "sending"]
    /\ Broadcasting(k)
    /\ UNCHANGED <<row, captures, lock, routes, sockets, histories>>

\* Sent, or dropped by an exception that only the waiting reader prints.
BatchEnds(k) ==
    /\ \/ CastDone(k)
       \/ CastRaises(k) /\ cast' = [cast EXCEPT ![k] = NoCast]
    /\ batch' = [batch EXCEPT ![k] = "done"]
    /\ turn' = Nobody
    /\ UNCHANGED <<row, captures, lock, routes, open, broken, view, histories>>

----------------------------------------------------------------------------
(* Reader threads.                                                         *)

\* The loop over process.stdout ends with the process or the session.
ReadOn(p) ==
    reader' = [reader EXCEPT ![p] = IF p \in execs THEN "reading" ELSE "ended"]

\* A packet of a session that is still active.
ReadLine(p) ==
    /\ reader[p] = "reading" /\ lines < MaxLines
    /\ lines' = lines + 1
    /\ reader' = [reader EXCEPT ![p] = "queued"]
    /\ UNCHANGED <<row, session, execs, dumps, pending, lock, turn, routes, batch, cast, sockets, histories>>

\* With the lock, the packet joins the queue.  When the interval has elapsed the batch is
\* flushed, and the reader keeps the lock while it waits for the loop to send it.
Enqueue(p) ==
    LET s == p[1] IN
    /\ reader[p] = "queued" /\ lock = Nobody
    /\ \/ /\ pending' = [pending EXCEPT ![s] = @ + 1]
          /\ ReadOn(p)
          /\ UNCHANGED <<lock, batch>>
       \/ /\ Flush(s, pending[s] + 1)
          /\ reader' = [reader EXCEPT ![p] = "flushing"]
          /\ lock' = p
    /\ UNCHANGED <<row, session, execs, dumps, lines, turn, routes, cast, sockets, histories>>

\* Mutant of FlushReturns: no timeout.
FlushWaits(p) ==
    /\ reader[p] = "flushing"
    /\ \A k \in Batches : batch[k] \in {"free", "done"}
    /\ lock' = Nobody
    /\ ReadOn(p)
    /\ UNCHANGED <<row, session, execs, dumps, pending, lines, turn, routes, batch, cast, sockets, histories>>

\* future.result(timeout=0.5): the batch has been sent, has failed, or takes too long.
FlushReturns(p) ==
    /\ reader[p] = "flushing"
    /\ lock' = Nobody
    /\ ReadOn(p)
    /\ UNCHANGED <<row, session, execs, dumps, pending, lines, turn, routes, batch, cast, sockets, histories>>

\* A client exits, with the tcpdump it waits for or because it has lost the daemon; its
\* reader sees the end of the file.
ProcessExits(p) ==
    /\ "exit" \in Faults
    /\ p \in execs
    /\ execs' = execs \ {p}
    /\ reader' = [reader EXCEPT ![p] = IF @ = "reading" THEN "ended" ELSE @]
    /\ UNCHANGED <<row, session, dumps, pending, lines, lock, turn, routes, batch, cast, sockets,
                   histories>>

\* The backend dies, with its threads, sockets, sessions and handles.  The rows stay, and
\* startup starts no capture for them; nor does it look for the tcpdumps left behind.
Crash ==
    /\ "crash" \in Faults
    /\ session' = [f \in Filters |-> None]
    /\ execs' = {}
    /\ reader' = [p \in Readers |-> "ended"]
    /\ lock' = Nobody /\ turn' = Nobody
    /\ at' = [r \in Requests |-> "idle"]
    /\ serves' = [r \in Requests |-> None]
    /\ update' = [r \in Requests |-> None]
    /\ plan' = [r \in Requests |-> <<>>]
    /\ batch' = [k \in Batches |-> IF batch[k] = "free" THEN "free" ELSE "done"]
    /\ open' = {} /\ broken' = {} /\ conns' = {}
    /\ excused' = {f \in Filters : row[f] = "on"}
    /\ crowded' = {} /\ cut' = {}
    /\ cast' = [c \in Coroutines |-> NoCast]
    /\ view' = [w \in Clients |-> [f \in Filters |-> "untold"]]
    /\ UNCHANGED <<row, dumps, pending, lines>>

----------------------------------------------------------------------------
ServiceStep(r) == StartCapture(r) \/ StopCapture(r)

Next ==
    \/ \E f \in Filters : CreateFilter(f) \/ \E r \in Requests : Toggle(r, f) \/ Patch(r, f) \/ Delete(r, f)
    \/ \E r \in Requests :
        Write(r) \/ Call(r) \/ ServiceStep(r) \/ NotifyDone(r) \/ NotifyRaises(r)
    \/ \E k \in Batches : BatchStarts(k) \/ BatchEnds(k)
    \/ \E c \in Coroutines : SendText(c) \/ Resume(c)
    \/ \E w \in Clients : Connect(w) \/ Disconnect(w) \/ Break(w)
    \/ \E p \in Readers : ReadLine(p) \/ Enqueue(p) \/ FlushReturns(p) \/ ProcessExits(p)
    \/ DeleteLab
    \/ Crash

Spec == Init /\ [][Next]_vars

\* A flush returns within its timeout, and a lock that is released again and again is not
\* withheld from the loop for ever.
Fairness ==
    /\ \A p \in Readers : WF_vars(FlushReturns(p))
    /\ \A r \in Requests : SF_vars(ServiceStep(r))
FairSpec == Spec /\ Fairness

----------------------------------------------------------------------------
(* Properties.                                                             *)

\* A filter that no request is at work on is enabled exactly when it has a session, after
\* any sequence of creates, toggles, patches and deletes, and whatever becomes of the
\* broadcasts.  Failed starts, overlaps, a restart of the backend and a filter created
\* enabled part the two; the next request that completes alone brings them together.
RowsMatchCaptures ==
    \A f \in Filters \ excused : ~Busy(f) => (row[f] = "on" <=> session[f] # None)

\* Every `docker exec` client that a running backend has started and not ended belongs to
\* the session a filter has: none survives its stop or a start that failed half way, and no
\* filter has two sets of them.
NoStrayClient ==
    \A p \in execs : \E f \in Filters : session[f] = p[1]

\* The lock orders the messages: what a client was last told of a filter is true whenever
\* no request on the filter holds the lock, however sends are suspended and requests
\* overlap, unless the last broadcast was cut short.
LastWordAgrees ==
    \A f \in Filters \ cut :
        (\A r \in Requests : lock = r => serves[r] # f) =>
            \A w \in conns \ broken :
                /\ view[w][f] = "on" => session[f] # None
                /\ view[w][f] = "off" => session[f] = None

\* A loop stopped by a reader that holds the lock, and waits for the loop, goes on.
AwaitsLock(r) == turn = r /\ at[r] \in {"start", "stop"}
LoopResumes ==
    \A r \in Requests : (AwaitsLock(r) /\ lock \in Readers) ~> ~AwaitsLock(r)

\* CRE-68_TRAFFIC_VISUALIZATION_MASTER_PLAN.md: "User deactivates -> Backend kills tcpdump".
\* For a filter that is off, and on which no request is at work, the backend has ended
\* every tcpdump it had begun.
TcpdumpEnds ==
    \A f \in Filters : row[f] = "off" /\ ~Busy(f) => dumps \cap ({f} \X Interfaces) = {}

\* traffic_service.py: "Stop existing session if any".  The restart does not wait for a
\* lock that the waiting coroutine holds itself.
RestartGoesOn ==
    \A r \in Requests : ~(turn = r /\ at[r] = "nested" /\ lock = r)
=============================================================================
