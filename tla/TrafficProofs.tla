---------------------------- MODULE TrafficProofs ----------------------------
(***************************************************************************)
(* What Traffic guarantees for any numbers of filters, requests, clients   *)
(* and interfaces.  IInv has two halves: Capturing, by which a client, a   *)
(* reader and a new session have an owner, and OnCourse, which says of a   *)
(* request that is alone on its filter where it will bring it.  TellInv    *)
(* says what each browser was told: who is in the middle of a broadcast    *)
(* has the lock, and whoever it has passed knows what it spreads.          *)
(***************************************************************************)
EXTENDS Traffic, FiniteSetTheorems, TLAPS

Steps == {"idle", "write", "call", "start", "stop", "nested"} \union Messages
Updates == [enabled : {"on", "off", "gone", "keep"}, strict : BOOLEAN]

Shape ==
    /\ row \in [Filters -> {"unborn", "off", "on", "gone"}]
    /\ session \in [Filters -> Sessions \union {None}]
    /\ execs \subseteq Readers
    /\ reader \in [Readers -> {"reading", "queued", "flushing", "ended"}]
    /\ lines \in Nat /\ lines <= MaxLines
    /\ at \in [Requests -> Steps]
    /\ serves \in [Requests -> Filters \union {None}]
    /\ plan \in [Requests -> Plans]
    /\ update \in [Requests -> Updates \union {None}]
    /\ excused \subseteq Filters
    /\ \A r \in Requests : at[r] = "idle" <=> serves[r] = None
    /\ \A r \in Requests : at[r] = "write" => update[r] \in Updates
    /\ \A r \in Requests : at[r] = "call" => plan[r] # <<>>
    /\ \A r \in Requests : serves[r] # None => row[serves[r]] # "unborn"

----------------------------------------------------------------------------
\* Readers that have read a packet which is not in a queue yet: these outlive a session.
Waiting == {p \in Readers : reader[p] \in {"queued", "flushing"}}

Capturing ==
    /\ NoStrayClient
    /\ \A p \in Readers : reader[p] = "reading" => \E f \in Filters : session[f] = p[1]
    /\ IsFiniteSet(Waiting) /\ Cardinality(Waiting) <= lines

----------------------------------------------------------------------------
\* Requests that share a filter know it, and their filter is excused.
Company ==
    /\ \A r, q \in Requests :
          r # q /\ serves[r] = serves[q] /\ serves[r] # None => r \in crowded
    /\ \A r \in Requests : r \in crowded => serves[r] # None /\ serves[r] \in excused

Starting == {<<"start">>, <<"stop", "start">>}

\* Does the request leave a capture behind when it has made its calls?
Captures(r) ==
    IF plan[r] = <<>> THEN at[r] \in {"start", "nested", "activated"} ELSE plan[r] \in Starting

\* The state its write will leave.
Written(r) == IF update[r].enabled = "keep" THEN row[serves[r]] ELSE update[r].enabled

\* The calls fit what is written, and the session what has been called.
Course(r) ==
    /\ at[r] = "write" =>
        /\ plan[r] = <<>> => update[r].enabled = "keep"
        /\ plan[r] # <<>> => (Written(r) = "on" <=> plan[r] \in Starting)
        /\ ~update[r].strict => HasRow(serves[r])
    /\ at[r] \in {"start", "nested", "activated", "error"} => plan[r] = <<>>
    /\ at[r] \notin {"write", "error"} => (row[serves[r]] = "on" <=> Captures(r))
    /\ at[r] = "activated" => session[serves[r]] # None
    /\ at[r] = "deactivated" => session[serves[r]] = None
    /\ at[r] = "error" =>
        \/ serves[r] \in excused
        \/ row[serves[r]] = "on" /\ session[serves[r]] # None

\* A request alone on its filter is on course.
OnCourse == \A r \in Requests : serves[r] # None /\ r \notin crowded => Course(r)

\* Until a request writes, the row and the session of its filter are as they were.
Settled ==
    \A f \in Filters \ excused :
        (\A r \in Requests : serves[r] = f => at[r] = "write")
            => (row[f] = "on" <=> session[f] # None)

IInv == Shape /\ Capturing /\ Company /\ OnCourse /\ Settled

----------------------------------------------------------------------------
(* Which steps are about what.                                             *)

ledger == <<row, session, routes, excused, crowded>>
threads == <<session, execs, reader, lines>>

SocketStep ==
    \/ \E k \in Batches : BatchStarts(k) \/ BatchEnds(k)
    \/ \E c \in Coroutines : SendText(c) \/ Resume(c)
    \/ \E w \in Clients : Connect(w) \/ Disconnect(w) \/ Break(w)

ReaderStep(p) == ReadLine(p) \/ Enqueue(p) \/ FlushReturns(p) \/ ProcessExits(p)

RouteStep(r, f) == Toggle(r, f) \/ Patch(r, f) \/ Delete(r, f)

\* Sockets and batches touch neither rows nor captures.
LEMMA SocketsApart == SocketStep => UNCHANGED <<ledger, threads>>
<1> USE DEF ledger, threads, captures, routes, locals, sockets, histories
<1>1. ASSUME NEW k \in Batches, BatchStarts(k) \/ BatchEnds(k) PROVE UNCHANGED <<ledger, threads>>
  BY <1>1 DEF BatchStarts, BatchEnds
<1>2. ASSUME NEW c \in Coroutines, SendText(c) \/ Resume(c) PROVE UNCHANGED <<ledger, threads>>
  BY <1>2 DEF SendText, Resume
<1>3. ASSUME NEW w \in Clients, Connect(w) \/ Disconnect(w) \/ Break(w)
      PROVE  UNCHANGED <<ledger, threads>>
  BY <1>3 DEF Connect, Disconnect, Break
<1>4. QED
  BY <1>1, <1>2, <1>3 DEF SocketStep

\* Reader threads leave rows, sessions and requests alone.
LEMMA ReadersApart == ASSUME NEW p \in Readers, ReaderStep(p) PROVE UNCHANGED ledger
BY DEF ReaderStep, ReadLine, Enqueue, FlushReturns, ProcessExits, ReadOn, Flush, ledger, routes,
       locals, histories

\* A request other than in its two steps of the service, and a deletion, leaves captures alone.
LEMMA RoutesApart ==
    \/ \E f \in Filters : CreateFilter(f)
    \/ \E r \in Requests, f \in Filters : RouteStep(r, f)
    \/ \E r \in Requests : Write(r) \/ Call(r) \/ NotifyDone(r) \/ NotifyRaises(r)
    \/ DeleteLab
    => UNCHANGED threads
BY DEF CreateFilter, RouteStep, Toggle, Patch, Delete, Enter, Write, Call, NotifyDone, NotifyRaises,
       DeleteLab, threads, captures

----------------------------------------------------------------------------
(* Captures.                                                               *)

\* There is a session nobody refers to when a filter without one is started: the others are
\* in use by other filters, or by readers that have read one packet each.
LEMMA FreshIs ==
    ASSUME Shape, Capturing, NEW f \in Filters, session[f] = None
    PROVE  Fresh \in Sessions /\ Forgotten(Fresh)
<1> DEFINE Others == Filters \ {f}
           Used == {session[g] : g \in Others}
           Left == {p[1] : p \in Waiting}
<1>1. IsFiniteSet(Filters) /\ IsFiniteSet(Sessions) /\ MaxLines \in Nat
      /\ Cardinality(Sessions) >= Cardinality(Filters) + MaxLines
  BY SessionsAssumption
<1>2. IsFiniteSet(Others) /\ Cardinality(Others) = Cardinality(Filters) - 1
      /\ Cardinality(Filters) \in Nat
  BY <1>1, FS_RemoveElement, FS_CardinalityType
<1>3. IsFiniteSet(Used) /\ Cardinality(Used) <= Cardinality(Others)
  <2> DEFINE F == [g \in Others |-> session[g]]
  <2>1. F \in Surjection(Others, Used)
    BY DEF Surjection
  <2>2. QED
    BY <1>2, <2>1, FS_Surjection
<1>4. IsFiniteSet(Left) /\ Cardinality(Left) <= lines
  <2> DEFINE F == [p \in Waiting |-> p[1]]
  <2>1. F \in Surjection(Waiting, Left)
    BY DEF Surjection
  <2>2. IsFiniteSet(Waiting) /\ Cardinality(Waiting) <= lines
    BY DEF Capturing
  <2>3. IsFiniteSet(Left) /\ Cardinality(Left) <= Cardinality(Waiting)
    BY <2>1, <2>2, FS_Surjection
  <2>4. Cardinality(Left) \in Nat /\ Cardinality(Waiting) \in Nat
    BY <2>2, <2>3, FS_CardinalityType
  <2>5. QED
    BY <2>2, <2>3, <2>4 DEF Shape
<1>5. Sessions \ (Used \union Left) # {}
  <2> HIDE DEF Used, Left
  <2>1. IsFiniteSet(Used \union Left)
        /\ Cardinality(Used \union Left) <= Cardinality(Used) + Cardinality(Left)
    <3>1. IsFiniteSet(Used \intersect Left)
      BY <1>3, FS_Intersection
    <3>2. /\ Cardinality(Used) \in Nat /\ Cardinality(Left) \in Nat
          /\ Cardinality(Used \intersect Left) \in Nat
      BY <1>3, <1>4, <3>1, FS_CardinalityType
    <3>3. /\ IsFiniteSet(Used \union Left)
          /\ Cardinality(Used \union Left)
                = Cardinality(Used) + Cardinality(Left) - Cardinality(Used \intersect Left)
      BY <1>3, <1>4, FS_Union, Zenon
    <3>4. QED
      BY <3>2, <3>3
  <2>2. Cardinality(Used \union Left) < Cardinality(Sessions)
    BY <1>1, <1>2, <1>3, <1>4, <2>1, FS_CardinalityType DEF Shape
  <2>3. SUFFICES ASSUME Sessions \subseteq Used \union Left PROVE FALSE
    OBVIOUS
  <2>4. Cardinality(Sessions) <= Cardinality(Used \union Left)
    BY <2>1, <2>3, FS_Subset
  <2>5. QED
    BY <1>1, <2>1, <2>2, <2>4, FS_CardinalityType
<1>6. PICK s \in Sessions : s \notin Used /\ s \notin Left
  BY <1>5
<1>7. Forgotten(s)
  <2>1. ASSUME NEW g \in Filters PROVE session[g] # s
    BY <1>6, SessionsAssumption
  <2>2. ASSUME NEW i \in Interfaces PROVE reader[<<s, i>>] = "ended"
    <3>1. <<s, i>> \in Readers /\ <<s, i>>[1] = s
      BY DEF Readers
    <3>2. reader[<<s, i>>] # "reading"
      BY <2>1, <3>1 DEF Capturing
    <3>3. <<s, i>> \notin Waiting
      BY <1>6, <3>1
    <3>4. QED
      BY <3>1, <3>2, <3>3 DEF Shape, Waiting
  <2>3. QED
    BY <2>1, <2>2 DEF Forgotten
<1>8. QED
  BY <1>6, <1>7 DEF Fresh

\* A step is about the routes and captures of a filter, or about readers and sockets.
LEMMA StepKinds ==
    [Next]_vars =>
        \/ \E f \in Filters : CreateFilter(f)
        \/ \E r \in Requests, f \in Filters : RouteStep(r, f)
        \/ \E r \in Requests :
              \/ Write(r) \/ Call(r) \/ StartCapture(r) \/ StopCapture(r)
              \/ NotifyDone(r) \/ NotifyRaises(r)
        \/ \E p \in Readers : ReaderStep(p)
        \/ DeleteLab
        \/ Crash
        \/ UNCHANGED <<ledger, threads>>
<1>1. ASSUME Next, ~SocketStep
      PROVE  \/ \E f \in Filters : CreateFilter(f)
             \/ \E r \in Requests, f \in Filters : RouteStep(r, f)
             \/ \E r \in Requests :
                   \/ Write(r) \/ Call(r) \/ StartCapture(r) \/ StopCapture(r)
                   \/ NotifyDone(r) \/ NotifyRaises(r)
             \/ \E p \in Readers : ReaderStep(p)
             \/ DeleteLab
             \/ Crash
  BY <1>1, Zenon DEF Next, ServiceStep, RouteStep, ReaderStep, SocketStep
<1>2. UNCHANGED vars => UNCHANGED <<ledger, threads>>
  BY DEF vars, ledger, threads, captures, histories
<1>3. QED
  BY <1>1, <1>2, SocketsApart, Zenon

----------------------------------------------------------------------------
(* Plans.                                                                  *)

\* A plan that is not over has one or two calls, and stopping comes first.
LEMMA PlanIs ==
    ASSUME NEW calls \in Plans, calls # <<>>
    PROVE  \/ calls = <<"start">> /\ Head(calls) = "start" /\ Tail(calls) = <<>>
           \/ calls = <<"stop">> /\ Head(calls) = "stop" /\ Tail(calls) = <<>>
           \/ calls = <<"stop", "start">> /\ Head(calls) = "stop" /\ Tail(calls) = <<"start">>
<1>1. CASE calls = <<"start">>
  BY <1>1
<1>2. CASE calls = <<"stop">>
  BY <1>2
<1>3. CASE calls = <<"stop", "start">>
  <2>1. Len(calls) = 2 /\ Head(calls) = "stop" /\ calls[2] = "start"
    BY <1>3
  <2>2. Tail(calls) = <<"start">>
    BY <1>3
  <2>3. QED
    BY <1>3, <2>1, <2>2
<1>4. QED
  BY <1>1, <1>2, <1>3 DEF Plans

\* The plans are different sequences.
LEMMA PlansDiffer ==
    /\ <<>> \in Plans /\ <<"start">> \in Plans
    /\ <<"start">> # <<>> /\ <<"stop">> # <<>> /\ <<"stop", "start">> # <<>>
    /\ <<"stop">> # <<"start">> /\ <<"stop">> # <<"stop", "start">>
BY DEF Plans

\* What a route plans fits what it is about to write.
Planned(r, f, enabled, strict, calls) ==
    /\ Enter(r, f, enabled, strict, calls)
    /\ row[f] # "unborn"
    /\ calls = <<>> => enabled = "keep"
    /\ calls # <<>> =>
          ((IF enabled = "keep" THEN row[f] ELSE enabled) = "on" <=> calls \in Starting)
    /\ ~strict => HasRow(f)

\* Toggle, PATCH and DELETE plan the calls that fit what they are about to write.
LEMMA RouteIs ==
    ASSUME Shape, NEW r \in Requests, NEW f \in Filters, RouteStep(r, f)
    PROVE  \E enabled \in {"on", "off", "gone", "keep"}, strict \in BOOLEAN, calls \in Plans :
              Planned(r, f, enabled, strict, calls)
<1>1. CASE Toggle(r, f)
  <2>1. CASE row[f] = "on"
    <3>1. Planned(r, f, "off", FALSE, <<"stop">>)
      BY <1>1, <2>1, PlansDiffer DEF Toggle, Planned, Opposite, Starting, HasRow
    <3>2. QED
      BY <3>1 DEF Plans
  <2>2. CASE row[f] = "off"
    <3>1. Planned(r, f, "on", FALSE, <<"start">>)
      BY <1>1, <2>2, PlansDiffer DEF Toggle, Planned, Opposite, Starting, HasRow
    <3>2. QED
      BY <3>1 DEF Plans
  <2>3. QED
    BY <1>1, <2>1, <2>2 DEF Toggle, HasRow
<1>2. CASE Patch(r, f)
  <2>1. PICK changed \in BOOLEAN, body \in {"keep", "on", "off"} :
           Enter(r, f, body, TRUE, PatchPlan(row[f], changed, body))
    BY <1>2 DEF Patch
  <2>2. Planned(r, f, body, TRUE, PatchPlan(row[f], changed, body))
        /\ PatchPlan(row[f], changed, body) \in Plans
    <3>1. CASE row[f] = "on" /\ changed /\ body = "off"
      BY <1>2, <2>1, <3>1, PlansDiffer DEF Patch, PatchPlan, Planned, Starting, Plans, HasRow
    <3>2. CASE row[f] = "on" /\ changed /\ body # "off"
      BY <1>2, <2>1, <3>2, PlansDiffer DEF Patch, PatchPlan, Planned, Starting, Plans, HasRow
    <3>3. CASE ~(row[f] = "on" /\ changed) /\ body = "on"
      BY <1>2, <2>1, <3>3, PlansDiffer DEF Patch, PatchPlan, Planned, Starting, Plans, HasRow
    <3>4. CASE ~(row[f] = "on" /\ changed) /\ body = "off"
      BY <1>2, <2>1, <3>4, PlansDiffer DEF Patch, PatchPlan, Planned, Starting, Plans, HasRow
    <3>5. CASE ~(row[f] = "on" /\ changed) /\ body = "keep"
      BY <1>2, <2>1, <3>5, PlansDiffer DEF Patch, PatchPlan, Planned, Starting, Plans, HasRow
    <3>6. QED
      BY <3>1, <3>2, <3>3, <3>4, <3>5
  <2>3. QED
    BY <2>2
<1>3. CASE Delete(r, f)
  <2>1. Planned(r, f, "gone", TRUE, <<"stop">>)
    BY <1>3, PlansDiffer DEF Delete, Planned, Starting
  <2>2. QED
    BY <2>1 DEF Plans
<1>4. QED
  BY <1>1, <1>2, <1>3 DEF RouteStep

\* The next call of a plan, and what is left of it.
LEMMA ProceedIs ==
    ASSUME Shape, NEW r \in Requests, plan[r] # <<>>, Proceed(r)
    PROVE  \E step \in {"start", "stop"}, rest \in {<<>>, <<"start">>} :
              /\ at' = [at EXCEPT ![r] = step]
              /\ plan' = [plan EXCEPT ![r] = rest]
              /\ UNCHANGED <<serves, update>>
              /\ plan[r] \in Starting <=> step = "start" \/ rest # <<>>
              /\ step = "start" => rest = <<>>
<1> DEFINE step == Head(plan[r])  rest == Tail(plan[r])
<1>1. plan[r] \in Plans
  BY DEF Shape
<1>2. /\ step \in {"start", "stop"} /\ rest \in {<<>>, <<"start">>}
      /\ plan[r] \in Starting <=> step = "start" \/ rest # <<>>
      /\ step = "start" => rest = <<>>
  BY <1>1, PlanIs, PlansDiffer DEF Starting
<1>3. at' = [at EXCEPT ![r] = step] /\ plan' = [plan EXCEPT ![r] = rest]
      /\ UNCHANGED <<serves, update>>
  BY DEF Proceed
<1>4. QED
  BY <1>2, <1>3

----------------------------------------------------------------------------
\* Every step keeps every variable in its range; a session that is begun is one.
LEMMA ShapeStep == Shape /\ Capturing /\ [Next]_vars => Shape'
<1> SUFFICES ASSUME Shape, Capturing, [Next]_vars PROVE Shape'
  OBVIOUS
<1> USE SessionsAssumption
    DEF Shape, Steps, Updates, Messages, HasRow, Busy, captures, locals, routes, sockets, histories
<1>1. ASSUME NEW f \in Filters, CreateFilter(f) PROVE Shape'
  BY <1>1 DEF CreateFilter
<1>2. ASSUME NEW r \in Requests, NEW f \in Filters, RouteStep(r, f) PROVE Shape'
  <2>1. PICK enabled \in {"on", "off", "gone", "keep"}, strict \in BOOLEAN, calls \in Plans :
           Planned(r, f, enabled, strict, calls)
    BY <1>2, RouteIs
  <2>2. QED
    BY <2>1 DEF Planned, Enter
<1>3. ASSUME NEW r \in Requests, Write(r) PROVE Shape'
  BY <1>3, PlansDiffer DEF Write, Leave
<1>4. ASSUME NEW r \in Requests, Call(r) PROVE Shape'
  <2>1. CASE plan[r] # <<>> /\ Proceed(r)
    <3>1. PICK step \in {"start", "stop"}, rest \in {<<>>, <<"start">>} :
             /\ at' = [at EXCEPT ![r] = step]
             /\ plan' = [plan EXCEPT ![r] = rest]
             /\ UNCHANGED <<serves, update>>
             /\ plan[r] \in Starting <=> step = "start" \/ rest # <<>>
             /\ step = "start" => rest = <<>>
      BY <2>1, ProceedIs
    <3>2. QED
      BY <1>4, <2>1, <3>1, PlansDiffer DEF Call
  <2>2. QED
    BY <1>4, <2>1 DEF Call
<1>5. ASSUME NEW r \in Requests, StartCapture(r) PROVE Shape'
  <2>1. CASE session[serves[r]] = None
    <3>1. Fresh \in Sessions
      BY <1>5, <2>1, FreshIs DEF StartCapture
    <3>2. CASE StartFails(r, serves[r], Fresh)
      <4>1. ASSUME NEW late \in SUBSET Interfaces PROVE Cardinality(late) \in Nat
        BY <4>1, FS_Subset, FS_CardinalityType
      <4>2. lines' \in Nat /\ lines' <= MaxLines
        BY <3>2, <4>1 DEF StartFails
      <4>3. QED
        BY <1>5, <3>2, <4>2 DEF StartCapture, StartFails, Say
    <3>3. CASE ~StartFails(r, serves[r], Fresh)
      <4>1. session' \in [Filters -> Sessions \union {None}]
        BY <1>5, <2>1, <3>1, <3>3 DEF StartCapture
      <4>2. execs' \subseteq Readers
        BY <1>5, <2>1, <3>1, <3>3 DEF StartCapture, Readers
      <4>3. reader' \in [Readers -> {"reading", "queued", "flushing", "ended"}]
        BY <1>5, <2>1, <3>1, <3>3 DEF StartCapture
      <4>4. at' \in [Requests -> Steps] /\ at' = [at EXCEPT ![r] = "activated"]
        BY <1>5, <2>1, <3>1, <3>3 DEF StartCapture, Say
      <4>5. UNCHANGED <<row, lines, serves, plan, update, excused>>
        BY <1>5, <2>1, <3>1, <3>3 DEF StartCapture
      <4>6. QED
        BY <1>5, <4>1, <4>2, <4>3, <4>4, <4>5 DEF StartCapture
    <3>4. QED
      BY <3>2, <3>3
  <2>2. CASE session[serves[r]] # None
    BY <1>5, <2>2 DEF StartCapture
  <2>3. QED
    BY <2>1, <2>2
<1>6. ASSUME NEW r \in Requests, StopCapture(r) PROVE Shape'
  <2>1. CASE session[serves[r]] = None /\ plan[r] # <<>> /\ Proceed(r)
    <3>1. PICK step \in {"start", "stop"}, rest \in {<<>>, <<"start">>} :
             /\ at' = [at EXCEPT ![r] = step]
             /\ plan' = [plan EXCEPT ![r] = rest]
             /\ UNCHANGED <<serves, update>>
             /\ plan[r] \in Starting <=> step = "start" \/ rest # <<>>
             /\ step = "start" => rest = <<>>
      BY <2>1, ProceedIs
    <3>2. QED
      BY <1>6, <2>1, <3>1, PlansDiffer DEF StopCapture, ProceedOrComplete
  <2>2. CASE session[serves[r]] = None /\ plan[r] = <<>>
    BY <1>6, <2>2, PlansDiffer DEF StopCapture, ProceedOrComplete, Complete, Leave
  <2>3. CASE session[serves[r]] # None
    BY <1>6, <2>3 DEF StopCapture, Terminate, Say
  <2>4. QED
    BY <1>6, <2>1, <2>2, <2>3 DEF StopCapture, ProceedOrComplete
<1>7. ASSUME NEW r \in Requests, NotifyDone(r) PROVE Shape'
  <2>1. CASE at[r] # "error" /\ plan[r] # <<>> /\ Proceed(r)
    <3>1. PICK step \in {"start", "stop"}, rest \in {<<>>, <<"start">>} :
             /\ at' = [at EXCEPT ![r] = step]
             /\ plan' = [plan EXCEPT ![r] = rest]
             /\ UNCHANGED <<serves, update>>
             /\ plan[r] \in Starting <=> step = "start" \/ rest # <<>>
             /\ step = "start" => rest = <<>>
      BY <2>1, ProceedIs
    <3>2. QED
      BY <1>7, <2>1, <3>1, PlansDiffer DEF NotifyDone, ProceedOrComplete, InCast, Sending,
             CastDone, CastRaises
  <2>2. CASE Leave(r)
    BY <1>7, <2>2, PlansDiffer DEF NotifyDone, ProceedOrComplete, Complete, Leave
  <2>3. QED
    BY <1>7, <2>1, <2>2 DEF NotifyDone, ProceedOrComplete, Complete
<1>8. ASSUME NEW r \in Requests, NotifyRaises(r) PROVE Shape'
  BY <1>8, PlansDiffer DEF NotifyRaises, CastRaises, InCast, Sending, Say, Leave
<1>9. ASSUME NEW p \in Readers, ReaderStep(p) PROVE Shape'
  BY <1>9 DEF ReaderStep, ReadLine, Enqueue, FlushReturns, ProcessExits, ReadOn
<1>10. CASE DeleteLab
  BY <1>10 DEF DeleteLab
<1>11. CASE Crash
  BY <1>11, PlansDiffer DEF Crash
<1>12. CASE UNCHANGED <<ledger, threads>>
  BY <1>12 DEF ledger, threads, routes, locals
<1>13. QED
  BY <1>1, <1>2, <1>3, <1>4, <1>5, <1>6, <1>7, <1>8, <1>9, <1>10, <1>11, <1>12, StepKinds

\* A reader less with a packet in its hands, and no packet more.
LEMMA FewerWait ==
    ASSUME Shape, Capturing, Waiting' \subseteq Waiting, lines' = lines
    PROVE  IsFiniteSet(Waiting') /\ Cardinality(Waiting') <= lines'
<1>1. IsFiniteSet(Waiting) /\ Cardinality(Waiting) <= lines
  BY DEF Capturing
<1>2. IsFiniteSet(Waiting') /\ Cardinality(Waiting') <= Cardinality(Waiting)
  BY <1>1, FS_Subset
<1>3. Cardinality(Waiting') \in Nat /\ Cardinality(Waiting) \in Nat
  BY <1>1, <1>2, FS_CardinalityType
<1>4. QED
  BY <1>1, <1>2, <1>3 DEF Shape

\* A start that fails leaves as many readers behind as have read a packet.
LEMMA LateWait ==
    ASSUME Shape, Capturing, NEW s \in Sessions, NEW late \in SUBSET Interfaces,
           Waiting' = Waiting \union ({s} \X late), lines' = lines + Cardinality(late)
    PROVE  IsFiniteSet(Waiting') /\ Cardinality(Waiting') <= lines'
<1> DEFINE More == {s} \X late
<1>1. IsFiniteSet(Waiting) /\ Cardinality(Waiting) <= lines
  BY DEF Capturing
<1>2. IsFiniteSet(late) /\ Cardinality(late) \in Nat
  BY SessionsAssumption, FS_Subset, FS_CardinalityType
<1>3. IsFiniteSet({s}) /\ Cardinality({s}) = 1
  BY FS_Singleton
<1>4. IsFiniteSet(More) /\ Cardinality(More) = Cardinality({s}) * Cardinality(late)
  BY <1>2, <1>3, FS_Product, Zenon
<1>5. IsFiniteSet(Waiting \intersect More)
  BY <1>1, FS_Intersection
<1>6. /\ IsFiniteSet(Waiting \union More)
      /\ Cardinality(Waiting \union More)
            = Cardinality(Waiting) + Cardinality(More) - Cardinality(Waiting \intersect More)
  BY <1>1, <1>4, FS_Union, Zenon
<1>7. Cardinality(Waiting) \in Nat /\ Cardinality(Waiting \intersect More) \in Nat
  BY <1>1, <1>5, FS_CardinalityType
<1>8. Cardinality(More) = Cardinality(late)
  BY <1>2, <1>3, <1>4
<1> HIDE DEF More
<1>9. Cardinality(Waiting \union More) <= lines + Cardinality(late)
  BY <1>1, <1>2, <1>6, <1>7, <1>8 DEF Shape
<1>10. QED
  BY <1>6, <1>9 DEF More

\* Who has the lock does not matter here: a session that is stopped takes its processes and
\* its readers with it, and one that starts is nobody else's.
LEMMA CapturingStep == Shape /\ Capturing /\ [Next]_vars => Capturing'
<1> SUFFICES ASSUME Shape, Capturing, [Next]_vars PROVE Capturing'
  OBVIOUS
<1> USE DEF captures, Shape
<1>1. CASE UNCHANGED threads
  BY <1>1 DEF threads, Capturing, NoStrayClient, Waiting
<1>2. ASSUME NEW r \in Requests, StartCapture(r) PROVE Capturing'
  <2> DEFINE f == serves[r]  s == Fresh
  <2>1. f \in Filters /\ lock = Nobody
    BY <1>2 DEF StartCapture
  <2>2. CASE session[f] # None
    <3>1. UNCHANGED threads
      BY <1>2, <2>2 DEF StartCapture, threads
    <3>2. QED
      BY <1>1, <3>1
  <2>3. CASE session[f] = None
    <3>1. s \in Sessions /\ Forgotten(s)
      BY <2>1, <2>3, FreshIs
    <3>2. \A p \in Readers : p[1] = s => reader[p] = "ended"
      BY <3>1 DEF Forgotten, Readers
    <3>3. CASE StartFails(r, f, s)
      <4>1. PICK late \in SUBSET Interfaces :
               /\ lines' = lines + Cardinality(late)
               /\ reader' = [p \in Readers |->
                               IF p[1] # s THEN reader[p]
                               ELSE IF p[2] \in late THEN "queued" ELSE "ended"]
        BY <3>3 DEF StartFails
      <4>2. Waiting' = Waiting \union ({s} \X late)
        BY <3>1, <3>2, <4>1 DEF Waiting, Readers
      <4>3. IsFiniteSet(Waiting') /\ Cardinality(Waiting') <= lines'
        BY <3>1, <4>1, <4>2, LateWait
      <4>4. UNCHANGED <<session, execs>>
        BY <3>3 DEF StartFails
      <4>5. QED
        BY <4>1, <4>3, <4>4 DEF Capturing, NoStrayClient
    <3>4. CASE ~StartFails(r, f, s)
      <4>1. /\ session' = [session EXCEPT ![f] = s]
            /\ execs' = execs \union ({s} \X Interfaces)
            /\ reader' = [p \in Readers |-> IF p[1] = s THEN "reading" ELSE reader[p]]
            /\ lines' = lines
        BY <1>2, <2>3, <3>4 DEF StartCapture
      <4>2. Waiting' \subseteq Waiting
        BY <4>1 DEF Waiting
      <4>3. IsFiniteSet(Waiting') /\ Cardinality(Waiting') <= lines'
        BY <4>1, <4>2, FewerWait
      <4>4. \A g \in Filters : session[g] # None => session'[g] = session[g]
        BY <2>1, <2>3, <4>1
      <4>5. session'[f] = s
        BY <2>1, <4>1
      <4>6. NoStrayClient'
        <5>1. ASSUME NEW p \in execs PROVE \E g \in Filters : session'[g] = p[1]
          <6>1. PICK g \in Filters : session[g] = p[1]
            BY DEF Capturing, NoStrayClient
          <6>2. p[1] \in Sessions
            BY DEF Readers
          <6>3. QED
            BY <4>4, <6>1, <6>2, SessionsAssumption
        <5>2. QED
          BY <2>1, <4>1, <4>5, <5>1 DEF NoStrayClient
      <4>7. ASSUME NEW p \in Readers, reader'[p] = "reading"
            PROVE  \E g \in Filters : session'[g] = p[1]
        <5>1. CASE p[1] = s
          BY <2>1, <4>5, <5>1
        <5>2. CASE p[1] # s
          <6>1. reader[p] = "reading"
            BY <4>1, <4>7, <5>2
          <6>2. PICK g \in Filters : session[g] = p[1]
            BY <6>1 DEF Capturing
          <6>3. p[1] \in Sessions
            BY DEF Readers
          <6>4. QED
            BY <4>4, <6>2, <6>3, SessionsAssumption
        <5>3. QED
          BY <5>1, <5>2
      <4>8. QED
        BY <4>3, <4>6, <4>7 DEF Capturing
    <3>5. QED
      BY <3>3, <3>4
  <2>4. QED
    BY <2>2, <2>3
<1>3. ASSUME NEW r \in Requests, StopCapture(r) PROVE Capturing'
  <2> DEFINE f == serves[r]  s == session[f]
  <2>1. f \in Filters
    BY <1>3 DEF StopCapture
  <2>2. CASE s = None
    <3>1. UNCHANGED threads
      BY <1>3, <2>2 DEF StopCapture, threads
    <3>2. QED
      BY <1>1, <3>1
  <2>3. CASE s # None
    <3>1. /\ session' = [session EXCEPT ![f] = None]
          /\ execs' = execs \ ({s} \X Interfaces)
          /\ reader' = [p \in Readers |->
                          IF p[1] = s /\ reader[p] = "reading" THEN "ended" ELSE reader[p]]
          /\ lines' = lines
      BY <1>3, <2>3 DEF StopCapture, Terminate
    <3>2. Waiting' \subseteq Waiting
      BY <3>1 DEF Waiting
    <3>3. IsFiniteSet(Waiting') /\ Cardinality(Waiting') <= lines'
      BY <3>1, <3>2, FewerWait
    <3>4. ASSUME NEW p \in Readers, p[1] # s, NEW g \in Filters, session[g] = p[1]
          PROVE  session'[g] = p[1]
      BY <2>1, <3>1, <3>4
    <3>5. \A p \in execs' : p[1] # s /\ p \in execs
      BY <3>1 DEF Readers
    <3>6. \A p \in Readers : reader'[p] = "reading" => p[1] # s /\ reader[p] = "reading"
      BY <3>1
    <3>7. QED
      BY <3>3, <3>4, <3>5, <3>6 DEF Capturing, NoStrayClient
  <2>4. QED
    BY <2>2, <2>3
<1>4. ASSUME NEW p \in Readers, ReaderStep(p) PROVE Capturing'
  <2>1. UNCHANGED session /\ execs' \subseteq execs
    BY <1>4 DEF ReaderStep, ReadLine, Enqueue, FlushReturns, ProcessExits
  <2>2. /\ \A q \in Readers \ {p} : reader'[q] = reader[q]
        /\ reader'[p] = "reading" => reader[p] = "reading" \/ p \in execs
    BY <1>4 DEF ReaderStep, ReadLine, Enqueue, FlushReturns, ProcessExits, ReadOn
  <2>3. IsFiniteSet(Waiting') /\ Cardinality(Waiting') <= lines'
    <3>1. CASE ReadLine(p)
      <4>1. Waiting' = Waiting \union {p} /\ lines' = lines + 1
        BY <3>1 DEF ReadLine, Waiting
      <4>2. IsFiniteSet(Waiting) /\ Cardinality(Waiting) <= lines
        BY DEF Capturing
      <4>3. Cardinality(Waiting) \in Nat
        BY <4>2, FS_CardinalityType
      <4>4. /\ IsFiniteSet(Waiting \union {p})
            /\ Cardinality(Waiting \union {p})
                  = IF p \in Waiting THEN Cardinality(Waiting) ELSE Cardinality(Waiting) + 1
        BY <4>2, FS_AddElement, Zenon
      <4>5. Cardinality(Waiting \union {p}) <= lines + 1
        BY <4>2, <4>3, <4>4
      <4>6. QED
        BY <4>1, <4>4, <4>5
    <3>2. CASE Enqueue(p) \/ FlushReturns(p) \/ ProcessExits(p)
      <4>1. Waiting' \subseteq Waiting /\ lines' = lines
        BY <3>2 DEF Enqueue, FlushReturns, ProcessExits, ReadOn, Waiting
      <4>2. QED
        BY <4>1, FewerWait
    <3>3. QED
      BY <1>4, <3>1, <3>2 DEF ReaderStep
  <2>4. QED
    BY <2>1, <2>2, <2>3 DEF Capturing, NoStrayClient
<1>5. CASE Crash
  <2>1. execs' = {} /\ reader' = [p \in Readers |-> "ended"] /\ lines' = lines
    BY <1>5 DEF Crash
  <2>2. Waiting' \subseteq Waiting
    BY <2>1 DEF Waiting
  <2>3. QED
    BY <2>1, <2>2, FewerWait DEF Capturing, NoStrayClient
<1>6. UNCHANGED <<ledger, threads>> => UNCHANGED threads
  BY Zenon
<1>7. QED
  BY <1>1, <1>2, <1>3, <1>4, <1>5, <1>6, StepKinds, RoutesApart, Zenon

----------------------------------------------------------------------------
(* Promises.                                                               *)

\* Whoever enters beside another request marks both, and only a request that is alone takes
\* the excuse of its filter away.
LEMMA CompanyStep == Shape /\ Company /\ [Next]_vars => Company'
<1> SUFFICES ASSUME Shape, Company, [Next]_vars PROVE Company'
  OBVIOUS
<1> USE SessionsAssumption
    DEF Shape, Company, Busy, captures, locals, routes, sockets, histories
<1>1. ASSUME NEW f \in Filters, CreateFilter(f) PROVE Company'
  BY <1>1 DEF CreateFilter
<1>2. ASSUME NEW r \in Requests, NEW f \in Filters, RouteStep(r, f) PROVE Company'
  <2>1. PICK enabled \in {"on", "off", "gone", "keep"}, strict \in BOOLEAN, calls \in Plans :
           Planned(r, f, enabled, strict, calls)
    BY <1>2, RouteIs
  <2>2. QED
    BY <2>1 DEF Planned, Enter, Busy
<1>3. ASSUME NEW r \in Requests, Write(r) PROVE Company'
  BY <1>3 DEF Write, Leave
<1>4. ASSUME NEW r \in Requests, Call(r) PROVE Company'
  <2>1. CASE plan[r] # <<>> /\ Proceed(r)
    <3>1. PICK step \in {"start", "stop"}, rest \in {<<>>, <<"start">>} :
             /\ at' = [at EXCEPT ![r] = step]
             /\ plan' = [plan EXCEPT ![r] = rest]
             /\ UNCHANGED <<serves, update>>
             /\ plan[r] \in Starting <=> step = "start" \/ rest # <<>>
             /\ step = "start" => rest = <<>>
      BY <2>1, ProceedIs
    <3>2. QED
      BY <1>4, <2>1, <3>1, PlansDiffer DEF Call
  <2>2. QED
    BY <1>4, <2>1 DEF Call
<1>5. ASSUME NEW r \in Requests, StartCapture(r) PROVE Company'
  BY <1>5 DEF StartCapture, Say, StartFails
<1>6. ASSUME NEW r \in Requests, StopCapture(r) PROVE Company'
  <2>1. CASE session[serves[r]] = None /\ plan[r] # <<>> /\ Proceed(r)
    <3>1. PICK step \in {"start", "stop"}, rest \in {<<>>, <<"start">>} :
             /\ at' = [at EXCEPT ![r] = step]
             /\ plan' = [plan EXCEPT ![r] = rest]
             /\ UNCHANGED <<serves, update>>
             /\ plan[r] \in Starting <=> step = "start" \/ rest # <<>>
             /\ step = "start" => rest = <<>>
      BY <2>1, ProceedIs
    <3>2. QED
      BY <1>6, <2>1, <3>1, PlansDiffer DEF StopCapture, ProceedOrComplete
  <2>2. CASE session[serves[r]] = None /\ plan[r] = <<>>
    BY <1>6, <2>2, PlansDiffer DEF StopCapture, ProceedOrComplete, Complete, Leave
  <2>3. CASE session[serves[r]] # None
    BY <1>6, <2>3 DEF StopCapture, Say
  <2>4. QED
    BY <1>6, <2>1, <2>2, <2>3 DEF StopCapture, ProceedOrComplete
<1>7. ASSUME NEW r \in Requests, NotifyDone(r) PROVE Company'
  <2>1. CASE at[r] # "error" /\ plan[r] # <<>> /\ Proceed(r)
    <3>1. PICK step \in {"start", "stop"}, rest \in {<<>>, <<"start">>} :
             /\ at' = [at EXCEPT ![r] = step]
             /\ plan' = [plan EXCEPT ![r] = rest]
             /\ UNCHANGED <<serves, update>>
             /\ plan[r] \in Starting <=> step = "start" \/ rest # <<>>
             /\ step = "start" => rest = <<>>
      BY <2>1, ProceedIs
    <3>2. QED
      BY <1>7, <2>1, <3>1, PlansDiffer DEF NotifyDone, ProceedOrComplete, InCast, Sending,
             CastDone, CastRaises
  <2>2. CASE Leave(r)
    BY <1>7, <2>2, PlansDiffer DEF NotifyDone, ProceedOrComplete, Complete, Leave, InCast, Sending
  <2>3. QED
    BY <1>7, <2>1, <2>2 DEF NotifyDone, ProceedOrComplete, Complete
<1>8. ASSUME NEW r \in Requests, NotifyRaises(r) PROVE Company'
  BY <1>8 DEF NotifyRaises, CastRaises, InCast, Sending, Say, Leave
<1>9. ASSUME NEW p \in Readers, ReaderStep(p) PROVE Company'
  BY <1>9, ReadersApart DEF ledger
<1>10. CASE DeleteLab
  BY <1>10 DEF DeleteLab
<1>11. CASE Crash
  BY <1>11 DEF Crash
<1>12. CASE UNCHANGED <<ledger, threads>>
  BY <1>12 DEF ledger, threads, routes, locals
<1>13. QED
  BY <1>1, <1>2, <1>3, <1>4, <1>5, <1>6, <1>7, <1>8, <1>9, <1>10, <1>11, <1>12, StepKinds

\* What becomes of other filters is nothing to a request.
LEMMA OthersKeep ==
    ASSUME NEW q \in Requests, Course(q),
           at'[q] = at[q], plan'[q] = plan[q], update'[q] = update[q], serves'[q] = serves[q],
           row'[serves[q]] = row[serves[q]], session'[serves[q]] = session[serves[q]],
           serves[q] \in excused => serves[q] \in excused'
    PROVE  Course(q)'
BY DEF Course, Written, Captures, HasRow

\* A request alone on its filter finds it as it left it at the step before.
LEMMA OnCourseStep == Shape /\ Capturing /\ Company /\ OnCourse /\ [Next]_vars => OnCourse'
<1> SUFFICES ASSUME Shape, Capturing, Company, OnCourse, [Next]_vars,
                    NEW q \in Requests, serves'[q] # None, q \notin crowded'
             PROVE  Course(q)'
  BY DEF OnCourse
<1> USE SessionsAssumption DEF Shape, Steps, Updates, Messages, captures, locals, routes, sockets,
       histories
<1>1. ASSUME NEW f \in Filters, CreateFilter(f) PROVE Course(q)'
  BY <1>1, OthersKeep DEF CreateFilter, OnCourse, Course, HasRow, Written, Captures
<1>2. ASSUME NEW r \in Requests, NEW f \in Filters, RouteStep(r, f) PROVE Course(q)'
  <2>1. PICK enabled \in {"on", "off", "gone", "keep"}, strict \in BOOLEAN, calls \in Plans :
           Planned(r, f, enabled, strict, calls)
    BY <1>2, RouteIs
  <2>2. CASE q = r
    BY <2>1, <2>2 DEF Planned, Enter, Course, Written, HasRow
  <2>3. CASE q # r
    <3>1. q \notin crowded /\ serves[q] # None
      BY <2>1, <2>3 DEF Planned, Enter
    <3>2. QED
      BY <2>1, <2>3, <3>1, OthersKeep DEF Planned, Enter, OnCourse
  <2>4. QED
    BY <2>2, <2>3
<1>3. ASSUME NEW r \in Requests, Write(r) PROVE Course(q)'
  <2>1. CASE q = r
    <3>1. at[r] = "write" /\ Course(r) /\ serves[r] \in Filters /\ ~(update[r].strict /\ ~HasRow(serves[r]))
          /\ plan[r] # <<>>
      BY <1>3, <2>1 DEF Write, Leave, OnCourse
    <3>2. at' = [at EXCEPT ![r] = "call"] /\ UNCHANGED <<serves, plan>>
      BY <1>3, <2>1 DEF Write, Leave
    <3>3. HasRow(serves[r])
      BY <3>1 DEF Course
    <3>4. row'[serves[r]] = Written(r)
      BY <1>3, <3>1, <3>3 DEF Write, Written
    <3>5. QED
      BY <2>1, <3>1, <3>2, <3>4 DEF Course, Captures
  <2>2. CASE q # r
    BY <1>3, <2>2, OthersKeep DEF Write, Leave, Company, OnCourse
  <2>3. QED
    BY <2>1, <2>2
<1>4. ASSUME NEW r \in Requests, Call(r) PROVE Course(q)'
  <2>1. CASE q = r
    <3>1. CASE plan[r] # <<>> /\ Proceed(r)
      <4>1. PICK step \in {"start", "stop"}, rest \in {<<>>, <<"start">>} :
               /\ at' = [at EXCEPT ![r] = step]
               /\ plan' = [plan EXCEPT ![r] = rest]
               /\ UNCHANGED <<serves, update>>
               /\ plan[r] \in Starting <=> step = "start" \/ rest # <<>>
               /\ step = "start" => rest = <<>>
        BY <3>1, ProceedIs
      <4>2. row' = row /\ r \notin crowded /\ serves[r] # None
        BY <1>4, <2>1, <3>1, <4>1 DEF Call, ProceedOrComplete
      <4>3. at[r] \notin {"write", "error"} /\ plan[r] # <<>>
        BY <1>4, <3>1 DEF Call
      <4>4. row[serves[r]] = "on" <=> plan[r] \in Starting
        BY <4>2, <4>3 DEF OnCourse, Course, Captures
      <4>5. QED
        BY <2>1, <4>1, <4>2, <4>4, PlansDiffer DEF Course, Captures, Starting
    <3>2. QED
      BY <1>4, <3>1 DEF Call
  <2>2. CASE q # r
    BY <1>4, <2>2, OthersKeep DEF Call, Proceed, OnCourse
  <2>3. QED
    BY <2>1, <2>2
<1>5. ASSUME NEW r \in Requests, StartCapture(r) PROVE Course(q)'
  <2>1. CASE q = r
    <3>1. at[r] = "start" /\ Course(r) /\ serves[r] \in Filters
      BY <1>5, <2>1 DEF StartCapture, OnCourse
    <3>2. CASE session[serves[r]] # None
      BY <1>5, <2>1, <3>1, <3>2 DEF StartCapture, Course, Captures
    <3>3. CASE session[serves[r]] = None
      <4>1. Fresh \in Sessions
        BY <3>1, <3>3, FreshIs
      <4>2. CASE StartFails(r, serves[r], Fresh)
        BY <1>5, <2>1, <3>1, <4>2 DEF StartCapture, StartFails, Say, Course
      <4>3. CASE ~StartFails(r, serves[r], Fresh)
        <5>1. session'[serves[r]] # None
          BY <1>5, <3>1, <3>3, <4>1, <4>3 DEF StartCapture
        <5>2. /\ at' = [at EXCEPT ![r] = "activated"] /\ UNCHANGED <<row, serves, plan>>
          BY <1>5, <3>3, <4>3 DEF StartCapture, Say
        <5>3. QED
          BY <2>1, <3>1, <5>1, <5>2 DEF Course, Captures
      <4>4. QED
        BY <4>2, <4>3
    <3>4. QED
      BY <3>2, <3>3
  <2>2. CASE q # r
    BY <1>5, <2>2, OthersKeep DEF StartCapture, StartFails, Say, Company, OnCourse
  <2>3. QED
    BY <2>1, <2>2
<1>6. ASSUME NEW r \in Requests, StopCapture(r) PROVE Course(q)'
  <2>1. CASE q = r
    <3>1. CASE session[serves[r]] = None /\ plan[r] # <<>> /\ Proceed(r)
      <4>1. PICK step \in {"start", "stop"}, rest \in {<<>>, <<"start">>} :
               /\ at' = [at EXCEPT ![r] = step]
               /\ plan' = [plan EXCEPT ![r] = rest]
               /\ UNCHANGED <<serves, update>>
               /\ plan[r] \in Starting <=> step = "start" \/ rest # <<>>
               /\ step = "start" => rest = <<>>
        BY <3>1, ProceedIs
      <4>2. row' = row /\ r \notin crowded /\ serves[r] # None
        BY <1>6, <2>1, <3>1, <4>1 DEF StopCapture, ProceedOrComplete
      <4>3. at[r] \notin {"write", "error"} /\ plan[r] # <<>>
        BY <1>6, <3>1 DEF StopCapture
      <4>4. row[serves[r]] = "on" <=> plan[r] \in Starting
        BY <4>2, <4>3 DEF OnCourse, Course, Captures
      <4>5. QED
        BY <2>1, <4>1, <4>2, <4>4, PlansDiffer DEF Course, Captures, Starting
    <3>2. CASE session[serves[r]] = None /\ plan[r] = <<>>
      BY <1>6, <2>1, <3>2 DEF StopCapture, ProceedOrComplete, Complete, Leave
    <3>3. CASE session[serves[r]] # None
      <4>1. /\ at' = [at EXCEPT ![r] = "deactivated"] /\ UNCHANGED <<row, serves, plan>>
            /\ session' = [session EXCEPT ![serves[r]] = None]
        BY <1>6, <3>3 DEF StopCapture, Say
      <4>2. at[r] = "stop" /\ serves[r] \in Filters /\ Course(r)
        BY <1>6, <2>1, <3>3 DEF StopCapture, OnCourse
      <4>3. QED
        BY <2>1, <4>1, <4>2 DEF Course, Captures
    <3>4. QED
      BY <1>6, <3>1, <3>2, <3>3 DEF StopCapture, ProceedOrComplete
  <2>2. CASE q # r
    BY <1>6, <2>2, OthersKeep DEF StopCapture, Leave, Complete, ProceedOrComplete, Proceed, Say,
           Company, OnCourse
  <2>3. QED
    BY <2>1, <2>2
<1>7. ASSUME NEW r \in Requests, NotifyDone(r) PROVE Course(q)'
  <2>1. CASE q = r
    <3>1. CASE at[r] # "error" /\ plan[r] # <<>> /\ Proceed(r)
      <4>1. PICK step \in {"start", "stop"}, rest \in {<<>>, <<"start">>} :
               /\ at' = [at EXCEPT ![r] = step]
               /\ plan' = [plan EXCEPT ![r] = rest]
               /\ UNCHANGED <<serves, update>>
               /\ plan[r] \in Starting <=> step = "start" \/ rest # <<>>
               /\ step = "start" => rest = <<>>
        BY <3>1, ProceedIs
      <4>2. row' = row /\ r \notin crowded /\ serves[r] # None
        BY <1>7, <2>1, <3>1, <4>1 DEF NotifyDone, ProceedOrComplete
      <4>3. at[r] \notin {"write", "error"} /\ plan[r] # <<>>
        BY <1>7, <3>1 DEF NotifyDone, CastDone, InCast, Sending
      <4>4. row[serves[r]] = "on" <=> plan[r] \in Starting
        BY <4>2, <4>3 DEF OnCourse, Course, Captures
      <4>5. QED
        BY <2>1, <4>1, <4>2, <4>4, PlansDiffer DEF Course, Captures, Starting
    <3>2. CASE Leave(r)
      BY <2>1, <3>2 DEF Leave
    <3>3. QED
      BY <1>7, <3>1, <3>2 DEF NotifyDone, ProceedOrComplete, Complete
  <2>2. CASE q # r
    BY <1>7, <2>2, OthersKeep DEF NotifyDone, Leave, Complete, ProceedOrComplete, Proceed, Say,
           Company, OnCourse
  <2>3. QED
    BY <2>1, <2>2
<1>8. ASSUME NEW r \in Requests, NotifyRaises(r) PROVE Course(q)'
  <2>1. CASE q = r
    <3>1. CASE Leave(r)
      BY <2>1, <3>1 DEF Leave
    <3>2. CASE at[r] = "activated"
      <4>1. at' = [at EXCEPT ![r] = "error"] /\ UNCHANGED <<serves, plan, update, row, session, crowded>>
        BY <1>8, <3>2 DEF NotifyRaises, Say
      <4>2. Course(r)
        BY <2>1, <4>1 DEF OnCourse
      <4>3. QED
        BY <2>1, <3>2, <4>1, <4>2 DEF Course, Captures
    <3>3. QED
      BY <1>8, <3>1, <3>2 DEF NotifyRaises
  <2>2. CASE q # r
    BY <1>8, <2>2, OthersKeep DEF NotifyRaises, Leave, Say, OnCourse
  <2>3. QED
    BY <2>1, <2>2
<1>9. ASSUME NEW p \in Readers, ReaderStep(p) PROVE Course(q)'
  BY <1>9, ReadersApart, OthersKeep DEF ledger, OnCourse
<1>10. CASE DeleteLab
  BY <1>10 DEF DeleteLab
<1>11. CASE Crash
  BY <1>11 DEF Crash
<1>12. CASE UNCHANGED <<ledger, threads>>
  BY <1>12, OthersKeep DEF ledger, threads, OnCourse
<1>13. QED
  BY <1>1, <1>2, <1>3, <1>4, <1>5, <1>6, <1>7, <1>8, <1>9, <1>10, <1>11, <1>12, StepKinds

\* A request that completes leaves the row and the session of its filter in agreement.
LEMMA Completed ==
    ASSUME Shape, Company, Settled, NEW r \in Requests, Complete(r), UNCHANGED <<row, session>>,
           serves[r] \in Filters, at[r] # "write",
           r \notin crowded => (row[serves[r]] = "on" <=> session[serves[r]] # None),
           NEW g \in Filters, g \notin excused',
           \A q \in Requests : serves'[q] = g => at'[q] = "write"
    PROVE  row'[g] = "on" <=> session'[g] # None
<1> USE DEF Complete, Leave, Shape
<1>1. CASE g = serves[r]
  <2>1. r \notin crowded
    BY <1>1 DEF Company
  <2>2. QED
    BY <1>1, <2>1
<1>2. CASE g # serves[r]
  <2>1. g \notin excused
    BY <1>2
  <2>2. \A q \in Requests : serves[q] = g => at[q] = "write"
    BY <1>2
  <2>3. QED
    BY <2>1, <2>2 DEF Settled
<1>3. QED
  BY <1>1, <1>2

\* Rows and sessions that nobody is at work on stay as the last request left them.
LEMMA SettledStep == Shape /\ Capturing /\ Company /\ OnCourse /\ Settled /\ [Next]_vars => Settled'
<1> SUFFICES ASSUME Shape, Capturing, Company, OnCourse, Settled, [Next]_vars,
                    NEW g \in Filters, g \notin excused',
                    \A r \in Requests : serves'[r] = g => at'[r] = "write"
             PROVE  row'[g] = "on" <=> session'[g] # None
  BY DEF Settled
<1> USE SessionsAssumption DEF Shape, Steps, Updates, Messages, captures, locals, routes, sockets,
       histories
<1>1. ASSUME NEW f \in Filters, CreateFilter(f) PROVE row'[g] = "on" <=> session'[g] # None
  BY <1>1 DEF CreateFilter, Settled
<1>2. ASSUME NEW r \in Requests, NEW f \in Filters, RouteStep(r, f)
      PROVE  row'[g] = "on" <=> session'[g] # None
  <2>1. PICK enabled \in {"on", "off", "gone", "keep"}, strict \in BOOLEAN, calls \in Plans :
           Planned(r, f, enabled, strict, calls)
    BY <1>2, RouteIs
  <2>2. QED
    BY <2>1 DEF Planned, Enter, Settled, Busy
<1>3. ASSUME NEW r \in Requests, Write(r) PROVE row'[g] = "on" <=> session'[g] # None
  BY <1>3 DEF Write, Leave, Settled, Company, OnCourse, Course, Captures
<1>4. ASSUME NEW r \in Requests, Call(r) PROVE row'[g] = "on" <=> session'[g] # None
  <2>1. plan[r] # <<>> /\ Proceed(r)
    BY <1>4 DEF Call
  <2>2. QED
    <3>1. PICK step \in {"start", "stop"}, rest \in {<<>>, <<"start">>} :
             /\ at' = [at EXCEPT ![r] = step]
             /\ plan' = [plan EXCEPT ![r] = rest]
             /\ UNCHANGED <<serves, update>>
             /\ plan[r] \in Starting <=> step = "start" \/ rest # <<>>
             /\ step = "start" => rest = <<>>
      BY <2>1, ProceedIs
    <3>2. UNCHANGED <<row, session, excused, serves>> /\ at[r] # "write"
      BY <1>4, <2>1, <3>1 DEF Call
    <3>3. at' = [at EXCEPT ![r] = step] /\ step # "write"
      BY <3>1
    <3>4. serves[r] # g
      BY <3>2, <3>3
    <3>5. \A q \in Requests : serves[q] = g => at[q] = "write"
      BY <3>2, <3>3, <3>4
    <3>6. QED
      BY <3>2, <3>5 DEF Settled
<1>5. ASSUME NEW r \in Requests, StartCapture(r) PROVE row'[g] = "on" <=> session'[g] # None
  BY <1>5 DEF StartCapture, StartFails, Say, Settled, Company, OnCourse, Course, Captures
<1>6. ASSUME NEW r \in Requests, StopCapture(r) PROVE row'[g] = "on" <=> session'[g] # None
  <2>1. CASE session[serves[r]] = None /\ plan[r] # <<>> /\ Proceed(r)
    <3>1. PICK step \in {"start", "stop"}, rest \in {<<>>, <<"start">>} :
             /\ at' = [at EXCEPT ![r] = step]
             /\ plan' = [plan EXCEPT ![r] = rest]
             /\ UNCHANGED <<serves, update>>
             /\ plan[r] \in Starting <=> step = "start" \/ rest # <<>>
             /\ step = "start" => rest = <<>>
      BY <2>1, ProceedIs
    <3>2. UNCHANGED <<row, session, excused, serves>> /\ at[r] # "write"
      BY <1>6, <2>1, <3>1 DEF StopCapture, ProceedOrComplete
    <3>3. at' = [at EXCEPT ![r] = step] /\ step # "write"
      BY <3>1
    <3>4. serves[r] # g
      BY <3>2, <3>3
    <3>5. \A q \in Requests : serves[q] = g => at[q] = "write"
      BY <3>2, <3>3, <3>4
    <3>6. QED
      BY <3>2, <3>5 DEF Settled
  <2>2. CASE session[serves[r]] = None /\ plan[r] = <<>> /\ Complete(r)
    <3>1. UNCHANGED <<row, session>> /\ at[r] = "stop" /\ serves[r] \in Filters
      BY <1>6, <2>2 DEF StopCapture
    <3>2. r \notin crowded => (row[serves[r]] = "on" <=> session[serves[r]] # None)
      BY <2>2, <3>1 DEF OnCourse, Course, Captures
    <3>3. QED
      BY <2>2, <3>1, <3>2, Completed
  <2>3. CASE session[serves[r]] # None
    <3>1. /\ at' = [at EXCEPT ![r] = "deactivated"] /\ UNCHANGED <<row, serves, excused>>
          /\ session' = [session EXCEPT ![serves[r]] = None]
          /\ at[r] = "stop" /\ serves[r] \in Filters
      BY <1>6, <2>3 DEF StopCapture, Say
    <3>2. serves[r] # g
      BY <3>1
    <3>3. \A q \in Requests : serves[q] = g => at[q] = "write"
      BY <3>1, <3>2
    <3>4. QED
      BY <3>1, <3>2, <3>3 DEF Settled
  <2>4. QED
    BY <1>6, <2>1, <2>2, <2>3 DEF StopCapture, ProceedOrComplete
<1>7. ASSUME NEW r \in Requests, NotifyDone(r) PROVE row'[g] = "on" <=> session'[g] # None
  <2>1. CASE at[r] # "error" /\ plan[r] # <<>> /\ Proceed(r)
    <3>1. PICK step \in {"start", "stop"}, rest \in {<<>>, <<"start">>} :
             /\ at' = [at EXCEPT ![r] = step]
             /\ plan' = [plan EXCEPT ![r] = rest]
             /\ UNCHANGED <<serves, update>>
             /\ plan[r] \in Starting <=> step = "start" \/ rest # <<>>
             /\ step = "start" => rest = <<>>
      BY <2>1, ProceedIs
    <3>2. UNCHANGED <<row, session, excused, serves>> /\ at[r] # "write"
      BY <1>7, <2>1, <3>1 DEF NotifyDone, ProceedOrComplete, CastDone, InCast, Sending
    <3>3. at' = [at EXCEPT ![r] = step] /\ step # "write"
      BY <3>1
    <3>4. serves[r] # g
      BY <3>2, <3>3
    <3>5. \A q \in Requests : serves[q] = g => at[q] = "write"
      BY <3>2, <3>3, <3>4
    <3>6. QED
      BY <3>2, <3>5 DEF Settled
  <2>2. at[r] \in Messages /\ serves[r] \in Filters /\ UNCHANGED <<row, session>>
    BY <1>7 DEF NotifyDone, CastDone, InCast, Sending
  <2>3. CASE at[r] # "error" /\ plan[r] = <<>> /\ Complete(r)
    <3>1. r \notin crowded => (row[serves[r]] = "on" <=> session[serves[r]] # None)
      BY <2>2, <2>3 DEF OnCourse, Course, Captures
    <3>2. QED
      BY <2>2, <2>3, <3>1, Completed
  <2>4. CASE at[r] = "error" /\ Leave(r) /\ UNCHANGED excused
    <3>1. serves[r] = g => row[g] = "on" /\ session[g] # None
      BY <2>2, <2>4 DEF OnCourse, Course, Company
    <3>2. serves[r] # g => \A q \in Requests : serves[q] = g => at[q] = "write"
      BY <2>4 DEF Leave
    <3>3. QED
      BY <2>2, <2>4, <3>1, <3>2 DEF Settled
  <2>5. QED
    BY <1>7, <2>1, <2>3, <2>4 DEF NotifyDone, ProceedOrComplete
<1>8. ASSUME NEW r \in Requests, NotifyRaises(r) PROVE row'[g] = "on" <=> session'[g] # None
  BY <1>8 DEF NotifyRaises, CastRaises, InCast, Sending, Leave, Say, Settled, Company, OnCourse,
         Course, Captures
<1>9. ASSUME NEW p \in Readers, ReaderStep(p) PROVE row'[g] = "on" <=> session'[g] # None
  BY <1>9, ReadersApart DEF ledger, Settled
<1>10. CASE DeleteLab
  BY <1>10 DEF DeleteLab
<1>11. CASE Crash
  BY <1>11 DEF Crash
<1>12. CASE UNCHANGED <<ledger, threads>>
  BY <1>12 DEF ledger, threads, Settled
<1>13. QED
  BY <1>1, <1>2, <1>3, <1>4, <1>5, <1>6, <1>7, <1>8, <1>9, <1>10, <1>11, <1>12, StepKinds

\* A backend that has just started has nothing to keep apart.
LEMMA Initially == Init => IInv
<1> SUFFICES ASSUME Init PROVE IInv
  OBVIOUS
<1> USE SessionsAssumption DEF Init
<1>1. Shape
  BY DEF Shape, Steps, Plans
<1>2. Capturing
  <2>1. Waiting = {}
    BY DEF Waiting
  <2>2. IsFiniteSet(Waiting) /\ Cardinality(Waiting) = 0
    BY <2>1, FS_EmptySet
  <2>3. QED
    BY <2>2 DEF Capturing, NoStrayClient
<1>3. Company /\ OnCourse /\ Settled
  BY DEF Company, OnCourse, Settled
<1>4. QED
  BY <1>1, <1>2, <1>3 DEF IInv

\* The inductive invariant holds in every behaviour.
THEOREM InvariantHolds == Spec => []IInv
<1>1. Init => IInv
  BY Initially
<1>2. IInv /\ [Next]_vars => IInv'
  BY ShapeStep, CapturingStep, CompanyStep, OnCourseStep, SettledStep DEF IInv
<1>3. QED
  BY <1>1, <1>2, PTL DEF Spec

\* Every `docker exec` client of a running backend belongs to the session a filter has, whatever
\* starts fail half way, stop or overlap.
THEOREM NoStray == Spec => []NoStrayClient
<1>1. IInv => NoStrayClient
  BY DEF IInv, Capturing
<1>2. QED
  BY <1>1, InvariantHolds, PTL

\* A filter no request is at work on is enabled exactly when it has a session, for any number
\* of concurrent creates, toggles, patches and deletes.
THEOREM RowsMatch == Spec => []RowsMatchCaptures
<1>1. IInv => RowsMatchCaptures
  BY DEF IInv, Settled, RowsMatchCaptures, Busy
<1>2. QED
  BY <1>1, InvariantHolds, PTL
----------------------------------------------------------------------------
(* What the browsers have been told.                                       *)

\* A request that sends, or waits for the lock it holds itself.
Loud == Messages \union {"nested"}
Quiet == {"idle", "write", "call", "start", "stop"}
Words == {"activated", "deactivated"}

TellShape ==
    /\ open \subseteq Clients /\ conns \subseteq open
    /\ view \in [Clients -> [Filters -> {"untold", "on", "off"}]]
    /\ cast \in [Coroutines -> [rest : SUBSET Clients, size : Int, dead : SUBSET Clients]]
    /\ batch \in [Batches -> {"free", "scheduled", "sending", "done"}]

\* The lock is held through every broadcast of a request, and every flush.
Held ==
    /\ \A r \in Requests : at[r] \in Loud => lock = r
    /\ \A p \in Readers : reader[p] = "flushing" => lock = p

\* An iteration reaches sockets that are open, and a new socket has been told nothing.
Reach ==
    /\ \A c \in Coroutines : Sending(c) => cast[c].rest \subseteq open
    /\ \A w \in Clients \ open : \A f \in Filters : view[w][f] = "untold"

\* The word a broadcast spreads, which is true while it lasts; whoever it has passed knows it.
Word(r) == IF at[r] = "activated" THEN "on" ELSE "off"
Passed(r, w) == w \in cast[r].rest \/ view[w][serves[r]] \in {"untold", Word(r)}
Telling ==
    \A r \in Requests : at[r] \in Words =>
        /\ session[serves[r]] # None <=> at[r] = "activated"
        /\ \A w \in conns \ broken : Passed(r, w)

\* Where no word is on its way, and the last one was not cut short, browsers know the truth.
Agrees(f, w) ==
    /\ view[w][f] = "on" => session[f] # None
    /\ view[w][f] = "off" => session[f] = None
Informed ==
    \A f \in Filters \ cut :
        (\A r \in Requests : at[r] \in Words => serves[r] # f)
            => \A w \in conns \ broken : Agrees(f, w)

TellInv == TellShape /\ Held /\ Reach /\ Telling /\ Informed

----------------------------------------------------------------------------
\* A step that sends nothing, connects nobody and lets every loud request be.
LetBe(r) ==
    \/ at'[r] = at[r] /\ serves'[r] = serves[r]
    \/ at[r] \in Quiet /\ at'[r] \in Quiet
Unheard ==
    /\ UNCHANGED <<session, open, conns, view, cast, cut>>
    /\ broken \subseteq broken'
    /\ batch' \in [Batches -> {"free", "scheduled", "sending", "done"}]
    /\ \A k \in Batches : batch'[k] = "sending" => batch[k] = "sending"
    /\ \A r \in Requests : LetBe(r)

\* Such a step changes nothing of what browsers know.
LEMMA UnheardKeeps ==
    ASSUME TellShape, Reach, Telling, Informed, Unheard
    PROVE  TellShape' /\ Reach' /\ Telling' /\ Informed'
<1> USE DEF Unheard, LetBe
<1>1. ASSUME NEW r \in Requests, at[r] \in Loud \/ at'[r] \in Loud
      PROVE  at'[r] = at[r] /\ serves'[r] = serves[r]
  BY <1>1 DEF Loud, Messages, Quiet
<1>2. TellShape'
  BY DEF TellShape
<1>3. Reach'
  <2>1. ASSUME NEW c \in Coroutines, Sending(c)' PROVE Sending(c)
    <3>1. CASE c \in Requests
      BY <2>1, <3>1, <1>1 DEF Sending, Loud
    <3>2. CASE c \notin Requests
      BY <2>1, <3>2 DEF Sending, Coroutines
    <3>3. QED
      BY <3>1, <3>2
  <2>2. QED
    BY <2>1 DEF Reach
<1>4. Telling'
  <2> SUFFICES ASSUME NEW r \in Requests, at'[r] \in Words
               PROVE  /\ session'[serves'[r]] # None <=> at'[r] = "activated"
                      /\ \A w \in conns' \ broken' : Passed(r, w)'
    BY DEF Telling
  <2>1. at'[r] = at[r] /\ serves'[r] = serves[r]
    BY <1>1 DEF Words, Loud, Messages
  <2>2. QED
    BY <2>1 DEF Telling, Passed, Word
<1>5. Informed'
  <2> SUFFICES ASSUME NEW f \in Filters \ cut, \A r \in Requests : at'[r] \in Words => serves'[r] # f,
                      NEW w \in conns \ broken
               PROVE  Agrees(f, w)'
    BY DEF Informed
  <2>1. \A r \in Requests : at[r] \in Words => serves[r] # f
    BY <1>1 DEF Words, Loud, Messages
  <2>2. QED
    BY <2>1 DEF Informed, Agrees
<1>6. QED
  BY <1>2, <1>3, <1>4, <1>5

\* A request goes on to a quiet step, or ends; the others stay where they are.
Onward(r) ==
    /\ \E x \in Quiet : at' = [at EXCEPT ![r] = x]
    /\ \A q \in Requests \ {r} : serves'[q] = serves[q]

\* Making the next call, and leaving, are such steps.
LEMMA GoesOnward ==
    ASSUME Shape, NEW r \in Requests, (plan[r] # <<>> /\ Proceed(r)) \/ Leave(r)
    PROVE  Onward(r)
<1>1. CASE plan[r] # <<>> /\ Proceed(r)
  <2>1. Head(plan[r]) \in {"start", "stop"}
    BY <1>1, PlanIs DEF Shape
  <2>2. QED
    BY <1>1, <2>1 DEF Proceed, Onward, Quiet
<1>2. CASE Leave(r)
  BY <1>2 DEF Leave, Onward, Quiet, Shape
<1>3. QED
  BY <1>1, <1>2

\* A flush starts no broadcast.
LEMMA FlushStartsNone ==
    ASSUME TellShape, NEW s, NEW n, Flush(s, n)
    PROVE  /\ batch' \in [Batches -> {"free", "scheduled", "sending", "done"}]
           /\ \A k \in Batches : batch'[k] = "sending" => batch[k] = "sending"
<1>1. CASE n = 0
  BY <1>1 DEF Flush, TellShape
<1>2. CASE n # 0
  <2>1. PICK k : batch' = [batch EXCEPT ![k] = "scheduled"]
    BY <1>2 DEF Flush
  <2>2. QED
    BY <2>1 DEF TellShape
<1>3. QED
  BY <1>1, <1>2

\* The routes before and after their calls, and reader threads, are not heard.
LEMMA RoutesUnheard ==
    ASSUME Shape, TellShape,
           \/ \E f \in Filters : CreateFilter(f)
           \/ \E r \in Requests, f \in Filters : RouteStep(r, f)
           \/ \E r \in Requests : Write(r) \/ Call(r)
           \/ DeleteLab
    PROVE  Unheard /\ lock' = lock
<1> USE DEF captures, routes, locals, sockets, histories
<1>1. batch' = batch /\ UNCHANGED <<session, open, conns, view, cast, cut, lock, broken>>
  BY DEF CreateFilter, RouteStep, Toggle, Patch, Delete, Enter, Write, Call, DeleteLab
<1>2. ASSUME NEW r \in Requests, NEW f \in Filters, RouteStep(r, f)
      PROVE  at[r] \in Quiet /\ at' = [at EXCEPT ![r] = "write"] /\ \A q \in Requests \ {r} : serves'[q] = serves[q]
  BY <1>2 DEF RouteStep, Toggle, Patch, Delete, Enter, Shape, Quiet
<1>3. ASSUME NEW r \in Requests, Write(r) PROVE at[r] \in Quiet /\ Onward(r)
  <2>1. CASE Leave(r)
    BY <1>3, <2>1, GoesOnward DEF Write, Quiet
  <2>2. CASE ~Leave(r)
    BY <1>3, <2>2 DEF Write, Onward, Quiet
  <2>3. QED
    BY <2>1, <2>2
<1>4. ASSUME NEW r \in Requests, Call(r) PROVE at[r] \in Quiet /\ Onward(r)
  BY <1>4, GoesOnward DEF Call, Quiet, Shape
<1>5. \A q \in Requests : LetBe(q)
  <2>1. CASE \E f \in Filters : CreateFilter(f)
    BY <2>1 DEF CreateFilter, LetBe
  <2>2. CASE DeleteLab
    BY <2>2 DEF DeleteLab, LetBe
  <2>3. ASSUME NEW r \in Requests, NEW f \in Filters, RouteStep(r, f)
        PROVE  \A q \in Requests : LetBe(q)
    BY <2>3, <1>2 DEF Shape, Quiet, LetBe
  <2>4. ASSUME NEW r \in Requests, Write(r) \/ Call(r)
        PROVE  \A q \in Requests : LetBe(q)
    BY <2>4, <1>3, <1>4 DEF Shape, Onward, LetBe
  <2>5. QED
    BY <2>1, <2>2, <2>3, <2>4
<1>6. QED
  BY <1>1, <1>5 DEF Unheard, TellShape

\* Reader threads take the lock when it is free, and keep it until they are done.
LEMMA ReadersUnheard ==
    ASSUME Shape, TellShape, Held, NEW p \in Readers, ReaderStep(p)
    PROVE  Unheard /\ Held'
<1> USE SessionsAssumption DEF captures, routes, locals, sockets, histories
<1>1. UNCHANGED <<session, open, conns, view, cast, cut, broken, at, serves>>
  BY DEF ReaderStep, ReadLine, Enqueue, FlushReturns, ProcessExits
<1>2. Unheard
  <2>1. CASE batch' = batch
    BY <1>1, <2>1 DEF Unheard, TellShape, LetBe
  <2>2. CASE Flush(p[1], pending[p[1]] + 1)
    BY <1>1, <2>2, FlushStartsNone DEF Unheard, LetBe
  <2>3. QED
    BY <2>1, <2>2 DEF ReaderStep, ReadLine, Enqueue, FlushReturns, ProcessExits
<1>3. Held'
  <2>0. reader \in [Readers -> {"reading", "queued", "flushing", "ended"}]
    BY DEF Shape
  <2>1. CASE ReadLine(p) \/ ProcessExits(p)
    <3>1. lock' = lock /\ \A q \in Readers : reader'[q] = "flushing" => reader[q] = "flushing"
      BY <2>0, <2>1 DEF ReadLine, ProcessExits
    <3>2. QED
      BY <1>1, <3>1 DEF Held
  <2>2. CASE Enqueue(p)
    <3>1. lock = Nobody
      BY <2>2 DEF Enqueue
    <3>2. \A r \in Requests : at[r] \notin Loud
      BY <3>1 DEF Held
    <3>3. \A q \in Readers : reader[q] # "flushing"
      <4>1. Nobody \notin Readers
        BY SessionsAssumption DEF Readers
      <4>2. QED
        BY <3>1, <4>1 DEF Held
    <3>4. \A q \in Readers : reader'[q] = "flushing" => q = p /\ lock' = p
      BY <2>0, <2>2, <3>3 DEF Enqueue, ReadOn
    <3>5. QED
      BY <1>1, <3>2, <3>4 DEF Held
  <2>3. CASE FlushReturns(p)
    <3>1. lock = p /\ reader[p] = "flushing"
      BY <2>3 DEF FlushReturns, Held
    <3>2. \A r \in Requests : at[r] \notin Loud
      BY <3>1 DEF Held, Readers
    <3>3. \A q \in Readers : q # p => reader[q] # "flushing"
      BY <3>1 DEF Held
    <3>4. \A q \in Readers : reader'[q] # "flushing"
      BY <2>0, <2>3, <3>3 DEF FlushReturns, ReadOn
    <3>5. QED
      BY <1>1, <3>2, <3>4 DEF Held
  <2>4. QED
    BY <2>1, <2>2, <2>3 DEF ReaderStep
<1>4. QED
  BY <1>2, <1>3

\* The iteration a broadcast begins with has everyone in it.
LEMMA CastFits ==
    ASSUME TellShape, NEW c \in Coroutines, Broadcasting(c)
    PROVE  /\ cast' \in [Coroutines -> [rest : SUBSET Clients, size : Int, dead : SUBSET Clients]]
           /\ cast'[c].rest = conns
           /\ \A d \in Coroutines \ {c} : cast'[d] = cast[d]
<1>1. Cardinality(conns) \in Int
  <2>1. IsFiniteSet(conns)
    BY FS_Subset, SessionsAssumption DEF TellShape
  <2>2. QED
    BY <2>1, FS_CardinalityType
<1>2. [rest |-> conns, size |-> Cardinality(conns), dead |-> {}]
         \in [rest : SUBSET Clients, size : Int, dead : SUBSET Clients]
  BY <1>1 DEF TellShape
<1>3. QED
  BY <1>2 DEF Broadcasting, TellShape

\* A batch tells of no filter: what it does concerns its own iteration.
LEMMA BatchTells ==
    ASSUME TellInv, NEW k \in Batches, BatchStarts(k) \/ BatchEnds(k)
    PROVE  TellInv'
<1> USE SessionsAssumption DEF captures, routes, locals, sockets, histories
<1>1. k \notin Requests /\ k \in Coroutines
  BY DEF Batches, Coroutines
<1>2. UNCHANGED <<session, reader, at, serves, lock, cut, view, open, broken>>
  BY DEF BatchStarts, BatchEnds
<1>3. /\ conns' \subseteq conns
      /\ cast' \in [Coroutines -> [rest : SUBSET Clients, size : Int, dead : SUBSET Clients]]
      /\ \A d \in Coroutines \ {k} : cast'[d] = cast[d]
      /\ batch'[k] = "sending" => cast'[k].rest = conns
  <2>1. CASE BatchStarts(k)
    BY <1>1, <2>1, CastFits DEF BatchStarts, TellInv
  <2>2. CASE BatchEnds(k)
    <3>1. cast' = [cast EXCEPT ![k] = NoCast] /\ conns' \subseteq conns
      BY <2>2 DEF BatchEnds, CastDone, CastRaises, TellInv, TellShape
    <3>2. cast[k].size \in Int /\ batch' = [batch EXCEPT ![k] = "done"]
      BY <1>1, <2>2 DEF BatchEnds, TellInv, TellShape
    <3>3. cast' \in [Coroutines -> [rest : SUBSET Clients, size : Int, dead : SUBSET Clients]]
      <4>1. CASE CastDone(k)
        BY <3>1, <1>1 DEF NoCast, TellInv, TellShape
      <4>2. QED
        BY <3>1, <1>1 DEF NoCast, TellInv, TellShape
    <3>4. QED
      BY <1>1, <3>1, <3>2, <3>3 DEF TellInv, TellShape
  <2>3. QED
    BY <2>1, <2>2
<1>4. /\ batch' \in [Batches -> {"free", "scheduled", "sending", "done"}]
      /\ \A j \in Batches \ {k} : batch'[j] = batch[j]
  BY DEF BatchStarts, BatchEnds, TellInv, TellShape
<1>5. TellShape'
  BY <1>2, <1>3, <1>4 DEF TellInv, TellShape
<1>6. Held'
  BY <1>2 DEF TellInv, Held
<1>7. Reach'
  <2>1. ASSUME NEW c \in Coroutines, Sending(c)' PROVE cast'[c].rest \subseteq open'
    <3>1. CASE c = k
      BY <1>1, <1>2, <1>3, <2>1, <3>1 DEF Sending, TellInv, TellShape
    <3>2. CASE c # k
      <4>1. Sending(c)
        BY <1>2, <1>4, <2>1, <3>2 DEF Sending, Coroutines
      <4>2. QED
        BY <1>2, <1>3, <3>2, <4>1 DEF TellInv, Reach
    <3>3. QED
      BY <3>1, <3>2
  <2>2. QED
    BY <1>2, <2>1 DEF TellInv, Reach
<1>8. Telling'
  <2>1. \A r \in Requests : cast'[r] = cast[r]
    BY <1>1, <1>3 DEF Coroutines
  <2>2. QED
    BY <1>2, <1>3, <2>1 DEF TellInv, Telling, Passed, Word
<1>9. Informed'
  BY <1>2, <1>3 DEF TellInv, Informed, Agrees
<1>10. QED
  BY <1>5, <1>6, <1>7, <1>8, <1>9 DEF TellInv

\* A message reaches one browser, or finds its connection dead.
LEMMA SendTells ==
    ASSUME Shape, TellInv, NEW c \in Coroutines, SendText(c)
    PROVE  TellInv'
<1> USE SessionsAssumption DEF captures, routes, locals, sockets, histories
<1>1. UNCHANGED <<session, reader, at, serves, lock, cut, open, broken, conns, batch>> /\ Sending(c)
  BY DEF SendText, InCast
<1>2. PICK w \in cast[c].rest :
         \/ w \notin broken /\ view' = Told(c, w) /\ cast' = [cast EXCEPT ![c].rest = @ \ {w}]
         \/ /\ w \in broken /\ view' = view
            /\ cast' = [cast EXCEPT ![c].rest = @ \ {w}, ![c].dead = @ \union {w}]
  BY DEF SendText
<1>3. w \in open /\ w \in Clients /\ cast[c] \in [rest : SUBSET Clients, size : Int, dead : SUBSET Clients]
  BY <1>1 DEF TellInv, Reach, TellShape
<1>4. /\ cast' \in [Coroutines -> [rest : SUBSET Clients, size : Int, dead : SUBSET Clients]]
      /\ cast'[c].rest = cast[c].rest \ {w}
      /\ \A d \in Coroutines \ {c} : cast'[d] = cast[d]
  <2>1. CASE cast' = [cast EXCEPT ![c].rest = @ \ {w}]
    BY <1>3, <2>1 DEF TellInv, TellShape
  <2>2. CASE cast' = [cast EXCEPT ![c].rest = @ \ {w}, ![c].dead = @ \union {w}]
    BY <1>3, <2>2 DEF TellInv, TellShape
  <2>3. QED
    BY <1>2, <2>1, <2>2
<1>5. /\ view' \in [Clients -> [Filters -> {"untold", "on", "off"}]]
      /\ \A v \in Clients, f \in Filters :
            v # w \/ c \notin Requests \/ at[c] = "error" \/ serves[c] # f => view'[v][f] = view[v][f]
      /\ c \in Requests /\ at[c] # "error" /\ w \notin broken => view'[w][serves[c]] = Word(c)
  <2>1. CASE c \in Requests /\ at[c] # "error" /\ w \notin broken
    <3>1. serves[c] \in Filters
      BY <1>1, <2>1 DEF Sending, Messages, Shape
    <3>2. view' = [view EXCEPT ![w][serves[c]] = IF at[c] = "activated" THEN "on" ELSE "off"]
      BY <1>2, <2>1 DEF Told
    <3>3. view' = [view EXCEPT ![w][serves[c]] = Word(c)] /\ Word(c) \in {"untold", "on", "off"}
      BY <3>2 DEF Word
    <3>4. view[w] \in [Filters -> {"untold", "on", "off"}] /\ w \in Clients
      BY <1>3 DEF TellInv, TellShape
    <3>5. view' = [view EXCEPT ![w] = [view[w] EXCEPT ![serves[c]] = Word(c)]]
      BY <3>3, Zenon
    <3>6. [view[w] EXCEPT ![serves[c]] = Word(c)] \in [Filters -> {"untold", "on", "off"}]
      BY <3>3, <3>4
    <3>7. view' \in [Clients -> [Filters -> {"untold", "on", "off"}]]
      BY <3>4, <3>5, <3>6 DEF TellInv, TellShape
    <3>8. view'[w] = [view[w] EXCEPT ![serves[c]] = Word(c)]
          /\ \A v \in Clients \ {w} : view'[v] = view[v]
      BY <3>4, <3>5 DEF TellInv, TellShape
    <3>9. QED
      BY <2>1, <3>1, <3>4, <3>7, <3>8
  <2>2. CASE ~(c \in Requests /\ at[c] # "error" /\ w \notin broken)
    BY <1>2, <2>2 DEF Told, TellInv, TellShape
  <2>3. QED
    BY <2>1, <2>2
<1>6. TellShape'
  BY <1>1, <1>4, <1>5 DEF TellInv, TellShape
<1>7. Held'
  BY <1>1 DEF TellInv, Held
<1>8. Reach'
  <2>1. ASSUME NEW d \in Coroutines, Sending(d)' PROVE cast'[d].rest \subseteq open'
    <3>1. Sending(d)
      BY <1>1, <2>1 DEF Sending
    <3>2. cast'[d].rest \subseteq cast[d].rest
      BY <1>4
    <3>3. QED
      BY <1>1, <3>1, <3>2 DEF TellInv, Reach
  <2>2. QED
    BY <1>1, <1>3, <1>5, <2>1 DEF TellInv, Reach
<1>9. Telling'
  <2> SUFFICES ASSUME NEW r \in Requests, at[r] \in Words
               PROVE  \A v \in conns \ broken : Passed(r, v)'
    BY <1>1 DEF TellInv, Telling
  <2> SUFFICES ASSUME NEW v \in conns \ broken PROVE Passed(r, v)'
    OBVIOUS
  <2>1. Passed(r, v) /\ v \in Clients /\ serves[r] \in Filters /\ r \in Coroutines
    BY DEF TellInv, Telling, TellShape, Shape, Words, Coroutines
  <2>2. CASE r = c
    <3>1. CASE v = w
      BY <1>1, <1>5, <2>2, <3>1 DEF Passed, Word, Words
    <3>2. CASE v # w
      BY <1>1, <1>4, <1>5, <2>1, <2>2, <3>2 DEF Passed, Word
    <3>3. QED
      BY <3>1, <3>2
  <2>3. CASE r # c
    <3>1. cast'[r] = cast[r]
      BY <1>4, <2>1, <2>3
    <3>2. view'[v][serves[r]] = view[v][serves[r]]
      <4>1. lock = r
        BY DEF TellInv, Held, Words, Loud, Messages
      <4>2. c \notin Requests
        BY <1>1, <2>3, <4>1 DEF TellInv, Held, Sending, Loud
      <4>3. QED
        BY <1>5, <2>1, <4>2
    <3>3. QED
      BY <1>1, <2>1, <3>1, <3>2 DEF Passed, Word
  <2>4. QED
    BY <2>2, <2>3
<1>10. Informed'
  <2> SUFFICES ASSUME NEW f \in Filters \ cut, \A r \in Requests : at[r] \in Words => serves[r] # f,
                      NEW v \in conns \ broken
               PROVE  Agrees(f, v)'
    BY <1>1 DEF Informed
  <2>1. c \notin Requests \/ at[c] = "error" \/ serves[c] # f
    BY <1>1 DEF Sending, Words, Messages
  <2>2. view'[v][f] = view[v][f]
    BY <1>5, <2>1 DEF TellInv, TellShape
  <2>3. QED
    BY <1>1, <2>2 DEF TellInv, Informed, Agrees
<1>11. QED
  BY <1>6, <1>7, <1>8, <1>9, <1>10 DEF TellInv

\* A browser that comes has been told nothing, and one that goes forgets.
LEMMA SocketsTell ==
    ASSUME Shape, TellInv, NEW w \in Clients, Connect(w) \/ Disconnect(w) \/ Break(w)
    PROVE  TellInv'
<1> USE DEF captures, routes, locals, sockets, histories
<1>1. /\ UNCHANGED <<session, reader, at, serves, lock, cut, batch>>
      /\ \A c \in Coroutines : Sending(c)' <=> Sending(c)
  BY DEF Connect, Disconnect, Break, Sending
<1>2. \A r \in Requests : at[r] \in Words => Sending(r) /\ r \in Coroutines /\ serves[r] \in Filters
  BY DEF Words, Sending, Messages, Coroutines, Shape
<1>3. Held'
  BY <1>1 DEF TellInv, Held
<1>4. CASE Connect(w)
  <2>1. PICK seen \in SUBSET {c \in Coroutines : Sending(c)} :
           cast' = [c \in Coroutines |->
                       IF c \in seen THEN [cast[c] EXCEPT !.rest = @ \union {w}] ELSE cast[c]]
    BY <1>4 DEF Connect
  <2>2. /\ open' = open \union {w} /\ conns' = conns \union {w} /\ w \notin open
        /\ UNCHANGED <<view, broken>>
    BY <1>4 DEF Connect
  <2>3. ASSUME NEW c \in Coroutines
        PROVE  /\ cast'[c] \in [rest : SUBSET Clients, size : Int, dead : SUBSET Clients]
               /\ cast[c].rest \subseteq cast'[c].rest /\ cast'[c].rest \subseteq cast[c].rest \union {w}
    <3>1. cast[c] \in [rest : SUBSET Clients, size : Int, dead : SUBSET Clients]
      BY DEF TellInv, TellShape
    <3>2. CASE c \in seen
      <4>1. cast'[c] = [cast[c] EXCEPT !.rest = @ \union {w}]
        BY <2>1, <3>2
      <4>2. QED
        BY <3>1, <4>1
    <3>3. CASE c \notin seen
      <4>1. cast'[c] = cast[c]
        BY <2>1, <3>3
      <4>2. QED
        BY <3>1, <4>1
    <3>4. QED
      BY <3>2, <3>3
  <2>4. TellShape'
    BY <1>1, <2>1, <2>2, <2>3 DEF TellInv, TellShape
  <2>5. Reach'
    BY <1>1, <2>2, <2>3 DEF TellInv, Reach
  <2>6. \A f \in Filters : view[w][f] = "untold"
    BY <2>2 DEF TellInv, Reach
  <2>7. Telling'
    BY <1>1, <1>2, <2>2, <2>3, <2>6 DEF TellInv, Telling, Passed, Word
  <2>8. Informed'
    BY <1>1, <2>2, <2>6 DEF TellInv, Informed, Agrees
  <2>9. QED
    BY <1>3, <2>4, <2>5, <2>7, <2>8 DEF TellInv
<1>5. CASE Disconnect(w)
  <2>2. /\ open' = open \ {w} /\ conns' = conns \ {w} /\ broken' = broken \ {w}
        /\ view' = [view EXCEPT ![w] = [f \in Filters |-> "untold"]]
        /\ cast' = [c \in Coroutines |->
                    IF ~Sending(c) THEN cast[c]
                    ELSE [cast[c] EXCEPT !.rest = @ \ {w}, !.size = IF conns' = {} THEN -1 ELSE @]]
    BY <1>5 DEF Disconnect
  <2>3. ASSUME NEW c \in Coroutines
        PROVE  /\ cast'[c] \in [rest : SUBSET Clients, size : Int, dead : SUBSET Clients]
               /\ Sending(c) => cast'[c].rest = cast[c].rest \ {w}
    <3>1. cast[c] \in [rest : SUBSET Clients, size : Int, dead : SUBSET Clients]
      BY DEF TellInv, TellShape
    <3>2. CASE Sending(c)
      <4>1. cast'[c] = [cast[c] EXCEPT !.rest = @ \ {w}, !.size = IF conns' = {} THEN -1 ELSE @]
        BY <2>2, <3>2
      <4>2. cast[c].size \in Int /\ -1 \in Int
        BY <3>1
      <4>3. PICK n \in Int : cast'[c] = [cast[c] EXCEPT !.rest = @ \ {w}, !.size = n]
        BY <4>1, <4>2
      <4>4. QED
        BY <3>1, <4>3
    <3>3. CASE ~Sending(c)
      <4>1. cast'[c] = cast[c]
        BY <2>2, <3>3
      <4>2. QED
        BY <3>1, <3>3, <4>1
    <3>4. QED
      BY <3>2, <3>3
  <2>4. TellShape'
    BY <1>1, <2>2, <2>3 DEF TellInv, TellShape
  <2>5. Reach'
    BY <1>1, <2>2, <2>3 DEF TellInv, Reach, TellShape
  <2>6. \A v \in conns' \ broken' : v # w /\ v \in conns \ broken /\ view'[v] = view[v]
    BY <2>2 DEF TellInv, TellShape
  <2>7. Telling'
    BY <1>1, <1>2, <2>3, <2>6 DEF TellInv, Telling, Passed, Word
  <2>8. Informed'
    BY <1>1, <2>6 DEF TellInv, Informed, Agrees
  <2>9. QED
    BY <1>3, <2>4, <2>5, <2>7, <2>8 DEF TellInv
<1>6. CASE Break(w)
  <2>1. Unheard
    BY <1>6 DEF Break, Unheard, LetBe, TellInv, TellShape
  <2>2. QED
    BY <1>3, <2>1, UnheardKeeps DEF TellInv
<1>7. QED
  BY <1>4, <1>5, <1>6

\* Nobody else sends while a request has the lock, or takes it.
LEMMA AloneWithLock ==
    ASSUME Held, NEW r \in Requests, lock \in {Nobody, r}
    PROVE  /\ \A q \in Requests \ {r} : at[q] \notin Loud
           /\ \A p \in Readers : reader[p] # "flushing"
BY SessionsAssumption DEF Held, Readers

\* A broadcast begins: what it says is the state of the filter.
LEMMA SayTells ==
    ASSUME Shape, TellInv, NEW r \in Requests, NEW m \in Messages, Say(r, m), lock' = r,
           serves[r] \in Filters, lock \in {Nobody, r},
           UNCHANGED <<open, broken, conns, view, serves>>,
           batch' \in [Batches -> {"free", "scheduled", "sending", "done"}],
           \A k \in Batches : batch'[k] = "sending" => batch[k] = "sending",
           \A p \in Readers : reader'[p] = "flushing" => reader[p] = "flushing",
           \A f \in Filters \ {serves[r]} : session'[f] = session[f],
           m = "error" => session' = session,
           m \in Words => (session'[serves[r]] # None <=> m = "activated"),
           cut \subseteq cut',
           at[r] \in Words => serves[r] \in cut'
    PROVE  TellInv'
<1> USE SessionsAssumption
<1>1. at' = [at EXCEPT ![r] = m] /\ Broadcasting(r) /\ r \in Coroutines
  BY DEF Say, Coroutines
<1>2. /\ cast' \in [Coroutines -> [rest : SUBSET Clients, size : Int, dead : SUBSET Clients]]
      /\ cast'[r].rest = conns
      /\ \A d \in Coroutines \ {r} : cast'[d] = cast[d]
  BY <1>1, CastFits DEF TellInv
<1>3. /\ at'[r] = m
      /\ \A q \in Requests \ {r} : at'[q] = at[q] /\ at[q] \notin Loud
      /\ \A p \in Readers : reader[p] # "flushing"
  BY <1>1, AloneWithLock DEF TellInv, Shape
<1>4. TellShape'
  BY <1>2 DEF TellInv, TellShape
<1>5. Held'
  BY <1>3 DEF TellInv, Held
<1>6. Reach'
  <2>1. ASSUME NEW c \in Coroutines, Sending(c)', c # r PROVE Sending(c)
    BY <1>3, <2>1 DEF Sending, Coroutines, Loud
  <2>2. QED
    BY <1>2, <2>1 DEF TellInv, Reach, TellShape
<1>7. Telling'
  <2> SUFFICES ASSUME NEW q \in Requests, at'[q] \in Words
               PROVE  /\ session'[serves[q]] # None <=> at'[q] = "activated"
                      /\ \A w \in conns \ broken : Passed(q, w)'
    BY DEF Telling
  <2>1. q = r
    BY <1>3 DEF Words, Loud, Messages
  <2>2. QED
    BY <1>2, <1>3, <2>1 DEF Passed, Words
<1>8. Informed'
  <2> SUFFICES ASSUME NEW f \in Filters \ cut', \A q \in Requests : at'[q] \in Words => serves[q] # f,
                      NEW w \in conns \ broken
               PROVE  Agrees(f, w)'
    BY DEF Informed
  <2>1. session'[f] = session[f]
    BY <1>3 DEF Words, Messages
  <2>2. \A q \in Requests : at[q] \in Words => serves[q] # f
    BY <1>3 DEF Words, Loud, Messages
  <2>3. QED
    BY <2>1, <2>2 DEF TellInv, Informed, Agrees
<1>9. QED
  BY <1>4, <1>5, <1>6, <1>7, <1>8 DEF TellInv

\* A broadcast ends: whoever was reached knows, and otherwise it was cut short.
LEMMA EndTells ==
    ASSUME Shape, TellInv, NEW r \in Requests, at[r] \in Messages, Onward(r), lock' = Nobody,
           cast' = [cast EXCEPT ![r] = NoCast], conns' \subseteq conns,
           UNCHANGED <<open, broken, view, session, batch, reader>>,
           cut \subseteq cut' \union {serves[r]},
           at[r] = "error" => cut' = cut,
           at[r] \in Words => serves[r] \in cut' \/ cast[r].rest = {}
    PROVE  TellInv'
<1> USE SessionsAssumption
<1>1. /\ at'[r] \in Quiet
      /\ \A q \in Requests \ {r} : at'[q] = at[q] /\ at[q] \notin Loud /\ serves'[q] = serves[q]
      /\ \A p \in Readers : reader[p] # "flushing"
      /\ r \in Coroutines
  <2>1. lock = r
    BY DEF TellInv, Held, Loud
  <2>2. QED
    BY <2>1, AloneWithLock DEF TellInv, Shape, Onward, Coroutines
<1>2. TellShape'
  <2>1. NoCast \in [rest : SUBSET Clients, size : Int, dead : SUBSET Clients]
    BY DEF NoCast
  <2>2. QED
    BY <2>1 DEF TellInv, TellShape
<1>3. Held'
  BY <1>1 DEF Held, Quiet, Loud, Messages
<1>4. Reach'
  <2>1. ASSUME NEW c \in Coroutines, Sending(c)' PROVE Sending(c) /\ c # r
    BY <1>1, <2>1 DEF Sending, Coroutines, Quiet, Messages
  <2>2. \A c \in Coroutines : c # r => cast'[c] = cast[c]
    BY DEF TellInv, TellShape
  <2>3. QED
    BY <2>1, <2>2 DEF TellInv, Reach
<1>5. \A q \in Requests : at'[q] \notin Words
  BY <1>1 DEF Quiet, Words, Loud, Messages
<1>6. Informed'
  <2> SUFFICES ASSUME NEW f \in Filters \ cut', NEW w \in conns \ broken PROVE Agrees(f, w)'
    BY DEF Informed
  <2>1. CASE at[r] = "error" \/ serves[r] # f
    <3>1. \A q \in Requests : at[q] \in Words => serves[q] # f
      BY <1>1, <2>1 DEF Words, Loud, Messages
    <3>2. f \notin cut
      BY <2>1
    <3>3. QED
      BY <3>1, <3>2 DEF TellInv, Informed, Agrees
  <2>2. CASE at[r] # "error" /\ serves[r] = f
    <3>1. at[r] \in Words /\ cast[r].rest = {}
      BY <2>2 DEF Messages, Words
    <3>2. Passed(r, w) /\ (session[f] # None <=> at[r] = "activated")
      BY <2>2, <3>1 DEF TellInv, Telling
    <3>3. QED
      BY <2>2, <3>1, <3>2 DEF Passed, Word, Words, Agrees
  <2>3. QED
    BY <2>1, <2>2
<1>7. Telling'
  BY <1>5 DEF Telling
<1>8. QED
  BY <1>2, <1>3, <1>4, <1>6, <1>7 DEF TellInv

\* Starting a capture takes the lock, changes the session and begins to say so.
LEMMA StartTells ==
    ASSUME Shape, Capturing, TellInv, NEW r \in Requests, StartCapture(r)
    PROVE  TellInv'
<1> USE SessionsAssumption DEF captures, locals, sockets
<1>1. /\ lock = Nobody /\ lock' = r /\ at[r] = "start" /\ serves[r] \in Filters
      /\ UNCHANGED <<serves, batch, open, broken, conns, view, cut>>
  BY DEF StartCapture, HoldLock, Shape
<1>2. batch \in [Batches -> {"free", "scheduled", "sending", "done"}]
      /\ reader \in [Readers -> {"reading", "queued", "flushing", "ended"}]
      /\ session \in [Filters -> Sessions \union {None}]
  BY DEF TellInv, TellShape, Shape
<1>3. CASE at' = [at EXCEPT ![r] = "nested"] /\ UNCHANGED <<captures, cast>>
  <2>1. /\ \A q \in Requests : at'[q] \in Messages <=> at[q] \in Messages
        /\ \A q \in Requests : at'[q] \in Messages => at'[q] = at[q]
        /\ \A q \in Requests : at'[q] \in Words \/ at[q] \in Words => at'[q] = at[q]
    BY <1>1, <1>3 DEF Shape, Messages, Words
  <2>2. Held'
    BY <1>1, <1>3, AloneWithLock DEF TellInv, Held, Shape
  <2>3. Reach'
    BY <1>1, <1>3, <2>1 DEF TellInv, Reach, Sending
  <2>4. Telling'
    BY <1>1, <1>3, <2>1 DEF TellInv, Telling, Passed, Word
  <2>5. Informed'
    BY <1>1, <1>3, <2>1 DEF TellInv, Informed, Agrees
  <2>6. QED
    BY <1>1, <1>3, <2>2, <2>3, <2>4, <2>5 DEF TellInv, TellShape
<1>4. CASE session[serves[r]] = None /\ session' = [session EXCEPT ![serves[r]] = Fresh]
           /\ reader' = [p \in Readers |-> IF p[1] = Fresh THEN "reading" ELSE reader[p]]
           /\ Say(r, "activated")
  <2>1. Fresh \in Sessions
    BY <1>1, <1>4, FreshIs
  <2>2. session'[serves[r]] # None /\ \A f \in Filters \ {serves[r]} : session'[f] = session[f]
    BY <1>1, <1>2, <1>4, <2>1
  <2>3. \A p \in Readers : reader'[p] = "flushing" => reader[p] = "flushing"
    BY <1>4
  <2>4. "activated" \in Messages /\ "activated" \in Words /\ at[r] \notin Words
    BY <1>1 DEF Messages, Words
  <2>5. QED
    BY <1>1, <1>2, <1>4, <2>2, <2>3, <2>4, SayTells
<1>5. CASE StartFails(r, serves[r], Fresh)
  <2>1. \A p \in Readers : reader'[p] = "flushing" => reader[p] = "flushing"
    BY <1>5 DEF StartFails
  <2>2. "error" \in Messages /\ "error" \notin Words /\ at[r] \notin Words
    BY <1>1 DEF Messages, Words
  <2>3. Say(r, "error") /\ session' = session
    BY <1>5 DEF StartFails
  <2>4. QED
    BY <1>1, <1>2, <2>1, <2>2, <2>3, SayTells
<1>6. QED
  BY <1>3, <1>4, <1>5 DEF StartCapture

\* Stopping one does the same, or finds nothing to stop.
LEMMA StopTells ==
    ASSUME Shape, TellInv, NEW r \in Requests, StopCapture(r)
    PROVE  TellInv'
<1> USE SessionsAssumption DEF captures, locals, sockets
<1>1. /\ lock = Nobody /\ at[r] = "stop" /\ serves[r] \in Filters
      /\ UNCHANGED <<open, broken, conns, view, cut>>
  BY DEF StopCapture, Shape
<1>2. CASE session[serves[r]] = None
  <2>1. UNCHANGED <<session, reader, lock, batch, cast>> /\ Onward(r)
    BY <1>2, GoesOnward DEF StopCapture, ProceedOrComplete, Complete
  <2>2. Unheard /\ \A q \in Requests : at'[q] \in Loud => at[q] \in Loud
    <3>1. \A q \in Requests \ {r} : at'[q] = at[q] /\ serves'[q] = serves[q]
      BY <2>1 DEF Onward, Shape
    <3>2. at[r] \in Quiet /\ at'[r] \in Quiet
      BY <1>1, <2>1 DEF Onward, Quiet, Shape
    <3>3. QED
      BY <1>1, <2>1, <3>1, <3>2 DEF Unheard, LetBe, TellInv, TellShape, Quiet, Loud, Messages
  <2>3. Held'
    BY <2>1, <2>2 DEF TellInv, Held
  <2>4. QED
    BY <2>2, <2>3, UnheardKeeps DEF TellInv
<1>3. CASE session[serves[r]] # None
  <2>1. /\ lock' = r /\ session' = [session EXCEPT ![serves[r]] = None] /\ UNCHANGED serves
        /\ Flush(session[serves[r]], pending[session[serves[r]]])
        /\ Terminate(session[serves[r]]) /\ Say(r, "deactivated")
    BY <1>3 DEF StopCapture, HoldLock
  <2>2. /\ session'[serves[r]] = None
        /\ \A f \in Filters \ {serves[r]} : session'[f] = session[f]
    BY <1>1, <2>1 DEF Shape
  <2>3. \A p \in Readers : reader'[p] = "flushing" => reader[p] = "flushing"
    BY <2>1 DEF Terminate
  <2>4. "deactivated" \in Messages /\ at[r] \notin Words
    BY <1>1 DEF Messages, Words
  <2>5. /\ batch' \in [Batches -> {"free", "scheduled", "sending", "done"}]
        /\ \A k \in Batches : batch'[k] = "sending" => batch[k] = "sending"
    BY <2>1, FlushStartsNone DEF TellInv
  <2>6. QED
    BY <1>1, <2>1, <2>2, <2>3, <2>4, <2>5, SayTells
<1>4. QED
  BY <1>2, <1>3

\* The message is out, or the broadcast is cut short.
LEMMA NotifyTells ==
    ASSUME Shape, TellInv, NEW r \in Requests, NotifyDone(r) \/ NotifyRaises(r)
    PROVE  TellInv'
<1> USE SessionsAssumption DEF captures, sockets
<1>1. /\ r \in Coroutines /\ at[r] \in Messages /\ lock = r /\ serves[r] \in Filters
      /\ UNCHANGED <<open, broken, view, session, batch, reader>>
      /\ conns' \subseteq conns
  BY DEF NotifyDone, NotifyRaises, CastDone, CastRaises, InCast, Sending, Coroutines, TellInv, Held,
         Loud, Messages, Shape
<1>2. CASE NotifyDone(r)
  <2>1. cast' = [cast EXCEPT ![r] = NoCast] /\ lock' = Nobody /\ cast[r].rest = {}
    BY <1>2 DEF NotifyDone, CastDone
  <2>2. Onward(r)
    BY <1>2, GoesOnward DEF NotifyDone, ProceedOrComplete, Complete
  <2>3. cut' = IF at[r] = "error" THEN cut ELSE cut \ {serves[r]}
    BY <1>2 DEF NotifyDone
  <2>4. QED
    BY <1>1, <2>1, <2>2, <2>3, EndTells
<1>3. CASE NotifyRaises(r) /\ at[r] = "activated"
  <2>1. /\ Say(r, "error") /\ UNCHANGED <<lock, serves, conns>> /\ cut' = cut \union {serves[r]}
    BY <1>3 DEF NotifyRaises, CastRaises, locals
  <2>2. "error" \in Messages /\ "error" \notin Words
    BY DEF Messages, Words
  <2>3. batch \in [Batches -> {"free", "scheduled", "sending", "done"}]
    BY DEF TellInv, TellShape
  <2>4. QED
    BY <1>1, <2>1, <2>2, <2>3, SayTells
<1>4. CASE NotifyRaises(r) /\ at[r] # "activated"
  <2>1. /\ cast' = [cast EXCEPT ![r] = NoCast] /\ lock' = Nobody /\ Leave(r)
        /\ cut' = IF at[r] = "error" THEN cut ELSE cut \union {serves[r]}
    BY <1>4 DEF NotifyRaises
  <2>2. Onward(r)
    BY <2>1, GoesOnward
  <2>3. QED
    BY <1>1, <2>1, <2>2, EndTells DEF Words
<1>5. QED
  BY <1>2, <1>3, <1>4

\* After a crash nobody is left to know anything.
LEMMA CrashTells == ASSUME Shape, TellInv, Crash PROVE TellInv'
<1>1. TellShape'
  <2>1. NoCast \in [rest : SUBSET Clients, size : Int, dead : SUBSET Clients]
    BY DEF NoCast
  <2>2. QED
    BY <2>1 DEF Crash, TellInv, TellShape
<1>2. Held' /\ Telling'
  BY DEF Crash, Held, Telling, Loud, Words, Messages
<1>3. Reach'
  BY DEF Crash, Reach, NoCast
<1>4. Informed'
  BY DEF Crash, Informed
<1>5. QED
  BY <1>1, <1>2, <1>3, <1>4 DEF TellInv

\* The loop goes on with a send, or nothing happens.
LEMMA StutterTells ==
    ASSUME TellInv, (\E c \in Coroutines : Resume(c)) \/ UNCHANGED vars
    PROVE  TellInv'
<1>1. UNCHANGED <<session, reader, at, serves, lock, cut, open, broken, conns, view, cast, batch>>
  BY DEF Resume, vars, captures, routes, locals, sockets, histories
<1>2. TellShape' /\ Held'
  BY <1>1 DEF TellInv, TellShape, Held
<1>3. Reach'
  BY <1>1 DEF TellInv, Reach, Sending
<1>4. Telling'
  BY <1>1 DEF TellInv, Telling, Passed, Word
<1>5. Informed'
  BY <1>1 DEF TellInv, Informed, Agrees
<1>6. QED
  BY <1>2, <1>3, <1>4, <1>5 DEF TellInv

\* Every step keeps what browsers know in line with the lock.
LEMMA TellStep == Shape /\ Capturing /\ TellInv /\ [Next]_vars => TellInv'
<1> SUFFICES ASSUME Shape, Capturing, TellInv, [Next]_vars PROVE TellInv'
  OBVIOUS
<1>1. CASE \/ \E f \in Filters : CreateFilter(f)
           \/ \E r \in Requests, f \in Filters : RouteStep(r, f)
           \/ \E r \in Requests : Write(r) \/ Call(r)
           \/ DeleteLab
  <2>1. Unheard /\ lock' = lock /\ TellShape
    BY <1>1, RoutesUnheard DEF TellInv
  <2>2. \A q \in Requests : at'[q] \in Loud => at[q] \in Loud
    BY <2>1 DEF Unheard, LetBe, Quiet, Loud, Messages
  <2>3. UNCHANGED reader
    BY <1>1, RoutesApart DEF threads
  <2>4. Held'
    BY <2>1, <2>2, <2>3 DEF TellInv, Held
  <2>5. QED
    BY <2>1, <2>4, UnheardKeeps DEF TellInv
<1>2. ASSUME NEW r \in Requests, StartCapture(r) \/ StopCapture(r) PROVE TellInv'
  BY <1>2, StartTells, StopTells
<1>3. ASSUME NEW r \in Requests, NotifyDone(r) \/ NotifyRaises(r) PROVE TellInv'
  BY <1>3, NotifyTells
<1>4. ASSUME NEW p \in Readers, ReaderStep(p) PROVE TellInv'
  BY <1>4, ReadersUnheard, UnheardKeeps DEF TellInv
<1>5. ASSUME NEW k \in Batches, BatchStarts(k) \/ BatchEnds(k) PROVE TellInv'
  BY <1>5, BatchTells
<1>6. ASSUME NEW c \in Coroutines, SendText(c) PROVE TellInv'
  BY <1>6, SendTells
<1>7. ASSUME NEW w \in Clients, Connect(w) \/ Disconnect(w) \/ Break(w) PROVE TellInv'
  BY <1>7, SocketsTell
<1>8. CASE Crash
  BY <1>8, CrashTells
<1>9. CASE (\E c \in Coroutines : Resume(c)) \/ UNCHANGED vars
  BY <1>9, StutterTells
<1>10. QED
  BY <1>1, <1>2, <1>3, <1>4, <1>5, <1>6, <1>7, <1>8, <1>9, Zenon
     DEF Next, ServiceStep, RouteStep, ReaderStep

\* Before anyone connects, nobody has been told anything.
LEMMA TellInit == Init => TellInv
<1> SUFFICES ASSUME Init PROVE TellInv
  OBVIOUS
<1>1. TellShape
  <2>1. NoCast \in [rest : SUBSET Clients, size : Int, dead : SUBSET Clients]
    BY DEF NoCast
  <2>2. QED
    BY <2>1 DEF Init, TellShape
<1>2. Held /\ Telling
  BY DEF Init, Held, Telling, Loud, Words, Messages
<1>3. Reach
  BY DEF Init, Reach, NoCast
<1>4. Informed
  BY DEF Init, Informed
<1>5. QED
  BY <1>1, <1>2, <1>3, <1>4 DEF TellInv

\* The lock orders the messages: what a browser was last told of a filter is true whenever no
\* request on that filter holds the lock, unless the last broadcast was cut short; however
\* sends are suspended, requests overlap, and browsers come, go and break.
THEOREM LastWordHeld == Spec => []LastWordAgrees
<1>1. IInv /\ TellInv /\ [Next]_vars => TellInv'
  BY TellStep DEF IInv
<1>2. TellInv => LastWordAgrees
  <2> SUFFICES ASSUME TellInv, NEW f \in Filters \ cut, \A r \in Requests : lock = r => serves[r] # f,
                      NEW w \in conns \ broken
               PROVE  Agrees(f, w)
    BY DEF LastWordAgrees, Agrees
  <2>1. \A r \in Requests : at[r] \in Words => serves[r] # f
    BY DEF TellInv, Held, Words, Loud, Messages
  <2>2. QED
    BY <2>1 DEF TellInv, Informed
<1>3. QED
  BY <1>1, <1>2, TellInit, InvariantHolds, PTL DEF Spec
=============================================================================
