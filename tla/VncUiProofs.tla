---------------------------- MODULE VncUiProofs ----------------------------
(***************************************************************************)
(* Proofs about the console page and its RFB objects, for any number of    *)
(* connections, any security types their servers offer and every order of  *)
(* messages, answers and timers.  A handler is an operator on the record   *)
(* of one object; what it may do to the connection is said once (Turned)   *)
(* and shown of every handler, and what the page makes of the events of    *)
(* one handler is shown once (SettleKeeps).  Of the handshake it is shown  *)
(* that what is on its way is what the server says from where the          *)
(* handshake is (Stream), and that somebody is to look at what is there    *)
(* (Attended).                                                             *)
(***************************************************************************)
EXTENDS VncUi, SequenceTheorems, WellFoundedInduction, TLAPS

Fields ==
    {"conn", "init", "ver", "auth", "venc", "tight", "clean", "creds", "ard", "ra2", "needs", "ws",
     "on", "hears", "timer", "resume", "attached", "grabbed", "late", "viewOnly", "run", "q",
     "frag", "over", "net", "turn", "sent", "evs"}

Up(c) == c.conn \in {"connecting", "connected", "disconnecting"}

\* What an object that has been created has taken, and has given back.
Held(c) ==
    /\ c.conn \in {"connecting", "connected"} => "close" \in c.on
    /\ c.conn \in {"disconnecting", "disconnected"} =>
          ~c.attached /\ (~c.grabbed \/ c.late) /\ ~c.hears /\ c.ws \in {"closing", "closed"}
    /\ c.conn = "disconnecting" => c.timer /\ "close" \in c.on
    /\ c.conn = "disconnected" => ~c.timer /\ "close" \notin c.on

Link(c) ==
    /\ DOMAIN c = Fields
    /\ c.conn \in ConnStates \ {""}
    /\ c.ws \in {"connecting", "open", "closing", "closed"}
    /\ Held(c)

Closings == {"disconnect", "disconnectUnclean"}
Quiet == {<<>>, <<"credentialsrequired">>, <<"serververification">>, <<"securityfailure">>}
Endings == {<<e>> : e \in Closings} \union {<<"securityfailure", e>> : e \in Closings}

\* What a handler does to the connection: nothing, or it ends it, or the handshake is done.
Keeps(c, d) == d.conn = c.conn /\ d.evs \in Quiet
Ends(c, d) == Up(c) /\ d.conn = "disconnected" /\ d.evs \in Endings
Joins(c, d) == c.conn = "connecting" /\ d.conn = "connected" /\ d.evs = <<"connect">>
Turned(c, d) == Link(d) /\ (Keeps(c, d) \/ Ends(c, d) \/ Joins(c, d))

\* What no part of the handshake touches by itself.
Frame(c, d) ==
    /\ DOMAIN d = DOMAIN c
    /\ d.conn = c.conn /\ d.ws = c.ws /\ d.on = c.on /\ d.hears = c.hears /\ d.timer = c.timer
    /\ d.attached = c.attached /\ d.grabbed = c.grabbed /\ d.late = c.late

Begun(c) == Link(c) /\ c.evs = <<>>

\* A second event is put behind the first.
LEMMA AppendToOne ==
  ASSUME NEW S, NEW a \in S, NEW b \in S PROVE Append(<<a>>, b) = <<a, b>>
  <1> DEFINE u == <<a, b>>
  <1>1. ASSUME NEW t \in Seq(S), Len(t) = 1, t[1] = a PROVE Append(t, b) = u
    <2> DEFINE w == Append(t, b)
    <2>1. u \in Seq(S) /\ Len(u) = 2 /\ u[1] = a /\ u[2] = b
      OBVIOUS
    <2> HIDE DEF u
    <2>2. w \in Seq(S) /\ Len(w) = Len(t) + 1
      OBVIOUS
    <2>3. \A i \in 1..Len(t) : w[i] = t[i]
      OBVIOUS
    <2>4. w[Len(t) + 1] = b
      OBVIOUS
    <2> HIDE DEF w
    <2>5. w[1] = a /\ w[2] = b /\ Len(w) = 2
      BY <1>1, <2>2, <2>3, <2>4
    <2>6. w = u
      BY <2>1, <2>2, <2>5
    <2> QED BY <2>6 DEF w
  <1>2. <<a>> \in Seq(S) /\ Len(<<a>>) = 1 /\ <<a>>[1] = a
    OBVIOUS
  <1> QED BY <1>1, <1>2

\* What the frame keeps is all that Link speaks of.
LEMMA FrameKeepsLink == ASSUME NEW c, NEW d, Link(c), Frame(c, d) PROVE Link(d)
  BY DEF Link, Held, Frame

\* A handler that keeps the frame and says little has turned nothing.
LEMMA FrameTurned ==
  ASSUME NEW c, NEW d, Begun(c), Frame(c, d), d.evs \in Quiet PROVE Turned(c, d)
  BY FrameKeepsLink DEF Begun, Turned, Keeps, Frame

\* A turn may be followed by a step that keeps the frame.
LEMMA TurnedThenFrame ==
  ASSUME NEW c, NEW x, NEW d, Turned(c, x), Frame(x, d), d.evs = x.evs PROVE Turned(c, d)
  BY FrameKeepsLink DEF Turned, Keeps, Ends, Joins, Frame

\* A turn may follow a step that keeps the frame.
LEMMA FrameThenTurned ==
  ASSUME NEW c, NEW x, NEW d, Frame(c, x), Turned(x, d) PROVE Turned(c, d)
  BY DEF Turned, Keeps, Ends, Joins, Up, Frame

\* _fail ends a connection that is up, and leaves any other as it is.
LEMMA FailTurned ==
  ASSUME NEW c, Link(c), c.evs \in {<<>>, <<"securityfailure">>} PROVE Turned(c, Fail(c))
  <1> DEFINE b == [c EXCEPT !.clean = FALSE]
             x == Disconnecting(b)
             d == Disconnected(x)
  <1>1. b.conn = c.conn /\ b.evs = c.evs /\ Link(b) /\ DOMAIN b = Fields /\ b.clean = FALSE
    BY DEF Link, Held, Fields
  <1> HIDE DEF b
  <1>2. CASE ~Up(b)
    <2>1. x = b
      BY <1>2 DEF Up, Disconnecting
    <2>2. d = b
      BY <1>2, <2>1 DEF Up, Disconnected
    <2> QED BY <1>1, <2>2 DEF Fail, Turned, Keeps, Quiet, b, x, d
  <1>3. CASE Up(b)
    <2>1. /\ x.conn = "disconnecting" /\ x.clean = FALSE /\ x.evs = b.evs /\ DOMAIN x = Fields
          /\ x.timer /\ "close" \in x.on /\ x.ws \in {"closing", "closed"}
          /\ ~x.attached /\ (~x.grabbed \/ x.late) /\ ~x.hears
      BY <1>1, <1>3 DEF Up, Disconnecting, Detach, Link, Held, Fields
    <2> HIDE DEF x
    <2>2. d = [x EXCEPT !.conn = "disconnected", !.timer = FALSE, !.on = @ \ {"close"},
                        !.evs = Append(@, "disconnectUnclean")]
      BY <2>1 DEF Disconnected, Emit, Fields
    <2> HIDE DEF d
    <2>5. /\ DOMAIN d = Fields /\ d.conn = "disconnected" /\ d.timer = FALSE
          /\ d.on = x.on \ {"close"} /\ d.evs = Append(x.evs, "disconnectUnclean")
          /\ d.ws = x.ws /\ d.attached = x.attached /\ d.grabbed = x.grabbed /\ d.late = x.late
          /\ d.hears = x.hears
      BY <2>1, <2>2 DEF Fields
    <2>3. Link(d) /\ d.conn = "disconnected" /\ d.evs = Append(c.evs, "disconnectUnclean")
      BY <1>1, <2>1, <2>5 DEF Link, Held, ConnStates
    <2>4. d.evs \in Endings
      <3>1. CASE c.evs = <<>>
        BY <2>3, <3>1 DEF Endings, Closings
      <3>2. CASE c.evs = <<"securityfailure">>
        <4>1. d.evs = <<"securityfailure", "disconnectUnclean">>
          <5>1. Append(<<"securityfailure">>, "disconnectUnclean") =
                  <<"securityfailure", "disconnectUnclean">>
            <6> DEFINE S == {"securityfailure", "disconnectUnclean"}
            <6>1. "securityfailure" \in S /\ "disconnectUnclean" \in S
              OBVIOUS
            <6> QED BY <6>1, AppendToOne
          <5> QED BY <2>3, <3>2, <5>1
        <4> QED BY <4>1 DEF Endings, Closings
      <3> QED BY <3>1, <3>2
    <2> QED BY <1>1, <1>3, <2>3, <2>4 DEF Fail, Turned, Ends, Up, b, x, d
  <1> QED BY <1>2, <1>3

-----------------------------------------------------------------------------
(* What the page makes of the events of one handler: a fold, over none, one *)
(* or two of them.                                                          *)

Heard(u, s, evs) == FoldLeft(LAMBDA v, e : React(v, s, e), u, evs)

\* Without events the page stays as it is.
LEMMA ReactToNone ==
  ASSUME NEW u, NEW s PROVE Heard(u, s, <<>>) = u
  <1>1. \E it : it = [S \in SUBSET {} |->
                       IF S = {} THEN u ELSE React(it[S \ {Max(S)}], s, <<>>[Max(S)])]
    <2> DEFINE it == [S \in SUBSET {} |-> u]
    <2> QED OBVIOUS
  <1>2. DOMAIN <<>> = {}
    OBVIOUS
  <1> QED BY <1>1, <1>2 DEF Heard, FoldLeft, MapThenFoldSet

\* One event calls its listener.
LEMMA ReactToOne ==
  ASSUME NEW u, NEW s, NEW e1
  PROVE Heard(u, s, <<e1>>) = React(u, s, e1)
  <1> DEFINE Body(it, S) == IF S = {} THEN u ELSE React(it[S \ {Max(S)}], s, <<e1>>[Max(S)])
             Step(it) == [S \in SUBSET {1} |-> Body(it, S)]
             g == [S \in SUBSET {1} |-> IF S = {} THEN u ELSE React(u, s, e1)]
  <1>1. SUBSET {1} = {{}, {1}} /\ {1} # {}
    OBVIOUS
  <1>2. Max({1}) = 1
    BY DEF Max
  <1>3. /\ {1} \ {1} = {} /\ DOMAIN <<e1>> = {1} /\ <<e1>>[1] = e1
    OBVIOUS
  <1>4. ASSUME NEW it, NEW S PROVE (S = {} => Body(it, S) = u)
              /\ (S = {1} => Body(it, S) = React(it[{}], s, e1))
    <2>1. S = {1} => S \ {Max(S)} = {} /\ <<e1>>[Max(S)] = e1
      BY <1>2, <1>3, Zenon
    <2> QED BY <1>1, <2>1, Zenon
  <1>5. g[{}] = u /\ g[{1}] = React(u, s, e1)
    BY <1>1
  <1>6. g = Step(g)
    <2>1. \A S \in SUBSET {1} : g[S] = Body(g, S)
      <3> HIDE DEF g, Body
      <3> QED BY <1>1, <1>4, <1>5
    <2> QED BY <2>1, Zenon
  <1> DEFINE f == CHOOSE it : it = Step(it)
  <1>7. f = Step(f)
    BY <1>6, Zenon
  <1>8. Heard(u, s, <<e1>>) = f[{1}]
    BY <1>3 DEF Heard, FoldLeft, MapThenFoldSet
  <1> HIDE DEF f, g
  <1>9. f[{}] = Body(f, {}) /\ f[{1}] = Body(f, {1})
    <2> HIDE DEF Body
    <2> QED BY <1>7, <1>1
  <1> HIDE DEF Body
  <1> QED BY <1>4, <1>8, <1>9

\* Two events call their listeners in order.
LEMMA ReactToTwo ==
  ASSUME NEW u, NEW s, NEW e1, NEW e2
  PROVE Heard(u, s, <<e1, e2>>) = React(React(u, s, e1), s, e2)
  <1> DEFINE Body(it, S) == IF S = {} THEN u ELSE React(it[S \ {Max(S)}], s, <<e1, e2>>[Max(S)])
             Step(it) == [S \in SUBSET {1, 2} |-> Body(it, S)]
             one == React(u, s, e1)
             two == React(one, s, e2)
             g == [S \in SUBSET {1, 2} |-> IF S = {} THEN u ELSE IF S = {1} THEN one
                                           ELSE IF S = {2} THEN React(u, s, e2) ELSE two]
  <1>1. /\ SUBSET {1, 2} = {{}, {1}, {2}, {1, 2}} /\ {1} # {} /\ {2} # {} /\ {1, 2} # {} /\ {1} # {2}
        /\ {1} # {1, 2} /\ {2} # {1, 2}
    OBVIOUS
  <1>2. Max({1}) = 1 /\ Max({2}) = 2 /\ Max({1, 2}) = 2
    BY DEF Max
  <1>3. {1} \ {1} = {} /\ {2} \ {2} = {} /\ {1, 2} \ {2} = {1} /\ DOMAIN <<e1, e2>> = {1, 2}
        /\ <<e1, e2>>[1] = e1 /\ <<e1, e2>>[2] = e2
    OBVIOUS
  <1>4. ASSUME NEW it, NEW S
        PROVE /\ S = {} => Body(it, S) = u
              /\ S = {1} => Body(it, S) = React(it[{}], s, e1)
              /\ S = {2} => Body(it, S) = React(it[{}], s, e2)
              /\ S = {1, 2} => Body(it, S) = React(it[{1}], s, e2)
    <2>1. S = {1} => S \ {Max(S)} = {} /\ <<e1, e2>>[Max(S)] = e1
      BY <1>2, <1>3, Zenon
    <2>2. S = {2} => S \ {Max(S)} = {} /\ <<e1, e2>>[Max(S)] = e2
      BY <1>2, <1>3, Zenon
    <2>3. S = {1, 2} => S \ {Max(S)} = {1} /\ <<e1, e2>>[Max(S)] = e2
      BY <1>2, <1>3, Zenon
    <2> QED BY <1>1, <2>1, <2>2, <2>3, Zenon
  <1>5. g[{}] = u /\ g[{1}] = one /\ g[{2}] = React(u, s, e2) /\ g[{1, 2}] = two
    <2> HIDE DEF one, two
    <2> QED BY <1>1
  <1>6. g = Step(g)
    <2>1. ASSUME NEW S \in SUBSET {1, 2} PROVE g[S] = Body(g, S)
      <3> HIDE DEF g, Body, one, two
      <3>1. S = {} \/ S = {1} \/ S = {2} \/ S = {1, 2}
        BY <1>1, Zenon
      <3>2. Body(g, {}) = u /\ Body(g, {1}) = React(u, s, e1) /\ Body(g, {2}) = React(u, s, e2)
        BY <1>4, <1>5
      <3>3. Body(g, {1, 2}) = React(one, s, e2)
        BY <1>4, <1>5
      <3> QED BY <1>5, <3>1, <3>2, <3>3 DEF one, two
    <2> QED BY <2>1, Zenon
  <1> DEFINE f == CHOOSE it : it = Step(it)
  <1>7. f = Step(f)
    BY <1>6, Zenon
  <1>8. Heard(u, s, <<e1, e2>>) = f[{1, 2}]
    BY <1>3 DEF Heard, FoldLeft, MapThenFoldSet
  <1> HIDE DEF f, g
  <1>9. f[{}] = Body(f, {}) /\ f[{1}] = Body(f, {1}) /\ f[{1, 2}] = Body(f, {1, 2})
    <2> HIDE DEF Body
    <2> QED BY <1>7, <1>1
  <1> HIDE DEF Body
  <1> QED BY <1>4, <1>8, <1>9

-----------------------------------------------------------------------------
(* The handshake, call by call.                                            *)

\* A step of the handshake that leaves the connection alone and tells nobody.
Calm(c, d) == Frame(c, d) /\ d.evs = c.evs

\* A calm step is a turn that changes nothing of the connection.
LEMMA CalmTurned ==
  ASSUME NEW c, NEW d, Begun(c), Calm(c, d) PROVE Turned(c, d) /\ Begun(d)
  <1>1. d.evs \in Quiet
    BY DEF Calm, Begun, Quiet
  <1> QED BY <1>1, FrameTurned, FrameKeepsLink DEF Calm, Begun

\* Two calm steps are one.
LEMMA CalmTwice == ASSUME NEW c, NEW x, NEW d, Calm(c, x), Calm(x, d) PROVE Calm(c, d)
  BY DEF Calm, Frame

\* The pieces the handlers are made of are calm.
LEMMA CalmParts ==
  ASSUME NEW c, DOMAIN c = Fields
  PROVE /\ Calm(c, Done(c)) /\ Calm(c, More(c)) /\ Calm(c, Take(c))
        /\ \A t : Calm(c, Send(c, t))
  BY DEF Calm, Frame, Done, More, Take, Send, Fields

\* The way down from wherever a part of the handshake has come to.
LEMMA FailOut ==
  ASSUME NEW c, NEW x, Begun(c), Frame(c, x), x.evs \in {<<>>, <<"securityfailure">>}
  PROVE Turned(c, Fail(x)) /\ Turned(c, Done(Fail(x)))
  <1>1. Link(x)
    BY FrameKeepsLink DEF Begun
  <1>2. Turned(x, Fail(x))
    BY <1>1, FailTurned
  <1>3. Turned(c, Fail(x))
    BY <1>2, FrameThenTurned
  <1>4. DOMAIN Fail(x) = Fields
    BY <1>3 DEF Turned, Link
  <1>5. Calm(Fail(x), Done(Fail(x)))
    BY <1>4, CalmParts
  <1> QED BY <1>3, <1>5, TurnedThenFrame DEF Calm

\* From a calm step a handler may return or fail.
LEMMA CalmOut ==
  ASSUME NEW c, NEW x, Begun(c), Calm(c, x)
  PROVE /\ Turned(c, x) /\ Turned(c, Done(x)) /\ Turned(c, More(x))
        /\ Turned(c, Fail(x)) /\ Turned(c, Done(Fail(x))) /\ DOMAIN x = Fields
  <1>1. DOMAIN x = Fields /\ x.evs = <<>> /\ Frame(c, x)
    BY DEF Begun, Calm, Frame, Link
  <1>2. Calm(c, Done(x)) /\ Calm(c, More(x))
    BY <1>1, CalmParts, CalmTwice
  <1> QED BY <1>1, <1>2, CalmTurned, FailOut

\* Reading and answering are calm.
LEMMA CalmOn ==
  ASSUME NEW c, NEW x, Begun(c), Calm(c, x)
  PROVE Calm(c, Take(x)) /\ \A t : Calm(c, Send(x, t))
  <1>1. DOMAIN x = Fields
    BY CalmOut
  <1>2. Calm(x, Take(x)) /\ \A t : Calm(x, Send(x, t))
    BY <1>1, CalmParts
  <1> QED BY <1>2, CalmTwice

\* What the listeners of the object are told by the way.
LEMMA EmitOut ==
  ASSUME NEW c, NEW x, Begun(c), Calm(c, x)
  PROVE /\ \A e \in {"credentialsrequired", "serververification"} : Turned(c, Emit(x, e))
        /\ Turned(c, AskCredentials(x))
        /\ Turned(c, Done(Fail(Emit(x, "securityfailure"))))
  <1>1. DOMAIN x = Fields /\ x.evs = <<>> /\ Frame(c, x)
    BY CalmOut DEF Begun, Calm
  <1>2. ASSUME NEW e \in {"credentialsrequired", "serververification", "securityfailure"}
        PROVE Frame(c, Emit(x, e)) /\ Emit(x, e).evs = <<e>> /\ DOMAIN Emit(x, e) = Fields
    <2>1. Append(<<>>, e) = <<e>>
      OBVIOUS
    <2> QED BY <1>1, <2>1 DEF Emit, Frame, Fields
  <1>3. ASSUME NEW e \in {"credentialsrequired", "serververification"}
        PROVE Turned(c, Emit(x, e)) /\ Turned(c, Done(Emit(x, e)))
    <2>1. Frame(c, Emit(x, e)) /\ Emit(x, e).evs = <<e>> /\ DOMAIN Emit(x, e) = Fields
      BY <1>2
    <2>2. Turned(c, Emit(x, e))
      BY <2>1, FrameTurned DEF Quiet
    <2>3. Calm(Emit(x, e), Done(Emit(x, e)))
      BY <2>1, CalmParts
    <2> QED BY <2>2, <2>3, TurnedThenFrame DEF Calm
  <1>4. Turned(c, Done(Fail(Emit(x, "securityfailure"))))
    BY <1>2, FailOut
  <1> QED BY <1>3, <1>4 DEF AskCredentials

\* _negotiateProtocolVersion.
LEMMA VersionTurned == ASSUME NEW c, Begun(c) PROVE Turned(c, NegotiateProtocolVersion(c))
  <1> DEFINE t == Take(c)
             a == Send(t, "version")
             b == Send(t, "security")
             x == [b EXCEPT !.ver = Val(c), !.init = "Security"]
  <1>1. Calm(c, c)
    BY DEF Calm, Frame
  <1>2. Calm(c, t)
    BY <1>1, CalmOn
  <1>3. \/ NegotiateProtocolVersion(c) = Done(c)
        \/ NegotiateProtocolVersion(c) = More(a)
        \/ NegotiateProtocolVersion(c) = Done(x)
        \/ NegotiateProtocolVersion(c) = Done(Fail(t))
    BY DEF NegotiateProtocolVersion, Versions
  <1> HIDE DEF t
  <1>4. Calm(c, a) /\ Calm(c, b)
    BY <1>2, CalmOn
  <1> HIDE DEF b
  <1>5. Calm(c, x)
    BY <1>4, CalmOut DEF Calm, Frame, Fields
  <1> QED BY <1>1, <1>2, <1>3, <1>4, <1>5, CalmOut

\* _negotiateSecurity.
LEMMA SecurityTurned == ASSUME NEW c, Begun(c) PROVE Turned(c, NegotiateSecurity(c))
  <1> DEFINE t == Take(c)
             o == [c EXCEPT !.over = IF c.ver # "3.3" /\ ~c.frag THEN "count" ELSE @]
             e == [t EXCEPT !.init = "SecurityReason"]
             b == IF c.ver # "3.3" THEN Send(t, Opening(Val(c), c.ver)) ELSE t
             x == [b EXCEPT !.auth = Val(c), !.init = "Authentication"]
  <1>1. Calm(c, c)
    BY DEF Calm, Frame
  <1>2. Calm(c, t)
    BY <1>1, CalmOn
  <1>3. \/ NegotiateSecurity(c) = Done(o)
        \/ NegotiateSecurity(c) = More(e)
        \/ NegotiateSecurity(c) = More(x)
        \/ NegotiateSecurity(c) = Done(Fail(t))
    BY DEF NegotiateSecurity, SchemeNames
  <1> HIDE DEF t
  <1>4. Calm(c, o)
    BY <1>1, CalmOut DEF Calm, Frame, Fields
  <1>5. Calm(c, e)
    BY <1>2, CalmOut DEF Calm, Frame, Fields
  <1>6. Calm(c, b)
    BY <1>2, CalmOn
  <1> HIDE DEF b
  <1>7. Calm(c, x)
    BY <1>6, CalmOut DEF Calm, Frame, Fields
  <1> HIDE DEF o, e, x
  <1> QED BY <1>2, <1>3, <1>4, <1>5, <1>7, CalmOut

\* _handleSecurityReason.
LEMMA ReasonTurned == ASSUME NEW c, Begun(c) PROVE Turned(c, HandleSecurityReason(c))
  <1>1. Calm(c, c)
    BY DEF Calm, Frame
  <1>2. Calm(c, Take(c))
    BY <1>1, CalmOn
  <1> QED BY <1>1, <1>2, CalmOut, EmitOut DEF HandleSecurityReason

\* _negotiateStdVNCAuth, alone or from _negotiateXvpAuth.
LEMMA StdVNCTurned == ASSUME NEW c, NEW x, Begun(c), Calm(c, x) PROVE Turned(c, NegotiateStdVNC(x))
  <1> DEFINE y == Send(Take(x), "result")
             z == [y EXCEPT !.init = "SecurityResult"]
  <1>1. NegotiateStdVNC(x) \in {Done(x), AskCredentials(x), More(z)}
    BY DEF NegotiateStdVNC
  <1>2. Calm(c, y)
    <2>1. Calm(c, Take(x))
      BY CalmOn
    <2> QED BY <2>1, CalmOn
  <1> HIDE DEF y
  <1>3. Calm(c, z)
    BY <1>2, CalmOut DEF Calm, Frame, Fields
  <1> HIDE DEF z
  <1> QED BY <1>1, <1>3, CalmOut, EmitOut

\* _negotiateXvpAuth.
LEMMA XvpTurned == ASSUME NEW c, Begun(c) PROVE Turned(c, NegotiateXvp(c))
  <1> DEFINE y == Send(c, "challenge")
             z == [y EXCEPT !.auth = "VNC"]
  <1>1. Calm(c, c)
    BY DEF Calm, Frame
  <1>2. Calm(c, y)
    BY <1>1, CalmOn
  <1> HIDE DEF y
  <1>3. Calm(c, z)
    BY <1>2, CalmOut DEF Calm, Frame, Fields
  <1>4. NegotiateXvp(c) \in {NegotiateStdVNC(z), AskCredentials(c)}
    BY DEF NegotiateXvp, y
  <1> HIDE DEF z
  <1> QED BY <1>1, <1>3, <1>4, StdVNCTurned, EmitOut

\* _negotiatePlainAuth and _negotiateTightUnixAuth.
LEMMA PlainTurned == ASSUME NEW c, Begun(c) PROVE Turned(c, NegotiatePlain(c))
  <1> DEFINE y == Send(c, "result")
             z == [y EXCEPT !.init = "SecurityResult"]
  <1>1. Calm(c, c)
    BY DEF Calm, Frame
  <1>2. Calm(c, y)
    BY <1>1, CalmOn
  <1> HIDE DEF y
  <1>3. Calm(c, z)
    BY <1>2, CalmOut DEF Calm, Frame, Fields
  <1>4. NegotiatePlain(c) \in {More(z), AskCredentials(c)}
    BY DEF NegotiatePlain, y
  <1> HIDE DEF z
  <1> QED BY <1>1, <1>3, <1>4, CalmOut, EmitOut

\* _negotiateVeNCryptAuth, one state of it.
LEMMA VeNCryptTurned == ASSUME NEW c, Begun(c) PROVE Turned(c, NegotiateVeNCrypt(c))
  <1> DEFINE t == Take(c)
             y == Send(t, "vack")
             z == [y EXCEPT !.venc = 1]
             w == [t EXCEPT !.venc = @ + 1]
             b == Send(t, Opening(Val(c), c.ver))
             x == [b EXCEPT !.auth = Val(c), !.venc = 4]
  <1>1. Calm(c, c)
    BY DEF Calm, Frame
  <1>2. Calm(c, t)
    BY <1>1, CalmOn
  <1>3. NegotiateVeNCrypt(c) \in {Done(c), Done(Fail(t)), z, w, More(x)}
    BY DEF NegotiateVeNCrypt
  <1> HIDE DEF t
  <1>4. Calm(c, y) /\ Calm(c, b)
    BY <1>2, CalmOn
  <1> HIDE DEF y, b
  <1>5. Calm(c, z)
    BY <1>4, CalmOut DEF Calm, Frame, Fields
  <1>6. Calm(c, w)
    BY <1>2, CalmOut DEF Calm, Frame, Fields
  <1>7. Calm(c, x)
    BY <1>4, CalmOut DEF Calm, Frame, Fields
  <1> HIDE DEF z, w, x
  <1> QED BY <1>1, <1>2, <1>3, <1>5, <1>6, <1>7, CalmOut

\* _negotiateARDAuth.
LEMMA ARDTurned == ASSUME NEW c, Begun(c) PROVE Turned(c, NegotiateARD(c))
  <1> DEFINE y == Send(c, "result")
             z == [y EXCEPT !.ard = "spent", !.init = "SecurityResult"]
             t == Take(c)
             w == [t EXCEPT !.ard = "busy"]
  <1>1. Calm(c, c)
    BY DEF Calm, Frame
  <1>2. Calm(c, y) /\ Calm(c, t)
    BY <1>1, CalmOn
  <1>3. NegotiateARD(c) \in {AskCredentials(c), More(z), Done(w), Done(c)}
    BY DEF NegotiateARD
  <1> HIDE DEF y, t
  <1>4. Calm(c, z)
    BY <1>2, CalmOut DEF Calm, Frame, Fields
  <1>5. Calm(c, w)
    BY <1>2, CalmOut DEF Calm, Frame, Fields
  <1> HIDE DEF z, w
  <1> QED BY <1>1, <1>3, <1>4, <1>5, CalmOut, EmitOut

\* _negotiateTightAuth, one pass of it.
LEMMA TightTurned == ASSUME NEW c, Begun(c) PROVE Turned(c, NegotiateTight(c))
  <1> DEFINE t == Take(c)
             h == [t EXCEPT !.tight = TRUE]
             a == Send(t, "subauth")
             x == [a EXCEPT !.tight = TRUE]
             i == [t EXCEPT !.init = "SecurityResult"]
             b == Send(t, "result")
             y == [b EXCEPT !.init = "SecurityResult"]
             d == Send(t, Opening(Val(c), c.ver))
             z == [d EXCEPT !.auth = Val(c)]
  <1>1. Calm(c, c)
    BY DEF Calm, Frame
  <1>2. Calm(c, t)
    BY <1>1, CalmOn
  <1>3. NegotiateTight(c) \in {Done(c), h, Done(x), Done(Fail(h)), More(i), More(y), More(z), Done(Fail(t))}
    BY DEF NegotiateTight
  <1> HIDE DEF t
  <1>4. Calm(c, a) /\ Calm(c, b) /\ Calm(c, d)
    BY <1>2, CalmOn
  <1> HIDE DEF a, b, d
  <1>5. Calm(c, h)
    BY <1>2, CalmOut DEF Calm, Frame, Fields
  <1>6. Calm(c, x)
    BY <1>4, CalmOut DEF Calm, Frame, Fields
  <1>7. Calm(c, i)
    BY <1>2, CalmOut DEF Calm, Frame, Fields
  <1>8. Calm(c, y)
    BY <1>4, CalmOut DEF Calm, Frame, Fields
  <1>9. Calm(c, z)
    BY <1>4, CalmOut DEF Calm, Frame, Fields
  <1> HIDE DEF h, x, i, y, z
  <1> QED BY <1>1, <1>2, <1>3, <1>5, <1>6, <1>7, <1>8, <1>9, CalmOut

\* _negotiateMSLogonIIAuth.
LEMMA MSLogonTurned == ASSUME NEW c, Begun(c) PROVE Turned(c, NegotiateMSLogon(c))
  <1> DEFINE y == Send(Take(c), "result")
             z == [y EXCEPT !.init = "SecurityResult"]
  <1>1. Calm(c, c)
    BY DEF Calm, Frame
  <1>2. Calm(c, y)
    <2>1. Calm(c, Take(c))
      BY <1>1, CalmOn
    <2> QED BY <2>1, CalmOn
  <1>3. NegotiateMSLogon(c) \in {Done(c), AskCredentials(c), More(z)}
    BY DEF NegotiateMSLogon
  <1> HIDE DEF y
  <1>4. Calm(c, z)
    BY <1>2, CalmOut DEF Calm, Frame, Fields
  <1> HIDE DEF z
  <1> QED BY <1>1, <1>3, <1>4, CalmOut, EmitOut

\* The end of the RA2 exchange is no end of the connection.
LEMMA Ra2EndOut ==
  ASSUME NEW c, NEW d, Turned(c, d) PROVE Turned(c, Ra2End(d))
  <1>1. Frame(d, Ra2End(d)) /\ Ra2End(d).evs = d.evs
    BY DEF Turned, Link, Ra2End, Frame, Fields
  <1> QED BY <1>1, TurnedThenFrame

\* A wait of the RA2 exchange for the socket.
LEMMA Ra2WaitTurned ==
  ASSUME NEW c, NEW x, NEW w, Begun(c), Calm(c, x) PROVE Turned(c, Ra2Wait(x, w))
  <1> DEFINE t == Take(x)
             n == IF w = "subtype" THEN Needs(Val(x)) ELSE t.needs
             y == [t EXCEPT !.ra2 = Ra2Next(w), !.needs = n]
             z == [x EXCEPT !.ra2 = "cryptRandom", !.over = "random"]
             v == [x EXCEPT !.ra2 = w]
  <1>1. Calm(c, t)
    BY CalmOn
  <1>2. Ra2Wait(x, w) \in {Ra2Throw(t), y, z, v}
    BY DEF Ra2Wait
  <1> HIDE DEF t, n
  <1>3. Calm(c, y)
    BY <1>1, CalmOut DEF Calm, Frame, Fields
  <1>4. Calm(c, z)
    BY CalmOut DEF Calm, Frame, Fields
  <1>5. Calm(c, v)
    BY CalmOut DEF Calm, Frame, Fields
  <1>6. Turned(c, Ra2Throw(t))
    BY <1>1, CalmOut, Ra2EndOut DEF Ra2Throw
  <1> HIDE DEF y, z, v
  <1> QED BY <1>2, <1>3, <1>4, <1>5, <1>6, CalmOut

\* Leaving the loop after a turn.
LEMMA DoneOut == ASSUME NEW c, NEW d, Turned(c, d) PROVE Turned(c, Done(d))
  <1>1. DOMAIN d = Fields
    BY DEF Turned, Link
  <1>2. Calm(d, Done(d))
    BY <1>1, CalmParts
  <1> QED BY <1>2, TurnedThenFrame DEF Calm

\* Staying in the loop after a turn, or leaving it.
LEMMA MoreOut == ASSUME NEW c, NEW d, Turned(c, d) PROVE Turned(c, More(d))
  <1>1. DOMAIN d = Fields
    BY DEF Turned, Link
  <1>2. Calm(d, More(d))
    BY <1>1, CalmParts
  <1> QED BY <1>2, TurnedThenFrame DEF Calm

\* _negotiateRA2neAuth.
LEMMA RA2Turned == ASSUME NEW c, Begun(c) PROVE Turned(c, NegotiateRA2(c))
  <1> DEFINE v == [c EXCEPT !.ra2 = "cryptCreds"]
             r == IF c.ra2 = "none" THEN Ra2Wait(c, "key") ELSE CheckInternalEvents(c)
  <1>1. Calm(c, c)
    BY DEF Calm, Frame
  <1>2. Calm(c, v)
    BY <1>1, CalmOut DEF Calm, Frame, Fields
  <1>3. r \in {Ra2Wait(c, "key"), Ra2Wait(c, c.ra2), v, c}
    BY DEF CheckInternalEvents
  <1> HIDE DEF v
  <1>4. Turned(c, r)
    <2> HIDE DEF r
    <2> QED BY <1>1, <1>2, <1>3, CalmOut, Ra2WaitTurned
  <1> QED BY <1>4, DoneOut DEF NegotiateRA2

\* _negotiateAuthentication: every security type.
LEMMA AuthenticationTurned == ASSUME NEW c, Begun(c) PROVE Turned(c, NegotiateAuthentication(c))
  <1> DEFINE n == [c EXCEPT !.init = IF c.ver = "3.8" THEN "SecurityResult"
                                     ELSE "ClientInitialisation"]
  <1>1. Calm(c, c)
    BY DEF Calm, Frame
  <1>2. Calm(c, n)
    BY <1>1, CalmOut DEF Calm, Frame, Fields
  <1>3. NegotiateAuthentication(c) \in
          {More(n), NegotiateXvp(c), NegotiateARD(c), NegotiateStdVNC(c), NegotiateTight(c),
           NegotiateVeNCrypt(c), NegotiatePlain(c), NegotiateRA2(c), NegotiateMSLogon(c),
           Done(Fail(c))}
    BY DEF NegotiateAuthentication
  <1> HIDE DEF n
  <1> QED BY <1>1, <1>2, <1>3, CalmOut, XvpTurned, ARDTurned, StdVNCTurned, TightTurned,
             VeNCryptTurned, PlainTurned, RA2Turned, MSLogonTurned

\* _handleSecurityResult.
LEMMA ResultTurned == ASSUME NEW c, Begun(c) PROVE Turned(c, HandleSecurityResult(c))
  <1> DEFINE t == Take(c)
             y == [t EXCEPT !.init = "ClientInitialisation"]
             z == [t EXCEPT !.init = "SecurityReason"]
  <1>1. Calm(c, c)
    BY DEF Calm, Frame
  <1>2. Calm(c, t)
    BY <1>1, CalmOn
  <1>3. HandleSecurityResult(c) \in
          {Done(c), More(y), More(z), Done(Fail(Emit(t, "securityfailure")))}
    BY DEF HandleSecurityResult
  <1> HIDE DEF t
  <1>4. Calm(c, y) /\ Calm(c, z)
    BY <1>2, CalmOut DEF Calm, Frame, Fields
  <1> HIDE DEF y, z
  <1> QED BY <1>1, <1>2, <1>3, <1>4, CalmOut, EmitOut

\* The keyboard is grabbed by a connection that is complete, or late by one that is over.
LEMMA ServerInitTurned == ASSUME NEW c, Begun(c) PROVE Turned(c, NegotiateServerInit(c))
  <1> DEFINE t == Send(Take(c), "normal")
             y == [t EXCEPT !.grabbed = @ \/ ~c.viewOnly, !.late = @ \/ c.conn # "connecting"]
             d == Connected(y)
  <1>1. Calm(c, c)
    BY DEF Calm, Frame
  <1>2. Calm(c, t)
    <2>1. Calm(c, Take(c))
      BY <1>1, CalmOn
    <2> QED BY <2>1, CalmOn
  <1>3. NegotiateServerInit(c) \in {Done(c), More(d)}
    BY DEF NegotiateServerInit
  <1>4. DOMAIN t = Fields /\ t.evs = <<>> /\ Link(t) /\ t.conn = c.conn
    BY <1>2, CalmOut, CalmTurned DEF Begun, Calm, Frame
  <1> HIDE DEF t
  <1>5. /\ DOMAIN y = Fields /\ y.conn = c.conn /\ y.ws = t.ws /\ y.on = t.on /\ y.evs = <<>>
        /\ y.attached = t.attached /\ y.hears = t.hears /\ y.timer = t.timer
        /\ c.conn # "connecting" => y.late
    BY <1>4 DEF Fields
  <1> HIDE DEF y
  <1>6. CASE c.conn = "connecting"
    <2>1. d = [y EXCEPT !.conn = "connected", !.evs = Append(@, "connect")]
      BY <1>5, <1>6 DEF Connected, Emit, Fields
    <2>2. DOMAIN d = Fields /\ d.conn = "connected" /\ d.ws = y.ws /\ d.on = y.on
      BY <1>5, <2>1 DEF Fields
    <2>3. d.evs = <<"connect">>
      <3>1. d.evs = Append(y.evs, "connect")
        BY <1>5, <2>1 DEF Fields
      <3>2. Append(<<>>, "connect") = <<"connect">>
        OBVIOUS
      <3> QED BY <1>5, <3>1, <3>2
    <2> HIDE DEF d
    <2>4. Link(d)
      BY <1>4, <1>5, <1>6, <2>2 DEF Link, Held, ConnStates
    <2>5. Turned(c, d)
      BY <1>6, <2>2, <2>3, <2>4 DEF Turned, Joins
    <2> QED BY <1>1, <1>3, <2>5, CalmOut, MoreOut
  <1>7. CASE c.conn # "connecting"
    <2>1. d = y
      BY <1>5, <1>7 DEF Connected
    <2>2. Link(y)
      BY <1>4, <1>5, <1>7 DEF Link, Held
    <2>3. Turned(c, d)
      BY <1>5, <2>1, <2>2 DEF Turned, Keeps, Quiet
    <2> QED BY <1>1, <1>3, <2>3, CalmOut, MoreOut
  <1> QED BY <1>6, <1>7

\* _initMsg in every state of the handshake.
LEMMA InitMsgTurned == ASSUME NEW c, Begun(c) PROVE Turned(c, InitMsg(c))
  <1> DEFINE t == Send(c, "serverinit")
             y == [t EXCEPT !.init = "ServerInitialisation"]
  <1>1. Calm(c, c)
    BY DEF Calm, Frame
  <1>2. Calm(c, t)
    BY <1>1, CalmOn
  <1>3. InitMsg(c) \in
          {NegotiateProtocolVersion(c), NegotiateSecurity(c), NegotiateAuthentication(c),
           HandleSecurityResult(c), HandleSecurityReason(c), More(y), NegotiateServerInit(c),
           Done(Fail(c))}
    BY DEF InitMsg
  <1> HIDE DEF t
  <1>4. Calm(c, y)
    BY <1>2, CalmOut DEF Calm, Frame, Fields
  <1> HIDE DEF y
  <1> QED BY <1>1, <1>3, <1>4, CalmOut, VersionTurned, SecurityTurned, AuthenticationTurned,
             ResultTurned, ReasonTurned, ServerInitTurned

\* _normalMsg: a message that is refused fails the connection.
LEMMA NormalMsgTurned == ASSUME NEW c, Begun(c) PROVE Turned(c, NormalMsg(c))
  <1> DEFINE t == Take(c)
  <1>1. Calm(c, c)
    BY DEF Calm, Frame
  <1>2. Calm(c, t)
    BY <1>1, CalmOn
  <1>3. NormalMsg(c) \in {Done(c), t, Fail(t), Done(t), Done(Fail(t))}
    BY DEF NormalMsg
  <1> HIDE DEF t
  <1> QED BY <1>1, <1>2, <1>3, CalmOut

\* The RA2 exchange goes on after a promise.
LEMMA CryptoTurned ==
  ASSUME NEW c, NEW ok \in BOOLEAN, Begun(c) PROVE Turned(c, Ra2CryptoDone(c, ok))
  <1> DEFINE y == [c EXCEPT !.ra2 = "approve"]
             z == [c EXCEPT !.ra2 = "cryptCreds"]
             w == [c EXCEPT !.ra2 = "creds"]
  <1>1. Calm(c, c)
    BY DEF Calm, Frame
  <1>2. Ra2CryptoDone(c, ok) \in
          {Emit(y, "serververification"), Ra2Wait(Send(c, "ra2random"), "random"),
           Ra2Wait(Send(c, "ra2hash"), "hash"), Ra2Wait(c, "subtype"), z,
           Emit(w, "credentialsrequired"), Ra2End(Send(c, "result")), Ra2Throw(c)}
    BY DEF Ra2CryptoDone
  <1>3. Calm(c, y) /\ Calm(c, z) /\ Calm(c, w)
    BY <1>1, CalmOut DEF Calm, Frame, Fields
  <1> HIDE DEF y, z, w
  <1>4. \A t : Calm(c, Send(c, t))
    BY <1>1, CalmOn
  <1>5. Turned(c, Ra2End(Send(c, "result"))) /\ Turned(c, Ra2Throw(c))
    BY <1>1, <1>4, CalmOut, Ra2EndOut DEF Ra2Throw
  <1> QED BY <1>1, <1>2, <1>3, <1>4, <1>5, CalmOut, EmitOut, Ra2WaitTurned

\* What is left: answers, timers and arrivals that do not touch the connection.
LEMMA SmallTurns ==
  ASSUME NEW c, Begun(c)
  PROVE /\ Turned(c, ArdDone(c)) /\ Turned(c, HandleMessage(c)) /\ Turned(c, ResumeAuthentication(c))
        /\ Turned(c, ApproveServer(c)) /\ \A creds : Turned(c, SendCredentials(c, creds))
        /\ \A n, partly : Calm(c, Arrive(c, n, partly))
        /\ \A reply : Turned(c, ServerSend(c, reply))
  <1>1. Calm(c, c) /\ DOMAIN c = Fields
    BY DEF Calm, Frame, Begun, Link
  <1>2. Calm(c, ArdDone(c)) /\ Calm(c, ResumeAuthentication(c)) /\ Calm(c, ApproveServer(c))
    BY <1>1 DEF Calm, Frame, Fields, ArdDone, ResumeAuthentication, ApproveServer
  <1>3. Calm(c, HandleMessage(c))
    BY <1>1 DEF Calm, Frame, Fields, HandleMessage
  <1>4. \A creds : Calm(c, SendCredentials(c, creds))
    BY <1>1 DEF Calm, Frame, Fields, SendCredentials
  <1>5. \A n, partly : Calm(c, Arrive(c, n, partly))
    BY <1>1 DEF Calm, Frame, Fields, Arrive
  <1>6. \A reply : Calm(c, ServerSend(c, reply))
    BY <1>1 DEF Calm, Frame, Fields, ServerSend
  <1> QED BY <1>2, <1>3, <1>4, <1>5, <1>6, CalmOut

-----------------------------------------------------------------------------
(* The way up and the way down.                                            *)

\* Setting viewOnly grabs the keyboard, or gives it back, only while the connection is up.
LEMMA ViewOnlyTurned ==
  ASSUME NEW c, NEW on \in BOOLEAN, Begun(c) PROVE Turned(c, SetViewOnly(c, on))
  <1> DEFINE d == SetViewOnly(c, on)
  <1>1. /\ DOMAIN d = Fields /\ d.conn = c.conn /\ d.ws = c.ws /\ d.on = c.on /\ d.evs = <<>>
        /\ d.attached = c.attached /\ d.hears = c.hears /\ d.timer = c.timer /\ d.late = c.late
        /\ c.conn \notin {"connecting", "connected"} => d.grabbed = c.grabbed
    BY DEF SetViewOnly, Begun, Link, Fields
  <1> HIDE DEF d
  <1>2. Link(d)
    BY <1>1 DEF Begun, Link, Held
  <1> QED BY <1>1, <1>2 DEF Turned, Keeps, Quiet, d

\* The constructor has taken what a connection takes.
LEMMA MadeBegun ==
  ASSUME NEW creds
  PROVE Begun(Connecting(Fresh(FALSE, creds))) /\ Connecting(Fresh(FALSE, creds)).conn = "connecting"
  BY DEF Connecting, Fresh, Begun, Link, Held, Fields, ConnStates

\* disconnect() leaves a connection on its way down, with its timer.
LEMMA DisconnectBegun ==
  ASSUME NEW c, Begun(c)
  PROVE /\ Begun(Disconnect(c))
        /\ Disconnect(c).conn = IF c.conn \in {"connecting", "connected"} THEN "disconnecting"
                                ELSE c.conn
  <1> DEFINE x == Disconnecting(c)
             d == [x EXCEPT !.on = @ \ {"open", "message"}]
  <1>1. /\ DOMAIN x = Fields /\ x.evs = <<>> /\ x.on = c.on
        /\ x.conn = IF c.conn \in {"connecting", "connected"} THEN "disconnecting" ELSE c.conn
        /\ x.conn \in ConnStates \ {""} /\ x.ws \in {"connecting", "open", "closing", "closed"}
        /\ Held(x)
    <2>1. CASE c.conn \in {"connecting", "connected"}
      BY <2>1 DEF Disconnecting, Detach, Begun, Link, Held, Fields, ConnStates
    <2>2. CASE c.conn \notin {"connecting", "connected"}
      BY <2>2 DEF Disconnecting, Begun, Link
    <2> QED BY <2>1, <2>2
  <1> HIDE DEF x
  <1>2. /\ DOMAIN d = Fields /\ d.evs = <<>> /\ d.on = x.on \ {"open", "message"}
        /\ d.conn = x.conn /\ d.ws = x.ws /\ d.attached = x.attached /\ d.grabbed = x.grabbed
        /\ d.late = x.late /\ d.hears = x.hears /\ d.timer = x.timer
    BY <1>1 DEF Fields
  <1>3. Disconnect(c) \in {d, Ra2End(d)}
    BY DEF Disconnect, x
  <1> HIDE DEF d
  <1>4. Begun(d)
    BY <1>1, <1>2 DEF Begun, Link, Held
  <1>5. Begun(Ra2End(d)) /\ Ra2End(d).conn = d.conn
    BY <1>4 DEF Begun, Link, Held, Ra2End, Fields
  <1> QED BY <1>1, <1>2, <1>3, <1>4, <1>5

\* The end is announced once, by whatever comes first: the close event or the timer.
LEMMA DisconnectedTurned == ASSUME NEW c, Begun(c) PROVE Turned(c, Disconnected(c))
  <1> DEFINE d == Disconnected(c)
  <1>1. CASE c.conn # "disconnecting"
    BY <1>1 DEF Disconnected, Begun, Turned, Keeps, Quiet
  <1>2. CASE c.conn = "disconnecting"
    <2>1. PICK e \in Closings : d = [c EXCEPT !.conn = "disconnected", !.timer = FALSE,
                                              !.on = @ \ {"close"}, !.evs = Append(@, e)]
      <3>1. PICK e \in Closings : e = IF c.clean THEN "disconnect" ELSE "disconnectUnclean"
        BY DEF Closings
      <3> QED BY <1>2, <3>1 DEF Disconnected, Emit, Begun, Link, Held, Fields
    <2>2. /\ DOMAIN d = Fields /\ d.conn = "disconnected" /\ d.timer = FALSE
          /\ d.on = c.on \ {"close"} /\ d.evs = Append(c.evs, e) /\ d.ws = c.ws
          /\ d.attached = c.attached /\ d.grabbed = c.grabbed /\ d.late = c.late /\ d.hears = c.hears
      BY <2>1 DEF Begun, Link, Fields
    <2> HIDE DEF d
    <2>3. d.evs = <<e>>
      <3>1. Append(<<>>, e) = <<e>>
        OBVIOUS
      <3> QED BY <2>2, <3>1 DEF Begun
    <2>4. Link(d)
      BY <1>2, <2>2 DEF Begun, Link, Held, ConnStates
    <2> QED BY <1>2, <2>2, <2>3, <2>4 DEF Turned, Ends, Endings, Up, d
  <1> QED BY <1>1, <1>2

\* The way down, begun.
LEMMA DisconnectingBegun ==
  ASSUME NEW c, Begun(c)
  PROVE /\ Begun(Disconnecting(c))
        /\ c.conn = "connected" => Disconnecting(c).conn = "disconnecting"
  <1>1. CASE c.conn \in {"connecting", "connected"}
    BY <1>1 DEF Disconnecting, Detach, Begun, Link, Held, Fields, ConnStates
  <1>2. CASE c.conn \notin {"connecting", "connected"}
    BY <1>2 DEF Disconnecting
  <1> QED BY <1>1, <1>2

\* The socket opens.
LEMMA OpenTurned ==
  ASSUME NEW b, Begun(b), b.ws = "connecting"
  PROVE LET c == [b EXCEPT !.ws = "open"]
        IN  c.conn = b.conn /\ Turned(c, c) /\ Turned(c, SocketOpen(c))
  <1> DEFINE c == [b EXCEPT !.ws = "open"]
             d == [c EXCEPT !.init = "ProtocolVersion"]
  <1>1. Begun(c) /\ c.conn = b.conn
    BY DEF Begun, Link, Held, Fields
  <1> HIDE DEF c
  <1>2. Calm(c, c) /\ DOMAIN c = Fields
    BY <1>1 DEF Calm, Frame, Begun, Link
  <1>3. Calm(c, d)
    BY <1>2 DEF Calm, Frame, Fields
  <1>4. SocketOpen(c) \in {d, Fail(c)}
    BY DEF SocketOpen
  <1> HIDE DEF d
  <1>5. Turned(c, c) /\ Turned(c, SocketOpen(c))
    BY <1>1, <1>2, <1>3, <1>4, CalmOut
  <1> QED BY <1>1, <1>5 DEF c

\* The socket is closed, in whatever state the connection is.
LEMMA CloseTurned ==
  ASSUME NEW b, Begun(b)
  PROVE LET c == [b EXCEPT !.ws = "closed", !.net = <<>>, !.turn = "none"]
        IN  /\ c.conn = b.conn /\ Turned(c, SocketClose(c))
            /\ "close" \notin c.on => Turned(c, c)
  <1> DEFINE c == [b EXCEPT !.ws = "closed", !.net = <<>>, !.turn = "none"]
  <1>1. /\ c.conn = b.conn /\ c.on = b.on /\ c.ws = "closed" /\ DOMAIN c = Fields /\ c.evs = <<>>
        /\ c.attached = b.attached /\ c.grabbed = b.grabbed /\ c.late = b.late
        /\ c.hears = b.hears /\ c.timer = b.timer
    BY DEF Begun, Link, Fields
  <1> HIDE DEF c
  <1>2. Begun(c)
    BY <1>1 DEF Begun, Link, Held
  <1>3. Turned(c, c)
    BY <1>2 DEF Begun, Turned, Keeps, Quiet
  <1>4. ASSUME NEW d, Turned(c, d), d.conn = "disconnected"
        PROVE Turned(c, [d EXCEPT !.on = @ \ {"close"}])
    <2> DEFINE e == [d EXCEPT !.on = @ \ {"close"}]
    <2>1. /\ e.conn = d.conn /\ e.on = d.on \ {"close"} /\ e.ws = d.ws /\ DOMAIN e = Fields
          /\ e.evs = d.evs /\ e.attached = d.attached /\ e.grabbed = d.grabbed /\ e.late = d.late
          /\ e.hears = d.hears /\ e.timer = d.timer
      BY <1>4 DEF Turned, Link, Fields
    <2> HIDE DEF e
    <2>2. Link(e)
      BY <1>4, <2>1 DEF Turned, Link, Held
    <2>3. Turned(c, e)
      BY <1>4, <2>1, <2>2 DEF Turned, Keeps, Ends, Joins
    <2> QED BY <2>3 DEF e
  <1>5. Turned(c, SocketClose(c))
    <2>1. CASE c.conn = "connected"
      <3> DEFINE x == Disconnecting(c)
                 d == Disconnected(x)
      <3>1. Begun(x) /\ x.conn = "disconnecting"
        BY <1>2, <2>1, DisconnectingBegun
      <3> HIDE DEF x
      <3>2. Turned(x, d)
        BY <3>1, DisconnectedTurned
      <3>3. DOMAIN d = Fields /\ d.conn = "disconnected"
        BY <3>1, <3>2 DEF Disconnected, Emit, Begun, Link, Fields
      <3>4. Turned(c, d)
        BY <2>1, <3>1, <3>2, <3>3 DEF Turned, Keeps, Ends, Joins, Up
      <3>5. SocketClose(c) = [d EXCEPT !.on = @ \ {"close"}]
        BY <2>1 DEF SocketClose, x
      <3> HIDE DEF d
      <3> QED BY <1>4, <3>3, <3>4, <3>5
    <2>2. CASE c.conn = "disconnecting"
      <3> DEFINE d == Disconnected(c)
      <3>1. Turned(c, d)
        BY <1>2, DisconnectedTurned
      <3>2. d.conn = "disconnected"
        BY <1>2, <2>2 DEF Disconnected, Emit, Begun, Link, Fields
      <3>3. SocketClose(c) = [d EXCEPT !.on = @ \ {"close"}]
        BY <2>2 DEF SocketClose
      <3> HIDE DEF d
      <3> QED BY <1>4, <3>1, <3>2, <3>3
    <2>3. CASE c.conn \notin {"connected", "disconnecting"}
      <3> DEFINE d == Fail(c)
      <3>1. Turned(c, d)
        BY <1>3, <1>2, CalmOut DEF Calm, Frame
      <3>2. d.conn = "disconnected"
        <4>1. CASE c.conn = "disconnected"
          BY <1>1, <4>1 DEF Fail, Disconnecting, Disconnected, Fields
        <4>2. CASE c.conn = "connecting"
          <5>1. Disconnecting([c EXCEPT !.clean = FALSE]).conn = "disconnecting"
            BY <1>1, <4>2 DEF Disconnecting, Detach, Fields
          <5>2. DOMAIN Disconnecting([c EXCEPT !.clean = FALSE]) = Fields
            BY <1>1, <4>2 DEF Disconnecting, Detach, Fields
          <5> QED BY <5>1, <5>2 DEF Fail, Disconnected, Emit, Fields
        <4> QED BY <1>2, <2>3, <4>1, <4>2 DEF Begun, Link, ConnStates
      <3>3. SocketClose(c) = [d EXCEPT !.on = @ \ {"close"}]
        BY <2>3 DEF SocketClose
      <3> HIDE DEF d
      <3> QED BY <1>4, <3>1, <3>2, <3>3
    <2> QED BY <2>1, <2>2, <2>3
  <1>6. c.conn = b.conn /\ Turned(c, SocketClose(c)) /\ ("close" \notin c.on => Turned(c, c))
    BY <1>1, <1>3, <1>5
  <1> QED BY <1>6 DEF c

\* What is forgotten of an object that is down is nothing the page knows.
LEMMA CollectBegun ==
  ASSUME NEW c, NEW d, Turned(c, d)
  PROVE LET e == Collect([d EXCEPT !.evs = <<>>]) IN Begun(e) /\ e.conn = d.conn
  <1> DEFINE x == [d EXCEPT !.evs = <<>>]
             e == Collect(x)
  <1>1. Begun(x) /\ x.conn = d.conn
    BY DEF Turned, Begun, Link, Held, Fields
  <1> HIDE DEF x
  <1>2. CASE e = x
    BY <1>1, <1>2 DEF x
  <1>3. CASE e # x
    <2>1. /\ DOMAIN e = Fields /\ e.evs = <<>> /\ e.conn = x.conn /\ e.ws = x.ws
          /\ e.on = x.on \ {"open", "message"} /\ e.hears = x.hears /\ e.timer = x.timer
          /\ e.attached = x.attached /\ e.grabbed = x.grabbed /\ e.late = x.late
      BY <1>1, <1>3 DEF Collect, Fresh, Fields
    <2> HIDE DEF e
    <2>2. Begun(e)
      BY <1>1, <2>1 DEF Begun, Link, Held
    <2> QED BY <1>1, <2>1, <2>2 DEF e, x
  <1> QED BY <1>2, <1>3

-----------------------------------------------------------------------------
(* The page.                                                               *)

Page ==
    [rfb : Sessions \union {0}, connected : BOOLEAN, inhibit : BOOLEAN, reconnecting : BOOLEAN,
     visual : VisualStates, panel : BOOLEAN, verify : BOOLEAN, credDlg : BOOLEAN,
     digests : SUBSET Sessions, bar : BOOLEAN, stuck : BOOLEAN, wantReconnect : BOOLEAN]

\* The page u knows the connections of objs.
Follows(objs, u) ==
    /\ \A s \in Sessions : Up(objs[s]) <=> u.rfb = s
    /\ u.connected => u.rfb # 0 /\ objs[u.rfb].conn = "connected"
    /\ u.bar => u.rfb # 0

\* With an object the page offers no way to another; without one it offers exactly one, or
\* is stuck.
Ways(u) ==
    /\ u.panel => u.rfb = 0 /\ ~u.reconnecting /\ ~u.stuck
    /\ u.reconnecting => u.rfb = 0 /\ ~u.inhibit /\ ~u.stuck
    /\ u.stuck => u.rfb = 0
    /\ u.rfb = 0 => u.panel \/ u.reconnecting \/ u.stuck
    /\ u.visual = "reconnecting" => u.reconnecting

Objects(objs) ==
    DOMAIN objs = Sessions /\ \A s \in Sessions : objs[s] = Fresh(FALSE, {}) \/ Begun(objs[s])

PageInv == Objects(rfb) /\ ui \in Page /\ Follows(rfb, ui) /\ Ways(ui)

\* Events that are not about the connection change only the dialogs.
LEMMA HeardQuiet ==
  ASSUME NEW u \in Page, NEW s \in Sessions, NEW evs \in Quiet
  PROVE LET v == Heard(u, s, evs)
        IN  /\ v \in Page /\ v.rfb = u.rfb /\ v.connected = u.connected /\ v.bar = u.bar
            /\ v.panel = u.panel /\ v.reconnecting = u.reconnecting /\ v.inhibit = u.inhibit
            /\ v.stuck = u.stuck /\ v.visual = u.visual
  <1>1. evs = <<>> \/ \E e \in {"credentialsrequired", "serververification", "securityfailure"} :
                         evs = <<e>>
    BY DEF Quiet
  <1>2. CASE evs = <<>>
    BY <1>2, ReactToNone
  <1>3. ASSUME NEW e \in {"credentialsrequired", "serververification", "securityfailure"}, evs = <<e>>
        PROVE LET v == Heard(u, s, evs)
              IN  /\ v \in Page /\ v.rfb = u.rfb /\ v.connected = u.connected /\ v.bar = u.bar
                  /\ v.panel = u.panel /\ v.reconnecting = u.reconnecting /\ v.inhibit = u.inhibit
                  /\ v.stuck = u.stuck /\ v.visual = u.visual
    <2>1. Heard(u, s, evs) = React(u, s, e)
      BY <1>3, ReactToOne
    <2>2. React(u, s, e) \in {[u EXCEPT !.credDlg = TRUE], [u EXCEPT !.digests = @ \union {s}], u}
      BY DEF React
    <2>3. ASSUME NEW v, v \in {[u EXCEPT !.credDlg = TRUE], [u EXCEPT !.digests = @ \union {s}], u}
          PROVE /\ v \in Page /\ v.rfb = u.rfb /\ v.connected = u.connected /\ v.bar = u.bar
                /\ v.panel = u.panel /\ v.reconnecting = u.reconnecting /\ v.inhibit = u.inhibit
                /\ v.stuck = u.stuck /\ v.visual = u.visual
      BY <2>3 DEF Page
    <2> QED BY <2>1, <2>2, <2>3
  <1> QED BY <1>1, <1>2, <1>3

\* The page hears that it is connected.
LEMMA HeardConnect ==
  ASSUME NEW u \in Page, NEW s
  PROVE LET v == Heard(u, s, <<"connect">>)
        IN  /\ v \in Page /\ v.rfb = u.rfb /\ v.connected /\ v.bar /\ v.panel = u.panel
            /\ v.reconnecting = u.reconnecting /\ ~v.inhibit /\ v.stuck = u.stuck
            /\ v.visual = "connected"
  <1>1. Heard(u, s, <<"connect">>) = ConnectFinished(u)
    BY ReactToOne DEF React
  <1> QED BY <1>1 DEF ConnectFinished, UpdateVisualState, Page, VisualStates

\* The page hears of the end: it reconnects or shows the panel.
LEMMA DownHeard ==
  ASSUME NEW u \in Page, NEW clean \in BOOLEAN
  PROVE LET v == DisconnectFinished(u, clean)
        IN  /\ v \in Page /\ v.rfb = 0 /\ ~v.connected /\ ~v.bar /\ v.inhibit = u.inhibit
            /\ v.stuck = u.stuck
            /\ \/ ~u.inhibit /\ v.reconnecting /\ v.panel = u.panel
               \/ v.panel /\ v.reconnecting = u.reconnecting /\ v.visual = "disconnected"
  <1> DEFINE down == [u EXCEPT !.connected = FALSE, !.rfb = 0]
             told == IF clean THEN down ELSE UpdateVisualState(down, "disconnected")
             again == [UpdateVisualState(told, "reconnecting") EXCEPT !.reconnecting = TRUE]
             over == [UpdateVisualState(told, "disconnected") EXCEPT !.panel = TRUE]
  <1>1. /\ told \in Page /\ told.rfb = 0 /\ told.connected = FALSE /\ told.panel = u.panel
        /\ told.reconnecting = u.reconnecting /\ told.inhibit = u.inhibit /\ told.stuck = u.stuck
    BY DEF Page, UpdateVisualState, VisualStates
  <1>2. \/ ~u.inhibit /\ DisconnectFinished(u, clean) = again
        \/ DisconnectFinished(u, clean) = over
    BY <1>1 DEF DisconnectFinished
  <1> HIDE DEF told
  <1>3. /\ again \in Page /\ again.rfb = 0 /\ ~again.connected /\ ~again.bar
        /\ again.inhibit = u.inhibit /\ again.stuck = u.stuck
        /\ again.reconnecting /\ again.panel = u.panel
    BY <1>1 DEF Page, UpdateVisualState, VisualStates
  <1>4. /\ over \in Page /\ over.rfb = 0 /\ ~over.connected /\ ~over.bar
        /\ over.inhibit = u.inhibit /\ over.stuck = u.stuck
        /\ over.panel /\ over.reconnecting = u.reconnecting /\ over.visual = "disconnected"
    BY <1>1 DEF Page, UpdateVisualState, VisualStates
  <1> HIDE DEF again, over
  <1> QED BY <1>2, <1>3, <1>4

\* A handler that ends the connection tells the page so once, and last.
LEMMA HeardEnd ==
  ASSUME NEW u \in Page, NEW s, NEW evs \in Endings
  PROVE \E clean \in BOOLEAN : Heard(u, s, evs) = DisconnectFinished(u, clean)
  <1>1. ASSUME NEW e \in Closings
        PROVE \E clean \in BOOLEAN : React(u, s, e) = DisconnectFinished(u, clean)
    BY DEF Closings, React
  <1>2. React(u, s, "securityfailure") = u
    BY DEF React
  <1>3. PICK e \in Closings : evs = <<e>> \/ evs = <<"securityfailure", e>>
    BY DEF Endings
  <1>4. Heard(u, s, evs) = React(u, s, e)
    BY <1>2, <1>3, ReactToOne, ReactToTwo
  <1> QED BY <1>1, <1>4

\* One object takes a step, and its events reach the page: what the page knows stays true.
LEMMA SettleKeeps ==
  ASSUME Objects(rfb), NEW s \in Sessions, NEW c, NEW d, Turned(c, d),
         NEW u \in Page, Follows([rfb EXCEPT ![s] = c], u), Ways(u), Settle(s, d, u)
  PROVE PageInv'
  <1> DEFINE e == Collect([d EXCEPT !.evs = <<>>])
             v == Heard(u, s, d.evs)
             objs == [rfb EXCEPT ![s] = c]
             next == [rfb EXCEPT ![s] = e]
  <1>1. rfb' = next /\ ui' = v
    BY DEF Settle, Heard
  <1>2. Begun(e) /\ e.conn = d.conn
    BY CollectBegun
  <1> HIDE DEF e
  <1>3. Objects(next)
    BY <1>2 DEF Objects
  <1>4. \A t \in Sessions : objs[t] = IF t = s THEN c ELSE rfb[t]
    BY DEF Objects
  <1>5. \A t \in Sessions : next[t] = IF t = s THEN e ELSE rfb[t]
    BY DEF Objects
  <1>6. 0 \notin Sessions
    BY DEF Sessions
  <1>7. (\A t \in Sessions : Up(objs[t]) <=> u.rfb = t) /\ (u.bar => u.rfb # 0)
        /\ (u.connected => u.rfb # 0 /\ objs[u.rfb].conn = "connected")
    BY DEF Follows
  <1>8. u.rfb \in Sessions \union {0}
    BY DEF Page
  <1>9. v \in Page /\ Follows(next, v) /\ Ways(v)
    <2> HIDE DEF v, next, objs
    <2>1. CASE Keeps(c, d)
      <3>1. d.conn = c.conn /\ d.evs \in Quiet
        BY <2>1 DEF Keeps
      <3>2. /\ v \in Page /\ v.rfb = u.rfb /\ v.connected = u.connected /\ v.bar = u.bar
            /\ v.panel = u.panel /\ v.reconnecting = u.reconnecting /\ v.inhibit = u.inhibit
            /\ v.stuck = u.stuck /\ v.visual = u.visual
        BY <3>1, HeardQuiet DEF v
      <3>3. \A t \in Sessions : next[t].conn = objs[t].conn
        BY <1>2, <1>4, <1>5, <3>1
      <3>4. Follows(next, v)
        BY <1>7, <1>8, <3>2, <3>3 DEF Follows, Up
      <3> QED BY <3>2, <3>4 DEF Ways
    <2>2. CASE Ends(c, d)
      <3>1. u.rfb = s
        BY <1>4, <1>7, <2>2 DEF Ends
      <3>2. PICK clean \in BOOLEAN : v = DisconnectFinished(u, clean)
        BY <2>2, HeardEnd DEF Ends, v
      <3>3. /\ v \in Page /\ v.rfb = 0 /\ ~v.connected /\ ~v.bar /\ v.inhibit = u.inhibit
            /\ v.stuck = u.stuck
            /\ \/ ~u.inhibit /\ v.reconnecting /\ v.panel = u.panel
               \/ v.panel /\ v.reconnecting = u.reconnecting /\ v.visual = "disconnected"
        BY <3>2, DownHeard
      <3>4. ~Up(e)
        BY <1>2, <2>2 DEF Ends, Up
      <3>5. \A t \in Sessions : ~Up(next[t])
        BY <1>4, <1>5, <1>7, <3>1, <3>4
      <3>6. Follows(next, v)
        BY <1>6, <3>3, <3>5 DEF Follows
      <3>7. u.panel = FALSE /\ u.reconnecting = FALSE /\ u.stuck = FALSE
        BY <1>6, <3>1 DEF Ways, Page
      <3>8. Ways(v)
        BY <3>3, <3>7 DEF Ways
      <3> QED BY <3>3, <3>6, <3>8
    <2>3. CASE Joins(c, d)
      <3>1. u.rfb = s
        BY <1>4, <1>7, <2>3 DEF Joins, Up
      <3>2. /\ v \in Page /\ v.rfb = u.rfb /\ v.connected /\ v.bar /\ v.panel = u.panel
            /\ v.reconnecting = u.reconnecting /\ ~v.inhibit /\ v.stuck = u.stuck
            /\ v.visual = "connected"
        BY <2>3, HeardConnect DEF Joins, v
      <3>3. e.conn = "connected"
        BY <1>2, <2>3 DEF Joins
      <3>4. Follows(next, v)
        BY <1>4, <1>5, <1>6, <1>7, <3>1, <3>2, <3>3 DEF Follows, Up
      <3>5. Ways(v)
        BY <1>6, <3>1, <3>2 DEF Ways
      <3> QED BY <3>2, <3>4, <3>5
    <2> QED BY <2>1, <2>2, <2>3 DEF Turned
  <1> QED BY <1>1, <1>3, <1>9 DEF PageInv

-----------------------------------------------------------------------------
(* The steps.                                                              *)

\* The page's part of what it shows does not matter to what it knows.
Alike(u, v) ==
    /\ v \in Page /\ v.rfb = u.rfb /\ v.connected = u.connected /\ v.bar = u.bar
    /\ v.panel = u.panel /\ v.reconnecting = u.reconnecting /\ v.inhibit = u.inhibit
    /\ v.stuck = u.stuck /\ v.visual = u.visual

\* Such a part may change with no object changing its connection.
LEMMA AlikeKeeps ==
  ASSUME PageInv, NEW u, Alike(ui, u)
  PROVE /\ Ways(u)
        /\ \A objs : (\A t \in Sessions : objs[t].conn = rfb[t].conn) => Follows(objs, u)
  <1>1. Ways(u)
    BY DEF PageInv, Ways, Alike
  <1>2. ASSUME NEW objs, \A t \in Sessions : objs[t].conn = rfb[t].conn PROVE Follows(objs, u)
    <2>1. \A t \in Sessions : Up(objs[t]) <=> u.rfb = t
      BY <1>2 DEF PageInv, Follows, Alike, Up
    <2>2. u.connected => u.rfb # 0 /\ objs[u.rfb].conn = "connected"
      BY <1>2 DEF PageInv, Follows, Alike, Page
    <2> QED BY <2>1, <2>2 DEF PageInv, Follows, Alike
  <1> QED BY <1>1, <1>2

\* A handler of an object, whatever the page does to its dialogs before.
LEMMA HandlerKeeps ==
  ASSUME PageInv, NEW s \in Sessions, NEW c, NEW d, Turned(c, d), c.conn = rfb[s].conn,
         NEW u, Alike(ui, u), Settle(s, d, u)
  PROVE PageInv'
  <1>1. \A t \in Sessions : [rfb EXCEPT ![s] = c][t].conn = rfb[t].conn
    BY DEF PageInv, Objects
  <1>2. Ways(u) /\ Follows([rfb EXCEPT ![s] = c], u) /\ u \in Page
    BY <1>1, AlikeKeeps DEF Alike
  <1> QED BY <1>2, SettleKeeps DEF PageInv

\* The page is like itself.
LEMMA UiAlike == ASSUME PageInv PROVE Alike(ui, ui)
  BY DEF PageInv, Alike

\* Only an object that has been created does anything.
LEMMA ActiveBegun ==
  ASSUME PageInv, NEW s \in Sessions, rfb[s] # Fresh(FALSE, {})
  PROVE Begun(rfb[s])
  BY DEF PageInv, Objects

\* An object not created has nothing pending.
LEMMA FreshRests ==
  LET c == Fresh(FALSE, {})
  IN  /\ c.run = "idle" /\ c.ra2 = "none" /\ c.ard = "none" /\ c.resume = 0 /\ ~c.timer
      /\ c.ws = "unused"
  BY DEF Fresh

\* The object the page shows is up.
LEMMA ShownBegun ==
  ASSUME PageInv, ui.rfb # 0
  PROVE ui.rfb \in Sessions /\ Begun(rfb[ui.rfb]) /\ Up(rfb[ui.rfb])
  <1>1. ui.rfb \in Sessions
    BY DEF PageInv, Page
  <1>2. Up(rfb[ui.rfb])
    BY <1>1 DEF PageInv, Follows
  <1>3. ~Up(Fresh(FALSE, {}))
    BY DEF Up, Fresh
  <1> QED BY <1>1, <1>2, <1>3, ActiveBegun

\* A call of the loop that runs.
LEMMA LoopKeeps == ASSUME PageInv, NEW s \in Sessions, LoopStep(s) PROVE PageInv'
  <1>1. Begun(rfb[s])
    BY ActiveBegun, FreshRests DEF LoopStep
  <1>2. PICK d \in {NormalMsg(rfb[s]), InitMsg(rfb[s])} : Settle(s, d, ui)
    BY DEF LoopStep
  <1>3. Turned(rfb[s], d)
    BY <1>1, <1>2, NormalMsgTurned, InitMsgTurned
  <1> QED BY <1>2, <1>3, UiAlike, HandlerKeeps

\* A promise answers.
LEMMA CryptoKeeps == ASSUME PageInv, NEW s \in Sessions, CryptoDone(s) PROVE PageInv'
  <1>1. Begun(rfb[s])
    BY ActiveBegun, FreshRests DEF CryptoDone, Ra2MayAnswer, Ra2Crypto
  <1>2. CASE Settle(s, ArdDone(rfb[s]), ui)
    BY <1>1, <1>2, SmallTurns, UiAlike, HandlerKeeps
  <1>3. ASSUME NEW ok \in BOOLEAN, Settle(s, Ra2CryptoDone(rfb[s], ok), ui) PROVE PageInv'
    BY <1>1, <1>3, CryptoTurned, UiAlike, HandlerKeeps
  <1> QED BY <1>2, <1>3 DEF CryptoDone

\* A timer of the handshake fires.
LEMMA ResumeKeeps == ASSUME PageInv, NEW s \in Sessions, Resume(s) PROVE PageInv'
  <1>1. Begun(rfb[s])
    <2>1. ~(Fresh(FALSE, {}).resume > 0)
      BY DEF Fresh
    <2>2. rfb[s].resume > 0
      BY DEF Resume
    <2>3. rfb[s] # Fresh(FALSE, {})
      BY <2>1, <2>2, Zenon
    <2> QED BY <2>3, ActiveBegun
  <1> QED BY <1>1, SmallTurns, UiAlike, HandlerKeeps DEF Resume

\* The timer of the way down fires.
LEMMA TimeoutKeeps == ASSUME PageInv, NEW s \in Sessions, DisconnectTimeout(s) PROVE PageInv'
  <1>1. Begun(rfb[s])
    BY ActiveBegun, FreshRests DEF DisconnectTimeout
  <1> QED BY <1>1, DisconnectedTurned, UiAlike, HandlerKeeps DEF DisconnectTimeout

\* The socket opens.
LEMMA OpenKeeps == ASSUME PageInv, NEW s \in Sessions, WsOpen(s) PROVE PageInv'
  <1> DEFINE c == [rfb[s] EXCEPT !.ws = "open"]
  <1>1. Begun(rfb[s]) /\ rfb[s].ws = "connecting"
    BY ActiveBegun, FreshRests DEF WsOpen
  <1>2. c.conn = rfb[s].conn /\ Turned(c, c) /\ Turned(c, SocketOpen(c))
    BY <1>1, OpenTurned
  <1>3. PICK d \in {c, SocketOpen(c)} : Settle(s, d, ui)
    BY DEF WsOpen
  <1> HIDE DEF c
  <1> QED BY <1>2, <1>3, UiAlike, HandlerKeeps

\* The socket closes.
LEMMA CloseKeeps == ASSUME PageInv, NEW s \in Sessions, WsClose(s) PROVE PageInv'
  <1> DEFINE c == [rfb[s] EXCEPT !.ws = "closed", !.net = <<>>, !.turn = "none"]
  <1>1. Begun(rfb[s])
    BY ActiveBegun, FreshRests DEF WsClose
  <1>2. /\ c.conn = rfb[s].conn /\ Turned(c, SocketClose(c))
        /\ "close" \notin c.on => Turned(c, c)
    BY <1>1, CloseTurned
  <1>3. Settle(s, IF "close" \in c.on THEN SocketClose(c) ELSE c, ui)
    BY DEF WsClose
  <1> HIDE DEF c
  <1>4. CASE "close" \in c.on
    BY <1>2, <1>3, <1>4, UiAlike, HandlerKeeps
  <1>5. CASE "close" \notin c.on
    BY <1>2, <1>3, <1>5, UiAlike, HandlerKeeps
  <1> QED BY <1>4, <1>5

\* The server says something.
LEMMA ServeKeeps == ASSUME PageInv, NEW s \in Sessions, Serve(s) PROVE PageInv'
  <1>1. Begun(rfb[s])
    BY ActiveBegun, FreshRests DEF Serve
  <1>2. PICK reply \in Replies(rfb[s], Offers[s]) : Settle(s, ServerSend(rfb[s], reply), ui)
    BY DEF Serve
  <1> QED BY <1>1, <1>2, SmallTurns, UiAlike, HandlerKeeps

\* Something arrives.
LEMMA DeliverKeeps == ASSUME PageInv, NEW s \in Sessions, Deliver(s) PROVE PageInv'
  <1>1. Begun(rfb[s])
    BY ActiveBegun, FreshRests DEF Deliver
  <1>2. PICK n \in 0 .. Len(rfb[s].net), partly \in BOOLEAN :
          Settle(s, HandleMessage(Arrive(rfb[s], n, partly)), ui)
    BY DEF Deliver
  <1> DEFINE c == Arrive(rfb[s], n, partly)
  <1>3. Calm(rfb[s], c)
    BY <1>1, SmallTurns
  <1> HIDE DEF c
  <1>4. Begun(c) /\ c.conn = rfb[s].conn
    BY <1>1, <1>3, CalmTurned DEF Calm, Frame
  <1>5. Turned(c, HandleMessage(c))
    BY <1>4, SmallTurns
  <1> QED BY <1>2, <1>4, <1>5, UiAlike, HandlerKeeps DEF c

\* What changes of the page alone.
LEMMA AlikeStep ==
  ASSUME PageInv, UNCHANGED rfb, NEW u, ui' = u, Alike(ui, u) PROVE PageInv'
  <1>1. Follows(rfb, u) /\ Ways(u)
    BY AlikeKeeps
  <1> QED BY <1>1 DEF PageInv, Alike

\* The page by itself.
LEMMA SmallStepsKeep ==
  ASSUME PageInv,
         SetReconnect \/ CloseControlbar \/ CancelReconnect \/ \E s \in Sessions : DigestDone(s)
  PROVE PageInv'
  <1>1. CASE SetReconnect
    <2>1. Alike(ui, [ui EXCEPT !.wantReconnect = ~@])
      BY DEF PageInv, Alike, Page
    <2> QED BY <1>1, <2>1, AlikeStep DEF SetReconnect
  <1>2. ASSUME NEW s \in Sessions, DigestDone(s) PROVE PageInv'
    <2>1. Alike(ui, [ui EXCEPT !.digests = @ \ {s}, !.verify = TRUE])
      BY DEF PageInv, Alike, Page
    <2> QED BY <1>2, <2>1, AlikeStep DEF DigestDone
  <1>3. CASE CloseControlbar
    <2> DEFINE u == [ui EXCEPT !.bar = FALSE]
    <2>1. /\ u \in Page /\ u.rfb = ui.rfb /\ u.connected = ui.connected /\ ~u.bar
          /\ u.panel = ui.panel /\ u.reconnecting = ui.reconnecting /\ u.inhibit = ui.inhibit
          /\ u.stuck = ui.stuck /\ u.visual = ui.visual
      BY DEF PageInv, Page
    <2> HIDE DEF u
    <2>2. Follows(rfb, u) /\ Ways(u)
      BY <2>1 DEF PageInv, Follows, Ways
    <2>3. ui' = u /\ rfb' = rfb
      BY <1>3 DEF CloseControlbar, u
    <2> QED BY <2>1, <2>2, <2>3 DEF PageInv
  <1>4. CASE CancelReconnect
    <2> DEFINE u == [UpdateVisualState(ui, "disconnected") EXCEPT !.reconnecting = FALSE, !.panel = TRUE]
    <2>0. ui \in Page
      BY DEF PageInv
    <2>1. /\ u \in Page /\ u.rfb = ui.rfb /\ u.connected = ui.connected /\ u.bar = ui.connected
          /\ u.visual = "disconnected"
          /\ u.panel /\ ~u.reconnecting /\ u.inhibit = ui.inhibit /\ u.stuck = ui.stuck
      BY <2>0 DEF Page, UpdateVisualState, VisualStates
    <2>2. ui' = u /\ rfb' = rfb /\ ui.visual = "reconnecting"
      BY <1>4 DEF CancelReconnect
    <2> HIDE DEF u
    <2>3. Follows(rfb, u)
      BY <2>1 DEF PageInv, Follows
    <2>4. Ways(u)
      BY <2>1, <2>2 DEF PageInv, Ways
    <2> QED BY <2>1, <2>2, <2>3, <2>4 DEF PageInv
  <1> QED BY <1>1, <1>2, <1>3, <1>4

\* The user answers the dialog for credentials.
LEMMA CredentialsKeep == ASSUME PageInv, SetCredentials PROVE PageInv'
  <1>1. ui.rfb \in Sessions /\ Begun(rfb[ui.rfb])
    BY ShownBegun DEF SetCredentials
  <1>2. Alike(ui, [ui EXCEPT !.credDlg = FALSE])
    BY DEF PageInv, Alike, Page
  <1> QED BY <1>1, <1>2, SmallTurns, HandlerKeeps DEF SetCredentials

\* The user approves the server.
LEMMA ApproveKeeps == ASSUME PageInv, ClickApprove PROVE PageInv'
  <1>1. ui.rfb \in Sessions /\ Begun(rfb[ui.rfb])
    BY ShownBegun DEF ClickApprove
  <1>2. Alike(ui, [ui EXCEPT !.verify = FALSE])
    BY DEF PageInv, Alike, Page
  <1> QED BY <1>1, <1>2, SmallTurns, HandlerKeeps DEF ClickApprove

\* The user sets view-only.
LEMMA ViewOnlyKeeps == ASSUME PageInv, UpdateViewOnly PROVE PageInv'
  <1>1. ui.rfb \in Sessions /\ Begun(rfb[ui.rfb])
    BY ShownBegun DEF UpdateViewOnly
  <1>2. Turned(rfb[ui.rfb], SetViewOnly(rfb[ui.rfb], ~rfb[ui.rfb].viewOnly))
    BY <1>1, ViewOnlyTurned
  <1> QED BY <1>1, <1>2, UiAlike, HandlerKeeps DEF UpdateViewOnly

\* The page says it is disconnecting before the object is on its way down.
LEMMA UiDisconnectKeeps ==
  ASSUME PageInv, ui.rfb # 0, NEW v, Alike(ui, v), UiDisconnect(v) PROVE PageInv'
  <1> DEFINE s == ui.rfb
             c == Disconnect(rfb[s])
             objs == [rfb EXCEPT ![s] = c]
             u == UpdateVisualState([v EXCEPT !.connected = FALSE, !.inhibit = TRUE], "disconnecting")
  <1>1. s \in Sessions /\ Begun(rfb[s]) /\ Up(rfb[s]) /\ 0 \notin Sessions
    BY ShownBegun DEF Sessions
  <1>2. v.rfb = s /\ v \in Page
    BY DEF Alike
  <1>3. Begun(c) /\ c.conn = IF rfb[s].conn \in {"connecting", "connected"} THEN "disconnecting"
                             ELSE rfb[s].conn
    BY <1>1, DisconnectBegun
  <1>4. Settle(s, c, u)
    BY <1>2 DEF UiDisconnect
  <1>5. /\ u \in Page /\ u.rfb = s /\ ~u.connected /\ ~u.bar /\ u.panel = ui.panel
        /\ u.reconnecting = ui.reconnecting /\ u.stuck = ui.stuck /\ u.visual = "disconnecting"
    <2>1. [v EXCEPT !.connected = FALSE, !.inhibit = TRUE] \in Page
      BY <1>2 DEF Page
    <2> QED BY <1>2, <2>1 DEF Page, UpdateVisualState, VisualStates, Alike
  <1> HIDE DEF c, u
  <1>6. ~ui.panel /\ ~ui.reconnecting /\ ~ui.stuck
    BY DEF PageInv, Ways
  <1>7. Ways(u)
    BY <1>1, <1>5, <1>6 DEF Ways
  <1>8. Turned(c, c)
    BY <1>3 DEF Begun, Turned, Keeps, Quiet
  <1>9. \A t \in Sessions : Up(objs[t]) <=> u.rfb = t
    <2>1. \A t \in Sessions : Up(rfb[t]) <=> s = t
      BY DEF PageInv, Follows
    <2>2. Up(c)
      BY <1>1, <1>3 DEF Up
    <2>3. \A t \in Sessions : objs[t] = IF t = s THEN c ELSE rfb[t]
      BY DEF PageInv, Objects
    <2> HIDE DEF objs
    <2> QED BY <1>5, <2>1, <2>2, <2>3
  <1>10. Follows(objs, u)
    BY <1>5, <1>9 DEF Follows
  <1> HIDE DEF s
  <1> QED BY <1>1, <1>4, <1>5, <1>7, <1>8, <1>10, SettleKeeps DEF PageInv

\* The user disconnects.
LEMMA DisconnectKeeps == ASSUME PageInv, ClickDisconnect PROVE PageInv'
  BY UiAlike, UiDisconnectKeeps DEF ClickDisconnect

\* The user rejects the server.
LEMMA RejectKeeps == ASSUME PageInv, ClickReject PROVE PageInv'
  <1>1. Alike(ui, [ui EXCEPT !.verify = FALSE])
    BY DEF PageInv, Alike, Page
  <1> QED BY <1>1, UiDisconnectKeeps DEF ClickReject

\* The next object is the first that was never used.
LEMMA LatestUnused ==
  ASSUME Unused # {} PROVE Latest \in Unused /\ \A t \in Unused : Latest <= t
  <1>1. Unused \subseteq Nat
    <2>1. Unused \subseteq Sessions
      BY DEF Unused
    <2>2. Sessions \subseteq Nat
      BY SessionsAssumption DEF Sessions
    <2> QED BY <2>1, <2>2, Zenon
  <1>2. IsWellFoundedOn(OpToRel(<, Nat), Nat)
    BY NatLessThanWellFounded
  <1>3. PICK s \in Unused : \A t \in Unused : <<t, s>> \notin OpToRel(<, Nat)
    BY <1>1, <1>2, WFMin
  <1>4. ASSUME NEW t \in Unused PROVE s <= t
    <2>1. s \in Nat /\ t \in Nat
      BY <1>1
    <2>2. ~(t < s)
      <3>1. <<t, s>> \in {ss \in Nat \X Nat : ss[1] < ss[2]} => FALSE
        BY <1>3 DEF OpToRel
      <3> QED BY <2>1, <3>1
    <2> QED BY <2>1, <2>2
  <1>5. \E x \in Unused : \A t \in Unused : x <= t
    BY <1>4
  <1> QED BY <1>5 DEF Latest

\* UI.connect: another object, or a constructor that throws.
LEMMA ConnectKeeps ==
  ASSUME PageInv, ui.rfb = 0, NEW w, NEW password \in BOOLEAN, Connect(w, password),
         w \in Page, w.rfb = 0, w.connected = ui.connected, ~w.reconnecting, ~w.stuck
  PROVE PageInv'
  <1> DEFINE v == UpdateVisualState([w EXCEPT !.panel = FALSE], "connecting")
             made == Connecting(Fresh(FALSE, IF password THEN {"password"} ELSE {}))
             over == [UpdateVisualState(v, "disconnected") EXCEPT !.stuck = TRUE]
  <1>0. ~ui.connected /\ \A t \in Sessions : ~Up(rfb[t])
    BY DEF PageInv, Follows, Sessions
  <1>1. /\ v \in Page /\ v.rfb = 0 /\ v.connected = FALSE /\ v.bar = FALSE /\ v.panel = FALSE
        /\ v.reconnecting = FALSE /\ v.stuck = FALSE /\ v.visual = "connecting"
    <2>1. [w EXCEPT !.panel = FALSE] \in Page
      BY DEF Page
    <2> QED BY <1>0, <2>1 DEF Page, UpdateVisualState, VisualStates
  <1>2. \/ /\ Unused # {}
           /\ \E viewOnly \in BOOLEAN :
                 Settle(Latest, SetViewOnly(made, viewOnly), [v EXCEPT !.rfb = Latest])
        \/ UNCHANGED rfb /\ ui' = over
    BY DEF Connect
  <1>3. Begun(made) /\ made.conn = "connecting"
    BY MadeBegun
  <1> HIDE DEF v, made
  <1>4. CASE UNCHANGED rfb /\ ui' = over
    <2>1. /\ over \in Page /\ over.rfb = 0 /\ ~over.connected /\ ~over.bar /\ ~over.panel
          /\ ~over.reconnecting /\ over.stuck /\ over.visual = "disconnected"
      BY <1>1 DEF Page, UpdateVisualState, VisualStates
    <2> HIDE DEF over
    <2>2. Ways(over)
      BY <2>1 DEF Ways
    <2>3. Follows(rfb, over)
      BY <1>0, <2>1 DEF Follows, Sessions
    <2> QED BY <1>4, <2>1, <2>2, <2>3 DEF PageInv
  <1>5. ASSUME Unused # {}, NEW viewOnly \in BOOLEAN,
               Settle(Latest, SetViewOnly(made, viewOnly), [v EXCEPT !.rfb = Latest])
        PROVE PageInv'
    <2> DEFINE s == Latest
               u == [v EXCEPT !.rfb = s]
               objs == [rfb EXCEPT ![s] = made]
    <2>1. s \in Sessions /\ 0 \notin Sessions
      <3>1. s \in Unused
        BY <1>5, LatestUnused
      <3> HIDE DEF s
      <3>2. s \in Sessions
        BY <3>1 DEF Unused
      <3>3. 0 \notin Sessions
        BY DEF Sessions
      <3> QED BY <3>2, <3>3
    <2>2. Turned(made, SetViewOnly(made, viewOnly))
      BY <1>3, ViewOnlyTurned
    <2>3. Settle(s, SetViewOnly(made, viewOnly), u)
      BY <1>5
    <2> HIDE DEF s
    <2>4. /\ u \in Page /\ u.rfb = s /\ u.connected = FALSE /\ u.bar = FALSE /\ u.panel = FALSE
          /\ u.reconnecting = FALSE /\ u.stuck = FALSE /\ u.visual = "connecting"
      BY <1>1, <2>1 DEF Page
    <2> HIDE DEF u
    <2>5. Ways(u)
      BY <2>1, <2>4 DEF Ways
    <2>6. \A t \in Sessions : objs[t] = IF t = s THEN made ELSE rfb[t]
      BY DEF PageInv, Objects
    <2> HIDE DEF objs
    <2>7. Follows(objs, u)
      BY <1>0, <1>3, <2>1, <2>4, <2>6 DEF Follows, Up
    <2> QED BY <2>1, <2>2, <2>3, <2>4, <2>5, <2>7, SettleKeeps DEF PageInv, objs
  <1> QED BY <1>2, <1>4, <1>5

\* The user connects.
LEMMA ClickConnectKeeps == ASSUME PageInv, ClickConnect PROVE PageInv'
  <1>1. /\ ui \in Page /\ ui.rfb = 0 /\ ~ui.reconnecting /\ ~ui.stuck
    BY DEF PageInv, Ways, ClickConnect
  <1>2. PICK password \in BOOLEAN : Connect(ui, password)
    BY DEF ClickConnect
  <1> QED BY <1>1, <1>2, ConnectKeeps

\* The page reconnects by itself.
LEMMA ReconnectKeeps == ASSUME PageInv, Reconnect PROVE PageInv'
  <1> DEFINE u == [ui EXCEPT !.reconnecting = FALSE]
  <1>1. ui \in Page /\ ui.rfb = 0 /\ ~ui.inhibit /\ ~ui.stuck
    BY DEF PageInv, Ways, Reconnect
  <1>2. u \in Page /\ u.rfb = 0 /\ u.connected = ui.connected /\ ~u.reconnecting /\ ~u.stuck
    BY <1>1 DEF Page
  <1>3. PICK password \in BOOLEAN : Connect(u, password)
    BY <1>1 DEF Reconnect
  <1> HIDE DEF u
  <1> QED BY <1>1, <1>2, <1>3, ConnectKeeps

\* At first there is the panel and no object.
LEMMA InitPage == Init => PageInv
  <1> SUFFICES ASSUME Init PROVE PageInv
    OBVIOUS
  <1>1. Objects(rfb)
    BY DEF Init, Objects
  <1>2. ui \in Page /\ Ways(ui)
    BY DEF Init, Page, Ways, VisualStates
  <1>3. ~Up(Fresh(FALSE, {})) /\ 0 \notin Sessions
    BY DEF Up, Fresh, Sessions
  <1>4. ui.rfb = 0 /\ ui.connected = FALSE /\ ui.bar = FALSE /\ \A s \in Sessions : rfb[s] = Fresh(FALSE, {})
    BY DEF Init
  <1>5. Follows(rfb, ui)
    BY <1>3, <1>4 DEF Follows
  <1> QED BY <1>1, <1>2, <1>5 DEF PageInv

\* Every step.
LEMMA PageStep == PageInv /\ [Next]_vars => PageInv'
  <1> SUFFICES ASSUME PageInv, [Next]_vars PROVE PageInv'
    OBVIOUS
  <1>1. CASE UNCHANGED vars
    BY <1>1 DEF vars, PageInv, Objects, Follows, Ways
  <1>2. ASSUME NEW s \in Sessions,
               LoopStep(s) \/ CryptoDone(s) \/ Resume(s) \/ DisconnectTimeout(s)
                 \/ WsOpen(s) \/ Serve(s) \/ Deliver(s)
        PROVE PageInv'
    BY <1>2, LoopKeeps, CryptoKeeps, ResumeKeeps, TimeoutKeeps, OpenKeeps, ServeKeeps, DeliverKeeps
  <1>3. CASE System
    BY <1>2, <1>3 DEF System
  <1>4. ASSUME NEW s \in Sessions, DigestDone(s) \/ WsClose(s) PROVE PageInv'
    BY <1>4, SmallStepsKeep, CloseKeeps
  <1> QED BY <1>1, <1>3, <1>4, SmallStepsKeep, ClickConnectKeeps, DisconnectKeeps, CredentialsKeep,
             ApproveKeeps, RejectKeeps, ViewOnlyKeeps, ReconnectKeeps DEF Next

\* The page and its connections, for every number of them, every offer and every order of
\* the answers.
THEOREM PageInvHolds == Spec => []PageInv
  BY InitPage, PageStep, PTL DEF Spec

\* What an object took it has given back when it is down.
THEOREM GivenBack == Spec => []ReleasedWhenDown
  <1>1. PageInv => ReleasedWhenDown
    <2> SUFFICES ASSUME PageInv, NEW s \in Sessions
          PROVE LET c == rfb[s] IN
                /\ c.conn \in {"disconnecting", "disconnected"} =>
                      ~c.attached /\ (~c.grabbed \/ c.late) /\ ~c.hears /\ c.ws \notin {"connecting", "open"}
                /\ c.conn = "disconnecting" => c.timer /\ "close" \in c.on
                /\ c.conn = "disconnected" => ~c.timer /\ "close" \notin c.on
      BY DEF ReleasedWhenDown
    <2>1. CASE rfb[s] = Fresh(FALSE, {})
      <3>1. Fresh(FALSE, {}).conn = ""
        BY DEF Fresh
      <3>2. rfb[s].conn = ""
        BY <2>1, <3>1, Zenon
      <3> QED BY <3>2
    <2>2. CASE rfb[s] # Fresh(FALSE, {})
      BY <2>2, ActiveBegun DEF Begun, Link, Held
    <2> QED BY <2>1, <2>2
  <1> QED BY <1>1, PageInvHolds, PTL

\* The page's idea of the connection is the object's.
THEOREM PageFollows == Spec => []UiFollowsRfb
  <1>1. PageInv => UiFollowsRfb
    <2> SUFFICES ASSUME PageInv PROVE UiFollowsRfb
      OBVIOUS
    <2>1. \A s \in Sessions : Up(rfb[s]) <=> rfb[s].conn \notin {"", "disconnected"}
      <3> SUFFICES ASSUME NEW s \in Sessions
                   PROVE Up(rfb[s]) <=> rfb[s].conn \notin {"", "disconnected"}
        OBVIOUS
      <3>1. CASE rfb[s] = Fresh(FALSE, {})
        <4>1. Fresh(FALSE, {}).conn = ""
          BY DEF Fresh
        <4>2. rfb[s].conn = ""
          BY <3>1, <4>1, Zenon
        <4> QED BY <4>2 DEF Up
      <3>2. CASE rfb[s] # Fresh(FALSE, {})
        BY <3>2, ActiveBegun DEF Begun, Link, Up, ConnStates
      <3> QED BY <3>1, <3>2
    <2> QED BY <2>1 DEF PageInv, Follows, UiFollowsRfb
  <1> QED BY <1>1, PageInvHolds, PTL

\* There is always one way on, and only one.
THEOREM WayOn == Spec => []UserHasAWay
  <1>1. PageInv => UserHasAWay
    BY DEF PageInv, Ways, UserHasAWay, Page
  <1> QED BY <1>1, PageInvHolds, PTL

-----------------------------------------------------------------------------
(* What the server says.                                                   *)

Values ==
    SchemeNames \union
    {"3.3", "3.7", "3.8", "unknown", "repeater", "empty", "notunnel", "zero", "bad", "noauth", "ok",
     "user", "pass", "refused", "good", "badStop"}
Kinds ==
    {"version", "types", "scheme", "tunnels", "subauth", "vencrypt", "challenge", "ardkey",
     "dhparam", "reason", "ra2key", "ra2random", "ra2hash", "ra2sub", "result", "serverinit",
     "message"}
Messages == Kinds \X Values
Turns ==
    {"none", "version", "security", "tunnels", "subauth", "vversion", "vack", "vlength", "vsubs",
     "challenge", "ardkey", "dhparam", "reason", "ra2key", "ra2random", "ra2hash", "ra2sub",
     "result", "serverinit", "normal"}
\* In its turn t, after version ver, the server may say v, and is in turn u after that.
Says(t, ver, v, u) ==
    \/ t = "version" /\ v \in {"3.3", "3.7", "3.8", "unknown", "repeater"} /\ u = "none"
    \/ t = "security" /\ ver # "3.3" /\ v \in SchemeNames \union {"unknown"} /\ u = "none"
    \/ t = "security" /\ ver = "3.3" /\ v \in SchemeNames /\ u = Opening(v, "3.3")
    \/ t = "security" /\ v = "empty" /\ u = "reason"
    \/ t = "tunnels" /\ v \in {"notunnel", "bad"} /\ u = "none"
    \/ t = "tunnels" /\ v = "zero" /\ u = "subauth"
    \/ t = "subauth" /\ v \in {"noauth", "VNC", "Unix", "unknown"} /\ u = "none"
    \/ t = "subauth" /\ v = "zero" /\ u = "result"
    \/ t = "vversion" /\ v \in {"ok", "bad"} /\ u = "none"
    \/ t = "vack" /\ v \in {"ok", "bad"} /\ u = "vlength"
    \/ t = "vlength" /\ v \in {"ok", "bad"} /\ u = "vsubs"
    \/ t = "vsubs" /\ v \in (SchemeNames \ {"VeNCrypt"}) \union {"bad"} /\ u = "none"
    \/ t \in {"challenge", "ardkey", "dhparam", "reason"} /\ v = "ok" /\ u = "none"
    \/ t \in {"ra2key", "ra2random"} /\ v \in {"ok", "bad"} /\ u = "none"
    \/ t = "ra2hash" /\ v \in {"ok", "bad"} /\ u = "ra2sub"
    \/ t = "ra2sub" /\ v \in {"user", "pass"} /\ u = "none"
    \/ t = "result" /\ v = "ok" /\ u = "none"
    \/ t = "result" /\ v = "refused" /\ u = IF ver = "3.8" THEN "reason" ELSE "none"
    \/ t = "serverinit" /\ v = "ok" /\ u = "normal"
    \/ t = "normal" /\ v \in {"good", "bad", "badStop"} /\ u = "normal"

\* The stream s is what a server in turn t says, after version v, until it is in turn u.
Run(t, v, s, u) ==
    \E T \in [1 .. Len(s) + 1 -> Turns] :
        /\ T[1] = t /\ T[Len(s) + 1] = u
        /\ \A i \in 1 .. Len(s) : Says(T[i], v, s[i][2], T[i + 1])

\* Elements of a concatenation and of a tail.
LEMMA ConcatLen ==
  ASSUME NEW S, NEW q \in Seq(S), NEW r \in Seq(S)
  PROVE q \o r \in Seq(S) /\ Len(q \o r) = Len(q) + Len(r)
  BY ConcatProperties

\* The first part of a concatenation.
LEMMA ConcatFirst == ASSUME NEW S, NEW q \in Seq(S), NEW r \in Seq(S)
  PROVE \A i \in 1 .. Len(q) : (q \o r)[i] = q[i]
  OBVIOUS

\* The second part of a concatenation.
LEMMA ConcatSecond == ASSUME NEW S, NEW q \in Seq(S), NEW r \in Seq(S)
  PROVE \A i \in 1 .. Len(r) : (q \o r)[Len(q) + i] = r[i]
  OBVIOUS

\* A tail is one shorter.
LEMMA TailLen == ASSUME NEW S, NEW q \in Seq(S), q # <<>>
  PROVE Tail(q) \in Seq(S) /\ Len(Tail(q)) = Len(q) - 1 /\ Len(q) \in Nat /\ Len(q) >= 1
  BY HeadTailProperties, LenProperties, EmptySeq

\* A tail begins with the second element.
LEMMA TailAt == ASSUME NEW S, NEW q \in Seq(S), q # <<>>
  PROVE \A i \in 1 .. Len(q) - 1 : Tail(q)[i] = q[i + 1]
  BY HeadTailProperties

\* A head is the first element.
LEMMA HeadAt == ASSUME NEW S, NEW q \in Seq(S), q # <<>>
  PROVE Head(q) = q[1] /\ Head(q) \in S
  BY HeadTailProperties

\* A concatenation begins where its first part does.
LEMMA ConcatTail ==
  ASSUME NEW S, NEW q \in Seq(S), NEW r \in Seq(S), q # <<>>
  PROVE  q \o r # <<>> /\ Head(q \o r) = Head(q) /\ Tail(q \o r) = Tail(q) \o r
  <1> DEFINE s == q \o r
             t == Tail(q) \o r
             u == Tail(s)
  <1>1. Len(q) \in Nat /\ Len(r) \in Nat /\ Len(q) >= 1
    BY TailLen, LenProperties
  <1>2. s \in Seq(S) /\ Len(s) = Len(q) + Len(r)
    BY ConcatLen
  <1>3. s # <<>>
    BY <1>1, <1>2, EmptySeq
  <1>4. s[1] = q[1]
    BY <1>1, ConcatFirst
  <1>5. Tail(q) \in Seq(S) /\ Len(Tail(q)) = Len(q) - 1
    BY TailLen
  <1>6. t \in Seq(S) /\ Len(t) = Len(q) - 1 + Len(r)
    BY <1>5, ConcatLen
  <1>7. u \in Seq(S) /\ Len(u) = Len(q) + Len(r) - 1
    <2> HIDE DEF s
    <2> QED BY <1>2, <1>3, <1>1, TailLen
  <1>8. ASSUME NEW i \in 1 .. Len(u) PROVE u[i] = t[i]
    <2>1. u[i] = s[i + 1]
      <3> HIDE DEF s
      <3> QED BY <1>1, <1>2, <1>3, <1>7, TailAt
    <2>2. CASE i <= Len(q) - 1
      <3>1. i \in 1 .. Len(Tail(q)) /\ i + 1 \in 1 .. Len(q) /\ i \in 1 .. Len(q) - 1
        BY <1>1, <1>5, <1>7, <2>2
      <3>2. t[i] = Tail(q)[i]
        BY <1>5, <3>1, ConcatFirst
      <3>3. Tail(q)[i] = q[i + 1]
        BY <3>1, TailAt
      <3>4. s[i + 1] = q[i + 1]
        BY <3>1, ConcatFirst
      <3> QED BY <2>1, <3>2, <3>3, <3>4
    <2>3. CASE i > Len(q) - 1
      <3> DEFINE j == i - (Len(q) - 1)
      <3>1. j \in 1 .. Len(r) /\ i + 1 = Len(q) + j /\ i = Len(Tail(q)) + j
        BY <1>1, <1>5, <1>7, <2>3
      <3> HIDE DEF j
      <3>2. t[Len(Tail(q)) + j] = r[j]
        BY <1>5, <3>1, ConcatSecond
      <3>3. s[Len(q) + j] = r[j]
        BY <3>1, ConcatSecond
      <3> QED BY <2>1, <3>1, <3>2, <3>3
    <2> QED BY <1>1, <1>7, <2>2, <2>3
  <1>9. u = t
    <2> HIDE DEF u, t
    <2> QED BY <1>1, <1>6, <1>7, <1>8, SeqEqual
  <1> QED BY <1>2, <1>3, <1>4, <1>9, HeadAt

\* With nothing said, the server is in the turn it was in.
LEMMA RunEmpty == ASSUME NEW t \in Turns, NEW v PROVE Run(t, v, <<>>, t)
  <1> DEFINE T == [i \in 1 .. 1 |-> t]
  <1>1. Len(<<>>) = 0 /\ T \in [1 .. 0 + 1 -> Turns] /\ T[1] = t /\ T[0 + 1] = t
    OBVIOUS
  <1> HIDE DEF T
  <1>2. \A i \in 1 .. 0 : FALSE
    OBVIOUS
  <1> QED BY <1>1, <1>2 DEF Run

\* A server that says nothing is where it was.
LEMMA RunEmptyIs == ASSUME NEW t, NEW v, NEW u, Run(t, v, <<>>, u) PROVE u = t
  <1>1. Len(<<>>) = 0
    OBVIOUS
  <1> QED BY <1>1 DEF Run

\* Reading a message brings the server's turn one further.
LEMMA RunTakes ==
  ASSUME NEW s \in Seq(Messages), s # <<>>, NEW t, NEW v, NEW u, Run(t, v, s, u)
  PROVE  \E w \in Turns : Says(t, v, Head(s)[2], w) /\ Run(w, v, Tail(s), u)
  <1> DEFINE n == Len(s)
  <1>1. /\ Tail(s) \in Seq(Messages) /\ Len(Tail(s)) = n - 1 /\ n \in Nat /\ n >= 1
        /\ Head(s) = s[1]
    BY TailLen, HeadAt
  <1>2. \A i \in 1 .. n - 1 : Tail(s)[i] = s[i + 1]
    BY TailAt
  <1>3. PICK T \in [1 .. n + 1 -> Turns] :
           /\ T[1] = t /\ T[n + 1] = u
           /\ \A i \in 1 .. n : Says(T[i], v, s[i][2], T[i + 1])
    BY DEF Run
  <1> DEFINE U == [i \in 1 .. n |-> T[i + 1]]
  <1> HIDE DEF n
  <1>4. U \in [1 .. n -> Turns] /\ \A i \in 1 .. n : U[i] = T[i + 1]
    BY <1>1, <1>3
  <1> HIDE DEF U
  <1>5. \A i \in 1 .. n - 1 : Says(U[i], v, Tail(s)[i][2], U[i + 1])
    <2> SUFFICES ASSUME NEW i \in 1 .. n - 1 PROVE Says(U[i], v, Tail(s)[i][2], U[i + 1])
      OBVIOUS
    <2>1. i + 1 \in 1 .. n /\ i \in 1 .. n
      BY <1>1
    <2>2. U[i] = T[i + 1] /\ U[i + 1] = T[(i + 1) + 1] /\ Tail(s)[i] = s[i + 1]
      BY <1>2, <1>4, <2>1
    <2>3. Says(T[i + 1], v, s[i + 1][2], T[(i + 1) + 1])
      BY <1>3, <2>1
    <2> QED BY <2>2, <2>3
  <1>6. Run(T[2], v, Tail(s), u)
    <2>1. Len(Tail(s)) + 1 = n /\ Len(Tail(s)) = n - 1
      BY <1>1
    <2>2. U[1] = T[2] /\ U[n] = u
      BY <1>1, <1>3, <1>4
    <2> QED BY <1>4, <1>5, <2>1, <2>2 DEF Run
  <1>7. T[2] \in Turns /\ Says(t, v, Head(s)[2], T[2])
    <2>1. 1 \in 1 .. n /\ 1 + 1 = 2 /\ 2 \in 1 .. n + 1
      BY <1>1
    <2>2. Says(T[1], v, s[1][2], T[1 + 1])
      BY <1>3, <2>1
    <2> QED BY <1>1, <1>3, <2>1, <2>2
  <1> QED BY <1>6, <1>7

\* A server that waits for the client has said everything.
LEMMA RunRests ==
  ASSUME NEW s \in Seq(Messages), NEW v, NEW u, Run("none", v, s, u) PROVE s = <<>> /\ u = "none"
  <1>1. s = <<>>
    <2> SUFFICES ASSUME s # <<>> PROVE FALSE
      OBVIOUS
    <2>1. PICK w \in Turns : Says("none", v, Head(s)[2], w)
      BY RunTakes
    <2> QED BY <2>1 DEF Says
  <1> QED BY <1>1, RunEmptyIs

\* The server says one thing more.
LEMMA RunSays ==
  ASSUME NEW s \in Seq(Messages), NEW t, NEW v, NEW u, Run(t, v, s, u),
         NEW m \in Messages, NEW w \in Turns, Says(u, v, m[2], w)
  PROVE  Run(t, v, Append(s, m), w)
  <1> DEFINE n == Len(s)
             r == Append(s, m)
  <1>1. n \in Nat
    BY LenProperties
  <1>2. Len(r) = n + 1
    BY AppendProperties
  <1>3. \A i \in 1 .. n : r[i] = s[i]
    BY AppendProperties
  <1>4. r[n + 1] = m
    BY AppendProperties
  <1>5. PICK T \in [1 .. n + 1 -> Turns] :
           /\ T[1] = t /\ T[n + 1] = u
           /\ \A i \in 1 .. n : Says(T[i], v, s[i][2], T[i + 1])
    BY DEF Run
  <1> HIDE DEF n, r
  <1> DEFINE U == [i \in 1 .. (n + 1) + 1 |-> IF i = n + 2 THEN w ELSE T[i]]
  <1>6. /\ U \in [1 .. (n + 1) + 1 -> Turns] /\ U[(n + 1) + 1] = w /\ U[1] = t
        /\ \A i \in 1 .. n + 1 : U[i] = T[i]
    BY <1>1, <1>5
  <1> HIDE DEF U
  <1>7. ASSUME NEW i \in 1 .. n + 1 PROVE Says(U[i], v, r[i][2], U[i + 1])
    <2>1. CASE i = n + 1
      <3>1. U[i] = u /\ r[i] = m /\ U[i + 1] = w
        BY <1>1, <1>4, <1>5, <1>6, <2>1
      <3> QED BY <3>1
    <2>2. CASE i # n + 1
      <3>1. i \in 1 .. n /\ i + 1 \in 1 .. n + 1
        BY <1>1, <2>2
      <3>2. U[i] = T[i] /\ U[i + 1] = T[i + 1] /\ r[i] = s[i]
        BY <1>3, <1>6, <3>1
      <3>3. Says(T[i], v, s[i][2], T[i + 1])
        BY <1>5, <3>1
      <3> QED BY <3>2, <3>3
    <2> QED BY <2>1, <2>2
  <1>8. Run(t, v, r, w)
    BY <1>2, <1>6, <1>7 DEF Run
  <1> QED BY <1>8 DEF r

\* What arrives leaves the network for the queue.
LEMMA Arriving ==
  ASSUME NEW q \in Seq(Messages), NEW net \in Seq(Messages), NEW n \in 0 .. Len(net)
  PROVE  LET a == SubSeq(net, 1, n)
             b == SubSeq(net, n + 1, Len(net))
         IN  /\ q \o a \in Seq(Messages) /\ b \in Seq(Messages)
             /\ (q \o a) \o b = q \o net
             /\ n > 0 => q \o a # <<>>
  <1> DEFINE a == SubSeq(net, 1, n)
             b == SubSeq(net, n + 1, Len(net))
  <1>1. Len(net) \in Nat /\ n \in Nat /\ n <= Len(net) /\ Len(q) \in Nat
    BY LenProperties
  <1>2. a \in Seq(Messages) /\ Len(a) = n
    BY <1>1, SubSeqProperties
  <1>3. b \in Seq(Messages)
    BY <1>1, SubSeqProperties
  <1>4. a \o b = net
    <2>1. 1 \in 1 .. Len(net) + 1 /\ n \in 1 - 1 .. Len(net) /\ Len(net) \in n .. Len(net)
      BY <1>1
    <2>2. SubSeq(net, 1, n) \o SubSeq(net, n + 1, Len(net)) = SubSeq(net, 1, Len(net))
      BY <2>1, ConcatAdjacentSubSeq
    <2> QED BY <2>2, SubSeqFull
  <1> HIDE DEF a, b
  <1>5. (q \o a) \o b = q \o (a \o b)
    BY <1>2, <1>3, ConcatAssociative
  <1>6. q \o a \in Seq(Messages) /\ Len(q \o a) = Len(q) + n
    BY <1>2, ConcatLen
  <1>7. n > 0 => q \o a # <<>>
    BY <1>1, <1>6, EmptySeq
  <1> QED BY <1>3, <1>4, <1>5, <1>6, <1>7 DEF a, b

-----------------------------------------------------------------------------
(* Where the handshake is.                                                 *)

Early == {"", "ProtocolVersion", "Security"}

\* What belongs to one security type is at rest everywhere else.
Placed(c) ==
    /\ c.ra2 # "none" => c.init = "Authentication" /\ c.auth = "RA2"
    /\ c.ard # "none" => c.auth = "ARD"
    /\ c.init \in Early => c.auth = ""

\* What the way down leaves of an object.
Core(c, d) ==
    /\ d.init = c.init /\ d.ver = c.ver /\ d.auth = c.auth /\ d.venc = c.venc
    /\ d.tight = c.tight /\ d.ard = c.ard /\ d.ra2 = c.ra2 /\ d.over = c.over
    /\ d.resume = c.resume /\ d.run = c.run /\ d.q = c.q /\ d.frag = c.frag

\* The way down leaves the handshake where it is.
LEMMA FailCore ==
  ASSUME NEW c, DOMAIN c = Fields
  PROVE Core(c, Fail(c)) /\ Fail(c).conn # "connecting" /\ DOMAIN Fail(c) = Fields
  <1> DEFINE b == [c EXCEPT !.clean = FALSE]
             x == Disconnecting(b)
             d == Disconnected(x)
  <1>1. DOMAIN b = Fields /\ Core(c, b)
    BY DEF Fields, Core
  <1> HIDE DEF b
  <1>2. DOMAIN x = Fields /\ Core(b, x) /\ x.conn \notin {"connecting", "connected"}
    BY <1>1 DEF Fields, Core, Disconnecting, Detach
  <1> HIDE DEF x
  <1>3. DOMAIN d = Fields /\ Core(x, d) /\ d.conn # "connecting"
    BY <1>2 DEF Fields, Core, Disconnected, Emit
  <1> QED BY <1>1, <1>2, <1>3 DEF Core, Fail, b, x

\* What the first connection has not done before the server named its types.
Goes(c, d) ==
    /\ Placed(d) /\ d.resume = c.resume
    /\ d.init \in Early => c.init \in Early /\ d.evs # <<"credentialsrequired">>
    /\ d.init = "Security" => d.run = "idle"
    /\ d.over = "count" => c.over = "count" \/ (c.init = "Security" /\ ~Has(c) /\ ~c.frag)

\* A call of the handshake may fail.
LEMMA DoneFailGoes ==
  ASSUME NEW c, NEW x, DOMAIN x = Fields, Placed(x), x.resume = c.resume, x.over = c.over,
         x.init \in Early => c.init \in Early, x.evs \in {<<>>, <<"securityfailure">>}, Link(x)
  PROVE Goes(c, Done(Fail(x)))
  <1> DEFINE f == Fail(x)
  <1>1. Core(x, f) /\ DOMAIN f = Fields
    BY FailCore
  <1>2. Turned(x, f)
    BY FailTurned
  <1>3. f.evs # <<"credentialsrequired">>
    <2>1. \A e \in Endings : e # <<"credentialsrequired">>
      BY DEF Endings, Closings
    <2>2. f.evs = x.evs \/ f.evs \in Endings
      <3>1. CASE Up(x)
        <4>1. f.conn = "disconnected"
          BY <3>1 DEF Fail, Disconnecting, Disconnected, Detach, Emit, Up, Fields
        <4> QED BY <3>1, <4>1, <1>2 DEF Turned, Keeps, Ends, Joins, Up
      <3>2. CASE ~Up(x)
        BY <3>2 DEF Fail, Disconnecting, Disconnected, Up, Fields
      <3> QED BY <3>1, <3>2
    <2>3. <<>> # <<"credentialsrequired">> /\ <<"securityfailure">> # <<"credentialsrequired">>
      OBVIOUS
    <2> HIDE DEF f
    <2> QED BY <2>1, <2>2, <2>3
  <1> HIDE DEF f
  <1>4. /\ Done(f).run = "idle" /\ Done(f).evs = f.evs /\ Done(f).init = f.init
        /\ Done(f).auth = f.auth /\ Done(f).ra2 = f.ra2
        /\ Done(f).ard = f.ard /\ Done(f).resume = f.resume /\ Done(f).over = f.over
    BY <1>1 DEF Done, Core, Fields
  <1>5. /\ f.init = x.init /\ f.auth = x.auth /\ f.ra2 = x.ra2 /\ f.ard = x.ard
        /\ f.resume = c.resume /\ f.over = c.over
    BY <1>1 DEF Core
  <1>6. Goes(c, Done(f))
    BY <1>3, <1>4, <1>5 DEF Goes, Placed
  <1> QED BY <1>6 DEF f

\* A call of a handshake that is past the types of security.
Mid(c, x) ==
    /\ DOMAIN x = Fields /\ Placed(x) /\ x.resume = c.resume /\ x.init \notin Early
    /\ x.over \in {c.over, "random"}

\* Past the types, a call may read, answer, ask, fail and return.
LEMMA MidOut ==
  ASSUME NEW c, NEW x, Mid(c, x)
  PROVE /\ Goes(c, x) /\ Goes(c, Done(x)) /\ Goes(c, More(x)) /\ Goes(c, AskCredentials(x))
        /\ \A e : Mid(c, Emit(x, e))
        /\ Mid(c, Take(x)) /\ \A t : Mid(c, Send(x, t))
        /\ Mid(c, Fail(x)) /\ Mid(c, Done(x))
  <1>1. \A e : Mid(c, Emit(x, e))
    BY DEF Mid, Placed, Emit, Fields
  <1>2. Mid(c, Take(x)) /\ \A t : Mid(c, Send(x, t))
    BY DEF Mid, Placed, Take, Send, Fields
  <1>3. Mid(c, Fail(x))
    BY FailCore DEF Mid, Placed, Core
  <1>4. ASSUME NEW y, Mid(c, y) PROVE Mid(c, Done(y)) /\ Mid(c, More(y)) /\ Goes(c, y)
    <2>1. Mid(c, Done(y)) /\ Mid(c, More(y))
      BY <1>4 DEF Mid, Placed, Done, More, Fields
    <2>2. Goes(c, y)
      BY <1>4 DEF Mid, Goes, Early
    <2> QED BY <2>1, <2>2
  <1>5. Goes(c, x) /\ Goes(c, Done(x)) /\ Goes(c, More(x))
    BY <1>4
  <1>6. Goes(c, AskCredentials(x))
    BY <1>1, <1>4 DEF AskCredentials
  <1> QED BY <1>1, <1>2, <1>3, <1>4, <1>5, <1>6

\* A call that returns where the types have not been named, or later.
LEMMA DoneGoes ==
  ASSUME NEW c, NEW x, DOMAIN x = Fields, Placed(x), x.resume = c.resume, x.evs = <<>>,
         x.init \in Early => c.init \in Early,
         x.over = "count" => c.over = "count" \/ (c.init = "Security" /\ ~Has(c) /\ ~c.frag)
  PROVE Goes(c, Done(x)) /\ (x.init # "Security" => Goes(c, More(x)))
  <1>0. <<>> # <<"credentialsrequired">>
    OBVIOUS
  <1>1. ASSUME NEW d \in {x, Done(x)}
        PROVE /\ d.init = x.init /\ d.auth = x.auth /\ d.ra2 = x.ra2 /\ d.ard = x.ard
              /\ d.resume = x.resume /\ d.over = x.over /\ d.evs = x.evs
    BY DEF Done, Fields
  <1>2. Done(x).run = "idle"
    BY DEF Done, Fields
  <1>3. ASSUME NEW d \in {x, Done(x)} PROVE (d.init = "Security" => d.run = "idle") => Goes(c, d)
    <2>1. /\ d.init = x.init /\ d.auth = x.auth /\ d.ra2 = x.ra2 /\ d.ard = x.ard
          /\ d.resume = x.resume /\ d.over = x.over /\ d.evs = x.evs
      BY <1>1
    <2>2. Placed(d)
      BY <2>1 DEF Placed
    <2> QED BY <1>0, <2>1, <2>2 DEF Goes
  <1>4. More(x) \in {x, Done(x)}
    BY DEF More
  <1>5. x.init # "Security" => Goes(c, More(x))
    <2>1. ASSUME NEW d \in {x, Done(x)}, x.init # "Security" PROVE Goes(c, d)
      BY <1>1, <1>3, <2>1
    <2> QED BY <1>4, <2>1
  <1> QED BY <1>2, <1>3, <1>5

\* _negotiateProtocolVersion asks for nothing.
LEMMA VersionGoes ==
  ASSUME NEW c, Begun(c), Placed(c), c.init = "ProtocolVersion"
  PROVE Goes(c, NegotiateProtocolVersion(c))
  <1> DEFINE t == Take(c)
             a == Send(t, "version")
             b == Send(t, "security")
             x == [b EXCEPT !.ver = Val(c), !.init = "Security"]
  <1>0. DOMAIN c = Fields /\ c.evs = <<>> /\ c.ra2 = "none" /\ c.ard = "none" /\ c.auth = ""
    BY DEF Begun, Link, Placed, Early
  <1>1. \/ NegotiateProtocolVersion(c) = Done(c)
        \/ NegotiateProtocolVersion(c) = More(a)
        \/ NegotiateProtocolVersion(c) = Done(x)
        \/ NegotiateProtocolVersion(c) = Done(Fail(t))
    BY DEF NegotiateProtocolVersion, Versions
  <1>2. /\ DOMAIN t = Fields /\ t.evs = <<>> /\ t.ra2 = "none" /\ t.ard = "none" /\ t.auth = ""
        /\ t.init = c.init /\ t.over = c.over /\ t.resume = c.resume
    BY <1>0 DEF Take, Fields
  <1>3. Calm(c, c) /\ Calm(c, t)
    BY CalmOn DEF Calm, Frame
  <1> HIDE DEF t
  <1>4. ASSUME NEW s
        PROVE LET y == Send(t, s)
              IN  /\ DOMAIN y = Fields /\ y.evs = <<>> /\ y.ra2 = "none" /\ y.ard = "none"
                  /\ y.auth = "" /\ y.init = c.init /\ y.over = c.over /\ y.resume = c.resume
    BY <1>2 DEF Send, Fields
  <1>5. Goes(c, Done(c))
    BY <1>0, DoneGoes DEF Placed
  <1>6. Goes(c, More(a))
    <2>1. /\ DOMAIN a = Fields /\ a.evs = <<>> /\ a.ra2 = "none" /\ a.ard = "none"
          /\ a.auth = "" /\ a.init = c.init /\ a.over = c.over /\ a.resume = c.resume
      BY <1>4
    <2> HIDE DEF a
    <2> QED BY <2>1, DoneGoes DEF Placed
  <1>7. Goes(c, Done(x))
    <2>1. /\ DOMAIN b = Fields /\ b.evs = <<>> /\ b.ra2 = "none" /\ b.ard = "none"
          /\ b.auth = "" /\ b.init = c.init /\ b.over = c.over /\ b.resume = c.resume
      BY <1>4
    <2> HIDE DEF b
    <2>2. /\ DOMAIN x = Fields /\ x.evs = <<>> /\ x.ra2 = "none" /\ x.ard = "none"
          /\ x.auth = "" /\ x.init = "Security" /\ x.over = c.over /\ x.resume = c.resume
      BY <2>1 DEF Fields
    <2> HIDE DEF x
    <2>3. Placed(x)
      BY <2>2 DEF Placed
    <2> QED BY <2>2, <2>3, DoneGoes DEF Early
  <1>8. Goes(c, Done(Fail(t)))
    <2>1. Link(t)
      BY <1>3, CalmTurned DEF Begun
    <2>2. Placed(t)
      BY <1>2 DEF Placed
    <2> QED BY <1>2, <2>1, <2>2, DoneFailGoes DEF Early
  <1> QED BY <1>1, <1>5, <1>6, <1>7, <1>8

\* _negotiateSecurity looks at the types only when they are there.
LEMMA SecurityGoes ==
  ASSUME NEW c, Begun(c), Placed(c), c.init = "Security"
  PROVE Goes(c, NegotiateSecurity(c))
  <1> DEFINE t == Take(c)
             o == [c EXCEPT !.over = IF c.ver # "3.3" /\ ~c.frag THEN "count" ELSE @]
             e == [t EXCEPT !.init = "SecurityReason"]
             b == IF c.ver # "3.3" THEN Send(t, Opening(Val(c), c.ver)) ELSE t
             x == [b EXCEPT !.auth = Val(c), !.init = "Authentication"]
  <1>0. DOMAIN c = Fields /\ c.evs = <<>> /\ c.ra2 = "none" /\ c.ard = "none" /\ c.auth = ""
    BY DEF Begun, Link, Placed, Early
  <1>1. \/ ~Has(c) /\ NegotiateSecurity(c) = Done(o)
        \/ NegotiateSecurity(c) = More(e)
        \/ NegotiateSecurity(c) = More(x)
        \/ NegotiateSecurity(c) = Done(Fail(t))
    BY DEF NegotiateSecurity, SchemeNames
  <1>2. /\ DOMAIN t = Fields /\ t.evs = <<>> /\ t.ra2 = "none" /\ t.ard = "none" /\ t.auth = ""
        /\ t.init = c.init /\ t.over = c.over /\ t.resume = c.resume
    BY <1>0 DEF Take, Fields
  <1>3. Calm(c, c) /\ Calm(c, t)
    BY CalmOn DEF Calm, Frame
  <1> HIDE DEF t
  <1>4. ~Has(c) => Goes(c, Done(o))
    <2>1. /\ DOMAIN o = Fields /\ o.evs = <<>> /\ o.ra2 = "none" /\ o.ard = "none" /\ o.auth = ""
          /\ o.init = c.init /\ o.resume = c.resume
          /\ o.over = "count" => c.over = "count" \/ ~c.frag
      BY <1>0 DEF Fields
    <2> HIDE DEF o
    <2>2. Placed(o)
      BY <2>1 DEF Placed
    <2> QED BY <2>1, <2>2, DoneGoes
  <1>5. Goes(c, More(e))
    <2>1. Mid(c, e)
      BY <1>2 DEF Mid, Placed, Early, Fields
    <2> QED BY <2>1, MidOut
  <1>6. Goes(c, More(x))
    <2>1. /\ DOMAIN b = Fields /\ b.evs = <<>> /\ b.ra2 = "none" /\ b.ard = "none"
          /\ b.over = c.over /\ b.resume = c.resume
      BY <1>2 DEF Send, Fields
    <2> HIDE DEF b
    <2>2. Mid(c, x)
      BY <2>1 DEF Mid, Placed, Early, Fields
    <2> QED BY <2>2, MidOut
  <1>7. Goes(c, Done(Fail(t)))
    <2>1. Link(t)
      BY <1>3, CalmTurned DEF Begun
    <2>2. Placed(t)
      BY <1>2 DEF Placed
    <2> QED BY <1>2, <2>1, <2>2, DoneFailGoes DEF Early
  <1> QED BY <1>1, <1>4, <1>5, <1>6, <1>7

\* RA2 by itself.
LEMMA Ra2EndMid == ASSUME NEW c, NEW x, Mid(c, x), x.auth = "RA2" PROVE Mid(c, Ra2End(x))
  BY DEF Mid, Placed, Ra2End, Early, Fields

\* A wait of the RA2 exchange.
LEMMA Ra2WaitMid ==
  ASSUME NEW c, NEW x, NEW w, Mid(c, x), x.init = "Authentication", x.auth = "RA2"
  PROVE Mid(c, Ra2Wait(x, w))
  <1> DEFINE t == Take(x)
             n == IF w = "subtype" THEN Needs(Val(x)) ELSE t.needs
             y == [t EXCEPT !.ra2 = Ra2Next(w), !.needs = n]
             z == [x EXCEPT !.ra2 = "cryptRandom", !.over = "random"]
             v == [x EXCEPT !.ra2 = w]
  <1>1. Mid(c, t) /\ t.init = "Authentication" /\ t.auth = "RA2"
    BY MidOut DEF Take, Mid, Fields
  <1>2. Ra2Wait(x, w) \in {Ra2Throw(t), y, z, v}
    BY DEF Ra2Wait
  <1> HIDE DEF t, n
  <1>3. Mid(c, y)
    BY <1>1 DEF Mid, Placed, Fields
  <1>4. Mid(c, z) /\ Mid(c, v)
    BY DEF Mid, Placed, Fields
  <1>5. Mid(c, Ra2Throw(t))
    <2>1. Mid(c, Fail(t)) /\ Fail(t).auth = "RA2"
      BY <1>1, MidOut, FailCore DEF Mid, Core
    <2> QED BY <2>1, Ra2EndMid DEF Ra2Throw
  <1> HIDE DEF y, z, v
  <1> QED BY <1>2, <1>3, <1>4, <1>5

\* _negotiateRA2neAuth.
LEMMA RA2Goes ==
  ASSUME NEW c, Mid(c, c), c.init = "Authentication", c.auth = "RA2"
  PROVE Goes(c, NegotiateRA2(c))
  <1> DEFINE v == [c EXCEPT !.ra2 = "cryptCreds"]
             r == IF c.ra2 = "none" THEN Ra2Wait(c, "key") ELSE CheckInternalEvents(c)
  <1>1. Mid(c, v)
    BY DEF Mid, Placed, Fields
  <1>2. r \in {Ra2Wait(c, "key"), Ra2Wait(c, c.ra2), v, c}
    BY DEF CheckInternalEvents
  <1> HIDE DEF v
  <1>3. Mid(c, r)
    <2> HIDE DEF r
    <2> QED BY <1>1, <1>2, Ra2WaitMid
  <1> QED BY <1>3, MidOut DEF NegotiateRA2

\* The RA2 exchange goes on after a promise.
LEMMA CryptoGoes ==
  ASSUME NEW c, NEW ok \in BOOLEAN, Mid(c, c), c.init = "Authentication", c.auth = "RA2"
  PROVE Mid(c, Ra2CryptoDone(c, ok))
  <1> DEFINE y == [c EXCEPT !.ra2 = "approve"]
             z == [c EXCEPT !.ra2 = "cryptCreds"]
             w == [c EXCEPT !.ra2 = "creds"]
  <1>1. Ra2CryptoDone(c, ok) \in
          {Emit(y, "serververification"), Ra2Wait(Send(c, "ra2random"), "random"),
           Ra2Wait(Send(c, "ra2hash"), "hash"), Ra2Wait(c, "subtype"), z,
           Emit(w, "credentialsrequired"), Ra2End(Send(c, "result")), Ra2Throw(c)}
    BY DEF Ra2CryptoDone
  <1>2. Mid(c, y) /\ Mid(c, z) /\ Mid(c, w)
    BY DEF Mid, Placed, Fields
  <1> HIDE DEF y, z, w
  <1>3. ASSUME NEW t
        PROVE Mid(c, Send(c, t)) /\ Send(c, t).init = "Authentication" /\ Send(c, t).auth = "RA2"
    BY MidOut DEF Send, Mid, Fields
  <1>4. Mid(c, Ra2End(Send(c, "result")))
    BY <1>3, Ra2EndMid
  <1>5. Mid(c, Ra2Throw(c))
    <2>1. Mid(c, Fail(c)) /\ Fail(c).auth = "RA2"
      BY MidOut, FailCore DEF Mid, Core
    <2> QED BY <2>1, Ra2EndMid DEF Ra2Throw
  <1> QED BY <1>1, <1>2, <1>3, <1>4, <1>5, Ra2WaitMid, MidOut

\* A call of NegotiateAuthentication with no RA2 exchange.
Plainly(c, x) == Mid(c, x) /\ x.ra2 = "none" /\ (x.ard # "none" => x.auth = "ARD")

\* Reading and answering leave the RA2 exchange at rest.
LEMMA PlainlyOn ==
  ASSUME NEW c, NEW x, Plainly(c, x)
  PROVE /\ Plainly(c, Take(x)) /\ \A t : Plainly(c, Send(x, t))
        /\ Take(x).auth = x.auth /\ \A t : Send(x, t).auth = x.auth
  <1>1. DOMAIN x = Fields
    BY DEF Plainly, Mid
  <1>2. Take(x).ra2 = "none" /\ Take(x).ard = x.ard /\ Take(x).auth = x.auth
    BY <1>1 DEF Plainly, Take, Fields
  <1>3. \A t : Send(x, t).ra2 = "none" /\ Send(x, t).ard = x.ard /\ Send(x, t).auth = x.auth
    BY <1>1 DEF Plainly, Send, Fields
  <1> QED BY <1>2, <1>3, MidOut DEF Plainly

\* A security type may be done.
LEMMA PlainlyResult ==
  ASSUME NEW c, NEW x, Plainly(c, x)
  PROVE /\ Plainly(c, [x EXCEPT !.init = "SecurityResult"])
        /\ Plainly(c, [x EXCEPT !.init = "ClientInitialisation"])
  BY DEF Plainly, Mid, Placed, Early, Fields

\* A security type may choose another.
LEMMA PlainlyAuth ==
  ASSUME NEW c, NEW x, Plainly(c, x), x.ard = "none", NEW a
  PROVE Plainly(c, [x EXCEPT !.auth = a])
  BY DEF Plainly, Mid, Placed, Early, Fields

\* _negotiateStdVNCAuth.
LEMMA StdVNCGoes == ASSUME NEW c, NEW x, Plainly(c, x) PROVE Goes(c, NegotiateStdVNC(x))
  <1> DEFINE y == Send(Take(x), "result")
             z == [y EXCEPT !.init = "SecurityResult"]
  <1>1. NegotiateStdVNC(x) \in {Done(x), AskCredentials(x), More(z)}
    BY DEF NegotiateStdVNC
  <1>2. Plainly(c, y)
    <2>1. Plainly(c, Take(x))
      BY PlainlyOn
    <2> QED BY <2>1, PlainlyOn
  <1> HIDE DEF y
  <1>3. Plainly(c, z)
    BY <1>2, PlainlyResult
  <1> HIDE DEF z
  <1> QED BY <1>1, <1>3, MidOut DEF Plainly

\* _negotiateXvpAuth.
LEMMA XvpGoes == ASSUME NEW c, Plainly(c, c), c.ard = "none" PROVE Goes(c, NegotiateXvp(c))
  <1> DEFINE y == Send(c, "challenge")
             z == [y EXCEPT !.auth = "VNC"]
  <1>1. Plainly(c, y) /\ y.ard = "none"
    BY PlainlyOn DEF Send, Plainly, Mid, Fields
  <1>2. NegotiateXvp(c) \in {NegotiateStdVNC(z), AskCredentials(c)}
    BY DEF NegotiateXvp
  <1> HIDE DEF y
  <1>3. Plainly(c, z)
    BY <1>1, PlainlyAuth
  <1> HIDE DEF z
  <1> QED BY <1>2, <1>3, StdVNCGoes, MidOut DEF Plainly

\* _negotiatePlainAuth and _negotiateTightUnixAuth.
LEMMA PlainGoes == ASSUME NEW c, Plainly(c, c) PROVE Goes(c, NegotiatePlain(c))
  <1> DEFINE y == Send(c, "result")
             z == [y EXCEPT !.init = "SecurityResult"]
  <1>1. Plainly(c, y)
    BY PlainlyOn
  <1>2. NegotiatePlain(c) \in {More(z), AskCredentials(c)}
    BY DEF NegotiatePlain
  <1> HIDE DEF y
  <1>3. Plainly(c, z)
    BY <1>1, PlainlyResult
  <1> HIDE DEF z
  <1> QED BY <1>2, <1>3, MidOut DEF Plainly

\* _negotiateVeNCryptAuth.
LEMMA VeNCryptGoes == ASSUME NEW c, Plainly(c, c), c.ard = "none" PROVE Goes(c, NegotiateVeNCrypt(c))
  <1> DEFINE t == Take(c)
             y == Send(t, "vack")
             z == [y EXCEPT !.venc = 1]
             w == [t EXCEPT !.venc = @ + 1]
             b == Send(t, Opening(Val(c), c.ver))
             x == [b EXCEPT !.auth = Val(c)]
             v == [b EXCEPT !.auth = Val(c), !.venc = 4]
  <1>1. NegotiateVeNCrypt(c) \in {Done(c), Done(Fail(t)), z, w, More(v)}
    BY DEF NegotiateVeNCrypt
  <1>2. Plainly(c, t) /\ t.ard = "none"
    BY PlainlyOn DEF Take, Plainly, Mid, Fields
  <1> HIDE DEF t
  <1>3. Plainly(c, y) /\ Plainly(c, b) /\ b.ard = "none"
    BY <1>2, PlainlyOn DEF Send, Plainly, Mid, Fields
  <1> HIDE DEF y, b
  <1>4. Mid(c, z)
    BY <1>3 DEF Plainly, Mid, Placed, Fields
  <1>5. Mid(c, w)
    BY <1>2 DEF Plainly, Mid, Placed, Fields
  <1>6. Mid(c, v)
    BY <1>3 DEF Plainly, Mid, Placed, Fields
  <1> HIDE DEF z, w, v
  <1>7. Mid(c, Fail(t))
    BY <1>2, MidOut DEF Plainly
  <1> QED BY <1>1, <1>4, <1>5, <1>6, <1>7, MidOut DEF Plainly

\* _negotiateARDAuth.
LEMMA ARDGoes == ASSUME NEW c, Plainly(c, c), c.auth = "ARD" PROVE Goes(c, NegotiateARD(c))
  <1> DEFINE y == Send(c, "result")
             z == [y EXCEPT !.ard = "spent", !.init = "SecurityResult"]
             t == Take(c)
             w == [t EXCEPT !.ard = "busy"]
  <1>1. NegotiateARD(c) \in {AskCredentials(c), More(z), Done(w), Done(c)}
    BY DEF NegotiateARD
  <1>2. Plainly(c, y) /\ Plainly(c, t) /\ y.auth = "ARD" /\ t.auth = "ARD"
    BY PlainlyOn
  <1> HIDE DEF y, t
  <1>3. Mid(c, z)
    BY <1>2 DEF Plainly, Mid, Placed, Early, Fields
  <1>4. Mid(c, w)
    BY <1>2 DEF Plainly, Mid, Placed, Fields
  <1> HIDE DEF z, w
  <1> QED BY <1>1, <1>3, <1>4, MidOut DEF Plainly

\* _negotiateTightAuth.
LEMMA TightGoes == ASSUME NEW c, Plainly(c, c), c.ard = "none" PROVE Goes(c, NegotiateTight(c))
  <1> DEFINE t == Take(c)
             h == [t EXCEPT !.tight = TRUE]
             a == Send(t, "subauth")
             x == [a EXCEPT !.tight = TRUE]
             i == [t EXCEPT !.init = "SecurityResult"]
             b == Send(t, "result")
             y == [b EXCEPT !.init = "SecurityResult"]
             d == Send(t, Opening(Val(c), c.ver))
             z == [d EXCEPT !.auth = Val(c)]
  <1>1. NegotiateTight(c) \in {Done(c), h, Done(x), Done(Fail(h)), More(i), More(y), More(z), Done(Fail(t))}
    BY DEF NegotiateTight
  <1>2. Plainly(c, t) /\ t.ard = "none"
    BY PlainlyOn DEF Take, Plainly, Mid, Fields
  <1> HIDE DEF t
  <1>3. Plainly(c, a) /\ Plainly(c, b) /\ Plainly(c, d) /\ d.ard = "none"
    BY <1>2, PlainlyOn DEF Send, Plainly, Mid, Fields
  <1> HIDE DEF a, b, d
  <1>4. Mid(c, h)
    BY <1>2 DEF Plainly, Mid, Placed, Fields
  <1>5. Mid(c, x)
    BY <1>3 DEF Plainly, Mid, Placed, Fields
  <1>6. Mid(c, i) /\ Mid(c, y)
    BY <1>2, <1>3, PlainlyResult DEF Plainly
  <1>7. Mid(c, z)
    BY <1>3, PlainlyAuth DEF Plainly
  <1> HIDE DEF h, x, i, y, z
  <1>8. Mid(c, Fail(t)) /\ Mid(c, Fail(h))
    BY <1>2, <1>4, MidOut DEF Plainly
  <1> QED BY <1>1, <1>4, <1>5, <1>6, <1>7, <1>8, MidOut DEF Plainly

\* _negotiateMSLogonIIAuth.
LEMMA MSLogonGoes == ASSUME NEW c, Plainly(c, c) PROVE Goes(c, NegotiateMSLogon(c))
  <1> DEFINE y == Send(Take(c), "result")
             z == [y EXCEPT !.init = "SecurityResult"]
  <1>1. NegotiateMSLogon(c) \in {Done(c), AskCredentials(c), More(z)}
    BY DEF NegotiateMSLogon
  <1>2. Plainly(c, y)
    <2>1. Plainly(c, Take(c))
      BY PlainlyOn
    <2> QED BY <2>1, PlainlyOn
  <1> HIDE DEF y
  <1>3. Plainly(c, z)
    BY <1>2, PlainlyResult
  <1> HIDE DEF z
  <1> QED BY <1>1, <1>3, MidOut DEF Plainly

\* _negotiateAuthentication: every security type.
LEMMA AuthenticationGoes ==
  ASSUME NEW c, Begun(c), Placed(c), c.init = "Authentication"
  PROVE Goes(c, NegotiateAuthentication(c))
  <1>1. Mid(c, c)
    BY DEF Begun, Link, Mid, Early
  <1>2. c.auth # "RA2" => Plainly(c, c)
    BY <1>1 DEF Plainly, Placed
  <1>3. c.auth # "ARD" => c.ard = "none"
    BY DEF Placed
  <1>4. CASE c.auth = "None"
    <2> DEFINE x == [c EXCEPT !.init = "SecurityResult"]
               y == [c EXCEPT !.init = "ClientInitialisation"]
    <2>1. NegotiateAuthentication(c) \in {More(x), More(y)}
      BY <1>4 DEF NegotiateAuthentication
    <2>2. Mid(c, x) /\ Mid(c, y)
      BY <1>2, <1>4, PlainlyResult DEF Plainly
    <2> HIDE DEF x, y
    <2> QED BY <2>1, <2>2, MidOut
  <1>5. Goes(c, Done(Fail(c)))
    BY <1>1, MidOut
  <1>6. CASE c.auth = "RA2"
    BY <1>1, <1>6, RA2Goes DEF NegotiateAuthentication
  <1>7. CASE c.auth = "ARD"
    BY <1>2, <1>7, ARDGoes DEF NegotiateAuthentication
  <1>8. CASE c.auth \notin {"None", "RA2", "ARD"}
    <2>1. NegotiateAuthentication(c) \in
            {NegotiateXvp(c), NegotiateStdVNC(c), NegotiateTight(c), NegotiateVeNCrypt(c),
             NegotiatePlain(c), NegotiateMSLogon(c), Done(Fail(c))}
      BY <1>8 DEF NegotiateAuthentication
    <2>2. Plainly(c, c) /\ c.ard = "none"
      BY <1>2, <1>3, <1>8
    <2> QED BY <1>5, <2>1, <2>2, XvpGoes, StdVNCGoes, TightGoes, VeNCryptGoes, PlainGoes, MSLogonGoes
  <1> QED BY <1>4, <1>6, <1>7, <1>8

\* What comes after the security type.
LEMMA ResultGoes ==
  ASSUME NEW c, Mid(c, c), c.init = "SecurityResult", Placed(c)
  PROVE Goes(c, HandleSecurityResult(c))
  <1> DEFINE t == Take(c)
             x == [t EXCEPT !.init = "ClientInitialisation"]
             y == [t EXCEPT !.init = "SecurityReason"]
             e == Emit(t, "securityfailure")
  <1>1. HandleSecurityResult(c) \in {Done(c), More(x), More(y), Done(Fail(e))}
    BY DEF HandleSecurityResult
  <1>2. Mid(c, t) /\ t.ra2 = "none"
    BY MidOut DEF Take, Placed, Mid, Fields
  <1> HIDE DEF t
  <1>3. Mid(c, x) /\ Mid(c, y)
    BY <1>2 DEF Mid, Placed, Early, Fields
  <1>4. Mid(c, Fail(e))
    <2>1. Mid(c, e)
      BY <1>2, MidOut
    <2> QED BY <2>1, MidOut
  <1> HIDE DEF x, y, e
  <1> QED BY <1>1, <1>3, <1>4, MidOut

\* _handleSecurityReason.
LEMMA ReasonGoes == ASSUME NEW c, Mid(c, c) PROVE Goes(c, HandleSecurityReason(c))
  <1> DEFINE e == Emit(Take(c), "securityfailure")
  <1>1. HandleSecurityReason(c) \in {Done(c), Done(Fail(e))}
    BY DEF HandleSecurityReason
  <1>2. Mid(c, e)
    <2>1. Mid(c, Take(c))
      BY MidOut
    <2> QED BY <2>1, MidOut
  <1> HIDE DEF e
  <1>3. Mid(c, Fail(e))
    BY <1>2, MidOut
  <1> QED BY <1>1, <1>3, MidOut

\* ClientInit is sent.
LEMMA ClientInitGoes ==
  ASSUME NEW c, Mid(c, c), c.ra2 = "none"
  PROVE Goes(c, More([Send(c, "serverinit") EXCEPT !.init = "ServerInitialisation"]))
  <1> DEFINE b == Send(c, "serverinit")
             x == [b EXCEPT !.init = "ServerInitialisation"]
  <1>1. Mid(c, b) /\ b.ra2 = "none"
    BY MidOut DEF Send, Mid, Fields
  <1> HIDE DEF b
  <1>2. Mid(c, x)
    BY <1>1 DEF Mid, Placed, Early, Fields
  <1> HIDE DEF x
  <1> QED BY <1>2, MidOut DEF b, x

\* _negotiateServerInit.
LEMMA ServerInitGoes == ASSUME NEW c, Mid(c, c) PROVE Goes(c, NegotiateServerInit(c))
  <1> DEFINE b == Send(Take(c), "normal")
             x == [b EXCEPT !.grabbed = @ \/ ~c.viewOnly, !.late = @ \/ c.conn # "connecting"]
             y == [x EXCEPT !.conn = "connected"]
  <1>1. NegotiateServerInit(c) \in {Done(c), More(Connected(x))}
    BY DEF NegotiateServerInit
  <1>2. Mid(c, b)
    <2>1. Mid(c, Take(c))
      BY MidOut
    <2> QED BY <2>1, MidOut
  <1> HIDE DEF b
  <1>3. Mid(c, x)
    BY <1>2 DEF Mid, Placed, Fields
  <1>4. Connected(x) \in {x, Emit(y, "connect")}
    BY DEF Connected
  <1> HIDE DEF x
  <1>5. Mid(c, y)
    BY <1>3 DEF Mid, Placed, Fields
  <1> HIDE DEF y
  <1>6. Mid(c, Connected(x))
    BY <1>3, <1>4, <1>5, MidOut
  <1> QED BY <1>1, <1>6, MidOut

\* A call of _initMsg in every state.
LEMMA InitMsgGoes ==
  ASSUME NEW c, Begun(c), Placed(c)
  PROVE Goes(c, InitMsg(c))
  <1>1. c.init \notin Early => Mid(c, c)
    BY DEF Begun, Link, Mid
  <1>2. CASE c.init \notin InitStates \ {""}
    <2>1. Goes(c, Done(Fail(c)))
      BY DoneFailGoes DEF Begun, Link
    <2> QED BY <1>2, <2>1 DEF InitMsg, InitStates
  <1>3. CASE c.init = "ProtocolVersion"
    BY <1>3, VersionGoes DEF InitMsg
  <1>4. CASE c.init = "Security"
    BY <1>4, SecurityGoes DEF InitMsg
  <1>5. CASE c.init = "Authentication"
    BY <1>5, AuthenticationGoes DEF InitMsg
  <1>6. CASE c.init = "SecurityResult"
    BY <1>1, <1>6, ResultGoes DEF InitMsg, Early
  <1>7. CASE c.init = "SecurityReason"
    BY <1>1, <1>7, ReasonGoes DEF InitMsg, Early
  <1>8. CASE c.init = "ClientInitialisation"
    BY <1>1, <1>8, ClientInitGoes DEF InitMsg, Early, Placed
  <1>9. CASE c.init = "ServerInitialisation"
    BY <1>1, <1>9, ServerInitGoes DEF InitMsg, Early
  <1> QED BY <1>2, <1>3, <1>4, <1>5, <1>6, <1>7, <1>8, <1>9 DEF InitStates

-----------------------------------------------------------------------------
(* What is on its way, and who reads it.                                   *)

\* The turn the server was in when it said what the client reads next.
ExpectRa2(c) ==
    CASE c.ra2 \in {"none", "key"} -> {"ra2key"}
      [] c.ra2 = "random" -> {"ra2random"}
      [] c.ra2 = "cryptRandom" -> {"none"} \union IF c.over = "random" THEN {"ra2random"} ELSE {}
      [] c.ra2 = "hash" -> {"ra2hash"}
      [] c.ra2 \in {"cryptHash", "subtype"} -> {"ra2sub"}
      [] OTHER -> {"none"}

ExpectAuth(c) ==
    CASE c.auth = "ARD" -> {"none"} \union IF c.ard = "none" THEN {"ardkey"} ELSE {}
      [] c.auth = "Tight" -> IF c.tight THEN {"subauth"} ELSE {"tunnels"}
      [] c.auth = "VeNCrypt" -> CASE c.venc = 0 -> {"vversion"} [] c.venc = 1 -> {"vack"}
                                  [] c.venc = 2 -> {"vlength"} [] OTHER -> {"vsubs"}
      [] c.auth = "RA2" -> ExpectRa2(c)
      [] OTHER -> {Opening(c.auth, c.ver)}

Expect(c) ==
    CASE c.init \in {"", "ProtocolVersion"} -> {"version"}
      [] c.init = "Security" -> {"security"}
      [] c.init = "Authentication" -> ExpectAuth(c)
      [] c.init = "SecurityResult" -> {"result"}
      [] c.init = "SecurityReason" -> {"reason"}
      [] c.init = "ClientInitialisation" -> {"none"}
      [] OTHER -> {"serverinit"}

\* Where a connection attempt is.
Shape(c) ==
    /\ DOMAIN c = Fields /\ Placed(c) /\ c.init \in InitStates
    /\ c.run \in {"idle", "init", "once"} /\ c.resume \in Nat /\ "message" \in c.on
    /\ c.init \in Early => c.venc = 0 /\ ~c.tight
    /\ c.init = "Authentication" /\ c.auth = "VeNCrypt" => c.venc \in 0 .. 3 /\ ~c.tight
    /\ c.ws = "open" \/ (c.ws = "connecting" /\ c.init = "" /\ c.q = <<>> /\ c.net = <<>>)

\* What has been said and not been read is what the handshake expects, up to the server's turn.
Stream(c) ==
    /\ c.q \in Seq(Messages) /\ c.net \in Seq(Messages) /\ c.turn \in Turns
    /\ \E t \in Expect(c) : Run(t, c.ver, c.q \o c.net, c.turn)

Good(c) == Shape(c) /\ Stream(c)

\* A message that is there and not read waits for an answer, of the user or of a promise.
Asked == {"VNC", "MSLogon", "ARD"}
Computing(c) == c.auth = "RA2" /\ c.ra2 \in Ra2Crypto
Attended(c, asked) ==
    Has(c) =>
        /\ c.run = "idle" =>
              /\ c.init = "Authentication"
              /\ Computing(c) \/ (c.auth \in Asked /\ (asked \/ c.resume > 0))
        /\ c.run = "once" => c.init = "Authentication" /\ (Computing(c) \/ c.auth \in Asked)

Fine(d, asked) == d.conn = "connecting" => Good(d) /\ Attended(d, asked)
\* What a call leaves: the user is asked by the call itself.
Left(d) == Fine(d, d.evs = <<"credentialsrequired">>)

\* The parts of the record the invariant looks at, but for the stream.
Same(c, d) ==
    /\ DOMAIN d = Fields /\ d.conn = c.conn /\ d.init = c.init /\ d.ver = c.ver /\ d.auth = c.auth
    /\ d.venc = c.venc /\ d.tight = c.tight /\ d.ard = c.ard /\ d.ra2 = c.ra2 /\ d.over = c.over
    /\ d.ws = c.ws /\ d.on = c.on /\ d.resume = c.resume /\ d.run = c.run

SameExpect(c, d) ==
    /\ d.init = c.init /\ d.ver = c.ver /\ d.auth = c.auth /\ d.venc = c.venc /\ d.tight = c.tight
    /\ d.ard = c.ard /\ d.ra2 = c.ra2 /\ d.over = c.over

\* What is expected next depends on the handshake alone.
LEMMA ExpectSame == ASSUME NEW c, NEW d, SameExpect(c, d) PROVE Expect(d) = Expect(c)
  <1>1. ExpectRa2(d) = ExpectRa2(c)
    BY DEF ExpectRa2, SameExpect
  <1>2. ExpectAuth(d) = ExpectAuth(c)
    BY <1>1 DEF ExpectAuth, SameExpect
  <1> QED BY <1>2 DEF Expect, SameExpect

\* What does not move the handshake leaves it good.
LEMMA GoodSame ==
  ASSUME NEW c, NEW d, Good(c), DOMAIN d = Fields, SameExpect(c, d), d.q = c.q, d.net = c.net,
         d.turn = c.turn, d.ws = c.ws, d.run \in {"idle", "init", "once"}, d.resume \in Nat,
         "message" \in d.on
  PROVE Good(d)
  <1>1. Expect(d) = Expect(c)
    BY ExpectSame
  <1>2. Stream(d)
    BY <1>1 DEF Good, Stream, SameExpect
  <1>3. Shape(d)
    BY DEF Good, Shape, Placed, SameExpect
  <1> QED BY <1>2, <1>3 DEF Good

\* The ways out of a call of the handshake.
LEMMA FineGone == ASSUME NEW d, d.conn # "connecting" PROVE Left(d)
  BY DEF Fine, Left

\* A connection that failed is no attempt any more.
LEMMA FineFail == ASSUME NEW x, DOMAIN x = Fields PROVE Left(Fail(x)) /\ Left(Done(Fail(x)))
  <1>1. Fail(x).conn # "connecting" /\ DOMAIN Fail(x) = Fields
    BY FailCore
  <1>2. Done(Fail(x)).conn # "connecting"
    BY <1>1 DEF Done, Fields
  <1> QED BY <1>1, <1>2, FineGone

\* Returning, and telling the page, leave a good attempt good.
LEMMA GoodDone == ASSUME NEW x, Good(x) PROVE Good(Done(x)) /\ \A e : Good(Emit(x, e))
  <1>1. DOMAIN x = Fields /\ x.resume \in Nat /\ "message" \in x.on /\ x.run \in {"idle", "init", "once"}
    BY DEF Good, Shape
  <1>2. ASSUME NEW d, \/ d = Done(x)
                      \/ \E e : d = Emit(x, e)
        PROVE Good(d)
    <2>1. /\ DOMAIN d = Fields /\ SameExpect(x, d) /\ d.q = x.q /\ d.net = x.net /\ d.turn = x.turn
          /\ d.ws = x.ws /\ d.run \in {"idle", "init", "once"} /\ d.resume = x.resume /\ d.on = x.on
      BY <1>1, <1>2 DEF Done, Emit, Fields, SameExpect
    <2> QED BY <1>1, <2>1, GoodSame
  <1> QED BY <1>2

\* A call may return with nothing left to read.
LEMMA FineDone ==
  ASSUME NEW x, Good(x), x.q = <<>> PROVE Left(Done(x))
  <1>1. Done(x).q = <<>>
    BY DEF Done, Good, Shape, Fields
  <1> QED BY <1>1, GoodDone DEF Fine, Left, Attended, Has

\* A loop that goes on looks again.
LEMMA FineKept ==
  ASSUME NEW x, Good(x), x.run = "init" PROVE Left(x)
  BY DEF Fine, Left, Attended

\* A call may go on.
LEMMA FineMore ==
  ASSUME NEW x, Good(x), x.q = <<>> \/ x.run = "init", x.conn = "connecting"
  PROVE Left(More(x))
  <1>1. CASE x.run = "init"
    BY <1>1, FineKept DEF More
  <1>2. CASE x.run # "init"
    BY <1>2, FineDone DEF More
  <1> QED BY <1>1, <1>2

\* A call may ask for credentials with the challenge unread.
LEMMA FineAsk ==
  ASSUME NEW x, Good(x), x.evs = <<>>, x.q = <<>> \/ (x.init = "Authentication" /\ x.auth \in Asked)
  PROVE Left(AskCredentials(x))
  <1> DEFINE y == Emit(x, "credentialsrequired")
             d == Done(y)
  <1>0. Append(<<>>, "credentialsrequired") = <<"credentialsrequired">>
    OBVIOUS
  <1>1. Good(d)
    BY GoodDone
  <1>2. DOMAIN x = Fields
    BY DEF Good, Shape
  <1>3. /\ DOMAIN y = Fields /\ y.q = x.q /\ y.init = x.init /\ y.auth = x.auth
        /\ y.evs = <<"credentialsrequired">>
    BY <1>0, <1>2 DEF Emit, Fields
  <1> HIDE DEF y
  <1>4. /\ d.q = x.q /\ d.init = x.init /\ d.auth = x.auth /\ d.run = "idle"
        /\ d.evs = <<"credentialsrequired">>
    BY <1>3 DEF Done, Fields
  <1> HIDE DEF d
  <1>5. Attended(d, TRUE)
    BY <1>4 DEF Attended, Has
  <1>6. Left(d)
    BY <1>1, <1>4, <1>5 DEF Fine, Left
  <1> QED BY <1>6 DEF AskCredentials, d, y

\* Both parts of an empty stream are empty.
LEMMA ConcatNone ==
  ASSUME NEW S, NEW q \in Seq(S), NEW r \in Seq(S), q \o r = <<>> PROVE q = <<>> /\ r = <<>>
  <1>1. Len(q) \in Nat /\ Len(r) \in Nat
    BY LenProperties
  <1>2. Len(q \o r) = Len(q) + Len(r)
    BY ConcatLen
  <1>3. Len(q \o r) = 0
    OBVIOUS
  <1> QED BY <1>1, <1>2, <1>3, EmptySeq

\* Nothing behind nothing.
LEMMA NoneMore == <<>> \o <<>> = <<>>
  OBVIOUS

\* Reading the next message.
LEMMA Taken ==
  ASSUME NEW c, Stream(c), Has(c)
  PROVE /\ Tail(c.q) \in Seq(Messages)
        /\ \E t \in Expect(c), w \in Turns :
              /\ Says(t, c.ver, Val(c), w) /\ Run(w, c.ver, Tail(c.q) \o c.net, c.turn)
              /\ w = "none" => Tail(c.q) = <<>> /\ c.net = <<>>
  <1> DEFINE s == c.q \o c.net
  <1>1. c.q \in Seq(Messages) /\ c.net \in Seq(Messages) /\ c.q # <<>>
    BY DEF Stream, Has
  <1>2. Tail(c.q) \in Seq(Messages)
    BY <1>1, TailLen
  <1>3. s \in Seq(Messages)
    BY <1>1, ConcatLen
  <1>4. s # <<>> /\ Head(s) = Head(c.q) /\ Tail(s) = Tail(c.q) \o c.net
    BY <1>1, ConcatTail
  <1>5. PICK t \in Expect(c) : Run(t, c.ver, s, c.turn)
    BY DEF Stream
  <1> HIDE DEF s
  <1>6. PICK w \in Turns : Says(t, c.ver, Head(s)[2], w) /\ Run(w, c.ver, Tail(s), c.turn)
    BY <1>3, <1>4, <1>5, RunTakes
  <1>7. w = "none" => Tail(c.q) = <<>> /\ c.net = <<>>
    <2>1. SUFFICES ASSUME w = "none" PROVE Tail(c.q) = <<>> /\ c.net = <<>>
      OBVIOUS
    <2>2. Tail(c.q) \o c.net \in Seq(Messages)
      BY <1>1, <1>2, ConcatLen
    <2>3. Run("none", c.ver, Tail(c.q) \o c.net, c.turn)
      BY <1>4, <1>6, <2>1
    <2>4. Tail(c.q) \o c.net = <<>>
      BY <2>2, <2>3, RunRests
    <2> QED BY <1>1, <1>2, <2>4, ConcatNone
  <1> QED BY <1>2, <1>4, <1>6, <1>7 DEF Val

\* Where the client is to speak, nothing is on its way.
LEMMA Quieted ==
  ASSUME NEW c, Stream(c), Expect(c) = {"none"} PROVE c.q = <<>> /\ c.net = <<>> /\ c.turn = "none"
  <1>1. c.q \in Seq(Messages) /\ c.net \in Seq(Messages) /\ Run("none", c.ver, c.q \o c.net, c.turn)
    BY DEF Stream
  <1>2. c.q \o c.net \in Seq(Messages)
    BY <1>1, ConcatLen
  <1>3. c.q \o c.net = <<>> /\ c.turn = "none"
    <2> DEFINE s == c.q \o c.net
    <2>1. s \in Seq(Messages) /\ Run("none", c.ver, s, c.turn)
      BY <1>1, <1>2
    <2> HIDE DEF s
    <2>2. s = <<>> /\ c.turn = "none"
      BY <2>1, RunRests
    <2> QED BY <2>2 DEF s
  <1> QED BY <1>1, <1>3, ConcatNone

\* The client has answered: the server says what is expected.
LEMMA GoodSent ==
  ASSUME NEW x, Shape(x), x.q = <<>>, x.net = <<>>, x.turn \in Turns, x.turn \in Expect(x)
  PROVE Good(x)
  <1>1. <<>> \in Seq(Messages)
    OBVIOUS
  <1>2. Run(x.turn, x.ver, <<>>, x.turn)
    BY RunEmpty
  <1> QED BY <1>1, <1>2, NoneMore DEF Good, Stream

\* The client has read, and the server goes on by itself.
LEMMA GoodRead ==
  ASSUME NEW c, NEW x, Shape(x), Stream(c), x.q = Tail(c.q), x.q \in Seq(Messages), x.net = c.net,
         x.turn = c.turn, x.ver = c.ver,
         NEW w \in Expect(x), Run(w, c.ver, Tail(c.q) \o c.net, c.turn)
  PROVE Good(x)
  BY DEF Good, Stream

\* What a connection attempt looks like when a call of its handshake begins.
Live(c) ==
    /\ Begun(c) /\ c.conn = "connecting" /\ Good(c) /\ c.run \in {"init", "once"}
    /\ Attended(c, FALSE)

\* A message that is read, and perhaps answered; and an answer nobody asked for.
LEMMA TakeIs ==
  ASSUME NEW c, DOMAIN c = Fields
  PROVE /\ Same(c, Take(c)) /\ Take(c).q = Tail(c.q) /\ Take(c).net = c.net
        /\ Take(c).turn = c.turn
  BY DEF Take, Same, Fields

\* What an answer changes.
LEMMA SendIs ==
  ASSUME NEW x, DOMAIN x = Fields, x.ws = "open", NEW u
  PROVE /\ Same(x, Send(x, u)) /\ Send(x, u).q = x.q /\ Send(x, u).net = x.net
        /\ Send(x, u).turn = u
  BY DEF Send, Same, Fields

\* A message is there only once the socket is open.
LEMMA LiveOpen ==
  ASSUME NEW c, Live(c)
  PROVE DOMAIN c = Fields /\ (Has(c) => c.ws = "open") /\ (c.init # "" => c.ws = "open")
  BY DEF Live, Good, Shape, Has

\* What reading changes.
LEMMA ReadIs ==
  ASSUME NEW c, Live(c)
  PROVE /\ Same(c, Take(c)) /\ Take(c).q = Tail(c.q) /\ Take(c).net = c.net
        /\ Take(c).turn = c.turn
  BY LiveOpen, TakeIs

\* What reading and answering change.
LEMMA AnswerIs ==
  ASSUME NEW c, Live(c), Has(c), NEW u
  PROVE /\ Same(c, Send(Take(c), u)) /\ Send(Take(c), u).q = Tail(c.q)
        /\ Send(Take(c), u).net = c.net /\ Send(Take(c), u).turn = u
  <1> DEFINE t == Take(c)
  <1>1. Same(c, t) /\ t.q = Tail(c.q) /\ t.net = c.net /\ c.ws = "open"
    BY ReadIs, LiveOpen
  <1> HIDE DEF t
  <1> DEFINE z == Send(t, u)
  <1>2. DOMAIN t = Fields /\ t.ws = "open"
    BY <1>1 DEF Same
  <1>3. Same(t, z) /\ z.q = t.q /\ z.net = t.net /\ z.turn = u
    BY <1>2, SendIs
  <1> HIDE DEF z
  <1>4. Same(c, z)
    BY <1>1, <1>3 DEF Same
  <1>5. Same(c, z) /\ z.q = Tail(c.q) /\ z.net = c.net /\ z.turn = u
    BY <1>1, <1>3, <1>4
  <1> QED BY <1>5 DEF z, t

\* What speaking first changes.
LEMMA SpeakIs ==
  ASSUME NEW c, Live(c), c.init # "", NEW u
  PROVE /\ Same(c, Send(c, u)) /\ Send(c, u).q = c.q /\ Send(c, u).net = c.net
        /\ Send(c, u).turn = u
  <1>1. DOMAIN c = Fields /\ c.ws = "open"
    BY LiveOpen
  <1> QED BY <1>1, SendIs

\* The protocol version: a repeater's is answered and another one awaited.
LEMMA VersionFine ==
  ASSUME NEW c, Live(c), c.init = "ProtocolVersion" PROVE Left(NegotiateProtocolVersion(c))
  <1> DEFINE t == Take(c)
             a == Send(t, "version")
             b == Send(t, "security")
             x == [b EXCEPT !.ver = Val(c), !.init = "Security"]
  <1>1. Shape(c) /\ Stream(c) /\ c.conn = "connecting" /\ Placed(c)
    BY DEF Live, Good, Shape
  <1>2. CASE ~Has(c)
    BY <1>2, FineDone DEF NegotiateProtocolVersion, Live, Has
  <1>3. CASE Has(c)
    <2>1. Same(c, t)
      BY ReadIs
    <2>2. /\ Same(c, a) /\ a.q = Tail(c.q) /\ a.net = c.net /\ a.turn = "version"
          /\ Same(c, b) /\ b.q = Tail(c.q) /\ b.net = c.net /\ b.turn = "security"
      <3>1. Same(c, a) /\ a.q = Tail(c.q) /\ a.net = c.net /\ a.turn = "version"
        BY <1>3, AnswerIs
      <3>2. Same(c, b) /\ b.q = Tail(c.q) /\ b.net = c.net /\ b.turn = "security"
        BY <1>3, AnswerIs
      <3> QED BY <3>1, <3>2
    <2>3. \/ NegotiateProtocolVersion(c) = More(a)
          \/ NegotiateProtocolVersion(c) = Done(x)
          \/ NegotiateProtocolVersion(c) = Done(Fail(t))
      BY <1>3 DEF NegotiateProtocolVersion
    <2> HIDE DEF t, a, b
    <2>4. Tail(c.q) = <<>> /\ c.net = <<>>
      <3>1. Expect(c) = {"version"}
        BY DEF Expect
      <3>2. PICK w \in Turns : /\ Says("version", c.ver, Val(c), w)
                               /\ w = "none" => Tail(c.q) = <<>> /\ c.net = <<>>
        BY <1>1, <1>3, <3>1, Taken
      <3> QED BY <3>2 DEF Says
    <2>5. Good(a)
      <3>1. Shape(a)
        BY <1>1, <2>2, <2>4 DEF Shape, Same, Placed
      <3>2. Expect(a) = {"version"}
        BY <2>2 DEF Expect, Same
      <3> QED BY <2>2, <2>4, <3>1, <3>2, GoodSent DEF Turns
    <2>6. Left(More(a))
      BY <1>1, <2>2, <2>4, <2>5, FineMore DEF Same
    <2>7. Left(Done(x))
      <3>1. /\ DOMAIN x = Fields /\ x.init = "Security" /\ x.q = <<>> /\ x.net = <<>>
            /\ x.turn = "security" /\ x.run = c.run /\ x.resume = c.resume /\ x.on = c.on
            /\ x.ws = c.ws /\ x.venc = c.venc /\ x.tight = c.tight /\ x.ra2 = c.ra2 /\ x.ard = c.ard
            /\ x.auth = c.auth
        BY <2>2, <2>4 DEF Same, Fields
      <3> HIDE DEF x
      <3>2. Shape(x)
        BY <1>1, <3>1 DEF Shape, Placed, Early, InitStates
      <3>3. Expect(x) = {"security"}
        BY <3>1 DEF Expect
      <3> QED BY <3>1, <3>2, <3>3, GoodSent, FineDone DEF Turns
    <2>8. Left(Done(Fail(t)))
      BY <2>1, FineFail DEF Same
    <2> QED BY <2>3, <2>6, <2>7, <2>8
  <1> QED BY <1>2, <1>3

\* A security type opens with a turn of the server.
LEMMA OpeningTurn == ASSUME NEW a, NEW v PROVE Opening(a, v) \in Turns
  BY DEF Opening, Turns

\* A security type that has just been chosen expects its first message.
LEMMA OpeningExpected ==
  ASSUME NEW x, x.init = "Authentication", x.ard = "none", x.ra2 = "none",
         x.auth = "Tight" => ~x.tight, x.auth = "VeNCrypt" => x.venc = 0
  PROVE Opening(x.auth, x.ver) \in Expect(x)
  <1>1. Expect(x) = ExpectAuth(x)
    BY DEF Expect
  <1>2. Opening(x.auth, x.ver) \in ExpectAuth(x)
    <2>1. CASE x.auth \in {"ARD", "Tight", "VeNCrypt", "RA2"}
      BY <2>1 DEF ExpectAuth, ExpectRa2, Opening
    <2>2. CASE x.auth \notin {"ARD", "Tight", "VeNCrypt", "RA2"}
      BY <2>2 DEF ExpectAuth
    <2> QED BY <2>1, <2>2
  <1> QED BY <1>1, <1>2

\* The security types: from 3.7 on the client chooses, before that the server has.
LEMMA SecurityFine ==
  ASSUME NEW c, Live(c), c.init = "Security" PROVE Left(NegotiateSecurity(c))
  <1> DEFINE t == Take(c)
             o == [c EXCEPT !.over = IF c.ver # "3.3" /\ ~c.frag THEN "count" ELSE @]
             e == [t EXCEPT !.init = "SecurityReason"]
             y == Send(t, Opening(Val(c), c.ver))
             b == IF c.ver # "3.3" THEN y ELSE t
             x == [b EXCEPT !.auth = Val(c), !.init = "Authentication"]
  <1>1. /\ Shape(c) /\ Stream(c) /\ c.conn = "connecting" /\ Placed(c) /\ DOMAIN c = Fields
        /\ c.auth = "" /\ c.ra2 = "none" /\ c.ard = "none" /\ c.venc = 0 /\ ~c.tight
    BY DEF Live, Good, Shape, Placed, Early
  <1>2. CASE ~Has(c)
    <2>1. NegotiateSecurity(c) = Done(o)
      BY <1>2 DEF NegotiateSecurity
    <2>2. Good(o) /\ o.q = <<>>
      <3>1. /\ DOMAIN o = Fields /\ o.init = "Security" /\ o.q = c.q /\ o.net = c.net
            /\ o.turn = c.turn /\ o.run = c.run /\ o.resume = c.resume /\ o.on = c.on
            /\ o.ws = c.ws /\ o.venc = c.venc /\ o.tight = c.tight /\ o.ra2 = c.ra2 /\ o.ard = c.ard
            /\ o.auth = c.auth /\ o.ver = c.ver
        BY <1>1 DEF Fields
      <3> HIDE DEF o
      <3>2. Expect(o) = Expect(c)
        BY <3>1 DEF Expect
      <3>3. Shape(o) /\ Stream(o)
        BY <1>1, <3>1, <3>2 DEF Shape, Placed, Stream
      <3> QED BY <1>2, <3>1, <3>3 DEF Good, Has
    <2> HIDE DEF o
    <2> QED BY <2>1, <2>2, FineDone
  <1>3. CASE Has(c)
    <2>1. Same(c, t) /\ t.q = Tail(c.q) /\ t.net = c.net /\ t.turn = c.turn
      BY ReadIs
    <2>2. Same(c, y) /\ y.q = Tail(c.q) /\ y.net = c.net /\ y.turn = Opening(Val(c), c.ver)
      BY <1>3, AnswerIs
    <2>3. c.run = "init"
      BY <1>3 DEF Live, Attended
    <2>4. \/ NegotiateSecurity(c) = More(e) /\ Val(c) = "empty"
          \/ NegotiateSecurity(c) = More(x) /\ Val(c) \in SchemeNames
          \/ NegotiateSecurity(c) = Done(Fail(t))
      BY <1>3 DEF NegotiateSecurity
    <2> HIDE DEF t, y
    <2>5. PICK w \in Turns :
            /\ Says("security", c.ver, Val(c), w) /\ Run(w, c.ver, Tail(c.q) \o c.net, c.turn)
            /\ w = "none" => Tail(c.q) = <<>> /\ c.net = <<>>
      <3>1. Expect(c) = {"security"}
        BY DEF Expect
      <3> QED BY <1>1, <1>3, <3>1, Taken
    <2>6. Tail(c.q) \in Seq(Messages)
      BY <1>1, <1>3, Taken
    <2>7. Val(c) = "empty" => Left(More(e))
      <3>1. SUFFICES ASSUME Val(c) = "empty" PROVE Good(e) /\ e.run = "init" /\ e.conn = "connecting"
        BY FineMore
      <3>2. /\ DOMAIN e = Fields /\ e.init = "SecurityReason" /\ e.q = Tail(c.q) /\ e.net = c.net
            /\ e.turn = c.turn /\ e.run = c.run /\ e.resume = c.resume /\ e.on = c.on
            /\ e.ws = c.ws /\ e.venc = c.venc /\ e.tight = c.tight /\ e.ra2 = c.ra2 /\ e.ard = c.ard
            /\ e.auth = c.auth /\ e.ver = c.ver /\ e.conn = c.conn
        BY <2>1 DEF Same, Fields
      <3> HIDE DEF e
      <3>3. c.ws = "open"
        BY <1>1, <1>3 DEF Shape
      <3>4. Shape(e)
        BY <1>1, <3>2, <3>3 DEF Shape, Placed, Early, InitStates
      <3>5. "empty" \notin SchemeNames /\ "empty" # "unknown"
        BY DEF SchemeNames
      <3>6. w = "reason"
        BY <2>5, <3>1, <3>5 DEF Says
      <3>7. "reason" \in Expect(e)
        BY <3>2 DEF Expect
      <3> QED BY <1>1, <2>3, <2>5, <2>6, <3>2, <3>4, <3>6, <3>7, GoodRead
    <2>8. Val(c) \in SchemeNames => Left(More(x))
      <3>1. SUFFICES ASSUME Val(c) \in SchemeNames PROVE Good(x) /\ x.run = "init" /\ x.conn = "connecting"
        BY FineMore
      <3>2. /\ Same(c, b) /\ b.q = Tail(c.q) /\ b.net = c.net
            /\ b.turn = IF c.ver # "3.3" THEN Opening(Val(c), c.ver) ELSE c.turn
        BY <2>1, <2>2
      <3> HIDE DEF b
      <3>3. /\ DOMAIN x = Fields /\ x.init = "Authentication" /\ x.q = Tail(c.q) /\ x.net = c.net
            /\ x.turn = b.turn /\ x.run = c.run /\ x.resume = c.resume /\ x.on = c.on
            /\ x.ws = c.ws /\ x.venc = 0 /\ x.tight = c.tight /\ x.ra2 = "none" /\ x.ard = "none"
            /\ x.auth = Val(c) /\ x.ver = c.ver /\ x.conn = c.conn
        BY <1>1, <3>2 DEF Same, Fields
      <3> HIDE DEF x
      <3>4. c.ws = "open"
        BY <1>1, <1>3 DEF Shape
      <3>5. Shape(x)
        <4>1. Placed(x) /\ x.init \notin Early /\ x.init \in InitStates
          BY <3>3 DEF Placed, Early, InitStates
        <4>2. x.venc = 0 /\ 0 \in 0 .. 3
          BY <3>3
        <4>3. ~x.tight
          BY <1>1, <3>3
        <4> QED BY <1>1, <3>3, <3>4, <4>1, <4>2, <4>3 DEF Shape
      <3>6. Opening(Val(c), c.ver) \in Expect(x)
        BY <1>1, <3>3, OpeningExpected
      <3>7. "empty" \notin SchemeNames
        BY DEF SchemeNames
      <3>8. CASE c.ver # "3.3"
        <4>1. w = "none"
          BY <2>5, <3>1, <3>7, <3>8 DEF Says
        <4>2. x.q = <<>> /\ x.net = <<>> /\ x.turn = Opening(Val(c), c.ver)
          BY <2>5, <3>2, <3>3, <3>8, <4>1
        <4>3. Good(x)
          BY <3>5, <3>6, <4>2, OpeningTurn, GoodSent
        <4> QED BY <1>1, <2>3, <3>3, <4>3
      <3>9. CASE c.ver = "3.3"
        <4>1. w = Opening(Val(c), "3.3")
          BY <2>5, <3>1, <3>7, <3>9 DEF Says
        <4>2. x.turn = c.turn
          BY <3>2, <3>3, <3>9
        <4>3. w \in Expect(x) /\ Run(w, c.ver, Tail(c.q) \o c.net, c.turn)
          BY <2>5, <3>6, <3>9, <4>1
        <4>4. Good(x)
          BY <1>1, <2>6, <3>3, <3>5, <4>2, <4>3, GoodRead
        <4> QED BY <1>1, <2>3, <3>3, <4>4
      <3> QED BY <3>8, <3>9
    <2>9. Left(Done(Fail(t)))
      BY <2>1, FineFail DEF Same
    <2> QED BY <2>4, <2>7, <2>8, <2>9
  <1> QED BY <1>2, <1>3

-----------------------------------------------------------------------------
(* The security types.                                                     *)

\* A call of the handshake for a security type with no exchange of its own.
Simply(c) == Live(c) /\ c.init = "Authentication" /\ c.ra2 = "none"

\* What a call for such a security type finds.
LEMMA SimplyIs ==
  ASSUME NEW c, Simply(c)
  PROVE /\ Shape(c) /\ Stream(c) /\ Good(c) /\ c.conn = "connecting" /\ c.ws = "open"
        /\ DOMAIN c = Fields /\ Expect(c) = ExpectAuth(c) /\ c.run \in {"init", "once"}
        /\ c.evs = <<>>
        /\ Has(c) /\ c.auth \notin Asked => c.run = "init"
        /\ c.auth # "ARD" => c.ard = "none"
        /\ c.auth \notin {"ARD", "Tight", "VeNCrypt", "RA2"} => Expect(c) = {Opening(c.auth, c.ver)}
  <1>1. /\ Shape(c) /\ Stream(c) /\ Good(c) /\ c.conn = "connecting" /\ c.init = "Authentication"
        /\ c.evs = <<>>
    BY DEF Simply, Live, Good, Begun
  <1>2. c.ws = "open" /\ DOMAIN c = Fields /\ (c.auth # "ARD" => c.ard = "none")
    BY <1>1 DEF Shape, Placed
  <1>3. Expect(c) = ExpectAuth(c)
    BY <1>1 DEF Expect
  <1>4. c.run \in {"init", "once"} /\ (Has(c) /\ c.auth \notin Asked => c.run = "init")
    BY DEF Simply, Live, Attended, Computing, Ra2Crypto
  <1>5. c.auth \notin {"ARD", "Tight", "VeNCrypt", "RA2"} => Expect(c) = {Opening(c.auth, c.ver)}
    BY <1>3 DEF ExpectAuth
  <1> QED BY <1>1, <1>2, <1>3, <1>4, <1>5

\* The type is done and its result awaited.
LEMMA ToResult ==
  ASSUME NEW c, Simply(c), NEW y, Same(c, y), y.q = <<>>, y.net = <<>>, y.turn = "result"
  PROVE Left(More([y EXCEPT !.init = "SecurityResult"]))
  <1> DEFINE z == [y EXCEPT !.init = "SecurityResult"]
  <1>1. Shape(c) /\ c.ra2 = "none" /\ c.conn = "connecting" /\ c.ws = "open"
    BY SimplyIs DEF Simply
  <1>2. /\ DOMAIN z = Fields /\ z.init = "SecurityResult" /\ z.q = <<>> /\ z.net = <<>>
        /\ z.turn = "result" /\ z.run = c.run /\ z.resume = c.resume /\ z.on = c.on
        /\ z.ws = c.ws /\ z.ra2 = c.ra2 /\ z.ard = c.ard /\ z.auth = c.auth /\ z.conn = c.conn
    BY DEF Same, Fields
  <1> HIDE DEF z
  <1>3. Shape(z)
    BY <1>1, <1>2 DEF Shape, Placed, Early, InitStates
  <1>4. "result" \in Expect(z)
    BY <1>2 DEF Expect
  <1>5. Good(z)
    BY <1>2, <1>3, <1>4, GoodSent DEF Turns
  <1>6. Left(More(z))
    BY <1>1, <1>2, <1>5, FineMore
  <1> QED BY <1>6 DEF z

\* Another type takes over.
LEMMA ToType ==
  ASSUME NEW c, Simply(c), NEW a, a # "VeNCrypt", a = "Tight" => ~c.tight, c.ard = "none", NEW x,
         DOMAIN x = Fields, x.init = "Authentication", x.auth = a, x.ver = c.ver, x.tight = c.tight,
         x.ard = c.ard, x.ra2 = c.ra2, x.ws = c.ws, x.on = c.on, x.resume = c.resume, x.run = c.run,
         x.q = <<>>, x.net = <<>>, x.turn = Opening(a, c.ver)
  PROVE Good(x)
  <1>1. Shape(c) /\ c.ra2 = "none" /\ c.ws = "open"
    BY SimplyIs DEF Simply
  <1>2. Shape(x)
    BY <1>1 DEF Shape, Placed, Early, InitStates
  <1>3. Opening(a, c.ver) \in Expect(x)
    BY <1>1, OpeningExpected
  <1> QED BY <1>2, <1>3, OpeningTurn, GoodSent

\* VNC: the challenge is all that is on its way, and waits for the password.
LEMMA StdVNCFine ==
  ASSUME NEW c, Simply(c), c.auth = "VNC" PROVE Left(NegotiateStdVNC(c))
  <1> DEFINE t == Take(c)
             y == Send(t, "result")
             z == [y EXCEPT !.init = "SecurityResult"]
  <1>0. Live(c) /\ c.init # ""
    BY DEF Simply
  <1>1. Good(c) /\ Stream(c) /\ Expect(c) = {"challenge"} /\ c.init = "Authentication"
    BY SimplyIs DEF Opening, Simply
  <1>2. CASE ~Has(c)
    BY <1>1, <1>2, FineDone DEF NegotiateStdVNC, Has
  <1>3. CASE Has(c)
    <2>1. NegotiateStdVNC(c) \in {AskCredentials(c), More(z)}
      BY <1>3 DEF NegotiateStdVNC
    <2>2. Left(AskCredentials(c))
      BY <1>1, SimplyIs, FineAsk DEF Asked
    <2>3. Same(c, y) /\ y.q = Tail(c.q) /\ y.net = c.net /\ y.turn = "result"
      BY <1>0, <1>3, AnswerIs
    <2>4. Tail(c.q) = <<>> /\ c.net = <<>>
      BY <1>1, <1>3, Taken DEF Says
    <2> HIDE DEF y
    <2>5. Left(More(z))
      BY <2>3, <2>4, ToResult
    <2> HIDE DEF z
    <2> QED BY <2>1, <2>2, <2>5
  <1> QED BY <1>2, <1>3

\* MSLogonII: the parameters wait for the name and the password.
LEMMA MSLogonFine ==
  ASSUME NEW c, Simply(c), c.auth = "MSLogon" PROVE Left(NegotiateMSLogon(c))
  <1> DEFINE t == Take(c)
             y == Send(t, "result")
             z == [y EXCEPT !.init = "SecurityResult"]
  <1>0. Live(c) /\ c.init # ""
    BY DEF Simply
  <1>1. Good(c) /\ Stream(c) /\ Expect(c) = {"dhparam"} /\ c.init = "Authentication"
    BY SimplyIs DEF Opening, Simply
  <1>2. CASE ~Has(c)
    BY <1>1, <1>2, FineDone DEF NegotiateMSLogon, Has
  <1>3. CASE Has(c)
    <2>1. NegotiateMSLogon(c) \in {AskCredentials(c), More(z)}
      BY <1>3 DEF NegotiateMSLogon
    <2>2. Left(AskCredentials(c))
      BY <1>1, SimplyIs, FineAsk DEF Asked
    <2>3. Same(c, y) /\ y.q = Tail(c.q) /\ y.net = c.net /\ y.turn = "result"
      BY <1>0, <1>3, AnswerIs
    <2>4. Tail(c.q) = <<>> /\ c.net = <<>>
      BY <1>1, <1>3, Taken DEF Says
    <2> HIDE DEF y
    <2>5. Left(More(z))
      BY <2>3, <2>4, ToResult
    <2> HIDE DEF z
    <2> QED BY <2>1, <2>2, <2>5
  <1> QED BY <1>2, <1>3

\* A type in which the client speaks first.
LEMMA SilentIs ==
  ASSUME NEW c, Simply(c), c.auth \in {"XVP", "Plain", "Unix"}
  PROVE c.q = <<>> /\ c.net = <<>>
  <1>1. Stream(c) /\ Expect(c) = {"none"}
    BY SimplyIs DEF Opening
  <1> QED BY <1>1, Quieted

\* _negotiatePlainAuth and _negotiateTightUnixAuth: the credentials are sent, or asked for.
LEMMA PlainFine ==
  ASSUME NEW c, Simply(c), c.auth \in {"Plain", "Unix"} PROVE Left(NegotiatePlain(c))
  <1> DEFINE y == Send(c, "result")
             z == [y EXCEPT !.init = "SecurityResult"]
  <1>0. Live(c) /\ c.init # ""
    BY DEF Simply
  <1>1. NegotiatePlain(c) \in {AskCredentials(c), More(z)}
    BY DEF NegotiatePlain
  <1>2. c.q = <<>> /\ c.net = <<>>
    BY SilentIs
  <1>3. Left(AskCredentials(c))
    BY <1>2, SimplyIs, FineAsk
  <1>4. Same(c, y) /\ y.q = c.q /\ y.net = c.net /\ y.turn = "result"
    BY <1>0, SpeakIs
  <1> HIDE DEF y
  <1>5. Left(More(z))
    BY <1>2, <1>4, ToResult
  <1> HIDE DEF z
  <1> QED BY <1>1, <1>3, <1>5

\* _negotiateXvpAuth goes on as the VNC challenge.
LEMMA XvpFine ==
  ASSUME NEW c, Simply(c), c.auth = "XVP" PROVE Left(NegotiateXvp(c))
  <1> DEFINE y == Send(c, "challenge")
             z == [y EXCEPT !.auth = "VNC"]
  <1>0. Live(c) /\ c.init # ""
    BY DEF Simply
  <1>1. NegotiateXvp(c) \in {NegotiateStdVNC(z), AskCredentials(c)}
    BY DEF NegotiateXvp
  <1>2. c.q = <<>> /\ c.net = <<>>
    BY SilentIs
  <1>3. Left(AskCredentials(c))
    BY <1>2, SimplyIs, FineAsk
  <1>4. Same(c, y) /\ y.q = c.q /\ y.net = c.net /\ y.turn = "challenge"
    BY <1>0, SpeakIs
  <1> HIDE DEF y
  <1>5. /\ DOMAIN z = Fields /\ z.init = "Authentication" /\ z.auth = "VNC" /\ z.ver = c.ver
        /\ z.tight = c.tight /\ z.ard = c.ard /\ z.ra2 = c.ra2 /\ z.ws = c.ws /\ z.on = c.on
        /\ z.resume = c.resume /\ z.run = c.run /\ z.q = <<>> /\ z.net = <<>> /\ z.turn = "challenge"
    BY <1>2, <1>4 DEF Same, Fields, Simply
  <1> HIDE DEF z
  <1>6. c.ard = "none" /\ Opening("VNC", c.ver) = "challenge"
    BY SimplyIs DEF Opening
  <1>7. Good(z)
    BY <1>5, <1>6, ToType
  <1>8. NegotiateStdVNC(z) = Done(z)
    BY <1>5 DEF NegotiateStdVNC, Has
  <1> QED BY <1>1, <1>3, <1>5, <1>7, <1>8, FineDone

\* VeNCrypt: four states, each with its message.
LEMMA VeNCryptFine ==
  ASSUME NEW c, Simply(c), c.auth = "VeNCrypt" PROVE Left(NegotiateVeNCrypt(c))
  <1> DEFINE t == Take(c)
             y == Send(t, "vack")
             z == [y EXCEPT !.venc = 1]
             w == [t EXCEPT !.venc = @ + 1]
             b == Send(t, Opening(Val(c), c.ver))
             x == [b EXCEPT !.auth = Val(c), !.venc = 4]
  <1>0. Live(c) /\ c.init = "Authentication" /\ c.ra2 = "none" /\ c.ard = "none"
    BY SimplyIs DEF Simply
  <1>1. /\ Shape(c) /\ Stream(c) /\ Good(c) /\ c.conn = "connecting" /\ c.ws = "open"
        /\ DOMAIN c = Fields /\ c.venc \in 0 .. 3 /\ ~c.tight
    BY SimplyIs DEF Shape, Simply
  <1>2. CASE ~Has(c)
    BY <1>1, <1>2, FineDone DEF NegotiateVeNCrypt, Has
  <1>3. CASE Has(c)
    <2>1. Same(c, t) /\ t.q = Tail(c.q) /\ t.net = c.net /\ t.turn = c.turn
      BY <1>0, ReadIs
    <2>2. Same(c, y) /\ y.q = Tail(c.q) /\ y.net = c.net /\ y.turn = "vack"
      BY <1>0, <1>3, AnswerIs
    <2>3. Same(c, b) /\ b.q = Tail(c.q) /\ b.net = c.net /\ b.turn = Opening(Val(c), c.ver)
      BY <1>0, <1>3, AnswerIs
    <2>4. c.run = "init"
      BY <1>3, SimplyIs DEF Asked
    <2>5. \/ NegotiateVeNCrypt(c) = Done(Fail(t))
          \/ NegotiateVeNCrypt(c) = z /\ c.venc = 0
          \/ NegotiateVeNCrypt(c) = w /\ c.venc \in {1, 2}
          \/ NegotiateVeNCrypt(c) = More(x) /\ c.venc = 3 /\ Val(c) # "bad"
      BY <1>1, <1>3 DEF NegotiateVeNCrypt
    <2>6. Tail(c.q) \in Seq(Messages)
      BY <1>1, <1>3, Taken
    <2>7. \E v \in Expect(c), n \in Turns :
            /\ Says(v, c.ver, Val(c), n) /\ Run(n, c.ver, Tail(c.q) \o c.net, c.turn)
            /\ n = "none" => Tail(c.q) = <<>> /\ c.net = <<>>
      BY <1>1, <1>3, Taken
    <2>8. Expect(c) = ExpectAuth(c)
      BY SimplyIs
    <2> HIDE DEF t, y, b
    <2>9. Left(Done(Fail(t)))
      BY <2>1, FineFail DEF Same
    <2>10. c.venc = 0 => Left(z)
      <3>1. SUFFICES ASSUME c.venc = 0 PROVE Good(z) /\ z.run = "init"
        BY FineKept
      <3>2. Expect(c) = {"vversion"}
        BY <2>8, <3>1 DEF ExpectAuth
      <3>3. Tail(c.q) = <<>> /\ c.net = <<>>
        BY <2>7, <3>2 DEF Says
      <3>4. /\ DOMAIN z = Fields /\ z.init = c.init /\ z.auth = c.auth /\ z.q = <<>> /\ z.net = <<>>
            /\ z.turn = "vack" /\ z.run = c.run /\ z.resume = c.resume /\ z.on = c.on
            /\ z.ws = c.ws /\ z.ra2 = c.ra2 /\ z.ard = c.ard /\ z.tight = c.tight /\ z.venc = 1
        BY <2>2, <3>3 DEF Same, Fields
      <3> HIDE DEF z
      <3>5. Shape(z)
        BY <1>0, <1>1, <3>4 DEF Shape, Placed, Early
      <3>6. "vack" \in Expect(z)
        BY <1>0, <3>4 DEF Expect, ExpectAuth
      <3> QED BY <2>4, <3>4, <3>5, <3>6, GoodSent DEF Turns
    <2>11. c.venc \in {1, 2} => Left(w)
      <3>1. SUFFICES ASSUME c.venc \in {1, 2} PROVE Good(w) /\ w.run = "init"
        BY FineKept
      <3>4. /\ DOMAIN w = Fields /\ w.init = c.init /\ w.auth = c.auth /\ w.q = Tail(c.q) /\ w.net = c.net
            /\ w.turn = c.turn /\ w.run = c.run /\ w.resume = c.resume /\ w.on = c.on /\ w.ver = c.ver
            /\ w.ws = c.ws /\ w.ra2 = c.ra2 /\ w.ard = c.ard /\ w.tight = c.tight
            /\ w.venc = c.venc + 1
        BY <2>1 DEF Same, Fields
      <3> HIDE DEF w
      <3>5. Shape(w)
        <4>1. w.venc \in 0 .. 3
          BY <3>1, <3>4
        <4> QED BY <1>0, <1>1, <3>4, <4>1 DEF Shape, Placed, Early
      <3>6. CASE c.venc = 1
        <4>1. Expect(c) = {"vack"} /\ Expect(w) = {"vlength"}
          <5>1. w.venc = 2
            BY <3>4, <3>6
          <5> QED BY <1>0, <2>8, <3>4, <3>6, <5>1 DEF Expect, ExpectAuth
        <4>2. Run("vlength", c.ver, Tail(c.q) \o c.net, c.turn)
          BY <2>7, <4>1 DEF Says
        <4>3. Good(w)
          BY <1>1, <2>6, <3>4, <3>5, <4>1, <4>2, GoodRead
        <4> QED BY <2>4, <3>4, <4>3
      <3>7. CASE c.venc = 2
        <4>1. Expect(c) = {"vlength"} /\ Expect(w) = {"vsubs"}
          <5>1. w.venc = 3
            BY <3>4, <3>7
          <5> QED BY <1>0, <2>8, <3>4, <3>7, <5>1 DEF Expect, ExpectAuth
        <4>2. Run("vsubs", c.ver, Tail(c.q) \o c.net, c.turn)
          BY <2>7, <4>1 DEF Says
        <4>3. Good(w)
          BY <1>1, <2>6, <3>4, <3>5, <4>1, <4>2, GoodRead
        <4> QED BY <2>4, <3>4, <4>3
      <3> QED BY <3>1, <3>6, <3>7
    <2>12. c.venc = 3 /\ Val(c) # "bad" => Left(More(x))
      <3>1. SUFFICES ASSUME c.venc = 3, Val(c) # "bad"
                     PROVE Good(x) /\ x.run = "init" /\ x.conn = "connecting"
        BY FineMore
      <3>2. Expect(c) = {"vsubs"}
        BY <2>8, <3>1 DEF ExpectAuth
      <3>3. Val(c) # "VeNCrypt" /\ Tail(c.q) = <<>> /\ c.net = <<>>
        BY <2>7, <3>1, <3>2 DEF Says
      <3>4. /\ DOMAIN x = Fields /\ x.init = c.init /\ x.auth = Val(c) /\ x.ver = c.ver
            /\ x.tight = c.tight /\ x.ard = c.ard /\ x.ra2 = c.ra2 /\ x.ws = c.ws /\ x.on = c.on
            /\ x.resume = c.resume /\ x.run = c.run /\ x.q = <<>> /\ x.net = <<>>
            /\ x.turn = Opening(Val(c), c.ver) /\ x.conn = c.conn
        BY <2>3, <3>3 DEF Same, Fields
      <3> HIDE DEF x
      <3>5. Good(x)
        BY <1>0, <1>1, <3>3, <3>4, ToType
      <3> QED BY <1>1, <2>4, <3>4, <3>5
    <2> HIDE DEF z, w, x
    <2> QED BY <2>5, <2>9, <2>10, <2>11, <2>12
  <1> QED BY <1>2, <1>3

\* Apple's: one message, then a promise, then the answer.
LEMMA ARDFine ==
  ASSUME NEW c, Simply(c), c.auth = "ARD" PROVE Left(NegotiateARD(c))
  <1> DEFINE y == Send(c, "result")
             z == [y EXCEPT !.ard = "spent", !.init = "SecurityResult"]
             t == Take(c)
             w == [t EXCEPT !.ard = "busy"]
  <1>0. Live(c) /\ c.init = "Authentication" /\ c.init # "" /\ c.ra2 = "none"
    BY DEF Simply
  <1>1. /\ Shape(c) /\ Stream(c) /\ Good(c) /\ c.conn = "connecting" /\ c.ws = "open"
        /\ DOMAIN c = Fields
    BY SimplyIs
  <1>2. Expect(c) = {"none"} \union IF c.ard = "none" THEN {"ardkey"} ELSE {}
    BY SimplyIs DEF ExpectAuth
  <1>3. \/ NegotiateARD(c) = AskCredentials(c)
        \/ NegotiateARD(c) = More(z) /\ c.ard = "ready"
        \/ NegotiateARD(c) = Done(w) /\ Has(c)
        \/ NegotiateARD(c) = Done(c) /\ ~Has(c)
    BY DEF NegotiateARD
  <1>4. Left(AskCredentials(c))
    BY <1>0, <1>1, SimplyIs, FineAsk DEF Asked
  <1>5. c.ard = "ready" => Left(More(z))
    <2>1. SUFFICES ASSUME c.ard = "ready" PROVE Left(More(z))
      OBVIOUS
    <2>2. c.q = <<>> /\ c.net = <<>>
      <3>1. Expect(c) = {"none"}
        BY <1>2, <2>1
      <3> QED BY <1>1, <3>1, Quieted
    <2>3. Same(c, y) /\ y.q = c.q /\ y.net = c.net /\ y.turn = "result"
      BY <1>0, SpeakIs
    <2> HIDE DEF y
    <2>4. /\ DOMAIN z = Fields /\ z.init = "SecurityResult" /\ z.q = <<>> /\ z.net = <<>>
          /\ z.turn = "result" /\ z.run = c.run /\ z.resume = c.resume /\ z.on = c.on
          /\ z.ws = c.ws /\ z.ra2 = c.ra2 /\ z.ard = "spent" /\ z.auth = c.auth /\ z.conn = c.conn
      BY <2>2, <2>3 DEF Same, Fields
    <2> HIDE DEF z
    <2>5. Shape(z)
      BY <1>0, <1>1, <2>4 DEF Shape, Placed, Early, InitStates
    <2>6. "result" \in Expect(z)
      BY <2>4 DEF Expect
    <2>7. Good(z)
      BY <2>4, <2>5, <2>6, GoodSent DEF Turns
    <2> QED BY <1>1, <2>4, <2>7, FineMore
  <1>6. Has(c) => Left(Done(w))
    <2>1. SUFFICES ASSUME Has(c) PROVE Good(w) /\ w.q = <<>>
      BY FineDone
    <2>2. Same(c, t) /\ t.q = Tail(c.q) /\ t.net = c.net /\ t.turn = c.turn
      BY <1>0, ReadIs
    <2>3. \E v \in Expect(c), n \in Turns :
            /\ Says(v, c.ver, Val(c), n) /\ Run(n, c.ver, Tail(c.q) \o c.net, c.turn)
            /\ n = "none" => Tail(c.q) = <<>> /\ c.net = <<>>
      BY <1>1, <2>1, Taken
    <2>4. Run("none", c.ver, Tail(c.q) \o c.net, c.turn) /\ Tail(c.q) = <<>> /\ c.net = <<>>
      <3>1. \A v \in Expect(c) : v \in {"none", "ardkey"}
        BY <1>2
      <3> QED BY <2>3, <3>1 DEF Says
    <2> HIDE DEF t
    <2>5. /\ DOMAIN w = Fields /\ w.init = c.init /\ w.auth = c.auth /\ w.q = Tail(c.q) /\ w.net = c.net
          /\ w.turn = c.turn /\ w.run = c.run /\ w.resume = c.resume /\ w.on = c.on /\ w.ver = c.ver
          /\ w.ws = c.ws /\ w.ra2 = c.ra2 /\ w.ard = "busy"
      BY <2>2 DEF Same, Fields
    <2> HIDE DEF w
    <2>6. Shape(w)
      BY <1>0, <1>1, <2>5 DEF Shape, Placed, Early
    <2>7. Expect(w) = {"none"}
      BY <1>0, <2>5 DEF Expect, ExpectAuth
    <2>8. w.q \in Seq(Messages)
      BY <1>1, <2>1, <2>5, Taken
    <2>9. Good(w)
      BY <1>1, <2>4, <2>5, <2>6, <2>7, <2>8, GoodRead
    <2> QED BY <2>4, <2>5, <2>9
  <1>7. ~Has(c) => Left(Done(c))
    BY <1>1, FineDone DEF Has
  <1> HIDE DEF z, w
  <1> QED BY <1>3, <1>4, <1>5, <1>6, <1>7

\* Tight: the tunnels, then the type.
LEMMA TightFine ==
  ASSUME NEW c, Simply(c), c.auth = "Tight" PROVE Left(NegotiateTight(c))
  <1> DEFINE t == Take(c)
             h == [t EXCEPT !.tight = TRUE]
             a == Send(t, "subauth")
             x == [a EXCEPT !.tight = TRUE]
             i == [t EXCEPT !.init = "SecurityResult"]
             b == Send(t, "result")
             y == [b EXCEPT !.init = "SecurityResult"]
             d == Send(t, Opening(Val(c), c.ver))
             z == [d EXCEPT !.auth = Val(c)]
  <1>0. Live(c) /\ c.init = "Authentication" /\ c.init # "" /\ c.ra2 = "none" /\ c.ard = "none"
    BY SimplyIs DEF Simply
  <1>1. /\ Shape(c) /\ Stream(c) /\ Good(c) /\ c.conn = "connecting" /\ c.ws = "open"
        /\ DOMAIN c = Fields
    BY SimplyIs
  <1>2. CASE ~Has(c)
    BY <1>1, <1>2, FineDone DEF NegotiateTight, Has
  <1>3. CASE Has(c)
    <2>1. Same(c, t) /\ t.q = Tail(c.q) /\ t.net = c.net /\ t.turn = c.turn
      BY <1>0, ReadIs
    <2>2. Same(c, a) /\ a.q = Tail(c.q) /\ a.net = c.net /\ a.turn = "subauth"
      BY <1>0, <1>3, AnswerIs
    <2>3. Same(c, b) /\ b.q = Tail(c.q) /\ b.net = c.net /\ b.turn = "result"
      BY <1>0, <1>3, AnswerIs
    <2>4. Same(c, d) /\ d.q = Tail(c.q) /\ d.net = c.net /\ d.turn = Opening(Val(c), c.ver)
      BY <1>0, <1>3, AnswerIs
    <2>5. c.run = "init"
      BY <1>3, SimplyIs DEF Asked
    <2>6. \/ NegotiateTight(c) = h /\ ~c.tight /\ Val(c) = "zero"
          \/ NegotiateTight(c) = Done(x) /\ ~c.tight /\ Val(c) = "notunnel"
          \/ NegotiateTight(c) \in {Done(Fail(h)), Done(Fail(t))}
          \/ NegotiateTight(c) = More(i) /\ c.tight /\ Val(c) = "zero"
          \/ NegotiateTight(c) = More(y) /\ c.tight /\ Val(c) = "noauth"
          \/ NegotiateTight(c) = More(z) /\ c.tight /\ Val(c) \in {"VNC", "Unix"}
      BY <1>3 DEF NegotiateTight
    <2>7. Tail(c.q) \in Seq(Messages)
      BY <1>1, <1>3, Taken
    <2>8. PICK v \in Expect(c), n \in Turns :
            /\ Says(v, c.ver, Val(c), n) /\ Run(n, c.ver, Tail(c.q) \o c.net, c.turn)
            /\ n = "none" => Tail(c.q) = <<>> /\ c.net = <<>>
      BY <1>1, <1>3, Taken
    <2>9. v = IF c.tight THEN "subauth" ELSE "tunnels"
      BY SimplyIs DEF ExpectAuth
    <2> HIDE DEF t, a, b, d
    <2>10. /\ DOMAIN h = Fields /\ h.init = c.init /\ h.auth = c.auth /\ h.q = Tail(c.q)
           /\ h.net = c.net /\ h.turn = c.turn /\ h.run = c.run /\ h.resume = c.resume
           /\ h.on = c.on /\ h.ver = c.ver /\ h.ws = c.ws /\ h.ra2 = c.ra2 /\ h.ard = c.ard /\ h.tight
      BY <2>1 DEF Same, Fields
    <2>11. Left(Done(Fail(h))) /\ Left(Done(Fail(t)))
      BY <2>1, <2>10, FineFail DEF Same
    <2>12. ~c.tight /\ Val(c) = "zero" => Left(h)
      <3> HIDE DEF h
      <3>1. SUFFICES ASSUME ~c.tight, Val(c) = "zero" PROVE Good(h) /\ h.run = "init"
        BY FineKept
      <3>2. n = "subauth"
        BY <2>8, <2>9, <3>1 DEF Says
      <3>3. Shape(h)
        BY <1>0, <1>1, <2>10 DEF Shape, Placed, Early
      <3>4. "subauth" \in Expect(h)
        BY <1>0, <2>10 DEF Expect, ExpectAuth
      <3>5. Good(h)
        BY <1>1, <2>7, <2>8, <2>10, <3>2, <3>3, <3>4, GoodRead
      <3> QED BY <2>5, <2>10, <3>5
    <2>13. ~c.tight /\ Val(c) = "notunnel" => Left(Done(x))
      <3>1. SUFFICES ASSUME ~c.tight, Val(c) = "notunnel" PROVE Good(x) /\ x.q = <<>>
        BY FineDone
      <3>2. Tail(c.q) = <<>> /\ c.net = <<>>
        BY <2>8, <2>9, <3>1 DEF Says
      <3>3. /\ DOMAIN x = Fields /\ x.init = c.init /\ x.auth = c.auth /\ x.q = <<>>
            /\ x.net = <<>> /\ x.turn = "subauth" /\ x.run = c.run /\ x.resume = c.resume
            /\ x.on = c.on /\ x.ver = c.ver /\ x.ws = c.ws /\ x.ra2 = c.ra2 /\ x.ard = c.ard /\ x.tight
        BY <2>2, <3>2 DEF Same, Fields
      <3> HIDE DEF x
      <3>4. Shape(x)
        BY <1>0, <1>1, <3>3 DEF Shape, Placed, Early
      <3>5. "subauth" \in Expect(x)
        BY <1>0, <3>3 DEF Expect, ExpectAuth
      <3> QED BY <3>3, <3>4, <3>5, GoodSent DEF Turns
    <2>14. c.tight /\ Val(c) = "zero" => Left(More(i))
      <3>1. SUFFICES ASSUME c.tight, Val(c) = "zero"
                     PROVE Good(i) /\ i.run = "init" /\ i.conn = "connecting"
        BY FineMore
      <3>2. n = "result"
        BY <2>8, <2>9, <3>1 DEF Says
      <3>3. /\ DOMAIN i = Fields /\ i.init = "SecurityResult" /\ i.auth = c.auth /\ i.q = Tail(c.q)
            /\ i.net = c.net /\ i.turn = c.turn /\ i.run = c.run /\ i.resume = c.resume
            /\ i.on = c.on /\ i.ver = c.ver /\ i.ws = c.ws /\ i.ra2 = c.ra2 /\ i.ard = c.ard
            /\ i.conn = c.conn
        BY <2>1 DEF Same, Fields
      <3> HIDE DEF i
      <3>4. Shape(i)
        BY <1>0, <1>1, <3>3 DEF Shape, Placed, Early, InitStates
      <3>5. "result" \in Expect(i)
        BY <3>3 DEF Expect
      <3>6. Good(i)
        BY <1>1, <2>7, <2>8, <3>2, <3>3, <3>4, <3>5, GoodRead
      <3> QED BY <1>1, <2>5, <3>3, <3>6
    <2>15. c.tight /\ Val(c) = "noauth" => Left(More(y))
      <3>1. SUFFICES ASSUME c.tight, Val(c) = "noauth" PROVE Left(More(y))
        OBVIOUS
      <3>2. Tail(c.q) = <<>> /\ c.net = <<>>
        BY <2>8, <2>9, <3>1 DEF Says
      <3> QED BY <2>3, <3>2, ToResult
    <2>16. c.tight /\ Val(c) \in {"VNC", "Unix"} => Left(More(z))
      <3>1. SUFFICES ASSUME c.tight, Val(c) \in {"VNC", "Unix"}
                     PROVE Good(z) /\ z.run = "init" /\ z.conn = "connecting"
        BY FineMore
      <3>2. Tail(c.q) = <<>> /\ c.net = <<>>
        BY <2>8, <2>9, <3>1 DEF Says
      <3>3. /\ DOMAIN z = Fields /\ z.init = c.init /\ z.auth = Val(c) /\ z.ver = c.ver
            /\ z.tight = c.tight /\ z.ard = c.ard /\ z.ra2 = c.ra2 /\ z.ws = c.ws /\ z.on = c.on
            /\ z.resume = c.resume /\ z.run = c.run /\ z.q = <<>> /\ z.net = <<>>
            /\ z.turn = Opening(Val(c), c.ver) /\ z.conn = c.conn
        BY <2>4, <3>2 DEF Same, Fields
      <3> HIDE DEF z
      <3>4. Val(c) # "VeNCrypt" /\ Val(c) # "Tight"
        BY <3>1
      <3>5. Good(z)
        BY <1>0, <3>3, <3>4, ToType
      <3> QED BY <1>1, <2>5, <3>3, <3>5
    <2> HIDE DEF h, x, i, y, z
    <2> QED BY <2>6, <2>11, <2>12, <2>13, <2>14, <2>15, <2>16
  <1> QED BY <1>2, <1>3

-----------------------------------------------------------------------------
(* RA2.                                                                    *)

\* What is there and not read waits for a promise.
Busy(d) ==
    d.conn = "connecting" =>
        Good(d) /\ (Has(d) => d.init = "Authentication" /\ Computing(d))

\* A promise that is pending looks at what is there.
LEMMA BusyLeft == ASSUME NEW d, Busy(d), DOMAIN d = Fields PROVE Left(Done(d)) /\ \A a : Fine(d, a)
  <1>1. Done(d).conn = d.conn /\ Done(d).q = d.q /\ Done(d).init = d.init /\ Done(d).auth = d.auth
        /\ Done(d).ra2 = d.ra2
    BY DEF Done, Fields
  <1>2. d.conn = "connecting" => Good(Done(d))
    BY GoodDone DEF Busy
  <1>3. Left(Done(d))
    BY <1>1, <1>2 DEF Busy, Left, Fine, Attended, Has, Computing
  <1>4. \A a : Fine(d, a)
    BY DEF Busy, Fine, Attended
  <1> QED BY <1>3, <1>4

\* The RA2 exchange fails.
LEMMA BusyThrow == ASSUME NEW x, DOMAIN x = Fields PROVE Busy(Ra2Throw(x)) /\ DOMAIN Ra2Throw(x) = Fields
  <1> DEFINE f == Fail(x)
  <1>1. f.conn # "connecting" /\ DOMAIN f = Fields
    BY FailCore
  <1> HIDE DEF f
  <1>2. Ra2End(f).conn = f.conn /\ DOMAIN Ra2End(f) = Fields
    BY <1>1 DEF Ra2End, Fields
  <1> QED BY <1>1, <1>2 DEF Busy, Ra2Throw, f

\* In the exchange, with ra2 to be w.
LEMMA WaitBusy ==
  ASSUME NEW x, Shape(x), x.init = "Authentication", x.auth = "RA2", NEW w \in Ra2Waits,
         NEW v, v = [x EXCEPT !.ra2 = w], Stream(v), x.ws = "open"
  PROVE Busy(Ra2Wait(x, w)) /\ DOMAIN Ra2Wait(x, w) = Fields
  <1> DEFINE t == Take(x)
             n == IF w = "subtype" THEN Needs(Val(x)) ELSE t.needs
             y == [t EXCEPT !.ra2 = Ra2Next(w), !.needs = n]
             z == [x EXCEPT !.ra2 = "cryptRandom", !.over = "random"]
  <1>1. DOMAIN x = Fields
    BY DEF Shape
  <1>2. /\ DOMAIN v = Fields /\ v.ra2 = w /\ v.init = x.init /\ v.auth = x.auth /\ v.q = x.q
        /\ v.net = x.net /\ v.turn = x.turn /\ v.ver = x.ver /\ v.ws = x.ws /\ v.on = x.on
        /\ v.run = x.run /\ v.resume = x.resume /\ v.ard = x.ard
    BY <1>1 DEF Fields
  <1>3. Shape(v)
    BY <1>2 DEF Shape, Placed, Early
  <1>4. Expect(v) = CASE w = "key" -> {"ra2key"} [] w = "random" -> {"ra2random"}
                      [] w = "hash" -> {"ra2hash"} [] w = "subtype" -> {"ra2sub"}
    BY <1>2 DEF Expect, ExpectAuth, ExpectRa2, Ra2Waits
  <1>5. \/ Ra2Wait(x, w) = Ra2Throw(t)
        \/ Ra2Wait(x, w) = y /\ Has(x)
        \/ Ra2Wait(x, w) = z /\ ~Has(x) /\ w = "random"
        \/ Ra2Wait(x, w) = v /\ ~Has(x)
    BY DEF Ra2Wait
  <1>6. Same(x, t) /\ t.q = Tail(x.q) /\ t.net = x.net /\ t.turn = x.turn
    BY <1>1, TakeIs
  <1> HIDE DEF t
  <1>7. Busy(Ra2Throw(t)) /\ DOMAIN Ra2Throw(t) = Fields
    BY <1>6, BusyThrow DEF Same
  <1>8. Has(x) => Busy(y) /\ DOMAIN y = Fields
    <2>1. SUFFICES ASSUME Has(x) PROVE Busy(y) /\ DOMAIN y = Fields
      OBVIOUS
    <2>2. /\ DOMAIN y = Fields /\ y.ra2 = Ra2Next(w) /\ y.init = x.init /\ y.auth = x.auth
          /\ y.q = Tail(x.q) /\ y.net = x.net /\ y.turn = x.turn /\ y.ver = x.ver /\ y.ws = x.ws
          /\ y.on = x.on /\ y.run = x.run /\ y.resume = x.resume /\ y.ard = x.ard
      BY <1>6 DEF Same, Fields
    <2> HIDE DEF y
    <2>3. Has(v) /\ Val(v) = Val(x)
      BY <1>2, <2>1 DEF Has, Val
    <2>4. PICK m \in Expect(v), p \in Turns :
            Says(m, x.ver, Val(x), p) /\ Run(p, x.ver, Tail(x.q) \o x.net, x.turn)
      BY <1>2, <2>3, Taken
    <2>5. Tail(x.q) \in Seq(Messages)
      BY <1>2, <2>3, Taken
    <2>6. p \in Expect(y)
      <3>1. Expect(y) = ExpectRa2(y)
        BY <2>2 DEF Expect, ExpectAuth
      <3>2. CASE w = "key"
        BY <1>4, <2>2, <2>4, <3>1, <3>2 DEF Says, ExpectRa2, Ra2Next
      <3>3. CASE w = "random"
        BY <1>4, <2>2, <2>4, <3>1, <3>3 DEF Says, ExpectRa2, Ra2Next
      <3>4. CASE w = "hash"
        BY <1>4, <2>2, <2>4, <3>1, <3>4 DEF Says, ExpectRa2, Ra2Next
      <3>5. CASE w = "subtype"
        BY <1>4, <2>2, <2>4, <3>1, <3>5 DEF Says, ExpectRa2, Ra2Next
      <3> QED BY <3>2, <3>3, <3>4, <3>5 DEF Ra2Waits
    <2>7. Shape(y)
      BY <2>2 DEF Shape, Placed, Early
    <2>8. y.q \in Seq(Messages) /\ y.net \in Seq(Messages) /\ y.turn \in Turns
      BY <1>2, <2>2, <2>5 DEF Stream
    <2>9. Run(p, y.ver, y.q \o y.net, y.turn)
      BY <2>2, <2>4
    <2>10. Good(y)
      BY <2>6, <2>7, <2>8, <2>9 DEF Good, Stream
    <2>11. Computing(y)
      BY <2>2 DEF Computing, Ra2Crypto, Ra2Next, Ra2Waits
    <2> QED BY <2>2, <2>10, <2>11 DEF Busy
  <1>9. ~Has(x) /\ w = "random" => Busy(z) /\ DOMAIN z = Fields
    <2>1. SUFFICES ASSUME ~Has(x), w = "random" PROVE Busy(z) /\ DOMAIN z = Fields
      OBVIOUS
    <2>2. /\ DOMAIN z = Fields /\ z.ra2 = "cryptRandom" /\ z.init = x.init /\ z.auth = x.auth
          /\ z.q = x.q /\ z.net = x.net /\ z.turn = x.turn /\ z.ver = x.ver /\ z.ws = x.ws
          /\ z.on = x.on /\ z.run = x.run /\ z.resume = x.resume /\ z.ard = x.ard /\ z.over = "random"
      BY <1>1 DEF Fields
    <2> HIDE DEF z
    <2>3. Shape(z)
      BY <2>2 DEF Shape, Placed, Early
    <2>4. "ra2random" \in Expect(z)
      BY <2>2 DEF Expect, ExpectAuth, ExpectRa2
    <2>5. Run("ra2random", x.ver, x.q \o x.net, x.turn)
      BY <1>2, <1>4, <2>1 DEF Stream
    <2>6. Good(z)
      BY <1>2, <2>2, <2>3, <2>4, <2>5 DEF Good, Stream
    <2> QED BY <2>1, <2>2, <2>6 DEF Busy, Has
  <1>10. ~Has(x) => Busy(v) /\ DOMAIN v = Fields
    BY <1>2, <1>3 DEF Busy, Has, Good
  <1> HIDE DEF y, z
  <1> QED BY <1>5, <1>7, <1>8, <1>9, <1>10

\* A call of the handshake looks at the waits of the exchange again.
LEMMA RA2Fine ==
  ASSUME NEW c, Live(c), c.init = "Authentication", c.auth = "RA2" PROVE Left(NegotiateRA2(c))
  <1> DEFINE k == [c EXCEPT !.ra2 = "key"]
             w == [c EXCEPT !.ra2 = c.ra2]
             v == [c EXCEPT !.ra2 = "cryptCreds"]
             r == IF c.ra2 = "none" THEN Ra2Wait(c, "key") ELSE CheckInternalEvents(c)
  <1>1. /\ Shape(c) /\ Stream(c) /\ Good(c) /\ c.conn = "connecting" /\ c.ws = "open"
        /\ DOMAIN c = Fields
    BY LiveOpen DEF Live, Good
  <1>2. \/ r = Ra2Wait(c, "key") /\ c.ra2 = "none"
        \/ r = Ra2Wait(c, c.ra2) /\ c.ra2 \in Ra2Waits
        \/ r = v /\ c.ra2 = "creds"
        \/ r = c
    BY DEF CheckInternalEvents
  <1>3. Expect(c) = ExpectRa2(c)
    BY DEF Expect, ExpectAuth
  <1>4. c.ra2 = "none" => Busy(Ra2Wait(c, "key")) /\ DOMAIN Ra2Wait(c, "key") = Fields
    <2>1. SUFFICES ASSUME c.ra2 = "none" PROVE Stream(k)
      BY <1>1, WaitBusy DEF Ra2Waits
    <2>2. /\ k.init = c.init /\ k.auth = c.auth /\ k.q = c.q /\ k.net = c.net /\ k.turn = c.turn
          /\ k.ver = c.ver /\ k.ra2 = "key"
      BY <1>1 DEF Fields
    <2> HIDE DEF k
    <2>3. Expect(k) = {"ra2key"} /\ Expect(c) = {"ra2key"}
      BY <1>3, <2>1, <2>2 DEF Expect, ExpectAuth, ExpectRa2
    <2> QED BY <1>1, <2>2, <2>3 DEF Stream
  <1>5. c.ra2 \in Ra2Waits => Busy(Ra2Wait(c, c.ra2)) /\ DOMAIN Ra2Wait(c, c.ra2) = Fields
    <2>1. SUFFICES ASSUME c.ra2 \in Ra2Waits PROVE Stream(w)
      BY <1>1, WaitBusy
    <2>2. SameExpect(c, w) /\ w.q = c.q /\ w.net = c.net /\ w.turn = c.turn
      BY <1>1 DEF SameExpect, Fields
    <2> HIDE DEF w
    <2>3. Expect(w) = Expect(c) /\ w.ver = c.ver
      BY <2>2, ExpectSame DEF SameExpect
    <2> QED BY <1>1, <2>2, <2>3 DEF Stream
  <1>6. c.ra2 = "creds" => Busy(v) /\ DOMAIN v = Fields
    <2>1. SUFFICES ASSUME c.ra2 = "creds" PROVE Busy(v) /\ DOMAIN v = Fields
      OBVIOUS
    <2>2. /\ DOMAIN v = Fields /\ v.init = c.init /\ v.auth = c.auth /\ v.q = c.q /\ v.net = c.net
          /\ v.turn = c.turn /\ v.ver = c.ver /\ v.ra2 = "cryptCreds" /\ v.ws = c.ws /\ v.on = c.on
          /\ v.run = c.run /\ v.resume = c.resume /\ v.ard = c.ard
      BY <1>1 DEF Fields
    <2> HIDE DEF v
    <2>3. Expect(v) = {"none"} /\ Expect(c) = {"none"}
      BY <1>3, <2>1, <2>2 DEF Expect, ExpectAuth, ExpectRa2
    <2>4. Shape(v) /\ Stream(v)
      BY <1>1, <2>2, <2>3 DEF Stream, Shape, Placed, Early
    <2> QED BY <2>2, <2>4 DEF Busy, Computing, Ra2Crypto, Good
  <1>7. r = c => Left(Done(c))
    <2>1. CASE c.q = <<>>
      BY <1>1, <2>1, FineDone
    <2>2. CASE c.q # <<>> /\ Computing(c)
      BY <1>1, <2>2, BusyLeft DEF Busy
    <2>3. CASE c.q # <<>> /\ ~Computing(c) /\ r = c
      <3>1. c.ra2 \notin Ra2Crypto
        BY <2>3 DEF Computing
      <3>2. Expect(c) # {"none"} => c.ra2 \in Ra2Waits \union {"none"}
        BY <1>3, <3>1 DEF ExpectRa2, Ra2Waits, Ra2Crypto
      <3>3. c.ra2 \in Ra2Waits \union {"none"}
        BY <1>1, <2>3, <3>2, Quieted
      <3>4. r \in {Ra2Wait(c, "key"), Ra2Wait(c, c.ra2)} /\ Busy(r) /\ DOMAIN r = Fields
        BY <1>4, <1>5, <3>3 DEF CheckInternalEvents, Ra2Waits
      <3> HIDE DEF r
      <3> QED BY <2>3, <3>4, BusyLeft
    <2> QED BY <2>1, <2>2, <2>3
  <1> HIDE DEF r, v
  <1>8. Left(Done(r))
    BY <1>2, <1>4, <1>5, <1>6, <1>7, BusyLeft
  <1> QED BY <1>8 DEF NegotiateRA2, r

\* A promise answers, and the exchange goes on.
LEMMA CryptoBusy ==
  ASSUME NEW c, Good(c), c.conn = "connecting", c.ra2 \in Ra2Crypto, NEW ok \in BOOLEAN,
         Ra2MayAnswer(c, ok), Attended(c, FALSE)
  PROVE Busy(Ra2CryptoDone(c, ok))
  <1>1. /\ Shape(c) /\ Stream(c) /\ DOMAIN c = Fields /\ c.init = "Authentication"
        /\ c.auth = "RA2" /\ c.ws = "open"
    BY DEF Good, Shape, Placed, Ra2Crypto
  <1>2. Expect(c) = ExpectRa2(c)
    BY <1>1 DEF Expect, ExpectAuth
  <1>3. c.ra2 \in {"cryptKey", "cryptSend", "cryptSub", "cryptCreds"} \/ (c.ra2 = "cryptRandom" /\ ok)
          => c.q = <<>> /\ c.net = <<>> /\ c.turn = "none"
    <2>1. SUFFICES ASSUME \/ c.ra2 \in {"cryptKey", "cryptSend", "cryptSub", "cryptCreds"}
                          \/ c.ra2 = "cryptRandom" /\ ok
                   PROVE Expect(c) = {"none"}
      BY <1>1, Quieted
    <2>2. c.ra2 = "cryptRandom" => c.over # "random"
      BY <2>1 DEF Ra2MayAnswer
    <2> QED BY <1>2, <2>1, <2>2 DEF ExpectRa2
  <1>4. ASSUME NEW a \in {"approve", "cryptCreds", "creds"}, c.ra2 \in {"cryptKey", "cryptSub"}
        PROVE LET y == [c EXCEPT !.ra2 = a] IN Good(y) /\ y.q = <<>> /\ DOMAIN y = Fields
    <2> DEFINE y == [c EXCEPT !.ra2 = a]
    <2>1. /\ DOMAIN y = Fields /\ y.init = c.init /\ y.auth = c.auth /\ y.q = <<>> /\ y.net = <<>>
          /\ y.turn = "none" /\ y.ver = c.ver /\ y.ra2 = a /\ y.ws = c.ws /\ y.on = c.on
          /\ y.run = c.run /\ y.resume = c.resume /\ y.ard = c.ard
      BY <1>1, <1>3, <1>4 DEF Fields
    <2> HIDE DEF y
    <2>2. Shape(y)
      BY <1>1, <2>1 DEF Shape, Placed, Early
    <2>3. "none" \in Expect(y)
      BY <1>1, <1>4, <2>1 DEF Expect, ExpectAuth, ExpectRa2
    <2> QED BY <2>1, <2>2, <2>3, GoodSent DEF Turns, y
  <1>5. ASSUME NEW w \in {"random", "hash"}, NEW u, u = IF w = "random" THEN "ra2random" ELSE "ra2hash",
               c.q = <<>>, c.net = <<>>
        PROVE Busy(Ra2Wait(Send(c, u), w))
    <2> DEFINE x == Send(c, u)
               v == [x EXCEPT !.ra2 = w]
    <2>1. Same(c, x) /\ x.q = <<>> /\ x.net = <<>> /\ x.turn = u
      BY <1>1, <1>5, SendIs
    <2> HIDE DEF x
    <2>2. Shape(x)
      BY <1>1, <1>5, <2>1 DEF Shape, Same, Placed, Early
    <2>3. /\ v.init = c.init /\ v.auth = c.auth /\ v.q = <<>> /\ v.net = <<>> /\ v.turn = u
          /\ v.ra2 = w /\ DOMAIN v = Fields /\ v.ver = c.ver
      BY <2>1 DEF Same, Fields
    <2>4. Stream(v)
      <3> HIDE DEF v
      <3>1. u \in Expect(v) /\ u \in Turns
        BY <1>1, <1>5, <2>3 DEF Expect, ExpectAuth, ExpectRa2, Turns
      <3>2. Run(u, v.ver, <<>>, u)
        BY <3>1, RunEmpty
      <3>3. <<>> \in Seq(Messages)
        OBVIOUS
      <3> QED BY <2>3, <3>1, <3>2, <3>3, NoneMore DEF Stream
    <2>5. Busy(Ra2Wait(x, w))
      <3>1. x.init = "Authentication" /\ x.auth = "RA2" /\ x.ws = "open" /\ w \in Ra2Waits
        BY <1>1, <2>1 DEF Same, Ra2Waits
      <3> HIDE DEF v
      <3>2. v = [x EXCEPT !.ra2 = w]
        BY DEF v
      <3> QED BY <2>2, <2>4, <3>1, <3>2, WaitBusy
    <2> QED BY <2>5 DEF x
  <1>6. CASE c.ra2 = "cryptKey"
    <2> DEFINE y == [c EXCEPT !.ra2 = "approve"]
               d == Emit(y, "serververification")
    <2>1. Good(y) /\ y.q = <<>> /\ DOMAIN y = Fields
      BY <1>4, <1>6
    <2> HIDE DEF y
    <2>2. Good(d) /\ d.q = <<>>
      BY <2>1, GoodDone DEF Emit, Fields
    <2> HIDE DEF d
    <2>3. Busy(d)
      BY <2>2 DEF Busy, Has
    <2> QED BY <1>6, <2>3 DEF Ra2CryptoDone, d, y
  <1>7. CASE c.ra2 = "cryptSend"
    BY <1>3, <1>5, <1>7 DEF Ra2CryptoDone
  <1>8. CASE c.ra2 = "cryptRandom" /\ ok
    BY <1>3, <1>5, <1>8 DEF Ra2CryptoDone
  <1>9. CASE c.ra2 = "cryptHash" /\ ok
    <2> DEFINE v == [c EXCEPT !.ra2 = "subtype"]
    <2>1. /\ v.init = c.init /\ v.auth = c.auth /\ v.q = c.q /\ v.net = c.net /\ v.turn = c.turn
          /\ v.ra2 = "subtype" /\ v.ver = c.ver
      BY <1>1 DEF Fields
    <2>2. Stream(v)
      <3> HIDE DEF v
      <3>1. Expect(v) = {"ra2sub"} /\ Expect(c) = {"ra2sub"}
        BY <1>1, <1>2, <1>9, <2>1 DEF Expect, ExpectAuth, ExpectRa2
      <3> QED BY <1>1, <2>1, <3>1 DEF Stream
    <2>3. Busy(Ra2Wait(c, "subtype"))
      <3> HIDE DEF v
      <3>1. v = [c EXCEPT !.ra2 = "subtype"] /\ "subtype" \in Ra2Waits
        BY DEF v, Ra2Waits
      <3> QED BY <1>1, <2>2, <3>1, WaitBusy
    <2> QED BY <1>9, <2>3 DEF Ra2CryptoDone
  <1>10. CASE c.ra2 = "cryptSub" /\ ok
    <2> DEFINE y == [c EXCEPT !.ra2 = "cryptCreds"]
               z == [c EXCEPT !.ra2 = "creds"]
               d == Emit(z, "credentialsrequired")
    <2>1. Good(y) /\ y.q = <<>> /\ Good(z) /\ z.q = <<>> /\ DOMAIN z = Fields
      BY <1>4, <1>10
    <2>2. Ra2CryptoDone(c, ok) \in {y, d}
      BY <1>10 DEF Ra2CryptoDone
    <2> HIDE DEF y, z
    <2>3. Good(d) /\ d.q = <<>>
      BY <2>1, GoodDone DEF Emit, Fields
    <2> HIDE DEF d
    <2> QED BY <2>1, <2>2, <2>3 DEF Busy, Has
  <1>11. CASE c.ra2 = "cryptCreds"
    <2> DEFINE y == Send(c, "result")
               z == [y EXCEPT !.init = "SecurityResult", !.ra2 = "none"]
    <2>1. Same(c, y) /\ y.q = <<>> /\ y.net = <<>> /\ y.turn = "result"
      BY <1>1, <1>3, <1>11, SendIs
    <2>2. Ra2CryptoDone(c, ok) = z
      BY <1>11 DEF Ra2CryptoDone, Ra2End
    <2> HIDE DEF y
    <2>3. /\ DOMAIN z = Fields /\ z.init = "SecurityResult" /\ z.q = <<>> /\ z.net = <<>>
          /\ z.turn = "result" /\ z.run = c.run /\ z.resume = c.resume /\ z.on = c.on
          /\ z.ws = c.ws /\ z.ra2 = "none" /\ z.ard = c.ard /\ z.auth = c.auth
      BY <2>1 DEF Same, Fields
    <2> HIDE DEF z
    <2>4. Shape(z)
      BY <1>1, <2>3 DEF Shape, Placed, Early, InitStates
    <2>5. "result" \in Expect(z)
      BY <2>3 DEF Expect
    <2>6. Good(z)
      BY <2>3, <2>4, <2>5, GoodSent DEF Turns
    <2> QED BY <2>2, <2>3, <2>6 DEF Busy, Has
  <1>12. CASE ~ok /\ c.ra2 \notin {"cryptKey", "cryptSend", "cryptCreds"}
    <2>1. Ra2CryptoDone(c, ok) = Ra2Throw(c)
      BY <1>12 DEF Ra2CryptoDone
    <2> QED BY <1>1, <2>1, BusyThrow
  <1> QED BY <1>6, <1>7, <1>8, <1>9, <1>10, <1>11, <1>12 DEF Ra2Crypto

-----------------------------------------------------------------------------
(* The calls of the handshake together.                                    *)

\* No security at all: from 3.8 on the result is awaited.
LEMMA NoneFine ==
  ASSUME NEW c, Simply(c), c.auth = "None" PROVE Left(NegotiateAuthentication(c))
  <1> DEFINE i == IF c.ver = "3.8" THEN "SecurityResult" ELSE "ClientInitialisation"
             x == [c EXCEPT !.init = i]
  <1>1. NegotiateAuthentication(c) = More(x)
    BY DEF NegotiateAuthentication
  <1>2. Shape(c) /\ Stream(c) /\ c.ws = "open" /\ c.conn = "connecting" /\ DOMAIN c = Fields
    BY SimplyIs
  <1>3. Expect(c) = {IF c.ver = "3.8" THEN "result" ELSE "none"}
    BY SimplyIs DEF Opening
  <1>4. Has(c) => c.run = "init"
    BY SimplyIs DEF Asked
  <1>5. i \in {"SecurityResult", "ClientInitialisation"}
    OBVIOUS
  <1>6. /\ DOMAIN x = Fields /\ x.init = i /\ x.q = c.q /\ x.net = c.net
        /\ x.turn = c.turn /\ x.run = c.run /\ x.resume = c.resume /\ x.on = c.on
        /\ x.ws = c.ws /\ x.ra2 = c.ra2 /\ x.ard = c.ard /\ x.auth = c.auth /\ x.ver = c.ver
        /\ x.conn = c.conn
    BY <1>2 DEF Fields
  <1>7. Expect(x) = Expect(c)
    <2> HIDE DEF x
    <2>1. CASE c.ver = "3.8"
      BY <1>3, <1>6, <2>1 DEF Expect
    <2>2. CASE c.ver # "3.8"
      BY <1>3, <1>6, <2>2 DEF Expect
    <2> QED BY <2>1, <2>2
  <1> HIDE DEF x, i
  <1>8. Shape(x)
    BY <1>2, <1>5, <1>6 DEF Shape, Placed, Early, InitStates, Simply
  <1>9. Stream(x)
    BY <1>2, <1>6, <1>7 DEF Stream
  <1>10. x.q = <<>> \/ x.run = "init"
    BY <1>4, <1>6 DEF Has
  <1>11. Left(More(x))
    BY <1>2, <1>6, <1>8, <1>9, <1>10, FineMore DEF Good
  <1> QED BY <1>1, <1>11

\* _negotiateAuthentication: every security type.
LEMMA AuthenticationFine ==
  ASSUME NEW c, Live(c), c.init = "Authentication" PROVE Left(NegotiateAuthentication(c))
  <1>1. CASE c.auth = "RA2"
    BY <1>1, RA2Fine DEF NegotiateAuthentication
  <1>2. CASE c.auth # "RA2"
    <2>1. Simply(c) /\ DOMAIN c = Fields
      BY <1>2 DEF Simply, Live, Good, Shape, Placed
    <2>2. CASE c.auth = "None"
      BY <2>1, <2>2, NoneFine
    <2>3. CASE c.auth = "XVP"
      BY <2>1, <2>3, XvpFine DEF NegotiateAuthentication
    <2>4. CASE c.auth = "ARD"
      BY <2>1, <2>4, ARDFine DEF NegotiateAuthentication
    <2>5. CASE c.auth = "VNC"
      BY <2>1, <2>5, StdVNCFine DEF NegotiateAuthentication
    <2>6. CASE c.auth = "Tight"
      BY <2>1, <2>6, TightFine DEF NegotiateAuthentication
    <2>7. CASE c.auth = "VeNCrypt"
      BY <2>1, <2>7, VeNCryptFine DEF NegotiateAuthentication
    <2>8. CASE c.auth \in {"Plain", "Unix"}
      BY <2>1, <2>8, PlainFine DEF NegotiateAuthentication
    <2>9. CASE c.auth = "MSLogon"
      BY <2>1, <2>9, MSLogonFine DEF NegotiateAuthentication
    <2>10. CASE c.auth \notin {"None", "XVP", "ARD", "VNC", "Tight", "VeNCrypt", "Plain", "Unix",
                               "RA2", "MSLogon"}
      <3>1. NegotiateAuthentication(c) = Done(Fail(c))
        BY <2>10 DEF NegotiateAuthentication
      <3> QED BY <2>1, <3>1, FineFail
    <2> QED BY <1>2, <2>2, <2>3, <2>4, <2>5, <2>6, <2>7, <2>8, <2>9, <2>10
  <1> QED BY <1>1, <1>2

\* The result: the client speaks next, or the reason of a refusal follows.
LEMMA ResultFine ==
  ASSUME NEW c, Live(c), c.init = "SecurityResult" PROVE Left(HandleSecurityResult(c))
  <1> DEFINE t == Take(c)
             y == [t EXCEPT !.init = "ClientInitialisation"]
             z == [t EXCEPT !.init = "SecurityReason"]
             e == Emit(t, "securityfailure")
  <1>1. Shape(c) /\ Stream(c) /\ c.conn = "connecting" /\ Placed(c) /\ Good(c)
    BY DEF Live, Good, Shape
  <1>2. CASE ~Has(c)
    BY <1>1, <1>2, FineDone DEF HandleSecurityResult, Has
  <1>3. CASE Has(c)
    <2>1. Same(c, t) /\ t.q = Tail(c.q) /\ t.net = c.net /\ t.turn = c.turn
      BY ReadIs
    <2>2. c.run = "init" /\ c.ws = "open"
      BY <1>3, LiveOpen DEF Live, Attended
    <2>3. \/ HandleSecurityResult(c) = More(y) /\ Val(c) = "ok"
          \/ HandleSecurityResult(c) = More(z) /\ Val(c) # "ok" /\ c.ver = "3.8"
          \/ HandleSecurityResult(c) = Done(Fail(e))
      BY <1>3 DEF HandleSecurityResult
    <2>4. DOMAIN e = Fields
      <3> HIDE DEF t
      <3> QED BY <2>1 DEF Same, Emit, Fields
    <2> HIDE DEF t, e
    <2>5. Expect(c) = {"result"}
      BY DEF Expect
    <2>6. Tail(c.q) \in Seq(Messages)
      BY <1>1, <1>3, Taken
    <2>7. PICK w \in Turns : /\ Says("result", c.ver, Val(c), w)
                             /\ Run(w, c.ver, Tail(c.q) \o c.net, c.turn)
      BY <1>1, <1>3, <2>5, Taken
    <2>8. ASSUME NEW i \in {"ClientInitialisation", "SecurityReason"},
                 w = IF i = "ClientInitialisation" THEN "none" ELSE "reason"
          PROVE Left(More([t EXCEPT !.init = i]))
      <3> DEFINE x == [t EXCEPT !.init = i]
      <3>1. /\ DOMAIN x = Fields /\ x.init = i /\ x.q = Tail(c.q) /\ x.net = c.net
            /\ x.turn = c.turn /\ x.run = c.run /\ x.resume = c.resume /\ x.on = c.on
            /\ x.ws = c.ws /\ x.ra2 = c.ra2 /\ x.ard = c.ard /\ x.auth = c.auth /\ x.ver = c.ver
            /\ x.conn = c.conn
        BY <2>1 DEF Same, Fields
      <3> HIDE DEF x
      <3>2. Shape(x)
        BY <1>1, <2>2, <3>1 DEF Shape, Placed, Early, InitStates
      <3>3. w \in Expect(x)
        <4>1. CASE i = "ClientInitialisation"
          BY <2>8, <3>1, <4>1 DEF Expect
        <4>2. CASE i = "SecurityReason"
          BY <2>8, <3>1, <4>2 DEF Expect
        <4> QED BY <4>1, <4>2
      <3>4. Good(x)
        BY <1>1, <2>6, <2>7, <3>1, <3>2, <3>3, GoodRead
      <3>5. Left(More(x))
        BY <1>1, <2>2, <3>1, <3>4, FineMore
      <3> QED BY <3>5 DEF x
    <2>9. Val(c) = "ok" => Left(More(y))
      <3>1. SUFFICES ASSUME Val(c) = "ok" PROVE Left(More(y))
        OBVIOUS
      <3>2. w = "none"
        BY <2>7, <3>1 DEF Says
      <3> QED BY <2>8, <3>2
    <2>10. Val(c) # "ok" /\ c.ver = "3.8" => Left(More(z))
      <3>1. SUFFICES ASSUME Val(c) # "ok", c.ver = "3.8" PROVE Left(More(z))
        OBVIOUS
      <3>2. w = "reason"
        BY <2>7, <3>1 DEF Says
      <3> QED BY <2>8, <3>2
    <2> QED BY <2>3, <2>4, <2>9, <2>10, FineFail
  <1> QED BY <1>2, <1>3

\* _handleSecurityReason.
LEMMA ReasonFine ==
  ASSUME NEW c, Live(c) PROVE Left(HandleSecurityReason(c))
  <1> DEFINE t == Take(c)
             e == Emit(t, "securityfailure")
  <1>1. /\ HandleSecurityReason(c) \in {Done(c), Done(Fail(e))}
        /\ Has(c) => HandleSecurityReason(c) = Done(Fail(e))
    BY DEF HandleSecurityReason
  <1>2. Same(c, t)
    BY ReadIs
  <1> HIDE DEF t
  <1>3. DOMAIN e = Fields
    BY <1>2 DEF Same, Emit, Fields
  <1> HIDE DEF e
  <1>4. ~Has(c) => Left(Done(c))
    BY FineDone DEF Live, Has
  <1> QED BY <1>1, <1>3, <1>4, FineFail

\* ServerInit: the handshake is over.
LEMMA ServerInitFine ==
  ASSUME NEW c, Live(c) PROVE Left(NegotiateServerInit(c))
  <1> DEFINE t == Send(Take(c), "normal")
             y == [t EXCEPT !.grabbed = @ \/ ~c.viewOnly, !.late = @ \/ c.conn # "connecting"]
             d == Connected(y)
  <1>1. CASE ~Has(c)
    BY <1>1, FineDone DEF NegotiateServerInit, Live, Has
  <1>2. CASE Has(c)
    <2>1. NegotiateServerInit(c) = More(d)
      BY <1>2 DEF NegotiateServerInit
    <2>2. Same(c, t)
      BY <1>2, AnswerIs
    <2> HIDE DEF t
    <2>3. DOMAIN y = Fields /\ y.conn = "connecting"
      BY <2>2 DEF Same, Fields, Live
    <2> HIDE DEF y
    <2>4. DOMAIN d = Fields /\ d.conn = "connected"
      BY <2>3 DEF Connected, Emit, Fields
    <2> HIDE DEF d
    <2>5. More(d).conn = "connected"
      BY <2>4 DEF More, Done, Fields
    <2> QED BY <2>1, <2>5, FineGone
  <1> QED BY <1>1, <1>2

\* ClientInit is sent, and the server answers.
LEMMA ClientInitFine ==
  ASSUME NEW c, Live(c), c.init = "ClientInitialisation"
  PROVE Left(More([Send(c, "serverinit") EXCEPT !.init = "ServerInitialisation"]))
  <1> DEFINE t == Send(c, "serverinit")
             x == [t EXCEPT !.init = "ServerInitialisation"]
  <1>1. Shape(c) /\ Stream(c) /\ c.conn = "connecting"
    BY DEF Live, Good
  <1>2. Same(c, t) /\ t.q = c.q /\ t.net = c.net /\ t.turn = "serverinit" /\ c.ws = "open"
    BY SpeakIs, LiveOpen
  <1> HIDE DEF t
  <1>3. c.q = <<>> /\ c.net = <<>>
    <2>1. Expect(c) = {"none"}
      BY DEF Expect
    <2> QED BY <1>1, <2>1, Quieted
  <1>4. /\ DOMAIN x = Fields /\ x.init = "ServerInitialisation" /\ x.q = <<>> /\ x.net = <<>>
        /\ x.turn = "serverinit" /\ x.run = c.run /\ x.resume = c.resume /\ x.on = c.on
        /\ x.ws = c.ws /\ x.ra2 = c.ra2 /\ x.ard = c.ard /\ x.auth = c.auth /\ x.conn = c.conn
    BY <1>2, <1>3 DEF Same, Fields
  <1> HIDE DEF x
  <1>5. Shape(x)
    BY <1>1, <1>2, <1>4 DEF Shape, Placed, Early, InitStates
  <1>6. "serverinit" \in Expect(x)
    BY <1>4 DEF Expect
  <1>7. Good(x)
    BY <1>4, <1>5, <1>6, GoodSent DEF Turns
  <1>8. Left(More(x))
    BY <1>1, <1>4, <1>7, FineMore
  <1> QED BY <1>8 DEF x, t

\* _initMsg leaves no message unread that nobody will look at.
LEMMA InitMsgFine == ASSUME NEW c, Live(c) PROVE Left(InitMsg(c))
  <1>1. DOMAIN c = Fields /\ c.init \in InitStates
    BY DEF Live, Good, Shape
  <1>2. CASE c.init = ""
    <2>1. InitMsg(c) = Done(Fail(c))
      BY <1>2 DEF InitMsg
    <2> QED BY <1>1, <2>1, FineFail
  <1>3. CASE c.init = "ProtocolVersion"
    BY <1>3, VersionFine DEF InitMsg
  <1>4. CASE c.init = "Security"
    BY <1>4, SecurityFine DEF InitMsg
  <1>5. CASE c.init = "Authentication"
    BY <1>5, AuthenticationFine DEF InitMsg
  <1>6. CASE c.init = "SecurityResult"
    BY <1>6, ResultFine DEF InitMsg
  <1>7. CASE c.init = "SecurityReason"
    BY <1>7, ReasonFine DEF InitMsg
  <1>8. CASE c.init = "ClientInitialisation"
    BY <1>8, ClientInitFine DEF InitMsg
  <1>9. CASE c.init = "ServerInitialisation"
    BY <1>9, ServerInitFine DEF InitMsg
  <1> QED BY <1>1, <1>2, <1>3, <1>4, <1>5, <1>6, <1>7, <1>8, <1>9 DEF InitStates

-----------------------------------------------------------------------------
(* The handshake of the object the page shows.                             *)

\* Every connection attempt is good and, where it stands, somebody is to answer.
LiveInv ==
    \A s \in Sessions :
        rfb[s].conn = "connecting" => Good(rfb[s]) /\ Attended(rfb[s], ui.credDlg)

\* A dialog more does no harm.
LEMMA AttendedMore ==
  ASSUME NEW c, NEW a, NEW b, Attended(c, a), a => b PROVE Attended(c, b)
  BY DEF Attended

\* A dialog more does no harm to what a call leaves.
LEMMA FineBy == ASSUME NEW d, NEW a, NEW b, Fine(d, a), a => b PROVE Fine(d, b)
  BY AttendedMore DEF Fine

\* The same, when the dialog was there before the call.
LEMMA FineOr == ASSUME NEW d, NEW a, NEW b, Fine(d, a) PROVE Fine(d, a \/ b)
  BY DEF Fine, Attended

\* Who closes the dialog for the credentials, and who opens it.
LEMMA HeardAsk ==
  ASSUME NEW u \in Page, NEW s \in Sessions, NEW evs
  PROVE /\ evs \in Quiet => (Heard(u, s, evs).credDlg <=> u.credDlg \/ evs = <<"credentialsrequired">>)
        /\ evs \in Endings \union {<<"connect">>} => ~Heard(u, s, evs).credDlg
  <1>1. ASSUME evs \in Quiet
        PROVE Heard(u, s, evs).credDlg <=> u.credDlg \/ evs = <<"credentialsrequired">>
    <2>1. evs = <<>> \/ \E e \in {"credentialsrequired", "serververification", "securityfailure"} :
                           evs = <<e>>
      BY <1>1 DEF Quiet
    <2>2. CASE evs = <<>>
      <3>1. <<>> # <<"credentialsrequired">>
        OBVIOUS
      <3> QED BY <2>2, <3>1, ReactToNone
    <2>3. ASSUME NEW e \in {"credentialsrequired", "serververification", "securityfailure"}, evs = <<e>>
          PROVE Heard(u, s, evs).credDlg <=> u.credDlg \/ evs = <<"credentialsrequired">>
      <3>1. Heard(u, s, evs) = React(u, s, e)
        BY <2>3, ReactToOne
      <3>2. evs = <<"credentialsrequired">> <=> e = "credentialsrequired"
        BY <2>3
      <3>3. React(u, s, e).credDlg <=> u.credDlg \/ e = "credentialsrequired"
        <4>1. CASE e = "credentialsrequired"
          BY <4>1 DEF React, Page
        <4>2. CASE e = "serververification"
          BY <4>2 DEF React, Page
        <4>3. CASE e = "securityfailure"
          BY <4>3 DEF React, Page
        <4> QED BY <2>3, <4>1, <4>2, <4>3
      <3> QED BY <3>1, <3>2, <3>3
    <2> QED BY <2>1, <2>2, <2>3
  <1>2. ASSUME evs \in Endings PROVE ~Heard(u, s, evs).credDlg
    <2>1. PICK clean \in BOOLEAN : Heard(u, s, evs) = DisconnectFinished(u, clean)
      BY <1>2, HeardEnd
    <2>2. ~DisconnectFinished(u, clean).credDlg
      <3> DEFINE down == [u EXCEPT !.connected = FALSE, !.rfb = 0]
                 told == IF clean THEN down ELSE UpdateVisualState(down, "disconnected")
                 again == [UpdateVisualState(told, "reconnecting") EXCEPT !.reconnecting = TRUE]
                 over == [UpdateVisualState(told, "disconnected") EXCEPT !.panel = TRUE]
      <3>1. DisconnectFinished(u, clean) \in {again, over}
        BY DEF DisconnectFinished
      <3>2. told \in Page
        <4>1. down \in Page
          BY DEF Page
        <4> HIDE DEF down
        <4>2. UpdateVisualState(down, "disconnected") \in Page
          BY <4>1 DEF Page, UpdateVisualState, VisualStates
        <4> QED BY <4>1, <4>2
      <3> HIDE DEF told
      <3>3. again.credDlg = FALSE /\ over.credDlg = FALSE
        BY <3>2 DEF Page, UpdateVisualState
      <3> HIDE DEF again, over
      <3> QED BY <3>1, <3>3
    <2> QED BY <2>1, <2>2
  <1>3. ASSUME evs = <<"connect">> PROVE ~Heard(u, s, evs).credDlg
    <2>1. Heard(u, s, evs) = ConnectFinished(u)
      BY <1>3, ReactToOne DEF React
    <2> QED BY <2>1 DEF ConnectFinished, UpdateVisualState, Page
  <1> QED BY <1>1, <1>2, <1>3

\* Once the events are told, the object is as its handler left it.
LEMMA FineCollect ==
  ASSUME NEW d, Link(d), d.conn = "connecting", NEW a, Fine(d, a)
  PROVE LET e == Collect([d EXCEPT !.evs = <<>>]) IN Good(e) /\ Attended(e, a)
  <1> DEFINE x == [d EXCEPT !.evs = <<>>]
  <1>1. /\ DOMAIN x = Fields /\ SameExpect(d, x) /\ x.q = d.q /\ x.net = d.net /\ x.turn = d.turn
        /\ x.ws = d.ws /\ x.run = d.run /\ x.resume = d.resume /\ x.on = d.on /\ x.conn = "connecting"
    BY DEF Link, SameExpect, Fields
  <1> HIDE DEF x
  <1>2. Collect(x) = x
    BY <1>1 DEF Collect
  <1>3. Good(d) /\ Attended(d, a)
    BY DEF Fine
  <1>4. d.run \in {"idle", "init", "once"} /\ d.resume \in Nat /\ "message" \in d.on
    BY <1>3 DEF Good, Shape
  <1>5. Good(x)
    BY <1>1, <1>3, <1>4, GoodSame
  <1>6. Attended(x, a)
    BY <1>1, <1>3 DEF Attended, Has, Computing, SameExpect
  <1> QED BY <1>2, <1>5, <1>6 DEF x

\* A handler of one object, where no other connection attempt minds.
LEMMA LiveSettle ==
  ASSUME Objects(rfb), LiveInv, NEW s \in Sessions, NEW c, NEW d, Turned(c, d), NEW u \in Page,
         c.conn = "connecting" => Fine(d, u.credDlg \/ d.evs = <<"credentialsrequired">>),
         \A t \in Sessions : t # s /\ rfb[t].conn = "connecting" => ~Up(c) /\ (ui.credDlg => u.credDlg),
         Settle(s, d, u)
  PROVE LiveInv'
  <1> DEFINE e == Collect([d EXCEPT !.evs = <<>>])
             v == Heard(u, s, d.evs)
             next == [rfb EXCEPT ![s] = e]
             ask == d.evs = <<"credentialsrequired">>
  <1>1. rfb' = next /\ ui' = v
    BY DEF Settle, Heard
  <1>2. e.conn = d.conn /\ Link(d)
    BY CollectBegun DEF Turned
  <1>3. d.evs \in Quiet => (v.credDlg <=> u.credDlg \/ ask)
    BY HeardAsk
  <1>4. d.conn = "connecting" => Good(e) /\ Attended(e, u.credDlg \/ ask) /\ d.evs \in Quiet
    <2>1. SUFFICES ASSUME d.conn = "connecting"
                   PROVE Good(e) /\ Attended(e, u.credDlg \/ ask) /\ d.evs \in Quiet
      OBVIOUS
    <2>2. c.conn = "connecting" /\ d.evs \in Quiet
      BY <2>1 DEF Turned, Keeps, Ends, Joins
    <2>3. Fine(d, u.credDlg \/ ask)
      BY <2>2
    <2> HIDE DEF ask
    <2> QED BY <1>2, <2>1, <2>2, <2>3, FineCollect
  <1>5. ~Up(c) => d.evs \in Quiet
    BY DEF Turned, Keeps, Ends, Joins, Up
  <1> HIDE DEF e, v
  <1>6. \A t \in Sessions : next[t] = IF t = s THEN e ELSE rfb[t]
    BY DEF Objects
  <1> HIDE DEF next, ask
  <1>7. ASSUME NEW t \in Sessions, next[t].conn = "connecting"
        PROVE Good(next[t]) /\ Attended(next[t], v.credDlg)
    <2>1. CASE t = s
      BY <1>2, <1>3, <1>4, <1>6, <1>7, <2>1, AttendedMore
    <2>2. CASE t # s
      <3>1. rfb[t].conn = "connecting" /\ next[t] = rfb[t]
        BY <1>6, <1>7, <2>2
      <3>2. Good(rfb[t]) /\ Attended(rfb[t], ui.credDlg)
        BY <3>1 DEF LiveInv
      <3>3. ui.credDlg => v.credDlg
        BY <1>3, <1>5, <2>2, <3>1
      <3>4. Attended(rfb[t], v.credDlg)
        BY <3>2, <3>3, AttendedMore
      <3> QED BY <3>1, <3>2, <3>4
    <2> QED BY <2>1, <2>2
  <1> QED BY <1>1, <1>7 DEF LiveInv

\* The handlers of an object, whatever it is by then.
LEMMA LiveHandler ==
  ASSUME PageInv, LiveInv, NEW s \in Sessions, NEW c, NEW d, Turned(c, d), c.conn = rfb[s].conn,
         NEW u \in Page, ui.credDlg /\ ~u.credDlg => ui.rfb = s,
         c.conn = "connecting" => Fine(d, u.credDlg \/ d.evs = <<"credentialsrequired">>),
         Settle(s, d, u)
  PROVE LiveInv'
  <1>1. ASSUME NEW t \in Sessions, t # s, rfb[t].conn = "connecting"
        PROVE ~Up(c) /\ (ui.credDlg => u.credDlg)
    <2>1. ui.rfb = t /\ (Up(rfb[s]) <=> ui.rfb = s)
      BY <1>1 DEF PageInv, Follows, Up
    <2> QED BY <1>1, <2>1 DEF Up
  <1> QED BY <1>1, LiveSettle DEF PageInv

\* A call of the loop that runs.
LEMMA LiveLoop == ASSUME PageInv, LiveInv, NEW s \in Sessions, LoopStep(s) PROVE LiveInv'
  <1> DEFINE c == rfb[s]
             d == IF c.run = "normal" THEN NormalMsg(c) ELSE InitMsg(c)
  <1>1. Begun(c)
    BY ActiveBegun, FreshRests DEF LoopStep
  <1>2. Settle(s, d, ui) /\ c.run # "idle"
    BY DEF LoopStep
  <1>3. Turned(c, d)
    BY <1>1, NormalMsgTurned, InitMsgTurned
  <1>4. c.conn = "connecting" => Fine(d, ui.credDlg \/ d.evs = <<"credentialsrequired">>)
    <2>1. SUFFICES ASSUME c.conn = "connecting"
                   PROVE Fine(d, ui.credDlg \/ d.evs = <<"credentialsrequired">>)
      OBVIOUS
    <2>2. Good(c) /\ Attended(c, ui.credDlg)
      BY <2>1 DEF LiveInv
    <2>3. c.run \in {"init", "once"}
      BY <1>2, <2>2 DEF Good, Shape
    <2>4. Attended(c, FALSE)
      BY <2>2, <2>3 DEF Attended
    <2>5. Live(c)
      BY <1>1, <2>1, <2>2, <2>3, <2>4 DEF Live
    <2>6. d = InitMsg(c)
      BY <2>3
    <2>7. Fine(d, d.evs = <<"credentialsrequired">>)
      <3>1. Left(InitMsg(c))
        BY <2>5, InitMsgFine
      <3> HIDE DEF d, c
      <3> QED BY <2>6, <3>1 DEF Left
    <2> HIDE DEF d, c
    <2> QED BY <2>7, FineBy
  <1> HIDE DEF d
  <1> QED BY <1>2, <1>3, <1>4, LiveHandler DEF PageInv

\* A promise answers.
LEMMA LiveCrypto == ASSUME PageInv, LiveInv, NEW s \in Sessions, CryptoDone(s) PROVE LiveInv'
  <1> DEFINE c == rfb[s]
             a == ArdDone(c)
  <1>1. Begun(c) /\ ui \in Page
    BY ActiveBegun, FreshRests DEF CryptoDone, Ra2MayAnswer, Ra2Crypto, PageInv
  <1>2. c.conn = "connecting" => Good(c) /\ Attended(c, ui.credDlg)
    BY DEF LiveInv
  <1>3. c.run = "idle"
    BY DEF CryptoDone, Idle
  <1>4. ASSUME NEW ok \in BOOLEAN, Ra2MayAnswer(c, ok), Settle(s, Ra2CryptoDone(c, ok), ui)
        PROVE LiveInv'
    <2>1. Turned(c, Ra2CryptoDone(c, ok))
      BY <1>1, CryptoTurned
    <2> DEFINE d == Ra2CryptoDone(c, ok)
    <2>2. c.conn = "connecting" => Fine(d, ui.credDlg \/ d.evs = <<"credentialsrequired">>)
      <3>1. SUFFICES ASSUME c.conn = "connecting" PROVE \A x : Fine(d, x)
        OBVIOUS
      <3>2. c.ra2 \in Ra2Crypto
        BY <1>4 DEF Ra2MayAnswer
      <3>3. Computing(c)
        BY <1>2, <3>1, <3>2 DEF Good, Shape, Placed, Computing, Ra2Crypto
      <3>4. Attended(c, FALSE)
        BY <1>2, <1>3, <3>1, <3>3 DEF Attended
      <3>5. Busy(d)
        <4> HIDE DEF c
        <4> QED BY <1>2, <1>4, <3>1, <3>2, <3>4, CryptoBusy
      <3>6. DOMAIN d = Fields
        BY <2>1 DEF Turned, Link
      <3> HIDE DEF d
      <3> QED BY <3>5, <3>6, BusyLeft
    <2> HIDE DEF d
    <2> QED BY <1>1, <1>4, <2>1, <2>2, LiveHandler DEF d
  <1>5. ASSUME c.ard = "busy", Settle(s, a, ui) PROVE LiveInv'
    <2>1. Turned(c, a)
      BY <1>1, SmallTurns
    <2>2. c.conn = "connecting" => \A x : Fine(a, x)
      <3>1. SUFFICES ASSUME c.conn = "connecting" PROVE \A x : Fine(a, x)
        OBVIOUS
      <3>2. Good(c) /\ Attended(c, ui.credDlg) /\ Shape(c) /\ Stream(c)
        BY <1>2, <3>1 DEF Good
      <3>3. DOMAIN c = Fields /\ c.auth = "ARD" /\ c.resume \in Nat
        BY <1>5, <3>2 DEF Shape, Placed
      <3> HIDE DEF c
      <3>4. /\ DOMAIN a = Fields /\ a.init = c.init /\ a.auth = c.auth /\ a.q = c.q /\ a.net = c.net
            /\ a.turn = c.turn /\ a.ver = c.ver /\ a.ra2 = c.ra2 /\ a.ws = c.ws /\ a.on = c.on
            /\ a.run = c.run /\ a.resume = c.resume + 1 /\ a.ard = "ready" /\ a.venc = c.venc
            /\ a.tight = c.tight
        BY <3>3 DEF ArdDone, Fields
      <3> HIDE DEF a
      <3>5. Expect(a) = Expect(c)
        BY <1>5, <3>3, <3>4 DEF Expect, ExpectAuth
      <3>6. Good(a)
        <4>1. Stream(a)
          BY <3>2, <3>4, <3>5 DEF Stream
        <4>2. a.resume \in Nat
          BY <3>3, <3>4
        <4>3. Shape(a)
          BY <3>2, <3>3, <3>4, <4>2 DEF Shape, Placed
        <4> QED BY <4>1, <4>3 DEF Good
      <3>7. a.resume > 0
        BY <3>3, <3>4
      <3>8. \A x : Attended(a, x)
        BY <1>3, <3>2, <3>3, <3>4, <3>7 DEF Attended, Has, Computing, Asked
      <3> QED BY <3>6, <3>8 DEF Fine
    <2> HIDE DEF c, a
    <2> QED BY <1>1, <1>5, <2>1, <2>2, LiveHandler DEF c
  <1> QED BY <1>4, <1>5 DEF CryptoDone

\* A timer of the handshake fires.
LEMMA LiveResume == ASSUME PageInv, LiveInv, NEW s \in Sessions, Resume(s) PROVE LiveInv'
  <1> DEFINE c == rfb[s]
             d == ResumeAuthentication(c)
  <1>1. ui \in Page /\ c.run = "idle" /\ c.resume > 0 /\ Settle(s, d, ui)
    BY DEF Resume, Idle, PageInv
  <1>2. Begun(c)
    <2>1. Fresh(FALSE, {}).resume = 0 /\ ~(0 > 0)
      BY DEF Fresh
    <2>2. c # Fresh(FALSE, {})
      <3> HIDE DEF c
      <3> QED BY <1>1, <2>1
    <2> QED BY <2>2, ActiveBegun
  <1>3. Turned(c, d)
    BY <1>2, SmallTurns
  <1>4. c.conn = "connecting" => \A x : Fine(d, x)
    <2>1. SUFFICES ASSUME c.conn = "connecting" PROVE \A x : Fine(d, x)
      OBVIOUS
    <2>2. Good(c) /\ Attended(c, ui.credDlg)
      BY <2>1 DEF LiveInv
    <2>3. DOMAIN c = Fields /\ c.resume \in Nat /\ "message" \in c.on
      BY <2>2 DEF Good, Shape
    <2> HIDE DEF c
    <2>4. /\ DOMAIN d = Fields /\ SameExpect(c, d) /\ d.q = c.q /\ d.net = c.net /\ d.turn = c.turn
          /\ d.ws = c.ws /\ d.run = "once" /\ d.resume = c.resume - 1 /\ d.on = c.on
      BY <2>3 DEF ResumeAuthentication, Fields, SameExpect
    <2> HIDE DEF d
    <2>5. d.resume \in Nat
      BY <1>1, <2>3, <2>4
    <2>6. Good(d)
      BY <2>2, <2>3, <2>4, <2>5, GoodSame
    <2>7. \A x : Attended(d, x)
      BY <1>1, <2>2, <2>4 DEF Attended, Has, Computing, SameExpect
    <2> QED BY <2>6, <2>7 DEF Fine
  <1> HIDE DEF c, d
  <1> QED BY <1>1, <1>3, <1>4, LiveHandler DEF c

\* The timer of the way down fires: no attempt is concerned.
LEMMA LiveTimeout == ASSUME PageInv, LiveInv, NEW s \in Sessions, DisconnectTimeout(s) PROVE LiveInv'
  <1> DEFINE c == rfb[s]
             d == Disconnected(c)
  <1>1. Begun(c) /\ ui \in Page /\ Settle(s, d, ui)
    BY ActiveBegun, FreshRests DEF DisconnectTimeout, PageInv
  <1>2. Turned(c, d)
    BY <1>1, DisconnectedTurned
  <1>3. c.conn = "connecting" => Fine(d, ui.credDlg \/ d.evs = <<"credentialsrequired">>)
    <2>1. SUFFICES ASSUME c.conn = "connecting"
                   PROVE Fine(d, ui.credDlg \/ d.evs = <<"credentialsrequired">>)
      OBVIOUS
    <2>2. Good(c) /\ Attended(c, ui.credDlg)
      BY <2>1 DEF LiveInv
    <2>3. d = c
      BY <2>1 DEF Disconnected
    <2> HIDE DEF c, d
    <2>4. Fine(d, ui.credDlg)
      BY <2>2, <2>3 DEF Fine
    <2> QED BY <2>4, FineOr
  <1> HIDE DEF c, d
  <1> QED BY <1>1, <1>2, <1>3, LiveHandler DEF c

\* The socket opens: the server's version is awaited, whoever listens.
LEMMA LiveOpens == ASSUME PageInv, LiveInv, NEW s \in Sessions, WsOpen(s) PROVE LiveInv'
  <1> DEFINE b == rfb[s]
             c == [b EXCEPT !.ws = "open"]
             d == IF "open" \in c.on THEN SocketOpen(c) ELSE c
             x == [c EXCEPT !.init = "ProtocolVersion"]
  <1>1. Begun(b) /\ b.ws = "connecting" /\ ui \in Page /\ Settle(s, d, ui) /\ b.run = "idle"
    BY ActiveBegun, FreshRests DEF WsOpen, PageInv, Idle
  <1>2. c.conn = b.conn /\ Turned(c, c) /\ Turned(c, SocketOpen(c))
    BY <1>1, OpenTurned
  <1>3. Turned(c, d)
    BY <1>2
  <1>4. c.conn = "connecting" => \A y : Fine(d, y)
    <2>1. SUFFICES ASSUME c.conn = "connecting" PROVE \A y : Fine(d, y)
      OBVIOUS
    <2>2. Good(b) /\ Shape(b) /\ Stream(b)
      BY <1>2, <2>1 DEF LiveInv, Good
    <2>3. /\ DOMAIN b = Fields /\ b.init = "" /\ b.q = <<>> /\ b.net = <<>>
      BY <1>1, <2>2 DEF Shape
    <2>4. b.turn = "version"
      <3>1. Expect(b) = {"version"}
        BY <2>3 DEF Expect
      <3>2. Run("version", b.ver, <<>>, b.turn)
        BY <2>2, <2>3, <3>1, NoneMore DEF Stream
      <3> QED BY <3>2, RunEmptyIs
    <2>5. d \in {x, c}
      BY <2>1, <2>3, <1>1, <1>2 DEF SocketOpen, Fields
    <2> HIDE DEF b
    <2>6. /\ DOMAIN c = Fields /\ c.init = "" /\ c.auth = b.auth /\ c.q = <<>> /\ c.net = <<>>
          /\ c.turn = "version" /\ c.ver = b.ver /\ c.ra2 = b.ra2 /\ c.ws = "open" /\ c.on = b.on
          /\ c.run = b.run /\ c.resume = b.resume /\ c.ard = b.ard /\ c.venc = b.venc
          /\ c.tight = b.tight /\ c.conn = "connecting"
      BY <2>1, <2>3, <2>4 DEF Fields
    <2> HIDE DEF c
    <2>7. /\ DOMAIN x = Fields /\ x.init = "ProtocolVersion" /\ x.auth = b.auth /\ x.q = <<>>
          /\ x.net = <<>> /\ x.turn = "version" /\ x.ver = b.ver /\ x.ra2 = b.ra2 /\ x.ws = "open"
          /\ x.on = b.on /\ x.run = b.run /\ x.resume = b.resume /\ x.ard = b.ard /\ x.venc = b.venc
          /\ x.tight = b.tight
      BY <2>6 DEF Fields
    <2> HIDE DEF x
    <2>8. Good(c)
      <3>1. Shape(c)
        BY <2>2, <2>3, <2>6 DEF Shape, Placed, Early, InitStates
      <3>2. "version" \in Expect(c)
        BY <2>6 DEF Expect
      <3> QED BY <2>6, <3>1, <3>2, GoodSent DEF Turns
    <2>9. Good(x)
      <3>1. Shape(x)
        BY <2>2, <2>3, <2>7 DEF Shape, Placed, Early, InitStates
      <3>2. "version" \in Expect(x)
        BY <2>7 DEF Expect
      <3> QED BY <2>7, <3>1, <3>2, GoodSent DEF Turns
    <2>10. ASSUME NEW y, y.q = <<>>, Good(y) PROVE \A z : Fine(y, z)
      BY <2>10 DEF Fine, Attended, Has
    <2> HIDE DEF d
    <2> QED BY <2>5, <2>6, <2>7, <2>8, <2>9, <2>10
  <1> HIDE DEF c, d
  <1> QED BY <1>1, <1>2, <1>3, <1>4, LiveHandler DEF b

\* The socket closes: the attempt is over.
LEMMA LiveClose == ASSUME PageInv, LiveInv, NEW s \in Sessions, WsClose(s) PROVE LiveInv'
  <1> DEFINE b == rfb[s]
             c == [b EXCEPT !.ws = "closed", !.net = <<>>, !.turn = "none"]
             d == IF "close" \in c.on THEN SocketClose(c) ELSE c
  <1>1. Begun(b) /\ ui \in Page /\ Settle(s, d, ui)
    BY ActiveBegun, FreshRests DEF WsClose, PageInv
  <1>2. /\ c.conn = b.conn /\ Turned(c, SocketClose(c))
        /\ "close" \notin c.on => Turned(c, c)
    BY <1>1, CloseTurned
  <1>3. Turned(c, d)
    BY <1>2
  <1>4. c.conn = "connecting" => d.conn # "connecting"
    <2>1. SUFFICES ASSUME c.conn = "connecting" PROVE d.conn # "connecting"
      OBVIOUS
    <2>2. DOMAIN c = Fields /\ c.on = b.on /\ "close" \in c.on
      BY <1>1, <1>2, <2>1 DEF Begun, Link, Held, Fields
    <2> HIDE DEF c
    <2> DEFINE f == Fail(c)
    <2>3. d = [f EXCEPT !.on = @ \ {"close"}]
      BY <2>1, <2>2 DEF SocketClose
    <2>4. f.conn # "connecting" /\ DOMAIN f = Fields
      BY <2>2, FailCore
    <2> HIDE DEF d, f
    <2> QED BY <2>3, <2>4 DEF Fields
  <1> HIDE DEF c, d
  <1>5. Fine(d, ui.credDlg \/ d.evs = <<"credentialsrequired">>) \/ c.conn # "connecting"
    BY <1>4 DEF Fine
  <1> QED BY <1>1, <1>2, <1>3, <1>5, LiveHandler DEF b

\* What a server may say in its turn.
LEMMA RepliesSay ==
  ASSUME NEW c, NEW offers \in SUBSET SchemeNames, NEW r \in Replies(c, offers)
  PROVE r[1] \in Messages /\ r[2] \in Turns /\ Says(c.turn, c.ver, r[1][2], r[2])
  <1> DEFINE All(k, V, n) == {<<<<k, v>>, n>> : v \in V}
  <1>1. ASSUME NEW k \in Kinds, NEW V \in SUBSET Values, NEW n \in Turns, r \in All(k, V, n)
        PROVE r[1] \in Messages /\ r[2] = n /\ r[1][2] \in V
    BY <1>1 DEF Messages
  <1>2. CASE c.turn = "version"
    <2>1. r \in All("version", {"3.3", "3.7", "3.8", "unknown", "repeater"}, "none")
      BY <1>2 DEF Replies
    <2>2. /\ "version" \in Kinds /\ "none" \in Turns
          /\ {"3.3", "3.7", "3.8", "unknown", "repeater"} \in SUBSET Values
      BY DEF Kinds, Turns, Values
    <2> HIDE DEF All
    <2> QED BY <1>1, <1>2, <2>1, <2>2 DEF Says
  <1>3. CASE c.turn = "security" /\ c.ver # "3.3"
    <2>1. \/ r \in All("types", SchemeNames \union {"unknown"}, "none")
          \/ r \in All("types", {"empty"}, "reason")
      BY <1>3 DEF Replies
    <2>2. /\ "types" \in Kinds /\ "none" \in Turns /\ "reason" \in Turns
          /\ SchemeNames \union {"unknown"} \in SUBSET Values /\ {"empty"} \in SUBSET Values
      BY DEF Kinds, Turns, Values
    <2> HIDE DEF All
    <2> QED BY <1>1, <1>3, <2>1, <2>2 DEF Says
  <1>4. CASE c.turn = "security" /\ c.ver = "3.3"
    <2>1. \/ \E x \in SchemeNames : r = <<<<"scheme", x>>, Opening(x, "3.3")>>
          \/ r \in All("scheme", {"empty"}, "reason")
      BY <1>4 DEF Replies
    <2>2. /\ "scheme" \in Kinds /\ "reason" \in Turns
          /\ SchemeNames \in SUBSET Values /\ {"empty"} \in SUBSET Values
      BY DEF Kinds, Turns, Values
    <2>3. ASSUME NEW x \in SchemeNames, r = <<<<"scheme", x>>, Opening(x, "3.3")>>
          PROVE r[1] \in Messages /\ r[2] \in Turns /\ Says(c.turn, c.ver, r[1][2], r[2])
      <3>1. r[1] = <<"scheme", x>> /\ r[2] = Opening(x, "3.3") /\ r[1][2] = x
        BY <2>3
      <3>2. r[1] \in Messages /\ r[2] \in Turns
        BY <2>2, <3>1, OpeningTurn DEF Messages
      <3> QED BY <1>4, <3>1, <3>2 DEF Says
    <2> HIDE DEF All
    <2> QED BY <1>1, <1>4, <2>1, <2>2, <2>3 DEF Says
  <1>5. CASE c.turn = "tunnels"
    <2>1. \/ r \in All("tunnels", {"notunnel", "bad"}, "none")
          \/ r \in All("tunnels", {"zero"}, "subauth")
      BY <1>5 DEF Replies
    <2>2. /\ "tunnels" \in Kinds /\ "none" \in Turns /\ "subauth" \in Turns
          /\ {"notunnel", "bad"} \in SUBSET Values /\ {"zero"} \in SUBSET Values
      BY DEF Kinds, Turns, Values
    <2> HIDE DEF All
    <2> QED BY <1>1, <1>5, <2>1, <2>2 DEF Says
  <1>6. CASE c.turn = "subauth"
    <2>1. \/ r \in All("subauth", {"noauth", "VNC", "Unix", "unknown"}, "none")
          \/ r \in All("subauth", {"zero"}, "result")
      BY <1>6 DEF Replies
    <2>2. /\ "subauth" \in Kinds /\ "none" \in Turns /\ "result" \in Turns
          /\ {"noauth", "VNC", "Unix", "unknown"} \in SUBSET Values /\ {"zero"} \in SUBSET Values
      BY DEF Kinds, Turns, Values, SchemeNames
    <2> HIDE DEF All
    <2> QED BY <1>1, <1>6, <2>1, <2>2 DEF Says
  <1>7. CASE c.turn \in {"vversion", "vack", "vlength"}
    <2>1. \/ c.turn = "vversion" /\ r \in All("vencrypt", {"ok", "bad"}, "none")
          \/ c.turn = "vack" /\ r \in All("vencrypt", {"ok", "bad"}, "vlength")
          \/ c.turn = "vlength" /\ r \in All("vencrypt", {"ok", "bad"}, "vsubs")
      BY <1>7 DEF Replies
    <2>2. /\ "vencrypt" \in Kinds /\ "none" \in Turns /\ "vlength" \in Turns /\ "vsubs" \in Turns
          /\ {"ok", "bad"} \in SUBSET Values
      BY DEF Kinds, Turns, Values
    <2> HIDE DEF All
    <2> QED BY <1>1, <2>1, <2>2 DEF Says
  <1>8. CASE c.turn = "vsubs"
    <2>1. r \in All("vencrypt", (SchemeNames \ {"VeNCrypt"}) \union {"bad"}, "none")
      BY <1>8 DEF Replies
    <2>2. /\ "vencrypt" \in Kinds /\ "none" \in Turns
          /\ (SchemeNames \ {"VeNCrypt"}) \union {"bad"} \in SUBSET Values
      BY DEF Kinds, Turns, Values
    <2> HIDE DEF All
    <2> QED BY <1>1, <1>8, <2>1, <2>2 DEF Says
  <1>9. CASE c.turn \in {"challenge", "ardkey", "dhparam", "reason"}
    <2>1. r \in All(c.turn, {"ok"}, "none")
      BY <1>9 DEF Replies
    <2>2. c.turn \in Kinds /\ "none" \in Turns /\ {"ok"} \in SUBSET Values
      BY <1>9 DEF Kinds, Turns, Values
    <2> HIDE DEF All
    <2> QED BY <1>1, <1>9, <2>1, <2>2 DEF Says
  <1>10. CASE c.turn \in {"ra2key", "ra2random"}
    <2>1. r \in All(c.turn, {"ok", "bad"}, "none")
      BY <1>10 DEF Replies
    <2>2. c.turn \in Kinds /\ "none" \in Turns /\ {"ok", "bad"} \in SUBSET Values
      BY <1>10 DEF Kinds, Turns, Values
    <2> HIDE DEF All
    <2> QED BY <1>1, <1>10, <2>1, <2>2 DEF Says
  <1>11. CASE c.turn \in {"ra2hash", "ra2sub"}
    <2>1. \/ c.turn = "ra2hash" /\ r \in All("ra2hash", {"ok", "bad"}, "ra2sub")
          \/ c.turn = "ra2sub" /\ r \in All("ra2sub", {"user", "pass"}, "none")
      BY <1>11 DEF Replies
    <2>2. /\ "ra2hash" \in Kinds /\ "ra2sub" \in Kinds /\ "none" \in Turns /\ "ra2sub" \in Turns
          /\ {"ok", "bad"} \in SUBSET Values /\ {"user", "pass"} \in SUBSET Values
      BY DEF Kinds, Turns, Values
    <2> HIDE DEF All
    <2> QED BY <1>1, <2>1, <2>2 DEF Says
  <1>12. CASE c.turn = "result"
    <2> DEFINE n == IF c.ver = "3.8" THEN "reason" ELSE "none"
    <2>1. \/ r \in All("result", {"ok"}, "none")
          \/ r \in All("result", {"refused"}, n)
      BY <1>12 DEF Replies
    <2>2. /\ "result" \in Kinds /\ "none" \in Turns /\ n \in Turns
          /\ {"ok"} \in SUBSET Values /\ {"refused"} \in SUBSET Values
      BY DEF Kinds, Turns, Values
    <2> HIDE DEF All
    <2> QED BY <1>1, <1>12, <2>1, <2>2 DEF Says
  <1>13. CASE c.turn \in {"serverinit", "normal"}
    <2>1. \/ c.turn = "serverinit" /\ r \in All("serverinit", {"ok"}, "normal")
          \/ c.turn = "normal" /\ r \in All("message", {"good", "bad", "badStop"}, "normal")
      BY <1>13 DEF Replies
    <2>2. /\ "serverinit" \in Kinds /\ "message" \in Kinds /\ "normal" \in Turns
          /\ {"ok"} \in SUBSET Values /\ {"good", "bad", "badStop"} \in SUBSET Values
      BY DEF Kinds, Turns, Values
    <2> HIDE DEF All
    <2> QED BY <1>1, <2>1, <2>2 DEF Says
  <1>14. CASE c.turn \notin Turns \ {"none"}
    <2>1. Replies(c, offers) = {}
      BY <1>14 DEF Replies, Turns
    <2> QED BY <2>1
  <1> QED BY <1>2, <1>3, <1>4, <1>5, <1>6, <1>7, <1>8, <1>9, <1>10, <1>11, <1>12, <1>13, <1>14
          DEF Turns

\* What is sent comes last.
LEMMA ConcatAppend ==
  ASSUME NEW S, NEW q \in Seq(S), NEW r \in Seq(S), NEW m \in S
  PROVE q \o Append(r, m) = Append(q \o r, m)
  <1>1. <<m>> \in Seq(S) /\ q \o r \in Seq(S)
    BY ConcatLen
  <1>2. Append(r, m) = r \o <<m>>
    BY AppendIsConcat
  <1>3. Append(q \o r, m) = (q \o r) \o <<m>>
    <2> DEFINE p == q \o r
    <2>1. p \in Seq(S)
      BY <1>1
    <2> HIDE DEF p
    <2>2. Append(p, m) = p \o <<m>>
      BY <2>1, AppendIsConcat
    <2> QED BY <2>2 DEF p
  <1>4. (q \o r) \o <<m>> = q \o (r \o <<m>>)
    BY <1>1, ConcatAssociative
  <1> QED BY <1>2, <1>3, <1>4

\* The server says what its turn allows.
LEMMA LiveServe == ASSUME PageInv, LiveInv, NEW s \in Sessions, Serve(s) PROVE LiveInv'
  <1> DEFINE c == rfb[s]
  <1>1. Begun(c) /\ ui \in Page /\ c.run = "idle"
    BY ActiveBegun, FreshRests DEF Serve, PageInv, Idle
  <1>2. PICK r \in Replies(c, Offers[s]) : Settle(s, ServerSend(c, r), ui)
    BY DEF Serve
  <1>3. r[1] \in Messages /\ r[2] \in Turns /\ Says(c.turn, c.ver, r[1][2], r[2])
    <2>1. Offers[s] \in SUBSET SchemeNames
      BY SessionsAssumption
    <2> HIDE DEF c
    <2> QED BY <1>2, <2>1, RepliesSay
  <1> DEFINE d == ServerSend(c, r)
  <1>4. Turned(c, d)
    BY <1>1, SmallTurns
  <1>5. c.conn = "connecting" => Fine(d, ui.credDlg)
    <2>1. SUFFICES ASSUME c.conn = "connecting" PROVE Fine(d, ui.credDlg)
      OBVIOUS
    <2>2. Good(c) /\ Shape(c) /\ Stream(c) /\ Attended(c, ui.credDlg) /\ c.ws = "open"
      BY <2>1 DEF LiveInv, Good, Serve
    <2>3. DOMAIN c = Fields
      BY <2>2 DEF Shape
    <2> HIDE DEF c
    <2>4. /\ DOMAIN d = Fields /\ SameExpect(c, d) /\ d.q = c.q /\ d.net = Append(c.net, r[1])
          /\ d.turn = r[2] /\ d.ws = c.ws /\ d.run = c.run /\ d.resume = c.resume /\ d.on = c.on
      BY <2>3 DEF ServerSend, Fields, SameExpect
    <2> HIDE DEF d
    <2>5. Expect(d) = Expect(c) /\ d.ver = c.ver
      BY <2>4, ExpectSame DEF SameExpect
    <2>6. c.q \in Seq(Messages) /\ c.net \in Seq(Messages) /\ c.turn \in Turns
      BY <2>2 DEF Stream
    <2>7. PICK t \in Expect(c) : Run(t, c.ver, c.q \o c.net, c.turn)
      BY <2>2 DEF Stream
    <2>8. c.q \o c.net \in Seq(Messages)
      BY <2>6, ConcatLen
    <2>9. Run(t, c.ver, Append(c.q \o c.net, r[1]), r[2])
      BY <1>3, <2>7, <2>8, RunSays
    <2>10. c.q \o Append(c.net, r[1]) = Append(c.q \o c.net, r[1])
      <3> DEFINE m == r[1]
                 q == c.q
                 net == c.net
      <3>1. m \in Messages /\ q \in Seq(Messages) /\ net \in Seq(Messages)
        BY <1>3, <2>6
      <3> HIDE DEF m, q, net
      <3>2. q \o Append(net, m) = Append(q \o net, m)
        BY <3>1, ConcatAppend
      <3> QED BY <3>2 DEF m, q, net
    <2>11. Append(c.net, r[1]) \in Seq(Messages)
      BY <1>3, <2>6, AppendProperties
    <2>12. Stream(d)
      BY <1>3, <2>4, <2>5, <2>6, <2>7, <2>9, <2>10, <2>11 DEF Stream
    <2>13. Shape(d)
      BY <2>2, <2>4 DEF Shape, Placed, SameExpect
    <2>14. Attended(d, ui.credDlg)
      BY <2>2, <2>4 DEF Attended, Has, Computing, SameExpect
    <2> QED BY <2>12, <2>13, <2>14 DEF Fine, Good
  <1> HIDE DEF c, d
  <1>6. c.conn = "connecting" => Fine(d, ui.credDlg \/ d.evs = <<"credentialsrequired">>)
    BY <1>5, FineOr
  <1> QED BY <1>1, <1>2, <1>4, <1>6, LiveHandler DEF c, d

\* What arrives is read by the loop that starts now.
LEMMA LiveDeliver == ASSUME PageInv, LiveInv, NEW s \in Sessions, Deliver(s) PROVE LiveInv'
  <1> DEFINE c == rfb[s]
  <1>1. Begun(c) /\ ui \in Page
    <2>1. c # Fresh(FALSE, {})
      BY FreshRests DEF Deliver
    <2> QED BY <2>1, ActiveBegun DEF PageInv
  <1>2. PICK n \in 0 .. Len(c.net), partly \in BOOLEAN : Settle(s, HandleMessage(Arrive(c, n, partly)), ui)
    BY DEF Deliver
  <1> DEFINE b == Arrive(c, n, partly)
             d == HandleMessage(b)
  <1>3. Calm(c, b)
    BY <1>1, SmallTurns
  <1>4. Turned(b, d) /\ b.conn = c.conn
    <2>1. Begun(b) /\ b.conn = c.conn
      BY <1>1, <1>3, CalmTurned DEF Calm, Frame
    <2> HIDE DEF b
    <2> QED BY <2>1, SmallTurns
  <1>5. b.conn = "connecting" => Fine(d, ui.credDlg)
    <2>1. SUFFICES ASSUME b.conn = "connecting" PROVE Fine(d, ui.credDlg)
      OBVIOUS
    <2>2. Good(c) /\ Shape(c) /\ Stream(c) /\ c.ws = "open"
      BY <1>4, <2>1 DEF LiveInv, Good, Deliver
    <2>3. DOMAIN c = Fields /\ "message" \in c.on
      BY <2>2 DEF Shape
    <2> HIDE DEF c
    <2> DEFINE p == SubSeq(c.net, 1, n)
               m == SubSeq(c.net, n + 1, Len(c.net))
    <2>4. c.q \in Seq(Messages) /\ c.net \in Seq(Messages) /\ c.turn \in Turns
      BY <2>2 DEF Stream
    <2>5. c.q \o p \in Seq(Messages) /\ m \in Seq(Messages) /\ (c.q \o p) \o m = c.q \o c.net
      BY <2>4, Arriving
    <2>6. /\ DOMAIN b = Fields /\ SameExpect(c, b) /\ b.q = c.q \o p /\ b.net = m
          /\ b.turn = c.turn /\ b.ws = c.ws /\ b.resume = c.resume /\ b.on = c.on
      BY <2>3 DEF Arrive, Fields, SameExpect
    <2> HIDE DEF b, p, m
    <2>7. d = [b EXCEPT !.run = "init"]
      BY <2>1, <2>3, <2>6 DEF HandleMessage
    <2>8. /\ DOMAIN d = Fields /\ SameExpect(c, d) /\ d.q = c.q \o p /\ d.net = m
          /\ d.turn = c.turn /\ d.ws = c.ws /\ d.run = "init" /\ d.resume = c.resume /\ d.on = c.on
      BY <2>6, <2>7 DEF Fields, SameExpect
    <2> HIDE DEF d
    <2>9. Expect(d) = Expect(c) /\ d.ver = c.ver
      BY <2>8, ExpectSame DEF SameExpect
    <2>10. Stream(d)
      BY <2>2, <2>5, <2>8, <2>9 DEF Stream
    <2>11. Shape(d)
      BY <2>2, <2>8 DEF Shape, Placed, SameExpect
    <2> QED BY <2>8, <2>10, <2>11 DEF Fine, Good, Attended
  <1> HIDE DEF c, b, d
  <1>6. b.conn = "connecting" => Fine(d, ui.credDlg \/ d.evs = <<"credentialsrequired">>)
    <2>1. SUFFICES ASSUME b.conn = "connecting"
                   PROVE Fine(d, ui.credDlg \/ d.evs = <<"credentialsrequired">>)
      OBVIOUS
    <2>2. Fine(d, ui.credDlg)
      BY <1>5, <2>1
    <2> QED BY <2>2 DEF Fine, Attended
  <1> QED BY <1>1, <1>2, <1>4, <1>6, LiveHandler DEF b, c, d

\* The credentials are there, and a call is pending that looks at them.
LEMMA LiveCredentials == ASSUME PageInv, LiveInv, SetCredentials PROVE LiveInv'
  <1> DEFINE s == ui.rfb
             c == rfb[s]
             d == SendCredentials(c, {"username", "password"})
             u == [ui EXCEPT !.credDlg = FALSE]
  <1>1. s \in Sessions /\ Begun(c)
    BY ShownBegun DEF SetCredentials
  <1>2. u \in Page /\ Settle(s, d, u) /\ c.run = "idle"
    BY <1>1 DEF PageInv, Page, SetCredentials, Idle
  <1>3. Turned(c, d)
    BY <1>1, SmallTurns
  <1>4. c.conn = "connecting" => \A x : Fine(d, x)
    <2>1. SUFFICES ASSUME c.conn = "connecting" PROVE \A x : Fine(d, x)
      OBVIOUS
    <2>2. Good(c) /\ Shape(c) /\ Stream(c) /\ Attended(c, ui.credDlg)
      BY <1>1, <2>1 DEF LiveInv, Good
    <2>3. DOMAIN c = Fields /\ c.resume \in Nat
      BY <2>2 DEF Shape
    <2> HIDE DEF c
    <2>4. /\ DOMAIN d = Fields /\ d.init = c.init /\ d.auth = c.auth /\ d.q = c.q /\ d.net = c.net
          /\ d.turn = c.turn /\ d.ver = c.ver /\ d.ra2 = c.ra2 /\ d.ws = c.ws /\ d.on = c.on
          /\ d.run = c.run /\ d.resume = c.resume + 1 /\ d.venc = c.venc /\ d.tight = c.tight
          /\ d.over = c.over /\ d.ard = (IF c.ard = "busy" THEN "busy" ELSE "none")
      BY <2>3 DEF SendCredentials, Fields
    <2> HIDE DEF d
    <2>5. ExpectAuth(c) \subseteq ExpectAuth(d)
      <3>1. ExpectRa2(c) = ExpectRa2(d)
        BY <2>4 DEF ExpectRa2
      <3>2. CASE c.auth = "ARD"
        BY <2>4, <3>2 DEF ExpectAuth
      <3>3. CASE c.auth # "ARD"
        BY <2>4, <3>1, <3>3 DEF ExpectAuth
      <3> QED BY <3>2, <3>3
    <2>6. Expect(c) \subseteq Expect(d)
      BY <2>4, <2>5 DEF Expect
    <2>7. Stream(d)
      BY <2>2, <2>4, <2>6 DEF Stream
    <2>8. d.resume \in Nat /\ d.resume > 0
      BY <2>3, <2>4
    <2>9. Shape(d)
      <3>1. Placed(c)
        BY <2>2 DEF Shape
      <3>2. Placed(d)
        BY <2>4, <3>1 DEF Placed
      <3> QED BY <2>2, <2>4, <2>8, <3>2 DEF Shape
    <2>10. \A x : Attended(d, x)
      BY <1>2, <2>2, <2>4, <2>8 DEF Attended, Has, Computing
    <2> QED BY <2>7, <2>9, <2>10 DEF Fine, Good
  <1> HIDE DEF c, d, u
  <1> QED BY <1>1, <1>2, <1>3, <1>4, LiveHandler DEF c

\* The user approves the server, and a promise is pending.
LEMMA LiveApprove == ASSUME PageInv, LiveInv, ClickApprove PROVE LiveInv'
  <1> DEFINE s == ui.rfb
             c == rfb[s]
             d == ApproveServer(c)
             u == [ui EXCEPT !.verify = FALSE]
  <1>1. s \in Sessions /\ Begun(c)
    BY ShownBegun DEF ClickApprove
  <1>2. u \in Page /\ u.credDlg = ui.credDlg /\ Settle(s, d, u) /\ c.run = "idle"
    BY <1>1 DEF PageInv, Page, ClickApprove, Idle
  <1>3. Turned(c, d)
    BY <1>1, SmallTurns
  <1>4. c.conn = "connecting" => Fine(d, u.credDlg)
    <2>1. SUFFICES ASSUME c.conn = "connecting" PROVE Fine(d, u.credDlg)
      OBVIOUS
    <2>2. Good(c) /\ Shape(c) /\ Stream(c) /\ Attended(c, u.credDlg)
      BY <1>1, <1>2, <2>1 DEF LiveInv, Good
    <2> HIDE DEF c, u
    <2>3. CASE c.ra2 # "approve"
      BY <2>2, <2>3 DEF ApproveServer, Fine
    <2>4. CASE c.ra2 = "approve"
      <3>1. DOMAIN c = Fields /\ c.init = "Authentication" /\ c.auth = "RA2"
        BY <2>2, <2>4 DEF Shape, Placed
      <3>2. /\ DOMAIN d = Fields /\ d.init = c.init /\ d.auth = c.auth /\ d.q = c.q /\ d.net = c.net
            /\ d.turn = c.turn /\ d.ver = c.ver /\ d.ra2 = "cryptSend" /\ d.ws = c.ws /\ d.on = c.on
            /\ d.run = c.run /\ d.resume = c.resume /\ d.ard = c.ard
        BY <2>4, <3>1 DEF ApproveServer, Fields
      <3> HIDE DEF d
      <3>3. Expect(c) = {"none"} /\ Expect(d) = {"none"}
        BY <2>4, <3>1, <3>2 DEF Expect, ExpectAuth, ExpectRa2
      <3>4. Stream(d)
        BY <2>2, <3>2, <3>3 DEF Stream
      <3>5. Shape(d)
        BY <2>2, <3>1, <3>2 DEF Shape, Placed, Early
      <3>6. Attended(d, u.credDlg)
        BY <1>2, <3>1, <3>2 DEF Attended, Has, Computing, Ra2Crypto, c
      <3> QED BY <3>4, <3>5, <3>6 DEF Fine, Good
    <2> QED BY <2>3, <2>4
  <1> HIDE DEF c, d, u
  <1>5. c.conn = "connecting" => Fine(d, u.credDlg \/ d.evs = <<"credentialsrequired">>)
    BY <1>4, FineOr
  <1> QED BY <1>1, <1>2, <1>3, <1>5, LiveHandler DEF c

\* The user sets view-only.
LEMMA LiveViewOnly == ASSUME PageInv, LiveInv, UpdateViewOnly PROVE LiveInv'
  <1> DEFINE s == ui.rfb
             c == rfb[s]
             d == SetViewOnly(c, ~c.viewOnly)
  <1>1. s \in Sessions /\ Begun(c) /\ ui \in Page
    BY ShownBegun DEF UpdateViewOnly, PageInv
  <1>2. Settle(s, d, ui)
    BY DEF UpdateViewOnly
  <1>3. Turned(c, d)
    BY <1>1, ViewOnlyTurned
  <1>4. c.conn = "connecting" => Fine(d, ui.credDlg)
    <2>1. SUFFICES ASSUME c.conn = "connecting" PROVE Fine(d, ui.credDlg)
      OBVIOUS
    <2>2. Good(c) /\ Shape(c) /\ Attended(c, ui.credDlg)
      BY <1>1, <2>1 DEF LiveInv, Good
    <2>3. /\ DOMAIN c = Fields /\ c.run \in {"idle", "init", "once"} /\ c.resume \in Nat
          /\ "message" \in c.on
      BY <2>2 DEF Shape
    <2> HIDE DEF c
    <2>4. /\ DOMAIN d = Fields /\ SameExpect(c, d) /\ d.q = c.q /\ d.net = c.net /\ d.turn = c.turn
          /\ d.ws = c.ws /\ d.run = c.run /\ d.resume = c.resume /\ d.on = c.on
      BY <2>3 DEF SetViewOnly, Fields, SameExpect
    <2> HIDE DEF d
    <2>5. Good(d)
      BY <2>2, <2>3, <2>4, GoodSame
    <2>6. Attended(d, ui.credDlg)
      BY <2>2, <2>4 DEF Attended, Has, Computing, SameExpect
    <2> QED BY <2>5, <2>6 DEF Fine
  <1> HIDE DEF c, d
  <1>5. c.conn = "connecting" => Fine(d, ui.credDlg \/ d.evs = <<"credentialsrequired">>)
    BY <1>4, FineOr
  <1> QED BY <1>1, <1>2, <1>3, <1>5, LiveHandler DEF c

\* What the page does by itself closes no dialog of a connection attempt.
LEMMA LiveUi ==
  ASSUME PageInv, LiveInv, rfb' = rfb, ui.rfb # 0 /\ ui.credDlg => ui'.credDlg PROVE LiveInv'
  <1>1. ASSUME NEW s \in Sessions, rfb[s].conn = "connecting"
        PROVE Good(rfb[s]) /\ Attended(rfb[s], ui'.credDlg)
    <2>1. ui.rfb = s /\ 0 \notin Sessions
      BY <1>1 DEF PageInv, Follows, Up, Sessions
    <2>2. Good(rfb[s]) /\ Attended(rfb[s], ui.credDlg)
      BY <1>1 DEF LiveInv
    <2>3. ui.credDlg => ui'.credDlg
      BY <2>1
    <2>4. Attended(rfb[s], ui'.credDlg)
      BY <2>2, <2>3 DEF Attended
    <2> QED BY <2>2, <2>4
  <1> QED BY <1>1 DEF LiveInv

\* The page disconnects: the attempt is over.
LEMMA LiveDisconnect ==
  ASSUME PageInv, LiveInv, ui.rfb # 0, NEW v, Alike(ui, v), UiDisconnect(v) PROVE LiveInv'
  <1> DEFINE s == ui.rfb
             c == rfb[s]
             d == Disconnect(c)
             u == UpdateVisualState([v EXCEPT !.connected = FALSE, !.inhibit = TRUE], "disconnecting")
  <1>1. s \in Sessions /\ Begun(c)
    BY ShownBegun
  <1>2. Begun(d) /\ d.conn = IF c.conn \in {"connecting", "connected"} THEN "disconnecting" ELSE c.conn
    BY <1>1, DisconnectBegun
  <1>3. Settle(s, d, u)
    BY DEF UiDisconnect, Alike
  <1>4. u \in Page
    <2>1. [v EXCEPT !.connected = FALSE, !.inhibit = TRUE] \in Page
      BY DEF Page, Alike
    <2> QED BY <2>1 DEF Page, UpdateVisualState, VisualStates
  <1> HIDE DEF d, u
  <1>5. Turned(d, d)
    BY <1>2 DEF Begun, Turned, Keeps, Quiet
  <1>6. d.conn # "connecting"
    BY <1>2
  <1>7. ASSUME NEW t \in Sessions, t # s, rfb[t].conn = "connecting" PROVE FALSE
    BY <1>7 DEF PageInv, Follows, Up
  <1> HIDE DEF s, c
  <1> QED BY <1>1, <1>3, <1>4, <1>5, <1>6, <1>7, LiveSettle DEF PageInv

\* A new connection attempt: the version is awaited, and nothing is there.
LEMMA FreshGood ==
  ASSUME NEW creds, NEW viewOnly
  PROVE LET d == SetViewOnly(Connecting(Fresh(FALSE, creds)), viewOnly)
        IN  Good(d) /\ d.q = <<>> /\ d.conn = "connecting" /\ d.init = "" /\ d.evs = <<>>
            /\ d.resume = 0 /\ d.run = "idle" /\ d.over = "no" /\ Placed(d)
  <1> DEFINE f == Fresh(FALSE, creds)
             m == Connecting(f)
             d == SetViewOnly(m, viewOnly)
  <1>1. /\ DOMAIN f = Fields /\ f.init = "" /\ f.auth = "" /\ f.q = <<>> /\ f.net = <<>>
        /\ f.turn = "version" /\ f.ver = "" /\ f.ra2 = "none" /\ f.on = {"open", "message", "close"}
        /\ f.run = "idle" /\ f.resume = 0 /\ f.ard = "none" /\ f.venc = 0 /\ f.tight = FALSE
        /\ f.conn = "" /\ f.over = "no" /\ f.evs = <<>>
    BY DEF Fresh, Fields
  <1> HIDE DEF f
  <1>2. /\ DOMAIN m = Fields /\ m.init = "" /\ m.auth = "" /\ m.q = <<>> /\ m.net = <<>>
        /\ m.turn = "version" /\ m.ver = "" /\ m.ra2 = "none" /\ m.on = {"open", "message", "close"}
        /\ m.run = "idle" /\ m.resume = 0 /\ m.ard = "none" /\ m.venc = 0 /\ m.tight = FALSE
        /\ m.conn = "connecting" /\ m.ws = "connecting" /\ m.over = "no" /\ m.evs = <<>>
    BY <1>1 DEF Connecting, Fields
  <1> HIDE DEF m
  <1>3. /\ DOMAIN d = Fields /\ d.init = "" /\ d.auth = "" /\ d.q = <<>> /\ d.net = <<>>
        /\ d.turn = "version" /\ d.ver = "" /\ d.ra2 = "none" /\ d.on = {"open", "message", "close"}
        /\ d.run = "idle" /\ d.resume = 0 /\ d.ard = "none" /\ d.venc = 0 /\ d.tight = FALSE
        /\ d.conn = "connecting" /\ d.ws = "connecting" /\ d.over = "no" /\ d.evs = <<>>
    BY <1>2 DEF SetViewOnly, Fields
  <1> HIDE DEF d
  <1>4. Placed(d)
    BY <1>3 DEF Placed
  <1>5. Shape(d)
    <2>1. ~d.tight /\ d.venc = 0 /\ d.init \in InitStates /\ d.init # "Authentication"
      BY <1>3 DEF InitStates
    <2>6. d.resume = 0
      BY <1>3
    <2>7. 0 \in Nat
      OBVIOUS
    <2>2. d.resume \in Nat
      BY <2>6, <2>7
    <2>5. d.run \in {"idle", "init", "once"}
      BY <1>3
    <2>4. "message" \in d.on
      BY <1>3
    <2>3. d.ws = "connecting" /\ d.init = "" /\ d.q = <<>> /\ d.net = <<>> /\ DOMAIN d = Fields
      BY <1>3
    <2> QED BY <1>4, <2>1, <2>2, <2>3, <2>4, <2>5 DEF Shape
  <1>6. "version" \in Expect(d)
    BY <1>3 DEF Expect
  <1>7. Good(d)
    BY <1>3, <1>5, <1>6, GoodSent DEF Turns
  <1> QED BY <1>3, <1>4, <1>7 DEF d, m, f

\* UI.connect: an attempt at its beginning.
LEMMA LiveConnect ==
  ASSUME PageInv, LiveInv, ui.rfb = 0, NEW w, NEW password \in BOOLEAN, Connect(w, password),
         w \in Page, w.rfb = 0
  PROVE LiveInv'
  <1> DEFINE v == UpdateVisualState([w EXCEPT !.panel = FALSE], "connecting")
             creds == IF password THEN {"password"} ELSE {}
             made == Connecting(Fresh(FALSE, creds))
             over == [UpdateVisualState(v, "disconnected") EXCEPT !.stuck = TRUE]
  <1>1. v \in Page
    <2>1. [w EXCEPT !.panel = FALSE] \in Page
      BY DEF Page
    <2> QED BY <2>1 DEF Page, UpdateVisualState, VisualStates
  <1>2. \/ /\ Unused # {}
           /\ \E viewOnly \in BOOLEAN :
                 Settle(Latest, SetViewOnly(made, viewOnly), [v EXCEPT !.rfb = Latest])
        \/ rfb' = rfb
    BY DEF Connect
  <1>3. Begun(made) /\ made.conn = "connecting"
    BY MadeBegun
  <1>4. CASE rfb' = rfb
    BY <1>4, LiveUi
  <1>5. ASSUME Unused # {}, NEW viewOnly \in BOOLEAN,
               Settle(Latest, SetViewOnly(made, viewOnly), [v EXCEPT !.rfb = Latest])
        PROVE LiveInv'
    <2> DEFINE s == Latest
               u == [v EXCEPT !.rfb = s]
               d == SetViewOnly(made, viewOnly)
    <2>1. s \in Sessions
      <3>1. s \in Unused
        BY <1>5, LatestUnused
      <3> HIDE DEF s
      <3> QED BY <3>1 DEF Unused
    <2>2. Turned(made, d)
      BY <1>3, ViewOnlyTurned
    <2>3. Settle(s, d, u)
      BY <1>5
    <2> HIDE DEF s
    <2>4. u \in Page
      BY <1>1, <2>1 DEF Page
    <2>5. \A x : Fine(d, x)
      <3>1. Good(d) /\ d.q = <<>>
        BY FreshGood
      <3> HIDE DEF d
      <3> QED BY <3>1 DEF Fine, Attended, Has
    <2>6. ASSUME NEW t \in Sessions, rfb[t].conn = "connecting" PROVE FALSE
      BY <2>6 DEF PageInv, Follows, Up, Sessions
    <2> HIDE DEF u, d, made
    <2> QED BY <2>1, <2>2, <2>3, <2>4, <2>5, <2>6, LiveSettle DEF PageInv
  <1> QED BY <1>2, <1>4, <1>5

\* What the page and the user do besides.
LEMMA LiveSmall ==
  ASSUME PageInv, LiveInv,
         \/ CancelReconnect \/ SetReconnect \/ CloseControlbar \/ \E s \in Sessions : DigestDone(s)
         \/ ClickConnect \/ Reconnect \/ ClickDisconnect \/ ClickReject
  PROVE LiveInv'
  <1>1. CASE CancelReconnect
    <2>1. rfb' = rfb /\ ui.rfb = 0
      BY <1>1 DEF CancelReconnect, PageInv, Ways
    <2> QED BY <2>1, LiveUi
  <1>2. CASE SetReconnect
    BY <1>2, LiveUi DEF SetReconnect, PageInv, Page
  <1>3. CASE CloseControlbar
    BY <1>3, LiveUi DEF CloseControlbar, PageInv, Page
  <1>4. ASSUME NEW s \in Sessions, DigestDone(s) PROVE LiveInv'
    BY <1>4, LiveUi DEF DigestDone, PageInv, Page
  <1>5. CASE ClickConnect
    <2>1. ui \in Page /\ ui.rfb = 0
      BY <1>5 DEF PageInv, Ways, ClickConnect
    <2>2. PICK password \in BOOLEAN : Connect(ui, password)
      BY <1>5 DEF ClickConnect
    <2> QED BY <2>1, <2>2, LiveConnect
  <1>6. CASE Reconnect
    <2> DEFINE u == [ui EXCEPT !.reconnecting = FALSE]
    <2>1. u \in Page /\ u.rfb = 0 /\ ui.rfb = 0 /\ ~ui.inhibit
      BY <1>6 DEF PageInv, Page, Ways, Reconnect
    <2>2. PICK password \in BOOLEAN : Connect(u, password)
      BY <1>6, <2>1 DEF Reconnect
    <2> HIDE DEF u
    <2> QED BY <2>1, <2>2, LiveConnect
  <1>7. CASE ClickDisconnect
    BY <1>7, UiAlike, LiveDisconnect DEF ClickDisconnect
  <1>8. CASE ClickReject
    <2>1. Alike(ui, [ui EXCEPT !.verify = FALSE])
      BY DEF PageInv, Alike, Page
    <2> QED BY <1>8, <2>1, LiveDisconnect DEF ClickReject
  <1> QED BY <1>1, <1>2, <1>3, <1>4, <1>5, <1>6, <1>7, <1>8

\* Every step keeps every attempt alive.
LEMMA LiveStep == PageInv /\ LiveInv /\ [Next]_vars => LiveInv'
  <1> SUFFICES ASSUME PageInv, LiveInv, [Next]_vars PROVE LiveInv'
    OBVIOUS
  <1>1. CASE UNCHANGED vars
    BY <1>1, LiveUi DEF vars
  <1>2. ASSUME NEW s \in Sessions,
               LoopStep(s) \/ CryptoDone(s) \/ Resume(s) \/ DisconnectTimeout(s)
                 \/ WsOpen(s) \/ Serve(s) \/ Deliver(s)
        PROVE LiveInv'
    BY <1>2, LiveLoop, LiveCrypto, LiveResume, LiveTimeout, LiveOpens, LiveServe, LiveDeliver
  <1>3. CASE System
    BY <1>2, <1>3 DEF System
  <1>4. ASSUME NEW s \in Sessions, DigestDone(s) \/ WsClose(s) PROVE LiveInv'
    BY <1>4, LiveSmall, LiveClose
  <1> QED BY <1>1, <1>3, <1>4, LiveSmall, LiveCredentials, LiveApprove, LiveViewOnly DEF Next

\* At first there is no attempt.
LEMMA InitLive == Init => LiveInv
  <1>1. Fresh(FALSE, {}).conn # "connecting"
    BY DEF Fresh
  <1> QED BY <1>1 DEF Init, LiveInv

\* Every message of the handshake is read or waits for somebody, for every server, every
\* order of the answers and every number of connections.
THEOREM NoneForgotten == Spec => []NoMessageForgotten
  <1>1. LiveInv => NoMessageForgotten
    <2> SUFFICES ASSUME LiveInv, NEW s \in Sessions, rfb[s].conn = "connecting",
                        rfb[s].run = "idle", Has(rfb[s])
                 PROVE rfb[s].init = "Authentication"
                       /\ (ui.credDlg \/ rfb[s].resume > 0 \/ rfb[s].ra2 \in Ra2Crypto)
      BY DEF NoMessageForgotten
    <2>1. Attended(rfb[s], ui.credDlg)
      BY DEF LiveInv
    <2> QED BY <2>1 DEF Attended, Computing
  <1> QED BY <1>1, PageInvHolds, InitLive, LiveStep, PTL DEF Spec

-----------------------------------------------------------------------------
(* The first connection.                                                   *)

Looping(c) == c.run \notin {"idle", "normal"}

\* Until the server has named its types, no timer of the handshake is pending, and its loop
\* looks at the types only with something to read.
First(c) ==
    /\ Placed(c) /\ c.over # "count"
    /\ c.init \in Early => c.resume = 0 /\ c.run # "once"
    /\ c.init = "Security" /\ Looping(c) => Has(c) \/ c.frag

\* While the first object is there it is the only one, and nobody is asked before the types
\* are named.
FirstInv ==
    /\ First(rfb[1])
    /\ rfb[1].conn # "disconnected" =>
          /\ \A t \in Sessions : t # 1 => rfb[t].conn = ""
          /\ rfb[1].init \in Early => ~ui.credDlg

\* What is forgotten of the first object changes none of this.
LEMMA CollectFirst ==
  ASSUME NEW d, First(d), DOMAIN d = Fields
  PROVE LET e == Collect([d EXCEPT !.evs = <<>>])
        IN  First(e) /\ (d.conn # "disconnected" => e.init = d.init)
  <1> DEFINE x == [d EXCEPT !.evs = <<>>]
             f == Fresh(FALSE, {})
             e == Collect(x)
             g == [f EXCEPT !.conn = x.conn, !.ws = x.ws, !.on = x.on \ {"open", "message"},
                            !.timer = x.timer, !.attached = x.attached, !.grabbed = x.grabbed,
                            !.late = x.late, !.hears = x.hears, !.over = x.over, !.turn = "none"]
  <1>1. /\ DOMAIN x = Fields /\ x.conn = d.conn /\ x.init = d.init /\ x.auth = d.auth
        /\ x.ra2 = d.ra2 /\ x.ard = d.ard /\ x.over = d.over /\ x.resume = d.resume
        /\ x.run = d.run /\ x.q = d.q /\ x.frag = d.frag
    BY DEF Fields
  <1> HIDE DEF x
  <1>2. e = x \/ (e = g /\ x.conn = "disconnected")
    BY DEF Collect
  <1>3. First(x)
    BY <1>1 DEF First, Placed, Looping, Has
  <1>4. /\ DOMAIN f = Fields /\ f.init = "" /\ f.auth = "" /\ f.ra2 = "none" /\ f.ard = "none"
        /\ f.resume = 0 /\ f.run = "idle"
    BY DEF Fresh, Fields
  <1> HIDE DEF f
  <1>5. /\ g.init = "" /\ g.auth = "" /\ g.ra2 = "none" /\ g.ard = "none"
        /\ g.resume = 0 /\ g.run = "idle" /\ g.over = x.over
    BY <1>4 DEF Fields
  <1> HIDE DEF g, e
  <1>6. First(g)
    BY <1>3, <1>5 DEF First, Placed
  <1>7. First(e) /\ (d.conn # "disconnected" => e.init = d.init)
    BY <1>1, <1>2, <1>3, <1>6
  <1> QED BY <1>7 DEF e, x

\* A handler of an object, seen from the first.
LEMMA FirstSettle ==
  ASSUME PageInv, FirstInv, NEW s \in Sessions, Begun(rfb[s]), NEW c, NEW d, Turned(c, d),
         rfb[s].conn = "disconnected" => c.conn = "disconnected",
         NEW u \in Page, u.credDlg => ui.credDlg, Settle(s, d, u),
         s = 1 => /\ First(d)
                  /\ d.init \in Early => rfb[1].init \in Early /\ d.evs # <<"credentialsrequired">>
  PROVE FirstInv'
  <1> DEFINE e == Collect([d EXCEPT !.evs = <<>>])
             v == Heard(u, s, d.evs)
             next == [rfb EXCEPT ![s] = e]
  <1>1. rfb' = next /\ ui' = v
    BY DEF Settle, Heard
  <1>2. e.conn = d.conn /\ DOMAIN d = Fields
    BY CollectBegun DEF Turned, Link
  <1>3. s = 1 => First(e) /\ (d.conn # "disconnected" => e.init = d.init)
    <2>1. SUFFICES ASSUME s = 1 PROVE First(e) /\ (d.conn # "disconnected" => e.init = d.init)
      OBVIOUS
    <2> QED BY <1>2, <2>1, CollectFirst
  <1>4. /\ d.evs \in Quiet => (v.credDlg <=> u.credDlg \/ d.evs = <<"credentialsrequired">>)
        /\ d.evs \in Endings \union {<<"connect">>} => ~v.credDlg
    BY HeardAsk
  <1>5. 1 \in Sessions
    BY SessionsAssumption DEF Sessions
  <1> HIDE DEF e, v
  <1>6. \A t \in Sessions : next[t] = IF t = s THEN e ELSE rfb[t]
    BY DEF PageInv, Objects
  <1> HIDE DEF next
  <1>7. CASE s = 1
    <2>1. next[1] = e /\ First(e)
      BY <1>3, <1>5, <1>6, <1>7
    <2>2. ASSUME e.conn # "disconnected"
          PROVE /\ \A t \in Sessions : t # 1 => next[t].conn = ""
                /\ e.init \in Early => ~v.credDlg
      <3>1. d.conn # "disconnected" /\ rfb[1].conn # "disconnected" /\ e.init = d.init
        BY <1>2, <1>3, <1>7, <2>2 DEF Turned, Keeps, Ends, Joins
      <3>2. d.evs \in Quiet \/ d.evs = <<"connect">>
        BY <3>1 DEF Turned, Keeps, Ends, Joins
      <3>3. \A t \in Sessions : t # 1 => next[t].conn = ""
        BY <1>6, <1>7, <3>1 DEF FirstInv
      <3>4. e.init \in Early => ~ui.credDlg /\ d.evs # <<"credentialsrequired">>
        BY <1>7, <3>1 DEF FirstInv
      <3>5. e.init \in Early => ~v.credDlg
        BY <1>4, <3>2, <3>4
      <3> QED BY <3>3, <3>5
    <2> QED BY <1>1, <2>1, <2>2 DEF FirstInv
  <1>8. CASE s # 1
    <2>1. rfb[1].conn = "disconnected"
      <3>1. rfb[s].conn # ""
        BY DEF Begun, Link
      <3> QED BY <1>8, <3>1 DEF FirstInv
    <2>2. next[1] = rfb[1]
      BY <1>5, <1>6, <1>8
    <2> QED BY <1>1, <2>1, <2>2 DEF FirstInv
  <1> QED BY <1>7, <1>8

\* What keeps the handshake where it is.
LEMMA FirstSame ==
  ASSUME NEW c, NEW d, First(c), d.init = c.init, d.auth = c.auth, d.ra2 = c.ra2, d.ard = c.ard,
         d.over = c.over, d.resume = c.resume,
         d.run \in {c.run, "idle"}, Looping(c) /\ d.run # "idle" => d.q = c.q /\ d.frag = c.frag
  PROVE First(d)
  BY DEF First, Placed, Looping, Has

\* The way down leaves the first handshake where it is.
LEMMA FailFirst ==
  ASSUME NEW c, First(c), DOMAIN c = Fields PROVE First(Fail(c))
  <1> DEFINE f == Fail(c)
  <1>1. Core(c, f)
    BY FailCore
  <1> HIDE DEF f
  <1>2. First(f)
    BY <1>1, FirstSame DEF Core
  <1> QED BY <1>2 DEF f

\* The way down asks for nothing.
LEMMA FailQuiet ==
  ASSUME NEW x, Link(x), x.evs = <<>> PROVE Fail(x).evs # <<"credentialsrequired">>
  <1> DEFINE f == Fail(x)
  <1>1. Turned(x, f)
    BY FailTurned
  <1>2. \A e \in Endings : e # <<"credentialsrequired">>
    BY DEF Endings, Closings
  <1>3. f.evs = x.evs \/ f.evs \in Endings
    <2>1. CASE Up(x)
      <3>1. DOMAIN x = Fields
        BY DEF Link
      <3>2. f.conn = "disconnected"
        BY <2>1, <3>1 DEF Fail, Disconnecting, Disconnected, Detach, Emit, Up, Fields
      <3> HIDE DEF f
      <3> QED BY <1>1, <2>1, <3>2 DEF Turned, Keeps, Ends, Joins, Up
    <2>2. CASE ~Up(x)
      BY <2>2 DEF Fail, Disconnecting, Disconnected, Up, Fields, Link
    <2> QED BY <2>1, <2>2
  <1>4. <<>> # <<"credentialsrequired">>
    OBVIOUS
  <1> HIDE DEF f
  <1>5. f.evs # <<"credentialsrequired">>
    BY <1>2, <1>3, <1>4
  <1> QED BY <1>5 DEF f

\* The first states of the handshake start no other loop.
LEMMA EarlyRuns ==
  ASSUME NEW c, DOMAIN c = Fields, c.init \in Early PROVE InitMsg(c).run \in {c.run, "idle"}
  <1>1. ASSUME NEW x, DOMAIN x = Fields PROVE Done(x).run = "idle"
    BY <1>1 DEF Done, Fields
  <1>2. ASSUME NEW x, DOMAIN x = Fields, x.run = c.run PROVE More(x).run \in {c.run, "idle"}
    BY <1>1, <1>2 DEF More
  <1>3. DOMAIN Fail(c) = Fields
    BY FailCore
  <1>4. CASE c.init = ""
    BY <1>1, <1>3, <1>4 DEF InitMsg
  <1> DEFINE t == Take(c)
  <1>5. DOMAIN t = Fields /\ t.run = c.run
    BY TakeIs DEF Same
  <1>6. ASSUME NEW u PROVE DOMAIN Send(t, u) = Fields /\ Send(t, u).run = c.run
    <2> HIDE DEF t
    <2> QED BY <1>5 DEF Send, Fields
  <1>7. DOMAIN Fail(t) = Fields
    BY <1>5, FailCore
  <1>8. CASE c.init = "ProtocolVersion"
    <2> DEFINE a == Send(t, "version")
               b == Send(t, "security")
               x == [b EXCEPT !.ver = Val(c), !.init = "Security"]
    <2>1. InitMsg(c) \in {Done(c), More(a), Done(x), Done(Fail(t))}
      BY <1>8 DEF InitMsg, NegotiateProtocolVersion
    <2> HIDE DEF t
    <2>2. DOMAIN a = Fields /\ a.run = c.run /\ DOMAIN b = Fields
      BY <1>6
    <2> HIDE DEF a, b
    <2>3. DOMAIN x = Fields
      BY <2>2
    <2> HIDE DEF x
    <2> QED BY <1>1, <1>2, <1>7, <2>1, <2>2, <2>3
  <1>9. CASE c.init = "Security"
    <2> DEFINE o == [c EXCEPT !.over = IF c.ver # "3.3" /\ ~c.frag THEN "count" ELSE @]
               e == [t EXCEPT !.init = "SecurityReason"]
               y == Send(t, Opening(Val(c), c.ver))
               b == IF c.ver # "3.3" THEN y ELSE t
               x == [b EXCEPT !.auth = Val(c), !.init = "Authentication"]
    <2>1. InitMsg(c) \in {Done(o), More(e), More(x), Done(Fail(t))}
      BY <1>9 DEF InitMsg, NegotiateSecurity
    <2>2. DOMAIN o = Fields
      OBVIOUS
    <2> HIDE DEF t
    <2>3. DOMAIN e = Fields /\ e.run = c.run
      BY <1>5 DEF Fields
    <2>4. DOMAIN b = Fields /\ b.run = c.run
      BY <1>5, <1>6
    <2> HIDE DEF b
    <2>5. DOMAIN x = Fields /\ x.run = c.run
      BY <2>4 DEF Fields
    <2> HIDE DEF o, e, x
    <2> QED BY <1>1, <1>2, <1>7, <2>1, <2>2, <2>3, <2>5
  <1> QED BY <1>4, <1>8, <1>9 DEF Early

\* A message after the handshake.
LEMMA NormalFirst ==
  ASSUME NEW c, First(c), Begun(c), c.run = "normal"
  PROVE LET d == NormalMsg(c)
        IN  First(d) /\ d.init = c.init /\ d.evs # <<"credentialsrequired">>
  <1> DEFINE t == Take(c)
             f == Fail(t)
  <1>1. NormalMsg(c) \in {Done(c), t, f, Done(t), Done(f)}
    BY DEF NormalMsg
  <1>2. Calm(c, c) /\ DOMAIN c = Fields /\ c.evs = <<>>
    BY DEF Begun, Link, Calm, Frame
  <1>3. Calm(c, t) /\ Same(c, t)
    BY <1>2, CalmOn, TakeIs
  <1> HIDE DEF t
  <1>4. Link(t) /\ t.evs = <<>> /\ DOMAIN t = Fields
    BY <1>2, <1>3, CalmTurned DEF Begun, Same
  <1>5. First(t) /\ t.init = c.init
    BY <1>3, FirstSame DEF Same, Looping
  <1>6. First(f) /\ f.init = c.init /\ f.evs # <<"credentialsrequired">> /\ DOMAIN f = Fields
    BY <1>4, <1>5, FailFirst, FailQuiet, FailCore DEF Core
  <1> HIDE DEF f
  <1>7. ASSUME NEW x, First(x), x.init = c.init, x.evs # <<"credentialsrequired">>, DOMAIN x = Fields
        PROVE First(Done(x)) /\ Done(x).init = c.init /\ Done(x).evs # <<"credentialsrequired">>
    <2> DEFINE y == Done(x)
    <2>1. /\ y.init = x.init /\ y.auth = x.auth /\ y.ra2 = x.ra2 /\ y.ard = x.ard /\ y.over = x.over
          /\ y.resume = x.resume /\ y.run = "idle" /\ y.evs = x.evs
      BY <1>7 DEF Done, Fields
    <2> HIDE DEF y
    <2>2. First(y) /\ y.init = c.init /\ y.evs # <<"credentialsrequired">>
      BY <1>7, <2>1, FirstSame
    <2> QED BY <2>2 DEF y
  <1>8. <<>> # <<"credentialsrequired">>
    OBVIOUS
  <1> QED BY <1>1, <1>2, <1>4, <1>5, <1>6, <1>7, <1>8

\* A call of _initMsg.
LEMMA InitFirst ==
  ASSUME NEW c, First(c), Begun(c), c.run \notin {"idle", "normal"}
  PROVE LET d == InitMsg(c)
        IN  First(d) /\ (d.init \in Early => c.init \in Early /\ d.evs # <<"credentialsrequired">>)
  <1> DEFINE d == InitMsg(c)
  <1>1. Placed(c) /\ DOMAIN c = Fields
    BY DEF First, Begun, Link
  <1>2. Goes(c, d)
    BY <1>1, InitMsgGoes
  <1>3. c.init \in Early => d.run \in {c.run, "idle"}
    BY <1>1, EarlyRuns
  <1> HIDE DEF d
  <1>4. First(d)
    BY <1>2, <1>3 DEF First, Goes, Looping
  <1> QED BY <1>2, <1>4 DEF Goes, d

\* A call of the loop that runs.
LEMMA FirstLoop == ASSUME PageInv, FirstInv, NEW s \in Sessions, LoopStep(s) PROVE FirstInv'
  <1> DEFINE c == rfb[s]
             d == IF c.run = "normal" THEN NormalMsg(c) ELSE InitMsg(c)
  <1>1. Begun(c) /\ ui \in Page
    BY ActiveBegun, FreshRests DEF LoopStep, PageInv
  <1>2. Settle(s, d, ui) /\ c.run # "idle"
    BY DEF LoopStep
  <1>3. Turned(c, d)
    BY <1>1, NormalMsgTurned, InitMsgTurned
  <1>4. s = 1 => First(d) /\ (d.init \in Early => c.init \in Early /\ d.evs # <<"credentialsrequired">>)
    <2>1. SUFFICES ASSUME s = 1
                   PROVE First(d) /\ (d.init \in Early =>
                                     c.init \in Early /\ d.evs # <<"credentialsrequired">>)
      OBVIOUS
    <2>2. First(c)
      BY <2>1 DEF FirstInv
    <2> HIDE DEF c
    <2>3. CASE c.run = "normal"
      <3>1. d = NormalMsg(c)
        BY <2>3
      <3> HIDE DEF d
      <3> QED BY <1>1, <2>2, <2>3, <3>1, NormalFirst
    <2>4. CASE c.run # "normal"
      <3>1. d = InitMsg(c)
        BY <2>4
      <3> HIDE DEF d
      <3> QED BY <1>1, <1>2, <2>2, <2>4, <3>1, InitFirst
    <2> QED BY <2>3, <2>4
  <1> HIDE DEF d
  <1> QED BY <1>1, <1>2, <1>3, <1>4, FirstSettle

\* A promise answers: the types were named long ago.
LEMMA FirstCrypto == ASSUME PageInv, FirstInv, NEW s \in Sessions, CryptoDone(s) PROVE FirstInv'
  <1> DEFINE c == rfb[s]
             a == ArdDone(c)
  <1>1. Begun(c) /\ ui \in Page /\ DOMAIN c = Fields
    BY ActiveBegun, FreshRests DEF CryptoDone, Ra2MayAnswer, Ra2Crypto, PageInv, Begun, Link
  <1>2. ASSUME NEW ok \in BOOLEAN, Ra2MayAnswer(c, ok), Settle(s, Ra2CryptoDone(c, ok), ui)
        PROVE FirstInv'
    <2> DEFINE d == Ra2CryptoDone(c, ok)
    <2>1. Turned(c, d)
      BY <1>1, CryptoTurned
    <2>2. s = 1 => First(d) /\ d.init \notin Early
      <3>1. SUFFICES ASSUME s = 1 PROVE First(d) /\ d.init \notin Early
        OBVIOUS
      <3>2. First(c)
        BY <3>1 DEF FirstInv
      <3>3. c.init = "Authentication" /\ c.auth = "RA2" /\ c.over # "count"
        BY <1>2, <3>2 DEF First, Placed, Ra2MayAnswer, Ra2Crypto
      <3> HIDE DEF c
      <3>4. Mid(c, c)
        BY <1>1, <3>2, <3>3 DEF First, Mid, Early
      <3>5. Mid(c, d)
        BY <3>3, <3>4, CryptoGoes
      <3> HIDE DEF d
      <3> QED BY <3>3, <3>5 DEF Mid, First, Early
    <2> HIDE DEF d
    <2> QED BY <1>1, <1>2, <2>1, <2>2, FirstSettle DEF d
  <1>3. ASSUME c.ard = "busy", Settle(s, a, ui) PROVE FirstInv'
    <2>1. Turned(c, a)
      BY <1>1, SmallTurns
    <2>2. s = 1 => First(a) /\ a.init \notin Early
      <3>1. SUFFICES ASSUME s = 1 PROVE First(a) /\ a.init \notin Early
        OBVIOUS
      <3>2. First(c)
        BY <3>1 DEF FirstInv
      <3> HIDE DEF c
      <3>3. c.auth = "ARD" /\ c.init \notin Early
        BY <1>3, <3>2 DEF First, Placed
      <3>4. /\ a.init = c.init /\ a.auth = c.auth /\ a.ra2 = c.ra2 /\ a.over = c.over
            /\ a.ard = "ready"
        BY <1>1 DEF ArdDone, Fields
      <3> HIDE DEF a
      <3> QED BY <3>2, <3>3, <3>4 DEF First, Placed, Early
    <2> HIDE DEF a
    <2> QED BY <1>1, <1>3, <2>1, <2>2, FirstSettle
  <1> QED BY <1>2, <1>3 DEF CryptoDone

\* What a handler leaves of the first handshake, and that it asks for nothing.
Leaves(c, d) == First(d) /\ d.init = c.init /\ d.evs # <<"credentialsrequired">>

\* A handler without events asks for nothing.
LEMMA NothingAsked == ASSUME NEW c, NEW d, First(d), d.init = c.init, d.evs = <<>> PROVE Leaves(c, d)
  <1>1. <<>> # <<"credentialsrequired">>
    OBVIOUS
  <1> QED BY <1>1 DEF Leaves

\* The end of a connection leaves the handshake where it is.
LEMMA DownFirst ==
  ASSUME NEW c, First(c), Begun(c) PROVE Leaves(c, Disconnected(c)) /\ First(Disconnecting(c))
  <1> DEFINE d == Disconnected(c)
             x == Disconnecting(c)
  <1>1. DOMAIN c = Fields /\ c.evs = <<>>
    BY DEF Begun, Link
  <1>2. /\ d.init = c.init /\ d.auth = c.auth /\ d.ra2 = c.ra2 /\ d.ard = c.ard /\ d.over = c.over
        /\ d.resume = c.resume /\ d.run = c.run /\ d.q = c.q /\ d.frag = c.frag
        /\ d.conn = "disconnected" \/ d.evs = <<>>
    BY <1>1 DEF Disconnected, Emit, Fields
  <1>3. /\ x.init = c.init /\ x.auth = c.auth /\ x.ra2 = c.ra2 /\ x.ard = c.ard /\ x.over = c.over
        /\ x.resume = c.resume /\ x.run = c.run /\ x.q = c.q /\ x.frag = c.frag
    BY <1>1 DEF Disconnecting, Detach, Fields
  <1>4. d.evs = <<>> \/ d.evs \in Endings
    <2>1. CASE c.conn # "disconnecting"
      BY <1>1, <2>1 DEF Disconnected
    <2>2. CASE c.conn = "disconnecting"
      <3>1. d.conn = "disconnected"
        BY <1>1, <2>2 DEF Disconnected, Emit, Fields
      <3>2. Turned(c, d)
        BY DisconnectedTurned
      <3> HIDE DEF d
      <3> QED BY <2>2, <3>1, <3>2 DEF Turned, Keeps, Ends, Joins
    <2> QED BY <2>1, <2>2
  <1> HIDE DEF d, x
  <1>5. First(d) /\ First(x)
    BY <1>2, <1>3, FirstSame
  <1>6. <<>> # <<"credentialsrequired">> /\ \A e \in Endings : e # <<"credentialsrequired">>
    BY DEF Endings, Closings
  <1>7. Leaves(c, d)
    BY <1>2, <1>4, <1>5, <1>6 DEF Leaves
  <1> QED BY <1>5, <1>7 DEF d, x

\* A handler that leaves the first handshake where it is.
LEMMA FirstHandler ==
  ASSUME PageInv, FirstInv, NEW s \in Sessions, Begun(rfb[s]), NEW c, NEW d, Turned(c, d),
         c.conn = rfb[s].conn, NEW u \in Page, u.credDlg => ui.credDlg, Settle(s, d, u),
         First(rfb[s]) => Leaves(rfb[s], d)
  PROVE FirstInv'
  <1>1. s = 1 => Leaves(rfb[1], d)
    BY DEF FirstInv
  <1> QED BY <1>1, FirstSettle DEF Leaves

\* A timer of the handshake fires: the types were named before it was set.
LEMMA FirstResume == ASSUME PageInv, FirstInv, NEW s \in Sessions, Resume(s) PROVE FirstInv'
  <1> DEFINE c == rfb[s]
             d == ResumeAuthentication(c)
  <1>1. ui \in Page /\ c.resume > 0 /\ Settle(s, d, ui)
    BY DEF Resume, PageInv
  <1>2. Begun(c)
    <2>1. Fresh(FALSE, {}).resume = 0 /\ ~(0 > 0)
      BY DEF Fresh
    <2>2. c # Fresh(FALSE, {})
      <3> HIDE DEF c
      <3> QED BY <1>1, <2>1
    <2> QED BY <2>2, ActiveBegun
  <1>3. Turned(c, d)
    BY <1>2, SmallTurns
  <1>4. First(c) => Leaves(c, d)
    <2>1. SUFFICES ASSUME First(c) PROVE Leaves(c, d)
      OBVIOUS
    <2>2. c.init \notin Early
      <3>1. ~(0 > 0)
        OBVIOUS
      <3> HIDE DEF c
      <3> QED BY <1>1, <2>1, <3>1 DEF First
    <2>3. DOMAIN c = Fields /\ c.evs = <<>>
      BY <1>2 DEF Begun, Link
    <2> HIDE DEF c
    <2>4. /\ d.init = c.init /\ d.auth = c.auth /\ d.ra2 = c.ra2 /\ d.ard = c.ard /\ d.over = c.over
          /\ d.evs = <<>>
      BY <2>3 DEF ResumeAuthentication, Fields
    <2> HIDE DEF d
    <2>5. First(d)
      BY <2>1, <2>2, <2>4 DEF First, Placed, Early
    <2> QED BY <2>4, <2>5, NothingAsked
  <1> HIDE DEF d
  <1> QED BY <1>1, <1>2, <1>3, <1>4, FirstHandler

\* The timer of the way down fires.
LEMMA FirstTimeout == ASSUME PageInv, FirstInv, NEW s \in Sessions, DisconnectTimeout(s) PROVE FirstInv'
  <1> DEFINE c == rfb[s]
             d == Disconnected(c)
  <1>1. Begun(c) /\ ui \in Page /\ Settle(s, d, ui)
    BY ActiveBegun, FreshRests DEF DisconnectTimeout, PageInv
  <1>2. Turned(c, d)
    BY <1>1, DisconnectedTurned
  <1>3. First(c) => Leaves(c, d)
    BY <1>1, DownFirst
  <1> HIDE DEF d
  <1> QED BY <1>1, <1>2, <1>3, FirstHandler

\* The socket opens, and the version is awaited.
LEMMA FirstOpens == ASSUME PageInv, FirstInv, NEW s \in Sessions, WsOpen(s) PROVE FirstInv'
  <1> DEFINE b == rfb[s]
             c == [b EXCEPT !.ws = "open"]
             x == [c EXCEPT !.init = "ProtocolVersion"]
             f == Fail(c)
             d == IF "open" \in c.on THEN SocketOpen(c) ELSE c
  <1>1. Begun(b) /\ b.ws = "connecting" /\ ui \in Page /\ Settle(s, d, ui) /\ b.run = "idle"
    BY ActiveBegun, FreshRests DEF WsOpen, PageInv, Idle
  <1>2. c.conn = b.conn /\ Turned(c, c) /\ Turned(c, SocketOpen(c))
    BY <1>1, OpenTurned
  <1>3. Turned(c, d)
    BY <1>2
  <1>4. First(b) => First(d) /\ (d.init \in Early => b.init \in Early /\ d.evs # <<"credentialsrequired">>)
    <2>1. SUFFICES ASSUME First(b)
                   PROVE First(d) /\ (d.init \in Early =>
                                     b.init \in Early /\ d.evs # <<"credentialsrequired">>)
      OBVIOUS
    <2>2. DOMAIN b = Fields /\ b.evs = <<>>
      BY <1>1 DEF Begun, Link
    <2>3. d = c \/ d = f \/ (d = x /\ c.init = "")
      BY DEF SocketOpen
    <2> HIDE DEF b
    <2>4. /\ DOMAIN c = Fields /\ c.init = b.init /\ c.auth = b.auth /\ c.ra2 = b.ra2
          /\ c.ard = b.ard /\ c.over = b.over /\ c.resume = b.resume /\ c.run = "idle" /\ c.evs = <<>>
      BY <1>1, <2>2 DEF Fields
    <2>5. Link(c)
      BY <1>2 DEF Turned
    <2> HIDE DEF c
    <2>6. First(c)
      BY <1>1, <2>1, <2>4, FirstSame DEF Looping
    <2>7. Leaves(b, c)
      BY <2>4, <2>6, NothingAsked
    <2>8. Leaves(b, f)
      <3>1. First(f) /\ f.init = c.init /\ f.evs # <<"credentialsrequired">>
        BY <2>4, <2>5, <2>6, FailFirst, FailQuiet, FailCore DEF Core
      <3> HIDE DEF f
      <3> QED BY <2>4, <3>1 DEF Leaves
    <2>9. c.init = "" => First(x) /\ b.init \in Early /\ x.evs # <<"credentialsrequired">>
      <3>1. SUFFICES ASSUME c.init = ""
                     PROVE First(x) /\ b.init \in Early /\ x.evs # <<"credentialsrequired">>
        OBVIOUS
      <3>2. /\ x.init = "ProtocolVersion" /\ x.auth = c.auth /\ x.ra2 = c.ra2 /\ x.ard = c.ard
            /\ x.over = c.over /\ x.resume = c.resume /\ x.run = c.run /\ x.evs = <<>>
        BY <2>4 DEF Fields
      <3> HIDE DEF x
      <3>3. First(x)
        BY <2>6, <3>1, <3>2 DEF First, Placed, Early
      <3>4. <<>> # <<"credentialsrequired">>
        OBVIOUS
      <3> QED BY <2>4, <3>1, <3>2, <3>3, <3>4 DEF Early
    <2> HIDE DEF x, f, d
    <2> QED BY <2>3, <2>7, <2>8, <2>9 DEF Leaves
  <1>5. s = 1 => First(b)
    BY DEF FirstInv
  <1> HIDE DEF c, d
  <1> QED BY <1>1, <1>2, <1>3, <1>4, <1>5, FirstSettle

\* The socket closes.
LEMMA FirstClose == ASSUME PageInv, FirstInv, NEW s \in Sessions, WsClose(s) PROVE FirstInv'
  <1> DEFINE b == rfb[s]
             c == [b EXCEPT !.ws = "closed", !.net = <<>>, !.turn = "none"]
             d == IF "close" \in c.on THEN SocketClose(c) ELSE c
  <1>1. Begun(b) /\ ui \in Page /\ Settle(s, d, ui)
    BY ActiveBegun, FreshRests DEF WsClose, PageInv
  <1>2. /\ c.conn = b.conn /\ Turned(c, SocketClose(c))
        /\ "close" \notin c.on => Turned(c, c)
    BY <1>1, CloseTurned
  <1>3. Turned(c, d)
    BY <1>2
  <1>4. First(b) => Leaves(b, d)
    <2>1. SUFFICES ASSUME First(b) PROVE Leaves(b, d)
      OBVIOUS
    <2>2. DOMAIN b = Fields /\ Begun(b)
      BY <1>1 DEF Begun, Link
    <2> HIDE DEF b
    <2>3. /\ DOMAIN c = Fields /\ c.init = b.init /\ c.auth = b.auth /\ c.ra2 = b.ra2
          /\ c.ard = b.ard /\ c.over = b.over /\ c.resume = b.resume /\ c.run = b.run /\ c.evs = <<>>
          /\ c.q = b.q /\ c.frag = b.frag
      BY <2>2 DEF Fields, Begun
    <2>4. Begun(c)
      <3>1. /\ c.conn = b.conn /\ c.on = b.on /\ c.ws = "closed" /\ DOMAIN c = Fields /\ c.evs = <<>>
            /\ c.attached = b.attached /\ c.grabbed = b.grabbed /\ c.late = b.late
            /\ c.hears = b.hears /\ c.timer = b.timer
        BY <2>2, <2>3 DEF Fields
      <3> HIDE DEF c
      <3> QED BY <2>2, <3>1 DEF Begun, Link, Held
    <2> HIDE DEF c
    <2>5. First(c)
      BY <2>1, <2>3, FirstSame
    <2> DEFINE x == Disconnecting(c)
               a == Disconnected(x)
               f == Fail(c)
               g == Disconnected(c)
    <2>6. \/ d = c
          \/ \E y \in {a, f, g} : d = [y EXCEPT !.on = @ \ {"close"}]
      BY DEF SocketClose
    <2>7. Leaves(c, a) /\ DOMAIN a = Fields
      <3>1. Begun(x) /\ First(x) /\ x.init = c.init
        <4>1. x.init = c.init
          BY <2>3 DEF Disconnecting, Detach, Fields
        <4> QED BY <2>4, <2>5, <4>1, DisconnectingBegun, DownFirst
      <3> HIDE DEF x
      <3>2. Leaves(x, a) /\ Turned(x, a)
        BY <3>1, DownFirst, DisconnectedTurned
      <3> HIDE DEF a
      <3> QED BY <3>1, <3>2 DEF Leaves, Turned, Link
    <2>8. Leaves(c, g) /\ DOMAIN g = Fields
      <3>1. Leaves(c, g) /\ Turned(c, g)
        BY <2>4, <2>5, DownFirst, DisconnectedTurned
      <3> HIDE DEF g
      <3> QED BY <3>1 DEF Turned, Link
    <2>9. Leaves(c, f) /\ DOMAIN f = Fields
      <3>1. First(f) /\ f.init = c.init /\ f.evs # <<"credentialsrequired">> /\ DOMAIN f = Fields
        BY <2>3, <2>4, <2>5, FailFirst, FailQuiet, FailCore DEF Core, Begun
      <3> HIDE DEF f
      <3> QED BY <3>1 DEF Leaves
    <2> HIDE DEF x, a, f, g
    <2>10. ASSUME NEW y, Leaves(c, y), DOMAIN y = Fields
           PROVE Leaves(c, [y EXCEPT !.on = @ \ {"close"}])
      <3> DEFINE z == [y EXCEPT !.on = @ \ {"close"}]
      <3>1. /\ z.init = y.init /\ z.auth = y.auth /\ z.ra2 = y.ra2 /\ z.ard = y.ard /\ z.over = y.over
            /\ z.resume = y.resume /\ z.run = y.run /\ z.q = y.q /\ z.frag = y.frag /\ z.evs = y.evs
        BY <2>10 DEF Fields
      <3> HIDE DEF z
      <3>2. First(z)
        BY <2>10, <3>1, FirstSame DEF Leaves
      <3> QED BY <2>10, <3>1, <3>2 DEF Leaves, z
    <2>11. Leaves(c, c)
      BY <2>3, <2>5, NothingAsked
    <2>12. Leaves(c, d)
      BY <2>6, <2>7, <2>8, <2>9, <2>10, <2>11
    <2> HIDE DEF d
    <2> QED BY <2>3, <2>12 DEF Leaves
  <1> HIDE DEF c, d
  <1> QED BY <1>1, <1>2, <1>3, <1>4, FirstHandler

\* What the server sends has not arrived yet.
LEMMA FirstServe == ASSUME PageInv, FirstInv, NEW s \in Sessions, Serve(s) PROVE FirstInv'
  <1> DEFINE c == rfb[s]
  <1>1. Begun(c) /\ ui \in Page /\ DOMAIN c = Fields /\ c.evs = <<>>
    BY ActiveBegun, FreshRests DEF Serve, PageInv, Begun, Link
  <1>2. PICK reply \in Replies(c, Offers[s]) : Settle(s, ServerSend(c, reply), ui)
    BY DEF Serve
  <1> DEFINE d == ServerSend(c, reply)
  <1>3. Turned(c, d)
    BY <1>1, SmallTurns
  <1>4. First(c) => Leaves(c, d)
    <2>1. SUFFICES ASSUME First(c) PROVE Leaves(c, d)
      OBVIOUS
    <2> HIDE DEF c
    <2>2. /\ d.init = c.init /\ d.auth = c.auth /\ d.ra2 = c.ra2 /\ d.ard = c.ard /\ d.over = c.over
          /\ d.resume = c.resume /\ d.run = c.run /\ d.q = c.q /\ d.frag = c.frag /\ d.evs = <<>>
      BY <1>1 DEF ServerSend, Fields
    <2> HIDE DEF d
    <2>3. First(d)
      BY <2>1, <2>2, FirstSame
    <2> QED BY <2>2, <2>3, NothingAsked
  <1> HIDE DEF d
  <1> QED BY <1>1, <1>2, <1>3, <1>4, FirstHandler DEF d

\* The loop of the handshake starts with something to read.
LEMMA FirstDeliver == ASSUME PageInv, LiveInv, FirstInv, NEW s \in Sessions, Deliver(s) PROVE FirstInv'
  <1> DEFINE c == rfb[s]
  <1>1. Begun(c) /\ ui \in Page /\ DOMAIN c = Fields /\ c.evs = <<>> /\ c.run = "idle"
    <2>1. c # Fresh(FALSE, {})
      BY FreshRests DEF Deliver
    <2>2. Begun(c)
      BY <2>1, ActiveBegun
    <2> QED BY <2>2 DEF PageInv, Begun, Link, Deliver, Idle
  <1>2. PICK n \in 0 .. Len(c.net), partly \in BOOLEAN :
          /\ n > 0 \/ partly
          /\ Settle(s, HandleMessage(Arrive(c, n, partly)), ui)
    BY DEF Deliver
  <1> DEFINE b == Arrive(c, n, partly)
             d == HandleMessage(b)
  <1>3. Calm(c, b)
    BY <1>1, SmallTurns
  <1>4. Turned(b, d) /\ b.conn = c.conn
    <2>1. Begun(b) /\ b.conn = c.conn
      BY <1>1, <1>3, CalmTurned DEF Calm, Frame
    <2> HIDE DEF b
    <2> QED BY <2>1, SmallTurns
  <1>5. First(c) => Leaves(c, d)
    <2>1. SUFFICES ASSUME First(c) PROVE Leaves(c, d)
      OBVIOUS
    <2>2. c.conn = "connecting" => c.q \in Seq(Messages) /\ c.net \in Seq(Messages)
      BY DEF LiveInv, Good, Stream
    <2> HIDE DEF c
    <2> DEFINE p == SubSeq(c.net, 1, n)
    <2>3. c.conn = "connecting" /\ n > 0 => c.q \o p # <<>>
      BY <2>2, Arriving
    <2>4. /\ DOMAIN b = Fields /\ b.init = c.init /\ b.auth = c.auth /\ b.ra2 = c.ra2 /\ b.ard = c.ard
          /\ b.over = c.over /\ b.resume = c.resume /\ b.run = c.run /\ b.evs = <<>>
      BY <1>1 DEF Arrive, Fields
    <2>5. b.q = c.q \o p /\ b.frag = partly
      BY <1>1 DEF Arrive, Fields
    <2> HIDE DEF b, p
    <2>6. \/ d = b
          \/ d = [b EXCEPT !.run = "normal"]
          \/ d = [b EXCEPT !.run = "init"] /\ b.conn = "connecting"
      BY DEF HandleMessage
    <2> HIDE DEF d
    <2>7. /\ d.init = c.init /\ d.auth = c.auth /\ d.ra2 = c.ra2 /\ d.ard = c.ard
          /\ d.over = c.over /\ d.resume = c.resume /\ d.evs = <<>> /\ d.q = b.q /\ d.frag = b.frag
      BY <2>4, <2>6 DEF Fields
    <2>8. d.run \in {"idle", "normal"} \/ (d.run = "init" /\ b.conn = "connecting")
      BY <1>1, <2>4, <2>6 DEF Fields
    <2>9. Looping(d) => Has(d) \/ d.frag
      BY <1>2, <1>4, <2>3, <2>5, <2>7, <2>8 DEF Looping, Has
    <2>10. d.run # "once"
      BY <2>8
    <2>11. First(d)
      BY <2>1, <2>7, <2>9, <2>10 DEF First, Placed
    <2> QED BY <2>7, <2>11, NothingAsked
  <1> HIDE DEF b, d
  <1> QED BY <1>1, <1>2, <1>4, <1>5, FirstHandler DEF b, d

\* The dialog for the credentials is not there before the types are named.
LEMMA FirstCredentials == ASSUME PageInv, FirstInv, SetCredentials PROVE FirstInv'
  <1> DEFINE s == ui.rfb
             c == rfb[s]
             d == SendCredentials(c, {"username", "password"})
             u == [ui EXCEPT !.credDlg = FALSE]
  <1>1. s \in Sessions /\ Begun(c) /\ Up(c) /\ ui.credDlg
    BY ShownBegun DEF SetCredentials
  <1>2. u \in Page /\ u.credDlg = FALSE /\ Settle(s, d, u)
    BY DEF PageInv, Page, SetCredentials
  <1>3. Turned(c, d)
    BY <1>1, SmallTurns
  <1>4. s = 1 => First(d) /\ d.init \notin Early
    <2>1. SUFFICES ASSUME s = 1 PROVE First(d) /\ d.init \notin Early
      OBVIOUS
    <2>2. First(c) /\ c.init \notin Early
      BY <1>1, <2>1 DEF FirstInv, Up
    <2>3. DOMAIN c = Fields
      BY <1>1 DEF Begun, Link
    <2> HIDE DEF c
    <2>4. /\ d.init = c.init /\ d.auth = c.auth /\ d.ra2 = c.ra2 /\ d.over = c.over
          /\ d.ard = (IF c.ard = "busy" THEN "busy" ELSE "none")
      BY <2>3 DEF SendCredentials, Fields
    <2> HIDE DEF d
    <2> QED BY <2>2, <2>4 DEF First, Placed, Early
  <1> HIDE DEF d, u
  <1> QED BY <1>1, <1>2, <1>3, <1>4, FirstSettle

\* The user approves the server.
LEMMA FirstApprove == ASSUME PageInv, FirstInv, ClickApprove PROVE FirstInv'
  <1> DEFINE s == ui.rfb
             c == rfb[s]
             d == ApproveServer(c)
             u == [ui EXCEPT !.verify = FALSE]
  <1>1. s \in Sessions /\ Begun(c)
    BY ShownBegun DEF ClickApprove
  <1>2. u \in Page /\ u.credDlg = ui.credDlg /\ Settle(s, d, u)
    BY DEF PageInv, Page, ClickApprove
  <1>3. Turned(c, d)
    BY <1>1, SmallTurns
  <1>4. First(c) => Leaves(c, d)
    <2>1. SUFFICES ASSUME First(c) PROVE Leaves(c, d)
      OBVIOUS
    <2>2. DOMAIN c = Fields /\ c.evs = <<>>
      BY <1>1 DEF Begun, Link
    <2> HIDE DEF c
    <2>3. CASE c.ra2 # "approve"
      BY <2>1, <2>2, <2>3, NothingAsked DEF ApproveServer
    <2>4. CASE c.ra2 = "approve"
      <3>1. /\ d.init = c.init /\ d.auth = c.auth /\ d.ra2 = "cryptSend" /\ d.ard = c.ard
            /\ d.over = c.over /\ d.evs = <<>>
        BY <2>2, <2>4 DEF ApproveServer, Fields
      <3> HIDE DEF d
      <3>2. First(d)
        BY <2>1, <2>4, <3>1 DEF First, Placed, Early
      <3> QED BY <3>1, <3>2, NothingAsked
    <2> QED BY <2>3, <2>4
  <1> HIDE DEF d, u
  <1> QED BY <1>1, <1>2, <1>3, <1>4, FirstHandler

\* The user sets view-only.
LEMMA FirstViewOnly == ASSUME PageInv, FirstInv, UpdateViewOnly PROVE FirstInv'
  <1> DEFINE s == ui.rfb
             c == rfb[s]
             d == SetViewOnly(c, ~c.viewOnly)
  <1>1. s \in Sessions /\ Begun(c) /\ ui \in Page /\ Settle(s, d, ui)
    BY ShownBegun DEF UpdateViewOnly, PageInv
  <1>2. Turned(c, d)
    BY <1>1, ViewOnlyTurned
  <1>3. First(c) => Leaves(c, d)
    <2>1. SUFFICES ASSUME First(c) PROVE Leaves(c, d)
      OBVIOUS
    <2>2. DOMAIN c = Fields /\ c.evs = <<>>
      BY <1>1 DEF Begun, Link
    <2> HIDE DEF c
    <2>3. /\ d.init = c.init /\ d.auth = c.auth /\ d.ra2 = c.ra2 /\ d.ard = c.ard /\ d.over = c.over
          /\ d.resume = c.resume /\ d.run = c.run /\ d.q = c.q /\ d.frag = c.frag /\ d.evs = <<>>
      BY <2>2 DEF SetViewOnly, Fields
    <2> HIDE DEF d
    <2>4. First(d)
      BY <2>1, <2>3, FirstSame
    <2> QED BY <2>3, <2>4, NothingAsked
  <1> HIDE DEF d
  <1> QED BY <1>1, <1>2, <1>3, FirstHandler

\* The page disconnects.
LEMMA FirstDisconnect ==
  ASSUME PageInv, FirstInv, ui.rfb # 0, NEW v, Alike(ui, v), UiDisconnect(v) PROVE FirstInv'
  <1> DEFINE s == ui.rfb
             c == rfb[s]
             d == Disconnect(c)
             u == UpdateVisualState([v EXCEPT !.connected = FALSE, !.inhibit = TRUE], "disconnecting")
  <1>1. s \in Sessions /\ Begun(c) /\ Up(c)
    BY ShownBegun
  <1>2. Begun(d)
    BY <1>1, DisconnectBegun
  <1>3. Settle(s, d, u)
    BY DEF UiDisconnect, Alike
  <1>4. u \in Page /\ u.credDlg = FALSE
    <2> DEFINE y == [v EXCEPT !.connected = FALSE, !.inhibit = TRUE]
    <2>1. y \in Page
      BY DEF Page, Alike
    <2>2. u \in Page
      BY <2>1 DEF Page, UpdateVisualState, VisualStates
    <2>3. u = UpdateVisualState(y, "disconnecting")
      OBVIOUS
    <2> HIDE DEF y, u
    <2>4. u.credDlg = FALSE
      BY <2>1, <2>3 DEF Page, UpdateVisualState
    <2> QED BY <2>2, <2>4
  <1>5. First(c) => First(d) /\ (d.init \in Early => c.init \in Early)
    <2>1. SUFFICES ASSUME First(c) PROVE First(d) /\ (d.init \in Early => c.init \in Early)
      OBVIOUS
    <2> HIDE DEF c
    <2> DEFINE x == Disconnecting(c)
               y == [x EXCEPT !.on = @ \ {"open", "message"}]
               z == Ra2End(y)
    <2>2. First(x) /\ x.init = c.init /\ x.auth = c.auth /\ x.ra2 = c.ra2 /\ DOMAIN x = Fields
      <3>1. DOMAIN c = Fields
        BY <1>1 DEF Begun, Link
      <3> QED BY <1>1, <2>1, <3>1, DownFirst DEF Disconnecting, Detach, Fields
    <2>3. d = y \/ d = z
      BY DEF Disconnect
    <2> HIDE DEF x, d
    <2>4. /\ DOMAIN y = Fields /\ y.init = x.init /\ y.auth = x.auth /\ y.ra2 = x.ra2 /\ y.ard = x.ard
          /\ y.over = x.over /\ y.resume = x.resume /\ y.run = x.run /\ y.q = x.q /\ y.frag = x.frag
      BY <2>2 DEF Fields
    <2> HIDE DEF y
    <2>5. First(y)
      BY <2>2, <2>4, FirstSame
    <2>6. z.init = "SecurityResult" /\ z.auth = y.auth /\ z.ra2 = "none" /\ z.ard = y.ard /\ z.over = y.over
      BY <2>4 DEF Ra2End, Fields
    <2> HIDE DEF z
    <2>7. First(z) /\ z.init \notin Early
      BY <2>5, <2>6 DEF First, Placed, Early
    <2> QED BY <2>2, <2>3, <2>4, <2>5, <2>7
  <1>6. s = 1 => First(d) /\ (d.init \in Early => rfb[1].init \in Early /\ d.evs # <<"credentialsrequired">>)
    <2>1. SUFFICES ASSUME s = 1
                   PROVE First(d) /\ (d.init \in Early => rfb[1].init \in Early
                                                          /\ d.evs # <<"credentialsrequired">>)
      OBVIOUS
    <2>2. First(c) /\ c.init = rfb[1].init
      BY <2>1 DEF FirstInv
    <2>3. d.evs = <<>> /\ <<>> # <<"credentialsrequired">>
      BY <1>2 DEF Begun
    <2> HIDE DEF c, d
    <2> QED BY <1>5, <2>2, <2>3
  <1> HIDE DEF d, u
  <1>7. Turned(d, d)
    BY <1>2 DEF Begun, Turned, Keeps, Quiet
  <1>8. rfb[s].conn # "disconnected"
    BY <1>1 DEF Up
  <1> QED BY <1>1, <1>3, <1>4, <1>6, <1>7, <1>8, FirstSettle

\* What the page does by itself.
LEMMA FirstUi == ASSUME FirstInv, rfb' = rfb, ui'.credDlg => ui.credDlg PROVE FirstInv'
  BY DEF FirstInv

\* A connection attempt: the first object, or another once the first is down.
LEMMA FirstConnect ==
  ASSUME PageInv, FirstInv, ui.rfb = 0, NEW w, NEW password \in BOOLEAN, Connect(w, password),
         w \in Page, w.rfb = 0
  PROVE FirstInv'
  <1> DEFINE v == UpdateVisualState([w EXCEPT !.panel = FALSE], "connecting")
             creds == IF password THEN {"password"} ELSE {}
             made == Connecting(Fresh(FALSE, creds))
             over == [UpdateVisualState(v, "disconnected") EXCEPT !.stuck = TRUE]
  <1>1. v \in Page /\ v.credDlg = FALSE
    <2>1. [w EXCEPT !.panel = FALSE] \in Page
      BY DEF Page
    <2> QED BY <2>1 DEF Page, UpdateVisualState, VisualStates
  <1>2. \/ /\ Unused # {}
           /\ \E viewOnly \in BOOLEAN :
                 Settle(Latest, SetViewOnly(made, viewOnly), [v EXCEPT !.rfb = Latest])
        \/ rfb' = rfb /\ ui' = over
    BY DEF Connect
  <1>3. ASSUME rfb' = rfb, ui' = over PROVE FirstInv'
    <2> HIDE DEF v
    <2>1. over.credDlg = FALSE
      BY <1>1 DEF UpdateVisualState, Page
    <2> HIDE DEF over
    <2> QED BY <1>3, <2>1, FirstUi
  <1>4. ASSUME Unused # {}, NEW viewOnly \in BOOLEAN,
               Settle(Latest, SetViewOnly(made, viewOnly), [v EXCEPT !.rfb = Latest])
        PROVE FirstInv'
    <2> DEFINE s == Latest
               u == [v EXCEPT !.rfb = s]
               d == SetViewOnly(made, viewOnly)
               e == Collect([d EXCEPT !.evs = <<>>])
               next == [rfb EXCEPT ![s] = e]
    <2>1. s \in Sessions /\ rfb[s].conn = "" /\ \A t \in Unused : s <= t
      <3>1. s \in Unused /\ \A t \in Unused : s <= t
        BY <1>4, LatestUnused
      <3> HIDE DEF s
      <3> QED BY <3>1 DEF Unused
    <2>2. Turned(made, d)
      BY MadeBegun, ViewOnlyTurned
    <2>3. d.evs = <<>> /\ First(d)
      <3>1. /\ Placed(d) /\ d.evs = <<>> /\ d.init = "" /\ d.resume = 0 /\ d.run = "idle"
            /\ d.over = "no"
        BY FreshGood
      <3> HIDE DEF d
      <3> QED BY <3>1 DEF First
    <2>4. ui' = u /\ rfb' = next
      <3>1. rfb' = next /\ ui' = Heard(u, s, d.evs)
        BY <1>4 DEF Settle, Heard
      <3> HIDE DEF s, u, d, next
      <3> QED BY <2>3, <3>1, ReactToNone
    <2> HIDE DEF s
    <2>5. u.credDlg = FALSE
      BY <1>1 DEF Page
    <2>6. First(e)
      <3>1. DOMAIN d = Fields
        BY <2>2 DEF Turned, Link
      <3> HIDE DEF d
      <3> QED BY <2>3, <3>1, CollectFirst
    <2> HIDE DEF u, d, e
    <2>7. \A t \in Sessions : next[t] = IF t = s THEN e ELSE rfb[t]
      BY DEF PageInv, Objects
    <2> HIDE DEF next
    <2>8. 1 \in Sessions /\ Sessions \subseteq Nat /\ \A t \in Sessions : 1 <= t
      BY SessionsAssumption DEF Sessions
    <2>9. CASE s = 1
      <3>1. \A t \in Sessions : t # 1 => rfb[t].conn = ""
        BY <2>1, <2>9 DEF FirstInv
      <3>2. \A t \in Sessions : t # 1 => next[t].conn = ""
        BY <2>7, <2>9, <3>1
      <3>3. First(next[1])
        BY <2>6, <2>7, <2>8, <2>9
      <3> QED BY <2>4, <2>5, <3>2, <3>3 DEF FirstInv
    <2>10. CASE s # 1
      <3>1. 1 \notin Unused
        <4>1. SUFFICES ASSUME 1 \in Unused PROVE FALSE
          OBVIOUS
        <4>2. s <= 1 /\ 1 <= s /\ s \in Nat
          BY <2>1, <2>8, <4>1
        <4> QED BY <2>10, <4>2
      <3>2. rfb[1].conn # ""
        BY <2>8, <3>1 DEF Unused
      <3>3. ~Up(rfb[1])
        BY <2>8 DEF PageInv, Follows
      <3>4. Fresh(FALSE, {}).conn = ""
        BY DEF Fresh
      <3>5. Begun(rfb[1])
        BY <2>8, <3>2, <3>4, ActiveBegun
      <3>6. rfb[1].conn = "disconnected"
        BY <3>2, <3>3, <3>5 DEF Begun, Link, ConnStates, Up
      <3>7. next[1] = rfb[1]
        BY <2>7, <2>8, <2>10
      <3> QED BY <2>4, <3>6, <3>7 DEF FirstInv
    <2> QED BY <2>9, <2>10
  <1> HIDE DEF v, made, over
  <1> QED BY <1>2, <1>3, <1>4

\* What the page and the user do besides.
LEMMA FirstSmall ==
  ASSUME PageInv, FirstInv,
         \/ CancelReconnect \/ SetReconnect \/ CloseControlbar \/ \E s \in Sessions : DigestDone(s)
         \/ ClickConnect \/ Reconnect \/ ClickDisconnect \/ ClickReject
  PROVE FirstInv'
  <1>1. CASE CancelReconnect
    <2> DEFINE u == UpdateVisualState(ui, "disconnected")
    <2>1. u \in Page /\ u.credDlg = FALSE
      BY DEF PageInv, Page, UpdateVisualState, VisualStates
    <2>2. rfb' = rfb /\ ui' = [u EXCEPT !.reconnecting = FALSE, !.panel = TRUE]
      BY <1>1 DEF CancelReconnect
    <2> HIDE DEF u
    <2>3. ui'.credDlg = FALSE
      BY <2>1, <2>2 DEF Page
    <2> QED BY <2>2, <2>3, FirstUi
  <1>2. CASE SetReconnect
    BY <1>2, FirstUi DEF SetReconnect, PageInv, Page
  <1>3. CASE CloseControlbar
    BY <1>3, FirstUi DEF CloseControlbar, PageInv, Page
  <1>4. ASSUME NEW s \in Sessions, DigestDone(s) PROVE FirstInv'
    BY <1>4, FirstUi DEF DigestDone, PageInv, Page
  <1>5. CASE ClickConnect
    <2>1. ui \in Page /\ ui.rfb = 0
      BY <1>5 DEF PageInv, Ways, ClickConnect
    <2>2. PICK password \in BOOLEAN : Connect(ui, password)
      BY <1>5 DEF ClickConnect
    <2> QED BY <2>1, <2>2, FirstConnect
  <1>6. CASE Reconnect
    <2> DEFINE u == [ui EXCEPT !.reconnecting = FALSE]
    <2>1. u \in Page /\ u.rfb = 0 /\ ui.rfb = 0 /\ ~ui.inhibit
      BY <1>6 DEF PageInv, Page, Ways, Reconnect
    <2>2. PICK password \in BOOLEAN : Connect(u, password)
      BY <1>6, <2>1 DEF Reconnect
    <2> HIDE DEF u
    <2> QED BY <2>1, <2>2, FirstConnect
  <1>7. CASE ClickDisconnect
    BY <1>7, UiAlike, FirstDisconnect DEF ClickDisconnect
  <1>8. CASE ClickReject
    <2>1. Alike(ui, [ui EXCEPT !.verify = FALSE])
      BY DEF PageInv, Alike, Page
    <2> QED BY <1>8, <2>1, FirstDisconnect DEF ClickReject
  <1> QED BY <1>1, <1>2, <1>3, <1>4, <1>5, <1>6, <1>7, <1>8

\* Every step keeps the first connection in order.
LEMMA FirstStep == PageInv /\ LiveInv /\ FirstInv /\ [Next]_vars => FirstInv'
  <1> SUFFICES ASSUME PageInv, LiveInv, FirstInv, [Next]_vars PROVE FirstInv'
    OBVIOUS
  <1>1. CASE UNCHANGED vars
    BY <1>1, FirstUi DEF vars
  <1>2. ASSUME NEW s \in Sessions,
               LoopStep(s) \/ CryptoDone(s) \/ Resume(s) \/ DisconnectTimeout(s)
                 \/ WsOpen(s) \/ Serve(s) \/ Deliver(s)
        PROVE FirstInv'
    BY <1>2, FirstLoop, FirstCrypto, FirstResume, FirstTimeout, FirstOpens, FirstServe, FirstDeliver
  <1>3. CASE System
    BY <1>2, <1>3 DEF System
  <1>4. ASSUME NEW s \in Sessions, DigestDone(s) \/ WsClose(s) PROVE FirstInv'
    BY <1>4, FirstSmall, FirstClose
  <1> QED BY <1>1, <1>3, <1>4, FirstSmall, FirstCredentials, FirstApprove, FirstViewOnly DEF Next

\* At first no object has been created.
LEMMA InitFirstInv == Init => FirstInv
  <1> SUFFICES ASSUME Init PROVE FirstInv
    OBVIOUS
  <1>1. 1 \in Sessions
    BY SessionsAssumption DEF Sessions
  <1> DEFINE f == Fresh(FALSE, {})
  <1>2. /\ f.init = "" /\ f.auth = "" /\ f.ra2 = "none" /\ f.ard = "none" /\ f.over = "no"
        /\ f.resume = 0 /\ f.run = "idle" /\ f.conn = ""
    BY DEF Fresh
  <1>3. (\A s \in Sessions : rfb[s] = f) /\ ui.credDlg = FALSE
    BY DEF Init
  <1> HIDE DEF f
  <1>4. First(f)
    BY <1>2 DEF First, Placed
  <1> QED BY <1>1, <1>2, <1>3, <1>4 DEF FirstInv

\* The handshake of the first connection never looks at the number of security types before
\* it is there, for every server and every order of the answers.
THEOREM NothingReadAhead == Spec => []NoReadAhead
  <1>1. FirstInv => NoReadAhead
    BY DEF FirstInv, First, NoReadAhead
  <1> QED BY <1>1, PageInvHolds, InitLive, LiveStep, InitFirstInv, FirstStep, PTL DEF Spec
=============================================================================
