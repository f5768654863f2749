--------------------------- MODULE RfbConnection ---------------------------
(***************************************************************************)
(* One RFB object of the VNC console: its connection states, the handshake *)
(* from the protocol version to ServerInit with every security type, the   *)
(* RA2 and ARD exchanges that go on between messages, and the way down.    *)
(* The object is a record; a handler is an operator from the record to the *)
(* record it leaves, and the module that owns the objects (VncUi) applies  *)
(* them.  A message of the server is a pair <<kind, value>>; the receive   *)
(* queue q holds those that have arrived whole, and frag tells that bytes  *)
(* of one more are there.                                                  *)
(***************************************************************************)
EXTENDS Naturals, Sequences, FiniteSets

CONSTANTS
    MaxResumes,   \* bound on pending _initMsg timers
    MaxNormal     \* bound on messages after ServerInit

SchemeNames == {"None", "VNC", "XVP", "ARD", "Tight", "VeNCrypt", "Plain",
                "Unix", "RA2", "MSLogon"}

ASSUME ConnectionAssumption ==
    MaxResumes \in Nat /\ MaxNormal \in Nat

ConnStates == {"", "connecting", "connected", "disconnecting", "disconnected"}
InitStates == {"", "ProtocolVersion", "Security", "Authentication", "SecurityResult",
               "SecurityReason", "ClientInitialisation", "ServerInitialisation"}
Versions == {"", "3.3", "3.7", "3.8"}
\* Where negotiateRA2neAuthAsync stands: a wait for the socket, the user or the
\* credentials, or (crypt...) a promise of the crypto library.
Ra2Waits == {"key", "random", "hash", "subtype"}
Ra2Crypto == {"cryptKey", "cryptSend", "cryptRandom", "cryptHash", "cryptSub", "cryptCreds"}
Ra2Steps == {"none", "approve", "creds"} \union Ra2Waits \union Ra2Crypto

\* A new RFB object before its constructor starts the connection.
Fresh(viewOnly, creds) ==
    [conn |-> "", init |-> "", ver |-> "", auth |-> "", venc |-> 0, tight |-> FALSE,
     clean |-> TRUE, creds |-> creds, ard |-> "none", ra2 |-> "none", needs |-> {}, ws |-> "unused",
     on |-> {"open", "message", "close"}, hears |-> FALSE, timer |-> FALSE, resume |-> 0,
     attached |-> FALSE, grabbed |-> FALSE, late |-> FALSE, viewOnly |-> viewOnly, run |-> "idle",
     q |-> <<>>, frag |-> FALSE, over |-> "no", net |-> <<>>, turn |-> "version",
     sent |-> 0, evs |-> <<>>]

Emit(c, e) == [c EXCEPT !.evs = Append(@, e)]

-----------------------------------------------------------------------------
(* Connection states *)

\* _connect: the WebSocket, the screen and the input listeners.
Connecting(c) ==
    IF c.conn = ""
    THEN [c EXCEPT !.conn = "connecting", !.ws = "connecting", !.hears = TRUE, !.attached = TRUE]
    ELSE c

Connected(c) ==
    IF c.conn = "connecting" THEN Emit([c EXCEPT !.conn = "connected"], "connect") ELSE c

\* Mutant of Detach: the keyboard stays grabbed.
DetachKeepingKeys(c) ==
    [c EXCEPT !.attached = FALSE, !.hears = FALSE,
              !.ws = IF @ \in {"connecting", "open"} THEN "closing" ELSE @]

\* Everything _disconnect takes down.
Detach(c) ==
    [c EXCEPT !.attached = FALSE, !.grabbed = FALSE, !.hears = FALSE,
              !.ws = IF @ \in {"connecting", "open"} THEN "closing" ELSE @]

Disconnecting(c) ==
    IF c.conn \in {"connecting", "connected"}
    THEN [Detach(c) EXCEPT !.conn = "disconnecting", !.timer = TRUE]
    ELSE c

Disconnected(c) ==
    IF c.conn = "disconnecting"
    THEN Emit([c EXCEPT !.conn = "disconnected", !.timer = FALSE,
                        !.on = IF c.timer THEN @ \ {"close"} ELSE @],
              IF c.clean THEN "disconnect" ELSE "disconnectUnclean")
    ELSE c

Fail(c) == Disconnected(Disconnecting([c EXCEPT !.clean = FALSE]))

SocketOpen(c) ==
    IF c.conn = "connecting" /\ c.init = "" THEN [c EXCEPT !.init = "ProtocolVersion"] ELSE Fail(c)

SocketClose(c) ==
    LET down == CASE c.conn = "connected" -> Disconnected(Disconnecting(c))
                  [] c.conn = "disconnecting" -> Disconnected(c)
                  [] OTHER -> Fail(c)
    IN  [down EXCEPT !.on = @ \ {"close"}]

-----------------------------------------------------------------------------
(* Returning from _initMsg: with true the loop of _handleMessage goes on while *)
(* the object is connecting; the timer of _resumeAuthentication makes one call. *)

Done(c) == [c EXCEPT !.run = "idle"]
More(c) == IF c.run = "init" /\ c.conn = "connecting" THEN c ELSE Done(c)

Has(c) == c.q # <<>>
Val(c) == Head(c.q)[2]
Take(c) == [c EXCEPT !.q = Tail(@)]
\* What the server does once the message the client sends now has reached it.
Send(c, turn) == IF c.ws = "open" THEN [c EXCEPT !.turn = turn] ELSE c
Knows(c, needs) == needs \subseteq c.creds
AskCredentials(c) == Done(Emit(c, "credentialsrequired"))

\* The first thing the server sends for a security type.
Opening(auth, ver) ==
    CASE auth = "None" -> IF ver = "3.8" THEN "result" ELSE "none"
      [] auth = "VNC" -> "challenge"
      [] auth = "ARD" -> "ardkey"
      [] auth = "Tight" -> "tunnels"
      [] auth = "VeNCrypt" -> "vversion"
      [] auth = "RA2" -> "ra2key"
      [] auth = "MSLogon" -> "dhparam"
      [] OTHER -> "none"

\* Mutant of NegotiateProtocolVersion: it returns true, and the loop goes on.
NegotiateProtocolVersionOn(c) ==
    IF ~Has(c) THEN Done(c)
    ELSE LET t == Take(c) IN
         CASE Val(c) = "repeater" -> More(Send(t, "version"))
           [] Val(c) \in Versions ->
                 More([Send(t, "security") EXCEPT !.ver = Val(c), !.init = "Security"])
           [] OTHER -> Done(Fail(t))

NegotiateProtocolVersion(c) ==
    IF ~Has(c) THEN Done(c)
    ELSE LET t == Take(c) IN
         CASE Val(c) = "repeater" -> More(Send(t, "version"))
           [] Val(c) \in Versions ->
                 Done([Send(t, "security") EXCEPT !.ver = Val(c), !.init = "Security"])
           [] OTHER -> Done(Fail(t))

\* From 3.7 on the count is read with no wait of its own: over records a read with
\* nothing in the queue.
NegotiateSecurity(c) ==
    IF ~Has(c)
    THEN Done([c EXCEPT !.over = IF c.ver # "3.3" /\ ~c.frag THEN "count" ELSE @])
    ELSE LET t == Take(c) IN
         CASE Val(c) = "empty" -> More([t EXCEPT !.init = "SecurityReason"])
           [] Val(c) \in SchemeNames ->
                 More([(IF c.ver # "3.3" THEN Send(t, Opening(Val(c), c.ver)) ELSE t)
                           EXCEPT !.auth = Val(c), !.init = "Authentication"])
           [] OTHER -> Done(Fail(t))

HandleSecurityReason(c) ==
    IF ~Has(c) THEN Done(c) ELSE Done(Fail(Emit(Take(c), "securityfailure")))

-----------------------------------------------------------------------------
(* Security types *)

NegotiateStdVNC(c) ==
    CASE ~Has(c) -> Done(c)
      [] Has(c) /\ ~Knows(c, {"password"}) -> AskCredentials(c)
      [] OTHER -> More([Send(Take(c), "result") EXCEPT !.init = "SecurityResult"])

\* The names are sent and the VNC challenge is awaited.
NegotiateXvp(c) ==
    IF Knows(c, {"username", "password", "target"})
    THEN NegotiateStdVNC([Send(c, "challenge") EXCEPT !.auth = "VNC"])
    ELSE AskCredentials(c)

\* Plain and TightVNC's Unix login: the name and the password, then the result.
NegotiatePlain(c) ==
    IF Knows(c, {"username", "password"})
    THEN More([Send(c, "result") EXCEPT !.init = "SecurityResult"])
    ELSE AskCredentials(c)

\* Four states that fall through: a call does as many as have arrived.
NegotiateVeNCrypt(c) ==
    IF ~Has(c) THEN Done(c)
    ELSE LET t == Take(c) IN
         CASE Val(c) = "bad" -> Done(Fail(t))
           [] c.venc = 0 -> [Send(t, "vack") EXCEPT !.venc = 1]
           [] c.venc \in {1, 2} -> [t EXCEPT !.venc = @ + 1]
           [] OTHER -> More([Send(t, Opening(Val(c), c.ver)) EXCEPT !.auth = Val(c), !.venc = 4])

\* Keys computed by the promise are sent; otherwise the server's key is read, once.
NegotiateARD(c) ==
    CASE ~Knows(c, {"username", "password"}) -> AskCredentials(c)
      [] Knows(c, {"username", "password"}) /\ c.ard = "ready" ->
            More([Send(c, "result") EXCEPT !.ard = "spent", !.init = "SecurityResult"])
      [] Knows(c, {"username", "password"}) /\ c.ard # "ready" /\ Has(c) ->
            Done([Take(c) EXCEPT !.ard = "busy"])
      [] OTHER -> Done(c)

\* _negotiateARDAuthAsync: the encrypted credentials are there, and a timer resumes.
ArdDone(c) == [c EXCEPT !.ard = "ready", !.resume = @ + 1]

\* The first pass reads the tunnels, the second the authentication types.
NegotiateTight(c) ==
    IF ~Has(c) THEN Done(c)
    ELSE LET t == Take(c) IN
         IF ~c.tight
         THEN CASE Val(c) = "zero" -> [t EXCEPT !.tight = TRUE]
                [] Val(c) = "notunnel" -> Done([Send(t, "subauth") EXCEPT !.tight = TRUE])
                [] OTHER -> Done(Fail([t EXCEPT !.tight = TRUE]))
         ELSE CASE Val(c) = "zero" -> More([t EXCEPT !.init = "SecurityResult"])
                [] Val(c) = "noauth" -> More([Send(t, "result") EXCEPT !.init = "SecurityResult"])
                [] Val(c) \in {"VNC", "Unix"} ->
                      More([Send(t, Opening(Val(c), c.ver)) EXCEPT !.auth = Val(c)])
                [] OTHER -> Done(Fail(t))

\* The parameters are awaited, then the credentials; they are read once both are there.
NegotiateMSLogon(c) ==
    CASE ~Has(c) -> Done(c)
      [] Has(c) /\ ~Knows(c, {"username", "password"}) -> AskCredentials(c)
      [] OTHER -> More([Send(Take(c), "result") EXCEPT !.init = "SecurityResult"])

-----------------------------------------------------------------------------
(* RA2: one async function, whose waits for the socket and for the credentials *)
(* are looked at again by each call of the handshake.                         *)

\* The function ends: by an error, which fails the connection unless it is the
\* rejection of disconnect(), or by itself; the init state moves on in all cases.
Ra2End(c) == [c EXCEPT !.init = "SecurityResult", !.ra2 = "none"]
Ra2Throw(c) == Ra2End(Fail(c))

Ra2Next(w) == CASE w = "key" -> "cryptKey" [] w = "random" -> "cryptRandom"
                [] w = "hash" -> "cryptHash" [] w = "subtype" -> "cryptSub"

\* The credentials a subtype asks for.
Needs(subtype) == IF subtype = "user" THEN {"username", "password"} ELSE {"password"}

\* The server's random is read when its length is there, whole or not.
Ra2Wait(c, w) ==
    CASE Has(c) /\ Val(c) = "bad" -> Ra2Throw(Take(c))
      [] Has(c) /\ Val(c) # "bad" ->
            [Take(c) EXCEPT !.ra2 = Ra2Next(w), !.needs = IF w = "subtype" THEN Needs(Val(c)) ELSE @]
      [] ~Has(c) /\ w = "random" /\ c.frag -> [c EXCEPT !.ra2 = "cryptRandom", !.over = "random"]
      [] OTHER -> [c EXCEPT !.ra2 = w]

CheckInternalEvents(c) ==
    CASE c.ra2 \in Ra2Waits -> Ra2Wait(c, c.ra2)
      [] c.ra2 = "creds" /\ Knows(c, c.needs) -> [c EXCEPT !.ra2 = "cryptCreds"]
      [] OTHER -> c

NegotiateRA2(c) == Done(IF c.ra2 = "none" THEN Ra2Wait(c, "key") ELSE CheckInternalEvents(c))

\* A promise of the crypto library answers; ok is the check made on its answer.
Ra2CryptoDone(c, ok) ==
    CASE c.ra2 = "cryptKey" -> Emit([c EXCEPT !.ra2 = "approve"], "serververification")
      [] c.ra2 = "cryptSend" -> Ra2Wait(Send(c, "ra2random"), "random")
      [] c.ra2 = "cryptRandom" /\ ok -> Ra2Wait(Send(c, "ra2hash"), "hash")
      [] c.ra2 = "cryptHash" /\ ok -> Ra2Wait(c, "subtype")
      [] c.ra2 = "cryptSub" /\ ok /\ Knows(c, c.needs) -> [c EXCEPT !.ra2 = "cryptCreds"]
      [] c.ra2 = "cryptSub" /\ ok /\ ~Knows(c, c.needs) ->
            Emit([c EXCEPT !.ra2 = "creds"], "credentialsrequired")
      [] c.ra2 = "cryptCreds" -> Ra2End(Send(c, "result"))
      [] OTHER -> Ra2Throw(c)

\* A corrupted random fails its check.
Ra2MayAnswer(c, ok) ==
    /\ c.ra2 \in Ra2Crypto
    /\ ok \/ c.ra2 \in {"cryptRandom", "cryptHash", "cryptSub"}
    /\ ok => c.over = "no"

-----------------------------------------------------------------------------
(* The rest of the handshake *)

NegotiateAuthentication(c) ==
    CASE c.auth = "None" ->
            More([c EXCEPT !.init = IF c.ver = "3.8" THEN "SecurityResult" ELSE "ClientInitialisation"])
      [] c.auth = "XVP" -> NegotiateXvp(c)
      [] c.auth = "ARD" -> NegotiateARD(c)
      [] c.auth = "VNC" -> NegotiateStdVNC(c)
      [] c.auth = "Tight" -> NegotiateTight(c)
      [] c.auth = "VeNCrypt" -> NegotiateVeNCrypt(c)
      [] c.auth \in {"Plain", "Unix"} -> NegotiatePlain(c)
      [] c.auth = "RA2" -> NegotiateRA2(c)
      [] c.auth = "MSLogon" -> NegotiateMSLogon(c)
      [] OTHER -> Done(Fail(c))

\* Mutant of HandleSecurityResult: a refusal returns false before its reason is read.
HandleSecurityResultStops(c) ==
    IF ~Has(c) THEN Done(c)
    ELSE LET t == Take(c) IN
         CASE Val(c) = "ok" -> More([t EXCEPT !.init = "ClientInitialisation"])
           [] Val(c) # "ok" /\ c.ver = "3.8" -> Done([t EXCEPT !.init = "SecurityReason"])
           [] OTHER -> Done(Fail(Emit(t, "securityfailure")))

HandleSecurityResult(c) ==
    IF ~Has(c) THEN Done(c)
    ELSE LET t == Take(c) IN
         CASE Val(c) = "ok" -> More([t EXCEPT !.init = "ClientInitialisation"])
           [] Val(c) # "ok" /\ c.ver = "3.8" -> More([t EXCEPT !.init = "SecurityReason"])
           [] OTHER -> Done(Fail(Emit(t, "securityfailure")))

\* late: a call left over from the handshake takes what is in the queue for ServerInit.
NegotiateServerInit(c) ==
    IF ~Has(c) THEN Done(c)
    ELSE More(Connected([Send(Take(c), "normal") EXCEPT
                            !.grabbed = @ \/ ~c.viewOnly, !.late = @ \/ c.conn # "connecting"]))

\* One call of _initMsg (VeNCrypt and Tight: one state of it).
InitMsg(c) ==
    CASE c.init = "ProtocolVersion" -> NegotiateProtocolVersion(c)
      [] c.init = "Security" -> NegotiateSecurity(c)
      [] c.init = "Authentication" -> NegotiateAuthentication(c)
      [] c.init = "SecurityResult" -> HandleSecurityResult(c)
      [] c.init = "SecurityReason" -> HandleSecurityReason(c)
      [] c.init = "ClientInitialisation" ->
            More([Send(c, "serverinit") EXCEPT !.init = "ServerInitialisation"])
      [] c.init = "ServerInitialisation" -> NegotiateServerInit(c)
      [] OTHER -> Done(Fail(c))

\* One message once connected.  A message the client refuses fails the connection
\* and may return true all the same: the loop does not look at the state again.
NormalMsg(c) ==
    IF ~Has(c) THEN Done(c)
    ELSE LET t == Take(c)
             r == IF Val(c) = "good" THEN t ELSE Fail(t)
         IN  IF Val(c) # "badStop" /\ (Has(t) \/ t.frag) THEN r ELSE Done(r)

\* The socket has data: which loop handles it.
HandleMessage(c) ==
    CASE "message" \notin c.on -> c
      [] "message" \in c.on /\ c.conn = "connecting" -> [c EXCEPT !.run = "init"]
      [] "message" \in c.on /\ c.conn = "connected" -> [c EXCEPT !.run = "normal"]
      [] OTHER -> c

\* The timer of _resumeAuthentication: one _initMsg, whatever the state is by then.
ResumeAuthentication(c) == [c EXCEPT !.resume = @ - 1, !.run = "once"]

-----------------------------------------------------------------------------
(* The methods the page calls *)

Disconnect(c) ==
    LET d == [Disconnecting(c) EXCEPT !.on = @ \ {"open", "message"}]
    IN  IF c.ra2 \in Ra2Waits \union {"approve", "creds"} THEN Ra2End(d) ELSE d

ApproveServer(c) == IF c.ra2 = "approve" THEN [c EXCEPT !.ra2 = "cryptSend"] ELSE c

SendCredentials(c, creds) ==
    [c EXCEPT !.creds = creds, !.ard = IF @ = "busy" THEN @ ELSE "none", !.resume = @ + 1]

SetViewOnly(c, on) ==
    [c EXCEPT !.viewOnly = on,
              !.grabbed = IF c.conn \in {"connecting", "connected"} THEN ~on ELSE @]

-----------------------------------------------------------------------------
(* The server: what it may send next, and what it sends after that of itself; *)
(* offers are the security types it may ask for.                               *)

Replies(c, offers) ==
    LET All(kind, vals, next) == {<<<<kind, v>>, next>> : v \in vals} IN
    CASE c.turn = "version" ->
            All("version", {"3.3", "3.7", "3.8", "unknown"}, "none")
            \union (IF c.sent < MaxNormal THEN All("version", {"repeater"}, "none") ELSE {})
      [] c.turn = "security" /\ c.ver # "3.3" ->
            All("types", offers \union {"unknown"}, "none") \union All("types", {"empty"}, "reason")
      [] c.turn = "security" /\ c.ver = "3.3" ->
            {<<<<"scheme", x>>, Opening(x, "3.3")>> : x \in offers}
            \union All("scheme", {"empty"}, "reason")
      [] c.turn = "tunnels" ->
            All("tunnels", {"notunnel", "bad"}, "none") \union All("tunnels", {"zero"}, "subauth")
      [] c.turn = "subauth" ->
            All("subauth", {"noauth", "VNC", "Unix", "unknown"}, "none")
            \union All("subauth", {"zero"}, "result")
      [] c.turn = "vversion" -> All("vencrypt", {"ok", "bad"}, "none")
      [] c.turn = "vack" -> All("vencrypt", {"ok", "bad"}, "vlength")
      [] c.turn = "vlength" -> All("vencrypt", {"ok", "bad"}, "vsubs")
      [] c.turn = "vsubs" -> All("vencrypt", (offers \ {"VeNCrypt"}) \union {"bad"}, "none")
      [] c.turn \in {"challenge", "ardkey", "dhparam", "reason"} -> All(c.turn, {"ok"}, "none")
      [] c.turn \in {"ra2key", "ra2random"} -> All(c.turn, {"ok", "bad"}, "none")
      [] c.turn = "ra2hash" -> All(c.turn, {"ok", "bad"}, "ra2sub")
      [] c.turn = "ra2sub" -> All(c.turn, {"user", "pass"}, "none")
      [] c.turn = "result" ->
            All("result", {"ok"}, "none")
            \union All("result", {"refused"}, IF c.ver = "3.8" THEN "reason" ELSE "none")
      [] c.turn = "serverinit" -> All("serverinit", {"ok"}, "normal")
      [] c.turn = "normal" /\ c.sent < MaxNormal -> All("message", {"good", "bad", "badStop"}, "normal")
      [] OTHER -> {}

ServerSend(c, reply) ==
    [c EXCEPT !.net = Append(@, reply[1]), !.turn = reply[2],
              !.sent = IF reply[1][1] = "message" \/ reply[1] = <<"version", "repeater">>
                       THEN @ + 1 ELSE @]

\* n messages of the network arrive whole, and perhaps the beginning of the next.
Arrive(c, n, partly) ==
    [c EXCEPT !.q = @ \o SubSeq(c.net, 1, n),
              !.net = SubSeq(@, n + 1, Len(@)),
              !.frag = partly]
=============================================================================
