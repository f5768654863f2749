------------------------------- MODULE VncUi -------------------------------
(***************************************************************************)
(* The console page around the RFB objects: connecting, reconnecting by    *)
(* itself, the dialogs for credentials and for the server's key, and the   *)
(* timers of the page.  The page keeps at most one object in UI.rfb, but   *)
(* promises and timers of an earlier one may still answer.  JavaScript runs *)
(* one handler at a time: while an object's loop runs, nothing else does.  *)
(***************************************************************************)
EXTENDS RfbConnection, SequencesExt

CONSTANTS
    MaxSessions,    \* bound on the objects created
    Offers          \* the security types the server of each object may ask for

Sessions == 1..MaxSessions

ASSUME SessionsAssumption == MaxSessions \in Nat \ {0} /\ Offers \in [Sessions -> SUBSET SchemeNames]

VARIABLES
    rfb,    \* the RFB objects, by order of creation
    ui      \* the page

vars == <<rfb, ui>>

VisualStates == {"init", "connecting", "connected", "disconnecting", "disconnected",
                 "reconnecting"}

Init ==
    /\ rfb = [s \in Sessions |-> Fresh(FALSE, {})]
    /\ ui = [rfb |-> 0, connected |-> FALSE, inhibit |-> TRUE, reconnecting |-> FALSE,
             visual |-> "init", panel |-> TRUE, verify |-> FALSE, credDlg |-> FALSE,
             digests |-> {}, bar |-> FALSE,
             stuck |-> FALSE, wantReconnect |-> FALSE]

-----------------------------------------------------------------------------
(* Operations of the page *)

\* Mutant of UpdateVisualState: a disconnection does not clear the timer of the bar.
UpdateVisualStateLate(u, state) ==
    [u EXCEPT !.visual = state, !.bar = @ \/ u.connected, !.verify = FALSE, !.credDlg = FALSE]

\* A change of state closes the dialogs, and arms or clears the timer of the bar.
UpdateVisualState(u, state) ==
    [u EXCEPT !.visual = state, !.bar = u.connected, !.verify = FALSE, !.credDlg = FALSE]

ConnectFinished(u) ==
    UpdateVisualState([u EXCEPT !.connected = TRUE, !.inhibit = FALSE], "connected")

DisconnectFinished(u, clean) ==
    LET down == [u EXCEPT !.connected = FALSE, !.rfb = 0]
        told == IF clean THEN down
                ELSE UpdateVisualState(down, "disconnected")
    IN  IF u.wantReconnect /\ ~u.inhibit
        THEN [UpdateVisualState(told, "reconnecting") EXCEPT !.reconnecting = TRUE]
        ELSE [UpdateVisualState(told, "disconnected") EXCEPT !.panel = TRUE]

\* The page's listener for an event of object s.
React(u, s, e) ==
    CASE e = "connect" -> ConnectFinished(u)
      [] e = "disconnect" -> DisconnectFinished(u, TRUE)
      [] e = "disconnectUnclean" -> DisconnectFinished(u, FALSE)
      [] e = "credentialsrequired" -> [u EXCEPT !.credDlg = TRUE]
      [] e = "serververification" -> [u EXCEPT !.digests = @ \union {s}]
      [] e = "securityfailure" -> u

\* An object that is down and has no timer, promise or event of its own pending is
\* garbage once UI.rfb is undefined: what it read and knew is forgotten.
Collect(c) ==
    IF c.conn = "disconnected" /\ c.ws \in {"closing", "closed"} /\ c.run = "idle" /\ c.resume = 0
          /\ c.ra2 \notin Ra2Crypto /\ c.ard # "busy"
    THEN [Fresh(FALSE, {}) EXCEPT
             !.conn = c.conn, !.ws = c.ws, !.on = c.on \ {"open", "message"}, !.timer = c.timer,
             !.attached = c.attached, !.grabbed = c.grabbed, !.late = c.late, !.hears = c.hears, !.over = c.over,
             !.turn = "none"]
    ELSE c

\* Object s becomes c; its events reach the page's listeners in order.
Settle(s, c, u) ==
    /\ rfb' = [rfb EXCEPT ![s] = Collect([c EXCEPT !.evs = <<>>])]
    /\ ui' = FoldLeft(LAMBDA v, e : React(v, s, e), u, c.evs)

Unused == {s \in Sessions : rfb[s].conn = ""}
Latest == CHOOSE s \in Unused : \A t \in Unused : s <= t

\* UI.connect: ignored while there is an object.  The constructor may throw.
Connect(u, password) ==
    LET v == UpdateVisualState([u EXCEPT !.panel = FALSE], "connecting")
        made == Connecting(Fresh(FALSE, IF password THEN {"password"} ELSE {}))
    IN  IF u.rfb # 0 THEN UNCHANGED rfb /\ ui' = u
        ELSE \/ /\ Unused # {}
                /\ \E viewOnly \in BOOLEAN :
                      Settle(Latest, SetViewOnly(made, viewOnly), [v EXCEPT !.rfb = Latest])
             \/ /\ UNCHANGED rfb
                /\ ui' = [UpdateVisualState(v, "disconnected") EXCEPT !.stuck = TRUE]

UiDisconnect(u) ==
    Settle(u.rfb, Disconnect(rfb[u.rfb]),
           UpdateVisualState([u EXCEPT !.connected = FALSE, !.inhibit = TRUE], "disconnecting"))

-----------------------------------------------------------------------------
Idle == \A s \in Sessions : rfb[s].run = "idle"

\* One call of _initMsg or _normalMsg of the loop that runs.
LoopStep(s) ==
    /\ rfb[s].run # "idle"
    /\ Settle(s, IF rfb[s].run = "normal" THEN NormalMsg(rfb[s]) ELSE InitMsg(rfb[s]), ui)

(* The user *)

ClickConnect ==
    /\ Idle /\ ui.panel
    /\ \E password \in BOOLEAN : Connect(ui, password)

ClickDisconnect == Idle /\ ui.visual = "connected" /\ ui.rfb # 0 /\ UiDisconnect(ui)

\* Mutant of CancelReconnect: the timer is not cleared.
CancelReconnectLate ==
    /\ \A s \in Sessions : rfb[s].run = "idle"
    /\ ui.visual = "reconnecting"
    /\ ui' = [UpdateVisualState(ui, "disconnected") EXCEPT !.panel = TRUE]
    /\ UNCHANGED rfb

CancelReconnect ==
    /\ Idle /\ ui.visual = "reconnecting"
    /\ ui' = [UpdateVisualState(ui, "disconnected") EXCEPT !.reconnecting = FALSE, !.panel = TRUE]
    /\ UNCHANGED rfb

\* With no object the listener throws, and the dialog stays.
SetCredentials ==
    /\ Idle /\ ui.credDlg /\ ui.rfb # 0
    /\ rfb[ui.rfb].resume < MaxResumes
    /\ Settle(ui.rfb, SendCredentials(rfb[ui.rfb], {"username", "password"}),
              [ui EXCEPT !.credDlg = FALSE])

ClickApprove ==
    /\ Idle /\ ui.verify /\ ui.rfb # 0
    /\ Settle(ui.rfb, ApproveServer(rfb[ui.rfb]), [ui EXCEPT !.verify = FALSE])

ClickReject == Idle /\ ui.verify /\ ui.rfb # 0 /\ UiDisconnect([ui EXCEPT !.verify = FALSE])

SetReconnect ==
    /\ Idle /\ ui' = [ui EXCEPT !.wantReconnect = ~@] /\ UNCHANGED rfb

UpdateViewOnly ==
    /\ Idle /\ ui.rfb # 0
    /\ Settle(ui.rfb, SetViewOnly(rfb[ui.rfb], ~rfb[ui.rfb].viewOnly), ui)

(* Timers and promises *)

Reconnect ==
    /\ Idle /\ ui.reconnecting
    /\ LET u == [ui EXCEPT !.reconnecting = FALSE]
       IN  IF ui.inhibit THEN ui' = u /\ UNCHANGED rfb
           ELSE \E password \in BOOLEAN : Connect(u, password)

\* closeControlbar moves the focus to the object.
CloseControlbar == Idle /\ ui.bar /\ ui' = [ui EXCEPT !.bar = FALSE] /\ UNCHANGED rfb

\* serverVerify goes on after the digest: it opens the dialog.
DigestDone(s) ==
    /\ Idle /\ s \in ui.digests
    /\ ui' = [ui EXCEPT !.digests = @ \ {s}, !.verify = TRUE]
    /\ UNCHANGED rfb

CryptoDone(s) ==
    /\ Idle
    /\ \/ \E ok \in BOOLEAN : Ra2MayAnswer(rfb[s], ok) /\ Settle(s, Ra2CryptoDone(rfb[s], ok), ui)
       \/ rfb[s].ard = "busy" /\ rfb[s].resume < MaxResumes /\ Settle(s, ArdDone(rfb[s]), ui)

Resume(s) == Idle /\ rfb[s].resume > 0 /\ Settle(s, ResumeAuthentication(rfb[s]), ui)

DisconnectTimeout(s) == Idle /\ rfb[s].timer /\ Settle(s, Disconnected(rfb[s]), ui)

(* The socket and the server *)

WsOpen(s) ==
    /\ Idle /\ rfb[s].ws = "connecting"
    /\ LET c == [rfb[s] EXCEPT !.ws = "open"]
       IN  Settle(s, IF "open" \in c.on THEN SocketOpen(c) ELSE c, ui)

\* The server or the network ends the connection, or the closing handshake is over.
WsClose(s) ==
    /\ Idle /\ rfb[s].ws \in {"connecting", "open", "closing"}
    /\ LET c == [rfb[s] EXCEPT !.ws = "closed", !.net = <<>>, !.turn = "none"]
       IN  Settle(s, IF "close" \in c.on THEN SocketClose(c) ELSE c, ui)

Serve(s) ==
    /\ Idle /\ rfb[s].ws = "open" /\ Len(rfb[s].net) < 2
    /\ \E reply \in Replies(rfb[s], Offers[s]) : Settle(s, ServerSend(rfb[s], reply), ui)

Deliver(s) ==
    /\ Idle /\ rfb[s].ws = "open" /\ rfb[s].hears
    /\ \E n \in 0..Len(rfb[s].net), partly \in BOOLEAN :
          /\ partly => n < Len(rfb[s].net)
          /\ n > 0 \/ (partly /\ ~rfb[s].frag)
          /\ Settle(s, HandleMessage(Arrive(rfb[s], n, partly)), ui)

System ==
    \E s \in Sessions :
        \/ LoopStep(s) \/ CryptoDone(s) \/ Resume(s) \/ DisconnectTimeout(s)
        \/ WsOpen(s) \/ Serve(s) \/ Deliver(s)

Next ==
    \/ ClickConnect \/ ClickDisconnect \/ CancelReconnect \/ SetCredentials
    \/ ClickApprove \/ ClickReject \/ SetReconnect \/ UpdateViewOnly
    \/ Reconnect \/ CloseControlbar
    \/ System
    \/ \E s \in Sessions : DigestDone(s) \/ WsClose(s)

Spec == Init /\ [][Next]_vars

-----------------------------------------------------------------------------
(* Properties *)

SessionOK(c) ==
    /\ c.conn \in ConnStates /\ c.init \in InitStates /\ c.ver \in Versions
    /\ c.auth \in SchemeNames \union {""} /\ c.venc \in 0..4
    /\ c.tight \in BOOLEAN /\ c.clean \in BOOLEAN /\ c.viewOnly \in BOOLEAN
    /\ c.creds \subseteq {"username", "password", "target"} /\ c.needs \subseteq {"username", "password"}
    /\ c.ard \in {"none", "busy", "ready", "spent"} /\ c.ra2 \in Ra2Steps
    /\ c.ws \in {"unused", "connecting", "open", "closing", "closed"}
    /\ c.on \subseteq {"open", "message", "close"} /\ c.hears \in BOOLEAN
    /\ c.timer \in BOOLEAN /\ c.resume \in 0..MaxResumes
    /\ c.attached \in BOOLEAN /\ c.grabbed \in BOOLEAN /\ c.late \in BOOLEAN
    /\ c.run \in {"idle", "init", "once", "normal"} /\ c.over \in {"no", "count", "random"}
    /\ c.evs = <<>>

\* The types of the page and of every object.
UiTypeOK ==
    /\ \A s \in Sessions : SessionOK(rfb[s])
    /\ ui.rfb \in Sessions \union {0} /\ ui.visual \in VisualStates
    /\ ui.digests \subseteq Sessions

\* An object on its way down has given everything back: the screen and its listeners,
\* the keyboard and the socket.  On the way a timer is pending, so that it ends whatever
\* the socket does; once down, the timer and the close handler are gone, so that
\* nothing announces the end a second time.  (One call takes the keyboard again: a timer of
\* the handshake that fires when the object is down, and finds messages nobody read.)
ReleasedWhenDown ==
    \A s \in Sessions : LET c == rfb[s] IN
        /\ c.conn \in {"disconnecting", "disconnected"} =>
              ~c.attached /\ (~c.grabbed \/ c.late) /\ ~c.hears /\ c.ws \notin {"connecting", "open"}
        /\ c.conn = "disconnecting" => c.timer /\ "close" \in c.on
        /\ c.conn = "disconnected" => ~c.timer /\ "close" \notin c.on

\* The page's idea of the connection is the object's: UI.rfb is the one object that
\* is not down yet, connected only when that object is, and the timer of the control
\* bar, whose handler uses UI.rfb, is pending only while there is one.
UiFollowsRfb ==
    /\ \A s \in Sessions : rfb[s].conn \notin {"", "disconnected"} <=> ui.rfb = s
    /\ ui.connected => ui.rfb # 0 /\ rfb[ui.rfb].conn = "connected"
    /\ ui.bar => ui.rfb # 0

\* The page never strands the user: with no object there is the connect panel or a
\* pending reconnection, never both, and the latter only if nobody disconnected.
\* (A constructor that throws leaves neither: see the findings.)
UserHasAWay ==
    /\ ui.rfb = 0 /\ ~ui.stuck => (ui.panel # ui.reconnecting)
    /\ ui.reconnecting => ui.rfb = 0 /\ ~ui.inhibit

\* A handshake that stops with a message of the server in the queue waits for the
\* user or for a promise: no message lies there for want of a call.
NoMessageForgotten ==
    \A s \in Sessions : LET c == rfb[s] IN
        c.conn = "connecting" /\ c.run = "idle" /\ Has(c) =>
            /\ c.init = "Authentication"
            /\ ui.credDlg \/ c.resume > 0 \/ c.ra2 \in Ra2Crypto

\* The handshake of a page's first connection never reads the count of security types
\* before it has arrived, though that read has no wait of its own.  (A later one may:
\* the answer to a question left over from the first reaches it, see the findings.)
NoReadAhead == rfb[1].over # "count"

\* "State change closes dialogs as they may not be relevant anymore": with no
\* connection there is no dialog about one.
NoDialogWithoutConnection == ui.rfb = 0 => ~ui.verify /\ ~ui.credDlg
=============================================================================
