---------------------------- MODULE TrafficFeed ----------------------------
(***************************************************************************)
(* The hook of the lab page that keeps a WebSocket to the live traffic of  *)
(* its lab: it connects when the page is shown or turns to another lab,    *)
(* closes when the page is left, and connects again three seconds after a  *)
(* socket was lost.  The network and the backend are external: a socket    *)
(* may open, fail to open, or close with a code of its own at any time.    *)
(***************************************************************************)
EXTENDS LabRoutes, Naturals, Sequences

CONSTANT
    Sockets         \* sockets that exist at a time, reused once they are closed

VARIABLES
    feed,       \* the hook of the mounted page: its references, and what the page shows
    sockets,    \* the sockets of the browser
    timers,     \* reconnections that are due, in the order they were planned and will run
    turned      \* the page turned from one lab to another without being left

feedVars == <<feed, sockets, timers, turned>>

NoSocket == "no socket"

ASSUME FeedAssumption == NoSocket \notin Sockets

Left == [lab |-> NoLab, ref |-> NoSocket, should |-> FALSE, connected |-> FALSE, final |-> FALSE,
         planned |-> FALSE]
Free == [state |-> "free", lab |-> NoLab, mine |-> FALSE, was |-> FALSE]
Opening(lab) == [state |-> "connecting", lab |-> lab, mine |-> TRUE, was |-> FALSE]

Alive(s) == sockets[s].state \in {"connecting", "open"}

Hook == [lab : Labs \union {NoLab}, ref : Sockets \union {NoSocket}, should : BOOLEAN,
         connected : BOOLEAN, final : BOOLEAN,
         planned : BOOLEAN]     \* the hook refers to a reconnection, due or over
Socket == [state : {"free", "connecting", "open", "closing"}, lab : Labs \union {NoLab},
           mine : BOOLEAN, was : BOOLEAN]

\* The lab of the closure that will run, and whether its hook is the one of the mounted page.
Due == [lab : Labs, mine : BOOLEAN]

FeedTypeOK ==
    /\ feed \in Hook /\ sockets \in [Sockets -> Socket]
    /\ timers \in Seq(Due) /\ turned \in BOOLEAN

FeedInit == feed = Left /\ sockets = [s \in Sockets |-> Free] /\ timers = <<>> /\ turned = FALSE

-----------------------------------------------------------------------------
(* connect and disconnect, over the hook f and the sockets ss *)

\* A new socket, unless the reference holds one.
Connected(f, ss, lab) ==
    IF f.ref # NoSocket THEN {[feed |-> f, sockets |-> ss]}
    ELSE {[feed |-> [f EXCEPT !.ref = s], sockets |-> [ss EXCEPT ![s] = Opening(lab)]] :
             s \in {t \in Sockets : ss[t].state = "free"}}

\* Mutant of Closing: the socket is left to itself.
ClosingNone(f, ss) == ss

\* The socket of the reference is told to close; its close event comes later.
Closing(f, ss) ==
    [s \in Sockets |-> IF s = f.ref /\ ss[s].state # "free"
                       THEN [ss[s] EXCEPT !.state = "closing", !.was = ss[s].state = "open"] ELSE ss[s]]

\* The reconnection the hook refers to is called off.  All wait equally long: if it is still
\* due it is the last.  One that was planned before it, or before the page turned, stays.
CalledOff == IF feed.planned /\ timers # <<>> THEN SubSeq(timers, 1, Len(timers) - 1) ELSE timers

-----------------------------------------------------------------------------
(* The page *)

MountFeed(lab) ==
    /\ feed.lab = NoLab
    /\ \E n \in Connected([Left EXCEPT !.lab = lab, !.should = TRUE], sockets, lab) :
           feed' = n.feed /\ sockets' = n.sockets
    /\ UNCHANGED <<timers, turned>>

\* The hook of the page that is left cannot be reached from the next one: its sockets are
\* no longer mine, and their events change nothing any more.
UnmountFeed ==
    /\ feed.lab # NoLab
    /\ sockets' = [s \in Sockets |-> [Closing(feed, sockets)[s] EXCEPT !.mine = FALSE]]
    /\ feed' = Left
    /\ timers' = [k \in DOMAIN CalledOff |-> [CalledOff[k] EXCEPT !.mine = FALSE]]
    /\ UNCHANGED turned

\* The page turns to another lab: the effect is cleaned up and run again, with the same
\* references.
TurnFeed(lab) ==
    /\ feed.lab \notin {NoLab, lab}
    /\ \E n \in Connected([Left EXCEPT !.lab = lab, !.should = TRUE], Closing(feed, sockets), lab) :
           feed' = n.feed /\ sockets' = n.sockets
    /\ timers' = CalledOff /\ turned' = TRUE

-----------------------------------------------------------------------------
(* Events *)

SocketOpens(s) ==
    /\ sockets[s].state = "connecting"
    /\ sockets' = [sockets EXCEPT ![s].state = "open"]
    /\ feed' = IF sockets[s].mine THEN [feed EXCEPT !.connected = TRUE] ELSE feed
    /\ UNCHANGED <<timers, turned>>

\* Mutant of Reconnects: only a socket that was open is connected again.
ReconnectsOpen(s, normal) == feed.should /\ ~normal /\ sockets[s].state = "open"

\* Auto-reconnect if not intentionally closed: by the code of the event.
Reconnects(s, normal) == feed.should /\ ~normal

\* The close event, whichever side closed: the reference is cleared whatever it holds, and
\* a reconnection to the lab of this socket is planned.  A socket that never opened has no
\* normal close, and one that this side closed while open has one if the network holds.
SocketCloses(s, normal) ==
    /\ sockets[s].state # "free"
    /\ normal => sockets[s].state = "open" \/ (sockets[s].state = "closing" /\ sockets[s].was)
    /\ sockets' = [sockets EXCEPT ![s] = Free]
    /\ IF sockets[s].mine
       THEN /\ feed' = [feed EXCEPT !.connected = FALSE, !.ref = NoSocket, !.final = @ \/ normal,
                                    !.planned = @ \/ Reconnects(s, normal)]
            /\ timers' = IF Reconnects(s, normal)
                         THEN Append(timers, [lab |-> sockets[s].lab, mine |-> TRUE]) ELSE timers
       ELSE UNCHANGED <<feed, timers>>
    /\ UNCHANGED turned

\* Three seconds later the closure of that time connects, to its lab.
TimerOfPage(lab) ==
    \E n \in Connected(feed, sockets, lab) : feed' = n.feed /\ sockets' = n.sockets

\* One that was not called off runs for a page that was left: a socket nobody will close,
\* unless another one of that page is there.
TimerOfNobody(lab) ==
    /\ \/ \E s \in Sockets : /\ sockets[s].state = "free"
                             /\ sockets' = [sockets EXCEPT ![s] = [Opening(lab) EXCEPT !.mine = FALSE]]
       \/ UNCHANGED sockets
    /\ UNCHANGED feed

TimerFires ==
    /\ timers # <<>>
    /\ timers' = Tail(timers)
    /\ IF Head(timers).mine THEN TimerOfPage(Head(timers).lab) ELSE TimerOfNobody(Head(timers).lab)
    /\ UNCHANGED turned

-----------------------------------------------------------------------------

FeedStep ==
    \/ TimerFires
    \/ \E s \in Sockets : SocketOpens(s) \/ \E normal \in BOOLEAN : SocketCloses(s, normal)

FeedNext ==
    \/ \E lab \in Labs : MountFeed(lab) \/ TurnFeed(lab)
    \/ UnmountFeed \/ FeedStep

\* Timers fire, a close that was begun ends, and a backend that is tried again and again
\* takes the connection once.
FeedFairness ==
    /\ WF_feedVars(TimerFires)
    /\ \A s \in Sockets :
           /\ SF_feedVars(SocketOpens(s))
           /\ WF_feedVars(sockets[s].state = "closing" /\ \E normal \in BOOLEAN : SocketCloses(s, normal))

FeedSpec == FeedInit /\ [][FeedNext]_feedVars /\ FeedFairness

-----------------------------------------------------------------------------
(* Properties *)

\* As long as no page turned to another lab, a socket that lives is the one the page has in
\* its reference, for the lab the page shows: a page that was left keeps none, and traffic
\* of one lab is not shown in another.
OneFeed ==
    ~turned => \A s \in Sockets : Alive(s) => feed.ref = s /\ sockets[s].lab = feed.lab

\* A feed that was lost comes back while its page stays, unless the backend ended it
\* normally or the page turned.
FeedReturns ==
    \A lab \in Labs : (feed.lab = lab) ~> (feed.connected \/ feed.lab # lab \/ feed.final \/ turned)

\* "Connect on mount, disconnect on unmount" (useTrafficWebSocket.js:176): a page that was
\* left keeps no socket, whatever happened while it was there.
NoFeedAfterwards == feed.lab = NoLab => \A s \in Sockets : ~Alive(s)
=============================================================================
