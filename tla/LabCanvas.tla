------------------------------ MODULE LabCanvas ------------------------------
(***************************************************************************)
(* The page of a lab in the browser: the nodes, links and texts of its     *)
(* canvas, what the mouse holds, its dialogs, and the requests that keep   *)
(* the backend in step.  The page stays when it turns to another lab: only *)
(* the load is made again.  The backend and the user are external.  A      *)
(* place stands for coordinates; networks, status, names and the view are  *)
(* left out, and nothing of them is sent.                                  *)
(***************************************************************************)
EXTENDS LabRoutes, Naturals, FiniteSets, Sequences

CONSTANTS
    Nodes, Texts, Ifaces,
    Home,           \* the lab each node is in at first, if any
    Wires,          \* the links the backend has at first: an interface may be missing
    SrcDefault, DstDefault,     \* what the page puts there: GigabitEthernet0/0 and eth0
    MaxPlace,       \* bound on places; place 0 is the left or the upper edge
    MaxRequests,    \* bound on requests of each kind in flight
    MaxGestures     \* bound on what the user does on the canvas

Gone == "gone"
Nothing == "none"
Places == 0..MaxPlace

\* The links of the canvas: a drawn one has an identity of its own making, lnk-<time>.
Links == [src : Nodes, si : Ifaces, dst : Nodes, di : Ifaces, drawn : BOOLEAN]
Wire == [src : Nodes, si : Ifaces \union {Nothing}, dst : Nodes, di : Ifaces \union {Nothing}]

ASSUME CanvasAssumption ==
    /\ MaxPlace \in Nat \ {0} /\ MaxRequests \in Nat /\ MaxGestures \in Nat
    /\ Nodes \intersect Texts = {} /\ Nothing \notin Nodes \union Texts \union Ifaces /\ Gone \notin Labs
    /\ Home \in [Nodes -> Labs \union {NoLab}]
    /\ Wires \subseteq Wire /\ SrcDefault \in Ifaces /\ DstDefault \in Ifaces

VARIABLES
    view,       \* the lab of the address, if the page is mounted, and "Loading lab..."
    nodes, links, texts,        \* what the canvas shows
    hand,       \* what the mouse drags and the node a new link starts from
    dialogs,    \* dialogs and menu: interfaces, deletion, new nodes, node menu
    chosen,     \* the selection: a set, or the one thing that was grabbed last
    flight,     \* loads, creations of nodes, other requests, creations of texts
    db,         \* the rows of the backend
    past,       \* history: something was cut off or overtaken; a request failed
    gestures    \* how many gestures the user made

canvasVars == <<view, nodes, links, texts, hand, dialogs, chosen, flight, db, past, gestures>>

NoNode == [on |-> FALSE, at |-> 0, temp |-> FALSE]
NoText == [on |-> FALSE, at |-> 0, saved |-> FALSE]
Empty == [isSet |-> TRUE, ids |-> {}]
NoRow == [lab |-> NoLab, at |-> 0]
Closed == [link |-> <<>>, doomed |-> {}, form |-> FALSE, menu |-> Nothing]
NoHold == [id |-> Nothing, saved |-> FALSE]
EmptyHand == [held |-> NoHold, wire |-> Nothing]

\* What a load asks for, and what decides when it is shown; the name of the lab is left out.
Answers == {"topology", "texts"}

CanvasTypeOK ==
    /\ view \in [lab : Labs \union {NoLab}, loading : BOOLEAN]
    /\ nodes \in [Nodes -> [on : BOOLEAN, at : Places, temp : BOOLEAN]]
    /\ links \subseteq Links
    /\ texts \in [Texts -> [on : BOOLEAN, at : Places, saved : BOOLEAN]]
    /\ hand \in [held : [id : Nodes \union Texts \union {Nothing}, saved : BOOLEAN], wire : Nodes \union {Nothing}]
    /\ dialogs.link = <<>> \/ dialogs.link \in Nodes \X Nodes
    /\ dialogs.doomed \subseteq Nodes /\ dialogs.form \in BOOLEAN /\ dialogs.menu \in Nodes \union {Nothing}
    /\ chosen.isSet \in BOOLEAN /\ chosen.ids \subseteq Nodes \union Texts
    /\ \A k \in DOMAIN flight.loads : flight.loads[k].lab \in Labs /\ flight.loads[k].due \subseteq Answers
    /\ db.node \in [Nodes -> [lab : Labs \union {NoLab, Gone}, at : Places]]
    /\ db.text \in [Texts -> [lab : Labs \union {NoLab, Gone}, at : Places]]
    /\ past \in [mixed : BOOLEAN, refused : BOOLEAN] /\ gestures \in 0..MaxGestures

CanvasInit ==
    /\ view = [lab |-> NoLab, loading |-> FALSE]
    /\ nodes = [n \in Nodes |-> NoNode] /\ links = {} /\ texts = [t \in Texts |-> NoText]
    /\ hand = EmptyHand /\ dialogs = Closed /\ chosen = Empty
    /\ flight = [loads |-> <<>>, adds |-> <<>>, sent |-> {}, posts |-> {}]
    /\ db = [node |-> [n \in Nodes |-> [lab |-> Home[n], at |-> 1]], text |-> [t \in Texts |-> NoRow]]
    /\ past = [mixed |-> FALSE, refused |-> FALSE] /\ gestures = 0

-----------------------------------------------------------------------------
(* The load *)

\* Nothing is under way that a change of the page, or a load, would cut off or mix up.
Settled == flight.adds = <<>> /\ flight.sent = {} /\ flight.posts = {} /\ hand = EmptyHand /\ dialogs = Closed
Loading == flight.loads # <<>>

Mixed == [past EXCEPT !.mixed = @ \/ ~Settled \/ Loading]

\* Three requests at once; the backend has served none of them yet.
NewLoad(lab) == [lab |-> lab, due |-> Answers, node |-> [n \in Nodes |-> NoRow], text |-> [t \in Texts |-> NoRow]]

\* A new page: an empty canvas and a load.
MountCanvas(lab) ==
    /\ view.lab = NoLab
    /\ view' = [lab |-> lab, loading |-> TRUE]
    /\ flight' = [flight EXCEPT !.loads = Append(@, NewLoad(lab))]
    /\ past' = Mixed
    /\ UNCHANGED <<nodes, links, texts, hand, dialogs, chosen, db>>

\* What a page leaves behind goes on in the backend and shows nowhere.
UnmountCanvas ==
    /\ view.lab # NoLab
    /\ view' = [lab |-> NoLab, loading |-> FALSE]
    /\ nodes' = [n \in Nodes |-> NoNode] /\ links' = {} /\ texts' = [t \in Texts |-> NoText]
    /\ hand' = EmptyHand /\ dialogs' = Closed /\ chosen' = Empty
    /\ flight' = [flight EXCEPT !.loads = <<>>,
                                !.adds = [k \in DOMAIN @ |-> [@[k] EXCEPT !.mine = FALSE]],
                                !.posts = {[p EXCEPT !.mine = FALSE] : p \in @}]
    /\ past' = Mixed
    /\ UNCHANGED db

\* The address turns to another lab: the canvas stays as it is, and can be worked on, until
\* the load is there.
TurnCanvas(lab) ==
    /\ view.lab \notin {NoLab, lab}
    /\ view' = [view EXCEPT !.lab = lab]
    /\ flight' = [flight EXCEPT !.loads = Append(@, NewLoad(lab))]
    /\ past' = Mixed
    /\ UNCHANGED <<nodes, links, texts, hand, dialogs, chosen, db>>

\* The backend serves the requests of load k, each with the rows it has then.
TopologyServed(k) ==
    LET load == flight.loads[k] IN
    /\ "topology" \in load.due
    /\ flight' = [flight EXCEPT !.loads[k] = [load EXCEPT !.due = load.due \ {"topology"}, !.node = db.node]]
    /\ UNCHANGED <<view, nodes, links, texts, hand, dialogs, chosen, db, past>>

TextsServed(k) ==
    LET load == flight.loads[k] IN
    /\ "texts" \in load.due
    /\ flight' = [flight EXCEPT !.loads[k] = [load EXCEPT !.due = load.due \ {"texts"}, !.text = db.text]]
    /\ UNCHANGED <<view, nodes, links, texts, hand, dialogs, chosen, db, past>>

Without(s, k) == SubSeq(s, 1, k - 1) \o SubSeq(s, k + 1, Len(s))

\* Where a node is shown that was saved at p: the edge is false, and gives the default.
ShownAt(p) == IF p = 0 THEN MaxPlace ELSE p

\* How a link of the backend is drawn: a missing interface gets the default of its side.
ShownLink(w) ==
    [src |-> w.src, si |-> IF w.si = Nothing THEN SrcDefault ELSE w.si,
     dst |-> w.dst, di |-> IF w.di = Nothing THEN DstDefault ELSE w.di, drawn |-> FALSE]

\* A row of the lab of the load is not what it was when the load was served.
Outdated(load, seen, now) == \E x \in DOMAIN now : load.lab \in {seen[x].lab, now[x].lab} /\ seen[x] # now[x]

\* When all is there the canvas shows it, as it was and whatever lab it is for.
LoadAnswered(k) ==
    LET load == flight.loads[k]
        old == Outdated(load, load.node, db.node) \/ Outdated(load, load.text, db.text) IN
    /\ load.due = {}
    /\ flight' = [flight EXCEPT !.loads = Without(@, k)]
    /\ view' = [view EXCEPT !.loading = FALSE]
    /\ nodes' = [n \in Nodes |-> IF load.node[n].lab = load.lab
                                 THEN [NoNode EXCEPT !.on = TRUE, !.at = ShownAt(load.node[n].at)] ELSE NoNode]
    /\ links' = {ShownLink(w) : w \in {v \in Wires : load.lab = load.node[v.src].lab /\ load.lab = load.node[v.dst].lab}}
    /\ texts' = [t \in Texts |-> IF load.text[t].lab = load.lab
                                 THEN [on |-> TRUE, at |-> load.text[t].at, saved |-> TRUE] ELSE NoText]
    /\ past' = [past EXCEPT !.mixed = @ \/ ~Settled \/ old]
    /\ UNCHANGED <<hand, dialogs, chosen, db>>

\* One of the three fails: nothing is shown.
LoadFails(k) ==
    /\ flight' = [flight EXCEPT !.loads = Without(@, k)]
    /\ view' = [view EXCEPT !.loading = FALSE]
    /\ past' = [past EXCEPT !.refused = TRUE]
    /\ UNCHANGED <<nodes, links, texts, hand, dialogs, chosen, db>>

-----------------------------------------------------------------------------
(* Requests that change rows.  Errors are logged and change nothing here. *)

Put(n, p) == [kind |-> "put", id |-> n, at |-> p]
Del(x) == [kind |-> "delete", id |-> x, at |-> 0]
Room(rs) == Cardinality(flight.sent \union rs) <= MaxRequests

\* The backend takes them in any order.
RequestServed(r) ==
    /\ r \in flight.sent
    /\ flight' = [flight EXCEPT !.sent = @ \ {r}]
    /\ db' = IF r.id \in Texts THEN [db EXCEPT !.text[r.id].lab = Gone]
             ELSE IF db.node[r.id].lab \notin Labs THEN db
             ELSE IF r.kind = "put" THEN [db EXCEPT !.node[r.id].at = r.at]
             ELSE [db EXCEPT !.node[r.id].lab = Gone]
    /\ UNCHANGED <<view, nodes, links, texts, hand, dialogs, chosen, past>>

RequestFails(r) ==
    /\ r \in flight.sent
    /\ flight' = [flight EXCEPT !.sent = @ \ {r}]
    /\ past' = [past EXCEPT !.refused = TRUE]
    /\ UNCHANGED <<view, nodes, links, texts, hand, dialogs, chosen, db>>

\* Requests rs are sent; one that overtakes another for the same node is out of order.
Sent(rs) ==
    /\ Room(rs)
    /\ flight' = [flight EXCEPT !.sent = @ \union rs]
    /\ past' = [past EXCEPT !.mixed = @ \/ \E r \in rs, s \in flight.sent : r.id = s.id]

-----------------------------------------------------------------------------
(* The mouse *)

Ready == view.lab # NoLab /\ ~view.loading
Uncovered == Ready /\ dialogs.link = <<>> /\ ~dialogs.form

\* With any button, on a node or a text: the selection is no set any more.
StartDrag(x) ==
    /\ Uncovered /\ hand.held = NoHold
    /\ \/ x \in Nodes /\ nodes[x].on /\ hand.wire = Nothing
       \/ x \in Texts /\ texts[x].on
    /\ hand' = [hand EXCEPT !.held = [id |-> x, saved |-> x \in Texts /\ texts[x].saved]]
    /\ chosen' = [isSet |-> FALSE, ids |-> {x}]
    /\ dialogs' = [dialogs EXCEPT !.menu = Nothing]
    /\ UNCHANGED <<view, nodes, links, texts, flight, db, past>>

\* A text that got its identity from the backend meanwhile is not found any more.
OnMove(p) ==
    /\ hand.held # NoHold
    /\ LET x == hand.held.id IN
       IF x \in Nodes
       THEN nodes' = [nodes EXCEPT ![x] = IF @.on THEN [@ EXCEPT !.at = p] ELSE @] /\ UNCHANGED texts
       ELSE /\ texts' = [texts EXCEPT ![x] = IF @.on /\ @.saved = hand.held.saved THEN [@ EXCEPT !.at = p] ELSE @]
            /\ UNCHANGED nodes
    /\ UNCHANGED <<view, links, hand, dialogs, chosen, flight, db, past>>

\* The texts of the render that made the handlers, the first one: there were none yet.
TextsThen == {}

\* Mutant of ToSave: nodes, too, are looked up in the first render.
ToSaveThen(x) == {Put(t, texts[t].at) : t \in TextsThen \intersect {x}}

\* What the release of x tells the backend: nodes are looked up in a reference.
ToSave(x) ==
    IF x \in Nodes THEN (IF nodes[x].on /\ ~nodes[x].temp THEN {Put(x, nodes[x].at)} ELSE {})
    ELSE {Put(t, texts[t].at) : t \in TextsThen \intersect {x}}

OnUp ==
    /\ hand.held # NoHold
    /\ Sent(ToSave(hand.held.id))
    /\ hand' = [hand EXCEPT !.held = NoHold]
    /\ UNCHANGED <<view, nodes, links, texts, dialogs, chosen, db>>

\* A box over the canvas selects the nodes in it; a click selects nothing.
BoxSelect(ns) ==
    /\ Uncovered /\ hand.held = NoHold
    /\ \A n \in ns : nodes[n].on
    /\ chosen' = [isSet |-> TRUE, ids |-> ns]
    /\ dialogs' = [dialogs EXCEPT !.menu = Nothing]
    /\ UNCHANGED <<view, nodes, links, texts, hand, flight, db, past>>

\* The nodes of the selection come to a common place between their outermost ones.
Align(p) ==
    LET ns == {n \in Nodes : nodes[n].on /\ n \in chosen.ids} IN
    /\ Uncovered /\ hand.held = NoHold
    /\ chosen.isSet /\ Cardinality(ns) >= 2
    /\ \E n \in ns : nodes[n].at <= p
    /\ \E n \in ns : nodes[n].at >= p
    /\ nodes' = [n \in Nodes |-> IF n \in ns THEN [nodes[n] EXCEPT !.at = p] ELSE nodes[n]]
    /\ Sent({Put(n, p) : n \in {m \in ns : ~nodes[m].temp}})
    /\ UNCHANGED <<view, links, texts, hand, dialogs, chosen, db>>

-----------------------------------------------------------------------------
(* Links.  They are drawn on the canvas and sent to nobody. *)

StartConnect(n) ==
    /\ Uncovered /\ hand.held = NoHold /\ nodes[n].on
    /\ hand' = [hand EXCEPT !.wire = n]
    /\ dialogs' = [dialogs EXCEPT !.menu = Nothing]
    /\ UNCHANGED <<view, nodes, links, texts, chosen, flight, db, past>>

\* Released over another node, the dialog opens; elsewhere, or with "ESC Cancel", nothing does.
EndConnect(n) ==
    /\ hand.wire # Nothing /\ hand.held = NoHold
    /\ hand' = [hand EXCEPT !.wire = Nothing]
    /\ IF n # Nothing /\ n # hand.wire
       THEN nodes[n].on /\ dialogs' = [dialogs EXCEPT !.link = <<hand.wire, n>>]
       ELSE UNCHANGED dialogs
    /\ UNCHANGED <<view, nodes, links, texts, chosen, flight, db, past>>

\* Mutant of UsedIfaces: only links that start at the node count.
UsedIfacesOut(n) == {l.si : l \in {k \in links : k.src = n}}

UsedIfaces(n) == {l.si : l \in {k \in links : k.src = n}} \union {l.di : l \in {k \in links : k.dst = n}}

FinishLink(si, di) ==
    /\ dialogs.link # <<>>
    /\ LET src == dialogs.link[1]  dst == dialogs.link[2] IN
       /\ si \notin UsedIfaces(src) /\ di \notin UsedIfaces(dst)
       /\ links' = links \union {[src |-> src, si |-> si, dst |-> dst, di |-> di, drawn |-> TRUE]}
    /\ dialogs' = [dialogs EXCEPT !.link = <<>>]
    /\ UNCHANGED <<view, nodes, texts, hand, chosen, flight, db, past>>

CancelLink ==
    /\ dialogs.link # <<>>
    /\ dialogs' = [dialogs EXCEPT !.link = <<>>]
    /\ UNCHANGED <<view, nodes, links, texts, hand, chosen, flight, db, past>>

-----------------------------------------------------------------------------
(* The menu of a node, and deletion *)

\* A right click on a node grabs it first, and where the selection is no set the handler of
\* the menu raises: the menu opens for a press on a port, or while a link is being drawn.
NodeMenu(n) ==
    /\ Uncovered /\ nodes[n].on /\ hand.wire # Nothing /\ chosen.isSet
    /\ chosen' = IF n \in chosen.ids THEN chosen ELSE [chosen EXCEPT !.ids = {n}]
    /\ dialogs' = [dialogs EXCEPT !.menu = n]
    /\ UNCHANGED <<view, nodes, links, texts, hand, flight, db, past>>

AskDelete ==
    /\ dialogs.menu # Nothing
    /\ dialogs' = [dialogs EXCEPT !.menu = Nothing,
                       !.doomed = IF Cardinality(chosen.ids) > 1 THEN chosen.ids \intersect Nodes ELSE {dialogs.menu}]
    /\ UNCHANGED <<view, nodes, links, texts, hand, chosen, flight, db, past>>

CancelDelete ==
    /\ dialogs.doomed # {}
    /\ dialogs' = [dialogs EXCEPT !.doomed = {}]
    /\ UNCHANGED <<view, nodes, links, texts, hand, chosen, flight, db, past>>

ConfirmDelete ==
    /\ dialogs.doomed # {}
    /\ Sent({Del(n) : n \in {m \in dialogs.doomed : ~nodes[m].temp}})
    /\ nodes' = [n \in Nodes |-> IF n \in dialogs.doomed THEN NoNode ELSE nodes[n]]
    /\ links' = {l \in links : l.src \notin dialogs.doomed /\ l.dst \notin dialogs.doomed}
    /\ chosen' = Empty
    /\ dialogs' = [dialogs EXCEPT !.doomed = {}]
    /\ UNCHANGED <<view, texts, hand, db>>

-----------------------------------------------------------------------------
(* New nodes *)

AddNodeToCanvas ==
    /\ Uncovered /\ hand.held = NoHold
    /\ dialogs' = [dialogs EXCEPT !.form = TRUE]
    /\ UNCHANGED <<view, nodes, links, texts, hand, chosen, flight, db, past>>

CloseForm ==
    /\ dialogs.form
    /\ dialogs' = [dialogs EXCEPT !.form = FALSE]
    /\ UNCHANGED <<view, nodes, links, texts, hand, chosen, flight, db, past>>

\* The form stays until the nodes are there: it can be confirmed again.
ConfirmAddNodes(qty) ==
    /\ dialogs.form /\ Len(flight.adds) < MaxRequests
    /\ flight' = [flight EXCEPT !.adds = Append(@, [lab |-> view.lab, left |-> qty, made |-> {}, mine |-> TRUE])]
    /\ UNCHANGED <<view, nodes, links, texts, hand, dialogs, chosen, db, past>>

Unused(n) == db.node[n].lab = NoLab

\* One after the other; a node the backend refuses is shown all the same, under an identity
\* no row will have, and lives here only.
\* After the last one they all appear, and the form closes.
NodeAdded(k, n, ok) ==
    LET run == [flight.adds[k] EXCEPT !.left = @ - 1, !.made = @ \union {[id |-> n, temp |-> ~ok]}] IN
    /\ Unused(n)
    /\ db' = [db EXCEPT !.node[n] = [lab |-> IF ok THEN run.lab ELSE Gone, at |-> 1]]
    /\ IF run.left > 0
       THEN flight' = [flight EXCEPT !.adds[k] = run] /\ UNCHANGED <<nodes, dialogs>>
       ELSE /\ flight' = [flight EXCEPT !.adds = Without(@, k)]
            /\ IF run.mine
               THEN /\ nodes' = [m \in Nodes |->
                                   IF [id |-> m, temp |-> TRUE] \in run.made THEN [on |-> TRUE, at |-> 1, temp |-> TRUE]
                                   ELSE IF [id |-> m, temp |-> FALSE] \in run.made
                                        THEN [on |-> TRUE, at |-> 1, temp |-> FALSE] ELSE nodes[m]]
                    /\ dialogs' = [dialogs EXCEPT !.form = FALSE]
               ELSE UNCHANGED <<nodes, dialogs>>
    /\ UNCHANGED <<view, links, texts, hand, chosen, past>>

-----------------------------------------------------------------------------
(* Texts *)

AddText(t) ==
    /\ Uncovered /\ hand.held = NoHold
    /\ ~texts[t].on /\ db.text[t].lab = NoLab /\ \A p \in flight.posts : p.id # t
    /\ texts' = [texts EXCEPT ![t] = [on |-> TRUE, at |-> 1, saved |-> FALSE]]
    /\ flight' = [flight EXCEPT !.posts = @ \union {[id |-> t, lab |-> view.lab, mine |-> TRUE]}]
    /\ UNCHANGED <<view, nodes, links, hand, dialogs, chosen, db, past>>

\* The text gets the identity of its row, if it is still there.
TextStored(p) ==
    /\ p \in flight.posts
    /\ flight' = [flight EXCEPT !.posts = @ \ {p}]
    /\ db' = [db EXCEPT !.text[p.id] = [lab |-> p.lab, at |-> 1]]
    /\ texts' = IF p.mine /\ texts[p.id].on THEN [texts EXCEPT ![p.id].saved = TRUE] ELSE texts
    /\ UNCHANGED <<view, nodes, links, hand, dialogs, chosen, past>>

TextRefused(p) ==
    /\ p \in flight.posts
    /\ flight' = [flight EXCEPT !.posts = @ \ {p}]
    /\ past' = [past EXCEPT !.refused = TRUE]
    /\ UNCHANGED <<view, nodes, links, texts, hand, dialogs, chosen, db>>

\* A text without a row yet is deleted here only, and its row comes afterwards.
DeleteText(t) ==
    /\ Uncovered /\ texts[t].on
    /\ texts' = [texts EXCEPT ![t] = NoText]
    /\ IF texts[t].saved THEN Sent({Del(t)})
       ELSE /\ past' = [past EXCEPT !.mixed = @ \/ \E p \in flight.posts : p.id = t]
            /\ UNCHANGED flight
    /\ UNCHANGED <<view, nodes, links, hand, dialogs, chosen, db>>

-----------------------------------------------------------------------------

\* The user begins something, with nodes and links or with texts.
NodeGesture ==
    \/ \E n \in Nodes : StartDrag(n) \/ StartConnect(n) \/ NodeMenu(n)
    \/ \E p \in Places : Align(p)
    \/ \E ns \in SUBSET Nodes : BoxSelect(ns)
    \/ AddNodeToCanvas
    \/ \E qty \in 1..2 : ConfirmAddNodes(qty)

TextGesture == \E t \in Texts : StartDrag(t) \/ AddText(t) \/ DeleteText(t)

\* The user goes on with it, or the backend answers.
Continuation ==
    \/ \E p \in Places : OnMove(p)
    \/ OnUp
    \/ \E n \in Nodes \union {Nothing} : EndConnect(n)
    \/ \E si, di \in Ifaces : FinishLink(si, di)
    \/ CancelLink \/ AskDelete \/ CancelDelete \/ ConfirmDelete \/ CloseForm
    \/ \E k \in DOMAIN flight.loads : TopologyServed(k) \/ TextsServed(k) \/ LoadAnswered(k) \/ LoadFails(k)
    \/ \E r \in flight.sent : RequestServed(r) \/ RequestFails(r)
    \/ \E k \in DOMAIN flight.adds, n \in Nodes, ok \in BOOLEAN : NodeAdded(k, n, ok)
    \/ \E p \in flight.posts : TextStored(p) \/ TextRefused(p)

Counted == gestures < MaxGestures /\ gestures' = gestures + 1

NodeStep == (NodeGesture /\ Counted) \/ (Continuation /\ UNCHANGED gestures)
TextStep == (TextGesture /\ Counted) \/ (Continuation /\ UNCHANGED gestures)

CanvasStep == NodeStep \/ TextStep

CanvasNext ==
    \/ \E lab \in Labs : (MountCanvas(lab) \/ TurnCanvas(lab)) /\ UNCHANGED gestures
    \/ UnmountCanvas /\ UNCHANGED gestures
    \/ CanvasStep

CanvasSpec == CanvasInit /\ [][CanvasNext]_canvasVars

-----------------------------------------------------------------------------
(* Properties *)

\* An end of a link.
Ends(l) == {<<l.src, l.si>>, <<l.dst, l.di>>}

\* "Each interface can only be connected once" (LabCanvas.jsx): a link that was drawn here
\* joins two nodes and shares no end with another link of the canvas, whatever was loaded,
\* drawn, deleted and turned to in between.  Links that were loaded may share one.
InterfaceOnce ==
    \A l \in links : l.drawn => l.src # l.dst /\ \A k \in links : k # l => Ends(k) \intersect Ends(l) = {}

AtRest ==
    /\ Ready /\ ~past.mixed /\ ~past.refused
    /\ flight.adds = <<>> /\ flight.sent = {} /\ ~Loading
    /\ hand.held = NoHold

\* With nothing under way, the canvas shows the nodes of the lab of the address and no
\* others, where the backend has them (or where the page shows a node saved at the edge),
\* and the texts that have a row there and no others, as long as no request failed or
\* overtook another, no lab was left in the middle, and no load was shown over a canvas that
\* was worked on or after the rows it was served from had changed.
CanvasIsLab ==
    AtRest =>
        /\ \A n \in Nodes :
              /\ (nodes[n].on /\ ~nodes[n].temp) = (db.node[n].lab = view.lab)
              /\ nodes[n].on /\ ~nodes[n].temp => nodes[n].at \in {db.node[n].at, ShownAt(db.node[n].at)}
        /\ flight.posts = {} =>
              \A t \in Texts : (texts[t].on /\ texts[t].saved) = (db.text[t].lab = view.lab)

\* "Persist text/shape object position after drag" (LabCanvas.jsx:403): with nothing under
\* way, a text of the canvas is where the backend has it.
TextsPersist ==
    AtRest /\ flight.posts = {} => \A t \in Texts : texts[t].on => texts[t].at = db.text[t].at
=============================================================================
