------------------------------- MODULE WebApp -------------------------------
(***************************************************************************)
(* The pages of the browser application, and what a change of the address  *)
(* does to the parts that live on them: the AI builder on two pages, the   *)
(* canvas and its traffic feed on the page of a lab.  The parts meet in    *)
(* the address only, so that a behaviour looks at one of them.             *)
(***************************************************************************)
EXTENDS BuildPanel, TrafficFeed, LabCanvas

CONSTANT MaxVisits      \* bound on changes of the address

ASSUME VisitsAssumption == MaxVisits \in Nat

VARIABLES
    page,       \* the page that is shown, and the one the address asks for
    visits,
    part        \* the part this behaviour looks at

webVars == <<page, visits, part, buildVars, feedVars, canvasVars>>

Canvas == {"nodes", "texts"}
PanelPages == {"dashboard", "system"}
Pages == PanelPages \union Labs
Parts == {"build", "feed"} \union Canvas

WebInit ==
    /\ page \in {[shown |-> NoLab, asked |-> p] : p \in Pages} /\ visits = 0 /\ part \in Parts
    /\ BuildInit /\ FeedInit /\ CanvasInit

\* A change of the address between pages: what is on the old one is taken down.
Leave(p) ==
    /\ page.shown = page.asked /\ p # page.shown /\ ~{p, page.shown} \subseteq Labs
    /\ visits < MaxVisits
    /\ visits' = visits + 1 /\ page' = [shown |-> NoLab, asked |-> p]
    /\ IF part = "build" /\ page.shown \in PanelPages THEN UnmountPanel ELSE UNCHANGED buildVars
    /\ IF part = "feed" /\ page.shown \in Labs THEN UnmountFeed ELSE UNCHANGED feedVars
    /\ IF part \in Canvas /\ page.shown \in Labs THEN UnmountCanvas ELSE UNCHANGED canvasVars
    /\ UNCHANGED <<part, gestures>>

\* And what is on the new one is set up, before anything else happens.
Enter ==
    /\ page.shown # page.asked
    /\ page' = [page EXCEPT !.shown = page.asked]
    /\ IF part = "build" /\ page.asked \in PanelPages THEN MountPanel ELSE UNCHANGED buildVars
    /\ IF part = "feed" /\ page.asked \in Labs THEN MountFeed(page.asked) ELSE UNCHANGED feedVars
    /\ IF part \in Canvas /\ page.asked \in Labs THEN MountCanvas(page.asked) ELSE UNCHANGED canvasVars
    /\ UNCHANGED <<visits, part, gestures>>

\* From one lab to another the page stays.
Turn(lab) ==
    /\ page.shown = page.asked /\ page.shown \in Labs \ {lab}
    /\ visits < MaxVisits
    /\ visits' = visits + 1 /\ page' = [shown |-> lab, asked |-> lab]
    /\ IF part = "feed" THEN TurnFeed(lab) ELSE UNCHANGED feedVars
    /\ IF part \in Canvas THEN TurnCanvas(lab) ELSE UNCHANGED canvasVars
    /\ UNCHANGED <<part, buildVars, gestures>>

\* A build that is done takes the user to its lab, from every page with a panel.
DoneTimer(lab) ==
    /\ part = "build" /\ panel.mounted /\ build.status = "done"
    /\ Leave(lab)

PartStep ==
    /\ page.shown = page.asked
    /\ \/ part = "build" /\ BuildStep /\ UNCHANGED <<feedVars, canvasVars>>
       \/ part = "feed" /\ FeedStep /\ UNCHANGED <<buildVars, canvasVars>>
       \/ part = "nodes" /\ NodeStep /\ UNCHANGED <<buildVars, feedVars>>
       \/ part = "texts" /\ TextStep /\ UNCHANGED <<buildVars, feedVars>>
    /\ UNCHANGED <<page, visits, part>>

WebNext ==
    \/ \E p \in Pages : Leave(p)
    \/ \E lab \in Labs : Turn(lab) \/ DoneTimer(lab)
    \/ Enter
    \/ PartStep

WebSpec == WebInit /\ [][WebNext]_webVars /\ WF_webVars(Enter) /\ BuildFairness /\ FeedFairness
=============================================================================
