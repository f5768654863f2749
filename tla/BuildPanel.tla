----------------------------- MODULE BuildPanel -----------------------------
(***************************************************************************)
(* The panel of the AI builder in the browser: the state it keeps in the   *)
(* store of the application, which outlives the panel, the event streams   *)
(* it reads, each with an abort handle in the panel, and the requests that *)
(* ask the backend to stop a run.  The backend is external: a stream may   *)
(* name its run, tell how it ended, close, or break at any time.           *)
(***************************************************************************)
EXTENDS Naturals, FiniteSets

CONSTANT MaxBuilds      \* bound on builds

ASSUME BuildsAssumption == MaxBuilds \in Nat

VARIABLES
    build,      \* the store: what the panel shows
    panel,      \* the mounted panel, if any
    streams,    \* one per build: the event stream it reads
    stops,      \* requests to stop a run that are not answered yet
    builds,     \* how many builds were started
    hurried,    \* a build was started before all was over with the one before
    stranded    \* a page was left while a build ran

buildVars == <<build, panel, streams, stops, builds, hurried, stranded>>

None == 0
Builds == 1..MaxBuilds
Verdicts == {"done", "error", "cancelled"}
Idle == [status |-> "idle", run |-> None, verdictOf |-> None]
Away == [mounted |-> FALSE, open |-> FALSE, abort |-> None, cancelling |-> FALSE, inst |-> 0]

Live(s) == streams[s].state = "open"

BuildTypeOK ==
    /\ build \in [status : {"idle", "building"} \union Verdicts, run : 0..MaxBuilds, verdictOf : 0..MaxBuilds]
    /\ panel \in [mounted : BOOLEAN, open : BOOLEAN, abort : 0..MaxBuilds, cancelling : BOOLEAN, inst : Nat]
    /\ streams \in [Builds -> [state : {"unused", "open", "gone"}, inst : Nat, saw : BOOLEAN]]
    /\ stops \subseteq [inst : Nat, run : Builds]
    /\ builds \in 0..MaxBuilds /\ hurried \in BOOLEAN /\ stranded \in BOOLEAN

BuildInit ==
    /\ build = Idle /\ panel = Away
    /\ streams = [s \in Builds |-> [state |-> "unused", inst |-> 0, saw |-> FALSE]]
    /\ stops = {} /\ builds = 0 /\ hurried = FALSE /\ stranded = FALSE

-----------------------------------------------------------------------------
(* The panel *)

MountPanel ==
    /\ ~panel.mounted
    /\ panel' = [Away EXCEPT !.mounted = TRUE, !.inst = panel.inst + 1]
    /\ UNCHANGED <<build, streams, stops, builds, hurried, stranded>>

\* A stream whose handle the panel still has is torn down with it.
UnmountPanel ==
    /\ panel.mounted
    /\ panel' = [Away EXCEPT !.inst = panel.inst]
    /\ streams' = [s \in Builds |-> IF s = panel.abort THEN [streams[s] EXCEPT !.state = "gone"] ELSE streams[s]]
    /\ stranded' = (stranded \/ build.status = "building")
    /\ UNCHANGED <<build, stops, builds, hurried>>

\* Closing the panel keeps the build going.
TogglePanel ==
    /\ panel.mounted
    /\ panel' = [panel EXCEPT !.open = ~@]
    /\ UNCHANGED <<build, streams, stops, builds, hurried, stranded>>

\* A new build: a stream and its handle.
RunBuild ==
    /\ build.status # "building" /\ builds < MaxBuilds
    /\ builds' = builds + 1
    /\ build' = [Idle EXCEPT !.status = "building"]
    /\ panel' = [panel EXCEPT !.open = TRUE, !.abort = builds + 1, !.cancelling = FALSE]
    /\ streams' = [streams EXCEPT ![builds + 1] = [@ EXCEPT !.state = "open", !.inst = panel.inst]]
    /\ hurried' = (hurried \/ stops # {} \/ \E s \in Builds : Live(s))
    /\ UNCHANGED <<stops, stranded>>

\* The buttons "Build lab", "Retry" and "Build again".
Build == panel.mounted /\ panel.open /\ RunBuild

\* From the history of runs the panel opens with a prompt, and builds.
RunAgain == panel.mounted /\ ~panel.open /\ RunBuild

\* A finished or failed build can be put away; a successful one cannot.
Dismiss ==
    /\ panel.mounted /\ panel.open /\ build.status \in {"error", "cancelled"}
    /\ build' = Idle
    /\ UNCHANGED <<panel, streams, stops, builds, hurried, stranded>>

-----------------------------------------------------------------------------
(* The event stream *)

\* What the end of a stream does to its panel: the handle is forgotten, whosever it is.
Finally(s) ==
    IF streams[s].inst = panel.inst /\ panel.mounted
    THEN [panel EXCEPT !.abort = None, !.cancelling = FALSE] ELSE panel

\* The backend names the run.
RunStarted(s) ==
    /\ Live(s) /\ ~streams[s].saw
    /\ build' = [build EXCEPT !.run = s]
    /\ UNCHANGED <<panel, streams, stops, builds, hurried, stranded>>

\* The last word on the run.
Terminal(s, verdict) ==
    /\ Live(s) /\ ~streams[s].saw
    /\ streams' = [streams EXCEPT ![s].saw = TRUE]
    /\ build' = [build EXCEPT !.status = verdict, !.verdictOf = s]
    /\ UNCHANGED <<panel, stops, builds, hurried, stranded>>

\* Mutant of Ended: a stream that closes without a word is over, and that is all.
EndedSilently(s) ==
    /\ Live(s)
    /\ streams' = [streams EXCEPT ![s].state = "gone"]
    /\ panel' = Finally(s)
    /\ UNCHANGED <<build, stops, builds, hurried, stranded>>

\* The stream closes; without a last word that is an error.
Ended(s) ==
    /\ Live(s)
    /\ streams' = [streams EXCEPT ![s].state = "gone"]
    /\ build' = IF streams[s].saw THEN build ELSE [build EXCEPT !.status = "error", !.verdictOf = s]
    /\ panel' = Finally(s)
    /\ UNCHANGED <<stops, builds, hurried, stranded>>

\* The connection breaks, whatever was said before.
Failed(s) ==
    /\ Live(s)
    /\ streams' = [streams EXCEPT ![s].state = "gone"]
    /\ build' = [build EXCEPT !.status = "error", !.verdictOf = s]
    /\ panel' = Finally(s)
    /\ UNCHANGED <<stops, builds, hurried, stranded>>

-----------------------------------------------------------------------------
(* Stop *)

\* Mutant of Aborted: the signal never reached the request.
AbortedNever == streams

\* The stream of the handle is torn down and says nothing more.
Aborted == [s \in Builds |-> IF s = panel.abort THEN [streams[s] EXCEPT !.state = "gone"] ELSE streams[s]]

\* Before the run has a name there is nothing to ask for: the stream is dropped.
StopUnnamed ==
    /\ panel.mounted /\ panel.open /\ build.status = "building" /\ ~panel.cancelling /\ build.run = None
    /\ streams' = Aborted
    /\ panel' = [panel EXCEPT !.abort = None]
    /\ build' = Idle
    /\ UNCHANGED <<stops, builds, hurried, stranded>>

\* The stream stays open for the answer.
StopNamed ==
    /\ panel.mounted /\ panel.open /\ build.status = "building" /\ ~panel.cancelling /\ build.run # None
    /\ panel' = [panel EXCEPT !.cancelling = TRUE]
    /\ stops' = stops \union {[inst |-> panel.inst, run |-> build.run]}
    /\ UNCHANGED <<build, streams, builds, hurried, stranded>>

StopAccepted(p) ==
    /\ p \in stops
    /\ stops' = stops \ {p}
    /\ UNCHANGED <<build, panel, streams, builds, hurried, stranded>>

\* Refused or unanswered: the panel that asked drops its stream, whatever it is now.
StopRefused(p) ==
    /\ p \in stops
    /\ stops' = stops \ {p}
    /\ build' = [build EXCEPT !.status = "cancelled", !.verdictOf = p.run]
    /\ IF p.inst = panel.inst /\ panel.mounted
       THEN streams' = Aborted /\ panel' = [panel EXCEPT !.abort = None, !.cancelling = FALSE]
       ELSE UNCHANGED <<streams, panel>>
    /\ UNCHANGED <<builds, hurried, stranded>>

-----------------------------------------------------------------------------

BuildStep ==
    \/ TogglePanel \/ Build \/ RunAgain \/ Dismiss
    \/ StopUnnamed \/ StopNamed
    \/ \E s \in Builds : RunStarted(s) \/ Ended(s) \/ Failed(s) \/ \E v \in Verdicts : Terminal(s, v)
    \/ \E p \in stops : StopAccepted(p) \/ StopRefused(p)

BuildNext == MountPanel \/ UnmountPanel \/ BuildStep

\* The backend closes every stream in the end, and a request to stop is answered or times out.
BuildFairness ==
    /\ \A s \in Builds : WF_buildVars(Ended(s))
    /\ WF_buildVars(\E p \in stops : StopAccepted(p) \/ StopRefused(p))

BuildSpec == BuildInit /\ [][BuildNext]_buildVars /\ BuildFairness

-----------------------------------------------------------------------------
(* Properties *)

Orderly == ~hurried /\ ~stranded

\* One build at a time: while a stream is open it is that of the newest build, and the panel
\* on the page holds its handle, so that leaving the page or stopping reaches it.
OneLiveBuild ==
    Orderly => \A s \in Builds : Live(s) => s = builds /\ panel.mounted /\ panel.abort = s

\* What the panel shows of an ended build is the end of the newest one, and no build that
\* ended shows as running: the spinner stands for an open stream.
SpinnerIsTrue ==
    Orderly => /\ build.status = "building" => Live(builds)
               /\ build.status \in Verdicts => build.verdictOf = builds

\* The user is not stuck on a spinner, unless the page was left with the build running.
SpinnerEnds == (build.status = "building") ~> (build.status # "building" \/ stranded)

\* "so the user isn't stuck on a spinner" (AIBuilderPanel.jsx:203), with nothing excepted.
NotStuck == (build.status = "building") ~> (build.status # "building")
=============================================================================
