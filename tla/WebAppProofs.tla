---------------------------- MODULE WebAppProofs ----------------------------
(***************************************************************************)
(* Proofs about the pages of the browser application, for any labs, builds *)
(* and sockets, nodes, texts and interfaces, and any number of visits,     *)
(* gestures and requests.  The AI builder: one build, the handle of its    *)
(* stream and a true spinner.  The traffic feed: one for the page that is  *)
(* shown.  The canvas: a link that is drawn shares no interface, and at    *)
(* rest the nodes and texts of its lab are shown.  The application         *)
(* implements all three.                                                   *)
(***************************************************************************)
EXTENDS WebApp, Integers, SequenceTheorems, TLAPS

-----------------------------------------------------------------------------
(* The AI builder *)

\* The stream of a build that runs is that of the newest one, and its panel can abort it.
StreamHeld(s) ==
    Live(s) => /\ s = builds /\ panel.mounted /\ panel.abort = s /\ streams[s].inst = panel.inst
               /\ streams[s].saw => build.status # "building"

\* A build that was not started has no stream.
Unstarted(s) == s > builds => streams[s].state = "unused" /\ ~streams[s].saw

\* What is shown and what is to be stopped belong to the newest build.
PanelShown ==
    /\ build.status = "building" => builds \in Builds /\ Live(builds)
    /\ build.status \in Verdicts => build.verdictOf = builds
    /\ build.run \in {None, builds}
    /\ \A p \in stops : p.run = builds

BuildInv ==
    /\ BuildTypeOK
    /\ panel.abort \in 0..builds
    /\ \A s \in Builds : Unstarted(s)
    /\ Orderly => PanelShown /\ \A s \in Builds : StreamHeld(s)

Stream == [state : {"unused", "open", "gone"}, inst : Nat, saw : BOOLEAN]
Panel == [mounted : BOOLEAN, open : BOOLEAN, abort : 0..MaxBuilds, cancelling : BOOLEAN, inst : Nat]
Store == [status : {"idle", "building"} \union Verdicts, run : 0..MaxBuilds, verdictOf : 0..MaxBuilds]

-----------------------------------------------------------------------------

\* The type invariant, by the names above.
LEMMA BuildTypes ==
  ASSUME BuildTypeOK
  PROVE  /\ build \in Store /\ panel \in Panel /\ streams \in [Builds -> Stream]
         /\ stops \subseteq [inst : Nat, run : Builds] /\ builds \in 0..MaxBuilds /\ MaxBuilds \in Nat
         /\ hurried \in BOOLEAN /\ stranded \in BOOLEAN
  BY BuildsAssumption DEF BuildTypeOK, Stream, Panel, Store

LEMMA BuildTypesNext ==
  ASSUME build' \in Store, panel' \in Panel, streams' \in [Builds -> Stream],
         stops' \subseteq [inst : Nat, run : Builds], builds' \in 0..MaxBuilds,
         hurried' \in BOOLEAN, stranded' \in BOOLEAN
  PROVE  BuildTypeOK'
  BY DEF BuildTypeOK, Stream, Panel, Store

LEMMA PanelConstants ==
  /\ Idle \in Store /\ Idle.status = "idle" /\ Idle.run = None /\ Idle.verdictOf = None
  /\ Away \in Panel /\ ~Away.mounted /\ Away.abort = None
  BY BuildsAssumption DEF Idle, Away, None, Store, Panel

\* The application starts with nothing built.
LEMMA BuildInvInit == BuildInit => BuildInv
<1> SUFFICES ASSUME BuildInit PROVE BuildInv
  OBVIOUS
<1> DEFINE none == [state |-> "unused", inst |-> 0, saw |-> FALSE]
<1>1. none \in Stream
  BY DEF Stream
<1>2. streams = [s \in Builds |-> none]
  BY DEF BuildInit
<1>3. \A s \in Builds : Unstarted(s) /\ StreamHeld(s)
  BY <1>2 DEF Unstarted, StreamHeld, Live
<1> HIDE DEF none
<1>4. streams \in [Builds -> Stream]
  BY <1>1, <1>2
<1>5. BuildTypeOK
  <2>1. build \in Store /\ panel \in Panel /\ stops \subseteq [inst : Nat, run : Builds] /\ builds \in 0..MaxBuilds
    BY PanelConstants, BuildsAssumption DEF BuildInit
  <2>2. hurried \in BOOLEAN /\ stranded \in BOOLEAN
    BY DEF BuildInit
  <2> QED
    BY <1>4, <2>1, <2>2 DEF BuildTypeOK, Store, Panel, Stream
<1>6. PanelShown
  BY PanelConstants DEF BuildInit, PanelShown, Verdicts
<1> QED
  BY <1>3, <1>5, <1>6, PanelConstants DEF BuildInit, BuildInv, None

-----------------------------------------------------------------------------

\* When the stream of the panel's handle is torn down, none is left.
LEMMA AbortedIs ==
  ASSUME BuildInv, builds' = builds,
         streams' = [s \in Builds |-> IF s = panel.abort THEN [streams[s] EXCEPT !.state = "gone"] ELSE streams[s]]
  PROVE  /\ streams' \in [Builds -> Stream]
         /\ \A s \in Builds : Unstarted(s)'
         /\ Orderly => \A s \in Builds : ~Live(s)'
<1>1. ASSUME NEW s \in Builds
      PROVE  /\ streams'[s] \in Stream
             /\ s # panel.abort => streams'[s] = streams[s]
             /\ s = panel.abort => streams'[s].state = "gone"
  <2>1. streams[s] \in Stream
    BY BuildTypes DEF BuildInv
  <2>2. streams'[s] = IF s = panel.abort THEN [streams[s] EXCEPT !.state = "gone"] ELSE streams[s]
    OBVIOUS
  <2> QED
    BY <2>1, <2>2 DEF Stream
<1>2. streams' \in [Builds -> Stream]
  BY <1>1
<1>3. ASSUME NEW s \in Builds PROVE Unstarted(s)'
  <2>1. CASE s = panel.abort
    BY <2>1, BuildTypes DEF BuildInv, Unstarted, Builds
  <2>2. CASE s # panel.abort
    BY <1>1, <2>2 DEF BuildInv, Unstarted
  <2> QED
    BY <2>1, <2>2
<1>4. ASSUME Orderly, NEW s \in Builds PROVE ~Live(s)'
  <2>1. CASE s = panel.abort
    BY <1>1, <2>1 DEF Live
  <2>2. CASE s # panel.abort
    BY <1>1, <1>4, <2>2 DEF BuildInv, StreamHeld, Live
  <2> QED
    BY <2>1, <2>2
<1> QED
  BY <1>2, <1>3, <1>4

\* When a stream ends, none is left.
LEMMA EndedIs ==
  ASSUME BuildInv, builds' = builds, NEW g \in Builds, Live(g), streams' = [streams EXCEPT ![g].state = "gone"]
  PROVE  /\ streams' \in [Builds -> Stream]
         /\ \A s \in Builds : Unstarted(s)'
         /\ Orderly => (\A s \in Builds : ~Live(s)') /\ g = builds
<1>1. streams[g] \in Stream /\ streams \in [Builds -> Stream]
  BY BuildTypes DEF BuildInv
<1>2. streams' = [streams EXCEPT ![g] = [streams[g] EXCEPT !.state = "gone"]]
  BY <1>1
<1>3. streams'[g] \in Stream /\ streams'[g].state = "gone" /\ \A s \in Builds \ {g} : streams'[s] = streams[s]
  BY <1>1, <1>2 DEF Stream
<1>4. streams' \in [Builds -> Stream]
  BY <1>1, <1>2, <1>3
<1>5. ~(g > builds)
  BY DEF BuildInv, Unstarted, Live
<1>6. \A s \in Builds : Unstarted(s)'
  BY <1>3, <1>5 DEF BuildInv, Unstarted
<1>7. Orderly => (\A s \in Builds : ~Live(s)') /\ g = builds
  BY <1>3 DEF BuildInv, StreamHeld, Live
<1> QED
  BY <1>4, <1>6, <1>7

\* What the end of a stream leaves of its panel.
LEMMA FinallyIs ==
  ASSUME BuildInv, NEW g \in Builds
  PROVE  Finally(g) \in Panel /\ Finally(g).abort \in 0..builds
<1>1. panel \in Panel /\ panel.abort \in 0..builds /\ builds \in Nat
  BY BuildTypes DEF BuildInv
<1>2. CASE Finally(g) = panel
  BY <1>1, <1>2
<1>3. CASE Finally(g) = [panel EXCEPT !.abort = None, !.cancelling = FALSE]
  <2>1. None \in 0..MaxBuilds /\ None \in 0..builds
    BY <1>1, BuildsAssumption DEF None
  <2> QED
    BY <1>1, <1>3, <2>1 DEF Panel
<1> QED
  BY <1>2, <1>3 DEF Finally

\* A panel comes: there is no stream.
LEMMA MountPanelKeeps == ASSUME BuildInv, MountPanel PROVE BuildInv'
<1>1. /\ ~panel.mounted /\ panel' = [Away EXCEPT !.mounted = TRUE, !.inst = panel.inst + 1]
      /\ UNCHANGED <<build, streams, stops, builds, hurried, stranded>>
  BY DEF MountPanel
<1>2. panel.inst + 1 \in Nat /\ builds \in Nat
  BY BuildTypes DEF BuildInv, Panel
<1>3. panel' \in Panel /\ panel'.abort = None
  BY <1>1, <1>2, PanelConstants DEF Panel
<1>4. BuildTypeOK'
  BY <1>1, <1>3, BuildTypes, BuildTypesNext DEF BuildInv
<1>5. Orderly => \A s \in Builds : ~Live(s)
  BY <1>1 DEF BuildInv, StreamHeld
<1> QED
  BY <1>1, <1>2, <1>3, <1>4, <1>5 DEF BuildInv, PanelShown, StreamHeld, Unstarted, Live, Orderly, None

\* A panel goes, with its stream.
LEMMA UnmountPanelKeeps == ASSUME BuildInv, UnmountPanel PROVE BuildInv'
<1>1. /\ panel' = [Away EXCEPT !.inst = panel.inst]
      /\ stranded' = (stranded \/ build.status = "building")
      /\ UNCHANGED <<build, stops, builds, hurried>>
  BY DEF UnmountPanel
<1>2. /\ streams' \in [Builds -> Stream]
      /\ \A s \in Builds : Unstarted(s)'
      /\ Orderly => \A s \in Builds : ~Live(s)'
  BY AbortedIs DEF UnmountPanel
<1>3. panel.inst \in Nat /\ builds \in Nat
  BY BuildTypes DEF BuildInv, Panel
<1>4. panel' \in Panel /\ panel'.abort = None
  BY <1>1, <1>3, PanelConstants DEF Panel
<1>5. BuildTypeOK'
  BY <1>1, <1>2, <1>4, BuildTypes, BuildTypesNext DEF BuildInv
<1>6. Orderly' => Orderly /\ build'.status # "building"
  BY <1>1 DEF Orderly
<1>7. Orderly' => PanelShown'
  BY <1>1, <1>6 DEF BuildInv, PanelShown
<1> QED
  BY <1>1, <1>2, <1>3, <1>4, <1>5, <1>6, <1>7 DEF BuildInv, StreamHeld, None

\* A build begins: the only stream is its own, if all was over with the one before.
LEMMA RunKeeps == ASSUME BuildInv, RunBuild, panel.mounted PROVE BuildInv'
<1> DEFINE b == builds + 1
<1>1. /\ build.status # "building" /\ builds < MaxBuilds /\ builds' = b
      /\ build' = [Idle EXCEPT !.status = "building"]
      /\ panel' = [panel EXCEPT !.open = TRUE, !.abort = b, !.cancelling = FALSE]
      /\ streams' = [streams EXCEPT ![b] = [@ EXCEPT !.state = "open", !.inst = panel.inst]]
      /\ hurried' = (hurried \/ stops # {} \/ \E s \in Builds : Live(s))
      /\ UNCHANGED <<stops, stranded>>
  BY DEF RunBuild
<1>2. /\ build \in Store /\ panel \in Panel /\ streams \in [Builds -> Stream] /\ builds \in Nat
      /\ MaxBuilds \in Nat /\ hurried \in BOOLEAN /\ stranded \in BOOLEAN
      /\ stops \subseteq [inst : Nat, run : Builds]
  BY BuildTypes DEF BuildInv
<1>3. b \in Builds /\ b \in Nat /\ b \in 0..MaxBuilds /\ b > builds
  BY <1>1, <1>2 DEF Builds
<1> HIDE DEF b
<1>4. build' \in Store /\ build'.status = "building" /\ build'.run = None
  BY <1>1, PanelConstants DEF Store
<1>5. /\ panel' \in Panel /\ panel'.abort = b /\ panel'.mounted /\ panel'.inst = panel.inst
  BY <1>1, <1>2, <1>3 DEF Panel
<1>6. streams[b] \in Stream /\ ~streams[b].saw
  BY <1>2, <1>3 DEF BuildInv, Unstarted
<1>7. streams' = [streams EXCEPT ![b] = [streams[b] EXCEPT !.state = "open", !.inst = panel.inst]]
  BY <1>1
<1>8. /\ streams'[b] \in Stream /\ streams'[b].state = "open" /\ streams'[b].inst = panel.inst /\ ~streams'[b].saw
      /\ \A s \in Builds \ {b} : streams'[s] = streams[s]
  BY <1>2, <1>3, <1>6, <1>7 DEF Stream, Panel
<1>9. BuildTypeOK'
  <2>1. streams' \in [Builds -> Stream]
    BY <1>2, <1>7, <1>8
  <2> QED
    BY <1>1, <1>2, <1>3, <1>4, <1>5, <2>1, BuildTypesNext
<1>10. \A s \in Builds : Unstarted(s)'
  BY <1>1, <1>2, <1>3, <1>8 DEF BuildInv, Unstarted, Builds, b
<1>11. ASSUME Orderly' PROVE PanelShown' /\ \A s \in Builds : StreamHeld(s)'
  <2>1. stops = {} /\ \A s \in Builds : ~Live(s)
    BY <1>1, <1>11 DEF Orderly
  <2>2. \A s \in Builds : StreamHeld(s)'
    BY <1>1, <1>5, <1>8, <2>1 DEF StreamHeld, Live
  <2>3. PanelShown'
    BY <1>1, <1>3, <1>4, <1>8, <2>1 DEF PanelShown, Live, Verdicts
  <2> QED
    BY <2>2, <2>3
<1>12. panel'.abort \in 0..builds'
  BY <1>1, <1>3, <1>5
<1> QED
  BY <1>9, <1>10, <1>11, <1>12 DEF BuildInv

\* The dialog opens and closes; an ended build is put away.
LEMMA ViewKeeps == ASSUME BuildInv, TogglePanel \/ Dismiss PROVE BuildInv'
<1>1. /\ panel' = panel \/ panel' = [panel EXCEPT !.open = ~@]
      /\ build' = build \/ (build' = Idle /\ build.status \in {"error", "cancelled"})
      /\ UNCHANGED <<streams, stops, builds, hurried, stranded>>
  BY DEF TogglePanel, Dismiss
<1>2. panel' \in Panel /\ panel'.mounted = panel.mounted /\ panel'.abort = panel.abort /\ panel'.inst = panel.inst
  BY <1>1, BuildTypes DEF BuildInv, Panel
<1>3. build' \in Store /\ (build'.status = "building" => build.status = "building")
  BY <1>1, BuildTypes, PanelConstants DEF BuildInv
<1>4. BuildTypeOK'
  BY <1>1, <1>2, <1>3, BuildTypes, BuildTypesNext DEF BuildInv
<1>5. \A s \in Builds : (Unstarted(s)' <=> Unstarted(s)) /\ (StreamHeld(s) => StreamHeld(s)')
  BY <1>1, <1>2, <1>3 DEF Unstarted, StreamHeld, Live
<1>6. PanelShown => PanelShown'
  BY <1>1, <1>3, PanelConstants DEF PanelShown, Verdicts, Live
<1> QED
  BY <1>1, <1>2, <1>4, <1>5, <1>6 DEF BuildInv, Orderly

\* The backend names the run, or says how it ended, on a stream that lives.
LEMMA SaysKeeps ==
  ASSUME BuildInv, NEW g \in Builds, NEW v \in Verdicts, RunStarted(g) \/ Terminal(g, v) PROVE BuildInv'
<1>1. /\ Live(g) /\ ~streams[g].saw
      /\ UNCHANGED <<panel, stops, builds, hurried, stranded>>
  BY DEF RunStarted, Terminal
<1>2. /\ build \in Store /\ panel \in Panel /\ streams \in [Builds -> Stream] /\ streams[g] \in Stream
      /\ g \in 0..MaxBuilds /\ builds \in Nat
  BY BuildTypes DEF BuildInv, Builds
<1>3. ~(g > builds) /\ (Orderly => g = builds)
  BY <1>1 DEF BuildInv, Unstarted, StreamHeld, Live
<1>4. CASE RunStarted(g)
  <2>1. build' = [build EXCEPT !.run = g] /\ streams' = streams
    BY <1>4 DEF RunStarted
  <2>2. build' \in Store /\ build'.status = build.status /\ build'.run = g /\ build'.verdictOf = build.verdictOf
    BY <1>2, <2>1 DEF Store
  <2>3. BuildTypeOK'
    BY <1>1, <1>2, <2>1, <2>2, BuildTypes, BuildTypesNext DEF BuildInv
  <2>4. Orderly => PanelShown'
    BY <1>1, <1>3, <2>1, <2>2 DEF BuildInv, PanelShown, Live
  <2> QED
    BY <1>1, <2>1, <2>2, <2>3, <2>4 DEF BuildInv, Unstarted, StreamHeld, Live, Orderly
<1>5. CASE Terminal(g, v)
  <2>1. streams' = [streams EXCEPT ![g].saw = TRUE] /\ build' = [build EXCEPT !.status = v, !.verdictOf = g]
    BY <1>5 DEF Terminal
  <2>2. build' \in Store /\ build'.status = v /\ build'.run = build.run /\ build'.verdictOf = g
    BY <1>2, <2>1 DEF Store
  <2>3. streams' = [streams EXCEPT ![g] = [streams[g] EXCEPT !.saw = TRUE]]
    BY <1>2, <2>1
  <2>4. /\ streams'[g] \in Stream /\ streams'[g].state = streams[g].state /\ streams'[g].inst = streams[g].inst
        /\ \A s \in Builds \ {g} : streams'[s] = streams[s]
    BY <1>2, <2>3 DEF Stream
  <2>5. BuildTypeOK'
    <3>1. streams' \in [Builds -> Stream]
      BY <1>2, <2>3, <2>4
    <3> QED
      BY <1>1, <2>2, <3>1, BuildTypes, BuildTypesNext DEF BuildInv
  <2>6. \A s \in Builds : Unstarted(s)'
    BY <1>1, <1>3, <2>4 DEF BuildInv, Unstarted
  <2>7. v # "building"
    BY DEF Verdicts
  <2>8. Orderly => \A s \in Builds : StreamHeld(s)'
    BY <1>1, <2>2, <2>4, <2>7 DEF BuildInv, StreamHeld, Live
  <2>9. Orderly => PanelShown'
    BY <1>1, <1>3, <2>2, <2>7 DEF BuildInv, PanelShown
  <2> QED
    BY <1>1, <2>5, <2>6, <2>8, <2>9 DEF BuildInv, Orderly
<1> QED
  BY <1>4, <1>5

\* A stream ends, one way or another: what is shown is the end of the newest build.
LEMMA EndKeeps == ASSUME BuildInv, NEW g \in Builds, Ended(g) \/ Failed(g) PROVE BuildInv'
<1>1. /\ Live(g) /\ streams' = [streams EXCEPT ![g].state = "gone"] /\ panel' = Finally(g)
      /\ \/ build' = build /\ streams[g].saw
         \/ build' = [build EXCEPT !.status = "error", !.verdictOf = g]
      /\ UNCHANGED <<stops, builds, hurried, stranded>>
  BY DEF Ended, Failed
<1>2. /\ streams' \in [Builds -> Stream]
      /\ \A s \in Builds : Unstarted(s)'
      /\ Orderly => (\A s \in Builds : ~Live(s)') /\ g = builds
  BY <1>1, EndedIs
<1>3. panel' \in Panel /\ panel'.abort \in 0..builds
  BY <1>1, FinallyIs
<1>4. build \in Store /\ g \in 0..MaxBuilds
  BY BuildTypes DEF BuildInv, Builds
<1>5. /\ build' \in Store /\ build'.run = build.run
      /\ \/ build'.status = build.status /\ build'.verdictOf = build.verdictOf /\ streams[g].saw
         \/ build'.status = "error" /\ build'.verdictOf = g
  <2>1. CASE build' = build /\ streams[g].saw
    BY <1>4, <2>1
  <2>2. CASE build' = [build EXCEPT !.status = "error", !.verdictOf = g]
    BY <1>4, <2>2 DEF Store, Verdicts
  <2> QED
    BY <1>1, <2>1, <2>2
<1>6. BuildTypeOK'
  BY <1>1, <1>2, <1>3, <1>5, BuildTypes, BuildTypesNext DEF BuildInv
<1>7. Orderly /\ streams[g].saw => build.status # "building"
  BY <1>1 DEF BuildInv, StreamHeld
<1>8. Orderly => PanelShown'
  BY <1>1, <1>2, <1>5, <1>7 DEF BuildInv, PanelShown, Verdicts
<1> QED
  BY <1>1, <1>2, <1>3, <1>6, <1>8 DEF BuildInv, StreamHeld, Orderly

\* Stop, before the run has a name: the stream is torn down and the panel is idle.
LEMMA StopUnnamedKeeps == ASSUME BuildInv, StopUnnamed PROVE BuildInv'
<1>1. /\ panel' = [panel EXCEPT !.abort = None] /\ build' = Idle
      /\ UNCHANGED <<stops, builds, hurried, stranded>>
  BY DEF StopUnnamed
<1>2. /\ streams' \in [Builds -> Stream]
      /\ \A s \in Builds : Unstarted(s)'
      /\ Orderly => \A s \in Builds : ~Live(s)'
  BY <1>1, AbortedIs DEF StopUnnamed, Aborted
<1>3. panel \in Panel /\ builds \in Nat /\ None \in 0..MaxBuilds
  BY BuildTypes, BuildsAssumption DEF BuildInv, None
<1>4. panel' \in Panel /\ panel'.abort = None
  BY <1>1, <1>3 DEF Panel
<1>5. BuildTypeOK'
  BY <1>1, <1>2, <1>4, PanelConstants, BuildTypes, BuildTypesNext DEF BuildInv
<1>6. Orderly => PanelShown'
  BY <1>1, PanelConstants DEF BuildInv, PanelShown, Verdicts
<1> QED
  BY <1>1, <1>2, <1>3, <1>4, <1>5, <1>6 DEF BuildInv, StreamHeld, Orderly, None

\* Stop, of a run with a name: the stream stays, and the request is for the newest run.
LEMMA StopNamedKeeps == ASSUME BuildInv, StopNamed PROVE BuildInv'
<1>1. /\ panel' = [panel EXCEPT !.cancelling = TRUE] /\ build.run # None
      /\ stops' = stops \union {[inst |-> panel.inst, run |-> build.run]}
      /\ UNCHANGED <<build, streams, builds, hurried, stranded>>
  BY DEF StopNamed
<1>2. panel \in Panel /\ build \in Store /\ MaxBuilds \in Nat
  BY BuildTypes DEF BuildInv
<1>3. /\ panel' \in Panel /\ panel'.abort = panel.abort /\ panel'.mounted = panel.mounted
      /\ panel'.inst = panel.inst
  BY <1>1, <1>2 DEF Panel
<1>4. build.run \in Builds /\ panel.inst \in Nat
  BY <1>1, <1>2 DEF Store, Panel, Builds, None
<1>5. stops' \subseteq [inst : Nat, run : Builds]
  BY <1>1, <1>4, BuildTypes DEF BuildInv
<1>6. BuildTypeOK'
  BY <1>1, <1>3, <1>5, BuildTypes, BuildTypesNext DEF BuildInv
<1>7. Orderly => PanelShown'
  BY <1>1 DEF BuildInv, PanelShown, Live
<1> QED
  BY <1>1, <1>3, <1>6, <1>7 DEF BuildInv, Unstarted, StreamHeld, Live, Orderly

\* The backend answers: a request that is refused is one for the newest run, whose stream,
\* if it still lives, is torn down with the panel's handle.
LEMMA AnswerKeeps ==
  ASSUME BuildInv, NEW p \in stops, StopAccepted(p) \/ StopRefused(p) PROVE BuildInv'
<1>1. stops' = stops \ {p} /\ UNCHANGED <<builds, hurried, stranded>>
  BY DEF StopAccepted, StopRefused
<1>2. /\ build \in Store /\ panel \in Panel /\ streams \in [Builds -> Stream] /\ builds \in Nat
      /\ p.run \in 0..MaxBuilds /\ None \in 0..MaxBuilds /\ stops' \subseteq [inst : Nat, run : Builds]
  BY <1>1, BuildTypes, BuildsAssumption DEF BuildInv, Builds, None
<1>3. CASE StopAccepted(p)
  <2>1. UNCHANGED <<build, panel, streams>>
    BY <1>3 DEF StopAccepted
  <2>2. BuildTypeOK'
    BY <1>1, <1>2, <2>1, BuildTypes, BuildTypesNext DEF BuildInv
  <2> QED
    BY <1>1, <2>1, <2>2 DEF BuildInv, PanelShown, Unstarted, StreamHeld, Live, Orderly
<1>4. CASE StopRefused(p)
  <2>1. build' = [build EXCEPT !.status = "cancelled", !.verdictOf = p.run]
    BY <1>4 DEF StopRefused
  <2>2. build' \in Store /\ build'.status = "cancelled" /\ build'.verdictOf = p.run /\ build'.run = build.run
    BY <1>2, <2>1 DEF Store, Verdicts
  <2>3. Orderly => PanelShown'
    BY <1>1, <2>2 DEF BuildInv, PanelShown, Verdicts
  <2>4. CASE streams' = Aborted /\ panel' = [panel EXCEPT !.abort = None, !.cancelling = FALSE]
    <3>1. /\ streams' \in [Builds -> Stream]
          /\ \A s \in Builds : Unstarted(s)'
          /\ Orderly => \A s \in Builds : ~Live(s)'
      BY <1>1, <2>4, AbortedIs DEF Aborted
    <3>2. panel' \in Panel /\ panel'.abort = None
      BY <1>2, <2>4 DEF Panel
    <3>3. BuildTypeOK'
      BY <1>1, <1>2, <2>2, <3>1, <3>2, BuildTypes, BuildTypesNext DEF BuildInv
    <3> QED
      BY <1>1, <1>2, <2>3, <3>1, <3>2, <3>3 DEF BuildInv, StreamHeld, Orderly, None
  <2>5. CASE UNCHANGED <<streams, panel>>
    <3>1. BuildTypeOK'
      BY <1>1, <1>2, <2>2, <2>5, BuildTypes, BuildTypesNext DEF BuildInv
    <3>2. \A s \in Builds : (StreamHeld(s) => StreamHeld(s)') /\ (Unstarted(s) => Unstarted(s)')
      BY <1>1, <2>2, <2>5 DEF StreamHeld, Unstarted, Live
    <3> QED
      BY <1>1, <2>3, <2>5, <3>1, <3>2 DEF BuildInv, Orderly
  <2> QED
    BY <1>4, <2>4, <2>5 DEF StopRefused
<1> QED
  BY <1>3, <1>4

\* Whatever the user and the backend do.
LEMMA BuildInvStep == BuildInv /\ [BuildNext]_buildVars => BuildInv'
<1> SUFFICES ASSUME BuildInv, [BuildNext]_buildVars PROVE BuildInv'
  OBVIOUS
<1>1. CASE UNCHANGED buildVars
  BY <1>1 DEF buildVars, BuildInv, BuildTypeOK, Orderly, PanelShown, StreamHeld, Unstarted, Live
<1>2. CASE MountPanel \/ UnmountPanel \/ TogglePanel \/ Dismiss
  BY <1>2, MountPanelKeeps, UnmountPanelKeeps, ViewKeeps
<1>3. CASE Build \/ RunAgain
  BY <1>3, RunKeeps DEF Build, RunAgain
<1>4. CASE StopUnnamed \/ StopNamed \/ \E p \in stops : StopAccepted(p) \/ StopRefused(p)
  BY <1>4, StopUnnamedKeeps, StopNamedKeeps, AnswerKeeps
<1>5. ASSUME NEW s \in Builds, RunStarted(s) \/ Ended(s) \/ Failed(s) \/ \E v \in Verdicts : Terminal(s, v)
      PROVE  BuildInv'
  <2>1. "done" \in Verdicts
    BY DEF Verdicts
  <2> QED
    BY <1>5, <2>1, SaysKeeps, EndKeeps
<1> QED
  BY <1>1, <1>2, <1>3, <1>4, <1>5 DEF BuildNext, BuildStep

-----------------------------------------------------------------------------

\* One build at a time, within reach of its panel: for any number of builds.
THEOREM OneLive == BuildSpec => []OneLiveBuild
<1>1. BuildInv => OneLiveBuild
  BY DEF BuildInv, OneLiveBuild, StreamHeld
<1> QED
  BY BuildInvInit, BuildInvStep, <1>1, PTL DEF BuildSpec

\* The spinner stands for an open stream, and a verdict for the newest build.
THEOREM SpinnerHeld == BuildSpec => []SpinnerIsTrue
<1>1. BuildInv => SpinnerIsTrue
  BY DEF BuildInv, SpinnerIsTrue, PanelShown
<1> QED
  BY BuildInvInit, BuildInvStep, <1>1, PTL DEF BuildSpec

-----------------------------------------------------------------------------
(* The traffic feed *)

\* A socket whose events the mounted page hears is the one it refers to.
Heard(s) == sockets[s].mine => feed.ref = s /\ sockets[s].lab = feed.lab /\ feed.lab # NoLab

\* A socket that lives is heard.
Watched(s) == Alive(s) => sockets[s].mine

\* A socket in use is for a lab.
Placed(s) == sockets[s].state # "free" => sockets[s].lab \in Labs

\* One reconnection is due at most: the hook refers to it, and to no socket.
OneTimer ==
    timers # <<>> => /\ timers = <<[lab |-> feed.lab, mine |-> TRUE]>>
                     /\ feed.planned /\ feed.ref = NoSocket

FeedInv ==
    /\ FeedTypeOK
    /\ \A s \in Sockets : Placed(s)
    /\ ~turned => /\ \A s \in Sockets : Heard(s) /\ Watched(s)
                  /\ OneTimer

-----------------------------------------------------------------------------

\* The hook of no page, a socket out of use and a new one.
LEMMA FeedConstants ==
  /\ Left \in Hook /\ Left.lab = NoLab /\ Left.ref = NoSocket
  /\ Free \in Socket /\ ~Free.mine /\ Free.state = "free"
  /\ \A lab \in Labs : /\ Opening(lab) \in Socket /\ Opening(lab).mine /\ Opening(lab).lab = lab
                       /\ Opening(lab).state = "connecting"
  BY DEF Left, Free, Opening, Hook, Socket

\* The application starts with no page, no socket and no timer.
LEMMA FeedInvInit == FeedInit => FeedInv
<1> SUFFICES ASSUME FeedInit PROVE FeedInv
  OBVIOUS
<1>1. \A s \in Sockets : sockets[s] = Free
  BY DEF FeedInit
<1>2. FeedTypeOK
  <2>1. <<>> \in Seq(Due)
    OBVIOUS
  <2> QED
    BY <2>1, FeedConstants DEF FeedInit, FeedTypeOK
<1>3. \A s \in Sockets : Placed(s) /\ Heard(s) /\ Watched(s)
  BY <1>1, FeedConstants DEF Placed, Heard, Watched, Alive
<1> QED
  BY <1>2, <1>3 DEF FeedInit, FeedInv, OneTimer

\* What stays due when one is called off, and when the hook is left.
LEMMA CalledOffIs ==
  ASSUME FeedTypeOK
  PROVE  /\ CalledOff \in Seq(Due)
         /\ [k \in DOMAIN CalledOff |-> [CalledOff[k] EXCEPT !.mine = FALSE]] \in Seq(Due)
         /\ OneTimer => CalledOff = <<>>
<1>1. timers \in Seq(Due)
  BY DEF FeedTypeOK
<1>2. CalledOff \in Seq(Due)
  <2>1. CASE feed.planned /\ timers # <<>>
    <3>1. Len(timers) \in Nat /\ Len(timers) # 0
      BY <1>1, <2>1
    <3>2. SubSeq(timers, 1, Len(timers) - 1) \in Seq(Due)
      BY <1>1, <3>1
    <3> QED
      BY <2>1, <3>2 DEF CalledOff
  <2>2. CASE ~(feed.planned /\ timers # <<>>)
    BY <1>1, <2>2 DEF CalledOff
  <2> QED
    BY <2>1, <2>2
<1>3. [k \in DOMAIN CalledOff |-> [CalledOff[k] EXCEPT !.mine = FALSE]] \in Seq(Due)
  <2> DEFINE c == CalledOff
  <2> HIDE DEF c
  <2>1. Len(c) \in Nat /\ DOMAIN c = 1..Len(c) /\ \A k \in 1..Len(c) : c[k] \in Due
    BY <1>2 DEF c
  <2>2. \A k \in 1..Len(c) : [c[k] EXCEPT !.mine = FALSE] \in Due
    BY <2>1 DEF Due
  <2>3. [k \in DOMAIN c |-> [c[k] EXCEPT !.mine = FALSE]] \in [1..Len(c) -> Due]
    BY <2>1, <2>2
  <2> QED
    BY <2>1, <2>3, SeqDef DEF c
<1>4. ASSUME OneTimer PROVE CalledOff = <<>>
  <2>1. CASE timers = <<>>
    BY <2>1 DEF CalledOff
  <2>2. CASE timers # <<>>
    <3>1. Len(timers) = 1 /\ CalledOff = SubSeq(timers, 1, Len(timers) - 1)
      BY <1>4, <2>2 DEF OneTimer, CalledOff
    <3>2. CalledOff = SubSeq(timers, 1, 0)
      BY <3>1
    <3>3. Len(SubSeq(timers, 1, 0)) = 0 /\ SubSeq(timers, 1, 0) \in Seq(Due)
      BY <1>1
    <3> QED
      BY <3>2, <3>3
  <2> QED
    BY <2>1, <2>2
<1> QED
  BY <1>2, <1>3, <1>4

\* The hook f takes s as a new socket for a lab.
Took(f, ss, lab, s) == feed' = [f EXCEPT !.ref = s] /\ sockets' = [ss EXCEPT ![s] = Opening(lab)]

\* What connect makes of a hook f and sockets ss for a lab.
LEMMA ConnectedIs ==
  ASSUME NEW f, NEW ss, NEW lab \in Labs,
         \E n \in Connected(f, ss, lab) : feed' = n.feed /\ sockets' = n.sockets
  PROVE  \/ feed' = f /\ sockets' = ss /\ f.ref # NoSocket
         \/ f.ref = NoSocket /\ \E s \in Sockets : Took(f, ss, lab, s)
<1> DEFINE Made(s) == [feed |-> [f EXCEPT !.ref = s], sockets |-> [ss EXCEPT ![s] = Opening(lab)]]
<1>1. CASE f.ref # NoSocket
  BY <1>1 DEF Connected
<1>2. CASE f.ref = NoSocket
  <2>1. Connected(f, ss, lab) = {Made(s) : s \in {t \in Sockets : ss[t].state = "free"}}
    BY <1>2 DEF Connected
  <2> HIDE DEF Made
  <2>2. PICK s \in Sockets : feed' = Made(s).feed /\ sockets' = Made(s).sockets
    BY <2>1
  <2> QED
    BY <1>2, <2>2 DEF Made, Took
<1> QED
  BY <1>1, <1>2

\* Closing tells one socket, and what lives afterwards is another.
LEMMA ClosingIs ==
  ASSUME FeedTypeOK
  PROVE  /\ Closing(feed, sockets) \in [Sockets -> Socket]
         /\ \A s \in Sockets :
               LET c == Closing(feed, sockets)[s] IN
               /\ c.state \in {"connecting", "open"} => s # feed.ref /\ c = sockets[s]
               /\ c.lab = sockets[s].lab
               /\ c.state # "free" => sockets[s].state # "free"
<1>1. ASSUME NEW s \in Sockets
      PROVE  LET c == Closing(feed, sockets)[s] IN
             /\ c \in Socket
             /\ c.state \in {"connecting", "open"} => s # feed.ref /\ c = sockets[s]
             /\ c.lab = sockets[s].lab
             /\ c.state # "free" => sockets[s].state # "free"
  <2>1. sockets[s] \in Socket
    BY DEF FeedTypeOK
  <2>2. CASE s = feed.ref /\ sockets[s].state # "free"
    <3>1. Closing(feed, sockets)[s] = [sockets[s] EXCEPT !.state = "closing", !.was = sockets[s].state = "open"]
      BY <2>2 DEF Closing
    <3> QED
      BY <2>1, <2>2, <3>1 DEF Socket
  <2>3. CASE ~(s = feed.ref /\ sockets[s].state # "free")
    <3>1. Closing(feed, sockets)[s] = sockets[s]
      BY <2>3 DEF Closing
    <3> QED
      BY <2>1, <2>3, <3>1
  <2> QED
    BY <2>2, <2>3
<1>2. Closing(feed, sockets) = [s \in Sockets |-> Closing(feed, sockets)[s]]
  BY DEF Closing
<1> QED
  BY <1>1, <1>2

\* A new socket s of the hook f, while no socket was heard.
LEMMA FreshSocket ==
  ASSUME FeedTypeOK, NEW f \in Hook, NEW s \in Sockets, NEW lab \in Labs,
         Took(f, sockets, lab, s),
         timers' \in Seq(Due), turned' = turned, \A q \in Sockets : Placed(q)
  PROVE  /\ FeedTypeOK' /\ \A q \in Sockets : Placed(q)'
         /\ feed'.lab = f.lab
         /\ f.lab = lab /\ (\A q \in Sockets : ~sockets[q].mine /\ Watched(q))
               => \A q \in Sockets : Heard(q)' /\ Watched(q)'
<1>1. feed' \in Hook /\ feed'.lab = f.lab /\ feed'.ref = s
  BY DEF Took, Hook
<1>2. sockets'[s] = Opening(lab) /\ \A q \in Sockets \ {s} : sockets'[q] = sockets[q]
  BY DEF Took, FeedTypeOK
<1>3. FeedTypeOK'
  BY <1>1, FeedConstants DEF Took, FeedTypeOK
<1>4. \A q \in Sockets : Placed(q)'
  BY <1>2, FeedConstants DEF Placed
<1>5. ASSUME f.lab = lab, \A q \in Sockets : ~sockets[q].mine /\ Watched(q), NEW q \in Sockets
      PROVE  Heard(q)' /\ Watched(q)'
  BY <1>1, <1>2, <1>5, FeedConstants, RoutesAssumption DEF Heard, Watched, Alive
<1> QED
  BY <1>1, <1>3, <1>4, <1>5

\* The page opens, and connects.
LEMMA MountFeedKeeps == ASSUME FeedInv, NEW lab \in Labs, MountFeed(lab) PROVE FeedInv'
<1> DEFINE f == [Left EXCEPT !.lab = lab, !.should = TRUE]
<1>1. f \in Hook /\ f.lab = lab /\ f.ref = NoSocket
  BY DEF Left, Hook
<1>2. \E n \in Connected(f, sockets, lab) : feed' = n.feed /\ sockets' = n.sockets
  BY DEF MountFeed
<1>3. feed.lab = NoLab /\ timers' = timers /\ turned' = turned
  BY DEF MountFeed
<1> HIDE DEF f
<1>4. PICK s \in Sockets : Took(f, sockets, lab, s)
  BY <1>1, <1>2, ConnectedIs
<1>5. ~turned => \A q \in Sockets : ~sockets[q].mine /\ Watched(q)
  BY <1>3 DEF FeedInv, Heard
<1>6. ~turned => timers = <<>>
  <2>1. SUFFICES ASSUME OneTimer, timers # <<>> PROVE FALSE
    BY DEF FeedInv
  <2>2. timers \in Seq(Due) /\ timers = <<[lab |-> feed.lab, mine |-> TRUE]>>
    BY <2>1 DEF FeedInv, FeedTypeOK, OneTimer
  <2>3. timers[1] \in Due /\ timers[1] = [lab |-> feed.lab, mine |-> TRUE]
    BY <2>2
  <2>4. feed.lab \in Labs
    BY <2>3 DEF Due
  <2> QED
    BY <1>3, <2>4, RoutesAssumption
<1>7. timers' \in Seq(Due)
  BY <1>3 DEF FeedInv, FeedTypeOK
<1> QED
  BY <1>1, <1>3, <1>4, <1>5, <1>6, <1>7, FreshSocket DEF FeedInv, OneTimer

\* The page is left: its socket is told to close and is heard no more.
LEMMA UnmountFeedKeeps == ASSUME FeedInv, UnmountFeed PROVE FeedInv'
<1> DEFINE c(s) == Closing(feed, sockets)[s]
<1>1. feed' = Left /\ timers' \in Seq(Due) /\ turned' = turned
  BY CalledOffIs DEF UnmountFeed, FeedInv
<1>0. ~turned => timers' = <<>>
  <2>1. ~turned => CalledOff = <<>>
    BY CalledOffIs DEF FeedInv
  <2> QED
    BY <2>1 DEF UnmountFeed
<1>2. \A s \in Sockets : c(s) \in Socket
  BY ClosingIs DEF FeedInv
<1>3. sockets' = [s \in Sockets |-> [c(s) EXCEPT !.mine = FALSE]]
  BY DEF UnmountFeed
<1> HIDE DEF c
<1>4. ASSUME NEW s \in Sockets
      PROVE  /\ sockets'[s] \in Socket /\ ~sockets'[s].mine
             /\ sockets'[s].state = c(s).state /\ sockets'[s].lab = c(s).lab
  <2>1. sockets'[s] = [c(s) EXCEPT !.mine = FALSE]
    BY <1>3
  <2> QED
    BY <1>2, <2>1 DEF Socket
<1>5. FeedTypeOK'
  BY <1>1, <1>3, <1>4, FeedConstants DEF FeedInv, FeedTypeOK
<1>6. ASSUME NEW s \in Sockets
      PROVE  Placed(s)' /\ (Alive(s)' => Alive(s) /\ s # feed.ref)
  BY <1>4, ClosingIs DEF c, FeedInv, Placed, Alive
<1>7. ASSUME ~turned, NEW s \in Sockets PROVE Heard(s)' /\ Watched(s)'
  BY <1>4, <1>6, <1>7 DEF FeedInv, Heard, Watched
<1> QED
  BY <1>0, <1>1, <1>5, <1>6, <1>7 DEF FeedInv, OneTimer

\* The page turns, and nothing is claimed any more but types.
LEMMA TurnFeedKeeps == ASSUME FeedInv, NEW lab \in Labs, TurnFeed(lab) PROVE FeedInv'
<1> DEFINE f == [Left EXCEPT !.lab = lab, !.should = TRUE]
           ss == Closing(feed, sockets)
<1>1. f \in Hook /\ f.ref = NoSocket
  BY DEF Left, Hook
<1>2. ss \in [Sockets -> Socket]
  BY ClosingIs DEF FeedInv
<1>3. \E n \in Connected(f, ss, lab) : feed' = n.feed /\ sockets' = n.sockets
  BY DEF TurnFeed
<1>4. turned' = TRUE /\ timers' \in Seq(Due)
  BY CalledOffIs DEF TurnFeed, FeedInv
<1>5. \A q \in Sockets : ss[q].state # "free" => ss[q].lab \in Labs
  BY ClosingIs DEF FeedInv, Placed
<1> HIDE DEF f, ss
<1>6. PICK s \in Sockets : Took(f, ss, lab, s)
  BY <1>1, <1>3, ConnectedIs
<1>7. FeedTypeOK'
  BY <1>1, <1>2, <1>4, <1>6, FeedConstants DEF Took, FeedTypeOK, Hook
<1>8. sockets'[s] = Opening(lab) /\ \A q \in Sockets \ {s} : sockets'[q] = ss[q]
  BY <1>2, <1>6 DEF Took
<1>9. \A q \in Sockets : Placed(q)'
  BY <1>5, <1>8, FeedConstants DEF Placed
<1> QED
  BY <1>4, <1>7, <1>9 DEF FeedInv

\* A reconnection finds the reference taken, or no socket heard.
LEMMA TimerKeeps == ASSUME FeedInv, TimerFires PROVE FeedInv'
<1> DEFINE due == Head(timers)
<1>1. /\ timers # <<>> /\ timers' = Tail(timers) /\ turned' = turned
      /\ IF due.mine THEN TimerOfPage(due.lab) ELSE TimerOfNobody(due.lab)
  BY DEF TimerFires
<1>2. timers \in Seq(Due) /\ FeedTypeOK /\ feed \in Hook
  BY DEF FeedInv, FeedTypeOK
<1>3. due \in Due /\ timers' \in Seq(Due)
  BY <1>1, <1>2
<1>4. due.lab \in Labs
  BY <1>3 DEF Due
<1>5. ~turned => due.mine /\ due.lab = feed.lab /\ feed.ref = NoSocket /\ timers' = <<>>
  <2> DEFINE last == [lab |-> feed.lab, mine |-> TRUE]
  <2>1. ASSUME ~turned PROVE timers = <<last>> /\ feed.ref = NoSocket
    BY <1>1, <2>1 DEF FeedInv, OneTimer
  <2>2. last.mine /\ last.lab = feed.lab
    OBVIOUS
  <2> HIDE DEF last
  <2>3. Head(<<last>>) = last /\ Tail(<<last>>) = <<>>
    OBVIOUS
  <2> QED
    BY <1>1, <2>1, <2>2, <2>3
<1> HIDE DEF due
<1>6. ASSUME NEW s \in Sockets, feed.ref = NoSocket, Took(feed, sockets, due.lab, s)
      PROVE  FeedInv'
  <2>1. ~turned => \A q \in Sockets : ~sockets[q].mine /\ Watched(q)
    BY <1>6, FeedAssumption DEF FeedInv, Heard
  <2>2. FeedTypeOK' /\ (\A q \in Sockets : Placed(q)')
    BY <1>1, <1>2, <1>3, <1>4, <1>6, FreshSocket DEF FeedInv
  <2>3. ~turned => \A q \in Sockets : Heard(q)' /\ Watched(q)'
    BY <1>1, <1>2, <1>3, <1>4, <1>5, <1>6, <2>1, FreshSocket DEF FeedInv
  <2> QED
    BY <1>1, <1>5, <2>2, <2>3 DEF FeedInv, OneTimer
<1>7. CASE UNCHANGED <<feed, sockets>>
  <2>1. FeedTypeOK'
    BY <1>1, <1>2, <1>3, <1>7 DEF FeedTypeOK
  <2> QED
    BY <1>1, <1>5, <1>7, <2>1 DEF FeedInv, OneTimer, Placed, Heard, Watched, Alive
<1>8. CASE due.mine
  <2>1. \E n \in Connected(feed, sockets, due.lab) : feed' = n.feed /\ sockets' = n.sockets
    BY <1>1, <1>8 DEF TimerOfPage
  <2> QED
    BY <1>4, <1>6, <1>7, <2>1, ConnectedIs
<1>9. CASE ~due.mine
  <2>1. turned /\ feed' = feed
    BY <1>1, <1>5, <1>9 DEF TimerOfNobody
  <2>2. ASSUME NEW s \in Sockets, sockets' = [sockets EXCEPT ![s] = [Opening(due.lab) EXCEPT !.mine = FALSE]]
        PROVE  FeedInv'
    <3> DEFINE new == [Opening(due.lab) EXCEPT !.mine = FALSE]
    <3>1. new \in Socket /\ new.lab \in Labs
      BY <1>4 DEF Opening, Socket
    <3> HIDE DEF new
    <3>2. sockets' = [sockets EXCEPT ![s] = new]
      BY <2>2 DEF new
    <3>3. sockets' \in [Sockets -> Socket] /\ \A q \in Sockets : sockets'[q] = new \/ sockets'[q] = sockets[q]
      BY <1>2, <3>1, <3>2 DEF FeedTypeOK
    <3>4. FeedTypeOK'
      BY <1>1, <1>2, <1>3, <2>1, <3>3 DEF FeedTypeOK
    <3>5. \A q \in Sockets : Placed(q)'
      BY <3>1, <3>3 DEF FeedInv, Placed
    <3> QED
      BY <1>1, <2>1, <3>4, <3>5 DEF FeedInv
  <2> QED
    BY <1>1, <1>7, <1>9, <2>1, <2>2 DEF TimerOfNobody
<1> QED
  BY <1>8, <1>9

\* A socket opens.
LEMMA OpenKeeps == ASSUME FeedInv, NEW s \in Sockets, SocketOpens(s) PROVE FeedInv'
<1>1. /\ sockets[s].state = "connecting" /\ sockets' = [sockets EXCEPT ![s].state = "open"]
      /\ feed' = [feed EXCEPT !.connected = TRUE] \/ feed' = feed
      /\ timers' = timers /\ turned' = turned
  BY DEF SocketOpens
<1>2. FeedTypeOK
  BY DEF FeedInv
<1>3. FeedTypeOK' /\ feed'.ref = feed.ref /\ feed'.lab = feed.lab /\ feed'.planned = feed.planned
  BY <1>1, <1>2 DEF FeedTypeOK, Hook, Socket
<1>4. \A q \in Sockets : /\ sockets'[q].mine = sockets[q].mine /\ sockets'[q].lab = sockets[q].lab
                         /\ (Alive(q)' => Alive(q))
                         /\ sockets'[q].state # "free" => sockets[q].state # "free"
  BY <1>1, <1>2 DEF FeedTypeOK, Socket, Alive
<1>5. \A q \in Sockets : Placed(q)'
  BY <1>4 DEF FeedInv, Placed
<1>6. ~turned => \A q \in Sockets : Heard(q)' /\ Watched(q)'
  BY <1>3, <1>4 DEF FeedInv, Heard, Watched
<1> QED
  BY <1>1, <1>3, <1>5, <1>6 DEF FeedInv, OneTimer

\* A socket closes, and a reconnection for its lab may be planned.
LEMMA CloseKeeps == ASSUME FeedInv, NEW s \in Sockets, NEW normal \in BOOLEAN, SocketCloses(s, normal) PROVE FeedInv'
<1>1. sockets[s].state # "free" /\ sockets' = [sockets EXCEPT ![s] = Free] /\ turned' = turned
  BY DEF SocketCloses
<1>2. FeedTypeOK /\ sockets[s].lab \in Labs
  BY <1>1 DEF FeedInv, Placed
<1>3. sockets'[s] = Free /\ \A q \in Sockets \ {s} : sockets'[q] = sockets[q]
  BY <1>1, <1>2 DEF FeedTypeOK
<1>4. sockets' \in [Sockets -> Socket]
  BY <1>1, <1>2, FeedConstants DEF FeedTypeOK
<1>5. \A q \in Sockets : Placed(q)'
  BY <1>3, FeedConstants DEF FeedInv, Placed
<1>6. CASE ~sockets[s].mine
  <2>1. feed' = feed /\ timers' = timers
    BY <1>6 DEF SocketCloses
  <2>2. FeedTypeOK'
    BY <1>1, <1>2, <1>4, <2>1 DEF FeedTypeOK
  <2>3. ~turned => \A q \in Sockets : Heard(q)' /\ Watched(q)'
    BY <1>3, <2>1, FeedConstants DEF FeedInv, Heard, Watched, Alive
  <2> QED
    BY <1>1, <1>5, <2>1, <2>2, <2>3 DEF FeedInv, OneTimer
<1>7. CASE sockets[s].mine
  <2> DEFINE due == [lab |-> sockets[s].lab, mine |-> TRUE]
             again == Reconnects(s, normal)
  <2>1. /\ feed' = [feed EXCEPT !.connected = FALSE, !.ref = NoSocket, !.final = feed.final \/ normal,
                                !.planned = feed.planned \/ again]
        /\ timers' = IF again THEN Append(timers, due) ELSE timers
    BY <1>7 DEF SocketCloses
  <2>2. due \in Due /\ feed.final \in BOOLEAN /\ feed.planned \in BOOLEAN /\ feed.should \in BOOLEAN
    BY <1>2 DEF FeedTypeOK, Hook, Due
  <2>3. again \in BOOLEAN
    BY <2>2 DEF Reconnects
  <2> HIDE DEF due, again
  <2>4. (feed.final \/ normal) \in BOOLEAN /\ (feed.planned \/ again) \in BOOLEAN
    OBVIOUS
  <2>5. /\ feed' \in Hook /\ feed'.lab = feed.lab /\ feed'.ref = NoSocket
        /\ feed'.planned = (feed.planned \/ again)
    BY <1>2, <2>1, <2>4 DEF FeedTypeOK, Hook
  <2>6. timers' \in Seq(Due)
    BY <1>2, <2>1, <2>2 DEF FeedTypeOK
  <2>7. FeedTypeOK'
    BY <1>1, <1>2, <1>4, <2>5, <2>6 DEF FeedTypeOK
  <2>8. ~turned => \A q \in Sockets \ {s} : ~sockets[q].mine
    BY <1>7 DEF FeedInv, Heard
  <2>9. ~turned => \A q \in Sockets : Heard(q)' /\ Watched(q)'
    BY <1>3, <2>8, FeedConstants DEF FeedInv, Heard, Watched, Alive
  <2>10. ~turned => sockets[s].lab = feed.lab /\ timers = <<>>
    BY <1>7, FeedAssumption DEF FeedInv, Heard, OneTimer
  <2>11. ~turned => OneTimer'
    <3>1. CASE again
      <4>1. ~turned => timers' = <<due>>
        BY <2>1, <2>2, <2>10, <3>1
      <4>2. ~turned => due = [lab |-> feed'.lab, mine |-> TRUE]
        BY <2>5, <2>10 DEF due
      <4> QED
        BY <2>5, <3>1, <4>1, <4>2 DEF OneTimer
    <3>2. CASE ~again
      BY <2>1, <2>10, <3>2 DEF OneTimer
    <3> QED
      BY <3>1, <3>2
  <2> QED
    BY <1>1, <1>5, <2>7, <2>9, <2>11 DEF FeedInv
<1> QED
  BY <1>6, <1>7

\* Whatever the user, the network and the clock do.
LEMMA FeedInvStep == FeedInv /\ [FeedNext]_feedVars => FeedInv'
<1> SUFFICES ASSUME FeedInv, [FeedNext]_feedVars PROVE FeedInv'
  OBVIOUS
<1>1. CASE UNCHANGED feedVars
  BY <1>1 DEF feedVars, FeedInv, FeedTypeOK, OneTimer, Placed, Heard, Watched, Alive
<1>2. CASE FeedNext
  BY <1>2, MountFeedKeeps, UnmountFeedKeeps, TurnFeedKeeps, TimerKeeps, OpenKeeps, CloseKeeps DEF FeedNext, FeedStep
<1> QED
  BY <1>1, <1>2

-----------------------------------------------------------------------------

\* While no page turned to another lab, a socket that lives is the one the page refers to,
\* for the lab it shows; a page that was left has none.
THEOREM FeedHeld == FeedSpec => []OneFeed
<1>1. FeedInv => OneFeed
  BY DEF FeedInv, OneFeed, Heard, Watched
<1> QED
  BY FeedInvInit, FeedInvStep, <1>1, PTL DEF FeedSpec

-----------------------------------------------------------------------------
(* The canvas: links *)

\* A link that is asked for joins two nodes: the dialog forgets neither and opens for two.
Asked == {<<>>} \union {<<a, b>> : a \in Nodes, b \in Nodes}

MayJoin == \A a, b \in Nodes : dialogs.link = <<a, b>> => a # b

\* What InterfaceOnce says of the canvas, for any links.
OnceIn(ls) ==
    \A l \in ls : l.drawn => l.src # l.dst /\ \A k \in ls : k # l => Ends(k) \intersect Ends(l) = {}

CanvasInv ==
    /\ hand \in [held : [id : Nodes \union Texts \union {Nothing}, saved : BOOLEAN], wire : Nodes \union {Nothing}]
    /\ dialogs \in [link : Asked, doomed : SUBSET Nodes, form : BOOLEAN, menu : Nodes \union {Nothing}]
    /\ MayJoin
    /\ links \subseteq Links
    /\ InterfaceOnce

-----------------------------------------------------------------------------

\* A canvas with fewer links uses no interface more often.
LEMMA FewerLinks == ASSUME NEW ls, NEW ks, ks \subseteq ls, OnceIn(ls) PROVE OnceIn(ks)
  BY DEF OnceIn

\* The interfaces the dialog offers are free: a link over two of them joins the others.
LEMMA FreeEnds ==
  ASSUME links \subseteq Links, OnceIn(links),
         NEW a \in Nodes, NEW b \in Nodes, a # b, NEW si \in Ifaces, NEW di \in Ifaces,
         si \notin UsedIfaces(a), di \notin UsedIfaces(b)
  PROVE  OnceIn(links \union {[src |-> a, si |-> si, dst |-> b, di |-> di, drawn |-> TRUE]})
<1> DEFINE new == [src |-> a, si |-> si, dst |-> b, di |-> di, drawn |-> TRUE]
<1>1. ASSUME NEW l \in links
      PROVE  Ends(l) \intersect Ends(new) = {}
  <2>1. l \in Links
    OBVIOUS
  <2>2. ~(l.src = a /\ l.si = si) /\ ~(l.dst = a /\ l.di = si)
    BY DEF UsedIfaces
  <2>3. ~(l.src = b /\ l.si = di) /\ ~(l.dst = b /\ l.di = di)
    BY DEF UsedIfaces
  <2> QED
    BY <2>1, <2>2, <2>3 DEF Ends
<1>2. \A l \in links : Ends(new) \intersect Ends(l) = {}
  BY <1>1
<1> HIDE DEF new
<1>3. new.src # new.dst
  BY DEF new
<1>4. OnceIn(links \union {new})
  BY <1>1, <1>2, <1>3 DEF OnceIn
<1> QED
  BY <1>4 DEF new

\* The page opens on an empty canvas.
LEMMA CanvasInvInit == CanvasInit => CanvasInv
  BY DEF CanvasInit, CanvasInv, EmptyHand, NoHold, Closed, Asked, MayJoin, InterfaceOnce, OnceIn

\* Whatever the user does and whatever is answered, in any order.
LEMMA CanvasInvStep == CanvasInv /\ [CanvasNext]_canvasVars => CanvasInv'
<1> SUFFICES ASSUME CanvasInv, [CanvasNext]_canvasVars PROVE CanvasInv'
  OBVIOUS
<1> USE DEF CanvasInv
<1>0. CASE UNCHANGED canvasVars
  BY <1>0 DEF canvasVars, MayJoin, InterfaceOnce, OnceIn
<1>1. ASSUME NEW x, MountCanvas(x) \/ TurnCanvas(x) \/ TopologyServed(x) \/ TextsServed(x) \/ LoadFails(x)
      PROVE  CanvasInv'
  BY <1>1 DEF MountCanvas, TurnCanvas, TopologyServed, TextsServed, LoadFails, MayJoin, InterfaceOnce, OnceIn
<1>2. CASE UnmountCanvas
  BY <1>2 DEF UnmountCanvas, EmptyHand, NoHold, Closed, Asked, MayJoin, InterfaceOnce, OnceIn
<1>3. ASSUME NEW k, LoadAnswered(k) PROVE CanvasInv'
  <2>1. links' \subseteq {ShownLink(w) : w \in Wires} /\ UNCHANGED <<hand, dialogs>>
    BY <1>3 DEF LoadAnswered
  <2>2. \A w \in Wires : ShownLink(w) \in Links /\ ~ShownLink(w).drawn
    BY CanvasAssumption DEF ShownLink, Wire, Links
  <2>3. links' \subseteq Links /\ \A l \in links' : ~l.drawn
    BY <2>1, <2>2
  <2> QED
    BY <2>1, <2>3 DEF MayJoin, InterfaceOnce
<1>4. ASSUME NEW x \in Nodes \union Texts, StartDrag(x) PROVE CanvasInv'
  BY <1>4 DEF StartDrag, MayJoin, InterfaceOnce, OnceIn
<1>5. CASE OnUp
  BY <1>5 DEF OnUp, NoHold, MayJoin, InterfaceOnce, OnceIn
<1>6. ASSUME NEW n \in Nodes, StartConnect(n) PROVE CanvasInv'
  BY <1>6 DEF StartConnect, MayJoin, InterfaceOnce, OnceIn
<1>7. ASSUME NEW n \in Nodes \union {Nothing}, EndConnect(n) PROVE CanvasInv'
  <2>1. hand' = [hand EXCEPT !.wire = Nothing] /\ UNCHANGED links
    BY <1>7 DEF EndConnect
  <2>2. CASE n # Nothing /\ n # hand.wire
    <3>1. dialogs' = [dialogs EXCEPT !.link = <<hand.wire, n>>] /\ hand.wire \in Nodes /\ n \in Nodes
      BY <1>7, <2>2 DEF EndConnect
    <3>2. dialogs'.link = <<hand.wire, n>>
      BY <3>1
    <3>3. MayJoin'
      BY <2>2, <3>2 DEF MayJoin
    <3> QED
      BY <2>1, <3>1, <3>3 DEF Asked, InterfaceOnce, OnceIn
  <2>3. CASE ~(n # Nothing /\ n # hand.wire)
    BY <1>7, <2>1, <2>3 DEF EndConnect, MayJoin, InterfaceOnce, OnceIn
  <2> QED
    BY <2>2, <2>3
<1>8. ASSUME NEW si \in Ifaces, NEW di \in Ifaces, FinishLink(si, di) PROVE CanvasInv'
  <2>1. PICK a \in Nodes, b \in Nodes : dialogs.link = <<a, b>>
    BY <1>8 DEF FinishLink, Asked
  <2>2. a # b
    BY <2>1 DEF MayJoin
  <2>3. /\ si \notin UsedIfaces(a) /\ di \notin UsedIfaces(b)
        /\ links' = links \union {[src |-> a, si |-> si, dst |-> b, di |-> di, drawn |-> TRUE]}
        /\ dialogs' = [dialogs EXCEPT !.link = <<>>] /\ UNCHANGED hand
    BY <1>8, <2>1 DEF FinishLink
  <2>4. OnceIn(links')
    BY <2>2, <2>3, FreeEnds DEF InterfaceOnce, OnceIn
  <2>5. links' \subseteq Links
    <3>1. [src |-> a, si |-> si, dst |-> b, di |-> di, drawn |-> TRUE] \in Links
      BY DEF Links
    <3> QED
      BY <2>3, <3>1
  <2>6. MayJoin'
    BY <2>3 DEF MayJoin
  <2> QED
    BY <2>3, <2>4, <2>5, <2>6 DEF Asked, InterfaceOnce, OnceIn
<1>9. CASE CancelLink
  BY <1>9 DEF CancelLink, Asked, MayJoin, InterfaceOnce, OnceIn
<1>10. ASSUME NEW n \in Nodes, NodeMenu(n) PROVE CanvasInv'
  BY <1>10 DEF NodeMenu, MayJoin, InterfaceOnce, OnceIn
<1>11. CASE AskDelete
  BY <1>11 DEF AskDelete, MayJoin, InterfaceOnce, OnceIn
<1>12. CASE CancelDelete
  BY <1>12 DEF CancelDelete, MayJoin, InterfaceOnce, OnceIn
<1>13. CASE ConfirmDelete
  <2>1. links' \subseteq links /\ dialogs' = [dialogs EXCEPT !.doomed = {}] /\ UNCHANGED hand
    BY <1>13 DEF ConfirmDelete
  <2>2. OnceIn(links')
    BY <2>1, FewerLinks DEF InterfaceOnce, OnceIn
  <2> QED
    BY <2>1, <2>2 DEF MayJoin, InterfaceOnce, OnceIn
<1>14. ASSUME NEW ns \in SUBSET Nodes, BoxSelect(ns) PROVE CanvasInv'
  BY <1>14 DEF BoxSelect, MayJoin, InterfaceOnce, OnceIn
<1>15. CASE AddNodeToCanvas \/ CloseForm
  BY <1>15 DEF AddNodeToCanvas, CloseForm, MayJoin, InterfaceOnce, OnceIn
<1>16. ASSUME NEW k, NEW n \in Nodes, NEW ok, NodeAdded(k, n, ok) PROVE CanvasInv'
  <2>1. (UNCHANGED dialogs \/ dialogs' = [dialogs EXCEPT !.form = FALSE]) /\ UNCHANGED <<links, hand>>
    BY <1>16 DEF NodeAdded
  <2> QED
    BY <2>1 DEF MayJoin, InterfaceOnce, OnceIn
<1>17. CASE UNCHANGED <<hand, dialogs, links>>
  BY <1>17 DEF MayJoin, InterfaceOnce, OnceIn
<1>18. ASSUME NEW qty, ConfirmAddNodes(qty) PROVE CanvasInv'
  BY <1>18, <1>17 DEF ConfirmAddNodes
<1>19. ASSUME NEW p, OnMove(p) \/ Align(p) PROVE CanvasInv'
  BY <1>19, <1>17 DEF OnMove, Align
<1>20. ASSUME NEW r, RequestServed(r) \/ RequestFails(r) \/ TextStored(r) \/ TextRefused(r) PROVE CanvasInv'
  BY <1>20, <1>17 DEF RequestServed, RequestFails, TextStored, TextRefused
<1>21. ASSUME NEW t, AddText(t) \/ DeleteText(t) PROVE CanvasInv'
  BY <1>21, <1>17 DEF AddText, DeleteText
<1>22. CASE NodeGesture
  BY <1>22, <1>4, <1>6, <1>10, <1>19, <1>14, <1>15, <1>18 DEF NodeGesture
<1>23. CASE TextGesture
  BY <1>23, <1>4, <1>21 DEF TextGesture
<1>24. CASE Continuation
  BY <1>24, <1>1, <1>3, <1>5, <1>7, <1>8, <1>9, <1>11, <1>12, <1>13, <1>15, <1>16, <1>19, <1>20
     DEF Continuation
<1> QED
  BY <1>0, <1>1, <1>2, <1>22, <1>23, <1>24 DEF CanvasNext, CanvasStep, NodeStep, TextStep

-----------------------------------------------------------------------------

\* "Each interface can only be connected once" (LabCanvas.jsx): in every reachable state of
\* the page a link drawn there shares no interface with another link, whatever links the
\* backend has, and however loads, deletions, drawn links and turns to other labs interleave.
THEOREM InterfaceHeld == CanvasSpec => []InterfaceOnce
<1>1. CanvasInv => InterfaceOnce
  BY DEF CanvasInv
<1> QED
  BY CanvasInvInit, CanvasInvStep, <1>1, PTL DEF CanvasSpec

-----------------------------------------------------------------------------
(* The canvas: nodes *)

Node == [on : BOOLEAN, at : Places, temp : BOOLEAN]
Row == [lab : Labs \union {NoLab, Gone}, at : Places]
Run == [lab : Labs, left : Int, made : SUBSET [id : Nodes, temp : BOOLEAN], mine : BOOLEAN]
Request == [kind : {"put", "delete"}, id : Nodes \union Texts, at : Places]
Post == [id : Texts, lab : Labs \union {NoLab}, mine : BOOLEAN]
Load == [lab : Labs, due : SUBSET Answers, node : [Nodes -> Row], text : [Texts -> Row]]
Flights == [loads : Seq(Load), adds : Seq(Run), sent : SUBSET Request, posts : SUBSET Post]

\* The page, what is in flight and the backend have the shapes the model gives them.
CanvasShape ==
    /\ view \in [lab : Labs \union {NoLab}, loading : BOOLEAN]
    /\ nodes \in [Nodes -> Node]
    /\ chosen \in [isSet : BOOLEAN, ids : SUBSET (Nodes \union Texts)]
    /\ flight \in Flights
    /\ db \in [node : [Nodes -> Row], text : [Texts -> Row]]
    /\ past \in [mixed : BOOLEAN, refused : BOOLEAN]

-----------------------------------------------------------------------------

MadeIn(k, n) == \E m \in flight.adds[k].made : m.id = n
Requested(n) == \E r \in flight.sent : r.id = n
DeleteSent(n) == \E r \in flight.sent : r.id = n /\ r.kind = "delete"

\* The page shows, selects or is about to delete the node, or a request for it is under way.
Touched(n) ==
    nodes[n].on \/ n \in chosen.ids \/ n \in dialogs.doomed \/ n = dialogs.menu \/ Requested(n)

\* What the page touches the backend knows, or knew; a refused node it never knew.
Founded ==
    /\ \A n \in Nodes : /\ Touched(n) => db.node[n].lab # NoLab
                        /\ nodes[n].temp => nodes[n].on /\ db.node[n].lab = Gone
    /\ \A k \in DOMAIN flight.adds : \A m \in flight.adds[k].made :
          db.node[m.id].lab # NoLab /\ (m.temp => db.node[m.id].lab = Gone)

\* A run that makes nodes is for this lab, and its nodes nobody touches and no other run makes.
RunsApart == \A k \in DOMAIN flight.adds :
    /\ flight.adds[k].mine /\ flight.adds[k].lab = view.lab
    /\ \A m \in flight.adds[k].made :
          /\ ~Touched(m.id)
          /\ db.node[m.id].at = 1
          /\ ~m.temp => db.node[m.id].lab = view.lab
    /\ \A j \in DOMAIN flight.adds \ {k}, n \in Nodes : ~(MadeIn(k, n) /\ MadeIn(j, n))

\* One request for a thing at a time, and a node that is to be deleted is off the canvas.
OneRequest ==
    /\ \A r, s \in flight.sent : r.id = s.id => r = s
    /\ \A n \in Nodes : DeleteSent(n) => ~nodes[n].on

\* One load at most, for the lab of the address.
OneLoad == Len(flight.loads) <= 1 /\ \A k \in DOMAIN flight.loads : flight.loads[k].lab = view.lab

\* A node is where a request under way puts it, or else where the backend has it.
InPlace(n) ==
    IF Requested(n) THEN Put(n, nodes[n].at) \in flight.sent
    ELSE nodes[n].at = db.node[n].at \/ nodes[n].at = ShownAt(db.node[n].at)

\* What is shown is in the lab, unless the mouse drags it where the backend has it; what is
\* in the lab is shown, or about to be deleted, or about to appear.
Mirrored(n) ==
    /\ nodes[n].on /\ ~nodes[n].temp => db.node[n].lab = view.lab /\ (hand.held.id = n \/ InPlace(n))
    /\ db.node[n].lab = view.lab =>
          \/ nodes[n].on /\ ~nodes[n].temp
          \/ DeleteSent(n)
          \/ \E k \in DOMAIN flight.adds : MadeIn(k, n)

\* The form for new nodes is open on the page of a lab only.
FormOpen == dialogs.form => view.lab \in Labs

InOrder == ~past.mixed /\ ~past.refused

MirrorInv ==
    /\ CanvasShape /\ Founded
    /\ InOrder => RunsApart /\ OneRequest /\ OneLoad
    /\ InOrder /\ view.lab # NoLab /\ ~Loading => \A n \in Nodes : Mirrored(n)

-----------------------------------------------------------------------------

\* The parts of what is in flight, and a run.
LEMMA InFlight ==
  ASSUME flight \in Flights
  PROVE  /\ flight.adds \in Seq(Run) /\ flight.loads \in Seq(Load)
         /\ flight.sent \subseteq Request /\ flight.posts \subseteq Post
         /\ \A k \in DOMAIN flight.adds :
               flight.adds[k] \in Run /\ \A m \in flight.adds[k].made : m.id \in Nodes /\ m.temp \in BOOLEAN
<1>1. /\ flight.adds \in Seq(Run) /\ flight.loads \in Seq(Load)
      /\ flight.sent \subseteq Request /\ flight.posts \subseteq Post
  BY DEF Flights
<1>2. \A k \in DOMAIN flight.adds : flight.adds[k] \in Run
  BY <1>1
<1>3. \A run \in Run : \A m \in run.made : m.id \in Nodes /\ m.temp \in BOOLEAN
  BY DEF Run
<1> QED
  BY <1>1, <1>2, <1>3

\* A handler that sends requests rs, and does not touch what the backend or another run has:
\* what it takes off the canvas it asks to delete, what it puts somewhere it asks to put
\* there, unless the mouse holds it or the page alone has it.
Handles(rs) ==
    /\ rs \subseteq Request
    /\ flight'.sent = flight.sent \union rs /\ flight'.adds = flight.adds /\ flight'.loads = flight.loads
    /\ view'.lab = view.lab /\ db'.node = db.node
    /\ InOrder' => InOrder /\ \A r \in rs, s \in flight.sent : r.id # s.id
    /\ \A r, s \in rs : r.id = s.id => r = s
    /\ \A r \in rs : r.id \in Nodes => Touched(r.id)
    /\ \A n \in Nodes :
          /\ n \in chosen'.ids \/ n \in dialogs'.doomed \/ n = dialogs'.menu => Touched(n)
          /\ nodes'[n].on => nodes[n].on
          /\ nodes'[n].temp = (nodes[n].temp /\ nodes'[n].on)
          /\ nodes[n].on /\ ~nodes[n].temp /\ ~nodes'[n].on => \E r \in rs : r.id = n /\ r.kind = "delete"
          /\ (\E r \in rs : r.id = n /\ r.kind = "delete") => ~nodes'[n].on
          /\ nodes'[n].on /\ ~nodes'[n].temp =>
                \/ hand'.held.id = n \/ Put(n, nodes'[n].at) \in rs
                \/ nodes'[n].at = nodes[n].at /\ hand.held.id # n /\ \A r \in rs : r.id # n

\* Such a handler keeps the canvas and the backend in step.
LEMMA HandlesKeeps ==
  ASSUME MirrorInv, CanvasShape', NEW rs, Handles(rs) PROVE MirrorInv'
<1>1. /\ rs \subseteq Request
      /\ flight'.sent = flight.sent \union rs /\ flight'.adds = flight.adds /\ flight'.loads = flight.loads
      /\ view'.lab = view.lab /\ db'.node = db.node
      /\ InOrder' => InOrder /\ \A r \in rs, s \in flight.sent : r.id # s.id
      /\ \A r, s \in rs : r.id = s.id => r = s
  BY DEF Handles
<1>2. \A n \in Nodes : Touched(n)' => Touched(n)
  BY <1>1 DEF Handles, Touched, Requested
<1>3. \A n \in Nodes : DeleteSent(n)' <=> DeleteSent(n) \/ \E r \in rs : r.id = n /\ r.kind = "delete"
  BY <1>1 DEF DeleteSent
<1>4. \A k, n : MadeIn(k, n)' <=> MadeIn(k, n)
  BY <1>1 DEF MadeIn
<1>5. \A k \in DOMAIN flight.adds : \A m \in flight.adds[k].made : m.id \in Nodes
  BY InFlight DEF MirrorInv, CanvasShape
<1>6. Founded'
  <2>1. Founded
    BY DEF MirrorInv
  <2>2. \A n \in Nodes : nodes'[n].temp => nodes[n].temp /\ nodes'[n].on
    BY DEF Handles
  <2> QED
    BY <1>1, <1>2, <2>1, <2>2 DEF Founded
<1>7. InOrder' => RunsApart'
  BY <1>1, <1>2, <1>4, <1>5 DEF MirrorInv, RunsApart
<1>8. InOrder' => OneRequest'
  BY <1>1, <1>3 DEF MirrorInv, OneRequest, Handles
<1>9. InOrder' => OneLoad'
  BY <1>1 DEF MirrorInv, OneLoad
<1>10. ASSUME InOrder', view'.lab # NoLab, ~Loading', NEW n \in Nodes PROVE Mirrored(n)'
  <2>1. Mirrored(n)
    BY <1>1, <1>10 DEF MirrorInv, Loading
  <2>2. nodes'[n].on /\ ~nodes'[n].temp => hand'.held.id = n \/ InPlace(n)'
    <3>1. SUFFICES ASSUME nodes'[n].on, ~nodes'[n].temp, hand'.held.id # n PROVE InPlace(n)'
      OBVIOUS
    <3>2. CASE Put(n, nodes'[n].at) \in rs
      BY <1>1, <3>2 DEF InPlace, Requested, Put
    <3>3. CASE nodes'[n].at = nodes[n].at /\ hand.held.id # n /\ \A r \in rs : r.id # n
      BY <1>1, <2>1, <3>1, <3>3 DEF Handles, Mirrored, InPlace, Requested, ShownAt
    <3> QED
      BY <3>1, <3>2, <3>3 DEF Handles
  <2>3. db'.node[n].lab = view'.lab =>
          (nodes'[n].on /\ ~nodes'[n].temp) \/ DeleteSent(n)' \/ \E k \in DOMAIN flight'.adds : MadeIn(k, n)'
    BY <1>1, <1>3, <1>4, <2>1 DEF Handles, Mirrored
  <2>4. nodes'[n].on /\ ~nodes'[n].temp => db'.node[n].lab = view'.lab
    BY <1>1, <2>1 DEF Handles, Mirrored
  <2> QED
    BY <2>2, <2>3, <2>4 DEF Mirrored
<1> QED
  BY <1>6, <1>7, <1>8, <1>9, <1>10 DEF MirrorInv

\* A gesture that only grabs, selects, or opens and closes dialogs.
LEMMA GestureKeeps ==
  ASSUME MirrorInv, UNCHANGED <<view, nodes, flight, db, past>>,
         chosen' \in [isSet : BOOLEAN, ids : SUBSET (Nodes \union Texts)],
         \A n \in Nodes : n \in chosen'.ids \/ n \in dialogs'.doomed \/ n = dialogs'.menu => Touched(n),
         \A n \in Nodes : hand.held.id = n => hand'.held.id = n
  PROVE  MirrorInv'
<1>1. CanvasShape'
  BY DEF MirrorInv, CanvasShape
<1>2. \A n \in Nodes : nodes[n] \in Node
  BY DEF MirrorInv, CanvasShape
<1>3. \A n \in Nodes : nodes[n].temp = (nodes[n].temp /\ nodes[n].on)
  BY <1>2 DEF MirrorInv, Founded, Node
<1>4. Handles({})
  BY <1>3 DEF Handles, InOrder
<1> QED
  BY <1>1, <1>4, HandlesKeeps

\* What happens to texts, and to links, is nothing to nodes.
LEMMA TextKeeps ==
  ASSUME MirrorInv, UNCHANGED <<view, nodes, chosen, dialogs, hand>>,
         flight' \in Flights, flight'.adds = flight.adds, flight'.loads = flight.loads, flight'.sent = flight.sent,
         db' \in [node : [Nodes -> Row], text : [Texts -> Row]], db'.node = db.node,
         past' \in [mixed : BOOLEAN, refused : BOOLEAN], InOrder' => InOrder
  PROVE  MirrorInv'
<1>1. CanvasShape'
  BY DEF MirrorInv, CanvasShape
<1>2. \A n \in Nodes : nodes[n] \in Node
  BY DEF MirrorInv, CanvasShape
<1>3. \A n \in Nodes : nodes[n].temp = (nodes[n].temp /\ nodes[n].on)
  BY <1>2 DEF MirrorInv, Founded, Node
<1>4. Handles({})
  BY <1>3 DEF Handles, Touched
<1> QED
  BY <1>1, <1>4, HandlesKeeps

\* The mouse, the dialogs and the menu.
LEMMA MouseKeeps ==
  ASSUME MirrorInv, CanvasInv,
         \/ \E x \in Nodes \union Texts : StartDrag(x)
         \/ \E n \in Nodes : StartConnect(n) \/ NodeMenu(n)
         \/ \E ns \in SUBSET Nodes : BoxSelect(ns)
         \/ \E n \in Nodes \union {Nothing} : EndConnect(n)
         \/ \E si, di \in Ifaces : FinishLink(si, di)
         \/ CancelLink \/ AskDelete \/ CancelDelete \/ AddNodeToCanvas \/ CloseForm
  PROVE  MirrorInv'
<1>1. /\ dialogs \in [link : Asked, doomed : SUBSET Nodes, form : BOOLEAN, menu : Nodes \union {Nothing}]
      /\ hand \in [held : [id : Nodes \union Texts \union {Nothing}, saved : BOOLEAN], wire : Nodes \union {Nothing}]
      /\ chosen \in [isSet : BOOLEAN, ids : SUBSET (Nodes \union Texts)]
  BY DEF CanvasInv, MirrorInv, CanvasShape
<1>2. Nothing \notin Nodes
  BY CanvasAssumption
<1>3. \A n \in Nodes : n \in chosen.ids \/ n \in dialogs.doomed \/ n = dialogs.menu \/ nodes[n].on => Touched(n)
  BY DEF Touched
<1>4. ASSUME NEW x \in Nodes \union Texts, StartDrag(x) PROVE MirrorInv'
  <2>1. /\ UNCHANGED <<view, nodes, flight, db, past>>
        /\ chosen' = [isSet |-> FALSE, ids |-> {x}] /\ dialogs' = [dialogs EXCEPT !.menu = Nothing]
        /\ hand.held = NoHold /\ ((x \in Nodes /\ nodes[x].on) \/ x \in Texts)
    BY <1>4 DEF StartDrag
  <2>2. dialogs'.doomed = dialogs.doomed /\ dialogs'.menu \notin Nodes
    BY <1>1, <1>2, <2>1
  <2>3. x \in Texts => x \notin Nodes
    BY CanvasAssumption
  <2>4. hand.held.id \notin Nodes
    BY <1>2, <2>1 DEF NoHold
  <2> QED
    BY <1>3, <2>1, <2>2, <2>3, <2>4, GestureKeeps
<1>5. ASSUME NEW n \in Nodes, StartConnect(n) PROVE MirrorInv'
  <2>1. /\ UNCHANGED <<view, nodes, chosen, flight, db, past>>
        /\ hand' = [hand EXCEPT !.wire = n] /\ dialogs' = [dialogs EXCEPT !.menu = Nothing]
    BY <1>5 DEF StartConnect
  <2>2. dialogs'.doomed = dialogs.doomed /\ dialogs'.menu \notin Nodes /\ hand'.held = hand.held
    BY <1>1, <1>2, <2>1
  <2> QED
    BY <1>1, <1>3, <2>1, <2>2, GestureKeeps
<1>6. ASSUME NEW n \in Nodes, NodeMenu(n) PROVE MirrorInv'
  <2>1. /\ UNCHANGED <<view, nodes, hand, flight, db, past>> /\ nodes[n].on
        /\ dialogs' = [dialogs EXCEPT !.menu = n]
        /\ chosen' = chosen \/ chosen' = [chosen EXCEPT !.ids = {n}]
    BY <1>6 DEF NodeMenu
  <2>2. /\ dialogs'.doomed = dialogs.doomed /\ dialogs'.menu = n
        /\ chosen'.ids = chosen.ids \/ chosen'.ids = {n}
        /\ chosen' \in [isSet : BOOLEAN, ids : SUBSET (Nodes \union Texts)]
    BY <1>1, <2>1
  <2> QED
    BY <1>3, <2>1, <2>2, GestureKeeps
<1>7. ASSUME NEW ns \in SUBSET Nodes, BoxSelect(ns) PROVE MirrorInv'
  <2>1. /\ UNCHANGED <<view, nodes, hand, flight, db, past>> /\ \A n \in ns : nodes[n].on
        /\ dialogs' = [dialogs EXCEPT !.menu = Nothing] /\ chosen' = [isSet |-> TRUE, ids |-> ns]
    BY <1>7 DEF BoxSelect
  <2>2. dialogs'.doomed = dialogs.doomed /\ dialogs'.menu \notin Nodes
    BY <1>1, <1>2, <2>1
  <2> QED
    BY <1>3, <2>1, <2>2, GestureKeeps
<1>8. ASSUME NEW n \in Nodes \union {Nothing}, EndConnect(n) PROVE MirrorInv'
  <2>1. /\ UNCHANGED <<view, nodes, chosen, flight, db, past>> /\ hand' = [hand EXCEPT !.wire = Nothing]
        /\ dialogs' = dialogs \/ dialogs' = [dialogs EXCEPT !.link = <<hand.wire, n>>]
    BY <1>8 DEF EndConnect
  <2>2. dialogs'.doomed = dialogs.doomed /\ dialogs'.menu = dialogs.menu /\ hand'.held = hand.held
    BY <1>1, <2>1
  <2> QED
    BY <1>1, <1>3, <2>1, <2>2, GestureKeeps
<1>9. CASE (\E si, di \in Ifaces : FinishLink(si, di)) \/ CancelLink \/ CancelDelete \/ AddNodeToCanvas \/ CloseForm
  <2>1. /\ UNCHANGED <<view, nodes, chosen, hand, flight, db, past>>
        /\ \/ dialogs' = [dialogs EXCEPT !.link = <<>>] \/ dialogs' = [dialogs EXCEPT !.doomed = {}]
           \/ dialogs' = [dialogs EXCEPT !.form = TRUE] \/ dialogs' = [dialogs EXCEPT !.form = FALSE]
    BY <1>9 DEF FinishLink, CancelLink, CancelDelete, AddNodeToCanvas, CloseForm
  <2>2. dialogs'.doomed \subseteq dialogs.doomed /\ dialogs'.menu = dialogs.menu
    BY <1>1, <2>1
  <2> QED
    BY <1>1, <1>3, <2>1, <2>2, GestureKeeps
<1>10. CASE AskDelete
  <2>1. /\ UNCHANGED <<view, nodes, chosen, hand, flight, db, past>> /\ dialogs.menu # Nothing
        /\ \/ dialogs' = [dialogs EXCEPT !.menu = Nothing, !.doomed = chosen.ids \intersect Nodes]
           \/ dialogs' = [dialogs EXCEPT !.menu = Nothing, !.doomed = {dialogs.menu}]
    BY <1>10 DEF AskDelete
  <2>2. dialogs'.menu \notin Nodes /\ (dialogs'.doomed = chosen.ids \intersect Nodes \/ dialogs'.doomed = {dialogs.menu})
    BY <1>1, <1>2, <2>1
  <2> QED
    BY <1>1, <1>3, <2>1, <2>2, GestureKeeps
<1> QED
  BY <1>4, <1>5, <1>6, <1>7, <1>8, <1>9, <1>10

\* The mouse drags a thing on.
LEMMA MoveKeeps == ASSUME MirrorInv, NEW p \in Places, OnMove(p) PROVE MirrorInv'
<1>1. UNCHANGED <<view, hand, dialogs, chosen, flight, db, past>>
  BY DEF OnMove
<1>2. \A n \in Nodes : nodes[n] \in Node
  BY DEF MirrorInv, CanvasShape
<1>3. \A n \in Nodes : nodes[n].temp = (nodes[n].temp /\ nodes[n].on)
  BY <1>2 DEF MirrorInv, Founded, Node
<1>4. CASE nodes' = nodes
  BY <1>1, <1>4, GestureKeeps DEF Touched, MirrorInv, CanvasShape
<1>5. CASE hand.held.id \in Nodes /\ nodes' # nodes
  <2> DEFINE x == hand.held.id
  <2>1. nodes' = [nodes EXCEPT ![x] = IF nodes[x].on THEN [nodes[x] EXCEPT !.at = p] ELSE nodes[x]]
    BY <1>5 DEF OnMove
  <2>2. nodes \in [Nodes -> Node]
    BY DEF MirrorInv, CanvasShape
  <2>3. nodes' \in [Nodes -> Node]
    BY <1>5, <2>1, <2>2 DEF Node
  <2>4. \A n \in Nodes : /\ nodes'[n].on = nodes[n].on /\ nodes'[n].temp = nodes[n].temp
                         /\ n # x => nodes'[n] = nodes[n]
    BY <1>5, <2>1, <2>2 DEF Node
  <2>5. CanvasShape'
    BY <1>1, <2>3 DEF MirrorInv, CanvasShape
  <2>6. Handles({})
    BY <1>1, <1>3, <2>4 DEF Handles, Touched, InOrder
  <2> QED
    BY <2>5, <2>6, HandlesKeeps
<1> QED
  BY <1>4, <1>5 DEF OnMove

\* Texts come and go; a text of this page that is not saved yet has no row to delete.
LEMMA TextStepKeeps ==
  ASSUME MirrorInv,
         \/ \E t \in Texts : AddText(t)
         \/ \E p \in flight.posts : TextStored(p) \/ TextRefused(p)
  PROVE  MirrorInv'
<1>1. flight \in Flights /\ db \in [node : [Nodes -> Row], text : [Texts -> Row]]
      /\ past \in [mixed : BOOLEAN, refused : BOOLEAN] /\ view.lab \in Labs \union {NoLab}
  BY DEF MirrorInv, CanvasShape
<1>2. ASSUME NEW t \in Texts, AddText(t) PROVE MirrorInv'
  <2>1. /\ flight' = [flight EXCEPT !.posts = flight.posts \union {[id |-> t, lab |-> view.lab, mine |-> TRUE]}]
        /\ UNCHANGED <<view, nodes, hand, dialogs, chosen, db, past>>
    BY <1>2 DEF AddText
  <2>2. [id |-> t, lab |-> view.lab, mine |-> TRUE] \in Post
    BY <1>1 DEF Post
  <2>3. /\ flight' \in Flights
        /\ flight'.adds = flight.adds /\ flight'.loads = flight.loads /\ flight'.sent = flight.sent
    BY <1>1, <2>1, <2>2 DEF Flights
  <2> QED
    BY <1>1, <2>1, <2>3, TextKeeps DEF InOrder
<1>3. ASSUME NEW p \in flight.posts, TextStored(p) \/ TextRefused(p) PROVE MirrorInv'
  <2>1. /\ flight' = [flight EXCEPT !.posts = flight.posts \ {p}]
        /\ UNCHANGED <<view, nodes, hand, dialogs, chosen>>
        /\ \/ db' = [db EXCEPT !.text[p.id] = [lab |-> p.lab, at |-> 1]] /\ past' = past
           \/ db' = db /\ past' = [past EXCEPT !.refused = TRUE]
    BY <1>3 DEF TextStored, TextRefused
  <2>2. /\ flight' \in Flights /\ flight.posts \subseteq Post
        /\ flight'.adds = flight.adds /\ flight'.loads = flight.loads /\ flight'.sent = flight.sent
    BY <1>1, <2>1 DEF Flights
  <2>3. p.id \in Texts /\ [lab |-> p.lab, at |-> 1] \in Row
    BY <2>2, CanvasAssumption DEF Post, Row, Places
  <2>4. db' \in [node : [Nodes -> Row], text : [Texts -> Row]] /\ db'.node = db.node
    BY <1>1, <2>1, <2>3
  <2>5. past' \in [mixed : BOOLEAN, refused : BOOLEAN] /\ (InOrder' => InOrder)
    BY <1>1, <2>1 DEF InOrder
  <2> QED
    BY <2>1, <2>2, <2>4, <2>5, TextKeeps
<1> QED
  BY <1>2, <1>3

-----------------------------------------------------------------------------

\* What sending requests does to what is in flight, and to the history.
LEMMA SentIs ==
  ASSUME CanvasShape, NEW rs, rs \subseteq Request, Sent(rs)
  PROVE  /\ flight' \in Flights /\ flight'.adds = flight.adds /\ flight'.loads = flight.loads
         /\ flight'.sent = flight.sent \union rs
         /\ past' \in [mixed : BOOLEAN, refused : BOOLEAN]
         /\ InOrder' => InOrder /\ \A r \in rs, s \in flight.sent : r.id # s.id
<1>1. /\ flight' = [flight EXCEPT !.sent = flight.sent \union rs]
      /\ past' = [past EXCEPT !.mixed = past.mixed \/ \E r \in rs, s \in flight.sent : r.id = s.id]
  BY DEF Sent
<1>2. flight \in Flights /\ past \in [mixed : BOOLEAN, refused : BOOLEAN]
  BY DEF CanvasShape
<1>3. flight' \in Flights /\ flight'.adds = flight.adds /\ flight'.loads = flight.loads
      /\ flight'.sent = flight.sent \union rs
  BY <1>1, <1>2 DEF Flights
<1>4. (past.mixed \/ \E r \in rs, s \in flight.sent : r.id = s.id) \in BOOLEAN
  OBVIOUS
<1> QED
  BY <1>1, <1>2, <1>3, <1>4 DEF InOrder

LEMMA RequestsAre ==
  /\ \A n \in Nodes, p \in Places : Put(n, p) \in Request /\ Put(n, p).id = n /\ Put(n, p).kind = "put"
  /\ \A x \in Nodes \union Texts : Del(x) \in Request /\ Del(x).id = x /\ Del(x).kind = "delete"
  BY CanvasAssumption DEF Put, Del, Request, Places

\* The mouse lets a thing go: a node that is saved is put where it is now.
LEMMA UpKeeps == ASSUME MirrorInv, CanvasInv, OnUp PROVE MirrorInv'
<1> DEFINE x == hand.held.id
           rs == ToSave(x)
<1>1. /\ Sent(rs) /\ hand' = [hand EXCEPT !.held = NoHold]
      /\ UNCHANGED <<view, nodes, dialogs, chosen, db>>
  BY DEF OnUp
<1>2. nodes \in [Nodes -> Node] /\ \A n \in Nodes : nodes[n] \in Node
  BY DEF MirrorInv, CanvasShape
<1>3. rs = IF x \in Nodes /\ nodes[x].on /\ ~nodes[x].temp THEN {Put(x, nodes[x].at)} ELSE {}
  BY DEF ToSave, TextsThen
<1> HIDE DEF rs
<1>4. rs \subseteq Request /\ \A r \in rs : r.id = x /\ r.kind = "put" /\ nodes[x].on
  BY <1>2, <1>3, RequestsAre DEF Node
<1>5. /\ flight' \in Flights /\ flight'.adds = flight.adds /\ flight'.loads = flight.loads
      /\ flight'.sent = flight.sent \union rs
      /\ past' \in [mixed : BOOLEAN, refused : BOOLEAN]
      /\ InOrder' => InOrder /\ \A r \in rs, s \in flight.sent : r.id # s.id
  BY <1>1, <1>4, SentIs DEF MirrorInv
<1>6. CanvasShape'
  BY <1>1, <1>5 DEF MirrorInv, CanvasShape
<1>7. \A n \in Nodes : nodes[n].temp = (nodes[n].temp /\ nodes[n].on)
  BY <1>2 DEF MirrorInv, Founded, Node
<1>8. \A r, s \in rs : r.id = s.id => r = s
  BY <1>3
<1>9. \A n \in Nodes : /\ nodes[n].on /\ ~nodes[n].temp => Put(n, nodes[n].at) \in rs \/ (x # n /\ \A r \in rs : r.id # n)
                       /\ ~\E r \in rs : r.id = n /\ r.kind = "delete"
  BY <1>3, <1>4
<1>10. Handles(rs)
  BY <1>1, <1>4, <1>5, <1>7, <1>8, <1>9 DEF Handles, Touched
<1> QED
  BY <1>6, <1>10, HandlesKeeps

\* The selection is brought into line: its saved nodes are put where they are now.
LEMMA AlignKeeps == ASSUME MirrorInv, CanvasInv, NEW p \in Places, Align(p) PROVE MirrorInv'
<1> DEFINE ns == {n \in Nodes : nodes[n].on /\ n \in chosen.ids}
           rs == {Put(n, p) : n \in {m \in ns : ~nodes[m].temp}}
<1>1. /\ Sent(rs) /\ hand.held = NoHold
      /\ nodes' = [n \in Nodes |-> IF n \in ns THEN [nodes[n] EXCEPT !.at = p] ELSE nodes[n]]
      /\ UNCHANGED <<view, hand, dialogs, chosen, db>>
  BY DEF Align
<1>2. nodes \in [Nodes -> Node] /\ \A n \in Nodes : nodes[n] \in Node
  BY DEF MirrorInv, CanvasShape
<1>3. /\ rs \subseteq Request
      /\ \A r \in rs : r.id \in ns /\ r.kind = "put" /\ r = Put(r.id, p)
      /\ \A n \in ns : ~nodes[n].temp => Put(n, p) \in rs
  BY RequestsAre
<1>4. \A n \in ns : nodes[n].on
  OBVIOUS
<1>5. /\ nodes' \in [Nodes -> Node]
      /\ \A n \in Nodes : /\ nodes'[n].on = nodes[n].on /\ nodes'[n].temp = nodes[n].temp
                          /\ nodes'[n].at = IF n \in ns THEN p ELSE nodes[n].at
  <2> HIDE DEF ns
  <2>1. \A n \in Nodes : nodes'[n] = IF n \in ns THEN [nodes[n] EXCEPT !.at = p] ELSE nodes[n]
    BY <1>1
  <2>2. \A n \in Nodes : nodes'[n] \in Node
    BY <1>2, <2>1 DEF Node
  <2> QED
    BY <1>1, <1>2, <2>1, <2>2 DEF Node
<1> HIDE DEF ns, rs
<1>6. /\ flight' \in Flights /\ flight'.adds = flight.adds /\ flight'.loads = flight.loads
      /\ flight'.sent = flight.sent \union rs
      /\ past' \in [mixed : BOOLEAN, refused : BOOLEAN]
      /\ InOrder' => InOrder /\ \A r \in rs, s \in flight.sent : r.id # s.id
  BY <1>1, <1>3, SentIs DEF MirrorInv
<1>7. CanvasShape'
  BY <1>1, <1>5, <1>6 DEF MirrorInv, CanvasShape
<1>8. \A n \in Nodes : nodes[n].temp = (nodes[n].temp /\ nodes[n].on)
  BY <1>2 DEF MirrorInv, Founded, Node
<1>9. hand.held.id \notin Nodes
  BY <1>1, CanvasAssumption DEF NoHold
<1>10. \A n \in Nodes : ~\E r \in rs : r.id = n /\ r.kind = "delete"
  BY <1>3
<1>11. \A r, s \in rs : r.id = s.id => r = s
  BY <1>3
<1>12. Handles(rs)
  BY <1>1, <1>3, <1>4, <1>5, <1>6, <1>8, <1>9, <1>10, <1>11 DEF Handles, Touched
<1> QED
  BY <1>7, <1>12, HandlesKeeps

\* Nodes are deleted: those the backend has it is asked to delete.
LEMMA DeleteKeeps == ASSUME MirrorInv, CanvasInv, ConfirmDelete PROVE MirrorInv'
<1> DEFINE rs == {Del(n) : n \in {m \in dialogs.doomed : ~nodes[m].temp}}
<1>1. /\ Sent(rs) /\ chosen' = Empty /\ dialogs' = [dialogs EXCEPT !.doomed = {}]
      /\ nodes' = [n \in Nodes |-> IF n \in dialogs.doomed THEN NoNode ELSE nodes[n]]
      /\ UNCHANGED <<view, hand, db>>
  BY DEF ConfirmDelete
<1>2. /\ nodes \in [Nodes -> Node] /\ \A n \in Nodes : nodes[n] \in Node
      /\ dialogs \in [link : Asked, doomed : SUBSET Nodes, form : BOOLEAN, menu : Nodes \union {Nothing}]
  BY DEF MirrorInv, CanvasShape, CanvasInv
<1>3. /\ rs \subseteq Request
      /\ \A r \in rs : r.id \in dialogs.doomed /\ r.kind = "delete" /\ r = Del(r.id)
      /\ \A n \in dialogs.doomed : ~nodes[n].temp => Del(n) \in rs /\ Del(n).id = n /\ Del(n).kind = "delete"
  BY <1>2, RequestsAre
<1> HIDE DEF rs
<1>4. /\ dialogs'.doomed = {} /\ dialogs'.menu = dialogs.menu /\ chosen'.ids = {}
      /\ chosen' \in [isSet : BOOLEAN, ids : SUBSET (Nodes \union Texts)]
  BY <1>1, <1>2 DEF Empty
<1>5. /\ \A n \in Nodes : n \in dialogs.doomed => ~nodes'[n].on /\ ~nodes'[n].temp
      /\ \A n \in Nodes : n \notin dialogs.doomed => nodes'[n] = nodes[n]
  BY <1>1 DEF NoNode
<1>6. nodes' \in [Nodes -> Node]
  BY <1>1, <1>2, CanvasAssumption DEF NoNode, Node, Places
<1>7. /\ flight' \in Flights /\ flight'.adds = flight.adds /\ flight'.loads = flight.loads
      /\ flight'.sent = flight.sent \union rs
      /\ past' \in [mixed : BOOLEAN, refused : BOOLEAN]
      /\ InOrder' => InOrder /\ \A r \in rs, s \in flight.sent : r.id # s.id
  BY <1>1, <1>3, SentIs DEF MirrorInv
<1>8. CanvasShape'
  BY <1>1, <1>4, <1>6, <1>7 DEF MirrorInv, CanvasShape
<1>9. \A n \in Nodes : nodes[n].temp = (nodes[n].temp /\ nodes[n].on)
  BY <1>2 DEF MirrorInv, Founded, Node
<1>10. \A r, s \in rs : r.id = s.id => r = s
  BY <1>3
<1>11. Handles(rs)
  <2>1. \A r \in rs : r.id \in Nodes => Touched(r.id)
    BY <1>3 DEF Touched
  <2>2. ASSUME NEW n \in Nodes
        PROVE  /\ n \in chosen'.ids \/ n \in dialogs'.doomed \/ n = dialogs'.menu => Touched(n)
               /\ nodes'[n].on => nodes[n].on
               /\ nodes'[n].temp = (nodes[n].temp /\ nodes'[n].on)
               /\ nodes[n].on /\ ~nodes[n].temp /\ ~nodes'[n].on => \E r \in rs : r.id = n /\ r.kind = "delete"
               /\ (\E r \in rs : r.id = n /\ r.kind = "delete") => ~nodes'[n].on
               /\ nodes'[n].on => nodes'[n].at = nodes[n].at /\ hand'.held = hand.held /\ \A r \in rs : r.id # n
    <3>1. CASE n \in dialogs.doomed
      BY <1>1, <1>3, <1>4, <1>5, <3>1 DEF NoNode, Touched
    <3>2. CASE n \notin dialogs.doomed
      BY <1>1, <1>3, <1>4, <1>5, <1>9, <3>2 DEF Touched
    <3> QED
      BY <3>1, <3>2
  <2> QED
    BY <1>1, <1>3, <1>7, <1>10, <2>1, <2>2 DEF Handles
<1> QED
  BY <1>8, <1>11, HandlesKeeps

\* A text is deleted, with a request if it has a row.
LEMMA DeleteTextKeeps == ASSUME MirrorInv, NEW t \in Texts, DeleteText(t) PROVE MirrorInv'
<1>1. UNCHANGED <<view, nodes, hand, dialogs, chosen, db>>
  BY DEF DeleteText
<1>2. \A n \in Nodes : nodes[n] \in Node
  BY DEF MirrorInv, CanvasShape
<1>3. \A n \in Nodes : nodes[n].temp = (nodes[n].temp /\ nodes[n].on)
  BY <1>2 DEF MirrorInv, Founded, Node
<1>4. CASE Sent({Del(t)})
  <2>1. {Del(t)} \subseteq Request /\ Del(t).id = t /\ t \notin Nodes
    BY RequestsAre, CanvasAssumption
  <2>2. /\ flight' \in Flights /\ flight'.adds = flight.adds /\ flight'.loads = flight.loads
        /\ flight'.sent = flight.sent \union {Del(t)}
        /\ past' \in [mixed : BOOLEAN, refused : BOOLEAN]
        /\ InOrder' => InOrder /\ \A r \in {Del(t)}, s \in flight.sent : r.id # s.id
    BY <1>4, <2>1, SentIs DEF MirrorInv
  <2>3. CanvasShape'
    BY <1>1, <2>2 DEF MirrorInv, CanvasShape
  <2>4. Handles({Del(t)})
    BY <1>1, <1>3, <2>1, <2>2 DEF Handles, Touched
  <2> QED
    BY <2>3, <2>4, HandlesKeeps
<1>5. CASE UNCHANGED flight /\ past' = [past EXCEPT !.mixed = past.mixed \/ \E p \in flight.posts : p.id = t]
  <2>1. past \in [mixed : BOOLEAN, refused : BOOLEAN] /\ flight \in Flights
    BY DEF MirrorInv, CanvasShape
  <2>2. (past.mixed \/ \E p \in flight.posts : p.id = t) \in BOOLEAN
    OBVIOUS
  <2>3. past' \in [mixed : BOOLEAN, refused : BOOLEAN] /\ (InOrder' => InOrder)
    BY <1>5, <2>1, <2>2 DEF InOrder
  <2>4. db' \in [node : [Nodes -> Row], text : [Texts -> Row]]
    BY <1>1 DEF MirrorInv, CanvasShape
  <2> QED
    BY <1>1, <1>5, <2>1, <2>3, <2>4, TextKeeps
<1> QED
  BY <1>4, <1>5 DEF DeleteText

-----------------------------------------------------------------------------
(* The backend serves requests and loads. *)

\* A request is served, or fails: one that is served does what the page did already.
LEMMA ServedKeeps ==
  ASSUME MirrorInv, NEW q \in flight.sent, RequestServed(q) \/ RequestFails(q) PROVE MirrorInv'
<1>1. /\ flight' = [flight EXCEPT !.sent = flight.sent \ {q}]
      /\ UNCHANGED <<view, nodes, links, texts, hand, dialogs, chosen>>
  BY DEF RequestServed, RequestFails
<1>2. /\ flight \in Flights /\ db \in [node : [Nodes -> Row], text : [Texts -> Row]]
      /\ past \in [mixed : BOOLEAN, refused : BOOLEAN]
      /\ flight.sent \subseteq Request /\ q \in Request
  BY InFlight DEF MirrorInv, CanvasShape
<1>3. /\ flight' \in Flights /\ flight'.adds = flight.adds /\ flight'.loads = flight.loads
      /\ flight'.sent = flight.sent \ {q}
  BY <1>1, <1>2 DEF Flights
<1>4. \A n \in Nodes : Touched(n)' => Touched(n)
  BY <1>1, <1>3 DEF Touched, Requested
<1>5. \A k, n : MadeIn(k, n)' <=> MadeIn(k, n)
  BY <1>3 DEF MadeIn
<1>6. \A k \in DOMAIN flight.adds : \A m \in flight.adds[k].made : m.id \in Nodes
  BY InFlight DEF MirrorInv, CanvasShape
<1>7. CASE RequestFails(q)
  <2>1. db' = db /\ past' = [past EXCEPT !.refused = TRUE]
    BY <1>7 DEF RequestFails
  <2>2. ~InOrder' /\ past' \in [mixed : BOOLEAN, refused : BOOLEAN]
    BY <1>2, <2>1 DEF InOrder
  <2>3. CanvasShape'
    BY <1>1, <1>3, <2>1, <2>2 DEF MirrorInv, CanvasShape
  <2>4. Founded'
    BY <1>1, <1>3, <1>4, <2>1 DEF MirrorInv, Founded
  <2> QED
    BY <2>2, <2>3, <2>4 DEF MirrorInv
<1>8. CASE RequestServed(q)
  <2>1. past' = past /\ InOrder' = InOrder
    BY <1>8 DEF RequestServed, InOrder
  <2>2. /\ db' \in [node : [Nodes -> Row], text : [Texts -> Row]]
        /\ \A n \in Nodes : \/ /\ db'.node[n] = db.node[n]
                               /\ q.id = n => db.node[n].lab \notin Labs
                            \/ /\ q.id = n /\ db.node[n].lab \in Labs /\ q.kind = "put"
                               /\ db'.node[n].at = q.at /\ db'.node[n].lab = db.node[n].lab
                            \/ /\ q.id = n /\ db.node[n].lab \in Labs /\ q.kind = "delete"
                               /\ db'.node[n].lab = Gone /\ db'.node[n].at = db.node[n].at
    <3>1. q.id \in Nodes \union Texts /\ q.at \in Places /\ q.kind \in {"put", "delete"}
      BY <1>2 DEF Request
    <3>2. CASE q.id \in Texts
      <4>1. db' = [db EXCEPT !.text[q.id].lab = Gone] /\ q.id \notin Nodes
        BY <1>8, <3>2, CanvasAssumption DEF RequestServed
      <4> QED
        BY <1>2, <4>1, <3>2 DEF Row
    <3>3. CASE q.id \in Nodes /\ db.node[q.id].lab \notin Labs
      <4>1. db' = db
        BY <1>8, <3>3, CanvasAssumption DEF RequestServed
      <4> QED
        BY <1>2, <3>3, <4>1
    <3>4. CASE q.id \in Nodes /\ db.node[q.id].lab \in Labs /\ q.kind = "put"
      <4>1. db' = [db EXCEPT !.node[q.id].at = q.at]
        BY <1>8, <3>4, CanvasAssumption DEF RequestServed
      <4> QED
        BY <1>2, <3>1, <3>4, <4>1 DEF Row
    <3>5. CASE q.id \in Nodes /\ db.node[q.id].lab \in Labs /\ q.kind = "delete"
      <4>1. db' = [db EXCEPT !.node[q.id].lab = Gone]
        BY <1>8, <3>5, CanvasAssumption DEF RequestServed
      <4> QED
        BY <1>2, <3>1, <3>5, <4>1 DEF Row
    <3> QED
      BY <3>1, <3>2, <3>3, <3>4, <3>5
  <2> DEFINE Now(n) == db'.node[n]
  <2>3. CanvasShape'
    BY <1>1, <1>3, <2>1, <2>2 DEF MirrorInv, CanvasShape
  <2>4. Gone \notin Labs /\ NoLab \notin Labs /\ Gone # NoLab
    BY CanvasAssumption, RoutesAssumption DEF Gone, NoLab
  <2>5. \A n \in Nodes : (db.node[n].lab # NoLab => db'.node[n].lab # NoLab)
                         /\ (db.node[n].lab = Gone => db'.node[n].lab = Gone)
    BY <2>2, <2>4
  <2>6. Founded'
    <3>1. Founded
      BY DEF MirrorInv
    <3>2. \A n \in Nodes : Touched(n)' => db'.node[n].lab # NoLab
      BY <1>4, <2>5, <3>1 DEF Founded
    <3>3. \A n \in Nodes : nodes'[n].temp => nodes'[n].on /\ db'.node[n].lab = Gone
      BY <1>1, <2>5, <3>1 DEF Founded
    <3>4. \A k \in DOMAIN flight'.adds : \A m \in flight'.adds[k].made :
             db'.node[m.id].lab # NoLab /\ (m.temp => db'.node[m.id].lab = Gone)
      BY <1>3, <1>6, <2>5, <3>1 DEF Founded
    <3> QED
      BY <3>2, <3>3, <3>4 DEF Founded
  <2>7. ASSUME InOrder PROVE RunsApart'
    <3>1. RunsApart
      BY <2>7 DEF MirrorInv
    <3>2. \A n \in Nodes : ~Touched(n) => db'.node[n] = db.node[n]
      BY <2>2 DEF Touched, Requested
    <3>3. \A k \in DOMAIN flight.adds : \A m \in flight.adds[k].made :
             ~Touched(m.id)' /\ db'.node[m.id] = db.node[m.id]
      BY <1>4, <1>6, <3>1, <3>2 DEF RunsApart
    <3> QED
      BY <1>1, <1>3, <1>5, <3>1, <3>3 DEF RunsApart
  <2>8. ASSUME InOrder PROVE OneRequest' /\ OneLoad'
    BY <1>1, <1>3, <2>8 DEF MirrorInv, OneRequest, OneLoad, DeleteSent
  <2>9. ASSUME InOrder, view.lab # NoLab, ~Loading, NEW n \in Nodes PROVE Mirrored(n)'
    <3>1. Mirrored(n) /\ OneRequest
      BY <2>9 DEF MirrorInv
    <3>2. view.lab \in Labs
      BY <2>9 DEF MirrorInv, CanvasShape
    <3>3. nodes[n].on => ~(q.id = n /\ q.kind = "delete")
      BY <3>1 DEF OneRequest, DeleteSent
    <3>4. nodes[n].on /\ ~nodes[n].temp => db'.node[n].lab = view.lab
      BY <2>2, <2>4, <3>1, <3>2, <3>3 DEF Mirrored
    <3>5. nodes[n].on /\ ~nodes[n].temp => hand.held.id = n \/ InPlace(n)'
      <4>1. SUFFICES ASSUME nodes[n].on, ~nodes[n].temp, hand.held.id # n PROVE InPlace(n)'
        OBVIOUS
      <4>2. db.node[n].lab \in Labs /\ InPlace(n)
        BY <3>1, <3>2, <4>1 DEF Mirrored
      <4>3. CASE q.id = n
        <5>1. Requested(n) /\ Put(n, nodes[n].at) \in flight.sent /\ Put(n, nodes[n].at).id = n
          BY <4>2, <4>3 DEF InPlace, Requested, Put
        <5>2. q = Put(n, nodes[n].at)
          BY <3>1, <4>3, <5>1 DEF OneRequest
        <5>3. q.kind = "put" /\ q.at = nodes[n].at
          BY <5>2 DEF Put
        <5>4. ~Requested(n)'
          BY <1>3, <3>1, <4>3 DEF Requested, OneRequest
        <5>5. db'.node[n].at = nodes[n].at
          BY <2>2, <4>2, <4>3, <5>3
        <5> QED
          BY <1>1, <5>4, <5>5 DEF InPlace
      <4>4. CASE q.id # n
        <5>1. db'.node[n] = db.node[n] /\ (Requested(n)' <=> Requested(n))
          BY <1>3, <2>2, <4>4 DEF Requested
        <5>2. Put(n, nodes[n].at) \in flight.sent => Put(n, nodes[n].at) \in flight'.sent
          BY <1>3, <4>4 DEF Put
        <5> QED
          BY <1>1, <4>2, <5>1, <5>2 DEF InPlace, ShownAt
      <4> QED
        BY <4>3, <4>4
    <3>6. db'.node[n].lab = view.lab =>
             \/ nodes[n].on /\ ~nodes[n].temp
             \/ DeleteSent(n)'
             \/ \E k \in DOMAIN flight.adds : MadeIn(k, n)
      <4>1. SUFFICES ASSUME db'.node[n].lab = view.lab, ~(nodes[n].on /\ ~nodes[n].temp),
                            ~\E k \in DOMAIN flight.adds : MadeIn(k, n)
                     PROVE  DeleteSent(n)'
        OBVIOUS
      <4>2. db.node[n].lab = view.lab /\ ~(q.id = n /\ q.kind = "delete")
        BY <2>2, <2>4, <3>2, <4>1
      <4>3. DeleteSent(n)
        BY <3>1, <4>1, <4>2 DEF Mirrored
      <4> QED
        BY <1>3, <4>2, <4>3 DEF DeleteSent
    <3> QED
      BY <1>1, <1>3, <1>5, <3>4, <3>5, <3>6 DEF Mirrored
  <2> QED
    BY <1>1, <1>3, <2>1, <2>3, <2>6, <2>7, <2>8, <2>9 DEF MirrorInv, Loading
<1> QED
  BY <1>7, <1>8

\* A sequence without its element k.
LEMMA WithoutIs ==
  ASSUME NEW S, NEW s \in Seq(S), NEW k \in DOMAIN s
  PROVE  /\ Without(s, k) \in Seq(S)
         /\ DOMAIN Without(s, k) = 1..(Len(s) - 1)
         /\ \A j \in 1..(Len(s) - 1) : Without(s, k)[j] = IF j < k THEN s[j] ELSE s[j + 1]
<1> DEFINE front == SubSeq(s, 1, k - 1)
           back == SubSeq(s, k + 1, Len(s))
<1>1. Len(s) \in Nat /\ k \in 1..Len(s)
  OBVIOUS
<1>2. front \in Seq(S) /\ Len(front) = k - 1 /\ \A j \in 1..(k - 1) : front[j] = s[j]
  BY <1>1
<1>3. back \in Seq(S) /\ Len(back) = Len(s) - k /\ \A j \in 1..(Len(s) - k) : back[j] = s[k + j]
  BY <1>1
<1>4. Without(s, k) = front \o back
  BY DEF Without
<1> HIDE DEF front, back
<1>5. /\ front \o back \in Seq(S) /\ Len(front \o back) = Len(s) - 1
      /\ \A j \in 1..(Len(s) - 1) : (front \o back)[j] = IF j <= k - 1 THEN front[j] ELSE back[j - (k - 1)]
  <2>1. /\ front \o back \in Seq(S) /\ Len(front \o back) = Len(front) + Len(back)
        /\ \A j \in 1..(Len(front) + Len(back)) :
              (front \o back)[j] = IF j <= Len(front) THEN front[j] ELSE back[j - Len(front)]
    BY <1>2, <1>3, ConcatProperties
  <2>2. Len(front) = k - 1 /\ Len(front) + Len(back) = Len(s) - 1
    BY <1>1, <1>2, <1>3
  <2>3. \A j \in 1..(Len(s) - 1) : (front \o back)[j] = IF j <= k - 1 THEN front[j] ELSE back[j - (k - 1)]
    BY <2>1, <2>2, Zenon
  <2> QED
    BY <2>1, <2>2, <2>3
<1>6. ASSUME NEW j \in 1..(Len(s) - 1)
      PROVE  (front \o back)[j] = IF j < k THEN s[j] ELSE s[j + 1]
  <2>1. CASE j < k
    BY <1>1, <1>2, <1>5, <2>1
  <2>2. CASE ~(j < k)
    <3>1. j - (k - 1) \in 1..(Len(s) - k) /\ ~(j <= k - 1) /\ k + (j - (k - 1)) = j + 1
      BY <1>1, <2>2
    <3> QED
      BY <1>3, <1>5, <2>2, <3>1
  <2> QED
    BY <2>1, <2>2
<1> QED
  BY <1>4, <1>5, <1>6

\* What a load remembers of the rows the backend had: a row that was there is never unknown
\* again.
Recalled == \A k \in DOMAIN flight.loads :
    /\ \A n \in Nodes : flight.loads[k].node[n].lab # NoLab => db.node[n].lab # NoLab
    /\ \A t \in Texts : flight.loads[k].text[t].lab # NoLab => db.text[t].lab # NoLab

\* The backend serves a part of a load: nothing else changes.
LEMMA LoadServedIs ==
  ASSUME CanvasShape, NEW k \in DOMAIN flight.loads, TopologyServed(k) \/ TextsServed(k)
  PROVE  /\ flight' \in Flights /\ flight'.adds = flight.adds /\ flight'.sent = flight.sent /\ flight'.posts = flight.posts
         /\ Len(flight'.loads) = Len(flight.loads) /\ DOMAIN flight'.loads = DOMAIN flight.loads
         /\ flight'.loads # <<>> /\ flight.loads # <<>>
         /\ \A j \in DOMAIN flight.loads :
               /\ flight'.loads[j].lab = flight.loads[j].lab
               /\ flight'.loads[j].node \in {flight.loads[j].node, db.node}
               /\ flight'.loads[j].text \in {flight.loads[j].text, db.text}
<1>1. flight \in Flights /\ db.node \in [Nodes -> Row] /\ db.text \in [Texts -> Row]
  BY DEF CanvasShape
<1>2. flight.loads \in Seq(Load) /\ flight.loads[k] \in Load
  BY <1>1, InFlight
<1>3. PICK new \in Load :
        /\ new.lab = flight.loads[k].lab /\ new.node \in {flight.loads[k].node, db.node}
        /\ new.text \in {flight.loads[k].text, db.text}
        /\ flight' = [flight EXCEPT !.loads = [flight.loads EXCEPT ![k] = new]]
  <2>1. CASE TopologyServed(k)
    <3> DEFINE new == [flight.loads[k] EXCEPT !.due = flight.loads[k].due \ {"topology"}, !.node = db.node]
    <3>1. new \in Load /\ new.lab = flight.loads[k].lab /\ new.node = db.node /\ new.text = flight.loads[k].text
      BY <1>1, <1>2 DEF Load
    <3>2. flight' = [flight EXCEPT !.loads = [flight.loads EXCEPT ![k] = new]]
      BY <2>1 DEF TopologyServed
    <3> QED
      BY <3>1, <3>2
  <2>2. CASE TextsServed(k)
    <3> DEFINE new == [flight.loads[k] EXCEPT !.due = flight.loads[k].due \ {"texts"}, !.text = db.text]
    <3>1. new \in Load /\ new.lab = flight.loads[k].lab /\ new.node = flight.loads[k].node /\ new.text = db.text
      BY <1>1, <1>2 DEF Load
    <3>2. flight' = [flight EXCEPT !.loads = [flight.loads EXCEPT ![k] = new]]
      BY <2>2 DEF TextsServed
    <3> QED
      BY <3>1, <3>2
  <2> QED
    BY <2>1, <2>2
<1> DEFINE ls == [flight.loads EXCEPT ![k] = new]
<1>4. /\ ls \in Seq(Load) /\ Len(ls) = Len(flight.loads) /\ DOMAIN ls = DOMAIN flight.loads
      /\ ls # <<>> /\ flight.loads # <<>>
  BY <1>2
<1>5. \A j \in DOMAIN flight.loads : ls[j] = IF j = k THEN new ELSE flight.loads[j]
  BY <1>2
<1> HIDE DEF ls
<1>6. flight' = [flight EXCEPT !.loads = ls]
  BY <1>3 DEF ls
<1>7. /\ flight' \in Flights /\ flight'.adds = flight.adds /\ flight'.sent = flight.sent /\ flight'.posts = flight.posts
      /\ flight'.loads = ls
  BY <1>1, <1>4, <1>6 DEF Flights
<1> QED
  BY <1>3, <1>4, <1>5, <1>7

LEMMA LoadServedKeeps ==
  ASSUME MirrorInv, NEW k \in DOMAIN flight.loads, TopologyServed(k) \/ TextsServed(k)
  PROVE  MirrorInv'
<1>1. UNCHANGED <<view, nodes, hand, dialogs, chosen, db, past>>
  BY DEF TopologyServed, TextsServed
<1>2. /\ flight' \in Flights /\ flight'.adds = flight.adds /\ flight'.sent = flight.sent
      /\ Len(flight'.loads) = Len(flight.loads) /\ DOMAIN flight'.loads = DOMAIN flight.loads
      /\ flight'.loads # <<>> /\ flight.loads # <<>>
      /\ \A j \in DOMAIN flight.loads : flight'.loads[j].lab = flight.loads[j].lab
  BY LoadServedIs DEF MirrorInv
<1>3. CanvasShape'
  BY <1>1, <1>2 DEF MirrorInv, CanvasShape
<1>4. \A n : Touched(n)' = Touched(n) /\ DeleteSent(n)' = DeleteSent(n)
  BY <1>1, <1>2 DEF Touched, Requested, DeleteSent
<1>5. Founded'
  BY <1>1, <1>2, <1>4 DEF MirrorInv, Founded
<1>6. RunsApart => RunsApart'
  BY <1>1, <1>2, <1>4 DEF RunsApart, MadeIn
<1>7. (OneRequest => OneRequest') /\ (OneLoad => OneLoad') /\ Loading'
  BY <1>1, <1>2, <1>4 DEF OneRequest, OneLoad, Loading
<1> QED
  BY <1>1, <1>3, <1>5, <1>6, <1>7 DEF MirrorInv, InOrder

\* A load that is answered over a settled canvas shows what the backend has.
LEMMA LoadKeeps ==
  ASSUME MirrorInv, CanvasInv, Recalled, NEW k \in DOMAIN flight.loads, LoadAnswered(k) \/ LoadFails(k)
  PROVE  MirrorInv'
<1> DEFINE load == flight.loads[k]
<1>1. /\ flight' = [flight EXCEPT !.loads = Without(flight.loads, k)]
      /\ view' = [view EXCEPT !.loading = FALSE]
      /\ UNCHANGED <<hand, dialogs, chosen, db>>
  BY DEF LoadAnswered, LoadFails
<1>2. /\ view \in [lab : Labs \union {NoLab}, loading : BOOLEAN] /\ nodes \in [Nodes -> Node]
      /\ flight \in Flights /\ db \in [node : [Nodes -> Row], text : [Texts -> Row]]
      /\ past \in [mixed : BOOLEAN, refused : BOOLEAN]
      /\ chosen \in [isSet : BOOLEAN, ids : SUBSET (Nodes \union Texts)]
  BY DEF MirrorInv, CanvasShape
<1>3. /\ flight' \in Flights /\ flight'.adds = flight.adds /\ flight'.sent = flight.sent
      /\ flight'.loads = Without(flight.loads, k)
  <2>1. flight.loads \in Seq(Load) /\ Without(flight.loads, k) \in Seq(Load)
    BY <1>2, InFlight, WithoutIs
  <2> QED
    BY <1>1, <1>2, <2>1 DEF Flights
<1>0. load \in Load /\ load.lab \in Labs /\ \A n \in Nodes : load.node[n] \in Row
  <2>1. load \in Load
    BY <1>2, InFlight
  <2> QED
    BY <2>1 DEF Load
<1>4. view' \in [lab : Labs \union {NoLab}, loading : BOOLEAN] /\ view'.lab = view.lab
  BY <1>1, <1>2
<1>5. \A j \in DOMAIN flight.adds : \A m \in flight.adds[j].made : m.id \in Nodes
  BY <1>2, InFlight
<1>6. CASE LoadFails(k)
  <2>1. past' = [past EXCEPT !.refused = TRUE] /\ nodes' = nodes
    BY <1>6 DEF LoadFails
  <2>2. past' \in [mixed : BOOLEAN, refused : BOOLEAN] /\ ~InOrder'
    BY <1>2, <2>1 DEF InOrder
  <2>3. CanvasShape'
    BY <1>1, <1>2, <1>3, <1>4, <2>1, <2>2 DEF CanvasShape
  <2>4. Founded'
    BY <1>1, <1>3, <2>1 DEF MirrorInv, Founded, Touched, Requested
  <2> QED
    BY <2>2, <2>3, <2>4 DEF MirrorInv
<1>7. CASE LoadAnswered(k)
  <2> DEFINE old == Outdated(load, load.node, db.node) \/ Outdated(load, load.text, db.text)
  <2>1. /\ past' = [past EXCEPT !.mixed = past.mixed \/ ~Settled \/ old]
        /\ nodes' = [n \in Nodes |-> IF load.node[n].lab = load.lab
                                     THEN [NoNode EXCEPT !.on = TRUE, !.at = ShownAt(load.node[n].at)] ELSE NoNode]
    BY <1>7 DEF LoadAnswered
  <2>2. (past.mixed \/ ~Settled \/ old) \in BOOLEAN
    OBVIOUS
  <2>3. past' \in [mixed : BOOLEAN, refused : BOOLEAN] /\ (InOrder' => InOrder /\ Settled /\ ~old)
    BY <1>2, <2>1, <2>2 DEF InOrder
  <2>4. ASSUME ~old, NEW n \in Nodes, load.lab \in {load.node[n].lab, db.node[n].lab}
        PROVE  load.node[n] = db.node[n]
    BY <1>2, <2>4 DEF Outdated
  <2> HIDE DEF load, old
  <2>5. \A n \in Nodes :
           /\ load.node[n].lab = load.lab => nodes'[n] = [on |-> TRUE, at |-> ShownAt(load.node[n].at), temp |-> FALSE]
           /\ load.node[n].lab # load.lab => nodes'[n] = NoNode
    BY <2>1 DEF NoNode
  <2>6. \A n \in Nodes : ShownAt(load.node[n].at) \in Places
    BY <1>0, CanvasAssumption DEF ShownAt, Places, Row
  <2>7. ASSUME NEW n \in Nodes
        PROVE  /\ nodes'[n] \in Node /\ ~nodes'[n].temp /\ (nodes'[n].on <=> load.node[n].lab = load.lab)
               /\ nodes'[n].on => nodes'[n].at = ShownAt(load.node[n].at)
    <3>1. CASE load.node[n].lab = load.lab
      <4>1. nodes'[n] = [on |-> TRUE, at |-> ShownAt(load.node[n].at), temp |-> FALSE]
        BY <2>5, <3>1
      <4> QED
        BY <2>6, <3>1, <4>1 DEF Node
    <3>2. CASE load.node[n].lab # load.lab
      <4>1. nodes'[n] = NoNode
        BY <2>5, <3>2
      <4> QED
        BY <3>2, <4>1, CanvasAssumption DEF NoNode, Node, Places
    <3> QED
      BY <3>1, <3>2
  <2>8. nodes' \in [Nodes -> Node]
    BY <2>1, <2>7
  <2>9. CanvasShape'
    BY <1>1, <1>2, <1>3, <1>4, <2>3, <2>8 DEF CanvasShape
  <2>10. \A n \in Nodes : ~nodes'[n].temp /\ (nodes'[n].on <=> load.node[n].lab = load.lab)
    BY <2>7
  <2>11. \A n \in Nodes : load.node[n].lab # NoLab => db.node[n].lab # NoLab
    BY DEF load, Recalled
  <2>12. Founded'
    <3>1. \A n \in Nodes : Touched(n)' => Touched(n) \/ load.node[n].lab = load.lab
      BY <1>1, <1>3, <2>10 DEF Touched, Requested
    <3>2. load.lab # NoLab
      BY <1>0, RoutesAssumption DEF load
    <3>3. \A n \in Nodes : Touched(n)' => db.node[n].lab # NoLab
      BY <2>11, <3>1, <3>2 DEF MirrorInv, Founded
    <3> QED
      BY <1>1, <1>3, <2>10, <3>3 DEF MirrorInv, Founded
  <2>13. ASSUME InOrder' PROVE flight'.adds = <<>> /\ flight'.sent = {} /\ load.lab = view.lab /\ flight'.loads = <<>>
    <3>1. flight.adds = <<>> /\ flight.sent = {} /\ OneLoad
      BY <2>3, <2>13 DEF Settled, MirrorInv
    <3>2. flight.loads \in Seq(Load)
      BY <1>2, InFlight
    <3>3. Len(flight.loads) = 1 /\ load.lab = view.lab
      <4> DEFINE l == Len(flight.loads)
      <4>1. l \in Nat /\ k \in 1..l
        BY <3>2
      <4>2. l <= 1
        BY <3>1 DEF OneLoad
      <4> HIDE DEF l
      <4>3. l = 1
        BY <4>1, <4>2
      <4> QED
        BY <3>1, <4>3 DEF OneLoad, load, l
    <3>4. flight'.loads \in Seq(Load) /\ DOMAIN flight'.loads = {}
      BY <1>3, <3>2, <3>3, WithoutIs
    <3> QED
      BY <1>3, <3>1, <3>3, <3>4
  <2>14. InOrder' => RunsApart' /\ OneRequest' /\ OneLoad'
    <3>1. ASSUME InOrder' PROVE RunsApart'
      BY <2>13, <3>1 DEF RunsApart
    <3>2. ASSUME InOrder' PROVE OneRequest' /\ OneLoad'
      BY <2>13, <3>2 DEF OneRequest, OneLoad, DeleteSent
    <3> QED
      BY <3>1, <3>2
  <2>15. ASSUME InOrder', NEW n \in Nodes PROVE Mirrored(n)'
    <3>1. /\ nodes'[n].on <=> db.node[n].lab = load.lab
          /\ nodes'[n].on => nodes'[n].at = ShownAt(db.node[n].at)
      BY <2>3, <2>4, <2>7, <2>15
    <3>2. ~Requested(n)' /\ load.lab = view'.lab
      BY <1>4, <2>13, <2>15 DEF Requested
    <3> QED
      BY <1>1, <2>10, <3>1, <3>2 DEF Mirrored, InPlace, ShownAt
  <2> QED
    BY <2>9, <2>12, <2>14, <2>15 DEF MirrorInv
<1> QED
  BY <1>6, <1>7

\* A page that comes, goes or turns with all settled has one load, or none, under way.
LEMMA PageKeeps ==
  ASSUME MirrorInv, CanvasInv, UnmountCanvas \/ \E lab \in Labs : MountCanvas(lab) \/ TurnCanvas(lab)
  PROVE  MirrorInv'
<1>1. /\ view \in [lab : Labs \union {NoLab}, loading : BOOLEAN] /\ nodes \in [Nodes -> Node]
      /\ flight \in Flights /\ db \in [node : [Nodes -> Row], text : [Texts -> Row]]
      /\ past \in [mixed : BOOLEAN, refused : BOOLEAN]
      /\ chosen \in [isSet : BOOLEAN, ids : SUBSET (Nodes \union Texts)]
  BY DEF MirrorInv, CanvasShape
<1>2. past' = Mixed /\ db' = db
  BY DEF UnmountCanvas, MountCanvas, TurnCanvas
<1>3. past' \in [mixed : BOOLEAN, refused : BOOLEAN] /\ (InOrder' => InOrder /\ Settled /\ ~Loading)
  <2>1. past' = [past EXCEPT !.mixed = past.mixed \/ ~Settled \/ Loading]
    BY <1>2 DEF Mixed
  <2>2. (past.mixed \/ ~Settled \/ Loading) \in BOOLEAN
    OBVIOUS
  <2> QED
    BY <1>1, <2>1, <2>2 DEF InOrder
<1>4. flight.loads \in Seq(Load) /\ flight.adds \in Seq(Run) /\ flight.sent \subseteq Request /\ flight.posts \subseteq Post
  BY <1>1, InFlight
<1>5. ASSUME InOrder' PROVE flight.adds = <<>> /\ flight.sent = {} /\ flight.loads = <<>>
  BY <1>3, <1>4, <1>5 DEF Settled, Loading
<1>6. ASSUME NEW lab \in Labs, MountCanvas(lab) \/ TurnCanvas(lab) PROVE MirrorInv'
  <2>1. /\ view' = [lab |-> lab, loading |-> TRUE] \/ view' = [view EXCEPT !.lab = lab]
        /\ UNCHANGED <<nodes, hand, dialogs, chosen, db>>
        /\ flight' = [flight EXCEPT !.loads = Append(flight.loads, NewLoad(lab))]
    BY <1>6 DEF MountCanvas, TurnCanvas
  <2>2. view' \in [lab : Labs \union {NoLab}, loading : BOOLEAN] /\ view'.lab = lab
    <3>1. CASE view' = [lab |-> lab, loading |-> TRUE]
      BY <3>1
    <3>2. CASE view' = [view EXCEPT !.lab = lab]
      BY <1>1, <3>2
    <3> QED
      BY <2>1, <3>1, <3>2
  <2>3. /\ flight' \in Flights /\ flight'.adds = flight.adds /\ flight'.sent = flight.sent
        /\ flight'.loads = Append(flight.loads, NewLoad(lab))
    <3>1. NewLoad(lab) \in Load
      BY CanvasAssumption DEF NewLoad, Load, NoRow, Row, Places
    <3>2. Append(flight.loads, NewLoad(lab)) \in Seq(Load)
      BY <1>4, <3>1
    <3> QED
      BY <1>1, <2>1, <3>2 DEF Flights
  <2>4. CanvasShape'
    BY <1>1, <1>3, <2>1, <2>2, <2>3 DEF CanvasShape
  <2>5. Founded'
    BY <2>1, <2>3 DEF MirrorInv, Founded, Touched, Requested
  <2>6. ASSUME InOrder' PROVE flight'.adds = <<>> /\ flight'.sent = {} /\ OneLoad' /\ flight'.loads # <<>>
    <3> DEFINE new == NewLoad(lab)
    <3>1. new.lab = lab
      BY DEF NewLoad
    <3> HIDE DEF new
    <3>2. flight'.loads = <<new>>
      <4>1. flight'.loads = Append(<<>>, new)
        BY <1>5, <2>3, <2>6 DEF new
      <4> QED
        BY <4>1
    <3> QED
      BY <1>5, <2>2, <2>3, <2>6, <3>1, <3>2 DEF OneLoad
  <2>7. InOrder' => RunsApart' /\ OneRequest'
    BY <2>6 DEF RunsApart, OneRequest, DeleteSent
  <2>8. InOrder' => Loading'
    BY <2>6 DEF Loading
  <2> QED
    BY <2>4, <2>5, <2>6, <2>7, <2>8 DEF MirrorInv
<1>7. CASE UnmountCanvas
  <2>1. /\ view' = [lab |-> NoLab, loading |-> FALSE]
        /\ nodes' = [n \in Nodes |-> NoNode] /\ dialogs' = Closed /\ chosen' = Empty /\ hand' = EmptyHand
        /\ flight' = [flight EXCEPT !.loads = <<>>,
                                    !.adds = [k \in DOMAIN flight.adds |-> [flight.adds[k] EXCEPT !.mine = FALSE]],
                                    !.posts = {[p EXCEPT !.mine = FALSE] : p \in flight.posts}]
    BY <1>7 DEF UnmountCanvas
  <2>2. /\ \A k \in DOMAIN flight.adds : flight.adds[k] \in Run
        /\ \A p \in flight.posts : [p EXCEPT !.mine = FALSE] \in Post
    <3>1. \A p \in Post : [p EXCEPT !.mine = FALSE] \in Post
      BY DEF Post
    <3> QED
      BY <1>1, <1>4, <3>1, InFlight
  <2>3. \A k \in DOMAIN flight.adds : /\ [flight.adds[k] EXCEPT !.mine = FALSE] \in Run
                                      /\ [flight.adds[k] EXCEPT !.mine = FALSE].made = flight.adds[k].made
    BY <2>2 DEF Run
  <2>4. [k \in DOMAIN flight.adds |-> [flight.adds[k] EXCEPT !.mine = FALSE]] \in Seq(Run)
    <3>1. DOMAIN flight.adds = 1..Len(flight.adds) /\ Len(flight.adds) \in Nat
      BY <1>4
    <3>2. [k \in DOMAIN flight.adds |-> [flight.adds[k] EXCEPT !.mine = FALSE]] \in [1..Len(flight.adds) -> Run]
      BY <2>3, <3>1
    <3> QED
      BY <3>1, <3>2, SeqDef
  <2>5. <<>> \in Seq(Load) /\ {[p EXCEPT !.mine = FALSE] : p \in flight.posts} \subseteq Post
    BY <2>2
  <2>6. /\ flight' \in Flights /\ flight'.sent = flight.sent /\ flight'.loads = <<>>
        /\ flight'.adds = [k \in DOMAIN flight.adds |-> [flight.adds[k] EXCEPT !.mine = FALSE]]
    BY <1>1, <2>1, <2>4, <2>5 DEF Flights
  <2>7. /\ \A n \in Nodes : nodes'[n] = NoNode /\ NoNode \in Node
        /\ chosen' \in [isSet : BOOLEAN, ids : SUBSET (Nodes \union Texts)] /\ chosen'.ids = {}
        /\ dialogs'.doomed = {} /\ dialogs'.menu \notin Nodes
    BY <2>1, CanvasAssumption DEF NoNode, Node, Places, Empty, Closed
  <2>8. CanvasShape'
    <3>1. nodes' \in [Nodes -> Node] /\ view' \in [lab : Labs \union {NoLab}, loading : BOOLEAN]
      BY <2>1, <2>7
    <3> QED
      BY <1>1, <1>2, <1>3, <2>6, <2>7, <3>1 DEF CanvasShape
  <2>9. Founded'
    <3>1. \A n \in Nodes : Touched(n)' => Touched(n)
      BY <2>6, <2>7 DEF Touched, Requested, NoNode
    <3>2. \A n \in Nodes : ~nodes'[n].temp
      BY <2>7 DEF NoNode
    <3>3. /\ DOMAIN flight'.adds = DOMAIN flight.adds
          /\ \A k \in DOMAIN flight.adds : flight'.adds[k].made = flight.adds[k].made
      BY <2>3, <2>6
    <3> QED
      BY <1>2, <3>1, <3>2, <3>3 DEF MirrorInv, Founded
  <2>10. ASSUME InOrder' PROVE RunsApart' /\ OneRequest' /\ OneLoad'
    <3>1. DOMAIN flight'.adds = {} /\ flight'.sent = {}
      BY <1>5, <2>6, <2>10
    <3>2. flight'.loads = <<>>
      BY <2>6
    <3> QED
      BY <3>1, <3>2 DEF RunsApart, OneRequest, OneLoad, DeleteSent
  <2>11. view'.lab = NoLab
    BY <2>1
  <2> QED
    BY <2>8, <2>9, <2>10, <2>11 DEF MirrorInv
<1> QED
  BY <1>6, <1>7

-----------------------------------------------------------------------------
(* New nodes *)

\* A run that starts has made nothing.
LEMMA ConfirmKeeps == ASSUME MirrorInv, FormOpen, NEW qty \in 1..2, ConfirmAddNodes(qty) PROVE MirrorInv'
<1> DEFINE run == [lab |-> view.lab, left |-> qty, made |-> {}, mine |-> TRUE]
<1>1. flight' = [flight EXCEPT !.adds = Append(flight.adds, run)]
      /\ UNCHANGED <<view, nodes, hand, dialogs, chosen, db, past>>
  BY DEF ConfirmAddNodes
<1>0. view.lab \in Labs
  BY DEF ConfirmAddNodes, FormOpen
<1>2. /\ view \in [lab : Labs \union {NoLab}, loading : BOOLEAN] /\ flight \in Flights
  BY DEF MirrorInv, CanvasShape
<1>3. flight.adds \in Seq(Run) /\ run \in Run /\ run.made = {} /\ run.mine /\ run.lab = view.lab
  BY <1>0, <1>2, InFlight DEF Run
<1> HIDE DEF run
<1>4. /\ flight' \in Flights /\ flight'.loads = flight.loads /\ flight'.sent = flight.sent
      /\ flight'.adds = Append(flight.adds, run)
  <2>1. Append(flight.adds, run) \in Seq(Run)
    BY <1>3
  <2> QED
    BY <1>1, <1>2, <2>1 DEF Flights
<1>5. /\ DOMAIN flight'.adds = DOMAIN flight.adds \union {Len(flight.adds) + 1}
      /\ \A k \in DOMAIN flight.adds : flight'.adds[k] = flight.adds[k]
      /\ flight'.adds[Len(flight.adds) + 1] = run
      /\ Len(flight.adds) + 1 \notin DOMAIN flight.adds
  BY <1>3, <1>4
<1>6. CanvasShape'
  BY <1>1, <1>4 DEF MirrorInv, CanvasShape
<1>7. \A n \in Nodes : Touched(n)' = Touched(n) /\ DeleteSent(n)' = DeleteSent(n) /\ Requested(n)' = Requested(n)
  BY <1>1, <1>4 DEF Touched, Requested, DeleteSent
<1>8. Founded'
  BY <1>1, <1>3, <1>5, <1>7 DEF MirrorInv, Founded
<1>9. \A k \in DOMAIN flight.adds, n \in Nodes : MadeIn(k, n)' <=> MadeIn(k, n)
  BY <1>5 DEF MadeIn
<1>10. ASSUME NEW k, k = Len(flight.adds) + 1, NEW n PROVE ~MadeIn(k, n)'
  BY <1>3, <1>5, <1>10 DEF MadeIn
<1>11. \A k \in DOMAIN flight.adds : \A m \in flight.adds[k].made : m.id \in Nodes
  BY <1>2, InFlight
<1>12. InOrder => RunsApart'
  <2>1. SUFFICES ASSUME RunsApart PROVE RunsApart'
    BY DEF MirrorInv
  <2>2. ASSUME NEW k \in DOMAIN flight'.adds
        PROVE  /\ flight'.adds[k].mine /\ flight'.adds[k].lab = view'.lab
               /\ \A m \in flight'.adds[k].made :
                    ~Touched(m.id)' /\ db'.node[m.id].at = 1 /\ (~m.temp => db'.node[m.id].lab = view'.lab)
    <3>1. CASE k \in DOMAIN flight.adds
      BY <1>1, <1>5, <1>7, <1>11, <2>1, <3>1 DEF RunsApart
    <3>2. CASE k = Len(flight.adds) + 1
      BY <1>1, <1>3, <1>5, <3>2
    <3> QED
      BY <1>5, <3>1, <3>2
  <2>3. ASSUME NEW k \in DOMAIN flight'.adds, NEW j \in DOMAIN flight'.adds \ {k}, NEW n \in Nodes
        PROVE  ~(MadeIn(k, n)' /\ MadeIn(j, n)')
    BY <1>5, <1>9, <1>10, <2>1 DEF RunsApart
  <2> QED
    BY <2>2, <2>3 DEF RunsApart
<1>13. InOrder => OneRequest' /\ OneLoad'
  BY <1>1, <1>4, <1>7 DEF MirrorInv, OneRequest, OneLoad
<1>14. ASSUME NEW n \in Nodes, Mirrored(n) PROVE Mirrored(n)'
  <2>1. (\E k \in DOMAIN flight.adds : MadeIn(k, n)) => \E k \in DOMAIN flight'.adds : MadeIn(k, n)'
    BY <1>5, <1>9
  <2>2. InPlace(n) => InPlace(n)'
    BY <1>1, <1>4, <1>7 DEF InPlace, ShownAt
  <2> QED
    BY <1>1, <1>7, <1>14, <2>1, <2>2 DEF Mirrored
<1> QED
  BY <1>1, <1>4, <1>6, <1>8, <1>12, <1>13, <1>14 DEF MirrorInv, InOrder, Loading

\* A node is made, or refused: it is nobody's yet.  After the last one of a run they appear.
LEMMA AddedKeeps ==
  ASSUME MirrorInv, CanvasInv, NEW k \in DOMAIN flight.adds, NEW n \in Nodes, NEW ok \in BOOLEAN, NodeAdded(k, n, ok)
  PROVE  MirrorInv'
<1> DEFINE new == [id |-> n, temp |-> ~ok]
           made == flight.adds[k].made \union {new}
           run == [flight.adds[k] EXCEPT !.left = flight.adds[k].left - 1, !.made = made]
<1>1. /\ flight \in Flights /\ db \in [node : [Nodes -> Row], text : [Texts -> Row]]
      /\ nodes \in [Nodes -> Node]
      /\ dialogs \in [link : Asked, doomed : SUBSET Nodes, form : BOOLEAN, menu : Nodes \union {Nothing}]
  BY DEF MirrorInv, CanvasShape, CanvasInv
<1>2. flight.adds \in Seq(Run) /\ flight.adds[k] \in Run
  BY <1>1, InFlight
<1>3. new \in [id : Nodes, temp : BOOLEAN] /\ new.id = n /\ new.temp = ~ok
  OBVIOUS
<1> HIDE DEF new
<1>4. made \in SUBSET [id : Nodes, temp : BOOLEAN]
  BY <1>2, <1>3 DEF Run
<1> HIDE DEF made
<1>5. /\ run \in Run /\ run.made = made /\ run.lab = flight.adds[k].lab /\ run.mine = flight.adds[k].mine
      /\ run.lab \in Labs
  <2>1. flight.adds[k].left - 1 \in Int
    BY <1>2 DEF Run
  <2> QED
    BY <1>2, <1>4, <2>1 DEF Run
<1>6. /\ db.node[n].lab = NoLab
      /\ db' = [db EXCEPT !.node[n] = [lab |-> IF ok THEN run.lab ELSE Gone, at |-> 1]]
      /\ UNCHANGED <<view, hand, chosen, past>>
      /\ \/ flight' = [flight EXCEPT !.adds[k] = run] /\ UNCHANGED <<nodes, dialogs>>
         \/ /\ flight' = [flight EXCEPT !.adds = Without(flight.adds, k)]
            /\ \/ /\ run.mine
                  /\ nodes' = [m \in Nodes |->
                        IF [id |-> m, temp |-> TRUE] \in run.made THEN [on |-> TRUE, at |-> 1, temp |-> TRUE]
                        ELSE IF [id |-> m, temp |-> FALSE] \in run.made
                             THEN [on |-> TRUE, at |-> 1, temp |-> FALSE] ELSE nodes[m]]
                  /\ dialogs' = [dialogs EXCEPT !.form = FALSE]
               \/ ~run.mine /\ UNCHANGED <<nodes, dialogs>>
  BY DEF NodeAdded, Unused, made, new
<1>7. Gone # NoLab /\ NoLab \notin Labs /\ Gone \notin Labs
  BY RoutesAssumption, CanvasAssumption DEF Gone, NoLab
<1>8. (IF ok THEN run.lab ELSE Gone) \in Labs \union {NoLab, Gone} /\ 1 \in Places
  BY <1>5, CanvasAssumption DEF Places
<1> HIDE DEF run
<1>9. /\ db' \in [node : [Nodes -> Row], text : [Texts -> Row]]
      /\ db'.node[n].at = 1 /\ db'.node[n].lab = IF ok THEN run.lab ELSE Gone
      /\ \A m \in Nodes \ {n} : db'.node[m] = db.node[m]
  BY <1>1, <1>6, <1>8 DEF Row
<1>10. ~Touched(n) /\ \A j \in DOMAIN flight.adds : ~MadeIn(j, n)
  BY <1>6 DEF MirrorInv, Founded, MadeIn
<1>11. \A j \in DOMAIN flight.adds : \A m \in flight.adds[j].made : m.id \in Nodes /\ m.temp \in BOOLEAN /\ m.id # n
  BY <1>1, <1>10, InFlight DEF MadeIn
\* What the run has made, known to the backend or refused.
<1>12. \A m \in made : /\ m.id \in Nodes /\ m.temp \in BOOLEAN
                       /\ db'.node[m.id].lab # NoLab /\ (m.temp => db'.node[m.id].lab = Gone)
  <2>1. \A m \in flight.adds[k].made : db.node[m.id].lab # NoLab /\ (m.temp => db.node[m.id].lab = Gone)
    BY DEF MirrorInv, Founded
  <2> QED
    BY <1>3, <1>5, <1>7, <1>9, <1>11, <2>1 DEF made
<1>13. \A x \in Nodes : db.node[x].lab # NoLab => x # n
  BY <1>6
<1>14. InOrder =>
         /\ run.mine /\ run.lab = view.lab
         /\ \A m \in made : ~Touched(m.id) /\ db'.node[m.id].at = 1 /\ (~m.temp => db'.node[m.id].lab = view.lab)
         /\ \A j \in DOMAIN flight.adds \ {k} : \A m \in made : ~MadeIn(j, m.id)
  <2>1. SUFFICES ASSUME InOrder PROVE
         /\ run.mine /\ run.lab = view.lab
         /\ \A m \in made : ~Touched(m.id) /\ db'.node[m.id].at = 1 /\ (~m.temp => db'.node[m.id].lab = view.lab)
         /\ \A j \in DOMAIN flight.adds \ {k} : \A m \in made : ~MadeIn(j, m.id)
    OBVIOUS
  <2>2. RunsApart
    BY <2>1 DEF MirrorInv
  <2>3. run.mine /\ run.lab = view.lab
    BY <1>5, <2>2 DEF RunsApart
  <2>4. \A m \in flight.adds[k].made : ~Touched(m.id) /\ db.node[m.id].at = 1 /\ (~m.temp => db.node[m.id].lab = view.lab)
    BY <2>2 DEF RunsApart
  <2>5. \A m \in flight.adds[k].made : MadeIn(k, m.id)
    BY DEF MadeIn
  <2>6. \A j \in DOMAIN flight.adds \ {k} : \A m \in flight.adds[k].made : ~MadeIn(j, m.id)
    BY <1>11, <2>2, <2>5 DEF RunsApart
  <2> QED
    BY <1>3, <1>9, <1>10, <1>11, <2>3, <2>4, <2>6 DEF made
<1>15. CASE flight' = [flight EXCEPT !.adds[k] = run] /\ UNCHANGED <<nodes, dialogs>>
  <2>1. [flight.adds EXCEPT ![k] = run] \in Seq(Run) /\ DOMAIN [flight.adds EXCEPT ![k] = run] = DOMAIN flight.adds
    BY <1>2, <1>5
  <2>2. /\ flight' \in Flights /\ flight'.loads = flight.loads /\ flight'.sent = flight.sent
        /\ flight'.adds = [flight.adds EXCEPT ![k] = run]
    BY <1>1, <1>15, <2>1 DEF Flights
  <2>3. /\ DOMAIN flight'.adds = DOMAIN flight.adds /\ flight'.adds[k] = run
        /\ \A j \in DOMAIN flight.adds \ {k} : flight'.adds[j] = flight.adds[j]
    BY <1>2, <2>1, <2>2
  <2>4. CanvasShape'
    BY <1>6, <1>9, <1>15, <2>2 DEF MirrorInv, CanvasShape
  <2>5. \A x : Touched(x)' = Touched(x) /\ DeleteSent(x)' = DeleteSent(x) /\ Requested(x)' = Requested(x)
    BY <1>6, <1>15, <2>2 DEF Touched, Requested, DeleteSent
  <2>6. /\ \A j \in DOMAIN flight.adds \ {k} : \A x : MadeIn(j, x)' <=> MadeIn(j, x)
        /\ \A x : MadeIn(k, x)' <=> MadeIn(k, x) \/ x = n
    BY <1>3, <1>5, <2>3 DEF MadeIn, made
  <2>7. Founded'
    <3>1. \A x \in Nodes : /\ Touched(x)' => db'.node[x].lab # NoLab
                           /\ nodes'[x].temp => nodes'[x].on /\ db'.node[x].lab = Gone
      BY <1>7, <1>9, <1>10, <1>13, <1>15, <2>5 DEF MirrorInv, Founded, Touched
    <3>2. ASSUME NEW j \in DOMAIN flight'.adds, NEW m \in flight'.adds[j].made
          PROVE  db'.node[m.id].lab # NoLab /\ (m.temp => db'.node[m.id].lab = Gone)
      BY <1>5, <1>9, <1>11, <1>12, <2>3 DEF MirrorInv, Founded
    <3> QED
      BY <3>1, <3>2 DEF Founded
  <2>8. ASSUME InOrder PROVE RunsApart'
    <3>1. RunsApart
      BY <2>8 DEF MirrorInv
    <3>2. ASSUME NEW j \in DOMAIN flight'.adds
          PROVE  /\ flight'.adds[j].mine /\ flight'.adds[j].lab = view'.lab
                 /\ \A m \in flight'.adds[j].made :
                      ~Touched(m.id)' /\ db'.node[m.id].at = 1 /\ (~m.temp => db'.node[m.id].lab = view'.lab)
      <4>1. CASE j = k
        BY <1>5, <1>6, <1>14, <2>3, <2>5, <2>8, <4>1
      <4>2. CASE j # k
        BY <1>6, <1>9, <1>11, <2>3, <2>5, <3>1, <4>2 DEF RunsApart
      <4> QED
        BY <4>1, <4>2
    <3>3. ASSUME NEW i \in DOMAIN flight'.adds, NEW j \in DOMAIN flight'.adds \ {i}, NEW x \in Nodes
          PROVE  ~(MadeIn(i, x)' /\ MadeIn(j, x)')
      BY <1>10, <2>3, <2>6, <3>1 DEF RunsApart
    <3> QED
      BY <3>2, <3>3 DEF RunsApart
  <2>9. InOrder => OneRequest' /\ OneLoad'
    BY <1>6, <1>15, <2>2, <2>5 DEF MirrorInv, OneRequest, OneLoad
  <2>10. ASSUME NEW x \in Nodes, Mirrored(x) PROVE Mirrored(x)'
    <3>1. CASE x = n
      BY <1>10, <1>15, <2>3, <2>6, <3>1 DEF Mirrored, Touched
    <3>2. CASE x # n
      <4>1. InPlace(x) => InPlace(x)'
        BY <1>9, <1>15, <2>2, <2>5, <3>2 DEF InPlace, ShownAt
      <4> QED
        BY <1>6, <1>9, <1>15, <2>3, <2>5, <2>6, <2>10, <3>2, <4>1 DEF Mirrored
    <3> QED
      BY <3>1, <3>2
  <2> QED
    BY <1>6, <2>2, <2>4, <2>7, <2>8, <2>9, <2>10 DEF MirrorInv, InOrder, Loading
<1>16. CASE /\ flight' = [flight EXCEPT !.adds = Without(flight.adds, k)]
            /\ \/ /\ run.mine
                  /\ nodes' = [m \in Nodes |->
                        IF [id |-> m, temp |-> TRUE] \in run.made THEN [on |-> TRUE, at |-> 1, temp |-> TRUE]
                        ELSE IF [id |-> m, temp |-> FALSE] \in run.made
                             THEN [on |-> TRUE, at |-> 1, temp |-> FALSE] ELSE nodes[m]]
                  /\ dialogs' = [dialogs EXCEPT !.form = FALSE]
               \/ ~run.mine /\ UNCHANGED <<nodes, dialogs>>
  <2> DEFINE len == Len(flight.adds)
             From(j) == IF j < k THEN j ELSE j + 1
  <2>1. /\ Without(flight.adds, k) \in Seq(Run) /\ DOMAIN Without(flight.adds, k) = 1..(len - 1)
        /\ \A j \in 1..(len - 1) : Without(flight.adds, k)[j] = flight.adds[From(j)]
        /\ k \in 1..len /\ DOMAIN flight.adds = 1..len /\ len \in Nat
    BY <1>2, WithoutIs
  <2>2. /\ flight' \in Flights /\ flight'.loads = flight.loads /\ flight'.sent = flight.sent
        /\ flight'.adds = Without(flight.adds, k)
    BY <1>1, <1>16, <2>1 DEF Flights
  <2>3. /\ \A j \in DOMAIN flight'.adds : From(j) \in DOMAIN flight.adds \ {k} /\ flight'.adds[j] = flight.adds[From(j)]
        /\ \A i, j \in DOMAIN flight'.adds : From(i) = From(j) => i = j
        /\ \A j \in DOMAIN flight.adds \ {k} : \E i \in DOMAIN flight'.adds : From(i) = j
    <3>1. ASSUME NEW j \in 1..len, j # k PROVE \E i \in 1..(len - 1) : From(i) = j
      <4>1. CASE j < k
        BY <2>1, <3>1, <4>1
      <4>2. CASE j > k
        <5>1. j - 1 \in 1..(len - 1) /\ From(j - 1) = j
          BY <2>1, <3>1, <4>2
        <5> QED
          BY <5>1
      <4> QED
        BY <2>1, <3>1, <4>1, <4>2
    <3>2. DOMAIN flight'.adds = 1..(len - 1)
      BY <2>1, <2>2
    <3>3. ASSUME NEW j \in 1..(len - 1) PROVE From(j) \in (1..len) \ {k} /\ flight'.adds[j] = flight.adds[From(j)]
      BY <2>1, <2>2, <3>3
    <3>4. ASSUME NEW i \in 1..(len - 1), NEW j \in 1..(len - 1), From(i) = From(j) PROVE i = j
      BY <2>1, <3>4
    <3> QED
      BY <2>1, <3>1, <3>2, <3>3, <3>4
  <2> HIDE DEF From, len
  <2>4. ASSUME NEW x \in Nodes
        PROVE  \/ nodes'[x] = nodes[x]
               \/ /\ run.mine /\ nodes'[x] = [on |-> TRUE, at |-> 1, temp |-> TRUE]
                  /\ \E m \in made : m.id = x /\ m.temp
               \/ /\ run.mine /\ nodes'[x] = [on |-> TRUE, at |-> 1, temp |-> FALSE]
                  /\ \E m \in made : m.id = x /\ ~m.temp
    BY <1>5, <1>16
  <2>5. ASSUME run.mine, NEW m \in made PROVE nodes'[m.id].on
    <3>1. m = [id |-> m.id, temp |-> TRUE] \/ m = [id |-> m.id, temp |-> FALSE]
      BY <1>4
    <3>2. nodes'[m.id] = [on |-> TRUE, at |-> 1, temp |-> TRUE] \/ nodes'[m.id] = [on |-> TRUE, at |-> 1, temp |-> FALSE]
      BY <1>5, <1>12, <1>16, <2>5, <3>1
    <3> QED
      BY <3>2
  <2>6. nodes' \in [Nodes -> Node] /\ dialogs'.doomed = dialogs.doomed /\ dialogs'.menu = dialogs.menu
    <3>1. ASSUME NEW x \in Nodes PROVE nodes'[x] \in Node
      <4>1. \A temp \in BOOLEAN : [on |-> TRUE, at |-> 1, temp |-> temp] \in Node
        BY <1>8 DEF Node
      <4>2. nodes[x] \in Node
        BY <1>1
      <4> QED
        BY <2>4, <4>1, <4>2
    <3>2. nodes' = nodes \/ nodes' = [x \in Nodes |-> nodes'[x]]
      BY <1>16
    <3> QED
      BY <1>1, <1>16, <3>1, <3>2
  <2>7. CanvasShape'
    BY <1>6, <1>9, <2>2, <2>6 DEF MirrorInv, CanvasShape
  <2>8. /\ \A x : DeleteSent(x)' = DeleteSent(x) /\ Requested(x)' = Requested(x)
        /\ \A x \in Nodes : Touched(x)' => Touched(x) \/ (run.mine /\ \E m \in made : m.id = x)
    BY <1>6, <2>2, <2>4, <2>6 DEF Touched, Requested, DeleteSent
  <2>9. \A j \in DOMAIN flight'.adds : \A x : MadeIn(j, x)' <=> MadeIn(From(j), x)
    BY <2>3 DEF MadeIn
  <2>10. Founded'
    <3>1. ASSUME NEW x \in Nodes PROVE Touched(x)' => db'.node[x].lab # NoLab
      <4>1. Touched(x) => db.node[x].lab # NoLab
        BY DEF MirrorInv, Founded
      <4> QED
        BY <1>9, <1>12, <1>13, <2>8, <4>1
    <3>2. ASSUME NEW x \in Nodes, nodes'[x].temp PROVE nodes'[x].on /\ db'.node[x].lab = Gone
      <4>1. CASE nodes'[x] = nodes[x]
        <5>1. nodes[x].on /\ db.node[x].lab = Gone
          BY <3>2, <4>1 DEF MirrorInv, Founded
        <5> QED
          BY <1>7, <1>9, <1>13, <4>1, <5>1
      <4>2. CASE nodes'[x] = [on |-> TRUE, at |-> 1, temp |-> TRUE] /\ \E m \in made : m.id = x /\ m.temp
        BY <1>12, <4>2
      <4>3. CASE nodes'[x] = [on |-> TRUE, at |-> 1, temp |-> FALSE]
        BY <3>2, <4>3
      <4> QED
        BY <2>4, <4>1, <4>2, <4>3
    <3>3. ASSUME NEW j \in DOMAIN flight'.adds, NEW m \in flight'.adds[j].made
          PROVE  db'.node[m.id].lab # NoLab /\ (m.temp => db'.node[m.id].lab = Gone)
      BY <1>9, <1>11, <2>3 DEF MirrorInv, Founded
    <3> QED
      BY <3>1, <3>2, <3>3 DEF Founded
  <2>11. ASSUME InOrder PROVE RunsApart'
    <3>1. RunsApart
      BY <2>11 DEF MirrorInv
    <3>2. ASSUME NEW j \in DOMAIN flight'.adds, NEW m \in flight'.adds[j].made PROVE ~Touched(m.id)'
      <4>1. From(j) \in DOMAIN flight.adds \ {k} /\ m \in flight.adds[From(j)].made
        BY <2>3, <3>2
      <4>2. ~Touched(m.id) /\ MadeIn(From(j), m.id) /\ m.id \in Nodes
        BY <1>11, <3>1, <4>1 DEF RunsApart, MadeIn
      <4>3. ~\E q \in made : q.id = m.id
        BY <1>14, <2>11, <4>1, <4>2
      <4> QED
        BY <2>8, <4>2, <4>3
    <3>3. ASSUME NEW j \in DOMAIN flight'.adds
          PROVE  /\ flight'.adds[j].mine /\ flight'.adds[j].lab = view'.lab
                 /\ \A m \in flight'.adds[j].made :
                      ~Touched(m.id)' /\ db'.node[m.id].at = 1 /\ (~m.temp => db'.node[m.id].lab = view'.lab)
      BY <1>6, <1>9, <1>11, <2>3, <3>1, <3>2 DEF RunsApart
    <3>4. ASSUME NEW i \in DOMAIN flight'.adds, NEW j \in DOMAIN flight'.adds \ {i}, NEW x \in Nodes
          PROVE  ~(MadeIn(i, x)' /\ MadeIn(j, x)')
      <4>1. From(i) \in DOMAIN flight.adds /\ From(j) \in DOMAIN flight.adds \ {From(i)}
        BY <2>3
      <4> QED
        BY <2>9, <3>1, <4>1 DEF RunsApart
    <3> QED
      BY <3>3, <3>4 DEF RunsApart
  <2>12. ASSUME InOrder PROVE OneRequest' /\ OneLoad'
    <3>1. OneRequest /\ OneLoad
      BY <2>12 DEF MirrorInv
    <3>2. ASSUME NEW x \in Nodes, DeleteSent(x)' PROVE ~nodes'[x].on
      <4>1. DeleteSent(x) /\ ~nodes[x].on /\ Touched(x)
        BY <2>8, <3>1, <3>2 DEF OneRequest, DeleteSent, Touched, Requested
      <4>2. ~\E m \in made : m.id = x
        BY <1>14, <2>12, <4>1
      <4> QED
        BY <2>4, <4>1, <4>2
    <3> QED
      BY <1>6, <2>2, <3>1, <3>2 DEF OneRequest, OneLoad
  <2>13. ASSUME InOrder, view.lab # NoLab, NEW x \in Nodes, Mirrored(x) PROVE Mirrored(x)'
    <3>1. view.lab \in Labs
      BY <2>13 DEF MirrorInv, CanvasShape
    <3>2. CASE \E m \in made : m.id = x
      <4>1. PICK m \in made : m.id = x
        BY <3>2
      <4>2. ~Touched(x) /\ db'.node[x].at = 1 /\ nodes'[x].on
        BY <1>14, <2>5, <2>13, <4>1
      <4>3. ~nodes[x].on /\ ~Requested(x)'
        BY <2>8, <4>2 DEF Touched
      <4>4. CASE nodes'[x] = [on |-> TRUE, at |-> 1, temp |-> TRUE] /\ \E q \in made : q.id = x /\ q.temp
        <5>1. db'.node[x].lab = Gone /\ nodes'[x].temp
          BY <1>12, <4>4
        <5> QED
          BY <1>6, <1>7, <3>1, <5>1 DEF Mirrored
      <4>5. CASE nodes'[x] = [on |-> TRUE, at |-> 1, temp |-> FALSE] /\ \E q \in made : q.id = x /\ ~q.temp
        <5>1. db'.node[x].lab = view.lab /\ ~nodes'[x].temp /\ nodes'[x].at = 1
          BY <1>14, <2>13, <4>5
        <5>2. InPlace(x)'
          BY <4>2, <4>3, <5>1 DEF InPlace
        <5> QED
          BY <1>6, <4>2, <5>1, <5>2 DEF Mirrored
      <4> QED
        BY <2>4, <4>2, <4>3, <4>4, <4>5
    <3>3. CASE ~\E m \in made : m.id = x
      <4>1. nodes'[x] = nodes[x] /\ db'.node[x] = db.node[x] /\ ~MadeIn(k, x)
        BY <1>3, <1>9, <2>4, <3>3 DEF made, MadeIn
      <4>2. InPlace(x) => InPlace(x)'
        BY <2>2, <2>8, <4>1 DEF InPlace, ShownAt
      <4>3. (\E j \in DOMAIN flight.adds : MadeIn(j, x)) => \E j \in DOMAIN flight'.adds : MadeIn(j, x)'
        BY <2>3, <2>9, <4>1
      <4> QED
        BY <1>6, <2>8, <2>13, <4>1, <4>2, <4>3 DEF Mirrored
    <3> QED
      BY <3>2, <3>3
  <2> QED
    BY <1>6, <2>2, <2>7, <2>10, <2>11, <2>12, <2>13 DEF MirrorInv, InOrder, Loading
<1> QED
  BY <1>6, <1>15, <1>16

-----------------------------------------------------------------------------

\* The form opens on the page of a lab, which stays until it is closed.
LEMMA FormStep == CanvasInv /\ CanvasShape /\ FormOpen /\ [CanvasNext]_canvasVars => FormOpen'
<1> SUFFICES ASSUME CanvasInv, CanvasShape, FormOpen, [CanvasNext]_canvasVars PROVE FormOpen'
  OBVIOUS
<1>1. /\ dialogs \in [link : Asked, doomed : SUBSET Nodes, form : BOOLEAN, menu : Nodes \union {Nothing}]
      /\ view \in [lab : Labs \union {NoLab}, loading : BOOLEAN]
  BY DEF CanvasInv, CanvasShape
<1>2. CASE view'.lab = view.lab /\ (dialogs'.form => dialogs.form)
  BY <1>2 DEF FormOpen
<1>3. ASSUME NEW lab \in Labs, MountCanvas(lab) \/ TurnCanvas(lab) PROVE FormOpen'
  <2>1. view' = [lab |-> lab, loading |-> TRUE] \/ view' = [view EXCEPT !.lab = lab]
    BY <1>3 DEF MountCanvas, TurnCanvas
  <2>2. CASE view' = [lab |-> lab, loading |-> TRUE]
    BY <2>2 DEF FormOpen
  <2>3. CASE view' = [view EXCEPT !.lab = lab]
    BY <1>1, <2>3 DEF FormOpen
  <2> QED
    BY <2>1, <2>2, <2>3
<1>4. CASE UnmountCanvas
  BY <1>4 DEF UnmountCanvas, Closed, FormOpen
<1>5. CASE AddNodeToCanvas
  <2>1. view.lab # NoLab /\ view' = view
    BY <1>5 DEF AddNodeToCanvas, Uncovered, Ready
  <2> QED
    BY <1>1, <2>1 DEF FormOpen
<1>6. CASE view' = view /\ \/ dialogs' = dialogs \/ \E m \in Nodes \union {Nothing} : dialogs' = [dialogs EXCEPT !.menu = m]
                           \/ \E l : dialogs' = [dialogs EXCEPT !.link = l]
                           \/ \E d : dialogs' = [dialogs EXCEPT !.doomed = d]
                           \/ \E d : dialogs' = [dialogs EXCEPT !.menu = Nothing, !.doomed = d]
                           \/ dialogs' = [dialogs EXCEPT !.form = FALSE]
  BY <1>1, <1>2, <1>6
<1>7. CASE NodeGesture
  <2>1. ASSUME NEW n \in Nodes, StartDrag(n) \/ StartConnect(n) \/ NodeMenu(n) PROVE FormOpen'
    BY <1>6, <2>1 DEF StartDrag, StartConnect, NodeMenu
  <2>2. ASSUME NEW p \in Places, Align(p) PROVE FormOpen'
    BY <1>6, <2>2 DEF Align
  <2>3. ASSUME NEW ns \in SUBSET Nodes, BoxSelect(ns) PROVE FormOpen'
    BY <1>6, <2>3 DEF BoxSelect
  <2>4. ASSUME NEW qty \in 1..2, ConfirmAddNodes(qty) PROVE FormOpen'
    BY <1>6, <2>4 DEF ConfirmAddNodes
  <2> QED
    BY <1>5, <1>7, <2>1, <2>2, <2>3, <2>4 DEF NodeGesture
<1>8. CASE TextGesture
  BY <1>6, <1>8 DEF TextGesture, StartDrag, AddText, DeleteText
<1>9. CASE Continuation
  <2>1. CASE (\E p \in Places : OnMove(p)) \/ OnUp
    BY <1>6, <2>1 DEF OnMove, OnUp
  <2>2. CASE \/ \E n \in Nodes \union {Nothing} : EndConnect(n)
             \/ (\E si, di \in Ifaces : FinishLink(si, di)) \/ CancelLink
    BY <1>6, <2>2 DEF EndConnect, FinishLink, CancelLink
  <2>3. CASE AskDelete \/ CancelDelete \/ ConfirmDelete \/ CloseForm
    BY <1>6, <2>3 DEF AskDelete, CancelDelete, ConfirmDelete, CloseForm
  <2>4. ASSUME NEW k, TopologyServed(k) \/ TextsServed(k) \/ LoadAnswered(k) \/ LoadFails(k) PROVE FormOpen'
    <3>1. (view' = [view EXCEPT !.loading = FALSE] \/ view' = view) /\ dialogs' = dialogs
      BY <2>4 DEF TopologyServed, TextsServed, LoadAnswered, LoadFails
    <3>2. view'.lab = view.lab
      BY <1>1, <3>1
    <3> QED
      BY <1>2, <3>1, <3>2
  <2>5. ASSUME NEW r \in flight.sent, RequestServed(r) \/ RequestFails(r) PROVE FormOpen'
    BY <1>6, <2>5 DEF RequestServed, RequestFails
  <2>6. ASSUME NEW k \in DOMAIN flight.adds, NEW n \in Nodes, NEW ok \in BOOLEAN, NodeAdded(k, n, ok) PROVE FormOpen'
    BY <1>6, <2>6 DEF NodeAdded
  <2>7. ASSUME NEW p \in flight.posts, TextStored(p) \/ TextRefused(p) PROVE FormOpen'
    BY <1>6, <2>7 DEF TextStored, TextRefused
  <2> QED
    BY <1>9, <2>1, <2>2, <2>3, <2>4, <2>5, <2>6, <2>7 DEF Continuation
<1>10. CASE UNCHANGED canvasVars
  BY <1>6, <1>10 DEF canvasVars
<1> QED
  BY <1>3, <1>4, <1>7, <1>8, <1>9, <1>10 DEF CanvasNext, CanvasStep, NodeStep, TextStep

-----------------------------------------------------------------------------
(* What loads remember *)

\* Every step leaves alone what loads remember and the rows the backend knew, or adds to them.
LEMMA RecallFrame ==
  ASSUME Recalled, flight'.loads = flight.loads,
         \A n \in Nodes : db.node[n].lab # NoLab => db'.node[n].lab # NoLab,
         \A t \in Texts : db.text[t].lab # NoLab => db'.text[t].lab # NoLab
  PROVE  Recalled'
BY DEF Recalled

\* A post is for a lab: the page of one sent it.
PostLabs == \A p \in flight.posts : p.lab \in Labs

\* A load that ends leaves the others as they are; a new one remembers nothing.
LEMMA RecallLoads ==
  ASSUME Recalled, CanvasShape, db' = db,
         \/ \E lab \in Labs : flight'.loads = Append(flight.loads, NewLoad(lab))
         \/ \E k \in DOMAIN flight.loads : flight'.loads = Without(flight.loads, k)
         \/ flight'.loads = <<>>
  PROVE  Recalled'
<1>1. flight.loads \in Seq(Load)
  BY InFlight DEF CanvasShape
<1>2. CASE flight'.loads = <<>>
  BY <1>2 DEF Recalled
<1>3. ASSUME NEW lab \in Labs, flight'.loads = Append(flight.loads, NewLoad(lab)) PROVE Recalled'
  <2> DEFINE new == NewLoad(lab)
  <2>1. /\ \A n \in Nodes : new.node[n].lab = NoLab
        /\ \A t \in Texts : new.text[t].lab = NoLab
    BY DEF NewLoad, NoRow
  <2> HIDE DEF new
  <2>2. flight'.loads = Append(flight.loads, new)
    BY <1>3 DEF new
  <2>3. \A j \in DOMAIN flight'.loads : flight'.loads[j] = new \/ (j \in DOMAIN flight.loads /\ flight'.loads[j] = flight.loads[j])
    BY <1>1, <2>2
  <2> QED
    BY <2>1, <2>3 DEF Recalled
<1>4. ASSUME NEW k \in DOMAIN flight.loads, flight'.loads = Without(flight.loads, k) PROVE Recalled'
  <2>1. DOMAIN flight'.loads = 1..(Len(flight.loads) - 1)
        /\ \A j \in 1..(Len(flight.loads) - 1) : flight'.loads[j] = IF j < k THEN flight.loads[j] ELSE flight.loads[j + 1]
    BY <1>1, <1>4, WithoutIs
  <2>2. Len(flight.loads) \in Nat /\ DOMAIN flight.loads = 1..Len(flight.loads)
    BY <1>1
  <2>3. \A j \in DOMAIN flight'.loads : \E i \in DOMAIN flight.loads : flight'.loads[j] = flight.loads[i]
    <3>1. \A j \in 1..(Len(flight.loads) - 1) : j \in DOMAIN flight.loads /\ j + 1 \in DOMAIN flight.loads
      BY <2>2
    <3> QED
      BY <2>1, <3>1
  <2> QED
    BY <2>3 DEF Recalled
<1> QED
  BY <1>2, <1>3, <1>4

\* Whatever happens, in any order.
LEMMA RecallStep == Recalled /\ CanvasShape /\ CanvasInv /\ PostLabs /\ [CanvasNext]_canvasVars => Recalled'
<1> SUFFICES ASSUME Recalled, CanvasShape, CanvasInv, PostLabs, [CanvasNext]_canvasVars PROVE Recalled'
  OBVIOUS
<1>1. /\ flight \in Flights /\ db \in [node : [Nodes -> Row], text : [Texts -> Row]]
      /\ flight.posts \subseteq Post /\ flight.sent \subseteq Request
      /\ \A k \in DOMAIN flight.adds : flight.adds[k] \in Run
  BY InFlight DEF CanvasShape
<1>2. CASE UNCHANGED <<flight, db>>
  BY <1>2, RecallFrame
<1>3. ASSUME NEW lab \in Labs, MountCanvas(lab) \/ TurnCanvas(lab) PROVE Recalled'
  <2>1. db' = db /\ flight' = [flight EXCEPT !.loads = Append(flight.loads, NewLoad(lab))]
    BY <1>3 DEF MountCanvas, TurnCanvas
  <2>2. flight'.loads = Append(flight.loads, NewLoad(lab))
    BY <1>1, <2>1 DEF Flights
  <2> QED
    BY <2>1, <2>2, RecallLoads
<1>4. CASE UnmountCanvas
  <2>1. db' = db /\ flight'.loads = <<>>
    BY <1>1, <1>4 DEF UnmountCanvas, Flights
  <2> QED
    BY <2>1, RecallLoads
<1>5. ASSUME NEW k \in DOMAIN flight.loads, LoadAnswered(k) \/ LoadFails(k) PROVE Recalled'
  <2>1. db' = db /\ flight' = [flight EXCEPT !.loads = Without(flight.loads, k)]
    BY <1>5 DEF LoadAnswered, LoadFails
  <2>2. flight'.loads = Without(flight.loads, k)
    BY <1>1, <2>1 DEF Flights
  <2> QED
    BY <2>1, <2>2, RecallLoads
<1>6. ASSUME NEW k \in DOMAIN flight.loads, TopologyServed(k) \/ TextsServed(k) PROVE Recalled'
  <2>1. db' = db
    BY <1>6 DEF TopologyServed, TextsServed
  <2>2. /\ DOMAIN flight'.loads = DOMAIN flight.loads
        /\ \A j \in DOMAIN flight.loads : /\ flight'.loads[j].node \in {flight.loads[j].node, db.node}
                                          /\ flight'.loads[j].text \in {flight.loads[j].text, db.text}
    BY <1>6, LoadServedIs
  <2>3. ASSUME NEW j \in DOMAIN flight'.loads
        PROVE  /\ \A n \in Nodes : flight'.loads[j].node[n].lab # NoLab => db.node[n].lab # NoLab
               /\ \A t \in Texts : flight'.loads[j].text[t].lab # NoLab => db.text[t].lab # NoLab
    BY <2>2 DEF Recalled
  <2> QED
    BY <2>1, <2>3 DEF Recalled
<1>7. ASSUME NEW rs, Sent(rs), db' = db PROVE Recalled'
  <2>1. flight'.loads = flight.loads
    BY <1>1, <1>7 DEF Sent, Flights
  <2> QED
    BY <1>7, <2>1, RecallFrame
<1>8. ASSUME NEW r \in flight.sent, RequestServed(r) \/ RequestFails(r) PROVE Recalled'
  <2>1. flight'.loads = flight.loads
    BY <1>1, <1>8 DEF RequestServed, RequestFails, Flights
  <2>2. \/ db' = db \/ \E lab \in {Gone} : db' = [db EXCEPT !.text[r.id].lab = lab] \/ db' = [db EXCEPT !.node[r.id].lab = lab]
        \/ db' = [db EXCEPT !.node[r.id].at = r.at]
    BY <1>8 DEF RequestServed, RequestFails
  <2>3. Gone # NoLab
    BY DEF Gone, NoLab
  <2>4. /\ \A n \in Nodes : db.node[n].lab # NoLab => db'.node[n].lab # NoLab
        /\ \A t \in Texts : db.text[t].lab # NoLab => db'.text[t].lab # NoLab
    BY <1>1, <2>2, <2>3 DEF Row
  <2> QED
    BY <2>1, <2>4, RecallFrame
<1>9. ASSUME NEW k \in DOMAIN flight.adds, NEW n \in Nodes, NEW ok \in BOOLEAN, NodeAdded(k, n, ok) PROVE Recalled'
  <2> DEFINE run == [flight.adds[k] EXCEPT !.left = flight.adds[k].left - 1,
                                           !.made = flight.adds[k].made \union {[id |-> n, temp |-> ~ok]}]
             lab == IF ok THEN run.lab ELSE Gone
  <2>1. /\ db' = [db EXCEPT !.node[n] = [lab |-> lab, at |-> 1]]
        /\ flight' = [flight EXCEPT !.adds[k] = run] \/ flight' = [flight EXCEPT !.adds = Without(flight.adds, k)]
    BY <1>9 DEF NodeAdded
  <2>2. lab # NoLab
    BY <1>1, RoutesAssumption DEF Run, Gone, NoLab
  <2> HIDE DEF run, lab
  <2>3. flight'.loads = flight.loads
    BY <1>1, <2>1 DEF Flights
  <2>4. /\ \A m \in Nodes : db.node[m].lab # NoLab => db'.node[m].lab # NoLab
        /\ \A t \in Texts : db.text[t].lab # NoLab => db'.text[t].lab # NoLab
    BY <1>1, <2>1, <2>2
  <2> QED
    BY <2>3, <2>4, RecallFrame
<1>10. ASSUME NEW p \in flight.posts, TextStored(p) \/ TextRefused(p) PROVE Recalled'
  <2>1. flight' = [flight EXCEPT !.posts = flight.posts \ {p}]
        /\ (db' = db \/ db' = [db EXCEPT !.text[p.id] = [lab |-> p.lab, at |-> 1]])
    BY <1>10 DEF TextStored, TextRefused
  <2>2. flight'.loads = flight.loads /\ p.lab # NoLab
    BY <1>1, <2>1, RoutesAssumption DEF Flights, PostLabs
  <2>3. /\ \A n \in Nodes : db.node[n].lab # NoLab => db'.node[n].lab # NoLab
        /\ \A t \in Texts : db.text[t].lab # NoLab => db'.text[t].lab # NoLab
    BY <1>1, <2>1, <2>2
  <2> QED
    BY <2>2, <2>3, RecallFrame
<1>11. ASSUME NEW qty, ConfirmAddNodes(qty) PROVE Recalled'
  <2>1. db' = db /\ flight'.loads = flight.loads
    BY <1>1, <1>11 DEF ConfirmAddNodes, Flights
  <2> QED
    BY <2>1, RecallFrame
<1>12. ASSUME NEW t \in Texts, AddText(t) \/ DeleteText(t) PROVE Recalled'
  <2>1. CASE AddText(t)
    <3>1. db' = db /\ flight'.loads = flight.loads
      BY <1>1, <2>1 DEF AddText, Flights
    <3> QED
      BY <3>1, RecallFrame
  <2>2. CASE DeleteText(t)
    BY <1>2, <1>7, <2>2 DEF DeleteText
  <2> QED
    BY <1>12, <2>1, <2>2
<1>13. CASE NodeGesture
  BY <1>2, <1>7, <1>11, <1>13 DEF NodeGesture, StartDrag, StartConnect, NodeMenu, Align, BoxSelect, AddNodeToCanvas
<1>14. CASE TextGesture
  BY <1>2, <1>12, <1>14 DEF TextGesture, StartDrag
<1>15. CASE Continuation
  BY <1>2, <1>5, <1>6, <1>7, <1>8, <1>9, <1>10, <1>15
     DEF Continuation, OnMove, OnUp, EndConnect, FinishLink, CancelLink, AskDelete, CancelDelete, ConfirmDelete, CloseForm
<1>16. CASE UNCHANGED canvasVars
  BY <1>2, <1>16 DEF canvasVars
<1> QED
  BY <1>3, <1>4, <1>13, <1>14, <1>15, <1>16 DEF CanvasNext, CanvasStep, NodeStep, TextStep

-----------------------------------------------------------------------------
(* The canvas: texts *)

Text == [on : BOOLEAN, at : Places, saved : BOOLEAN]
Shown(t) == texts[t].on /\ texts[t].saved

\* A post is this page's, for the lab it shows, and for a text it shows that has no row yet.
PostsApart == \A p \in flight.posts :
    /\ p.mine /\ p.lab = view.lab
    /\ texts[p.id].on /\ ~texts[p.id].saved /\ db.text[p.id].lab = NoLab

\* What is shown as saved is in the lab; what is in the lab is shown so, or about to be deleted.
TextMirrored(t) ==
    /\ Shown(t) => db.text[t].lab = view.lab
    /\ db.text[t].lab = view.lab => Shown(t) \/ Requested(t)

TextInv ==
    /\ texts \in [Texts -> Text]
    /\ PostLabs
    /\ \A t \in Texts : Shown(t) \/ Requested(t) => db.text[t].lab # NoLab
    /\ InOrder => PostsApart /\ \A t \in Texts : Requested(t) => ~texts[t].on
    /\ InOrder /\ view.lab # NoLab /\ ~Loading => \A t \in Texts : TextMirrored(t)

\* A step that saves, shows, sends and stores no text.
TextsAside ==
    /\ texts' \in [Texts -> Text]
    /\ \A t \in Texts : /\ texts'[t].on = texts[t].on /\ texts'[t].saved = texts[t].saved
                        /\ db'.text[t].lab = db.text[t].lab
                        /\ Requested(t)' = Requested(t)
    /\ view'.lab = view.lab /\ flight'.posts = flight.posts
    /\ InOrder' => InOrder /\ Loading' = Loading

LEMMA TextFrame == ASSUME TextInv, CanvasShape, TextsAside PROVE TextInv'
<1>1. \A p \in flight.posts : p.id \in Texts
  BY InFlight DEF CanvasShape, Post
<1>2. \A t \in Texts : Shown(t)' = Shown(t)
  BY DEF TextsAside, Shown
<1>3. PostLabs'
  BY DEF TextsAside, TextInv, PostLabs
<1>4. InOrder' => PostsApart' /\ \A t \in Texts : Requested(t)' => ~texts'[t].on
  BY <1>1 DEF TextsAside, TextInv, PostsApart
<1>5. \A t \in Texts : TextMirrored(t) => TextMirrored(t)'
  BY <1>2 DEF TextsAside, TextMirrored
<1>6. \A t \in Texts : Shown(t)' \/ Requested(t)' => db'.text[t].lab # NoLab
  BY <1>2 DEF TextsAside, TextInv
<1> QED
  BY <1>3, <1>4, <1>5, <1>6 DEF TextsAside, TextInv

\* A page that comes, goes or turns has no text of its own under way, if all is settled.
LEMMA TextPage ==
  ASSUME TextInv, CanvasShape, (\E lab \in Labs : MountCanvas(lab) \/ TurnCanvas(lab)) \/ UnmountCanvas
  PROVE  TextInv'
<1>1. /\ flight \in Flights /\ past \in [mixed : BOOLEAN, refused : BOOLEAN]
      /\ db' = db /\ past' = [past EXCEPT !.mixed = past.mixed \/ ~Settled \/ Loading]
  BY DEF CanvasShape, MountCanvas, TurnCanvas, UnmountCanvas, Mixed
<1>2. InOrder' => InOrder /\ Settled
  <2>1. (past.mixed \/ ~Settled \/ Loading) \in BOOLEAN
    OBVIOUS
  <2> QED
    BY <1>1, <2>1 DEF InOrder
<1>3. CASE \E lab \in Labs : MountCanvas(lab) \/ TurnCanvas(lab)
  <2>1. PICK lab \in Labs : MountCanvas(lab) \/ TurnCanvas(lab)
    BY <1>3
  <2>2. texts' = texts /\ flight' = [flight EXCEPT !.loads = Append(flight.loads, NewLoad(lab))]
    BY <2>1 DEF MountCanvas, TurnCanvas
  <2>3. /\ flight'.sent = flight.sent /\ flight'.posts = flight.posts
        /\ flight'.loads = Append(flight.loads, NewLoad(lab))
    BY <1>1, <2>2 DEF Flights
  <2>4. Loading'
    <3>1. flight.loads \in Seq(Load)
      BY <1>1, InFlight
    <3>2. Append(flight.loads, NewLoad(lab)) # <<>>
      BY <3>1
    <3> QED
      BY <2>3, <3>2 DEF Loading
  <2>5. InOrder' => flight'.posts = {}
    BY <1>2, <2>3 DEF Settled
  <2> QED
    BY <1>1, <1>2, <2>2, <2>3, <2>4, <2>5 DEF TextInv, PostLabs, PostsApart, Shown, Requested
<1>4. CASE UnmountCanvas
  <2>1. /\ view'.lab = NoLab /\ texts' = [t \in Texts |-> NoText]
        /\ flight'.posts = {[p EXCEPT !.mine = FALSE] : p \in flight.posts} /\ flight'.sent = flight.sent
    BY <1>1, <1>4 DEF UnmountCanvas, Flights
  <2>2. texts' \in [Texts -> Text] /\ \A t \in Texts : ~Shown(t)'
    BY <2>1, CanvasAssumption DEF NoText, Text, Places, Shown
  <2>3. PostLabs'
    <3>1. \A p \in flight.posts : [p EXCEPT !.mine = FALSE].lab = p.lab
      BY <1>1, InFlight DEF Post
    <3> QED
      BY <2>1, <3>1 DEF TextInv, PostLabs
  <2>4. InOrder' => flight'.posts = {} /\ flight'.sent = {}
    BY <1>2, <2>1 DEF Settled
  <2>5. \A t \in Texts : Requested(t)' = Requested(t)
    BY <2>1 DEF Requested
  <2> QED
    BY <1>1, <2>1, <2>2, <2>3, <2>4, <2>5 DEF TextInv, PostsApart, Requested
<1> QED
  BY <1>3, <1>4

\* A load over a settled canvas shows the texts that are in its lab, unless they changed.
LEMMA TextLoad ==
  ASSUME TextInv, MirrorInv, Recalled, NEW k \in DOMAIN flight.loads, LoadAnswered(k)
  PROVE  TextInv'
<1> DEFINE load == flight.loads[k]
           old == Outdated(load, load.node, db.node) \/ Outdated(load, load.text, db.text)
<1>1. /\ flight \in Flights /\ past \in [mixed : BOOLEAN, refused : BOOLEAN]
      /\ db \in [node : [Nodes -> Row], text : [Texts -> Row]]
      /\ view \in [lab : Labs \union {NoLab}, loading : BOOLEAN]
  BY DEF MirrorInv, CanvasShape
<1>2. /\ flight' = [flight EXCEPT !.loads = Without(flight.loads, k)]
      /\ view' = [view EXCEPT !.loading = FALSE] /\ db' = db
      /\ texts' = [t \in Texts |-> IF load.text[t].lab = load.lab
                                   THEN [on |-> TRUE, at |-> load.text[t].at, saved |-> TRUE] ELSE NoText]
      /\ past' = [past EXCEPT !.mixed = past.mixed \/ ~Settled \/ old]
  BY DEF LoadAnswered
<1>3. InOrder' => InOrder /\ Settled /\ ~old
  <2>1. (past.mixed \/ ~Settled \/ old) \in BOOLEAN
    OBVIOUS
  <2> QED
    BY <1>1, <1>2, <2>1 DEF InOrder
<1>4. load \in Load /\ load.lab \in Labs /\ load.lab # NoLab /\ \A t \in Texts : load.text[t] \in Row
  <2>1. load \in Load
    BY <1>1, InFlight
  <2> QED
    BY <2>1, RoutesAssumption DEF Load
<1>5. \A t \in Texts : ~old /\ load.lab \in {load.text[t].lab, db.text[t].lab} => load.text[t] = db.text[t]
  BY <1>1 DEF Outdated
<1>6. \A t \in Texts : load.text[t].lab # NoLab => db.text[t].lab # NoLab
  BY DEF Recalled
<1>7. InOrder' => load.lab = view.lab
  BY <1>3 DEF MirrorInv, OneLoad
<1> HIDE DEF load, old
<1>8. flight'.sent = flight.sent /\ flight'.posts = flight.posts /\ view'.lab = view.lab
  BY <1>1, <1>2 DEF Flights
<1>9. ASSUME NEW t \in Texts PROVE texts'[t] \in Text /\ (Shown(t)' <=> load.text[t].lab = load.lab)
  <2>1. CASE load.text[t].lab = load.lab
    BY <1>2, <1>4, <2>1 DEF Text, Row, Shown
  <2>2. CASE load.text[t].lab # load.lab
    BY <1>2, <2>2, CanvasAssumption DEF NoText, Text, Places, Shown
  <2> QED
    BY <2>1, <2>2
<1>10. texts' \in [Texts -> Text]
  BY <1>2, <1>9
<1>11. PostLabs' /\ \A t \in Texts : Shown(t)' \/ Requested(t)' => db'.text[t].lab # NoLab
  BY <1>2, <1>4, <1>6, <1>8, <1>9 DEF TextInv, PostLabs, Requested
<1>12. InOrder' => PostsApart' /\ \A t \in Texts : ~Requested(t)'
  BY <1>3, <1>8 DEF Settled, PostsApart, Requested
<1>13. ASSUME InOrder', NEW t \in Texts PROVE TextMirrored(t)'
  BY <1>2, <1>3, <1>5, <1>7, <1>8, <1>9, <1>13 DEF TextMirrored
<1> QED
  BY <1>10, <1>11, <1>12, <1>13 DEF TextInv

\* The user adds a text or deletes one.
LEMMA TextAdded == ASSUME TextInv, CanvasShape, NEW t \in Texts, AddText(t) PROVE TextInv'
<1> DEFINE post == [id |-> t, lab |-> view.lab, mine |-> TRUE]
<1>1. /\ view.lab # NoLab /\ db.text[t].lab = NoLab /\ UNCHANGED <<view, db, past>>
      /\ texts' = [texts EXCEPT ![t] = [on |-> TRUE, at |-> 1, saved |-> FALSE]]
      /\ flight' = [flight EXCEPT !.posts = flight.posts \union {post}]
      /\ \A p \in flight.posts : p.id # t
  BY DEF AddText, Uncovered, Ready
<1>2. flight \in Flights /\ view.lab \in Labs
  BY <1>1 DEF CanvasShape
<1>3. /\ flight'.sent = flight.sent /\ flight'.loads = flight.loads /\ flight'.posts = flight.posts \union {post}
  BY <1>1, <1>2 DEF Flights
<1>4. /\ texts' \in [Texts -> Text]
      /\ texts'[t].on /\ ~texts'[t].saved /\ \A u \in Texts \ {t} : texts'[u] = texts[u]
  BY <1>1, CanvasAssumption DEF TextInv, Text, Places
<1>5. \A u \in Texts : (Shown(u)' => Shown(u)) /\ (u # t => Shown(u)' = Shown(u)) /\ Requested(u)' = Requested(u)
  BY <1>3, <1>4 DEF Shown, Requested
<1>6. ~Requested(t) /\ ~Shown(t)
  BY <1>1 DEF TextInv
<1>7. \A p \in flight.posts : p.id \in Texts \ {t}
  BY <1>1, <1>2, InFlight DEF Post
<1>8. PostLabs'
  BY <1>2, <1>3 DEF TextInv, PostLabs
<1>9. InOrder => PostsApart' /\ \A u \in Texts : Requested(u)' => ~texts'[u].on
  BY <1>1, <1>3, <1>4, <1>5, <1>6, <1>7 DEF TextInv, PostsApart
<1>10. \A u \in Texts : TextMirrored(u) => TextMirrored(u)'
  BY <1>1, <1>5, <1>6 DEF TextMirrored
<1>11. Loading' = Loading /\ InOrder' = InOrder
  BY <1>1, <1>3 DEF Loading, InOrder
<1> QED
  BY <1>1, <1>4, <1>5, <1>8, <1>9, <1>10, <1>11 DEF TextInv

LEMMA TextDeleted == ASSUME TextInv, CanvasShape, NEW t \in Texts, DeleteText(t) PROVE TextInv'
<1>1. /\ view.lab # NoLab /\ texts[t].on /\ UNCHANGED <<view, db>> /\ texts' = [texts EXCEPT ![t] = NoText]
  BY DEF DeleteText, Uncovered, Ready
<1>2. flight \in Flights /\ past \in [mixed : BOOLEAN, refused : BOOLEAN]
  BY DEF CanvasShape
<1>3. /\ texts' \in [Texts -> Text] /\ ~texts'[t].on /\ \A u \in Texts \ {t} : texts'[u] = texts[u]
  BY <1>1, CanvasAssumption DEF TextInv, Text, NoText, Places
<1>4. \A u \in Texts : (Shown(u)' => Shown(u)) /\ (u # t => Shown(u)' = Shown(u))
  BY <1>3 DEF Shown
<1>5. \A p \in flight.posts : p.id \in Texts
  BY <1>2, InFlight DEF Post
<1>6. CASE texts[t].saved
  <2>1. Sent({Del(t)}) /\ {Del(t)} \subseteq Request /\ Del(t).id = t
    BY <1>6, RequestsAre DEF DeleteText
  <2>2. /\ flight'.sent = flight.sent \union {Del(t)} /\ flight'.loads = flight.loads
        /\ flight' = [flight EXCEPT !.sent = flight.sent \union {Del(t)}] /\ (InOrder' => InOrder)
    BY <2>1, SentIs DEF Sent
  <2>3. flight'.posts = flight.posts /\ Loading' = Loading
    BY <1>2, <2>2 DEF Flights, Loading
  <2>4. \A u \in Texts : Requested(u)' <=> Requested(u) \/ u = t
    BY <2>1, <2>2 DEF Requested
  <2>5. db.text[t].lab # NoLab
    BY <1>1, <1>6 DEF TextInv, Shown
  <2>6. PostLabs' /\ \A u \in Texts : Shown(u)' \/ Requested(u)' => db'.text[u].lab # NoLab
    BY <1>1, <1>4, <2>3, <2>4, <2>5 DEF TextInv, PostLabs
  <2>7. InOrder' => PostsApart' /\ \A u \in Texts : Requested(u)' => ~texts'[u].on
    BY <1>1, <1>3, <1>5, <2>2, <2>3, <2>4, <2>5 DEF TextInv, PostsApart
  <2>8. \A u \in Texts : TextMirrored(u) => TextMirrored(u)'
    BY <1>1, <1>4, <2>4 DEF TextMirrored
  <2> QED
    BY <1>1, <1>3, <2>2, <2>3, <2>6, <2>7, <2>8 DEF TextInv
<1>7. CASE ~texts[t].saved
  <2>1. UNCHANGED flight /\ past' = [past EXCEPT !.mixed = past.mixed \/ \E p \in flight.posts : p.id = t]
    BY <1>7 DEF DeleteText
  <2>2. InOrder' => InOrder /\ \A p \in flight.posts : p.id # t
    <3>1. (past.mixed \/ \E p \in flight.posts : p.id = t) \in BOOLEAN
      OBVIOUS
    <3> QED
      BY <1>2, <2>1, <3>1 DEF InOrder
  <2>3. \A u \in Texts : Requested(u)' = Requested(u) /\ Shown(u)' = Shown(u)
    BY <1>3, <1>4, <1>7, <2>1 DEF Requested, Shown
  <2>4. PostLabs' /\ \A u \in Texts : Shown(u)' \/ Requested(u)' => db'.text[u].lab # NoLab
    BY <1>1, <2>1, <2>3 DEF TextInv, PostLabs
  <2>5. InOrder' => PostsApart' /\ \A u \in Texts : Requested(u)' => ~texts'[u].on
    BY <1>1, <1>3, <1>5, <2>1, <2>2, <2>3 DEF TextInv, PostsApart
  <2>6. \A u \in Texts : TextMirrored(u) => TextMirrored(u)'
    BY <1>1, <2>3 DEF TextMirrored
  <2> QED
    BY <1>1, <1>3, <2>1, <2>2, <2>4, <2>5, <2>6 DEF TextInv, Loading
<1> QED
  BY <1>1, <1>6, <1>7 DEF TextInv, Text

\* The backend stores a text: the page shows it as saved, if it is there to see it.
LEMMA TextIsStored == ASSUME TextInv, CanvasShape, NEW p \in flight.posts, TextStored(p) PROVE TextInv'
<1>1. /\ flight' = [flight EXCEPT !.posts = flight.posts \ {p}] /\ UNCHANGED <<view, past>>
      /\ db' = [db EXCEPT !.text[p.id] = [lab |-> p.lab, at |-> 1]]
      /\ texts' = IF p.mine /\ texts[p.id].on THEN [texts EXCEPT ![p.id].saved = TRUE] ELSE texts
  BY DEF TextStored
<1>2. /\ flight \in Flights /\ db \in [node : [Nodes -> Row], text : [Texts -> Row]]
      /\ \A q \in flight.posts : q \in Post /\ q.id \in Texts
  BY InFlight DEF CanvasShape, Post
<1>3. p.lab # NoLab
  BY RoutesAssumption DEF TextInv, PostLabs
<1>4. /\ flight'.sent = flight.sent /\ flight'.loads = flight.loads /\ flight'.posts = flight.posts \ {p}
  BY <1>1, <1>2 DEF Flights
<1>5. db'.text[p.id].lab = p.lab /\ \A u \in Texts \ {p.id} : db'.text[u].lab = db.text[u].lab
  BY <1>1, <1>2
<1>6. /\ texts' \in [Texts -> Text] /\ \A u \in Texts : texts'[u].on = texts[u].on
      /\ \A u \in Texts \ {p.id} : texts'[u] = texts[u]
      /\ p.mine /\ texts[p.id].on => texts'[p.id].saved
  BY <1>1, <1>2 DEF TextInv, Text
<1>7. \A u \in Texts : (u # p.id => Shown(u)' = Shown(u)) /\ Requested(u)' = Requested(u)
  BY <1>4, <1>6 DEF Shown, Requested
<1>8. PostLabs' /\ \A u \in Texts : Shown(u)' \/ Requested(u)' => db'.text[u].lab # NoLab
  BY <1>3, <1>4, <1>5, <1>7 DEF TextInv, PostLabs
<1>9. ASSUME InOrder PROVE PostsApart' /\ Shown(p.id)' /\ p.lab = view.lab
  <2>1. \A q \in flight.posts : q.mine /\ q.lab = view.lab
    BY <1>9 DEF TextInv, PostsApart
  <2>2. \A q \in flight.posts : q.id = p.id => q = p
    BY <1>2, <2>1 DEF Post
  <2> QED
    BY <1>1, <1>2, <1>4, <1>5, <1>6, <1>9, <2>1, <2>2 DEF TextInv, PostsApart, Shown
<1>10. \A u \in Texts : Requested(u)' /\ InOrder => ~texts'[u].on
  BY <1>6, <1>7 DEF TextInv
<1>11. ASSUME InOrder, NEW u \in Texts, TextMirrored(u) PROVE TextMirrored(u)'
  <2>1. CASE u = p.id
    BY <1>1, <1>5, <1>9, <1>11, <2>1 DEF TextMirrored
  <2>2. CASE u # p.id
    BY <1>1, <1>5, <1>7, <1>11, <2>2 DEF TextMirrored
  <2> QED
    BY <2>1, <2>2
<1> QED
  BY <1>1, <1>4, <1>6, <1>8, <1>9, <1>10, <1>11 DEF TextInv, InOrder, Loading

\* Something fails: no order is claimed any more.
LEMMA TextFails ==
  ASSUME TextInv, CanvasShape,
         \/ \E r \in flight.sent : RequestFails(r)
         \/ \E p \in flight.posts : TextRefused(p)
         \/ \E k \in DOMAIN flight.loads : LoadFails(k)
  PROVE  TextInv'
<1>1. flight \in Flights /\ past \in [mixed : BOOLEAN, refused : BOOLEAN]
  BY DEF CanvasShape
<1>2. UNCHANGED <<texts, db>> /\ past' = [past EXCEPT !.refused = TRUE]
  BY DEF RequestFails, TextRefused, LoadFails
<1>3. flight'.sent \subseteq flight.sent /\ flight'.posts \subseteq flight.posts
  <2>1. \/ \E r : flight' = [flight EXCEPT !.sent = flight.sent \ {r}]
        \/ \E p : flight' = [flight EXCEPT !.posts = flight.posts \ {p}]
        \/ \E k : flight' = [flight EXCEPT !.loads = Without(flight.loads, k)]
    BY DEF RequestFails, TextRefused, LoadFails
  <2> QED
    BY <1>1, <2>1 DEF Flights
<1>4. ~InOrder'
  BY <1>1, <1>2 DEF InOrder
<1>5. \A t \in Texts : Shown(t)' = Shown(t) /\ (Requested(t)' => Requested(t))
  BY <1>2, <1>3 DEF Shown, Requested
<1> QED
  BY <1>2, <1>3, <1>4, <1>5 DEF TextInv, PostLabs

\* The backend serves a request: for a text, it deletes the row of one that is off the canvas.
LEMMA TextServed == ASSUME TextInv, MirrorInv, NEW r \in flight.sent, RequestServed(r) PROVE TextInv'
<1>1. /\ flight \in Flights /\ db \in [node : [Nodes -> Row], text : [Texts -> Row]]
      /\ view.lab \in Labs \union {NoLab}
  BY DEF MirrorInv, CanvasShape
<1>2. /\ flight' = [flight EXCEPT !.sent = flight.sent \ {r}] /\ UNCHANGED <<view, texts, past>>
      /\ r.id \in Texts => db' = [db EXCEPT !.text[r.id].lab = Gone]
      /\ r.id \notin Texts => \/ db' = db \/ db' = [db EXCEPT !.node[r.id].at = r.at]
                              \/ db' = [db EXCEPT !.node[r.id].lab = Gone]
  BY DEF RequestServed
<1>3. flight'.sent = flight.sent \ {r} /\ flight'.loads = flight.loads /\ flight'.posts = flight.posts
  BY <1>1, <1>2 DEF Flights
<1>4. CASE r.id \notin Texts
  <2>1. db'.text = db.text
    BY <1>1, <1>2, <1>4
  <2>2. \A t \in Texts : Requested(t)' = Requested(t)
    BY <1>3, <1>4 DEF Requested
  <2>3. TextsAside
    BY <1>2, <1>3, <2>1, <2>2 DEF TextsAside, TextInv, InOrder, Loading
  <2> QED
    BY <2>3, TextFrame DEF MirrorInv
<1>5. CASE r.id \in Texts
  <2>1. db'.text[r.id].lab = Gone /\ \A t \in Texts \ {r.id} : db'.text[t] = db.text[t]
    BY <1>1, <1>2, <1>5 DEF Row
  <2>2. Gone # NoLab /\ Gone # view.lab
    BY <1>1, CanvasAssumption DEF Gone, NoLab
  <2>3. \A t \in Texts : /\ Shown(t)' = Shown(t) /\ (Requested(t)' => Requested(t))
                         /\ t # r.id => Requested(t)' = Requested(t)
    BY <1>2, <1>3 DEF Shown, Requested
  <2>4. PostLabs' /\ \A t \in Texts : Shown(t)' \/ Requested(t)' => db'.text[t].lab # NoLab
    BY <1>3, <2>1, <2>2, <2>3 DEF TextInv, PostLabs
  <2>5. db.text[r.id].lab # NoLab /\ Requested(r.id)
    BY <1>5 DEF TextInv, Requested
  <2>6. \A p \in flight.posts : p.id \in Texts
    BY <1>1, InFlight DEF Post
  <2>7. ASSUME InOrder PROVE PostsApart' /\ (\A t \in Texts : Requested(t)' => ~texts'[t].on) /\ ~Shown(r.id)'
    <3>1. PostsApart /\ \A t \in Texts : Requested(t) => ~texts[t].on
      BY <2>7 DEF TextInv
    <3>2. \A p \in flight.posts : p.id # r.id
      BY <2>5, <3>1 DEF PostsApart
    <3> QED
      BY <1>2, <1>3, <1>5, <2>1, <2>3, <2>5, <2>6, <3>1, <3>2 DEF PostsApart, Shown
  <2>8. ASSUME InOrder, NEW t \in Texts, TextMirrored(t) PROVE TextMirrored(t)'
    <3>1. CASE t = r.id
      BY <1>2, <2>1, <2>2, <2>7, <2>8, <3>1 DEF TextMirrored
    <3>2. CASE t # r.id
      BY <1>2, <2>1, <2>3, <2>8, <3>2 DEF TextMirrored
    <3> QED
      BY <3>1, <3>2
  <2> QED
    BY <1>2, <1>3, <2>4, <2>7, <2>8 DEF TextInv, InOrder, Loading
<1> QED
  BY <1>4, <1>5

\* Requests for nodes are nothing to texts.
LEMMA TextSends ==
  ASSUME TextInv, CanvasShape, NEW rs, Sent(rs), \A r \in rs : r.id \in Nodes, UNCHANGED <<view, texts, db>>
  PROVE  TextInv'
<1>1. flight \in Flights /\ past \in [mixed : BOOLEAN, refused : BOOLEAN]
  BY DEF CanvasShape
<1>2. /\ flight' = [flight EXCEPT !.sent = flight.sent \union rs]
      /\ past' = [past EXCEPT !.mixed = past.mixed \/ \E r \in rs, s \in flight.sent : r.id = s.id]
  BY DEF Sent
<1>3. /\ flight'.sent = flight.sent \union rs /\ flight'.loads = flight.loads /\ flight'.posts = flight.posts
  BY <1>1, <1>2 DEF Flights
<1>4. InOrder' => InOrder
  <2>1. (past.mixed \/ \E r \in rs, s \in flight.sent : r.id = s.id) \in BOOLEAN
    OBVIOUS
  <2> QED
    BY <1>1, <1>2, <2>1 DEF InOrder
<1>5. \A t \in Texts : Requested(t)' = Requested(t)
  BY <1>3, CanvasAssumption DEF Requested
<1>6. TextsAside
  BY <1>3, <1>4, <1>5 DEF TextsAside, TextInv, Loading
<1> QED
  BY <1>6, TextFrame

\* Whatever the user does and whatever is answered, in any order.
LEMMA TextKept == TextInv /\ MirrorInv /\ CanvasInv /\ Recalled /\ [CanvasNext]_canvasVars => TextInv'
<1> SUFFICES ASSUME TextInv, MirrorInv, CanvasInv, Recalled, [CanvasNext]_canvasVars PROVE TextInv'
  OBVIOUS
<1>1. /\ CanvasShape /\ flight \in Flights /\ db \in [node : [Nodes -> Row], text : [Texts -> Row]]
      /\ texts \in [Texts -> Text]
  BY DEF MirrorInv, CanvasShape, TextInv
<1>2. CASE UNCHANGED <<view, texts, flight, db, past>>
  <2>1. TextsAside
    BY <1>1, <1>2 DEF TextsAside, Requested, InOrder, Loading
  <2> QED
    BY <1>1, <2>1, TextFrame
<1>3. ASSUME NEW x \in Nodes \union Texts, StartDrag(x) PROVE TextInv'
  BY <1>2, <1>3 DEF StartDrag
<1>4. ASSUME NEW p \in Places, OnMove(p) PROVE TextInv'
  <2>1. UNCHANGED <<view, flight, db, past>>
    BY <1>4 DEF OnMove
  <2>2. \/ texts' = texts
        \/ \E x : texts' = [texts EXCEPT ![x] = IF texts[x].on /\ texts[x].saved = hand.held.saved
                                                THEN [texts[x] EXCEPT !.at = p] ELSE texts[x]]
    BY <1>4 DEF OnMove
  <2>3. /\ texts' \in [Texts -> Text]
        /\ \A t \in Texts : texts'[t].on = texts[t].on /\ texts'[t].saved = texts[t].saved
    BY <1>1, <2>2 DEF Text
  <2>4. TextsAside
    BY <2>1, <2>3 DEF TextsAside, Requested, InOrder, Loading
  <2> QED
    BY <1>1, <2>4, TextFrame
<1>5. CASE OnUp
  <2>1. \A r \in ToSave(hand.held.id) : r.id \in Nodes
    BY DEF ToSave, TextsThen, Put
  <2> QED
    BY <1>1, <1>5, <2>1, TextSends DEF OnUp
<1>6. ASSUME NEW p \in Places, Align(p) PROVE TextInv'
  <2>1. PICK ns \in SUBSET Nodes : Sent({Put(n, p) : n \in ns})
    BY <1>6 DEF Align
  <2>2. \A r \in {Put(n, p) : n \in ns} : r.id \in Nodes
    BY DEF Put
  <2> QED
    BY <1>1, <1>6, <2>1, <2>2, TextSends DEF Align
<1>7. CASE ConfirmDelete
  <2>1. Sent({Del(n) : n \in {m \in dialogs.doomed : ~nodes[m].temp}}) /\ dialogs.doomed \subseteq Nodes
    BY <1>7 DEF ConfirmDelete, CanvasInv
  <2>2. \A r \in {Del(n) : n \in {m \in dialogs.doomed : ~nodes[m].temp}} : r.id \in Nodes
    BY <2>1 DEF Del
  <2> QED
    BY <1>1, <1>7, <2>1, <2>2, TextSends DEF ConfirmDelete
<1>8. ASSUME NEW k \in DOMAIN flight.loads, TopologyServed(k) \/ TextsServed(k) PROVE TextInv'
  <2>1. UNCHANGED <<view, texts, db, past>>
    BY <1>8 DEF TopologyServed, TextsServed
  <2>2. flight'.sent = flight.sent /\ flight'.posts = flight.posts /\ flight.loads # <<>> /\ flight'.loads # <<>>
    BY <1>1, <1>8, LoadServedIs
  <2>3. TextsAside
    BY <1>1, <2>1, <2>2 DEF TextsAside, Requested, InOrder, Loading
  <2> QED
    BY <1>1, <2>3, TextFrame
<1>9. ASSUME NEW qty, ConfirmAddNodes(qty) PROVE TextInv'
  <2>1. UNCHANGED <<view, texts, db, past>>
        /\ \E as : flight' = [flight EXCEPT !.adds = as]
    BY <1>9 DEF ConfirmAddNodes
  <2>2. flight'.sent = flight.sent /\ flight'.posts = flight.posts /\ flight'.loads = flight.loads
    BY <1>1, <2>1 DEF Flights
  <2>3. TextsAside
    BY <1>1, <2>1, <2>2 DEF TextsAside, Requested, InOrder, Loading
  <2> QED
    BY <1>1, <2>3, TextFrame
<1>10. ASSUME NEW k \in DOMAIN flight.adds, NEW n \in Nodes, NEW ok \in BOOLEAN, NodeAdded(k, n, ok) PROVE TextInv'
  <2>1. /\ UNCHANGED <<view, texts, past>>
        /\ \E row : db' = [db EXCEPT !.node[n] = row]
        /\ \/ \E run : flight' = [flight EXCEPT !.adds[k] = run]
           \/ flight' = [flight EXCEPT !.adds = Without(flight.adds, k)]
    BY <1>10 DEF NodeAdded
  <2>2. flight'.sent = flight.sent /\ flight'.posts = flight.posts /\ flight'.loads = flight.loads /\ db'.text = db.text
    BY <1>1, <2>1 DEF Flights
  <2>3. TextsAside
    BY <1>1, <2>1, <2>2 DEF TextsAside, Requested, InOrder, Loading
  <2> QED
    BY <1>1, <2>3, TextFrame
<1>11. CASE NodeGesture
  BY <1>2, <1>3, <1>6, <1>9, <1>11 DEF NodeGesture, StartConnect, NodeMenu, BoxSelect, AddNodeToCanvas
<1>12. CASE TextGesture
  BY <1>1, <1>3, <1>12, TextAdded, TextDeleted DEF TextGesture
<1>13. CASE Continuation
  <2>1. CASE (\E p \in Places : OnMove(p)) \/ OnUp \/ ConfirmDelete
    BY <1>4, <1>5, <1>7, <2>1
  <2>2. CASE \/ \E n \in Nodes \union {Nothing} : EndConnect(n)
             \/ \E si, di \in Ifaces : FinishLink(si, di)
             \/ CancelLink \/ AskDelete \/ CancelDelete \/ CloseForm
    BY <1>2, <2>2 DEF EndConnect, FinishLink, CancelLink, AskDelete, CancelDelete, CloseForm
  <2>3. CASE \E k \in DOMAIN flight.loads : TopologyServed(k) \/ TextsServed(k) \/ LoadAnswered(k) \/ LoadFails(k)
    BY <1>1, <1>8, <2>3, TextLoad, TextFails
  <2>4. CASE \E r \in flight.sent : RequestServed(r) \/ RequestFails(r)
    BY <1>1, <2>4, TextServed, TextFails
  <2>5. CASE \E p \in flight.posts : TextStored(p) \/ TextRefused(p)
    BY <1>1, <2>5, TextIsStored, TextFails
  <2> QED
    BY <1>10, <1>13, <2>1, <2>2, <2>3, <2>4, <2>5 DEF Continuation
<1>14. CASE UNCHANGED canvasVars
  BY <1>2, <1>14 DEF canvasVars
<1> QED
  BY <1>1, <1>11, <1>12, <1>13, <1>14, TextPage DEF CanvasNext, CanvasStep, NodeStep, TextStep

-----------------------------------------------------------------------------
(* The canvas is the lab *)

MirrorAll == CanvasInv /\ MirrorInv /\ FormOpen /\ Recalled /\ TextInv

\* The application starts with no page and nothing in flight.
LEMMA MirrorInit == CanvasInit => MirrorAll
<1> SUFFICES ASSUME CanvasInit PROVE MirrorInv /\ FormOpen /\ Recalled /\ TextInv
  BY CanvasInvInit DEF MirrorAll
<1>1. /\ nodes = [n \in Nodes |-> NoNode] /\ dialogs = Closed /\ chosen = Empty
      /\ flight = [loads |-> <<>>, adds |-> <<>>, sent |-> {}, posts |-> {}]
      /\ db = [node |-> [n \in Nodes |-> [lab |-> Home[n], at |-> 1]],
               text |-> [t \in Texts |-> NoRow]]
      /\ view = [lab |-> NoLab, loading |-> FALSE] /\ past = [mixed |-> FALSE, refused |-> FALSE]
  BY DEF CanvasInit
<1>2. NoNode \in Node /\ ~NoNode.on /\ ~NoNode.temp /\ 0 \in Places /\ 1 \in Places
  BY CanvasAssumption DEF NoNode, Node, Places
<1>3. \A n \in Nodes : [lab |-> Home[n], at |-> 1] \in Row
  BY <1>2, CanvasAssumption DEF Row
<1>4. \A t \in Texts : NoRow \in Row
  BY <1>2 DEF Row, NoRow
<1>5. [loads |-> <<>>, adds |-> <<>>, sent |-> {}, posts |-> {}] \in Flights
  <2>1. <<>> \in Seq(Load) /\ <<>> \in Seq(Run)
    OBVIOUS
  <2> QED
    BY <2>1 DEF Flights
<1>6. CanvasShape
  <2>1. nodes \in [Nodes -> Node] /\ chosen \in [isSet : BOOLEAN, ids : SUBSET (Nodes \union Texts)]
    BY <1>1, <1>2 DEF Empty
  <2>2. db \in [node : [Nodes -> Row], text : [Texts -> Row]]
    BY <1>1, <1>3, <1>4
  <2>3. view \in [lab : Labs \union {NoLab}, loading : BOOLEAN] /\ past \in [mixed : BOOLEAN, refused : BOOLEAN]
    BY <1>1
  <2> QED
    BY <1>1, <1>5, <2>1, <2>2, <2>3 DEF CanvasShape
<1>7. flight.adds = <<>> /\ flight.sent = {} /\ flight.loads = <<>>
  BY <1>1
<1>8. \A n \in Nodes : ~Touched(n) /\ ~nodes[n].temp
  BY <1>1, <1>2, <1>7, CanvasAssumption DEF Touched, Requested, Closed, Empty
<1>9. Founded /\ RunsApart /\ OneRequest /\ OneLoad
  BY <1>7, <1>8 DEF Founded, RunsApart, OneRequest, OneLoad, DeleteSent
<1>10. view.lab = NoLab /\ FormOpen
  BY <1>1 DEF FormOpen, Closed
<1>11. Recalled
  BY <1>7 DEF Recalled
<1>12. TextInv
  <2>1. texts = [t \in Texts |-> NoText] /\ flight.posts = {}
    BY <1>1 DEF CanvasInit
  <2>2. texts \in [Texts -> Text] /\ \A t \in Texts : ~Shown(t) /\ ~Requested(t)
    BY <1>2, <1>7, <2>1 DEF NoText, Text, Shown, Requested
  <2> QED
    BY <1>10, <2>1, <2>2 DEF TextInv, PostLabs, PostsApart
<1> QED
  BY <1>6, <1>9, <1>10, <1>11, <1>12 DEF MirrorInv

\* Whatever the user does and whatever is answered, in any order.
LEMMA MirrorStep == MirrorAll /\ [CanvasNext]_canvasVars => MirrorAll'
<1> SUFFICES ASSUME CanvasInv, MirrorInv, FormOpen, Recalled, [CanvasNext]_canvasVars PROVE MirrorInv'
  BY CanvasInvStep, FormStep, RecallStep, TextKept DEF MirrorAll, MirrorInv, TextInv
<1>1. CASE UNCHANGED canvasVars
  <2>1. \A n \in Nodes : n \in chosen.ids \/ n \in dialogs.doomed \/ n = dialogs.menu => Touched(n)
    BY DEF Touched
  <2> QED
    BY <1>1, <2>1, GestureKeeps DEF canvasVars, MirrorInv, CanvasShape
<1>2. CASE NodeGesture
  <2>1. Nodes \subseteq Nodes \union Texts
    OBVIOUS
  <2> QED
    BY <1>2, <2>1, MouseKeeps, AlignKeeps, ConfirmKeeps DEF NodeGesture
<1>3. CASE TextGesture
  <2>1. Texts \subseteq Nodes \union Texts
    OBVIOUS
  <2> QED
    BY <1>3, <2>1, MouseKeeps, TextStepKeeps, DeleteTextKeeps DEF TextGesture
<1>4. CASE Continuation
  BY <1>4, MouseKeeps, MoveKeeps, UpKeeps, DeleteKeeps, LoadServedKeeps, LoadKeeps, ServedKeeps, AddedKeeps,
     TextStepKeeps
     DEF Continuation
<1> QED
  BY <1>1, <1>2, <1>3, <1>4, PageKeeps DEF CanvasNext, CanvasStep, NodeStep, TextStep

\* With nothing under way, nothing overtaken, nothing refused and no outdated load shown, the
\* canvas shows the nodes of the lab of the address and no others, where the backend has them,
\* and the texts that have a row there and no others: for any labs, nodes, texts, links and
\* bounds, however drags, deletions, creations, loads and turns to other labs interleave.
THEOREM CanvasHeld == CanvasSpec => []CanvasIsLab
<1>1. MirrorAll => CanvasIsLab
  <2> SUFFICES ASSUME MirrorAll, AtRest PROVE CanvasIsLab
    BY DEF CanvasIsLab
  <2>1. /\ InOrder /\ view.lab # NoLab /\ ~Loading
        /\ flight.adds = <<>> /\ flight.sent = {} /\ hand.held = NoHold
    BY DEF AtRest, Ready, InOrder
  <2>2. ASSUME NEW n \in Nodes
        PROVE  /\ (nodes[n].on /\ ~nodes[n].temp) = (db.node[n].lab = view.lab)
               /\ nodes[n].on /\ ~nodes[n].temp => nodes[n].at \in {db.node[n].at, ShownAt(db.node[n].at)}
    <3>1. Mirrored(n) /\ nodes[n] \in Node
      BY <2>1 DEF MirrorAll, MirrorInv, CanvasShape
    <3>2. hand.held.id # n /\ ~Requested(n) /\ ~DeleteSent(n) /\ DOMAIN flight.adds = {}
      BY <2>1, CanvasAssumption DEF NoHold, Requested, DeleteSent
    <3>3. /\ nodes[n].on /\ ~nodes[n].temp => db.node[n].lab = view.lab /\ InPlace(n)
          /\ db.node[n].lab = view.lab => nodes[n].on /\ ~nodes[n].temp
      BY <3>1, <3>2 DEF Mirrored
    <3>4. nodes[n].on \in BOOLEAN /\ nodes[n].temp \in BOOLEAN
      BY <3>1 DEF Node
    <3> QED
      BY <3>2, <3>3, <3>4 DEF InPlace
  <2>3. ASSUME NEW t \in Texts PROVE (texts[t].on /\ texts[t].saved) = (db.text[t].lab = view.lab)
    <3>1. TextMirrored(t) /\ texts[t] \in Text /\ ~Requested(t)
      BY <2>1 DEF MirrorAll, TextInv, Requested
    <3>2. texts[t].on \in BOOLEAN /\ texts[t].saved \in BOOLEAN
      BY <3>1 DEF Text
    <3> QED
      BY <3>1, <3>2 DEF TextMirrored, Shown
  <2> QED
    BY <2>2, <2>3 DEF CanvasIsLab
<1> QED
  BY MirrorInit, MirrorStep, <1>1, PTL DEF CanvasSpec

-----------------------------------------------------------------------------
(* The application *)

\* Whatever the application does, each of its parts makes one of its own steps or none.
LEMMA PartSteps ==
  [WebNext]_webVars => [BuildNext]_buildVars /\ [FeedNext]_feedVars /\ [CanvasNext]_canvasVars
<1> SUFFICES ASSUME [WebNext]_webVars
             PROVE  [BuildNext]_buildVars /\ [FeedNext]_feedVars /\ [CanvasNext]_canvasVars
  OBVIOUS
<1>1. CASE UNCHANGED webVars
  BY <1>1 DEF webVars
<1>2. ASSUME NEW p \in Pages, Leave(p) PROVE [BuildNext]_buildVars /\ [FeedNext]_feedVars /\ [CanvasNext]_canvasVars
  <2>1. /\ UnmountPanel \/ UNCHANGED buildVars
        /\ UnmountFeed \/ UNCHANGED feedVars
        /\ (UnmountCanvas \/ UNCHANGED canvasVars) /\ UNCHANGED gestures
    BY <1>2 DEF Leave
  <2> QED
    BY <2>1 DEF BuildNext, FeedNext, CanvasNext
<1>3. CASE Enter
  <2>1. /\ MountPanel \/ UNCHANGED buildVars
        /\ (page.asked \in Labs /\ MountFeed(page.asked)) \/ UNCHANGED feedVars
        /\ (page.asked \in Labs /\ MountCanvas(page.asked)) \/ UNCHANGED canvasVars
        /\ UNCHANGED gestures
    BY <1>3 DEF Enter
  <2> QED
    BY <2>1 DEF BuildNext, FeedNext, CanvasNext
<1>4. ASSUME NEW lab \in Labs, Turn(lab) PROVE [BuildNext]_buildVars /\ [FeedNext]_feedVars /\ [CanvasNext]_canvasVars
  <2>1. /\ UNCHANGED buildVars /\ UNCHANGED gestures
        /\ TurnFeed(lab) \/ UNCHANGED feedVars
        /\ TurnCanvas(lab) \/ UNCHANGED canvasVars
    BY <1>4 DEF Turn
  <2> QED
    BY <2>1 DEF FeedNext, CanvasNext
<1>5. CASE PartStep
  BY <1>5 DEF PartStep, BuildNext, FeedNext, CanvasNext, CanvasStep
<1>6. Labs \subseteq Pages
  BY DEF Pages
<1> QED
  BY <1>1, <1>2, <1>3, <1>4, <1>5, <1>6 DEF WebNext, DoneTimer

\* The application is the AI builder, and the traffic feed, and the canvas, each as its own
\* module says: what is proved of a part alone holds of it in the application.
THEOREM PartsImplemented == WebSpec => BuildSpec /\ FeedSpec /\ CanvasSpec
<1>1. WebInit => BuildInit /\ FeedInit /\ CanvasInit
  BY DEF WebInit
<1> QED
  BY <1>1, PartSteps, PTL DEF WebSpec, BuildSpec, FeedSpec, CanvasSpec

\* In the whole application, then: one build in reach of its panel and a true spinner, one
\* feed, links drawn over free interfaces, and a canvas at rest that shows its lab.
THEOREM PagesHeld ==
  WebSpec => /\ []OneLiveBuild /\ []SpinnerIsTrue
             /\ []OneFeed
             /\ []InterfaceOnce /\ []CanvasIsLab
BY PartsImplemented, OneLive, SpinnerHeld, FeedHeld, InterfaceHeld, CanvasHeld, PTL
=============================================================================
