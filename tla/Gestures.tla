------------------------------ MODULE Gestures ------------------------------
(***************************************************************************)
(* The recognition of touch gestures (core/input/gesturehandler.js): the   *)
(* gestures that are still possible, the fingers that are tracked and those*)
(* that are ignored until they are lifted, and the two timers.  A handler  *)
(* is an operator on a record whose field out collects the events it       *)
(* pushes.  A finger is near where it came down, or far from it in one of   *)
(* two directions more than 90 degrees apart.                              *)
(***************************************************************************)
EXTENDS Naturals, Sequences, FiniteSets, SequencesExt

Taps == {"onetap", "twotap", "threetap"}
TwoFinger == {"twodrag", "pinch"}
AllGestures == Taps \union TwoFinger \union {"drag", "longpress"}
Moves == {"near", "east", "west"}

NoTouch == [state |-> AllGestures, tracked |-> <<>>, ignored |-> {}, waitingRelease |-> FALSE,
            longpress |-> FALSE, twoTouch |-> "none", out |-> <<>>]

\* The place of a finger among those tracked.
Places(g, id) == {i \in DOMAIN g.tracked : g.tracked[i].id = id}
Fingers(g) == {g.tracked[i].id : i \in DOMAIN g.tracked}
SomeActive(g) == \E i \in DOMAIN g.tracked : g.tracked[i].active

\* One gesture is left; a tap is one only when every finger is up.
HasDetectedGesture(g) ==
    Cardinality(g.state) = 1 /\ (g.state \subseteq Taps => ~SomeActive(g))

\* The gesture begins where the fingers came down; one with two fingers stays there.
PushEvent(g, kind) ==
    LET gesture == CHOOSE x \in g.state : TRUE
        far == \E i \in DOMAIN g.tracked : g.tracked[i].at # "near"
    IN  [g EXCEPT !.out = Append(@,
            [kind |-> kind, gesture |-> gesture,
             pos |-> IF kind = "start" \/ gesture \in TwoFinger \/ ~far THEN 0 ELSE 1])]

\* late: more than 250 ms after the first finger.
TouchStart(g, id, late) ==
    LET more == [g EXCEPT !.tracked = Append(@, [id |-> id, active |-> TRUE, at |-> "near"])]
    IN  IF HasDetectedGesture(g) \/ g.state = {}
        THEN [g EXCEPT !.ignored = @ \union {id}]
        ELSE IF (late /\ g.tracked # <<>>) \/ g.waitingRelease
        THEN [g EXCEPT !.state = {}, !.ignored = @ \union {id}]
        ELSE CASE Len(more.tracked) = 1 -> [more EXCEPT !.longpress = TRUE]
               [] Len(more.tracked) = 2 -> [more EXCEPT !.longpress = FALSE,
                                                        !.state = @ \ {"onetap", "drag", "longpress"}]
               [] Len(more.tracked) = 3 -> [more EXCEPT !.state = @ \ ({"twotap"} \union TwoFinger)]
               [] OTHER -> [more EXCEPT !.state = {}]

\* A finger went far: no tap and no long press.  With two fingers it takes both to tell a
\* pinch from a drag, or a timer.
Narrow(g, i) ==
    LET n == Len(g.tracked)
        left == g.state \ (Taps \union {"longpress"} \union (IF n # 1 THEN {"drag"} ELSE {})
                             \union (IF n # 2 THEN TwoFinger ELSE {}))
        still == [g EXCEPT !.state = left, !.longpress = FALSE]
        other == g.tracked[IF n = 2 THEN 3 - i ELSE i].at
    IN  IF n # 2 THEN still
        ELSE IF other = "near" THEN [still EXCEPT !.twoTouch = IF @ = "none" THEN "armed" ELSE @]
        ELSE [still EXCEPT !.twoTouch = "none",
                           !.state = @ \ {IF other # g.tracked[i].at THEN "twodrag" ELSE "pinch"}]

TouchMove(g, id, at) ==
    IF Places(g, id) = {} THEN g
    ELSE LET i == CHOOSE j \in Places(g, id) : TRUE
             moved == [g EXCEPT !.tracked[i].at = at]
             narrowed == Narrow(moved, i)
         IN  IF HasDetectedGesture(moved) THEN PushEvent(moved, "move")
             ELSE IF at = "near" THEN moved
             ELSE IF HasDetectedGesture(narrowed)
             THEN PushEvent(PushEvent(narrowed, "start"), "move")
             ELSE narrowed

\* The gesture is over: the fingers still down are ignored until they are lifted, and then
\* everything starts again.
Cleanup(g, id) ==
    LET ignored == (g.ignored \union {g.tracked[i].id : i \in {j \in DOMAIN g.tracked : g.tracked[j].active}})
                      \ {id}
    IN  IF ignored = {}
        THEN [g EXCEPT !.tracked = <<>>, !.ignored = {}, !.state = AllGestures, !.waitingRelease = FALSE]
        ELSE [g EXCEPT !.tracked = <<>>, !.ignored = ignored, !.state = {}]

\* Mutant of IgnoredEnd: the last finger lifted starts nothing again.
IgnoredEndOnly(g, id) == [g EXCEPT !.ignored = @ \ {id}]

IgnoredEnd(g, id) ==
    LET rest == g.ignored \ {id}
    IN  IF rest = {} /\ g.tracked = <<>>
        THEN [g EXCEPT !.ignored = rest, !.state = AllGestures, !.waitingRelease = FALSE]
        ELSE [g EXCEPT !.ignored = rest]

\* Until a gesture is detected, a lifted finger leaves only taps, with as many fingers as
\* there are; the timer that would tell a pinch from a drag ends all hope.
Lifting(g) ==
    LET cut == IF g.twoTouch # "none" THEN [g EXCEPT !.twoTouch = "none", !.state = {}] ELSE g
        taps == cut.state \ ({"drag", "longpress"} \union TwoFinger)
        fitting == IF g.waitingRelease THEN taps
                   ELSE CASE Len(g.tracked) = 1 -> taps \ {"twotap", "threetap"}
                          [] Len(g.tracked) = 2 -> taps \ {"onetap", "threetap"}
                          [] OTHER -> taps
    IN  IF HasDetectedGesture(g) THEN g
        ELSE [cut EXCEPT !.state = fitting, !.longpress = FALSE, !.waitingRelease = TRUE]

\* A finger that is lifted is remembered until all are.
Lifted(tracked, id) == [i \in DOMAIN tracked |-> [tracked[i] EXCEPT !.active = @ /\ tracked[i].id # id]]

\* slow: the fingers were not lifted together, or a press was too long for a tap.
TouchEnd(g, id, slow) ==
    LET lifted == Lifting(g)
        judged == IF ~lifted.waitingRelease THEN lifted
                  ELSE [lifted EXCEPT !.state = IF slow THEN {} ELSE @,
                           !.tracked = Lifted(@, id)]
        begun == IF judged.waitingRelease /\ HasDetectedGesture(judged)
                 THEN PushEvent(judged, "start") ELSE judged
    IN  IF id \in g.ignored THEN IgnoredEnd(g, id)
        ELSE IF judged.waitingRelease /\ ~HasDetectedGesture(judged) /\ judged.state # {}
        THEN judged
        ELSE Cleanup(IF HasDetectedGesture(begun) THEN PushEvent(begun, "end") ELSE begun, id)

LongpressTimeout(g) == PushEvent([g EXCEPT !.longpress = FALSE, !.state = {"longpress"}], "start")

\* apart: the distance between the fingers changed more than their position.  The
\* identifier of the timer is not cleared when it fires, and it still counts as running.
TwoTouchTimeout(g, apart) ==
    PushEvent(PushEvent([g EXCEPT !.twoTouch = "fired", !.state = {IF apart THEN "pinch" ELSE "twodrag"}],
                        "start"), "move")
=============================================================================
