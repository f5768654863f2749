------------------------------ MODULE Display ------------------------------
(***************************************************************************)
(* The screen of the VNC console (core/display.js): the hidden buffer the  *)
(* decoders draw on, the visible canvas that shows a viewport of it, the    *)
(* bounds of the damage not yet shown, and the queue that keeps drawing in *)
(* order when an image or a video frame is not ready.  Coordinates keep    *)
(* one axis: the other one is handled by the same statements.  The display *)
(* is a record; each method is an operator from the record to the record   *)
(* it leaves.                                                              *)
(***************************************************************************)
EXTENDS Integers, Sequences, SequencesExt, FiniteSetsExt

Blank == 0              \* a transparent pixel
Foreign == 9            \* a pixel read from the wrong bytes
NoDamage == [left |-> 65535, right |-> 0]

Blanks(w) == [i \in 1..w |-> Blank]

\* The display of a new connection.  The canvas of the page starts with a width of its own.
NewDisplay ==
    [back |-> <<>>, shown |-> <<>>, x |-> 0, w |-> 0, clip |-> FALSE,
     damage |-> NoDamage, queue |-> <<>>, flushing |-> FALSE]

Pending(d) == d.queue # <<>>
FbWidth(d) == Len(d.back)

Damage(d, x, w) ==
    [d EXCEPT !.damage = [left |-> Min({@.left, x}), right |-> Max({@.right, x + w})]]

\* Drawing a transparent pixel leaves what was there.
Over(new, old) == IF new = Blank THEN old ELSE new

-----------------------------------------------------------------------------
(* Drawing on the hidden buffer.  An operation covers the column x. *)

\* What operation a does to the pixels of a buffer.
Painted(pixels, a) ==
    IF a.x \notin DOMAIN pixels THEN pixels
    ELSE CASE a.type = "copy" ->
                IF a.from \in DOMAIN pixels
                THEN [pixels EXCEPT ![a.x] = Over(pixels[a.from], @)]
                ELSE pixels
           [] OTHER -> [pixels EXCEPT ![a.x] = a.colour]

\* The visible canvas takes the damaged part of the viewport.
Show(d) ==
    [d EXCEPT !.damage = NoDamage,
              !.shown = [i \in 1..d.w |->
                  LET p == d.x + i
                  IN  IF p \in DOMAIN d.back /\ d.damage.left < p /\ p <= d.damage.right
                      THEN Over(d.back[p], d.shown[i]) ELSE d.shown[i]]]

Perform(d, a) ==
    IF a.type = "flip" THEN Show(d)
    ELSE Damage([d EXCEPT !.back = Painted(@, a)], a.x - 1, 1)

-----------------------------------------------------------------------------
(* The queue *)

\* An image or a frame is drawn once it is ready; one that cannot be never is.
Ready(a) == a.type \notin {"img", "frame"} \/ a.state = "ready"

\* How many operations at the head of a queue are ready.
ReadyCount(queue) ==
    Max({n \in 0..Len(queue) : \A i \in 1..n : Ready(queue[i])})

\* Performs the first n in order, and answers flush() when the queue is empty.
PerformFirst(d, n) ==
    [FoldLeft(Perform, d, SubSeq(d.queue, 1, n))
        EXCEPT !.queue = SubSeq(@, n + 1, Len(@)), !.flushing = @ /\ n < Len(d.queue)]

ScanRenderQ(d) == PerformFirst(d, ReadyCount(d.queue))

RenderQPush(d, a) ==
    LET more == [d EXCEPT !.queue = Append(@, a)]
    IN  IF Len(more.queue) = 1 THEN ScanRenderQ(more) ELSE more

\* An operation is queued behind those that wait, and is performed at once when none does.
Draw(d, a) == IF Pending(d) THEN RenderQPush(d, a) ELSE Perform(d, a)

Flip(d) == Draw(d, [type |-> "flip"])

FillRect(d, x, colour) == Draw(d, [type |-> "fill", x |-> x, colour |-> colour])

\* Mutant of CopyImage: the copy does not wait for what is queued.
CopyImageNow(d, from, x) == Perform(d, [type |-> "copy", x |-> x, from |-> from])

CopyImage(d, from, x) == Draw(d, [type |-> "copy", x |-> x, from |-> from])

\* A blit that waits copies its pixels from the start of the array's buffer: the pixels of
\* a view into the middle of a buffer, as RawDecoder passes, are others.
BlitImage(d, x, colour, isView) ==
    Draw(d, [type |-> "blit", x |-> x,
             colour |-> IF Pending(d) /\ isView THEN Foreign ELSE colour])

ImageRect(d, x, colour) ==
    RenderQPush(d, [type |-> "img", x |-> x, colour |-> colour, state |-> "loading"])

VideoFrame(d, x, colour, frame) ==
    RenderQPush(d, [type |-> "frame", x |-> x, colour |-> colour, frame |-> frame, state |-> "loading"])

\* The queued image or frame at place i ends up ready, or broken: an image that does not
\* load or has other dimensions, or a frame that is never decoded.  Only the one at the
\* head is listened to, and only its success is.
Settled(d, i, outcome) ==
    LET now == [d EXCEPT !.queue[i].state = outcome]
    IN  IF i = 1 /\ outcome = "ready" THEN ScanRenderQ(now) ELSE now

\* A caller waits for the queue to be empty.
Flush(d) == [d EXCEPT !.flushing = Pending(d)]

-----------------------------------------------------------------------------
(* The viewport *)

\* What a move by delta comes to: first not below 0, then not beyond the buffer.  Without
\* clipping the viewport goes back to the start.
Bounded(d, delta) ==
    Min({Max({IF d.clip THEN delta ELSE -d.w, -d.x}), FbWidth(d) - d.w - d.x})

\* Mutant of Moved: the part that comes into view is not damaged.
MovedBare(d, move) == IF move = 0 THEN d ELSE Flip([d EXCEPT !.x = @ + move])

\* What comes into view is shown.
Moved(d, move) ==
    IF move = 0 THEN d ELSE Flip(Damage([d EXCEPT !.x = @ + move], d.x + move, d.w))

ViewportChangePos(d, delta) == Moved(d, Bounded(d, delta))

\* Changing the width of the canvas clears it.
Redrawn(d) == Flip(Damage(d, d.x, d.w))

ViewportChangeSize(d, width) ==
    LET w == Min({IF d.clip THEN width ELSE FbWidth(d), FbWidth(d)})
    IN  IF w = d.w THEN d
        ELSE Redrawn(ViewportChangePos([d EXCEPT !.w = w, !.shown = Blanks(w)], 0))

SetClipViewport(d, on) ==
    ViewportChangePos(ViewportChangeSize([d EXCEPT !.clip = on], d.w), 0)

\* The buffer keeps the pixels that fit.  Nothing waits for the queue.
Resized(pixels, width) ==
    [i \in 1..width |-> IF i \in DOMAIN pixels THEN pixels[i] ELSE Blank]

Resize(d, width) ==
    ViewportChangePos(ViewportChangeSize([d EXCEPT !.back = Resized(@, width)], d.w), 0)
=============================================================================
