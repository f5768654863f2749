----------------------------- MODULE RfbUpdates -----------------------------
(***************************************************************************)
(* Framebuffer updates of a connected RFB object: the parts of an update   *)
(* as they arrive, the wait for the screen to catch up between updates,    *)
(* the H.264 contexts whose frames come back later, the sizes of the       *)
(* screen, the window and the remote desktop, and the requests that keep   *)
(* the server sending.  The server is external.                            *)
(***************************************************************************)
EXTENDS Display

CONSTANTS
    Widths,         \* widths of the remote desktop and of the window
    MaxUpdates,     \* bound on updates
    Rects,          \* the rectangles a server may put in each update
    RectCounts,     \* the numbers of rectangles an update may announce
    MaxMoves        \* bound on the user's actions

\* The rectangles a server may send, with what the client decides by.
Rectangles ==
    [type : {"fill", "img"}, x : Nat \ {0}, colour : Nat]
      \union [type : {"copy"}, x : Nat \ {0}, from : Nat]
      \union [type : {"blit"}, x : Nat \ {0}, colour : Nat, isView : BOOLEAN]
      \union [type : {"h264"}, x : Nat \ {0}, colour : Nat, slices : Nat,
              key : BOOLEAN, refused : BOOLEAN, reset : {"none", "one", "all"}]
      \union [type : {"size"}, w : Widths]
      \union [type : {"extsize"}, mine : BOOLEAN, ok : BOOLEAN, w : Widths]
      \union [type : {"last"}]

ASSUME UpdatesAssumption ==
    /\ Widths \subseteq Nat \ {0} /\ Widths # {}
    /\ RectCounts \subseteq Nat /\ DOMAIN Rects = 1..MaxUpdates
    /\ MaxUpdates \in Nat /\ MaxMoves \in Nat
    /\ \A i \in DOMAIN Rects : Rects[i] \subseteq Rectangles

VARIABLES
    c,      \* the RFB object, with its display
    srv     \* the server: what it was asked, and the rectangles it still owes

vars == <<c, srv>>

FbuInit ==
    /\ \E w \in Widths, win \in Widths, session \in BOOLEAN, clip \in BOOLEAN :
           c = [disp |-> IF clip THEN ViewportChangeSize(SetClipViewport(Resize(NewDisplay, w), TRUE), win)
                         ELSE Resize(NewDisplay, w),
                rects |-> 0, flushing |-> FALSE, cont |-> FALSE,
                contKnown |-> FALSE, inbox |-> <<>>, contexts |-> {}, payloads |-> 0,
                clip |-> clip, session |-> session, supports |-> FALSE, pendingResize |-> FALSE,
                recent |-> FALSE, timer |-> FALSE, raf |-> FALSE, win |-> win, expected |-> win,
                requests |-> 1, resizes |-> 0,
                ideal |-> Blanks(w), spoiled |-> FALSE, lost |-> FALSE, failed |-> FALSE]
    /\ srv = [left |-> 0, updates |-> 0, moves |-> 0]

-----------------------------------------------------------------------------
(* Sizes *)

\* The clipping of the display follows the setting and the size of the window.
ClipTo(d, on, width) == IF on THEN ViewportChangeSize(d, width) ELSE d

UpdateClip(o) ==
    LET same == o.disp.clip = o.clip
    IN  [o EXCEPT !.disp = ClipTo(IF same THEN @ ELSE SetClipViewport(@, o.clip), o.clip, o.win),
                  !.expected = IF same THEN @ ELSE o.win]

\* Asks the server for the size of the window: one request at a time, and one per 100 ms.
RequestRemoteResize(o) ==
    IF ~o.session \/ ~o.supports \/ o.pendingResize THEN o
    ELSE IF o.recent THEN [o EXCEPT !.timer = TRUE]
    ELSE IF o.win = FbWidth(o.disp) THEN [o EXCEPT !.timer = FALSE]
    ELSE [o EXCEPT !.timer = FALSE, !.pendingResize = TRUE, !.recent = TRUE, !.resizes = @ + 1]

\* ideal is what the server drew, at the size it gave.
ResizeFb(o, width) ==
    LET sized == [o EXCEPT !.disp = Resize(@, width), !.ideal = Resized(@, width),
                           !.spoiled = @ \/ Pending(o.disp)]
    IN  [UpdateClip(sized) EXCEPT !.expected = o.win]

\* r.mine: an answer to this client's request; r.ok: the server did as asked.  The size of
\* the window may have changed meanwhile, so that an answer makes another request, as the
\* first message of its kind does; of two requests in a row the second does nothing.
HandleExtendedDesktopSize(o, r) ==
    LET known == [o EXCEPT !.supports = TRUE, !.pendingResize = @ /\ ~r.mine]
        sized == IF r.mine /\ ~r.ok THEN known ELSE ResizeFb(known, r.w)
    IN  IF ~o.supports \/ (r.mine /\ r.ok) THEN RequestRemoteResize(sized) ELSE sized

-----------------------------------------------------------------------------
(* H.264 *)

Context(x) == [x |-> x, live |-> TRUE, configured |-> FALSE, pending |-> <<>>, coder |-> <<>>]

\* A rectangle may drop the context of its column, or all; their decoders keep what they
\* were given.
ResetContext(contexts, r) ==
    {[k EXCEPT !.live = @ /\ r.reset # "all" /\ (r.reset = "one" => k.x # r.x)] : k \in contexts}

\* The context of column x, a new one unless one is kept.
GetContext(contexts, x) ==
    LET kept == {k \in contexts : k.live /\ k.x = x}
    IN  IF kept = {} THEN Context(x) ELSE CHOOSE k \in kept : TRUE

\* The slices of a payload go to the decoder, which needs a key frame first; the frame of
\* the last is kept.  A chunk the decoder refuses leaves its pending frame behind.
Decode(k, r, payload) ==
    LET frames == [i \in 1..r.slices |-> [payload |-> payload, keep |-> i = r.slices]]
    IN  IF ~k.configured /\ ~r.key THEN k
        ELSE [k EXCEPT !.configured = TRUE, !.pending = @ \o frames,
                       !.coder = IF r.refused THEN @ ELSE @ \o [i \in 1..r.slices |-> payload]]

\* The context k decodes r.
DecodeWith(o, r, k) ==
    LET used == [o EXCEPT !.payloads = @ + 1, !.failed = @ \/ r.refused,
                          !.contexts = (@ \ {k}) \union {Decode(k, r, o.payloads + 1)}]
    IN  IF ~k.configured /\ ~r.key THEN used
        ELSE [used EXCEPT !.disp = VideoFrame(@, r.x, r.colour, o.payloads + 1),
                          !.ideal = Painted(@, [type |-> "frame", x |-> r.x, colour |-> r.colour])]

\* A rectangle without a payload only drops contexts.
H264Rect(o, r) ==
    LET kept == ResetContext(o.contexts, r)
        reset == [o EXCEPT !.contexts = kept]
    IN  IF r.slices = 0 THEN reset ELSE DecodeWith(reset, r, GetContext(kept, r.x))

-----------------------------------------------------------------------------
(* Messages *)

\* A context that was dropped and has nothing to give back is garbage; a live one that
\* was never used is as good as none.
CollectContexts(o) ==
    [o EXCEPT !.contexts =
        {k \in @ : k.coder # <<>> \/ (k.live /\ (k.configured \/ k.pending # <<>>))}]

\* The server drew r; the decoder has told the display, which is now d.
Drew(o, d, r) == [o EXCEPT !.disp = d, !.ideal = Painted(@, r)]

HandleRect(o, r) ==
    CASE r.type = "fill" -> Drew(o, FillRect(o.disp, r.x, r.colour), r)
      [] r.type = "copy" -> Drew(o, CopyImage(o.disp, r.from, r.x), r)
      [] r.type = "blit" -> [Drew(o, BlitImage(o.disp, r.x, r.colour, r.isView), r)
                                EXCEPT !.spoiled = @ \/ (r.isView /\ Pending(o.disp))]
      [] r.type = "img" -> Drew(o, ImageRect(o.disp, r.x, r.colour), r)
      [] r.type = "h264" -> H264Rect(o, r)
      [] r.type = "size" -> ResizeFb(o, r.w)
      [] r.type = "extsize" -> HandleExtendedDesktopSize(o, r)
      [] r.type = "last" -> [o EXCEPT !.rects = 1]

\* The update is complete: it is shown, and the next one asked for.
FinishUpdate(o) ==
    [o EXCEPT !.disp = Flip(@), !.requests = IF o.cont THEN @ ELSE @ + 1]

\* Mutant of FramebufferUpdate: an update without rectangles asks for no other.
FramebufferUpdateForgetful(o, n) ==
    LET told == [o EXCEPT !.rects = n]
    IN  IF Pending(o.disp)
        THEN [told EXCEPT !.flushing = TRUE, !.disp = Flush(@), !.lost = @ \/ n = 0]
        ELSE told

\* The header of an update: the previous one must be on the screen before it is read on.
\* An update without rectangles that had to wait is never finished.
FramebufferUpdate(o, n) ==
    LET told == [o EXCEPT !.rects = n]
    IN  IF Pending(o.disp)
        THEN [told EXCEPT !.flushing = TRUE, !.disp = Flush(@), !.lost = @ \/ n = 0]
        ELSE IF n = 0 THEN FinishUpdate(told) ELSE told

\* The rectangle o.rects counts is handled.
RectDone(o) ==
    IF o.rects = 1 THEN FinishUpdate([o EXCEPT !.rects = 0]) ELSE [o EXCEPT !.rects = @ - 1]

UpdateRect(o, r) == RectDone(HandleRect(o, r))

\* The first such message is the answer to SetEncodings and turns them on, the next ones off.
EndOfContinuousUpdates(o) == [o EXCEPT !.contKnown = TRUE, !.cont = ~o.contKnown]

NormalMsg(o, part) ==
    LET rest == [o EXCEPT !.inbox = Tail(@)]
    IN  CASE part.part = "header" -> FramebufferUpdate(rest, part.rects)
          [] part.part = "rect" -> UpdateRect(rest, part.rect)
          [] part.part = "endcont" -> EndOfContinuousUpdates(rest)

\* Handles what has arrived until nothing is left or the screen must catch up.
Turn(o, part) == IF o.flushing THEN o ELSE NormalMsg(o, part)

HandleMessage(o) == FoldLeft(Turn, o, o.inbox)

\* flush() resolves in the turn that empties the queue, and handling goes on.
Settle(o) ==
    CollectContexts(
        IF o.flushing /\ ~o.disp.flushing THEN HandleMessage([o EXCEPT !.flushing = FALSE]) ELSE o)

-----------------------------------------------------------------------------
(* The server *)

Receive(o, part) == CollectContexts(HandleMessage([o EXCEPT !.inbox = Append(@, part)]))

SendHeader ==
    /\ srv.left = 0 /\ srv.updates < MaxUpdates
    /\ c.cont \/ c.requests > 0
    /\ \E n \in RectCounts :
        /\ c' = Receive([c EXCEPT !.requests = IF @ > 0 THEN @ - 1 ELSE @],
                        [part |-> "header", rects |-> n])
        /\ srv' = [srv EXCEPT !.left = n, !.updates = @ + 1]

SendRect ==
    /\ srv.left > 0
    /\ \E r \in Rects[srv.updates] :
        LET answers == r.type = "extsize" /\ r.mine
        IN  /\ answers => c.resizes > 0
            /\ c' = Receive([c EXCEPT !.resizes = IF answers THEN @ - 1 ELSE @],
                            [part |-> "rect", rect |-> r])
            /\ srv' = [srv EXCEPT !.left = IF r.type = "last" THEN 0 ELSE @ - 1]

SendEndOfContinuousUpdates ==
    /\ srv.left = 0 /\ ~c.contKnown
    /\ \A i \in DOMAIN c.inbox : c.inbox[i].part # "endcont"
    /\ c' = Receive(c, [part |-> "endcont"])
    /\ UNCHANGED srv

-----------------------------------------------------------------------------
(* The browser *)

\* An image that waits loads, or does not.
ImageSettles ==
    \E i \in DOMAIN c.disp.queue, outcome \in {"ready", "broken"} :
        /\ c.disp.queue[i].type = "img" /\ c.disp.queue[i].state = "loading"
        /\ c' = Settle([c EXCEPT !.disp = Settled(@, i, outcome), !.failed = @ \/ outcome = "broken"])
        /\ UNCHANGED srv

\* Mutant of HandleFrame: a frame that is not kept stays pending.
HandleFrameKeeping(o, k) ==
    LET frame == Head(k.pending)
        after == [k EXCEPT !.coder = Tail(@), !.pending = IF frame.keep THEN Tail(@) ELSE @]
        popped == [o EXCEPT !.contexts = (@ \ {k}) \union {after}]
        places == {i \in DOMAIN o.disp.queue :
                       /\ o.disp.queue[i].type = "frame"
                       /\ o.disp.queue[i].frame = frame.payload}
    IN  IF frame.payload # Head(k.coder) \/ ~frame.keep THEN popped
        ELSE [popped EXCEPT !.disp = FoldSet(LAMBDA i, d : Settled(d, i, "ready"), @, places)]

\* A frame comes back: it belongs to the oldest pending one, or the callback throws.
HandleFrame(o, k) ==
    LET frame == Head(k.pending)
        after == [k EXCEPT !.coder = Tail(@), !.pending = Tail(@)]
        popped == [o EXCEPT !.contexts = (@ \ {k}) \union {after}]
        places == {i \in DOMAIN o.disp.queue :
                       /\ o.disp.queue[i].type = "frame"
                       /\ o.disp.queue[i].frame = frame.payload}
    IN  IF frame.payload # Head(k.coder) \/ ~frame.keep THEN popped
        ELSE [popped EXCEPT !.disp = FoldSet(LAMBDA i, d : Settled(d, i, "ready"), @, places)]

DecoderOutput ==
    \E k \in c.contexts :
        /\ k.coder # <<>>
        /\ c' = Settle(HandleFrame(c, k))
        /\ UNCHANGED srv

\* The decoder gives up what it was given; the next key frame configures another.
DecoderFails ==
    \E k \in c.contexts :
        /\ k.coder # <<>>
        /\ LET closed == [k EXCEPT !.coder = <<>>, !.configured = FALSE]
           IN  c' = CollectContexts([c EXCEPT !.contexts = (@ \ {k}) \union {closed}, !.failed = TRUE])
        /\ UNCHANGED srv

\* The window has a new size: the viewport follows at the next frame.
WindowResizes(w) ==
    /\ c' = LET sized == [c EXCEPT !.win = w]
            IN  IF w = c.expected THEN sized
                ELSE RequestRemoteResize([sized EXCEPT !.raf = TRUE])

AnimationFrame ==
    /\ c.raf
    /\ c' = Settle([UpdateClip(c) EXCEPT !.raf = FALSE, !.expected = c.win])
    /\ UNCHANGED srv

\* 100 ms after the last request; the timer is set for that time and may be early.
ResizeTimer ==
    /\ c.timer
    /\ \E early \in BOOLEAN :
        c' = RequestRemoteResize([c EXCEPT !.timer = FALSE, !.recent = early])
    /\ UNCHANGED srv

ResizeLapse ==
    /\ c.recent
    /\ c' = [c EXCEPT !.recent = FALSE]
    /\ UNCHANGED srv

-----------------------------------------------------------------------------
(* The user *)

SetClipSetting(on) == c' = UpdateClip([c EXCEPT !.clip = on])

SetResizeSession(on) ==
    c' = IF on THEN RequestRemoteResize([c EXCEPT !.session = on])
         ELSE [c EXCEPT !.session = on]

DragViewport(delta) == c' = [c EXCEPT !.disp = ViewportChangePos(@, delta)]

User ==
    /\ srv.moves < MaxMoves
    /\ \/ \E w \in Widths \ {c.win} : WindowResizes(w)
       \/ SetClipSetting(~c.clip)
       \/ SetResizeSession(~c.session)
       \/ c.disp.clip /\ \E delta \in {-1, 1} : DragViewport(delta)
    /\ srv' = [srv EXCEPT !.moves = @ + 1]

Browser == ImageSettles \/ DecoderOutput

Next ==
    \/ SendHeader \/ SendRect \/ SendEndOfContinuousUpdates
    \/ Browser \/ DecoderFails
    \/ AnimationFrame \/ ResizeTimer \/ ResizeLapse
    \/ User

Spec == FbuInit /\ [][Next]_vars

-----------------------------------------------------------------------------
(* Properties *)

\* The viewport lies inside the buffer, the canvas has its size, nothing is left in the
\* queue that could be drawn, and the object waits only while the display does.
FbuTypeOK ==
    /\ c.disp.x \in 0..(FbWidth(c.disp) - c.disp.w) /\ Len(c.disp.shown) = c.disp.w
    /\ Pending(c.disp) => ~Ready(Head(c.disp.queue))
    /\ c.flushing = c.disp.flushing /\ (c.flushing => Pending(c.disp))
    /\ c.rects \in Nat /\ c.requests \in 0..1

\* Whatever waits in the queue, drawing it gives what the server drew in the order it drew
\* it: an operation never overtakes an image or a frame that is still on its way
\* (Display._renderQ).  The two cases the code gets wrong set spoiled, see DrawnAsSent.
DrawnInOrder ==
    ~c.spoiled => FoldLeft(Perform, c.disp, c.disp.queue).back = c.ideal

\* The same without exception: "queue drawing actions for in-oder rendering" (display.js:17).
DrawnAsSent == FoldLeft(Perform, c.disp, c.disp.queue).back = c.ideal

\* A pixel in view that is out of date lies in the damage, which the next flip shows,
\* through every resize, drag and change of the viewport between drawing and flip.
StaleIsDamaged ==
    \A i \in 1..c.disp.w :
        LET p == c.disp.x + i
        IN  c.disp.back[p] \in {Blank, c.disp.shown[i]}
              \/ (c.disp.damage.left < p /\ p <= c.disp.damage.right)

\* When every part of every update has been handled the server has been asked for the
\* next one; otherwise the console would stay frozen (_normalMsg and the resumption after
\* flush()).  An empty update that had to wait is the case the code loses.  And "Rate limit
\* to one pending resize at a time" (rfb.js:803), as the server sees it.
UpdateAsked ==
    /\ c.rects = 0 /\ c.inbox = <<>> /\ ~c.flushing /\ ~c.cont /\ ~c.lost => c.requests = 1
    /\ c.resizes <= 1

\* What arrived waits for the display only, and what the display waits for is on its way,
\* as long as no image and no decoder failed: an image that loads, or a frame the decoder
\* has, whose pending entry will be the oldest when it comes (H264Context._pendingFrames).
\* Then the waiting ends (Display.flush) and the messages behind it are handled.
WaitEnds ==
    /\ c.inbox # <<>> => c.flushing
    /\ Pending(c.disp) /\ ~c.failed =>
        LET a == Head(c.disp.queue)
        IN  \/ a.type = "img" /\ a.state = "loading"
            \/ \E k \in c.contexts : \E i \in DOMAIN k.coder :
                  /\ a.type = "frame" /\ k.pending[i] = [payload |-> a.frame, keep |-> TRUE]
                  /\ \A j \in 1..i : k.coder[j] = k.pending[j].payload
=============================================================================
