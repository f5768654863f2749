--------------------------- MODULE RfbInputProofs ---------------------------
(***************************************************************************)
(* Proofs about RfbInput: no key and no button is left held by the server, *)
(* the pointer catches up, and the recognition of gestures never mixes two *)
(* of them, for any number of fingers and of changes of mode.              *)
(*                                                                         *)
(* The invariant has three parts.  FingerInv: each finger that is down is  *)
(* followed or ignored, and the gestures still possible go with how many   *)
(* came down (Ready); so what a handler pushes is one event, or a start    *)
(* and what follows it (Tells).  ButtonInv: the server holds no button but *)
(* those of the mouse (MouseHolds) or of the gesture (TouchHolds), and a   *)
(* position that differs from the wanted one waits for the timer           *)
(* (CaughtUp).  KeyInv: the keys the server holds are those of the list    *)
(* (Believed).  The handlers of RfbInput are folds over the events: those  *)
(* of the gestures have two at most; for the keys ToldMore says what one   *)
(* more call does, by well-founded induction on the length.                *)
(***************************************************************************)
EXTENDS RfbInput, FiniteSetTheorems, SequenceTheorems, WellFoundedInduction, TLAPS

\* What the RFB object keeps of the pointer, and what is known of the server.
PtrFields == {"mask", "pos", "timer", "recent", "drag", "dragging", "moved"}
SrvFields == {"keys", "mask", "pos", "want", "kept", "spared", "blind"}

\* A record of the pointer and the server.
Shaped(b) == DOMAIN b = {"ptr", "srv"} /\ DOMAIN b.ptr = PtrFields /\ DOMAIN b.srv = SrvFields

\* A move that waits is the last position the server should hear of; otherwise it has it.
CaughtUp(b) == IF b.ptr.timer THEN b.srv.want = b.ptr.pos ELSE b.srv.pos = b.srv.want

\* What sending the pointer leaves alone.
Aside(b, c) ==
    /\ c.ptr.drag = b.ptr.drag /\ c.ptr.dragging = b.ptr.dragging /\ c.ptr.moved = b.ptr.moved
    /\ c.srv.blind = b.srv.blind /\ c.srv.keys = b.srv.keys /\ c.srv.kept = b.srv.kept

\* The server was not told, or was told the buttons of mask.
Unsent(b, c) == c.srv.mask = b.srv.mask /\ c.srv.spared = b.srv.spared
Sent(b, c, mask) ==
    /\ ~rfb.viewOnly
    /\ c.srv.mask \in {mask, mask \ Extended}
    /\ c.srv.spared = b.srv.spared \intersect c.srv.mask

\* SendMouse tells the server the buttons and the position, unless view-only mode drops it.
LEMMA Sending ==
  ASSUME NEW b, Shaped(b), NEW x, NEW mask
  PROVE LET c == SendMouse(b, x, mask)
        IN  /\ Shaped(c) /\ c.ptr = b.ptr /\ Aside(b, c)
            /\ rfb.viewOnly => Unsent(b, c) /\ c.srv.pos = b.srv.pos /\ c.srv.want = b.srv.pos
            /\ ~rfb.viewOnly => Sent(b, c, mask) /\ c.srv.pos = x /\ c.srv.want = b.srv.want
  BY DEF Shaped, PtrFields, SrvFields, SendMouse, Aside, Unsent, Sent

\* HandleMouseMove leaves the buttons of the pointer alone, and sends no others.
LEMMA Moving ==
  ASSUME NEW b, Shaped(b), CaughtUp(b), NEW x
  PROVE LET c == HandleMouseMove(b, x)
        IN  /\ Shaped(c) /\ CaughtUp(c) /\ c.ptr.mask = b.ptr.mask /\ Aside(b, c)
            /\ Unsent(b, c) \/ Sent(b, c, b.ptr.mask)
  <1> DEFINE at == Wanted([b EXCEPT !.ptr.pos = x], x)
             old == [at EXCEPT !.ptr.recent = TRUE]
             c == HandleMouseMove(b, x)
  <1>1. /\ Shaped(at) /\ at.ptr.mask = b.ptr.mask /\ Aside(b, at) /\ Unsent(b, at)
        /\ at.ptr.pos = x /\ at.srv.want = x /\ at.ptr.timer = b.ptr.timer
        /\ at.srv.spared = b.srv.spared
    BY DEF Shaped, PtrFields, SrvFields, Aside, Unsent, Wanted
  <1>2. CASE b.ptr.timer
    <2>1. c = at
      BY <1>2 DEF HandleMouseMove
    <2> QED BY <1>1, <1>2, <2>1 DEF CaughtUp
  <1>3. CASE ~b.ptr.timer /\ b.ptr.recent
    <2> HIDE DEF at
    <2>1. c = [at EXCEPT !.ptr.timer = TRUE]
      BY <1>3 DEF HandleMouseMove, at
    <2> QED BY <1>1, <2>1 DEF CaughtUp, Shaped, PtrFields, SrvFields, Aside, Unsent
  <1>4. CASE ~b.ptr.timer /\ ~b.ptr.recent
    <2> HIDE DEF at
    <2>1. /\ Shaped(old) /\ old.ptr.mask = b.ptr.mask /\ Aside(b, old) /\ Unsent(b, old)
          /\ old.srv.want = x /\ old.ptr.timer = b.ptr.timer
      BY <1>1 DEF Shaped, PtrFields, SrvFields, Aside, Unsent
    <2>2. c = SendMouse(old, x, at.ptr.mask)
      BY <1>4 DEF HandleMouseMove, at
    <2> HIDE DEF old
    <2>3. /\ Shaped(c) /\ c.ptr = old.ptr /\ Aside(old, c)
          /\ rfb.viewOnly => Unsent(old, c) /\ c.srv.want = c.srv.pos
          /\ ~rfb.viewOnly => Sent(old, c, b.ptr.mask) /\ c.srv.pos = x /\ c.srv.want = x
      BY <1>1, <2>1, <2>2, Sending
    <2> HIDE DEF c
    <2>4. Aside(b, c) /\ CaughtUp(c)
      BY <1>4, <2>1, <2>3 DEF Aside, CaughtUp
    <2>5. Unsent(b, c) \/ Sent(b, c, b.ptr.mask)
      BY <2>1, <2>3 DEF Unsent, Sent
    <2> QED BY <2>1, <2>3, <2>4, <2>5 DEF c
  <1> QED BY <1>2, <1>3, <1>4

\* The buttons have become those of mask, and the server knows unless view-only mode drops it.
Pressed(b, c, mask) ==
    /\ Shaped(c) /\ CaughtUp(c) /\ c.ptr.mask = mask /\ Aside(b, c)
    /\ rfb.viewOnly => Unsent(b, c)
    /\ ~rfb.viewOnly => c.srv.mask \in {mask, mask \ Extended} /\ c.srv.spared \subseteq b.srv.spared

\* A move that waits is sent before anything else; nothing waits any more.
LEMMA Flushing ==
  ASSUME NEW b, Shaped(b), NEW x
  PROVE LET c == FlushMouseMoveTimer(b, x)
        IN  /\ Shaped(c) /\ (CaughtUp(b) => CaughtUp(c)) /\ ~c.ptr.timer /\ c.ptr.mask = b.ptr.mask /\ Aside(b, c)
            /\ Unsent(b, c) \/ Sent(b, c, b.ptr.mask)
  <1> DEFINE c == FlushMouseMoveTimer(b, x)
             still == Wanted([b EXCEPT !.ptr.timer = FALSE], x)
  <1>1. CASE b.ptr.timer
    <2>1. c = SendMouse(still, x, b.ptr.mask)
      BY <1>1 DEF FlushMouseMoveTimer
    <2>2. /\ Shaped(still) /\ still.ptr.mask = b.ptr.mask /\ Aside(b, still) /\ Unsent(b, still)
          /\ still.srv.want = x /\ still.ptr.timer = FALSE
      BY DEF Shaped, PtrFields, SrvFields, Aside, Unsent, Wanted
    <2> HIDE DEF still
    <2>3. /\ Shaped(c) /\ c.ptr = still.ptr /\ Aside(still, c)
          /\ rfb.viewOnly => Unsent(still, c) /\ c.srv.want = c.srv.pos
          /\ ~rfb.viewOnly => Sent(still, c, b.ptr.mask) /\ c.srv.pos = x /\ c.srv.want = x
      BY <2>1, <2>2, Sending
    <2> HIDE DEF c
    <2>4. Aside(b, c) /\ CaughtUp(c) /\ ~c.ptr.timer
      BY <2>2, <2>3 DEF Aside, CaughtUp
    <2>5. Unsent(b, c) \/ Sent(b, c, b.ptr.mask)
      BY <2>2, <2>3 DEF Unsent, Sent
    <2> QED BY <2>2, <2>3, <2>4, <2>5 DEF c
  <1>2. CASE ~b.ptr.timer
    BY <1>2 DEF FlushMouseMoveTimer, Aside, Unsent
  <1> QED BY <1>1, <1>2

\* HandleMouseButton makes the buttons what they are, for the server as well.
LEMMA Pressing ==
  ASSUME NEW b, Shaped(b), NEW x, NEW mask
  PROVE Pressed(b, HandleMouseButton(b, x, mask), mask)
  <1> DEFINE f == FlushMouseMoveTimer(b, x)
             d == Wanted([f EXCEPT !.ptr.mask = mask], x)
             c == HandleMouseButton(b, x, mask)
  <1>1. /\ Shaped(f) /\ ~f.ptr.timer /\ Aside(b, f)
        /\ Unsent(b, f) \/ Sent(b, f, b.ptr.mask)
    BY Flushing
  <1>2. c = SendMouse(d, x, mask)
    BY DEF HandleMouseButton
  <1> HIDE DEF f
  <1>3. /\ Shaped(d) /\ d.ptr.mask = mask /\ Aside(f, d) /\ Unsent(f, d) /\ d.srv.want = x
        /\ ~d.ptr.timer
    BY <1>1 DEF Shaped, PtrFields, SrvFields, Aside, Unsent, Wanted
  <1> HIDE DEF d
  <1>4. /\ Shaped(c) /\ c.ptr = d.ptr /\ Aside(d, c)
        /\ rfb.viewOnly => Unsent(d, c) /\ c.srv.want = c.srv.pos
        /\ ~rfb.viewOnly => Sent(d, c, mask) /\ c.srv.pos = x /\ c.srv.want = x
    BY <1>2, <1>3, Sending
  <1> HIDE DEF c
  <1>5. Aside(b, c) /\ CaughtUp(c)
    BY <1>1, <1>3, <1>4 DEF Aside, CaughtUp
  <1>6. rfb.viewOnly => Unsent(b, c)
    BY <1>1, <1>3, <1>4 DEF Unsent, Sent
  <1>7. ~rfb.viewOnly => c.srv.mask \in {mask, mask \ Extended} /\ c.srv.spared \subseteq b.srv.spared
    BY <1>1, <1>3, <1>4 DEF Unsent, Sent
  <1>8. Pressed(b, c, mask)
    BY <1>3, <1>4, <1>5, <1>6, <1>7 DEF Pressed
  <1> QED BY <1>8 DEF c

-----------------------------------------------------------------------------
(* The mouse.                                                                *)

\* While the viewport may be dragged one button waits, and the server holds none.
Waits(b, buttons) ==
    /\ b.srv.mask = {} /\ b.ptr.dragging /\ ~b.ptr.timer
    /\ \A m \in buttons : buttons = {m}

\* With these buttons of the mouse down the server holds no others: none in view-only mode, none
\* while the viewport may be dragged.
MouseHolds(b, buttons) ==
    /\ b.ptr.mask = buttons
    /\ ~b.srv.blind =>
          /\ b.srv.mask \subseteq buttons /\ b.srv.spared = {}
          /\ rfb.viewOnly => b.srv.mask = {}
          /\ b.ptr.drag /\ buttons # {} => Waits(b, buttons)
          /\ b.ptr.dragging => b.ptr.drag /\ buttons # {}

\* What the mouse may do to the pointer and the server.
MouseHandled(b, c, buttons) ==
    /\ Shaped(c) /\ CaughtUp(c) /\ MouseHolds(c, buttons)
    /\ c.srv.keys = b.srv.keys /\ c.srv.kept = b.srv.kept

\* The mouse moves, and the server is told or not.
LEMMA MouseSending ==
  ASSUME NEW b, Shaped(b), NEW buttons, MouseHolds(b, buttons),
         NEW c, Shaped(c), CaughtUp(c), c.ptr.mask = b.ptr.mask, Aside(b, c),
         Unsent(b, c) \/ Sent(b, c, b.ptr.mask),
         b.srv.blind \/ ~(b.ptr.drag /\ buttons # {})
  PROVE MouseHandled(b, c, buttons)
  <1>1. c.ptr.drag = b.ptr.drag /\ c.ptr.dragging = b.ptr.dragging /\ c.srv.blind = b.srv.blind
    BY DEF Aside
  <1>2. Unsent(b, c) => MouseHolds(c, buttons)
    BY <1>1 DEF Unsent, MouseHolds
  <1>3. Sent(b, c, b.ptr.mask) => MouseHolds(c, buttons)
    BY <1>1 DEF Sent, MouseHolds
  <1> QED BY <1>1, <1>2, <1>3 DEF MouseHandled, Aside

\* The buttons become others, and the server is told.
LEMMA MousePressing ==
  ASSUME NEW b, NEW c, NEW after, Pressed(b, c, after), NEW buttons, MouseHolds(b, buttons),
         b.srv.blind \/ (~b.ptr.dragging /\ ~(b.ptr.drag /\ after # {}))
  PROVE MouseHandled(b, c, after)
  <1>1. /\ c.ptr.drag = b.ptr.drag /\ c.ptr.dragging = b.ptr.dragging /\ c.srv.blind = b.srv.blind
        /\ c.srv.keys = b.srv.keys /\ c.srv.kept = b.srv.kept
        /\ Shaped(c) /\ CaughtUp(c) /\ c.ptr.mask = after
    BY DEF Pressed, Aside
  <1>2. rfb.viewOnly => MouseHolds(c, after)
    BY <1>1 DEF Pressed, Unsent, MouseHolds
  <1>3. ~rfb.viewOnly => MouseHolds(c, after)
    BY <1>1 DEF Pressed, MouseHolds
  <1> QED BY <1>1, <1>2, <1>3 DEF MouseHandled

\* After something the code does not expect only the position is still looked after.
LEMMA Blinded ==
  ASSUME NEW b, NEW c, Shaped(c), CaughtUp(c), c.srv.blind, NEW buttons, c.ptr.mask = buttons,
         c.srv.keys = b.srv.keys, c.srv.kept = b.srv.kept
  PROVE MouseHandled(b, c, buttons)
  BY DEF MouseHandled, MouseHolds

\* mousedown and mouseup.
LEMMA Clicked ==
  ASSUME Shaped(Pointer), CaughtUp(Pointer), NEW old, MouseHolds(Pointer, old), NEW buttons,
         NEW down \in BOOLEAN, NEW second \in BOOLEAN, NEW x,
         down => \E m : buttons = old \union {m},
         down => (second <=> ptr.drag /\ old # {}),
         ~down => \E m \in old : buttons = old \ {m},
         ~down => ~second,
         MouseButton(x, buttons, down, second)
  PROVE \E c : Becomes(c) /\ MouseHandled(Pointer, c, buttons)
  <1> DEFINE b == [Pointer EXCEPT !.srv.blind = @ \/ second]
             ended == [b EXCEPT !.ptr.dragging = FALSE]
             f == FlushMouseMoveTimer(b, x)
             held == HandleMouseButton(b, x, buttons)
             drags == [f EXCEPT !.ptr.dragging = TRUE, !.ptr.moved = FALSE, !.ptr.mask = buttons]
             moved == [ended EXCEPT !.ptr.mask = buttons]
             late == HandleMouseButton(SendMouse(ended, x, ptr.mask), x, buttons)
             begins == ptr.drag /\ down /\ ~ptr.dragging
             c == IF ~ptr.drag THEN held ELSE IF begins THEN drags ELSE IF ptr.moved THEN moved ELSE late
  <1>1. Becomes(c)
    BY Zenon DEF MouseButton
  <1>2. /\ Shaped(b) /\ CaughtUp(b) /\ b.ptr = ptr /\ b.srv.mask = srv.mask
        /\ b.srv.spared = srv.spared /\ b.srv.keys = srv.keys /\ b.srv.kept = srv.kept
        /\ (b.srv.blind <=> srv.blind \/ second)
    BY DEF Shaped, PtrFields, SrvFields, CaughtUp, Pointer
  <1> HIDE DEF b
  <1>3. MouseHolds(b, old)
    BY <1>2 DEF MouseHolds, Waits, Pointer
  <1>4. /\ Shaped(ended) /\ CaughtUp(ended) /\ ended.srv = b.srv /\ ended.ptr.drag = b.ptr.drag
        /\ ended.ptr.dragging = FALSE /\ ended.ptr.mask = b.ptr.mask
    BY <1>2 DEF Shaped, PtrFields, SrvFields, CaughtUp
  <1> HIDE DEF ended
  <1>5. ~ptr.drag => MouseHandled(b, c, buttons)
    <2>1. SUFFICES ASSUME ~ptr.drag PROVE MouseHandled(b, c, buttons)
      OBVIOUS
    <2>2. c = held
      BY <2>1
    <2>3. Pressed(b, held, buttons)
      BY <1>2, Pressing
    <2> HIDE DEF c, held
    <2>4. b.srv.blind \/ (~b.ptr.dragging /\ ~(b.ptr.drag /\ buttons # {}))
      BY <1>2, <1>3, <2>1 DEF MouseHolds
    <2> QED BY <1>3, <2>2, <2>3, <2>4, MousePressing
  <1>6. begins => MouseHandled(b, c, buttons)
    <2>1. SUFFICES ASSUME begins PROVE MouseHandled(b, c, buttons)
      OBVIOUS
    <2>2. c = drags
      BY <2>1
    <2>3. /\ Shaped(f) /\ CaughtUp(f) /\ ~f.ptr.timer /\ f.ptr.mask = b.ptr.mask /\ Aside(b, f)
          /\ Unsent(b, f) \/ Sent(b, f, b.ptr.mask)
      BY <1>2, Flushing
    <2> HIDE DEF c, f
    <2>4. /\ Shaped(drags) /\ CaughtUp(drags) /\ ~drags.ptr.timer /\ drags.srv = f.srv
          /\ drags.ptr.dragging = TRUE /\ drags.ptr.mask = buttons /\ drags.ptr.drag = f.ptr.drag
      BY <2>3 DEF Shaped, PtrFields, SrvFields, CaughtUp
    <2> HIDE DEF drags
    <2>5. /\ f.srv.blind = b.srv.blind /\ f.ptr.drag = b.ptr.drag
          /\ f.srv.keys = b.srv.keys /\ f.srv.kept = b.srv.kept
      BY <2>3 DEF Aside
    <2>6. CASE b.srv.blind
      BY <2>2, <2>4, <2>5, <2>6, Blinded
    <2>7. CASE ~b.srv.blind
      <3>1. old = {}
        BY <1>2, <2>1, <2>7
      <3>2. \E m : buttons = {m}
        BY <2>1, <3>1
      <3>3. b.srv.mask = {} /\ b.srv.spared = {} /\ b.ptr.mask = {}
        BY <1>3, <2>7, <3>1 DEF MouseHolds
      <3>4. f.srv.mask = {} /\ f.srv.spared = {}
        BY <2>3, <3>3 DEF Unsent, Sent
      <3>5. MouseHolds(drags, buttons)
        BY <1>2, <2>1, <2>4, <2>5, <3>2, <3>4 DEF MouseHolds, Waits
      <3> QED BY <2>2, <2>4, <2>5, <3>5 DEF MouseHandled
    <2> QED BY <2>6, <2>7
  <1>7. ptr.drag /\ ~begins /\ ~b.srv.blind =>
            /\ buttons = {} /\ b.srv.mask = {} /\ b.srv.spared = {}
    <2>1. SUFFICES ASSUME ptr.drag, ~begins, ~b.srv.blind
                   PROVE buttons = {} /\ b.srv.mask = {} /\ b.srv.spared = {}
      BY Zenon
    <2>2. ~down
      BY <1>2, <1>3, <2>1 DEF MouseHolds
    <2>3. PICK m \in old : buttons = old \ {m}
      BY <2>2
    <2>4. Waits(b, old) /\ b.srv.spared = {}
      BY <1>2, <1>3, <2>1, <2>3 DEF MouseHolds
    <2>5. old = {m}
      BY <2>3, <2>4 DEF Waits
    <2> QED BY <2>3, <2>4, <2>5 DEF Waits
  <1>8. ptr.drag /\ ~begins /\ ptr.moved => MouseHandled(b, c, buttons)
    <2>1. SUFFICES ASSUME ptr.drag, ~begins, ptr.moved PROVE MouseHandled(b, c, buttons)
      BY Zenon
    <2>2. c = moved
      BY <2>1
    <2>3. /\ Shaped(moved) /\ CaughtUp(moved) /\ moved.srv = b.srv /\ moved.ptr.mask = buttons
          /\ moved.ptr.dragging = FALSE /\ moved.ptr.drag = b.ptr.drag
      BY <1>4 DEF Shaped, PtrFields, SrvFields, CaughtUp
    <2> HIDE DEF c, moved, begins
    <2>4. MouseHolds(moved, buttons)
      BY <1>7, <2>1, <2>3 DEF MouseHolds
    <2> QED BY <2>2, <2>3, <2>4 DEF MouseHandled
  <1>9. ptr.drag /\ ~begins /\ ~ptr.moved => MouseHandled(b, c, buttons)
    <2> DEFINE s == SendMouse(ended, x, ptr.mask)
    <2>1. SUFFICES ASSUME ptr.drag, ~begins, ~ptr.moved PROVE MouseHandled(b, c, buttons)
      BY Zenon
    <2>2. c = late
      BY <2>1
    <2>3. /\ Shaped(s) /\ s.ptr = ended.ptr /\ Aside(ended, s)
          /\ rfb.viewOnly => Unsent(ended, s)
          /\ ~rfb.viewOnly => Sent(ended, s, ptr.mask)
      BY <1>4, Sending
    <2> HIDE DEF s
    <2>4. Pressed(s, late, buttons)
      BY <2>3, Pressing DEF s
    <2> HIDE DEF c, late, begins
    <2>5. /\ Shaped(late) /\ CaughtUp(late) /\ late.ptr.mask = buttons /\ late.ptr.dragging = FALSE
          /\ late.ptr.drag = b.ptr.drag /\ late.srv.blind = b.srv.blind
          /\ late.srv.keys = b.srv.keys /\ late.srv.kept = b.srv.kept
      BY <1>4, <2>3, <2>4 DEF Pressed, Aside
    <2>6. CASE b.srv.blind
      BY <2>2, <2>5, <2>6, Blinded
    <2>7. CASE ~b.srv.blind
      <3>1. buttons = {} /\ b.srv.mask = {} /\ b.srv.spared = {}
        BY <1>7, <2>1, <2>7
      <3>2. late.srv.mask = {} /\ late.srv.spared = {}
        <4>1. rfb.viewOnly => late.srv.mask = {} /\ late.srv.spared = {}
          BY <1>4, <2>3, <2>4, <3>1 DEF Pressed, Unsent
        <4>2. ~rfb.viewOnly => late.srv.mask = {} /\ late.srv.spared = {}
          BY <1>4, <2>3, <2>4, <3>1 DEF Pressed, Sent
        <4> QED BY <4>1, <4>2
      <3>3. MouseHolds(late, buttons)
        BY <2>5, <3>1, <3>2 DEF MouseHolds
      <3> QED BY <2>2, <2>5, <3>3 DEF MouseHandled
    <2> QED BY <2>6, <2>7
  <1>10. MouseHandled(b, c, buttons)
    <2> HIDE DEF c, begins
    <2> QED BY <1>5, <1>6, <1>8, <1>9
  <1>11. MouseHandled(Pointer, c, buttons)
    <2>1. Pointer.srv.keys = b.srv.keys /\ Pointer.srv.kept = b.srv.kept
      BY <1>2 DEF Pointer
    <2> HIDE DEF c
    <2> QED BY <1>10, <2>1 DEF MouseHandled
  <1> HIDE DEF c
  <1> QED BY <1>1, <1>11

-----------------------------------------------------------------------------
(* A touch screen.  h is the gesture that holds a button.                    *)

\* The server holds what the pointer believes it does and what is spared: nothing else when no
\* gesture holds a button, in view-only mode or when gestures drag the viewport.
TouchHolds(b, h) ==
    ~b.srv.blind =>
        /\ b.srv.spared \subseteq {"right"}
        /\ b.srv.mask \subseteq b.ptr.mask \union b.srv.spared
        /\ rfb.viewOnly \/ b.ptr.drag \/ h = "none" => b.srv.mask \subseteq b.srv.spared
        /\ b.ptr.drag \/ h = "none" => b.ptr.mask \subseteq b.srv.spared
        /\ h = "longpress" => b.ptr.mask \subseteq {"right"}

\* Keys are released at most.
Releases(s, t) ==
    /\ t.keys \subseteq s.keys /\ s.kept \intersect t.keys \subseteq t.kept
    /\ rfb.viewOnly => t.keys = s.keys /\ t.kept = s.kept

\* What a part of a gesture may do to the pointer and the server.
Handled(b, c, h) ==
    /\ Shaped(c) /\ CaughtUp(c) /\ TouchHolds(c, h)
    /\ c.ptr.drag = b.ptr.drag /\ c.srv.blind = b.srv.blind
    /\ Releases(b.srv, c.srv)

\* A move of the pointer presses nothing, whether it is sent or not.
LEMMA TouchSending ==
  ASSUME NEW b, Shaped(b), NEW h, TouchHolds(b, h),
         NEW c, Shaped(c), CaughtUp(c), c.ptr.mask = b.ptr.mask, Aside(b, c),
         Unsent(b, c) \/ Sent(b, c, b.ptr.mask)
  PROVE Handled(b, c, h)
  <1>1. c.ptr.drag = b.ptr.drag /\ c.srv.blind = b.srv.blind
    BY DEF Aside
  <1>2. Unsent(b, c) => TouchHolds(c, h)
    BY <1>1 DEF Unsent, TouchHolds
  <1>3. Sent(b, c, b.ptr.mask) => TouchHolds(c, h)
    <2>1. b.ptr.mask \subseteq {"right"} => b.ptr.mask \ Extended = b.ptr.mask
      BY DEF Extended
    <2> QED BY <1>1, <2>1 DEF Sent, TouchHolds
  <1> QED BY <1>1, <1>2, <1>3 DEF Handled, Aside, Releases

\* A move of the pointer, for touch.
LEMMA TouchMoving ==
  ASSUME NEW b, Shaped(b), CaughtUp(b), NEW h, TouchHolds(b, h), NEW x
  PROVE Handled(b, HandleMouseMove(b, x), h)
  <1> DEFINE c == HandleMouseMove(b, x)
  <1>1. /\ Shaped(c) /\ CaughtUp(c) /\ c.ptr.mask = b.ptr.mask /\ Aside(b, c)
        /\ Unsent(b, c) \/ Sent(b, c, b.ptr.mask)
    BY Moving
  <1> HIDE DEF c
  <1>2. Handled(b, c, h)
    BY <1>1, TouchSending
  <1> QED BY <1>2 DEF c

\* A click ends like the second of its presses.
LEMMA Clicking ==
  ASSUME NEW b, Shaped(b), CaughtUp(b), NEW x, NEW mask, NEW after
  PROVE Pressed(b, Click(b, x, mask, after), after)
  <1> DEFINE c == HandleMouseButton(b, x, mask)
             d == HandleMouseButton(c, x, after)
  <1>1. Pressed(b, c, mask)
    BY Pressing
  <1> HIDE DEF c
  <1>2. Pressed(c, d, after)
    BY <1>1, Pressing DEF Pressed
  <1> HIDE DEF d
  <1>3. Pressed(b, d, after)
    BY <1>1, <1>2 DEF Pressed, Aside, Unsent
  <1> QED BY <1>3 DEF Click, c, d

\* With no button left nothing is held, unless view-only mode dropped it.
LEMMA LettingGo ==
  ASSUME NEW b, NEW c, NEW h, NEW h2, TouchHolds(b, h), Pressed(b, c, {})
  PROVE Handled(b, c, h2)
  <1>1. TouchHolds(c, h2)
    BY DEF TouchHolds, Pressed, Aside, Unsent
  <1> QED BY <1>1 DEF Handled, Pressed, Aside, Releases

\* Two parts of one gesture.
LEMMA HandledTwice ==
  ASSUME NEW b, NEW c, NEW d, NEW h, NEW h2, Handled(b, c, h), Handled(c, d, h2)
  PROVE Handled(b, d, h2)
  BY DEF Handled, Releases

\* A change of the viewport's drag that leaves the buttons alone.
LEMMA Dragging ==
  ASSUME NEW b, NEW c, NEW h, NEW h2, Shaped(b), CaughtUp(b), TouchHolds(b, h),
         Shaped(c), c.srv = b.srv, c.ptr.mask = b.ptr.mask, c.ptr.drag = b.ptr.drag,
         c.ptr.timer = b.ptr.timer, c.ptr.pos = b.ptr.pos,
         b.ptr.drag
  PROVE Handled(b, c, h2)
  <1>1. TouchHolds(c, h2)
    BY DEF TouchHolds
  <1>2. CaughtUp(c)
    BY DEF CaughtUp
  <1> QED BY <1>1, <1>2 DEF Handled, Releases

\* A gesture that begins: h is "none" before, and afterwards the gesture that holds a button.
LEMMA Starting ==
  ASSUME NEW b, Shaped(b), CaughtUp(b), TouchHolds(b, "none"), NEW x, NEW gesture \in AllGestures
  PROVE Handled(b, GestureStart(b, gesture, x),
                IF gesture \in {"drag", "longpress"} THEN gesture ELSE "none")
  <1> DEFINE still == HandleMouseMove(b, x)
  <1>1. Handled(b, still, "none")
    BY TouchMoving
  <1>2. CASE gesture \in Taps
    <2> DEFINE c == Click(still, x, TapButton(gesture), {})
    <2>1. GestureStart(b, gesture, x) = c
      BY <1>2 DEF GestureStart, Taps, TwoFinger
    <2>2. Pressed(still, c, {})
      <3> HIDE DEF still
      <3> QED BY <1>1, Clicking DEF Handled
    <2>3. Handled(still, c, "none")
      <3> HIDE DEF c, still
      <3> QED BY <1>1, <2>2, LettingGo DEF Handled
    <2>4. Handled(b, c, "none")
      <3> HIDE DEF c, still
      <3> QED BY <1>1, <2>3, HandledTwice
    <2>5. gesture \notin {"drag", "longpress"}
      BY <1>2 DEF Taps
    <2> HIDE DEF c, still
    <2> QED BY <2>1, <2>4, <2>5
  <1>3. CASE gesture \in TwoFinger
    <2>1. GestureStart(b, gesture, x) = still
      BY <1>3 DEF GestureStart, Taps, TwoFinger
    <2>2. gesture \notin {"drag", "longpress"}
      BY <1>3 DEF TwoFinger
    <2> HIDE DEF still
    <2> QED BY <1>1, <2>1, <2>2
  <1>4. CASE gesture \in {"drag", "longpress"} /\ b.ptr.drag
    <2> DEFINE c == [b EXCEPT !.ptr.moved = FALSE, !.ptr.dragging = @ \/ gesture = "drag"]
    <2>1. GestureStart(b, gesture, x) = c
      BY <1>4 DEF GestureStart, Taps, TwoFinger
    <2>2. /\ Shaped(c) /\ c.srv = b.srv /\ c.ptr.mask = b.ptr.mask /\ c.ptr.drag = b.ptr.drag
          /\ c.ptr.timer = b.ptr.timer /\ c.ptr.pos = b.ptr.pos
      BY DEF Shaped, PtrFields, SrvFields
    <2> HIDE DEF c
    <2>3. Handled(b, c, gesture)
      BY <1>4, <2>2, Dragging
    <2> QED BY <1>4, <2>1, <2>3
  <1>5. CASE gesture \in {"drag", "longpress"} /\ ~b.ptr.drag
    <2> DEFINE c == HandleMouseButton(still, x, Holding(gesture))
    <2>1. GestureStart(b, gesture, x) = c
      BY <1>5 DEF GestureStart, Taps, TwoFinger
    <2>2. Pressed(still, c, Holding(gesture))
      <3> HIDE DEF still
      <3> QED BY <1>1, Pressing DEF Handled
    <2> HIDE DEF c, still
    <2>3. Holding(gesture) = IF gesture = "longpress" THEN {"right"} ELSE {"left"}
      BY DEF Holding
    <2>4. TouchHolds(c, gesture)
      <3>1. c.ptr.mask = Holding(gesture) /\ ~c.ptr.drag /\ c.srv.blind = still.srv.blind
        BY <1>1, <1>5, <2>2 DEF Pressed, Aside, Handled
      <3>2. CASE rfb.viewOnly
        <4>1. Unsent(still, c)
          BY <2>2, <3>2 DEF Pressed
        <4> QED BY <1>1, <1>5, <2>3, <3>1, <4>1 DEF Unsent, TouchHolds, Handled
      <3>3. CASE ~rfb.viewOnly
        <4>1. c.srv.mask \subseteq Holding(gesture) /\ c.srv.spared \subseteq still.srv.spared
          BY <2>2, <3>3 DEF Pressed
        <4> QED BY <1>1, <1>5, <2>3, <3>1, <3>3, <4>1 DEF TouchHolds, Handled
      <3> QED BY <3>2, <3>3
    <2>5. Handled(still, c, gesture)
      BY <2>2, <2>4 DEF Handled, Pressed, Aside, Releases
    <2>6. Handled(b, c, gesture)
      BY <1>1, <2>5, HandledTwice
    <2> QED BY <1>5, <2>1, <2>6
  <1>6. gesture \in Taps \/ gesture \in TwoFinger \/ gesture \in {"drag", "longpress"}
    BY DEF AllGestures
  <1> QED BY <1>2, <1>3, <1>4, <1>5, <1>6

\* With no gesture to hold a button, a click leaves none.
LEMMA Tapping ==
  ASSUME NEW b, Shaped(b), CaughtUp(b), NEW h, TouchHolds(b, h), NEW h2, NEW x, NEW mask
  PROVE Handled(b, Click(b, x, mask, {}), h2)
  <1> DEFINE c == Click(b, x, mask, {})
  <1>1. Pressed(b, c, {})
    BY Clicking
  <1> HIDE DEF c
  <1>2. Handled(b, c, h2)
    BY <1>1, LettingGo
  <1> QED BY <1>2 DEF c

\* Nothing done is done well.
LEMMA Resting ==
  ASSUME NEW b, Shaped(b), CaughtUp(b), NEW h, TouchHolds(b, h) PROVE Handled(b, b, h)
  BY DEF Handled, Releases

\* A gesture with two fingers turns the wheel.
LEMMA Scrolling ==
  ASSUME NEW b, Shaped(b), CaughtUp(b), TouchHolds(b, "none"), NEW x, NEW gesture, NEW steps
  PROVE Handled(b, Scroll(b, gesture, x, steps), "none")
  <1> DEFINE still == HandleMouseMove(b, x)
             scrolled == IF steps = 0 THEN still ELSE Click(still, x, {"wheel"}, {})
             c == [scrolled EXCEPT !.srv = SendKey(@, rfb, "Control_L", "ControlLeft", FALSE)]
  <1>1. Handled(b, still, "none")
    BY TouchMoving
  <1> HIDE DEF still
  <1>2. Handled(still, Click(still, x, {"wheel"}, {}), "none")
    BY <1>1, Tapping DEF Handled
  <1>3. Handled(b, Click(still, x, {"wheel"}, {}), "none")
    BY <1>1, <1>2, HandledTwice
  <1>4. Handled(b, scrolled, "none")
    BY <1>1, <1>3
  <1>5. Scroll(b, gesture, x, steps) = IF gesture = "twodrag" THEN scrolled ELSE c
    BY DEF Scroll, still
  <1> HIDE DEF scrolled
  <1>6. Handled(scrolled, c, "none")
    <2> DEFINE t == SendKey(scrolled.srv, rfb, "Control_L", "ControlLeft", FALSE)
    <2>1. DOMAIN scrolled.srv = SrvFields /\ DOMAIN scrolled = {"ptr", "srv"}
      BY <1>4 DEF Handled, Shaped
    <2>2. /\ DOMAIN t = SrvFields /\ t.mask = scrolled.srv.mask /\ t.pos = scrolled.srv.pos
          /\ t.want = scrolled.srv.want /\ t.spared = scrolled.srv.spared
          /\ t.blind = scrolled.srv.blind /\ Releases(scrolled.srv, t)
      BY <2>1 DEF SendKey, SrvFields, Releases
    <2>3. DOMAIN c = {"ptr", "srv"} /\ c.ptr = scrolled.ptr /\ c.srv = t
      BY <2>1
    <2> HIDE DEF t, c
    <2>4. Shaped(c)
      BY <1>4, <2>2, <2>3 DEF Handled, Shaped
    <2>5. CaughtUp(c)
      BY <1>4, <2>2, <2>3 DEF Handled, CaughtUp
    <2>6. TouchHolds(c, "none")
      BY <1>4, <2>2, <2>3 DEF Handled, TouchHolds
    <2> QED BY <1>4, <2>2, <2>3, <2>4, <2>5, <2>6 DEF Handled
  <1>7. Handled(b, c, "none")
    BY <1>4, <1>6, HandledTwice
  <1> HIDE DEF c
  <1> QED BY <1>4, <1>5, <1>7

\* The gesture, if it is one that holds a button.
Button(gesture) == IF gesture \in {"drag", "longpress"} THEN gesture ELSE "none"

\* A gesture goes on.
LEMMA GoingOn ==
  ASSUME NEW b, Shaped(b), CaughtUp(b), NEW x, NEW gesture \in AllGestures, NEW steps,
         TouchHolds(b, Button(gesture))
  PROVE Handled(b, GestureMove(b, gesture, x, steps), Button(gesture))
  <1>1. CASE gesture \in Taps
    <2>1. GestureMove(b, gesture, x, steps) = b
      BY <1>1 DEF GestureMove, Taps, TwoFinger
    <2> QED BY <2>1, Resting
  <1>2. CASE gesture \in TwoFinger
    <2>1. GestureMove(b, gesture, x, steps) = Scroll(b, gesture, x, steps)
      BY <1>2 DEF GestureMove, Taps, TwoFinger
    <2>2. Button(gesture) = "none"
      BY <1>2 DEF Button, TwoFinger
    <2> QED BY <2>1, <2>2, Scrolling
  <1>3. CASE gesture \in {"drag", "longpress"} /\ b.ptr.drag
    <2> DEFINE c == [b EXCEPT !.ptr.dragging = TRUE, !.ptr.moved = @ \/ x = 1]
    <2>1. GestureMove(b, gesture, x, steps) = c
      BY <1>3 DEF GestureMove, Taps, TwoFinger
    <2>2. /\ Shaped(c) /\ c.srv = b.srv /\ c.ptr.mask = b.ptr.mask /\ c.ptr.drag = b.ptr.drag
          /\ c.ptr.timer = b.ptr.timer /\ c.ptr.pos = b.ptr.pos
      BY DEF Shaped, PtrFields, SrvFields
    <2> HIDE DEF c
    <2>3. Handled(b, c, Button(gesture))
      BY <1>3, <2>2, Dragging
    <2> QED BY <2>1, <2>3
  <1>4. CASE gesture \in {"drag", "longpress"} /\ ~b.ptr.drag
    <2>1. GestureMove(b, gesture, x, steps) = HandleMouseMove(b, x)
      BY <1>4 DEF GestureMove, Taps, TwoFinger
    <2> QED BY <2>1, TouchMoving
  <1>5. gesture \in Taps \/ gesture \in TwoFinger \/ gesture \in {"drag", "longpress"}
    BY DEF AllGestures
  <1> QED BY <1>1, <1>2, <1>3, <1>4, <1>5

\* A gesture ends.  The button of a long press after the viewport has moved is spared.
LEMMA Ending ==
  ASSUME NEW b, Shaped(b), CaughtUp(b), NEW x, NEW gesture \in AllGestures,
         TouchHolds(b, Button(gesture))
  PROVE Handled(b, GestureEnd(b, gesture, x), "none")
  <1> DEFINE still == HandleMouseMove(b, x)
  <1>1. Handled(b, still, Button(gesture))
    BY TouchMoving
  <1> HIDE DEF still
  <1>2. CASE gesture \in Taps \union TwoFinger
    <2>1. GestureEnd(b, gesture, x) = b
      BY <1>2 DEF GestureEnd, Taps, TwoFinger
    <2>2. Button(gesture) = "none"
      BY <1>2 DEF Button, Taps, TwoFinger
    <2> QED BY <2>1, <2>2, Resting
  <1>3. CASE gesture = "drag" /\ b.ptr.drag
    <2> DEFINE c == [b EXCEPT !.ptr.dragging = FALSE]
    <2>1. GestureEnd(b, gesture, x) = c
      BY <1>3 DEF GestureEnd, Taps, TwoFinger
    <2>2. /\ Shaped(c) /\ c.srv = b.srv /\ c.ptr.mask = b.ptr.mask /\ c.ptr.drag = b.ptr.drag
          /\ c.ptr.timer = b.ptr.timer /\ c.ptr.pos = b.ptr.pos
      BY DEF Shaped, PtrFields, SrvFields
    <2> HIDE DEF c
    <2>3. Handled(b, c, "none")
      BY <1>3, <2>2, Dragging
    <2> QED BY <2>1, <2>3
  <1>4. ASSUME ~b.ptr.drag, gesture = "drag" \/ (gesture = "longpress" /\ ~b.ptr.moved)
        PROVE Handled(b, GestureEnd(b, gesture, x), "none")
    <2> DEFINE c == HandleMouseButton(still, x, {})
    <2>1. GestureEnd(b, gesture, x) = c
      BY <1>4 DEF GestureEnd, Taps, TwoFinger, still
    <2>2. Pressed(still, c, {})
      BY <1>1, Pressing DEF Handled
    <2> HIDE DEF c
    <2>3. Handled(still, c, "none")
      BY <1>1, <2>2, LettingGo DEF Handled
    <2>4. Handled(b, c, "none")
      BY <1>1, <2>3, HandledTwice
    <2> QED BY <2>1, <2>4
  <1>5. CASE gesture = "longpress" /\ b.ptr.moved
    <2> DEFINE c == [b EXCEPT !.srv.spared = {"right"}]
    <2>1. GestureEnd(b, gesture, x) = c
      BY <1>5 DEF GestureEnd, Taps, TwoFinger
    <2>2. /\ Shaped(c) /\ c.ptr = b.ptr /\ c.srv.spared = {"right"} /\ c.srv.mask = b.srv.mask
          /\ c.srv.pos = b.srv.pos /\ c.srv.want = b.srv.want /\ c.srv.blind = b.srv.blind
          /\ Releases(b.srv, c.srv)
      BY DEF Shaped, PtrFields, SrvFields, Releases
    <2> HIDE DEF c
    <2>3. TouchHolds(c, "none")
      <3>1. Button(gesture) = "longpress"
        BY <1>5 DEF Button
      <3> QED BY <2>2, <3>1 DEF TouchHolds
    <2>4. CaughtUp(c)
      BY <2>2 DEF CaughtUp
    <2>5. Handled(b, c, "none")
      BY <2>2, <2>3, <2>4 DEF Handled
    <2> QED BY <2>1, <2>5
  <1>6. CASE gesture = "longpress" /\ ~b.ptr.moved /\ b.ptr.drag
    <2> DEFINE c == Click(still, x, {"right"}, {})
               d == [c EXCEPT !.ptr.dragging = FALSE]
    <2>1. GestureEnd(b, gesture, x) = d
      BY <1>6 DEF GestureEnd, Taps, TwoFinger, still
    <2>2. Handled(still, c, "none")
      BY <1>1, Tapping DEF Handled
    <2>3. Handled(b, c, "none")
      BY <1>1, <2>2, HandledTwice
    <2> HIDE DEF c
    <2>4. Shaped(c) /\ CaughtUp(c) /\ TouchHolds(c, "none") /\ c.ptr.drag
      BY <1>6, <2>3 DEF Handled
    <2>5. /\ Shaped(d) /\ d.srv = c.srv /\ d.ptr.mask = c.ptr.mask /\ d.ptr.drag = c.ptr.drag
          /\ d.ptr.timer = c.ptr.timer /\ d.ptr.pos = c.ptr.pos
      BY <2>4 DEF Shaped, PtrFields, SrvFields
    <2> HIDE DEF d
    <2>6. Handled(c, d, "none")
      BY <2>4, <2>5, Dragging
    <2>7. Handled(b, d, "none")
      BY <2>3, <2>6, HandledTwice
    <2> QED BY <2>1, <2>7
  <1>7. gesture = "drag" => Handled(b, GestureEnd(b, gesture, x), "none")
    BY <1>3, <1>4
  <1>8. gesture = "longpress" => Handled(b, GestureEnd(b, gesture, x), "none")
    BY <1>4, <1>5, <1>6, Zenon
  <1>9. gesture \in Taps \union TwoFinger \/ gesture = "drag" \/ gesture = "longpress"
    BY DEF AllGestures
  <1> QED BY <1>2, <1>7, <1>8, <1>9, Zenon

\* What is said of one gesture, of the pointer, the server and the gesture that holds a button.
LEMMA HearingStart ==
  ASSUME NEW gesture \in AllGestures, NEW x
  PROVE Heard("none", [kind |-> "start", gesture |-> gesture, pos |-> x]) = Button(gesture)
  BY DEF Heard, Button

\* A gesture that goes on is the one that holds the button.
LEMMA HearingMove ==
  ASSUME NEW gesture \in AllGestures, NEW x
  PROVE Heard(Button(gesture), [kind |-> "move", gesture |-> gesture, pos |-> x]) = Button(gesture)
  BY DEF Heard, Button

\* A gesture that ends leaves no button held.
LEMMA HearingEnd ==
  ASSUME NEW gesture \in AllGestures, NEW x
  PROVE Heard(Button(gesture), [kind |-> "end", gesture |-> gesture, pos |-> x]) = "none"
  BY DEF Heard, Button

-----------------------------------------------------------------------------
(* What is made of the events of one handler: two folds, over none, one or  *)
(* two of them.                                                             *)

\* The pointer after the events, and the gesture that then holds a button.
Handles(u, s, evs) == FoldLeft(LAMBDA b, e : HandleGesture(b, e, s), u, evs)
Hears(u, evs) == FoldLeft(Heard, u, evs)

\* Without events the pointer stays as it is.
LEMMA HandleNone ==
  ASSUME NEW u, NEW s PROVE Handles(u, s, <<>>) = u
  <1>1. \E it : it = [S \in SUBSET {} |->
                       IF S = {} THEN u ELSE HandleGesture(it[S \ {Max(S)}], <<>>[Max(S)], s)]
    <2> DEFINE it == [S \in SUBSET {} |-> u]
    <2> QED OBVIOUS
  <1>2. DOMAIN <<>> = {}
    OBVIOUS
  <1> QED BY <1>1, <1>2 DEF Handles, FoldLeft, MapThenFoldSet

\* One event is handled.
LEMMA HandleOne ==
  ASSUME NEW u, NEW s, NEW e1
  PROVE Handles(u, s, <<e1>>) = HandleGesture(u, e1, s)
  <1> DEFINE Body(it, S) == IF S = {} THEN u ELSE HandleGesture(it[S \ {Max(S)}], <<e1>>[Max(S)], s)
             Step(it) == [S \in SUBSET {1} |-> Body(it, S)]
             g == [S \in SUBSET {1} |-> IF S = {} THEN u ELSE HandleGesture(u, e1, s)]
  <1>1. SUBSET {1} = {{}, {1}} /\ {1} # {}
    OBVIOUS
  <1>2. Max({1}) = 1
    BY DEF Max
  <1>3. /\ {1} \ {1} = {} /\ DOMAIN <<e1>> = {1} /\ <<e1>>[1] = e1
    OBVIOUS
  <1>4. ASSUME NEW it, NEW S PROVE (S = {} => Body(it, S) = u)
              /\ (S = {1} => Body(it, S) = HandleGesture(it[{}], e1, s))
    <2>1. S = {1} => S \ {Max(S)} = {} /\ <<e1>>[Max(S)] = e1
      BY <1>2, <1>3, Zenon
    <2> QED BY <1>1, <2>1, Zenon
  <1>5. g[{}] = u /\ g[{1}] = HandleGesture(u, e1, s)
    BY <1>1
  <1>6. g = Step(g)
    <2>1. \A S \in SUBSET {1} : g[S] = Body(g, S)
      <3> HIDE DEF g, Body
      <3> QED BY <1>1, <1>4, <1>5
    <2> QED BY <2>1, Zenon
  <1> DEFINE f == CHOOSE it : it = Step(it)
  <1>7. f = Step(f)
    BY <1>6, Zenon
  <1>8. Handles(u, s, <<e1>>) = f[{1}]
    BY <1>3 DEF Handles, FoldLeft, MapThenFoldSet
  <1> HIDE DEF f, g
  <1>9. f[{}] = Body(f, {}) /\ f[{1}] = Body(f, {1})
    <2> HIDE DEF Body
    <2> QED BY <1>7, <1>1
  <1> HIDE DEF Body
  <1> QED BY <1>4, <1>8, <1>9

\* Two events are handled in order.
LEMMA HandleTwo ==
  ASSUME NEW u, NEW s, NEW e1, NEW e2
  PROVE Handles(u, s, <<e1, e2>>) = HandleGesture(HandleGesture(u, e1, s), e2, s)
  <1> DEFINE Body(it, S) == IF S = {} THEN u ELSE HandleGesture(it[S \ {Max(S)}], <<e1, e2>>[Max(S)], s)
             Step(it) == [S \in SUBSET {1, 2} |-> Body(it, S)]
             one == HandleGesture(u, e1, s)
             two == HandleGesture(one, e2, s)
             g == [S \in SUBSET {1, 2} |-> IF S = {} THEN u ELSE IF S = {1} THEN one
                                           ELSE IF S = {2} THEN HandleGesture(u, e2, s) ELSE two]
  <1>1. /\ SUBSET {1, 2} = {{}, {1}, {2}, {1, 2}} /\ {1} # {} /\ {2} # {} /\ {1, 2} # {} /\ {1} # {2}
        /\ {1} # {1, 2} /\ {2} # {1, 2}
    OBVIOUS
  <1>2. Max({1}) = 1 /\ Max({2}) = 2 /\ Max({1, 2}) = 2
    BY DEF Max
  <1>3. {1} \ {1} = {} /\ {2} \ {2} = {} /\ {1, 2} \ {2} = {1} /\ DOMAIN <<e1, e2>> = {1, 2}
        /\ <<e1, e2>>[1] = e1 /\ <<e1, e2>>[2] = e2
    OBVIOUS
  <1>4. ASSUME NEW it, NEW S
        PROVE /\ S = {} => Body(it, S) = u
              /\ S = {1} => Body(it, S) = HandleGesture(it[{}], e1, s)
              /\ S = {2} => Body(it, S) = HandleGesture(it[{}], e2, s)
              /\ S = {1, 2} => Body(it, S) = HandleGesture(it[{1}], e2, s)
    <2>1. S = {1} => S \ {Max(S)} = {} /\ <<e1, e2>>[Max(S)] = e1
      BY <1>2, <1>3, Zenon
    <2>2. S = {2} => S \ {Max(S)} = {} /\ <<e1, e2>>[Max(S)] = e2
      BY <1>2, <1>3, Zenon
    <2>3. S = {1, 2} => S \ {Max(S)} = {1} /\ <<e1, e2>>[Max(S)] = e2
      BY <1>2, <1>3, Zenon
    <2> QED BY <1>1, <2>1, <2>2, <2>3, Zenon
  <1>5. g[{}] = u /\ g[{1}] = one /\ g[{2}] = HandleGesture(u, e2, s) /\ g[{1, 2}] = two
    <2> HIDE DEF one, two
    <2> QED BY <1>1
  <1>6. g = Step(g)
    <2>1. ASSUME NEW S \in SUBSET {1, 2} PROVE g[S] = Body(g, S)
      <3> HIDE DEF g, Body, one, two
      <3>1. S = {} \/ S = {1} \/ S = {2} \/ S = {1, 2}
        BY <1>1, Zenon
      <3>2. Body(g, {}) = u /\ Body(g, {1}) = HandleGesture(u, e1, s) /\ Body(g, {2}) = HandleGesture(u, e2, s)
        BY <1>4, <1>5
      <3>3. Body(g, {1, 2}) = HandleGesture(one, e2, s)
        BY <1>4, <1>5
      <3> QED BY <1>5, <3>1, <3>2, <3>3 DEF one, two
    <2> QED BY <2>1, Zenon
  <1> DEFINE f == CHOOSE it : it = Step(it)
  <1>7. f = Step(f)
    BY <1>6, Zenon
  <1>8. Handles(u, s, <<e1, e2>>) = f[{1, 2}]
    BY <1>3 DEF Handles, FoldLeft, MapThenFoldSet
  <1> HIDE DEF f, g
  <1>9. f[{}] = Body(f, {}) /\ f[{1}] = Body(f, {1}) /\ f[{1, 2}] = Body(f, {1, 2})
    <2> HIDE DEF Body
    <2> QED BY <1>7, <1>1
  <1> HIDE DEF Body
  <1> QED BY <1>4, <1>8, <1>9

\* So is the gesture that holds a button.
LEMMA HearNone ==
  ASSUME NEW u PROVE Hears(u, <<>>) = u
  <1>1. \E it : it = [S \in SUBSET {} |->
                       IF S = {} THEN u ELSE Heard(it[S \ {Max(S)}], <<>>[Max(S)])]
    <2> DEFINE it == [S \in SUBSET {} |-> u]
    <2> QED OBVIOUS
  <1>2. DOMAIN <<>> = {}
    OBVIOUS
  <1> QED BY <1>1, <1>2 DEF Hears, FoldLeft, MapThenFoldSet

\* One event is heard.
LEMMA HearOne ==
  ASSUME NEW u, NEW e1
  PROVE Hears(u, <<e1>>) = Heard(u, e1)
  <1> DEFINE Body(it, S) == IF S = {} THEN u ELSE Heard(it[S \ {Max(S)}], <<e1>>[Max(S)])
             Step(it) == [S \in SUBSET {1} |-> Body(it, S)]
             g == [S \in SUBSET {1} |-> IF S = {} THEN u ELSE Heard(u, e1)]
  <1>1. SUBSET {1} = {{}, {1}} /\ {1} # {}
    OBVIOUS
  <1>2. Max({1}) = 1
    BY DEF Max
  <1>3. /\ {1} \ {1} = {} /\ DOMAIN <<e1>> = {1} /\ <<e1>>[1] = e1
    OBVIOUS
  <1>4. ASSUME NEW it, NEW S PROVE (S = {} => Body(it, S) = u)
              /\ (S = {1} => Body(it, S) = Heard(it[{}], e1))
    <2>1. S = {1} => S \ {Max(S)} = {} /\ <<e1>>[Max(S)] = e1
      BY <1>2, <1>3, Zenon
    <2> QED BY <1>1, <2>1, Zenon
  <1>5. g[{}] = u /\ g[{1}] = Heard(u, e1)
    BY <1>1
  <1>6. g = Step(g)
    <2>1. \A S \in SUBSET {1} : g[S] = Body(g, S)
      <3> HIDE DEF g, Body
      <3> QED BY <1>1, <1>4, <1>5
    <2> QED BY <2>1, Zenon
  <1> DEFINE f == CHOOSE it : it = Step(it)
  <1>7. f = Step(f)
    BY <1>6, Zenon
  <1>8. Hears(u, <<e1>>) = f[{1}]
    BY <1>3 DEF Hears, FoldLeft, MapThenFoldSet
  <1> HIDE DEF f, g
  <1>9. f[{}] = Body(f, {}) /\ f[{1}] = Body(f, {1})
    <2> HIDE DEF Body
    <2> QED BY <1>7, <1>1
  <1> HIDE DEF Body
  <1> QED BY <1>4, <1>8, <1>9

\* Two events are heard in order.
LEMMA HearTwo ==
  ASSUME NEW u, NEW e1, NEW e2
  PROVE Hears(u, <<e1, e2>>) = Heard(Heard(u, e1), e2)
  <1> DEFINE Body(it, S) == IF S = {} THEN u ELSE Heard(it[S \ {Max(S)}], <<e1, e2>>[Max(S)])
             Step(it) == [S \in SUBSET {1, 2} |-> Body(it, S)]
             one == Heard(u, e1)
             two == Heard(one, e2)
             g == [S \in SUBSET {1, 2} |-> IF S = {} THEN u ELSE IF S = {1} THEN one
                                           ELSE IF S = {2} THEN Heard(u, e2) ELSE two]
  <1>1. /\ SUBSET {1, 2} = {{}, {1}, {2}, {1, 2}} /\ {1} # {} /\ {2} # {} /\ {1, 2} # {} /\ {1} # {2}
        /\ {1} # {1, 2} /\ {2} # {1, 2}
    OBVIOUS
  <1>2. Max({1}) = 1 /\ Max({2}) = 2 /\ Max({1, 2}) = 2
    BY DEF Max
  <1>3. {1} \ {1} = {} /\ {2} \ {2} = {} /\ {1, 2} \ {2} = {1} /\ DOMAIN <<e1, e2>> = {1, 2}
        /\ <<e1, e2>>[1] = e1 /\ <<e1, e2>>[2] = e2
    OBVIOUS
  <1>4. ASSUME NEW it, NEW S
        PROVE /\ S = {} => Body(it, S) = u
              /\ S = {1} => Body(it, S) = Heard(it[{}], e1)
              /\ S = {2} => Body(it, S) = Heard(it[{}], e2)
              /\ S = {1, 2} => Body(it, S) = Heard(it[{1}], e2)
    <2>1. S = {1} => S \ {Max(S)} = {} /\ <<e1, e2>>[Max(S)] = e1
      BY <1>2, <1>3, Zenon
    <2>2. S = {2} => S \ {Max(S)} = {} /\ <<e1, e2>>[Max(S)] = e2
      BY <1>2, <1>3, Zenon
    <2>3. S = {1, 2} => S \ {Max(S)} = {1} /\ <<e1, e2>>[Max(S)] = e2
      BY <1>2, <1>3, Zenon
    <2> QED BY <1>1, <2>1, <2>2, <2>3, Zenon
  <1>5. g[{}] = u /\ g[{1}] = one /\ g[{2}] = Heard(u, e2) /\ g[{1, 2}] = two
    <2> HIDE DEF one, two
    <2> QED BY <1>1
  <1>6. g = Step(g)
    <2>1. ASSUME NEW S \in SUBSET {1, 2} PROVE g[S] = Body(g, S)
      <3> HIDE DEF g, Body, one, two
      <3>1. S = {} \/ S = {1} \/ S = {2} \/ S = {1, 2}
        BY <1>1, Zenon
      <3>2. Body(g, {}) = u /\ Body(g, {1}) = Heard(u, e1) /\ Body(g, {2}) = Heard(u, e2)
        BY <1>4, <1>5
      <3>3. Body(g, {1, 2}) = Heard(one, e2)
        BY <1>4, <1>5
      <3> QED BY <1>5, <3>1, <3>2, <3>3 DEF one, two
    <2> QED BY <2>1, Zenon
  <1> DEFINE f == CHOOSE it : it = Step(it)
  <1>7. f = Step(f)
    BY <1>6, Zenon
  <1>8. Hears(u, <<e1, e2>>) = f[{1, 2}]
    BY <1>3 DEF Hears, FoldLeft, MapThenFoldSet
  <1> HIDE DEF f, g
  <1>9. f[{}] = Body(f, {}) /\ f[{1}] = Body(f, {1}) /\ f[{1, 2}] = Body(f, {1, 2})
    <2> HIDE DEF Body
    <2> QED BY <1>7, <1>1
  <1> HIDE DEF Body
  <1> QED BY <1>4, <1>8, <1>9

-----------------------------------------------------------------------------
(* The recognition of gestures.                                              *)

\* What the recognition keeps, of itself and of a finger.
TouchFields == {"state", "tracked", "ignored", "waitingRelease", "longpress", "twoTouch", "out"}
Finger == [id : 1..MaxFingers, active : BOOLEAN, at : Moves]
\* What two fingers may still become.
Pairs == {"twotap", "threetap"} \union TwoFinger

\* The fingers that are followed and not lifted.
Active(g) == {g.tracked[i].id : i \in {j \in DOMAIN g.tracked : g.tracked[j].active}}

\* The gesture that holds a button, of a gesture and of those that are still possible.
Grip(S) == IF S = {"drag"} THEN "drag" ELSE IF S = {"longpress"} THEN "longpress" ELSE "none"

\* The types of the recognition.
TouchShape(g) ==
    /\ DOMAIN g = TouchFields
    /\ g.state \subseteq AllGestures
    /\ g.tracked \in Seq(Finger)
    /\ g.waitingRelease \in BOOLEAN /\ g.longpress \in BOOLEAN
    /\ g.twoTouch \in {"none", "armed", "fired"}

\* Each finger that is down is either followed or ignored.
Tracking(g, down) == down = Active(g) \union g.ignored /\ Active(g) \intersect g.ignored = {}

\* The gestures still possible with n fingers that came down, until the first is lifted and
\* after.
Possible(S, n, waiting) ==
    /\ n > 0 /\ waiting => S = {} \/ \E x \in Taps \union TwoFinger : S = {x}
    /\ n = 1 /\ ~waiting => S \in {AllGestures, {}, {"drag"}, {"longpress"}}
    /\ n = 2 /\ ~waiting => S \in {Pairs, TwoFinger, {}, {"twodrag"}, {"pinch"}}
    /\ n > 2 /\ ~waiting => S \in {{"threetap"}, {}, {"twodrag"}, {"pinch"}}

\* Without fingers to follow everything is possible, or all must be lifted first.
Fresh(g) ==
    /\ g.tracked = <<>> => \/ g.state = {} /\ g.ignored # {}
                           \/ g.state = AllGestures /\ g.ignored = {} /\ ~g.waitingRelease
    /\ g.tracked # <<>> => SomeActive(g)

\* A timer runs only while it may still tell one gesture from another.
Timers(g) ==
    /\ g.longpress => Len(g.tracked) = 1 /\ g.state \in {AllGestures, {}} /\ ~g.waitingRelease
    /\ g.twoTouch = "armed" => Len(g.tracked) > 1 /\ g.state \in {{}, TwoFinger}

\* The recognition with the fingers down, h being the gesture that holds a button: what every
\* handler finds and leaves.
Ready(g, down, h) ==
    /\ TouchShape(g)
    /\ Tracking(g, down)
    /\ h = Grip(g.state)
    /\ Fresh(g)
    /\ Possible(g.state, Len(g.tracked), g.waitingRelease)
    /\ Timers(g)

\* An event as it is pushed.
Event(kind, gesture, pos) == [kind |-> kind, gesture |-> gesture, pos |-> pos]

\* What a handler may push, and the gesture that holds a button before and after.
Tells(h, evs, h2) ==
    \/ evs = <<>> /\ h2 = h
    \/ \E x \in AllGestures, p \in 0..1 :
        \/ evs = <<Event("start", x, p)>> /\ h = "none" /\ h2 = Button(x)
        \/ evs = <<Event("move", x, p)>> /\ h = Button(x) /\ h2 = Button(x)
        \/ evs = <<Event("end", x, p)>> /\ h = Button(x) /\ h2 = "none"
    \/ \E x \in AllGestures, p \in 0..1, q \in 0..1 :
        \/ evs = <<Event("start", x, p), Event("move", x, q)>> /\ h = "none" /\ h2 = Button(x)
        \/ evs = <<Event("start", x, p), Event("end", x, q)>> /\ h = "none" /\ h2 = "none"

\* What a handler leaves, with events that follow from h.
Recognised(g, down, h) == \E h2 : Ready(g, down, h2) /\ Tells(h, g.out, h2)

\* The sets of gestures are what they look like.
LEMMA GestureSets ==
  /\ AllGestures # {} /\ Pairs # {} /\ TwoFinger # {}
  /\ \A x : AllGestures # {x} /\ Pairs # {x} /\ TwoFinger # {x}
  /\ AllGestures \ {"onetap", "drag", "longpress"} = Pairs
  /\ Pairs \ ({"twotap"} \union TwoFinger) = {"threetap"}
  /\ TwoFinger \ ({"twotap"} \union TwoFinger) = {}
  /\ Pairs # TwoFinger
  <1>1. "drag" \in AllGestures /\ "longpress" \in AllGestures /\ "drag" # "longpress"
    BY DEF AllGestures
  <1>2. "twotap" \in Pairs /\ "threetap" \in Pairs /\ "twotap" # "threetap" /\ "twotap" \notin TwoFinger
    BY DEF Pairs, TwoFinger
  <1>3. "pinch" \in TwoFinger /\ "twodrag" \in TwoFinger /\ "pinch" # "twodrag"
    BY DEF TwoFinger
  <1>4. AllGestures \ {"onetap", "drag", "longpress"} = Pairs
    BY DEF AllGestures, Pairs, Taps, TwoFinger
  <1>5. Pairs \ ({"twotap"} \union TwoFinger) = {"threetap"}
    BY DEF Pairs, TwoFinger
  <1> QED BY <1>1, <1>2, <1>3, <1>4, <1>5

\* HasDetectedGesture without its count.
LEMMA Detected ==
  ASSUME NEW g, g.state \subseteq AllGestures
  PROVE HasDetectedGesture(g) <=>
          \E x \in AllGestures : g.state = {x} /\ (x \in Taps => ~SomeActive(g))
  <1>1. IsFiniteSet(AllGestures)
    <2>1. \A a, b : IsFiniteSet({a} \union {b})
      BY FS_Singleton, FS_Union
    <2>2. \A a, b, c, d : IsFiniteSet(({a} \union {b}) \union ({c} \union {d}))
      BY <2>1, FS_Union
    <2>3. IsFiniteSet((({"onetap"} \union {"twotap"}) \union ({"threetap"} \union {"twodrag"}))
                        \union (({"pinch"} \union {"drag"}) \union ({"longpress"} \union {"longpress"})))
      BY <2>2, FS_Union
    <2>4. AllGestures = (({"onetap"} \union {"twotap"}) \union ({"threetap"} \union {"twodrag"}))
                          \union (({"pinch"} \union {"drag"}) \union ({"longpress"} \union {"longpress"}))
      BY DEF AllGestures, Taps, TwoFinger
    <2> QED BY <2>3, <2>4
  <1>2. IsFiniteSet(g.state)
    BY <1>1, FS_Subset
  <1>3. Cardinality(g.state) = 1 <=> \E x : g.state = {x}
    BY <1>2, FS_Singleton
  <1>4. ASSUME NEW x, g.state = {x}
        PROVE x \in AllGestures /\ (g.state \subseteq Taps <=> x \in Taps)
    BY <1>4
  <1> QED BY <1>3, <1>4 DEF HasDetectedGesture

\* A second event is put behind the first.
LEMMA AppendToOne ==
  ASSUME NEW S, NEW a \in S, NEW b \in S PROVE Append(<<a>>, b) = <<a, b>>
  <1> DEFINE u == <<a, b>>
  <1>1. ASSUME NEW t \in Seq(S), Len(t) = 1, t[1] = a PROVE Append(t, b) = u
    <2> DEFINE w == Append(t, b)
    <2>1. u \in Seq(S) /\ Len(u) = 2 /\ u[1] = a /\ u[2] = b
      OBVIOUS
    <2> HIDE DEF u
    <2>2. w \in Seq(S) /\ Len(w) = Len(t) + 1
      OBVIOUS
    <2>3. \A i \in 1..Len(t) : w[i] = t[i]
      OBVIOUS
    <2>4. w[Len(t) + 1] = b
      OBVIOUS
    <2> HIDE DEF w
    <2>5. w[1] = a /\ w[2] = b /\ Len(w) = 2
      BY <1>1, <2>2, <2>3, <2>4
    <2>6. w = u
      BY <2>1, <2>2, <2>5
    <2> QED BY <2>6 DEF w
  <1>2. <<a>> \in Seq(S) /\ Len(<<a>>) = 1 /\ <<a>>[1] = a
    OBVIOUS
  <1> QED BY <1>1, <1>2

\* r is g but for the events.
Pushed(g, r, evs) ==
    /\ DOMAIN r = TouchFields /\ r.out = evs
    /\ r.state = g.state /\ r.tracked = g.tracked /\ r.ignored = g.ignored
    /\ r.waitingRelease = g.waitingRelease /\ r.longpress = g.longpress /\ r.twoTouch = g.twoTouch

\* Events change nothing of what is possible.
LEMMA ReadyPushed ==
  ASSUME NEW g, NEW r, NEW evs, Pushed(g, r, evs), NEW down, NEW h, Ready(g, down, h)
  PROVE Ready(r, down, h)
  <1>1. TouchShape(r)
    BY DEF Pushed, Ready, TouchShape
  <1>2. Tracking(r, down)
    BY DEF Pushed, Ready, Tracking, Active
  <1>3. Fresh(r)
    BY DEF Pushed, Ready, Fresh, SomeActive
  <1>4. Timers(r)
    BY DEF Pushed, Ready, Timers
  <1>5. Possible(r.state, Len(r.tracked), r.waitingRelease) /\ h = Grip(r.state)
    BY DEF Pushed, Ready
  <1> QED BY <1>1, <1>2, <1>3, <1>4, <1>5 DEF Ready

\* The event names the one gesture that is left.
LEMMA PushFirst ==
  ASSUME NEW g, DOMAIN g = TouchFields, NEW x, g.state = {x}, g.out = <<>>, NEW kind
  PROVE \E p \in 0..1 : Pushed(g, PushEvent(g, kind), <<Event(kind, x, p)>>)
  <1> DEFINE gesture == CHOOSE y \in g.state : TRUE
             far == \E i \in DOMAIN g.tracked : g.tracked[i].at # "near"
             p == IF kind = "start" \/ gesture \in TwoFinger \/ ~far THEN 0 ELSE 1
             e == Event(kind, gesture, p)
             r == PushEvent(g, kind)
  <1>1. r = [g EXCEPT !.out = Append(@, e)]
    BY DEF PushEvent, Event
  <1>2. p \in 0..1
    OBVIOUS
  <1>3. gesture = x
    OBVIOUS
  <1> HIDE DEF p, gesture
  <1>4. Append(<<>>, e) = <<e>>
    OBVIOUS
  <1> HIDE DEF e
  <1>5. r = [g EXCEPT !.out = <<e>>]
    BY <1>1, <1>4
  <1> HIDE DEF r
  <1>6. Pushed(g, r, <<e>>)
    BY <1>5 DEF Pushed, TouchFields
  <1>7. e = Event(kind, x, p)
    BY <1>3 DEF e
  <1> QED BY <1>2, <1>6, <1>7, Zenon DEF r

\* So does a second event.
LEMMA PushSecond ==
  ASSUME NEW g, DOMAIN g = TouchFields, NEW x, g.state = {x}, NEW e1, g.out = <<e1>>, NEW kind
  PROVE \E p \in 0..1 : Pushed(g, PushEvent(g, kind), <<e1, Event(kind, x, p)>>)
  <1> DEFINE gesture == CHOOSE y \in g.state : TRUE
             far == \E i \in DOMAIN g.tracked : g.tracked[i].at # "near"
             p == IF kind = "start" \/ gesture \in TwoFinger \/ ~far THEN 0 ELSE 1
             e == Event(kind, gesture, p)
             r == PushEvent(g, kind)
  <1>1. r = [g EXCEPT !.out = Append(@, e)]
    BY DEF PushEvent, Event
  <1>2. p \in 0..1
    OBVIOUS
  <1>3. gesture = x
    OBVIOUS
  <1> HIDE DEF p, gesture
  <1>4. Append(<<e1>>, e) = <<e1, e>>
    <2>1. e1 \in {e1, e} /\ e \in {e1, e}
      OBVIOUS
    <2> QED BY <2>1, AppendToOne
  <1> HIDE DEF e
  <1>5. r = [g EXCEPT !.out = <<e1, e>>]
    BY <1>1, <1>4
  <1> HIDE DEF r
  <1>6. Pushed(g, r, <<e1, e>>)
    BY <1>5 DEF Pushed, TouchFields
  <1>7. e = Event(kind, x, p)
    BY <1>3 DEF e
  <1> QED BY <1>2, <1>6, <1>7, Zenon DEF r

\* A gesture goes on: it is moved.
LEMMA TellsMove ==
  ASSUME NEW g, NEW down, NEW x \in AllGestures, Ready(g, down, Button(x)), g.state = {x}, g.out = <<>>
  PROVE Recognised(PushEvent(g, "move"), down, Button(x))
  <1> DEFINE r == PushEvent(g, "move")
  <1>1. PICK p \in 0..1 : Pushed(g, r, <<Event("move", x, p)>>)
    BY PushFirst DEF Ready, TouchShape
  <1> HIDE DEF r
  <1>2. Ready(r, down, Button(x))
    BY <1>1, ReadyPushed
  <1>3. Tells(Button(x), r.out, Button(x))
    BY <1>1, Zenon DEF Tells, Pushed
  <1> QED BY <1>2, <1>3, Zenon DEF Recognised, r

\* A gesture is detected: it begins, and no other had begun.
LEMMA TellsBegin ==
  ASSUME NEW g, NEW down, NEW x \in AllGestures, Ready(g, down, Button(x)), g.state = {x}, g.out = <<>>
  PROVE /\ Recognised(PushEvent(g, "start"), down, "none")
        /\ Recognised(PushEvent(PushEvent(g, "start"), "move"), down, "none")
  <1> DEFINE r == PushEvent(g, "start")
             m == PushEvent(r, "move")
  <1>1. PICK p \in 0..1 : Pushed(g, r, <<Event("start", x, p)>>)
    BY PushFirst DEF Ready, TouchShape
  <1> HIDE DEF r
  <1>2. DOMAIN r = TouchFields /\ r.state = {x} /\ r.out = <<Event("start", x, p)>>
    BY <1>1 DEF Pushed
  <1>3. PICK q \in 0..1 : Pushed(r, m, <<Event("start", x, p), Event("move", x, q)>>)
    BY <1>2, PushSecond
  <1> HIDE DEF m
  <1>4. Ready(r, down, Button(x))
    BY <1>1, ReadyPushed
  <1>5. Ready(m, down, Button(x))
    BY <1>3, <1>4, ReadyPushed
  <1>6. Tells("none", r.out, Button(x))
    BY <1>2, Zenon DEF Tells
  <1>7. m.out = <<Event("start", x, p), Event("move", x, q)>>
    BY <1>3 DEF Pushed
  <1>8. Tells("none", m.out, Button(x))
    BY <1>7, Zenon DEF Tells
  <1>9. Recognised(r, down, "none") /\ Recognised(m, down, "none")
    BY <1>4, <1>5, <1>6, <1>8, Zenon DEF Recognised
  <1> QED BY <1>9, Zenon DEF r, m

\* Nothing is told.
LEMMA TellsNothing ==
  ASSUME NEW g, NEW down, NEW h, Ready(g, down, h), g.out = <<>> PROVE Recognised(g, down, h)
  BY Zenon DEF Recognised, Tells

\* A finger comes down.
LEMMA StartReady ==
  ASSUME NEW g, NEW down, NEW h, Ready(g, down, h), g.out = <<>>,
         NEW id \in (1..MaxFingers) \ down, NEW late
  PROVE Recognised(TouchStart(g, id, late), down \union {id}, h)
  <1> DEFINE r == TouchStart(g, id, late)
             n == Len(g.tracked)
             seen == Append(g.tracked, [id |-> id, active |-> TRUE, at |-> "near"])
             more == [g EXCEPT !.tracked = seen]
  <1>0. /\ DOMAIN g = TouchFields /\ g.state \subseteq AllGestures /\ g.tracked \in Seq(Finger) /\ n \in Nat
        /\ g.waitingRelease \in BOOLEAN /\ g.longpress \in BOOLEAN /\ g.twoTouch \in {"none", "armed", "fired"}
        /\ down = Active(g) \union g.ignored /\ Active(g) \intersect g.ignored = {} /\ id \notin down
    BY DEF Ready, TouchShape, Tracking
  <1>1. ASSUME NEW S, r = [g EXCEPT !.state = S, !.ignored = @ \union {id}], S \in {g.state, {}},
               Grip(S) = h, g.tracked = <<>> => S = {}
        PROVE Ready(r, down \union {id}, h) /\ r.out = <<>>
    <2>1. /\ DOMAIN r = TouchFields /\ r.state = S /\ r.ignored = g.ignored \union {id}
          /\ r.tracked = g.tracked /\ r.waitingRelease = g.waitingRelease /\ r.longpress = g.longpress
          /\ r.twoTouch = g.twoTouch /\ r.out = <<>>
      BY <1>0, <1>1 DEF TouchFields
    <2> HIDE DEF r
    <2>2. TouchShape(r)
      BY <1>0, <1>1, <2>1 DEF TouchShape
    <2>3. Active(r) = Active(g)
      BY <2>1 DEF Active
    <2>4. Tracking(r, down \union {id})
      BY <1>0, <2>1, <2>3 DEF Tracking
    <2>5. Fresh(r)
      BY <1>1, <2>1 DEF Fresh, SomeActive, Ready
    <2>6. Possible(r.state, Len(r.tracked), r.waitingRelease)
      BY <1>1, <2>1 DEF Possible, Ready
    <2>7. Timers(r)
      BY <1>1, <2>1 DEF Timers, Ready
    <2> QED BY <1>1, <2>1, <2>2, <2>4, <2>5, <2>6, <2>7 DEF Ready
  <1>2. CASE HasDetectedGesture(g) \/ g.state = {}
    <2>1. r = [g EXCEPT !.state = g.state, !.ignored = @ \union {id}]
      BY <1>0, <1>2 DEF TouchStart, TouchFields
    <2>2. Grip(g.state) = h
      BY DEF Ready
    <2>3. g.tracked = <<>> => g.state = {}
      <3>1. HasDetectedGesture(g) => \E x \in AllGestures : g.state = {x}
        BY <1>0, Detected
      <3>2. HasDetectedGesture(g) => g.state # AllGestures
        BY <3>1, GestureSets
      <3>3. g.tracked = <<>> => g.state = {} \/ g.state = AllGestures
        BY DEF Ready, Fresh
      <3> QED BY <1>2, <3>2, <3>3
    <2> HIDE DEF r
    <2>4. Ready(r, down \union {id}, h) /\ r.out = <<>>
      BY <1>1, <2>1, <2>2, <2>3
    <2> QED BY <2>4, TellsNothing DEF r
  <1>3. ~(HasDetectedGesture(g) \/ g.state = {}) => h = "none" /\ \A x : x \notin Taps => g.state # {x}
    <2>1. SUFFICES ASSUME ~HasDetectedGesture(g), g.state # {}
                   PROVE h = "none" /\ \A x : x \notin Taps => g.state # {x}
      BY Zenon
    <2>2. ASSUME NEW x, x \notin Taps PROVE g.state # {x}
      BY <1>0, <2>1, <2>2, Detected
    <2>3. "drag" \notin Taps /\ "longpress" \notin Taps
      BY DEF Taps
    <2>4. h = Grip(g.state)
      BY DEF Ready
    <2> QED BY <2>2, <2>3, <2>4 DEF Grip
  <1>4. CASE ~(HasDetectedGesture(g) \/ g.state = {}) /\ ((late /\ g.tracked # <<>>) \/ g.waitingRelease)
    <2>1. r = [g EXCEPT !.state = {}, !.ignored = @ \union {id}]
      BY <1>4 DEF TouchStart
    <2>2. Grip({}) = h
      BY <1>3, <1>4 DEF Grip
    <2> HIDE DEF r
    <2>3. Ready(r, down \union {id}, h) /\ r.out = <<>>
      BY <1>1, <2>1, <2>2
    <2> QED BY <2>3, TellsNothing DEF r
  <1>5. CASE ~(HasDetectedGesture(g) \/ g.state = {}) /\ ~((late /\ g.tracked # <<>>) \/ g.waitingRelease)
    <2>1. /\ seen \in Seq(Finger) /\ Len(seen) = n + 1
          /\ \A i \in 1..n : seen[i] = g.tracked[i]
          /\ seen[n + 1] = [id |-> id, active |-> TRUE, at |-> "near"]
      <3> DEFINE new == [id |-> id, active |-> TRUE, at |-> "near"]
      <3>1. new \in Finger /\ seen = Append(g.tracked, new)
        BY DEF Finger, Moves
      <3> HIDE DEF new, seen
      <3>2. seen \in Seq(Finger) /\ Len(seen) = n + 1 /\ \A i \in 1..n : seen[i] = g.tracked[i]
        BY <1>0, <3>1
      <3>3. seen[n + 1] = new
        BY <1>0, <3>1
      <3> QED BY <3>2, <3>3 DEF new
    <2>2. /\ DOMAIN more = TouchFields /\ more.state = g.state /\ more.tracked = seen
          /\ more.ignored = g.ignored /\ more.waitingRelease = g.waitingRelease
          /\ more.longpress = g.longpress /\ more.twoTouch = g.twoTouch /\ more.out = <<>>
      BY <1>0 DEF TouchFields
    <2>3. r = CASE n + 1 = 1 -> [more EXCEPT !.longpress = TRUE]
                [] n + 1 = 2 -> [more EXCEPT !.longpress = FALSE,
                                             !.state = @ \ {"onetap", "drag", "longpress"}]
                [] n + 1 = 3 -> [more EXCEPT !.state = @ \ ({"twotap"} \union TwoFinger)]
                [] OTHER -> [more EXCEPT !.state = {}]
      BY <1>5, <2>1, <2>2 DEF TouchStart
    <2> HIDE DEF seen
    <2>4. ASSUME NEW q, q.tracked = seen PROVE Active(q) = Active(g) \union {id} /\ SomeActive(q)
      <3>1. DOMAIN seen = 1..(n + 1) /\ DOMAIN g.tracked = 1..n
        BY <1>0, <2>1
      <3>2. seen[n + 1].id = id /\ seen[n + 1].active
        BY <2>1
      <3>3. SomeActive(q)
        BY <1>0, <2>4, <3>1, <3>2 DEF SomeActive
      <3>4. ASSUME NEW a \in Active(q) PROVE a \in Active(g) \union {id}
        <4>1. PICK i \in 1..(n + 1) : seen[i].active /\ a = seen[i].id
          BY <2>4, <3>1 DEF Active
        <4>2. CASE i = n + 1
          BY <3>2, <4>1, <4>2
        <4>3. CASE i \in 1..n
          <5>1. g.tracked[i].active /\ a = g.tracked[i].id /\ i \in DOMAIN g.tracked
            BY <2>1, <3>1, <4>1, <4>3
          <5> QED BY <5>1 DEF Active
        <4> QED BY <1>0, <4>2, <4>3
      <3>5. ASSUME NEW a \in Active(g) PROVE a \in Active(q)
        <4>1. PICK i \in 1..n : g.tracked[i].active /\ a = g.tracked[i].id
          BY <3>1 DEF Active
        <4>2. i \in DOMAIN q.tracked /\ q.tracked[i].active /\ a = q.tracked[i].id
          BY <1>0, <2>1, <2>4, <3>1, <4>1
        <4> QED BY <4>2 DEF Active
      <3>6. id \in Active(q)
        <4>1. n + 1 \in DOMAIN q.tracked /\ q.tracked[n + 1].active /\ id = q.tracked[n + 1].id
          BY <1>0, <2>4, <3>1, <3>2
        <4> QED BY <4>1 DEF Active
      <3> QED BY <3>3, <3>4, <3>5, <3>6
    <2>5. /\ n = 0 => g.state = AllGestures
          /\ n = 1 => g.state = AllGestures
          /\ n = 2 => g.state \in {Pairs, TwoFinger}
          /\ n > 2 => g.state = {"threetap"}
          /\ ~g.waitingRelease
      <3>1. n = 0 => g.tracked = <<>>
        BY <1>0
      <3>2. ~g.waitingRelease /\ g.state # {}
        BY <1>0, <1>5
      <3>3. g.state # {"drag"} /\ g.state # {"longpress"} /\ g.state # {"twodrag"} /\ g.state # {"pinch"}
        BY <1>3, <1>5 DEF Taps
      <3>4. Possible(g.state, n, g.waitingRelease) /\ Fresh(g)
        BY DEF Ready
      <3> QED BY <3>1, <3>2, <3>3, <3>4 DEF Possible, Fresh
    <2> HIDE DEF more
    <2>6. ASSUME NEW q, NEW S, DOMAIN q = TouchFields, q.state = S, q.tracked = seen, q.ignored = g.ignored,
                 q.waitingRelease = g.waitingRelease, q.twoTouch = g.twoTouch, q.longpress \in BOOLEAN,
                 q.out = <<>>, S \subseteq AllGestures, \A x : x \notin Taps => S # {x},
                 Possible(S, n + 1, FALSE), Timers(q)
          PROVE Recognised(q, down \union {id}, h)
      <3>1. TouchShape(q)
        BY <1>0, <2>1, <2>6 DEF TouchShape
      <3>2. Tracking(q, down \union {id})
        <4>1. Active(q) = Active(g) \union {id}
          BY <2>4, <2>6
        <4> QED BY <1>0, <2>6, <4>1 DEF Tracking
      <3>3. h = Grip(q.state)
        <4>1. "drag" \notin Taps /\ "longpress" \notin Taps
          BY DEF Taps
        <4> QED BY <1>3, <1>5, <2>6, <4>1 DEF Grip
      <3>4. Fresh(q)
        <4>1. seen # <<>>
          BY <1>0, <2>1
        <4> QED BY <2>4, <2>6, <4>1 DEF Fresh
      <3>5. Possible(q.state, Len(q.tracked), q.waitingRelease)
        BY <2>1, <2>5, <2>6 DEF Possible
      <3>6. Ready(q, down \union {id}, h)
        BY <2>6, <3>1, <3>2, <3>3, <3>4, <3>5 DEF Ready
      <3> QED BY <2>6, <3>6, TellsNothing
    <2>7. Timers(g)
      BY DEF Ready
    <2>8. CASE n = 0
      <3> DEFINE q == [more EXCEPT !.longpress = TRUE]
      <3>1. r = q
        BY <2>3, <2>8
      <3>2. /\ DOMAIN q = TouchFields /\ q.state = AllGestures /\ q.tracked = seen /\ q.ignored = g.ignored
            /\ q.waitingRelease = g.waitingRelease /\ q.longpress = TRUE /\ q.twoTouch = g.twoTouch
            /\ q.out = <<>>
        BY <2>2, <2>5, <2>8 DEF TouchFields
      <3> HIDE DEF q
      <3>3. Timers(q)
        BY <2>1, <2>5, <2>7, <2>8, <3>2 DEF Timers
      <3>4. \A x : x \notin Taps => AllGestures # {x}
        BY GestureSets
      <3>5. Possible(AllGestures, n + 1, FALSE)
        BY <2>8 DEF Possible
      <3>6. Recognised(q, down \union {id}, h)
        BY <2>6, <3>2, <3>3, <3>4, <3>5
      <3> QED BY <3>1, <3>6
    <2>9. CASE n = 1
      <3> DEFINE q == [more EXCEPT !.longpress = FALSE, !.state = @ \ {"onetap", "drag", "longpress"}]
      <3>1. r = q
        BY <2>3, <2>9
      <3>2. /\ DOMAIN q = TouchFields /\ q.state = Pairs /\ q.tracked = seen /\ q.ignored = g.ignored
            /\ q.waitingRelease = g.waitingRelease /\ q.longpress = FALSE /\ q.twoTouch = g.twoTouch
            /\ q.out = <<>>
        BY <2>2, <2>5, <2>9, GestureSets DEF TouchFields
      <3> HIDE DEF q
      <3>3. Timers(q)
        BY <2>1, <2>5, <2>7, <2>9, <3>2 DEF Timers
      <3>4. (\A x : x \notin Taps => Pairs # {x}) /\ Pairs \subseteq AllGestures
        BY GestureSets
      <3>5. Possible(Pairs, n + 1, FALSE)
        BY <2>9 DEF Possible
      <3>6. Recognised(q, down \union {id}, h)
        BY <2>6, <3>2, <3>3, <3>4, <3>5
      <3> QED BY <3>1, <3>6
    <2>10. CASE n = 2
      <3> DEFINE q == [more EXCEPT !.state = @ \ ({"twotap"} \union TwoFinger)]
                 S == g.state \ ({"twotap"} \union TwoFinger)
      <3>1. r = q
        BY <2>3, <2>10
      <3>2. /\ DOMAIN q = TouchFields /\ q.state = S /\ q.tracked = seen /\ q.ignored = g.ignored
            /\ q.waitingRelease = g.waitingRelease /\ q.longpress = g.longpress /\ q.twoTouch = g.twoTouch
            /\ q.out = <<>>
        BY <2>2 DEF TouchFields
      <3>3. (g.state = Pairs /\ S = {"threetap"}) \/ (g.state = TwoFinger /\ S = {})
        <4>1. g.state = Pairs \/ g.state = TwoFinger
          BY <2>5, <2>10
        <4>2. g.state = Pairs => S = {"threetap"}
          BY GestureSets
        <4>3. g.state = TwoFinger => S = {}
          BY GestureSets
        <4> QED BY <4>1, <4>2, <4>3
      <3> HIDE DEF q, S
      <3>4. Timers(q)
        <4>1. ~q.longpress /\ Len(q.tracked) > 1
          <5>1. g.longpress => n = 1
            BY <2>7 DEF Timers
          <5>2. ~g.longpress
            BY <2>10, <5>1
          <5>3. q.longpress = FALSE
            BY <1>0, <3>2, <5>2
          <5>4. Len(q.tracked) = n + 1
            BY <2>1, <3>2
          <5> QED BY <2>10, <5>3, <5>4
        <4>2. q.twoTouch = "armed" => g.state \in {{}, TwoFinger}
          BY <2>7, <3>2 DEF Timers
        <4>3. g.state \in {{}, TwoFinger} => S = {}
          BY <3>3, GestureSets
        <4> QED BY <3>2, <4>1, <4>2, <4>3 DEF Timers
      <3>5. (\A x : x \notin Taps => S # {x}) /\ S \subseteq AllGestures
        BY <3>3 DEF Taps, AllGestures
      <3>6. Possible(S, n + 1, FALSE)
        BY <2>10, <3>3 DEF Possible
      <3>7. Recognised(q, down \union {id}, h)
        BY <1>0, <2>6, <3>2, <3>4, <3>5, <3>6
      <3> QED BY <3>1, <3>7
    <2>11. CASE n > 2
      <3> DEFINE q == [more EXCEPT !.state = {}]
      <3>1. r = q
        BY <1>0, <2>3, <2>11
      <3>2. /\ DOMAIN q = TouchFields /\ q.state = {} /\ q.tracked = seen /\ q.ignored = g.ignored
            /\ q.waitingRelease = g.waitingRelease /\ q.longpress = g.longpress /\ q.twoTouch = g.twoTouch
            /\ q.out = <<>>
        BY <2>2 DEF TouchFields
      <3> HIDE DEF q
      <3>4. Timers(q)
        BY <1>0, <2>1, <2>5, <2>7, <2>11, <3>2 DEF Timers
      <3>6. Possible({}, n + 1, FALSE)
        BY <2>11 DEF Possible
      <3>7. Recognised(q, down \union {id}, h)
        BY <1>0, <2>6, <3>2, <3>4, <3>6
      <3> QED BY <3>1, <3>7
    <2>12. n = 0 \/ n = 1 \/ n = 2 \/ n > 2
      <3>1. n \in Nat
        BY <1>0
      <3> HIDE DEF n
      <3> QED BY <3>1
    <2> QED BY <2>8, <2>9, <2>10, <2>11, <2>12, Zenon
  <1> QED BY <1>2, <1>4, <1>5, Zenon

\* With fingers to follow, the gestures still possible are others than before.
LEMMA OtherHopes ==
  ASSUME NEW g, NEW down, NEW h, Ready(g, down, h), g.tracked # <<>>,
         NEW q, DOMAIN q = TouchFields, q.tracked = g.tracked, q.ignored = g.ignored,
         q.waitingRelease = g.waitingRelease, q.longpress = FALSE,
         q.twoTouch \in {"none", "armed", "fired"}, q.state \subseteq AllGestures,
         q.twoTouch = "armed" => Len(g.tracked) > 1 /\ q.state \in {{}, TwoFinger},
         Possible(q.state, Len(g.tracked), g.waitingRelease)
  PROVE Ready(q, down, Grip(q.state))
  <1>1. TouchShape(q)
    BY DEF Ready, TouchShape
  <1>2. Tracking(q, down)
    BY DEF Ready, Tracking, Active
  <1>3. Fresh(q)
    BY DEF Ready, Fresh, SomeActive
  <1>4. Timers(q)
    BY DEF Timers
  <1> QED BY <1>1, <1>2, <1>3, <1>4 DEF Ready

\* Grip and Button say the same of one gesture.
LEMMA GripIsButton == \A x \in AllGestures : Grip({x}) = Button(x)
  <1>1. \A x : {x} = {"drag"} <=> x = "drag"
    OBVIOUS
  <1>2. \A x : {x} = {"longpress"} <=> x = "longpress"
    OBVIOUS
  <1> QED BY <1>1, <1>2 DEF Grip, Button

\* The place of a finger does not matter for what is followed.
LEMMA MovedReady ==
  ASSUME NEW g, NEW down, NEW h, Ready(g, down, h), g.out = <<>>, NEW i \in DOMAIN g.tracked,
         NEW at \in Moves
  PROVE LET m == [g EXCEPT !.tracked[i].at = at]
        IN  /\ Ready(m, down, h) /\ m.out = <<>> /\ m.state = g.state
            /\ HasDetectedGesture(m) <=> HasDetectedGesture(g)
            /\ m.tracked # <<>> /\ i \in 1..Len(m.tracked)
            /\ m.tracked[i].at = at
  <1> DEFINE m == [g EXCEPT !.tracked[i].at = at]
             t == [g.tracked EXCEPT ![i].at = at]
             n == Len(g.tracked)
  <1>1. /\ DOMAIN g = TouchFields /\ g.state \subseteq AllGestures /\ g.tracked \in Seq(Finger) /\ n \in Nat
        /\ DOMAIN g.tracked = 1..n /\ i \in 1..n
    BY DEF Ready, TouchShape
  <1>2. m = [g EXCEPT !.tracked = t]
    OBVIOUS
  <1>3. \A j \in 1..n : g.tracked[j] \in Finger
    BY <1>1
  <1>4. DOMAIN t = 1..n /\ t[i] = [g.tracked[i] EXCEPT !.at = at] /\ \A j \in (1..n) \ {i} : t[j] = g.tracked[j]
    BY <1>1
  <1>5. /\ t[i] \in Finger /\ t[i].at = at /\ t[i].id = g.tracked[i].id
        /\ t[i].active = g.tracked[i].active
    BY <1>1, <1>3, <1>4 DEF Finger
  <1> DEFINE s == [j \in 1..n |-> t[j]]
  <1>6. t = s
    BY <1>4, <1>1
  <1> HIDE DEF t
  <1>7. \A j \in 1..n : t[j] \in Finger /\ t[j].id = g.tracked[j].id /\ t[j].active = g.tracked[j].active
    BY <1>3, <1>4, <1>5
  <1>8. s \in Seq(Finger) /\ Len(s) = n
    BY <1>1, <1>7
  <1> HIDE DEF s
  <1>9. t \in Seq(Finger) /\ Len(t) = n /\ t # <<>>
    BY <1>1, <1>6, <1>8
  <1>10. /\ DOMAIN m = TouchFields /\ m.state = g.state /\ m.tracked = t /\ m.ignored = g.ignored
         /\ m.waitingRelease = g.waitingRelease /\ m.longpress = g.longpress /\ m.twoTouch = g.twoTouch
         /\ m.out = <<>>
    BY <1>1, <1>2 DEF TouchFields
  <1> HIDE DEF m
  <1>11. Active(m) = Active(g)
    <2>1. ASSUME NEW a \in Active(m) PROVE a \in Active(g)
      <3>1. PICK j \in 1..n : t[j].active /\ a = t[j].id
        BY <1>4, <1>10, <2>1 DEF Active
      <3>2. g.tracked[j].active /\ a = g.tracked[j].id
        BY <1>7, <3>1
      <3> QED BY <1>1, <3>2 DEF Active
    <2>2. ASSUME NEW a \in Active(g) PROVE a \in Active(m)
      <3>1. PICK j \in 1..n : g.tracked[j].active /\ a = g.tracked[j].id
        BY <1>1, <2>2 DEF Active
      <3>2. m.tracked[j].active /\ a = m.tracked[j].id /\ j \in DOMAIN m.tracked
        BY <1>4, <1>7, <1>10, <3>1
      <3> QED BY <3>2 DEF Active
    <2> QED BY <2>1, <2>2
  <1>12. SomeActive(m) <=> SomeActive(g)
    BY <1>1, <1>4, <1>7, <1>10 DEF SomeActive
  <1>13. TouchShape(m)
    BY <1>9, <1>10 DEF Ready, TouchShape
  <1>14. Tracking(m, down)
    BY <1>10, <1>11 DEF Ready, Tracking
  <1>15. Fresh(m)
    <2>1. g.tracked # <<>>
      BY <1>1
    <2> QED BY <1>9, <1>10, <1>12, <2>1 DEF Ready, Fresh
  <1>16. Timers(m) /\ Possible(m.state, Len(m.tracked), m.waitingRelease)
    BY <1>9, <1>10 DEF Ready, Timers
  <1>17. Ready(m, down, h)
    BY <1>10, <1>13, <1>14, <1>15, <1>16 DEF Ready
  <1>18. HasDetectedGesture(m) <=> HasDetectedGesture(g)
    BY <1>10, <1>12 DEF HasDetectedGesture
  <1>19. i \in 1..Len(m.tracked) /\ m.tracked # <<>> /\ m.tracked[i].at = at
    BY <1>1, <1>5, <1>9, <1>10
  <1> QED BY <1>10, <1>17, <1>18, <1>19 DEF m

\* Narrow leaves what the fingers may still mean: a gesture detected now is a new one.
LEMMA NarrowReady ==
  ASSUME NEW g, NEW down, NEW h, Ready(g, down, h), ~HasDetectedGesture(g), g.out = <<>>,
         NEW i \in 1..Len(g.tracked)
  PROVE LET q == Narrow(g, i) IN h = "none" /\ Ready(q, down, Grip(q.state)) /\ q.out = <<>>
  <1> DEFINE n == Len(g.tracked)
             left == g.state \ (Taps \union {"longpress"} \union (IF n # 1 THEN {"drag"} ELSE {})
                                  \union (IF n # 2 THEN TwoFinger ELSE {}))
             still == [g EXCEPT !.state = left, !.longpress = FALSE]
             other == g.tracked[IF n = 2 THEN 3 - i ELSE i].at
             q == Narrow(g, i)
  <1>1. /\ DOMAIN g = TouchFields /\ g.state \subseteq AllGestures /\ g.tracked \in Seq(Finger) /\ n \in Nat
        /\ n > 0 /\ g.tracked # <<>> /\ g.waitingRelease \in BOOLEAN
        /\ g.twoTouch \in {"none", "armed", "fired"}
    BY DEF Ready, TouchShape
  <1>2. \A x \in AllGestures : x \notin Taps => g.state # {x}
    BY <1>1, Detected
  <1>3. g.state # {"drag"} /\ g.state # {"longpress"} /\ g.state # {"twodrag"} /\ g.state # {"pinch"}
    <2>1. /\ "drag" \in AllGestures /\ "longpress" \in AllGestures /\ "twodrag" \in AllGestures
          /\ "pinch" \in AllGestures
      BY DEF AllGestures, TwoFinger
    <2>2. "drag" \notin Taps /\ "longpress" \notin Taps /\ "twodrag" \notin Taps /\ "pinch" \notin Taps
      BY DEF Taps
    <2> QED BY <1>2, <2>1, <2>2
  <1>4. h = "none"
    BY <1>3 DEF Ready, Grip
  <1>5. /\ g.waitingRelease => g.state = {} \/ \E x \in Taps : g.state = {x}
        /\ ~g.waitingRelease /\ n = 1 => g.state \in {AllGestures, {}}
        /\ ~g.waitingRelease /\ n = 2 => g.state \in {Pairs, TwoFinger, {}}
        /\ ~g.waitingRelease /\ n > 2 => g.state \in {{"threetap"}, {}}
    <2>1. Possible(g.state, n, g.waitingRelease)
      BY DEF Ready
    <2>2. \A x \in TwoFinger : g.state # {x}
      BY <1>3 DEF TwoFinger
    <2> HIDE DEF n
    <2>3. g.waitingRelease => g.state = {} \/ \E x \in Taps : g.state = {x}
      BY <1>1, <2>1, <2>2 DEF Possible
    <2>4. /\ ~g.waitingRelease /\ n = 1 => g.state \in {AllGestures, {}}
          /\ ~g.waitingRelease /\ n = 2 => g.state \in {Pairs, TwoFinger, {}}
          /\ ~g.waitingRelease /\ n > 2 => g.state \in {{"threetap"}, {}}
      BY <1>3, <2>1 DEF Possible
    <2> QED BY <2>3, <2>4
  <1>6. q = IF n # 2 THEN still
            ELSE IF other = "near" THEN [still EXCEPT !.twoTouch = IF @ = "none" THEN "armed" ELSE @]
            ELSE [still EXCEPT !.twoTouch = "none",
                               !.state = @ \ {IF other # g.tracked[i].at THEN "twodrag" ELSE "pinch"}]
    BY DEF Narrow
  <1>7. g.waitingRelease => left = {}
    BY <1>5
  <1>8. n = 1 => left \in {{"drag"}, {}}
    BY <1>1 DEF AllGestures, Taps, TwoFinger
  <1>9. n = 2 => left \in {TwoFinger, {}}
    <2>1. CASE n = 2 /\ g.waitingRelease
      BY <1>7, <2>1
    <2>2. CASE n = 2 /\ ~g.waitingRelease
      <3>1. left = g.state \ (Taps \union {"longpress"} \union {"drag"})
        BY <2>2
      <3>2. Pairs \ (Taps \union {"longpress"} \union {"drag"}) = TwoFinger
        BY DEF Pairs, Taps, TwoFinger
      <3>3. TwoFinger \ (Taps \union {"longpress"} \union {"drag"}) = TwoFinger
        BY DEF Taps, TwoFinger
      <3>4. g.state \in {Pairs, TwoFinger, {}}
        BY <1>5, <2>2
      <3> HIDE DEF left
      <3> QED BY <3>1, <3>2, <3>3, <3>4
    <2>3. g.waitingRelease \/ ~g.waitingRelease
      OBVIOUS
    <2> QED BY <2>1, <2>2, <2>3
  <1>10. n > 2 => left = {}
    <2>1. n > 2 => n # 1 /\ n # 2
      <3> HIDE DEF n
      <3> QED BY <1>1
    <2>2. n > 2 => left = g.state \ (Taps \union {"longpress"} \union {"drag"} \union TwoFinger)
      BY <2>1
    <2>3. g.state \ (Taps \union {"longpress"} \union {"drag"} \union TwoFinger) = {}
      BY <1>1 DEF AllGestures
    <2> QED BY <2>2, <2>3
  <1>11. left \subseteq AllGestures
    BY <1>1
  <1>12. /\ DOMAIN still = TouchFields /\ still.state = left /\ still.tracked = g.tracked
         /\ still.ignored = g.ignored /\ still.waitingRelease = g.waitingRelease /\ still.longpress = FALSE
         /\ still.twoTouch = g.twoTouch /\ still.out = <<>>
    BY <1>1 DEF TouchFields
  <1> HIDE DEF left, still, other
  <1>13. CASE n # 2
    <2>1. q = still
      BY <1>6, <1>13
    <2>2. g.twoTouch = "armed" => n > 1
      BY DEF Ready, Timers
    <2>3. n = 1 \/ n > 2
      <3> HIDE DEF n
      <3> QED BY <1>1, <1>13
    <2>4. g.twoTouch = "armed" => n > 1 /\ left \in {{}, TwoFinger}
      BY <1>10, <2>2, <2>3
    <2>5. Possible(left, n, g.waitingRelease)
      <3> HIDE DEF n
      <3>1. n = 1 => Possible(left, n, g.waitingRelease)
        BY <1>7, <1>8 DEF Possible
      <3>2. n > 2 => Possible(left, n, g.waitingRelease)
        BY <1>1, <1>10 DEF Possible
      <3> QED BY <2>3, <3>1, <3>2
    <2>6. Ready(still, down, Grip(still.state))
      BY <1>1, <1>11, <1>12, <2>4, <2>5, OtherHopes
    <2> QED BY <1>4, <1>12, <2>1, <2>6
  <1>14. CASE n = 2 /\ other = "near"
    <2> DEFINE r == [still EXCEPT !.twoTouch = IF @ = "none" THEN "armed" ELSE @]
    <2>1. q = r
      BY <1>6, <1>14
    <2>2. /\ DOMAIN r = TouchFields /\ r.state = left /\ r.tracked = g.tracked
          /\ r.ignored = g.ignored /\ r.waitingRelease = g.waitingRelease /\ r.longpress = FALSE
          /\ r.twoTouch \in {"none", "armed", "fired"} /\ r.out = <<>>
      BY <1>1, <1>12 DEF TouchFields
    <2> HIDE DEF r
    <2>3. Possible(left, n, g.waitingRelease)
      BY <1>7, <1>9, <1>14 DEF Possible
    <2>4. n > 1 /\ left \in {{}, TwoFinger}
      BY <1>9, <1>14
    <2>5. Ready(r, down, Grip(r.state))
      BY <1>1, <1>11, <2>2, <2>3, <2>4, OtherHopes
    <2> QED BY <1>4, <2>1, <2>2, <2>5
  <1>15. CASE n = 2 /\ other # "near"
    <2> DEFINE out == IF other # g.tracked[i].at THEN "twodrag" ELSE "pinch"
               S == left \ {out}
               r == [still EXCEPT !.twoTouch = "none", !.state = @ \ {out}]
    <2>1. q = r
      BY <1>6, <1>15
    <2>2. /\ DOMAIN r = TouchFields /\ r.state = S /\ r.tracked = g.tracked
          /\ r.ignored = g.ignored /\ r.waitingRelease = g.waitingRelease /\ r.longpress = FALSE
          /\ r.twoTouch = "none" /\ r.out = <<>>
      BY <1>12 DEF TouchFields
    <2> HIDE DEF r
    <2>3. out \in {"twodrag", "pinch"}
      OBVIOUS
    <2> HIDE DEF out
    <2>4. left = TwoFinger => S \in {{"twodrag"}, {"pinch"}}
      BY <2>3 DEF TwoFinger
    <2>5. left = {} => S = {}
      OBVIOUS
    <2>6. S \subseteq AllGestures
      BY <1>11
    <2> HIDE DEF S
    <2>7. Possible(S, n, g.waitingRelease)
      BY <1>7, <1>9, <1>15, <2>4, <2>5 DEF Possible
    <2>8. Ready(r, down, Grip(r.state))
      BY <1>1, <2>2, <2>6, <2>7, OtherHopes
    <2> QED BY <1>4, <2>1, <2>2, <2>8
  <1> QED BY <1>13, <1>14, <1>15

\* A finger moves.
LEMMA MoveReady ==
  ASSUME NEW g, NEW down, NEW h, Ready(g, down, h), g.out = <<>>, NEW id, NEW at \in Moves
  PROVE Recognised(TouchMove(g, id, at), down, h)
  <1> DEFINE r == TouchMove(g, id, at)
  <1>1. CASE Places(g, id) = {}
    BY <1>1, TellsNothing DEF TouchMove
  <1>2. CASE Places(g, id) # {}
    <2> DEFINE i == CHOOSE j \in Places(g, id) : TRUE
               m == [g EXCEPT !.tracked[i].at = at]
               w == Narrow(m, i)
    <2>1. r = IF HasDetectedGesture(m) THEN PushEvent(m, "move")
              ELSE IF at = "near" THEN m
              ELSE IF HasDetectedGesture(w) THEN PushEvent(PushEvent(w, "start"), "move")
              ELSE w
      BY <1>2 DEF TouchMove
    <2>2. i \in DOMAIN g.tracked
      BY <1>2 DEF Places
    <2> HIDE DEF i
    <2>3. /\ Ready(m, down, h) /\ m.out = <<>> /\ i \in 1..Len(m.tracked)
      BY <2>2, MovedReady
    <2> HIDE DEF m
    <2>4. CASE HasDetectedGesture(m)
      <3>1. PICK x \in AllGestures : m.state = {x}
        BY <2>3, <2>4, Detected DEF Ready, TouchShape
      <3>2. h = Button(x)
        BY <2>3, <3>1, GripIsButton DEF Ready
      <3>3. Recognised(PushEvent(m, "move"), down, h)
        BY <2>3, <3>1, <3>2, TellsMove
      <3> QED BY <2>1, <2>4, <3>3
    <2>5. ~HasDetectedGesture(m) => h = "none" /\ Ready(w, down, Grip(w.state)) /\ w.out = <<>>
      BY <2>3, NarrowReady
    <2> HIDE DEF w
    <2>6. CASE ~HasDetectedGesture(m) /\ at = "near"
      <3>1. r = m
        BY <2>1, <2>6
      <3> QED BY <2>3, <3>1, TellsNothing
    <2>7. CASE ~HasDetectedGesture(m) /\ at # "near" /\ HasDetectedGesture(w)
      <3>1. PICK x \in AllGestures : w.state = {x}
        BY <2>5, <2>7, Detected DEF Ready, TouchShape
      <3>2. Grip(w.state) = Button(x)
        BY <3>1, GripIsButton
      <3>3. Recognised(PushEvent(PushEvent(w, "start"), "move"), down, "none")
        BY <2>5, <2>7, <3>1, <3>2, TellsBegin
      <3> QED BY <2>1, <2>5, <2>7, <3>3
    <2>8. CASE ~HasDetectedGesture(m) /\ at # "near" /\ ~HasDetectedGesture(w)
      <3>1. Grip(w.state) = "none"
        <4>1. "drag" \in AllGestures \ Taps /\ "longpress" \in AllGestures \ Taps
          BY DEF AllGestures, Taps, TwoFinger
        <4> QED BY <2>5, <2>8, <4>1, Detected DEF Grip, Ready, TouchShape
      <3>2. r = w
        BY <2>1, <2>8
      <3> QED BY <2>5, <2>8, <3>1, <3>2, TellsNothing
    <2> QED BY <2>4, <2>6, <2>7, <2>8, Zenon
  <1> QED BY <1>1, <1>2

\* A finger that was ignored is lifted.
LEMMA IgnoredReady ==
  ASSUME NEW g, NEW down, NEW h, Ready(g, down, h), g.out = <<>>, NEW id \in g.ignored
  PROVE Recognised(IgnoredEnd(g, id), down \ {id}, h)
  <1> DEFINE rest == g.ignored \ {id}
             r == IgnoredEnd(g, id)
  <1>1. /\ DOMAIN g = TouchFields /\ down = Active(g) \union g.ignored /\ Active(g) \intersect g.ignored = {}
        /\ g.waitingRelease \in BOOLEAN
    BY DEF Ready, TouchShape, Tracking
  <1>2. CASE rest = {} /\ g.tracked = <<>>
    <2>1. r = [g EXCEPT !.ignored = {}, !.state = AllGestures, !.waitingRelease = FALSE]
      BY <1>2 DEF IgnoredEnd
    <2>2. /\ DOMAIN r = TouchFields /\ r.state = AllGestures /\ r.tracked = <<>> /\ r.ignored = {}
          /\ r.waitingRelease = FALSE /\ r.longpress = g.longpress /\ r.twoTouch = g.twoTouch /\ r.out = <<>>
      BY <1>1, <1>2, <2>1 DEF TouchFields
    <2> HIDE DEF r
    <2>3. TouchShape(r)
      <3>1. <<>> \in Seq(Finger)
        OBVIOUS
      <3> QED BY <2>2, <3>1 DEF Ready, TouchShape
    <2>4. Active(r) = {} /\ down \ {id} = {}
      BY <1>1, <1>2, <2>2 DEF Active
    <2>5. Tracking(r, down \ {id}) /\ Fresh(r)
      BY <2>2, <2>4 DEF Tracking, Fresh
    <2>6. Len(g.tracked) = 0
      BY <1>2
    <2>7. Timers(r)
      BY <2>2, <2>6 DEF Ready, Timers
    <2>8. Possible(r.state, Len(r.tracked), r.waitingRelease)
      BY <2>2 DEF Possible
    <2>9. h = "none" /\ Grip(r.state) = "none"
      <3>1. g.state = {} \/ g.state = AllGestures
        BY <1>2 DEF Ready, Fresh
      <3>2. Grip({}) = "none" /\ Grip(AllGestures) = "none"
        BY GestureSets DEF Grip
      <3> QED BY <2>2, <3>1, <3>2 DEF Ready
    <2>10. Ready(r, down \ {id}, h)
      BY <2>3, <2>5, <2>7, <2>8, <2>9 DEF Ready
    <2> QED BY <2>2, <2>10, TellsNothing DEF r
  <1>3. CASE ~(rest = {} /\ g.tracked = <<>>)
    <2>1. r = [g EXCEPT !.ignored = rest]
      BY <1>3 DEF IgnoredEnd
    <2>2. /\ DOMAIN r = TouchFields /\ r.state = g.state /\ r.tracked = g.tracked /\ r.ignored = rest
          /\ r.waitingRelease = g.waitingRelease /\ r.longpress = g.longpress /\ r.twoTouch = g.twoTouch
          /\ r.out = <<>>
      BY <1>1, <2>1 DEF TouchFields
    <2> HIDE DEF r
    <2>3. TouchShape(r)
      BY <2>2 DEF Ready, TouchShape
    <2>4. Active(r) = Active(g)
      BY <2>2 DEF Active
    <2>5. Tracking(r, down \ {id})
      BY <1>1, <2>2, <2>4 DEF Tracking
    <2>6. Fresh(r)
      <3>1. g.tracked = <<>> => g.state = {}
        BY <1>3 DEF Ready, Fresh
      <3>2. g.tracked # <<>> => SomeActive(r)
        BY <2>2 DEF Ready, Fresh, SomeActive
      <3> QED BY <1>3, <2>2, <3>1, <3>2 DEF Fresh
    <2>7. Timers(r) /\ Possible(r.state, Len(r.tracked), r.waitingRelease) /\ h = Grip(r.state)
      BY <2>2 DEF Ready, Timers
    <2>8. Ready(r, down \ {id}, h)
      BY <2>3, <2>5, <2>6, <2>7 DEF Ready
    <2> QED BY <2>2, <2>8, TellsNothing DEF r
  <1> QED BY <1>2, <1>3

\* Cleanup ignores the fingers that are still down.
LEMMA CleanupReady ==
  ASSUME NEW c, NEW id, NEW down, DOMAIN c = TouchFields, c.longpress = FALSE,
         c.twoTouch \in {"none", "fired"}, c.waitingRelease \in BOOLEAN,
         down \ {id} = (c.ignored \union Active(c)) \ {id}
  PROVE Ready(Cleanup(c, id), down \ {id}, "none") /\ Cleanup(c, id).out = c.out
  <1> DEFINE I == (c.ignored \union Active(c)) \ {id}
             r == Cleanup(c, id)
             S == IF I = {} THEN AllGestures ELSE {}
             waiting == IF I = {} THEN FALSE ELSE c.waitingRelease
  <1>1. r = IF I = {}
            THEN [c EXCEPT !.tracked = <<>>, !.ignored = {}, !.state = AllGestures, !.waitingRelease = FALSE]
            ELSE [c EXCEPT !.tracked = <<>>, !.ignored = I, !.state = {}]
    BY DEF Cleanup, Active
  <1>2. down \ {id} = I
    OBVIOUS
  <1> HIDE DEF I
  <1>3. /\ DOMAIN r = TouchFields /\ r.state = S /\ r.tracked = <<>> /\ r.ignored = I
        /\ r.waitingRelease = waiting /\ r.longpress = FALSE /\ r.twoTouch = c.twoTouch /\ r.out = c.out
    BY <1>1 DEF TouchFields
  <1> HIDE DEF r
  <1>4. TouchShape(r)
    <2>1. <<>> \in Seq(Finger) /\ S \subseteq AllGestures
      OBVIOUS
    <2>2. waiting \in BOOLEAN
      OBVIOUS
    <2> HIDE DEF S, waiting
    <2> QED BY <1>3, <2>1, <2>2 DEF TouchShape
  <1>5. Active(r) = {}
    BY <1>3 DEF Active
  <1>6. Tracking(r, I)
    BY <1>3, <1>5 DEF Tracking
  <1>7. Fresh(r) /\ Timers(r) /\ Possible(r.state, Len(r.tracked), r.waitingRelease)
    BY <1>3 DEF Fresh, Timers, Possible
  <1>8. Grip(r.state) = "none"
    BY <1>3, GestureSets DEF Grip
  <1> QED BY <1>2, <1>3, <1>4, <1>6, <1>7, <1>8 DEF Ready, r

\* What is left when a finger is lifted.
Over(g, d, h) ==
    /\ DOMAIN d = TouchFields /\ d.tracked = g.tracked /\ d.ignored = g.ignored /\ d.out = <<>>
    /\ d.longpress = FALSE /\ d.twoTouch \in {"none", "fired"} /\ d.waitingRelease \in BOOLEAN
    /\ ~d.waitingRelease => \E x \in AllGestures \ Taps : d.state = {x} /\ h = Button(x)
    /\ d.waitingRelease =>
          h = "none" /\ (d.state = {} \/ \E x \in Taps \union TwoFinger : d.state = {x})

\* A finger that is lifted leaves a gesture already detected, or only taps.
LEMMA LiftingReady ==
  ASSUME NEW g, NEW down, NEW h, Ready(g, down, h), g.out = <<>>, g.tracked # <<>>
  PROVE Over(g, Lifting(g), h)
  <1> DEFINE d == Lifting(g)
             n == Len(g.tracked)
             cut == IF g.twoTouch # "none" THEN [g EXCEPT !.twoTouch = "none", !.state = {}] ELSE g
             taps == cut.state \ ({"drag", "longpress"} \union TwoFinger)
             fitting == IF g.waitingRelease THEN taps
                        ELSE CASE n = 1 -> taps \ {"twotap", "threetap"}
                               [] n = 2 -> taps \ {"onetap", "threetap"}
                               [] OTHER -> taps
  <1>1. /\ DOMAIN g = TouchFields /\ g.state \subseteq AllGestures /\ g.tracked \in Seq(Finger) /\ n \in Nat
        /\ n > 0 /\ g.waitingRelease \in BOOLEAN /\ g.longpress \in BOOLEAN
        /\ g.twoTouch \in {"none", "armed", "fired"} /\ SomeActive(g) /\ h = Grip(g.state)
        /\ Possible(g.state, n, g.waitingRelease) /\ Timers(g)
    BY DEF Ready, TouchShape, Fresh
  <1>2. CASE HasDetectedGesture(g)
    <2>1. d = g
      BY <1>2 DEF Lifting
    <2>2. PICK x \in AllGestures : g.state = {x} /\ x \notin Taps
      BY <1>1, <1>2, Detected
    <2>3. h = Button(x)
      BY <1>1, <2>2, GripIsButton
    <2>4. g.longpress = FALSE /\ g.twoTouch # "armed"
      BY <1>1, <2>2, GestureSets DEF Timers
    <2>5. g.waitingRelease => h = "none" /\ x \in TwoFinger
      <3>1. SUFFICES ASSUME g.waitingRelease PROVE h = "none" /\ x \in TwoFinger
        OBVIOUS
      <3>2. PICK y \in Taps \union TwoFinger : g.state = {y}
        BY <1>1, <2>2, <3>1 DEF Possible
      <3>3. x = y
        BY <2>2, <3>2
      <3>4. x \in TwoFinger
        BY <2>2, <3>2, <3>3
      <3> QED BY <2>3, <3>4 DEF Button, TwoFinger
    <2>6. /\ ~g.waitingRelease => \E y \in AllGestures \ Taps : g.state = {y} /\ h = Button(y)
          /\ g.waitingRelease => h = "none" /\ \E y \in Taps \union TwoFinger : g.state = {y}
      BY <2>2, <2>3, <2>5
    <2> HIDE DEF d
    <2> QED BY <1>1, <2>1, <2>4, <2>6 DEF Over, d
  <1>3. CASE ~HasDetectedGesture(g)
    <2>1. d = [cut EXCEPT !.state = fitting, !.longpress = FALSE, !.waitingRelease = TRUE]
      BY <1>3 DEF Lifting
    <2>2. \A x \in AllGestures : x \notin Taps => g.state # {x}
      BY <1>1, <1>3, Detected
    <2>3. g.state # {"drag"} /\ g.state # {"longpress"} /\ g.state # {"twodrag"} /\ g.state # {"pinch"}
      <3>1. /\ "drag" \in AllGestures /\ "longpress" \in AllGestures /\ "twodrag" \in AllGestures
            /\ "pinch" \in AllGestures
        BY DEF AllGestures, TwoFinger
      <3>2. "drag" \notin Taps /\ "longpress" \notin Taps /\ "twodrag" \notin Taps /\ "pinch" \notin Taps
        BY DEF Taps
      <3> QED BY <2>2, <3>1, <3>2
    <2>4. h = "none"
      BY <1>1, <2>3 DEF Grip
    <2>5. /\ DOMAIN cut = TouchFields /\ cut.state \in {g.state, {}} /\ cut.tracked = g.tracked
          /\ cut.ignored = g.ignored /\ cut.out = <<>> /\ cut.twoTouch = "none"
      BY <1>1 DEF TouchFields
    <2> HIDE DEF cut
    <2>6. fitting = {} \/ \E x \in Taps : fitting = {x}
      <3>1. taps \subseteq Taps
        BY <1>1, <2>5 DEF AllGestures, Taps, TwoFinger
      <3>2. CASE g.waitingRelease
        <4>1. fitting = taps
          BY <3>2
        <4>2. g.state = {} \/ \E x \in Taps \union TwoFinger : g.state = {x}
          BY <1>1, <3>2 DEF Possible
        <4>3. taps = {} \/ \E x : taps = {x}
          BY <2>5, <4>2
        <4> HIDE DEF taps, fitting
        <4> QED BY <3>1, <4>1, <4>3
      <3>3. CASE ~g.waitingRelease /\ n = 1
        <4>1. fitting = taps \ {"twotap", "threetap"}
          BY <3>3
        <4> HIDE DEF taps, fitting
        <4>2. fitting \subseteq {"onetap"}
          BY <3>1, <4>1 DEF Taps
        <4>3. "onetap" \in Taps
          BY DEF Taps
        <4> QED BY <4>2, <4>3
      <3>4. CASE ~g.waitingRelease /\ n = 2
        <4>1. fitting = taps \ {"onetap", "threetap"}
          BY <3>4
        <4> HIDE DEF taps, fitting
        <4>2. fitting \subseteq {"twotap"}
          BY <3>1, <4>1 DEF Taps
        <4>3. "twotap" \in Taps
          BY DEF Taps
        <4> QED BY <4>2, <4>3
      <3>5. CASE ~g.waitingRelease /\ n > 2
        <4>0. n # 1 /\ n # 2
          <5> HIDE DEF n
          <5> QED BY <3>5
        <4>1. fitting = taps
          BY <3>5, <4>0
        <4>2. g.state \in {{"threetap"}, {}}
          BY <1>1, <2>3, <3>5 DEF Possible
        <4>3. taps \subseteq {"threetap"}
          BY <2>5, <4>2
        <4> HIDE DEF taps, fitting
        <4>4. "threetap" \in Taps
          BY DEF Taps
        <4> QED BY <4>1, <4>3, <4>4
      <3>6. n = 1 \/ n = 2 \/ n > 2
        <4> HIDE DEF n
        <4> QED BY <1>1
      <3> QED BY <3>2, <3>3, <3>4, <3>5, <3>6
    <2> HIDE DEF fitting
    <2>7. /\ DOMAIN d = TouchFields /\ d.tracked = g.tracked /\ d.ignored = g.ignored /\ d.out = <<>>
          /\ d.state = fitting /\ d.longpress = FALSE /\ d.waitingRelease = TRUE /\ d.twoTouch = "none"
      BY <2>1, <2>5 DEF TouchFields
    <2> HIDE DEF d
    <2>8. d.state = {} \/ \E x \in Taps \union TwoFinger : d.state = {x}
      BY <2>6, <2>7
    <2> QED BY <2>4, <2>7, <2>8 DEF Over, d
  <1> QED BY <1>2, <1>3

\* Everything but the two events of a gesture that begins and ends at once.
LEMMA TellsEnd ==
  ASSUME NEW g, DOMAIN g = TouchFields, NEW x \in AllGestures, g.state = {x}, g.out = <<>>
  PROVE /\ \E p \in 0..1 : Pushed(g, PushEvent(g, "end"), <<Event("end", x, p)>>)
        /\ \E p \in 0..1, q \in 0..1 :
              Pushed(g, PushEvent(PushEvent(g, "start"), "end"), <<Event("start", x, p), Event("end", x, q)>>)
  <1>1. \E p \in 0..1 : Pushed(g, PushEvent(g, "end"), <<Event("end", x, p)>>)
    BY PushFirst
  <1> DEFINE r == PushEvent(g, "start")
             m == PushEvent(r, "end")
  <1>2. PICK p \in 0..1 : Pushed(g, r, <<Event("start", x, p)>>)
    BY PushFirst
  <1> HIDE DEF r
  <1>3. DOMAIN r = TouchFields /\ r.state = {x} /\ r.out = <<Event("start", x, p)>>
    BY <1>2 DEF Pushed
  <1>4. PICK q \in 0..1 : Pushed(r, m, <<Event("start", x, p), Event("end", x, q)>>)
    BY <1>3, PushSecond
  <1> HIDE DEF m
  <1>5. Pushed(g, m, <<Event("start", x, p), Event("end", x, q)>>)
    BY <1>2, <1>4 DEF Pushed
  <1> QED BY <1>1, <1>5, Zenon DEF r, m

\* A finger is lifted.
LEMMA EndReady ==
  ASSUME NEW g, NEW down, NEW h, Ready(g, down, h), g.out = <<>>, NEW id \in down, NEW slow
  PROVE Recognised(TouchEnd(g, id, slow), down \ {id}, h)
  <1> DEFINE d == Lifting(g)
             t == Lifted(d.tracked, id)
             S == IF slow THEN {} ELSE d.state
             j == IF ~d.waitingRelease THEN d ELSE [d EXCEPT !.state = S, !.tracked = t]
             begun == IF j.waitingRelease /\ HasDetectedGesture(j) THEN PushEvent(j, "start") ELSE j
             r == TouchEnd(g, id, slow)
             judged == IF ~d.waitingRelease THEN d
                       ELSE [d EXCEPT !.state = IF slow THEN {} ELSE @, !.tracked = Lifted(@, id)]
             started == IF judged.waitingRelease /\ HasDetectedGesture(judged)
                        THEN PushEvent(judged, "start") ELSE judged
  <1>1. r = IF id \in g.ignored THEN IgnoredEnd(g, id)
            ELSE IF judged.waitingRelease /\ ~HasDetectedGesture(judged) /\ judged.state # {}
            THEN judged
            ELSE Cleanup(IF HasDetectedGesture(started) THEN PushEvent(started, "end") ELSE started, id)
    BY Zenon DEF TouchEnd
  <1> HIDE DEF judged
  <1>2. CASE id \in g.ignored
    <2>1. r = IgnoredEnd(g, id)
      BY <1>1, <1>2
    <2> HIDE DEF r
    <2>2. Recognised(r, down \ {id}, h)
      BY <1>2, <2>1, IgnoredReady
    <2> QED BY <2>2 DEF r
  <1>3. CASE id \notin g.ignored
    <2> DEFINE n == Len(g.tracked)
    <2>1. /\ DOMAIN g = TouchFields /\ g.state \subseteq AllGestures /\ g.tracked \in Seq(Finger) /\ n \in Nat
          /\ DOMAIN g.tracked = 1..n
          /\ down = Active(g) \union g.ignored /\ Active(g) \intersect g.ignored = {} /\ id \in Active(g)
      BY <1>3 DEF Ready, TouchShape, Tracking
    <2>2. g.tracked # <<>> /\ n > 0
      <3>1. PICK i \in 1..n : g.tracked[i].active
        BY <2>1 DEF Active
      <3> QED BY <2>1, <3>1
    <2>3. Over(g, d, h)
      BY <2>2, LiftingReady
    <2> HIDE DEF d
    <2>4. /\ DOMAIN d = TouchFields /\ d.tracked = g.tracked /\ d.ignored = g.ignored /\ d.out = <<>>
          /\ d.longpress = FALSE /\ d.twoTouch \in {"none", "fired"} /\ d.waitingRelease \in BOOLEAN
      BY <2>3 DEF Over
    <2>10. judged = j
      BY <2>4 DEF judged, TouchFields
    <2>11. r = IF j.waitingRelease /\ ~HasDetectedGesture(j) /\ j.state # {} THEN j
               ELSE Cleanup(IF HasDetectedGesture(begun) THEN PushEvent(begun, "end") ELSE begun, id)
      <3> HIDE DEF j
      <3> QED BY <1>1, <1>3, <2>10, Zenon
    <2>5. /\ t \in Seq(Finger) /\ Len(t) = n /\ DOMAIN t = 1..n
          /\ \A i \in 1..n :
                t[i].id = g.tracked[i].id /\ (t[i].active <=> g.tracked[i].active /\ g.tracked[i].id # id)
      <3>1. t = [i \in 1..n |-> [g.tracked[i] EXCEPT !.active = @ /\ g.tracked[i].id # id]]
        BY <2>1, <2>4 DEF Lifted
      <3>2. ASSUME NEW i \in 1..n
            PROVE LET f == [g.tracked[i] EXCEPT !.active = @ /\ g.tracked[i].id # id]
                  IN  f \in Finger /\ f.id = g.tracked[i].id
                      /\ (f.active <=> g.tracked[i].active /\ g.tracked[i].id # id)
        <4>1. g.tracked[i] \in Finger
          BY <2>1
        <4> QED BY <4>1 DEF Finger
      <3> HIDE DEF t
      <3>3. t \in Seq(Finger) /\ Len(t) = n /\ DOMAIN t = 1..n
        BY <2>1, <3>1, <3>2
      <3> QED BY <3>1, <3>2, <3>3
    <2> HIDE DEF t
    <2>6. ASSUME NEW q, q.tracked = t PROVE Active(q) = Active(g) \ {id}
      <3>1. ASSUME NEW a \in Active(q) PROVE a \in Active(g) \ {id}
        <4>1. PICK i \in 1..n : t[i].active /\ a = t[i].id
          BY <2>5, <2>6 DEF Active
        <4>2. g.tracked[i].active /\ a = g.tracked[i].id /\ a # id /\ i \in DOMAIN g.tracked
          BY <2>1, <2>5, <4>1
        <4> QED BY <4>2 DEF Active
      <3>2. ASSUME NEW a \in Active(g) \ {id} PROVE a \in Active(q)
        <4>1. PICK i \in 1..n : g.tracked[i].active /\ a = g.tracked[i].id
          BY <2>1 DEF Active
        <4>2. i \in DOMAIN q.tracked /\ q.tracked[i].active /\ a = q.tracked[i].id
          BY <2>5, <2>6, <3>2, <4>1
        <4> QED BY <4>2 DEF Active
      <3> QED BY <3>1, <3>2
    <2>7. CASE d.waitingRelease
      <3> DEFINE k == [d EXCEPT !.state = S, !.tracked = t]
      <3>1. j = k
        BY <2>7
      <3>2. /\ DOMAIN k = TouchFields /\ k.tracked = t /\ k.ignored = g.ignored /\ k.out = <<>> /\ k.state = S
            /\ k.longpress = FALSE /\ k.twoTouch \in {"none", "fired"} /\ k.waitingRelease = d.waitingRelease
        BY <2>4 DEF TouchFields
      <3>3. h = "none" /\ (S = {} \/ \E x \in Taps \union TwoFinger : S = {x})
        BY <2>3, <2>7 DEF Over
      <3> HIDE DEF k, S
      <3>4. Active(k) = Active(g) \ {id}
        BY <2>6, <3>2
      <3>5. Taps \union TwoFinger \subseteq AllGestures
        BY DEF AllGestures
      <3>6. k.state \subseteq AllGestures
        BY <3>2, <3>3, <3>5
      <3>7. k.waitingRelease = TRUE
        BY <2>4, <2>7, <3>2
      <3>8. CASE ~HasDetectedGesture(k) /\ k.state # {}
        <4>1. r = k
          BY <2>11, <3>1, <3>7, <3>8
        <4>2. PICK x \in Taps \union TwoFinger : S = {x}
          BY <3>2, <3>3, <3>8
        <4>3. x \in Taps /\ SomeActive(k)
          BY <3>2, <3>5, <3>6, <3>8, <4>2, Detected
        <4>4. TouchShape(k)
          BY <2>5, <3>2, <3>6, <3>7 DEF TouchShape
        <4>5. Tracking(k, down \ {id})
          BY <1>3, <2>1, <3>2, <3>4 DEF Tracking
        <4>6. Fresh(k)
          <5>1. t # <<>>
            BY <2>2, <2>5
          <5> QED BY <3>2, <4>3, <5>1 DEF Fresh
        <4>7. Possible(k.state, Len(k.tracked), k.waitingRelease)
          BY <3>2, <3>3, <3>7 DEF Possible
        <4>8. Timers(k)
          BY <3>2 DEF Timers
        <4>9. Grip(k.state) = "none"
          BY <3>2, <4>2, <4>3 DEF Grip, Taps
        <4>10. Ready(k, down \ {id}, h)
          BY <3>3, <4>4, <4>5, <4>6, <4>7, <4>8, <4>9 DEF Ready
        <4> QED BY <3>2, <4>1, <4>10, TellsNothing
      <3>9. CASE HasDetectedGesture(k)
        <4> DEFINE c == PushEvent(PushEvent(k, "start"), "end")
                   b == PushEvent(k, "start")
        <4>1. PICK x \in AllGestures : k.state = {x} /\ (x \in Taps => ~SomeActive(k))
          BY <3>6, <3>9, Detected
        <4>2. PICK p \in 0..1, q \in 0..1 : Pushed(k, c, <<Event("start", x, p), Event("end", x, q)>>)
          BY <3>2, <4>1, TellsEnd
        <4>3. HasDetectedGesture(b)
          <5>1. PICK p1 \in 0..1 : Pushed(k, b, <<Event("start", x, p1)>>)
            BY <3>2, <4>1, PushFirst
          <5> HIDE DEF b
          <5>2. b.state = k.state /\ (SomeActive(b) <=> SomeActive(k))
            BY <5>1 DEF Pushed, SomeActive
          <5> QED BY <3>9, <5>2 DEF HasDetectedGesture
        <4>4. begun = b
          BY <3>1, <3>7, <3>9
        <4>5. r = Cleanup(c, id)
          BY <2>11, <3>1, <3>9, <4>3, <4>4
        <4> HIDE DEF c, b, begun, j
        <4>6. /\ DOMAIN c = TouchFields /\ c.longpress = FALSE /\ c.twoTouch \in {"none", "fired"}
              /\ c.waitingRelease \in BOOLEAN /\ c.ignored = g.ignored /\ c.tracked = t
              /\ c.out = <<Event("start", x, p), Event("end", x, q)>>
          BY <3>2, <3>7, <4>2 DEF Pushed
        <4>7. down \ {id} = (c.ignored \union Active(c)) \ {id}
          BY <2>1, <2>6, <4>6
        <4>8. Ready(r, down \ {id}, "none") /\ r.out = c.out
          <5>1. Ready(Cleanup(c, id), down \ {id}, "none") /\ Cleanup(c, id).out = c.out
            BY <4>6, <4>7, CleanupReady
          <5> QED BY <4>5, <5>1, Zenon
        <4> HIDE DEF r
        <4>9. Tells(h, r.out, "none")
          BY <3>3, <4>6, <4>8, Zenon DEF Tells
        <4> QED BY <4>8, <4>9, Zenon DEF Recognised, r
      <3>10. CASE ~HasDetectedGesture(k) /\ k.state = {}
        <4>1. begun = k
          BY <3>1, <3>10
        <4>2. r = Cleanup(k, id)
          BY <2>11, <3>1, <3>10, <4>1
        <4> HIDE DEF begun, j
        <4>3. down \ {id} = (k.ignored \union Active(k)) \ {id}
          BY <2>1, <3>2, <3>4
        <4>4. Ready(r, down \ {id}, "none") /\ r.out = <<>>
          <5>1. Ready(Cleanup(k, id), down \ {id}, "none") /\ Cleanup(k, id).out = k.out
            BY <3>2, <3>7, <4>3, CleanupReady
          <5>2. r.out = <<>>
            BY <3>2, <4>2, <5>1
          <5> HIDE DEF r
          <5> QED BY <4>2, <5>1, <5>2
        <4> HIDE DEF r
        <4> QED BY <3>3, <4>4, TellsNothing DEF r
      <3> QED BY <3>8, <3>9, <3>10
    <2>8. CASE ~d.waitingRelease
      <3> DEFINE c == PushEvent(d, "end")
      <3>1. j = d /\ begun = d
        BY <2>8
      <3>2. PICK x \in AllGestures \ Taps : d.state = {x} /\ h = Button(x)
        BY <2>3, <2>8 DEF Over
      <3>3. HasDetectedGesture(d)
        BY <3>2, Detected
      <3>4. r = Cleanup(c, id)
        BY <2>11, <2>8, <3>1, <3>3
      <3>5. PICK p \in 0..1 : Pushed(d, c, <<Event("end", x, p)>>)
        BY <2>4, <3>2, TellsEnd
      <3> HIDE DEF c, begun, j
      <3>6. /\ DOMAIN c = TouchFields /\ c.longpress = FALSE /\ c.twoTouch \in {"none", "fired"}
            /\ c.waitingRelease \in BOOLEAN /\ c.ignored = g.ignored /\ c.tracked = g.tracked
            /\ c.out = <<Event("end", x, p)>>
        BY <2>4, <3>5 DEF Pushed
      <3>7. Active(c) = Active(g)
        BY <3>6 DEF Active
      <3>8. down \ {id} = (c.ignored \union Active(c)) \ {id}
        BY <2>1, <3>6, <3>7
      <3>9. Ready(r, down \ {id}, "none") /\ r.out = c.out
        <4>1. Ready(Cleanup(c, id), down \ {id}, "none") /\ Cleanup(c, id).out = c.out
          BY <3>6, <3>8, CleanupReady
        <4> QED BY <3>4, <4>1, Zenon
      <3> HIDE DEF r
      <3>10. Tells(h, r.out, "none")
        BY <3>2, <3>6, <3>9, Zenon DEF Tells
      <3> QED BY <3>9, <3>10, Zenon DEF Recognised, r
    <2> QED BY <2>7, <2>8
  <1> QED BY <1>2, <1>3

\* A finger was held down, and the timer of the long press fires.
LEMMA LongpressReady ==
  ASSUME NEW g, NEW down, NEW h, Ready(g, down, h), g.out = <<>>, g.longpress
  PROVE Recognised(LongpressTimeout(g), down, h)
  <1> DEFINE q == [g EXCEPT !.longpress = FALSE, !.state = {"longpress"}]
  <1>1. /\ DOMAIN g = TouchFields /\ g.tracked \in Seq(Finger)
        /\ g.twoTouch \in {"none", "armed", "fired"}
        /\ Len(g.tracked) = 1 /\ g.state \in {AllGestures, {}} /\ ~g.waitingRelease /\ g.twoTouch # "armed"
        /\ h = Grip(g.state)
    <2>1. /\ DOMAIN g = TouchFields /\ g.tracked \in Seq(Finger)
          /\ g.twoTouch \in {"none", "armed", "fired"} /\ h = Grip(g.state)
      BY DEF Ready, TouchShape
    <2>2. Len(g.tracked) = 1 /\ g.state \in {AllGestures, {}} /\ ~g.waitingRelease
      BY DEF Ready, Timers
    <2>3. g.twoTouch = "armed" => Len(g.tracked) > 1
      BY DEF Ready, Timers
    <2> QED BY <2>1, <2>2, <2>3
  <1>2. /\ DOMAIN q = TouchFields /\ q.state = {"longpress"} /\ q.tracked = g.tracked /\ q.ignored = g.ignored
        /\ q.waitingRelease = g.waitingRelease /\ q.longpress = FALSE /\ q.twoTouch = g.twoTouch /\ q.out = <<>>
    BY <1>1 DEF TouchFields
  <1> HIDE DEF q
  <1>3. h = "none"
    BY <1>1, GestureSets DEF Grip
  <1>4. g.tracked # <<>> /\ "longpress" \in AllGestures
    BY <1>1 DEF AllGestures
  <1>5. Possible({"longpress"}, Len(g.tracked), g.waitingRelease)
    BY <1>1 DEF Possible
  <1>6. Ready(q, down, Grip(q.state))
    BY <1>1, <1>2, <1>4, <1>5, OtherHopes
  <1>7. Ready(q, down, Button("longpress"))
    BY <1>2, <1>4, <1>6, GripIsButton
  <1>8. Recognised(PushEvent(q, "start"), down, "none")
    BY <1>2, <1>4, <1>7, TellsBegin
  <1> QED BY <1>3, <1>8 DEF LongpressTimeout, q

\* Two fingers moved, and the timer that tells a pinch from a drag fires.
LEMMA TwoTouchReady ==
  ASSUME NEW g, NEW down, NEW h, Ready(g, down, h), g.out = <<>>, g.twoTouch = "armed", NEW apart
  PROVE Recognised(TwoTouchTimeout(g, apart), down, h)
  <1> DEFINE x == IF apart THEN "pinch" ELSE "twodrag"
             q == [g EXCEPT !.twoTouch = "fired", !.state = {x}]
  <1>1. /\ DOMAIN g = TouchFields /\ g.tracked \in Seq(Finger) /\ g.longpress \in BOOLEAN
        /\ Len(g.tracked) > 1 /\ g.state \in {{}, TwoFinger} /\ h = Grip(g.state)
    BY DEF Ready, TouchShape, Timers
  <1>2. g.longpress = FALSE
    BY <1>1 DEF Ready, Timers
  <1>3. /\ DOMAIN q = TouchFields /\ q.state = {x} /\ q.tracked = g.tracked /\ q.ignored = g.ignored
        /\ q.waitingRelease = g.waitingRelease /\ q.longpress = FALSE /\ q.twoTouch = "fired" /\ q.out = <<>>
    BY <1>1, <1>2 DEF TouchFields
  <1>4. h = "none"
    BY <1>1, GestureSets DEF Grip
  <1>5. x \in TwoFinger /\ x \in AllGestures /\ {x} \in {{"twodrag"}, {"pinch"}}
    BY DEF AllGestures, TwoFinger
  <1>6. TwoTouchTimeout(g, apart) = PushEvent(PushEvent(q, "start"), "move")
    BY DEF TwoTouchTimeout
  <1> HIDE DEF q, x
  <1>7. g.tracked # <<>>
    BY <1>1
  <1>8. Possible({x}, Len(g.tracked), g.waitingRelease)
    <2> DEFINE n == Len(g.tracked)
    <2>1. n \in Nat /\ n > 1
      BY <1>1
    <2> HIDE DEF n
    <2>2. Possible({x}, n, g.waitingRelease)
      BY <1>5, <2>1 DEF Possible
    <2> QED BY <2>2 DEF n
  <1>9. Ready(q, down, Grip(q.state))
    BY <1>3, <1>5, <1>7, <1>8, OtherHopes
  <1>10. Ready(q, down, Button(x))
    BY <1>3, <1>5, <1>9, GripIsButton
  <1>11. Recognised(PushEvent(PushEvent(q, "start"), "move"), down, "none")
    BY <1>3, <1>5, <1>10, TellsBegin
  <1> QED BY <1>4, <1>6, <1>11

-----------------------------------------------------------------------------
(* A gesture as the pointer and the canvas see it.                           *)

\* One event of a gesture, whatever it is.
LEMMA OneEvent ==
  ASSUME NEW b, Shaped(b), CaughtUp(b), NEW x \in AllGestures, NEW p, NEW steps
  PROVE /\ TouchHolds(b, "none") => Handled(b, HandleGesture(b, Event("start", x, p), steps), Button(x))
        /\ TouchHolds(b, Button(x)) => Handled(b, HandleGesture(b, Event("move", x, p), steps), Button(x))
        /\ TouchHolds(b, Button(x)) => Handled(b, HandleGesture(b, Event("end", x, p), steps), "none")
        /\ Heard("none", Event("start", x, p)) = Button(x)
        /\ Heard(Button(x), Event("move", x, p)) = Button(x)
        /\ Heard(Button(x), Event("end", x, p)) = "none"
  <1>1. /\ HandleGesture(b, Event("start", x, p), steps) = GestureStart(b, x, p)
        /\ HandleGesture(b, Event("move", x, p), steps) = GestureMove(b, x, p, steps)
        /\ HandleGesture(b, Event("end", x, p), steps) = GestureEnd(b, x, p)
    BY DEF HandleGesture, Event
  <1>2. TouchHolds(b, "none") => Handled(b, GestureStart(b, x, p), Button(x))
    BY Starting DEF Button
  <1>3. TouchHolds(b, Button(x)) => Handled(b, GestureMove(b, x, p, steps), Button(x))
    BY GoingOn
  <1>4. TouchHolds(b, Button(x)) => Handled(b, GestureEnd(b, x, p), "none")
    BY Ending
  <1>5. /\ Heard("none", Event("start", x, p)) = Button(x)
        /\ Heard(Button(x), Event("move", x, p)) = Button(x)
        /\ Heard(Button(x), Event("end", x, p)) = "none"
    BY HearingStart, HearingMove, HearingEnd DEF Event
  <1> QED BY <1>1, <1>2, <1>3, <1>4, <1>5

\* All that one handler of the gestures tells.
LEMMA AllEvents ==
  ASSUME NEW b, Shaped(b), CaughtUp(b), NEW h, TouchHolds(b, h), NEW evs, NEW h2, Tells(h, evs, h2),
         NEW steps
  PROVE Handled(b, Handles(b, steps, evs), h2) /\ Hears(h, evs) = h2
  <1>1. CASE evs = <<>> /\ h2 = h
    <2>1. Handles(b, steps, evs) = b /\ Hears(h, evs) = h
      BY <1>1, HandleNone, HearNone
    <2> QED BY <1>1, <2>1, Resting
  <1>2. ASSUME NEW e, evs = <<e>>, NEW x \in AllGestures, NEW p \in 0..1,
               \/ e = Event("start", x, p) /\ h = "none" /\ h2 = Button(x)
               \/ e = Event("move", x, p) /\ h = Button(x) /\ h2 = Button(x)
               \/ e = Event("end", x, p) /\ h = Button(x) /\ h2 = "none"
        PROVE Handled(b, Handles(b, steps, evs), h2) /\ Hears(h, evs) = h2
    <2>1. Handles(b, steps, evs) = HandleGesture(b, e, steps) /\ Hears(h, evs) = Heard(h, e)
      BY <1>2, HandleOne, HearOne
    <2>2. Handled(b, HandleGesture(b, e, steps), h2) /\ Heard(h, e) = h2
      BY <1>2, OneEvent
    <2> QED BY <2>1, <2>2
  <1>3. ASSUME NEW e1, NEW e2, evs = <<e1, e2>>, NEW x \in AllGestures, NEW p \in 0..1, NEW q \in 0..1,
               e1 = Event("start", x, p), h = "none",
               \/ e2 = Event("move", x, q) /\ h2 = Button(x)
               \/ e2 = Event("end", x, q) /\ h2 = "none"
        PROVE Handled(b, Handles(b, steps, evs), h2) /\ Hears(h, evs) = h2
    <2> DEFINE c == HandleGesture(b, e1, steps)
               d == HandleGesture(c, e2, steps)
    <2>1. Handles(b, steps, evs) = d /\ Hears(h, evs) = Heard(Heard(h, e1), e2)
      BY <1>3, HandleTwo, HearTwo
    <2>2. Handled(b, c, Button(x)) /\ Heard(h, e1) = Button(x)
      BY <1>3, OneEvent
    <2> HIDE DEF c
    <2>3. Shaped(c) /\ CaughtUp(c) /\ TouchHolds(c, Button(x))
      BY <2>2 DEF Handled
    <2>4. Handled(c, d, h2) /\ Heard(Button(x), e2) = h2
      BY <1>3, <2>3, OneEvent
    <2> HIDE DEF d
    <2>5. Handled(b, d, h2)
      BY <2>2, <2>4, HandledTwice
    <2> QED BY <2>1, <2>2, <2>4, <2>5
  <1>4. \/ evs = <<>> /\ h2 = h
        \/ \E x \in AllGestures, p \in 0..1 : \E e :
              /\ evs = <<e>>
              /\ \/ e = Event("start", x, p) /\ h = "none" /\ h2 = Button(x)
                 \/ e = Event("move", x, p) /\ h = Button(x) /\ h2 = Button(x)
                 \/ e = Event("end", x, p) /\ h = Button(x) /\ h2 = "none"
        \/ \E x \in AllGestures, p \in 0..1, q \in 0..1 : \E e1, e2 :
              /\ evs = <<e1, e2>> /\ e1 = Event("start", x, p) /\ h = "none"
              /\ \/ e2 = Event("move", x, q) /\ h2 = Button(x)
                 \/ e2 = Event("end", x, q) /\ h2 = "none"
    BY Zenon DEF Tells
  <1> QED BY <1>1, <1>2, <1>3, <1>4, Zenon

-----------------------------------------------------------------------------
(* What is made of the calls of the keyboard, however many they are.         *)

\* The modes and the server after the calls of w.
Told(a, w) == FoldLeft(HandleKeyEvent, a, w)

\* The function the fold is taken from.
Iterated(it, a, w, n) ==
    [S \in SUBSET (1..n) |-> IF S = {} THEN a ELSE HandleKeyEvent(it[S \ {Max(S)}], w[Max(S)])]

\* The largest of some numbers that start at 1.
LEMMA MaxIs ==
  ASSUME NEW n \in Nat, NEW S \in SUBSET (1..n), n \in S PROVE Max(S) = n
  <1>1. /\ n \in S /\ \A y \in S : n >= y
    OBVIOUS
  <1>2. ASSUME NEW x \in S, \A y \in S : x >= y PROVE x = n
    BY <1>2
  <1> QED BY <1>1, <1>2 DEF Max

\* It exists.
LEMMA SomeIterated ==
  ASSUME NEW a, NEW w, NEW m \in Nat PROVE \E it : it = Iterated(it, a, w, m)
  <1> DEFINE E(n) == \E it : it = Iterated(it, a, w, n)
             Bad == {n \in Nat : ~E(n)}
  <1>1. SUFFICES ASSUME Bad # {} PROVE FALSE
    OBVIOUS
  <1>2. IsWellFoundedOn(OpToRel(<, Nat), Nat)
    BY NatLessThanWellFounded
  <1>3. PICK n \in Bad : \A k \in Bad : <<k, n>> \notin OpToRel(<, Nat)
    <2>1. Bad \subseteq Nat
      OBVIOUS
    <2> HIDE DEF Bad
    <2> QED BY <1>1, <1>2, <2>1, WFMin
  <1>4. n \in Nat /\ ~E(n)
    OBVIOUS
  <1>5. ASSUME NEW k \in Nat, k < n PROVE E(k)
    <2>1. <<k, n>> \in OpToRel(<, Nat)
      BY <1>4, <1>5 DEF OpToRel
    <2> QED BY <1>3, <2>1
  <1>6. n # 0
    <2>1. E(0)
      <3> DEFINE it == [S \in SUBSET (1..0) |-> a]
      <3>1. it = Iterated(it, a, w, 0)
        <4>1. \A S \in SUBSET (1..0) : S = {}
          OBVIOUS
        <4> QED BY <4>1 DEF Iterated
      <3> QED BY <3>1
    <2> QED BY <1>4, <2>1
  <1>7. PICK it : it = Iterated(it, a, w, n - 1)
    <2>1. n - 1 \in Nat /\ n - 1 < n
      BY <1>4, <1>6
    <2> QED BY <1>5, <2>1
  <1> DEFINE next == [S \in SUBSET (1..n) |-> IF n \in S THEN HandleKeyEvent(it[S \ {n}], w[n]) ELSE it[S]]
             Body(S) == IF S = {} THEN a ELSE HandleKeyEvent(next[S \ {Max(S)}], w[Max(S)])
  <1>8. \A S \in SUBSET (1..n) : n \notin S => S \in SUBSET (1..(n - 1))
    <2>1. \A i \in 1..n : i # n => i \in 1..(n - 1)
      BY <1>4
    <2> QED BY <2>1
  <1>9. ASSUME NEW S \in SUBSET (1..n) PROVE next[S] = Body(S)
    <2>1. CASE n \in S
      <3>1. Max(S) = n /\ S # {}
        BY <1>4, <2>1, MaxIs
      <3>2. next[S \ {n}] = it[S \ {n}]
        OBVIOUS
      <3>3. next[S] = HandleKeyEvent(it[S \ {n}], w[n])
        BY <2>1
      <3> HIDE DEF next
      <3> QED BY <3>1, <3>2, <3>3
    <2>2. CASE n \notin S
      <3>1. S \in SUBSET (1..(n - 1))
        BY <1>8, <2>2
      <3>2. it[S] = IF S = {} THEN a ELSE HandleKeyEvent(it[S \ {Max(S)}], w[Max(S)])
        BY <1>7, <3>1 DEF Iterated
      <3>3. next[S] = it[S] /\ next[S \ {Max(S)}] = it[S \ {Max(S)}]
        BY <2>2
      <3> HIDE DEF next
      <3> QED BY <3>2, <3>3
    <2> QED BY <2>1, <2>2
  <1>10. next = Iterated(next, a, w, n)
    <2>1. next = [S \in SUBSET (1..n) |-> next[S]]
      OBVIOUS
    <2> HIDE DEF next
    <2>2. [S \in SUBSET (1..n) |-> next[S]] = [S \in SUBSET (1..n) |-> Body(S)]
      BY <1>9
    <2> QED BY <2>1, <2>2, Zenon DEF Iterated
  <1> QED BY <1>4, <1>10

\* The calls are handled one after the other.
Runs(t, a, w) ==
    /\ t[0] = a
    /\ \A i \in Nat : i < Len(w) => t[i + 1] = HandleKeyEvent(t[i], w[i + 1])

\* The fold is the last of a run.
LEMMA ToldRuns ==
  ASSUME NEW T, NEW w \in Seq(T), NEW a PROVE \E t : Runs(t, a, w) /\ Told(a, w) = t[Len(w)]
  <1> DEFINE n == Len(w)
             it == CHOOSE f : f = Iterated(f, a, w, n)
             t == [i \in Nat |-> it[1..i]]
  <1>1. n \in Nat /\ DOMAIN w = 1..n
    OBVIOUS
  <1>2. it = Iterated(it, a, w, n)
    BY <1>1, SomeIterated
  <1>3. Told(a, w) = it[1..n]
    BY <1>1, Zenon DEF Told, FoldLeft, MapThenFoldSet, Iterated
  <1> HIDE DEF it, n
  <1>4. it[{}] = a /\ 1..0 = {}
    BY <1>2 DEF Iterated
  <1>5. ASSUME NEW i \in Nat, i < n PROVE it[1..(i + 1)] = HandleKeyEvent(it[1..i], w[i + 1])
    <2> DEFINE S == 1..(i + 1)
    <2>1. S \in SUBSET (1..n) /\ S # {} /\ i + 1 \in S /\ i + 1 \in Nat
      BY <1>1, <1>5
    <2>2. Max(S) = i + 1
      BY <2>1, MaxIs
    <2>3. S \ {i + 1} = 1..i
      OBVIOUS
    <2>4. it[S] = HandleKeyEvent(it[S \ {Max(S)}], w[Max(S)])
      <3> HIDE DEF S
      <3> QED BY <1>2, <2>1 DEF Iterated
    <2> QED BY <2>2, <2>3, <2>4
  <1>6. Runs(t, a, w)
    BY <1>4, <1>5 DEF Runs, n
  <1>7. t[n] = it[1..n]
    BY <1>1
  <1> QED BY <1>3, <1>6, <1>7 DEF n

\* Without calls nothing changes.
LEMMA ToldNone == ASSUME NEW a PROVE Told(a, <<>>) = a
  <1>1. <<>> \in Seq({}) /\ Len(<<>>) = 0
    OBVIOUS
  <1>2. PICK t : Runs(t, a, <<>>) /\ Told(a, <<>>) = t[Len(<<>>)]
    BY <1>1, ToldRuns
  <1>3. Told(a, <<>>) = t[0]
    BY <1>1, <1>2
  <1> QED BY <1>2, <1>3 DEF Runs

\* One call more.
LEMMA ToldMore ==
  ASSUME NEW T, NEW w \in Seq(T), NEW a, NEW e
  PROVE Told(a, Append(w, e)) = HandleKeyEvent(Told(a, w), e)
  <1> DEFINE v == Append(w, e)
             n == Len(w)
  <1>1. /\ n \in Nat /\ v \in Seq(T \union {e}) /\ Len(v) = n + 1 /\ v[n + 1] = e
        /\ \A i \in 1..n : v[i] = w[i]
    <2>1. w \in Seq(T \union {e})
      OBVIOUS
    <2> QED BY <2>1
  <1>2. PICK t : Runs(t, a, w) /\ Told(a, w) = t[n]
    BY ToldRuns
  <1>3. PICK u : Runs(u, a, v) /\ Told(a, v) = u[n + 1]
    BY <1>1, ToldRuns
  <1> HIDE DEF v, n
  <1> DEFINE Bad == {i \in Nat : i <= n /\ u[i] # t[i]}
  <1>4. Bad = {}
    <2>1. SUFFICES ASSUME Bad # {} PROVE FALSE
      OBVIOUS
    <2>2. IsWellFoundedOn(OpToRel(<, Nat), Nat)
      BY NatLessThanWellFounded
    <2>3. PICK i \in Bad : \A k \in Bad : <<k, i>> \notin OpToRel(<, Nat)
      <3>1. Bad \subseteq Nat
        OBVIOUS
      <3> HIDE DEF Bad
      <3> QED BY <2>1, <2>2, <3>1, WFMin
    <2>4. i \in Nat /\ i <= n /\ u[i] # t[i]
      OBVIOUS
    <2>5. i # 0
      BY <1>2, <1>3, <2>4 DEF Runs
    <2>6. i - 1 \in Nat /\ i - 1 < i /\ i - 1 < n /\ i - 1 < n + 1 /\ (i - 1) + 1 = i /\ i \in 1..n
      BY <1>1, <2>4, <2>5
    <2>7. u[i - 1] = t[i - 1]
      <3>1. <<i - 1, i>> \in OpToRel(<, Nat)
        BY <2>4, <2>6 DEF OpToRel
      <3>2. i - 1 \notin Bad
        BY <2>3, <3>1
      <3>3. i - 1 <= n
        BY <1>1, <2>6
      <3> QED BY <2>6, <3>2, <3>3
    <2>8. t[i] = HandleKeyEvent(t[i - 1], w[i])
      BY <1>2, <2>6 DEF Runs, n
    <2>9. u[i] = HandleKeyEvent(u[i - 1], v[i])
      BY <1>1, <1>3, <2>6 DEF Runs
    <2> QED BY <1>1, <2>4, <2>6, <2>7, <2>8, <2>9
  <1>5. u[n] = t[n]
    BY <1>1, <1>4
  <1>6. u[n + 1] = HandleKeyEvent(u[n], v[n + 1])
    BY <1>1, <1>3 DEF Runs
  <1> QED BY <1>1, <1>2, <1>3, <1>5, <1>6 DEF v

-----------------------------------------------------------------------------
(* The keys.  a is a record of the RFB object's modes and the server.        *)

\* The modes of the RFB object, and a record of them and the server.
RfbFields == {"viewOnly", "qemu", "extended", "lock", "ctrl", "modes"}
Keyed(a) == DOMAIN a = {"rfb", "srv"} /\ DOMAIN a.rfb = RfbFields /\ DOMAIN a.srv = SrvFields

\* What keys leave alone.
SameServer(s, t) ==
    DOMAIN t = SrvFields /\ t.mask = s.mask /\ t.pos = s.pos /\ t.want = s.want
        /\ t.spared = s.spared /\ t.blind = s.blind

\* What a call of onkeyevent may do: nothing at all in view-only mode.
KeyStep(a, c) ==
    /\ DOMAIN c = {"rfb", "srv"} /\ DOMAIN c.rfb = RfbFields
    /\ c.rfb.viewOnly = a.rfb.viewOnly /\ c.rfb.ctrl = a.rfb.ctrl
    /\ SameServer(a.srv, c.srv)
    /\ a.rfb.viewOnly => c.srv = a.srv

\* The server holds what the list says, what is kept and the on-screen Ctrl.
Believed(l, r, s) ==
    s.keys \subseteq {l[code] : code \in Codes} \union {None} \union s.kept
                        \union (IF r.ctrl THEN {"Control_L"} ELSE {})

\* SendKey presses or releases one symbol.
LEMMA KeySent ==
  ASSUME NEW s, DOMAIN s = SrvFields, NEW r, NEW sym, NEW code, NEW down \in BOOLEAN
  PROVE LET c == SendKey(s, r, sym, code, down)
        IN  /\ SameServer(s, c)
            /\ r.viewOnly => c = s
            /\ down => c.keys \subseteq s.keys \union {sym} /\ c.kept = s.kept
            /\ ~down /\ ~r.viewOnly =>
                  c.keys \subseteq (s.keys \ {sym}) \union {None} /\ s.kept \ {sym} \subseteq c.kept
  BY DEF SendKey, SrvFields, SameServer

\* One call of onkeyevent.
LEMMA KeyHandled ==
  ASSUME NEW a, Keyed(a), NEW e, e.down \in BOOLEAN
  PROVE LET c == HandleKeyEvent(a, e)
        IN  /\ KeyStep(a, c)
            /\ e.down /\ ~a.rfb.viewOnly =>
                  /\ c.srv.keys \subseteq a.srv.keys \union {e.sym, None}
                  /\ \/ a.srv.kept = c.srv.kept
                     \/ /\ c.srv.keys \subseteq (a.srv.keys \ {"Caps_Lock"}) \union {e.sym, None}
                        /\ a.srv.kept \ {"Caps_Lock"} \subseteq c.srv.kept
            /\ ~e.down /\ ~a.rfb.viewOnly =>
                  /\ c.srv.keys \subseteq (a.srv.keys \ {e.sym}) \union {None}
                  /\ a.srv.kept \ {e.sym} \subseteq c.srv.kept
  <1> DEFINE known == IF e.code = "CapsLock" /\ e.down THEN "unknown" ELSE a.rfb.lock
             fix == "unknown" \notin {known, e.lock} /\ known # e.lock /\ e.down
             on == SendKey(a.srv, a.rfb, "Caps_Lock", "CapsLock", TRUE)
             off == SendKey(on, a.rfb, "Caps_Lock", "CapsLock", FALSE)
             fixed == IF fix THEN off ELSE a.srv
             r == [a.rfb EXCEPT !.lock = IF fix THEN "unknown" ELSE known]
             s == SendKey(fixed, r, e.sym, e.code, e.down)
             c == HandleKeyEvent(a, e)
  <1>1. c = [rfb |-> r, srv |-> s]
    BY DEF HandleKeyEvent
  <1>2. DOMAIN r = RfbFields /\ r.viewOnly = a.rfb.viewOnly /\ r.ctrl = a.rfb.ctrl
    BY DEF Keyed, RfbFields
  <1>3. /\ SameServer(a.srv, on) /\ (a.rfb.viewOnly => on = a.srv)
        /\ on.keys \subseteq a.srv.keys \union {"Caps_Lock"} /\ on.kept = a.srv.kept
    BY DEF SendKey, SrvFields, SameServer, Keyed
  <1> HIDE DEF on
  <1>4. /\ SameServer(on, off) /\ (a.rfb.viewOnly => off = on)
        /\ off.keys \subseteq (on.keys \ {"Caps_Lock"}) \union {None} \/ a.rfb.viewOnly
        /\ on.kept \ {"Caps_Lock"} \subseteq off.kept
    BY <1>3 DEF SendKey, SrvFields, SameServer
  <1> HIDE DEF off
  <1>5. /\ SameServer(a.srv, fixed) /\ (a.rfb.viewOnly => fixed = a.srv)
        /\ fix /\ ~a.rfb.viewOnly => /\ fixed.keys \subseteq (a.srv.keys \ {"Caps_Lock"}) \union {None}
                  /\ a.srv.kept \ {"Caps_Lock"} \subseteq fixed.kept
        /\ ~fix => fixed = a.srv
    BY <1>3, <1>4 DEF SameServer, Keyed
  <1>6. fix => e.down
    OBVIOUS
  <1> HIDE DEF fixed, fix, r
  <1>7. /\ SameServer(fixed, s) /\ (r.viewOnly => s = fixed)
        /\ e.down => s.keys \subseteq fixed.keys \union {e.sym} /\ s.kept = fixed.kept
        /\ ~e.down /\ ~r.viewOnly =>
               s.keys \subseteq (fixed.keys \ {e.sym}) \union {None} /\ fixed.kept \ {e.sym} \subseteq s.kept
    <2>1. DOMAIN fixed = SrvFields
      BY <1>5 DEF SameServer
    <2> QED BY <2>1, KeySent
  <1> HIDE DEF s, c
  <1>8. KeyStep(a, c)
    BY <1>1, <1>2, <1>5, <1>7 DEF KeyStep, SameServer
  <1>9. ~e.down /\ ~a.rfb.viewOnly =>
          c.srv.keys \subseteq (a.srv.keys \ {e.sym}) \union {None} /\ a.srv.kept \ {e.sym} \subseteq c.srv.kept
    BY <1>1, <1>2, <1>5, <1>6, <1>7
  <1>10. e.down /\ ~a.rfb.viewOnly /\ ~fix =>
            c.srv.keys \subseteq a.srv.keys \union {e.sym, None} /\ a.srv.kept = c.srv.kept
    BY <1>1, <1>2, <1>5, <1>6, <1>7
  <1>11. e.down /\ ~a.rfb.viewOnly /\ fix =>
             /\ c.srv.keys \subseteq (a.srv.keys \ {"Caps_Lock"}) \union {e.sym, None}
             /\ a.srv.kept \ {"Caps_Lock"} \subseteq c.srv.kept
    BY <1>1, <1>2, <1>5, <1>6, <1>7
  <1> QED BY <1>8, <1>9, <1>10, <1>11 DEF c

\* The keyboard k has called onkeyevent, with r and s before the calls.
Calls(k, r, s) ==
    LET t == Told([rfb |-> r, srv |-> s], k.out)
    IN  /\ DOMAIN k = {"system", "list", "armed", "out"} /\ DOMAIN k.list = Codes
        /\ \E T : k.out \in Seq(T)
        /\ KeyStep([rfb |-> r, srv |-> s], t)
        /\ ~r.viewOnly => Believed(k.list, t.rfb, t.srv)

\* The keys whose symbol is known: a key that never is held, and keys with one symbol.
Listed(l) ==
    /\ l["Unidentified"] = None /\ l["CapsLock"] \in {None, "Caps_Lock"}
    /\ l["ControlLeft"] \in {None, "Control_L"}

\* A press or a release with the symbol of the press.
LEMMA SendingKey ==
  ASSUME NEW k, NEW r, NEW s, Calls(k, r, s), NEW sym, NEW code \in Codes, NEW down \in BOOLEAN,
         k.list[code] \in {None, sym}, NEW lock
  PROVE LET c == SendKeyEvent(k, sym, code, down, lock)
        IN  /\ Calls(c, r, s)
            /\ c.list[code] = IF down THEN sym ELSE None
            /\ \A d \in Codes : d # code => c.list[d] = k.list[d]
  <1> DEFINE e == [sym |-> sym, code |-> code, down |-> down, lock |-> lock]
             a == [rfb |-> r, srv |-> s]
             t == Told(a, k.out)
             u == HandleKeyEvent(t, e)
             l == [k.list EXCEPT ![code] = IF down THEN sym ELSE None]
             c == [k EXCEPT !.list = l, !.out = Append(@, e)]
  <1>1. CASE ~down /\ ~Held(k, code)
    <2>1. SendKeyEvent(k, sym, code, down, lock) = k /\ k.list[code] = None
      BY <1>1 DEF SendKeyEvent, Held
    <2> QED BY <1>1, <2>1
  <1>2. CASE down \/ Held(k, code)
    <2>1. SendKeyEvent(k, sym, code, down, lock) = c
      BY <1>2 DEF SendKeyEvent
    <2>2. /\ DOMAIN k = {"system", "list", "armed", "out"} /\ DOMAIN k.list = Codes
          /\ KeyStep(a, t) /\ (~r.viewOnly => Believed(k.list, t.rfb, t.srv))
      BY DEF Calls
    <2>3. PICK T : k.out \in Seq(T)
      BY DEF Calls
    <2>4. u = Told(a, Append(k.out, e))
      BY <2>3, ToldMore
    <2>5. Append(k.out, e) \in Seq(T \union {e})
      <3>1. k.out \in Seq(T \union {e})
        BY <2>3
      <3> QED BY <3>1
    <2>6. Keyed(t) /\ t.rfb.viewOnly = r.viewOnly /\ e.down = down /\ e.sym = sym
      BY <2>2 DEF KeyStep, Keyed, SameServer
    <2>7. /\ DOMAIN l = Codes /\ l[code] = IF down THEN sym ELSE None
          /\ \A d \in Codes : d # code => l[d] = k.list[d]
      BY <2>2
    <2> HIDE DEF t, e, l
    <2>8. /\ KeyStep(t, u)
          /\ down /\ ~r.viewOnly =>
                  /\ u.srv.keys \subseteq t.srv.keys \union {sym, None}
                  /\ \/ t.srv.kept = u.srv.kept
                     \/ /\ u.srv.keys \subseteq (t.srv.keys \ {"Caps_Lock"}) \union {sym, None}
                        /\ t.srv.kept \ {"Caps_Lock"} \subseteq u.srv.kept
          /\ ~down /\ ~r.viewOnly =>
                  /\ u.srv.keys \subseteq (t.srv.keys \ {sym}) \union {None}
                  /\ t.srv.kept \ {sym} \subseteq u.srv.kept
      BY <2>6, KeyHandled
    <2> HIDE DEF u
    <2>9. KeyStep(a, u)
      BY <2>2, <2>8 DEF KeyStep, SameServer
    <2>10. ~r.viewOnly => Believed(l, u.rfb, u.srv)
      <3>1. SUFFICES ASSUME ~r.viewOnly PROVE Believed(l, u.rfb, u.srv)
        OBVIOUS
      <3>2. u.rfb.ctrl = t.rfb.ctrl /\ Believed(k.list, t.rfb, t.srv)
        BY <2>2, <2>8, <3>1 DEF KeyStep
      <3> DEFINE on == {l[d] : d \in Codes}
                 ctrl == IF u.rfb.ctrl THEN {"Control_L"} ELSE {}
      <3>3. \A x \in {k.list[d] : d \in Codes} : x \in on \/ x = None \/ (x = sym /\ ~down)
        BY <2>7
      <3>4. down => sym \in on
        BY <2>7
      <3>5. t.srv.keys \subseteq {k.list[d] : d \in Codes} \union {None} \union t.srv.kept \union ctrl
        BY <3>2 DEF Believed
      <3>6. t.srv.keys
              \subseteq on \union {None} \union t.srv.kept \union ctrl \union (IF down THEN {} ELSE {sym})
        BY <3>3, <3>5
      <3> HIDE DEF on, ctrl
      <3>7. u.srv.keys \subseteq on \union {None} \union u.srv.kept \union ctrl
        <4>1. CASE down
          BY <2>8, <3>1, <3>4, <3>6, <4>1
        <4>2. CASE ~down
          BY <2>8, <3>1, <3>6, <4>2
        <4> QED BY <4>1, <4>2
      <3> QED BY <3>7 DEF Believed, on, ctrl
    <2>11. /\ DOMAIN c = {"system", "list", "armed", "out"} /\ c.list = l
           /\ c.out = Append(k.out, e)
      BY <2>2
    <2> HIDE DEF c
    <2>12. Calls(c, r, s)
      BY <2>4, <2>5, <2>7, <2>9, <2>10, <2>11 DEF Calls, a
    <2> QED BY <2>1, <2>7, <2>11, <2>12
  <1> QED BY <1>1, <1>2

\* The list is in order and the calls are made.
KeysReady(k, r, s) == Calls(k, r, s) /\ Listed(k.list)

\* A key may be sent with this symbol.
Fits(l, code, sym) ==
    /\ l[code] \in {None, sym}
    /\ code = "CapsLock" => sym = "Caps_Lock"
    /\ code = "ControlLeft" => sym = "Control_L"

\* Some of the codes.
LEMMA CodesAre ==
  /\ "Unidentified" \in Codes /\ "CapsLock" \in Codes /\ "ControlLeft" \in Codes
  /\ "ShiftLeft" \in Codes /\ "ShiftRight" \in Codes /\ "AltRight" \in Codes
  BY DEF Codes

\* AltGr may or may not come.
LEMMA Arming ==
  ASSUME NEW k, NEW r, NEW s, KeysReady(k, r, s), NEW on
  PROVE LET c == [k EXCEPT !.armed = on] IN KeysReady(c, r, s)
  <1> DEFINE c == [k EXCEPT !.armed = on]
  <1>1. /\ DOMAIN c = DOMAIN k /\ c.list = k.list /\ c.out = k.out
    BY DEF KeysReady, Calls
  <1> HIDE DEF c
  <1>2. KeysReady(c, r, s)
    BY <1>1 DEF KeysReady, Calls
  <1> QED BY <1>1, <1>2 DEF c

\* A press of a key that is up, or of one that is down with the same symbol.
LEMMA PressingKey ==
  ASSUME NEW k, NEW r, NEW s, KeysReady(k, r, s), NEW sym, NEW code \in Codes \ {"Unidentified"},
         Fits(k.list, code, sym), NEW lock
  PROVE LET c == SendKeyEvent(k, sym, code, TRUE, lock)
        IN  KeysReady(c, r, s)
  <1> DEFINE c == SendKeyEvent(k, sym, code, TRUE, lock)
  <1>1. \A down \in BOOLEAN : LET d == SendKeyEvent(k, sym, code, down, lock)
        IN  /\ Calls(d, r, s) /\ d.list[code] = IF down THEN sym ELSE None
            /\ \A x \in Codes : x # code => d.list[x] = k.list[x]
    BY SendingKey DEF KeysReady, Fits
  <1>2. /\ Calls(c, r, s) /\ c.list[code] = sym
        /\ \A x \in Codes : x # code => c.list[x] = k.list[x]
    BY <1>1
  <1> HIDE DEF c
  <1>3. Listed(c.list)
    BY <1>2, CodesAre DEF Listed, Fits, KeysReady
  <1> QED BY <1>2, <1>3 DEF KeysReady, c

\* A release with the symbol of the press.
LEMMA ReleasingKey ==
  ASSUME NEW k, NEW r, NEW s, KeysReady(k, r, s), NEW code \in Codes
  PROVE LET c == Release(k, code) IN KeysReady(c, r, s)
  <1> DEFINE sym == k.list[code]
             c == SendKeyEvent(k, sym, code, FALSE, "unknown")
  <1>1. \A down \in BOOLEAN : LET d == SendKeyEvent(k, sym, code, down, "unknown")
        IN  /\ Calls(d, r, s) /\ d.list[code] = IF down THEN sym ELSE None
            /\ \A x \in Codes : x # code => d.list[x] = k.list[x]
    BY SendingKey DEF KeysReady
  <1>2. /\ Calls(c, r, s) /\ c.list[code] = None
        /\ \A x \in Codes : x # code => c.list[x] = k.list[x]
    BY <1>1
  <1>3. Release(k, code) = c
    BY DEF Release
  <1> HIDE DEF c
  <1>4. Listed(c.list)
    BY <1>2, CodesAre DEF Listed, KeysReady
  <1> QED BY <1>2, <1>3, <1>4 DEF KeysReady

\* A key that is pressed and released at once.
LEMMA PressingAndReleasing ==
  ASSUME NEW k, NEW r, NEW s, KeysReady(k, r, s), NEW sym, NEW code \in Codes,
         k.list[code] \in {None, sym}, NEW lock
  PROVE KeysReady(PressRelease(k, sym, code, lock), r, s)
  <1> DEFINE b == SendKeyEvent(k, sym, code, TRUE, lock)
             c == SendKeyEvent(b, sym, code, FALSE, lock)
  <1>1. \A down \in BOOLEAN : LET d == SendKeyEvent(k, sym, code, down, lock)
        IN  /\ Calls(d, r, s) /\ d.list[code] = IF down THEN sym ELSE None
            /\ \A x \in Codes : x # code => d.list[x] = k.list[x]
    BY SendingKey DEF KeysReady
  <1>2. /\ Calls(b, r, s) /\ b.list[code] = sym /\ \A x \in Codes : x # code => b.list[x] = k.list[x]
    BY <1>1
  <1> HIDE DEF b
  <1>3. \A down \in BOOLEAN : LET d == SendKeyEvent(b, sym, code, down, lock)
        IN  /\ Calls(d, r, s) /\ d.list[code] = IF down THEN sym ELSE None
            /\ \A x \in Codes : x # code => d.list[x] = b.list[x]
    BY <1>2, SendingKey
  <1>4. /\ Calls(c, r, s) /\ c.list[code] = None /\ \A x \in Codes : x # code => c.list[x] = b.list[x]
    BY <1>3
  <1>5. PressRelease(k, sym, code, lock) = c
    BY DEF PressRelease, b
  <1> HIDE DEF c
  <1>6. Listed(c.list)
    BY <1>2, <1>4, CodesAre DEF Listed, KeysReady
  <1> QED BY <1>4, <1>5, <1>6 DEF KeysReady

\* The Control that was held back.
LEMMA Interrupting ==
  ASSUME NEW k, NEW r, NEW s, KeysReady(k, r, s), NEW lock
  PROVE KeysReady(InterruptAltGrSequence(k, lock), r, s)
  <1> DEFINE b == [k EXCEPT !.armed = FALSE]
             d == SendKeyEvent(b, "Control_L", "ControlLeft", TRUE, lock)
  <1>1. InterruptAltGrSequence(k, lock) = IF k.armed THEN d ELSE k
    BY DEF InterruptAltGrSequence
  <1>2. KeysReady(b, r, s)
    <2>1. \A on : LET c == [k EXCEPT !.armed = on] IN KeysReady(c, r, s)
      BY Arming
    <2> QED BY <2>1
  <1> HIDE DEF b
  <1>3. Fits(b.list, "ControlLeft", "Control_L")
    BY <1>2 DEF Fits, KeysReady, Listed
  <1>4. "ControlLeft" \in Codes \ {"Unidentified"}
    BY CodesAre
  <1>5. KeysReady(d, r, s)
    BY <1>2, <1>3, <1>4, PressingKey
  <1> HIDE DEF d
  <1> QED BY <1>1, <1>5

\* _handleKeyDown.
LEMMA KeyDownReady ==
  ASSUME NEW k, NEW r, NEW s, KeysReady(k, r, s), NEW e, e.code \in Codes, e.sym \in Keysyms[e.code]
  PROVE KeysReady(KeyDown(k, e), r, s)
  <1> DEFINE resumed == IF IsAltGr(k, e) THEN [k EXCEPT !.armed = FALSE]
                        ELSE InterruptAltGrSequence(k, e.lock)
             fresh == SystemKeysym(k, IF IsAltGr(k, e) THEN "ISO_Level3_Shift" ELSE e.sym)
             sym == IF e.code # "Unidentified" /\ Held(resumed, e.code)
                    THEN resumed.list[e.code] ELSE fresh
             armed == [resumed EXCEPT !.armed = TRUE]
             once == PressRelease(resumed, sym, e.code, e.lock)
             pressed == SendKeyEvent(resumed, sym, e.code, TRUE, e.lock)
  <1>1. KeyDown(k, e) = IF NeverReleased(k, e, sym) THEN once
                        ELSE IF e.code = "ControlLeft" /\ k.system = "windows" /\ ~Held(resumed, e.code)
                        THEN armed ELSE pressed
    BY Zenon DEF KeyDown
  <1>2. KeysReady(resumed, r, s)
    <2>1. \A on : LET c == [k EXCEPT !.armed = on] IN KeysReady(c, r, s)
      BY Arming
    <2>2. KeysReady(InterruptAltGrSequence(k, e.lock), r, s)
      BY Interrupting
    <2> QED BY <2>1, <2>2
  <1>3. /\ e.code = "CapsLock" => fresh = "Caps_Lock"
        /\ e.code = "ControlLeft" => fresh = "Control_L"
    BY DEF SystemKeysym, IsAltGr, Keysyms
  <1> HIDE DEF resumed, fresh
  <1>4. KeysReady(armed, r, s)
    <2>1. \A on : LET c == [resumed EXCEPT !.armed = on] IN KeysReady(c, r, s)
      BY <1>2, Arming
    <2> QED BY <2>1
  <1>5. resumed.list[e.code] \in {None, sym}
    <2>1. CASE e.code = "Unidentified"
      BY <1>2, <2>1 DEF KeysReady, Listed
    <2>2. CASE e.code # "Unidentified"
      BY <2>2 DEF Held
    <2> QED BY <2>1, <2>2
  <1>6. Fits(resumed.list, e.code, sym)
    BY <1>2, <1>3, <1>5, Zenon DEF Fits, KeysReady, Listed, Held
  <1> HIDE DEF sym
  <1>7. KeysReady(once, r, s)
    BY <1>2, <1>5, PressingAndReleasing
  <1>8. e.code # "Unidentified" => KeysReady(pressed, r, s)
    BY <1>2, <1>6, PressingKey
  <1>9. e.code = "Unidentified" => NeverReleased(k, e, sym)
    BY DEF NeverReleased
  <1> HIDE DEF once, armed, pressed
  <1> QED BY <1>1, <1>4, <1>7, <1>8, <1>9

\* _handleKeyUp.
LEMMA KeyUpReady ==
  ASSUME NEW k, NEW r, NEW s, KeysReady(k, r, s), NEW code \in Codes
  PROVE KeysReady(KeyUp(k, code), r, s)
  <1> DEFINE resumed == InterruptAltGrSequence(k, "unknown")
             released == Release(resumed, code)
             right == Release(released, "ShiftRight")
             left == Release(right, "ShiftLeft")
             once == PressRelease(resumed, "Caps_Lock", code, "unknown")
  <1>1. KeyUp(k, code) = IF k.system = "mac" /\ code = "CapsLock" THEN once
                         ELSE IF k.system = "windows" /\ code \in {"ShiftLeft", "ShiftRight"} THEN left
                         ELSE released
    BY Zenon DEF KeyUp
  <1>2. KeysReady(resumed, r, s)
    BY Interrupting
  <1> HIDE DEF resumed
  <1>3. KeysReady(released, r, s)
    BY <1>2, ReleasingKey
  <1> HIDE DEF released
  <1>4. KeysReady(right, r, s)
    BY <1>3, ReleasingKey, CodesAre
  <1> HIDE DEF right
  <1>5. KeysReady(left, r, s)
    BY <1>4, ReleasingKey, CodesAre
  <1>6. code = "CapsLock" => KeysReady(once, r, s)
    <2>1. \A sym : resumed.list[code] \in {None, sym} =>
                     KeysReady(PressRelease(resumed, sym, code, "unknown"), r, s)
      BY <1>2, PressingAndReleasing
    <2>2. code = "CapsLock" => resumed.list[code] \in {None, "Caps_Lock"}
      BY <1>2 DEF KeysReady, Listed
    <2> QED BY <2>1, <2>2
  <1> HIDE DEF left, once
  <1> QED BY <1>1, <1>3, <1>5, <1>6

\* _allKeysUp goes through the list in some order: the function the fold is taken from.
Some(S) == CHOOSE code \in S : TRUE
Emptying(it, k) ==
    [S \in SUBSET Codes |-> IF S = {} THEN k ELSE Release(it[S \ {Some(S)}], Some(S))]

\* There are finitely many keys.
LEMMA CodesFinite == IsFiniteSet(Codes)
  <1>1. \A a, b : IsFiniteSet({a} \union {b})
    BY FS_Singleton, FS_Union
  <1>2. \A a, b, c, d : IsFiniteSet(({a} \union {b}) \union ({c} \union {d}))
    BY <1>1, FS_Union
  <1>3. IsFiniteSet((({"ControlLeft"} \union {"AltRight"}) \union ({"ShiftLeft"} \union {"ShiftRight"}))
                      \union (({"KeyA"} \union {"CapsLock"}) \union ({"Lang"} \union {"Unidentified"})))
    BY <1>2, FS_Union
  <1>4. Codes = (({"ControlLeft"} \union {"AltRight"}) \union ({"ShiftLeft"} \union {"ShiftRight"}))
                  \union (({"KeyA"} \union {"CapsLock"}) \union ({"Lang"} \union {"Unidentified"}))
    BY DEF Codes
  <1> QED BY <1>3, <1>4

\* One key less.
LEMMA Fewer ==
  ASSUME NEW S \in SUBSET Codes
  PROVE /\ Cardinality(S) \in Nat /\ (Cardinality(S) = 0 <=> S = {})
        /\ S # {} => Some(S) \in S /\ Cardinality(S \ {Some(S)}) = Cardinality(S) - 1
  <1>1. IsFiniteSet(S)
    BY CodesFinite, FS_Subset
  <1>2. S # {} => Some(S) \in S
    BY DEF Some
  <1> QED BY <1>1, <1>2, FS_CardinalityType, FS_EmptySet, FS_RemoveElement

\* It exists.
LEMMA SomeEmptying ==
  ASSUME NEW k PROVE \E it : it = Emptying(it, k)
  <1> DEFINE Body(f, S) == IF S = {} THEN k ELSE Release(f[S \ {Some(S)}], Some(S))
             E(n) == \E f : \A S \in SUBSET Codes : Cardinality(S) <= n => f[S] = Body(f, S)
             Bad == {n \in Nat : ~E(n)}
  <1>1. Bad = {}
    <2>1. SUFFICES ASSUME Bad # {} PROVE FALSE
      OBVIOUS
    <2>2. IsWellFoundedOn(OpToRel(<, Nat), Nat)
      BY NatLessThanWellFounded
    <2>3. PICK n \in Bad : \A m \in Bad : <<m, n>> \notin OpToRel(<, Nat)
      <3>1. Bad \subseteq Nat
        OBVIOUS
      <3> HIDE DEF Bad
      <3> QED BY <2>1, <2>2, <3>1, WFMin
    <2>4. n \in Nat /\ ~E(n)
      OBVIOUS
    <2>5. n # 0
      <3> DEFINE f == [S \in SUBSET Codes |-> k]
      <3>0. \A S \in SUBSET Codes : Cardinality(S) <= 0 => S = {}
        <4>1. SUFFICES ASSUME NEW S \in SUBSET Codes, Cardinality(S) <= 0 PROVE S = {}
          OBVIOUS
        <4>2. Cardinality(S) \in Nat /\ (Cardinality(S) = 0 <=> S = {})
          BY Fewer
        <4> QED BY <4>1, <4>2
      <3>1. \A S \in SUBSET Codes : Cardinality(S) <= 0 => f[S] = Body(f, S)
        BY <3>0
      <3> HIDE DEF f, Body
      <3> QED BY <2>4, <3>1
    <2>6. n - 1 \in Nat /\ n - 1 < n
      BY <2>4, <2>5
    <2>7. E(n - 1)
      <3>1. <<n - 1, n>> \in OpToRel(<, Nat)
        BY <2>4, <2>6 DEF OpToRel
      <3>2. n - 1 \notin Bad
        BY <2>3, <3>1
      <3> QED BY <2>6, <3>2
    <2>8. PICK f : \A S \in SUBSET Codes : Cardinality(S) <= n - 1 => f[S] = Body(f, S)
      BY <2>7
    <2> DEFINE next == [S \in SUBSET Codes |-> Body(f, S)]
    <2>9. ASSUME NEW S \in SUBSET Codes, Cardinality(S) <= n PROVE next[S] = Body(next, S)
      <3> DEFINE R == S \ {Some(S)}
      <3>1. CASE S = {}
        BY <3>1
      <3>2. CASE S # {}
        <4>1. R \in SUBSET Codes /\ Cardinality(R) <= n - 1
          BY <2>4, <2>9, <3>2, Fewer
        <4>2. next[R] = f[R]
          <5> HIDE DEF R, Body
          <5> QED BY <2>8, <4>1
        <4>3. next[S] = Release(f[R], Some(S))
          BY <3>2
        <4> HIDE DEF next
        <4> QED BY <3>2, <4>2, <4>3
      <3> QED BY <3>1, <3>2
    <2> HIDE DEF next, Body
    <2> QED BY <2>4, <2>9
  <1>2. E(Cardinality(Codes))
    <2>1. Cardinality(Codes) \in Nat
      BY Fewer
    <2> HIDE DEF E
    <2> QED BY <1>1, <2>1
  <1>3. PICK f : \A S \in SUBSET Codes : Cardinality(S) <= Cardinality(Codes) => f[S] = Body(f, S)
    BY <1>2
  <1> DEFINE it == [S \in SUBSET Codes |-> f[S]]
  <1>4. ASSUME NEW S \in SUBSET Codes PROVE it[S] = Body(it, S)
    <2>1. Cardinality(S) <= Cardinality(Codes)
      BY CodesFinite, FS_Subset
    <2>2. f[S] = Body(f, S)
      <3> HIDE DEF Body
      <3> QED BY <1>3, <2>1
    <2>3. S \ {Some(S)} \in SUBSET Codes
      OBVIOUS
    <2> QED BY <2>2, <2>3
  <1>5. it = Emptying(it, k)
    <2>1. it = [S \in SUBSET Codes |-> it[S]]
      OBVIOUS
    <2> HIDE DEF it
    <2>2. [S \in SUBSET Codes |-> it[S]] = [S \in SUBSET Codes |-> Body(it, S)]
      BY <1>4
    <2> QED BY <2>1, <2>2, Zenon DEF Emptying
  <1> QED BY <1>5

\* Every key is released.
LEMMA AllKeysUpReady ==
  ASSUME NEW k, NEW r, NEW s, KeysReady(k, r, s) PROVE KeysReady(AllKeysUp(k), r, s)
  <1> DEFINE start == InterruptAltGrSequence(k, "unknown")
             it == CHOOSE f : f = Emptying(f, start)
             Bad == {n \in Nat : \E S \in SUBSET Codes : Cardinality(S) = n /\ ~KeysReady(it[S], r, s)}
  <1>1. KeysReady(start, r, s)
    BY Interrupting
  <1>2. AllKeysUp(k) = it[Codes]
    BY Zenon DEF AllKeysUp, FoldSet, MapThenFoldSet, Emptying, Some
  <1> HIDE DEF start
  <1>3. it = Emptying(it, start)
    BY SomeEmptying
  <1> HIDE DEF it
  <1>4. Bad = {}
    <2>1. SUFFICES ASSUME Bad # {} PROVE FALSE
      OBVIOUS
    <2>2. IsWellFoundedOn(OpToRel(<, Nat), Nat)
      BY NatLessThanWellFounded
    <2>3. PICK n \in Bad : \A m \in Bad : <<m, n>> \notin OpToRel(<, Nat)
      <3>1. Bad \subseteq Nat
        OBVIOUS
      <3> HIDE DEF Bad
      <3> QED BY <2>1, <2>2, <3>1, WFMin
    <2>4. PICK S \in SUBSET Codes : Cardinality(S) = n /\ ~KeysReady(it[S], r, s)
      BY <2>3
    <2>5. it[S] = IF S = {} THEN start ELSE Release(it[S \ {Some(S)}], Some(S))
      BY <1>3 DEF Emptying
    <2>6. S # {}
      BY <1>1, <2>4, <2>5
    <2> DEFINE R == S \ {Some(S)}
    <2>7. /\ R \in SUBSET Codes /\ Some(S) \in Codes /\ n \in Nat /\ Cardinality(R) = n - 1
          /\ n - 1 \in Nat /\ n - 1 < n
      BY <2>4, <2>6, Fewer
    <2> HIDE DEF R
    <2>8. KeysReady(it[R], r, s)
      <3>1. <<n - 1, n>> \in OpToRel(<, Nat)
        BY <2>7 DEF OpToRel
      <3>2. n - 1 \notin Bad
        BY <2>3, <3>1
      <3> QED BY <2>7, <3>2
    <2>9. KeysReady(Release(it[R], Some(S)), r, s)
      BY <2>7, <2>8, ReleasingKey
    <2> QED BY <2>4, <2>5, <2>6, <2>9 DEF R
  <1>5. Cardinality(Codes) \in Nat /\ Codes \in SUBSET Codes
    BY Fewer
  <1> QED BY <1>2, <1>4, <1>5

-----------------------------------------------------------------------------
(* The invariant.                                                            *)

\* The keyboard's list and the server agree.
KeyInv ==
    /\ DOMAIN rfb = RfbFields /\ DOMAIN srv = SrvFields
    /\ DOMAIN kbd = {"system", "list", "armed", "out"} /\ DOMAIN kbd.list = Codes
    /\ Listed(kbd.list) /\ kbd.out = <<>>
    /\ rfb.viewOnly => srv.keys \subseteq srv.kept
    /\ Believed(kbd.list, rfb, srv)

\* The fingers that are down, and what the recognition makes of them.
FingerInv ==
    /\ DOMAIN hand = {"buttons", "fingers", "gesture"}
    /\ hand.fingers \subseteq 1..MaxFingers
    /\ touch.out = <<>> /\ Ready(touch, hand.fingers, hand.gesture)

\* The buttons the server holds, for a mouse or a touch screen.
ButtonInv ==
    /\ Shaped(Pointer) /\ CaughtUp(Pointer)
    /\ scene # "touch" => hand.fingers = {} /\ MouseHolds(Pointer, hand.buttons)
    /\ scene = "touch" => hand.buttons = {} /\ TouchHolds(Pointer, hand.gesture)

\* The inductive invariant.
IInv == KeyInv /\ FingerInv /\ ButtonInv

\* The calls of the keyboard are told to the server as the modes are now.
LEMMA NoCalls ==
  ASSUME KeyInv, NEW r, DOMAIN r = RfbFields, r.ctrl = rfb.ctrl PROVE KeysReady(kbd, r, srv)
  <1> DEFINE a == [rfb |-> r, srv |-> srv]
             t == Told(a, kbd.out)
  <1>1. t = a
    BY ToldNone DEF KeyInv
  <1>2. KeyStep(a, a)
    BY DEF KeyStep, SameServer, KeyInv, SrvFields
  <1>3. a.rfb = r /\ a.srv = srv
    OBVIOUS
  <1>4. Believed(kbd.list, r, srv)
    BY DEF KeyInv, Believed
  <1>5. kbd.out \in Seq({})
    BY DEF KeyInv
  <1> HIDE DEF t, a
  <1>6. KeyStep(a, t) /\ (~r.viewOnly => Believed(kbd.list, t.rfb, t.srv))
    BY <1>1, <1>2, <1>3, <1>4
  <1> QED BY <1>5, <1>6 DEF KeysReady, Calls, KeyInv, t, a

\* After the calls were told, with the mode as it is.
LEMMA KeysTold ==
  ASSUME KeyInv, NEW k, KeysReady(k, rfb, srv), TellKeys(k, rfb)
  PROVE KeyInv' /\ rfb'.viewOnly = rfb.viewOnly /\ SameServer(srv, srv')
  <1> DEFINE a == [rfb |-> rfb, srv |-> srv]
             t == Told(a, k.out)
  <1>1. /\ DOMAIN k = {"system", "list", "armed", "out"} /\ DOMAIN k.list = Codes /\ Listed(k.list)
        /\ KeyStep(a, t) /\ (~rfb.viewOnly => Believed(k.list, t.rfb, t.srv))
    BY DEF KeysReady, Calls
  <1>2. kbd' = [k EXCEPT !.out = <<>>] /\ rfb' = t.rfb /\ srv' = t.srv
    BY DEF TellKeys, Told
  <1>3. a.rfb = rfb /\ a.srv = srv
    OBVIOUS
  <1> HIDE DEF t, a
  <1>4. /\ DOMAIN kbd' = {"system", "list", "armed", "out"} /\ kbd'.list = k.list /\ kbd'.out = <<>>
    BY <1>1, <1>2
  <1>5. /\ DOMAIN rfb' = RfbFields /\ rfb'.viewOnly = rfb.viewOnly /\ SameServer(srv, srv')
        /\ DOMAIN srv' = SrvFields /\ rfb'.ctrl = rfb.ctrl /\ (rfb.viewOnly => srv' = srv)
    BY <1>1, <1>2, <1>3 DEF KeyStep, SameServer
  <1>6. rfb.viewOnly => srv'.keys \subseteq srv'.kept
    BY <1>5 DEF KeyInv
  <1>7. Believed(k.list, rfb', srv')
    BY <1>1, <1>2, <1>6 DEF Believed
  <1>8. Believed(kbd.list, rfb, srv)'
    BY <1>4, <1>7 DEF Believed
  <1> QED BY <1>1, <1>4, <1>5, <1>6, <1>8 DEF KeyInv, Listed

\* What the keys do leaves the rest as it is.
LEMMA KeysKeep ==
  ASSUME IInv, KeyInv', rfb'.viewOnly = rfb.viewOnly, SameServer(srv, srv'),
         UNCHANGED <<scene, touch, ptr, hand>>
  PROVE IInv'
  <1>1. FingerInv'
    BY DEF IInv, FingerInv
  <1>2. Shaped(Pointer)' /\ CaughtUp(Pointer)'
    BY DEF IInv, ButtonInv, Shaped, CaughtUp, Pointer, SameServer
  <1>3. scene' # "touch" => hand'.fingers = {} /\ MouseHolds(Pointer, hand.buttons)'
    BY DEF IInv, ButtonInv, MouseHolds, Waits, Pointer, SameServer
  <1>4. scene' = "touch" => hand'.buttons = {} /\ TouchHolds(Pointer, hand.gesture)'
    BY DEF IInv, ButtonInv, TouchHolds, Pointer, SameServer
  <1> QED BY <1>1, <1>2, <1>3, <1>4 DEF IInv, ButtonInv

\* A key is pressed.
LEMMA PressKeeps == ASSUME IInv, PressKey PROVE IInv'
  <1>1. PICK e : /\ e.code \in Codes /\ e.sym \in Keysyms[e.code] /\ TellKeys(KeyDown(kbd, e), rfb)
                 /\ UNCHANGED <<scene, touch, ptr, hand>>
    <2>1. PICK code \in Codes, quick \in BOOLEAN, meta \in BOOLEAN, lock \in LockStates :
            \E sym \in Keysyms[code] :
              /\ TellKeys(KeyDown(kbd, [code |-> code, sym |-> sym, quick |-> quick, meta |-> meta,
                                   lock |-> IF code = "CapsLock" THEN "unknown" ELSE lock]), rfb)
              /\ UNCHANGED <<scene, touch, ptr, hand>>
      BY DEF PressKey
    <2>2. PICK sym \in Keysyms[code] :
              /\ TellKeys(KeyDown(kbd, [code |-> code, sym |-> sym, quick |-> quick, meta |-> meta,
                                   lock |-> IF code = "CapsLock" THEN "unknown" ELSE lock]), rfb)
              /\ UNCHANGED <<scene, touch, ptr, hand>>
      BY <2>1
    <2> QED BY <2>2
  <1>2. KeysReady(kbd, rfb, srv)
    BY NoCalls DEF IInv, KeyInv
  <1>3. KeysReady(KeyDown(kbd, e), rfb, srv)
    BY <1>1, <1>2, KeyDownReady
  <1> QED BY <1>1, <1>3, KeysTold, KeysKeep DEF IInv

\* A key is released.
LEMMA ReleaseKeeps == ASSUME IInv, ReleaseKey PROVE IInv'
  <1>1. PICK code \in Codes : TellKeys(KeyUp(kbd, code), rfb)
    BY DEF ReleaseKey
  <1>2. KeysReady(kbd, rfb, srv)
    BY NoCalls DEF IInv, KeyInv
  <1>3. KeysReady(KeyUp(kbd, code), rfb, srv)
    BY <1>2, KeyUpReady
  <1> QED BY <1>1, <1>3, KeysTold, KeysKeep DEF IInv, ReleaseKey

\* AltGr did not come in time.
LEMMA AltGrKeeps == ASSUME IInv, AltGrTimeout PROVE IInv'
  <1>1. KeysReady(kbd, rfb, srv)
    BY NoCalls DEF IInv, KeyInv
  <1>2. KeysReady(InterruptAltGrSequence(kbd, "unknown"), rfb, srv)
    BY <1>1, Interrupting
  <1> QED BY <1>2, KeysTold, KeysKeep DEF IInv, AltGrTimeout

\* The window loses the focus.
LEMMA BlurKeeps == ASSUME IInv, WindowBlur PROVE IInv'
  <1>1. KeysReady(kbd, rfb, srv)
    BY NoCalls DEF IInv, KeyInv
  <1>2. KeysReady(AllKeysUp(kbd), rfb, srv)
    BY <1>1, AllKeysUpReady
  <1> QED BY <1>2, KeysTold, KeysKeep DEF IInv, WindowBlur

\* The on-screen Ctrl: down, it accounts for the Control the server holds.
LEMMA ToggleKeeps == ASSUME IInv, ToggleCtrl PROVE IInv'
  <1>1. /\ rfb' = [rfb EXCEPT !.ctrl = ~@] /\ srv' = SendKey(srv, rfb, "Control_L", "ControlLeft", ~rfb.ctrl)
        /\ UNCHANGED <<scene, kbd, touch, ptr, hand>>
    BY DEF ToggleCtrl
  <1>2. KeyInv
    BY DEF IInv
  <1>3. DOMAIN rfb' = RfbFields /\ rfb'.viewOnly = rfb.viewOnly /\ rfb'.ctrl = ~rfb.ctrl
    BY <1>1, <1>2 DEF KeyInv, RfbFields
  <1>4. /\ SameServer(srv, srv') /\ (rfb.viewOnly => srv' = srv)
        /\ ~rfb.viewOnly /\ ~rfb.ctrl =>
              srv'.keys \subseteq srv.keys \union {"Control_L"} /\ srv'.kept = srv.kept
        /\ ~rfb.viewOnly /\ rfb.ctrl =>
              srv'.keys \subseteq srv.keys \ {"Control_L"} /\ srv.kept \ {"Control_L"} \subseteq srv'.kept
    BY <1>1, <1>2 DEF KeyInv, SendKey, SrvFields, SameServer, None
  <1>5. Believed(kbd.list, rfb', srv')
    BY <1>2, <1>3, <1>4 DEF KeyInv, Believed
  <1>6. KeyInv'
    <2>1. kbd' = kbd /\ Believed(kbd.list, rfb, srv)'
      BY <1>1, <1>5 DEF Believed
    <2> QED BY <1>2, <1>3, <1>4, <2>1 DEF KeyInv, Listed, SameServer
  <1> QED BY <1>1, <1>3, <1>4, <1>6, KeysKeep

\* A key the server is told to hold, and to let go.
LEMMA SomeKey ==
  ASSUME NEW s, DOMAIN s = SrvFields, NEW sym, sym # None, NEW code
  PROVE /\ LET c == SendKey(s, rfb, sym, code, TRUE)
           IN  /\ SameServer(s, c) /\ (rfb.viewOnly => c = s)
               /\ c.keys \subseteq s.keys \union {sym} /\ c.kept = s.kept
        /\ LET c == SendKey(s, rfb, sym, code, FALSE)
           IN  /\ SameServer(s, c) /\ (rfb.viewOnly => c = s)
               /\ rfb.viewOnly \/ (c.keys \subseteq s.keys \ {sym} /\ s.kept \ {sym} \subseteq c.kept)
  BY DEF SendKey, SrvFields, SameServer

\* The on-screen Ctrl-Alt-Del releases what it presses.
LEMMA CtrlAltDelKeeps == ASSUME IInv, SendCtrlAltDel PROVE IInv'
  <1> DEFINE c1 == SendKey(srv, rfb, "Control_L", "ControlLeft", TRUE)
             c2 == SendKey(c1, rfb, "Alt_L", "AltLeft", TRUE)
             c3 == SendKey(c2, rfb, "Delete", "Delete", TRUE)
             c4 == SendKey(c3, rfb, "Delete", "Delete", FALSE)
             c5 == SendKey(c4, rfb, "Alt_L", "AltLeft", FALSE)
             c6 == SendKey(c5, rfb, "Control_L", "ControlLeft", FALSE)
  <1>1. srv' = c6 /\ UNCHANGED <<scene, kbd, touch, ptr, rfb, hand>>
    BY DEF SendCtrlAltDel
  <1>2. DOMAIN srv = SrvFields
    BY DEF IInv, KeyInv
  <1>3. /\ SameServer(srv, c1) /\ (rfb.viewOnly => c1 = srv)
        /\ c1.keys \subseteq srv.keys \union {"Control_L"} /\ c1.kept = srv.kept
    BY <1>2, SomeKey DEF None
  <1> HIDE DEF c1
  <1>4. /\ SameServer(c1, c2) /\ (rfb.viewOnly => c2 = c1)
        /\ c2.keys \subseteq c1.keys \union {"Alt_L"} /\ c2.kept = c1.kept
    <2>1. DOMAIN c1 = SrvFields
      BY <1>3 DEF SameServer
    <2> QED BY <2>1, SomeKey DEF None
  <1> HIDE DEF c2
  <1>5. /\ SameServer(c2, c3) /\ (rfb.viewOnly => c3 = c2)
        /\ c3.keys \subseteq c2.keys \union {"Delete"} /\ c3.kept = c2.kept
    <2>1. DOMAIN c2 = SrvFields
      BY <1>4 DEF SameServer
    <2> QED BY <2>1, SomeKey DEF None
  <1> HIDE DEF c3
  <1>6. /\ SameServer(c3, c4) /\ (rfb.viewOnly => c4 = c3)
        /\ rfb.viewOnly \/ (c4.keys \subseteq c3.keys \ {"Delete"} /\ c3.kept \ {"Delete"} \subseteq c4.kept)
    <2>1. DOMAIN c3 = SrvFields
      BY <1>5 DEF SameServer
    <2> QED BY <2>1, SomeKey DEF None
  <1> HIDE DEF c4
  <1>7. /\ SameServer(c4, c5) /\ (rfb.viewOnly => c5 = c4)
        /\ rfb.viewOnly \/ (c5.keys \subseteq c4.keys \ {"Alt_L"} /\ c4.kept \ {"Alt_L"} \subseteq c5.kept)
    <2>1. DOMAIN c4 = SrvFields
      BY <1>6 DEF SameServer
    <2> QED BY <2>1, SomeKey DEF None
  <1> HIDE DEF c5
  <1>8. /\ SameServer(c5, c6) /\ (rfb.viewOnly => c6 = c5)
        /\ rfb.viewOnly \/ (c6.keys \subseteq c5.keys \ {"Control_L"}
                               /\ c5.kept \ {"Control_L"} \subseteq c6.kept)
    <2>1. DOMAIN c5 = SrvFields
      BY <1>7 DEF SameServer
    <2> QED BY <2>1, SomeKey DEF None
  <1> HIDE DEF c6
  <1>9. SameServer(srv, srv') /\ (rfb.viewOnly => srv' = srv)
    BY <1>1, <1>3, <1>4, <1>5, <1>6, <1>7, <1>8 DEF SameServer
  <1>10. ~rfb.viewOnly =>
            /\ srv'.keys \subseteq srv.keys \ {"Control_L", "Alt_L", "Delete"}
            /\ srv.kept \ {"Control_L", "Alt_L", "Delete"} \subseteq srv'.kept
    BY <1>1, <1>3, <1>4, <1>5, <1>6, <1>7, <1>8
  <1>11. Believed(kbd.list, rfb, srv')
    BY <1>9, <1>10 DEF IInv, KeyInv, Believed
  <1>12. KeyInv'
    <2>1. kbd' = kbd /\ rfb' = rfb /\ Believed(kbd.list, rfb, srv)'
      BY <1>1, <1>11 DEF Believed
    <2> QED BY <1>9, <2>1 DEF IInv, KeyInv, Listed, SameServer
  <1> QED BY <1>1, <1>9, <1>12, KeysKeep

\* What the server tells of itself.
LEMMA ToldKeeps == ASSUME IInv, LedEvent \/ Supports PROVE IInv'
  <1>1. /\ DOMAIN rfb' = RfbFields /\ rfb'.viewOnly = rfb.viewOnly /\ rfb'.ctrl = rfb.ctrl
        /\ UNCHANGED <<scene, kbd, touch, ptr, srv, hand>>
    BY DEF IInv, KeyInv, RfbFields, LedEvent, Supports
  <1>2. Believed(kbd.list, rfb, srv)'
    BY <1>1 DEF IInv, KeyInv, Believed
  <1>3. KeyInv'
    BY <1>1, <1>2 DEF IInv, KeyInv, Listed
  <1>4. SameServer(srv, srv')
    BY <1>1 DEF IInv, KeyInv, SameServer
  <1> QED BY <1>1, <1>3, <1>4, KeysKeep

\* What the pointer does releases keys at most.
LEMMA PointerKeeps ==
  ASSUME IInv, NEW c, Becomes(c), Shaped(c), CaughtUp(c), UNCHANGED <<scene, kbd, rfb>>, FingerInv',
         Releases(srv, c.srv),
         scene # "touch" => hand'.fingers = {} /\ MouseHolds(c, hand'.buttons),
         scene = "touch" => hand'.buttons = {} /\ TouchHolds(c, hand'.gesture)
  PROVE IInv'
  <1>1. ptr' = c.ptr /\ srv' = c.srv /\ rfb' = rfb /\ scene' = scene /\ kbd' = kbd
    BY DEF Becomes
  <1>2. KeyInv'
    <2>1. DOMAIN srv' = SrvFields
      BY <1>1 DEF Shaped
    <2>2. rfb.viewOnly => srv'.keys \subseteq srv'.kept
      BY <1>1 DEF Releases, IInv, KeyInv
    <2>3. Believed(kbd.list, rfb, srv')
      BY <1>1 DEF Releases, IInv, KeyInv, Believed
    <2>4. Believed(kbd.list, rfb, srv)'
      BY <1>1, <2>3 DEF Believed
    <2> QED BY <1>1, <2>1, <2>2, <2>4 DEF IInv, KeyInv, Listed
  <1>3. Shaped(Pointer)' /\ CaughtUp(Pointer)'
    BY <1>1 DEF Shaped, CaughtUp, Pointer
  <1>4. MouseHolds(c, hand'.buttons) => MouseHolds(Pointer, hand.buttons)'
    BY <1>1 DEF MouseHolds, Waits, Pointer
  <1>5. TouchHolds(c, hand'.gesture) => TouchHolds(Pointer, hand.gesture)'
    BY <1>1 DEF TouchHolds, Pointer
  <1> QED BY <1>1, <1>2, <1>3, <1>4, <1>5 DEF IInv, ButtonInv

\* The mouse leaves the keys alone.
LEMMA MouseKeeps ==
  ASSUME IInv, scene # "touch", NEW c, Becomes(c), MouseHandled(Pointer, c, hand'.buttons),
         UNCHANGED <<scene, kbd, touch, rfb>>,
         DOMAIN hand' = DOMAIN hand, hand'.fingers = hand.fingers, hand'.gesture = hand.gesture
  PROVE IInv'
  <1>1. FingerInv'
    BY DEF IInv, FingerInv
  <1>2. Releases(srv, c.srv)
    BY DEF MouseHandled, Releases, Pointer
  <1>3. Shaped(c) /\ CaughtUp(c) /\ MouseHolds(c, hand'.buttons) /\ hand'.fingers = {}
    BY DEF MouseHandled, IInv, ButtonInv
  <1> QED BY <1>1, <1>2, <1>3, PointerKeeps

\* A button of the mouse is pressed.
LEMMA MouseDownKeeps == ASSUME IInv, scene # "touch", MouseDown PROVE IInv'
  <1>1. PICK m \in MouseButtons \ hand.buttons, x \in 0..1 :
          /\ MouseButton(x, hand.buttons \union {m}, TRUE, ptr.drag /\ hand.buttons # {})
          /\ hand' = [hand EXCEPT !.buttons = @ \union {m}]
          /\ UNCHANGED <<scene, kbd, touch, rfb>>
    BY DEF MouseDown
  <1> DEFINE old == hand.buttons
             buttons == hand.buttons \union {m}
             second == ptr.drag /\ hand.buttons # {}
  <1>2. /\ Shaped(Pointer) /\ CaughtUp(Pointer) /\ MouseHolds(Pointer, old)
        /\ DOMAIN hand = {"buttons", "fingers", "gesture"}
    BY DEF IInv, ButtonInv, FingerInv
  <1>3. \E y : buttons = old \union {y}
    OBVIOUS
  <1>4. /\ DOMAIN hand' = DOMAIN hand /\ hand'.fingers = hand.fingers /\ hand'.gesture = hand.gesture
        /\ hand'.buttons = buttons
    BY <1>1, <1>2
  <1>5. TRUE \in BOOLEAN /\ second \in BOOLEAN /\ (second <=> ptr.drag /\ old # {})
    OBVIOUS
  <1>6. PICK down \in BOOLEAN, late \in BOOLEAN :
           down /\ (late <=> ptr.drag /\ old # {}) /\ MouseButton(x, buttons, down, late)
    BY <1>1, <1>5
  <1> HIDE DEF old, buttons, second
  <1>7. PICK c : Becomes(c) /\ MouseHandled(Pointer, c, buttons)
    <2>1. down => \E y : buttons = old \union {y}
      BY <1>3
    <2>2. down => (late <=> ptr.drag /\ old # {})
      BY <1>6
    <2>3. ~down => \E y \in old : buttons = old \ {y}
      BY <1>6
    <2>4. (~down => ~late) /\ MouseButton(x, buttons, down, late)
      BY <1>6
    <2> HIDE <1>6
    <2> QED BY <1>2, <2>1, <2>2, <2>3, <2>4, Clicked
  <1> QED BY <1>1, <1>4, <1>7, MouseKeeps

\* A button of the mouse is released.
LEMMA MouseUpKeeps == ASSUME IInv, scene # "touch", MouseUp PROVE IInv'
  <1>1. PICK m \in hand.buttons, x \in 0..1 :
          /\ MouseButton(x, hand.buttons \ {m}, FALSE, FALSE)
          /\ hand' = [hand EXCEPT !.buttons = @ \ {m}]
          /\ UNCHANGED <<scene, kbd, touch, rfb>>
    BY DEF MouseUp
  <1> DEFINE old == hand.buttons
             buttons == hand.buttons \ {m}
  <1>2. /\ Shaped(Pointer) /\ CaughtUp(Pointer) /\ MouseHolds(Pointer, old)
        /\ DOMAIN hand = {"buttons", "fingers", "gesture"}
    BY DEF IInv, ButtonInv, FingerInv
  <1>3. \E y \in old : buttons = old \ {y}
    OBVIOUS
  <1>4. /\ DOMAIN hand' = DOMAIN hand /\ hand'.fingers = hand.fingers /\ hand'.gesture = hand.gesture
        /\ hand'.buttons = buttons
    BY <1>1, <1>2
  <1>5. PICK down \in BOOLEAN, late \in BOOLEAN : ~down /\ ~late /\ MouseButton(x, buttons, down, late)
    BY <1>1
  <1> HIDE DEF old, buttons
  <1>6. PICK c : Becomes(c) /\ MouseHandled(Pointer, c, buttons)
    BY <1>2, <1>3, <1>5, Clicked
  <1> QED BY <1>1, <1>4, <1>6, MouseKeeps

\* The mouse moves, or drags the viewport.
LEMMA MouseMoveKeeps == ASSUME IInv, scene # "touch", MouseMove PROVE IInv'
  <1> DEFINE old == hand.buttons
  <1>1. PICK x \in 0..1, far \in BOOLEAN :
          /\ Becomes(IF ptr.dragging THEN [Pointer EXCEPT !.ptr.moved = @ \/ far]
                     ELSE HandleMouseMove(Pointer, x))
          /\ UNCHANGED <<scene, kbd, touch, rfb, hand>>
    BY DEF MouseMove
  <1>2. Shaped(Pointer) /\ CaughtUp(Pointer) /\ MouseHolds(Pointer, old)
    BY DEF IInv, ButtonInv
  <1>3. CASE ptr.dragging
    <2> DEFINE c == [Pointer EXCEPT !.ptr.moved = @ \/ far]
    <2>1. Becomes(c)
      BY <1>1, <1>3
    <2>2. /\ Shaped(c) /\ CaughtUp(c) /\ c.srv = srv /\ c.ptr.mask = ptr.mask /\ c.ptr.drag = ptr.drag
          /\ c.ptr.dragging = ptr.dragging /\ c.ptr.timer = ptr.timer
      BY <1>2 DEF Shaped, CaughtUp, PtrFields, SrvFields, Pointer
    <2> HIDE DEF c, old
    <2>3. MouseHandled(Pointer, c, old)
      BY <1>2, <2>2 DEF MouseHandled, MouseHolds, Waits, Pointer
    <2> QED BY <1>1, <2>1, <2>3, MouseKeeps DEF old
  <1>4. CASE ~ptr.dragging
    <2> DEFINE c == HandleMouseMove(Pointer, x)
    <2>1. Becomes(c)
      BY <1>1, <1>4
    <2>2. /\ Shaped(c) /\ CaughtUp(c) /\ c.ptr.mask = Pointer.ptr.mask /\ Aside(Pointer, c)
          /\ Unsent(Pointer, c) \/ Sent(Pointer, c, Pointer.ptr.mask)
      BY <1>2, Moving
    <2>3. Pointer.srv.blind \/ ~(Pointer.ptr.drag /\ old # {})
      BY <1>2, <1>4 DEF MouseHolds, Waits, Pointer
    <2> HIDE DEF c, old
    <2>4. MouseHandled(Pointer, c, old)
      BY <1>2, <2>2, <2>3, MouseSending
    <2> QED BY <1>1, <2>1, <2>4, MouseKeeps DEF old
  <1> QED BY <1>3, <1>4

\* The wheel clicks, and a drag that goes on is no longer followed.
LEMMA WheelKeeps == ASSUME IInv, scene # "touch", Wheel PROVE IInv'
  <1> DEFINE old == hand.buttons
  <1>1. PICK x \in 0..1 :
          /\ Becomes([Click(Pointer, x, old \union {"wheel"}, old) EXCEPT !.srv.blind = @ \/ ptr.dragging])
          /\ UNCHANGED <<scene, kbd, touch, rfb, hand>>
    BY DEF Wheel
  <1> DEFINE d == Click(Pointer, x, old \union {"wheel"}, old)
             c == [d EXCEPT !.srv.blind = @ \/ ptr.dragging]
  <1>2. Shaped(Pointer) /\ CaughtUp(Pointer) /\ MouseHolds(Pointer, old)
    BY DEF IInv, ButtonInv
  <1>3. Pressed(Pointer, d, old)
    BY <1>2, Clicking
  <1> HIDE DEF d
  <1>4. /\ Shaped(c) /\ CaughtUp(c) /\ c.ptr = d.ptr /\ c.srv.mask = d.srv.mask
        /\ c.srv.spared = d.srv.spared /\ c.srv.keys = d.srv.keys /\ c.srv.kept = d.srv.kept
        /\ (c.srv.blind <=> d.srv.blind \/ ptr.dragging)
    BY <1>3 DEF Pressed, Shaped, CaughtUp, PtrFields, SrvFields
  <1> HIDE DEF c, old
  <1>5. c.srv.keys = srv.keys /\ c.srv.kept = srv.kept /\ c.ptr.mask = old /\ d.srv.blind = srv.blind
        /\ d.ptr.dragging = ptr.dragging /\ d.ptr.drag = ptr.drag
    BY <1>3, <1>4 DEF Pressed, Aside, Pointer
  <1>6. MouseHandled(Pointer, c, old)
    <2>1. CASE c.srv.blind
      <3>1. c.srv.keys = Pointer.srv.keys /\ c.srv.kept = Pointer.srv.kept
        BY <1>5 DEF Pointer
      <3> QED BY <1>4, <1>5, <2>1, <3>1, Blinded
    <2>2. CASE ~c.srv.blind
      <3>1. ~srv.blind /\ ~ptr.dragging
        BY <1>4, <1>5, <2>2
      <3>2. Pointer.srv.blind \/ (~Pointer.ptr.dragging /\ ~(Pointer.ptr.drag /\ old # {}))
        BY <1>2, <3>1 DEF MouseHolds, Waits, Pointer
      <3>3. MouseHandled(Pointer, d, old)
        BY <1>2, <1>3, <3>2, MousePressing
      <3>4. MouseHolds(c, old)
        BY <1>4, <1>5, <2>2, <3>1, <3>3 DEF MouseHandled, MouseHolds, Waits
      <3> QED BY <1>4, <1>5, <3>4 DEF MouseHandled, Pointer
    <2> QED BY <2>1, <2>2
  <1> QED BY <1>1, <1>6, MouseKeeps DEF c, d, old

\* The timer of the moves sends the last one.
LEMMA DelayedKeeps == ASSUME IInv, DelayedMouseMove PROVE IInv'
  <1> DEFINE d == [Pointer EXCEPT !.ptr.timer = FALSE, !.ptr.recent = TRUE]
             c == SendMouse(d, ptr.pos, ptr.mask)
             mask == ptr.mask
  <1>1. ptr.timer /\ Becomes(c) /\ UNCHANGED <<scene, kbd, touch, rfb, hand>>
    BY DEF DelayedMouseMove
  <1>2. Shaped(Pointer) /\ CaughtUp(Pointer)
    BY DEF IInv, ButtonInv
  <1>3. /\ Shaped(d) /\ d.srv = srv /\ d.ptr.mask = mask /\ ~d.ptr.timer /\ Aside(Pointer, d)
        /\ d.srv.want = ptr.pos
    BY <1>1, <1>2 DEF Shaped, PtrFields, SrvFields, CaughtUp, Pointer, Aside
  <1> HIDE DEF d
  <1>4. /\ Shaped(c) /\ c.ptr = d.ptr /\ Aside(d, c)
        /\ rfb.viewOnly => Unsent(d, c) /\ c.srv.want = c.srv.pos
        /\ ~rfb.viewOnly => Sent(d, c, mask) /\ c.srv.pos = ptr.pos /\ c.srv.want = ptr.pos
    BY <1>3, Sending
  <1> HIDE DEF c, mask
  <1>5. CaughtUp(c) /\ c.ptr.mask = Pointer.ptr.mask /\ Aside(Pointer, c)
    BY <1>3, <1>4 DEF CaughtUp, Aside, Pointer, mask
  <1>6. Unsent(Pointer, c) \/ Sent(Pointer, c, Pointer.ptr.mask)
    BY <1>3, <1>4 DEF Unsent, Sent, Pointer, mask
  <1>7. CASE scene = "touch"
    <2> DEFINE h == hand.gesture
    <2>1. TouchHolds(Pointer, h) /\ hand.buttons = {}
      BY <1>7 DEF IInv, ButtonInv
    <2> HIDE DEF h
    <2>2. Handled(Pointer, c, h)
      BY <1>2, <1>4, <1>5, <1>6, <2>1, TouchSending
    <2>3. Releases(srv, c.srv) /\ TouchHolds(c, h)
      BY <2>2 DEF Handled, Pointer
    <2>4. FingerInv'
      BY <1>1 DEF IInv, FingerInv
    <2> QED BY <1>1, <1>4, <1>5, <1>7, <2>1, <2>3, <2>4, PointerKeeps DEF h
  <1>8. CASE scene # "touch"
    <2> DEFINE old == hand.buttons
    <2>1. MouseHolds(Pointer, old)
      BY <1>8 DEF IInv, ButtonInv
    <2>2. Pointer.srv.blind \/ ~(Pointer.ptr.drag /\ old # {})
      BY <1>1, <2>1 DEF MouseHolds, Waits, Pointer
    <2> HIDE DEF old
    <2>3. MouseHandled(Pointer, c, old)
      BY <1>2, <1>4, <1>5, <1>6, <2>1, <2>2, MouseSending
    <2> QED BY <1>1, <1>8, <2>3, MouseKeeps DEF old
  <1> QED BY <1>7, <1>8

\* The next move may be sent at once.
LEMMA LapseKeeps == ASSUME IInv, MoveLapse PROVE IInv'
  <1> DEFINE c == [Pointer EXCEPT !.ptr.recent = FALSE]
  <1>1. ptr' = [ptr EXCEPT !.recent = FALSE] /\ UNCHANGED <<scene, kbd, touch, rfb, srv, hand>>
    BY DEF MoveLapse
  <1>2. Becomes(c)
    BY <1>1 DEF Becomes, Pointer
  <1>3. Shaped(Pointer) /\ CaughtUp(Pointer) /\ DOMAIN srv = SrvFields
    BY DEF IInv, ButtonInv, KeyInv
  <1>4. /\ Shaped(c) /\ CaughtUp(c) /\ c.srv = srv /\ c.ptr.mask = ptr.mask /\ c.ptr.drag = ptr.drag
        /\ c.ptr.dragging = ptr.dragging /\ c.ptr.timer = ptr.timer
    BY <1>3 DEF Shaped, CaughtUp, PtrFields, SrvFields, Pointer
  <1> HIDE DEF c
  <1>5. Releases(srv, c.srv)
    BY <1>4 DEF Releases
  <1>6. scene # "touch" => hand'.fingers = {} /\ MouseHolds(c, hand'.buttons)
    BY <1>1, <1>4 DEF IInv, ButtonInv, MouseHolds, Waits, Pointer
  <1>7. scene = "touch" => hand'.buttons = {} /\ TouchHolds(c, hand'.gesture)
    BY <1>1, <1>4 DEF IInv, ButtonInv, TouchHolds, Pointer
  <1>8. FingerInv'
    BY <1>1 DEF IInv, FingerInv
  <1> QED BY <1>1, <1>2, <1>4, <1>5, <1>6, <1>7, <1>8, PointerKeeps

\* What a handler of the gestures makes of a touch.
LEMMA GesturesKeep ==
  ASSUME IInv, scene = "touch", NEW g, NEW fingers \in SUBSET (1..MaxFingers),
         Recognised(g, fingers, hand.gesture), TellGestures(g, fingers)
  PROVE IInv'
  <1> DEFINE h == hand.gesture
  <1>1. PICK steps \in 0..1 :
        /\ touch' = [g EXCEPT !.out = <<>>]
        /\ Becomes(Handles(Pointer, steps, g.out))
        /\ hand' = [hand EXCEPT !.fingers = fingers, !.gesture = Hears(@, g.out)]
        /\ UNCHANGED <<scene, kbd, rfb>>
    BY Zenon DEF TellGestures, Handles, Hears
  <1>2. PICK h2 : Ready(g, fingers, h2) /\ Tells(h, g.out, h2)
    BY DEF Recognised
  <1>3. /\ Shaped(Pointer) /\ CaughtUp(Pointer) /\ TouchHolds(Pointer, h) /\ hand.buttons = {}
        /\ DOMAIN hand = {"buttons", "fingers", "gesture"}
    BY DEF IInv, ButtonInv, FingerInv
  <1>4. /\ hand'.fingers = fingers /\ hand'.gesture = Hears(h, g.out) /\ hand'.buttons = {}
        /\ DOMAIN hand' = {"buttons", "fingers", "gesture"}
    BY <1>1, <1>3
  <1> DEFINE evs == g.out
             c == Handles(Pointer, steps, evs)
  <1> HIDE DEF h, evs
  <1>5. Handled(Pointer, c, h2) /\ Hears(h, evs) = h2
    BY <1>2, <1>3, AllEvents DEF evs
  <1>6. Becomes(c)
    BY <1>1 DEF evs
  <1> HIDE DEF c
  <1>7. Pushed(g, touch', <<>>)
    <2>1. DOMAIN g = TouchFields
      BY <1>2 DEF Ready, TouchShape
    <2> QED BY <1>1, <2>1 DEF Pushed, TouchFields
  <1>8. Ready(touch', fingers, h2)
    <2> DEFINE r == touch'
               none == <<>>
    <2>1. Pushed(g, r, none)
      BY <1>7
    <2> HIDE DEF r, none
    <2>2. Ready(r, fingers, h2)
      BY <1>2, <2>1, ReadyPushed
    <2> QED BY <2>2 DEF r
  <1>9. FingerInv'
    <2>1. touch'.out = <<>>
      BY <1>7 DEF Pushed
    <2>2. hand'.gesture = h2
      BY <1>4, <1>5 DEF evs
    <2> QED BY <1>4, <1>8, <2>1, <2>2 DEF FingerInv
  <1>10. Releases(srv, c.srv) /\ Shaped(c) /\ CaughtUp(c) /\ TouchHolds(c, hand'.gesture)
    BY <1>4, <1>5 DEF Handled, Pointer, evs
  <1> QED BY <1>1, <1>4, <1>6, <1>9, <1>10, PointerKeeps

\* There is a finger left to put down.
LEMMA FreeFinger ==
  ASSUME IInv, Cardinality(hand.fingers) < MaxFingers
  PROVE (CHOOSE i \in 1..MaxFingers : i \notin hand.fingers) \in (1..MaxFingers) \ hand.fingers
  <1>1. MaxFingers \in Nat /\ hand.fingers \subseteq 1..MaxFingers
    BY InputAssumption DEF IInv, FingerInv
  <1>2. Cardinality(1..MaxFingers) = MaxFingers
    BY <1>1, FS_Interval
  <1>3. hand.fingers # 1..MaxFingers
    BY <1>1, <1>2
  <1>4. \E i \in 1..MaxFingers : i \notin hand.fingers
    BY <1>1, <1>3
  <1> QED BY <1>4

\* A finger comes down, moves or is lifted, or a timer of the recognition fires.
LEMMA TouchKeeps ==
  ASSUME IInv, scene = "touch", FingerDown \/ FingerMove \/ FingerUp \/ LongPress \/ TwoTouch
  PROVE IInv'
  <1> DEFINE g == touch
             down == hand.fingers
             h == hand.gesture
  <1>1. Ready(g, down, h) /\ g.out = <<>> /\ down \in SUBSET (1..MaxFingers)
    BY DEF IInv, FingerInv
  <1>2. CASE FingerDown
    <2> DEFINE id == CHOOSE i \in 1..MaxFingers : i \notin hand.fingers
    <2>1. PICK late \in BOOLEAN : TellGestures(TouchStart(g, id, late), down \union {id})
      BY <1>2 DEF FingerDown
    <2>2. id \in (1..MaxFingers) \ down
      BY <1>2, FreeFinger DEF FingerDown
    <2> HIDE DEF id, g, down, h
    <2>3. Recognised(TouchStart(g, id, late), down \union {id}, h)
      BY <1>1, <2>2, StartReady
    <2>4. down \union {id} \in SUBSET (1..MaxFingers)
      BY <1>1, <2>2
    <2> QED BY <2>1, <2>3, <2>4, GesturesKeep DEF h
  <1>3. CASE FingerMove
    <2>1. PICK id \in down, at \in Moves : TellGestures(TouchMove(g, id, at), down)
      BY <1>3 DEF FingerMove
    <2> HIDE DEF g, down, h
    <2>2. Recognised(TouchMove(g, id, at), down, h)
      BY <1>1, MoveReady
    <2> QED BY <1>1, <2>1, <2>2, GesturesKeep DEF h
  <1>4. CASE FingerUp
    <2>1. PICK id \in down, slow \in BOOLEAN : TellGestures(TouchEnd(g, id, slow), down \ {id})
      BY <1>4 DEF FingerUp
    <2> HIDE DEF g, down, h
    <2>2. Recognised(TouchEnd(g, id, slow), down \ {id}, h)
      BY <1>1, EndReady
    <2>3. down \ {id} \in SUBSET (1..MaxFingers)
      BY <1>1
    <2> QED BY <2>1, <2>2, <2>3, GesturesKeep DEF h
  <1>5. CASE LongPress
    <2>1. g.longpress /\ TellGestures(LongpressTimeout(g), down)
      BY <1>5 DEF LongPress
    <2> HIDE DEF g, down, h
    <2>2. Recognised(LongpressTimeout(g), down, h)
      BY <1>1, <2>1, LongpressReady
    <2> QED BY <1>1, <2>1, <2>2, GesturesKeep DEF h
  <1>6. CASE TwoTouch
    <2>1. g.twoTouch = "armed" /\ \E apart \in BOOLEAN : TellGestures(TwoTouchTimeout(g, apart), down)
      BY <1>6 DEF TwoTouch
    <2>2. PICK apart \in BOOLEAN : TellGestures(TwoTouchTimeout(g, apart), down)
      BY <2>1
    <2> HIDE DEF g, down, h
    <2>3. Recognised(TwoTouchTimeout(g, apart), down, h)
      BY <1>1, <2>1, TwoTouchReady
    <2> QED BY <1>1, <2>2, <2>3, GesturesKeep DEF h
  <1> QED BY <1>2, <1>3, <1>4, <1>5, <1>6

\* With no finger down the recognition is ready for the next gesture.
LEMMA AllUp ==
  ASSUME NEW g, NEW h, Ready(g, {}, h)
  PROVE /\ g.state = AllGestures /\ g.tracked = <<>> /\ g.ignored = {} /\ ~g.waitingRelease
        /\ ~g.longpress /\ g.twoTouch # "armed" /\ h = "none"
  <1>1. Active(g) = {} /\ g.ignored = {}
    BY DEF Ready, Tracking
  <1>2. ~SomeActive(g)
    BY <1>1 DEF Active, SomeActive
  <1>3. g.tracked = <<>>
    BY <1>2 DEF Ready, Fresh
  <1>4. g.state = AllGestures /\ ~g.waitingRelease
    BY <1>1, <1>3 DEF Ready, Fresh
  <1>5. Len(g.tracked) = 0
    BY <1>3
  <1>6. ~g.longpress /\ g.twoTouch # "armed"
    BY <1>5 DEF Ready, Timers
  <1>7. h = Grip(AllGestures)
    BY <1>4 DEF Ready
  <1>8. Grip(AllGestures) = "none"
    BY GestureSets DEF Grip
  <1> QED BY <1>1, <1>3, <1>4, <1>6, <1>7, <1>8

\* A mode changes with every finger and button up, or blindly.
LEMMA ModesKeep ==
  ASSUME IInv, KeyInv', UNCHANGED <<scene, touch, hand>>, DOMAIN ptr' = PtrFields,
         ptr'.mask = ptr.mask, ptr'.pos = ptr.pos, ptr'.timer = ptr.timer, ptr'.dragging = ptr.dragging,
         srv'.mask = srv.mask, srv'.pos = srv.pos, srv'.want = srv.want, srv'.spared = srv.spared,
         srv'.blind <=> srv.blind \/ Busy
  PROVE IInv'
  <1>1. FingerInv'
    BY DEF IInv, FingerInv
  <1>2. Shaped(Pointer)' /\ CaughtUp(Pointer)'
    BY DEF IInv, ButtonInv, KeyInv, Shaped, CaughtUp, Pointer
  <1>3. hand.fingers = {} => hand.gesture = "none"
    <2> DEFINE h == hand.gesture
    <2>1. Ready(touch, hand.fingers, h)
      BY DEF IInv, FingerInv
    <2> HIDE DEF h
    <2>2. hand.fingers = {} => h = "none"
      BY <2>1, AllUp
    <2> QED BY <2>2 DEF h
  <1>4. scene # "touch" => hand'.fingers = {} /\ MouseHolds(Pointer, hand.buttons)'
    BY DEF IInv, ButtonInv, MouseHolds, Waits, Pointer, Busy
  <1>5. scene = "touch" => hand'.buttons = {} /\ TouchHolds(Pointer, hand.gesture)'
    BY <1>3 DEF IInv, ButtonInv, TouchHolds, Pointer, Busy
  <1> QED BY <1>1, <1>2, <1>4, <1>5 DEF IInv, ButtonInv

\* View-only mode is switched: what the server holds is kept from then on.
LEMMA ViewOnlyKeeps ==
  ASSUME IInv, NEW on \in BOOLEAN, SetViewOnly(on), UNCHANGED <<scene, touch, ptr, hand>> PROVE IInv'
  <1> DEFINE r == [rfb EXCEPT !.viewOnly = on, !.modes = @ + 1]
             a == [rfb |-> r, srv |-> srv]
             k == IF on THEN AllKeysUp(kbd) ELSE kbd
             t == Told(a, k.out)
  <1>1. KeyInv
    BY DEF IInv
  <1>2. DOMAIN r = RfbFields /\ r.ctrl = rfb.ctrl /\ r.viewOnly = on
    BY <1>1 DEF KeyInv, RfbFields
  <1>3. (IF on THEN AllKeysUp(kbd).out ELSE <<>>) = k.out
    BY <1>1 DEF KeyInv
  <1>4. /\ kbd' = IF on THEN [AllKeysUp(kbd) EXCEPT !.out = <<>>] ELSE kbd
        /\ rfb' = t.rfb
        /\ srv' = [t.srv EXCEPT !.kept = @ \union t.srv.keys, !.blind = @ \/ Busy]
    <2> HIDE DEF k
    <2> QED BY <1>3, Zenon DEF SetViewOnly, Told
  <1>5. a.rfb = r /\ a.srv = srv
    OBVIOUS
  <1> HIDE DEF r
  <1>6. KeysReady(kbd, r, srv)
    BY <1>1, <1>2, NoCalls
  <1>7. KeysReady(k, r, srv)
    BY <1>6, AllKeysUpReady
  <1>8. DOMAIN kbd' = {"system", "list", "armed", "out"} /\ kbd'.list = k.list /\ kbd'.out = <<>>
    BY <1>1, <1>4, <1>7 DEF KeyInv, KeysReady, Calls
  <1> HIDE DEF k
  <1>9. DOMAIN k.list = Codes /\ Listed(k.list) /\ KeyStep(a, t)
    BY <1>7 DEF KeysReady, Calls
  <1> HIDE DEF t, a
  <1>10. DOMAIN rfb' = RfbFields /\ DOMAIN t.srv = SrvFields /\ SameServer(srv, t.srv)
    BY <1>4, <1>5, <1>9 DEF KeyStep, SameServer
  <1>11. /\ DOMAIN srv' = SrvFields /\ srv'.keys = t.srv.keys /\ srv'.kept = t.srv.kept \union t.srv.keys
         /\ (srv'.blind <=> srv.blind \/ Busy)
         /\ srv'.mask = srv.mask /\ srv'.pos = srv.pos /\ srv'.want = srv.want /\ srv'.spared = srv.spared
    BY <1>4, <1>10 DEF SameServer, SrvFields
  <1>12. KeyInv'
    <2>1. Believed(kbd.list, rfb, srv)'
      BY <1>11 DEF Believed
    <2> QED BY <1>8, <1>9, <1>10, <1>11, <2>1 DEF KeyInv, Listed
  <1>13. DOMAIN ptr' = PtrFields
    BY DEF IInv, ButtonInv, Shaped, Pointer
  <1> QED BY <1>11, <1>12, <1>13, ModesKeep

\* Dragging of the viewport is switched.
LEMMA DragViewportKeeps ==
  ASSUME IInv, NEW on, SetDragViewport(on), UNCHANGED <<scene, touch, hand>> PROVE IInv'
  <1>1. /\ ptr' = [ptr EXCEPT !.drag = on] /\ rfb' = [rfb EXCEPT !.modes = @ + 1]
        /\ srv' = [srv EXCEPT !.blind = @ \/ Busy] /\ kbd' = kbd
    BY DEF SetDragViewport
  <1>2. DOMAIN ptr = PtrFields /\ DOMAIN srv = SrvFields /\ DOMAIN rfb = RfbFields
    BY DEF IInv, ButtonInv, KeyInv, Shaped, Pointer
  <1>3. /\ DOMAIN ptr' = PtrFields /\ ptr'.mask = ptr.mask /\ ptr'.pos = ptr.pos
        /\ ptr'.timer = ptr.timer /\ ptr'.dragging = ptr.dragging
    BY <1>1, <1>2 DEF PtrFields
  <1>4. /\ DOMAIN srv' = SrvFields /\ srv'.keys = srv.keys /\ srv'.kept = srv.kept
        /\ (srv'.blind <=> srv.blind \/ Busy)
        /\ srv'.mask = srv.mask /\ srv'.pos = srv.pos /\ srv'.want = srv.want /\ srv'.spared = srv.spared
    BY <1>1, <1>2 DEF SrvFields
  <1>5. DOMAIN rfb' = RfbFields /\ rfb'.viewOnly = rfb.viewOnly /\ rfb'.ctrl = rfb.ctrl
    BY <1>1, <1>2 DEF RfbFields
  <1>6. KeyInv'
    <2>1. Believed(kbd.list, rfb, srv)'
      BY <1>1, <1>4, <1>5 DEF IInv, KeyInv, Believed
    <2> QED BY <1>1, <1>4, <1>5, <2>1 DEF IInv, KeyInv, Listed
  <1> QED BY <1>3, <1>4, <1>6, ModesKeep

-----------------------------------------------------------------------------
(* The theorems.                                                             *)

\* A new connection holds nothing.
LEMMA InitHolds == InputInit => IInv
  <1> SUFFICES ASSUME InputInit PROVE IInv
    OBVIOUS
  <1>1. /\ kbd.list = [code \in Codes |-> None] /\ kbd.out = <<>>
        /\ DOMAIN kbd = {"system", "list", "armed", "out"}
    BY DEF InputInit, NewKeyboard
  <1>2. KeyInv
    BY <1>1, CodesAre DEF InputInit, KeyInv, Listed, Believed, RfbFields, SrvFields
  <1>3. FingerInv
    <2>1. /\ DOMAIN touch = TouchFields /\ touch.state = AllGestures /\ touch.tracked = <<>>
          /\ touch.ignored = {} /\ touch.waitingRelease = FALSE /\ touch.longpress = FALSE
          /\ touch.twoTouch = "none" /\ touch.out = <<>>
      BY DEF InputInit, NoTouch, TouchFields
    <2>2. Len(touch.tracked) = 0 /\ DOMAIN touch.tracked = {}
      BY <2>1
    <2>3. TouchShape(touch)
      <3>1. <<>> \in Seq(Finger)
        OBVIOUS
      <3> QED BY <2>1, <3>1 DEF TouchShape
    <2>4. Tracking(touch, {})
      BY <2>1, <2>2 DEF Tracking, Active
    <2>5. Fresh(touch) /\ Possible(touch.state, Len(touch.tracked), touch.waitingRelease) /\ Timers(touch)
      BY <2>1, <2>2 DEF Fresh, Possible, Timers
    <2>6. Grip(touch.state) = "none"
      BY <2>1, GestureSets DEF Grip
    <2>7. Ready(touch, {}, "none")
      BY <2>3, <2>4, <2>5, <2>6 DEF Ready
    <2> QED BY <2>1, <2>7 DEF InputInit, FingerInv
  <1>4. ButtonInv
    BY DEF InputInit, ButtonInv, Shaped, CaughtUp, PtrFields, SrvFields, Pointer, MouseHolds, TouchHolds,
           Waits
  <1> QED BY <1>2, <1>3, <1>4 DEF IInv

\* What the keyboard and its on-screen keys do.
LEMMA KeysKeeps == ASSUME IInv, Keys PROVE IInv'
  BY PressKeeps, ReleaseKeeps, AltGrKeeps, BlurKeeps, ToggleKeeps, CtrlAltDelKeeps, ToldKeeps DEF Keys

\* What the mouse does.
LEMMA MouseKeepsAll == ASSUME IInv, Mouse PROVE IInv'
  <1>1. scene # "touch"
    BY DEF Mouse
  <1> QED BY <1>1, MouseDownKeeps, MouseUpKeeps, MouseMoveKeeps, WheelKeeps DEF Mouse

\* The user or the page changes a mode.
LEMMA ModeKeeps == ASSUME IInv, ChangeMode PROVE IInv'
  <1>1. CASE SetViewOnly(~rfb.viewOnly) /\ UNCHANGED ptr
    <2>1. (~rfb.viewOnly) \in BOOLEAN
      BY Zenon
    <2>2. UNCHANGED <<scene, touch, ptr, hand>>
      BY <1>1 DEF ChangeMode
    <2>3. \E on \in BOOLEAN : SetViewOnly(on)
      BY <1>1, <2>1
    <2> QED BY <2>2, <2>3, ViewOnlyKeeps
  <1>2. CASE SetDragViewport(~ptr.drag)
    <2>1. UNCHANGED <<scene, touch, hand>>
      BY DEF ChangeMode
    <2> QED BY <1>2, <2>1, DragViewportKeeps
  <1> QED BY <1>1, <1>2 DEF ChangeMode

\* Every step keeps the invariant.
LEMMA NextKeeps == IInv /\ [Next]_vars => IInv'
  <1> SUFFICES ASSUME IInv, [Next]_vars PROVE IInv'
    OBVIOUS
  <1>1. CASE Keys
    BY <1>1, KeysKeeps
  <1>2. CASE Mouse
    BY <1>2, MouseKeepsAll
  <1>3. CASE Touch
    BY <1>3, TouchKeeps DEF Touch
  <1>4. CASE DelayedMouseMove
    BY <1>4, DelayedKeeps
  <1>5. CASE MoveLapse
    BY <1>5, LapseKeeps
  <1>6. CASE Supports
    BY <1>6, ToldKeeps
  <1>7. CASE ChangeMode
    BY <1>7, ModeKeeps
  <1>8. CASE UNCHANGED vars
    <2>1. UNCHANGED <<scene, touch, ptr, hand>> /\ UNCHANGED <<kbd, rfb, srv>>
      BY <1>8 DEF vars
    <2>2. KeyInv'
      <3>1. Believed(kbd.list, rfb, srv)'
        BY <2>1 DEF IInv, KeyInv, Believed
      <3> QED BY <2>1, <3>1 DEF IInv, KeyInv, Listed
    <2>3. SameServer(srv, srv')
      BY <2>1 DEF IInv, KeyInv, SameServer
    <2> QED BY <2>1, <2>2, <2>3, KeysKeep
  <1> QED BY <1>1, <1>2, <1>3, <1>4, <1>5, <1>6, <1>7, <1>8 DEF Next

\* The invariant is enough.
LEMMA Implied == IInv => NoStuckKey /\ NoStuckButton /\ PointerCatchesUp /\ OneGesture
  <1> SUFFICES ASSUME IInv PROVE NoStuckKey /\ NoStuckButton /\ PointerCatchesUp /\ OneGesture
    OBVIOUS
  <1> DEFINE h == hand.gesture
             fingers == hand.fingers
  <1>1. Ready(touch, fingers, h)
    BY DEF IInv, FingerInv
  <1>2. fingers = {} =>
          /\ touch.state = AllGestures /\ touch.tracked = <<>> /\ touch.ignored = {}
          /\ ~touch.waitingRelease /\ ~touch.longpress /\ touch.twoTouch # "armed"
          /\ h = "none"
    <2> HIDE DEF h, fingers
    <2> QED BY <1>1, AllUp
  <1>3. NoStuckKey
    <2>1. None \in {kbd.list[code] : code \in Codes}
      BY CodesAre DEF IInv, KeyInv, Listed
    <2> QED BY <2>1 DEF IInv, KeyInv, Believed, NoStuckKey
  <1>4. NoStuckButton
    BY <1>2 DEF IInv, ButtonInv, MouseHolds, TouchHolds, NoStuckButton, Busy, Pointer
  <1>5. PointerCatchesUp
    BY DEF IInv, ButtonInv, CaughtUp, PointerCatchesUp, Pointer
  <1>6. h # "clash"
    BY <1>1 DEF Ready, Grip
  <1>7. touch.longpress => ~HasDetectedGesture(touch) /\ touch.tracked # <<>>
    <2>1. SUFFICES ASSUME touch.longpress PROVE ~HasDetectedGesture(touch) /\ touch.tracked # <<>>
      OBVIOUS
    <2>2. Len(touch.tracked) = 1 /\ touch.state \in {AllGestures, {}} /\ touch.state \subseteq AllGestures
      BY <1>1, <2>1 DEF Ready, Timers, TouchShape
    <2>3. \A x : touch.state # {x}
      BY <2>2, GestureSets
    <2>4. ~HasDetectedGesture(touch)
      BY <2>2, <2>3, Detected
    <2>5. touch.tracked # <<>>
      BY <2>2
    <2> QED BY <2>4, <2>5
  <1>8. touch.twoTouch = "armed" => touch.tracked # <<>>
    <2>1. touch.twoTouch = "armed" => Len(touch.tracked) > 1
      BY <1>1 DEF Ready, Timers
    <2> QED BY <2>1
  <1>9. OneGesture
    BY <1>2, <1>6, <1>7, <1>8 DEF OneGesture
  <1> QED BY <1>3, <1>4, <1>5, <1>9

\* The invariant holds whatever the user, the server and the timers do.
THEOREM InputInvHolds == Spec => []IInv
  BY InitHolds, NextKeeps, PTL DEF Spec

\* NoStuckKey: a key the server holds is one the keyboard believes to be down, kept by view-only
\* mode, or the on-screen Ctrl, whatever the order of presses, repeats, AltGr and lost focus.
THEOREM NoStuckKeyHolds == Spec => []NoStuckKey
  BY InputInvHolds, Implied, PTL

\* NoStuckButton: with every button and finger up the server holds no button but the spared one.
THEOREM NoStuckButtonHolds == Spec => []NoStuckButton
  BY InputInvHolds, Implied, PTL

\* PointerCatchesUp: unless a move waits, the server has the last position it should hear of.
THEOREM PointerCatchesUpHolds == Spec => []PointerCatchesUp
  BY InputInvHolds, Implied, PTL

\* OneGesture: gestures that hold a button never overlap, no timer fires into a gesture, and the
\* recognition starts afresh when the last finger is lifted, for any number of fingers.
THEOREM OneGestureHolds == Spec => []OneGesture
  BY InputInvHolds, Implied, PTL
=============================================================================
