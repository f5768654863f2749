------------------------------ MODULE RfbInput ------------------------------
(***************************************************************************)
(* From the hands of the user to the keys and the pointer of the server:    *)
(* keyboard, mouse, wheel and touch of a connected RFB object, the         *)
(* on-screen modifier of the console page, view-only mode and dragging of   *)
(* the viewport.  The server is external: it holds what it was told.       *)
(* Positions are 0 and 1; a mask is a set of RFB buttons.                  *)
(***************************************************************************)
EXTENDS Keyboard, Gestures

CONSTANTS
    Scenes,         \* what the user uses: "keys", "mouse", "touch"
    MaxFingers,     \* bound on fingers
    MaxModes        \* bound on changes of mode

ASSUME InputAssumption ==
    Scenes \subseteq {"keys", "mouse", "touch"} /\ MaxFingers \in Nat /\ MaxModes \in Nat

VARIABLES
    scene,
    kbd,        \* the keyboard
    touch,      \* the gestures
    ptr,        \* the pointer of the RFB object
    rfb,        \* its modes, and what it knows of the server
    srv,        \* the server: keys and buttons held, position
    hand        \* the user: mouse buttons held, fingers down

vars == <<scene, kbd, touch, ptr, rfb, srv, hand>>

MouseButtons == {"left", "back"}
Extended == {"back", "forward"}

InputInit ==
    /\ scene \in Scenes
    /\ \E system \in Systems : kbd = NewKeyboard(system)
    /\ scene # "keys" => kbd.system = "other"
    /\ touch = NoTouch
    /\ ptr = [mask |-> {}, pos |-> 0, timer |-> FALSE, recent |-> FALSE, drag |-> FALSE,
              dragging |-> FALSE, moved |-> FALSE]
    /\ rfb = [viewOnly |-> FALSE, qemu |-> FALSE, extended |-> FALSE, lock |-> "unknown",
              ctrl |-> FALSE, modes |-> 0]
    /\ srv = [keys |-> {}, mask |-> {}, pos |-> 0, want |-> 0, kept |-> {}, spared |-> {},
              blind |-> FALSE]
    /\ hand = [buttons |-> {}, fingers |-> {}, gesture |-> "none"]

-----------------------------------------------------------------------------
(* Keys *)

\* A key is sent with its scan code when the server takes it, otherwise by its symbol.
SendKey(s, r, sym, code, down) ==
    IF r.viewOnly \/ (sym = None /\ ~(r.qemu /\ code # "Unidentified")) THEN s
    ELSE [s EXCEPT !.keys = IF down THEN @ \union {sym} ELSE @ \ {sym},
                   !.kept = IF down THEN @ ELSE @ \ {sym}]

\* A key pressed while the server's locks differ from the keyboard's first sets them right.
\* What is known of the server is forgotten, so that it is not done twice.
HandleKeyEvent(a, e) ==
    LET known == IF e.code = "CapsLock" /\ e.down THEN "unknown" ELSE a.rfb.lock
        fix == "unknown" \notin {known, e.lock} /\ known # e.lock /\ e.down
        fixed == IF fix THEN SendKey(SendKey(a.srv, a.rfb, "Caps_Lock", "CapsLock", TRUE),
                                     a.rfb, "Caps_Lock", "CapsLock", FALSE)
                 ELSE a.srv
        r == [a.rfb EXCEPT !.lock = IF fix THEN "unknown" ELSE known]
    IN  [rfb |-> r, srv |-> SendKey(fixed, r, e.sym, e.code, e.down)]

\* The keyboard is now k; the calls of onkeyevent reach the RFB object in order.
TellKeys(k, r) ==
    LET told == FoldLeft(HandleKeyEvent, [rfb |-> r, srv |-> srv], k.out)
    IN  /\ kbd' = [k EXCEPT !.out = <<>>]
        /\ rfb' = told.rfb
        /\ srv' = told.srv

PressKey ==
    \E code \in Codes, quick \in BOOLEAN, meta \in BOOLEAN, lock \in LockStates :
        \E sym \in Keysyms[code] :
            /\ ~rfb.viewOnly
            /\ meta => kbd.system = "mac"
            /\ quick => kbd.armed
            /\ TellKeys(KeyDown(kbd, [code |-> code, sym |-> sym, quick |-> quick, meta |-> meta,
                                      lock |-> IF code = "CapsLock" THEN "unknown" ELSE lock]), rfb)
            /\ UNCHANGED <<scene, touch, ptr, hand>>

ReleaseKey ==
    /\ ~rfb.viewOnly
    /\ \E code \in Codes \ {"Unidentified"} : TellKeys(KeyUp(kbd, code), rfb)
    /\ UNCHANGED <<scene, touch, ptr, hand>>

AltGrTimeout ==
    /\ kbd.armed
    /\ TellKeys(InterruptAltGrSequence(kbd, "unknown"), rfb)
    /\ UNCHANGED <<scene, touch, ptr, hand>>

WindowBlur ==
    /\ ~rfb.viewOnly
    /\ TellKeys(AllKeysUp(kbd), rfb)
    /\ UNCHANGED <<scene, touch, ptr, hand>>

\* The on-screen Ctrl button of the page (the ones for Alt and Windows are like it).
ToggleCtrl ==
    /\ rfb' = [rfb EXCEPT !.ctrl = ~@]
    /\ srv' = SendKey(srv, rfb, "Control_L", "ControlLeft", ~rfb.ctrl)
    /\ UNCHANGED <<scene, kbd, touch, ptr, hand>>

\* The on-screen Ctrl-Alt-Del button: the keys are released in the opposite order.
SendCtrlAltDel ==
    LET Control(s, down) == SendKey(s, rfb, "Control_L", "ControlLeft", down)
        Alt(s, down) == SendKey(s, rfb, "Alt_L", "AltLeft", down)
        Delete(s, down) == SendKey(s, rfb, "Delete", "Delete", down)
        pressed == Delete(Alt(Control(srv, TRUE), TRUE), TRUE)
    IN  /\ srv' = Control(Alt(Delete(pressed, FALSE), FALSE), FALSE)
        /\ UNCHANGED <<scene, kbd, touch, ptr, rfb, hand>>

\* The server tells the state of its locks, or that it takes scan codes or extended buttons.
LedEvent ==
    /\ \E lock \in {"on", "off"} : rfb' = [rfb EXCEPT !.lock = lock]
    /\ UNCHANGED <<scene, kbd, touch, ptr, srv, hand>>

Supports ==
    /\ \/ scene = "keys" /\ rfb' = [rfb EXCEPT !.qemu = TRUE]
       \/ scene = "mouse" /\ rfb' = [rfb EXCEPT !.extended = TRUE]
    /\ UNCHANGED <<scene, kbd, touch, ptr, srv, hand>>

-----------------------------------------------------------------------------
(* The pointer.  b is a record of the pointer and the server. *)

\* The message without the extension has no room for the upper buttons.
SendMouse(b, x, mask) ==
    LET sent == IF rfb.extended THEN mask ELSE mask \ Extended
    IN  IF rfb.viewOnly THEN [b EXCEPT !.srv.want = b.srv.pos]
        ELSE [b EXCEPT !.srv.mask = sent, !.srv.pos = x, !.srv.spared = @ \intersect sent]

\* What the server should hear of: want is the position it should end at, unless view-only
\* mode drops it.
Wanted(b, x) == [b EXCEPT !.srv.want = x]

FlushMouseMoveTimer(b, x) ==
    IF b.ptr.timer THEN SendMouse(Wanted([b EXCEPT !.ptr.timer = FALSE], x), x, b.ptr.mask) ELSE b

\* Mutant of HandleMouseButton: a move that waits is left for the timer.
HandleMouseButtonEarly(b, x, mask) ==
    SendMouse(Wanted([b EXCEPT !.ptr.mask = mask], x), x, mask)

HandleMouseButton(b, x, mask) ==
    LET flushed == FlushMouseMoveTimer(b, x)
    IN  SendMouse(Wanted([flushed EXCEPT !.ptr.mask = mask], x), x, mask)

\* Moves are sent at most once in 17 ms; the timer sends the last one.
HandleMouseMove(b, x) ==
    LET at == Wanted([b EXCEPT !.ptr.pos = x], x)
    IN  IF b.ptr.timer THEN at
        ELSE IF b.ptr.recent THEN [at EXCEPT !.ptr.timer = TRUE]
        ELSE SendMouse([at EXCEPT !.ptr.recent = TRUE], x, at.ptr.mask)

Click(b, x, mask, after) == HandleMouseButton(HandleMouseButton(b, x, mask), x, after)

Pointer == [ptr |-> ptr, srv |-> srv]
Becomes(b) == ptr' = b.ptr /\ srv' = b.srv

DelayedMouseMove ==
    /\ ptr.timer
    /\ Becomes(SendMouse([Pointer EXCEPT !.ptr.timer = FALSE, !.ptr.recent = TRUE], ptr.pos, ptr.mask))
    /\ UNCHANGED <<scene, kbd, touch, rfb, hand>>

\* 17 ms after the last move.
MoveLapse ==
    /\ ptr.recent /\ ~ptr.timer
    /\ ptr' = [ptr EXCEPT !.recent = FALSE]
    /\ UNCHANGED <<scene, kbd, touch, rfb, srv, hand>>

\* mousedown and mouseup.  With dragging of the viewport on, a press waits to see whether
\* the mouse moves, and is sent with the release when it did not.  second: another button
\* is down already, which the code does not expect.
MouseButton(x, buttons, down, second) ==
    LET b == [Pointer EXCEPT !.srv.blind = @ \/ second]
        begins == ptr.drag /\ down /\ ~ptr.dragging
        ended == [b EXCEPT !.ptr.dragging = FALSE]
    IN  Becomes(IF ~ptr.drag THEN HandleMouseButton(b, x, buttons)
                ELSE IF begins
                THEN [FlushMouseMoveTimer(b, x) EXCEPT !.ptr.dragging = TRUE, !.ptr.moved = FALSE,
                                                       !.ptr.mask = buttons]
                ELSE IF ptr.moved THEN [ended EXCEPT !.ptr.mask = buttons]
                ELSE HandleMouseButton(SendMouse(ended, x, ptr.mask), x, buttons))

MouseDown ==
    \E m \in MouseButtons \ hand.buttons, x \in 0..1 :
        /\ MouseButton(x, hand.buttons \union {m}, TRUE, ptr.drag /\ hand.buttons # {})
        /\ hand' = [hand EXCEPT !.buttons = @ \union {m}]
        /\ UNCHANGED <<scene, kbd, touch, rfb>>

MouseUp ==
    \E m \in hand.buttons, x \in 0..1 :
        /\ MouseButton(x, hand.buttons \ {m}, FALSE, FALSE)
        /\ hand' = [hand EXCEPT !.buttons = @ \ {m}]
        /\ UNCHANGED <<scene, kbd, touch, rfb>>

\* far: farther than the threshold from where the drag began.
MouseMove ==
    \E x \in 0..1, far \in BOOLEAN :
        /\ Becomes(IF ptr.dragging THEN [Pointer EXCEPT !.ptr.moved = @ \/ far]
                   ELSE HandleMouseMove(Pointer, x))
        /\ UNCHANGED <<scene, kbd, touch, rfb, hand>>

\* The wheel clicks one of the scroll buttons, whatever is being dragged.
Wheel ==
    /\ ~rfb.viewOnly
    /\ \E x \in 0..1 :
        Becomes([Click(Pointer, x, hand.buttons \union {"wheel"}, hand.buttons)
                    EXCEPT !.srv.blind = @ \/ ptr.dragging])
    /\ UNCHANGED <<scene, kbd, touch, rfb, hand>>

-----------------------------------------------------------------------------
(* Gestures.  d is a record of the pointer, the server and the RFB object. *)

Holding(gesture) == IF gesture = "longpress" THEN {"right"} ELSE {"left"}
TapButton(gesture) ==
    CASE gesture = "onetap" -> {"left"} [] gesture = "twotap" -> {"right"} [] OTHER -> {"middle"}

GestureStart(b, gesture, x) ==
    CASE gesture \in Taps -> Click(HandleMouseMove(b, x), x, TapButton(gesture), {})
      [] gesture \in TwoFinger -> HandleMouseMove(b, x)
      [] OTHER ->
            IF b.ptr.drag
            THEN [b EXCEPT !.ptr.moved = FALSE, !.ptr.dragging = @ \/ gesture = "drag"]
            ELSE HandleMouseButton(HandleMouseMove(b, x), x, Holding(gesture))

\* A pinch scrolls with Control held down: Control is released even when no step was made.
Scroll(b, gesture, x, steps) ==
    LET still == HandleMouseMove(b, x)
        scrolled == IF steps = 0 THEN still ELSE Click(still, x, {"wheel"}, {})
    IN  IF gesture = "twodrag" THEN scrolled
        ELSE [scrolled EXCEPT !.srv = SendKey(@, rfb, "Control_L", "ControlLeft", FALSE)]

GestureMove(b, gesture, x, steps) ==
    CASE gesture \in Taps -> b
      [] gesture \in TwoFinger -> Scroll(b, gesture, x, steps)
      [] OTHER -> IF b.ptr.drag
                  THEN [b EXCEPT !.ptr.dragging = TRUE, !.ptr.moved = @ \/ x = 1]
                  ELSE HandleMouseMove(b, x)

\* Mutant of GestureEnd: a drag that moved is left early, as a long press is.
GestureEndSilent(b, gesture, x) ==
    LET still == HandleMouseMove(b, x)
    IN  CASE gesture \in Taps \union TwoFinger -> b
          [] gesture = "drag" ->
                IF b.ptr.drag THEN [b EXCEPT !.ptr.dragging = FALSE]
                ELSE IF x = 1 THEN still ELSE HandleMouseButton(still, x, {})
          [] gesture = "longpress" ->
                IF b.ptr.moved THEN [b EXCEPT !.srv.spared = {"right"}]
                ELSE IF b.ptr.drag
                THEN [Click(still, x, {"right"}, {}) EXCEPT !.ptr.dragging = FALSE]
                ELSE HandleMouseButton(still, x, {})

\* After a long press that moved the viewport, dragging is not switched off.
GestureEnd(b, gesture, x) ==
    LET still == HandleMouseMove(b, x)
    IN  CASE gesture \in Taps \union TwoFinger -> b
          [] gesture = "drag" ->
                IF b.ptr.drag THEN [b EXCEPT !.ptr.dragging = FALSE]
                ELSE HandleMouseButton(still, x, {})
          [] gesture = "longpress" ->
                IF b.ptr.moved THEN [b EXCEPT !.srv.spared = {"right"}]
                ELSE IF b.ptr.drag
                THEN [Click(still, x, {"right"}, {}) EXCEPT !.ptr.dragging = FALSE]
                ELSE HandleMouseButton(still, x, {})

HandleGesture(b, e, steps) ==
    CASE e.kind = "start" -> GestureStart(b, e.gesture, e.pos)
      [] e.kind = "move" -> GestureMove(b, e.gesture, e.pos, steps)
      [] e.kind = "end" -> GestureEnd(b, e.gesture, e.pos)

\* The gesture that holds a button for the canvas; two at once must not happen.  A drag of
\* two fingers may begin twice or never end when one was lifted before it was detected,
\* which only moves the pointer.
Heard(gesture, e) ==
    IF e.gesture \notin {"drag", "longpress"}
    THEN IF e.kind = "start" /\ gesture # "none" THEN "clash" ELSE gesture
    ELSE CASE e.kind = "start" -> IF gesture = "none" THEN e.gesture ELSE "clash"
           [] e.kind = "move" -> IF gesture = e.gesture THEN gesture ELSE "clash"
           [] e.kind = "end" -> IF gesture = e.gesture THEN "none" ELSE "clash"

TellGestures(g, fingers) ==
    \E steps \in 0..1 :
        /\ touch' = [g EXCEPT !.out = <<>>]
        /\ Becomes(FoldLeft(LAMBDA b, e : HandleGesture(b, e, steps), Pointer, g.out))
        /\ hand' = [hand EXCEPT !.fingers = fingers, !.gesture = FoldLeft(Heard, @, g.out)]
        /\ UNCHANGED <<scene, kbd, rfb>>

FingerDown ==
    /\ Cardinality(hand.fingers) < MaxFingers
    /\ \E late \in BOOLEAN :
        LET id == CHOOSE i \in 1..MaxFingers : i \notin hand.fingers
        IN  TellGestures(TouchStart(touch, id, late), hand.fingers \union {id})

FingerMove == \E id \in hand.fingers, at \in Moves : TellGestures(TouchMove(touch, id, at), hand.fingers)

FingerUp ==
    \E id \in hand.fingers, slow \in BOOLEAN :
        TellGestures(TouchEnd(touch, id, slow), hand.fingers \ {id})

LongPress == touch.longpress /\ TellGestures(LongpressTimeout(touch), hand.fingers)

TwoTouch ==
    /\ touch.twoTouch = "armed"
    /\ \E apart \in BOOLEAN : TellGestures(TwoTouchTimeout(touch, apart), hand.fingers)

-----------------------------------------------------------------------------
(* Modes *)

Busy == hand.buttons # {} \/ hand.fingers # {}

\* The mode is changed first, so that the releases of ungrab() are not sent: kept is what
\* the server goes on holding.
SetViewOnly(on) ==
    LET r == [rfb EXCEPT !.viewOnly = on, !.modes = @ + 1]
        told == FoldLeft(HandleKeyEvent, [rfb |-> r, srv |-> srv],
                         IF on THEN AllKeysUp(kbd).out ELSE <<>>)
    IN  /\ kbd' = IF on THEN [AllKeysUp(kbd) EXCEPT !.out = <<>>] ELSE kbd
        /\ rfb' = told.rfb
        /\ srv' = [told.srv EXCEPT !.kept = @ \union told.srv.keys, !.blind = @ \/ Busy]

\* The user's button, or the page when the viewport no longer clips (updateViewDrag).
SetDragViewport(on) ==
    /\ ptr' = [ptr EXCEPT !.drag = on]
    /\ rfb' = [rfb EXCEPT !.modes = @ + 1]
    /\ srv' = [srv EXCEPT !.blind = @ \/ Busy]
    /\ UNCHANGED kbd

ChangeMode ==
    /\ rfb.modes < MaxModes
    /\ \/ SetViewOnly(~rfb.viewOnly) /\ UNCHANGED ptr
       \/ scene # "keys" /\ SetDragViewport(~ptr.drag)
    /\ UNCHANGED <<scene, touch, hand>>

Keys == scene = "keys" /\ (PressKey \/ ReleaseKey \/ AltGrTimeout \/ WindowBlur \/ ToggleCtrl
                             \/ SendCtrlAltDel \/ LedEvent)
Mouse == scene = "mouse" /\ (MouseDown \/ MouseUp \/ MouseMove \/ Wheel)
Touch == scene = "touch" /\ (FingerDown \/ FingerMove \/ FingerUp \/ LongPress \/ TwoTouch)

Next == Keys \/ Mouse \/ Touch \/ DelayedMouseMove \/ MoveLapse \/ Supports \/ ChangeMode

Spec == InputInit /\ [][Next]_vars

-----------------------------------------------------------------------------
(* Properties *)

\* A key the server holds is one the keyboard believes to be down, or the on-screen Ctrl:
\* the release reaches it with the symbol of the press, whatever modifiers, repeats, AltGr
\* detection, lost focus and system quirks come between (Keyboard._keyDownList).  What was
\* held when view-only was turned on is the exception, see ReleasedInViewOnly.
NoStuckKey ==
    srv.keys \subseteq {kbd.list[code] : code \in Codes} \union srv.kept
                         \union (IF rfb.ctrl THEN {"Control_L"} ELSE {})

\* "Release (key up) all keys that are in a down state" (keyboard.js:289).
ReleasedInViewOnly ==
    rfb.viewOnly => srv.keys \subseteq (IF rfb.ctrl THEN {"Control_L"} ELSE {})

\* With every button and finger up the server holds no button, however presses, moves,
\* gestures and the timer of the moves were interleaved.  blind: a mode was changed in the
\* middle, or the wheel turned or another button was pressed while the viewport was
\* dragged, the cases the code gets wrong.  spared: what a long press that has moved the
\* viewport leaves held (rfb.js:1463), until the buttons are next sent without it, see
\* LongPressReleased.
NoStuckButton ==
    ~srv.blind /\ ~Busy => srv.mask \subseteq srv.spared

\* "We don't want to send any events if we have moved our viewport" (rfb.js:1467): a long
\* press is released when the viewport is not being dragged.
LongPressReleased ==
    ~srv.blind /\ ~Busy /\ ~rfb.viewOnly /\ ~ptr.drag => "right" \notin srv.mask

\* Unless a move waits for its timer the server has the last position it should hear of, so
\* that a click never lands where the pointer was before (_handleMouseButton).
PointerCatchesUp ==
    ~ptr.timer /\ ~rfb.viewOnly /\ ~srv.blind => srv.pos = srv.want

\* A gesture that holds a button begins before it moves and ends before any other begins;
\* the timers never fire into a gesture already detected or without fingers, where the code
\* throws (_longpressTimeout, _twoTouchTimeout); and with no finger down the handler is ready
\* for the next gesture: none goes on, no finger is tracked or ignored, no timer can fire.
OneGesture ==
    /\ hand.gesture # "clash"
    /\ touch.longpress => ~HasDetectedGesture(touch) /\ touch.tracked # <<>>
    /\ touch.twoTouch = "armed" => touch.tracked # <<>>
    /\ hand.fingers = {} =>
        /\ touch.state = AllGestures /\ touch.tracked = <<>> /\ touch.ignored = {}
        /\ ~touch.waitingRelease /\ ~touch.longpress /\ touch.twoTouch # "armed"
        /\ hand.gesture = "none"

\* "We reset the state if ignored is empty" (gesturehandler.js:369): a timer that fired is
\* not running either, otherwise the next tap is taken for the end of that gesture.
ResetWhenLifted == hand.fingers = {} => touch = NoTouch
=============================================================================
