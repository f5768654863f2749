------------------------------ MODULE Keyboard ------------------------------
(***************************************************************************)
(* The keyboard of the VNC console (core/input/keyboard.js): the list of   *)
(* the keys held down with the symbol each was pressed with, and the        *)
(* detection of AltGr, which Windows reports as Control followed by Alt.   *)
(* A handler is an operator on a record whose field out collects the calls *)
(* of onkeyevent.                                                          *)
(***************************************************************************)
EXTENDS Naturals, Sequences, FiniteSetsExt

Codes == {"ControlLeft", "AltRight", "ShiftLeft", "ShiftRight", "KeyA", "CapsLock", "Lang",
          "Unidentified"}
Systems == {"windows", "mac", "other"}
LockStates == {"unknown", "on", "off"}
None == "none"

\* The symbols a key may give: letters depend on the modifiers of the moment.
Keysyms == [code \in Codes |->
    CASE code = "ControlLeft" -> {"Control_L"}
      [] code = "AltRight" -> {"Alt_R"}
      [] code = "ShiftLeft" -> {"Shift_L"}
      [] code = "ShiftRight" -> {"Shift_R"}
      [] code = "CapsLock" -> {"Caps_Lock"}
      [] code = "Lang" -> {"Romaji"}
      [] OTHER -> {"a", "A"}]

NewKeyboard(system) ==
    [system |-> system, list |-> [code \in Codes |-> None], armed |-> FALSE, out |-> <<>>]

Held(k, code) == k.list[code] # None

\* A release is passed on only for a key that is believed to be down.
SendKeyEvent(k, sym, code, down, lock) ==
    IF ~down /\ ~Held(k, code) THEN k
    ELSE [k EXCEPT !.list[code] = IF down THEN sym ELSE None,
                   !.out = Append(@, [sym |-> sym, code |-> code, down |-> down, lock |-> lock])]

PressRelease(k, sym, code, lock) ==
    SendKeyEvent(SendKeyEvent(k, sym, code, TRUE, lock), sym, code, FALSE, lock)

\* The Control that was held back is sent after all.
InterruptAltGrSequence(k, lock) ==
    IF k.armed THEN SendKeyEvent([k EXCEPT !.armed = FALSE], "Control_L", "ControlLeft", TRUE, lock)
    ELSE k

\* macOS uses Alt as AltGr.
SystemKeysym(k, sym) == IF k.system = "mac" /\ sym = "Alt_R" THEN "ISO_Level3_Shift" ELSE sym

\* e.quick: the event comes less than 50 ms after the Control; e.meta: Command is held.
IsAltGr(k, e) == k.armed /\ e.code = "AltRight" /\ e.quick

\* A key whose release will not be reported is released at once.
NeverReleased(k, e, sym) ==
    \/ e.code = "Unidentified"
    \/ k.system = "mac" /\ (e.meta \/ e.code = "CapsLock")
    \/ k.system = "windows" /\ sym = "Romaji"

\* Mutant of KeyDown: a repeated key is sent with the symbol of the moment.
KeyDownAnew(k, e) ==
    LET resumed == IF IsAltGr(k, e) THEN [k EXCEPT !.armed = FALSE]
                   ELSE InterruptAltGrSequence(k, e.lock)
        sym == SystemKeysym(k, IF IsAltGr(k, e) THEN "ISO_Level3_Shift" ELSE e.sym)
    IN  IF NeverReleased(k, e, sym) THEN PressRelease(resumed, sym, e.code, e.lock)
        ELSE IF e.code = "ControlLeft" /\ k.system = "windows" /\ ~Held(resumed, e.code)
        THEN [resumed EXCEPT !.armed = TRUE]
        ELSE SendKeyEvent(resumed, sym, e.code, TRUE, e.lock)

\* _handleKeyDown.  A key that is already down keeps the symbol it was pressed with.
KeyDown(k, e) ==
    LET resumed == IF IsAltGr(k, e) THEN [k EXCEPT !.armed = FALSE]
                   ELSE InterruptAltGrSequence(k, e.lock)
        fresh == SystemKeysym(k, IF IsAltGr(k, e) THEN "ISO_Level3_Shift" ELSE e.sym)
        sym == IF e.code # "Unidentified" /\ Held(resumed, e.code)
               THEN resumed.list[e.code] ELSE fresh
    IN  IF NeverReleased(k, e, sym) THEN PressRelease(resumed, sym, e.code, e.lock)
        ELSE IF e.code = "ControlLeft" /\ k.system = "windows" /\ ~Held(resumed, e.code)
        THEN [resumed EXCEPT !.armed = TRUE]
        ELSE SendKeyEvent(resumed, sym, e.code, TRUE, e.lock)

Release(k, code) == SendKeyEvent(k, k.list[code], code, FALSE, "unknown")

\* _handleKeyUp.  Windows does not report the release of one Shift while the other is down.
KeyUp(k, code) ==
    LET resumed == InterruptAltGrSequence(k, "unknown")
        released == Release(resumed, code)
    IN  IF k.system = "mac" /\ code = "CapsLock"
        THEN PressRelease(resumed, "Caps_Lock", code, "unknown")
        ELSE IF k.system = "windows" /\ code \in {"ShiftLeft", "ShiftRight"}
        THEN Release(Release(released, "ShiftRight"), "ShiftLeft")
        ELSE released

\* _allKeysUp: the window lost the focus, or the keyboard is let go.
AllKeysUp(k) == FoldSet(LAMBDA code, a : Release(a, code), InterruptAltGrSequence(k, "unknown"), Codes)
=============================================================================
