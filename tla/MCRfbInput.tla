----------------------------- MODULE MCRfbInput -----------------------------
(* Every key that is treated on its own on every system, two buttons of    *)
(* the mouse, and three fingers; in one behaviour the user keeps to the    *)
(* keyboard, the mouse or the touch screen.                                *)
EXTENDS RfbInput
=============================================================================
