------------------------------ MODULE MCVncUi ------------------------------
(* Two RFB objects of one page: the server of the first may ask for every  *)
(* security type, the server of the second accepts none, so that the page  *)
(* reconnects to a server that turns it away.                              *)
EXTENDS VncUi

MCOffers == [s \in Sessions |-> IF s = 1 THEN SchemeNames ELSE {}]
=============================================================================
