---------------------------- MODULE MCRfbUpdates ----------------------------
(* Two columns.  The first update draws, waits and changes sizes with every *)
(* kind of rectangle, each drawing in a colour of its own; the second one  *)
(* draws over what the first left waiting.                                 *)
EXTENDS RfbUpdates

Drawing ==
    {[type |-> "img", x |-> 1, colour |-> 1],
     [type |-> "copy", x |-> 2, from |-> 1],
     [type |-> "blit", x |-> 2, colour |-> 3, isView |-> TRUE],
     [type |-> "h264", x |-> 2, colour |-> 4, slices |-> 1, key |-> FALSE,
      refused |-> FALSE, reset |-> "none"],
     [type |-> "last"]}

Others ==
    {[type |-> "fill", x |-> 2, colour |-> 2]}
    \union {[type |-> "h264", x |-> 2, colour |-> 4, slices |-> 2, key |-> TRUE,
             refused |-> refused, reset |-> IF refused THEN "none" ELSE "one"] : refused \in BOOLEAN}
    \union {[type |-> "h264", x |-> 1, colour |-> 4, slices |-> 0, key |-> FALSE,
             refused |-> FALSE, reset |-> "all"]}
    \union {[type |-> "size", w |-> 1]}
    \union {[type |-> "extsize", mine |-> TRUE, ok |-> ok, w |-> 1] : ok \in BOOLEAN}
    \union {[type |-> "extsize", mine |-> FALSE, ok |-> TRUE, w |-> w] : w \in Widths}

MCRects == <<Drawing \union Others, Drawing>>
=============================================================================
