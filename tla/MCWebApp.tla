------------------------------ MODULE MCWebApp ------------------------------
\* Two labs, one with two linked nodes; a node and a text that do not exist yet.  The second
\* link has no interfaces, and is drawn over an interface of the first.
EXTENDS WebApp, TLC

CONSTANTS labA, labB, n1, n2, n3, i1, i2

MCHome == n1 :> labA @@ n2 :> labA @@ n3 :> NoLab
MCWires == {[src |-> n1, si |-> i1, dst |-> n2, di |-> i1],
            [src |-> n1, si |-> Nothing, dst |-> n2, di |-> Nothing]}
=============================================================================
