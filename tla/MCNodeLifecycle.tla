-------------------------- MODULE MCNodeLifecycle --------------------------
(* A small instance of NodeLifecycle: two nodes that share one lab.        *)
EXTENDS NodeLifecycle, TLC

CONSTANTS n1, n2, l1

MCNodes == {n1, n2}
MCLabs == {l1}
MCLabOf == n1 :> l1 @@ n2 :> l1
=============================================================================
