---------------------------- MODULE MCAgentTools ----------------------------
(* A small instance of AgentTools: one lab with two nodes.                 *)
EXTENDS AgentTools, TLC

CONSTANTS n1, n2, l1

MCNodes == {n1, n2}
MCLabs == {l1}
MCLabOf == n1 :> l1 @@ n2 :> l1

Symmetric == Permutations(MCNodes) \union Permutations(Requests)
=============================================================================
