----------------------------- MODULE MCAgentRun -----------------------------
(* A small instance of AgentRun: one build, caps small enough to be hit.   *)
EXTENDS AgentRun

\* One request that leaves the default, one that sets its own cap, one above the clamp.
MCAsked == {-1, 1, 5}
=============================================================================
