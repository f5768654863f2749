------------------------------ MODULE LabRoutes ------------------------------
(***************************************************************************)
(* The addresses of labs in the web application.                           *)
(***************************************************************************)

CONSTANT Labs

\* Another page is shown.
NoLab == "no lab"

ASSUME RoutesAssumption == NoLab \notin Labs
=============================================================================
