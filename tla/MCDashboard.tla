----------------------------- MODULE MCDashboard -----------------------------
(* A page with two refreshes under way at a time.                           *)
EXTENDS Dashboard
=============================================================================
