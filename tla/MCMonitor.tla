----------------------------- MODULE MCMonitor -----------------------------
(* The loop and the tray's Refresh Usage, with logs that change twice.     *)
EXTENDS Monitor
=============================================================================
