---------------------------- MODULE MCCodexLimits ----------------------------
(* The poll loop and one click, each fetching; Codex from one app-server.   *)
EXTENDS CodexLimits
=============================================================================
