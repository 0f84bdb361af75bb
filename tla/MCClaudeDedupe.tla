---------------------------- MODULE MCClaudeDedupe ----------------------------
(* A session and one resumed from it; one message, two requests.           *)
EXTENDS ClaudeDedupe
=============================================================================
