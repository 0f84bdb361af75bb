---------------------------- MODULE MCApplication ----------------------------
(* Application with two clicks under way and two starts of the server.      *)
EXTENDS Application
=============================================================================
