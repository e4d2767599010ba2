---------------------------- MODULE MCAppSession ----------------------------
(* An instance of AppSession for TLC. *)
EXTENDS AppSession
=============================================================================
