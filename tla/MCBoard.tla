---- MODULE MCBoard ----
(* An initiator, a member who can only come in by a handoff, an admin and a public agent. *)
EXTENDS Board
====
