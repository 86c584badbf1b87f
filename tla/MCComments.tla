----------------------------- MODULE MCComments -----------------------------
(* Small threads for TLC; see Comments. *)
EXTENDS Comments
=============================================================================
