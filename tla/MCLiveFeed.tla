----------------------------- MODULE MCLiveFeed -----------------------------
(* A page, one room and one user for TLC; see LiveFeed. *)
EXTENDS LiveFeed
=============================================================================
