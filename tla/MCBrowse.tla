------------------------------ MODULE MCBrowse ------------------------------
(* Small instances of Browse: one text of three letters and a shorter one,  *)
(* two categories and statuses, one other user, lists of two pages.         *)
EXTENDS Browse
=============================================================================
