------------------------------- MODULE MCHandLoad -------------------------------
(* Values for TLC: versions that grow and shrink, pages of one row and of two. *)
EXTENDS HandLoad

MCRowCount == <<3, 2, 3>>
================================================================================
