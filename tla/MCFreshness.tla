------------------------------- MODULE MCFreshness -------------------------------
(* The state graph for TLC; the values are in the configuration. *)
EXTENDS Freshness
================================================================================
