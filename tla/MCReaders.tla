-------------------------------- MODULE MCReaders --------------------------------
(* Values for TLC: every route. *)
EXTENDS Readers

MCRoutes == {"list", "export", "freshness", "reconcile", "figures"}
================================================================================
