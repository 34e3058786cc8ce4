----------------------------- MODULE MCLayerReload -----------------------------
(* Values for TLC: three publishes whose sizes grow, shrink and coincide. *)
EXTENDS LayerReload

MCPageCount == <<2, 1, 2>>
MCGrowing == <<1, 2>>
================================================================================
