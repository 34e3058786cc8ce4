------------------------------ MODULE MCMirrorSync -----------------------------
(* Values for TLC: what is published, which services are down, and the runs asked *)
(* for.                                                                           *)
EXTENDS MirrorSync

\* The census areas are static reference data: one publish.
MCMaxVersion == [l \in Layers |-> IF l \in CITYWORKS THEN 2 ELSE 1]
\* The first layer of a run is the one whose failure all the others come after.
MCOutages == {{}, {"service_requests"}}
MCNoOutage == {{}}
MCAllLayers == {SYNC_ORDER}
MCEveryMode == {"auto", "poll_only", "force", "reload"}
MCWorkerOnly == {"auto"}
================================================================================
