-------------------------------- MODULE MCTriage -------------------------------
(* Instance of Triage for model checking. *)
EXTENDS Triage, TLC

\* Viewers are alike; no liveness is checked.
ViewersAlike == Permutations(Viewers)
================================================================================
