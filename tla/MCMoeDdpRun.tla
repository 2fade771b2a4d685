------------------------------ MODULE MCMoeDdpRun ------------------------------
(* MoeDdpRun for TLC: three ranks, a schedule of two updates, launches of one  *)
(* update that resume the ones before, and one more that the schedule refuses. *)
EXTENDS MoeDdpRun
================================================================================
