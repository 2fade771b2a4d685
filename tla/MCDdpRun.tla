------------------------------- MODULE MCDdpRun -------------------------------
(* DdpRun for TLC: save at every step, at every second one, or at the end.     *)
EXTENDS DdpRun

MCIntervals == {None, 1, 2}
=============================================================================
