----------------------------- MODULE MCEventReplay -----------------------------
(* EventReplay on two or three devices, one finding of each kind.            *)
EXTENDS EventReplay, TLC

Symmetry == Permutations(Device)
===============================================================================
