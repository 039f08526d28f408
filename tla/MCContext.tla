----------------------------- MODULE MCContext ------------------------------
(* Context with the objects and the devices interchangeable. *)
EXTENDS Context, TLC

Symmetry == Permutations(Objects) \cup Permutations(Devices)
=============================================================================
