-------------------------------- MODULE MCOnce --------------------------------
(* Model checking of Once: threads are interchangeable. *)
EXTENDS Once, TLC

Symmetry == Permutations(Thread)
===============================================================================
