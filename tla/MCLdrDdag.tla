------------------------------- MODULE MCLdrDdag -------------------------------
(* Model checking of LdrDdag: every module may depend on every target, and  *)
(* the first target on the second.                                          *)
EXTENDS LdrDdag

CONSTANTS m1, m2, a, b

MCEdges == ({m1, m2} \X {a, b}) \cup {<<a, b>>}
===============================================================================
