------------------------------ MODULE MCToolCalls ------------------------------
(* Small instances of ToolCalls for TLC.                                    *)
EXTENDS ToolCalls, TLC

(* Calls and records are interchangeable, unless one is the session's own;  *)
(* only for runs without liveness properties.                               *)
Interchangeable == Permutations(Calls) \cup Permutations(Targets \ {Own})
===============================================================================
