----------------------------- MODULE MCTurnStream -----------------------------
(* Small instances of TurnStream for TLC.                                   *)
EXTENDS TurnStream, TLC

(* Turns, items and texts are interchangeable; no liveness is checked.      *)
Interchangeable == Permutations(Turns) \cup Permutations(Items) \cup Permutations(Texts)
===============================================================================
