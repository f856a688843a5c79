-------------------------------- MODULE MCFiles --------------------------------
(* A small instance of Files for TLC.                                       *)
EXTENDS Files, TLC

CONSTANTS q1, q2

Interchangeable == Permutations(Reqs)
================================================================================
