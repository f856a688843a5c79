-------------------------------- MODULE MCLogin --------------------------------
(* A small instance of Login for TLC.                                       *)
EXTENDS Login

CONSTANTS q1, q2
===============================================================================
