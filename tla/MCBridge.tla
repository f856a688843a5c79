------------------------------- MODULE MCBridge -------------------------------
(* A small instance of Bridge for TLC: one tool of each sort; a user who is *)
(* granted two of them, or one that zero-trust leaves and the bridge does   *)
(* not know.                                                               *)
EXTENDS Bridge

SmallPolicies ==
  {[sel |-> {"orm_read", "orm_write"}, mode |-> "off", default |-> TRUE],
   [sel |-> {"orm_write", "web_search"}, mode |-> "inherit", default |-> TRUE]}
===============================================================================
