---------------------------- MODULE MCSessionRuns ----------------------------
(* Small instances of SessionRuns for TLC: alice's session s1, or alice's s1*)
(* and bob's s2.                                                            *)
EXTENDS SessionRuns, TLC

CONSTANTS alice, bob, s1, s2, r1, r2, q1, q2, p1, p2

OneSession == s1 :> alice
TwoSessions == (s1 :> alice) @@ (s2 :> bob)

(* Runs, requests and pids are interchangeable.  Only for runs without      *)
(* liveness properties.                                                     *)
Interchangeable ==
  Permutations(Runs) \cup Permutations(Reqs) \cup Permutations(Pids)
==============================================================================
