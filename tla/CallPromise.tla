------------------------------ MODULE CallPromise ------------------------------
(***************************************************************************)
(* What a tool call promises: its effect and its answer are one step, which *)
(* happens once, after the log has heard of the call; a call that gets no   *)
(* answer has no effect, then or ever.                                      *)
(***************************************************************************)
EXTENDS Naturals

CONSTANTS Calls, Targets

VARIABLES effect,   \* effect[c]: how often c's effect is on each record
          known,    \* the calls that the log has heard of
          verdict   \* verdict[c]: open, success, failure or dropped

vars == <<effect, known, verdict>>

Init ==
  /\ effect = [c \in Calls |-> [k \in Targets |-> 0]]
  /\ known = {}
  /\ verdict = [c \in Calls |-> "open"]

Note(c) ==
  /\ verdict[c] = "open"
  /\ known' = known \cup {c}
  /\ UNCHANGED <<effect, verdict>>

(* The call is answered as v; the records K get its effect, or none does.   *)
Answer(c, v, K) ==
  /\ verdict[c] = "open" /\ c \in known
  /\ verdict' = [verdict EXCEPT ![c] = v]
  /\ effect' = [effect EXCEPT ![c] = [k \in Targets |-> IF k \in K THEN effect[c][k] + 1
                                                         ELSE effect[c][k]]]
  /\ UNCHANGED known

(* It is refused, given up, or lost with the server.                        *)
Drop(C) ==
  /\ \A c \in C : verdict[c] = "open"
  /\ verdict' = [c \in Calls |-> IF c \in C THEN "dropped" ELSE verdict[c]]
  /\ UNCHANGED <<effect, known>>

Next ==
  \/ \E c \in Calls :
       \/ Note(c)
       \/ \E v \in {"success", "failure"}, K \in {{}} \cup {{k} : k \in Targets} :
            Answer(c, v, K)
  \/ \E C \in SUBSET Calls : Drop(C)

Spec == Init /\ [][Next]_vars
===============================================================================
