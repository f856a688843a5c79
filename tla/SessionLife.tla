------------------------------ MODULE SessionLife ------------------------------
(***************************************************************************)
(* A session and its runs as they would be if every request, every write   *)
(* of a worker and every pass of the reaper took effect at one moment, on   *)
(* the row as it is at that moment: a run is admitted on a session that is  *)
(* not running, reports and ends once, and is counted if it came to its end. *)
(***************************************************************************)
EXTENDS Naturals

CONSTANTS Sessions, Runs, NoRun, NoSession

VARIABLES session,  \* session[s]: its state, the turns that came to their end,
                    \* and the run that was admitted last
          run       \* run[r]: its session, and whether it is unsent, open or ended

vars == <<session, run>>

Init ==
  /\ session = [s \in Sessions |-> [state |-> "idle", turns |-> 0, latest |-> NoRun]]
  /\ run = [r \in Runs |-> [home |-> NoSession, phase |-> "unsent"]]

Running(s) == session[s].state = "running"
Open(r) == run[r].phase = "open"
Row(s, n, x, r) == [state |-> x, turns |-> session[s].turns + n, latest |-> r]
Turns(s, n, x) == session' = [session EXCEPT ![s] = Row(s, n, x, session[s].latest)]
Ends(R) == run' = [r \in Runs |-> IF r \in R THEN [home |-> run[r].home, phase |-> "ended"]
                                  ELSE run[r]]

Admit(s, r) ==
  /\ ~Running(s) /\ run[r].phase = "unsent"
  /\ session' = [session EXCEPT ![s] = Row(s, 0, "running", r)]
  /\ run' = [run EXCEPT ![r] = [home |-> s, phase |-> "open"]]

Stop(s) == Turns(s, 0, "idle") /\ UNCHANGED run

(* The CLI says how the turn ended; its run goes on.                        *)
Report(r, x) == Turns(run[r].home, 0, x) /\ UNCHANGED run

(* The run ends, and its verdict counts only while its session is running.  *)
Conclude(r, x) ==
  /\ Ends({r})
  /\ Turns(run[r].home, 1, IF Running(run[r].home) THEN x ELSE session[run[r].home].state)

Fail(r) == Ends({r}) /\ Turns(run[r].home, 0, "error")

(* Threads die with the server, or in a conflict, and write nothing.        *)
Lose == UNCHANGED session /\ \E R \in SUBSET {r \in Runs : Open(r)} : Ends(R)

Reap ==
  /\ UNCHANGED run
  /\ \E S \in SUBSET {s \in Sessions : Running(s)} :
       session' = [s \in Sessions |-> IF s \in S THEN Row(s, 0, "error", session[s].latest)
                                      ELSE session[s]]

Next ==
  \/ Lose
  \/ Reap
  \/ \E s \in Sessions : Stop(s) \/ \E r \in Runs : Admit(s, r)
  \/ \E r \in Runs :
       /\ Open(r)
       /\ Fail(r) \/ \E x \in {"done", "error"} : Report(r, x) \/ Conclude(r, x)

Spec == Init /\ [][Next]_vars
===============================================================================
