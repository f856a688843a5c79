------------------------------ MODULE SessionRuns ------------------------------
(***************************************************************************)
(* The life of a run: a request marks its session running and launches a   *)
(* worker thread; the worker spawns the Codex CLI, follows its output and   *)
(* writes the verdict; a user may stop it; a cron job reaps what is stale.  *)
(* Sends, stops, workers and the cron share one session row, and each      *)
(* touches it only inside a transaction (SnapshotTx).                       *)
(*                                                                         *)
(* codexoo/models/codexoo_session.py and codexoo/models/codexoo_runner.py.  *)
(***************************************************************************)
EXTENDS Integers, Sequences, FiniteSets

CONSTANTS Sessions,
          Owner,              \* Owner[s]: the session's user_id, who alone may send
          Managers,           \* users whom the record rules let see every session
          Runs,               \* the sends that may be admitted; names their jti
          Reqs,               \* HTTP requests that may be in flight together
          Reaper,             \* the cron worker
          Pids,               \* process ids of the host, recycled
          OtherPids,          \* bound: those that other processes may take too
          MaxConcurrentRuns,  \* codexoo.max_concurrent_runs
          TimeoutS,           \* codexoo.timeout_s
          GraceS,             \* the reaper's 120 s on top of it
          MaxUnread,          \* bound: lines of stdout not read yet
          MaxRestarts,        \* bound: how often the server restarts
          None,               \* Odoo's False: no pid, thread, jti, session
          Other               \* a process that is none of the addon's

ASSUME FiniteRuns == IsFiniteSet(Runs)
ASSUME DistinctActors == Runs \cap Reqs = {} /\ Reaper \notin Runs \cup Reqs
ASSUME DistinctValues == {None, Other, "none", "stop"} \cap Runs = {}
ASSUME Durations == TimeoutS \in Nat /\ GraceS \in Nat
ASSUME Bounds == MaxRestarts \in Nat

Actors == Runs \cup Reqs \cup {Reaper}

VARIABLES row,        \* row[s]: the committed session record
          snap, doomed,
          age,        \* age[s]: time since write_date while running, up to Horizon
          op,         \* op[q]: "none", "stop", or the run that q is sending
          wk,         \* wk[r]: the worker thread of run r
          cli,        \* cli[r]: its CLI process
          holder,     \* holder[p]: who has the process id p
          restarts

vars == <<row, snap, doomed, age, op, wk, cli, holder, restarts>>

Tx == INSTANCE SnapshotTx WITH Keys <- Sessions

Horizon == TimeoutS + GraceS + 1

Ends  == {"finished", "failed", "dead"}
Stages == {"none", "launched", "spawned", "reading", "finishing", "failing"}
            \cup Ends
Lines == {"thread.started", "turn.completed", "turn.failed", "malformed"}

Record == [state: {"idle", "running", "done", "error"}, pid: Pids \cup {None},
           turns: Nat, thread: Runs \cup {None}, jti: Runs \cup {None}]
Worker == [pc: Stages, sess: Sessions \cup {None}, first: BOOLEAN,
           thread: Runs \cup {None}, left: 0 .. TimeoutS, rc0: BOOLEAN]
Cli == [st: {"none", "alive", "termed", "exit0", "exit1", "gone"},
        said: Lines \cup {"nothing"}, out: Seq(Lines)]

Alive  == {"alive", "termed"}     \* running, or running with a SIGTERM pending
Zombie == {"exit0", "exit1"}      \* exited with rc = 0 or not, and not waited for

(* A thread that has ended leaves nothing of its locals behind.            *)
Worker0(pc, s) == [pc |-> pc, sess |-> s, first |-> FALSE, thread |-> None,
                   left |-> 0, rc0 |-> FALSE]
Cli0(st) == [st |-> st, said |-> "nothing", out |-> << >>]

Init ==
  /\ row = [s \in Sessions |-> [state |-> "idle", pid |-> None, turns |-> 0,
                                thread |-> None, jti |-> None]]
  /\ Tx!TxInit
  /\ age = [s \in Sessions |-> 0]
  /\ op = [q \in Reqs |-> "none"]
  /\ wk = [r \in Runs |-> Worker0("none", None)]
  /\ cli = [r \in Runs |-> Cli0("none")]
  /\ holder = [p \in Pids |-> None]
  /\ restarts = 0

-----------------------------------------------------------------------------
(* Transactions on session rows.  Every committed write moves write_date.  *)

Read(a, S) == Tx!Begin(a, S) /\ UNCHANGED age

Write(a, new) ==
  /\ Tx!Commit(a, new)
  /\ age' = [s \in Sessions |-> IF s \in DOMAIN new THEN 0 ELSE age[s]]

WriteOne(a, s, rec) == Write(a, [k \in {s} |-> rec])

NothingWritten == UNCHANGED <<row, snap, doomed, age>>

(* Processes.                                                              *)

PidOf(r) == CHOOSE p \in Pids : holder[p] = r

(* cli after SIGKILL (9) or SIGTERM (15) to the processes of the set P.    *)
(* SIGKILL ends a process at once; of one that nobody follows the end is   *)
(* left to CliExit.                                                        *)
Signalled(P, sig) ==
  [r \in Runs |->
     IF cli[r].st \in Alive /\ \E p \in P : holder[p] = r
     THEN [cli[r] EXCEPT !.st = IF sig = 9 /\ wk[r].pc \notin Ends
                                   THEN "exit1" ELSE "termed"]
     ELSE cli[r]]

(* The pid of run r's process is free once it has been waited for.         *)
Freed(r) == [p \in Pids |-> IF holder[p] = r THEN None ELSE holder[p]]

Goto(r, pc) == wk' = [wk EXCEPT ![r] = [@ EXCEPT !.pc = pc, !.left = 0]]

(* Threads of R end at stage pc: their locals are gone, nobody reads what   *)
(* their CLIs say, and those that have exited are waited for (by __del__ of *)
(* Popen, by the next Popen, or by init): for a CLI that nobody follows,   *)
(* exiting and being waited for is one step.                               *)
End(R, pc) ==
  /\ wk' = [r \in Runs |-> IF r \in R THEN Worker0(pc, wk[r].sess) ELSE wk[r]]
  /\ cli' = [r \in Runs |->
               IF r \notin R THEN cli[r]
               ELSE Cli0(IF cli[r].st \in Zombie THEN "gone" ELSE cli[r].st)]
  /\ holder' = [p \in Pids |->
                  IF holder[p] \in R /\ cli[holder[p]].st \in Zombie
                  THEN None ELSE holder[p]]

-----------------------------------------------------------------------------
(* send_message: what it checks, and what it writes.                       *)

(* A bug's form of CanSend: the guard is gone.                             *)
CanSendAlways(x) == x.state \in {"idle", "running", "done", "error"}
CanSend(x) == x.state # "running"

(* The sessions that search_count sees as user u: the record rules apply.  *)
Seen(u) == {s \in Sessions : u = Owner[s] \/ u \in Managers}

UnderCap(u) ==
  MaxConcurrentRuns > 0 =>
    Cardinality({s \in Seen(u) : row[s].state = "running"}) < MaxConcurrentRuns

SentRow(x, r) == [x EXCEPT !.state = "running", !.jti = r]

(* The codex thread that worker w resumes, None for a fresh one.           *)
Resume(w) == IF w.first THEN None ELSE w.thread

SendBegin(q, s, r) ==
  /\ op[q] = "none"
  /\ wk[r].pc = "none" /\ \A p \in Reqs : op[p] # r
  /\ CanSend(row[s]) /\ UnderCap(Owner[s])
  /\ Read(q, {s})
  /\ op' = [op EXCEPT ![q] = r]
  /\ UNCHANGED <<wk, cli, holder, restarts>>

(* The request commits; only then does postcommit start the thread.        *)
SendCommit(q, r, s) ==
  /\ op[q] = r /\ s \in DOMAIN snap[q]
  /\ WriteOne(q, s, SentRow(snap[q][s], r))
  /\ op' = [op EXCEPT ![q] = "none"]
  /\ wk' = [wk EXCEPT ![r] = [pc |-> "launched", sess |-> s,
                              first |-> snap[q][s].turns = 0,
                              thread |-> snap[q][s].thread, left |-> 0,
                              rc0 |-> FALSE]]
  /\ UNCHANGED <<cli, holder, restarts>>

(* A bug's form of StoppedRow: a state that the field does not have.        *)
StoppedAsStopped(x) == [x EXCEPT !.state = "stopped", !.pid = None]
StoppedRow(x) == [x EXCEPT !.state = "idle", !.pid = None]

StopBegin(q, s) ==
  /\ op[q] = "none"
  /\ Read(q, {s})
  /\ op' = [op EXCEPT ![q] = "stop"]
  /\ cli' = Signalled({row[s].pid} \ {None}, 15)
  /\ UNCHANGED <<wk, holder, restarts>>

StopCommit(q, s) ==
  /\ op[q] = "stop" /\ s \in DOMAIN snap[q]
  /\ WriteOne(q, s, StoppedRow(snap[q][s]))
  /\ op' = [op EXCEPT ![q] = "none"]
  /\ UNCHANGED <<wk, cli, holder, restarts>>

(* The request fails to serialize; retried, it starts over.                *)
RequestConflict(q) ==
  /\ Tx!Conflict(q)
  /\ op' = [op EXCEPT ![q] = "none"]
  /\ UNCHANGED <<age, wk, cli, holder, restarts>>

-----------------------------------------------------------------------------
(* The worker thread: _run_worker and _execute.                            *)

At(r, pc) == wk[r].pc = pc /\ ~Tx!InTx(r)
Amid(r, pc, s) == wk[r].pc = pc /\ s \in DOMAIN snap[r]

(* Popen, and the first statement of session.write after it.              *)
Spawn(r, p) ==
  /\ At(r, "launched") /\ holder[p] = None
  /\ holder' = [holder EXCEPT ![p] = r]
  /\ cli' = [cli EXCEPT ![r].st = "alive"]
  /\ Goto(r, "spawned") /\ Read(r, {wk[r].sess})
  /\ UNCHANGED <<op, restarts>>

(* An exception reaches _run_worker, whose except clause opens the next     *)
(* transaction: Popen raises (no program, permission or memory) ...        *)
SpawnFails(r) ==
  /\ At(r, "launched")
  /\ Goto(r, "failing") /\ Read(r, {wk[r].sess})
  /\ UNCHANGED <<op, cli, holder, restarts>>

(* The pid is committed, and the deadline is set.                          *)
StartCommit(r, s) ==
  /\ Amid(r, "spawned", s)
  /\ WriteOne(r, s, [snap[r][s] EXCEPT !.pid = PidOf(r)])
  /\ wk' = [wk EXCEPT ![r] = [@ EXCEPT !.pc = "reading", !.left = TimeoutS]]
  /\ UNCHANGED <<op, cli, holder, restarts>>

ThreadIdOf(r) == IF Resume(wk[r]) = None THEN r ELSE Resume(wk[r])

KnownThread(r) == /\ Head(cli[r].out) = "thread.started"
                  /\ row[wk[r].sess].thread = ThreadIdOf(r)

(* The loop takes a line of stdout while the deadline is ahead, and        *)
(* _handle_event turns it into a write; a line that is JSON but not an     *)
(* object raises from evt.get.                                             *)
HearBegin(r) ==
  /\ At(r, "reading") /\ wk[r].left > 0
  /\ cli[r].out # << >> /\ Head(cli[r].out) # "malformed" /\ ~KnownThread(r)
  /\ Read(r, {wk[r].sess})
  /\ UNCHANGED <<op, wk, cli, holder, restarts>>

HeardRow(x, line, r) ==
  CASE line = "thread.started" -> [x EXCEPT !.thread = ThreadIdOf(r)]
    [] line = "turn.completed" -> [x EXCEPT !.state = "done"]
    [] line = "turn.failed"    -> [x EXCEPT !.state = "error"]
    [] OTHER                   -> x

HearCommit(r, s) ==
  /\ Amid(r, "reading", s) /\ cli[r].out # << >>
  /\ WriteOne(r, s, HeardRow(snap[r][s], Head(cli[r].out), r))
  /\ cli' = [cli EXCEPT ![r].out = Tail(@)]
  /\ UNCHANGED <<op, wk, holder, restarts>>

(* thread.started with the id that is stored already writes nothing.       *)
HearKnownThread(r) ==
  /\ At(r, "reading") /\ wk[r].left > 0
  /\ cli[r].out # << >> /\ KnownThread(r)
  /\ cli' = [cli EXCEPT ![r].out = Tail(@)]
  /\ NothingWritten /\ UNCHANGED <<op, wk, holder, restarts>>

HearMalformed(r) ==
  /\ At(r, "reading") /\ wk[r].left > 0
  /\ cli[r].out # << >> /\ Head(cli[r].out) = "malformed"
  /\ cli' = [cli EXCEPT ![r].out = Tail(@)]
  /\ Goto(r, "failing") /\ Read(r, {wk[r].sess})
  /\ UNCHANGED <<op, holder, restarts>>

(* A bug's form of Expired: the read blocks, the deadline waits for a line.*)
ExpiredOnLine(w, c) == w.left = 0 /\ c.out # << >>
Expired(w, c) == w.left = 0

Timeout(r) ==
  /\ At(r, "reading") /\ Expired(wk[r], cli[r])
  /\ cli' = Signalled({p \in Pids : holder[p] = r}, 9)
  /\ Goto(r, "failing") /\ Read(r, {wk[r].sess})
  /\ UNCHANGED <<op, holder, restarts>>

(* stdout is closed and everything on it was read; proc.wait.              *)
EndOfOutput(r) ==
  /\ At(r, "reading") /\ wk[r].left > 0
  /\ cli[r].out = << >> /\ cli[r].st \in Zombie
  /\ wk' = [wk EXCEPT ![r] = [@ EXCEPT !.pc = "finishing", !.left = 0,
                                       !.rc0 = cli[r].st = "exit0"]]
  /\ cli' = [cli EXCEPT ![r].st = "gone"]
  /\ holder' = Freed(r)
  /\ NothingWritten /\ UNCHANGED <<op, restarts>>

FinishBegin(r) ==
  /\ At(r, "finishing")
  /\ Read(r, {wk[r].sess})
  /\ UNCHANGED <<op, wk, cli, holder, restarts>>

(* Bugs' forms of Verdict: no verdict for a failed CLI, one for a session   *)
(* that was stopped; of TurnsAfter: a turn counts only while the session is *)
(* still running.                                                          *)
VerdictIfOk(x, rc0) == IF x.state = "running" /\ rc0 THEN "done" ELSE x.state
VerdictUnlessDone(x, rc0) == IF x.state = "done" \/ rc0 THEN "done" ELSE "error"
Verdict(x, rc0) == IF x.state # "running" THEN x.state
                   ELSE IF rc0 THEN "done" ELSE "error"
TurnsIfRunning(x) == IF x.state = "running" THEN x.turns + 1 ELSE x.turns
TurnsAfter(x) == x.turns + 1

FinishCommit(r, s) ==
  /\ Amid(r, "finishing", s)
  /\ WriteOne(r, s, [snap[r][s] EXCEPT !.pid = None, !.turns = TurnsAfter(snap[r][s]),
                                       !.state = Verdict(snap[r][s], wk[r].rc0)])
  /\ End({r}, "finished")
  /\ UNCHANGED <<op, restarts>>

(* _run_worker's except: state and last_error, and nothing else.           *)
FailCommit(r, s) ==
  /\ Amid(r, "failing", s)
  /\ WriteOne(r, s, [snap[r][s] EXCEPT !.state = "error"])
  /\ End({r}, "failed")
  /\ UNCHANGED <<op, restarts>>

(* A commit of the worker fails to serialize: the except clause writes in  *)
(* the same, aborted transaction, raises again, and the thread ends.       *)
WorkerConflict(r) ==
  /\ Tx!Conflict(r)
  /\ End({r}, "dead")
  /\ UNCHANGED <<age, op, restarts>>

-----------------------------------------------------------------------------
(* The cron job _cron_reap_stale.                                          *)

(* Bugs' forms of Stale: the cutoff leaves the timeout out; only a session   *)
(* with a process is reaped.                                               *)
StaleAtGrace(x, a) == x.state = "running" /\ a > GraceS
StaleWithPid(x, a) == x.state = "running" /\ a > TimeoutS + GraceS /\ x.pid # None
Stale(x, a) == x.state = "running" /\ a > TimeoutS + GraceS

StaleSessions == {s \in Sessions : Stale(row[s], age[s])}

ReapedRow(x) == [x EXCEPT !.state = "error", !.pid = None]

ReapBegin ==
  /\ StaleSessions # {}
  /\ Read(Reaper, StaleSessions)
  /\ cli' = Signalled({row[s].pid : s \in StaleSessions} \ {None}, 9)
  /\ UNCHANGED <<op, wk, holder, restarts>>

ReapCommit ==
  /\ Write(Reaper, [s \in DOMAIN snap[Reaper] |-> ReapedRow(snap[Reaper][s])])
  /\ UNCHANGED <<op, wk, cli, holder, restarts>>

(* The job fails to serialize; the scheduler calls it again later.         *)
ReapConflict ==
  /\ Tx!Conflict(Reaper)
  /\ UNCHANGED <<age, op, wk, cli, holder, restarts>>

-----------------------------------------------------------------------------
(* The environment: the CLI, other processes, the clock, the server.       *)

(* codex exec --json names its thread first and ends its turn once.        *)
CliSpeak(r, line) ==
  /\ cli[r].st \in Alive /\ wk[r].pc \notin Ends
  /\ Len(cli[r].out) < MaxUnread
  /\ cli[r].said \in {"nothing"} \cup
                     (IF line = "thread.started" THEN {} ELSE {"thread.started"})
  /\ cli' = [cli EXCEPT ![r].said = line, ![r].out = Append(@, line)]
  /\ NothingWritten /\ UNCHANGED <<op, wk, holder, restarts>>

CliExit(r, st) ==
  /\ cli[r].st \in Alive
  /\ LET followed == wk[r].pc \notin Ends
     IN /\ cli' = [cli EXCEPT ![r].st = IF followed THEN st ELSE "gone"]
        /\ holder' = IF followed THEN holder ELSE Freed(r)
  /\ NothingWritten /\ UNCHANGED <<op, wk, restarts>>

OtherProcess(p) ==
  /\ p \in OtherPids /\ holder[p] \in {None, Other}
  /\ holder' = [holder EXCEPT ![p] = IF @ = None THEN Other ELSE None]
  /\ NothingWritten /\ UNCHANGED <<op, wk, cli, restarts>>

(* A unit of time is longer than a transaction, and a thread whose         *)
(* deadline has come wakes before the next one (line_q.get's timeout).     *)
Tick ==
  /\ \A a \in Actors : ~Tx!InTx(a)
  /\ \A r \in Runs : wk[r].pc = "reading" => wk[r].left > 0
  /\ age' = [s \in Sessions |-> IF row[s].state = "running" /\ age[s] < Horizon
                                THEN age[s] + 1 ELSE age[s]]
  /\ wk' = [r \in Runs |-> IF wk[r].pc = "reading"
                           THEN [wk[r] EXCEPT !.left = @ - 1] ELSE wk[r]]
  /\ UNCHANGED <<row, snap, doomed, op, cli, holder, restarts>>

(* The server restarts: its threads end where they are, the CLIs do not.   *)
Restart ==
  /\ restarts < MaxRestarts
  /\ restarts' = restarts + 1
  /\ Tx!RollbackAll
  /\ op' = [q \in Reqs |-> "none"]
  /\ End({r \in Runs : wk[r].pc \notin {"none"} \cup Ends}, "dead")
  /\ UNCHANGED age

-----------------------------------------------------------------------------
RequestEnd(q) ==
  \/ \E r \in Runs, s \in Sessions : SendCommit(q, r, s)
  \/ \E s \in Sessions : StopCommit(q, s)
  \/ RequestConflict(q)

RequestStep(q) ==
  \/ \E s \in Sessions, r \in Runs : SendBegin(q, s, r)
  \/ \E s \in Sessions : StopBegin(q, s)
  \/ RequestEnd(q)

WorkerStep(r) ==
  \/ \E p \in Pids : Spawn(r, p)
  \/ SpawnFails(r)
  \/ \E s \in Sessions : StartCommit(r, s)
  \/ HearBegin(r)
  \/ \E s \in Sessions : HearCommit(r, s)
  \/ HearKnownThread(r)
  \/ HearMalformed(r)
  \/ Timeout(r)
  \/ EndOfOutput(r)
  \/ FinishBegin(r)
  \/ \E s \in Sessions : FinishCommit(r, s)
  \/ \E s \in Sessions : FailCommit(r, s)
  \/ WorkerConflict(r)

ReaperEnd == ReapCommit \/ ReapConflict

CliStep(r) ==
  \/ \E line \in Lines : CliSpeak(r, line)
  \/ \E st \in Zombie : CliExit(r, st)

Next ==
  \/ \E q \in Reqs : RequestStep(q)
  \/ \E r \in Runs : WorkerStep(r)
  \/ ReapBegin
  \/ ReaperEnd
  \/ \E r \in Runs : CliStep(r)
  \/ \E p \in Pids : OtherProcess(p)
  \/ Tick
  \/ Restart

(* The system's threads run and time passes; users, the CLI, other         *)
(* processes and restarts are under no obligation.                         *)
Fairness ==
  /\ \A q \in Reqs : WF_vars(RequestEnd(q))
  /\ \A r \in Runs : WF_vars(WorkerStep(r))
  /\ WF_vars(ReapBegin) /\ WF_vars(ReaperEnd)
  /\ SF_vars(Tick)

Spec == Init /\ [][Next]_vars
FairSpec == Spec /\ Fairness

-----------------------------------------------------------------------------
(* Every variable has its type.                                            *)
TypeOK ==
  /\ row \in [Sessions -> Record]
  /\ snap = [a \in Actors |-> snap[a]]
  /\ \A a \in Actors : \E S \in SUBSET Sessions : snap[a] \in [S -> Record]
  /\ doomed \subseteq Actors
  /\ age \in [Sessions -> 0 .. Horizon]
  /\ op \in [Reqs -> Runs \cup {"none", "stop"}]
  /\ wk \in [Runs -> Worker]
  /\ cli \in [Runs -> Cli]
  /\ holder \in [Pids -> Runs \cup {None, Other}]
  /\ restarts \in 0 .. MaxRestarts

RunsOf(s, pc) == {r \in Runs : wk[r].sess = s /\ wk[r].pc = pc}

(* A turn is started only on a session that is not running: however two    *)
(* sends of one session interleave, the second never gets its token minted *)
(* and its worker launched over the first (send_message's running guard).  *)
AdmitOnlyIdle ==
  [][\A s \in Sessions : row'[s].jti # row[s].jti => row[s].state # "running"]_vars

(* turn_count is the number of turns whose worker came to its end: no      *)
(* update is lost to a stop, a reap or another worker, none counted twice. *)
TurnsCountFinished ==
  \A s \in Sessions : row[s].turns = Cardinality(RunsOf(s, "finished"))

(* A session says running for its latest run only, and only until that run *)
(* has finished or failed: no worker leaves it running behind it, and no   *)
(* late write of an older one puts it back.                                *)
RunningIsLatest ==
  \A s \in Sessions : row[s].state = "running" =>
    \E r \in Runs : /\ row[s].jti = r /\ wk[r].sess = s
                    /\ wk[r].pc \notin {"none", "finished", "failed"}

(* The reaper, which looks at write_date only, never takes a session from  *)
(* a worker that is still within its deadline.                             *)
ReaperSparesReading ==
  \A r \in Runs : wk[r].pc = "reading" =>
    /\ wk[r].sess \notin StaleSessions
    /\ wk[r].sess \notin DOMAIN snap[Reaper]

(* Every request, worker and reaper takes effect as if it had run at one    *)
(* moment, the one of its commit: the guards that were read on a snapshot   *)
(* (not running, still running, stale) hold of the row that is replaced,    *)
(* and a run ends once.                                                    *)
Life == INSTANCE SessionLife WITH
  NoRun <- None, NoSession <- None,
  session <- [s \in Sessions |-> [state |-> row[s].state, turns |-> row[s].turns,
                                  latest |-> row[s].jti]],
  run <- [r \in Runs |-> [home |-> wk[r].sess,
                          phase |-> IF wk[r].pc = "none" THEN "unsent"
                                    ELSE IF wk[r].pc \in Ends THEN "ended" ELSE "open"]]
LifeKept == Life!Spec

(* A session does not stay running: a worker that dies in a conflict or    *)
(* with the server is made up for by the reaper, so that it cannot wedge a *)
(* slot of the cap (comment of send_message).                              *)
RunningResolves ==
  \A s \in Sessions : row[s].state = "running" ~> row[s].state # "running"

(* The deadline ends the reading of a CLI that says nothing and does not   *)
(* exit (comment above line_q in _execute).                                *)
DeadlineEnforced ==
  \A r \in Runs : wk[r].pc = "reading" ~> wk[r].pc # "reading"
-----------------------------------------------------------------------------
(* What the comments, docstrings and settings say, and the code does not   *)
(* do: each is checked by a run that TLC ends with a counterexample.        *)

(* "Terminate the running CLI subprocess for this session, if any"          *)
(* (action_stop): a stop signals every CLI of the session that is alive,    *)
(* and no process that came by its pid later.                               *)
StopSignalsItsCli ==
  [][\A q \in Reqs, s \in Sessions : StopBegin(q, s) =>
       /\ \A r \in Runs : wk[r].sess = s /\ cli[r].st = "alive"
                          => cli'[r].st = "termed"
       /\ row[s].pid # None =>
            \/ holder[row[s].pid] = None
            \/ \E r \in Runs : holder[row[s].pid] = r /\ wk[r].sess = s]_vars

(* "allowed to execute at the same time across all users" (the help of     *)
(* max_concurrent_runs): a send is admitted only below the cap, counting    *)
(* the committed running sessions of everybody.                             *)
CapCountsEveryUser ==
  [][\A q \in Reqs, s \in Sessions, r \in Runs : SendBegin(q, s, r) =>
       Cardinality({t \in Sessions : row[t].state = "running"})
         < MaxConcurrentRuns]_vars

(* "No explicit turn.completed event" (_execute): the verdict that follows  *)
(* the end of output is for a run that did not report one itself.           *)
FallbackWithoutTurnEnd ==
  [][\A r \in Runs, s \in Sessions :
       FinishCommit(r, s) /\ row[s].state = "running" =>
         cli[r].said \notin {"turn.completed", "turn.failed"}]_vars
===============================================================================
