--------------------------- MODULE SessionLifeProofs ---------------------------
(* SessionRuns implements SessionLife: for every number of sessions, runs,  *)
(* requests and pids, each transaction is as if it had run at its commit.   *)
EXTENDS SessionRunsProofs

(* What the reaper has read is still running when it commits.               *)
ReapsRunning == \A s \in DOMAIN snap[Reaper] : snap[Reaper][s].state = "running"

LEMMA ReaperStep ==
  ASSUME Typed, ReapsRunning, [Next]_vars
  PROVE  ReapsRunning'
<1>0. Reaper \in Actors
  BY DEF Actors
<1>1. ASSUME NEW a \in Actors, NEW S \in SUBSET Sessions, Read(a, S),
             a = Reaper => S = StaleSessions
      PROVE  ReapsRunning'
  <2>1. CASE a = Reaper
    <3>1. snap'[Reaper] = [s \in StaleSessions |-> row[s]]
      BY <1>0, <1>1, <2>1, ReadOpens DEF Typed
    <3> QED BY <3>1 DEF ReapsRunning, StaleSessions, Stale
  <2>2. CASE a # Reaper
    <3>1. snap'[Reaper] = snap[Reaper]
      BY <1>0, <1>1, <2>2, ReadOpens DEF Typed
    <3> QED BY <3>1 DEF ReapsRunning
  <2> QED BY <2>1, <2>2
<1>2. ASSUME NEW a \in Actors, NEW new, Write(a, new)
      PROVE  ReapsRunning'
  BY <1>0, <1>2, WriteCloses DEF ReapsRunning
<1>3. ASSUME Tx!RollbackAll \/ UNCHANGED snap
      PROVE  ReapsRunning'
  BY <1>0, <1>3 DEF Tx!RollbackAll, Tx!NoTx, ReapsRunning
<1> QED BY <1>1, <1>2, <1>3, RowSteps DEF RowStep

LEMMA ReaperAlways == Spec => []ReapsRunning
<1>1. Init => ReapsRunning
  BY DEF Init, Tx!TxInit, Tx!NoTx, ReapsRunning, Actors
<1>2. Typed /\ ReapsRunning /\ [Next]_vars => ReapsRunning'
  BY ReaperStep
<1> QED BY <1>1, <1>2, TypedAlways, PTL DEF Spec

-----------------------------------------------------------------------------
(* What a step does to the rows and the workers, as SessionLife sees it.     *)
SameSession(s) == /\ row'[s].state = row[s].state /\ row'[s].turns = row[s].turns
                  /\ row'[s].jti = row[s].jti
SameSessions == \A s \in Sessions : SameSession(s)

Unsent(r) == wk[r].pc = "none"
Ended(r) == wk[r].pc \in Ends
SameRun(r) == wk'[r].sess = wk[r].sess /\ Unsent(r)' = Unsent(r) /\ Ended(r)' = Ended(r)
SameRuns == \A r \in Runs : SameRun(r)

(* A session gets a state and n more turns; the runs of R end.              *)
Gets(s, n, x) == /\ row'[s].state = x /\ row'[s].turns = row[s].turns + n
                 /\ row'[s].jti = row[s].jti
                 /\ \A t \in Sessions \ {s} : SameSession(t)
EndRuns(R) == /\ \A r \in R : wk'[r].sess = wk[r].sess /\ Ended(r)' /\ ~Unsent(r)'
              /\ \A r \in Runs \ R : SameRun(r)

LEMMA LifeStutters ==
  ASSUME SameSessions, SameRuns
  PROVE  UNCHANGED Life!vars
BY DEF Life!vars, SameSessions, SameSession, SameRuns, SameRun, Unsent, Ended

LEMMA LifeTurns ==
  ASSUME NEW s \in Sessions, NEW n, NEW x, Gets(s, n, x)
  PROVE  Life!Turns(s, n, x)
BY DEF Gets, SameSession, Life!Turns, Life!Row

LEMMA LifeEnds ==
  ASSUME NEW R \in SUBSET Runs, EndRuns(R)
  PROVE  Life!Ends(R)
BY DEF EndRuns, SameRun, Unsent, Ended, Life!Ends

(* One lemma for each action of SessionLife.                                *)
LEMMA LifeAdmits ==
  ASSUME NEW s \in Sessions, NEW r \in Runs, row[s].state # "running", Unsent(r),
         row'[s].state = "running", row'[s].turns = row[s].turns + 0, row'[s].jti = r,
         wk'[r].sess = s, ~Unsent(r)', ~Ended(r)',
         \A t \in Sessions \ {s} : SameSession(t), \A b \in Runs \ {r} : SameRun(b)
  PROVE  Life!Next
<1>1. Life!Admit(s, r)
  BY DEF Life!Admit, Life!Running, Life!Row, SameSession, SameRun, Unsent, Ended
<1> QED BY <1>1 DEF Life!Next

LEMMA LifeStops ==
  ASSUME NEW s \in Sessions, Gets(s, 0, "idle"), SameRuns
  PROVE  Life!Next
<1>1. Life!Stop(s)
  BY LifeTurns DEF Life!Stop, SameRuns, SameRun, Unsent, Ended
<1> QED BY <1>1 DEF Life!Next

LEMMA LifeReports ==
  ASSUME NEW r \in Runs, NEW s \in Sessions, wk[r].sess = s, ~Unsent(r), ~Ended(r),
         NEW x \in {"done", "error"}, Gets(s, 0, x), SameRuns
  PROVE  Life!Next
<1>1. Life!Open(r)
  BY DEF Life!Open, Unsent, Ended
<1>2. Life!Report(r, x)
  BY LifeTurns DEF Life!Report, SameRuns, SameRun, Unsent, Ended
<1> QED BY <1>1, <1>2 DEF Life!Next

LEMMA LifeConcludes ==
  ASSUME NEW r \in Runs, NEW s \in Sessions, wk[r].sess = s, ~Unsent(r), ~Ended(r),
         NEW x \in {"done", "error"}, EndRuns({r}),
         NEW v, v = (IF row[s].state = "running" THEN x ELSE row[s].state), Gets(s, 1, v)
  PROVE  Life!Next
<1>1. Life!Open(r)
  BY DEF Life!Open, Unsent, Ended
<1>2. Life!Ends({r})
  BY LifeEnds
<1>3. CASE row[s].state = "running"
  <2>1. Gets(s, 1, x)
    BY <1>3
  <2>2. Life!Conclude(r, x)
    BY <1>2, <1>3, <2>1 DEF Gets, SameSession, Life!Conclude, Life!Turns, Life!Row, Life!Running
  <2> QED BY <1>1, <2>2 DEF Life!Next
<1>4. CASE row[s].state # "running"
  <2>1. Gets(s, 1, row[s].state)
    BY <1>4
  <2>2. Life!Conclude(r, x)
    BY <1>2, <1>4, <2>1 DEF Gets, SameSession, Life!Conclude, Life!Turns, Life!Row, Life!Running
  <2> QED BY <1>1, <2>2 DEF Life!Next
<1> QED BY <1>3, <1>4

LEMMA LifeFails ==
  ASSUME NEW r \in Runs, NEW s \in Sessions, wk[r].sess = s, ~Unsent(r), ~Ended(r),
         EndRuns({r}), Gets(s, 0, "error")
  PROVE  Life!Next
<1>1. Life!Open(r)
  BY DEF Life!Open, Unsent, Ended
<1>2. Life!Fail(r)
  BY LifeEnds, LifeTurns DEF Life!Fail
<1> QED BY <1>1, <1>2 DEF Life!Next

LEMMA LifeLoses ==
  ASSUME NEW R \in SUBSET Runs, \A r \in R : ~Unsent(r) /\ ~Ended(r), EndRuns(R),
         SameSessions
  PROVE  Life!Next
<1>1. R \in SUBSET {r \in Runs : Life!Open(r)}
  BY DEF Life!Open, Unsent, Ended
<1>2. Life!Lose
  BY <1>1, LifeEnds DEF Life!Lose, SameSessions, SameSession
<1> QED BY <1>2 DEF Life!Next

LEMMA LifeReaps ==
  ASSUME NEW S \in SUBSET Sessions, \A s \in S : row[s].state = "running",
         \A s \in S : /\ row'[s].state = "error" /\ row'[s].turns = row[s].turns + 0
                       /\ row'[s].jti = row[s].jti,
         \A s \in Sessions \ S : SameSession(s), SameRuns
  PROVE  Life!Next
<1>1. S \in SUBSET {s \in Sessions : Life!Running(s)}
  BY DEF Life!Running
<1>2. Life!Reap
  BY <1>1 DEF Life!Reap, Life!Row, SameSession, SameRuns, SameRun, Unsent, Ended
<1> QED BY <1>2 DEF Life!Next

-----------------------------------------------------------------------------
(* Every step of SessionRuns is one of SessionLife, or is not seen.         *)
LifeStep == Life!Next \/ UNCHANGED Life!vars

LEMMA LifeOfRequest ==
  ASSUME Typed, Tx!SnapshotCurrent, SendersMaySend, NEW q \in Reqs, RequestStep(q)
  PROVE  LifeStep
<1>0. q \in Actors /\ \A s \in Sessions : row[s] \in Record
  BY DEF Actors, Typed, RowsTyped
<1>1. ASSUME UNCHANGED <<row, wk>>
      PROVE  LifeStep
  <2>1. SameSessions /\ SameRuns
    BY <1>1 DEF SameSessions, SameSession, SameRuns, SameRun, Unsent, Ended
  <2> QED BY <2>1, LifeStutters DEF LifeStep
<1>2. ASSUME NEW r \in Runs, NEW s \in Sessions, SendCommit(q, r, s)
      PROVE  LifeStep
  <2>1. s \in DOMAIN snap[q] /\ WriteOne(q, s, SentRow(snap[q][s], r)) /\ op[q] = r
    BY <1>2 DEF SendCommit
  <2>2. /\ snap[q][s] = row[s] /\ row'[s] = SentRow(row[s], r)
        /\ \A t \in Sessions \ {s} : row'[t] = row[t]
    BY <1>0, <2>1, OneWritten
  <2>3. row[s].state # "running"
    BY <2>1, <2>2 DEF SendersMaySend, CanSend
  <2>4. row'[s].state = "running" /\ row'[s].jti = r /\ row'[s].turns = row[s].turns + 0
    BY <1>0, <2>2 DEF SentRow, Record
  <2>5. Unsent(r)
    BY <2>1 DEF Typed, WorkersPlaced, Live, Unsent
  <2>6. /\ wk'[r].pc = "launched" /\ wk'[r].sess = s
        /\ \A b \in Runs \ {r} : wk'[b] = wk[b]
    BY <1>2 DEF SendCommit, Typed, ProcsTyped
  <2>7. ~Unsent(r)' /\ ~Ended(r)'
    BY <2>6 DEF Unsent, Ended, Ends
  <2>8. /\ \A t \in Sessions \ {s} : SameSession(t)
        /\ \A b \in Runs \ {r} : SameRun(b)
    BY <2>2, <2>6 DEF SameSession, SameRun, Unsent, Ended
  <2> QED BY <2>3, <2>4, <2>5, <2>6, <2>7, <2>8, LifeAdmits DEF LifeStep
<1>3. ASSUME NEW s \in Sessions, StopCommit(q, s)
      PROVE  LifeStep
  <2>1. /\ row'[s] = StoppedRow(row[s])
        /\ \A t \in Sessions \ {s} : row'[t] = row[t]
    BY <1>0, <1>3, OneWritten DEF StopCommit
  <2>2. Gets(s, 0, "idle")
    BY <1>0, <2>1 DEF StoppedRow, Record, Gets, SameSession
  <2>3. SameRuns
    BY <1>3 DEF StopCommit, SameRuns, SameRun, Unsent, Ended
  <2> QED BY <2>2, <2>3, LifeStops DEF LifeStep
<1>4. ASSUME \/ \E s \in Sessions, r \in Runs : SendBegin(q, s, r)
             \/ \E s \in Sessions : StopBegin(q, s)
             \/ RequestConflict(q)
      PROVE  LifeStep
  BY <1>1, <1>4 DEF SendBegin, StopBegin, RequestConflict, Read, Tx!Begin, Tx!Conflict
<1> QED BY <1>2, <1>3, <1>4 DEF RequestStep, RequestEnd

(* A worker that moves on from one stage to another.                        *)
LEMMA LifeMovesOn ==
  ASSUME NEW r \in Runs, wk'[r].sess = wk[r].sess, ~Unsent(r), ~Ended(r),
         ~Unsent(r)', ~Ended(r)', \A b \in Runs \ {r} : wk'[b] = wk[b]
  PROVE  SameRuns
BY DEF SameRuns, SameRun, Unsent, Ended

(* A worker that ends.                                                      *)
LEMMA LifeOfEnd ==
  ASSUME Typed, NEW r \in Runs, NEW pc \in Ends, End({r}, pc)
  PROVE  EndRuns({r})
BY EndPlaced DEF EndRuns, SameRun, Unsent, Ended

LEMMA LifeOfWorker ==
  ASSUME Typed, Tx!SnapshotCurrent, NEW r \in Runs, WorkerStep(r)
  PROVE  LifeStep
<1>0. /\ r \in Actors /\ \A s \in Sessions : row[s] \in Record
      /\ {"launched", "spawned", "reading", "finishing", "failing"} \cap ({"none"} \cup Ends) = {}
      /\ {"finished", "failed", "dead"} \subseteq Ends
  BY DEF Actors, Typed, RowsTyped, Ends
<1>1. ASSUME UNCHANGED row, SameRuns
      PROVE  LifeStep
  BY <1>1, LifeStutters DEF LifeStep, SameSessions, SameSession
<1>2. ASSUME NEW s \in Sessions, StartCommit(r, s)
      PROVE  LifeStep
  <2>1. /\ row'[s] = [row[s] EXCEPT !.pid = PidOf(r)]
        /\ \A t \in Sessions \ {s} : row'[t] = row[t]
    BY <1>0, <1>2, OneWritten DEF StartCommit, Amid
  <2>2. SameSessions
    BY <1>0, <2>1 DEF Record, SameSessions, SameSession
  <2>3. wk[r].pc = "spawned" /\ wk' = [wk EXCEPT ![r] = [@ EXCEPT !.pc = "reading",
                                                                  !.left = TimeoutS]]
    BY <1>2 DEF StartCommit, Amid
  <2>4. wk'[r].pc = "reading" /\ wk'[r].sess = wk[r].sess
    BY <2>3 DEF Typed, ProcsTyped, Worker
  <2>5. \A b \in Runs \ {r} : wk'[b] = wk[b]
    BY <2>3 DEF Typed, ProcsTyped
  <2>6. SameRuns
    BY <1>0, <2>3, <2>4, <2>5, LifeMovesOn DEF Unsent, Ended
  <2> QED BY <2>2, <2>6, LifeStutters DEF LifeStep
<1>3. ASSUME NEW s \in Sessions, HearCommit(r, s)
      PROVE  LifeStep
  <2> DEFINE line == Head(cli[r].out)
  <2>1. /\ row'[s] = HeardRow(row[s], line, r)
        /\ \A t \in Sessions \ {s} : row'[t] = row[t]
    BY <1>0, <1>3, OneWritten DEF HearCommit, Amid
  <2> HIDE DEF line
  <2>2. SameRuns
    BY <1>3 DEF HearCommit, SameRuns, SameRun, Unsent, Ended
  <2>3. wk[r].sess = s /\ ~Unsent(r) /\ ~Ended(r)
    BY <1>0, <1>3, PlacedMeans DEF HearCommit, Amid, Unsent, Ended
  <2>4. CASE line = "turn.completed"
    <3>1. Gets(s, 0, "done")
      BY <1>0, <2>1, <2>4 DEF HeardRow, Record, Gets, SameSession
    <3> QED BY <2>2, <2>3, <3>1, LifeReports DEF LifeStep
  <2>5. CASE line = "turn.failed"
    <3>1. Gets(s, 0, "error")
      BY <1>0, <2>1, <2>5 DEF HeardRow, Record, Gets, SameSession
    <3> QED BY <2>2, <2>3, <3>1, LifeReports DEF LifeStep
  <2>6. CASE line \notin {"turn.completed", "turn.failed"}
    <3>1. SameSessions
      BY <1>0, <2>1, <2>6 DEF HeardRow, Record, SameSessions, SameSession
    <3> QED BY <2>2, <3>1, LifeStutters DEF LifeStep
  <2> QED BY <2>4, <2>5, <2>6
<1>4. ASSUME NEW s \in Sessions, FinishCommit(r, s)
      PROVE  LifeStep
  <2>1. wk[r].sess = s /\ wk[r].pc = "finishing" /\ End({r}, "finished")
    BY <1>4, PlacedMeans DEF FinishCommit, Amid
  <2>2. /\ row'[s] = [row[s] EXCEPT !.pid = None, !.turns = TurnsAfter(row[s]),
                                    !.state = Verdict(row[s], wk[r].rc0)]
        /\ \A t \in Sessions \ {s} : row'[t] = row[t]
    <3> DEFINE rec(x) == [x EXCEPT !.pid = None, !.turns = TurnsAfter(x),
                                   !.state = Verdict(x, wk[r].rc0)]
    <3>1. s \in DOMAIN snap[r] /\ WriteOne(r, s, rec(snap[r][s]))
      BY <1>4 DEF FinishCommit, Amid
    <3> HIDE DEF rec
    <3>2. /\ snap[r][s] = row[s] /\ row'[s] = rec(snap[r][s])
          /\ \A t \in Sessions \ {s} : row'[t] = row[t]
      BY <1>0, <3>1, OneWritten
    <3>3. row'[s] = rec(row[s])
      BY <3>2
    <3> QED BY <3>2, <3>3 DEF rec
  <2>3. Gets(s, 1, Verdict(row[s], wk[r].rc0))
    BY <1>0, <2>2 DEF Record, TurnsAfter, Gets, SameSession
  <2>4. PICK x \in {"done", "error"} :
          Verdict(row[s], wk[r].rc0) = (IF row[s].state = "running" THEN x ELSE row[s].state)
    BY DEF Verdict
  <2>5. EndRuns({r})
    BY <1>0, <2>1, LifeOfEnd
  <2>6. ~Unsent(r) /\ ~Ended(r)
    BY <1>0, <2>1 DEF Unsent, Ended
  <2> QED BY <2>1, <2>3, <2>4, <2>5, <2>6, LifeConcludes DEF LifeStep
<1>5. ASSUME NEW s \in Sessions, FailCommit(r, s)
      PROVE  LifeStep
  <2>1. wk[r].sess = s /\ wk[r].pc = "failing" /\ End({r}, "failed")
    BY <1>5, PlacedMeans DEF FailCommit, Amid
  <2>2. /\ row'[s] = [row[s] EXCEPT !.state = "error"]
        /\ \A t \in Sessions \ {s} : row'[t] = row[t]
    BY <1>0, <1>5, OneWritten DEF FailCommit, Amid
  <2>3. Gets(s, 0, "error")
    BY <1>0, <2>2 DEF Record, Gets, SameSession
  <2>4. EndRuns({r}) /\ ~Unsent(r) /\ ~Ended(r)
    BY <1>0, <2>1, LifeOfEnd DEF Unsent, Ended
  <2> QED BY <2>1, <2>3, <2>4, LifeFails DEF LifeStep
<1>6. ASSUME NEW pc \in {"spawned", "failing"}, Goto(r, pc), Read(r, {wk[r].sess}),
             wk[r].pc \in {"launched", "reading"}
      PROVE  LifeStep
  <2>1. pc \in Stages
    BY DEF Stages
  <2>2. UNCHANGED row
    BY <1>6 DEF Read, Tx!Begin
  <2>3. /\ wk'[r].pc = pc /\ wk'[r].sess = wk[r].sess
        /\ \A b \in Runs \ {r} : wk'[b] = wk[b]
    BY <1>6, <2>1, GotoTyped
  <2>4. SameRuns
    BY <1>0, <1>6, <2>3, LifeMovesOn DEF Unsent, Ended
  <2> QED BY <1>1, <2>2, <2>4
<1>7. ASSUME \/ \E p \in Pids : Spawn(r, p)
             \/ SpawnFails(r) \/ HearMalformed(r) \/ Timeout(r)
      PROVE  LifeStep
  BY <1>6, <1>7 DEF Spawn, SpawnFails, HearMalformed, Timeout, At
<1>8. ASSUME HearBegin(r) \/ HearKnownThread(r) \/ FinishBegin(r)
      PROVE  LifeStep
  <2>1. UNCHANGED <<row, wk>>
    BY <1>8 DEF HearBegin, HearKnownThread, FinishBegin, Read, Tx!Begin, NothingWritten
  <2> QED BY <1>1, <2>1 DEF SameRuns, SameRun, Unsent, Ended
<1>9. ASSUME EndOfOutput(r)
      PROVE  LifeStep
  <2>1. UNCHANGED row /\ wk[r].pc = "reading"
    BY <1>9 DEF EndOfOutput, NothingWritten, At
  <2>2. wk' = [wk EXCEPT ![r] = [@ EXCEPT !.pc = "finishing", !.left = 0,
                                          !.rc0 = cli[r].st = "exit0"]]
    BY <1>9 DEF EndOfOutput
  <2>3. wk'[r].pc = "finishing" /\ wk'[r].sess = wk[r].sess
    BY <2>2 DEF Typed, ProcsTyped, Worker
  <2>4. \A b \in Runs \ {r} : wk'[b] = wk[b]
    BY <2>2 DEF Typed, ProcsTyped
  <2>5. SameRuns
    BY <1>0, <2>1, <2>3, <2>4, LifeMovesOn DEF Unsent, Ended
  <2> QED BY <1>1, <2>1, <2>5
<1>10. ASSUME WorkerConflict(r)
       PROVE  LifeStep
  <2>1. UNCHANGED row /\ End({r}, "dead") /\ r \in doomed
    BY <1>10 DEF WorkerConflict, Tx!Conflict
  <2>2. ~Unsent(r) /\ ~Ended(r)
    BY <2>1 DEF Typed, WorkersPlaced, Live, Unsent, Ended
  <2>3. EndRuns({r}) /\ SameSessions
    BY <1>0, <2>1, LifeOfEnd DEF SameSessions, SameSession
  <2> QED BY <2>2, <2>3, LifeLoses DEF LifeStep
<1> QED BY <1>2, <1>3, <1>4, <1>5, <1>7, <1>8, <1>9, <1>10 DEF WorkerStep

LEMMA LifeOfReaper ==
  ASSUME Typed, Tx!SnapshotCurrent, ReapsRunning, ReapBegin \/ ReaperEnd
  PROVE  LifeStep
<1>1. SameRuns
  BY DEF ReapBegin, ReaperEnd, ReapCommit, ReapConflict, SameRuns, SameRun, Unsent, Ended
<1>2. ASSUME ReapBegin \/ ReapConflict
      PROVE  LifeStep
  <2>1. UNCHANGED row
    BY <1>2 DEF ReapBegin, ReapConflict, Read, Tx!Begin, Tx!Conflict
  <2> QED BY <1>1, <2>1, LifeStutters DEF LifeStep, SameSessions, SameSession
<1>3. ASSUME ReapCommit
      PROVE  LifeStep
  <2> DEFINE S == DOMAIN snap[Reaper]
             new == [s \in S |-> ReapedRow(snap[Reaper][s])]
  <2>1. Reaper \in Actors
    BY DEF Actors
  <2>2. \A s \in S : s \in Sessions /\ snap[Reaper][s] = row[s] /\ row[s].state = "running"
    BY <2>1, SnapTyped DEF Typed, Tx!SnapshotCurrent, ReapsRunning
  <2>3. Write(Reaper, new) /\ DOMAIN new = S
    BY <1>3 DEF ReapCommit
  <2>4. \A s \in S : new[s] = ReapedRow(row[s])
    BY <2>2
  <2> HIDE DEF new, S
  <2>5. \A s \in Sessions : row'[s] = IF s \in S THEN ReapedRow(row[s]) ELSE row[s]
    BY <2>2, <2>3, <2>4 DEF Write, Tx!Commit
  <2>6. \A s \in Sessions : /\ ReapedRow(row[s]).jti = row[s].jti
                            /\ ReapedRow(row[s]).turns = row[s].turns + 0
                            /\ ReapedRow(row[s]).state = "error"
    BY DEF ReapedRow, Typed, RowsTyped, Record
  <2>7. /\ \A s \in S : /\ row'[s].state = "error" /\ row'[s].turns = row[s].turns + 0
                        /\ row'[s].jti = row[s].jti
        /\ \A s \in Sessions \ S : SameSession(s)
    BY <2>2, <2>5, <2>6 DEF SameSession
  <2>8. S \in SUBSET Sessions /\ \A s \in S : row[s].state = "running"
    BY <2>2
  <2> QED BY <1>1, <2>7, <2>8, LifeReaps DEF LifeStep
<1> QED BY <1>2, <1>3 DEF ReaperEnd

LEMMA LifeOfElse ==
  ASSUME Typed,
         \/ \E r \in Runs : CliStep(r)
         \/ \E p \in Pids : OtherProcess(p)
         \/ Tick \/ Restart \/ UNCHANGED vars
  PROVE  LifeStep
<1>1. SameSessions
  BY DEF CliStep, CliSpeak, CliExit, OtherProcess, Tick, Restart, NothingWritten,
         Tx!RollbackAll, vars, SameSessions, SameSession
<1>2. CASE \/ \E r \in Runs : CliStep(r)
           \/ \E p \in Pids : OtherProcess(p)
           \/ UNCHANGED vars
  <2>1. UNCHANGED wk
    BY <1>2 DEF CliStep, CliSpeak, CliExit, OtherProcess, vars
  <2> QED BY <1>1, <2>1, LifeStutters DEF LifeStep, SameRuns, SameRun, Unsent, Ended
<1>3. CASE Tick
  <2>1. \A r \in Runs : wk'[r].pc = wk[r].pc /\ wk'[r].sess = wk[r].sess
    BY <1>3 DEF Tick, Typed, ProcsTyped, Worker
  <2> QED BY <1>1, <2>1, LifeStutters DEF LifeStep, SameRuns, SameRun, Unsent, Ended
<1>4. CASE Restart
  <2> DEFINE R == {r \in Runs : wk[r].pc \notin {"none"} \cup Ends}
  <2>1. End(R, "dead")
    BY <1>4 DEF Restart
  <2>2. \A r \in R : wk'[r].pc = "dead" /\ wk'[r].sess = wk[r].sess
    BY <2>1 DEF End, Worker0
  <2>3. \A r \in Runs \ R : wk'[r] = wk[r]
    BY <2>1 DEF End
  <2>4. R \in SUBSET Runs /\ \A r \in R : ~Unsent(r) /\ ~Ended(r)
    BY DEF Unsent, Ended
  <2> HIDE DEF R
  <2>5. EndRuns(R)
    BY <2>2, <2>3 DEF EndRuns, SameRun, Unsent, Ended, Ends
  <2> QED BY <1>1, <2>4, <2>5, LifeLoses DEF LifeStep
<1> QED BY <1>2, <1>3, <1>4

(* SessionRuns implements SessionLife: each request, each write of a worker  *)
(* and each pass of the reaper is as if it had run on the rows as they are  *)
(* at its commit, and every run ends at most once.                          *)
THEOREM LifeImplemented == Spec => LifeKept
<1>1. Init => Life!Init
  BY DEF Init, Worker0, Ends, Life!Init
<1>2. /\ Typed /\ Tx!SnapshotCurrent /\ SendersMaySend /\ ReapsRunning /\ [Next]_vars
      => [Life!Next]_(Life!vars)
  BY LifeOfRequest, LifeOfWorker, LifeOfReaper, LifeOfElse DEF Next, LifeStep
<1> QED BY <1>1, <1>2, TypedAlways, CurrentAlways, SendersAlways, ReaperAlways, PTL
        DEF Spec, LifeKept, Life!Spec
===============================================================================
