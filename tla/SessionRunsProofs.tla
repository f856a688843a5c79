--------------------------- MODULE SessionRunsProofs ---------------------------
(* What TLAPS proves of SessionRuns for every number of sessions, runs,     *)
(* requests and pids, and for every timeout and grace period.               *)
EXTENDS SessionRuns, TLAPS, FiniteSetTheorems

Live(r) == wk[r].pc \notin {"none"} \cup Ends

(* A worker that was launched has its session; only a live one has a        *)
(* transaction open, which, while it can still commit, has read that        *)
(* session; until its pid is committed the process it spawned is there to   *)
(* be named; and a request that is sending reserves, alone, a run that      *)
(* nobody launched yet.                                                     *)
WorkersPlaced ==
  /\ \A r \in Runs : wk[r].pc # "none" => wk[r].sess \in Sessions
  /\ \A r \in Runs : \A s \in DOMAIN snap[r] : wk[r].sess = s /\ Live(r)
  /\ \A r \in Runs \cap doomed : DOMAIN snap[r] = {} /\ Live(r)
  /\ \A r \in Runs : wk[r].pc = "spawned" => \E p \in Pids : holder[p] = r
  /\ \A q \in Reqs : op[q] \in Runs => /\ wk[op[q]].pc = "none"
                                       /\ \A p \in Reqs \ {q} : op[p] # op[q]

(* A request that is sending has read a session that it may send on.        *)
SendersMaySend ==
  \A q \in Reqs : op[q] \in Runs => \A s \in DOMAIN snap[q] : CanSend(snap[q][s])

(* Time: a reading worker's deadline comes before its session is stale, and  *)
(* what the reaper has read is still stale when it commits.                  *)
DeadlinesFirst ==
  /\ \A r \in Runs : wk[r].pc = "reading" => age[wk[r].sess] + wk[r].left <= TimeoutS
  /\ \A s \in DOMAIN snap[Reaper] : age[s] > TimeoutS + GraceS

-----------------------------------------------------------------------------
(* The parts of TypeOK about the rows and transactions, and about the rest. *)
RowsTyped ==
  /\ row \in [Sessions -> Record]
  /\ snap = [a \in Actors |-> snap[a]]
  /\ \A a \in Actors : \E S \in SUBSET Sessions : snap[a] \in [S -> Record]
  /\ doomed \subseteq Actors
  /\ age \in [Sessions -> 0 .. Horizon]

ProcsTyped ==
  /\ op \in [Reqs -> Runs \cup {"none", "stop"}]
  /\ wk \in [Runs -> Worker]
  /\ cli \in [Runs -> Cli]
  /\ holder \in [Pids -> Runs \cup {None, Other}]
  /\ restarts \in 0 .. MaxRestarts

LEMMA TypeParts == TypeOK <=> RowsTyped /\ ProcsTyped
BY DEF TypeOK, RowsTyped, ProcsTyped

(* A transaction that begins keeps the rows' types ...                      *)
LEMMA ReadTyped ==
  ASSUME RowsTyped, NEW a \in Actors, NEW S \in SUBSET Sessions, Read(a, S)
  PROVE  RowsTyped'
<1>1. [k \in S |-> row[k]] \in [S -> Record]
  BY DEF RowsTyped
<1>2. snap' = [snap EXCEPT ![a] = [k \in S |-> row[k]]] /\ UNCHANGED <<row, doomed, age>>
  BY DEF Read, Tx!Begin
<1>3. snap' = [b \in Actors |-> snap'[b]]
  BY <1>2 DEF RowsTyped
<1>4. \A b \in Actors : \E T \in SUBSET Sessions : snap'[b] \in [T -> Record]
  <2> SUFFICES ASSUME NEW b \in Actors
               PROVE  \E T \in SUBSET Sessions : snap'[b] \in [T -> Record]
    OBVIOUS
  <2>1. CASE b = a
    <3>1. snap'[b] = [k \in S |-> row[k]]
      BY <1>2, <2>1 DEF RowsTyped
    <3> QED BY <1>1, <3>1
  <2>2. CASE b # a
    <3>1. snap'[b] = snap[b]
      BY <1>2, <2>2 DEF RowsTyped
    <3> QED BY <3>1 DEF RowsTyped
  <2> QED BY <2>1, <2>2
<1> QED BY <1>2, <1>3, <1>4 DEF RowsTyped

(* ... and so does one that commits records to sessions.                    *)
LEMMA WriteTyped ==
  ASSUME RowsTyped, NEW a \in Actors, NEW new, DOMAIN new \subseteq Sessions,
         \A k \in DOMAIN new : new[k] \in Record, Write(a, new)
  PROVE  RowsTyped'
<1>1. row' \in [Sessions -> Record]
  BY DEF Write, Tx!Commit, RowsTyped
<1>2. age' \in [Sessions -> 0 .. Horizon]
  BY Durations DEF Write, RowsTyped, Horizon
<1>3. snap' = [b \in Actors |-> IF b \in Tx!Overtaken(a, DOMAIN new) \cup {a}
                                THEN Tx!NoTx ELSE snap[b]]
  BY DEF Write, Tx!Commit
<1>4. \A b \in Actors : snap'[b] = Tx!NoTx \/ snap'[b] = snap[b]
  BY <1>3
<1>5. Tx!NoTx \in [{} -> Record]
  BY DEF Tx!NoTx
<1>6. \A b \in Actors : \E T \in SUBSET Sessions : snap'[b] \in [T -> Record]
  BY <1>4, <1>5 DEF RowsTyped
<1>7. doomed' \subseteq Actors
  BY DEF Write, Tx!Commit, Tx!Overtaken, RowsTyped
<1>8. snap' = [b \in Actors |-> snap'[b]]
  BY <1>3
<1> QED BY <1>1, <1>2, <1>6, <1>7, <1>8 DEF RowsTyped

(* The record a transaction read is a record, of a session.                 *)
LEMMA SnapTyped ==
  ASSUME RowsTyped, NEW a \in Actors, NEW s \in DOMAIN snap[a]
  PROVE  s \in Sessions /\ snap[a][s] \in Record
BY DEF RowsTyped

LEMMA WriteOneTyped ==
  ASSUME RowsTyped, NEW a \in Actors, NEW s \in Sessions, NEW rec \in Record,
         WriteOne(a, s, rec)
  PROVE  RowsTyped'
<1> DEFINE new == [k \in {s} |-> rec]
<1>1. DOMAIN new = {s} /\ \A k \in DOMAIN new : new[k] \in Record
  OBVIOUS
<1>2. Write(a, new)
  BY DEF WriteOne
<1> HIDE DEF new
<1> QED BY <1>1, <1>2, WriteTyped

LEMMA ConflictTyped ==
  ASSUME RowsTyped, NEW a, Tx!Conflict(a), UNCHANGED age
  PROVE  RowsTyped'
BY DEF RowsTyped, Tx!Conflict

LEMMA NothingTyped ==
  ASSUME RowsTyped, NothingWritten
  PROVE  RowsTyped'
BY DEF RowsTyped, NothingWritten

-----------------------------------------------------------------------------
(* What the handlers write to a record is a record.                         *)
LEMMA RecordsWritten ==
  ASSUME NEW x \in Record
  PROVE  /\ \A r \in Runs : SentRow(x, r) \in Record
         /\ StoppedRow(x) \in Record /\ ReapedRow(x) \in Record
         /\ \A p \in Pids : [x EXCEPT !.pid = p] \in Record
         /\ \A r \in Runs : \A line : ThreadIdOf(r) \in Runs => HeardRow(x, line, r) \in Record
         /\ \A b \in BOOLEAN : [x EXCEPT !.pid = None, !.turns = TurnsAfter(x),
                                         !.state = Verdict(x, b)] \in Record
         /\ [x EXCEPT !.state = "error"] \in Record
<1>1. \A r \in Runs : SentRow(x, r) \in Record
  BY DEF Record, SentRow
<1>2. StoppedRow(x) \in Record /\ ReapedRow(x) \in Record
  BY DEF Record, StoppedRow, ReapedRow
<1>3. \A p \in Pids : [x EXCEPT !.pid = p] \in Record
  BY DEF Record
<1>4. \A r \in Runs : \A line : ThreadIdOf(r) \in Runs => HeardRow(x, line, r) \in Record
  BY DEF Record, HeardRow
<1>5. \A b \in BOOLEAN : [x EXCEPT !.pid = None, !.turns = TurnsAfter(x),
                                   !.state = Verdict(x, b)] \in Record
  <2> TAKE b \in BOOLEAN
  <2>1. TurnsAfter(x) \in Nat
    BY DEF Record, TurnsAfter
  <2>2. Verdict(x, b) \in {"idle", "running", "done", "error"}
    BY DEF Record, Verdict
  <2> QED BY <2>1, <2>2 DEF Record
<1>6. [x EXCEPT !.state = "error"] \in Record
  BY DEF Record
<1> QED BY <1>1, <1>2, <1>3, <1>4, <1>5, <1>6

LEMMA ThreadIdTyped ==
  ASSUME ProcsTyped, NEW r \in Runs
  PROVE  ThreadIdOf(r) \in Runs
BY DistinctValues DEF ProcsTyped, Worker, ThreadIdOf, Resume

LEMMA SignalledTyped ==
  ASSUME ProcsTyped, NEW P, NEW sig
  PROVE  Signalled(P, sig) \in [Runs -> Cli]
BY DEF ProcsTyped, Signalled, Cli

LEMMA EndTyped ==
  ASSUME ProcsTyped, NEW R \in SUBSET Runs, NEW pc \in Ends, End(R, pc)
  PROVE  /\ wk' \in [Runs -> Worker]
         /\ cli' \in [Runs -> Cli]
         /\ holder' \in [Pids -> Runs \cup {None, Other}]
<1>1. \A r \in Runs : Worker0(pc, wk[r].sess) \in Worker
  BY Durations DEF ProcsTyped, Worker, Worker0, Stages
<1>2. \A r \in Runs : Cli0(cli[r].st) \in Cli
  BY DEF ProcsTyped, Cli, Cli0
<1>3. Cli0("gone") \in Cli
  BY DEF Cli, Cli0
<1> QED BY <1>1, <1>2, <1>3 DEF ProcsTyped, End

(* A commit leaves every transaction as it was or closes it.                *)
LEMMA WriteCloses ==
  ASSUME NEW a \in Actors, NEW new, Write(a, new)
  PROVE  /\ \A b \in Actors : snap'[b] = Tx!NoTx \/ snap'[b] = snap[b]
         /\ snap'[a] = Tx!NoTx
         /\ DOMAIN Tx!NoTx = {}
         /\ \A b \in doomed' \ doomed : /\ b \in Actors \ {a} /\ DOMAIN snap[b] # {}
                                        /\ DOMAIN snap'[b] = {}
BY DEF Write, Tx!Commit, Tx!NoTx, Tx!Overtaken

LEMMA ReadOpens ==
  ASSUME RowsTyped, NEW a \in Actors, NEW S, Read(a, S)
  PROVE  /\ \A b \in Actors \ {a} : snap'[b] = snap[b]
         /\ snap'[a] = [k \in S |-> row[k]]
         /\ UNCHANGED <<row, doomed, age>>
BY DEF RowsTyped, Read, Tx!Begin

-----------------------------------------------------------------------------
Typed == RowsTyped /\ ProcsTyped /\ WorkersPlaced

LEMMA TypedInit == Init => Typed
<1> SUFFICES ASSUME Init PROVE Typed
  OBVIOUS
<1>1. RowsTyped
  <2>1. Tx!NoTx \in [{} -> Record]
    BY DEF Tx!NoTx
  <2>2. row \in [Sessions -> Record]
    BY DEF Init, Record
  <2>3. snap = [a \in Actors |-> Tx!NoTx] /\ doomed = {}
    BY DEF Init, Tx!TxInit
  <2>4. age \in [Sessions -> 0 .. Horizon]
    BY Durations DEF Init, Horizon
  <2> QED BY <2>1, <2>2, <2>3, <2>4 DEF RowsTyped
<1>2. ProcsTyped
  BY Bounds, Durations DEF Init, ProcsTyped, Worker, Worker0, Stages, Cli, Cli0
<1>3. WorkersPlaced
  BY DistinctValues DEF Init, WorkersPlaced, Live, Worker0, Tx!TxInit, Tx!NoTx, Actors
<1> QED BY <1>1, <1>2, <1>3 DEF Typed

LEMMA TypedRequest ==
  ASSUME Typed, NEW q \in Reqs, RequestStep(q)
  PROVE  Typed'
<1> USE DEF Typed
<1>0. q \in Actors /\ Runs \subseteq Actors /\ q \notin Runs
  BY DistinctActors DEF Actors
<1>1. ASSUME NEW s \in Sessions, NEW r \in Runs, SendBegin(q, s, r)
      PROVE  Typed'
  <2>1. RowsTyped'
    BY <1>0, <1>1, ReadTyped DEF SendBegin
  <2>2. ProcsTyped'
    BY <1>1 DEF SendBegin, ProcsTyped
  <2>3. WorkersPlaced'
    <3>1. \A b \in Runs : snap'[b] = snap[b]
      BY <1>0, <1>1, ReadOpens DEF SendBegin
    <3>2. op' = [op EXCEPT ![q] = r] /\ wk[r].pc = "none" /\ \A p \in Reqs : op[p] # r
      BY <1>1 DEF SendBegin
    <3>3. UNCHANGED <<wk, holder, doomed>>
      BY <1>0, <1>1, ReadOpens DEF SendBegin
    <3> QED BY <3>1, <3>2, <3>3 DEF ProcsTyped, WorkersPlaced, Live
  <2> QED BY <2>1, <2>2, <2>3
<1>2. ASSUME NEW s \in Sessions, StopBegin(q, s)
      PROVE  Typed'
  <2>1. RowsTyped'
    BY <1>0, <1>2, ReadTyped DEF StopBegin
  <2>2. ProcsTyped'
    BY <1>2, SignalledTyped DEF StopBegin, ProcsTyped
  <2>3. WorkersPlaced'
    <3>1. \A b \in Runs : snap'[b] = snap[b]
      BY <1>0, <1>2, ReadOpens DEF StopBegin
    <3>2. op' = [op EXCEPT ![q] = "stop"] /\ UNCHANGED <<wk, holder, doomed>>
      BY <1>0, <1>2, ReadOpens DEF StopBegin
    <3> QED BY <3>1, <3>2, DistinctValues DEF ProcsTyped, WorkersPlaced, Live
  <2> QED BY <2>1, <2>2, <2>3
<1>3. ASSUME NEW r \in Runs, NEW s \in Sessions, SendCommit(q, r, s)
      PROVE  Typed'
  <2>1. snap[q][s] \in Record
    BY <1>0, <1>3, SnapTyped DEF SendCommit
  <2>2. RowsTyped'
    BY <1>0, <1>3, <2>1, RecordsWritten, WriteOneTyped DEF SendCommit
  <2>3. ProcsTyped'
    BY <1>3, <2>1, Durations DEF SendCommit, ProcsTyped, Worker, Stages, Record
  <2>4. WorkersPlaced'
    <3>1. \A b \in Runs : snap'[b] = Tx!NoTx \/ snap'[b] = snap[b]
      BY <1>0, <1>3, WriteCloses DEF SendCommit, WriteOne
    <3>2. DOMAIN Tx!NoTx = {}
      BY DEF Tx!NoTx
    <3>3. \A b \in Runs \ {r} : wk'[b] = wk[b]
      BY <1>3 DEF SendCommit, ProcsTyped
    <3>4. wk'[r].pc = "launched" /\ wk'[r].sess = s /\ UNCHANGED holder
      BY <1>3 DEF SendCommit, ProcsTyped
    <3>5. \A t \in DOMAIN snap[r] : t = s
      BY <1>3 DEF SendCommit, WorkersPlaced, Live
    <3>6. op' = [op EXCEPT ![q] = "none"] /\ op[q] = r
      BY <1>3 DEF SendCommit
    <3>7. \A b \in doomed' \ doomed : DOMAIN snap[b] # {} /\ DOMAIN snap'[b] = {}
      BY <1>0, <1>3, WriteCloses DEF SendCommit, WriteOne
    <3> QED BY <3>1, <3>2, <3>3, <3>4, <3>5, <3>6, <3>7, DistinctValues
            DEF ProcsTyped, WorkersPlaced, Live
  <2> QED BY <2>2, <2>3, <2>4
<1>4. ASSUME NEW s \in Sessions, StopCommit(q, s)
      PROVE  Typed'
  <2>1. snap[q][s] \in Record
    BY <1>0, <1>4, SnapTyped DEF StopCommit
  <2>2. RowsTyped'
    BY <1>0, <1>4, <2>1, RecordsWritten, WriteOneTyped DEF StopCommit
  <2>3. ProcsTyped'
    BY <1>4 DEF StopCommit, ProcsTyped
  <2>4. WorkersPlaced'
    <3>1. \A b \in Runs : snap'[b] = Tx!NoTx \/ snap'[b] = snap[b]
      BY <1>0, <1>4, WriteCloses DEF StopCommit, WriteOne
    <3>2. DOMAIN Tx!NoTx = {}
      BY DEF Tx!NoTx
    <3>3. op' = [op EXCEPT ![q] = "none"] /\ UNCHANGED <<wk, holder>>
      BY <1>4 DEF StopCommit
    <3>4. \A b \in doomed' \ doomed : DOMAIN snap[b] # {} /\ DOMAIN snap'[b] = {}
      BY <1>0, <1>4, WriteCloses DEF StopCommit, WriteOne
    <3> QED BY <3>1, <3>2, <3>3, <3>4, DistinctValues DEF ProcsTyped, WorkersPlaced, Live
  <2> QED BY <2>2, <2>3, <2>4
<1>5. ASSUME RequestConflict(q)
      PROVE  Typed'
  <2>1. RowsTyped'
    BY <1>5, ConflictTyped DEF RequestConflict
  <2>2. ProcsTyped'
    BY <1>5 DEF RequestConflict, ProcsTyped
  <2>3. WorkersPlaced'
    BY <1>5, DistinctValues DEF RequestConflict, ProcsTyped, WorkersPlaced, Live, Tx!Conflict
  <2> QED BY <2>1, <2>2, <2>3
<1> QED BY <1>1, <1>2, <1>3, <1>4, <1>5 DEF RequestStep, RequestEnd

(* A step of one worker keeps every worker placed if it moves that worker   *)
(* alone, within its session, and takes no process from another.            *)
LEMMA PlacedByWorker ==
  ASSUME Typed, NEW r \in Runs, UNCHANGED op,
         wk[r].pc # "none", wk'[r].pc # "none", wk'[r].sess = wk[r].sess,
         \A b \in Runs \ {r} : wk'[b] = wk[b],
         \A b \in Runs \ {r} : DOMAIN snap'[b] = {} \/ snap'[b] = snap[b],
         DOMAIN snap'[r] \subseteq {wk[r].sess},
         \A b \in doomed' \ doomed : /\ b \in Actors \ {r} /\ DOMAIN snap[b] # {}
                                     /\ DOMAIN snap'[b] = {},
         r \notin doomed', wk'[r].pc \in Ends => DOMAIN snap'[r] = {},
         wk'[r].pc = "spawned" => \E p \in Pids : holder'[p] = r,
         \A p \in Pids : holder[p] \in Runs \ {r} => holder'[p] = holder[p]
  PROVE  WorkersPlaced'
BY DistinctValues DEF Typed, ProcsTyped, WorkersPlaced, Live

LEMMA PlacedMeans ==
  ASSUME Typed, NEW r \in Runs
  PROVE  /\ r \in Actors
         /\ wk[r].pc # "none" => wk[r].sess \in Sessions
         /\ \A s \in DOMAIN snap[r] : wk[r].sess = s /\ s \in Sessions /\ snap[r][s] \in Record
<1>1. r \in Actors
  BY DEF Actors
<1> QED BY <1>1, SnapTyped DEF Typed, WorkersPlaced, Live

LEMMA EndPlaced ==
  ASSUME Typed, NEW r \in Runs, NEW pc \in Ends, End({r}, pc)
  PROVE  /\ wk'[r].pc = pc /\ pc # "none" /\ pc # "spawned" /\ wk'[r].sess = wk[r].sess
         /\ \A b \in Runs \ {r} : wk'[b] = wk[b]
         /\ \A p \in Pids : holder[p] \in Runs \ {r} => holder'[p] = holder[p]
BY DEF End, Ends, Worker0, Typed, ProcsTyped

(* A worker that opens a transaction and moves to another stage.            *)
LEMMA TypedOpens ==
  ASSUME Typed, NEW r \in Runs, wk[r].pc # "none", Read(r, {wk[r].sess}),
         UNCHANGED <<op, restarts>>,
         wk' \in [Runs -> Worker], cli' \in [Runs -> Cli],
         holder' \in [Pids -> Runs \cup {None, Other}],
         wk'[r].pc \notin {"none"} \cup Ends, wk'[r].sess = wk[r].sess,
         \A b \in Runs \ {r} : wk'[b] = wk[b],
         wk'[r].pc = "spawned" => \E p \in Pids : holder'[p] = r,
         \A p \in Pids : holder[p] \in Runs \ {r} => holder'[p] = holder[p]
  PROVE  Typed'
<1>0. r \in Actors /\ Runs \subseteq Actors /\ wk[r].sess \in Sessions
  BY PlacedMeans DEF Actors
<1>1. RowsTyped'
  BY <1>0, ReadTyped DEF Typed
<1>2. ProcsTyped'
  BY DEF Typed, ProcsTyped
<1>3. \A b \in Runs \ {r} : snap'[b] = snap[b]
  BY <1>0, ReadOpens DEF Typed
<1>4. DOMAIN snap'[r] \subseteq {wk[r].sess} /\ UNCHANGED doomed /\ r \notin doomed
  BY <1>0, ReadOpens DEF Typed, Read, Tx!Begin, Tx!InTx
<1>5. WorkersPlaced'
  BY <1>3, <1>4, PlacedByWorker
<1> QED BY <1>1, <1>2, <1>5 DEF Typed

(* A worker that commits to its session and moves to another stage.         *)
LEMMA TypedCommits ==
  ASSUME Typed, NEW r \in Runs, wk[r].pc # "none",
         NEW s \in DOMAIN snap[r], NEW rec \in Record, WriteOne(r, s, rec),
         UNCHANGED <<op, restarts>>,
         wk' \in [Runs -> Worker], cli' \in [Runs -> Cli],
         holder' \in [Pids -> Runs \cup {None, Other}],
         wk'[r].pc \notin {"none", "spawned"}, wk'[r].sess = wk[r].sess,
         \A b \in Runs \ {r} : wk'[b] = wk[b],
         \A p \in Pids : holder[p] \in Runs \ {r} => holder'[p] = holder[p]
  PROVE  Typed'
<1>0. r \in Actors /\ Runs \subseteq Actors /\ s \in Sessions
  BY PlacedMeans DEF Actors
<1>1. RowsTyped'
  BY <1>0, WriteOneTyped DEF Typed
<1>2. ProcsTyped'
  BY DEF Typed, ProcsTyped
<1>3. /\ \A b \in Runs \ {r} : DOMAIN snap'[b] = {} \/ snap'[b] = snap[b]
      /\ DOMAIN snap'[r] = {}
      /\ \A b \in doomed' \ doomed : /\ b \in Actors \ {r} /\ DOMAIN snap[b] # {}
                                     /\ DOMAIN snap'[b] = {}
      /\ r \notin doomed'
  <2>1. /\ \A b \in Actors : snap'[b] = Tx!NoTx \/ snap'[b] = snap[b]
        /\ snap'[r] = Tx!NoTx /\ DOMAIN Tx!NoTx = {}
        /\ \A b \in doomed' \ doomed : /\ b \in Actors \ {r} /\ DOMAIN snap[b] # {}
                                       /\ DOMAIN snap'[b] = {}
    BY <1>0, WriteCloses DEF WriteOne
  <2>2. r \notin doomed
    BY DEF Typed, WorkersPlaced, Live
  <2> QED BY <1>0, <2>1, <2>2
<1>4. WorkersPlaced'
  BY <1>3, PlacedByWorker
<1> QED BY <1>1, <1>2, <1>4 DEF Typed

LEMMA GotoTyped ==
  ASSUME Typed, NEW r \in Runs, NEW pc \in Stages, Goto(r, pc)
  PROVE  /\ wk' \in [Runs -> Worker]
         /\ wk'[r].pc = pc /\ wk'[r].sess = wk[r].sess /\ wk'[r].left = 0
         /\ \A b \in Runs \ {r} : wk'[b] = wk[b]
<1> DEFINE w == [wk[r] EXCEPT !.pc = pc, !.left = 0]
<1>1. wk[r] \in Worker /\ wk \in [Runs -> Worker]
  BY DEF Typed, ProcsTyped
<1>2. 0 \in 0 .. TimeoutS
  BY Durations
<1>3. w \in Worker /\ w.pc = pc /\ w.sess = wk[r].sess /\ w.left = 0
  BY <1>1, <1>2 DEF Worker
<1>4. wk' = [wk EXCEPT ![r] = w]
  BY DEF Goto
<1> HIDE DEF w
<1> QED BY <1>1, <1>3, <1>4

LEMMA LineTaken ==
  ASSUME cli \in [Runs -> Cli], NEW r \in Runs, cli[r].out # << >>,
         cli' = [cli EXCEPT ![r].out = Tail(@)]
  PROVE  cli' \in [Runs -> Cli]
<1>1. cli[r] \in Cli /\ cli[r].out \in Seq(Lines)
  BY DEF Cli
<1>2. Tail(cli[r].out) \in Seq(Lines)
  BY <1>1
<1>3. [cli[r] EXCEPT !.out = Tail(cli[r].out)] \in Cli
  BY <1>1, <1>2 DEF Cli
<1> QED BY <1>3

LEMMA TypedWorker ==
  ASSUME Typed, NEW r \in Runs, WorkerStep(r)
  PROVE  Typed'
<1>0. /\ cli \in [Runs -> Cli] /\ holder \in [Pids -> Runs \cup {None, Other}]
      /\ wk \in [Runs -> Worker] /\ {"finished", "failed", "dead"} \subseteq Ends
      /\ {"launched", "spawned", "reading", "finishing", "failing"}
           \cap ({"none"} \cup Ends) = {}
  BY DEF Typed, ProcsTyped, Ends
<1>1. ASSUME NEW p \in Pids, Spawn(r, p)
      PROVE  Typed'
  <2>1. wk[r].pc = "launched" /\ Goto(r, "spawned") /\ Read(r, {wk[r].sess})
    BY <1>1 DEF Spawn, At
  <2>2. holder[p] = None /\ holder' = [holder EXCEPT ![p] = r]
    BY <1>1 DEF Spawn
  <2>3. cli' \in [Runs -> Cli]
    BY <1>0, <1>1 DEF Spawn, Cli
  <2> QED BY <1>0, <1>1, <2>1, <2>2, <2>3, GotoTyped, TypedOpens, DistinctValues
          DEF Spawn, Stages
<1>2. ASSUME SpawnFails(r)
      PROVE  Typed'
  BY <1>0, <1>2, GotoTyped, TypedOpens DEF SpawnFails, At, Stages
<1>3. ASSUME NEW s \in Sessions, StartCommit(r, s)
      PROVE  Typed'
  <2>1. s \in DOMAIN snap[r] /\ snap[r][s] \in Record /\ wk[r].pc = "spawned"
    BY <1>3, PlacedMeans DEF StartCommit, Amid
  <2>2. PidOf(r) \in Pids
    BY <2>1 DEF PidOf, Typed, WorkersPlaced, Live
  <2>3. [snap[r][s] EXCEPT !.pid = PidOf(r)] \in Record
    BY <2>1, <2>2, RecordsWritten
  <2>4. /\ wk' \in [Runs -> Worker]
        /\ wk'[r].pc = "reading" /\ wk'[r].sess = wk[r].sess
        /\ \A b \in Runs \ {r} : wk'[b] = wk[b]
    <3> DEFINE w == [wk[r] EXCEPT !.pc = "reading", !.left = TimeoutS]
    <3>1. wk[r] \in Worker /\ TimeoutS \in 0 .. TimeoutS
      BY <1>0, Durations
    <3>2. w \in Worker /\ w.pc = "reading" /\ w.sess = wk[r].sess
      BY <3>1 DEF Worker, Stages
    <3>3. wk' = [wk EXCEPT ![r] = w]
      BY <1>3 DEF StartCommit
    <3> HIDE DEF w
    <3> QED BY <1>0, <3>2, <3>3
  <2> QED BY <1>0, <1>3, <2>1, <2>3, <2>4, TypedCommits DEF StartCommit
<1>4. ASSUME HearBegin(r)
      PROVE  Typed'
  BY <1>0, <1>4, TypedOpens DEF HearBegin, At
<1>5. ASSUME NEW s \in Sessions, HearCommit(r, s)
      PROVE  Typed'
  <2>1. s \in DOMAIN snap[r] /\ snap[r][s] \in Record /\ wk[r].pc = "reading"
    BY <1>5, PlacedMeans DEF HearCommit, Amid
  <2>2. HeardRow(snap[r][s], Head(cli[r].out), r) \in Record
    BY <2>1, RecordsWritten, ThreadIdTyped DEF Typed
  <2>3. cli' \in [Runs -> Cli]
    BY <1>0, <1>5, LineTaken DEF HearCommit
  <2> QED BY <1>0, <1>5, <2>1, <2>2, <2>3, TypedCommits DEF HearCommit
<1>6. ASSUME HearKnownThread(r)
      PROVE  Typed'
  <2>1. cli' \in [Runs -> Cli]
    BY <1>0, <1>6, LineTaken DEF HearKnownThread
  <2>2. ProcsTyped'
    BY <1>6, <2>1 DEF HearKnownThread, Typed, ProcsTyped
  <2>3. RowsTyped'
    BY <1>6, NothingTyped DEF HearKnownThread, Typed
  <2>4. WorkersPlaced'
    BY <1>6 DEF HearKnownThread, NothingWritten, Typed, WorkersPlaced, Live
  <2> QED BY <2>2, <2>3, <2>4 DEF Typed
<1>7. ASSUME HearMalformed(r)
      PROVE  Typed'
  <2>1. cli' \in [Runs -> Cli]
    BY <1>0, <1>7, LineTaken DEF HearMalformed
  <2>2. wk[r].pc = "reading" /\ Goto(r, "failing") /\ Read(r, {wk[r].sess})
    BY <1>7 DEF HearMalformed, At
  <2>3. "failing" \in Stages
    BY DEF Stages
  <2>4. UNCHANGED <<op, restarts, holder>>
    BY <1>7 DEF HearMalformed
  <2> QED BY <1>0, <2>1, <2>2, <2>3, <2>4, GotoTyped, TypedOpens
<1>8. ASSUME Timeout(r)
      PROVE  Typed'
  <2>1. cli' \in [Runs -> Cli]
    BY <1>8, SignalledTyped DEF Timeout, Typed
  <2> QED BY <1>0, <1>8, <2>1, GotoTyped, TypedOpens DEF Timeout, At, Stages
<1>9. ASSUME EndOfOutput(r)
      PROVE  Typed'
  <2>1. /\ wk' \in [Runs -> Worker]
        /\ wk'[r].pc = "finishing" /\ wk'[r].sess = wk[r].sess
        /\ \A b \in Runs \ {r} : wk'[b] = wk[b]
    <3> DEFINE w == [wk[r] EXCEPT !.pc = "finishing", !.left = 0,
                                  !.rc0 = cli[r].st = "exit0"]
    <3>1. wk[r] \in Worker /\ 0 \in 0 .. TimeoutS
      BY <1>0, Durations
    <3>2. w \in Worker /\ w.pc = "finishing" /\ w.sess = wk[r].sess
      BY <3>1 DEF Worker, Stages
    <3>3. wk' = [wk EXCEPT ![r] = w]
      BY <1>9 DEF EndOfOutput
    <3> HIDE DEF w
    <3> QED BY <1>0, <3>2, <3>3
  <2>2. cli' \in [Runs -> Cli]
    BY <1>0, <1>9 DEF EndOfOutput, Cli
  <2>3. /\ holder' \in [Pids -> Runs \cup {None, Other}]
        /\ \A p \in Pids : holder[p] \in Runs \ {r} => holder'[p] = holder[p]
    BY <1>0, <1>9 DEF EndOfOutput, Freed
  <2>4. ProcsTyped'
    BY <1>9, <2>1, <2>2, <2>3 DEF EndOfOutput, Typed, ProcsTyped
  <2>5. RowsTyped'
    BY <1>9, NothingTyped DEF EndOfOutput, Typed
  <2>6. WorkersPlaced'
    <3>1. wk[r].pc = "reading" /\ UNCHANGED <<snap, op, doomed>> /\ r \notin doomed
      BY <1>9 DEF EndOfOutput, At, NothingWritten, Tx!InTx
    <3>2. DOMAIN snap[r] \subseteq {wk[r].sess}
      BY DEF Typed, WorkersPlaced, Live
    <3>3. wk'[r].pc \notin Ends
      BY <1>0, <2>1
    <3> QED BY <2>1, <2>3, <3>1, <3>2, <3>3, PlacedByWorker
  <2> QED BY <2>4, <2>5, <2>6 DEF Typed
<1>10. ASSUME FinishBegin(r)
       PROVE  Typed'
  BY <1>0, <1>10, TypedOpens DEF FinishBegin, At
<1>11. ASSUME NEW s \in Sessions, FinishCommit(r, s)
       PROVE  Typed'
  <2>1. s \in DOMAIN snap[r] /\ snap[r][s] \in Record /\ wk[r].pc = "finishing"
    BY <1>11, PlacedMeans DEF FinishCommit, Amid
  <2>2. wk[r].rc0 \in BOOLEAN
    BY <1>0 DEF Worker
  <2>3. [snap[r][s] EXCEPT !.pid = None, !.turns = TurnsAfter(snap[r][s]),
                           !.state = Verdict(snap[r][s], wk[r].rc0)] \in Record
    BY <2>1, <2>2, RecordsWritten
  <2>4. End({r}, "finished")
    BY <1>11 DEF FinishCommit
  <2>5. /\ wk' \in [Runs -> Worker] /\ cli' \in [Runs -> Cli]
        /\ holder' \in [Pids -> Runs \cup {None, Other}]
    BY <1>0, <2>4, EndTyped DEF Typed
  <2> QED BY <1>0, <1>11, <2>1, <2>3, <2>4, <2>5, EndPlaced, TypedCommits
          DEF FinishCommit
<1>12. ASSUME NEW s \in Sessions, FailCommit(r, s)
       PROVE  Typed'
  <2>1. s \in DOMAIN snap[r] /\ snap[r][s] \in Record /\ wk[r].pc = "failing"
    BY <1>12, PlacedMeans DEF FailCommit, Amid
  <2>2. [snap[r][s] EXCEPT !.state = "error"] \in Record
    BY <2>1, RecordsWritten
  <2>3. End({r}, "failed")
    BY <1>12 DEF FailCommit
  <2>4. /\ wk' \in [Runs -> Worker] /\ cli' \in [Runs -> Cli]
        /\ holder' \in [Pids -> Runs \cup {None, Other}]
    BY <1>0, <2>3, EndTyped DEF Typed
  <2> QED BY <1>0, <1>12, <2>1, <2>2, <2>3, <2>4, EndPlaced, TypedCommits
          DEF FailCommit
<1>13. ASSUME WorkerConflict(r)
       PROVE  Typed'
  <2>1. End({r}, "dead") /\ Tx!Conflict(r) /\ UNCHANGED <<age, op, restarts>>
    BY <1>13 DEF WorkerConflict
  <2>2. /\ wk' \in [Runs -> Worker] /\ cli' \in [Runs -> Cli]
        /\ holder' \in [Pids -> Runs \cup {None, Other}]
    BY <1>0, <2>1, EndTyped DEF Typed
  <2>3. ProcsTyped'
    BY <2>1, <2>2 DEF Typed, ProcsTyped
  <2>4. RowsTyped'
    BY <2>1, ConflictTyped DEF Typed
  <2>5. WorkersPlaced'
    <3>1. UNCHANGED snap /\ doomed' = doomed \ {r} /\ r \in doomed
      BY <2>1 DEF Tx!Conflict
    <3>2. wk[r].pc # "none" /\ DOMAIN snap[r] = {}
      BY <3>1 DEF Typed, WorkersPlaced, Live
    <3>3. /\ wk'[r].pc # "none" /\ wk'[r].pc # "spawned" /\ wk'[r].sess = wk[r].sess
          /\ \A b \in Runs \ {r} : wk'[b] = wk[b]
          /\ \A p \in Pids : holder[p] \in Runs \ {r} => holder'[p] = holder[p]
      BY <1>0, <2>1, EndPlaced
    <3> QED BY <2>1, <3>1, <3>2, <3>3, PlacedByWorker
  <2> QED BY <2>3, <2>4, <2>5 DEF Typed
<1> QED BY <1>1, <1>2, <1>3, <1>4, <1>5, <1>6, <1>7, <1>8, <1>9, <1>10, <1>11, <1>12,
           <1>13 DEF WorkerStep

LEMMA TypedReaper ==
  ASSUME Typed, ReapBegin \/ ReaperEnd
  PROVE  Typed'
<1>0. /\ Reaper \in Actors /\ Runs \subseteq Actors /\ Reaper \notin Runs
      /\ StaleSessions \in SUBSET Sessions
  BY DistinctActors DEF Actors, StaleSessions
<1>1. ASSUME ReapBegin
      PROVE  Typed'
  <2>1. RowsTyped'
    BY <1>0, <1>1, ReadTyped DEF ReapBegin, Typed
  <2>2. ProcsTyped'
    BY <1>1, SignalledTyped DEF ReapBegin, Typed, ProcsTyped
  <2>3. \A b \in Runs : snap'[b] = snap[b]
    BY <1>0, <1>1, ReadOpens DEF ReapBegin, Typed
  <2>4. UNCHANGED <<wk, op, holder, doomed>>
    BY <1>0, <1>1, ReadOpens DEF ReapBegin, Typed
  <2>5. WorkersPlaced'
    BY <2>3, <2>4 DEF Typed, WorkersPlaced, Live
  <2> QED BY <2>1, <2>2, <2>5 DEF Typed
<1>2. ASSUME ReapCommit
      PROVE  Typed'
  <2> DEFINE new == [s \in DOMAIN snap[Reaper] |-> ReapedRow(snap[Reaper][s])]
  <2>1. Write(Reaper, new) /\ UNCHANGED <<op, wk, cli, holder, restarts>>
    BY <1>2 DEF ReapCommit
  <2>2. DOMAIN new \subseteq Sessions /\ \A s \in DOMAIN new : new[s] \in Record
    BY <1>0, SnapTyped, RecordsWritten DEF Typed
  <2> HIDE DEF new
  <2>3. RowsTyped'
    BY <1>0, <2>1, <2>2, WriteTyped DEF Typed
  <2>4. ProcsTyped'
    BY <2>1 DEF Typed, ProcsTyped
  <2>5. /\ \A b \in Runs : DOMAIN snap'[b] = {} \/ snap'[b] = snap[b]
        /\ \A b \in doomed' \ doomed : DOMAIN snap[b] # {} /\ DOMAIN snap'[b] = {}
    BY <1>0, <2>1, WriteCloses
  <2>6. WorkersPlaced'
    BY <2>1, <2>5 DEF Typed, WorkersPlaced, Live
  <2> QED BY <2>3, <2>4, <2>6 DEF Typed
<1>3. ASSUME ReapConflict
      PROVE  Typed'
  <2>1. RowsTyped'
    BY <1>3, ConflictTyped DEF ReapConflict, Typed
  <2>2. ProcsTyped' /\ WorkersPlaced'
    BY <1>3 DEF ReapConflict, Tx!Conflict, Typed, ProcsTyped, WorkersPlaced, Live
  <2> QED BY <2>1, <2>2 DEF Typed
<1> QED BY <1>1, <1>2, <1>3 DEF ReaperEnd

LEMMA TypedCli ==
  ASSUME Typed, NEW r \in Runs, CliStep(r)
  PROVE  Typed'
<1>0. cli[r] \in Cli /\ cli \in [Runs -> Cli]
  BY DEF Typed, ProcsTyped
<1>1. ASSUME NEW line \in Lines, CliSpeak(r, line)
      PROVE  Typed'
  <2> DEFINE c == [cli[r] EXCEPT !.said = line, !.out = Append(cli[r].out, line)]
  <2>1. Append(cli[r].out, line) \in Seq(Lines)
    BY <1>0 DEF Cli
  <2>2. c \in Cli
    BY <1>0, <2>1 DEF Cli
  <2>3. cli' = [cli EXCEPT ![r] = c]
    BY <1>1 DEF CliSpeak
  <2> HIDE DEF c
  <2>4. cli' \in [Runs -> Cli]
    BY <1>0, <2>2, <2>3
  <2>5. RowsTyped'
    BY <1>1, NothingTyped DEF CliSpeak, Typed
  <2>6. ProcsTyped' /\ WorkersPlaced'
    BY <1>1, <2>4 DEF CliSpeak, NothingWritten, Typed, ProcsTyped, WorkersPlaced, Live
  <2> QED BY <2>5, <2>6 DEF Typed
<1>2. ASSUME NEW st \in Zombie, CliExit(r, st)
      PROVE  Typed'
  <2>1. cli' \in [Runs -> Cli]
    BY <1>0, <1>2 DEF CliExit, Zombie, Cli
  <2>2. \/ holder' = holder
        \/ wk[r].pc \in Ends /\ holder' = Freed(r)
    BY <1>2 DEF CliExit
  <2>3. holder' \in [Pids -> Runs \cup {None, Other}]
    BY <2>2 DEF Freed, Typed, ProcsTyped
  <2>4. RowsTyped'
    BY <1>2, NothingTyped DEF CliExit, Typed
  <2>5. ProcsTyped'
    BY <1>2, <2>1, <2>3 DEF CliExit, Typed, ProcsTyped
  <2>6. \A b \in Runs : wk[b].pc = "spawned" => \E p \in Pids : holder'[p] = b
    <3> SUFFICES ASSUME NEW b \in Runs, wk[b].pc = "spawned"
                 PROVE  \E p \in Pids : holder'[p] = b
      OBVIOUS
    <3>1. PICK p \in Pids : holder[p] = b
      BY DEF Typed, WorkersPlaced, Live
    <3> QED BY <2>2, <3>1 DEF Freed, Ends
  <2>7. WorkersPlaced'
    BY <1>2, <2>6 DEF CliExit, NothingWritten, Typed, WorkersPlaced, Live
  <2> QED BY <2>4, <2>5, <2>7 DEF Typed
<1> QED BY <1>1, <1>2 DEF CliStep

LEMMA TypedElse ==
  ASSUME Typed,
         (\E p \in Pids : OtherProcess(p)) \/ Tick \/ Restart \/ UNCHANGED vars
  PROVE  Typed'
<1>1. ASSUME NEW p \in Pids, OtherProcess(p)
      PROVE  Typed'
  <2>1. RowsTyped'
    BY <1>1, NothingTyped DEF OtherProcess, Typed
  <2>2. ProcsTyped'
    BY <1>1 DEF OtherProcess, Typed, ProcsTyped
  <2>3. holder' \in [Pids -> Runs \cup {None, Other}]
    BY <2>2 DEF ProcsTyped
  <2>4. \A b \in Pids : holder[b] \in Runs => holder'[b] = holder[b]
    BY <1>1, DistinctValues DEF OtherProcess, Typed, ProcsTyped
  <2>5. WorkersPlaced'
    BY <1>1, <2>4 DEF OtherProcess, NothingWritten, Typed, WorkersPlaced, Live
  <2> QED BY <2>1, <2>2, <2>5 DEF Typed
<1>2. ASSUME Tick
      PROVE  Typed'
  <2>1. UNCHANGED <<row, snap, doomed, op, cli, holder, restarts>>
    BY <1>2 DEF Tick
  <2>2. age' \in [Sessions -> 0 .. Horizon]
    BY <1>2, Durations DEF Tick, Typed, RowsTyped, Horizon
  <2>3. \A b \in Runs : /\ wk'[b] \in Worker
                        /\ wk'[b].pc = wk[b].pc /\ wk'[b].sess = wk[b].sess
    BY <1>2, Durations DEF Tick, Typed, ProcsTyped, Worker
  <2>4. wk' \in [Runs -> Worker]
    BY <1>2, <2>3 DEF Tick
  <2>5. RowsTyped'
    BY <2>1, <2>2 DEF Typed, RowsTyped
  <2>6. ProcsTyped' /\ WorkersPlaced'
    BY <2>1, <2>3, <2>4 DEF Typed, ProcsTyped, WorkersPlaced, Live
  <2> QED BY <2>5, <2>6 DEF Typed
<1>3. ASSUME Restart
      PROVE  Typed'
  <2> DEFINE R == {r \in Runs : wk[r].pc \notin {"none"} \cup Ends}
  <2>1. /\ End(R, "dead") /\ Tx!RollbackAll /\ UNCHANGED age
        /\ op' = [q \in Reqs |-> "none"] /\ restarts' = restarts + 1
        /\ restarts < MaxRestarts
    BY <1>3 DEF Restart
  <2>2. /\ wk' \in [Runs -> Worker] /\ cli' \in [Runs -> Cli]
        /\ holder' \in [Pids -> Runs \cup {None, Other}]
    BY <2>1, EndTyped DEF Typed, Ends
  <2>3. \A r \in Runs : wk'[r] = wk[r] \/ /\ wk'[r].pc = "dead"
                                          /\ wk'[r].sess = wk[r].sess
                                          /\ wk[r].pc # "none"
    BY <2>1 DEF End, Worker0
  <2>4. \A r \in Runs : wk'[r].pc # "spawned"
    BY <2>1 DEF End, Worker0, Ends
  <2> HIDE DEF R
  <2>5. snap' = [a \in Actors |-> Tx!NoTx] /\ doomed' = {} /\ UNCHANGED row
    BY <2>1 DEF Tx!RollbackAll
  <2>6. Tx!NoTx \in [{} -> Record] /\ DOMAIN Tx!NoTx = {}
    BY DEF Tx!NoTx
  <2>7. RowsTyped'
    BY <2>1, <2>5, <2>6 DEF Typed, RowsTyped
  <2>8. ProcsTyped'
    BY <2>1, <2>2, Bounds DEF Typed, ProcsTyped
  <2>9. WorkersPlaced'
    <3>1. Runs \subseteq Actors
      BY DEF Actors
    <3> QED BY <2>1, <2>3, <2>4, <2>5, <2>6, <3>1, DistinctValues
            DEF Typed, WorkersPlaced, Live
  <2> QED BY <2>7, <2>8, <2>9 DEF Typed
<1>4. ASSUME UNCHANGED vars
      PROVE  Typed'
  BY <1>4 DEF vars, Typed, RowsTyped, ProcsTyped, WorkersPlaced, Live
<1> QED BY <1>1, <1>2, <1>3, <1>4

LEMMA TypedStep == Typed /\ [Next]_vars => Typed'
BY TypedRequest, TypedWorker, TypedReaper, TypedCli, TypedElse DEF Next

LEMMA TypedAlways == Spec => []Typed
<1>1. Init => Typed
  BY TypedInit
<1>2. Typed /\ [Next]_vars => Typed'
  BY TypedStep
<1> QED BY <1>1, <1>2, PTL DEF Spec

(* Every variable keeps its type, whatever sends, stops, workers, reaps,    *)
(* CLIs and restarts follow one another.                                    *)
THEOREM TypesKept == Spec => []TypeOK
<1>1. Typed => TypeOK
  BY TypeParts DEF Typed
<1> QED BY <1>1, TypedAlways, PTL

-----------------------------------------------------------------------------
(* What a step does to the rows, the transactions and the ages.             *)
RowStep ==
  \/ UNCHANGED <<row, snap, age>>
  \/ \E a \in Actors, S \in SUBSET Sessions :
       Read(a, S) /\ (a = Reaper => S = StaleSessions)
  \/ \E a \in Actors : \E new : Write(a, new)
  \/ Tx!RollbackAll /\ UNCHANGED age
  \/ UNCHANGED <<row, snap>> /\ Tick

LEMMA RowSteps ==
  ASSUME Typed, [Next]_vars
  PROVE  RowStep
<1>0. /\ Runs \cup Reqs \cup {Reaper} = Actors /\ StaleSessions \in SUBSET Sessions
      /\ Reaper \notin Runs \cup Reqs
  BY DistinctActors DEF Actors, StaleSessions
<1>1. ASSUME NEW q \in Reqs, RequestStep(q)
      PROVE  RowStep
  BY <1>0, <1>1 DEF RequestStep, RequestEnd, SendBegin, SendCommit, StopBegin, StopCommit,
                    RequestConflict, Tx!Conflict, WriteOne, RowStep
<1>2. ASSUME NEW r \in Runs, WorkerStep(r)
      PROVE  RowStep
  <2>1. wk[r].pc # "none" => {wk[r].sess} \in SUBSET Sessions
    BY DEF Typed, WorkersPlaced, Live
  <2>2. CASE \/ \E p \in Pids : Spawn(r, p)
             \/ SpawnFails(r) \/ HearBegin(r) \/ HearMalformed(r) \/ Timeout(r)
             \/ FinishBegin(r)
    BY <1>0, <2>1, <2>2 DEF Spawn, SpawnFails, HearBegin, HearMalformed, Timeout,
                            FinishBegin, At, RowStep
  <2>3. CASE \/ \E s \in Sessions : StartCommit(r, s)
             \/ \E s \in Sessions : HearCommit(r, s)
             \/ \E s \in Sessions : FinishCommit(r, s)
             \/ \E s \in Sessions : FailCommit(r, s)
    BY <1>0, <2>3 DEF StartCommit, HearCommit, FinishCommit, FailCommit, WriteOne, RowStep
  <2>4. CASE HearKnownThread(r) \/ EndOfOutput(r) \/ WorkerConflict(r)
    BY <2>4 DEF HearKnownThread, EndOfOutput, WorkerConflict, NothingWritten, Tx!Conflict,
                RowStep
  <2> QED BY <1>2, <2>2, <2>3, <2>4 DEF WorkerStep
<1>3. ASSUME ReapBegin \/ ReaperEnd
      PROVE  RowStep
  BY <1>0, <1>3 DEF ReapBegin, ReaperEnd, ReapCommit, ReapConflict, Tx!Conflict, RowStep
<1>4. ASSUME NEW r \in Runs, CliStep(r)
      PROVE  RowStep
  BY <1>4 DEF CliStep, CliSpeak, CliExit, NothingWritten, RowStep
<1>5. ASSUME (\E p \in Pids : OtherProcess(p)) \/ Restart \/ UNCHANGED vars
      PROVE  RowStep
  BY <1>5 DEF OtherProcess, Restart, vars, NothingWritten, RowStep
<1>6. ASSUME Tick
      PROVE  RowStep
  BY <1>6 DEF Tick, RowStep
<1> QED BY <1>1, <1>2, <1>3, <1>4, <1>5, <1>6 DEF Next

(* Snapshot isolation: whoever can still commit to a session sees it as it  *)
(* is.  A commit dooms every other transaction that read what it writes.    *)
LEMMA CurrentStep ==
  ASSUME Typed, Tx!SnapshotCurrent, [Next]_vars
  PROVE  Tx!SnapshotCurrent'
<1>1. ASSUME NEW a \in Actors, NEW S \in SUBSET Sessions, Read(a, S)
      PROVE  Tx!SnapshotCurrent'
  <2> SUFFICES ASSUME NEW b \in Actors, NEW k \in DOMAIN snap'[b]
               PROVE  snap'[b][k] = row[k] /\ UNCHANGED row
    BY DEF Tx!SnapshotCurrent
  <2>1. /\ b # a => snap'[b] = snap[b]
        /\ snap'[a] = [i \in S |-> row[i]]
        /\ UNCHANGED row
    BY <1>1, ReadOpens DEF Typed
  <2>2. CASE b = a
    BY <2>1, <2>2
  <2>3. CASE b # a
    BY <2>1, <2>3 DEF Tx!SnapshotCurrent
  <2> QED BY <2>1, <2>2, <2>3
<1>2. ASSUME NEW a \in Actors, NEW new, Write(a, new)
      PROVE  Tx!SnapshotCurrent'
  <2> SUFFICES ASSUME NEW b \in Actors, NEW k \in DOMAIN snap'[b]
               PROVE  snap'[b][k] = row'[k]
    BY DEF Tx!SnapshotCurrent
  <2>1. snap'[b] = snap[b] /\ b \notin Tx!Overtaken(a, DOMAIN new) \cup {a}
    BY <1>2 DEF Write, Tx!Commit, Tx!NoTx
  <2>2. k \notin DOMAIN new
    BY <2>1 DEF Tx!Overtaken
  <2>3. k \in Sessions
    BY <2>1 DEF Typed, RowsTyped
  <2>4. row'[k] = row[k]
    BY <1>2, <2>2, <2>3 DEF Write, Tx!Commit
  <2> QED BY <2>1, <2>4 DEF Tx!SnapshotCurrent
<1>3. ASSUME UNCHANGED <<row, snap>>
      PROVE  Tx!SnapshotCurrent'
  BY <1>3 DEF Tx!SnapshotCurrent
<1>4. ASSUME Tx!RollbackAll
      PROVE  Tx!SnapshotCurrent'
  BY <1>4 DEF Tx!RollbackAll, Tx!SnapshotCurrent, Tx!NoTx
<1> QED BY <1>1, <1>2, <1>3, <1>4, RowSteps DEF RowStep

LEMMA CurrentAlways == Spec => []Tx!SnapshotCurrent
<1>1. Init => Tx!SnapshotCurrent
  BY DEF Init, Tx!TxInit, Tx!NoTx, Tx!SnapshotCurrent
<1>2. Typed /\ Tx!SnapshotCurrent /\ [Next]_vars => Tx!SnapshotCurrent'
  BY CurrentStep
<1> QED BY <1>1, <1>2, TypedAlways, PTL DEF Spec

(* One session's commit, in terms of the committed rows.                    *)
LEMMA OneWritten ==
  ASSUME Typed, Tx!SnapshotCurrent, NEW a \in Actors, NEW s \in DOMAIN snap[a],
         NEW rec, WriteOne(a, s, rec)
  PROVE  /\ s \in Sessions /\ snap[a][s] = row[s] /\ row[s] \in Record
         /\ row'[s] = rec /\ age'[s] = 0
         /\ \A t \in Sessions \ {s} : row'[t] = row[t] /\ age'[t] = age[t]
<1> DEFINE new == [k \in {s} |-> rec]
<1>1. Write(a, new) /\ DOMAIN new = {s} /\ new[s] = rec
  BY DEF WriteOne
<1> HIDE DEF new
<1>2. s \in Sessions
  BY SnapTyped DEF Typed
<1> QED BY <1>1, <1>2 DEF Write, Tx!Commit, Tx!SnapshotCurrent, Typed, RowsTyped

-----------------------------------------------------------------------------
(* A sender has read a session that it may send on, and still does so when   *)
(* it commits.                                                              *)
LEMMA SendersStep ==
  ASSUME Typed, SendersMaySend, [Next]_vars
  PROVE  SendersMaySend'
<1>0. /\ Reqs \subseteq Actors /\ Reaper \in Actors \ Reqs /\ Runs \subseteq Actors \ Reqs
      /\ DOMAIN Tx!NoTx = {}
  BY DistinctActors DEF Actors, Tx!NoTx
<1>1. ASSUME \A q \in Reqs : /\ op'[q] = op[q] \/ op'[q] \notin Runs
                             /\ snap'[q] = snap[q] \/ DOMAIN snap'[q] = {}
      PROVE  SendersMaySend'
  BY <1>1 DEF SendersMaySend, CanSend
<1>2. ASSUME NEW q \in Reqs, RequestStep(q)
      PROVE  SendersMaySend'
  <2>1. ASSUME NEW s \in Sessions, NEW r \in Runs, SendBegin(q, s, r)
        PROVE  SendersMaySend'
    <3>1. /\ snap'[q] = [k \in {s} |-> row[k]] /\ CanSend(row[s])
          /\ \A p \in Reqs \ {q} : snap'[p] = snap[p]
      BY <1>0, <2>1, ReadOpens DEF SendBegin, Typed
    <3>2. op' = [op EXCEPT ![q] = r]
      BY <2>1 DEF SendBegin
    <3> QED BY <3>1, <3>2 DEF SendersMaySend, CanSend, Typed, ProcsTyped
  <2>2. ASSUME NEW s \in Sessions, StopBegin(q, s)
        PROVE  SendersMaySend'
    <3>1. \A p \in Reqs \ {q} : snap'[p] = snap[p]
      BY <1>0, <2>2, ReadOpens DEF StopBegin, Typed
    <3>2. op' = [op EXCEPT ![q] = "stop"] /\ "stop" \notin Runs
      BY <2>2, DistinctValues DEF StopBegin
    <3> QED BY <3>1, <3>2 DEF SendersMaySend, CanSend, Typed, ProcsTyped
  <2>3. ASSUME RequestEnd(q)
        PROVE  SendersMaySend'
    <3>1. op' = [op EXCEPT ![q] = "none"] /\ "none" \notin Runs
      BY <2>3, DistinctValues DEF RequestEnd, SendCommit, StopCommit, RequestConflict
    <3>2. \A p \in Reqs : snap'[p] = snap[p] \/ snap'[p] = Tx!NoTx
      BY <1>0, <2>3, WriteCloses DEF RequestEnd, SendCommit, StopCommit, WriteOne,
                                     RequestConflict, Tx!Conflict
    <3> QED BY <1>0, <1>1, <3>1, <3>2 DEF Typed, ProcsTyped
  <2> QED BY <1>2, <2>1, <2>2, <2>3 DEF RequestStep
<1>3. ASSUME NEW r \in Runs, WorkerStep(r)
      PROVE  SendersMaySend'
  <2>1. UNCHANGED op
    BY <1>3 DEF WorkerStep, Spawn, SpawnFails, StartCommit, HearBegin, HearCommit,
                HearKnownThread, HearMalformed, Timeout, EndOfOutput, FinishBegin,
                FinishCommit, FailCommit, WorkerConflict
  <2>2. \/ UNCHANGED snap
        \/ \E S : Read(r, S)
        \/ \E s, rec : WriteOne(r, s, rec)
    BY <1>3 DEF WorkerStep, Spawn, SpawnFails, StartCommit, HearBegin, HearCommit,
                HearKnownThread, HearMalformed, Timeout, EndOfOutput, FinishBegin,
                FinishCommit, FailCommit, WorkerConflict, NothingWritten, Tx!Conflict
  <2>3. \A q \in Reqs : snap'[q] = snap[q] \/ snap'[q] = Tx!NoTx
    BY <1>0, <2>2, ReadOpens, WriteCloses DEF WriteOne, Typed
  <2> QED BY <1>0, <1>1, <2>1, <2>3
<1>4. ASSUME ReapBegin \/ ReaperEnd
      PROVE  SendersMaySend'
  <2>1. UNCHANGED op
    BY <1>4 DEF ReapBegin, ReaperEnd, ReapCommit, ReapConflict
  <2>2. UNCHANGED snap \/ (\E S : Read(Reaper, S)) \/ \E new : Write(Reaper, new)
    BY <1>4 DEF ReapBegin, ReaperEnd, ReapCommit, ReapConflict, Tx!Conflict
  <2>3. \A q \in Reqs : snap'[q] = snap[q] \/ snap'[q] = Tx!NoTx
    BY <1>0, <2>2, ReadOpens, WriteCloses DEF Typed
  <2> QED BY <1>0, <1>1, <2>1, <2>3
<1>5. ASSUME \/ \E r \in Runs : CliStep(r)
             \/ \E p \in Pids : OtherProcess(p)
             \/ Tick \/ UNCHANGED vars
      PROVE  SendersMaySend'
  BY <1>1, <1>5 DEF CliStep, CliSpeak, CliExit, OtherProcess, Tick, vars, NothingWritten
<1>6. ASSUME Restart
      PROVE  SendersMaySend'
  BY <1>6, DistinctValues DEF Restart, SendersMaySend
<1> QED BY <1>2, <1>3, <1>4, <1>5, <1>6 DEF Next

LEMMA SendersAlways == Spec => []SendersMaySend
<1>1. Init => SendersMaySend
  BY DistinctValues DEF Init, SendersMaySend
<1>2. Typed /\ SendersMaySend /\ [Next]_vars => SendersMaySend'
  BY SendersStep
<1> QED BY <1>1, <1>2, TypedAlways, PTL DEF Spec

-----------------------------------------------------------------------------
(* Every step, as far as runs and their sessions are concerned, is one of   *)
(* four: it leaves the runs where they were (and a session may stop          *)
(* running), it launches one, or one finishes or fails.                     *)
KeepsRuns ==
  /\ \A s \in Sessions : /\ row'[s].jti = row[s].jti
                         /\ row'[s].turns = row[s].turns
                         /\ row'[s].state = "running" => row[s].state = "running"
  /\ \A r \in Runs : /\ wk'[r].sess = wk[r].sess
                     /\ \/ wk'[r].pc = wk[r].pc
                        \/ /\ wk[r].pc \notin {"none"} \cup Ends
                           /\ wk'[r].pc \notin {"none", "finished", "failed"}

Launches(r, s) ==
  /\ wk[r].pc = "none" /\ wk'[r].pc = "launched" /\ wk'[r].sess = s
  /\ row[s].state # "running" /\ row'[s].jti = r /\ row'[s].turns = row[s].turns
  /\ \A b \in Runs \ {r} : wk'[b] = wk[b]
  /\ \A t \in Sessions \ {s} : row'[t] = row[t]

Concludes(r, s, pc, turns) ==
  /\ wk[r].pc \notin {"none"} \cup Ends /\ wk'[r].pc = pc
  /\ wk[r].sess = s /\ wk'[r].sess = s
  /\ row'[s].state # "running" /\ row'[s].jti = row[s].jti
  /\ row'[s].turns = row[s].turns + turns
  /\ \A b \in Runs \ {r} : wk'[b] = wk[b]
  /\ \A t \in Sessions \ {s} : row'[t] = row[t]

Effect ==
  \/ KeepsRuns
  \/ \E r \in Runs, s \in Sessions : Launches(r, s)
  \/ \E r \in Runs, s \in Sessions : Concludes(r, s, "finished", 1)
  \/ \E r \in Runs, s \in Sessions : Concludes(r, s, "failed", 0)

LEMMA RequestEffect ==
  ASSUME Typed, Tx!SnapshotCurrent, SendersMaySend, NEW q \in Reqs, RequestStep(q)
  PROVE  Effect
<1>0. q \in Actors /\ \A s \in Sessions : row[s] \in Record
  BY DEF Actors, Typed, RowsTyped
<1>1. ASSUME NEW s \in Sessions, NEW r \in Runs, SendBegin(q, s, r)
      PROVE  Effect
  BY <1>1 DEF SendBegin, Read, Tx!Begin, Effect, KeepsRuns
<1>2. ASSUME NEW s \in Sessions, StopBegin(q, s)
      PROVE  Effect
  BY <1>2 DEF StopBegin, Read, Tx!Begin, Effect, KeepsRuns
<1>3. ASSUME NEW r \in Runs, NEW s \in Sessions, SendCommit(q, r, s)
      PROVE  Effect
  <2>1. s \in DOMAIN snap[q] /\ WriteOne(q, s, SentRow(snap[q][s], r)) /\ op[q] = r
    BY <1>3 DEF SendCommit
  <2>2. /\ snap[q][s] = row[s] /\ row'[s] = SentRow(row[s], r)
        /\ \A t \in Sessions \ {s} : row'[t] = row[t]
    BY <1>0, <2>1, OneWritten
  <2>3. row[s].state # "running"
    BY <2>1, <2>2 DEF SendersMaySend, CanSend
  <2>4. row'[s].jti = r /\ row'[s].turns = row[s].turns
    BY <1>0, <2>2 DEF SentRow, Record
  <2>5. wk[r].pc = "none"
    BY <2>1 DEF Typed, WorkersPlaced, Live
  <2>6. /\ wk'[r].pc = "launched" /\ wk'[r].sess = s
        /\ \A b \in Runs \ {r} : wk'[b] = wk[b]
    BY <1>3 DEF SendCommit, Typed, ProcsTyped
  <2>7. Launches(r, s)
    BY <2>2, <2>3, <2>4, <2>5, <2>6 DEF Launches
  <2> QED BY <2>7 DEF Effect
<1>4. ASSUME NEW s \in Sessions, StopCommit(q, s)
      PROVE  Effect
  <2>1. /\ row'[s] = StoppedRow(row[s])
        /\ \A t \in Sessions \ {s} : row'[t] = row[t]
    BY <1>0, <1>4, OneWritten DEF StopCommit
  <2>2. /\ row'[s].jti = row[s].jti /\ row'[s].turns = row[s].turns
        /\ row'[s].state = "idle"
    BY <1>0, <2>1 DEF StoppedRow, Record
  <2>3. UNCHANGED wk
    BY <1>4 DEF StopCommit
  <2> QED BY <2>1, <2>2, <2>3 DEF Effect, KeepsRuns
<1>5. ASSUME RequestConflict(q)
      PROVE  Effect
  BY <1>5 DEF RequestConflict, Tx!Conflict, Effect, KeepsRuns
<1> QED BY <1>1, <1>2, <1>3, <1>4, <1>5 DEF RequestStep, RequestEnd

LEMMA WorkerEffect ==
  ASSUME Typed, Tx!SnapshotCurrent, NEW r \in Runs, WorkerStep(r)
  PROVE  Effect
<1>0. /\ r \in Actors /\ \A s \in Sessions : row[s] \in Record
      /\ {"launched", "spawned", "reading", "finishing", "failing", "none"} \cap Ends = {}
      /\ {"finished", "failed", "dead"} \subseteq Ends
  BY DEF Actors, Typed, RowsTyped, Ends
<1>1. ASSUME NEW s \in Sessions, StartCommit(r, s)
      PROVE  Effect
  <2>1. /\ row'[s] = [row[s] EXCEPT !.pid = PidOf(r)]
        /\ \A t \in Sessions \ {s} : row'[t] = row[t]
    BY <1>0, <1>1, OneWritten DEF StartCommit, Amid
  <2>2. /\ row'[s].jti = row[s].jti /\ row'[s].turns = row[s].turns
        /\ row'[s].state = row[s].state
    BY <1>0, <2>1 DEF Record
  <2>3. wk[r].pc = "spawned" /\ wk' = [wk EXCEPT ![r] = [@ EXCEPT !.pc = "reading",
                                                                  !.left = TimeoutS]]
    BY <1>1 DEF StartCommit, Amid
  <2>4. wk'[r].pc = "reading" /\ wk'[r].sess = wk[r].sess
    BY <2>3 DEF Typed, ProcsTyped, Worker
  <2>5. \A b \in Runs \ {r} : wk'[b] = wk[b]
    BY <2>3 DEF Typed, ProcsTyped
  <2> QED BY <1>0, <2>1, <2>2, <2>3, <2>4, <2>5 DEF Effect, KeepsRuns
<1>2. ASSUME NEW s \in Sessions, HearCommit(r, s)
      PROVE  Effect
  <2> DEFINE line == Head(cli[r].out)
  <2>1. /\ row'[s] = HeardRow(row[s], line, r)
        /\ \A t \in Sessions \ {s} : row'[t] = row[t]
    BY <1>0, <1>2, OneWritten DEF HearCommit, Amid
  <2> HIDE DEF line
  <2>2. /\ row'[s].jti = row[s].jti /\ row'[s].turns = row[s].turns
        /\ row'[s].state = "running" => row[s].state = "running"
    BY <1>0, <2>1 DEF HeardRow, Record
  <2>3. UNCHANGED wk
    BY <1>2 DEF HearCommit
  <2> QED BY <2>1, <2>2, <2>3 DEF Effect, KeepsRuns
<1>3. ASSUME NEW s \in Sessions, FinishCommit(r, s)
      PROVE  Effect
  <2>1. wk[r].sess = s /\ wk[r].pc = "finishing" /\ End({r}, "finished")
    BY <1>3, PlacedMeans DEF FinishCommit, Amid
  <2>2. /\ row'[s] = [row[s] EXCEPT !.pid = None, !.turns = TurnsAfter(row[s]),
                                    !.state = Verdict(row[s], wk[r].rc0)]
        /\ \A t \in Sessions \ {s} : row'[t] = row[t]
    <3> DEFINE rec(x) == [x EXCEPT !.pid = None, !.turns = TurnsAfter(x),
                                   !.state = Verdict(x, wk[r].rc0)]
    <3>1. s \in DOMAIN snap[r] /\ WriteOne(r, s, rec(snap[r][s]))
      BY <1>3 DEF FinishCommit, Amid
    <3> HIDE DEF rec
    <3>2. /\ snap[r][s] = row[s] /\ row'[s] = rec(snap[r][s])
          /\ \A t \in Sessions \ {s} : row'[t] = row[t]
      BY <1>0, <3>1, OneWritten
    <3>3. row'[s] = rec(row[s])
      BY <3>2
    <3> QED BY <3>2, <3>3 DEF rec
  <2>3. /\ row'[s].jti = row[s].jti /\ row'[s].turns = row[s].turns + 1
        /\ row'[s].state = Verdict(row[s], wk[r].rc0)
    BY <1>0, <2>2 DEF Record, TurnsAfter
  <2>4. Verdict(row[s], wk[r].rc0) # "running"
    BY DEF Verdict
  <2>5. /\ wk'[r].pc = "finished" /\ wk'[r].sess = s
        /\ \A b \in Runs \ {r} : wk'[b] = wk[b]
    BY <1>0, <2>1, EndPlaced
  <2>6. Concludes(r, s, "finished", 1)
    BY <1>0, <2>1, <2>2, <2>3, <2>4, <2>5 DEF Concludes
  <2> QED BY <2>6 DEF Effect
<1>4. ASSUME NEW s \in Sessions, FailCommit(r, s)
      PROVE  Effect
  <2>1. wk[r].sess = s /\ wk[r].pc = "failing" /\ End({r}, "failed")
    BY <1>4, PlacedMeans DEF FailCommit, Amid
  <2>2. /\ row'[s] = [row[s] EXCEPT !.state = "error"]
        /\ \A t \in Sessions \ {s} : row'[t] = row[t]
    BY <1>0, <1>4, OneWritten DEF FailCommit, Amid
  <2>3. /\ row'[s].jti = row[s].jti /\ row'[s].turns = row[s].turns + 0
        /\ row'[s].state = "error"
    BY <1>0, <2>2 DEF Record
  <2>4. /\ wk'[r].pc = "failed" /\ wk'[r].sess = s
        /\ \A b \in Runs \ {r} : wk'[b] = wk[b]
    BY <1>0, <2>1, EndPlaced
  <2>5. Concludes(r, s, "failed", 0)
    BY <1>0, <2>1, <2>2, <2>3, <2>4 DEF Concludes
  <2> QED BY <2>5 DEF Effect
<1>5. ASSUME NEW pc \in {"spawned", "failing"}, Goto(r, pc), Read(r, {wk[r].sess}),
             wk[r].pc \in {"launched", "reading"}
      PROVE  Effect
  <2>1. pc \in Stages /\ pc \notin {"none", "finished", "failed"}
    BY DEF Stages
  <2>2. UNCHANGED row
    BY <1>5 DEF Read, Tx!Begin
  <2>3. /\ wk'[r].pc = pc /\ wk'[r].sess = wk[r].sess
        /\ \A b \in Runs \ {r} : wk'[b] = wk[b]
    BY <1>5, <2>1, GotoTyped
  <2> QED BY <1>0, <1>5, <2>1, <2>2, <2>3 DEF Effect, KeepsRuns
<1>6. ASSUME \/ \E p \in Pids : Spawn(r, p)
             \/ SpawnFails(r) \/ HearMalformed(r) \/ Timeout(r)
      PROVE  Effect
  BY <1>5, <1>6 DEF Spawn, SpawnFails, HearMalformed, Timeout, At
<1>7. ASSUME HearBegin(r) \/ HearKnownThread(r) \/ FinishBegin(r)
      PROVE  Effect
  BY <1>7 DEF HearBegin, HearKnownThread, FinishBegin, Read, Tx!Begin, NothingWritten,
              Effect, KeepsRuns
<1>8. ASSUME EndOfOutput(r)
      PROVE  Effect
  <2>1. UNCHANGED row /\ wk[r].pc = "reading"
    BY <1>8 DEF EndOfOutput, NothingWritten, At
  <2>2. wk' = [wk EXCEPT ![r] = [@ EXCEPT !.pc = "finishing", !.left = 0,
                                          !.rc0 = cli[r].st = "exit0"]]
    BY <1>8 DEF EndOfOutput
  <2>3. wk'[r].pc = "finishing" /\ wk'[r].sess = wk[r].sess
    BY <2>2 DEF Typed, ProcsTyped, Worker
  <2>4. \A b \in Runs \ {r} : wk'[b] = wk[b]
    BY <2>2 DEF Typed, ProcsTyped
  <2> QED BY <1>0, <2>1, <2>3, <2>4 DEF Effect, KeepsRuns
<1>9. ASSUME WorkerConflict(r)
      PROVE  Effect
  <2>1. UNCHANGED row /\ End({r}, "dead") /\ r \in doomed
    BY <1>9 DEF WorkerConflict, Tx!Conflict
  <2>2. wk[r].pc \notin {"none"} \cup Ends
    BY <2>1 DEF Typed, WorkersPlaced, Live
  <2>3. /\ wk'[r].pc = "dead" /\ wk'[r].sess = wk[r].sess
        /\ \A b \in Runs \ {r} : wk'[b] = wk[b]
    BY <1>0, <2>1, EndPlaced
  <2> QED BY <2>1, <2>2, <2>3 DEF Effect, KeepsRuns
<1> QED BY <1>1, <1>2, <1>3, <1>4, <1>6, <1>7, <1>8, <1>9 DEF WorkerStep

LEMMA ReaperEffect ==
  ASSUME Typed, Tx!SnapshotCurrent, ReapBegin \/ ReaperEnd
  PROVE  Effect
<1>1. UNCHANGED wk
  BY DEF ReapBegin, ReaperEnd, ReapCommit, ReapConflict
<1>2. ASSUME ReapBegin \/ ReapConflict
      PROVE  UNCHANGED row
  BY <1>2 DEF ReapBegin, ReapConflict, Read, Tx!Begin, Tx!Conflict
<1>3. ASSUME ReapCommit
      PROVE  \A s \in Sessions : row'[s] = row[s] \/ row'[s] = ReapedRow(row[s])
  <2> DEFINE new == [s \in DOMAIN snap[Reaper] |-> ReapedRow(snap[Reaper][s])]
  <2>1. Reaper \in Actors
    BY DEF Actors
  <2>2. \A s \in DOMAIN snap[Reaper] : s \in Sessions /\ snap[Reaper][s] = row[s]
    BY <2>1, SnapTyped DEF Typed, Tx!SnapshotCurrent
  <2>3. Write(Reaper, new) /\ DOMAIN new = DOMAIN snap[Reaper]
    BY <1>3 DEF ReapCommit
  <2>4. \A s \in DOMAIN new : new[s] = ReapedRow(row[s])
    BY <2>2
  <2> HIDE DEF new
  <2> QED BY <2>3, <2>4 DEF Write, Tx!Commit
<1>4. \A s \in Sessions : /\ ReapedRow(row[s]).jti = row[s].jti
                          /\ ReapedRow(row[s]).turns = row[s].turns
                          /\ ReapedRow(row[s]).state = "error"
  BY DEF ReapedRow, Typed, RowsTyped, Record
<1>5. \A s \in Sessions : row'[s] = row[s] \/ row'[s] = ReapedRow(row[s])
  BY <1>2, <1>3 DEF ReaperEnd
<1> QED BY <1>1, <1>4, <1>5 DEF Effect, KeepsRuns

LEMMA ElseEffect ==
  ASSUME Typed,
         \/ \E r \in Runs : CliStep(r)
         \/ \E p \in Pids : OtherProcess(p)
         \/ Tick \/ Restart \/ UNCHANGED vars
  PROVE  Effect
<1>1. UNCHANGED row
  BY DEF CliStep, CliSpeak, CliExit, OtherProcess, Tick, Restart, NothingWritten,
         Tx!RollbackAll, vars
<1>2. CASE \/ \E r \in Runs : CliStep(r)
           \/ \E p \in Pids : OtherProcess(p)
           \/ UNCHANGED vars
  <2>1. UNCHANGED wk
    BY <1>2 DEF CliStep, CliSpeak, CliExit, OtherProcess, vars
  <2> QED BY <1>1, <2>1 DEF Effect, KeepsRuns
<1>3. CASE Tick
  <2>1. \A r \in Runs : wk'[r].pc = wk[r].pc /\ wk'[r].sess = wk[r].sess
    BY <1>3 DEF Tick, Typed, ProcsTyped, Worker
  <2> QED BY <1>1, <2>1 DEF Effect, KeepsRuns
<1>4. CASE Restart
  <2> DEFINE R == {r \in Runs : wk[r].pc \notin {"none"} \cup Ends}
  <2>1. End(R, "dead")
    BY <1>4 DEF Restart
  <2>2. \A r \in R : wk'[r].pc = "dead" /\ wk'[r].sess = wk[r].sess
    BY <2>1 DEF End, Worker0
  <2>3. \A r \in Runs \ R : wk'[r] = wk[r]
    BY <2>1 DEF End
  <2> QED BY <1>1, <2>2, <2>3 DEF Effect, KeepsRuns
<1> QED BY <1>2, <1>3, <1>4

LEMMA EffectStep ==
  Typed /\ Tx!SnapshotCurrent /\ SendersMaySend /\ [Next]_vars => Effect
BY RequestEffect, WorkerEffect, ReaperEffect, ElseEffect DEF Next

-----------------------------------------------------------------------------
(* A turn is started only on a session that is not running: of two sends    *)
(* that both passed the guard of send_message, the second fails.            *)
THEOREM SendsAdmitted == Spec => AdmitOnlyIdle
<1>1. Effect => \A s \in Sessions : row'[s].jti # row[s].jti => row[s].state # "running"
  BY DEF Effect, KeepsRuns, Launches, Concludes
<1>2. /\ Typed /\ Tx!SnapshotCurrent /\ SendersMaySend /\ [Next]_vars
      => [\A s \in Sessions : row'[s].jti # row[s].jti => row[s].state # "running"]_vars
  BY <1>1, EffectStep
<1> QED BY <1>2, TypedAlways, CurrentAlways, SendersAlways, PTL DEF Spec, AdmitOnlyIdle

(* A session says running for its latest run only, until that run has       *)
(* finished or failed.                                                      *)
THEOREM RunningForLatest == Spec => []RunningIsLatest
<1>1. Init => RunningIsLatest
  BY DEF Init, RunningIsLatest
<1>2. RunningIsLatest /\ KeepsRuns => RunningIsLatest'
  BY DEF RunningIsLatest, KeepsRuns, Ends
<1>3. ASSUME RunningIsLatest, NEW r \in Runs, NEW s \in Sessions, Launches(r, s)
      PROVE  RunningIsLatest'
  <2> SUFFICES ASSUME NEW t \in Sessions, row'[t].state = "running"
               PROVE  \E b \in Runs : /\ row'[t].jti = b /\ wk'[b].sess = t
                                      /\ wk'[b].pc \notin {"none", "finished", "failed"}
    BY DEF RunningIsLatest
  <2>1. CASE t = s
    BY <1>3, <2>1 DEF Launches
  <2>2. CASE t # s
    <3>1. row'[t] = row[t]
      BY <1>3, <2>2 DEF Launches
    <3>2. PICK b \in Runs : /\ row[t].jti = b /\ wk[b].sess = t
                            /\ wk[b].pc \notin {"none", "finished", "failed"}
      BY <1>3, <3>1 DEF RunningIsLatest
    <3> QED BY <1>3, <3>1, <3>2 DEF Launches
  <2> QED BY <2>1, <2>2
<1>4. ASSUME RunningIsLatest, NEW r \in Runs, NEW s \in Sessions, NEW pc, NEW n,
             Concludes(r, s, pc, n)
      PROVE  RunningIsLatest'
  <2> SUFFICES ASSUME NEW t \in Sessions, row'[t].state = "running"
               PROVE  \E b \in Runs : /\ row'[t].jti = b /\ wk'[b].sess = t
                                      /\ wk'[b].pc \notin {"none", "finished", "failed"}
    BY DEF RunningIsLatest
  <2>1. t # s /\ row'[t] = row[t]
    BY <1>4 DEF Concludes
  <2>2. PICK b \in Runs : /\ row[t].jti = b /\ wk[b].sess = t
                          /\ wk[b].pc \notin {"none", "finished", "failed"}
    BY <1>4, <2>1 DEF RunningIsLatest
  <2>3. b # r
    BY <1>4, <2>1, <2>2 DEF Concludes
  <2> QED BY <1>4, <2>1, <2>2, <2>3 DEF Concludes
<1>5. /\ Typed /\ Tx!SnapshotCurrent /\ SendersMaySend /\ [Next]_vars
      /\ RunningIsLatest
      => RunningIsLatest'
  <2>1. RunningIsLatest /\ Effect => RunningIsLatest'
    BY <1>2, <1>3, <1>4 DEF Effect
  <2> QED BY <2>1, EffectStep
<1> QED BY <1>1, <1>5, TypedAlways, CurrentAlways, SendersAlways, PTL DEF Spec

-----------------------------------------------------------------------------
(* The set of a session's finished runs, in a step.                         *)
LEMMA RunsFinite ==
  ASSUME NEW s \in Sessions
  PROVE  /\ IsFiniteSet(RunsOf(s, "finished"))
         /\ Cardinality(RunsOf(s, "finished")) \in Nat
<1>1. RunsOf(s, "finished") \subseteq Runs
  BY DEF RunsOf
<1>2. IsFiniteSet(RunsOf(s, "finished"))
  BY <1>1, FiniteRuns, FS_Subset
<1> QED BY <1>2, FS_CardinalityType

(* turn_count is the number of turns whose worker came to its end.          *)
THEOREM TurnsCounted == Spec => []TurnsCountFinished
<1>1. Init => TurnsCountFinished
  <2> SUFFICES ASSUME Init, NEW s \in Sessions
               PROVE  row[s].turns = Cardinality(RunsOf(s, "finished"))
    BY DEF TurnsCountFinished
  <2>1. RunsOf(s, "finished") = {}
    BY DEF Init, Worker0, RunsOf
  <2> QED BY <2>1, FS_EmptySet DEF Init
<1>2. ASSUME TurnsCountFinished, KeepsRuns
      PROVE  TurnsCountFinished'
  <2>1. \A s \in Sessions : RunsOf(s, "finished")' = RunsOf(s, "finished")
    BY <1>2 DEF KeepsRuns, RunsOf, Ends
  <2> QED BY <1>2, <2>1 DEF KeepsRuns, TurnsCountFinished
<1>3. ASSUME TurnsCountFinished, NEW r \in Runs, NEW s \in Sessions, Launches(r, s)
      PROVE  TurnsCountFinished'
  <2>1. \A t \in Sessions : RunsOf(t, "finished")' = RunsOf(t, "finished")
    BY <1>3 DEF Launches, RunsOf
  <2>2. \A t \in Sessions : row'[t].turns = row[t].turns
    BY <1>3 DEF Launches
  <2> QED BY <1>3, <2>1, <2>2 DEF TurnsCountFinished
<1>4. ASSUME TurnsCountFinished, NEW r \in Runs, NEW s \in Sessions,
             Concludes(r, s, "failed", 0), row[s].turns \in Nat
      PROVE  TurnsCountFinished'
  <2>1. \A t \in Sessions : RunsOf(t, "finished")' = RunsOf(t, "finished")
    BY <1>4 DEF Concludes, RunsOf, Ends
  <2>2. \A t \in Sessions : row'[t].turns = row[t].turns
    BY <1>4 DEF Concludes
  <2> QED BY <1>4, <2>1, <2>2 DEF TurnsCountFinished
<1>5. ASSUME TurnsCountFinished, NEW r \in Runs, NEW s \in Sessions,
             Concludes(r, s, "finished", 1)
      PROVE  TurnsCountFinished'
  <2> SUFFICES ASSUME NEW t \in Sessions
               PROVE  row'[t].turns = Cardinality(RunsOf(t, "finished")')
    BY DEF TurnsCountFinished
  <2>1. CASE t = s
    <3>1. RunsOf(s, "finished")' = RunsOf(s, "finished") \cup {r}
      BY <1>5 DEF Concludes, RunsOf
    <3>2. r \notin RunsOf(s, "finished")
      BY <1>5 DEF Concludes, RunsOf, Ends
    <3>3. Cardinality(RunsOf(s, "finished") \cup {r}) = Cardinality(RunsOf(s, "finished")) + 1
      BY <3>2, RunsFinite, FS_AddElement
    <3>4. row'[s].turns = row[s].turns + 1
      BY <1>5 DEF Concludes
    <3> QED BY <1>5, <2>1, <3>1, <3>3, <3>4 DEF TurnsCountFinished
  <2>2. CASE t # s
    <3>1. RunsOf(t, "finished")' = RunsOf(t, "finished")
      BY <1>5, <2>2 DEF Concludes, RunsOf
    <3>2. row'[t] = row[t]
      BY <1>5, <2>2 DEF Concludes
    <3> QED BY <1>5, <3>1, <3>2 DEF TurnsCountFinished
  <2> QED BY <2>1, <2>2
<1>6. /\ Typed /\ Tx!SnapshotCurrent /\ SendersMaySend /\ [Next]_vars
      /\ TurnsCountFinished
      => TurnsCountFinished'
  <2>1. Typed => \A s \in Sessions : row[s].turns \in Nat
    BY DEF Typed, RowsTyped, Record
  <2>2. Typed /\ TurnsCountFinished /\ Effect => TurnsCountFinished'
    BY <1>2, <1>3, <1>4, <1>5, <2>1 DEF Effect
  <2> QED BY <2>2, EffectStep
<1> QED BY <1>1, <1>6, TypedAlways, CurrentAlways, SendersAlways, PTL DEF Spec

-----------------------------------------------------------------------------
(* A worker that is reading has just started to, or was reading before, and  *)
(* only Tick brings its deadline nearer.                                    *)
LEMMA ReadersStep ==
  ASSUME Typed, Tx!SnapshotCurrent, [Next]_vars, NEW r \in Runs,
         wk'[r].pc = "reading"
  PROVE  \/ wk'[r] = wk[r]
         \/ /\ wk'[r].sess \in Sessions /\ age'[wk'[r].sess] = 0
            /\ wk'[r].left = TimeoutS
         \/ Tick
<1>0. wk \in [Runs -> Worker] /\ "reading" \notin Ends
  BY DEF Typed, ProcsTyped, Ends
<1>1. ASSUME NEW b \in Runs, NEW s \in Sessions, StartCommit(b, s)
      PROVE  \/ wk'[r] = wk[r]
             \/ /\ wk'[r].sess \in Sessions /\ age'[wk'[r].sess] = 0
                /\ wk'[r].left = TimeoutS
  <2>1. s \in DOMAIN snap[b] /\ wk[b].sess = s
    BY <1>1, PlacedMeans DEF StartCommit, Amid
  <2>2. b \in Actors
    BY DEF Actors
  <2>3. age'[s] = 0
    BY <1>1, <2>1, <2>2, OneWritten DEF StartCommit
  <2>4. wk' = [wk EXCEPT ![b] = [@ EXCEPT !.pc = "reading", !.left = TimeoutS]]
    BY <1>1 DEF StartCommit
  <2>5. wk'[b].sess = s /\ wk'[b].left = TimeoutS
    BY <1>0, <2>1, <2>4 DEF Worker
  <2>6. r # b => wk'[r] = wk[r]
    BY <1>0, <2>4
  <2> QED BY <2>3, <2>5, <2>6
<1>2. ASSUME NEW b \in Runs, NEW pc \in Stages \ {"reading"}, Goto(b, pc)
      PROVE  wk'[r] = wk[r]
  BY <1>2, GotoTyped
<1>3. ASSUME NEW R, NEW pc \in Ends, End(R, pc)
      PROVE  wk'[r] = wk[r]
  BY <1>0, <1>3 DEF End, Worker0
<1>4. ASSUME NEW b \in Runs, EndOfOutput(b)
      PROVE  wk'[r] = wk[r]
  <2>1. wk' = [wk EXCEPT ![b] = [@ EXCEPT !.pc = "finishing", !.left = 0,
                                          !.rc0 = cli[b].st = "exit0"]]
    BY <1>4 DEF EndOfOutput
  <2>2. wk'[b].pc = "finishing"
    BY <1>0, <2>1 DEF Worker
  <2> QED BY <1>0, <2>1, <2>2
<1>5. ASSUME NEW b \in Runs, WorkerStep(b)
      PROVE  \/ wk'[r] = wk[r]
             \/ /\ wk'[r].sess \in Sessions /\ age'[wk'[r].sess] = 0
                /\ wk'[r].left = TimeoutS
  <2>1. {"spawned", "failing"} \subseteq Stages \ {"reading"}
        /\ {"finished", "failed", "dead"} \subseteq Ends
    BY DEF Stages, Ends
  <2>2. CASE (\E p \in Pids : Spawn(b, p)) \/ SpawnFails(b) \/ HearMalformed(b) \/ Timeout(b)
    BY <1>2, <2>1, <2>2 DEF Spawn, SpawnFails, HearMalformed, Timeout
  <2>3. CASE \/ \E s \in Sessions : FinishCommit(b, s)
             \/ \E s \in Sessions : FailCommit(b, s)
             \/ WorkerConflict(b)
    BY <1>3, <2>1, <2>3 DEF FinishCommit, FailCommit, WorkerConflict
  <2>4. CASE \/ HearBegin(b) \/ HearKnownThread(b) \/ FinishBegin(b)
             \/ \E s \in Sessions : HearCommit(b, s)
    BY <2>4 DEF HearBegin, HearKnownThread, FinishBegin, HearCommit
  <2> QED BY <1>1, <1>4, <1>5, <2>2, <2>3, <2>4 DEF WorkerStep
<1>6. ASSUME NEW q \in Reqs, RequestStep(q)
      PROVE  wk'[r] = wk[r]
  <2>1. ASSUME NEW b \in Runs, NEW s \in Sessions, SendCommit(q, b, s)
        PROVE  wk'[r] = wk[r]
    BY <1>0, <2>1 DEF SendCommit
  <2> QED BY <1>6, <2>1 DEF RequestStep, RequestEnd, SendBegin, StopBegin, StopCommit,
                            RequestConflict
<1>7. ASSUME Restart
      PROVE  wk'[r] = wk[r]
  BY <1>3, <1>7 DEF Restart, Ends
<1>8. ASSUME \/ ReapBegin \/ ReaperEnd
             \/ \E b \in Runs : CliStep(b)
             \/ \E p \in Pids : OtherProcess(p)
             \/ UNCHANGED vars
      PROVE  wk'[r] = wk[r]
  BY <1>8 DEF ReapBegin, ReaperEnd, ReapCommit, ReapConflict, CliStep, CliSpeak, CliExit,
              OtherProcess, vars
<1> QED BY <1>5, <1>6, <1>7, <1>8 DEF Next

(* A deadline that is due holds the clock back, so does an open transaction, *)
(* and every commit makes its session young again.                          *)
LEMMA DeadlinesStep ==
  ASSUME Typed, Tx!SnapshotCurrent, DeadlinesFirst, [Next]_vars
  PROVE  DeadlinesFirst'
<1>0. /\ TimeoutS \in Nat /\ GraceS \in Nat /\ Reaper \in Actors
      /\ age \in [Sessions -> 0 .. Horizon] /\ wk \in [Runs -> Worker]
      /\ \A r \in Runs : wk[r].pc # "none" => wk[r].sess \in Sessions
      /\ \A s \in Sessions : age[s] \in Int
      /\ \A r \in Runs : wk[r].left \in Int
  BY Durations DEF Actors, Typed, RowsTyped, ProcsTyped, WorkersPlaced, Worker, Live
<1>1. ASSUME \A s \in Sessions : age'[s] = age[s] \/ age'[s] = 0, ~Tick
      PROVE  \A r \in Runs : wk'[r].pc = "reading" => age'[wk'[r].sess] + wk'[r].left <= TimeoutS
  <2> SUFFICES ASSUME NEW r \in Runs, wk'[r].pc = "reading"
               PROVE  age'[wk'[r].sess] + wk'[r].left <= TimeoutS
    OBVIOUS
  <2>1. CASE wk'[r] = wk[r]
    <3>1. wk[r].pc = "reading" /\ wk[r].sess \in Sessions
      BY <1>0, <2>1
    <3>2. age[wk[r].sess] + wk[r].left <= TimeoutS
      BY <3>1 DEF DeadlinesFirst
    <3>3. age'[wk[r].sess] <= age[wk[r].sess]
      BY <1>0, <1>1, <3>1
    <3> QED BY <1>0, <1>1, <2>1, <3>1, <3>2, <3>3
  <2>2. CASE age'[wk'[r].sess] = 0 /\ wk'[r].left = TimeoutS
    BY <1>0, <2>2
  <2> QED BY <1>1, <2>1, <2>2, ReadersStep
<1>2. ASSUME UNCHANGED age, ~Tick, DOMAIN snap'[Reaper] \subseteq DOMAIN snap[Reaper]
      PROVE  DeadlinesFirst'
  BY <1>1, <1>2 DEF DeadlinesFirst
<1>3. ASSUME NEW a \in Actors, NEW S \in SUBSET Sessions, Read(a, S), ~Tick,
             a = Reaper => S = StaleSessions
      PROVE  DeadlinesFirst'
  <2>1. UNCHANGED age /\ snap'[a] = [k \in S |-> row[k]]
        /\ \A b \in Actors \ {a} : snap'[b] = snap[b]
    BY <1>3, ReadOpens DEF Typed
  <2>2. CASE a = Reaper
    <3>1. DOMAIN snap'[Reaper] = StaleSessions
      BY <1>3, <2>1, <2>2
    <3>2. \A s \in DOMAIN snap'[Reaper] : age'[s] > TimeoutS + GraceS
      BY <2>1, <3>1 DEF StaleSessions, Stale
    <3> QED BY <1>1, <1>3, <2>1, <3>2 DEF DeadlinesFirst
  <2>3. CASE a # Reaper
    BY <1>0, <1>2, <1>3, <2>1, <2>3
  <2> QED BY <2>2, <2>3
<1>4. ASSUME NEW a \in Actors, NEW new, Write(a, new), ~Tick
      PROVE  DeadlinesFirst'
  <2>1. \A s \in Sessions : age'[s] = IF s \in DOMAIN new THEN 0 ELSE age[s]
    BY <1>4 DEF Write
  <2>2. \A s \in DOMAIN snap'[Reaper] : s \in DOMAIN snap[Reaper] /\ s \notin DOMAIN new
    BY <1>0, <1>4 DEF Write, Tx!Commit, Tx!Overtaken, Tx!NoTx
  <2>3. \A s \in DOMAIN snap'[Reaper] : s \in Sessions
    BY <1>0, <2>2, SnapTyped DEF Typed
  <2>4. \A s \in DOMAIN snap'[Reaper] : age'[s] > TimeoutS + GraceS
    BY <2>1, <2>2, <2>3 DEF DeadlinesFirst
  <2> QED BY <1>1, <1>4, <2>1, <2>4 DEF DeadlinesFirst
<1>5. ASSUME Tick
      PROVE  DeadlinesFirst'
  <2>1. ~Tx!InTx(Reaper) /\ UNCHANGED snap
    BY <1>0, <1>5 DEF Tick
  <2>2. DOMAIN snap'[Reaper] = {}
    BY <2>1 DEF Tx!InTx
  <2>3. ASSUME NEW r \in Runs, wk'[r].pc = "reading"
        PROVE  age'[wk'[r].sess] + wk'[r].left <= TimeoutS
    <3>1. wk' = [b \in Runs |-> IF wk[b].pc = "reading"
                                THEN [wk[b] EXCEPT !.left = @ - 1] ELSE wk[b]]
      BY <1>5 DEF Tick
    <3>2. wk[r] \in Worker
      BY <1>0
    <3>3. wk[r].pc = "reading" /\ wk'[r].sess = wk[r].sess /\ wk'[r].left = wk[r].left - 1
      BY <2>3, <3>1, <3>2 DEF Worker
    <3>4. wk[r].sess \in Sessions
      BY <1>0, <3>3
    <3>5. age'[wk[r].sess] <= age[wk[r].sess] + 1 /\ age'[wk[r].sess] \in Int
      BY <1>0, <1>5, <3>4 DEF Tick
    <3>6. age[wk[r].sess] + wk[r].left <= TimeoutS
      BY <3>3 DEF DeadlinesFirst
    <3> QED BY <1>0, <3>3, <3>4, <3>5, <3>6
  <2> QED BY <2>2, <2>3 DEF DeadlinesFirst
<1>6. CASE Tick
  BY <1>5, <1>6
<1>7. CASE ~Tick
  <2>1. CASE UNCHANGED <<row, snap, age>>
    BY <1>2, <1>7, <2>1
  <2>2. CASE Tx!RollbackAll /\ UNCHANGED age
    BY <1>0, <1>2, <1>7, <2>2 DEF Tx!RollbackAll, Tx!NoTx
  <2> QED BY <1>3, <1>4, <1>7, <2>1, <2>2, RowSteps DEF RowStep
<1> QED BY <1>6, <1>7

(* The reaper never takes a session from a worker that is still within its  *)
(* deadline, although it looks at write_date only.                          *)
THEOREM ReadingSpared == Spec => []ReaperSparesReading
<1>1. Init => DeadlinesFirst
  BY DEF Init, Worker0, Tx!TxInit, Tx!NoTx, Actors, DeadlinesFirst
<1>2. Typed /\ Tx!SnapshotCurrent /\ DeadlinesFirst /\ [Next]_vars => DeadlinesFirst'
  BY DeadlinesStep
<1>3. ASSUME Typed, DeadlinesFirst, NEW r \in Runs, wk[r].pc = "reading"
      PROVE  /\ wk[r].sess \notin StaleSessions
             /\ wk[r].sess \notin DOMAIN snap[Reaper]
  <2>1. wk[r].left \in Nat /\ wk[r].sess \in Sessions
    BY <1>3, Durations DEF Typed, ProcsTyped, WorkersPlaced, Worker, Live
  <2>2. age[wk[r].sess] \in Nat
    <3>1. age \in [Sessions -> 0 .. Horizon]
      BY <1>3 DEF Typed, RowsTyped
    <3> QED BY <2>1, <3>1
  <2>3. age[wk[r].sess] + wk[r].left <= TimeoutS
    BY <1>3 DEF DeadlinesFirst
  <2>4. ~(age[wk[r].sess] > TimeoutS + GraceS)
    BY <2>1, <2>2, <2>3, Durations
  <2> QED BY <1>3, <2>4 DEF StaleSessions, Stale, DeadlinesFirst
<1>4. Typed /\ DeadlinesFirst => ReaperSparesReading
  BY <1>3 DEF ReaperSparesReading
<1> QED BY <1>1, <1>2, <1>4, TypedAlways, CurrentAlways, PTL DEF Spec
===============================================================================
