---------------------------- MODULE ToolCallsProofs ----------------------------
(* What TLAPS proves of ToolCalls for every number of calls, records,       *)
(* tokens and tries, whether or not the audit insert may fail.              *)
EXTENDS ToolCalls, TLAPS, SequenceTheorems

Busy == {"working", "auditing", "closing"}

(* What the handler of a call knows: it has a try left until it is given    *)
(* up, its transaction reads its own record and is open while the tool runs *)
(* and after it succeeded, its token was in force when that transaction     *)
(* began, and the log has heard of every try that came to its end, of the   *)
(* last with its outcome, before the commit.                                *)
Handled(c) ==
  /\ call[c].pc # "faulted" => call[c].tries < MaxTries
  /\ DOMAIN snap[c] \subseteq {call[c].target}
  /\ c \in doomed => DOMAIN snap[c] = {}
  /\ Tx!InTx(c) => call[c].pc \in Busy
  /\ call[c].pc = "working" => Tx!InTx(c)
  /\ call[c].pc \in {"auditing", "closing"} =>
       /\ call[c].outcome \in Outcomes
       /\ call[c].outcome = "success" => Tx!InTx(c)
  /\ call[c].pc \in Busy => call[c].seen = call[c].token
  /\ call[c].pc \notin {"closing", "answered", "lost"} => Len(log[c]) = call[c].tries
  /\ call[c].pc \in {"closing", "answered"} =>
       /\ Len(log[c]) = call[c].tries + 1
       /\ log[c][call[c].tries + 1] \in {call[c].outcome, "unwritten"}

(* An effect is committed once, with the answer; a success without it wrote *)
(* nothing.                                                                *)
EffectsWithAnswers ==
  /\ \A k \in Targets, c \in Calls :
       row[k][c] # 0 => row[k][c] = 1 /\ call[c].pc = "answered"
  /\ \A c \in Calls :
       call[c].pc = "answered" /\ call[c].outcome = "success" /\ call[c].wrote
         => row[call[c].target][c] = 1

Inv ==
  /\ TypeOK
  /\ \A c \in Calls : Handled(c)
  /\ Tx!SnapshotCurrent
  /\ EffectsWithAnswers

-----------------------------------------------------------------------------
(* The parts of TypeOK about the transactions, and about the rest.          *)
TxTyped ==
  /\ row \in [Targets -> [Calls -> Nat]]
  /\ snap = [a \in Actors |-> snap[a]]
  /\ \A a \in Actors : \E S \in SUBSET Targets : snap[a] \in [S -> [Calls -> Nat]]
  /\ doomed \subseteq Actors

CallsTyped ==
  /\ minted \in 0 .. MaxMints /\ valid \in 0 .. MaxMints
  /\ call \in [Calls -> Call]
  /\ log \in [Calls -> Seq(Outcomes \cup {"unwritten"})]
  /\ restarts \in 0 .. MaxRestarts

LEMMA TypeParts == TypeOK <=> TxTyped /\ CallsTyped
BY DEF TypeOK, TxTyped, CallsTyped

(* What a call writes when its handler's transaction commits.               *)
Effect(c) == [k \in DOMAIN snap[c] |-> [snap[c][k] EXCEPT ![c] = @ + 1]]

(* What a step does to the transactions.                                    *)
TxStep ==
  \/ UNCHANGED <<row, snap, doomed>>
  \/ \E a \in Actors, k \in Targets : Tx!Begin(a, {k})
  \/ \E c \in Calls : Tx!Commit(c, Effect(c))
  \/ Tx!Commit(Others, snap[Others])
  \/ \E a \in Actors : Tx!Conflict(a) \/ Tx!End(a)
  \/ Tx!RollbackAll

LEMMA TxSteps ==
  ASSUME TypeOK, [Next]_vars
  PROVE  TxStep
<1>0. /\ Calls \subseteq Actors /\ Others \in Actors
      /\ \A c \in Calls : call[c].target \in Targets
  BY DEF Actors, TypeOK, Call
<1>1. ASSUME NEW c \in Calls, CallStep(c)
      PROVE  TxStep
  <2>1. CASE Begin(c)
    BY <1>0, <2>1 DEF Begin, TxStep
  <2>2. CASE Commit(c)
    BY <2>2 DEF Commit, Effect, TxStep
  <2>3. CASE Refuse(c) \/ Work(c) \/ Return(c) \/ Raise(c) \/ Record(c) \/ RecordFails(c)
    BY <2>3 DEF Refuse, Work, Return, Raise, Record, RecordFails, TxStep
  <2>4. CASE RaiseAborted(c) \/ Close(c) \/ Retry(c)
    BY <1>0, <2>4 DEF RaiseAborted, Close, Retry, TxStep
  <2> QED BY <1>1, <2>1, <2>2, <2>3, <2>4 DEF CallStep
<1>2. ASSUME \/ Mint \/ Expire \/ Restart \/ UNCHANGED vars
             \/ \E c \in Calls, t \in 1 .. MaxMints : Send(c, t)
      PROVE  TxStep
  BY <1>2 DEF Mint, Expire, Restart, vars, Send, TxStep
<1>3. ASSUME OtherEnd \/ \E k \in Targets : OtherBegin(k)
      PROVE  TxStep
  BY <1>0, <1>3 DEF OtherEnd, OtherBegin, TxStep
<1> QED BY <1>1, <1>2, <1>3 DEF Next

(* A commit of values of the right type, by whoever.                        *)
LEMMA CommitTyped ==
  ASSUME TxTyped, NEW a \in Actors, NEW new, DOMAIN new \subseteq Targets,
         \A k \in DOMAIN new : new[k] \in [Calls -> Nat], Tx!Commit(a, new)
  PROVE  TxTyped'
<1>1. row' \in [Targets -> [Calls -> Nat]]
  BY DEF Tx!Commit, TxTyped
<1>2. snap' = [b \in Actors |-> IF b \in Tx!Overtaken(a, DOMAIN new) \cup {a}
                                THEN Tx!NoTx ELSE snap[b]]
  BY DEF Tx!Commit
<1>3. Tx!NoTx \in [{} -> [Calls -> Nat]]
  BY DEF Tx!NoTx
<1>4. \A b \in Actors : \E S \in SUBSET Targets : snap'[b] \in [S -> [Calls -> Nat]]
  BY <1>2, <1>3 DEF TxTyped
<1>5. snap' = [b \in Actors |-> snap'[b]]
  BY <1>2
<1>6. doomed' \subseteq Actors
  BY DEF Tx!Commit, Tx!Overtaken, TxTyped
<1> QED BY <1>1, <1>4, <1>5, <1>6 DEF TxTyped

LEMMA EffectTyped ==
  ASSUME TxTyped, NEW c \in Calls
  PROVE  /\ DOMAIN Effect(c) = DOMAIN snap[c] /\ DOMAIN snap[c] \subseteq Targets
         /\ \A k \in DOMAIN snap[c] :
              /\ snap[c][k] \in [Calls -> Nat]
              /\ Effect(c)[k] = [snap[c][k] EXCEPT ![c] = @ + 1]
              /\ Effect(c)[k] \in [Calls -> Nat]
<1>1. /\ DOMAIN snap[c] \subseteq Targets
      /\ \A k \in DOMAIN snap[c] : snap[c][k] \in [Calls -> Nat]
  BY DEF TxTyped, Actors
<1>2. \A f \in [Calls -> Nat] : [f EXCEPT ![c] = @ + 1] \in [Calls -> Nat]
  OBVIOUS
<1> QED BY <1>1, <1>2 DEF Effect

(* Whatever a step does to the transactions, types are kept ...             *)
LEMMA TxKept ==
  ASSUME TxTyped, TxStep
  PROVE  TxTyped'
<1>1. ASSUME NEW a \in Actors, NEW k \in Targets, Tx!Begin(a, {k})
      PROVE  TxTyped'
  <2>1. /\ snap' = [snap EXCEPT ![a] = [i \in {k} |-> row[i]]]
        /\ UNCHANGED <<row, doomed>>
    BY <1>1 DEF Tx!Begin
  <2>2. [i \in {k} |-> row[i]] \in [{k} -> [Calls -> Nat]]
    BY DEF TxTyped
  <2>3. snap' = [b \in Actors |-> snap'[b]]
    BY <2>1 DEF TxTyped
  <2>4. \A b \in Actors : snap'[b] = snap[b] \/ snap'[b] = [i \in {k} |-> row[i]]
    BY <2>1 DEF TxTyped
  <2>5. \A b \in Actors : \E S \in SUBSET Targets : snap'[b] \in [S -> [Calls -> Nat]]
    BY <2>2, <2>4 DEF TxTyped
  <2> QED BY <2>1, <2>3, <2>5 DEF TxTyped
<1>2. ASSUME NEW c \in Calls, Tx!Commit(c, Effect(c))
      PROVE  TxTyped'
  BY <1>2, EffectTyped, CommitTyped DEF Actors
<1>3. ASSUME Tx!Commit(Others, snap[Others])
      PROVE  TxTyped'
  <2>1. /\ Others \in Actors /\ DOMAIN snap[Others] \subseteq Targets
        /\ \A k \in DOMAIN snap[Others] : snap[Others][k] \in [Calls -> Nat]
    BY DEF TxTyped, Actors
  <2> QED BY <1>3, <2>1, CommitTyped
<1>4. ASSUME NEW a \in Actors, Tx!Conflict(a)
      PROVE  TxTyped'
  BY <1>4 DEF Tx!Conflict, TxTyped
<1>5. ASSUME \/ Tx!RollbackAll
             \/ \E a \in Actors : Tx!End(a)
      PROVE  TxTyped'
  <2>1. /\ row' = row /\ doomed' \subseteq doomed
        /\ snap' = [b \in Actors |-> snap'[b]]
        /\ \A b \in Actors : snap'[b] = snap[b] \/ snap'[b] = Tx!NoTx
    BY <1>5 DEF Tx!End, Tx!RollbackAll, TxTyped
  <2>2. Tx!NoTx \in [{} -> [Calls -> Nat]]
    BY DEF Tx!NoTx
  <2> QED BY <2>1, <2>2 DEF TxTyped
<1>6. ASSUME UNCHANGED <<row, snap, doomed>>
      PROVE  TxTyped'
  BY <1>6 DEF TxTyped
<1> QED BY <1>1, <1>2, <1>3, <1>4, <1>5, <1>6 DEF TxStep

(* ... and whoever can still commit sees what is committed.                 *)
LEMMA CurrentKept ==
  ASSUME TxTyped, Tx!SnapshotCurrent, TxStep
  PROVE  Tx!SnapshotCurrent'
<1>1. ASSUME NEW a \in Actors, NEW new, Tx!Commit(a, new)
      PROVE  Tx!SnapshotCurrent'
  <2> SUFFICES ASSUME NEW b \in Actors, NEW k \in DOMAIN snap'[b]
               PROVE  snap'[b][k] = row'[k]
    BY DEF Tx!SnapshotCurrent
  <2>1. snap'[b] = snap[b] /\ b \notin Tx!Overtaken(a, DOMAIN new) \cup {a}
    BY <1>1 DEF Tx!Commit, Tx!NoTx
  <2>2. k \notin DOMAIN new
    BY <2>1 DEF Tx!Overtaken
  <2>3. k \in Targets
    BY <2>1 DEF TxTyped
  <2>4. row'[k] = row[k]
    BY <1>1, <2>2, <2>3 DEF Tx!Commit
  <2> QED BY <2>1, <2>4 DEF Tx!SnapshotCurrent
<1>2. ASSUME NEW a \in Actors, NEW k \in Targets, Tx!Begin(a, {k})
      PROVE  Tx!SnapshotCurrent'
  <2> SUFFICES ASSUME NEW b \in Actors, NEW i \in DOMAIN snap'[b]
               PROVE  snap'[b][i] = row[i] /\ row' = row
    BY DEF Tx!SnapshotCurrent
  <2>1. /\ row' = row
        /\ b # a => snap'[b] = snap[b]
        /\ snap'[a] = [j \in {k} |-> row[j]]
    BY <1>2 DEF Tx!Begin, TxTyped
  <2> QED BY <2>1 DEF Tx!SnapshotCurrent
<1>3. ASSUME \/ UNCHANGED <<row, snap, doomed>> \/ Tx!RollbackAll
             \/ \E a \in Actors : Tx!Conflict(a) \/ Tx!End(a)
      PROVE  Tx!SnapshotCurrent'
  <2>1. /\ row' = row
        /\ \A b \in Actors : snap'[b] = snap[b] \/ DOMAIN snap'[b] = {}
    BY <1>3 DEF Tx!RollbackAll, Tx!Conflict, Tx!End, Tx!NoTx, TxTyped
  <2> QED BY <2>1 DEF Tx!SnapshotCurrent
<1>4. \A c \in Calls : c \in Actors /\ Others \in Actors
  BY DEF Actors
<1>5. Others \in Actors
  BY DEF Actors
<1> QED BY <1>1, <1>2, <1>3, <1>4, <1>5 DEF TxStep

-----------------------------------------------------------------------------
(* What a step commits.  Another user's commit leaves every effect as it is; *)
(* a call's adds one to its own, on its own record.                         *)
LEMMA EffectCommitted ==
  ASSUME TxTyped, Tx!SnapshotCurrent, NEW c \in Calls, Tx!Commit(c, Effect(c)),
         DOMAIN snap[c] \subseteq {call[c].target}
  PROVE  /\ call[c].target \in Targets
         /\ row'[call[c].target][c] = row[call[c].target][c] + 1
         /\ \A k \in Targets, d \in Calls :
              row'[k][d] # row[k][d] => d = c /\ k = call[c].target
<1>1. DOMAIN snap[c] = {call[c].target} /\ call[c].target \in Targets
  BY EffectTyped DEF Tx!Commit
<1>2. snap[c][call[c].target] = row[call[c].target]
  BY <1>1 DEF Tx!SnapshotCurrent, Actors
<1>3. row' = [k \in Targets |-> IF k \in DOMAIN snap[c] THEN Effect(c)[k] ELSE row[k]]
  BY EffectTyped DEF Tx!Commit
<1>4. row'[call[c].target] = [row[call[c].target] EXCEPT ![c] = @ + 1]
  BY <1>1, <1>2, <1>3, EffectTyped
<1>5. row[call[c].target] \in [Calls -> Nat]
  BY <1>1 DEF TxTyped
<1> QED BY <1>1, <1>3, <1>4, <1>5

LEMMA SameCommitted ==
  ASSUME TxTyped, Tx!SnapshotCurrent, Tx!Commit(Others, snap[Others])
  PROVE  row' = row
BY DEF Tx!Commit, Tx!SnapshotCurrent, TxTyped, Actors

-----------------------------------------------------------------------------
(* The rest of the types.                                                  *)
LEMMA CallSet ==
  ASSUME CallsTyped, NEW c \in Calls, NEW x \in Call, call' = [call EXCEPT ![c] = x]
  PROVE  call' \in [Calls -> Call]
BY DEF CallsTyped

LEMMA CallsTypedByCall ==
  ASSUME TypeOK, NEW c \in Calls, Handled(c), CallStep(c)
  PROVE  CallsTyped'
<1>0. /\ CallsTyped /\ call[c] \in Call
      /\ call[c] = [pc |-> call[c].pc, token |-> call[c].token,
                    target |-> call[c].target, wrote |-> call[c].wrote,
                    outcome |-> call[c].outcome, tries |-> call[c].tries,
                    seen |-> call[c].seen]
  BY DEF TypeOK, CallsTyped, Call
<1>1. minted' = minted /\ valid' = valid /\ restarts' = restarts
  BY DEF CallStep, Begin, Refuse, Work, Return, Raise, RaiseAborted, Record, RecordFails,
         Commit, Close, Retry
<1>2. CASE Begin(c) \/ Refuse(c) \/ Work(c)
  <2>1. \/ call' = [call EXCEPT ![c] = [call[c] EXCEPT !.pc = "working", !.seen = valid]]
        \/ call' = [call EXCEPT ![c] = [call[c] EXCEPT !.pc = "refused"]]
        \/ call' = [call EXCEPT ![c] = [call[c] EXCEPT !.wrote = TRUE]]
    BY <1>0, <1>2 DEF Begin, Refuse, Work, CallsTyped
  <2>2. /\ [call[c] EXCEPT !.pc = "working", !.seen = valid] \in Call
        /\ [call[c] EXCEPT !.pc = "refused"] \in Call
        /\ [call[c] EXCEPT !.wrote = TRUE] \in Call
    BY <1>0 DEF Call, Over, CallsTyped
  <2>3. log' = log
    BY <1>2 DEF Begin, Refuse, Work
  <2> QED BY <1>0, <1>1, <2>1, <2>2, <2>3, CallSet DEF CallsTyped
<1>3. CASE Return(c) \/ Raise(c) \/ RaiseAborted(c)
  <2>1. PICK o \in Outcomes :
          call' = [call EXCEPT ![c] = [call[c] EXCEPT !.pc = "auditing", !.outcome = o]]
    BY <1>0, <1>3 DEF Return, Raise, RaiseAborted, Settle, Settled, Outcome, Outcomes,
                      CallsTyped
  <2>2. [call[c] EXCEPT !.pc = "auditing", !.outcome = o] \in Call
    BY <1>0 DEF Call, Over
  <2>3. log' = log
    BY <1>3 DEF Return, Raise, RaiseAborted
  <2> QED BY <1>0, <1>1, <2>1, <2>2, <2>3, CallSet DEF CallsTyped
<1>4. CASE Record(c) \/ RecordFails(c)
  <2>1. PICK o \in Outcomes \cup {"unwritten"} : log' = [log EXCEPT ![c] = Append(@, o)]
    BY <1>4 DEF Record, RecordFails, Noted, Handled
  <2>2. Append(log[c], o) \in Seq(Outcomes \cup {"unwritten"})
    BY <1>0 DEF CallsTyped
  <2>3. call' = [call EXCEPT ![c] = [call[c] EXCEPT !.pc = "closing"]]
    BY <1>0, <1>4 DEF Record, RecordFails, CallsTyped
  <2>4. [call[c] EXCEPT !.pc = "closing"] \in Call
    BY <1>0 DEF Call, Over
  <2> QED BY <1>0, <1>1, <2>1, <2>2, <2>3, <2>4, CallSet DEF CallsTyped
<1>5. CASE Commit(c) \/ Close(c)
  <2>1. call' = [call EXCEPT ![c] = [call[c] EXCEPT !.pc = "answered"]]
    BY <1>0, <1>5 DEF Commit, Close, CallsTyped
  <2>2. [call[c] EXCEPT !.pc = "answered"] \in Call
    BY <1>0 DEF Call, Over
  <2>3. log' = log
    BY <1>5 DEF Commit, Close
  <2> QED BY <1>0, <1>1, <2>1, <2>2, <2>3, CallSet DEF CallsTyped
<1>6. CASE Retry(c)
  <2>1. call[c].tries < MaxTries
    BY <1>6 DEF Retry, Handled
  <2>2. call[c].tries + 1 \in 0 .. MaxTries
    BY <1>0, <2>1, TriesAndMints DEF Call
  <2>4. \A pc \in {"sent", "faulted"}, n \in 0 .. MaxTries :
          [call[c] EXCEPT !.pc = pc, !.tries = n, !.wrote = FALSE] \in Call
    BY <1>0 DEF Call, Over
  <2>5. Again(call[c]) \in Call
    BY <2>2, <2>4 DEF Again
  <2>3. call' = [call EXCEPT ![c] = Again(call[c])] /\ log' = log
    BY <1>0, <1>6 DEF Retry, CallsTyped
  <2> QED BY <1>0, <1>1, <2>3, <2>5, CallSet DEF CallsTyped
<1> QED BY <1>2, <1>3, <1>4, <1>5, <1>6 DEF CallStep

LEMMA CallsTypedStep ==
  ASSUME TypeOK, \A c \in Calls : Handled(c), [Next]_vars
  PROVE  CallsTyped'
<1>0. CallsTyped
  BY TypeParts
<1>1. ASSUME NEW c \in Calls, CallStep(c)
      PROVE  CallsTyped'
  BY <1>1, CallsTypedByCall
<1>2. CASE Mint \/ Expire
  BY <1>0, <1>2, TriesAndMints DEF Mint, Expire, CallsTyped
<1>3. ASSUME NEW c \in Calls, NEW t \in 1 .. MaxMints, Send(c, t)
      PROVE  CallsTyped'
  <2>1. call[c] \in Call
    BY <1>0 DEF CallsTyped
  <2>2. [call[c] EXCEPT !.pc = "sent", !.token = t] \in Call
    <3>1. t \in 0 .. MaxMints
      BY TriesAndMints
    <3> QED BY <2>1, <3>1 DEF Call
  <2>3. /\ call' = [call EXCEPT ![c] = [call[c] EXCEPT !.pc = "sent", !.token = t]]
        /\ UNCHANGED <<minted, valid, log, restarts>>
    BY <1>0, <1>3 DEF Send, CallsTyped
  <2> QED BY <1>0, <2>2, <2>3, CallSet DEF CallsTyped
<1>4. CASE OtherEnd \/ \E k \in Targets : OtherBegin(k)
  BY <1>0, <1>4 DEF OtherEnd, OtherBegin, CallsTyped
<1>5. CASE Restart
  <2>1. /\ call' = [c \in Calls |-> IF call[c].pc \in {"none"} \cup Over THEN call[c]
                                    ELSE [call[c] EXCEPT !.pc = "lost", !.wrote = FALSE]]
        /\ UNCHANGED <<minted, valid, log>>
    BY <1>5 DEF Restart
  <2>2. \A c \in Calls : /\ call[c] \in Call
                         /\ [call[c] EXCEPT !.pc = "lost", !.wrote = FALSE] \in Call
    BY <1>0 DEF CallsTyped, Call, Over
  <2>3. \A c \in Calls : call'[c] \in Call
    BY <2>1, <2>2
  <2>4. call' \in [Calls -> Call]
    BY <2>1, <2>3
  <2>5. restarts' \in 0 .. MaxRestarts
    <3>1. restarts < MaxRestarts /\ restarts' = restarts + 1 /\ restarts \in 0 .. MaxRestarts
      BY <1>0, <1>5 DEF Restart, CallsTyped
    <3> QED BY <3>1, TriesAndMints
  <2> QED BY <1>0, <2>1, <2>4, <2>5 DEF CallsTyped
<1>6. CASE UNCHANGED vars
  BY <1>0, <1>6 DEF vars, CallsTyped
<1> QED BY <1>1, <1>2, <1>3, <1>4, <1>5, <1>6 DEF Next

-----------------------------------------------------------------------------
(* A call that is not the one that steps: its transaction is what it was, or *)
(* has been overtaken, and lost what it read.                               *)
LEMMA OthersHandled ==
  ASSUME NEW d \in Calls, Handled(d), call'[d] = call[d], log'[d] = log[d],
         \/ snap'[d] = snap[d] /\ (d \in doomed' <=> d \in doomed)
         \/ DOMAIN snap'[d] = {} /\ d \in doomed' /\ Tx!InTx(d)
  PROVE  Handled(d)'
BY DEF Handled, Tx!InTx

LEMMA OvertakenOrNot ==
  ASSUME TxTyped, NEW a \in Actors, NEW d \in Actors \ {a},
         \/ UNCHANGED <<row, snap, doomed>> \/ Tx!Conflict(a) \/ Tx!End(a)
         \/ \E new : Tx!Commit(a, new)
         \/ \E k \in Targets : Tx!Begin(a, {k})
  PROVE  \/ snap'[d] = snap[d] /\ (d \in doomed' <=> d \in doomed)
         \/ DOMAIN snap'[d] = {} /\ d \in doomed' /\ Tx!InTx(d)
<1>1. CASE UNCHANGED <<row, snap, doomed>> \/ Tx!Conflict(a) \/ Tx!End(a)
  BY <1>1 DEF Tx!Conflict, Tx!End, TxTyped
<1>2. ASSUME NEW k \in Targets, Tx!Begin(a, {k})
      PROVE  snap'[d] = snap[d] /\ doomed' = doomed
  BY <1>2 DEF Tx!Begin, TxTyped
<1>3. ASSUME NEW new, Tx!Commit(a, new)
      PROVE  \/ snap'[d] = snap[d] /\ (d \in doomed' <=> d \in doomed)
             \/ DOMAIN snap'[d] = {} /\ d \in doomed' /\ Tx!InTx(d)
  <2>1. CASE d \in Tx!Overtaken(a, DOMAIN new)
    BY <1>3, <2>1 DEF Tx!Commit, Tx!Overtaken, Tx!NoTx, Tx!InTx
  <2>2. CASE d \notin Tx!Overtaken(a, DOMAIN new)
    BY <1>3, <2>2 DEF Tx!Commit
  <2> QED BY <2>1, <2>2
<1> QED BY <1>1, <1>2, <1>3

(* A call's own step changes nothing of another call.                       *)
LEMMA HandledElsewhere ==
  ASSUME TypeOK, NEW c \in Calls, NEW d \in Calls \ {c}, Handled(d), CallStep(c)
  PROVE  Handled(d)'
<1>1. /\ call'[d] = call[d] /\ log'[d] = log[d]
  BY DEF CallStep, Begin, Refuse, Work, Return, Raise, RaiseAborted, Record, RecordFails,
         Commit, Close, Retry, Settle, TypeOK
<1>2. /\ TxTyped /\ c \in Actors /\ d \in Actors \ {c} /\ call[c].target \in Targets
  BY TypeParts DEF Actors, CallsTyped, Call
<1>3. \/ UNCHANGED <<row, snap, doomed>> \/ Tx!Conflict(c) \/ Tx!End(c)
      \/ \E new : Tx!Commit(c, new)
      \/ \E k \in Targets : Tx!Begin(c, {k})
  <2>1. CASE Commit(c)
    BY <2>1 DEF Commit
  <2>2. CASE Begin(c)
    BY <1>2, <2>2 DEF Begin
  <2>3. CASE RaiseAborted(c) \/ Close(c) \/ Retry(c)
    BY <2>3 DEF RaiseAborted, Close, Retry
  <2>4. CASE Refuse(c) \/ Work(c) \/ Return(c) \/ Raise(c) \/ Record(c) \/ RecordFails(c)
    BY <2>4 DEF Refuse, Work, Return, Raise, Record, RecordFails
  <2> QED BY <2>1, <2>2, <2>3, <2>4 DEF CallStep
<1>4. \/ snap'[d] = snap[d] /\ (d \in doomed' <=> d \in doomed)
      \/ DOMAIN snap'[d] = {} /\ d \in doomed' /\ Tx!InTx(d)
  BY <1>2, <1>3, OvertakenOrNot
<1> QED BY <1>1, <1>4, OthersHandled

(* Every step of the handler keeps what it knows of its own call.           *)
LEMMA HandledByStep ==
  ASSUME TypeOK, NEW c \in Calls, Handled(c), CallStep(c)
  PROVE  Handled(c)'
<1>0. /\ TxTyped /\ call[c] \in Call /\ c \in Actors /\ call[c].target \in Targets
      /\ call \in [Calls -> Call] /\ log[c] \in Seq(Outcomes \cup {"unwritten"})
      /\ log \in [Calls -> Seq(Outcomes \cup {"unwritten"})]
      /\ snap = [a \in Actors |-> snap[a]]
  BY TypeParts DEF CallsTyped, Call, Actors, TxTyped
<1>1. CASE Begin(c)
  <2>1. /\ call'[c] = [call[c] EXCEPT !.pc = "working", !.seen = valid] /\ log' = log
        /\ call[c].token = valid /\ call[c].pc = "sent"
    BY <1>0, <1>1 DEF Begin, Verified
  <2>2. /\ snap'[c] = [k \in {call[c].target} |-> row[k]]
        /\ c \notin doomed /\ doomed' = doomed
    BY <1>0, <1>1 DEF Begin, Tx!Begin, Tx!InTx
  <2>3. DOMAIN snap'[c] = {call[c].target}
    BY <2>2
  <2>4. /\ call'[c].pc = "working" /\ call'[c].seen = call'[c].token
        /\ call'[c].target = call[c].target /\ call'[c].tries = call[c].tries
    BY <1>0, <2>1 DEF Call
  <2>5. c \notin doomed'
    BY <2>2
  <2> QED BY <2>1, <2>3, <2>4, <2>5 DEF Handled, Tx!InTx, Busy
<1>2. CASE Refuse(c) \/ Work(c)
  <2>1. /\ UNCHANGED <<snap, doomed, log>>
        /\ \/ call'[c] = [call[c] EXCEPT !.pc = "refused"] /\ call[c].pc = "sent"
           \/ call'[c] = [call[c] EXCEPT !.wrote = TRUE] /\ call[c].pc = "working"
    BY <1>0, <1>2 DEF Refuse, Work
  <2>2. /\ \/ call'[c].pc = "refused" /\ call[c].pc = "sent"
           \/ call'[c].pc = call[c].pc /\ call[c].pc = "working"
        /\ call'[c].target = call[c].target /\ call'[c].tries = call[c].tries
        /\ call'[c].seen = call[c].seen /\ call'[c].token = call[c].token
    BY <1>0, <2>1 DEF Call
  <2> QED BY <2>1, <2>2 DEF Handled, Tx!InTx, Busy
<1>3. CASE Return(c) \/ Raise(c)
  <2>1. PICK o \in Outcomes :
          /\ call'[c] = [call[c] EXCEPT !.pc = "auditing", !.outcome = o]
          /\ call[c].pc = "working" /\ UNCHANGED <<snap, doomed, log>>
    BY <1>0, <1>3 DEF Return, Raise, Settle, Settled, Outcome, Outcomes
  <2>2. /\ call'[c].pc = "auditing" /\ call'[c].outcome = o
        /\ call'[c].target = call[c].target /\ call'[c].tries = call[c].tries
        /\ call'[c].seen = call[c].seen /\ call'[c].token = call[c].token
    BY <1>0, <2>1 DEF Call
  <2> QED BY <2>1, <2>2 DEF Handled, Tx!InTx, Busy
<1>4. CASE RaiseAborted(c)
  <2>1. /\ call'[c] = [call[c] EXCEPT !.pc = "auditing", !.outcome = "failure"]
        /\ call[c].pc = "working" /\ log' = log
        /\ snap'[c] = Tx!NoTx /\ c \notin doomed'
    BY <1>0, <1>4 DEF RaiseAborted, Settle, Settled, Outcome, Tx!End
  <2>2. /\ call'[c].pc = "auditing" /\ call'[c].outcome = "failure"
        /\ call'[c].target = call[c].target /\ call'[c].tries = call[c].tries
        /\ call'[c].seen = call[c].seen /\ call'[c].token = call[c].token
    BY <1>0, <2>1 DEF Call
  <2> QED BY <2>1, <2>2 DEF Handled, Tx!InTx, Tx!NoTx, Busy, Outcomes
<1>5. CASE Record(c) \/ RecordFails(c)
  <2>1. /\ call'[c] = [call[c] EXCEPT !.pc = "closing"]
        /\ call[c].pc = "auditing" /\ UNCHANGED <<snap, doomed>>
        /\ \E o \in {call[c].outcome, "unwritten"} : log'[c] = Append(log[c], o)
        /\ call[c].outcome \in Outcomes
    BY <1>0, <1>5 DEF Record, RecordFails, Noted, Handled
  <2>2. /\ call'[c].pc = "closing" /\ call'[c].outcome = call[c].outcome
        /\ call'[c].target = call[c].target /\ call'[c].tries = call[c].tries
        /\ call'[c].seen = call[c].seen /\ call'[c].token = call[c].token
    BY <1>0, <2>1 DEF Call
  <2>3. /\ Len(log'[c]) = call[c].tries + 1
        /\ log'[c][call[c].tries + 1] \in {call[c].outcome, "unwritten"}
    <3>1. PICK o \in {call[c].outcome, "unwritten"} : log'[c] = Append(log[c], o)
      BY <2>1
    <3>2. o \in Outcomes \cup {"unwritten"}
      BY <2>1
    <3>3. /\ Len(Append(log[c], o)) = Len(log[c]) + 1
          /\ Append(log[c], o)[Len(log[c]) + 1] = o
      BY <1>0, <3>2, AppendProperties
    <3>4. Len(log[c]) = call[c].tries
      BY <2>1 DEF Handled
    <3> QED BY <3>1, <3>3, <3>4
  <2> QED BY <2>1, <2>2, <2>3 DEF Handled, Tx!InTx, Busy
<1>6. CASE Commit(c) \/ Close(c)
  <2>1. /\ call'[c] = [call[c] EXCEPT !.pc = "answered"]
        /\ call[c].pc = "closing" /\ log' = log
    BY <1>0, <1>6 DEF Commit, Close
  <2>2. DOMAIN snap'[c] = {} /\ c \notin doomed'
    <3>1. CASE Commit(c)
      <4>1. Tx!Commit(c, Effect(c)) /\ DOMAIN snap[c] # {}
        BY <3>1 DEF Commit, Effect, Tx!Commit
      <4>2. c \notin doomed
        BY <4>1 DEF Handled
      <4> QED BY <1>0, <4>1, <4>2 DEF Tx!Commit, Tx!Overtaken, Tx!NoTx
    <3>2. CASE Close(c)
      BY <1>0, <3>2 DEF Close, Tx!End, Tx!InTx, Tx!NoTx
    <3> QED BY <1>6, <3>1, <3>2
  <2>3. /\ call'[c].pc = "answered"
        /\ call'[c].target = call[c].target /\ call'[c].tries = call[c].tries
    BY <1>0, <2>1 DEF Call
  <2> QED BY <2>1, <2>2, <2>3 DEF Handled, Tx!InTx, Busy
<1>7. CASE Retry(c)
  <2>1. /\ call'[c] = Again(call[c]) /\ log' = log /\ snap' = snap
        /\ c \in doomed /\ c \notin doomed' /\ DOMAIN snap[c] = {}
    BY <1>0, <1>7 DEF Retry, Tx!Conflict, Handled
  <2>2. /\ call'[c].pc \in {"sent", "faulted"} /\ call'[c].target = call[c].target
        /\ call'[c].tries = call[c].tries + 1
        /\ call'[c].pc = "sent" => call[c].tries + 1 < MaxTries
    BY <1>0, <2>1 DEF Again, Call
  <2>3. Len(log'[c]) = call'[c].tries
    BY <1>7, <2>1, <2>2 DEF Retry, Handled
  <2>4. DOMAIN snap'[c] = {} /\ c \notin doomed'
    BY <2>1
  <2> QED BY <2>2, <2>3, <2>4 DEF Handled, Tx!InTx, Busy
<1> QED BY <1>1, <1>2, <1>3, <1>4, <1>5, <1>6, <1>7 DEF CallStep

LEMMA HandledStep ==
  ASSUME TypeOK, \A c \in Calls : Handled(c), [Next]_vars, NEW d \in Calls
  PROVE  Handled(d)'
<1>0. /\ TxTyped /\ call[d] \in Call /\ d \in Actors \ {Others} /\ Others \in Actors
      /\ call \in [Calls -> Call] /\ snap = [a \in Actors |-> snap[a]]
  BY TypeParts, CallsAreNotOthers DEF CallsTyped, Actors, TxTyped
<1>1. ASSUME NEW c \in Calls, CallStep(c)
      PROVE  Handled(d)'
  BY <1>1, HandledByStep, HandledElsewhere
<1>2. CASE Mint \/ Expire \/ UNCHANGED vars
  BY <1>2, OthersHandled DEF Mint, Expire, vars
<1>3. ASSUME NEW c \in Calls, NEW t \in 1 .. MaxMints, Send(c, t)
      PROVE  Handled(d)'
  <2>1. UNCHANGED <<snap, doomed, log>> /\ c # d => call'[d] = call[d]
    BY <1>0, <1>3 DEF Send
  <2>2. CASE c = d
    <3>1. /\ call'[d] = [call[d] EXCEPT !.pc = "sent", !.token = t]
          /\ call[d].pc = "none" /\ UNCHANGED <<snap, doomed, log>>
      BY <1>0, <1>3, <2>2 DEF Send
    <3>2. /\ call'[d].pc = "sent" /\ call'[d].target = call[d].target
          /\ call'[d].tries = call[d].tries
      BY <1>0, <3>1 DEF Call
    <3> QED BY <3>1, <3>2 DEF Handled, Tx!InTx, Busy
  <2>3. CASE c # d
    BY <1>3, <2>1, <2>3, OthersHandled DEF Send
  <2> QED BY <2>2, <2>3
<1>4. CASE OtherEnd \/ \E k \in Targets : OtherBegin(k)
  <2>1. call' = call /\ log' = log
    BY <1>4 DEF OtherEnd, OtherBegin
  <2>2. \/ Tx!Conflict(Others)
        \/ \E new : Tx!Commit(Others, new)
        \/ \E k \in Targets : Tx!Begin(Others, {k})
    BY <1>4 DEF OtherEnd, OtherBegin
  <2>3. \/ snap'[d] = snap[d] /\ (d \in doomed' <=> d \in doomed)
        \/ DOMAIN snap'[d] = {} /\ d \in doomed' /\ Tx!InTx(d)
    BY <1>0, <2>2, OvertakenOrNot
  <2> QED BY <2>1, <2>3, OthersHandled
<1>5. CASE Restart
  <2>1. /\ \/ call[d].pc \in {"none"} \cup Over /\ call'[d] = call[d]
           \/ call'[d] = [call[d] EXCEPT !.pc = "lost", !.wrote = FALSE]
              /\ call[d].pc \notin {"none"} \cup Over
        /\ log' = log
    BY <1>5 DEF Restart
  <2>2. DOMAIN snap'[d] = {} /\ d \notin doomed'
    BY <1>0, <1>5 DEF Restart, Tx!RollbackAll, Tx!NoTx
  <2>3. /\ call'[d].pc \in {"none"} \cup Over /\ call'[d].tries = call[d].tries
        /\ call'[d].pc \in {call[d].pc, "lost"}
        /\ call'[d].pc = "lost" \/ call[d].pc = call'[d].pc
        /\ call'[d].pc = "faulted" <=> call[d].pc = "faulted"
    BY <1>0, <2>1 DEF Call, Over
  <2> QED BY <2>1, <2>2, <2>3 DEF Handled, Tx!InTx, Busy, Over
<1> QED BY <1>1, <1>2, <1>3, <1>4, <1>5 DEF Next

-----------------------------------------------------------------------------
(* An effect reaches the database at the moment of its answer, once.        *)
LEMMA EffectSteps ==
  ASSUME Inv, [Next]_vars
  PROVE  \/ \E c \in Calls :
              /\ Commit(c) /\ call[c].target \in Targets
              /\ row'[call[c].target][c] = row[call[c].target][c] + 1
              /\ \A k \in Targets, d \in Calls :
                   row'[k][d] # row[k][d] => d = c /\ k = call[c].target
         \/ row' = row /\ ~ \E c \in Calls : Commit(c)
<1>0. /\ TxTyped /\ Tx!SnapshotCurrent /\ TxStep
      /\ \A c \in Calls : DOMAIN snap[c] \subseteq {call[c].target}
  BY TypeParts, TxSteps DEF Inv, Handled
<1>1. CASE \E c \in Calls : Commit(c)
  <2>1. PICK c \in Calls : Commit(c)
    BY <1>1
  <2>2. Tx!Commit(c, Effect(c))
    BY <2>1 DEF Commit, Effect
  <2> QED BY <1>0, <2>1, <2>2, EffectCommitted
<1>2. CASE ~ \E c \in Calls : Commit(c)
  <2>1. \A c \in Calls : CallStep(c) => row' = row
    BY <1>2 DEF CallStep, Begin, Refuse, Work, Return, Raise, RaiseAborted, Record,
                RecordFails, Close, Retry, Tx!Begin, Tx!End, Tx!Conflict
  <2>2. OtherEnd => row' = row
    BY <1>0, SameCommitted DEF OtherEnd, Tx!Conflict
  <2>3. Mint \/ Expire \/ Restart \/ UNCHANGED vars => row' = row
    BY DEF Mint, Expire, Restart, vars, Tx!RollbackAll
  <2>4. (\E k \in Targets : OtherBegin(k)) \/ (\E c \in Calls, t \in 1 .. MaxMints : Send(c, t))
          => row' = row
    BY DEF OtherBegin, Send, Tx!Begin
  <2> QED BY <1>2, <2>1, <2>2, <2>3, <2>4 DEF Next
<1> QED BY <1>1, <1>2

LEMMA EffectsStep ==
  ASSUME Inv, [Next]_vars
  PROVE  EffectsWithAnswers'
<1>0. /\ call \in [Calls -> Call] /\ row \in [Targets -> [Calls -> Nat]]
      /\ EffectsWithAnswers
  BY DEF Inv, TypeOK
<1>1. ASSUME NEW c \in Calls, Commit(c), call[c].target \in Targets,
             row'[call[c].target][c] = row[call[c].target][c] + 1,
             \A k \in Targets, d \in Calls :
               row'[k][d] # row[k][d] => d = c /\ k = call[c].target
      PROVE  EffectsWithAnswers'
  <2>1. /\ call[c].pc = "closing" /\ call'[c].pc = "answered"
        /\ call'[c].target = call[c].target
        /\ \A d \in Calls \ {c} : call'[d] = call[d]
    <3>1. call' = [call EXCEPT ![c] = [call[c] EXCEPT !.pc = "answered"]]
      BY <1>0, <1>1 DEF Commit
    <3>2. call[c].pc = "closing" /\ call[c] \in Call
      BY <1>0, <1>1 DEF Commit
    <3> QED BY <1>0, <3>1, <3>2 DEF Call
  <2>2. \A k \in Targets : row[k][c] = 0
    BY <1>0, <2>1 DEF EffectsWithAnswers
  <2>3. row'[call[c].target][c] = 1
    BY <1>1, <2>2
  <2>4. ASSUME NEW d \in Calls
        PROVE  /\ \A k \in Targets :
                    row'[k][d] # 0 => row'[k][d] = 1 /\ call'[d].pc = "answered"
               /\ call'[d].pc = "answered" /\ call'[d].outcome = "success" /\ call'[d].wrote
                    => row'[call'[d].target][d] = 1
    <3>1. CASE d = c
      BY <1>1, <2>1, <2>2, <2>3, <3>1
    <3>2. CASE d # c
      <4>1. call'[d] = call[d] /\ \A k \in Targets : row'[k][d] = row[k][d]
        BY <1>1, <2>1, <3>2
      <4>2. call[d].target \in Targets
        BY <1>0 DEF Call
      <4> QED BY <1>0, <4>1, <4>2 DEF EffectsWithAnswers
    <3> QED BY <3>1, <3>2
  <2> QED BY <2>4 DEF EffectsWithAnswers
<1>2. ASSUME row' = row, ~ \E c \in Calls : Commit(c)
      PROVE  EffectsWithAnswers'
  <2> SUFFICES ASSUME NEW d \in Calls
               PROVE  /\ call[d].pc = "answered" => call'[d] = call[d]
                      /\ call'[d].pc = "answered" /\ call[d].pc # "answered" =>
                           /\ call'[d].outcome = call[d].outcome
                           /\ call'[d].outcome = "success" => ~call'[d].wrote
    BY <1>0, <1>2 DEF EffectsWithAnswers
  <2>1. ASSUME NEW c \in Calls, CallStep(c), c # d
        PROVE  call'[d] = call[d]
    BY <1>0, <2>1 DEF CallStep, Begin, Refuse, Work, Return, Raise, RaiseAborted, Record,
                      RecordFails, Commit, Close, Retry, Settle
  <2>2. CASE CallStep(d)
    <3>1. CASE Close(d)
      <4>1. /\ call'[d] = [call[d] EXCEPT !.pc = "answered"] /\ call[d] \in Call
            /\ call[d].pc = "closing"
        BY <1>0, <3>1 DEF Close
      <4>2. call[d].outcome = "success" => ~call[d].wrote
        BY <3>1, <4>1 DEF Close, Inv, Handled
      <4> QED BY <4>1, <4>2 DEF Call
    <3>2. CASE Begin(d) \/ Refuse(d) \/ Work(d) \/ Return(d) \/ Raise(d) \/ RaiseAborted(d)
      <4>1. call[d].pc \in {"sent", "working"} /\ call'[d].pc # "answered"
        BY <1>0, <3>2 DEF Begin, Refuse, Work, Return, Raise, RaiseAborted, Settle, Settled, Call
      <4> QED BY <4>1
    <3>3. CASE Record(d) \/ RecordFails(d) \/ Retry(d)
      <4>1. call[d].pc \in {"auditing", "closing"} /\ call'[d].pc # "answered"
        BY <1>0, <3>3 DEF Record, RecordFails, Retry, Again, Call
      <4> QED BY <4>1
    <3> QED BY <1>2, <2>2, <3>1, <3>2, <3>3 DEF CallStep
  <2>3. ASSUME NEW c \in Calls, NEW t \in 1 .. MaxMints, Send(c, t)
        PROVE  \/ call'[d] = call[d]
               \/ call[d].pc = "none" /\ call'[d].pc = "sent"
    BY <1>0, <2>3 DEF Send, Call
  <2>4. CASE Mint \/ Expire \/ OtherEnd \/ (\E k \in Targets : OtherBegin(k)) \/ UNCHANGED vars
    BY <2>4 DEF Mint, Expire, OtherEnd, OtherBegin, vars
  <2>5. CASE Restart
    BY <1>0, <2>5 DEF Restart, Call, Over
  <2> QED BY <2>1, <2>2, <2>3, <2>4, <2>5 DEF Next
<1> QED BY <1>1, <1>2, EffectSteps

-----------------------------------------------------------------------------
LEMMA InvInit == Init => Inv
<1> SUFFICES ASSUME Init
             PROVE  Inv
  OBVIOUS
<1>1. TxTyped /\ Tx!SnapshotCurrent
  <2>1. /\ snap = [a \in Actors |-> Tx!NoTx] /\ doomed = {}
        /\ row = [k \in Targets |-> [c \in Calls |-> 0]]
    BY DEF Init, Tx!TxInit
  <2>2. Tx!NoTx \in [{} -> [Calls -> Nat]]
    BY DEF Tx!NoTx
  <2> QED BY <2>1, <2>2 DEF TxTyped, Tx!SnapshotCurrent
<1>2. \A c \in Calls : \E k \in Targets :
        call[c] = [pc |-> "none", token |-> 0, target |-> k, wrote |-> FALSE,
                   outcome |-> "none", tries |-> 0, seen |-> 0]
  BY DEF Init
<1>0. ASSUME NEW c \in Calls
      PROVE  call[c].pc = "none" /\ call[c].tries = 0
  <2>1. PICK k \in Targets :
          call[c] = [pc |-> "none", token |-> 0, target |-> k, wrote |-> FALSE,
                     outcome |-> "none", tries |-> 0, seen |-> 0]
    BY <1>2
  <2> QED BY <2>1
<1>3. CallsTyped
  <2>1. ASSUME NEW c \in Calls
        PROVE  call[c] \in Call
    <3>1. PICK k \in Targets :
            call[c] = [pc |-> "none", token |-> 0, target |-> k, wrote |-> FALSE,
                       outcome |-> "none", tries |-> 0, seen |-> 0]
      BY <1>2
    <3>2. 0 \in 0 .. MaxMints /\ 0 \in 0 .. MaxTries
      BY TriesAndMints
    <3> QED BY <3>1, <3>2 DEF Call
  <2>2. call = [c \in Calls |-> call[c]]
    BY DEF Init
  <2>3. call \in [Calls -> Call]
    BY <2>1, <2>2
  <2>4. << >> \in Seq(Outcomes \cup {"unwritten"})
    OBVIOUS
  <2>5. log \in [Calls -> Seq(Outcomes \cup {"unwritten"})]
    BY <2>4 DEF Init
  <2> QED BY <2>3, <2>5, TriesAndMints DEF CallsTyped, Init
<1>4. \A c \in Calls : Handled(c)
  <2> SUFFICES ASSUME NEW c \in Calls
               PROVE  Handled(c)
    OBVIOUS
  <2>1. DOMAIN snap[c] = {} /\ c \notin doomed
    BY DEF Init, Tx!TxInit, Tx!NoTx, Actors
  <2>2. Len(log[c]) = 0 /\ call[c].tries = 0 /\ call[c].pc = "none"
    BY DEF Init
  <2> QED BY <1>0, <2>1, <2>2, TriesAndMints DEF Handled, Tx!InTx, Busy
<1>5. EffectsWithAnswers
  <2>1. \A k \in Targets, c \in Calls : row[k][c] = 0
    BY DEF Init
  <2> QED BY <1>0, <2>1 DEF EffectsWithAnswers
<1> QED BY <1>1, <1>3, <1>4, <1>5, TypeParts DEF Inv

LEMMA InvStep == Inv /\ [Next]_vars => Inv'
<1> SUFFICES ASSUME Inv, [Next]_vars
             PROVE  Inv'
  OBVIOUS
<1>1. TxTyped /\ TypeOK /\ TxStep
  BY TypeParts, TxSteps DEF Inv
<1>2. TxTyped' /\ Tx!SnapshotCurrent'
  BY <1>1, TxKept, CurrentKept DEF Inv
<1>3. CallsTyped'
  BY CallsTypedStep DEF Inv
<1>4. TypeOK'
  BY <1>2, <1>3 DEF TypeOK, TxTyped, CallsTyped
<1>5. \A c \in Calls : Handled(c)'
  BY HandledStep DEF Inv
<1>6. EffectsWithAnswers'
  BY EffectsStep
<1> QED BY <1>2, <1>4, <1>5, <1>6 DEF Inv

LEMMA InvAlways == Spec => []Inv
BY InvInit, InvStep, PTL DEF Spec

(* Every variable keeps its type, whatever calls, tokens, conflicts and     *)
(* restarts follow one another.                                            *)
THEOREM CallTypesKept == Spec => []TypeOK
<1>1. Inv => TypeOK
  BY DEF Inv
<1> QED BY <1>1, InvAlways, PTL

(* Of an answered call the log has heard once for every try, and last of    *)
(* the try that was answered, for any number of tries and restarts.         *)
THEOREM LogAlwaysTellsAnswer == Spec => []LogTellsAnswer
<1>1. Inv => LogTellsAnswer
  BY DEF Inv, Handled, LogTellsAnswer
<1> QED BY <1>1, InvAlways, PTL

(* What the bridge is told is what the database has: a success that wrote is*)
(* there once, a refused call or one given up is not.                       *)
THEOREM AnswersAlwaysTrue == Spec => []AnswersTrue
<1>1. Inv => AnswersTrue
  BY DEF Inv, EffectsWithAnswers, AnswersTrue
<1> QED BY <1>1, InvAlways, PTL

(* Every effect is committed by a transaction that began under the token of *)
(* its own run.                                                            *)
THEOREM EffectsUnderTokens == Spec => EffectUnderToken
<1>1. Inv /\ [Next]_vars
        => [\A k \in Targets, c \in Calls :
              row'[k][c] # row[k][c] => call[c].seen = call[c].token]_vars
  <2> SUFFICES ASSUME Inv, [Next]_vars, NEW k \in Targets, NEW c \in Calls,
                      row'[k][c] # row[k][c]
               PROVE  call[c].seen = call[c].token
    OBVIOUS
  <2>1. Commit(c)
    BY EffectSteps
  <2>2. call[c].pc = "closing"
    BY <2>1 DEF Commit
  <2> QED BY <2>2 DEF Inv, Handled, Busy
<1> QED BY <1>1, InvAlways, PTL DEF Spec, EffectUnderToken

-----------------------------------------------------------------------------
(* What a step does to a call, as CallPromise sees it.                      *)
VerdictOf(c) == IF call[c].pc = "answered" THEN call[c].outcome
                ELSE IF call[c].pc \in Over THEN "dropped" ELSE "open"
Known(c) == log[c] # << >>
SameVerdict(c) == VerdictOf(c)' = VerdictOf(c)

(* Before a call is answered, the log has heard of it.                      *)
LEMMA KnownBeforeCommit ==
  ASSUME NEW c \in Calls, call[c] \in Call, Handled(c), call[c].pc = "closing"
  PROVE  Known(c)
<1>1. Len(log[c]) = call[c].tries + 1 /\ call[c].tries \in Nat
  BY DEF Handled, Call
<1>2. Len(<< >>) = 0
  OBVIOUS
<1> QED BY <1>1, <1>2 DEF Known

LEMMA PromiseStutters ==
  ASSUME UNCHANGED row, \A c \in Calls : SameVerdict(c) /\ Known(c)' = Known(c)
  PROVE  UNCHANGED Promise!vars
BY DEF Promise!vars, SameVerdict, VerdictOf, Known

LEMMA PromiseNotes ==
  ASSUME NEW c \in Calls, UNCHANGED row, \A d \in Calls : SameVerdict(d),
         VerdictOf(c) = "open", Known(c)', \A d \in Calls \ {c} : Known(d)' = Known(d)
  PROVE  Promise!Next
<1>1. Promise!Note(c)
  BY DEF Promise!Note, SameVerdict, VerdictOf, Known
<1> QED BY <1>1 DEF Promise!Next

LEMMA PromiseAnswers ==
  ASSUME NEW c \in Calls, NEW K \in {{}} \cup {{k} : k \in Targets},
         VerdictOf(c) = "open", Known(c), VerdictOf(c)' \in Outcomes,
         \A d \in Calls \ {c} : SameVerdict(d), \A d \in Calls : Known(d)' = Known(d),
         \A k \in Targets : row'[k][c] = IF k \in K THEN row[k][c] + 1 ELSE row[k][c],
         \A k \in Targets, d \in Calls \ {c} : row'[k][d] = row[k][d]
  PROVE  Promise!Next
<1>1. ASSUME NEW v \in Outcomes, VerdictOf(c)' = v
      PROVE  Promise!Answer(c, v, K)
  <2> DEFINE effect == [d \in Calls |-> [k \in Targets |-> row[k][d]]]
  <2>1. effect' = [d \in Calls |-> [k \in Targets |-> row'[k][d]]]
    OBVIOUS
  <2>2. ASSUME NEW d \in Calls
        PROVE  [k \in Targets |-> row'[k][d]]
                 = IF d = c THEN [k \in Targets |-> IF k \in K THEN effect[c][k] + 1
                                                    ELSE effect[c][k]]
                   ELSE effect[d]
    <3>1. CASE d = c
      BY <3>1
    <3>2. CASE d # c
      BY <3>2
    <3> QED BY <3>1, <3>2
  <2>3. effect' = [effect EXCEPT ![c] = [k \in Targets |-> IF k \in K THEN effect[c][k] + 1
                                                           ELSE effect[c][k]]]
    BY <2>1, <2>2
  <2>4. {d \in Calls : Known(d)}' = {d \in Calls : Known(d)} /\ c \in {d \in Calls : Known(d)}
    OBVIOUS
  <2>5. /\ [d \in Calls |-> VerdictOf(d)]' = [[d \in Calls |-> VerdictOf(d)] EXCEPT ![c] = v]
        /\ [d \in Calls |-> VerdictOf(d)][c] = "open"
    BY <1>1 DEF SameVerdict
  <2> QED BY <2>3, <2>4, <2>5 DEF Promise!Answer, VerdictOf, Known
<1> QED BY <1>1 DEF Promise!Next, Outcomes

LEMMA PromiseDrops ==
  ASSUME NEW C \in SUBSET Calls, UNCHANGED row, \A d \in Calls : Known(d)' = Known(d),
         \A c \in C : VerdictOf(c) = "open" /\ VerdictOf(c)' = "dropped",
         \A c \in Calls \ C : SameVerdict(c)
  PROVE  Promise!Next
<1>1. Promise!Drop(C)
  BY DEF Promise!Drop, SameVerdict, VerdictOf, Known
<1> QED BY <1>1 DEF Promise!Next

PromiseStep == Promise!Next \/ UNCHANGED Promise!vars

(* The steps of one call that commit nothing.                               *)
LEMMA PromiseOfCall ==
  ASSUME Inv, NEW c \in Calls, CallStep(c), UNCHANGED row, ~Commit(c)
  PROVE  PromiseStep
<1>0. /\ call \in [Calls -> Call] /\ call[c] \in Call
      /\ log \in [Calls -> Seq(Outcomes \cup {"unwritten"})]
      /\ Handled(c)
  BY DEF Inv, TypeOK
<1>1. \A d \in Calls \ {c} : SameVerdict(d) /\ Known(d)' = Known(d)
  <2>1. \A d \in Calls \ {c} : call'[d] = call[d] /\ log'[d] = log[d]
    BY <1>0 DEF CallStep, Begin, Refuse, Work, Return, Raise, RaiseAborted, Record,
                RecordFails, Commit, Close, Retry, Settle
  <2> QED BY <2>1 DEF SameVerdict, VerdictOf, Known
<1>2. ASSUME call[c].pc \notin Over, call'[c].pc \notin Over, log' = log
      PROVE  PromiseStep
  <2>1. SameVerdict(c) /\ Known(c)' = Known(c)
    BY <1>2 DEF SameVerdict, VerdictOf, Known, Over
  <2> QED BY <1>1, <2>1, PromiseStutters DEF PromiseStep
<1>3. ASSUME call[c].pc \notin Over, call'[c].pc \in Over \ {"answered"}, log' = log
      PROVE  PromiseStep
  <2>1. VerdictOf(c) = "open" /\ VerdictOf(c)' = "dropped"
    BY <1>3 DEF VerdictOf, Over
  <2>2. \A d \in Calls : Known(d)' = Known(d)
    BY <1>3 DEF Known
  <2>3. {c} \in SUBSET Calls
    OBVIOUS
  <2> QED BY <1>1, <2>1, <2>2, <2>3, PromiseDrops DEF PromiseStep
<1>4. CASE Begin(c) \/ Work(c)
  <2>1. call[c].pc \notin Over /\ call'[c].pc \notin Over /\ log' = log
    BY <1>0, <1>4 DEF Begin, Work, Call, Over
  <2> QED BY <1>2, <2>1
<1>5. CASE Return(c) \/ Raise(c) \/ RaiseAborted(c)
  <2>1. call[c].pc = "working" /\ log' = log
    BY <1>5 DEF Return, Raise, RaiseAborted
  <2>2. \E o : call'[c] = [call[c] EXCEPT !.pc = "auditing", !.outcome = o]
    BY <1>0, <1>5 DEF Return, Raise, RaiseAborted, Settle, Settled
  <2>3. call'[c].pc = "auditing"
    BY <1>0, <2>2 DEF Call
  <2> QED BY <1>2, <2>1, <2>3 DEF Over
<1>6. CASE Refuse(c)
  <2>1. call[c].pc = "sent" /\ call'[c].pc = "refused" /\ log' = log
    BY <1>0, <1>6 DEF Refuse, Call
  <2> QED BY <1>3, <2>1 DEF Over
<1>7. CASE Retry(c)
  <2>1. call[c].pc = "closing" /\ call'[c].pc \in {"sent", "faulted"} /\ log' = log
    BY <1>0, <1>7 DEF Retry, Again, Call
  <2> QED BY <1>2, <1>3, <2>1 DEF Over
<1>8. CASE Record(c) \/ RecordFails(c)
  <2>1. call[c].pc = "auditing" /\ call'[c].pc = "closing"
    BY <1>0, <1>8 DEF Record, RecordFails, Call
  <2>2. PICK o \in Outcomes \cup {"unwritten"} : log' = [log EXCEPT ![c] = Append(@, o)]
    BY <1>0, <1>8, <2>1 DEF Record, RecordFails, Noted, Handled
  <2>3. Known(c)'
    <3>1. log'[c] = Append(log[c], o) /\ log[c] \in Seq(Outcomes \cup {"unwritten"})
      BY <1>0, <2>2
    <3>2. Len(log'[c]) = Len(log[c]) + 1 /\ Len(log[c]) \in Nat
      BY <3>1
    <3>3. log'[c] # << >>
      BY <3>2
    <3> QED BY <3>3 DEF Known
  <2>4. VerdictOf(c) = "open" /\ SameVerdict(c)
    BY <2>1 DEF VerdictOf, SameVerdict, Over
  <2>5. \A d \in Calls : SameVerdict(d)
    BY <1>1, <2>4
  <2> QED BY <1>1, <2>3, <2>4, <2>5, PromiseNotes DEF PromiseStep
<1>9. CASE Close(c)
  <2>1. call[c].pc = "closing" /\ call'[c].pc = "answered" /\ log' = log
        /\ call'[c].outcome = call[c].outcome
    BY <1>0, <1>9 DEF Close, Call
  <2>2. VerdictOf(c) = "open" /\ Known(c) /\ VerdictOf(c)' \in Outcomes
    BY <1>0, <2>1, KnownBeforeCommit DEF VerdictOf, Handled, Over
  <2>3. \A d \in Calls : Known(d)' = Known(d)
    BY <2>1 DEF Known
  <2>4. \A k \in Targets : row'[k] = row[k]
    OBVIOUS
  <2>5. PICK K \in {{}} \cup {{k} : k \in Targets} : K = {}
    OBVIOUS
  <2>6. \A k \in Targets : row'[k][c] = IF k \in K THEN row[k][c] + 1 ELSE row[k][c]
    BY <2>4, <2>5
  <2>7. \A k \in Targets, d \in Calls \ {c} : row'[k][d] = row[k][d]
    BY <2>4
  <2> QED BY <1>1, <2>2, <2>3, <2>6, <2>7, PromiseAnswers DEF PromiseStep
<1> QED BY <1>4, <1>5, <1>6, <1>7, <1>8, <1>9 DEF CallStep

(* A commit is the answer, and adds its effect to the record it wrote.      *)
LEMMA PromiseOfCommit ==
  ASSUME Inv, NEW c \in Calls, Commit(c), call[c].target \in Targets,
         row'[call[c].target][c] = row[call[c].target][c] + 1,
         \A k \in Targets, d \in Calls :
           row'[k][d] # row[k][d] => d = c /\ k = call[c].target
  PROVE  PromiseStep
<1>0. call \in [Calls -> Call] /\ call[c] \in Call /\ Handled(c)
  BY DEF Inv, TypeOK
<1>1. call' = [call EXCEPT ![c] = [call[c] EXCEPT !.pc = "answered"]] /\ log' = log
      /\ call[c].pc = "closing"
  BY <1>0 DEF Commit
<1>2. call'[c].pc = "answered" /\ call'[c].outcome = call[c].outcome
  BY <1>0, <1>1 DEF Call
<1>3. VerdictOf(c) = "open" /\ Known(c) /\ VerdictOf(c)' \in Outcomes
  BY <1>0, <1>1, <1>2, KnownBeforeCommit DEF VerdictOf, Handled, Over
<1>4. /\ \A d \in Calls \ {c} : SameVerdict(d)
      /\ \A d \in Calls : Known(d)' = Known(d)
  BY <1>0, <1>1 DEF SameVerdict, VerdictOf, Known
<1>5. PICK K \in {{}} \cup {{k} : k \in Targets} : K = {call[c].target}
  OBVIOUS
<1>6. /\ \A k \in Targets : row'[k][c] = IF k \in K THEN row[k][c] + 1 ELSE row[k][c]
      /\ \A k \in Targets, d \in Calls \ {c} : row'[k][d] = row[k][d]
  BY <1>5
<1> QED BY <1>3, <1>4, <1>6, PromiseAnswers DEF PromiseStep

LEMMA PromiseOfElse ==
  ASSUME Inv, UNCHANGED row,
         \/ Mint \/ Expire \/ OtherEnd \/ Restart \/ UNCHANGED vars
         \/ \E k \in Targets : OtherBegin(k)
         \/ \E c \in Calls, t \in 1 .. MaxMints : Send(c, t)
  PROVE  PromiseStep
<1>0. call \in [Calls -> Call]
  BY DEF Inv, TypeOK
<1>1. log' = log /\ \A d \in Calls : Known(d)' = Known(d)
  BY DEF Mint, Expire, OtherEnd, Restart, vars, OtherBegin, Send, Known
<1>2. CASE \/ Mint \/ Expire \/ OtherEnd \/ UNCHANGED vars
           \/ \E k \in Targets : OtherBegin(k)
  <2>1. UNCHANGED call
    BY <1>2 DEF Mint, Expire, OtherEnd, vars, OtherBegin
  <2> QED BY <1>1, <2>1, PromiseStutters DEF PromiseStep, SameVerdict, VerdictOf
<1>3. ASSUME NEW c \in Calls, NEW t \in 1 .. MaxMints, Send(c, t)
      PROVE  PromiseStep
  <2>1. call[c].pc = "none" /\ call'[c].pc = "sent"
        /\ \A d \in Calls \ {c} : call'[d] = call[d]
    BY <1>0, <1>3 DEF Send, Call
  <2>2. \A d \in Calls : SameVerdict(d)
    BY <2>1 DEF SameVerdict, VerdictOf, Over
  <2> QED BY <1>1, <2>2, PromiseStutters DEF PromiseStep
<1>4. CASE Restart
  <2> DEFINE C == {c \in Calls : call[c].pc \notin {"none"} \cup Over}
  <2>1. \A d \in Calls : call'[d] = IF call[d].pc \in {"none"} \cup Over THEN call[d]
                                    ELSE [call[d] EXCEPT !.pc = "lost", !.wrote = FALSE]
    BY <1>4 DEF Restart
  <2>2. ASSUME NEW d \in C
        PROVE  call[d].pc \notin Over /\ call'[d].pc = "lost"
    <3>1. call'[d] = [call[d] EXCEPT !.pc = "lost", !.wrote = FALSE] /\ call[d] \in Call
      BY <1>0, <2>1
    <3> QED BY <3>1 DEF Call
  <2>3. \A d \in Calls \ C : call'[d] = call[d]
    BY <2>1
  <2>4. C \in SUBSET Calls
    OBVIOUS
  <2> HIDE DEF C
  <2>5. \A d \in C : VerdictOf(d) = "open" /\ VerdictOf(d)' = "dropped"
    BY <2>2 DEF VerdictOf, Over
  <2>6. \A d \in Calls \ C : SameVerdict(d)
    BY <2>3 DEF SameVerdict, VerdictOf
  <2> QED BY <1>1, <2>4, <2>5, <2>6, PromiseDrops DEF PromiseStep
<1> QED BY <1>2, <1>3, <1>4

(* ToolCalls implements CallPromise: whatever is run again, committed apart  *)
(* or lost, a call's effect and its answer are one step, taken once.        *)
THEOREM PromiseImplemented == Spec => PromiseKept
<1>1. Init => Promise!Init
  <2> SUFFICES ASSUME Init
               PROVE  Promise!Init
    OBVIOUS
  <2>1. \A c \in Calls : VerdictOf(c) = "open"
    <3> SUFFICES ASSUME NEW c \in Calls
                 PROVE  VerdictOf(c) = "open"
      OBVIOUS
    <3>1. PICK k \in Targets :
            call[c] = [pc |-> "none", token |-> 0, target |-> k, wrote |-> FALSE,
                       outcome |-> "none", tries |-> 0, seen |-> 0]
      BY DEF Init
    <3> QED BY <3>1 DEF VerdictOf, Over
  <2>2. \A c \in Calls : ~Known(c) /\ \A k \in Targets : row[k][c] = 0
    BY DEF Init, Known
  <2> QED BY <2>1, <2>2 DEF Promise!Init, VerdictOf, Known
<1>2. Inv /\ [Next]_vars => [Promise!Next]_(Promise!vars)
  <2> SUFFICES ASSUME Inv, [Next]_vars
               PROVE  PromiseStep
    BY DEF PromiseStep
  <2>1. CASE row' = row /\ ~ \E c \in Calls : Commit(c)
    BY <2>1, PromiseOfCall, PromiseOfElse DEF Next
  <2>2. CASE ~(row' = row /\ ~ \E c \in Calls : Commit(c))
    BY <2>2, EffectSteps, PromiseOfCommit
  <2> QED BY <2>1, <2>2
<1> QED BY <1>1, <1>2, InvAlways, PTL DEF Spec, PromiseKept, Promise!Spec
===============================================================================
