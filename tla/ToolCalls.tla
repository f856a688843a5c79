------------------------------- MODULE ToolCalls -------------------------------
(***************************************************************************)
(* The life of a tool call: the bridge sends a request with the token of   *)
(* its run; the server authenticates it, runs the tool as the user, writes *)
(* a row of the audit log on a cursor of its own, and commits.  Odoo runs   *)
(* the whole handler again when the transaction fails to serialize, and    *)
(* commits whatever it did when the handler returns, be it with an error.   *)
(*                                                                         *)
(* codexoo/controllers/tools.py, codexoo/models/ir_http.py and              *)
(* codexoo/models/codexoo_tool_log.py; the token is minted and verified in  *)
(* codexoo/models/codexoo_session.py.                                       *)
(***************************************************************************)
EXTENDS Integers, Sequences, FiniteSets

CONSTANTS Calls,        \* requests to /codexoo/tool/...
          Targets,      \* the records that tools write
          Own,          \* the record of the calling session, if in Targets
          Others,       \* another user's transaction
          MaxTries,     \* Odoo's MAX_TRIES_ON_CONCURRENCY_FAILURE
          MaxMints,     \* bound: tokens minted, one for each send
          LogMayFail,   \* whether the insert into the log may fail by itself
          MaxRestarts   \* bound: how often the server restarts

ASSUME CallsAreNotOthers == Others \notin Calls
ASSUME TriesAndMints == /\ MaxTries \in Nat \ {0} /\ MaxMints \in Nat
                        /\ MaxRestarts \in Nat
ASSUME LogMayFailIsBoolean == LogMayFail \in BOOLEAN

Actors == Calls \cup {Others}

VARIABLES row,       \* row[k][c]: how often call c's effect on k was committed
          snap, doomed,
          minted,    \* tokens minted for the session so far
          valid,     \* the one whose jti the session stores and is not expired
          call,      \* call[c]: the request and its handler
          log,       \* log[c]: the outcomes in the audit rows of c, committed
             \* each on its own, and "unwritten" for an insert that failed
          restarts

vars == <<row, snap, doomed, minted, valid, call, log, restarts>>

Tx == INSTANCE SnapshotTx WITH Keys <- Targets

Outcomes == {"success", "failure"}   \* any of _run's three except clauses
Over     == {"answered", "refused", "faulted", "lost"}
Call == [pc: {"none", "sent", "working", "auditing", "closing"} \cup Over,
         token: 0 .. MaxMints, target: Targets, wrote: BOOLEAN,
         outcome: Outcomes \cup {"none"}, tries: 0 .. MaxTries,
         seen: 0 .. MaxMints]

Init ==
  /\ row = [k \in Targets |-> [c \in Calls |-> 0]]
  /\ Tx!TxInit
  /\ minted = 0 /\ valid = 0
  /\ call \in [Calls -> {[pc |-> "none", token |-> 0, target |-> k,
                          wrote |-> FALSE, outcome |-> "none", tries |-> 0,
                          seen |-> 0] : k \in Targets}]
  /\ log = [c \in Calls |-> << >>]
  /\ restarts = 0

-----------------------------------------------------------------------------
(* The token of the session: one jti is stored, each send replaces it.     *)

Mint ==
  /\ minted < MaxMints
  /\ minted' = minted + 1 /\ valid' = minted'
  /\ UNCHANGED <<row, snap, doomed, call, log, restarts>>

(* The token expires, or its session is deleted.                           *)
Expire ==
  /\ valid # 0
  /\ valid' = 0
  /\ UNCHANGED <<row, snap, doomed, minted, call, log, restarts>>

(* A bug's form of Verified: a request that Odoo runs again is not          *)
(* authenticated again.                                                    *)
VerifiedOnce(x) == x.token = valid \/ x.tries > 0
Verified(x) == x.token = valid

-----------------------------------------------------------------------------
(* The handler, from the request to the answer.                            *)

(* The bridge of the run that got token t posts a call.                    *)
Send(c, t) ==
  /\ call[c].pc = "none" /\ t \in 1 .. minted
  /\ call' = [call EXCEPT ![c].pc = "sent", ![c].token = t]
  /\ UNCHANGED <<row, snap, doomed, minted, valid, log, restarts>>

(* Authentication is the first thing the transaction does.                 *)
Begin(c) ==
  /\ call[c].pc = "sent" /\ Verified(call[c])
  /\ Tx!Begin(c, {call[c].target})
  /\ call' = [call EXCEPT ![c].pc = "working", ![c].seen = valid]
  /\ UNCHANGED <<minted, valid, log, restarts>>

(* AccessDenied from the authentication method is not audited.             *)
Refuse(c) ==
  /\ call[c].pc = "sent" /\ ~Verified(call[c])
  /\ call' = [call EXCEPT ![c].pc = "refused"]
  /\ UNCHANGED <<row, snap, doomed, minted, valid, log, restarts>>

(* The tool writes to its record, in the transaction of the request.        *)
Work(c) ==
  /\ call[c].pc = "working" /\ ~call[c].wrote
  /\ call' = [call EXCEPT ![c].wrote = TRUE]
  /\ UNCHANGED <<row, snap, doomed, minted, valid, log, restarts>>

(* A bug's form of Settled: only failures go to the log; of Outcome: an     *)
(* except clause that does not say one, one that reports a success.         *)
SettledIfFailed(o) == IF o = "success" THEN "closing" ELSE "auditing"
Settled(o) == "auditing"
OutcomeUnset(raised) == IF raised THEN "none" ELSE "success"
OutcomeAlways(raised) == IF raised \in BOOLEAN THEN "success" ELSE "none"
Outcome(raised) == IF raised THEN "failure" ELSE "success"

(* What _run does with a tool that has returned or raised.                  *)
Settle(c, raised) ==
  call' = [call EXCEPT ![c].pc = Settled(Outcome(raised)),
                       ![c].outcome = Outcome(raised)]

(* The tool returns ...                                                    *)
Return(c) ==
  /\ call[c].pc = "working"
  /\ Settle(c, FALSE)
  /\ UNCHANGED <<row, snap, doomed, minted, valid, log, restarts>>

(* ... or raises, before it wrote (a gate refuses) or after (a constraint, a*)
(* business method); _run catches every exception.                         *)
Raise(c) ==
  /\ call[c].pc = "working"
  /\ Settle(c, TRUE)
  /\ UNCHANGED <<row, snap, doomed, minted, valid, log, restarts>>

(* One of the tool's statements fails in the database (to serialize, on a   *)
(* constraint): _run catches that too, and the request goes on with an      *)
(* aborted transaction, which has let go of what it wrote and locked.       *)
RaiseAborted(c) ==
  /\ call[c].pc = "working" /\ Tx!End(c)
  /\ Settle(c, TRUE)
  /\ UNCHANGED <<minted, valid, log, restarts>>

(* A call holds the lock of the record it wrote until its transaction ends. *)
Holds(b) == /\ call[b].pc \in {"working", "auditing", "closing"}
            /\ call[b].wrote /\ Tx!InTx(b)

(* The log row names the session, and its foreign key waits for whoever has*)
(* deleted that row and not committed yet.  (A bug's form of Blocks: the    *)
(* row names the record, too.)                                             *)
BlocksAny(b) == Holds(b)
Blocks(b) == Holds(b) /\ call[b].target = Own

(* (A bug's form of Noted: a request that Odoo runs again has its row.)      *)
NotedOnce(c, o) == IF log[c] = << >> THEN << o >> ELSE log[c]
Noted(c, o) == Append(log[c], o)

Record(c) ==
  /\ call[c].pc = "auditing"
  /\ \A b \in Calls : ~Blocks(b)
  /\ log' = [log EXCEPT ![c] = Noted(c, call[c].outcome)]
  /\ call' = [call EXCEPT ![c].pc = "closing"]
  /\ UNCHANGED <<row, snap, doomed, minted, valid, restarts>>

(* _record swallows what its insert raises; the server's own log has it.    *)
RecordFails(c) ==
  /\ call[c].pc = "auditing" /\ LogMayFail
  /\ \A b \in Calls : ~Blocks(b)
  /\ log' = [log EXCEPT ![c] = Noted(c, "unwritten")]
  /\ call' = [call EXCEPT ![c].pc = "closing"]
  /\ UNCHANGED <<row, snap, doomed, minted, valid, restarts>>

(* The handler has returned: what was written is committed ...             *)
Commit(c) ==
  /\ call[c].pc = "closing" /\ call[c].wrote
  /\ Tx!Commit(c, [k \in DOMAIN snap[c] |-> [snap[c][k] EXCEPT ![c] = @ + 1]])
  /\ call' = [call EXCEPT ![c].pc = "answered"]
  /\ UNCHANGED <<minted, valid, log, restarts>>

(* ... or nothing was, or the transaction has been aborted already ...      *)
Close(c) ==
  /\ call[c].pc = "closing"
  /\ \/ Tx!InTx(c) /\ ~call[c].wrote /\ Tx!End(c)
     \/ ~Tx!InTx(c) /\ UNCHANGED <<row, snap, doomed>>
  /\ call' = [call EXCEPT ![c].pc = "answered"]
  /\ UNCHANGED <<minted, valid, log, restarts>>

(* ... or it fails to serialize, and the request starts over, or is given  *)
(* up.  What the first try sent to the log stays there.                    *)
Again(x) == [x EXCEPT !.pc = IF x.tries + 1 < MaxTries THEN "sent" ELSE "faulted",
                      !.tries = x.tries + 1, !.wrote = FALSE]

Retry(c) ==
  /\ call[c].pc = "closing" /\ call[c].wrote /\ Tx!Conflict(c)
  /\ call' = [call EXCEPT ![c] = Again(@)]
  /\ UNCHANGED <<minted, valid, log, restarts>>

-----------------------------------------------------------------------------
(* Other users write the same records, and the server may restart.         *)

OtherBegin(k) ==
  /\ k # Own
  /\ Tx!Begin(Others, {k})
  /\ UNCHANGED <<minted, valid, call, log, restarts>>

OtherEnd ==
  /\ \/ Tx!Commit(Others, snap[Others])
     \/ Tx!Conflict(Others)
  /\ UNCHANGED <<minted, valid, call, log, restarts>>

Restart ==
  /\ restarts < MaxRestarts
  /\ restarts' = restarts + 1
  /\ Tx!RollbackAll
  /\ call' = [c \in Calls |-> IF call[c].pc \in {"none"} \cup Over THEN call[c]
                              ELSE [call[c] EXCEPT !.pc = "lost", !.wrote = FALSE]]
  /\ UNCHANGED <<minted, valid, log>>

-----------------------------------------------------------------------------
CallStep(c) ==
  \/ Begin(c)
  \/ Refuse(c)
  \/ Work(c)
  \/ Return(c)
  \/ Raise(c)
  \/ RaiseAborted(c)
  \/ Record(c)
  \/ RecordFails(c)
  \/ Commit(c)
  \/ Close(c)
  \/ Retry(c)

Next ==
  \/ Mint
  \/ Expire
  \/ \E c \in Calls, t \in 1 .. MaxMints : Send(c, t)
  \/ \E c \in Calls : CallStep(c)
  \/ \E k \in Targets : OtherBegin(k)
  \/ OtherEnd
  \/ Restart

(* The server serves the requests it has; everybody else is free.           *)
Fairness == \A c \in Calls : WF_vars(CallStep(c))

Spec == Init /\ [][Next]_vars
FairSpec == Spec /\ Fairness

-----------------------------------------------------------------------------
(* Every variable has its type.                                            *)
TypeOK ==
  /\ row \in [Targets -> [Calls -> Nat]]
  /\ snap = [a \in Actors |-> snap[a]]
  /\ \A a \in Actors : \E S \in SUBSET Targets : snap[a] \in [S -> [Calls -> Nat]]
  /\ doomed \subseteq Actors
  /\ minted \in 0 .. MaxMints /\ valid \in 0 .. MaxMints
  /\ call \in [Calls -> Call]
  /\ log \in [Calls -> Seq(Outcomes \cup {"unwritten"})]
  /\ restarts \in 0 .. MaxRestarts

(* The log agrees with the answer: of a call that was answered it has heard *)
(* of every try, of the last one last, with the outcome that was answered;  *)
(* the outcomes before it, successes too, are of tries that were undone.    *)
(* "Heard of" is no more than that: the row of a try may be missing, if its *)
(* insert failed (_record).                                                *)
LogTellsAnswer ==
  \A c \in Calls : call[c].pc = "answered" =>
    /\ Len(log[c]) = call[c].tries + 1
    /\ log[c][call[c].tries + 1] \in {call[c].outcome, "unwritten"}

(* What the bridge is told is what happened: a call answered as success has *)
(* its effect committed exactly once, however often it was run, and one     *)
(* given up after the last try has none.                                   *)
AnswersTrue ==
  \A c \in Calls :
    /\ call[c].pc = "answered" /\ call[c].outcome = "success" /\ call[c].wrote
         => row[call[c].target][c] = 1
    /\ call[c].pc \in {"refused", "faulted"}
         => \A k \in Targets : row[k][c] = 0

(* A call commits an effect only in a transaction that began while its own  *)
(* token was the one in force: after the next send no call of an older run  *)
(* can begin one, a repeated try included (_verify_bridge_token).           *)
EffectUnderToken ==
  [][\A k \in Targets, c \in Calls :
       row'[k][c] # row[k][c] => call[c].seen = call[c].token]_vars

(* A call's effect and its answer are one step, taken once and after the    *)
(* log has heard of the call, although tries are repeated and the log is    *)
(* committed apart; a call that is never answered has no effect, ever.      *)
Promise == INSTANCE CallPromise WITH
  effect  <- [c \in Calls |-> [k \in Targets |-> row[k][c]]],
  known   <- {c \in Calls : log[c] # << >>},
  verdict <- [c \in Calls |-> IF call[c].pc = "answered" THEN call[c].outcome
                              ELSE IF call[c].pc \in Over THEN "dropped" ELSE "open"]
PromiseKept == Promise!Spec

(* Every request is answered, after MaxTries tries at the most, whatever    *)
(* other users write meanwhile, unless a call deletes its own session: with *)
(* Own among the Targets, the audit insert waits for its own request.       *)
CallsAnswered ==
  \A c \in Calls : call[c].pc = "sent" ~> call[c].pc \in Over
-----------------------------------------------------------------------------
(* What a docstring says, and the code does not do.                         *)

(* "survives a rollback of the failed operation it describes" (_record): an *)
(* operation that failed is rolled back.                                   *)
FailedRolledBack ==
  \A c \in Calls : call[c].pc = "answered" /\ call[c].outcome = "failure"
                     => \A k \in Targets : row[k][c] = 0
===============================================================================
