------------------------------ MODULE LoginProofs ------------------------------
(* What TLAPS proves of Login for every number of requests, login processes, *)
(* tries and restarts.                                                     *)
EXTENDS Login, TLAPS

Busy == {"reaping", "spawning", "capturing", "removing", "closing"}

(* What a request's handler knows: it goes by the parameter that its         *)
(* transaction has read, the process it found there is signalled once it has  *)
(* been through _codexoo_reap_login, and a logout found every login alive    *)
(* and shown there.                                                        *)
Handled(q) ==
  /\ q \in doomed => DOMAIN snap[q] = {}
  /\ DOMAIN snap[q] # {} => req[q].pc \in Busy /\ snap[q][Param] = req[q].stored
  /\ req[q].stored # Nobody => login[req[q].stored] # "none"
  /\ req[q].proc # Nobody => login[req[q].proc] # "none"
  /\ req[q].pc \in Busy \ {"reaping"} /\ req[q].stored # Nobody
       => ~Alive(req[q].stored)
  /\ req[q].pc \in Busy /\ req[q].kind = "logout" => req[q].before \subseteq {req[q].stored}

(* The parameter, and the user, name only processes that were started.      *)
Started == /\ row[Param] # Nobody => login[row[Param]] # "none"
           /\ \A p \in shown : login[p] # "none"

LoginInv ==
  /\ TypeOK
  /\ snap = [q \in Reqs |-> snap[q]]
  /\ Tx!SnapshotCurrent
  /\ \A q \in Reqs : Handled(q)
  /\ Started
  /\ ShownIsTracked

-----------------------------------------------------------------------------
(* The parts of TypeOK about the transactions, and about the rest.          *)
TxTyped ==
  /\ row \in [{Param} -> Logins \cup {Nobody}]
  /\ snap = [q \in Reqs |-> snap[q]]
  /\ \A q \in Reqs : \E S \in SUBSET {Param} : snap[q] \in [S -> Logins \cup {Nobody}]
  /\ doomed \subseteq Reqs

RestTyped ==
  /\ auth \in BOOLEAN
  /\ login \in [Logins -> {"none", "alive", "signalled", "over"}]
  /\ shown \subseteq Logins
  /\ req \in [Reqs -> Req]
  /\ gate \in {"shut", "polling", "open"}
  /\ restarts \in 0 .. MaxRestarts

LEMMA TypeParts ==
  (TypeOK /\ snap = [q \in Reqs |-> snap[q]]) <=> (TxTyped /\ RestTyped)
BY DEF TypeOK, TxTyped, RestTyped

(* What a step does to the transactions: whose it is, if any.               *)
TxStep ==
  \/ UNCHANGED <<row, snap, doomed>>
  \/ \E q \in Reqs : \/ Tx!Begin(q, {Param}) \/ Tx!End(q) \/ Tx!Conflict(q)
                     \/ Tx!Commit(q, [k \in {Param} |-> Left(q)])
  \/ Tx!RollbackAll

LEMMA TxSteps ==
  ASSUME [Next]_vars
  PROVE  TxStep
<1>1. ASSUME NEW q \in Reqs, Handle(q)
      PROVE  TxStep
  BY <1>1 DEF Handle, AnswerAtOnce, Begin, Reap, Spawn, SpawnFails, Capture, CaptureFails,
              RemoveAuth, Commit, Conflict, TxStep
<1>2. ASSUME NEW q \in Reqs, ClickLogin(q) \/ Poll(q) \/ OtherTab(q)
      PROVE  TxStep
  BY <1>2 DEF ClickLogin, Poll, OtherTab, Arrive, TxStep
<1>3. ASSUME NEW p \in Logins, LoginSucceeds(p) \/ LoginFails(p)
      PROVE  TxStep
  BY <1>3 DEF LoginSucceeds, LoginFails, TxStep
<1>4. CASE Restart \/ UNCHANGED vars
  BY <1>4 DEF Restart, vars, TxStep
<1> QED BY <1>1, <1>2, <1>3, <1>4 DEF Next

LEMMA TxKept ==
  ASSUME TxTyped, RestTyped, Tx!SnapshotCurrent, TxStep
  PROVE  TxTyped' /\ Tx!SnapshotCurrent'
<1>0. Tx!NoTx \in [{} -> Logins \cup {Nobody}] /\ DOMAIN Tx!NoTx = {}
  BY DEF Tx!NoTx
<1>1. ASSUME NEW q \in Reqs, Tx!Begin(q, {Param})
      PROVE  TxTyped' /\ Tx!SnapshotCurrent'
  <2>1. /\ snap' = [snap EXCEPT ![q] = [k \in {Param} |-> row[k]]]
        /\ UNCHANGED <<row, doomed>>
    BY <1>1 DEF Tx!Begin
  <2>2. [k \in {Param} |-> row[k]] \in [{Param} -> Logins \cup {Nobody}]
    BY DEF TxTyped
  <2>3. \A r \in Reqs : snap'[r] = snap[r] \/ snap'[r] = [k \in {Param} |-> row[k]]
    BY <2>1 DEF TxTyped
  <2>4. snap' = [r \in Reqs |-> snap'[r]]
    BY <2>1 DEF TxTyped
  <2>5. TxTyped'
    BY <2>1, <2>2, <2>3, <2>4 DEF TxTyped
  <2> QED BY <2>1, <2>3, <2>5 DEF Tx!SnapshotCurrent
<1>2. ASSUME NEW q \in Reqs, Tx!Commit(q, [k \in {Param} |-> Left(q)])
      PROVE  TxTyped' /\ Tx!SnapshotCurrent'
  <2>1. /\ row' = [k \in {Param} |-> Left(q)]
        /\ snap' = [r \in Reqs |-> IF r \in Tx!Overtaken(q, {Param}) \cup {q}
                                   THEN Tx!NoTx ELSE snap[r]]
        /\ doomed' = doomed \cup Tx!Overtaken(q, {Param})
    BY <1>2 DEF Tx!Commit
  <2>2. Left(q) \in Logins \cup {Nobody}
    BY DEF Left, RestTyped, Req
  <2>3. ASSUME NEW r \in Reqs
        PROVE  \/ snap'[r] = Tx!NoTx
               \/ DOMAIN snap[r] = {} /\ snap'[r] = snap[r]
    <3>1. CASE r = q \/ Param \in DOMAIN snap[r]
      BY <2>1, <3>1 DEF Tx!Overtaken
    <3>2. CASE r # q /\ Param \notin DOMAIN snap[r]
      BY <2>1, <3>2 DEF Tx!Overtaken, TxTyped
    <3> QED BY <3>1, <3>2
  <2>4. snap' = [r \in Reqs |-> snap'[r]] /\ doomed' \subseteq Reqs
    BY <2>1 DEF Tx!Overtaken, TxTyped
  <2>5. TxTyped'
    BY <1>0, <2>1, <2>2, <2>3, <2>4 DEF TxTyped
  <2> QED BY <1>0, <2>3, <2>5 DEF Tx!SnapshotCurrent
<1>3. ASSUME \/ UNCHANGED <<row, snap, doomed>> \/ Tx!RollbackAll
             \/ \E q \in Reqs : Tx!End(q) \/ Tx!Conflict(q)
      PROVE  TxTyped' /\ Tx!SnapshotCurrent'
  <2>1. /\ row' = row /\ doomed' \subseteq doomed
        /\ snap' = [r \in Reqs |-> snap'[r]]
        /\ \A r \in Reqs : snap'[r] = snap[r] \/ snap'[r] = Tx!NoTx
    BY <1>3 DEF Tx!End, Tx!Conflict, Tx!RollbackAll, TxTyped
  <2>2. TxTyped'
    BY <1>0, <2>1 DEF TxTyped
  <2> QED BY <1>0, <2>1, <2>2 DEF Tx!SnapshotCurrent
<1> QED BY <1>1, <1>2, <1>3 DEF TxStep

-----------------------------------------------------------------------------
(* The rest of the types.                                                  *)
LEMMA ReqSet ==
  ASSUME req \in [Reqs -> Req], NEW q \in Reqs, NEW x \in Req,
         req' = [req EXCEPT ![q] = x]
  PROVE  req' \in [Reqs -> Req]
OBVIOUS

LEMMA IdleTyped ==
  /\ Idle \in Req /\ Idle.pc = "free" /\ Idle.stored = Nobody /\ Idle.proc = Nobody
  /\ \A kind \in Kinds, tab \in BOOLEAN, n \in 0 .. MaxTries - 1 :
       [Idle EXCEPT !.pc = "asked", !.kind = kind, !.tab = tab, !.tries = n] \in Req
  /\ \A kind \in Kinds, tab \in BOOLEAN :
       [Idle EXCEPT !.pc = "asked", !.kind = kind, !.tab = tab] \in Req
<1>1. 0 \in 0 .. MaxTries - 1
  BY LoginBounds
<1>2. Idle \in Req /\ Idle.pc = "free" /\ Idle.stored = Nobody /\ Idle.proc = Nobody
  BY <1>1 DEF Idle, Req, Kinds, Nobody
<1>3. ASSUME NEW kind \in Kinds, NEW tab \in BOOLEAN, NEW n \in 0 .. MaxTries - 1
      PROVE  /\ [Idle EXCEPT !.pc = "asked", !.kind = kind, !.tab = tab, !.tries = n] \in Req
             /\ [Idle EXCEPT !.pc = "asked", !.kind = kind, !.tab = tab] \in Req
  BY <1>2 DEF Req
<1> QED BY <1>1, <1>2, <1>3

LEMMA GateTyped ==
  ASSUME RestTyped, NEW q \in Reqs, NEW authenticated \in BOOLEAN
  PROVE  /\ OnAnswer(req[q], authenticated) \in {"shut", "polling", "open"}
         /\ OnFailure(req[q]) \in {"shut", "polling", "open"}
BY DEF OnAnswer, OnFailure, RestTyped

LEMMA HandleTyped ==
  ASSUME TxTyped, RestTyped, NEW q \in Reqs, Handle(q)
  PROVE  RestTyped'
<1>0. /\ req[q] \in Req /\ req \in [Reqs -> Req] /\ restarts' = restarts
      /\ login \in [Logins -> {"none", "alive", "signalled", "over"}]
  BY DEF RestTyped, Handle, AnswerAtOnce, Begin, Reap, Spawn, SpawnFails, Capture,
         CaptureFails, RemoveAuth, Commit, Conflict
<1>1. CASE AnswerAtOnce(q) \/ SpawnFails(q) \/ CaptureFails(q)
  <2>1. /\ req' = [req EXCEPT ![q] = Idle] /\ UNCHANGED <<auth, login, shown>>
        /\ gate' \in {"shut", "polling", "open"}
    BY <1>1, GateTyped DEF AnswerAtOnce, SpawnFails, CaptureFails, Answer, Fail, RestTyped
  <2> QED BY <1>0, <2>1, IdleTyped, ReqSet DEF RestTyped
<1>2. CASE Begin(q)
  <2>1. /\ row[Param] \in Logins \cup {Nobody} /\ UNCHANGED <<auth, login, shown, gate>>
        /\ {p \in shown : Alive(p)} \in SUBSET Logins
    BY <1>2 DEF Begin, TxTyped, RestTyped
  <2>2. PICK b \in SUBSET Logins :
          req' = [req EXCEPT ![q] = [req[q] EXCEPT !.pc = "reaping", !.stored = row[Param],
                                                   !.before = b]]
    BY <1>0, <1>2, <2>1 DEF Begin
  <2>3. [req[q] EXCEPT !.pc = "reaping", !.stored = row[Param], !.before = b] \in Req
    BY <1>0, <2>1 DEF Req
  <2> QED BY <1>0, <2>1, <2>2, <2>3, ReqSet DEF RestTyped
<1>3. CASE Reap(q) \/ Capture(q) \/ RemoveAuth(q)
  <2>1. PICK pc \in {"spawning", "removing", "closing"} :
          req' = [req EXCEPT ![q] = [req[q] EXCEPT !.pc = pc]]
    BY <1>0, <1>3 DEF Reap, Capture, RemoveAuth, Goto, AfterReap, Req, Kinds
  <2>2. [req[q] EXCEPT !.pc = pc] \in Req
    BY <1>0 DEF Req
  <2>3. UNCHANGED <<shown, gate>> /\ auth' \in BOOLEAN
        /\ login' \in [Logins -> {"none", "alive", "signalled", "over"}]
    BY <1>0, <1>3 DEF Reap, Capture, RemoveAuth, Reaped, RestTyped
  <2> QED BY <1>0, <2>1, <2>2, <2>3, ReqSet DEF RestTyped
<1>4. CASE Spawn(q)
  <2>1. PICK p \in Logins :
          /\ login' = [login EXCEPT ![p] = "alive"]
          /\ req' = [req EXCEPT ![q] = [req[q] EXCEPT !.pc = "capturing", !.proc = p]]
    BY <1>0, <1>4 DEF Spawn
  <2>2. [req[q] EXCEPT !.pc = "capturing", !.proc = p] \in Req
    BY <1>0 DEF Req
  <2>3. UNCHANGED <<shown, gate, auth>>
    BY <1>4 DEF Spawn
  <2> QED BY <1>0, <2>1, <2>2, <2>3, ReqSet DEF RestTyped
<1>5. CASE Commit(q)
  <2>1. Authenticated(q) \in BOOLEAN
    BY <1>0 DEF Authenticated, RestTyped, Req, Kinds
  <2>2. /\ req' = [req EXCEPT ![q] = Idle] /\ UNCHANGED <<auth, login>>
        /\ gate' \in {"shut", "polling", "open"}
    BY <1>5, <2>1, GateTyped DEF Commit, Answer
  <2>3. shown' \subseteq Logins
    BY <1>0, <1>5 DEF Commit, RestTyped, Req
  <2> QED BY <1>0, <2>2, <2>3, IdleTyped, ReqSet DEF RestTyped
<1>6. CASE Conflict(q)
  <2>1. UNCHANGED <<auth, login, shown>>
    BY <1>6 DEF Conflict
  <2>2. CASE Fail(q)
    BY <1>0, <2>1, <2>2, IdleTyped, ReqSet, GateTyped DEF Fail, RestTyped
  <2>3. CASE ~Fail(q)
    <3>1. /\ TriesLeft(req[q]) /\ gate' = gate
          /\ req' = [req EXCEPT ![q] = [Idle EXCEPT !.pc = "asked", !.kind = req[q].kind,
                                          !.tab = req[q].tab, !.tries = req[q].tries + 1]]
      BY <1>6, <2>3 DEF Conflict
    <3>2. /\ req[q].kind \in Kinds /\ req[q].tab \in BOOLEAN
          /\ req[q].tries + 1 \in 0 .. MaxTries - 1
      BY <1>0, <3>1, LoginBounds DEF Req, TriesLeft
    <3> QED BY <1>0, <2>1, <3>1, <3>2, IdleTyped, ReqSet DEF RestTyped
  <2> QED BY <2>2, <2>3
<1> QED BY <1>1, <1>2, <1>3, <1>4, <1>5, <1>6 DEF Handle

LEMMA RestKept ==
  ASSUME TxTyped, RestTyped, [Next]_vars
  PROVE  RestTyped'
<1>1. ASSUME NEW q \in Reqs, Handle(q)
      PROVE  RestTyped'
  BY <1>1, HandleTyped
<1>2. ASSUME NEW q \in Reqs, ClickLogin(q) \/ Poll(q) \/ OtherTab(q)
      PROVE  RestTyped'
  <2>1. PICK kind \in Kinds, tab \in BOOLEAN : Arrive(q, kind, tab)
    BY <1>2 DEF ClickLogin, Poll, OtherTab, Kinds
  <2> QED BY <2>1, IdleTyped, ReqSet DEF Arrive, RestTyped
<1>3. ASSUME NEW p \in Logins, LoginSucceeds(p) \/ LoginFails(p)
      PROVE  RestTyped'
  BY <1>3 DEF LoginSucceeds, LoginFails, RestTyped
<1>4. CASE Restart
  <2>1. req' = [q \in Reqs |-> Idle] /\ UNCHANGED <<auth, login, shown, gate>>
    BY <1>4 DEF Restart
  <2>2. restarts' \in 0 .. MaxRestarts
    BY <1>4, LoginBounds DEF Restart, RestTyped
  <2> QED BY <2>1, <2>2, IdleTyped DEF RestTyped
<1>5. CASE UNCHANGED vars
  BY <1>5 DEF vars, RestTyped
<1> QED BY <1>1, <1>2, <1>3, <1>4, <1>5 DEF Next
-----------------------------------------------------------------------------
(* A login process is started once, and never again what it was before.     *)
LoginsAge ==
  \A p \in Logins : login'[p] # login[p] =>
    \/ login[p] = "none" /\ login'[p] = "alive"
    \/ login[p] # "none" /\ login'[p] \in {"signalled", "over"}

LEMMA LoginsAgeStep ==
  ASSUME RestTyped, [Next]_vars
  PROVE  LoginsAge
<1>0. login \in [Logins -> {"none", "alive", "signalled", "over"}]
  BY DEF RestTyped
<1>1. ASSUME NEW q \in Reqs, Handle(q)
      PROVE  LoginsAge
  <2>1. CASE Reap(q)
    BY <1>0, <2>1 DEF Reap, Reaped, Alive, LoginsAge
  <2>2. CASE Spawn(q)
    BY <1>0, <2>2 DEF Spawn, LoginsAge
  <2>3. CASE ~Reap(q) /\ ~Spawn(q)
    <3>1. login' = login
      BY <1>1, <2>3 DEF Handle, AnswerAtOnce, Begin, SpawnFails, Capture, CaptureFails,
                        RemoveAuth, Commit, Conflict
    <3> QED BY <3>1 DEF LoginsAge
  <2> QED BY <2>1, <2>2, <2>3
<1>2. ASSUME NEW p \in Logins, LoginSucceeds(p) \/ LoginFails(p)
      PROVE  LoginsAge
  BY <1>0, <1>2 DEF LoginSucceeds, LoginFails, Running, LoginsAge
<1>3. ASSUME \/ Restart \/ UNCHANGED vars
             \/ \E q \in Reqs : ClickLogin(q) \/ Poll(q) \/ OtherTab(q)
      PROVE  LoginsAge
  BY <1>3 DEF Restart, vars, ClickLogin, Poll, OtherTab, Arrive, LoginsAge
<1> QED BY <1>1, <1>2, <1>3 DEF Next

(* A request that a step leaves alone, or only dooms, knows what it knew.    *)
LEMMA OthersHandled ==
  ASSUME TxTyped, RestTyped, LoginsAge, NEW r \in Reqs, Handled(r), req'[r] = req[r],
         \/ snap'[r] = snap[r] /\ (r \in doomed' => r \in doomed)
         \/ DOMAIN snap'[r] = {}
  PROVE  Handled(r)'
<1>1. req[r].stored \in Logins \cup {Nobody} /\ req[r].proc \in Logins \cup {Nobody}
  BY DEF RestTyped, Req
<1> QED BY <1>1 DEF Handled, LoginsAge, Alive

(* ... and one that has been reset, with its transaction over, knows nothing.*)
LEMMA ResetHandled ==
  ASSUME NEW r \in Reqs, DOMAIN snap'[r] = {}, req'[r].pc \in {"free", "asked"},
         req'[r].stored = Nobody, req'[r].proc = Nobody
  PROVE  Handled(r)'
BY DEF Handled, Busy

(* What a step of q does to the transaction of another request.             *)
LEMMA OvertakenOrNot ==
  ASSUME TxTyped, NEW q \in Reqs, NEW r \in Reqs \ {q},
         \/ Tx!Begin(q, {Param}) \/ Tx!End(q) \/ Tx!Conflict(q)
         \/ Tx!Commit(q, [k \in {Param} |-> Left(q)])
         \/ UNCHANGED <<row, snap, doomed>>
  PROVE  \/ snap'[r] = snap[r] /\ (r \in doomed' => r \in doomed)
         \/ DOMAIN snap'[r] = {}
BY DEF Tx!Begin, Tx!End, Tx!Conflict, Tx!Commit, Tx!Overtaken, Tx!NoTx, TxTyped

(* The request whose step it is.                                           *)
LEMMA HandledByStep ==
  ASSUME LoginInv, RestTyped', LoginsAge, NEW q \in Reqs, Handle(q)
  PROVE  Handled(q)'
<1>0. /\ TxTyped /\ RestTyped /\ Handled(q) /\ req[q] \in Req /\ req \in [Reqs -> Req]
      /\ req[q].stored \in Logins \cup {Nobody} /\ req[q].proc \in Logins \cup {Nobody}
  BY TypeParts DEF LoginInv, RestTyped, Req
<1>1. CASE AnswerAtOnce(q) \/ SpawnFails(q) \/ CaptureFails(q) \/ Commit(q) \/ Conflict(q)
  <2>1. DOMAIN snap'[q] = {}
    <3>1. CASE AnswerAtOnce(q) \/ Conflict(q)
      BY <1>0, <3>1 DEF AnswerAtOnce, At, Conflict, Handled, Busy, Tx!Conflict
    <3>2. CASE Tx!End(q)
      BY <1>0, <3>2 DEF Tx!End, Tx!NoTx, TxTyped
    <3>3. CASE Tx!Commit(q, [k \in {Param} |-> Left(q)])
      BY <1>0, <3>3 DEF Tx!Commit, Tx!NoTx
    <3> QED BY <1>1, <3>1, <3>2, <3>3 DEF SpawnFails, CaptureFails, Commit
  <2>2. \/ req'[q] = Idle
        \/ req'[q] = [Idle EXCEPT !.pc = "asked", !.kind = req[q].kind,
                                  !.tab = req[q].tab, !.tries = req[q].tries + 1]
    BY <1>0, <1>1 DEF AnswerAtOnce, SpawnFails, CaptureFails, Commit, Conflict, Answer, Fail
  <2>3. /\ req'[q].pc \in {"free", "asked"} /\ req'[q].stored = Nobody
        /\ req'[q].proc = Nobody
    <3>1. CASE req'[q] = Idle
      BY <3>1, IdleTyped
    <3>2. CASE req'[q] # Idle
      BY <2>2, <3>2 DEF Idle
    <3> QED BY <3>1, <3>2
  <2> QED BY <2>1, <2>3, ResetHandled
<1>2. CASE Begin(q)
  <2>1. /\ req'[q] = [req[q] EXCEPT !.pc = "reaping", !.stored = row[Param],
                         !.before = IF req[q].kind = "logout"
                                      THEN {p \in shown : Alive(p)} ELSE {}]
        /\ login' = login /\ doomed' = doomed /\ q \notin doomed
        /\ snap'[q] = [k \in {Param} |-> row[k]]
    BY <1>0, <1>2 DEF Begin, Tx!Begin, Tx!InTx, TxTyped
  <2>2. /\ req'[q].pc = "reaping" /\ req'[q].stored = row[Param]
        /\ req'[q].proc = req[q].proc /\ req'[q].kind = req[q].kind
        /\ req[q].kind = "logout" => req'[q].before = {p \in shown : Alive(p)}
    BY <1>0, <2>1 DEF Req
  <2>3. {p \in shown : Alive(p)} \subseteq {row[Param]}
    BY DEF LoginInv, ShownIsTracked
  <2>4. row[Param] # Nobody => login[row[Param]] # "none"
    BY DEF LoginInv, Started
  <2> QED BY <1>0, <2>1, <2>2, <2>3, <2>4 DEF Handled, Busy
<1>3. CASE Reap(q)
  <2>1. PICK pc \in Busy \ {"reaping"} : req'[q] = [req[q] EXCEPT !.pc = pc]
    <3>1. /\ AfterReap["start"] = "spawning" /\ AfterReap["status"] = "closing"
          /\ AfterReap["logout"] = "removing"
      BY DEF AfterReap
    <3>2. req[q].kind \in {"start", "status", "logout"}
      BY <1>0 DEF Req, Kinds
    <3>3. req'[q] = [req[q] EXCEPT !.pc = AfterReap[req[q].kind]]
      BY <1>0, <1>3 DEF Reap, Goto
    <3> QED BY <3>1, <3>2, <3>3 DEF Busy
  <2>2. /\ req'[q].pc = pc /\ req'[q].stored = req[q].stored
        /\ req'[q].proc = req[q].proc /\ req'[q].kind = req[q].kind
        /\ req'[q].before = req[q].before /\ req[q].pc = "reaping"
    BY <1>0, <1>3, <2>1 DEF Req, Reap, At
  <2>3. UNCHANGED <<snap, doomed>>
    BY <1>3 DEF Reap
  <2>4. req[q].stored # Nobody => login'[req[q].stored] # "alive"
    BY <1>0, <1>3 DEF Reap, Reaped, Alive, RestTyped
  <2> QED BY <1>0, <2>1, <2>2, <2>3, <2>4 DEF Handled, Busy, LoginsAge, Alive
<1>4. CASE Spawn(q)
  <2>1. PICK p \in Logins :
          /\ login' = [login EXCEPT ![p] = "alive"] /\ login[p] = "none"
          /\ req'[q] = [req[q] EXCEPT !.pc = "capturing", !.proc = p]
          /\ req[q].pc = "spawning"
    BY <1>0, <1>4 DEF Spawn, At
  <2>2. /\ req'[q].pc = "capturing" /\ req'[q].stored = req[q].stored
        /\ req'[q].proc = p /\ req'[q].kind = req[q].kind
        /\ req'[q].before = req[q].before
    BY <1>0, <2>1 DEF Req
  <2>3. UNCHANGED <<snap, doomed>> /\ login'[p] = "alive"
    BY <1>0, <1>4, <2>1 DEF Spawn, RestTyped
  <2> QED BY <1>0, <2>1, <2>2, <2>3 DEF Handled, Busy, LoginsAge, Alive
<1>5. CASE Capture(q) \/ RemoveAuth(q)
  <2>1. /\ req'[q] = [req[q] EXCEPT !.pc = "closing"]
        /\ req[q].pc \in {"capturing", "removing"} /\ UNCHANGED <<snap, doomed, login>>
    BY <1>0, <1>5 DEF Capture, RemoveAuth, Goto, At
  <2>2. /\ req'[q].pc = "closing" /\ req'[q].stored = req[q].stored
        /\ req'[q].proc = req[q].proc /\ req'[q].kind = req[q].kind
        /\ req'[q].before = req[q].before
    BY <1>0, <2>1 DEF Req
  <2> QED BY <1>0, <2>1, <2>2 DEF Handled, Busy, Alive
<1> QED BY <1>1, <1>2, <1>3, <1>4, <1>5 DEF Handle

LEMMA HandledStep ==
  ASSUME LoginInv, RestTyped', [Next]_vars, NEW r \in Reqs
  PROVE  Handled(r)'
<1>0. /\ TxTyped /\ RestTyped /\ LoginsAge /\ Handled(r) /\ req \in [Reqs -> Req]
  BY TypeParts, LoginsAgeStep DEF LoginInv, RestTyped
<1>1. ASSUME NEW q \in Reqs, Handle(q), q # r
      PROVE  Handled(r)'
  <2>1. req'[r] = req[r]
    BY <1>0, <1>1 DEF Handle, AnswerAtOnce, Begin, Reap, Spawn, SpawnFails, Capture,
                      CaptureFails, RemoveAuth, Commit, Conflict, Answer, Fail, Goto
  <2>2. \/ Tx!Begin(q, {Param}) \/ Tx!End(q) \/ Tx!Conflict(q)
        \/ Tx!Commit(q, [k \in {Param} |-> Left(q)])
        \/ UNCHANGED <<row, snap, doomed>>
    BY <1>1 DEF Handle, AnswerAtOnce, Begin, Reap, Spawn, SpawnFails, Capture,
                CaptureFails, RemoveAuth, Commit, Conflict
  <2> QED BY <1>0, <1>1, <2>1, <2>2, OvertakenOrNot, OthersHandled
<1>2. ASSUME NEW q \in Reqs, ClickLogin(q) \/ Poll(q) \/ OtherTab(q)
      PROVE  Handled(r)'
  <2>1. PICK kind \in Kinds, tab \in BOOLEAN : Arrive(q, kind, tab)
    BY <1>2 DEF ClickLogin, Poll, OtherTab, Kinds
  <2>2. CASE q = r
    <3>1. /\ req'[r] = [Idle EXCEPT !.pc = "asked", !.kind = kind, !.tab = tab]
          /\ req[r].pc = "free" /\ UNCHANGED <<snap, doomed>>
      BY <1>0, <2>1, <2>2 DEF Arrive, At
    <3>2. DOMAIN snap'[r] = {}
      BY <1>0, <3>1 DEF Handled, Busy
    <3> QED BY <3>1, <3>2, ResetHandled DEF Idle
  <2>3. CASE q # r
    BY <1>0, <2>1, <2>3, OthersHandled DEF Arrive
  <2> QED BY <2>2, <2>3
<1>3. ASSUME NEW p \in Logins, LoginSucceeds(p) \/ LoginFails(p)
      PROVE  Handled(r)'
  BY <1>0, <1>3, OthersHandled DEF LoginSucceeds, LoginFails
<1>4. CASE Restart
  BY <1>4, ResetHandled, IdleTyped DEF Restart, Tx!RollbackAll, Tx!NoTx
<1>5. CASE UNCHANGED vars
  BY <1>0, <1>5, OthersHandled DEF vars
<1>6. ASSUME NEW q \in Reqs, Handle(q), q = r
      PROVE  Handled(r)'
  BY <1>0, <1>6, HandledByStep
<1> QED BY <1>1, <1>2, <1>3, <1>4, <1>5, <1>6 DEF Next
-----------------------------------------------------------------------------
(* The parameter changes with a commit only, and a commit that changes it   *)
(* has signalled the process that was there.                               *)
LEMMA CommitTracked ==
  ASSUME LoginInv, NEW q \in Reqs, Commit(q)
  PROVE  Started' /\ ShownIsTracked'
<1>0. /\ TxTyped /\ RestTyped /\ Handled(q) /\ req[q] \in Req
      /\ Started /\ ShownIsTracked /\ login' = login /\ At(q, "closing")
  BY TypeParts DEF LoginInv, RestTyped, Commit
<1>1. \A p \in shown' : p # Nobody /\ (p \in shown \/ p = req[q].proc)
  BY DEF Commit
<1>2. CASE Writes(q)
  <2>1. /\ row' = [k \in {Param} |-> req[q].proc] /\ DOMAIN snap[q] # {}
    BY <1>2 DEF Commit, Left, Tx!Commit
  <2>2. row[Param] = req[q].stored
    <3>1. DOMAIN snap[q] = {Param}
      BY <1>0, <2>1 DEF TxTyped
    <3>2. snap[q][Param] = row[Param]
      BY <3>1 DEF LoginInv, Tx!SnapshotCurrent
    <3> QED BY <1>0, <2>1, <3>2 DEF Handled
  <2>3. row[Param] # Nobody => ~Alive(row[Param])
    BY <1>0, <2>2 DEF Handled, Busy, At
  <2>4. \A p \in shown' : Alive(p) => p = req[q].proc
    BY <1>0, <1>1, <2>3 DEF ShownIsTracked
  <2> QED BY <1>0, <1>1, <2>1, <2>4 DEF Started, ShownIsTracked, Handled, Alive
<1>3. CASE ~Writes(q)
  <2>1. row' = row /\ req[q].proc = req[q].stored
    BY <1>3 DEF Commit, Writes, Left, Tx!End
  <2>2. req[q].proc # Nobody => ~Alive(req[q].proc)
    BY <1>0, <2>1 DEF Handled, Busy, At
  <2>3. \A p \in shown' : p \in shown \/ p = req[q].proc
    BY <1>1, <2>2
  <2>4. \A p \in shown' : Alive(p) => p = row[Param]
    BY <1>0, <1>1, <2>2, <2>3 DEF ShownIsTracked
  <2> QED BY <1>0, <1>1, <2>1, <2>3, <2>4 DEF Started, ShownIsTracked, Handled, Alive
<1> QED BY <1>2, <1>3

LEMMA TrackedStep ==
  ASSUME LoginInv, [Next]_vars
  PROVE  Started' /\ ShownIsTracked'
<1>0. /\ TxTyped /\ RestTyped /\ LoginsAge /\ Started /\ ShownIsTracked
  BY TypeParts, LoginsAgeStep DEF LoginInv
<1>1. ASSUME UNCHANGED <<row, shown>>
      PROVE  Started' /\ ShownIsTracked'
  BY <1>0, <1>1 DEF Started, ShownIsTracked, LoginsAge, Alive, TxTyped, RestTyped
<1>2. ASSUME NEW q \in Reqs, Handle(q), ~Commit(q)
      PROVE  UNCHANGED <<row, shown>>
  BY <1>2 DEF Handle, AnswerAtOnce, Begin, Reap, Spawn, SpawnFails, Capture, CaptureFails,
              RemoveAuth, Conflict, Tx!Begin, Tx!End, Tx!Conflict
<1>3. ASSUME NEW q \in Reqs, ClickLogin(q) \/ Poll(q) \/ OtherTab(q)
      PROVE  UNCHANGED <<row, shown>>
  BY <1>3 DEF ClickLogin, Poll, OtherTab, Arrive
<1>4. ASSUME NEW p \in Logins, LoginSucceeds(p) \/ LoginFails(p)
      PROVE  UNCHANGED <<row, shown>>
  BY <1>4 DEF LoginSucceeds, LoginFails
<1>5. CASE Restart \/ UNCHANGED vars
  BY <1>1, <1>5 DEF Restart, vars, Tx!RollbackAll
<1> QED BY <1>1, <1>2, <1>3, <1>4, <1>5, CommitTracked DEF Next

LEMMA InvInit == Init => LoginInv
<1> SUFFICES ASSUME Init
             PROVE  LoginInv
  OBVIOUS
<1>1. /\ row = [k \in {Param} |-> Nobody] /\ snap = [q \in Reqs |-> Tx!NoTx]
      /\ doomed = {} /\ req = [q \in Reqs |-> Idle] /\ shown = {}
  BY DEF Init, Tx!TxInit
<1>2. Tx!NoTx \in [{} -> Logins \cup {Nobody}] /\ DOMAIN Tx!NoTx = {}
  BY DEF Tx!NoTx
<1>3. TxTyped
  BY <1>1, <1>2 DEF TxTyped
<1>4. RestTyped
  <2>1. /\ auth = FALSE /\ login = [p \in Logins |-> "none"] /\ gate = "shut"
        /\ restarts = 0
    BY DEF Init
  <2>2. 0 \in 0 .. MaxRestarts
    BY LoginBounds
  <2>3. req \in [Reqs -> Req]
    BY <1>1, IdleTyped
  <2>4. login \in [Logins -> {"none", "alive", "signalled", "over"}]
    BY <2>1
  <2> QED BY <1>1, <2>1, <2>2, <2>3, <2>4 DEF RestTyped
<1>5. Tx!SnapshotCurrent
  BY <1>1, <1>2 DEF Tx!SnapshotCurrent
<1>6. \A q \in Reqs : Handled(q)
  BY <1>1, <1>2, IdleTyped DEF Handled, Busy
<1>7. Started /\ ShownIsTracked
  BY <1>1 DEF Started, ShownIsTracked
<1> QED BY <1>3, <1>4, <1>5, <1>6, <1>7, TypeParts DEF LoginInv

LEMMA InvStep == LoginInv /\ [Next]_vars => LoginInv'
<1> SUFFICES ASSUME LoginInv, [Next]_vars
             PROVE  LoginInv'
  OBVIOUS
<1>1. TxTyped /\ RestTyped /\ TxStep
  BY TypeParts, TxSteps DEF LoginInv
<1>2. TxTyped' /\ Tx!SnapshotCurrent'
  BY <1>1, TxKept DEF LoginInv
<1>3. RestTyped'
  BY <1>1, RestKept
<1>4. TypeOK' /\ (snap = [q \in Reqs |-> snap[q]])'
  BY <1>2, <1>3 DEF TypeOK, TxTyped, RestTyped
<1>5. \A q \in Reqs : Handled(q)'
  BY <1>3, HandledStep
<1> QED BY <1>2, <1>4, <1>5, TrackedStep DEF LoginInv

LEMMA InvAlways == Spec => []LoginInv
BY InvInit, InvStep, PTL DEF Spec

(* Every variable keeps its type, whatever requests, conflicts, logins and  *)
(* restarts follow one another.                                            *)
THEOREM LoginTypesKept == Spec => []TypeOK
<1>1. LoginInv => TypeOK
  BY DEF LoginInv
<1> QED BY <1>1, InvAlways, PTL

(* However many requests start, poll and log out at once, fail or are run   *)
(* again, a living login process whose code the user was shown is the one in *)
(* the parameter, where the next request finds it.                         *)
THEOREM ShownAlwaysTracked == Spec => []ShownIsTracked
<1>1. LoginInv => ShownIsTracked
  BY DEF LoginInv
<1> QED BY <1>1, InvAlways, PTL

(* A logout that is through has ended every login that was shown before it  *)
(* began.                                                                  *)
THEOREM LogoutAlwaysSignalsLogins == Spec => []LogoutSignalsLogins
<1>1. LoginInv => LogoutSignalsLogins
  <2> SUFFICES ASSUME LoginInv, NEW q \in Reqs, req[q].kind = "logout",
                      At(q, "closing"), NEW p \in req[q].before
               PROVE  ~Alive(p)
    BY DEF LogoutSignalsLogins
  <2>1. p = req[q].stored /\ Handled(q)
    BY DEF LoginInv, Handled, Busy, At
  <2>2. p # Nobody
    BY DEF LoginInv, TypeOK, Req, Logins, Nobody
  <2> QED BY <2>1, <2>2 DEF Handled, Busy, At
<1> QED BY <1>1, InvAlways, PTL
===============================================================================
