--------------------------------- MODULE Login ---------------------------------
(***************************************************************************)
(* How a user connects a ChatGPT account.  The gate of the chat asks the   *)
(* server to start `codex login --device-auth`, shows the code it prints,  *)
(* and polls until the process has written auth.json.  The process is      *)
(* remembered in a system parameter, whose row is part of the request's    *)
(* transaction; starting, killing and waiting for it, and the file, are    *)
(* not.  Odoo runs a request again when its transaction conflicts.          *)
(*                                                                         *)
(* codexoo/models/res_users.py (_codexoo_login_start, _login_status,        *)
(* _reap_login, _logout), codexoo/controllers/main.py and the gate of       *)
(* codexoo/static/src/chat_action.js, for one user.                        *)
(***************************************************************************)
EXTENDS Integers, FiniteSets

CONSTANTS Reqs,         \* requests the server handles at a time
          MaxLogins,    \* bound: login processes ever started
          MaxTries,     \* Odoo's MAX_TRIES_ON_CONCURRENCY_FAILURE
          MaxRestarts   \* bound: how often the server restarts

ASSUME LoginBounds == /\ MaxLogins \in Nat /\ MaxRestarts \in Nat
                      /\ MaxTries \in Nat \ {0}

Param == "login_pid"
Nobody == 0             \* the parameter's value ""
Logins == 1 .. MaxLogins

VARIABLES row, snap, doomed,   \* the parameter: Nobody, or a login process
          auth,         \* whether auth.json holds a credential
          login,        \* login[p]: a codex login process; one that is signalled
             \* has been sent SIGTERM, for which nobody waits, and runs until it dies
          shown,        \* processes whose start was answered to the user
          req,          \* req[q]: a request and its handler
          gate,         \* what the chat shows: shut, polling or open
          restarts

vars == <<row, snap, doomed, auth, login, shown, req, gate, restarts>>

Tx == INSTANCE SnapshotTx WITH Keys <- {Param}, Actors <- Reqs

Kinds == {"start", "status", "logout"}
Req == [pc: {"free", "asked", "reaping", "spawning", "capturing", "removing", "closing"},
        kind: Kinds, tab: BOOLEAN,     \* sent by the gate, or by another tab
        proc: Logins \cup {Nobody},    \* the process a start has spawned
        tries: 0 .. MaxTries - 1,
        stored: Logins \cup {Nobody},  \* the parameter as its transaction saw it
        before: SUBSET Logins]         \* logins alive and shown when it began

Idle == [pc |-> "free", kind |-> "status", tab |-> FALSE, proc |-> Nobody,
         tries |-> 0, stored |-> Nobody, before |-> {}]

Init ==
  /\ row = [k \in {Param} |-> Nobody]
  /\ Tx!TxInit
  /\ auth = FALSE
  /\ login = [p \in Logins |-> "none"]
  /\ shown = {}
  /\ req = [q \in Reqs |-> Idle]
  /\ gate = "shut"
  /\ restarts = 0

Alive(p) == login[p] = "alive"                      \* and not signalled
Running(p) == login[p] \in {"alive", "signalled"}
At(q, pc) == req[q].pc = pc
Goto(q, pc) == req' = [req EXCEPT ![q].pc = pc]

-----------------------------------------------------------------------------
(* The gate.                                                               *)

(* What the gate becomes when its request is answered.  A poll that fails   *)
(* is transient, a start that fails shows an error over whatever was there. *)
(* (A bug's form of OnFailure: a poll that fails ends the polling.)         *)
OnAnswer(x, authenticated) ==
  CASE ~x.tab             -> gate
    [] authenticated      -> "open"
    [] x.kind = "start"   -> "polling"
    [] OTHER              -> gate
OnFailureShut(x) == IF x.tab /\ x.kind = "status" THEN "shut" ELSE gate
OnFailure(x) == gate

Arrive(q, kind, tab) ==
  /\ At(q, "free")
  /\ req' = [req EXCEPT ![q] = [Idle EXCEPT !.pc = "asked", !.kind = kind, !.tab = tab]]
  /\ UNCHANGED <<row, snap, doomed, auth, login, shown, gate, restarts>>

ClickLogin(q) == gate # "open" /\ Arrive(q, "start", TRUE)
Poll(q)       == gate = "polling" /\ Arrive(q, "status", TRUE)
OtherTab(q)   == \E kind \in Kinds : Arrive(q, kind, FALSE)

Answer(q, authenticated) ==
  /\ req' = [req EXCEPT ![q] = Idle]
  /\ gate' = OnAnswer(req[q], authenticated)

Fail(q) ==
  /\ req' = [req EXCEPT ![q] = Idle]
  /\ gate' = OnFailure(req[q])

-----------------------------------------------------------------------------
(* The handlers, step by step.                                             *)

(* A start with a credential, and a status without, write nothing.          *)
AnswerAtOnce(q) ==
  /\ At(q, "asked")
  /\ \/ req[q].kind = "start" /\ auth
     \/ req[q].kind = "status" /\ ~auth
  /\ Answer(q, auth)
  /\ UNCHANGED <<row, snap, doomed, auth, login, shown, restarts>>

Begin(q) ==
  /\ At(q, "asked")
  /\ \/ req[q].kind = "start" /\ ~auth
     \/ req[q].kind = "status" /\ auth
     \/ req[q].kind = "logout"
  /\ Tx!Begin(q, {Param})
  /\ req' = [req EXCEPT ![q].pc = "reaping", ![q].stored = row[Param],
                        ![q].before = IF req[q].kind = "logout"
                                       THEN {p \in shown : Alive(p)} ELSE {}]
  /\ UNCHANGED <<auth, login, shown, gate, restarts>>

(* _codexoo_reap_login: SIGTERM to the process in the parameter, which it   *)
(* gets soon or late.  (It is the server's own user's, so that there is no  *)
(* PermissionError.  Bugs' forms: only a logout, only a start ends the one  *)
(* before.)                                                                *)
ReapedByLogout(q, p) ==
  IF req[q].kind # "start" /\ p # Nobody /\ Alive(p)
  THEN [login EXCEPT ![p] = "signalled"] ELSE login
ReapedByStart(q, p) ==
  IF req[q].kind = "start" /\ p # Nobody /\ Alive(p)
  THEN [login EXCEPT ![p] = "signalled"] ELSE login
Reaped(q, p) ==
  IF p # Nobody /\ Alive(p) THEN [login EXCEPT ![p] = "signalled"] ELSE login

AfterReap == [start |-> "spawning", status |-> "closing", logout |-> "removing"]

Reap(q) ==
  /\ At(q, "reaping")
  /\ login' = Reaped(q, req[q].stored)
  /\ Goto(q, AfterReap[req[q].kind])
  /\ UNCHANGED <<row, snap, doomed, auth, shown, gate, restarts>>

(* The login process is started ...                                        *)
Spawn(q) ==
  /\ At(q, "spawning")
  /\ \E p \in Logins :
       /\ login[p] = "none" /\ \A n \in 1 .. p - 1 : login[n] # "none"
       /\ login' = [login EXCEPT ![p] = "alive"]
       /\ req' = [req EXCEPT ![q].pc = "capturing", ![q].proc = p]
  /\ UNCHANGED <<row, snap, doomed, auth, shown, gate, restarts>>

(* ... or cannot be, which is an error and a rollback ...                   *)
SpawnFails(q) ==
  /\ At(q, "spawning")
  /\ Tx!End(q) /\ Fail(q)
  /\ UNCHANGED <<auth, login, shown, restarts>>

(* ... and its output is read until it shows a code, ends, or 15 s are over.*)
Capture(q) ==
  /\ At(q, "capturing")
  /\ Goto(q, "closing")
  /\ UNCHANGED <<row, snap, doomed, auth, login, shown, gate, restarts>>

(* A process that failed without showing a URL is an error, too.            *)
CaptureFails(q) ==
  /\ At(q, "capturing") /\ login[req[q].proc] = "over"
  /\ Tx!End(q) /\ Fail(q)
  /\ UNCHANGED <<auth, login, shown, restarts>>

(* codex logout and the removal of auth.json.                               *)
RemoveAuth(q) ==
  /\ At(q, "removing")
  /\ auth' = FALSE
  /\ Goto(q, "closing")
  /\ UNCHANGED <<row, snap, doomed, login, shown, gate, restarts>>

(* The value the handler leaves in the parameter: set_param writes the row  *)
(* only if it differs.                                                      *)
Left(q) == req[q].proc

Writes(q) == Left(q) # req[q].stored

Authenticated(q) ==
  CASE req[q].kind = "start"  -> auth
    [] req[q].kind = "status" -> TRUE
    [] req[q].kind = "logout" -> FALSE

Commit(q) ==
  /\ At(q, "closing")
  /\ IF Writes(q) THEN Tx!Commit(q, [k \in {Param} |-> Left(q)]) ELSE Tx!End(q)
  /\ shown' = {p \in shown \cup {req[q].proc} : p # Nobody /\ Running(p)}
  /\ Answer(q, Authenticated(q))
  /\ UNCHANGED <<auth, login, restarts>>

(* The transaction fails to serialize: the request starts over, and leaves  *)
(* the process it has started behind; or it is given up.  (Two that create  *)
(* the parameter's row break its unique key instead: no second try.  A      *)
(* bug's form of TriesLeft: one too many.)                                  *)
TriesLeftAfterAll(x) == x.tries < MaxTries
TriesLeft(x) == x.tries + 1 < MaxTries

Conflict(q) ==
  /\ At(q, "closing") /\ Writes(q)
  /\ Tx!Conflict(q)
  /\ \/ /\ TriesLeft(req[q])
        /\ req' = [req EXCEPT ![q] = [Idle EXCEPT !.pc = "asked", !.kind = req[q].kind,
                                        !.tab = req[q].tab, !.tries = req[q].tries + 1]]
        /\ UNCHANGED gate
     \/ Fail(q)
  /\ UNCHANGED <<auth, login, shown, restarts>>

-----------------------------------------------------------------------------
(* codex login: the user enters the code that was shown, and the process    *)
(* writes auth.json, be it with a signal on its way; or it expires, was     *)
(* never shown to anybody, or dies of the signal.                           *)

LoginSucceeds(p) ==
  /\ Running(p) /\ p \in shown
  /\ login' = [login EXCEPT ![p] = "over"]
  /\ auth' = TRUE
  /\ UNCHANGED <<row, snap, doomed, shown, req, gate, restarts>>

LoginFails(p) ==
  /\ Running(p)
  /\ login' = [login EXCEPT ![p] = "over"]
  /\ UNCHANGED <<row, snap, doomed, auth, shown, req, gate, restarts>>

(* The server restarts: its requests fail, the login processes go on.       *)
Restart ==
  /\ restarts < MaxRestarts
  /\ restarts' = restarts + 1
  /\ Tx!RollbackAll
  /\ req' = [q \in Reqs |-> Idle]
  /\ UNCHANGED <<auth, login, shown, gate>>

-----------------------------------------------------------------------------
Handle(q) ==
  \/ AnswerAtOnce(q)
  \/ Begin(q)
  \/ Reap(q)
  \/ Spawn(q)
  \/ SpawnFails(q)
  \/ Capture(q)
  \/ CaptureFails(q)
  \/ RemoveAuth(q)
  \/ Commit(q)
  \/ Conflict(q)

Next ==
  \/ \E q \in Reqs : ClickLogin(q) \/ Poll(q) \/ OtherTab(q) \/ Handle(q)
  \/ \E p \in Logins : LoginSucceeds(p) \/ LoginFails(p)
  \/ Restart

(* The server goes on with what it has begun, and the interval timer of the *)
(* gate gets its polls through.                                             *)
Fairness == /\ \A q \in Reqs : WF_vars(Handle(q))
            /\ SF_vars(\E q \in Reqs : Poll(q))

Spec == Init /\ [][Next]_vars
FairSpec == Spec /\ Fairness

-----------------------------------------------------------------------------
(* Every variable has its type.                                            *)
TypeOK ==
  /\ row \in [{Param} -> Logins \cup {Nobody}]
  /\ \A q \in Reqs : \E S \in SUBSET {Param} : snap[q] \in [S -> Logins \cup {Nobody}]
  /\ doomed \subseteq Reqs
  /\ auth \in BOOLEAN
  /\ login \in [Logins -> {"none", "alive", "signalled", "over"}]
  /\ shown \subseteq Logins
  /\ req \in [Reqs -> Req]
  /\ gate \in {"shut", "polling", "open"}
  /\ restarts \in 0 .. MaxRestarts

(* A login process whose code a user was shown, and which nobody has        *)
(* signalled, is the one in the parameter, so that the next start or a      *)
(* logout can: no retried, failed or concurrent request makes the server    *)
(* forget it.                                                              *)
ShownIsTracked ==
  \A p \in shown : Alive(p) => row[Param] = p

(* A logout that has removed the credential has signalled every login that  *)
(* the user was shown before and that still runs.  (No more: one that was   *)
(* signalled may write the credential again before it dies.)                *)
LogoutSignalsLogins ==
  \A q \in Reqs : req[q].kind = "logout" /\ At(q, "closing")
    => \A p \in req[q].before : ~Alive(p)

(* "this gate clears automatically once you're signed in": polls that fail, *)
(* conflict with other tabs' requests or are cut off by a restart do not    *)
(* keep it shut.                                                            *)
GateClears ==
  gate = "polling" /\ auth ~> gate = "open" \/ ~auth
===============================================================================
