# Formal models of Codexoo

TLA+ specifications of the Codexoo addon (an Odoo 18 module that runs the Codex
CLI as a chat assistant), model-checked with TLC and, for safety, proved with
TLAPS. Paths are relative to `src/codexoo/`.

## 1. The system

| Component | State it keeps | Operations | Modelled in |
|---|---|---|---|
| Session (`models/codexoo_session.py`, `controllers/main.py`) | row of `codexoo.session`: state, `last_run_pid`, `turn_count`, `codex_thread_id`, bridge jti/salt/exp, `write_date` | send, stop, reap (cron) | `SessionRuns`, promise in `SessionLife` |
| Runner (`models/codexoo_runner.py`) | a daemon thread per run, its CLI process and pipes, a deadline | launch, spawn, read events, time out, finish, fail | `SessionRuns` |
| Turn stream (`_handle_item`, `models/codexoo_message.py`) | the turn's assistant message, its tool-call entries and their index, `last_message.txt` | upsert, end of turn, fallback | `TurnStream`, promise in `Transcript` |
| Tool endpoints (`controllers/tools.py`) | the transaction of the request | eleven tools, all inside `_run` | `ToolCalls`, promise in `CallPromise` |
| Audit log (`models/codexoo_tool_log.py`) | rows committed on a cursor of their own | `_record` | `ToolCalls` |
| Bridge token (`_mint_bridge_token`, `_verify_bridge_token`, `models/ir_http.py`) | one jti per session | mint, verify, expire | `ToolCalls`, jti in `SessionRuns` |
| MCP bridge (`bridge/mcp_server.py`) | the lines in its pipe, the call it waits for, the tools it offers | JSON-RPC loop, `_call_odoo` | `Bridge` |
| Tool policy (`models/res_users.py`, `models/codexoo_tool.py`) | grants, zero-trust mode, global default, catalogue | `_codexoo_effective_tools` | `Bridge`; the catalogue's records are not |
| Login (`models/res_users.py`, gate of `static/src/chat_action.js`) | `auth.json`, pid parameter, login processes, the gate | start, status, logout, poll | `Login` |
| Uploads and scratch (`_store_upload`, `_write_attachment_to_disk`) | attachments in the database, files outside it, `working_dir` | upload, materialize | `Files` |
| Routing sessions (`_mint_routing_sid`, `_delete_routing_sid`) | files of Odoo's session store | mint, delete | `Files` |
| Database (Odoo's cursor, PostgreSQL) | committed rows, open snapshots | begin, commit, conflict, rollback | `SnapshotTx` (external) |
| Chat client (`static/src/chat_action.js`, `codexoo_service.js`) | `running`, `messages`, `currentId` | open, send, stop, bus events | planned (its login gate is in `Login`) |
| Settings | system parameters | get, set | constants of the modules |
| SQL guard, prompts, rendering, views, migration | text and declarations | – | not modelled |

How they interact. A **request** (send, stop, upload, login) is one database
transaction. A send marks the session `running`, stores a new jti and registers a
`postcommit` callback that starts the **worker thread**, which has a cursor of its
own and commits after almost every step: the pid, each event of the CLI, the
verdict. The **CLI** starts the **bridge**, which posts tool calls with the token
of its run; each is a further request. A **cron job** reaps sessions that have been
`running` for too long without a write. Nothing but the session row connects
these parties, and nobody holds a lock on it: every guard was evaluated on a
snapshot, and what keeps two of them from overwriting each other is that
PostgreSQL refuses to serialize them. Processes and files (CLIs, login processes,
uploads, routing sessions, the final-message file) are outside the transactions:
what a request did to them stays when it is rolled back, and is done again when
Odoo runs the request again.

What is hard: interleavings of sends, stops, two generations of workers and the
reaper on one row; a worker whose own commit fails; restarts that end threads
but not processes; recycled pids; a CLI that is silent, lies or outlives its
turn; retried requests with an effect (audit row, process, file) outside the
transaction; calls that are given up and answered later.
The complete list, each hazard at its line with the properties that watch it,
is `hazards` in `PROJECT.json`.

## 2. The modules

| Module | What it is |
|---|---|
| `SnapshotTx` | transactions at REPEATABLE READ, parameterised by rows and actors |
| `SessionLife` | abstract: sessions and runs as if each transaction ran at one moment |
| `SessionRuns` | sessions, requests, workers, CLIs, pids, the reaper, clock and restarts, over `SnapshotTx`; implements `SessionLife` |
| `CallPromise` | abstract: a call's effect and its answer as one step |
| `ToolCalls` | tool calls, the token, the audit log, retries, over `SnapshotTx`; implements `CallPromise` |
| `Bridge` | the MCP bridge, its CLI, and the grants; extends `ToolCalls` with them |
| `Transcript` | abstract: what a user is promised about the assistant's messages |
| `TurnStream` | the messages, events and the final-message file; implements `Transcript` |
| `Login` | login requests, processes, parameter and gate, over `SnapshotTx` |
| `Files` | uploads, scratch files and routing sessions, over `SnapshotTx` |
| `SessionRunsProofs`, `SessionLifeProofs`, `ToolCallsProofs`, `BridgeProofs`, `TurnStreamProofs`, `LoginProofs`, `FilesProofs` | theorems (section 4) |
| `MCSessionRuns`, `MCToolCalls`, `MCBridge`, `MCTurnStream`, `MCLogin`, `MCFiles` | small instances, symmetry |

### SnapshotTx

`row[k]` is what is committed, `snap[a]` what actor `a`'s open transaction has
read, `doomed` those whose transaction a later commit has overtaken. `Commit`
installs a write set and dooms every other open transaction that read one of
its rows and could still write it; the only thing a doomed transaction can do is
`Conflict` (or, when it wrote nothing, `End`). That is what the code gets from
Odoo's cursor: it never locks, and its first statement fixes the snapshot.

Consequences used by the modules: a request that conflicts starts over as a
whole (`odoo.service.model.retrying`; authentication included), a worker that
conflicts has its `except` clause fail in the aborted transaction and dies, a
cron job that conflicts is called again later. A transaction is dated at its
commit: `write_date` is in truth taken at its first statement, which is less
than the unit of time away.

### SessionLife and SessionRuns

`SessionLife` is what one would write if there were no transactions: `Admit` on a
session that is not running, `Stop`, `Report` (the CLI's word on its turn), `Conclude`
(one turn more, and a verdict if the session is running), `Fail`, `Reap` (running
sessions only), `Lose` (threads end and write nothing). It knows of a session its
state, its turns and its latest run, and of a run its session and whether it is
unsent, open or ended. That the older of two runs may pass its verdict on the
newer one is part of it: the code does that (run `fallback`).

In `SessionRuns`, `row[s]` is the session record, `op[q]` what request `q` is in the middle of,
`wk[r]` the worker of run `r` (a run is named after its send, and its name serves
as jti), `cli[r]` its process and the unread lines of its output, `holder[p]` the
process that has pid `p`, `age[s]` the time since `write_date`.

| Code | Actions |
|---|---|
| `send_message`, `_mint_bridge_token`, `_launch` | `SendBegin` (the guards: not running, under the cap as the record rules let the user count), `SendCommit` (the row, and only then the thread) |
| `action_stop` | `StopBegin` (reads the row, signals its pid), `StopCommit` |
| `_run_worker`, `_execute` | `Spawn`/`SpawnFails`, `StartCommit` (pid, deadline), `HearBegin`/`HearCommit` (one event), `HearKnownThread`, `HearMalformed`, `Timeout`, `EndOfOutput`, `FinishBegin`/`FinishCommit` (pid, turn count, verdict), `FailCommit`, `WorkerConflict` |
| `_cron_reap_stale` | `ReapBegin`, `ReapCommit`, `ReapConflict` |
| environment | `CliSpeak`, `CliExit`, `OtherProcess`, `Tick`, `Restart` |

Each transaction is a pair of steps, so anything may happen between its first
statement and its commit. Reductions, each because nothing can tell the
difference: `Popen` and the first statement after it are one step; an exception
opens the transaction of the `except` clause at once; a `thread.started` that
repeats the stored id commits nothing; a process that nobody follows exits and
is waited for in one step; the locals of an ended thread are forgotten. Time
passes only while no transaction is open, since its unit (the reaper's 120 s of
grace is the smallest duration that matters) is longer than one. SIGKILL ends a
followed process at once; SIGTERM only asks (`termed`).

Not represented: the login check, the user's message and the title in
`send_message`; bus notifications. Attachments and the routing session are in
`Files`, item events in `TurnStream`.

### CallPromise and ToolCalls

`CallPromise` has three things happen to a call: the log hears of it (`Note`), it is
answered, with its effect on one record or none in the same step (`Answer`), or it is
refused, given up or lost (`Drop`). Nothing of it is said twice.

In `ToolCalls`, `call[c]` is a request of the bridge (its token, the record it writes, whether
it wrote, its outcome, tries, and `seen`, the token in force when its
transaction began), `log[c]` the committed audit rows of the call, `valid` the
jti the session stores. `row[k][c]` counts how often the effect of `c` on record
`k` was committed, which lets one see an effect that happens twice.

| Code | Actions |
|---|---|
| `_call_odoo` | `Send` |
| `_auth_method_codexoo_bridge`, `_verify_bridge_token` | `Begin`, `Refuse` |
| the tools | `Work` |
| `_run` | `Return`, `Raise` (before or after it wrote), `RaiseAborted` |
| `_record` | `Record` (waits for a lock on the session row through the foreign key), `RecordFails` |
| Odoo's end of a request | `Commit`, `Close`, `Retry` |
| `_mint_bridge_token`, time | `Mint`, `Expire` |
| other users, the server | `OtherBegin`, `OtherEnd`, `Restart` |

Refusals (`_check_tool`, `_check_model`, `check_access`) are `Raise` before
`Work`. An answer is taken to reach the bridge here; its way back, and the 60 s the
bridge waits for it, are in `Bridge`.

### Bridge

`asked[c]` is the JSON-RPC line `c`: a call of a tool, a request the bridge answers
itself, an unknown one with an id, one that gets no answer, an array. Only the
unknown methods are asked for an id: `initialize`, `ping`, `tools/list` and `tools/call`
are answered, and the call is made, with or without one (the id is then null), so
the lines that get no answer are `initialized`, unknown methods without an id, and
what is not JSON. `bridge[t]` is the process of the
run with token `t`: what it does, the lines in its pipe, the call it waits for, the
tools it was told at its launch, and `deaf` once its CLI has ended. `policy` is
what is configured for the user, `granted[c]` what `c`'s transaction sees of it,
`allowed` a history variable: the calls whose tool was granted at some time since
they were posted. `replies[c]` is what came back on stdout. The server is
`ToolCalls`, action for action, with the tool that is called.

| Code | Actions |
|---|---|
| `_launch`, `_mcp_overrides`, `ALLOWED_TOOLS` | `Launch`, `Visible` |
| `main` | `Ignore`, `Crash` (not an object: the `except` clause raises), `Exit` |
| `_handle` | `AnswerItself`, `Post`, `HearAnswer` |
| `_call_odoo` | `Post`, `HearAnswer`, `GiveUp` (60 s) |
| `_send`, `_result`, `_error` | `Reply` (to a CLI that has ended: the process ends) |
| `_codexoo_effective_tools`, `_check_tool` | `Effective`, `CheckTool`, with `ServerBegin` |
| administrator, CLI | `ChangePolicy`, `Write`, `CliEnds` |

Other users' writes stay in `ToolCalls`: calls of the bridge overlap, and conflict,
among themselves once one was given up. Failing audit inserts too.

### Transcript and TurnStream

`Transcript` has a turn opened once, then told texts and tool calls while it
lasts, and closed with a final message that fills in only where nothing else was
shown. Its variables are the text, the set of calls with their latest status, and
the phase of each turn.

`TurnStream` has the records: `message[t]` with its body and its **list** of entries,
`toolIdx[t]` the worker's dictionary from item id to position, `file` the one
`last_message.txt` of the session, `running` the session's state, and for each worker
where it is and whether its closing transaction has been overtaken (`doomed`, the
one bit of `SnapshotTx` that the messages depend on).

| Code | Actions |
|---|---|
| `send_message` | `Send` |
| `action_stop`, `_cron_reap_stale` | `Interrupt` |
| `_handle_item`, `_ensure_assistant` | `HearText`, `HearCall` |
| `_upsert_tool_call`, `_map_status` | `HearCall` by `EntryId`, `Upsert`, `Indexed`, `MapStatus` |
| `turn.completed`, `turn.failed`, `error` | `HearTurnEnd` |
| `_run_worker`'s `except`; death of the thread | `FailRun`, `Die` |
| end of `_execute`, `_read_last_message` | `FinishBegin` (reads the file), `FinishCommit` (removes it, verdict), `FinishConflict` |
| CLI | `CliWritesFinal`, also after its worker failed |

The refinement mapping `Shown` forgets the order of the entries, the index, the
file and the session. Names, arguments and results of tool calls are left out.

### Login

`row["login_pid"]` is the system parameter (a process or nobody), `login[p]` a
process (alive; signalled, until it dies of it or has logged in all the same; over),
`auth` whether `auth.json` holds a credential, `shown` the processes whose
code was answered to the user, `req[q]` a request in one of its steps, `gate` what
the chat shows.

| Code | Actions |
|---|---|
| `_startAuth`, the interval of `_startAuthPoll` | `ClickLogin`, `Poll`, `OnAnswer`, `OnFailure` |
| another tab, the preferences | `OtherTab` |
| `_codexoo_is_authenticated` as a shortcut | `AnswerAtOnce` |
| `_codexoo_reap_login` | `Begin` (reads the parameter), `Reap` (SIGTERM, not waited for) |
| `_codexoo_login_start`, `_codexoo_capture_login` | `Spawn`, `SpawnFails`, `Capture`, `CaptureFails` |
| `_codexoo_logout` | `RemoveAuth` |
| end of the request | `Commit`, `Conflict` (starts over, or gives up) |
| `codex login`; server | `LoginSucceeds`, `LoginFails`, `Restart` |

A pid stands for one process for ever; a parameter is read from the database, not
from a cache of another server process.

### Files

`row["session"]` has the state and whether `working_dir` is set; `disk[a]` is the file
of attachment `a` (none, torn, whole), `atts` the attachments that are committed,
`store` the routing sessions that exist, `run[s]` the run of the send that minted
routing session `s`, `touched` the attachments whose file a later send opened again
or a restart lost. Two histories name what went wrong where nobody is told: `bare`,
the attachments whose directory could not be made, and `undeleted`, the routing
sessions whose deletion failed. `faults` counts failures and restarts alike.

| Code | Actions |
|---|---|
| `upload`, `_store_upload` | `UploadBegin`, `Create`, `WriteFile`, `WriteFails` (rolled back), `UploadEnds` (also: the next file is refused, and the handler answers 400 and commits) |
| `_materialize_attachments`, `_write_attachment_to_disk` | `SendBegin`, `Reopen`, `WriteFile` |
| `_get_scratch_dir`, `_uploads_dir` | `SetsDir`, part of `Commit`; `DirFails` (an upload: answered 400 and committed, with an attachment that has no file); a send is rolled back (`WriteFails`, `LaunchFails`) |
| `_mint_routing_sid`, `_launch` | `Mint` (or the run goes without one), `LaunchFails`, `Commit` |
| `_execute`, `_delete_routing_sid` | `Start`, `StartFails`, `StartCommit`, `Hear`, `HearCommit`, `Leave` (deletes the routing session, or silently fails to) |
| Odoo; server | `Conflict`, `Retry`, `Restart` |

`codexoo.scratch_root` is constant. The docstring of `_cron_reap_stale` also speaks
of collecting old scratch directories; there is no code that does.

## 3. What is checked

All runs are exhaustive on their instance. All but `bridge` check for deadlock;
there, bridges and CLIs end, and then nothing is left to do.

| Run | Instance | Shows |
|---|---|---|
| `overlap` | 2 requests, 2 runs, 1 session, 1 pid, 1 restart, no grace period | `AdmitOnlyIdle`, `TurnsCountFinished`, `RunningIsLatest`, `ReaperSparesReading`, `LifeKept` |
| `progress` | 1 request, fair threads and clock, 2 restarts, a pid taken by others | `TypeOK`, `RunningResolves`, `DeadlineEnforced` |
| `tool_commits` | 2 calls, 1 token, 1 record, 2 tries, audit insert may fail, 1 restart | `TypeOK`, `LogTellsAnswer`, `AnswersTrue`, `EffectUnderToken`, `PromiseKept`, `CallsAnswered` |
| `bridge` | 1 bridge, 2 lines, 1 tool of each sort, 2 policies and a change, 1 restart | `BridgeTypeOK`, `EffectGranted`, `RepliesTrue`, `OneReply`, `RequestsReplied` |
| `turns` | 2 turns, 1 item id and items without, 2 texts, 2 entries | `TypeOK`, `EntriesStay`, `TranscriptKept` |
| `login` | 2 requests, 2 login processes, 2 tries, 1 restart | `TypeOK`, `ShownIsTracked`, `LogoutSignalsLogins`, `GateClears` |
| `files` | 2 requests, 2 attachments, 2 routing sessions, 1 fault | `TypeOK`, `AttachmentsOnDisk`, `SidsDeleted`, `PromptFilesExist`, `UploadsSpareRuns` |

- **`AdmitOnlyIdle`**: a send never mints its token and launches its worker over
  a session that is running. The guard is read in one step and used in another.
- **`RunningIsLatest`**: `running` is said of the latest run only, and only until
  that run has finished or failed. Workers of two generations, stops and the
  reaper all write `state`.
- **`TurnsCountFinished`**: `turn_count` is exactly the number of workers that
  came to their end (no lost update).
- **`ReaperSparesReading`**: the reaper, which knows only `write_date`, never
  takes a session whose worker is within its deadline, even with no grace.
- **`LifeKept`**: `SessionRuns` implements `SessionLife`. What was read in one step and
  used in another (not running, still running, stale) holds of the row that is
  replaced, no write of an open transaction is ever based on an older row, and a
  run ends once, with one verdict.
- **`RunningResolves`**: no session stays running, whatever dies. It needs the
  reaper, and is what the comment in `send_message` promises about wedged slots.
  With one run and one request: a worker that dies of a conflict and leaves its
  session running has lost to a second writer of `running`, and is not met there.
- **`DeadlineEnforced`**: a silent CLI does not hold its worker for ever.
- **`LogTellsAnswer`**: a call that was answered has had one insert into the audit log
  for each try of its request, and the last row says what it was answered, unless
  that insert failed. It does not say that every call is in the log: `_record`
  swallows a failure of the insert (`models/codexoo_tool_log.py:55-56`), and the call
  is answered and committed without a row; one whose token is refused has none
  either. `src/README.md:40` and `static/description/index.html:33-35` ("Every tool
  call ... even denials") promise more than that.
- **`AnswersTrue`**: a call answered as a success has its effect exactly once, a
  refused one or one given up has none.
- **`EffectUnderToken`**: effects are committed only by transactions that began
  while the call's own token was in force, repeated tries included.
- **`PromiseKept`**: `ToolCalls` implements `CallPromise`. The handler runs up to
  `MaxTries` times, logs on another cursor and commits after it has returned; seen
  from outside, effect and answer are still one step, taken once, with the audit
  insert attempted before it, and a call that is dropped has no effect, then or later.
- **`CallsAnswered`**: every call ends, whatever other users write. The instance
  leaves the session's own row out of the targets: a call that deletes its own
  session waits for its own audit insert, on a second cursor of the same thread,
  for ever. With `Own` among the targets TLC shows that in a few steps.
- **`EffectGranted`**: what decides is the server's check on the snapshot of the
  call, not what the bridge was told to offer at its launch.
- **`RepliesTrue`**, **`OneReply`**: a result says that the effect is there once, an
  error that nothing ran; a call that was given up, and its late answer, never
  pass for another's, and no line is answered twice. A call reported as failed may
  have had its effect.
- **`RequestsReplied`**: the bridge answers what it should although the server owes it
  nothing. A bridge that is gone (its CLI ended, or a line was not an object) is
  excepted.
- **`EntriesStay`**, **`TranscriptKept`**: an entry keeps its place and id; the messages
  implement `Transcript`, so no turn writes another's message, no call loses its
  latest status, and the file never replaces what was shown. Whose text the file
  holds is not told apart: `Transcript` allows a turn to show another one's.
- **`ShownIsTracked`**: a login whose code a user holds, and which was not signalled, is
  the one that the next start or a logout will signal, whatever requests conflict
  with each other.
- **`LogoutSignalsLogins`**: when a logout has removed the credential, every login shown
  before it has been signalled or is over. Not that none is left to write the
  credential again: `_codexoo_reap_login` sends SIGTERM and waits for nobody, so a
  login that has not died of it yet may write `auth.json` after it was removed
  (`models/res_users.py:357`). The docstring's "forces re-authentication" (339) is
  therefore not checked; it does not hold.
- **`GateClears`**: the gate opens (or the credential goes away again).
- **`AttachmentsOnDisk`**: a committed attachment has its whole file, or none at all
  because its directory could not be made, which is answered 400 by a handler that
  returns, so that the attachment is kept; an upload that is answered as stored
  holds none of that sort. Excepted are files that a later send opened again (it
  truncates them before it writes) and those of a lost volume.
- **`PromptFilesExist`**: a run is launched only with a prompt whose files are all
  there, those without a file since their upload included. That a file is whole
  is not said: another send may be writing it again.
- **`UploadsSpareRuns`**: an upload never makes a worker's transaction fail.
- **`SidsDeleted`**: the routing session of a run exists until its loop is left, and is
  gone afterwards unless its deletion failed, which the code does not tell anybody
  (`models/codexoo_session.py:354-355`). A run whose routing session could not be
  saved has none (342-344). It stays behind where the loop was never entered.

Bounds, and why they suffice. Two runs are what one session needs for two
generations to meet; two requests for a race of sends or a send with a stop; one
pid makes the second run wait for the first CLI to be collected, while the workers,
stops and the reaper still overlap, and in `progress` strangers take one of two.
Two live CLIs of one session are in `fallback`, with two pids, and in the proofs:
TLC does not finish `overlap` with both two requests and two pids in minutes. `TimeoutS`
and `GraceS` are counted in units; `GraceS = 0` is the hardest case for the
reaper's cutoff. `MaxUnread` bounds the unread lines, `MaxRestarts` the restarts,
`Runs` the sends, `OtherPids` the pids that strangers take. `progress` has one
request: two of them could overlap stop transactions for ever and keep the clock
from moving, an artefact of the unit of time. In `ToolCalls` and `Login` two tries
stand for Odoo's five: the first, a repeated one, and giving up. `MaxMints` tokens:
one in `tool_commits` and `bridge`, where expiry stands for supersession, since a
call only compares its token with the one in force; two in `tool_partial`, and any
number in `EffectsUnderTokens`. `bridge` needs
two lines for a late answer to meet another call, restarts the server under them,
and has one policy whose tools the bridge does not know (web tools and writes
under zero-trust). `MaxCalls = 2` entries let a repeated id, a new one and one
without id meet; `MaxLogins = 2` let a second login start while the
first, signalled, is still running, or two requests each leave a process behind;
two attachments, one of which is refused or torn. `MaxFaults = 1` in `files` is one
fault anywhere, whichever it is; the instance with two passes as well, but takes
five minutes.

Fairness. `SessionRuns` assumes weak fairness for the end of an open request, for
each worker thread and for both halves of the cron job, and strong fairness for
`Tick`, which short transactions keep disabling but cannot stop. Users, the CLI,
other processes and restarts are under no obligation. `ToolCalls` assumes only
that the server goes on with the requests it has. `Bridge` assumes only that each
bridge process goes on, its timeout included; the server may hang. `Login` assumes
that the server goes on with its requests, and strong fairness of `Poll`: an
interval timer fires again and again, and two requests of other tabs cannot keep
it out for ever.

### Where the code departs from its documents

Each is a run that ends with a counterexample; `findings` quotes the sentence.

| Run | Property | What happens |
|---|---|---|
| `stop` | `StopSignalsItsCli` | a stop before the pid is committed signals nothing, and the CLI runs on beside an idle session; on longer behaviours a timed-out run leaves its pid in the row, and a stop signals whoever has it by then |
| `cap` | `CapCountsEveryUser` | the cap "across all users" is counted under the sender's record rules: only their own sessions |
| `fallback` | `FallbackWithoutTurnEnd` | a worker's closing transaction takes the next run's `running` for its own and ends it |
| `tool_partial` | `FailedRolledBack` | a failing tool's earlier writes are committed, since `_run` swallows the exception |
| `turn_final` | `FinalTextShown` | a turn that called a tool and streamed no text does not take the final message from the file, on a session that is still running |

## 4. What is proved

For every value of the constants that satisfies the named assumptions of the
modules. These are: finitely many runs; runs, requests, the reaper, calls and other
users distinct actors; natural durations and bounds, at least one try; a `None` that
is nothing else; defaults that are read tools and policies that are grants
(`Bridge`). Nothing is assumed of the behaviour.

| Theorem | Statement |
|---|---|
| `SessionRunsProofs!TypesKept` | `Spec => []TypeOK` |
| `SessionRunsProofs!SendsAdmitted` | `Spec => AdmitOnlyIdle` |
| `SessionRunsProofs!RunningForLatest` | `Spec => []RunningIsLatest` |
| `SessionRunsProofs!TurnsCounted` | `Spec => []TurnsCountFinished` |
| `SessionRunsProofs!ReadingSpared` | `Spec => []ReaperSparesReading` |
| `SessionLifeProofs!LifeImplemented` | `Spec => LifeKept` (refinement) |
| `ToolCallsProofs!CallTypesKept` | `Spec => []TypeOK` |
| `ToolCallsProofs!LogAlwaysTellsAnswer` | `Spec => []LogTellsAnswer` |
| `ToolCallsProofs!AnswersAlwaysTrue` | `Spec => []AnswersTrue` |
| `ToolCallsProofs!EffectsUnderTokens` | `Spec => EffectUnderToken` |
| `ToolCallsProofs!PromiseImplemented` | `Spec => PromiseKept` (refinement) |
| `BridgeProofs!BridgeIsToolCalls` | `BSpec => Spec` (of `ToolCalls`) |
| `BridgeProofs!BridgeKeepsPromises` | the five theorems of `ToolCalls` hold under `BSpec` |
| `BridgeProofs!BridgeTypesKept` | `BSpec => []BridgeTypeOK` |
| `BridgeProofs!EffectsAlwaysGranted` | `BSpec => []EffectGranted` |
| `BridgeProofs!RepliesAlwaysTrue` | `BSpec => []RepliesTrue` |
| `BridgeProofs!RepliedAtMostOnce` | `BSpec => []OneReply` |
| `TurnStreamProofs!StreamTypesKept` | `Spec => []TypeOK` |
| `TurnStreamProofs!EntriesAlwaysStay` | `Spec => EntriesStay` |
| `TurnStreamProofs!TranscriptImplemented` | `Spec => TranscriptKept` (refinement) |
| `LoginProofs!LoginTypesKept` | `Spec => []TypeOK` |
| `LoginProofs!ShownAlwaysTracked` | `Spec => []ShownIsTracked` |
| `LoginProofs!LogoutAlwaysSignalsLogins` | `Spec => []LogoutSignalsLogins` |
| `FilesProofs!FileTypesKept` | `Spec => []TypeOK` |
| `FilesProofs!AttachmentsAlwaysOnDisk` | `Spec => []AttachmentsOnDisk` |
| `FilesProofs!SidsAlwaysDeleted` | `Spec => []SidsDeleted` |
| `FilesProofs!PromptsAlwaysComplete` | `Spec => PromptFilesExist` |
| `FilesProofs!UploadsAlwaysSpareRuns` | `Spec => UploadsSpareRuns` |

**SessionRuns.** None of the invariants is inductive: each needs to know that a
transaction which can still commit sees what is committed, `Tx!SnapshotCurrent`.
That is preserved because `Commit` closes every snapshot it overtakes
(`CurrentAlways`). With the types (`TypedAlways`), and the fact that a send in
progress has seen a session that was not running (`SendersAlways`), every
action is shown to be of one of a few kinds in what it does to the rows and
the workers (`EffectStep`): it keeps the rows' jti and turn count and sets no
session running; it launches a run on a session that is not running; or it
concludes a run. The invariants about states and turns follow from the kinds
alone. `ReadingSpared` rests on an invariant about time (`DeadlinesFirst`): while a
worker reads, the age of its session plus what is left of its deadline is at
most `TimeoutS`, so it cannot be stale.

**SessionLife.** The refinement needs the same facts and one more, that what the
reaper has read is running (`ReapsRunning`). `SnapshotCurrent` is what makes it work:
the record that a commit writes was computed from the snapshot, and the abstract
action computes it from the row. One lemma for each abstract action
(`LifeAdmits` ... `LifeReaps`) says when rows and workers have taken that step;
`LifeOfRequest`, `LifeOfWorker`, `LifeOfReaper` and `LifeOfElse` go through the actions:
the first halves of transactions, the CLI, the clock and the pids are not seen.

**ToolCalls.** The inductive invariant adds to the types three facts. `Handled(c)`:
where a call is in its handler decides what it has: a transaction of its own, over
its own target and not overtaken unless it can no longer write; an outcome once it
has settled; the token it was authenticated under while it is at work; one entry in the log
for each try whose handler has ended, and the last of them its outcome or the mark
of a failed insert. `Tx!SnapshotCurrent`, again, since a commit adds to
the counts that its transaction has read. `EffectsWithAnswers`: an effect is there
once and with its answer, and a success that wrote has it. `AnswersTrue` alone is
not inductive, because a call that starts over must be known to have committed
nothing at its earlier tries, nor `LogTellsAnswer`, because it says nothing of the log
of a call that is still at work, or is run again. The refinement of `CallPromise` follows from the same invariant:
a step that changes a count is the `Commit` of one call (`EffectSteps`), whose `Handled`
says that it is open, known to the log and has an outcome.

**Bridge.** First, a step of the composition is one of `ToolCalls` or leaves its
variables alone, so that everything above holds of it (`BridgeIsToolCalls`). Then
the invariant `BridgeInv` adds to `ToolCalls`' own: `Tended(t)` (a line is in the pipe of
its own bridge, once, before anything was done about it; the call a bridge waits
for is its own and has no reply), `Truthful(c)` (at most one reply; a result only for
a call that is answered as a success, a state it never leaves; an error only for
one that was not posted) and `Permitted(c)` (a posted call whose tool is granted now,
or was at its transaction's beginning, or that wrote, has been allowed). That a
late answer passes for no other call's is `Tended` and `Truthful` together: neither is
inductive alone, nor is `RepliesTrue`, which does not know which call a bridge
waits for.

**TurnStream.** The inductive invariant says of each turn that its index is true
(`IndexTrue`: the ids it knows and the places of the list correspond one to one, the
entry at a place having the id that leads to it), and that a closing worker carries
a text from the file only if its turn has no message (`FinalForNone`). The
refinement then goes step by step: `Report` of the abstract set, which replaces the
status of one id, is the upsert into the list because no other entry has that id;
`Close` fills a blank because the file was read when there was no message, and
nobody but the turn itself can have made one since.

**Login.** `ShownIsTracked` is kept only because a request that replaces the parameter
has read it as it still is and has signalled the process it found there. `LoginInv` says
so: `Tx!SnapshotCurrent`; `Handled(q)` (a request goes by what its transaction read;
past `_codexoo_reap_login` the process in the parameter is not alive; a logout found
there every login that was shown before it); `Started` (nobody is shown a process
that was not started, nor is one in the parameter). `LogoutSignalsLogins` follows
from `Handled`: every login shown before the logout is the one it found, and that one
has been signalled, a state it leaves only for its end.

**Files.** `FilesInv` says of a request (`Handled(q)`) that what an upload holds is `Fine`
(whole, or without a file because its directory failed, or opened again or lost
since) and free of the second sort unless the upload ends with an error, that the
files a send has written are on disk, and that the run it has prepared is still its
own to launch; of a run (`Worked(s)`) that its routing session, if it has one, is
there until its loop is left and after that only if the deletion failed, that the
files of its prompt are on disk until the launch, and that `working_dir` is set
while it lives. The last makes
`UploadsSpareRuns` hold: an upload writes the row only where `working_dir` was not set in
its snapshot, which by `Tx!SnapshotCurrent` is the row, so no run can be alive.

`LoginInv`, `FilesInv` and `BridgeInv` were checked by TLC, as invariants on instances
like those of section 3 (up to 2.7 million states), before they were proved.

Only model-checked: the liveness properties (`RunningResolves`, `DeadlineEnforced`,
`CallsAnswered`, `RequestsReplied`, `GateClears`), because temporal reasoning under
fairness is beyond the prover used. The properties of the five runs that end with a
counterexample are false, and nothing is proved of them. Every other property that
a run checks is a theorem.

To repeat: `tlc -config SessionRuns_overlap.cfg MCSessionRuns.tla` (and so on for
each `.cfg`, with the `MC` module of the name before the underscore), and `tlapm` on
each `*Proofs.tla`. Operators whose comment says "a bug's form" are
mutations: put in the place of the operator they follow, each makes the property
that `mutants` in `PROJECT.json` names fail, which shows that it depends on that
line of the code.

## 5. Not modelled

- The **chat client** beyond its login gate: optimistic messages, bus events and rpc
  answers out of order (planned, below).
- The **pipes** of a run: stdin, the pump thread and its queue, stderr. `SessionRuns`
  reads a line in one step and takes the prompt for written.
- The **catalogue** of tools as records (archived, deleted), the comma lists of the
  settings, the SQL guard's regular expressions, prompt and argument text, rendering:
  pure functions on text, for unit tests. (The comment at
  `models/codexoo_session.py:46` says that the runner enables Codex's web search
  when it is granted; `_launch` computes `web_enabled` and nothing uses it.)
- What a tool does inside (`check_access`, record rules, business methods): external.
- Several Odoo processes with caches of their own (`ir.config_parameter` is cached
  per process); several users of one bridge or login, which share nothing there.
- Recycled pids of login processes (those of CLIs are in `SessionRuns`).

## 6. Plan

1. `ChatClient`: `running`, `messages` and `currentId` against bus events and rpc
   answers in any order; promise: what the screen shows converges to the row.
2. `RunPipes`: stdin, stdout, the pump thread and its queue, stderr; an abstract queue
   of lines with a deadline, implemented by it.
3. The composition of `SessionRuns` with `ToolCalls` through the token, for the token's
   lifetime against the run's and for calls after a stop.
4. `ToolPolicy`: `_codexoo_effective_tools` with the catalogue's records, over all
   small configurations.
