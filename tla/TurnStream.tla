------------------------------ MODULE TurnStream ------------------------------
(***************************************************************************)
(* What a run leaves in the conversation: the events of its CLI, one per   *)
(* line and one transaction each, build the assistant's message of the     *)
(* turn; the file that the CLI was told to put its final message into, one *)
(* for all turns of the session, is read and removed when the CLI ended.   *)
(*                                                                         *)
(* codexoo/models/codexoo_runner.py: _handle_item, _upsert_tool_call,       *)
(* _ensure_assistant, _read_last_message and the end of _execute.           *)
(* Turns may overlap: a session that was stopped, or whose turn reported   *)
(* its end, can be sent to while the older CLI is alive.                   *)
(***************************************************************************)
EXTENDS Integers, Sequences, Functions

CONSTANTS Turns,      \* the sends of one session
          Items,      \* ids that a CLI gives its tool items
          Texts,      \* texts of the assistant
          MaxCalls,   \* bound: tool calls shown by one message
          None        \* no record, no text, no id, no file

ASSUME MaxCallsIsNat == MaxCalls \in Nat
ASSUME NoneIsNothing == None \notin Texts \cup Items \cup Nat

VARIABLES running,   \* whether codexoo.session.state is 'running'
          worker,    \* worker[t]: the thread of turn t
          message,   \* message[t]: its codexoo.message record, or None
          toolIdx,   \* toolIdx[t]: st["tool_idx"] of its thread
          file       \* last_message.txt in the session's scratch directory

vars == <<running, worker, message, toolIdx, file>>

Words    == {"in_progress", "completed", "failed", "unknown"}
Statuses == {"running", "done", "error"}
EntryIds == Items \cup 0 .. MaxCalls - 1
Entry    == [id: EntryIds, status: Statuses]
Message  == [body: Texts \cup {None}, calls: Seq(Entry)]
Worker   == [pc: {"none", "reading", "closing", "over", "failed"},
             final: Texts \cup {None},    \* what it read from the file
             doomed: BOOLEAN]             \* the session was written since

ASSUME NoneIsNoMessage == None \notin Message

NoCalls == << >>

Init ==
  /\ running = FALSE
  /\ worker = [t \in Turns |-> [pc |-> "none", final |-> None, doomed |-> FALSE]]
  /\ message = [t \in Turns |-> None]
  /\ toolIdx = [t \in Turns |-> << >>]
  /\ file = None

-----------------------------------------------------------------------------
(* The session row.  Whoever writes it makes the closing transaction of any *)
(* other worker fail to serialize, if it has read the row before.           *)

Overtaken(w) == IF w.pc = "closing" THEN [w EXCEPT !.doomed = TRUE] ELSE w

(* Turn t commits the row and is the worker w from now on.                   *)
WriteSession(r, t, w) ==
  /\ running' = r
  /\ worker' = [u \in Turns |-> IF u = t THEN w ELSE Overtaken(worker[u])]

Goto(t, pc) == [worker[t] EXCEPT !.pc = pc]

Send(t) ==
  /\ ~running /\ worker[t].pc = "none"
  /\ WriteSession(TRUE, t, Goto(t, "reading"))
  /\ UNCHANGED <<message, toolIdx, file>>

(* A stop, or the reaper.                                                   *)
Interrupt ==
  /\ running' = FALSE
  /\ worker' = [u \in Turns |-> Overtaken(worker[u])]
  /\ UNCHANGED <<message, toolIdx, file>>

-----------------------------------------------------------------------------
(* Item events: each is handled and committed on its own.                  *)

(* The assistant message of the turn, created when first needed.            *)
EnsureAssistant(t) ==
  IF message[t] = None THEN [body |-> None, calls |-> NoCalls] ELSE message[t]

Reading(t) == worker[t].pc = "reading"

(* agent_message: the latest full text; an empty one changes nothing.       *)
HearText(t, x) ==
  /\ Reading(t)
  /\ message' = [message EXCEPT ![t] = [EnsureAssistant(t) EXCEPT !.body = x]]
  /\ UNCHANGED <<running, worker, toolIdx, file>>

MapStatus(word) ==
  CASE word = "completed" -> "done"
    [] word = "failed"    -> "error"
    [] OTHER              -> "running"

(* An item without an id is named after the number of calls shown before.   *)
EntryId(item, calls) == IF item = None THEN Len(calls) ELSE item

(* A bug's form of Upsert: an entry moves to the end when it changes.       *)
UpsertMoves(calls, idx, e) ==
  IF e.id \in DOMAIN idx THEN Append(SelectSeq(calls, LAMBDA c : c.id # e.id), e)
  ELSE Append(calls, e)
Upsert(calls, idx, e) ==
  IF e.id \in DOMAIN idx THEN [calls EXCEPT ![idx[e.id]] = e] ELSE Append(calls, e)

(* A bug's form of Indexed: the length is taken for the index.               *)
IndexedByLength(calls, idx, id) ==
  IF id \in DOMAIN idx THEN idx
  ELSE [i \in DOMAIN idx \cup {id} |-> IF i = id THEN Len(calls) ELSE idx[i]]
Indexed(calls, idx, id) ==
  IF id \in DOMAIN idx THEN idx
  ELSE [i \in DOMAIN idx \cup {id} |-> IF i = id THEN Len(calls) + 1 ELSE idx[i]]

(* A tool item that started, was updated or completed.                      *)
HearCall(t, item, word) ==
  LET rec == EnsureAssistant(t)
      e   == [id |-> EntryId(item, rec.calls), status |-> MapStatus(word)]
  IN /\ Reading(t)
     /\ Len(rec.calls) < MaxCalls \/ e.id \in DOMAIN toolIdx[t]
     /\ message' = [message EXCEPT ![t] =
          [rec EXCEPT !.calls = Upsert(@, toolIdx[t], e)]]
     /\ toolIdx' = [toolIdx EXCEPT ![t] = Indexed(rec.calls, @, e.id)]
     /\ UNCHANGED <<running, worker, file>>

(* turn.completed, turn.failed or error.                                    *)
HearTurnEnd(t) ==
  /\ Reading(t)
  /\ WriteSession(FALSE, t, worker[t])
  /\ UNCHANGED <<message, toolIdx, file>>

(* A line that is JSON but not an object, a tool item whose status is not a *)
(* string (its message has been created by then), the timeout: whatever     *)
(* raises ends the worker, and the file stays.                              *)
FailRun(t) ==
  /\ Reading(t)
  /\ message' \in {message, [message EXCEPT ![t] = EnsureAssistant(t)]}
  /\ WriteSession(FALSE, t, Goto(t, "failed"))
  /\ UNCHANGED <<toolIdx, file>>

(* The worker ends without a word: its commit conflicts, the server stops.  *)
Die(t) ==
  /\ Reading(t)
  /\ worker' = [worker EXCEPT ![t] = Goto(t, "failed")]
  /\ UNCHANGED <<running, message, toolIdx, file>>

-----------------------------------------------------------------------------
(* The final message, and the end of the run.                               *)

(* The CLI writes its final message; it may outlive a worker that failed.   *)
CliWritesFinal(t, x) ==
  /\ worker[t].pc \in {"reading", "failed"}
  /\ file' = x
  /\ UNCHANGED <<running, worker, message, toolIdx>>

(* A bug's form of Fallback: the file is read whatever has been shown.      *)
FallbackAlways(t) == IF running THEN file ELSE None
Fallback(t) ==
  IF message[t] = None /\ running THEN file ELSE None

FinishBegin(t) ==
  /\ Reading(t)
  /\ worker' = [worker EXCEPT ![t] = [Goto(t, "closing") EXCEPT
                  !.final = Fallback(t)]]
  /\ UNCHANGED <<running, message, toolIdx, file>>

(* Its locals are forgotten with the thread.                                *)
Ended(t, pc) == [Goto(t, pc) EXCEPT !.final = None, !.doomed = FALSE]

(* A running session is done or in error; one that is not stays what it is. *)
FinishCommit(t) ==
  LET w == worker[t]
  IN /\ w.pc = "closing" /\ ~w.doomed
     /\ file' = None
     /\ message' = IF w.final = None THEN message
                   ELSE [message EXCEPT ![t] = [EnsureAssistant(t) EXCEPT !.body = w.final]]
     /\ WriteSession(FALSE, t, Ended(t, "over"))
     /\ UNCHANGED toolIdx

(* The file is gone before the transaction fails to serialize.              *)
FinishConflict(t) ==
  /\ worker[t].pc = "closing" /\ worker[t].doomed
  /\ file' = None
  /\ worker' = [worker EXCEPT ![t] = Ended(t, "failed")]
  /\ UNCHANGED <<running, message, toolIdx>>

-----------------------------------------------------------------------------
HearItem(t) ==
  \/ \E x \in Texts : HearText(t, x)
  \/ \E item \in Items \cup {None}, word \in Words : HearCall(t, item, word)

Next ==
  \/ Interrupt
  \/ \E t \in Turns :
       \/ Send(t)
       \/ HearItem(t)
       \/ HearTurnEnd(t)
       \/ FailRun(t)
       \/ Die(t)
       \/ \E x \in Texts : CliWritesFinal(t, x)
       \/ FinishBegin(t)
       \/ FinishCommit(t)
       \/ FinishConflict(t)

Spec == Init /\ [][Next]_vars

-----------------------------------------------------------------------------
(* Every variable has its type.                                            *)
TypeOK ==
  /\ running \in BOOLEAN
  /\ worker \in [Turns -> Worker]
  /\ message \in [Turns -> Message \cup {None}]
  /\ toolIdx = [t \in Turns |-> toolIdx[t]]
  /\ \A t \in Turns : \E S \in SUBSET EntryIds : toolIdx[t] \in [S -> 1 .. MaxCalls]
  /\ file \in Texts \cup {None}

(* What a reader has seen of the tool calls of a turn stays in its place:   *)
(* later events add entries at the end and change a status, whatever other  *)
(* turns and the end of the run do.                                         *)
EntriesStay ==
  [][\A t \in Turns : message[t] # None =>
       /\ message'[t] # None
       /\ \A n \in DOMAIN message[t].calls :
            /\ n \in DOMAIN message'[t].calls
            /\ message'[t].calls[n].id = message[t].calls[n].id]_vars

(* The messages, with overlapping turns, failing workers and the common     *)
(* file, are what Transcript promises: each is written by its own turn only,*)
(* shows the latest status of every call, and takes a text from the file in *)
(* no case but that nothing else was shown.                                 *)
Shown == INSTANCE Transcript WITH
  Ids <- EntryIds, NoText <- None,
  text  <- [t \in Turns |-> IF message[t] = None THEN None ELSE message[t].body],
  calls <- [t \in Turns |-> IF message[t] = None THEN {}
              ELSE {<<e.id, e.status>> : e \in Range(message[t].calls)}],
  phase <- [t \in Turns |-> CASE worker[t].pc = "none" -> "unsent"
                              [] worker[t].pc \in {"reading", "closing"} -> "open"
                              [] OTHER -> "closed"]
TranscriptKept == Shown!Spec

-----------------------------------------------------------------------------
(* What a comment says, and the code does not do.                           *)

(* "Fallback: if no assistant text was streamed, use the final-message file" *)
(* (_execute): a run that comes to its end without a text, in a session that *)
(* nothing has stopped or settled, takes the one in the file, if it has one. *)
Silent(t) == IF message[t] = None THEN TRUE ELSE message[t].body = None

FinalTextShown ==
  [][\A t \in Turns :
       /\ worker[t].pc = "reading" /\ worker'[t].pc = "closing"
       /\ running /\ Silent(t) /\ file # None
       => worker'[t].final = file]_vars
===============================================================================
