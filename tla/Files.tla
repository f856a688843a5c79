--------------------------------- MODULE Files ---------------------------------
(***************************************************************************)
(* What a session keeps outside the database: the uploaded files in its    *)
(* scratch directory, and the routing sessions in Odoo's session store by  *)
(* which the bridge of a run reaches the right database.  Both are made in  *)
(* the middle of a transaction that may fail, start over, or never commit.  *)
(*                                                                         *)
(* codexoo/models/codexoo_session.py (_store_upload, _get_scratch_dir,      *)
(* _materialize_attachments, _mint_routing_sid), the upload route of        *)
(* codexoo/controllers/main.py and the worker of                            *)
(* codexoo/models/codexoo_runner.py, for one session.                       *)
(***************************************************************************)
EXTENDS Integers, FiniteSets

CONSTANTS Reqs,         \* requests the server handles at a time
          MaxAtts,      \* bound: attachments ever created
          MaxSids,      \* bound: routing sessions ever minted
          MaxFaults     \* bound: restarts of the server, and failures to make a
                        \* directory or write a file, to save or delete a
                        \* routing session, and to start a CLI

ASSUME FileBounds == /\ MaxAtts \in Nat /\ MaxSids \in Nat /\ MaxFaults \in Nat
ASSUME RequestsAreNotRuns == Reqs \cap (1 .. MaxSids) = {}

Session == "session"
Atts == 1 .. MaxAtts
Sids == 1 .. MaxSids    \* a send, and its run if it commits, go by the sid

VARIABLES row, snap, doomed,   \* the session's state, and whether working_dir is set
          atts,       \* attachments committed
          created,    \* attachments created, ids are not used twice
          disk,       \* disk[a]: the file of attachment a
          touched,    \* attachments whose file was opened again, or lost
          bare,       \* history: those whose directory could not be made
          store,      \* routing sessions in the session store
          undeleted,  \* history: those whose deletion failed
          run,        \* run[s]: the run of the send that minted s
          req,        \* req[q]: a request and its handler
          faults

tables == <<row, snap, doomed>>
files == <<created, disk, touched>>
routing == <<store, undeleted>>
vars == <<tables, atts, bare, files, routing, run, req, faults>>

Tx == INSTANCE SnapshotTx WITH Keys <- {Session}, Actors <- Reqs \cup Sids

Record == [running: BOOLEAN, dir: BOOLEAN]
Run == [pc: {"none", "minted", "launched", "starting", "reading", "hearing",
             "over", "lost"},
        prompt: SUBSET Atts,      \* until its launch: the files that it names
        routed: BOOLEAN]          \* it has a routing session
Req == [pc: {"free", "storing", "writing", "sending", "closing", "again"},
        kind: {"upload", "send"},
        dir: BOOLEAN,             \* working_dir was set when it began
        indir: BOOLEAN,           \* it has made the directory: working_dir is set
        names: SUBSET Atts,       \* what a send asks for and has not written
        mine: SUBSET Atts,        \* what it has stored or written
        sid: 0 .. MaxSids,        \* the run that a send has prepared
        ok: BOOLEAN]              \* an upload is to be answered as stored

Idle == [pc |-> "free", kind |-> "send", dir |-> FALSE, indir |-> FALSE, names |-> {},
         mine |-> {}, sid |-> 0, ok |-> FALSE]

Init ==
  /\ row = [k \in {Session} |-> [running |-> FALSE, dir |-> FALSE]]
  /\ Tx!TxInit
  /\ atts = {}
  /\ created = 0
  /\ disk = [a \in Atts |-> "none"]
  /\ touched = {} /\ bare = {}
  /\ store = {} /\ undeleted = {}
  /\ run = [s \in Sids |-> [pc |-> "none", prompt |-> {}, routed |-> FALSE]]
  /\ req = [q \in Reqs |-> Idle]
  /\ faults = 0

Fault ==
  /\ faults < MaxFaults
  /\ faults' = faults + 1

At(q, pc) == req[q].pc = pc
Ran(s, pc) == run[s].pc = pc
Follows(s, pc) == run' = [run EXCEPT ![s].pc = pc]

-----------------------------------------------------------------------------
(* POST /codexoo/upload: each file becomes an attachment, and is written.   *)

Arrive(q, r) ==
  /\ At(q, "free") /\ Tx!Begin(q, {Session})
  /\ req' = [req EXCEPT ![q] = [r EXCEPT !.dir = row[Session].dir]]
  /\ UNCHANGED <<atts, bare, files, routing, run, faults>>

UploadBegin(q) == Arrive(q, [Idle EXCEPT !.pc = "storing", !.kind = "upload"])

(* The attachment is created, then the directory made and the file opened:  *)
(* empty.  (A bug's form of Opened: the file is left to the send.)          *)
OpenedLater(a) == disk
Opened(a) == [disk EXCEPT ![a] = "torn"]

Create(q) ==
  /\ At(q, "storing") /\ created < MaxAtts
  /\ created' = created + 1
  /\ disk' = Opened(created')
  /\ req' = [req EXCEPT ![q].pc = "writing", ![q].indir = TRUE,
                        ![q].mine = @ \cup {created'}]
  /\ UNCHANGED <<tables, atts, bare, touched, routing, run, faults>>

(* The attachment is created, and one of its two directories cannot be made:*)
(* answered as an error by a handler that returns, so that the attachment is*)
(* kept, without a file.                                                    *)
DirFails(q) ==
  /\ Fault
  /\ At(q, "storing") /\ created < MaxAtts
  /\ created' = created + 1
  /\ \E indir \in {req[q].indir, TRUE} :
       req' = [req EXCEPT ![q].pc = "closing", ![q].indir = indir,
                          ![q].mine = @ \cup {created'}]
  /\ bare' = bare \cup {created'}
  /\ UNCHANGED <<tables, atts, disk, touched, routing, run>>

(* It is written, and the next one is due.  (A bug's form of Written: not   *)
(* truncated when it was opened, it keeps the end of an older content.)     *)
WrittenOver == "mixed"
Written == "whole"

WriteFile(q) ==
  /\ At(q, "writing")
  /\ disk' = [a \in Atts |-> IF a \in req[q].mine /\ disk[a] = "torn" THEN Written
                             ELSE disk[a]]
  /\ req' = [req EXCEPT ![q].pc = IF req[q].kind = "upload" THEN "storing" ELSE "sending"]
  /\ UNCHANGED <<tables, atts, bare, created, touched, routing, run, faults>>

(* The file cannot be opened, or the disk is full; a send fails by its      *)
(* directories too.  An error and a rollback, which leaves files alone.     *)
WriteFails(q) ==
  /\ \/ At(q, "writing")
     \/ At(q, "storing")
     \/ At(q, "sending") /\ req[q].names # {}
  /\ Fault /\ Tx!End(q)
  /\ req' = [req EXCEPT ![q] = Idle]
  /\ UNCHANGED <<atts, bare, files, routing, run>>

(* All are stored; or the next one is refused, or there is none, which is   *)
(* answered as an error by a handler that returns, so that those before it  *)
(* are kept.                                                               *)
UploadEnds(q) ==
  /\ At(q, "storing")
  /\ \E ok \in BOOLEAN :
       /\ ok => req[q].mine # {}
       /\ req' = [req EXCEPT ![q].pc = "closing", ![q].ok = ok]
  /\ UNCHANGED <<tables, atts, bare, files, routing, run, faults>>

-----------------------------------------------------------------------------
(* POST /codexoo/send: the files it names are written anew.                 *)

SendBegin(q) ==
  \E names \in SUBSET atts :
    /\ ~row[Session].running
    /\ Arrive(q, [Idle EXCEPT !.pc = "sending", !.kind = "send", !.names = names])

(* (A bug's form of ToWrite: the upload has written them, has it not.)       *)
ToWriteNone(q) == {a \in req[q].names : disk[a] = "torn"}
ToWrite(q) == req[q].names

Reopen(q) ==
  /\ At(q, "sending")
  /\ \E a \in ToWrite(q) :
       /\ disk' = [disk EXCEPT ![a] = "torn"]
       /\ touched' = touched \cup {a}
       /\ req' = [req EXCEPT ![q].pc = "writing", ![q].indir = TRUE,
                             ![q].names = @ \ {a}, ![q].mine = @ \cup {a}]
  /\ UNCHANGED <<tables, atts, bare, created, routing, run, faults>>

(* A routing session is saved, which the worker is to delete; or that fails,*)
(* and the run is launched without one.                                     *)
Prepare(q, s, routed) ==
  /\ At(q, "sending") /\ ToWrite(q) = {}
  /\ Ran(s, "none") /\ \A n \in 1 .. s - 1 : ~Ran(n, "none")
  /\ run' = [run EXCEPT ![s] = [pc |-> "minted", routed |-> routed,
                                prompt |-> req[q].mine \cup req[q].names]]
  /\ req' = [req EXCEPT ![q].pc = "closing", ![q].indir = TRUE, ![q].sid = s]
  /\ UNCHANGED <<tables, atts, bare, files, undeleted>>

Mint(q) ==
  \E s \in Sids :
    \/ Prepare(q, s, TRUE) /\ store' = store \cup {s} /\ UNCHANGED faults
    \/ Prepare(q, s, FALSE) /\ Fault /\ UNCHANGED store

(* There is no CLI to run, or no directory to run it in: an error, and a    *)
(* rollback.                                                               *)
LaunchFails(q) ==
  /\ At(q, "sending") /\ ToWrite(q) = {} /\ Tx!End(q)
  /\ req' = [req EXCEPT ![q] = Idle]
  /\ UNCHANGED <<atts, bare, files, routing, run, faults>>

-----------------------------------------------------------------------------
(* The end of a request.                                                   *)

(* The first file, or the first run, sets working_dir.  (A bug's form: each *)
(* one does.)                                                               *)
SetsDirAlways(q) == req[q].indir
SetsDir(q) == req[q].indir /\ ~req[q].dir

Writes(q) == req[q].kind = "send" \/ SetsDir(q)

NewRow(q) ==
  [running |-> req[q].kind = "send" \/ snap[q][Session].running,
   dir     |-> req[q].dir \/ req[q].indir]

Promptless(sid, pc) ==
  [s \in Sids |-> IF s = sid THEN [run[s] EXCEPT !.pc = pc, !.prompt = {}] ELSE run[s]]

(* The attachments of an upload are committed, whatever it is answered; the *)
(* thread of a send starts.                                                *)
Commit(q) ==
  /\ At(q, "closing")
  /\ IF Writes(q) THEN Tx!Commit(q, [k \in {Session} |-> NewRow(q)]) ELSE Tx!End(q)
  /\ atts' = IF req[q].kind = "upload" THEN atts \cup req[q].mine ELSE atts
  /\ run' = Promptless(req[q].sid, "launched")
  /\ req' = [req EXCEPT ![q] = Idle]
  /\ UNCHANGED <<bare, files, routing, faults>>

(* It fails to serialize: the request starts over, a send with what it was  *)
(* asked for; or it has done so often enough.  What it minted and wrote     *)
(* stays.                                                                  *)
Again(x) ==
  [Idle EXCEPT !.pc = "again", !.kind = x.kind,
               !.names = IF x.kind = "send" THEN x.mine ELSE {}]

Conflict(q) ==
  /\ At(q, "closing") /\ Writes(q) /\ Tx!Conflict(q)
  /\ \E again \in {Again(req[q]), Idle} : req' = [req EXCEPT ![q] = again]
  /\ run' = Promptless(req[q].sid, "lost")
  /\ UNCHANGED <<atts, bare, files, routing, faults>>

FirstStep == [upload |-> "storing", send |-> "sending"]

Retry(q) ==
  /\ At(q, "again")
  /\ \/ /\ req[q].kind = "send" /\ row[Session].running     \* refused
        /\ req' = [req EXCEPT ![q] = Idle]
        /\ UNCHANGED tables
     \/ /\ req[q].kind = "send" => ~row[Session].running
        /\ Tx!Begin(q, {Session})
        /\ req' = [req EXCEPT ![q].pc = FirstStep[req[q].kind],
                              ![q].dir = row[Session].dir]
  /\ UNCHANGED <<atts, bare, files, routing, run, faults>>

-----------------------------------------------------------------------------
(* The worker of a run.                                                     *)

Start(s) ==
  /\ Ran(s, "launched") /\ Tx!Begin(s, {Session})
  /\ Follows(s, "starting")
  /\ UNCHANGED <<atts, bare, files, routing, req, faults>>

(* The CLI cannot be started, or the commit of its pid fails: the routing   *)
(* session stays.                                                          *)
StartFails(s) ==
  /\ Ran(s, "starting")
  /\ \/ Tx!Conflict(s) /\ UNCHANGED faults
     \/ Tx!End(s) /\ Fault
  /\ Follows(s, "lost")
  /\ UNCHANGED <<atts, bare, files, routing, req>>

StartCommit(s) ==
  /\ Ran(s, "starting") /\ Tx!Commit(s, snap[s])
  /\ Follows(s, "reading")
  /\ UNCHANGED <<atts, bare, files, routing, req, faults>>

(* It handles an event of the CLI and commits; the turn, or a stop, may end *)
(* with it.                                                                *)
Hear(s) ==
  /\ Ran(s, "reading") /\ Tx!Begin(s, {Session})
  /\ Follows(s, "hearing")
  /\ UNCHANGED <<atts, bare, files, routing, req, faults>>

HearCommit(s) ==
  /\ Ran(s, "hearing") /\ s \notin doomed
  /\ \E r \in {snap[s][Session].running, FALSE} :
       Tx!Commit(s, [k \in {Session} |-> [snap[s][Session] EXCEPT !.running = r]])
  /\ Follows(s, "reading")
  /\ UNCHANGED <<atts, bare, files, routing, req, faults>>

(* The loop is left: at the end of the output and after the timeout, or by  *)
(* whatever the handling of an event raises, a conflict included.  The      *)
(* routing session is deleted; if that fails, nobody is told.  (A bug's form*)
(* of Cleaned: there is no finally.)                                        *)
CleanedAtEnd(s) == IF Ran(s, "reading") THEN store \ {s} ELSE store
Cleaned(s) == store \ {s}

Leave(s) ==
  /\ \/ Ran(s, "reading") /\ UNCHANGED tables
     \/ Ran(s, "hearing") /\ (Tx!End(s) \/ Tx!Conflict(s))
  /\ \/ store' = Cleaned(s) /\ UNCHANGED <<undeleted, faults>>
     \/ /\ run[s].routed /\ Fault
        /\ undeleted' = undeleted \cup {s}
        /\ UNCHANGED store
  /\ Follows(s, "over")
  /\ UNCHANGED <<atts, bare, files, req>>

(* The server restarts, and may have lost its scratch directories if they   *)
(* are not on a volume that lasts.                                          *)
Restart ==
  /\ Fault
  /\ Tx!RollbackAll
  /\ req' = [q \in Reqs |-> Idle]
  /\ run' = [s \in Sids |-> IF Ran(s, "none") \/ Ran(s, "over") THEN run[s]
                            ELSE [pc |-> "lost", prompt |-> {}, routed |-> FALSE]]
  /\ \/ UNCHANGED <<disk, touched>>
     \/ /\ disk' = [a \in Atts |-> "none"]
        /\ touched' = 1 .. created
  /\ UNCHANGED <<atts, bare, created, routing>>

-----------------------------------------------------------------------------
Handle(q) ==
  \/ Create(q)
  \/ DirFails(q)
  \/ WriteFile(q)
  \/ WriteFails(q)
  \/ UploadEnds(q)
  \/ Reopen(q)
  \/ Mint(q)
  \/ LaunchFails(q)
  \/ Commit(q)
  \/ Conflict(q)
  \/ Retry(q)

Work(s) ==
  \/ Start(s)
  \/ StartFails(s)
  \/ StartCommit(s)
  \/ Hear(s)
  \/ HearCommit(s)
  \/ Leave(s)

Next ==
  \/ \E q \in Reqs : UploadBegin(q) \/ SendBegin(q) \/ Handle(q)
  \/ \E s \in Sids : Work(s)
  \/ Restart

Spec == Init /\ [][Next]_vars

-----------------------------------------------------------------------------
(* Every variable has its type.                                            *)
TypeOK ==
  /\ row \in [{Session} -> Record]
  /\ \A x \in Reqs \cup Sids : \E S \in SUBSET {Session} : snap[x] \in [S -> Record]
  /\ doomed \subseteq Reqs \cup Sids
  /\ atts \subseteq Atts /\ created \in 0 .. MaxAtts
  /\ disk \in [Atts -> {"none", "torn", "whole"}]
  /\ touched \subseteq Atts /\ bare \subseteq Atts
  /\ store \subseteq Sids /\ undeleted \subseteq Sids
  /\ run \in [Sids -> Run]
  /\ req \in [Reqs -> Req]
  /\ faults \in 0 .. MaxFaults

(* A committed attachment has its whole file on disk, even after a crash, a *)
(* full disk or a rejected neighbour, unless a later send opened it again or*)
(* the directory was lost; or it has none, not even a torn one, because its *)
(* directory could not be made.  No upload is answered as stored that holds *)
(* such an attachment.                                                     *)
AttachmentsOnDisk ==
  /\ \A a \in atts \ touched :
       disk[a] = "whole" \/ (disk[a] = "none" /\ a \in bare)
  /\ \A q \in Reqs : req[q].ok => req[q].mine \cap bare = {}

(* A run is launched with a prompt whose files are all there, whatever was  *)
(* lost or left behind before ("Ensure the given (own) attachments exist on *)
(* disk", _materialize_attachments).                                       *)
PromptFilesExist ==
  [][\A s \in Sids : ~Ran(s, "launched") /\ run'[s].pc = "launched"
       => \A a \in run[s].prompt : disk[a] # "none"]_vars

(* An upload writes the session's row only before the first run, so that it *)
(* never makes the transaction of a worker fail, which would leave the      *)
(* session running until it is reaped.                                     *)
UploadsSpareRuns ==
  [][\A q \in Reqs : At(q, "closing") /\ req[q].kind = "upload" /\ req'[q].pc = "free"
       => (doomed' \ doomed) \cap Sids = {}]_vars

(* A routing session outlives its run only if the run never reached its     *)
(* loop, the server went down, or its deletion failed: however the loop     *)
(* ends, by an exception or a conflict too, it is deleted, and no run       *)
(* deletes another's that still needs it.                                   *)
SidsDeleted ==
  \A s \in Sids :
    /\ Ran(s, "over") /\ s \in store => s \in undeleted
    /\ run[s].routed /\ run[s].pc \in {"launched", "starting", "reading", "hearing"}
         => s \in store
================================================================================
