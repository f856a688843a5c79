------------------------------ MODULE FilesProofs ------------------------------
(* What TLAPS proves of Files for every number of requests, attachments,    *)
(* routing sessions and faults.                                            *)
EXTENDS Files, TLAPS

Busy == {"storing", "writing", "sending", "closing"}
Live == {"launched", "starting", "reading", "hearing"}
Parties == Reqs \cup Sids

(* An attachment whose file is whole, or was touched; or that has none for  *)
(* lack of a directory.                                                    *)
Fine(a) == disk[a] = "whole" \/ a \in touched \/ (disk[a] = "none" /\ a \in bare)

(* What a request's handler knows: the session as its transaction has read  *)
(* it; the files of a send are on disk; those of an upload are fine when    *)
(* they are written, and none is bare if it goes on or is answered as       *)
(* stored; and the run that it prepared is still its own to launch.         *)
Handled(q) ==
  /\ q \in doomed => DOMAIN snap[q] = {}
  /\ DOMAIN snap[q] # {} => req[q].pc \in Busy /\ snap[q][Session].dir = req[q].dir
  /\ req[q].pc = "again" => req[q].mine = {}
  /\ req[q].pc = "sending" => req[q].kind = "send"
  /\ req[q].pc = "storing" => req[q].kind = "upload"
  /\ \A a \in req[q].mine : a <= created
  /\ \A a \in req[q].names : a <= created
  /\ req[q].kind = "send" \/ req[q].pc \in {"storing", "writing"} =>
       \A a \in req[q].mine : disk[a] # "none"
  /\ req[q].kind = "upload" /\ req[q].pc # "writing" => \A a \in req[q].mine : Fine(a)
  /\ req[q].kind = "upload" /\ req[q].pc \in {"storing", "writing"}
       => req[q].mine \cap bare = {}
  /\ req[q].ok => req[q].mine \cap bare = {} /\ req[q].pc = "closing"
  /\ req[q].sid # 0 =>
       /\ req[q].pc = "closing" /\ req[q].kind = "send" /\ req[q].indir
       /\ Ran(req[q].sid, "minted")
       /\ \A r \in Reqs \ {q} : req[r].sid # req[q].sid

(* What a worker knows: it runs only after its send has set working_dir, its *)
(* routing session, if it has one, is there until it has left its loop, and  *)
(* then if the deletion failed, and until the launch the files of its prompt *)
(* are on disk.                                                            *)
Worked(s) ==
  /\ s \in doomed => DOMAIN snap[s] = {}
  /\ DOMAIN snap[s] # {} => run[s].pc \in {"starting", "hearing"}
  /\ run[s].pc \in Live => row[Session].dir
  /\ run[s].pc \in Live \cup {"minted"} /\ run[s].routed => s \in store
  /\ Ran(s, "over") /\ s \in store => s \in undeleted
  /\ ~Ran(s, "minted") => run[s].prompt = {}
  /\ \A a \in run[s].prompt : a <= created /\ disk[a] # "none"

Attached == /\ \A a \in atts : a <= created /\ Fine(a)
            /\ \A a \in bare : a <= created
            /\ \A a \in Atts : a > created => disk[a] = "none"

FilesInv ==
  /\ TypeOK
  /\ snap = [x \in Parties |-> snap[x]]
  /\ Tx!SnapshotCurrent
  /\ \A q \in Reqs : Handled(q)
  /\ \A s \in Sids : Worked(s)
  /\ Attached

-----------------------------------------------------------------------------
(* The parts of TypeOK about the transactions, and about the rest.          *)
TxTyped ==
  /\ row \in [{Session} -> Record]
  /\ snap = [x \in Parties |-> snap[x]]
  /\ \A x \in Parties : \E S \in SUBSET {Session} : snap[x] \in [S -> Record]
  /\ doomed \subseteq Parties

RestTyped ==
  /\ atts \subseteq Atts /\ created \in 0 .. MaxAtts
  /\ disk \in [Atts -> {"none", "torn", "whole"}]
  /\ touched \subseteq Atts /\ bare \subseteq Atts
  /\ store \subseteq Sids /\ undeleted \subseteq Sids
  /\ run \in [Sids -> Run]
  /\ req \in [Reqs -> Req]
  /\ faults \in 0 .. MaxFaults

LEMMA TypeParts ==
  (TypeOK /\ snap = [x \in Parties |-> snap[x]]) <=> (TxTyped /\ RestTyped)
BY DEF TypeOK, TxTyped, RestTyped, Parties

(* What a party that has a snapshot has read.                               *)
LEMMA HasRead ==
  ASSUME TxTyped, Tx!SnapshotCurrent, NEW x \in Parties, DOMAIN snap[x] # {}
  PROVE  /\ DOMAIN snap[x] = {Session} /\ snap[x] \in [{Session} -> Record]
         /\ snap[x][Session] = row[Session] /\ row[Session] \in Record
<1>1. DOMAIN snap[x] = {Session} /\ snap[x] \in [{Session} -> Record]
  BY DEF TxTyped
<1> QED BY <1>1 DEF Tx!SnapshotCurrent, TxTyped, Parties

(* What a step does to the transactions: whose it is, if any.               *)
TxOf(x) == \/ UNCHANGED tables
           \/ Tx!Begin(x, {Session}) \/ Tx!End(x) \/ Tx!Conflict(x)
           \/ \E new \in [{Session} -> Record] :
                /\ Tx!Commit(x, new)
                /\ row[Session].dir => new[Session].dir

LEMMA RequestTx ==
  ASSUME TxTyped, RestTyped, Tx!SnapshotCurrent, NEW q \in Reqs, Handled(q),
         UploadBegin(q) \/ SendBegin(q) \/ Handle(q)
  PROVE  TxOf(q)
<1>1. CASE UploadBegin(q) \/ SendBegin(q) \/ Retry(q)
  BY <1>1 DEF UploadBegin, SendBegin, Arrive, Retry, TxOf
<1>2. CASE \/ Create(q) \/ DirFails(q) \/ WriteFile(q) \/ UploadEnds(q) \/ Reopen(q)
           \/ Mint(q)
  BY <1>2 DEF Create, DirFails, WriteFile, UploadEnds, Reopen, Mint, Prepare, TxOf, tables
<1>3. CASE WriteFails(q) \/ LaunchFails(q) \/ Conflict(q)
  BY <1>3 DEF WriteFails, LaunchFails, Conflict, TxOf
<1>4. CASE Commit(q)
  <2>1. CASE ~Writes(q)
    BY <1>4, <2>1 DEF Commit, TxOf
  <2>2. CASE Writes(q)
    <3>1. Tx!Commit(q, [k \in {Session} |-> NewRow(q)]) /\ DOMAIN snap[q] # {}
      BY <1>4, <2>2 DEF Commit, Tx!Commit
    <3>2. /\ snap[q][Session] = row[Session] /\ row[Session] \in Record
          /\ req[q].dir = row[Session].dir
      BY <3>1, HasRead DEF Handled, Parties
    <3>3. req[q] \in Req
      BY DEF RestTyped
    <3>4. NewRow(q) \in Record /\ (row[Session].dir => NewRow(q).dir)
      BY <3>2, <3>3 DEF NewRow, Record, Req
    <3> QED BY <3>1, <3>4 DEF TxOf
  <2> QED BY <2>1, <2>2
<1> QED BY <1>1, <1>2, <1>3, <1>4 DEF Handle

LEMMA WorkerTx ==
  ASSUME TxTyped, Tx!SnapshotCurrent, NEW s \in Sids, Work(s)
  PROVE  TxOf(s)
<1>1. CASE StartCommit(s)
  <2>1. Tx!Commit(s, snap[s]) /\ DOMAIN snap[s] # {}
    BY <1>1 DEF StartCommit, Tx!Commit
  <2>2. snap[s] \in [{Session} -> Record] /\ snap[s][Session] = row[Session]
    BY <2>1, HasRead DEF Parties
  <2> QED BY <2>1, <2>2 DEF TxOf
<1>2. CASE HearCommit(s)
  <2>1. PICK r \in {snap[s][Session].running, FALSE} :
          Tx!Commit(s, [k \in {Session} |-> [snap[s][Session] EXCEPT !.running = r]])
    BY <1>2 DEF HearCommit
  <2>2. snap[s][Session] = row[Session] /\ row[Session] \in Record
    BY <2>1, HasRead DEF Parties, Tx!Commit
  <2>3. /\ [snap[s][Session] EXCEPT !.running = r] \in Record
        /\ [snap[s][Session] EXCEPT !.running = r].dir = row[Session].dir
    BY <2>2 DEF Record
  <2> DEFINE new == [k \in {Session} |-> [snap[s][Session] EXCEPT !.running = r]]
  <2>4. new \in [{Session} -> Record] /\ new[Session].dir = row[Session].dir
    BY <2>3
  <2>5. Tx!Commit(s, new)
    BY <2>1
  <2> HIDE DEF new
  <2> QED BY <2>4, <2>5 DEF TxOf
<1>3. CASE Start(s) \/ StartFails(s) \/ Hear(s) \/ Leave(s)
  BY <1>3 DEF Start, StartFails, Hear, Leave, TxOf
<1> QED BY <1>1, <1>2, <1>3 DEF Work

(* Types are kept, a party that can still commit sees what is committed, and *)
(* working_dir is never reset.                                              *)
LEMMA TxOfKept ==
  ASSUME TxTyped, Tx!SnapshotCurrent, NEW x \in Parties, TxOf(x)
  PROVE  /\ TxTyped' /\ Tx!SnapshotCurrent'
         /\ row[Session].dir => row'[Session].dir
<1>0. Tx!NoTx \in [{} -> Record] /\ DOMAIN Tx!NoTx = {}
  BY DEF Tx!NoTx
<1>1. CASE Tx!Begin(x, {Session})
  <2>1. /\ snap' = [snap EXCEPT ![x] = [k \in {Session} |-> row[k]]]
        /\ UNCHANGED <<row, doomed>>
    BY <1>1 DEF Tx!Begin
  <2>2. [k \in {Session} |-> row[k]] \in [{Session} -> Record]
    BY DEF TxTyped
  <2>3. \A y \in Parties : snap'[y] = snap[y] \/ snap'[y] = [k \in {Session} |-> row[k]]
    BY <2>1 DEF TxTyped
  <2>4. snap' = [y \in Parties |-> snap'[y]]
    BY <2>1 DEF TxTyped
  <2>5. TxTyped'
    BY <2>1, <2>2, <2>3, <2>4 DEF TxTyped
  <2> QED BY <2>1, <2>3, <2>5 DEF Tx!SnapshotCurrent, Parties
<1>2. ASSUME NEW new \in [{Session} -> Record], Tx!Commit(x, new),
             row[Session].dir => new[Session].dir
      PROVE  /\ TxTyped' /\ Tx!SnapshotCurrent'
             /\ row[Session].dir => row'[Session].dir
  <2>1. /\ row' = [k \in {Session} |-> new[k]]
        /\ snap' = [y \in Parties |-> IF y \in Tx!Overtaken(x, {Session}) \cup {x}
                                      THEN Tx!NoTx ELSE snap[y]]
        /\ doomed' = doomed \cup Tx!Overtaken(x, {Session})
    BY <1>2 DEF Tx!Commit, Parties
  <2>2. ASSUME NEW y \in Parties
        PROVE  \/ snap'[y] = Tx!NoTx
               \/ DOMAIN snap[y] = {} /\ snap'[y] = snap[y]
    <3>1. CASE y = x \/ Session \in DOMAIN snap[y]
      BY <2>1, <3>1 DEF Tx!Overtaken, Parties
    <3>2. CASE y # x /\ Session \notin DOMAIN snap[y]
      BY <2>1, <3>2 DEF Tx!Overtaken, TxTyped
    <3> QED BY <3>1, <3>2
  <2>3. snap' = [y \in Parties |-> snap'[y]] /\ doomed' \subseteq Parties
    BY <2>1 DEF Tx!Overtaken, TxTyped, Parties
  <2>4. TxTyped'
    BY <1>0, <2>1, <2>2, <2>3 DEF TxTyped
  <2> QED BY <1>0, <1>2, <2>1, <2>2, <2>4 DEF Tx!SnapshotCurrent, Parties
<1>3. CASE UNCHANGED tables \/ Tx!End(x) \/ Tx!Conflict(x)
  <2>1. /\ row' = row /\ doomed' \subseteq doomed
        /\ snap' = [y \in Parties |-> snap'[y]]
        /\ \A y \in Parties : snap'[y] = snap[y] \/ snap'[y] = Tx!NoTx
    BY <1>3 DEF Tx!End, Tx!Conflict, tables, TxTyped
  <2>2. TxTyped'
    BY <1>0, <2>1 DEF TxTyped
  <2> QED BY <1>0, <2>1, <2>2 DEF Tx!SnapshotCurrent, Parties
<1> QED BY <1>1, <1>2, <1>3 DEF TxOf
-----------------------------------------------------------------------------
(* The rest of the types.                                                  *)
LEMMA Fields ==
  ASSUME RestTyped, NEW q \in Reqs
  PROVE  /\ req[q] \in Req /\ req[q].mine \subseteq Atts /\ req[q].names \subseteq Atts
         /\ req[q].sid \in 0 .. MaxSids /\ req[q].dir \in BOOLEAN
         /\ req[q].kind \in {"upload", "send"} /\ req[q].indir \in BOOLEAN
BY DEF RestTyped, Req

LEMMA ReqSet ==
  ASSUME RestTyped, NEW q \in Reqs, NEW x \in Req, req' = [req EXCEPT ![q] = x]
  PROVE  req' \in [Reqs -> Req]
BY DEF RestTyped

LEMMA IdleTyped ==
  /\ Idle \in Req /\ Idle.pc = "free" /\ Idle.mine = {} /\ Idle.names = {}
  /\ Idle.sid = 0 /\ Idle.kind = "send" /\ Idle.ok = FALSE
BY FileBounds DEF Idle, Req

(* A request that starts, for the first time or again.                      *)
LEMMA StartTyped ==
  ASSUME NEW pc \in {"storing", "sending", "again"}, NEW kind \in {"upload", "send"},
         NEW names \in SUBSET Atts, NEW dir \in BOOLEAN
  PROVE  [Idle EXCEPT !.pc = pc, !.kind = kind, !.names = names, !.dir = dir] \in Req
BY IdleTyped DEF Req

LEMMA FaultTyped ==
  ASSUME RestTyped, Fault \/ UNCHANGED faults
  PROVE  faults' \in 0 .. MaxFaults
BY FileBounds DEF RestTyped, Fault

LEMMA MintPrepares ==
  ASSUME RestTyped, NEW q \in Reqs, Mint(q)
  PROVE  /\ \E s \in Sids, routed \in BOOLEAN :
              /\ Ran(s, "none")
              /\ store' = IF routed THEN store \cup {s} ELSE store
              /\ run' = [run EXCEPT ![s] = [pc |-> "minted", routed |-> routed,
                                            prompt |-> req[q].mine \cup req[q].names]]
              /\ req' = [req EXCEPT ![q] = [req[q] EXCEPT !.pc = "closing",
                                                          !.indir = TRUE, !.sid = s]]
         /\ req[q].pc = "sending" /\ ToWrite(q) = {}
         /\ UNCHANGED <<tables, atts, bare, files, undeleted>>
BY DEF Mint, Prepare, At, RestTyped

LEMMA HandleTyped ==
  ASSUME RestTyped, TxTyped, NEW q \in Reqs, Handle(q), ~Commit(q), ~Conflict(q)
  PROVE  RestTyped'
<1>0. /\ req[q] \in Req /\ req[q].mine \subseteq Atts /\ req[q].names \subseteq Atts
      /\ (Fault \/ UNCHANGED faults) /\ atts' = atts /\ undeleted' = undeleted
  BY Fields DEF Handle, Create, DirFails, WriteFile, WriteFails, UploadEnds, Reopen, Mint,
                Prepare, LaunchFails, Retry, routing
<1>a. faults' \in 0 .. MaxFaults
  BY <1>0, FaultTyped
<1>1. CASE Create(q)
  <2>0. created' \in 0 .. MaxAtts /\ created' \in Atts
    BY <1>1, FileBounds DEF Create, Atts, RestTyped
  <2>1. /\ disk' = [disk EXCEPT ![created'] = "torn"] /\ UNCHANGED <<touched, bare, store, run>>
        /\ req' = [req EXCEPT ![q] = [req[q] EXCEPT !.pc = "writing", !.indir = TRUE,
                                                   !.mine = req[q].mine \cup {created'}]]
    BY <1>1 DEF Create, Opened, RestTyped, routing
  <2>2. [req[q] EXCEPT !.pc = "writing", !.indir = TRUE,
                       !.mine = req[q].mine \cup {created'}] \in Req
    BY <1>0, <2>0 DEF Req
  <2> QED BY <1>0, <1>a, <2>0, <2>1, <2>2, ReqSet DEF RestTyped
<1>8. CASE DirFails(q)
  <2>0. created' \in 0 .. MaxAtts /\ created' \in Atts
    BY <1>8, FileBounds DEF DirFails, Atts, RestTyped
  <2>1. PICK indir \in BOOLEAN :
          req' = [req EXCEPT ![q] = [req[q] EXCEPT !.pc = "closing", !.indir = indir,
                                                  !.mine = req[q].mine \cup {created'}]]
    BY <1>8, Fields DEF DirFails, RestTyped
  <2>2. [req[q] EXCEPT !.pc = "closing", !.indir = indir,
                       !.mine = req[q].mine \cup {created'}] \in Req
    BY <1>0, <2>0 DEF Req
  <2>3. bare' = bare \cup {created'} /\ UNCHANGED <<disk, touched, store, run>>
    BY <1>8 DEF DirFails, routing
  <2> QED BY <1>0, <1>a, <2>0, <2>1, <2>2, <2>3, ReqSet DEF RestTyped
<1>2. CASE WriteFile(q)
  <2>1. PICK pc \in {"storing", "sending"} :
          req' = [req EXCEPT ![q] = [req[q] EXCEPT !.pc = pc]]
    BY <1>2 DEF WriteFile, RestTyped
  <2>2. [req[q] EXCEPT !.pc = pc] \in Req
    BY <1>0 DEF Req
  <2>3. disk' \in [Atts -> {"none", "torn", "whole"}]
    BY <1>2 DEF WriteFile, Written, RestTyped
  <2>4. UNCHANGED <<created, touched, bare, store, run>>
    BY <1>2 DEF WriteFile, routing
  <2> QED BY <1>0, <1>a, <2>1, <2>2, <2>3, <2>4, ReqSet DEF RestTyped
<1>3. CASE WriteFails(q) \/ LaunchFails(q)
  <2>1. /\ req' = [req EXCEPT ![q] = Idle]
        /\ UNCHANGED <<created, disk, touched, bare, store, run>>
    BY <1>3 DEF WriteFails, LaunchFails, files, routing
  <2> QED BY <1>0, <1>a, <2>1, IdleTyped, ReqSet DEF RestTyped
<1>4. CASE UploadEnds(q)
  <2>1. PICK ok \in BOOLEAN :
          req' = [req EXCEPT ![q] = [req[q] EXCEPT !.pc = "closing", !.ok = ok]]
    BY <1>4 DEF UploadEnds, RestTyped
  <2>2. [req[q] EXCEPT !.pc = "closing", !.ok = ok] \in Req
    BY <1>0 DEF Req
  <2>3. UNCHANGED <<created, disk, touched, bare, store, run>>
    BY <1>4 DEF UploadEnds, files, routing
  <2> QED BY <1>0, <1>a, <2>1, <2>2, <2>3, ReqSet DEF RestTyped
<1>5. CASE Reopen(q)
  <2>1. PICK a \in req[q].names :
          /\ disk' = [disk EXCEPT ![a] = "torn"] /\ touched' = touched \cup {a}
          /\ req' = [req EXCEPT ![q] = [req[q] EXCEPT !.pc = "writing", !.indir = TRUE,
                       !.names = req[q].names \ {a}, !.mine = req[q].mine \cup {a}]]
    BY <1>5 DEF Reopen, ToWrite, RestTyped
  <2>2. [req[q] EXCEPT !.pc = "writing", !.indir = TRUE, !.names = req[q].names \ {a},
                       !.mine = req[q].mine \cup {a}] \in Req
    BY <1>0 DEF Req
  <2>3. UNCHANGED <<created, bare, store, run>>
    BY <1>5 DEF Reopen, routing
  <2> QED BY <1>0, <1>a, <2>1, <2>2, <2>3, ReqSet DEF RestTyped
<1>6. CASE Mint(q)
  <2>1. PICK s \in Sids, routed \in BOOLEAN :
          /\ store' = IF routed THEN store \cup {s} ELSE store
          /\ run' = [run EXCEPT ![s] = [pc |-> "minted", routed |-> routed,
                                        prompt |-> req[q].mine \cup req[q].names]]
          /\ req' = [req EXCEPT ![q] = [req[q] EXCEPT !.pc = "closing", !.indir = TRUE,
                                                      !.sid = s]]
    BY <1>6, MintPrepares
  <2>2. [req[q] EXCEPT !.pc = "closing", !.indir = TRUE, !.sid = s] \in Req
    <3>1. s \in 0 .. MaxSids
      BY FileBounds DEF Sids
    <3> QED BY <1>0, <3>1 DEF Req
  <2>3. [pc |-> "minted", routed |-> routed,
         prompt |-> req[q].mine \cup req[q].names] \in Run
    BY <1>0 DEF Run
  <2>4. UNCHANGED <<created, disk, touched, bare>>
    BY <1>6, MintPrepares DEF files
  <2> QED BY <1>0, <1>a, <2>1, <2>2, <2>3, <2>4, ReqSet DEF RestTyped
<1>7. CASE Retry(q)
  <2>1. /\ UNCHANGED <<created, disk, touched, bare, store, run>>
        /\ row[Session].dir \in BOOLEAN
    BY <1>7 DEF Retry, files, routing, TxTyped, Record
  <2>2. CASE req' = [req EXCEPT ![q] = Idle]
    BY <1>0, <1>a, <2>1, <2>2, IdleTyped, ReqSet DEF RestTyped
  <2>3. CASE req' # [req EXCEPT ![q] = Idle]
    <3>1. FirstStep[req[q].kind] \in {"storing", "sending"}
      BY Fields DEF FirstStep
    <3>2. req' = [req EXCEPT ![q] = [req[q] EXCEPT !.pc = FirstStep[req[q].kind],
                                                 !.dir = row[Session].dir]]
      BY <1>7, <2>3 DEF Retry, RestTyped
    <3>3. [req[q] EXCEPT !.pc = FirstStep[req[q].kind], !.dir = row[Session].dir] \in Req
      BY <1>0, <2>1, <3>1 DEF Req
    <3> QED BY <1>0, <1>a, <2>1, <3>2, <3>3, ReqSet DEF RestTyped
  <2> QED BY <2>2, <2>3
<1> QED BY <1>1, <1>2, <1>3, <1>4, <1>5, <1>6, <1>7, <1>8 DEF Handle

LEMMA EndTyped ==
  ASSUME RestTyped, NEW q \in Reqs, Commit(q) \/ Conflict(q)
  PROVE  RestTyped'
<1>1. UNCHANGED <<created, disk, touched, bare, store, undeleted, faults>>
  BY DEF Commit, Conflict, files, routing
<1>2. atts' \subseteq Atts
  BY Fields DEF Commit, Conflict, RestTyped
<1>3. run' \in [Sids -> Run]
  <2>1. ASSUME NEW s \in Sids, NEW pc \in {"launched", "lost"}
        PROVE  [run[s] EXCEPT !.pc = pc, !.prompt = {}] \in Run
    BY DEF RestTyped, Run
  <2>2. PICK pc \in {"launched", "lost"} : run' = Promptless(req[q].sid, pc)
    BY DEF Commit, Conflict
  <2>3. \A s \in Sids : run'[s] = run[s] \/ run'[s] = [run[s] EXCEPT !.pc = pc, !.prompt = {}]
    BY <2>2 DEF Promptless
  <2>4. run' = [s \in Sids |-> run'[s]]
    BY <2>2 DEF Promptless
  <2>5. ASSUME NEW s \in Sids
        PROVE  run'[s] \in Run
    <3>1. run[s] \in Run /\ [run[s] EXCEPT !.pc = pc, !.prompt = {}] \in Run
      BY <2>1 DEF RestTyped
    <3> QED BY <2>3, <3>1
  <2> QED BY <2>4, <2>5
<1>4. req' = [req EXCEPT ![q] = Idle] \/ req' = [req EXCEPT ![q] = Again(req[q])]
  BY DEF Commit, Conflict
<1>5. Again(req[q]) \in Req
  BY Fields, IdleTyped DEF Again, Req
<1>6. req' \in [Reqs -> Req]
  BY <1>4, <1>5, IdleTyped, ReqSet
<1> QED BY <1>1, <1>2, <1>3, <1>6 DEF RestTyped

LEMMA WorkTyped ==
  ASSUME RestTyped, NEW s \in Sids, Work(s)
  PROVE  /\ RestTyped' /\ UNCHANGED <<atts, created, disk, touched, bare, req>>
         /\ undeleted \subseteq undeleted'
         /\ run' = [run EXCEPT ![s] = [run[s] EXCEPT !.pc = run'[s].pc]]
<1>1. /\ UNCHANGED <<atts, created, disk, touched, bare, req>>
      /\ store' \subseteq store /\ (Fault \/ UNCHANGED faults)
      /\ undeleted' = undeleted \/ undeleted' = undeleted \cup {s}
  BY DEF Work, Start, StartFails, StartCommit, Hear, HearCommit, Leave, Cleaned, files, routing
<1>a. faults' \in 0 .. MaxFaults
  BY <1>1, FaultTyped
<1>2. PICK pc \in {"starting", "lost", "reading", "hearing", "over"} : Follows(s, pc)
  BY DEF Work, Start, StartFails, StartCommit, Hear, HearCommit, Leave
<1>3. [run[s] EXCEPT !.pc = pc] \in Run /\ [run[s] EXCEPT !.pc = pc].pc = pc
  BY DEF RestTyped, Run
<1>4. run' = [run EXCEPT ![s] = [run[s] EXCEPT !.pc = pc]]
  BY <1>2 DEF Follows, RestTyped
<1>5. run' \in [Sids -> Run] /\ run'[s].pc = pc
  BY <1>3, <1>4 DEF RestTyped
<1> QED BY <1>1, <1>a, <1>4, <1>5 DEF RestTyped

LEMMA RestKept ==
  ASSUME TxTyped, RestTyped, [Next]_vars
  PROVE  RestTyped'
<1>1. ASSUME NEW q \in Reqs, Handle(q)
      PROVE  RestTyped'
  BY <1>1, HandleTyped, EndTyped
<1>2. ASSUME NEW q \in Reqs, UploadBegin(q) \/ SendBegin(q)
      PROVE  RestTyped'
  <2>1. /\ UNCHANGED <<atts, created, disk, touched, bare, store, undeleted, run, faults>>
        /\ row[Session].dir \in BOOLEAN
    BY <1>2 DEF UploadBegin, SendBegin, Arrive, files, routing, TxTyped, Record
  <2>2. \E r \in Req : /\ [r EXCEPT !.dir = row[Session].dir] \in Req
                       /\ req' = [req EXCEPT ![q] = [r EXCEPT !.dir = row[Session].dir]]
    <3>1. CASE UploadBegin(q)
      <4>1. [Idle EXCEPT !.pc = "storing", !.kind = "upload"] \in Req
        BY IdleTyped DEF Req
      <4>2. req' = [req EXCEPT ![q] = [[Idle EXCEPT !.pc = "storing", !.kind = "upload"]
                                        EXCEPT !.dir = row[Session].dir]]
        BY <3>1 DEF UploadBegin, Arrive
      <4> QED BY <2>1, <4>1, <4>2 DEF Req
    <3>2. CASE SendBegin(q)
      <4>1. PICK names \in SUBSET atts :
              Arrive(q, [Idle EXCEPT !.pc = "sending", !.kind = "send", !.names = names])
        BY <3>2 DEF SendBegin
      <4>2. [Idle EXCEPT !.pc = "sending", !.kind = "send", !.names = names] \in Req
        BY IdleTyped DEF Req, RestTyped
      <4> QED BY <2>1, <4>1, <4>2 DEF Arrive, Req
    <3> QED BY <1>2, <3>1, <3>2
  <2> QED BY <2>1, <2>2, ReqSet DEF RestTyped
<1>3. ASSUME NEW s \in Sids, Work(s)
      PROVE  RestTyped'
  BY <1>3, WorkTyped
<1>4. CASE Restart
  <2>1. /\ UNCHANGED <<atts, bare, created, store, undeleted>>
        /\ req' = [q \in Reqs |-> Idle]
        /\ \/ disk' = disk /\ touched' = touched
           \/ disk' = [a \in Atts |-> "none"] /\ touched' = 1 .. created
    BY <1>4 DEF Restart, routing
  <2>2. touched' \subseteq Atts /\ disk' \in [Atts -> {"none", "torn", "whole"}]
    <3>1. 1 .. created \subseteq Atts
      BY FileBounds DEF RestTyped, Atts
    <3> QED BY <2>1, <3>1 DEF RestTyped
  <2>3. faults' \in 0 .. MaxFaults
    BY <1>4, FaultTyped DEF Restart
  <2>4. run' \in [Sids -> Run]
    BY <1>4 DEF Restart, RestTyped, Run
  <2> QED BY <2>1, <2>2, <2>3, <2>4, IdleTyped DEF RestTyped
<1>5. CASE UNCHANGED vars
  BY <1>5 DEF vars, files, routing, RestTyped
<1> QED BY <1>1, <1>2, <1>3, <1>4, <1>5 DEF Next
-----------------------------------------------------------------------------
(* As long as the server does not restart, files stay on disk, and what was *)
(* whole stays so or is marked.                                            *)
FilesStay ==
  /\ created <= created' /\ touched \subseteq touched'
  /\ \A a \in bare' \ bare : a > created /\ a <= created'
  /\ (\A a \in Atts : a > created => disk[a] = "none")
       => \A a \in Atts : a > created' => disk'[a] = "none"
  /\ \A a \in Atts : a <= created =>
       /\ disk[a] # "none" => disk'[a] # "none"
       /\ Fine(a) => Fine(a)'

LEMMA FilesSame ==
  ASSUME RestTyped, UNCHANGED <<created, disk, touched, bare>>
  PROVE  FilesStay
BY FileBounds DEF FilesStay, RestTyped, Fine

LEMMA FilesStayStep ==
  ASSUME RestTyped, NEW q \in Reqs, Handled(q), UploadBegin(q) \/ SendBegin(q) \/ Handle(q)
  PROVE  FilesStay
<1>0. /\ disk \in [Atts -> {"none", "torn", "whole"}] /\ created \in 0 .. MaxAtts
      /\ \A a \in req[q].mine \cup req[q].names : a <= created
  BY DEF RestTyped, Handled
<1>a. Atts \subseteq Nat /\ created \in Nat
  BY <1>0, FileBounds DEF Atts
<1>1. CASE Create(q)
  <2>1. /\ created' = created + 1 /\ disk' = [disk EXCEPT ![created'] = "torn"]
        /\ UNCHANGED <<touched, bare>>
    BY <1>1 DEF Create, Opened
  <2>2. \A a \in Atts : a <= created \/ a > created' => disk'[a] = disk[a]
    BY <1>0, <1>a, <2>1
  <2> QED BY <1>a, <2>1, <2>2 DEF FilesStay, Fine
<1>6. CASE DirFails(q)
  <2>1. /\ created' = created + 1 /\ bare' = bare \cup {created'}
        /\ UNCHANGED <<disk, touched>>
    BY <1>6 DEF DirFails
  <2> QED BY <1>a, <2>1 DEF FilesStay, Fine
<1>2. CASE WriteFile(q)
  <2>1. /\ UNCHANGED <<created, touched, bare>>
        /\ \A a \in Atts : \/ disk'[a] = disk[a]
                           \/ a \in req[q].mine /\ disk[a] = "torn" /\ disk'[a] = "whole"
    BY <1>2 DEF WriteFile, Written
  <2>2. \A a \in Atts : a > created => disk'[a] = disk[a]
    BY <1>0, <1>a, <2>1
  <2> QED BY <1>a, <2>1, <2>2 DEF FilesStay, Fine
<1>3. CASE Reopen(q)
  <2>1. PICK a \in req[q].names :
          disk' = [disk EXCEPT ![a] = "torn"] /\ touched' = touched \cup {a}
    BY <1>3 DEF Reopen, ToWrite
  <2>2. UNCHANGED <<created, bare>>
    BY <1>3 DEF Reopen
  <2>3. \A b \in Atts : disk'[b] = disk[b] \/ (b = a /\ disk'[b] = "torn")
    BY <1>0, <2>1
  <2>4. \A b \in Atts : b > created => disk'[b] = disk[b]
    BY <1>0, <1>a, <2>1, <2>3
  <2> QED BY <1>a, <2>1, <2>2, <2>3, <2>4 DEF FilesStay, Fine
<1>4. CASE UploadBegin(q) \/ SendBegin(q)
  BY <1>4, FilesSame DEF UploadBegin, SendBegin, Arrive, files
<1>5. CASE \/ WriteFails(q) \/ UploadEnds(q) \/ Mint(q) \/ LaunchFails(q)
           \/ Commit(q) \/ Conflict(q) \/ Retry(q)
  BY <1>5, FilesSame
     DEF WriteFails, UploadEnds, Mint, Prepare, LaunchFails, Commit, Conflict, Retry, files
<1> QED BY <1>1, <1>2, <1>3, <1>4, <1>5, <1>6 DEF Handle

-----------------------------------------------------------------------------
(* Requests.  One that a step leaves alone, or only dooms, keeps what it    *)
(* knows if nobody takes its routing session.                              *)
SidSafe(r) ==
  req[r].sid # 0 => /\ run'[req[r].sid].pc = "minted"
                    /\ \A x \in Reqs \ {r} : req'[x].sid # req[r].sid

TxSafe(x) == \/ snap'[x] = snap[x] /\ (x \in doomed' => x \in doomed)
             \/ DOMAIN snap'[x] = {}

LEMMA OvertakenOrNot ==
  ASSUME TxTyped, NEW x \in Parties, NEW y \in Parties \ {x}, TxOf(x)
  PROVE  TxSafe(y)
<1>1. ASSUME NEW new, Tx!Commit(x, new)
      PROVE  TxSafe(y)
  BY <1>1 DEF Tx!Commit, Tx!Overtaken, Tx!NoTx, TxSafe, Parties
<1>2. CASE UNCHANGED tables \/ Tx!Begin(x, {Session}) \/ Tx!End(x) \/ Tx!Conflict(x)
  BY <1>2 DEF Tx!Begin, Tx!End, Tx!Conflict, tables, TxTyped, TxSafe
<1> QED BY <1>1, <1>2 DEF TxOf

LEMMA OthersHandled ==
  ASSUME RestTyped, RestTyped', NEW r \in Reqs, Handled(r), FilesStay, TxSafe(r), SidSafe(r),
         req'[r] = req[r]
  PROVE  Handled(r)'
<1>1. /\ req[r].mine \subseteq Atts /\ req[r].names \subseteq Atts
      /\ created \in Nat
  BY Fields, FileBounds DEF RestTyped
<1>2. \A a \in Atts : a <= created => a <= created' /\ (a \in bare' => a \in bare)
  BY FileBounds DEF RestTyped, FilesStay, Atts
<1>3. /\ \A a \in req[r].mine : a <= created'
      /\ \A a \in req[r].names : a <= created'
      /\ req[r].mine \cap bare = {} => req[r].mine \cap bare' = {}
  <2>0. \A a \in req[r].mine \cup req[r].names : a \in Atts /\ a <= created
    BY <1>1 DEF Handled
  <2>1. \A a \in req[r].mine : a <= created' /\ (a \in bare' => a \in bare)
    BY <1>2, <2>0
  <2>2. \A a \in req[r].names : a <= created'
    BY <1>2, <2>0
  <2> QED BY <2>1, <2>2
<1>4. /\ req[r].kind = "send" \/ req[r].pc \in {"storing", "writing"} =>
           \A a \in req[r].mine : disk'[a] # "none"
      /\ req[r].kind = "upload" /\ req[r].pc # "writing"
           => \A a \in req[r].mine : Fine(a)'
  BY <1>1 DEF Handled, FilesStay
<1> QED BY <1>3, <1>4 DEF Handled, TxSafe, SidSafe, Ran
(* ... and one that is reset, with its transaction over, keeps at most the   *)
(* names that it was asked for.                                            *)
LEMMA ResetHandled ==
  ASSUME NEW q \in Reqs, DOMAIN snap'[q] = {}, req'[q].mine = {}, req'[q].sid = 0,
         req'[q].pc \notin {"sending", "storing"}, ~req'[q].ok,
         \A a \in req'[q].names : a <= created'
  PROVE  Handled(q)'
BY DEF Handled

(* A request that arrives.                                                 *)
LEMMA BeginSets ==
  ASSUME RestTyped, NEW q \in Reqs, UploadBegin(q) \/ SendBegin(q)
  PROVE  /\ req'[q].pc \in {"storing", "sending"} /\ req'[q].mine = {}
         /\ req'[q].pc = "sending" => req'[q].kind = "send"
         /\ req'[q].sid = 0 /\ req'[q].names \subseteq atts
         /\ req'[q].dir = row[Session].dir /\ Tx!Begin(q, {Session})
         /\ req'[q].pc = "storing" => req'[q].kind = "upload"
         /\ ~req'[q].ok
         /\ UNCHANGED <<atts, created, disk, touched, bare, store, run>>
<1>1. CASE UploadBegin(q)
  <2>1. req'[q] = [[Idle EXCEPT !.pc = "storing", !.kind = "upload"]
                    EXCEPT !.dir = row[Session].dir]
    BY <1>1 DEF UploadBegin, Arrive, RestTyped
  <2>2. /\ req'[q].pc = "storing" /\ req'[q].mine = {} /\ req'[q].sid = 0
        /\ req'[q].names = {} /\ req'[q].dir = row[Session].dir /\ ~req'[q].ok
        /\ req'[q].kind = "upload"
    BY <2>1 DEF Idle
  <2> QED BY <1>1, <2>2 DEF UploadBegin, Arrive, files, routing
<1>2. CASE SendBegin(q)
  <2>1. PICK names \in SUBSET atts :
          req'[q] = [[Idle EXCEPT !.pc = "sending", !.kind = "send", !.names = names]
                      EXCEPT !.dir = row[Session].dir]
    BY <1>2 DEF SendBegin, Arrive, RestTyped
  <2>2. /\ req'[q].pc = "sending" /\ req'[q].mine = {} /\ req'[q].sid = 0
        /\ req'[q].names = names /\ req'[q].dir = row[Session].dir
        /\ req'[q].kind = "send" /\ ~req'[q].ok
    BY <2>1 DEF Idle
  <2> QED BY <1>2, <2>2 DEF SendBegin, Arrive, files, routing
<1> QED BY <1>1, <1>2

(* What a step of another request or of a worker leaves of a request.        *)
LEMMA HandledElsewhere ==
  ASSUME RestTyped, NEW q \in Reqs, NEW r \in Reqs \ {q}, Handled(r), Handled(q),
         UploadBegin(q) \/ SendBegin(q) \/ Handle(q)
  PROVE  req'[r] = req[r] /\ SidSafe(r)
<1>0. /\ req \in [Reqs -> Req] /\ run \in [Sids -> Run]
      /\ req[r].sid # 0 => req[r].sid \in Sids
  BY Fields, FileBounds DEF RestTyped, Sids
<1>1. req'[r] = req[r]
  BY <1>0 DEF UploadBegin, SendBegin, Arrive, Handle, Create, DirFails, WriteFile,
              WriteFails, UploadEnds, Reopen, Mint, Prepare, LaunchFails, Commit, Conflict,
              Retry
<1>2. \A x \in Reqs \ {q} : req'[x] = req[x]
  BY <1>0 DEF UploadBegin, SendBegin, Arrive, Handle, Create, DirFails, WriteFile,
              WriteFails, UploadEnds, Reopen, Mint, Prepare, LaunchFails, Commit, Conflict,
              Retry
<1>3. CASE Mint(q)
  <2>1. PICK s \in Sids, routed \in BOOLEAN :
          /\ Ran(s, "none")
          /\ run' = [run EXCEPT ![s] = [pc |-> "minted", routed |-> routed,
                                        prompt |-> req[q].mine \cup req[q].names]]
          /\ req' = [req EXCEPT ![q] = [req[q] EXCEPT !.pc = "closing", !.indir = TRUE,
                                                      !.sid = s]]
    BY <1>3, MintPrepares
  <2>2. req'[q].sid = s
    BY <1>0, <2>1 DEF Req
  <2>3. req[r].sid # 0 => s # req[r].sid
    BY <2>1 DEF Handled, Ran
  <2> QED BY <1>0, <1>2, <2>1, <2>2, <2>3 DEF SidSafe, Handled, Ran
<1>4. CASE Commit(q) \/ Conflict(q)
  <2>1. req'[q] = Idle \/ req'[q] = Again(req[q])
    BY <1>0, <1>4 DEF Commit, Conflict
  <2>2. req'[q].sid = 0
    <3>1. Again(req[q]).sid = 0 /\ Idle.sid = 0
      BY DEF Again, Idle
    <3> QED BY <2>1, <3>1
  <2>3. \A s \in Sids : s # req[q].sid => run'[s] = run[s]
    BY <1>4 DEF Commit, Conflict, Promptless
  <2>4. ASSUME req[r].sid # 0
        PROVE  /\ run'[req[r].sid].pc = "minted"
               /\ \A x \in Reqs \ {r} : req'[x].sid # req[r].sid
    <3>1. /\ run[req[r].sid].pc = "minted" /\ req[r].sid \in Sids
          /\ \A x \in Reqs \ {r} : req[x].sid # req[r].sid
      BY <1>0, <2>4 DEF Handled, Ran
    <3>2. run'[req[r].sid] = run[req[r].sid]
      BY <2>3, <3>1
    <3>3. ASSUME NEW x \in Reqs \ {r}
          PROVE  req'[x].sid # req[r].sid
      <4>1. CASE x = q
        BY <2>2, <2>4, <4>1
      <4>2. CASE x # q
        BY <1>2, <3>1, <4>2
      <4> QED BY <4>1, <4>2
    <3> QED BY <3>1, <3>2, <3>3
  <2> QED BY <1>1, <2>4 DEF SidSafe
<1>5. CASE UploadBegin(q) \/ SendBegin(q)
  <2>1. run' = run /\ req'[q].sid = 0
    BY <1>5, BeginSets
  <2> QED BY <1>0, <1>2, <2>1 DEF SidSafe, Handled, Ran
<1>6. CASE \/ Create(q) \/ DirFails(q) \/ WriteFile(q) \/ WriteFails(q) \/ UploadEnds(q)
           \/ Reopen(q) \/ LaunchFails(q) \/ Retry(q)
  <2>1. run' = run
    BY <1>6 DEF Create, DirFails, WriteFile, WriteFails, UploadEnds, Reopen, LaunchFails,
                Retry
  <2>2. req'[q].sid = req[q].sid \/ req'[q] = Idle
    <3>0. req[q] \in Req
      BY <1>0
    <3>1. CASE Create(q) \/ DirFails(q) \/ WriteFile(q) \/ UploadEnds(q)
      BY <1>0, <3>0, <3>1 DEF Create, DirFails, WriteFile, UploadEnds, Req
    <3>2. CASE Reopen(q)
      <4>1. PICK a \in ToWrite(q) :
              req'[q] = [req[q] EXCEPT !.pc = "writing", !.indir = TRUE,
                                       !.names = req[q].names \ {a},
                                       !.mine = req[q].mine \cup {a}]
        BY <1>0, <3>2 DEF Reopen
      <4> QED BY <3>0, <4>1 DEF Req
    <3>4. CASE Retry(q)
      <4>1. \/ req'[q] = Idle
            \/ req'[q] = [req[q] EXCEPT !.pc = FirstStep[req[q].kind],
                                        !.dir = row[Session].dir]
        BY <1>0, <3>4 DEF Retry
      <4> QED BY <3>0, <4>1 DEF Req
    <3>3. CASE WriteFails(q) \/ LaunchFails(q)
      BY <1>0, <3>3 DEF WriteFails, LaunchFails
    <3> QED BY <1>6, <3>1, <3>2, <3>3, <3>4
  <2>3. req'[q].sid \in {req[q].sid, 0}
    BY <2>2, IdleTyped
  <2> QED BY <1>0, <1>2, <2>1, <2>3 DEF SidSafe, Handled, Ran
<1> QED BY <1>1, <1>3, <1>4, <1>5, <1>6 DEF Handle
(* The request whose step it is.                                           *)
LEMMA HandledByStep ==
  ASSUME FilesInv, RestTyped', NEW q \in Reqs, UploadBegin(q) \/ SendBegin(q) \/ Handle(q)
  PROVE  Handled(q)'
<1>0. /\ TxTyped /\ RestTyped /\ Handled(q) /\ q \in Parties
      /\ req[q] \in Req /\ req \in [Reqs -> Req]
      /\ req[q].mine \subseteq Atts /\ req[q].names \subseteq Atts
      /\ disk \in [Atts -> {"none", "torn", "whole"}]
      /\ created \in 0 .. MaxAtts /\ (\A a \in bare : a <= created)
      /\ \A a \in Atts : a > created => disk[a] = "none"
  BY TypeParts, Fields DEF FilesInv, RestTyped, Parties, Attached
<1>1. CASE UploadBegin(q) \/ SendBegin(q)
  <2>1. /\ doomed' = doomed /\ q \notin doomed
        /\ snap'[q] = [k \in {Session} |-> row[k]]
    BY <1>0, <1>1, BeginSets DEF Tx!Begin, Tx!InTx, TxTyped
  <2> QED BY <1>0, <1>1, <2>1, BeginSets DEF Handled, Busy, FilesInv, Attached
<1>2. CASE WriteFails(q) \/ LaunchFails(q) \/ Commit(q) \/ Conflict(q)
  <2>1. DOMAIN snap'[q] = {}
    <3>1. CASE Conflict(q)
      BY <1>0, <3>1 DEF Conflict, Handled, Tx!Conflict
    <3>2. CASE Tx!End(q)
      BY <1>0, <3>2 DEF Tx!End, Tx!NoTx, TxTyped
    <3>3. CASE Tx!Commit(q, [k \in {Session} |-> NewRow(q)])
      BY <1>0, <3>3 DEF Tx!Commit, Tx!NoTx, Parties
    <3> QED BY <1>2, <3>1, <3>2, <3>3 DEF WriteFails, LaunchFails, Commit
  <2>2. /\ req'[q] = Idle \/ req'[q] = Again(req[q])
        /\ created' = created
    BY <1>0, <1>2 DEF WriteFails, LaunchFails, Commit, Conflict, files
  <2>3. /\ Again(req[q]).mine = {} /\ Again(req[q]).sid = 0
        /\ Again(req[q]).pc = "again" /\ ~Again(req[q]).ok
        /\ Again(req[q]).names \subseteq req[q].mine
    BY DEF Again, Idle
  <2>4. \A a \in req[q].mine : a <= created
    BY <1>0 DEF Handled
  <2>5. /\ req'[q].mine = {} /\ req'[q].sid = 0 /\ ~req'[q].ok
        /\ req'[q].pc \notin {"sending", "storing"}
        /\ \A a \in req'[q].names : a <= created'
    BY <2>2, <2>3, <2>4, IdleTyped
  <2> QED BY <2>1, <2>5, ResetHandled
<1>3. CASE Create(q)
  <2>1. /\ created' = created + 1 /\ created' \in Atts
        /\ disk' = [disk EXCEPT ![created'] = "torn"]
        /\ UNCHANGED <<tables, touched, bare>>
        /\ req'[q] = [req[q] EXCEPT !.pc = "writing", !.indir = TRUE,
                                    !.mine = req[q].mine \cup {created'}]
        /\ req[q].pc = "storing"
    BY <1>0, <1>3, FileBounds DEF Create, Opened, At, Atts
  <2>2. /\ req'[q].pc = "writing" /\ req'[q].mine = req[q].mine \cup {created'}
        /\ req'[q].sid = req[q].sid /\ req'[q].dir = req[q].dir
        /\ req'[q].names = req[q].names /\ req'[q].kind = req[q].kind
        /\ req'[q].ok = req[q].ok
    BY <1>0, <2>1 DEF Req
  <2>3. \A a \in req[q].mine : a <= created' /\ disk'[a] # "none"
    BY <1>0, <2>1 DEF Handled, Atts
  <2>4. created' <= created' /\ disk'[created'] # "none" /\ created' \notin bare
    BY <1>0, <2>1 DEF Atts
  <2>5. \A a \in req[q].names : a <= created'
    BY <1>0, <2>1 DEF Handled, Atts
  <2> QED BY <1>0, <2>1, <2>2, <2>3, <2>4, <2>5 DEF Handled, Busy, tables
<1>9. CASE DirFails(q)
  <2>1. PICK indir \in {req[q].indir, TRUE} :
          req'[q] = [req[q] EXCEPT !.pc = "closing", !.indir = indir,
                                   !.mine = req[q].mine \cup {created'}]
    BY <1>0, <1>9 DEF DirFails
  <2>2. /\ req'[q].pc = "closing" /\ req'[q].mine = req[q].mine \cup {created'}
        /\ req'[q].sid = req[q].sid /\ req'[q].dir = req[q].dir
        /\ req'[q].names = req[q].names /\ req'[q].kind = req[q].kind
        /\ req'[q].ok = req[q].ok
    BY <1>0, <2>1 DEF Req
  <2>3. /\ created' = created + 1 /\ created' \in Atts /\ req[q].pc = "storing"
        /\ bare' = bare \cup {created'} /\ UNCHANGED <<tables, touched, disk>>
    BY <1>0, <1>9, FileBounds DEF DirFails, At, Atts
  <2>4. /\ \A a \in req[q].mine : a <= created' /\ disk[a] # "none" /\ Fine(a)
        /\ \A a \in req[q].names : a <= created'
        /\ req[q].kind = "upload" /\ ~req[q].ok /\ req[q].sid = 0
    BY <1>0, <2>3 DEF Handled, Atts
  <2>6. disk[created'] = "none" /\ created' <= created'
    BY <1>0, <2>3 DEF Atts
  <2>5. \A a \in req[q].mine \cup {created'} : a <= created' /\ Fine(a)'
    BY <1>0, <2>3, <2>4, <2>6 DEF Fine
  <2> QED BY <1>0, <2>2, <2>3, <2>4, <2>5 DEF Handled, Busy, tables
<1>4. CASE WriteFile(q)
  <2>1. /\ created' = created /\ UNCHANGED <<tables, touched, bare>>
        /\ req'[q] = [req[q] EXCEPT !.pc = IF req[q].kind = "upload" THEN "storing"
                                           ELSE "sending"]
        /\ req[q].pc = "writing"
        /\ \A a \in req[q].mine : disk'[a] = IF disk[a] = "torn" THEN "whole" ELSE disk[a]
    BY <1>0, <1>4 DEF WriteFile, At, Written
  <2>2. /\ req'[q].pc \in {"storing", "sending"} /\ req'[q].mine = req[q].mine
        /\ req'[q].sid = req[q].sid /\ req'[q].dir = req[q].dir
        /\ req'[q].names = req[q].names /\ req'[q].kind = req[q].kind
        /\ req'[q].ok = req[q].ok
        /\ req'[q].pc = "sending" => req'[q].kind = "send"
        /\ req'[q].pc = "storing" => req'[q].kind = "upload"
    BY <1>0, <2>1 DEF Req
  <2>3. \A a \in req[q].mine : disk'[a] = "whole" /\ Fine(a)'
    BY <1>0, <2>1 DEF Handled, Fine
  <2> QED BY <1>0, <2>1, <2>2, <2>3 DEF Handled, Busy, tables
<1>5. CASE UploadEnds(q)
  <2>1. PICK ok \in BOOLEAN :
          /\ UNCHANGED <<tables, created, disk, touched, bare>> /\ req[q].pc = "storing"
          /\ req'[q] = [req[q] EXCEPT !.pc = "closing", !.ok = ok]
    BY <1>0, <1>5 DEF UploadEnds, At, files
  <2>2. /\ req'[q].pc = "closing" /\ req'[q].mine = req[q].mine
        /\ req'[q].sid = req[q].sid /\ req'[q].dir = req[q].dir
        /\ req'[q].names = req[q].names /\ req'[q].kind = req[q].kind
    BY <1>0, <2>1 DEF Req
  <2>3. req[q].kind = "upload" /\ req[q].sid = 0
    BY <1>0, <2>1 DEF Handled
  <2> QED BY <1>0, <2>1, <2>2, <2>3 DEF Handled, Busy, tables, Fine
<1>6. CASE Reopen(q)
  <2>1. PICK a \in req[q].names :
          /\ disk' = [disk EXCEPT ![a] = "torn"] /\ touched' = touched \cup {a}
          /\ req'[q] = [req[q] EXCEPT !.pc = "writing", !.indir = TRUE,
                                      !.names = req[q].names \ {a},
                                      !.mine = req[q].mine \cup {a}]
    BY <1>0, <1>6 DEF Reopen, ToWrite
  <2>2. /\ req'[q].pc = "writing" /\ req'[q].mine = req[q].mine \cup {a}
        /\ req'[q].sid = req[q].sid /\ req'[q].dir = req[q].dir
        /\ req'[q].names = req[q].names \ {a} /\ req'[q].kind = req[q].kind
        /\ req'[q].ok = req[q].ok
    BY <1>0, <2>1 DEF Req
  <2>3. UNCHANGED <<tables, created>> /\ req[q].pc = "sending"
    BY <1>6 DEF Reopen, At
  <2>5. /\ \A b \in req[q].mine : b <= created /\ disk[b] # "none"
        /\ req[q].kind = "send" /\ a <= created
    BY <1>0, <2>3 DEF Handled
  <2>4. \A b \in req[q].mine \cup {a} : b <= created /\ disk'[b] # "none"
    BY <1>0, <2>1, <2>5
  <2> QED BY <1>0, <2>1, <2>2, <2>3, <2>4, <2>5 DEF Handled, Busy, tables
<1>7. CASE Mint(q)
  <2>1. PICK s \in Sids, routed \in BOOLEAN :
          /\ Ran(s, "none")
          /\ run' = [run EXCEPT ![s] = [pc |-> "minted", routed |-> routed,
                                        prompt |-> req[q].mine \cup req[q].names]]
          /\ req' = [req EXCEPT ![q] = [req[q] EXCEPT !.pc = "closing", !.indir = TRUE,
                                                      !.sid = s]]
    BY <1>0, <1>7, MintPrepares
  <2>2. /\ req'[q].pc = "closing" /\ req'[q].mine = req[q].mine
        /\ req'[q].sid = s /\ req'[q].dir = req[q].dir /\ req'[q].indir
        /\ req'[q].ok = req[q].ok
        /\ req'[q].names = req[q].names /\ req'[q].kind = req[q].kind
        /\ \A r \in Reqs \ {q} : req'[r] = req[r]
    BY <1>0, <2>1 DEF Req
  <2>3. UNCHANGED <<tables, created, disk, touched, bare>> /\ req[q].pc = "sending"
    BY <1>0, <1>7, MintPrepares DEF files
  <2>4. req[q].kind = "send"
    BY <1>0, <2>3 DEF Handled
  <2>5. ASSUME NEW r \in Reqs \ {q}
        PROVE  req'[r].sid # s
    BY <2>1, <2>2 DEF FilesInv, Handled, Ran, Sids
  <2>6. run'[s].pc = "minted"
    BY <1>0, <2>1 DEF RestTyped
  <2> QED BY <1>0, <2>2, <2>3, <2>4, <2>5, <2>6 DEF Handled, Busy, tables, Ran
<1>8. CASE Retry(q)
  <2>1. UNCHANGED <<created, disk, touched, bare>> /\ req[q].pc = "again"
    BY <1>8 DEF Retry, At, files
  <2>2. CASE req'[q] = Idle /\ UNCHANGED tables
    <3>1. DOMAIN snap'[q] = {}
      BY <1>0, <2>1, <2>2 DEF Handled, Busy, tables
    <3> QED BY <2>2, <3>1, IdleTyped, ResetHandled
  <2>3. CASE ~(req'[q] = Idle /\ UNCHANGED tables)
    <3>1. /\ req'[q] = [req[q] EXCEPT !.pc = FirstStep[req[q].kind], !.dir = row[Session].dir]
          /\ Tx!Begin(q, {Session})
      BY <1>0, <1>8, <2>3 DEF Retry
    <3>2. /\ doomed' = doomed /\ q \notin doomed
          /\ snap'[q] = [k \in {Session} |-> row[k]]
      BY <1>0, <3>1 DEF Tx!Begin, Tx!InTx, TxTyped
    <3>3. FirstStep[req[q].kind] \in {"storing", "sending"}
      BY <1>0, Fields DEF FirstStep
    <3>4. /\ req'[q].pc \in {"storing", "sending"} /\ req'[q].mine = {}
          /\ req'[q].sid = req[q].sid /\ req'[q].dir = row[Session].dir
          /\ req'[q].names = req[q].names /\ req'[q].ok = req[q].ok
          /\ req'[q].pc = "sending" => req'[q].kind = "send"
          /\ req'[q].pc = "storing" => req'[q].kind = "upload"
      BY <1>0, <2>1, <3>1, <3>3, Fields DEF Req, Handled, FirstStep
    <3> QED BY <1>0, <2>1, <3>2, <3>4 DEF Handled, Busy
  <2> QED BY <2>2, <2>3
<1> QED BY <1>1, <1>2, <1>3, <1>4, <1>5, <1>6, <1>7, <1>8, <1>9 DEF Handle
LEMMA HandledStep ==
  ASSUME FilesInv, RestTyped', [Next]_vars, NEW r \in Reqs
  PROVE  Handled(r)'
<1>0. /\ TxTyped /\ RestTyped /\ Handled(r) /\ Reqs \subseteq Parties /\ Sids \subseteq Parties
      /\ Tx!SnapshotCurrent
  BY TypeParts DEF FilesInv, Parties
<1>1. ASSUME NEW q \in Reqs, UploadBegin(q) \/ SendBegin(q) \/ Handle(q), q # r
      PROVE  Handled(r)'
  <2>1. Handled(q)
    BY DEF FilesInv
  <2>2. req'[r] = req[r] /\ SidSafe(r)
    BY <1>0, <1>1, <2>1, HandledElsewhere
  <2>3. TxSafe(r)
    BY <1>0, <1>1, <2>1, RequestTx, OvertakenOrNot
  <2>5. FilesStay
    BY <1>0, <1>1, <2>1, FilesStayStep
  <2> QED BY <1>0, <2>2, <2>3, <2>5, OthersHandled
<1>2. ASSUME NEW s \in Sids, Work(s)
      PROVE  Handled(r)'
  <2>1. /\ req'[r] = req[r] /\ FilesStay
        /\ run' = [run EXCEPT ![s] = [run[s] EXCEPT !.pc = run'[s].pc]]
    BY <1>0, <1>2, WorkTyped, FilesSame
  <2>2. ~Ran(s, "minted")
    BY <1>2 DEF Work, Start, StartFails, StartCommit, Hear, HearCommit, Leave, Ran
  <2>3. SidSafe(r)
    <3>1. ASSUME req[r].sid # 0
          PROVE  /\ run'[req[r].sid].pc = "minted"
                 /\ \A x \in Reqs \ {r} : req'[x].sid # req[r].sid
      <4>1. /\ run[req[r].sid].pc = "minted"
            /\ \A x \in Reqs \ {r} : req[x].sid # req[r].sid
        BY <1>0, <3>1 DEF Handled, Ran
      <4>2. req[r].sid \in Sids /\ req[r].sid # s
        BY <1>0, <2>2, <3>1, <4>1, Fields, FileBounds DEF Sids, Ran
      <4>3. run'[req[r].sid] = run[req[r].sid]
        BY <1>0, <2>1, <4>2 DEF RestTyped
      <4>4. req' = req
        BY <1>0, <1>2, WorkTyped
      <4> QED BY <4>1, <4>3, <4>4
    <3> QED BY <3>1 DEF SidSafe
  <2>4. TxSafe(r)
    BY <1>0, <1>2, WorkerTx, OvertakenOrNot, RequestsAreNotRuns DEF Sids
  <2> QED BY <1>0, <2>1, <2>3, <2>4, OthersHandled
<1>3. CASE Restart
  <2>1. req'[r] = Idle /\ DOMAIN snap'[r] = {}
    BY <1>0, <1>3 DEF Restart, Tx!RollbackAll, Tx!NoTx, Parties
  <2> QED BY <2>1, IdleTyped, ResetHandled
<1>4. CASE UNCHANGED vars
  <2>1. FilesStay /\ req' = req /\ run' = run /\ UNCHANGED tables
    BY <1>0, <1>4, FilesSame DEF vars, files
  <2>2. TxSafe(r) /\ SidSafe(r)
    BY <1>0, <2>1 DEF TxSafe, SidSafe, tables, Handled, Ran
  <2> QED BY <1>0, <2>1, <2>2, OthersHandled
<1>5. ASSUME NEW q \in Reqs, UploadBegin(q) \/ SendBegin(q) \/ Handle(q), q = r
      PROVE  Handled(r)'
  BY <1>5, HandledByStep
<1> QED BY <1>1, <1>2, <1>3, <1>4, <1>5 DEF Next
-----------------------------------------------------------------------------
(* Workers.  One that a step leaves alone, or only dooms, keeps what it     *)
(* knows if nobody deletes its routing session.                            *)
LEMMA OthersWorked ==
  ASSUME RestTyped, RestTyped', NEW s \in Sids, Worked(s), FilesStay, TxSafe(s),
         run'[s] = run[s], s \in store' <=> s \in store, undeleted \subseteq undeleted',
         row[Session].dir => row'[Session].dir
  PROVE  Worked(s)'
<1>1. \A a \in Atts : a <= created => a <= created'
  BY FileBounds DEF RestTyped, FilesStay, Atts
<1>2. run[s].prompt \subseteq Atts
  BY DEF RestTyped, Run
<1>3. \A a \in run[s].prompt : a <= created' /\ disk'[a] # "none"
  BY <1>1, <1>2 DEF Worked, FilesStay
<1> QED BY <1>3 DEF Worked, TxSafe, Ran

(* Its send launches it over a session that has its working_dir.            *)
LEMMA WorkedByRequest ==
  ASSUME FilesInv, RestTyped', NEW q \in Reqs, UploadBegin(q) \/ SendBegin(q) \/ Handle(q),
         NEW s \in Sids
  PROVE  Worked(s)'
<1>0. /\ TxTyped /\ RestTyped /\ Handled(q) /\ Worked(s) /\ q \in Parties /\ s \in Parties
      /\ Tx!SnapshotCurrent /\ s # q /\ run \in [Sids -> Run]
      /\ req[q].mine \subseteq Atts
  BY TypeParts, Fields, RequestsAreNotRuns DEF FilesInv, RestTyped, Parties, Sids
<1>1. /\ FilesStay /\ TxSafe(s)
      /\ row[Session].dir => row'[Session].dir
  BY <1>0, FilesStayStep, RequestTx, TxOfKept, OvertakenOrNot
<1>a. undeleted' = undeleted
  BY MintPrepares, <1>0
     DEF UploadBegin, SendBegin, Arrive, Handle, Create, DirFails, WriteFile, WriteFails,
         UploadEnds, Reopen, LaunchFails, Commit, Conflict, Retry, routing
<1>2. CASE run'[s] = run[s] /\ (s \in store' <=> s \in store)
  BY <1>0, <1>1, <1>a, <1>2, OthersWorked
<1>3. CASE Mint(q) /\ ~(run'[s] = run[s] /\ (s \in store' <=> s \in store))
  <2>1. PICK t \in Sids, routed \in BOOLEAN :
          /\ Ran(t, "none") /\ store' = IF routed THEN store \cup {t} ELSE store
          /\ run' = [run EXCEPT ![t] = [pc |-> "minted", routed |-> routed,
                                        prompt |-> req[q].mine \cup req[q].names]]
    BY <1>0, <1>3, MintPrepares
  <2>2. t = s
    BY <1>0, <1>3, <2>1
  <2>3. /\ req[q].names = {} /\ UNCHANGED <<tables, created, disk>>
        /\ req[q].pc = "sending"
    BY <1>0, <1>3, MintPrepares DEF ToWrite, files
  <2>4. /\ run'[s].pc = "minted" /\ run'[s].prompt = req[q].mine
        /\ run'[s].routed => s \in store'
    BY <1>0, <2>1, <2>2, <2>3
  <2>5. DOMAIN snap[s] = {}
    BY <1>0, <2>1, <2>2 DEF Worked, Ran
  <2> QED BY <1>0, <2>3, <2>4, <2>5 DEF Worked, Handled, Ran, Live, tables
<1>4. CASE (Commit(q) \/ Conflict(q)) /\ ~(run'[s] = run[s] /\ (s \in store' <=> s \in store))
  <2>1. /\ s = req[q].sid /\ store' = store
        /\ run'[s] = [run[s] EXCEPT !.pc = IF Commit(q) THEN "launched" ELSE "lost",
                                    !.prompt = {}]
    <3>1. CASE Commit(q)
      BY <1>4, <3>1 DEF Commit, Promptless, files, routing
    <3>2. CASE ~Commit(q)
      BY <1>4, <3>2 DEF Conflict, Promptless, files, routing
    <3> QED BY <3>1, <3>2
  <2>6. /\ run'[s].pc = IF Commit(q) THEN "launched" ELSE "lost"
        /\ run'[s].prompt = {} /\ run'[s].routed = run[s].routed
    <3>1. run[s] \in Run
      BY <1>0
    <3> QED BY <2>1, <3>1 DEF Run
  <2>2. Ran(s, "minted") /\ req[q].kind = "send" /\ s # 0
    BY <1>0, <2>1 DEF Handled, Sids
  <2>3. DOMAIN snap[s] = {} /\ (run[s].routed => s \in store)
    BY <1>0, <2>2 DEF Worked, Ran
  <2>4. DOMAIN snap'[s] = {}
    BY <1>1, <2>3 DEF TxSafe
  <2>5. Commit(q) => row'[Session].dir
    <3>1. req[q].indir /\ Writes(q)
      BY <1>0, <2>1, <2>2 DEF Writes, Handled
    <3>2. NewRow(q).dir
      BY <3>1 DEF NewRow
    <3>3. Commit(q) => row'[Session] = NewRow(q)
      BY <3>1 DEF Commit, Tx!Commit
    <3> QED BY <3>2, <3>3
  <2> QED BY <2>1, <2>3, <2>4, <2>5, <2>6 DEF Worked, Ran, Live
<1>5. CASE ~Mint(q) /\ ~Commit(q) /\ ~Conflict(q)
  <2>1. run' = run /\ store' = store
    BY <1>5 DEF UploadBegin, SendBegin, Arrive, Handle, Create, DirFails, WriteFile,
                WriteFails, UploadEnds, Reopen, LaunchFails, Retry, routing
  <2> QED BY <1>2, <2>1
<1> QED BY <1>2, <1>3, <1>4, <1>5

LEMMA WorkedByWorker ==
  ASSUME FilesInv, RestTyped', NEW t \in Sids, Work(t), NEW s \in Sids
  PROVE  Worked(s)'
<1>0. /\ TxTyped /\ RestTyped /\ Worked(s) /\ s \in Parties /\ t \in Parties
      /\ Tx!SnapshotCurrent /\ run \in [Sids -> Run] /\ run[s] \in Run
  BY TypeParts DEF FilesInv, RestTyped, Parties
<1>1. /\ FilesStay /\ TxOf(t) /\ UNCHANGED <<created, disk>>
      /\ undeleted \subseteq undeleted'
      /\ run' = [run EXCEPT ![t] = [run[t] EXCEPT !.pc = run'[t].pc]]
      /\ row[Session].dir => row'[Session].dir
  BY <1>0, WorkTyped, WorkerTx, TxOfKept, FilesSame
<1>2. CASE s # t
  <2>1. run'[s] = run[s] /\ (s \in store' <=> s \in store) /\ TxSafe(s)
    BY <1>0, <1>1, <1>2, OvertakenOrNot
       DEF Work, Start, StartFails, StartCommit, Hear, HearCommit, Leave, Cleaned, routing
  <2> QED BY <1>0, <1>1, <2>1, OthersWorked
<1>3. CASE s = t
  <2>1. run'[s].prompt = {} /\ run'[s].routed = run[s].routed
    BY <1>0, <1>1, <1>3
       DEF Work, Start, StartFails, StartCommit, Hear, HearCommit, Leave, Worked, Ran, Run
  <2>2. CASE Start(s) \/ Hear(s)
    <3>1. /\ snap'[s] = [k \in {Session} |-> row[k]] /\ doomed' = doomed
          /\ s \notin doomed /\ store' = store /\ UNCHANGED row
      BY <1>0, <2>2 DEF Start, Hear, Tx!Begin, Tx!InTx, TxTyped, routing
    <3>2. run'[s].pc \in {"starting", "hearing"} /\ run[s].pc \in Live
      <4>1. CASE Start(s)
        BY <1>0, <4>1 DEF Start, Follows, Ran, Live
      <4>2. CASE Hear(s)
        BY <1>0, <4>2 DEF Hear, Follows, Ran, Live
      <4> QED BY <2>2, <4>1, <4>2
    <3> QED BY <1>0, <2>1, <3>1, <3>2 DEF Worked, Live, Ran
  <2>3. CASE StartFails(s) \/ StartCommit(s) \/ HearCommit(s) \/ Leave(s)
    <3>1. DOMAIN snap'[s] = {}
      <4>1. CASE Tx!End(s)
        BY <1>0, <4>1 DEF Tx!End, Tx!NoTx, TxTyped
      <4>2. CASE Tx!Conflict(s)
        BY <1>0, <4>2 DEF Tx!Conflict, Worked
      <4>3. ASSUME NEW new, Tx!Commit(s, new)
            PROVE  DOMAIN snap'[s] = {}
        BY <1>0, <4>3 DEF Tx!Commit, Tx!NoTx, Parties
      <4>4. CASE Ran(s, "reading") /\ UNCHANGED tables
        BY <1>0, <4>4 DEF Worked, Ran, tables
      <4> QED BY <2>3, <4>1, <4>2, <4>3, <4>4 DEF StartFails, StartCommit, HearCommit, Leave
    <3>2. CASE StartFails(s)
      <4>1. run'[s].pc = "lost"
        BY <1>0, <3>2 DEF StartFails, Follows
      <4> QED BY <2>1, <3>1, <4>1 DEF Worked, Ran, Live
    <3>3. CASE StartCommit(s) \/ HearCommit(s)
      <4>1. run'[s].pc = "reading" /\ run[s].pc \in Live /\ store' = store
        <5>1. CASE StartCommit(s)
          BY <1>0, <5>1 DEF StartCommit, Follows, Ran, Live, routing
        <5>2. CASE HearCommit(s)
          BY <1>0, <5>2 DEF HearCommit, Follows, Ran, Live, routing
        <5> QED BY <3>3, <5>1, <5>2
      <4> QED BY <1>0, <1>1, <2>1, <3>1, <4>1 DEF Worked, Ran, Live
    <3>4. CASE Leave(s)
      <4>1. run'[s].pc = "over" /\ (s \in store' => s \in undeleted')
        BY <1>0, <3>4 DEF Leave, Follows, Cleaned
      <4> QED BY <2>1, <3>1, <4>1 DEF Worked, Ran, Live
    <3> QED BY <2>3, <3>2, <3>3, <3>4
  <2> QED BY <1>3, <2>2, <2>3 DEF Work
<1> QED BY <1>2, <1>3

LEMMA WorkedStep ==
  ASSUME FilesInv, RestTyped', [Next]_vars, NEW s \in Sids
  PROVE  Worked(s)'
<1>0. TxTyped /\ RestTyped /\ Worked(s)
  BY TypeParts DEF FilesInv
<1>1. ASSUME NEW q \in Reqs, UploadBegin(q) \/ SendBegin(q) \/ Handle(q)
      PROVE  Worked(s)'
  BY <1>1, WorkedByRequest
<1>2. ASSUME NEW t \in Sids, Work(t)
      PROVE  Worked(s)'
  BY <1>2, WorkedByWorker
<1>3. CASE Restart
  <2>1. /\ DOMAIN snap'[s] = {} /\ store' = store /\ undeleted' = undeleted
        /\ \/ run'[s] = run[s] /\ (Ran(s, "none") \/ Ran(s, "over"))
           \/ run'[s] = [pc |-> "lost", prompt |-> {}, routed |-> FALSE]
    BY <1>3 DEF Restart, Tx!RollbackAll, Tx!NoTx, routing
  <2> QED BY <1>0, <2>1 DEF Worked, Ran, Live
<1>4. CASE UNCHANGED vars
  <2>1. FilesStay /\ UNCHANGED <<tables, run, store, undeleted>>
    BY <1>0, <1>4, FilesSame DEF vars, files, routing
  <2> QED BY <1>0, <2>1, OthersWorked DEF TxSafe, tables
<1> QED BY <1>1, <1>2, <1>3, <1>4 DEF Next
-----------------------------------------------------------------------------
(* Attachments.                                                            *)
LEMMA AttachedStep ==
  ASSUME FilesInv, RestTyped', [Next]_vars
  PROVE  Attached'
<1>0. /\ RestTyped /\ atts \subseteq Atts /\ bare \subseteq Atts
      /\ \A a \in atts : a <= created /\ Fine(a)
      /\ \A a \in bare : a <= created
      /\ \A a \in Atts : a > created => disk[a] = "none"
      /\ \A q \in Reqs : Handled(q)
  BY TypeParts DEF FilesInv, RestTyped, Attached
<1>1. ASSUME FilesStay, atts' = atts
      PROVE  Attached'
  <2>1. \A a \in Atts : a <= created => a <= created'
    BY <1>0, <1>1, FileBounds DEF RestTyped, FilesStay, Atts
  <2> QED BY <1>0, <1>1, <2>1 DEF Attached, FilesStay
<1>2. ASSUME NEW q \in Reqs, UploadBegin(q) \/ SendBegin(q) \/ Handle(q), ~Commit(q)
      PROVE  Attached'
  <2>1. atts' = atts
    BY <1>2 DEF UploadBegin, SendBegin, Arrive, Handle, Create, DirFails, WriteFile,
                WriteFails, UploadEnds, Reopen, Mint, Prepare, LaunchFails, Conflict, Retry
  <2> QED BY <1>0, <1>1, <1>2, <2>1, FilesStayStep
<1>3. ASSUME NEW q \in Reqs, Commit(q)
      PROVE  Attached'
  <2>1. /\ UNCHANGED <<created, disk, touched, bare>> /\ req[q].pc = "closing"
        /\ \A a \in atts' : a \notin atts => req[q].kind = "upload" /\ a \in req[q].mine
    BY <1>3 DEF Commit, At, files
  <2>2. req[q].kind = "upload" => \A a \in req[q].mine :
          a <= created /\ Fine(a)
    BY <2>1 DEF FilesInv, Handled
  <2> QED BY <1>0, <2>1, <2>2 DEF Attached, Fine
<1>4. ASSUME NEW s \in Sids, Work(s)
      PROVE  Attached'
  BY <1>0, <1>1, <1>4, WorkTyped, FilesSame
<1>5. CASE Restart
  <2>1. /\ atts' = atts /\ created' = created /\ bare' = bare
        /\ \/ disk' = disk /\ touched' = touched
           \/ touched' = 1 .. created /\ disk' = [a \in Atts |-> "none"]
    BY <1>5 DEF Restart
  <2>2. \A a \in atts : a \in 1 .. created
    BY <1>0, FileBounds DEF RestTyped, Atts
  <2> QED BY <1>0, <2>1, <2>2 DEF Attached, Fine
<1>6. CASE UNCHANGED vars
  BY <1>0, <1>1, <1>6, FilesSame DEF vars, files
<1> QED BY <1>2, <1>3, <1>4, <1>5, <1>6 DEF Next, Handle

-----------------------------------------------------------------------------
LEMMA InvInit == Init => FilesInv
<1> SUFFICES ASSUME Init
             PROVE  FilesInv
  OBVIOUS
<1>1. /\ row = [k \in {Session} |-> [running |-> FALSE, dir |-> FALSE]]
      /\ snap = [x \in Parties |-> Tx!NoTx] /\ doomed = {}
      /\ atts = {} /\ created = 0 /\ disk = [a \in Atts |-> "none"] /\ touched = {}
      /\ bare = {} /\ store = {} /\ undeleted = {}
      /\ run = [s \in Sids |-> [pc |-> "none", prompt |-> {}, routed |-> FALSE]]
      /\ req = [q \in Reqs |-> Idle] /\ faults = 0
  BY DEF Init, Tx!TxInit, Parties
<1>2. Tx!NoTx \in [{} -> Record] /\ DOMAIN Tx!NoTx = {}
  BY DEF Tx!NoTx
<1>3. TxTyped
  BY <1>1, <1>2 DEF TxTyped, Record
<1>4. RestTyped
  <2>1. 0 \in 0 .. MaxAtts /\ 0 \in 0 .. MaxFaults
    BY FileBounds
  <2>2. [pc |-> "none", prompt |-> {}, routed |-> FALSE] \in Run
    BY DEF Run
  <2> QED BY <1>1, <2>1, <2>2, IdleTyped DEF RestTyped
<1>5. Tx!SnapshotCurrent
  BY <1>1, <1>2 DEF Tx!SnapshotCurrent, Parties
<1>6. \A q \in Reqs : Handled(q)
  BY <1>1, <1>2, IdleTyped DEF Handled, Parties
<1>7. \A s \in Sids : Worked(s)
  BY <1>1, <1>2 DEF Worked, Ran, Live, Parties
<1>8. Attached
  BY <1>1 DEF Attached
<1> QED BY <1>3, <1>4, <1>5, <1>6, <1>7, <1>8, TypeParts DEF FilesInv

LEMMA InvStep == FilesInv /\ [Next]_vars => FilesInv'
<1> SUFFICES ASSUME FilesInv, [Next]_vars
             PROVE  FilesInv'
  OBVIOUS
<1>1. TxTyped /\ RestTyped /\ Tx!SnapshotCurrent
  BY TypeParts DEF FilesInv
<1>2. TxTyped' /\ Tx!SnapshotCurrent'
  <2>1. ASSUME NEW x \in Parties, TxOf(x)
        PROVE  TxTyped' /\ Tx!SnapshotCurrent'
    BY <1>1, <2>1, TxOfKept
  <2>2. ASSUME NEW q \in Reqs, UploadBegin(q) \/ SendBegin(q) \/ Handle(q)
        PROVE  TxOf(q) /\ q \in Parties
    BY <1>1, <2>2, RequestTx DEF FilesInv, Parties
  <2>3. ASSUME NEW s \in Sids, Work(s)
        PROVE  TxOf(s) /\ s \in Parties
    BY <1>1, <2>3, WorkerTx DEF Parties
  <2>4. CASE Restart
    <3>1. /\ snap' = [x \in Parties |-> Tx!NoTx] /\ doomed' = {} /\ row' = row
      BY <2>4 DEF Restart, Tx!RollbackAll, Parties
    <3>2. Tx!NoTx \in [{} -> Record] /\ DOMAIN Tx!NoTx = {}
      BY DEF Tx!NoTx
    <3>3. TxTyped'
      BY <1>1, <3>1, <3>2 DEF TxTyped
    <3> QED BY <3>1, <3>2, <3>3 DEF Tx!SnapshotCurrent, Parties
  <2>5. CASE UNCHANGED vars
    BY <1>1, <2>5 DEF vars, tables, TxTyped, Tx!SnapshotCurrent
  <2> QED BY <2>1, <2>2, <2>3, <2>4, <2>5 DEF Next
<1>3. RestTyped'
  BY <1>1, RestKept
<1>4. TypeOK' /\ (snap = [x \in Parties |-> snap[x]])'
  BY <1>2, <1>3 DEF TypeOK, TxTyped, RestTyped, Parties
<1>5. \A q \in Reqs : Handled(q)'
  BY <1>3, HandledStep
<1>6. \A s \in Sids : Worked(s)'
  BY <1>3, WorkedStep
<1>7. Attached'
  BY <1>3, AttachedStep
<1> QED BY <1>2, <1>4, <1>5, <1>6, <1>7 DEF FilesInv

LEMMA InvAlways == Spec => []FilesInv
BY InvInit, InvStep, PTL DEF Spec

(* Every variable keeps its type, whatever uploads, sends, conflicts and     *)
(* faults follow one another.                                              *)
THEOREM FileTypesKept == Spec => []TypeOK
<1>1. FilesInv => TypeOK
  BY DEF FilesInv
<1> QED BY <1>1, InvAlways, PTL

(* A committed attachment has its whole file, or none for lack of a          *)
(* directory, in which case its upload was not answered as stored; unless a *)
(* send opened it again or the scratch directory was lost.                  *)
THEOREM AttachmentsAlwaysOnDisk == Spec => []AttachmentsOnDisk
<1>1. FilesInv => AttachmentsOnDisk
  BY DEF FilesInv, Attached, Handled, Fine, AttachmentsOnDisk
<1> QED BY <1>1, InvAlways, PTL

(* The routing session of a run that has one exists while the run may need  *)
(* it, and after its loop was left only if the deletion failed.             *)
THEOREM SidsAlwaysDeleted == Spec => []SidsDeleted
<1>1. FilesInv => SidsDeleted
  BY DEF FilesInv, Worked, SidsDeleted, Live
<1> QED BY <1>1, InvAlways, PTL

(* A run is launched only when every file that its prompt names exists.     *)
THEOREM PromptsAlwaysComplete == Spec => PromptFilesExist
<1>1. FilesInv /\ [Next]_vars
        => [\A s \in Sids : ~Ran(s, "launched") /\ run'[s].pc = "launched"
              => \A a \in run[s].prompt : disk[a] # "none"]_vars
  BY DEF FilesInv, Worked
<1> QED BY <1>1, InvAlways, PTL DEF Spec, PromptFilesExist

(* The end of an upload never makes the transaction of a worker fail: what  *)
(* it writes is written before the first run, and no worker reads it then.  *)
LEMMA UploadEndSpares ==
  ASSUME FilesInv, [Next]_vars, NEW q \in Reqs, At(q, "closing"),
         req[q].kind = "upload", req'[q].pc = "free"
  PROVE  (doomed' \ doomed) \cap Sids = {}
<1>0. /\ TxTyped /\ RestTyped /\ Tx!SnapshotCurrent /\ q \in Parties
      /\ \A r \in Reqs : Handled(r)
  BY TypeParts DEF FilesInv, Parties
<1>1. ASSUME NEW r \in Reqs, UploadBegin(r) \/ SendBegin(r) \/ Handle(r), r # q
      PROVE  FALSE
  BY <1>0, <1>1, HandledElsewhere DEF At
<1>2. ASSUME NEW s \in Sids, Work(s)
      PROVE  FALSE
  BY <1>0, <1>2, WorkTyped DEF At
<1>3. ASSUME UNCHANGED vars
      PROVE  FALSE
  BY <1>3 DEF vars, At
<1>4. CASE Restart
  BY <1>4 DEF Restart, Tx!RollbackAll
<1>5. CASE UploadBegin(q) \/ SendBegin(q) \/ Handle(q)
  <2>1. Commit(q) \/ Conflict(q)
    BY <1>5 DEF UploadBegin, SendBegin, Arrive, Handle, Create, DirFails, WriteFile,
                WriteFails, UploadEnds, Reopen, Mint, Prepare, LaunchFails, Retry, At
  <2>2. CASE Tx!End(q) \/ Tx!Conflict(q)
    BY <2>2 DEF Tx!End, Tx!Conflict
  <2>3. CASE Writes(q) /\ Tx!Commit(q, [k \in {Session} |-> NewRow(q)])
    <3>1. ~req[q].dir /\ DOMAIN snap[q] # {}
      BY <2>3 DEF Writes, SetsDir, Tx!Commit
    <3>2. ~row[Session].dir
      BY <1>0, <3>1, HasRead DEF Handled
    <3>3. ASSUME NEW s \in Sids
          PROVE  DOMAIN snap[s] = {}
      BY <3>2 DEF FilesInv, Worked, Live
    <3>4. doomed' = doomed \cup Tx!Overtaken(q, {Session})
      BY <2>3 DEF Tx!Commit
    <3> QED BY <3>3, <3>4 DEF Tx!Overtaken
  <2> QED BY <2>1, <2>2, <2>3 DEF Commit, Conflict
<1> QED BY <1>1, <1>2, <1>3, <1>4, <1>5 DEF Next

(* No upload, however it overlaps with runs, makes a worker fail.           *)
THEOREM UploadsAlwaysSpareRuns == Spec => UploadsSpareRuns
<1>1. FilesInv /\ [Next]_vars
        => [\A q \in Reqs : At(q, "closing") /\ req[q].kind = "upload" /\ req'[q].pc = "free"
              => (doomed' \ doomed) \cap Sids = {}]_vars
  BY UploadEndSpares
<1> QED BY <1>1, InvAlways, PTL DEF Spec, UploadsSpareRuns
================================================================================
