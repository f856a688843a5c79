------------------------------ MODULE SnapshotTx ------------------------------
(***************************************************************************)
(* The database as this code uses it: an Odoo cursor on PostgreSQL at the  *)
(* REPEATABLE READ level.  A transaction reads a snapshot of the rows it   *)
(* touches, taken by its first statement; what it writes reaches the table *)
(* at cr.commit(); and a transaction that would write a row which another  *)
(* one has committed since the snapshot fails to serialize instead.        *)
(*                                                                         *)
(* The module is external to the repository: it stands for the cursor that *)
(* codexoo_runner.py opens in _run_worker and commits in _execute, and for *)
(* the one that serves each request and each cron call.                    *)
(***************************************************************************)
EXTENDS FiniteSets

CONSTANTS Keys,     \* the rows
          Actors    \* who may have a transaction open, one at a time each

VARIABLES row,        \* row[k]: the committed value of the row
          snap,       \* snap[a]: the rows a's transaction read, as it saw them
          doomed      \* actors whose transaction can no longer serialize

NoTx == [k \in {} |-> k]

InTx(a) == DOMAIN snap[a] # {} \/ a \in doomed

TxInit == /\ snap = [a \in Actors |-> NoTx]
          /\ doomed = {}

(* The first statement of a transaction that will read the rows S.         *)
Begin(a, S) ==
  /\ ~InTx(a)
  /\ snap' = [snap EXCEPT ![a] = [k \in S |-> row[k]]]
  /\ UNCHANGED <<row, doomed>>

(* The transactions that a's commit of the rows S overtakes: what they read*)
(* is stale and their writes will fail, so that only the failure is left.  *)
Overtaken(a, S) == {b \in Actors \ {a} : DOMAIN snap[b] \cap S # {}}

(* The commit of a transaction that wrote new[k] to the rows in its domain.*)
Commit(a, new) ==
  LET lost == Overtaken(a, DOMAIN new)
  IN /\ DOMAIN snap[a] # {}
     /\ row' = [k \in Keys |-> IF k \in DOMAIN new THEN new[k] ELSE row[k]]
     /\ snap' = [b \in Actors |-> IF b \in lost \cup {a} THEN NoTx ELSE snap[b]]
     /\ doomed' = doomed \cup lost

(* The transaction fails to serialize, and its cursor is rolled back.      *)
Conflict(a) ==
  /\ a \in doomed
  /\ doomed' = doomed \ {a}
  /\ UNCHANGED <<row, snap>>

(* A transaction that wrote nothing ends, doomed or not.                    *)
End(a) ==
  /\ InTx(a)
  /\ snap' = [snap EXCEPT ![a] = NoTx]
  /\ doomed' = doomed \ {a}
  /\ UNCHANGED row

(* The server goes down: PostgreSQL rolls back what was open.              *)
RollbackAll ==
  /\ snap' = [a \in Actors |-> NoTx]
  /\ doomed' = {}
  /\ UNCHANGED row
-----------------------------------------------------------------------------
(* A transaction that can still commit sees what is committed: this is what*)
(* protects a read-modify-write of a row from lost updates.                *)
SnapshotCurrent ==
  \A a \in Actors : \A k \in DOMAIN snap[a] : snap[a][k] = row[k]
===============================================================================
