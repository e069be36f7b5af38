--------------------------- MODULE SequenceStore ---------------------------
(***************************************************************************)
(* DB.NextSequence (internal/storage/repository.go), the only source of    *)
(* identifiers for rows of the workspace database.  It is three SQL        *)
(* statements.  Repository.NextSequence, which every caller goes through,  *)
(* passes tx = nil, so each statement is a transaction of its own; called  *)
(* with a transaction, the first statement takes SQLite's write lock and   *)
(* the commit gives it back.  Transactional chooses between the two.       *)
(*                                                                         *)
(* Several processes (the falcon and falcon-ctl binaries) may have one     *)
(* workspace file open; within a process calls follow one another.         *)
(***************************************************************************)
EXTENDS Integers

CONSTANTS Proc,          \* processes with the workspace file open
          Name,          \* sequence names
          Transactional, \* TRUE iff callers pass a transaction
          MaxValue,      \* bound on a sequence's value
          None           \* no process

ASSUME SequenceAssumption ==
  /\ Transactional \in BOOLEAN
  /\ MaxValue \in Nat
  /\ None \notin Proc

VARIABLES
  value,  \* value[n]: the committed or pending value column, Absent if no row
  pc,     \* pc[p]: the statement process p executes next
  arg,    \* arg[p]: the sequence of p's call
  base,   \* base[p]: value[arg[p]] when p's transaction began
  lock,   \* the process that holds the database's write lock
  times   \* times[n][v]: how many calls returned v for n

vars == <<value, pc, arg, base, lock, times>>

Absent == -1
Value  == 1 .. MaxValue

TypeOK ==
  /\ value \in [Name -> Absent .. MaxValue]
  /\ pc \in [Proc -> {"idle", "insert", "update", "select"}]
  /\ arg \in [Proc -> Name]
  /\ base \in [Proc -> Absent .. MaxValue]
  /\ lock \in Proc \cup {None}
  /\ times \in [Name -> [Value -> Nat]]

Init ==
  /\ value = [n \in Name |-> Absent]
  /\ pc = [p \in Proc |-> "idle"]
  /\ arg \in [Proc -> Name]
  /\ base = [p \in Proc |-> Absent]
  /\ lock = None
  /\ times = [n \in Name |-> [v \in Value |-> 0]]

Goto(p, from, to) == pc[p] = from /\ pc' = [pc EXCEPT ![p] = to]

\* A slip: the write lock is not waited for.
WriteLockIgnored(p) == lock' = IF Transactional THEN p ELSE lock

\* A writing statement needs the write lock; inside a transaction it keeps it.
WriteLock(p) ==
  /\ lock \in {None, p}
  /\ lock' = IF Transactional THEN p ELSE lock

Call(p) ==
  /\ Goto(p, "idle", "insert")
  /\ \E n \in Name : arg' = [arg EXCEPT ![p] = n]
  /\ UNCHANGED <<value, base, lock, times>>

\* A slip: INSERT OR REPLACE, which starts the sequence again.
InsertRowReplacing(p) ==
  /\ Goto(p, "insert", "update")
  /\ WriteLock(p)
  /\ base' = [base EXCEPT ![p] = value[arg[p]]]
  /\ value' = [value EXCEPT ![arg[p]] = 0]
  /\ UNCHANGED <<arg, times>>

\* INSERT OR IGNORE INTO sequences (name, value) VALUES (?, 0)
InsertRow(p) ==
  /\ Goto(p, "insert", "update")
  /\ WriteLock(p)
  /\ base' = [base EXCEPT ![p] = value[arg[p]]]
  /\ value' = [value EXCEPT ![arg[p]] = IF @ = Absent THEN 0 ELSE @]
  /\ UNCHANGED <<arg, times>>

\* UPDATE sequences SET value = value + 1 WHERE name = ?
Increment(p) ==
  /\ Goto(p, "update", "select")
  /\ value[arg[p]] < MaxValue
  /\ WriteLock(p)
  /\ value' = [value EXCEPT ![arg[p]] = @ + 1]
  /\ UNCHANGED <<arg, base, times>>

\* SELECT value FROM sequences WHERE name = ?, and the commit that ends the call
Return(p) ==
  /\ Goto(p, "select", "idle")
  /\ times' = [times EXCEPT ![arg[p]][value[arg[p]]] = @ + 1]
  /\ lock' = IF Transactional THEN None ELSE lock
  /\ UNCHANGED <<value, arg, base>>

\* A statement fails (SQLITE_BUSY, a full disk) or the process dies: the call
\* returns no number; a transaction that had begun is rolled back.
Abort(p) ==
  /\ pc[p] # "idle"
  /\ pc' = [pc EXCEPT ![p] = "idle"]
  /\ IF Transactional /\ pc[p] # "insert"
       THEN /\ value' = [value EXCEPT ![arg[p]] = base[p]]
            /\ lock' = None
       ELSE UNCHANGED <<value, lock>>
  /\ UNCHANGED <<arg, base, times>>

Next == \E p \in Proc : Call(p) \/ InsertRow(p) \/ Increment(p) \/ Return(p) \/ Abort(p)

Spec == Init /\ [][Next]_vars

----------------------------------------------------------------------------
\* The calls cannot interleave: one process, or callers that pass a transaction.
Exclusive == Transactional \/ \A p, q \in Proc : p = q

\* No number is returned twice for a sequence, whatever calls fail or die on
\* the way: what NextSequence's doc comment calls "atomically increments and
\* returns the next value".
UniqueIssue == \A n \in Name, v \in Value : times[n][v] <= 1

\* A number that was handed out stays at or below the stored value, even after
\* the rollback of a later call: it can never be handed out again by increment.
IssuedBelowValue == \A n \in Name, v \in Value : times[n][v] > 0 => v <= value[n]

\* Calls that cannot interleave implement the abstract issuer of fresh numbers.
Issuer == INSTANCE UniqueIds WITH times <- times
IssuerSpec == Issuer!Spec
============================================================================
