----------------------------- MODULE Migrations -----------------------------
(***************************************************************************)
(* Opening a workspace database (storage.Open) and bringing its schema up  *)
(* to date (DB.migrate), by processes that share nothing but the files.    *)
(*                                                                         *)
(* A file is a number; path[w] is the file a workspace's directory holds,  *)
(* 0 when there is none.  A file that was removed keeps its contents for   *)
(* the processes that have it open.  db[f].done is the set of statements   *)
(* whose effect is committed, and db[f].lock the process that holds        *)
(* SQLite's write lock (0: nobody).                                        *)
(*                                                                         *)
(* A statement is a pair of its version and its place; place 0 is the row  *)
(* of schema_metadata that records the version.  The statements of one     *)
(* kind that stand next to each other are one: CREATE ... IF NOT EXISTS    *)
(* does nothing when the object exists, ALTER TABLE fails then.            *)
(*                                                                         *)
(* SQLite is modelled from how the code uses it: a transaction begins      *)
(* deferred, its first write takes the lock, a writer that finds it taken  *)
(* waits or gives up (busy_timeout), and one whose snapshot is out of date *)
(* fails.                                                                  *)
(***************************************************************************)
EXTENDS Naturals, Sequences, FiniteSets

CONSTANTS Proc,      \* processes, numbered from 1
          Workspace, \* workspace names
          MaxFile    \* bound on the files ever created

ASSUME MigrationAssumption ==
  Proc \subseteq Nat \ {0} /\ MaxFile \in Nat /\ "none" \notin Workspace

VARIABLES path, db, open

storage == <<path, db, open>>

File == 1..MaxFile

\* The migrations, by the kinds of their statements.
Version1 == <<"create">>
Version2 == <<"alter", "create">>
Version3 == <<"create">>
Migration == <<Version1, Version2, Version3>>
Latest == Len(Migration)
StatementsOf(v) == {<<v, i>> : i \in 0..Len(Migration[v])}

NoDb == [born |-> "none", meta |-> FALSE, done |-> {}, lock |-> 0]

\* An open that is not under way; file is what the last one opened, 0 if it failed.
Opened(f) == [pc |-> "idle", file |-> f, version |-> 0, next |-> 1,
              done |-> {}, snapshot |-> {}, reading |-> FALSE]
NotOpen == Opened(0)

Free(f, p) == db[f].lock \in {0, p}

Created == {f \in File : db[f].born # "none"}

OpenInit ==
  /\ path = [w \in Workspace |-> 0]
  /\ db = [f \in File |-> NoDb]
  /\ open = [p \in Proc |-> NotOpen]

\* sql.Open and Ping: the directory and the file are made if they are missing.
OpenFile(p, w) ==
  /\ open[p].pc = "idle"
  /\ \E f \in File :
       /\ IF path[w] # 0 THEN f = path[w] /\ UNCHANGED <<path, db>>
          ELSE /\ f = Cardinality(Created) + 1
               /\ path' = [path EXCEPT ![w] = f]
               /\ db' = [db EXCEPT ![f].born = w]
       /\ open' = [open EXCEPT ![p] = [Opened(f) EXCEPT !.pc = "bootstrap"]]

\* A failing statement: the transaction is rolled back and Open returns the error.
FailWith(p) ==
  /\ open' = [open EXCEPT ![p] = [NotOpen EXCEPT !.pc = "returned"]]
  /\ db' = [db EXCEPT ![open[p].file].lock = IF @ = p THEN 0 ELSE @]

GoOn(p, label) == open' = [open EXCEPT ![p].pc = label]

\* CREATE TABLE IF NOT EXISTS schema_metadata, on its own.
Bootstrap(p) ==
  LET f == open[p].file IN
  /\ open[p].pc = "bootstrap"
  /\ \/ db[f].meta /\ GoOn(p, "version") /\ UNCHANGED db
     \/ ~db[f].meta /\ Free(f, p) /\ GoOn(p, "version") /\ db' = [db EXCEPT ![f].meta = TRUE]
     \/ ~db[f].meta /\ ~Free(f, p) /\ FailWith(p)
  /\ UNCHANGED path

Recorded(f) == {v \in 1..Latest : <<v, 0>> \in db[f].done}
VersionOf(f) == CHOOSE v \in Recorded(f) \cup {0} : \A u \in Recorded(f) : u <= v

\* The transaction of version v begins; after the last migration Open returns.
BeginMigration(p, v) ==
  IF v > Latest THEN [open[p] EXCEPT !.pc = "returned", !.version = v]
  ELSE [open[p] EXCEPT !.pc = "statement", !.version = v, !.next = 1,
                       !.done = {}, !.snapshot = {}, !.reading = FALSE]

\* SchemaVersion is read outside the transactions that follow.
ReadVersion(p) ==
  /\ open[p].pc = "version"
  /\ open' = [open EXCEPT ![p] = BeginMigration(p, VersionOf(open[p].file) + 1)]
  /\ UNCHANGED <<path, db>>

\* What p's transaction reads: its snapshot and its own writes, once it has read.
View(p) == IF open[p].reading THEN open[p].snapshot \cup open[p].done
                              ELSE db[open[p].file].done
Stale(p) == open[p].reading /\ open[p].snapshot # db[open[p].file].done

\* A statement of p's transaction was executed; the first one takes the snapshot.
Executed(p, effect, label) ==
  LET o == open[p] IN
  open' = [open EXCEPT ![p] =
             [pc |-> label, file |-> o.file, version |-> o.version, next |-> o.next + 1,
              done |-> o.done \cup effect,
              snapshot |-> IF o.reading THEN o.snapshot ELSE db[o.file].done,
              reading |-> TRUE]]

\* A write takes the lock; it fails when another process holds the lock for too
\* long, or has committed since the snapshot.
Write(p, statement, label) ==
  LET f == open[p].file IN
  IF Free(f, p) /\ ~Stale(p)
  THEN Executed(p, {statement}, label) /\ db' = [db EXCEPT ![f].lock = p]
  ELSE FailWith(p)

LabelAfter(p) == IF open[p].next = Len(Migration[open[p].version]) THEN "record" ELSE "statement"

\* A slip: every statement is executed outside the transaction.
StatementAutocommit(p) ==
  LET f == open[p].file  s == <<open[p].version, open[p].next>>  IN
  /\ open[p].pc = "statement"
  /\ IF s \in db[f].done /\ Migration[s[1]][s[2]] = "alter" THEN FailWith(p)
     ELSE /\ db' = [db EXCEPT ![f].done = @ \cup {s}]
          /\ open' = [open EXCEPT ![p].pc = LabelAfter(p), ![p].next = @ + 1]
  /\ UNCHANGED path

\* tx.Exec of the next statement of the migration.
Statement(p) ==
  LET s == <<open[p].version, open[p].next>>  kind == Migration[s[1]][s[2]] IN
  /\ open[p].pc = "statement"
  /\ \/ s \notin View(p) /\ Write(p, s, LabelAfter(p))
     \/ s \in View(p) /\ kind = "create" /\ Executed(p, {}, LabelAfter(p)) /\ UNCHANGED db
     \/ s \in View(p) /\ kind = "alter" /\ FailWith(p)
  /\ UNCHANGED path

\* INSERT INTO schema_metadata: the version is its primary key.
RecordVersion(p) ==
  LET s == <<open[p].version, 0>> IN
  /\ open[p].pc = "record"
  /\ IF s \in View(p) THEN FailWith(p) ELSE Write(p, s, "commit")
  /\ UNCHANGED path

\* The commit publishes the statements and the version together.
Commit(p) ==
  LET f == open[p].file IN
  /\ open[p].pc = "commit"
  /\ db' = [db EXCEPT ![f].done = @ \cup open[p].done, ![f].lock = 0]
  /\ open' = [open EXCEPT ![p] = BeginMigration(p, open[p].version + 1)]
  /\ UNCHANGED path

OpenStep(p) ==
  \/ Bootstrap(p) \/ ReadVersion(p) \/ Statement(p) \/ RecordVersion(p) \/ Commit(p)

\* The process dies: SQLite rolls its transaction back and drops its lock.
Abandon(p) ==
  /\ open' = [open EXCEPT ![p] = NotOpen]
  /\ db' = [f \in File |-> IF db[f].lock = p THEN [db[f] EXCEPT !.lock = 0] ELSE db[f]]
  /\ UNCHANGED path

----------------------------------------------------------------------------
\* migrations.go says a failure leaves no partial schema state.  The versions
\* recorded in a file are the first ones, and the statements in effect are
\* exactly theirs, whoever migrated, failed or died meanwhile.
SchemaWhole ==
  \A f \in File : \E k \in 0..Latest : db[f].done = UNION {StatementsOf(v) : v \in 1..k}
=============================================================================
