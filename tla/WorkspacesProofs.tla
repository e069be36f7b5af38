-------------------------- MODULE WorkspacesProofs --------------------------
(* Proofs about Workspaces, for every set of processes and workspace names and  *)
(* every number of files, calls and kills: a database has the schema of the     *)
(* versions it records, a file holds the rows of its own workspace only, and a  *)
(* connection is to the file of the active workspace.                           *)
EXTENDS Workspaces, FiniteSetTheorems, TLAPS

----------------------------------------------------------------------------
(* The invariant *)

IsDb(d) == d = [born |-> d.born, meta |-> d.meta, done |-> d.done, lock |-> d.lock]

IsOpen(o) ==
  o = [pc |-> o.pc, file |-> o.file, version |-> o.version, next |-> o.next,
       done |-> o.done, snapshot |-> o.snapshot, reading |-> o.reading]

IsCall(c) == c = [op |-> c.op, name |-> c.name, left |-> c.left]

Upto(k) == UNION {StatementsOf(v) : v \in 1..k}

InTransaction == {"statement", "record", "commit"}

\* A transaction of process p, of the version after those that are recorded.
\* What is done or was there before are the statements it is past.
TransactionOK(p, o) ==
  LET v == o.version IN
  /\ v \in 1..Latest /\ Upto(v - 1) \subseteq db[o.file].done
  /\ o.reading \in BOOLEAN
  /\ o.reading => o.snapshot \subseteq db[o.file].done
  /\ ~o.reading => o.done = {} /\ o.next = 1
  /\ o.done \subseteq StatementsOf(v)
  /\ o.next \in 1..Len(Migration[v]) + 2
  /\ o.pc = "statement" => o.next <= Len(Migration[v])
  /\ o.pc = "record" => o.next = Len(Migration[v]) + 1
  /\ o.pc # "commit" => \A i \in 1..(o.next - 1) : <<v, i>> \in o.done \cup o.snapshot
  /\ o.pc = "commit" => /\ StatementsOf(v) \subseteq o.done \cup o.snapshot
                        /\ <<v, 0>> \notin o.snapshot
                        /\ db[o.file].lock = p

\* An open of process p; who holds the lock of a file read its latest state.
OpenOK(p, o) ==
  /\ IsOpen(o) /\ o.file \in File \cup {0}
  /\ o.pc \in {"idle", "bootstrap", "version", "returned"} \cup InTransaction
  /\ o.pc \in {"bootstrap", "version"} \cup InTransaction => o.file # 0
  /\ o.pc = "idle" => o.file = 0
  /\ o.pc = "returned" /\ o.file # 0 => Upto(Latest) \subseteq db[o.file].done
  /\ o.pc \in InTransaction => TransactionOK(p, o)
  /\ \A f \in File : db[f].lock = p =>
       o.file = f /\ o.pc \in InTransaction /\ o.reading /\ o.snapshot = db[f].done

\* File f was made for name a, and p did not remove it from its directory.
Current(p, f, a) ==
  f \in File /\ db[f].born = a /\ (path[a] = f \/ deleter[f] \notin {0, p})

CallOK(p, a, h, c, o) ==
  /\ IsCall(c) /\ a \in Workspace /\ c.name \in Workspace
  /\ c.op = "none" => o.pc = "idle"
  /\ c.op = "create" /\ c.left # {} => o.pc = "idle"
  /\ c.op = "create" /\ o.file # 0 => db[o.file].born = c.name
  /\ c.op = "import" => c.name = a
  /\ c.op = "info" => c.left \subseteq Workspace
  /\ c.op \in OnActive /\ h # 0 => o.pc = "idle"
  /\ c.op \in OnActive /\ o.file # 0 => Current(p, o.file, a)
  /\ h # 0 => Current(p, h, a) /\ Upto(Latest) \subseteq db[h].done

ProcOK(p, a, h, c, o) == OpenOK(p, o) /\ CallOK(p, a, h, c, o)

FilesOK ==
  /\ DOMAIN db = File /\ DOMAIN path = Workspace
  /\ \A f \in File : IsDb(db[f])
  /\ \A w \in Workspace : path[w] # 0 => path[w] \in File /\ db[path[w]].born = w
  /\ \E n \in 0..MaxFile : Created = 1..n
  /\ SchemaWhole

RowsOK ==
  /\ DOMAIN rows = File /\ DOMAIN events = File /\ DOMAIN deleter = File
  /\ \A f \in File : rows[f] \subseteq {db[f].born} /\ rows[f] \subseteq Workspace
  /\ \A f \in File : /\ events[f] \subseteq {WorkspaceID(db[f].born)}
                     /\ db[f].born \notin Workspace => events[f] = {}

LocalsOK ==
  /\ active = [p \in Proc |-> active[p]] /\ handle = [p \in Proc |-> handle[p]]
  /\ call = [p \in Proc |-> call[p]] /\ open = [p \in Proc |-> open[p]]

Inv ==
  /\ FilesOK /\ RowsOK /\ LocalsOK
  /\ \A p \in Proc : ProcOK(p, active[p], handle[p], call[p], open[p])

----------------------------------------------------------------------------
(* Statements *)

LEMMA MigrationIs ==
  /\ Latest = 3
  /\ Len(Migration[1]) = 1 /\ Len(Migration[2]) = 2 /\ Len(Migration[3]) = 1
  BY DEF Latest, Migration, Version1, Version2, Version3

LEMMA Lengths == ASSUME NEW v \in 1..Latest PROVE Len(Migration[v]) \in Nat \ {0}
<1>1. v = 1 \/ v = 2 \/ v = 3
  BY MigrationIs
<1>2. 1 \in Nat \ {0} /\ 2 \in Nat \ {0}
  OBVIOUS
<1> QED BY <1>1, <1>2, MigrationIs, Zenon

LEMMA InStatements ==
  ASSUME NEW v \in Nat, NEW u, NEW i
  PROVE  <<u, i>> \in StatementsOf(v) <=> u = v /\ i \in 0..Len(Migration[v])
  BY DEF StatementsOf

LEMMA UptoNext ==
  ASSUME NEW k \in Nat PROVE Upto(k + 1) = Upto(k) \cup StatementsOf(k + 1)
<1>1. 1..(k + 1) = 1..k \cup {k + 1}
  OBVIOUS
<1> QED BY <1>1 DEF Upto

LEMMA UptoGrows ==
  ASSUME NEW j \in Nat, NEW k \in Nat, j <= k PROVE Upto(j) \subseteq Upto(k)
<1>1. 1..j \subseteq 1..k
  OBVIOUS
<1> QED BY <1>1 DEF Upto

\* Which versions a database records.
LEMMA Marks ==
  ASSUME NEW k \in 0..Latest, NEW v \in 1..Latest PROVE <<v, 0>> \in Upto(k) <=> v <= k
<1>1. k \in Nat /\ v \in Nat
  BY MigrationIs
<1>2. ASSUME NEW u \in 1..k PROVE <<v, 0>> \in StatementsOf(u) <=> u = v
  <2>1. u \in 1..Latest /\ u \in Nat
    BY <1>1, MigrationIs
  <2> QED BY <2>1, InStatements, Lengths
<1> QED BY <1>1, <1>2 DEF Upto

----------------------------------------------------------------------------
(* Opening a file: what a step of one process leaves to the others *)

SameBirths == \A f \in File : db'[f].born = db[f].born

Grows(p) ==
  /\ DOMAIN db' = File
  /\ \A f \in File : /\ IsDb(db'[f]) /\ db[f].done \subseteq db'[f].done
                     /\ db[f].born \in Workspace => db'[f].born = db[f].born
  /\ \A q \in Proc \ {p} : \A f \in File :
       /\ db'[f].lock = q <=> db[f].lock = q
       /\ db[f].lock = q => db'[f].done = db[f].done

LEMMA OpenStable ==
  ASSUME NEW p \in Proc, NEW q \in Proc \ {p}, NEW o, OpenOK(q, o), Grows(p)
  PROVE  OpenOK(q, o)'
<1>1. /\ IsOpen(o) /\ o.file \in File \cup {0}
      /\ o.pc \in {"idle", "bootstrap", "version", "returned"} \cup InTransaction
      /\ o.pc \in {"bootstrap", "version"} \cup InTransaction => o.file # 0
      /\ o.pc = "idle" => o.file = 0
  BY DEF OpenOK
<1>2. o.pc = "returned" /\ o.file # 0 => Upto(Latest) \subseteq db'[o.file].done
  BY <1>1 DEF OpenOK, Grows
<1>3. o.pc \in InTransaction => TransactionOK(q, o)'
  BY <1>1 DEF OpenOK, TransactionOK, Grows
<1>4. \A f \in File : db'[f].lock = q =>
        o.file = f /\ o.pc \in InTransaction /\ o.reading /\ o.snapshot = db'[f].done
  BY DEF OpenOK, Grows
<1> QED BY <1>1, <1>2, <1>3, <1>4 DEF OpenOK

\* A step of p that goes on with its open as o.
Advance(p, o) ==
  /\ open' = [open EXCEPT ![p] = o]
  /\ o.pc # "idle" /\ o.file \in {open[p].file, 0}
  /\ path' = path /\ SameBirths /\ Grows(p) /\ SchemaWhole'
  /\ OpenOK(p, o)'

LEMMA OpenHere ==
  ASSUME Inv, NEW p \in Proc
  PROVE  /\ OpenOK(p, open[p]) /\ FilesOK /\ p # 0 /\ DOMAIN open = Proc
         /\ open[p].file \in File \cup {0} /\ IsOpen(open[p])
  BY MigrationAssumption DEF Inv, ProcOK, OpenOK, LocalsOK

\* The lock of a file that p is not working on is not p's.
LEMMA OwnLock ==
  ASSUME Inv, NEW p \in Proc, NEW f \in File, f # open[p].file PROVE db[f].lock # p
  BY OpenHere DEF OpenOK

LEMMA SetPc ==
  ASSUME NEW o, IsOpen(o), NEW label
  PROVE  [o EXCEPT !.pc = label] =
           [pc |-> label, file |-> o.file, version |-> o.version, next |-> o.next,
            done |-> o.done, snapshot |-> o.snapshot, reading |-> o.reading]
  BY DEF IsOpen

LEMMA NotOpenIs ==
  /\ IsOpen(NotOpen) /\ NotOpen.pc = "idle" /\ NotOpen.file = 0
  /\ NotOpen.done = {} /\ NotOpen.next = 1 /\ NotOpen.reading = FALSE
<1>1. NotOpen = [pc |-> "idle", file |-> 0, version |-> 0, next |-> 1,
                done |-> {}, snapshot |-> {}, reading |-> FALSE]
  BY Zenon DEF NotOpen, Opened
<1> HIDE DEF NotOpen
<1> QED BY <1>1 DEF IsOpen

LEMMA FailAdvances ==
  ASSUME Inv, NEW p \in Proc, open[p].file # 0, FailWith(p), path' = path
  PROVE  Advance(p, [NotOpen EXCEPT !.pc = "returned"])
<1> DEFINE o == [NotOpen EXCEPT !.pc = "returned"]
           g == open[p].file
<1>1. IsOpen(o) /\ o.pc = "returned" /\ o.file = 0
  <2>1. PICK n : n = NotOpen
    OBVIOUS
  <2>2. IsOpen(n) /\ n.file = 0
    BY <2>1, NotOpenIs
  <2>3. o = [n EXCEPT !.pc = "returned"]
    BY <2>1
  <2> HIDE DEF o
  <2> QED BY <2>2, <2>3, SetPc DEF IsOpen
<1>2. g \in File /\ FilesOK /\ p # 0
  BY OpenHere
<1>3. DOMAIN db' = File
  BY <1>2 DEF FailWith, FilesOK
<1>4. ASSUME NEW f \in File
      PROVE  /\ IsDb(db'[f]) /\ db'[f].born = db[f].born /\ db'[f].done = db[f].done
             /\ db'[f].lock = IF f = g /\ db[f].lock = p THEN 0 ELSE db[f].lock
  <2>1. CASE f = g
    BY <1>2, <2>1 DEF FailWith, FilesOK, IsDb
  <2>2. CASE f # g
    BY <1>2, <2>2 DEF FailWith, FilesOK, IsDb
  <2> QED BY <2>1, <2>2
<1>5. \A q \in Proc : q # 0
  BY MigrationAssumption
<1>6. Grows(p) /\ SameBirths
  BY <1>3, <1>4, <1>5 DEF Grows, SameBirths
<1>7. SchemaWhole'
  BY <1>2, <1>4 DEF SchemaWhole, FilesOK
<1>8. \A f \in File : db'[f].lock # p
  BY <1>2, <1>4, OwnLock
<1> HIDE DEF o
<1>9. OpenOK(p, o)'
  BY <1>1, <1>8 DEF OpenOK, InTransaction
<1> QED BY <1>1, <1>6, <1>7, <1>9 DEF Advance, FailWith, o

LEMMA QuietAdvances ==
  ASSUME Inv, NEW p \in Proc, NEW o,
         open' = [open EXCEPT ![p] = o], o.pc # "idle", o.file \in {open[p].file, 0},
         path' = path, DOMAIN db' = File,
         \A f \in File : /\ IsDb(db'[f]) /\ db'[f].born = db[f].born
                         /\ db'[f].done = db[f].done /\ db'[f].lock = db[f].lock,
         OpenOK(p, o)'
  PROVE  Advance(p, o)
<1>1. SameBirths /\ Grows(p)
  BY DEF SameBirths, Grows
<1>2. SchemaWhole'
  BY OpenHere DEF FilesOK, SchemaWhole
<1> QED BY <1>1, <1>2 DEF Advance

LEMMA BootstrapAdvances == ASSUME Inv, NEW p \in Proc, Bootstrap(p) PROVE \E o : Advance(p, o)
<1>1. PICK n : n = open[p]
  OBVIOUS
<1>2. /\ n.pc = "bootstrap" /\ n.file \in File /\ FilesOK /\ IsOpen(n) /\ OpenOK(p, n)
      /\ p # 0 /\ DOMAIN open = Proc /\ path' = path
  BY <1>1, OpenHere DEF Bootstrap, OpenOK
<1>3. CASE FailWith(p)
  BY <1>1, <1>2, <1>3, FailAdvances, MigrationAssumption DEF File
<1>4. CASE GoOn(p, "version") /\ (db' = db \/ db' = [db EXCEPT ![n.file].meta = TRUE])
  <2>1. PICK o : o = [n EXCEPT !.pc = "version"]
    OBVIOUS
  <2>2. IsOpen(o) /\ o.pc = "version" /\ o.file = n.file
    BY <1>2, <2>1, SetPc DEF IsOpen
  <2>3. open' = [open EXCEPT ![p] = o]
    BY <1>1, <1>2, <1>4, <2>1 DEF GoOn
  <2>4. DOMAIN db' = File
    BY <1>2, <1>4 DEF FilesOK
  <2>5. \A f \in File : /\ IsDb(db'[f]) /\ db'[f].born = db[f].born
                        /\ db'[f].done = db[f].done /\ db'[f].lock = db[f].lock
    BY <1>2, <1>4 DEF FilesOK, IsDb
  <2>6. \A f \in File : db[f].lock # p
    BY <1>2 DEF OpenOK, InTransaction
  <2>7. n.file # 0
    BY <1>2, MigrationAssumption DEF File
  <2>8. OpenOK(p, o)'
    BY <1>2, <2>2, <2>5, <2>6, <2>7 DEF OpenOK, InTransaction
  <2> QED BY <1>1, <1>2, <2>2, <2>3, <2>4, <2>5, <2>8, QuietAdvances
<1> QED BY <1>1, <1>3, <1>4 DEF Bootstrap

LEMMA BeginIs ==
  ASSUME NEW p \in Proc, NEW v \in 1..Latest + 1, IsOpen(open[p])
  PROVE  /\ IsOpen(BeginMigration(p, v)) /\ BeginMigration(p, v).file = open[p].file
         /\ BeginMigration(p, v).version = v
         /\ IF v > Latest THEN BeginMigration(p, v).pc = "returned"
            ELSE /\ BeginMigration(p, v).pc = "statement" /\ BeginMigration(p, v).next = 1
                 /\ BeginMigration(p, v).done = {} /\ BeginMigration(p, v).reading = FALSE
<1>1. PICK n : n = open[p]
  OBVIOUS
<1>2. CASE v > Latest
  <2>1. BeginMigration(p, v) =
          [pc |-> "returned", file |-> n.file, version |-> v, next |-> n.next,
           done |-> n.done, snapshot |-> n.snapshot, reading |-> n.reading]
    BY <1>1, <1>2 DEF BeginMigration, IsOpen
  <2> QED BY <1>1, <1>2, <2>1 DEF IsOpen
<1>3. CASE ~(v > Latest)
  <2>1. BeginMigration(p, v) =
          [pc |-> "statement", file |-> n.file, version |-> v, next |-> 1,
           done |-> {}, snapshot |-> {}, reading |-> FALSE]
    BY <1>1, <1>3 DEF BeginMigration, IsOpen
  <2> QED BY <1>1, <1>3, <2>1 DEF IsOpen
<1> QED BY <1>2, <1>3

\* The next migration begins when the earlier ones are recorded.
LEMMA BeginOK ==
  ASSUME NEW p \in Proc, NEW v \in 1..Latest + 1, IsOpen(open[p]), open[p].file \in File,
         \A f \in File : db'[f].lock # p, Upto(v - 1) \subseteq db'[open[p].file].done
  PROVE  \E o : o = BeginMigration(p, v) /\ o.file = open[p].file /\ o.pc # "idle" /\ OpenOK(p, o)'
<1>1. PICK o : o = BeginMigration(p, v)
  OBVIOUS
<1>2. open[p].file # 0 /\ v \in Nat
  BY MigrationAssumption, MigrationIs DEF File
<1>5. /\ IsOpen(o) /\ o.file = open[p].file /\ o.version = v
      /\ IF v > Latest THEN o.pc = "returned"
         ELSE o.pc = "statement" /\ o.next = 1 /\ o.done = {} /\ o.reading = FALSE
  BY <1>1, BeginIs, Zenon
<1>3. CASE v > Latest
  <2>1. v - 1 = Latest
    BY <1>3, MigrationIs
  <2> QED BY <1>1, <1>2, <1>3, <1>5, <2>1 DEF OpenOK, InTransaction
<1>4. CASE ~(v > Latest)
  <2>1. /\ IsOpen(o) /\ o.file = open[p].file /\ o.version = v /\ o.pc = "statement"
        /\ o.next = 1 /\ o.done = {} /\ o.reading = FALSE
    BY <1>4, <1>5
  <2>2. v \in 1..Latest /\ Len(Migration[v]) \in Nat \ {0}
    BY <1>4, MigrationIs, Lengths
  <2>3. Upto(o.version - 1) \subseteq db'[o.file].done /\ o.done \subseteq StatementsOf(v)
    BY <2>1
  <2>4. o.next \in 1..Len(Migration[v]) + 2 /\ o.next <= Len(Migration[v])
        /\ \A i \in 1..(o.next - 1) : <<v, i>> \in o.done \cup o.snapshot
    BY <2>1, <2>2
  <2>5. TransactionOK(p, o)'
    BY <2>1, <2>2, <2>3, <2>4 DEF TransactionOK
  <2> QED BY <1>1, <1>2, <2>1, <2>5 DEF OpenOK, InTransaction
<1> QED BY <1>3, <1>4

LEMMA VersionIs ==
  ASSUME FilesOK, NEW f \in File
  PROVE  \E k \in 0..Latest : db[f].done = Upto(k) /\ VersionOf(f) = k
<1>1. PICK k \in 0..Latest : db[f].done = Upto(k)
  BY DEF FilesOK, SchemaWhole, Upto
<1>2. Recorded(f) \cup {0} = 0..k
  <2>1. Recorded(f) = {v \in 1..Latest : v <= k}
    BY <1>1, Marks DEF Recorded
  <2> QED BY <2>1, MigrationIs
<1>3. VersionOf(f) = k
  BY <1>2, MigrationIs DEF VersionOf
<1> QED BY <1>1, <1>3

LEMMA ReadVersionAdvances ==
  ASSUME Inv, NEW p \in Proc, ReadVersion(p) PROVE \E o : Advance(p, o)
<1>1. PICK n : n = open[p]
  OBVIOUS
<1>2. /\ n.pc = "version" /\ n.file \in File /\ FilesOK /\ IsOpen(n) /\ OpenOK(p, n)
      /\ p # 0 /\ UNCHANGED <<path, db>>
  BY <1>1, OpenHere DEF ReadVersion, OpenOK
<1>3. PICK k \in 0..Latest : db[n.file].done = Upto(k) /\ VersionOf(n.file) = k
  BY <1>2, VersionIs
<1>4. PICK v : v = k + 1
  OBVIOUS
<1>5. v \in 1..Latest + 1 /\ v - 1 = k
  BY <1>3, <1>4, MigrationIs
<1>6. \A f \in File : db'[f].lock # p
  BY <1>2 DEF OpenOK, InTransaction
<1>7. Upto(v - 1) \subseteq db'[open[p].file].done
  BY <1>1, <1>2, <1>3, <1>5
<1>8. PICK o : o = BeginMigration(p, v) /\ o.file = open[p].file /\ o.pc # "idle" /\ OpenOK(p, o)'
  BY <1>1, <1>2, <1>5, <1>6, <1>7, BeginOK
<1>9. open' = [open EXCEPT ![p] = o]
  BY <1>1, <1>3, <1>4, <1>8 DEF ReadVersion
<1>10. /\ DOMAIN db' = File
       /\ \A f \in File : /\ IsDb(db'[f]) /\ db'[f].born = db[f].born
                          /\ db'[f].done = db[f].done /\ db'[f].lock = db[f].lock
  BY <1>2 DEF FilesOK
<1> QED BY <1>2, <1>8, <1>9, <1>10, QuietAdvances

\* The open o follows n by a statement with an effect.
Follows(o, n, effect, label) ==
  /\ IsOpen(o) /\ o.pc = label /\ o.file = n.file /\ o.version = n.version
  /\ o.next = n.next + 1 /\ o.done = n.done \cup effect
  /\ o.snapshot = (IF n.reading THEN n.snapshot ELSE db[n.file].done)
  /\ o.reading = TRUE

\* What executing a statement makes of the open.
LEMMA ExecutedIs ==
  ASSUME NEW p \in Proc, DOMAIN open = Proc, IsOpen(open[p]), NEW effect, NEW label,
         Executed(p, effect, label)
  PROVE  \E o : open' = [open EXCEPT ![p] = o] /\ Follows(o, open[p], effect, label)
<1>1. PICK n : n = open[p]
  OBVIOUS
<1>2. PICK m, d, s : /\ m = n.next + 1 /\ d = n.done \cup effect
                     /\ s = IF n.reading THEN n.snapshot ELSE db[n.file].done
  OBVIOUS
<1>3. PICK o : o = [pc |-> label, file |-> n.file, version |-> n.version, next |-> m,
                    done |-> d, snapshot |-> s, reading |-> TRUE]
  OBVIOUS
<1>4. open' = [open EXCEPT ![p] = o]
  BY <1>1, <1>2, <1>3 DEF Executed
<1>5. /\ IsOpen(o) /\ o.pc = label /\ o.file = n.file /\ o.version = n.version
      /\ o.next = m /\ o.done = d /\ o.snapshot = s /\ o.reading = TRUE
  BY <1>3 DEF IsOpen
<1> QED BY <1>1, <1>2, <1>4, <1>5 DEF Follows

\* The lock of the file is taken and nothing else about it changes.
LEMMA LockGrows ==
  ASSUME Inv, NEW p \in Proc, NEW g \in File, Free(g, p), db' = [db EXCEPT ![g].lock = p]
  PROVE  /\ Grows(p) /\ SameBirths /\ SchemaWhole'
         /\ \A f \in File : db'[f].done = db[f].done
                            /\ db'[f].lock = IF f = g THEN p ELSE db[f].lock
<1>1. FilesOK /\ p # 0
  BY OpenHere
<1>2. DOMAIN db' = File
  BY <1>1 DEF FilesOK
<1>3. \A f \in File : /\ IsDb(db'[f]) /\ db'[f].born = db[f].born
                      /\ db'[f].done = db[f].done
                      /\ db'[f].lock = IF f = g THEN p ELSE db[f].lock
  BY <1>1 DEF FilesOK, IsDb
<1>4. \A q \in Proc : q # 0
  BY MigrationAssumption
<1>5. Grows(p)
  BY <1>2, <1>3, <1>4 DEF Grows, Free
<1>6. SchemaWhole'
  BY <1>1, <1>3 DEF SchemaWhole, FilesOK
<1> QED BY <1>3, <1>5, <1>6 DEF SameBirths

LEMMA TransactionHere ==
  ASSUME Inv, NEW p \in Proc, NEW n, n = open[p], n.pc \in InTransaction
  PROVE  /\ n.file \in File /\ TransactionOK(p, n) /\ IsOpen(n) /\ OpenOK(p, n)
         /\ n.version \in 1..Latest /\ Len(Migration[n.version]) \in Nat \ {0}
         /\ View(p) = IF n.reading THEN n.snapshot \cup n.done ELSE db[n.file].done
<1>1. OpenOK(p, n)
  BY OpenHere
<1>2. n.file \in File /\ TransactionOK(p, n) /\ IsOpen(n)
  BY <1>1 DEF OpenOK
<1>3. n.version \in 1..Latest
  BY <1>2 DEF TransactionOK
<1> QED BY <1>1, <1>2, <1>3, Lengths DEF View

LEMMA StatementOK ==
  ASSUME Inv, NEW p \in Proc, NEW n, n = open[p], n.pc = "statement",
         NEW effect, effect \subseteq {<<n.version, n.next>>},
         <<n.version, n.next>> \in effect \cup View(p),
         NEW o, Follows(o, n, effect, LabelAfter(p)), Grows(p)
  PROVE  TransactionOK(p, o)' /\ o.pc \in InTransaction
<1> DEFINE v == n.version
<1>1. /\ n.file \in File /\ TransactionOK(p, n) /\ v \in 1..Latest
      /\ Len(Migration[v]) \in Nat \ {0}
      /\ View(p) = IF n.reading THEN n.snapshot \cup n.done ELSE db[n.file].done
  BY TransactionHere DEF InTransaction
<1>2. n.next \in 1..Len(Migration[v]) /\ Upto(v - 1) \subseteq db[n.file].done
  BY <1>1 DEF TransactionOK
<1>3. /\ o.file = n.file /\ o.version = v /\ o.next = n.next + 1
      /\ o.done = n.done \cup effect /\ o.reading = TRUE
      /\ o.snapshot = (IF n.reading THEN n.snapshot ELSE db[n.file].done)
      /\ o.pc = IF n.next = Len(Migration[v]) THEN "record" ELSE "statement"
  BY DEF Follows, LabelAfter
<1>4. o.done \subseteq StatementsOf(v)
  <2>1. <<v, n.next>> \in StatementsOf(v)
    BY <1>1, <1>2, InStatements, MigrationIs
  <2>2. n.done \subseteq StatementsOf(v)
    BY <1>1 DEF TransactionOK
  <2> QED BY <1>3, <2>1, <2>2
<1>5. \A i \in 1..(o.next - 1) : <<v, i>> \in o.done \cup o.snapshot
  <2> SUFFICES ASSUME NEW i \in 1..(o.next - 1) PROVE <<v, i>> \in o.done \cup o.snapshot
    OBVIOUS
  <2>1. i \in 1..(n.next - 1) \/ i = n.next
    BY <1>2, <1>3
  <2>2. CASE i = n.next
    BY <1>1, <1>3, <2>2 DEF TransactionOK
  <2>3. CASE i \in 1..(n.next - 1)
    <3>1. <<v, i>> \in n.done \cup n.snapshot
      BY <1>1, <2>3 DEF TransactionOK
    <3>2. n.reading
      BY <1>1, <2>3 DEF TransactionOK
    <3> QED BY <1>3, <3>1, <3>2
  <2> QED BY <2>1, <2>2, <2>3
<1>6. o.snapshot \subseteq db'[o.file].done /\ Upto(v - 1) \subseteq db'[o.file].done
  <2>1. o.snapshot \subseteq db[n.file].done
    BY <1>1, <1>3 DEF TransactionOK
  <2> QED BY <1>1, <1>2, <1>3, <2>1 DEF Grows
<1>7. /\ o.next \in 1..Len(Migration[v]) + 2
      /\ o.pc = "statement" => o.next <= Len(Migration[v])
      /\ o.pc = "record" => o.next = Len(Migration[v]) + 1
  BY <1>1, <1>2, <1>3
<1>8. o.pc \in {"statement", "record"}
  BY <1>3
<1> HIDE DEF v
<1> QED BY <1>1, <1>3, <1>4, <1>5, <1>6, <1>7, <1>8 DEF TransactionOK, InTransaction

\* After the version is recorded, the transaction is ready to commit.
LEMMA RecordOK ==
  ASSUME Inv, NEW p \in Proc, NEW n, n = open[p], n.pc = "record",
         <<n.version, 0>> \notin View(p), ~Stale(p),
         NEW o, Follows(o, n, {<<n.version, 0>>}, "commit"), Grows(p),
         db'[n.file].lock = p
  PROVE  TransactionOK(p, o)'
<1> DEFINE v == n.version
<1>1. /\ n.file \in File /\ TransactionOK(p, n) /\ v \in 1..Latest
      /\ Len(Migration[v]) \in Nat \ {0}
      /\ View(p) = IF n.reading THEN n.snapshot \cup n.done ELSE db[n.file].done
  BY TransactionHere DEF InTransaction
<1>2. n.next = Len(Migration[v]) + 1 /\ Upto(v - 1) \subseteq db[n.file].done
  BY <1>1 DEF TransactionOK
<1>3. n.reading
  BY <1>1, <1>2 DEF TransactionOK
<1>4. /\ o.file = n.file /\ o.version = v /\ o.next = n.next + 1
      /\ o.done = n.done \cup {<<v, 0>>} /\ o.reading = TRUE
      /\ o.snapshot = n.snapshot /\ o.pc = "commit"
  BY <1>3 DEF Follows
<1>5. v \in Nat
  BY <1>1, MigrationIs
<1>6. o.done \subseteq StatementsOf(v)
  <2>1. <<v, 0>> \in StatementsOf(v)
    BY <1>1, <1>5, InStatements
  <2>2. n.done \subseteq StatementsOf(v)
    BY <1>1 DEF TransactionOK
  <2> QED BY <1>4, <2>1, <2>2
<1>7. StatementsOf(v) \subseteq o.done \cup o.snapshot
  <2> SUFFICES ASSUME NEW i \in 0..Len(Migration[v]) PROVE <<v, i>> \in o.done \cup o.snapshot
    BY DEF StatementsOf
  <2>1. CASE i = 0
    BY <1>4, <2>1
  <2>2. CASE i # 0
    <3>1. i \in 1..(n.next - 1)
      BY <1>1, <1>2, <2>2
    <3>2. <<v, i>> \in n.done \cup n.snapshot
      BY <1>1, <3>1 DEF TransactionOK
    <3> QED BY <1>4, <3>2
  <2> QED BY <2>1, <2>2
<1>8. <<v, 0>> \notin o.snapshot
  BY <1>1, <1>3, <1>4
<1>9. o.snapshot \subseteq db'[o.file].done /\ Upto(v - 1) \subseteq db'[o.file].done
  <2>1. n.snapshot \subseteq db[n.file].done
    BY <1>1, <1>3 DEF TransactionOK
  <2> QED BY <1>1, <1>2, <1>4, <2>1 DEF Grows
<1>10. o.next \in 1..Len(Migration[v]) + 2
  BY <1>1, <1>2, <1>4
<1> HIDE DEF v
<1> QED BY <1>1, <1>4, <1>6, <1>7, <1>8, <1>9, <1>10 DEF TransactionOK

\* A write that takes the lock, of a statement or of the version.
LEMMA WriteAdvances ==
  ASSUME Inv, NEW p \in Proc, NEW n, n = open[p], NEW s, NEW label, path' = path,
         Write(p, s, label),
         \/ n.pc = "statement" /\ s = <<n.version, n.next>> /\ label = LabelAfter(p)
         \/ /\ n.pc = "record" /\ s = <<n.version, 0>> /\ s \notin View(p)
            /\ label = "commit"
  PROVE  \E o : Advance(p, o)
<1>1. /\ n.file \in File /\ IsOpen(n) /\ OpenOK(p, n) /\ TransactionOK(p, n) /\ n.file # 0
      /\ DOMAIN open = Proc
  BY OpenHere, TransactionHere, MigrationAssumption DEF InTransaction, File
<1>2. CASE FailWith(p)
  BY <1>1, <1>2, FailAdvances
<1>3. CASE Free(n.file, p) /\ ~Stale(p) /\ Executed(p, {s}, label)
           /\ db' = [db EXCEPT ![n.file].lock = p]
  <2>1. PICK o : open' = [open EXCEPT ![p] = o] /\ Follows(o, n, {s}, label)
    BY <1>1, <1>3, ExecutedIs
  <2>2. /\ Grows(p) /\ SameBirths /\ SchemaWhole'
        /\ \A f \in File : db'[f].done = db[f].done
                           /\ db'[f].lock = IF f = n.file THEN p ELSE db[f].lock
    BY <1>1, <1>3, LockGrows
  <2>3. TransactionOK(p, o)' /\ o.pc \in InTransaction
    <3>1. CASE n.pc = "statement"
      BY <2>1, <2>2, <3>1, StatementOK
    <3>2. CASE n.pc = "record"
      BY <1>1, <1>3, <2>1, <2>2, <3>2, RecordOK DEF Follows, InTransaction
    <3> QED BY <3>1, <3>2
  <2>4. IsOpen(o) /\ o.file = n.file /\ o.reading = TRUE /\ o.snapshot = db'[n.file].done
    <3>1. n.reading => n.snapshot = db[n.file].done
      BY <1>3 DEF Stale
    <3> QED BY <1>1, <2>1, <2>2, <3>1 DEF Follows
  <2>5. \A f \in File : db'[f].lock = p => f = n.file
    BY <1>1, <2>2, OwnLock
  <2>6. OpenOK(p, o)'
    BY <1>1, <2>3, <2>4, <2>5 DEF OpenOK, InTransaction
  <2> QED BY <2>1, <2>2, <2>3, <2>4, <2>6 DEF Advance, InTransaction
<1> QED BY <1>2, <1>3 DEF Write

LEMMA StatementAdvances == ASSUME Inv, NEW p \in Proc, Statement(p) PROVE \E o : Advance(p, o)
<1>1. PICK n : n = open[p]
  OBVIOUS
<1>2. PICK s : s = <<n.version, n.next>>
  OBVIOUS
<1>3. /\ n.pc = "statement" /\ path' = path
      /\ \/ s \notin View(p) /\ Write(p, s, LabelAfter(p))
         \/ s \in View(p) /\ Executed(p, {}, LabelAfter(p)) /\ UNCHANGED db
         \/ s \in View(p) /\ FailWith(p)
  BY <1>1, <1>2 DEF Statement
<1>4. /\ n.file \in File /\ IsOpen(n) /\ OpenOK(p, n) /\ TransactionOK(p, n) /\ n.file # 0
      /\ DOMAIN open = Proc /\ FilesOK
  BY <1>1, <1>3, OpenHere, TransactionHere, MigrationAssumption DEF InTransaction, File
<1>5. CASE Write(p, s, LabelAfter(p))
  BY <1>1, <1>2, <1>3, <1>5, WriteAdvances
<1>6. CASE FailWith(p)
  BY <1>1, <1>3, <1>4, <1>6, FailAdvances
<1>7. CASE s \in View(p) /\ Executed(p, {}, LabelAfter(p)) /\ UNCHANGED db
  <2>1. PICK o : open' = [open EXCEPT ![p] = o] /\ Follows(o, n, {}, LabelAfter(p))
    BY <1>1, <1>4, <1>7, ExecutedIs
  <2>2. /\ DOMAIN db' = File
        /\ \A f \in File : /\ IsDb(db'[f]) /\ db'[f].born = db[f].born
                           /\ db'[f].done = db[f].done /\ db'[f].lock = db[f].lock
    BY <1>4, <1>7 DEF FilesOK
  <2>3. Grows(p)
    BY <2>2 DEF Grows
  <2>4. TransactionOK(p, o)' /\ o.pc \in InTransaction
    BY <1>1, <1>2, <1>3, <1>7, <2>1, <2>3, StatementOK
  <2>5. IsOpen(o) /\ o.file = n.file /\ o.reading = TRUE
        /\ (n.reading => o.snapshot = n.snapshot)
    BY <2>1 DEF Follows
  <2>6. OpenOK(p, o)'
    BY <1>4, <2>2, <2>4, <2>5 DEF OpenOK, InTransaction
  <2> QED BY <1>1, <1>3, <2>1, <2>2, <2>4, <2>5, <2>6, QuietAdvances DEF InTransaction
<1> QED BY <1>3, <1>5, <1>6, <1>7

LEMMA RecordVersionAdvances ==
  ASSUME Inv, NEW p \in Proc, RecordVersion(p) PROVE \E o : Advance(p, o)
<1>1. PICK n : n = open[p]
  OBVIOUS
<1>2. PICK s : s = <<n.version, 0>>
  OBVIOUS
<1>3. /\ n.pc = "record" /\ path' = path
      /\ IF s \in View(p) THEN FailWith(p) ELSE Write(p, s, "commit")
  BY <1>1, <1>2 DEF RecordVersion
<1>4. n.file # 0
  BY <1>1, <1>3, TransactionHere, MigrationAssumption DEF InTransaction, File
<1> QED BY <1>1, <1>2, <1>3, <1>4, WriteAdvances, FailAdvances

\* A commit adds the next version, with all of its statements.
LEMMA CommitAdvances == ASSUME Inv, NEW p \in Proc, Commit(p) PROVE \E o : Advance(p, o)
<1>1. PICK n : n = open[p]
  OBVIOUS
<1>2. PICK g, v : g = n.file /\ v = n.version
  OBVIOUS
<1>3. n.pc = "commit" /\ path' = path
      /\ db' = [db EXCEPT ![g].done = @ \cup n.done, ![g].lock = 0]
      /\ open' = [open EXCEPT ![p] = BeginMigration(p, v + 1)]
  BY <1>1, <1>2 DEF Commit
<1>4. /\ g \in File /\ IsOpen(n) /\ OpenOK(p, n) /\ TransactionOK(p, n) /\ v \in 1..Latest
      /\ FilesOK /\ p # 0
  BY <1>1, <1>2, <1>3, OpenHere, TransactionHere DEF InTransaction
<1>5. /\ n.done \subseteq StatementsOf(v) /\ StatementsOf(v) \subseteq n.done \cup n.snapshot
      /\ <<v, 0>> \notin n.snapshot /\ Upto(v - 1) \subseteq db[g].done /\ db[g].lock = p
  BY <1>2, <1>3, <1>4 DEF TransactionOK
<1>6. n.snapshot = db[g].done
  BY <1>4, <1>5 DEF OpenOK
<1>7. v \in Nat /\ v - 1 \in Nat /\ v + 1 \in 1..Latest + 1 /\ (v + 1) - 1 = v /\ (v - 1) + 1 = v
  BY <1>4, MigrationIs
<1>8. db[g].done = Upto(v - 1)
  <2>1. PICK k \in 0..Latest : db[g].done = Upto(k)
    BY <1>4, VersionIs
  <2>2. ~(v <= k)
    BY <1>4, <1>5, <1>6, <2>1, Marks
  <2>3. CASE v - 1 \in 1..Latest
    <3>1. <<v - 1, 0>> \in Upto(v - 1)
      BY <1>7, <2>3, Marks, MigrationIs
    <3>2. v - 1 <= k
      BY <1>5, <2>1, <2>3, <3>1, Marks
    <3> QED BY <1>7, <2>1, <2>2, <3>2, MigrationIs
  <2>4. CASE v - 1 \notin 1..Latest
    <3>1. k = 0 /\ v - 1 = 0
      BY <1>4, <2>2, <2>4, MigrationIs
    <3> QED BY <2>1, <3>1
  <2> QED BY <2>3, <2>4
<1>9. db[g].done \cup n.done = Upto(v)
  <2>1. Upto(v) = Upto(v - 1) \cup StatementsOf(v)
    BY <1>7, UptoNext
  <2> QED BY <1>5, <1>6, <1>8, <2>1
<1>10. DOMAIN db' = File
  BY <1>3, <1>4 DEF FilesOK
<1>11. \A f \in File : /\ IsDb(db'[f]) /\ db'[f].born = db[f].born
                       /\ db'[f].done = IF f = g THEN Upto(v) ELSE db[f].done
                       /\ db'[f].lock = IF f = g THEN 0 ELSE db[f].lock
  <2> SUFFICES ASSUME NEW f \in File
               PROVE  /\ IsDb(db'[f]) /\ db'[f].born = db[f].born
                      /\ db'[f].done = IF f = g THEN Upto(v) ELSE db[f].done
                      /\ db'[f].lock = IF f = g THEN 0 ELSE db[f].lock
    OBVIOUS
  <2>1. IsDb(db[f]) /\ f \in DOMAIN db
    BY <1>4 DEF FilesOK
  <2>2. CASE f # g
    BY <1>3, <1>4, <2>1, <2>2 DEF FilesOK
  <2>3. CASE f = g
    <3>1. PICK d : d = db[g].done \cup n.done
      OBVIOUS
    <3>2. db'[g] = [born |-> db[g].born, meta |-> db[g].meta, done |-> d, lock |-> 0]
      BY <1>3, <2>1, <2>3, <3>1 DEF IsDb
    <3> QED BY <1>9, <2>3, <3>1, <3>2 DEF IsDb
  <2> QED BY <2>2, <2>3
<1>12. \A q \in Proc : q # 0
  BY MigrationAssumption
<1>13. Grows(p) /\ SameBirths
  BY <1>5, <1>9, <1>10, <1>11, <1>12 DEF Grows, SameBirths
<1>14. SchemaWhole'
  <2>1. ASSUME NEW f \in File PROVE \E k \in 0..Latest : db'[f].done = Upto(k)
    <3>1. CASE f = g
      BY <1>4, <1>11, <3>1, MigrationIs
    <3>2. CASE f # g
      BY <1>4, <1>11, <3>2, VersionIs
    <3> QED BY <3>1, <3>2
  <2> QED BY <2>1 DEF SchemaWhole, Upto
<1>15. \A f \in File : db'[f].lock # p
  BY <1>1, <1>2, <1>4, <1>11, OwnLock
<1>16. PICK w : w = v + 1
  OBVIOUS
<1>17. PICK o : o = BeginMigration(p, w) /\ o.file = open[p].file /\ o.pc # "idle" /\ OpenOK(p, o)'
  BY <1>1, <1>2, <1>4, <1>7, <1>11, <1>15, <1>16, BeginOK
<1> QED BY <1>3, <1>13, <1>14, <1>16, <1>17 DEF Advance

LEMMA OpenStepAdvances == ASSUME Inv, NEW p \in Proc, OpenStep(p) PROVE \E o : Advance(p, o)
  BY BootstrapAdvances, ReadVersionAdvances, StatementAdvances, RecordVersionAdvances,
     CommitAdvances DEF OpenStep

----------------------------------------------------------------------------
(* Files: a file that is made is a new one *)

LEMMA Fresh ==
  ASSUME FilesOK, NEW f \in File, f = Cardinality(Created) + 1
  PROVE  /\ db[f].born = "none"
         /\ \E n \in 0..MaxFile : Created \cup {f} = 1..n
<1>1. PICK n \in 0..MaxFile : Created = 1..n
  BY DEF FilesOK
<1>2. n \in Nat /\ f \in Nat
  BY MigrationAssumption DEF File
<1>3. Cardinality(Created) = n
  BY <1>1, <1>2, FS_Interval
<1>4. f = n + 1
  BY <1>3
<1>5. f \notin Created
  BY <1>1, <1>2, <1>4
<1>6. Created \cup {f} = 1..f
  BY <1>1, <1>2, <1>4
<1>7. f \in 0..MaxFile
  BY MigrationAssumption DEF File
<1> QED BY <1>5, <1>6, <1>7 DEF Created

\* The open o of p that starts with the file of workspace w.
Opens(p, w, o) ==
  /\ open' = [open EXCEPT ![p] = o]
  /\ o.pc = "bootstrap" /\ o.file \in File /\ db'[o.file].born = w /\ path'[w] = o.file
  /\ Grows(p) /\ FilesOK'
  /\ OpenOK(p, o)'
  /\ \A f \in File : \/ db'[f].born = db[f].born
                     \/ db[f].born = "none"
  /\ \A v \in Workspace : path[v] # 0 => path'[v] = path[v]

LEMMA OpenFileOpens ==
  ASSUME Inv, NEW p \in Proc, NEW w \in Workspace, OpenFile(p, w)
  PROVE  \E o : Opens(p, w, o)
<1>1. /\ OpenOK(p, open[p]) /\ FilesOK /\ p # 0 /\ DOMAIN open = Proc /\ open[p].pc = "idle"
  BY OpenHere DEF OpenFile
<1>2. PICK f \in File :
        /\ \/ path[w] # 0 /\ f = path[w] /\ UNCHANGED <<path, db>>
           \/ /\ path[w] = 0 /\ f = Cardinality(Created) + 1
              /\ path' = [path EXCEPT ![w] = f]
              /\ db' = [db EXCEPT ![f].born = w]
        /\ open' = [open EXCEPT ![p] = [Opened(f) EXCEPT !.pc = "bootstrap"]]
  BY DEF OpenFile
<1>3. PICK o : o = [Opened(f) EXCEPT !.pc = "bootstrap"]
  OBVIOUS
<1>4. IsOpen(o) /\ o.pc = "bootstrap" /\ o.file = f
  <2>1. PICK n : n = Opened(f)
    OBVIOUS
  <2>2. n = [pc |-> "idle", file |-> f, version |-> 0, next |-> 1,
             done |-> {}, snapshot |-> {}, reading |-> FALSE]
    BY <2>1, Zenon DEF Opened
  <2>3. IsOpen(n) /\ n.file = f
    BY <2>2 DEF IsOpen
  <2> QED BY <1>3, <2>1, <2>3, SetPc DEF IsOpen
<1>5. /\ DOMAIN db' = File /\ DOMAIN path' = Workspace
      /\ \A g \in File : /\ IsDb(db'[g]) /\ db'[g].done = db[g].done /\ db'[g].lock = db[g].lock
                         /\ g # f => db'[g].born = db[g].born
  <2>1. ASSUME NEW g \in File
        PROVE  /\ IsDb(db'[g]) /\ db'[g].done = db[g].done /\ db'[g].lock = db[g].lock
               /\ g # f => db'[g].born = db[g].born
    BY <1>1, <1>2 DEF FilesOK, IsDb
  <2> QED BY <1>1, <1>2, <2>1 DEF FilesOK
<1>6. db'[f].born = w /\ path'[w] = f
  BY <1>1, <1>2 DEF FilesOK, IsDb
<1>8. /\ db[f].born = db'[f].born \/ db[f].born = "none"
      /\ \E n \in 0..MaxFile : Created' = 1..n
  <2>1. CASE path[w] # 0
    BY <1>1, <1>2, <1>6, <2>1 DEF FilesOK, Created
  <2>2. CASE path[w] = 0
    <3>1. f = Cardinality(Created) + 1
      BY <1>2, <2>2
    <3>2. Created' = Created \cup {f}
      BY <1>5, <1>6, MigrationAssumption DEF Created
    <3> QED BY <1>1, <3>1, <3>2, Fresh
  <2> QED BY <2>1, <2>2
<1>7. Grows(p)
  BY <1>5, <1>8, MigrationAssumption DEF Grows
<1>9. \A v \in Workspace : path[v] # 0 => path'[v] = path[v]
  BY <1>1, <1>2 DEF FilesOK
<1>10. \A v \in Workspace : path'[v] # 0 => path'[v] \in File /\ db'[path'[v]].born = v
  <2> SUFFICES ASSUME NEW v \in Workspace, path'[v] # 0
               PROVE  path'[v] \in File /\ db'[path'[v]].born = v
    OBVIOUS
  <2>1. CASE v = w
    BY <1>6, <2>1
  <2>2. CASE v # w
    <3>1. path'[v] = path[v] /\ path[v] \in File /\ db[path[v]].born = v /\ v # "none"
      BY <1>1, <1>2, <2>2, MigrationAssumption DEF FilesOK
    <3> QED BY <1>5, <1>6, <1>8, <2>2, <3>1
  <2> QED BY <2>1, <2>2
<1>11. SchemaWhole'
  BY <1>1, <1>5 DEF FilesOK, SchemaWhole
<1>12. FilesOK'
  BY <1>5, <1>8, <1>10, <1>11 DEF FilesOK
<1>13. OpenOK(p, o)'
  <2>1. \A g \in File : db[g].lock # p
    BY <1>1 DEF OpenOK, InTransaction
  <2>2. f # 0
    BY MigrationAssumption DEF File
  <2> QED BY <1>4, <1>5, <2>1, <2>2 DEF OpenOK, InTransaction
<1> QED BY <1>2, <1>3, <1>4, <1>5, <1>6, <1>7, <1>8, <1>9, <1>12, <1>13 DEF Opens

----------------------------------------------------------------------------
(* Calls *)

\* What was current for q stays so.
StaysCurrent(q) ==
  \A f \in File : \A b \in Workspace : Current(q, f, b) => Current(q, f, b)'

LEMMA CallStable ==
  ASSUME NEW p, NEW q, NEW a, NEW h, NEW c, NEW o, CallOK(q, a, h, c, o), Grows(p),
         StaysCurrent(q), o.file \in File \cup {0}
  PROVE  CallOK(q, a, h, c, o)'
<1>1. \A f : Current(q, f, a) => Current(q, f, a)'
  BY DEF CallOK, StaysCurrent, Current
<1>2. h # 0 => Current(q, h, a)' /\ Upto(Latest) \subseteq db'[h].done
  BY <1>1 DEF CallOK, Grows, Current
<1>3. c.op \in OnActive /\ o.file # 0 => Current(q, o.file, a)'
  BY <1>1 DEF CallOK
<1>4. c.op = "create" /\ o.file # 0 => db'[o.file].born = c.name
  BY DEF CallOK, Grows
<1> QED BY <1>2, <1>3, <1>4 DEF CallOK

\* A step of p that leaves it with these locals.
Leaves(p, a, h, c, o) ==
  /\ active' = [active EXCEPT ![p] = a]
  /\ handle' = [handle EXCEPT ![p] = h]
  /\ call' = [call EXCEPT ![p] = c]
  /\ open' = [open EXCEPT ![p] = o]

LEMMA Step ==
  ASSUME Inv, NEW p \in Proc, NEW a, NEW h, NEW c, NEW o, Leaves(p, a, h, c, o),
         FilesOK', RowsOK', Grows(p), \A q \in Proc \ {p} : StaysCurrent(q),
         OpenOK(p, o)', CallOK(p, a, h, c, o)'
  PROVE  Inv'
<1>1. LocalsOK'
  BY DEF Inv, LocalsOK, Leaves
<1>2. active'[p] = a /\ handle'[p] = h /\ call'[p] = c /\ open'[p] = o
  BY DEF Inv, LocalsOK, Leaves
<1>3. ASSUME NEW q \in Proc
      PROVE  ProcOK(q, active[q], handle[q], call[q], open[q])'
  <2>1. CASE q = p
    BY <1>2, <2>1 DEF ProcOK
  <2>2. CASE q # p
    <3>1. PICK b, i, d, n : b = active[q] /\ i = handle[q] /\ d = call[q] /\ n = open[q]
      OBVIOUS
    <3>2. active'[q] = b /\ handle'[q] = i /\ call'[q] = d /\ open'[q] = n
      BY <2>2, <3>1 DEF Inv, LocalsOK, Leaves
    <3>3. OpenOK(q, n) /\ CallOK(q, b, i, d, n)
      BY <3>1 DEF Inv, ProcOK
    <3>4. OpenOK(q, n)' /\ CallOK(q, b, i, d, n)'
      BY <2>2, <3>3, OpenStable, CallStable DEF OpenOK
    <3> QED BY <3>2, <3>4 DEF ProcOK
  <2> QED BY <2>1, <2>2
<1> QED BY <1>1, <1>3 DEF Inv

LEMMA Here ==
  ASSUME Inv, NEW p \in Proc
  PROVE  /\ OpenOK(p, open[p]) /\ CallOK(p, active[p], handle[p], call[p], open[p])
         /\ FilesOK /\ RowsOK /\ LocalsOK
         /\ open[p].pc = "idle" => open[p].file = 0
  BY DEF Inv, ProcOK, OpenOK

\* A step that leaves the files alone.
LEMMA StillFiles ==
  ASSUME Inv, NEW p \in Proc, UNCHANGED <<path, db>>
  PROVE  FilesOK' /\ Grows(p) /\ (UNCHANGED deleter => \A q \in Proc : StaysCurrent(q))
<1>1. FilesOK' /\ Grows(p)
  BY DEF Inv, FilesOK, SchemaWhole, Created, Grows
<1> QED BY <1>1 DEF StaysCurrent, Current

LEMMA Quiet ==
  ASSUME Inv, NEW p \in Proc, NEW a, NEW h, NEW c, Leaves(p, a, h, c, open[p]),
         UNCHANGED <<storage, deleter>>, RowsOK', CallOK(p, a, h, c, open[p])
  PROVE  Inv'
<1>1. PICK o : o = open[p]
  OBVIOUS
<1>2. FilesOK' /\ Grows(p) /\ \A q \in Proc : StaysCurrent(q)
  BY StillFiles DEF storage
<1>3. OpenOK(p, o)'
  <2>1. OpenOK(p, o) /\ db' = db
    BY <1>1, Here DEF storage
  <2> QED BY <2>1 DEF OpenOK, TransactionOK
<1>4. CallOK(p, a, h, c, o)'
  BY <1>1, <1>2, Here, CallStable DEF OpenOK
<1> QED BY <1>1, <1>2, <1>3, <1>4, Step

LEMMA StillRows == ASSUME Inv, UNCHANGED <<db, rows, events, deleter>> PROVE RowsOK'
  BY DEF Inv, RowsOK

\* The locals that a step does not mention.
LEMMA SameLocals ==
  ASSUME Inv, NEW p \in Proc
  PROVE  /\ UNCHANGED active => active' = [active EXCEPT ![p] = active[p]]
         /\ UNCHANGED handle => handle' = [handle EXCEPT ![p] = handle[p]]
         /\ UNCHANGED call => call' = [call EXCEPT ![p] = call[p]]
         /\ UNCHANGED open => open' = [open EXCEPT ![p] = open[p]]
  BY DEF Inv, LocalsOK

LEMMA NewCall ==
  ASSUME NEW op, NEW w, NEW left
  PROVE  LET c == [op |-> op, name |-> w, left |-> left] IN
         IsCall(c) /\ c.op = op /\ c.name = w /\ c.left = left
  BY DEF IsCall

\* The calls that begin without a switch.
LEMMA StartKeeps ==
  ASSUME Inv, NEW p \in Proc, NEW op \in {"write", "export", "create", "info"},
         NEW w \in Workspace, NEW left, op = "info" => left \subseteq Workspace,
         Start(p, op, w, left), UNCHANGED <<storage, active, handle, contents>>
  PROVE  Inv'
<1>1. PICK c : c = [op |-> op, name |-> w, left |-> left]
  OBVIOUS
<1>2. IsCall(c) /\ c.op = op /\ c.name = w /\ c.left = left
  BY <1>1, NewCall
<1>3. Leaves(p, active[p], handle[p], c, open[p])
  BY <1>1, SameLocals DEF Start, Leaves, storage
<1>4. open[p].pc = "idle" /\ open[p].file = 0
  BY Here DEF Start, Idle, CallOK
<1>5. CallOK(p, active[p], handle[p], c, open[p])
  BY <1>2, <1>4, Here DEF CallOK, OnActive
<1>6. RowsOK'
  BY StillRows DEF storage, contents
<1> QED BY <1>3, <1>5, <1>6, Quiet DEF storage, contents

\* Use and import take the name first.
LEMMA SwitchKeeps ==
  ASSUME Inv, NEW p \in Proc, NEW op \in {"use", "import"}, NEW w \in Workspace, NEW left,
         Start(p, op, w, left), SwitchTo(p, w), UNCHANGED <<storage, contents>>
  PROVE  Inv'
<1>1. PICK c : c = [op |-> op, name |-> w, left |-> left]
  OBVIOUS
<1>2. IsCall(c) /\ c.op = op /\ c.name = w
  BY <1>1, NewCall
<1>3. PICK h : h = IF active[p] # w THEN 0 ELSE handle[p]
  OBVIOUS
<1>4. Leaves(p, w, h, c, open[p])
  BY <1>1, <1>3, SameLocals, Here DEF Start, SwitchTo, Leaves, storage, LocalsOK
<1>5. open[p].pc = "idle" /\ open[p].file = 0
  BY Here DEF Start, Idle, CallOK
<1>6. CallOK(p, w, h, c, open[p])
  BY <1>2, <1>3, <1>5, Here DEF CallOK, OnActive
<1>7. RowsOK'
  BY StillRows DEF storage, contents
<1> QED BY <1>4, <1>6, <1>7, Quiet DEF storage, contents

LEMMA NoCallIs == IsCall(NoCall) /\ NoCall.op = "none" /\ NoCall.name = Default
  BY NewCall DEF NoCall

\* A call that returns leaves no open behind.
LEMMA ReturnKeeps ==
  ASSUME Inv, NEW p \in Proc, NEW how, Return(p, how), open[p].pc = "idle", RowsOK',
         UNCHANGED <<storage, active, handle, deleter>>
  PROVE  Inv'
<1>1. PICK c : c = NoCall
  OBVIOUS
<1>2. IsCall(c) /\ c.op = "none" /\ c.name \in Workspace
  BY <1>1, NoCallIs, WorkspaceAssumption
<1>3. Leaves(p, active[p], handle[p], c, open[p])
  BY <1>1, SameLocals DEF Return, Leaves, storage
<1>4. CallOK(p, active[p], handle[p], c, open[p])
  BY <1>2, Here DEF CallOK, OnActive
<1> QED BY <1>3, <1>4, Quiet

\* A row names the workspace that its file was made for.
LEMMA RowAdded ==
  ASSUME Inv, NEW p \in Proc, handle[p] # 0, NEW names, names \subseteq {active[p]},
         rows' = [rows EXCEPT ![handle[p]] = @ \cup names], UNCHANGED <<db, events, deleter>>
  PROVE  RowsOK'
<1>1. handle[p] \in File /\ db[handle[p]].born = active[p] /\ active[p] \in Workspace
  BY Here DEF CallOK, Current
<1>2. /\ DOMAIN rows' = File /\ DOMAIN events' = File /\ DOMAIN deleter' = File
      /\ \A f \in File : /\ events'[f] \subseteq {WorkspaceID(db'[f].born)}
                         /\ db'[f].born \notin Workspace => events'[f] = {}
  BY Here DEF RowsOK
<1>3. \A f \in File : rows'[f] \subseteq {db'[f].born} /\ rows'[f] \subseteq Workspace
  BY <1>1, Here DEF RowsOK
<1> QED BY <1>2, <1>3 DEF RowsOK

LEMMA WorkKeeps ==
  ASSUME Inv, NEW p \in Proc, WriteRow(p) \/ Export(p) \/ Use(p) \/ ImportArchive(p)
  PROVE  Inv'
<1>1. handle[p] # 0 /\ open[p].pc = "idle"
  BY Here DEF WriteRow, Export, Use, ImportArchive, CallOK, OnActive
<1>2. RowsOK'
  <2>1. CASE WriteRow(p)
    BY <1>1, <2>1, RowAdded DEF WriteRow, storage
  <2>2. CASE Export(p) \/ Use(p)
    BY <2>2, StillRows DEF Export, Use, storage, contents
  <2>3. CASE ImportArchive(p)
    <3>1. PICK names : names = IF call[p].left = {} THEN {} ELSE {call[p].name}
      OBVIOUS
    <3>2. names \subseteq {active[p]}
      BY <2>3, <3>1, Here DEF ImportArchive, CallOK
    <3>3. rows' = [rows EXCEPT ![handle[p]] = @ \cup names]
      BY <2>3, <3>1 DEF ImportArchive
    <3> QED BY <1>1, <2>3, <3>2, <3>3, RowAdded DEF ImportArchive, storage
  <2> QED BY <2>1, <2>2, <2>3
<1>3. PICK how : Return(p, how)
  BY DEF WriteRow, Export, Use, ImportArchive
<1>4. UNCHANGED <<storage, active, handle, deleter>>
  BY DEF WriteRow, Export, Use, ImportArchive, contents
<1> QED BY <1>1, <1>2, <1>3, <1>4, ReturnKeeps

LEMMA CreateRefusedKeeps == ASSUME Inv, NEW p \in Proc, CreateRefused(p) PROVE Inv'
<1>1. open[p].pc = "idle"
  BY Here DEF CreateRefused, CallOK
<1>2. RowsOK' /\ UNCHANGED <<storage, active, handle, deleter>> /\ Return(p, "error")
  BY StillRows DEF CreateRefused, storage, contents
<1> QED BY <1>1, <1>2, ReturnKeeps

\* The names that a call has still to look at.
LEMMA SetLeft ==
  ASSUME NEW c, IsCall(c), NEW left
  PROVE  LET d == [c EXCEPT !.left = left] IN
         IsCall(d) /\ d.op = c.op /\ d.name = c.name /\ d.left = left
<1>1. PICK d : d = [op |-> c.op, name |-> c.name, left |-> left]
  OBVIOUS
<1>2. d = [c EXCEPT !.left = left]
  BY <1>1 DEF IsCall
<1> QED BY <1>1, <1>2, NewCall

LEMMA CreateAbsentKeeps == ASSUME Inv, NEW p \in Proc, CreateAbsent(p) PROVE Inv'
<1>1. PICK b : b = call[p]
  OBVIOUS
<1>2. IsCall(b) /\ b.op = "create" /\ LocalsOK
  BY <1>1, Here DEF CallOK, CreateAbsent
<1>3. PICK c : c = [b EXCEPT !.left = {}]
  OBVIOUS
<1>4. IsCall(c) /\ c.op = b.op /\ c.name = b.name /\ c.left = {}
  BY <1>2, <1>3, SetLeft
<1>5. call' = [call EXCEPT ![p] = c]
  BY <1>1, <1>2, <1>3 DEF CreateAbsent, LocalsOK
<1>6. Leaves(p, active[p], handle[p], c, open[p])
  BY <1>5, SameLocals DEF CreateAbsent, Leaves, storage
<1>7. CallOK(p, active[p], handle[p], c, open[p])
  BY <1>1, <1>2, <1>4, Here DEF CallOK, OnActive
<1> QED BY <1>6, <1>7, Quiet, StillRows DEF CreateAbsent, storage, contents

----------------------------------------------------------------------------
(* Opening within a call *)

\* Opening leaves the rows and what is current alone.
LEMMA OpensKeepsRows ==
  ASSUME Inv, NEW p \in Proc, NEW w \in Workspace, NEW o, Opens(p, w, o),
         UNCHANGED <<rows, events, deleter>>
  PROVE  RowsOK' /\ \A q \in Proc : StaysCurrent(q)
<1>1. RowsOK'
  BY Here, MigrationAssumption DEF Opens, RowsOK
<1>2. ASSUME NEW q \in Proc, NEW f \in File, NEW b \in Workspace, Current(q, f, b)
      PROVE  Current(q, f, b)'
  <2>1. f # 0
    BY MigrationAssumption DEF File
  <2>2. db'[f].born = b
    BY <1>2, MigrationAssumption DEF Opens, Current
  <2>3. path[b] = f => path'[b] = f
    BY <2>1 DEF Opens
  <2> QED BY <1>2, <2>2, <2>3 DEF Current
<1> QED BY <1>1, <1>2 DEF StaysCurrent

\* A call whose open has just started, of the active workspace or apart from it.
LEMMA OpensKeeps ==
  ASSUME Inv, NEW p \in Proc, NEW w \in Workspace, NEW c, NEW o, Opens(p, w, o),
         UNCHANGED <<active, handle, rows, events, deleter>>, call' = [call EXCEPT ![p] = c],
         IsCall(c), c.op = call[p].op, c.name = call[p].name, c.left \subseteq call[p].left,
         c.op \in OnActive => handle[p] = 0 /\ w = active[p],
         c.op # "none", c.op = "create" => c.left = {} /\ w = c.name
  PROVE  Inv'
<1>1. RowsOK' /\ \A q \in Proc : StaysCurrent(q)
  BY OpensKeepsRows
<1>2. FilesOK' /\ Grows(p) /\ OpenOK(p, o)' /\ Leaves(p, active[p], handle[p], c, o)
  BY SameLocals DEF Opens, Leaves
<1>3. PICK a, h : a = active[p] /\ h = handle[p]
  OBVIOUS
<1>4. c.op \in OnActive => Current(p, o.file, a)'
  BY <1>3 DEF Opens, Current
<1>5. h # 0 => Current(p, h, a)' /\ Upto(Latest) \subseteq db'[h].done
  BY <1>1, <1>2, <1>3, Here DEF CallOK, StaysCurrent, Grows, Current
<1>6. c.op = "create" => db'[o.file].born = c.name
  BY DEF Opens
<1>7. CallOK(p, a, h, c, o)'
  BY <1>3, <1>4, <1>5, <1>6, Here DEF CallOK
<1> QED BY <1>1, <1>2, <1>3, <1>7, Step

LEMMA ConnectKeeps == ASSUME Inv, NEW p \in Proc, Connect(p) PROVE Inv'
<1>1. active[p] \in Workspace /\ IsCall(call[p])
  BY Here DEF CallOK
<1>2. PICK o : Opens(p, active[p], o)
  BY <1>1, OpenFileOpens DEF Connect
<1>3. call' = [call EXCEPT ![p] = call[p]]
  BY SameLocals DEF Connect, manager
<1> QED BY <1>1, <1>2, <1>3, OpensKeeps DEF Connect, manager, contents, OnActive

LEMMA CreateOpenKeeps == ASSUME Inv, NEW p \in Proc, CreateOpen(p) PROVE Inv'
<1>1. call[p].name \in Workspace /\ IsCall(call[p])
  BY Here DEF CallOK
<1>2. PICK o : Opens(p, call[p].name, o)
  BY <1>1, OpenFileOpens DEF CreateOpen
<1>3. call' = [call EXCEPT ![p] = call[p]]
  BY SameLocals DEF CreateOpen, manager
<1> QED BY <1>1, <1>2, <1>3, OpensKeeps DEF CreateOpen, manager, contents, OnActive

LEMMA InfoNextKeeps == ASSUME Inv, NEW p \in Proc, InfoNext(p) PROVE Inv'
<1>1. PICK b : b = call[p]
  OBVIOUS
<1>2. /\ IsCall(b) /\ b.op = "info" /\ open[p].pc = "idle" /\ b.left \subseteq Workspace
      /\ LocalsOK
  BY <1>1, Here DEF CallOK, InfoNext
<1>3. CASE b.left = {}
  BY <1>1, <1>2, <1>3, ReturnKeeps, StillRows DEF InfoNext, storage, contents
<1>4. CASE b.left # {}
  <2>1. PICK w \in b.left :
          /\ call' = [call EXCEPT ![p].left = @ \ {w}]
          /\ UNCHANGED storage \/ OpenFile(p, w)
    BY <1>1, <1>4 DEF InfoNext
  <2>2. PICK left : left = b.left \ {w}
    OBVIOUS
  <2>3. PICK c : c = [b EXCEPT !.left = left]
    OBVIOUS
  <2>4. IsCall(c) /\ c.op = b.op /\ c.name = b.name /\ c.left = left
    BY <1>2, <2>3, SetLeft
  <2>5. call' = [call EXCEPT ![p] = c]
    BY <1>1, <1>2, <2>1, <2>2, <2>3 DEF LocalsOK
  <2>6. UNCHANGED <<active, handle, rows, events, archive, deleter>>
    BY DEF InfoNext, contents
  <2>7. CASE UNCHANGED storage
    <3>1. Leaves(p, active[p], handle[p], c, open[p])
      BY <2>5, <2>6, <2>7, SameLocals DEF Leaves, storage
    <3>2. CallOK(p, active[p], handle[p], c, open[p])
      BY <1>1, <1>2, <2>2, <2>4, Here DEF CallOK, OnActive
    <3> QED BY <2>6, <2>7, <3>1, <3>2, Quiet, StillRows DEF storage
  <2>8. CASE OpenFile(p, w)
    <3>1. w \in Workspace
      BY <1>2
    <3>2. PICK o : Opens(p, w, o)
      BY <2>8, <3>1, OpenFileOpens
    <3> QED BY <1>1, <1>2, <2>2, <2>4, <2>5, <2>6, <3>1, <3>2, OpensKeeps DEF OnActive
  <2> QED BY <2>1, <2>7, <2>8
<1> QED BY <1>3, <1>4

\* An open that is over is forgotten.
LEMMA ForgetKeeps ==
  ASSUME Inv, NEW p \in Proc, NEW h, NEW c, open[p].pc = "returned",
         open' = [open EXCEPT ![p] = NotOpen], handle' = [handle EXCEPT ![p] = h],
         call' = [call EXCEPT ![p] = c], UNCHANGED <<path, db, active, deleter>>, RowsOK',
         IsCall(c), c.name \in Workspace,
         c.op = "import" => c.name = active[p], c.op = "info" => c.left \subseteq Workspace,
         h # 0 => Current(p, h, active[p]) /\ Upto(Latest) \subseteq db[h].done
  PROVE  Inv'
<1>1. PICK o, a : o = NotOpen /\ a = active[p]
  OBVIOUS
<1>2. IsOpen(o) /\ o.pc = "idle" /\ o.file = 0
  BY <1>1, NotOpenIs
<1>3. FilesOK' /\ Grows(p) /\ \A q \in Proc : StaysCurrent(q)
  BY StillFiles
<1>4. OpenOK(p, o)'
  <2>1. \A f \in File : db[f].lock # p
    BY Here DEF OpenOK, InTransaction
  <2> QED BY <1>2, <2>1 DEF OpenOK, InTransaction
<1>5. CallOK(p, a, h, c, o)
  BY <1>1, <1>2, Here DEF CallOK
<1>6. CallOK(p, a, h, c, o)'
  BY <1>2, <1>3, <1>5, CallStable
<1>7. Leaves(p, a, h, c, o)
  BY <1>1, SameLocals DEF Leaves
<1> QED BY <1>3, <1>4, <1>6, <1>7, Step

LEMMA ConnectedKeeps == ASSUME Inv, NEW p \in Proc, Connected(p) PROVE Inv'
<1>1. PICK h : h = open[p].file
  OBVIOUS
<1>2. h # 0 => Current(p, h, active[p]) /\ Upto(Latest) \subseteq db[h].done
  BY <1>1, Here DEF Connected, CallOK, OpenOK
<1>3. PICK c : /\ call' = [call EXCEPT ![p] = c] /\ IsCall(c) /\ c.name \in Workspace
               /\ c.op = "import" => c.name = active[p]
               /\ c.op = "info" => c.left \subseteq Workspace
  <2>1. CASE h = 0
    BY <1>1, <2>1, NoCallIs, WorkspaceAssumption DEF Connected, Return
  <2>2. CASE h # 0
    BY <1>1, <2>2, Here, SameLocals DEF Connected, CallOK
  <2> QED BY <2>1, <2>2
<1>4. RowsOK'
  BY StillRows DEF Connected, contents
<1> QED BY <1>1, <1>2, <1>3, <1>4, ForgetKeeps DEF Connected, contents

LEMMA InfoOpenedKeeps == ASSUME Inv, NEW p \in Proc, InfoOpened(p) PROVE Inv'
<1>1. PICK h, c : h = handle[p] /\ c = call[p]
  OBVIOUS
<1>2. h # 0 => Current(p, h, active[p]) /\ Upto(Latest) \subseteq db[h].done
  BY <1>1, Here DEF CallOK
<1>3. IsCall(c) /\ c.name \in Workspace /\ c.op = "info" /\ c.left \subseteq Workspace
  BY <1>1, Here DEF InfoOpened, CallOK
<1>4. handle' = [handle EXCEPT ![p] = h] /\ call' = [call EXCEPT ![p] = c]
  BY <1>1, SameLocals DEF InfoOpened, manager
<1>5. RowsOK'
  BY StillRows DEF InfoOpened, contents
<1> QED BY <1>2, <1>3, <1>4, <1>5, ForgetKeeps DEF InfoOpened, manager, contents

\* The event goes to a file that was made for the name of the call.
LEMMA CreateOpenedKeeps == ASSUME Inv, NEW p \in Proc, CreateOpened(p) PROVE Inv'
<1>1. PICK h, c, f, w : h = handle[p] /\ c = NoCall /\ f = open[p].file /\ w = call[p].name
  OBVIOUS
<1>2. h # 0 => Current(p, h, active[p]) /\ Upto(Latest) \subseteq db[h].done
  BY <1>1, Here DEF CallOK
<1>3. IsCall(c) /\ c.name \in Workspace /\ c.op = "none" /\ call' = [call EXCEPT ![p] = c]
  BY <1>1, NoCallIs, WorkspaceAssumption DEF CreateOpened, Return
<1>4. handle' = [handle EXCEPT ![p] = h]
  BY <1>1, SameLocals DEF CreateOpened
<1>5. RowsOK'
  <2>1. UNCHANGED <<db, rows, deleter>>
    BY DEF CreateOpened
  <2>2. CASE UNCHANGED events
    BY <2>1, <2>2, StillRows
  <2>3. CASE f # 0 /\ events' = [events EXCEPT ![f] = @ \cup {WorkspaceID(w)}]
    <3>1. f \in File /\ db[f].born = w /\ w \in Workspace
      BY <1>1, <2>3, Here DEF CreateOpened, CallOK, OpenOK
    <3> QED BY <2>1, <2>3, <3>1, Here DEF RowsOK
  <2> QED BY <1>1, <2>2, <2>3 DEF CreateOpened
<1> QED BY <1>2, <1>3, <1>4, <1>5, ForgetKeeps DEF CreateOpened

LEMMA OpeningKeeps == ASSUME Inv, NEW p \in Proc, Opening(p) PROVE Inv'
<1>1. PICK o : Advance(p, o)
  BY OpenStepAdvances DEF Opening
<1>2. PICK a, h, c : a = active[p] /\ h = handle[p] /\ c = call[p]
  OBVIOUS
<1>3. /\ o.pc # "idle" /\ o.file \in {open[p].file, 0} /\ path' = path /\ SameBirths
      /\ Grows(p) /\ SchemaWhole' /\ OpenOK(p, o)'
  BY <1>1 DEF Advance
<1>4. Leaves(p, a, h, c, o) /\ UNCHANGED <<rows, events, deleter>>
  BY <1>1, <1>2, SameLocals DEF Opening, Advance, Leaves, manager, contents
<1>5. FilesOK'
  <2>1. Created' = Created /\ DOMAIN db' = File
    BY <1>3, Here DEF Created, SameBirths, Grows
  <2> QED BY <1>3, <2>1, Here DEF FilesOK, Grows, SameBirths
<1>6. RowsOK'
  BY <1>3, <1>4, Here DEF RowsOK, SameBirths
<1>7. \A q \in Proc : StaysCurrent(q)
  BY <1>3, <1>4 DEF StaysCurrent, Current, SameBirths
<1>8. CallOK(p, a, h, c, o)
  <2>1. open[p].pc # "idle"
    BY DEF Opening, OpenStep, Bootstrap, ReadVersion, Statement, RecordVersion, Commit
  <2> QED BY <1>2, <1>3, <2>1, Here DEF CallOK
<1>9. CallOK(p, a, h, c, o)'
  BY <1>3, <1>7, <1>8, OpenHere, CallStable
<1> QED BY <1>3, <1>4, <1>5, <1>6, <1>7, <1>9, Step

----------------------------------------------------------------------------
(* Removing a workspace; the death of a process *)

LEMMA DeleteKeeps == ASSUME Inv, NEW p \in Proc, NEW w \in Workspace, Delete(p, w) PROVE Inv'
<1>1. PICK a, h, c, o : /\ a = IF path[w] # 0 /\ active[p] = w THEN Default ELSE active[p]
                        /\ h = IF active[p] = w THEN 0 ELSE handle[p]
                        /\ c = call[p] /\ o = open[p]
  OBVIOUS
<1>2. /\ c.op = "none" /\ o.pc = "idle" /\ o.file = 0 /\ IsCall(c) /\ c.name \in Workspace
      /\ FilesOK /\ RowsOK /\ LocalsOK
  BY <1>1, Here DEF Delete, Idle, CallOK
<1>3. Leaves(p, a, h, c, o) /\ UNCHANGED <<db, rows, events>>
  BY <1>1, <1>2, SameLocals DEF Delete, Leaves, LocalsOK
<1>4. path' = [path EXCEPT ![w] = 0]
      /\ deleter' = [f \in File |-> IF path[w] = f THEN p ELSE deleter[f]]
  BY DEF Delete
<1>5. FilesOK' /\ RowsOK'
  BY <1>2, <1>3, <1>4 DEF FilesOK, RowsOK, SchemaWhole, Created
<1>6. Grows(p)
  BY <1>2, <1>3 DEF FilesOK, Grows
<1>7. ASSUME NEW q \in Proc, NEW f \in File, NEW b \in Workspace, Current(q, f, b),
             q # p \/ b # w
      PROVE  Current(q, f, b)'
  <2>1. db[f].born = b /\ (path[b] = f \/ deleter[f] \notin {0, q}) /\ p # 0 /\ f # 0
    BY <1>7, MigrationAssumption DEF Current, File
  <2>2. path[w] = f => b = w
    BY <1>2, <2>1 DEF FilesOK
  <2>3. b # w => path'[b] = path[b]
    BY <1>2, <1>4 DEF FilesOK
  <2>4. deleter'[f] = IF path[w] = f THEN p ELSE deleter[f]
    BY <1>4
  <2> QED BY <1>3, <1>7, <2>1, <2>2, <2>3, <2>4 DEF Current
<1>8. \A q \in Proc \ {p} : StaysCurrent(q)
  BY <1>7 DEF StaysCurrent
<1>9. OpenOK(p, o)'
  BY <1>1, <1>2, <1>3, Here DEF OpenOK, InTransaction
<1>10. h # 0 => Current(p, h, a)' /\ Upto(Latest) \subseteq db'[h].done
  <2> SUFFICES ASSUME h # 0 PROVE Current(p, h, a)' /\ Upto(Latest) \subseteq db'[h].done
    OBVIOUS
  <2>1. h = handle[p] /\ a = active[p] /\ a # w
    BY <1>1
  <2>2. Current(p, h, a) /\ Upto(Latest) \subseteq db[h].done /\ a \in Workspace
    BY <2>1, Here DEF CallOK
  <2> QED BY <1>3, <1>7, <2>1, <2>2 DEF Current
<1>11. a \in Workspace
  BY <1>1, Here, WorkspaceAssumption DEF CallOK
<1>12. CallOK(p, a, h, c, o)'
  BY <1>2, <1>10, <1>11 DEF CallOK, OnActive
<1> QED BY <1>3, <1>5, <1>6, <1>8, <1>9, <1>12, Step

LEMMA CrashKeeps == ASSUME Inv, NEW p \in Proc, Crash(p) PROVE Inv'
<1>1. PICK a, c, o : a = Default /\ c = NoCall /\ o = NotOpen
  OBVIOUS
<1>2. /\ IsOpen(o) /\ o.pc = "idle" /\ o.file = 0
      /\ IsCall(c) /\ c.op = "none" /\ c.name \in Workspace /\ a \in Workspace
  BY <1>1, NotOpenIs, NoCallIs, WorkspaceAssumption
<1>3. Leaves(p, a, 0, c, o) /\ UNCHANGED <<path, rows, events, deleter>>
  BY <1>1 DEF Crash, Abandon, Return, Leaves, contents
<1>4. FilesOK /\ RowsOK
  BY Here
<1>5. /\ DOMAIN db' = File
      /\ \A f \in File : /\ IsDb(db'[f]) /\ db'[f].born = db[f].born
                         /\ db'[f].done = db[f].done
                         /\ db'[f].lock = IF db[f].lock = p THEN 0 ELSE db[f].lock
  <2>1. db' = [f \in File |-> IF db[f].lock = p THEN [db[f] EXCEPT !.lock = 0] ELSE db[f]]
    BY DEF Crash, Abandon
  <2>2. ASSUME NEW f \in File
        PROVE  /\ IsDb(db'[f]) /\ db'[f].born = db[f].born /\ db'[f].done = db[f].done
               /\ db'[f].lock = IF db[f].lock = p THEN 0 ELSE db[f].lock
    BY <1>4, <2>1 DEF FilesOK, IsDb
  <2> QED BY <2>1, <2>2
<1>6. \A q \in Proc : q # 0
  BY MigrationAssumption
<1>7. Grows(p)
  BY <1>5, <1>6 DEF Grows
<1>8. FilesOK' /\ RowsOK'
  <2>1. Created' = Created
    BY <1>5 DEF Created
  <2> QED BY <1>3, <1>4, <1>5, <2>1 DEF FilesOK, RowsOK, SchemaWhole
<1>9. \A q \in Proc : StaysCurrent(q)
  BY <1>3, <1>5 DEF StaysCurrent, Current
<1>10. OpenOK(p, o)'
  BY <1>2, <1>5, <1>6 DEF OpenOK, InTransaction
<1>11. CallOK(p, a, 0, c, o)'
  BY <1>2 DEF CallOK, OnActive
<1> QED BY <1>3, <1>7, <1>8, <1>9, <1>10, <1>11, Step

----------------------------------------------------------------------------
(* Theorems *)

LEMMA InitOK == ASSUME Init PROVE Inv
<1>1. PICK o, c : o = NotOpen /\ c = NoCall
  OBVIOUS
<1>2. /\ IsOpen(o) /\ o.pc = "idle" /\ o.file = 0
      /\ IsCall(c) /\ c.op = "none" /\ c.name \in Workspace
  BY <1>1, NotOpenIs, NoCallIs, WorkspaceAssumption
<1>3. LocalsOK /\ \A p \in Proc : active[p] = Default /\ handle[p] = 0 /\ call[p] = c
                                  /\ open[p] = o
  BY <1>1 DEF Init, OpenInit, LocalsOK
<1>4. DOMAIN db = File /\ \A f \in File : db[f].born = "none" /\ db[f].done = {}
                                          /\ db[f].lock = 0 /\ IsDb(db[f])
  BY DEF Init, OpenInit, NoDb, IsDb
<1>5. FilesOK
  <2>1. Created = 1..0
    BY <1>4 DEF Created
  <2>2. 0 \in 0..MaxFile
    BY MigrationAssumption
  <2>3. Upto(0) = {}
    BY DEF Upto
  <2>4. SchemaWhole
    BY <1>4, <2>3, MigrationIs DEF SchemaWhole, Upto
  <2> QED BY <1>4, <2>1, <2>2, <2>4 DEF Init, OpenInit, FilesOK
<1>6. RowsOK
  BY DEF Init, RowsOK
<1>7. ASSUME NEW p \in Proc PROVE ProcOK(p, Default, 0, c, o)
  <2>1. p # 0
    BY MigrationAssumption
  <2> QED BY <1>2, <1>4, <2>1, WorkspaceAssumption
          DEF ProcOK, OpenOK, CallOK, OnActive, InTransaction
<1> QED BY <1>3, <1>5, <1>6, <1>7 DEF Inv

LEMMA NextKeeps == ASSUME Inv, [Next]_vars PROVE Inv'
<1>1. ASSUME NEW p \in Proc, Work(p) PROVE Inv'
  BY <1>1, OpeningKeeps, ConnectKeeps, ConnectedKeeps, WorkKeeps, CreateRefusedKeeps,
     CreateAbsentKeeps, CreateOpenKeeps, InfoNextKeeps, InfoOpenedKeeps, CreateOpenedKeeps DEF Work
<1>2. ASSUME NEW p \in Proc, StartWrite(p) PROVE Inv'
  <2>1. active[p] \in Workspace
    BY Here DEF CallOK
  <2> QED BY <1>2, <2>1, StartKeeps DEF StartWrite
<1>3. ASSUME NEW p \in Proc, StartList(p) PROVE Inv'
  BY <1>3, WorkspaceAssumption, StartKeeps DEF StartList
<1>4. ASSUME NEW p \in Proc, NEW w \in Workspace,
             StartInfo(p, w) \/ StartCreate(p, w) \/ StartExport(p, w)
      PROVE  Inv'
  BY <1>4, StartKeeps DEF StartInfo, StartCreate, StartExport
<1>5. ASSUME NEW p \in Proc, NEW w \in Workspace, StartUse(p, w) \/ StartImport(p, w)
      PROVE  Inv'
  BY <1>5, SwitchKeeps DEF StartUse, StartImport
<1>6. CASE UNCHANGED vars
  <2>1. UNCHANGED <<path, db, open, active, handle, call, rows, events, deleter>>
    BY <1>6 DEF vars, storage, manager, contents
  <2>2. FilesOK' /\ RowsOK' /\ LocalsOK'
    BY <2>1 DEF Inv, FilesOK, RowsOK, LocalsOK, SchemaWhole, Created
  <2>3. ASSUME NEW p \in Proc PROVE ProcOK(p, active[p], handle[p], call[p], open[p])'
    <3>1. PICK a, h, c, o : a = active[p] /\ h = handle[p] /\ c = call[p] /\ o = open[p]
      OBVIOUS
    <3>2. OpenOK(p, o) /\ CallOK(p, a, h, c, o)
      BY <3>1, Here
    <3>3. OpenOK(p, o)'
      BY <2>1, <3>2 DEF OpenOK, TransactionOK
    <3>4. CallOK(p, a, h, c, o)'
      BY <2>1, <3>2 DEF CallOK, Current
    <3> QED BY <2>1, <3>1, <3>3, <3>4 DEF ProcOK
  <2> QED BY <2>2, <2>3 DEF Inv
<1> QED BY <1>1, <1>2, <1>3, <1>4, <1>5, <1>6, DeleteKeeps, CrashKeeps
        DEF Next, WorkspaceCommand

\* The invariant holds of every execution of the processes and their files.
THEOREM InvCorrect == Spec => []Inv
  BY InitOK, NextKeeps, PTL DEF Spec

\* migrations.go:30: whoever migrates a database, fails or dies meanwhile, what is
\* in effect are all the statements of the first versions, and those are recorded.
THEOREM SchemaWholeCorrect == Spec => []SchemaWhole
<1>1. Inv => SchemaWhole
  BY DEF Inv, FilesOK
<1> QED BY <1>1, InvCorrect, PTL

\* manager.go:209: a row is only ever written to a file of its workspace, and
\* Create's audit event (manager.go:184) to a file of the workspace it names.
THEOREM RowsInOwnWorkspaceCorrect == Spec => []RowsInOwnWorkspace
<1>1. Inv => RowsInOwnWorkspace
  BY DEF Inv, RowsOK, ProcOK, CallOK, Current, RowsInOwnWorkspace
<1> QED BY <1>1, InvCorrect, PTL

\* manager.go:228: a process stays connected to a file that was removed only if
\* another process removed it, and what it works on has every version.
THEOREM HandleIsCurrentCorrect == Spec => []HandleIsCurrent
<1>1. ASSUME Inv PROVE HandleIsCurrent
  <2> SUFFICES ASSUME NEW p \in Proc, handle[p] # 0
               PROVE  /\ path[active[p]] = handle[p] \/ deleter[handle[p]] \notin {0, p}
                      /\ Recorded(handle[p]) = 1..Latest
    BY DEF HandleIsCurrent
  <2>1. /\ handle[p] \in File /\ Upto(Latest) \subseteq db[handle[p]].done
        /\ path[active[p]] = handle[p] \/ deleter[handle[p]] \notin {0, p}
    BY <1>1, Here DEF CallOK, Current
  <2>2. Latest \in 0..Latest /\ \A v \in 1..Latest : v <= Latest
    BY MigrationIs
  <2>3. Recorded(handle[p]) = 1..Latest
    BY <2>1, <2>2, Marks DEF Recorded
  <2> QED BY <2>1, <2>3
<1> QED BY <1>1, InvCorrect, PTL
=============================================================================
