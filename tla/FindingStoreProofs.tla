------------------------- MODULE FindingStoreProofs -------------------------
(* Proofs about FindingStore, for every set of processes and keys and every      *)
(* number of evaluations, failing statements and kills: what holds however       *)
(* processes interleave, then what one process alone ensures.                    *)
EXTENDS FindingStore, FiniteSetTheorems, TLAPS

----------------------------------------------------------------------------
(* Locals *)

Label == {"idle", "load", "evaluate", "next", "bump", "read", "get", "write",
          "assess", "stub", "snap"}

IsJob(j) ==
  j = [known |-> j.known, todo |-> j.todo, key |-> j.key, id |-> j.id, exists |-> j.exists,
       final |-> j.final, new |-> j.new, run |-> j.run]

LocalsOK == pc \in [Proc -> Label] /\ DOMAIN job = Proc /\ \A p \in Proc : IsJob(job[p])

Moved(p, label, j) ==
  /\ pc' = [pc EXCEPT ![p] = label]
  /\ job' = [job EXCEPT ![p] = j]

LEMMA ContinueMoves ==
  ASSUME NEW p, NEW label, NEW j, Continue(p, label, j) PROVE Moved(p, label, j)
  BY DEF Continue, Moved

LEMMA FinishMoves ==
  ASSUME NEW p, NEW how, NEW j, Finish(p, how, j) PROVE Moved(p, "idle", j)
  BY DEF Finish, Moved

LEMMA MovedTypes ==
  ASSUME LocalsOK, NEW p \in Proc, NEW label \in Label, NEW j, IsJob(j), Moved(p, label, j)
  PROVE  /\ LocalsOK'
         /\ pc'[p] = label /\ job'[p] = j
         /\ \A q \in Proc \ {p} : pc'[q] = pc[q] /\ job'[q] = job[q]
  BY DEF LocalsOK, Moved

LEMMA NoJobIs ==
  /\ IsJob(NoJob) /\ NoJob.known = NoMap /\ NoJob.todo = NoMap /\ NoJob.final = NoMap
  /\ NoJob.new = 0 /\ NoJob.key = NoKey
  BY DEF NoJob, IsJob

\* k differs from j in one of the locals only.
Same(k, j, names) ==
  /\ IsJob(k)
  /\ "known" \in names \/ k.known = j.known
  /\ "todo" \in names \/ k.todo = j.todo
  /\ "key" \in names \/ k.key = j.key
  /\ "id" \in names \/ k.id = j.id
  /\ "exists" \in names \/ k.exists = j.exists
  /\ "final" \in names \/ k.final = j.final
  /\ "new" \in names \/ k.new = j.new
  /\ "run" \in names \/ k.run = j.run

\* Assigning one of the locals leaves the others alone.
LEMMA SetKnown ==
  ASSUME NEW j, IsJob(j), NEW v
  PROVE  Same([j EXCEPT !.known = v], j, {"known"}) /\ [j EXCEPT !.known = v].known = v
<1> DEFINE k == [j EXCEPT !.known = v]
<1>1. k = [known |-> v, todo |-> j.todo, key |-> j.key, id |-> j.id,
             exists |-> j.exists, final |-> j.final, new |-> j.new, run |-> j.run]
  BY DEF IsJob
<1> HIDE DEF k
<1> QED BY <1>1 DEF Same, IsJob

LEMMA SetTodo ==
  ASSUME NEW j, IsJob(j), NEW v
  PROVE  Same([j EXCEPT !.todo = v], j, {"todo"}) /\ [j EXCEPT !.todo = v].todo = v
<1> DEFINE k == [j EXCEPT !.todo = v]
<1>1. k = [known |-> j.known, todo |-> v, key |-> j.key, id |-> j.id,
             exists |-> j.exists, final |-> j.final, new |-> j.new, run |-> j.run]
  BY DEF IsJob
<1> HIDE DEF k
<1> QED BY <1>1 DEF Same, IsJob

LEMMA SetKey ==
  ASSUME NEW j, IsJob(j), NEW v
  PROVE  Same([j EXCEPT !.key = v], j, {"key"}) /\ [j EXCEPT !.key = v].key = v
<1> DEFINE k == [j EXCEPT !.key = v]
<1>1. k = [known |-> j.known, todo |-> j.todo, key |-> v, id |-> j.id,
             exists |-> j.exists, final |-> j.final, new |-> j.new, run |-> j.run]
  BY DEF IsJob
<1> HIDE DEF k
<1> QED BY <1>1 DEF Same, IsJob

LEMMA SetId ==
  ASSUME NEW j, IsJob(j), NEW v
  PROVE  Same([j EXCEPT !.id = v], j, {"id"}) /\ [j EXCEPT !.id = v].id = v
<1> DEFINE k == [j EXCEPT !.id = v]
<1>1. k = [known |-> j.known, todo |-> j.todo, key |-> j.key, id |-> v,
             exists |-> j.exists, final |-> j.final, new |-> j.new, run |-> j.run]
  BY DEF IsJob
<1> HIDE DEF k
<1> QED BY <1>1 DEF Same, IsJob

LEMMA SetExists ==
  ASSUME NEW j, IsJob(j), NEW v
  PROVE  Same([j EXCEPT !.exists = v], j, {"exists"}) /\ [j EXCEPT !.exists = v].exists = v
<1> DEFINE k == [j EXCEPT !.exists = v]
<1>1. k = [known |-> j.known, todo |-> j.todo, key |-> j.key, id |-> j.id,
             exists |-> v, final |-> j.final, new |-> j.new, run |-> j.run]
  BY DEF IsJob
<1> HIDE DEF k
<1> QED BY <1>1 DEF Same, IsJob

LEMMA SetRun ==
  ASSUME NEW j, IsJob(j), NEW v
  PROVE  Same([j EXCEPT !.run = v], j, {"run"}) /\ [j EXCEPT !.run = v].run = v
<1> DEFINE k == [j EXCEPT !.run = v]
<1>1. k = [known |-> j.known, todo |-> j.todo, key |-> j.key, id |-> j.id,
             exists |-> j.exists, final |-> j.final, new |-> j.new, run |-> v]
  BY DEF IsJob
<1> HIDE DEF k
<1> QED BY <1>1 DEF Same, IsJob

----------------------------------------------------------------------------
(* Any number of evaluations *)

\* What an evaluation has saved is stored, and so is a row it is about to update.
Stored(label, j) ==
  /\ DOMAIN j.final \subseteq DOMAIN findings
  /\ label = "write" /\ j.exists => j.id \in DOMAIN findings

Inv == LocalsOK /\ SnapshotsResolve /\ \A p \in Proc : Stored(pc[p], job[p])

LEMMA Step ==
  ASSUME Inv, NEW p \in Proc, NEW label \in Label, NEW j, IsJob(j), Moved(p, label, j),
         SnapshotsResolve', DOMAIN findings \subseteq DOMAIN findings', Stored(label, j)'
  PROVE  Inv'
<1>1. /\ LocalsOK' /\ pc'[p] = label /\ job'[p] = j
      /\ \A q \in Proc \ {p} : pc'[q] = pc[q] /\ job'[q] = job[q]
  BY MovedTypes DEF Inv
<1>2. \A q \in Proc : Stored(pc[q], job[q])'
  BY <1>1 DEF Inv, Stored
<1> QED BY <1>1, <1>2 DEF Inv

LEMMA Quiet ==
  ASSUME Inv, NEW p \in Proc, NEW label \in Label, NEW j, IsJob(j), Moved(p, label, j),
         UNCHANGED tables, Stored(label, j)
  PROVE  Inv'
<1>1. UNCHANGED <<findings, assessment, snapshot>>
  BY DEF tables
<1>2. SnapshotsResolve' /\ Stored(label, j)'
  BY <1>1 DEF Inv, SnapshotsResolve, Stored
<1> QED BY <1>1, <1>2, Step

LEMMA Here == ASSUME Inv, NEW p \in Proc PROVE IsJob(job[p]) /\ Stored(pc[p], job[p])
  BY DEF Inv, LocalsOK

LEMMA BeginKeeps == ASSUME Inv, NEW p \in Proc, Begin(p) PROVE Inv'
<1>1. Moved(p, "load", NoJob) /\ UNCHANGED tables
  BY ContinueMoves DEF Begin
<1>2. Stored("load", NoJob)
  BY NoJobIs DEF Stored, NoMap
<1> QED BY <1>1, <1>2, NoJobIs, Quiet DEF Label

LEMMA LoadKeeps == ASSUME Inv, NEW p \in Proc, Load(p) PROVE Inv'
<1>1. PICK v : Continue(p, "evaluate", [job[p] EXCEPT !.known = v])
  BY DEF Load
<1> DEFINE j == [job[p] EXCEPT !.known = v]
<1>2. IsJob(j) /\ j.final = job[p].final
  BY Here, SetKnown DEF Same
<1>3. Moved(p, "evaluate", j) /\ UNCHANGED tables
  BY <1>1, ContinueMoves DEF Load
<1> HIDE DEF j
<1>4. Stored("evaluate", j)
  BY <1>2, Here DEF Stored
<1> QED BY <1>2, <1>3, <1>4, Quiet DEF Label

LEMMA EvaluateKeeps == ASSUME Inv, NEW p \in Proc, Evaluate(p) PROVE Inv'
<1> DEFINE j == [job[p] EXCEPT !.todo = subject]
<1>1. IsJob(j) /\ j.final = job[p].final
  BY Here, SetTodo DEF Same
<1>2. Moved(p, "next", j) /\ UNCHANGED tables
  BY ContinueMoves DEF Evaluate
<1> HIDE DEF j
<1>3. Stored("next", j)
  BY <1>1, Here DEF Stored
<1> QED BY <1>1, <1>2, <1>3, Quiet DEF Label

LEMMA NextFindingKeeps == ASSUME Inv, NEW p \in Proc, NextFinding(p) PROVE Inv'
<1>1. PICK k \in DOMAIN job[p].todo :
        LET j == [job[p] EXCEPT !.key = k] IN
        IF k \in DOMAIN j.known THEN Continue(p, "get", [j EXCEPT !.id = j.known[k]])
                                ELSE Continue(p, "bump", j)
  BY DEF NextFinding
<1> DEFINE j == [job[p] EXCEPT !.key = k]
           l == [j EXCEPT !.id = j.known[k]]
<1>2. IsJob(j) /\ j.final = job[p].final /\ IsJob(l) /\ l.final = job[p].final
  <2>1. IsJob(j) /\ j.final = job[p].final
    BY Here, SetKey DEF Same
  <2> HIDE DEF j
  <2> QED BY <2>1, SetId DEF Same
<1>3. Moved(p, "get", l) \/ Moved(p, "bump", j)
  BY <1>1, ContinueMoves
<1>4. UNCHANGED tables
  BY DEF NextFinding
<1> HIDE DEF j, l
<1>5. Stored("get", l) /\ Stored("bump", j)
  BY <1>2, Here DEF Stored
<1> QED BY <1>2, <1>3, <1>4, <1>5, Quiet DEF Label

LEMMA NoMoreFindingsKeeps == ASSUME Inv, NEW p \in Proc, NoMoreFindings(p) PROVE Inv'
<1> DEFINE j == [job[p] EXCEPT !.key = NoKey]
<1>1. IsJob(j) /\ j.final = job[p].final
  BY Here, SetKey DEF Same
<1>2. Moved(p, "bump", j) /\ UNCHANGED tables
  BY ContinueMoves DEF NoMoreFindings
<1> HIDE DEF j
<1>3. Stored("bump", j)
  BY <1>1, Here DEF Stored
<1> QED BY <1>1, <1>2, <1>3, Quiet DEF Label

LEMMA BumpKeeps == ASSUME Inv, NEW p \in Proc, Bump(p) PROVE Inv'
<1>1. Moved(p, "read", job[p]) /\ UNCHANGED tables
  BY ContinueMoves DEF Bump
<1>2. Stored("read", job[p])
  BY Here DEF Stored
<1> QED BY <1>1, <1>2, Here, Quiet DEF Label

LEMMA NumberedMoves ==
  ASSUME NEW p, IsJob(job[p]), NEW v, Numbered(p, v)
  PROVE  \E label, j :
           /\ Moved(p, label, j) /\ IsJob(j) /\ j.final = job[p].final /\ j.key = job[p].key
           /\ j.known = job[p].known /\ j.todo = job[p].todo /\ j.new = job[p].new
           /\ IF job[p].key = NoKey THEN label = "assess" /\ j.run = v
                                    ELSE label = "get" /\ j.id = v
<1>1. CASE job[p].key = NoKey
  <2> DEFINE j == [job[p] EXCEPT !.run = v]
  <2>1. /\ IsJob(j) /\ j.final = job[p].final /\ j.key = job[p].key /\ j.known = job[p].known
        /\ j.todo = job[p].todo /\ j.new = job[p].new /\ j.run = v
    BY SetRun DEF Same
  <2>2. Moved(p, "assess", j)
    BY <1>1, ContinueMoves DEF Numbered
  <2> HIDE DEF j
  <2> QED BY <1>1, <2>1, <2>2
<1>2. CASE job[p].key # NoKey
  <2> DEFINE j == [job[p] EXCEPT !.id = v]
  <2>1. /\ IsJob(j) /\ j.final = job[p].final /\ j.key = job[p].key /\ j.known = job[p].known
        /\ j.todo = job[p].todo /\ j.new = job[p].new /\ j.id = v
    BY SetId DEF Same
  <2>2. Moved(p, "get", j)
    BY <1>2, ContinueMoves DEF Numbered
  <2> HIDE DEF j
  <2> QED BY <1>2, <2>1, <2>2
<1> QED BY <1>1, <1>2

LEMMA NumberedKeeps ==
  ASSUME Inv, NEW p \in Proc, NEW v, Numbered(p, v), UNCHANGED tables PROVE Inv'
<1>1. PICK label, j : /\ Moved(p, label, j) /\ IsJob(j) /\ j.final = job[p].final
                      /\ label \in {"assess", "get"}
  BY Here, NumberedMoves
<1>2. Stored(label, j)
  BY <1>1, Here DEF Stored
<1> QED BY <1>1, <1>2, Quiet DEF Label

LEMMA ReadKeeps == ASSUME Inv, NEW p \in Proc, Read(p) PROVE Inv'
  BY NumberedKeeps DEF Read

LEMMA GetKeeps == ASSUME Inv, NEW p \in Proc, Get(p) PROVE Inv'
<1> DEFINE b == job[p].id \in DOMAIN findings
           j == [job[p] EXCEPT !.exists = b]
<1>1. IsJob(j) /\ j.final = job[p].final /\ j.id = job[p].id /\ j.exists = b
  <2> HIDE DEF b
  <2> QED BY Here, SetExists DEF Same
<1>2. Moved(p, "write", j) /\ UNCHANGED tables
  BY ContinueMoves DEF Get
<1> HIDE DEF j
<1>3. Stored("write", j)
  BY <1>1, Here DEF Stored
<1> QED BY <1>1, <1>2, <1>3, Quiet DEF Label

LEMMA SavedIs ==
  ASSUME NEW j, IsJob(j), NEW f
  PROVE  /\ IsJob(Saved(j, f)) /\ Saved(j, f).final = Put(j.final, j.id, f)
         /\ Saved(j, f).todo = Drop(j.todo, j.key) /\ Saved(j, f).known = j.known
         /\ Saved(j, f).new = IF j.key \in DOMAIN j.known THEN j.new ELSE j.new + 1
<1> DEFINE todo == Drop(j.todo, j.key)
           final == Put(j.final, j.id, f)
           new == IF j.key \in DOMAIN j.known THEN j.new ELSE j.new + 1
<1>1. Saved(j, f) = [j EXCEPT !.todo = todo, !.final = final, !.new = new]
  BY DEF Saved
<1> HIDE DEF todo, final, new
<1>2. Saved(j, f) = [known |-> j.known, todo |-> todo, key |-> j.key, id |-> j.id,
                     exists |-> j.exists, final |-> final, new |-> new, run |-> j.run]
  BY <1>1 DEF IsJob
<1>3. /\ IsJob(Saved(j, f)) /\ Saved(j, f).final = final /\ Saved(j, f).todo = todo
      /\ Saved(j, f).known = j.known /\ Saved(j, f).new = new
  BY <1>2 DEF IsJob
<1> QED BY <1>3 DEF todo, final, new

LEMMA WriteKeeps == ASSUME Inv, NEW p \in Proc, Write(p) PROVE Inv'
<1> DEFINE j == job[p]
           f == [key |-> j.key, text |-> j.todo[j.key].text, ev |-> j.todo[j.key].ev]
<1>1. UNCHANGED <<assessment, snapshot>>
  BY DEF Write
<1>2. IsJob(j) /\ DOMAIN j.final \subseteq DOMAIN findings /\ (j.exists => j.id \in DOMAIN findings)
  BY Here DEF Write, Stored
<1>3. CASE ~j.exists /\ j.id \in DOMAIN findings
  <2>1. Moved(p, "idle", NoJob) /\ UNCHANGED tables
    BY <1>1, <1>3, FinishMoves DEF Write, tables
  <2>2. Stored("idle", NoJob)
    BY NoJobIs DEF Stored, NoMap
  <2> QED BY <2>1, <2>2, NoJobIs, Quiet DEF Label
<1>4. CASE ~(~j.exists /\ j.id \in DOMAIN findings)
  <2>1. /\ findings' = IF j.exists THEN [findings EXCEPT ![j.id].text = f.text]
                                   ELSE Put(findings, j.id, f)
        /\ Moved(p, "next", Saved(j, f))
    BY <1>4, ContinueMoves DEF Write
  <2>2. DOMAIN findings' = DOMAIN findings \cup {j.id}
    BY <1>2, <2>1 DEF Put
  <2> HIDE DEF f, j
  <2>3. PICK k : k = Saved(j, f)
    OBVIOUS
  <2>4. IsJob(k) /\ k.final = Put(j.final, j.id, f) /\ Moved(p, "next", k)
    BY <1>2, <2>1, <2>3, SavedIs
  <2>6. DOMAIN k.final = DOMAIN j.final \cup {j.id}
    BY <2>4 DEF Put
  <2>5. Stored("next", k)' /\ SnapshotsResolve'
    BY <1>1, <1>2, <2>2, <2>6 DEF Stored, SnapshotsResolve, Inv
  <2> QED BY <2>2, <2>4, <2>5, Step DEF Label
<1> QED BY <1>3, <1>4

LEMMA SaveAssessmentKeeps == ASSUME Inv, NEW p \in Proc, SaveAssessment(p) PROVE Inv'
<1>1. Moved(p, "stub", job[p]) /\ UNCHANGED <<findings, snapshot>>
  BY ContinueMoves DEF SaveAssessment
<1>2. DOMAIN assessment \subseteq DOMAIN assessment'
  BY DEF SaveAssessment, Insert, Put
<1>3. PICK j : j = job[p]
  OBVIOUS
<1>4. SnapshotsResolve' /\ Stored("stub", j)'
  BY <1>1, <1>2, <1>3, Here DEF SnapshotsResolve, Inv, Stored
<1> QED BY <1>1, <1>3, <1>4, Here, Step DEF Label

LEMMA SaveStubKeeps == ASSUME Inv, NEW p \in Proc, SaveStub(p) PROVE Inv'
<1>1. Moved(p, "snap", job[p]) /\ UNCHANGED <<findings, snapshot>>
  BY ContinueMoves DEF SaveStub
<1>2. DOMAIN assessment \subseteq DOMAIN assessment'
  BY DEF SaveStub, Insert, Put
<1>3. PICK j : j = job[p]
  OBVIOUS
<1>4. SnapshotsResolve' /\ Stored("snap", j)'
  BY <1>1, <1>2, <1>3, Here DEF SnapshotsResolve, Inv, Stored
<1> QED BY <1>1, <1>3, <1>4, Here, Step DEF Label

LEMMA SaveSnapshotKeeps == ASSUME Inv, NEW p \in Proc, SaveSnapshot(p) PROVE Inv'
<1>1. PICK j : j = job[p]
  OBVIOUS
<1>2. /\ Moved(p, "idle", j) /\ UNCHANGED <<findings, assessment>> /\ IsJob(j)
      /\ DOMAIN j.final \subseteq DOMAIN findings
  BY <1>1, FinishMoves, Here DEF SaveSnapshot, Stored
<1>3. SnapshotsResolve'
  <2>1. CASE j.run \in DOMAIN assessment
    <3>1. snapshot' = Insert(snapshot, j.run, j.final)
      BY <1>1, <2>1 DEF SaveSnapshot
    <3>2. /\ DOMAIN snapshot' = DOMAIN snapshot \cup {j.run}
          /\ \A k \in DOMAIN snapshot : snapshot'[k] = snapshot[k]
          /\ j.run \notin DOMAIN snapshot => snapshot'[j.run] = j.final
      BY <3>1 DEF Insert, Put
    <3> QED BY <1>2, <2>1, <3>2 DEF Inv, SnapshotsResolve
  <2>2. CASE j.run \notin DOMAIN assessment
    BY <1>1, <1>2, <2>2 DEF SaveSnapshot, Inv, SnapshotsResolve
  <2> QED BY <2>1, <2>2
<1>4. Stored("idle", j)'
  BY <1>2 DEF Stored
<1> QED BY <1>2, <1>3, <1>4, Step DEF Label

LEMMA ReturnKeeps ==
  ASSUME Inv, NEW p \in Proc, NEW how, Finish(p, how, NoJob), UNCHANGED tables PROVE Inv'
<1>1. Moved(p, "idle", NoJob)
  BY FinishMoves
<1>2. Stored("idle", NoJob)
  BY NoJobIs DEF Stored, NoMap
<1> QED BY <1>1, <1>2, NoJobIs, Quiet DEF Label

LEMMA OnKeeps ==
  ASSUME Inv, NEW p \in Proc, NEW label \in {"idle", "stub", "snap"}, Moved(p, label, job[p]),
         UNCHANGED tables
  PROVE  Inv'
<1>1. Stored(label, job[p])
  BY Here DEF Stored
<1> QED BY <1>1, Here, Quiet DEF Label

LEMMA FaultKeeps == ASSUME Inv, NEW p \in Proc, Fault(p) PROVE Inv'
<1>1. UNCHANGED tables
  BY DEF Fault
<1>2. CASE Finish(p, "err", NoJob)
  BY <1>1, <1>2, ReturnKeeps
<1>3. CASE Numbered(p, 0)
  BY <1>1, <1>3, NumberedKeeps
<1>4. CASE Continue(p, "stub", job[p]) \/ Continue(p, "snap", job[p]) \/ Finish(p, "ok", job[p])
  BY <1>1, <1>4, ContinueMoves, FinishMoves, OnKeeps
<1> QED BY <1>2, <1>3, <1>4 DEF Fault

LEMMA CrashKeeps == ASSUME Inv, NEW p \in Proc, Crash(p) PROVE Inv'
  BY ReturnKeeps DEF Crash

LEMMA ChangeKeeps == ASSUME Inv, Change PROVE Inv'
<1>1. /\ UNCHANGED <<pc, findings, assessment, snapshot>> /\ job' = [p \in Proc |-> NoJob]
      /\ \A p \in Proc : pc[p] = "idle"
  BY DEF Change, tables
<1>2. LocalsOK' /\ SnapshotsResolve'
  BY <1>1, NoJobIs DEF Inv, LocalsOK, SnapshotsResolve
<1>3. \A p \in Proc : Stored(pc[p], job[p])'
  BY <1>1, NoJobIs DEF Stored, NoMap
<1> QED BY <1>2, <1>3 DEF Inv

LEMMA InitInv == Init => Inv
<1> SUFFICES ASSUME Init PROVE Inv
  OBVIOUS
<1>1. LocalsOK
  BY NoJobIs DEF Init, LocalsOK, Label
<1>2. SnapshotsResolve /\ \A p \in Proc : Stored(pc[p], job[p])
  BY NoJobIs DEF Init, SnapshotsResolve, Stored, NoMap
<1> QED BY <1>1, <1>2 DEF Inv

LEMMA NextInv == Inv /\ [Next]_vars => Inv'
<1> SUFFICES ASSUME Inv, [Next]_vars PROVE Inv'
  OBVIOUS
<1>1. CASE UNCHANGED vars
  BY <1>1 DEF Inv, vars, tables, LocalsOK, SnapshotsResolve, Stored
<1>2. CASE Change
  BY <1>2, ChangeKeeps
<1>3. CASE Next /\ ~Change
  <2>1. PICK p \in Proc :
          \/ Begin(p) \/ Load(p) \/ Evaluate(p) \/ NextFinding(p) \/ NoMoreFindings(p)
          \/ Bump(p) \/ Read(p) \/ Get(p) \/ Write(p)
          \/ SaveAssessment(p) \/ SaveStub(p) \/ SaveSnapshot(p) \/ Fault(p) \/ Crash(p)
    BY <1>3 DEF Next
  <2> QED BY <2>1, BeginKeeps, LoadKeeps, EvaluateKeeps, NextFindingKeeps, NoMoreFindingsKeeps,
             BumpKeeps, ReadKeeps, GetKeeps, WriteKeeps, SaveAssessmentKeeps, SaveStubKeeps,
             SaveSnapshotKeeps, FaultKeeps, CrashKeeps
<1> QED BY <1>1, <1>2, <1>3

\* However evaluations interleave, whatever fails and whichever process dies, a
\* snapshot belongs to an assessment and lists findings that are stored.
THEOREM SnapshotsResolveCorrect == Spec => []SnapshotsResolve
<1>1. Inv => SnapshotsResolve
  BY DEF Inv
<1> QED BY <1>1, InitInv, NextInv, PTL DEF Spec

----------------------------------------------------------------------------
(* Types.  Keys are finitely many, as the rules and entities are. *)

Outcome == {"none", "ok", "err", "killed"}

TableTypes ==
  /\ DOMAIN subject \subseteq Key /\ \A k \in DOMAIN subject : subject[k] \in Report
  /\ seq \in [{"finding", "assessment"} -> Nat]
  /\ IsFiniteSet(DOMAIN findings)
  /\ \A i \in DOMAIN findings : i \in Nat /\ findings[i] \in Finding
  /\ \A a \in DOMAIN assessment : a \in Nat /\ assessment[a] \in [total : Nat, new : Nat]
  /\ \A a \in DOMAIN snapshot : \A i \in DOMAIN snapshot[a] : snapshot[a][i] \in Finding

\* A key is counted as new once at most: when it is no longer to be saved.
JobTypes(label, j) ==
  /\ DOMAIN j.todo \subseteq Key /\ \A k \in DOMAIN j.todo : j.todo[k] \in Report
  /\ \A k \in DOMAIN j.known : j.known[k] \in Nat
  /\ IsFiniteSet(DOMAIN j.final) /\ \A i \in DOMAIN j.final : j.final[i] \in Finding
  /\ j.id \in Nat /\ j.run \in Nat
  /\ j.new \in Nat /\ j.new + Cardinality(DOMAIN j.todo) <= Cardinality(Key)
  /\ label \in {"load", "evaluate"} => j.new = 0
  /\ label \in {"get", "write"} => j.key \in DOMAIN j.todo
  /\ label \in {"bump", "read"} => j.key = NoKey \/ j.key \in DOMAIN j.todo

TypeInv == Inv /\ TableTypes /\ \A p \in Proc : JobTypes(pc[p], job[p])

\* The tables are typed and so are the locals of the process that moves.
LEMMA TypeStep ==
  ASSUME TypeInv, Inv', NEW p \in Proc, NEW label \in Label, NEW j, IsJob(j), Moved(p, label, j),
         TableTypes', JobTypes(label, j)
  PROVE  TypeInv'
<1>1. /\ pc'[p] = label /\ job'[p] = j
      /\ \A q \in Proc \ {p} : pc'[q] = pc[q] /\ job'[q] = job[q]
  BY MovedTypes DEF TypeInv, Inv
<1>2. ASSUME NEW q \in Proc PROVE JobTypes(pc[q], job[q])'
  <2>1. CASE q = p
    BY <1>1, <2>1 DEF JobTypes
  <2>2. CASE q # p
    <3>1. JobTypes(pc[q], job[q]) /\ pc'[q] = pc[q] /\ job'[q] = job[q]
      BY <1>1, <2>2 DEF TypeInv
    <3> QED BY <3>1 DEF JobTypes
  <2> QED BY <2>1, <2>2
<1> QED BY <1>2 DEF TypeInv

LEMMA TypeQuiet ==
  ASSUME TypeInv, Inv', NEW p \in Proc, NEW label \in Label, NEW j, IsJob(j), Moved(p, label, j),
         UNCHANGED <<subject, seq, tables>>, JobTypes(label, j)
  PROVE  TypeInv'
<1>1. TableTypes'
  BY DEF TypeInv, TableTypes, tables
<1> QED BY <1>1, TypeStep

LEMMA TypeHere ==
  ASSUME TypeInv, NEW p \in Proc
  PROVE  IsJob(job[p]) /\ JobTypes(pc[p], job[p]) /\ TableTypes /\ Inv
  BY DEF TypeInv, Inv, LocalsOK

LEMMA NoJobTypes == ASSUME IsFiniteSet(Key), NEW label \in {"idle", "load"}
                    PROVE  JobTypes(label, NoJob)
<1>1. Cardinality({}) = 0 /\ IsFiniteSet({}) /\ Cardinality(Key) \in Nat
  BY FS_EmptySet, FS_CardinalityType
<1> QED BY <1>1 DEF JobTypes, NoJob, NoMap

\* A finite set of numbers that is not empty has a greatest one.
LEMMA MaxExists ==
  ASSUME NEW S, IsFiniteSet(S), S \subseteq Nat, S # {}
  PROVE  \E x \in S : \A y \in S : y <= x
<1> DEFINE From(x) == {y \in S : x <= y}
           F == {From(x) : x \in S}
<1>1. ASSUME NEW x \in S PROVE From(x) \in FiniteSubsetsOf(Nat)
  <2>1. From(x) \subseteq S
    OBVIOUS
  <2>2. IsFiniteSet(From(x))
    BY <2>1, FS_Subset
  <2> QED BY <2>1, <2>2 DEF FiniteSubsetsOf
<1>2. F \subseteq FiniteSubsetsOf(Nat) /\ F # {}
  BY <1>1
<1>3. PICK U \in F : \A V \in F : <<V, U>> \notin StrictSubsetOrdering(Nat)
  BY <1>2, WFMin, FS_StrictSubsetOrderingWellFounded
<1>4. PICK x \in S : U = From(x)
  OBVIOUS
<1>5. ASSUME NEW y \in S, ~(y <= x) PROVE FALSE
  <2>1. From(y) \in F /\ From(y) \subseteq From(x)
    <3>1. \A z \in From(y) : z \in S /\ x <= z
      BY <1>5
    <3> QED BY <3>1
  <2>2. x \in From(x) /\ x \notin From(y)
    BY <1>5
  <2>3. From(y) \in SUBSET Nat /\ From(x) \in SUBSET Nat
    OBVIOUS
  <2> HIDE DEF From
  <2>4. <<From(y), From(x)>> \in StrictSubsetOrdering(Nat)
    BY <2>1, <2>2, <2>3 DEF StrictSubsetOrdering
  <2> QED BY <1>3, <1>4, <2>1, <2>4
<1> QED BY <1>5

LEMMA LoadTypes == ASSUME TypeInv, Inv', NEW p \in Proc, Load(p) PROVE TypeInv'
<1> DEFINE Of(k) == {i \in DOMAIN findings : findings[i].key = k}
           known == [k \in {findings[i].key : i \in DOMAIN findings} |->
                       CHOOSE i \in Of(k) : \A h \in Of(k) : h <= i]
           j == [job[p] EXCEPT !.known = known]
<1>1. Moved(p, "evaluate", j) /\ UNCHANGED <<subject, seq, tables>>
  BY ContinueMoves DEF Load
<1>2. ASSUME NEW k \in DOMAIN known PROVE known[k] \in Nat
  <2>1. Of(k) \subseteq DOMAIN findings /\ Of(k) # {}
    OBVIOUS
  <2>2. IsFiniteSet(Of(k)) /\ Of(k) \subseteq Nat
    BY <2>1, TypeHere, FS_Subset DEF TableTypes
  <2>3. known[k] \in Of(k)
    <3> HIDE DEF Of
    <3>1. \E i \in Of(k) : \A h \in Of(k) : h <= i
      BY <2>1, <2>2, MaxExists
    <3> QED BY <3>1
  <2> QED BY <2>2, <2>3
<1> HIDE DEF known
<1>3. Same(j, job[p], {"known"}) /\ j.known = known
  BY TypeHere, SetKnown
<1> HIDE DEF j
<1>4. JobTypes("evaluate", j)
  BY <1>2, <1>3, TypeHere DEF JobTypes, Same, Load
<1> QED BY <1>1, <1>3, <1>4, TypeQuiet DEF Label, Same

LEMMA EvaluateTypes ==
  ASSUME IsFiniteSet(Key), TypeInv, Inv', NEW p \in Proc, Evaluate(p) PROVE TypeInv'
<1> DEFINE j == [job[p] EXCEPT !.todo = subject]
<1>1. Moved(p, "next", j) /\ UNCHANGED <<subject, seq, tables>>
  BY ContinueMoves DEF Evaluate
<1>2. Same(j, job[p], {"todo"}) /\ j.todo = subject
  BY TypeHere, SetTodo
<1> HIDE DEF j
<1>3. DOMAIN subject \subseteq Key /\ \A k \in DOMAIN subject : subject[k] \in Report
  BY TypeHere DEF TableTypes
<1>4. /\ Cardinality(DOMAIN subject) <= Cardinality(Key)
      /\ Cardinality(DOMAIN subject) \in Nat
  BY <1>3, FS_Subset, FS_CardinalityType
<1>5. JobTypes("next", j)
  BY <1>2, <1>3, <1>4, TypeHere DEF JobTypes, Same, Evaluate
<1> QED BY <1>1, <1>2, <1>5, TypeQuiet DEF Label, Same

LEMMA NextFindingTypes ==
  ASSUME TypeInv, Inv', NEW p \in Proc, NextFinding(p) PROVE TypeInv'
<1>1. PICK k \in DOMAIN job[p].todo :
        LET j == [job[p] EXCEPT !.key = k] IN
        IF k \in DOMAIN j.known THEN Continue(p, "get", [j EXCEPT !.id = j.known[k]])
                                ELSE Continue(p, "bump", j)
  BY DEF NextFinding
<1> DEFINE j == [job[p] EXCEPT !.key = k]
           l == [j EXCEPT !.id = j.known[k]]
<1>2. Same(j, job[p], {"key"}) /\ j.key = k
  BY TypeHere, SetKey
<1>3. IF k \in DOMAIN j.known THEN Moved(p, "get", l) ELSE Moved(p, "bump", j)
  BY <1>1, ContinueMoves
<1>4. UNCHANGED <<subject, seq, tables>>
  BY DEF NextFinding
<1> HIDE DEF j
<1>5. Same(l, j, {"id"}) /\ l.id = j.known[k]
  BY <1>2, SetId DEF Same
<1> HIDE DEF l
<1>6. JobTypes("bump", j) /\ (k \in DOMAIN j.known => JobTypes("get", l))
  BY <1>2, <1>5, TypeHere DEF JobTypes, Same
<1> QED BY <1>2, <1>3, <1>4, <1>5, <1>6, TypeQuiet DEF Label, Same

LEMMA NoMoreFindingsTypes ==
  ASSUME TypeInv, Inv', NEW p \in Proc, NoMoreFindings(p) PROVE TypeInv'
<1> DEFINE j == [job[p] EXCEPT !.key = NoKey]
<1>1. Moved(p, "bump", j) /\ UNCHANGED <<subject, seq, tables>>
  BY ContinueMoves DEF NoMoreFindings
<1>2. Same(j, job[p], {"key"}) /\ j.key = NoKey
  BY TypeHere, SetKey
<1> HIDE DEF j
<1>3. JobTypes("bump", j)
  BY <1>2, TypeHere DEF JobTypes, Same
<1> QED BY <1>1, <1>2, <1>3, TypeQuiet DEF Label, Same

LEMMA BumpTypes == ASSUME TypeInv, Inv', NEW p \in Proc, Bump(p) PROVE TypeInv'
<1>1. PICK j : j = job[p]
  OBVIOUS
<1>2. Moved(p, "read", j) /\ UNCHANGED <<subject, tables>> /\ pc[p] = "bump"
  BY <1>1, ContinueMoves DEF Bump
<1>3. seq' \in [{"finding", "assessment"} -> Nat]
  BY TypeHere DEF Bump, TableTypes, SeqOf
<1>4. TableTypes'
  BY <1>2, <1>3, TypeHere DEF TableTypes, tables
<1>5. IsJob(j) /\ JobTypes("read", j)
  BY <1>1, <1>2, TypeHere DEF JobTypes
<1> QED BY <1>2, <1>4, <1>5, TypeStep DEF Label

\* Whatever number is drawn.
LEMMA NumberedTypes ==
  ASSUME TypeInv, Inv', NEW p \in Proc, NEW v \in Nat, Numbered(p, v), pc[p] \in {"bump", "read"},
         UNCHANGED <<subject, seq, tables>>
  PROVE  TypeInv'
<1>1. PICK j : j = job[p]
  OBVIOUS
<1>2. IsJob(j) /\ JobTypes(pc[p], j)
  BY <1>1, TypeHere
<1>3. CASE j.key = NoKey
  <2> DEFINE k == [j EXCEPT !.run = v]
  <2>1. Moved(p, "assess", k)
    BY <1>1, <1>3, ContinueMoves DEF Numbered
  <2>2. Same(k, j, {"run"}) /\ k.run = v
    BY <1>2, SetRun
  <2> HIDE DEF k
  <2>3. JobTypes("assess", k)
    BY <1>2, <2>2 DEF JobTypes, Same
  <2> QED BY <2>1, <2>2, <2>3, TypeQuiet DEF Label, Same
<1>4. CASE j.key # NoKey
  <2> DEFINE k == [j EXCEPT !.id = v]
  <2>1. Moved(p, "get", k)
    BY <1>1, <1>4, ContinueMoves DEF Numbered
  <2>2. Same(k, j, {"id"}) /\ k.id = v
    BY <1>2, SetId
  <2> HIDE DEF k
  <2>3. JobTypes("get", k)
    BY <1>2, <1>4, <2>2 DEF JobTypes, Same
  <2> QED BY <2>1, <2>2, <2>3, TypeQuiet DEF Label, Same
<1> QED BY <1>3, <1>4

LEMMA GetTypes == ASSUME TypeInv, Inv', NEW p \in Proc, Get(p) PROVE TypeInv'
<1>1. PICK b : b = (job[p].id \in DOMAIN findings)
  OBVIOUS
<1> DEFINE j == [job[p] EXCEPT !.exists = b]
<1>2. Moved(p, "write", j) /\ UNCHANGED <<subject, seq, tables>> /\ pc[p] = "get"
  BY <1>1, ContinueMoves DEF Get
<1>3. Same(j, job[p], {"exists"})
  BY TypeHere, SetExists
<1> HIDE DEF j
<1>4. JobTypes("write", j)
  BY <1>2, <1>3, TypeHere DEF JobTypes, Same
<1> QED BY <1>2, <1>3, <1>4, TypeQuiet DEF Label, Same

LEMMA WriteTypes ==
  ASSUME IsFiniteSet(Key), TypeInv, Inv', NEW p \in Proc, Write(p) PROVE TypeInv'
<1> DEFINE f == [key |-> job[p].key, text |-> job[p].todo[job[p].key].text,
                 ev |-> job[p].todo[job[p].key].ev]
<1>1. PICK j : j = job[p]
  OBVIOUS
<1>2. /\ IsJob(j) /\ JobTypes("write", j) /\ (j.exists => j.id \in DOMAIN findings)
      /\ UNCHANGED <<subject, seq, assessment, snapshot>>
  BY <1>1, TypeHere DEF Write, Inv, Stored
<1>3. f \in Finding
  <2>1. j.todo[j.key] \in Report /\ j.key \in Key
    BY <1>2 DEF JobTypes
  <2> QED BY <1>1, <2>1 DEF Report, Finding
<1> HIDE DEF f
<1>4. CASE Finish(p, "err", NoJob) /\ UNCHANGED findings
  <2>1. Moved(p, "idle", NoJob) /\ UNCHANGED <<subject, seq, tables>>
    BY <1>2, <1>4, FinishMoves DEF tables
  <2> QED BY <2>1, NoJobIs, NoJobTypes, TypeQuiet DEF Label
<1>5. CASE /\ findings' = IF j.exists THEN [findings EXCEPT ![j.id].text = f.text]
                                      ELSE Put(findings, j.id, f)
           /\ Continue(p, "next", Saved(j, f))
  <2>1. PICK k : k = Saved(j, f)
    OBVIOUS
  <2>2. Moved(p, "next", k)
    BY <1>5, <2>1, ContinueMoves
  <2>3. /\ IsJob(k) /\ k.final = Put(j.final, j.id, f) /\ k.todo = Drop(j.todo, j.key)
        /\ k.known = j.known
        /\ k.new = IF j.key \in DOMAIN j.known THEN j.new ELSE j.new + 1
        /\ k.id = j.id /\ k.run = j.run
    BY <1>2, <2>1, SavedIs DEF Saved, IsJob
  <2>4. TableTypes'
    <3>1. TableTypes /\ j.id \in Nat
      BY <1>2, TypeHere DEF JobTypes
    <3>2. DOMAIN findings' = DOMAIN findings \cup {j.id}
      BY <1>2, <1>5 DEF Put
    <3>3. IsFiniteSet(DOMAIN findings')
      BY <3>1, <3>2, FS_AddElement DEF TableTypes
    <3>4. ASSUME NEW i \in DOMAIN findings' PROVE i \in Nat /\ findings'[i] \in Finding
      <4>1. CASE j.exists
        <5>1. /\ i \in DOMAIN findings /\ findings[i] \in Finding /\ i \in Nat
              /\ findings' = [findings EXCEPT ![j.id].text = f.text]
          BY <1>2, <1>5, <3>1, <3>4, <4>1 DEF TableTypes
        <5>2. f.text \in Text
          BY <1>3 DEF Finding
        <5> QED BY <5>1, <5>2 DEF Finding
      <4>2. CASE ~j.exists
        <5>1. findings' = Put(findings, j.id, f)
          BY <1>5, <4>2
        <5> QED BY <1>3, <3>1, <3>4, <5>1 DEF Put, TableTypes
      <4> QED BY <4>1, <4>2
    <3> QED BY <1>2, <3>1, <3>3, <3>4 DEF TableTypes
  <2>5. JobTypes("next", k)
    <3>1. /\ DOMAIN k.todo = DOMAIN j.todo \ {j.key}
          /\ \A x \in DOMAIN k.todo : k.todo[x] = j.todo[x]
      BY <2>3 DEF Drop
    <3>2. DOMAIN j.todo \subseteq Key /\ j.key \in DOMAIN j.todo
      BY <1>2 DEF JobTypes
    <3>3. IsFiniteSet(DOMAIN j.todo) /\ Cardinality(DOMAIN j.todo) \in Nat
      BY <3>2, FS_Subset, FS_CardinalityType
    <3>4. Cardinality(DOMAIN k.todo) = Cardinality(DOMAIN j.todo) - 1
      BY <3>1, <3>2, <3>3, FS_RemoveElement
    <3>5. Cardinality(Key) \in Nat
      BY FS_CardinalityType
    <3>6. k.new \in Nat /\ k.new + Cardinality(DOMAIN k.todo) <= Cardinality(Key)
      BY <1>2, <2>3, <3>3, <3>4, <3>5 DEF JobTypes
    <3>7. DOMAIN k.final = DOMAIN j.final \cup {j.id}
      BY <2>3 DEF Put
    <3>8. IsFiniteSet(DOMAIN k.final)
      BY <1>2, <3>7, FS_AddElement DEF JobTypes
    <3>9. \A i \in DOMAIN k.final : k.final[i] \in Finding
      BY <1>2, <1>3, <2>3 DEF JobTypes, Put
    <3> QED BY <1>2, <2>3, <3>1, <3>2, <3>6, <3>8, <3>9 DEF JobTypes
  <2> QED BY <2>2, <2>3, <2>4, <2>5, TypeStep DEF Label
<1> QED BY <1>1, <1>4, <1>5 DEF Write, f

\* A row of counts, whether it is inserted or there is one.
LEMMA AssessmentTypes ==
  ASSUME TypeInv, NEW p \in Proc, NEW row \in [total : Nat, new : Nat],
         assessment' = Insert(assessment, job[p].run, row),
         UNCHANGED <<subject, seq, findings, snapshot>>
  PROVE  TableTypes'
<1>1. job[p].run \in Nat /\ TableTypes
  BY TypeHere DEF JobTypes
<1>2. ASSUME NEW a \in DOMAIN assessment'
      PROVE  a \in Nat /\ assessment'[a] \in [total : Nat, new : Nat]
  BY <1>1, <1>2 DEF Insert, Put, TableTypes
<1> QED BY <1>1, <1>2 DEF TableTypes

LEMMA SaveAssessmentTypes ==
  ASSUME TypeInv, Inv', NEW p \in Proc, SaveAssessment(p) PROVE TypeInv'
<1>1. PICK j : j = job[p]
  OBVIOUS
<1>2. IsJob(j) /\ JobTypes(pc[p], j)
  BY <1>1, TypeHere
<1>3. Cardinality(DOMAIN j.final) \in Nat /\ j.new \in Nat
  BY <1>2, FS_CardinalityType DEF JobTypes
<1>4. Moved(p, "stub", j) /\ UNCHANGED <<subject, seq, findings, snapshot>>
  BY <1>1, ContinueMoves DEF SaveAssessment
<1>5. PICK row : row = [total |-> Cardinality(DOMAIN j.final), new |-> j.new]
  OBVIOUS
<1>6. row \in [total : Nat, new : Nat] /\ assessment' = Insert(assessment, job[p].run, row)
  BY <1>1, <1>3, <1>5 DEF SaveAssessment
<1>7. TableTypes'
  BY <1>4, <1>6, AssessmentTypes
<1>8. JobTypes("stub", j)
  BY <1>2 DEF JobTypes
<1> QED BY <1>2, <1>4, <1>7, <1>8, TypeStep DEF Label

LEMMA SaveStubTypes == ASSUME TypeInv, Inv', NEW p \in Proc, SaveStub(p) PROVE TypeInv'
<1>1. PICK j : j = job[p]
  OBVIOUS
<1>2. IsJob(j) /\ JobTypes("snap", j)
  BY <1>1, TypeHere DEF JobTypes
<1>3. Moved(p, "snap", j) /\ UNCHANGED <<subject, seq, findings, snapshot>>
  BY <1>1, ContinueMoves DEF SaveStub
<1>4. PICK row : row = [total |-> 0, new |-> 0]
  OBVIOUS
<1>5. row \in [total : Nat, new : Nat] /\ assessment' = Insert(assessment, job[p].run, row)
  BY <1>4 DEF SaveStub
<1>6. TableTypes'
  BY <1>3, <1>5, AssessmentTypes
<1> QED BY <1>2, <1>3, <1>6, TypeStep DEF Label

LEMMA SaveSnapshotTypes == ASSUME TypeInv, Inv', NEW p \in Proc, SaveSnapshot(p) PROVE TypeInv'
<1>1. PICK j : j = job[p]
  OBVIOUS
<1>2. IsJob(j) /\ JobTypes("idle", j) /\ TableTypes
  BY <1>1, TypeHere DEF JobTypes
<1>3. Moved(p, "idle", j) /\ UNCHANGED <<subject, seq, findings, assessment>>
  BY <1>1, FinishMoves DEF SaveSnapshot
<1>4. snapshot' = Insert(snapshot, j.run, j.final) \/ snapshot' = snapshot
  BY <1>1 DEF SaveSnapshot
<1>5. ASSUME NEW a \in DOMAIN snapshot', NEW i \in DOMAIN snapshot'[a]
      PROVE  snapshot'[a][i] \in Finding
  <2>1. (a \in DOMAIN snapshot /\ snapshot'[a] = snapshot[a]) \/ snapshot'[a] = j.final
    BY <1>4, <1>5 DEF Insert, Put
  <2> QED BY <1>2, <1>5, <2>1 DEF TableTypes, JobTypes
<1>6. TableTypes'
  BY <1>2, <1>3, <1>5 DEF TableTypes
<1> QED BY <1>2, <1>3, <1>6, TypeStep DEF Label

LEMMA ReturnTypes ==
  ASSUME IsFiniteSet(Key), TypeInv, Inv', NEW p \in Proc, NEW how, Finish(p, how, NoJob),
         UNCHANGED <<subject, seq, tables>>
  PROVE  TypeInv'
<1>1. Moved(p, "idle", NoJob)
  BY FinishMoves
<1> QED BY <1>1, NoJobIs, NoJobTypes, TypeQuiet DEF Label

LEMMA FaultTypes ==
  ASSUME IsFiniteSet(Key), TypeInv, Inv', NEW p \in Proc, Fault(p) PROVE TypeInv'
<1>1. UNCHANGED <<subject, seq, tables>>
  BY DEF Fault
<1>2. CASE Finish(p, "err", NoJob)
  BY <1>1, <1>2, ReturnTypes
<1>3. CASE pc[p] \in {"bump", "read"} /\ Numbered(p, 0)
  BY <1>1, <1>3, NumberedTypes
<1>4. CASE \/ Continue(p, "stub", job[p]) \/ Continue(p, "snap", job[p])
           \/ Finish(p, "ok", job[p])
  <2>1. PICK label \in {"stub", "snap", "idle"} : Moved(p, label, job[p])
    BY <1>4, ContinueMoves, FinishMoves
  <2>2. JobTypes(label, job[p])
    BY TypeHere DEF JobTypes
  <2> QED BY <1>1, <2>1, <2>2, TypeHere, TypeQuiet DEF Label
<1> QED BY <1>2, <1>3, <1>4 DEF Fault

LEMMA ChangeTypes ==
  ASSUME IsFiniteSet(Key), TypeInv, Inv', Change PROVE TypeInv'
<1>1. TableTypes /\ UNCHANGED <<seq, findings, assessment, snapshot>>
  BY DEF TypeInv, Change, tables
<1>2. DOMAIN subject' \subseteq Key /\ \A k \in DOMAIN subject' : subject'[k] \in Report
  <2>1. PICK k \in Key : \/ \E r \in Report : subject' = Put(subject, k, r)
                         \/ subject' = Drop(subject, k)
    BY DEF Change
  <2>2. CASE subject' = Drop(subject, k)
    BY <1>1, <2>2 DEF Drop, TableTypes
  <2>3. CASE \E r \in Report : subject' = Put(subject, k, r)
    <3>1. PICK r \in Report : subject' = Put(subject, k, r)
      BY <2>3
    <3> QED BY <1>1, <3>1 DEF Put, TableTypes
  <2> QED BY <2>1, <2>2, <2>3
<1>3. TableTypes'
  BY <1>1, <1>2 DEF TableTypes
<1>4. ASSUME NEW q \in Proc PROVE JobTypes(pc'[q], job'[q])
  BY NoJobTypes DEF Change
<1> QED BY <1>3, <1>4 DEF TypeInv, JobTypes

LEMMA InitTypes == ASSUME IsFiniteSet(Key) PROVE Init => TypeInv
<1> SUFFICES ASSUME Init PROVE TypeInv
  OBVIOUS
<1>1. TableTypes
  BY FS_EmptySet DEF Init, TableTypes, NoMap
<1>2. \A p \in Proc : JobTypes(pc[p], job[p])
  BY NoJobTypes DEF Init
<1> QED BY <1>1, <1>2, InitInv DEF TypeInv

LEMMA NextTypes == ASSUME IsFiniteSet(Key) PROVE TypeInv /\ [Next]_vars => TypeInv'
<1> SUFFICES ASSUME TypeInv, [Next]_vars PROVE TypeInv'
  OBVIOUS
<1>1. Inv'
  BY NextInv DEF TypeInv
<1>2. CASE UNCHANGED vars
  BY <1>1, <1>2 DEF TypeInv, TableTypes, JobTypes, vars, tables
<1>3. CASE Change
  BY <1>1, <1>3, ChangeTypes
<1>4. CASE Next /\ ~Change
  <2>1. PICK p \in Proc :
          \/ Begin(p) \/ Load(p) \/ Evaluate(p) \/ NextFinding(p) \/ NoMoreFindings(p)
          \/ Bump(p) \/ Read(p) \/ Get(p) \/ Write(p)
          \/ SaveAssessment(p) \/ SaveStub(p) \/ SaveSnapshot(p) \/ Fault(p) \/ Crash(p)
    BY <1>4 DEF Next
  <2>2. CASE Begin(p)
    <3>1. Moved(p, "load", NoJob) /\ UNCHANGED <<subject, seq, tables>>
      BY <2>2, ContinueMoves DEF Begin
    <3> QED BY <1>1, <3>1, NoJobIs, NoJobTypes, TypeQuiet DEF Label
  <2>3. CASE Read(p)
    <3>1. seq[SeqOf(job[p])] \in Nat
      BY TypeHere DEF TableTypes, SeqOf
    <3> QED BY <1>1, <2>3, <3>1, NumberedTypes DEF Read
  <2>4. CASE Crash(p)
    BY <1>1, <2>4, ReturnTypes DEF Crash
  <2> QED BY <1>1, <2>1, <2>2, <2>3, <2>4, LoadTypes, EvaluateTypes, NextFindingTypes,
             NoMoreFindingsTypes, BumpTypes, GetTypes, WriteTypes, SaveAssessmentTypes,
             SaveStubTypes, SaveSnapshotTypes, FaultTypes
<1> QED BY <1>2, <1>3, <1>4

\* How a call ended.
OutcomeOK == outcome \in [Proc -> Outcome]

LEMMA OutcomeTypes == OutcomeOK /\ [Next]_vars => OutcomeOK'
<1> SUFFICES ASSUME outcome \in [Proc -> Outcome], [Next]_vars
             PROVE  outcome' \in [Proc -> Outcome]
  BY DEF OutcomeOK
<1>1. ASSUME NEW p \in Proc, NEW how \in Outcome, NEW j, Finish(p, how, j)
      PROVE  outcome' \in [Proc -> Outcome]
  BY <1>1 DEF Finish
<1>2. ASSUME NEW p, NEW label, NEW j, Continue(p, label, j) PROVE outcome' \in [Proc -> Outcome]
  BY <1>2 DEF Continue
<1>3. ASSUME NEW p, NEW v, Numbered(p, v) PROVE outcome' \in [Proc -> Outcome]
  BY <1>2, <1>3 DEF Numbered
<1>4. {"ok", "err", "killed"} \subseteq Outcome
  BY DEF Outcome
<1>5. CASE UNCHANGED vars
  BY <1>5 DEF vars
<1>6. CASE Change
  BY <1>6 DEF Change, Outcome
<1>7. CASE Next /\ ~Change
  <2>1. PICK p \in Proc :
          \/ Begin(p) \/ Load(p) \/ Evaluate(p) \/ NextFinding(p) \/ NoMoreFindings(p)
          \/ Bump(p) \/ Read(p) \/ Get(p) \/ Write(p)
          \/ SaveAssessment(p) \/ SaveStub(p) \/ SaveSnapshot(p) \/ Fault(p) \/ Crash(p)
    BY <1>7 DEF Next
  <2>2. CASE \/ Begin(p) \/ Load(p) \/ Evaluate(p) \/ NextFinding(p) \/ NoMoreFindings(p)
             \/ Bump(p) \/ Read(p) \/ Get(p) \/ SaveAssessment(p) \/ SaveStub(p)
    BY <1>2, <1>3, <2>2
       DEF Begin, Load, Evaluate, NextFinding, NoMoreFindings, Bump, Read, Get,
           SaveAssessment, SaveStub
  <2>3. CASE Write(p) \/ SaveSnapshot(p) \/ Fault(p) \/ Crash(p)
    BY <1>1, <1>2, <1>3, <1>4, <2>3 DEF Write, SaveSnapshot, Fault, Crash
  <2> QED BY <2>1, <2>2, <2>3
<1> QED BY <1>5, <1>6, <1>7

\* Tables and locals are of their types, and no evaluation counts more findings as
\* new than there are keys.  A workspace has finitely many of them.
THEOREM TypeCorrect == ASSUME IsFiniteSet(Key) PROVE Spec => []TypeOK
<1>1. Init => OutcomeOK
  BY DEF Init, Outcome, OutcomeOK
<1>2. TypeInv /\ OutcomeOK => TypeOK
  <2> SUFFICES ASSUME TypeInv, outcome \in [Proc -> Outcome] PROVE TypeOK
    BY DEF OutcomeOK
  <2>1. pc \in [Proc -> Label] /\ TableTypes
    BY DEF TypeInv, Inv, LocalsOK
  <2>2. ASSUME NEW p \in Proc
        PROVE  DOMAIN job[p].todo \subseteq Key /\ job[p].new \in 0 .. Cardinality(Key)
    <3>1. JobTypes(pc[p], job[p])
      BY TypeHere
    <3>2. IsFiniteSet(DOMAIN job[p].todo)
      BY <3>1, FS_Subset DEF JobTypes
    <3>3. Cardinality(DOMAIN job[p].todo) \in Nat /\ Cardinality(Key) \in Nat
      BY <3>2, FS_CardinalityType
    <3> QED BY <3>1, <3>3 DEF JobTypes
  <2> QED BY <2>1, <2>2 DEF TypeOK, TableTypes, Label, Outcome
<1>3. Init => TypeInv
  BY InitTypes
<1>4. TypeInv /\ [Next]_vars => TypeInv'
  BY NextTypes
<1> QED BY <1>1, <1>2, <1>3, <1>4, OutcomeTypes, PTL DEF Spec

----------------------------------------------------------------------------
(* With one process, the stored findings are the ones its evaluation loaded, so  *)
(* a finding keeps its row, all that the rules report is stored and listed, and  *)
(* the counts agree.                                                             *)

Alone == \A p, q \in Proc : p = q

----------------------------------------------------------------------------
(* The invariant *)

IsFinding(f) == f = [key |-> f.key, text |-> f.text, ev |-> f.ev]

TablesOK ==
  /\ seq \in [{"finding", "assessment"} -> Nat]
  /\ \A i \in DOMAIN findings :
       IsFinding(findings[i]) /\ i \in Nat /\ i <= seq["finding"]
  /\ \A a \in DOMAIN assessment : a \in Nat /\ a <= seq["assessment"]
  /\ IsFiniteSet(DOMAIN subject) /\ DOMAIN subject \subseteq Key
  /\ faults \in Nat /\ DOMAIN outcome = Proc

\* The findings an evaluation loaded are where it found them.
KnownOK(j) == \A k \in DOMAIN j.known : j.known[k] \in DOMAIN findings
                                     /\ findings[j.known[k]].key = k

Saving == {"next", "bump", "read", "get", "write"}
Recording == {"assess", "stub", "snap"}

\* A finding about to be saved was loaded, or has no row; its number is free.
MatchOK(label, j) ==
  /\ label = "evaluate" => \A i \in DOMAIN findings : findings[i].key \in DOMAIN j.known
  /\ label \in Saving => \A k \in DOMAIN j.todo :
       k \in DOMAIN j.known \/ \A i \in DOMAIN findings : findings[i].key # k
  /\ label \in {"bump", "read"} =>
       IF j.key = NoKey THEN DOMAIN j.todo = {}
                        ELSE j.key \in DOMAIN j.todo /\ j.key \notin DOMAIN j.known
  /\ label = "read" =>
       IF j.key = NoKey THEN \A a \in DOMAIN assessment : a < seq["assessment"]
                        ELSE \A i \in DOMAIN findings : i < seq["finding"]
  /\ label \in {"get", "write"} =>
       /\ j.key \in DOMAIN j.todo
       /\ j.id \in Nat /\ j.id <= seq["finding"]
       /\ IF j.key \in DOMAIN j.known THEN j.id = j.known[j.key] ELSE j.id \notin DOMAIN findings
  /\ label = "write" => j.exists = (j.id \in DOMAIN findings)

\* A finding that is no longer to be saved is stored and listed.
ListedOK(j) ==
  \A k \in DOMAIN subject \ DOMAIN j.todo : \E i \in DOMAIN j.final :
    /\ findings[i].key = k /\ findings[i].text = subject[k].text
    /\ j.final[i] = [key |-> k, text |-> subject[k].text, ev |-> subject[k].ev]

CountOK(j) ==
  /\ IsFiniteSet(DOMAIN j.final)
  /\ j.new \in Nat /\ j.new <= Cardinality(DOMAIN j.final)

ProgressOK(label, j) ==
  /\ CountOK(j)
  /\ label \in {"load", "evaluate"} => DOMAIN j.final = {}
  /\ label \in Recording => DOMAIN j.todo = {}
  /\ label \in Saving \cup Recording =>
       /\ DOMAIN j.todo \subseteq DOMAIN subject
       /\ \A k \in DOMAIN j.todo : j.todo[k] = subject[k]
       /\ Cardinality(DOMAIN j.final) + Cardinality(DOMAIN j.todo) = Cardinality(DOMAIN subject)
       /\ \A i \in DOMAIN j.final : findings[i].key \notin DOMAIN j.todo
       /\ ListedOK(j)

\* The assessment of the run is recorded as it will be counted.
RecordOK(label, j) ==
  /\ label \in Recording => j.run \in Nat /\ j.run <= seq["assessment"]
  /\ faults = 0 =>
       /\ label = "assess" => j.run \notin DOMAIN assessment
       /\ label \in {"stub", "snap"} =>
            /\ j.run \in DOMAIN assessment /\ j.run \notin DOMAIN snapshot
            /\ assessment[j.run] = [total |-> Cardinality(DOMAIN j.final), new |-> j.new]

LoneOK(label, j) ==
  KnownOK(j) /\ MatchOK(label, j) /\ ProgressOK(label, j) /\ RecordOK(label, j)

Good == TablesOK /\ OneFindingPerKey /\ CountsAgree

LoneInv == Inv /\ Good /\ ReportedIsStored /\ \A p \in Proc : LoneOK(pc[p], job[p])

----------------------------------------------------------------------------
(* Steps *)

LEMMA LoneStep ==
  ASSUME Alone, LoneInv, NEW p \in Proc, NEW label \in Label, NEW j, IsJob(j),
         Moved(p, label, j), Inv', Good', LoneOK(label, j)',
         label # "idle" \/ ReportedIsStored'
  PROVE  LoneInv'
<1>1. pc'[p] = label /\ job'[p] = j
  BY MovedTypes DEF LoneInv, Inv
<1>2. \A q \in Proc : LoneOK(pc[q], job[q])'
  BY <1>1 DEF Alone
<1>3. ReportedIsStored'
  <2>1. CASE label # "idle"
    <3>1. \A q \in Proc : ~Done(q)'
      BY <1>1, <2>1 DEF Alone, Done
    <3> QED BY <3>1 DEF ReportedIsStored, Done
  <2>2. CASE label = "idle"
    BY <2>2
  <2> QED BY <2>1, <2>2
<1> QED BY <1>2, <1>3 DEF LoneInv

LEMMA OutcomeKept ==
  ASSUME TablesOK, NEW p, NEW label, NEW j, Continue(p, label, j) \/ Finish(p, label, j)
  PROVE  DOMAIN outcome' = Proc
  BY DEF TablesOK, Continue, Finish

\* Nothing that the properties speak of changes.
LEMMA GoodStays ==
  ASSUME Good, UNCHANGED <<subject, seq, findings, assessment, snapshot>>,
         DOMAIN outcome' = Proc, faults' \in Nat, faults' = 0 => faults = 0
  PROVE  Good'
<1>1. TablesOK'
  BY DEF Good, TablesOK
<1>2. OneFindingPerKey' /\ CountsAgree'
  BY DEF Good, OneFindingPerKey, CountsAgree
<1> QED BY <1>1, <1>2 DEF Good

LEMMA LoneStays ==
  ASSUME NEW label, NEW j, LoneOK(label, j),
         UNCHANGED <<subject, seq, findings, assessment, snapshot>>, faults' = 0 => faults = 0
  PROVE  LoneOK(label, j)'
<1>1. KnownOK(j)' /\ MatchOK(label, j)'
  BY DEF LoneOK, KnownOK, MatchOK
<1>2. ProgressOK(label, j)'
  BY DEF LoneOK, ProgressOK, CountOK, ListedOK
<1>3. RecordOK(label, j)'
  BY DEF LoneOK, RecordOK
<1> QED BY <1>1, <1>2, <1>3 DEF LoneOK

LEMMA LoneQuiet ==
  ASSUME Alone, LoneInv, NEW p \in Proc, NEW label \in Label \ {"idle"}, NEW j, IsJob(j),
         Continue(p, label, j), UNCHANGED <<subject, seq, tables, faults>>, Inv', LoneOK(label, j)
  PROVE  LoneInv'
<1>1. UNCHANGED <<subject, seq, findings, assessment, snapshot, faults>>
  BY DEF tables
<1>2. Good'
  BY <1>1, OutcomeKept, GoodStays DEF LoneInv, Good, TablesOK
<1>3. LoneOK(label, j)'
  BY <1>1, LoneStays
<1> QED BY <1>2, <1>3, ContinueMoves, LoneStep

LEMMA Rest ==
  /\ LoneOK("idle", NoJob) /\ LoneOK("load", NoJob)
<1>1. IsFiniteSet({}) /\ Cardinality({}) = 0
  BY FS_EmptySet
<1>2. DOMAIN NoMap = {}
  BY DEF NoMap
<1>3. CountOK(NoJob)
  BY <1>1, <1>2, NoJobIs DEF CountOK
<1>4. KnownOK(NoJob)
  BY <1>2, NoJobIs DEF KnownOK
<1> QED BY <1>2, <1>3, <1>4, NoJobIs
        DEF LoneOK, MatchOK, ProgressOK, RecordOK, Saving, Recording

\* The call ends without a result.
LEMMA LoneReturn ==
  ASSUME Alone, LoneInv, NEW p \in Proc, NEW how \in {"err", "killed"}, Finish(p, how, NoJob),
         UNCHANGED <<subject, seq, tables>>, faults' \in Nat, faults' = 0 => faults = 0, Inv'
  PROVE  LoneInv'
<1>1. UNCHANGED <<subject, seq, findings, assessment, snapshot>>
  BY DEF tables
<1>2. Good'
  BY <1>1, OutcomeKept, GoodStays DEF LoneInv, Good
<1>3. LoneOK("idle", NoJob)'
  BY <1>1, Rest, LoneStays
<1>4. ReportedIsStored'
  <2>1. outcome'[p] = how
    BY DEF Finish, LoneInv, Good, TablesOK
  <2>2. \A q \in Proc : ~Done(q)'
    BY <2>1 DEF Alone, Done
  <2> QED BY <2>2 DEF ReportedIsStored
<1> QED BY <1>2, <1>3, <1>4, FinishMoves, NoJobIs, LoneStep DEF Label

LEMMA LoneHere ==
  ASSUME LoneInv, NEW p \in Proc
  PROVE  IsJob(job[p]) /\ LoneOK(pc[p], job[p]) /\ Stored(pc[p], job[p]) /\ Good
  BY Here DEF LoneInv

----------------------------------------------------------------------------
(* Up to the numbering of a finding *)

LEMMA BeginAlone == ASSUME Alone, LoneInv, NEW p \in Proc, Begin(p) PROVE LoneInv'
<1>1. Continue(p, "load", NoJob) /\ UNCHANGED <<subject, seq, tables, faults>> /\ Inv'
  BY BeginKeeps DEF Begin, LoneInv
<1> QED BY <1>1, Rest, NoJobIs, LoneQuiet DEF Label

LEMMA LoadAlone == ASSUME Alone, LoneInv, NEW p \in Proc, Load(p) PROVE LoneInv'
<1> DEFINE Of(k) == {i \in DOMAIN findings : findings[i].key = k}
           Keys == {findings[i].key : i \in DOMAIN findings}
           known == [k \in Keys |-> CHOOSE i \in Of(k) : \A h \in Of(k) : h <= i]
           j == [job[p] EXCEPT !.known = known]
<1>1. /\ Continue(p, "evaluate", j) /\ UNCHANGED <<subject, seq, tables, faults>> /\ Inv'
      /\ LoneOK("load", job[p]) /\ IsJob(job[p])
  BY LoadKeeps, LoneHere DEF Load, counts, LoneInv
<1>2. \A k \in Keys : known[k] \in DOMAIN findings /\ findings[known[k]].key = k
  <2> TAKE k \in Keys
  <2>1. PICK i \in DOMAIN findings : findings[i].key = k
    OBVIOUS
  <2>2. \A h \in Of(k) : h = i
    BY <2>1 DEF LoneInv, Good, OneFindingPerKey
  <2>3. i \in Nat
    BY DEF LoneInv, Good, TablesOK
  <2>4. i \in Of(k) /\ \A h \in Of(k) : h <= i
    BY <2>1, <2>2, <2>3
  <2>5. known[k] \in Of(k)
    BY <2>4
  <2> QED BY <2>5
<1>3. DOMAIN known = Keys
  OBVIOUS
<1> HIDE DEF known
<1>4. Same(j, job[p], {"known"}) /\ j.known = known
  BY <1>1, SetKnown
<1> HIDE DEF j
<1>5. KnownOK(j)
  BY <1>2, <1>3, <1>4 DEF KnownOK
<1>6. MatchOK("evaluate", j)
  BY <1>3, <1>4 DEF MatchOK, Saving
<1>7. ProgressOK("evaluate", j) /\ RecordOK("evaluate", j)
  BY <1>1, <1>4 DEF Same, LoneOK, ProgressOK, RecordOK, CountOK, Saving, Recording
<1> QED BY <1>1, <1>4, <1>5, <1>6, <1>7, LoneQuiet DEF LoneOK, Label, Same

LEMMA EvaluateAlone == ASSUME Alone, LoneInv, NEW p \in Proc, Evaluate(p) PROVE LoneInv'
<1> DEFINE j == [job[p] EXCEPT !.todo = subject]
<1>1. /\ Continue(p, "next", j) /\ UNCHANGED <<subject, seq, tables, faults>> /\ Inv'
      /\ LoneOK("evaluate", job[p]) /\ IsJob(job[p]) /\ TablesOK
  BY EvaluateKeeps, LoneHere DEF Evaluate, counts, LoneInv, Good
<1>2. Same(j, job[p], {"todo"}) /\ j.todo = subject
  BY <1>1, SetTodo
<1> HIDE DEF j
<1>3. KnownOK(j)
  BY <1>1, <1>2 DEF Same, LoneOK, KnownOK
<1>4. MatchOK("next", j)
  BY <1>1, <1>2 DEF Same, LoneOK, MatchOK, Saving
<1>5. CountOK(j) /\ DOMAIN j.final = {}
  BY <1>1, <1>2 DEF Same, LoneOK, ProgressOK, CountOK
<1>6. Cardinality(DOMAIN j.final) + Cardinality(DOMAIN j.todo) = Cardinality(DOMAIN subject)
  <2>1. Cardinality(DOMAIN j.final) = 0
    BY <1>5, FS_EmptySet
  <2>2. Cardinality(DOMAIN subject) \in Nat
    BY <1>1, FS_CardinalityType DEF TablesOK
  <2> QED BY <1>2, <2>1, <2>2
<1>7. ProgressOK("next", j)
  BY <1>2, <1>5, <1>6 DEF ProgressOK, ListedOK, Saving, Recording
<1>8. RecordOK("next", j)
  BY DEF RecordOK, Recording
<1> QED BY <1>1, <1>2, <1>3, <1>4, <1>7, <1>8, LoneQuiet DEF LoneOK, Label, Same

\* Between two findings only the key and the number of the current one change.
LEMMA StillProgress ==
  ASSUME NEW from \in Saving, NEW label \in Saving, NEW j, NEW k, ProgressOK(from, j),
         Same(k, j, {"key", "id", "exists"})
  PROVE  ProgressOK(label, k) /\ RecordOK(label, k)
<1>1. k.final = j.final /\ k.todo = j.todo /\ k.new = j.new
  BY DEF Same
<1> QED BY <1>1 DEF ProgressOK, CountOK, ListedOK, RecordOK, Saving, Recording

LEMMA StillKnown ==
  ASSUME NEW j, NEW k, KnownOK(j), k.known = j.known PROVE KnownOK(k)
  BY DEF KnownOK

LEMMA NextFindingAlone == ASSUME Alone, LoneInv, NEW p \in Proc, NextFinding(p) PROVE LoneInv'
<1>1. PICK k \in DOMAIN job[p].todo :
        LET j == [job[p] EXCEPT !.key = k] IN
        IF k \in DOMAIN j.known THEN Continue(p, "get", [j EXCEPT !.id = j.known[k]])
                                ELSE Continue(p, "bump", j)
  BY DEF NextFinding
<1> DEFINE j == [job[p] EXCEPT !.key = k]
           l == [j EXCEPT !.id = j.known[k]]
<1>2. /\ UNCHANGED <<subject, seq, tables, faults>> /\ Inv' /\ LoneOK("next", job[p])
      /\ IsJob(job[p]) /\ TablesOK
  BY NextFindingKeeps, LoneHere DEF NextFinding, counts, LoneInv, Good
<1>3. Same(j, job[p], {"key"}) /\ j.key = k
  BY <1>2, SetKey
<1>4. k # NoKey
  BY <1>2, FindingAssumption DEF LoneOK, ProgressOK, TablesOK, Saving, FindingAssumption
<1>5. CASE k \in DOMAIN j.known
  <2>1. Continue(p, "get", l)
    BY <1>1, <1>5
  <2> HIDE DEF j
  <2>2. Same(l, j, {"id"}) /\ l.id = j.known[k]
    BY <1>3, SetId DEF Same
  <2> HIDE DEF l
  <2>3. Same(l, job[p], {"key", "id", "exists"}) /\ l.known = job[p].known /\ l.key = k
    BY <1>3, <2>2 DEF Same
  <2>4. KnownOK(l) /\ ProgressOK("get", l) /\ RecordOK("get", l)
    BY <1>2, <2>3, StillKnown, StillProgress DEF LoneOK, Saving
  <2>5. l.id \in DOMAIN findings
    BY <1>5, <2>2, <2>3, <2>4, <1>3 DEF KnownOK, Same
  <2>6. MatchOK("get", l)
    BY <1>2, <1>3, <1>5, <2>2, <2>3, <2>5 DEF MatchOK, LoneOK, Same, Saving, TablesOK
  <2> QED BY <1>2, <2>1, <2>3, <2>4, <2>6, LoneQuiet DEF LoneOK, Label, Same
<1>6. CASE k \notin DOMAIN j.known
  <2>1. Continue(p, "bump", j)
    BY <1>1, <1>6
  <2> HIDE DEF j
  <2>2. Same(j, job[p], {"key", "id", "exists"}) /\ j.known = job[p].known
    BY <1>3 DEF Same
  <2>3. KnownOK(j) /\ ProgressOK("bump", j) /\ RecordOK("bump", j)
    BY <1>2, <2>2, StillKnown, StillProgress DEF LoneOK, Saving
  <2>4. MatchOK("bump", j)
    BY <1>2, <1>3, <1>4, <1>6, <2>2 DEF MatchOK, LoneOK, Same, Saving
  <2> QED BY <1>2, <2>1, <2>2, <2>3, <2>4, LoneQuiet DEF LoneOK, Label, Same
<1> QED BY <1>5, <1>6

LEMMA NoMoreFindingsAlone ==
  ASSUME Alone, LoneInv, NEW p \in Proc, NoMoreFindings(p) PROVE LoneInv'
<1> DEFINE j == [job[p] EXCEPT !.key = NoKey]
<1>1. /\ Continue(p, "bump", j) /\ UNCHANGED <<subject, seq, tables, faults>> /\ Inv'
      /\ LoneOK("next", job[p]) /\ IsJob(job[p]) /\ DOMAIN job[p].todo = {}
  BY NoMoreFindingsKeeps, LoneHere DEF NoMoreFindings, counts, LoneInv
<1>2. Same(j, job[p], {"key"}) /\ j.key = NoKey
  BY <1>1, SetKey
<1> HIDE DEF j
<1>3. Same(j, job[p], {"key", "id", "exists"}) /\ j.known = job[p].known
  BY <1>2 DEF Same
<1>4. KnownOK(j) /\ ProgressOK("bump", j) /\ RecordOK("bump", j)
  BY <1>1, <1>3, StillKnown, StillProgress DEF LoneOK, Saving
<1>5. MatchOK("bump", j)
  BY <1>1, <1>2, <1>3 DEF MatchOK, LoneOK, Same, Saving
<1> QED BY <1>1, <1>3, <1>4, <1>5, LoneQuiet DEF LoneOK, Label, Same

----------------------------------------------------------------------------
(* Numbering and saving a finding *)

LEMMA BumpAlone == ASSUME Alone, LoneInv, NEW p \in Proc, Bump(p) PROVE LoneInv'
<1>1. PICK j : j = job[p]
  OBVIOUS
<1>2. /\ Moved(p, "read", j) /\ Inv' /\ IsJob(j) /\ LoneOK("bump", j) /\ Good
  BY <1>1, BumpKeeps, ContinueMoves, LoneHere DEF Bump, LoneInv
<1>3. UNCHANGED <<subject, findings, assessment, snapshot, faults>> /\ DOMAIN outcome' = Proc
  BY OutcomeKept DEF Bump, tables, counts, LoneInv, Good
<1> DEFINE n == SeqOf(j)
<1>4. n \in {"finding", "assessment"} /\ (n = "assessment") = (j.key = NoKey)
  BY DEF SeqOf
<1>5. seq' = [seq EXCEPT ![n] = @ + 1] /\ seq \in [{"finding", "assessment"} -> Nat]
  BY <1>1 DEF Bump, LoneInv, Good, TablesOK
<1> HIDE DEF n
<1>6. /\ seq' \in [{"finding", "assessment"} -> Nat] /\ seq'[n] = seq[n] + 1
      /\ seq["finding"] <= seq'["finding"] /\ seq["assessment"] <= seq'["assessment"]
  BY <1>4, <1>5
<1>7. TablesOK'
  <2>1. \A i \in DOMAIN findings : IsFinding(findings[i]) /\ i \in Nat /\ i <= seq'["finding"]
    BY <1>2, <1>5, <1>6 DEF Good, TablesOK
  <2>2. \A a \in DOMAIN assessment : a \in Nat /\ a <= seq'["assessment"]
    BY <1>2, <1>5, <1>6 DEF Good, TablesOK
  <2> QED BY <1>2, <1>3, <1>6, <2>1, <2>2 DEF Good, TablesOK
<1>8. Good'
  BY <1>2, <1>3, <1>7 DEF Good, OneFindingPerKey, CountsAgree
<1>9. KnownOK(j)' /\ ProgressOK("read", j)' /\ RecordOK("read", j)'
  BY <1>2, <1>3 DEF LoneOK, KnownOK, ProgressOK, RecordOK, CountOK, ListedOK, Saving, Recording
<1>10. IF j.key = NoKey THEN \A a \in DOMAIN assessment : a < seq'["assessment"]
                        ELSE \A i \in DOMAIN findings : i < seq'["finding"]
  <2>1. CASE j.key = NoKey
    <3>1. seq'["assessment"] = seq["assessment"] + 1
      BY <1>4, <1>6, <2>1
    <3> QED BY <1>2, <1>5, <2>1, <3>1 DEF Good, TablesOK
  <2>2. CASE j.key # NoKey
    <3>1. seq'["finding"] = seq["finding"] + 1
      BY <1>4, <1>6, <2>2
    <3> QED BY <1>2, <1>5, <2>2, <3>1 DEF Good, TablesOK
  <2> QED BY <2>1, <2>2
<1>11. MatchOK("read", j)'
  BY <1>2, <1>3, <1>10 DEF LoneOK, MatchOK, Saving
<1> QED BY <1>2, <1>8, <1>9, <1>11, LoneStep DEF LoneOK, Label

LEMMA ReadAlone == ASSUME Alone, LoneInv, NEW p \in Proc, Read(p) PROVE LoneInv'
<1>1. /\ UNCHANGED <<subject, seq, tables, faults>> /\ Inv' /\ LoneOK("read", job[p])
      /\ IsJob(job[p]) /\ TablesOK
  BY ReadKeeps, LoneHere DEF Read, counts, LoneInv, Good
<1>2. CASE job[p].key = NoKey
  <2> DEFINE v == seq["assessment"]
             j == [job[p] EXCEPT !.run = v]
  <2>1. Continue(p, "assess", j)
    BY <1>2 DEF Read, Numbered, SeqOf
  <2>2. v \in Nat /\ v <= seq["assessment"] /\ v \notin DOMAIN assessment
    BY <1>1, <1>2 DEF TablesOK, LoneOK, MatchOK
  <2>3. Same(j, job[p], {"run"}) /\ j.run = v
    BY <1>1, SetRun
  <2> HIDE DEF j, v
  <2>4. KnownOK(j)
    BY <1>1, <2>3, StillKnown DEF LoneOK, Same
  <2>5. MatchOK("assess", j)
    BY DEF MatchOK, Saving
  <2>6. DOMAIN j.todo = {}
    BY <1>1, <1>2, <2>3 DEF LoneOK, MatchOK, Same
  <2>9. j.final = job[p].final /\ j.todo = job[p].todo /\ j.new = job[p].new
    BY <2>3 DEF Same
  <2>10. ProgressOK("read", job[p])
    BY <1>1 DEF LoneOK
  <2>11. CountOK(j) /\ ListedOK(j)
    BY <2>9, <2>10 DEF ProgressOK, CountOK, ListedOK, Saving
  <2>7. ProgressOK("assess", j)
    BY <2>6, <2>9, <2>10, <2>11 DEF ProgressOK, Saving, Recording
  <2>8. RecordOK("assess", j)
    BY <2>2, <2>3 DEF RecordOK, Recording
  <2> QED BY <1>1, <2>1, <2>3, <2>4, <2>5, <2>7, <2>8, LoneQuiet DEF LoneOK, Label, Same
<1>3. CASE job[p].key # NoKey
  <2> DEFINE v == seq["finding"]
             j == [job[p] EXCEPT !.id = v]
  <2>1. Continue(p, "get", j)
    BY <1>3 DEF Read, Numbered, SeqOf
  <2>2. v \in Nat /\ v <= seq["finding"] /\ v \notin DOMAIN findings
    BY <1>1, <1>3 DEF TablesOK, LoneOK, MatchOK
  <2>3. Same(j, job[p], {"id"}) /\ j.id = v
    BY <1>1, SetId
  <2> HIDE DEF j, v
  <2>4. Same(j, job[p], {"key", "id", "exists"}) /\ j.known = job[p].known
    BY <2>3 DEF Same
  <2>5. KnownOK(j) /\ ProgressOK("get", j) /\ RecordOK("get", j)
    BY <1>1, <2>4, StillKnown, StillProgress DEF LoneOK, Saving
  <2>6. MatchOK("get", j)
    BY <1>1, <1>3, <2>2, <2>3 DEF LoneOK, MatchOK, Same, Saving
  <2> QED BY <1>1, <2>1, <2>3, <2>5, <2>6, LoneQuiet DEF LoneOK, Label, Same
<1> QED BY <1>2, <1>3

LEMMA GetAlone == ASSUME Alone, LoneInv, NEW p \in Proc, Get(p) PROVE LoneInv'
<1> DEFINE b == job[p].id \in DOMAIN findings
           j == [job[p] EXCEPT !.exists = b]
<1>1. /\ Continue(p, "write", j) /\ UNCHANGED <<subject, seq, tables, faults>> /\ Inv'
      /\ LoneOK("get", job[p]) /\ IsJob(job[p])
  BY GetKeeps, LoneHere DEF Get, counts, LoneInv
<1>2. Same(j, job[p], {"exists"}) /\ j.exists = b
  <2> HIDE DEF b
  <2> QED BY <1>1, SetExists
<1> HIDE DEF j
<1>3. Same(j, job[p], {"key", "id", "exists"}) /\ j.known = job[p].known
  BY <1>2 DEF Same
<1>4. KnownOK(j) /\ ProgressOK("write", j) /\ RecordOK("write", j)
  BY <1>1, <1>3, StillKnown, StillProgress DEF LoneOK, Saving
<1>5. MatchOK("write", j)
  BY <1>1, <1>2 DEF LoneOK, MatchOK, Same, Saving
<1> QED BY <1>1, <1>3, <1>4, <1>5, LoneQuiet DEF LoneOK, Label, Same

\* What saving a finding does to the table: its row gets the text, and is new
\* exactly if the finding was not loaded.
LEMMA Written ==
  ASSUME LoneInv, NEW j, LoneOK("write", j), NEW f, f.key = j.key, IsFinding(f),
         findings' = IF j.exists THEN [findings EXCEPT ![j.id].text = f.text]
                                 ELSE Put(findings, j.id, f)
  PROVE  /\ DOMAIN findings' = DOMAIN findings \cup {j.id}
         /\ findings'[j.id].key = j.key /\ findings'[j.id].text = f.text
         /\ IsFinding(findings'[j.id])
         /\ \A i \in DOMAIN findings : i # j.id => findings'[i] = findings[i]
         /\ j.id \in DOMAIN findings => findings[j.id].key = j.key
         /\ j.id \in DOMAIN findings <=> j.key \in DOMAIN j.known
         /\ j.id \notin DOMAIN findings => \A i \in DOMAIN findings : findings[i].key # j.key
<1>1. /\ j.exists = (j.id \in DOMAIN findings) /\ j.key \in DOMAIN j.todo
      /\ IF j.key \in DOMAIN j.known THEN j.id = j.known[j.key] ELSE j.id \notin DOMAIN findings
      /\ j.key \in DOMAIN j.known \/ \A i \in DOMAIN findings : findings[i].key # j.key
  BY DEF LoneOK, MatchOK, Saving
<1>2. j.key \in DOMAIN j.known => j.id \in DOMAIN findings /\ findings[j.id].key = j.key
  BY <1>1 DEF LoneOK, KnownOK
<1>3. CASE j.key \in DOMAIN j.known
  <2>1. IsFinding(findings[j.id]) /\ j.id \in DOMAIN findings
    BY <1>2, <1>3 DEF LoneInv, Good, TablesOK
  <2>2. findings' = [findings EXCEPT ![j.id].text = f.text]
    BY <1>1, <2>1
  <2>3. /\ DOMAIN findings' = DOMAIN findings
        /\ findings'[j.id] = [findings[j.id] EXCEPT !.text = f.text]
        /\ \A i \in DOMAIN findings : i # j.id => findings'[i] = findings[i]
    BY <2>1, <2>2
  <2>4. [findings[j.id] EXCEPT !.text = f.text]
          = [key |-> findings[j.id].key, text |-> f.text, ev |-> findings[j.id].ev]
    BY <2>1 DEF IsFinding
  <2>5. /\ findings'[j.id].key = findings[j.id].key /\ findings'[j.id].text = f.text
        /\ IsFinding(findings'[j.id])
    BY <2>3, <2>4 DEF IsFinding
  <2> QED BY <1>2, <1>3, <2>1, <2>3, <2>5
<1>4. CASE j.key \notin DOMAIN j.known
  <2>1. findings' = Put(findings, j.id, f) /\ j.id \notin DOMAIN findings
    BY <1>1, <1>4
  <2>2. /\ DOMAIN findings' = DOMAIN findings \cup {j.id} /\ findings'[j.id] = f
        /\ \A i \in DOMAIN findings : i # j.id => findings'[i] = findings[i]
    BY <2>1 DEF Put
  <2> QED BY <1>1, <1>4, <2>1, <2>2
<1> QED BY <1>3, <1>4

LEMMA WriteAlone == ASSUME Alone, LoneInv, NEW p \in Proc, Write(p) PROVE LoneInv'
<1>1. PICK j : j = job[p]
  OBVIOUS
<1> DEFINE f == [key |-> j.key, text |-> j.todo[j.key].text, ev |-> j.todo[j.key].ev]
<1>2. /\ IsJob(j) /\ LoneOK("write", j) /\ Good /\ Inv' /\ Inv
      /\ DOMAIN j.final \subseteq DOMAIN findings
      /\ UNCHANGED <<subject, seq, assessment, snapshot, faults>>
  BY <1>1, WriteKeeps, LoneHere DEF Write, counts, LoneInv, Stored
<1>3. j.exists = (j.id \in DOMAIN findings)
  BY <1>2 DEF LoneOK, MatchOK
<1>4. /\ findings' = IF j.exists THEN [findings EXCEPT ![j.id].text = f.text]
                                 ELSE Put(findings, j.id, f)
      /\ Continue(p, "next", Saved(j, f))
  BY <1>1, <1>3 DEF Write
<1>5. f.key = j.key /\ IsFinding(f)
  BY DEF IsFinding
<1>6. /\ DOMAIN findings' = DOMAIN findings \cup {j.id}
      /\ findings'[j.id].key = j.key /\ findings'[j.id].text = f.text
      /\ IsFinding(findings'[j.id])
      /\ \A i \in DOMAIN findings : i # j.id => findings'[i] = findings[i]
      /\ j.id \in DOMAIN findings => findings[j.id].key = j.key
      /\ j.id \in DOMAIN findings <=> j.key \in DOMAIN j.known
      /\ j.id \notin DOMAIN findings => \A i \in DOMAIN findings : findings[i].key # j.key
  <2> HIDE DEF f
  <2> QED BY <1>2, <1>4, <1>5, Written
<1>7. /\ j.key \in DOMAIN j.todo /\ j.id \in Nat /\ j.id <= seq["finding"]
      /\ j.todo[j.key] = subject[j.key] /\ DOMAIN j.todo \subseteq DOMAIN subject
      /\ \A k \in DOMAIN j.todo : j.todo[k] = subject[k]
      /\ \A i \in DOMAIN j.final : findings[i].key \notin DOMAIN j.todo
      /\ Cardinality(DOMAIN j.final) + Cardinality(DOMAIN j.todo) = Cardinality(DOMAIN subject)
      /\ CountOK(j) /\ ListedOK(j)
  BY <1>2 DEF LoneOK, MatchOK, ProgressOK, Saving
<1>8. PICK k : k = Saved(j, f)
  OBVIOUS
<1>9. /\ IsJob(k) /\ k.final = Put(j.final, j.id, f) /\ k.todo = Drop(j.todo, j.key)
      /\ k.known = j.known /\ k.new = IF j.key \in DOMAIN j.known THEN j.new ELSE j.new + 1
  <2> HIDE DEF f
  <2> QED BY <1>2, <1>8, SavedIs
<1>10. /\ DOMAIN k.final = DOMAIN j.final \cup {j.id} /\ k.final[j.id] = f
       /\ \A i \in DOMAIN j.final : i # j.id => k.final[i] = j.final[i]
       /\ DOMAIN k.todo = DOMAIN j.todo \ {j.key}
       /\ \A h \in DOMAIN k.todo : k.todo[h] = j.todo[h]
  <2> HIDE DEF f
  <2> QED BY <1>9 DEF Put, Drop
<1>11. f = [key |-> j.key, text |-> subject[j.key].text, ev |-> subject[j.key].ev]
  BY <1>7
<1> HIDE DEF f
<1>12. \A i \in DOMAIN findings : findings'[i].key = findings[i].key
  BY <1>6
<1>13. j.id \notin DOMAIN j.final
  BY <1>2, <1>6, <1>7
<1>14. TablesOK'
  <2>1. \A i \in DOMAIN findings' : IsFinding(findings'[i]) /\ i \in Nat /\ i <= seq["finding"]
    BY <1>2, <1>6, <1>7 DEF Good, TablesOK
  <2>2. DOMAIN outcome' = Proc
    BY <1>2, <1>4, OutcomeKept DEF Good
  <2> QED BY <1>2, <2>1, <2>2 DEF Good, TablesOK
<1>15. OneFindingPerKey'
  BY <1>2, <1>6, <1>12 DEF Good, OneFindingPerKey
<1>16. Good'
  BY <1>2, <1>14, <1>15 DEF Good, CountsAgree
<1>17. KnownOK(k)'
  BY <1>2, <1>6, <1>9, <1>12 DEF LoneOK, KnownOK
<1>18. MatchOK("next", k)'
  <2>1. \A h \in DOMAIN k.todo :
          h \in DOMAIN k.known \/ \A i \in DOMAIN findings' : findings'[i].key # h
    BY <1>2, <1>6, <1>9, <1>10, <1>12 DEF LoneOK, MatchOK, Saving
  <2> QED BY <2>1 DEF MatchOK
<1>19. IsFiniteSet(DOMAIN j.final) /\ IsFiniteSet(DOMAIN j.todo)
  BY <1>2, <1>7, FS_Subset DEF CountOK, Good, TablesOK
<1>20. /\ IsFiniteSet(DOMAIN k.final)
       /\ Cardinality(DOMAIN k.final) = Cardinality(DOMAIN j.final) + 1
       /\ Cardinality(DOMAIN k.todo) = Cardinality(DOMAIN j.todo) - 1
  <2>1. /\ IsFiniteSet(DOMAIN j.final \cup {j.id})
        /\ Cardinality(DOMAIN j.final \cup {j.id}) = Cardinality(DOMAIN j.final) + 1
    BY <1>13, <1>19, FS_AddElement
  <2>2. Cardinality(DOMAIN j.todo \ {j.key}) = Cardinality(DOMAIN j.todo) - 1
    BY <1>7, <1>19, FS_RemoveElement
  <2> QED BY <1>10, <2>1, <2>2
<1>21. Cardinality(DOMAIN j.final) \in Nat /\ Cardinality(DOMAIN j.todo) \in Nat
  BY <1>19, FS_CardinalityType
<1>22. CountOK(k)'
  BY <1>7, <1>9, <1>20, <1>21 DEF CountOK
<1>23. ListedOK(k)'
  <2> SUFFICES ASSUME NEW h \in DOMAIN subject \ DOMAIN k.todo
               PROVE  \E i \in DOMAIN k.final :
                 /\ findings'[i].key = h /\ findings'[i].text = subject[h].text
                 /\ k.final[i] = [key |-> h, text |-> subject[h].text, ev |-> subject[h].ev]
    BY <1>2 DEF ListedOK
  <2>1. CASE h = j.key
    <3>1. f.text = subject[j.key].text
      BY <1>11
    <3> QED BY <1>6, <1>10, <1>11, <2>1, <3>1
  <2>2. CASE h # j.key
    <3>1. h \in DOMAIN subject \ DOMAIN j.todo
      BY <1>10, <2>2
    <3>2. PICK i \in DOMAIN j.final :
            /\ findings[i].key = h /\ findings[i].text = subject[h].text
            /\ j.final[i] = [key |-> h, text |-> subject[h].text, ev |-> subject[h].ev]
      BY <1>7, <3>1 DEF ListedOK
    <3>3. i # j.id /\ i \in DOMAIN findings
      BY <1>2, <1>13
    <3>4. findings'[i] = findings[i] /\ k.final[i] = j.final[i] /\ i \in DOMAIN k.final
      BY <1>6, <1>10, <3>3
    <3> QED BY <3>2, <3>4
  <2> QED BY <2>1, <2>2
<1>24. ProgressOK("next", k)'
  <2>1. \A i \in DOMAIN k.final : findings'[i].key \notin DOMAIN k.todo
    BY <1>2, <1>6, <1>7, <1>10, <1>12
  <2>2. Cardinality(DOMAIN k.final) + Cardinality(DOMAIN k.todo) = Cardinality(DOMAIN subject)
    BY <1>7, <1>20, <1>21
  <2>3. DOMAIN k.todo \subseteq DOMAIN subject /\ \A h \in DOMAIN k.todo : k.todo[h] = subject[h]
    BY <1>7, <1>10
  <2> QED BY <1>2, <1>22, <1>23, <2>1, <2>2, <2>3 DEF ProgressOK, Recording
<1>25. RecordOK("next", k)'
  BY DEF RecordOK, Recording
<1>26. Moved(p, "next", k)
  BY <1>4, <1>8, ContinueMoves
<1> QED BY <1>2, <1>9, <1>16, <1>17, <1>18, <1>24, <1>25, <1>26, LoneStep DEF LoneOK, Label

----------------------------------------------------------------------------
(* Recording the assessment *)

\* While the assessment is recorded the locals do not change.
LEMMA StillRecording ==
  ASSUME NEW from \in Recording, NEW label \in Recording, NEW j, LoneOK(from, j),
         UNCHANGED <<subject, findings>>
  PROVE  KnownOK(j)' /\ MatchOK(label, j)' /\ ProgressOK(label, j)'
<1>1. KnownOK(j)' /\ MatchOK(label, j)'
  BY DEF LoneOK, KnownOK, MatchOK, Saving, Recording
<1>2. CountOK(j)' /\ ListedOK(j)'
  BY DEF LoneOK, ProgressOK, CountOK, ListedOK, Recording
<1>3. ProgressOK(label, j)'
  BY <1>2 DEF LoneOK, ProgressOK, Recording
<1> QED BY <1>1, <1>3

LEMMA SaveAssessmentAlone ==
  ASSUME Alone, LoneInv, NEW p \in Proc, SaveAssessment(p) PROVE LoneInv'
<1>1. PICK j : j = job[p]
  OBVIOUS
<1> DEFINE row == [total |-> Cardinality(DOMAIN j.final), new |-> j.new]
<1>2. /\ IsJob(j) /\ LoneOK("assess", j) /\ Good /\ Inv /\ Inv'
      /\ UNCHANGED <<subject, seq, findings, snapshot, faults>> /\ Continue(p, "stub", j)
      /\ assessment' = Insert(assessment, j.run, row)
  BY <1>1, SaveAssessmentKeeps, LoneHere DEF SaveAssessment, counts, LoneInv
<1> HIDE DEF row
<1>3. /\ DOMAIN assessment' = DOMAIN assessment \cup {j.run}
      /\ \A a \in DOMAIN assessment : assessment'[a] = assessment[a]
      /\ j.run \notin DOMAIN assessment => assessment'[j.run] = row
  BY <1>2 DEF Insert, Put
<1>4. j.run \in Nat /\ j.run <= seq["assessment"] /\ (faults = 0 => j.run \notin DOMAIN assessment)
  BY <1>2 DEF LoneOK, RecordOK, Recording
<1>5. DOMAIN snapshot \subseteq DOMAIN assessment
  BY <1>2 DEF Inv, SnapshotsResolve
<1>6. TablesOK'
  BY <1>2, <1>3, <1>4, OutcomeKept DEF Good, TablesOK
<1>7. OneFindingPerKey' /\ CountsAgree'
  BY <1>2, <1>3, <1>5 DEF Good, OneFindingPerKey, CountsAgree
<1>8. RecordOK("stub", j)'
  BY <1>2, <1>3, <1>4, <1>5 DEF RecordOK, Recording, row
<1>9. LoneOK("stub", j)'
  BY <1>2, <1>8, StillRecording DEF LoneOK, Recording
<1> QED BY <1>2, <1>6, <1>7, <1>9, ContinueMoves, LoneStep DEF Good, Label

LEMMA SaveStubAlone == ASSUME Alone, LoneInv, NEW p \in Proc, SaveStub(p) PROVE LoneInv'
<1>1. PICK j : j = job[p]
  OBVIOUS
<1>2. /\ IsJob(j) /\ LoneOK("stub", j) /\ Good /\ Inv /\ Inv'
      /\ UNCHANGED <<subject, seq, findings, snapshot, faults>> /\ Continue(p, "snap", j)
      /\ assessment' = Insert(assessment, j.run, [total |-> 0, new |-> 0])
  BY <1>1, SaveStubKeeps, LoneHere DEF SaveStub, counts, LoneInv
<1>3. /\ DOMAIN assessment' = DOMAIN assessment \cup {j.run}
      /\ \A a \in DOMAIN assessment : assessment'[a] = assessment[a]
  BY <1>2 DEF Insert, Put
<1>4. /\ j.run \in Nat /\ j.run <= seq["assessment"]
      /\ faults = 0 =>
           /\ j.run \in DOMAIN assessment /\ j.run \notin DOMAIN snapshot
           /\ assessment[j.run] = [total |-> Cardinality(DOMAIN j.final), new |-> j.new]
  BY <1>2 DEF LoneOK, RecordOK, Recording
<1>5. DOMAIN snapshot \subseteq DOMAIN assessment
  BY <1>2 DEF Inv, SnapshotsResolve
<1>6. TablesOK'
  BY <1>2, <1>3, <1>4, OutcomeKept DEF Good, TablesOK
<1>7. OneFindingPerKey' /\ CountsAgree'
  BY <1>2, <1>3, <1>5 DEF Good, OneFindingPerKey, CountsAgree
<1>8. RecordOK("snap", j)'
  BY <1>2, <1>3, <1>4 DEF RecordOK, Recording
<1>9. LoneOK("snap", j)'
  BY <1>2, <1>8, StillRecording DEF LoneOK, Recording
<1> QED BY <1>2, <1>6, <1>7, <1>9, ContinueMoves, LoneStep DEF Good, Label

LEMMA SaveSnapshotAlone ==
  ASSUME Alone, LoneInv, NEW p \in Proc, SaveSnapshot(p) PROVE LoneInv'
<1>1. PICK j : j = job[p]
  OBVIOUS
<1>2. /\ IsJob(j) /\ LoneOK("snap", j) /\ Good /\ Inv'
      /\ UNCHANGED <<subject, seq, findings, assessment, faults>> /\ Finish(p, "ok", j)
      /\ snapshot' = IF j.run \in DOMAIN assessment THEN Insert(snapshot, j.run, j.final)
                                                    ELSE snapshot
  BY <1>1, SaveSnapshotKeeps, LoneHere DEF SaveSnapshot, counts, LoneInv
<1>3. faults = 0 =>
        /\ j.run \in DOMAIN assessment /\ j.run \notin DOMAIN snapshot
        /\ assessment[j.run] = [total |-> Cardinality(DOMAIN j.final), new |-> j.new]
  BY <1>2 DEF LoneOK, RecordOK, Recording
<1>4. faults = 0 =>
        /\ DOMAIN snapshot' = DOMAIN snapshot \cup {j.run} /\ snapshot'[j.run] = j.final
        /\ \A a \in DOMAIN snapshot : snapshot'[a] = snapshot[a]
  BY <1>2, <1>3 DEF Insert, Put
<1>5. /\ CountOK(j) /\ ListedOK(j) /\ DOMAIN j.todo = {}
      /\ Cardinality(DOMAIN j.final) + Cardinality(DOMAIN j.todo) = Cardinality(DOMAIN subject)
  BY <1>2 DEF LoneOK, ProgressOK, Recording
<1>6. Cardinality(DOMAIN j.final) = Cardinality(DOMAIN subject)
  <2>1. Cardinality(DOMAIN j.final) \in Nat
    BY <1>5, FS_CardinalityType DEF CountOK
  <2> QED BY <1>5, <2>1, FS_EmptySet
<1>7. TablesOK'
  BY <1>2, OutcomeKept DEF Good, TablesOK
<1>8. CountsAgree'
  <2> SUFFICES ASSUME faults = 0, NEW a \in DOMAIN snapshot'
               PROVE  /\ a \in DOMAIN assessment
                      /\ assessment[a].total = Cardinality(DOMAIN snapshot'[a])
                      /\ assessment[a].new <= assessment[a].total
    BY <1>2 DEF CountsAgree
  <2>1. CASE a = j.run
    BY <1>3, <1>4, <1>5, <2>1 DEF CountOK
  <2>2. CASE a # j.run
    BY <1>2, <1>4, <2>2 DEF Good, CountsAgree
  <2> QED BY <2>1, <2>2
<1>9. ReportedIsStored'
  <2> SUFFICES ASSUME faults = 0, NEW q \in Proc
               PROVE  LET listed == snapshot'[job'[q].run] IN
                 /\ Cardinality(DOMAIN listed) = Cardinality(DOMAIN subject)
                 /\ \A k \in DOMAIN subject : \E i \in DOMAIN findings :
                      /\ findings[i].key = k /\ findings[i].text = subject[k].text
                      /\ listed[i] = [key |-> k, text |-> subject[k].text, ev |-> subject[k].ev]
    BY <1>2 DEF ReportedIsStored
  <2>1. job'[q].run = j.run
    <3>1. q = p /\ DOMAIN job = Proc
      BY DEF Alone, LoneInv, Inv, LocalsOK
    <3> QED BY <1>2, <3>1 DEF Finish
  <2>2. DOMAIN j.final \subseteq DOMAIN findings
    BY <1>1, LoneHere DEF Stored
  <2> QED BY <1>4, <1>5, <1>6, <2>1, <2>2 DEF ListedOK
<1>10. LoneOK("idle", j)'
  <2>1. KnownOK(j)'
    BY <1>2 DEF LoneOK, KnownOK
  <2>2. CountOK(j)'
    BY <1>5 DEF CountOK
  <2> QED BY <2>1, <2>2 DEF LoneOK, MatchOK, ProgressOK, RecordOK, Saving, Recording
<1>11. OneFindingPerKey'
  BY <1>2 DEF Good, OneFindingPerKey
<1> QED BY <1>2, <1>7, <1>8, <1>9, <1>10, <1>11, FinishMoves, LoneStep DEF Good, Label

----------------------------------------------------------------------------
(* Failures; the workspace *)

LEMMA FaultAlone == ASSUME Alone, LoneInv, NEW p \in Proc, Fault(p) PROVE LoneInv'
<1>1. /\ UNCHANGED <<subject, seq, tables>> /\ Inv' /\ faults' \in Nat /\ faults' # 0
  BY FaultKeeps DEF Fault, LoneInv, Good, TablesOK
<1>2. PICK j : j = job[p]
  OBVIOUS
<1>3. IsJob(j) /\ LoneOK(pc[p], j) /\ Good
  BY <1>2, LoneHere
<1>4. UNCHANGED <<subject, seq, findings, assessment, snapshot>>
  BY <1>1 DEF tables
<1>5. ReportedIsStored'
  BY <1>1 DEF ReportedIsStored
<1>6. ASSUME DOMAIN outcome' = Proc PROVE Good'
  BY <1>1, <1>3, <1>4, <1>6, GoodStays
<1>7. CASE Finish(p, "err", NoJob)
  BY <1>1, <1>7, LoneReturn
<1>8. CASE pc[p] \in {"bump", "read"} /\ job[p].key = NoKey /\ Numbered(p, 0)
  <2>1. Continue(p, "assess", [j EXCEPT !.run = 0])
    BY <1>2, <1>8 DEF Numbered
  <2>2. PICK k : k = [j EXCEPT !.run = 0]
    OBVIOUS
  <2>3. Same(k, j, {"run"}) /\ k.run = 0
    BY <1>3, <2>2, SetRun
  <2>4. /\ IsJob(k) /\ k.final = j.final /\ k.todo = j.todo /\ k.new = j.new
        /\ k.known = j.known
    BY <2>3 DEF Same
  <2>5. KnownOK(k)'
    BY <1>3, <1>4, <2>4 DEF LoneOK, KnownOK
  <2>6. KnownOK(k)' /\ MatchOK("assess", k)'
    BY <2>5 DEF MatchOK, Saving
  <2>7. DOMAIN k.todo = {}
    BY <1>2, <1>3, <1>8, <2>4 DEF LoneOK, MatchOK
  <2>8. ProgressOK(pc[p], j)
    BY <1>3 DEF LoneOK
  <2>9. CountOK(k)' /\ ListedOK(k)'
    BY <1>4, <1>8, <2>4, <2>8 DEF ProgressOK, CountOK, ListedOK, Saving
  <2>10. ProgressOK("assess", k)'
    BY <1>4, <1>8, <2>4, <2>7, <2>8, <2>9 DEF ProgressOK, Saving, Recording
  <2>11. RecordOK("assess", k)'
    BY <1>1, <1>3, <1>4, <2>3 DEF RecordOK, Good, TablesOK
  <2>12. Good'
    BY <1>3, <1>6, <2>1, OutcomeKept DEF Good
  <2>13. Moved(p, "assess", k)
    BY <2>1, <2>2, ContinueMoves
  <2> QED BY <1>1, <1>5, <2>4, <2>6, <2>10, <2>11, <2>12, <2>13, LoneStep DEF LoneOK, Label
<1>9. ASSUME NEW label \in {"stub", "snap"}, pc[p] \in {"assess", "stub"},
             Continue(p, label, job[p])
      PROVE  LoneInv'
  <2>1. KnownOK(j)' /\ MatchOK(label, j)' /\ ProgressOK(label, j)'
    BY <1>3, <1>4, <1>9, StillRecording DEF Recording
  <2>2. RecordOK(label, j)'
    BY <1>1, <1>3, <1>4, <1>9 DEF LoneOK, RecordOK, Recording
  <2>3. Good'
    BY <1>3, <1>6, <1>9, OutcomeKept DEF Good
  <2> QED BY <1>1, <1>2, <1>3, <1>5, <1>9, <2>1, <2>2, <2>3, ContinueMoves, LoneStep
          DEF LoneOK, Label
<1>10. CASE pc[p] = "snap" /\ Finish(p, "ok", job[p])
  <2>1. KnownOK(j)' /\ CountOK(j)'
    BY <1>3, <1>4 DEF LoneOK, KnownOK, ProgressOK, CountOK
  <2>2. LoneOK("idle", j)'
    BY <2>1 DEF LoneOK, MatchOK, ProgressOK, RecordOK, Saving, Recording
  <2>3. Good'
    BY <1>3, <1>6, <1>10, OutcomeKept DEF Good
  <2> QED BY <1>1, <1>2, <1>3, <1>5, <1>10, <2>2, <2>3, FinishMoves, LoneStep DEF Label
<1> QED BY <1>7, <1>8, <1>9, <1>10 DEF Fault

LEMMA CrashAlone == ASSUME Alone, LoneInv, NEW p \in Proc, Crash(p) PROVE LoneInv'
  BY CrashKeeps, LoneReturn DEF Crash, LoneInv, Good, TablesOK

LEMMA ChangeAlone == ASSUME Alone, LoneInv, Change PROVE LoneInv'
<1>1. /\ UNCHANGED <<seq, findings, assessment, snapshot, faults, pc>>
      /\ job' = [p \in Proc |-> NoJob] /\ outcome' = [p \in Proc |-> "none"]
      /\ \A p \in Proc : pc[p] = "idle"
      /\ Inv' /\ Good
  BY ChangeKeeps DEF Change, tables, LoneInv
<1>2. IsFiniteSet(DOMAIN subject') /\ DOMAIN subject' \subseteq Key
  <2>1. PICK k \in Key : \/ \E r \in Report : subject' = Put(subject, k, r)
                        \/ subject' = Drop(subject, k)
    BY DEF Change
  <2>2. DOMAIN subject' = DOMAIN subject \cup {k} \/ DOMAIN subject' = DOMAIN subject \ {k}
    BY <2>1 DEF Put, Drop
  <2>3. IsFiniteSet(DOMAIN subject) /\ DOMAIN subject \subseteq Key
    BY <1>1 DEF Good, TablesOK
  <2>4. IsFiniteSet(DOMAIN subject \cup {k}) /\ IsFiniteSet(DOMAIN subject \ {k})
    BY <2>3, FS_AddElement, FS_RemoveElement
  <2> QED BY <2>2, <2>3, <2>4
<1>3. Good'
  BY <1>1, <1>2 DEF Good, TablesOK, OneFindingPerKey, CountsAgree
<1>4. ReportedIsStored'
  BY <1>1 DEF ReportedIsStored, Done
<1>5. LoneOK("idle", NoJob)'
  BY Rest, FS_EmptySet, NoJobIs
     DEF LoneOK, KnownOK, MatchOK, ProgressOK, RecordOK, CountOK, Saving, Recording, NoMap
<1>6. \A p \in Proc : LoneOK(pc[p], job[p])'
  BY <1>1, <1>5
<1> QED BY <1>1, <1>3, <1>4, <1>6 DEF LoneInv

LEMMA InitAlone == Init => LoneInv
<1> SUFFICES ASSUME Init PROVE LoneInv
  OBVIOUS
<1>1. TablesOK
  BY FS_EmptySet DEF Init, TablesOK, NoMap
<1>2. OneFindingPerKey /\ CountsAgree /\ ReportedIsStored
  BY DEF Init, OneFindingPerKey, CountsAgree, ReportedIsStored, Done, NoMap
<1>3. \A p \in Proc : LoneOK(pc[p], job[p])
  BY Rest DEF Init
<1> QED BY <1>1, <1>2, <1>3, InitInv DEF LoneInv, Good

LEMMA NextAlone == ASSUME Alone PROVE LoneInv /\ [Next]_vars => LoneInv'
<1> SUFFICES ASSUME LoneInv, [Next]_vars PROVE LoneInv'
  OBVIOUS
<1>1. CASE UNCHANGED vars
  <2>1. /\ UNCHANGED <<subject, seq, findings, assessment, snapshot, faults, pc, job, outcome>>
        /\ Inv'
    BY <1>1, NextInv DEF vars, tables, counts, LoneInv
  <2>2. Good'
    BY <2>1, GoodStays DEF LoneInv, Good, TablesOK
  <2>3. ReportedIsStored'
    BY <2>1 DEF LoneInv, ReportedIsStored, Done
  <2>4. ASSUME NEW p \in Proc PROVE LoneOK(pc[p], job[p])'
    <3>1. PICK label, j : label = pc[p] /\ j = job[p]
      OBVIOUS
    <3>2. LoneOK(label, j)
      BY <3>1 DEF LoneInv
    <3>3. LoneOK(label, j)'
      BY <2>1, <3>2, LoneStays
    <3> QED BY <2>1, <3>1, <3>3
  <2> QED BY <2>1, <2>2, <2>3, <2>4 DEF LoneInv
<1>2. CASE Change
  BY <1>2, ChangeAlone
<1>3. CASE Next /\ ~Change
  <2>1. PICK p \in Proc :
          \/ Begin(p) \/ Load(p) \/ Evaluate(p) \/ NextFinding(p) \/ NoMoreFindings(p)
          \/ Bump(p) \/ Read(p) \/ Get(p) \/ Write(p)
          \/ SaveAssessment(p) \/ SaveStub(p) \/ SaveSnapshot(p) \/ Fault(p) \/ Crash(p)
    BY <1>3 DEF Next
  <2> QED BY <2>1, BeginAlone, LoadAlone, EvaluateAlone, NextFindingAlone, NoMoreFindingsAlone,
             BumpAlone, ReadAlone, GetAlone, WriteAlone, SaveAssessmentAlone, SaveStubAlone,
             SaveSnapshotAlone, FaultAlone, CrashAlone
<1> QED BY <1>1, <1>2, <1>3

----------------------------------------------------------------------------
(* Theorems *)

\* A lone process keeps the invariant across failing statements, kills and
\* changes of the workspace between its evaluations.
THEOREM LoneInvCorrect == ASSUME Alone PROVE Spec => []LoneInv
  BY InitAlone, NextAlone, PTL DEF Spec

\* A finding about an entity is stored once, however often Engine.Run is called
\* and wherever a call was cut short.
THEOREM OneFindingPerKeyCorrect == ASSUME Alone PROVE Spec => []OneFindingPerKey
<1>1. LoneInv => OneFindingPerKey
  BY DEF LoneInv, Good
<1> QED BY <1>1, LoneInvCorrect, PTL

\* After a call of Engine.Run that succeeds, with no statement failing, all that
\* the rules report is stored, and the snapshot lists it and nothing else.
THEOREM ReportedIsStoredCorrect == ASSUME Alone PROVE Spec => []ReportedIsStored
<1>1. LoneInv => ReportedIsStored
  BY DEF LoneInv
<1> QED BY <1>1, LoneInvCorrect, PTL

\* As long as no statement fails, the counts of an assessment are those of its
\* snapshot.
THEOREM CountsAgreeCorrect == ASSUME Alone PROVE Spec => []CountsAgree
<1>1. LoneInv => CountsAgree
  BY DEF LoneInv, Good
<1> QED BY <1>1, LoneInvCorrect, PTL
=============================================================================
