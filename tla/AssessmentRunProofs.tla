------------------------ MODULE AssessmentRunProofs ------------------------
(* Proofs about AssessmentRun, for any number of runs, collectors, faults and *)
(* kills: type correctness, what a stored run says about its collectors, who  *)
(* leaves a run RUNNING, and that the table implements RunLifecycle.          *)
EXTENDS AssessmentRun, TLAPS

USE RunAssumption DEF RunAssumption
USE NoRowAssumption DEF NoRowAssumption

----------------------------------------------------------------------------
(* Type correctness, and where the executor is *)

\* The executor has a row of its own in the table.
Open == {"collect", "collected", "ingested", "complete", "saveCancelled"}

\* The row it builds is that of the newest number; until it is saved at the end
\* the table holds the initial one.
Progress ==
  /\ pc \notin {"idle", "sequence"} => run \in Row /\ id \in RunId /\ id = seq
  /\ pc \in {"collected", "ingested", "saveCancelled"} => at <= n
  /\ pc \in {"collect", "complete"} => at <= n + 1
  /\ pc = "complete" => at = n + 1
  /\ pc = "sequence" => id = 0
  /\ pc = "saveCancelled" => run.status = "CANCELLED"
  /\ pc = "insert" => run = NewRow /\ rows[id] = NoRow
  /\ pc \in Open => rows[id] = NewRow /\ applicable[id] = n
  /\ \A i \in RunId : i > seq => rows[i] = NoRow

TypeInv == TypeOK /\ Progress

LEMMA RowFacts == NewRow \in Row /\ NewRow # NoRow /\ NewRow.status = "RUNNING"
  BY DEF NewRow, Row

LEMMA RowUpdates ==
  ASSUME NEW r \in Row
  PROVE  /\ \A s \in {"RUNNING", "COMPLETED", "CANCELLED"} : [r EXCEPT !.status = s] \in Row
         /\ \A c \in Collector : [r EXCEPT !.stats = @ \cup {c}] \in Row
         /\ \A c \in 0 .. RulesFailed : [r EXCEPT !.errors = @ \cup {c}] \in Row
  BY DEF Row

LEMMA InitTypeInv == Init => TypeInv
  BY DEF Init, TypeInv, TypeOK, Progress, RunId, Open

\* What a save writes, while the table holds no row or the initial one.
LEMMA SaveWrites ==
  ASSUME NEW r \in Row, rows \in [RunId -> Row \cup {NoRow}], Save(r)
  PROVE  rows' = [rows EXCEPT ![id] = r]
<1>1. r = [status |-> r.status, stats |-> r.stats, errors |-> r.errors]
  BY DEF Row
<1> QED
  BY <1>1 DEF Save

LEMMA NextTypeInv == TypeInv /\ [Next]_vars => TypeInv'
<1> SUFFICES ASSUME TypeInv, [Next]_vars PROVE TypeInv'
  OBVIOUS
<1> USE RowFacts DEF TypeInv, TypeOK, Progress, RunId, Collector, Open, db, executor, counts, history
<1>1. CASE Call
  BY <1>1 DEF Call, Return
<1>2. CASE NextNumber
  <2>1. seq + 1 \in RunId /\ rows[seq + 1] = NoRow
    BY <1>2 DEF NextNumber
  <2>2. TypeOK'
    BY <1>2, <2>1 DEF NextNumber
  <2>3. Progress'
    BY <1>2, <2>1 DEF NextNumber
  <2> QED
    BY <2>2, <2>3
<1>3. CASE SaveInitial
  <2>1. rows' = [rows EXCEPT ![id] = run]
    BY <1>3, SaveWrites DEF SaveInitial
  <2> QED
    BY <1>3, <2>1 DEF SaveInitial
<1>4. CASE Interrupt
  <2>1. [run EXCEPT !.errors = @ \cup {Interrupted}] \in Row
    <3>1. run \in Row /\ Interrupted \in 0 .. RulesFailed
      BY <1>4 DEF Interrupt, Interrupted, RulesFailed
    <3> QED
      BY <3>1, RowUpdates
  <2>2. run' \in Row /\ run'.status = "CANCELLED"
    <3>1. run' = [[run EXCEPT !.errors = @ \cup {Interrupted}] EXCEPT !.status = "CANCELLED"]
      BY <1>4 DEF Interrupt, Row
    <3> QED
      BY <2>1, <3>1, RowUpdates DEF Row
  <2> QED
    BY <1>4, <2>2 DEF Interrupt
<1>5. CASE SaveCancelled
  <2>1. rows' = [rows EXCEPT ![id] = run]
    BY <1>5, SaveWrites DEF SaveCancelled
  <2> QED
    BY <1>5, <2>1 DEF SaveCancelled, Return
<1>6. CASE Collect
  BY <1>6 DEF Collect
<1>7. CASE CollectorFails
  <2>1. at \in 0 .. RulesFailed
    BY DEF RulesFailed
  <2>2. run' \in Row
    BY <1>7, <2>1, RowUpdates DEF CollectorFails
  <2> QED
    <3>1. /\ pc' = "collect" /\ at' = at + 1 /\ at <= n
          /\ UNCHANGED <<rows, seq, stored, evaluated, id, n, ctx, outcome, counts, history>>
      BY <1>7 DEF CollectorFails
    <3>2. TypeOK'
      BY <2>2, <3>1
    <3>3. Progress'
      BY <1>7, <2>2, <3>1 DEF CollectorFails
    <3> QED
      BY <3>2, <3>3
<1>8. CASE Ingest
  <2>1. <<id, at>> \in RunId \X Collector
    BY <1>8 DEF Ingest
  <2>2. {stored', lost'} \subseteq SUBSET (RunId \X Collector)
    BY <1>8, <2>1 DEF Ingest
  <2> QED
    <3>1. TypeOK'
      <4>1. faults' \in 0 .. MaxFault /\ pc' = "ingested"
        BY <1>8 DEF Ingest
      <4>2. UNCHANGED <<rows, seq, evaluated, run, id, n, at, ctx, outcome, crashes,
                        applicable, abandoned>>
        BY <1>8 DEF Ingest
      <4> QED
        BY <2>2, <4>1, <4>2
    <3>2. Progress'
      BY <1>8 DEF Ingest
    <3> QED
      BY <3>1, <3>2
<1>9. CASE CountStats
  <2>1. at \in Collector
    BY <1>9 DEF CountStats
  <2>2. run' \in Row
    BY <1>9, <2>1, RowUpdates DEF CountStats
  <2> QED
    <3>1. TypeOK'
      BY <1>9, <2>1, <2>2 DEF CountStats
    <3>2. Progress'
      BY <1>9, <2>2 DEF CountStats
    <3> QED
      BY <3>1, <3>2
<1>10. CASE Evaluate
  <2>1. RulesFailed \in 0 .. RulesFailed
    BY DEF RulesFailed
  <2>2. run' \in Row /\ id \in RunId
    <3>1. run \in Row /\ id \in RunId
      BY <1>10 DEF Evaluate
    <3>2. run' \in {run, [run EXCEPT !.errors = @ \cup {RulesFailed}]}
      BY <1>10 DEF Evaluate
    <3>3. [run EXCEPT !.errors = @ \cup {RulesFailed}] \in Row
      BY <2>1, <3>1, RowUpdates
    <3> HIDE DEF TypeInv, TypeOK, Progress
    <3> QED
      BY <3>1, <3>2, <3>3
  <2>3. evaluated' \subseteq RunId
    BY <1>10, <2>2 DEF Evaluate
  <2> QED
    <3>1. TypeOK'
      <4>1. faults' \in 0 .. MaxFault /\ pc' = "complete"
        BY <1>10 DEF Evaluate
      <4>2. UNCHANGED <<rows, seq, stored, id, n, at, ctx, outcome, crashes,
                        applicable, abandoned, lost>>
        BY <1>10 DEF Evaluate
      <4> QED
        BY <2>2, <2>3, <4>1, <4>2
    <3>2. Progress'
      BY <1>10, <2>2 DEF Evaluate
    <3> QED
      BY <3>1, <3>2
<1>11. CASE SaveCompleted
  <2> DEFINE done == [run EXCEPT !.status = "COMPLETED"]
  <2>1. done \in Row
    BY <1>11, RowUpdates DEF SaveCompleted
  <2>2. rows' = [rows EXCEPT ![id] = done]
    BY <1>11, <2>1, SaveWrites DEF SaveCompleted
  <2> QED
    BY <1>11, <2>1, <2>2 DEF SaveCompleted, Return
<1>12. CASE Fault
  <2>1. /\ pc' = "idle" /\ outcome' \in {"error", "interrupted"} /\ faults' \in 0 .. MaxFault
        /\ UNCHANGED <<rows, stored, evaluated, run, id, n, at, ctx, crashes, applicable, lost>>
    BY <1>12 DEF Fault, Return
  <2>2. seq' \in 0 .. MaxRun /\ seq' >= seq
    BY <1>12 DEF Fault
  <2>3. abandoned' \subseteq RunId
    BY <1>12 DEF Fault
  <2>4. TypeOK'
    BY <2>1, <2>2, <2>3
  <2>5. Progress'
    BY <2>1, <2>2
  <2> QED
    BY <2>4, <2>5
<1>13. CASE Crash
  <2>1. /\ pc' = "idle" /\ run' = NoRow /\ id' = 0 /\ n' = 0 /\ at' = 1 /\ outcome' = "killed"
        /\ UNCHANGED <<rows, seq, stored, evaluated, ctx, faults, applicable, lost>>
    BY <1>13 DEF Crash, Return
  <2>2. abandoned' \subseteq RunId
    BY <1>13 DEF Crash
  <2>3. crashes' \in 0 .. MaxCrash
    BY <1>13 DEF Crash
  <2>4. TypeOK'
    BY <2>1, <2>2, <2>3
  <2>5. Progress'
    BY <2>1
  <2> QED
    BY <2>4, <2>5
<1>14. CASE EndContext
  BY <1>14 DEF EndContext
<1>15. CASE UNCHANGED vars
  BY <1>15 DEF vars
<1> QED
  BY <1>1, <1>2, <1>3, <1>4, <1>5, <1>6, <1>7, <1>8, <1>9, <1>10, <1>11, <1>12, <1>13,
     <1>14, <1>15 DEF Next, Step

\* Every reachable state is well typed.
THEOREM TypeCorrect == Spec => []TypeOK
<1>1. TypeInv => TypeOK
  BY DEF TypeInv
<1> QED
  BY <1>1, InitTypeInv, NextTypeInv, PTL DEF Spec

----------------------------------------------------------------------------
(* The table implements RunLifecycle *)

\* A save while the executor builds the newest row changes that row's status.
LEMMA SaveStatus ==
  ASSUME TypeInv, NEW r \in Row, id \in RunId, Save(r)
  PROVE  Status' = [Status EXCEPT ![id] = r.status]
<1>1. rows' = [rows EXCEPT ![id] = r] /\ rows \in [RunId -> Row \cup {NoRow}]
  BY SaveWrites DEF TypeInv, TypeOK
<1> QED
  BY <1>1 DEF Status

\* No row has a higher number than the one being built.
LEMMA OwnIsNewest ==
  ASSUME TypeInv, pc \notin {"idle", "sequence"} PROVE id \in RunId /\ Lifecycle!Newest(id)
  BY DEF Lifecycle!Newest, Status, TypeInv, Progress, RunId, TypeOK

LEMMA NextLifecycle == TypeInv /\ [Next]_vars => [Lifecycle!Next]_Status
<1> SUFFICES ASSUME TypeInv, [Next]_vars PROVE [Lifecycle!Next]_Status
  OBVIOUS
<1> USE DEF db, executor, counts, history
<1>1. CASE SaveInitial
  <2>1. pc = "insert" /\ run \in Row /\ run.status = "RUNNING" /\ Save(run)
    BY <1>1, RowFacts DEF SaveInitial, TypeInv, Progress
  <2>2. id \in RunId /\ Lifecycle!Newest(id)
    BY <2>1, OwnIsNewest
  <2>3. Status[id] = "ABSENT"
    BY <2>1, <2>2 DEF Status, TypeInv, Progress
  <2> QED
    BY <2>1, <2>2, <2>3, SaveStatus DEF Lifecycle!Next, Lifecycle!Start
<1>2. ASSUME NEW r \in Row, r.status \in Lifecycle!Ended, Save(r),
             pc \in {"complete", "saveCancelled"}
      PROVE  [Lifecycle!Next]_Status
  <2>1. id \in RunId /\ Lifecycle!Newest(id)
    BY <1>2, OwnIsNewest
  <2>2. Status[id] = "RUNNING"
    BY <1>2, <2>1, RowFacts DEF Status, TypeInv, Progress, Open
  <2> QED
    BY <1>2, <2>1, <2>2, SaveStatus DEF Lifecycle!Next, Lifecycle!End
<1>3. CASE SaveCompleted
  <2>1. run \in Row /\ [run EXCEPT !.status = "COMPLETED"] \in Row
    BY <1>3, RowUpdates DEF SaveCompleted, TypeInv, Progress
  <2>2. [run EXCEPT !.status = "COMPLETED"].status = "COMPLETED"
    BY <2>1 DEF Row
  <2> QED
    BY <1>2, <1>3, <2>1, <2>2 DEF SaveCompleted, Lifecycle!Ended
<1>4. CASE SaveCancelled
  BY <1>2, <1>4 DEF SaveCancelled, Lifecycle!Ended, TypeInv, Progress
<1>5. CASE rows' = rows
  BY <1>5 DEF Status
<1> QED
  BY <1>1, <1>3, <1>4, <1>5 DEF Next, Step, Call, NextNumber, Interrupt, Collect, CollectorFails,
     Ingest, CountStats, Evaluate, Fault, Crash, EndContext, vars

\* Runs are numbered upwards, only the newest ends, once, and stays as it ended.
THEOREM ImplementsLifecycle == Spec => LifecycleSpec
<1>1. Init => Lifecycle!Init
  BY DEF Init, Lifecycle!Init, Status
<1>2. Spec => [][Lifecycle!Next]_Status
  BY InitTypeInv, NextTypeInv, NextLifecycle, PTL DEF Spec
<1> QED
  BY <1>1, <1>2, PTL DEF Spec, LifecycleSpec, Lifecycle!Spec

----------------------------------------------------------------------------
(* Who leaves a run RUNNING *)

\* What the saves at the end of a run write.
LEMMA FinalSave ==
  ASSUME TypeInv, SaveCancelled \/ SaveCompleted
  PROVE  \E r \in Row : /\ rows' = [rows EXCEPT ![id] = r] /\ id \in RunId
                        /\ r.stats = run.stats /\ r.errors = run.errors
                        /\ \/ pc = "saveCancelled" /\ r.status = "CANCELLED"
                           \/ pc = "complete" /\ r.status = "COMPLETED"
<1>1. run \in Row /\ id \in RunId /\ rows \in [RunId -> Row \cup {NoRow}]
  BY DEF SaveCancelled, SaveCompleted, TypeInv, TypeOK, Progress
<1>2. CASE SaveCancelled
  <2>1. rows' = [rows EXCEPT ![id] = run]
    BY <1>1, <1>2, SaveWrites DEF SaveCancelled
  <2> QED
    BY <1>1, <1>2, <2>1 DEF SaveCancelled, TypeInv, Progress
<1>3. CASE SaveCompleted
  <2> DEFINE r == [run EXCEPT !.status = "COMPLETED"]
  <2>1. r \in Row
    BY <1>1, RowUpdates
  <2>2. r.status = "COMPLETED" /\ r.stats = run.stats /\ r.errors = run.errors
    BY <1>1 DEF Row
  <2>3. Save(r) /\ pc = "complete"
    BY <1>3 DEF SaveCompleted
  <2>4. rows' = [rows EXCEPT ![id] = r]
    BY <1>1, <2>1, <2>3, SaveWrites
  <2> HIDE DEF r
  <2> QED
    BY <1>1, <2>1, <2>2, <2>3, <2>4
<1> QED
  BY <1>2, <1>3

LEMMA NextRunning == TypeInv /\ RunningIsExplained /\ [Next]_vars => RunningIsExplained'
<1> SUFFICES ASSUME TypeInv, RunningIsExplained, [Next]_vars PROVE RunningIsExplained'
  OBVIOUS
<1>0. rows \in [RunId -> Row \cup {NoRow}] /\ NoRow \notin Row
  BY DEF TypeInv, TypeOK
<1> USE DEF RunningIsExplained, Present, TypeInv, Progress, db, executor, counts, history
<1>1. CASE SaveInitial
  <2>1. rows' = [rows EXCEPT ![id] = run]
    BY <1>0, <1>1, SaveWrites DEF SaveInitial
  <2> QED
    BY <1>0, <1>1, <2>1 DEF SaveInitial
<1>2. CASE SaveCancelled \/ SaveCompleted
  <2>1. PICK r \in Row : /\ rows' = [rows EXCEPT ![id] = r] /\ id \in RunId
                        /\ r.status \in {"CANCELLED", "COMPLETED"}
    BY <1>2, FinalSave
  <2>2. abandoned' = abandoned
    BY <1>2 DEF SaveCancelled, SaveCompleted
  <2> QED
    BY <1>0, <2>1, <2>2
<1>3. CASE Fault
  BY <1>0, <1>3 DEF Fault, RunId
<1>4. CASE Crash
  BY <1>0, <1>4 DEF Crash, RunId
<1>5. CASE Call \/ NextNumber
  BY <1>0, <1>5 DEF Call, NextNumber, Return, RunId
<1>6. CASE Interrupt \/ Collect \/ CollectorFails \/ Ingest \/ CountStats \/ Evaluate
             \/ EndContext \/ UNCHANGED vars
  BY <1>0, <1>6 DEF Interrupt, Collect, CollectorFails, Ingest, CountStats, Evaluate, EndContext, vars
<1> QED
  BY <1>1, <1>2, <1>3, <1>4, <1>5, <1>6 DEF Next, Step

\* A run stays RUNNING only when its process was killed or its last save failed.
THEOREM RunningIsExplainedCorrect == Spec => []RunningIsExplained
<1>1. Init => RunningIsExplained
  BY DEF Init, RunningIsExplained, Present
<1> QED
  BY <1>1, InitTypeInv, NextTypeInv, NextRunning, PTL DEF Spec

----------------------------------------------------------------------------
(* Every collector accounted for *)

\* The row being built accounts for the collectors before the current one.
BuildInv ==
  /\ \A i \in evaluated : i <= seq
  /\ pc \in {"insert", "collect", "collected", "ingested", "saveCancelled"} => id \notin evaluated
  /\ pc \in Open => /\ run.stats \cap run.errors = {}
                    /\ \A c \in run.stats : <<id, c>> \in stored \cup lost
  /\ pc \in {"collect", "collected", "ingested"} => run.stats \cup run.errors = 1 .. at - 1
  /\ pc = "ingested" => <<id, at>> \in stored \cup lost
  /\ pc = "complete" => run.stats \cup (run.errors \ {RulesFailed}) = 1 .. n
  /\ pc = "saveCancelled" => at \notin run.stats \cup run.errors

AccountInv == BuildInv /\ EveryCollectorAccounted

LEMMA NextBuildInv == TypeInv /\ BuildInv /\ [Next]_vars => BuildInv'
<1> SUFFICES ASSUME TypeInv, BuildInv, [Next]_vars PROVE BuildInv'
  OBVIOUS
<1>0. /\ seq \in Nat /\ at \in Nat \ {0} /\ n \in 0 .. MaxCollector /\ id \in Nat
      /\ pc \notin {"idle", "sequence"} => run \in Row /\ id = seq
      /\ pc \in {"collect", "complete"} => at <= n + 1
      /\ pc \in {"collected", "ingested", "saveCancelled"} => at <= n
  BY DEF TypeInv, TypeOK, Progress
<1> USE <1>0 DEF BuildInv, Open, db, executor, counts, history
<1>1. CASE Call
  BY <1>1 DEF Call, Return
<1>2. CASE NextNumber
  <2>1. evaluated \subseteq Nat
    BY DEF TypeInv, TypeOK, RunId
  <2>2. seq + 1 \notin evaluated /\ \A i \in evaluated : i <= seq + 1
    BY <2>1
  <2> QED
    BY <1>2, <2>2 DEF NextNumber
<1>3. CASE SaveInitial
  <2>1. run.stats = {} /\ run.errors = {}
    BY <1>3 DEF SaveInitial, TypeInv, Progress, NewRow
  <2>2. 1 .. at' - 1 = {}
    BY <1>3 DEF SaveInitial
  <2> QED
    BY <1>3, <2>1, <2>2 DEF SaveInitial
<1>4. CASE Interrupt
  <2>1. run'.stats = run.stats /\ run'.errors = run.errors \cup {Interrupted}
    BY <1>4 DEF Interrupt, Row
  <2>2. 0 \notin run.stats /\ at \notin run.stats \cup run.errors /\ at # 0
    BY <1>4 DEF Interrupt
  <2>3. at' \notin run'.stats \cup run'.errors /\ run'.stats \cap run'.errors = {}
    BY <1>4, <2>1, <2>2 DEF Interrupt, Interrupted
  <2> QED
    BY <1>4, <2>1, <2>3 DEF Interrupt
<1>5. CASE SaveCancelled
  BY <1>5 DEF SaveCancelled, Return
<1>6. CASE Collect
  BY <1>6 DEF Collect
<1>7. CASE CollectorFails
  <2>1. run'.stats = run.stats /\ run'.errors = run.errors \cup {at}
    BY <1>7 DEF CollectorFails, Row
  <2>2. 1 .. at' - 1 = (1 .. at - 1) \cup {at} /\ at \notin run.stats
    BY <1>7 DEF CollectorFails
  <2> QED
    BY <1>7, <2>1, <2>2 DEF CollectorFails
<1>8. CASE Ingest
  BY <1>8 DEF Ingest
<1>9. CASE CountStats
  <2>1. run'.errors = run.errors /\ run'.stats = run.stats \cup {at}
    BY <1>9 DEF CountStats, Row
  <2>2. 1 .. at' - 1 = (1 .. at - 1) \cup {at} /\ at \notin run.errors
    BY <1>9 DEF CountStats
  <2> QED
    BY <1>9, <2>1, <2>2 DEF CountStats
<1>10. CASE Evaluate
  <2>1. run'.stats = run.stats /\ run'.errors \in {run.errors, run.errors \cup {RulesFailed}}
    BY <1>10 DEF Evaluate, Row
  <2>2. run.stats \cup run.errors = 1 .. n /\ RulesFailed \notin 1 .. n
    BY <1>10 DEF Evaluate, RulesFailed
  <2>3. /\ run'.stats \cap run'.errors = {}
        /\ run'.stats \cup (run'.errors \ {RulesFailed}) = 1 .. n
    BY <1>10, <2>1, <2>2 DEF Evaluate
  <2>4. \A i \in evaluated' : i <= seq
    BY <1>10 DEF Evaluate
  <2>5. pc' = "complete" /\ UNCHANGED <<stored, lost, seq, id, n>>
    BY <1>10 DEF Evaluate
  <2> QED
    BY <1>10, <2>1, <2>3, <2>4, <2>5 DEF Evaluate
<1>11. CASE SaveCompleted
  BY <1>11 DEF SaveCompleted, Return
<1>12. CASE Fault
  <2>1. pc' = "idle" /\ evaluated' = evaluated /\ seq' >= seq /\ seq' \in Nat
    BY <1>12 DEF Fault, Return
  <2> QED
    BY <2>1, <1>0 DEF TypeInv, TypeOK, RunId
<1>13. CASE Crash
  BY <1>13 DEF Crash, Return
<1>14. CASE EndContext \/ UNCHANGED vars
  BY <1>14 DEF EndContext, vars
<1> QED
  BY <1>1, <1>2, <1>3, <1>4, <1>5, <1>6, <1>7, <1>8, <1>9, <1>10, <1>11, <1>12, <1>13,
     <1>14 DEF Next, Step

\* A step that writes no row, and evaluates at most the run being built.
LEMMA SameRows ==
  ASSUME TypeInv, EveryCollectorAccounted, UNCHANGED <<rows, applicable>>,
         stored \subseteq stored', lost \subseteq lost',
         \A i \in evaluated' \ evaluated : i = id /\ rows[id] = NewRow
  PROVE  EveryCollectorAccounted'
<1> SUFFICES ASSUME NEW i \in Present
             PROVE  LET r == rows[i] IN
                    /\ r.stats \cap r.errors = {}
                    /\ r.status = "COMPLETED" =>
                         r.stats \cup (r.errors \ {RulesFailed}) = 1 .. applicable[i]
                    /\ r.status = "CANCELLED" =>
                         /\ ~(1 .. applicable[i] \subseteq r.stats \cup r.errors)
                         /\ i \notin evaluated'
                    /\ \A c \in r.stats : <<i, c>> \in stored' \cup lost'
  BY DEF EveryCollectorAccounted, Present
<1>1. rows[i].status = "CANCELLED" => i \notin evaluated'
  BY RowFacts DEF EveryCollectorAccounted
<1> QED
  BY <1>1 DEF EveryCollectorAccounted

\* A step that writes the row of the run being built.
LEMMA OneRow ==
  ASSUME TypeInv, EveryCollectorAccounted, NEW r \in Row, id \in RunId,
         rows' = [rows EXCEPT ![id] = r],
         \A i \in RunId \ {id} : applicable'[i] = applicable[i],
         UNCHANGED <<stored, lost, evaluated>>,
         r.stats \cap r.errors = {},
         r.status = "COMPLETED" => r.stats \cup (r.errors \ {RulesFailed}) = 1 .. applicable'[id],
         r.status = "CANCELLED" => /\ ~(1 .. applicable'[id] \subseteq r.stats \cup r.errors)
                                   /\ id \notin evaluated,
         \A c \in r.stats : <<id, c>> \in stored \cup lost
  PROVE  EveryCollectorAccounted'
<1>1. rows'[id] = r /\ \A i \in RunId \ {id} : rows'[i] = rows[i]
  BY DEF TypeInv, TypeOK
<1>2. Present' = Present \cup {id} /\ Present \subseteq RunId
  BY <1>1 DEF Present
<1> SUFFICES ASSUME NEW i \in Present'
             PROVE  LET q == rows'[i] IN
                    /\ q.stats \cap q.errors = {}
                    /\ q.status = "COMPLETED" =>
                         q.stats \cup (q.errors \ {RulesFailed}) = 1 .. applicable'[i]
                    /\ q.status = "CANCELLED" =>
                         /\ ~(1 .. applicable'[i] \subseteq q.stats \cup q.errors)
                         /\ i \notin evaluated'
                    /\ \A c \in q.stats : <<i, c>> \in stored' \cup lost'
  BY DEF EveryCollectorAccounted
<1>3. CASE i = id
  BY <1>1, <1>3
<1>4. CASE i # id
  <2>1. i \in Present /\ rows'[i] = rows[i] /\ applicable'[i] = applicable[i]
    BY <1>1, <1>2, <1>4
  <2> QED
    BY <2>1 DEF EveryCollectorAccounted
<1> QED
  BY <1>3, <1>4

LEMMA NextAccountInv == TypeInv /\ AccountInv /\ [Next]_vars => AccountInv'
<1> SUFFICES ASSUME TypeInv, AccountInv, [Next]_vars PROVE EveryCollectorAccounted'
  BY NextBuildInv DEF AccountInv
<1> USE DEF AccountInv, db, executor, counts, history
<1>1. CASE SaveInitial
  <2>1. /\ run \in Row /\ id \in RunId /\ run = NewRow
        /\ rows \in [RunId -> Row \cup {NoRow}] /\ applicable \in [RunId -> 0 .. MaxCollector]
    BY <1>1 DEF SaveInitial, TypeInv, TypeOK, Progress
  <2>2. rows' = [rows EXCEPT ![id] = run]
    BY <1>1, <2>1, SaveWrites DEF SaveInitial
  <2>3. run.stats = {} /\ run.errors = {} /\ run.status = "RUNNING"
    BY <2>1 DEF NewRow
  <2>4. /\ \A i \in RunId \ {id} : applicable'[i] = applicable[i]
        /\ UNCHANGED <<stored, lost, evaluated>>
    BY <1>1, <2>1 DEF SaveInitial
  <2> QED
    BY <2>1, <2>2, <2>3, <2>4, OneRow
<1>2. CASE SaveCancelled \/ SaveCompleted
  <2>1. PICK r \in Row : /\ rows' = [rows EXCEPT ![id] = r] /\ id \in RunId
                        /\ r.stats = run.stats /\ r.errors = run.errors
                        /\ \/ pc = "saveCancelled" /\ r.status = "CANCELLED"
                           \/ pc = "complete" /\ r.status = "COMPLETED"
    BY <1>2, FinalSave
  <2>2. UNCHANGED <<stored, lost, evaluated, applicable>>
    BY <1>2 DEF SaveCancelled, SaveCompleted
  <2>3. pc \in Open /\ applicable[id] = n /\ at \in Nat \ {0} /\ n \in Nat
    BY <2>1 DEF Open, TypeInv, TypeOK, Progress
  <2>4. r.stats \cap r.errors = {} /\ \A c \in r.stats : <<id, c>> \in stored \cup lost
    BY <2>1, <2>3 DEF BuildInv
  <2>5. r.status = "COMPLETED" => r.stats \cup (r.errors \ {RulesFailed}) = 1 .. applicable'[id]
    BY <2>1, <2>2, <2>3 DEF BuildInv
  <2>6. r.status = "CANCELLED" => /\ ~(1 .. applicable'[id] \subseteq r.stats \cup r.errors)
                                  /\ id \notin evaluated
    <3> SUFFICES ASSUME r.status = "CANCELLED"
                 PROVE  ~(1 .. n \subseteq r.stats \cup r.errors) /\ id \notin evaluated
      BY <2>2, <2>3
    <3>1. pc = "saveCancelled"
      BY <2>1
    <3>2. at \in 1 .. n
      BY <2>3, <3>1 DEF TypeInv, Progress
    <3> QED
      BY <2>1, <3>1, <3>2 DEF BuildInv
  <2> QED
    BY <2>1, <2>2, <2>4, <2>5, <2>6, OneRow
<1>3. CASE Evaluate
  <2>1. rows[id] = NewRow
    BY <1>3 DEF Evaluate, TypeInv, Progress, Open
  <2>2. UNCHANGED <<rows, applicable, stored, lost>> /\ evaluated' \subseteq evaluated \cup {id}
    BY <1>3 DEF Evaluate
  <2> QED
    BY <2>1, <2>2, SameRows
<1>4. CASE Ingest
  <2>1. /\ UNCHANGED <<rows, applicable, evaluated>>
        /\ stored \subseteq stored' /\ lost \subseteq lost'
    BY <1>4 DEF Ingest
  <2> QED
    BY <2>1, SameRows
<1>5. CASE Call \/ NextNumber \/ Interrupt \/ Collect \/ CollectorFails \/ CountStats
             \/ Fault \/ Crash \/ EndContext \/ UNCHANGED vars
  <2>1. UNCHANGED <<rows, applicable, evaluated, stored, lost>>
    BY <1>5 DEF Call, NextNumber, Interrupt, Collect, CollectorFails, CountStats, Fault, Crash,
                EndContext, vars
  <2> QED
    BY <2>1, SameRows
<1> QED
  BY <1>1, <1>2, <1>3, <1>4, <1>5 DEF Next, Step

\* A completed run accounts for every collector that applied, once; an
\* interrupted one left at least one out and evaluated nothing.
THEOREM EveryCollectorAccountedCorrect == Spec => []EveryCollectorAccounted
<1>1. Init => AccountInv
  BY DEF Init, AccountInv, BuildInv, EveryCollectorAccounted, Present, Open
<1>2. AccountInv => EveryCollectorAccounted
  BY DEF AccountInv
<1> QED
  BY <1>1, <1>2, InitTypeInv, NextTypeInv, NextAccountInv, PTL DEF Spec

----------------------------------------------------------------------------
(* What is returned is stored *)

LEMMA NextReturned == TypeInv /\ ReturnedIsStored /\ [Next]_vars => ReturnedIsStored'
<1> SUFFICES ASSUME TypeInv, ReturnedIsStored, [Next]_vars, outcome' = "ok", pc' = "idle"
             PROVE  rows'[id'] = run' /\ rows'[id'].status = "COMPLETED"
  BY DEF ReturnedIsStored
<1> USE DEF db, executor, counts, history
<1>1. CASE SaveCompleted
  <2> DEFINE r == [run EXCEPT !.status = "COMPLETED"]
  <2>1. run \in Row /\ id \in RunId /\ rows \in [RunId -> Row \cup {NoRow}]
    BY <1>1 DEF SaveCompleted, TypeInv, TypeOK, Progress
  <2>2. r \in Row /\ r.status = "COMPLETED"
    BY <2>1, RowUpdates DEF Row
  <2>3. run' = r /\ id' = id /\ Save(r)
    BY <1>1 DEF SaveCompleted
  <2>4. rows' = [rows EXCEPT ![id] = r]
    BY <2>1, <2>2, <2>3, SaveWrites
  <2> HIDE DEF r
  <2> QED
    BY <2>1, <2>2, <2>3, <2>4
<1>2. CASE UNCHANGED vars
  BY <1>2 DEF vars, ReturnedIsStored
<1>3. CASE Call \/ SaveCancelled \/ Fault \/ Crash
  BY <1>3 DEF Call, SaveCancelled, Fault, Crash, Return
<1>4. CASE NextNumber \/ SaveInitial \/ Interrupt \/ Collect \/ CollectorFails \/ Ingest
             \/ CountStats \/ Evaluate \/ EndContext
  BY <1>4 DEF NextNumber, SaveInitial, Interrupt, Collect, CollectorFails, Ingest, CountStats,
              Evaluate, EndContext
<1> QED
  BY <1>1, <1>2, <1>3, <1>4 DEF Next, Step

\* What Execute returned without an error is what the table holds.
THEOREM ReturnedIsStoredCorrect == Spec => []ReturnedIsStored
<1>1. Init => ReturnedIsStored
  BY DEF Init, ReturnedIsStored
<1> QED
  BY <1>1, InitTypeInv, NextTypeInv, NextReturned, PTL DEF Spec
============================================================================
