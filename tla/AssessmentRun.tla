--------------------------- MODULE AssessmentRun ---------------------------
(***************************************************************************)
(* Executor.Execute (internal/assessment/executor.go): one assessment run  *)
(* from its row in assessment_runs, through the collectors one after the   *)
(* other, the ingestion of what they report and the evaluation of the      *)
(* rules, to the row's final status.  Calls follow one another; the        *)
(* process may be killed and started again between any two steps, a        *)
(* statement may fail, a collector may fail or panic, and the context may  *)
(* end at any time.                                                        *)
(*                                                                         *)
(* A collector is its position among those applicable to the target.       *)
(* Ingestion is the module HostIngest, evaluation FindingStore; here they  *)
(* are single steps.  One process issues distinct numbers (SequenceStore), *)
(* so NextSequence is a single step too.                                   *)
(***************************************************************************)
EXTENDS Naturals, FiniteSets

CONSTANTS MaxRun,       \* bound on run numbers
          MaxCollector, \* the most collectors a target has
          MaxFault, MaxCrash,
          NoRow

ASSUME RunAssumption == {MaxRun, MaxCollector, MaxFault, MaxCrash} \subseteq Nat

VARIABLES
  rows,      \* the assessment_runs table
  seq,       \* the assessment_run sequence
  stored,    \* <<run, collector>> whose observations reached the database
  evaluated, \* runs whose rules were evaluated
  pc, run,   \* the executor: its next step and the row it is building
  id, n,     \* the run's number and how many collectors apply
  at,        \* the collector to run next
  ctx,       \* runCtx: "live" or "done"
  outcome,   \* how the last call ended
  faults, crashes,
  \* history
  applicable, \* applicable[id]: how many collectors applied to the run
  abandoned,  \* runs whose process was killed, or whose last save failed
  lost        \* <<run, collector>> whose observations failed to be stored

db == <<rows, seq, stored, evaluated>>
executor == <<pc, run, id, n, at, outcome>>
counts == <<faults, crashes>>
history == <<applicable, abandoned, lost>>
vars == <<db, executor, ctx, counts, history>>

RunId == 1 .. MaxRun
Collector == 1 .. MaxCollector

\* Entries of run.Errors: a failed collector's number, Interrupted, RulesFailed.
Interrupted == 0
RulesFailed == MaxCollector + 1

Row == [status : {"RUNNING", "COMPLETED", "CANCELLED"},
        stats : SUBSET Collector, errors : SUBSET (0 .. RulesFailed)]

ASSUME NoRowAssumption == NoRow \notin Row

NewRow == [status |-> "RUNNING", stats |-> {}, errors |-> {}]

Init ==
  /\ rows = [i \in RunId |-> NoRow] /\ seq = 0 /\ stored = {} /\ evaluated = {}
  /\ pc = "idle" /\ run = NoRow /\ id = 0 /\ n = 0 /\ at = 1
  /\ ctx = "live" /\ outcome = "none"
  /\ faults = 0 /\ crashes = 0
  /\ applicable = [i \in RunId |-> 0] /\ abandoned = {} /\ lost = {}

----------------------------------------------------------------------------

\* SaveAssessmentRun: INSERT, or an UPDATE of the status, the statistics and
\* the errors of a row that exists.
Save(r) ==
  rows' = [rows EXCEPT ![id] =
             IF @ = NoRow THEN r ELSE [status |-> r.status, stats |-> r.stats, errors |-> r.errors]]

Return(how) == pc' = "idle" /\ outcome' = how

\* Execute is called: the guard refuses a target that is out of scope before
\* anything is written, otherwise the plan is made.
Call ==
  /\ pc = "idle" /\ seq < MaxRun
  /\ run' = NoRow /\ id' = 0
  /\ \/ Return("refused") /\ UNCHANGED n
     \/ /\ pc' = "sequence" /\ outcome' = "none"
        /\ n' \in 0 .. MaxCollector
  /\ UNCHANGED <<db, at, ctx, counts, history>>

\* A slip: the number is not reserved.
NextNumberUnreserved ==
  /\ pc = "sequence" /\ seq < MaxRun
  /\ seq' = seq /\ id' = seq + 1
  /\ run' = NewRow
  /\ pc' = "insert"
  /\ UNCHANGED <<rows, stored, evaluated, n, at, ctx, outcome, counts, history>>

NextNumber ==
  /\ pc = "sequence" /\ seq < MaxRun
  /\ seq' = seq + 1 /\ id' = seq + 1
  /\ run' = NewRow
  /\ pc' = "insert"
  /\ UNCHANGED <<rows, stored, evaluated, n, at, ctx, outcome, counts, history>>

\* The initial row; then the timeout of the run starts.
SaveInitial ==
  /\ pc = "insert"
  /\ Save(run)
  /\ applicable' = [applicable EXCEPT ![id] = n]
  /\ pc' = "collect" /\ at' = 1 /\ ctx' = "live"
  /\ UNCHANGED <<seq, stored, evaluated, run, id, n, outcome, counts, abandoned, lost>>

\* The context is looked at before every collector, and only there.
Interrupt ==
  /\ pc = "collect" /\ at <= n /\ ctx = "done"
  /\ run' = [run EXCEPT !.status = "CANCELLED", !.errors = @ \cup {Interrupted}]
  /\ pc' = "saveCancelled"
  /\ UNCHANGED <<db, id, n, at, ctx, outcome, counts, history>>

\* A slip: a cancelled run is returned but not saved.
SaveCancelledSkipped ==
  /\ pc = "saveCancelled"
  /\ Return("interrupted")
  /\ UNCHANGED <<db, run, id, n, at, ctx, counts, history>>

SaveCancelled ==
  /\ pc = "saveCancelled"
  /\ Save(run)
  /\ Return("interrupted")
  /\ UNCHANGED <<seq, stored, evaluated, run, id, n, at, ctx, counts, history>>

\* A collector runs; it has a timeout of its own.
Collect ==
  /\ pc = "collect" /\ at <= n /\ ctx = "live"
  /\ pc' = "collected"
  /\ UNCHANGED <<db, run, id, n, at, ctx, outcome, counts, history>>

\* A slip: a failing collector ends the loop.
CollectorFailsBreak ==
  /\ pc = "collected"
  /\ run' = [run EXCEPT !.errors = @ \cup {at}]
  /\ pc' = "collect" /\ at' = n + 1
  /\ UNCHANGED <<db, id, n, ctx, outcome, counts, history>>

\* A slip: a failing collector is tried again without end.
CollectorFailsRetry ==
  /\ pc = "collected"
  /\ run' = [run EXCEPT !.errors = @ \cup {at}]
  /\ pc' = "collect"
  /\ UNCHANGED <<db, id, n, at, ctx, outcome, counts, history>>

\* It returned an error or panicked: the run goes on without it.
CollectorFails ==
  /\ pc = "collected"
  /\ run' = [run EXCEPT !.errors = @ \cup {at}]
  /\ pc' = "collect" /\ at' = at + 1
  /\ UNCHANGED <<db, id, n, ctx, outcome, counts, history>>

\* Its observations are ingested; the errors of that are ignored.
Ingest ==
  /\ pc = "collected"
  /\ \/ stored' = stored \cup {<<id, at>>} /\ UNCHANGED <<faults, lost>>
     \/ /\ faults < MaxFault /\ faults' = faults + 1
        /\ lost' = lost \cup {<<id, at>>} /\ UNCHANGED stored
  /\ pc' = "ingested"
  /\ UNCHANGED <<rows, seq, evaluated, run, id, n, at, ctx, outcome,
                 crashes, applicable, abandoned>>

CountStats ==
  /\ pc = "ingested"
  /\ run' = [run EXCEPT !.stats = @ \cup {at}]
  /\ pc' = "collect" /\ at' = at + 1
  /\ UNCHANGED <<db, id, n, ctx, outcome, counts, history>>

\* No collector is left: the rules are evaluated, also when the context is
\* done by now.  A failure is one more entry in the errors.
Evaluate ==
  /\ pc = "collect" /\ at > n
  /\ \/ evaluated' = evaluated \cup {id} /\ UNCHANGED <<run, faults>>
     \/ /\ faults < MaxFault /\ faults' = faults + 1
        /\ run' = [run EXCEPT !.errors = @ \cup {RulesFailed}] /\ UNCHANGED evaluated
  /\ pc' = "complete"
  /\ UNCHANGED <<rows, seq, stored, id, n, at, ctx, outcome, crashes, history>>

\* A slip: the row is saved before its status is set.
SaveCompletedTooSoon ==
  /\ pc = "complete"
  /\ run' = [run EXCEPT !.status = "COMPLETED"]
  /\ Save(run)
  /\ Return("ok")
  /\ UNCHANGED <<seq, stored, evaluated, id, n, at, ctx, counts, history>>

SaveCompleted ==
  LET done == [run EXCEPT !.status = "COMPLETED"] IN
  /\ pc = "complete"
  /\ run' = done
  /\ Save(done)
  /\ Return("ok")
  /\ UNCHANGED <<seq, stored, evaluated, id, n, at, ctx, counts, history>>

----------------------------------------------------------------------------
(* Failures *)

\* NextSequence or a save fails.  The caller learns of it, except that the
\* failure to save a cancelled run is ignored.  A number may be used up.
Fault ==
  /\ faults < MaxFault /\ faults' = faults + 1
  /\ \/ /\ pc = "sequence" /\ Return("error") /\ UNCHANGED abandoned
        /\ seq' \in {seq, seq + 1} /\ seq' <= MaxRun
     \/ pc = "insert" /\ Return("error") /\ UNCHANGED <<seq, abandoned>>
     \/ /\ pc = "complete" /\ Return("error")
        /\ abandoned' = abandoned \cup {id} /\ UNCHANGED seq
     \/ /\ pc = "saveCancelled" /\ Return("interrupted")
        /\ abandoned' = abandoned \cup {id} /\ UNCHANGED seq
  /\ UNCHANGED <<rows, stored, evaluated, run, id, n, at, ctx, crashes,
                 applicable, lost>>

\* The process is killed and started again.
Crash ==
  /\ pc # "idle" /\ crashes < MaxCrash /\ crashes' = crashes + 1
  /\ Return("killed")
  /\ run' = NoRow /\ id' = 0 /\ n' = 0 /\ at' = 1
  /\ abandoned' = IF id = 0 THEN abandoned ELSE abandoned \cup {id}
  /\ UNCHANGED <<db, ctx, faults, applicable, lost>>

\* The timeout of the run passes, or the caller cancels.
EndContext ==
  /\ pc # "idle" /\ ctx = "live" /\ ctx' = "done"
  /\ UNCHANGED <<db, executor, counts, history>>

Step == NextNumber \/ SaveInitial \/ Interrupt \/ SaveCancelled \/ Collect \/ CollectorFails
          \/ Ingest \/ CountStats \/ Evaluate \/ SaveCompleted

Next == Call \/ Step \/ Fault \/ Crash \/ EndContext

\* Collectors have timeouts and SQL statements end, so the executor proceeds.
Spec == Init /\ [][Next]_vars /\ WF_vars(Step)

----------------------------------------------------------------------------
(* What readers of the table see *)

Present == {i \in RunId : rows[i] # NoRow}

Status == [i \in RunId |-> IF rows[i] = NoRow THEN "ABSENT" ELSE rows[i].status]

----------------------------------------------------------------------------
(* Properties *)

TypeOK ==
  /\ rows \in [RunId -> Row \cup {NoRow}] /\ seq \in 0 .. MaxRun
  /\ {stored, lost} \subseteq SUBSET (RunId \X Collector)
  /\ {evaluated, abandoned} \subseteq SUBSET RunId
  /\ pc \in {"idle", "sequence", "insert", "collect", "collected", "ingested",
             "complete", "saveCancelled"}
  /\ run \in Row \cup {NoRow} /\ id \in 0 .. MaxRun
  /\ n \in 0 .. MaxCollector /\ at \in 1 .. MaxCollector + 1
  /\ ctx \in {"live", "done"}
  /\ outcome \in {"none", "refused", "ok", "error", "interrupted", "killed"}
  /\ faults \in 0 .. MaxFault /\ crashes \in 0 .. MaxCrash
  /\ applicable \in [RunId -> 0 .. MaxCollector]

\* A completed run accounts for each collector that applied to its target,
\* once: it has statistics or it is among the errors, although a failing or
\* panicking collector does not stop the run.  An interrupted run left at least
\* one collector out and evaluated nothing.
EveryCollectorAccounted ==
  \A i \in Present :
    LET r == rows[i] IN
    /\ r.stats \cap r.errors = {}
    /\ r.status = "COMPLETED" =>
         r.stats \cup (r.errors \ {RulesFailed}) = 1 .. applicable[i]
    /\ r.status = "CANCELLED" =>
         /\ ~(1 .. applicable[i] \subseteq r.stats \cup r.errors)
         /\ i \notin evaluated
    /\ \A c \in r.stats : <<i, c>> \in stored \cup lost

\* A run is left RUNNING for good only by a process that was killed or by a
\* last save that failed.
RunningIsExplained ==
  \A i \in Present : rows[i].status = "RUNNING" => i \in abandoned \/ (pc # "idle" /\ id = i)

\* What Execute returned without an error is what the table holds.
ReturnedIsStored ==
  outcome = "ok" /\ pc = "idle" => rows[id] = run /\ rows[id].status = "COMPLETED"

\* Runs advance through the table as RunLifecycle promises, across restarts
\* and failures.
Lifecycle == INSTANCE RunLifecycle WITH status <- Status
LifecycleSpec == Lifecycle!Spec

\* A call returns, whatever fails.
Terminates == (pc # "idle") ~> (pc = "idle")
============================================================================
