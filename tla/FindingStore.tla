---------------------------- MODULE FindingStore ----------------------------
(***************************************************************************)
(* Engine.Run (internal/assessment/engine.go): the rules are evaluated     *)
(* over the workspace, every finding they report is saved under the        *)
(* identifier of the finding with the same key (rule and entity) if there  *)
(* is one, and the run is recorded with a snapshot of its findings.  The   *)
(* grain is that of the SQL statements, as in HostIngest.                  *)
(*                                                                         *)
(* Of a finding the model keeps its key, its text (title and description)  *)
(* and the identifiers of its evidence.  What the rules report is read     *)
(* from subject: each rule reports at most one finding per entity.         *)
(***************************************************************************)
EXTENDS Naturals, FiniteSets

CONSTANTS Proc, Key, Text, Evidence, NoKey,
          MaxRun,    \* bound on the number of evaluations
          MaxChange, \* bound on the changes of the workspace between them
          MaxFault, MaxCrash

ASSUME FindingAssumption ==
  {MaxRun, MaxChange, MaxFault, MaxCrash} \subseteq Nat /\ NoKey \notin Key

VARIABLES
  subject,    \* what the rules would report now: key -> text and evidence
  seq,        \* the finding and assessment sequences
  findings,   \* findings[id]
  assessment, \* assessment[id]: total_findings and new_findings
  snapshot,   \* snapshot[id], of assessment id: its findings, by id
  pc, job,    \* what each process executes next, and its locals
  outcome,    \* how each process's last call ended
  runs, changes, faults, crashes

tables == <<findings, assessment, snapshot>>
counts == <<runs, changes, faults, crashes>>
vars == <<subject, seq, tables, pc, job, outcome, counts>>

Report == [text : Text, ev : SUBSET Evidence]
Finding == [key : Key, text : Text, ev : SUBSET Evidence]

NoMap == << >>
NoJob == [known |-> NoMap, todo |-> NoMap, key |-> NoKey, id |-> 0, exists |-> FALSE,
          final |-> NoMap, new |-> 0, run |-> 0]

Put(map, i, v) == [k \in DOMAIN map \cup {i} |-> IF k = i THEN v ELSE map[k]]
Drop(map, i) == [k \in DOMAIN map \ {i} |-> map[k]]

Init ==
  /\ subject = NoMap
  /\ seq = [n \in {"finding", "assessment"} |-> 0]
  /\ findings = NoMap /\ assessment = NoMap /\ snapshot = NoMap
  /\ pc = [p \in Proc |-> "idle"] /\ job = [p \in Proc |-> NoJob]
  /\ outcome = [p \in Proc |-> "none"]
  /\ runs = 0 /\ changes = 0 /\ faults = 0 /\ crashes = 0

----------------------------------------------------------------------------
(* Control *)

Continue(p, label, j) ==
  /\ pc' = [pc EXCEPT ![p] = label]
  /\ job' = [job EXCEPT ![p] = j]
  /\ outcome' = outcome

Finish(p, how, j) ==
  /\ pc' = [pc EXCEPT ![p] = "idle"]
  /\ job' = [job EXCEPT ![p] = j]
  /\ outcome' = [outcome EXCEPT ![p] = how]

Begin(p) ==
  /\ pc[p] = "idle" /\ runs < MaxRun /\ runs' = runs + 1
  /\ Continue(p, "load", NoJob)
  /\ UNCHANGED <<subject, seq, tables, changes, faults, crashes>>

\* A slip: the stored findings are not loaded.
LoadNothing(p) ==
  /\ pc[p] = "load"
  /\ Continue(p, "evaluate", job[p])
  /\ UNCHANGED <<subject, seq, tables, counts>>

\* ListFindings, in order of id; of findings with one key the last one counts.
Load(p) ==
  LET Of(k) == {i \in DOMAIN findings : findings[i].key = k} IN
  /\ pc[p] = "load"
  /\ Continue(p, "evaluate",
       [job[p] EXCEPT !.known =
          [k \in {findings[i].key : i \in DOMAIN findings} |->
             CHOOSE i \in Of(k) : \A h \in Of(k) : h <= i]])
  /\ UNCHANGED <<subject, seq, tables, counts>>

Evaluate(p) ==
  /\ pc[p] = "evaluate"
  /\ Continue(p, "next", [job[p] EXCEPT !.todo = subject])
  /\ UNCHANGED <<subject, seq, tables, counts>>

\* The next finding gets the identifier of a known one, or a new one.
NextFinding(p) ==
  /\ pc[p] = "next"
  /\ \E k \in DOMAIN job[p].todo :
       LET j == [job[p] EXCEPT !.key = k] IN
       IF k \in DOMAIN j.known THEN Continue(p, "get", [j EXCEPT !.id = j.known[k]])
                               ELSE Continue(p, "bump", j)
  /\ UNCHANGED <<subject, seq, tables, counts>>

\* All are saved: the assessment is numbered.
NoMoreFindings(p) ==
  /\ pc[p] = "next" /\ DOMAIN job[p].todo = {}
  /\ Continue(p, "bump", [job[p] EXCEPT !.key = NoKey])
  /\ UNCHANGED <<subject, seq, tables, counts>>

SeqOf(j) == IF j.key = NoKey THEN "assessment" ELSE "finding"

Bump(p) ==
  /\ pc[p] = "bump"
  /\ seq' = [seq EXCEPT ![SeqOf(job[p])] = @ + 1]
  /\ Continue(p, "read", job[p])
  /\ UNCHANGED <<subject, tables, counts>>

Numbered(p, v) ==
  IF job[p].key = NoKey THEN Continue(p, "assess", [job[p] EXCEPT !.run = v])
                        ELSE Continue(p, "get", [job[p] EXCEPT !.id = v])

\* A slip: the number after the one that was reserved.
ReadAhead(p) ==
  /\ pc[p] = "read"
  /\ Numbered(p, seq[SeqOf(job[p])] + 1)
  /\ UNCHANGED <<subject, seq, tables, counts>>

Read(p) ==
  /\ pc[p] = "read"
  /\ Numbered(p, seq[SeqOf(job[p])])
  /\ UNCHANGED <<subject, seq, tables, counts>>

----------------------------------------------------------------------------
(* Saving *)

\* SaveFinding selects the row ...
Get(p) ==
  /\ pc[p] = "get"
  /\ Continue(p, "write", [job[p] EXCEPT !.exists = job[p].id \in DOMAIN findings])
  /\ UNCHANGED <<subject, seq, tables, counts>>

\* What a save leaves behind in the locals.
Saved(j, f) ==
  [j EXCEPT !.todo = Drop(@, j.key), !.final = Put(@, j.id, f),
            !.new = IF j.key \in DOMAIN j.known THEN @ ELSE @ + 1]

\* A slip: a finding that was stored before is left as it is.
WriteInsertOnly(p) ==
  LET j == job[p]
      f == [key |-> j.key, text |-> j.todo[j.key].text, ev |-> j.todo[j.key].ev] IN
  /\ pc[p] = "write"
  /\ findings' = IF j.id \in DOMAIN findings THEN findings ELSE Put(findings, j.id, f)
  /\ Continue(p, "next", Saved(j, f))
  /\ UNCHANGED <<subject, seq, assessment, snapshot, counts>>

\* A slip: the loop does not advance.
WriteAgain(p) ==
  LET j == job[p]
      f == [key |-> j.key, text |-> j.todo[j.key].text, ev |-> j.todo[j.key].ev] IN
  /\ pc[p] = "write"
  /\ findings' = Put(findings, j.id, f)
  /\ Continue(p, "next", [Saved(j, f) EXCEPT !.todo = j.todo])
  /\ UNCHANGED <<subject, seq, assessment, snapshot, counts>>

\* ... and updates its text, its status and its times, or inserts it whole.
\* The finding Engine.Run goes on with has the evidence just reported.
Write(p) ==
  LET j == job[p]
      f == [key |-> j.key, text |-> j.todo[j.key].text, ev |-> j.todo[j.key].ev] IN
  /\ pc[p] = "write"
  /\ IF ~j.exists /\ j.id \in DOMAIN findings
       THEN Finish(p, "err", NoJob) /\ UNCHANGED findings
       ELSE /\ findings' = IF j.exists THEN [findings EXCEPT ![j.id].text = f.text]
                                       ELSE Put(findings, j.id, f)
            /\ Continue(p, "next", Saved(j, f))
  /\ UNCHANGED <<subject, seq, assessment, snapshot, counts>>

Insert(table, i, row) == IF i \in DOMAIN table THEN table ELSE Put(table, i, row)

\* SaveAssessment; its error is ignored.
SaveAssessment(p) ==
  LET j == job[p] IN
  /\ pc[p] = "assess"
  /\ assessment' = Insert(assessment, j.run, [total |-> Cardinality(DOMAIN j.final), new |-> j.new])
  /\ Continue(p, "stub", j)
  /\ UNCHANGED <<subject, seq, findings, snapshot, counts>>

\* A slip: INSERT OR REPLACE, which wipes the counts.
SaveStubReplacing(p) ==
  /\ pc[p] = "stub"
  /\ assessment' = Put(assessment, job[p].run, [total |-> 0, new |-> 0])
  /\ Continue(p, "snap", job[p])
  /\ UNCHANGED <<subject, seq, findings, snapshot, counts>>

\* SaveAssessmentSnapshot first inserts an assessment without counts, so that
\* the snapshot's foreign key holds; that fails if there is one ...
SaveStub(p) ==
  /\ pc[p] = "stub"
  /\ assessment' = Insert(assessment, job[p].run, [total |-> 0, new |-> 0])
  /\ Continue(p, "snap", job[p])
  /\ UNCHANGED <<subject, seq, findings, snapshot, counts>>

\* ... then the snapshot, whose foreign key must hold; the error is ignored.
SaveSnapshot(p) ==
  LET j == job[p] IN
  /\ pc[p] = "snap"
  /\ snapshot' = IF j.run \in DOMAIN assessment THEN Insert(snapshot, j.run, j.final) ELSE snapshot
  /\ Finish(p, "ok", j)
  /\ UNCHANGED <<subject, seq, findings, assessment, counts>>

----------------------------------------------------------------------------
(* Failures; the workspace *)

\* A slip: the error of saving a finding is ignored.
FaultIgnored(p) ==
  LET j == job[p] IN
  /\ faults < MaxFault /\ faults' = faults + 1
  /\ pc[p] = "write"
  /\ Continue(p, "next", Saved(j, [key |-> j.key, text |-> j.todo[j.key].text, ev |-> {}]))
  /\ UNCHANGED <<subject, seq, tables, runs, changes, crashes>>

\* A statement fails.  Numbering and recording the assessment go on regardless,
\* with number 0 if need be; any other failure ends the run.
Fault(p) ==
  /\ faults < MaxFault /\ faults' = faults + 1
  /\ \/ pc[p] \in {"load", "evaluate", "get", "write"} /\ Finish(p, "err", NoJob)
     \/ /\ pc[p] \in {"bump", "read"}
        /\ IF job[p].key = NoKey THEN Numbered(p, 0) ELSE Finish(p, "err", NoJob)
     \/ pc[p] = "assess" /\ Continue(p, "stub", job[p])
     \/ pc[p] = "stub" /\ Continue(p, "snap", job[p])
     \/ pc[p] = "snap" /\ Finish(p, "ok", job[p])
  /\ UNCHANGED <<subject, seq, tables, runs, changes, crashes>>

Crash(p) ==
  /\ pc[p] # "idle" /\ crashes < MaxCrash /\ crashes' = crashes + 1
  /\ Finish(p, "killed", NoJob)
  /\ UNCHANGED <<subject, seq, tables, runs, changes, faults>>

\* Ingestion between evaluations: an entity is seen again with new evidence or
\* another description, or a service is no longer open.
Change ==
  /\ changes < MaxChange /\ changes' = changes + 1
  /\ \A p \in Proc : pc[p] = "idle"
  /\ \E k \in Key :
       \/ \E r \in Report : /\ k \in DOMAIN subject => subject[k].ev \subseteq r.ev
                            /\ subject' = Put(subject, k, r)
       \/ k \in DOMAIN subject /\ subject' = Drop(subject, k)
  /\ outcome' = [p \in Proc |-> "none"] /\ job' = [p \in Proc |-> NoJob]
  /\ UNCHANGED <<seq, tables, pc, runs, faults, crashes>>

Next == Change \/ \E p \in Proc :
  \/ Begin(p) \/ Load(p) \/ Evaluate(p) \/ NextFinding(p) \/ NoMoreFindings(p)
  \/ Bump(p) \/ Read(p) \/ Get(p) \/ Write(p)
  \/ SaveAssessment(p) \/ SaveStub(p) \/ SaveSnapshot(p) \/ Fault(p) \/ Crash(p)

Spec == Init /\ [][Next]_vars

----------------------------------------------------------------------------
(* Properties *)

TypeOK ==
  /\ DOMAIN subject \subseteq Key /\ \A k \in DOMAIN subject : subject[k] \in Report
  /\ seq \in [{"finding", "assessment"} -> Nat]
  /\ \A i \in DOMAIN findings : i \in Nat /\ findings[i] \in Finding
  /\ \A a \in DOMAIN assessment : a \in Nat /\ assessment[a] \in [total : Nat, new : Nat]
  /\ \A a \in DOMAIN snapshot : \A i \in DOMAIN snapshot[a] : snapshot[a][i] \in Finding
  /\ pc \in [Proc -> {"idle", "load", "evaluate", "next", "bump", "read", "get", "write",
                      "assess", "stub", "snap"}]
  /\ \A p \in Proc : /\ DOMAIN job[p].todo \subseteq Key
                     /\ job[p].new \in 0 .. Cardinality(Key)
  /\ outcome \in [Proc -> {"none", "ok", "err", "killed"}]

\* A rule's finding about an entity has one row, however often the rules are
\* evaluated and wherever an evaluation was cut short.
OneFindingPerKey ==
  \A i, k \in DOMAIN findings : findings[i].key = findings[k].key => i = k

Done(p) == pc[p] = "idle" /\ outcome[p] = "ok"

\* Everything the rules report at the time of a run that succeeds is stored
\* with its current text, and the snapshot lists exactly that; unless a
\* statement failed, since the error of saving a snapshot is ignored.
ReportedIsStored ==
  faults = 0 => \A p \in Proc : Done(p) =>
    LET listed == snapshot[job[p].run] IN
    /\ Cardinality(DOMAIN listed) = Cardinality(DOMAIN subject)
    /\ \A k \in DOMAIN subject :
         \E i \in DOMAIN findings :
           /\ findings[i].key = k /\ findings[i].text = subject[k].text
           /\ listed[i] = [key |-> k, text |-> subject[k].text, ev |-> subject[k].ev]

\* The counts of an assessment agree with its snapshot, unless a statement
\* failed, since the error of saving an assessment is ignored.
CountsAgree == faults = 0 =>
  \A a \in DOMAIN snapshot :
    /\ a \in DOMAIN assessment
    /\ assessment[a].total = Cardinality(DOMAIN snapshot[a])
    /\ assessment[a].new <= assessment[a].total

\* A snapshot belongs to an assessment and lists stored findings, whatever
\* fails and however two evaluations interleave.
SnapshotsResolve ==
  \A a \in DOMAIN snapshot :
    a \in DOMAIN assessment /\ DOMAIN snapshot[a] \subseteq DOMAIN findings

\* "Update last observed and evidence": after a run that succeeds the stored
\* finding has the evidence the rule reported.
EvidenceIsStored ==
  \A p \in Proc : Done(p) =>
    \A i \in DOMAIN job[p].final : findings[i].ev = job[p].final[i].ev
============================================================================
