------------------------------ MODULE Journal ------------------------------
(***************************************************************************)
(* What the analyst and the rules put on record: tags, notes, saved        *)
(* queries, engagements with their objectives, findings, snapshots and     *)
(* their comparison.                                                       *)
(*                                                                         *)
(* FindingStore shows that a finding has one row for its key (rule and     *)
(* entity), so findings maps keys to texts here, and an evaluation is one  *)
(* step.  The identifiers of assessments and snapshots share one space:    *)
(* <<"ASSESS", n>> and <<"SNAP-ASSESS", n>> are what an evaluation uses,   *)
(* <<"SNAP", n>> a snapshot without a name, and a user may give any name,  *)
(* one of those included; a name without a number is <<text>>.             *)
(***************************************************************************)
EXTENDS Records

CONSTANTS Entity, TagName, Content,  \* what is annotated and with what
          QueryName, Command,
          Title,                     \* of engagements and objectives
          SnapName,                  \* the names a user gives to snapshots, identifiers
          Key, Text                  \* findings: rule and entity, title and description

VARIABLES tags, notes, queries, engagements, objectives,
          findings, assessments, snapshots,
          evaluations  \* the number of evaluations, recorded in the snapshots

journalVars == <<tags, notes, queries, engagements, objectives,
                 findings, assessments, snapshots, evaluations>>

InitJournal ==
  /\ tags = NoRows /\ notes = NoRows /\ queries = NoRows
  /\ engagements = NoRows /\ objectives = NoRows
  /\ findings = NoRows /\ assessments = {} /\ snapshots = NoRows
  /\ evaluations = 0

----------------------------------------------------------------------------
(* Tags, notes, saved queries *)

\* INSERT OR IGNORE: a row with the identifier, or with the entity and the
\* name, is kept, and the call reports no error.
InsertTag(id, row) ==
  tags' = IF \E i \in DOMAIN tags : tags[i] = row THEN tags ELSE Insert(tags, id, row)

AddTag(entity, name, f) ==
  /\ Call(f) /\ f \in {"none", "number", "save"}
  /\ \E n \in Number :
       /\ NextSequence("tag", n, f)
       /\ IF f = "save" THEN UNCHANGED <<tags, known>>
          ELSE /\ InsertTag(n, [entity |-> entity, name |-> name])
               /\ Acknowledge(n, <<"tag", entity, name>>, {})
  /\ UNCHANGED <<audit, notes, queries, engagements, objectives,
                 findings, assessments, snapshots, evaluations>>

InsertNote(id, row) == notes' = Insert(notes, id, row)

AddNote(entity, content, f) ==
  /\ Call(f) /\ f \in {"none", "number", "save"}
  /\ \E n \in Number :
       /\ NextSequence("note", n, f)
       /\ IF f = "save" \/ n \in DOMAIN notes THEN UNCHANGED <<notes, known>>
          ELSE /\ InsertNote(n, [entity |-> entity, content |-> content])
               /\ Acknowledge(n, <<"note", entity, content>>, {})
  /\ UNCHANGED <<audit, tags, queries, engagements, objectives,
                 findings, assessments, snapshots, evaluations>>

\* INSERT OR REPLACE: the row with the identifier and the row with the name go.
InsertSavedQuery(id, row) ==
  queries' = Put([i \in {i \in DOMAIN queries : queries[i].name # row.name} |-> queries[i]],
                 id, row)

SaveQuery(name, command, f) ==
  /\ Call(f) /\ f \in {"none", "number", "save"}
  /\ \E n \in Number :
       /\ NextSequence("query", n, f)
       /\ IF f = "save" THEN UNCHANGED <<queries, known>>
          ELSE /\ InsertSavedQuery(n, [name |-> name, command |-> command])
               /\ Acknowledge(n, <<"query", name, command>>,
                              {fact \in known : fact[1] = "query" /\ fact[2] = name})
  /\ UNCHANGED <<audit, tags, notes, engagements, objectives,
                 findings, assessments, snapshots, evaluations>>

----------------------------------------------------------------------------
(* Engagements and objectives *)

\* SaveEngagement updates the row if there is one.  created_at is in whole
\* seconds: an engagement may be of the same second as the one before it.
SaveEngagement(id, name) ==
  LET latest == {engagements[i].created : i \in DOMAIN engagements} \cup {0} IN
  \E now \in {s \in 0 .. MaxCall : \A t \in latest : t <= s /\ s <= Cardinality(DOMAIN engagements)} :
     engagements' = IF id \in DOMAIN engagements
                    THEN [engagements EXCEPT ![id].name = name]
                    ELSE Insert(engagements, id, [name |-> name, created |-> now])

CreateEngagement(name, f) ==
  /\ Call(f) /\ f \in {"none", "number", "save"}
  /\ \E n \in Number :
       /\ NextSequence("engagement", n, f)
       /\ IF f = "save" THEN UNCHANGED <<engagements, known>>
          ELSE /\ SaveEngagement(n, name)
               /\ Acknowledge(n, <<"engagement", n, name>>, {})
  /\ UNCHANGED <<audit, tags, notes, queries, objectives,
                 findings, assessments, snapshots, evaluations>>

\* The engagement of the latest second; any one of those that tie.
GetActiveEngagement ==
  {i \in DOMAIN engagements :
     \A k \in DOMAIN engagements : engagements[k].created <= engagements[i].created}

\* INSERT OR REPLACE by identifier; the engagement must be stored.
SaveObjective(id, row) == objectives' = Put(objectives, id, row)

\* The engagement of the command: a made-up one, ENG-001, when there is none or
\* the lookup fails.
EngagementInUse(f) ==
  IF f = "lookup" \/ engagements = NoRows THEN {1} ELSE GetActiveEngagement

\* The foreign key rejects an objective of an engagement that is not stored.
AddObjective(title, f) ==
  /\ Call(f) /\ f \in {"none", "lookup", "number", "save"}
  /\ \E n \in Number, e \in EngagementInUse(f) :
       /\ NextSequence("objective", n, f)
       /\ IF f = "save" \/ e \notin DOMAIN engagements THEN UNCHANGED <<objectives, known>>
          ELSE /\ SaveObjective(n, [engagement |-> e, title |-> title])
               /\ Acknowledge(n, <<"objective", e, title>>, {})
  /\ UNCHANGED <<audit, tags, notes, queries, engagements,
                 findings, assessments, snapshots, evaluations>>

----------------------------------------------------------------------------
(* Findings and snapshots *)

Report == UNION {[K -> Text] : K \in SUBSET Key}

\* The order in which snapshots are taken and what was evaluated by then go
\* with the row; the database does not keep them.
SnapshotRow(assessment, content) ==
  [assessment |-> assessment, content |-> content,
   order |-> Cardinality(DOMAIN snapshots) + 1, evaluations |-> evaluations']

InsertAssessment(id) == assessments' = assessments \cup {id}

InsertAssessmentSnapshot(id, row) == snapshots' = Insert(snapshots, id, row)

\* The assessment is made to exist first.
SaveAssessmentSnapshot(id, row) ==
  InsertAssessment(row.assessment) /\ InsertAssessmentSnapshot(id, row)

\* A slip: what is not reported any more is removed.
SaveFindingsReplacing(report) == findings' = report

\* Every finding reported is stored, with its text; no other one is touched.
SaveFindings(report) ==
  findings' = [k \in DOMAIN report \cup DOMAIN findings |->
                 IF k \in DOMAIN report THEN report[k] ELSE findings[k]]

\* Engine.Run.  A failing statement ends it after some of the findings; the
\* errors of numbering the assessment and of saving the snapshot are ignored.
Evaluate(f) ==
  /\ f \in {"none", "finding", "number", "snapshot"}
  /\ evaluations' = evaluations + 1
  /\ \E report \in Report :
       /\ SaveFindings(report)
       /\ IF f = "finding" THEN UNCHANGED <<seq, assessments, snapshots>>
          ELSE \E n \in Number :
                 /\ NextSequence("assessment", n, f)
                 /\ IF f = "snapshot"
                    THEN InsertAssessment(<<"ASSESS", n>>) /\ UNCHANGED snapshots
                    ELSE SaveAssessmentSnapshot(<<"SNAP-ASSESS", n>>,
                                                SnapshotRow(<<"ASSESS", n>>, report))
  /\ UNCHANGED <<audit, known, tags, notes, queries, engagements, objectives>>

RunAssessment(f) == Call(f) /\ Evaluate(f)

\* The snapshot's own assessment is made to exist, if only in name; an identifier
\* in use is an error, a failing ListFindings an empty list.
TakeSnapshot(id, f) ==
  LET content == IF f = "list" THEN NoRows ELSE findings IN
  IF f = "save" \/ id \in DOMAIN snapshots
  THEN InsertAssessment(id) /\ UNCHANGED <<snapshots, known>>
  ELSE /\ SaveAssessmentSnapshot(id, SnapshotRow(id, content))
       /\ known' = known \cup {<<"snapshot", id, content>>}

\* The name the user gave is the identifier, whatever it is.
NoName == <<"">>

CreateSnapshot(name, f) ==
  /\ Call(f) /\ f \in {"none", "list", "number", "save"}
  /\ evaluations' = evaluations
  /\ \/ name # NoName /\ f # "number" /\ TakeSnapshot(name, f) /\ UNCHANGED seq
     \/ name = NoName /\ \E n \in Number :
                          NextSequence("snapshot", n, f) /\ TakeSnapshot(<<"SNAP", n>>, f)
  /\ UNCHANGED <<audit, tags, notes, queries, engagements, objectives, findings>>

\* GetSnapshot, LIMIT 1 without an order: any one of the rows with the assessment
\* or with the identifier.
GetSnapshot(id) == {i \in DOMAIN snapshots : id \in {i, snapshots[i].assessment}}

\* CompareSnapshots, by the keys of the findings.
CompareSnapshots(base, target) ==
  [added   |-> DOMAIN target \ DOMAIN base,
   removed |-> DOMAIN base \ DOMAIN target,
   changed |-> {k \in DOMAIN base \cap DOMAIN target : base[k] # target[k]}]

----------------------------------------------------------------------------
(* What the lists show *)

ListTags(entity) == {tags[i].name : i \in {i \in DOMAIN tags : tags[i].entity = entity}}
ListNotes(entity) == {notes[i].content : i \in {i \in DOMAIN notes : notes[i].entity = entity}}
ListObjectives(e) ==
  {objectives[i].title : i \in {i \in DOMAIN objectives : objectives[i].engagement = e}}
ListSnapshots == {<<i, snapshots[i].content>> : i \in DOMAIN snapshots}
ListSavedQueries == {<<queries[i].name, queries[i].command>> : i \in DOMAIN queries}

\* The snapshots of evaluations whose assessment has this identifier.
SnapshotsOf(id) == {<<"SNAP-ASSESS", n>> : n \in {n \in Number : id = <<"ASSESS", n>>}}

\* The lists of the journal as facts, see Records.  Under a snapshot's identifier
\* it is found too, or one an evaluation took of the assessment of that name.
JournalShows(fact) ==
  CASE fact[1] = "tag"        -> fact[3] \in ListTags(fact[2])
    [] fact[1] = "note"       -> fact[3] \in ListNotes(fact[2])
    [] fact[1] = "query"      -> <<fact[2], fact[3]>> \in ListSavedQueries
    [] fact[1] = "engagement" -> fact[2] \in DOMAIN engagements /\ engagements[fact[2]].name = fact[3]
    [] fact[1] = "objective"  -> fact[3] \in ListObjectives(fact[2])
    [] fact[1] = "snapshot"   -> /\ <<fact[2], fact[3]>> \in ListSnapshots
                                 /\ fact[2] \in GetSnapshot(fact[2])
                                 /\ GetSnapshot(fact[2]) \subseteq {fact[2]} \cup SnapshotsOf(fact[2])

----------------------------------------------------------------------------
\* An evaluation's snapshot is of an assessment; one that a user takes, under
\* whatever name, is an assessment of its own.
TakenByUser(i) == snapshots[i].assessment = i

\* A finding never leaves the record: compared with a snapshot the user takes
\* later, nothing counts as removed, and nothing as changed or, if the user took
\* the first one too, as added unless the rules were evaluated in between; unless
\* a statement failed, since CreateSnapshot goes on without the findings then.
SnapshotsAgree == faults = 0 =>
  \A b, t \in DOMAIN snapshots :
    LET diff == CompareSnapshots(snapshots[b].content, snapshots[t].content) IN
    TakenByUser(t) /\ snapshots[b].order < snapshots[t].order =>
      /\ diff.removed = {}
      /\ snapshots[b].evaluations = snapshots[t].evaluations =>
           /\ diff.changed = {}
           /\ TakenByUser(b) => diff.added = {}
=============================================================================
