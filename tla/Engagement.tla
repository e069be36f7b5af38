----------------------------- MODULE Engagement -----------------------------
(***************************************************************************)
(* The commands of the falcon shell that plan, record and assess           *)
(* (internal/cli/commands.go) over app.App: Targets, Journal and Importer  *)
(* on one workspace.  Each command is the calls it makes; commands that    *)
(* only show something are the operators the last section reads.  No       *)
(* command calls SaveQuery, which is there for other callers.              *)
(***************************************************************************)
EXTENDS Targets, Journal, Importer

vars == <<recordVars, targetVars, journalVars, importVars>>

Init == InitRecords /\ InitTargets /\ InitJournal /\ InitImporter

Faults == {"none", "lookup", "guard", "number", "save", "before", "finding", "snapshot",
           "list", "host"}

\* target <value>, target add, target remove, target exclude
TargetCommand ==
  /\ \/ \E input \in Input, f \in Faults : SetTarget(input, f)
     \/ \E input \in Input : SetTargetRejected(input)
     \/ \E i \in DOMAIN targets : DeleteTarget(i)
     \/ \E pattern \in Pattern, f \in Faults : AddScopeRule("exclude", pattern, f)
  /\ UNCHANGED <<journalVars, importVars>>

\* scope add, include, exclude, remove
ScopeCommand ==
  /\ \/ \E type \in {"include", "exclude"}, pattern \in Pattern, f \in Faults :
          AddScopeRule(type, pattern, f)
     \/ \E i \in DOMAIN rules : DeleteScopeRule(i)
  /\ UNCHANGED <<journalVars, importVars>>

\* assess: a target by its identifier or value, or the active one.  It is
\* contacted, what answers is ingested, and the rules are evaluated; an error
\* of the evaluation is recorded in the run.
AssessCommand ==
  \E i \in DOMAIN targets, f \in Faults, done \in BOOLEAN :
    /\ Call(f) /\ f \in {"none", "before", "finding", "number", "snapshot"}
    /\ ExecuteAssessment(i, f, done)
    /\ IF done THEN Evaluate(f)
               ELSE UNCHANGED <<seq, audit, known, journalVars>>
    /\ \E up \in BOOLEAN :
         hosts' = hosts \cup {h.addr : h \in {h \in contact' : up /\ h.form = "ip"}}
    /\ UNCHANGED networks

\* The commands of the journal, and SaveQuery.
TagsCommand == \E e \in Entity, name \in TagName, f \in Faults : AddTag(e, name, f)
NotesCommand == \E e \in Entity, c \in Content, f \in Faults : AddNote(e, c, f)
EngagementCommand == \E name \in Title, f \in Faults : CreateEngagement(name, f)
ObjectivesCommand == \E title \in Title, f \in Faults : AddObjective(title, f)
SnapshotCommand == \E name \in SnapName \cup {NoName}, f \in Faults : CreateSnapshot(name, f)
FindingsCommand == \E f \in Faults : RunAssessment(f)

JournalCommand ==
  /\ \/ TagsCommand \/ NotesCommand \/ EngagementCommand \/ ObjectivesCommand
     \/ SnapshotCommand \/ FindingsCommand
     \/ \E name \in QueryName, c \in Command, f \in Faults : SaveQuery(name, c, f)
  /\ contact' = {} /\ UNCHANGED <<targets, rules, importVars>>

\* import, import --dry-run, validate
ImportCommand ==
  /\ \/ \E file \in File, f \in Faults, at \in 1 .. 2 : ImportFile(file, f, at)
     \/ ImportNothing
  /\ contact' = {} /\ UNCHANGED <<targets, rules, journalVars>>

Next == TargetCommand \/ ScopeCommand \/ AssessCommand \/ JournalCommand \/ ImportCommand

Spec == Init /\ [][Next]_vars

----------------------------------------------------------------------------
(* Properties *)

\* What a call acknowledged is what the lists show from then on: no later call
\* that fails, replaces, ignores a conflict or stops half-way takes it away,
\* until the user deletes it or saves a query under the same name.
AcknowledgedIsListed ==
  \A fact \in known :
    CASE fact[1] = "target" -> GetTargetByNormalizedValue(fact[2]) # {}
      [] fact[1] = "rule" -> /\ fact[2] \in DOMAIN rules
                             /\ rules[fact[2]] = [type |-> fact[3], pattern |-> RulePattern(fact[4])]
      [] fact[1] \in {"host", "network"} -> ImportShows(fact)
      [] OTHER -> JournalShows(fact)
=============================================================================
