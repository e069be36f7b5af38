------------------------------ MODULE Records ------------------------------
(***************************************************************************)
(* What the calls of app.App that record something share: the tables, the  *)
(* numbers that identify rows, the audit trail, and what the user has been *)
(* told.  A process makes one call at a time, and a call is one step here: *)
(* the statements of a call and several processes are the subject of       *)
(* SequenceStore, HostIngest and FindingStore.                             *)
(*                                                                         *)
(* A table is a function from the identifiers of its rows to the rows.     *)
(* known holds what the calls acknowledged: a call adds what it returned   *)
(* without an error, if its row got a number, and a deletion removes it.   *)
(* At most one statement of a call fails.                                  *)
(***************************************************************************)
EXTENDS Integers, Sequences, FiniteSets

CONSTANTS MaxCall,  \* bound on the number of calls
          MaxFault  \* bound on the number of calls in which a statement fails

ASSUME RecordsAssumption == {MaxCall, MaxFault} \subseteq Nat

VARIABLES seq,    \* the sequences table
          audit,  \* audit_events
          known, calls, faults

recordVars == <<seq, audit, known, calls, faults>>

SeqName == {"target", "scoperule", "tag", "note", "query", "engagement", "objective",
            "snapshot", "assessment", "network"}

NoRows == << >>

InitRecords ==
  /\ seq = [s \in SeqName |-> 0]
  /\ audit = NoRows /\ known = {}
  /\ calls = 0 /\ faults = 0

\* The row is written whether or not there is one.
Put(rows, id, row) == [i \in DOMAIN rows \cup {id} |-> IF i = id THEN row ELSE rows[i]]

\* A plain INSERT: it fails when the identifier is taken.
Insert(rows, id, row) == IF id \in DOMAIN rows THEN rows ELSE Put(rows, id, row)

Without(rows, id) == [i \in DOMAIN rows \ {id} |-> rows[i]]

\* A call begins in which the statement f fails, "none" for no statement.
Call(f) ==
  /\ calls < MaxCall /\ calls' = calls + 1
  /\ IF f = "none" THEN faults' = faults ELSE faults < MaxFault /\ faults' = faults + 1

\* A slip: the increment is not stored.
NextSequenceUnstored(name, n, f) ==
  /\ n = IF f = "number" THEN 0 ELSE seq[name] + 1
  /\ seq' = seq

\* NextSequence, as its callers see it: they ignore its error and go on with
\* number 0, whether or not the increment was stored.
NextSequence(name, n, f) ==
  LET incremented == [seq EXCEPT ![name] = @ + 1] IN
  IF f = "number" THEN n = 0 /\ seq' \in {seq, incremented}
                  ELSE n = seq[name] + 1 /\ seq' = incremented

Number == 0 .. MaxCall

\* What a call that returns without an error tells the user, in place of what
\* it told about the same row before.
Acknowledge(n, fact, replaced) ==
  known' = (known \ replaced) \cup (IF n > 0 THEN {fact} ELSE {})

\* Repository.RecordAuditEvent, whose error every caller here ignores.
RecordAuditEvent(id, event) == audit' = Insert(audit, id, event)
=============================================================================
