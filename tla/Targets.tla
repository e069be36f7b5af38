------------------------------ MODULE Targets ------------------------------
(***************************************************************************)
(* Targets and scope rules: SetTarget, DeleteTarget, AddScopeRule,         *)
(* DeleteScopeRule and the scope check of ExecuteAssessment.               *)
(*                                                                         *)
(* contact is the set of the literal hosts that the collectors of the last *)
(* call contacted, an address or a name each; what a redirect or the DNS   *)
(* leads to is left out.                                                   *)
(***************************************************************************)
EXTENDS Records, ScopeGuard

CONSTANTS Input,   \* what the user gives as targets, see ScopeGuard
          Pattern  \* what the user gives as scope patterns

ASSUME TargetsAssumption == \A input \in Input \cup Pattern : WellFormed(input)

VARIABLES targets,  \* targets[id]: the normalized input and the status
          rules,    \* scope_rules[id]: the type and the pattern
          contact

targetVars == <<targets, rules, contact>>

InitTargets == targets = NoRows /\ rules = NoRows /\ contact = {}

----------------------------------------------------------------------------
(* The tables *)

InsertTarget(id, row) == Insert(targets, id, row)

\* The value and the status change, the identifier stays.
UpdateTarget(id, row) == [targets EXCEPT ![id] = row]

GetTarget(id) == {i \in DOMAIN targets : i = id}

\* The upsert of the repository.
SaveTarget(id, row) ==
  targets' = IF GetTarget(id) = {} THEN InsertTarget(id, row) ELSE UpdateTarget(id, row)

GetTargetByNormalizedValue(value) == {i \in DOMAIN targets : targets[i].value = value}

StoredTargets == {targets[i].value : i \in DOMAIN targets}

InsertScopeRule(id, row) == Insert(rules, id, row)

ListScopeRules(type) == {rules[i].pattern : i \in {i \in DOMAIN rules : rules[i].type = type}}

----------------------------------------------------------------------------
(* The calls *)

\* From every rule and every target that is stored now.
BuildScopeGuard ==
  NewScopeGuard(ListScopeRules("include"), ListScopeRules("exclude"), StoredTargets)

\* The events of SetTarget all have the identifier 1.
ReturnTarget(n, value, event) ==
  /\ Acknowledge(n, <<"target", value>>, {})
  /\ RecordAuditEvent(1, event)

\* A target with the value is made active again, without asking the guard.
Activate(i, f) ==
  /\ f \in {"none", "save"}
  /\ IF f = "save" THEN UNCHANGED <<targets, audit, known>>
     ELSE /\ SaveTarget(i, [targets[i] EXCEPT !.status = "active"])
          /\ ReturnTarget(i, targets[i].value, "activated")
  /\ UNCHANGED seq

\* A new target must pass the guard, unless building the guard fails.
Create(value, f) ==
  IF f # "guard" /\ ~Validate(BuildScopeGuard, value)
  THEN UNCHANGED <<targets, seq, audit, known>>
  ELSE \E n \in Number :
         /\ NextSequence("target", n, f)
         /\ IF f = "save" THEN UNCHANGED <<targets, audit, known>>
            ELSE /\ SaveTarget(n, [value |-> value, status |-> "active"])
                 /\ ReturnTarget(n, value, "created")

\* A lookup that fails counts as one that finds nothing.
SetTarget(input, f) ==
  LET value == Normalized(input)
      found == IF f = "lookup" THEN {} ELSE GetTargetByNormalizedValue(value) IN
  /\ Call(f) /\ Recognized(input)
  /\ f \in {"none", "lookup", "guard", "number", "save"}
  /\ IF found # {} THEN \E i \in found : Activate(i, f) ELSE Create(value, f)
  /\ contact' = {} /\ UNCHANGED rules

\* ParseTarget rejects the input.
SetTargetRejected(input) ==
  /\ Call("none") /\ ~Recognized(input)
  /\ contact' = {} /\ UNCHANGED <<targets, rules, seq, audit, known>>

DeleteTarget(i) ==
  /\ Call("none")
  /\ targets' = Without(targets, i)
  /\ known' = known \ {<<"target", targets[i].value>>}
  /\ contact' = {} /\ UNCHANGED <<rules, seq, audit>>

\* The rule is inserted; its number taken, the call returns the error.
AddScopeRule(type, pattern, f) ==
  LET row == [type |-> type, pattern |-> RulePattern(pattern)] IN
  /\ Call(f) /\ f \in {"none", "number", "save"}
  /\ \E n \in Number :
       /\ NextSequence("scoperule", n, f)
       /\ rules' = IF f = "save" THEN rules ELSE InsertScopeRule(n, row)
       /\ known' = IF f = "save" \/ n \in DOMAIN rules THEN known
                   ELSE known \cup {<<"rule", n, type, pattern>>}
  /\ contact' = {} /\ UNCHANGED <<targets, audit>>

DeleteScopeRule(i) ==
  /\ Call("none")
  /\ rules' = Without(rules, i)
  /\ known' = {fact \in known : fact[1] # "rule" \/ fact[2] # i}
  /\ contact' = {} /\ UNCHANGED <<targets, seq, audit>>

\* A slip: the check that SetTarget makes is made again.
PermittedAsNew(i) == Validate(BuildScopeGuard, targets[i].value)

\* The scope check of Executor.Execute.
Permitted(i) == IsAllowed(BuildScopeGuard, targets[i].value)

\* No collector supports a network.
Contacted(value) == IF value.form = "cidr" THEN {} ELSE {HostOf(value)}

\* ExecuteAssessment of target i up to the evaluation of the rules, and whether
\* it gets there: not when the guard refuses, nor when its statements fail.
ExecuteAssessment(i, f, done) ==
  /\ done = (Permitted(i) /\ f # "before")
  /\ contact' = IF done THEN Contacted(targets[i].value) ELSE {}
  /\ UNCHANGED <<targets, rules>>

----------------------------------------------------------------------------
(* What the user means by an exclusion *)

\* An address or a network covers a host by its address, a name the hosts of
\* its domain.
Names(pattern, host) ==
  \/ pattern.form = "ip" /\ host.form = "ip" /\ pattern.addr = host.addr
  \/ /\ pattern.form = "cidr" /\ host.form = "ip"
     /\ pattern.addr \div pattern.size = host.addr \div pattern.size
  \/ pattern.form = "name" /\ host.form = "name" /\ IsSuffix(pattern.labels, host.labels)

\* A host that a rule excludes is never contacted: not when its target was set
\* before the rule was added, not as the host of a URL, not when a target is
\* activated again, for as long as the rule is not deleted.
ExclusionsHold ==
  \A fact \in known : fact[1] = "rule" /\ fact[3] = "exclude" =>
     \A host \in contact : ~Names(fact[4], host)
=============================================================================
