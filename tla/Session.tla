------------------------------ MODULE Session ------------------------------
(***************************************************************************)
(* falcon-ctl: the session in memory (core.Session), the shell over it     *)
(* (cli.REPL), which runs one command at a time and waits for an audit,    *)
(* and the listeners an audit leaves behind, which share the session       *)
(* through its lock.                                                       *)
(*                                                                         *)
(* A target is what ParseTargetSpecification returns: an address, a        *)
(* network or a name, as in ScopeGuard.  Its input may also be a range of  *)
(* addresses [form "range", from, to].  A scope rule is a record of its    *)
(* type and of its pattern as it was typed.  Addresses end at MaxAddr.  A  *)
(* command that fails changes nothing and is left out.                     *)
(* The name of the workspace, the rate, the number of workers and the      *)
(* telemetry of the fusion engine, of which only kinds without a drift are *)
(* ever sent, are left out.                                                *)
(***************************************************************************)
EXTENDS ScopeGuard, Simulator, Sniffer

CONSTANTS Input,        \* what may be typed after "target add"
          TargetList,   \* what may be typed after "set targets", as sequences
          Pattern,      \* what may be typed as a scope pattern
          Profile,      \* the audit profiles
          Ports,        \* the ports of each profile
          MaxAddr,      \* the last address there is, 2^32 - 1 in the code
          RangeCap,     \* the cap of a range, 4096 in the code
          SweepCap,     \* the cap of a sweep, 256 in the code
          MaxCommand    \* bound on the number of commands

Typeable == Input \cup UNION {ToSet(inputs) : inputs \in TargetList}

ASSUME SessionAssumption ==
  /\ \A input \in Typeable : \/ WellFormed(input)
                             \/ input \in [form : {"range"}, from : Nat, to : Nat]
  /\ \A inputs \in TargetList : inputs \in Seq(Typeable)
  /\ \A pattern \in Pattern : WellFormed(pattern)
  /\ Ports \in [Profile -> SUBSET Nat] /\ \A p \in Profile : IsFiniteSet(Ports[p])
  /\ "default" \in Profile
  /\ {MaxAddr, RangeCap, SweepCap, MaxCommand} \subseteq Nat
  \* There is a factor for every number of hosts that a posture may come to have.
  /\ IsFiniteSet(Source) /\ SweepCap + 1 + Cardinality(Source) <= Len(Proximity)

VARIABLES targets,    \* Env.TargetScopes
          active,     \* Env.ActiveCIDR, as a set of at most one
          rules,      \* ScopeRules
          guard,      \* ScopeGuard
          profile,    \* Profile
          postures,   \* Env.Postures
          evidence,   \* Evidence, as addresses and ports, port 0 when typed by the user
          repl,       \* what the shell does: "prompt", "audit" or "gone"
          audit,      \* the audit under way or the last one
          audits, commands

session == <<targets, active, rules, guard, profile, postures, evidence>>
vars == <<session, snifferVars, repl, audit, audits, commands>>

NoAudit == [scope |-> << >>, at |-> 1, stage |-> "validate", found |-> {}]

Init ==
  /\ targets = << >> /\ active = {} /\ rules = {} /\ profile = "default"
  /\ guard = NewScopeGuard({}, {}, {})
  /\ postures = << >> /\ evidence = {}
  /\ InitSniffer
  /\ repl = "prompt" /\ audit = NoAudit /\ audits = 0 /\ commands = 0

----------------------------------------------------------------------------
(* ParseTargetSpecification *)

IpTarget(a) == [form |-> "ip", addr |-> a]

RangeEnds(input) == <<Min({input.from, input.to}), Max({input.from, input.to})>>

\* The cap compares the distance of the ends, so a range may have one more.
RangeAccepted(input) == RangeEnds(input)[2] - RangeEnds(input)[1] <= RangeCap

\* The counter wraps around at the last address and the expansion never ends.
Diverges(input) == /\ input.form = "range" /\ RangeAccepted(input)
                   /\ RangeEnds(input)[2] = MaxAddr

Parses(input) ==
  CASE input.form = "range" -> RangeAccepted(input)
    [] input.form = "url"   -> FALSE
    [] OTHER                -> Recognized(input)

ParseTargetSpecification(input) ==
  IF input.form = "range"
  THEN LET ends == RangeEnds(input) IN
       [i \in 1 .. ends[2] - ends[1] + 1 |-> IpTarget(ends[1] + i - 1)]
  ELSE <<Normalized(input)>>

----------------------------------------------------------------------------
(* Targets and scope *)

\* A command that the user types.
Typed ==
  /\ repl = "prompt" /\ commands < MaxCommand
  /\ commands' = commands + 1
  /\ UNCHANGED <<postures, snifferVars, audit, audits>>

RulePatterns(rs, type) == {r.pattern : r \in {r \in rs : r.type = type}}

\* The targets carry no type here.
RecompileScope(rs, ts) ==
  guard' = NewScopeGuard(RulePatterns(rs, "include"), RulePatterns(rs, "exclude"), ToSet(ts))

\* Every target where it occurs first.
Unique(ts) ==
  FlattenSeq([i \in DOMAIN ts |-> IF \E j \in 1 .. i - 1 : ts[j] = ts[i]
                                 THEN << >> ELSE <<ts[i]>>])

FirstOf(ts) == IF ts = << >> THEN {} ELSE {Head(ts)}

\* The process runs out of memory while a range is expanded.
RunsAway(inputs) ==
  /\ Typed
  /\ \E i \in DOMAIN inputs :
       Diverges(inputs[i]) /\ \A j \in 1 .. i - 1 : Parses(inputs[j])
  /\ repl' = "gone"
  /\ UNCHANGED session

\* set targets: one input that does not parse and nothing changes.
SetTargets(inputs) ==
  /\ Typed
  /\ \A i \in DOMAIN inputs : Parses(inputs[i]) /\ ~Diverges(inputs[i])
  /\ targets' = Unique(FlattenSeq([i \in DOMAIN inputs |-> ParseTargetSpecification(inputs[i])]))
  /\ active' = IF targets' = << >> THEN active ELSE FirstOf(targets')
  /\ RecompileScope(rules, targets')
  /\ UNCHANGED <<rules, profile, evidence, repl>>

\* target add: the scope guard is asked afterwards and only warns.
AddTarget(input) ==
  /\ Typed
  /\ Parses(input) /\ ~Diverges(input)
  /\ targets' = Unique(targets \o ParseTargetSpecification(input))
  /\ active' = IF active = {} THEN FirstOf(targets') ELSE active
  /\ RecompileScope(rules, targets')
  /\ UNCHANGED <<rules, profile, evidence, repl>>

RemoveTarget(t) ==
  /\ Typed
  /\ targets' = FlattenSeq([i \in DOMAIN targets |->
                              IF targets[i] = t THEN << >> ELSE <<targets[i]>>])
  /\ active' = FirstOf(targets')
  /\ RecompileScope(rules, targets')
  /\ UNCHANGED <<rules, profile, evidence, repl>>

ClearTargets ==
  /\ Typed
  /\ targets' = << >> /\ active' = {}
  /\ RecompileScope(rules, targets')
  /\ UNCHANGED <<rules, profile, evidence, repl>>

\* A slip: the scope guard is not compiled again.
AddScopeRuleOnly(type, pattern) ==
  /\ Typed
  /\ rules' = rules \cup {[type |-> type, pattern |-> pattern]}
  /\ UNCHANGED <<targets, active, guard, profile, evidence, repl>>

\* scope add
AddScopeRule(type, pattern) ==
  /\ Typed
  /\ rules' = rules \cup {[type |-> type, pattern |-> pattern]}
  /\ RecompileScope(rules', targets)
  /\ UNCHANGED <<targets, active, profile, evidence, repl>>

\* set profile
SetProfile(p) ==
  /\ Typed
  /\ profile' = p
  /\ UNCHANGED <<targets, active, rules, guard, evidence, repl>>

\* evidence add
EvidenceCommand(a) ==
  /\ Typed
  /\ evidence' = evidence \cup {[address |-> IpTarget(a), port |-> 0]}
  /\ UNCHANGED <<targets, active, rules, guard, profile, repl>>

\* What is typed, without the commands that only show something.
TargetCommand ==
  \/ \E input \in Input : AddTarget(input) \/ RunsAway(<<input>>)
  \/ \E t \in ToSet(targets) : RemoveTarget(t)
  \/ ClearTargets

ScopeCommand ==
  \E type \in {"include", "exclude"}, pattern \in Pattern : AddScopeRule(type, pattern)

SetCommand ==
  \/ \E ts \in TargetList : SetTargets(ts) \/ RunsAway(ts)
  \/ \E p \in Profile : SetProfile(p)

Command == \/ TargetCommand \/ ScopeCommand \/ SetCommand
           \/ \E a \in Source : EvidenceCommand(a)

----------------------------------------------------------------------------
(* run audit *)

\* The network and the last address are dropped, also when the cap has cut the
\* sweep and they are not the network's.
ResolveTargetHosts(t) ==
  IF t.form = "cidr"
  THEN LET n == Min({t.size, SweepCap + 1})
           swept == IF n > 2 THEN t.addr + 1 .. t.addr + n - 2 ELSE t.addr .. t.addr + n - 1
       IN  {IpTarget(a) : a \in swept}
  ELSE {t}

Scope == audit.scope[audit.at]

\* The listeners get the targets of the start, and so does the audit.
StartAudit(passive) ==
  /\ repl = "prompt" /\ targets # << >> /\ audits < MaxAudit
  /\ audits' = audits + 1
  /\ repl' = "audit" /\ audit' = [NoAudit EXCEPT !.scope = targets]
  /\ IF passive THEN StartListeners(audits', Head(targets)) ELSE UNCHANGED listener
  /\ UNCHANGED <<session, cancelled, commands>>

Auditing == repl = "audit" /\ audit.at <= Len(audit.scope)

NextScope == audit' = [audit EXCEPT !.at = @ + 1, !.stage = "validate", !.found = {}]

SkipScope ==
  /\ Auditing /\ audit.stage = "validate" /\ ~ValidateUntyped(guard, Scope)
  /\ NextScope
  /\ UNCHANGED <<session, snifferVars, repl, audits, commands>>

\* A slip: evidence names the scope that is audited.
ProbeScopeAsOne ==
  /\ Auditing /\ audit.stage = "validate" /\ ValidateUntyped(guard, Scope)
  /\ \E found \in SUBSET (ResolveTargetHosts(Scope) \X Ports[profile]) :
       /\ audit' = [audit EXCEPT !.stage = "probed", !.found = found]
       /\ evidence' = evidence \cup {[address |-> Scope, port |-> f[2]] : f \in found}
  /\ UNCHANGED <<targets, active, rules, guard, profile, postures>>
  /\ UNCHANGED <<snifferVars, repl, audits, commands>>

\* Every host of the scope is probed; nobody else looks at the evidence while
\* it is collected.
ProbeScope ==
  /\ Auditing /\ audit.stage = "validate" /\ ValidateUntyped(guard, Scope)
  /\ \E found \in SUBSET (ResolveTargetHosts(Scope) \X Ports[profile]) :
       /\ audit' = [audit EXCEPT !.stage = "probed", !.found = found]
       /\ evidence' = evidence \cup {[address |-> f[1], port |-> f[2]] : f \in found}
  /\ UNCHANGED <<targets, active, rules, guard, profile, postures>>
  /\ UNCHANGED <<snifferVars, repl, audits, commands>>

\* The posture of the scope as the probes found it.
Evaluated ==
  LET p == [hosts |-> {f[1] : f \in audit.found},
            services |-> [port \in Ports[profile] |->
                            Cardinality({f \in audit.found : f[2] = port})]]
      score == CalculateBlastScore(p)
  IN  [hosts |-> p.hosts, services |-> p.services, score |-> score,
       compliance |-> IF score >= 50 THEN "FAIL" ELSE "PASS"]

SetPosture(t, posture) ==
  postures' = [u \in DOMAIN postures \cup {t} |-> IF u = t THEN posture ELSE postures[u]]

\* The whole posture is written: what listeners added is gone.
RecordScope ==
  /\ Auditing /\ audit.stage = "probed"
  /\ SetPosture(Scope, Evaluated)
  /\ NextScope
  /\ UNCHANGED <<targets, active, rules, guard, profile, evidence>>
  /\ UNCHANGED <<snifferVars, repl, audits, commands>>

\* A slip: the context is not cancelled.
LeaveAudit ==
  /\ repl = "audit" /\ audit.at > Len(audit.scope)
  /\ repl' = "prompt" /\ audit' = NoAudit
  /\ UNCHANGED <<session, snifferVars, audits, commands>>

\* The deferred cancel.
FinishAudit ==
  /\ repl = "audit" /\ audit.at > Len(audit.scope)
  /\ repl' = "prompt" /\ audit' = NoAudit
  /\ cancelled' = cancelled \cup {audits}
  /\ UNCHANGED <<session, listener, audits, commands>>

AuditStep == SkipScope \/ ProbeScope \/ RecordScope \/ FinishAudit

----------------------------------------------------------------------------
(* What listeners do to the session, and the end *)

AddDiscoveredHost(t, h) ==
  LET posture == IF t \in DOMAIN postures THEN postures[t]
                 ELSE [hosts |-> {}, services |-> << >>, score |-> 0, compliance |-> "UNKNOWN"]
  IN  SetPosture(t, [posture EXCEPT !.hosts = @ \cup {h}])

\* The callback, which may come when the audit is long over.
Discover(l) ==
  /\ DiscoveryReturned(l)
  /\ AddDiscoveredHost(listener[l].subnet, IpTarget(listener[l].ip))
  /\ UNCHANGED <<targets, active, rules, guard, profile, evidence>>

\* What a listener does by itself, and when a packet comes.
ListenerStep(l) ==
  /\ repl # "gone"
  /\ \/ (Listen(l) \/ CheckContext(l) \/ ReadTimeout(l)) /\ UNCHANGED session
     \/ Discover(l)
  /\ UNCHANGED <<repl, audit, audits, commands>>

Packet(l) ==
  /\ repl # "gone" /\ ReadPacket(l)
  /\ UNCHANGED <<session, repl, audit, audits, commands>>

\* exit
Exit ==
  /\ repl = "prompt" /\ repl' = "gone"
  /\ UNCHANGED <<session, snifferVars, audit, audits, commands>>

Terminated == repl = "gone" /\ UNCHANGED vars

Next ==
  \/ Command \/ Exit \/ Terminated
  \/ \E passive \in BOOLEAN : StartAudit(passive)
  \/ AuditStep
  \/ \E l \in Listener : ListenerStep(l) \/ Packet(l)

\* Probes end with their timeout and a read ends after a second, so an audit and
\* every listener go on.  No packet has to come and no command has to be typed.
Fairness == WF_vars(AuditStep) /\ \A l \in Listener : WF_vars(ListenerStep(l))

Spec == Init /\ [][Next]_vars /\ Fairness

----------------------------------------------------------------------------
(* What is shown *)

SubnetGraph == BuildSubnetGraph(postures)

\* graph path, between any two nodes.
GraphPath ==
  LET g == SubnetGraph IN
  [ends \in g.nodes \X g.nodes |-> DetailedPath(g, ends[1], ends[2])]

\* simulate rule
Simulate(port) ==
  LET g == SubnetGraph IN
  [t \in DOMAIN postures |-> SimulateBlockRule(g, port, postures[t])]

\* analyze counts as passed whatever did not fail, evaluated or not.
Analyze ==
  LET failed == {t \in DOMAIN postures : postures[t].compliance = "FAIL"}
  IN  [fail |-> Cardinality(failed), pass |-> Cardinality(DOMAIN postures \ failed),
       highRisk |-> Cardinality({t \in DOMAIN postures : postures[t].score >= 50})]

\* The graph of the dashboard that serve starts has no services.
WebGraph ==
  LET edges == UNION {{<<Net(t), Host(h)>> : h \in postures[t].hosts} : t \in DOMAIN postures}
  IN  [nodes |-> {Net(t) : t \in DOMAIN postures} \cup {e[2] : e \in edges}, edges |-> edges]

----------------------------------------------------------------------------
(* Properties *)

\* Whatever was typed before, the audit contacts no host that the exclusions
\* name: none within an excluded network or domain, and an excluded address only
\* in the sweep of a network, not as a target of its own.
ProbedInScope ==
  audit.stage = "probed" =>
    \A h \in ResolveTargetHosts(Scope), pattern \in RulePatterns(rules, "exclude") :
      /\ h.form = "ip" /\ pattern.form = "cidr" => ~Covers(Normalized(pattern), h.addr)
      /\ h.form = "ip" /\ pattern.form = "ip" => h.addr # pattern.addr \/ Scope # h
      /\ h.form = "name" /\ pattern.form = "name" => ~Under(h.labels, pattern.labels)

\* The README says that every destination address is evaluated against the
\* configured scope: none is probed that the exclusions cover or, when networks
\* are included, that no inclusion covers.
DestinationsInScope ==
  audit.stage = "probed" =>
    \A h \in {h \in ResolveTargetHosts(Scope) : h.form = "ip"} :
      LET In(type) == \E pattern \in RulePatterns(rules, type) :
                        \/ pattern.form = "cidr" /\ Covers(Normalized(pattern), h.addr)
                        \/ pattern.form = "ip" /\ pattern.addr = h.addr
          restricted == \E pattern \in RulePatterns(rules, "include") : pattern.form = "cidr"
      IN  ~In("exclude") /\ (restricted => In("include"))

Seen(t, port) ==
  {h \in ResolveTargetHosts(t) : [address |-> h, port |-> port] \in evidence}

\* However audits, profiles and listeners follow each other, what the reports
\* show of a target agrees: a score of 5.0 is a failure and counts as high risk, a
\* host that a listener adds later can only make the score too low, what was never
\* evaluated has no services, every service has evidence, a block that is
\* simulated makes nothing worse and severs edges that exist, and the dashboard
\* shows the nodes and edges of the shell's graph.
ScoresAgree ==
  /\ \A t \in DOMAIN postures :
       LET p == postures[t] IN
       /\ p.score <= CalculateBlastScore(p)
       /\ p.compliance = "UNKNOWN" => p.services = << >> /\ p.score = 0 /\ p.hosts # {}
       /\ \A port \in DOMAIN p.services : p.services[port] <= Cardinality(Seen(t, port))
  /\ Analyze.highRisk = Analyze.fail
  /\ \A port \in {0} \cup UNION {Ports[p] : p \in Profile} :
       LET results == Simulate(port) IN
       \A t \in DOMAIN results :
         results[t].mitigatedScore <= results[t].initialScore /\ results[t].remainingEdges >= 0
  /\ WebGraph.nodes \subseteq SubnetGraph.nodes
  /\ WebGraph.edges = {e \in SubnetGraph.edges : e[1][1] = "NET"}

\* Between any two nodes of the subnet graph, "graph path" finds a shortest path
\* of existing edges, and none when there is none.  The graph is a snapshot, so it
\* is enough to ask when nobody is about to change a posture.
PathsAreShortest ==
  repl = "prompt" /\ (\A l \in Listener : ~Bound(l)) =>
    LET found == GraphPath IN
    \A ends \in DOMAIN found : IsShortestPath(SubnetGraph, ends[1], ends[2], found[ends])

\* Listeners do not outlive their audit for ever, whatever is heard meanwhile.
ListenersStop ==
  \A l \in Listener :
    listener[l].pc = "start" ~> listener[l].pc = "done" \/ repl = "gone"
=============================================================================
