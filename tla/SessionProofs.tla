--------------------------- MODULE SessionProofs ---------------------------
(***************************************************************************)
(* What the commands, audits and listeners of a session keep, for every    *)
(* input, cap, profile and protocol: the compiled scope agrees with the    *)
(* rules and targets, what is probed is in scope, what is shown of the     *)
(* targets agrees, and the paths shown are shortest.  Then what holds of   *)
(* the pool of workers with which an audit probes a host, for any number   *)
(* of jobs and workers and any limiter.                                    *)
(***************************************************************************)
EXTENDS Session, ProbePool, TopologyProofs

----------------------------------------------------------------------------
(* Sequences *)

\* The least and the greatest of two numbers.
LEMMA Extremes ==
  ASSUME NEW a \in Nat, NEW b \in Nat
  PROVE  /\ Min({a, b}) \in {a, b} /\ Min({a, b}) <= a /\ Min({a, b}) <= b
         /\ Max({a, b}) \in {a, b} /\ a <= Max({a, b}) /\ b <= Max({a, b})
<1>1. \E x \in {a, b} : \A y \in {a, b} : x <= y
  OBVIOUS
<1>2. \E x \in {a, b} : \A y \in {a, b} : x >= y
  OBVIOUS
<1>3. Min({a, b}) \in {a, b} /\ \A y \in {a, b} : Min({a, b}) <= y
  BY <1>1 DEF Min
<1>4. Max({a, b}) \in {a, b} /\ \A y \in {a, b} : Max({a, b}) >= y
  BY <1>2 DEF Max
<1> QED BY <1>3, <1>4

\* Sequences of elements of S, one after another, are a sequence of them.
LEMMA FlattenedIsSequence ==
  ASSUME NEW S, NEW pieces \in Seq(Seq(S))
  PROVE  FlattenSeq(pieces) \in Seq(S)
<1> DEFINE Size == Len(pieces)
           Run(h) == h = [n \in 1 .. Size |-> IF n = 1 THEN pieces[n] ELSE h[n - 1] \o pieces[n]]
           Begun(h, m) == /\ \A n \in 1 .. m : h[n] \in Seq(S)
                          /\ m >= 1 => h[1] = pieces[1]
                          /\ \A n \in 2 .. m : h[n] = h[n - 1] \o pieces[n]
           flat == CHOOSE h : Run(h)
<1>1. Size \in Nat /\ \A n \in 1 .. Size : pieces[n] \in Seq(S)
  OBVIOUS
<1>2. CASE Size = 0
  <2>1. pieces = << >>
    BY <1>2
  <2> QED BY <1>2, <2>1 DEF FlattenSeq
<1>3. CASE Size # 0
  <2>1. FlattenSeq(pieces) = flat[Size]
    BY <1>3 DEF FlattenSeq
  <2> HIDE DEF Size
  <2>2. \E h : Begun(h, Size)
    <3> DEFINE Good == {m \in Nat : \E h : Begun(h, m)}
    <3>1. 0 \in Good
      <4>1. Begun(<< >>, 0)
        OBVIOUS
      <4> QED BY <4>1
    <3>2. ASSUME NEW m \in 1 .. Size, m - 1 \in Good PROVE m \in Good
      <4>1. PICK h : Begun(h, m - 1)
        BY <3>2
      <4> DEFINE last == IF m = 1 THEN pieces[1] ELSE h[m - 1] \o pieces[m]
                 g == [n \in 1 .. m |-> IF n = m THEN last ELSE h[n]]
      <4>2. last \in Seq(S)
        <5>1. CASE m = 1
          BY <1>1, <5>1
        <5>2. CASE m # 1
          <6>1. h[m - 1] \in Seq(S) /\ pieces[m] \in Seq(S)
            BY <1>1, <4>1, <5>2
          <6> QED BY <5>2, <6>1
        <5> QED BY <5>1, <5>2
      <4>3. g[m] = last /\ \A n \in 1 .. m : n # m => g[n] = h[n]
        OBVIOUS
      <4> HIDE DEF g
      <4>4. ASSUME NEW n \in 1 .. m PROVE g[n] \in Seq(S)
        <5>1. n # m => n \in 1 .. (m - 1)
          OBVIOUS
        <5> HIDE DEF last
        <5> QED BY <4>1, <4>2, <4>3, <5>1
      <4>5. g[1] = pieces[1]
        <5>1. CASE m = 1
          BY <4>3, <5>1
        <5>2. CASE m # 1
          <6>1. 1 \in 1 .. m /\ m - 1 >= 1
            BY <5>2
          <6> HIDE DEF last
          <6> QED BY <4>1, <4>3, <5>2, <6>1
        <5> QED BY <5>1, <5>2
      <4>6. ASSUME NEW n \in 2 .. m PROVE g[n] = g[n - 1] \o pieces[n]
        <5>1. n - 1 \in 1 .. m /\ n - 1 # m /\ g[n - 1] = h[n - 1]
          BY <4>3
        <5>2. CASE n = m
          <6>0. m # 1
            BY <4>6, <5>2
          <6>1. last = h[m - 1] \o pieces[m]
            BY <6>0
          <6> HIDE DEF last
          <6> QED BY <4>3, <5>1, <5>2, <6>1
        <5>3. CASE n # m
          <6>1. n \in 2 .. (m - 1) /\ n \in 1 .. m
            BY <5>3
          <6> HIDE DEF last
          <6> QED BY <4>1, <4>3, <5>1, <5>3, <6>1
        <5> QED BY <5>2, <5>3
      <4>7. Begun(g, m)
        BY <4>4, <4>5, <4>6
      <4> HIDE DEF Begun
      <4> QED BY <4>7
    <3> HIDE DEF Good
    <3>3. \A n \in 1 .. Size : n - 1 \in Good => n \in Good
      BY <3>2
    <3>4. Size \in Nat
      BY <1>1
    <3>5. \A n \in 0 .. Size : n \in Good
      BY <3>1, <3>3, <3>4, FirstFailure
    <3>6. Size \in Good
      BY <3>4, <3>5
    <3> HIDE DEF Begun
    <3> QED BY <3>6 DEF Good
  <2>3. PICK h : Begun(h, Size)
    BY <2>2
  <2> DEFINE g == [n \in 1 .. Size |-> h[n]]
             r == [n \in 1 .. Size |-> IF n = 1 THEN pieces[n] ELSE g[n - 1] \o pieces[n]]
  <2>4. ASSUME NEW n \in 1 .. Size PROVE g[n] = r[n]
    <3>1. CASE n = 1
      BY <1>1, <2>3, <3>1
    <3>2. CASE n # 1
      <4>1. n \in 2 .. Size /\ n - 1 \in 1 .. Size
        BY <1>1, <3>2
      <4> QED BY <2>3, <3>2, <4>1
    <3> QED BY <3>1, <3>2
  <2>5. g = r
    BY <2>4
  <2>6. Run(g)
    BY <2>5
  <2>7. Run(flat)
    <3> HIDE DEF Run
    <3> QED BY <2>6
  <2> HIDE DEF flat
  <2> DEFINE Good == {n \in Nat : n >= 1 => flat[n] \in Seq(S)}
  <2>8. \A n \in 1 .. Size : n - 1 \in Good => n \in Good
    <3> SUFFICES ASSUME NEW n \in 1 .. Size, n - 1 \in Good PROVE n \in Good
      OBVIOUS
    <3>1. flat[n] = IF n = 1 THEN pieces[n] ELSE flat[n - 1] \o pieces[n]
      BY <2>7
    <3>0. n \in Nat /\ pieces[n] \in Seq(S)
      BY <1>1
    <3>2. CASE n = 1
      BY <1>1, <3>1, <3>2
    <3>3. CASE n # 1
      <4>1. flat[n - 1] \in Seq(S)
        BY <3>3
      <4>2. flat[n] \in Seq(S)
        BY <3>0, <3>1, <3>3, <4>1
      <4> QED BY <3>0, <4>2
    <3> QED BY <3>2, <3>3
  <2>9. 0 \in Good
    OBVIOUS
  <2> HIDE DEF Good
  <2>10. Size \in Nat
    BY <1>1
  <2>11. \A n \in 0 .. Size : n \in Good
    BY <2>8, <2>9, <2>10, FirstFailure
  <2> QED BY <1>3, <2>1, <2>10, <2>11 DEF Good
<1> QED BY <1>2, <1>3

----------------------------------------------------------------------------
(* Targets *)

\* What a target may be.
Target == {Normalized(input) : input \in {input \in Typeable : input.form # "range"}}
          \cup {IpTarget(a) : a \in Nat}

\* A network that loses its host bits begins no later and keeps its size.
LEMMA Lowered ==
  ASSUME NEW input \in [form : {"cidr"}, addr : Nat, size : Nat \ {0}]
  PROVE  LET net == Normalized(input)
         IN  net.form = "cidr" /\ net.addr \in Nat /\ net.size = input.size
<1>1. input.addr - (input.addr % input.size) \in Nat
  OBVIOUS
<1> QED BY <1>1 DEF Normalized

\* A network that is a target has no host bits and at least one address.
LEMMA TargetNetwork ==
  ASSUME NEW t \in Target, t.form = "cidr"
  PROVE  t.addr \in Nat /\ t.size \in Nat \ {0}
<1>1. \A a : IpTarget(a).form # "cidr"
  BY DEF IpTarget
<1>2. PICK input \in Typeable : input.form # "range" /\ t = Normalized(input)
  BY <1>1 DEF Target
<1>3. input.form = "cidr"
  BY <1>2 DEF Normalized
<1>4. input \in [form : {"cidr"}, addr : Nat, size : Nat \ {0}]
  BY <1>2, <1>3, SessionAssumption DEF WellFormed
<1> QED BY <1>2, <1>3, <1>4, Lowered

----------------------------------------------------------------------------
(* The compiled scope, and the audit under way *)

\* The guard is compiled from the rules and targets there are, whatever was typed.
ScopeOK ==
  /\ targets \in Seq(Target)
  /\ rules \subseteq [type : {"include", "exclude"}, pattern : Pattern]
  /\ guard = NewScopeGuard(RulePatterns(rules, "include"), RulePatterns(rules, "exclude"),
                           ToSet(targets))

\* What is being probed was accepted by the guard that is in force.
AuditOK ==
  /\ audit = [scope |-> audit.scope, at |-> audit.at, stage |-> audit.stage,
              found |-> audit.found]
  /\ audit.scope \in Seq(Target) /\ audit.at \in Nat \ {0}
  /\ audit.stage = "probed" => Auditing /\ ~Excluded(guard, Scope)

SessionInv == ScopeOK /\ AuditOK

LEMMA InitOK == Init => SessionInv
<1> SUFFICES ASSUME Init PROVE SessionInv
  OBVIOUS
<1>1. targets \in Seq(Target) /\ ToSet(targets) = {}
  BY DEF Init, ToSet
<1>2. \A type : RulePatterns(rules, type) = {}
  BY DEF Init, RulePatterns
<1>3. ScopeOK
  BY <1>1, <1>2 DEF Init, ScopeOK
<1>4. AuditOK
  BY DEF Init, NoAudit, AuditOK
<1> QED BY <1>3, <1>4 DEF SessionInv

\* What an input that parses stands for are targets.
LEMMA ParsedTargets ==
  ASSUME NEW input \in Typeable
  PROVE  ParseTargetSpecification(input) \in Seq(Target)
<1>1. CASE input.form = "range"
  <2>1. input.from \in Nat /\ input.to \in Nat
    BY <1>1, SessionAssumption DEF WellFormed
  <2>2. PICK low, high : low = Min({input.from, input.to}) /\ high = Max({input.from, input.to})
    OBVIOUS
  <2>3. low \in Nat /\ high \in Nat /\ low <= high
    BY <2>1, <2>2, Extremes
  <2>4. ParseTargetSpecification(input) = [i \in 1 .. high - low + 1 |-> IpTarget(low + i - 1)]
    BY <1>1, <2>2 DEF ParseTargetSpecification, RangeEnds
  <2>5. \A i \in 1 .. high - low + 1 : low + i - 1 \in Nat
    BY <2>3
  <2>6. \A i \in 1 .. high - low + 1 : IpTarget(low + i - 1) \in Target
    BY <2>5 DEF Target
  <2>7. high - low + 1 \in Nat
    BY <2>3
  <2> QED BY <2>4, <2>6, <2>7
<1>2. CASE input.form # "range"
  <2>1. Normalized(input) \in Target
    BY <1>2 DEF Target
  <2> QED BY <1>2, <2>1 DEF ParseTargetSpecification
<1> QED BY <1>1, <1>2

\* Some of the targets are targets.
LEMMA SomeTargets ==
  ASSUME NEW ts \in Seq(Target), NEW pieces, DOMAIN pieces = DOMAIN ts,
         pieces = [i \in DOMAIN ts |-> pieces[i]],
         \A i \in DOMAIN ts : pieces[i] = << >> \/ pieces[i] = <<ts[i]>>
  PROVE  FlattenSeq(pieces) \in Seq(Target)
<1>1. ASSUME NEW i \in DOMAIN ts PROVE pieces[i] \in Seq(Target)
  <2>1. ts[i] \in Target
    OBVIOUS
  <2>2. <<ts[i]>> \in Seq(Target) /\ << >> \in Seq(Target)
    BY <2>1
  <2> QED BY <2>2
<1>2. DOMAIN ts = 1 .. Len(ts) /\ Len(ts) \in Nat
  OBVIOUS
<1>3. pieces \in Seq(Seq(Target))
  BY <1>1, <1>2
<1> QED BY <1>3, FlattenedIsSequence

LEMMA UniqueTargets == ASSUME NEW ts \in Seq(Target) PROVE Unique(ts) \in Seq(Target)
<1> DEFINE pieces == [i \in DOMAIN ts |-> IF \E j \in 1 .. i - 1 : ts[j] = ts[i]
                                         THEN << >> ELSE <<ts[i]>>]
<1>1. \A i \in DOMAIN ts : pieces[i] = << >> \/ pieces[i] = <<ts[i]>>
  OBVIOUS
<1>2. DOMAIN pieces = DOMAIN ts /\ pieces = [i \in DOMAIN ts |-> pieces[i]]
  OBVIOUS
<1>3. Unique(ts) = FlattenSeq(pieces)
  BY DEF Unique
<1> HIDE DEF pieces
<1> QED BY <1>1, <1>2, <1>3, SomeTargets

\* A command whose targets and rules are what may be typed.
LEMMA TypedKeeps ==
  ASSUME SessionInv, Typed, targets' \in Seq(Target),
         rules' \subseteq [type : {"include", "exclude"}, pattern : Pattern],
         \/ guard' = guard /\ targets' = targets /\ rules' = rules
         \/ RecompileScope(rules', targets')
  PROVE  SessionInv'
<1>1. guard' = NewScopeGuard(RulePatterns(rules', "include"), RulePatterns(rules', "exclude"),
                             ToSet(targets'))
  BY DEF SessionInv, ScopeOK, RecompileScope
<1>2. ScopeOK'
  BY <1>1 DEF ScopeOK, RulePatterns
<1>3. audit' = audit /\ audit.stage # "probed"
  BY DEF SessionInv, AuditOK, Typed, Auditing
<1>4. AuditOK'
  BY <1>3 DEF SessionInv, AuditOK
<1> QED BY <1>2, <1>4 DEF SessionInv

LEMMA CommandKeeps == ASSUME SessionInv, Command PROVE SessionInv'
<1>1. /\ targets \in Seq(Target)
      /\ rules \subseteq [type : {"include", "exclude"}, pattern : Pattern]
  BY DEF SessionInv, ScopeOK
<1>2. ASSUME NEW input \in Input, AddTarget(input) PROVE SessionInv'
  <2>1. input \in Typeable
    BY DEF Typeable
  <2>2. targets \o ParseTargetSpecification(input) \in Seq(Target)
    BY <1>1, <2>1, ParsedTargets
  <2>3. targets' \in Seq(Target)
    BY <1>2, <2>2, UniqueTargets DEF AddTarget
  <2> QED BY <1>1, <1>2, <2>3, TypedKeeps DEF AddTarget, RecompileScope
<1>3. ASSUME NEW inputs, RunsAway(inputs) PROVE SessionInv'
  BY <1>1, <1>3, TypedKeeps DEF RunsAway, session
<1>4. ASSUME NEW t \in ToSet(targets), RemoveTarget(t) PROVE SessionInv'
  <2> DEFINE pieces == [i \in DOMAIN targets |->
                          IF targets[i] = t THEN << >> ELSE <<targets[i]>>]
  <2>1. \A i \in DOMAIN targets : pieces[i] = << >> \/ pieces[i] = <<targets[i]>>
    OBVIOUS
  <2>2. DOMAIN pieces = DOMAIN targets /\ pieces = [i \in DOMAIN targets |-> pieces[i]]
    OBVIOUS
  <2>3. targets' = FlattenSeq(pieces)
    BY <1>4 DEF RemoveTarget
  <2> HIDE DEF pieces
  <2>4. targets' \in Seq(Target)
    BY <1>1, <2>1, <2>2, <2>3, SomeTargets
  <2> QED BY <1>1, <1>4, <2>4, TypedKeeps DEF RemoveTarget, RecompileScope
<1>5. ASSUME ClearTargets PROVE SessionInv'
  BY <1>1, <1>5, TypedKeeps DEF ClearTargets, RecompileScope
<1>6. ASSUME NEW type \in {"include", "exclude"}, NEW pattern \in Pattern,
             AddScopeRule(type, pattern)
      PROVE  SessionInv'
  <2>1. rules' \subseteq [type : {"include", "exclude"}, pattern : Pattern]
    BY <1>1, <1>6 DEF AddScopeRule
  <2> QED BY <1>1, <1>6, <2>1, TypedKeeps DEF AddScopeRule, RecompileScope
<1>7. ASSUME NEW inputs \in TargetList, SetTargets(inputs) PROVE SessionInv'
  <2>1. inputs \in Seq(Typeable)
    BY SessionAssumption
  <2> DEFINE parsed == [i \in DOMAIN inputs |-> ParseTargetSpecification(inputs[i])]
  <2>2. \A i \in 1 .. Len(inputs) : ParseTargetSpecification(inputs[i]) \in Seq(Target)
    BY <2>1, ParsedTargets
  <2>3. parsed \in Seq(Seq(Target))
    BY <2>1, <2>2
  <2>4. targets' = Unique(FlattenSeq(parsed))
    BY <1>7 DEF SetTargets
  <2> HIDE DEF parsed
  <2>5. targets' \in Seq(Target)
    BY <2>3, <2>4, FlattenedIsSequence, UniqueTargets
  <2> QED BY <1>1, <1>7, <2>5, TypedKeeps DEF SetTargets, RecompileScope
<1>8. ASSUME NEW p, SetProfile(p) PROVE SessionInv'
  BY <1>1, <1>8, TypedKeeps DEF SetProfile
<1>9. ASSUME NEW a, EvidenceCommand(a) PROVE SessionInv'
  BY <1>1, <1>9, TypedKeeps DEF EvidenceCommand
<1> QED BY <1>2, <1>3, <1>4, <1>5, <1>6, <1>7, <1>8, <1>9
        DEF Command, TargetCommand, ScopeCommand, SetCommand

LEMMA NextScopeKeeps ==
  ASSUME AuditOK, NextScope
  PROVE  AuditOK'
<1>1. audit' = [scope |-> audit.scope, at |-> audit.at + 1, stage |-> "validate", found |-> {}]
  BY DEF AuditOK, NextScope
<1>2. audit.scope \in Seq(Target) /\ audit.at + 1 \in Nat \ {0}
  BY DEF AuditOK
<1> QED BY <1>1, <1>2 DEF AuditOK

\* The audit skips, probes and records one target after another; nobody changes
\* the scope meanwhile.
LEMMA AuditKeeps ==
  ASSUME SessionInv, AuditStep \/ \E passive \in BOOLEAN : StartAudit(passive)
  PROVE  SessionInv'
<1>1. UNCHANGED <<targets, rules, guard>>
  BY DEF AuditStep, SkipScope, ProbeScope, RecordScope, FinishAudit, StartAudit, session
<1>2. ScopeOK'
  BY <1>1 DEF SessionInv, ScopeOK, RulePatterns
<1>3. AuditOK /\ targets \in Seq(Target)
  BY DEF SessionInv, ScopeOK
<1> SUFFICES AuditOK'
  BY <1>2 DEF SessionInv
<1>4. CASE \E passive \in BOOLEAN : StartAudit(passive)
  <2>1. audit' = [scope |-> targets, at |-> 1, stage |-> "validate", found |-> {}]
    BY <1>4 DEF StartAudit, NoAudit
  <2> QED BY <1>3, <2>1 DEF AuditOK
<1>5. CASE SkipScope
  BY <1>3, <1>5, NextScopeKeeps DEF SkipScope
<1>6. CASE ProbeScope
  <2>1. audit'.scope = audit.scope /\ audit'.at = audit.at /\ repl' = repl /\ Auditing
    BY <1>3, <1>6 DEF ProbeScope, AuditOK
  <2>2. ~Excluded(guard, audit.scope[audit.at])
    BY <1>6 DEF ProbeScope, ValidateUntyped, Scope
  <2>3. \E found : audit' = [scope |-> audit.scope, at |-> audit.at, stage |-> "probed",
                             found |-> found]
    BY <1>3, <1>6 DEF ProbeScope, AuditOK
  <2>4. audit.scope \in Seq(Target) /\ audit.at \in Nat \ {0}
    BY <1>3 DEF AuditOK
  <2>5. Auditing' /\ ~Excluded(guard, Scope)'
    BY <1>1, <2>1, <2>2 DEF Auditing, Scope, Excluded
  <2> QED BY <2>3, <2>4, <2>5 DEF AuditOK
<1>7. CASE RecordScope
  BY <1>3, <1>7, NextScopeKeeps DEF RecordScope
<1>8. CASE FinishAudit
  <2>1. audit' = [scope |-> << >>, at |-> 1, stage |-> "validate", found |-> {}]
    BY <1>8 DEF FinishAudit, NoAudit
  <2> QED BY <2>1 DEF AuditOK
<1> QED BY <1>4, <1>5, <1>6, <1>7, <1>8 DEF AuditStep

LEMMA SessionKeeps == SessionInv /\ [Next]_vars => SessionInv'
<1> SUFFICES ASSUME SessionInv, [Next]_vars PROVE SessionInv'
  OBVIOUS
<1>1. ASSUME UNCHANGED <<targets, rules, guard, audit>>, repl' = repl PROVE SessionInv'
  BY <1>1 DEF SessionInv, ScopeOK, AuditOK, RulePatterns, Auditing, Scope
<1>2. CASE Command
  BY <1>2, CommandKeeps
<1>3. CASE AuditStep \/ \E passive \in BOOLEAN : StartAudit(passive)
  BY <1>3, AuditKeeps
<1>4. CASE Exit
  <2>1. audit.stage # "probed" /\ UNCHANGED <<targets, rules, guard, audit>>
    BY <1>4 DEF Exit, SessionInv, AuditOK, Auditing, session
  <2> QED BY <2>1 DEF SessionInv, ScopeOK, AuditOK, RulePatterns
<1>5. CASE \E l \in Listener : ListenerStep(l) \/ Packet(l)
  BY <1>1, <1>5 DEF ListenerStep, Packet, Discover, session
<1>6. CASE Terminated \/ UNCHANGED vars
  BY <1>1, <1>6 DEF Terminated, vars, session
<1> QED BY <1>2, <1>3, <1>4, <1>5, <1>6 DEF Next

----------------------------------------------------------------------------
(* What is probed *)

\* A network that covers an address of another one meets it.
LEMMA MeetingNetworks ==
  ASSUME NEW net, NEW other, NEW a \in Nat, net.addr \in Nat, net.size \in Nat,
         other.addr \in Nat, other.size \in Nat, Covers(net, a), Covers(other, a)
  PROVE  Conflict(net, other)
  BY DEF Covers, Conflict

\* The hosts of a network, whatever the cap of the sweep, are within it.
LEMMA HostsOfNetwork ==
  ASSUME NEW t \in Target, t.form = "cidr", NEW h \in ResolveTargetHosts(t)
  PROVE  h.form = "ip" /\ h.addr \in Nat /\ Covers(t, h.addr)
<1>1. t.addr \in Nat /\ t.size \in Nat \ {0} /\ SweepCap + 1 \in Nat
  BY TargetNetwork, SessionAssumption
<1>2. PICK n : n = Min({t.size, SweepCap + 1})
  OBVIOUS
<1>3. n \in Nat /\ n <= t.size
  BY <1>1, <1>2, Extremes
<1>4. PICK a \in (IF n > 2 THEN t.addr + 1 .. t.addr + n - 2 ELSE t.addr .. t.addr + n - 1) :
        h = IpTarget(a)
  BY <1>2 DEF ResolveTargetHosts
<1>5. a \in Nat /\ t.addr <= a /\ a < t.addr + t.size
  BY <1>1, <1>3, <1>4
<1> QED BY <1>4, <1>5 DEF IpTarget, Covers

\* What the guard makes of an exclusion.
LEMMA CompiledExclusion ==
  ASSUME SessionInv, NEW pattern \in RulePatterns(rules, "exclude")
  PROVE  /\ pattern \in Pattern
         /\ pattern.form = "cidr" => Normalized(pattern) \in guard.excluded.nets
         /\ pattern.form = "ip" => pattern.addr \in guard.excluded.ips
         /\ pattern.form = "name" => pattern.labels \in guard.excluded.names
<1> DEFINE exc == RulePatterns(rules, "exclude")
<1>1. guard.excluded = Compiled(exc)
  BY DEF SessionInv, ScopeOK, NewScopeGuard
<1>2. pattern \in Pattern
  BY DEF SessionInv, ScopeOK, RulePatterns
<1> HIDE DEF exc
<1>3. pattern.form = "cidr" => Normalized(pattern) \in CompilePattern(NoPatterns, pattern).nets
  BY DEF CompilePattern, NoPatterns
<1>4. pattern.form = "ip" => pattern.addr \in CompilePattern(NoPatterns, pattern).ips
  BY DEF CompilePattern, NoPatterns
<1>5. pattern.form = "name" => pattern.labels \in CompilePattern(NoPatterns, pattern).names
  BY DEF CompilePattern, NoPatterns
<1>6. pattern \in exc
  BY DEF exc
<1>7. /\ CompilePattern(NoPatterns, pattern).nets \subseteq guard.excluded.nets
      /\ CompilePattern(NoPatterns, pattern).ips \subseteq guard.excluded.ips
      /\ CompilePattern(NoPatterns, pattern).names \subseteq guard.excluded.names
  BY <1>1, <1>6 DEF Compiled
<1> QED BY <1>2, <1>3, <1>4, <1>5, <1>7

LEMMA AcceptedInScope == SessionInv => ProbedInScope
<1> SUFFICES ASSUME SessionInv, audit.stage = "probed", NEW h \in ResolveTargetHosts(Scope),
                    NEW pattern \in RulePatterns(rules, "exclude")
             PROVE  /\ h.form = "ip" /\ pattern.form = "cidr" =>
                         ~Covers(Normalized(pattern), h.addr)
                    /\ h.form = "ip" /\ pattern.form = "ip" =>
                         h.addr # pattern.addr \/ Scope # h
                    /\ h.form = "name" /\ pattern.form = "name" =>
                         ~Under(h.labels, pattern.labels)
  BY DEF ProbedInScope
<1>1. PICK t : t = Scope
  OBVIOUS
<1>2. t \in Target /\ ~Excluded(guard, t)
  <2>1. /\ audit.scope \in Seq(Target) /\ audit.at \in Nat \ {0}
        /\ audit.at <= Len(audit.scope) /\ ~Excluded(guard, Scope)
    BY DEF SessionInv, AuditOK, Auditing
  <2>2. audit.at \in 1 .. Len(audit.scope)
    BY <2>1
  <2> QED BY <1>1, <2>1, <2>2 DEF Scope
<1>3. h \in ResolveTargetHosts(t) /\ (t.form # "cidr" => h = t)
  BY <1>1 DEF ResolveTargetHosts
<1>4. ASSUME h.form = "ip", pattern.form = "cidr" PROVE ~Covers(Normalized(pattern), h.addr)
  <2>1. pattern \in [form : {"cidr"}, addr : Nat, size : Nat \ {0}]
    BY <1>4, CompiledExclusion, SessionAssumption DEF WellFormed
  <2>2. PICK net : net = Normalized(pattern)
    OBVIOUS
  <2>3. net.addr \in Nat /\ net.size \in Nat /\ net \in guard.excluded.nets
    BY <1>4, <2>1, <2>2, Lowered, CompiledExclusion
  <2>4. CASE t.form = "cidr"
    <3>1. h.addr \in Nat /\ Covers(t, h.addr) /\ t.addr \in Nat /\ t.size \in Nat
      BY <1>2, <1>3, <2>4, HostsOfNetwork, TargetNetwork
    <3>2. ~Conflict(net, t)
      BY <1>2, <2>3, <2>4 DEF Excluded
    <3> QED BY <2>2, <2>3, <3>1, <3>2, MeetingNetworks
  <2>5. CASE t.form # "cidr"
    BY <1>2, <1>3, <1>4, <2>2, <2>3, <2>5 DEF Excluded
  <2> QED BY <2>4, <2>5
<1>5. ASSUME h.form = "ip", pattern.form = "ip", h.addr = pattern.addr, Scope = h PROVE FALSE
  BY <1>1, <1>2, <1>5, CompiledExclusion DEF Excluded
<1>6. ASSUME h.form = "name", pattern.form = "name" PROVE ~Under(h.labels, pattern.labels)
  <2>1. t = h
    BY <1>2, <1>3, <1>6, HostsOfNetwork
  <2>2. HostOf(t) = h
    BY <1>6, <2>1 DEF HostOf
  <2> QED BY <1>2, <1>6, <2>2, CompiledExclusion DEF Excluded
<1> QED BY <1>4, <1>5, <1>6

----------------------------------------------------------------------------
(* The subnet graph *)

\* The ports of a posture that are open somewhere, and the edges that are drawn of it.
OpenPorts(p) == {port \in DOMAIN p.services : p.services[port] > 0}
Hosted(t, p) == {<<Net(t), Host(h)>> : h \in p.hosts}
Exposed(p) == {<<Host(h), Svc(h, port)>> : h \in p.hosts, port \in OpenPorts(p)}

\* Every host of a posture is drawn with every port that is open somewhere.
LEMMA ExposedCount ==
  ASSUME NEW p, IsFiniteSet(p.hosts), IsFiniteSet(DOMAIN p.services)
  PROVE  /\ IsFiniteSet(OpenPorts(p)) /\ IsFiniteSet(Exposed(p))
         /\ Cardinality(Exposed(p)) = Cardinality(p.hosts) * Cardinality(OpenPorts(p))
<1> DEFINE Open == OpenPorts(p)
           Pairs == p.hosts \X Open
           edge == [x \in Pairs |-> <<Host(x[1]), Svc(x[1], x[2])>>]
           Shown == {edge[x] : x \in Pairs}
<1>1. IsFiniteSet(Open)
  BY FS_Subset DEF OpenPorts
<1>2. Exposed(p) = {<<Host(h), Svc(h, port)>> : h \in p.hosts, port \in Open}
  BY DEF Exposed
<1> HIDE DEF Open
<1>3. IsFiniteSet(Pairs) /\ Cardinality(Pairs) = Cardinality(p.hosts) * Cardinality(Open)
  BY <1>1, FS_Product
<1>4. \A x \in Pairs : x[1] \in p.hosts /\ x[2] \in Open /\ x = <<x[1], x[2]>>
  OBVIOUS
<1>5. \A h \in p.hosts, port \in Open : <<h, port>> \in Pairs
  OBVIOUS
<1>6. /\ DOMAIN edge = Pairs
      /\ \A x \in Pairs : edge[x] = <<Host(x[1]), Svc(x[1], x[2])>>
      /\ \A h \in p.hosts, port \in Open : edge[<<h, port>>] = <<Host(h), Svc(h, port)>>
  BY <1>5
<1>7. \A x, y \in Pairs : edge[x] = edge[y] => x = y
  <2> SUFFICES ASSUME NEW x \in Pairs, NEW y \in Pairs, edge[x] = edge[y] PROVE x = y
    OBVIOUS
  <2>1. <<Host(x[1]), Svc(x[1], x[2])>> = <<Host(y[1]), Svc(y[1], y[2])>>
    BY <1>6
  <2>2. Svc(x[1], x[2]) = Svc(y[1], y[2])
    BY <2>1
  <2>3. x[1] = y[1] /\ x[2] = y[2]
    BY <2>2 DEF Svc
  <2> QED BY <1>4, <2>3
<1> HIDE DEF edge
<1>8. Exposed(p) = Shown
  <2>1. ASSUME NEW e \in Exposed(p) PROVE e \in Shown
    <3>1. PICK h \in p.hosts, port \in Open : e = <<Host(h), Svc(h, port)>>
      BY <1>2
    <3>2. <<h, port>> \in Pairs /\ edge[<<h, port>>] = e
      BY <1>5, <1>6, <3>1
    <3> HIDE DEF Pairs
    <3> QED BY <3>2
  <2>2. ASSUME NEW e \in Shown PROVE e \in Exposed(p)
    BY <1>2, <1>4, <1>6
  <2> QED BY <2>1, <2>2
<1> HIDE DEF Pairs, Shown
<1>9. IsFiniteSet(Shown) /\ Cardinality(Shown) = Cardinality(Pairs)
  BY <1>3, <1>6, <1>7, ImageFinite, ImageCount DEF Shown
<1> QED BY <1>1, <1>3, <1>8, <1>9 DEF Open

\* The subnet graph that "graph path" of falcon-ctl searches is such a graph, whatever the
\* postures of the targets are, and it shows each of them.
LEMMA SubnetIsGraph ==
  ASSUME NEW ps, IsFiniteSet(DOMAIN ps),
         \A n \in DOMAIN ps : IsFiniteSet(ps[n].hosts) /\ IsFiniteSet(DOMAIN ps[n].services)
  PROVE  LET g == BuildSubnetGraph(ps)
         IN  /\ IsGraph(g) /\ IsFiniteSet(g.edges)
             /\ g.edges = UNION {Hosted(n, ps[n]) \cup Exposed(ps[n]) : n \in DOMAIN ps}
             /\ g.nodes = {Net(n) : n \in DOMAIN ps} \cup {e[2] : e \in g.edges}
<1> DEFINE g == BuildSubnetGraph(ps)
           part == [n \in DOMAIN ps |-> Hosted(n, ps[n]) \cup Exposed(ps[n])]
           parts == {part[n] : n \in DOMAIN ps}
           nets == [n \in DOMAIN ps |-> Net(n)]
           heads == [e \in g.edges |-> e[2]]
           pairs == [e \in g.edges |-> {e[1], e[2]}]
<1>0. /\ g.edges = UNION {Hosted(n, ps[n]) \cup Exposed(ps[n]) : n \in DOMAIN ps}
      /\ g.nodes = {Net(n) : n \in DOMAIN ps} \cup {e[2] : e \in g.edges}
  BY DEF BuildSubnetGraph, Hosted, Exposed, OpenPorts
<1>1. /\ g.edges = UNION parts
      /\ g.nodes = {nets[n] : n \in DOMAIN ps} \cup {heads[e] : e \in g.edges}
  <2> HIDE DEF g
  <2>3. parts = {Hosted(n, ps[n]) \cup Exposed(ps[n]) : n \in DOMAIN ps}
    OBVIOUS
  <2> HIDE DEF parts
  <2>4. {nets[n] : n \in DOMAIN ps} = {Net(n) : n \in DOMAIN ps}
    OBVIOUS
  <2>5. {heads[e] : e \in g.edges} = {e[2] : e \in g.edges}
    OBVIOUS
  <2> QED BY <1>0, <2>3, <2>4, <2>5
<1>2. ASSUME NEW n \in DOMAIN ps
      PROVE  IsFiniteSet(part[n]) /\ \A e \in part[n] : e = <<e[1], e[2]>>
  <2> DEFINE p == ps[n]
             member == [h \in p.hosts |-> <<Net(n), Host(h)>>]
  <2>1. IsFiniteSet(p.hosts) /\ IsFiniteSet(DOMAIN p.services)
    OBVIOUS
  <2>2. part[n] = Hosted(n, p) \cup Exposed(p)
    OBVIOUS
  <2> HIDE DEF p
  <2>3. \A e \in Hosted(n, p) \cup Exposed(p) : e = <<e[1], e[2]>>
    BY DEF Hosted, Exposed
  <2>4. Hosted(n, p) = {member[h] : h \in p.hosts}
    BY DEF Hosted
  <2> HIDE DEF member
  <2>5. IsFiniteSet(Hosted(n, p)) /\ IsFiniteSet(Exposed(p))
    <3>1. IsFiniteSet(Hosted(n, p))
      <4>1. IsFiniteSet({member[h] : h \in p.hosts})
        BY <2>1, ImageFinite
      <4> QED BY <2>4, <4>1
    <3>2. IsFiniteSet(Exposed(p))
      BY <2>1, ExposedCount
    <3> QED BY <3>1, <3>2
  <2>6. IsFiniteSet(Hosted(n, p) \cup Exposed(p))
    BY <2>5, FS_Union
  <2> QED BY <2>2, <2>3, <2>6
<1> HIDE DEF part
<1>3. IsFiniteSet(g.edges) /\ \A e \in g.edges : e = <<e[1], e[2]>>
  <2>1. IsFiniteSet(parts) /\ \A p \in parts : IsFiniteSet(p)
    BY <1>2, ImageFinite
  <2>2. \A e \in UNION parts : e = <<e[1], e[2]>>
    BY <1>2
  <2> HIDE DEF parts, g
  <2> QED BY <1>1, <2>1, <2>2, FS_UNION
<1> HIDE DEF g, parts
<1>4. IsFiniteSet(g.nodes)
  <2>1. IsFiniteSet({nets[n] : n \in DOMAIN ps})
    <3> HIDE DEF nets
    <3> QED BY ImageFinite
  <2>2. IsFiniteSet({heads[e] : e \in g.edges})
    <3> HIDE DEF heads
    <3> QED BY <1>3, ImageFinite
  <2> DEFINE A == {nets[n] : n \in DOMAIN ps}
             H == {heads[e] : e \in g.edges}
  <2>3. g.nodes = A \cup H
    BY <1>1
  <2>4. IsFiniteSet(A) /\ IsFiniteSet(H)
    BY <2>1, <2>2
  <2> HIDE DEF A, H
  <2> QED BY <2>3, <2>4, FS_Union
<1>5. IsFiniteSet(UNION {{e[1], e[2]} : e \in g.edges})
  <2> DEFINE Pairs == {pairs[e] : e \in g.edges}
  <2>1. IsFiniteSet(Pairs)
    <3> HIDE DEF pairs
    <3> QED BY <1>3, ImageFinite
  <2>2. \A p \in Pairs : IsFiniteSet(p)
    <3>1. ASSUME NEW e \in g.edges PROVE IsFiniteSet({e[1], e[2]})
      <4>1. IsFiniteSet({e[1]} \cup {e[2]})
        BY FS_Singleton, FS_Union
      <4>2. {e[1]} \cup {e[2]} = {e[1], e[2]}
        OBVIOUS
      <4> QED BY <4>1, <4>2
    <3> QED BY <3>1
  <2>3. Pairs = {{e[1], e[2]} : e \in g.edges}
    OBVIOUS
  <2> HIDE DEF Pairs
  <2> QED BY <2>1, <2>2, <2>3, FS_UNION
<1>6. IsGraph(g)
  BY <1>3, <1>4, <1>5, FS_Union DEF IsGraph, Ends
<1> QED BY <1>0, <1>3, <1>6 DEF g

\* So "graph path" of falcon-ctl finds a shortest path in it, and none when there is none.
THEOREM SubnetPathsFound ==
  ASSUME NEW ps, IsFiniteSet(DOMAIN ps),
         \A n \in DOMAIN ps : IsFiniteSet(ps[n].hosts) /\ IsFiniteSet(DOMAIN ps[n].services)
  PROVE  LET g == BuildSubnetGraph(ps)
         IN  \A source, target \in g.nodes :
               IsShortestPath(g, source, target, DetailedPath(g, source, target))
  BY SubnetIsGraph, ShortestPathFound

----------------------------------------------------------------------------
(* The postures *)

IsPosture(p) ==
  /\ p = [hosts |-> p.hosts, services |-> p.services, score |-> p.score,
          compliance |-> p.compliance]
  /\ IsFiniteSet(p.hosts) /\ IsFiniteSet(DOMAIN p.services)

\* However often targets are audited and hosts are heard of, there are finitely many
\* postures, each of finitely many hosts and services; an audit has found finitely many.
PosturesInv ==
  /\ IsFiniteSet(DOMAIN postures) /\ \A t \in DOMAIN postures : IsPosture(postures[t])
  /\ IsFiniteSet(audit.found) /\ profile \in Profile

\* A sweep is of an interval of addresses that is as long as the cap lets it be.
LEMMA HostsFinite ==
  ASSUME NEW t \in Target
  PROVE  IsFiniteSet(ResolveTargetHosts(t)) /\ Cardinality(ResolveTargetHosts(t)) <= SweepCap + 1
<1>0. SweepCap \in Nat
  BY SessionAssumption
<1>1. CASE t.form = "cidr"
  <2> DEFINE n == Min({t.size, SweepCap + 1})
             low == IF n > 2 THEN t.addr + 1 ELSE t.addr
             high == IF n > 2 THEN t.addr + n - 2 ELSE t.addr + n - 1
             swept == low .. high
             address == [a \in swept |-> IpTarget(a)]
  <2>1. t.addr \in Nat /\ t.size \in Nat
    BY <1>1, TargetNetwork
  <2>2. n \in Nat /\ n <= SweepCap + 1
    BY <1>0, <2>1, Extremes
  <2>3. ResolveTargetHosts(t) = {IpTarget(a) : a \in swept}
    BY <1>1 DEF ResolveTargetHosts
  <2> HIDE DEF n
  <2>4. low \in Int /\ high \in Int /\ high - low + 1 <= SweepCap + 1
    BY <1>0, <2>1, <2>2
  <2> HIDE DEF low, high
  <2>5. IsFiniteSet(swept) /\ Cardinality(swept) <= SweepCap + 1
    BY <1>0, <2>4, FS_Interval
  <2>6. Cardinality(swept) \in Nat
    BY <2>5, FS_CardinalityType
  <2> HIDE DEF swept
  <2>7. ResolveTargetHosts(t) = {address[a] : a \in swept}
    BY <2>3
  <2> HIDE DEF address
  <2>8. /\ IsFiniteSet(ResolveTargetHosts(t))
        /\ Cardinality(ResolveTargetHosts(t)) <= Cardinality(swept)
    BY <2>5, <2>7, ImageFinite
  <2>9. Cardinality(ResolveTargetHosts(t)) \in Nat
    BY <2>8, FS_CardinalityType
  <2> QED BY <1>0, <2>5, <2>6, <2>8, <2>9
<1>2. CASE t.form # "cidr"
  BY <1>0, <1>2, FS_Singleton DEF ResolveTargetHosts
<1> QED BY <1>1, <1>2

\* A posture that is set is one more at most.
LEMMA SetPostureKeeps ==
  ASSUME PosturesInv, NEW t, NEW p, IsPosture(p), SetPosture(t, p)
  PROVE  /\ IsFiniteSet(DOMAIN postures')
         /\ \A u \in DOMAIN postures' : IsPosture(postures'[u])
<1>1. /\ DOMAIN postures' = {t} \cup DOMAIN postures
      /\ postures'[t] = p
      /\ \A u \in DOMAIN postures \ {t} : postures'[u] = postures[u]
  BY DEF SetPosture
<1>2. IsFiniteSet({t} \cup DOMAIN postures)
  BY FS_Singleton, FS_Union DEF PosturesInv
<1> QED BY <1>1, <1>2 DEF PosturesInv

\* What an audit writes, of what it found.
LEMMA EvaluatedPosture == PosturesInv => IsPosture(Evaluated)
<1> SUFFICES ASSUME PosturesInv PROVE IsPosture(Evaluated)
  OBVIOUS
<1> DEFINE host == [f \in audit.found |-> f[1]]
<1>1. Evaluated.hosts = {f[1] : f \in audit.found} /\ DOMAIN Evaluated.services = Ports[profile]
  BY DEF Evaluated
<1>2. {f[1] : f \in audit.found} = {host[f] : f \in audit.found}
  OBVIOUS
<1>3. IsFiniteSet({host[f] : f \in audit.found})
  <2> HIDE DEF host
  <2> QED BY ImageFinite DEF PosturesInv
<1>4. IsFiniteSet(Ports[profile])
  BY SessionAssumption DEF PosturesInv
<1>5. Evaluated = [hosts |-> Evaluated.hosts, services |-> Evaluated.services,
                   score |-> Evaluated.score, compliance |-> Evaluated.compliance]
  BY DEF Evaluated
<1> QED BY <1>1, <1>2, <1>3, <1>4, <1>5 DEF IsPosture

\* What a listener adds to a posture, or to one that there was not.
LEMMA DiscoveryKeeps ==
  ASSUME PosturesInv, NEW t, NEW h, AddDiscoveredHost(t, h)
  PROVE  /\ IsFiniteSet(DOMAIN postures')
         /\ \A u \in DOMAIN postures' : IsPosture(postures'[u])
<1> DEFINE none == [hosts |-> {}, services |-> << >>, score |-> 0, compliance |-> "UNKNOWN"]
           p == IF t \in DOMAIN postures THEN postures[t] ELSE none
<1>1. IsPosture(none)
  <2>1. DOMAIN << >> = {}
    OBVIOUS
  <2> QED BY <2>1, FS_EmptySet DEF IsPosture
<1>2. IsPosture(p)
  BY <1>1 DEF PosturesInv
<1>3. SetPosture(t, [p EXCEPT !.hosts = @ \cup {h}])
  BY DEF AddDiscoveredHost
<1> HIDE DEF p
<1>4. [p EXCEPT !.hosts = @ \cup {h}]
        = [hosts |-> p.hosts \cup {h}, services |-> p.services, score |-> p.score,
           compliance |-> p.compliance]
  BY <1>2 DEF IsPosture
<1>5. IsFiniteSet(p.hosts \cup {h})
  BY <1>2, FS_Singleton, FS_Union DEF IsPosture
<1>6. IsPosture([p EXCEPT !.hosts = @ \cup {h}])
  BY <1>2, <1>4, <1>5 DEF IsPosture
<1> QED BY <1>3, <1>6, SetPostureKeeps

LEMMA InitPostures == Init => PosturesInv
<1>1. DOMAIN << >> = {}
  OBVIOUS
<1> QED BY <1>1, FS_EmptySet, SessionAssumption DEF Init, PosturesInv, NoAudit

LEMMA PosturesKeep == SessionInv /\ PosturesInv /\ [Next]_vars => PosturesInv'
<1> SUFFICES ASSUME SessionInv, PosturesInv, [Next]_vars PROVE PosturesInv'
  OBVIOUS
<1>1. ASSUME UNCHANGED <<postures, audit>>, profile' \in Profile PROVE PosturesInv'
  BY <1>1 DEF PosturesInv
<1>2. profile \in Profile /\ AuditOK
  BY DEF PosturesInv, SessionInv
<1>3. CASE Command
  <2>1. UNCHANGED <<postures, audit>>
    BY <1>3 DEF Command, TargetCommand, ScopeCommand, SetCommand, AddTarget, RunsAway,
                RemoveTarget, ClearTargets, AddScopeRule, SetTargets, SetProfile,
                EvidenceCommand, Typed
  <2>2. profile' \in Profile
    BY <1>2, <1>3 DEF Command, TargetCommand, ScopeCommand, SetCommand, AddTarget, RunsAway,
                RemoveTarget, ClearTargets, AddScopeRule, SetTargets, SetProfile,
                EvidenceCommand, session
  <2> QED BY <1>1, <2>1, <2>2
<1>4. CASE Exit \/ Terminated \/ UNCHANGED vars
  BY <1>1, <1>2, <1>4 DEF Exit, Terminated, vars, session
<1>5. ASSUME NextScope PROVE audit'.found = {}
  BY <1>2, <1>5 DEF NextScope, AuditOK
<1>6. ASSUME audit'.found = {}, UNCHANGED <<postures, profile>> PROVE PosturesInv'
  BY <1>6, FS_EmptySet DEF PosturesInv
<1>7. CASE \E passive \in BOOLEAN : StartAudit(passive)
  <2>1. audit'.found = {} /\ UNCHANGED <<postures, profile>>
    BY <1>7 DEF StartAudit, NoAudit, session
  <2> QED BY <1>6, <2>1
<1>8. CASE SkipScope
  BY <1>5, <1>6, <1>8 DEF SkipScope, session
<1>9. CASE ProbeScope
  <2>1. PICK found \in SUBSET (ResolveTargetHosts(Scope) \X Ports[profile]) :
          audit' = [audit EXCEPT !.stage = "probed", !.found = found]
    BY <1>9 DEF ProbeScope
  <2>2. audit'.found = found
    BY <1>2, <2>1 DEF AuditOK
  <2>3. Scope \in Target
    <3>1. audit.scope \in Seq(Target) /\ audit.at \in 1 .. Len(audit.scope)
      BY <1>2, <1>9 DEF ProbeScope, AuditOK, Auditing
    <3> QED BY <3>1 DEF Scope
  <2>4. IsFiniteSet(ResolveTargetHosts(Scope)) /\ IsFiniteSet(Ports[profile])
    BY <1>2, <2>3, HostsFinite, SessionAssumption
  <2>5. IsFiniteSet(found)
    BY <2>4, FS_Product, FS_Subset
  <2>6. UNCHANGED <<postures, profile>>
    BY <1>9 DEF ProbeScope
  <2> QED BY <2>2, <2>5, <2>6 DEF PosturesInv
<1>10. CASE RecordScope
  <2>1. SetPosture(Scope, Evaluated) /\ audit'.found = {} /\ profile' = profile
    BY <1>5, <1>10 DEF RecordScope
  <2>2. /\ IsFiniteSet(DOMAIN postures')
        /\ \A u \in DOMAIN postures' : IsPosture(postures'[u])
    BY <2>1, EvaluatedPosture, SetPostureKeeps
  <2> QED BY <1>2, <2>1, <2>2, FS_EmptySet DEF PosturesInv
<1>11. CASE FinishAudit
  <2>1. audit'.found = {} /\ UNCHANGED <<postures, profile>>
    BY <1>11 DEF FinishAudit, NoAudit, session
  <2> QED BY <1>6, <2>1
<1>12. ASSUME NEW l \in Listener, ListenerStep(l) \/ Packet(l) PROVE PosturesInv'
  <2>1. audit' = audit /\ profile' = profile
    BY <1>12 DEF ListenerStep, Packet, Discover, session
  <2>2. CASE Discover(l)
    <3>1. /\ IsFiniteSet(DOMAIN postures')
          /\ \A u \in DOMAIN postures' : IsPosture(postures'[u])
      BY <2>2, DiscoveryKeeps DEF Discover
    <3> QED BY <2>1, <3>1 DEF PosturesInv
  <2>3. CASE UNCHANGED session
    BY <1>1, <1>2, <2>1, <2>3 DEF session
  <2> QED BY <1>12, <2>2, <2>3 DEF ListenerStep, Packet
<1> QED BY <1>3, <1>4, <1>7, <1>8, <1>9, <1>10, <1>11, <1>12 DEF Next, AuditStep

----------------------------------------------------------------------------
(* Sums *)

\* A total is reached step by step.
LEMMA TotalSteps ==
  ASSUME NEW S, IsFiniteSet(S), NEW f, \A x \in S : f[x] \in Nat
  PROVE  \E h : /\ h[0] = 0 /\ h[Cardinality(S)] = Total(f, S)
                /\ \A i \in 1 .. Cardinality(S) : h[i] = h[i - 1] + f[Listed(S)[i]]
                /\ \A i \in 0 .. Cardinality(S) : h[i] \in Nat
<1> DEFINE order == Listed(S)
           Size == Len(order)
           Run(h) == h = [i \in 0 .. Size |-> IF i = 0 THEN 0 ELSE h[i - 1] + f[order[i]]]
           sum == CHOOSE h : Run(h)
           Sound == Nat \X Nat
           R == {x \in (1 .. Size) \X Nat \X Nat : x[3] = x[2] + f[order[x[1]]]}
<1>1. Total(f, S) = sum[Size]
  BY DEF Total
<1>2. Size \in Nat /\ Size = Cardinality(S) /\ \A i \in 1 .. Size : f[order[i]] \in Nat
  <2>1. order \in Seq(S) /\ Size = Cardinality(S)
    BY ListedOnce
  <2> QED BY <2>1
<1> HIDE DEF Size, order
<1>3. \E h : Run(h)
  <2>1. \A i \in 1 .. Size : \A m : <<i - 1, m>> \in Sound =>
          \E n : <<i, n>> \in Sound /\ <<i, m, n>> \in R
    <3> SUFFICES ASSUME NEW i \in 1 .. Size, NEW m, <<i - 1, m>> \in Sound
                 PROVE  \E n : <<i, n>> \in Sound /\ <<i, m, n>> \in R
      OBVIOUS
    <3>1. m \in Nat /\ m + f[order[i]] \in Nat /\ i \in Nat
      BY <1>2
    <3>2. <<i, m + f[order[i]]>> \in Sound /\ <<i, m, m + f[order[i]]>> \in R
      BY <3>1
    <3> QED BY <3>2
  <2>2. <<0, 0>> \in Sound /\ \A i, m, n : <<i, m, n>> \in R => n = m + f[order[i]]
    OBVIOUS
  <2> HIDE DEF Sound, R
  <2>3. PICK h : /\ h = [i \in 0 .. Size |-> h[i]] /\ h[0] = 0
                 /\ \A i \in 1 .. Size : <<i, h[i - 1], h[i]>> \in R
    BY <1>2, <2>1, <2>2, Iterates
  <2>4. \A i \in 0 .. Size : h[i] = IF i = 0 THEN 0 ELSE h[i - 1] + f[order[i]]
    <3> SUFFICES ASSUME NEW i \in 0 .. Size
                 PROVE  h[i] = IF i = 0 THEN 0 ELSE h[i - 1] + f[order[i]]
      OBVIOUS
    <3>1. CASE i = 0
      BY <2>3, <3>1
    <3>2. CASE i # 0
      <4>1. i \in 1 .. Size
        BY <1>2, <3>2
      <4> QED BY <2>2, <2>3, <3>2, <4>1
    <3> QED BY <3>1, <3>2
  <2>5. Run(h)
    BY <2>3, <2>4
  <2> QED BY <2>5
<1>4. Run(sum)
  <2> HIDE DEF Run
  <2> QED BY <1>3
<1> HIDE DEF sum
<1>5. sum[0] = 0 /\ \A i \in 1 .. Size : sum[i] = sum[i - 1] + f[order[i]]
  BY <1>2, <1>4
<1> DEFINE Good == {i \in Nat : sum[i] \in Nat}
<1>6. \A i \in 0 .. Size : i \in Good
  <2>1. 0 \in Good
    BY <1>5
  <2>2. \A i \in 1 .. Size : i - 1 \in Good => i \in Good
    BY <1>2, <1>5
  <2> HIDE DEF Good
  <2> QED BY <1>2, <2>1, <2>2, FirstFailure
<1>7. \A i \in 0 .. Size : sum[i] \in Nat
  BY <1>6
<1> QED BY <1>1, <1>2, <1>5, <1>7 DEF order

\* A total of more is no less.
LEMMA TotalGrows ==
  ASSUME NEW S, IsFiniteSet(S), NEW f, NEW g,
         \A x \in S : f[x] \in Nat /\ g[x] \in Nat /\ f[x] <= g[x]
  PROVE  Total(f, S) \in Nat /\ Total(g, S) \in Nat /\ Total(f, S) <= Total(g, S)
<1> DEFINE order == Listed(S)
           Size == Cardinality(S)
<1>1. Size \in Nat /\ \A i \in 1 .. Size : order[i] \in S
  <2>1. order \in Seq(S) /\ Len(order) = Size
    BY ListedOnce
  <2> QED BY <2>1
<1>2. PICK h : /\ h[0] = 0 /\ h[Size] = Total(f, S)
               /\ \A i \in 1 .. Size : h[i] = h[i - 1] + f[order[i]]
               /\ \A i \in 0 .. Size : h[i] \in Nat
  BY TotalSteps
<1>3. PICK k : /\ k[0] = 0 /\ k[Size] = Total(g, S)
               /\ \A i \in 1 .. Size : k[i] = k[i - 1] + g[order[i]]
               /\ \A i \in 0 .. Size : k[i] \in Nat
  BY TotalSteps
<1> HIDE DEF Size, order
<1> DEFINE Good == {i \in 0 .. Size : h[i] <= k[i]}
<1>4. \A i \in 0 .. Size : i \in Good
  <2>1. 0 \in Good
    BY <1>1, <1>2, <1>3
  <2>2. ASSUME NEW i \in 1 .. Size, i - 1 \in Good PROVE i \in Good
    <3>1. /\ h[i] = h[i - 1] + f[order[i]] /\ k[i] = k[i - 1] + g[order[i]]
          /\ f[order[i]] \in Nat /\ g[order[i]] \in Nat /\ f[order[i]] <= g[order[i]]
      BY <1>1, <1>2, <1>3
    <3>2. i - 1 \in 0 .. Size /\ i \in 0 .. Size /\ h[i - 1] <= k[i - 1]
      BY <1>1, <2>2
    <3>3. h[i - 1] \in Nat /\ k[i - 1] \in Nat
      BY <1>2, <1>3, <3>2
    <3>4. h[i] <= k[i]
      BY <3>1, <3>2, <3>3
    <3> QED BY <3>2, <3>4
  <2> HIDE DEF Good
  <2> QED BY <1>1, <2>1, <2>2, FirstFailure
<1>5. Size \in 0 .. Size
  BY <1>1
<1>6. h[Size] <= k[Size] /\ h[Size] \in Nat /\ k[Size] \in Nat
  BY <1>2, <1>3, <1>4, <1>5
<1> QED BY <1>2, <1>3, <1>6

\* A total of what is c at most, and is nothing outside of O, is that often c at most.
LEMMA TotalBound ==
  ASSUME NEW S, IsFiniteSet(S), NEW f, NEW O \in SUBSET S, NEW c \in Nat,
         \A x \in S : f[x] \in Nat /\ f[x] <= c /\ (x \notin O => f[x] = 0)
  PROVE  Total(f, S) \in Nat /\ Total(f, S) <= c * Cardinality(O)
<1> DEFINE order == Listed(S)
           Size == Cardinality(S)
           Early(i) == {x \in O : \E j \in 1 .. i : order[j] = x}
<1>1. /\ Size \in Nat /\ \A i \in 1 .. Size : order[i] \in S
      /\ \A i, j \in 1 .. Size : order[i] = order[j] => i = j
  <2>1. order \in Seq(S) /\ Len(order) = Size /\ \A i, j \in DOMAIN order : order[i] = order[j] => i = j
    BY ListedOnce
  <2> QED BY <2>1
<1>2. PICK h : /\ h[0] = 0 /\ h[Size] = Total(f, S)
               /\ \A i \in 1 .. Size : h[i] = h[i - 1] + f[order[i]]
               /\ \A i \in 0 .. Size : h[i] \in Nat
  BY TotalSteps
<1> HIDE DEF Size, order
<1>3. IsFiniteSet(O) /\ \A i : Early(i) \subseteq O
  BY FS_Subset
<1>4. \A i : IsFiniteSet(Early(i)) /\ Cardinality(Early(i)) \in Nat
  <2> HIDE DEF Early
  <2> QED BY <1>3, FS_Subset, FS_CardinalityType
<1> DEFINE Good == {i \in 0 .. Size : h[i] <= c * Cardinality(Early(i))}
<1>5. \A i \in 0 .. Size : i \in Good
  <2>1. 0 \in Good
    <3>1. h[0] <= c * Cardinality(Early(0))
      <4> HIDE DEF Early
      <4>1. c * Cardinality(Early(0)) \in Nat
        BY <1>4
      <4> QED BY <1>2, <4>1
    <3>2. 0 \in 0 .. Size
      BY <1>1
    <3> HIDE DEF Early
    <3> QED BY <3>1, <3>2
  <2>2. ASSUME NEW i \in 1 .. Size, i - 1 \in Good PROVE i \in Good
    <3> DEFINE x == order[i]
               a == Cardinality(Early(i - 1))
               b == Cardinality(Early(i))
    <3>1. /\ h[i] = h[i - 1] + f[x] /\ x \in S
          /\ f[x] \in Nat /\ f[x] <= c /\ (x \notin O => f[x] = 0)
      BY <1>1, <1>2
    <3>2. i - 1 \in 0 .. Size /\ i \in 0 .. Size
      BY <1>1
    <3>3. h[i - 1] \in Nat /\ h[i - 1] <= c * a
      BY <1>2, <2>2, <3>2
    <3>4. CASE x \in O
      <4>1. Early(i) = Early(i - 1) \cup {x}
        <5>1. \A j \in 1 .. i : j = i \/ j \in 1 .. (i - 1)
          BY <1>1
        <5>2. \A j \in 1 .. (i - 1) : j \in 1 .. i
          BY <1>1
        <5>3. i \in 1 .. i
          BY <1>1
        <5> QED BY <3>4, <5>1, <5>2, <5>3
      <4>2. x \notin Early(i - 1)
        <5>1. \A j \in 1 .. (i - 1) : j \in 1 .. Size /\ j # i
          BY <1>1
        <5> QED BY <1>1, <5>1
      <4> HIDE DEF Early, x
      <4>3. b = a + 1
        BY <1>4, <4>1, <4>2, FS_AddElement
      <4>4. a \in Nat
        BY <1>4
      <4> HIDE DEF a, b
      <4>5. c * b = c * a + c
        BY <4>3, <4>4
      <4>6. c * a \in Nat
        BY <4>4
      <4>7. h[i] <= c * b
        BY <3>1, <3>3, <4>5, <4>6
      <4> QED BY <3>2, <4>7 DEF b
    <3>5. CASE x \notin O
      <4>1. Early(i) = Early(i - 1)
        <5>1. \A j \in 1 .. i : j = i \/ j \in 1 .. (i - 1)
          BY <1>1
        <5>2. \A j \in 1 .. (i - 1) : j \in 1 .. i
          BY <1>1
        <5> QED BY <3>5, <5>1, <5>2
      <4> HIDE DEF Early
      <4>2. h[i] <= c * b
        BY <3>1, <3>3, <3>5, <4>1
      <4> QED BY <3>2, <4>2
    <3> QED BY <3>4, <3>5
  <2> HIDE DEF Good
  <2> QED BY <1>1, <2>1, <2>2, FirstFailure
<1>6. Size \in 0 .. Size
  BY <1>1
<1>7. h[Size] \in Nat /\ h[Size] <= c * Cardinality(Early(Size))
  BY <1>2, <1>5, <1>6
<1>8. Cardinality(Early(Size)) <= Cardinality(O) /\ Cardinality(O) \in Nat
  <2> HIDE DEF Early
  <2> QED BY <1>3, FS_Subset, FS_CardinalityType
<1>9. c * Cardinality(Early(Size)) <= c * Cardinality(O)
  <2> DEFINE a == Cardinality(Early(Size))
             b == Cardinality(O)
  <2>1. a \in Nat /\ b \in Nat /\ a <= b
    BY <1>4, <1>8
  <2> HIDE DEF a, b
  <2>2. c * a <= c * b
    BY <2>1
  <2> QED BY <2>2 DEF a, b
<1>10. /\ c * Cardinality(Early(Size)) \in Nat /\ c * Cardinality(O) \in Nat
  <2> HIDE DEF Early
  <2> QED BY <1>4, <1>8
<1> HIDE DEF Early
<1> QED BY <1>2, <1>7, <1>9, <1>10

----------------------------------------------------------------------------
(* Scores *)

\* The product of more is no less.
LEMMA ProductGrows ==
  ASSUME NEW a \in Nat, NEW b \in Nat, NEW c \in Nat, NEW d \in Nat, a <= b, c <= d
  PROVE  a * c \in Nat /\ b * d \in Nat /\ a * c <= b * d
<1>1. a * c \in Nat /\ b * c \in Nat /\ b * d \in Nat
  OBVIOUS
<1>2. a * c <= b * c
  OBVIOUS
<1>3. b * c <= b * d
  OBVIOUS
<1> QED BY <1>1, <1>2, <1>3

\* What a sum of weights and the number of hosts make of a score.
Scored(sum, n) == Min({100, (sum * 6 * Proximity[Max({1, n})] + 5000) \div 10000})

LEMMA ScoredGrows ==
  ASSUME NEW a \in Nat, NEW b \in Nat, NEW m \in Nat, NEW n \in Nat, a <= b, m <= n,
         n <= Len(Proximity), Len(Proximity) >= 1
  PROVE  Scored(a, m) \in Nat /\ Scored(b, n) \in Nat /\ Scored(a, m) <= Scored(b, n)
<1> DEFINE x == Max({1, m})
           y == Max({1, n})
           low == (a * 6 * Proximity[x] + 5000) \div 10000
           high == (b * 6 * Proximity[y] + 5000) \div 10000
<1>1. /\ x \in Nat \ {0} /\ y \in Nat \ {0} /\ x <= y
      /\ y <= Len(Proximity) /\ Len(Proximity) \in Nat
  <2>1. /\ x \in {1, m} /\ 1 <= x /\ m <= x
        /\ y \in {1, n} /\ 1 <= y /\ n <= y
    BY Extremes
  <2>2. Len(Proximity) \in Nat
    BY SimulatorAssumption
  <2> HIDE DEF x, y
  <2> QED BY <2>1, <2>2
<1> HIDE DEF x, y
<1>2. x \in DOMAIN Proximity /\ y \in DOMAIN Proximity
  BY <1>1, SimulatorAssumption
<1>3. Proximity[x] \in Nat /\ Proximity[y] \in Nat /\ Proximity[x] <= Proximity[y]
  BY <1>1, <1>2, SimulatorAssumption
<1>4. a * 6 \in Nat /\ b * 6 \in Nat /\ a * 6 <= b * 6
  OBVIOUS
<1> DEFINE s == a * 6 * Proximity[x]
           t == b * 6 * Proximity[y]
<1>5. s \in Nat /\ t \in Nat /\ s <= t
  BY <1>3, <1>4, ProductGrows
<1>6. low = (s + 5000) \div 10000 /\ high = (t + 5000) \div 10000
  OBVIOUS
<1> HIDE DEF s, t, low, high
<1>7. low \in Nat /\ high \in Nat /\ low <= high
  BY <1>5, <1>6
<1>8. /\ Min({100, low}) \in {100, low} /\ Min({100, low}) <= 100 /\ Min({100, low}) <= low
      /\ Min({100, high}) \in {100, high}
  BY <1>7, Extremes
<1>9. Scored(a, m) = Min({100, low}) /\ Scored(b, n) = Min({100, high})
  BY DEF Scored, x, y, low, high
<1> QED BY <1>7, <1>8, <1>9

\* A posture whose services are a table of natural numbers, and that has no more hosts
\* than there are factors.
Scorable(p) ==
  /\ IsFiniteSet(p.hosts) /\ Cardinality(p.hosts) <= Len(Proximity)
  /\ IsFiniteSet(DOMAIN p.services) /\ \A port \in DOMAIN p.services : p.services[port] \in Nat

\* More hosts and more services on the same ports make no score less.
LEMMA ScoreGrows ==
  ASSUME NEW p, NEW q, Scorable(p), Scorable(q), DOMAIN p.services = DOMAIN q.services,
         \A port \in DOMAIN p.services : p.services[port] <= q.services[port],
         Cardinality(p.hosts) <= Cardinality(q.hosts), Len(Proximity) >= 1
  PROVE  /\ CalculateBlastScore(p) \in Nat /\ CalculateBlastScore(q) \in Nat
         /\ CalculateBlastScore(p) <= CalculateBlastScore(q)
<1> DEFINE S == DOMAIN p.services
           f == [port \in S |-> p.services[port] * CriticalityWeight(port)]
           g == [port \in S |-> q.services[port] * CriticalityWeight(port)]
<1>1. \A port \in S : f[port] \in Nat /\ g[port] \in Nat /\ f[port] <= g[port]
  <2> SUFFICES ASSUME NEW port \in S
               PROVE  f[port] \in Nat /\ g[port] \in Nat /\ f[port] <= g[port]
    OBVIOUS
  <2>1. CriticalityWeight(port) \in Nat
    BY DEF CriticalityWeight
  <2>2. /\ p.services[port] \in Nat /\ q.services[port] \in Nat
        /\ p.services[port] <= q.services[port]
    BY DEF Scorable
  <2> QED BY <2>1, <2>2, ProductGrows
<1>2. /\ CalculateBlastScore(p) = Scored(Total(f, S), Cardinality(p.hosts))
      /\ CalculateBlastScore(q) = Scored(Total(g, S), Cardinality(q.hosts))
  BY DEF CalculateBlastScore, Scored
<1>3. IsFiniteSet(S) /\ IsFiniteSet(p.hosts) /\ IsFiniteSet(q.hosts)
  BY DEF Scorable
<1> HIDE DEF f, g, S
<1>4. Total(f, S) \in Nat /\ Total(g, S) \in Nat /\ Total(f, S) <= Total(g, S)
  BY <1>1, <1>3, TotalGrows
<1>5. Cardinality(p.hosts) \in Nat /\ Cardinality(q.hosts) \in Nat
  BY <1>3, FS_CardinalityType
<1>6. Cardinality(q.hosts) <= Len(Proximity)
  BY DEF Scorable
<1> QED BY <1>2, <1>4, <1>5, <1>6, ScoredGrows

\* A posture whose services are no more than its hosts on any port is what the simulation
\* promises: blocking one makes the score no worse and severs edges that are drawn.
LEMMA BlockedIsNoWorse ==
  ASSUME NEW p, Scorable(p), Len(Proximity) >= 1,
         p = [hosts |-> p.hosts, services |-> p.services, score |-> p.score,
              compliance |-> p.compliance],
         \A port \in DOMAIN p.services : p.services[port] <= Cardinality(p.hosts),
         NEW g, IsFiniteSet(g.edges), Exposed(p) \subseteq g.edges, NEW port
  PROVE  LET result == SimulateBlockRule(g, port, p)
         IN  result.mitigatedScore <= result.initialScore /\ result.remainingEdges >= 0
<1> DEFINE result == SimulateBlockRule(g, port, p)
           S == DOMAIN p.services
           blocked == IF port = 0 THEN S ELSE {port}
           left == [x \in S |-> IF x \in blocked THEN 0 ELSE p.services[x]]
           severed == [x \in S |-> p.services[x] - left[x]]
           rest == [p EXCEPT !.services = left]
<1>1. /\ result.initialScore = CalculateBlastScore(p)
      /\ result.mitigatedScore = CalculateBlastScore(rest)
      /\ result.remainingEdges = Cardinality(g.edges) - Total(severed, S)
  BY DEF SimulateBlockRule
<1>2. /\ IsFiniteSet(S) /\ IsFiniteSet(p.hosts) /\ \A x \in S : p.services[x] \in Nat
      /\ \A x \in S : p.services[x] <= Cardinality(p.hosts)
  BY DEF Scorable
<1>3. \A x \in S : left[x] \in Nat /\ left[x] <= p.services[x]
  <2> HIDE DEF blocked
  <2> QED BY <1>2
<1>4. DOMAIN left = S /\ DOMAIN severed = S
  OBVIOUS
<1>5. \A x \in S : /\ severed[x] \in Nat /\ severed[x] <= Cardinality(p.hosts)
                   /\ x \notin OpenPorts(p) => severed[x] = 0
  <2> SUFFICES ASSUME NEW x \in S
               PROVE  /\ severed[x] \in Nat /\ severed[x] <= Cardinality(p.hosts)
                      /\ x \notin OpenPorts(p) => severed[x] = 0
    OBVIOUS
  <2>1. severed[x] = p.services[x] - left[x]
    OBVIOUS
  <2>2. x \notin OpenPorts(p) => ~(p.services[x] > 0)
    BY DEF OpenPorts
  <2>3. Cardinality(p.hosts) \in Nat
    BY <1>2, FS_CardinalityType
  <2> HIDE DEF left, severed
  <2> QED BY <1>2, <1>3, <2>1, <2>2, <2>3
<1> HIDE DEF left, severed, result
<1>6. rest.hosts = p.hosts /\ rest.services = left
  OBVIOUS
<1> HIDE DEF rest
<1>7. result.mitigatedScore <= result.initialScore
  <2>1. Scorable(rest)
    BY <1>2, <1>3, <1>4, <1>6 DEF Scorable
  <2>2. Cardinality(rest.hosts) <= Cardinality(p.hosts)
    BY <1>2, <1>6, FS_CardinalityType
  <2> QED BY <1>1, <1>3, <1>4, <1>6, <2>1, <2>2, ScoreGrows
<1>8. result.remainingEdges >= 0
  <2>1. OpenPorts(p) \in SUBSET S
    BY DEF OpenPorts
  <2>2. Cardinality(p.hosts) \in Nat
    BY <1>2, FS_CardinalityType
  <2> HIDE DEF S
  <2>3. /\ Total(severed, S) \in Nat
        /\ Total(severed, S) <= Cardinality(p.hosts) * Cardinality(OpenPorts(p))
    BY <1>2, <1>5, <2>1, <2>2, TotalBound
  <2>4. Cardinality(Exposed(p)) = Cardinality(p.hosts) * Cardinality(OpenPorts(p))
    BY <1>2, ExposedCount DEF S
  <2>5. /\ Cardinality(Exposed(p)) \in Nat /\ Cardinality(g.edges) \in Nat
        /\ Cardinality(Exposed(p)) <= Cardinality(g.edges)
    BY FS_Subset, FS_CardinalityType
  <2> QED BY <1>1, <2>3, <2>4, <2>5
<1> QED BY <1>7, <1>8 DEF result

----------------------------------------------------------------------------
(* What the postures show *)

\* The hosts that a listener may hear of.
Heard == {IpTarget(a) : a \in Source}

SeenIn(E, t, port) == {h \in ResolveTargetHosts(t) : [address |-> h, port |-> port] \in E}

\* A posture p of target t that the evidence E explains.
Explained(E, t, p) ==
  /\ t \in Target /\ IsPosture(p)
  /\ p.hosts \subseteq ResolveTargetHosts(t) \cup Heard
  /\ \A port \in DOMAIN p.services : /\ p.services[port] \in Nat
                                     /\ p.services[port] <= Cardinality(p.hosts)
                                     /\ p.services[port] <= Cardinality(SeenIn(E, t, port))
  /\ p.score \in Nat /\ p.score <= CalculateBlastScore(p)
  /\ p.compliance = "FAIL" <=> p.score >= 50
  /\ p.compliance = "UNKNOWN" => p.services = << >> /\ p.score = 0 /\ p.hosts # {}

\* What an audit has found and not yet recorded is in evidence.
FoundOK ==
  audit.stage = "probed" =>
    /\ audit.found \subseteq ResolveTargetHosts(Scope) \X Ports[profile]
    /\ \A f \in audit.found : [address |-> f[1], port |-> f[2]] \in evidence

\* A listener that was started listens for a target, and hears of sources.
ListenerOK(r) ==
  /\ r = [pc |-> r.pc, subnet |-> r.subnet, ip |-> r.ip]
  /\ r.pc # "off" => r.subnet \in Target
  /\ r.pc = "found" => r.ip \in Source

ListenersOK ==
  /\ listener = [l \in Listener |-> listener[l]]
  /\ \A l \in Listener : ListenerOK(listener[l])

\* What is recorded of a target is explained by the evidence there is, whoever recorded
\* it and whatever came later.
ShownInv ==
  /\ \A t \in DOMAIN postures : Explained(evidence, t, postures[t])
  /\ FoundOK /\ ListenersOK

\* There is a factor for every number of hosts that a target may come to have.
LEMMA FactorsSuffice ==
  ASSUME NEW t \in Target, NEW hosts \in SUBSET (ResolveTargetHosts(t) \cup Heard)
  PROVE  /\ IsFiniteSet(hosts) /\ Cardinality(hosts) \in Nat
         /\ Cardinality(hosts) <= Len(Proximity) /\ Len(Proximity) >= 1
<1> DEFINE target == [a \in Source |-> IpTarget(a)]
           R == ResolveTargetHosts(t)
<1>1. Heard = {target[a] : a \in Source}
  BY DEF Heard
<1> HIDE DEF target
<1>2. IsFiniteSet(Heard) /\ Cardinality(Heard) <= Cardinality(Source)
  BY <1>1, ImageFinite, SessionAssumption
<1>3. IsFiniteSet(R) /\ Cardinality(R) <= SweepCap + 1
  BY HostsFinite
<1>4. /\ IsFiniteSet(R \cup Heard) /\ IsFiniteSet(R \cap Heard)
      /\ Cardinality(R \cup Heard) = Cardinality(R) + Cardinality(Heard) - Cardinality(R \cap Heard)
  BY <1>2, <1>3, FS_Union, FS_Intersection
<1>5. /\ Cardinality(R) \in Nat /\ Cardinality(Heard) \in Nat /\ Cardinality(R \cap Heard) \in Nat
      /\ Cardinality(Source) \in Nat
  BY <1>2, <1>3, <1>4, FS_CardinalityType, SessionAssumption
<1>6. /\ IsFiniteSet(hosts) /\ Cardinality(hosts) <= Cardinality(R \cup Heard)
      /\ Cardinality(hosts) \in Nat
  BY <1>4, FS_Subset, FS_CardinalityType
<1>7. SweepCap \in Nat /\ SweepCap + 1 + Cardinality(Source) <= Len(Proximity)
  BY SessionAssumption
<1>8. Len(Proximity) \in Nat
  BY SimulatorAssumption
<1> HIDE DEF R
<1> QED BY <1>2, <1>3, <1>4, <1>5, <1>6, <1>7, <1>8

\* So the score of such a posture grows with its hosts.
LEMMA ExplainedScorable ==
  ASSUME NEW E, NEW t, NEW p, Explained(E, t, p)
  PROVE  Scorable(p) /\ Len(Proximity) >= 1 /\ Cardinality(p.hosts) \in Nat
<1>1. t \in Target /\ p.hosts \in SUBSET (ResolveTargetHosts(t) \cup Heard)
  BY DEF Explained
<1>2. /\ IsFiniteSet(DOMAIN p.services)
      /\ \A port \in DOMAIN p.services : p.services[port] \in Nat
  BY DEF Explained, IsPosture
<1> QED BY <1>1, <1>2, FactorsSuffice DEF Scorable

\* Evidence is only added.
LEMMA MoreEvidence ==
  ASSUME NEW E, NEW more, E \subseteq more, NEW t, NEW p, Explained(E, t, p)
  PROVE  Explained(more, t, p)
<1>1. ASSUME NEW port \in DOMAIN p.services
      PROVE  p.services[port] <= Cardinality(SeenIn(more, t, port))
  <2>1. p.services[port] \in Nat /\ p.services[port] <= Cardinality(SeenIn(E, t, port))
    BY DEF Explained
  <2>2. IsFiniteSet(SeenIn(more, t, port)) /\ SeenIn(E, t, port) \subseteq SeenIn(more, t, port)
    BY HostsFinite, FS_Subset DEF SeenIn, Explained
  <2>3. /\ Cardinality(SeenIn(E, t, port)) <= Cardinality(SeenIn(more, t, port))
        /\ Cardinality(SeenIn(E, t, port)) \in Nat /\ Cardinality(SeenIn(more, t, port)) \in Nat
    BY <2>2, FS_Subset, FS_CardinalityType
  <2> QED BY <2>1, <2>3
<1> QED BY <1>1 DEF Explained

\* What an audit records is explained by what it has found.
LEMMA EvaluatedExplained ==
  ASSUME PosturesInv, AuditOK, FoundOK, audit.stage = "probed"
  PROVE  Explained(evidence, Scope, Evaluated)
<1> DEFINE F == audit.found
           S == Ports[profile]
           On(port) == {f \in F : f[2] = port}
           p == [hosts |-> {f[1] : f \in F}, services |-> [port \in S |-> Cardinality(On(port))]]
           score == CalculateBlastScore(p)
           e == [hosts |-> p.hosts, services |-> p.services, score |-> score,
                 compliance |-> IF score >= 50 THEN "FAIL" ELSE "PASS"]
<1>1. Evaluated = e
  BY DEF Evaluated
<1>2. PICK t : t = Scope
  OBVIOUS
<1>3. t \in Target
  <2>1. audit.scope \in Seq(Target) /\ audit.at \in 1 .. Len(audit.scope)
    BY DEF AuditOK, Auditing
  <2> QED BY <1>2, <2>1 DEF Scope
<1>4. /\ IsFiniteSet(F) /\ IsFiniteSet(S)
      /\ \A f \in F : /\ f = <<f[1], f[2]>> /\ f[1] \in ResolveTargetHosts(t) /\ f[2] \in S
                      /\ [address |-> f[1], port |-> f[2]] \in evidence
  BY <1>2, SessionAssumption DEF FoundOK, PosturesInv
<1>5. p.hosts \subseteq ResolveTargetHosts(t)
  BY <1>4
<1>6. /\ IsFiniteSet(p.hosts) /\ Cardinality(p.hosts) \in Nat
      /\ Cardinality(p.hosts) <= Len(Proximity) /\ Len(Proximity) >= 1
  <2>1. p.hosts \in SUBSET (ResolveTargetHosts(t) \cup Heard)
    BY <1>5
  <2> HIDE DEF p
  <2> QED BY <1>3, <2>1, FactorsSuffice
<1>7. ASSUME NEW port \in S
      PROVE  /\ p.services[port] \in Nat /\ p.services[port] <= Cardinality(p.hosts)
             /\ p.services[port] <= Cardinality(SeenIn(evidence, t, port))
  <2> DEFINE O == On(port)
             host == [f \in O |-> f[1]]
             H == {host[f] : f \in O}
  <2>1. p.services[port] = Cardinality(O)
    OBVIOUS
  <2>2. IsFiniteSet(O) /\ Cardinality(O) \in Nat
    BY <1>4, FS_Subset, FS_CardinalityType
  <2>3. DOMAIN host = O /\ \A x, y \in O : host[x] = host[y] => x = y
    BY <1>4
  <2>4. H \subseteq p.hosts /\ H \subseteq SeenIn(evidence, t, port)
    BY <1>4 DEF SeenIn
  <2> HIDE DEF host, O
  <2>5. Cardinality(H) = Cardinality(O)
    BY <2>2, <2>3, ImageCount
  <2> HIDE DEF H, p
  <2>6. IsFiniteSet(SeenIn(evidence, t, port))
    BY <1>3, HostsFinite, FS_Subset DEF SeenIn
  <2>7. /\ Cardinality(H) <= Cardinality(p.hosts)
        /\ Cardinality(H) <= Cardinality(SeenIn(evidence, t, port))
    BY <1>6, <2>4, <2>6, FS_Subset
  <2> QED BY <2>1, <2>2, <2>5, <2>7
<1>8. DOMAIN p.services = S
  OBVIOUS
<1> HIDE DEF p
<1>9. /\ e.hosts = p.hosts /\ e.services = p.services /\ e.score = score
      /\ e.compliance = IF score >= 50 THEN "FAIL" ELSE "PASS"
      /\ CalculateBlastScore(e) = score
  BY DEF CalculateBlastScore
<1> HIDE DEF e
<1>10. score \in Nat
  <2>1. Scorable(p)
    BY <1>4, <1>6, <1>7, <1>8 DEF Scorable
  <2>2. Cardinality(p.hosts) <= Cardinality(p.hosts)
    BY <1>6
  <2>3. \A port \in DOMAIN p.services : p.services[port] <= p.services[port]
    BY <1>7, <1>8
  <2> QED BY <1>6, <2>1, <2>2, <2>3, ScoreGrows
<1> HIDE DEF score
<1>11. IsPosture(e)
  BY <1>1, EvaluatedPosture
<1>12. p.hosts \subseteq ResolveTargetHosts(t) \cup Heard
  BY <1>5
<1> HIDE DEF S
<1>13. /\ e.score \in Nat /\ e.score <= CalculateBlastScore(e)
       /\ e.compliance = "FAIL" <=> e.score >= 50
       /\ e.compliance # "UNKNOWN"
  BY <1>9, <1>10
<1>14. Explained(evidence, t, e)
  BY <1>3, <1>7, <1>8, <1>9, <1>11, <1>12, <1>13 DEF Explained
<1> QED BY <1>1, <1>2, <1>14

\* A host that is heard of can only add to a posture.
LEMMA DiscoveredExplained ==
  ASSUME PosturesInv, ShownInv, NEW t \in Target, NEW h \in Heard, AddDiscoveredHost(t, h)
  PROVE  \A u \in DOMAIN postures' : Explained(evidence, u, postures'[u])
<1> DEFINE none == [hosts |-> {}, services |-> << >>, score |-> 0, compliance |-> "UNKNOWN"]
           old == IF t \in DOMAIN postures THEN postures[t] ELSE none
           new == [hosts |-> old.hosts \cup {h}, services |-> old.services,
                   score |-> old.score, compliance |-> old.compliance]
<1>0. DOMAIN << >> = {}
  OBVIOUS
<1>1. \/ old = none
      \/ Explained(evidence, t, old)
  BY DEF ShownInv
<1>2. IsPosture(old)
  BY <1>0, FS_EmptySet DEF PosturesInv, IsPosture
<1>3. /\ DOMAIN postures' = DOMAIN postures \cup {t} /\ postures'[t] = new
      /\ \A u \in DOMAIN postures : u # t => postures'[u] = postures[u]
  <2>1. SetPosture(t, [old EXCEPT !.hosts = @ \cup {h}])
    BY DEF AddDiscoveredHost
  <2> HIDE DEF old
  <2>2. [old EXCEPT !.hosts = @ \cup {h}] = new
    BY <1>2 DEF IsPosture
  <2> HIDE DEF new
  <2> QED BY <2>1, <2>2 DEF SetPosture
<1>4. /\ old.hosts \subseteq ResolveTargetHosts(t) \cup Heard
      /\ \A port \in DOMAIN old.services :
           /\ old.services[port] \in Nat
           /\ old.services[port] <= Cardinality(old.hosts)
           /\ old.services[port] <= Cardinality(SeenIn(evidence, t, port))
      /\ old.score \in Nat /\ old.score <= CalculateBlastScore(old)
      /\ old.compliance = "FAIL" <=> old.score >= 50
      /\ old.compliance = "UNKNOWN" => old.services = << >> /\ old.score = 0
  <2>1. CASE old = none
    <3>1. Scorable(none) /\ Len(Proximity) >= 1
      <4>1. {} \in SUBSET (ResolveTargetHosts(t) \cup Heard)
        OBVIOUS
      <4> QED BY <1>0, <4>1, FactorsSuffice DEF Scorable
    <3>2. CalculateBlastScore(none) \in Nat
      <4>1. Cardinality(none.hosts) <= Cardinality(none.hosts)
        BY FS_EmptySet
      <4>2. \A port \in DOMAIN none.services : none.services[port] <= none.services[port]
        BY <1>0
      <4> HIDE DEF none
      <4> QED BY <3>1, <4>1, <4>2, ScoreGrows
    <3> QED BY <1>0, <2>1, <3>2
  <2>2. CASE Explained(evidence, t, old)
    <3> HIDE DEF old
    <3> QED BY <2>2 DEF Explained
  <2> QED BY <1>1, <2>1, <2>2
<1> HIDE DEF old
<1>5. /\ new.hosts = old.hosts \cup {h} /\ new.services = old.services
      /\ new.score = old.score /\ new.compliance = old.compliance
  OBVIOUS
<1>6. new = [hosts |-> new.hosts, services |-> new.services, score |-> new.score,
             compliance |-> new.compliance]
  OBVIOUS
<1> HIDE DEF new
<1>7. new.hosts \in SUBSET (ResolveTargetHosts(t) \cup Heard)
  BY <1>4, <1>5
<1>8. /\ IsFiniteSet(new.hosts) /\ Cardinality(new.hosts) \in Nat
      /\ Cardinality(new.hosts) <= Len(Proximity) /\ Len(Proximity) >= 1
      /\ IsFiniteSet(old.hosts) /\ Cardinality(old.hosts) \in Nat
      /\ Cardinality(old.hosts) <= Len(Proximity)
  BY <1>4, <1>7, FactorsSuffice
<1>9. Cardinality(old.hosts) <= Cardinality(new.hosts)
  BY <1>5, <1>8, FS_Subset
<1>10. IsPosture(new)
  BY <1>2, <1>5, <1>6, <1>8 DEF IsPosture
<1>11. /\ CalculateBlastScore(old) \in Nat /\ CalculateBlastScore(new) \in Nat
       /\ CalculateBlastScore(old) <= CalculateBlastScore(new)
  <2>1. Scorable(old) /\ Scorable(new)
    BY <1>2, <1>4, <1>5, <1>8 DEF Scorable, IsPosture
  <2>2. \A port \in DOMAIN old.services : old.services[port] <= new.services[port]
    BY <1>4, <1>5
  <2> QED BY <1>5, <1>8, <1>9, <2>1, <2>2, ScoreGrows
<1>12. Explained(evidence, t, new)
  <2>1. \A port \in DOMAIN new.services :
          /\ new.services[port] \in Nat
          /\ new.services[port] <= Cardinality(new.hosts)
          /\ new.services[port] <= Cardinality(SeenIn(evidence, t, port))
    BY <1>4, <1>5, <1>8, <1>9
  <2>2. /\ new.score \in Nat /\ new.score <= CalculateBlastScore(new)
        /\ new.compliance = "FAIL" <=> new.score >= 50
        /\ new.compliance = "UNKNOWN" => new.services = << >> /\ new.score = 0
    BY <1>4, <1>5, <1>11
  <2>3. new.hosts # {} /\ new.hosts \subseteq ResolveTargetHosts(t) \cup Heard
    BY <1>5, <1>7
  <2> QED BY <1>10, <2>1, <2>2, <2>3 DEF Explained
<1> QED BY <1>3, <1>12 DEF ShownInv

----------------------------------------------------------------------------
(* What the steps keep of it *)

LEMMA InitShown == Init => ShownInv
<1>1. DOMAIN << >> = {}
  OBVIOUS
<1> QED BY <1>1 DEF Init, InitSniffer, NoAudit, ShownInv, FoundOK, ListenersOK, ListenerOK

\* A listener goes on.
LEMMA GotoKeeps ==
  ASSUME ListenersOK, NEW l \in Listener, NEW pc, NEW ip, Goto(l, pc, ip),
         ~At(l, "off"), pc = "found" => ip \in Source
  PROVE  ListenersOK'
<1>1. /\ listener' = [listener EXCEPT ![l].pc = pc, ![l].ip = ip]
      /\ listener = [k \in Listener |-> listener[k]]
      /\ listener[l] = [pc |-> listener[l].pc, subnet |-> listener[l].subnet,
                        ip |-> listener[l].ip]
      /\ listener[l].subnet \in Target
  BY DEF Goto, At, ListenersOK, ListenerOK
<1>2. /\ listener' = [k \in Listener |-> listener'[k]]
      /\ listener'[l] = [pc |-> pc, subnet |-> listener[l].subnet, ip |-> ip]
      /\ \A k \in Listener : k # l => listener'[k] = listener[k]
  BY <1>1
<1>3. ListenerOK(listener'[l])
  BY <1>1, <1>2 DEF ListenerOK
<1> QED BY <1>2, <1>3 DEF ListenersOK, ListenerOK

\* What listeners do by themselves keeps them listening for targets.
LEMMA ListenersKeep ==
  ASSUME ListenersOK, NEW l \in Listener,
         Listen(l) \/ CheckContext(l) \/ ReadTimeout(l) \/ ReadPacket(l) \/ DiscoveryReturned(l)
  PROVE  ListenersOK'
<1>1. CASE Listen(l)
  BY <1>1, GotoKeeps DEF Listen, At
<1>2. CASE CheckContext(l)
  BY <1>2, GotoKeeps DEF CheckContext, At
<1>3. CASE ReadTimeout(l)
  BY <1>3, GotoKeeps DEF ReadTimeout, At
<1>4. CASE ReadPacket(l)
  BY <1>4, GotoKeeps DEF ReadPacket, At
<1>5. CASE DiscoveryReturned(l)
  BY <1>5, GotoKeeps DEF DiscoveryReturned, At
<1> QED BY <1>1, <1>2, <1>3, <1>4, <1>5

\* New listeners listen for the first target of the audit.
LEMMA StartKeeps ==
  ASSUME ListenersOK, NEW g, NEW t \in Target, StartListeners(g, t)
  PROVE  ListenersOK'
<1>1. /\ listener' = [l \in Listener |-> listener'[l]]
      /\ \A l \in Listener : \/ listener'[l] = [pc |-> "start", subnet |-> t, ip |-> NoIP]
                             \/ listener'[l] = listener[l]
  BY DEF StartListeners
<1> QED BY <1>1 DEF ListenersOK, ListenerOK

\* Evidence is added and nothing else changes that the invariant is about.
LEMMA OthersKeep ==
  ASSUME ShownInv, evidence \subseteq evidence', UNCHANGED postures, ListenersOK',
         audit'.stage # "probed" \/ UNCHANGED <<audit, profile>>
  PROVE  ShownInv'
<1>1. \A t \in DOMAIN postures' : Explained(evidence', t, postures'[t])
  BY MoreEvidence DEF ShownInv
<1>2. FoundOK'
  BY DEF ShownInv, FoundOK, Scope
<1> QED BY <1>1, <1>2 DEF ShownInv

LEMMA ShownKeeps == SessionInv /\ PosturesInv /\ ShownInv /\ [Next]_vars => ShownInv'
<1> SUFFICES ASSUME SessionInv, PosturesInv, ShownInv, [Next]_vars PROVE ShownInv'
  OBVIOUS
<1>1. AuditOK /\ targets \in Seq(Target) /\ ListenersOK /\ FoundOK
  BY DEF SessionInv, ScopeOK, ShownInv
<1>2. UNCHANGED listener => ListenersOK'
  BY <1>1 DEF ListenersOK, ListenerOK
<1>3. NextScope => audit'.stage = "validate"
  BY <1>1 DEF NextScope, AuditOK
<1>4. CASE Command
  <2>1. UNCHANGED <<postures, audit, listener>> /\ repl = "prompt" /\ evidence \subseteq evidence'
    BY <1>4 DEF Command, TargetCommand, ScopeCommand, SetCommand, AddTarget, RunsAway,
                RemoveTarget, ClearTargets, AddScopeRule, SetTargets, SetProfile,
                EvidenceCommand, Typed, session, snifferVars
  <2>2. audit'.stage # "probed"
    BY <1>1, <2>1 DEF AuditOK, Auditing
  <2> QED BY <1>2, <2>1, <2>2, OthersKeep
<1>5. CASE Exit \/ Terminated \/ UNCHANGED vars
  <2>1. UNCHANGED <<postures, audit, listener, evidence, profile>>
    BY <1>5 DEF Exit, Terminated, vars, session, snifferVars
  <2> QED BY <1>2, <2>1, OthersKeep
<1>6. ASSUME NEW passive \in BOOLEAN, StartAudit(passive) PROVE ShownInv'
  <2>1. UNCHANGED <<postures, evidence>> /\ audit'.stage = "validate" /\ targets # << >>
    BY <1>6 DEF StartAudit, NoAudit, session
  <2>2. Head(targets) \in Target
    BY <1>1, <2>1
  <2>3. ListenersOK'
    <3>1. CASE passive
      BY <1>1, <1>6, <2>2, <3>1, StartKeeps DEF StartAudit
    <3>2. CASE ~passive
      BY <1>2, <1>6, <3>2 DEF StartAudit
    <3> QED BY <3>1, <3>2
  <2> QED BY <2>1, <2>3, OthersKeep
<1>7. CASE SkipScope
  <2>1. UNCHANGED <<postures, evidence, listener>> /\ audit'.stage = "validate"
    BY <1>3, <1>7 DEF SkipScope, session, snifferVars
  <2> QED BY <1>2, <2>1, OthersKeep
<1>8. CASE ProbeScope
  <2>1. PICK found \in SUBSET (ResolveTargetHosts(Scope) \X Ports[profile]) :
          /\ audit' = [audit EXCEPT !.stage = "probed", !.found = found]
          /\ evidence' = evidence \cup {[address |-> f[1], port |-> f[2]] : f \in found}
    BY <1>8 DEF ProbeScope
  <2>2. audit'.found = found /\ audit'.scope = audit.scope /\ audit'.at = audit.at
    BY <1>1, <2>1 DEF AuditOK
  <2>3. UNCHANGED <<postures, profile, listener>>
    BY <1>8 DEF ProbeScope, snifferVars
  <2>4. \A t \in DOMAIN postures' : Explained(evidence', t, postures'[t])
    BY <2>1, <2>3, MoreEvidence DEF ShownInv
  <2>5. FoundOK'
    BY <2>1, <2>2, <2>3 DEF FoundOK, Scope
  <2> QED BY <1>2, <2>3, <2>4, <2>5 DEF ShownInv
<1>9. CASE RecordScope
  <2>1. /\ audit.stage = "probed" /\ SetPosture(Scope, Evaluated)
        /\ audit'.stage = "validate" /\ UNCHANGED <<evidence, listener>>
    BY <1>3, <1>9 DEF RecordScope, snifferVars
  <2>2. Explained(evidence, Scope, Evaluated)
    BY <1>1, <2>1, EvaluatedExplained
  <2>3. \A t \in DOMAIN postures' : Explained(evidence', t, postures'[t])
    BY <2>1, <2>2 DEF SetPosture, ShownInv
  <2>4. FoundOK'
    BY <2>1 DEF FoundOK
  <2> QED BY <1>2, <2>1, <2>3, <2>4 DEF ShownInv
<1>10. CASE FinishAudit
  <2>1. UNCHANGED <<postures, evidence, listener>> /\ audit'.stage = "validate"
    BY <1>10 DEF FinishAudit, NoAudit, session
  <2> QED BY <1>2, <2>1, OthersKeep
<1>11. ASSUME NEW l \in Listener, ListenerStep(l) \/ Packet(l) PROVE ShownInv'
  <2>1. UNCHANGED <<audit, profile, evidence>>
    BY <1>11 DEF ListenerStep, Packet, Discover, session
  <2>2. ListenersOK'
    BY <1>1, <1>11, ListenersKeep DEF ListenerStep, Packet, Discover
  <2>3. CASE Discover(l)
    <3>1. At(l, "found") /\ AddDiscoveredHost(listener[l].subnet, IpTarget(listener[l].ip))
      BY <2>3 DEF Discover, DiscoveryReturned
    <3>2. listener[l].subnet \in Target /\ IpTarget(listener[l].ip) \in Heard
      BY <1>1, <3>1 DEF At, ListenersOK, ListenerOK, Heard
    <3>3. \A t \in DOMAIN postures' : Explained(evidence', t, postures'[t])
      BY <2>1, <3>1, <3>2, DiscoveredExplained
    <3>4. FoundOK'
      BY <1>1, <2>1 DEF FoundOK, Scope
    <3> QED BY <2>2, <3>3, <3>4 DEF ShownInv
  <2>4. CASE UNCHANGED session
    BY <2>1, <2>2, <2>4, OthersKeep DEF session
  <2> QED BY <1>11, <2>3, <2>4 DEF ListenerStep, Packet
<1> QED BY <1>4, <1>5, <1>6, <1>7, <1>8, <1>9, <1>10, <1>11 DEF Next, AuditStep

----------------------------------------------------------------------------
(* What is shown agrees *)

LEMMA ShownAgrees == ASSUME PosturesInv, ShownInv PROVE ScoresAgree
<1> DEFINE P == postures
           g == SubnetGraph
           w == WebGraph
<1>1. /\ IsFiniteSet(DOMAIN P)
      /\ \A t \in DOMAIN P : /\ Explained(evidence, t, P[t]) /\ IsPosture(P[t])
                             /\ IsFiniteSet(P[t].hosts) /\ IsFiniteSet(DOMAIN P[t].services)
  BY DEF PosturesInv, ShownInv, IsPosture
<1>2. /\ IsFiniteSet(g.edges)
      /\ g.edges = UNION {Hosted(t, P[t]) \cup Exposed(P[t]) : t \in DOMAIN P}
      /\ g.nodes = {Net(t) : t \in DOMAIN P} \cup {e[2] : e \in g.edges}
  BY <1>1, SubnetIsGraph DEF SubnetGraph
<1>3. ASSUME NEW t \in DOMAIN P
      PROVE  LET p == P[t] IN
             /\ p.score <= CalculateBlastScore(p)
             /\ p.compliance = "UNKNOWN" => p.services = << >> /\ p.score = 0 /\ p.hosts # {}
             /\ \A port \in DOMAIN p.services : p.services[port] <= Cardinality(Seen(t, port))
  <2>1. \A port : Seen(t, port) = SeenIn(evidence, t, port)
    BY DEF Seen, SeenIn
  <2> QED BY <1>1, <2>1 DEF Explained
<1>4. Analyze.highRisk = Analyze.fail
  <2>1. {t \in DOMAIN P : P[t].score >= 50} = {t \in DOMAIN P : P[t].compliance = "FAIL"}
    BY <1>1 DEF Explained
  <2> QED BY <2>1 DEF Analyze
<1>5. ASSUME NEW port, NEW t \in DOMAIN P
      PROVE  LET result == SimulateBlockRule(g, port, P[t])
             IN  result.mitigatedScore <= result.initialScore /\ result.remainingEdges >= 0
  <2>1. PICK p : p = P[t]
    OBVIOUS
  <2>2. Exposed(p) \subseteq g.edges
    BY <1>2, <2>1
  <2>3. Scorable(p) /\ Len(Proximity) >= 1
    BY <1>1, <2>1, ExplainedScorable
  <2>4. /\ p = [hosts |-> p.hosts, services |-> p.services, score |-> p.score,
                compliance |-> p.compliance]
        /\ \A x \in DOMAIN p.services : p.services[x] <= Cardinality(p.hosts)
    BY <1>1, <2>1 DEF Explained, IsPosture
  <2> HIDE DEF g, P
  <2> QED BY <1>2, <2>1, <2>2, <2>3, <2>4, BlockedIsNoWorse
<1>6. ASSUME NEW port
      PROVE  LET simulated == Simulate(port) IN
             \A t \in DOMAIN simulated :
               simulated[t].mitigatedScore <= simulated[t].initialScore /\ simulated[t].remainingEdges >= 0
  <2>1. Simulate(port) = [t \in DOMAIN P |-> SimulateBlockRule(g, port, P[t])]
    BY DEF Simulate
  <2> HIDE DEF g, P
  <2> QED BY <1>5, <2>1
<1>7. /\ w.edges = UNION {Hosted(t, P[t]) : t \in DOMAIN P}
      /\ w.nodes = {Net(t) : t \in DOMAIN P} \cup {e[2] : e \in w.edges}
  BY DEF WebGraph, Hosted
<1> HIDE DEF g, w, P
<1>8. w.edges = {e \in g.edges : e[1][1] = "NET"}
  <2>1. \A t : \A e \in Hosted(t, P[t]) : e[1][1] = "NET"
    BY DEF Hosted, Net
  <2>2. \A t : \A e \in Exposed(P[t]) : e[1][1] # "NET"
    BY DEF Exposed, Host
  <2> QED BY <1>2, <1>7, <2>1, <2>2
<1>9. w.nodes \subseteq g.nodes
  BY <1>2, <1>7, <1>8
<1> QED BY <1>3, <1>4, <1>6, <1>8, <1>9 DEF ScoresAgree, g, w, P

----------------------------------------------------------------------------
(* The simulated *)

\* Whatever is typed, audited and heard: the guard is compiled from the rules and
\* targets there are, and what an audit is probing was accepted by that guard.
THEOREM SessionInvCorrect == Spec => []SessionInv
  BY InitOK, SessionKeeps, PTL DEF Spec

\* No audit contacts a host that the exclusions name, but for an excluded address
\* in the sweep of a network.
THEOREM ProbedInScopeCorrect == Spec => []ProbedInScope
  BY SessionInvCorrect, AcceptedInScope, PTL

\* Whatever was audited and heard, and for any number of targets and hosts, "graph path"
\* finds shortest paths of existing edges in the subnet graph, and none when there is none.
THEOREM PathsAreShortestCorrect == Spec => []PathsAreShortest
<1>1. PosturesInv => PathsAreShortest
  <2> SUFFICES ASSUME PosturesInv, NEW ends \in SubnetGraph.nodes \X SubnetGraph.nodes
               PROVE  IsShortestPath(SubnetGraph, ends[1], ends[2],
                                     DetailedPath(SubnetGraph, ends[1], ends[2]))
    BY DEF PathsAreShortest, GraphPath
  <2>1. /\ IsFiniteSet(DOMAIN postures)
        /\ \A n \in DOMAIN postures : /\ IsFiniteSet(postures[n].hosts)
                                      /\ IsFiniteSet(DOMAIN postures[n].services)
    BY DEF PosturesInv, IsPosture
  <2>2. \A source, target \in SubnetGraph.nodes :
          IsShortestPath(SubnetGraph, source, target, DetailedPath(SubnetGraph, source, target))
    BY <2>1, SubnetPathsFound DEF SubnetGraph
  <2> QED BY <2>2
<1> QED BY <1>1, InitOK, SessionKeeps, InitPostures, PosturesKeep, PTL DEF Spec

\* However audits, profiles and listeners follow each other, and for any number of
\* targets, hosts and ports: what the reports, the simulation and the dashboard show of
\* the targets agrees.
THEOREM ScoresAgreeCorrect == Spec => []ScoresAgree
  BY InitOK, SessionKeeps, InitPostures, PosturesKeep, InitShown, ShownKeeps, ShownAgrees,
     PTL DEF Spec

----------------------------------------------------------------------------
(* The pool: type correctness *)

USE PoolAssumption DEF PoolAssumption

LEMMA WorkerCountType == ASSUME pool \in Call PROVE WorkerCount \in Goroutine
  BY DEF Call, WorkerCount, N, Goroutine

LEMMA InitTypeOK == InitPool => TypeOK
<1> SUFFICES ASSUME InitPool PROVE TypeOK
  OBVIOUS
<1>1. WorkerCount \in Goroutine
  BY WorkerCountType DEF InitPool
<1> QED
  <2> USE <1>1 DEF InitPool, Call, N, Jobs, Goroutine
  <2>1. main \in {"spawn", "feed", "wait", "drain", "done"} /\ spawned \in 0 .. WorkerCount
    OBVIOUS
  <2>2. fed \in 0 .. N /\ taken \in 0 .. fed
    OBVIOUS
  <2>3. tokens \in 0 .. Burst /\ refills \in 0 .. MaxRefill
    OBVIOUS
  <2> QED
    BY <2>1, <2>2, <2>3 DEF TypeOK

\* A worker that is busy holds a job.
HoldsJob == \A w \in Goroutine :
  worker[w] \in {"check", "limit", "dial", "probe", "send"} => holds[w] \in Jobs

TypeInv == TypeOK /\ HoldsJob

LEMMA InitTypeInv == InitPool => TypeInv
  BY InitTypeOK DEF InitPool, TypeInv, HoldsJob

LEMMA NextTypeInv == TypeInv /\ [NextPool]_poolVars => TypeInv'
<1> SUFFICES ASSUME TypeInv, [NextPool]_poolVars PROVE TypeInv'
  OBVIOUS
<1> USE DEF TypeInv, HoldsJob, TypeOK, channels, limiter, history
<1>0. /\ pool' = pool /\ N' = N /\ Jobs' = Jobs /\ WorkerCount' = WorkerCount
      /\ N \in Nat /\ WorkerCount \in Goroutine
  <2>1. pool' = pool
    BY DEF poolVars, NextPool, Caller, Work, Spawn, Spawned, Feed, CloseJobs, CloseResults, Drain,
           Take, JobsEnd, Drop, Proceed, Wait, Dial, Probe, Send, Cancel, Refill
  <2> QED
    BY <2>1, WorkerCountType DEF N, Jobs, WorkerCount, Call
<1>1. CASE Spawn
  <2>1. spawned + 1 \in Goroutine /\ spawned' \in 0 .. WorkerCount
    BY <1>0, <1>1 DEF Spawn, Goroutine
  <2>2. worker' = [worker EXCEPT ![spawned + 1] = "range"]
    BY <1>1 DEF Spawn
  <2> QED BY <1>0, <1>1, <2>1, <2>2 DEF Spawn
<1>2. CASE Spawned
  BY <1>0, <1>2 DEF Spawned
<1>3. CASE Feed
  BY <1>0, <1>3 DEF Feed
<1>4. CASE CloseJobs
  BY <1>0, <1>4 DEF CloseJobs
<1>5. CASE CloseResults
  BY <1>0, <1>5 DEF CloseResults
<1>6. CASE Drain
  BY <1>0, <1>6 DEF Drain
<1>7. ASSUME NEW w \in Goroutine, Take(w) PROVE TypeInv'
  BY <1>0, <1>7 DEF Take, Move, Queued, Jobs
<1>8. ASSUME NEW w \in Goroutine, JobsEnd(w) PROVE TypeInv'
  BY <1>0, <1>8 DEF JobsEnd, Move
<1>9. ASSUME NEW w \in Goroutine, Drop(w) PROVE TypeInv'
  BY <1>0, <1>9 DEF Drop, Move
<1>10. ASSUME NEW w \in Goroutine, Proceed(w) PROVE TypeInv'
  BY <1>0, <1>10 DEF Proceed, Move
<1>11. ASSUME NEW w \in Goroutine, Wait(w) PROVE TypeInv'
  BY <1>0, <1>11 DEF Wait, Move
<1>12. ASSUME NEW w \in Goroutine, Dial(w) PROVE TypeInv'
  BY <1>0, <1>12 DEF Dial, Move
<1>13. ASSUME NEW w \in Goroutine, Probe(w) PROVE TypeInv'
  BY <1>0, <1>13 DEF Probe, Move
<1>14. ASSUME NEW w \in Goroutine, Send(w) PROVE TypeInv'
  BY <1>0, <1>14 DEF Send, Move
<1>15. CASE Cancel
  BY <1>0, <1>15 DEF Cancel
<1>16. CASE Refill
  BY <1>0, <1>16 DEF Refill
<1>17. CASE UNCHANGED poolVars
  BY <1>0, <1>17 DEF poolVars
<1> QED
  BY <1>1, <1>2, <1>3, <1>4, <1>5, <1>6, <1>7, <1>8, <1>9, <1>10, <1>11, <1>12, <1>13,
     <1>14, <1>15, <1>16, <1>17 DEF NextPool, Caller, Work

\* Every reachable state is well typed.
THEOREM PoolTypeCorrect == PoolSpec => []TypeOK
<1>1. PoolSpec => []TypeInv
  BY InitTypeInv, NextTypeInv, PTL DEF PoolSpec
<1>2. TypeInv => TypeOK
  BY DEF TypeInv
<1> QED
  BY <1>1, <1>2, PTL

----------------------------------------------------------------------------
(* What no step changes, and the steps one by one *)

\* The call itself never changes.
LEMMA SameCall ==
  ASSUME TypeInv, [NextPool]_poolVars
  PROVE  /\ pool' = pool /\ N' = N /\ Jobs' = Jobs /\ WorkerCount' = WorkerCount
         /\ N \in Nat /\ WorkerCount \in Goroutine
<1>1. pool' = pool
  BY DEF poolVars, NextPool, Caller, Work, Spawn, Spawned, Feed, CloseJobs, CloseResults, Drain,
         Take, JobsEnd, Drop, Proceed, Wait, Dial, Probe, Send, Cancel, Refill
<1> QED
  BY <1>1, WorkerCountType DEF N, Jobs, WorkerCount, Call, TypeInv, TypeOK

----------------------------------------------------------------------------
(* Cancellation *)

\* A worker about to dial has made no late probe, since it found the context
\* live after the last one; before the context ends there are none.
LateInv == \A w \in Goroutine :
  /\ late[w] <= 1
  /\ ctx = "live" \/ worker[w] \in {"limit", "dial"} => late[w] = 0

LEMMA NextLateInv == TypeInv /\ LateInv /\ [NextPool]_poolVars => LateInv'
<1> SUFFICES ASSUME TypeInv, LateInv, [NextPool]_poolVars PROVE LateInv'
  OBVIOUS
<1> USE DEF LateInv, TypeInv, TypeOK, channels, limiter, history
<1>1. ASSUME NEW w \in Goroutine, Work(w) PROVE LateInv'
  <2>1. CASE Take(w)
    BY <2>1 DEF Take, Move
  <2>2. CASE JobsEnd(w)
    BY <2>2 DEF JobsEnd, Move
  <2>3. CASE Drop(w)
    BY <2>3 DEF Drop, Move
  <2>4. CASE Proceed(w)
    BY <2>4 DEF Proceed, Move
  <2>5. CASE Wait(w)
    BY <2>5 DEF Wait, Move
  <2>6. CASE Dial(w)
    BY <2>6 DEF Dial, Move
  <2>7. CASE Probe(w)
    BY <2>7 DEF Probe, Move
  <2>8. CASE Send(w)
    BY <2>8 DEF Send, Move
  <2> QED
    BY <1>1, <2>1, <2>2, <2>3, <2>4, <2>5, <2>6, <2>7, <2>8 DEF Work
<1>2. CASE Caller
  BY <1>2 DEF Caller, Spawn, Spawned, Feed, CloseJobs, CloseResults, Drain
<1>3. CASE Cancel \/ Refill \/ UNCHANGED poolVars
  BY <1>3 DEF Cancel, Refill, poolVars
<1> QED
  BY <1>1, <1>2, <1>3 DEF NextPool

\* Once the context is done, a worker starts at most one more probe.
THEOREM CancelStopsProbingCorrect == PoolSpec => []CancelStopsProbing
<1>1. InitPool => LateInv
  BY DEF InitPool, LateInv
<1>2. LateInv => CancelStopsProbing
  BY DEF LateInv, CancelStopsProbing
<1> QED
  BY <1>1, <1>2, InitTypeInv, NextTypeInv, NextLateInv, PTL DEF PoolSpec

----------------------------------------------------------------------------
(* Closing the results channel *)

Started == {"wait", "drain", "done"}

\* The phases of the caller: all workers are started before it waits, only
\* started workers run, and the results channel is closed while all have ended.
PhaseInv ==
  /\ main \in Started \/ (main = "feed" /\ ~FeedFirst) => spawned = WorkerCount
  /\ resultsClosed <=> main \in {"drain", "done"}
  /\ \A w \in Goroutine : worker[w] = "unborn" <=> w > spawned
  /\ resultsClosed => \A w \in Goroutine : worker[w] \in {"unborn", "exited"}

LEMMA InitPhaseInv == InitPool => PhaseInv
  BY DEF InitPool, PhaseInv, Started, FeedFirst, Goroutine

LEMMA NextPhaseInv == TypeInv /\ PhaseInv /\ [NextPool]_poolVars => PhaseInv'
<1> SUFFICES ASSUME TypeInv, PhaseInv, [NextPool]_poolVars PROVE PhaseInv'
  OBVIOUS
<1>0. FeedFirst' = FeedFirst /\ WorkerCount' = WorkerCount /\ WorkerCount \in Goroutine
  BY SameCall DEF FeedFirst
<1> USE <1>0 DEF PhaseInv, Started, TypeInv, TypeOK, Goroutine, channels, limiter, history
<1>1. ASSUME NEW w \in Goroutine, Work(w) PROVE PhaseInv'
  <2>1. CASE Take(w)
    BY <2>1 DEF Take, Move
  <2>2. CASE JobsEnd(w)
    BY <2>2 DEF JobsEnd, Move
  <2>3. CASE Drop(w)
    BY <2>3 DEF Drop, Move
  <2>4. CASE Proceed(w)
    BY <2>4 DEF Proceed, Move
  <2>5. CASE Wait(w)
    BY <2>5 DEF Wait, Move
  <2>6. CASE Dial(w)
    BY <2>6 DEF Dial, Move
  <2>7. CASE Probe(w)
    BY <2>7 DEF Probe, Move
  <2>8. CASE Send(w)
    BY <2>8 DEF Send, Move
  <2> QED
    BY <1>1, <2>1, <2>2, <2>3, <2>4, <2>5, <2>6, <2>7, <2>8 DEF Work
<1>2. CASE Caller
  <2>1. CASE Spawn
    BY <2>1 DEF Spawn
  <2>2. CASE Spawned
    BY <2>2 DEF Spawned
  <2>3. CASE Feed
    BY <2>3 DEF Feed
  <2>4. CASE CloseJobs
    BY <2>4 DEF CloseJobs
  <2>5. CASE CloseResults
    BY <2>5 DEF CloseResults
  <2>6. CASE Drain
    BY <2>6 DEF Drain
  <2> QED
    BY <1>2, <2>1, <2>2, <2>3, <2>4, <2>5, <2>6 DEF Caller
<1>3. CASE Cancel \/ Refill \/ UNCHANGED poolVars
  BY <1>3 DEF Cancel, Refill, poolVars
<1> QED
  BY <1>1, <1>2, <1>3 DEF NextPool

\* Nobody can send on the closed channel, and no goroutine is left behind.
THEOREM QuietAfterCloseCorrect == PoolSpec => []QuietAfterClose
<1>1. InitPool => PhaseInv
  BY InitPhaseInv
<1>2. TypeInv /\ PhaseInv => QuietAfterClose
  <2> SUFFICES ASSUME TypeInv, PhaseInv, resultsClosed PROVE QuietAfterClose
    BY DEF QuietAfterClose
  <2>1. spawned = WorkerCount /\ WorkerCount \in Goroutine
    BY WorkerCountType DEF PhaseInv, Started, TypeInv, TypeOK
  <2> QED
    BY <2>1 DEF PhaseInv, Started, QuietAfterClose, Goroutine
<1> QED
  BY <1>1, <1>2, InitTypeInv, NextTypeInv, NextPhaseInv, PTL DEF PoolSpec

----------------------------------------------------------------------------
(* Each job in one place *)

\* No two workers hold one job.
HeldOnce == \A v, w \in Busy : holds[v] = holds[w] => v = w

\* A worker leaves the body of its loop, or dies, with its job.
LEMMA Leaves ==
  ASSUME TypeInv, HeldOnce, NEW w \in Busy,
         Busy' = Busy \ {w}, \A v \in Busy \ {w} : holds'[v] = holds[v]
  PROVE  Held' = Held \ {holds[w]} /\ HeldOnce'
<1>1. Held' = {holds[v] : v \in Busy \ {w}}
  BY DEF Held
<1> QED
  BY <1>1 DEF Held, HeldOnce

\* A worker that is not busy receives job j.
LEMMA Enters ==
  ASSUME TypeInv, HeldOnce, NEW w \in Goroutine \ Busy, NEW j, j \notin Held,
         Busy' = Busy \cup {w}, holds'[w] = j, \A v \in Busy : holds'[v] = holds[v]
  PROVE  Held' = Held \cup {j} /\ HeldOnce'
<1>1. Held' = {holds'[v] : v \in Busy \cup {w}}
  BY DEF Held
<1> QED
  BY <1>1 DEF Held, HeldOnce

\* A worker moves on within the body of its loop.
LEMMA Stays ==
  ASSUME TypeInv, HeldOnce, Busy' = Busy, holds' = holds
  PROVE  Held' = Held /\ HeldOnce'
  BY DEF Held, HeldOnce

JobInv == EachJobOnce /\ (main # "done" => output = {})

LEMMA NextJobInv == TypeInv /\ PhaseInv /\ JobInv /\ [NextPool]_poolVars => JobInv'
<1> SUFFICES ASSUME TypeInv, PhaseInv, JobInv, [NextPool]_poolVars PROVE JobInv'
  OBVIOUS
<1> USE DEF JobInv, channels, limiter, history
<1>0. HeldOnce
  BY DEF EachJobOnce, HeldOnce
<1>1. /\ \A w \in Goroutine : w \in Busy <=> worker[w] \in {"check", "limit", "dial", "probe", "send"}
      /\ worker \in [Goroutine -> {"unborn", "range", "check", "limit", "dial", "probe", "send",
                                   "exited"}]
      /\ holds \in [Goroutine -> Jobs \cup {Nothing}]
      /\ Busy \subseteq Goroutine /\ taken \in Nat
  BY SameCall DEF Busy, TypeInv, TypeOK
<1>2. ASSUME NEW w \in Goroutine, Take(w) PROVE JobInv'
  <2>1. w \notin Busy /\ Busy' = Busy \cup {w}
    BY <1>1, <1>2 DEF Take, Move, Busy
  <2>2. holds'[w] = taken + 1 /\ \A v \in Busy : holds'[v] = holds[v]
    BY <1>1, <1>2, <2>1 DEF Take
  <2>3. taken + 1 \notin Held
    BY <1>1 DEF EachJobOnce
  <2>4. Held' = Held \cup {taken + 1} /\ HeldOnce'
    BY <1>0, <2>1, <2>2, <2>3, Enters
  <2>5. 1 .. taken' = (1 .. taken) \cup {taken + 1} /\ taken + 1 \notin 1 .. taken
    BY <1>1, <1>2 DEF Take
  <2>6. UNCHANGED <<main, results, output, dropped, silent>>
    BY <1>2 DEF Take
  <2> QED
    BY <2>4, <2>5, <2>6 DEF EachJobOnce, HeldOnce
<1>3. ASSUME NEW w \in Goroutine, Drop(w) PROVE JobInv'
  <2>1. w \in Busy /\ Busy' = Busy \ {w}
    BY <1>1, <1>3 DEF Drop, Move, Busy
  <2>2. \A v \in Busy \ {w} : holds'[v] = holds[v]
    BY <1>1, <1>3 DEF Drop
  <2>3. Held' = Held \ {holds[w]} /\ HeldOnce'
    BY <1>0, <2>1, <2>2, Leaves
  <2>4. holds[w] \in Held
    BY <2>1 DEF Held
  <2>5. dropped' = dropped \cup {holds[w]} /\ UNCHANGED <<main, taken, results, output, silent>>
    BY <1>3 DEF Drop
  <2> QED
    BY <2>3, <2>4, <2>5 DEF EachJobOnce, HeldOnce
<1>4. ASSUME NEW w \in Goroutine, Send(w) PROVE JobInv'
  <2>1. w \in Busy /\ Busy' = Busy \ {w}
    BY <1>1, <1>4 DEF Send, Move, Busy
  <2>2. \A v \in Busy \ {w} : holds'[v] = holds[v]
    BY <1>1, <1>4 DEF Send
  <2>3. Held' = Held \ {holds[w]} /\ HeldOnce'
    BY <1>0, <2>1, <2>2, Leaves
  <2>4. holds[w] \in Held
    BY <2>1 DEF Held
  <2>5. results' = results \cup {holds[w]} /\ UNCHANGED <<main, taken, dropped, output, silent>>
    BY <1>4 DEF Send
  <2> QED
    BY <2>3, <2>4, <2>5 DEF EachJobOnce, HeldOnce
<1>5. ASSUME NEW w \in Goroutine, Probe(w) PROVE JobInv'
  <2>1. CASE Move(w, "probe", "send") /\ UNCHANGED <<main, channels, holds, output, history>>
    <3>1. Busy' = Busy
      BY <1>1, <2>1 DEF Move, Busy
    <3> QED
      BY <1>0, <2>1, <3>1, Stays DEF EachJobOnce, HeldOnce
  <2>2. CASE ~(Move(w, "probe", "send") /\ UNCHANGED <<main, channels, holds, output, history>>)
    <3>1. /\ Move(w, "probe", "range")
          /\ silent' = silent \cup {holds[w]}
          /\ holds' = [holds EXCEPT ![w] = Nothing]
          /\ UNCHANGED <<main, taken, results, output, dropped>>
      BY <1>5, <2>2 DEF Probe
    <3>2. w \in Busy /\ Busy' = Busy \ {w}
      BY <1>1, <3>1 DEF Move, Busy
    <3>3. \A v \in Busy \ {w} : holds'[v] = holds[v]
      BY <1>1, <3>1
    <3>4. Held' = Held \ {holds[w]} /\ HeldOnce'
      BY <1>0, <3>2, <3>3, Leaves
    <3>5. holds[w] \in Held
      BY <3>2 DEF Held
    <3> QED
      BY <3>1, <3>4, <3>5 DEF EachJobOnce, HeldOnce
  <2> QED
    BY <2>1, <2>2
<1>6. ASSUME NEW w \in Goroutine, JobsEnd(w) \/ Proceed(w) \/ Wait(w) \/ Dial(w) PROVE JobInv'
  <2>1. Busy' = Busy
    BY <1>1, <1>6 DEF JobsEnd, Proceed, Wait, Dial, Move, Busy
  <2>2. UNCHANGED <<main, taken, holds, results, output, dropped, silent>>
    BY <1>6 DEF JobsEnd, Proceed, Wait, Dial
  <2> QED
    BY <1>0, <2>1, <2>2, Stays DEF EachJobOnce, HeldOnce
<1>7. CASE Drain
  <2>1. Busy' = Busy /\ UNCHANGED <<holds, taken, dropped, silent>>
    BY <1>7 DEF Drain, Busy
  <2>2. output = {} /\ output' = results /\ results' = {} /\ main' = "done"
    BY <1>7 DEF Drain
  <2> QED
    BY <1>0, <2>1, <2>2, Stays DEF EachJobOnce, HeldOnce
<1>8. CASE Spawn
  <2>1. Busy' = Busy
    <3>1. worker' = [worker EXCEPT ![spawned + 1] = "range"]
      BY <1>8 DEF Spawn
    <3>2. worker[spawned + 1] \notin {"check", "limit", "dial", "probe", "send"}
      <4>1. spawned + 1 \in Goroutine
        BY <1>8, SameCall DEF Spawn, TypeInv, TypeOK, Goroutine
      <4>2. spawned + 1 > spawned
        BY <4>1 DEF TypeInv, TypeOK, Goroutine
      <4> QED
        BY <4>1, <4>2 DEF PhaseInv
    <3> QED
      BY <1>1, <3>1, <3>2 DEF Busy
  <2>2. UNCHANGED <<main, taken, holds, results, output, dropped, silent>>
    BY <1>8 DEF Spawn
  <2> QED
    BY <1>0, <2>1, <2>2, Stays DEF EachJobOnce, HeldOnce
<1>9. CASE Spawned \/ Feed \/ CloseJobs \/ CloseResults \/ Cancel \/ Refill \/ UNCHANGED poolVars
  <2>1. Busy' = Busy /\ UNCHANGED <<taken, holds, results, output, dropped, silent>>
    BY <1>9 DEF Spawned, Feed, CloseJobs, CloseResults, Cancel, Refill, poolVars, Busy
  <2>2. main = "done" => main' = "done"
    BY <1>9 DEF Spawned, Feed, CloseJobs, CloseResults, Cancel, Refill, poolVars
  <2> QED
    BY <1>0, <2>1, <2>2, Stays DEF EachJobOnce, HeldOnce
<1> QED
  BY <1>2, <1>3, <1>4, <1>5, <1>6, <1>7, <1>8, <1>9 DEF NextPool, Caller, Work

\* Every job received is in exactly one place.
THEOREM EachJobOnceCorrect == PoolSpec => []EachJobOnce
<1>1. InitPool => JobInv
  BY DEF InitPool, JobInv, EachJobOnce, Held, Busy
<1>2. JobInv => EachJobOnce
  BY DEF JobInv
<1> QED
  BY <1>1, <1>2, InitTypeInv, NextTypeInv, InitPhaseInv, NextPhaseInv, NextJobInv, PTL DEF PoolSpec

----------------------------------------------------------------------------
(* No answer is lost *)

\* Jobs whose probe is under way or has a result to send.
Trying == {w \in Goroutine : worker[w] \in {"probe", "send"}}
Tried == {holds[w] : w \in Trying}

\* What was probed is being tried, or was answered; while the context is live a
\* worker ends only when nothing is left to receive, and drops nothing.
AnswerInv ==
  /\ probed = Tried \cup results \cup output \cup silent
  /\ jobsClosed => fed = N
  /\ ctx = "live" => dropped = {}
  /\ \A w \in Goroutine : ctx = "live" /\ worker[w] = "exited" => taken = N
  /\ main = "done" => results = {}

\* The first conjunct for a step that adds nothing to the jobs tried.
LEMMA SameTried ==
  ASSUME Trying' = Trying, \A w \in Trying : holds'[w] = holds[w]
  PROVE  Tried' = Tried
  BY DEF Tried

LEMMA NextAnswerInv == TypeInv /\ PhaseInv /\ JobInv /\ AnswerInv /\ [NextPool]_poolVars => AnswerInv'
<1> SUFFICES ASSUME TypeInv, PhaseInv, JobInv, AnswerInv, [NextPool]_poolVars PROVE AnswerInv'
  OBVIOUS
<1> USE DEF AnswerInv, channels, limiter, history
<1>0. N' = N /\ N \in Nat /\ fed \in 0 .. N /\ taken \in 0 .. fed
  BY SameCall DEF TypeInv, TypeOK
<1>1. /\ worker \in [Goroutine -> {"unborn", "range", "check", "limit", "dial", "probe", "send",
                                   "exited"}]
      /\ holds \in [Goroutine -> Jobs \cup {Nothing}]
  BY DEF TypeInv, TypeOK
<1>d. ASSUME NEW w \in Goroutine, worker[w] \notin {"unborn", "exited"} PROVE main # "done"
  BY <1>d DEF PhaseInv
<1>2. ASSUME NEW w \in Goroutine, Take(w) PROVE AnswerInv'
  <2>1. Trying' = Trying /\ \A v \in Trying : holds'[v] = holds[v]
    BY <1>1, <1>2 DEF Take, Move, Trying
  <2>2. \A v \in Goroutine : worker'[v] = "exited" <=> worker[v] = "exited"
    BY <1>1, <1>2 DEF Take, Move
  <2>3. Queued # {} /\ taken' = taken + 1 /\ taken < N
    BY <1>0, <1>2 DEF Take, Queued
  <2>4. UNCHANGED <<main, ctx, fed, jobsClosed, probed, dropped, silent, results, output>>
    BY <1>2 DEF Take
  <2> QED
    BY <1>0, <2>1, <2>2, <2>3, <2>4, SameTried
<1>3. ASSUME NEW w \in Goroutine, JobsEnd(w) PROVE AnswerInv'
  <2>1. Trying' = Trying /\ holds' = holds
    BY <1>1, <1>3 DEF JobsEnd, Move, Trying
  <2>2. taken = N
    BY <1>0, <1>3 DEF JobsEnd, Queued
  <2>3. UNCHANGED <<main, ctx, fed, taken, jobsClosed, probed, dropped, silent, results, output>>
    BY <1>3 DEF JobsEnd
  <2> QED
    BY <1>0, <2>1, <2>2, <2>3, SameTried
<1>4. ASSUME NEW w \in Goroutine, Drop(w) PROVE AnswerInv'
  <2>1. Trying' = Trying /\ \A v \in Trying : holds'[v] = holds[v]
    BY <1>1, <1>4 DEF Drop, Move, Trying
  <2>2. ctx = "done" /\ UNCHANGED <<main, ctx, fed, jobsClosed, probed, silent, results, output>>
    BY <1>4 DEF Drop
  <2> QED
    BY <1>0, <2>1, <2>2, SameTried
<1>5. ASSUME NEW w \in Goroutine, Proceed(w) \/ Wait(w) PROVE AnswerInv'
  <2>1. Trying' = Trying /\ holds' = holds
    BY <1>1, <1>5 DEF Proceed, Wait, Move, Trying
  <2>2. \A v \in Goroutine : worker'[v] = "exited" <=> worker[v] = "exited"
    BY <1>1, <1>5 DEF Proceed, Wait, Move
  <2>3. UNCHANGED <<main, ctx, fed, taken, jobsClosed, probed, dropped, silent, results, output>>
    BY <1>5 DEF Proceed, Wait
  <2> QED
    BY <1>0, <2>1, <2>2, <2>3, SameTried
<1>6. ASSUME NEW w \in Goroutine, Dial(w) PROVE AnswerInv'
  <2>1. Trying' = Trying \cup {w} /\ holds' = holds
    BY <1>1, <1>6 DEF Dial, Move, Trying
  <2>2. Tried' = Tried \cup {holds[w]}
    BY <2>1 DEF Tried
  <2>3. \A v \in Goroutine : worker'[v] = "exited" <=> worker[v] = "exited"
    BY <1>1, <1>6 DEF Dial, Move
  <2>4. /\ probed' = probed \cup {holds[w]}
        /\ UNCHANGED <<main, ctx, fed, taken, jobsClosed, dropped, silent, results, output>>
    BY <1>6 DEF Dial
  <2> QED
    BY <1>0, <2>2, <2>3, <2>4
<1>7. ASSUME NEW w \in Goroutine, Probe(w) PROVE AnswerInv'
  <2>1. \A v \in Goroutine : worker'[v] = "exited" <=> worker[v] = "exited"
    BY <1>1, <1>7 DEF Probe, Move
  <2>2. UNCHANGED <<main, ctx, fed, taken, jobsClosed, probed, dropped, results, output>>
    BY <1>7 DEF Probe
  <2>3. Tried' \cup silent' = Tried \cup silent
    <3>1. CASE Move(w, "probe", "send") /\ holds' = holds /\ silent' = silent
      <4>1. Trying' = Trying
        BY <1>1, <3>1 DEF Move, Trying
      <4> QED
        BY <3>1, <4>1, SameTried
    <3>2. CASE /\ Move(w, "probe", "range")
               /\ silent' = silent \cup {holds[w]}
               /\ holds' = [holds EXCEPT ![w] = Nothing]
      <4>1. w \in Trying /\ Trying' = Trying \ {w}
        BY <1>1, <3>2 DEF Move, Trying
      <4>2. \A v \in Trying \ {w} : holds'[v] = holds[v]
        BY <1>1, <3>2 DEF Trying
      <4>3. Tried' = {holds[v] : v \in Trying \ {w}}
        BY <4>1, <4>2 DEF Tried
      <4> QED
        BY <3>2, <4>1, <4>3 DEF Tried
    <3> QED
      BY <1>7, <3>1, <3>2 DEF Probe
  <2> QED
    BY <1>0, <2>1, <2>2, <2>3
<1>8. ASSUME NEW w \in Goroutine, Send(w) PROVE AnswerInv'
  <2>1. \A v \in Goroutine : worker'[v] = "exited" <=> worker[v] = "exited"
    BY <1>1, <1>8 DEF Send, Move
  <2>2. /\ results' = results \cup {holds[w]}
        /\ UNCHANGED <<main, ctx, fed, taken, jobsClosed, probed, dropped, silent, output>>
    BY <1>8 DEF Send
  <2>3. w \in Trying /\ Trying' = Trying \ {w}
    BY <1>1, <1>8 DEF Send, Move, Trying
  <2>4. \A v \in Trying \ {w} : holds'[v] = holds[v]
    BY <1>1, <1>8 DEF Send, Trying
  <2>5. Tried' = {holds[v] : v \in Trying \ {w}}
    BY <2>3, <2>4 DEF Tried
  <2>6. main # "done"
    BY <1>d, <1>8 DEF Send, Move
  <2> QED
    BY <1>0, <2>1, <2>2, <2>3, <2>5, <2>6 DEF Tried
<1>9. CASE Spawn
  <2>1. UNCHANGED <<main, ctx, fed, taken, jobsClosed, holds, probed, dropped, silent, results, output>>
    BY <1>9 DEF Spawn
  <2>2. spawned + 1 \in Goroutine /\ worker[spawned + 1] = "unborn"
    <3>1. spawned + 1 \in Goroutine /\ spawned + 1 > spawned
      BY <1>9, SameCall DEF Spawn, TypeInv, TypeOK, Goroutine
    <3> QED
      BY <3>1 DEF PhaseInv
  <2>3. Trying' = Trying
    BY <1>1, <1>9, <2>2 DEF Spawn, Trying
  <2>4. \A v \in Goroutine : worker'[v] = "exited" => worker[v] = "exited"
    BY <1>1, <1>9 DEF Spawn
  <2> QED
    BY <1>0, <2>1, <2>3, <2>4, SameTried
<1>10. CASE Feed
  <2>1. Trying' = Trying /\ UNCHANGED <<main, ctx, taken, jobsClosed, worker, holds, probed, dropped,
                                       silent, results, output>>
    BY <1>10 DEF Feed, Trying
  <2>2. fed < N
    BY <1>10 DEF Feed
  <2> QED
    BY <1>0, <2>1, <2>2, SameTried
<1>11. CASE CloseJobs
  <2>1. Trying' = Trying /\ UNCHANGED <<ctx, fed, taken, worker, holds, probed, dropped, silent,
                                       results, output>>
    BY <1>11 DEF CloseJobs, Trying
  <2>2. fed = N /\ main' # "done"
    BY <1>11 DEF CloseJobs
  <2> QED
    BY <1>0, <2>1, <2>2, SameTried
<1>12. CASE Drain
  <2>1. Trying' = Trying /\ UNCHANGED <<ctx, fed, taken, jobsClosed, worker, holds, probed, dropped,
                                       silent>>
    BY <1>12 DEF Drain, Trying
  <2>2. output = {} /\ output' = results /\ results' = {}
    BY <1>12 DEF Drain, JobInv
  <2> QED
    BY <1>0, <2>1, <2>2, SameTried
<1>13. CASE Spawned \/ CloseResults \/ Cancel \/ Refill \/ UNCHANGED poolVars
  <2>1. /\ Trying' = Trying
        /\ UNCHANGED <<fed, taken, jobsClosed, worker, holds, probed, dropped, silent, results, output>>
    BY <1>13 DEF Spawned, CloseResults, Cancel, Refill, poolVars, Trying
  <2>2. (main' = "done" => main = "done") /\ (ctx' = "live" => ctx = "live")
    BY <1>13 DEF Spawned, CloseResults, Cancel, Refill, poolVars
  <2> QED
    BY <1>0, <2>1, <2>2, SameTried
<1> QED
  BY <1>2, <1>3, <1>4, <1>5, <1>6, <1>7, <1>8, <1>9, <1>10, <1>11, <1>12, <1>13
     DEF NextPool, Caller, Work

\* At the end every probe made is answered and, if the context is live, every
\* port was probed.
LEMMA AnsweredWhenDone ==
  ASSUME TypeInv, PhaseInv, JobInv, AnswerInv PROVE NoAnswerLost
<1> SUFFICES ASSUME main = "done"
             PROVE  output = probed \ silent /\ (ctx = "live" => output \cup silent = Jobs)
  BY DEF NoAnswerLost
<1>1. \A w \in Goroutine : worker[w] \in {"unborn", "exited"}
  BY DEF PhaseInv
<1>2. Trying = {} /\ Busy = {}
  BY <1>1 DEF Trying, Busy
<1>3. Tried = {} /\ Held = {} /\ results = {}
  BY <1>2 DEF Tried, Held, AnswerInv
<1>4. output = probed \ silent
  BY <1>3 DEF AnswerInv, JobInv, EachJobOnce
<1>5. ASSUME ctx = "live" PROVE output \cup silent = Jobs
  <2>1. 1 \in Goroutine /\ spawned >= 1
    BY WorkerCountType DEF Goroutine, PhaseInv, Started, TypeInv, TypeOK
  <2>2. worker[1] = "exited"
    BY <1>1, <2>1 DEF PhaseInv, TypeInv, TypeOK
  <2>3. taken = N /\ dropped = {}
    BY <1>5, <2>1, <2>2 DEF AnswerInv
  <2> QED
    BY <1>3, <2>3 DEF JobInv, EachJobOnce, Jobs
<1> QED
  BY <1>4, <1>5

\* A caller whose context stays live gets every answer; a cancelled one gets
\* the answers of the probes it made.
THEOREM NoAnswerLostCorrect == PoolSpec => []NoAnswerLost
<1>1. InitPool => JobInv /\ AnswerInv
  BY DEF InitPool, JobInv, EachJobOnce, Held, Busy, AnswerInv, Tried, Trying, Goroutine
<1> QED
  BY <1>1, AnsweredWhenDone, InitTypeInv, NextTypeInv, InitPhaseInv, NextPhaseInv, NextJobInv,
     NextAnswerInv, PTL DEF PoolSpec

----------------------------------------------------------------------------
(* The pace of the probes *)

\* Jobs for which the limiter has been waited and whose probe is next.
Admitted == {w \in Goroutine : worker[w] = "dial"}
Charged == probed \cup {holds[w] : w \in Admitted}

\* Each job probed or about to be probed has cost a token.
RateInv == Paced /\ ctx = "live" => tokens + Cardinality(Charged) <= Burst + refills

LEMMA ChargedFinite == ASSUME TypeInv PROVE IsFiniteSet(Charged) /\ Charged \subseteq Jobs
<1>1. Charged \subseteq Jobs
  BY DEF Charged, Admitted, TypeInv, TypeOK, HoldsJob
<1>2. IsFiniteSet(Jobs)
  BY FS_Interval DEF Jobs, N, TypeInv, TypeOK, Call
<1> QED
  BY <1>1, <1>2, FS_Subset

LEMMA SameCharged ==
  ASSUME RateInv, UNCHANGED <<pool, tokens, refills, probed>>, ctx' = "live" => ctx = "live",
         Admitted' = Admitted, \A w \in Admitted : holds'[w] = holds[w]
  PROVE  RateInv'
<1>1. Charged' = Charged
  BY DEF Charged
<1> QED
  BY <1>1 DEF RateInv, Paced

LEMMA NextRateInv == TypeInv /\ PhaseInv /\ RateInv /\ [NextPool]_poolVars => RateInv'
<1> SUFFICES ASSUME TypeInv, PhaseInv, RateInv, [NextPool]_poolVars PROVE RateInv'
  OBVIOUS
<1> USE DEF channels, limiter, history
<1>1. /\ worker \in [Goroutine -> {"unborn", "range", "check", "limit", "dial", "probe", "send",
                                   "exited"}]
      /\ holds \in [Goroutine -> Jobs \cup {Nothing}]
      /\ tokens \in Nat /\ refills \in Nat
  BY DEF TypeInv, TypeOK
<1>2. Cardinality(Charged) \in Nat
  BY ChargedFinite, FS_CardinalityType
<1>3. ASSUME NEW w \in Goroutine, Wait(w) PROVE RateInv'
  <2>1. Admitted' = Admitted \cup {w} /\ holds' = holds /\ probed' = probed
    BY <1>1, <1>3 DEF Wait, Move, Admitted
  <2>2. Charged' = Charged \cup {holds[w]}
    BY <2>1 DEF Charged
  <2>3. Cardinality(Charged') \in {Cardinality(Charged), Cardinality(Charged) + 1}
    <3>1. Cardinality(Charged \cup {holds[w]}) =
            IF holds[w] \in Charged THEN Cardinality(Charged) ELSE Cardinality(Charged) + 1
      BY ChargedFinite, FS_AddElement
    <3> QED
      BY <2>2, <3>1
  <2>4. ctx' = "live" => ctx = "live" /\ tokens' = tokens - 1
    BY <1>3 DEF Wait
  <2> QED
    BY <1>1, <1>2, <1>3, <2>3, <2>4 DEF RateInv, Paced, Wait
<1>4. ASSUME NEW w \in Goroutine, Dial(w) PROVE RateInv'
  <2>1. /\ w \in Admitted /\ Admitted' = Admitted \ {w}
        /\ holds' = holds /\ probed' = probed \cup {holds[w]}
    BY <1>1, <1>4 DEF Dial, Move, Admitted
  <2>2. Charged' = Charged
    BY <2>1 DEF Charged
  <2> QED
    BY <1>4, <2>2 DEF RateInv, Paced, Dial
<1>5. CASE Refill
  <2>1. Charged' = Charged
    BY <1>5 DEF Refill, Charged, Admitted
  <2> QED
    BY <1>1, <1>2, <1>5, <2>1 DEF RateInv, Paced, Refill
<1>6. ASSUME NEW w \in Goroutine, Proceed(w) PROVE RateInv'
  <2>1. CASE Paced
    <3>1. Admitted' = Admitted
      BY <1>1, <1>6, <2>1 DEF Proceed, Move, Admitted
    <3> QED
      BY <1>6, <3>1, SameCharged DEF Proceed
  <2>2. CASE ~Paced
    BY <1>6, <2>2 DEF Proceed, RateInv, Paced
  <2> QED
    BY <2>1, <2>2
<1>7. ASSUME NEW w \in Goroutine, Take(w) \/ JobsEnd(w) \/ Drop(w) \/ Probe(w) \/ Send(w)
      PROVE  RateInv'
  <2>1. Admitted' = Admitted
    BY <1>1, <1>7 DEF Take, JobsEnd, Drop, Probe, Send, Move, Admitted
  <2>2. \A v \in Admitted : holds'[v] = holds[v]
    BY <1>1, <1>7 DEF Take, JobsEnd, Drop, Probe, Send, Move, Admitted
  <2>3. UNCHANGED <<pool, ctx, tokens, refills, probed>>
    BY <1>7 DEF Take, JobsEnd, Drop, Probe, Send
  <2> QED
    BY <2>1, <2>2, <2>3, SameCharged
<1>8. CASE Spawn
  <2>1. spawned + 1 \in Goroutine /\ worker[spawned + 1] = "unborn"
    <3>1. spawned + 1 \in Goroutine /\ spawned + 1 > spawned
      BY <1>8, SameCall DEF Spawn, TypeInv, TypeOK, Goroutine
    <3> QED
      BY <3>1 DEF PhaseInv
  <2>2. Admitted' = Admitted
    BY <1>1, <1>8, <2>1 DEF Spawn, Admitted
  <2> QED
    BY <1>8, <2>2, SameCharged DEF Spawn
<1>9. CASE Spawned \/ Feed \/ CloseJobs \/ CloseResults \/ Drain \/ Cancel \/ UNCHANGED poolVars
  <2>1. Admitted' = Admitted /\ holds' = holds
    BY <1>9 DEF Spawned, Feed, CloseJobs, CloseResults, Drain, Cancel, poolVars, Admitted
  <2>2. UNCHANGED <<pool, tokens, refills, probed>> /\ (ctx' = "live" => ctx = "live")
    BY <1>9 DEF Spawned, Feed, CloseJobs, CloseResults, Drain, Cancel, poolVars
  <2> QED
    BY <2>1, <2>2, SameCharged
<1> QED
  BY <1>3, <1>4, <1>5, <1>6, <1>7, <1>8, <1>9 DEF NextPool, Caller, Work

\* While the context is live, no more probes are started than the burst and the
\* tokens added since allow.
THEOREM RateRespectedCorrect == PoolSpec => []RateRespected
<1>1. InitPool => RateInv
  <2> SUFFICES ASSUME InitPool PROVE RateInv
    OBVIOUS
  <2>1. Charged = {} /\ tokens = Burst /\ refills = 0
    BY DEF InitPool, Charged, Admitted
  <2> QED
    BY <2>1, FS_EmptySet DEF RateInv
<1>2. TypeInv /\ RateInv => RateRespected
  <2> SUFFICES ASSUME TypeInv, RateInv, Paced, ctx = "live"
               PROVE  Cardinality(probed) <= Burst + refills
    BY DEF RateRespected
  <2>1. probed \subseteq Charged
    BY DEF Charged
  <2>2. Cardinality(probed) <= Cardinality(Charged)
    BY <2>1, ChargedFinite, FS_Subset
  <2>3. Cardinality(probed) \in Nat /\ Cardinality(Charged) \in Nat
    BY <2>1, ChargedFinite, FS_Subset, FS_CardinalityType
  <2> QED
    BY <2>2, <2>3 DEF RateInv, TypeInv, TypeOK
<1> QED
  BY <1>1, <1>2, InitTypeInv, NextTypeInv, InitPhaseInv, NextPhaseInv, NextRateInv, PTL DEF PoolSpec

=============================================================================
