----------------------------- MODULE ScopeGuard -----------------------------
(***************************************************************************)
(* What the program makes of an input that names a target or a scope       *)
(* pattern (target.ClassifyAndNormalize), and what the scope guard that is *)
(* compiled from rules and targets decides about it.                       *)
(*                                                                         *)
(* An input is a record: an address [form "ip", addr], a network [form     *)
(* "cidr", addr, size] that may have host bits set, a name [form "name",   *)
(* labels, star], where star tells a wildcard, or a URL [form "url", host] *)
(* around an address or a name.  An address is a number, a network covers  *)
(* size addresses, and a name is the sequence of its labels.  Letter case, *)
(* ports, paths, the metadata and what is not an input at all are left     *)
(* out, and so are IPv6 addresses, which go the way of IPv4 here.          *)
(***************************************************************************)
EXTENDS Integers, Sequences, SequencesExt

----------------------------------------------------------------------------
(* target.ClassifyAndNormalize *)

\* What ClassifyAndNormalize tells apart.
WellFormed(input) ==
  LET Host(h) == (h.form = "ip" /\ h.addr \in Nat) \/ (h.form = "name" /\ h.star \in BOOLEAN)
  IN  \/ input \in [form : {"cidr"}, addr : Nat, size : Nat \ {0}]
      \/ input.form = "url" /\ Host(input.host)
      \/ Host(input)

\* A network loses its host bits, anything else keeps its value.
Normalized(input) ==
  IF input.form = "cidr" THEN [input EXCEPT !.addr = @ - (@ % input.size)] ELSE input

\* Only a wildcard is not recognized; its "*" is not a valid label.
Recognized(input) == input.form = "name" => ~input.star

TypeOf(input) ==
  CASE input.form = "url"  -> "url"
    [] input.form = "cidr" -> "cidr"
    [] input.form = "ip"   -> "ipv4"
    [] input.form = "name" -> IF Len(input.labels) = 1 THEN "hostname" ELSE "domain"

\* AddScopeRule takes what is not recognized as it is, as a domain.
RulePattern(input) == IF Recognized(input) THEN Normalized(input) ELSE input

----------------------------------------------------------------------------
(* ScopeGuard.compile *)

NoPatterns == [nets |-> {}, ips |-> {}, names |-> {}]

\* A URL among the rules is neither a network nor an address: it becomes a
\* domain that no host is equal to.
CompilePattern(patterns, input) ==
  CASE input.form = "cidr" -> [patterns EXCEPT !.nets = @ \cup {Normalized(input)}]
    [] input.form = "ip"   -> [patterns EXCEPT !.ips = @ \cup {input.addr}]
    [] input.form = "name" -> [patterns EXCEPT !.names = @ \cup {input.labels}]
    [] input.form = "url"  -> [patterns EXCEPT !.names = @ \cup {<<"://">>}]

HostOf(input) == IF input.form = "url" THEN input.host ELSE input

Compiled(inputs) ==
  [nets  |-> UNION {CompilePattern(NoPatterns, i).nets : i \in inputs},
   ips   |-> UNION {CompilePattern(NoPatterns, i).ips : i \in inputs},
   names |-> UNION {CompilePattern(NoPatterns, i).names : i \in inputs}]

\* Every target that is stored is an inclusion, by its host when it is a URL.
NewScopeGuard(includes, excludes, targets) ==
  [included |-> Compiled(includes \cup {HostOf(t) : t \in targets}),
   excluded |-> Compiled(excludes),
   hasExplicitIncludes |-> includes # {}]

----------------------------------------------------------------------------
(* ScopeGuard.IsAllowed *)

Covers(net, addr) == net.addr <= addr /\ addr < net.addr + net.size

Conflict(a, b) == Covers(a, b.addr) \/ Covers(b, a.addr)

Under(labels, domain) == IsSuffix(domain, labels)

IsIPAllowed(sg, addr) ==
  LET excluded == addr \in sg.excluded.ips
                  \/ \E net \in sg.excluded.nets : Covers(net, addr)
      anyIncluded == sg.included.ips # {} \/ sg.included.nets # {}
      included == addr \in sg.included.ips
                  \/ \E net \in sg.included.nets : Covers(net, addr)
  IN ~excluded /\ (anyIncluded => included)

\* Every network that meets no excluded network is accepted, included or not.
IsCIDRAllowed(sg, net) == ~\E exc \in sg.excluded.nets : Conflict(exc, net)

IsHostAllowed(sg, labels) ==
  /\ ~\E exc \in sg.excluded.names : Under(labels, exc)
  /\ sg.included.names # {} => \E inc \in sg.included.names : Under(labels, inc)

IsAllowed(sg, t) ==
  LET host == HostOf(t) IN
  CASE host.form = "ip"   -> IsIPAllowed(sg, host.addr)
    [] host.form = "cidr" -> IsCIDRAllowed(sg, host)
    [] host.form = "name" -> IsHostAllowed(sg, host.labels)

\* A target without a type is taken for a host, also when it is an address or a
\* network, which no name is equal to.
IsAllowedUntyped(sg, t) ==
  IF t.form = "name" THEN IsHostAllowed(sg, t.labels) ELSE sg.included.names = {}

\* Validate looks at the exclusions with the value as it is written, so an
\* address within a URL is compared with domains only.
Excluded(sg, t) ==
  \/ t.form = "ip" /\ (t.addr \in sg.excluded.ips
                       \/ \E net \in sg.excluded.nets : Covers(net, t.addr))
  \/ t.form = "cidr" /\ \E net \in sg.excluded.nets : Conflict(net, t)
  \/ HostOf(t).form = "name" /\ \E exc \in sg.excluded.names : Under(HostOf(t).labels, exc)

\* The inclusions count when there is an explicit rule among them.
Validate(sg, t) == ~Excluded(sg, t) /\ (sg.hasExplicitIncludes => IsAllowed(sg, t))

\* Validate of a target whose type is not set.
ValidateUntyped(sg, t) ==
  ~Excluded(sg, t) /\ (sg.hasExplicitIncludes => IsAllowedUntyped(sg, t))
=============================================================================
