---------------------------- MODULE Intelligence ----------------------------
(***************************************************************************)
(* What the falcon shell concludes from the tables that HostIngest fills:  *)
(* the rules (internal/assessment/rules.go), the explainer (explain.go)    *)
(* and the analyses of the facade (internal/app/app.go): attack surface,   *)
(* attack paths, pivot candidates and trust boundaries.  Each of them      *)
(* reads the tables by lookups of its own, or the graph of Knowledge.      *)
(*                                                                         *)
(* A port of HostIngest is an endpoint here: <<protocol, number>>, open.   *)
(* What a service is named is left open: where it matters it is a          *)
(* parameter, the services whose name is that of an OT indicator.          *)
(* Technologies and what the reports say in words are left out, link-local *)
(* addresses, which the rule takes for private and the analyses do not,    *)
(* queries by a service's name, and hostnames that begin like an           *)
(* identifier, which the explainer looks up as one only.                   *)
(***************************************************************************)
EXTENDS Knowledge

CONSTANTS
  Public,  \* the addresses that are routed globally
  Network  \* the stored networks, each as its addresses; their names differ

ASSUME IntelligenceAssumption ==
  /\ Public \subseteq Addr /\ Network \subseteq SUBSET Addr
  /\ Port \subseteq {"tcp", "udp"} \X (1 .. 65535)

----------------------------------------------------------------------------
(* The lookups *)

InterfacesOf(a) == {i \in DOMAIN iface : iface[i].asset = a}

ServicesOf(a) == {s \in DOMAIN service : service[s].asset = a}

Protocol(s) == service[s].port[1]
PortOf(s) == service[s].port[2]

ServicesOn(ports) == {s \in DOMAIN service : PortOf(s) \in ports}

EvidenceOf(kind, id) ==
  {e \in DOMAIN evidence : evidence[e] = [kind |-> kind, entity |-> id]}

MultiHomed == {a \in DOMAIN asset : Cardinality(InterfacesOf(a)) > 1}

----------------------------------------------------------------------------
(* The rules: which rows they report, citing which evidence *)

SensitivePorts == {21, 23, 69, 80, 513, 514, 3389, 5900}

KnownOTIndicators == {"tcp"} \X {102, 502, 4840, 20000, 44818}
OTPorts == {indicator[2] : indicator \in KnownOTIndicators}

Finding(rule, kind, id, cited) ==
  [rule |-> rule, kind |-> kind, id |-> id, evidence |-> cited]

\* A slip: a service is reported with the evidence of its host.
ServiceExposureOfHost ==
  {Finding("service-exposure", "service", s, EvidenceOf("asset", service[s].asset)) :
     s \in ServicesOn(SensitivePorts)}

ServiceExposure ==
  {Finding("service-exposure", "service", s, EvidenceOf("service", s)) :
     s \in ServicesOn(SensitivePorts)}

GlobalAddress ==
  {Finding("global-address", "iface", i, EvidenceOf("asset", iface[i].asset)) :
     i \in {i \in DOMAIN iface : iface[i].addr \in Public}}

\* By protocol and port or, failing that, by the name.
MatchesIndicator(s, named) == <<Protocol(s), PortOf(s)>> \in KnownOTIndicators \/ s \in named

OTIndicator(named) ==
  {Finding("ot-indicator", "service", s, EvidenceOf("service", s)) :
     s \in {s \in DOMAIN service : MatchesIndicator(s, named)}}

MultiInterface ==
  {Finding("multi-interface", "asset", a, EvidenceOf("asset", a)) : a \in MultiHomed}

BuiltinRules(named) ==
  ServiceExposure \cup GlobalAddress \cup OTIndicator(named) \cup MultiInterface

\* All that the rules report for some names of the services.
Findings == BuiltinRules(DOMAIN service)

----------------------------------------------------------------------------
(* The explainer: the explanations a query may be given, none when it is refused *)

\* A query is <<"asset", id>>, <<"service", id>>, <<"addr", address>>,
\* <<"name", hostname>> or <<"port", number>>.
Explanation(kind, id, cited, confidence) ==
  [kind |-> kind, id |-> id, evidence |-> cited, confidence |-> confidence,
   sufficient |-> cited # {}]

\* GetAssetByHostname picks any asset with the name; the search for an address
\* takes the first asset that has it.
AssetsFor(q) ==
  CASE q[1] = "asset" -> {q[2]} \cap DOMAIN asset
    [] q[1] = "name"  -> {a \in DOMAIN asset : asset[a] = q[2]}
    [] q[1] = "addr"  -> LET holders == {iface[i].asset : i \in {i \in DOMAIN iface :
                                                                   iface[i].addr = q[2]}}
                         IN  IF holders = {} THEN {} ELSE {Min(holders)}
    [] OTHER          -> {}

HostConfidence(cited) ==
  CASE cited = {}              -> "LOW"
    [] Cardinality(cited) = 1  -> "MEDIUM"
    [] Cardinality(cited) >= 2 -> "HIGH"

\* A slip: the evidence of the host's services is not collected.
ExplainAssetAlone(q) ==
  {Explanation("asset", a, EvidenceOf("asset", a), HostConfidence(EvidenceOf("asset", a))) :
     a \in AssetsFor(q)}

\* The evidence of the host and of its services.
ExplainAsset(q) ==
  {LET cited == EvidenceOf("asset", a)
                \cup UNION {EvidenceOf("service", s) : s \in ServicesOf(a)}
   IN  Explanation("asset", a, cited, HostConfidence(cited)) : a \in AssetsFor(q)}

\* By identifier, or the first service with the port.
ExplainService(q) ==
  LET found == CASE q[1] = "service" -> {q[2]} \cap DOMAIN service
                 [] q[1] = "port"    -> LET on == ServicesOn({q[2]})
                                        IN  IF on = {} THEN {} ELSE {Min(on)}
                 [] OTHER            -> {}
  IN  {LET cited == EvidenceOf("service", s)
       IN  Explanation("service", s, cited, IF cited = {} THEN "LOW" ELSE "HIGH") : s \in found}

\* What begins like an identifier is looked up as one only; otherwise hosts come
\* before services.
ExplainGeneral(q) ==
  CASE q[1] = "asset"   -> ExplainAsset(q)
    [] q[1] = "service" -> ExplainService(q)
    [] OTHER            -> IF ExplainAsset(q) # {} THEN ExplainAsset(q) ELSE ExplainService(q)

----------------------------------------------------------------------------
(* The analyses of the facade *)

\* Every host with several interfaces; whether they are in distinct subnets only
\* changes the wording of the reason.
GetPivotCandidates == MultiHomed

\* The pairs of networks in which one host has interfaces, each with the first
\* such host.  (The code may list a pair again with its ends swapped.)
ObservedBoundaries ==
  LET In(a, n) == \E i \in InterfacesOf(a) : iface[i].addr \in n
      Joining(m, n) == {a \in MultiHomed : In(a, m) /\ In(a, n)}
  IN  {[zones |-> {mn[1], mn[2]}, asset |-> Min(Joining(mn[1], mn[2]))] :
         mn \in {mn \in Network \X Network : mn[1] # mn[2] /\ Joining(mn[1], mn[2]) # {}}}

\* OT services are counted by the port alone, whatever the protocol and the name.
GetAttackSurface ==
  [ot       |-> Cardinality(ServicesOn(OTPorts)),
   multi    |-> Cardinality(MultiHomed),
   internet |-> Cardinality({i \in DOMAIN iface : iface[i].addr \in Public})]

\* OT, remote access, directory and database services, by port alone.
PathTargets ==
  ServicesOn(OTPorts \cup {22, 3389, 5985, 5986} \cup {88, 389, 636}
             \cup {1433, 3306, 5432, 6379})

\* External and multi-homed hosts; if there is none, the first host.
EntryAssets ==
  LET found == MultiHomed \cup {iface[i].asset : i \in {i \in DOMAIN iface :
                                                          iface[i].addr \in Public}}
  IN  IF found = {} /\ DOMAIN asset # {} THEN {Min(DOMAIN asset)} ELSE found

\* From every entry to every sensitive service, over the graph unless the entry
\* has the service itself.
RouteTo(entry, s) ==
  IF service[s].asset = entry THEN <<<<"asset", entry>>>>
  ELSE DetailedPath(BuildFromStorage, <<"asset", entry>>, <<"asset", service[s].asset>>).ids

\* A slip: an entry that has a sensitive service itself is left at that.
GetAttackPathsNearest ==
  {p \in {[entry |-> a, service |-> s, nodes |-> RouteTo(a, s)] :
            a \in EntryAssets, s \in PathTargets} :
     /\ p.nodes # << >>
     /\ PathTargets \cap ServicesOf(p.entry) # {} => p.service \in ServicesOf(p.entry)}

GetAttackPaths ==
  {p \in {[entry |-> a, service |-> s, nodes |-> RouteTo(a, s)] :
            a \in EntryAssets, s \in PathTargets} : p.nodes # << >>}

----------------------------------------------------------------------------
(* Properties *)

Quiet == faults = 0 /\ \A p \in Proc : pc[p] = "idle"

\* What ingestion reports done can be explained, also when earlier ingestions of the
\* host were killed at any statement: the address, and the hostname the host goes by,
\* lead to it; there is sufficient evidence, of high confidence if a service was seen; the
\* services seen have evidence of their own; and nothing that the rules find on what
\* was seen is without evidence.
DoneIsExplained ==
  Quiet => \A p \in Proc : outcome[p] = "ok" =>
    LET j == job[p]
        host == ExplainGeneral(<<"asset", j.asset>>)
        seen == {s \in ServicesOf(j.asset) : service[s].port \in j.ports}
        about == {<<"asset", j.asset>>} \cup {<<"iface", i>> : i \in InterfacesOf(j.asset)}
                 \cup {<<"service", s>> : s \in seen}
    IN  /\ host # {}
        /\ j.addr # NoAddr => ExplainGeneral(<<"addr", j.addr>>) = host
        /\ asset[j.asset] # NoName =>
             host \subseteq ExplainGeneral(<<"name", asset[j.asset]>>)
        /\ \A e \in host : e.sufficient /\ (j.ports # {} => e.confidence = "HIGH")
        /\ \A s \in seen : \A e \in ExplainGeneral(<<"service", s>>) : e.sufficient
        /\ \A f \in Findings : <<f.kind, f.id>> \in about => f.evidence # {}

\* The rules, the explainer and the graph cite the same evidence: what is next to a
\* host or a service in the graph is what its findings and its explanation cite, the
\* explanation of a host adding that of the services next to it, and an address being
\* reported on its host's evidence.
EvidenceAgrees ==
  LET g == BuildFromStorage
      Beside(n) == {e \in DOMAIN evidence : <<"evidence", e>> \in Neighbors(g, n)}
      Node(f) == IF f.kind = "iface" THEN <<"asset", iface[f.id].asset>> ELSE <<f.kind, f.id>>
  IN  Quiet =>
        /\ \A f \in Findings : f.evidence = Beside(Node(f))
        /\ \A s \in Rows("service", service) :
             \A e \in ExplainGeneral(s) : e.evidence = Beside(s)
        /\ \A a \in AssetNodes : \A e \in ExplainGeneral(a) :
             e.evidence = Beside(a) \cup UNION {Beside(s) : s \in ServicesFor(g, a)}

\* An attack path is reported exactly for the entries and sensitive services that the
\* edges of the graph join, in any direction and over any number of hops; it leads
\* over nodes of the graph, which the command dereferences, and ends at the service's
\* only host.
AttackPathsComplete ==
  LET g == BuildFromStorage
      paths == GetAttackPaths
  IN  Quiet =>
        /\ \A a \in EntryAssets, s \in PathTargets :
             (\E p \in paths : p.entry = a /\ p.service = s)
               <=> <<"service", s>> \in Ball(g, <<"asset", a>>, Cardinality(Ends(g)))
        /\ \A p \in paths : /\ {p.nodes[i] : i \in DOMAIN p.nodes} \subseteq g.nodes
                            /\ HostsFor(g, <<"service", p.service>>) = {p.nodes[Len(p.nodes)]}

\* Nothing is counted twice, whatever failed or was killed: a host that is called
\* multi-homed, a pivot candidate or the host between two networks has two addresses;
\* the attack surface and the rules count an address once, and each of them counts an
\* endpoint it takes for OT once, the surface by its port, the rule by protocol and
\* port or by whatever the services are named.
CountedOnce ==
  LET addresses == {iface[i].addr : i \in DOMAIN iface}
      Several(a) == Cardinality({iface[i].addr : i \in InterfacesOf(a)}) > 1
      Endpoints(services) == {service[s] : s \in services}
  IN  (\A p \in Proc : pc[p] = "idle") =>
        /\ \A a \in GetPivotCandidates : Several(a)
        /\ GetAttackSurface.multi = Cardinality({a \in DOMAIN asset : Several(a)})
        /\ \A b \in ObservedBoundaries : Several(b.asset)
        /\ GetAttackSurface.internet = Cardinality(addresses \cap Public)
        /\ Cardinality(GlobalAddress) = GetAttackSurface.internet
        /\ GetAttackSurface.ot = Cardinality(Endpoints(ServicesOn(OTPorts)))
        /\ \A named \in SUBSET DOMAIN service :
             Cardinality(OTIndicator(named)) =
               Cardinality(Endpoints({s \in DOMAIN service : MatchesIndicator(s, named)}))
=============================================================================
