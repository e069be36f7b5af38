------------------------------ MODULE Importer ------------------------------
(***************************************************************************)
(* importer.ImportFile: a file is parsed by the parser of its format, and  *)
(* what it observes is ingested one host and one network after the other.  *)
(*                                                                         *)
(* A file is a record of its extension, its content and its lines (the     *)
(* hosts, routes or flows of a structured file).  An address is of form    *)
(* "ip", padded or not with zeros, or "none", or "bad": it looks like one  *)
(* and is none, such as 10.0.0.999; a network is as in ScopeGuard, or bad. *)
(* Services, MAC addresses and names are left out: how a host is          *)
(* ingested is the subject of HostIngest, and only its address is kept     *)
(* here, in hosts.                                                         *)
(***************************************************************************)
EXTENDS Records, ScopeGuard

CONSTANTS File,    \* the files a user imports
          ClockId  \* what the clock, modulo 10000, may give as an event's identifier

VARIABLES hosts,    \* the addresses that are stored
          networks  \* networks[id]: the network

importVars == <<hosts, networks>>

InitImporter == hosts = {} /\ networks = NoRows

----------------------------------------------------------------------------
(* The parsers *)

\* By extension; a .json file, or one without a known extension, by content.
DetectFormat(file) ==
  CASE file.ext = "xml" -> "nmapxml"
    [] file.ext = "json" -> IF file.content = "flows" THEN "pcapmeta" ELSE "json"
    [] file.ext \in {"txt", "hosts", "zone"} -> "dnsdata"
    [] file.ext = "arp" -> "arp"
    [] file.ext \in {"routes", "rt"} -> "routing"
    [] OTHER -> CASE file.content = "nmaprun" -> "nmapxml"
                  [] file.content = "flows" -> "pcapmeta"
                  [] file.content = "{" -> "json"
                  [] OTHER -> "dnsdata"

\* What is read of a file is a sequence of lines, or of a document's entries.
ASSUME ImporterAssumption ==
  \A file \in File :
    /\ file.lines \in Seq({file.lines[i] : i \in DOMAIN file.lines})
    /\ DetectFormat(file) = "json" =>
         file.networks \in Seq({file.networks[i] : i \in DOMAIN file.networks})

Addresses(lines) == [i \in DOMAIN lines |-> lines[i].ip]

\* Every host of a Falcon document, also one without an address.
JsonHosts(lines) == Addresses(lines)

\* Hosts that are up, or whose status is missing.
NmapHosts(lines) ==
  LET Up(host) == host.state \in {"up", ""} IN Addresses(SelectSeq(lines, Up))

\* Lines of two fields whose first has a "." or ":"; a hostname may be there too.
DnsHosts(lines) ==
  LET Record(line) == line.fields >= 2 /\ line.ip.form # "none"
  IN  Addresses(SelectSeq(lines, Record))

\* Lines with an address and a MAC address.
ArpHosts(lines) ==
  LET Entry(line) == line.ip.form # "none" /\ line.mac IN Addresses(SelectSeq(lines, Entry))

\* "default via" and other lines of three fields that start with a network; an
\* address is an entry too, but no observation.
RouteNetworks(lines) ==
  LET Route(line) == line.fields >= 3 /\ line.net.form \in {"cidr", "bad"}
      routes[n \in 0 .. Len(lines)] ==
        IF n = 0 THEN << >>
        ELSE routes[n - 1] \o (IF Route(lines[n]) THEN <<lines[n].net>> ELSE << >>)
  IN  routes[Len(lines)]

\* The distinct ends of the flows, in the order of a Go map: any.
FlowHosts(lines) ==
  LET ends == UNION {{lines[i].src, lines[i].dst} : i \in DOMAIN lines}
  IN  SetToSeqs({ip \in ends : ip.form # "none"})

\* The XML and JSON decoders fail on anything else.
Parses(file, format) ==
  CASE format = "nmapxml" -> file.content = "nmaprun"
    [] format \in {"json", "pcapmeta"} -> file.content \in {"{", "flows"}
    [] OTHER -> TRUE

\* What a file observes: a sequence of hosts and one of networks.
ConvertToObservations(file, format) ==
  LET Only(ips) == [hosts |-> ips, networks |-> << >>] IN
  CASE format = "json"     -> {[hosts |-> JsonHosts(file.lines), networks |-> file.networks]}
    [] format = "nmapxml"  -> {Only(NmapHosts(file.lines))}
    [] format = "dnsdata"  -> {Only(DnsHosts(file.lines))}
    [] format = "arp"      -> {Only(ArpHosts(file.lines))}
    [] format = "routing"  -> {[hosts |-> << >>, networks |-> RouteNetworks(file.lines)]}
    [] format = "pcapmeta" -> {Only(ips) : ips \in FlowHosts(file.lines)}

----------------------------------------------------------------------------
(* Ingestion *)

\* The zeros go, so a padded address is the address.
NormalizeIP(ip) == ip.addr

\* A network loses its host bits, an address becomes a network of its own.
NormalizeCIDR(net) ==
  IF net.form = "ip" THEN [form |-> "cidr", addr |-> net.addr, size |-> 1] ELSE Normalized(net)

InsertNetwork(rows, id, net) == Insert(rows, id, NormalizeCIDR(net))

FindNetworkByCIDR(rows, cidr) == {i \in DOMAIN rows : rows[i] = cidr}

\* The row of a number that is taken keeps its network.
SaveNetwork(rows, id, net) == IF id \in DOMAIN rows THEN rows ELSE InsertNetwork(rows, id, net)

\* What becomes of the table and its sequence.  The errors of numbering and of
\* saving a network are ignored.
IngestNetwork(s, net, f) ==
  IF FindNetworkByCIDR(s.rows, NormalizeCIDR(net)) # {} THEN s
  ELSE CASE f = "number" -> [s EXCEPT !.rows = SaveNetwork(@, 0, net)]
         [] f = "save"   -> [s EXCEPT !.number = @ + 1]
         [] OTHER -> [rows |-> SaveNetwork(s.rows, s.number + 1, net), number |-> s.number + 1]

\* All of them, one after the other; the statement f fails at the one number at.
Ingested(start, nets, f, at) ==
  LET after[n \in 0 .. Len(nets)] ==
        IF n = 0 THEN start
        ELSE IngestNetwork(after[n - 1], nets[n], IF n = at THEN f ELSE "none")
  IN  after[Len(nets)]

\* The observations before the first that cannot be ingested.
Before(obs, Bad(_)) ==
  SubSeq(obs, 1, Min({i \in DOMAIN obs : Bad(i)} \cup {Len(obs) + 1}) - 1)

\* ImportFile, not dry.  It stops at the first host and at the first network
\* that is malformed, at a host at which a statement fails, and at a network that
\* cannot be looked up; what it ingested so far stays, and the audit event and
\* the summary are left out then.  The statement fails at the observation number at.
ImportFile(file, f, at) ==
  /\ f \in {"none", "host", "lookup", "number", "save"} /\ at \in 1 .. 2
  /\ f = "none" => at = 1
  /\ Call(f) /\ Parses(file, DetectFormat(file))
  /\ \E obs \in ConvertToObservations(file, DetectFormat(file)) :
       LET BadHost(i) == obs.hosts[i].form = "bad" \/ (f = "host" /\ i = at)
           BadNet(i) == obs.networks[i].form = "bad" \/ (f = "lookup" /\ i = at)
           ips == Before(obs.hosts, BadHost)
           nets == IF ips = obs.hosts THEN Before(obs.networks, BadNet) ELSE << >>
           end == Ingested([rows |-> networks, number |-> seq["network"]], nets, f, at)
           done == ips = obs.hosts /\ nets = obs.networks
           stored == {NormalizeIP(ips[i]) : i \in {i \in DOMAIN ips : ips[i].form = "ip"}}
       IN /\ hosts' = hosts \cup stored
          /\ networks' = end.rows /\ seq' = [seq EXCEPT !["network"] = end.number]
          /\ IF done THEN \E clock \in ClockId : RecordAuditEvent(clock, "imported")
                     ELSE UNCHANGED audit
          /\ known' = IF done /\ f = "none"
                      THEN known \cup {<<"host", ip>> : ip \in stored}
                                 \cup {<<"network", NormalizeCIDR(nets[i])>> : i \in DOMAIN nets}
                      ELSE known

\* A dry run, "validate", or a file that its parser rejects.
ImportNothing == Call("none") /\ UNCHANGED <<seq, audit, known, importVars>>

ImportShows(fact) ==
  IF fact[1] = "host" THEN fact[2] \in hosts
                      ELSE fact[2] \in {networks[i] : i \in DOMAIN networks}
=============================================================================
