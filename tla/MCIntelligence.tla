--------------------------- MODULE MCIntelligence ---------------------------
(* What the run ingest_one explores of Intelligence, and so of HostIngest:  *)
(* three ingestions of at most one port each, of which one may be killed,   *)
(* the last one of two ports if none was; or two, one with a failing        *)
(* statement.  502/tcp is seen only where nothing is killed and no          *)
(* statement fails.                                                         *)
EXTENDS Intelligence

\* The OT port over TCP, which the rule and the attack surface report; over UDP, which
\* the attack surface counts and the rule reports by name only; remote access.
MCPort == {<<"tcp", 502>>, <<"udp", 502>>, <<"tcp", 3389>>}

Seen == {service[s].port : s \in DOMAIN service} \cup UNION {job[p].ports : p \in Proc}

Explored ==
  /\ faults + crashes <= 1
  /\ faults = 1 => ingests < MaxIngest
  /\ faults + crashes = 1 => <<"tcp", 502>> \notin Seen
  /\ \A p \in Proc : pc[p] # "idle" =>
       IF ingests = MaxIngest /\ crashes = 0
       THEN job[p].ports = {<<"udp", 502>>, <<"tcp", 3389>>}
       ELSE Cardinality(job[p].ports) <= 1
=============================================================================
