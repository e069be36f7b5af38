----------------------------- MODULE HostIngest -----------------------------
(***************************************************************************)
(* Pipeline.IngestHost (internal/observation/pipeline.go) with             *)
(* Resolver.ResolveHost and the Save methods of the repository, at the     *)
(* grain of the SQL statements they run.  No statement shares a            *)
(* transaction with another, so a process may die, another process may     *)
(* write, and a statement may fail between any two of them.                *)
(*                                                                         *)
(* Every identifier is obtained by NextSequence (the steps Bump and Read;  *)
(* see SequenceStore for the three statements).  Writing a row is a stage; *)
(* the stages of one observation are                                       *)
(*    asset, iface, hasIface    the identity, when it is new               *)
(*    assetEv, evBy             evidence for the asset, its relationship   *)
(*    service, hosts, svcEv     for every service                          *)
(* An absent address or hostname is NoAddr, NoName.  The MAC address, the  *)
(* times and the descriptive columns of the rows are left out.             *)
(***************************************************************************)
EXTENDS Naturals, FiniteSets

CONSTANTS Proc, Addr, HostName, Port, NoAddr, NoName, NoPort,
          BadAddr,    \* an address NormalizeIP rejects, such as a domain name
          MaxIngest,  \* bound on the number of calls
          MaxFault,   \* bound on the number of failing statements
          MaxCrash    \* bound on the number of processes killed

ASSUME IngestAssumption ==
  /\ NoAddr \notin Addr /\ BadAddr \notin Addr \cup {NoAddr}
  /\ NoName \notin HostName /\ NoPort \notin Port
  /\ {MaxIngest, MaxFault, MaxCrash} \subseteq Nat

VARIABLES
  seq,      \* the sequences table
  asset,    \* asset[id]: the hostname column
  iface,    \* iface[id]: the asset and the address
  service,  \* service[id]: the asset and the port, with its protocol
  evidence, \* evidence[id]: the kind and the id of the entity
  rel,      \* rel[id]: the type, the source and the target
  pc, job,  \* what each process executes next, and its locals
  outcome,  \* how each process's last call ended
  ingests, faults, crashes

tables == <<asset, iface, service, evidence, rel>>
counts == <<ingests, faults, crashes>>
vars == <<seq, tables, pc, job, outcome, counts>>

SeqName == {"asset", "interface", "service", "evidence", "relationship"}
Stage == {"asset", "iface", "hasIface", "assetEv", "evBy", "service", "hosts", "svcEv"}

\* The sequence that names the row a stage writes.
SequenceOf(s) ==
  CASE s = "asset" -> "asset"
    [] s = "iface" -> "interface"
    [] s = "service" -> "service"
    [] s \in {"assetEv", "svcEv"} -> "evidence"
    [] OTHER -> "relationship"

\* Rows of asset, iface and service are written by a Save method that first
\* selects the identifier; the others by a plain INSERT.
Saved == {"asset", "iface", "service"}

\* The stages whose errors IngestHost returns; it ignores those of the others.
\* ResolveHost ignores a failing sequence when it adds an interface to an
\* asset found by hostname.
Checked(s) == s \in {"asset", "iface"}
SeqChecked(j) == j.stage = "asset" \/ (j.stage = "iface" /\ j.newAsset)

NoJob == [addr |-> NoAddr, name |-> NoName, ports |-> {}, todo |-> {}, stage |-> "asset",
          asset |-> 0, newAsset |-> FALSE, port |-> NoPort, entity |-> 0, id |-> 0,
          exists |-> FALSE]

PutRow(table, id, row) == [i \in DOMAIN table \cup {id} |-> IF i = id THEN row ELSE table[i]]

Init ==
  /\ seq = [n \in SeqName |-> 0]
  /\ asset = << >> /\ iface = << >> /\ service = << >> /\ evidence = << >> /\ rel = << >>
  /\ pc = [p \in Proc |-> "idle"]
  /\ job = [p \in Proc |-> NoJob]
  /\ outcome = [p \in Proc |-> "none"]
  /\ ingests = 0 /\ faults = 0 /\ crashes = 0

----------------------------------------------------------------------------
(* Control *)

\* p continues at label with its locals set to j.
Continue(p, label, j) ==
  /\ pc' = [pc EXCEPT ![p] = label]
  /\ job' = [job EXCEPT ![p] = j]
  /\ outcome' = outcome

\* p goes on to write the row of a stage.
Enter(p, s, j) == Continue(p, "bump", [j EXCEPT !.stage = s])

\* p's call returns.
Finish(p, how, j) ==
  /\ pc' = [pc EXCEPT ![p] = "idle"]
  /\ job' = [job EXCEPT ![p] = j]
  /\ outcome' = [outcome EXCEPT ![p] = how]

NextService(p, j) ==
  IF j.todo = {} THEN Finish(p, "ok", j) ELSE Continue(p, "findSvc", j)

\* What follows the write of a stage's row, whether or not it succeeded.
Advance(p, j) ==
  CASE j.stage = "asset" /\ j.addr # NoAddr -> Enter(p, "iface", j)
    [] j.stage = "asset" /\ j.addr = NoAddr -> Enter(p, "assetEv", j)
    [] j.stage = "iface" /\ j.newAsset      -> Enter(p, "hasIface", j)
    [] j.stage = "iface" /\ ~j.newAsset     -> Enter(p, "assetEv", j)
    [] j.stage = "hasIface"                 -> Enter(p, "assetEv", j)
    [] j.stage = "assetEv"                  -> Enter(p, "evBy", [j EXCEPT !.entity = j.id])
    [] j.stage = "service"                  -> Enter(p, "hosts", [j EXCEPT !.entity = j.id])
    [] j.stage = "hosts"                    -> Enter(p, "svcEv", j)
    [] j.stage \in {"evBy", "svcEv"}        -> NextService(p, j)

\* ResolveHost, once no interface has the address: by hostname, or a new asset.
ResolveByName(p, j) ==
  IF j.name # NoName THEN Continue(p, "findAsset", j)
                     ELSE Enter(p, "asset", [j EXCEPT !.newAsset = TRUE])

\* The call starts; an address that does not normalise ends it at once.
Begin(p) ==
  /\ pc[p] = "idle" /\ ingests < MaxIngest
  /\ ingests' = ingests + 1
  /\ \E a \in Addr \cup {NoAddr, BadAddr}, n \in HostName \cup {NoName}, ports \in SUBSET Port :
       LET j == [NoJob EXCEPT !.addr = a, !.name = n, !.ports = ports, !.todo = ports] IN
       CASE a = BadAddr -> Finish(p, "err", NoJob)
         [] a = NoAddr  -> ResolveByName(p, j)
         [] a \in Addr  -> Continue(p, "findIface", j)
  /\ UNCHANGED <<seq, tables, faults, crashes>>

\* A slip: the address is not looked up.
FindIfaceSkipped(p) ==
  /\ pc[p] = "findIface"
  /\ ResolveByName(p, job[p])
  /\ UNCHANGED <<seq, tables, counts>>

\* GetInterfaceByAddress: any row with the address, its asset joined.
FindIface(p) ==
  LET found == {i \in DOMAIN iface : iface[i].addr = job[p].addr} IN
  /\ pc[p] = "findIface"
  /\ IF found = {}
       THEN ResolveByName(p, job[p])
       ELSE \E i \in found : Continue(p, "getAsset", [job[p] EXCEPT !.asset = iface[i].asset])
  /\ UNCHANGED <<seq, tables, counts>>

\* A slip: the hostname of a known address is dropped.
GetAssetOnly(p) ==
  /\ pc[p] = "getAsset"
  /\ Enter(p, "assetEv", job[p])
  /\ UNCHANGED <<seq, tables, counts>>

\* GetAsset; a hostname is filled in only when the asset has none.
GetAsset(p) ==
  /\ pc[p] = "getAsset"
  /\ IF job[p].name # NoName /\ asset[job[p].asset] = NoName
       THEN Continue(p, "fillName", job[p])
       ELSE Enter(p, "assetEv", job[p])
  /\ UNCHANGED <<seq, tables, counts>>

\* SaveAsset of the asset just read, with the hostname set.
FillName(p) ==
  /\ pc[p] = "fillName"
  /\ asset' = [asset EXCEPT ![job[p].asset] = job[p].name]
  /\ Enter(p, "assetEv", job[p])
  /\ UNCHANGED <<seq, iface, service, evidence, rel, counts>>

\* GetAssetByHostname (LIMIT 1): any asset with the hostname.
FindAsset(p) ==
  LET found == {a \in DOMAIN asset : asset[a] = job[p].name} IN
  /\ pc[p] = "findAsset"
  /\ IF found = {}
       THEN Enter(p, "asset", [job[p] EXCEPT !.newAsset = TRUE])
       ELSE \E a \in found :
              Enter(p, IF job[p].addr # NoAddr THEN "iface" ELSE "assetEv",
                    [job[p] EXCEPT !.asset = a])
  /\ UNCHANGED <<seq, tables, counts>>

\* A slip: the service is not looked up.
FindSvcSkipped(p) ==
  /\ pc[p] = "findSvc"
  /\ \E port \in job[p].todo :
       Enter(p, "service", [job[p] EXCEPT !.todo = @ \ {port}, !.port = port])
  /\ UNCHANGED <<seq, tables, counts>>

\* A slip: the identifier of the service found is not taken over.
FindSvcStaleId(p) ==
  /\ pc[p] = "findSvc"
  /\ \E port \in job[p].todo :
       LET j == [job[p] EXCEPT !.todo = @ \ {port}, !.port = port] IN
       Enter(p, IF [asset |-> j.asset, port |-> port] \in {service[s] : s \in DOMAIN service}
                  THEN "svcEv" ELSE "service", j)
  /\ UNCHANGED <<seq, tables, counts>>

\* GetServiceByAssetProtoPort for the next service; SaveService of a row that
\* is found changes none of the columns modelled here.
FindSvc(p) ==
  /\ pc[p] = "findSvc"
  /\ \E port \in job[p].todo :
       LET j == [job[p] EXCEPT !.todo = @ \ {port}, !.port = port]
           found == {s \in DOMAIN service : service[s] = [asset |-> j.asset, port |-> port]} IN
       IF found = {} THEN Enter(p, "service", j)
       ELSE \E s \in found : Enter(p, "svcEv", [j EXCEPT !.entity = s])
  /\ UNCHANGED <<seq, tables, counts>>

----------------------------------------------------------------------------
(* Naming and writing a row *)

\* NextSequence: the row is created if need be and incremented ...
Bump(p) ==
  /\ pc[p] = "bump"
  /\ seq' = [seq EXCEPT ![SequenceOf(job[p].stage)] = @ + 1]
  /\ Continue(p, "read", job[p])
  /\ UNCHANGED <<tables, counts>>

\* A slip: the number after the one that was reserved.
ReadAhead(p) ==
  /\ pc[p] = "read"
  /\ Continue(p, IF job[p].stage \in Saved THEN "check" ELSE "write",
              [job[p] EXCEPT !.id = seq[SequenceOf(job[p].stage)] + 1, !.exists = FALSE])
  /\ UNCHANGED <<seq, tables, counts>>

\* ... and read back by a statement of its own.
Read(p) ==
  /\ pc[p] = "read"
  /\ Continue(p, IF job[p].stage \in Saved THEN "check" ELSE "write",
              [job[p] EXCEPT !.id = seq[SequenceOf(job[p].stage)], !.exists = FALSE])
  /\ UNCHANGED <<seq, tables, counts>>

\* The SELECT a Save method starts with.
Check(p) ==
  LET table == CASE job[p].stage = "asset" -> asset
                 [] job[p].stage = "iface" -> iface
                 [] job[p].stage = "service" -> service IN
  /\ pc[p] = "check"
  /\ Continue(p, "write", [job[p] EXCEPT !.exists = job[p].id \in DOMAIN table])
  /\ UNCHANGED <<seq, tables, counts>>

\* The row of the current stage is inserted if its identifier is free;
\* otherwise the INSERT fails and the stage goes on as its error handling says.
Inserted(table, id, row) ==
  IF id \in DOMAIN table THEN table ELSE PutRow(table, id, row)

\* A slip: the interface is linked before the asset has its identifier.
WriteAssetUnlinked(p) ==
  LET j == job[p] IN
  /\ pc[p] = "write" /\ j.stage = "asset"
  /\ asset' = Inserted(asset, j.id, j.name)
  /\ Advance(p, j)
  /\ UNCHANGED <<seq, iface, service, evidence, rel, counts>>

WriteAsset(p) ==
  LET j == job[p] IN
  /\ pc[p] = "write" /\ j.stage = "asset"
  /\ asset' = IF j.exists THEN [asset EXCEPT ![j.id] = j.name] ELSE Inserted(asset, j.id, j.name)
  /\ IF ~j.exists /\ j.id \in DOMAIN asset
       THEN Finish(p, "err", NoJob)
       ELSE Advance(p, [j EXCEPT !.asset = j.id])
  /\ UNCHANGED <<seq, iface, service, evidence, rel, counts>>

\* SaveInterface updates the address of a row that exists, not its asset.
WriteIface(p) ==
  LET j == job[p] IN
  /\ pc[p] = "write" /\ j.stage = "iface"
  /\ iface' = IF j.exists THEN [iface EXCEPT ![j.id].addr = j.addr]
              ELSE Inserted(iface, j.id, [asset |-> j.asset, addr |-> j.addr])
  /\ IF ~j.exists /\ j.id \in DOMAIN iface
       THEN Finish(p, "err", NoJob)
       ELSE Advance(p, [j EXCEPT !.entity = j.id])
  /\ UNCHANGED <<seq, asset, service, evidence, rel, counts>>

\* SaveService updates neither the asset nor the port of a row that exists;
\* its error is ignored.
WriteService(p) ==
  LET j == job[p] IN
  /\ pc[p] = "write" /\ j.stage = "service"
  /\ service' = Inserted(service, j.id, [asset |-> j.asset, port |-> j.port])
  /\ Advance(p, j)
  /\ UNCHANGED <<seq, asset, iface, evidence, rel, counts>>

WriteEvidence(p) ==
  LET j == job[p] IN
  /\ pc[p] = "write" /\ j.stage \in {"assetEv", "svcEv"}
  /\ evidence' = Inserted(evidence, j.id,
                          IF j.stage = "assetEv" THEN [kind |-> "asset", entity |-> j.asset]
                                                 ELSE [kind |-> "service", entity |-> j.entity])
  /\ Advance(p, j)
  /\ UNCHANGED <<seq, asset, iface, service, rel, counts>>

WriteRel(p) ==
  LET j == job[p] IN
  /\ pc[p] = "write" /\ j.stage \in {"hasIface", "evBy", "hosts"}
  /\ rel' = Inserted(rel, j.id,
                     IF j.stage = "evBy" THEN [type |-> "evBy", src |-> j.entity, dst |-> j.asset]
                                         ELSE [type |-> j.stage, src |-> j.asset, dst |-> j.entity])
  /\ Advance(p, j)
  /\ UNCHANGED <<seq, asset, iface, service, evidence, counts>>

----------------------------------------------------------------------------
(* Failures *)

\* A lookup fails: the call returns the error, except that the result of
\* filling in a hostname is ignored.
FaultLookup(p) ==
  /\ pc[p] \in {"findIface", "getAsset", "findAsset", "findSvc", "fillName"}
  /\ IF pc[p] = "fillName" THEN Enter(p, "assetEv", job[p]) ELSE Finish(p, "err", NoJob)

\* NextSequence fails: where its error is ignored the identifier is number 0.
FaultSequence(p) ==
  /\ pc[p] \in {"bump", "read"}
  /\ IF SeqChecked(job[p])
       THEN Finish(p, "err", NoJob)
       ELSE Continue(p, IF job[p].stage \in Saved THEN "check" ELSE "write",
                     [job[p] EXCEPT !.id = 0, !.exists = FALSE])

\* A Save method fails.
FaultSave(p) ==
  /\ pc[p] \in {"check", "write"}
  /\ IF Checked(job[p].stage) THEN Finish(p, "err", NoJob) ELSE Advance(p, job[p])

Fault(p) ==
  /\ faults < MaxFault
  /\ faults' = faults + 1
  /\ FaultLookup(p) \/ FaultSequence(p) \/ FaultSave(p)
  /\ UNCHANGED <<seq, tables, ingests, crashes>>

\* The process is killed and started again.
Crash(p) ==
  /\ pc[p] # "idle" /\ crashes < MaxCrash
  /\ crashes' = crashes + 1
  /\ Finish(p, "killed", NoJob)
  /\ UNCHANGED <<seq, tables, ingests, faults>>

Next == \E p \in Proc :
  \/ Begin(p) \/ FindIface(p) \/ GetAsset(p) \/ FillName(p) \/ FindAsset(p) \/ FindSvc(p)
  \/ Bump(p) \/ Read(p) \/ Check(p)
  \/ WriteAsset(p) \/ WriteIface(p) \/ WriteService(p) \/ WriteEvidence(p) \/ WriteRel(p)
  \/ Fault(p) \/ Crash(p)

Spec == Init /\ [][Next]_vars

----------------------------------------------------------------------------
(* Properties *)

\* No row carries an identifier its sequence has not reached, so the next
\* identifier a lone process obtains is free.  Holds for any number of
\* processes, crashes and faults.
RowsBelowSequence ==
  /\ \A a \in DOMAIN asset : a <= seq["asset"]
  /\ \A i \in DOMAIN iface : i <= seq["interface"]
  /\ \A s \in DOMAIN service : s <= seq["service"]
  /\ \A e \in DOMAIN evidence : e <= seq["evidence"]
  /\ \A r \in DOMAIN rel : r <= seq["relationship"]

\* The foreign keys of the interfaces and services tables hold, and asset
\* evidence names an asset that is stored, also when several processes
\* interleave, statements fail and processes die.
ReferencesResolve ==
  /\ \A i \in DOMAIN iface : iface[i].asset \in DOMAIN asset
  /\ \A s \in DOMAIN service : service[s].asset \in DOMAIN asset
  /\ \A e \in DOMAIN evidence :
       evidence[e].kind = "asset" => evidence[e].entity \in DOMAIN asset

\* An address belongs to one interface, hence to one asset, whatever fails: what
\* the lookup by address is there to ensure, though no column is declared UNIQUE.
OneInterfacePerAddress ==
  \A i, k \in DOMAIN iface : iface[i].addr = iface[k].addr => i = k

\* A port of an asset is one service.
OneServicePerEndpoint ==
  \A s, t \in DOMAIN service : service[s] = service[t] => s = t

\* Service evidence and "hosts" relationships name a stored service, and the
\* relationship starts at the asset that service belongs to; unless a statement
\* failed, since the error of saving a service is ignored.
ServiceLinksAgree == faults = 0 =>
  /\ \A e \in DOMAIN evidence :
       evidence[e].kind = "service" => evidence[e].entity \in DOMAIN service
  /\ \A r \in DOMAIN rel : rel[r].type = "hosts" =>
       /\ rel[r].dst \in DOMAIN service
       /\ service[rel[r].dst].asset = rel[r].src

\* What IngestHost reports done is in the database: the host is found by its
\* address, a hostname is not lost, and the asset and each service have
\* evidence of their own; unless a statement failed whose error is ignored.
Recorded(j) ==
  /\ j.addr # NoAddr => \E i \in DOMAIN iface : iface[i] = [asset |-> j.asset, addr |-> j.addr]
  /\ j.name # NoName => asset[j.asset] # NoName
  /\ [kind |-> "asset", entity |-> j.asset] \in {evidence[e] : e \in DOMAIN evidence}
  /\ \A port \in j.ports :
       \E s \in DOMAIN service :
         /\ service[s] = [asset |-> j.asset, port |-> port]
         /\ [kind |-> "service", entity |-> s] \in {evidence[e] : e \in DOMAIN evidence}
RecordedWhenDone ==
  faults = 0 => \A p \in Proc : pc[p] = "idle" /\ outcome[p] = "ok" => Recorded(job[p])
============================================================================
