-------------------------- MODULE HostIngestProofs --------------------------
(* Proofs about HostIngest and what is read from its tables (Intelligence and   *)
(* the graph of Knowledge), for every set of processes, addresses, hostnames,   *)
(* ports and networks and every number of calls, failing statements and kills:  *)
(* what holds however processes interleave, what one process alone ensures, and *)
(* what is then counted, cited and explained, and what the searches of Topology *)
(* find in the graph that is built from the tables.                             *)
EXTENDS Intelligence, TopologyProofs

----------------------------------------------------------------------------
(* Types *)

Label == {"idle", "findIface", "getAsset", "fillName", "findAsset", "findSvc",
          "bump", "read", "check", "write"}

Job == [addr : Addr \cup {NoAddr}, name : HostName \cup {NoName},
        ports : SUBSET Port, todo : SUBSET Port, stage : Stage, asset : Nat,
        newAsset : BOOLEAN, port : Port \cup {NoPort}, entity : Nat, id : Nat,
        exists : BOOLEAN]

IsTable(table, R) == DOMAIN table \subseteq Nat /\ table \in [DOMAIN table -> R]

IfaceRow == [asset : Nat, addr : Addr \cup {NoAddr}]
ServiceRow == [asset : Nat, port : Port \cup {NoPort}]
EvidenceRow == [kind : {"asset", "service"}, entity : Nat]
RelRow == [type : {"hasIface", "evBy", "hosts"}, src : Nat, dst : Nat]

LocalsOK == pc \in [Proc -> Label] /\ job \in [Proc -> Job]

TablesOK ==
  /\ seq \in [SeqName -> Nat]
  /\ IsTable(asset, HostName \cup {NoName})
  /\ IsTable(iface, IfaceRow)
  /\ IsTable(service, ServiceRow)
  /\ IsTable(evidence, EvidenceRow)
  /\ IsTable(rel, RelRow)

TypeOK == LocalsOK /\ TablesOK

\* p goes to a label with its locals set to j; the others stay where they are.
Moved(p, label, j) ==
  /\ pc' = [pc EXCEPT ![p] = label]
  /\ job' = [job EXCEPT ![p] = j]

\* Where the asset of a job is known.
Linked(label, j) ==
  \/ label \in {"getAsset", "fillName", "findSvc"}
  \/ label \in {"bump", "read", "check", "write"} /\ j.stage # "asset"

\* What a process relies on between its statements: the number it read is one
\* that its sequence has reached, the asset it refers to is stored, and so is
\* the asset it is about to update.
JobOK(label, j) ==
  /\ label \in {"check", "write"} => j.id <= seq[SequenceOf(j.stage)]
  /\ Linked(label, j) => j.asset \in DOMAIN asset
  /\ label = "write" /\ j.stage = "asset" /\ j.exists => j.id \in DOMAIN asset

Inv == /\ TypeOK /\ RowsBelowSequence /\ ReferencesResolve
       /\ \A p \in Proc : JobOK(pc[p], job[p])

----------------------------------------------------------------------------
(* Control *)

LEMMA ContinueMoves ==
  ASSUME NEW p, NEW label, NEW j, Continue(p, label, j) PROVE Moved(p, label, j)
  BY DEF Continue, Moved

LEMMA EnterMoves ==
  ASSUME NEW p, NEW s, NEW j, Enter(p, s, j)
  PROVE Moved(p, "bump", [j EXCEPT !.stage = s])
  BY DEF Enter, Continue, Moved

LEMMA FinishMoves ==
  ASSUME NEW p, NEW how, NEW j, Finish(p, how, j) PROVE Moved(p, "idle", j)
  BY DEF Finish, Moved

LEMMA MovedTypes ==
  ASSUME LocalsOK, NEW p \in Proc, NEW label \in Label, NEW j \in Job, Moved(p, label, j)
  PROVE  /\ LocalsOK'
         /\ pc'[p] = label /\ job'[p] = j
         /\ \A q \in Proc \ {p} : pc'[q] = pc[q] /\ job'[q] = job[q]
  BY DEF LocalsOK, Moved

LEMMA NoJobType == NoJob \in Job
  BY DEF NoJob, Job, Stage

LEMMA SequenceNames == \A s \in Stage : SequenceOf(s) \in SeqName
  BY DEF SequenceOf, Stage, SeqName

\* Two jobs of the same call, at the same asset and service.
SameCall(k, j) ==
  /\ k.addr = j.addr /\ k.name = j.name /\ k.ports = j.ports /\ k.todo = j.todo
  /\ k.asset = j.asset /\ k.port = j.port

\* Where a job goes after the row of its stage: with the same asset and address,
\* never back to the asset's row, to the interface's only from the asset's, and
\* out of the call only when no service is left.
Follows(label, k, j) ==
  /\ label \in {"bump", "findSvc", "idle"}
  /\ k \in Job /\ SameCall(k, j)
  /\ label = "bump" => /\ k.stage \notin {"asset", "service"}
                       /\ k.stage = "iface" => j.stage = "asset" /\ j.addr # NoAddr
                       /\ k.stage = "hasIface" => j.stage = "iface"
                       /\ k.stage = "assetEv" => \/ j.stage \in {"iface", "hasIface"}
                                                 \/ j.stage = "asset" /\ j.addr = NoAddr
                       /\ k.stage = "evBy" => j.stage = "assetEv"
                       /\ k.stage = "svcEv" => j.stage = "hosts"
                       /\ k.stage = "hosts" => j.stage = "service"
                       /\ k.entity = IF j.stage \in {"assetEv", "service"} THEN j.id ELSE j.entity
  /\ label # "bump" => j.stage \in {"evBy", "svcEv"} /\ (label = "idle" => j.todo = {})

LEMMA NextServiceFollows ==
  ASSUME NEW p, NEW j \in Job, NextService(p, j), j.stage \in {"evBy", "svcEv"}
  PROVE  \E label, k : Moved(p, label, k) /\ Follows(label, k, j)
<1>1. CASE j.todo = {}
  <2>1. Moved(p, "idle", j)
    BY <1>1, FinishMoves DEF NextService
  <2> QED BY <1>1, <2>1 DEF Follows, SameCall
<1>2. CASE j.todo # {}
  <2>1. Moved(p, "findSvc", j)
    BY <1>2, ContinueMoves DEF NextService
  <2> QED BY <1>2, <2>1 DEF Follows, SameCall
<1> QED BY <1>1, <1>2

LEMMA AdvanceFollows ==
  ASSUME NEW p, NEW j \in Job, Advance(p, j)
  PROVE  \E label, k : Moved(p, label, k) /\ Follows(label, k, j)
<1> DEFINE To(s) == [j EXCEPT !.stage = s]
           With(s) == [[j EXCEPT !.entity = j.id] EXCEPT !.stage = s]
<1>1. \A s \in Stage : To(s) \in Job /\ With(s) \in Job
  BY DEF Job
<1>2. \A s : /\ To(s).stage = s /\ SameCall(To(s), j) /\ To(s).entity = j.entity
             /\ With(s).stage = s /\ SameCall(With(s), j) /\ With(s).entity = j.id
  BY DEF Job, SameCall
<1> HIDE DEF To, With
<1>3. j.stage \in Stage /\ j.newAsset \in BOOLEAN
  BY DEF Job
<1>4. CASE j.stage = "asset" /\ j.addr # NoAddr
  <2>1. Moved(p, "bump", To("iface"))
    BY <1>4, EnterMoves DEF Advance, To
  <2>2. Follows("bump", To("iface"), j)
    BY <1>1, <1>2, <1>4 DEF Follows, Stage
  <2> QED BY <2>1, <2>2
<1>5. CASE j.stage = "asset" /\ j.addr = NoAddr
  <2>1. Moved(p, "bump", To("assetEv"))
    BY <1>5, EnterMoves DEF Advance, To
  <2>2. Follows("bump", To("assetEv"), j)
    BY <1>1, <1>2, <1>5 DEF Follows, Stage
  <2> QED BY <2>1, <2>2
<1>6. CASE j.stage = "iface" /\ j.newAsset
  <2>1. Moved(p, "bump", To("hasIface"))
    BY <1>6, EnterMoves DEF Advance, To
  <2>2. Follows("bump", To("hasIface"), j)
    BY <1>1, <1>2, <1>6 DEF Follows, Stage
  <2> QED BY <2>1, <2>2
<1>7. CASE j.stage = "iface" /\ ~j.newAsset
  <2>1. Moved(p, "bump", To("assetEv"))
    BY <1>7, EnterMoves DEF Advance, To
  <2>2. Follows("bump", To("assetEv"), j)
    BY <1>1, <1>2, <1>7 DEF Follows, Stage
  <2> QED BY <2>1, <2>2
<1>8. CASE j.stage = "hasIface"
  <2>1. Moved(p, "bump", To("assetEv"))
    BY <1>8, EnterMoves DEF Advance, To
  <2>2. Follows("bump", To("assetEv"), j)
    BY <1>1, <1>2, <1>8 DEF Follows, Stage
  <2> QED BY <2>1, <2>2
<1>9. CASE j.stage = "assetEv"
  <2>1. Moved(p, "bump", With("evBy"))
    BY <1>9, EnterMoves DEF Advance, With
  <2>2. Follows("bump", With("evBy"), j)
    BY <1>1, <1>2, <1>9 DEF Follows, Stage
  <2> QED BY <2>1, <2>2
<1>10. CASE j.stage = "service"
  <2>1. Moved(p, "bump", With("hosts"))
    BY <1>10, EnterMoves DEF Advance, With
  <2>2. Follows("bump", With("hosts"), j)
    BY <1>1, <1>2, <1>10 DEF Follows, Stage
  <2> QED BY <2>1, <2>2
<1>11. CASE j.stage = "hosts"
  <2>1. Moved(p, "bump", To("svcEv"))
    BY <1>11, EnterMoves DEF Advance, To
  <2>2. Follows("bump", To("svcEv"), j)
    BY <1>1, <1>2, <1>11 DEF Follows, Stage
  <2> QED BY <2>1, <2>2
<1>12. CASE j.stage \in {"evBy", "svcEv"}
  <2>1. NextService(p, j)
    BY <1>12 DEF Advance
  <2> QED BY <1>12, <2>1, NextServiceFollows
<1> QED
  BY <1>3, <1>4, <1>5, <1>6, <1>7, <1>8, <1>9, <1>10, <1>11, <1>12 DEF Stage

\* ResolveHost goes on without an asset.
Unlinked(label, k, j) ==
  /\ k \in Job /\ SameCall(k, j)
  /\ \/ label = "findAsset" /\ k = j
     \/ label = "bump" /\ k.stage = "asset"

LEMMA ResolveFollows ==
  ASSUME NEW p, NEW j \in Job, ResolveByName(p, j)
  PROVE  \E label, k : Moved(p, label, k) /\ Unlinked(label, k, j)
<1>1. CASE j.name # NoName
  <2>1. Moved(p, "findAsset", j)
    BY <1>1, ContinueMoves DEF ResolveByName
  <2> QED BY <2>1 DEF Unlinked, SameCall
<1>2. CASE j.name = NoName
  <2> DEFINE k == [[j EXCEPT !.newAsset = TRUE] EXCEPT !.stage = "asset"]
  <2>1. k \in Job /\ SameCall(k, j) /\ k.stage = "asset"
    BY DEF Job, Stage, SameCall
  <2>2. Moved(p, "bump", k)
    BY <1>2, EnterMoves DEF ResolveByName
  <2> HIDE DEF k
  <2>3. Unlinked("bump", k, j)
    BY <2>1 DEF Unlinked
  <2> QED BY <2>2, <2>3
<1> QED BY <1>1, <1>2

----------------------------------------------------------------------------
(* Tables *)

LEMMA InsertedTable ==
  ASSUME NEW R, NEW table, IsTable(table, R), NEW id \in Nat, NEW row \in R
  PROVE  /\ IsTable(Inserted(table, id, row), R)
         /\ DOMAIN Inserted(table, id, row) = DOMAIN table \cup {id}
         /\ \A i \in DOMAIN table : Inserted(table, id, row)[i] = table[i]
         /\ id \notin DOMAIN table => Inserted(table, id, row)[id] = row
  BY DEF Inserted, PutRow, IsTable

\* The tables only grow.
Grows == DOMAIN asset \subseteq DOMAIN asset' /\ \A n \in SeqName : seq[n] <= seq'[n]

\* A step of p that keeps the tables in order keeps the invariant, if p goes to a
\* label at which what it relies on holds.
LEMMA StepKeeps ==
  ASSUME Inv, NEW p \in Proc, NEW label \in Label, NEW j \in Job, Moved(p, label, j),
         TablesOK', RowsBelowSequence', ReferencesResolve', Grows, JobOK(label, j)'
  PROVE  Inv'
<1>1. /\ LocalsOK' /\ pc'[p] = label /\ job'[p] = j
      /\ \A q \in Proc \ {p} : pc'[q] = pc[q] /\ job'[q] = job[q]
  BY MovedTypes DEF Inv, TypeOK
<1>2. ASSUME NEW q \in Proc PROVE JobOK(pc[q], job[q])' 
  <2>1. CASE q = p
    BY <1>1, <2>1
  <2>2. CASE q # p
    <3>1. pc'[q] = pc[q] /\ job'[q] = job[q]
      BY <1>1, <2>2
    <3>2. job[q] \in Job /\ JobOK(pc[q], job[q])
      BY DEF Inv, TypeOK, LocalsOK
    <3>3. job[q].id \in Nat /\ SequenceOf(job[q].stage) \in SeqName
      BY <3>2, SequenceNames DEF Job
    <3>4. /\ seq[SequenceOf(job[q].stage)] \in Nat /\ seq'[SequenceOf(job[q].stage)] \in Nat
          /\ seq[SequenceOf(job[q].stage)] <= seq'[SequenceOf(job[q].stage)]
      BY <3>3 DEF Grows, Inv, TypeOK, TablesOK
    <3> QED BY <3>1, <3>2, <3>3, <3>4 DEF JobOK, Grows, Linked
  <2> QED BY <2>1, <2>2
<1> QED BY <1>1, <1>2 DEF Inv, TypeOK

LEMMA QuietKeeps ==
  ASSUME Inv, NEW p \in Proc, NEW label \in Label, NEW j \in Job, Moved(p, label, j),
         UNCHANGED <<seq, tables>>, JobOK(label, j)
  PROVE  Inv'
<1>1. TablesOK'
  BY DEF Inv, TypeOK, TablesOK, tables
<1>2. RowsBelowSequence' /\ ReferencesResolve'
  BY DEF Inv, RowsBelowSequence, ReferencesResolve, tables
<1>3. Grows
  BY DEF Grows, Inv, TypeOK, TablesOK, tables
<1>4. JobOK(label, j)'
  BY DEF JobOK, Linked, tables
<1> QED BY <1>1, <1>2, <1>3, <1>4, StepKeeps

\* The step ends with what follows the row of a stage.
LEMMA AdvanceKeeps ==
  ASSUME Inv, NEW p \in Proc, NEW j \in Job, Advance(p, j), j.asset \in DOMAIN asset',
         TablesOK', RowsBelowSequence', ReferencesResolve', Grows
  PROVE  Inv'
<1>1. PICK label, k : Moved(p, label, k) /\ Follows(label, k, j)
  BY AdvanceFollows
<1>2. label \in Label /\ k \in Job /\ JobOK(label, k)'
  BY <1>1 DEF Follows, SameCall, Label, JobOK, Linked
<1> QED BY <1>1, <1>2, StepKeeps

LEMMA FinishKeeps ==
  ASSUME Inv, NEW p \in Proc, NEW how, Finish(p, how, NoJob), TablesOK',
         RowsBelowSequence', ReferencesResolve', Grows
  PROVE  Inv'
<1>1. Moved(p, "idle", NoJob) /\ JobOK("idle", NoJob)'
  BY FinishMoves DEF JobOK, Linked
<1> QED BY <1>1, NoJobType, StepKeeps DEF Label

----------------------------------------------------------------------------
(* Every action keeps the invariant *)

LEMMA InitInv == Init => Inv
<1> SUFFICES ASSUME Init PROVE Inv
  OBVIOUS
<1>1. LocalsOK
  BY NoJobType DEF Init, LocalsOK, Label
<1>2. TablesOK /\ RowsBelowSequence /\ ReferencesResolve
  BY DEF Init, TablesOK, IsTable, RowsBelowSequence, ReferencesResolve
<1>3. \A p \in Proc : JobOK(pc[p], job[p])
  BY DEF Init, JobOK, Linked
<1> QED BY <1>1, <1>2, <1>3 DEF Inv, TypeOK

LEMMA JobHere ==
  ASSUME Inv, NEW p \in Proc PROVE job[p] \in Job /\ JobOK(pc[p], job[p])
  BY DEF Inv, TypeOK, LocalsOK

LEMMA UnlinkedKeeps ==
  ASSUME Inv, NEW p \in Proc, NEW j \in Job, ResolveByName(p, j), UNCHANGED <<seq, tables>>
  PROVE  Inv'
<1>1. PICK label, k : Moved(p, label, k) /\ Unlinked(label, k, j)
  BY ResolveFollows
<1>2. label \in Label /\ k \in Job /\ JobOK(label, k)
  BY <1>1 DEF Unlinked, Label, JobOK, Linked
<1> QED BY <1>1, <1>2, QuietKeeps

LEMMA BeginKeeps == ASSUME Inv, NEW p \in Proc, Begin(p) PROVE Inv'
<1>1. PICK a \in Addr \cup {NoAddr, BadAddr}, n \in HostName \cup {NoName}, ports \in SUBSET Port :
        LET j == [NoJob EXCEPT !.addr = a, !.name = n, !.ports = ports, !.todo = ports] IN
        CASE a = BadAddr -> Finish(p, "err", NoJob)
          [] a = NoAddr  -> ResolveByName(p, j)
          [] a \in Addr  -> Continue(p, "findIface", j)
  BY DEF Begin
<1> DEFINE j == [NoJob EXCEPT !.addr = a, !.name = n, !.ports = ports, !.todo = ports]
<1>2. UNCHANGED <<seq, tables>>
  BY DEF Begin
<1>3. a # BadAddr => j \in Job
  BY DEF Job, NoJob, Stage
<1>4. CASE a = BadAddr
  <2>1. Moved(p, "idle", NoJob)
    BY <1>1, <1>4, FinishMoves, IngestAssumption DEF IngestAssumption
  <2> QED BY <1>2, <2>1, NoJobType, QuietKeeps DEF Label, JobOK, Linked
<1>5. CASE a = NoAddr
  <2>1. ResolveByName(p, j)
    BY <1>1, <1>5, IngestAssumption DEF IngestAssumption
  <2> HIDE DEF j
  <2> QED BY <1>2, <1>3, <1>5, <2>1, UnlinkedKeeps, IngestAssumption DEF IngestAssumption
<1>6. CASE a \in Addr
  <2>1. Moved(p, "findIface", j)
    BY <1>1, <1>6, ContinueMoves, IngestAssumption DEF IngestAssumption
  <2> HIDE DEF j
  <2>2. j \in Job /\ JobOK("findIface", j)
    BY <1>3, <1>6, IngestAssumption DEF IngestAssumption, JobOK, Linked
  <2> QED BY <1>2, <2>1, <2>2, QuietKeeps DEF Label
<1> QED BY <1>4, <1>5, <1>6

LEMMA FindIfaceKeeps == ASSUME Inv, NEW p \in Proc, FindIface(p) PROVE Inv'
<1> DEFINE found == {i \in DOMAIN iface : iface[i].addr = job[p].addr}
<1>1. UNCHANGED <<seq, tables>> /\ job[p] \in Job
  BY JobHere DEF FindIface
<1>2. CASE found = {}
  <2>1. ResolveByName(p, job[p])
    BY <1>2 DEF FindIface
  <2> QED BY <1>1, <2>1, UnlinkedKeeps
<1>3. CASE found # {}
  <2>1. PICK i \in found : Continue(p, "getAsset", [job[p] EXCEPT !.asset = iface[i].asset])
    BY <1>3 DEF FindIface
  <2> DEFINE j == [job[p] EXCEPT !.asset = iface[i].asset]
  <2>2. iface[i].asset \in DOMAIN asset /\ iface[i].asset \in Nat
    BY DEF Inv, ReferencesResolve, TypeOK, TablesOK, IsTable, IfaceRow
  <2>3. j \in Job /\ j.asset = iface[i].asset
    BY <1>1, <2>2 DEF Job
  <2>4. Moved(p, "getAsset", j)
    BY <2>1, ContinueMoves
  <2> HIDE DEF j
  <2>5. JobOK("getAsset", j)
    BY <2>2, <2>3 DEF JobOK
  <2> QED BY <1>1, <2>3, <2>4, <2>5, QuietKeeps DEF Label
<1> QED BY <1>2, <1>3

LEMMA EnterLinked ==
  ASSUME NEW p, NEW s \in Stage \ {"asset"}, NEW j \in Job, j.asset \in DOMAIN asset,
         Enter(p, s, j)
  PROVE  \E k \in Job : Moved(p, "bump", k) /\ JobOK("bump", k)
                      /\ k.stage = s /\ SameCall(k, j) /\ k.entity = j.entity
<1> DEFINE k == [j EXCEPT !.stage = s]
<1>1. k \in Job /\ k.stage = s /\ SameCall(k, j) /\ k.entity = j.entity
  BY DEF Job, SameCall
<1>2. Moved(p, "bump", k)
  BY EnterMoves
<1> HIDE DEF k
<1> QED BY <1>1, <1>2 DEF JobOK, SameCall

LEMMA GetAssetKeeps == ASSUME Inv, NEW p \in Proc, GetAsset(p) PROVE Inv'
<1>1. UNCHANGED <<seq, tables>> /\ job[p] \in Job /\ job[p].asset \in DOMAIN asset
  BY JobHere DEF GetAsset, JobOK, Linked
<1>2. CASE Continue(p, "fillName", job[p])
  BY <1>1, <1>2, ContinueMoves, QuietKeeps DEF Label, JobOK
<1>3. CASE Enter(p, "assetEv", job[p])
  BY <1>1, <1>3, EnterLinked, QuietKeeps DEF Label, Stage
<1> QED BY <1>2, <1>3 DEF GetAsset

LEMMA FillNameKeeps == ASSUME Inv, NEW p \in Proc, FillName(p) PROVE Inv'
<1>1. job[p] \in Job /\ job[p].asset \in DOMAIN asset
  BY JobHere DEF FillName, JobOK, Linked
<1>2. PICK k \in Job : Moved(p, "bump", k) /\ JobOK("bump", k)
  BY <1>1, EnterLinked DEF FillName, Stage
<1>3. /\ asset' = [asset EXCEPT ![job[p].asset] = job[p].name] /\ DOMAIN asset' = DOMAIN asset
      /\ UNCHANGED <<seq, iface, service, evidence, rel>>
  BY DEF FillName
<1>4. TablesOK'
  <2>1. IsTable(asset, HostName \cup {NoName}) /\ job[p].name \in HostName \cup {NoName}
    BY <1>1 DEF Inv, TypeOK, TablesOK, Job
  <2>2. IsTable(asset', HostName \cup {NoName})
    BY <1>3, <2>1 DEF IsTable
  <2> QED BY <1>3, <2>2 DEF Inv, TypeOK, TablesOK
<1>5. RowsBelowSequence' /\ ReferencesResolve' /\ Grows
  BY <1>3 DEF Inv, RowsBelowSequence, ReferencesResolve, Grows, TypeOK, TablesOK
<1>6. JobOK("bump", k)'
  BY <1>2, <1>3 DEF JobOK, Linked
<1> QED BY <1>2, <1>4, <1>5, <1>6, StepKeeps DEF Label

LEMMA FindAssetKeeps == ASSUME Inv, NEW p \in Proc, FindAsset(p) PROVE Inv'
<1> DEFINE found == {a \in DOMAIN asset : asset[a] = job[p].name}
<1>1. UNCHANGED <<seq, tables>> /\ job[p] \in Job
  BY JobHere DEF FindAsset
<1>2. CASE found = {}
  <2> DEFINE j == [[job[p] EXCEPT !.newAsset = TRUE] EXCEPT !.stage = "asset"]
  <2>1. j \in Job /\ j.stage = "asset"
    BY <1>1 DEF Job, Stage
  <2>2. Moved(p, "bump", j)
    BY <1>2, EnterMoves DEF FindAsset
  <2> HIDE DEF j
  <2>3. JobOK("bump", j)
    BY <2>1 DEF JobOK, Linked
  <2> QED BY <1>1, <2>1, <2>2, <2>3, QuietKeeps DEF Label
<1>3. CASE found # {}
  <2> DEFINE s == IF job[p].addr # NoAddr THEN "iface" ELSE "assetEv"
  <2>1. PICK a \in found : Enter(p, s, [job[p] EXCEPT !.asset = a])
    BY <1>3 DEF FindAsset
  <2> DEFINE j == [job[p] EXCEPT !.asset = a]
  <2>2. a \in DOMAIN asset /\ a \in Nat
    BY DEF Inv, TypeOK, TablesOK, IsTable
  <2>3. j \in Job /\ j.asset = a
    BY <1>1, <2>2 DEF Job
  <2>4. s \in Stage \ {"asset"} /\ Enter(p, s, j)
    BY <2>1 DEF Stage
  <2> HIDE DEF j, s
  <2> QED BY <1>1, <2>2, <2>3, <2>4, EnterLinked, QuietKeeps DEF Label
<1> QED BY <1>2, <1>3

LEMMA FindSvcKeeps == ASSUME Inv, NEW p \in Proc, FindSvc(p) PROVE Inv'
<1>1. /\ UNCHANGED <<seq, tables>> /\ job[p] \in Job /\ job[p].asset \in DOMAIN asset
  BY JobHere DEF FindSvc, JobOK, Linked
<1> DEFINE At(port) == [job[p] EXCEPT !.todo = @ \ {port}, !.port = port]
           Found(port) == {s \in DOMAIN service : service[s] = [asset |-> At(port).asset, port |-> port]}
<1>2. PICK port \in job[p].todo :
        IF Found(port) = {} THEN Enter(p, "service", At(port))
        ELSE \E s \in Found(port) : Enter(p, "svcEv", [At(port) EXCEPT !.entity = s])
  BY DEF FindSvc
<1>3. At(port) \in Job /\ At(port).asset = job[p].asset
  BY <1>1 DEF Job
<1>4. CASE Found(port) = {}
  <2>1. Enter(p, "service", At(port))
    BY <1>2, <1>4
  <2> HIDE DEF At
  <2> QED BY <1>1, <1>3, <2>1, EnterLinked, QuietKeeps DEF Label, Stage
<1>5. CASE Found(port) # {}
  <2>1. PICK s \in Found(port) : Enter(p, "svcEv", [At(port) EXCEPT !.entity = s])
    BY <1>2, <1>5
  <2> DEFINE j == [At(port) EXCEPT !.entity = s]
  <2>2. s \in Nat
    BY DEF Inv, TypeOK, TablesOK, IsTable
  <2> HIDE DEF At
  <2>3. j \in Job /\ j.asset = job[p].asset
    BY <1>3, <2>2 DEF Job
  <2>4. Enter(p, "svcEv", j)
    BY <2>1
  <2> HIDE DEF j
  <2> QED BY <1>1, <2>3, <2>4, EnterLinked, QuietKeeps DEF Label, Stage
<1> QED BY <1>4, <1>5

LEMMA BumpKeeps == ASSUME Inv, NEW p \in Proc, Bump(p) PROVE Inv'
<1> DEFINE n == SequenceOf(job[p].stage)
<1>1. /\ job[p] \in Job
      /\ job[p].stage # "asset" => job[p].asset \in DOMAIN asset
      /\ n \in SeqName /\ Moved(p, "read", job[p])
  <2>1. job[p] \in Job /\ JobOK("bump", job[p])
    BY JobHere DEF Bump
  <2>2. Moved(p, "read", job[p])
    BY ContinueMoves DEF Bump
  <2> QED BY <2>1, <2>2, SequenceNames DEF Job, JobOK, Linked
<1>2. seq' = [seq EXCEPT ![n] = @ + 1] /\ UNCHANGED tables
  BY DEF Bump
<1>3. seq \in [SeqName -> Nat]
  BY DEF Inv, TypeOK, TablesOK
<1>4. seq' \in [SeqName -> Nat] /\ \A m \in SeqName : seq[m] <= seq'[m]
  BY <1>1, <1>2, <1>3
<1>5. TablesOK' /\ Grows
  BY <1>2, <1>4 DEF Inv, TypeOK, TablesOK, tables, Grows
<1>6. RowsBelowSequence'
  <2>1. \A m \in SeqName : seq[m] \in Nat /\ seq'[m] \in Nat
    BY <1>3, <1>4
  <2>2. {"asset", "interface", "service", "evidence", "relationship"} = SeqName
    BY DEF SeqName
  <2>3. /\ DOMAIN asset \subseteq Nat /\ DOMAIN iface \subseteq Nat /\ DOMAIN service \subseteq Nat
        /\ DOMAIN evidence \subseteq Nat /\ DOMAIN rel \subseteq Nat
    BY DEF Inv, TypeOK, TablesOK, IsTable
  <2> QED BY <1>2, <1>4, <2>1, <2>2, <2>3 DEF Inv, RowsBelowSequence, tables
<1> HIDE DEF n
<1>7. ReferencesResolve'
  BY <1>2 DEF Inv, ReferencesResolve, tables
<1>8. PICK j \in Job : j = job[p]
  BY <1>1
<1>9. Moved(p, "read", j) /\ "read" \in Label
  BY <1>1, <1>8 DEF Label
<1>10. JobOK("read", j)'
  BY <1>1, <1>2, <1>8 DEF tables, JobOK, Linked
<1> QED BY <1>5, <1>6, <1>7, <1>9, <1>10, StepKeeps

LEMMA ReadKeeps == ASSUME Inv, NEW p \in Proc, Read(p) PROVE Inv'
<1> DEFINE label == IF job[p].stage \in Saved THEN "check" ELSE "write"
           n == seq[SequenceOf(job[p].stage)]
           j == [job[p] EXCEPT !.id = n, !.exists = FALSE]
<1>1. /\ UNCHANGED <<seq, tables>> /\ job[p] \in Job /\ JobOK("read", job[p])
      /\ Moved(p, label, j)
  BY JobHere, ContinueMoves DEF Read
<1>2. n \in Nat
  BY <1>1, SequenceNames DEF Job, Inv, TypeOK, TablesOK
<1>3. /\ j \in Job /\ j.id = n /\ j.asset = job[p].asset /\ j.stage = job[p].stage
      /\ ~j.exists
  BY <1>1, <1>2 DEF Job
<1>4. label \in Label /\ label \in {"check", "write"}
  BY DEF Label
<1>5. j.id <= seq[SequenceOf(j.stage)]
  BY <1>2, <1>3
<1> HIDE DEF j, label, n
<1>6. JobOK(label, j)
  BY <1>1, <1>3, <1>4, <1>5 DEF JobOK, Linked
<1> QED BY <1>1, <1>3, <1>4, <1>6, QuietKeeps

LEMMA CheckKeeps == ASSUME Inv, NEW p \in Proc, Check(p) PROVE Inv'
<1>1. UNCHANGED <<seq, tables>> /\ job[p] \in Job /\ JobOK("check", job[p])
  BY JobHere DEF Check
<1> DEFINE table == CASE job[p].stage = "asset" -> asset
                      [] job[p].stage = "iface" -> iface
                      [] job[p].stage = "service" -> service
           b == job[p].id \in DOMAIN table
<1>2. b \in BOOLEAN /\ Moved(p, "write", [job[p] EXCEPT !.exists = b])
  <2>1. Continue(p, "write", [job[p] EXCEPT !.exists = b])
    BY DEF Check
  <2> HIDE DEF table
  <2> QED BY <2>1, ContinueMoves
<1>6. job[p].stage = "asset" /\ b => job[p].id \in DOMAIN asset
  OBVIOUS
<1> HIDE DEF b
<1> DEFINE j == [job[p] EXCEPT !.exists = b]
<1>3. /\ j \in Job /\ j.id = job[p].id /\ j.asset = job[p].asset /\ j.stage = job[p].stage
      /\ j.exists = b
  BY <1>1, <1>2 DEF Job
<1>4. Moved(p, "write", j)
  BY <1>2
<1> HIDE DEF j
<1>5. JobOK("write", j)
  BY <1>1, <1>3, <1>6 DEF JobOK, Linked
<1> QED BY <1>1, <1>3, <1>4, <1>5, QuietKeeps DEF Label

LEMMA Writing ==
  ASSUME Inv, NEW p \in Proc, pc[p] = "write"
  PROVE  /\ job[p] \in Job /\ job[p].id \in Nat /\ job[p].entity \in Nat
         /\ job[p].id <= seq[SequenceOf(job[p].stage)]
         /\ job[p].stage # "asset" => job[p].asset \in DOMAIN asset /\ job[p].asset \in Nat
         /\ job[p].stage = "asset" /\ job[p].exists => job[p].id \in DOMAIN asset
  BY JobHere DEF JobOK, Linked, Job

LEMMA WriteAssetKeeps == ASSUME Inv, NEW p \in Proc, WriteAsset(p) PROVE Inv'
<1> DEFINE j == job[p]
<1>1. /\ j \in Job /\ j.id \in Nat /\ j.name \in HostName \cup {NoName}
      /\ j.id <= seq["asset"] /\ (j.exists => j.id \in DOMAIN asset)
  BY Writing DEF WriteAsset, SequenceOf, Job
<1>2. /\ asset' = IF j.exists THEN [asset EXCEPT ![j.id] = j.name]
                               ELSE Inserted(asset, j.id, j.name)
      /\ UNCHANGED <<seq, iface, service, evidence, rel>>
  BY DEF WriteAsset
<1>3. IsTable(asset', HostName \cup {NoName}) /\ DOMAIN asset' = DOMAIN asset \cup {j.id}
  <2>1. IsTable(asset, HostName \cup {NoName})
    BY DEF Inv, TypeOK, TablesOK
  <2> HIDE DEF j
  <2>2. CASE j.exists
    BY <1>1, <1>2, <2>1, <2>2 DEF IsTable
  <2>3. CASE ~j.exists
    BY <1>1, <1>2, <2>1, <2>3, InsertedTable
  <2> QED BY <2>2, <2>3
<1>4. TablesOK'
  BY <1>2, <1>3 DEF Inv, TypeOK, TablesOK
<1>5. RowsBelowSequence' /\ ReferencesResolve'
  BY <1>1, <1>2, <1>3 DEF Inv, RowsBelowSequence, ReferencesResolve
<1>6. Grows
  BY <1>2, <1>3 DEF Grows, Inv, TypeOK, TablesOK
<1>7. CASE Finish(p, "err", NoJob)
  BY <1>4, <1>5, <1>6, <1>7, FinishKeeps
<1>8. CASE Advance(p, [j EXCEPT !.asset = j.id])
  <2> DEFINE k == [j EXCEPT !.asset = j.id]
  <2> HIDE DEF j
  <2>1. k \in Job /\ k.asset = j.id
    BY <1>1 DEF Job
  <2>2. Advance(p, k) /\ k.asset \in DOMAIN asset'
    BY <1>3, <1>8, <2>1
  <2> HIDE DEF k
  <2> QED BY <1>4, <1>5, <1>6, <2>1, <2>2, AdvanceKeeps
<1> QED BY <1>7, <1>8 DEF WriteAsset

LEMMA WriteIfaceKeeps == ASSUME Inv, NEW p \in Proc, WriteIface(p) PROVE Inv'
<1> DEFINE j == job[p]
           row == [asset |-> j.asset, addr |-> j.addr]
<1>1. /\ j \in Job /\ j.id \in Nat /\ j.id <= seq["interface"] /\ j.asset \in DOMAIN asset
      /\ j.asset \in Nat /\ j.addr \in Addr \cup {NoAddr}
  BY Writing DEF WriteIface, SequenceOf, Job
<1>2. /\ iface' = IF j.exists THEN [iface EXCEPT ![j.id].addr = j.addr]
                               ELSE Inserted(iface, j.id, row)
      /\ UNCHANGED <<seq, asset, service, evidence, rel>>
  BY DEF WriteIface
<1>3. row \in IfaceRow /\ row.asset = j.asset
  BY <1>1 DEF IfaceRow
<1>4. IsTable(iface, IfaceRow) /\ \A i \in DOMAIN iface : iface[i].asset \in DOMAIN asset
  BY DEF Inv, TypeOK, TablesOK, ReferencesResolve
<1>5. /\ IsTable(iface', IfaceRow) /\ DOMAIN iface' \subseteq DOMAIN iface \cup {j.id}
      /\ \A i \in DOMAIN iface' : iface'[i].asset \in DOMAIN asset
  <2> HIDE DEF j, row
  <2>1. CASE j.exists
    <3>1. \A i \in DOMAIN iface : [iface[i] EXCEPT !.addr = j.addr] \in IfaceRow
                                 /\ [iface[i] EXCEPT !.addr = j.addr].asset = iface[i].asset
      BY <1>1, <1>4 DEF IsTable, IfaceRow
    <3>2. /\ DOMAIN iface' = DOMAIN iface
          /\ \A i \in DOMAIN iface : iface'[i] = IF i = j.id THEN [iface[i] EXCEPT !.addr = j.addr]
                                                            ELSE iface[i]
      BY <1>2, <1>4, <2>1 DEF IsTable
    <3>3. iface' = [i \in DOMAIN iface |-> IF i = j.id THEN [iface[i] EXCEPT !.addr = j.addr]
                                                      ELSE iface[i]]
      BY <1>2, <1>4, <2>1 DEF IsTable
    <3>4. IsTable(iface', IfaceRow)
      BY <1>4, <3>1, <3>2, <3>3 DEF IsTable
    <3> QED BY <1>4, <3>1, <3>2, <3>4
  <2>2. CASE ~j.exists
    <3> DEFINE new == Inserted(iface, j.id, row)
    <3>1. iface' = new
      BY <1>2, <2>2
    <3>2. j.id \in Nat /\ row \in IfaceRow /\ IsTable(iface, IfaceRow)
      BY <1>1, <1>3, <1>4
    <3>3. /\ IsTable(new, IfaceRow) /\ DOMAIN new = DOMAIN iface \cup {j.id}
          /\ \A i \in DOMAIN iface : new[i] = iface[i]
          /\ j.id \notin DOMAIN iface => new[j.id] = row
      BY <3>2 DEF Inserted, PutRow, IsTable
    <3> HIDE DEF new
    <3> QED BY <1>1, <1>3, <1>4, <3>1, <3>3
  <2> QED BY <2>1, <2>2
<1>6. TablesOK'
  BY <1>2, <1>5 DEF Inv, TypeOK, TablesOK
<1>7. RowsBelowSequence' /\ ReferencesResolve'
  BY <1>1, <1>2, <1>5 DEF Inv, RowsBelowSequence, ReferencesResolve
<1>8. Grows
  BY <1>2 DEF Grows, Inv, TypeOK, TablesOK
<1>9. CASE Finish(p, "err", NoJob)
  BY <1>6, <1>7, <1>8, <1>9, FinishKeeps
<1>10. CASE Advance(p, [j EXCEPT !.entity = j.id])
  <2> DEFINE k == [j EXCEPT !.entity = j.id]
  <2> HIDE DEF j
  <2>1. k \in Job /\ k.asset = j.asset
    BY <1>1 DEF Job
  <2>2. Advance(p, k) /\ k.asset \in DOMAIN asset'
    BY <1>1, <1>2, <1>10, <2>1
  <2> HIDE DEF k
  <2> QED BY <1>6, <1>7, <1>8, <2>1, <2>2, AdvanceKeeps
<1> QED BY <1>9, <1>10 DEF WriteIface

LEMMA WriteServiceKeeps == ASSUME Inv, NEW p \in Proc, WriteService(p) PROVE Inv'
<1> DEFINE j == job[p]
           row == [asset |-> j.asset, port |-> j.port]
           new == Inserted(service, j.id, row)
<1>1. /\ j \in Job /\ j.id \in Nat /\ j.id <= seq["service"] /\ j.asset \in DOMAIN asset
      /\ j.asset \in Nat /\ j.port \in Port \cup {NoPort} /\ Advance(p, j)
  BY Writing DEF WriteService, SequenceOf, Job
<1>2. service' = new /\ UNCHANGED <<seq, asset, iface, evidence, rel>>
  BY DEF WriteService
<1>3. row \in ServiceRow /\ row.asset = j.asset
  BY <1>1 DEF ServiceRow
<1>4. IsTable(service, ServiceRow) /\ \A s \in DOMAIN service : service[s].asset \in DOMAIN asset
  BY DEF Inv, TypeOK, TablesOK, ReferencesResolve
<1> HIDE DEF j, row
<1>5. /\ IsTable(new, ServiceRow) /\ DOMAIN new = DOMAIN service \cup {j.id}
      /\ \A s \in DOMAIN service : new[s] = service[s]
      /\ j.id \notin DOMAIN service => new[j.id] = row
  BY <1>1, <1>3, <1>4 DEF Inserted, PutRow, IsTable
<1> HIDE DEF new
<1>6. \A s \in DOMAIN new : new[s].asset \in DOMAIN asset
  BY <1>1, <1>3, <1>4, <1>5
<1>7. TablesOK'
  BY <1>2, <1>5 DEF Inv, TypeOK, TablesOK
<1>8. RowsBelowSequence' /\ ReferencesResolve'
  BY <1>1, <1>2, <1>5, <1>6 DEF Inv, RowsBelowSequence, ReferencesResolve
<1>9. Grows
  BY <1>2 DEF Grows, Inv, TypeOK, TablesOK
<1> QED BY <1>1, <1>2, <1>7, <1>8, <1>9, AdvanceKeeps

LEMMA WriteEvidenceKeeps == ASSUME Inv, NEW p \in Proc, WriteEvidence(p) PROVE Inv'
<1> DEFINE j == job[p]
           row == IF j.stage = "assetEv" THEN [kind |-> "asset", entity |-> j.asset]
                                         ELSE [kind |-> "service", entity |-> j.entity]
           new == Inserted(evidence, j.id, row)
<1>1. /\ j \in Job /\ j.id \in Nat /\ j.id <= seq["evidence"] /\ j.asset \in DOMAIN asset
      /\ j.asset \in Nat /\ j.entity \in Nat /\ Advance(p, j)
  BY Writing DEF WriteEvidence, SequenceOf, Job
<1>2. evidence' = new /\ UNCHANGED <<seq, asset, iface, service, rel>>
  BY DEF WriteEvidence
<1>3. row \in EvidenceRow /\ (row.kind = "asset" => row.entity = j.asset)
  BY <1>1 DEF EvidenceRow
<1>4. /\ IsTable(evidence, EvidenceRow)
      /\ \A e \in DOMAIN evidence :
           evidence[e].kind = "asset" => evidence[e].entity \in DOMAIN asset
  BY DEF Inv, TypeOK, TablesOK, ReferencesResolve
<1> HIDE DEF j, row
<1>5. /\ IsTable(new, EvidenceRow) /\ DOMAIN new = DOMAIN evidence \cup {j.id}
      /\ \A e \in DOMAIN evidence : new[e] = evidence[e]
      /\ j.id \notin DOMAIN evidence => new[j.id] = row
  BY <1>1, <1>3, <1>4 DEF Inserted, PutRow, IsTable
<1> HIDE DEF new
<1>6. \A e \in DOMAIN new : new[e].kind = "asset" => new[e].entity \in DOMAIN asset
  BY <1>1, <1>3, <1>4, <1>5
<1>7. TablesOK'
  BY <1>2, <1>5 DEF Inv, TypeOK, TablesOK
<1>8. RowsBelowSequence' /\ ReferencesResolve'
  BY <1>1, <1>2, <1>5, <1>6 DEF Inv, RowsBelowSequence, ReferencesResolve
<1>9. Grows
  BY <1>2 DEF Grows, Inv, TypeOK, TablesOK
<1> QED BY <1>1, <1>2, <1>7, <1>8, <1>9, AdvanceKeeps

LEMMA WriteRelKeeps == ASSUME Inv, NEW p \in Proc, WriteRel(p) PROVE Inv'
<1> DEFINE j == job[p]
           row == IF j.stage = "evBy" THEN [type |-> "evBy", src |-> j.entity, dst |-> j.asset]
                                      ELSE [type |-> j.stage, src |-> j.asset, dst |-> j.entity]
           new == Inserted(rel, j.id, row)
<1>1. /\ j \in Job /\ j.id \in Nat /\ j.id <= seq["relationship"] /\ j.asset \in DOMAIN asset
      /\ j.asset \in Nat /\ j.entity \in Nat /\ Advance(p, j)
      /\ j.stage \in {"hasIface", "evBy", "hosts"}
  BY Writing DEF WriteRel, SequenceOf, Job
<1>2. rel' = new /\ UNCHANGED <<seq, asset, iface, service, evidence>>
  BY DEF WriteRel
<1>3. row \in RelRow
  BY <1>1 DEF RelRow
<1>4. IsTable(rel, RelRow)
  BY DEF Inv, TypeOK, TablesOK
<1> HIDE DEF j, row
<1>5. IsTable(new, RelRow) /\ DOMAIN new = DOMAIN rel \cup {j.id}
  BY <1>1, <1>3, <1>4 DEF Inserted, PutRow, IsTable
<1> HIDE DEF new
<1>6. TablesOK'
  BY <1>2, <1>5 DEF Inv, TypeOK, TablesOK
<1>7. RowsBelowSequence' /\ ReferencesResolve'
  BY <1>1, <1>2, <1>5 DEF Inv, RowsBelowSequence, ReferencesResolve
<1>8. Grows
  BY <1>2 DEF Grows, Inv, TypeOK, TablesOK
<1> QED BY <1>1, <1>2, <1>6, <1>7, <1>8, AdvanceKeeps

\* A step that leaves the tables alone.
LEMMA Idle ==
  ASSUME Inv, UNCHANGED <<seq, tables>>
  PROVE  /\ TablesOK' /\ RowsBelowSequence' /\ ReferencesResolve' /\ Grows
         /\ DOMAIN asset' = DOMAIN asset
<1>1. TablesOK' /\ Grows /\ DOMAIN asset' = DOMAIN asset
  BY DEF Inv, TypeOK, TablesOK, tables, Grows
<1>2. RowsBelowSequence' /\ ReferencesResolve'
  BY DEF Inv, RowsBelowSequence, ReferencesResolve, tables
<1> QED BY <1>1, <1>2

LEMMA ReturnKeeps ==
  ASSUME Inv, NEW p \in Proc, NEW how, Finish(p, how, NoJob), UNCHANGED <<seq, tables>>
  PROVE  Inv'
  BY Idle, FinishKeeps

LEMMA FaultLookupKeeps ==
  ASSUME Inv, NEW p \in Proc, FaultLookup(p), UNCHANGED <<seq, tables>> PROVE Inv'
<1>1. CASE pc[p] = "fillName"
  <2>1. job[p] \in Job /\ job[p].asset \in DOMAIN asset
    BY <1>1, JobHere DEF JobOK, Linked
  <2>2. Enter(p, "assetEv", job[p])
    BY <1>1 DEF FaultLookup
  <2> QED BY <2>1, <2>2, EnterLinked, QuietKeeps DEF Label, Stage
<1>2. CASE pc[p] # "fillName"
  BY <1>2, ReturnKeeps DEF FaultLookup
<1> QED BY <1>1, <1>2

LEMMA FaultSequenceKeeps ==
  ASSUME Inv, NEW p \in Proc, FaultSequence(p), UNCHANGED <<seq, tables>> PROVE Inv'
<1>1. CASE SeqChecked(job[p])
  BY <1>1, ReturnKeeps DEF FaultSequence
<1>2. CASE ~SeqChecked(job[p])
  <2> DEFINE label == IF job[p].stage \in Saved THEN "check" ELSE "write"
             j == [job[p] EXCEPT !.id = 0, !.exists = FALSE]
  <2>1. job[p] \in Job /\ JobOK(pc[p], job[p]) /\ pc[p] \in {"bump", "read"}
    BY JobHere DEF FaultSequence
  <2>2. job[p].stage # "asset" /\ job[p].asset \in DOMAIN asset
    BY <1>2, <2>1 DEF SeqChecked, JobOK, Linked
  <2>3. Moved(p, label, j)
    BY <1>2, ContinueMoves DEF FaultSequence
  <2>4. /\ j \in Job /\ j.id = 0 /\ j.asset = job[p].asset /\ j.stage = job[p].stage /\ ~j.exists
    BY <2>1 DEF Job
  <2>5. label \in Label
    BY DEF Label
  <2> HIDE DEF j, label
  <2>6. 0 <= seq[SequenceOf(j.stage)]
    BY <2>4, SequenceNames DEF Job, Inv, TypeOK, TablesOK
  <2>7. JobOK(label, j)
    BY <2>2, <2>4, <2>6 DEF JobOK, Linked
  <2> QED BY <2>3, <2>4, <2>5, <2>7, QuietKeeps
<1> QED BY <1>1, <1>2

LEMMA FaultSaveKeeps ==
  ASSUME Inv, NEW p \in Proc, FaultSave(p), UNCHANGED <<seq, tables>> PROVE Inv'
<1>1. CASE Checked(job[p].stage)
  BY <1>1, ReturnKeeps DEF FaultSave
<1>2. CASE ~Checked(job[p].stage)
  <2>1. job[p] \in Job /\ JobOK(pc[p], job[p]) /\ pc[p] \in {"check", "write"}
    BY JobHere DEF FaultSave
  <2>2. job[p].asset \in DOMAIN asset
    BY <1>2, <2>1 DEF Checked, JobOK, Linked
  <2>3. Advance(p, job[p])
    BY <1>2 DEF FaultSave
  <2>4. /\ job[p].asset \in DOMAIN asset' /\ TablesOK' /\ RowsBelowSequence'
        /\ ReferencesResolve' /\ Grows
    BY <2>2, Idle
  <2> QED BY <2>1, <2>3, <2>4, AdvanceKeeps
<1> QED BY <1>1, <1>2

LEMMA FaultKeeps == ASSUME Inv, NEW p \in Proc, Fault(p) PROVE Inv'
  BY FaultLookupKeeps, FaultSequenceKeeps, FaultSaveKeeps DEF Fault

LEMMA CrashKeeps == ASSUME Inv, NEW p \in Proc, Crash(p) PROVE Inv'
  BY ReturnKeeps DEF Crash

LEMMA NextInv == Inv /\ [Next]_vars => Inv'
<1> SUFFICES ASSUME Inv, [Next]_vars PROVE Inv'
  OBVIOUS
<1>1. CASE UNCHANGED vars
  <2>1. TypeOK'
    BY <1>1 DEF Inv, TypeOK, LocalsOK, TablesOK, vars, tables
  <2>2. RowsBelowSequence' /\ ReferencesResolve'
    BY <1>1, Idle DEF vars
  <2>3. \A p \in Proc : JobOK(pc[p], job[p])'
    BY <1>1 DEF Inv, vars, tables, JobOK, Linked
  <2> QED BY <2>1, <2>2, <2>3 DEF Inv
<1>2. CASE Next
  <2>1. PICK p \in Proc :
          \/ Begin(p) \/ FindIface(p) \/ GetAsset(p) \/ FillName(p) \/ FindAsset(p) \/ FindSvc(p)
          \/ Bump(p) \/ Read(p) \/ Check(p)
          \/ WriteAsset(p) \/ WriteIface(p) \/ WriteService(p) \/ WriteEvidence(p) \/ WriteRel(p)
          \/ Fault(p) \/ Crash(p)
    BY <1>2 DEF Next
  <2> QED BY <2>1, BeginKeeps, FindIfaceKeeps, GetAssetKeeps, FillNameKeeps, FindAssetKeeps,
             FindSvcKeeps, BumpKeeps, ReadKeeps, CheckKeeps, WriteAssetKeeps, WriteIfaceKeeps,
             WriteServiceKeeps, WriteEvidenceKeeps, WriteRelKeeps, FaultKeeps, CrashKeeps
<1> QED BY <1>1, <1>2

----------------------------------------------------------------------------
(* Theorems *)

\* Every state of any number of processes satisfies the invariant, whatever
\* statement fails and whichever process dies.
THEOREM InvCorrect == Spec => []Inv
  BY InitInv, NextInv, PTL DEF Spec

\* No row of the five tables is numbered past its sequence (IngestHost and
\* NextSequence), so the next number a lone process obtains is free.
THEOREM RowsBelowSequenceCorrect == Spec => []RowsBelowSequence
<1>1. Inv => RowsBelowSequence
  BY DEF Inv
<1> QED BY <1>1, InvCorrect, PTL

\* An interface, a service and a piece of asset evidence always name an asset
\* that is stored.
THEOREM ReferencesResolveCorrect == Spec => []ReferencesResolve
<1>1. Inv => ReferencesResolve
  BY DEF Inv
<1> QED BY <1>1, InvCorrect, PTL

----------------------------------------------------------------------------
(* With one process, the lookups that precede a write keep an address to one    *)
(* interface, an endpoint to one service, and the links between services, hosts *)
(* and evidence whole.  That rests on nobody else writing between a lookup and  *)
(* its write: with two processes it fails, as no column is declared UNIQUE.     *)

Alone == \A p, q \in Proc : p = q

\* p is on its way to write a row.
Writes(label) == label \in {"bump", "read", "check", "write"}

\* What its lookups have told the process and still holds.
SeenOK(label, j) ==
  /\ label = "findAsset" \/ (Writes(label) /\ j.stage \in {"asset", "iface"}) =>
       (j.addr # NoAddr => \A i \in DOMAIN iface : iface[i].addr # j.addr)
  /\ Writes(label) /\ j.stage = "iface" => j.addr # NoAddr
  /\ Writes(label) /\ j.stage = "service" =>
       \A s \in DOMAIN service : service[s] # [asset |-> j.asset, port |-> j.port]

\* The service a process is about to link, as long as no statement has failed,
\* and the number of the one it is about to insert.
LinkOK(label, j) == faults = 0 =>
  /\ Writes(label) /\ j.stage \in {"hosts", "svcEv"} =>
       j.entity \in DOMAIN service /\ (j.stage = "hosts" => service[j.entity].asset = j.asset)
  /\ label = "read" /\ j.stage = "service" => \A s \in DOMAIN service : s < seq["service"]
  /\ label \in {"check", "write"} /\ j.stage = "service" => j.id \notin DOMAIN service

LoneOK(label, j) == SeenOK(label, j) /\ LinkOK(label, j)

Good == OneInterfacePerAddress /\ OneServicePerEndpoint /\ ServiceLinksAgree /\ faults \in Nat

LoneInv == Inv /\ Good /\ \A p \in Proc : LoneOK(pc[p], job[p])

----------------------------------------------------------------------------
(* Steps *)

\* A step of the only process.
LEMMA LoneStep ==
  ASSUME Alone, LoneInv, NEW p \in Proc, NEW label \in Label, NEW j \in Job, Moved(p, label, j),
         Inv', Good', LoneOK(label, j)'
  PROVE  LoneInv'
<1>1. pc'[p] = label /\ job'[p] = j
  BY MovedTypes DEF LoneInv, Inv, TypeOK
<1>2. \A q \in Proc : LoneOK(pc[q], job[q])'
  BY <1>1 DEF Alone
<1> QED BY <1>2 DEF LoneInv

\* Nothing that the properties speak of changes.
LEMMA GoodStays ==
  ASSUME Good, UNCHANGED <<iface, service, evidence, rel, faults>>
  PROVE  Good'
  BY DEF Good, OneInterfacePerAddress, OneServicePerEndpoint, ServiceLinksAgree

LEMMA LoneQuiet ==
  ASSUME Alone, LoneInv, NEW p \in Proc, NEW label \in Label, NEW j \in Job, Moved(p, label, j),
         Inv', UNCHANGED <<seq, tables, faults>>, LoneOK(label, j)
  PROVE  LoneInv'
<1>1. UNCHANGED <<iface, service, evidence, rel, faults, seq>>
  BY DEF tables
<1>2. Good'
  BY <1>1, GoodStays DEF LoneInv
<1>3. LoneOK(label, j)'
  BY <1>1 DEF LoneOK, SeenOK, LinkOK
<1> QED BY <1>2, <1>3, LoneStep

LEMMA Here ==
  ASSUME LoneInv, NEW p \in Proc
  PROVE  job[p] \in Job /\ LoneOK(pc[p], job[p]) /\ JobOK(pc[p], job[p]) /\ Good
  BY JobHere DEF LoneInv

\* A process about to write a row other than these relies on nothing more.
Plain == {"hasIface", "assetEv", "evBy"}

LEMMA PlainOK == ASSUME NEW j, j.stage \in Plain PROVE LoneOK("bump", j)
  BY DEF LoneOK, SeenOK, LinkOK, Writes, Plain

LEMMA RestOK ==
  ASSUME NEW label \in {"idle", "findIface", "getAsset", "fillName", "findSvc"}, NEW j
  PROVE  LoneOK(label, j)
  BY DEF LoneOK, SeenOK, LinkOK, Writes

LEMMA BeginAlone == ASSUME Alone, LoneInv, NEW p \in Proc, Begin(p) PROVE LoneInv'
<1>1. PICK a \in Addr \cup {NoAddr, BadAddr}, n \in HostName \cup {NoName}, ports \in SUBSET Port :
        LET j == [NoJob EXCEPT !.addr = a, !.name = n, !.ports = ports, !.todo = ports] IN
        CASE a = BadAddr -> Finish(p, "err", NoJob)
          [] a = NoAddr  -> ResolveByName(p, j)
          [] a \in Addr  -> Continue(p, "findIface", j)
  BY DEF Begin
<1> DEFINE j == [NoJob EXCEPT !.addr = a, !.name = n, !.ports = ports, !.todo = ports]
<1>2. UNCHANGED <<seq, tables, faults>> /\ Inv'
  BY BeginKeeps DEF Begin, LoneInv
<1>3. a # BadAddr => j \in Job /\ j.addr = a
  BY DEF Job, NoJob, Stage
<1>4. CASE a = BadAddr
  <2>1. Moved(p, "idle", NoJob)
    BY <1>1, <1>4, FinishMoves, IngestAssumption DEF IngestAssumption
  <2> QED BY <1>2, <2>1, NoJobType, RestOK, LoneQuiet DEF Label
<1>5. CASE a = NoAddr
  <2>1. ResolveByName(p, j)
    BY <1>1, <1>5, IngestAssumption DEF IngestAssumption
  <2> HIDE DEF j
  <2>2. j \in Job /\ j.addr = NoAddr
    BY <1>3, <1>5, IngestAssumption DEF IngestAssumption
  <2>3. PICK label, k : Moved(p, label, k) /\ Unlinked(label, k, j)
    BY <2>1, <2>2, ResolveFollows
  <2>4. label \in Label /\ k \in Job /\ LoneOK(label, k)
    BY <2>2, <2>3 DEF Unlinked, SameCall, Label, LoneOK, SeenOK, LinkOK, Writes
  <2> QED BY <1>2, <2>3, <2>4, LoneQuiet
<1>6. CASE a \in Addr
  <2>1. Moved(p, "findIface", j)
    BY <1>1, <1>6, ContinueMoves, IngestAssumption DEF IngestAssumption
  <2> HIDE DEF j
  <2>2. j \in Job
    BY <1>3, <1>6, IngestAssumption DEF IngestAssumption
  <2> QED BY <1>2, <2>1, <2>2, RestOK, LoneQuiet DEF Label
<1> QED BY <1>4, <1>5, <1>6

LEMMA FindIfaceAlone == ASSUME Alone, LoneInv, NEW p \in Proc, FindIface(p) PROVE LoneInv'
<1> DEFINE found == {i \in DOMAIN iface : iface[i].addr = job[p].addr}
<1>1. UNCHANGED <<seq, tables, faults>> /\ job[p] \in Job /\ Inv'
  BY Here, FindIfaceKeeps DEF FindIface, counts, LoneInv
<1>2. CASE found = {}
  <2>1. ResolveByName(p, job[p])
    BY <1>2 DEF FindIface
  <2>2. PICK label, k : Moved(p, label, k) /\ Unlinked(label, k, job[p])
    BY <1>1, <2>1, ResolveFollows
  <2>3. label \in Label /\ k \in Job /\ LoneOK(label, k)
    BY <1>2, <2>2 DEF Unlinked, SameCall, Label, LoneOK, SeenOK, LinkOK, Writes
  <2> QED BY <1>1, <2>2, <2>3, LoneQuiet
<1>3. CASE found # {}
  <2>1. PICK i \in found : Continue(p, "getAsset", [job[p] EXCEPT !.asset = iface[i].asset])
    BY <1>3 DEF FindIface
  <2> DEFINE j == [job[p] EXCEPT !.asset = iface[i].asset]
  <2>2. iface[i].asset \in Nat
    BY DEF LoneInv, Inv, TypeOK, TablesOK, IsTable, IfaceRow
  <2>3. j \in Job
    BY <1>1, <2>2 DEF Job
  <2>4. Moved(p, "getAsset", j)
    BY <2>1, ContinueMoves
  <2> HIDE DEF j
  <2> QED BY <1>1, <2>3, <2>4, RestOK, LoneQuiet DEF Label
<1> QED BY <1>2, <1>3

LEMMA GetAssetAlone == ASSUME Alone, LoneInv, NEW p \in Proc, GetAsset(p) PROVE LoneInv'
<1>1. /\ UNCHANGED <<seq, tables, faults>> /\ job[p] \in Job /\ job[p].asset \in DOMAIN asset
      /\ Inv'
  BY Here, GetAssetKeeps DEF GetAsset, JobOK, Linked, counts, LoneInv
<1>2. CASE Continue(p, "fillName", job[p])
  BY <1>1, <1>2, ContinueMoves, RestOK, LoneQuiet DEF Label
<1>3. CASE Enter(p, "assetEv", job[p])
  <2>1. PICK k \in Job : Moved(p, "bump", k) /\ k.stage = "assetEv"
    BY <1>1, <1>3, EnterLinked DEF Stage
  <2> QED BY <1>1, <2>1, PlainOK, LoneQuiet DEF Label, Plain
<1> QED BY <1>2, <1>3 DEF GetAsset

LEMMA FillNameAlone == ASSUME Alone, LoneInv, NEW p \in Proc, FillName(p) PROVE LoneInv'
<1>1. job[p] \in Job /\ job[p].asset \in DOMAIN asset /\ Inv'
  BY Here, FillNameKeeps DEF FillName, JobOK, Linked, LoneInv
<1>2. PICK k \in Job : Moved(p, "bump", k) /\ k.stage = "assetEv"
  BY <1>1, EnterLinked DEF FillName, Stage
<1>3. UNCHANGED <<iface, service, evidence, rel, faults>>
  BY DEF FillName, counts
<1>4. Good'
  BY <1>3, GoodStays DEF LoneInv
<1>5. LoneOK("bump", k)'
  BY <1>2 DEF LoneOK, SeenOK, LinkOK, Writes
<1> QED BY <1>1, <1>2, <1>4, <1>5, LoneStep DEF Label

LEMMA FindAssetAlone == ASSUME Alone, LoneInv, NEW p \in Proc, FindAsset(p) PROVE LoneInv'
<1> DEFINE found == {a \in DOMAIN asset : asset[a] = job[p].name}
<1>1. /\ UNCHANGED <<seq, tables, faults>> /\ job[p] \in Job /\ Inv'
      /\ job[p].addr # NoAddr => \A i \in DOMAIN iface : iface[i].addr # job[p].addr
  BY Here, FindAssetKeeps DEF FindAsset, counts, LoneInv, LoneOK, SeenOK
<1>2. CASE found = {}
  <2> DEFINE j == [[job[p] EXCEPT !.newAsset = TRUE] EXCEPT !.stage = "asset"]
  <2>1. j \in Job /\ j.stage = "asset" /\ j.addr = job[p].addr
    BY <1>1 DEF Job, Stage
  <2>2. Moved(p, "bump", j)
    BY <1>2, EnterMoves DEF FindAsset
  <2> HIDE DEF j
  <2>3. LoneOK("bump", j)
    BY <1>1, <2>1 DEF LoneOK, SeenOK, LinkOK, Writes
  <2> QED BY <1>1, <2>1, <2>2, <2>3, LoneQuiet DEF Label
<1>3. CASE found # {}
  <2> DEFINE s == IF job[p].addr # NoAddr THEN "iface" ELSE "assetEv"
  <2>1. PICK a \in found : Enter(p, s, [job[p] EXCEPT !.asset = a])
    BY <1>3 DEF FindAsset
  <2> DEFINE j == [job[p] EXCEPT !.asset = a]
  <2>2. a \in DOMAIN asset /\ a \in Nat
    BY DEF LoneInv, Inv, TypeOK, TablesOK, IsTable
  <2>3. j \in Job /\ j.asset = a /\ j.addr = job[p].addr
    BY <1>1, <2>2 DEF Job
  <2>4. s \in Stage \ {"asset"} /\ Enter(p, s, j) /\ (s = "iface" => job[p].addr # NoAddr)
        /\ s \in {"iface", "assetEv"}
    BY <2>1 DEF Stage
  <2> HIDE DEF j, s
  <2>5. PICK k \in Job : Moved(p, "bump", k) /\ k.stage = s /\ k.addr = j.addr
    BY <2>2, <2>3, <2>4, EnterLinked DEF SameCall
  <2>6. LoneOK("bump", k)
    BY <1>1, <2>3, <2>4, <2>5 DEF LoneOK, SeenOK, LinkOK, Writes
  <2> QED BY <1>1, <2>5, <2>6, LoneQuiet DEF Label
<1> QED BY <1>2, <1>3

LEMMA FindSvcAlone == ASSUME Alone, LoneInv, NEW p \in Proc, FindSvc(p) PROVE LoneInv'
<1>1. /\ UNCHANGED <<seq, tables, faults>> /\ job[p] \in Job /\ job[p].asset \in DOMAIN asset
      /\ Inv'
  BY Here, FindSvcKeeps DEF FindSvc, JobOK, Linked, counts, LoneInv
<1> DEFINE At(port) == [job[p] EXCEPT !.todo = @ \ {port}, !.port = port]
           Found(port) == {s \in DOMAIN service : service[s] = [asset |-> At(port).asset, port |-> port]}
<1>2. PICK port \in job[p].todo :
        IF Found(port) = {} THEN Enter(p, "service", At(port))
        ELSE \E s \in Found(port) : Enter(p, "svcEv", [At(port) EXCEPT !.entity = s])
  BY DEF FindSvc
<1>3. At(port) \in Job /\ At(port).asset = job[p].asset /\ At(port).port = port
  BY <1>1 DEF Job
<1>4. CASE Found(port) = {}
  <2>1. Enter(p, "service", At(port))
    BY <1>2, <1>4
  <2>2. \A s \in DOMAIN service : service[s] # [asset |-> At(port).asset, port |-> port]
    BY <1>4
  <2> HIDE DEF At
  <2>3. PICK k \in Job : /\ Moved(p, "bump", k) /\ k.stage = "service"
                         /\ k.asset = At(port).asset /\ k.port = port
    BY <1>1, <1>3, <2>1, EnterLinked DEF Stage, SameCall
  <2>4. LoneOK("bump", k)
    BY <2>2, <2>3 DEF LoneOK, SeenOK, LinkOK, Writes
  <2> QED BY <1>1, <2>3, <2>4, LoneQuiet DEF Label
<1>5. CASE Found(port) # {}
  <2>1. PICK s \in Found(port) : Enter(p, "svcEv", [At(port) EXCEPT !.entity = s])
    BY <1>2, <1>5
  <2> DEFINE j == [At(port) EXCEPT !.entity = s]
  <2>2. s \in Nat /\ s \in DOMAIN service
    BY DEF LoneInv, Inv, TypeOK, TablesOK, IsTable
  <2> HIDE DEF At
  <2>3. j \in Job /\ j.asset = job[p].asset /\ j.entity = s
    BY <1>3, <2>2 DEF Job
  <2>4. Enter(p, "svcEv", j)
    BY <2>1
  <2> HIDE DEF j
  <2>5. PICK k \in Job : Moved(p, "bump", k) /\ k.stage = "svcEv" /\ k.entity = s
    BY <1>1, <2>3, <2>4, EnterLinked DEF Stage
  <2>6. LoneOK("bump", k)
    BY <2>2, <2>5 DEF LoneOK, SeenOK, LinkOK, Writes
  <2> QED BY <1>1, <2>5, <2>6, LoneQuiet DEF Label
<1> QED BY <1>4, <1>5

----------------------------------------------------------------------------
(* Naming and writing a row *)

LEMMA BumpAlone == ASSUME Alone, LoneInv, NEW p \in Proc, Bump(p) PROVE LoneInv'
<1>1. job[p] \in Job /\ LoneOK("bump", job[p]) /\ Inv' /\ Moved(p, "read", job[p])
  BY Here, BumpKeeps, ContinueMoves DEF Bump, LoneInv
<1>2. PICK j \in Job : j = job[p]
  BY <1>1
<1>3. UNCHANGED <<asset, iface, service, evidence, rel, faults>>
  BY DEF Bump, tables, counts
<1>4. j.stage = "service" => \A s \in DOMAIN service : s < seq'["service"]
  <2> SUFFICES ASSUME j.stage = "service", NEW s \in DOMAIN service PROVE s < seq'["service"]
    OBVIOUS
  <2>1. seq["service"] \in Nat /\ s \in Nat /\ s <= seq["service"] /\ "service" \in SeqName
    BY DEF LoneInv, Inv, TypeOK, TablesOK, IsTable, RowsBelowSequence, SeqName
  <2>2. seq' = [seq EXCEPT !["service"] = @ + 1] /\ seq \in [SeqName -> Nat]
    BY <1>2 DEF Bump, SequenceOf, LoneInv, Inv, TypeOK, TablesOK
  <2> QED BY <2>1, <2>2
<1>5. LoneOK("read", j)'
  <2>1. SeenOK("bump", j) /\ LinkOK("bump", j)
    BY <1>1, <1>2 DEF LoneOK
  <2>2. SeenOK("read", j)'
    BY <1>3, <2>1 DEF SeenOK, Writes
  <2>3. LinkOK("read", j)'
    BY <1>3, <1>4, <2>1 DEF LinkOK, Writes
  <2> QED BY <2>2, <2>3 DEF LoneOK
<1>6. Good'
  BY <1>3, GoodStays DEF LoneInv
<1> QED BY <1>1, <1>2, <1>5, <1>6, LoneStep DEF Label

LEMMA ReadAlone == ASSUME Alone, LoneInv, NEW p \in Proc, Read(p) PROVE LoneInv'
<1> DEFINE label == IF job[p].stage \in Saved THEN "check" ELSE "write"
           n == seq[SequenceOf(job[p].stage)]
           j == [job[p] EXCEPT !.id = n, !.exists = FALSE]
<1>1. /\ UNCHANGED <<seq, tables, faults>> /\ job[p] \in Job /\ LoneOK("read", job[p])
      /\ Moved(p, label, j) /\ Inv'
  BY Here, ReadKeeps, ContinueMoves DEF Read, counts, LoneInv
<1>2. n \in Nat
  BY <1>1, SequenceNames DEF Job, LoneInv, Inv, TypeOK, TablesOK
<1>3. /\ j \in Job /\ j.id = n /\ j.asset = job[p].asset /\ j.stage = job[p].stage
      /\ j.addr = job[p].addr /\ j.port = job[p].port /\ j.entity = job[p].entity
  BY <1>1, <1>2 DEF Job
<1>4. label \in {"check", "write"}
  OBVIOUS
<1>5. job[p].stage = "service" => n = seq["service"] /\ DOMAIN service \subseteq Nat
  BY DEF SequenceOf, LoneInv, Inv, TypeOK, TablesOK, IsTable
<1> HIDE DEF j, label, n
<1>6. SeenOK(label, j)
  BY <1>1, <1>3, <1>4 DEF LoneOK, SeenOK, Writes
<1>7. LinkOK(label, j)
  BY <1>1, <1>2, <1>3, <1>4, <1>5 DEF LoneOK, LinkOK, Writes
<1>8. label \in Label /\ LoneOK(label, j)
  BY <1>4, <1>6, <1>7 DEF Label, LoneOK
<1> QED BY <1>1, <1>3, <1>8, LoneQuiet

LEMMA CheckAlone == ASSUME Alone, LoneInv, NEW p \in Proc, Check(p) PROVE LoneInv'
<1>1. /\ UNCHANGED <<seq, tables, faults>> /\ job[p] \in Job /\ LoneOK("check", job[p])
      /\ Inv'
  BY Here, CheckKeeps DEF Check, counts, LoneInv
<1> DEFINE table == CASE job[p].stage = "asset" -> asset
                      [] job[p].stage = "iface" -> iface
                      [] job[p].stage = "service" -> service
           b == job[p].id \in DOMAIN table
<1>2. b \in BOOLEAN /\ Moved(p, "write", [job[p] EXCEPT !.exists = b])
  <2>1. Continue(p, "write", [job[p] EXCEPT !.exists = b])
    BY DEF Check
  <2> HIDE DEF table
  <2> QED BY <2>1, ContinueMoves
<1> HIDE DEF b
<1> DEFINE j == [job[p] EXCEPT !.exists = b]
<1>3. /\ j \in Job /\ j.id = job[p].id /\ j.asset = job[p].asset /\ j.stage = job[p].stage
      /\ j.addr = job[p].addr /\ j.port = job[p].port /\ j.entity = job[p].entity
  BY <1>1, <1>2 DEF Job
<1>4. Moved(p, "write", j)
  BY <1>2
<1> HIDE DEF j
<1>5. LoneOK("write", j)
  <2>1. SeenOK("write", j)
    BY <1>1, <1>3 DEF LoneOK, SeenOK, Writes
  <2>2. LinkOK("write", j)
    BY <1>1, <1>3 DEF LoneOK, LinkOK, Writes
  <2> QED BY <2>1, <2>2 DEF LoneOK
<1> QED BY <1>1, <1>3, <1>4, <1>5, LoneQuiet DEF Label

\* What follows a row relies on what its stage has established: no interface
\* has the address after the asset's row, and the service is stored after the
\* service's.
LEMMA AdvanceAlone ==
  ASSUME Alone, LoneInv, NEW p \in Proc, NEW j \in Job, Advance(p, j), Inv', Good',
         (j.stage = "asset" /\ j.addr # NoAddr => \A i \in DOMAIN iface' : iface'[i].addr # j.addr),
         (faults' = 0 =>
            /\ j.stage = "service" => j.id \in DOMAIN service' /\ service'[j.id].asset = j.asset
            /\ j.stage = "hosts" => j.entity \in DOMAIN service')
  PROVE  LoneInv'
<1>1. PICK label, k : Moved(p, label, k) /\ Follows(label, k, j)
  BY AdvanceFollows
<1>2. label \in Label /\ k \in Job
  BY <1>1 DEF Follows, Label
<1>3. label = "bump" =>
        /\ k.stage \notin {"asset", "service"}
        /\ k.stage = "iface" => /\ k.addr # NoAddr
                               /\ \A i \in DOMAIN iface' : iface'[i].addr # k.addr
        /\ faults' = 0 /\ k.stage = "hosts" =>
             k.entity \in DOMAIN service' /\ service'[k.entity].asset = k.asset
        /\ faults' = 0 /\ k.stage = "svcEv" => k.entity \in DOMAIN service'
  BY <1>1 DEF Follows, SameCall
<1>4. SeenOK(label, k)'
  BY <1>1, <1>3 DEF SeenOK, Writes, Follows
<1>5. LinkOK(label, k)'
  BY <1>1, <1>3 DEF LinkOK, Writes, Follows
<1> QED BY <1>1, <1>2, <1>4, <1>5, LoneStep DEF LoneOK

LEMMA FinishAlone ==
  ASSUME Alone, LoneInv, NEW p \in Proc, NEW how, Finish(p, how, NoJob), Inv', Good'
  PROVE  LoneInv'
<1>1. Moved(p, "idle", NoJob) /\ LoneOK("idle", NoJob)'
  BY FinishMoves DEF LoneOK, SeenOK, LinkOK, Writes
<1> QED BY <1>1, NoJobType, LoneStep DEF Label

LEMMA WriteAssetAlone == ASSUME Alone, LoneInv, NEW p \in Proc, WriteAsset(p) PROVE LoneInv'
<1> DEFINE j == job[p]
<1>1. /\ j \in Job /\ j.id \in Nat /\ j.stage = "asset" /\ Inv'
      /\ j.addr # NoAddr => \A i \in DOMAIN iface : iface[i].addr # j.addr
  BY Here, WriteAssetKeeps DEF WriteAsset, LoneInv, LoneOK, SeenOK, Writes, Job
<1>2. UNCHANGED <<iface, service, evidence, rel, faults>>
  BY DEF WriteAsset, counts
<1>3. Good'
  BY <1>2, GoodStays DEF LoneInv
<1>4. CASE Finish(p, "err", NoJob)
  BY <1>1, <1>3, <1>4, FinishAlone
<1>5. CASE Advance(p, [j EXCEPT !.asset = j.id])
  <2> DEFINE k == [j EXCEPT !.asset = j.id]
  <2> HIDE DEF j
  <2>1. k \in Job /\ k.stage = j.stage /\ k.addr = j.addr
    BY <1>1 DEF Job
  <2>2. Advance(p, k)
    BY <1>5
  <2> HIDE DEF k
  <2>3. /\ k.stage = "asset"
        /\ k.addr # NoAddr => \A i \in DOMAIN iface' : iface'[i].addr # k.addr
    BY <1>1, <1>2, <2>1
  <2> QED BY <1>1, <1>3, <2>1, <2>2, <2>3, AdvanceAlone
<1> QED BY <1>4, <1>5 DEF WriteAsset

LEMMA WriteIfaceAlone == ASSUME Alone, LoneInv, NEW p \in Proc, WriteIface(p) PROVE LoneInv'
<1> DEFINE j == job[p]
           row == [asset |-> j.asset, addr |-> j.addr]
<1>1. /\ j \in Job /\ j.id \in Nat /\ j.stage = "iface" /\ Inv'
      /\ \A i \in DOMAIN iface : iface[i].addr # j.addr
  BY Here, WriteIfaceKeeps DEF WriteIface, LoneInv, LoneOK, SeenOK, Writes, Job
<1>2. iface' = IF j.exists THEN [iface EXCEPT ![j.id].addr = j.addr]
                           ELSE Inserted(iface, j.id, row)
  BY DEF WriteIface
<1>3. UNCHANGED <<service, evidence, rel, faults>>
  BY DEF WriteIface, counts
<1>4. IsTable(iface, IfaceRow) /\ OneInterfacePerAddress
  BY DEF LoneInv, Inv, TypeOK, TablesOK, Good
<1>5. OneInterfacePerAddress'
  <2> HIDE DEF j
  <2>1. CASE j.exists
    <3>1. \A i \in DOMAIN iface : [iface[i] EXCEPT !.addr = j.addr].addr = j.addr
      BY <1>4 DEF IsTable, IfaceRow
    <3>2. /\ DOMAIN iface' = DOMAIN iface
          /\ \A i \in DOMAIN iface : iface'[i] = IF i = j.id THEN [iface[i] EXCEPT !.addr = j.addr]
                                                            ELSE iface[i]
      BY <1>2, <1>4, <2>1 DEF IsTable
    <3>3. \A i \in DOMAIN iface :
            iface'[i].addr = IF i = j.id THEN j.addr ELSE iface[i].addr
      BY <3>1, <3>2
    <3> QED BY <1>1, <1>4, <3>2, <3>3 DEF OneInterfacePerAddress
  <2>2. CASE ~j.exists
    <3> DEFINE new == Inserted(iface, j.id, row)
    <3>1. iface' = new /\ row.addr = j.addr
      BY <1>2, <2>2
    <3> HIDE DEF row
    <3>2. /\ DOMAIN new = DOMAIN iface \cup {j.id}
          /\ \A i \in DOMAIN iface : new[i] = iface[i]
          /\ j.id \notin DOMAIN iface => new[j.id] = row
      BY <1>1, <1>4 DEF Inserted, PutRow, IsTable
    <3> HIDE DEF new
    <3> QED BY <1>1, <1>4, <3>1, <3>2 DEF OneInterfacePerAddress
  <2> QED BY <2>1, <2>2
<1>6. Good'
  BY <1>3, <1>5 DEF LoneInv, Good, OneServicePerEndpoint, ServiceLinksAgree
<1>7. CASE Finish(p, "err", NoJob)
  BY <1>1, <1>6, <1>7, FinishAlone
<1>8. CASE Advance(p, [j EXCEPT !.entity = j.id])
  <2> DEFINE k == [j EXCEPT !.entity = j.id]
  <2> HIDE DEF j
  <2>1. k \in Job /\ k.stage = j.stage
    BY <1>1 DEF Job
  <2>2. Advance(p, k)
    BY <1>8
  <2> HIDE DEF k
  <2> QED BY <1>1, <1>6, <2>1, <2>2, AdvanceAlone
<1> QED BY <1>7, <1>8 DEF WriteIface

LEMMA WriteServiceAlone == ASSUME Alone, LoneInv, NEW p \in Proc, WriteService(p) PROVE LoneInv'
<1> DEFINE j == job[p]
           row == [asset |-> j.asset, port |-> j.port]
           new == Inserted(service, j.id, row)
<1>1. /\ j \in Job /\ j.id \in Nat /\ j.stage = "service" /\ Inv' /\ Advance(p, j)
      /\ \A s \in DOMAIN service : service[s] # row
      /\ faults = 0 => j.id \notin DOMAIN service
  BY Here, WriteServiceKeeps DEF WriteService, LoneInv, LoneOK, SeenOK, LinkOK, Writes, Job
<1>2. service' = new /\ UNCHANGED <<iface, evidence, rel, faults>>
  BY DEF WriteService, counts
<1>3. IsTable(service, ServiceRow) /\ Good /\ row.asset = j.asset
  BY DEF LoneInv, Inv, TypeOK, TablesOK
<1> HIDE DEF j, row
<1>4. /\ DOMAIN new = DOMAIN service \cup {j.id}
      /\ \A s \in DOMAIN service : new[s] = service[s]
      /\ j.id \notin DOMAIN service => new[j.id] = row
  BY <1>1, <1>3 DEF Inserted, PutRow, IsTable
<1> HIDE DEF new
<1>5. OneServicePerEndpoint'
  BY <1>1, <1>2, <1>3, <1>4 DEF Good, OneServicePerEndpoint
<1>6. ServiceLinksAgree'
  BY <1>2, <1>3, <1>4 DEF Good, ServiceLinksAgree
<1>7. Good'
  BY <1>2, <1>3, <1>5, <1>6 DEF Good, OneInterfacePerAddress
<1>8. faults' = 0 => j.id \in DOMAIN service' /\ service'[j.id].asset = j.asset
  BY <1>1, <1>2, <1>3, <1>4
<1> QED BY <1>1, <1>7, <1>8, AdvanceAlone

LEMMA WriteEvidenceAlone == ASSUME Alone, LoneInv, NEW p \in Proc, WriteEvidence(p) PROVE LoneInv'
<1> DEFINE j == job[p]
           row == IF j.stage = "assetEv" THEN [kind |-> "asset", entity |-> j.asset]
                                         ELSE [kind |-> "service", entity |-> j.entity]
           new == Inserted(evidence, j.id, row)
<1>1. /\ j \in Job /\ j.id \in Nat /\ j.stage \in {"assetEv", "svcEv"} /\ Inv' /\ Advance(p, j)
      /\ faults = 0 /\ j.stage = "svcEv" => j.entity \in DOMAIN service
  BY Here, WriteEvidenceKeeps DEF WriteEvidence, LoneInv, LoneOK, LinkOK, Writes, Job
<1>2. evidence' = new /\ UNCHANGED <<iface, service, rel, faults>>
  BY DEF WriteEvidence, counts
<1>3. IsTable(evidence, EvidenceRow) /\ Good
  BY DEF LoneInv, Inv, TypeOK, TablesOK
<1>4. row.kind = "service" => j.stage = "svcEv" /\ row.entity = j.entity
  BY <1>1
<1> HIDE DEF j, row
<1>5. /\ DOMAIN new = DOMAIN evidence \cup {j.id}
      /\ \A e \in DOMAIN evidence : new[e] = evidence[e]
      /\ j.id \notin DOMAIN evidence => new[j.id] = row
  BY <1>1, <1>3 DEF Inserted, PutRow, IsTable
<1> HIDE DEF new
<1>6. ServiceLinksAgree'
  BY <1>1, <1>2, <1>3, <1>4, <1>5 DEF Good, ServiceLinksAgree
<1>7. Good'
  BY <1>2, <1>3, <1>6 DEF Good, OneInterfacePerAddress, OneServicePerEndpoint
<1> QED BY <1>1, <1>7, AdvanceAlone

LEMMA WriteRelAlone == ASSUME Alone, LoneInv, NEW p \in Proc, WriteRel(p) PROVE LoneInv'
<1> DEFINE j == job[p]
           row == IF j.stage = "evBy" THEN [type |-> "evBy", src |-> j.entity, dst |-> j.asset]
                                      ELSE [type |-> j.stage, src |-> j.asset, dst |-> j.entity]
           new == Inserted(rel, j.id, row)
<1>1. /\ j \in Job /\ j.id \in Nat /\ j.stage \in {"hasIface", "evBy", "hosts"} /\ Inv'
      /\ Advance(p, j)
      /\ faults = 0 /\ j.stage = "hosts" =>
           j.entity \in DOMAIN service /\ service[j.entity].asset = j.asset
  BY Here, WriteRelKeeps DEF WriteRel, LoneInv, LoneOK, LinkOK, Writes, Job
<1>2. rel' = new /\ UNCHANGED <<iface, service, evidence, faults>>
  BY DEF WriteRel, counts
<1>3. IsTable(rel, RelRow) /\ Good
  BY DEF LoneInv, Inv, TypeOK, TablesOK
<1>4. row.type = "hosts" => j.stage = "hosts" /\ row.dst = j.entity /\ row.src = j.asset
  BY <1>1
<1> HIDE DEF j, row
<1>5. /\ DOMAIN new = DOMAIN rel \cup {j.id}
      /\ \A r \in DOMAIN rel : new[r] = rel[r]
      /\ j.id \notin DOMAIN rel => new[j.id] = row
  BY <1>1, <1>3 DEF Inserted, PutRow, IsTable
<1> HIDE DEF new
<1>6. ServiceLinksAgree'
  BY <1>1, <1>2, <1>3, <1>4, <1>5 DEF Good, ServiceLinksAgree
<1>7. Good'
  BY <1>2, <1>3, <1>6 DEF Good, OneInterfacePerAddress, OneServicePerEndpoint
<1> QED BY <1>1, <1>2, <1>7, AdvanceAlone

----------------------------------------------------------------------------
(* Failures *)

\* Once a statement has failed the links of services are no longer promised;
\* the lookups are as good as before.
LEMMA FaultAlone == ASSUME Alone, LoneInv, NEW p \in Proc, Fault(p) PROVE LoneInv'
<1>1. /\ UNCHANGED <<seq, iface, service, evidence, rel>> /\ Inv'
      /\ faults' = faults + 1 /\ faults \in Nat
  BY FaultKeeps DEF Fault, LoneInv, Good, tables
<1>2. faults' # 0 /\ faults' \in Nat
  BY <1>1
<1>3. Good'
  BY <1>1, <1>2 DEF LoneInv, Good, OneInterfacePerAddress, OneServicePerEndpoint, ServiceLinksAgree
<1>4. job[p] \in Job /\ LoneOK(pc[p], job[p]) /\ JobOK(pc[p], job[p])
  BY Here
<1>5. CASE FaultLookup(p)
  <2>1. CASE pc[p] = "fillName"
    <3>1. Enter(p, "assetEv", job[p]) /\ job[p].asset \in DOMAIN asset
      BY <1>4, <1>5, <2>1 DEF FaultLookup, JobOK, Linked
    <3>2. PICK k \in Job : Moved(p, "bump", k) /\ k.stage = "assetEv"
      BY <1>4, <3>1, EnterLinked DEF Stage
    <3>3. LoneOK("bump", k)'
      BY <3>2 DEF LoneOK, SeenOK, LinkOK, Writes
    <3> QED BY <1>1, <1>3, <3>2, <3>3, LoneStep DEF Label
  <2>2. CASE pc[p] # "fillName"
    BY <1>1, <1>3, <1>5, <2>2, FinishAlone DEF FaultLookup
  <2> QED BY <2>1, <2>2
<1>6. CASE FaultSequence(p)
  <2>1. CASE SeqChecked(job[p])
    BY <1>1, <1>3, <1>6, <2>1, FinishAlone DEF FaultSequence
  <2>2. CASE ~SeqChecked(job[p])
    <3> DEFINE label == IF job[p].stage \in Saved THEN "check" ELSE "write"
               j == [job[p] EXCEPT !.id = 0, !.exists = FALSE]
    <3>1. Moved(p, label, j) /\ pc[p] \in {"bump", "read"}
      BY <1>6, <2>2, ContinueMoves DEF FaultSequence
    <3>2. /\ j \in Job /\ j.asset = job[p].asset /\ j.stage = job[p].stage
          /\ j.addr = job[p].addr /\ j.port = job[p].port
      BY <1>4 DEF Job
    <3>3. label \in {"check", "write"}
      OBVIOUS
    <3>4. PICK k \in Job : k = j
      BY <3>2
    <3> HIDE DEF j, label
    <3>5. PICK l \in {"check", "write"} : l = label
      BY <3>3
    <3>6. SeenOK(l, k)'
      BY <1>1, <1>4, <3>1, <3>2, <3>4 DEF LoneOK, SeenOK, Writes
    <3>7. LinkOK(l, k)'
      BY <1>2 DEF LinkOK
    <3>8. LoneOK(l, k)' /\ l \in Label /\ Moved(p, l, k)
      BY <3>1, <3>4, <3>5, <3>6, <3>7 DEF LoneOK, Label
    <3> QED BY <1>1, <1>3, <3>8, LoneStep
  <2> QED BY <2>1, <2>2
<1>7. CASE FaultSave(p)
  <2>1. CASE Checked(job[p].stage)
    BY <1>1, <1>3, <1>7, <2>1, FinishAlone DEF FaultSave
  <2>2. CASE ~Checked(job[p].stage)
    <3>1. Advance(p, job[p]) /\ job[p].stage # "asset"
      BY <1>7, <2>2 DEF FaultSave, Checked
    <3> QED BY <1>1, <1>2, <1>3, <1>4, <3>1, AdvanceAlone
  <2> QED BY <2>1, <2>2
<1> QED BY <1>5, <1>6, <1>7 DEF Fault

LEMMA CrashAlone == ASSUME Alone, LoneInv, NEW p \in Proc, Crash(p) PROVE LoneInv'
<1>1. UNCHANGED <<iface, service, evidence, rel, faults>> /\ Finish(p, "killed", NoJob) /\ Inv'
  BY CrashKeeps DEF Crash, tables, LoneInv
<1>2. Good'
  BY <1>1, GoodStays DEF LoneInv
<1> QED BY <1>1, <1>2, FinishAlone

----------------------------------------------------------------------------
(* Theorems *)

LEMMA InitAlone == Init => LoneInv
<1> SUFFICES ASSUME Init PROVE LoneInv
  OBVIOUS
<1>1. Good
  BY DEF Init, Good, OneInterfacePerAddress, OneServicePerEndpoint, ServiceLinksAgree
<1>2. \A p \in Proc : LoneOK(pc[p], job[p])
  BY DEF Init, LoneOK, SeenOK, LinkOK, Writes
<1> QED BY <1>1, <1>2, InitInv DEF LoneInv

LEMMA NextAlone == ASSUME Alone PROVE LoneInv /\ [Next]_vars => LoneInv'
<1> SUFFICES ASSUME LoneInv, [Next]_vars PROVE LoneInv'
  OBVIOUS
<1>1. CASE UNCHANGED vars
  <2>1. Inv'
    BY <1>1, NextInv DEF LoneInv
  <2>2. Good'
    BY <1>1, GoodStays DEF vars, tables, counts, LoneInv
  <2>3. \A p \in Proc : LoneOK(pc[p], job[p])'
    BY <1>1 DEF LoneInv, vars, tables, counts, LoneOK, SeenOK, LinkOK, Writes
  <2> QED BY <2>1, <2>2, <2>3 DEF LoneInv
<1>2. CASE Next
  <2>1. PICK p \in Proc :
          \/ Begin(p) \/ FindIface(p) \/ GetAsset(p) \/ FillName(p) \/ FindAsset(p) \/ FindSvc(p)
          \/ Bump(p) \/ Read(p) \/ Check(p)
          \/ WriteAsset(p) \/ WriteIface(p) \/ WriteService(p) \/ WriteEvidence(p) \/ WriteRel(p)
          \/ Fault(p) \/ Crash(p)
    BY <1>2 DEF Next
  <2> QED BY <2>1, BeginAlone, FindIfaceAlone, GetAssetAlone, FillNameAlone, FindAssetAlone,
             FindSvcAlone, BumpAlone, ReadAlone, CheckAlone, WriteAssetAlone, WriteIfaceAlone,
             WriteServiceAlone, WriteEvidenceAlone, WriteRelAlone, FaultAlone, CrashAlone
<1> QED BY <1>1, <1>2

\* A lone process keeps the invariant, whatever statement fails and wherever it
\* is killed.
THEOREM LoneInvCorrect == ASSUME Alone PROVE Spec => []LoneInv
  BY InitAlone, NextAlone, PTL DEF Spec

\* ResolveHost never gives an address a second interface.
THEOREM OneInterfacePerAddressCorrect == ASSUME Alone PROVE Spec => []OneInterfacePerAddress
<1>1. LoneInv => OneInterfacePerAddress
  BY DEF LoneInv, Good
<1> QED BY <1>1, LoneInvCorrect, PTL

\* IngestHost never stores a port of an asset as a second service.
THEOREM OneServicePerEndpointCorrect == ASSUME Alone PROVE Spec => []OneServicePerEndpoint
<1>1. LoneInv => OneServicePerEndpoint
  BY DEF LoneInv, Good
<1> QED BY <1>1, LoneInvCorrect, PTL

\* As long as no statement has failed, service evidence and "hosts" relationships
\* name a stored service of the right asset.
THEOREM ServiceLinksAgreeCorrect == ASSUME Alone PROVE Spec => []ServiceLinksAgree
<1>1. LoneInv => ServiceLinksAgree
  BY DEF LoneInv, Good
<1> QED BY <1>1, LoneInvCorrect, PTL

----------------------------------------------------------------------------
(* What a call has done so far *)

FoundBy(a, addr) == addr # NoAddr => \E i \in DOMAIN iface : iface[i] = [asset |-> a, addr |-> addr]
NamedBy(a, name) == name # NoName => asset[a] # NoName
Evident(kind, id) == [kind |-> kind, entity |-> id] \in {evidence[e] : e \in DOMAIN evidence}
Serves(a, port) ==
  \E s \in DOMAIN service : service[s] = [asset |-> a, port |-> port] /\ Evident("service", s)

\* The table a stage writes.
TableOf(s) ==
  CASE s = "asset" -> asset
    [] s = "iface" -> iface
    [] s = "service" -> service
    [] s \in {"assetEv", "svcEv"} -> evidence
    [] OTHER -> rel

\* The number a process reads and writes under is free.
Fresh(label, j) ==
  /\ label = "read" => \A r \in DOMAIN TableOf(j.stage) : r < seq[SequenceOf(j.stage)]
  /\ label \in {"check", "write"} => j.id \notin DOMAIN TableOf(j.stage)
  /\ label = "check" => j.stage \in Saved
  /\ label = "write" => ~j.exists

\* How far a call has come: the asset has its address, a hostname and evidence,
\* and the services are being written.
Addressed(label, j) == \/ label \in {"getAsset", "fillName", "findSvc"}
                       \/ Writes(label) /\ j.stage \notin {"asset", "iface"}
Named(label, j) == label = "findSvc" \/ (Writes(label) /\ j.stage # "asset")
Noted(label, j) == label = "findSvc" \/ (Writes(label) /\ j.stage \in {"evBy", "service", "hosts", "svcEv"})
Serving(label, j) == label = "findSvc" \/ (Writes(label) /\ j.stage \in {"service", "hosts", "svcEv"})

\* What the stages a call has behind it have stored.
Progress(label, j) ==
  /\ label = "fillName" => j.name # NoName
  /\ Addressed(label, j) => FoundBy(j.asset, j.addr)
  /\ Named(label, j) => NamedBy(j.asset, j.name)
  /\ Noted(label, j) => Evident("asset", j.asset)
  /\ IF Serving(label, j)
       THEN \A port \in j.ports : \/ port \in j.todo \/ Serves(j.asset, port)
                                  \/ Writes(label) /\ port = j.port
       ELSE j.todo = j.ports
  /\ Writes(label) /\ j.stage \in {"hosts", "svcEv"} =>
       j.entity \in DOMAIN service /\ service[j.entity] = [asset |-> j.asset, port |-> j.port]
  /\ Writes(label) /\ j.stage = "hasIface" =>
       j.entity \in DOMAIN iface /\ iface[j.entity].asset = j.asset
  /\ Writes(label) /\ j.stage = "evBy" =>
       j.entity \in DOMAIN evidence /\ evidence[j.entity] = [kind |-> "asset", entity |-> j.asset]

\* The relationships repeat what the rows they join say.
RelationshipsAgree ==
  \A r \in DOMAIN rel :
    /\ rel[r].type = "hasIface" => /\ rel[r].dst \in DOMAIN iface
                                   /\ iface[rel[r].dst].asset = rel[r].src
    /\ rel[r].type = "evBy" => /\ rel[r].src \in DOMAIN evidence
                               /\ evidence[rel[r].src] = [kind |-> "asset", entity |-> rel[r].dst]

DoneOK(p) == IF pc[p] = "idle" THEN outcome[p] = "ok" => Recorded(job[p])
                               ELSE Progress(pc[p], job[p]) /\ Fresh(pc[p], job[p])

DoneInv == /\ DOMAIN outcome = Proc
           /\ faults = 0 => RelationshipsAgree /\ \A p \in Proc : DoneOK(p)

\* What the rows of the stages up to j's leave behind.
After(j) ==
  /\ j.stage # "asset" => FoundBy(j.asset, j.addr)
  /\ NamedBy(j.asset, j.name)
  /\ j.stage \notin {"asset", "iface", "hasIface"} => Evident("asset", j.asset)
  /\ IF j.stage \in {"service", "hosts", "svcEv"}
       THEN \A port \in j.ports : \/ port \in j.todo \/ Serves(j.asset, port)
                                  \/ j.stage # "svcEv" /\ port = j.port
       ELSE j.todo = j.ports
  /\ j.stage \in {"service", "hosts"} =>
       LET s == IF j.stage = "service" THEN j.id ELSE j.entity IN
       s \in DOMAIN service /\ service[s] = [asset |-> j.asset, port |-> j.port]
  /\ j.stage = "iface" => j.entity \in DOMAIN iface /\ iface[j.entity].asset = j.asset
  /\ j.stage = "assetEv" =>
       j.id \in DOMAIN evidence /\ evidence[j.id] = [kind |-> "asset", entity |-> j.asset]

\* No row is removed, and no row loses what a call has reported.
Keeps ==
  /\ \A a \in DOMAIN asset : a \in DOMAIN asset' /\ (asset[a] # NoName => asset'[a] # NoName)
  /\ \A i \in DOMAIN iface : i \in DOMAIN iface' /\ iface'[i] = iface[i]
  /\ \A s \in DOMAIN service : s \in DOMAIN service' /\ service'[s] = service[s]
  /\ \A e \in DOMAIN evidence : e \in DOMAIN evidence' /\ evidence'[e] = evidence[e]

LEMMA StoredStays ==
  ASSUME Keeps
  PROVE  /\ \A a, addr : FoundBy(a, addr) => FoundBy(a, addr)'
         /\ \A a \in DOMAIN asset : \A name : NamedBy(a, name) => NamedBy(a, name)'
         /\ \A kind, id : Evident(kind, id) => Evident(kind, id)'
         /\ \A a, port : Serves(a, port) => Serves(a, port)'
<1>1. \A kind, id : Evident(kind, id) => Evident(kind, id)'
  BY DEF Keeps, Evident
<1>2. \A a, port : Serves(a, port) => Serves(a, port)'
  BY <1>1 DEF Keeps, Serves
<1>3. \A a, addr : FoundBy(a, addr) => FoundBy(a, addr)'
  BY DEF Keeps, FoundBy
<1>4. \A a \in DOMAIN asset : \A name : NamedBy(a, name) => NamedBy(a, name)'
  BY DEF Keeps, NamedBy
<1> QED BY <1>1, <1>2, <1>3, <1>4

\* The relationships agree with what the tables keep.
LEMMA AgreeStays ==
  ASSUME DoneInv, UNCHANGED <<rel, faults>>,
         faults = 0 => Keeps \/ UNCHANGED <<iface, evidence>>
  PROVE  faults' = 0 => RelationshipsAgree'
  BY DEF DoneInv, RelationshipsAgree, Keeps

\* A step of the only process.
LEMMA DoneStep ==
  ASSUME faults' = 0 => RelationshipsAgree',
         Alone, LoneInv, NEW p \in Proc, NEW label \in Label, NEW j \in Job, Moved(p, label, j),
         DOMAIN outcome' = Proc,
         faults' = 0 => IF label = "idle" THEN outcome'[p] = "ok" => Recorded(j)'
                                          ELSE Progress(label, j)' /\ Fresh(label, j)'
  PROVE  DoneInv'
<1>1. pc'[p] = label /\ job'[p] = j
  BY MovedTypes DEF LoneInv, Inv, TypeOK
<1>2. ASSUME faults' = 0, NEW q \in Proc PROVE DoneOK(q)'
  <2>1. q = p
    BY DEF Alone
  <2> QED BY <1>1, <1>2, <2>1 DEF DoneOK
<1> QED BY <1>2 DEF DoneInv

LEMMA DoneHere ==
  ASSUME LoneInv, DoneInv, faults = 0, NEW p \in Proc, pc[p] # "idle"
  PROVE  Progress(pc[p], job[p]) /\ Fresh(pc[p], job[p])
  BY DEF DoneInv, DoneOK

\* A lookup: the tables do not change.
LEMMA DoneQuiet ==
  ASSUME Alone, LoneInv, DoneInv, NEW p \in Proc, NEW label \in Label \ {"idle"}, NEW j \in Job,
         Moved(p, label, j), outcome' = outcome, UNCHANGED <<seq, tables, faults>>,
         faults = 0 => Progress(label, j) /\ Fresh(label, j)
  PROVE  DoneInv'
<1>1. UNCHANGED <<seq, asset, iface, service, evidence, rel, faults>>
  BY DEF tables
<1>2. faults = 0 => Progress(label, j)'
  BY <1>1 DEF Progress, FoundBy, NamedBy, Serves, Evident
<1>3. faults = 0 => Fresh(label, j)'
  BY <1>1 DEF Fresh, TableOf
<1>4. faults' = 0 => RelationshipsAgree'
  BY <1>1, AgreeStays
<1> QED BY <1>1, <1>2, <1>3, <1>4, DoneStep DEF DoneInv

\* The call ends without having done what was asked.
LEMMA FailedDone ==
  ASSUME Alone, LoneInv, DoneInv, NEW p \in Proc, NEW how \in {"err", "killed"},
         Finish(p, how, NoJob), faults' = 0 => RelationshipsAgree'
  PROVE  DoneInv'
<1>1. outcome'[p] = how /\ DOMAIN outcome' = Proc
  BY DEF Finish, DoneInv
<1> QED BY <1>1, FinishMoves, NoJobType, DoneStep DEF Label

\* A failing step: nothing is promised any more.
LEMMA DoneFailed ==
  ASSUME DOMAIN outcome' = Proc, faults' # 0 PROVE DoneInv'
  BY DEF DoneInv

\* The row of a stage is written, or found to exist, and the call goes on.
LEMMA AdvanceDone ==
  ASSUME Alone, LoneInv, DoneInv, NEW p \in Proc, NEW j \in Job, Advance(p, j),
         faults' = 0 => After(j)' /\ RelationshipsAgree'
  PROVE  DoneInv'
<1>1. PICK label, k : /\ Moved(p, label, k) /\ Follows(label, k, j)
  BY AdvanceFollows
<1>2. DOMAIN outcome' = Proc
  BY DEF Advance, NextService, Enter, Continue, Finish, DoneInv, Job, Stage
<1>3. label \in Label /\ k \in Job /\ SameCall(k, j)
  BY <1>1 DEF Follows, Label
<1>4. CASE label = "idle"
  <2>1. faults' = 0 => Recorded(k)'
    BY <1>1, <1>3, <1>4 DEF Follows, SameCall, After, Recorded, FoundBy, NamedBy, Evident, Serves
  <2> QED BY <1>1, <1>2, <1>3, <1>4, <2>1, DoneStep
<1>5. CASE label = "findSvc"
  <2>1. faults' = 0 => Progress(label, k)'
    BY <1>1, <1>3, <1>5 DEF Follows, SameCall, After, Progress, Addressed, Named, Noted, Serving, Writes
  <2>2. Fresh(label, k)'
    BY <1>5 DEF Fresh
  <2> QED BY <1>1, <1>2, <1>3, <1>5, <2>1, <2>2, DoneStep
<1>6. CASE label = "bump"
  <2>1. faults' = 0 => Progress(label, k)'
    BY <1>1, <1>3, <1>6 DEF Follows, SameCall, After, Progress, Addressed, Named, Noted, Serving, Writes, FoundBy, Job, Stage
  <2>2. Fresh(label, k)'
    BY <1>6 DEF Fresh
  <2> QED BY <1>1, <1>2, <1>3, <1>6, <2>1, <2>2, DoneStep
<1> QED BY <1>1, <1>4, <1>5, <1>6 DEF Follows

LEMMA ResolveDone ==
  ASSUME Alone, LoneInv, DoneInv, NEW p \in Proc, NEW j \in Job, ResolveByName(p, j),
         UNCHANGED <<seq, tables, faults>>, faults = 0 => j.todo = j.ports
  PROVE  DoneInv'
<1>1. PICK label, k : Moved(p, label, k) /\ Unlinked(label, k, j)
  BY ResolveFollows
<1>2. outcome' = outcome
  BY DEF ResolveByName, Enter, Continue
<1>3. label \in Label \ {"idle"} /\ k \in Job
  BY <1>1 DEF Unlinked, Label
<1>4. faults = 0 => Progress(label, k) /\ Fresh(label, k)
  BY <1>1 DEF Unlinked, SameCall, Progress, Addressed, Named, Noted, Serving, Writes, Fresh
<1> QED BY <1>1, <1>2, <1>3, <1>4, DoneQuiet

LEMMA BeginDone == ASSUME Alone, LoneInv, DoneInv, NEW p \in Proc, Begin(p) PROVE DoneInv'
<1>1. PICK a \in Addr \cup {NoAddr, BadAddr}, n \in HostName \cup {NoName}, ports \in SUBSET Port :
        LET j == [NoJob EXCEPT !.addr = a, !.name = n, !.ports = ports, !.todo = ports] IN
        CASE a = BadAddr -> Finish(p, "err", NoJob)
          [] a = NoAddr  -> ResolveByName(p, j)
          [] a \in Addr  -> Continue(p, "findIface", j)
  BY DEF Begin
<1> DEFINE j == [NoJob EXCEPT !.addr = a, !.name = n, !.ports = ports, !.todo = ports]
<1>2. UNCHANGED <<seq, tables, faults>>
  BY DEF Begin
<1>3. a # BadAddr => j \in Job /\ j.todo = j.ports
  BY DEF Job, NoJob, Stage
<1>4. CASE a = BadAddr
  <2>1. Finish(p, "err", NoJob)
    BY <1>1, <1>4, IngestAssumption DEF IngestAssumption
  <2>2. faults' = 0 => RelationshipsAgree'
    BY <1>2, AgreeStays DEF tables
  <2> QED BY <2>1, <2>2, FailedDone
<1>5. CASE a = NoAddr
  <2>1. ResolveByName(p, j)
    BY <1>1, <1>5, IngestAssumption DEF IngestAssumption
  <2> HIDE DEF j
  <2> QED BY <1>2, <1>3, <1>5, <2>1, ResolveDone, IngestAssumption DEF IngestAssumption
<1>6. CASE a \in Addr
  <2>1. Continue(p, "findIface", j)
    BY <1>1, <1>6, IngestAssumption DEF IngestAssumption
  <2> HIDE DEF j
  <2>2. j \in Job /\ j.todo = j.ports
    BY <1>3, <1>6, IngestAssumption DEF IngestAssumption
  <2>3. Moved(p, "findIface", j) /\ outcome' = outcome
    BY <2>1, ContinueMoves DEF Continue
  <2>4. Progress("findIface", j) /\ Fresh("findIface", j)
    BY <2>2 DEF Progress, Addressed, Named, Noted, Serving, Writes, Fresh
  <2> QED BY <1>2, <2>2, <2>3, <2>4, DoneQuiet DEF Label
<1> QED BY <1>4, <1>5, <1>6

LEMMA FindIfaceDone == ASSUME Alone, LoneInv, DoneInv, NEW p \in Proc, FindIface(p) PROVE DoneInv'
<1> DEFINE found == {i \in DOMAIN iface : iface[i].addr = job[p].addr}
<1>1. UNCHANGED <<seq, tables, faults>> /\ job[p] \in Job
  BY Here DEF FindIface, counts
<1>2. faults = 0 => job[p].todo = job[p].ports
  BY DoneHere DEF FindIface, Progress, Serving, Writes
<1>3. CASE found = {}
  <2>1. ResolveByName(p, job[p])
    BY <1>3 DEF FindIface
  <2> QED BY <1>1, <1>2, <2>1, ResolveDone
<1>4. CASE found # {}
  <2>1. PICK i \in found : Continue(p, "getAsset", [job[p] EXCEPT !.asset = iface[i].asset])
    BY <1>4 DEF FindIface
  <2> DEFINE j == [job[p] EXCEPT !.asset = iface[i].asset]
  <2>2. iface[i] \in IfaceRow /\ iface[i].addr = job[p].addr
    BY DEF LoneInv, Inv, TypeOK, TablesOK, IsTable
  <2>3. /\ j \in Job /\ j.asset = iface[i].asset /\ j.addr = job[p].addr
        /\ j.todo = job[p].todo /\ j.ports = job[p].ports
    BY <1>1, <2>2 DEF Job, IfaceRow
  <2>4. Moved(p, "getAsset", j) /\ outcome' = outcome
    BY <2>1, ContinueMoves DEF Continue
  <2> HIDE DEF j
  <2>5. iface[i] = [asset |-> j.asset, addr |-> j.addr]
    BY <2>2, <2>3 DEF IfaceRow
  <2>6. FoundBy(j.asset, j.addr)
    BY <2>5 DEF FoundBy
  <2>7. faults = 0 => Progress("getAsset", j) /\ Fresh("getAsset", j)
    BY <1>2, <2>3, <2>6 DEF Progress, Addressed, Named, Noted, Serving, Writes, Fresh
  <2> QED BY <1>1, <2>3, <2>4, <2>7, DoneQuiet DEF Label
<1> QED BY <1>3, <1>4

\* The call goes on to the asset's evidence, once it has its asset, address and
\* hostname.
LEMMA EnterEvidenceDone ==
  ASSUME Alone, LoneInv, DoneInv, NEW p \in Proc, NEW j \in Job, Enter(p, "assetEv", j),
         UNCHANGED <<iface, evidence, rel, faults>>,
         faults' = 0 => /\ FoundBy(j.asset, j.addr)' /\ NamedBy(j.asset, j.name)'
                        /\ j.todo = j.ports
  PROVE  DoneInv'
<1> DEFINE k == [j EXCEPT !.stage = "assetEv"]
<1>1. k \in Job /\ SameCall(k, j) /\ k.stage = "assetEv"
  BY DEF Job, Stage, SameCall
<1>2. Moved(p, "bump", k) /\ outcome' = outcome
  BY EnterMoves DEF Enter, Continue
<1> HIDE DEF k
<1>3. faults' = 0 => Progress("bump", k)'
  BY <1>1 DEF SameCall, Progress, Addressed, Named, Noted, Serving, Writes
<1>4. Fresh("bump", k)'
  BY DEF Fresh
<1>5. faults' = 0 => RelationshipsAgree'
  BY AgreeStays
<1> QED BY <1>1, <1>2, <1>3, <1>4, <1>5, DoneStep DEF Label, DoneInv

LEMMA GetAssetDone == ASSUME Alone, LoneInv, DoneInv, NEW p \in Proc, GetAsset(p) PROVE DoneInv'
<1>1. UNCHANGED <<seq, tables, faults>> /\ job[p] \in Job
  BY Here DEF GetAsset, counts
<1>2. faults = 0 => Progress("getAsset", job[p])
  BY DoneHere DEF GetAsset
<1>3. CASE job[p].name # NoName /\ asset[job[p].asset] = NoName
  <2>1. Continue(p, "fillName", job[p])
    BY <1>3 DEF GetAsset
  <2>2. faults = 0 => Progress("fillName", job[p]) /\ Fresh("fillName", job[p])
    BY <1>2, <1>3 DEF Progress, Addressed, Named, Noted, Serving, Writes, Fresh
  <2> QED BY <1>1, <2>1, <2>2, ContinueMoves, DoneQuiet DEF Label, Continue
<1>4. CASE ~(job[p].name # NoName /\ asset[job[p].asset] = NoName)
  <2>1. PICK j \in Job : j = job[p]
    BY <1>1
  <2>2. Enter(p, "assetEv", j)
    BY <1>4, <2>1 DEF GetAsset
  <2>3. NamedBy(j.asset, j.name)'
    BY <1>1, <1>4, <2>1 DEF NamedBy, tables
  <2>4. faults' = 0 => FoundBy(j.asset, j.addr)' /\ j.todo = j.ports
    BY <1>1, <1>2, <2>1 DEF Progress, Addressed, Serving, Writes, FoundBy, tables
  <2> QED BY <1>1, <2>2, <2>3, <2>4, EnterEvidenceDone DEF tables
<1> QED BY <1>3, <1>4

LEMMA FillNameDone == ASSUME Alone, LoneInv, DoneInv, NEW p \in Proc, FillName(p) PROVE DoneInv'
<1>1. PICK j \in Job : j = job[p]
  BY Here
<1>2. /\ asset' = [asset EXCEPT ![j.asset] = j.name] /\ UNCHANGED <<iface, evidence, rel, faults>>
      /\ Enter(p, "assetEv", j) /\ j.asset \in DOMAIN asset
  BY <1>1, Here DEF FillName, counts, JobOK, Linked
<1>3. faults = 0 => Progress("fillName", j)
  BY <1>1, DoneHere DEF FillName
<1>4. NamedBy(j.asset, j.name)'
  BY <1>2 DEF NamedBy
<1>5. faults' = 0 => FoundBy(j.asset, j.addr)' /\ j.todo = j.ports
  BY <1>2, <1>3 DEF Progress, Addressed, Serving, Writes, FoundBy
<1> QED BY <1>2, <1>4, <1>5, EnterEvidenceDone

LEMMA FindAssetDone == ASSUME Alone, LoneInv, DoneInv, NEW p \in Proc, FindAsset(p) PROVE DoneInv'
<1>1. PICK j \in Job : j = job[p]
  BY Here
<1> DEFINE found == {a \in DOMAIN asset : asset[a] = j.name}
<1>2. UNCHANGED <<seq, tables, faults>>
  BY DEF FindAsset, counts
<1>3. faults = 0 => j.todo = j.ports
  BY <1>1, DoneHere DEF FindAsset, Progress, Serving, Writes
<1>4. CASE found = {}
  <2> DEFINE k == [[j EXCEPT !.newAsset = TRUE] EXCEPT !.stage = "asset"]
  <2>1. k \in Job /\ k.stage = "asset" /\ k.todo = j.todo /\ k.ports = j.ports
    BY DEF Job, Stage
  <2>2. Enter(p, "asset", [j EXCEPT !.newAsset = TRUE])
    BY <1>1, <1>4 DEF FindAsset
  <2>3. Moved(p, "bump", k) /\ outcome' = outcome
    BY <2>2, EnterMoves DEF Enter, Continue
  <2> HIDE DEF k
  <2>4. faults = 0 => Progress("bump", k) /\ Fresh("bump", k)
    BY <1>3, <2>1 DEF Progress, Addressed, Named, Noted, Serving, Writes, Fresh
  <2> QED BY <1>2, <2>1, <2>3, <2>4, DoneQuiet DEF Label
<1>5. CASE found # {}
  <2> DEFINE s == IF j.addr # NoAddr THEN "iface" ELSE "assetEv"
  <2>1. PICK a \in found : Enter(p, s, [j EXCEPT !.asset = a])
    BY <1>1, <1>5 DEF FindAsset
  <2> DEFINE k == [[j EXCEPT !.asset = a] EXCEPT !.stage = s]
  <2>2. a \in DOMAIN asset /\ a \in Nat /\ asset[a] = j.name
    BY DEF LoneInv, Inv, TypeOK, TablesOK, IsTable
  <2>3. /\ k \in Job /\ k.stage = s /\ k.asset = a /\ k.addr = j.addr /\ k.name = j.name
        /\ k.todo = j.todo /\ k.ports = j.ports
    BY <2>2 DEF Job, Stage
  <2>4. Moved(p, "bump", k) /\ outcome' = outcome
    BY <2>1, EnterMoves DEF Enter, Continue
  <2> HIDE DEF k
  <2>5. faults = 0 => Progress("bump", k) /\ Fresh("bump", k)
    BY <1>3, <2>2, <2>3 DEF Progress, Addressed, Named, Noted, Serving, Writes, Fresh, FoundBy, NamedBy
  <2> QED BY <1>2, <2>3, <2>4, <2>5, DoneQuiet DEF Label
<1> QED BY <1>4, <1>5

LEMMA FindSvcDone == ASSUME Alone, LoneInv, DoneInv, NEW p \in Proc, FindSvc(p) PROVE DoneInv'
<1> DEFINE j == job[p]
           At(port) == [j EXCEPT !.todo = @ \ {port}, !.port = port]
           Found(port) == {s \in DOMAIN service : service[s] = [asset |-> At(port).asset, port |-> port]}
<1>1. j \in Job /\ UNCHANGED <<seq, tables, faults>>
  BY Here DEF FindSvc, counts
<1>2. faults = 0 => Progress("findSvc", j)
  BY DoneHere DEF FindSvc
<1>3. PICK port \in j.todo :
        IF Found(port) = {} THEN Enter(p, "service", At(port))
        ELSE \E s \in Found(port) : Enter(p, "svcEv", [At(port) EXCEPT !.entity = s])
  BY DEF FindSvc
<1> HIDE DEF j
<1> DEFINE next == At(port)
<1>4. /\ next \in Job /\ next.asset = j.asset /\ next.addr = j.addr /\ next.name = j.name
      /\ next.ports = j.ports /\ next.port = port /\ next.todo = j.todo \ {port}
  BY <1>1 DEF Job
<1>5. CASE Found(port) = {}
  <2>1. Enter(p, "service", next)
    BY <1>3, <1>5
  <2> HIDE DEF next
  <2> DEFINE k == [next EXCEPT !.stage = "service"]
  <2>2. k \in Job /\ SameCall(k, next) /\ k.stage = "service"
    BY <1>4 DEF Job, Stage, SameCall
  <2>3. Moved(p, "bump", k) /\ outcome' = outcome
    BY <2>1, EnterMoves DEF Enter, Continue
  <2> HIDE DEF k
  <2>4. faults = 0 => Progress("bump", k) /\ Fresh("bump", k)
    BY <1>2, <1>4, <2>2 DEF SameCall, Progress, Addressed, Named, Noted, Serving, Writes, Fresh
  <2> QED BY <1>1, <2>2, <2>3, <2>4, DoneQuiet DEF Label
<1>6. CASE Found(port) # {}
  <2>1. PICK s \in Found(port) : Enter(p, "svcEv", [next EXCEPT !.entity = s])
    BY <1>3, <1>6
  <2>2. s \in Nat /\ s \in DOMAIN service /\ service[s] = [asset |-> j.asset, port |-> port]
    BY <1>4 DEF LoneInv, Inv, TypeOK, TablesOK, IsTable
  <2> HIDE DEF next
  <2> DEFINE k == [[next EXCEPT !.entity = s] EXCEPT !.stage = "svcEv"]
  <2>3. k \in Job /\ SameCall(k, next) /\ k.stage = "svcEv" /\ k.entity = s
    BY <1>4, <2>2 DEF Job, Stage, SameCall
  <2>4. Moved(p, "bump", k) /\ outcome' = outcome
    BY <2>1, EnterMoves DEF Enter, Continue
  <2> HIDE DEF k
  <2>5. faults = 0 => Progress("bump", k) /\ Fresh("bump", k)
    BY <1>2, <1>4, <2>2, <2>3 DEF SameCall, Progress, Addressed, Named, Noted, Serving, Writes, Fresh
  <2> QED BY <1>1, <2>3, <2>4, <2>5, DoneQuiet DEF Label
<1> QED BY <1>5, <1>6

----------------------------------------------------------------------------
(* Naming and writing a row, when no statement has failed *)

\* The identifiers of a table are numbers its sequence has reached.
LEMMA NumbersBelow ==
  ASSUME Inv, NEW s \in Stage
  PROVE  /\ seq[SequenceOf(s)] \in Nat
         /\ \A r \in DOMAIN TableOf(s) : r \in Nat /\ r <= seq[SequenceOf(s)]
<1>1. seq[SequenceOf(s)] \in Nat
  BY SequenceNames DEF Inv, TypeOK, TablesOK
<1>2. \A r \in DOMAIN TableOf(s) : r \in Nat
  BY DEF Inv, TypeOK, TablesOK, IsTable, TableOf, Stage
<1>3. \A r \in DOMAIN TableOf(s) : r <= seq[SequenceOf(s)]
  BY DEF Inv, RowsBelowSequence, TableOf, SequenceOf, Stage
<1> QED BY <1>1, <1>2, <1>3

LEMMA BumpDone == ASSUME Alone, LoneInv, DoneInv, NEW p \in Proc, Bump(p) PROVE DoneInv'
<1>1. PICK j \in Job : j = job[p]
  BY Here
<1> DEFINE n == SequenceOf(j.stage)
<1>2. /\ seq' = [seq EXCEPT ![n] = @ + 1] /\ UNCHANGED <<asset, iface, service, evidence, rel, faults>>
      /\ Moved(p, "read", j) /\ outcome' = outcome
  BY <1>1, ContinueMoves DEF Bump, tables, counts, Continue
<1>3. /\ seq[n] \in Nat /\ n \in SeqName
      /\ \A r \in DOMAIN TableOf(j.stage) : r \in Nat /\ r <= seq[n]
  BY NumbersBelow, SequenceNames DEF LoneInv, Job
<1>4. seq'[n] = seq[n] + 1
  BY <1>2, <1>3 DEF LoneInv, Inv, TypeOK, TablesOK
<1> HIDE DEF n
<1>5. faults = 0 => Progress("bump", j)
  BY <1>1, DoneHere DEF Bump
<1>6. faults = 0 => Progress("read", j)'
  BY <1>2, <1>5 DEF Progress, Addressed, Named, Noted, Serving, Writes, FoundBy, NamedBy, Serves, Evident
<1>7. \A r \in DOMAIN TableOf(j.stage) : r < seq'[n]
  BY <1>3, <1>4
<1>8. Fresh("read", j)'
  BY <1>2, <1>7 DEF Fresh, TableOf, n
<1>9. faults' = 0 => RelationshipsAgree'
  BY <1>2, AgreeStays
<1> QED BY <1>2, <1>6, <1>8, <1>9, DoneStep DEF Label, DoneInv

LEMMA ReadDone == ASSUME Alone, LoneInv, DoneInv, NEW p \in Proc, Read(p) PROVE DoneInv'
<1>1. PICK j \in Job : j = job[p]
  BY Here
<1> DEFINE label == IF j.stage \in Saved THEN "check" ELSE "write"
           n == seq[SequenceOf(j.stage)]
           k == [j EXCEPT !.id = n, !.exists = FALSE]
<1>2. UNCHANGED <<seq, tables, faults>> /\ Moved(p, label, k) /\ outcome' = outcome
  BY <1>1, ContinueMoves DEF Read, counts, Continue
<1>3. n \in Nat /\ \A r \in DOMAIN TableOf(j.stage) : r \in Nat
  BY NumbersBelow DEF LoneInv, Job
<1>4. /\ k \in Job /\ SameCall(k, j) /\ k.stage = j.stage /\ k.entity = j.entity
      /\ k.id = n /\ ~k.exists
  BY <1>3 DEF Job, SameCall
<1>5. label \in {"check", "write"}
  OBVIOUS
<1>6. /\ faults = 0 => Progress("read", j) /\ n \notin DOMAIN TableOf(j.stage)
      /\ label = "check" => j.stage \in Saved
  BY <1>1, <1>3, DoneHere DEF Read, Fresh
<1> HIDE DEF k, label, n
<1>7. faults = 0 => Progress(label, k) /\ Fresh(label, k)
  BY <1>4, <1>5, <1>6 DEF SameCall, Progress, Addressed, Named, Noted, Serving, Writes, Fresh
<1> QED BY <1>2, <1>4, <1>5, <1>7, DoneQuiet DEF Label

LEMMA CheckDone == ASSUME Alone, LoneInv, DoneInv, NEW p \in Proc, Check(p) PROVE DoneInv'
<1>1. /\ job[p] \in Job /\ UNCHANGED <<seq, tables, faults>>
      /\ faults = 0 => Progress("check", job[p]) /\ Fresh("check", job[p])
  BY Here, DoneHere DEF Check, counts
<1> DEFINE table == CASE job[p].stage = "asset" -> asset
                      [] job[p].stage = "iface" -> iface
                      [] job[p].stage = "service" -> service
           b == job[p].id \in DOMAIN table
           k == [job[p] EXCEPT !.exists = b]
<1>2. faults = 0 => ~b
  BY <1>1 DEF Fresh, TableOf, Saved
<1>3. Continue(p, "write", [job[p] EXCEPT !.exists = b])
  BY DEF Check
<1> HIDE DEF table
<1>4. b \in BOOLEAN
  OBVIOUS
<1> HIDE DEF b
<1>5. /\ k \in Job /\ SameCall(k, job[p]) /\ k.stage = job[p].stage /\ k.entity = job[p].entity
      /\ k.id = job[p].id /\ k.exists = b
  BY <1>1, <1>4 DEF Job, SameCall
<1>6. Moved(p, "write", k) /\ outcome' = outcome
  BY <1>3, ContinueMoves DEF Continue
<1> HIDE DEF k
<1>7. faults = 0 => Progress("write", k) /\ Fresh("write", k)
  BY <1>1, <1>2, <1>5 DEF SameCall, Progress, Addressed, Named, Noted, Serving, Writes, Fresh
<1> QED BY <1>1, <1>5, <1>6, <1>7, DoneQuiet DEF Label

\* What a row's writer has done before it, and that the row is new.
LEMMA WriteHere ==
  ASSUME LoneInv, DoneInv, NEW p \in Proc, pc[p] = "write"
  PROVE  /\ job[p] \in Job /\ JobOK("write", job[p])
         /\ faults = 0 => /\ Progress("write", job[p]) /\ ~job[p].exists
                          /\ job[p].id \notin DOMAIN TableOf(job[p].stage)
  BY Here, DoneHere DEF Fresh

LEMMA WriteAssetDone == ASSUME Alone, LoneInv, DoneInv, NEW p \in Proc, WriteAsset(p) PROVE DoneInv'
<1>1. PICK j \in Job : j = job[p]
  BY Here
<1>2. /\ j.stage = "asset" /\ j.id \in Nat /\ IsTable(asset, HostName \cup {NoName})
      /\ UNCHANGED <<iface, service, evidence, rel, faults>>
  BY <1>1 DEF WriteAsset, counts, Job, LoneInv, Inv, TypeOK, TablesOK
<1>3. faults = 0 => Progress("write", j) /\ ~j.exists /\ j.id \notin DOMAIN asset
  BY <1>1, <1>2, WriteHere DEF WriteAsset, TableOf
<1>4. faults' = 0 => RelationshipsAgree'
  BY <1>2, AgreeStays
<1>5. CASE Finish(p, "err", NoJob)
  BY <1>4, <1>5, FailedDone
<1>6. CASE Advance(p, [j EXCEPT !.asset = j.id])
  <2> DEFINE k == [j EXCEPT !.asset = j.id]
  <2>1. /\ k \in Job /\ k.asset = j.id /\ k.name = j.name /\ k.stage = "asset"
        /\ k.todo = j.todo /\ k.ports = j.ports
    BY <1>2 DEF Job
  <2>2. Advance(p, k)
    BY <1>6
  <2> HIDE DEF k
  <2>3. faults = 0 => asset' = Inserted(asset, j.id, j.name)
    BY <1>1, <1>3 DEF WriteAsset
  <2>4. faults = 0 => NamedBy(k.asset, k.name)'
    BY <1>2, <1>3, <2>1, <2>3 DEF Inserted, PutRow, IsTable, NamedBy
  <2>5. faults' = 0 => After(k)'
    BY <1>2, <1>3, <2>1, <2>4 DEF After, Progress, Serving
  <2> QED BY <1>4, <2>1, <2>2, <2>5, AdvanceDone
<1> QED BY <1>1, <1>5, <1>6 DEF WriteAsset

LEMMA WriteIfaceDone == ASSUME Alone, LoneInv, DoneInv, NEW p \in Proc, WriteIface(p) PROVE DoneInv'
<1>1. PICK j \in Job : j = job[p]
  BY Here
<1> DEFINE row == [asset |-> j.asset, addr |-> j.addr]
<1>2. /\ j.stage = "iface" /\ j.id \in Nat /\ IsTable(iface, IfaceRow) /\ row \in IfaceRow
      /\ UNCHANGED <<asset, service, evidence, rel, faults>>
  BY <1>1 DEF WriteIface, counts, Job, LoneInv, Inv, TypeOK, TablesOK, IfaceRow
<1>3. faults = 0 => Progress("write", j) /\ ~j.exists /\ j.id \notin DOMAIN iface
  BY <1>1, <1>2, WriteHere DEF WriteIface, TableOf
<1> HIDE DEF row
<1> DEFINE new == Inserted(iface, j.id, row)
<1>4. /\ DOMAIN new = DOMAIN iface \cup {j.id}
      /\ \A i \in DOMAIN iface : new[i] = iface[i]
      /\ j.id \notin DOMAIN iface => new[j.id] = row
  BY <1>2 DEF Inserted, PutRow, IsTable
<1>5. faults = 0 => iface' = new
  BY <1>1, <1>3 DEF WriteIface, row
<1> HIDE DEF new
<1>6. faults = 0 => Keeps
  BY <1>2, <1>4, <1>5 DEF Keeps
<1>7. faults' = 0 => RelationshipsAgree'
  BY <1>2, <1>6, AgreeStays
<1>8. CASE Finish(p, "err", NoJob)
  BY <1>7, <1>8, FailedDone
<1>9. CASE Advance(p, [j EXCEPT !.entity = j.id])
  <2> DEFINE k == [j EXCEPT !.entity = j.id]
  <2>1. k \in Job /\ SameCall(k, j) /\ k.stage = "iface" /\ k.entity = j.id
    BY <1>2 DEF Job, SameCall
  <2>2. Advance(p, k)
    BY <1>9
  <2> HIDE DEF k
  <2>3. faults = 0 => j.id \in DOMAIN iface' /\ iface'[j.id] = row
    BY <1>3, <1>4, <1>5
  <2>4. faults = 0 => FoundBy(k.asset, k.addr)'
    BY <2>1, <2>3 DEF FoundBy, SameCall, row
  <2>5. faults = 0 => k.entity \in DOMAIN iface' /\ iface'[k.entity].asset = k.asset
    BY <2>1, <2>3 DEF SameCall, row
  <2>6. faults' = 0 => After(k)'
    BY <1>2, <1>3, <2>1, <2>4, <2>5 DEF After, Progress, Serving, Named, NamedBy, SameCall, Writes
  <2> QED BY <1>7, <2>1, <2>2, <2>6, AdvanceDone
<1> QED BY <1>1, <1>8, <1>9 DEF WriteIface

LEMMA WriteServiceDone ==
  ASSUME Alone, LoneInv, DoneInv, NEW p \in Proc, WriteService(p) PROVE DoneInv'
<1>1. PICK j \in Job : j = job[p]
  BY Here
<1> DEFINE row == [asset |-> j.asset, port |-> j.port]
           new == Inserted(service, j.id, row)
<1>2. /\ j.stage = "service" /\ j.id \in Nat /\ IsTable(service, ServiceRow) /\ row \in ServiceRow
      /\ j.asset \in DOMAIN asset
  BY <1>1, WriteHere DEF WriteService, Job, LoneInv, Inv, TypeOK, TablesOK, ServiceRow, JobOK, Linked
<1>3. service' = new /\ UNCHANGED <<asset, iface, evidence, rel, faults>> /\ Advance(p, j)
  BY <1>1 DEF WriteService, counts
<1>4. faults = 0 => Progress("write", j) /\ j.id \notin DOMAIN service
  BY <1>1, <1>2, WriteHere DEF WriteService, TableOf
<1> HIDE DEF row
<1>5. /\ DOMAIN new = DOMAIN service \cup {j.id}
      /\ \A s \in DOMAIN service : new[s] = service[s]
      /\ j.id \notin DOMAIN service => new[j.id] = row
  BY <1>2, InsertedTable
<1> HIDE DEF new
<1>6. Keeps
  BY <1>3, <1>5 DEF Keeps
<1>7. faults = 0 => /\ FoundBy(j.asset, j.addr)' /\ NamedBy(j.asset, j.name)'
                    /\ Evident("asset", j.asset)'
                    /\ \A port \in j.ports :
                         port \in j.todo \/ Serves(j.asset, port)' \/ port = j.port
  BY <1>2, <1>4, <1>6, StoredStays DEF Progress, Addressed, Named, Noted, Serving, Writes
<1>8. faults = 0 => j.id \in DOMAIN service' /\ service'[j.id] = [asset |-> j.asset, port |-> j.port]
  BY <1>3, <1>4, <1>5 DEF row
<1>9. faults' = 0 => After(j)'
  BY <1>2, <1>3, <1>7, <1>8 DEF After
<1>10. faults' = 0 => RelationshipsAgree'
  BY <1>3, AgreeStays
<1> QED BY <1>3, <1>9, <1>10, AdvanceDone

LEMMA WriteEvidenceDone ==
  ASSUME Alone, LoneInv, DoneInv, NEW p \in Proc, WriteEvidence(p) PROVE DoneInv'
<1>1. PICK j \in Job : j = job[p]
  BY Here
<1> DEFINE row == IF j.stage = "assetEv" THEN [kind |-> "asset", entity |-> j.asset]
                                         ELSE [kind |-> "service", entity |-> j.entity]
           new == Inserted(evidence, j.id, row)
<1>2. /\ j.stage \in {"assetEv", "svcEv"} /\ j.id \in Nat /\ IsTable(evidence, EvidenceRow)
      /\ row \in EvidenceRow /\ j.asset \in DOMAIN asset
  BY <1>1, WriteHere DEF WriteEvidence, Job, LoneInv, Inv, TypeOK, TablesOK, EvidenceRow, JobOK, Linked
<1>3. evidence' = new /\ UNCHANGED <<asset, iface, service, rel, faults>> /\ Advance(p, j)
  BY <1>1 DEF WriteEvidence, counts
<1>4. faults = 0 => Progress("write", j) /\ j.id \notin DOMAIN evidence
  BY <1>1, <1>2, WriteHere DEF WriteEvidence, TableOf
<1> HIDE DEF row
<1>5. /\ DOMAIN new = DOMAIN evidence \cup {j.id}
      /\ \A e \in DOMAIN evidence : new[e] = evidence[e]
      /\ j.id \notin DOMAIN evidence => new[j.id] = row
  BY <1>2, InsertedTable
<1> HIDE DEF new
<1>6. Keeps
  BY <1>3, <1>5 DEF Keeps
<1>7. faults = 0 => row \in {evidence'[e] : e \in DOMAIN evidence'}
  BY <1>3, <1>4, <1>5
<1>8. faults = 0 => FoundBy(j.asset, j.addr)' /\ NamedBy(j.asset, j.name)'
  BY <1>2, <1>4, <1>6, StoredStays DEF Progress, Addressed, Named, Writes
<1>9. faults' = 0 => RelationshipsAgree'
  BY <1>3, <1>6, AgreeStays
<1>10. CASE j.stage = "assetEv"
  <2>1. faults = 0 => Evident("asset", j.asset)'
    BY <1>7, <1>10 DEF Evident, row
  <2>2. faults' = 0 => After(j)'
    BY <1>3, <1>4, <1>5, <1>8, <1>10, <2>1 DEF After, Progress, Serving, row
  <2> QED BY <1>3, <1>9, <2>2, AdvanceDone
<1>11. CASE j.stage = "svcEv"
  <2>1. faults = 0 => Evident("service", j.entity)'
    BY <1>7, <1>11 DEF Evident, row
  <2>2. faults = 0 => j.entity \in DOMAIN service /\ service[j.entity] = [asset |-> j.asset, port |-> j.port]
    BY <1>4, <1>11 DEF Progress, Writes
  <2>3. faults = 0 => Serves(j.asset, j.port)'
    BY <1>3, <2>1, <2>2 DEF Serves
  <2>4. faults = 0 => /\ Evident("asset", j.asset)'
                      /\ \A port \in j.ports : port \in j.todo \/ Serves(j.asset, port)'
    BY <1>4, <1>6, <1>11, <2>3, StoredStays DEF Progress, Noted, Serving, Writes
  <2>5. faults' = 0 => After(j)'
    BY <1>3, <1>8, <1>11, <2>4 DEF After
  <2> QED BY <1>3, <1>9, <2>5, AdvanceDone
<1> QED BY <1>2, <1>10, <1>11

LEMMA WriteRelDone == ASSUME Alone, LoneInv, DoneInv, NEW p \in Proc, WriteRel(p) PROVE DoneInv'
<1>1. PICK j \in Job : j = job[p]
  BY Here
<1> DEFINE row == IF j.stage = "evBy" THEN [type |-> "evBy", src |-> j.entity, dst |-> j.asset]
                                      ELSE [type |-> j.stage, src |-> j.asset, dst |-> j.entity]
           new == Inserted(rel, j.id, row)
<1>2. /\ j.stage \in {"hasIface", "evBy", "hosts"} /\ j.id \in Nat /\ IsTable(rel, RelRow)
  BY <1>1 DEF WriteRel, Job, LoneInv, Inv, TypeOK, TablesOK
<1>3. rel' = new /\ Advance(p, j) /\ UNCHANGED <<asset, iface, service, evidence, faults>>
  BY <1>1 DEF WriteRel, counts
<1>4. faults = 0 => Progress("write", j)
  BY <1>1, WriteHere DEF WriteRel
<1>5. faults = 0 => After(j)
  BY <1>2, <1>4 DEF After, Progress, Addressed, Named, Noted, Serving, Writes
<1>6. faults' = 0 => After(j)'
  BY <1>3, <1>5 DEF After, FoundBy, NamedBy, Serves, Evident
<1>7. faults = 0 => /\ row.type = "hasIface" => /\ row.dst \in DOMAIN iface
                                               /\ iface[row.dst].asset = row.src
                    /\ row.type = "evBy" =>
                         /\ row.src \in DOMAIN evidence
                         /\ evidence[row.src] = [kind |-> "asset", entity |-> row.dst]
  BY <1>2, <1>4 DEF Progress, Writes
<1> HIDE DEF row
<1>8. /\ DOMAIN new = DOMAIN rel \cup {j.id}
      /\ \A r \in DOMAIN rel : new[r] = rel[r]
      /\ j.id \notin DOMAIN rel => new[j.id] = row
  BY <1>2 DEF Inserted, PutRow, IsTable
<1> HIDE DEF new
<1>9. faults' = 0 => RelationshipsAgree'
  BY <1>3, <1>7, <1>8 DEF DoneInv, RelationshipsAgree
<1> QED BY <1>3, <1>6, <1>9, AdvanceDone

LEMMA FaultDone == ASSUME Alone, LoneInv, DoneInv, NEW p \in Proc, Fault(p) PROVE DoneInv'
<1>1. faults' # 0
  BY DEF Fault, LoneInv, Good
<1>2. job[p] \in Job
  BY Here
<1>3. ASSUME Advance(p, job[p]) PROVE DOMAIN outcome' = DOMAIN outcome
  BY <1>2, <1>3 DEF Advance, NextService, Enter, Continue, Finish, Job, Stage
<1>4. DOMAIN outcome' = DOMAIN outcome
  BY <1>3 DEF Fault, FaultLookup, FaultSequence, FaultSave, Enter, Continue, Finish
<1> QED BY <1>1, <1>4, DoneFailed DEF DoneInv

LEMMA NextDone == ASSUME Alone PROVE LoneInv /\ DoneInv /\ [Next]_vars => DoneInv'
<1> SUFFICES ASSUME LoneInv, DoneInv, [Next]_vars PROVE DoneInv'
  OBVIOUS
<1>1. CASE UNCHANGED vars
  BY <1>1 DEF vars, tables, counts, DoneInv, DoneOK, Progress, Fresh, TableOf, Recorded,
              FoundBy, NamedBy, Serves, Evident, RelationshipsAgree
<1>2. CASE Next
  <2>1. PICK p \in Proc :
          \/ Begin(p) \/ FindIface(p) \/ GetAsset(p) \/ FillName(p) \/ FindAsset(p) \/ FindSvc(p)
          \/ Bump(p) \/ Read(p) \/ Check(p)
          \/ WriteAsset(p) \/ WriteIface(p) \/ WriteService(p) \/ WriteEvidence(p) \/ WriteRel(p)
          \/ Fault(p) \/ Crash(p)
    BY <1>2 DEF Next
  <2>2. CASE Crash(p)
    <3>1. faults' = 0 => RelationshipsAgree'
      BY <2>2, AgreeStays DEF Crash, tables
    <3> QED BY <2>2, <3>1, FailedDone DEF Crash
  <2> QED BY <2>1, <2>2, BeginDone, FindIfaceDone, GetAssetDone, FillNameDone, FindAssetDone,
             FindSvcDone, BumpDone, ReadDone, CheckDone, WriteAssetDone, WriteIfaceDone,
             WriteServiceDone, WriteEvidenceDone, WriteRelDone, FaultDone
<1> QED BY <1>1, <1>2

\* What a lone process has stored on the way of a call stays stored, until it
\* reports the host done.
THEOREM DoneInvCorrect == ASSUME Alone PROVE Spec => []DoneInv
<1>1. Init => DoneInv
  BY DEF Init, DoneInv, DoneOK, RelationshipsAgree
<1> QED BY <1>1, LoneInvCorrect, NextDone, PTL DEF Spec

\* When IngestHost reports a host done and no statement has failed, the host is
\* found by its address, has a hostname if one was given, and it and each of its
\* services have evidence.
THEOREM RecordedWhenDoneCorrect == ASSUME Alone PROVE Spec => []RecordedWhenDone
<1>1. DoneInv => RecordedWhenDone
  BY DEF DoneInv, DoneOK, RecordedWhenDone
<1> QED BY <1>1, DoneInvCorrect, PTL

----------------------------------------------------------------------------
(* Counting *)

LEMMA TablesFinite ==
  ASSUME Inv
  PROVE  /\ IsFiniteSet(DOMAIN asset) /\ DOMAIN asset \subseteq Nat
         /\ IsFiniteSet(DOMAIN iface) /\ IsFiniteSet(DOMAIN service)
         /\ IsFiniteSet(DOMAIN evidence)
<1>1. /\ DOMAIN asset \subseteq Nat /\ DOMAIN iface \subseteq Nat
      /\ DOMAIN service \subseteq Nat /\ DOMAIN evidence \subseteq Nat
      /\ seq["asset"] \in Nat /\ seq["interface"] \in Nat
      /\ seq["service"] \in Nat /\ seq["evidence"] \in Nat
  BY DEF Inv, TypeOK, TablesOK, IsTable, SeqName
<1>2. /\ \A a \in DOMAIN asset : a <= seq["asset"]
      /\ \A i \in DOMAIN iface : i <= seq["interface"]
      /\ \A s \in DOMAIN service : s <= seq["service"]
      /\ \A e \in DOMAIN evidence : e <= seq["evidence"]
  BY DEF Inv, RowsBelowSequence
<1>3. IsFiniteSet(DOMAIN asset)
  BY <1>1, <1>2, FS_BoundedSetOfNaturals
<1>4. IsFiniteSet(DOMAIN iface)
  BY <1>1, <1>2, FS_BoundedSetOfNaturals
<1>5. IsFiniteSet(DOMAIN service)
  BY <1>1, <1>2, FS_BoundedSetOfNaturals
<1>6. IsFiniteSet(DOMAIN evidence)
  BY <1>1, <1>2, FS_BoundedSetOfNaturals
<1> QED BY <1>1, <1>3, <1>4, <1>5, <1>6

\* The addresses of a host are as many as its interfaces.
LEMMA AddressesOfHost ==
  ASSUME LoneInv, NEW a
  PROVE  Cardinality({iface[i].addr : i \in InterfacesOf(a)}) = Cardinality(InterfacesOf(a))
<1> DEFINE S == InterfacesOf(a)
           f == [i \in S |-> iface[i].addr]
<1>1. IsFiniteSet(S) /\ S \subseteq DOMAIN iface
  BY TablesFinite, FS_Subset DEF LoneInv, InterfacesOf
<1>2. DOMAIN f = S /\ {f[i] : i \in S} = {iface[i].addr : i \in InterfacesOf(a)}
  OBVIOUS
<1>3. \A x, y \in S : f[x] = f[y] => x = y
  BY <1>1 DEF LoneInv, Good, OneInterfacePerAddress
<1>4. Cardinality(S) = Cardinality(InterfacesOf(a))
  OBVIOUS
<1> HIDE DEF S, f
<1>5. Cardinality({f[i] : i \in S}) = Cardinality(S)
  BY <1>1, <1>2, <1>3, ImageCount
<1> QED BY <1>2, <1>4, <1>5

\* The public interfaces are as many as their addresses, and as the findings on them.
LEMMA PublicCount ==
  ASSUME LoneInv
  PROVE  /\ GetAttackSurface.internet = Cardinality({iface[i].addr : i \in DOMAIN iface} \cap Public)
         /\ Cardinality(GlobalAddress) = GetAttackSurface.internet
<1> DEFINE S == {i \in DOMAIN iface : iface[i].addr \in Public}
           f == [i \in S |-> iface[i].addr]
           h == [i \in S |-> Finding("global-address", "iface", i, EvidenceOf("asset", iface[i].asset))]
<1>1. IsFiniteSet(S) /\ GetAttackSurface.internet = Cardinality(S)
  BY TablesFinite, FS_Subset DEF LoneInv, GetAttackSurface
<1>2. /\ DOMAIN f = S /\ DOMAIN h = S
      /\ {f[i] : i \in S} = {iface[i].addr : i \in DOMAIN iface} \cap Public
      /\ {h[i] : i \in S} = GlobalAddress
  BY DEF GlobalAddress
<1>3. \A x, y \in S : f[x] = f[y] => x = y
  BY DEF LoneInv, Good, OneInterfacePerAddress
<1>4. \A x \in S : h[x].id = x
  BY DEF Finding
<1>5. \A x, y \in S : h[x] = h[y] => x = y
  BY <1>4
<1> HIDE DEF S, f, h
<1>6. Cardinality({f[i] : i \in S}) = Cardinality(S)
  BY <1>1, <1>2, <1>3, ImageCount
<1>7. Cardinality({h[i] : i \in S}) = Cardinality(S)
  BY <1>1, <1>2, <1>5, ImageCount
<1> QED BY <1>1, <1>2, <1>6, <1>7

\* Services are as many as their endpoints.
LEMMA EndpointCount ==
  ASSUME LoneInv, NEW S, S \subseteq DOMAIN service
  PROVE  IsFiniteSet(S) /\ Cardinality({service[s] : s \in S}) = Cardinality(S)
<1> DEFINE f == [s \in S |-> service[s]]
<1>1. IsFiniteSet(S)
  BY TablesFinite, FS_Subset DEF LoneInv
<1>2. DOMAIN f = S /\ {f[s] : s \in S} = {service[s] : s \in S}
  OBVIOUS
<1>3. \A x, y \in S : f[x] = f[y] => x = y
  BY DEF LoneInv, Good, OneServicePerEndpoint
<1> HIDE DEF f
<1>4. Cardinality({f[s] : s \in S}) = Cardinality(S)
  BY <1>1, <1>2, <1>3, ImageCount
<1> QED BY <1>1, <1>2, <1>4

\* The rule reports as many findings as there are endpoints it takes for OT.
LEMMA OTCount ==
  ASSUME LoneInv, NEW named \in SUBSET DOMAIN service
  PROVE  Cardinality(OTIndicator(named)) =
           Cardinality({service[s] : s \in {s \in DOMAIN service : MatchesIndicator(s, named)}})
<1> DEFINE S == {s \in DOMAIN service : MatchesIndicator(s, named)}
           h == [s \in S |-> Finding("ot-indicator", "service", s, EvidenceOf("service", s))]
<1>1. DOMAIN h = S /\ {h[s] : s \in S} = OTIndicator(named)
  BY DEF OTIndicator
<1>2. \A x \in S : h[x].id = x
  BY DEF Finding
<1>3. \A x, y \in S : h[x] = h[y] => x = y
  BY <1>2
<1>4. S \subseteq DOMAIN service
  OBVIOUS
<1> HIDE DEF S, h
<1>5. IsFiniteSet(S) /\ Cardinality({service[s] : s \in S}) = Cardinality(S)
  BY <1>4, EndpointCount
<1>6. Cardinality({h[s] : s \in S}) = Cardinality(S)
  BY <1>1, <1>3, <1>5, ImageCount
<1> QED BY <1>1, <1>5, <1>6 DEF S

LEMMA LoneCounts == LoneInv => CountedOnce
<1> SUFFICES ASSUME LoneInv PROVE CountedOnce
  OBVIOUS
<1> DEFINE Several(a) == Cardinality({iface[i].addr : i \in InterfacesOf(a)}) > 1
<1>1. MultiHomed = {a \in DOMAIN asset : Several(a)}
  BY AddressesOfHost DEF MultiHomed
<1> HIDE DEF Several
<1>2. \A a \in GetPivotCandidates : Several(a)
  BY <1>1 DEF GetPivotCandidates
<1>3. GetAttackSurface.multi = Cardinality({a \in DOMAIN asset : Several(a)})
  BY <1>1 DEF GetAttackSurface
<1>4. ASSUME NEW b \in ObservedBoundaries PROVE Several(b.asset)
  <2> DEFINE In(a, n) == \E i \in InterfacesOf(a) : iface[i].addr \in n
             Joining(m, n) == {a \in MultiHomed : In(a, m) /\ In(a, n)}
  <2>0. PICK mn \in Network \X Network :
          /\ Joining(mn[1], mn[2]) # {}
          /\ b = [zones |-> {mn[1], mn[2]}, asset |-> Min(Joining(mn[1], mn[2]))]
    BY DEF ObservedBoundaries
  <2>1. Joining(mn[1], mn[2]) # {} /\ b.asset = Min(Joining(mn[1], mn[2]))
    <3> DEFINE least == Min(Joining(mn[1], mn[2]))
    <3> HIDE DEF least
    <3> QED BY <2>0 DEF least
  <2>2. Joining(mn[1], mn[2]) \subseteq MultiHomed /\ MultiHomed \subseteq Nat
    BY <1>1, TablesFinite DEF LoneInv
  <2> HIDE DEF Joining
  <2>3. Min(Joining(mn[1], mn[2])) \in Joining(mn[1], mn[2])
    BY <2>1, <2>2, MinExists
  <2> QED BY <1>1, <2>1, <2>2, <2>3
<1>5. GetAttackSurface.ot = Cardinality({service[s] : s \in ServicesOn(OTPorts)})
  <2>1. ServicesOn(OTPorts) \subseteq DOMAIN service
    BY DEF ServicesOn
  <2>2. GetAttackSurface.ot = Cardinality(ServicesOn(OTPorts))
    BY DEF GetAttackSurface
  <2> QED BY <2>1, <2>2, EndpointCount
<1> QED BY <1>2, <1>3, <1>4, <1>5, PublicCount, OTCount DEF CountedOnce, Several

\* The analyses and the rules count a host with several addresses once, a public
\* address once, and an endpoint that either of them takes for OT once, whatever
\* failed or was killed while it was ingested.
THEOREM CountedOnceCorrect == ASSUME Alone PROVE Spec => []CountedOnce
  BY LoneInvCorrect, LoneCounts, PTL

----------------------------------------------------------------------------
(* The graph *)

\* The relationships add no edge to those of the rows.
RowEdges == InterfacePart.edges \cup ServicePart.edges \cup EvidencePart.edges

LEMMA RelationshipsAddNothing ==
  ASSUME LoneInv, DoneInv, faults = 0
  PROVE  BuildFromStorage.edges = RowEdges
<1> DEFINE From(r) == IF rel[r].type = "evBy" THEN "evidence" ELSE "asset"
           To(r) == CASE rel[r].type = "evBy" -> "asset"
                      [] rel[r].type = "hasIface" -> "iface"
                      [] rel[r].type = "hosts" -> "service"
           Edge(r) == <<<<From(r), rel[r].src>>, <<To(r), rel[r].dst>>>>
<1>1. ASSUME NEW r \in DOMAIN rel PROVE Edge(r) \in RowEdges
  <2>1. rel[r].type \in {"hasIface", "evBy", "hosts"}
    BY DEF LoneInv, Inv, TypeOK, TablesOK, IsTable, RelRow
  <2>2. CASE rel[r].type = "hasIface"
    <3>1. rel[r].dst \in DOMAIN iface /\ iface[rel[r].dst].asset = rel[r].src
      BY <2>2 DEF DoneInv, RelationshipsAgree
    <3> QED BY <2>2, <3>1 DEF RowEdges, InterfacePart
  <2>3. CASE rel[r].type = "evBy"
    <3>1. /\ rel[r].src \in DOMAIN evidence
          /\ evidence[rel[r].src] = [kind |-> "asset", entity |-> rel[r].dst]
      BY <2>3 DEF DoneInv, RelationshipsAgree
    <3> QED BY <2>3, <3>1 DEF RowEdges, EvidencePart
  <2>4. CASE rel[r].type = "hosts"
    <3>1. rel[r].dst \in DOMAIN service /\ service[rel[r].dst].asset = rel[r].src
      BY <2>4 DEF LoneInv, Good, ServiceLinksAgree
    <3> QED BY <2>4, <3>1 DEF RowEdges, ServicePart
  <2> QED BY <2>1, <2>2, <2>3, <2>4
<1>2. RelationshipEdges = {Edge(r) : r \in DOMAIN rel}
  BY DEF RelationshipEdges
<1> HIDE DEF Edge
<1>3. RelationshipEdges \subseteq RowEdges
  BY <1>1, <1>2
<1> QED BY <1>3 DEF BuildFromStorage, RowEdges

\* Which rows an edge stands for.
LEMMA EdgeCases ==
  ASSUME NEW m, NEW n
  PROVE  <<m, n>> \in RowEdges <=>
           \/ \E i \in DOMAIN iface : m = <<"asset", iface[i].asset>> /\ n = <<"iface", i>>
           \/ \E s \in DOMAIN service : m = <<"asset", service[s].asset>> /\ n = <<"service", s>>
           \/ \E s \in DOMAIN service : m = <<"service", s>> /\ n = <<"proto", service[s].port>>
           \/ \E e \in DOMAIN evidence :
                m = <<"evidence", e>> /\ n = <<evidence[e].kind, evidence[e].entity>>
  BY DEF RowEdges, InterfacePart, ServicePart, EvidencePart

LEMMA EdgesArePairs == \A x \in RowEdges : x = <<x[1], x[2]>>
  BY DEF RowEdges, InterfacePart, ServicePart, EvidencePart

LEMMA NeighborsByEdges ==
  ASSUME NEW g, g.edges = RowEdges, NEW m, NEW n
  PROVE  m \in Neighbors(g, n) <=> <<n, m>> \in RowEdges \/ <<m, n>> \in RowEdges
  BY EdgesArePairs DEF Neighbors

\* The evidence next to a host or a service is the evidence of it.
LEMMA EvidenceBeside ==
  ASSUME LoneInv, DoneInv, faults = 0, NEW kind \in {"asset", "service"}, NEW id
  PROVE  {e \in DOMAIN evidence : <<"evidence", e>> \in Neighbors(BuildFromStorage, <<kind, id>>)}
           = EvidenceOf(kind, id)
<1>1. ASSUME NEW e \in DOMAIN evidence
      PROVE  <<"evidence", e>> \in Neighbors(BuildFromStorage, <<kind, id>>)
               <=> evidence[e] = [kind |-> kind, entity |-> id]
  <2>1. evidence[e] \in EvidenceRow
    BY DEF LoneInv, Inv, TypeOK, TablesOK, IsTable
  <2>2. \A d \in DOMAIN evidence : evidence[d].kind \in {"asset", "service"}
    BY DEF LoneInv, Inv, TypeOK, TablesOK, IsTable, EvidenceRow
  <2>3. <<"evidence", e>> \in Neighbors(BuildFromStorage, <<kind, id>>)
          <=> \/ <<<<kind, id>>, <<"evidence", e>>>> \in RowEdges
              \/ <<<<"evidence", e>>, <<kind, id>>>> \in RowEdges
    BY RelationshipsAddNothing, NeighborsByEdges
  <2>4. <<<<kind, id>>, <<"evidence", e>>>> \notin RowEdges
    BY <2>2, EdgeCases
  <2>5. <<<<"evidence", e>>, <<kind, id>>>> \in RowEdges
          <=> evidence[e].kind = kind /\ evidence[e].entity = id
    BY EdgeCases
  <2> QED BY <2>1, <2>3, <2>4, <2>5 DEF EvidenceRow
<1> QED BY <1>1 DEF EvidenceOf

\* The services of a host in the graph are those of its rows.
LEMMA ServicesOfHost ==
  ASSUME LoneInv, DoneInv, faults = 0, NEW a
  PROVE  ServicesFor(BuildFromStorage, <<"asset", a>>) = {<<"service", s>> : s \in ServicesOf(a)}
<1>1. ASSUME NEW m, m[1] = "service", <<<<"asset", a>>, m>> \in RowEdges
      PROVE  m \in {<<"service", s>> : s \in ServicesOf(a)}
  BY <1>1, EdgeCases DEF ServicesOf
<1>2. ASSUME NEW s \in ServicesOf(a)
      PROVE  /\ <<"service", s>> \in BuildFromStorage.nodes
             /\ <<<<"asset", a>>, <<"service", s>>>> \in RowEdges
  BY EdgeCases DEF ServicesOf, BuildFromStorage, ServicePart, Rows
<1> QED BY <1>1, <1>2, RelationshipsAddNothing DEF ServicesFor

----------------------------------------------------------------------------
(* Evidence *)

\* What the explanation of a host cites.
Cited(a) == EvidenceOf("asset", a) \cup UNION {EvidenceOf("service", s) : s \in ServicesOf(a)}

LEMMA HostExplained ==
  ASSUME NEW q
  PROVE  ExplainAsset(q) =
           {Explanation("asset", a, Cited(a), HostConfidence(Cited(a))) : a \in AssetsFor(q)}
  BY DEF ExplainAsset, Cited

LEMMA ServiceExplained ==
  ASSUME NEW s, NEW e \in ExplainGeneral(<<"service", s>>)
  PROVE  e.evidence = EvidenceOf("service", s) /\ (e.sufficient <=> e.evidence # {})
<1>1. e \in ExplainService(<<"service", s>>)
  BY DEF ExplainGeneral
<1>2. PICK how : e = Explanation("service", s, EvidenceOf("service", s), how)
  BY <1>1 DEF ExplainService
<1>3. e.evidence = EvidenceOf("service", s)
  BY <1>2 DEF Explanation
<1>4. e.sufficient = (EvidenceOf("service", s) # {})
  BY <1>2 DEF Explanation
<1> QED BY <1>3, <1>4

LEMMA EvidenceCited ==
  ASSUME LoneInv, DoneInv PROVE EvidenceAgrees
<1> DEFINE g == BuildFromStorage
           Beside(n) == {e \in DOMAIN evidence : <<"evidence", e>> \in Neighbors(g, n)}
           Node(f) == IF f.kind = "iface" THEN <<"asset", iface[f.id].asset>> ELSE <<f.kind, f.id>>
<1> SUFFICES ASSUME Quiet
             PROVE  /\ \A f \in Findings : f.evidence = Beside(Node(f))
                    /\ \A s \in Rows("service", service) :
                         \A e \in ExplainGeneral(s) : e.evidence = Beside(s)
                    /\ \A a \in AssetNodes : \A e \in ExplainGeneral(a) :
                         e.evidence = Beside(a) \cup UNION {Beside(s) : s \in ServicesFor(g, a)}
  BY DEF EvidenceAgrees
<1>1. \A id : Beside(<<"asset", id>>) = EvidenceOf("asset", id)
  BY EvidenceBeside DEF Quiet
<1>2. \A id : Beside(<<"service", id>>) = EvidenceOf("service", id)
  BY EvidenceBeside DEF Quiet
<1>3. \A a : ServicesFor(g, <<"asset", a>>) = {<<"service", s>> : s \in ServicesOf(a)}
  BY ServicesOfHost DEF Quiet
<1> HIDE DEF g, Beside
<1>4. ASSUME NEW f \in Findings PROVE f.evidence = Beside(Node(f))
  <2>1. CASE f \in ServiceExposure \cup OTIndicator(DOMAIN service)
    BY <1>2, <2>1 DEF ServiceExposure, OTIndicator, Finding
  <2>2. CASE f \in GlobalAddress
    BY <1>1, <2>2 DEF GlobalAddress, Finding
  <2>3. CASE f \in MultiInterface
    BY <1>1, <2>3 DEF MultiInterface, Finding
  <2> QED BY <2>1, <2>2, <2>3 DEF Findings, BuiltinRules
<1>5. ASSUME NEW s \in DOMAIN service, NEW e \in ExplainGeneral(<<"service", s>>)
      PROVE  e.evidence = Beside(<<"service", s>>)
  BY <1>2, ServiceExplained
<1>6. ASSUME NEW a \in DOMAIN asset, NEW e \in ExplainGeneral(<<"asset", a>>)
      PROVE  e.evidence = Beside(<<"asset", a>>)
               \cup UNION {Beside(s) : s \in ServicesFor(g, <<"asset", a>>)}
  <2>1. e \in ExplainAsset(<<"asset", a>>)
    BY DEF ExplainGeneral
  <2>2. AssetsFor(<<"asset", a>>) = {a}
    BY DEF AssetsFor
  <2>3. e.evidence = Cited(a)
    BY <2>1, <2>2, HostExplained DEF Explanation
  <2>4. /\ \A t \in ServicesFor(g, <<"asset", a>>) : \E s \in ServicesOf(a) :
             Beside(t) = EvidenceOf("service", s)
        /\ \A s \in ServicesOf(a) : \E t \in ServicesFor(g, <<"asset", a>>) :
             Beside(t) = EvidenceOf("service", s)
    <3>1. ASSUME NEW t \in ServicesFor(g, <<"asset", a>>)
          PROVE  \E s \in ServicesOf(a) : Beside(t) = EvidenceOf("service", s)
      <4>1. PICK s \in ServicesOf(a) : t = <<"service", s>>
        BY <1>3
      <4> QED BY <1>2, <4>1
    <3>2. ASSUME NEW s \in ServicesOf(a)
          PROVE  \E t \in ServicesFor(g, <<"asset", a>>) : Beside(t) = EvidenceOf("service", s)
      <4>1. <<"service", s>> \in ServicesFor(g, <<"asset", a>>)
        BY <1>3
      <4> QED BY <1>2, <4>1
    <3> QED BY <3>1, <3>2
  <2>5. UNION {Beside(s) : s \in ServicesFor(g, <<"asset", a>>)}
          = UNION {EvidenceOf("service", s) : s \in ServicesOf(a)}
    BY <2>4
  <2> QED BY <1>1, <2>3, <2>5 DEF Cited
<1> QED BY <1>4, <1>5, <1>6 DEF Rows, AssetNodes

\* The rules, the explainer and the graph cite the same evidence of every host and
\* service, as long as no statement has failed.
THEOREM EvidenceAgreesCorrect == ASSUME Alone PROVE Spec => []EvidenceAgrees
  BY LoneInvCorrect, DoneInvCorrect, EvidenceCited, PTL

----------------------------------------------------------------------------
(* Explanations *)

LEMMA TwoElements ==
  ASSUME NEW S, IsFiniteSet(S), NEW x \in S, NEW y \in S, x # y
  PROVE  Cardinality(S) >= 2
<1>1. IsFiniteSet({x}) /\ Cardinality({x}) = 1
  BY FS_Singleton
<1>2. IsFiniteSet({x} \cup {y}) /\ Cardinality({x} \cup {y}) = 2
  <2>1. IsFiniteSet({x} \cup {y})
    BY <1>1, FS_AddElement, Zenon
  <2>2. Cardinality({x} \cup {y}) =
          IF y \in {x} THEN Cardinality({x}) ELSE Cardinality({x}) + 1
    BY <1>1, FS_AddElement, Zenon
  <2>3. y \notin {x}
    OBVIOUS
  <2> QED BY <1>1, <2>1, <2>2, <2>3
<1>3. {x} \cup {y} \subseteq S
  OBVIOUS
<1>4. Cardinality({x} \cup {y}) <= Cardinality(S)
  BY <1>3, FS_Subset
<1>5. Cardinality(S) \in Nat
  BY FS_CardinalityType
<1> QED BY <1>2, <1>4, <1>5

LEMMA NoOtherKind == ASSUME NEW a, NEW s
                     PROVE  EvidenceOf("asset", a) \cap EvidenceOf("service", s) = {}
<1> SUFFICES ASSUME NEW e \in EvidenceOf("asset", a) \cap EvidenceOf("service", s) PROVE FALSE
  OBVIOUS
<1>1. evidence[e].kind = "asset" /\ evidence[e].kind = "service"
  BY DEF EvidenceOf
<1> QED BY <1>1

\* What is recorded of a host makes it, and its services, explainable.
LEMMA RecordedIsExplained ==
  ASSUME LoneInv, NEW j \in Job, Recorded(j)
  PROVE  /\ j.asset \in DOMAIN asset
         /\ EvidenceOf("asset", j.asset) # {}
         /\ \A s \in ServicesOf(j.asset) : service[s].port \in j.ports =>
              EvidenceOf("service", s) # {}
         /\ j.ports # {} => \E s \in ServicesOf(j.asset) : EvidenceOf("service", s) # {}
         /\ j.addr # NoAddr => AssetsFor(<<"addr", j.addr>>) = {j.asset}
<1>1. PICK e \in DOMAIN evidence : evidence[e] = [kind |-> "asset", entity |-> j.asset]
  BY DEF Recorded
<1>2. j.asset \in DOMAIN asset /\ EvidenceOf("asset", j.asset) # {}
  <2>1. evidence[e].kind = "asset" /\ evidence[e].entity = j.asset
    BY <1>1
  <2> QED BY <1>1, <2>1 DEF LoneInv, Inv, ReferencesResolve, EvidenceOf
<1>3. ASSUME NEW port \in j.ports
      PROVE  \E s \in DOMAIN service : /\ service[s] = [asset |-> j.asset, port |-> port]
                                       /\ EvidenceOf("service", s) # {}
  BY DEF Recorded, EvidenceOf
<1>4. ASSUME NEW s \in ServicesOf(j.asset), service[s].port \in j.ports
      PROVE  EvidenceOf("service", s) # {}
  <2>1. PICK t \in DOMAIN service : /\ service[t] = [asset |-> j.asset, port |-> service[s].port]
                                    /\ EvidenceOf("service", t) # {}
    BY <1>3, <1>4
  <2>2. s \in DOMAIN service /\ service[s].asset = j.asset /\ service[s] \in ServiceRow
    BY DEF ServicesOf, LoneInv, Inv, TypeOK, TablesOK, IsTable
  <2>3. service[s] = service[t]
    BY <2>1, <2>2 DEF ServiceRow
  <2>4. s = t
    BY <2>2, <2>3 DEF LoneInv, Good, OneServicePerEndpoint
  <2> QED BY <2>1, <2>4
<1>5. ASSUME NEW port \in j.ports
      PROVE  \E s \in ServicesOf(j.asset) : EvidenceOf("service", s) # {}
  BY <1>3 DEF ServicesOf
<1>6. ASSUME j.addr # NoAddr PROVE AssetsFor(<<"addr", j.addr>>) = {j.asset}
  <2> DEFINE holders == {iface[i].asset : i \in {i \in DOMAIN iface : iface[i].addr = j.addr}}
  <2>1. PICK i \in DOMAIN iface : iface[i] = [asset |-> j.asset, addr |-> j.addr]
    BY <1>6 DEF Recorded
  <2>2. iface[i].asset = j.asset /\ iface[i].addr = j.addr
    BY <2>1
  <2>3. \A k \in DOMAIN iface : iface[k].addr = j.addr => k = i
    BY <2>2 DEF LoneInv, Good, OneInterfacePerAddress
  <2>4. holders = {j.asset}
    BY <2>2, <2>3
  <2>5. AssetsFor(<<"addr", j.addr>>) = IF holders = {} THEN {} ELSE {Min(holders)}
    BY DEF AssetsFor
  <2> HIDE DEF holders
  <2>6. j.asset \in Nat
    BY DEF Job
  <2>7. Min({j.asset}) \in {j.asset}
    BY <2>6, MinExists
  <2> QED BY <2>4, <2>5, <2>7
<1> QED BY <1>2, <1>4, <1>5, <1>6

LEMMA HostConfident ==
  ASSUME LoneInv, NEW j \in Job, Recorded(j)
  PROVE  Cited(j.asset) # {} /\ (j.ports # {} => HostConfidence(Cited(j.asset)) = "HIGH")
<1>1. Cited(j.asset) # {}
  BY RecordedIsExplained DEF Cited
<1>2. ASSUME j.ports # {} PROVE HostConfidence(Cited(j.asset)) = "HIGH"
  <2>1. IsFiniteSet(Cited(j.asset))
    <3>1. Cited(j.asset) \subseteq DOMAIN evidence
      BY DEF Cited, EvidenceOf
    <3> QED BY <3>1, TablesFinite, FS_Subset DEF LoneInv
  <2>2. PICK s \in ServicesOf(j.asset) : EvidenceOf("service", s) # {}
    BY <1>2, RecordedIsExplained
  <2>3. PICK x \in EvidenceOf("asset", j.asset), y \in EvidenceOf("service", s) : TRUE
    BY <2>2, RecordedIsExplained
  <2>4. x \in Cited(j.asset) /\ y \in Cited(j.asset) /\ x # y
    BY NoOtherKind DEF Cited
  <2>5. Cardinality(Cited(j.asset)) >= 2
    BY <2>1, <2>4, TwoElements
  <2>6. Cardinality(Cited(j.asset)) \in Nat
    BY <2>1, FS_CardinalityType
  <2> QED BY <1>1, <2>5, <2>6 DEF HostConfidence
<1> QED BY <1>1, <1>2

LEMMA DoneExplained == ASSUME LoneInv, DoneInv PROVE DoneIsExplained
<1> SUFFICES ASSUME Quiet, NEW p \in Proc, outcome[p] = "ok", NEW j, j = job[p]
             PROVE
    LET host == ExplainGeneral(<<"asset", j.asset>>)
        seen == {s \in ServicesOf(j.asset) : service[s].port \in j.ports}
        about == {<<"asset", j.asset>>} \cup {<<"iface", i>> : i \in InterfacesOf(j.asset)}
                 \cup {<<"service", s>> : s \in seen}
    IN  /\ host # {}
        /\ j.addr # NoAddr => ExplainGeneral(<<"addr", j.addr>>) = host
        /\ asset[j.asset] # NoName =>
             host \subseteq ExplainGeneral(<<"name", asset[j.asset]>>)
        /\ \A e \in host : e.sufficient /\ (j.ports # {} => e.confidence = "HIGH")
        /\ \A s \in seen : \A e \in ExplainGeneral(<<"service", s>>) : e.sufficient
        /\ \A f \in Findings : <<f.kind, f.id>> \in about => f.evidence # {}
  BY DEF DoneIsExplained
<1> DEFINE host == ExplainGeneral(<<"asset", j.asset>>)
           seen == {s \in ServicesOf(j.asset) : service[s].port \in j.ports}
           about == {<<"asset", j.asset>>} \cup {<<"iface", i>> : i \in InterfacesOf(j.asset)}
                    \cup {<<"service", s>> : s \in seen}
           answer == Explanation("asset", j.asset, Cited(j.asset), HostConfidence(Cited(j.asset)))
<1>1. j \in Job /\ Recorded(j)
  BY JobHere DEF Quiet, DoneInv, DoneOK, LoneInv
<1>2. j.asset \in DOMAIN asset
  BY <1>1, RecordedIsExplained
<1>3. AssetsFor(<<"asset", j.asset>>) = {j.asset}
  BY <1>2 DEF AssetsFor
<1>4. host = {answer}
  BY <1>3, HostExplained DEF ExplainGeneral
<1>5. answer.sufficient /\ (j.ports # {} => answer.confidence = "HIGH")
  BY <1>1, HostConfident DEF Explanation
<1> HIDE DEF host
<1>6. ASSUME j.addr # NoAddr PROVE ExplainGeneral(<<"addr", j.addr>>) = host
  <2>1. ExplainAsset(<<"addr", j.addr>>) = {answer}
    BY <1>1, <1>6, RecordedIsExplained, HostExplained
  <2> HIDE DEF answer
  <2> QED BY <1>4, <2>1 DEF ExplainGeneral
<1>7. ASSUME asset[j.asset] # NoName
      PROVE  host \subseteq ExplainGeneral(<<"name", asset[j.asset]>>)
  <2>1. j.asset \in AssetsFor(<<"name", asset[j.asset]>>)
    BY <1>2 DEF AssetsFor
  <2>2. answer \in ExplainAsset(<<"name", asset[j.asset]>>)
    BY <2>1, HostExplained
  <2> HIDE DEF answer
  <2> QED BY <1>4, <2>2 DEF ExplainGeneral
<1> HIDE DEF answer
<1>8. ASSUME NEW s \in seen, NEW e \in ExplainGeneral(<<"service", s>>) PROVE e.sufficient
  <2>1. EvidenceOf("service", s) # {}
    BY <1>1, RecordedIsExplained
  <2> QED BY <2>1, ServiceExplained
<1>9. ASSUME NEW f \in Findings, <<f.kind, f.id>> \in about PROVE f.evidence # {}
  <2>1. CASE f \in ServiceExposure \cup OTIndicator(DOMAIN service)
    <3>1. f.kind = "service" /\ f.evidence = EvidenceOf("service", f.id)
      BY <2>1 DEF ServiceExposure, OTIndicator, Finding
    <3>2. f.id \in seen
      BY <1>9, <3>1
    <3> QED BY <1>1, <3>1, <3>2, RecordedIsExplained
  <2>2. CASE f \in GlobalAddress
    <3>1. f.kind = "iface" /\ f.evidence = EvidenceOf("asset", iface[f.id].asset)
      BY <2>2 DEF GlobalAddress, Finding
    <3>2. iface[f.id].asset = j.asset
      BY <1>9, <3>1 DEF InterfacesOf
    <3> QED BY <1>1, <3>1, <3>2, RecordedIsExplained
  <2>3. CASE f \in MultiInterface
    <3>1. f.kind = "asset" /\ f.evidence = EvidenceOf("asset", f.id)
      BY <2>3 DEF MultiInterface, Finding
    <3>2. f.id = j.asset
      BY <1>9, <3>1
    <3> QED BY <1>1, <3>1, <3>2, RecordedIsExplained
  <2> QED BY <2>1, <2>2, <2>3 DEF Findings, BuiltinRules
<1>10. host # {} /\ \A e \in host : e.sufficient /\ (j.ports # {} => e.confidence = "HIGH")
  BY <1>4, <1>5
<1> HIDE DEF seen, about
<1> QED BY <1>6, <1>7, <1>8, <1>9, <1>10 DEF host, seen, about

\* What IngestHost reports done can be explained by its address, its hostname and its
\* services, and no rule reports anything on what was seen without evidence, as long
\* as no statement has failed.
THEOREM DoneIsExplainedCorrect == ASSUME Alone PROVE Spec => []DoneIsExplained
  BY LoneInvCorrect, DoneInvCorrect, DoneExplained, PTL

----------------------------------------------------------------------------
(* What the rows of the graph are joined by *)

GraphNodes == AssetNodes \cup InterfacePart.nodes \cup ServicePart.nodes \cup EvidencePart.nodes

LEMMA EdgesJoinNodes ==
  ASSUME LoneInv, faults = 0, NEW m, NEW n, <<m, n>> \in RowEdges
  PROVE  m \in GraphNodes /\ n \in GraphNodes
<1>1. CASE \E i \in DOMAIN iface : m = <<"asset", iface[i].asset>> /\ n = <<"iface", i>>
  BY <1>1 DEF GraphNodes, AssetNodes, InterfacePart, Rows, LoneInv, Inv, ReferencesResolve
<1>2. CASE \E s \in DOMAIN service : m = <<"asset", service[s].asset>> /\ n = <<"service", s>>
  BY <1>2 DEF GraphNodes, AssetNodes, ServicePart, Rows, LoneInv, Inv, ReferencesResolve
<1>3. CASE \E s \in DOMAIN service : m = <<"service", s>> /\ n = <<"proto", service[s].port>>
  BY <1>3 DEF GraphNodes, ServicePart, Rows
<1>4. CASE \E e \in DOMAIN evidence :
             m = <<"evidence", e>> /\ n = <<evidence[e].kind, evidence[e].entity>>
  <2>1. PICK e \in DOMAIN evidence :
          m = <<"evidence", e>> /\ n = <<evidence[e].kind, evidence[e].entity>>
    BY <1>4
  <2>2. evidence[e].kind \in {"asset", "service"}
    BY DEF LoneInv, Inv, TypeOK, TablesOK, IsTable, EvidenceRow
  <2>3. CASE evidence[e].kind = "asset"
    BY <2>1, <2>3 DEF GraphNodes, AssetNodes, EvidencePart, Rows, LoneInv, Inv, ReferencesResolve
  <2>4. CASE evidence[e].kind = "service"
    BY <2>1, <2>4 DEF GraphNodes, ServicePart, EvidencePart, Rows, LoneInv, Good, ServiceLinksAgree
  <2> QED BY <2>2, <2>3, <2>4
<1> QED BY <1>1, <1>2, <1>3, <1>4, EdgeCases

LEMMA EndsAreNodes ==
  ASSUME LoneInv, DoneInv, faults = 0 PROVE Ends(BuildFromStorage) = BuildFromStorage.nodes
<1>1. BuildFromStorage.edges = RowEdges /\ BuildFromStorage.nodes = GraphNodes
  BY RelationshipsAddNothing DEF BuildFromStorage, GraphNodes
<1>2. \A e \in RowEdges : e[1] \in GraphNodes /\ e[2] \in GraphNodes
  BY EdgesArePairs, EdgesJoinNodes
<1> QED BY <1>1, <1>2 DEF Ends

\* Every other row has an edge.
LEMMA IsolatedAreAssets ==
  ASSUME LoneInv, DoneInv, faults = 0
  PROVE  IsolatedNodes(BuildFromStorage) \subseteq AssetNodes
<1>1. BuildFromStorage.edges = RowEdges /\ BuildFromStorage.nodes = GraphNodes
  BY RelationshipsAddNothing DEF BuildFromStorage, GraphNodes
<1>2. ASSUME NEW n \in GraphNodes \ AssetNodes
      PROVE  \E m : <<m, n>> \in RowEdges \/ <<n, m>> \in RowEdges
  <2>1. CASE n \in InterfacePart.nodes
    <3>1. PICK i \in DOMAIN iface : n = <<"iface", i>>
      BY <2>1 DEF InterfacePart, Rows
    <3>2. <<<<"asset", iface[i].asset>>, n>> \in RowEdges
      BY <3>1, EdgeCases
    <3> QED BY <3>2
  <2>2. CASE n \in ServicePart.nodes
    <3>1. CASE n \in Rows("service", service)
      <4>1. PICK s \in DOMAIN service : n = <<"service", s>>
        BY <3>1 DEF Rows
      <4>2. <<<<"asset", service[s].asset>>, n>> \in RowEdges
        BY <4>1, EdgeCases
      <4> QED BY <4>2
    <3>2. CASE \E s \in DOMAIN service : n = <<"proto", service[s].port>>
      BY <3>2, EdgeCases
    <3> QED BY <2>2, <3>1, <3>2 DEF ServicePart
  <2>3. CASE n \in EvidencePart.nodes
    <3>1. PICK e \in DOMAIN evidence : n = <<"evidence", e>>
      BY <2>3 DEF EvidencePart, Rows
    <3>2. <<n, <<evidence[e].kind, evidence[e].entity>>>> \in RowEdges
      BY <3>1, EdgeCases
    <3> QED BY <3>2
  <2> QED BY <2>1, <2>2, <2>3 DEF GraphNodes
<1>3. ASSUME NEW n, NEW m, <<m, n>> \in RowEdges \/ <<n, m>> \in RowEdges
      PROVE  \E e \in RowEdges : n \in {e[1], e[2]}
  BY <1>3
<1> QED BY <1>1, <1>2, <1>3 DEF IsolatedNodes

\* An interface or a service has the host of its row, and no other.
LEMMA HostOfRow ==
  ASSUME LoneInv, DoneInv, faults = 0
  PROVE  /\ \A i \in DOMAIN iface :
              HostsFor(BuildFromStorage, <<"iface", i>>) = {<<"asset", iface[i].asset>>}
         /\ \A s \in DOMAIN service :
              HostsFor(BuildFromStorage, <<"service", s>>) = {<<"asset", service[s].asset>>}
<1>1. BuildFromStorage.edges = RowEdges /\ BuildFromStorage.nodes = GraphNodes
  BY RelationshipsAddNothing DEF BuildFromStorage, GraphNodes
<1>2. \A n : HostsFor(BuildFromStorage, n) =
               {m \in GraphNodes : m[1] = "asset" /\ (<<m, n>> \in RowEdges \/ <<n, m>> \in RowEdges)}
  BY <1>1 DEF HostsFor
<1>3. ASSUME NEW i \in DOMAIN iface
      PROVE  HostsFor(BuildFromStorage, <<"iface", i>>) = {<<"asset", iface[i].asset>>}
  <2>1. <<<<"asset", iface[i].asset>>, <<"iface", i>>>> \in RowEdges
    BY EdgeCases
  <2>2. <<"asset", iface[i].asset>> \in GraphNodes
    BY <2>1, EdgesJoinNodes
  <2>3. ASSUME NEW m, m[1] = "asset",
               <<m, <<"iface", i>>>> \in RowEdges \/ <<<<"iface", i>>, m>> \in RowEdges
        PROVE  m = <<"asset", iface[i].asset>>
    <3>1. \A e \in DOMAIN evidence : evidence[e].kind \in {"asset", "service"}
      BY DEF LoneInv, Inv, TypeOK, TablesOK, IsTable, EvidenceRow
    <3> QED BY <2>3, <3>1, EdgeCases
  <2> DEFINE n == <<"iface", i>>
             h == <<"asset", iface[i].asset>>
  <2>4. HostsFor(BuildFromStorage, n) =
          {m \in GraphNodes : m[1] = "asset" /\ (<<m, n>> \in RowEdges \/ <<n, m>> \in RowEdges)}
    BY <1>2
  <2>5. h[1] = "asset"
    OBVIOUS
  <2> HIDE DEF n, h
  <2> QED BY <2>1, <2>2, <2>3, <2>4, <2>5 DEF n, h
<1>4. ASSUME NEW s \in DOMAIN service
      PROVE  HostsFor(BuildFromStorage, <<"service", s>>) = {<<"asset", service[s].asset>>}
  <2>1. <<<<"asset", service[s].asset>>, <<"service", s>>>> \in RowEdges
    BY EdgeCases
  <2>2. <<"asset", service[s].asset>> \in GraphNodes
    BY <2>1, EdgesJoinNodes
  <2>3. ASSUME NEW m, m[1] = "asset",
               <<m, <<"service", s>>>> \in RowEdges \/ <<<<"service", s>>, m>> \in RowEdges
        PROVE  m = <<"asset", service[s].asset>>
    BY <2>3, EdgeCases
  <2> DEFINE n == <<"service", s>>
             h == <<"asset", service[s].asset>>
  <2>4. HostsFor(BuildFromStorage, n) =
          {m \in GraphNodes : m[1] = "asset" /\ (<<m, n>> \in RowEdges \/ <<n, m>> \in RowEdges)}
    BY <1>2
  <2>5. h[1] = "asset"
    OBVIOUS
  <2> HIDE DEF n, h
  <2> QED BY <2>1, <2>2, <2>3, <2>4, <2>5 DEF n, h
<1> QED BY <1>3, <1>4

LEMMA RowsJoined ==
  ASSUME LoneInv, DoneInv, faults = 0 PROVE RowsAreJoined
<1> DEFINE g == BuildFromStorage
<1>1. \A n \in Rows("iface", iface) \cup Rows("service", service) : \E m : HostsFor(g, n) = {m}
  BY HostOfRow DEF Rows
<1>2. ASSUME NEW n \in Rows("iface", iface) \cup Rows("service", service)
      PROVE  Cardinality(HostsFor(g, n)) = 1
  <2>1. PICK m : HostsFor(g, n) = {m}
    BY <1>1
  <2> HIDE DEF g
  <2> QED BY <2>1, FS_Singleton
<1>3. ASSUME NEW a, NEW s \in DOMAIN service
      PROVE  <<"service", s>> \in ServicesFor(g, <<"asset", a>>)
               <=> <<"asset", a>> \in HostsFor(g, <<"service", s>>)
  <2>1. <<"service", s>> \in ServicesFor(g, <<"asset", a>>) <=> service[s].asset = a
    BY ServicesOfHost DEF ServicesOf
  <2>2. <<"asset", a>> \in HostsFor(g, <<"service", s>>) <=> service[s].asset = a
    BY HostOfRow
  <2> QED BY <2>1, <2>2
<1>4. \A n \in AssetNodes, s \in Rows("service", service) :
        s \in ServicesFor(g, n) <=> n \in HostsFor(g, s)
  BY <1>3 DEF AssetNodes, Rows
<1> QED BY <1>2, <1>4, EndsAreNodes, IsolatedAreAssets DEF RowsAreJoined

\* The knowledge graph joins nodes only, isolates nothing but assets, and gives every
\* interface and service the one host of its row, whatever was killed, as long as no
\* statement has failed: the part of GraphIsWhole that needs no search.
THEOREM RowsAreJoinedCorrect == ASSUME Alone PROVE Spec => [](faults = 0 => RowsAreJoined)
<1>1. LoneInv /\ DoneInv => (faults = 0 => RowsAreJoined)
  BY RowsJoined
<1> QED BY <1>1, LoneInvCorrect, DoneInvCorrect, PTL

----------------------------------------------------------------------------
(* What the searches find in the graph of the tables *)

\* The graph has a node for every row of a table, hence finitely many.
LEMMA RowsFinite ==
  ASSUME NEW kind, NEW table, IsFiniteSet(DOMAIN table) PROVE IsFiniteSet(Rows(kind, table))
<1> DEFINE f == [id \in DOMAIN table |-> <<kind, id>>]
<1>1. f \in Surjection(DOMAIN table, Rows(kind, table))
  BY DEF Surjection, Rows
<1> QED BY <1>1, FS_Surjection

\* The graph of the tables is one that the searches of Topology are proved of.
LEMMA BuiltIsGraph ==
  ASSUME LoneInv, DoneInv, faults = 0 PROVE IsGraph(BuildFromStorage)
<1>1. /\ BuildFromStorage.edges = RowEdges /\ BuildFromStorage.nodes = GraphNodes
      /\ Ends(BuildFromStorage) = GraphNodes
  BY RelationshipsAddNothing, EndsAreNodes DEF BuildFromStorage, GraphNodes
<1>2. /\ IsFiniteSet(DOMAIN asset) /\ IsFiniteSet(DOMAIN iface)
      /\ IsFiniteSet(DOMAIN service) /\ IsFiniteSet(DOMAIN evidence)
  BY TablesFinite DEF LoneInv
<1> DEFINE protos == {<<"proto", service[s].port>> : s \in DOMAIN service}
           f == [s \in DOMAIN service |-> <<"proto", service[s].port>>]
<1>3. IsFiniteSet(protos)
  <2>1. f \in Surjection(DOMAIN service, protos)
    BY DEF Surjection
  <2> HIDE DEF f, protos
  <2> QED BY <1>2, <2>1, FS_Surjection
<1>4. /\ IsFiniteSet(Rows("asset", asset)) /\ IsFiniteSet(Rows("iface", iface))
      /\ IsFiniteSet(Rows("service", service)) /\ IsFiniteSet(Rows("evidence", evidence))
  BY <1>2, RowsFinite
<1>5. GraphNodes = Rows("asset", asset) \cup Rows("iface", iface)
                   \cup (Rows("service", service) \cup protos) \cup Rows("evidence", evidence)
  BY DEF GraphNodes, AssetNodes, InterfacePart, ServicePart, EvidencePart
<1> HIDE DEF protos
<1>6. IsFiniteSet(GraphNodes)
  <2>1. IsFiniteSet(Rows("asset", asset) \cup Rows("iface", iface))
    BY <1>4, FS_Union
  <2>2. IsFiniteSet(Rows("service", service) \cup protos)
    BY <1>3, <1>4, FS_Union
  <2>3. IsFiniteSet(Rows("asset", asset) \cup Rows("iface", iface)
                    \cup (Rows("service", service) \cup protos))
    BY <2>1, <2>2, FS_Union
  <2> QED BY <1>4, <1>5, <2>3, FS_Union
<1> QED BY <1>1, <1>6, EdgesArePairs DEF IsGraph

\* An edge joins neighbors.
LEMMA EdgeIsHop ==
  ASSUME LoneInv, DoneInv, faults = 0, NEW m, NEW n, <<m, n>> \in RowEdges
  PROVE  m \in Neighbors(BuildFromStorage, n) /\ n \in Neighbors(BuildFromStorage, m)
<1>1. BuildFromStorage.edges = RowEdges
  BY RelationshipsAddNothing
<1> QED BY <1>1, NeighborsByEdges

\* From every node of the graph one comes to an asset.
LEMMA AssetReached ==
  ASSUME LoneInv, DoneInv, faults = 0, NEW n \in GraphNodes
  PROVE  Reach(BuildFromStorage, n) \cap AssetNodes # {}
<1> DEFINE g == BuildFromStorage
           X == Reach(g, n)
<1>1. IsGraph(g) /\ n \in Ends(g)
  BY BuiltIsGraph, EndsAreNodes DEF BuildFromStorage, GraphNodes
<1>2. n \in X /\ \A m \in X : Neighbors(g, m) \subseteq X
  BY <1>1, ReachCloses
<1>3. ASSUME NEW k, NEW m, <<k, m>> \in RowEdges PROVE k \in X <=> m \in X
  BY <1>2, <1>3, EdgeIsHop
<1> SUFFICES X \cap AssetNodes # {}
  OBVIOUS
<1> HIDE DEF X
<1>4. ASSUME NEW i \in DOMAIN iface, <<"iface", i>> \in X PROVE X \cap AssetNodes # {}
  <2>1. <<<<"asset", iface[i].asset>>, <<"iface", i>>>> \in RowEdges
    BY EdgeCases
  <2>2. iface[i].asset \in DOMAIN asset
    BY DEF LoneInv, Inv, ReferencesResolve
  <2> QED BY <1>3, <1>4, <2>1, <2>2 DEF AssetNodes, Rows
<1>5. ASSUME NEW s \in DOMAIN service, <<"service", s>> \in X PROVE X \cap AssetNodes # {}
  <2>1. <<<<"asset", service[s].asset>>, <<"service", s>>>> \in RowEdges
    BY EdgeCases
  <2>2. service[s].asset \in DOMAIN asset
    BY DEF LoneInv, Inv, ReferencesResolve
  <2> QED BY <1>3, <1>5, <2>1, <2>2 DEF AssetNodes, Rows
<1>6. CASE n \in AssetNodes
  BY <1>2, <1>6
<1>7. CASE n \in InterfacePart.nodes
  BY <1>2, <1>4, <1>7 DEF InterfacePart, Rows
<1>8. CASE n \in ServicePart.nodes
  <2>1. CASE n \in Rows("service", service)
    BY <1>2, <1>5, <2>1 DEF Rows
  <2>2. CASE \E s \in DOMAIN service : n = <<"proto", service[s].port>>
    <3>1. PICK s \in DOMAIN service : n = <<"proto", service[s].port>>
      BY <2>2
    <3>2. <<<<"service", s>>, n>> \in RowEdges
      BY <3>1, EdgeCases
    <3> QED BY <1>2, <1>3, <1>5, <3>2
  <2> QED BY <1>8, <2>1, <2>2 DEF ServicePart
<1>9. CASE n \in EvidencePart.nodes
  <2>1. PICK e \in DOMAIN evidence : n = <<"evidence", e>>
    BY <1>9 DEF EvidencePart, Rows
  <2> DEFINE m == <<evidence[e].kind, evidence[e].entity>>
  <2>2. <<n, m>> \in RowEdges
    BY <2>1, EdgeCases
  <2>3. m \in X
    BY <1>2, <1>3, <2>2
  <2>4. evidence[e].kind \in {"asset", "service"}
    BY DEF LoneInv, Inv, TypeOK, TablesOK, IsTable, EvidenceRow
  <2>5. CASE evidence[e].kind = "asset"
    <3>1. evidence[e].entity \in DOMAIN asset
      BY <2>5 DEF LoneInv, Inv, ReferencesResolve
    <3> QED BY <2>3, <2>5, <3>1 DEF AssetNodes, Rows
  <2>6. CASE evidence[e].kind = "service"
    <3>1. evidence[e].entity \in DOMAIN service
      BY <2>6 DEF LoneInv, Good, ServiceLinksAgree
    <3> QED BY <1>5, <2>3, <2>6, <3>1
  <2> QED BY <2>4, <2>5, <2>6
<1> QED BY <1>6, <1>7, <1>8, <1>9 DEF GraphNodes

\* Its components are those of ComponentsFound; every one holds an asset, since a row of
\* another table is joined to the asset that it refers to.
LEMMA GraphWhole == ASSUME LoneInv, DoneInv PROVE GraphIsWhole
<1> SUFFICES ASSUME faults = 0
             PROVE  LET g == BuildFromStorage
                        components == ConnectedComponents(g)
                    IN  /\ RowsAreJoined
                        /\ UNION components = g.nodes
                        /\ \A c, d \in components : c = d \/ c \cap d = {}
                        /\ \A c \in components : c \cap AssetNodes # {}
  BY DEF GraphIsWhole
<1> DEFINE g == BuildFromStorage
           components == ConnectedComponents(g)
<1>1. IsGraph(g) /\ Ends(g) = g.nodes /\ g.nodes = GraphNodes
  BY BuiltIsGraph, EndsAreNodes DEF BuildFromStorage, GraphNodes
<1>2. /\ \A c \in components : \E n \in g.nodes : c = Reach(g, n)
      /\ g.nodes \subseteq UNION components
      /\ \A c, d \in components : c = d \/ c \cap d = {}
  BY <1>1, ComponentsFound
<1>3. \A n \in g.nodes : Reach(g, n) \subseteq g.nodes
  BY <1>1, ReachCloses
<1>4. \A n \in g.nodes : Reach(g, n) \cap AssetNodes # {}
  BY <1>1, AssetReached
<1>5. RowsAreJoined
  BY RowsJoined
<1> HIDE DEF g, components
<1>6. UNION components = g.nodes
  BY <1>2, <1>3
<1>7. \A c \in components : c \cap AssetNodes # {}
  BY <1>2, <1>4
<1> QED BY <1>2, <1>5, <1>6, <1>7 DEF g, components

\* The graph is whole: its rows are joined, its components share no node and have them
\* all, and each has an asset, although the process may be killed at any statement.
THEOREM GraphIsWholeCorrect == ASSUME Alone PROVE Spec => []GraphIsWhole
<1>1. LoneInv /\ DoneInv => GraphIsWhole
  BY GraphWhole
<1> QED BY <1>1, LoneInvCorrect, DoneInvCorrect, PTL

\* There is a route from an entry to a sensitive service exactly when the graph joins
\* them: the service is one hop from its host.
LEMMA RouteExists ==
  ASSUME LoneInv, DoneInv, faults = 0, NEW a \in DOMAIN asset, NEW s \in DOMAIN service
  PROVE  LET g == BuildFromStorage
             route == RouteTo(a, s)
         IN  /\ route # << >> <=> <<"service", s>> \in Ball(g, <<"asset", a>>, Cardinality(Ends(g)))
             /\ route # << >> => /\ {route[i] : i \in DOMAIN route} \subseteq g.nodes
                                 /\ route[Len(route)] = <<"asset", service[s].asset>>
<1> DEFINE g == BuildFromStorage
           from == <<"asset", a>>
           host == <<"asset", service[s].asset>>
           svc == <<"service", s>>
           route == RouteTo(a, s)
<1>1. IsGraph(g) /\ Ends(g) = g.nodes /\ g.nodes = GraphNodes
  BY BuiltIsGraph, EndsAreNodes DEF BuildFromStorage, GraphNodes
<1>2. from \in g.nodes /\ host \in g.nodes
  <2>1. service[s].asset \in DOMAIN asset
    BY DEF LoneInv, Inv, ReferencesResolve
  <2> QED BY <1>1, <2>1 DEF GraphNodes, AssetNodes, Rows
<1>3. host \in Neighbors(g, svc) /\ svc \in Neighbors(g, host)
  <2>1. <<host, svc>> \in RowEdges
    BY EdgeCases
  <2> HIDE DEF host, svc
  <2> QED BY <2>1, EdgeIsHop
<1>4. route = IF host = from THEN <<from>> ELSE ShortestPath(g, from, host)
  <2>1. host = from <=> service[s].asset = a
    OBVIOUS
  <2> QED BY <2>1 DEF RouteTo, DetailedPath
<1> HIDE DEF g, from, host, svc, route
<1>5. /\ from \in Reach(g, from) /\ Reach(g, from) \subseteq g.nodes
      /\ \A m \in Reach(g, from) : Neighbors(g, m) \subseteq Reach(g, from)
  BY <1>1, <1>2, ReachCloses
<1>6. svc \in Reach(g, from) <=> host \in Reach(g, from)
  BY <1>3, <1>5
<1>7. CASE host = from
  <2>1. route = <<from>>
    BY <1>4, <1>7
  <2>2. route # << >> /\ route[Len(route)] = host /\ {route[i] : i \in DOMAIN route} = {from}
    BY <1>7, <2>1
  <2> QED BY <1>2, <1>5, <1>6, <1>7, <2>2 DEF Reach, g, from, host, svc, route
<1>8. CASE host # from
  <2>1. route = ShortestPath(g, from, host)
    BY <1>4, <1>8
  <2>2. IF host \notin Reach(g, from) THEN route = << >>
        ELSE \E level :
               /\ IsLevel(g, from, Reach(g, from), level)
               /\ route \in Seq(Reach(g, from)) /\ Len(route) = level[host] + 1
               /\ route[1] = from /\ route[Len(route)] = host
    BY <1>1, <1>2, <2>1, PathFound DEF Reach
  <2>3. CASE host \notin Reach(g, from)
    BY <1>6, <2>2, <2>3 DEF Reach, g, from, host, svc, route
  <2>4. CASE host \in Reach(g, from)
    <3>1. PICK level :
            /\ IsLevel(g, from, Reach(g, from), level)
            /\ route \in Seq(Reach(g, from)) /\ Len(route) = level[host] + 1
            /\ route[1] = from /\ route[Len(route)] = host
      BY <2>2, <2>4
    <3>2. level[host] \in Nat
      BY <2>4, <3>1 DEF IsLevel
    <3>3. route # << >>
      BY <3>1, <3>2
    <3>4. {route[i] : i \in DOMAIN route} \subseteq g.nodes
      BY <1>5, <3>1
    <3> QED BY <1>6, <2>4, <3>1, <3>3, <3>4 DEF Reach, g, from, host, svc, route
  <2> QED BY <2>3, <2>4
<1> QED BY <1>7, <1>8

\* The entries and the targets of attack paths are nodes of the graph.
LEMMA EntriesAreStored ==
  ASSUME Inv PROVE EntryAssets \subseteq DOMAIN asset /\ PathTargets \subseteq DOMAIN service
<1>1. DOMAIN asset \subseteq Nat
  BY TablesFinite
<1>2. DOMAIN asset # {} => Min(DOMAIN asset) \in DOMAIN asset
  BY <1>1, MinExists
<1>3. \A i \in DOMAIN iface : iface[i].asset \in DOMAIN asset
  BY DEF Inv, ReferencesResolve
<1>4. MultiHomed \subseteq DOMAIN asset
  BY DEF MultiHomed
<1>5. EntryAssets \subseteq DOMAIN asset
  BY <1>2, <1>3, <1>4 DEF EntryAssets
<1> QED BY <1>5 DEF PathTargets, ServicesOn

\* A route of three hops, from an entry by its own rows to the service, is a walk of the
\* graph; so a target without a path is one that no entry reaches.
LEMMA PathsComplete == ASSUME LoneInv, DoneInv PROVE AttackPathsComplete
<1> DEFINE g == BuildFromStorage
           paths == GetAttackPaths
<1> SUFFICES ASSUME faults = 0
             PROVE  /\ \A a \in EntryAssets, s \in PathTargets :
                         (\E p \in paths : p.entry = a /\ p.service = s)
                           <=> <<"service", s>> \in Ball(g, <<"asset", a>>, Cardinality(Ends(g)))
                    /\ \A p \in paths :
                         /\ {p.nodes[i] : i \in DOMAIN p.nodes} \subseteq g.nodes
                         /\ HostsFor(g, <<"service", p.service>>) = {p.nodes[Len(p.nodes)]}
  BY DEF AttackPathsComplete, Quiet
<1>1. EntryAssets \subseteq DOMAIN asset /\ PathTargets \subseteq DOMAIN service
  BY EntriesAreStored DEF LoneInv
<1>2. paths = {p \in {[entry |-> a, service |-> s, nodes |-> RouteTo(a, s)] :
                        a \in EntryAssets, s \in PathTargets} : p.nodes # << >>}
  BY DEF GetAttackPaths
<1> HIDE DEF paths
<1>3. ASSUME NEW a \in EntryAssets, NEW s \in PathTargets
      PROVE  (\E p \in paths : p.entry = a /\ p.service = s)
               <=> <<"service", s>> \in Ball(g, <<"asset", a>>, Cardinality(Ends(g)))
  <2>1. (\E p \in paths : p.entry = a /\ p.service = s) <=> RouteTo(a, s) # << >>
    <3> DEFINE q == [entry |-> a, service |-> s, nodes |-> RouteTo(a, s)]
    <3>1. ASSUME RouteTo(a, s) # << >> PROVE q \in paths /\ q.entry = a /\ q.service = s
      BY <1>2, <3>1
    <3>2. ASSUME NEW p \in paths, p.entry = a, p.service = s PROVE RouteTo(a, s) # << >>
      <4>1. /\ p \in {[entry |-> b, service |-> t, nodes |-> RouteTo(b, t)] :
                        b \in EntryAssets, t \in PathTargets}
            /\ p.nodes # << >>
        BY <1>2
      <4>2. p.nodes = RouteTo(a, s)
        BY <3>2, <4>1
      <4> QED BY <4>1, <4>2
    <3> HIDE DEF q
    <3> QED BY <3>1, <3>2
  <2> QED BY <1>1, <2>1, RouteExists
<1>4. ASSUME NEW p \in paths
      PROVE  /\ {p.nodes[i] : i \in DOMAIN p.nodes} \subseteq g.nodes
             /\ HostsFor(g, <<"service", p.service>>) = {p.nodes[Len(p.nodes)]}
  <2>1. PICK a \in EntryAssets, s \in PathTargets :
          p = [entry |-> a, service |-> s, nodes |-> RouteTo(a, s)]
    <3>1. p \in {[entry |-> a, service |-> s, nodes |-> RouteTo(a, s)] :
                   a \in EntryAssets, s \in PathTargets}
      BY <1>2
    <3> QED BY <3>1
  <2>2. p.service = s /\ p.nodes = RouteTo(a, s) /\ RouteTo(a, s) # << >>
    BY <1>2, <2>1
  <2>3. /\ {RouteTo(a, s)[i] : i \in DOMAIN RouteTo(a, s)} \subseteq g.nodes
        /\ RouteTo(a, s)[Len(RouteTo(a, s))] = <<"asset", service[s].asset>>
    BY <1>1, <2>2, RouteExists
  <2>4. HostsFor(g, <<"service", s>>) = {<<"asset", service[s].asset>>}
    BY <1>1, HostOfRow
  <2> HIDE DEF g
  <2> QED BY <2>2, <2>3, <2>4
<1> QED BY <1>3, <1>4

\* An attack path is reported exactly for the entries and sensitive services that the
\* graph joins, over nodes of the graph and to the only host of the service, after any
\* ingestions and kills of the one process.
THEOREM AttackPathsCompleteCorrect == ASSUME Alone PROVE Spec => []AttackPathsComplete
<1>1. LoneInv /\ DoneInv => AttackPathsComplete
  BY PathsComplete
<1> QED BY <1>1, LoneInvCorrect, DoneInvCorrect, PTL

=============================================================================
