# TLA+ models of Falcon Toolkit

This directory holds TLA+ modules translated from the Go code under `src/`,
the TLC configurations that check them on small instances, and theorems that
TLAPS proves for every instance. `PROJECT.json` maps every definition to the
lines it stands for and every run to its properties.

## 1. Inventory

Falcon is a single-user command-line program. A *workspace* is a SQLite file;
everything the program learns about hosts goes through the observation pipeline
into it, and assessments read it back. Within a process the workspace database
is used by one call at a time; two processes (`falcon`, `falcon-ctl`, or two
shells) may have one workspace open, with WAL, `foreign_keys` on and a busy
timeout of five seconds (`storage/database.go:28`).

| component | state | operations | what is hard, what makes it correct |
|---|---|---|---|
| sequences (`storage/repository.go:17`) | table `sequences` | `NextSequence` | three statements, never in one transaction; numbers must be fresh |
| entity tables (`storage/`) | one table per kind | `Save*`, `Get*`, `List*`, `Delete*` | select-then-insert-or-update; which columns an update leaves alone |
| database, migrations (`storage/database.go`, `migrations.go`) | `schema_metadata` | `Open`, `migrate` | version read outside the transaction; two processes that open a new file; crash inside a migration |
| observation pipeline (`observation/`) | assets, interfaces, services, evidence, relationships, networks | `IngestHost`, `IngestNetwork`, `ResolveHost` | no transaction; ignored errors; one row per address and endpoint, links that resolve |
| active probing (`engine/active`) | channels, goroutines, limiter | `ProbeHost`, `EvaluateMatrix` | cancellation, buffers, close against send; every port answered once |
| collectors (`collector/`) | none but the registry | `Run`, `Supports`, `Register`, `Applicable` | TCP pool; a failing collector must not end the run |
| executor, planner (`assessment/executor.go`, `planner.go`) | table `assessment_runs` | `Execute` | panics, timeouts, cancellation, crash after the first save; the row tells what happened |
| assessment engine, rules (`assessment/engine.go`, `rules.go`) | findings, assessments, snapshots | `Run` | matching with stored findings; failures in the middle; counts and snapshot agree |
| explainer (`assessment/explain.go`) | none | `ExplainAsset`, `ExplainService`, `ExplainGeneral`, ... | what a query resolves to; the evidence cited is that of the rules and the graph |
| scope guard (`scope/guard.go`) | inclusions, exclusions | `Validate`, `IsIPAllowed`, ... | precedence of exclusions for addresses, networks, domains |
| session (`core/session.go`, `cli/repl.go`) | targets, rules, guard, profile, postures, evidence under a mutex | `SetTargets`, `AddTarget`, `AddScopeRule`, `SetPosture`, `AddDiscoveredHost`, ... | compiled scope agrees with the lists; what is probed is in scope; postures written by audits and listeners; 32-bit range expansion |
| target parser (`target/parser.go`) | none | `ClassifyAndNormalize` | what an input is taken for decides which exclusions apply to it |
| workspace manager (`workspace/manager.go`) | active name, handle, directories | `Create`, `Use`, `List`, `GetInfo`, `Delete`, `Export`, `ImportArchive` | name, handle and directory agree after a failure, with another process at work |
| facade (`app/app.go`) | through the repository | `SetTarget`, `AddScopeRule`, `ExecuteAssessment`, `CreateSnapshot`, ...; `GetAttackSurface`, `GetAttackPaths`, `GetPivotCandidates`, `GetTrustBoundaries` | a target checked once and used later; what was acknowledged stays; audit identifiers; analyses that count rows written by calls that were cut short |
| graph (`graph/`) | nodes, edges under a mutex | build, paths, components, simulate | edges over missing nodes; shortest paths (a graph is built anew for every command, so the recursive read lock cannot block) |
| identity fusion (`identity/fusion.go`) | identities, drifts | `IngestObservation` | only fed kinds of observations that record no drift |
| passive sniffer (`engine/passive`) | sockets, a context | `Start`, listeners, callbacks | nobody waits for the listeners; callbacks while the shell writes the session |
| recon, firewall, egress (`engine/...`) | none | single exchanges | bytes on the wire |
| importer (`importer/`) | through the pipeline | preview, commit | a batch cut short |
| reporting (`reporting/`) | none | `Diff`, reports | fingerprints as keys |
| evidence, audit, modules, exporters, CLI, terminal, config, types | little or none | pass on, print | lineage and audit identifiers only |

Interactions: the CLI calls the facade; the facade calls the executor, the
importer and the repository; the executor runs collectors one after another
(each under a timeout of its own), gives their observations to the pipeline and
then runs the assessment engine; the pipeline and the engine call the
repository; each row is numbered by `NextSequence`. Callbacks: the sniffer's
`onDiscovery` runs on a listener's goroutine and writes the session. `falcon-ctl`
has a shell of its own (`cli/repl.go`) over the session in memory; it uses the
database for nothing that the session needs.

## 2. Modules

| module | models | kind |
|---|---|---|
| `UniqueIds` | what an issuer of numbers promises | abstract |
| `SequenceStore` | `DB.NextSequence`, one action per SQL statement | component |
| `HostIngest` | `Pipeline.IngestHost`, `Resolver.ResolveHost` and the `Save` methods they call, one action per SQL statement | component |
| `ProbePool` | the worker pool of `ProbeHost`, `EvaluateMatrix` and `TCPCollector.Run` | component |
| `RunLifecycle` | what `assessment_runs` promises its readers | abstract |
| `AssessmentRun` | `Executor.Execute` | component |
| `FindingStore` | `Engine.Run` and the finding, assessment and snapshot saves | component |
| `Migrations` | `storage.Open` and `DB.migrate`, one action per SQL statement | component |
| `Workspaces` | `workspace.Manager` of several processes, over `Migrations` | composition |
| `ScopeGuard` | `target.ClassifyAndNormalize` and every decision of `scope.ScopeGuard`, as operators | algorithms |
| `Records` | what the facade's calls share: tables, numbers, audit trail, what was acknowledged | component |
| `Targets` | targets, scope rules and the scope check of an assessment, over `ScopeGuard` | component |
| `Journal` | tags, notes, queries, engagements, objectives, findings, snapshots and their comparison | component |
| `Importer` | `ImportFile`, its format detection and its six parsers, `IngestNetwork` | component |
| `Engagement` | the commands of `falcon` that change the database, over `Targets`, `Journal` and `Importer` | composition |
| `Topology` | `graph.Graph` with its searches, as operators | algorithms |
| `Simulator` | the subnet graph, the blast score and the simulated block rule, as operators over `Topology` | algorithms |
| `Knowledge` | `BuildFromStorage` over the tables of `HostIngest`, with the searches of `Topology` | composition |
| `Intelligence` | the rules, the explainer and the facade's analyses, over `Knowledge` | composition |
| `Sniffer` | `PassiveSniffer` and its listeners | component |
| `Session` | `falcon-ctl`: the session, its shell and audits, over `ScopeGuard`, `Simulator` and `Sniffer` | composition |
| `MCIntelligence`, `MCEngagement`, `MCSession` | the small instances of ingestion with its readers and of the two shells | instances |
| `...Proofs` | theorems about the module of that name; `HostIngestProofs` also has those about its readers `Knowledge` and `Intelligence`, and `SessionProofs` those about `ProbePool`, with which an audit probes a host | proofs |

Each module contains, next to the definition it changes, a few operators whose
comment begins with "A slip:". They are plausible bugs; replacing the code's
definition by one of them must make a property fail, which shows that the
property says something about the code. They are not part of any specification.

### SequenceStore

`value` is the table, `pc` and `arg` the statement a process is at and its
sequence, `lock` SQLite's write lock, `base` what a rollback restores, `times`
counts how often a number was returned. `Call`, `InsertRow`, `Increment`,
`Return` are the call and its three statements; `Abort` is a failing statement
or a killed process. `Transactional = FALSE` is what the code does:
`Repository.NextSequence` passes no transaction.

### HostIngest

The five tables are functions from identifiers to the columns that other rows
or lookups use. `pc[p]` is the next statement of process `p`, `job[p]` its
locals. A row is written in four steps: `Bump` and `Read` obtain the
identifier (the two statements of `NextSequence` that matter once the row of
the sequence exists), `Check` is the SELECT of a `Save` method, `Write...` the
INSERT or UPDATE. `Advance` says what comes after, and `Checked` and
`SeqChecked` which errors end the call: `IngestHost` ignores those of services,
evidence and relationships, and `ResolveHost` ignores a failing sequence for
the interface of an asset found by name. `Fault` is a failing statement,
`Crash` a killed process. Foreign keys are not guards of the model:
`ReferencesResolve` shows that they would never fail. When a relationship,
service or evidence identifier is taken, the INSERT fails and the code goes on,
which is `Inserted`. Left out: MAC addresses, technologies, tags and times; a
service that is found is updated in columns no property reads. `IngestNetwork`
is in `Importer`, the only caller that is.

### ProbePool

A job is its index. `pool` is the call: which of the pools it is, how many jobs
and how many configured workers. `fed` and `taken` are the job channel,
`results` the result channel (bounded by `ResultsCap`), `worker[w]` where
goroutine `w` is in its loop: `range` (receive), `check` (the `select`),
`limit` (`limiter.Wait`), `dial`, `probe`, `send`, `exited`. `FeedFirst`,
`OnlyOpen` and `Paced` are the differences between the three pools. `Wait` takes
a token or, when the context is done, gives up without one, and the worker dials
in both cases. A context with a deadline would also make `Wait` give up early;
the only caller of `ProbeHost` (`cli/repl.go:918`) passes one that is only
cancelled, and `TCPCollector`, whose context has a deadline, has no limiter.

### AssessmentRun

`rows` is the `assessment_runs` table; `pc`, `run`, `id`, `n`, `at` are the
locals of `Execute`; a collector is its position among the applicable ones.
`SaveInitial`, `SaveCancelled` and `SaveCompleted` are the three saves,
`Collect` and `CollectorFails` (an error or a recovered panic) one collector's
call, `Ingest` its observations, `CountStats` and `Evaluate` what follows.
`Interrupt` is the test at `executor.go:136`. The module abstracts ingestion
and evaluation to single steps, which `HostIngest` and `FindingStore` detail.

### FindingStore

`subject` is what the rules would report: for each key (rule, entity type,
entity) a text and the evidence of the entity. `Change` is ingestion between
evaluations. The steps of `Engine.Run` are `Load`, `Evaluate`, then for every
finding `NextFinding`, numbering (`Bump`, `Read`), `Get` and `Write`, then
the assessment (`SaveAssessment`) and the snapshot (`SaveStub`,
`SaveSnapshot`). Each rule reports an entity at most once, as the rules of
`rules.go` do.

### Migrations and Workspaces

A file is a number; `path[w]` is the file in the directory of workspace `w`,
`db[f].done` the set of statements that are committed in it (the statement with
place 0 is the row that records a version) and `db[f].lock` who holds SQLite's
write lock. `open[p]` is an open under way. `OpenFile` creates directory and file
when they are missing, `Bootstrap` is the `CREATE TABLE IF NOT EXISTS
schema_metadata`, `ReadVersion` the SELECT outside every transaction, then
`Statement`, `RecordVersion` and `Commit` are one migration. SQLite itself is
external and modelled by what the code relies on: a transaction begins
deferred, its first read takes a snapshot, its first write the lock, and a write
fails when the lock is held for too long or the snapshot is out of date
(`Write`, `FailWith`). Statements of one kind that stand next to each other are
one; the `ALTER TABLE` of version 2 is the statement that cannot be repeated.

`Workspaces` adds the manager of every process: `active` and `handle` are its
two fields, `call` the call under way. `Use` takes over the name before it opens
the database (`SwitchTo`, `Connect`, `Connected`); `Delete` closes the
connection before it knows whether there is anything to delete, and the file
lives on for processes that have it open; `Create` looks before it opens;
`GetInfo` and `List` open connections of their own; `Export` and `ImportArchive`
carry rows between workspaces. `rows[f]` is the set of names in the
`workspace_id` column, `events[f]` what that column holds in the audit rows that
`Create` writes, which name the workspace by an identifier (`WorkspaceID`), and
`deleter` remembers who removed a file. `Create` also calls `CreateWorkspace`, which
stores nothing and always succeeds (`repository_wrapper.go:47`); its audit event is a
row unless the identifier is taken or the insert fails (`CreateOpened`).

### ScopeGuard, Records, Targets, Journal, Importer, Engagement

`ScopeGuard` translates the decisions as they are written, with their
differences: `Validate` compares the value as typed, `IsAllowed` the host of a
URL, inclusions of networks never restrict networks, a target without a type is
taken for a name. An address is a number, a network a block of them, a name the
sequence of its labels.

In `Records` a facade call is one step that may fail at one of its statements:
`f` names it, and each call lists the failures it can have and what is left
behind. `known` is what the user was told (a fact is added when a call returns
without an error and removed when the user deletes it), `audit` the trail.
`Targets` has `SetTarget` with its three ways (found and activated without a
check, refused, created), the scope rules, and `ExecuteAssessment` up to the
collectors, `contact` being the hosts they contact. `Journal` has everything
that is put on record, with `INSERT OR IGNORE`, upserts and numbers as the code
has them, the evaluation as one step (`FindingStore` details it) and
`CompareSnapshots`. A snapshot's identifier is any name the user gives, one that an
evaluation uses included: then `GetSnapshot`, which looks for a snapshot by its own
identifier or by its assessment's and takes any row it finds, may return the
evaluation's (`SnapshotsOf`), and so may `snapshot show` and `diff`.
`AcknowledgedIsListed` says that the user's snapshot is listed with its content all the
same, and that nothing else can be returned under its name. `Importer` has the parsers by what they make an observation
of, and a batch that stops at the first host that fails or network that is malformed
or cannot be looked up.
`Engagement` lets the user type any command.

### Topology, Simulator, Knowledge, Intelligence, Sniffer, Session

`Topology` is operators only: the breadth-first search with its queue and its
parents, and components. `Simulator` adds the subnet graph of `falcon-ctl`,
the blast score in tenths and the simulated block rule; the factor of the score, a
logarithm of the number of hosts, is the constant `Proximity`. `Knowledge` builds the graph of `falcon`
from the tables of `HostIngest`, so that the links whose errors ingestion
ignores are followed by the searches that dereference them.

`Intelligence` adds what the program concludes from the same tables, as operators
over the states of `HostIngest`: the four rules that look at ports and
addresses, with the evidence each finding cites; `ExplainGeneral` and what it
tries, a query being an identifier, an address, a hostname or a port, and an
explanation the evidence, confidence and sufficiency it reports; attack surface,
attack paths over the graph of `Knowledge`, pivot candidates and trust boundaries.
Each of these looks the rows up in a way of its own, which is what the properties
compare. A port is an endpoint, a protocol with a number, and open. The OT rule takes a
service by protocol and port or, failing that, by its name, the attack surface by the
port alone; which services have such a name is not stored in the model, and the rule is
a function of any set of them (`named`). `MCIntelligence` bounds what TLC explores of it.

A listener of `Sniffer` is `<<g, proto>>` for the `g`-th audit; it binds its
socket (`Listen`, which fails for a socket that is held and not shared), looks
at the context, reads until the timeout or a packet (`CheckContext`,
`ReadTimeout`, `ReadPacket`), and calls back (`DiscoveryReturned`). `Session`
has the shell: typed commands, each atomic under the session's lock, and `run
audit`, which takes the targets at its start and then, for each, validates
(`SkipScope`), probes every address it expands to and records evidence
(`ProbeScope`), and writes the posture (`RecordScope`); `FinishAudit` is the
deferred cancel. `Discover` is the callback that adds a host to a posture, during
the audit or after it. `Diverges` is the range whose 32-bit counter wraps
around; the process is then gone. What `analyze`, `simulate rule`, `graph path`
and the dashboard show are operators over the state.

## 3. Runs

Identifiers, addresses and names are model values or small numbers. Every run
finishes within three minutes on two cores.

| run | bounds | what it shows |
|---|---|---|
| `sequence` | 2 processes, a transaction per call, value 3 | the first statement's write lock makes the call atomic, also after failed statements and rollbacks: numbers are fresh, at or below the stored value, and the statements implement `UniqueIds` |
| `sequence_two` | 2 processes, no transaction | **violation** of `UniqueIssue`: both increment, then both read |
| `ingest_one` | 1 process, 2 addresses, 1 hostname, endpoints 502/tcp, 502/udp and 3389/tcp; 3 calls of which one may be killed, each with at most one endpoint (with 502/udp and 3389/tcp in the last call, if none was killed); or 2 calls, one with a failing statement; 502/tcp only where nothing is killed and no statement fails | one interface per address, one service per endpoint, links agree, a call that succeeds is recorded and can be explained with sufficient evidence; the knowledge graph built from the tables is whole: every end of an edge is a node, components partition the nodes, interfaces and services lead to one host and back; rules, explainer and graph cite the same evidence, nothing is counted twice, and an attack path is reported exactly for the entries and sensitive services that the graph joins |
| `ingest_two` | 2 processes at once, 2 calls, 1 address | rows stay below their sequence and references resolve although numbers may collide |
| `pool` | both kinds of pool, up to 3 jobs and 4 workers, burst 2 | each job in one place, no answer lost, closing, pace, cancellation, termination |
| `run` | 2 runs of up to 3 collectors, 2 faults, a kill, a context that ends | the row tells what happened, every run ends, `RunLifecycle` is implemented |
| `finding` | 3 evaluations, 3 changes, a failing statement, a kill | one row per finding, what is reported is stored, counts agree, snapshots resolve |
| `finding_evidence` | 2 evaluations | **violation** of `EvidenceIsStored` |
| `workspace` | 2 processes, 2 workspaces, 3 files, 3 calls, a kill | schemas stay whole, a file holds rows of its own workspace, a connection is to the active workspace's file unless another process removed it |
| `engagement` | 4 calls of which one fails, addresses 0 to 7, a domain | no excluded host is contacted in an assessment, what was acknowledged is listed, snapshots compare as the evaluations between them say |
| `session` | 2 typed commands, 2 audits, 1 protocol, addresses 0 to 7, cap of a range 2 and of a sweep 8 | exclusions hold for what is probed, reports agree with each other and the evidence, paths are shortest, listeners stop; deadlock is checked |
| `session_scope` | the same, 1 audit | **violation** of `DestinationsInScope` |

The bounds are the smallest at which the hazards occur: two processes are
enough for any pair of interleaved calls, since the calls interact only through
the tables; three collectors give a first, a failing one in the middle and a
later one; three ingestions give a known address, a known name and a known
service after a call that was cut short; three jobs with up to four workers
give fewer, as many and more workers than jobs, and three paced jobs exceed a
burst of two. Two workspaces and three files let a workspace be removed and made
again while the other process has it open; three calls are a write or an export
by one process around a deletion or an import by the other. Four calls of the
shell are a target, a rule that excludes it, a second way to name it and an
assessment; the eight addresses hold an address, a network with host bits and
the network that excludes both. Two audits are enough for a listener of the first
to meet the second; ranges on both sides of their cap occur, while the cap of a
sweep, which only makes the set of probed addresses smaller, is not reached. The
three endpoints are one that the exposure rule reports and a port of industrial control
over TCP, which the OT rule and the attack surface take for OT, and over UDP, which the
attack surface counts and the rule takes only for its name; of
the two addresses one is public, and the networks overlap. The names of snapshots are
one of the user's own, an assessment's identifier and that of an evaluation's snapshot. Counters that only
bound a run (`MaxIngest`, `MaxFault`, `MaxCrash`, `MaxRun`, `MaxChange`,
`MaxRefill`, `MaxValue`, `MaxFile`, `MaxCall`, `MaxCommand`, `MaxAudit`) are
constants. The
runs that reach such a bound stop there, which is why their configurations say
`CHECK_DEADLOCK FALSE`; that the code itself does not get stuck is `Returns`
and `Terminates`.

`ServiceLinksAgree`, `RecordedWhenDone`, `GraphIsWhole`, `DoneIsExplained`, `EvidenceAgrees`,
`AttackPathsComplete`, `ReportedIsStored`, `CountsAgree` and `SnapshotsAgree` are claimed of executions without a failing statement (a kill is allowed): the
code ignores the errors of those very statements, so a failing one leaves the
record incomplete by design. So a node that is missing because a save failed
(`graph/algorithms.go:127`) and a snapshot that is empty because `ListFindings` failed
(`app.go:1342`) are in the model but outside these properties.

More limits of what the properties say: `UniqueIssue` and `IssuerSpec` hold in `sequence`
because the callers pass a transaction, which `DB.NextSequence` offers and no caller
uses; the code as it is called is `sequence_two`, and `IssuedBelowValue` is proved for
both. `ingest_two` has no failing statements; the theorems about its two properties
do. `RateRespected` is about a live context: the ignored error of `limiter.Wait`
matters only once the context has ended, when `CancelStopsProbing` allows a worker one
more probe. `EveryCollectorAccounted` is about collectors, not about observations that
are dropped when their ingestion fails (`executor.go:190`). `ListenersStop` says
nothing of a range that never ends (`session.go:440`), which is the end of the process in
the model.

### Fairness

`ProbePool`: weak fairness of the caller, of every worker and of the limiter.
Go's scheduler runs every goroutine that can run; a probe ends because its
dial and its reads have timeouts; the limiter's bucket refills with time.
Cancelling is never assumed. `AssessmentRun`: weak fairness of the executor's
steps, because every SQL statement returns (the busy timeout bounds the wait
for a lock) and every collector runs under a context with a timeout; neither
a fault, a kill nor the end of the context is assumed. `Session`: weak fairness of
the audit, whose probes end with their timeouts, and of every listener's own
steps, since a read ends after a second; no packet has to come and no command has
to be typed. The other modules state safety only.

### What the violations mean

* `sequence_two`: with two processes on one workspace an identifier can be
  handed out twice. `ingest_two` shows what that does not destroy (references),
  and `ingest_one` what is certain only for a single process.
* `session_scope`: a network is a target and an address in it is excluded. The
  guard is asked about the network as it was typed, accepts it, and the audit
  probes every address of it. `ProbedInScope` states what does hold.
* `finding_evidence`: the engine assigns the new evidence to a stored finding,
  the UPDATE does not write it.

## 4. Proofs

TLAPS checks every leaf. Each theorem holds for all values of the constants
that satisfy the assumptions named in the module it is about.

`SequenceStoreProofs`, for any set of processes and names and any bound:

* `TypeCorrect`: `Spec => []TypeOK`. (A type invariant that is proved is not checked
  by a run as well.)
* `IssuedBelowValueCorrect`: whatever interleaves, fails or rolls back, a number
  that was returned is at or below the stored value. The inductive invariant
  adds that a transaction's saved value (`base`) still bounds what was returned
  when it began, and that nobody else writes while a transaction holds the lock.
* `UniqueIssueCorrect` and `ImplementsIssuer`: with one process, or with
  callers that pass a transaction (`Exclusive`), numbers are fresh and the three
  statements implement `UniqueIds`. Here the invariant also says that after the
  increment the stored value has not been returned. The assumption `Exclusive`
  is needed: `sequence_two` is the counterexample without it.

`AssessmentRunProofs`, for any number of runs, collectors, faults and kills:

* `TypeCorrect`; `Progress` adds that the executor builds the row with the
  newest number and that the table holds the initial row until the last save.
* `ImplementsLifecycle`: the step that maps to `Start` is the first save, those
  that map to `End` are the two last saves; every other step stutters. It needs
  `Progress`, since `End` is allowed only for the newest, RUNNING row.
* `EveryCollectorAccountedCorrect`: `BuildInv` says that the row being built
  accounts for the collectors before the current one; a saved row of an older
  run never changes (`SameRows`, `OneRow`).
* `RunningIsExplainedCorrect`, `ReturnedIsStoredCorrect`.

`HostIngestProofs`, for any number of processes, addresses, names, ports, calls,
failing statements and kills: `RowsBelowSequenceCorrect` and
`ReferencesResolveCorrect`. The inductive invariant adds `JobOK`, what a process
in the middle of a call knows: a number it read is at or below the sequence, the
host it is about to link is stored, a row it is about to update exists. Rows are
never removed and sequences never go back, so what one process knows survives
the steps of the others; `Advance`, which picks the next row to write, is covered
by one lemma that describes its outcomes (`Follows`).

Those that follow assume `Alone`, at most one process:

* `OneInterfacePerAddressCorrect`, `OneServicePerEndpointCorrect` and
  `ServiceLinksAgreeCorrect`, across failures and kills. The invariant remembers
  what a lookup told: no interface has the address, no service the endpoint
  (`SeenOK`), until the row is written; and, as long as no statement has failed,
  that the service about to be linked exists and the number of the one about to be
  inserted is new (`LinkOK`). `Alone` is needed because no column is declared
  UNIQUE: with two processes both may look before either writes.
* `RecordedWhenDoneCorrect`: `DoneInv` says which stages of a call are behind it and
  what each of them has left in the tables, the ports still to do being the others.
* `CountedOnceCorrect` needs one row per address and endpoint, and the library's
  theorems about cardinalities: the rows that are counted and what they stand for
  are in bijection. The attack surface and the OT rule count different services, by port
  and by protocol, port or name; the theorem says of each that it counts an endpoint
  once, for every way the services may be named, and not that the two counts agree.
* `EvidenceAgreesCorrect` and `RowsAreJoinedCorrect`: while no statement has failed, a
  row of the relationships table adds no edge to those of the columns, so the
  neighbours of a node can be read off the tables.
* `DoneIsExplainedCorrect` combines what is recorded with what each query resolves to;
  an explanation takes the first row with a port, which exists by `MinExists`.
* `GraphIsWholeCorrect` and `AttackPathsCompleteCorrect` apply the theorems of
  `TopologyProofs` to the graph of the tables, of which `BuiltIsGraph` says that it is finite;
  every row of another table is one hop from its host (`AssetReached`), and a route to
  the host of a service is a walk to the service and back (`RouteExists`).

`TopologyProofs` is about the searches, for every finite graph and with no assumption
about the system. A recursive function over `0 .. n` is a CHOOSE of its equation: `Iterates` shows
that a solution exists, and `FirstFailure` (the least position at which a claim fails)
stands for induction on a position.

* `ShortestPathFound`. The level of a node is the least radius at which `Ball` has it
  (`LevelsExist`; a ball that grows no more has everything that is reachable, and it
  grows at most as often as there are nodes, `BallEndsGrowing`). The invariant of the
  search, kept by each round (`VisitKeeps`): the queue has no node twice, is in the
  order of levels and spans two of them at most, and a parent is a neighbour one level
  nearer. Each round visits one node more, so the bound on the rounds suffices
  (`AllDiscovered`, `SearchFinds`), and the way back goes down one level per hop
  (`PathLeadsBack`).
* `ComponentsFound`. A search that looks for no target visits what is reached
  (`ComponentIsReach`), and being reached is mutual (`ReachMutual`), so two components
  are equal or disjoint.

`FindingStoreProofs`, for any number of evaluations at once: `TypeCorrect`, for a
finite set of keys (what an evaluation has counted as new and what it has yet to save
are together no more than the keys), and `SnapshotsResolveCorrect`, from the fact that
what an evaluation will list is stored (`Stored`). For one process (`Alone`):
`OneFindingPerKeyCorrect` from the stored findings an evaluation loaded and the numbers
it drew (`KnownOK`, `MatchOK`); `ReportedIsStoredCorrect` and `CountsAgreeCorrect` from
what is finished and what is left adding up to what the rules report (`ProgressOK`) and
from the assessment that was recorded (`RecordOK`).

`EngagementProofs`, for any inputs, patterns, files, names and numbers of calls, of
which any may fail at any of their statements:

* `RecordsInvCorrect` and `AcknowledgedIsListedCorrect`: a fact that was acknowledged has
  a row (`Stands`), and tables get rows only under numbers just drawn (`NumbersOK`).
  What makes this an invariant is the number 0: when numbering fails, calls go on
  with it, so a row with number 0 may be replaced by a later call, and the invariant
  says of every acknowledged fact that its row has another number or cannot be
  replaced. What an import acknowledges is what its recursive walk over networks and
  routes stores; the facts about such functions are proved by taking the first
  position at which they fail (`FirstFailure`). Nothing is assumed of the names of
  snapshots.
* `ExclusionsHoldCorrect`: an assessment contacts no host that a stored exclusion
  names. The guard compares networks after removing host bits, so the proof needs
  that two addresses with one quotient by the size are in one network (`SameNetwork`,
  `NoHostBits`), and that no later call removes an exclusion without being asked.
* `SnapshotsAgreeCorrect`: `SnapshotsInv` relates every pair of stored snapshots
  to the content at the time, as long as no statement failed.

`SessionProofs`, for any inputs, caps, profiles, ports and protocols:
`SessionInvCorrect` says that the guard is compiled from the rules and targets there
are, and that what an audit is probing was accepted by the guard in force: nobody
types while an audit runs, and listeners do not touch the scope.
`ProbedInScopeCorrect` follows: every address a sweep expands to is within the network
that was accepted, and a network that met an excluded one would have been refused.

`SubnetPathsFound` is `ShortestPathFound` for the subnet graph of any finite postures,
and `PathsAreShortestCorrect` this of the postures there are, which `PosturesInv`
keeps finite: a sweep is of an interval, a profile has finitely many ports, and a
listener adds one host at a time.

`ScoresAgreeCorrect` needs `ShownInv`: every posture is explained by the evidence there
is (`Explained`: no port is open on more hosts than the posture has, nor on more than
have evidence; the score is no more than what the posture would be given now, and
decides its compliance), what an audit has found and not yet recorded is in evidence,
and a listener that was started has one of the targets. Evidence is only added
(`MoreEvidence`), a listener only adds hosts (`DiscoveredExplained`), and what was
found bounds what is recorded (`EvaluatedExplained`). A sum over a set is a run of its
steps (`TotalSteps`), so that more services make no sum less (`TotalGrows`), more hosts
no factor (`ScoredGrows`), and a block severs no more edges than the hosts times the
open ports, which are those that are drawn (`TotalBound`, `ExposedCount`,
`BlockedIsNoWorse`).

About the pool, `SessionProofs` proves for any number of jobs and workers, burst and
refills (the specification is `PoolSpec`):

* `PoolTypeCorrect`, from the fact that a busy worker holds a job.
* `EachJobOnceCorrect`: `JobInv` says that what the busy workers hold, the
  results, the output, the dropped and the silent jobs partition the jobs
  received. The lemmas `Enters`, `Leaves` and `Stays` are the three ways a step
  can touch what workers hold.
* `NoAnswerLostCorrect`: `AnswerInv` says that every job whose probe started is
  being tried or was answered, and that with a live context a worker ends only
  when nothing is left to receive.
* `QuietAfterCloseCorrect`: `PhaseInv` ties the caller's phase to the number of
  workers started and to who is still running.
* `CancelStopsProbingCorrect`: a worker that is about to dial has made no late
  probe yet (`LateInv`).
* `RateRespectedCorrect`: every job probed or about to be probed has cost a
  token (`RateInv`).

`WorkspacesProofs`, for any number of processes, workspaces, files, calls and
kills:

* `SchemaWholeCorrect`. `TransactionOK` says that a transaction is of the version
  after recorded ones and that every statement it is past was done by it or was
  there before; `OpenOK` that who holds a file's lock has read its latest state.
  A version is committed with its statements because its own row was neither
  there nor could be added meanwhile.
* `RowsInOwnWorkspaceCorrect`: a file is made for one name (`FilesOK`, which also
  says that a new file is new), and what a process opens within a call is of its
  active name or, for `Create`, of the name that is created (`CallOK`).
* `HandleIsCurrentCorrect`: `Current` is stable under the steps of the others,
  since a removal leaves the name of who removed, and under those of the process
  itself, since it closes its connection to what it removes.

Assumptions are those on constants: `SequenceAssumption`, `PoolAssumption`,
`RunAssumption`, `NoRowAssumption` (the value for an absent row is not a row),
`FindingAssumption`, `IngestAssumption`, `IntelligenceAssumption` (ports have 16 bits),
`MigrationAssumption` (processes are numbered from 1, and "none" is no workspace),
`WorkspaceAssumption`, `TargetsAssumption` and `SessionAssumption` (inputs are of the
forms the parser tells apart, profiles have finitely many ports, packets come from
finitely many addresses, and `Proximity` has a factor for the hosts of a sweep and those),
`SimulatorAssumption` (more hosts make no factor less), `ImporterAssumption` and
`SnifferAssumption`; and `Exclusive`, `Alone` and a finite `Key` where a theorem says
so.

Every safety property of a passing run is stated by a theorem. Only model-checked:
`Returns`, `Terminates` and `ListenersStop`, which are liveness; and the violations.

## 5. Not modelled

Formatting, terminal output, HTML and Markdown, and the characters of the
formats that are parsed; the content of banners, certificates and rules;
technologies and descriptive columns. Components that keep no state or only read
are `not_modelled` in `PROJECT.json` with the reason: firewall
detection and egress, protocol identification, the evidence manager, the
exporters, the module registry, configuration and types. Identity fusion has
branches for changed addresses and names, but the one caller feeds it kinds of
observations that fill in no such field.

What the translation showed and no property is about, because no document or
test says otherwise, because it has a single step, or because it needs input the
instances leave out:

* activating a target does not deactivate the others, and `GetActiveTarget`
  returns the one with the lowest identifier (`app/app.go:498`, `:563`);
* the audit events of `SetTarget` share one identifier, and an import takes the
  clock modulo 10000, so events are dropped (`app.go:523`, `importer.go:208`);
* `AddObjective` falls back to an engagement that is not stored, and the command
  line ignores the foreign key's error;
* a URL as an exclusion matches nothing (`scope/guard.go:100`);
* a finding's confidence is never stored, so that explaining a finding always reports
  insufficient evidence (`assessment/explain.go:78`), and `why A B` explains a
  relationship whether or not an edge exists (`app.go:233`);
* a pivot candidate needs only two interfaces, although the comment asks for
  "distinct network segments": these change the wording of the reason (`app.go:1100`);
* a host whose name begins like the identifier of a service or a finding (`svc-mail`)
  cannot be explained by its name, since such a query is looked up as one only
  (`assessment/explain.go:383`);
* a trust boundary may be listed twice with its ends swapped, by the order of a Go map
  (`app.go:1180`), and only the first two interfaces decide whether a host spans
  subnets (`app.go:1102`);
* link-local addresses count as internet-addressed in the attack surface and as
  private in the rule (`app.go:936`, `assessment/rules.go:108`);
* two hosts that speak one protocol are joined by its node in the graph, so that
  "multi-hop" attack paths lead over it;
* `CreateSnapshot` goes on without findings when `ListFindings` fails
  (`app.go:1342`), the reason for the condition of `SnapshotsAgree`;
* the planner shows steps for networks although no collector supports one;
* `analyze` counts what was never evaluated as passed;
* `graph services` lists a service once for each of its two edges
  (`graph/graph.go:469`), and a path over a node that was never added would
  dereference nil (`graph/algorithms.go:127`), the reason for the condition of
  `GraphIsWhole`;
* runs that start within one second are not ordered (`repository.go:1718`);
* the dashboard reads the postures without the session's lock
  (`engine/recon/server.go:75`), a data race outside TLC's grain;
* the audit event of `Create` names the workspace `WS-<name>`, so that listing the events
  of the active name never shows it (`workspace/manager.go:184`);
* `Export` of a name reads the database of the active workspace, and imported
  rows keep their identifiers while the sequences stay where they are
  (`workspace/manager.go:452`).

## 6. Plan

What is left, in order of importance:

1. A second protocol and a third audit in `session`, which need a smaller command
   set to stay within minutes.
2. Technologies, which would add the fifth rule and the technology nodes of the
   graph, and the other collectors.
3. Identity fusion, if observations with addresses and names are ever fed to it.
