# Verification of the AlexSys compliance platform

TLA+ modules of the platform, the TLC configurations that check them and the
TLAPS proofs about them. The platform collects the resources of AWS and Azure
accounts, evaluates compliance rules on them, follows each finding over time,
looks for attack paths, scores the result and serves it over HTTP. Paths below
are relative to the repository root.

## 1. Inventory

| Component | State it keeps | Operations | Talks to |
|---|---|---|---|
| Scan submission and worker (`application/scanning/submit_scan.py`, `infrastructure/system/adapters.py`) | request threads, an executor with an in-memory queue, worker threads | `SubmitScan.execute`, `ThreadScanJobRunner.submit`, `ScanWorker.run`, `RepositoryAuditRecorder.record` | unit of work, clock, orchestration, persistence, scores |
| Scan aggregate (`domain/scans/models.py`) | key, status, completion time, statistics | `derive_scan_key`, `create`, `start`, `complete`, `fail` | persistence |
| Scan orchestration (`scan_cloud_account.py`) | none | `run`: verify, collect, build the graph, evaluate, analyze, enrich | everything up to persistence |
| Identity gate, tenants (`verify_cloud_identity.py`, `account_directory.py`, `domain/tenants`) | declared bindings | `execute`, `verify_cloud_identity` | cloud identity ports |
| Collectors (`infrastructure/cloud/aws`, `.../azure`) | resources so far, statistics | one `collect` per service, 14 of Amazon and 7 of Azure | SDK, pagination, normalizers |
| Retry and pagination (`infrastructure/cloud/resilience.py`) | attempt, elapsed time, statistics | `call_with_retry`, `paginate`, `collect_each` | SDK iterators, clock |
| Normalizers and policy analysis (`normalizers/`, `policy_analysis.py`) | none | one function per kind of resource; what a document grants | collectors, graph |
| Rule engine (`domain/rules`, `application/rules`) | the trace of one evaluation | `evaluate_condition` and the helpers it recurs through, `RelationshipTrace.record` | resources, the graph, findings |
| Resource graph and identity access (`domain/graph`, `build_resource_graph.py`) | nodes and edges while it is built | `add_node`, `add_edge`, `find_paths`, `derive_access_edges` | rules, risk, attack paths |
| Attack paths (`analyze_attack_paths.py`, `domain/attack_paths`) | none | five scenarios, scoring, identifiers | graph, risk, persistence |
| Risk (`application/risk`, `domain/risk`) | none | factors and their product | attack paths, findings |
| Scan persistence (`persist_scan.py`, `postgres/repositories/scan_repository.py`, `tables.py`) | tables scans, resource and finding snapshots, logical_findings, attack_paths | `PersistScanResult.execute`, repositories, row mappers | unit of work |
| Finding lifecycle (`domain/scans/lifecycle.py`) | one row per logical finding | `first_observation`, `observed_again`, `resolve`, `suppress`, `unsuppress`; reconciliation in `persist_scan.py` | the logical_findings table |
| Compliance scores (`domain/compliance/scoring.py`, `query_scores.py`) | table compliance_scores | `tally`, `scores_by_dimension`, `ComputeScoresForScan`, `save_all` | worker, query side |
| Unit of work (`postgres/session/unit_of_work.py`) | the open session and its repositories | `__enter__`, `commit`, `rollback`, `__exit__` | the database |
| Query side, AI contract, authentication, HTTP (`api_repositories.py`, `translation.py`, `dependencies.py`, `routers/`) | none of their own | pages, single lookups, projection, tokens and roles | all tables |
| Drift, conformance runner, composition, migrations, deployment | | | see section 6 |

How they interact: a request thread validates a target, inserts a queued row,
and hands a job to the executor. A worker thread marks the row running, verifies
whose the credentials are, collects service by service, normalizes, builds the
graph, evaluates the rules, looks for attack paths, gives findings their risk,
and stores the result (snapshots, attack paths, lifecycle, scan row) in one
transaction. Readers page through the tables at any moment. The writes of a scan
go through two units of work, one kept by `SubmitScan` and one by `ScanWorker`.
Scores and audit events do not: their repositories execute statements on the one
session that the composition root makes for the process and that nobody commits
(`composition.py:106-116`), and the audit recorder swallows its own failures.
The composition root has a stub in the place of the submission classes
(`_UnavailableScanSubmission`); the modules say how they behave as written and
as their tests put them together.

What is hard here: two threads in one unit of work; the check for a duplicate
and the insert in separate steps; keys that contain a clock reading; a status
column that a CHECK constraint ties to another column; lifecycle rows read in
one statement and overwritten in a later one; jobs that a restart forgets;
iterators that look finished after they failed; any of some forty provider calls
failing in one of four ways, each tolerated by one `except` and not by another;
what was not read turning into a value, a pass or an attack path; pages whose
total and rows come from two snapshots while scans land; and three-valued
verdicts that must not be read as two-valued ones. `PROJECT.json` lists each of
these at its line.

What makes each component correct: a job ends whatever happens to it and its row
agrees with what was stored; a finding's row tells one consistent story and only
a scan that looked may change it; a with block is atomic; a listing is complete
or an error; nothing is read from an account that is not declared; a service
that fails costs only its own resources, and what is lost is counted; a
condition over unknown data is decided only when every value of that data would
decide it the same way; an attack path rests on what is so in the cloud; a score
can be recounted from the scan it describes; a walk through the pages misses no
row; and nobody sees another tenant's.

## 2. Modules

| Module | Models | State and actions |
|---|---|---|
| `ScanPipeline` | submission, executor, worker, scans table, audit log | `request`, `queue`, `worker` are memory; `rows` and `results` are tables; `session` is the shared session, and `scores` and `audit` what was executed on it and not rolled back. One action per transaction, statement or hand-over: `Submit`, `Lookup`, `CreateAndCommit`, `AuditStarted`, `Enqueue` on a request thread; `Begin`, `MarkRunning`, `RunScan`, `Persist`, `Score` (all scores or none), `AuditCompleted`, `MarkFailed`, `AuditFailed` on a worker; `Tick`; `Crash` |
| `CloudServices` | the 21 sub-collectors as tables: which calls each makes, in order, what each feeds, and what a failed one leaves behind | none |
| `Collection` | one scan's collection, call by call | `ResolveAccount`, `VerifyIdentity`, `BeginService`, `MakeCall` (succeeds, marks a gap, skips the item, fails the service or escapes), `EndCollection`, `Conclude` |
| `PolicyAnalysis`, `Normalizers` | what documents grant; each kind of resource as the attributes and edges later stages read | none |
| `ResourceGraph` | `build` with external nodes and derived access, path search | none |
| `AttackPaths` | a scan from what it collected to the attack path rows | `Miss` (a resource is lost or partly read), `Collect`, `BuildGraph`, `Analyze`, `Enrich`, `StorePaths` |
| `RuleEvaluation` | `evaluate_condition` and its trace, on the graph of a scan that was refused something and of one that was not | `estate` is what exists; `seen` and `unread` what the partial scan is let see; `rule`, `subject`; `status`, `verdict` and `trace` of each scan. `Begin` (a new evaluation), `Ask` (a call evaluates its operands), `Return` (it has its result and records the neighbours), `Raise` |
| `FindingLedger` | the promise of the lifecycle: a scan is one atomic comparison | `Scan`; `Forfeit` gives up a finding |
| `ReconcileLifecycle` | `_reconcile_lifecycle` over the table, statement by statement | `Collect`, `ReadKnown`, `ReadActive`, `Commit` on each thread, `Suppress`, `Unsuppress`, `Tick`; `disturbed` remembers the findings that two worked on at once |
| `AtomicBlocks` | the promise of the port: a block happens or does not | `Commit`, `Abandon`; `Forfeit` gives up blocks |
| `UnitOfWork` | `PostgresUnitOfWork` with its session field | `Enter` and `Bind` (the two halves of `__enter__`), `Write`, `Commit`, `Abandon`, `Leave` (`__exit__`), `Crash`; `overlapped` remembers the blocks that shared a unit |
| `Pagination` | `paginate` over `call_with_retry` | `PageArrives`, `RetryableError`, `TerminalError`, `SourceEnds` |
| `QueryApi` | scoring, and a client that pages through findings, their AI projection and scores while scans land | `Land`, `ComputeScores`, `SaveScores` of the workers; `Restart`; `Begin`, `Refused`, `Count`, `Select` of the client |
| `*Proofs` | theorems about the module of that name | |
| `MC*` | instances for TLC | |

Steps and atomicity. In `ScanPipeline`, `QueryApi` and the `Commit` of
`ReconcileLifecycle` a block of a unit of work is one step. `UnitOfWork` says
how far that is legitimate: threads enter a unit in turn or at once, and it
refines `AtomicBlocks` except for the blocks that shared a unit, which are
forfeited. Nothing in the code keeps threads from sharing one (section 5), so
the results about the other modules describe the system without that fault. A
page of `QueryApi` is two steps, because its two statements have two snapshots.

The shared session. What is executed on it is seen by everything that reads
through it, which are the score and audit queries of the same process, and by
nobody else; a statement that the server refuses aborts the transaction with all
of it, later statements are refused too, and a restart loses it. So `Score` and
`RecordAudit` add to what is visible while the session is open, and `Crash` and
a refused statement empty both. The comment above the session says that it "is
NOT correct for a real deployment" (`composition.py:106-107`). A session is
not made for several threads either; the modules take each statement as atomic.

Collection. A sub-collector is a list of calls with four answers that are
failures: denied, throttled (after the retries, if the call is retried at all),
expired and offline. What happens next follows from the class of exception the
answer becomes (`RaisedAs`) and from the nearest `except` that names it: a mark
in the draft of the resource, the item skipped, the service failed, or the scan
ended. A mark is what the attribute holds in the end: UNKNOWN, or a plain value
that is like any other. The second is what five collectors leave (`PassedOver`):
`IamRole` computes `has_administrator_access` from the policies it could read,
`Vpc` and `VirtualMachine` leave out edges, `StorageAccount` and `KeyVault` put
None or a default. `OnlyPassedOverMislead` says that these calls are all.
`Services` is read from each collector; `Collection` is the walk they
share. The graph refuses two resources of one id, and the database driver
refuses a resource that holds an UNKNOWN, at the end (`Conclude`).

Partial scans. `RuleEvaluation` compares two evaluations of one rule on one
resource: one on everything that exists, one on what the collectors could read.
A refusal does what the collectors make of it: all resources of a type are
missing (`AwsCollector.collect` drops a collector that fails) or, for a type
whose items are skipped one by one, some of them; an attribute is UNKNOWN, or
the value in `Plain` when its collector has no UNKNOWN for it; a nested field is
absent; the edges of a link are missing although their source is there, which
happens to inferred links (`contains` of a VPC whose subnets could not be
listed) and to asserted ones (`ATTACHED_TO` of a machine whose network interface
could not be read, `azure/resource_collectors/compute.py:119-130`; `ASSUMES` of
an instance whose profile could not be).

Not every verdict survives that. `DecidedOnData`, what the module's docstring
promises, is refuted (section 5). `Sturdy` says of a pair of a node and a
resource that nothing which its answer rests on can be lost without a trace: a
field that was not refused or is marked, edges that come with the description of
their source and were not refused apart from it, an absence guarded by a type
that is collected whole or not at all. `Guarded` asks it of the pairs that the
evaluation came upon, and of those alone: what was refused elsewhere does not
matter. `CandidSoFar` asks it of the fields only.

A condition is a table of nodes with the names of its operands, so that no
recursion is needed and a rule may be of any depth. The code evaluates every
operand before it combines them, so one verdict for each pair of a node and a
resource is enough, in whatever order they return.

`AttackPaths` does the same with whole resources: `gap` says of each whether it
was lost, denied in part or read, and its properties compare the paths with
`estate`, not with the graph. What is so in the cloud is said of the estate by
what the providers do with a policy, not by the code's test of a statement: a
statement covers what its patterns select, of whatever shape, and NotResource
the rest (`Covers`); an explicit Deny of all that an Allow allows overrides it
(`Overrides`, `AllowedBy`); a bucket is public when its policy or its list lets
anyone in and Block Public Access does not shut it (`AnyoneMay`, `Blocked`); a
KMS key by its policy; a key vault and a storage account by their switch
(`PublicStore`); a workload by the address its provider gives it (`Entered`). An
RDS instance that is `publicly_accessible` can be reached and not read by
anyone, so it is no public store.

The passing properties leave aside what the code does not look at, each in a
definition of its own: a Deny of a role whose patterns do not name what they
cover (`Specific`), a Deny or a block of public access at a store or a role that
is also given to everyone (`Undisputed`), and the public state of Azure storage
accounts, Azure machines and KMS keys, whose attributes have names that the
analysis does not know (`ReadForExposure`, and `ec2_instance` in
`EvidenceBecomesPaths`). `PathsMatchTheCloud` leaves nothing aside and is
refuted (section 5). `IsEstate` says what an estate is: finitely many resources
of the kinds a normalizer exists for, of distinct ids that are not the names of
external nodes, whose documents are sequences of statements, and where the id of
a subnet or of a gateway is never that of something else. It is the assumption
of the theorems, and TLC evaluates it for every estate of the run.

Data. A scan key is its target and its instant, since the digest is over exactly
those (the directory id is part of a target). A finding is an account, a
resource and a rule. A page of a listing is a unit. The verdict "indeterminate"
of the lifecycle stands for every outcome that is neither a failure nor a pass.
An ARN pattern is its shape and the resources it matches, an action or an
address is itself, a document is a sequence of statements. In `QueryApi` the
order of names is a function to numbers. Variants named "Variant ..." in the
modules are wrong versions of a definition; no specification uses them, and
each shows that a property notices the error it describes.

## 3. Runs

| Run | Question | Bounds |
|---|---|---|
| `scan_pipeline` | Do the tables and the audit log stay true of each other, is a job in exactly one place, and does every accepted job end? | two requests for one target, two threads, three instants, one restart, every transaction and statement may be refused |
| `lifecycle` | What holds of the rows however scans overlap, and what is atomic about a reconciliation? | two accounts with a resource of one name, one rule, two threads, four scans, two instants, one suppression |
| `pagination` | Is a listing complete or refused, in bounded time? | three pages, four attempts, delays up to 3, hints of 0, 2 and 5, both kinds of iterator |
| `unit_of_work` | Is a block atomic unless another one shares its unit? | three blocks in two units, two of them in one, in turn or at once, two writes each, restarts anywhere |
| `rule_evaluation` | Does a gap in what was read ever become a pass, a failure, a related resource or an exception? | five resources of four types, three estates, eleven rules of up to four nodes, every set of collected resources, five refusals, among them lost edges of a kept resource and a plain value |
| `collection` | Does a failed call cost more than its service, turn into a value where none of five collectors passes it over, go uncounted, or reach an account nobody declared? | all 21 sub-collectors in pairs of neighbours, up to two items each, any two calls failing in four ways, three identities |
| `attack_paths` | Do the stored paths say what is so in the cloud, and is what is evident found? | 155 estates of 9 or 18 resources, one resource lost or partly read, four findings |
| `query_api` | Does a walk through the pages miss a row, can scores be recounted, does one tenant notice another? | three scans of two tenants, five findings with two outcomes, six queries, three tokens, page sizes 1 and 2, restarts anywhere |
| `scan_exit`, `collection_partial`, `collection_unknown`, `attack_cloud` | statements of the documentation that the code does not keep (section 5) | the smallest that shows it |

Why the bounds are enough. Two requests and two threads are what a race on a key
needs. With two instants or more, two requests can share a key or not, and the
worker's instant can equal the one of another request, so that a result lands on
somebody else's row; a third instant separates all three. One restart meets
every step. Three scans are what a lost update needs (one to write, two to
overlap), and a fourth gives a finding time to be discovered, fixed, seen again
and fixed again. Two accounts let one be undisturbed while the other is not.
Four attempts against a budget of six and delays up to three let the budget run
out before the attempts and the attempts before the budget.

The eleven rules use every kind of node, under a connective, a negation, a
quantifier and another relationship; two of them are malformed. The estates
change whether a group is open and what the instance lists (nothing, a mapping,
a mapping and something else). The two groups allow each other, so that a
condition can come back to where it started.

Collectors share no state but the list of resources and the statistics, so a
pair shows whatever one can do to another, and all but the ends of the two
rosters stand once before and once after another. Two failures meet in one item,
in two items and in two services. Both listings and items repeat at two.

The Amazon estates have two workloads, two roles and two controls, which is what
a chain through a second workload needs, and vary the policies (name, prefix,
wildcard, Deny of a name, of everything and of all but something, an inverted
resource, privileged actions), the trust, the addresses, the controls and the
bucket (list, policy, a Deny in it, Block Public Access); one has a KMS key open
to anyone. The Azure estates vary the vault, the machine, the group and the
storage account. `attack_cloud` has the estates that vary policies and trust.

Three scans suffice for a row that lands before, inside or after a window, in
both orders; the page sizes make a traversal of one, two and three pages; the
third query asks for more than the limit allows, and the tokens are a reader's,
another role's and none.

`CHECK_DEADLOCK FALSE` where the system may rest: requests, instants, scans,
pages, rules and services are bounded. `query_api` needs no such statement: a
client can always begin again.

Fairness. `ScanPipeline!FairSpec` gives each executor thread weak fairness: the
pool runs its threads and each call in a job returns or raises. Requests, the
clock and restarts get none. `Pagination!FairSpec` gives weak fairness to the
listing: the callers draw all pages in a for loop and an SDK call has timeouts.
`RuleEvaluation!FairSpec` gives it to the evaluation, a recursive function that
waits for nothing. The other specifications are about safety and have none.

## 4. Proofs

All theorems hold for any sets of requests, targets, threads, issues, blocks,
sources, scans, findings, queries, rosters, estates and rules and any bounds
that satisfy the named assumptions, which TLC evaluates in the runs.

`ScanPipelineProofs`. `IInv` is the conjunction of `TypeOK`,
`CompletionTimeIffTerminal`, `DurableInv`, `LandedInv` and `AuditInv`. The
properties alone are not inductive: that a recorded "completed" event has scores
needs that a thread at `audit_completed` holds a key whose scores are stored,
which needs that a thread at `score` holds a key whose results are, and all of
them need that the key of an accepted request never changes. The lemmas
`RowStep`, `LandedStep` and `AuditStep` say how one step changes each table, and
the preservation proofs cite them. The constraint gives the rest: because every
terminal row has a completion time and `update_status` never clears it, a
terminal row can only be written to another terminal status. `AuditInv` speaks
of what the shared session shows: a refused statement and a restart empty both
scores and events, so that no event outlives the scores it tells of. `OnePlace`
needs no counting: `PlaceInv` says that the queue names a request in one
position at most, that a request in the queue is at no thread, and that those in
either are the unfinished ones; each hand-over keeps this, and most steps move
no job (`QuietKeepsPlace`).

`ReconcileLifecycleProofs`. The invariant adds to `RowsWellFormed` that what a
thread has read is well formed, absent or was discovered before the scan began
to write; it holds with overlapping scans, because a well formed row stays so
under each operation of `LogicalFinding` whatever happened to the table
meanwhile, and because the upsert keeps the older `first_seen_at` only when the
table accepts the combination.

Three theorems are about what the code does to a finding that no two have worked
on at once. `disturbed` is history: it takes in the findings of an account in
which two scans are busy, and each one a user suppresses. `QuietInv` says that
threads busy in one account have disturbed its findings (`Alone`), and of the
others that what a thread has read of its account is what the table holds
(`ReadsCurrent`). So the upsert continues the current row, the instants stay in
order, and a finding is live when the latest scan that examined it saw it fail.
In `Refinement` the `Commit` of a thread is the `Scan` of `FindingLedger`, a
step that disturbs findings is a `Forfeit`, and every other step is a stutter.
The theorems assume nothing of how scans overlap; what they leave open, the
findings two have worked on, is what the code leaves open.

`PaginationProofs`. `IInv` adds that a generator that died is remembered by
`saw_error` (this is what the field is for) and that the flag is set only while
a page is missing. `NoSilentTruncation` and `OnlyLossInterrupts` are the two
directions of "interrupted exactly when pages were lost".

`UnitOfWorkProofs`. Nothing is assumed of how blocks overlap. `overlapped` is
history: the blocks that entered a unit in use, and those that were using it
then, but for the ones that had only to leave. Of the others, a block inside its
unit owns the session the repositories write to, and what is pending in a
session is exactly what its block has written. From these follow atomicity and,
step by step, the refinement of `AtomicBlocks`, in which the step that overlaps
blocks is a `Forfeit` of them.

`RuleEvaluationProofs`. What TLC checks for eleven rules is proved for every
catalogue, estate and refusal that satisfies the assumptions. An induction on
conditions would be the natural argument; an invariant of the evaluation takes
its place. `Consistent` says that each pair that has returned has the result its
operands give, and `Agreement` that on each pair that both scans have returned,
what the partial one decides the full one decides too. When a pair returns, its
operands have returned before, and a lemma for each kind of node (`LeafAgrees`,
`ConnectiveInherits`, `QuantifierInherits`, `RelationalInherits`,
`AbsenceAgrees`) carries the agreement from them to it. The lemmas about
neighbours say where the premise `Sturdy` is needed: outgoing edges that come
with the resource itself and were not refused apart from it are the same in both
scans, and incoming ones are only when a coverage guard vouches for their
sources. The assumptions on the constants allow every refusal, of edges of any
link and of fields that keep a plain value; `Sturdy` is asked of the pairs that
the partial scan came upon, and is all that the theorems ask.

Two theorems need that the full scan asks all that the partial one asked, which
is an induction on the calls of the partial scan. `Grounded` states it before
the full scan has begun: what was asked lies in every set that holds the root
and is closed under the operands of the full scan, and what the full scan has
returned when it concludes is such a set. `Traced` says that the trace holds the
observations of what has returned and no others. A pair that raises on a partial
reading raises on the full one, so the full scan could not have concluded
(`GapsAreNoErrors`, from `CandidSoFar` alone); a neighbour that the partial
trace confirms was decided the same way in the full scan, by `Agreement`
(`RelatedConfirmed`).

`CollectionProofs`. The rosters are arbitrary and the services are not. A first
part shows of each of the twenty-one that it is `Orderly` (the listing calls
come first, no call is made in two places, what a call tolerates leaves UNKNOWN
or is one of those in `PassedOver`, and a service that counts its items loses
them in no other way), and nothing later looks into a service. `Walked` then
says where the walk is, and that what it has found came from what was listed. On
it rest four invariants, one for each question: what the resources say
(`TruthInv`, from which `MisleadingValuesAreListed`), what is missing
(`GapInv`), what was counted (`BookInv`: as many are skipped as there are items
that nothing found describes), and what the gate let through (`GateInv`).

`AttackPathsProofs`. A scan computes each result from the one before, so the
invariant (`Chain`) names for every variable what it was computed from, and the
work is in the lemmas about operators. Each normalizer is faithful to its
resource under every gap: it keeps the id and the type, holds only facts that
are so, and declares only edges that are so. Hence the edges of the graph are,
asserted and derived, and `derive_access_edges` finds no access that a policy
does not grant and no Deny that names its target takes back: there the code's
`derive_access_edges` and `AllowedBy` of the properties meet, which are written
apart. `find_paths` returns the simple walks of one to four edges, so
the hops of each path are edges, and so the candidates of the five scenarios
rest on evidence (`PathsAreTrue`). Scores and factors are bounded term by term
(`NothingRefused`). The rows are a fold over the paths, whose closed form is
that an id shows the highest of its scores (`WorstStored`). `NothingMissed` goes
the other way: each hop of a chain that the estate evidences is an edge of the
graph and is traversable, the walk it makes is simple and short enough to be
found, and a candidate of the scenario visits its nodes.

`QueryApiProofs`. That a walk misses nothing is an argument about ranks. A row
that lands never brings another one forward (`RankGrows`), so a promised row
whose rank is below the offset was below it when its window was read, and was
shown (`Reading`); a window holds at most a page (`WindowSize`), so when the
last one ends at the total, every row of lower rank lay in some window
(`SelectKeeps`), and those of higher rank are no more than the rows by which the
snapshot of the window outgrew the total (`late`). A restart takes all scores,
and nothing is promised of what is gone. Ranks are distinct because ids are,
which needs that `SaveScores` numbers its rows above every earlier one, which in
turn needs that the scores of a scan have one slot each (`ScoreSlots`) and are
computed once (`PendingReady`). `Isolation` needs no invariant: `OwnDecides`
shows that an answer is a function of what its tenant owns.

`ScoresAddUp` rests on `RecountInv`: the rows of a scan are those of one
scoring, all of them or none, and its tallies were counted from the same
findings. Each finding of the scan belongs to one row of each scope
(`RowsPartition`), and a sum of the sizes of disjoint sets is the size of their
union (`SumOfParts`), so what the rows of a scope count apart is what the row of
the scan counts at once.

Recursion. Paths, the stored rows, documents put end to end and sums are
recursive functions or folds of the community modules. The library's induction
theorems take an operator and cannot be used, so the induction is written as a
least counterexample (`LeastElement`, `LeastNumber`, from the well-foundedness
of the natural numbers): that the recursive function exists, that each step is
the one written, and what it computes are each proved so.

What is only model-checked: the three liveness properties `AcceptedJobEnds`,
`Terminates` and `EvaluationEnds`, which are out of the prover's reach, as is
`ENABLED`, and the four statements of section 5 that TLC refutes. Every
invariant, every action property and both refinements that the passing runs
check are theorems, from the named assumptions on the constants and no others.

## 5. Where the code and its documentation disagree

With a run that TLC finds violated, and an entry in `PROJECT.json` that quotes
the line:

* `scan_exit`: a failed scan cannot be marked failed. `update_status` writes no
  completion time and the CHECK constraint refuses the row, so it stays running.
  A scan that succeeds is stored under the key of the instant the worker
  started, so the submitted row stays running unless both instants are equal.
* `collection_partial`: nobody reads the statistics that say a scan is
  incomplete, and it is stored as completed.
* `collection_unknown`: a resource with an UNKNOWN attribute cannot be written
  (the sentinel has no JSON form), so a single denied call on a role or on an
  instance profile fails the scan, which the study guide calls "a degraded but
  honest result" (`docs/study-guide/phase-01-cloud-collection/README.md:181`).
* `attack_cloud`: `PathsMatchTheCloud`, the conjunction of four parts, each of
  which TLC refutes by itself (the run shows the first). `NoneTakenBack`: a Deny
  is matched with the test of an Allow, which no unconstrained pattern and no
  NotResource passes, so a Deny of everything removes no edge, contrary to
  "Explicit `Deny` wins, as it does in AWS" (`identity_access.py:242`).
  `ExposedStoresAreOpen`: Block Public Access is collected (`s3.py:59`) and read
  by no part of the analysis, and neither is a Deny in the bucket's policy, so a
  path calls a shut bucket "readable from the internet"
  (`analyze_attack_paths.py:213,243`). `EveryPublicStoreHasPath`: the attributes
  that mean exposure lack `allow_blob_public_access`, which is what the storage
  normalizer writes (`storage.py:59`), and `key_policy_allows_public_access`,
  though "the S3 and Azure storage collectors do read public-access state
  directly" (`analyze_attack_paths.py:216-217`). `EveryExposedWorkloadHasPath`:
  the scenarios read `public_ip` (`:268`, `:452`) and an Azure machine has a
  `public_ip_address` (`azure/normalizers/compute.py:65`), though the provider
  "only shows up as rows in the classification table"
  (`test_attack_path_analysis.py:126-127`).

Stated by a definition that no run lists, and that TLC refutes when its name is
put beside the others in the configuration of the passing run of its module
(`AuditOnlyGrows`, `ClosedTransitions`, `ResolvedWasExamined` and
`SightingsMoveForward` are about steps and go under PROPERTIES).

* `ScanPipeline!FailedMeansNothingLanded`: when scores are refused after the
  results were committed, a scan is marked failed with its results in the
  tables. `submit_scan.py:299-301`: "the whole point of marking a scan FAILED is
  that the main transaction did not commit".
* `ScanPipeline!AuditOnlyGrows`: audit events are executed
  (`api_repositories.py:308`) on the session that nobody commits, and go with a
  refused statement or a restart. `domain/audit/models.py:14`: "Audit events are
  immutable and append-only." The recorder's promise that an audit sink "that is
  briefly unavailable must not fail a scan" (`adapters.py:136-138`) does not
  hold for the same reason: a session left aborted refuses the scores too.
* `ScanPipeline!DuplicatesDetected`: the key that the conflict check looks up
  holds the instant of the request, so two requests for one target a moment
  apart are both accepted. `submit_scan.py:52-53` says that the key "makes a
  duplicate submission detectable".
* `ReconcileLifecycle!ClosedTransitions`: rows are read without
  a lock and written back as absolute values, so of two overlapping scans one
  writes back as open what the other resolved, outside the "Closed transition
  table" of `lifecycle.py:56-79`.
  `docs/architecture/phase-4-persistence.md:841-842` says of two scans that
  persist simultaneously that they "should be safe by construction".
* `ReconcileLifecycle!ResolvedWasExamined`: a rule that could not be decided
  resolves the finding (`persist_scan.py:236`).
  `phase-4-persistence.md:364`: "A finding is only resolved if its resource was
  actually re-examined".
* `ReconcileLifecycle!SightingsMoveForward`: `observed_again`
  takes the instant of the scan, whichever it replaces, so a scan that started
  earlier and is stored later takes the last sighting back.
  `lifecycle.py:146`: "detected again in a later scan".
* `UnitOfWork!EveryBlockAllOrNothing`: entering a unit replaces the session
  another thread is writing to, and a commit stores half a block.
  `ports/persistence/unit_of_work.py:4-6` says that the rows of a scan "either
  all land or none do".
* `RuleEvaluation!DecidedOnData`: a machine keeps no edge to the group of a
  network interface that could not be read
  (`azure/resource_collectors/compute.py:97-98,129,153-156`), and the rule about
  open groups passes. `conditions.py:10-11` says of INDETERMINATE: "the data
  needed to decide was not collected. This must never silently become
  MATCHED/NOT_MATCHED". An edge from a source that was not collected, which no
  coverage guard asks for, does the same.
* `RuleEvaluation!ComparisonsNeverRaise`: `starts_with` of a number or of None
  raises an AttributeError, which the handler does not name, and ends the
  evaluation of the account. `conditions.py:433-434`: "the data exists but
  cannot answer the question, so it's unknown, not false".
* `Collection!NoFabricatedValue`: a managed policy that was denied is left out
  and the role keeps a plain `has_administrator_access`
  (`iam_roles.py:285-289`), where `unknown.py:36` asks for UNKNOWN.
  `OnlyPassedOverMislead` says where else this happens. When the policy held a
  Deny, an access edge is derived that the account does not allow.
* `QueryApi!ProviderIsRecorded`: a filter on the provider joins the lifecycle
  table and drops every finding that never failed.
  `api_repositories.py:104-105`: "Provider and lifecycle live on
  logical_findings, not on the snapshot."

Seen while modelling, and left in the definition named.

Scanning and persistence.
* `unsuppress` chooses between open and reopened by the regression counter, not
  by the state before the suppression.
* A result stored a second time counts every finding as seen once more.

Collection.
* A server hint is cut to `max_delay` although the docstring says that it always
  wins (`Delays`); the StopIteration that ends a listing is counted as an error
  (`CallsAccountedFor`).
* When STS cannot say whose the credentials are, `IamAccountCollector` returns
  nothing without failing, so "every sub-collector failed" cannot hold.
* Errors other than `ClientError` leave the simple collectors of Amazon and end
  the scan, although `base.py:42-47` isolates a service.
* Roles that all fail after the listing make an empty, successful service.
* A throttle that survives the retries marks an instance profile UNKNOWN
  without being counted.
* Nothing compares the target of a request with the account that was collected.
* Most collectors call the SDK's paginators directly and are not retried.

Rules.
* `exists` and `not_exists` on a field below an UNKNOWN value are decided.

Graph, attack paths, risk.
* One more path of low confidence lowers the risk of a finding
  (`confidence_factor` takes the weakest), contrary to "three attack paths is
  genuinely worse".
* Two chains behind one control to one store share an id, hence a row
  (`StoredIsWorst` says which is kept).
* Blackhole default routes count as routes to the internet; the rules of a
  network security group are read without Deny and priority; a subscription's
  node is in lower case and an assignment's edge to it is verbatim;
  `NotPrincipal` is read as `Principal`; a role points at whom it trusts, the
  reverse of the comment.

Serving.
* Nothing computes a score of the whole tenant, the default of
  `/scores/current`, which therefore always answers 404.
* A framework's current score is that of the scan scored last, of whichever
  account, by computation time and not by collection time.
* `WalkMissesNothing` has two exceptions: it allows for the rows that land
  between the count and the window of the last page (`late`), and promises
  nothing of a filter on a state that changes. Paging by offset is a weakness
  that `application/ports/queries.py:64` names. Descending walks show rows twice
  when scans land; no document denies it.
* The in-memory repository reverses the tiebreaker of its default order and
  ignores the lifecycle and provider filters.
* Listing scans orders by the start alone, without a tiebreaker.

## 6. Not modelled

* Drift: a pure comparison of two snapshots. `ScanCloudAccount` runs it only for
  a caller that supplies the previous snapshot, and no production caller does.
* Onboarding and offboarding of tenants: an in-memory object that nothing
  stores.
* Scoring a scan a second time moves its row in a walk through the scores;
  `ComputeScores` scores each scan once, as the worker does.
* The searches of scans, audit events and attack paths: the shape of
  `QueryApi`'s with other columns.
* The conformance runner (a batch tool over the functions above), graph
  validation (run by no scan), the catalogue of frameworks (static data),
  rendering, the other row mappers, migrations, configuration, deployment,
  scripts (conversions and data, no behaviour over time), and the cryptography
  of tokens (a library).
* Accepted-risk exceptions of rules (`domain/rules/exceptions.py`), which no
  production code imports, and the construction of findings beyond their verdict
  and risk.
