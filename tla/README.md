# SentinelGPT in TLA+

SentinelGPT is a web-vulnerability assessment platform: users register targets,
attest that they are authorized to scan them, and queue scans; Celery workers run
each scan in an isolated sandbox, store findings and their history, and ask a
language model for an assessment. The API is FastAPI over PostgreSQL (READ
COMMITTED, async SQLAlchemy sessions); Redis is the broker.

This directory models the backend, with most care where several actors share
state or where something outside the process can go wrong: TLA+ modules
translated from the code, TLC configurations for small instances,
and TLAPS proofs for every instance. Source paths below are relative to
`src/backend/src/`. `PROJECT.json` maps every definition to the lines it models,
lists the runs, the mutants that show each property can fail, the hazards and
the theorems.

## Inventory

| Component | State | Operations | Interacts with |
|---|---|---|---|
| Scan state machine (`domain/scans/lifecycle.py`) | none: an edge table | `can_transition`, `is_terminal` | nothing calls it at run time |
| Scan service and API (`scan_service.py`, `scan_routes.py`, `scan_repository.py`) | `scan`, `scan_engine_execution`, `scan_finding`, `scan_ai_assessment` rows | create, rescan, cancel, execute, compare | attestations, targets, broker, audit, pipeline, AI |
| Scan worker (`workers/scan_tasks.py`, `celery_app.py`) | tasks in Redis | `enqueue_scan`, `execute_scan_job_task`, `_mark_scan_rejected` | scan service, broker |
| Attestations (`attestation_service.py`) | `authorization_attestation` rows | create, revoke; expiry by the clock | read by create, rescan and the claim |
| Finding history (`scan_service.py` 719-1017, `lifecycle_finding.py`) | `finding_status_history` rows | `_persist_findings`, `_record_lifecycle`, `compare_scans` | scans of the same target |
| Refresh sessions (`refresh_service.py`, `refresh_session_repository.py`, `auth_routes.py`) | `refresh_session` rows in token families | login, refresh, logout | the account's `is_active` |
| Accounts and access tokens | `user` rows, stateless JWT | register, authenticate | refresh sessions |
| Execution sandbox (`scanning/sandbox/docker_sandbox.py`, `scanning/runner.py`) | a Docker network, a container and its netfilter chains per scan | establish, verify, run, destroy | pipeline, Docker CLI |
| Resolution and egress policy (`domain/scanning/`) | none: values derived per attempt | resolve, classify, bind, authorize | DNS, sandbox, transport |
| HTTP transport (`http_transport.py`, `redirects.py`, `http_workload.py`) | the current hop, the budget, the locations seen | one request with its redirects | sandbox, resolution |
| Header and cookie engine (`scanning/engines/http_analysis.py`) | none | response to observations and findings | transport, finding history |
| AI analysis (`domain/scanning/analysis/`, `gemini_provider.py`) | none | call, validate, fall back | provider, scan service |
| Reporting (`reporting/assembler.py`, `scan_routes.py`) | none | assemble a report, explain a finding | every table of a scan |
| Organizations (`organization_service.py`) | membership rows | create, add, change role, remove | audit log |
| Targets (`target_service.py`, `target_normalization.py`) | target rows | normalize, register, archive, list | memberships |
| Audit log (`audit_service.py`) | append-only rows | record, query, get | everything that mutates |
| Frontend, platform code | none of their own | display; start, configure, migrate | API |

What is hard here, and what has to be right:

* **Scans.** A request, any number of workers, cancellations and attestation
  changes act on one row. The worker commits three times (claim, findings,
  assessment) and may raise or die between any two; Redis may deliver a task
  twice; the task is published before the row is committed. The engine must run
  at most once, and only with an attestation that is still valid; the status must
  agree with the rows it summarises; nothing may be left half way.
* **Finding history.** Each row is derived from rows other transactions wrote,
  through three reads with three snapshots. Scans overlap, and scans that never
  ran are between those that did.
* **Refresh sessions.** Concurrent requests with the same cookie race to rotate
  it; revocation must win, persist although the request fails, and end the family.
* **Sandbox and transport.** Every Docker command may fail, or time out and still
  have taken effect; a rule script may report success and leave other rules. DNS
  may answer differently at every call, and a redirect may point anywhere. A
  request may leave only for an address that was validated for its host, and what
  an attempt leaves behind must have an explanation.
* **Results.** A report is one SELECT per table while the worker commits between
  them; the language model may cite what does not exist; two parsers read the same
  cookie; one fingerprint must not stand for two problems.
* **Organizations, targets, audit.** Role checks go stale before the write;
  duplicates race; a host has many spellings; pages are read while rows change.

The list `hazards` of `PROJECT.json` places each of these at its line.

## Modules

| Module | Models |
|---|---|
| `ScanStates` | status codes, `_ALLOWED_TRANSITIONS`, terminal states |
| `ScanStateMachine` | abstract: what a reader of the scan table is promised |
| `ScanLifecycle` | requests, attestations, broker, workers and the scan rows |
| `FindingLifecycle` | the finding history of one target |
| `LoginSessions` | abstract: a login session as one slot that is handed over and closed |
| `RefreshSessions` | the refresh credentials of one account |
| `TargetResolution` | IP policy, resolution, bindings and allow-lists, as operators |
| `DockerSandbox` | one sandbox and what the Docker daemon and the kernel hold for it |
| `SandboxHttpClient` | one logical HTTP request and its redirects |
| `SandboxedScanExecutor` | one scan attempt: composes the three above |
| `HeaderEngine` | findings of a response, redaction, fingerprints, as operators |
| `AiAnalysis` | provider failures, the validator, fallback templates, as operators |
| `ScanResults` | the worker's writes after the engine, reports and explanations |
| `Memberships` | the members of one organization and the audit log |
| `TargetCatalogue` | normalization, registration, archiving and listing of targets |
| `MC...` | instances for TLC |
| `...Proofs` | TLAPS proofs about the module of the same name |

`SandboxedScanExecutor` is the inside of the `pipeline` stage of `ScanLifecycle`,
`HeaderEngine` turns its response into the findings that `FindingLifecycle` and
`ScanResults` store, and `ScanResults` looks into the stages `persist` and `ai`.

Modules share three conventions. Variables that stand for tables hold what is
*committed*; a transaction is one action unless it keeps a row locked, or uses
what it read, while others may act, and then it is split at the statements where
that can be seen. An `UPDATE ... WHERE status = from` finds nothing when the
committed row does not match and waits for the lock when it does. Operators named
as mutants in a comment are deliberately wrong variants of the definition that
follows them; no specification uses them.

### ScanLifecycle

One target, its attestations and its scans. `request[s]` follows POST /scans and
POST /scans/{id}/rescan: `create_scan` or `rescan_scan` inserts, `enqueue_scan`
publishes, and only then `CommitRequest` makes the row visible
(`scan_routes.py:139-169`, `connection.py:54-63`). `CancelRead` and `CancelUpdate`
are the two statements of `cancel_scan`. A worker goes through `stage`:

| stage | code |
|---|---|
| `claim` | the conditional UPDATE QUEUED -> RUNNING, which keeps the row locked (`rowLock`) |
| `recheck` | the attestation is read again: `RecheckPasses`, or `RecheckFails`, which commits REJECTED |
| `begin` | the RUNNING engine execution row is inserted and the claim committed |
| `pipeline` | the sandboxed run: `PipelineSucceeds`, or `PipelineRaises`, which commits FAILED and REJECTED |
| `persist` | outcome, findings, SCAN_COMPLETE and AI_ANALYSIS in one commit |
| `ai` | assessment and final status in one commit |
| `rejectRunning`, `rejectQueued` | `_mark_scan_rejected`, in a new session |

`Faults` says what may go wrong: the broker refuses the task, the request's COMMIT
fails, an exception leaves the job at any stage, or the worker process is lost.
`Redeliver` puts a second copy of a task into the queue. The attempts of a broken
worker are not repeated: with `acks_late=False` its task was acknowledged.

The in-process fallback of the routes is unreachable (`enqueue_scan` returns an
empty id only when execution is disabled, and is called only when it is enabled),
so it has no action.

`ScanStateMachine` is what the rest of the system relies on: every scan moves along
the edges of `lifecycle.py`, at most one engine start, exactly when it becomes
RUNNING. `ScanLifecycle` implements it (`MachineSpec`) with one edge added,
AI_ANALYSIS -> CANCELLED: `cancel_scan` refuses terminal and RUNNING scans only.

### RefreshSessions

`pc[r]` is the next statement of request `r`. `try_mark_rotated` locks the row it
changed until `CommitRotation`; `revoke_family` is split into the start of its
statement, which fixes the rows it will rewrite (`found`), and the moment it has
all their locks; `revoke` (logout, expiry, inactive account) rewrites one row
whatever it holds. The routes commit a revocation before they raise, so UPDATE
and COMMIT are one step there. `Rollback` ends any request. A credential that is
unknown or REVOKED is refused without effect and is not a step. Nothing in the
repository clears `is_active`, so `Deactivate` is an external administrator.

`LoginSessions` is what an account relies on: a session is opened by a login, its
one live credential is handed over to a credential never issued before, and once
closed it stays closed; a step concerns one session. `RefreshSessions` implements it
(`SessionsSpec`): the holder of a session is its ACTIVE credential. A revocation that
misses the family's newest credential (`refresh_reuse_survivor`) is a step that does
not close the session; it reopens none.

### FindingLifecycle

A scan has at most one job (`EngineRunsOnce` of `ScanLifecycleProofs`), so jobs are
named by their scan and the claim is one step. `PickPrevious`,
`fingerprints_for_scan` and `latest_status_map` are the three reads of
`_record_lifecycle`; `record_lifecycle` derives and flushes the rows and takes
their `effective_at`; `CommitFindings` makes findings and rows visible. `JobFails`
rolls all of it back. `compare_scans` is a state function. A finding is its
fingerprint; findings without one take no part in the history. `clock` orders
timestamps; two of them are never equal.

### TargetResolution, DockerSandbox, SandboxHttpClient, SandboxedScanExecutor

`phase` is the statement the worker thread is at, from `prepare()` through
`establish()` and the engine's request to `destroy()` in the `finally` block.
Handles (`network`, `container`, `pending`) are what the sandbox object remembers,
`dNetwork`, `dContainer` and `chain` what exists. They differ because a command
that raises (`TimeoutExpired`, `OSError`) may have worked, may work later
(`inflight`), or never will. `CreateContainer` records the name before the command
and can be reaped; `CreateNetwork` records it after. A chain has what the kernel
`accepts` and the destinations `named` in its dump, which `_ACCEPT_DEST_RE` collects
from rules of the one form `-d X -j ACCEPT`. `InstallEgressRules` may report success
and leave a chain whose dump shows that it is another (`chainDrift`), or one whose
rules accept something else than is named (`unreadRule`: an accept without a
destination or with a match after it, a negation, a rule that shadows another).
`Verify` compares what is named in both families; `VerifyPrivilegeDrop` passes on any
exit code but 0, a timeout's 124 too. `mishaps` remembers what went wrong and is read by no action.

A name is resolved at `prepare()` and again at every absolute redirect, with any
answer. `FollowAbsolute` resolves, validates, binds and pins anew; `FollowRelative`
keeps binding and pin; `RedirectRefused` covers loops, the budget, downgrades, bad
ports, prohibited names and bad answers. A request gets out (`Exchange`) only if the
container runs and the chain of the address's family lets it (`LetsOut`), so a
redirect to another validated machine fails in the kernel unless its address is in
the sandbox's policy, or a rule that was not read accepts it. The engine's outcomes
(`analysis`, `unreachable`, `redirectBlocked`, ...) end in `destroy()`.

### HeaderEngine, AiAnalysis, ScanResults

`execute(response)` applies the rules of the engine to a response in the order of the
code: transport, six headers, cookies, server headers. Each `for` loop is a recursive
function of how many rounds were made (`after_headers`, `after_attributes`,
`after_server_headers`). Which observation a finding cites is left out. A finding's id
is its category and title; `generate_fingerprint` follows the canonical category. The
evidence keeps all cookies where the code cuts it at a length, so what is said of
redaction is said of any prefix.
`Outcomes(analyzer, evidence)` is everything `AiAnalysisService.analyze` may return:
the validated form of any payload, or the failure kind of any provider fault.

`ScanResults` has a worker that publishes findings (one commit) and assessment
(another), a report that reads status, execution, findings, assessment and history
in five statements, and the explanation endpoint. A cancellation, a rejection by
another delivery and the loss of the worker may come at any point.

### Memberships

A mutating request is three steps: `CheckAdmin` (the actor's row), `LoadSubject`
(the subject's row) and `CommitMembership`, which writes the row and its audit
entry. The ORM decides what to write from what it loaded: no UPDATE if the role is
unchanged, `StaleDataError` for an UPDATE of a row that is gone, only a warning for
a DELETE; `rowId` tells a row from its successor. `query_entries` and `get_entry`
leave an entry of their own.

### TargetCatalogue

A host is a name with a case, a trailing dot and a script; `HostKind` says what the
name is, and a rule sees it only in a host without a trailing dot whose script is
"plain". Non-ASCII digits are refused by a rule of their own; a host "masked" by other
characters that IDNA maps to ASCII (U+3002 as a separator, fullwidth letters) looks
public to every rule.
`RegisterCheck` looks for a duplicate and `RegisterInsert` inserts under
`uq_target_owner_url`, which treats the NULL owner column as equal (`NULLS NOT
DISTINCT`). `list_targets` serves one page after the cursor: the `Newest` rows beyond
it up to the limit, and one more as the has-next probe. `served` (the ids of each page)
and `owed` (what a complete listing has to contain) are history variables.

## Runs

Runs marked V check one statement of the repository's documents that the code does
not keep.

| Run | Instance | Shows |
|---|---|---|
| `scan_safety` | 2 scans, 2 workers, 1 attestation, 2 deliveries each, all faults | `AtMostOneEngineRun`, `TruthfulStatus`, `MachineSpec`, `TypeOK` |
| `scan_liveness` | 1 scan, 2 workers, 2 attestations, 2 deliveries, no lost worker, fairness | `DeliveredScanLeavesQueued`, `ClaimedScanEnds`, `CancelIsAnswered`, `RevokedNeverRuns` |
| `scan_enqueue_before_commit` V | 1 scan, 1 worker, no faults, fairness | a worker that starts the task before the request commits finds no row and drops it: the scan stays QUEUED |
| `refresh_safety` | 4 credentials, 3 requests, rollbacks | `OneLiveCredential`, `NoResurrection`, `SessionsSpec`, `TypeOK` |
| `refresh_liveness` | 3 credentials, 2 requests, fairness | `EveryRequestEnds`, `ReuseIsPunished`, `IneligibleNeverRotates` |
| `refresh_reuse_survivor` V | 4 credentials, 2 requests | a child committed while `revoke_family` waits survives the revocation of its family |
| `finding_safety` | 3 scans, 2 at a time, 1 fingerprint, exceptions | `RowsAreJustified`, `ChainedHistoryIsExact`, `ComparisonAgrees` |
| `finding_lost_resolution` V | 3 scans, one at a time | a cancelled scan becomes the comparison base and a finding that disappeared is not recorded RESOLVED |
| `sandbox_attempt` | 4 addresses (a private one, an IPv6 one), 3 hosts, 6 locations, 2 redirects, all mishaps, fairness | `EstablishedIsEnforced`, `DeliveredIsValidated`, `RedirectBudget`, `LeftoversAreExplained`, `AttemptEnds`, `TypeOK` |
| `scan_results` | 6 responses, 3 kinds of analyzer, 133 payloads, 15 provider faults | `FindingsAreDistinct`, `RedactedFlagsAreJudged`, `AssessmentIsGrounded`, `ReportIsBacked`, `EveryFindingIsExplained`, `TypeOK` |
| `memberships` | 2 users, 2 requests, 4 log entries | `AdminsAreAudited`, `OrphanedIsFrozen`, `TypeOK` |
| `targets` | 1 user and an organization, 12 spelled inputs, two of them accepted as URLs, 3 rows, 2 timestamps, pages of 1 | `TargetsAreUnique`, `TargetsArePublic`, `ListingIsExact`, `TypeOK` |

**Bounds.** Two workers and two deliveries are the smallest numbers with a race
for the claim and with a second delivery that meets the scan in every status; the
second scan is there for rescans and for workers that change jobs. Two
attestations allow a revoked one to be replaced by a newer one. Three requests let
a rotation, a reuse and a logout overlap; four credentials are a family of three
and another login. Three scans are what found, gone and found again (REGRESSED)
takes; the rows of different fingerprints do not influence each other, so one is
enough. Two redirects are the smallest budget with a last hop that is neither the
first nor refused; the locations have one of every kind `_next_hop` tells apart; the
addresses one of every kind the policy and the chains do. The responses of
`scan_results` are everything missing, nothing missing, the nonstandard header,
HSTS over http, no response, and the cookie tokens on which the two parsers could
differ; the payloads cite a finding of the scan, of another, a made-up one, or one
twice. Two requests are a stale check and the change that makes it stale, and four
log entries let an administrator be made, act and be removed. Two URLs are accepted,
a public host and a masked one, so a listing has at most two rows and its one page
boundary lies between rows with the same timestamp or with different ones; longer
listings and larger pages are left to `ListingExact`. The theorems have no such
bounds. Symmetry is used only in runs without
liveness properties.

**Deadlock** is checked for ScanLifecycle, ScanResults and TargetCatalogue, where users
may always act. The others may stop: the account is deactivated or all credentials
of the instance are used, all scans of the instance have ended, the attempt is over,
the log of the instance is full.

**Fairness.** `FairSpec` of ScanLifecycle: a request that began is carried on
(`RequestStep`), a cancellation whose row is free proceeds (`CancelStep`), a worker
that can take a step eventually does (`WorkerStep`): the event loop, PostgreSQL
and a live Celery worker do this, and the job's time limits bound the pipeline and
the AI call. Users, the clock, redelivery and faults have no fairness. A lost
worker breaks the promise by definition and is excluded from the liveness run (ADR-0009
documents that a hard crash leaves the scan RUNNING). RefreshSessions: a request
that began goes on; clients owe nothing. SandboxedScanExecutor: the worker thread
goes on (`ThreadStep`), because every docker command and the startup poll have a
timeout, and so has the exec that carries the workload; the daemon, the container and the
process being killed have no fairness, and `AttemptEnds` holds with all of them.

## Proofs

tlapm checks all of them, for any number of scans, workers, deliveries,
attestations, credentials, requests, fingerprints, addresses, hosts, locations,
users, target rows, cookies and payloads, any page size and any set of faults. They
assume only the named ASSUME of each module: bounds are numbers, the "none" values are
not members, addresses are numbers with the IPv4 ones first, inputs have the fields of
a URL, payloads those of the provider's JSON; the id of a row (a UUID) is never an
engine's finding id (16 hex digits, `UuidsAssumption`).

**ScanLifecycleProofs.** `Invariance`: `Spec => []IndInv`; from it `TypeCorrect`,
`EngineRunsOnce` (`AtMostOneEngineRun`), `StatusIsTruthful` (`TruthfulStatus`) and
`Refinement` (`Spec => MachineSpec`). Neither safety property is inductive.
`IndInv` adds: a worker has a job exactly while it is busy, and a row lock belongs
to the worker between claim and commit, with the row QUEUED (`JobsAndLocks`); no
engine row before the claim commits (`RowsAndRequests`); a driving worker's `row`
is the scan's engine row, in the state its stage implies, and only REJECTED or,
in `ai`, CANCELLED can have come over the scan meanwhile (`DriversOwnTheirRow`).
The last part is what makes unchecked UPDATEs harmless: an outdated worker finds no
row to move and writes only to its own execution. `SecondGate` (`RevokedNeverRuns`) is
a property of the form `[](P => []Q)`; it is proved by a predicate that P implies, that
every step keeps and that implies Q (`Refused`: the attestation is inactive, there is
no engine row, and no worker with the scan is past the second check), with `Authorized`
(the attestation of a scan exists) as invariant.

**RefreshSessionsProofs.** `Invariance`, `TypeCorrect`, `OneLive`
(`OneLiveCredential`) and `RevocationIsFinal` (`NoResurrection`, an action
property). The strengthening: a lock is exactly an uncommitted rotation of an ACTIVE
row (`LocksAreRotations`), drawn credentials are new and distinct (`DrawnAreNew`),
and a credential that has a child is no longer ACTIVE (`RowsHangTogether`).
`NoBypass` (`IneligibleNeverRotates`) follows as `SecondGate` does, from `Barred`: a
request that presents the credential is not on its way to rotate it, and one that has
yet to read the account will find it inactive. `Refinement` (`Spec => SessionsSpec`)
needs besides that what `revoke_family` found is of one family although its statement
started earlier (`FoundInv`); that the holder is unique is `OneLiveCredential`.

**FindingLifecycleProofs.** `Invariance` and `HistoryIsJustified`
(`RowsAreJustified`). A row is derived from earlier reads, so `ReadsAreJustified`
says that what a job read rests on committed rows, which never change
(`CommittedStays`), and `Stamped` that their `effective_at` lies behind the clock.
`ChainInvariance` adds that a scan which was read has ended with the rows it has now
(`ChainInv`). `ChainedHistory` (`ChainedHistoryIsExact`) is the step from rows derived
one from another to the SRS definition over all scans: the latest row of a fingerprint
is that of the greatest recorded scan before, and a finding that is gone has a least
scan after which it was. `Comparison` (`ComparisonAgrees`) says the same of
`compare_scans`, which reads findings and rows again at any later time.

**SandboxedScanExecutorProofs.** `Invariance`, `TypeCorrect`,
`EstablishedMeansEnforced` (`EstablishedIsEnforced`), `DeliveredToValidated`
(`DeliveredIsValidated`), `BudgetHolds` (`RedirectBudget`) and `LeftoversExplained`
(`LeftoversAreExplained`). For the sandbox, `Compared` says that from the comparison
on the dumps of a running container name the policy, `ShownAsIs` that without an
`unreadRule` a chain accepts what its dump names, `Probed` when a privileged
workload can pass, `Tracked` that what exists has a handle `destroy()` will still
use or a mishap that explains it. For the client, `CurrentIsValidated` ties the
request under way to a validated pair, `ValidatedIsAllowed` ties those pairs and the
policy to the IP policy, `Budgeted` that an exchange under way is paid for. A
delivery is then inside the policy because the kernel lets out nothing else
(`OnlyThePolicy`, for chains without an `unreadRule`): the two halves need each other
only there. That it goes to an address validated for its host needs no chain at all.

**HeaderEngineProofs.** For every response, however many cookies it sets and whatever
their attributes: `EachFindingOnce` (no two findings have the same id),
`FingerprintIdentifies` (findings of any two responses with one fingerprint are about
the same header or failure) and `RedactedIsJudged` (a cookie the evidence shows without
Secure or HttpOnly has that finding). The loops are recursive functions; that they exist
and what they compute is shown by the least number of rounds for which it would fail
(`LeastNumber`), because the library's induction theorems cannot be instantiated here.

**ScanResultsProofs.** `Invariance` and `ReportsAreBacked` (`ReportIsBacked`). The
argument is about order: findings are committed with AI_ANALYSIS and the assessment
with the final status (`Tables`), neither changes afterwards, and the report reads
the status first, so what it reads later is at least what that status promised
(`Reads` compares what was read with the tables as they are now). It assumes that an
assessment row is distinguishable from no row (`RowAssumption`). `ContentInvariance`
adds what the tables hold: results of the engine, and an assessment of those very
findings (`ContentInv`). From it and from the facts about the engine follow
`TypeCorrect`, `Distinct` (`FindingsAreDistinct`), `Judged` (`RedactedFlagsAreJudged`),
`Grounded` (`AssessmentIsGrounded`, from what the validator keeps of any payload) and
`Explained` (`EveryFindingIsExplained`: the endpoint never finds a stored explanation,
which is kept under the engine's id and looked up by row id).

**MembershipsProofs.** `Invariance`, `TypeCorrect`, `AuditJustifiesAdmins`
(`AdminsAreAudited`) and `OrphanedStaysFrozen` (`OrphanedIsFrozen`, an action
property). An actor may be demoted between check and commit, so the invariant
remembers that the log already granted the actor of every request under way
(`ActorsAreGranted`), and that a change or removal under way has a row
(`LoadedRowsExist`).

**TargetCatalogueProofs.** `Invariance`, `TypeCorrect`, `OneRowPerUrl`
(`TargetsAreUnique`) and `RowsArePublic` (`TargetsArePublic`). Both follow from
`AcceptedIsCanonical`: what `normalize_target` validates is the spelling it returns, in
lower case and without a trailing dot, so that equal targets have equal URLs
(`RowsAreKeyed`), except where a host is masked.
`ListingExact` (`ListingIsExact`) rests on `ListingInv`: what a listing has given it
has passed, and what it owes is given or still ahead of its cursor. The order by
(created_at, id) is total (`NewerIsTotal`), so the oldest row of a page separates what
was given from what lies ahead (`NewestFacts`), and the probe finds a row exactly when
one lies ahead (`ProbeFinds`).

Only model-checked are the six liveness properties (`DeliveredScanLeavesQueued`,
`ClaimedScanEnds`, `CancelIsAnswered`, `EveryRequestEnds`, `ReuseIsPunished`,
`AttemptEnds`): the prover does not handle fairness and ENABLED. Every invariant,
action property and refinement of a passing run is a theorem.

## Disagreements between documents and code

The three runs marked V; `findings` of `PROJECT.json` quotes the lines. Others seen
while modelling, each of them kept in the model as the code has it:

* *Scans.* `cancel_scan` takes a scan from AI_ANALYSIS, whose engine has run
  (`scan_service.py:367`; ADR-0009: "CANCELLED is reachable only pre-RUNNING"). A job
  that raises in AI_ANALYSIS is left there: `_mark_scan_rejected` tries RUNNING and
  QUEUED only (`scan_tasks.py:183`). A second delivery that raises before its claim
  rejects a scan another worker is executing. The failed job's execution row stays
  RUNNING (`scan_tasks.py:199`). Claim, cancellation and final statuses leave no
  audit entry (SRS chapter 2, section 10 asks for one per transition). `rescan_scan`
  does not repeat the archived-target check. `compare_scans` may list a finding as
  regressed that was recorded as NEW.
* *Refresh.* `revoke` has no status condition, so a logout overwrites the ROTATED of
  a refresh that committed in between, and reuse of that credential is no longer
  recognised (`refresh_session_repository.py:57`).
* *Sandbox.* A network whose creation timed out is not known to `destroy()`
  (`_create_network` sets the handle after the command; ADR-0003 says no orphans):
  the cause `networkCreateRaised` of `LeftoversAreExplained`. A privilege probe that
  times out counts as passed. ADR-0003 (lines 87 and 162) has "verify live rule dump ==
  policy" and "rule-dump equality"; `_compare_against_policy` compares the destinations
  that `_ACCEPT_DEST_RE` finds (`docker_sandbox.py:50`, `:359`), so a chain with an
  accept of another form passes: the exception in `EstablishedIsEnforced`
  and in the policy half of `DeliveredIsValidated`. Addresses a request goes to are
  validated for their host all the same.
* *AI analysis.* The stored `unsupported_claim_count` is always 0: `_coerce_count`
  is handed the payload (`scan_service.py:622`). A claim that declares itself
  supported and cites nothing is accepted (`validator.py:222`). Stored fallback texts
  are looked up by the engine's category, so they are the generic one
  (`scan_service.py:659`), and are keyed by the engine's finding id, not by the row
  id "the per-finding endpoint reads" (`scan_service.py:650`, `scan_routes.py:287`):
  the endpoint never finds one, and no answer is ever labelled "validated", as the
  comment and `tests/unit/test_finding_explanation_endpoint.py:168` expect of it.
  `EveryFindingIsExplained` states what is answered instead: always a fallback.
* *Reports.* Lifecycle counts use the latest history, so an old report changes; the
  explanation and the CSV's `lifecycle_status` are always empty.
* *Engine and fingerprints.* Cookie findings have no fingerprint although a rule for
  them exists, because the rule is looked up by another code; an unreachable target
  yields a WEAK_CIPHER finding and resolves all others. The evidence and the findings
  read SameSite by different rules (last and stripped; first and as it stands), and
  `path=/secure` shows as Secure in the evidence; `RedactedFlagsAreJudged` holds
  because the difference errs towards a finding.
* *Memberships.* There is no guard for the last administrator. Adding a present
  member is recorded as MEMBER_ADDED; a change that writes nothing and a removal of a
  row that is gone are recorded too, so the log may name a role the table has not.
* *Audit log.* The limit of a query is applied before the visibility filter; SRS
  chapter 5 wants every read recorded, and `get_entry` records none that ends in 404.
* *Targets.* The default port is kept: `https://h/` and `https://h:443/` are two
  targets. `_contains_non_ascii_numeric` is the guard against what it calls the IDNA
  bypass class and looks at digits only (`target_normalization.py:170-181`): a loopback
  literal with U+3002 for its dots, or a special name in fullwidth letters, is
  registered as a public host and as a target of its own. Such a host is judged by its
  addresses, at each scan (`TargetResolution`), and not at registration;
  `TargetsArePublic` and `TargetsAreUnique` name the exception.

## Not modelled

Password hashing, JWT signing, registration of accounts, settings, migrations, health
probes, logging and the React client: library calls or I/O without shared state.
Prompt texts, CSV and JSON rendering, wording of titles, uploads of attestation
documents: formatting and I/O. The correlation of candidate groups only feeds the
prompt. Listings of scans and of organization members, and the answer of an audit
query, change nothing. `extra_networks` of the sandbox is set by tests only, and
nothing calls `ScanCancellation.cancel`. Duplicate fingerprints within a scan (the
code works on sets) and equal timestamps in the finding history. Statuses of the
history in reports, which later scans may change.

## Plan

1. `SandboxedScanExecutor` as the refinement of the `pipeline` stage of
   `ScanLifecycle`, with the process-wide time limit.
2. An abstract specification of the finding history (what a reader of one target is
   promised when scans do not overlap), implemented by `FindingLifecycle`.
3. Registration of accounts and the client's cookie jar, for the hazard of a
   refreshed cookie that is sent before the commit.
