--------------------------- MODULE ScanLifecycle ---------------------------
(***************************************************************************)
(* A scan from the API request that inserts it to its terminal status:     *)
(* api/routes/scan_routes.py, domain/scans/scan_service.py,                *)
(* domain/scans/attestation_service.py, workers/scan_tasks.py and the      *)
(* conditional UPDATEs of scan_repository.py, for the scans of one target. *)
(*                                                                         *)
(* PostgreSQL runs at READ COMMITTED.  status, started, completed,         *)
(* executions and audit hold what is committed.  An UPDATE ... WHERE       *)
(* status = from finds nothing when the committed row does not match, and  *)
(* waits for the row's lock when it does; the only transaction that keeps  *)
(* a scan row locked while it does other work is a worker's claim, so it   *)
(* alone is split into steps (rowLock).                                    *)
(***************************************************************************)
EXTENDS ScanStates, Naturals, Sequences

CONSTANTS
    Scans,            \* scan ids
    Workers,          \* Celery worker processes
    MaxAttestations,  \* bound on the attestations ever created
    MaxDeliveries,    \* bound on the copies of one task the broker delivers
    ExecutionEnabled, \* settings.scanner_execution_enabled
    Faults,           \* what may go wrong: see FaultKinds
    NoWorker, NoScan

\* broker: send_task raises; commit: the request's COMMIT fails;
\* exception: an exception leaves execute_scan_job; lost: the worker process
\* dies (kill, hard time limit) or its last-resort handler cannot run.
FaultKinds == {"broker", "commit", "exception", "lost"}

ASSUME ConstantsAssumption ==
    /\ MaxAttestations \in Nat
    /\ MaxDeliveries \in Nat
    /\ ExecutionEnabled \in BOOLEAN
    /\ Faults \subseteq FaultKinds
    /\ NoWorker \notin Workers
    /\ NoScan \notin Scans

VARIABLES
    archived,      \* is_archived of the target
    attestations,  \* state of the target's attestations, in creation order
    request,       \* progress of the API request that creates each scan
    authorizedBy,  \* authorization_attestation_id of each scan
    status,        \* committed status of each scan row, or Absent
    started,       \* started_at is set
    completed,     \* completed_at is set
    rowLock,       \* worker whose open transaction has claimed the row
    executions,    \* scan_engine_execution rows of each scan, oldest first
    audit,         \* states that audit_log_entry rows record for each scan
    queue,         \* copies of the scan's task waiting in the broker
    deliveries,    \* copies the broker has been given or has made
    cancels,       \* statuses read by cancel requests still in flight
    stage,         \* where each worker is in execute_scan_job_task
    job,           \* the scan id of the worker's task
    row            \* index of the execution row the worker created

apiVars == <<archived, attestations, request, authorizedBy>>
scanVars == <<status, started, completed, executions, audit>>
brokerVars == <<queue, deliveries>>
workerVars == <<stage, job, row>>
vars == <<apiVars, scanVars, rowLock, brokerVars, cancels, workerVars>>

Attestations == 1..MaxAttestations
AttestationStates == {"absent", "active", "expired", "revoked"}
RequestStates == {"none", "inserted", "sent", "committed", "rolledBack"}
Stages == {"idle", "claim", "recheck", "begin", "pipeline", "persist", "ai",
           "rejectRunning", "rejectQueued"}

\* tool is tool_version_snapshot: "engine" for the row execute_scan_job makes
\* for the engine run, the two others for rows that only record a failure.
Execution == [tool : {"engine", "unknown", "worker-unknown"},
              status : {"RUNNING", "SUCCEEDED", "FAILED"},
              findings : BOOLEAN,
              assessment : {"none", "available", "unavailable"}]

AuditedStates == {"QUEUED", "REJECTED", "EXECUTION_SUCCEEDED"}

\* The statuses cancel_scan accepts when it reads the scan.
Cancellable == Statuses \ (TerminalStates \cup {"RUNNING"})

RequestTypes ==
    /\ archived \in BOOLEAN
    /\ attestations \in [Attestations -> AttestationStates]
    /\ request \in [Scans -> RequestStates]
    /\ authorizedBy \in [Scans -> Attestations \cup {0}]
    /\ queue \in [Scans -> Nat]
    /\ deliveries \in [Scans -> Nat]
    /\ cancels \in [Scans -> SUBSET Cancellable]

RowTypes ==
    /\ status \in [Scans -> Statuses \cup {Absent}]
    /\ started \in [Scans -> BOOLEAN]
    /\ completed \in [Scans -> BOOLEAN]
    /\ executions \in [Scans -> Seq(Execution)]
    /\ audit \in [Scans -> SUBSET AuditedStates]

WorkerTypes ==
    /\ rowLock \in [Scans -> Workers \cup {NoWorker}]
    /\ stage \in [Workers -> Stages]
    /\ job \in [Workers -> Scans \cup {NoScan}]
    /\ row \in [Workers -> Nat]

\* Every variable holds a value of its kind, in particular each scan's
\* executions stay a sequence of well-formed rows under updates by row id.
TypeOK == RequestTypes /\ RowTypes /\ WorkerTypes

Init ==
    /\ archived = FALSE
    /\ attestations = [a \in Attestations |-> "absent"]
    /\ request = [s \in Scans |-> "none"]
    /\ authorizedBy = [s \in Scans |-> 0]
    /\ status = [s \in Scans |-> Absent]
    /\ started = [s \in Scans |-> FALSE]
    /\ completed = [s \in Scans |-> FALSE]
    /\ rowLock = [s \in Scans |-> NoWorker]
    /\ executions = [s \in Scans |-> <<>>]
    /\ audit = [s \in Scans |-> {}]
    /\ queue = [s \in Scans |-> 0]
    /\ deliveries = [s \in Scans |-> 0]
    /\ cancels = [s \in Scans |-> {}]
    /\ stage = [w \in Workers |-> "idle"]
    /\ job = [w \in Workers |-> NoScan]
    /\ row = [w \in Workers |-> 0]

-----------------------------------------------------------------------------
(* The repository's conditional UPDATE.                                    *)

\* UPDATE scan SET status = to WHERE id = s AND status = from, applied to the
\* rows as the transaction sees them; the rowcount is 1 iff rows[s] = from.
try_transition(rows, s, from, to) ==
    IF rows[s] = from THEN [rows EXCEPT ![s] = to] ELSE rows

\* The same UPDATE's "set completed_at", which takes effect only with it.
CompletedWith(s, from) == [completed EXCEPT ![s] = @ \/ status[s] = from]

\* The UPDATE waits while another transaction holds a row it matches.
NotBlocked(s, from) == status[s] = from => rowLock[s] = NoWorker

NewExecution(tool, outcome) ==
    [tool |-> tool, status |-> outcome, findings |-> FALSE, assessment |-> "none"]

AddExecution(s, execution) ==
    executions' = [executions EXCEPT ![s] = Append(@, execution)]

\* The execution row the worker created, and an UPDATE of it by its id.
Own(w) == executions[job[w]][row[w]]

UpdateOwn(w, execution) ==
    executions' = [executions EXCEPT ![job[w]] = [@ EXCEPT ![row[w]] = execution]]

Record(s, state) == audit' = [audit EXCEPT ![s] = @ \cup {state}]

-----------------------------------------------------------------------------
(* Attestations and the target's archive flag: single-row transactions.    *)

create_self_attestation(a) ==
    /\ attestations[a] = "absent"
    /\ \A b \in Attestations : b < a => attestations[b] # "absent"
    /\ attestations' = [attestations EXCEPT ![a] = "active"]
    /\ UNCHANGED <<archived, request, authorizedBy, scanVars, rowLock,
                   brokerVars, cancels, workerVars>>

\* revoke writes REVOKED whatever the row held.
revoke(a) ==
    /\ attestations[a] # "absent"
    /\ attestations' = [attestations EXCEPT ![a] = "revoked"]
    /\ UNCHANGED <<archived, request, authorizedBy, scanVars, rowLock,
                   brokerVars, cancels, workerVars>>

\* The clock passes expires_at of an attestation that has one.
Expire(a) ==
    /\ attestations[a] = "active"
    /\ attestations' = [attestations EXCEPT ![a] = "expired"]
    /\ UNCHANGED <<archived, request, authorizedBy, scanVars, rowLock,
                   brokerVars, cancels, workerVars>>

set_archived(flag) ==
    /\ archived' = flag
    /\ UNCHANGED <<attestations, request, authorizedBy, scanVars, rowLock,
                   brokerVars, cancels, workerVars>>

attestation_active(a) == attestations[a] = "active"

IsLatestActive(a) ==
    /\ attestation_active(a)
    /\ \A b \in Attestations : b > a => ~attestation_active(b)

-----------------------------------------------------------------------------
(* POST /scans and POST /scans/{id}/rescan: the row is flushed, the task   *)
(* is published, and only then does the session dependency COMMIT.         *)

InsertQueued(s) ==
    /\ request[s] = "none"
    /\ \E a \in Attestations :
          /\ IsLatestActive(a)
          /\ authorizedBy' = [authorizedBy EXCEPT ![s] = a]
    /\ request' = [request EXCEPT ![s] = "inserted"]
    /\ UNCHANGED <<archived, attestations, scanVars, rowLock, brokerVars,
                   cancels, workerVars>>

create_scan(s) == ~archived /\ InsertQueued(s)

\* A rescan of a committed scan p, in whatever status, repeats the attestation
\* gate but not the archived-target one.
rescan_scan(s, p) == status[p] # Absent /\ InsertQueued(s)

enqueue_scan(s) ==
    /\ request[s] = "inserted"
    /\ ExecutionEnabled
    /\ request' = [request EXCEPT ![s] = "sent"]
    /\ deliveries' = [deliveries EXCEPT ![s] = @ + 1]
    /\ queue' = [queue EXCEPT ![s] = @ + 1]
    /\ UNCHANGED <<archived, attestations, authorizedBy, scanVars, rowLock,
                   cancels, workerVars>>

\* The SCAN_REQUESTED audit entry is part of the same transaction.
CommitRequest(s) ==
    /\ request[s] = IF ExecutionEnabled THEN "sent" ELSE "inserted"
    /\ request' = [request EXCEPT ![s] = "committed"]
    /\ status' = [status EXCEPT ![s] = "QUEUED"]
    /\ Record(s, "QUEUED")
    /\ UNCHANGED <<archived, attestations, authorizedBy, started, completed,
                   executions, rowLock, brokerVars, cancels, workerVars>>

RollbackRequest(s) ==
    /\ \/ request[s] = "inserted" /\ "broker" \in Faults
       \/ request[s] = "sent" /\ "commit" \in Faults
    /\ request' = [request EXCEPT ![s] = "rolledBack"]
    /\ UNCHANGED <<archived, attestations, authorizedBy, scanVars, rowLock,
                   brokerVars, cancels, workerVars>>

-----------------------------------------------------------------------------
(* POST /scans/{id}/cancel: a read, then an UPDATE from the status read.   *)

\* Mutant: cancel_scan refuses terminal scans only.
CancelReadRunning(s) ==
    /\ status[s] \notin TerminalStates \cup {Absent}
    /\ cancels' = [cancels EXCEPT ![s] = @ \cup {status[s]}]
    /\ UNCHANGED <<apiVars, scanVars, rowLock, brokerVars, workerVars>>

CancelRead(s) ==
    /\ status[s] \in Cancellable
    /\ cancels' = [cancels EXCEPT ![s] = @ \cup {status[s]}]
    /\ UNCHANGED <<apiVars, scanVars, rowLock, brokerVars, workerVars>>

\* Mutant: UPDATE ... WHERE id = s, whatever the status is by now.
CancelUpdateAnyStatus(s, seen) ==
    /\ seen \in cancels[s]
    /\ NotBlocked(s, status[s])
    /\ status' = [status EXCEPT ![s] = "CANCELLED"]
    /\ completed' = [completed EXCEPT ![s] = TRUE]
    /\ cancels' = [cancels EXCEPT ![s] = @ \ {seen}]
    /\ UNCHANGED <<apiVars, started, executions, audit, rowLock, brokerVars,
                   workerVars>>

CancelUpdate(s, seen) ==
    /\ seen \in cancels[s]
    /\ NotBlocked(s, seen)
    /\ status' = try_transition(status, s, seen, "CANCELLED")
    /\ completed' = CompletedWith(s, seen)
    /\ cancels' = [cancels EXCEPT ![s] = @ \ {seen}]
    /\ UNCHANGED <<apiVars, started, executions, audit, rowLock, brokerVars,
                   workerVars>>

-----------------------------------------------------------------------------
(* execute_scan_job_task and ScanService.execute_scan_job.                 *)

Goto(w, next) == stage' = [stage EXCEPT ![w] = next]

Finish(w) ==
    /\ Goto(w, "idle")
    /\ job' = [job EXCEPT ![w] = NoScan]
    /\ row' = [row EXCEPT ![w] = 0]

\* Redis hands out again a task that stayed unacknowledged too long; a task
\* is acknowledged as soon as a worker starts it (acks_late=False).
Redeliver(s) ==
    /\ queue[s] > 0
    /\ deliveries[s] < MaxDeliveries
    /\ deliveries' = [deliveries EXCEPT ![s] = @ + 1]
    /\ queue' = [queue EXCEPT ![s] = @ + 1]
    /\ UNCHANGED <<apiVars, scanVars, rowLock, cancels, workerVars>>

Dequeue(w, s) ==
    /\ stage[w] = "idle"
    /\ queue[s] > 0
    /\ queue' = [queue EXCEPT ![s] = @ - 1]

\* repository.get_by_id finds nothing: the job returns at once.
StartWithoutRow(w, s) ==
    /\ Dequeue(w, s)
    /\ status[s] = Absent
    /\ UNCHANGED <<apiVars, scanVars, rowLock, deliveries, cancels, workerVars>>

StartJob(w, s) ==
    /\ Dequeue(w, s)
    /\ status[s] # Absent
    /\ Goto(w, "claim")
    /\ job' = [job EXCEPT ![w] = s]
    /\ UNCHANGED <<apiVars, scanVars, rowLock, deliveries, cancels, row>>

\* The first statements of the job raise (no connection, no sessionmaker).
StartRaises(w, s) ==
    /\ "exception" \in Faults
    /\ Dequeue(w, s)
    /\ Goto(w, "rejectRunning")
    /\ job' = [job EXCEPT ![w] = s]
    /\ UNCHANGED <<apiVars, scanVars, rowLock, deliveries, cancels, row>>

\* Mutant: a SELECT of the status instead of the conditional UPDATE.
ClaimByReading(w) ==
    LET s == job[w] IN
    /\ stage[w] = "claim"
    /\ IF status[s] = "QUEUED"
       THEN /\ rowLock' = [rowLock EXCEPT ![s] = w]
            /\ Goto(w, "recheck")
            /\ UNCHANGED <<job, row>>
       ELSE Finish(w) /\ UNCHANGED rowLock
    /\ UNCHANGED <<apiVars, scanVars, brokerVars, cancels>>

\* QUEUED -> RUNNING, not committed yet; a worker that loses the claim returns.
Claim(w) ==
    LET s == job[w] IN
    /\ stage[w] = "claim"
    /\ NotBlocked(s, "QUEUED")
    /\ IF status[s] = "QUEUED"
       THEN /\ rowLock' = [rowLock EXCEPT ![s] = w]
            /\ Goto(w, "recheck")
            /\ UNCHANGED <<job, row>>
       ELSE Finish(w) /\ UNCHANGED rowLock
    /\ UNCHANGED <<apiVars, scanVars, brokerVars, cancels>>

\* Mutant: the attestation is not looked at again.
RecheckAlwaysPasses(w) ==
    /\ stage[w] = "recheck"
    /\ Goto(w, "begin")
    /\ UNCHANGED <<apiVars, scanVars, rowLock, brokerVars, cancels, job, row>>

RecheckPasses(w) ==
    /\ stage[w] = "recheck"
    /\ attestation_active(authorizedBy[job[w]])
    /\ Goto(w, "begin")
    /\ UNCHANGED <<apiVars, scanVars, rowLock, brokerVars, cancels, job, row>>

\* Audit entry, FAILED execution and REJECTED in the claim's transaction.
RecheckFails(w) ==
    LET s == job[w] IN
    /\ stage[w] = "recheck"
    /\ ~attestation_active(authorizedBy[s])
    /\ status' = [status EXCEPT ![s] = "REJECTED"]
    /\ started' = [started EXCEPT ![s] = TRUE]
    /\ completed' = [completed EXCEPT ![s] = TRUE]
    /\ AddExecution(s, NewExecution("unknown", "FAILED"))
    /\ Record(s, "REJECTED")
    /\ rowLock' = [rowLock EXCEPT ![s] = NoWorker]
    /\ Finish(w)
    /\ UNCHANGED <<apiVars, brokerVars, cancels>>

\* Insert the RUNNING execution and commit it with the claim.
Begin(w) ==
    LET s == job[w] IN
    /\ stage[w] = "begin"
    /\ status' = [status EXCEPT ![s] = "RUNNING"]
    /\ started' = [started EXCEPT ![s] = TRUE]
    /\ AddExecution(s, NewExecution("engine", "RUNNING"))
    /\ rowLock' = [rowLock EXCEPT ![s] = NoWorker]
    /\ row' = [row EXCEPT ![w] = Len(executions[s]) + 1]
    /\ Goto(w, "pipeline")
    /\ UNCHANGED <<apiVars, completed, audit, brokerVars, cancels, job>>

PipelineSucceeds(w) ==
    /\ stage[w] = "pipeline"
    /\ Goto(w, "persist")
    /\ UNCHANGED <<apiVars, scanVars, rowLock, brokerVars, cancels, job, row>>

\* Every exception of the pipeline is an outcome, not a fault.  The result of
\* the UPDATE is not looked at.
PipelineRaises(w) ==
    LET s == job[w] IN
    /\ stage[w] = "pipeline"
    /\ NotBlocked(s, "RUNNING")
    /\ UpdateOwn(w, [Own(w) EXCEPT !.status = "FAILED"])
    /\ Record(s, "REJECTED")
    /\ status' = try_transition(status, s, "RUNNING", "REJECTED")
    /\ completed' = CompletedWith(s, "RUNNING")
    /\ Finish(w)
    /\ UNCHANGED <<apiVars, started, rowLock, brokerVars, cancels>>

\* Mutant: the transitions are committed without the execution's outcome.
PersistStatusOnly(w) ==
    LET s == job[w]
        complete == try_transition(status, s, "RUNNING", "SCAN_COMPLETE")
    IN
    /\ stage[w] = "persist"
    /\ NotBlocked(s, "RUNNING")
    /\ Record(s, "EXECUTION_SUCCEEDED")
    /\ status' = try_transition(complete, s, "SCAN_COMPLETE", "AI_ANALYSIS")
    /\ Goto(w, "ai")
    /\ UNCHANGED <<apiVars, started, completed, executions, rowLock, brokerVars,
                   cancels, job, row>>

\* SUCCEEDED, the findings and both transitions in one transaction.
Persist(w) ==
    LET s == job[w]
        complete == try_transition(status, s, "RUNNING", "SCAN_COMPLETE")
    IN
    /\ stage[w] = "persist"
    /\ NotBlocked(s, "RUNNING")
    /\ UpdateOwn(w, [Own(w) EXCEPT !.status = "SUCCEEDED", !.findings = TRUE])
    /\ Record(s, "EXECUTION_SUCCEEDED")
    /\ status' = try_transition(complete, s, "SCAN_COMPLETE", "AI_ANALYSIS")
    /\ Goto(w, "ai")
    /\ UNCHANGED <<apiVars, started, completed, rowLock, brokerVars, cancels,
                   job, row>>

\* Mutant: the assessment is stored and the final transition forgotten.
StoreAssessmentOnly(w, assessment) ==
    /\ stage[w] = "ai"
    /\ UpdateOwn(w, [Own(w) EXCEPT !.assessment = assessment])
    /\ Finish(w)
    /\ UNCHANGED <<apiVars, status, completed, started, audit, rowLock, brokerVars,
                   cancels>>

\* The analyzer answers or is unavailable; assessment and final status are
\* one transaction, and again the UPDATE's result is not looked at.
StoreAssessment(w, assessment) ==
    LET s == job[w]
        final == IF assessment = "available" THEN "REPORT_READY"
                                             ELSE "REPORT_READY_DEGRADED"
    IN
    /\ stage[w] = "ai"
    /\ NotBlocked(s, "AI_ANALYSIS")
    /\ UpdateOwn(w, [Own(w) EXCEPT !.assessment = assessment])
    /\ status' = try_transition(status, s, "AI_ANALYSIS", final)
    /\ completed' = CompletedWith(s, "AI_ANALYSIS")
    /\ Finish(w)
    /\ UNCHANGED <<apiVars, started, audit, rowLock, brokerVars, cancels>>

\* Mutant: the session is left open with its claim.
ReleaseNothing(w) == UNCHANGED rowLock

ReleaseLocks(w) ==
    rowLock' = [s \in Scans |-> IF rowLock[s] = w THEN NoWorker ELSE rowLock[s]]

\* An exception leaves execute_scan_job (a database error, the soft time
\* limit): the session rolls back and the task calls _mark_scan_rejected.
JobRaises(w) ==
    /\ "exception" \in Faults
    /\ stage[w] \in {"claim", "recheck", "begin", "pipeline", "persist", "ai"}
    /\ ReleaseLocks(w)
    /\ Goto(w, "rejectRunning")
    /\ UNCHANGED <<apiVars, scanVars, brokerVars, cancels, job, row>>

\* _mark_scan_rejected once its UPDATE from `from' has matched.
RejectFrom(w, from) ==
    LET s == job[w] IN
    /\ status[s] = from
    /\ rowLock[s] = NoWorker
    /\ status' = try_transition(status, s, from, "REJECTED")
    /\ completed' = CompletedWith(s, from)
    /\ AddExecution(s, NewExecution("worker-unknown", "FAILED"))
    /\ Record(s, "REJECTED")
    /\ Finish(w)
    /\ UNCHANGED <<apiVars, started, rowLock, brokerVars, cancels>>

RejectRunning(w) == stage[w] = "rejectRunning" /\ RejectFrom(w, "RUNNING")

\* No row at all: _mark_scan_rejected returns.
RejectAbsent(w) ==
    /\ stage[w] = "rejectRunning"
    /\ status[job[w]] = Absent
    /\ Finish(w)
    /\ UNCHANGED <<apiVars, scanVars, rowLock, brokerVars, cancels>>

\* Mutant: the handler tries RUNNING only.
RejectRunningOnly(w) ==
    /\ stage[w] = "rejectRunning"
    /\ status[job[w]] \notin {Absent, "RUNNING"}
    /\ Finish(w)
    /\ UNCHANGED <<apiVars, scanVars, rowLock, brokerVars, cancels>>

RejectNotRunning(w) ==
    /\ stage[w] = "rejectRunning"
    /\ status[job[w]] \notin {Absent, "RUNNING"}
    /\ Goto(w, "rejectQueued")
    /\ UNCHANGED <<apiVars, scanVars, rowLock, brokerVars, cancels, job, row>>

RejectQueued(w) == stage[w] = "rejectQueued" /\ RejectFrom(w, "QUEUED")

RejectNothing(w) ==
    /\ stage[w] = "rejectQueued"
    /\ status[job[w]] # "QUEUED"
    /\ Finish(w)
    /\ UNCHANGED <<apiVars, scanVars, rowLock, brokerVars, cancels>>

\* The process is gone, or _mark_scan_rejected raised: its transaction rolls
\* back, the task was acknowledged and nobody takes it up again.
WorkerLost(w) ==
    /\ "lost" \in Faults
    /\ stage[w] # "idle"
    /\ ReleaseLocks(w)
    /\ Finish(w)
    /\ UNCHANGED <<apiVars, scanVars, brokerVars, cancels>>

-----------------------------------------------------------------------------
\* What a worker does when nothing goes wrong, or to clean up when it did.
WorkerStep(w) ==
    \/ \E s \in Scans : StartWithoutRow(w, s) \/ StartJob(w, s)
    \/ Claim(w) \/ RecheckPasses(w) \/ RecheckFails(w) \/ Begin(w)
    \/ PipelineSucceeds(w) \/ PipelineRaises(w) \/ Persist(w)
    \/ \E assessment \in {"available", "unavailable"} :
          StoreAssessment(w, assessment)
    \/ RejectRunning(w) \/ RejectAbsent(w) \/ RejectNotRunning(w)
    \/ RejectQueued(w) \/ RejectNothing(w)

RequestStep(s) == enqueue_scan(s) \/ CommitRequest(s)

CancelStep(s) == \E seen \in Cancellable : CancelUpdate(s, seen)

Next ==
    \/ \E a \in Attestations :
          create_self_attestation(a) \/ revoke(a) \/ Expire(a)
    \/ \E flag \in BOOLEAN : set_archived(flag)
    \/ \E s \in Scans :
          \/ create_scan(s) \/ (\E p \in Scans : rescan_scan(s, p))
          \/ RequestStep(s) \/ RollbackRequest(s)
          \/ CancelRead(s) \/ CancelStep(s) \/ Redeliver(s)
    \/ \E w \in Workers :
          \/ WorkerStep(w) \/ (\E s \in Scans : StartRaises(w, s))
          \/ JobRaises(w) \/ WorkerLost(w)

Spec == Init /\ [][Next]_vars

\* Requests in flight and workers keep going; users and faults owe nothing.
FairSpec ==
    /\ Spec
    /\ \A s \in Scans : WF_vars(RequestStep(s)) /\ WF_vars(CancelStep(s))
    /\ \A w \in Workers : WF_vars(WorkerStep(w))

-----------------------------------------------------------------------------
(* Properties.                                                             *)

EngineRows(s) ==
    {i \in DOMAIN executions[s] : executions[s][i].tool = "engine"}

\* The stages in which a worker owns the engine run of its scan.
Driving == {"pipeline", "persist", "ai"}

\* However tasks are redelivered, workers race for the claim, exceptions roll
\* the claim back and cancellations interleave, execute_scan_job gives a scan
\* at most one engine execution and one worker that drives it.
AtMostOneEngineRun ==
    \A s \in Scans :
        /\ \A i, j \in EngineRows(s) : i = j
        /\ \A v, w \in Workers :
              /\ job[v] = s /\ stage[v] \in Driving
              /\ job[w] = s /\ stage[w] \in Driving
              => v = w

TellsTheTruth(s) ==
    /\ status[s] = "RUNNING" =>
          \E i \in EngineRows(s) : executions[s][i].status = "RUNNING"
    /\ status[s] \in {"AI_ANALYSIS", "REPORT_READY", "REPORT_READY_DEGRADED"} =>
          \E i \in EngineRows(s) :
              /\ executions[s][i].status = "SUCCEEDED"
              /\ executions[s][i].findings
              /\ status[s] = "REPORT_READY" =>
                    executions[s][i].assessment = "available"
              /\ status[s] = "REPORT_READY_DEGRADED" =>
                    executions[s][i].assessment = "unavailable"
    /\ status[s] = "REJECTED" =>
          /\ "REJECTED" \in audit[s]
          /\ \E i \in DOMAIN executions[s] : executions[s][i].status = "FAILED"
    /\ completed[s] <=> is_terminal(status[s])
    /\ EngineRows(s) # {} => started[s]

\* A scan's status tells the truth about its execution rows, which different
\* transactions write: RUNNING has an engine row in flight, AI_ANALYSIS has
\* the findings of a succeeded one, a report has the matching assessment, and
\* REJECTED has a FAILED row and an audit entry; completed_at is set exactly
\* on terminal scans and a scan that ran has started_at.
TruthfulStatus == \A s \in Scans : TellsTheTruth(s)

-----------------------------------------------------------------------------
(* The inductive invariant behind the theorems of ScanLifecycleProofs.     *)

\* A worker has a job exactly while it is busy, and the row lock of a scan is
\* held exactly by the worker between its claim and commit or rollback.
JobsAndLocks ==
    /\ \A w \in Workers : stage[w] = "idle" <=> job[w] = NoScan
    /\ \A w \in Workers : stage[w] \in {"recheck", "begin"} =>
          rowLock[job[w]] = w /\ status[job[w]] = "QUEUED"
    /\ \A s \in Scans : \A w \in Workers : rowLock[s] = w =>
          job[w] = s /\ stage[w] \in {"recheck", "begin"}

\* Statuses of the lookup table that no committed row ever has.
NeverCommitted == {"PENDING_ATTESTATION", "SCAN_COMPLETE", "PARTIALLY_COMPLETE"}

\* A scan row exists only once its request committed, and an engine execution
\* only once the claim committed.
RowsAndRequests ==
    \A s \in Scans :
        /\ status[s] \notin NeverCommitted
        /\ request[s] # "committed" => status[s] = Absent
        /\ status[s] \in {Absent, "QUEUED"} => EngineRows(s) = {}

OwnsItsRow(w) ==
    /\ stage[w] \in Driving => row[w] \in EngineRows(job[w])
    /\ stage[w] \in {"pipeline", "persist"} =>
          /\ status[job[w]] \in {"RUNNING", "REJECTED"}
          /\ Own(w).status = "RUNNING"
    /\ stage[w] = "ai" =>
          /\ status[job[w]] \in {"AI_ANALYSIS", "REJECTED", "CANCELLED"}
          /\ Own(w).status = "SUCCEEDED" /\ Own(w).findings

\* A driving worker's row is the scan's engine row, in the state its stage
\* implies, and only the statuses that others can give the scan are possible.
DriversOwnTheirRow == \A w \in Workers : OwnsItsRow(w)

\* The conjunction that every step preserves: type correctness, who holds
\* which job, lock and row, and the two safety properties themselves.
IndInv ==
    /\ TypeOK /\ JobsAndLocks /\ RowsAndRequests /\ DriversOwnTheirRow
    /\ AtMostOneEngineRun /\ TruthfulStatus

-----------------------------------------------------------------------------
(* More properties.                                                        *)

\* ADR-0009, second gate: once the attestation that authorized a queued scan
\* is revoked or expired while no worker has claimed the scan, no engine ever
\* runs for it, whatever newer attestation the target gets.
InactiveAndUnclaimed(s) ==
    /\ status[s] = "QUEUED"
    /\ rowLock[s] = NoWorker
    /\ ~attestation_active(authorizedBy[s])

RevokedNeverRuns ==
    \A s \in Scans : [](InactiveAndUnclaimed(s) => [](EngineRows(s) = {}))

\* The committed rows behave as the state machine of lifecycle.py with one
\* edge added: cancel_scan refuses only terminal and RUNNING scans.
Machine == INSTANCE ScanStateMachine WITH
    ExtraEdges <- {<<"AI_ANALYSIS", "CANCELLED">>},
    engaged <- [s \in Scans |-> EngineRows(s) # {}]

MachineSpec == Machine!Spec

\* A task that is in the broker when its scan is committed takes the scan out
\* of QUEUED, exceptions included, unless the worker is lost.
DeliveredScanLeavesQueued ==
    \A s \in Scans :
        (status[s] = "QUEUED" /\ queue[s] > 0) ~> (status[s] # "QUEUED")

\* A cancel request that waits for a claim's row lock gets its answer.
CancelIsAnswered == \A s \in Scans : (cancels[s] # {}) ~> (cancels[s] = {})

\* A job that raised while its scan was in AI_ANALYSIS.
RaisedInAnalysis(s) ==
    /\ status[s] = "AI_ANALYSIS"
    /\ \E w \in Workers : job[w] = s /\ stage[w] = "rejectRunning"

\* Every scan a worker claims reaches a terminal status, whatever the request,
\* a second delivery, a cancellation or an exception does to it, with the one
\* exception of a job that raises after AI_ANALYSIS was committed.
ClaimedScanEnds ==
    \A s \in Scans : (rowLock[s] # NoWorker)
                        ~> (is_terminal(status[s]) \/ RaisedInAnalysis(s))

-----------------------------------------------------------------------------
(* What the documents say and the code does not do (a violation run).      *)

\* SRS chapter 2, section 5.2: the scan record is created, the job enqueued
\* and delivered to a worker that moves it to RUNNING.  enqueue_scan runs
\* before the request's COMMIT, so the worker may find no row and drop it.
CommittedScanIsExecuted ==
    \A s \in Scans : (status[s] = "QUEUED") ~> (status[s] # "QUEUED")
=============================================================================
