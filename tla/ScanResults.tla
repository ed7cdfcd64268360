---------------------------- MODULE ScanResults ----------------------------
(***************************************************************************)
(* What a scan leaves behind and how it is read back: the second half of   *)
(* ScanService.execute_scan_job (findings, AI assessment, final status),   *)
(* and the GET endpoints of api/routes/scan_routes.py and                  *)
(* reporting/assembler.py that read it while the job is still writing.     *)
(*                                                                         *)
(* PostgreSQL runs at READ COMMITTED: the variables of the tables hold     *)
(* what is committed, the worker publishes a whole transaction in one      *)
(* step, and every SELECT of a report sees the latest commit.              *)
(***************************************************************************)
EXTENDS AiAnalysis

CONSTANTS
    Responses,      \* what the target may answer, or Unreachable
    Uuids,          \* the primary keys the finding rows are given
    NoRow,          \* no scan_ai_assessment row
    ForeignFinding, \* a finding row of another scan
    MissingFinding  \* an id that no finding row has

VARIABLES
    phase,       \* where the worker is in execute_scan_job
    analyzer,    \* none, gemini, or an injected EvidenceAnalyzer
    result,      \* the engine's analysis_result
    outcome,     \* what AiAnalysisService.analyze returned
    status,      \* scan.status
    execution,   \* status of the job's scan_engine_execution row
    rows,        \* the finding of each scan_finding row; row i is Uuids[i]
    assessment,  \* the scan_ai_assessment row, or NoRow
    report,      \* the report request: its progress and what it has read
    answer       \* the last answer of the explanation endpoint

workerVars == <<phase, analyzer, result, outcome>>
tableVars == <<status, execution, rows, assessment>>
vars == <<workerVars, tableVars, report, answer>>

ASSUME ResultsAssumption ==
    /\ \A response \in Responses : Len(execute(response).findings) <= Len(Uuids)
    /\ \A response \in Responses \ {Unreachable} :
          \A i \in DOMAIN response.cookies :
              ToSet(response.cookies[i]) \subseteq Tokens

\* What the engine may return, and all it may find.
Results == {execute(response) : response \in Responses}
AllFindings == UNION {ToSet(r.findings) : r \in Results}

\* A row's str(uuid4()) has 36 characters and hyphens, an id that make_id
\* gives has 16 hexadecimal digits.
ASSUME UuidsAssumption ==
    \A r \in Results : \A i \in DOMAIN r.findings : Uuids[i] \notin Ids(r.findings)

Analyzers == {"none", "gemini", "injected"}
FinalStatuses == {"REPORT_READY", "REPORT_READY_DEGRADED"}
NoAnswer == [validationStatus |-> "none"]
EmptyReport == [step |-> "idle", status |-> "none", execution |-> "none",
                findings |-> <<>>, assessment |-> NoRow, lifecycle |-> 0]

Init ==
    /\ phase = "engine"
    /\ analyzer \in Analyzers
    /\ result = NoResult
    /\ outcome = NoRow
    /\ status = "RUNNING"
    /\ execution = "RUNNING"
    /\ rows = <<>>
    /\ assessment = NoRow
    /\ report = EmptyReport
    /\ answer = NoAnswer

try_transition(from, to) == status' = IF status = from THEN to ELSE status

(***************************************************************************)
(* The worker.                                                             *)
(***************************************************************************)

\* effective_pipeline.run raises: the failure is committed and the job ends.
PipelineRaises ==
    /\ phase = "engine"
    /\ phase' = "ended"
    /\ execution' = "FAILED"
    /\ try_transition("RUNNING", "REJECTED")
    /\ UNCHANGED <<analyzer, result, outcome, rows, assessment, report, answer>>

PipelineReturns ==
    /\ phase = "engine"
    /\ phase' = "persist"
    /\ result' \in Results
    /\ UNCHANGED <<analyzer, outcome, tableVars, report, answer>>

\* Mutant: the last finding of the result is not stored.
PersistFindingsButLast ==
    /\ phase = "persist"
    /\ phase' = "analyse"
    /\ execution' = "SUCCEEDED"
    /\ rows' = SubSeq(result.findings, 1, Len(result.findings) - 1)
    /\ try_transition("RUNNING", "AI_ANALYSIS")
    /\ UNCHANGED <<analyzer, result, outcome, assessment, report, answer>>

\* mark, _persist_findings and both transitions, in one transaction.
PersistFindings ==
    /\ phase = "persist"
    /\ phase' = "analyse"
    /\ execution' = "SUCCEEDED"
    /\ rows' = result.findings
    /\ try_transition("RUNNING", "AI_ANALYSIS")
    /\ UNCHANGED <<analyzer, result, outcome, assessment, report, answer>>

\* EvidenceSet.from_result and, when an analyzer is configured, its analysis.
Analysed(a, findings) ==
    IF a = "none" THEN {AssessmentUnavailable("provider_unavailable")}
    ELSE Outcomes(a, Ids(findings))

\* It runs in an executor thread; the transaction that wrote the rows is
\* committed.
Analyse ==
    /\ phase = "analyse"
    /\ phase' = "store"
    /\ outcome' \in Analysed(analyzer, result.findings)
    /\ UNCHANGED <<analyzer, result, tableVars, report, answer>>

\* _build_per_finding_fallback_payload: the template of the ENGINE category,
\* under the ENGINE's finding id.
fallback_payload(findings) ==
    [id \in Ids(findings) |-> build_fallback_explanation(id[1])]

\* _coerce_count is handed the payload, a dict, and is 0 for a dict.
coerce_count(payload) == 0

assessment_row(o, findings) ==
    [is_available |-> o.available, unsupported_claim_count |-> coerce_count(o),
     payload |-> o, findings |-> fallback_payload(findings)]

ASSUME RowAssumption ==
    \A a \in Analyzers, r \in Results : \A o \in Analysed(a, r.findings) :
        assessment_row(o, r.findings) # NoRow

\* upsert_ai_assessment and the final transition, in one transaction.
StoreAssessment ==
    /\ phase = "store"
    /\ phase' = "ended"
    /\ assessment' = assessment_row(outcome, result.findings)
    /\ try_transition("AI_ANALYSIS", IF outcome.available
                                       THEN "REPORT_READY"
                                       ELSE "REPORT_READY_DEGRADED")
    /\ UNCHANGED <<analyzer, result, outcome, execution, rows, report, answer>>

\* The worker process dies; what it had not committed is gone.
WorkerLost ==
    /\ phase # "ended"
    /\ phase' = "ended"
    /\ UNCHANGED <<analyzer, result, outcome, tableVars, report, answer>>

\* Another request cancels the scan, or a redelivered task rejects it.
cancel_scan ==
    /\ status = "AI_ANALYSIS"
    /\ status' = "CANCELLED"
    /\ UNCHANGED <<workerVars, execution, rows, assessment, report, answer>>

RejectedByRedelivery ==
    /\ status = "RUNNING"
    /\ status' = "REJECTED"
    /\ UNCHANGED <<workerVars, execution, rows, assessment, report, answer>>

(***************************************************************************)
(* GET /scans/{id}/report: get_scan loads the scan row, which stays in the *)
(* session's identity map, then ReportAssembler.assemble issues one SELECT *)
(* per table.                                                              *)
(***************************************************************************)
ReadScan ==
    /\ report.step \in {"idle", "served"}
    /\ report' = [EmptyReport EXCEPT !.step = "engines", !.status = status]
    /\ UNCHANGED <<workerVars, tableVars, answer>>

ReadEngines ==
    /\ report.step = "engines"
    /\ report' = [report EXCEPT !.step = "findings", !.execution = execution]
    /\ UNCHANGED <<workerVars, tableVars, answer>>

\* Mutant: the scan row is refreshed half way through the report.
ReadFindingsAndStatus ==
    /\ report.step = "findings"
    /\ report' = [report EXCEPT !.step = "assessment", !.findings = rows,
                                !.status = status]
    /\ UNCHANGED <<workerVars, tableVars, answer>>

ReadFindings ==
    /\ report.step = "findings"
    /\ report' = [report EXCEPT !.step = "assessment", !.findings = rows]
    /\ UNCHANGED <<workerVars, tableVars, answer>>

ReadAssessment ==
    /\ report.step = "assessment"
    /\ report' = [report EXCEPT !.step = "lifecycle", !.assessment = assessment]
    /\ UNCHANGED <<workerVars, tableVars, answer>>

Fingerprints(findings) ==
    {generate_fingerprint(f) : f \in ToSet(findings)} \ {NoFingerprint}

\* _lifecycle_counts: the fingerprints of the findings read that have a row
\* in finding_status_history, which is written with the findings.  Their
\* latest statuses, which later scans may change, are left out.
ReadLifecycle ==
    /\ report.step = "lifecycle"
    /\ report' = [report EXCEPT
            !.step = "served",
            !.lifecycle = Cardinality(Fingerprints(report.findings)
                                      \cap Fingerprints(rows))]
    /\ UNCHANGED <<workerVars, tableVars, answer>>

(***************************************************************************)
(* GET /scans/{id}/findings/{finding}/explanation.  Finding rows never     *)
(* change once committed, so its reads are one step at the last of them.   *)
(***************************************************************************)
\* Mutant: the template looked up by the engine's category.
FallbackByEngineCategory(row) ==
    LET e == build_fallback_explanation(rows[row].category)
    IN  [available |-> TRUE, row |-> row, explanation |-> e,
         validationStatus |-> e.validation_status]

Fallback(row) ==
    LET e == build_fallback_explanation(map_category(rows[row].category))
    IN  [available |-> TRUE, row |-> row, explanation |-> e,
         validationStatus |-> e.validation_status]

NotExplained(reason) ==
    [available |-> FALSE, validationStatus |-> "FALLBACK_USED",
     fallbackReason |-> reason]

\* payload["findings"] has the key str(finding_id).
HasNarrative(row) ==
    /\ assessment # NoRow
    /\ assessment.is_available
    /\ Uuids[row] \in DOMAIN assessment.findings

Narrative(row) ==
    [available |-> TRUE, row |-> row, validationStatus |-> "validated",
     explanation |-> assessment.findings[Uuids[row]]]

get_finding_explanation(row) ==
    /\ answer' = CASE row = MissingFinding -> NotExplained("finding_not_found")
                   [] row = ForeignFinding ->
                         NotExplained("finding_not_in_scan")
                   [] OTHER ->
                         IF HasNarrative(row) THEN Narrative(row)
                                              ELSE Fallback(row)
    /\ UNCHANGED <<workerVars, tableVars, report>>

Explain ==
    \E row \in DOMAIN rows \cup {ForeignFinding, MissingFinding} :
        get_finding_explanation(row)

-----------------------------------------------------------------------------
Worker ==
    \/ PipelineRaises
    \/ PipelineReturns
    \/ PersistFindings
    \/ Analyse
    \/ StoreAssessment

Others == WorkerLost \/ cancel_scan \/ RejectedByRedelivery

Report ==
    ReadScan \/ ReadEngines \/ ReadFindings \/ ReadAssessment \/ ReadLifecycle

Next == Worker \/ Others \/ Report \/ Explain

Spec == Init /\ [][Next]_vars

-----------------------------------------------------------------------------
\* Every variable holds a value of its kind; the finding rows are none or
\* all of the engine's result, in its order.
TypeOK ==
    /\ phase \in {"engine", "persist", "analyse", "store", "ended"}
    /\ analyzer \in Analyzers
    /\ phase = "persist" => result \in Results
    /\ outcome # NoRow =>
          IF outcome.available
          THEN \A i \in DOMAIN outcome.claims :
                  outcome.claims[i].status \in EvidenceStatus
          ELSE outcome.kind \in AnalysisFailureKind
    /\ status \in FinalStatuses \cup {"RUNNING", "AI_ANALYSIS", "REJECTED",
                                      "CANCELLED"}
    /\ execution \in {"RUNNING", "SUCCEEDED", "FAILED"}
    /\ rows \in {<<>>, result.findings}
    /\ assessment = NoRow \/ assessment.is_available \in BOOLEAN
    /\ report.step \in {"idle", "engines", "findings", "assessment",
                       "lifecycle", "served"}

\* A stored assessment rests on the scan's own findings: whatever ids the
\* provider made up, no group or remediation item cites one, no group is
\* empty, and a claim that cites one is marked unsupported (validator.py).
AssessmentIsGrounded ==
    assessment # NoRow /\ assessment.is_available =>
        LET a == assessment.payload IN
        /\ \A i \in DOMAIN a.groups : a.groups[i] # {}
                                      /\ a.groups[i] \subseteq Ids(rows)
        /\ \A i \in DOMAIN a.remediation : a.remediation[i] \subseteq Ids(rows)
        /\ \A i \in DOMAIN a.claims :
              a.claims[i].status \in {"supported", "inferred"} =>
                  a.claims[i].ids \subseteq Ids(rows)

\* A report assembled while the job commits is never less than its status
\* says: READY carries an available assessment and DEGRADED an unavailable
\* one, from AI_ANALYSIS on every finding is in it, and the lifecycle counts
\* add up to the fingerprints of the findings shown (assembler.py reads the
\* status first).
ReportIsBacked ==
    report.step = "served" =>
        /\ report.lifecycle = Cardinality(Fingerprints(report.findings))
        /\ report.status \in FinalStatuses =>
              /\ report.assessment # NoRow
              /\ report.assessment.is_available
                    = (report.status = "REPORT_READY")
        /\ report.status \in FinalStatuses \cup {"AI_ANALYSIS", "CANCELLED"} =>
              report.execution = "SUCCEEDED" /\ report.findings = result.findings

\* Every finding row of the scan is explained by the template of its own
\* canonical category, never by the generic one and never by a text stored
\* with the assessment, whether or not the AI ran; and the answer says that it
\* is a fallback (get_finding_explanation, _build_per_finding_fallback_payload).
EveryFindingIsExplained ==
    answer.validationStatus \notin {"none", "FALLBACK_USED"} =>
        /\ answer.validationStatus = "fallback_used"
        /\ answer.explanation.template
              = map_category(rows[answer.row].category)
        /\ answer.explanation.template # "GENERIC"

\* A result names each finding once, by id and by fingerprint, so the index
\* of the evidence, the payload keyed by id and the lifecycle keyed by
\* fingerprint lose none; and one fingerprint stands for the same header or
\* the same failure in whatever response it is found (fingerprinting.py).
FindingsAreDistinct ==
    phase = "persist" =>
        /\ Cardinality(Ids(result.findings)) = Len(result.findings)
        /\ \A f \in ToSet(result.findings), g \in AllFindings :
              generate_fingerprint(f) = generate_fingerprint(g) =>
                  \/ generate_fingerprint(f) = NoFingerprint
                  \/ f.category = g.category /\ f.about = g.about

\* The two readings of Set-Cookie agree where it matters: a cookie whose
\* redacted line shows no Secure or no HttpOnly is always backed by the
\* finding (findings.py redacts, http_analysis.py judges).
RedactedFlagsAreJudged ==
    phase = "persist" =>
      \A o \in ToSet(result.observations) :
        o.about = "set-cookie" =>
            \A i \in DOMAIN o.says :
                /\ ~o.says[i].Secure =>
                      \E f \in ToSet(result.findings) : f.about = "secure"
                /\ ~o.says[i].HttpOnly =>
                      \E f \in ToSet(result.findings) : f.about = "httponly"

=============================================================================
