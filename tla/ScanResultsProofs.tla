------------------------- MODULE ScanResultsProofs -------------------------
(***************************************************************************)
(* Proofs, for any responses and payloads, that a report assembled while   *)
(* the worker commits is backed by what it shows, that what is stored      *)
(* rests on the scan's findings, and that every finding is explained by    *)
(* its own template.                                                       *)
(*                                                                         *)
(* The worker commits findings before it moves the scan to AI_ANALYSIS and *)
(* the assessment with the final status, nothing of this changes           *)
(* afterwards, and the report reads the status first (IndInv). What is     *)
(* stored is a function of the engine's result and of the payload          *)
(* (ContentInv), so the rest follows from what HeaderEngineProofs proves   *)
(* of the engine and from what the validator keeps of any payload.         *)
(***************************************************************************)
EXTENDS ScanResults, HeaderEngineProofs, TLAPS

Later == FinalStatuses \cup {"AI_ANALYSIS", "CANCELLED"}

\* The findings are committed with their execution.
Published == execution = "SUCCEEDED" /\ rows = result.findings

\* An assessment that stands behind a final status.
Stands(a, st) == a # NoRow /\ a.is_available = (st = "REPORT_READY")

\* Before the commit of the findings there are no rows, and the scan is in no
\* later status.
Before ==
    phase \in {"engine", "persist"} =>
        /\ execution = "RUNNING" /\ rows = <<>> /\ status \notin Later

\* The engine returns a result once, and the provider an outcome for it.
Values ==
    /\ analyzer \in Analyzers
    /\ phase \in {"persist", "analyse", "store"} => result \in Results
    /\ phase = "store" => outcome \in Analysed(analyzer, result.findings)

\* The findings appear once and stay; the assessment is the last commit.
Tables ==
    /\ rows = <<>> \/ Published
    /\ phase \in {"analyse", "store"} => Published
    /\ phase # "ended" => assessment = NoRow
    /\ status \in Later => Published
    /\ status \in FinalStatuses => Stands(assessment, status) /\ phase = "ended"

Fields == {"step", "status", "execution", "findings", "assessment", "lifecycle"}
Steps == {"idle", "engines", "findings", "assessment", "lifecycle", "served"}

\* What a report has read, compared with the tables as they are now.
Reads ==
    /\ DOMAIN report = Fields
    /\ report.step \in Steps
    /\ report.status \in Later => Published
    /\ report.status \in FinalStatuses =>
          Stands(assessment, report.status) /\ phase = "ended"
    /\ report.step \in {"findings", "assessment", "lifecycle", "served"} =>
          (report.status \in Later => report.execution = "SUCCEEDED")
    /\ report.step \in {"assessment", "lifecycle", "served"} =>
          /\ report.findings \in {<<>>, rows}
          /\ report.status \in Later => report.findings = result.findings
    /\ report.step \in {"lifecycle", "served"} =>
          (report.status \in FinalStatuses => Stands(report.assessment, report.status))
    /\ report.step = "served" =>
          report.lifecycle = Cardinality(Fingerprints(report.findings))

IndInv == Before /\ Values /\ Tables /\ Reads

-----------------------------------------------------------------------------
LEMMA InitIndInv == Init => IndInv
  <1> SUFFICES ASSUME Init PROVE IndInv
    OBVIOUS
  <1>1. status \notin Later
    BY DEF Init, Later, FinalStatuses
  <1>2. Before /\ Values
    BY <1>1 DEF Init, Before, Values
  <1>3. Tables
    BY <1>1 DEF Init, Tables, Later
  <1>4. Reads
    <2>1. report = EmptyReport
      BY DEF Init
    <2>2. "none" \notin Later
      BY DEF Later, FinalStatuses
    <2> QED
      BY <2>1, <2>2 DEF EmptyReport, Reads, Fields, Steps, Later
  <1> QED
    BY <1>2, <1>3, <1>4 DEF IndInv

\* Whatever a step does to the tables, a report keeps what it has read as long
\* as findings and assessment, once there, stay.
LEMMA ReadsStay ==
    ASSUME Reads, UNCHANGED report,
           rows' = rows \/ rows = <<>>,
           Published => Published' /\ UNCHANGED result,
           phase = "ended" => phase' = "ended" /\ UNCHANGED assessment
    PROVE  Reads'
  <1>1. report.findings \in {<<>>, rows} => report.findings \in {<<>>, rows'}
    OBVIOUS
  <1>2. ASSUME report.status \in FinalStatuses
        PROVE  Stands(assessment, report.status)' /\ phase' = "ended"
    BY <1>2 DEF Reads, Stands
  <1> QED
    BY <1>1, <1>2 DEF Reads, Stands, Fingerprints, Later

LEMMA EngineSteps ==
    ASSUME IndInv, PipelineRaises \/ PipelineReturns
    PROVE  IndInv'
  <1>1. /\ phase = "engine" /\ execution = "RUNNING" /\ rows = <<>> /\ status \notin Later
        /\ ~Published
    BY DEF IndInv, Before, PipelineRaises, PipelineReturns, Published
  <1>2. UNCHANGED <<analyzer, outcome, rows, assessment, report>>
    BY DEF PipelineRaises, PipelineReturns, tableVars
  <1>3. /\ phase' \in {"persist", "ended"}
        /\ phase' = "persist" => result' \in Results /\ UNCHANGED <<execution, status>>
        /\ status' \notin Later
    BY <1>1 DEF PipelineRaises, PipelineReturns, tableVars, try_transition, Later, FinalStatuses
  <1>4. Before' /\ Values'
    BY <1>1, <1>2, <1>3 DEF IndInv, Before, Values
  <1>5. Tables'
    BY <1>1, <1>2, <1>3 DEF IndInv, Tables, Later
  <1>6. Reads'
    BY <1>1, <1>2, ReadsStay DEF IndInv
  <1> QED
    BY <1>4, <1>5, <1>6 DEF IndInv

LEMMA PersistStep ==
    ASSUME IndInv, PersistFindings
    PROVE  IndInv'
  <1>1. /\ phase = "persist" /\ execution = "RUNNING" /\ rows = <<>> /\ status \notin Later
        /\ ~Published /\ result \in Results /\ assessment = NoRow
    BY DEF IndInv, Before, Values, Tables, PersistFindings, Published
  <1>2. /\ phase' = "analyse" /\ execution' = "SUCCEEDED" /\ rows' = result.findings
        /\ UNCHANGED <<analyzer, result, outcome, assessment, report>>
        /\ status' \notin FinalStatuses
    BY <1>1 DEF PersistFindings, try_transition, Later, FinalStatuses
  <1>3. Published'
    BY <1>2 DEF Published
  <1>4. Before' /\ Values'
    BY <1>1, <1>2 DEF IndInv, Before, Values
  <1>5. Tables'
    BY <1>1, <1>2, <1>3 DEF IndInv, Tables
  <1>6. Reads'
    BY <1>1, <1>2, <1>3, ReadsStay DEF IndInv
  <1> QED
    BY <1>4, <1>5, <1>6 DEF IndInv

LEMMA AnalyseStep ==
    ASSUME IndInv, Analyse
    PROVE  IndInv'
  <1>1. /\ phase = "analyse" /\ phase' = "store"
        /\ outcome' \in Analysed(analyzer, result.findings)
        /\ UNCHANGED <<analyzer, result, status, execution, rows, assessment, report>>
    BY DEF Analyse, tableVars
  <1>2. Published => Published'
    BY <1>1 DEF Published
  <1>3. Before' /\ Values'
    BY <1>1 DEF IndInv, Before, Values
  <1>4. Tables'
    BY <1>1, <1>2 DEF IndInv, Tables, Stands
  <1>5. Reads'
    BY <1>1, <1>2, ReadsStay DEF IndInv
  <1> QED
    BY <1>3, <1>4, <1>5 DEF IndInv

\* An outcome is available or not.
LEMMA OutcomesAreTyped ==
    ASSUME NEW a, NEW findings, NEW o \in Analysed(a, findings)
    PROVE  o.available \in BOOLEAN
  <1>1. \A kind : AssessmentUnavailable(kind).available = FALSE
    BY DEF AssessmentUnavailable
  <1>2. \A p, e : Assessment(p, e).available = TRUE
    BY DEF Assessment
  <1>3. \A p, e : validate_structure(p, e).available \in BOOLEAN
    BY <1>1, <1>2 DEF validate_structure
  <1> QED
    BY <1>1, <1>3 DEF Analysed, Outcomes

LEMMA StoreStep ==
    ASSUME IndInv, StoreAssessment
    PROVE  IndInv'
  <1>1. /\ phase = "store" /\ phase' = "ended"
        /\ assessment' = assessment_row(outcome, result.findings)
        /\ UNCHANGED <<analyzer, result, execution, rows, report>>
    BY DEF StoreAssessment
  <1>2. status' = IF status = "AI_ANALYSIS"
                  THEN IF outcome.available THEN "REPORT_READY" ELSE "REPORT_READY_DEGRADED"
                  ELSE status
    BY DEF StoreAssessment, try_transition
  <1>3. Published /\ Published' /\ status \notin FinalStatuses
    BY <1>1 DEF IndInv, Tables, Published
  <1>4. outcome.available \in BOOLEAN /\ assessment' # NoRow
    BY <1>1, OutcomesAreTyped, RowAssumption DEF IndInv, Values
  <1>5. assessment'.is_available = outcome.available
    BY <1>1 DEF assessment_row
  <1>6. status' \in FinalStatuses => Stands(assessment', status')
    <2>1. CASE status = "AI_ANALYSIS" /\ outcome.available
      BY <1>2, <1>4, <1>5, <2>1 DEF Stands
    <2>2. CASE status = "AI_ANALYSIS" /\ ~outcome.available
      BY <1>2, <1>4, <1>5, <2>2 DEF Stands
    <2>3. CASE status # "AI_ANALYSIS"
      BY <1>2, <1>3, <2>3
    <2> QED
      BY <2>1, <2>2, <2>3
  <1>7. Before' /\ Values'
    BY <1>1 DEF IndInv, Before, Values
  <1>8. Tables'
    BY <1>1, <1>3, <1>6 DEF Tables, Stands
  <1>9. Reads'
    BY <1>1, <1>3, ReadsStay DEF IndInv
  <1> QED
    BY <1>7, <1>8, <1>9 DEF IndInv

\* The worker is lost, the scan cancelled or rejected.
LEMMA OtherSteps ==
    ASSUME IndInv, Others
    PROVE  IndInv'
  <1>1. UNCHANGED <<analyzer, result, outcome, execution, rows, assessment, report>>
    BY DEF Others, WorkerLost, cancel_scan, RejectedByRedelivery, workerVars, tableVars
  <1>2. /\ phase' \in {phase, "ended"}
        /\ status' # status => phase' = phase
        /\ \/ status' = status
           \/ status' = "REJECTED"
           \/ status = "AI_ANALYSIS" /\ status' = "CANCELLED"
    <2>1. CASE WorkerLost
      BY <2>1 DEF WorkerLost, tableVars
    <2>2. CASE cancel_scan \/ RejectedByRedelivery
      BY <2>2 DEF cancel_scan, RejectedByRedelivery, workerVars
    <2> QED
      BY <2>1, <2>2 DEF Others
  <1>3. Published <=> Published'
    BY <1>1 DEF Published
  <1>4. status' \in Later => status \in Later
    BY <1>2 DEF Later, FinalStatuses
  <1>5. status' \in FinalStatuses => status' = status
    BY <1>2 DEF FinalStatuses
  <1>6. Before' /\ Values'
    BY <1>1, <1>2, <1>4 DEF IndInv, Before, Values
  <1>7. Tables'
    BY <1>1, <1>2, <1>3, <1>4, <1>5 DEF IndInv, Tables, Stands
  <1>8. Reads'
    BY <1>1, <1>2, <1>3, ReadsStay DEF IndInv
  <1> QED
    BY <1>6, <1>7, <1>8 DEF IndInv

-----------------------------------------------------------------------------
LEMMA TablesStay ==
    ASSUME Before, Values, Tables, UNCHANGED <<workerVars, tableVars>>
    PROVE  Before' /\ Values' /\ Tables'
  <1> USE DEF workerVars, tableVars
  <1>1. Before' /\ Values'
    BY DEF Before, Values
  <1>2. Published <=> Published'
    BY DEF Published
  <1>3. Tables'
    BY <1>2 DEF Tables, Stands
  <1> QED
    BY <1>1, <1>3

\* The report's five reads.
LEMMA ReportSteps ==
    ASSUME IndInv, Report
    PROVE  IndInv'
  <1> USE DEF workerVars, tableVars
  <1>1. UNCHANGED <<workerVars, tableVars>>
    BY DEF Report, ReadScan, ReadEngines, ReadFindings, ReadAssessment, ReadLifecycle
  <1>2. Before' /\ Values' /\ Tables'
    BY <1>1, TablesStay DEF IndInv
  <1>3. Published <=> Published'
    BY <1>1 DEF Published
  <1>4. Reads'
    <2>1. CASE ReadScan
      <3>1. /\ DOMAIN report' = Fields /\ report'.step = "engines" /\ report'.status = status
        BY <2>1 DEF ReadScan, EmptyReport, Fields
      <3> QED
        BY <1>1, <1>3, <3>1 DEF IndInv, Tables, Reads, Steps, Stands
    <2>2. CASE ReadEngines
      <3>1. /\ DOMAIN report' = Fields /\ report'.step = "findings"
            /\ report'.status = report.status /\ report'.execution = execution
        BY <2>2 DEF ReadEngines, IndInv, Reads, Fields
      <3> QED
        BY <1>1, <1>3, <3>1 DEF IndInv, Reads, Steps, Stands, Published
    <2>3. CASE ReadFindings
      <3>1. /\ report.step = "findings"
            /\ DOMAIN report' = Fields /\ report'.step = "assessment"
            /\ report'.status = report.status /\ report'.execution = report.execution
            /\ report'.findings = rows
        BY <2>3 DEF ReadFindings, IndInv, Reads, Fields
      <3> QED
        BY <1>1, <1>3, <3>1 DEF IndInv, Reads, Steps, Stands, Published
    <2>4. CASE ReadAssessment
      <3>1. /\ report.step = "assessment"
            /\ DOMAIN report' = Fields /\ report'.step = "lifecycle"
            /\ report'.status = report.status /\ report'.execution = report.execution
            /\ report'.findings = report.findings /\ report'.assessment = assessment
        BY <2>4 DEF ReadAssessment, IndInv, Reads, Fields
      <3> QED
        BY <1>1, <1>3, <3>1 DEF IndInv, Reads, Steps, Stands
    <2>5. CASE ReadLifecycle
      <3>1. /\ report.step = "lifecycle"
            /\ DOMAIN report' = Fields /\ report'.step = "served"
            /\ report'.status = report.status /\ report'.execution = report.execution
            /\ report'.findings = report.findings /\ report'.assessment = report.assessment
            /\ report'.lifecycle = Cardinality(Fingerprints(report.findings)
                                               \cap Fingerprints(rows))
        BY <2>5 DEF ReadLifecycle, IndInv, Reads, Fields
      <3>2. Fingerprints(report.findings) \cap Fingerprints(rows) = Fingerprints(report.findings)
        <4>1. report.findings \in {<<>>, rows}
          BY <3>1 DEF IndInv, Reads
        <4>2. Fingerprints(<<>>) = {}
          BY DEF Fingerprints, ToSet
        <4> QED
          BY <4>1, <4>2
      <3>3. report'.lifecycle = Cardinality(Fingerprints(report'.findings))
        BY <3>1, <3>2
      <3> QED
        BY <1>1, <1>3, <3>1, <3>3 DEF IndInv, Reads, Steps, Stands, Fingerprints
    <2> QED
      BY <2>1, <2>2, <2>3, <2>4, <2>5 DEF Report
  <1> QED
    BY <1>2, <1>4 DEF IndInv

LEMMA NextIndInv == IndInv /\ [Next]_vars => IndInv'
  <1> SUFFICES ASSUME IndInv, [Next]_vars PROVE IndInv'
    OBVIOUS
  <1>1. CASE Worker
    BY <1>1, EngineSteps, PersistStep, AnalyseStep, StoreStep DEF Worker
  <1>2. CASE Others
    BY <1>2, OtherSteps
  <1>3. CASE Report
    BY <1>3, ReportSteps
  <1>4. CASE Explain \/ UNCHANGED vars
    <2>1. UNCHANGED <<workerVars, tableVars, report>>
      BY <1>4 DEF Explain, get_finding_explanation, vars
    <2>2. Before' /\ Values' /\ Tables'
      BY <2>1, TablesStay DEF IndInv
    <2>3. Reads'
      BY <2>1, ReadsStay DEF IndInv, Published, workerVars, tableVars
    <2> QED
      BY <2>2, <2>3 DEF IndInv
  <1> QED
    BY <1>1, <1>2, <1>3, <1>4 DEF Next

-----------------------------------------------------------------------------
\* What the worker has committed, and what a report has read of it, stay
\* consistent in every reachable state.
THEOREM Invariance == Spec => []IndInv
  BY InitIndInv, NextIndInv, PTL DEF Spec

\* A report read in five statements while the worker commits between them is
\* never less than its status says.
THEOREM ReportsAreBacked == Spec => []ReportIsBacked
  <1>1. IndInv => ReportIsBacked
    <2> SUFFICES ASSUME IndInv, report.step = "served" PROVE ReportIsBacked
      BY DEF ReportIsBacked
    <2>1. report.lifecycle = Cardinality(Fingerprints(report.findings))
      BY DEF IndInv, Reads
    <2>2. report.status \in FinalStatuses => Stands(report.assessment, report.status)
      BY DEF IndInv, Reads
    <2>3. report.status \in Later =>
              report.execution = "SUCCEEDED" /\ report.findings = result.findings
      BY DEF IndInv, Reads
    <2> QED
      BY <2>1, <2>2, <2>3 DEF ReportIsBacked, Stands, Later
  <1> QED
    BY <1>1, Invariance, PTL

-----------------------------------------------------------------------------
(* What is stored and answered, and not only when: the second invariant,   *)
(* proved on top of the first.                                             *)

\* Values of the small kinds.
Kinds ==
    /\ phase \in {"engine", "persist", "analyse", "store", "ended"}
    /\ status \in FinalStatuses \cup {"RUNNING", "AI_ANALYSIS", "REJECTED", "CANCELLED"}
    /\ execution \in {"RUNNING", "SUCCEEDED", "FAILED"}
    /\ result \in Results \cup {NoResult}

\* The analysis comes after the engine and is of its findings.
Analysis ==
    /\ phase \in {"engine", "persist", "analyse"} => outcome = NoRow
    /\ outcome # NoRow => outcome \in Analysed(analyzer, result.findings)

\* An assessment is stored for the findings that are published.
Stored ==
    assessment # NoRow =>
        /\ Published /\ result \in Results
        /\ \E o \in Analysed(analyzer, result.findings) :
              assessment = assessment_row(o, result.findings)

\* A finding of the scan is only ever explained by its fallback.
Answered ==
    \/ answer.validationStatus \in {"none", "FALLBACK_USED"}
    \/ \E row \in DOMAIN rows : answer = Fallback(row)

ContentInv == Kinds /\ Analysis /\ Stored /\ Answered

LEMMA InitContent == Init => ContentInv
  <1> SUFFICES ASSUME Init PROVE ContentInv
    OBVIOUS
  <1>1. Kinds
    BY DEF Init, Kinds
  <1>2. Analysis /\ Stored
    BY DEF Init, Analysis, Stored
  <1>3. Answered
    BY DEF Init, Answered, NoAnswer
  <1> QED BY <1>1, <1>2, <1>3 DEF ContentInv

\* An assessment that is kept stays that of the published findings.
LEMMA StoredStays ==
    ASSUME Stored, UNCHANGED <<analyzer, result, execution, rows, assessment>>
    PROVE  Stored'
  BY DEF Stored, Published

\* So does an answer, whose row is never changed.
LEMMA AnsweredStays ==
    ASSUME Answered, UNCHANGED answer, rows' = rows \/ rows = <<>>
    PROVE  Answered'
  <1>1. CASE answer.validationStatus \in {"none", "FALLBACK_USED"}
    BY <1>1 DEF Answered
  <1>2. CASE \E row \in DOMAIN rows : answer = Fallback(row)
    <2>1. rows # <<>>
      BY <1>2
    <2>2. rows' = rows
      BY <2>1
    <2> QED BY <1>2, <2>2 DEF Answered, Fallback
  <1> QED BY <1>1, <1>2 DEF Answered

\* The engine returns or fails.
LEMMA ContentOfEngine ==
    ASSUME IndInv, ContentInv, PipelineRaises \/ PipelineReturns
    PROVE  ContentInv'
  <1>1. phase = "engine" /\ rows = <<>> /\ assessment = NoRow /\ outcome = NoRow
    BY DEF IndInv, Before, Tables, ContentInv, Analysis, PipelineRaises, PipelineReturns
  <1>2. /\ phase' \in {"persist", "ended"}
        /\ UNCHANGED <<analyzer, outcome, rows, assessment, report, answer>>
        /\ execution' \in {execution, "FAILED"} /\ status' \in {status, "REJECTED"}
        /\ result' \in Results \cup {result}
    BY DEF PipelineRaises, PipelineReturns, tableVars, try_transition
  <1>3. Kinds'
    BY <1>2 DEF ContentInv, Kinds
  <1>4. Analysis' /\ Stored'
    BY <1>1, <1>2 DEF Analysis, Stored
  <1>5. Answered'
    BY <1>2, AnsweredStays DEF ContentInv
  <1> QED BY <1>3, <1>4, <1>5 DEF ContentInv

\* The findings are committed.
LEMMA ContentOfPersist ==
    ASSUME IndInv, ContentInv, PersistFindings
    PROVE  ContentInv'
  <1>1. phase = "persist" /\ rows = <<>> /\ assessment = NoRow /\ outcome = NoRow
    BY DEF IndInv, Before, Tables, ContentInv, Analysis, PersistFindings
  <1>2. /\ phase' = "analyse" /\ execution' = "SUCCEEDED"
        /\ status' \in {status, "AI_ANALYSIS"}
        /\ UNCHANGED <<analyzer, result, outcome, assessment, report, answer>>
    BY DEF PersistFindings, try_transition
  <1>3. Kinds'
    BY <1>2 DEF ContentInv, Kinds
  <1>4. Analysis' /\ Stored'
    BY <1>1, <1>2 DEF Analysis, Stored
  <1>5. Answered'
    BY <1>1, <1>2, AnsweredStays DEF ContentInv
  <1> QED BY <1>3, <1>4, <1>5 DEF ContentInv

\* The findings are analysed.
LEMMA ContentOfAnalyse ==
    ASSUME IndInv, ContentInv, Analyse
    PROVE  ContentInv'
  <1>1. /\ phase' = "store" /\ outcome' \in Analysed(analyzer, result.findings)
        /\ UNCHANGED <<analyzer, result, status, execution, rows, assessment, answer>>
    BY DEF Analyse, tableVars
  <1>2. Kinds' /\ Analysis'
    BY <1>1 DEF ContentInv, Kinds, Analysis
  <1>3. Stored' /\ Answered'
    BY <1>1, StoredStays, AnsweredStays DEF ContentInv
  <1> QED BY <1>2, <1>3 DEF ContentInv

\* The assessment is stored.
LEMMA ContentOfStore ==
    ASSUME IndInv, ContentInv, StoreAssessment
    PROVE  ContentInv'
  <1>1. /\ phase = "store" /\ phase' = "ended"
        /\ assessment' = assessment_row(outcome, result.findings)
        /\ UNCHANGED <<analyzer, result, outcome, execution, rows, answer>>
    BY DEF StoreAssessment
  <1>2. status' \in FinalStatuses \cup {status}
    BY DEF StoreAssessment, try_transition, FinalStatuses
  <1>3. /\ Published /\ result \in Results
        /\ outcome \in Analysed(analyzer, result.findings)
    BY <1>1 DEF IndInv, Tables, Values
  <1>4. Kinds'
    BY <1>1, <1>2 DEF ContentInv, Kinds
  <1>5. Analysis'
    BY <1>1 DEF ContentInv, Analysis
  <1>6. Stored'
    BY <1>1, <1>3 DEF Stored, Published
  <1>7. Answered'
    BY <1>1, AnsweredStays DEF ContentInv
  <1> QED BY <1>4, <1>5, <1>6, <1>7 DEF ContentInv

\* The worker is lost, the scan cancelled or rejected, a report read.
LEMMA ContentOfOthers ==
    ASSUME ContentInv, Others \/ Report \/ UNCHANGED vars
    PROVE  ContentInv'
  <1>1. UNCHANGED <<analyzer, result, outcome, execution, rows, assessment, answer>>
    BY DEF Others, WorkerLost, cancel_scan, RejectedByRedelivery, Report, ReadScan, ReadEngines,
           ReadFindings, ReadAssessment, ReadLifecycle, workerVars, tableVars, vars
  <1>2. phase' \in {phase, "ended"} /\ status' \in {status, "CANCELLED", "REJECTED"}
    BY DEF Others, WorkerLost, cancel_scan, RejectedByRedelivery, Report, ReadScan, ReadEngines,
           ReadFindings, ReadAssessment, ReadLifecycle, workerVars, tableVars, vars
  <1>3. Kinds' /\ Analysis'
    BY <1>1, <1>2 DEF ContentInv, Kinds, Analysis
  <1>4. Stored' /\ Answered'
    BY <1>1, StoredStays, AnsweredStays DEF ContentInv
  <1> QED BY <1>3, <1>4 DEF ContentInv

\* The per-finding payload is keyed by the engine's ids, the endpoint looks up
\* the row's: it never finds one.
LEMMA NeverNarrative ==
    ASSUME ContentInv, NEW row \in DOMAIN rows
    PROVE  ~HasNarrative(row)
  <1> SUFFICES ASSUME assessment # NoRow, Uuids[row] \in DOMAIN assessment.findings
               PROVE  FALSE
    BY DEF HasNarrative
  <1>1. Published /\ result \in Results
    BY DEF ContentInv, Stored
  <1>2. PICK o : assessment = assessment_row(o, result.findings)
    BY DEF ContentInv, Stored
  <1>3. DOMAIN assessment.findings = Ids(result.findings)
    BY <1>2 DEF assessment_row, fallback_payload
  <1>4. row \in DOMAIN result.findings
    BY <1>1 DEF Published
  <1> QED BY <1>1, <1>3, <1>4, UuidsAssumption

\* The explanation endpoint.
LEMMA ContentOfExplain ==
    ASSUME ContentInv, Explain
    PROVE  ContentInv'
  <1>1. PICK row \in DOMAIN rows \cup {ForeignFinding, MissingFinding} :
            get_finding_explanation(row)
    BY DEF Explain
  <1>2. UNCHANGED <<phase, analyzer, result, outcome, status, execution, rows, assessment>>
    BY <1>1 DEF get_finding_explanation, workerVars, tableVars
  <1>3. \A reason : NotExplained(reason).validationStatus = "FALLBACK_USED"
    BY DEF NotExplained
  <1>4. CASE row \in {ForeignFinding, MissingFinding}
    <2>1. \E reason : answer' = NotExplained(reason)
      BY <1>1, <1>4 DEF get_finding_explanation
    <2>2. Answered'
      BY <1>3, <2>1 DEF Answered
    <2> QED BY <1>2, <2>2, StoredStays DEF ContentInv, Kinds, Analysis
  <1>5. CASE row \notin {ForeignFinding, MissingFinding}
    <2>1. row \in DOMAIN rows
      BY <1>1, <1>5
    <2>2. answer' = Fallback(row)
      BY <1>1, <1>5, <2>1, NeverNarrative DEF get_finding_explanation
    <2>3. Answered'
      BY <1>2, <2>1, <2>2 DEF Answered, Fallback
    <2> QED BY <1>2, <2>3, StoredStays DEF ContentInv, Kinds, Analysis
  <1> QED BY <1>4, <1>5

LEMMA NextContent == IndInv /\ ContentInv /\ [Next]_vars => ContentInv'
  BY ContentOfEngine, ContentOfPersist, ContentOfAnalyse, ContentOfStore, ContentOfOthers,
     ContentOfExplain DEF Next, Worker

\* What is stored is the analysis of the findings that are published, and what is
\* answered is a fallback, in every reachable state.
THEOREM ContentInvariance == Spec => []ContentInv
  BY InitContent, NextContent, Invariance, PTL DEF Spec

-----------------------------------------------------------------------------
(* What follows for the properties of the runs.                            *)

\* Every way in which a provider fails has a kind of AnalysisFailureKind.
LEMMA FailuresAreKinds ==
    ASSUME NEW f \in ProviderFaults
    PROVE  gemini_failure(f) \in AnalysisFailureKind /\ other_failure(f) \in AnalysisFailureKind
  <1>1. map_api_error(f) \in AnalysisFailureKind
    BY DEF map_api_error, AnalysisFailureKind
  <1>2. extract_json(f) \in AnalysisFailureKind
    BY DEF extract_json, AnalysisFailureKind
  <1>3. gemini_failure(f) \in AnalysisFailureKind
    BY <1>1, <1>2 DEF gemini_failure, AnalysisFailureKind
  <1>4. other_failure(f) \in AnalysisFailureKind
    BY DEF other_failure, AnalysisFailureKind
  <1> QED BY <1>3, <1>4

\* The analysis of any findings: a failure of a known kind, or a payload
\* validated against the ids of these findings.
LEMMA AnalysedIs ==
    ASSUME NEW a, NEW findings, NEW o \in Analysed(a, findings)
    PROVE  \/ ~o.available /\ o.kind \in AnalysisFailureKind
           \/ o.available /\ \E p \in Payloads : o = Assessment(p, Ids(findings))
  <1>1. \A kind : ~AssessmentUnavailable(kind).available /\ AssessmentUnavailable(kind).kind = kind
    BY DEF AssessmentUnavailable
  <1>2. \A p, e : Assessment(p, e).available
    BY DEF Assessment
  <1>3. CASE a = "none"
    BY <1>1, <1>3 DEF Analysed, AnalysisFailureKind
  <1>4. CASE a # "none"
    <2>1. o \in Outcomes(a, Ids(findings))
      BY <1>4 DEF Analysed
    <2>2. CASE \E p \in Payloads : o = validate_structure(p, Ids(findings))
      BY <1>1, <1>2, <2>2 DEF validate_structure, AnalysisFailureKind
    <2>3. CASE \E f \in ProviderFaults :
                  o = AssessmentUnavailable(IF a = "gemini" THEN gemini_failure(f)
                                                            ELSE other_failure(f))
      BY <1>1, <2>3, FailuresAreKinds
    <2> QED BY <2>1, <2>2, <2>3 DEF Outcomes
  <1> QED BY <1>3, <1>4

\* What the validator keeps of any payload (validator.py).
LEMMA ValidatedIsGrounded ==
    ASSUME NEW p \in Payloads, NEW evidence
    PROVE  LET a == Assessment(p, evidence) IN
           /\ \A i \in DOMAIN a.groups : a.groups[i] # {} /\ a.groups[i] \subseteq evidence
           /\ \A i \in DOMAIN a.remediation : a.remediation[i] \subseteq evidence
           /\ \A i \in DOMAIN a.claims :
                 /\ a.claims[i].status \in EvidenceStatus
                 /\ a.claims[i].status \in {"supported", "inferred"} =>
                       a.claims[i].ids \subseteq evidence
  <1> DEFINE a == Assessment(p, evidence)
  <1>1. /\ a.groups = validated_groups(p, evidence)
        /\ a.remediation = validated_remediation(p, evidence)
        /\ a.claims = validated_claims(p, evidence)
    BY DEF Assessment
  <1>2. \A i \in DOMAIN a.groups : a.groups[i] # {} /\ a.groups[i] \subseteq evidence
    BY <1>1 DEF validated_groups, known_ids
  <1>3. \A i \in DOMAIN a.remediation : a.remediation[i] \subseteq evidence
    BY <1>1 DEF validated_remediation, known_ids
  <1>4. ASSUME NEW i \in DOMAIN a.claims
        PROVE  /\ a.claims[i].status \in EvidenceStatus
               /\ a.claims[i].status \in {"supported", "inferred"} =>
                     a.claims[i].ids \subseteq evidence
    <2> DEFINE c == p.claims[i]
    <2>1. i \in DOMAIN p.claims /\ a.claims[i].status = claim_status(c, evidence)
          /\ a.claims[i].ids = ToSet(c.ids)
      BY <1>1 DEF validated_claims
    <2>2. c.declared \in EvidenceStatus \cup {Undeclared}
      BY <2>1, PayloadsAssumption
    <2> HIDE DEF a, c
    <2>3. CASE unknown_ids(c.ids, evidence) # {}
      BY <2>1, <2>3 DEF claim_status, EvidenceStatus
    <2>4. CASE unknown_ids(c.ids, evidence) = {}
      <3>1. ToSet(c.ids) \subseteq evidence
        BY <2>4 DEF unknown_ids, ToSet
      <3>2. claim_status(c, evidence) \in EvidenceStatus
        BY <2>2, <2>4 DEF claim_status, EvidenceStatus
      <3> QED BY <2>1, <3>1, <3>2
    <2> QED BY <2>3, <2>4
  <1> QED BY <1>2, <1>3, <1>4

\* Every variable holds a value of its kind.
THEOREM TypeCorrect == Spec => []TypeOK
  <1>1. IndInv /\ ContentInv => TypeOK
    <2> SUFFICES ASSUME IndInv, ContentInv PROVE TypeOK
      OBVIOUS
    <2>1. ASSUME outcome # NoRow
          PROVE  IF outcome.available
                 THEN \A i \in DOMAIN outcome.claims : outcome.claims[i].status \in EvidenceStatus
                 ELSE outcome.kind \in AnalysisFailureKind
      <3>1. outcome \in Analysed(analyzer, result.findings)
        BY <2>1 DEF ContentInv, Analysis
      <3>2. CASE ~outcome.available
        BY <3>1, <3>2, AnalysedIs
      <3>3. CASE outcome.available
        <4>1. PICK p \in Payloads : outcome = Assessment(p, Ids(result.findings))
          BY <3>1, <3>3, AnalysedIs
        <4>2. \A i \in DOMAIN outcome.claims : outcome.claims[i].status \in EvidenceStatus
          BY <4>1, ValidatedIsGrounded
        <4> QED BY <3>3, <4>2
      <3> QED BY <3>2, <3>3
    <2>2. ASSUME assessment # NoRow
          PROVE  assessment.is_available \in BOOLEAN
      <3>1. PICK o \in Analysed(analyzer, result.findings) :
                assessment = assessment_row(o, result.findings)
        BY <2>2 DEF ContentInv, Stored
      <3>2. o.available \in BOOLEAN
        BY OutcomesAreTyped
      <3> QED BY <3>1, <3>2 DEF assessment_row
    <2>3. rows \in {<<>>, result.findings} /\ analyzer \in Analyzers
          /\ (phase = "persist" => result \in Results) /\ report.step \in Steps
      BY DEF IndInv, Tables, Published, Values, Reads
    <2> QED BY <2>1, <2>2, <2>3 DEF TypeOK, ContentInv, Kinds, Steps
  <1> QED BY <1>1, Invariance, ContentInvariance, PTL

\* Whatever ids a provider makes up, a stored assessment rests on the findings
\* of the scan.
THEOREM Grounded == Spec => []AssessmentIsGrounded
  <1>1. ContentInv => AssessmentIsGrounded
    <2> SUFFICES ASSUME ContentInv, assessment # NoRow, assessment.is_available
                 PROVE  AssessmentIsGrounded
      BY DEF AssessmentIsGrounded
    <2>1. rows = result.findings
      BY DEF ContentInv, Stored, Published
    <2>2. PICK o \in Analysed(analyzer, result.findings) :
              assessment = assessment_row(o, result.findings)
      BY DEF ContentInv, Stored
    <2>3. o.available /\ assessment.payload = o
      BY <2>2 DEF assessment_row
    <2>4. PICK p \in Payloads : o = Assessment(p, Ids(rows))
      BY <2>1, <2>3, AnalysedIs
    <2> QED BY <2>3, <2>4, ValidatedIsGrounded DEF AssessmentIsGrounded
  <1> QED BY <1>1, ContentInvariance, PTL

\* Every finding of the scan is explained by the template of its own category,
\* and labelled as a fallback.
THEOREM Explained == Spec => []EveryFindingIsExplained
  <1>1. IndInv /\ ContentInv => EveryFindingIsExplained
    <2> SUFFICES ASSUME IndInv, ContentInv,
                        answer.validationStatus \notin {"none", "FALLBACK_USED"}
                 PROVE  EveryFindingIsExplained
      BY DEF EveryFindingIsExplained
    <2>1. PICK row \in DOMAIN rows : answer = Fallback(row)
      BY DEF ContentInv, Answered
    <2> DEFINE code == map_category(rows[row].category)
    <2>2. /\ answer.row = row /\ answer.validationStatus = "fallback_used"
          /\ answer.explanation.template = get_template(code)
      BY <2>1 DEF Fallback, build_fallback_explanation
    <2>3. Reportable(rows[row])
      <3>1. rows # <<>>
        BY <2>1
      <3>2. rows = result.findings /\ result \in Results \cup {NoResult}
        BY <3>1 DEF IndInv, Tables, Published, ContentInv, Kinds
      <3>3. result # NoResult
        BY <3>1, <3>2 DEF NoResult
      <3>4. PICK response \in Responses : result = execute(response)
        BY <3>2, <3>3 DEF Results
      <3>5. rows[row] \in ToSet(execute(response).findings)
        BY <2>1, <3>2, <3>4 DEF ToSet
      <3> QED BY <3>5, EachFindingReportable
    <2>4. code \in TemplateKeys
      <3>1. canonical_category(rows[row].category) \in {"MISSING_SECURITY_HEADER", "WEAK_CIPHER"}
        BY <2>3 DEF Reportable, canonical_category
      <3> QED BY <3>1 DEF map_category, FindingCategories, TemplateKeys
    <2>5. "GENERIC" \notin TemplateKeys
      BY DEF TemplateKeys
    <2> HIDE DEF code
    <2>6. get_template(code) = code
      BY <2>4 DEF get_template
    <2> QED BY <2>2, <2>4, <2>5, <2>6 DEF EveryFindingIsExplained, code
  <1> QED BY <1>1, Invariance, ContentInvariance, PTL

\* When the findings are committed, each has its own id, and its fingerprint is
\* that of nothing else that any response makes the engine find.
THEOREM Distinct == Spec => []FindingsAreDistinct
  <1>1. IndInv => FindingsAreDistinct
    <2> SUFFICES ASSUME IndInv, phase = "persist" PROVE FindingsAreDistinct
      BY DEF FindingsAreDistinct
    <2>1. PICK response \in Responses : result = execute(response)
      BY DEF IndInv, Values, Results
    <2>2. Cardinality(Ids(result.findings)) = Len(result.findings)
      BY <2>1, EachFindingOnce
    <2>3. ASSUME NEW f \in ToSet(result.findings), NEW g \in AllFindings,
                 generate_fingerprint(f) = generate_fingerprint(g)
          PROVE  \/ generate_fingerprint(f) = NoFingerprint
                 \/ f.category = g.category /\ f.about = g.about
      <3>1. Reportable(f)
        BY <2>1, EachFindingReportable
      <3>2. PICK other \in Responses : g \in ToSet(execute(other).findings)
        BY DEF AllFindings, Results
      <3>3. Reportable(g)
        BY <3>2, EachFindingReportable
      <3> QED BY <2>3, <3>1, <3>3, FingerprintIdentifies
    <2> QED BY <2>2, <2>3 DEF FindingsAreDistinct
  <1> QED BY <1>1, Invariance, PTL

\* When the findings are committed, the flags that a redacted cookie lacks are
\* found.
THEOREM Judged == Spec => []RedactedFlagsAreJudged
  <1>1. IndInv => RedactedFlagsAreJudged
    <2> SUFFICES ASSUME IndInv, phase = "persist",
                        NEW o \in ToSet(result.observations), o.about = "set-cookie",
                        NEW i \in DOMAIN o.says
                 PROVE  /\ ~o.says[i].Secure =>
                              \E f \in ToSet(result.findings) : f.about = "secure"
                        /\ ~o.says[i].HttpOnly =>
                              \E f \in ToSet(result.findings) : f.about = "httponly"
      BY DEF RedactedFlagsAreJudged
    <2>1. PICK response \in Responses : result = execute(response)
      BY DEF IndInv, Values, Results
    <2> QED BY <2>1, RedactedIsJudged
  <1> QED BY <1>1, Invariance, PTL
=============================================================================
