----------------------- MODULE FindingLifecycleProofs -----------------------
(***************************************************************************)
(* Proofs about finding_status_history for any scans, fingerprints and     *)
(* number of jobs. Every row is justified by committed rows with an        *)
(* earlier effective_at: a row is derived from what the job read in        *)
(* earlier statements, so the invariant says that what a job has read is   *)
(* justified (ReadsAreJustified) and that committed rows have a stamp the  *)
(* clock has passed (Stamped).                                             *)
(*                                                                         *)
(* In a chain of scans, each read by the next, the history is exact. There *)
(* the invariant says in addition that a scan which was read has ended     *)
(* with the rows it has now (ChainInv); that two neighbours of the chain   *)
(* are all that can differ is shown by the greatest recorded scan before a *)
(* scan and the least one after it.                                        *)
(***************************************************************************)
EXTENDS FindingLifecycle, WellFoundedInduction, TLAPS

\* The steps that leave the rows and what jobs have read alone.
Quiet(s) ==
    \/ create_scan(s) \/ (\E p \in Scans : rescan_scan(s, p))
    \/ cancel_scan(s) \/ RejectQueued(s) \/ RejectUnderJob(s)
    \/ Claim(s) \/ PickPrevious(s)
    \/ CommitFindings(s) \/ StoreAssessment(s) \/ JobFailsInAnalysis(s)

\* The status record_lifecycle gives a fingerprint says where it was found.
LEMMA RecordedStatus ==
    ASSUME TypeOK, NEW s \in Scans, record_lifecycle(s), NEW f \in Fingerprints
    PROVE  /\ history'[s][f] \in LifecycleStatuses \cup {None}
           /\ (f \in findings[s]) <=> history'[s][f] \in {"NEW", "PERSISTENT", "REGRESSED"}
           /\ history'[s][f] \in {"PERSISTENT", "RESOLVED"} <=> f \in before[s]
           /\ history'[s][f] = "REGRESSED" => lastKnown[s][f] = "RESOLVED"
           /\ history'[s][f] = "NEW" => lastKnown[s][f] # "RESOLVED"
  <1>1. history'[s][f] =
            derive_lifecycle_status(f \in findings[s], f \in before[s], lastKnown[s][f])
    BY DEF TypeOK, record_lifecycle
  <1>2. CASE f \in findings[s] /\ f \in before[s]
    BY <1>1, <1>2 DEF derive_lifecycle_status, LifecycleStatuses, None
  <1>3. CASE f \in findings[s] /\ f \notin before[s]
    BY <1>1, <1>3 DEF derive_lifecycle_status, LifecycleStatuses, None
  <1>4. CASE f \notin findings[s] /\ f \in before[s]
    BY <1>1, <1>4 DEF derive_lifecycle_status, LifecycleStatuses, None
  <1>5. CASE f \notin findings[s] /\ f \notin before[s]
    BY <1>1, <1>5 DEF derive_lifecycle_status, LifecycleStatuses, None
  <1> QED BY <1>2, <1>3, <1>4, <1>5

\* Nothing exists yet: every part holds vacuously.
LEMMA InitInv == Init => IndInv
  BY DEF Init, IndInv, TypeOK, Stamped, ReadsAreJustified, RowsAreJustified,
         Committed, NoRows, LifecycleStatuses, Steps, None

\* Ending a scan keeps the types of what it writes.
LEMMA EndTypes ==
    ASSUME TypeOK, NEW s \in Scans, NEW final \in Statuses, End(s, final)
    PROVE  /\ status' \in [Scans -> Statuses \cup {Absent}]
           /\ completedAt' \in [Scans -> Nat]
           /\ clock' \in Nat
  BY DEF TypeOK, End

\* Every step of a scan preserves the types.
LEMMA TypeStep ==
    ASSUME TypeOK, Next
    PROVE  TypeOK'
  <1>0. /\ {"QUEUED", "RUNNING", "AI_ANALYSIS", "REPORT_READY", "REJECTED", "CANCELLED"}
              \subseteq Statuses
        /\ NoRows \in [Fingerprints -> LifecycleStatuses \cup {None}]
    BY DEF Statuses, NoRows
  <1>1. PICK s \in Scans :
            \/ Quiet(s) \/ EngineSucceeds(s) \/ fingerprints_for_scan(s)
            \/ latest_status_map(s) \/ record_lifecycle(s) \/ JobFails(s)
    BY DEF Next, Quiet
  <1>2. CASE Quiet(s)
    <2>1. CASE create_scan(s)
      BY <1>0, <2>1 DEF TypeOK, create_scan, jobVars, rowVars
    <2>2. CASE \E p \in Scans : rescan_scan(s, p)
      <3>1. PICK p \in Scans : rescan_scan(s, p)
        BY <2>2
      <3> QED BY <1>0, <3>1 DEF TypeOK, rescan_scan, jobVars, rowVars
    <2>3. CASE cancel_scan(s) \/ RejectQueued(s) \/ RejectUnderJob(s)
      <3>1. UNCHANGED <<parent, pc, jobVars, rowVars>>
              /\ (End(s, "CANCELLED") \/ End(s, "REJECTED"))
        BY <2>3 DEF cancel_scan, RejectQueued, RejectUnderJob
      <3> QED BY <1>0, <3>1, EndTypes DEF TypeOK, jobVars, rowVars
    <2>4. CASE Claim(s)
      BY <1>0, <2>4 DEF TypeOK, Claim, Goto, jobVars, rowVars, Steps
    <2>5. CASE PickPrevious(s)
      BY <2>5 DEF TypeOK, PickPrevious, Goto, scanVars, rowVars, Steps
    <2>6. CASE CommitFindings(s)
      BY <1>0, <2>6 DEF TypeOK, CommitFindings, Goto, jobVars, rowVars, Steps
    <2>7. CASE JobFailsInAnalysis(s)
      BY <2>7 DEF TypeOK, JobFailsInAnalysis, Goto, scanVars, jobVars, rowVars, Steps
    <2>8. CASE StoreAssessment(s)
      <3>1. End(s, "REPORT_READY") \/ UNCHANGED <<status, completedAt, clock>>
        BY <2>8 DEF StoreAssessment
      <3>2. status' \in [Scans -> Statuses \cup {Absent}] /\ completedAt' \in [Scans -> Nat]
              /\ clock' \in Nat
        BY <1>0, <3>1, EndTypes DEF TypeOK
      <3> QED BY <2>8, <3>2 DEF TypeOK, StoreAssessment, Goto, jobVars, rowVars, Steps
    <2> QED BY <1>2, <2>1, <2>2, <2>3, <2>4, <2>5, <2>6, <2>7, <2>8 DEF Quiet
  <1>3. CASE EngineSucceeds(s)
    BY <1>3 DEF TypeOK, EngineSucceeds, Goto, scanVars, jobVars, Steps
  <1>4. CASE fingerprints_for_scan(s)
    BY <1>4 DEF TypeOK, fingerprints_for_scan, CommittedFindings, Goto, scanVars,
                rowVars, Steps
  <1>5. CASE latest_status_map(s)
    BY <1>5 DEF TypeOK, latest_status_map, Goto, scanVars, rowVars, Steps
  <1>6. CASE record_lifecycle(s)
    <2>1. \A f \in Fingerprints : history'[s][f] \in LifecycleStatuses \cup {None}
      BY <1>6, RecordedStatus
    <2> DEFINE Rows == [f \in Fingerprints |->
                 derive_lifecycle_status(f \in findings[s], f \in before[s], lastKnown[s][f])]
    <2>2. history' = [history EXCEPT ![s] = Rows] /\ history'[s] = Rows
      BY <1>6 DEF record_lifecycle, TypeOK
    <2>3. Rows \in [Fingerprints -> LifecycleStatuses \cup {None}]
      BY <2>1, <2>2
    <2> HIDE DEF Rows
    <2>4. history' \in [Scans -> [Fingerprints -> LifecycleStatuses \cup {None}]]
      BY <2>2, <2>3 DEF TypeOK
    <2> QED
      BY <1>0, <1>6, <2>4 DEF TypeOK, record_lifecycle, ForgetReads, Goto, scanVars,
                             Steps
  <1>7. CASE JobFails(s)
    <2>1. End(s, "REJECTED") \/ UNCHANGED <<status, completedAt, clock>>
      BY <1>7 DEF JobFails
    <2>2. status' \in [Scans -> Statuses \cup {Absent}] /\ completedAt' \in [Scans -> Nat]
            /\ clock' \in Nat
      BY <1>0, <2>1, EndTypes DEF TypeOK
    <2> QED
      BY <1>0, <1>7, <2>2 DEF TypeOK, JobFails, ForgetReads, Goto, Steps
  <1> QED BY <1>1, <1>2, <1>3, <1>4, <1>5, <1>6, <1>7

\* A committed row never changes: its job is in or past its last step.
LEMMA CommittedStays ==
    ASSUME TypeOK, Stamped, Next, NEW p \in Scans, Committed(p)
    PROVE  /\ Committed(p)'
           /\ findings'[p] = findings[p]
           /\ history'[p] = history[p]
           /\ effectiveAt'[p] = effectiveAt[p]
  <1>1. pc[p] \in {"ai", "over"} /\ effectiveAt[p] # 0
    BY DEF Committed, Stamped
  <1>2. PICK s \in Scans :
            \/ Quiet(s) \/ EngineSucceeds(s) \/ fingerprints_for_scan(s)
            \/ latest_status_map(s) \/ record_lifecycle(s) \/ JobFails(s)
    BY DEF Next, Quiet
  <1>3. CASE Quiet(s)
    <2>1. UNCHANGED rowVars
      BY <1>3 DEF Quiet, create_scan, rescan_scan, cancel_scan, RejectQueued,
           RejectUnderJob, Claim, PickPrevious, CommitFindings, StoreAssessment,
           JobFailsInAnalysis
    <2>2. pc'[p] \in {"ai", "over"} \/ pc'[p] = pc[p] \/ (p = s /\ (Claim(s) \/ PickPrevious(s)))
      BY <1>3 DEF Quiet, TypeOK, create_scan, rescan_scan, cancel_scan, RejectQueued,
           RejectUnderJob, Claim, PickPrevious, CommitFindings, StoreAssessment,
           JobFailsInAnalysis, Goto
    <2> QED BY <1>1, <2>1, <2>2 DEF Committed, rowVars, Claim, PickPrevious, Goto, TypeOK
  <1>4. CASE EngineSucceeds(s) \/ fingerprints_for_scan(s) \/ latest_status_map(s)
    BY <1>1, <1>4 DEF Committed, TypeOK, EngineSucceeds, fingerprints_for_scan,
         latest_status_map, Goto, rowVars
  <1>5. CASE record_lifecycle(s) \/ JobFails(s)
    BY <1>1, <1>5 DEF Committed, TypeOK, record_lifecycle, JobFails, Busy, Goto
  <1> QED BY <1>2, <1>3, <1>4, <1>5

\* Only record_lifecycle stamps, with a stamp above all others.
LEMMA StampedStep ==
    ASSUME TypeOK, Stamped, Next
    PROVE  Stamped'
  <1>1. PICK s \in Scans :
            \/ Quiet(s) \/ EngineSucceeds(s) \/ fingerprints_for_scan(s)
            \/ latest_status_map(s) \/ record_lifecycle(s) \/ JobFails(s)
    BY DEF Next, Quiet
  <1>2. CASE Quiet(s)
    <2>1. CASE create_scan(s) \/ (\E p \in Scans : rescan_scan(s, p))
      BY <2>1 DEF Stamped, Absent, TypeOK, create_scan, rescan_scan, rowVars
    <2>2. CASE cancel_scan(s) \/ RejectQueued(s) \/ RejectUnderJob(s)
      BY <2>2 DEF Stamped, Absent, TypeOK, cancel_scan, RejectQueued, RejectUnderJob, End, rowVars
    <2>3. CASE PickPrevious(s) \/ CommitFindings(s) \/ JobFailsInAnalysis(s)
      BY <2>3 DEF Stamped, Absent, TypeOK, PickPrevious, CommitFindings, JobFailsInAnalysis,
                  Goto, scanVars, rowVars
    <2>4. CASE StoreAssessment(s)
      BY <2>4 DEF Stamped, Absent, TypeOK, StoreAssessment, End, Goto, scanVars, rowVars
    <2>5. CASE Claim(s)
      BY <2>5 DEF Stamped, Absent, TypeOK, Claim, Goto, scanVars, rowVars
    <2> QED BY <1>2, <2>1, <2>2, <2>3, <2>4, <2>5 DEF Quiet
  <1>3. CASE EngineSucceeds(s) \/ fingerprints_for_scan(s) \/ latest_status_map(s)
    <2>1. CASE EngineSucceeds(s)
      BY <2>1 DEF Stamped, Absent, TypeOK, EngineSucceeds, Goto, scanVars, rowVars
    <2>2. CASE fingerprints_for_scan(s)
      BY <2>2 DEF Stamped, Absent, TypeOK, fingerprints_for_scan, Goto, scanVars, rowVars
    <2>3. CASE latest_status_map(s)
      BY <2>3 DEF Stamped, Absent, TypeOK, latest_status_map, Goto, scanVars, rowVars
    <2> QED BY <1>3, <2>1, <2>2, <2>3
  <1>4. CASE record_lifecycle(s)
    BY <1>4 DEF Stamped, Absent, TypeOK, record_lifecycle, Goto, scanVars
  <1>5. CASE JobFails(s)
    BY <1>5 DEF Stamped, Absent, TypeOK, JobFails, Busy, End, Goto
  <1> QED BY <1>1, <1>2, <1>3, <1>4, <1>5

\* The rows of a scan change only while its job is in progress.
LEMMA RowsStay ==
    ASSUME TypeOK, Next, NEW s \in Scans, effectiveAt'[s] # 0, ~record_lifecycle(s)
    PROVE  /\ effectiveAt[s] # 0 /\ effectiveAt'[s] = effectiveAt[s]
           /\ history'[s] = history[s]
           /\ findings'[s] = findings[s] \/ EngineSucceeds(s)
  <1>1. PICK r \in Scans :
            \/ Quiet(r) \/ EngineSucceeds(r) \/ fingerprints_for_scan(r)
            \/ latest_status_map(r) \/ record_lifecycle(r) \/ JobFails(r)
    BY DEF Next, Quiet
  <1>2. CASE Quiet(r) \/ fingerprints_for_scan(r) \/ latest_status_map(r)
    <2>1. UNCHANGED rowVars
      BY <1>2 DEF Quiet, create_scan, rescan_scan, cancel_scan, RejectQueued,
           RejectUnderJob, Claim, PickPrevious, CommitFindings, StoreAssessment,
           JobFailsInAnalysis, fingerprints_for_scan, latest_status_map
    <2> QED BY <2>1 DEF rowVars
  <1>3. CASE EngineSucceeds(r)
    BY <1>3 DEF TypeOK, EngineSucceeds
  <1>4. CASE record_lifecycle(r)
    <2>1. r # s
      BY <1>4
    <2> QED BY <1>4, <2>1 DEF TypeOK, record_lifecycle
  <1>5. CASE JobFails(r)
    BY <1>5 DEF TypeOK, JobFails
  <1> QED BY <1>1, <1>2, <1>3, <1>4, <1>5

\* A job's reads change by the two statements that read, and end with it.
LEMMA ReadsChange ==
    ASSUME TypeOK, Next, NEW s \in Scans
    PROVE  \/ pc'[s] = pc[s] /\ before'[s] = before[s] /\ lastKnown'[s] = lastKnown[s]
           \/ pc'[s] \notin {"history", "derive"}
           \/ fingerprints_for_scan(s)
           \/ latest_status_map(s)
  <1>0. PICK r \in Scans :
            \/ Quiet(r) \/ EngineSucceeds(r) \/ fingerprints_for_scan(r)
            \/ latest_status_map(r) \/ record_lifecycle(r) \/ JobFails(r)
    BY DEF Next, Quiet
  <1>1. CASE Quiet(r)
    <2>1. UNCHANGED <<before, lastKnown>>
      BY <1>1 DEF Quiet, create_scan, rescan_scan, cancel_scan, RejectQueued,
           RejectUnderJob, Claim, PickPrevious, CommitFindings, StoreAssessment,
           JobFailsInAnalysis, jobVars
    <2>2. pc' = pc \/ pc' = [pc EXCEPT ![r] = "engine"]
            \/ pc' = [pc EXCEPT ![r] = "fingerprints"]
            \/ pc' = [pc EXCEPT ![r] = "ai"] \/ pc' = [pc EXCEPT ![r] = "over"]
      BY <1>1 DEF Quiet, create_scan, rescan_scan, cancel_scan, RejectQueued,
           RejectUnderJob, Claim, PickPrevious, CommitFindings, StoreAssessment,
           JobFailsInAnalysis, Goto
    <2> QED BY <2>1, <2>2 DEF TypeOK
  <1>2. CASE EngineSucceeds(r)
    BY <1>2 DEF TypeOK, EngineSucceeds, Goto, jobVars
  <1>3. CASE fingerprints_for_scan(r)
    BY <1>3 DEF TypeOK, fingerprints_for_scan, Goto
  <1>4. CASE latest_status_map(r)
    <2>1. r # s => pc'[s] = pc[s] /\ before'[s] = before[s] /\ lastKnown'[s] = lastKnown[s]
      BY <1>4 DEF TypeOK, latest_status_map, Goto
    <2> QED BY <1>4, <2>1
  <1>5. CASE record_lifecycle(r)
    BY <1>5 DEF TypeOK, record_lifecycle, ForgetReads, Goto
  <1>6. CASE JobFails(r)
    BY <1>6 DEF TypeOK, JobFails, ForgetReads, Goto
  <1> QED BY <1>0, <1>1, <1>2, <1>3, <1>4, <1>5, <1>6

\* What a job has read stays justified, and what it reads now is.
LEMMA ReadsStep ==
    ASSUME TypeOK, Stamped, ReadsAreJustified, Next
    PROVE  ReadsAreJustified'
  <1>0. SUFFICES ASSUME NEW s \in Scans, NEW f \in Fingerprints
                 PROVE  /\ pc'[s] \in {"history", "derive"} /\ f \in before'[s] =>
                             \E p \in Scans : Committed(p)' /\ f \in findings'[p]
                        /\ pc'[s] = "derive" /\ lastKnown'[s][f] = "RESOLVED" =>
                             \E p \in Scans : Committed(p)' /\ history'[p][f] = "RESOLVED"
    BY DEF ReadsAreJustified
  <1>2. ASSUME \E p \in Scans : Committed(p) /\ f \in findings[p]
        PROVE  \E p \in Scans : Committed(p)' /\ f \in findings'[p]
    BY <1>2, CommittedStays
  <1>3. ASSUME \E p \in Scans : Committed(p) /\ history[p][f] = "RESOLVED"
        PROVE  \E p \in Scans : Committed(p)' /\ history'[p][f] = "RESOLVED"
    BY <1>3, CommittedStays
  <1>4. CASE pc'[s] = pc[s] /\ before'[s] = before[s] /\ lastKnown'[s] = lastKnown[s]
    BY <1>2, <1>3, <1>4 DEF ReadsAreJustified
  <1>5. CASE pc'[s] \notin {"history", "derive"}
    BY <1>5
  <1>6. CASE fingerprints_for_scan(s)
    <2>1. pc'[s] = "history"
      BY <1>6 DEF TypeOK, fingerprints_for_scan, Goto
    <2>2. ASSUME f \in before'[s]
          PROVE  \E p \in Scans : Committed(p) /\ f \in findings[p]
      BY <1>6, <2>2 DEF TypeOK, fingerprints_for_scan, CommittedFindings
    <2> QED BY <2>1, <2>2, <1>2
  <1>7. CASE latest_status_map(s)
    <2>1. pc[s] = "history" /\ before'[s] = before[s]
      BY <1>7 DEF latest_status_map
    <2>2. ASSUME lastKnown'[s][f] = "RESOLVED"
          PROVE  \E p \in Scans : Committed(p) /\ history[p][f] = "RESOLVED"
      <3>1. PICK known \in [Fingerprints -> LifecycleStatuses \cup {None}] :
                /\ \A g \in Fingerprints :
                      \/ latest_status(g, known[g])
                      \/ RowsFor(g) = {} /\ known[g] = None
                /\ lastKnown' = [lastKnown EXCEPT ![s] = known]
        BY <1>7 DEF latest_status_map
      <3>2. known[f] = "RESOLVED"
        BY <2>2, <3>1 DEF TypeOK
      <3>3. latest_status(f, "RESOLVED")
        BY <3>1, <3>2 DEF None
      <3> QED BY <3>3 DEF latest_status, RowsFor
    <2> QED BY <1>2, <1>3, <2>1, <2>2 DEF ReadsAreJustified
  <1>8. \/ pc'[s] = pc[s] /\ before'[s] = before[s] /\ lastKnown'[s] = lastKnown[s]
        \/ pc'[s] \notin {"history", "derive"}
        \/ fingerprints_for_scan(s)
        \/ latest_status_map(s)
    BY ReadsChange
  <1> QED BY <1>4, <1>5, <1>6, <1>7, <1>8

\* A new row is justified by what its job has read; an old one stays so.
LEMMA RowsStep ==
    ASSUME TypeOK, Stamped, ReadsAreJustified, RowsAreJustified, Next, TypeOK'
    PROVE  RowsAreJustified'
  <1>0. SUFFICES ASSUME NEW s \in Scans, effectiveAt'[s] # 0, NEW f \in Fingerprints
                 PROVE  Justified(s, f)'
    BY DEF RowsAreJustified
  <1>1. CASE record_lifecycle(s)
    <2>1. effectiveAt'[s] = clock + 1 /\ findings'[s] = findings[s] /\ pc[s] = "derive"
      BY <1>1 DEF TypeOK, record_lifecycle
    <2>2. ASSUME NEW p \in Scans, Committed(p)
          PROVE  Committed(p)' /\ Earlier(p, s)'
      <3>1. effectiveAt[p] <= clock /\ effectiveAt[p] # 0
        BY <2>2 DEF Stamped, Committed
      <3>2. Committed(p)' /\ effectiveAt'[p] = effectiveAt[p]
        BY <2>2, CommittedStays
      <3> QED BY <2>1, <3>1, <3>2 DEF Earlier, TypeOK
    <2>3. (f \in findings'[s]) <=> history'[s][f] \in {"NEW", "PERSISTENT", "REGRESSED"}
      BY <1>1, <2>1, RecordedStatus
    <2>4. ASSUME history'[s][f] \in {"PERSISTENT", "RESOLVED"}
          PROVE  \E p \in Scans : Committed(p)' /\ Earlier(p, s)' /\ f \in findings'[p]
      <3>1. f \in before[s]
        BY <1>1, <2>4, RecordedStatus
      <3>2. PICK p \in Scans : Committed(p) /\ f \in findings[p]
        BY <2>1, <3>1 DEF ReadsAreJustified
      <3> QED BY <2>2, <3>2, CommittedStays
    <2>5. ASSUME history'[s][f] = "REGRESSED"
          PROVE  \E p \in Scans : Committed(p)' /\ Earlier(p, s)' /\ history'[p][f] = "RESOLVED"
      <3>1. lastKnown[s][f] = "RESOLVED"
        BY <1>1, <2>5, RecordedStatus
      <3>2. PICK p \in Scans : Committed(p) /\ history[p][f] = "RESOLVED"
        BY <2>1, <3>1 DEF ReadsAreJustified
      <3> QED BY <2>2, <3>2, CommittedStays
    <2> QED BY <2>3, <2>4, <2>5 DEF Justified
  <1>2. CASE ~record_lifecycle(s)
    <2>1. /\ effectiveAt[s] # 0 /\ effectiveAt'[s] = effectiveAt[s]
          /\ history'[s] = history[s]
          /\ findings'[s] = findings[s] \/ EngineSucceeds(s)
      BY <1>0, <1>2, RowsStay
    <2>2. ~EngineSucceeds(s)
      <3>1. pc[s] \in {"commit", "ai", "over"}
        BY <2>1 DEF Stamped
      <3> QED BY <3>1 DEF EngineSucceeds
    <2>3. Justified(s, f)
      BY <2>1 DEF RowsAreJustified
    <2>4. ASSUME NEW p \in Scans, Committed(p), Earlier(p, s)
          PROVE  Committed(p)' /\ Earlier(p, s)' /\ findings'[p] = findings[p]
                   /\ history'[p] = history[p]
      BY <2>1, <2>4, CommittedStays DEF Earlier
    <2>5. (f \in findings'[s]) <=> history'[s][f] \in {"NEW", "PERSISTENT", "REGRESSED"}
      BY <2>1, <2>2, <2>3 DEF Justified
    <2>6. ASSUME history'[s][f] \in {"PERSISTENT", "RESOLVED"}
          PROVE  \E p \in Scans : Committed(p)' /\ Earlier(p, s)' /\ f \in findings'[p]
      <3>1. PICK p \in Scans : Committed(p) /\ Earlier(p, s) /\ f \in findings[p]
        BY <2>1, <2>3, <2>6 DEF Justified
      <3> QED BY <2>4, <3>1
    <2>7. ASSUME history'[s][f] = "REGRESSED"
          PROVE  \E p \in Scans : Committed(p)' /\ Earlier(p, s)' /\ history'[p][f] = "RESOLVED"
      <3>1. PICK p \in Scans : Committed(p) /\ Earlier(p, s) /\ history[p][f] = "RESOLVED"
        BY <2>1, <2>3, <2>7 DEF Justified
      <3> QED BY <2>4, <3>1
    <2> QED BY <2>5, <2>6, <2>7 DEF Justified
  <1> QED BY <1>1, <1>2

-----------------------------------------------------------------------------
(* Scans that ended, and what is read and recorded of them.                *)

\* Each scan's end is stamped by the clock, and only the last step of a job
\* with committed rows brings it to its report.
LEMMA EndedStep ==
    ASSUME TypeOK, Stamped, EndedAreFinal, Next
    PROVE  EndedAreFinal'
  <1>1. PICK s \in Scans :
            \/ Quiet(s) \/ EngineSucceeds(s) \/ fingerprints_for_scan(s)
            \/ latest_status_map(s) \/ record_lifecycle(s) \/ JobFails(s)
    BY DEF Next, Quiet
  <1>2. CASE Quiet(s)
    <2>1. CASE create_scan(s) \/ (\E p \in Scans : rescan_scan(s, p))
      BY <2>1 DEF EndedAreFinal, Absent, TypeOK, create_scan, rescan_scan, rowVars
    <2>2. CASE cancel_scan(s) \/ RejectQueued(s) \/ RejectUnderJob(s)
      <3>1. /\ End(s, "CANCELLED") \/ End(s, "REJECTED")
            /\ UNCHANGED <<pc, rowVars>>
        BY <2>2 DEF cancel_scan, RejectQueued, RejectUnderJob
      <3> QED BY <3>1 DEF EndedAreFinal, TypeOK, End, rowVars
    <2>3. CASE PickPrevious(s) \/ JobFailsInAnalysis(s)
      BY <2>3 DEF EndedAreFinal, TypeOK, PickPrevious, JobFailsInAnalysis, Goto, scanVars, rowVars
    <2>4. CASE CommitFindings(s)
      BY <2>4 DEF EndedAreFinal, TypeOK, CommitFindings, Goto, rowVars
    <2>5. CASE StoreAssessment(s)
      <3>1. effectiveAt[s] # 0 /\ effectiveAt[s] <= clock
        BY <2>5 DEF EndedAreFinal, Stamped, StoreAssessment
      <3>2. CASE status[s] = "AI_ANALYSIS" /\ End(s, "REPORT_READY")
        BY <2>5, <3>1, <3>2 DEF EndedAreFinal, TypeOK, StoreAssessment, End, Goto, rowVars
      <3>3. CASE UNCHANGED <<status, completedAt, clock>>
        BY <2>5, <3>3 DEF EndedAreFinal, TypeOK, StoreAssessment, Goto, rowVars
      <3> QED BY <2>5, <3>2, <3>3 DEF StoreAssessment
    <2>6. CASE Claim(s)
      BY <2>6 DEF EndedAreFinal, TypeOK, Claim, Goto, rowVars
    <2> QED BY <1>2, <2>1, <2>2, <2>3, <2>4, <2>5, <2>6 DEF Quiet
  <1>3. CASE EngineSucceeds(s) \/ fingerprints_for_scan(s) \/ latest_status_map(s)
    BY <1>3 DEF EndedAreFinal, TypeOK, EngineSucceeds, fingerprints_for_scan,
                latest_status_map, Goto, scanVars, rowVars
  <1>4. CASE record_lifecycle(s)
    BY <1>4 DEF EndedAreFinal, TypeOK, record_lifecycle, Goto, scanVars
  <1>5. CASE JobFails(s)
    <2>1. pc[s] # "over"
      BY <1>5 DEF JobFails, Busy
    <2>2. CASE status[s] = "RUNNING" /\ End(s, "REJECTED")
      BY <1>5, <2>1, <2>2 DEF EndedAreFinal, TypeOK, JobFails, End, Goto
    <2>3. CASE UNCHANGED <<status, completedAt, clock>>
      BY <1>5, <2>1, <2>3 DEF EndedAreFinal, TypeOK, JobFails, Goto
    <2> QED BY <1>5, <2>2, <2>3 DEF JobFails
  <1> QED BY <1>1, <1>2, <1>3, <1>4, <1>5

\* A new stamp is above all others.
LEMMA StampsStep ==
    ASSUME TypeOK, Stamped, StampsDiffer, Next, TypeOK'
    PROVE  StampsDiffer'
  <1>0. SUFFICES ASSUME NEW p \in Scans, NEW q \in Scans, effectiveAt'[p] # 0,
                        effectiveAt'[p] = effectiveAt'[q], p # q
                 PROVE  FALSE
    BY DEF StampsDiffer
  <1>1. ASSUME NEW s \in Scans, NEW r \in Scans, r # s, record_lifecycle(s)
        PROVE  effectiveAt'[s] = clock + 1 /\ effectiveAt'[r] <= clock
    BY <1>1 DEF TypeOK, Stamped, record_lifecycle
  <1>2. CASE record_lifecycle(p) \/ record_lifecycle(q)
    BY <1>0, <1>1, <1>2 DEF TypeOK
  <1>3. CASE ~record_lifecycle(p) /\ ~record_lifecycle(q)
    BY <1>0, <1>3, RowsStay DEF StampsDiffer
  <1> QED BY <1>2, <1>3

\* A scan that has completed_at keeps it, and keeps its status.
LEMMA EndedStays ==
    ASSUME TypeOK, EndedAreFinal, Next, NEW p \in Scans, completedAt[p] # 0
    PROVE  completedAt'[p] = completedAt[p] /\ status'[p] = status[p]
  <1>0. status[p] \in {"REPORT_READY", "REJECTED", "CANCELLED"}
    BY DEF EndedAreFinal
  <1>1. PICK s \in Scans :
            \/ Quiet(s) \/ EngineSucceeds(s) \/ fingerprints_for_scan(s)
            \/ latest_status_map(s) \/ record_lifecycle(s) \/ JobFails(s)
    BY DEF Next, Quiet
  <1>2. CASE Quiet(s)
    <2>1. CASE create_scan(s) \/ (\E r \in Scans : rescan_scan(s, r))
      BY <1>0, <2>1 DEF Absent, TypeOK, create_scan, rescan_scan
    <2>2. CASE cancel_scan(s) \/ RejectQueued(s) \/ RejectUnderJob(s)
      BY <1>0, <2>2 DEF TypeOK, cancel_scan, RejectQueued, RejectUnderJob, End
    <2>3. CASE PickPrevious(s) \/ JobFailsInAnalysis(s)
      BY <2>3 DEF PickPrevious, JobFailsInAnalysis, scanVars
    <2>4. CASE CommitFindings(s) \/ Claim(s)
      BY <1>0, <2>4 DEF TypeOK, CommitFindings, Claim
    <2>5. CASE StoreAssessment(s)
      BY <1>0, <2>5 DEF TypeOK, StoreAssessment, End
    <2> QED BY <1>2, <2>1, <2>2, <2>3, <2>4, <2>5 DEF Quiet
  <1>3. CASE EngineSucceeds(s) \/ fingerprints_for_scan(s) \/ latest_status_map(s)
               \/ record_lifecycle(s)
    BY <1>3 DEF EngineSucceeds, fingerprints_for_scan, latest_status_map,
                record_lifecycle, scanVars
  <1>4. CASE JobFails(s)
    BY <1>0, <1>4 DEF TypeOK, JobFails, End
  <1> QED BY <1>1, <1>2, <1>3, <1>4

\* A scan with its report keeps its rows.
LEMMA ReadyStays ==
    ASSUME TypeOK, Stamped, EndedAreFinal, Next, NEW p \in Scans, status[p] = "REPORT_READY"
    PROVE  /\ Committed(p) /\ Committed(p)'
           /\ findings'[p] = findings[p]
           /\ history'[p] = history[p]
           /\ effectiveAt'[p] = effectiveAt[p]
           /\ completedAt'[p] = completedAt[p]
  <1>1. Committed(p) /\ completedAt[p] # 0
    BY DEF EndedAreFinal, Committed, TypeOK
  <1> QED BY <1>1, CommittedStays, EndedStays

\* A scan gets its report, or its end, with a completed_at above all others.
LEMMA EndIsLatest ==
    ASSUME TypeOK, EndedAreFinal, Next, NEW q \in Scans, status'[q] = "REPORT_READY",
           status[q] # "REPORT_READY"
    PROVE  completedAt'[q] = clock + 1
  <1>1. PICK s \in Scans :
            \/ Quiet(s) \/ EngineSucceeds(s) \/ fingerprints_for_scan(s)
            \/ latest_status_map(s) \/ record_lifecycle(s) \/ JobFails(s)
    BY DEF Next, Quiet
  <1>2. CASE StoreAssessment(s)
    BY <1>2 DEF TypeOK, StoreAssessment, End
  <1>3. CASE ~StoreAssessment(s)
    <2>1. CASE Quiet(s)
      BY <1>3, <2>1 DEF Quiet, TypeOK, create_scan, rescan_scan, cancel_scan,
           RejectQueued, RejectUnderJob, Claim, PickPrevious, CommitFindings,
           JobFailsInAnalysis, End, scanVars
    <2>2. CASE JobFails(s)
      BY <2>2 DEF TypeOK, JobFails, End
    <2>3. CASE EngineSucceeds(s) \/ fingerprints_for_scan(s) \/ latest_status_map(s)
                 \/ record_lifecycle(s)
      BY <2>3 DEF EngineSucceeds, fingerprints_for_scan, latest_status_map,
                  record_lifecycle, scanVars
    <2> QED BY <1>1, <2>1, <2>2, <2>3
  <1> QED BY <1>2, <1>3

\* A job's scan keeps its parent; the base of its comparison is picked once and
\* forgotten only when the job is rolled back.
LEMMA BaseStays ==
    ASSUME TypeOK, Stamped, BaseIsFinal, Next, NEW s \in Scans, NEW p \in Scans,
           ComparedWith(s, p)', ~PickPrevious(s)
    PROVE  ComparedWith(s, p) /\ pc[s] \notin {"none", "engine", "previous"}
  <1>0. p # NoScan
    BY ConstantsAssumption
  <1>1. PICK r \in Scans :
            \/ Quiet(r) \/ EngineSucceeds(r) \/ fingerprints_for_scan(r)
            \/ latest_status_map(r) \/ record_lifecycle(r) \/ JobFails(r)
    BY DEF Next, Quiet
  <1>2. previous'[s] = previous[s] \/ previous'[s] = NoScan
    <2>1. CASE PickPrevious(r)
      <3>1. r # s
        BY <2>1
      <3> QED BY <2>1, <3>1 DEF TypeOK, PickPrevious
    <2>2. CASE JobFails(r)
      BY <2>2 DEF TypeOK, JobFails
    <2>3. CASE Quiet(r) /\ ~PickPrevious(r)
      BY <2>3 DEF Quiet, create_scan, rescan_scan, cancel_scan, RejectQueued,
           RejectUnderJob, Claim, CommitFindings, StoreAssessment, JobFailsInAnalysis,
           jobVars
    <2>4. CASE EngineSucceeds(r) \/ fingerprints_for_scan(r) \/ latest_status_map(r)
                 \/ record_lifecycle(r)
      BY <2>4 DEF EngineSucceeds, fingerprints_for_scan, latest_status_map,
                  record_lifecycle, jobVars
    <2> QED BY <1>1, <2>1, <2>2, <2>3, <2>4
  <1>3. previous[s] = p /\ pc[s] \notin {"none", "engine", "previous"}
    BY <1>0, <1>2 DEF ComparedWith, BaseIsFinal
  <1>4. status[s] # Absent
    BY <1>3 DEF Stamped
  <1>5. parent'[s] = parent[s]
    <2>1. CASE \E q \in Scans : rescan_scan(r, q)
      BY <1>4, <2>1 DEF TypeOK, rescan_scan
    <2>2. CASE Quiet(r) /\ ~(\E q \in Scans : rescan_scan(r, q))
      BY <2>2 DEF Quiet, create_scan, cancel_scan, RejectQueued, RejectUnderJob, Claim,
           PickPrevious, CommitFindings, StoreAssessment, JobFailsInAnalysis, scanVars
    <2>3. CASE JobFails(r)
      BY <2>3 DEF JobFails
    <2>4. CASE EngineSucceeds(r) \/ fingerprints_for_scan(r) \/ latest_status_map(r)
                 \/ record_lifecycle(r)
      BY <2>4 DEF EngineSucceeds, fingerprints_for_scan, latest_status_map,
                  record_lifecycle, scanVars
    <2> QED BY <1>1, <2>1, <2>2, <2>3, <2>4
  <1> QED BY <1>3, <1>5 DEF ComparedWith

\* A job has no base before it picks one.
LEMMA NoBaseStep ==
    ASSUME TypeOK, Stamped, BaseIsFinal, Next, NEW s \in Scans,
           pc'[s] \in {"none", "engine", "previous"}
    PROVE  previous'[s] = NoScan
  <1>1. PICK r \in Scans :
            \/ Quiet(r) \/ EngineSucceeds(r) \/ fingerprints_for_scan(r)
            \/ latest_status_map(r) \/ record_lifecycle(r) \/ JobFails(r)
    BY DEF Next, Quiet
  <1>2. CASE Quiet(r)
    <2>1. CASE Claim(r)
      <3>1. pc[r] = "none"
        BY <2>1 DEF Claim, Stamped
      <3> QED BY <2>1, <3>1 DEF TypeOK, BaseIsFinal, Claim, Goto, jobVars
    <2>2. CASE PickPrevious(r)
      BY <2>2 DEF TypeOK, BaseIsFinal, PickPrevious, Goto
    <2>3. CASE CommitFindings(r) \/ StoreAssessment(r) \/ JobFailsInAnalysis(r)
      BY <2>3 DEF TypeOK, BaseIsFinal, CommitFindings, StoreAssessment,
                  JobFailsInAnalysis, Goto, jobVars
    <2>4. CASE UNCHANGED <<pc, jobVars>>
      BY <2>4 DEF BaseIsFinal, jobVars
    <2> QED
      BY <1>2, <2>1, <2>2, <2>3, <2>4 DEF Quiet, create_scan, rescan_scan, cancel_scan,
         RejectQueued, RejectUnderJob
  <1>3. CASE EngineSucceeds(r) \/ fingerprints_for_scan(r) \/ latest_status_map(r)
               \/ record_lifecycle(r)
    BY <1>3 DEF TypeOK, BaseIsFinal, EngineSucceeds, fingerprints_for_scan,
                latest_status_map, record_lifecycle, Goto, jobVars
  <1>4. CASE JobFails(r)
    BY <1>4 DEF TypeOK, BaseIsFinal, JobFails, Goto
  <1> QED BY <1>1, <1>2, <1>3, <1>4

\* A base has ended when it is picked, so it keeps its status and its findings.
LEMMA BaseStep ==
    ASSUME TypeOK, Stamped, EndedAreFinal, BaseIsFinal, Next, TypeOK'
    PROVE  BaseIsFinal'
  <1>0. SUFFICES ASSUME NEW s \in Scans, NEW p \in Scans, ComparedWith(s, p)'
                 PROVE  /\ completedAt'[p] # 0
                        /\ effectiveAt'[s] # 0 => completedAt'[p] < effectiveAt'[s]
                        /\ status'[p] = "REPORT_READY" =>
                              /\ pc'[s] \in {"history", "derive"} => before'[s] = findings'[p]
                              /\ effectiveAt'[s] # 0 => \A f \in Fingerprints :
                                    f \in findings'[p] <=>
                                      history'[s][f] \in {"PERSISTENT", "RESOLVED"}
    BY NoBaseStep DEF BaseIsFinal
  <1>1. CASE PickPrevious(s)
    <2>1. parent[s] = NoScan /\ p # NoScan /\ previous'[s] = p
      BY <1>0, <1>1, ConstantsAssumption DEF PickPrevious, ComparedWith, scanVars
    <2>2. LatestEnded(s, p)
      BY <1>1, <2>1 DEF PickPrevious, previous_scan_id, TypeOK
    <2>3. pc'[s] = "fingerprints" /\ effectiveAt[s] = 0
      BY <1>1 DEF PickPrevious, Goto, Stamped, TypeOK
    <2> QED BY <1>1, <2>2, <2>3 DEF PickPrevious, LatestEnded, scanVars, rowVars
  <1>2. CASE ~PickPrevious(s)
    <2>1. ComparedWith(s, p) /\ pc[s] \notin {"none", "engine", "previous"}
      BY <1>0, <1>2, BaseStays
    <2>2. /\ completedAt[p] # 0
          /\ completedAt'[p] = completedAt[p] /\ status'[p] = status[p]
      BY <2>1, EndedStays DEF BaseIsFinal
    <2>3. effectiveAt'[s] # 0 => completedAt'[p] < effectiveAt'[s]
      <3>1. CASE record_lifecycle(s)
        <4>1. effectiveAt'[s] = clock + 1 /\ completedAt[p] <= clock
          BY <3>1 DEF record_lifecycle, TypeOK, EndedAreFinal
        <4> QED BY <2>2, <4>1 DEF TypeOK
      <3>2. CASE ~record_lifecycle(s)
        BY <2>1, <2>2, <3>2, RowsStay DEF BaseIsFinal
      <3> QED BY <3>1, <3>2
    <2>4. ASSUME status'[p] = "REPORT_READY"
          PROVE  findings'[p] = findings[p] /\ Committed(p) /\ status[p] = "REPORT_READY"
      BY <2>2, <2>4, ReadyStays
    <2>5. ASSUME status'[p] = "REPORT_READY", pc'[s] \in {"history", "derive"}
          PROVE  before'[s] = findings'[p]
      <3>1. CASE fingerprints_for_scan(s)
        <4>1. previous[s] = p /\ p # NoScan
          BY <2>1, ConstantsAssumption DEF ComparedWith
        <4> QED BY <2>4, <2>5, <3>1, <4>1 DEF fingerprints_for_scan, CommittedFindings, TypeOK
      <3>2. CASE latest_status_map(s)
        BY <2>1, <2>4, <2>5, <3>2 DEF latest_status_map, BaseIsFinal
      <3>3. CASE pc'[s] = pc[s] /\ before'[s] = before[s]
        BY <2>1, <2>4, <2>5, <3>3 DEF BaseIsFinal
      <3> QED BY <2>5, <3>1, <3>2, <3>3, ReadsChange
    <2>6. ASSUME status'[p] = "REPORT_READY", effectiveAt'[s] # 0, NEW f \in Fingerprints
          PROVE  f \in findings'[p] <=> history'[s][f] \in {"PERSISTENT", "RESOLVED"}
      <3>1. CASE record_lifecycle(s)
        <4>1. before[s] = findings[p]
          BY <2>1, <2>4, <2>6, <3>1 DEF BaseIsFinal, record_lifecycle
        <4> QED BY <2>4, <2>6, <3>1, <4>1, RecordedStatus
      <3>2. CASE ~record_lifecycle(s)
        BY <2>1, <2>4, <2>6, <3>2, RowsStay DEF BaseIsFinal
      <3> QED BY <3>1, <3>2
    <2> QED BY <2>2, <2>3, <2>5, <2>6
  <1> QED BY <1>1, <1>2

\* The rows of a scan that ended before the base was picked are committed, so
\* the latest row a job reads is not older.
LEMMA WasReadStep ==
    ASSUME TypeOK, Stamped, RowsAreJustified, EndedAreFinal, BaseIsFinal, BaseWasRead,
           Next, TypeOK'
    PROVE  BaseWasRead'
  <1>0. SUFFICES ASSUME NEW s \in Scans, NEW p \in Scans, NEW q \in Scans,
                        NEW f \in Fingerprints, ComparedWith(s, p)',
                        status'[q] = "REPORT_READY", completedAt'[q] <= completedAt'[p],
                        history'[q][f] # None
                 PROVE  /\ pc'[s] = "derive" /\ lastKnown'[s][f] # "RESOLVED" =>
                             \E r \in Scans : /\ Committed(r)' /\ f \in findings'[r]
                                              /\ effectiveAt'[q] <= effectiveAt'[r]
                        /\ effectiveAt'[s] # 0 /\ history'[s][f] = "NEW" =>
                             \E r \in Scans : /\ Committed(r)' /\ f \in findings'[r]
                                              /\ Earlier(r, s)'
                                              /\ effectiveAt'[q] <= effectiveAt'[r]
    BY DEF BaseWasRead
  <1>1. CASE PickPrevious(s)
    <2>1. pc'[s] = "fingerprints" /\ effectiveAt[s] = 0 /\ effectiveAt' = effectiveAt
      BY <1>1 DEF PickPrevious, Goto, Stamped, TypeOK, rowVars
    <2> QED BY <2>1
  <1>2. CASE ~PickPrevious(s)
    <2>1. ComparedWith(s, p)
      BY <1>0, <1>2, BaseStays
    <2>2. /\ completedAt[p] # 0 /\ completedAt[p] <= clock
          /\ completedAt'[p] = completedAt[p]
      BY <2>1, EndedStays DEF BaseIsFinal, EndedAreFinal
    <2>3. status[q] = "REPORT_READY"
      <3>1. SUFFICES ASSUME status[q] # "REPORT_READY"
                     PROVE  FALSE
        OBVIOUS
      <3>2. completedAt'[q] = clock + 1
        BY <1>0, <3>1, EndIsLatest
      <3> QED BY <1>0, <2>2, <3>2 DEF TypeOK
    <2>4. /\ Committed(q) /\ completedAt[q] <= completedAt[p]
          /\ history[q][f] # None /\ effectiveAt'[q] = effectiveAt[q]
      BY <1>0, <2>2, <2>3, ReadyStays
    <2>5. ASSUME NEW r \in Scans, Committed(r), f \in findings[r],
                 effectiveAt[q] <= effectiveAt[r]
          PROVE  /\ Committed(r)' /\ f \in findings'[r]
                 /\ effectiveAt'[q] <= effectiveAt'[r]
                 /\ effectiveAt'[r] = effectiveAt[r]
      BY <2>4, <2>5, CommittedStays
    <2>6. ASSUME pc'[s] = "derive", lastKnown'[s][f] # "RESOLVED"
          PROVE  \E r \in Scans : /\ Committed(r)' /\ f \in findings'[r]
                                  /\ effectiveAt'[q] <= effectiveAt'[r]
      <3>1. CASE latest_status_map(s)
        <4>1. PICK known \in [Fingerprints -> LifecycleStatuses \cup {None}] :
                  /\ \A g \in Fingerprints :
                        \/ latest_status(g, known[g])
                        \/ RowsFor(g) = {} /\ known[g] = None
                  /\ lastKnown' = [lastKnown EXCEPT ![s] = known]
          BY <3>1 DEF latest_status_map
        <4>2. q \in RowsFor(f)
          BY <2>4 DEF RowsFor
        <4>3. latest_status(f, known[f]) /\ known[f] # "RESOLVED"
          BY <2>6, <4>1, <4>2 DEF TypeOK
        <4>4. PICK r \in RowsFor(f) : effectiveAt[q] <= effectiveAt[r] /\ known[f] = history[r][f]
          BY <4>2, <4>3 DEF latest_status
        <4>5. r \in Scans /\ Committed(r) /\ history[r][f] # None
          BY <4>4 DEF RowsFor
        <4>6. history[r][f] \in {"NEW", "PERSISTENT", "REGRESSED"}
          BY <4>3, <4>4, <4>5 DEF TypeOK, LifecycleStatuses
        <4>7. f \in findings[r]
          BY <4>5, <4>6 DEF RowsAreJustified, Justified, Committed
        <4> QED BY <2>5, <4>4, <4>5, <4>7
      <3>2. CASE pc'[s] = pc[s] /\ lastKnown'[s] = lastKnown[s]
        <4>1. PICK r \in Scans : /\ Committed(r) /\ f \in findings[r]
                                /\ effectiveAt[q] <= effectiveAt[r]
          BY <2>1, <2>3, <2>4, <2>6, <3>2 DEF BaseWasRead
        <4> QED BY <2>5, <4>1
      <3>3. ~fingerprints_for_scan(s)
        BY <2>6 DEF fingerprints_for_scan, Goto, TypeOK
      <3> QED BY <2>6, <3>1, <3>2, <3>3, ReadsChange
    <2>7. ASSUME effectiveAt'[s] # 0, history'[s][f] = "NEW"
          PROVE  \E r \in Scans : /\ Committed(r)' /\ f \in findings'[r] /\ Earlier(r, s)'
                                  /\ effectiveAt'[q] <= effectiveAt'[r]
      <3>1. CASE record_lifecycle(s)
        <4>0. lastKnown[s][f] # "RESOLVED"
          BY <2>7, <3>1, RecordedStatus
        <4>1. pc[s] = "derive" /\ effectiveAt'[s] = clock + 1 /\ lastKnown[s][f] # "RESOLVED"
          BY <3>1, <4>0 DEF record_lifecycle, TypeOK
        <4>2. PICK r \in Scans : /\ Committed(r) /\ f \in findings[r]
                                /\ effectiveAt[q] <= effectiveAt[r]
          BY <2>1, <2>3, <2>4, <4>1 DEF BaseWasRead
        <4>3. effectiveAt[r] # 0 /\ effectiveAt[r] <= clock
          BY <4>2 DEF Committed, Stamped
        <4>4. effectiveAt'[r] # 0 /\ effectiveAt'[r] < effectiveAt'[s]
          BY <2>5, <4>1, <4>2, <4>3 DEF TypeOK
        <4> QED BY <2>5, <4>2, <4>4 DEF Earlier
      <3>2. CASE ~record_lifecycle(s)
        <4>1. /\ effectiveAt[s] # 0 /\ effectiveAt'[s] = effectiveAt[s]
              /\ history'[s] = history[s]
          BY <2>7, <3>2, RowsStay
        <4>2. PICK r \in Scans : /\ Committed(r) /\ f \in findings[r] /\ Earlier(r, s)
                                /\ effectiveAt[q] <= effectiveAt[r]
          BY <2>1, <2>3, <2>4, <2>7, <4>1 DEF BaseWasRead
        <4> QED BY <2>5, <4>1, <4>2 DEF Earlier
      <3> QED BY <3>1, <3>2
    <2> QED BY <2>6, <2>7
  <1> QED BY <1>1, <1>2

-----------------------------------------------------------------------------
(* What the invariants say of the recorded scans.                          *)

\* A set of numbers has a least one.
LEMMA LeastNumber ==
    ASSUME NEW T, T \subseteq Nat, T # {}
    PROVE  \E x \in T : \A y \in T : x <= y
  <1>1. PICK x \in T : \A y \in T : ~(<<y, x>> \in OpToRel(<, Nat))
    BY WFMin, NatLessThanWellFounded
  <1>2. ASSUME NEW y \in T
        PROVE  x <= y
    <2>1. x \in Nat /\ y \in Nat
      BY <1>2
    <2>2. <<y, x>> \notin OpToRel(<, Nat)
      BY <1>1, <1>2
    <2> QED BY <2>1, <2>2 DEF OpToRel
  <1> QED BY <1>2

\* A set of numbers below a bound has a greatest one.
LEMMA GreatestNumber ==
    ASSUME NEW n \in Nat, NEW T, T \subseteq 0 .. n, T # {}
    PROVE  \E x \in T : \A y \in T : y <= x
  <1> DEFINE Gaps == {n - x : x \in T}
  <1>1. Gaps \subseteq Nat
    <2>1. ASSUME NEW x \in T
          PROVE  n - x \in Nat
      <3>1. x \in 0 .. n
        BY <2>1
      <3> QED BY <3>1
    <2> QED BY <2>1
  <1>0. Gaps # {}
    OBVIOUS
  <1>2. PICK g \in Gaps : \A h \in Gaps : g <= h
    <2> HIDE DEF Gaps
    <2> QED BY <1>0, <1>1, LeastNumber
  <1>3. PICK x \in T : g = n - x
    BY <1>2
  <1>4. ASSUME NEW y \in T
        PROVE  y <= x
    <2>1. n - x <= n - y
      BY <1>2, <1>3
    <2> QED BY <2>1
  <1> QED BY <1>4

\* Of the scans that were recorded after q, one was recorded first.
LEMMA NextRecorded ==
    ASSUME TypeOK, StampsDiffer, NEW q \in Scans, NEW s \in Scans, Earlier(q, s)
    PROVE  \E t \in Scans : /\ Follows(q, t)
                            /\ effectiveAt[t] <= effectiveAt[s]
  <1> DEFINE Later == {effectiveAt[t] : t \in {u \in Scans : Earlier(q, u)}}
  <1>1. Later \subseteq Nat /\ effectiveAt[s] \in Later
    BY DEF TypeOK
  <1>2. PICK x \in Later : \A y \in Later : x <= y
    <2> HIDE DEF Later
    <2> QED BY <1>1, LeastNumber
  <1>3. PICK t \in Scans : Earlier(q, t) /\ effectiveAt[t] = x
    BY <1>2
  <1>4. ASSUME NEW u \in Scans, Earlier(q, u)
        PROVE  effectiveAt[t] <= effectiveAt[u]
    BY <1>2, <1>3, <1>4
  <1>5. \A u \in Scans : ~(Earlier(q, u) /\ Earlier(u, t))
    BY <1>3, <1>4 DEF Earlier, TypeOK
  <1> QED BY <1>3, <1>4, <1>5 DEF Follows

\* A scan is recorded next after one scan only.
LEMMA FollowsOne ==
    ASSUME TypeOK, StampsDiffer, NEW p \in Scans, NEW q \in Scans, NEW t \in Scans,
           Follows(p, t), Follows(q, t)
    PROVE  p = q
  <1>1. effectiveAt[p] \in Nat /\ effectiveAt[q] \in Nat
    BY DEF TypeOK
  <1>2. /\ effectiveAt[p] # 0 /\ effectiveAt[q] # 0
        /\ ~(effectiveAt[p] < effectiveAt[q]) /\ ~(effectiveAt[q] < effectiveAt[p])
    BY DEF Follows, Earlier
  <1> QED BY <1>1, <1>2 DEF StampsDiffer

\* In a chain, a scan that another was recorded after was brought to its report
\* before the next one was recorded, which wrote a row for all it had found.
LEMMA ChainedNext ==
    ASSUME TypeOK, EndedAreFinal, StampsDiffer, BaseIsFinal, Chained,
           NEW q \in Scans, NEW s \in Scans, Earlier(q, s)
    PROVE  \E t \in Scans :
               /\ Earlier(q, t) /\ effectiveAt[t] <= effectiveAt[s]
               /\ ComparedWith(t, q)
               /\ status[q] = "REPORT_READY" /\ completedAt[q] < effectiveAt[t]
               /\ \A f \in findings[q] : history[t][f] \in {"PERSISTENT", "RESOLVED"}
  <1>1. PICK t \in Scans : Follows(q, t) /\ effectiveAt[t] <= effectiveAt[s]
    BY NextRecorded
  <1>2. Earlier(q, t) /\ effectiveAt[t] # 0
    BY <1>1 DEF Follows, Earlier, TypeOK
  <1>3. previous[t] \in Scans /\ Follows(previous[t], t)
          /\ status[previous[t]] = "REPORT_READY" /\ parent[t] = NoScan
    BY <1>2 DEF Chained, TypeOK
  <1>4. previous[t] = q
    BY <1>1, <1>3, FollowsOne
  <1>5. ComparedWith(t, q)
    BY <1>3, <1>4 DEF ComparedWith
  <1>6. completedAt[q] < effectiveAt[t]
    BY <1>2, <1>5 DEF BaseIsFinal
  <1>7. ASSUME NEW f \in findings[q]
        PROVE  history[t][f] \in {"PERSISTENT", "RESOLVED"}
    <2>1. f \in Fingerprints
      BY DEF TypeOK
    <2> QED BY <1>2, <1>3, <1>4, <1>5, <2>1 DEF BaseIsFinal
  <1> QED BY <1>1, <1>2, <1>3, <1>4, <1>5, <1>6, <1>7

\* In a chain, the scans recorded before s ended no later than the base of s.
LEMMA ChainedEnds ==
    ASSUME TypeOK, EndedAreFinal, StampsDiffer, BaseIsFinal, Chained,
           NEW s \in Scans, NEW p \in Scans, Follows(p, s), status[p] = "REPORT_READY",
           NEW q \in Scans, Earlier(q, s)
    PROVE  /\ status[q] = "REPORT_READY" /\ completedAt[q] <= completedAt[p]
           /\ q = p \/ Earlier(q, p)
  <1>1. effectiveAt \in [Scans -> Nat] /\ completedAt \in [Scans -> Nat]
    BY DEF TypeOK
  <1>2. ~(effectiveAt[p] < effectiveAt[q]) /\ effectiveAt[p] # 0
    BY DEF Follows, Earlier
  <1>3. q = p \/ Earlier(q, p)
    BY <1>1, <1>2 DEF StampsDiffer, Earlier
  <1>4. CASE q = p
    BY <1>1, <1>4
  <1>5. CASE Earlier(q, p)
    <2>1. PICK t \in Scans : /\ effectiveAt[t] <= effectiveAt[p]
                            /\ status[q] = "REPORT_READY" /\ completedAt[q] < effectiveAt[t]
      BY <1>5, ChainedNext
    <2>2. effectiveAt[p] < completedAt[p]
      BY DEF EndedAreFinal
    <2> QED BY <1>1, <1>5, <2>1, <2>2
  <1> QED BY <1>3, <1>4, <1>5

\* The rows of a scan of a chain are the ones the findings of all scans define.
LEMMA ChainedRow ==
    ASSUME TypeOK, RowsAreJustified, ChainInv, Chained,
           NEW s \in Scans, effectiveAt[s] # 0, NEW f \in Fingerprints
    PROVE  history[s][f] = SrsStatus(s, f)
  <1> DEFINE seen == \E p \in Scans : Earlier(p, s) /\ f \in findings[p]
             justBefore == \E p \in Scans : Follows(p, s) /\ f \in findings[p]
  <1>1. /\ justBefore => seen
        /\ f \in findings[s] /\ ~seen => SrsStatus(s, f) = "NEW"
        /\ f \in findings[s] /\ justBefore => SrsStatus(s, f) = "PERSISTENT"
        /\ f \in findings[s] /\ seen /\ ~justBefore => SrsStatus(s, f) = "REGRESSED"
        /\ f \notin findings[s] /\ justBefore => SrsStatus(s, f) = "RESOLVED"
        /\ f \notin findings[s] /\ ~justBefore => SrsStatus(s, f) = None
    <2>1. justBefore => seen
      BY DEF Follows
    <2>2. SrsStatus(s, f) =
             CASE f \in findings[s] /\ ~seen -> "NEW"
               [] f \in findings[s] /\ justBefore -> "PERSISTENT"
               [] f \in findings[s] /\ seen /\ ~justBefore -> "REGRESSED"
               [] f \notin findings[s] /\ justBefore -> "RESOLVED"
               [] f \notin findings[s] /\ ~justBefore -> None
      BY DEF SrsStatus
    <2> HIDE DEF seen, justBefore
    <2> QED BY <2>1, <2>2
  <1>2. Justified(s, f) /\ history[s][f] \in LifecycleStatuses \cup {None}
    BY DEF RowsAreJustified, TypeOK
  <1>3. history[s][f] \in {"PERSISTENT", "RESOLVED", "REGRESSED"} => seen
    <2>1. CASE history[s][f] \in {"PERSISTENT", "RESOLVED"}
      BY <1>2, <2>1 DEF Justified
    <2>2. CASE history[s][f] = "REGRESSED"
      <3>1. PICK p \in Scans : Committed(p) /\ Earlier(p, s) /\ history[p][f] = "RESOLVED"
        BY <1>2, <2>2 DEF Justified
      <3>2. PICK q \in Scans : Earlier(q, p) /\ f \in findings[q]
        BY <3>1 DEF RowsAreJustified, Justified, Committed
      <3>3. Earlier(q, s)
        BY <3>1, <3>2 DEF Earlier, TypeOK
      <3> QED BY <3>2, <3>3
    <2> QED BY <2>1, <2>2
  <1>4. history[s][f] \in {"PERSISTENT", "RESOLVED"} <=> justBefore
    <2>1. CASE previous[s] = NoScan
      <3>1. ~seen
        BY <2>1 DEF Chained
      <3> QED BY <1>1, <1>3, <3>1
    <2>2. CASE previous[s] # NoScan
      <3> DEFINE p == previous[s]
      <3>1. p \in Scans /\ Follows(p, s) /\ status[p] = "REPORT_READY" /\ ComparedWith(s, p)
        BY <2>2 DEF Chained, TypeOK, ComparedWith
      <3>2. f \in findings[p] <=> history[s][f] \in {"PERSISTENT", "RESOLVED"}
        BY <3>1 DEF ChainInv, BaseIsFinal
      <3>3. justBefore <=> f \in findings[p]
        BY <3>1, FollowsOne DEF ChainInv
      <3> QED BY <3>2, <3>3
    <2> QED BY <2>1, <2>2
  <1>5. history[s][f] = "NEW" => ~seen
    <2>1. SUFFICES ASSUME history[s][f] = "NEW",
                          NEW q \in Scans, Earlier(q, s), f \in findings[q]
                   PROVE  FALSE
      OBVIOUS
    <2> DEFINE p == previous[s]
    <2>2. p \in Scans /\ Follows(p, s) /\ status[p] = "REPORT_READY" /\ ComparedWith(s, p)
      BY <2>1 DEF Chained, TypeOK, ComparedWith
    <2> HIDE DEF p
    <2>3. f \notin findings[p]
      BY <1>4, <2>1, <2>2
    <2>4. ASSUME NEW u \in Scans, Earlier(u, s), f \in findings[u]
          PROVE  history[u][f] # None
      BY <2>4 DEF RowsAreJustified, Justified, Earlier, None
    <2> DEFINE Rows == {u \in Scans : Earlier(u, s) /\ history[u][f] # None}
               Times == {effectiveAt[u] : u \in Rows}
    <2>5. PICK last \in Rows : \A u \in Rows : effectiveAt[u] <= effectiveAt[last]
      <3>1. effectiveAt[s] \in Nat /\ Times \subseteq 0 .. effectiveAt[s]
        BY DEF TypeOK, Earlier
      <3>2. q \in Rows
        BY <2>1, <2>4
      <3>3. Times # {}
        BY <3>2
      <3>4. PICK x \in Times : \A y \in Times : y <= x
        <4> HIDE DEF Times
        <4> QED BY <3>1, <3>3, GreatestNumber
      <3> QED BY <3>4
    <2>6. status[last] = "REPORT_READY" /\ completedAt[last] <= completedAt[p]
      BY <2>2, <2>5, ChainedEnds DEF ChainInv
    <2>7. PICK r \in Scans : /\ f \in findings[r] /\ Earlier(r, s)
                            /\ effectiveAt[last] <= effectiveAt[r]
      BY <2>1, <2>2, <2>5, <2>6 DEF ChainInv, BaseWasRead
    <2>8. Earlier(r, p)
      BY <2>2, <2>3, <2>7, ChainedEnds DEF ChainInv
    <2>9. PICK u \in Scans : /\ Earlier(r, u) /\ effectiveAt[u] <= effectiveAt[p]
                            /\ history[u][f] \in {"PERSISTENT", "RESOLVED"}
      BY <2>2, <2>7, <2>8, ChainedNext DEF ChainInv
    <2>10. Earlier(u, s)
      BY <2>2, <2>9 DEF Follows, Earlier, TypeOK
    <2>11. u \in Rows
      BY <2>9, <2>10 DEF None
    <2>12. effectiveAt[u] <= effectiveAt[last] /\ effectiveAt[r] < effectiveAt[u]
      BY <2>5, <2>9, <2>11 DEF Earlier
    <2> QED BY <2>5, <2>7, <2>9, <2>12 DEF TypeOK
  <1>6. CASE f \in findings[s]
    BY <1>1, <1>2, <1>3, <1>4, <1>5, <1>6 DEF Justified
  <1>7. CASE f \notin findings[s]
    BY <1>1, <1>2, <1>4, <1>7 DEF Justified, LifecycleStatuses
  <1> QED BY <1>6, <1>7

-----------------------------------------------------------------------------
\* The inductive invariant holds in every reachable state.
THEOREM Invariance == Spec => []IndInv
  <1>1. ASSUME IndInv, [Next]_vars
        PROVE  IndInv'
    <2>1. CASE Next
      BY <1>1, <2>1, TypeStep, StampedStep, ReadsStep, RowsStep DEF IndInv
    <2>2. CASE UNCHANGED vars
      BY <1>1, <2>2 DEF IndInv, TypeOK, Stamped, ReadsAreJustified, RowsAreJustified,
           Justified, Earlier, Committed, vars, scanVars, jobVars, rowVars
    <2> QED BY <1>1, <2>1, <2>2
  <1> QED BY <1>1, InitInv, PTL DEF Spec

\* Every row _record_lifecycle writes is justified by committed rows with an
\* earlier effective_at, for any scans, fingerprints and overlap of jobs.
THEOREM HistoryIsJustified == Spec => []RowsAreJustified
  <1>1. IndInv => RowsAreJustified
    BY DEF IndInv
  <1> QED BY <1>1, Invariance, PTL

\* The scans that ended, and what was read and recorded of them, are as
\* ChainInv says in every reachable state.
THEOREM ChainInvariance == Spec => []ChainInv
  <1>1. Init => ChainInv
    BY ConstantsAssumption DEF Init, ChainInv, EndedAreFinal, StampsDiffer, BaseIsFinal,
         BaseWasRead, ComparedWith, Absent
  <1>2. ASSUME IndInv, IndInv', ChainInv, [Next]_vars
        PROVE  ChainInv'
    <2>1. CASE Next
      BY <1>2, <2>1, EndedStep, StampsStep, BaseStep, WasReadStep DEF IndInv, ChainInv
    <2>2. CASE UNCHANGED vars
      BY <1>2, <2>2 DEF ChainInv, EndedAreFinal, StampsDiffer, BaseIsFinal, BaseWasRead,
           ComparedWith, Earlier, Committed, vars, scanVars, jobVars, rowVars
    <2> QED BY <1>2, <2>1, <2>2
  <1> QED BY <1>1, <1>2, Invariance, PTL DEF Spec

\* In a chain of completed scans the rows of finding_status_history, derived one
\* from another, are the ones SRS chapter 4 defines from the findings of all
\* scans: for any number of scans and fingerprints, and any overlap of the jobs
\* that ran, were rejected or rolled back meanwhile.
THEOREM ChainedHistory == Spec => []ChainedHistoryIsExact
  <1>1. IndInv /\ ChainInv => ChainedHistoryIsExact
    BY ChainedRow DEF IndInv, ChainedHistoryIsExact
  <1> QED BY <1>1, Invariance, ChainInvariance, PTL

\* GET /scans/{a}/compare/{b} of a scan and the completed scan it was compared
\* with repeats the recorded statuses, whenever it is asked.
THEOREM Comparison == Spec => []ComparisonAgrees
  <1>1. ASSUME IndInv, ChainInv
        PROVE  ComparisonAgrees
    <2>1. SUFFICES ASSUME NEW s \in Scans, Committed(s), parent[s] = NoScan,
                          previous[s] # NoScan, status[previous[s]] = "REPORT_READY"
                   PROVE  LET Recorded(code) == {f \in Fingerprints : history[s][f] = code}
                              diff == compare_scans(previous[s], s)
                          IN /\ diff.persistent = Recorded("PERSISTENT")
                             /\ diff.resolved = Recorded("RESOLVED")
                             /\ Recorded("REGRESSED") \subseteq diff.regressed
                             /\ diff.new \subseteq Recorded("NEW")
      BY DEF ComparisonAgrees
    <2> DEFINE p == previous[s]
               as == findings[p]
               bs == findings[s]
    <2>2. p \in Scans /\ ComparedWith(s, p) /\ Committed(p) /\ effectiveAt[s] # 0
      BY <1>1, <2>1 DEF IndInv, TypeOK, ComparedWith, ChainInv, EndedAreFinal, Committed
    <2>3. compare_scans(p, s) =
             [new |-> {f \in bs \ as : ~EverResolved(f)}, persistent |-> as \cap bs,
              resolved |-> as \ bs, regressed |-> {f \in bs \ as : EverResolved(f)}]
      BY <2>1, <2>2 DEF compare_scans, CommittedFindings
    <2>4. as \subseteq Fingerprints /\ bs \subseteq Fingerprints
      BY <1>1, <2>2 DEF IndInv, TypeOK
    <2>5. ASSUME NEW f \in Fingerprints
          PROVE  /\ f \in as <=> history[s][f] \in {"PERSISTENT", "RESOLVED"}
                 /\ f \in bs <=> history[s][f] \in {"NEW", "PERSISTENT", "REGRESSED"}
                 /\ history[s][f] = "REGRESSED" => EverResolved(f)
      <3>1. f \in as <=> history[s][f] \in {"PERSISTENT", "RESOLVED"}
        BY <1>1, <2>1, <2>2 DEF ChainInv, BaseIsFinal
      <3>2. Justified(s, f)
        BY <1>1, <2>2 DEF IndInv, RowsAreJustified
      <3> QED BY <3>1, <3>2 DEF Justified, EverResolved
    <2> HIDE DEF p, as, bs
    <2>6. as \cap bs = {f \in Fingerprints : history[s][f] = "PERSISTENT"}
      BY <2>4, <2>5
    <2>7. as \ bs = {f \in Fingerprints : history[s][f] = "RESOLVED"}
      BY <2>4, <2>5
    <2>8. {f \in Fingerprints : history[s][f] = "REGRESSED"}
            \subseteq {f \in bs \ as : EverResolved(f)}
      <3>1. ASSUME NEW f \in Fingerprints, history[s][f] = "REGRESSED"
            PROVE  f \in bs /\ f \notin as /\ EverResolved(f)
        BY <2>5, <3>1
      <3> QED BY <3>1
    <2>9. {f \in bs \ as : ~EverResolved(f)}
            \subseteq {f \in Fingerprints : history[s][f] = "NEW"}
      BY <2>4, <2>5
    <2>10. LET diff == compare_scans(p, s)
           IN  /\ diff.persistent = as \cap bs
               /\ diff.resolved = as \ bs
               /\ diff.regressed = {f \in bs \ as : EverResolved(f)}
               /\ diff.new = {f \in bs \ as : ~EverResolved(f)}
      BY <2>3
    <2>11. previous[s] = p
      BY DEF p
    <2> QED BY <2>6, <2>7, <2>8, <2>9, <2>10, <2>11, Zenon
  <1> QED BY <1>1, Invariance, ChainInvariance, PTL
=============================================================================
