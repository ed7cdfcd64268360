-------------------------- MODULE FindingLifecycle --------------------------
(***************************************************************************)
(* The history of findings across the scans of one target:                 *)
(* _persist_findings, _record_lifecycle and compare_scans of               *)
(* domain/scans/scan_service.py and domain/scans/lifecycle_finding.py.     *)
(*                                                                         *)
(* Each scan has at most one job that drives its engine (the theorem       *)
(* EngineRunsOnce of ScanLifecycleProofs), so a job is named by its scan.  *)
(* The statements of a job's transaction see what is committed when each   *)
(* of them starts (READ COMMITTED); its own rows become visible together   *)
(* when it commits.  clock orders the values of completed_at and           *)
(* effective_at.  Only findings that have a fingerprint are tracked, so a  *)
(* finding is its fingerprint; REPORT_READY stands for the degraded report *)
(* too.                                                                    *)
(***************************************************************************)
EXTENDS ScanStates, Naturals, FiniteSets

CONSTANTS
    Scans,         \* scans of the target
    Fingerprints,  \* the fingerprints its findings can have
    MaxJobs,       \* jobs the workers execute at the same time
    MayRaise,      \* whether an exception may leave a job
    NoScan

ASSUME ConstantsAssumption ==
    /\ MaxJobs \in Nat
    /\ MayRaise \in BOOLEAN
    /\ NoScan \notin Scans

VARIABLES
    status,       \* committed status of each scan
    parent,       \* parent_scan_id
    completedAt,  \* completed_at, or 0
    pc,           \* what the scan's job does next
    findings,     \* fingerprints of the scan's rows in scan_finding
    previous,     \* the scan the job compares with
    before,       \* the fingerprints the job read for it
    lastKnown,    \* the latest status of each fingerprint the job read
    history,      \* status of the row of finding_status_history, if any
    effectiveAt,  \* effective_at of the scan's rows there, or 0
    clock

scanVars == <<status, parent, completedAt>>
jobVars == <<previous, before, lastKnown>>
rowVars == <<findings, history, effectiveAt>>
vars == <<scanVars, pc, jobVars, rowVars, clock>>

LifecycleStatuses == {"NEW", "PERSISTENT", "RESOLVED", "REGRESSED"}

\* No row, no status.
None == "none"

Steps == {"none", "engine", "previous", "fingerprints", "history", "derive",
          "commit", "ai", "over"}

\* Every variable holds a value of its kind.
TypeOK ==
    /\ status \in [Scans -> Statuses \cup {Absent}]
    /\ parent \in [Scans -> Scans \cup {NoScan}]
    /\ completedAt \in [Scans -> Nat]
    /\ pc \in [Scans -> Steps]
    /\ findings \in [Scans -> SUBSET Fingerprints]
    /\ previous \in [Scans -> Scans \cup {NoScan}]
    /\ before \in [Scans -> SUBSET Fingerprints]
    /\ lastKnown \in [Scans -> [Fingerprints -> LifecycleStatuses \cup {None}]]
    /\ history \in [Scans -> [Fingerprints -> LifecycleStatuses \cup {None}]]
    /\ effectiveAt \in [Scans -> Nat]
    /\ clock \in Nat

NoRows == [f \in Fingerprints |-> None]

Init ==
    /\ status = [s \in Scans |-> Absent]
    /\ parent = [s \in Scans |-> NoScan]
    /\ completedAt = [s \in Scans |-> 0]
    /\ pc = [s \in Scans |-> "none"]
    /\ findings = [s \in Scans |-> {}]
    /\ previous = [s \in Scans |-> NoScan]
    /\ before = [s \in Scans |-> {}]
    /\ lastKnown = [s \in Scans |-> NoRows]
    /\ history = [s \in Scans |-> NoRows]
    /\ effectiveAt = [s \in Scans |-> 0]
    /\ clock = 0

-----------------------------------------------------------------------------
(* Requests: the scan rows.                                                *)

create_scan(s) ==
    /\ status[s] = Absent
    /\ status' = [status EXCEPT ![s] = "QUEUED"]
    /\ UNCHANGED <<parent, completedAt, pc, jobVars, rowVars, clock>>

rescan_scan(s, p) ==
    /\ status[s] = Absent
    /\ status[p] # Absent
    /\ status' = [status EXCEPT ![s] = "QUEUED"]
    /\ parent' = [parent EXCEPT ![s] = p]
    /\ UNCHANGED <<completedAt, pc, jobVars, rowVars, clock>>

\* A terminal status comes with completed_at.
End(s, final) ==
    /\ status' = [status EXCEPT ![s] = final]
    /\ completedAt' = [completedAt EXCEPT ![s] = clock + 1]
    /\ clock' = clock + 1

cancel_scan(s) ==
    /\ status[s] \in {"QUEUED", "AI_ANALYSIS"}
    /\ End(s, "CANCELLED")
    /\ UNCHANGED <<parent, pc, jobVars, rowVars>>

\* The attestation lapsed before the claim, or a job raised before it.
RejectQueued(s) ==
    /\ status[s] = "QUEUED"
    /\ End(s, "REJECTED")
    /\ UNCHANGED <<parent, pc, jobVars, rowVars>>

\* A second delivery of the task raises while the job is executed: the scan
\* is rejected under it.
RejectUnderJob(s) ==
    /\ MayRaise
    /\ status[s] = "RUNNING"
    /\ End(s, "REJECTED")
    /\ UNCHANGED <<parent, pc, jobVars, rowVars>>

-----------------------------------------------------------------------------
(* execute_scan_job, from the claim to the commit of the findings.         *)

Busy(s) == pc[s] \notin {"none", "over"}

Goto(s, step) == pc' = [pc EXCEPT ![s] = step]

Claim(s) ==
    /\ status[s] = "QUEUED"
    /\ Cardinality({q \in Scans : Busy(q)}) < MaxJobs
    /\ status' = [status EXCEPT ![s] = "RUNNING"]
    /\ Goto(s, "engine")
    /\ UNCHANGED <<parent, completedAt, jobVars, rowVars, clock>>

\* The findings are flushed: visible to this transaction only.
EngineSucceeds(s) ==
    /\ pc[s] = "engine"
    /\ \E found \in SUBSET Fingerprints : findings' = [findings EXCEPT ![s] = found]
    /\ Goto(s, "previous")
    /\ UNCHANGED <<scanVars, jobVars, history, effectiveAt, clock>>

\* The rows of the scan's transaction are committed.
Committed(s) == effectiveAt[s] # 0 /\ pc[s] # "commit"

\* SELECT id FROM scan WHERE completed_at IS NOT NULL ORDER BY completed_at
\* DESC LIMIT 1: the status of the scan is not looked at.
LatestEnded(s, p) ==
    /\ p \in Scans \ {s}
    /\ completedAt[p] # 0
    /\ \A q \in Scans \ {s} : completedAt[q] <= completedAt[p]

previous_scan_id(s, p) ==
    \/ parent[s] # NoScan /\ p = parent[s]
    \/ parent[s] = NoScan /\ LatestEnded(s, p)
    \/ /\ parent[s] = NoScan /\ p = NoScan
       /\ \A q \in Scans \ {s} : completedAt[q] = 0

PickPrevious(s) ==
    /\ pc[s] = "previous"
    /\ \E p \in Scans \cup {NoScan} :
          previous_scan_id(s, p) /\ previous' = [previous EXCEPT ![s] = p]
    /\ Goto(s, "fingerprints")
    /\ UNCHANGED <<scanVars, before, lastKnown, rowVars, clock>>

CommittedFindings(p) == IF Committed(p) THEN findings[p] ELSE {}

\* Mutant: the comparison set is read by target and holds the scan's own rows.
fingerprints_of_target(s) ==
    /\ pc[s] = "fingerprints"
    /\ before' = [before EXCEPT ![s] = findings[s]]
    /\ Goto(s, "history")
    /\ UNCHANGED <<scanVars, previous, lastKnown, rowVars, clock>>

fingerprints_for_scan(s) ==
    /\ pc[s] = "fingerprints"
    /\ before' = [before EXCEPT ![s] =
          IF previous[s] = NoScan THEN {} ELSE CommittedFindings(previous[s])]
    /\ Goto(s, "history")
    /\ UNCHANGED <<scanVars, previous, lastKnown, rowVars, clock>>

\* The scans with a committed row for the fingerprint.
RowsFor(f) == {p \in Scans : Committed(p) /\ history[p][f] # None}

\* Mutant: ORDER BY effective_at ASC, the first row wins.
oldest_status(f, code) ==
    \E p \in RowsFor(f) :
        /\ \A q \in RowsFor(f) : effectiveAt[p] <= effectiveAt[q]
        /\ code = history[p][f]

\* ORDER BY effective_at DESC, the first row of a fingerprint wins.
latest_status(f, code) ==
    \E p \in RowsFor(f) :
        /\ \A q \in RowsFor(f) : effectiveAt[q] <= effectiveAt[p]
        /\ code = history[p][f]

latest_status_map(s) ==
    /\ pc[s] = "history"
    /\ \E known \in [Fingerprints -> LifecycleStatuses \cup {None}] :
          /\ \A f \in Fingerprints :
                \/ latest_status(f, known[f])
                \/ RowsFor(f) = {} /\ known[f] = None
          /\ lastKnown' = [lastKnown EXCEPT ![s] = known]
    /\ Goto(s, "derive")
    /\ UNCHANGED <<scanVars, previous, before, rowVars, clock>>

derive_lifecycle_status(inCurrent, inPrevious, known) ==
    CASE inCurrent /\ inPrevious -> "PERSISTENT"
      [] inCurrent /\ ~inPrevious /\ known = "RESOLVED" -> "REGRESSED"
      [] inCurrent /\ ~inPrevious /\ known # "RESOLVED" -> "NEW"
      [] ~inCurrent /\ inPrevious -> "RESOLVED"
      [] ~inCurrent /\ ~inPrevious -> None

\* What was read is local to _record_lifecycle.
ForgetReads(s) ==
    /\ before' = [before EXCEPT ![s] = {}]
    /\ lastKnown' = [lastKnown EXCEPT ![s] = NoRows]

\* The rows are flushed; effective_at is taken now.
record_lifecycle(s) ==
    /\ pc[s] = "derive"
    /\ history' = [history EXCEPT ![s] =
          [f \in Fingerprints |->
             derive_lifecycle_status(f \in findings[s], f \in before[s], lastKnown[s][f])]]
    /\ effectiveAt' = [effectiveAt EXCEPT ![s] = clock + 1]
    /\ clock' = clock + 1
    /\ Goto(s, "commit")
    /\ ForgetReads(s)
    /\ UNCHANGED <<scanVars, previous, findings>>

\* Findings, history and the status, if it still is RUNNING.
CommitFindings(s) ==
    /\ pc[s] = "commit"
    /\ status' = [status EXCEPT ![s] = IF @ = "RUNNING" THEN "AI_ANALYSIS" ELSE @]
    /\ Goto(s, "ai")
    /\ UNCHANGED <<parent, completedAt, jobVars, rowVars, clock>>

StoreAssessment(s) ==
    /\ pc[s] = "ai"
    /\ \/ status[s] = "AI_ANALYSIS" /\ End(s, "REPORT_READY")
       \/ status[s] # "AI_ANALYSIS" /\ UNCHANGED <<status, completedAt, clock>>
    /\ Goto(s, "over")
    /\ UNCHANGED <<parent, jobVars, rowVars>>

\* The pipeline fails, or an exception leaves the job before its findings are
\* committed: the transaction is rolled back and the scan rejected.
JobFails(s) ==
    /\ pc[s] = "engine" \/ (MayRaise /\ Busy(s) /\ pc[s] # "ai")
    /\ findings' = [findings EXCEPT ![s] = {}]
    /\ history' = [history EXCEPT ![s] = NoRows]
    /\ effectiveAt' = [effectiveAt EXCEPT ![s] = 0]
    /\ \/ status[s] = "RUNNING" /\ End(s, "REJECTED")
       \/ status[s] # "RUNNING" /\ UNCHANGED <<status, completedAt, clock>>
    /\ Goto(s, "over")
    /\ ForgetReads(s)
    /\ previous' = [previous EXCEPT ![s] = NoScan]
    /\ UNCHANGED parent

\* An exception after that commit: nothing moves the scan.
JobFailsInAnalysis(s) ==
    /\ MayRaise
    /\ pc[s] = "ai"
    /\ Goto(s, "over")
    /\ UNCHANGED <<scanVars, jobVars, rowVars, clock>>

-----------------------------------------------------------------------------
(* GET /scans/{a}/compare/{b}: a read of committed rows.                   *)

EverResolved(f) == \E p \in Scans : Committed(p) /\ history[p][f] = "RESOLVED"

\* Mutant: the history is not consulted.
compare_without_history(a, b) ==
    LET as == CommittedFindings(a)
        bs == CommittedFindings(b)
    IN [new |-> bs \ as, persistent |-> as \cap bs, resolved |-> as \ bs,
        regressed |-> {}]

compare_scans(a, b) ==
    LET as == CommittedFindings(a)
        bs == CommittedFindings(b)
    IN [new |-> {f \in bs \ as : ~EverResolved(f)},
        persistent |-> as \cap bs,
        resolved |-> as \ bs,
        regressed |-> {f \in bs \ as : EverResolved(f)}]

-----------------------------------------------------------------------------
Next ==
    \E s \in Scans :
        \/ create_scan(s) \/ (\E p \in Scans : rescan_scan(s, p))
        \/ cancel_scan(s) \/ RejectQueued(s) \/ RejectUnderJob(s)
        \/ Claim(s) \/ EngineSucceeds(s) \/ PickPrevious(s)
        \/ fingerprints_for_scan(s) \/ latest_status_map(s) \/ record_lifecycle(s)
        \/ CommitFindings(s) \/ StoreAssessment(s)
        \/ JobFails(s) \/ JobFailsInAnalysis(s)

Spec == Init /\ [][Next]_vars

-----------------------------------------------------------------------------
(* Properties.                                                             *)

\* p's rows have an earlier effective_at than s's.
Earlier(p, s) == effectiveAt[p] # 0 /\ effectiveAt[p] < effectiveAt[s]

\* However scans overlap, are cancelled, rejected or rolled back, a row that
\* _record_lifecycle wrote for a scan is justified by committed rows of an
\* earlier one: PERSISTENT and RESOLVED by a scan that found the fingerprint,
\* REGRESSED by one that recorded it RESOLVED; and a scan's rows agree with
\* what it found, none of its findings left out.
Justified(s, f) ==
    /\ (f \in findings[s]) <=> history[s][f] \in {"NEW", "PERSISTENT", "REGRESSED"}
    /\ history[s][f] \in {"PERSISTENT", "RESOLVED"} =>
          \E p \in Scans : Committed(p) /\ Earlier(p, s) /\ f \in findings[p]
    /\ history[s][f] = "REGRESSED" =>
          \E p \in Scans : Committed(p) /\ Earlier(p, s) /\ history[p][f] = "RESOLVED"

RowsAreJustified ==
    \A s \in Scans : effectiveAt[s] # 0 => \A f \in Fingerprints : Justified(s, f)

\* A job begins with the claim of a queued scan, and its rows are stamped by
\* its last step before the commit.
Stamped ==
    \A s \in Scans :
        /\ status[s] \in {Absent, "QUEUED"} => pc[s] = "none"
        /\ effectiveAt[s] # 0 => pc[s] \in {"commit", "ai", "over"}
        /\ effectiveAt[s] <= clock

\* What a job has read is justified by rows that stay committed.
ReadsAreJustified ==
    \A s \in Scans, f \in Fingerprints :
        /\ pc[s] \in {"history", "derive"} /\ f \in before[s] =>
              \E p \in Scans : Committed(p) /\ f \in findings[p]
        /\ pc[s] = "derive" /\ lastKnown[s][f] = "RESOLVED" =>
              \E p \in Scans : Committed(p) /\ history[p][f] = "RESOLVED"

\* What every step preserves: see FindingLifecycleProofs.
IndInv == TypeOK /\ Stamped /\ ReadsAreJustified /\ RowsAreJustified

\* A scan has completed_at once its status is final, and is brought to its
\* report by the last step of a job that has stamped and committed its rows.
EndedAreFinal ==
    \A s \in Scans :
        /\ completedAt[s] <= clock
        /\ completedAt[s] # 0 => status[s] \in {"REPORT_READY", "REJECTED", "CANCELLED"}
        /\ pc[s] \in {"commit", "ai"} => effectiveAt[s] # 0
        /\ status[s] = "REPORT_READY" =>
              /\ pc[s] = "over"
              /\ effectiveAt[s] # 0 /\ effectiveAt[s] < completedAt[s]

\* No two scans have rows of the same time.
StampsDiffer ==
    \A p, q \in Scans : effectiveAt[p] # 0 /\ effectiveAt[p] = effectiveAt[q] => p = q

\* s has no parent and is compared with p.
ComparedWith(s, p) == parent[s] = NoScan /\ previous[s] = p

\* The scan a job compares with had ended when the job picked it; if it had
\* ended with its report, the job reads, and records, its final findings.
BaseIsFinal ==
    /\ \A s \in Scans : pc[s] \in {"none", "engine", "previous"} => previous[s] = NoScan
    /\ \A s, p \in Scans : ComparedWith(s, p) =>
          /\ completedAt[p] # 0
          /\ effectiveAt[s] # 0 => completedAt[p] < effectiveAt[s]
          /\ status[p] = "REPORT_READY" =>
                /\ pc[s] \in {"history", "derive"} => before[s] = findings[p]
                /\ effectiveAt[s] # 0 => \A f \in Fingerprints :
                      f \in findings[p] <=> history[s][f] \in {"PERSISTENT", "RESOLVED"}

\* A scan that ended, with its report, no later than the base of s had its rows
\* read for s: if they hold the fingerprint and s calls it new, the latest row
\* that was read is of a scan that found it.
BaseWasRead ==
    \A s, p, q \in Scans, f \in Fingerprints :
        /\ ComparedWith(s, p)
        /\ status[q] = "REPORT_READY" /\ completedAt[q] <= completedAt[p]
        /\ history[q][f] # None
        =>
        /\ pc[s] = "derive" /\ lastKnown[s][f] # "RESOLVED" =>
              \E r \in Scans : /\ Committed(r) /\ f \in findings[r]
                               /\ effectiveAt[q] <= effectiveAt[r]
        /\ effectiveAt[s] # 0 /\ history[s][f] = "NEW" =>
              \E r \in Scans : /\ Committed(r) /\ f \in findings[r] /\ Earlier(r, s)
                               /\ effectiveAt[q] <= effectiveAt[r]

\* What every step preserves, given IndInv.
ChainInv == EndedAreFinal /\ StampsDiffer /\ BaseIsFinal /\ BaseWasRead

\* No scan was recorded between p and s.
Follows(p, s) == Earlier(p, s) /\ \A q \in Scans : ~(Earlier(p, q) /\ Earlier(q, s))

\* Each recorded scan was compared with the one recorded before it, which was
\* brought to its report, and none has a parent.
Chained ==
    \A s \in Scans : effectiveAt[s] # 0 =>
        /\ parent[s] = NoScan
        /\ IF previous[s] = NoScan
           THEN \A p \in Scans : ~Earlier(p, s)
           ELSE Follows(previous[s], s) /\ status[previous[s]] = "REPORT_READY"

\* SRS chapter 4, section 6.2, in terms of findings alone.
SrsStatus(s, f) ==
    LET seen == \E p \in Scans : Earlier(p, s) /\ f \in findings[p]
        seenJustBefore == \E p \in Scans : Follows(p, s) /\ f \in findings[p]
    IN CASE f \in findings[s] /\ ~seen -> "NEW"
         [] f \in findings[s] /\ seenJustBefore -> "PERSISTENT"
         [] f \in findings[s] /\ seen /\ ~seenJustBefore -> "REGRESSED"
         [] f \notin findings[s] /\ seenJustBefore -> "RESOLVED"
         [] f \notin findings[s] /\ ~seenJustBefore -> None

\* As long as each scan of a target was compared with the completed scan that
\* was recorded before it, the rows, which are derived from rows written earlier, are the
\* ones SRS chapter 4 defines from the findings of all scans.
ChainedHistoryIsExact ==
    Chained => \A s \in Scans : effectiveAt[s] # 0 =>
        \A f \in Fingerprints : history[s][f] = SrsStatus(s, f)

\* compare_scans of a scan and the completed scan it was compared with repeats
\* the recorded statuses, at any later time; only a finding recorded as NEW
\* may be listed as regressed once some scan has resolved it.
ComparisonAgrees ==
    \A s \in Scans :
        LET p == previous[s]
            Recorded(code) == {f \in Fingerprints : history[s][f] = code}
        IN  Committed(s) /\ parent[s] = NoScan /\ p # NoScan /\ status[p] = "REPORT_READY"
              => LET diff == compare_scans(p, s) IN
                 /\ diff.persistent = Recorded("PERSISTENT")
                 /\ diff.resolved = Recorded("RESOLVED")
                 /\ Recorded("REGRESSED") \subseteq diff.regressed
                 /\ diff.new \subseteq Recorded("NEW")

-----------------------------------------------------------------------------
(* What the documents say and the code does not do (violation run).        *)

\* lifecycle_finding.py: "previous present, current absent-> RESOLVED", the
\* previous scan being "the immediately preceding completed scan".  A scan that
\* was cancelled or rejected has completed_at too, and becomes the base.
AbsentIsResolved ==
    \A s, p \in Scans :
        /\ Committed(s) /\ parent[s] = NoScan
        /\ status[p] = "REPORT_READY" /\ Follows(p, s)
        => \A f \in findings[p] \ findings[s] : history[s][f] = "RESOLVED"
=============================================================================
