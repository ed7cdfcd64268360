----------------------------- MODULE ScanStates -----------------------------
(***************************************************************************)
(* The status codes of a scan (config/constants.py) and the edges that     *)
(* domain/scans/lifecycle.py allows between them.  The service never calls *)
(* can_transition: it moves rows with conditional UPDATEs, and that those  *)
(* stay on these edges is checked and proved, not assumed.                 *)
(***************************************************************************)

\* The ten rows of the scan_status lookup table.
Statuses ==
    {"PENDING_ATTESTATION", "QUEUED", "RUNNING", "PARTIALLY_COMPLETE",
     "SCAN_COMPLETE", "AI_ANALYSIS", "REPORT_READY", "REPORT_READY_DEGRADED",
     "REJECTED", "CANCELLED"}

\* A scan row that no committed transaction has inserted.
Absent == "ABSENT"

\* _ALLOWED_TRANSITIONS as a set of edges.
AllowedTransitions ==
    ({"PENDING_ATTESTATION"} \X {"QUEUED", "REJECTED", "CANCELLED"})
        \cup ({"QUEUED"} \X {"RUNNING", "REJECTED", "CANCELLED"})
        \cup ({"RUNNING"} \X {"SCAN_COMPLETE", "PARTIALLY_COMPLETE", "REJECTED"})
        \cup ({"SCAN_COMPLETE", "PARTIALLY_COMPLETE"} \X {"AI_ANALYSIS"})
        \cup ({"AI_ANALYSIS"} \X {"REPORT_READY", "REPORT_READY_DEGRADED"})

can_transition(current, target) == <<current, target>> \in AllowedTransitions

TerminalStates ==
    {"REPORT_READY", "REPORT_READY_DEGRADED", "REJECTED", "CANCELLED"}

is_terminal(code) == code \in TerminalStates
=============================================================================
