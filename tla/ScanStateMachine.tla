-------------------------- MODULE ScanStateMachine --------------------------
(***************************************************************************)
(* What a reader of the scan table is promised.  Each scan moves on its    *)
(* own along the edges of lifecycle.py, its engine starts exactly when it  *)
(* becomes RUNNING, and it starts once.  ExtraEdges are edges beyond       *)
(* lifecycle.py's: ScanLifecycle needs one of them.                        *)
(***************************************************************************)
EXTENDS ScanStates

CONSTANTS Scans, ExtraEdges

VARIABLES status,   \* committed status of each scan, or Absent
          engaged   \* whether an engine execution exists for the scan

vars == <<status, engaged>>

Edge(from, to) == can_transition(from, to) \/ <<from, to>> \in ExtraEdges

\* The edges one transaction may take together: a success commits
\* SCAN_COMPLETE and AI_ANALYSIS at once, so no reader sees the former.
Passes(from, to) ==
    \/ Edge(from, to)
    \/ \E mid \in Statuses \ {"RUNNING"} : Edge(from, mid) /\ Edge(mid, to)

Init ==
    /\ status = [s \in Scans |-> Absent]
    /\ engaged = [s \in Scans |-> FALSE]

Create(s) ==
    /\ status[s] = Absent
    /\ status' = [status EXCEPT ![s] = "QUEUED"]
    /\ UNCHANGED engaged

Start(s) ==
    /\ Edge(status[s], "RUNNING")
    /\ ~engaged[s]
    /\ status' = [status EXCEPT ![s] = "RUNNING"]
    /\ engaged' = [engaged EXCEPT ![s] = TRUE]

Advance(s) ==
    /\ \E to \in Statuses \ {"RUNNING"} :
          /\ Passes(status[s], to)
          /\ status' = [status EXCEPT ![s] = to]
    /\ UNCHANGED engaged

Next == \E s \in Scans : Create(s) \/ Start(s) \/ Advance(s)

Spec == Init /\ [][Next]_vars
=============================================================================
