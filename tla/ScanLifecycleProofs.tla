------------------------ MODULE ScanLifecycleProofs ------------------------
(***************************************************************************)
(* Proofs, for every set of scans and workers and every bound, that the    *)
(* scan lifecycle runs each scan's engine at most once, that a scan's      *)
(* status tells the truth about its rows, that a scan whose authorization  *)
(* is gone never runs, and that the committed rows implement               *)
(* ScanStateMachine.                                                       *)
(***************************************************************************)
EXTENDS ScanLifecycle, SequenceTheorems, TLAPS

-----------------------------------------------------------------------------
(* Execution rows under INSERT and under UPDATE by id.                     *)

\* Every operand of NewExecution in the module makes a well-formed row.
LEMMA NewExecutionType ==
    ASSUME NEW tool \in {"engine", "unknown", "worker-unknown"},
           NEW outcome \in {"RUNNING", "SUCCEEDED", "FAILED"}
    PROVE  NewExecution(tool, outcome) \in Execution
  BY DEF NewExecution, Execution

\* Inserting an execution row (ScanEngineExecutionRepository.create) leaves
\* the existing rows alone and adds an engine row only if it is one.
LEMMA InsertRow ==
    ASSUME TypeOK, NEW s \in Scans, NEW e \in Execution, AddExecution(s, e)
    PROVE  /\ executions' \in [Scans -> Seq(Execution)]
           /\ \A t \in Scans \ {s} : executions'[t] = executions[t]
           /\ \A t \in Scans \ {s} : EngineRows(t)' = EngineRows(t)
           /\ DOMAIN executions[s] = 1..Len(executions[s])
           /\ DOMAIN executions'[s] = 1..(Len(executions[s]) + 1)
           /\ \A i \in DOMAIN executions[s] : executions'[s][i] = executions[s][i]
           /\ executions'[s][Len(executions[s]) + 1] = e
           /\ e.tool # "engine" => EngineRows(s)' = EngineRows(s)
           /\ e.tool = "engine" =>
                 EngineRows(s)' = EngineRows(s) \cup {Len(executions[s]) + 1}
           /\ Len(executions[s]) \in Nat
  <1> DEFINE old == executions[s]
             new == Append(old, e)
  <1>1. old \in Seq(Execution) /\ Len(old) \in Nat
    BY DEF TypeOK, RowTypes
  <1>2. /\ new \in Seq(Execution)
        /\ Len(new) = Len(old) + 1
        /\ \A i \in 1..Len(old) : new[i] = old[i]
        /\ new[Len(old) + 1] = e
    BY <1>1, AppendProperties
  <1>3. /\ executions' = [executions EXCEPT ![s] = new]
        /\ executions' \in [Scans -> Seq(Execution)]
        /\ executions'[s] = new
    BY <1>2 DEF AddExecution, TypeOK, RowTypes
  <1>4. DOMAIN old = 1..Len(old) /\ DOMAIN new = 1..(Len(old) + 1)
    BY <1>1, <1>2
  <1>5. \A t \in Scans \ {s} : executions'[t] = executions[t]
    BY <1>3 DEF TypeOK, RowTypes
  <1>6. \A t \in Scans \ {s} : EngineRows(t)' = EngineRows(t)
    BY <1>5 DEF EngineRows
  <1>7. EngineRows(s)' = {i \in 1..(Len(old) + 1) : new[i].tool = "engine"}
    BY <1>3, <1>4 DEF EngineRows
  <1>8. EngineRows(s) = {i \in 1..Len(old) : old[i].tool = "engine"}
    BY <1>4 DEF EngineRows
  <1>9. 1..(Len(old) + 1) = 1..Len(old) \cup {Len(old) + 1}
    BY <1>1
  <1>10. e.tool # "engine" => EngineRows(s)' = EngineRows(s)
    BY <1>2, <1>7, <1>8, <1>9
  <1>11. e.tool = "engine" => EngineRows(s)' = EngineRows(s) \cup {Len(old) + 1}
    BY <1>2, <1>7, <1>8, <1>9
  <1> QED
    BY <1>1, <1>2, <1>3, <1>4, <1>5, <1>6, <1>10, <1>11

\* Updating the row a driving worker created (mark, upsert_ai_assessment)
\* changes that row only, and no row becomes or stops being an engine row.
LEMMA UpdateRow ==
    ASSUME IndInv, NEW w \in Workers, stage[w] \in Driving,
           NEW e \in Execution, e.tool = Own(w).tool, UpdateOwn(w, e)
    PROVE  /\ job[w] \in Scans
           /\ row[w] \in EngineRows(job[w])
           /\ Own(w) \in Execution
           /\ Own(w).tool = "engine"
           /\ executions' \in [Scans -> Seq(Execution)]
           /\ \A t \in Scans \ {job[w]} : executions'[t] = executions[t]
           /\ \A t \in Scans : EngineRows(t)' = EngineRows(t)
           /\ \A t \in Scans : DOMAIN executions'[t] = DOMAIN executions[t]
           /\ \A i \in DOMAIN executions[job[w]] \ {row[w]} :
                 executions'[job[w]][i] = executions[job[w]][i]
           /\ executions'[job[w]][row[w]] = e
  <1>0. PICK s \in Scans : s = job[w]
    BY DEF IndInv, TypeOK, WorkerTypes, JobsAndLocks, Driving
  <1> DEFINE old == executions[s]
             new == [old EXCEPT ![row[w]] = e]
  <1>1. row[w] \in EngineRows(s)
    BY <1>0 DEF IndInv, DriversOwnTheirRow, OwnsItsRow
  <1>2. old \in Seq(Execution) /\ Len(old) \in Nat /\ DOMAIN old = 1..Len(old)
    BY DEF IndInv, TypeOK, RowTypes
  <1>3. row[w] \in 1..Len(old) /\ old[row[w]].tool = "engine" /\ old[row[w]] \in Execution
    BY <1>1, <1>2 DEF EngineRows
  <1>4. /\ new \in Seq(Execution)
        /\ Len(new) = Len(old)
        /\ \A i \in 1..Len(old) : new[i] = IF i = row[w] THEN e ELSE old[i]
    BY <1>2, <1>3, ExceptSeq
  <1>5. /\ executions' = [executions EXCEPT ![s] = new]
        /\ executions' \in [Scans -> Seq(Execution)]
        /\ executions'[s] = new
    BY <1>0, <1>4 DEF UpdateOwn, IndInv, TypeOK, RowTypes
  <1>6. \A t \in Scans \ {s} : executions'[t] = executions[t]
    BY <1>5 DEF IndInv, TypeOK, RowTypes
  <1>7. DOMAIN new = 1..Len(old)
    BY <1>4
  <1>8. EngineRows(s)' = EngineRows(s)
    BY <1>0, <1>2, <1>3, <1>4, <1>5, <1>7 DEF EngineRows, Own
  <1>9. \A t \in Scans \ {s} : EngineRows(t)' = EngineRows(t)
    BY <1>6 DEF EngineRows
  <1>10. e = executions'[s][row[w]]
    BY <1>3, <1>4, <1>5
  <1>11. \A t \in Scans : DOMAIN executions'[t] = DOMAIN executions[t]
    BY <1>2, <1>5, <1>6, <1>7
  <1>12. \A i \in DOMAIN old \ {row[w]} : executions'[s][i] = old[i]
    BY <1>2, <1>4, <1>5
  <1> QED
    BY <1>0, <1>1, <1>3, <1>5, <1>6, <1>8, <1>9, <1>10, <1>11, <1>12 DEF Own

-----------------------------------------------------------------------------
(* Steps that leave the scan table and the execution rows alone.           *)

\* Requests, attestations, the broker and the read half of a cancellation.
LEMMA OutsideStep ==
    ASSUME IndInv, TypeOK', UNCHANGED <<scanVars, rowLock, workerVars>>,
           \A s \in Scans : request'[s] # "committed" => request[s] # "committed"
    PROVE  IndInv'
  <1>1. \A s \in Scans : EngineRows(s)' = EngineRows(s)
    BY DEF EngineRows, scanVars
  <1>2. JobsAndLocks'
    BY DEF IndInv, JobsAndLocks, scanVars, workerVars
  <1>3. RowsAndRequests'
    BY <1>1 DEF IndInv, RowsAndRequests, scanVars
  <1>4. DriversOwnTheirRow'
    BY <1>1 DEF IndInv, DriversOwnTheirRow, OwnsItsRow, TypeOK, WorkerTypes, JobsAndLocks, EngineRows,
                Own, Driving, scanVars, workerVars
  <1>5. AtMostOneEngineRun'
    BY <1>1 DEF IndInv, AtMostOneEngineRun, workerVars
  <1>6. TruthfulStatus'
    BY <1>1 DEF IndInv, TruthfulStatus, TellsTheTruth, scanVars
  <1> QED
    BY <1>2, <1>3, <1>4, <1>5, <1>6 DEF IndInv

\* A worker changes its stage or its lock, but takes no engine run over.
LEMMA WorkerMoves ==
    ASSUME IndInv, TypeOK', JobsAndLocks', UNCHANGED <<scanVars, request>>,
           \A w \in Workers : stage'[w] \in Driving =>
              /\ job'[w] = job[w] /\ row'[w] = row[w]
              /\ stage'[w] \in {"pipeline", "persist"} =>
                    stage[w] \in {"pipeline", "persist"}
              /\ stage'[w] = "ai" => stage[w] = "ai"
    PROVE  IndInv'
  <1>1. \A s \in Scans : EngineRows(s)' = EngineRows(s)
    BY DEF EngineRows, scanVars
  <1>2. RowsAndRequests'
    BY <1>1 DEF IndInv, RowsAndRequests, scanVars
  <1>3. DriversOwnTheirRow'
    <2> SUFFICES ASSUME NEW w \in Workers, stage'[w] \in Driving
                 PROVE  /\ row'[w] \in EngineRows(job[w])'
                        /\ stage'[w] \in {"pipeline", "persist"} =>
                              /\ status'[job'[w]] \in {"RUNNING", "REJECTED"}
                              /\ Own(w)'.status = "RUNNING"
                        /\ stage'[w] = "ai" =>
                              /\ status'[job'[w]] \in {"AI_ANALYSIS", "REJECTED", "CANCELLED"}
                              /\ Own(w)'.status = "SUCCEEDED" /\ Own(w)'.findings
      BY DEF DriversOwnTheirRow, OwnsItsRow, Driving
    <2>1. PICK s \in Scans : s = job[w]
      BY DEF IndInv, TypeOK, WorkerTypes, JobsAndLocks, Driving
    <2>2. job'[w] = s /\ row'[w] = row[w] /\ stage[w] \in Driving
      BY <2>1 DEF Driving
    <2>3. EngineRows(job[w])' = EngineRows(s)
      BY <1>1, <2>1, <2>2 DEF EngineRows, scanVars
    <2>4. Own(w)' = Own(w)
      BY <2>1, <2>2 DEF Own, scanVars
    <2> QED
      BY <2>1, <2>2, <2>3, <2>4 DEF IndInv, DriversOwnTheirRow, OwnsItsRow, Driving, scanVars
  <1>4. AtMostOneEngineRun'
    BY <1>1 DEF IndInv, AtMostOneEngineRun, Driving
  <1>5. TruthfulStatus'
    BY <1>1 DEF IndInv, TruthfulStatus, TellsTheTruth, scanVars
  <1> QED
    BY <1>2, <1>3, <1>4, <1>5 DEF IndInv

\* Attestations are created, revoked and expire; the target is (un)archived.
LEMMA TargetSteps ==
    ASSUME IndInv,
           \/ \E a \in Attestations :
                 create_self_attestation(a) \/ revoke(a) \/ Expire(a)
           \/ \E flag \in BOOLEAN : set_archived(flag)
    PROVE  IndInv'
  <1> USE DEF create_self_attestation, revoke, Expire, set_archived
  <1>1. UNCHANGED <<scanVars, rowLock, workerVars, request>>
    OBVIOUS
  <1>2. RequestTypes'
    BY DEF IndInv, TypeOK, RequestTypes, AttestationStates, brokerVars
  <1>3. RowTypes' /\ WorkerTypes'
    BY <1>1 DEF IndInv, TypeOK, RowTypes, WorkerTypes, scanVars, workerVars
  <1> QED
    BY <1>1, <1>2, <1>3, OutsideStep DEF TypeOK

\* A scan request up to its COMMIT, and the request that rolls back.
LEMMA UncommittedRequestSteps ==
    ASSUME IndInv, NEW s \in Scans,
           InsertQueued(s) \/ enqueue_scan(s) \/ RollbackRequest(s)
    PROVE  IndInv'
  <1>1. UNCHANGED <<scanVars, rowLock, workerVars>>
    BY DEF InsertQueued, enqueue_scan, RollbackRequest
  <1>2. RequestTypes'
    <2>1. CASE InsertQueued(s)
      BY <2>1 DEF IndInv, TypeOK, RequestTypes, InsertQueued, RequestStates, brokerVars
    <2>2. CASE enqueue_scan(s)
      BY <2>2 DEF IndInv, TypeOK, RequestTypes, enqueue_scan, RequestStates
    <2>3. CASE RollbackRequest(s)
      BY <2>3 DEF IndInv, TypeOK, RequestTypes, RollbackRequest, RequestStates, brokerVars
    <2> QED
      BY <2>1, <2>2, <2>3
  <1>3. RowTypes' /\ WorkerTypes'
    BY <1>1 DEF IndInv, TypeOK, RowTypes, WorkerTypes, scanVars, workerVars
  <1>4. \A t \in Scans : request'[t] # "committed" => request[t] # "committed"
    BY DEF IndInv, TypeOK, RequestTypes, InsertQueued, enqueue_scan, RollbackRequest
  <1> QED
    BY <1>1, <1>2, <1>3, <1>4, OutsideStep DEF TypeOK

\* A cancellation reads; the broker redelivers or delivers too early.
LEMMA ReadAndBrokerSteps ==
    ASSUME IndInv, NEW s \in Scans,
           CancelRead(s) \/ Redeliver(s) \/ \E w \in Workers : StartWithoutRow(w, s)
    PROVE  IndInv'
  <1>1. UNCHANGED <<scanVars, rowLock, workerVars, apiVars>>
    BY DEF CancelRead, Redeliver, StartWithoutRow
  <1>2. RequestTypes'
    <2>1. CASE CancelRead(s)
      BY <2>1 DEF IndInv, TypeOK, RequestTypes, RowTypes, CancelRead, apiVars, brokerVars
    <2>2. CASE Redeliver(s)
      BY <2>2 DEF IndInv, TypeOK, RequestTypes, Redeliver, apiVars
    <2>3. CASE \E w \in Workers : StartWithoutRow(w, s)
      BY <2>3 DEF IndInv, TypeOK, RequestTypes, StartWithoutRow, Dequeue, apiVars
    <2> QED
      BY <2>1, <2>2, <2>3
  <1>3. RowTypes' /\ WorkerTypes'
    BY <1>1 DEF IndInv, TypeOK, RowTypes, WorkerTypes, scanVars, workerVars
  <1> QED
    BY <1>1, <1>2, <1>3, OutsideStep DEF TypeOK, apiVars

\* A worker takes a task up, normally or to fail at once.
LEMMA StartSteps ==
    ASSUME IndInv, NEW w \in Workers, NEW s \in Scans,
           StartJob(w, s) \/ StartRaises(w, s)
    PROVE  IndInv'
  <1>0. /\ WorkerTypes /\ JobsAndLocks /\ stage[w] = "idle"
        /\ \E next \in {"claim", "rejectRunning"} : stage' = [stage EXCEPT ![w] = next]
        /\ job' = [job EXCEPT ![w] = s]
        /\ UNCHANGED <<row, rowLock, status>>
    BY DEF IndInv, TypeOK, scanVars, StartJob, StartRaises, Dequeue, Goto
  <1>1. TypeOK'
    <2>1. RequestTypes'
      BY DEF IndInv, TypeOK, RequestTypes, apiVars,
             StartJob, StartRaises, Dequeue, Goto
    <2>2. RowTypes'
      BY DEF IndInv, TypeOK, RowTypes, scanVars,
             StartJob, StartRaises, Dequeue, Goto
    <2>3. WorkerTypes'
      BY <1>0 DEF WorkerTypes, Stages
    <2> QED
      BY <2>1, <2>2, <2>3 DEF TypeOK
  <1>2. JobsAndLocks'
    <2>1. \A v \in Workers : stage'[v] = "idle" <=> job'[v] = NoScan
      BY <1>0, ConstantsAssumption DEF WorkerTypes, JobsAndLocks
    <2>2. \A v \in Workers : stage'[v] \in {"recheck", "begin"} =>
              rowLock'[job'[v]] = v /\ status'[job'[v]] = "QUEUED"
      BY <1>0, ConstantsAssumption DEF WorkerTypes, JobsAndLocks
    <2>3. \A t \in Scans : \A v \in Workers : rowLock'[t] = v =>
              job'[v] = t /\ stage'[v] \in {"recheck", "begin"}
      BY <1>0, ConstantsAssumption DEF WorkerTypes, JobsAndLocks
    <2> QED
      BY <2>1, <2>2, <2>3 DEF JobsAndLocks
  <1>3. \A v \in Workers : stage'[v] \in Driving =>
            job'[v] = job[v] /\ row'[v] = row[v] /\ stage'[v] = stage[v]
    BY <1>0 DEF WorkerTypes, Driving
  <1> QED
    BY <1>1, <1>2, <1>3, WorkerMoves DEF apiVars, StartJob, StartRaises, Dequeue, Goto

\* The claim: won under the row lock, or lost.
LEMMA ClaimStep ==
    ASSUME IndInv, NEW w \in Workers, Claim(w)
    PROVE  IndInv'
  <1>0. /\ WorkerTypes /\ JobsAndLocks /\ stage[w] = "claim" /\ job[w] \in Scans
        /\ \/ /\ status[job[w]] = "QUEUED" /\ rowLock[job[w]] = NoWorker
              /\ rowLock' = [rowLock EXCEPT ![job[w]] = w]
              /\ stage' = [stage EXCEPT ![w] = "recheck"]
              /\ UNCHANGED <<job, row>>
           \/ /\ stage' = [stage EXCEPT ![w] = "idle"]
              /\ job' = [job EXCEPT ![w] = NoScan]
              /\ row' = [row EXCEPT ![w] = 0]
              /\ UNCHANGED rowLock
        /\ UNCHANGED <<status>>
    BY DEF IndInv, TypeOK, WorkerTypes, JobsAndLocks, NotBlocked, scanVars, Claim, Goto, Finish
  <1>1. TypeOK'
    <2>1. RequestTypes'
      BY DEF IndInv, TypeOK, RequestTypes, apiVars, brokerVars,
             Claim, Goto, Finish
    <2>2. RowTypes'
      BY DEF IndInv, TypeOK, RowTypes, scanVars,
             Claim, Goto, Finish
    <2>3. WorkerTypes'
      BY <1>0 DEF WorkerTypes, Stages
    <2> QED
      BY <2>1, <2>2, <2>3 DEF TypeOK
  <1>2. JobsAndLocks'
    <2>1. \A v \in Workers : stage'[v] = "idle" <=> job'[v] = NoScan
      BY <1>0, ConstantsAssumption DEF WorkerTypes, JobsAndLocks
    <2>2. \A v \in Workers : stage'[v] \in {"recheck", "begin"} =>
              rowLock'[job'[v]] = v /\ status'[job'[v]] = "QUEUED"
      BY <1>0, ConstantsAssumption DEF WorkerTypes, JobsAndLocks
    <2>3. \A t \in Scans : \A v \in Workers : rowLock'[t] = v =>
              job'[v] = t /\ stage'[v] \in {"recheck", "begin"}
      BY <1>0, ConstantsAssumption DEF WorkerTypes, JobsAndLocks
    <2> QED
      BY <2>1, <2>2, <2>3 DEF JobsAndLocks
  <1>3. \A v \in Workers : stage'[v] \in Driving =>
            job'[v] = job[v] /\ row'[v] = row[v] /\ stage'[v] = stage[v]
    BY <1>0 DEF WorkerTypes, Driving
  <1> QED
    BY <1>1, <1>2, <1>3, WorkerMoves DEF apiVars, Claim, Goto, Finish

\* The attestation is still active; the pipeline returns a result; the
\* last-resort handler goes on to its second UPDATE.
LEMMA ProgressSteps ==
    ASSUME IndInv, NEW w \in Workers,
           RecheckPasses(w) \/ PipelineSucceeds(w) \/ RejectNotRunning(w)
    PROVE  IndInv'
  <1>0. /\ WorkerTypes /\ JobsAndLocks
        /\ \/ stage[w] = "recheck" /\ stage' = [stage EXCEPT ![w] = "begin"]
           \/ stage[w] = "pipeline" /\ stage' = [stage EXCEPT ![w] = "persist"]
           \/ stage[w] = "rejectRunning" /\ stage' = [stage EXCEPT ![w] = "rejectQueued"]
        /\ UNCHANGED <<job, row, rowLock, status>>
    BY DEF IndInv, TypeOK, scanVars, RecheckPasses, PipelineSucceeds, RejectNotRunning, Goto
  <1>1. TypeOK'
    <2>1. RequestTypes'
      BY DEF IndInv, TypeOK, RequestTypes, apiVars, brokerVars,
             RecheckPasses, PipelineSucceeds, RejectNotRunning, Goto
    <2>2. RowTypes'
      BY DEF IndInv, TypeOK, RowTypes, scanVars,
             RecheckPasses, PipelineSucceeds, RejectNotRunning, Goto
    <2>3. WorkerTypes'
      BY <1>0 DEF WorkerTypes, Stages
    <2> QED
      BY <2>1, <2>2, <2>3 DEF TypeOK
  <1>2. JobsAndLocks'
    <2>1. \A v \in Workers : stage'[v] = "idle" <=> job'[v] = NoScan
      BY <1>0, ConstantsAssumption DEF WorkerTypes, JobsAndLocks
    <2>2. \A v \in Workers : stage'[v] \in {"recheck", "begin"} =>
              rowLock'[job'[v]] = v /\ status'[job'[v]] = "QUEUED"
      BY <1>0, ConstantsAssumption DEF WorkerTypes, JobsAndLocks
    <2>3. \A t \in Scans : \A v \in Workers : rowLock'[t] = v =>
              job'[v] = t /\ stage'[v] \in {"recheck", "begin"}
      BY <1>0, ConstantsAssumption DEF WorkerTypes, JobsAndLocks
    <2> QED
      BY <2>1, <2>2, <2>3 DEF JobsAndLocks
  <1>3. \A v \in Workers : stage'[v] \in Driving =>
            /\ job'[v] = job[v] /\ row'[v] = row[v]
            /\ \/ stage'[v] = stage[v]
               \/ stage'[v] = "persist" /\ stage[v] = "pipeline"
    BY <1>0 DEF WorkerTypes, Driving
  <1> QED
    BY <1>1, <1>2, <1>3, WorkerMoves DEF apiVars, RecheckPasses, PipelineSucceeds, RejectNotRunning, Goto

\* An exception or a lost worker rolls an open claim back; the last-resort
\* handler finds nothing to reject.
LEMMA AbandonSteps ==
    ASSUME IndInv, NEW w \in Workers,
           JobRaises(w) \/ WorkerLost(w) \/ RejectAbsent(w) \/ RejectNothing(w)
    PROVE  IndInv'
  <1>0. /\ WorkerTypes /\ JobsAndLocks /\ stage[w] # "idle"
        /\ \/ rowLock' = [s \in Scans |-> IF rowLock[s] = w THEN NoWorker ELSE rowLock[s]]
           \/ stage[w] \notin {"recheck", "begin"} /\ UNCHANGED rowLock
        /\ \/ /\ stage' = [stage EXCEPT ![w] = "rejectRunning"]
              /\ UNCHANGED <<job, row>>
           \/ /\ stage' = [stage EXCEPT ![w] = "idle"]
              /\ job' = [job EXCEPT ![w] = NoScan]
              /\ row' = [row EXCEPT ![w] = 0]
        /\ UNCHANGED <<status>>
    BY DEF IndInv, TypeOK, scanVars, JobRaises, WorkerLost, RejectAbsent, RejectNothing, Goto, Finish, ReleaseLocks
  <1>1. TypeOK'
    <2>1. RequestTypes'
      BY DEF IndInv, TypeOK, RequestTypes, apiVars, brokerVars,
             JobRaises, WorkerLost, RejectAbsent, RejectNothing, Goto, Finish, ReleaseLocks
    <2>2. RowTypes'
      BY DEF IndInv, TypeOK, RowTypes, scanVars,
             JobRaises, WorkerLost, RejectAbsent, RejectNothing, Goto, Finish, ReleaseLocks
    <2>3. WorkerTypes'
      BY <1>0 DEF WorkerTypes, Stages
    <2> QED
      BY <2>1, <2>2, <2>3 DEF TypeOK
  <1>2. JobsAndLocks'
    <2>1. \A v \in Workers : stage'[v] = "idle" <=> job'[v] = NoScan
      BY <1>0, ConstantsAssumption DEF WorkerTypes, JobsAndLocks
    <2>2. \A v \in Workers : stage'[v] \in {"recheck", "begin"} =>
              rowLock'[job'[v]] = v /\ status'[job'[v]] = "QUEUED"
      BY <1>0, ConstantsAssumption DEF WorkerTypes, JobsAndLocks
    <2>3. \A t \in Scans : \A v \in Workers : rowLock'[t] = v =>
              job'[v] = t /\ stage'[v] \in {"recheck", "begin"}
      BY <1>0, ConstantsAssumption DEF WorkerTypes, JobsAndLocks
    <2> QED
      BY <2>1, <2>2, <2>3 DEF JobsAndLocks
  <1>3. \A v \in Workers : stage'[v] \in Driving =>
            job'[v] = job[v] /\ row'[v] = row[v] /\ stage'[v] = stage[v]
    BY <1>0 DEF WorkerTypes, Driving
  <1> QED
    BY <1>1, <1>2, <1>3, WorkerMoves DEF apiVars, JobRaises, WorkerLost, RejectAbsent, RejectNothing, Goto, Finish, ReleaseLocks

-----------------------------------------------------------------------------
(* How a step looks to a reader of the scan table.                         *)

MachineStep == [Machine!Next]_(Machine!vars)

\* Steps that change neither status nor execution rows are not seen.
LEMMA UnseenStep ==
    ASSUME UNCHANGED status, \A t \in Scans : EngineRows(t)' = EngineRows(t)
    PROVE  MachineStep
  BY DEF MachineStep, Machine!vars

\* A transition along an edge, or along two, or an UPDATE that finds nothing.
LEMMA SeenAdvance ==
    ASSUME TypeOK, NEW s \in Scans, NEW to \in Statuses \ {"RUNNING"},
           status' = [status EXCEPT ![s] = to],
           \A t \in Scans : EngineRows(t)' = EngineRows(t),
           status[s] = to \/ Machine!Passes(status[s], to)
    PROVE  MachineStep
  <1>1. CASE status[s] = to
    <2>1. UNCHANGED status
      BY <1>1 DEF TypeOK, RowTypes
    <2> QED
      BY <2>1, UnseenStep
  <1>2. CASE Machine!Passes(status[s], to)
    <2>1. [t \in Scans |-> EngineRows(t) # {}]' = [t \in Scans |-> EngineRows(t) # {}]
      OBVIOUS
    <2>2. to \in Machine!Statuses \ {"RUNNING"}
      BY DEF Machine!Statuses, Statuses
    <2>3. Machine!Advance(s)
      BY <1>2, <2>1, <2>2 DEF Machine!Advance
    <2> QED
      BY <2>3 DEF MachineStep, Machine!Next
  <1> QED
    BY <1>1, <1>2

\* The edges the service's UPDATEs take.
LEMMA ServiceEdges ==
    /\ Machine!Passes("QUEUED", "REJECTED") /\ Machine!Passes("RUNNING", "REJECTED")
    /\ Machine!Passes("RUNNING", "AI_ANALYSIS")
    /\ Machine!Passes("AI_ANALYSIS", "REPORT_READY")
    /\ Machine!Passes("AI_ANALYSIS", "REPORT_READY_DEGRADED")
    /\ Machine!Passes("QUEUED", "CANCELLED") /\ Machine!Passes("AI_ANALYSIS", "CANCELLED")
    /\ Machine!Passes("PENDING_ATTESTATION", "CANCELLED")
    /\ Machine!Edge("QUEUED", "RUNNING")
  <1>1. /\ Machine!Edge("QUEUED", "REJECTED") /\ Machine!Edge("RUNNING", "REJECTED")
        /\ Machine!Edge("RUNNING", "SCAN_COMPLETE")
        /\ Machine!Edge("SCAN_COMPLETE", "AI_ANALYSIS")
        /\ Machine!Edge("AI_ANALYSIS", "REPORT_READY")
        /\ Machine!Edge("AI_ANALYSIS", "REPORT_READY_DEGRADED")
        /\ Machine!Edge("QUEUED", "CANCELLED") /\ Machine!Edge("AI_ANALYSIS", "CANCELLED")
        /\ Machine!Edge("PENDING_ATTESTATION", "CANCELLED")
        /\ Machine!Edge("QUEUED", "RUNNING")
    BY DEF Machine!Edge, Machine!can_transition, Machine!AllowedTransitions
  <1>2. "SCAN_COMPLETE" \in Machine!Statuses \ {"RUNNING"}
    BY DEF Machine!Statuses
  <1> QED
    BY <1>1, <1>2 DEF Machine!Passes

-----------------------------------------------------------------------------
(* Steps that change the scan table.                                       *)

\* A scan whose columns and rows a step leaves alone keeps telling the truth.
LEMMA OthersTruthful ==
    ASSUME IndInv, NEW s \in Scans,
           \A t \in Scans \ {s} :
              /\ status'[t] = status[t] /\ completed'[t] = completed[t]
              /\ started'[t] = started[t] /\ executions'[t] = executions[t]
              /\ audit'[t] = audit[t]
    PROVE  /\ \A t \in Scans \ {s} : TellsTheTruth(t)'
           /\ \A t \in Scans \ {s} : EngineRows(t)' = EngineRows(t)
  <1>1. \A t \in Scans \ {s} : EngineRows(t)' = EngineRows(t)
    BY DEF EngineRows
  <1> QED
    BY <1>1 DEF IndInv, TruthfulStatus, TellsTheTruth

\* What is left to show of a step that worker w takes on its scan s.
LEMMA TableStep ==
    ASSUME IndInv, TypeOK', JobsAndLocks', UNCHANGED request,
           NEW s \in Scans, NEW w \in Workers, job[w] = s, job'[w] \in {s, NoScan},
           \A t \in Scans \ {s} :
              /\ status'[t] = status[t] /\ completed'[t] = completed[t]
              /\ started'[t] = started[t] /\ executions'[t] = executions[t]
              /\ audit'[t] = audit[t],
           \A v \in Workers \ {w} :
              stage'[v] = stage[v] /\ job'[v] = job[v] /\ row'[v] = row[v],
           \A v \in Workers : job[v] = s => OwnsItsRow(v)',
           status[s] # Absent,
           status'[s] \notin {Absent, "QUEUED"} \cup NeverCommitted,
           \A i, j \in EngineRows(s)' : i = j,
           stage'[w] \in Driving =>
              \/ stage[w] \in Driving
              \/ \A v \in Workers : job[v] = s => stage[v] \notin Driving,
           TellsTheTruth(s)'
    PROVE  IndInv'
  <1>1. /\ \A t \in Scans \ {s} : TellsTheTruth(t)'
        /\ \A t \in Scans \ {s} : EngineRows(t)' = EngineRows(t)
    BY OthersTruthful
  <1>2. RowsAndRequests'
    BY <1>1 DEF IndInv, RowsAndRequests
  <1>3. DriversOwnTheirRow'
    <2>1. ASSUME NEW v \in Workers, job[v] # s
          PROVE  OwnsItsRow(v)'
      <3>1. CASE stage[v] \notin Driving
        BY <2>1, <3>1 DEF OwnsItsRow, Driving
      <3>2. CASE stage[v] \in Driving
        <4>1. PICK t \in Scans : t = job[v]
          BY <3>2 DEF IndInv, TypeOK, WorkerTypes, JobsAndLocks, Driving
        <4>2. v # w /\ job'[v] = t /\ row'[v] = row[v] /\ stage'[v] = stage[v]
          BY <2>1, <4>1
        <4>3. executions'[t] = executions[t] /\ status'[t] = status[t]
          BY <2>1, <4>1
        <4> QED
          BY <2>1, <4>1, <4>2, <4>3 DEF IndInv, DriversOwnTheirRow, OwnsItsRow, Own, EngineRows
      <3> QED
        BY <3>1, <3>2
    <2> QED
      BY <2>1 DEF DriversOwnTheirRow
  <1>4. AtMostOneEngineRun'
    <2>1. \A t \in Scans : \A i, j \in EngineRows(t)' : i = j
      BY <1>1 DEF IndInv, AtMostOneEngineRun
    <2>2. \A t \in Scans : \A u, v \in Workers :
              job'[u] = t /\ stage'[u] \in Driving /\ job'[v] = t /\ stage'[v] \in Driving
                  => u = v
      BY ConstantsAssumption DEF IndInv, AtMostOneEngineRun
    <2> QED
      BY <2>1, <2>2 DEF AtMostOneEngineRun
  <1>5. TruthfulStatus'
    BY <1>1 DEF TruthfulStatus
  <1> QED
    BY <1>2, <1>3, <1>4, <1>5 DEF IndInv

\* The request's COMMIT makes the QUEUED row visible.
LEMMA CommitRequestStep ==
    ASSUME IndInv, NEW s \in Scans, CommitRequest(s)
    PROVE  IndInv' /\ MachineStep
  <1>0. /\ status[s] = Absent
        /\ status' = [status EXCEPT ![s] = "QUEUED"]
        /\ request' = [request EXCEPT ![s] = "committed"]
        /\ audit' = [audit EXCEPT ![s] = @ \cup {"QUEUED"}]
        /\ UNCHANGED <<started, completed, executions, rowLock, workerVars>>
    BY DEF IndInv, RowsAndRequests, CommitRequest, Record
  <1>1. TypeOK'
    <2>1. RequestTypes'
      BY DEF IndInv, TypeOK, RequestTypes, RequestStates, CommitRequest, brokerVars
    <2>2. RowTypes'
      BY <1>0 DEF IndInv, TypeOK, RowTypes, Statuses, AuditedStates
    <2>3. WorkerTypes'
      BY <1>0 DEF IndInv, TypeOK, WorkerTypes, workerVars
    <2> QED
      BY <2>1, <2>2, <2>3 DEF TypeOK
  <1>2. \A t \in Scans : EngineRows(t)' = EngineRows(t)
    BY <1>0 DEF EngineRows
  <1>3. \A w \in Workers : stage[w] \in Driving => job[w] \in Scans /\ job[w] # s
    BY <1>0 DEF IndInv, TypeOK, WorkerTypes, JobsAndLocks, DriversOwnTheirRow, OwnsItsRow, Driving, Absent
  <1>4. JobsAndLocks'
    BY <1>0 DEF IndInv, TypeOK, RowTypes, WorkerTypes, JobsAndLocks, workerVars, Absent
  <1>5. RowsAndRequests'
    BY <1>0, <1>2 DEF IndInv, TypeOK, RowTypes, RequestTypes, RowsAndRequests, NeverCommitted
  <1>6. DriversOwnTheirRow'
    BY <1>0, <1>3 DEF IndInv, TypeOK, RowTypes, DriversOwnTheirRow, OwnsItsRow, EngineRows,
                      Own, Driving, workerVars
  <1>7. AtMostOneEngineRun'
    BY <1>0, <1>2 DEF IndInv, AtMostOneEngineRun, workerVars
  <1>8. TruthfulStatus'
    BY <1>0, <1>2 DEF IndInv, TypeOK, RowTypes, TruthfulStatus, TellsTheTruth,
                      is_terminal, TerminalStates, Absent
  <1>m. MachineStep
    <2>1. Machine!Create(s)
      BY <1>0, <1>2 DEF Machine!Create, Machine!Absent, Absent
    <2> QED
      BY <2>1 DEF MachineStep, Machine!Next
  <1> QED
    BY <1>m, <1>1, <1>4, <1>5, <1>6, <1>7, <1>8 DEF IndInv

\* A cancellation's conditional UPDATE, whether it matches or not.
LEMMA CancelUpdateStep ==
    ASSUME IndInv, NEW s \in Scans, NEW seen \in Cancellable, CancelUpdate(s, seen)
    PROVE  IndInv' /\ MachineStep
  <1>0. /\ seen \notin {"RUNNING", "REJECTED", "CANCELLED", "REPORT_READY",
                        "REPORT_READY_DEGRADED", Absent}
        /\ status[s] = seen => rowLock[s] = NoWorker
        /\ status' = [status EXCEPT ![s] = IF @ = seen THEN "CANCELLED" ELSE @]
        /\ completed' = [completed EXCEPT ![s] = @ \/ status[s] = seen]
        /\ UNCHANGED <<apiVars, started, executions, audit, rowLock, brokerVars, workerVars>>
    BY DEF IndInv, TypeOK, RowTypes, Cancellable, Statuses, TerminalStates, Absent,
           CancelUpdate, NotBlocked, try_transition, CompletedWith
  <1>1. TypeOK'
    <2>1. RequestTypes'
      BY DEF IndInv, TypeOK, RequestTypes, CancelUpdate, apiVars, brokerVars
    <2>2. RowTypes'
      BY <1>0 DEF IndInv, TypeOK, RowTypes, Statuses
    <2>3. WorkerTypes'
      BY <1>0 DEF IndInv, TypeOK, WorkerTypes, workerVars
    <2> QED
      BY <2>1, <2>2, <2>3 DEF TypeOK
  <1>2. \A t \in Scans : EngineRows(t)' = EngineRows(t)
    BY <1>0 DEF EngineRows
  <1>4. JobsAndLocks'
    BY <1>0, ConstantsAssumption
       DEF IndInv, TypeOK, RowTypes, WorkerTypes, JobsAndLocks, workerVars
  <1>5. RowsAndRequests'
    BY <1>0, <1>2 DEF IndInv, TypeOK, RowTypes, RowsAndRequests, apiVars, Absent, NeverCommitted
  <1>6. DriversOwnTheirRow'
    <2>1. \A w \in Workers : stage[w] \in Driving => job[w] \in Scans
      BY DEF IndInv, TypeOK, WorkerTypes, JobsAndLocks, Driving
    <2> QED
      BY <1>0, <2>1 DEF IndInv, TypeOK, RowTypes, DriversOwnTheirRow, OwnsItsRow, EngineRows,
                        Own, Driving, workerVars
  <1>7. AtMostOneEngineRun'
    BY <1>0, <1>2 DEF IndInv, AtMostOneEngineRun, workerVars
  <1>8. TruthfulStatus'
    <2>0. \A t \in Scans \ {s} :
             /\ status'[t] = status[t] /\ completed'[t] = completed[t]
             /\ started'[t] = started[t] /\ executions'[t] = executions[t]
             /\ audit'[t] = audit[t]
      BY <1>0 DEF IndInv, TypeOK, RowTypes
    <2>1. \A t \in Scans \ {s} : TellsTheTruth(t)'
      BY <2>0, OthersTruthful
    <2>2. CASE status[s] = seen
      <3>1. status'[s] = "CANCELLED" /\ completed'[s]
        BY <1>0, <2>2 DEF IndInv, TypeOK, RowTypes
      <3> QED
        BY <1>0, <1>2, <2>1, <3>1 DEF IndInv, TruthfulStatus, TellsTheTruth,
                                     is_terminal, TerminalStates
    <2>3. CASE status[s] # seen
      <3>1. status'[s] = status[s] /\ completed'[s] = completed[s]
        BY <1>0, <2>3 DEF IndInv, TypeOK, RowTypes
      <3> QED
        BY <1>0, <1>2, <2>1, <3>1 DEF IndInv, TruthfulStatus, TellsTheTruth
    <2> QED
      BY <2>2, <2>3
  <1>m. MachineStep
    <2>1. CASE status[s] = seen
      <3>1. status' = [status EXCEPT ![s] = "CANCELLED"] /\ seen \in {"QUEUED", "AI_ANALYSIS"}
        BY <1>0, <2>1 DEF IndInv, RowsAndRequests, NeverCommitted, Cancellable, Statuses
      <3>2. Machine!Passes(status[s], "CANCELLED") /\ "CANCELLED" \in Statuses \ {"RUNNING"}
        BY <2>1, <3>1, ServiceEdges DEF Statuses
      <3> QED
        BY <1>2, <3>1, <3>2, SeenAdvance DEF IndInv
    <2>2. CASE status[s] # seen
      <3>1. UNCHANGED status
        BY <1>0, <2>2 DEF IndInv, TypeOK, RowTypes
      <3> QED
        BY <1>2, <3>1, UnseenStep
    <2> QED
      BY <2>1, <2>2
  <1> QED
    BY <1>m, <1>1, <1>4, <1>5, <1>6, <1>7, <1>8 DEF IndInv

\* The attestation is no longer active: the scan is rejected inside the claim.
LEMMA RecheckFailsStep ==
    ASSUME IndInv, NEW w \in Workers, RecheckFails(w)
    PROVE  IndInv' /\ MachineStep
  <1>s. PICK s \in Scans : s = job[w]
    BY DEF IndInv, TypeOK, WorkerTypes, JobsAndLocks, RecheckFails
  <1>e. PICK e \in Execution : e = NewExecution("unknown", "FAILED")
    BY NewExecutionType
  <1>0. /\ WorkerTypes /\ RowTypes /\ JobsAndLocks /\ job[w] = s /\ stage[w] = "recheck"
        /\ status[s] = "QUEUED" /\ rowLock[s] = w /\ EngineRows(s) = {}
        /\ status' = [status EXCEPT ![s] = "REJECTED"]
        /\ started' = [started EXCEPT ![s] = TRUE]
        /\ completed' = [completed EXCEPT ![s] = TRUE]
        /\ audit' = [audit EXCEPT ![s] = @ \cup {"REJECTED"}]
        /\ rowLock' = [rowLock EXCEPT ![s] = NoWorker]
        /\ stage' = [stage EXCEPT ![w] = "idle"]
        /\ job' = [job EXCEPT ![w] = NoScan]
        /\ row' = [row EXCEPT ![w] = 0]
        /\ UNCHANGED request
    BY <1>s DEF IndInv, TypeOK, JobsAndLocks, RowsAndRequests, apiVars,
                RecheckFails, Record, Goto, Finish
  <1>1. /\ executions' \in [Scans -> Seq(Execution)]
        /\ \A t \in Scans \ {s} : executions'[t] = executions[t]
        /\ DOMAIN executions'[s] = 1..(Len(executions[s]) + 1)
        /\ executions'[s][Len(executions[s]) + 1] = e
        /\ EngineRows(s)' = {}
        /\ Len(executions[s]) \in Nat
        /\ e.status = "FAILED"
    <2>1. AddExecution(s, e) /\ e.tool # "engine" /\ e.status = "FAILED"
      BY <1>s, <1>e DEF RecheckFails, NewExecution
    <2> QED
      BY <1>0, <2>1, InsertRow DEF IndInv
  <1>2. TypeOK'
    <2>1. RequestTypes'
      BY DEF IndInv, TypeOK, RequestTypes, apiVars, brokerVars, RecheckFails
    <2>2. RowTypes'
      BY <1>0, <1>1 DEF IndInv, TypeOK, RowTypes, Statuses, AuditedStates
    <2>3. WorkerTypes'
      BY <1>0 DEF WorkerTypes, Stages
    <2> QED
      BY <2>1, <2>2, <2>3 DEF TypeOK
  <1>3. JobsAndLocks'
    <2>1. \A v \in Workers : stage'[v] = "idle" <=> job'[v] = NoScan
      BY <1>0, ConstantsAssumption DEF WorkerTypes, JobsAndLocks
    <2>2. \A v \in Workers : stage'[v] \in {"recheck", "begin"} =>
              rowLock'[job'[v]] = v /\ status'[job'[v]] = "QUEUED"
      BY <1>0, ConstantsAssumption DEF WorkerTypes, JobsAndLocks
    <2>3. \A t \in Scans : \A v \in Workers : rowLock'[t] = v =>
              job'[v] = t /\ stage'[v] \in {"recheck", "begin"}
      BY <1>0, ConstantsAssumption DEF WorkerTypes, JobsAndLocks
    <2> QED
      BY <2>1, <2>2, <2>3 DEF JobsAndLocks
  <1>4. \A t \in Scans \ {s} :
             /\ status'[t] = status[t] /\ completed'[t] = completed[t]
             /\ started'[t] = started[t] /\ executions'[t] = executions[t]
             /\ audit'[t] = audit[t]
    BY <1>0, <1>1 DEF RowTypes
  <1>5. /\ job'[w] = NoScan /\ stage'[w] = "idle"
        /\ \A v \in Workers \ {w} :
              stage'[v] = stage[v] /\ job'[v] = job[v] /\ row'[v] = row[v]
    BY <1>0 DEF WorkerTypes
  <1>6. \A v \in Workers : job[v] = s => stage'[v] \notin Driving
    BY <1>0, <1>5 DEF IndInv, DriversOwnTheirRow, OwnsItsRow, Driving
  <1>7. \A v \in Workers : job[v] = s => OwnsItsRow(v)'
    BY <1>6 DEF OwnsItsRow, Driving
  <1>8. TellsTheTruth(s)'
    <2>1. status'[s] = "REJECTED" /\ completed'[s] /\ "REJECTED" \in audit'[s]
      BY <1>0 DEF RowTypes
    <2>2. Len(executions[s]) + 1 \in DOMAIN executions'[s]
      BY <1>1
    <2> QED
      BY <1>1, <2>1, <2>2 DEF TellsTheTruth, is_terminal, TerminalStates
  <1>9. status[s] # Absent /\ status'[s] \notin {Absent, "QUEUED"} \cup NeverCommitted
    BY <1>0 DEF RowTypes, Absent, NeverCommitted
  <1>m. MachineStep
    <2>1. \A t \in Scans : EngineRows(t)' = EngineRows(t)
      BY <1>0, <1>1, <1>4, OthersTruthful
    <2>2. status' = [status EXCEPT ![s] = "REJECTED"] /\ "REJECTED" \in Statuses \ {"RUNNING"}
      BY <1>0 DEF Statuses
    <2>3. status[s] = "REJECTED" \/ Machine!Passes(status[s], "REJECTED")
      BY <1>0, ServiceEdges
    <2> QED
      BY <2>1, <2>2, <2>3, SeenAdvance DEF IndInv
  <1> QED
    BY <1>m, <1>0, <1>1, <1>2, <1>3, <1>4, <1>5, <1>7, <1>8, <1>9, TableStep DEF Absent, Driving

\* The claim commits together with the engine's RUNNING row.
LEMMA BeginStep ==
    ASSUME IndInv, NEW w \in Workers, Begin(w)
    PROVE  IndInv' /\ MachineStep
  <1>s. PICK s \in Scans : s = job[w]
    BY DEF IndInv, TypeOK, WorkerTypes, JobsAndLocks, Begin
  <1>e. PICK e \in Execution : e = NewExecution("engine", "RUNNING")
    BY NewExecutionType
  <1>n. PICK n : n = Len(executions[s]) + 1
    OBVIOUS
  <1>0. /\ WorkerTypes /\ RowTypes /\ JobsAndLocks /\ job[w] = s /\ stage[w] = "begin"
        /\ status[s] = "QUEUED" /\ rowLock[s] = w /\ EngineRows(s) = {} /\ ~completed[s]
        /\ status' = [status EXCEPT ![s] = "RUNNING"]
        /\ started' = [started EXCEPT ![s] = TRUE]
        /\ rowLock' = [rowLock EXCEPT ![s] = NoWorker]
        /\ stage' = [stage EXCEPT ![w] = "pipeline"]
        /\ row' = [row EXCEPT ![w] = n]
        /\ UNCHANGED <<completed, audit, job, request>>
    BY <1>s, <1>n DEF IndInv, TypeOK, JobsAndLocks, RowsAndRequests, TruthfulStatus, TellsTheTruth,
                is_terminal, TerminalStates, apiVars, Begin, Goto
  <1>1. /\ executions' \in [Scans -> Seq(Execution)]
        /\ \A t \in Scans \ {s} : executions'[t] = executions[t]
        /\ executions'[s][n] = e
        /\ EngineRows(s)' = {n}
        /\ n \in Nat
        /\ e.status = "RUNNING"
    <2>1. AddExecution(s, e) /\ e.tool = "engine" /\ e.status = "RUNNING"
      BY <1>s, <1>e DEF Begin, NewExecution
    <2> QED
      BY <1>0, <1>n, <2>1, InsertRow DEF IndInv
  <1>2. TypeOK'
    <2>1. RequestTypes'
      BY DEF IndInv, TypeOK, RequestTypes, apiVars, brokerVars, Begin
    <2>2. RowTypes'
      BY <1>0, <1>1 DEF IndInv, TypeOK, RowTypes, Statuses, AuditedStates
    <2>3. WorkerTypes'
      BY <1>0, <1>1 DEF WorkerTypes, Stages
    <2> QED
      BY <2>1, <2>2, <2>3 DEF TypeOK
  <1>3. JobsAndLocks'
    <2>1. \A v \in Workers : stage'[v] = "idle" <=> job'[v] = NoScan
      BY <1>0, ConstantsAssumption DEF WorkerTypes, JobsAndLocks
    <2>2. \A v \in Workers : stage'[v] \in {"recheck", "begin"} =>
              rowLock'[job'[v]] = v /\ status'[job'[v]] = "QUEUED"
      BY <1>0, ConstantsAssumption DEF WorkerTypes, JobsAndLocks
    <2>3. \A t \in Scans : \A v \in Workers : rowLock'[t] = v =>
              job'[v] = t /\ stage'[v] \in {"recheck", "begin"}
      BY <1>0, ConstantsAssumption DEF WorkerTypes, JobsAndLocks
    <2> QED
      BY <2>1, <2>2, <2>3 DEF JobsAndLocks
  <1>4. \A t \in Scans \ {s} :
             /\ status'[t] = status[t] /\ completed'[t] = completed[t]
             /\ started'[t] = started[t] /\ executions'[t] = executions[t]
             /\ audit'[t] = audit[t]
    BY <1>0, <1>1 DEF RowTypes
  <1>5. /\ job'[w] = s /\ stage'[w] = "pipeline" /\ row'[w] = n /\ status'[s] = "RUNNING"
        /\ \A v \in Workers \ {w} :
              stage'[v] = stage[v] /\ job'[v] = job[v] /\ row'[v] = row[v]
    BY <1>0 DEF WorkerTypes, RowTypes
  <1>6. \A v \in Workers : job[v] = s => stage[v] \notin Driving
    BY <1>0 DEF IndInv, DriversOwnTheirRow, OwnsItsRow
  <1>7. \A v \in Workers : job[v] = s => OwnsItsRow(v)'
    <2>1. OwnsItsRow(w)'
      BY <1>1, <1>5 DEF OwnsItsRow, Own, EngineRows
    <2>2. \A v \in Workers \ {w} : job[v] = s => OwnsItsRow(v)'
      BY <1>5, <1>6 DEF OwnsItsRow, Driving
    <2> QED
      BY <2>1, <2>2
  <1>8. TellsTheTruth(s)'
    <2>1. started'[s] /\ ~completed'[s]
      BY <1>0 DEF RowTypes
    <2> QED
      BY <1>1, <1>5, <2>1 DEF TellsTheTruth, is_terminal, TerminalStates
  <1>9. status[s] # Absent /\ status'[s] \notin {Absent, "QUEUED"} \cup NeverCommitted
    BY <1>0, <1>5 DEF Absent, NeverCommitted
  <1>10. \A i, j \in EngineRows(s)' : i = j
    BY <1>1
  <1>m. MachineStep
    <2>1. \A t \in Scans \ {s} : EngineRows(t)' = EngineRows(t)
      BY <1>1 DEF EngineRows
    <2>2. [t \in Scans |-> EngineRows(t) # {}]'
            = [[t \in Scans |-> EngineRows(t) # {}] EXCEPT ![s] = TRUE]
      BY <1>1, <2>1
    <2>3. Machine!Start(s)
      BY <1>0, <2>2, ServiceEdges DEF Machine!Start
    <2> QED
      BY <2>3 DEF MachineStep, Machine!Next
  <1> QED
    BY <1>m, <1>0, <1>1, <1>2, <1>3, <1>4, <1>5, <1>6, <1>7, <1>8, <1>9, <1>10, TableStep DEF Absent, Driving

\* The pipeline raises: row, audit entry and status in one transaction.
LEMMA PipelineRaisesStep ==
    ASSUME IndInv, NEW w \in Workers, PipelineRaises(w)
    PROVE  IndInv' /\ MachineStep
  <1>s. PICK s \in Scans : s = job[w]
    BY DEF IndInv, TypeOK, WorkerTypes, JobsAndLocks, PipelineRaises
  <1>r. /\ stage[w] = "pipeline" /\ row[w] \in EngineRows(s)
        /\ EngineRows(s) = {row[w]}
        /\ Own(w) = executions[s][row[w]] /\ Own(w) \in Execution
        /\ status[s] \in {"RUNNING", "REJECTED"}
    <2>1. stage[w] = "pipeline" /\ row[w] \in EngineRows(s) /\ Own(w) = executions[s][row[w]]
      BY <1>s DEF IndInv, DriversOwnTheirRow, OwnsItsRow, Own, Driving, PipelineRaises
    <2>2. EngineRows(s) = {row[w]}
      BY <2>1 DEF IndInv, AtMostOneEngineRun
    <2>3. Own(w) \in Execution
      BY <1>s, <2>1 DEF IndInv, TypeOK, RowTypes, EngineRows
    <2> QED
      BY <1>s, <2>1, <2>2, <2>3 DEF IndInv, DriversOwnTheirRow, OwnsItsRow
  <1>e. PICK e \in Execution : e = [Own(w) EXCEPT !.status = "FAILED"]
    BY <1>r DEF Execution
  <1>0. /\ WorkerTypes /\ RowTypes /\ JobsAndLocks /\ job[w] = s /\ stage[w] = "pipeline"
        /\ status[s] \in {"RUNNING", "REJECTED"}
        /\ status' = [status EXCEPT ![s] = "REJECTED"]
        /\ completed' = [completed EXCEPT ![s] = @ \/ status[s] = "RUNNING"]
        /\ audit' = [audit EXCEPT ![s] = @ \cup {"REJECTED"}]
        /\ UNCHANGED started
        /\ stage' = [stage EXCEPT ![w] = "idle"]
        /\ job' = [job EXCEPT ![w] = NoScan]
        /\ row' = [row EXCEPT ![w] = 0]
        /\ UNCHANGED <<rowLock, request>>
    BY <1>s, <1>r DEF IndInv, TypeOK, RowTypes, apiVars,
                PipelineRaises, try_transition, CompletedWith, Record, Goto, Finish
  <1>1. /\ executions' \in [Scans -> Seq(Execution)]
        /\ \A t \in Scans \ {s} : executions'[t] = executions[t]
        /\ EngineRows(s)' = {row[w]}
        /\ DOMAIN executions'[s] = DOMAIN executions[s]
        /\ \A i \in DOMAIN executions[s] \ {row[w]} : executions'[s][i] = executions[s][i]
        /\ executions'[s][row[w]] = e
        /\ e.status = "FAILED"
    <2>1. UpdateOwn(w, e) /\ e.tool = Own(w).tool /\ stage[w] \in Driving
      BY <1>e, <1>r DEF PipelineRaises, Driving, Execution
    <2>2. e.status = "FAILED"
      BY <1>e, <1>r DEF Execution
    <2> QED
      BY <1>s, <1>r, <2>1, <2>2, UpdateRow
  <1>2. TypeOK'
    <2>1. RequestTypes'
      BY DEF IndInv, TypeOK, RequestTypes, apiVars, brokerVars, PipelineRaises, try_transition, CompletedWith, Record, Goto, Finish
    <2>2. RowTypes'
      BY <1>0, <1>1 DEF RowTypes, Statuses, AuditedStates
    <2>3. WorkerTypes'
      BY <1>0 DEF WorkerTypes, Stages
    <2> QED
      BY <2>1, <2>2, <2>3 DEF TypeOK
  <1>3. JobsAndLocks'
    <2>1. \A v \in Workers : stage'[v] = "idle" <=> job'[v] = NoScan
      BY <1>0, ConstantsAssumption DEF WorkerTypes, JobsAndLocks
    <2>2. \A v \in Workers : stage'[v] \in {"recheck", "begin"} =>
              rowLock'[job'[v]] = v /\ status'[job'[v]] = "QUEUED"
      BY <1>0, ConstantsAssumption DEF WorkerTypes, JobsAndLocks
    <2>3. \A t \in Scans : \A v \in Workers : rowLock'[t] = v =>
              job'[v] = t /\ stage'[v] \in {"recheck", "begin"}
      BY <1>0, ConstantsAssumption DEF WorkerTypes, JobsAndLocks
    <2> QED
      BY <2>1, <2>2, <2>3 DEF JobsAndLocks
  <1>4. \A t \in Scans \ {s} :
             /\ status'[t] = status[t] /\ completed'[t] = completed[t]
             /\ started'[t] = started[t] /\ executions'[t] = executions[t]
             /\ audit'[t] = audit[t]
    BY <1>0, <1>1 DEF RowTypes
  <1>5. /\ job'[w] = NoScan /\ stage'[w] = "idle" /\ status'[s] = "REJECTED"
        /\ \A v \in Workers \ {w} :
              stage'[v] = stage[v] /\ job'[v] = job[v] /\ row'[v] = row[v]
    BY <1>0 DEF WorkerTypes, RowTypes
  <1>6. \A v \in Workers \ {w} : job[v] = s => stage'[v] \notin Driving
    BY <1>0, <1>5 DEF IndInv, AtMostOneEngineRun, Driving
  <1>7. \A v \in Workers : job[v] = s => OwnsItsRow(v)'
    <2>1. OwnsItsRow(w)'
      BY <1>5 DEF OwnsItsRow, Driving
    <2>2. \A v \in Workers \ {w} : job[v] = s => OwnsItsRow(v)'
      BY <1>6 DEF OwnsItsRow, Driving
    <2> QED
      BY <2>1, <2>2
  <1>8. TellsTheTruth(s)'
    <2>1. /\ status'[s] = "REJECTED" /\ "REJECTED" \in audit'[s] /\ completed'[s]
          /\ started'[s]
      BY <1>0, <1>r DEF IndInv, RowTypes, TruthfulStatus, TellsTheTruth, is_terminal, TerminalStates
    <2> QED
      BY <1>1, <1>r, <2>1 DEF TellsTheTruth, is_terminal, TerminalStates, EngineRows
  <1>9. status[s] # Absent /\ status'[s] \notin {Absent, "QUEUED"} \cup NeverCommitted
    BY <1>0, <1>5 DEF Absent, NeverCommitted
  <1>10. \A i, j \in EngineRows(s)' : i = j
    BY <1>1
  <1>m. MachineStep
    <2>1. \A t \in Scans : EngineRows(t)' = EngineRows(t)
      BY <1>r, <1>1, <1>4, OthersTruthful
    <2>2. status' = [status EXCEPT ![s] = "REJECTED"] /\ "REJECTED" \in Statuses \ {"RUNNING"}
      BY <1>0 DEF Statuses
    <2>3. status[s] = "REJECTED" \/ Machine!Passes(status[s], "REJECTED")
      BY <1>0, ServiceEdges
    <2> QED
      BY <2>1, <2>2, <2>3, SeenAdvance DEF IndInv
  <1> QED
    BY <1>m, <1>0, <1>1, <1>2, <1>3, <1>4, <1>5, <1>7, <1>8, <1>9, <1>10, TableStep DEF Driving

\* The engine succeeded: findings, row and both transitions are stored, or
\* only findings and row when another delivery has rejected the scan.
LEMMA PersistStep ==
    ASSUME IndInv, NEW w \in Workers, Persist(w)
    PROVE  IndInv' /\ MachineStep
  <1>s. PICK s \in Scans : s = job[w]
    BY DEF IndInv, TypeOK, WorkerTypes, JobsAndLocks, Persist
  <1>r. /\ stage[w] = "persist" /\ row[w] \in EngineRows(s)
        /\ EngineRows(s) = {row[w]}
        /\ Own(w) = executions[s][row[w]] /\ Own(w) \in Execution
        /\ status[s] \in {"RUNNING", "REJECTED"} /\ Own(w).status = "RUNNING"
    <2>1. stage[w] = "persist" /\ row[w] \in EngineRows(s) /\ Own(w) = executions[s][row[w]]
      BY <1>s DEF IndInv, DriversOwnTheirRow, OwnsItsRow, Own, Driving, Persist
    <2>2. EngineRows(s) = {row[w]}
      BY <2>1 DEF IndInv, AtMostOneEngineRun
    <2>3. Own(w) \in Execution
      BY <1>s, <2>1 DEF IndInv, TypeOK, RowTypes, EngineRows
    <2> QED
      BY <1>s, <2>1, <2>2, <2>3 DEF IndInv, DriversOwnTheirRow, OwnsItsRow
  <1>e. PICK e \in Execution : e = [Own(w) EXCEPT !.status = "SUCCEEDED", !.findings = TRUE]
    BY <1>r DEF Execution
  <1>0. /\ WorkerTypes /\ RowTypes /\ JobsAndLocks /\ job[w] = s /\ stage[w] = "persist"
        /\ status[s] \in {"RUNNING", "REJECTED"}
        /\ status' = [status EXCEPT ![s] = IF @ = "RUNNING" THEN "AI_ANALYSIS" ELSE @]
        /\ audit' = [audit EXCEPT ![s] = @ \cup {"EXECUTION_SUCCEEDED"}]
        /\ UNCHANGED <<started, completed>>
        /\ stage' = [stage EXCEPT ![w] = "ai"]
        /\ UNCHANGED <<job, row>>
        /\ UNCHANGED <<rowLock, request>>
    BY <1>s, <1>r DEF IndInv, TypeOK, RowTypes, apiVars,
                Persist, try_transition, Record, Goto
  <1>1. /\ executions' \in [Scans -> Seq(Execution)]
        /\ \A t \in Scans \ {s} : executions'[t] = executions[t]
        /\ EngineRows(s)' = {row[w]}
        /\ DOMAIN executions'[s] = DOMAIN executions[s]
        /\ \A i \in DOMAIN executions[s] \ {row[w]} : executions'[s][i] = executions[s][i]
        /\ executions'[s][row[w]] = e
        /\ e.status = "SUCCEEDED" /\ e.findings
    <2>1. UpdateOwn(w, e) /\ e.tool = Own(w).tool /\ stage[w] \in Driving
      BY <1>e, <1>r DEF Persist, Driving, Execution
    <2>2. e.status = "SUCCEEDED" /\ e.findings
      BY <1>e, <1>r DEF Execution
    <2> QED
      BY <1>s, <1>r, <2>1, <2>2, UpdateRow
  <1>2. TypeOK'
    <2>1. RequestTypes'
      BY DEF IndInv, TypeOK, RequestTypes, apiVars, brokerVars, Persist, try_transition, Record, Goto
    <2>2. RowTypes'
      BY <1>0, <1>1 DEF RowTypes, Statuses, AuditedStates
    <2>3. WorkerTypes'
      BY <1>0 DEF WorkerTypes, Stages
    <2> QED
      BY <2>1, <2>2, <2>3 DEF TypeOK
  <1>3. JobsAndLocks'
    <2>1. \A v \in Workers : stage'[v] = "idle" <=> job'[v] = NoScan
      BY <1>0, ConstantsAssumption DEF WorkerTypes, JobsAndLocks
    <2>2. \A v \in Workers : stage'[v] \in {"recheck", "begin"} =>
              rowLock'[job'[v]] = v /\ status'[job'[v]] = "QUEUED"
      BY <1>0, ConstantsAssumption DEF WorkerTypes, JobsAndLocks
    <2>3. \A t \in Scans : \A v \in Workers : rowLock'[t] = v =>
              job'[v] = t /\ stage'[v] \in {"recheck", "begin"}
      BY <1>0, ConstantsAssumption DEF WorkerTypes, JobsAndLocks
    <2> QED
      BY <2>1, <2>2, <2>3 DEF JobsAndLocks
  <1>4. \A t \in Scans \ {s} :
             /\ status'[t] = status[t] /\ completed'[t] = completed[t]
             /\ started'[t] = started[t] /\ executions'[t] = executions[t]
             /\ audit'[t] = audit[t]
    BY <1>0, <1>1 DEF RowTypes
  <1>5. /\ job'[w] = s /\ stage'[w] = "ai" /\ row'[w] = row[w]
        /\ status'[s] \in {"AI_ANALYSIS", "REJECTED"}
        /\ \A v \in Workers \ {w} :
              stage'[v] = stage[v] /\ job'[v] = job[v] /\ row'[v] = row[v]
    BY <1>0 DEF WorkerTypes, RowTypes
  <1>6. \A v \in Workers \ {w} : job[v] = s => stage'[v] \notin Driving
    BY <1>0, <1>5 DEF IndInv, AtMostOneEngineRun, Driving
  <1>7. \A v \in Workers : job[v] = s => OwnsItsRow(v)'
    <2>1. OwnsItsRow(w)'
      BY <1>1, <1>5 DEF OwnsItsRow, Own, EngineRows
    <2>2. \A v \in Workers \ {w} : job[v] = s => OwnsItsRow(v)'
      BY <1>6 DEF OwnsItsRow, Driving
    <2> QED
      BY <2>1, <2>2
  <1>8. TellsTheTruth(s)'
    <2>1. /\ started'[s] /\ completed'[s] = completed[s]
          /\ "REJECTED" \in audit[s] => "REJECTED" \in audit'[s]
      BY <1>0, <1>r DEF IndInv, RowTypes, TruthfulStatus, TellsTheTruth
    <2>2. CASE status[s] = "RUNNING"
      <3>1. status'[s] = "AI_ANALYSIS" /\ ~completed[s]
        BY <1>0, <2>2 DEF IndInv, RowTypes, TruthfulStatus, TellsTheTruth, is_terminal, TerminalStates
      <3> QED
        BY <1>1, <2>1, <3>1 DEF TellsTheTruth, is_terminal, TerminalStates
    <2>3. CASE status[s] = "REJECTED"
      <3>1. status'[s] = "REJECTED" /\ completed[s] /\ "REJECTED" \in audit[s]
        BY <1>0, <2>3 DEF IndInv, RowTypes, TruthfulStatus, TellsTheTruth, is_terminal, TerminalStates
      <3>2. PICK i \in DOMAIN executions[s] : executions[s][i].status = "FAILED"
        BY <2>3 DEF IndInv, TruthfulStatus, TellsTheTruth
      <3>3. i \in DOMAIN executions'[s] /\ executions'[s][i].status = "FAILED"
        BY <1>1, <1>r, <3>2
      <3> QED
        BY <1>1, <2>1, <3>1, <3>3 DEF TellsTheTruth, is_terminal, TerminalStates
    <2> QED
      BY <1>0, <2>2, <2>3
  <1>9. status[s] # Absent /\ status'[s] \notin {Absent, "QUEUED"} \cup NeverCommitted
    BY <1>0, <1>5 DEF Absent, NeverCommitted
  <1>10. \A i, j \in EngineRows(s)' : i = j
    BY <1>1
  <1>m. MachineStep
    <2>1. \A t \in Scans : EngineRows(t)' = EngineRows(t)
      BY <1>r, <1>1, <1>4, OthersTruthful
    <2>2. CASE status[s] = "RUNNING"
      <3>1. status' = [status EXCEPT ![s] = "AI_ANALYSIS"] /\ "AI_ANALYSIS" \in Statuses \ {"RUNNING"}
        BY <1>0, <2>2 DEF Statuses
      <3>2. Machine!Passes(status[s], "AI_ANALYSIS")
        BY <2>2, ServiceEdges
      <3> QED
        BY <2>1, <3>1, <3>2, SeenAdvance DEF IndInv
    <2>3. CASE status[s] # "RUNNING"
      <3>1. UNCHANGED status
        BY <1>0, <2>3 DEF RowTypes
      <3> QED
        BY <2>1, <3>1, UnseenStep
    <2> QED
      BY <2>2, <2>3
  <1> QED
    BY <1>m, <1>0, <1>1, <1>2, <1>3, <1>4, <1>5, <1>7, <1>8, <1>9, <1>10, TableStep DEF Driving

\* The assessment and the final status, unless the scan was cancelled or
\* rejected meanwhile.
LEMMA StoreAssessmentStep ==
    ASSUME IndInv, NEW w \in Workers, NEW assessment \in {"available", "unavailable"},
           StoreAssessment(w, assessment)
    PROVE  IndInv' /\ MachineStep
  <1>s. PICK s \in Scans : s = job[w]
    BY DEF IndInv, TypeOK, WorkerTypes, JobsAndLocks, StoreAssessment
  <1>f. PICK final \in {"REPORT_READY", "REPORT_READY_DEGRADED"} :
           final = IF assessment = "available" THEN "REPORT_READY" ELSE "REPORT_READY_DEGRADED"
    OBVIOUS
  <1>r. /\ stage[w] = "ai" /\ row[w] \in EngineRows(s)
        /\ EngineRows(s) = {row[w]}
        /\ Own(w) = executions[s][row[w]] /\ Own(w) \in Execution
        /\ status[s] \in {"AI_ANALYSIS", "REJECTED", "CANCELLED"} /\ Own(w).status = "SUCCEEDED" /\ Own(w).findings
    <2>1. stage[w] = "ai" /\ row[w] \in EngineRows(s) /\ Own(w) = executions[s][row[w]]
      BY <1>s DEF IndInv, DriversOwnTheirRow, OwnsItsRow, Own, Driving, StoreAssessment
    <2>2. EngineRows(s) = {row[w]}
      BY <2>1 DEF IndInv, AtMostOneEngineRun
    <2>3. Own(w) \in Execution
      BY <1>s, <2>1 DEF IndInv, TypeOK, RowTypes, EngineRows
    <2> QED
      BY <1>s, <2>1, <2>2, <2>3 DEF IndInv, DriversOwnTheirRow, OwnsItsRow
  <1>e. PICK e \in Execution : e = [Own(w) EXCEPT !.assessment = assessment]
    BY <1>r DEF Execution
  <1>0. /\ WorkerTypes /\ RowTypes /\ JobsAndLocks /\ job[w] = s /\ stage[w] = "ai"
        /\ status[s] \in {"AI_ANALYSIS", "REJECTED", "CANCELLED"}
        /\ status' = [status EXCEPT ![s] = IF @ = "AI_ANALYSIS" THEN final ELSE @]
        /\ completed' = [completed EXCEPT ![s] = @ \/ status[s] = "AI_ANALYSIS"]
        /\ UNCHANGED <<started, audit>>
        /\ stage' = [stage EXCEPT ![w] = "idle"]
        /\ job' = [job EXCEPT ![w] = NoScan]
        /\ row' = [row EXCEPT ![w] = 0]
        /\ UNCHANGED <<rowLock, request>>
    BY <1>s, <1>r, <1>f DEF IndInv, TypeOK, RowTypes, apiVars,
                StoreAssessment, try_transition, CompletedWith, Goto, Finish
  <1>1. /\ executions' \in [Scans -> Seq(Execution)]
        /\ \A t \in Scans \ {s} : executions'[t] = executions[t]
        /\ EngineRows(s)' = {row[w]}
        /\ DOMAIN executions'[s] = DOMAIN executions[s]
        /\ \A i \in DOMAIN executions[s] \ {row[w]} : executions'[s][i] = executions[s][i]
        /\ executions'[s][row[w]] = e
        /\ e.status = "SUCCEEDED" /\ e.findings /\ e.assessment = assessment
    <2>1. UpdateOwn(w, e) /\ e.tool = Own(w).tool /\ stage[w] \in Driving
      BY <1>e, <1>r DEF StoreAssessment, Driving, Execution
    <2>2. e.status = "SUCCEEDED" /\ e.findings /\ e.assessment = assessment
      BY <1>e, <1>r DEF Execution
    <2> QED
      BY <1>s, <1>r, <2>1, <2>2, UpdateRow
  <1>2. TypeOK'
    <2>1. RequestTypes'
      BY DEF IndInv, TypeOK, RequestTypes, apiVars, brokerVars, StoreAssessment, try_transition, CompletedWith, Goto, Finish
    <2>2. RowTypes'
      BY <1>0, <1>1 DEF RowTypes, Statuses, AuditedStates
    <2>3. WorkerTypes'
      BY <1>0 DEF WorkerTypes, Stages
    <2> QED
      BY <2>1, <2>2, <2>3 DEF TypeOK
  <1>3. JobsAndLocks'
    <2>1. \A v \in Workers : stage'[v] = "idle" <=> job'[v] = NoScan
      BY <1>0, ConstantsAssumption DEF WorkerTypes, JobsAndLocks
    <2>2. \A v \in Workers : stage'[v] \in {"recheck", "begin"} =>
              rowLock'[job'[v]] = v /\ status'[job'[v]] = "QUEUED"
      BY <1>0, ConstantsAssumption DEF WorkerTypes, JobsAndLocks
    <2>3. \A t \in Scans : \A v \in Workers : rowLock'[t] = v =>
              job'[v] = t /\ stage'[v] \in {"recheck", "begin"}
      BY <1>0, ConstantsAssumption DEF WorkerTypes, JobsAndLocks
    <2> QED
      BY <2>1, <2>2, <2>3 DEF JobsAndLocks
  <1>4. \A t \in Scans \ {s} :
             /\ status'[t] = status[t] /\ completed'[t] = completed[t]
             /\ started'[t] = started[t] /\ executions'[t] = executions[t]
             /\ audit'[t] = audit[t]
    BY <1>0, <1>1 DEF RowTypes
  <1>5. /\ job'[w] = NoScan /\ stage'[w] = "idle" /\ status'[s] \in {"REJECTED", "CANCELLED", final}
        /\ \A v \in Workers \ {w} :
              stage'[v] = stage[v] /\ job'[v] = job[v] /\ row'[v] = row[v]
    BY <1>0 DEF WorkerTypes, RowTypes
  <1>6. \A v \in Workers \ {w} : job[v] = s => stage'[v] \notin Driving
    BY <1>0, <1>5 DEF IndInv, AtMostOneEngineRun, Driving
  <1>7. \A v \in Workers : job[v] = s => OwnsItsRow(v)'
    <2>1. OwnsItsRow(w)'
      BY <1>5 DEF OwnsItsRow, Driving
    <2>2. \A v \in Workers \ {w} : job[v] = s => OwnsItsRow(v)'
      BY <1>6 DEF OwnsItsRow, Driving
    <2> QED
      BY <2>1, <2>2
  <1>8. TellsTheTruth(s)'
    <2>1. /\ started'[s] /\ completed'[s]
      BY <1>0, <1>r DEF IndInv, RowTypes, TruthfulStatus, TellsTheTruth, is_terminal, TerminalStates
    <2>2. CASE status[s] = "AI_ANALYSIS"
      <3>1. status'[s] = final
        BY <1>0, <2>2 DEF RowTypes
      <3> QED
        BY <1>1, <1>f, <2>1, <3>1 DEF TellsTheTruth, is_terminal, TerminalStates
    <2>3. CASE status[s] = "REJECTED"
      <3>1. status'[s] = "REJECTED" /\ "REJECTED" \in audit'[s]
        BY <1>0, <2>3 DEF IndInv, RowTypes, TruthfulStatus, TellsTheTruth
      <3>2. PICK i \in DOMAIN executions[s] : executions[s][i].status = "FAILED"
        BY <2>3 DEF IndInv, TruthfulStatus, TellsTheTruth
      <3>3. i \in DOMAIN executions'[s] /\ executions'[s][i].status = "FAILED"
        BY <1>1, <1>r, <3>2
      <3> QED
        BY <1>1, <2>1, <3>1, <3>3 DEF TellsTheTruth, is_terminal, TerminalStates
    <2>4. CASE status[s] = "CANCELLED"
      <3>1. status'[s] = "CANCELLED"
        BY <1>0, <2>4 DEF RowTypes
      <3> QED
        BY <2>1, <3>1 DEF TellsTheTruth, is_terminal, TerminalStates
    <2> QED
      BY <1>0, <2>2, <2>3, <2>4
  <1>9. status[s] # Absent /\ status'[s] \notin {Absent, "QUEUED"} \cup NeverCommitted
    BY <1>0, <1>5 DEF Absent, NeverCommitted
  <1>10. \A i, j \in EngineRows(s)' : i = j
    BY <1>1
  <1>m. MachineStep
    <2>1. \A t \in Scans : EngineRows(t)' = EngineRows(t)
      BY <1>r, <1>1, <1>4, OthersTruthful
    <2>2. CASE status[s] = "AI_ANALYSIS"
      <3>1. status' = [status EXCEPT ![s] = final] /\ final \in Statuses \ {"RUNNING"}
        BY <1>0, <2>2 DEF Statuses
      <3>2. Machine!Passes(status[s], final)
        BY <2>2, ServiceEdges
      <3> QED
        BY <2>1, <3>1, <3>2, SeenAdvance DEF IndInv
    <2>3. CASE status[s] # "AI_ANALYSIS"
      <3>1. UNCHANGED status
        BY <1>0, <2>3 DEF RowTypes
      <3> QED
        BY <2>1, <3>1, UnseenStep
    <2> QED
      BY <2>2, <2>3
  <1> QED
    BY <1>m, <1>0, <1>1, <1>2, <1>3, <1>4, <1>5, <1>7, <1>8, <1>9, <1>10, TableStep DEF Driving

\* The last-resort handler rejects the scan, whoever may be executing it.
LEMMA RejectFromStep ==
    ASSUME IndInv, NEW w \in Workers, NEW from \in {"RUNNING", "QUEUED"},
           stage[w] \in {"rejectRunning", "rejectQueued"}, RejectFrom(w, from)
    PROVE  IndInv' /\ MachineStep
  <1>s. PICK s \in Scans : s = job[w]
    BY DEF IndInv, TypeOK, WorkerTypes, JobsAndLocks
  <1>e. PICK e \in Execution : e = NewExecution("worker-unknown", "FAILED")
    BY NewExecutionType
  <1>0. /\ WorkerTypes /\ RowTypes /\ JobsAndLocks /\ job[w] = s
        /\ stage[w] \in {"rejectRunning", "rejectQueued"}
        /\ status[s] = from /\ rowLock[s] = NoWorker
        /\ status' = [status EXCEPT ![s] = "REJECTED"]
        /\ completed' = [completed EXCEPT ![s] = TRUE]
        /\ audit' = [audit EXCEPT ![s] = @ \cup {"REJECTED"}]
        /\ stage' = [stage EXCEPT ![w] = "idle"]
        /\ job' = [job EXCEPT ![w] = NoScan]
        /\ row' = [row EXCEPT ![w] = 0]
        /\ UNCHANGED <<started, rowLock, request>>
    BY <1>s DEF IndInv, TypeOK, RowTypes, apiVars, RejectFrom, try_transition, CompletedWith,
                Record, Goto, Finish
  <1>1. /\ executions' \in [Scans -> Seq(Execution)]
        /\ \A t \in Scans \ {s} : executions'[t] = executions[t]
        /\ DOMAIN executions[s] = 1..Len(executions[s])
        /\ DOMAIN executions'[s] = 1..(Len(executions[s]) + 1)
        /\ \A i \in DOMAIN executions[s] : executions'[s][i] = executions[s][i]
        /\ executions'[s][Len(executions[s]) + 1] = e
        /\ EngineRows(s)' = EngineRows(s)
        /\ Len(executions[s]) \in Nat
        /\ e.status = "FAILED"
    <2>1. AddExecution(s, e) /\ e.tool # "engine" /\ e.status = "FAILED"
      BY <1>s, <1>e DEF RejectFrom, NewExecution
    <2> QED
      BY <2>1, InsertRow DEF IndInv
  <1>2. TypeOK'
    <2>1. RequestTypes'
      BY DEF IndInv, TypeOK, RequestTypes, apiVars, brokerVars, RejectFrom
    <2>2. RowTypes'
      BY <1>0, <1>1 DEF RowTypes, Statuses, AuditedStates
    <2>3. WorkerTypes'
      BY <1>0 DEF WorkerTypes, Stages
    <2> QED
      BY <2>1, <2>2, <2>3 DEF TypeOK
  <1>3. JobsAndLocks'
    <2>1. \A v \in Workers : stage'[v] = "idle" <=> job'[v] = NoScan
      BY <1>0, ConstantsAssumption DEF WorkerTypes, JobsAndLocks
    <2>2. \A v \in Workers : stage'[v] \in {"recheck", "begin"} =>
              rowLock'[job'[v]] = v /\ status'[job'[v]] = "QUEUED"
      BY <1>0, ConstantsAssumption DEF WorkerTypes, JobsAndLocks
    <2>3. \A t \in Scans : \A v \in Workers : rowLock'[t] = v =>
              job'[v] = t /\ stage'[v] \in {"recheck", "begin"}
      BY <1>0, ConstantsAssumption DEF WorkerTypes, JobsAndLocks
    <2> QED
      BY <2>1, <2>2, <2>3 DEF JobsAndLocks
  <1>4. \A t \in Scans \ {s} :
             /\ status'[t] = status[t] /\ completed'[t] = completed[t]
             /\ started'[t] = started[t] /\ executions'[t] = executions[t]
             /\ audit'[t] = audit[t]
    BY <1>0, <1>1 DEF RowTypes
  <1>5. /\ job'[w] = NoScan /\ stage'[w] = "idle" /\ status'[s] = "REJECTED"
        /\ \A v \in Workers \ {w} :
              stage'[v] = stage[v] /\ job'[v] = job[v] /\ row'[v] = row[v]
    BY <1>0 DEF WorkerTypes, RowTypes
  <1>7. \A v \in Workers : job[v] = s => OwnsItsRow(v)'
    <2>1. OwnsItsRow(w)'
      BY <1>5 DEF OwnsItsRow, Driving
    <2>2. ASSUME NEW v \in Workers \ {w}, job[v] = s
          PROVE  OwnsItsRow(v)'
      <3>1. CASE stage[v] \notin Driving
        BY <1>5, <2>2, <3>1 DEF OwnsItsRow, Driving
      <3>2. CASE stage[v] \in Driving
        <4>1. /\ row[v] \in EngineRows(s) /\ row[v] \in DOMAIN executions[s]
              /\ stage[v] \in {"pipeline", "persist"} /\ executions[s][row[v]].status = "RUNNING"
          BY <1>0, <2>2, <3>2 DEF IndInv, DriversOwnTheirRow, OwnsItsRow, Own, Driving, EngineRows
        <4>2. job'[v] = s /\ row'[v] = row[v] /\ stage'[v] = stage[v]
          BY <1>5, <2>2
        <4>3. Own(v)'.status = "RUNNING"
          BY <1>1, <4>1, <4>2 DEF Own
        <4>4. row'[v] \in EngineRows(job[v])'
          BY <1>1, <4>1, <4>2 DEF EngineRows
        <4> QED
          BY <1>5, <4>1, <4>2, <4>3, <4>4 DEF OwnsItsRow
      <3> QED
        BY <3>1, <3>2
    <2> QED
      BY <2>1, <2>2
  <1>8. TellsTheTruth(s)'
    <2>1. /\ completed'[s] /\ "REJECTED" \in audit'[s]
          /\ EngineRows(s)' # {} => started'[s]
      BY <1>0, <1>1 DEF IndInv, RowTypes, TruthfulStatus, TellsTheTruth
    <2>2. Len(executions[s]) + 1 \in DOMAIN executions'[s]
      BY <1>1
    <2> QED
      BY <1>1, <1>5, <2>1, <2>2 DEF TellsTheTruth, is_terminal, TerminalStates
  <1>9. status[s] # Absent /\ status'[s] \notin {Absent, "QUEUED"} \cup NeverCommitted
    BY <1>0, <1>5 DEF Absent, NeverCommitted
  <1>10. \A i, j \in EngineRows(s)' : i = j
    BY <1>1 DEF IndInv, AtMostOneEngineRun
  <1>m. MachineStep
    <2>1. \A t \in Scans : EngineRows(t)' = EngineRows(t)
      BY <1>0, <1>1, <1>4, OthersTruthful
    <2>2. status' = [status EXCEPT ![s] = "REJECTED"] /\ "REJECTED" \in Statuses \ {"RUNNING"}
      BY <1>0 DEF Statuses
    <2>3. status[s] = "REJECTED" \/ Machine!Passes(status[s], "REJECTED")
      BY <1>0, ServiceEdges
    <2> QED
      BY <2>1, <2>2, <2>3, SeenAdvance DEF IndInv
  <1> QED
    BY <1>m, <1>0, <1>1, <1>2, <1>3, <1>4, <1>5, <1>7, <1>8, <1>9, <1>10, TableStep DEF Driving

-----------------------------------------------------------------------------
(* The invariant, and what follows from it.                                *)

\* Before any request there are no rows.
LEMMA InitStep ==
    ASSUME Init
    PROVE  IndInv /\ Machine!Init
  <1>1. TypeOK
    <2>1. RequestTypes
      BY ConstantsAssumption DEF Init, RequestTypes, AttestationStates, RequestStates
    <2>2. RowTypes
      BY DEF Init, RowTypes, Statuses, Absent
    <2>3. WorkerTypes
      BY DEF Init, WorkerTypes, Stages
    <2> QED
      BY <2>1, <2>2, <2>3 DEF TypeOK
  <1>2. \A s \in Scans : EngineRows(s) = {} /\ DOMAIN executions[s] = {}
    BY DEF Init, EngineRows
  <1>3. JobsAndLocks
    BY ConstantsAssumption DEF Init, JobsAndLocks
  <1>4. RowsAndRequests
    BY <1>2 DEF Init, RowsAndRequests, NeverCommitted, Absent
  <1>5. DriversOwnTheirRow
    BY DEF Init, DriversOwnTheirRow, OwnsItsRow, Driving
  <1>6. AtMostOneEngineRun
    BY <1>2 DEF Init, AtMostOneEngineRun, Driving
  <1>7. TruthfulStatus
    BY <1>2 DEF Init, TruthfulStatus, TellsTheTruth, is_terminal, TerminalStates, Absent
  <1>8. Machine!Init
    BY <1>2 DEF Init, Machine!Init, Machine!Absent, Absent
  <1> QED
    BY <1>1, <1>3, <1>4, <1>5, <1>6, <1>7, <1>8 DEF IndInv

\* A step that leaves the scan table and the execution rows alone is not seen.
LEMMA UnchangedTable ==
    ASSUME UNCHANGED scanVars
    PROVE  MachineStep
  <1>1. \A t \in Scans : EngineRows(t)' = EngineRows(t)
    BY DEF scanVars, EngineRows
  <1> QED
    BY <1>1, UnseenStep DEF scanVars

\* Every step of the system preserves the invariant and is a step of the
\* state machine or none.
LEMMA NextStep ==
    ASSUME IndInv, [Next]_vars
    PROVE  IndInv' /\ MachineStep
  <1>1. ASSUME NEW a \in Attestations,
               create_self_attestation(a) \/ revoke(a) \/ Expire(a)
        PROVE  IndInv' /\ MachineStep
    <2>1. UNCHANGED scanVars
      BY <1>1 DEF create_self_attestation, revoke, Expire
    <2> QED
      BY <1>1, <2>1, TargetSteps, UnchangedTable
  <1>2. ASSUME NEW flag \in BOOLEAN, set_archived(flag)
        PROVE  IndInv' /\ MachineStep
    <2>1. UNCHANGED scanVars
      BY <1>2 DEF set_archived
    <2> QED
      BY <1>2, <2>1, TargetSteps, UnchangedTable
  <1>3. ASSUME NEW s \in Scans,
               \/ create_scan(s) \/ (\E p \in Scans : rescan_scan(s, p))
               \/ enqueue_scan(s) \/ RollbackRequest(s)
        PROVE  IndInv' /\ MachineStep
    <2>1. InsertQueued(s) \/ enqueue_scan(s) \/ RollbackRequest(s)
      BY <1>3 DEF create_scan, rescan_scan
    <2>2. UNCHANGED scanVars
      BY <2>1 DEF InsertQueued, enqueue_scan, RollbackRequest
    <2> QED
      BY <2>1, <2>2, UncommittedRequestSteps, UnchangedTable
  <1>4. ASSUME NEW s \in Scans, CommitRequest(s)
        PROVE  IndInv' /\ MachineStep
    BY <1>4, CommitRequestStep
  <1>5. ASSUME NEW s \in Scans, CancelRead(s) \/ Redeliver(s)
        PROVE  IndInv' /\ MachineStep
    <2>1. UNCHANGED scanVars
      BY <1>5 DEF CancelRead, Redeliver
    <2> QED
      BY <1>5, <2>1, ReadAndBrokerSteps, UnchangedTable
  <1>6. ASSUME NEW s \in Scans, CancelStep(s)
        PROVE  IndInv' /\ MachineStep
    BY <1>6, CancelUpdateStep DEF CancelStep
  <1>7. ASSUME NEW w \in Workers, NEW s \in Scans,
               StartWithoutRow(w, s) \/ StartJob(w, s) \/ StartRaises(w, s)
        PROVE  IndInv' /\ MachineStep
    <2>1. UNCHANGED scanVars
      BY <1>7 DEF StartWithoutRow, StartJob, StartRaises
    <2> QED
      BY <1>7, <2>1, StartSteps, ReadAndBrokerSteps, UnchangedTable
  <1>8. ASSUME NEW w \in Workers,
               \/ Claim(w) \/ RecheckPasses(w) \/ PipelineSucceeds(w) \/ RejectNotRunning(w)
               \/ JobRaises(w) \/ WorkerLost(w) \/ RejectAbsent(w) \/ RejectNothing(w)
        PROVE  IndInv' /\ MachineStep
    <2>1. UNCHANGED scanVars
      BY <1>8 DEF Claim, RecheckPasses, PipelineSucceeds, RejectNotRunning,
                  JobRaises, WorkerLost, RejectAbsent, RejectNothing
    <2> QED
      BY <1>8, <2>1, ClaimStep, ProgressSteps, AbandonSteps, UnchangedTable
  <1>9. ASSUME NEW w \in Workers,
               RecheckFails(w) \/ Begin(w) \/ PipelineRaises(w) \/ Persist(w)
        PROVE  IndInv' /\ MachineStep
    BY <1>9, RecheckFailsStep, BeginStep, PipelineRaisesStep, PersistStep
  <1>10. ASSUME NEW w \in Workers, NEW assessment \in {"available", "unavailable"},
                StoreAssessment(w, assessment)
         PROVE  IndInv' /\ MachineStep
    BY <1>10, StoreAssessmentStep
  <1>11. ASSUME NEW w \in Workers, RejectRunning(w) \/ RejectQueued(w)
         PROVE  IndInv' /\ MachineStep
    BY <1>11, RejectFromStep DEF RejectRunning, RejectQueued
  <1>12. ASSUME UNCHANGED vars
         PROVE  IndInv' /\ MachineStep
    <2>1. UNCHANGED <<scanVars, rowLock, workerVars, request>> /\ TypeOK'
      BY <1>12 DEF vars, apiVars, scanVars, brokerVars, workerVars, IndInv, TypeOK,
                   RequestTypes, RowTypes, WorkerTypes
    <2> QED
      BY <2>1, OutsideStep, UnchangedTable
  <1> QED
    BY <1>1, <1>2, <1>3, <1>4, <1>5, <1>6, <1>7, <1>8, <1>9, <1>10, <1>11, <1>12
       DEF Next, WorkerStep, RequestStep

\* The inductive invariant holds in every reachable state.
THEOREM Invariance == Spec => []IndInv
  <1>1. Init => IndInv
    BY InitStep
  <1>2. IndInv /\ [Next]_vars => IndInv'
    BY NextStep
  <1> QED
    BY <1>1, <1>2, PTL DEF Spec

\* Type correctness of the whole lifecycle, for any scans, workers and bounds.
THEOREM TypeCorrect == Spec => []TypeOK
  <1>1. IndInv => TypeOK
    BY DEF IndInv
  <1> QED
    BY <1>1, Invariance, PTL

\* execute_scan_job gives a scan at most one engine run and one driving
\* worker, whatever is redelivered, raises, is lost or is cancelled.
THEOREM EngineRunsOnce == Spec => []AtMostOneEngineRun
  <1>1. IndInv => AtMostOneEngineRun
    BY DEF IndInv
  <1> QED
    BY <1>1, Invariance, PTL

\* The status column agrees with execution rows, assessment, audit entries
\* and timestamps in every reachable state.
THEOREM StatusIsTruthful == Spec => []TruthfulStatus
  <1>1. IndInv => TruthfulStatus
    BY DEF IndInv
  <1> QED
    BY <1>1, Invariance, PTL

\* The committed rows implement the state machine of lifecycle.py plus the
\* one edge AI_ANALYSIS -> CANCELLED that cancel_scan adds.
THEOREM Refinement == Spec => MachineSpec
  <1>1. Init => Machine!Init
    BY InitStep
  <1>2. IndInv /\ [Next]_vars => [Machine!Next]_(Machine!vars)
    BY NextStep DEF MachineStep
  <1> QED
    BY <1>1, <1>2, Invariance, PTL DEF Spec, MachineSpec, Machine!Spec

-----------------------------------------------------------------------------
(* The second gate of ADR-0009.                                            *)

\* A scan is authorized by an attestation that exists.
Authorized ==
    \A s \in Scans : request[s] # "none" =>
        authorizedBy[s] \in Attestations /\ attestations[authorizedBy[s]] # "absent"

\* The stages that a worker reaches only with an active attestation.
PastTheGate == Driving \cup {"begin"}

\* What stays true of a scan from the moment its attestation is inactive and
\* nobody has claimed it: no worker is past the gate with it.
Refused(s) ==
    /\ request[s] = "committed"
    /\ attestations[authorizedBy[s]] \in {"expired", "revoked"}
    /\ EngineRows(s) = {}
    /\ \A w \in Workers : job[w] = s => stage[w] \notin PastTheGate

\* The steps of workers leave requests and attestations alone.
LEMMA WorkersLeaveRequests ==
    ASSUME NEW w \in Workers,
           \/ WorkerStep(w) \/ (\E s \in Scans : StartRaises(w, s))
           \/ JobRaises(w) \/ WorkerLost(w)
    PROVE  UNCHANGED apiVars
  BY DEF WorkerStep, StartRaises, JobRaises, WorkerLost, StartWithoutRow, StartJob, Claim,
         RecheckPasses, RecheckFails, Begin, PipelineSucceeds, PipelineRaises, Persist,
         StoreAssessment, RejectRunning, RejectAbsent, RejectNotRunning, RejectQueued,
         RejectNothing, RejectFrom

\* The steps of requests, users and the broker leave workers and executions alone.
LEMMA RequestsLeaveWorkers ==
    ASSUME \/ \E a \in Attestations : create_self_attestation(a) \/ revoke(a) \/ Expire(a)
           \/ \E flag \in BOOLEAN : set_archived(flag)
           \/ \E s \in Scans :
                 \/ create_scan(s) \/ (\E p \in Scans : rescan_scan(s, p))
                 \/ RequestStep(s) \/ RollbackRequest(s)
                 \/ CancelRead(s) \/ CancelStep(s) \/ Redeliver(s)
    PROVE  UNCHANGED <<stage, job, executions>>
  BY DEF create_self_attestation, revoke, Expire, set_archived, create_scan, rescan_scan,
         InsertQueued, RequestStep, enqueue_scan, CommitRequest, RollbackRequest, CancelRead,
         CancelStep, CancelUpdate, Redeliver, scanVars, workerVars

\* What a step may do to the attestation of a scan that is requested already.
LEMMA AuthorizationStep ==
    ASSUME TypeOK, Authorized, [Next]_vars
    PROVE  /\ Authorized'
           /\ \A s \in Scans : request[s] = "committed" =>
                 request'[s] = "committed" /\ authorizedBy'[s] = authorizedBy[s]
           /\ \A a \in Attestations :
                 attestations[a] \in {"expired", "revoked"} =>
                     attestations'[a] \in {"expired", "revoked"}
  <1> DEFINE Goal == /\ Authorized'
                     /\ \A s \in Scans : request[s] = "committed" =>
                           request'[s] = "committed" /\ authorizedBy'[s] = authorizedBy[s]
                     /\ \A a \in Attestations :
                           attestations[a] \in {"expired", "revoked"} =>
                               attestations'[a] \in {"expired", "revoked"}
  <1>1. CASE UNCHANGED <<attestations, request, authorizedBy>>
    BY <1>1 DEF Authorized
  <1>2. ASSUME NEW a \in Attestations, create_self_attestation(a) \/ revoke(a) \/ Expire(a)
        PROVE  Goal
    BY <1>2 DEF TypeOK, RequestTypes, Authorized, create_self_attestation, revoke, Expire
  <1>3. ASSUME NEW s \in Scans, InsertQueued(s)
        PROVE  Goal
    BY <1>3 DEF TypeOK, RequestTypes, Authorized, InsertQueued, IsLatestActive, attestation_active
  <1>4. ASSUME NEW s \in Scans, enqueue_scan(s) \/ CommitRequest(s) \/ RollbackRequest(s)
        PROVE  Goal
    BY <1>4 DEF TypeOK, RequestTypes, Authorized, enqueue_scan, CommitRequest, RollbackRequest
  <1>5. ASSUME \/ \E flag \in BOOLEAN : set_archived(flag)
               \/ \E s \in Scans : CancelRead(s) \/ CancelStep(s) \/ Redeliver(s)
               \/ UNCHANGED vars
        PROVE  UNCHANGED <<attestations, request, authorizedBy>>
    BY <1>5 DEF set_archived, CancelRead, CancelStep, CancelUpdate, Redeliver, apiVars, vars
  <1>6. ASSUME NEW w \in Workers,
               \/ WorkerStep(w) \/ (\E s \in Scans : StartRaises(w, s))
               \/ JobRaises(w) \/ WorkerLost(w)
        PROVE  UNCHANGED <<attestations, request, authorizedBy>>
    BY <1>6, WorkersLeaveRequests DEF apiVars
  <1> QED BY <1>1, <1>2, <1>3, <1>4, <1>5, <1>6 DEF Next, RequestStep, create_scan, rescan_scan

\* A worker passes the gate only with an active attestation.
LEMMA GateStep ==
    ASSUME IndInv, [Next]_vars, NEW s \in Scans, NEW v \in Workers,
           job'[v] = s, stage'[v] \in PastTheGate
    PROVE  /\ job[v] = s
           /\ \/ stage[v] \in PastTheGate
              \/ stage[v] = "recheck" /\ attestation_active(authorizedBy[s])
  <1> DEFINE Goal == /\ job[v] = s
                     /\ \/ stage[v] \in PastTheGate
                        \/ stage[v] = "recheck" /\ attestation_active(authorizedBy[s])
  <1> USE DEF PastTheGate, Driving
  <1>0. /\ stage \in [Workers -> Stages] /\ job \in [Workers -> Scans \cup {NoScan}]
        /\ NoScan # s
    BY ConstantsAssumption DEF IndInv, TypeOK, WorkerTypes
  <1>1. ASSUME UNCHANGED <<stage, job>>
        PROVE  Goal
    BY <1>1
  <1>2. ASSUME NEW w \in Workers, NEW t \in Scans, StartJob(w, t) \/ StartRaises(w, t)
        PROVE  Goal
    BY <1>0, <1>2 DEF StartJob, StartRaises, Dequeue, Goto
  <1>3. ASSUME NEW w \in Workers, Claim(w)
        PROVE  Goal
    BY <1>0, <1>3 DEF Claim, Finish, Goto
  <1>4. ASSUME NEW w \in Workers, RecheckPasses(w)
        PROVE  Goal
    BY <1>0, <1>4 DEF RecheckPasses, Goto
  <1>5. ASSUME NEW w \in Workers, Begin(w) \/ PipelineSucceeds(w) \/ Persist(w)
        PROVE  Goal
    BY <1>0, <1>5 DEF Begin, PipelineSucceeds, Persist, Goto
  <1>6. ASSUME NEW w \in Workers, JobRaises(w) \/ RejectNotRunning(w)
        PROVE  Goal
    BY <1>0, <1>6 DEF JobRaises, RejectNotRunning, Goto
  <1>7. ASSUME NEW w \in Workers, Finish(w)
        PROVE  Goal
    BY <1>0, <1>7 DEF Finish, Goto
  <1>8. ASSUME NEW w \in Workers,
               \/ RecheckFails(w) \/ PipelineRaises(w) \/ RejectRunning(w) \/ RejectAbsent(w)
               \/ RejectQueued(w) \/ RejectNothing(w) \/ WorkerLost(w)
               \/ \E assessment \in {"available", "unavailable"} : StoreAssessment(w, assessment)
        PROVE  Finish(w)
    BY <1>8 DEF RecheckFails, PipelineRaises, RejectRunning, RejectAbsent, RejectQueued,
                RejectNothing, RejectFrom, WorkerLost, StoreAssessment
  <1>9. ASSUME UNCHANGED vars \/ \E w \in Workers, t \in Scans : StartWithoutRow(w, t)
        PROVE  UNCHANGED <<stage, job>>
    BY <1>9 DEF vars, workerVars, StartWithoutRow
  <1> HIDE DEF Goal
  <1>10. Goal
    BY <1>1, <1>2, <1>3, <1>4, <1>5, <1>6, <1>7, <1>8, <1>9, RequestsLeaveWorkers
       DEF Next, WorkerStep
  <1> QED BY <1>10 DEF Goal

\* Without a worker past the gate a scan gets no engine row.
LEMMA NoEngineRow ==
    ASSUME IndInv, [Next]_vars, NEW s \in Scans,
           \A w \in Workers : job[w] = s => stage[w] \notin PastTheGate
    PROVE  EngineRows(s)' = EngineRows(s)
  <1> USE DEF PastTheGate, Driving
  <1>0. /\ TypeOK
        /\ \A w \in Workers : stage[w] # "idle" => job[w] \in Scans
    BY DEF IndInv, TypeOK, WorkerTypes, JobsAndLocks
  <1>1. CASE UNCHANGED executions
    BY <1>1 DEF EngineRows
  <1>2. ASSUME NEW w \in Workers, RecheckFails(w)
        PROVE  EngineRows(s)' = EngineRows(s)
    <2>1. /\ job[w] \in Scans /\ NewExecution("unknown", "FAILED") \in Execution
          /\ NewExecution("unknown", "FAILED").tool # "engine"
      BY <1>0, <1>2, NewExecutionType DEF RecheckFails, NewExecution
    <2> QED BY <1>0, <1>2, <2>1, InsertRow DEF RecheckFails
  <1>3. ASSUME NEW w \in Workers, RejectRunning(w) \/ RejectQueued(w)
        PROVE  EngineRows(s)' = EngineRows(s)
    <2>1. /\ job[w] \in Scans /\ NewExecution("worker-unknown", "FAILED") \in Execution
          /\ NewExecution("worker-unknown", "FAILED").tool # "engine"
      BY <1>0, <1>3, NewExecutionType DEF RejectRunning, RejectQueued, NewExecution
    <2> QED BY <1>0, <1>3, <2>1, InsertRow DEF RejectRunning, RejectQueued, RejectFrom
  <1>4. ASSUME NEW w \in Workers, Begin(w)
        PROVE  EngineRows(s)' = EngineRows(s)
    <2>1. job[w] \in Scans /\ NewExecution("engine", "RUNNING") \in Execution
      BY <1>0, <1>4, NewExecutionType DEF Begin
    <2>2. job[w] # s
      BY <1>4 DEF Begin
    <2> QED BY <1>0, <1>4, <2>1, <2>2, InsertRow DEF Begin
  <1>5. ASSUME NEW w \in Workers, stage[w] \in Driving, NEW e, UpdateOwn(w, e)
        PROVE  EngineRows(s)' = EngineRows(s)
    <2>1. job[w] # s
      BY <1>5
    <2>2. executions'[s] = executions[s]
      BY <1>0, <1>5, <2>1 DEF TypeOK, RowTypes, UpdateOwn
    <2> QED BY <2>2 DEF EngineRows
  <1>6. ASSUME NEW w \in Workers,
               \/ PipelineRaises(w) \/ Persist(w)
               \/ \E assessment \in {"available", "unavailable"} : StoreAssessment(w, assessment)
        PROVE  stage[w] \in Driving /\ \E e : UpdateOwn(w, e)
    BY <1>6 DEF PipelineRaises, Persist, StoreAssessment
  <1>7. ASSUME NEW w \in Workers,
               \/ \E t \in Scans : StartWithoutRow(w, t) \/ StartJob(w, t) \/ StartRaises(w, t)
               \/ Claim(w) \/ RecheckPasses(w) \/ PipelineSucceeds(w) \/ RejectAbsent(w)
               \/ RejectNotRunning(w) \/ RejectNothing(w) \/ JobRaises(w) \/ WorkerLost(w)
        PROVE  UNCHANGED executions
    BY <1>7 DEF StartWithoutRow, StartJob, StartRaises, Claim, RecheckPasses, PipelineSucceeds,
                RejectAbsent, RejectNotRunning, RejectNothing, JobRaises, WorkerLost, scanVars
  <1>8. UNCHANGED vars => UNCHANGED executions
    BY DEF vars, scanVars
  <1> QED BY <1>1, <1>2, <1>3, <1>4, <1>5, <1>6, <1>7, <1>8, RequestsLeaveWorkers
          DEF Next, WorkerStep

\* From the moment the attestation of a queued scan that no worker has claimed
\* is revoked or expired, no engine ever runs for it.
THEOREM SecondGate == Spec => RevokedNeverRuns
  <1>1. Init => Authorized
    BY DEF Init, Authorized
  <1>2. IndInv /\ Authorized /\ [Next]_vars => Authorized'
    BY AuthorizationStep DEF IndInv
  <1>3. Spec => [](IndInv /\ Authorized)
    BY <1>1, <1>2, Invariance, PTL DEF Spec
  <1> SUFFICES ASSUME NEW s \in Scans
               PROVE  Spec => [](InactiveAndUnclaimed(s) => [](EngineRows(s) = {}))
    BY DEF RevokedNeverRuns
  <1>4. IndInv /\ Authorized /\ InactiveAndUnclaimed(s) => Refused(s)
    <2> SUFFICES ASSUME IndInv, Authorized, InactiveAndUnclaimed(s) PROVE Refused(s)
      OBVIOUS
    <2>1. status[s] = "QUEUED" /\ rowLock[s] = NoWorker /\ attestations[authorizedBy[s]] # "active"
      BY DEF InactiveAndUnclaimed, attestation_active
    <2>2. request[s] = "committed" /\ EngineRows(s) = {}
      BY <2>1 DEF IndInv, RowsAndRequests, Absent
    <2>3. attestations[authorizedBy[s]] \in {"expired", "revoked"}
      BY <2>1, <2>2 DEF IndInv, TypeOK, RequestTypes, Authorized, AttestationStates
    <2>4. \A w \in Workers : job[w] = s => stage[w] \notin PastTheGate
      BY <2>1, <2>2, ConstantsAssumption
         DEF IndInv, JobsAndLocks, DriversOwnTheirRow, OwnsItsRow, PastTheGate
    <2> QED BY <2>2, <2>3, <2>4 DEF Refused
  <1>5. IndInv /\ Authorized /\ Refused(s) /\ [Next]_vars => Refused(s)'
    <2> SUFFICES ASSUME IndInv, Authorized, Refused(s), [Next]_vars PROVE Refused(s)'
      OBVIOUS
    <2>1. EngineRows(s)' = {}
      BY NoEngineRow DEF Refused
    <2>2. authorizedBy[s] \in Attestations
      BY DEF Refused, Authorized
    <2>3. request'[s] = "committed" /\ attestations'[authorizedBy'[s]] \in {"expired", "revoked"}
      BY <2>2, AuthorizationStep DEF IndInv, Refused
    <2>4. \A w \in Workers : job'[w] = s => stage'[w] \notin PastTheGate
      BY GateStep DEF Refused, attestation_active
    <2> QED BY <2>1, <2>3, <2>4 DEF Refused
  <1>6. Refused(s) => EngineRows(s) = {}
    BY DEF Refused
  <1> QED BY <1>3, <1>4, <1>5, <1>6, PTL DEF Spec
=============================================================================
