--------------------------- MODULE RunLeaseProofs ---------------------------
(***************************************************************************)
(* Who executes a Session, for every number of Sessions, Runs and Workers: *)
(* Spec => []AcknowledgedHoldsLease and Spec => []ExecutionOwnsSession.    *)
(*                                                                         *)
(* A late Worker is kept out by what its claim and its fence are compared  *)
(* with.  The invariants below say what these comparisons are worth: a     *)
(* fence names one attempt, a current claim names one Worker, and the      *)
(* Worker of a retired Sandbox is dead.                                    *)
(***************************************************************************)
EXTENDS RunLifecycleProofs, FiniteSetTheorems

\* A Session's fence counts its leases, and each names one attempt.
FencesNameAttempts ==
  /\ \A s \in Sessions :
       lease[s].owner # NoWorker => lease[s].fence = fence[s] /\ fence[s] > 0
  /\ \A r \in Runs, a \in Claims : attempt[r][a].fence <= fence[SessionOf[r]]
  /\ \A q, r \in Runs, a, b \in Claims :
       (/\ SessionOf[q] = SessionOf[r]
        /\ attempt[q][a].fence = attempt[r][b].fence /\ attempt[q][a].fence # 0)
       => q = r /\ a = b

\* The phases of a dispatch after its claim is committed.
CommittedPhases == JobPhases \ {"none", "selected"}

\* A dispatch whose claim is current is the owner's, and has started if the Run
\* is acknowledged.
ClaimsOwned ==
  \A w \in Workers, r \in Runs :
    job[w][r].phase \in CommittedPhases =>
      /\ job[w][r].attempt \in Claims
      /\ HoldsClaim(w, r) =>
           /\ CurrentAttempt(r).owner = w
           /\ command[r] = "acknowledged" => job[w][r].phase \in StartedPhases

\* An acknowledged Run has an attempt.
AcknowledgedClaimed ==
  \A r \in Runs : command[r] = "acknowledged" => Current(r) \in Claims

\* An execution is one of an acknowledged Run, under its attempt's fence.
StartedHolds ==
  \A w \in Workers, r \in Runs :
    job[w][r].phase = "started" =>
      /\ HoldsClaim(w, r) /\ CurrentAttempt(r).fence = job[w][r].fence
      /\ command[r] = "acknowledged"

\* A started cancellation is the owner's, and its execution has ended when it
\* settles.
CancelsOwned ==
  \A w \in Workers, r \in Runs :
    /\ cancelJob[w][r].phase \in {"acknowledged", "confirmed", "unconfirmed"} =>
         /\ Current(r) \in Claims /\ CurrentAttempt(r).owner = w
         /\ command[r] \in {"acknowledged", "completed", "failed"}
    /\ cancelJob[w][r].phase \in {"confirmed", "unconfirmed"} =>
         job[w][r].phase # "started"

\* Only live processes have dispatches, and a retirement has killed its own.
ProcessesLive ==
  /\ \A w \in Workers, r \in Runs : job[w][r].phase # "none" => up[w]
  /\ \A w \in Workers : retirement[w].state \in {"stopped", "loaded"} => ~up[w]

OwnerInv ==
  /\ FencesNameAttempts /\ ClaimsOwned /\ AcknowledgedClaimed
  /\ AcknowledgedHoldsLease /\ StartedHolds /\ CancelsOwned /\ ProcessesLive

LeaseInv == TurnInv /\ OwnerInv

-----------------------------------------------------------------------------
(* Who writes what.                                                          *)

\* No attempt changes hands or fence, and none becomes current.
AttemptsKept ==
  /\ \A r \in Runs : Current(r)' = Current(r)
  /\ \A r \in Runs, a \in Claims :
       /\ attempt'[r][a].owner = attempt[r][a].owner
       /\ attempt'[r][a].fence = attempt[r][a].fence

LEMMA MovedAttempt ==
  ASSUME TypeOK, NEW r \in Runs, NEW c, NEW state,
         attempt' = [attempt EXCEPT ![r][c].state = state]
  PROVE  \A q \in Runs, a \in Claims :
           /\ attempt'[q][a].owner = attempt[q][a].owner
           /\ attempt'[q][a].fence = attempt[q][a].fence
           /\ attempt'[q][a].state =
                IF q = r /\ a = c THEN state ELSE attempt[q][a].state
  <1> SUFFICES ASSUME NEW q \in Runs, NEW a \in Claims
               PROVE  /\ attempt'[q][a].owner = attempt[q][a].owner
                      /\ attempt'[q][a].fence = attempt[q][a].fence
                      /\ attempt'[q][a].state =
                           IF q = r /\ a = c THEN state ELSE attempt[q][a].state
    OBVIOUS
  <1>1. attempt \in [Runs -> [Claims -> AttemptRow]] /\ attempt[q][a] \in AttemptRow
    BY DEF TypeOK, RunTypes
  <1>2. attempt'[q][a] = IF q = r /\ a = c THEN [attempt[q][a] EXCEPT !.state = state]
                                           ELSE attempt[q][a]
    BY <1>1
  <1> QED BY <1>1, <1>2 DEF AttemptRow

LEMMA UnchangedAttempts ==
  ASSUME UNCHANGED <<attempt, outbox>>
  PROVE  AttemptsKept
  BY DEF AttemptsKept, Current

LEMMA RowWritesKeepAttempts ==
  ASSUME TypeOK, NEW w \in Workers, NEW r \in Runs,
         MovesTurn(w, r) \/ \E phase \in ExecutingStates : ObservePhase(w, r, phase)
  PROVE  AttemptsKept
  <1>1. PICK state : attempt' = [attempt EXCEPT ![r][Current(r)].state = state]
    BY DEF MovesTurn, MarkStarted, Complete, RecordRetry,
       RecordFailureBeforeStart, RecordFailureAfterStart,
       CancelMarkStarted, CancelComplete, CancelRecordFailureAfterStart,
       ObservePhase, MoveRun
  <1>2. \/ outbox' = outbox
        \/ outbox' = [outbox EXCEPT ![r].available = TRUE]
        \/ outbox' = [outbox EXCEPT ![r].published = TRUE]
    BY DEF MovesTurn, MarkStarted, Complete, RecordRetry,
       RecordFailureBeforeStart, RecordFailureAfterStart,
       CancelMarkStarted, CancelComplete, CancelRecordFailureAfterStart,
       ObservePhase
  <1>3. \A q \in Runs : Current(q)' = Current(q)
    BY <1>2, OutboxKeepsAttempts DEF Current
  <1>4. \A q \in Runs, a \in Claims : /\ attempt'[q][a].owner = attempt[q][a].owner
                                      /\ attempt'[q][a].fence = attempt[q][a].fence
    BY <1>1, MovedAttempt
  <1> QED BY <1>3, <1>4 DEF AttemptsKept

LEMMA RetirementKeepsAttempts ==
  ASSUME TypeOK, NEW w \in Workers, FinalizeRetirement(w)
  PROVE  AttemptsKept
  <1>1. ASSUME NEW r \in Runs
        PROVE  Current(r)' = Current(r)
    <2>1. outbox[r] \in OutboxRow
      BY DEF TypeOK, RunTypes
    <2>2. outbox'[r].attempts = outbox[r].attempts
      BY <2>1 DEF FinalizeRetirement, OutboxRow
    <2> QED BY <2>2 DEF Current
  <1>2. ASSUME NEW r \in Runs, NEW a \in Claims
        PROVE  /\ attempt'[r][a].owner = attempt[r][a].owner
               /\ attempt'[r][a].fence = attempt[r][a].fence
    <2>1. attempt[r][a] \in AttemptRow
      BY DEF TypeOK, RunTypes
    <2>2. attempt'[r][a] \in {attempt[r][a], [attempt[r][a] EXCEPT !.state = "failed"]}
      BY DEF FinalizeRetirement
    <2> QED BY <2>1, <2>2 DEF AttemptRow
  <1> QED BY <1>1, <1>2 DEF AttemptsKept

LEMMA NextAttempts ==
  ASSUME TypeOK, [Next]_vars
  PROVE  \/ \E w \in Workers, r \in Runs : ClaimCommit(w, r) \/ Acquire(w, r)
         \/ AttemptsKept
  <1>1. CASE \E w \in Workers, r \in Runs :
               \/ ClaimSelect(w, r) \/ Dispatch(w, r) \/ CancelDispatch(w, r)
               \/ Execution(w, r) \/ Fault(w, r)
    <2>1. PICK w \in Workers, r \in Runs :
               \/ ClaimSelect(w, r) \/ Dispatch(w, r) \/ CancelDispatch(w, r)
               \/ Execution(w, r) \/ Fault(w, r)
      BY <1>1
    <2>2. CASE ClaimSelect(w, r) \/ Execution(w, r) \/ Fault(w, r)
      <3>1. \/ UNCHANGED <<attempt, outbox>>
            \/ \E phase \in ExecutingStates : ObservePhase(w, r, phase)
        BY <2>2 DEF ClaimSelect, Execution, EmitEvents, SaveCheckpoint, Fault,
           DeliveryRejected, BarrierTimesOut, CommitAborts, runVars
      <3> QED BY <3>1, UnchangedAttempts, RowWritesKeepAttempts
    <2>3. CASE Dispatch(w, r)
      <3>1. \/ UNCHANGED <<attempt, outbox>>
            \/ ClaimCommit(w, r) \/ Acquire(w, r) \/ MovesTurn(w, r)
        BY <2>3 DEF Dispatch, MovesTurn, ClaimBlocked, AcquireFails,
           MarkStartedFails, ExecutionEnds, HeartbeatRevokes, CompleteFails,
           RecordFailureStale, runVars
      <3> QED BY <3>1, UnchangedAttempts, RowWritesKeepAttempts
    <2>4. CASE CancelDispatch(w, r)
      <3>1. UNCHANGED <<attempt, outbox>> \/ MovesTurn(w, r)
        BY <2>4 DEF CancelDispatch, MovesTurn, ScanCancel, ClaimCancel,
           CancelAssign, CancelMarkStartedFails, CancelExecution,
           CancelSettleFails, CancelRecordFailureBeforeStart, runVars
      <3> QED BY <3>1, UnchangedAttempts, RowWritesKeepAttempts
    <2> QED BY <2>1, <2>2, <2>3, <2>4
  <1>2. CASE \E w \in Workers : HeartbeatFails(w) \/ WorkerCrashes(w) \/ Retire(w)
    <2>1. PICK w \in Workers :
            UNCHANGED <<attempt, outbox>> \/ FinalizeRetirement(w)
      BY <1>2 DEF HeartbeatFails, WorkerCrashes, Retire, FenceSandbox,
         StopAndConfirm, LoadAssignments, RetirementFails, runVars
    <2> QED BY <2>1, UnchangedAttempts, RetirementKeepsAttempts
  <1>3. CASE \E r \in Runs : AcceptTurn(r) \/ ClaimExpires(r)
    <2>1. PICK r \in Runs : AcceptTurn(r) \/ ClaimExpires(r)
      BY <1>3
    <2>2. UNCHANGED attempt /\ outbox' = [outbox EXCEPT ![r].available = TRUE]
      BY <2>1 DEF AcceptTurn, ClaimExpires
    <2>3. \A q \in Runs : Current(q)' = Current(q)
      BY <2>2, OutboxKeepsAttempts DEF Current
    <2> QED BY <2>2, <2>3 DEF AttemptsKept
  <1>4. CASE \/ UNCHANGED vars
             \/ \E r \in Runs : AcceptTurnCancellation(r) \/ CancelExpires(r)
             \/ \E k \in Workspaces : ToggleWorkspace(k)
             \/ \E s \in Sessions : LeaseExpires(s) \/ ProjectEvents(s)
    <2>1. UNCHANGED <<attempt, outbox>>
      BY <1>4 DEF vars, AcceptTurnCancellation, CancelExpires, ToggleWorkspace,
         LeaseExpires, ProjectEvents, runVars
    <2> QED BY <2>1, UnchangedAttempts
  <1> QED BY <1>1, <1>2, <1>3, <1>4 DEF Next

\* Why a step may remove the lease of a Session.
SettlesLeased(w, r) ==
  Complete(w, r) \/ RecordFailureAfterStart(w, r) \/ CancelComplete(w, r)

LeaseEnds(s) ==
  \/ \E w \in Workers, r \in Runs :
       /\ SessionOf[r] = s
       /\ \/ job[w][r].phase = "leased" /\ HoldsLease(w, r)
          \/ SettlesLeased(w, r)
  \/ \E w \in Workers : FinalizeRetirement(w) /\ s \in Orphaned(w)

LeaseKept(s) ==
  lease'[s].owner = lease[s].owner /\ lease'[s].fence = lease[s].fence

\* Apart from the acquisition leases only end.
LeasesKept ==
  /\ UNCHANGED fence
  /\ \A s \in Sessions : LeaseKept(s) \/ (lease'[s] = NoLease /\ LeaseEnds(s))

LEMMA UnchangedLeases ==
  ASSUME UNCHANGED <<fence, lease>>
  PROVE  LeasesKept
  BY DEF LeasesKept, LeaseKept

LEMMA ReleasedLeases ==
  ASSUME TypeOK, NEW w \in Workers, NEW r \in Runs, UNCHANGED fence,
         ReleaseLease(SessionOf[r]), LeaseEnds(SessionOf[r])
  PROVE  LeasesKept
  <1>1. /\ lease'[SessionOf[r]] = NoLease
        /\ \A s \in Sessions : s # SessionOf[r] => lease'[s] = lease[s]
    BY ConstantsAssumption DEF ReleaseLease, TypeOK, LeaseTypes, ConstantsAssumption
  <1> QED BY <1>1 DEF LeasesKept, LeaseKept

LEMMA NextLeases ==
  ASSUME TypeOK, [Next]_vars
  PROVE  (\E w \in Workers, r \in Runs : Acquire(w, r)) \/ LeasesKept
  <1>1. ASSUME NEW w \in Workers, NEW r \in Runs, UNCHANGED fence,
               job[w][r].phase = "leased", ReleaseAcquired(w, r)
        PROVE  LeasesKept
    <2>1. CASE HoldsLease(w, r) /\ Releasable(SessionOf[r])
      <3>1. ReleaseLease(SessionOf[r]) /\ LeaseEnds(SessionOf[r])
        BY <1>1, <2>1 DEF ReleaseAcquired, LeaseEnds
      <3> QED BY <1>1, <3>1, ReleasedLeases
    <2> QED BY <1>1, <2>1, UnchangedLeases DEF ReleaseAcquired, leaseVars
  <1>2. CASE \E w \in Workers, r \in Runs :
               \/ ClaimSelect(w, r) \/ Dispatch(w, r) \/ CancelDispatch(w, r)
               \/ Execution(w, r) \/ Fault(w, r)
    <2>1. PICK w \in Workers, r \in Runs :
               \/ ClaimSelect(w, r) \/ Dispatch(w, r) \/ CancelDispatch(w, r)
               \/ Execution(w, r) \/ Fault(w, r)
      BY <1>2
    <2>2. CASE ClaimSelect(w, r) \/ Execution(w, r) \/ Fault(w, r)
      <3>1. \/ UNCHANGED <<fence, lease>>
            \/ \E phase \in {"rejected", "refused"} : DeliveryRejected(w, r, phase)
        BY <2>2 DEF ClaimSelect, Execution, EmitEvents, SaveCheckpoint, Fault,
           BarrierTimesOut, CommitAborts, ObservePhase, sessionVars, leaseVars
      <3>2. \A phase : DeliveryRejected(w, r, phase) => LeasesKept
        BY <1>1 DEF DeliveryRejected, sessionVars
      <3> QED BY <3>1, <3>2, UnchangedLeases
    <2>3. CASE Dispatch(w, r)
      <3>1. \/ UNCHANGED <<fence, lease>> \/ Acquire(w, r) \/ MarkStartedFails(w, r)
            \/ Complete(w, r) \/ RecordFailureAfterStart(w, r)
        BY <2>3 DEF Dispatch, ClaimCommit, ClaimBlocked, AcquireFails,
           MarkStarted, ExecutionEnds, HeartbeatRevokes, CompleteFails,
           RecordRetry, RecordFailureBeforeStart, RecordFailureStale,
           sessionVars, leaseVars
      <3>2. MarkStartedFails(w, r) => LeasesKept
        BY <1>1 DEF MarkStartedFails, sessionVars
      <3>3. CASE Complete(w, r) \/ RecordFailureAfterStart(w, r)
        <4>1. ReleaseLease(SessionOf[r]) /\ UNCHANGED fence
          BY <3>3 DEF Complete, RecordFailureAfterStart
        <4> QED BY <3>3, <4>1, ReleasedLeases DEF LeaseEnds, SettlesLeased
      <3> QED BY <3>1, <3>2, <3>3, UnchangedLeases
    <2>4. CASE CancelDispatch(w, r)
      <3>1. UNCHANGED <<fence, lease>> \/ CancelComplete(w, r)
        BY <2>4 DEF CancelDispatch, ScanCancel, ClaimCancel, CancelAssign,
           CancelMarkStarted, CancelMarkStartedFails, CancelExecution,
           CancelSettleFails, CancelRecordFailureBeforeStart,
           CancelRecordFailureAfterStart, sessionVars, leaseVars
      <3>2. CASE CancelComplete(w, r)
        <4>1. ReleaseLease(SessionOf[r]) /\ UNCHANGED fence
          BY <3>2 DEF CancelComplete
        <4> QED BY <3>2, <4>1, ReleasedLeases DEF LeaseEnds, SettlesLeased
      <3> QED BY <3>1, <3>2, UnchangedLeases
    <2> QED BY <2>1, <2>2, <2>3, <2>4
  <1>3. CASE \E w \in Workers : HeartbeatFails(w) \/ WorkerCrashes(w) \/ Retire(w)
    <2>1. PICK w \in Workers : UNCHANGED <<fence, lease>> \/ FinalizeRetirement(w)
      BY <1>3 DEF HeartbeatFails, WorkerCrashes, Retire, FenceSandbox,
         StopAndConfirm, LoadAssignments, RetirementFails, sessionVars, leaseVars
    <2>2. FinalizeRetirement(w) =>
            /\ UNCHANGED fence
            /\ \A s \in Sessions :
                 lease'[s] = IF s \in Orphaned(w) THEN NoLease ELSE lease[s]
      BY DEF FinalizeRetirement
    <2> QED BY <2>1, <2>2, UnchangedLeases DEF LeasesKept, LeaseKept, LeaseEnds
  <1>4. CASE \E s \in Sessions : LeaseExpires(s)
    <2>1. PICK s \in Sessions : LeaseExpires(s)
      BY <1>4
    <2>2. /\ UNCHANGED fence
          /\ \A t \in Sessions : lease[t] \in LeaseRow
          /\ \A t \in Sessions :
               lease'[t] \in {lease[t], [lease[t] EXCEPT !.live = FALSE]}
      BY <2>1 DEF LeaseExpires, sessionVars, TypeOK, LeaseTypes
    <2> QED BY <2>2 DEF LeasesKept, LeaseKept, LeaseRow
  <1>5. CASE \/ UNCHANGED vars
             \/ \E r \in Runs : \/ AcceptTurn(r) \/ AcceptTurnCancellation(r)
                                \/ ClaimExpires(r) \/ CancelExpires(r)
             \/ \E k \in Workspaces : ToggleWorkspace(k)
             \/ \E s \in Sessions : ProjectEvents(s)
    <2>1. UNCHANGED <<fence, lease>>
      BY <1>5 DEF vars, AcceptTurn, AcceptTurnCancellation, ClaimExpires,
         CancelExpires, ToggleWorkspace, ProjectEvents, sessionVars, leaseVars
    <2> QED BY <2>1, UnchangedLeases
  <1> QED BY <1>2, <1>3, <1>4, <1>5 DEF Next

\* A step that starts or ends an acknowledged Run.
LEMMA AcknowledgedMoves ==
  ASSUME IInv, [Next]_vars, NEW r \in Runs
  PROVE  /\ (command'[r] = "acknowledged" /\ command[r] # "acknowledged") =>
              \E w \in Workers : MarkStarted(w, r)
         /\ (command[r] = "acknowledged" /\ command'[r] # "acknowledged") =>
              \/ \E w \in Workers :
                   SettlesLeased(w, r) \/ CancelRecordFailureAfterStart(w, r)
              \/ \E w \in Workers : FinalizeRetirement(w) /\ r \in OrphanedRuns(w)
  <1> DEFINE Goal ==
        /\ (command'[r] = "acknowledged" /\ command[r] # "acknowledged") =>
             \E w \in Workers : MarkStarted(w, r)
        /\ (command[r] = "acknowledged" /\ command'[r] # "acknowledged") =>
             \/ \E w \in Workers :
                  SettlesLeased(w, r) \/ CancelRecordFailureAfterStart(w, r)
             \/ \E w \in Workers : FinalizeRetirement(w) /\ r \in OrphanedRuns(w)
  <1>1. command \in [Runs -> CommandStates]
    BY DEF IInv, TypeOK, RunTypes
  <1>2. ASSUME NEW q \in Runs, AcceptTurn(q)
        PROVE  Goal
    <2>1. command[q] = "absent"
      BY <1>2 DEF AcceptTurn, IInv, RowsAgree, RowAgrees, TerminalRunStates
    <2> QED BY <1>1, <1>2, <2>1 DEF AcceptTurn
  <1>3. ASSUME NEW w \in Workers, NEW q \in Runs, ClaimSelect(w, q) \/ ClaimCommit(w, q)
        PROVE  Goal
    <2>1. CASE ClaimSelect(w, q)
      BY <2>1 DEF ClaimSelect, runVars
    <2>2. CASE ClaimCommit(w, q)
      <3>1. command[q] \in {"pending", "dispatched"}
        BY <2>2 DEF ClaimCommit, IInv, OpenClaimIsCurrent
      <3> QED BY <1>1, <2>2, <3>1 DEF ClaimCommit
    <2> QED BY <1>3, <2>1, <2>2
  <1>4. ASSUME NEW w \in Workers, NEW q \in Runs, MovesTurn(w, q)
        PROVE  Goal
    <2>1. CASE MarkStarted(w, q)
      BY <1>1, <2>1 DEF MarkStarted
    <2>2. CASE RecordRetry(w, q) \/ RecordFailureBeforeStart(w, q)
      <3>1. command[q] = "dispatched"
        BY <2>2 DEF RecordRetry, RecordFailureBeforeStart, Unacknowledged
      <3> QED BY <1>1, <2>2, <3>1 DEF RecordRetry, RecordFailureBeforeStart
    <2>3. CASE CancelMarkStarted(w, q)
      BY <2>3 DEF CancelMarkStarted
    <2>4. CASE SettlesLeased(w, q) \/ CancelRecordFailureAfterStart(w, q)
      <3>1. \/ command' = [command EXCEPT ![q] = "completed"]
            \/ command' = [command EXCEPT ![q] = "failed"]
        BY <2>4 DEF SettlesLeased, Complete, RecordFailureAfterStart,
           CancelComplete, CancelRecordFailureAfterStart, Settle
      <3>2. \A p \in Runs : /\ command'[p] = "acknowledged" => command[p] = "acknowledged"
                            /\ p # q => command'[p] = command[p]
        BY <1>1, <3>1
      <3> QED BY <2>4, <3>2
    <2> QED BY <1>4, <2>1, <2>2, <2>3, <2>4 DEF MovesTurn, SettlesLeased
  <1>5. ASSUME NEW w \in Workers, FinalizeRetirement(w)
        PROVE  Goal
    <2>1. command'[r] = IF r \in RequeuedRuns(w) THEN "pending"
                        ELSE IF r \in LostRuns(w) THEN "failed" ELSE command[r]
      BY <1>5 DEF FinalizeRetirement
    <2>2. r \in RequeuedRuns(w) \cup LostRuns(w) => r \in OrphanedRuns(w)
      BY DEF RequeuedRuns, LostRuns
    <2> QED BY <1>5, <2>1, <2>2
  <1>6. TurnsRest => Goal
    BY DEF TurnsRest
  <1> QED BY <1>2, <1>3, <1>4, <1>5, <1>6, NextKinds

\* A started cancellation begins with its ACK and goes on to its outcome, which
\* leaves no execution.
StartedCancel == {"acknowledged", "confirmed", "unconfirmed"}

CancelFrame(w, r) ==
  cancelJob'[w][r].phase \in StartedCancel =>
    \/ cancelJob'[w][r].phase = cancelJob[w][r].phase
    \/ cancelJob'[w][r].phase = "acknowledged" /\ CancelMarkStarted(w, r)
    \/ /\ cancelJob[w][r].phase = "acknowledged"
       /\ job'[w][r].phase # "started"

LEMMA UnchangedCancels ==
  ASSUME UNCHANGED cancelJob, NEW w \in Workers, NEW r \in Runs
  PROVE  CancelFrame(w, r)
  BY DEF CancelFrame

LEMMA CancelPhaseFrame ==
  ASSUME TypeOK, NEW w \in Workers, NEW r \in Runs, NEW phase,
         \/ SetCancelPhase(w, r, phase) /\ phase \notin StartedCancel
         \/ EndCancelJob(w, r),
         NEW v \in Workers, NEW q \in Runs
  PROVE  CancelFrame(v, q)
  <1>1. cancelJob \in [Workers -> [Runs -> CancelJobRecord]]
        /\ cancelJob[w][r] \in CancelJobRecord
    BY DEF TypeOK, CancelTypes
  <1>2. CASE SetCancelPhase(w, r, phase) /\ phase \notin StartedCancel
    <2>1. cancelJob'[v][q] = IF v = w /\ q = r
                             THEN [cancelJob[w][r] EXCEPT !.phase = phase]
                             ELSE cancelJob[v][q]
      BY <1>1, <1>2 DEF SetCancelPhase
    <2>2. [cancelJob[w][r] EXCEPT !.phase = phase].phase = phase
      BY <1>1 DEF CancelJobRecord
    <2> QED BY <1>2, <2>1, <2>2 DEF CancelFrame
  <1>3. CASE EndCancelJob(w, r)
    <2>1. cancelJob'[v][q] = IF v = w /\ q = r THEN NoCancelJob ELSE cancelJob[v][q]
      BY <1>1, <1>3 DEF EndCancelJob
    <2> QED BY <2>1 DEF CancelFrame, NoCancelJob, StartedCancel
  <1> QED BY <1>2, <1>3

LEMMA CancelDispatchFrame ==
  ASSUME TypeOK, NEW w \in Workers, NEW r \in Runs, CancelDispatch(w, r),
         NEW v \in Workers, NEW q \in Runs
  PROVE  CancelFrame(v, q)
  <1>1. cancelJob \in [Workers -> [Runs -> CancelJobRecord]]
        /\ cancelJob[w][r] \in CancelJobRecord
    BY DEF TypeOK, CancelTypes
  <1>2. CASE \/ ScanCancel(w, r) \/ CancelMarkStartedFails(w, r) \/ CancelComplete(w, r)
             \/ CancelSettleFails(w, r) \/ CancelRecordFailureBeforeStart(w, r)
             \/ CancelRecordFailureAfterStart(w, r)
    <2>1. \/ SetCancelPhase(w, r, "scanned") \/ SetCancelPhase(w, r, "refused")
          \/ EndCancelJob(w, r)
      BY <1>2 DEF ScanCancel, CancelMarkStartedFails, CancelComplete,
         CancelSettleFails, CancelRecordFailureBeforeStart,
         CancelRecordFailureAfterStart
    <2> QED BY <2>1, CancelPhaseFrame DEF StartedCancel
  <1>3. CASE ClaimCancel(w, r)
    <2>1. v # w \/ q # r => cancelJob'[v][q] = cancelJob[v][q]
      BY <1>1, <1>3 DEF ClaimCancel
    <2>2. cancelJob'[w][r].phase = "claimed"
      BY <1>1, <1>3 DEF ClaimCancel
    <2> QED BY <2>1, <2>2 DEF CancelFrame, StartedCancel
  <1>4. CASE CancelAssign(w, r)
    <2>1. v # w \/ q # r => cancelJob'[v][q] = cancelJob[v][q]
      BY <1>1, <1>4 DEF CancelAssign, SetCancelPhase
    <2>2. cancelJob'[w][r].phase \in {"assigned", "refused", "rejected"}
      <3>1. CASE SetCancelPhase(w, r, "refused") \/ SetCancelPhase(w, r, "rejected")
        <4>1. \A x : [cancelJob[w][r] EXCEPT !.phase = x].phase = x
          BY <1>1 DEF CancelJobRecord
        <4> QED BY <1>1, <3>1, <4>1 DEF SetCancelPhase
      <3>2. CASE cancelJob' = [cancelJob EXCEPT ![w][r].phase = "assigned",
                                                ![w][r].fence = fence[SessionOf[r]]]
        <4>1. cancelJob'[w][r] = [cancelJob[w][r] EXCEPT !.phase = "assigned",
                                                         !.fence = fence[SessionOf[r]]]
          BY <1>1, <3>2
        <4>2. [cancelJob[w][r] EXCEPT !.phase = "assigned",
                                      !.fence = fence[SessionOf[r]]].phase = "assigned"
          BY <1>1 DEF CancelJobRecord
        <4> QED BY <4>1, <4>2
      <3> QED BY <1>4, <3>1, <3>2 DEF CancelAssign
    <2> QED BY <2>1, <2>2 DEF CancelFrame, StartedCancel
  <1>5. CASE CancelMarkStarted(w, r)
    <2>1. v # w \/ q # r => cancelJob'[v][q] = cancelJob[v][q]
      BY <1>1, <1>5 DEF CancelMarkStarted, SetCancelPhase
    <2>2. cancelJob'[w][r].phase = "acknowledged"
      <3>1. [cancelJob[w][r] EXCEPT !.phase = "acknowledged"].phase = "acknowledged"
        BY <1>1 DEF CancelJobRecord
      <3> QED BY <1>1, <1>5, <3>1 DEF CancelMarkStarted, SetCancelPhase
    <2> QED BY <1>5, <2>1, <2>2 DEF CancelFrame
  <1>6. CASE \E phase \in {"confirmed", "unconfirmed"} : CancelExecution(w, r, phase)
    <2>1. v # w \/ q # r => cancelJob'[v][q] = cancelJob[v][q]
      BY <1>1, <1>6 DEF CancelExecution, SetCancelPhase
    <2>2. cancelJob[w][r].phase = "acknowledged"
      BY <1>6 DEF CancelExecution
    <2>3. job'[w][r].phase # "started"
      BY <1>6 DEF CancelExecution, EndJob, NoJob, TypeOK, JobTypes
    <2> QED BY <2>1, <2>2, <2>3 DEF CancelFrame
  <1> QED BY <1>2, <1>3, <1>4, <1>5, <1>6 DEF CancelDispatch

LEMMA NextCancels ==
  ASSUME TypeOK, [Next]_vars
  PROVE  \A v \in Workers, q \in Runs : CancelFrame(v, q)
  <1> SUFFICES ASSUME NEW v \in Workers, NEW q \in Runs
               PROVE  CancelFrame(v, q)
    OBVIOUS
  <1>1. CASE \E w \in Workers, r \in Runs :
               \/ ClaimSelect(w, r) \/ Dispatch(w, r) \/ CancelDispatch(w, r)
               \/ Execution(w, r) \/ Fault(w, r)
    <2>1. PICK w \in Workers, r \in Runs :
               \/ ClaimSelect(w, r) \/ Dispatch(w, r) \/ CancelDispatch(w, r)
               \/ Execution(w, r) \/ Fault(w, r)
      BY <1>1
    <2>2. CASE ClaimSelect(w, r) \/ Execution(w, r) \/ Fault(w, r)
      <3>1. UNCHANGED cancelJob
        BY <2>2 DEF ClaimSelect, Execution, EmitEvents, SaveCheckpoint, ObservePhase,
           Fault, DeliveryRejected, BarrierTimesOut, CommitAborts, cancelVars
      <3> QED BY <3>1, UnchangedCancels
    <2>3. CASE Dispatch(w, r)
      <3>1. UNCHANGED cancelJob
        BY <2>3 DEF Dispatch, ClaimCommit, ClaimBlocked, Acquire, AcquireFails,
           MarkStarted, MarkStartedFails, ExecutionEnds, HeartbeatRevokes,
           Complete, CompleteFails, RecordRetry, RecordFailureBeforeStart,
           RecordFailureAfterStart, RecordFailureStale, cancelVars
      <3> QED BY <3>1, UnchangedCancels
    <2> QED BY <2>1, <2>2, <2>3, CancelDispatchFrame
  <1>2. CASE \E w \in Workers : HeartbeatFails(w) \/ WorkerCrashes(w) \/ Retire(w)
    <2>1. PICK w \in Workers : UNCHANGED cancelJob \/ Kill(w)
      BY <1>2 DEF HeartbeatFails, WorkerCrashes, Retire, FenceSandbox,
         StopAndConfirm, LoadAssignments, FinalizeRetirement, RetirementFails,
         cancelVars
    <2>2. Kill(w) => cancelJob'[v][q] \in {cancelJob[v][q], NoCancelJob}
      BY DEF Kill, TypeOK, CancelTypes
    <2> QED BY <2>1, <2>2, UnchangedCancels DEF CancelFrame, NoCancelJob, StartedCancel
  <1>3. CASE \/ UNCHANGED vars
             \/ \E r \in Runs : \/ AcceptTurn(r) \/ AcceptTurnCancellation(r)
                                \/ ClaimExpires(r) \/ CancelExpires(r)
             \/ \E k \in Workspaces : ToggleWorkspace(k)
             \/ \E s \in Sessions : LeaseExpires(s) \/ ProjectEvents(s)
    <2>1. UNCHANGED cancelJob
      BY <1>3 DEF vars, AcceptTurn, AcceptTurnCancellation, ClaimExpires,
         CancelExpires, ToggleWorkspace, LeaseExpires, ProjectEvents, cancelVars
    <2> QED BY <2>1, UnchangedCancels
  <1> QED BY <1>1, <1>2, <1>3 DEF Next

\* A dispatch of a started phase has been in it before, or starts now.
StartFrame(w, r) ==
  job'[w][r].phase = "started" =>
    job'[w][r] = job[w][r] \/ MarkStarted(w, r)

LEMMA QuietStarts ==
  ASSUME TypeOK, NEW w \in Workers, NEW r \in Runs, NEW phase,
         \/ UNCHANGED job \/ EndJob(w, r)
         \/ SetPhase(w, r, phase) /\ phase # "started",
         NEW v \in Workers, NEW q \in Runs
  PROVE  StartFrame(v, q)
  <1>1. job \in [Workers -> [Runs -> JobRecord]] /\ job[w][r] \in JobRecord
    BY DEF TypeOK, JobTypes
  <1>2. CASE UNCHANGED job
    BY <1>2 DEF StartFrame
  <1>3. CASE EndJob(w, r)
    <2>1. job'[v][q] = IF v = w /\ q = r THEN NoJob ELSE job[v][q]
      BY <1>1, <1>3 DEF EndJob
    <2> QED BY <2>1 DEF StartFrame, NoJob
  <1>4. CASE SetPhase(w, r, phase) /\ phase # "started"
    <2>1. job'[v][q] = IF v = w /\ q = r THEN [job[w][r] EXCEPT !.phase = phase]
                                         ELSE job[v][q]
      BY <1>1, <1>4 DEF SetPhase
    <2>2. [job[w][r] EXCEPT !.phase = phase].phase = phase
      BY <1>1 DEF JobRecord
    <2> QED BY <1>4, <2>1, <2>2 DEF StartFrame
  <1> QED BY <1>2, <1>3, <1>4

LEMMA MarkStartedJobs ==
  ASSUME TypeOK, NEW w \in Workers, NEW r \in Runs, MarkStarted(w, r)
  PROVE  /\ job'[w][r].phase = "started"
         /\ job'[w][r].attempt = job[w][r].attempt
         /\ job'[w][r].fence = job[w][r].fence
         /\ \A v \in Workers, q \in Runs : v # w \/ q # r => job'[v][q] = job[v][q]
  <1>1. job \in [Workers -> [Runs -> JobRecord]] /\ job[w][r] \in JobRecord
    BY DEF TypeOK, JobTypes
  <1>2. \A v \in Workers, q \in Runs :
          job'[v][q] = IF v = w /\ q = r THEN [job[w][r] EXCEPT !.phase = "started"]
                                         ELSE job[v][q]
    BY <1>1 DEF MarkStarted, SetPhase
  <1> QED BY <1>1, <1>2 DEF JobRecord

LEMMA NextStarts ==
  ASSUME TypeOK, [Next]_vars
  PROVE  \A v \in Workers, q \in Runs : StartFrame(v, q)
  <1> SUFFICES ASSUME NEW v \in Workers, NEW q \in Runs
               PROVE  StartFrame(v, q)
    OBVIOUS
  <1>1. UNCHANGED job => StartFrame(v, q)
    BY DEF StartFrame
  <1>2. CASE \E w \in Workers, r \in Runs :
               \/ ClaimSelect(w, r) \/ Dispatch(w, r) \/ CancelDispatch(w, r)
               \/ Execution(w, r) \/ Fault(w, r)
    <2>1. PICK w \in Workers, r \in Runs :
               \/ ClaimSelect(w, r) \/ Dispatch(w, r) \/ CancelDispatch(w, r)
               \/ Execution(w, r) \/ Fault(w, r)
      BY <1>2
    <2>2. ASSUME NEW phase,
                 \/ UNCHANGED job \/ EndJob(w, r)
                 \/ SetPhase(w, r, phase) /\ phase # "started"
          PROVE  StartFrame(v, q)
      BY <2>2, QuietStarts
    <2>3. ClaimSelect(w, r) => StartFrame(v, q)
      <3>1. ClaimSelect(w, r) =>
              job'[v][q] = job[v][q] \/ job'[v][q].phase = "selected"
        BY DEF ClaimSelect, TypeOK, JobTypes
      <3> QED BY <3>1 DEF StartFrame
    <2>4. Acquire(w, r) => StartFrame(v, q)
      <3>1. ASSUME Acquire(w, r)
            PROVE  StartFrame(v, q)
        <4>1. job \in [Workers -> [Runs -> JobRecord]] /\ job[w][r] \in JobRecord
          BY DEF TypeOK, JobTypes
        <4>2. v # w \/ q # r => job'[v][q] = job[v][q]
          BY <3>1, <4>1 DEF Acquire
        <4>3. job'[w][r] = [job[w][r] EXCEPT !.phase = "leased",
                                             !.fence = fence[SessionOf[r]] + 1]
          BY <3>1, <4>1 DEF Acquire
        <4>4. [job[w][r] EXCEPT !.phase = "leased",
                                !.fence = fence[SessionOf[r]] + 1].phase = "leased"
          BY <4>1 DEF JobRecord
        <4> QED BY <4>2, <4>3, <4>4 DEF StartFrame
      <3> QED BY <3>1
    <2>5. MarkStarted(w, r) => StartFrame(v, q)
      BY MarkStartedJobs DEF StartFrame
    <2>6. CASE Dispatch(w, r)
      <3>1. \/ Acquire(w, r) \/ MarkStarted(w, r)
            \/ UNCHANGED job \/ EndJob(w, r)
            \/ \E phase : SetPhase(w, r, phase) /\ phase # "started"
        BY <2>6 DEF Dispatch, ClaimCommit, ClaimBlocked, AcquireFails,
           MarkStartedFails, ExecutionEnds, HeartbeatRevokes, Complete,
           CompleteFails, RecordRetry, RecordFailureBeforeStart,
           RecordFailureAfterStart, RecordFailureStale
      <3> QED BY <3>1, <2>2, <2>4, <2>5
    <2>7. CASE CancelDispatch(w, r) \/ Execution(w, r) \/ Fault(w, r)
      <3>1. UNCHANGED job \/ EndJob(w, r)
            \/ \E phase : SetPhase(w, r, phase) /\ phase # "started"
        BY <2>7 DEF CancelDispatch, ScanCancel, ClaimCancel, CancelAssign,
           CancelMarkStarted, CancelMarkStartedFails, CancelExecution,
           CancelComplete, CancelSettleFails, CancelRecordFailureBeforeStart,
           CancelRecordFailureAfterStart, Execution, EmitEvents, ObservePhase,
           SaveCheckpoint, Fault, DeliveryRejected, BarrierTimesOut, CommitAborts
      <3> QED BY <3>1, <2>2
    <2> QED BY <2>1, <2>3, <2>6, <2>7
  <1>3. CASE \E w \in Workers : HeartbeatFails(w) \/ WorkerCrashes(w) \/ Retire(w)
    <2>1. PICK w \in Workers : UNCHANGED job \/ Kill(w) \/ HeartbeatFails(w)
      BY <1>3 DEF WorkerCrashes, Retire, FenceSandbox, StopAndConfirm,
         LoadAssignments, FinalizeRetirement, RetirementFails
    <2>2. ASSUME Kill(w) \/ HeartbeatFails(w)
          PROVE  StartFrame(v, q)
      <3>1. job \in [Workers -> [Runs -> JobRecord]] /\ job[v][q] \in JobRecord
        BY DEF TypeOK, JobTypes
      <3>2. CASE Kill(w)
        BY <3>1, <3>2 DEF Kill, NoJob, StartFrame
      <3>3. CASE HeartbeatFails(w)
        <4>1. job'[v][q] \in {job[v][q], [job[v][q] EXCEPT !.phase = "revoked"]}
          BY <3>1, <3>3 DEF HeartbeatFails
        <4> QED BY <3>1, <4>1 DEF StartFrame, JobRecord
      <3> QED BY <2>2, <3>2, <3>3
    <2> QED BY <2>1, <2>2, <1>1
  <1>4. CASE \/ UNCHANGED vars
             \/ \E r \in Runs : \/ AcceptTurn(r) \/ AcceptTurnCancellation(r)
                                \/ ClaimExpires(r) \/ CancelExpires(r)
             \/ \E k \in Workspaces : ToggleWorkspace(k)
             \/ \E s \in Sessions : LeaseExpires(s) \/ ProjectEvents(s)
    <2>1. UNCHANGED job
      BY <1>4 DEF vars, AcceptTurn, AcceptTurnCancellation, ClaimExpires,
         CancelExpires, ToggleWorkspace, LeaseExpires, ProjectEvents
    <2> QED BY <2>1, <1>1
  <1> QED BY <1>2, <1>3, <1>4 DEF Next

\* A process dies with its dispatches, and before its Sandbox is reconciled.
DeathFrame(w) ==
  /\ up'[w] => up[w]
  /\ up[w] /\ ~up'[w] => \A r \in Runs : job'[w][r].phase = "none"
  /\ retirement'[w].state \in {"stopped", "loaded"} =>
       retirement[w].state \in {"stopped", "loaded"} \/ ~up'[w]

LEMMA NextDeaths ==
  ASSUME TypeOK, [Next]_vars
  PROVE  \A w \in Workers : DeathFrame(w)
  <1> SUFFICES ASSUME NEW v \in Workers PROVE DeathFrame(v)
    OBVIOUS
  <1>1. UNCHANGED <<up, retirement>> => DeathFrame(v)
    BY DEF DeathFrame
  <1>2. CASE \E w \in Workers, r \in Runs :
               \/ ClaimSelect(w, r) \/ Dispatch(w, r) \/ CancelDispatch(w, r)
               \/ Execution(w, r) \/ Fault(w, r)
    <2>1. PICK w \in Workers, r \in Runs :
               \/ ClaimSelect(w, r) \/ Dispatch(w, r) \/ CancelDispatch(w, r)
               \/ Execution(w, r) \/ Fault(w, r)
      BY <1>2
    <2>2. CASE ClaimSelect(w, r) \/ Execution(w, r) \/ Fault(w, r)
      BY <1>1, <2>2 DEF ClaimSelect, Execution, EmitEvents, SaveCheckpoint,
         ObservePhase, Fault, DeliveryRejected, BarrierTimesOut, CommitAborts,
         envVars
    <2>3. CASE Dispatch(w, r)
      BY <1>1, <2>3 DEF Dispatch, ClaimCommit, ClaimBlocked, Acquire,
         AcquireFails, MarkStarted, MarkStartedFails, ExecutionEnds,
         HeartbeatRevokes, Complete, CompleteFails, RecordRetry,
         RecordFailureBeforeStart, RecordFailureAfterStart, RecordFailureStale,
         envVars
    <2>4. CASE CancelDispatch(w, r)
      BY <1>1, <2>4 DEF CancelDispatch, ScanCancel, ClaimCancel, CancelAssign,
         CancelMarkStarted, CancelMarkStartedFails, CancelExecution,
         CancelComplete, CancelSettleFails, CancelRecordFailureBeforeStart,
         CancelRecordFailureAfterStart, envVars
    <2> QED BY <2>1, <2>2, <2>3, <2>4
  <1>3. CASE \E w \in Workers : HeartbeatFails(w) \/ WorkerCrashes(w) \/ Retire(w)
    <2>1. PICK w \in Workers : HeartbeatFails(w) \/ WorkerCrashes(w) \/ Retire(w)
      BY <1>3
    <2>2. DeathFrame(v)
      <3>1. /\ retirement \in [Workers -> RetirementRow]
            /\ retirement[w] \in RetirementRow
            /\ up \in [Workers -> BOOLEAN]
            /\ job \in [Workers -> [Runs -> JobRecord]]
        BY DEF TypeOK, EnvTypes, JobTypes
      <3>2. Kill(w) => /\ ~up'[w] /\ (v # w => up'[v] = up[v])
                       /\ \A r \in Runs : job'[w][r].phase = "none"
        <4>1. Kill(w) => ~up'[w] /\ (v # w => up'[v] = up[v])
          BY <3>1 DEF Kill
        <4>2. Kill(w) => \A r \in Runs : job'[w][r].phase = "none"
          BY <3>1 DEF Kill, NoJob
        <4> QED BY <4>1, <4>2
      <3>3. \A x : [retirement[w] EXCEPT !.state = x].state = x
        BY <3>1 DEF RetirementRow
      <3>4. CASE HeartbeatFails(w)
        BY <3>4 DEF HeartbeatFails, DeathFrame, envVars
      <3>5. CASE WorkerCrashes(w)
        BY <3>2, <3>5 DEF WorkerCrashes, DeathFrame
      <3>6. CASE StopAndConfirm(w)
        BY <3>1, <3>2, <3>6 DEF StopAndConfirm, DeathFrame
      <3>7. CASE FenceSandbox(w)
        BY <3>1, <3>3, <3>7 DEF FenceSandbox, DeathFrame
      <3>8. CASE LoadAssignments(w) \/ FinalizeRetirement(w) \/ RetirementFails(w)
        BY <3>1, <3>8 DEF LoadAssignments, FinalizeRetirement, RetirementFails,
           DeathFrame
      <3> QED BY <2>1, <3>4, <3>5, <3>6, <3>7, <3>8 DEF Retire
    <2> QED BY <2>2
  <1>4. CASE \/ UNCHANGED vars
             \/ \E r \in Runs : \/ AcceptTurn(r) \/ AcceptTurnCancellation(r)
                                \/ ClaimExpires(r) \/ CancelExpires(r)
             \/ \E k \in Workspaces : ToggleWorkspace(k)
             \/ \E s \in Sessions : LeaseExpires(s) \/ ProjectEvents(s)
    BY <1>1, <1>4 DEF vars, AcceptTurn, AcceptTurnCancellation, ClaimExpires,
       CancelExpires, ToggleWorkspace, LeaseExpires, ProjectEvents, envVars
  <1> QED BY <1>2, <1>3, <1>4 DEF Next

\* What the commit of a claim writes.
CommitWrites(w, r) ==
  /\ job[w][r].attempt = Current(r) + 1 /\ Current(r) + 1 \in Claims
  /\ Current(r)' = Current(r) + 1
  /\ \A q \in Runs : q # r => Current(q)' = Current(q)
  /\ attempt'[r][Current(r) + 1] =
       [state |-> "claimed", owner |-> w, fence |-> 0]
  /\ \A q \in Runs, a \in Claims :
       q # r \/ a # Current(r) + 1 =>
         /\ attempt'[q][a].owner = attempt[q][a].owner
         /\ attempt'[q][a].fence = attempt[q][a].fence
  /\ job'[w][r].phase = "claimed" /\ job'[w][r].attempt = Current(r) + 1
  /\ \A v \in Workers, q \in Runs : v # w \/ q # r => job'[v][q] = job[v][q]
  /\ command[r] \in {"pending", "dispatched"} /\ command'[r] = "dispatched"
  /\ \A q \in Runs : q # r => command'[q] = command[q]
  /\ fence' = fence /\ lease' = lease

LEMMA CommittedClaim ==
  ASSUME IInv, NEW w \in Workers, NEW r \in Runs, ClaimCommit(w, r)
  PROVE  CommitWrites(w, r)
  <1>1. /\ command \in [Runs -> CommandStates] /\ outbox \in [Runs -> OutboxRow]
        /\ attempt \in [Runs -> [Claims -> AttemptRow]]
        /\ job \in [Workers -> [Runs -> JobRecord]] /\ job[w][r] \in JobRecord
        /\ outbox[r] \in OutboxRow /\ MaxClaims \in Nat
    BY BoundsAssumption DEF IInv, TypeOK, RunTypes, JobTypes, BoundsAssumption
  <1>2. /\ job[w][r].attempt = Current(r) + 1
        /\ command[r] \in {"pending", "dispatched"}
    BY DEF IInv, OpenClaimIsCurrent, ClaimCommit
  <1>3. Current(r) + 1 \in Claims
    BY <1>1, <1>2 DEF JobRecord, OutboxRow, Claims, Current
  <1>4. /\ Current(r)' = Current(r) + 1
        /\ \A q \in Runs : q # r => Current(q)' = Current(q)
    BY <1>1, <1>2 DEF ClaimCommit, Current
  <1>5. \A v \in Workers, q \in Runs :
          job'[v][q] = IF v = w /\ q = r THEN [job[w][r] EXCEPT !.phase = "claimed"]
                                         ELSE job[v][q]
    BY <1>1 DEF ClaimCommit, SetPhase
  <1>6. /\ job'[w][r].phase = "claimed" /\ job'[w][r].attempt = Current(r) + 1
        /\ \A v \in Workers, q \in Runs : v # w \/ q # r => job'[v][q] = job[v][q]
    BY <1>1, <1>2, <1>5 DEF JobRecord
  <1>7. attempt'[r][Current(r) + 1] =
          [state |-> "claimed", owner |-> w, fence |-> 0]
    BY <1>1, <1>2, <1>3 DEF ClaimCommit
  <1>8. ASSUME NEW q \in Runs, NEW a \in Claims, q # r \/ a # Current(r) + 1
        PROVE  /\ attempt'[q][a].owner = attempt[q][a].owner
               /\ attempt'[q][a].fence = attempt[q][a].fence
    <2>1. attempt[q][a] \in AttemptRow
      BY <1>1
    <2>2. attempt'[q][a] \in {attempt[q][a], [attempt[q][a] EXCEPT !.state = "superseded"]}
      BY <1>1, <1>2, <1>8 DEF ClaimCommit, Supersede
    <2> QED BY <2>1, <2>2 DEF AttemptRow
  <1>9. /\ command'[r] = "dispatched"
        /\ \A q \in Runs : q # r => command'[q] = command[q]
        /\ fence' = fence /\ lease' = lease
    BY <1>1 DEF ClaimCommit, sessionVars, leaseVars
  <1> QED BY <1>2, <1>3, <1>4, <1>6, <1>7, <1>8, <1>9 DEF CommitWrites

\* What an acquisition writes.
AcquireWrites(w, r) ==
  /\ fence'[SessionOf[r]] = fence[SessionOf[r]] + 1
  /\ \A t \in Sessions : t # SessionOf[r] => fence'[t] = fence[t]
  /\ lease'[SessionOf[r]] =
       [owner |-> w, fence |-> fence[SessionOf[r]] + 1, live |-> TRUE]
  /\ \A t \in Sessions : t # SessionOf[r] => lease'[t] = lease[t]
  /\ \A q \in Runs, a \in Claims :
       /\ attempt'[q][a].owner = attempt[q][a].owner
       /\ attempt'[q][a].fence = IF q = r /\ a = Current(r)
                                 THEN fence[SessionOf[r]] + 1 ELSE attempt[q][a].fence
  /\ HoldsClaim(w, r) /\ run[r] = "claimed" /\ job[w][r].phase = "claimed"
  /\ session[SessionOf[r]] \in {"cold", "idle"}
  /\ session' = session /\ command' = command /\ outbox' = outbox

LEMMA AcquiredLease ==
  ASSUME TypeOK, NEW w \in Workers, NEW r \in Runs, Acquire(w, r)
  PROVE  AcquireWrites(w, r)
  <1> DEFINE s == SessionOf[r]
  <1>1. /\ fence \in [Sessions -> Nat] /\ lease \in [Sessions -> LeaseRow]
        /\ attempt \in [Runs -> [Claims -> AttemptRow]] /\ s \in Sessions
    BY ConstantsAssumption
       DEF TypeOK, SessionTypes, LeaseTypes, RunTypes, ConstantsAssumption
  <1>2. /\ fence'[s] = fence[s] + 1
        /\ \A t \in Sessions : t # s => fence'[t] = fence[t]
    BY <1>1 DEF Acquire
  <1>3. /\ lease'[s] = [owner |-> w, fence |-> fence[s] + 1, live |-> TRUE]
        /\ \A t \in Sessions : t # s => lease'[t] = lease[t]
    BY <1>1 DEF Acquire
  <1>4. ASSUME NEW q \in Runs, NEW a \in Claims
        PROVE  /\ attempt'[q][a].owner = attempt[q][a].owner
               /\ attempt'[q][a].fence = IF q = r /\ a = Current(r)
                                         THEN fence[s] + 1 ELSE attempt[q][a].fence
    <2>1. attempt[q][a] \in AttemptRow
      BY <1>1
    <2>2. attempt'[q][a] = IF q = r /\ a = Current(r)
                           THEN [attempt[q][a] EXCEPT !.fence = fence[s] + 1]
                           ELSE attempt[q][a]
      BY <1>1 DEF Acquire
    <2> QED BY <2>1, <2>2 DEF AttemptRow
  <1>5. /\ HoldsClaim(w, r) /\ run[r] = "claimed" /\ job[w][r].phase = "claimed"
        /\ session[s] \in {"cold", "idle"}
        /\ session' = session /\ command' = command /\ outbox' = outbox
    BY DEF Acquire, Acquirable, Unbound
  <1> QED BY <1>2, <1>3, <1>4, <1>5 DEF AcquireWrites

-----------------------------------------------------------------------------
(* Each part of the invariant is kept.                                       *)

\* Owners stay, and a claim becomes current only by its commit.
LEMMA OwnersStay ==
  ASSUME TypeOK, [Next]_vars
  PROVE  \/ \E w \in Workers, r \in Runs : ClaimCommit(w, r)
         \/ /\ \A r \in Runs : Current(r)' = Current(r)
            /\ \A r \in Runs, a \in Claims :
                 attempt'[r][a].owner = attempt[r][a].owner
  <1>1. ASSUME NEW w \in Workers, NEW r \in Runs, Acquire(w, r)
        PROVE  /\ UNCHANGED outbox
               /\ \A q \in Runs, a \in Claims :
                    attempt'[q][a].owner = attempt[q][a].owner
    <2>1. AcquireWrites(w, r)
      BY <1>1, AcquiredLease
    <2> QED BY <2>1 DEF AcquireWrites
  <1>2. UNCHANGED outbox => \A r \in Runs : Current(r)' = Current(r)
    BY DEF Current
  <1> QED BY <1>1, <1>2, NextAttempts DEF AttemptsKept

\* An acknowledged Run keeps its claim, its owner and its fence.
LEMMA AcknowledgedStays ==
  ASSUME LeaseInv, [Next]_vars, NEW r \in Runs, command[r] = "acknowledged"
  PROVE  /\ Current(r)' = Current(r) /\ Current(r) \in Claims
         /\ CurrentAttempt(r)'.owner = CurrentAttempt(r).owner
         /\ CurrentAttempt(r)'.fence = CurrentAttempt(r).fence
  <1>1. Current(r) \in Claims /\ run[r] # "claimed" /\ TypeOK
    BY DEF LeaseInv, OwnerInv, AcknowledgedClaimed, TurnInv, IInv, RowsAgree,
       RowAgrees, ExecutingStates, TerminalRunStates
  <1>2. ASSUME NEW w \in Workers, NEW q \in Runs, Acquire(w, q)
        PROVE  /\ Current(r)' = Current(r)
               /\ \A a \in Claims : /\ attempt'[r][a].owner = attempt[r][a].owner
                                    /\ attempt'[r][a].fence = attempt[r][a].fence
    <2> AcquireWrites(w, q)
      BY <1>1, <1>2, AcquiredLease
    <2>1. UNCHANGED outbox /\ run[q] = "claimed"
      BY DEF AcquireWrites
    <2>2. \A a \in Claims : /\ attempt'[r][a].owner = attempt[r][a].owner
                            /\ q # r => attempt'[r][a].fence = attempt[r][a].fence
      BY DEF AcquireWrites
    <2>3. Current(r)' = Current(r)
      BY <2>1 DEF Current
    <2> QED BY <1>1, <2>1, <2>2, <2>3
  <1>3. ASSUME NEW w \in Workers, NEW q \in Runs, ClaimCommit(w, q)
        PROVE  /\ Current(r)' = Current(r)
               /\ \A a \in Claims : /\ attempt'[r][a].owner = attempt[r][a].owner
                                    /\ attempt'[r][a].fence = attempt[r][a].fence
    <2>1. IInv
      BY DEF LeaseInv, TurnInv
    <2>2. CommitWrites(w, q)
      BY <1>3, <2>1, CommittedClaim
    <2> QED BY <2>2 DEF CommitWrites
  <1> QED BY <1>1, <1>2, <1>3, NextAttempts DEF AttemptsKept, CurrentAttempt

LEMMA FencesStep ==
  ASSUME LeaseInv, TypeOK', [Next]_vars
  PROVE  FencesNameAttempts'
  <1>1. /\ TypeOK /\ FencesNameAttempts /\ SessionOf \in [Runs -> Sessions]
        /\ \A s \in Sessions : fence[s] \in Nat
        /\ \A r \in Runs, a \in Claims :
             attempt[r][a].fence \in Nat /\ attempt'[r][a].fence \in Nat
    BY ConstantsAssumption
       DEF LeaseInv, OwnerInv, TurnInv, IInv, TypeOK, SessionTypes, RunTypes,
           AttemptRow, ConstantsAssumption
  <1>2. CASE \E w \in Workers, r \in Runs : Acquire(w, r)
    <2>1. PICK w \in Workers, r \in Runs : Acquire(w, r)
      BY <1>2
    <2> AcquireWrites(w, r)
      BY <1>1, <2>1, AcquiredLease
    <2> DEFINE s == SessionOf[r]
    <2>2. /\ s \in Sessions /\ fence'[s] = fence[s] + 1
          /\ \A t \in Sessions : t # s => fence'[t] = fence[t] /\ lease'[t] = lease[t]
          /\ lease'[s] = [owner |-> w, fence |-> fence[s] + 1, live |-> TRUE]
          /\ \A q \in Runs, a \in Claims :
               attempt'[q][a].fence = IF q = r /\ a = Current(r)
                                      THEN fence[s] + 1 ELSE attempt[q][a].fence
      BY <1>1 DEF AcquireWrites
    <2>3. \A t \in Sessions :
            lease'[t].owner # NoWorker => lease'[t].fence = fence'[t] /\ fence'[t] > 0
      BY <1>1, <2>2 DEF FencesNameAttempts
    <2>4. \A q \in Runs, a \in Claims : attempt'[q][a].fence <= fence'[SessionOf[q]]
      BY <1>1, <2>2 DEF FencesNameAttempts
    <2>5. ASSUME NEW p \in Runs, NEW q \in Runs, NEW a \in Claims, NEW b \in Claims,
                 SessionOf[p] = SessionOf[q],
                 attempt'[p][a].fence = attempt'[q][b].fence,
                 attempt'[p][a].fence # 0
          PROVE  p = q /\ a = b
      <3>1. attempt[p][a].fence <= fence[SessionOf[p]]
            /\ attempt[q][b].fence <= fence[SessionOf[q]]
        BY <1>1 DEF FencesNameAttempts
      <3> QED BY <1>1, <2>2, <2>5, <3>1 DEF FencesNameAttempts
    <2> QED BY <2>3, <2>4, <2>5 DEF FencesNameAttempts
  <1>3. CASE LeasesKept
    <2>1. /\ UNCHANGED fence
          /\ \A t \in Sessions :
               lease'[t].owner # NoWorker =>
                 lease'[t].owner = lease[t].owner /\ lease'[t].fence = lease[t].fence
      BY <1>3 DEF LeasesKept, LeaseKept, NoLease
    <2>2. CASE AttemptsKept
      <3>1. \A q \in Runs, a \in Claims : attempt'[q][a].fence = attempt[q][a].fence
        BY <2>2 DEF AttemptsKept
      <3> QED BY <1>1, <2>1, <3>1 DEF FencesNameAttempts
    <2>3. CASE \E w \in Workers, r \in Runs : ClaimCommit(w, r)
      <3>1. \A q \in Runs, a \in Claims :
              attempt'[q][a].fence \in {0, attempt[q][a].fence}
        <4>1. PICK w \in Workers, r \in Runs : ClaimCommit(w, r)
          BY <2>3
        <4>2. IInv
          BY DEF LeaseInv, TurnInv
        <4> CommitWrites(w, r)
          BY <4>1, <4>2, CommittedClaim
        <4>3. /\ attempt'[r][Current(r) + 1] =
                   [state |-> "claimed", owner |-> w, fence |-> 0]
              /\ \A q \in Runs, a \in Claims :
                   q # r \/ a # Current(r) + 1 =>
                     attempt'[q][a].fence = attempt[q][a].fence
          BY DEF CommitWrites
        <4> QED BY <4>3
      <3> QED BY <1>1, <2>1, <3>1 DEF FencesNameAttempts
    <2> QED BY <1>1, <1>2, <2>2, <2>3, NextAttempts
  <1> QED BY <1>1, <1>2, <1>3, NextLeases

LEMMA AcknowledgedClaimedStep ==
  ASSUME LeaseInv, [Next]_vars
  PROVE  AcknowledgedClaimed'
  <1> SUFFICES ASSUME NEW r \in Runs, command'[r] = "acknowledged"
               PROVE  Current(r)' \in Claims
    BY DEF AcknowledgedClaimed, Claims
  <1>1. CASE command[r] = "acknowledged"
    BY <1>1, AcknowledgedStays
  <1>2. CASE command[r] # "acknowledged"
    <2>1. PICK w \in Workers : MarkStarted(w, r)
      BY <1>2, AcknowledgedMoves DEF LeaseInv, TurnInv
    <2>2. job[w][r].attempt \in Claims /\ HoldsClaim(w, r)
      BY <2>1 DEF MarkStarted, Startable, HoldsLease, LeaseInv, OwnerInv,
         ClaimsOwned, CommittedPhases, JobPhases
    <2>3. AttemptsKept
      BY <2>1, RowWritesKeepAttempts DEF MovesTurn, LeaseInv, TurnInv, IInv
    <2> QED BY <2>2, <2>3 DEF AttemptsKept, HoldsClaim
  <1> QED BY <1>1, <1>2

LEMMA ClaimsStep ==
  ASSUME LeaseInv, TypeOK', [Next]_vars
  PROVE  ClaimsOwned'
  <1>1. IInv /\ TypeOK /\ ClaimsOwned
    BY DEF LeaseInv, OwnerInv, TurnInv, IInv
  <1> SUFFICES ASSUME NEW v \in Workers, NEW q \in Runs,
                      job'[v][q].phase \in CommittedPhases
               PROVE  /\ job'[v][q].attempt \in Claims
                      /\ job'[v][q].attempt = Current(q)' =>
                           /\ CurrentAttempt(q)'.owner = v
                           /\ command'[q] = "acknowledged" =>
                                job'[v][q].phase \in StartedPhases
    BY DEF ClaimsOwned, HoldsClaim, Claims, CurrentAttempt, Current
  <1>2. CASE \E w \in Workers, r \in Runs : ClaimCommit(w, r)
    <2>1. PICK w \in Workers, r \in Runs : ClaimCommit(w, r)
      BY <1>2
    <2> CommitWrites(w, r)
      BY <1>1, <2>1, CommittedClaim
    <2>2. CASE v = w /\ q = r
      <3>1. /\ job'[w][r].attempt = Current(r) + 1 /\ Current(r) + 1 \in Claims
            /\ Current(r)' = Current(r) + 1
            /\ attempt'[r][Current(r) + 1] =
                 [state |-> "claimed", owner |-> w, fence |-> 0]
            /\ command'[r] = "dispatched"
        BY DEF CommitWrites
      <3>2. CurrentAttempt(r)' = attempt'[r][Current(r)']
        BY DEF CurrentAttempt
      <3> QED BY <2>2, <3>1, <3>2
    <2>3. CASE q = r /\ v # w
      <3>1. job'[v][r] = job[v][r] /\ Current(r)' = Current(r) + 1
        BY <2>3 DEF CommitWrites
      <3>2. job[v][r].attempt <= Current(r)
        BY <2>3, <3>1, <1>1 DEF IInv, JobsFollowRows, JobFollowsRow, CommittedPhases
      <3>3. Current(r) \in Nat /\ job[v][r].attempt \in Nat
        BY <1>1 DEF TypeOK, RunTypes, JobTypes, OutboxRow, JobRecord, Current
      <3>4. job[v][r].attempt \in Claims
        BY <1>1, <2>3, <3>1 DEF ClaimsOwned
      <3> QED BY <2>3, <3>1, <3>2, <3>3, <3>4
    <2>4. CASE q # r
      <3>1. /\ job'[v][q] = job[v][q] /\ Current(q)' = Current(q)
            /\ command'[q] = command[q]
            /\ \A a \in Claims : attempt'[q][a].owner = attempt[q][a].owner
        BY <2>4 DEF CommitWrites
      <3> QED BY <1>1, <3>1 DEF ClaimsOwned, HoldsClaim, CurrentAttempt
    <2> QED BY <2>2, <2>3, <2>4
  <1>3. CASE ~\E w \in Workers, r \in Runs : ClaimCommit(w, r)
    <2>1. /\ Current(q)' = Current(q)
          /\ \A a \in Claims : attempt'[q][a].owner = attempt[q][a].owner
      BY <1>1, <1>3, OwnersStay
    <2>2. /\ job[v][q].phase \in CommittedPhases
          /\ job'[v][q].attempt = job[v][q].attempt
          /\ job[v][q].phase \in StartedPhases => job'[v][q].phase \in StartedPhases
      <3>1. CASE \E w \in Workers, r \in Runs : ClaimSelect(w, r)
        BY <3>1, <1>1 DEF ClaimSelect, CommittedPhases, TypeOK, JobTypes
      <3>2. CASE JobFrame(v, q)
        BY <1>1, <3>2 DEF JobFrame, CommittedPhases, NoJob, TypeOK, JobTypes, JobRecord
      <3> QED BY <1>1, <1>3, <3>1, <3>2, NextJobs
    <2>3. job[v][q].attempt \in Claims /\
          (HoldsClaim(v, q) => CurrentAttempt(q).owner = v)
      BY <1>1, <2>2 DEF ClaimsOwned
    <2>4. HoldsClaim(v, q) /\ command'[q] = "acknowledged" =>
            job'[v][q].phase \in StartedPhases
      <3>1. CASE command[q] = "acknowledged"
        BY <1>1, <2>2, <3>1 DEF ClaimsOwned
      <3>2. CASE command[q] # "acknowledged" /\ command'[q] = "acknowledged"
                   /\ HoldsClaim(v, q)
        <4>1. PICK x \in Workers : MarkStarted(x, q)
          BY <1>1, <3>2, AcknowledgedMoves
        <4>2. CurrentAttempt(q).owner = x
          BY <4>1 DEF MarkStarted, Startable, HoldsLease, HoldsFence
        <4>3. x = v
          BY <2>3, <3>2, <4>2
        <4> QED BY <1>1, <4>1, <4>3, MarkStartedJobs DEF StartedPhases
      <3> QED BY <3>1, <3>2
    <2> QED BY <2>1, <2>2, <2>3, <2>4 DEF HoldsClaim, CurrentAttempt
  <1> QED BY <1>2, <1>3

\* The lease an acknowledged Run holds, written out.
AcknowledgedHolds(r) ==
  /\ CurrentAttempt(r).owner # NoWorker
  /\ lease[SessionOf[r]].owner = CurrentAttempt(r).owner
  /\ lease[SessionOf[r]].fence = fence[SessionOf[r]]
  /\ CurrentAttempt(r).fence = fence[SessionOf[r]]

LEMMA AcknowledgedHoldsWhole ==
  AcknowledgedHoldsLease <=>
    \A r \in Runs : command[r] = "acknowledged" => AcknowledgedHolds(r)
  BY DEF AcknowledgedHoldsLease, AcknowledgedHolds, HoldsFence

\* The Session of an acknowledged Run executes it, and only it.
LEMMA AcknowledgedAlone ==
  ASSUME LeaseInv, NEW r \in Runs, command[r] = "acknowledged"
  PROVE  /\ r \in ActiveTurns /\ turn[r] \in {"running", "cancelling"}
         /\ session[SessionOf[r]] \notin {"cold", "idle"}
         /\ \A q \in ActiveTurns : SessionOf[q] = SessionOf[r] => q = r
  <1>1. turn[r] \in {"running", "cancelling"}
    BY DEF LeaseInv, TurnInv, IInv, RowsAgree, RowAgrees
  <1>2. r \in ActiveTurns
    BY <1>1 DEF ActiveTurns, ActiveTurnStates
  <1>3. session[SessionOf[r]] \notin {"cold", "idle"}
    BY <1>1 DEF LeaseInv, TurnInv, SessionsFollow, SessionFits
  <1>4. \A q \in ActiveTurns : SessionOf[q] = SessionOf[r] => q = r
    BY <1>2 DEF LeaseInv, TurnInv, MailboxInv, OneActiveTurn
  <1> QED BY <1>1, <1>2, <1>3, <1>4

\* Nothing ends the lease of a Run that stays acknowledged.
LEMMA LeaseStays ==
  ASSUME LeaseInv, [Next]_vars, NEW r \in Runs,
         command[r] = "acknowledged", command'[r] = "acknowledged"
  PROVE  ~LeaseEnds(SessionOf[r])
  <1> DEFINE s == SessionOf[r]
  <1>1. /\ TypeOK /\ s \in Sessions /\ AcknowledgedHolds(r) /\ Current(r) \in Claims
        /\ command \in [Runs -> CommandStates]
    BY ConstantsAssumption, AcknowledgedHoldsWhole
       DEF LeaseInv, OwnerInv, AcknowledgedClaimed, TurnInv, IInv, TypeOK, RunTypes,
           ConstantsAssumption
  <1>2. ASSUME NEW w \in Workers, NEW q \in Runs, SessionOf[q] = s,
               job[w][q].phase = "leased", HoldsLease(w, q)
        PROVE  FALSE
    <2>1. /\ job[w][q].attempt \in Claims /\ job[w][q].attempt = Current(q)
          /\ (command[q] = "acknowledged" => job[w][q].phase \in StartedPhases)
      BY <1>2 DEF LeaseInv, OwnerInv, ClaimsOwned, CommittedPhases, JobPhases,
         HoldsLease, HoldsClaim
    <2>2. attempt[q][Current(q)].fence = attempt[r][Current(r)].fence
      BY <1>1, <1>2 DEF HoldsLease, HoldsFence, AcknowledgedHolds, CurrentAttempt
    <2>3. attempt[r][Current(r)].fence # 0
      BY <1>1 DEF LeaseInv, OwnerInv, FencesNameAttempts, AcknowledgedHolds,
         CurrentAttempt
    <2>4. q = r
      BY <1>1, <1>2, <2>1, <2>2, <2>3 DEF LeaseInv, OwnerInv, FencesNameAttempts
    <2> QED BY <1>2, <2>1, <2>4 DEF StartedPhases
  <1>3. ASSUME NEW w \in Workers, NEW q \in Runs, SessionOf[q] = s, SettlesLeased(w, q)
        PROVE  FALSE
    <2>1. MovesTurn(w, q) /\ IInv
      BY <1>3 DEF SettlesLeased, MovesTurn, LeaseInv, TurnInv
    <2>2. q = r
      <3>1. turn[q] \in ActiveTurnStates
        BY <2>1, MovedTurn
      <3> QED BY <1>3, <3>1, AcknowledgedAlone DEF ActiveTurns
    <2>3. command'[q] \in {"completed", "failed"}
      BY <1>1, <1>3 DEF SettlesLeased, Complete, RecordFailureAfterStart,
         CancelComplete, Settle
    <2> QED BY <2>2, <2>3
  <1>4. ASSUME NEW w \in Workers, FinalizeRetirement(w), s \in Orphaned(w)
        PROVE  FALSE
    <2>1. r \in LostRuns(w)
      BY <1>4, AcknowledgedAlone
         DEF LostRuns, RequeuedRuns, OrphanedRuns, SafelyUnacknowledged
    <2>2. r \notin RequeuedRuns(w)
      BY <2>1 DEF LostRuns
    <2> QED BY <1>4, <2>1, <2>2 DEF FinalizeRetirement
  <1> QED BY <1>2, <1>3, <1>4 DEF LeaseEnds

LEMMA AcknowledgedStep ==
  ASSUME LeaseInv, [Next]_vars
  PROVE  AcknowledgedHoldsLease'
  <1> SUFFICES ASSUME NEW r \in Runs, command'[r] = "acknowledged"
               PROVE  AcknowledgedHolds(r)'
    BY DEF AcknowledgedHoldsLease, AcknowledgedHolds, HoldsFence, CurrentAttempt, Current
  <1> DEFINE s == SessionOf[r]
  <1>1. IInv /\ TypeOK /\ s \in Sessions
    BY ConstantsAssumption DEF LeaseInv, TurnInv, IInv, ConstantsAssumption
  <1>2. CASE command[r] = "acknowledged"
    <2>1. /\ CurrentAttempt(r)'.owner = CurrentAttempt(r).owner
          /\ CurrentAttempt(r)'.fence = CurrentAttempt(r).fence
      BY <1>2, AcknowledgedStays
    <2>2. AcknowledgedHolds(r)
      BY <1>2, AcknowledgedHoldsWhole DEF LeaseInv, OwnerInv
    <2>3. /\ lease'[s].owner = lease[s].owner /\ lease'[s].fence = lease[s].fence
          /\ fence'[s] = fence[s]
      <3>1. CASE \E w \in Workers, q \in Runs : Acquire(w, q)
        <4>1. PICK w \in Workers, q \in Runs : Acquire(w, q)
          BY <3>1
        <4> AcquireWrites(w, q)
          BY <1>1, <4>1, AcquiredLease
        <4>2. SessionOf[q] # s
          BY <1>2, AcknowledgedAlone DEF AcquireWrites
        <4> QED BY <1>1, <4>2 DEF AcquireWrites
      <3>2. CASE LeasesKept
        BY <1>1, <1>2, <3>2, LeaseStays DEF LeasesKept, LeaseKept
      <3> QED BY <1>1, <3>1, <3>2, NextLeases
    <2> QED BY <2>1, <2>2, <2>3 DEF AcknowledgedHolds
  <1>3. CASE command[r] # "acknowledged"
    <2>1. PICK w \in Workers : MarkStarted(w, r)
      BY <1>1, <1>3, AcknowledgedMoves
    <2>2. /\ lease[s].owner = w /\ lease[s].fence = job[w][r].fence
          /\ CurrentAttempt(r).owner = w /\ CurrentAttempt(r).fence = job[w][r].fence
          /\ HoldsClaim(w, r) /\ job[w][r].phase = "leased"
      BY <2>1 DEF MarkStarted, Startable, HoldsLease, HoldsFence
    <2>3. Current(r) \in Claims
      BY <2>2 DEF LeaseInv, OwnerInv, ClaimsOwned, CommittedPhases, JobPhases, HoldsClaim
    <2>4. AttemptsKept
      BY <1>1, <2>1, RowWritesKeepAttempts DEF MovesTurn
    <2>5. /\ CurrentAttempt(r)'.owner = CurrentAttempt(r).owner
          /\ CurrentAttempt(r)'.fence = CurrentAttempt(r).fence
      BY <2>3, <2>4 DEF AttemptsKept, CurrentAttempt
    <2>6. UNCHANGED <<lease, fence>>
      BY <2>1 DEF MarkStarted, leaseVars
    <2>7. w # NoWorker
      BY ConstantsAssumption DEF ConstantsAssumption
    <2>8. lease[s].fence = fence[s]
      BY <1>1, <2>2, <2>7 DEF LeaseInv, OwnerInv, FencesNameAttempts
    <2> QED BY <2>2, <2>5, <2>6, <2>7, <2>8 DEF AcknowledgedHolds
  <1> QED BY <1>2, <1>3

\* A Run whose execution goes on stays acknowledged.
LEMMA ExecutionKeepsRun ==
  ASSUME LeaseInv, [Next]_vars, NEW v \in Workers, NEW q \in Runs,
         job[v][q].phase = "started"
  PROVE  command'[q] = "acknowledged"
  <1>1. /\ command[q] = "acknowledged" /\ IInv /\ up[v]
        /\ CurrentAttempt(q).owner = v /\ AcknowledgedHolds(q)
    BY AcknowledgedHoldsWhole
       DEF LeaseInv, OwnerInv, StartedHolds, ProcessesLive, ClaimsOwned,
           CommittedPhases, JobPhases, TurnInv
  <1>2. ASSUME NEW w \in Workers,
               SettlesLeased(w, q) \/ CancelRecordFailureAfterStart(w, q)
        PROVE  FALSE
    <2>1. CASE Complete(w, q) \/ RecordFailureAfterStart(w, q)
      <3>1. CurrentAttempt(q).owner = w /\ job[w][q].phase # "started"
        BY <2>1 DEF Complete, Completable, RecordFailureAfterStart,
           FailsCurrentRun, HoldsLease, HoldsFence
      <3> QED BY <1>1, <3>1
    <2>2. CASE CancelComplete(w, q) \/ CancelRecordFailureAfterStart(w, q)
      <3>1. cancelJob[w][q].phase \in {"confirmed", "unconfirmed"}
        BY <2>2 DEF CancelComplete, CancelRecordFailureAfterStart
      <3>2. CurrentAttempt(q).owner = w /\ job[w][q].phase # "started"
        BY <3>1 DEF LeaseInv, OwnerInv, CancelsOwned
      <3> QED BY <1>1, <3>2
    <2> QED BY <1>2, <2>1, <2>2 DEF SettlesLeased
  <1>3. ASSUME NEW w \in Workers, FinalizeRetirement(w), q \in OrphanedRuns(w)
        PROVE  FALSE
    <2>1. lease[SessionOf[q]].owner = w /\ retirement[w].state = "loaded"
      BY <1>3 DEF OrphanedRuns, Orphaned, FinalizeRetirement
    <2>2. w = v
      BY <1>1, <2>1 DEF AcknowledgedHolds
    <2> QED BY <1>1, <2>1, <2>2 DEF LeaseInv, OwnerInv, ProcessesLive
  <1> QED BY <1>1, <1>2, <1>3, AcknowledgedMoves

LEMMA StartedStep ==
  ASSUME LeaseInv, [Next]_vars
  PROVE  StartedHolds'
  <1> SUFFICES ASSUME NEW v \in Workers, NEW q \in Runs, job'[v][q].phase = "started"
               PROVE  /\ job'[v][q].attempt = Current(q)'
                      /\ CurrentAttempt(q)'.fence = job'[v][q].fence
                      /\ command'[q] = "acknowledged"
    BY DEF StartedHolds, HoldsClaim, CurrentAttempt, Current
  <1>1. IInv /\ TypeOK
    BY DEF LeaseInv, TurnInv, IInv
  <1>2. CASE job'[v][q] = job[v][q]
    <2>1. /\ command[q] = "acknowledged" /\ job[v][q].attempt = Current(q)
          /\ CurrentAttempt(q).fence = job[v][q].fence
      BY <1>2 DEF LeaseInv, OwnerInv, StartedHolds, HoldsClaim
    <2>2. /\ Current(q)' = Current(q)
          /\ CurrentAttempt(q)'.fence = CurrentAttempt(q).fence
      BY <2>1, AcknowledgedStays
    <2>3. command'[q] = "acknowledged"
      BY <1>2, ExecutionKeepsRun
    <2> QED BY <1>2, <2>1, <2>2, <2>3
  <1>3. CASE MarkStarted(v, q)
    <2>1. /\ job[v][q].attempt = Current(q) /\ job[v][q].phase = "leased"
          /\ CurrentAttempt(q).fence = job[v][q].fence
      BY <1>3 DEF MarkStarted, Startable, HoldsLease, HoldsFence, HoldsClaim
    <2>2. Current(q) \in Claims
      BY <2>1 DEF LeaseInv, OwnerInv, ClaimsOwned, CommittedPhases, JobPhases
    <2>3. AttemptsKept
      BY <1>1, <1>3, RowWritesKeepAttempts DEF MovesTurn
    <2>4. /\ Current(q)' = Current(q)
          /\ CurrentAttempt(q)'.fence = CurrentAttempt(q).fence
      BY <2>2, <2>3 DEF AttemptsKept, CurrentAttempt
    <2>5. command'[q] = "acknowledged"
      BY <1>1, <1>3 DEF MarkStarted, TypeOK, RunTypes
    <2> QED BY <1>1, <1>3, <2>1, <2>4, <2>5, MarkStartedJobs
  <1> QED BY <1>1, <1>2, <1>3, NextStarts DEF StartFrame

LEMMA CancelsStep ==
  ASSUME LeaseInv, [Next]_vars, IInv', \A q \in Runs : Final(q)
  PROVE  CancelsOwned'
  <1> SUFFICES ASSUME NEW v \in Workers, NEW q \in Runs,
                      cancelJob'[v][q].phase \in StartedCancel
               PROVE  /\ Current(q)' \in Claims /\ CurrentAttempt(q)'.owner = v
                      /\ command'[q] \in {"acknowledged", "completed", "failed"}
                      /\ cancelJob'[v][q].phase \in {"confirmed", "unconfirmed"} =>
                           job'[v][q].phase # "started"
    BY DEF CancelsOwned, StartedCancel, CurrentAttempt, Current, Claims
  <1> DEFINE Owned == /\ Current(q) \in Claims /\ CurrentAttempt(q).owner = v
                      /\ command[q] \in {"acknowledged", "completed", "failed"}
  <1>1. IInv /\ TypeOK /\ RowAgrees(q) /\ RowAgrees(q)'
    BY DEF LeaseInv, TurnInv, IInv, RowsAgree
  <1>2. ASSUME Owned
        PROVE  /\ Current(q)' \in Claims /\ CurrentAttempt(q)'.owner = v
               /\ command'[q] \in {"acknowledged", "completed", "failed"}
    <2>1. command'[q] \in {"acknowledged", "completed", "failed"}
      BY <1>1, <1>2, FinalKeeps
    <2>2. /\ Current(q)' = Current(q)
          /\ \A a \in Claims : attempt'[q][a].owner = attempt[q][a].owner
      <3>1. ASSUME NEW w \in Workers, NEW r \in Runs, ClaimCommit(w, r)
            PROVE  /\ Current(q)' = Current(q)
                   /\ \A a \in Claims : attempt'[q][a].owner = attempt[q][a].owner
        <4>1. CommitWrites(w, r)
          BY <1>1, <3>1, CommittedClaim
        <4>2. q # r
          BY <1>2, <4>1 DEF CommitWrites
        <4> QED BY <4>1, <4>2 DEF CommitWrites
      <3> QED BY <1>1, <3>1, OwnersStay
    <2> QED BY <1>2, <2>1, <2>2 DEF CurrentAttempt
  <1>3. command[q] \in {"acknowledged", "completed", "failed"}
        /\ job[v][q].phase # "started" => job'[v][q].phase # "started"
    BY <1>1, NextStarts DEF StartFrame, MarkStarted, Startable
  <1>4. CASE cancelJob'[v][q].phase = cancelJob[v][q].phase
    <2>1. Owned /\ (cancelJob[v][q].phase \in {"confirmed", "unconfirmed"} =>
                      job[v][q].phase # "started")
      BY <1>4 DEF LeaseInv, OwnerInv, CancelsOwned, StartedCancel
    <2> QED BY <1>2, <1>3, <1>4, <2>1
  <1>5. CASE /\ cancelJob'[v][q].phase = "acknowledged"
             /\ CancelMarkStarted(v, q)
    <2>1. command[q] = "acknowledged" /\ CurrentAttempt(q).owner = v
      BY <1>5 DEF CancelMarkStarted, InTime, FenceIsCurrent, HoldsFence
    <2>2. Current(q) \in Claims
      BY <2>1 DEF LeaseInv, OwnerInv, AcknowledgedClaimed
    <2> QED BY <1>2, <1>5, <2>1, <2>2
  <1>6. CASE /\ cancelJob[v][q].phase = "acknowledged"
             /\ job'[v][q].phase # "started"
    <2>1. Owned
      BY <1>6 DEF LeaseInv, OwnerInv, CancelsOwned, StartedCancel
    <2> QED BY <1>2, <1>6, <2>1
  <1>7. CancelFrame(v, q)
    BY <1>1, NextCancels
  <1> HIDE DEF Owned
  <1> QED BY <1>4, <1>5, <1>6, <1>7 DEF CancelFrame

LEMMA ProcessesStep ==
  ASSUME LeaseInv, TypeOK', [Next]_vars
  PROVE  ProcessesLive'
  <1>1. IInv /\ TypeOK /\ ProcessesLive /\ \A w \in Workers : DeathFrame(w)
    BY NextDeaths DEF LeaseInv, OwnerInv, TurnInv, IInv
  <1>2. ASSUME NEW w \in Workers, NEW r \in Runs, job'[w][r].phase # "none"
        PROVE  up'[w]
    <2>1. CASE \E v \in Workers, q \in Runs : ClaimSelect(v, q)
      BY <1>1, <1>2, <2>1
         DEF ClaimSelect, envVars, ProcessesLive, TypeOK, JobTypes
    <2>2. CASE job[w][r].phase # "none"
      BY <1>1, <1>2, <2>2 DEF ProcessesLive, DeathFrame
    <2>3. CASE \E v \in Workers, q \in Runs : ClaimCommit(v, q)
      <3>1. job[w][r].phase # "none"
        <4>1. PICK v \in Workers, q \in Runs : ClaimCommit(v, q)
          BY <2>3
        <4>2. CommitWrites(v, q) /\ job[v][q].phase = "selected"
          BY <1>1, <4>1, CommittedClaim DEF ClaimCommit
        <4> QED BY <1>2, <4>2 DEF CommitWrites
      <3> QED BY <2>2, <3>1
    <2>4. CASE JobFrame(w, r)
      <3>1. job[w][r].phase # "none"
        BY <1>2, <2>4 DEF JobFrame, NoJob
      <3> QED BY <2>2, <3>1
    <2> QED BY <1>1, <2>1, <2>3, <2>4, NextJobs
  <1>3. ASSUME NEW w \in Workers, retirement'[w].state \in {"stopped", "loaded"}
        PROVE  ~up'[w]
    BY <1>1, <1>3 DEF ProcessesLive, DeathFrame
  <1> QED BY <1>2, <1>3 DEF ProcessesLive

-----------------------------------------------------------------------------
LEMMA LeaseStep ==
  ASSUME LeaseInv, [Next]_vars
  PROVE  LeaseInv'
  <1>1. TurnInv /\ IInv
    BY DEF LeaseInv, TurnInv
  <1>2. TurnInv'
    BY <1>1, TurnStep
  <1>3. IInv' /\ \A q \in Runs : Final(q)
    BY <1>1, NextStep
  <1>4. TypeOK'
    BY <1>3 DEF IInv
  <1> QED BY <1>2, <1>3, <1>4, FencesStep, ClaimsStep, AcknowledgedClaimedStep,
             AcknowledgedStep, StartedStep, CancelsStep, ProcessesStep
          DEF LeaseInv, OwnerInv

LEMMA InitOwners == Init => OwnerInv
  <1> SUFFICES ASSUME Init PROVE OwnerInv
    OBVIOUS
  <1>1. /\ \A w \in Workers, r \in Runs :
             job[w][r].phase = "none" /\ cancelJob[w][r].phase = "none"
        /\ \A r \in Runs : command[r] = "absent"
        /\ \A w \in Workers : retirement[w].state = "none"
    BY DEF Init, NoJob, NoCancelJob
  <1>2. FencesNameAttempts
    BY ConstantsAssumption
       DEF Init, FencesNameAttempts, NoLease, NoAttempt, ConstantsAssumption
  <1> QED BY <1>1, <1>2 DEF OwnerInv, ClaimsOwned, CommittedPhases,
          AcknowledgedClaimed, AcknowledgedHoldsLease, StartedHolds,
          CancelsOwned, ProcessesLive

LEMMA LeaseInvariance == Spec => []LeaseInv
  <1>1. Init => LeaseInv
    BY InitInv, InitMailbox, InitBranches, InitOwners DEF LeaseInv, TurnInv
  <1>2. LeaseInv /\ [Next]_vars => LeaseInv'
    BY LeaseStep
  <1> QED BY <1>1, <1>2, PTL DEF Spec

\* An acknowledged Run has its Session's lease, under the newest fence, until it
\* is settled: no late Worker, expiry or retirement takes it away (#markStarted,
\* releaseAcquired, acquire, #finalizeLease).
THEOREM AcknowledgedRunsHoldLease == Spec => []AcknowledgedHoldsLease
  <1>1. LeaseInv => AcknowledgedHoldsLease
    BY DEF LeaseInv, OwnerInv
  <1> QED BY <1>1, LeaseInvariance, PTL

\* No two processes execute a Session: a running agent has the current claim,
\* the lease and the newest fence, and an unsettled Turn.
THEOREM ExecutionsOwnSession == Spec => []ExecutionOwnsSession
  <1>1. ASSUME LeaseInv, NEW w \in Workers, NEW r \in Runs, job[w][r].phase = "started"
        PROVE  /\ HoldsLease(w, r)
               /\ job[w][r].fence = fence[SessionOf[r]]
               /\ command[r] = "acknowledged"
               /\ turn[r] \in {"running", "cancelling"}
    <2>1. /\ HoldsClaim(w, r) /\ CurrentAttempt(r).fence = job[w][r].fence
          /\ command[r] = "acknowledged"
      BY <1>1 DEF LeaseInv, OwnerInv, StartedHolds
    <2>2. CurrentAttempt(r).owner = w
      BY <1>1, <2>1 DEF LeaseInv, OwnerInv, ClaimsOwned, CommittedPhases, JobPhases
    <2>3. AcknowledgedHolds(r)
      BY <1>1, <2>1, AcknowledgedHoldsWhole DEF LeaseInv, OwnerInv
    <2> QED BY <1>1, <2>1, <2>2, <2>3, AcknowledgedAlone
            DEF AcknowledgedHolds, HoldsLease, HoldsFence
  <1>2. LeaseInv => ExecutionOwnsSession
    BY <1>1 DEF ExecutionOwnsSession
  <1> QED BY <1>2, LeaseInvariance, PTL

-----------------------------------------------------------------------------
(* The reservations of a Sandbox.                                            *)

\* The Sessions a Sandbox has leased.
Leased(w) == {s \in Sessions : lease[s].owner = w}

\* A sandboxes row that accounts for the Sessions in S.
Balanced(sb, S) ==
  /\ sb.active = Cardinality(S)
  /\ sb.active <= Capacity
  /\ sb.state = "ready" => sb.active = 0
  /\ sb.state = "leased" => sb.active > 0

Accounts == \A w \in Workers : Balanced(sandbox[w], Leased(w))

LEMMA AccountsWhole == CapacityAccounting <=> Accounts
  BY DEF CapacityAccounting, Accounts, Balanced, Leased

LEMMA LeasedFinite ==
  ASSUME NEW w
  PROVE  IsFiniteSet(Leased(w)) /\ Cardinality(Leased(w)) \in Nat
  <1>1. Leased(w) \subseteq Sessions
    BY DEF Leased
  <1>2. IsFiniteSet(Leased(w))
    BY <1>1, SessionsAssumption, FS_Subset DEF SessionsAssumption
  <1> QED BY <1>2, FS_CardinalityType

\* A step that changes no owner and no counter may only take a Sandbox out of use.
LEMMA OwnersAccount ==
  ASSUME Accounts,
         \A s \in Sessions : lease'[s].owner = lease[s].owner,
         \A w \in Workers :
           /\ sandbox'[w].active = sandbox[w].active
           /\ sandbox'[w].state \in {sandbox[w].state, "failed", "terminated"}
  PROVE  Accounts'
  <1> SUFFICES ASSUME NEW w \in Workers PROVE Balanced(sandbox'[w], Leased(w)')
    BY DEF Accounts
  <1>1. Leased(w)' = Leased(w)
    BY DEF Leased
  <1> QED BY <1>1 DEF Accounts, Balanced

\* A reservation given back accounts for one Session less.
LEMMA ReleasedBalances ==
  ASSUME TypeOK, Accounts, NEW s \in Sessions, Releasable(s)
  PROVE  LET o == lease[s].owner IN
         /\ o \in Workers
         /\ Balanced(Released(sandbox[o]), Leased(o) \ {s})
         /\ \A w \in Workers : w # o => Leased(w) \ {s} = Leased(w)
  <1>1. PICK o \in Workers : o = lease[s].owner
    BY DEF Releasable, TypeOK, LeaseTypes, LeaseRow
  <1>2. /\ sandbox[o].active \in Nat /\ Capacity \in Nat /\ sandbox[o].active >= 1
        /\ sandbox[o].state \in {"leased", "failed"} /\ Balanced(sandbox[o], Leased(o))
    BY <1>1, BoundsAssumption
       DEF Releasable, TypeOK, LeaseTypes, SandboxRow, Accounts, BoundsAssumption
  <1>3. s \in Leased(o) /\ \A w \in Workers : w # o => Leased(w) \ {s} = Leased(w)
    BY <1>1 DEF Leased
  <1>4. Cardinality(Leased(o) \ {s}) = Cardinality(Leased(o)) - 1
    BY <1>3, LeasedFinite, FS_RemoveElement
  <1>5. Balanced(Released(sandbox[o]), Leased(o) \ {s})
    BY <1>2, <1>4 DEF Balanced, Released
  <1> QED BY <1>1, <1>3, <1>5

\* A release takes one lease and one reservation.
LEMMA ReleaseAccounts ==
  ASSUME TypeOK, Accounts, NEW s \in Sessions, ReleaseLease(s)
  PROVE  Accounts'
  <1>1. PICK o \in Workers :
          /\ o = lease[s].owner
          /\ Balanced(Released(sandbox[o]), Leased(o) \ {s})
          /\ \A w \in Workers : w # o => Leased(w) \ {s} = Leased(w)
    BY ReleasedBalances DEF ReleaseLease
  <1>2. /\ sandbox'[o] = Released(sandbox[o])
        /\ \A w \in Workers : w # o => sandbox'[w] = sandbox[w]
        /\ lease'[s] = NoLease
        /\ \A t \in Sessions : t # s => lease'[t] = lease[t]
    BY <1>1 DEF ReleaseLease, TypeOK, LeaseTypes
  <1>3. \A w \in Workers : Leased(w)' = Leased(w) \ {s}
    BY <1>2, ConstantsAssumption DEF Leased, NoLease, ConstantsAssumption
  <1> QED BY <1>1, <1>2, <1>3 DEF Accounts

\* An acquisition gives back the reservation of the expired lease it replaces
\* and takes one of its own, within the capacity.
LEMMA AcquireAccounts ==
  ASSUME TypeOK, Accounts, NEW w \in Workers, NEW r \in Runs, Acquire(w, r)
  PROVE  Accounts'
  <1> DEFINE s == SessionOf[r]
             freed == SandboxesWithout(s)
  <1>1. /\ s \in Sessions /\ ~lease[s].live /\ (LeaseExpired(s) => Releasable(s))
        /\ freed[w].state \in {"ready", "leased"} /\ freed[w].active < Capacity
        /\ lease \in [Sessions -> LeaseRow] /\ sandbox \in [Workers -> SandboxRow]
        /\ Capacity \in Nat
    BY ConstantsAssumption, BoundsAssumption
       DEF Acquire, Acquirable, TypeOK, LeaseTypes, ConstantsAssumption, BoundsAssumption
  <1>2. freed \in [Workers -> SandboxRow \cup {Released(sandbox[v]) : v \in Workers}]
    BY <1>1 DEF SandboxesWithout
  <1>3. \A v \in Workers : Balanced(freed[v], Leased(v) \ {s})
    <2>1. CASE LeaseExpired(s)
      <3>1. PICK o \in Workers :
              /\ o = lease[s].owner
              /\ Balanced(Released(sandbox[o]), Leased(o) \ {s})
              /\ \A v \in Workers : v # o => Leased(v) \ {s} = Leased(v)
        BY <1>1, <2>1, ReleasedBalances
      <3>2. \A v \in Workers :
              freed[v] = IF v = o THEN Released(sandbox[o]) ELSE sandbox[v]
        BY <1>1, <2>1, <3>1 DEF SandboxesWithout
      <3> QED BY <3>1, <3>2 DEF Accounts
    <2>2. CASE ~LeaseExpired(s)
      <3>1. lease[s].owner = NoWorker
        BY <1>1, <2>2 DEF LeaseExpired
      <3>2. \A v \in Workers : Leased(v) \ {s} = Leased(v)
        BY <3>1, ConstantsAssumption DEF Leased, ConstantsAssumption
      <3> QED BY <2>2, <3>2 DEF Accounts, SandboxesWithout
    <2> QED BY <2>1, <2>2
  <1>4. /\ sandbox'[w] = [state |-> "leased", active |-> freed[w].active + 1]
        /\ \A v \in Workers : v # w => sandbox'[v] = freed[v]
        /\ lease'[s] = [owner |-> w, fence |-> fence[s] + 1, live |-> TRUE]
        /\ \A t \in Sessions : t # s => lease'[t] = lease[t]
    BY <1>1, <1>2 DEF Acquire
  <1>5. /\ Leased(w)' = (Leased(w) \ {s}) \cup {s}
        /\ \A v \in Workers : v # w => Leased(v)' = Leased(v) \ {s}
    BY <1>1, <1>4 DEF Leased
  <1> HIDE DEF freed
  <1>6. Balanced(sandbox'[w], Leased(w)')
    <2>1. /\ IsFiniteSet(Leased(w) \ {s}) /\ Cardinality(Leased(w) \ {s}) \in Nat
      BY LeasedFinite, FS_RemoveElement, FS_CardinalityType
    <2>2. Cardinality(Leased(w)') = Cardinality(Leased(w) \ {s}) + 1
      BY <1>5, <2>1, FS_AddElement
    <2>3. freed[w].active = Cardinality(Leased(w) \ {s})
      BY <1>3 DEF Balanced
    <2> QED BY <1>1, <1>4, <2>1, <2>2, <2>3 DEF Balanced
  <1> QED BY <1>3, <1>4, <1>5, <1>6 DEF Accounts

\* The reconciler takes every lease of the dead Sandbox and terminates it.
LEMMA FinalizeAccounts ==
  ASSUME TypeOK, Accounts, NEW w \in Workers, FinalizeRetirement(w)
  PROVE  Accounts'
  <1>1. /\ sandbox'[w] = [state |-> "terminated", active |-> 0]
        /\ \A v \in Workers : v # w => sandbox'[v] = sandbox[v]
        /\ \A s \in Sessions :
             lease'[s] = IF lease[s].owner = w THEN NoLease ELSE lease[s]
    BY DEF FinalizeRetirement, Reconcilable, Orphaned, TypeOK, LeaseTypes
  <1>2. Leased(w)' = {} /\ \A v \in Workers : v # w => Leased(v)' = Leased(v)
    BY <1>1, ConstantsAssumption DEF Leased, NoLease, ConstantsAssumption
  <1>3. Balanced(sandbox'[w], Leased(w)')
    BY <1>1, <1>2, FS_EmptySet, BoundsAssumption DEF Balanced, BoundsAssumption
  <1> QED BY <1>1, <1>2, <1>3 DEF Accounts

LEMMA AccountsStep ==
  ASSUME TypeOK, Accounts, [Next]_vars
  PROVE  Accounts'
  <1>1. UNCHANGED leaseVars => Accounts'
    BY DEF leaseVars, Accounts, Leased
  <1>2. ASSUME NEW r \in Runs, ReleaseLease(SessionOf[r])
        PROVE  Accounts'
    BY <1>2, ReleaseAccounts, ConstantsAssumption DEF ConstantsAssumption
  <1>3. CASE \E w \in Workers, r \in Runs :
               \/ ClaimSelect(w, r) \/ Dispatch(w, r) \/ CancelDispatch(w, r)
               \/ Execution(w, r) \/ Fault(w, r)
    <2>1. PICK w \in Workers, r \in Runs :
               \/ ClaimSelect(w, r) \/ Dispatch(w, r) \/ CancelDispatch(w, r)
               \/ Execution(w, r) \/ Fault(w, r)
      BY <1>3
    <2>2. CASE ClaimSelect(w, r) \/ Execution(w, r) \/ Fault(w, r)
      <3>1. UNCHANGED leaseVars \/ ReleaseLease(SessionOf[r])
        BY <2>2 DEF ClaimSelect, Execution, EmitEvents, SaveCheckpoint, ObservePhase,
           Fault, DeliveryRejected, ReleaseAcquired, BarrierTimesOut, CommitAborts
      <3> QED BY <3>1, <1>1, <1>2
    <2>3. CASE Dispatch(w, r)
      <3>1. UNCHANGED leaseVars \/ ReleaseLease(SessionOf[r]) \/ Acquire(w, r)
        BY <2>3 DEF Dispatch, ClaimCommit, ClaimBlocked, AcquireFails,
           MarkStarted, MarkStartedFails, ReleaseAcquired, ExecutionEnds,
           HeartbeatRevokes, Complete, CompleteFails, RecordRetry,
           RecordFailureBeforeStart, RecordFailureAfterStart, RecordFailureStale
      <3> QED BY <3>1, <1>1, <1>2, AcquireAccounts
    <2>4. CASE CancelDispatch(w, r)
      <3>1. UNCHANGED leaseVars \/ ReleaseLease(SessionOf[r])
        BY <2>4 DEF CancelDispatch, ScanCancel, ClaimCancel, CancelAssign,
           CancelMarkStarted, CancelMarkStartedFails, CancelExecution,
           CancelComplete, CancelSettleFails, CancelRecordFailureBeforeStart,
           CancelRecordFailureAfterStart
      <3> QED BY <3>1, <1>1, <1>2
    <2> QED BY <2>1, <2>2, <2>3, <2>4
  <1>4. CASE \E w \in Workers : HeartbeatFails(w) \/ WorkerCrashes(w) \/ Retire(w)
    <2>1. PICK w \in Workers : HeartbeatFails(w) \/ WorkerCrashes(w) \/ Retire(w)
      BY <1>4
    <2>2. CASE HeartbeatFails(w) \/ FenceSandbox(w)
      <3>1. lease' = lease
        BY <2>2 DEF HeartbeatFails, FenceSandbox
      <3>2. ASSUME NEW v \in Workers
            PROVE  /\ sandbox'[v].active = sandbox[v].active
                   /\ sandbox'[v].state \in {sandbox[v].state, "failed", "terminated"}
        <4>1. sandbox \in [Workers -> SandboxRow] /\ sandbox[v] \in SandboxRow
          BY DEF TypeOK, LeaseTypes
        <4>2. PICK x \in {"failed", "terminated"} :
                sandbox' = [sandbox EXCEPT ![w].state = x]
          BY <2>2 DEF HeartbeatFails, FenceSandbox
        <4>3. sandbox'[v] \in {sandbox[v], [sandbox[v] EXCEPT !.state = x]}
          BY <4>1, <4>2
        <4> QED BY <4>1, <4>2, <4>3 DEF SandboxRow
      <3> QED BY <3>1, <3>2, OwnersAccount
    <2>3. CASE WorkerCrashes(w) \/ StopAndConfirm(w) \/ LoadAssignments(w)
                 \/ RetirementFails(w)
      BY <1>1, <2>3 DEF WorkerCrashes, StopAndConfirm, LoadAssignments,
         RetirementFails
    <2> QED BY <2>1, <2>2, <2>3, FinalizeAccounts DEF Retire
  <1>5. CASE \E s \in Sessions : LeaseExpires(s)
    <2>1. PICK s \in Sessions : LeaseExpires(s)
      BY <1>5
    <2>2. \A t \in Sessions : lease'[t].owner = lease[t].owner
      <3>1. \A t \in Sessions : /\ lease[t] \in LeaseRow
                                /\ lease'[t] \in {lease[t], [lease[t] EXCEPT !.live = FALSE]}
        BY <2>1 DEF LeaseExpires, TypeOK, LeaseTypes
      <3> QED BY <3>1 DEF LeaseRow
    <2>3. sandbox' = sandbox
      BY <2>1 DEF LeaseExpires
    <2> QED BY <2>2, <2>3, OwnersAccount
  <1>6. CASE \/ UNCHANGED vars
             \/ \E r \in Runs : \/ AcceptTurn(r) \/ AcceptTurnCancellation(r)
                                \/ ClaimExpires(r) \/ CancelExpires(r)
             \/ \E k \in Workspaces : ToggleWorkspace(k)
             \/ \E s \in Sessions : ProjectEvents(s)
    BY <1>1, <1>6 DEF vars, AcceptTurn, AcceptTurnCancellation, ClaimExpires,
       CancelExpires, ToggleWorkspace, ProjectEvents
  <1> QED BY <1>3, <1>4, <1>5, <1>6 DEF Next

\* active_sessions counts the leases of a Sandbox exactly and within its capacity
\* (acquire, #releaseLeaseRow, retireSandbox).
THEOREM ReservationsAccount == Spec => []CapacityAccounting
  <1>1. Init => TypeOK /\ Accounts
    <2> SUFFICES ASSUME Init PROVE Accounts
      BY InitTypes
    <2>1. \A w \in Workers : Leased(w) = {} /\ sandbox[w] = [state |-> "ready", active |-> 0]
      BY ConstantsAssumption DEF Init, Leased, NoLease, ConstantsAssumption
    <2> QED BY <2>1, FS_EmptySet, BoundsAssumption
            DEF Accounts, Balanced, BoundsAssumption
  <1>2. TypeOK /\ Accounts /\ [Next]_vars => (TypeOK /\ Accounts)'
    BY NextTypes, AccountsStep
  <1>3. TypeOK /\ Accounts => CapacityAccounting
    BY AccountsWhole
  <1> QED BY <1>1, <1>2, <1>3, PTL DEF Spec
=============================================================================
