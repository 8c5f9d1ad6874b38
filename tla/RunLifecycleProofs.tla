------------------------- MODULE RunLifecycleProofs -------------------------
(***************************************************************************)
(* What holds of RunLifecycle for every set of Sessions, Runs and Workers   *)
(* and every bound.                                                         *)
(***************************************************************************)
EXTENDS RunLifecycle, TLAPS

-----------------------------------------------------------------------------
(* What the shared parts of the transactions write.                          *)

\* An attempt row moves to a known state: transitionCurrentRunAttempt.
LEMMA AttemptMoves ==
  ASSUME RunTypes, NEW r \in Runs, NEW a, NEW state \in AttemptStates,
         attempt' = [attempt EXCEPT ![r][a].state = state]
  PROVE  attempt' \in [Runs -> [Claims -> AttemptRow]]
  <1> DEFINE new == [attempt[r] EXCEPT ![a].state = state]
  <1>0. attempt[r] \in [Claims -> AttemptRow]
    BY DEF RunTypes
  <1>1. new \in [Claims -> AttemptRow]
    BY <1>0 DEF AttemptRow
  <1>2. attempt' = [attempt EXCEPT ![r] = new]
    OBVIOUS
  <1> HIDE DEF new
  <1> QED BY <1>1, <1>2 DEF RunTypes

\* An attempt row is bound to a fence: acquire.
LEMMA AttemptBinds ==
  ASSUME RunTypes, NEW r \in Runs, NEW a, NEW token \in Nat,
         attempt' = [attempt EXCEPT ![r][a].fence = token]
  PROVE  attempt' \in [Runs -> [Claims -> AttemptRow]]
  <1> DEFINE new == [attempt[r] EXCEPT ![a].fence = token]
  <1>0. attempt[r] \in [Claims -> AttemptRow]
    BY DEF RunTypes
  <1>1. new \in [Claims -> AttemptRow]
    BY <1>0 DEF AttemptRow
  <1>2. attempt' = [attempt EXCEPT ![r] = new]
    OBVIOUS
  <1> HIDE DEF new
  <1> QED BY <1>1, <1>2 DEF RunTypes

\* The Run and its attempt move together.
LEMMA MoveRunTypes ==
  ASSUME RunTypes, NEW r \in Runs, NEW state \in RunStates \cap AttemptStates,
         MoveRun(r, state)
  PROVE  /\ run' \in [Runs -> RunStates]
         /\ attempt' \in [Runs -> [Claims -> AttemptRow]]
  <1>1. run' \in [Runs -> RunStates]
    BY DEF MoveRun, RunTypes
  <1>2. attempt' \in [Runs -> [Claims -> AttemptRow]]
    BY AttemptMoves DEF MoveRun
  <1> QED BY <1>1, <1>2

\* A reservation is given back only where there is one.
LEMMA ReleasedType ==
  ASSUME NEW sb \in SandboxRow, sb.active >= 1
  PROVE  Released(sb) \in SandboxRow
  BY DEF SandboxRow, SandboxStates, Released

LEMMA ReleaseLeaseTypes ==
  ASSUME LeaseTypes, NEW s \in Sessions, ReleaseLease(s)
  PROVE  LeaseTypes'
  <1>1. lease[s].owner \in Workers /\ sandbox[lease[s].owner].active >= 1
    BY DEF LeaseTypes, ReleaseLease, Releasable, LeaseRow
  <1>2. Released(sandbox[lease[s].owner]) \in SandboxRow
    BY <1>1, ReleasedType DEF LeaseTypes
  <1>3. NoLease \in LeaseRow
    BY DEF NoLease, LeaseRow
  <1>4. lease' \in [Sessions -> LeaseRow]
    BY <1>3 DEF ReleaseLease, LeaseTypes
  <1>5. sandbox' \in [Workers -> SandboxRow]
    BY <1>2 DEF ReleaseLease, LeaseTypes
  <1> QED BY <1>4, <1>5 DEF LeaseTypes

LEMMA ReleaseAcquiredTypes ==
  ASSUME LeaseTypes, NEW w \in Workers, NEW r \in Runs, ReleaseAcquired(w, r)
  PROVE  LeaseTypes'
  <1>1. CASE HoldsLease(w, r) /\ Releasable(SessionOf[r])
    BY <1>1, ReleaseLeaseTypes, ConstantsAssumption
       DEF ReleaseAcquired, ConstantsAssumption
  <1>2. CASE ~(HoldsLease(w, r) /\ Releasable(SessionOf[r]))
    BY <1>2 DEF ReleaseAcquired, LeaseTypes, leaseVars
  <1> QED BY <1>1, <1>2

\* The step of an in-memory dispatch.
LEMMA JobWrite ==
  ASSUME JobTypes, NEW w \in Workers, NEW r \in Runs, NEW j \in JobRecord,
         job' = [job EXCEPT ![w][r] = j]
  PROVE  JobTypes'
  <1> DEFINE new == [job[w] EXCEPT ![r] = j]
  <1>1. new \in [Runs -> JobRecord]
    BY DEF JobTypes
  <1>2. job' = [job EXCEPT ![w] = new]
    OBVIOUS
  <1> HIDE DEF new
  <1> QED BY <1>1, <1>2 DEF JobTypes

LEMMA EndJobTypes ==
  ASSUME JobTypes, NEW w \in Workers, NEW r \in Runs, EndJob(w, r)
  PROVE  JobTypes'
  <1>1. NoJob \in JobRecord
    BY BoundsAssumption
       DEF NoJob, JobRecord, JobPhases, Versions, BoundsAssumption
  <1> QED BY <1>1, JobWrite DEF EndJob

LEMMA SetPhaseTypes ==
  ASSUME JobTypes, NEW w \in Workers, NEW r \in Runs, NEW phase \in JobPhases,
         SetPhase(w, r, phase)
  PROVE  JobTypes'
  <1> DEFINE j == [job[w][r] EXCEPT !.phase = phase]
  <1>1. j \in JobRecord
    BY DEF JobTypes, JobRecord
  <1>2. job' = [job EXCEPT ![w][r] = j]
    BY DEF SetPhase
  <1> HIDE DEF j
  <1> QED BY <1>1, <1>2, JobWrite

LEMMA CancelJobWrite ==
  ASSUME CancelTypes, NEW w \in Workers, NEW r \in Runs,
         NEW j \in CancelJobRecord,
         cancelJob' = [cancelJob EXCEPT ![w][r] = j]
  PROVE  cancelJob' \in [Workers -> [Runs -> CancelJobRecord]]
  <1> DEFINE new == [cancelJob[w] EXCEPT ![r] = j]
  <1>1. new \in [Runs -> CancelJobRecord]
    BY DEF CancelTypes
  <1>2. cancelJob' = [cancelJob EXCEPT ![w] = new]
    OBVIOUS
  <1> HIDE DEF new
  <1> QED BY <1>1, <1>2 DEF CancelTypes

LEMMA EndCancelJobTypes ==
  ASSUME CancelTypes, NEW w \in Workers, NEW r \in Runs, EndCancelJob(w, r)
  PROVE  cancelJob' \in [Workers -> [Runs -> CancelJobRecord]]
  <1>1. NoCancelJob \in CancelJobRecord
    BY BoundsAssumption
       DEF NoCancelJob, CancelJobRecord, CancelPhases, BoundsAssumption
  <1> QED BY <1>1, CancelJobWrite DEF EndCancelJob

LEMMA SetCancelPhaseTypes ==
  ASSUME CancelTypes, NEW w \in Workers, NEW r \in Runs,
         NEW phase \in CancelPhases, SetCancelPhase(w, r, phase)
  PROVE  cancelJob' \in [Workers -> [Runs -> CancelJobRecord]]
  <1> DEFINE j == [cancelJob[w][r] EXCEPT !.phase = phase]
  <1>1. j \in CancelJobRecord
    BY DEF CancelTypes, CancelJobRecord
  <1>2. cancelJob' = [cancelJob EXCEPT ![w][r] = j]
    BY DEF SetCancelPhase
  <1> HIDE DEF j
  <1> QED BY <1>1, <1>2, CancelJobWrite

\* A completed Run's version is a version.
LEMMA AdvanceHeadsTypes ==
  ASSUME SessionTypes, RunTypes, NEW r \in Runs, AdvanceHeads(r)
  PROVE  /\ version' \in [Sessions -> Versions]
         /\ head' \in [Workspaces -> Versions]
         /\ staged' \in [Runs -> BOOLEAN]
  <1>1. r \in Versions
    BY DEF Versions
  <1>2. CASE ~staged[r]
    BY <1>2 DEF AdvanceHeads, SessionTypes, RunTypes
  <1>3. CASE staged[r]
    <2>1. version' \in [Sessions -> Versions]
      BY <1>1, <1>3 DEF AdvanceHeads, SessionTypes
    <2>2. head' \in [Workspaces -> Versions]
      BY <1>1, <1>3 DEF AdvanceHeads, SessionTypes
    <2>3. staged' \in [Runs -> BOOLEAN]
      BY <1>3 DEF AdvanceHeads, RunTypes
    <2> QED BY <2>1, <2>2, <2>3
  <1> QED BY <1>2, <1>3

\* What a step leaves alone keeps its type.
LEMMA UnchangedTypes ==
  /\ SessionTypes /\ UNCHANGED sessionVars => SessionTypes'
  /\ RunTypes /\ UNCHANGED runVars => RunTypes'
  /\ LeaseTypes /\ UNCHANGED leaseVars => LeaseTypes'
  /\ CancelTypes /\ UNCHANGED cancelVars => CancelTypes'
  /\ EnvTypes /\ UNCHANGED envVars => EnvTypes'
  /\ JobTypes /\ UNCHANGED job => JobTypes'
  <1>1. SessionTypes /\ UNCHANGED sessionVars => SessionTypes'
    BY DEF SessionTypes, sessionVars
  <1>2. RunTypes /\ UNCHANGED runVars => RunTypes'
    BY DEF RunTypes, runVars
  <1>3. LeaseTypes /\ UNCHANGED leaseVars => LeaseTypes'
    BY DEF LeaseTypes, leaseVars
  <1>4. CancelTypes /\ UNCHANGED cancelVars => CancelTypes'
    BY DEF CancelTypes, cancelVars
  <1>5. EnvTypes /\ UNCHANGED envVars => EnvTypes'
    BY DEF EnvTypes, envVars
  <1>6. JobTypes /\ UNCHANGED job => JobTypes'
    BY DEF JobTypes
  <1> QED BY <1>1, <1>2, <1>3, <1>4, <1>5, <1>6

-----------------------------------------------------------------------------
(* Every action preserves the type invariant.                                *)

\* The control plane's own steps.
LEMMA AcceptTurnTypes ==
  ASSUME TypeOK, NEW r \in Runs, AcceptTurn(r)
  PROVE  TypeOK'
  <1>1. WorkspaceBase(r) \in Versions
    BY ConstantsAssumption
       DEF TypeOK, SessionTypes, WorkspaceBase, ConstantsAssumption
  <1>2. SessionTypes'
    BY <1>1, ConstantsAssumption
       DEF TypeOK, SessionTypes, AcceptTurn, ConstantsAssumption
  <1>3. RunTypes'
    BY <1>1, ConstantsAssumption
       DEF TypeOK, SessionTypes, RunTypes, AcceptTurn, ConstantsAssumption,
           TurnStates, CommandStates, RunStates, OutboxRow
  <1> QED BY <1>2, <1>3, UnchangedTypes DEF TypeOK, AcceptTurn

LEMMA ToggleTypes ==
  ASSUME TypeOK, NEW k \in Workspaces, ToggleWorkspace(k)
  PROVE  TypeOK'
  <1>1. EnvTypes'
    BY DEF TypeOK, EnvTypes, ToggleWorkspace
  <1> QED BY <1>1, UnchangedTypes DEF TypeOK, ToggleWorkspace

LEMMA AcceptTurnCancellationTypes ==
  ASSUME TypeOK, NEW r \in Runs, AcceptTurnCancellation(r)
  PROVE  TypeOK'
  <1>1. CancelTypes'
    BY BoundsAssumption
       DEF TypeOK, CancelTypes, AcceptTurnCancellation, CancelRow, CommandStates,
           BoundsAssumption
  <1> QED BY <1>1, UnchangedTypes DEF TypeOK, AcceptTurnCancellation

\* The steps that only move a Worker's in-memory dispatch.
LEMMA JobOnlyTypes ==
  ASSUME TypeOK, JobTypes',
         UNCHANGED <<sessionVars, runVars, leaseVars, cancelVars, envVars>>
  PROVE  TypeOK'
  BY UnchangedTypes DEF TypeOK

LEMMA ClaimSelectTypes ==
  ASSUME TypeOK, NEW w \in Workers, NEW r \in Runs, ClaimSelect(w, r)
  PROVE  TypeOK'
  <1> DEFINE j == [phase |-> "selected", attempt |-> Current(r) + 1,
                   fence |-> 0, base |-> WorkspaceBase(r)]
  <1>1. WorkspaceBase(r) \in Versions
    BY ConstantsAssumption
       DEF TypeOK, SessionTypes, WorkspaceBase, ConstantsAssumption
  <1>2. Current(r) + 1 \in 0 .. MaxClaims
    BY BoundsAssumption
       DEF TypeOK, RunTypes, OutboxRow, Current, ClaimSelect, BoundsAssumption
  <1>3. j \in JobRecord
    BY <1>1, <1>2 DEF JobRecord, JobPhases
  <1>4. job' = [job EXCEPT ![w][r] = j]
    BY DEF ClaimSelect
  <1> HIDE DEF j
  <1>5. JobTypes'
    BY <1>3, <1>4, JobWrite DEF TypeOK
  <1> QED BY <1>5, JobOnlyTypes DEF ClaimSelect

LEMMA ClaimCommitTypes ==
  ASSUME TypeOK, NEW w \in Workers, NEW r \in Runs, ClaimCommit(w, r)
  PROVE  TypeOK'
  <1> DEFINE next == job[w][r].attempt
             new == [a \in Claims |->
                       IF a = next
                       THEN [state |-> "claimed", owner |-> w, fence |-> 0]
                       ELSE IF a = Current(r) THEN Supersede(attempt[r][a])
                                              ELSE attempt[r][a]]
  <1>1. next \in 0 .. MaxClaims /\ job[w][r].base \in Versions
    BY DEF TypeOK, JobTypes, JobRecord
  <1>2. \A a \in Claims : attempt[r][a] \in AttemptRow
    BY DEF TypeOK, RunTypes
  <1>3. ASSUME NEW a \in AttemptRow
        PROVE  Supersede(a) \in AttemptRow
    BY DEF Supersede, AttemptRow, AttemptStates
  <1>4. [state |-> "claimed", owner |-> w, fence |-> 0] \in AttemptRow
    BY DEF AttemptRow, AttemptStates
  <1>5. new \in [Claims -> AttemptRow]
    BY <1>2, <1>3, <1>4
  <1>6. attempt' = [attempt EXCEPT ![r] = new]
    BY DEF ClaimCommit
  <1> HIDE DEF new, next
  <1>7. attempt' \in [Runs -> [Claims -> AttemptRow]]
    BY <1>5, <1>6 DEF TypeOK, RunTypes
  <1>8. RunTypes'
    BY <1>1, <1>7 DEF next, TypeOK, RunTypes, ClaimCommit, OutboxRow, TurnStates,
                      CommandStates, RunStates
  <1>9. JobTypes'
    BY SetPhaseTypes DEF TypeOK, ClaimCommit, JobPhases
  <1> QED BY <1>8, <1>9, UnchangedTypes DEF TypeOK, ClaimCommit

LEMMA DispatchPhaseTypes ==
  ASSUME TypeOK, NEW w \in Workers, NEW r \in Runs,
         \/ ClaimBlocked(w, r) \/ AcquireFails(w, r)
         \/ \E phase \in {"succeeded", "failed"} : ExecutionEnds(w, r, phase)
         \/ HeartbeatRevokes(w, r) \/ BarrierTimesOut(w, r)
         \/ CompleteFails(w, r) \/ RecordFailureStale(w, r) \/ CommitAborts(w, r)
  PROVE  TypeOK'
  <1>1. CASE ClaimBlocked(w, r)
    <2>1. JobTypes' BY <1>1, EndJobTypes DEF TypeOK, ClaimBlocked
    <2> QED BY <1>1, <2>1, JobOnlyTypes DEF ClaimBlocked
  <1>2. CASE AcquireFails(w, r)
    <2>1. JobTypes' BY <1>2, SetPhaseTypes DEF TypeOK, AcquireFails, JobPhases
    <2> QED BY <1>2, <2>1, JobOnlyTypes DEF AcquireFails
  <1>3. CASE \E phase \in {"succeeded", "failed"} : ExecutionEnds(w, r, phase)
    <2>1. JobTypes' BY <1>3, SetPhaseTypes DEF TypeOK, ExecutionEnds, JobPhases
    <2> QED BY <1>3, <2>1, JobOnlyTypes DEF ExecutionEnds
  <1>4. CASE HeartbeatRevokes(w, r)
    <2>1. JobTypes' BY <1>4, SetPhaseTypes DEF TypeOK, HeartbeatRevokes, JobPhases
    <2> QED BY <1>4, <2>1, JobOnlyTypes DEF HeartbeatRevokes
  <1>5. CASE BarrierTimesOut(w, r)
    <2>1. JobTypes'
      BY <1>5, SetPhaseTypes, EndJobTypes DEF TypeOK, BarrierTimesOut, JobPhases
    <2> QED BY <1>5, <2>1, JobOnlyTypes DEF BarrierTimesOut
  <1>6. CASE CompleteFails(w, r)
    <2>1. JobTypes' BY <1>6, EndJobTypes DEF TypeOK, CompleteFails
    <2> QED BY <1>6, <2>1, JobOnlyTypes DEF CompleteFails
  <1>7. CASE RecordFailureStale(w, r)
    <2>1. JobTypes' BY <1>7, EndJobTypes DEF TypeOK, RecordFailureStale
    <2> QED BY <1>7, <2>1, JobOnlyTypes DEF RecordFailureStale
  <1>8. CASE CommitAborts(w, r)
    <2>1. JobTypes' BY <1>8, EndJobTypes DEF TypeOK, CommitAborts
    <2> QED BY <1>8, <2>1, JobOnlyTypes DEF CommitAborts
  <1> QED BY <1>1, <1>2, <1>3, <1>4, <1>5, <1>6, <1>7, <1>8

\* The steps of a dispatch that write rows.
LEMMA AcquireTypes ==
  ASSUME TypeOK, NEW w \in Workers, NEW r \in Runs, Acquire(w, r)
  PROVE  TypeOK'
  <1> DEFINE s == SessionOf[r]
             token == fence[s] + 1
             freed == SandboxesWithout(s)
             j == [job[w][r] EXCEPT !.phase = "leased", !.fence = token]
  <1>1. s \in Sessions
    BY ConstantsAssumption DEF ConstantsAssumption
  <1>2. token \in Nat
    BY <1>1 DEF TypeOK, SessionTypes
  <1>3. freed \in [Workers -> SandboxRow]
    <2>1. CASE LeaseExpired(s)
      <3>1. lease[s].owner \in Workers /\ sandbox[lease[s].owner].active >= 1
        BY <1>1, <2>1 DEF Acquire, Acquirable, Releasable, TypeOK, LeaseTypes, LeaseRow
      <3>2. Released(sandbox[lease[s].owner]) \in SandboxRow
        BY <3>1, ReleasedType DEF TypeOK, LeaseTypes
      <3> QED BY <2>1, <3>2 DEF SandboxesWithout, TypeOK, LeaseTypes
    <2>2. CASE ~LeaseExpired(s)
      BY <2>2 DEF SandboxesWithout, TypeOK, LeaseTypes
    <2> QED BY <2>1, <2>2
  <1>4. SessionTypes'
    BY <1>1, <1>2 DEF Acquire, TypeOK, SessionTypes
  <1>5. attempt' \in [Runs -> [Claims -> AttemptRow]]
    BY <1>2, AttemptBinds DEF Acquire, TypeOK
  <1>6. RunTypes'
    BY <1>5 DEF Acquire, TypeOK, RunTypes
  <1>7. [owner |-> w, fence |-> token, live |-> TRUE] \in LeaseRow
    BY <1>2 DEF LeaseRow
  <1>8. lease' \in [Sessions -> LeaseRow]
    BY <1>1, <1>7 DEF Acquire, TypeOK, LeaseTypes
  <1>9. [state |-> "leased", active |-> freed[w].active + 1] \in SandboxRow
    <2>1. freed[w].active \in Nat
      BY <1>3 DEF SandboxRow
    <2> QED BY <2>1 DEF SandboxRow, SandboxStates
  <1>10. sandbox' = [freed EXCEPT ![w] =
                       [state |-> "leased", active |-> freed[w].active + 1]]
    BY DEF Acquire
  <1>11. j \in JobRecord
    <2>1. job[w][r] \in JobRecord
      BY DEF TypeOK, JobTypes
    <2> QED BY <1>2, <2>1 DEF JobRecord, JobPhases
  <1>12. job' = [job EXCEPT ![w][r] = j]
    BY DEF Acquire, TypeOK, JobTypes
  <1> HIDE DEF freed, j
  <1>13. sandbox' \in [Workers -> SandboxRow]
    BY <1>3, <1>9, <1>10
  <1>14. JobTypes'
    BY <1>11, <1>12, JobWrite DEF TypeOK
  <1>15. LeaseTypes'
    BY <1>8, <1>13 DEF LeaseTypes
  <1> QED BY <1>4, <1>6, <1>14, <1>15, UnchangedTypes DEF TypeOK, Acquire

LEMMA MarkStartedTypes ==
  ASSUME TypeOK, NEW w \in Workers, NEW r \in Runs, MarkStarted(w, r)
  PROVE  TypeOK'
  <1>1. SessionTypes'
    BY ConstantsAssumption
       DEF MarkStarted, TypeOK, SessionTypes, SessionStates, ConstantsAssumption
  <1>2. run' \in [Runs -> RunStates] /\ attempt' \in [Runs -> [Claims -> AttemptRow]]
    BY MoveRunTypes
       DEF MarkStarted, TypeOK, RunStates, AttemptStates, ExecutingStates
  <1>3. RunTypes'
    BY <1>2 DEF MarkStarted, TypeOK, RunTypes, OutboxRow, CommandStates, TurnStates
  <1>4. JobTypes'
    BY SetPhaseTypes DEF MarkStarted, TypeOK, JobPhases
  <1> QED BY <1>1, <1>3, <1>4, UnchangedTypes DEF TypeOK, MarkStarted

LEMMA StartRefusedTypes ==
  ASSUME TypeOK, NEW w \in Workers, NEW r \in Runs,
         \/ MarkStartedFails(w, r)
         \/ \E phase \in {"rejected", "refused"} : DeliveryRejected(w, r, phase)
  PROVE  TypeOK'
  <1>1. LeaseTypes'
    BY ReleaseAcquiredTypes DEF MarkStartedFails, DeliveryRejected, TypeOK
  <1>2. JobTypes'
    BY EndJobTypes, SetPhaseTypes
       DEF MarkStartedFails, DeliveryRejected, TypeOK, JobPhases
  <1> QED BY <1>1, <1>2, UnchangedTypes
          DEF TypeOK, MarkStartedFails, DeliveryRejected

LEMMA ExecutionTypes ==
  ASSUME TypeOK, NEW w \in Workers, NEW r \in Runs, Execution(w, r)
  PROVE  TypeOK'
  <1>1. CASE EmitEvents(w, r)
    <2>1. EnvTypes'
      BY <1>1, ConstantsAssumption
         DEF EmitEvents, TypeOK, EnvTypes, ConstantsAssumption
    <2> QED BY <1>1, <2>1, UnchangedTypes DEF TypeOK, EmitEvents
  <1>2. ASSUME NEW phase \in ExecutingStates, ObservePhase(w, r, phase)
        PROVE  TypeOK'
    <2>1. /\ run' \in [Runs -> RunStates]
          /\ attempt' \in [Runs -> [Claims -> AttemptRow]]
      BY <1>2, MoveRunTypes DEF ObservePhase, TypeOK, RunStates, AttemptStates
    <2>2. RunTypes'
      BY <1>2, <2>1 DEF ObservePhase, TypeOK, RunTypes
    <2> QED BY <1>2, <2>2, UnchangedTypes DEF TypeOK, ObservePhase
  <1>3. CASE SaveCheckpoint(w, r)
    <2>1. RunTypes'
      BY <1>3 DEF SaveCheckpoint, TypeOK, RunTypes
    <2> QED BY <1>3, <2>1, UnchangedTypes DEF TypeOK, SaveCheckpoint
  <1> QED BY <1>1, <1>2, <1>3 DEF Execution

\* command, turn and session are settled together.
LEMMA SettleTypes ==
  ASSUME TypeOK, NEW r \in Runs, NEW c \in CommandStates, NEW t \in TurnStates,
         NEW n \in SessionStates, Settle(r, c, t, n)
  PROVE  /\ command' \in [Runs -> CommandStates]
         /\ turn' \in [Runs -> TurnStates]
         /\ session' \in [Sessions -> SessionStates]
  BY ConstantsAssumption
     DEF Settle, TypeOK, RunTypes, SessionTypes, ConstantsAssumption

LEMMA CompleteTypes ==
  ASSUME TypeOK, NEW w \in Workers, NEW r \in Runs, Complete(w, r)
  PROVE  TypeOK'
  <1>1. /\ run' \in [Runs -> RunStates]
        /\ attempt' \in [Runs -> [Claims -> AttemptRow]]
    BY MoveRunTypes DEF Complete, TypeOK, RunStates, AttemptStates
  <1>2. /\ version' \in [Sessions -> Versions]
        /\ head' \in [Workspaces -> Versions]
        /\ staged' \in [Runs -> BOOLEAN]
    BY AdvanceHeadsTypes DEF Complete, TypeOK
  <1>3. /\ command' \in [Runs -> CommandStates]
        /\ turn' \in [Runs -> TurnStates]
        /\ session' \in [Sessions -> SessionStates]
    BY SettleTypes DEF Complete, CommandStates, TurnStates, SessionStates
  <1>4. SessionTypes'
    BY <1>2, <1>3 DEF Complete, TypeOK, SessionTypes
  <1>5. RunTypes'
    <2>1. terminal' \in [Runs -> Nat]
      BY DEF Complete, TypeOK, RunTypes, CommitTerminalEvent
    <2>2. UNCHANGED <<position, outbox, base>>
      BY DEF Complete
    <2> QED BY <1>1, <1>2, <1>3, <2>1, <2>2 DEF TypeOK, RunTypes
  <1>6. LeaseTypes'
    BY ReleaseLeaseTypes, ConstantsAssumption
       DEF Complete, TypeOK, ConstantsAssumption
  <1>7. JobTypes'
    BY EndJobTypes DEF Complete, TypeOK
  <1> QED BY <1>4, <1>5, <1>6, <1>7, UnchangedTypes DEF TypeOK, Complete

LEMMA RecordRetryTypes ==
  ASSUME TypeOK, NEW w \in Workers, NEW r \in Runs, RecordRetry(w, r)
  PROVE  TypeOK'
  <1>1. attempt' \in [Runs -> [Claims -> AttemptRow]]
    BY AttemptMoves DEF RecordRetry, TypeOK, AttemptStates
  <1>2. RunTypes'
    <2>1. outbox' \in [Runs -> OutboxRow]
      BY DEF RecordRetry, TypeOK, RunTypes, OutboxRow
    <2>2. /\ run' \in [Runs -> RunStates]
          /\ command' \in [Runs -> CommandStates]
          /\ turn' \in [Runs -> TurnStates]
      BY DEF RecordRetry, TypeOK, RunTypes, RunStates, CommandStates, TurnStates
    <2>3. UNCHANGED <<position, base, staged, terminal>>
      BY DEF RecordRetry
    <2> QED BY <1>1, <2>1, <2>2, <2>3 DEF TypeOK, RunTypes
  <1>3. JobTypes'
    BY EndJobTypes DEF RecordRetry, TypeOK
  <1> QED BY <1>2, <1>3, UnchangedTypes DEF TypeOK, RecordRetry

LEMMA RecordFailureBeforeStartTypes ==
  ASSUME TypeOK, NEW w \in Workers, NEW r \in Runs, RecordFailureBeforeStart(w, r)
  PROVE  TypeOK'
  <1>1. /\ run' \in [Runs -> RunStates]
        /\ attempt' \in [Runs -> [Claims -> AttemptRow]]
    BY MoveRunTypes DEF RecordFailureBeforeStart, TypeOK, RunStates, AttemptStates
  <1>2. SessionTypes'
    BY DEF RecordFailureBeforeStart, TypeOK, SessionTypes, AbandonStaged
  <1>3. RunTypes'
    <2>1. outbox' \in [Runs -> OutboxRow]
      BY DEF RecordFailureBeforeStart, TypeOK, RunTypes, OutboxRow
    <2>2. /\ command' \in [Runs -> CommandStates]
          /\ turn' \in [Runs -> TurnStates]
      BY DEF RecordFailureBeforeStart, TypeOK, RunTypes, CommandStates, TurnStates
    <2>3. staged' \in [Runs -> BOOLEAN] /\ terminal' \in [Runs -> Nat]
      BY DEF RecordFailureBeforeStart, TypeOK, RunTypes, AbandonStaged,
             CommitTerminalEvent
    <2>4. UNCHANGED <<position, base>>
      BY DEF RecordFailureBeforeStart
    <2> QED BY <1>1, <2>1, <2>2, <2>3, <2>4 DEF TypeOK, RunTypes
  <1>4. JobTypes'
    BY EndJobTypes DEF RecordFailureBeforeStart, TypeOK
  <1> QED BY <1>2, <1>3, <1>4, UnchangedTypes DEF TypeOK, RecordFailureBeforeStart

LEMMA RecordFailureAfterStartTypes ==
  ASSUME TypeOK, NEW w \in Workers, NEW r \in Runs, RecordFailureAfterStart(w, r)
  PROVE  TypeOK'
  <1>1. /\ run' \in [Runs -> RunStates]
        /\ attempt' \in [Runs -> [Claims -> AttemptRow]]
    BY MoveRunTypes DEF RecordFailureAfterStart, TypeOK, RunStates, AttemptStates
  <1>2. /\ command' \in [Runs -> CommandStates]
        /\ turn' \in [Runs -> TurnStates]
        /\ session' \in [Sessions -> SessionStates]
    BY SettleTypes
       DEF RecordFailureAfterStart, CommandStates, TurnStates, SessionStates
  <1>3. SessionTypes'
    BY <1>2 DEF RecordFailureAfterStart, TypeOK, SessionTypes, AbandonStaged
  <1>4. RunTypes'
    <2>1. staged' \in [Runs -> BOOLEAN] /\ terminal' \in [Runs -> Nat]
      BY DEF RecordFailureAfterStart, TypeOK, RunTypes, AbandonStaged,
             CommitTerminalEvent
    <2>2. UNCHANGED <<position, outbox, base>>
      BY DEF RecordFailureAfterStart
    <2> QED BY <1>1, <1>2, <2>1, <2>2 DEF TypeOK, RunTypes
  <1>5. LeaseTypes'
    BY ReleaseLeaseTypes, ConstantsAssumption
       DEF RecordFailureAfterStart, TypeOK, ConstantsAssumption
  <1>6. JobTypes'
    BY EndJobTypes DEF RecordFailureAfterStart, TypeOK
  <1> QED BY <1>3, <1>4, <1>5, <1>6, UnchangedTypes
          DEF TypeOK, RecordFailureAfterStart

LEMMA DispatchTypes ==
  ASSUME TypeOK, NEW w \in Workers, NEW r \in Runs, Dispatch(w, r)
  PROVE  TypeOK'
  BY ClaimCommitTypes, DispatchPhaseTypes, AcquireTypes, MarkStartedTypes,
     StartRefusedTypes, CompleteTypes, RecordRetryTypes,
     RecordFailureBeforeStartTypes, RecordFailureAfterStartTypes
  DEF Dispatch

LEMMA FaultTypes ==
  ASSUME TypeOK, NEW w \in Workers, NEW r \in Runs, Fault(w, r)
  PROVE  TypeOK'
  BY DispatchPhaseTypes, StartRefusedTypes DEF Fault

\* Time passes and the projection catches up.
LEMMA ClockTypes ==
  ASSUME TypeOK,
         \/ \E r \in Runs : ClaimExpires(r) \/ CancelExpires(r)
         \/ \E s \in Sessions : LeaseExpires(s) \/ ProjectEvents(s)
  PROVE  TypeOK'
  <1>1. ASSUME NEW r \in Runs, ClaimExpires(r)
        PROVE  TypeOK'
    <2>1. RunTypes'
      BY <1>1 DEF ClaimExpires, TypeOK, RunTypes, OutboxRow
    <2> QED BY <1>1, <2>1, UnchangedTypes DEF TypeOK, ClaimExpires
  <1>2. ASSUME NEW r \in Runs, CancelExpires(r)
        PROVE  TypeOK'
    <2>1. CancelTypes'
      BY <1>2 DEF CancelExpires, TypeOK, CancelTypes, CancelRow
    <2> QED BY <1>2, <2>1, UnchangedTypes DEF TypeOK, CancelExpires
  <1>3. ASSUME NEW s \in Sessions, LeaseExpires(s)
        PROVE  TypeOK'
    <2>1. LeaseTypes'
      BY <1>3 DEF LeaseExpires, TypeOK, LeaseTypes, LeaseRow
    <2> QED BY <1>3, <2>1, UnchangedTypes DEF TypeOK, LeaseExpires
  <1>4. ASSUME NEW s \in Sessions, ProjectEvents(s)
        PROVE  TypeOK'
    <2>1. EnvTypes'
      BY <1>4 DEF ProjectEvents, TypeOK, EnvTypes
    <2> QED BY <1>4, <2>1, UnchangedTypes DEF TypeOK, ProjectEvents
  <1> QED BY <1>1, <1>2, <1>3, <1>4

\* The cancellation executor.
LEMMA CancelOnlyTypes ==
  ASSUME TypeOK, CancelTypes',
         UNCHANGED <<sessionVars, runVars, leaseVars, envVars, job>>
  PROVE  TypeOK'
  BY UnchangedTypes DEF TypeOK

LEMMA CancelPhaseTypes ==
  ASSUME TypeOK, NEW w \in Workers, NEW r \in Runs,
         \/ ScanCancel(w, r) \/ CancelAssign(w, r)
         \/ CancelMarkStartedFails(w, r) \/ CancelSettleFails(w, r)
  PROVE  TypeOK'
  <1>1. CASE ScanCancel(w, r)
    <2>1. CancelTypes'
      BY <1>1, SetCancelPhaseTypes DEF ScanCancel, TypeOK, CancelTypes, CancelPhases
    <2> QED BY <1>1, <2>1, CancelOnlyTypes DEF ScanCancel
  <1>2. CASE CancelAssign(w, r)
    <2> DEFINE token == fence[SessionOf[r]]
               j == [cancelJob[w][r] EXCEPT !.phase = "assigned", !.fence = token]
    <2>1. token \in Nat
      BY ConstantsAssumption DEF TypeOK, SessionTypes, ConstantsAssumption
    <2>2. cancelJob[w][r] \in CancelJobRecord
      BY DEF TypeOK, CancelTypes
    <2>3. j \in CancelJobRecord
      BY <2>1, <2>2 DEF CancelJobRecord, CancelPhases
    <2>4. \/ cancelJob' = [cancelJob EXCEPT ![w][r] = j]
          \/ \E phase \in CancelPhases : SetCancelPhase(w, r, phase)
      BY <1>2 DEF CancelAssign, CancelPhases, TypeOK, CancelTypes
    <2> HIDE DEF j
    <2>5. cancelJob' \in [Workers -> [Runs -> CancelJobRecord]]
      BY <2>3, <2>4, CancelJobWrite, SetCancelPhaseTypes DEF TypeOK
    <2>6. CancelTypes'
      BY <1>2, <2>5 DEF CancelAssign, TypeOK, CancelTypes
    <2> QED BY <1>2, <2>6, CancelOnlyTypes DEF CancelAssign
  <1>3. CASE CancelMarkStartedFails(w, r)
    <2>1. cancelJob' \in [Workers -> [Runs -> CancelJobRecord]]
      BY <1>3, SetCancelPhaseTypes, EndCancelJobTypes
         DEF CancelMarkStartedFails, TypeOK, CancelPhases
    <2>2. CancelTypes'
      BY <1>3, <2>1 DEF CancelMarkStartedFails, TypeOK, CancelTypes
    <2> QED BY <1>3, <2>2, CancelOnlyTypes DEF CancelMarkStartedFails
  <1>4. CASE CancelSettleFails(w, r)
    <2>1. cancelJob' \in [Workers -> [Runs -> CancelJobRecord]]
      BY <1>4, EndCancelJobTypes DEF CancelSettleFails, TypeOK
    <2>2. CancelTypes'
      BY <1>4, <2>1 DEF CancelSettleFails, TypeOK, CancelTypes
    <2> QED BY <1>4, <2>2, CancelOnlyTypes DEF CancelSettleFails
  <1> QED BY <1>1, <1>2, <1>3, <1>4

LEMMA ClaimCancelTypes ==
  ASSUME TypeOK, NEW w \in Workers, NEW r \in Runs, ClaimCancel(w, r)
  PROVE  TypeOK'
  <1> DEFINE row == [state |-> "dispatched", attempts |-> cancel[r].attempts + 1,
                     available |-> FALSE, published |-> FALSE]
             j == [phase |-> "claimed", attempt |-> cancel[r].attempts + 1,
                   target |-> Current(r), fence |-> 0]
  <1>1. cancel[r].attempts + 1 \in 0 .. MaxClaims
    BY BoundsAssumption
       DEF ClaimCancel, TypeOK, CancelTypes, CancelRow, BoundsAssumption
  <1>2. Current(r) \in 0 .. MaxClaims
    BY DEF TypeOK, RunTypes, OutboxRow, Current
  <1>3. row \in CancelRow
    BY <1>1 DEF CancelRow, CommandStates
  <1>4. j \in CancelJobRecord
    BY <1>1, <1>2 DEF CancelJobRecord, CancelPhases
  <1>5. cancel' = [cancel EXCEPT ![r] = row]
    BY DEF ClaimCancel, TypeOK, CancelTypes
  <1>6. cancelJob' = [cancelJob EXCEPT ![w][r] = j]
    BY DEF ClaimCancel
  <1> HIDE DEF row, j
  <1>7. cancelJob' \in [Workers -> [Runs -> CancelJobRecord]]
    BY <1>4, <1>6, CancelJobWrite DEF TypeOK
  <1>8. CancelTypes'
    BY <1>3, <1>5, <1>7 DEF TypeOK, CancelTypes
  <1> QED BY <1>8, CancelOnlyTypes DEF ClaimCancel

LEMMA CancelMarkStartedTypes ==
  ASSUME TypeOK, NEW w \in Workers, NEW r \in Runs, CancelMarkStarted(w, r)
  PROVE  TypeOK'
  <1>1. /\ run' \in [Runs -> RunStates]
        /\ attempt' \in [Runs -> [Claims -> AttemptRow]]
    BY MoveRunTypes DEF CancelMarkStarted, TypeOK, RunStates, AttemptStates
  <1>2. turn' \in [Runs -> TurnStates] /\ session' \in [Sessions -> SessionStates]
    BY ConstantsAssumption
       DEF CancelMarkStarted, TypeOK, RunTypes, SessionTypes, TurnStates,
           SessionStates, ConstantsAssumption
  <1>3. SessionTypes'
    BY <1>2 DEF CancelMarkStarted, TypeOK, SessionTypes
  <1>4. RunTypes'
    <2>1. UNCHANGED <<position, command, outbox, base, staged, terminal>>
      BY DEF CancelMarkStarted
    <2> QED BY <1>1, <1>2, <2>1 DEF TypeOK, RunTypes
  <1>5. cancel' \in [Runs -> CancelRow]
    BY DEF CancelMarkStarted, TypeOK, CancelTypes, CancelRow, CommandStates
  <1>6. cancelJob' \in [Workers -> [Runs -> CancelJobRecord]]
    BY SetCancelPhaseTypes DEF CancelMarkStarted, TypeOK, CancelPhases
  <1>7. CancelTypes'
    BY <1>5, <1>6 DEF CancelTypes
  <1> QED BY <1>3, <1>4, <1>7, UnchangedTypes DEF TypeOK, CancelMarkStarted

LEMMA CancelExecutionTypes ==
  ASSUME TypeOK, NEW w \in Workers, NEW r \in Runs,
         NEW phase \in {"confirmed", "unconfirmed"}, CancelExecution(w, r, phase)
  PROVE  TypeOK'
  <1>1. JobTypes'
    BY EndJobTypes DEF CancelExecution, TypeOK, JobTypes
  <1>2. cancelJob' \in [Workers -> [Runs -> CancelJobRecord]]
    BY SetCancelPhaseTypes DEF CancelExecution, TypeOK, CancelPhases
  <1>3. CancelTypes'
    BY <1>2 DEF CancelExecution, TypeOK, CancelTypes
  <1> QED BY <1>1, <1>3, UnchangedTypes DEF TypeOK, CancelExecution

LEMMA CancelCompleteTypes ==
  ASSUME TypeOK, NEW w \in Workers, NEW r \in Runs, CancelComplete(w, r)
  PROVE  TypeOK'
  <1>1. /\ run' \in [Runs -> RunStates]
        /\ attempt' \in [Runs -> [Claims -> AttemptRow]]
    BY MoveRunTypes DEF CancelComplete, TypeOK, RunStates, AttemptStates
  <1>2. /\ command' \in [Runs -> CommandStates]
        /\ turn' \in [Runs -> TurnStates]
        /\ session' \in [Sessions -> SessionStates]
    BY SettleTypes DEF CancelComplete, CommandStates, TurnStates, SessionStates
  <1>3. SessionTypes'
    BY <1>2 DEF CancelComplete, TypeOK, SessionTypes, AbandonStaged
  <1>4. RunTypes'
    <2>1. staged' \in [Runs -> BOOLEAN] /\ terminal' \in [Runs -> Nat]
      BY DEF CancelComplete, TypeOK, RunTypes, AbandonStaged, CommitTerminalEvent
    <2>2. UNCHANGED <<position, outbox, base>>
      BY DEF CancelComplete
    <2> QED BY <1>1, <1>2, <2>1, <2>2 DEF TypeOK, RunTypes
  <1>5. LeaseTypes'
    BY ReleaseLeaseTypes, ConstantsAssumption
       DEF CancelComplete, TypeOK, ConstantsAssumption
  <1>6. cancel' \in [Runs -> CancelRow]
    BY DEF CancelComplete, TypeOK, CancelTypes, CancelRow, CommandStates
  <1>7. cancelJob' \in [Workers -> [Runs -> CancelJobRecord]]
    BY EndCancelJobTypes DEF CancelComplete, TypeOK
  <1>8. CancelTypes'
    BY <1>6, <1>7 DEF CancelTypes
  <1> QED BY <1>3, <1>4, <1>5, <1>8, UnchangedTypes DEF TypeOK, CancelComplete

LEMMA CancelRecordFailureTypes ==
  ASSUME TypeOK, NEW w \in Workers, NEW r \in Runs,
         \/ CancelRecordFailureBeforeStart(w, r)
         \/ CancelRecordFailureAfterStart(w, r)
  PROVE  TypeOK'
  <1>0. cancelJob' \in [Workers -> [Runs -> CancelJobRecord]]
    BY EndCancelJobTypes
       DEF CancelRecordFailureBeforeStart, CancelRecordFailureAfterStart, TypeOK
  <1>1. CASE CancelRecordFailureBeforeStart(w, r)
    <2>1. cancel' \in [Runs -> CancelRow]
      <3> DEFINE retry == /\ cancelJob[w][r].phase = "rejected"
                          /\ cancelJob[w][r].attempt < MaxAttempts
                 row == [cancel[r] EXCEPT
                           !.state = IF retry THEN "pending" ELSE "failed",
                           !.published = ~retry]
      <3>1. cancel[r] \in CancelRow
        BY DEF TypeOK, CancelTypes
      <3>2. ASSUME retry PROVE row \in CancelRow
        <4>1. row = [cancel[r] EXCEPT !.state = "pending", !.published = FALSE]
          BY <3>2
        <4> QED BY <3>1, <4>1 DEF CancelRow, CommandStates
      <3>3. ASSUME ~retry PROVE row \in CancelRow
        <4>1. row = [cancel[r] EXCEPT !.state = "failed", !.published = TRUE]
          BY <3>3
        <4> QED BY <3>1, <4>1 DEF CancelRow, CommandStates
      <3>4. row \in CancelRow
        BY <3>2, <3>3
      <3>5. cancel' = [cancel EXCEPT ![r] = row]
        BY <1>1 DEF CancelRecordFailureBeforeStart, TypeOK, CancelTypes
      <3> HIDE DEF row
      <3> QED BY <3>4, <3>5 DEF TypeOK, CancelTypes
    <2>2. CancelTypes'
      BY <1>0, <2>1 DEF CancelTypes
    <2> QED BY <1>1, <2>2, CancelOnlyTypes DEF CancelRecordFailureBeforeStart
  <1>2. CASE CancelRecordFailureAfterStart(w, r)
    <2>1. /\ run' \in [Runs -> RunStates]
          /\ attempt' \in [Runs -> [Claims -> AttemptRow]]
      BY <1>2, MoveRunTypes
         DEF CancelRecordFailureAfterStart, TypeOK, RunStates, AttemptStates
    <2>2. /\ command' \in [Runs -> CommandStates]
          /\ turn' \in [Runs -> TurnStates]
          /\ session' \in [Sessions -> SessionStates]
      BY <1>2, SettleTypes
         DEF CancelRecordFailureAfterStart, CommandStates, TurnStates, SessionStates
    <2>3. SessionTypes'
      BY <1>2, <2>2
         DEF CancelRecordFailureAfterStart, TypeOK, SessionTypes, AbandonStaged
    <2>4. RunTypes'
      <3>1. staged' \in [Runs -> BOOLEAN]
        BY <1>2 DEF CancelRecordFailureAfterStart, TypeOK, RunTypes, AbandonStaged
      <3>2. UNCHANGED <<position, outbox, base, terminal>>
        BY <1>2 DEF CancelRecordFailureAfterStart
      <3> QED BY <2>1, <2>2, <3>1, <3>2 DEF TypeOK, RunTypes
    <2>5. cancel' \in [Runs -> CancelRow]
      BY <1>2 DEF CancelRecordFailureAfterStart, TypeOK, CancelTypes, CancelRow,
                  CommandStates
    <2>6. CancelTypes'
      BY <1>0, <2>5 DEF CancelTypes
    <2> QED BY <1>2, <2>3, <2>4, <2>6, UnchangedTypes
            DEF TypeOK, CancelRecordFailureAfterStart
  <1> QED BY <1>1, <1>2

LEMMA CancelDispatchTypes ==
  ASSUME TypeOK, NEW w \in Workers, NEW r \in Runs, CancelDispatch(w, r)
  PROVE  TypeOK'
  BY CancelPhaseTypes, ClaimCancelTypes, CancelMarkStartedTypes,
     CancelExecutionTypes, CancelCompleteTypes, CancelRecordFailureTypes
  DEF CancelDispatch

\* A Worker dies, is fenced or is retired.
LEMMA KillTypes ==
  ASSUME TypeOK, NEW w \in Workers, Kill(w)
  PROVE  /\ up' \in [Workers -> BOOLEAN]
         /\ JobTypes'
         /\ cancelJob' \in [Workers -> [Runs -> CancelJobRecord]]
  <1>1. NoJob \in JobRecord
    BY BoundsAssumption DEF NoJob, JobRecord, JobPhases, Versions, BoundsAssumption
  <1>2. NoCancelJob \in CancelJobRecord
    BY BoundsAssumption
       DEF NoCancelJob, CancelJobRecord, CancelPhases, BoundsAssumption
  <1>3. up' \in [Workers -> BOOLEAN]
    BY DEF Kill, TypeOK, EnvTypes
  <1>4. JobTypes'
    BY <1>1 DEF Kill, TypeOK, JobTypes
  <1>5. cancelJob' \in [Workers -> [Runs -> CancelJobRecord]]
    BY <1>2 DEF Kill, TypeOK, CancelTypes
  <1> QED BY <1>3, <1>4, <1>5

LEMMA HeartbeatFailsTypes ==
  ASSUME TypeOK, NEW w \in Workers, HeartbeatFails(w)
  PROVE  TypeOK'
  <1> DEFINE new == [r \in Runs |-> IF job[w][r].phase = "started"
                                    THEN [job[w][r] EXCEPT !.phase = "revoked"]
                                    ELSE job[w][r]]
  <1>1. ASSUME NEW j \in JobRecord
        PROVE  [j EXCEPT !.phase = "revoked"] \in JobRecord
    BY DEF JobRecord, JobPhases
  <1>2. \A r \in Runs : job[w][r] \in JobRecord
    BY DEF TypeOK, JobTypes
  <1>3. new \in [Runs -> JobRecord]
    BY <1>1, <1>2
  <1>4. job' = [job EXCEPT ![w] = new]
    BY DEF HeartbeatFails
  <1> HIDE DEF new
  <1>5. JobTypes'
    BY <1>3, <1>4 DEF TypeOK, JobTypes
  <1>6. LeaseTypes'
    BY DEF HeartbeatFails, TypeOK, LeaseTypes, SandboxRow, SandboxStates
  <1> QED BY <1>5, <1>6, UnchangedTypes DEF TypeOK, HeartbeatFails

LEMMA WorkerCrashesTypes ==
  ASSUME TypeOK, NEW w \in Workers, WorkerCrashes(w)
  PROVE  TypeOK'
  <1>1. /\ up' \in [Workers -> BOOLEAN]
        /\ JobTypes'
        /\ cancelJob' \in [Workers -> [Runs -> CancelJobRecord]]
    BY KillTypes DEF WorkerCrashes
  <1>2. CancelTypes' /\ EnvTypes'
    BY <1>1 DEF WorkerCrashes, TypeOK, CancelTypes, EnvTypes
  <1> QED BY <1>1, <1>2, UnchangedTypes DEF TypeOK, WorkerCrashes

LEMMA FenceSandboxTypes ==
  ASSUME TypeOK, NEW w \in Workers, FenceSandbox(w)
  PROVE  TypeOK'
  <1>1. EnvTypes'
    BY DEF FenceSandbox, TypeOK, EnvTypes, RetirementRow, RetirementStates
  <1>2. LeaseTypes'
    BY DEF FenceSandbox, TypeOK, LeaseTypes, SandboxRow, SandboxStates
  <1> QED BY <1>1, <1>2, UnchangedTypes DEF TypeOK, FenceSandbox

LEMMA StopAndConfirmTypes ==
  ASSUME TypeOK, NEW w \in Workers, StopAndConfirm(w)
  PROVE  TypeOK'
  <1>1. /\ up' \in [Workers -> BOOLEAN]
        /\ JobTypes'
        /\ cancelJob' \in [Workers -> [Runs -> CancelJobRecord]]
    BY KillTypes DEF StopAndConfirm
  <1>2. retirement' \in [Workers -> RetirementRow]
    BY DEF StopAndConfirm, TypeOK, EnvTypes, RetirementRow, RetirementStates
  <1>3. CancelTypes' /\ EnvTypes'
    BY <1>1, <1>2 DEF StopAndConfirm, TypeOK, CancelTypes, EnvTypes
  <1> QED BY <1>1, <1>3, UnchangedTypes DEF TypeOK, StopAndConfirm

LEMMA LoadAssignmentsTypes ==
  ASSUME TypeOK, NEW w \in Workers, LoadAssignments(w)
  PROVE  TypeOK'
  <1> DEFINE loaded == {<<s, lease[s].fence>> :
                          s \in {t \in Sessions : lease[t].owner = w}}
             row == [state |-> "loaded", candidates |-> loaded]
  <1>1. \A s \in Sessions : lease[s].fence \in Nat
    BY DEF TypeOK, LeaseTypes, LeaseRow
  <1>2. loaded \in SUBSET (Sessions \X Nat)
    BY <1>1
  <1>3. row \in RetirementRow
    BY <1>2 DEF RetirementRow, RetirementStates
  <1>4. retirement' = [retirement EXCEPT ![w] = row]
    BY DEF LoadAssignments
  <1> HIDE DEF row
  <1>5. EnvTypes'
    BY <1>3, <1>4 DEF LoadAssignments, TypeOK, EnvTypes
  <1> QED BY <1>5, UnchangedTypes DEF TypeOK, LoadAssignments

LEMMA RetirementFailsTypes ==
  ASSUME TypeOK, NEW w \in Workers, RetirementFails(w)
  PROVE  TypeOK'
  <1>1. EnvTypes'
    BY DEF RetirementFails, TypeOK, EnvTypes, RetirementRow, RetirementStates
  <1> QED BY <1>1, UnchangedTypes DEF TypeOK, RetirementFails

LEMMA FinalizeRetirementTypes ==
  ASSUME TypeOK, NEW w \in Workers, FinalizeRetirement(w)
  PROVE  TypeOK'
  <1>1. session' \in [Sessions -> SessionStates]
    BY DEF FinalizeRetirement, TypeOK, SessionTypes, SessionStates
  <1>2. /\ run' \in [Runs -> RunStates]
        /\ command' \in [Runs -> CommandStates]
        /\ turn' \in [Runs -> TurnStates]
    BY DEF FinalizeRetirement, TypeOK, RunTypes, RunStates, CommandStates, TurnStates
  <1>3. attempt' \in [Runs -> [Claims -> AttemptRow]]
    <2>1. ASSUME NEW a \in AttemptRow
          PROVE  [a EXCEPT !.state = "failed"] \in AttemptRow
      BY DEF AttemptRow, AttemptStates
    <2>2. \A r \in Runs, a \in Claims : attempt[r][a] \in AttemptRow
      BY DEF TypeOK, RunTypes
    <2> QED BY <2>1, <2>2 DEF FinalizeRetirement
  <1>4. outbox' \in [Runs -> OutboxRow]
    BY DEF FinalizeRetirement, TypeOK, RunTypes, OutboxRow
  <1>5. staged' \in [Runs -> BOOLEAN]
    BY DEF FinalizeRetirement
  <1>6. terminal' \in [Runs -> Nat]
    <2>1. \A r \in Runs : terminal[r] \in Nat /\ terminal[r] + 1 \in Nat
      BY DEF TypeOK, RunTypes
    <2> QED BY <2>1 DEF FinalizeRetirement
  <1>7. RunTypes'
    <2>1. UNCHANGED <<position, base>>
      BY DEF FinalizeRetirement
    <2> QED BY <1>2, <1>3, <1>4, <1>5, <1>6, <2>1 DEF TypeOK, RunTypes
  <1>8. SessionTypes'
    BY <1>1 DEF FinalizeRetirement, TypeOK, SessionTypes
  <1>9. cancel' \in [Runs -> CancelRow]
    <2>1. ASSUME NEW c \in CancelRow
          PROVE  [c EXCEPT !.state = "failed", !.published = TRUE] \in CancelRow
      BY DEF CancelRow, CommandStates
    <2>2. \A r \in Runs : cancel[r] \in CancelRow
      BY DEF TypeOK, CancelTypes
    <2> QED BY <2>1, <2>2 DEF FinalizeRetirement
  <1>10. CancelTypes'
    BY <1>9 DEF FinalizeRetirement, TypeOK, CancelTypes
  <1>11. LeaseTypes'
    <2>1. NoLease \in LeaseRow
      BY DEF NoLease, LeaseRow
    <2>2. lease' \in [Sessions -> LeaseRow]
      BY <2>1 DEF FinalizeRetirement, TypeOK, LeaseTypes
    <2>3. sandbox' \in [Workers -> SandboxRow]
      BY DEF FinalizeRetirement, TypeOK, LeaseTypes, SandboxRow, SandboxStates
    <2> QED BY <2>2, <2>3 DEF LeaseTypes
  <1>12. EnvTypes'
    BY DEF FinalizeRetirement, TypeOK, EnvTypes, RetirementRow, RetirementStates
  <1> QED BY <1>7, <1>8, <1>10, <1>11, <1>12, UnchangedTypes
          DEF TypeOK, FinalizeRetirement

LEMMA RetireTypes ==
  ASSUME TypeOK, NEW w \in Workers, Retire(w)
  PROVE  TypeOK'
  BY FenceSandboxTypes, StopAndConfirmTypes, LoadAssignmentsTypes,
     FinalizeRetirementTypes, RetirementFailsTypes
  DEF Retire

-----------------------------------------------------------------------------
(* Type correctness.                                                         *)

LEMMA InitTypes == Init => TypeOK
  <1> SUFFICES ASSUME Init PROVE TypeOK
    OBVIOUS
  <1>1. SessionTypes
    BY DEF Init, SessionTypes, SessionStates, Versions
  <1>2. NoAttempt \in AttemptRow
    BY DEF NoAttempt, AttemptRow, AttemptStates
  <1>3. RunTypes
    <2>1. attempt \in [Runs -> [Claims -> AttemptRow]]
      BY <1>2 DEF Init
    <2>2. outbox \in [Runs -> OutboxRow]
      BY BoundsAssumption DEF Init, OutboxRow, BoundsAssumption
    <2> QED BY <2>1, <2>2
            DEF Init, RunTypes, TurnStates, CommandStates, RunStates, Versions
  <1>4. LeaseTypes
    BY DEF Init, LeaseTypes, LeaseRow, NoLease, SandboxRow, SandboxStates
  <1>5. CancelTypes
    <2>1. NoCancel \in CancelRow
      BY BoundsAssumption DEF NoCancel, CancelRow, CommandStates, BoundsAssumption
    <2>2. NoCancelJob \in CancelJobRecord
      BY BoundsAssumption
         DEF NoCancelJob, CancelJobRecord, CancelPhases, BoundsAssumption
    <2> QED BY <2>1, <2>2 DEF Init, CancelTypes
  <1>6. EnvTypes
    BY DEF Init, EnvTypes, RetirementRow, RetirementStates
  <1>7. JobTypes
    <2>1. NoJob \in JobRecord
      BY BoundsAssumption
         DEF NoJob, JobRecord, JobPhases, Versions, BoundsAssumption
    <2> QED BY <2>1 DEF Init, JobTypes
  <1> QED BY <1>1, <1>3, <1>4, <1>5, <1>6, <1>7 DEF TypeOK

LEMMA NextTypes ==
  ASSUME TypeOK, [Next]_vars
  PROVE  TypeOK'
  <1>1. CASE UNCHANGED vars
    BY <1>1, UnchangedTypes DEF vars, TypeOK
  <1>2. CASE Next
    BY <1>2, AcceptTurnTypes, AcceptTurnCancellationTypes, ToggleTypes,
       ClaimSelectTypes, DispatchTypes, CancelDispatchTypes, ExecutionTypes,
       FaultTypes, ClockTypes, HeartbeatFailsTypes, WorkerCrashesTypes, RetireTypes
    DEF Next
  <1> QED BY <1>1, <1>2

\* Whatever the Workers, clocks and users do, every row keeps a state of its
\* state machine and no counter leaves its range.
THEOREM TypeCorrect == Spec => []TypeOK
  <1>1. Init => TypeOK
    BY InitTypes
  <1>2. TypeOK /\ [Next]_vars => TypeOK'
    BY NextTypes
  <1> QED BY <1>1, <1>2, PTL DEF Spec
-----------------------------------------------------------------------------
(***************************************************************************)
(* The durable ACK is the point of no return, for every number of Sessions, *)
(* Runs and Workers: Spec => RunSettlesOnce.                                *)
(*                                                                         *)
(* RunSettlesOnce is an action property.  It needs to know of every write   *)
(* in which state it finds the rows, and a claim and a phase signal write   *)
(* without looking.  The inductive invariant says why they may: the rows of *)
(* a Run agree (RowsAgree), an open claim's Run cannot move                 *)
(* (OpenClaimIsCurrent), and a dispatch that started and was not superseded *)
(* has an acknowledged Run (JobsFollowRows).                                *)
(***************************************************************************)

\* The turn, the turn.execute command and the run of one message agree.
RowAgrees(r) ==
  \/ turn[r] = "absent" /\ command[r] = "absent" /\ run[r] = "absent"
  \/ turn[r] = "queued" /\ command[r] = "pending" /\ run[r] = "queued"
  \/ turn[r] = "dispatching" /\ command[r] = "dispatched" /\ run[r] = "claimed"
  \/ turn[r] = "running" /\ command[r] = "acknowledged" /\ run[r] \in ExecutingStates
  \/ /\ turn[r] = "cancelling" /\ command[r] = "acknowledged"
     /\ run[r] = "cancel_requested"
  \/ /\ turn[r] \in TerminalRunStates /\ run[r] = turn[r]
     /\ command[r] \in {"completed", "failed"}

RowsAgree == \A r \in Runs : RowAgrees(r)

\* A dispatch knows no claim that is not committed, and one that started under
\* the current claim has an acknowledged Run.
JobFollowsRow(w, r) ==
  /\ job[w][r].phase # "selected" => job[w][r].attempt <= Current(r)
  /\ (job[w][r].phase = "started" /\ job[w][r].attempt = Current(r))
       => command[r] \in {"acknowledged", "completed", "failed"}

JobsFollowRows == \A w \in Workers, r \in Runs : JobFollowsRow(w, r)

IInv == TypeOK /\ RowsAgree /\ OpenClaimIsCurrent /\ JobsFollowRows

\* No step of the Run's rows is to be seen.
Still(r) ==
  /\ turn'[r] = turn[r]
  /\ command'[r] = command[r]
  /\ run'[r] = run[r]
  /\ outbox'[r].attempts = outbox[r].attempts

\* The phases of a dispatch after the durable ACK.
StartedPhases == {"started", "succeeded", "failed", "revoked", "unprojected"}

\* A dispatch rests, ends, or moves on with its claim.  A started one keeps its
\* fence, and it starts only with an acknowledged Run.
JobFrame(w, r) ==
  \/ job'[w][r] \in {job[w][r], NoJob}
  \/ /\ job[w][r].phase \notin {"none", "selected"}
     /\ job'[w][r].phase \notin {"none", "selected"}
     /\ job'[w][r].attempt = job[w][r].attempt
     /\ job[w][r].phase \in StartedPhases =>
          /\ job'[w][r].phase \in StartedPhases
          /\ job'[w][r].fence = job[w][r].fence
     /\ job'[w][r].phase = "started" =>
          job[w][r].phase = "started" \/ command'[r] = "acknowledged"

-----------------------------------------------------------------------------
(* The frame: what a step has to show of the rows it writes.                 *)

\* Rows that nobody writes agree as before.
LEMMA StillRows ==
  ASSUME NEW r \in Runs, RowAgrees(r), Still(r)
  PROVE  RowAgrees(r)' /\ Final(r)
  BY DEF RowAgrees, Still, Final, TerminalRunStates

\* A Run that was acknowledged or settled is so after a final step.
LEMMA FinalKeeps ==
  ASSUME NEW r \in Runs, RowAgrees(r), RowAgrees(r)', Final(r),
         command[r] \in {"acknowledged", "completed", "failed"}
  PROVE  command'[r] \in {"acknowledged", "completed", "failed"}
  BY DEF RowAgrees, Final, TerminalRunStates, ExecutingStates

\* A step that writes the mailbox and the state of unlocked Sessions only, and
\* claims nothing, preserves the invariant.
LEMMA FrameStep ==
  ASSUME IInv, TypeOK', NEW S \in SUBSET Sessions,
         \A s \in S : Unlocked(s),
         \A s \in Sessions \ S : session'[s] = session[s],
         \A r \in Runs : SessionOf[r] \notin S =>
                           turn'[r] = turn[r] /\ command'[r] = command[r],
         \A r \in Runs : outbox'[r].attempts = outbox[r].attempts,
         \A r \in Runs : RowAgrees(r)' /\ Final(r),
         \A w \in Workers, r \in Runs : JobFrame(w, r)
  PROVE  IInv' /\ \A r \in Runs : Final(r)
  <1>1. RowsAgree'
    BY DEF RowsAgree
  <1>2. \A w \in Workers, r \in Runs :
          job'[w][r].phase = "selected" =>
            /\ job[w][r].phase = "selected"
            /\ job'[w][r].attempt = job[w][r].attempt
            /\ SessionOf[r] \in Sessions \ S
    BY ConstantsAssumption DEF JobFrame, NoJob, Unlocked, ConstantsAssumption
  <1>3. OpenClaimIsCurrent'
    BY <1>2 DEF IInv, OpenClaimIsCurrent, Current
  <1>4. ASSUME NEW w \in Workers, NEW r \in Runs
        PROVE  JobFollowsRow(w, r)'
    <2>1. Current(r)' = Current(r) /\ Current(r) \in Nat
      BY DEF IInv, TypeOK, RunTypes, OutboxRow, Current
    <2>2. JobFollowsRow(w, r) /\ RowAgrees(r)
      BY DEF IInv, JobsFollowRows, RowsAgree
    <2>3. CASE job'[w][r] = NoJob
      BY <2>1, <2>3 DEF JobFollowsRow, NoJob
    <2>4. CASE job'[w][r] # NoJob
      BY <2>1, <2>2, <2>4, FinalKeeps DEF JobFollowsRow, JobFrame
    <2> QED BY <2>3, <2>4
  <1> QED BY <1>1, <1>3, <1>4 DEF IInv, JobsFollowRows

\* A step that writes neither the rows of a Run nor the state of a Session.
LEMMA QuietStep ==
  ASSUME IInv, TypeOK', UNCHANGED <<turn, command, run, session>>,
         \A r \in Runs : outbox'[r].attempts = outbox[r].attempts,
         \A w \in Workers, r \in Runs : JobFrame(w, r)
  PROVE  IInv' /\ \A r \in Runs : Final(r)
  <1>1. \A r \in Runs : Still(r)
    BY DEF Still
  <1>2. \A r \in Runs : RowAgrees(r)' /\ Final(r)
    BY <1>1, StillRows DEF IInv, RowsAgree
  <1> DEFINE S == {}
  <1>3. /\ S \in SUBSET Sessions
        /\ \A s \in S : Unlocked(s)
        /\ \A s \in Sessions \ S : session'[s] = session[s]
        /\ \A r \in Runs : SessionOf[r] \notin S =>
                            turn'[r] = turn[r] /\ command'[r] = command[r]
    OBVIOUS
  <1> HIDE DEF S
  <1> QED BY <1>2, <1>3, FrameStep

\* A step that writes the rows of one Run whose Session is not locked.
LEMMA RowStep ==
  ASSUME IInv, TypeOK', NEW r \in Runs,
         Unlocked(SessionOf[r]),
         \A s \in Sessions \ {SessionOf[r]} : session'[s] = session[s],
         \A q \in Runs \ {r} : Still(q),
         outbox'[r].attempts = outbox[r].attempts,
         RowAgrees(r)', Final(r),
         \A w \in Workers, q \in Runs : JobFrame(w, q)
  PROVE  IInv' /\ \A q \in Runs : Final(q)
  <1>1. \A q \in Runs : RowAgrees(q)' /\ Final(q)
    BY StillRows DEF IInv, RowsAgree
  <1>2. \A q \in Runs : outbox'[q].attempts = outbox[q].attempts
    BY DEF Still
  <1> DEFINE S == {SessionOf[r]}
  <1>3. /\ S \in SUBSET Sessions
        /\ \A s \in S : Unlocked(s)
        /\ \A s \in Sessions \ S : session'[s] = session[s]
        /\ \A q \in Runs : SessionOf[q] \notin S =>
                            turn'[q] = turn[q] /\ command'[q] = command[q]
    BY ConstantsAssumption DEF ConstantsAssumption, Still
  <1> HIDE DEF S
  <1> QED BY <1>1, <1>2, <1>3, FrameStep
-----------------------------------------------------------------------------
(* What the steps do to the dispatches in flight.                            *)

LEMMA UnchangedJobs ==
  ASSUME UNCHANGED job
  PROVE  \A v \in Workers, q \in Runs : JobFrame(v, q)
  BY DEF JobFrame

LEMMA EndJobFrame ==
  ASSUME JobTypes, NEW w \in Workers, NEW r \in Runs, EndJob(w, r)
  PROVE  \A v \in Workers, q \in Runs : JobFrame(v, q)
  BY DEF JobTypes, JobFrame, EndJob

LEMMA SetPhaseFrame ==
  ASSUME JobTypes, NEW w \in Workers, NEW r \in Runs, NEW phase,
         SetPhase(w, r, phase), phase \notin {"none", "selected"},
         job[w][r].phase \notin {"none", "selected"},
         job[w][r].phase \in StartedPhases => phase \in StartedPhases,
         phase = "started" => command'[r] = "acknowledged"
  PROVE  \A v \in Workers, q \in Runs : JobFrame(v, q)
  <1> DEFINE new == [job[w][r] EXCEPT !.phase = phase]
  <1>1. job[w][r] \in JobRecord
    BY DEF JobTypes
  <1>2. /\ new.attempt = job[w][r].attempt /\ new.phase = phase
        /\ new.fence = job[w][r].fence
    BY <1>1 DEF JobRecord
  <1>3. job' = [job EXCEPT ![w] = [job[w] EXCEPT ![r] = new]]
    BY DEF SetPhase
  <1> HIDE DEF new
  <1> QED BY <1>2, <1>3 DEF JobTypes, JobFrame

LEMMA KillFrame ==
  ASSUME JobTypes, NEW w \in Workers, Kill(w)
  PROVE  \A v \in Workers, q \in Runs : JobFrame(v, q)
  BY DEF JobTypes, JobFrame, Kill

LEMMA HeartbeatFailsFrame ==
  ASSUME JobTypes, NEW w \in Workers, HeartbeatFails(w)
  PROVE  \A v \in Workers, q \in Runs : JobFrame(v, q)
  <1>1. \A q \in Runs : job[w][q] \in JobRecord
    BY DEF JobTypes
  <1>2. \A q \in Runs :
          LET new == [job[w][q] EXCEPT !.phase = "revoked"]
          IN /\ new.attempt = job[w][q].attempt /\ new.phase = "revoked"
             /\ new.fence = job[w][q].fence
    BY <1>1 DEF JobRecord
  <1>3. \A v \in Workers, q \in Runs :
          \/ job'[v][q] = job[v][q]
          \/ /\ job[v][q].phase = "started"
             /\ job'[v][q].attempt = job[v][q].attempt
             /\ job'[v][q].phase = "revoked"
             /\ job'[v][q].fence = job[v][q].fence
    BY <1>2 DEF HeartbeatFails, JobTypes
  <1> QED BY <1>3 DEF JobFrame, StartedPhases

-----------------------------------------------------------------------------
(* The steps that write no row of a Run.                                     *)

\* Every transaction or in-memory step that leaves turns, commands and runs
\* alone and, of the outbox, writes at most when a claim expires.
QuietActions(w, r) ==
  \/ AcceptTurnCancellation(r) \/ ClaimExpires(r) \/ CancelExpires(r)
  \/ ClaimBlocked(w, r) \/ Acquire(w, r) \/ AcquireFails(w, r)
  \/ MarkStartedFails(w, r)
  \/ \E phase \in {"succeeded", "failed"} : ExecutionEnds(w, r, phase)
  \/ HeartbeatRevokes(w, r) \/ CompleteFails(w, r) \/ RecordFailureStale(w, r)
  \/ ScanCancel(w, r) \/ ClaimCancel(w, r)
  \/ CancelAssign(w, r) \/ CancelMarkStartedFails(w, r)
  \/ \E phase \in {"confirmed", "unconfirmed"} : CancelExecution(w, r, phase)
  \/ CancelSettleFails(w, r) \/ CancelRecordFailureBeforeStart(w, r)
  \/ EmitEvents(w, r) \/ SaveCheckpoint(w, r) \/ Fault(w, r)

LEMMA QuietJobs ==
  ASSUME JobTypes, NEW w \in Workers, NEW r \in Runs, QuietActions(w, r)
  PROVE  \A v \in Workers, q \in Runs : JobFrame(v, q)
  <1> DEFINE Goal == \A v \in Workers, q \in Runs : JobFrame(v, q)
  <1>1. UNCHANGED job => Goal
    BY UnchangedJobs
  <1>2. EndJob(w, r) => Goal
    BY EndJobFrame
  <1>3. \A phase : /\ SetPhase(w, r, phase)
                   /\ phase \notin {"none", "selected", "started"}
                   /\ job[w][r].phase \notin {"none", "selected"}
                   /\ job[w][r].phase \in StartedPhases => phase \in StartedPhases
                   => Goal
    BY SetPhaseFrame
  <1> HIDE DEF Goal
  <1>4. Acquire(w, r) => Goal
    <2> SUFFICES ASSUME Acquire(w, r) PROVE Goal
      OBVIOUS
    <2> DEFINE new == [job[w][r] EXCEPT !.phase = "leased",
                                        !.fence = fence[SessionOf[r]] + 1]
    <2>1. job[w][r] \in JobRecord
      BY DEF JobTypes
    <2>2. new.attempt = job[w][r].attempt /\ new.phase = "leased"
      BY <2>1 DEF JobRecord
    <2>3. job[w][r].phase = "claimed"
      BY DEF Acquire
    <2>4. job' = [job EXCEPT ![w][r].phase = "leased",
                             ![w][r].fence = fence[SessionOf[r]] + 1]
      BY DEF Acquire
    <2>5. job' = [job EXCEPT ![w] = [job[w] EXCEPT ![r] = new]]
      BY <2>4 DEF JobTypes
    <2> HIDE DEF new
    <2> QED BY <2>2, <2>3, <2>5 DEF JobTypes, JobFrame, StartedPhases, Goal
  <1>5. \/ UNCHANGED job \/ EndJob(w, r) \/ Acquire(w, r)
        \/ \E phase : /\ SetPhase(w, r, phase)
                      /\ phase \notin {"none", "selected", "started"}
                      /\ job[w][r].phase \notin {"none", "selected"}
                      /\ job[w][r].phase \in StartedPhases => phase \in StartedPhases
    <2>1. CASE AcceptTurnCancellation(r) \/ ClaimExpires(r) \/ CancelExpires(r)
      BY <2>1 DEF AcceptTurnCancellation, ClaimExpires, CancelExpires
    <2>2. CASE ClaimBlocked(w, r) \/ Acquire(w, r) \/ MarkStartedFails(w, r)
                 \/ CompleteFails(w, r) \/ RecordFailureStale(w, r)
      BY <2>2 DEF ClaimBlocked, MarkStartedFails, CompleteFails, RecordFailureStale
    <2>3. CASE AcquireFails(w, r)
      BY <2>3 DEF AcquireFails, StartedPhases
    <2>4. CASE \E phase \in {"succeeded", "failed"} : ExecutionEnds(w, r, phase)
      BY <2>4 DEF ExecutionEnds, StartedPhases
    <2>5. CASE HeartbeatRevokes(w, r)
      BY <2>5 DEF HeartbeatRevokes, StartedPhases
    <2>6. CASE ScanCancel(w, r) \/ ClaimCancel(w, r)
                 \/ CancelAssign(w, r) \/ CancelMarkStartedFails(w, r)
                 \/ CancelSettleFails(w, r) \/ CancelRecordFailureBeforeStart(w, r)
      BY <2>6 DEF ScanCancel, ClaimCancel, CancelAssign,
           CancelMarkStartedFails, CancelSettleFails, CancelRecordFailureBeforeStart
    <2>7. CASE \E phase \in {"confirmed", "unconfirmed"} :
                 CancelExecution(w, r, phase)
      BY <2>7 DEF CancelExecution
    <2>8. CASE EmitEvents(w, r) \/ SaveCheckpoint(w, r)
      BY <2>8 DEF EmitEvents, SaveCheckpoint
    <2>9. CASE Fault(w, r)
      BY <2>9 DEF Fault, DeliveryRejected, BarrierTimesOut, CommitAborts,
           StartedPhases
    <2> QED BY <2>1, <2>2, <2>3, <2>4, <2>5, <2>6, <2>7, <2>8, <2>9
            DEF QuietActions
  <1>6. Goal
    BY <1>1, <1>2, <1>3, <1>4, <1>5
  <1> QED BY <1>6 DEF Goal

LEMMA QuietActionsStep ==
  ASSUME IInv, TypeOK', NEW w \in Workers, NEW r \in Runs, QuietActions(w, r)
  PROVE  IInv' /\ \A q \in Runs : Final(q)
  <1>1. UNCHANGED <<turn, command, run, session>>
    BY DEF QuietActions, AcceptTurnCancellation, ClaimExpires, CancelExpires,
       ClaimBlocked, Acquire, AcquireFails, MarkStartedFails, ExecutionEnds,
       HeartbeatRevokes, CompleteFails, RecordFailureStale, ScanCancel,
       ClaimCancel, CancelAssign, CancelMarkStartedFails,
       CancelExecution, CancelSettleFails, CancelRecordFailureBeforeStart,
       EmitEvents, SaveCheckpoint, Fault, DeliveryRejected, BarrierTimesOut,
       CommitAborts, sessionVars, runVars
  <1>2. UNCHANGED outbox \/ ClaimExpires(r)
    BY DEF QuietActions, AcceptTurnCancellation, CancelExpires,
       ClaimBlocked, Acquire, AcquireFails, MarkStartedFails, ExecutionEnds,
       HeartbeatRevokes, CompleteFails, RecordFailureStale, ScanCancel,
       ClaimCancel, CancelAssign, CancelMarkStartedFails,
       CancelExecution, CancelSettleFails, CancelRecordFailureBeforeStart,
       EmitEvents, SaveCheckpoint, Fault, DeliveryRejected, BarrierTimesOut,
       CommitAborts, runVars
  <1>3. \A q \in Runs : outbox'[q].attempts = outbox[q].attempts
    BY SMTT(20), <1>2 DEF IInv, TypeOK, RunTypes, OutboxRow, ClaimExpires
  <1>4. \A v \in Workers, q \in Runs : JobFrame(v, q)
    BY QuietJobs DEF IInv, TypeOK
  <1> QED BY <1>1, <1>3, <1>4, QuietStep
-----------------------------------------------------------------------------
(* The steps that write the rows of one Run.                                 *)

\* A step that assigns new states to one Run's rows and one Session.
RowWrite(r, turnState, commandState, runState) ==
  /\ turn' = [turn EXCEPT ![r] = turnState]
  /\ command' = [command EXCEPT ![r] = commandState]
  /\ run' = [run EXCEPT ![r] = runState]
  /\ \A q \in Runs : outbox'[q].attempts = outbox[q].attempts
  /\ \A s \in Sessions \ {SessionOf[r]} : session'[s] = session[s]

\* Such a write is safe when the new states agree, the Session is not locked,
\* and the Run was not settled; an acknowledged Run may only be settled by it.
LEMMA RowWriteStep ==
  ASSUME IInv, TypeOK', NEW r \in Runs, NEW t, NEW c, NEW n,
         RowWrite(r, t, c, n), Unlocked(SessionOf[r]),
         run[r] \notin TerminalRunStates,
         command[r] = "acknowledged" => c \in {"acknowledged", "completed", "failed"},
         \/ t = "queued" /\ c = "pending" /\ n = "queued"
         \/ t = "running" /\ c = "acknowledged" /\ n \in ExecutingStates
         \/ t = "cancelling" /\ c = "acknowledged" /\ n = "cancel_requested"
         \/ t \in TerminalRunStates /\ n = t /\ c \in {"completed", "failed"},
         \A w \in Workers, q \in Runs : JobFrame(w, q)
  PROVE  IInv' /\ \A q \in Runs : Final(q)
  <1>1. \A q \in Runs \ {r} : Still(q)
    BY DEF RowWrite, Still, IInv, TypeOK, RunTypes
  <1>2. turn'[r] = t /\ command'[r] = c /\ run'[r] = n
    BY DEF RowWrite, IInv, TypeOK, RunTypes
  <1>3. RowAgrees(r)'
    BY <1>2 DEF RowAgrees
  <1>4. outbox'[r].attempts = outbox[r].attempts
    BY DEF RowWrite
  <1>5. Final(r)
    BY <1>2, <1>4 DEF Final
  <1>6. \A s \in Sessions \ {SessionOf[r]} : session'[s] = session[s]
    BY DEF RowWrite
  <1> QED BY <1>1, <1>3, <1>4, <1>5, <1>6, RowStep

\* The state in which a transaction finds the rows, from the part it checks.
LEMMA Unsettled ==
  ASSUME IInv, NEW r \in Runs,
         \/ turn[r] \in {"absent", "running", "cancelling"}
         \/ command[r] \in {"dispatched", "acknowledged"}
  PROVE  run[r] \notin TerminalRunStates
  BY DEF IInv, RowsAgree, RowAgrees, TerminalRunStates, ExecutingStates

LEMMA OutboxKeepsAttempts ==
  ASSUME TypeOK, NEW r \in Runs,
         \/ outbox' = outbox
         \/ outbox' = [outbox EXCEPT ![r].available = TRUE]
         \/ outbox' = [outbox EXCEPT ![r].published = TRUE]
  PROVE  \A q \in Runs : outbox'[q].attempts = outbox[q].attempts
  <1>1. outbox[r] \in OutboxRow
    BY DEF TypeOK, RunTypes
  <1>2. /\ [outbox[r] EXCEPT !.available = TRUE].attempts = outbox[r].attempts
        /\ [outbox[r] EXCEPT !.published = TRUE].attempts = outbox[r].attempts
    BY <1>1 DEF OutboxRow
  <1> QED BY <1>2 DEF TypeOK, RunTypes

LEMMA AcceptTurnStep ==
  ASSUME IInv, TypeOK', NEW r \in Runs, AcceptTurn(r)
  PROVE  IInv' /\ \A q \in Runs : Final(q)
  <1>1. turn[r] = "absent" /\ command[r] # "acknowledged"
    BY DEF AcceptTurn, IInv, RowsAgree, RowAgrees, TerminalRunStates
  <1>2. outbox' = [outbox EXCEPT ![r].available = TRUE]
    BY DEF AcceptTurn
  <1>3. RowWrite(r, "queued", "pending", "queued")
    BY <1>2, OutboxKeepsAttempts DEF AcceptTurn, RowWrite, IInv
  <1>4. Unlocked(SessionOf[r]) /\ UNCHANGED job
    BY DEF AcceptTurn
  <1> QED BY <1>1, <1>3, <1>4, RowWriteStep, Unsettled, UnchangedJobs

LEMMA MarkStartedStep ==
  ASSUME IInv, TypeOK', NEW w \in Workers, NEW r \in Runs, MarkStarted(w, r)
  PROVE  IInv' /\ \A q \in Runs : Final(q)
  <1>1. command[r] = "dispatched"
    BY DEF MarkStarted, Startable
  <1>2. outbox' = [outbox EXCEPT ![r].published = TRUE]
    BY DEF MarkStarted
  <1>3. RowWrite(r, "running", "acknowledged", "provisioning")
    BY <1>2, OutboxKeepsAttempts DEF MarkStarted, MoveRun, RowWrite, IInv,
       TypeOK, SessionTypes
  <1>4. /\ Unlocked(SessionOf[r])
        /\ job[w][r].phase = "leased" /\ SetPhase(w, r, "started")
    BY DEF MarkStarted
  <1>5. command'[r] = "acknowledged"
    BY <1>3 DEF RowWrite, IInv, TypeOK, RunTypes
  <1>6. \A v \in Workers, q \in Runs : JobFrame(v, q)
    BY <1>4, <1>5, SetPhaseFrame DEF IInv, TypeOK, StartedPhases
  <1> QED BY <1>1, <1>3, <1>4, <1>6, RowWriteStep, Unsettled DEF ExecutingStates

LEMMA CompleteStep ==
  ASSUME IInv, TypeOK', NEW w \in Workers, NEW r \in Runs, Complete(w, r)
  PROVE  IInv' /\ \A q \in Runs : Final(q)
  <1>1. command[r] = "acknowledged"
    BY DEF Complete, Completable
  <1>2. RowWrite(r, "completed", "completed", "completed")
    BY DEF Complete, MoveRun, Settle, RowWrite, IInv, TypeOK, SessionTypes
  <1>3. Unlocked(SessionOf[r]) /\ EndJob(w, r)
    BY DEF Complete
  <1>4. \A v \in Workers, q \in Runs : JobFrame(v, q)
    BY <1>3, EndJobFrame DEF IInv, TypeOK
  <1> QED BY <1>1, <1>2, <1>3, <1>4, RowWriteStep, Unsettled
          DEF TerminalRunStates

LEMMA RecordRetryStep ==
  ASSUME IInv, TypeOK', NEW w \in Workers, NEW r \in Runs, RecordRetry(w, r)
  PROVE  IInv' /\ \A q \in Runs : Final(q)
  <1>1. command[r] = "dispatched"
    BY DEF RecordRetry, Unacknowledged
  <1>2. outbox' = [outbox EXCEPT ![r].available = TRUE]
    BY DEF RecordRetry
  <1>3. RowWrite(r, "queued", "pending", "queued")
    BY <1>2, OutboxKeepsAttempts DEF RecordRetry, RowWrite, IInv, sessionVars
  <1>4. Unlocked(SessionOf[r]) /\ EndJob(w, r)
    BY DEF RecordRetry
  <1>5. \A v \in Workers, q \in Runs : JobFrame(v, q)
    BY <1>4, EndJobFrame DEF IInv, TypeOK
  <1> QED BY <1>1, <1>3, <1>4, <1>5, RowWriteStep, Unsettled

LEMMA RecordFailureBeforeStartStep ==
  ASSUME IInv, TypeOK', NEW w \in Workers, NEW r \in Runs,
         RecordFailureBeforeStart(w, r)
  PROVE  IInv' /\ \A q \in Runs : Final(q)
  <1>1. command[r] = "dispatched"
    BY DEF RecordFailureBeforeStart, Unacknowledged
  <1>2. outbox' = [outbox EXCEPT ![r].published = TRUE]
    BY DEF RecordFailureBeforeStart
  <1>3. RowWrite(r, "failed", "failed", "failed")
    BY <1>2, OutboxKeepsAttempts
       DEF RecordFailureBeforeStart, MoveRun, RowWrite, IInv
  <1>4. Unlocked(SessionOf[r]) /\ EndJob(w, r)
    BY DEF RecordFailureBeforeStart
  <1>5. \A v \in Workers, q \in Runs : JobFrame(v, q)
    BY <1>4, EndJobFrame DEF IInv, TypeOK
  <1> QED BY <1>1, <1>3, <1>4, <1>5, RowWriteStep, Unsettled
          DEF TerminalRunStates

LEMMA RecordFailureAfterStartStep ==
  ASSUME IInv, TypeOK', NEW w \in Workers, NEW r \in Runs,
         RecordFailureAfterStart(w, r)
  PROVE  IInv' /\ \A q \in Runs : Final(q)
  <1>1. command[r] = "acknowledged"
    BY DEF RecordFailureAfterStart, FailsCurrentRun
  <1>2. RowWrite(r, "failed", "failed", "failed")
    BY DEF RecordFailureAfterStart, MoveRun, Settle, RowWrite, IInv, TypeOK,
       SessionTypes
  <1>3. Unlocked(SessionOf[r]) /\ EndJob(w, r)
    BY DEF RecordFailureAfterStart
  <1>4. \A v \in Workers, q \in Runs : JobFrame(v, q)
    BY <1>3, EndJobFrame DEF IInv, TypeOK
  <1> QED BY <1>1, <1>2, <1>3, <1>4, RowWriteStep, Unsettled
          DEF TerminalRunStates

LEMMA CancelMarkStartedStep ==
  ASSUME IInv, TypeOK', NEW w \in Workers, NEW r \in Runs, CancelMarkStarted(w, r)
  PROVE  IInv' /\ \A q \in Runs : Final(q)
  <1>1. command[r] = "acknowledged"
    BY DEF CancelMarkStarted, InTime
  <1>2. command' = [command EXCEPT ![r] = "acknowledged"]
    BY <1>1 DEF CancelMarkStarted, IInv, TypeOK, RunTypes
  <1>3. RowWrite(r, "cancelling", "acknowledged", "cancel_requested")
    BY <1>2 DEF CancelMarkStarted, MoveRun, RowWrite, IInv, TypeOK, SessionTypes
  <1>4. Unlocked(SessionOf[r]) /\ UNCHANGED job
    BY DEF CancelMarkStarted
  <1> QED BY <1>1, <1>3, <1>4, RowWriteStep, Unsettled, UnchangedJobs

LEMMA CancelSettleStep ==
  ASSUME IInv, TypeOK', NEW w \in Workers, NEW r \in Runs,
         CancelComplete(w, r) \/ CancelRecordFailureAfterStart(w, r)
  PROVE  IInv' /\ \A q \in Runs : Final(q)
  <1>1. command[r] = "acknowledged" /\ Unlocked(SessionOf[r]) /\ UNCHANGED job
    BY DEF CancelComplete, CancelRecordFailureAfterStart, CancelOwnsTurn
  <1>2. \/ RowWrite(r, "cancelled", "completed", "cancelled")
        \/ RowWrite(r, "failed", "failed", "failed")
    BY DEF CancelComplete, CancelRecordFailureAfterStart, MoveRun, Settle,
       RowWrite, IInv, TypeOK, SessionTypes
  <1> QED BY <1>1, <1>2, RowWriteStep, Unsettled, UnchangedJobs
          DEF TerminalRunStates

\* A phase signal is applied without a look at the Turn.  That the Run it moves
\* is executing follows from the dispatch that sent it (JobFollowsRow).
LEMMA ObservePhaseStep ==
  ASSUME IInv, TypeOK', NEW w \in Workers, NEW r \in Runs,
         NEW phase \in ExecutingStates, ObservePhase(w, r, phase)
  PROVE  IInv' /\ \A q \in Runs : Final(q)
  <1>1. command[r] \in {"acknowledged", "completed", "failed"}
    BY DEF ObservePhase, HoldsClaim, IInv, JobsFollowRows, JobFollowsRow
  <1>2. phase \in RunTransitions[run[r]]
    BY DEF ObservePhase, NextPhases
  <1>3. run[r] \in ExecutingStates /\ turn[r] = "running"
    <2>1. RowAgrees(r)
      BY DEF IInv, RowsAgree
    <2>2. run[r] \notin TerminalRunStates \cup {"cancel_requested"}
      BY <1>2 DEF RunTransitions, TerminalRunStates, ExecutingStates
    <2> QED BY <1>1, <2>1, <2>2 DEF RowAgrees, TerminalRunStates
  <1>4. UNCHANGED <<turn, command, outbox, session, job>>
    BY DEF ObservePhase, sessionVars
  <1>5. run' = [run EXCEPT ![r] = phase]
    BY DEF ObservePhase, MoveRun
  <1>6. \A q \in Runs : RowAgrees(q)' /\ Final(q)
    <2>1. ASSUME NEW q \in Runs, q # r
          PROVE  RowAgrees(q)' /\ Final(q)
      <3>1. Still(q)
        BY <1>4, <1>5, <2>1 DEF Still, IInv, TypeOK, RunTypes
      <3> QED BY <3>1, StillRows DEF IInv, RowsAgree
    <2>2. run'[r] = phase
      BY <1>5 DEF IInv, TypeOK, RunTypes
    <2>3. RowAgrees(r)
      BY DEF IInv, RowsAgree
    <2>4. RowAgrees(r)'
      BY <1>3, <1>4, <2>2, <2>3 DEF RowAgrees, TerminalRunStates, ExecutingStates
    <2>5. Final(r)
      BY <1>3, <1>4 DEF Final, TerminalRunStates, ExecutingStates
    <2> QED BY <2>1, <2>4, <2>5
  <1> DEFINE S == {}
  <1>7. /\ S \in SUBSET Sessions
        /\ \A s \in S : Unlocked(s)
        /\ \A s \in Sessions \ S : session'[s] = session[s]
        /\ \A q \in Runs : SessionOf[q] \notin S =>
                            turn'[q] = turn[q] /\ command'[q] = command[q]
        /\ \A q \in Runs : outbox'[q].attempts = outbox[q].attempts
    BY <1>4
  <1> HIDE DEF S
  <1> QED BY <1>4, <1>6, <1>7, FrameStep, UnchangedJobs

-----------------------------------------------------------------------------
(* The claim.                                                                *)

\* The SELECT locks the Session: no other claim is open in it.
LEMMA ClaimSelectStep ==
  ASSUME IInv, TypeOK', NEW w \in Workers, NEW r \in Runs, ClaimSelect(w, r)
  PROVE  IInv' /\ \A q \in Runs : Final(q)
  <1> DEFINE new == [phase |-> "selected", attempt |-> Current(r) + 1,
                     fence |-> 0, base |-> WorkspaceBase(r)]
  <1>1. UNCHANGED <<turn, command, run, outbox, session>>
    BY DEF ClaimSelect, runVars, sessionVars
  <1>2. new.phase = "selected" /\ new.attempt = Current(r) + 1
    OBVIOUS
  <1>3. job' = [job EXCEPT ![w][r] = new]
    BY DEF ClaimSelect
  <1> HIDE DEF new
  <1>4. /\ job'[w][r] = new
        /\ \A v \in Workers, q \in Runs :
             v # w \/ q # r => job'[v][q] = job[v][q]
    BY <1>3 DEF IInv, TypeOK, JobTypes
  <1>5. \A q \in Runs : RowAgrees(q)' /\ Final(q)
    BY <1>1, StillRows DEF Still, IInv, RowsAgree
  <1>6. /\ \/ turn[r] = "queued" /\ command[r] = "pending"
           \/ turn[r] = "dispatching" /\ command[r] = "dispatched"
        /\ session[SessionOf[r]] \in {"cold", "idle"}
        /\ Unlocked(SessionOf[r])
    BY DEF ClaimSelect, Claimable
  <1>7. OpenClaimIsCurrent'
    <2>1. \A v \in Workers, q \in Runs :
            (job'[v][q].phase = "selected" /\ (v # w \/ q # r)) =>
              /\ job[v][q].phase = "selected"
              /\ job'[v][q].attempt = job[v][q].attempt
              /\ SessionOf[q] # SessionOf[r]
      BY <1>4, <1>6 DEF Unlocked
    <2>2. \A q \in Runs : Current(q)' = Current(q)
      BY <1>1 DEF Current
    <2> QED BY <1>1, <1>2, <1>4, <1>6, <2>1, <2>2 DEF IInv, OpenClaimIsCurrent
  <1>8. JobsFollowRows'
    BY <1>1, <1>2, <1>4 DEF IInv, JobsFollowRows, JobFollowsRow, Current
  <1> QED BY <1>5, <1>7, <1>8 DEF IInv, RowsAgree

\* The rest of the claim finds the rows as the SELECT saw them, and no earlier
\* dispatch of the Run knows the new claim.
LEMMA ClaimCommitStep ==
  ASSUME IInv, TypeOK', NEW w \in Workers, NEW r \in Runs, ClaimCommit(w, r)
  PROVE  IInv' /\ \A q \in Runs : Final(q)
  <1>1. /\ \/ turn[r] = "queued" /\ command[r] = "pending"
           \/ turn[r] = "dispatching" /\ command[r] = "dispatched"
        /\ job[w][r].attempt = Current(r) + 1
        /\ \A v \in Workers, q \in Runs :
             job[v][q].phase = "selected" /\ SessionOf[q] = SessionOf[r]
               => v = w /\ q = r
    BY DEF ClaimCommit, IInv, OpenClaimIsCurrent
  <1>2. /\ turn' = [turn EXCEPT ![r] = "dispatching"]
        /\ command' = [command EXCEPT ![r] = "dispatched"]
        /\ run' = [run EXCEPT ![r] = "claimed"]
        /\ outbox' = [outbox EXCEPT ![r] =
             [attempts |-> job[w][r].attempt, available |-> FALSE,
              published |-> FALSE]]
    BY DEF ClaimCommit
  <1>3. UNCHANGED session
    BY DEF ClaimCommit, sessionVars
  <1>4. /\ turn'[r] = "dispatching" /\ command'[r] = "dispatched"
        /\ run'[r] = "claimed" /\ outbox'[r].attempts = Current(r) + 1
    BY <1>1, <1>2 DEF IInv, TypeOK, RunTypes
  <1>5. \A q \in Runs \ {r} : Still(q)
    BY <1>2 DEF Still, IInv, TypeOK, RunTypes
  <1>6. \A q \in Runs : RowAgrees(q)' /\ Final(q)
    <2>1. RowAgrees(r)'
      BY <1>4 DEF RowAgrees
    <2>2. RowAgrees(r)
      BY DEF IInv, RowsAgree
    <2>3. Final(r)
      BY <1>1, <2>2 DEF Final, RowAgrees, TerminalRunStates
    <2> QED BY <1>5, <2>1, <2>3, StillRows DEF IInv, RowsAgree
  <1> DEFINE new == [job[w][r] EXCEPT !.phase = "claimed"]
  <1>7. job[w][r] \in JobRecord
    BY DEF IInv, TypeOK, JobTypes
  <1>8. new.attempt = job[w][r].attempt /\ new.phase = "claimed"
    BY <1>7 DEF JobRecord
  <1>9. job' = [job EXCEPT ![w] = [job[w] EXCEPT ![r] = new]]
    BY DEF ClaimCommit, SetPhase
  <1> HIDE DEF new
  <1>10. /\ job'[w][r] = new
         /\ \A v \in Workers, q \in Runs :
              v # w \/ q # r => job'[v][q] = job[v][q]
    BY <1>9 DEF IInv, TypeOK, JobTypes
  <1>11. OpenClaimIsCurrent'
    <2>1. \A v \in Workers, q \in Runs :
            job'[v][q].phase = "selected" =>
              /\ job[v][q].phase = "selected"
              /\ job'[v][q].attempt = job[v][q].attempt
              /\ q # r /\ Still(q)
      BY <1>1, <1>5, <1>8, <1>10
    <2> QED BY <1>3, <2>1 DEF IInv, OpenClaimIsCurrent, Current, Still
  <1>12. ASSUME NEW v \in Workers, NEW q \in Runs
         PROVE  JobFollowsRow(v, q)'
    <2>1. JobFollowsRow(v, q)
      BY DEF IInv, JobsFollowRows
    <2>2. Current(r) \in Nat /\ Current(r)' = Current(r) + 1
      BY <1>4 DEF Current, IInv, TypeOK, RunTypes, OutboxRow
    <2>3. CASE q # r
      <3>1. job'[v][q] = job[v][q] /\ Still(q)
        BY <1>5, <1>10, <2>3
      <3> QED BY <2>1, <3>1 DEF JobFollowsRow, Still, Current
    <2>4. CASE q = r /\ v = w
      BY <1>1, <1>8, <1>10, <2>2, <2>4 DEF JobFollowsRow
    <2>5. CASE q = r /\ v # w
      <3>1. job'[v][r] = job[v][r] /\ job[v][r].phase # "selected"
        BY <1>1, <1>10, <2>5
      <3>2. job[v][r] \in JobRecord
        BY DEF IInv, TypeOK, JobTypes
      <3>3. job[v][r].attempt \in Nat /\ job[v][r].attempt <= Current(r)
        BY <2>1, <2>5, <3>1, <3>2 DEF JobFollowsRow, JobRecord
      <3> QED BY <2>2, <2>5, <3>1, <3>3 DEF JobFollowsRow
    <2> QED BY <2>3, <2>4, <2>5
  <1> QED BY <1>6, <1>11, <1>12 DEF IInv, RowsAgree, JobsFollowRows

-----------------------------------------------------------------------------
(* The reconciler.                                                           *)

\* An active Run of an orphaned Session is either requeued before its ACK or
\* settled; everything outside the orphaned Sessions is left alone.
LEMMA FinalizeRetirementStep ==
  ASSUME IInv, TypeOK', NEW w \in Workers, FinalizeRetirement(w)
  PROVE  IInv' /\ \A q \in Runs : Final(q)
  <1> DEFINE requeued == {r \in OrphanedRuns(w) : SafelyUnacknowledged(r)}
             lost == OrphanedRuns(w) \ requeued
  <1>1. \A r \in OrphanedRuns(w) : r \in Runs /\ SessionOf[r] \in Orphaned(w)
    BY DEF OrphanedRuns, ActiveTurns
  <1>2. \A r \in requeued : command[r] = "dispatched"
    BY DEF SafelyUnacknowledged
  <1>3. \A r \in lost : turn[r] \in {"running", "cancelling"}
    BY DEF FinalizeRetirement, RequeuedRuns, LostRuns, Reconcilable
  <1>4. \A r \in Runs :
          /\ turn'[r] = IF r \in requeued THEN "queued"
                        ELSE IF r \in lost THEN "failed" ELSE turn[r]
          /\ command'[r] = IF r \in requeued THEN "pending"
                           ELSE IF r \in lost THEN "failed" ELSE command[r]
          /\ run'[r] = IF r \in requeued THEN "queued"
                       ELSE IF r \in lost THEN "failed" ELSE run[r]
    BY DEF FinalizeRetirement, RequeuedRuns, LostRuns
  <1>5. \A r \in Runs : outbox'[r].attempts = outbox[r].attempts
    BY DEF FinalizeRetirement, RequeuedRuns, LostRuns, IInv, TypeOK, RunTypes, OutboxRow
  <1>6. \A s \in Sessions \ Orphaned(w) : session'[s] = session[s]
    BY <1>1 DEF FinalizeRetirement, RequeuedRuns, LostRuns
  <1>7. UNCHANGED job /\ \A s \in Orphaned(w) : Unlocked(s)
    BY DEF FinalizeRetirement
  <1> HIDE DEF requeued, lost
  <1>8. ASSUME NEW r \in Runs
        PROVE  RowAgrees(r)' /\ Final(r)
    <2>1. RowAgrees(r)
      BY DEF IInv, RowsAgree
    <2>2. CASE r \in requeued
      BY <1>2, <1>4, <2>1, <2>2 DEF RowAgrees, Final, TerminalRunStates
    <2>3. CASE r \notin requeued /\ r \in lost
      BY <1>3, <1>4, <1>5, <2>1, <2>3
         DEF RowAgrees, Final, TerminalRunStates, ExecutingStates
    <2>4. CASE r \notin requeued /\ r \notin lost
      BY <1>4, <1>5, <2>1, <2>4, StillRows DEF Still
    <2> QED BY <2>2, <2>3, <2>4
  <1>9. \A r \in Runs : SessionOf[r] \notin Orphaned(w) =>
                          turn'[r] = turn[r] /\ command'[r] = command[r]
    BY <1>1, <1>4 DEF requeued, lost
  <1>10. Orphaned(w) \in SUBSET Sessions
    BY DEF Orphaned
  <1> QED BY <1>5, <1>6, <1>7, <1>8, <1>9, <1>10, FrameStep, UnchangedJobs

\* The other steps of a Worker's life and of its retirement.
LEMMA WorkerStep ==
  ASSUME IInv, TypeOK', NEW w \in Workers,
         HeartbeatFails(w) \/ WorkerCrashes(w) \/ Retire(w)
  PROVE  IInv' /\ \A q \in Runs : Final(q)
  <1>1. CASE FinalizeRetirement(w)
    BY <1>1, FinalizeRetirementStep
  <1>2. CASE ~FinalizeRetirement(w)
    <2>1. UNCHANGED <<turn, command, run, session, outbox>>
      BY <1>2 DEF HeartbeatFails, WorkerCrashes, Retire, FenceSandbox,
         StopAndConfirm, LoadAssignments, RetirementFails, runVars, sessionVars
    <2>2. UNCHANGED job \/ Kill(w) \/ HeartbeatFails(w)
      BY <1>2 DEF WorkerCrashes, Retire, FenceSandbox,
         StopAndConfirm, LoadAssignments, RetirementFails
    <2>3. \A v \in Workers, q \in Runs : JobFrame(v, q)
      BY <2>2, UnchangedJobs, KillFrame, HeartbeatFailsFrame DEF IInv, TypeOK
    <2> QED BY <2>1, <2>3, QuietStep
  <1> QED BY <1>1, <1>2

LEMMA WorldStep ==
  ASSUME IInv, TypeOK',
         \/ UNCHANGED vars
         \/ \E k \in Workspaces : ToggleWorkspace(k)
         \/ \E s \in Sessions : LeaseExpires(s) \/ ProjectEvents(s)
  PROVE  IInv' /\ \A q \in Runs : Final(q)
  <1>1. UNCHANGED <<turn, command, run, session, outbox, job>>
    BY DEF vars, ToggleWorkspace, LeaseExpires, ProjectEvents, runVars, sessionVars
  <1> QED BY <1>1, QuietStep, UnchangedJobs

LEMMA DispatchStep ==
  ASSUME IInv, TypeOK', NEW w \in Workers, NEW r \in Runs,
         \/ ClaimSelect(w, r) \/ Dispatch(w, r) \/ CancelDispatch(w, r)
         \/ Execution(w, r) \/ Fault(w, r)
  PROVE  IInv' /\ \A q \in Runs : Final(q)
  <1>1. \/ QuietActions(w, r) \/ ClaimSelect(w, r) \/ ClaimCommit(w, r)
        \/ MarkStarted(w, r) \/ Complete(w, r) \/ RecordRetry(w, r)
        \/ RecordFailureBeforeStart(w, r) \/ RecordFailureAfterStart(w, r)
        \/ CancelMarkStarted(w, r) \/ CancelComplete(w, r)
        \/ CancelRecordFailureAfterStart(w, r)
        \/ \E phase \in ExecutingStates : ObservePhase(w, r, phase)
    BY DEF QuietActions, Dispatch, CancelDispatch, Execution
  <1> QED BY <1>1, QuietActionsStep, ClaimSelectStep, ClaimCommitStep,
             MarkStartedStep, CompleteStep, RecordRetryStep,
             RecordFailureBeforeStartStep, RecordFailureAfterStartStep,
             CancelMarkStartedStep, CancelSettleStep, ObservePhaseStep

LEMMA NextStep ==
  ASSUME IInv, [Next]_vars
  PROVE  IInv' /\ \A q \in Runs : Final(q)
  <1>1. TypeOK'
    BY NextTypes DEF IInv
  <1>2. CASE \E r \in Runs : AcceptTurn(r)
    BY <1>1, <1>2, AcceptTurnStep
  <1>3. CASE \E w \in Workers, r \in Runs :
               \/ ClaimSelect(w, r) \/ Dispatch(w, r) \/ CancelDispatch(w, r)
               \/ Execution(w, r) \/ Fault(w, r)
    BY <1>1, <1>3, DispatchStep
  <1>4. CASE \E r \in Runs : AcceptTurnCancellation(r) \/ ClaimExpires(r)
                               \/ CancelExpires(r)
    <2>1. PICK r \in Runs : AcceptTurnCancellation(r) \/ ClaimExpires(r)
                              \/ CancelExpires(r)
      BY <1>4
    <2>2. UNCHANGED <<turn, command, run, session, job>>
      BY <2>1 DEF AcceptTurnCancellation, ClaimExpires, CancelExpires,
         runVars, sessionVars
    <2>3. outbox' = outbox \/ outbox' = [outbox EXCEPT ![r].available = TRUE]
      BY <2>1 DEF AcceptTurnCancellation, ClaimExpires, CancelExpires, runVars
    <2> QED BY <1>1, <2>2, <2>3, QuietStep, UnchangedJobs, OutboxKeepsAttempts
            DEF IInv
  <1>5. CASE \E w \in Workers : HeartbeatFails(w) \/ WorkerCrashes(w) \/ Retire(w)
    BY <1>1, <1>5, WorkerStep
  <1>6. CASE \/ UNCHANGED vars
             \/ \E k \in Workspaces : ToggleWorkspace(k)
             \/ \E s \in Sessions : LeaseExpires(s) \/ ProjectEvents(s)
    BY <1>1, <1>6, WorldStep
  <1> QED BY <1>2, <1>3, <1>4, <1>5, <1>6 DEF Next

\* Outside the claim itself, every step leaves every dispatch its claim.
LEMMA NextJobs ==
  ASSUME IInv, TypeOK', [Next]_vars
  PROVE  \/ \E w \in Workers, r \in Runs : ClaimSelect(w, r) \/ ClaimCommit(w, r)
         \/ \A v \in Workers, q \in Runs : JobFrame(v, q)
  <1>1. ASSUME NEW w \in Workers, NEW r \in Runs, MarkStarted(w, r)
        PROVE  \A v \in Workers, q \in Runs : JobFrame(v, q)
    <2>1. command'[r] = "acknowledged"
      BY <1>1 DEF MarkStarted, IInv, TypeOK, RunTypes
    <2> QED BY <1>1, <2>1, SetPhaseFrame DEF MarkStarted, IInv, TypeOK, StartedPhases
  <1>2. ASSUME NEW w \in Workers, NEW r \in Runs,
               \/ Complete(w, r) \/ RecordRetry(w, r)
               \/ RecordFailureBeforeStart(w, r) \/ RecordFailureAfterStart(w, r)
        PROVE  \A v \in Workers, q \in Runs : JobFrame(v, q)
    <2>1. EndJob(w, r)
      BY <1>2 DEF Complete, RecordRetry, RecordFailureBeforeStart,
         RecordFailureAfterStart
    <2> QED BY <2>1, EndJobFrame DEF IInv, TypeOK
  <1>3. ASSUME NEW w \in Workers, NEW r \in Runs,
               \/ CancelMarkStarted(w, r) \/ CancelComplete(w, r)
               \/ CancelRecordFailureAfterStart(w, r)
               \/ \E phase \in ExecutingStates : ObservePhase(w, r, phase)
        PROVE  UNCHANGED job
    BY <1>3 DEF CancelMarkStarted, CancelComplete,
       CancelRecordFailureAfterStart, ObservePhase
  <1>4. CASE \E w \in Workers, r \in Runs :
               \/ ClaimSelect(w, r) \/ Dispatch(w, r) \/ CancelDispatch(w, r)
               \/ Execution(w, r) \/ Fault(w, r)
    <2>1. PICK w \in Workers, r \in Runs :
               \/ QuietActions(w, r) \/ ClaimSelect(w, r) \/ ClaimCommit(w, r)
               \/ MarkStarted(w, r) \/ Complete(w, r) \/ RecordRetry(w, r)
               \/ RecordFailureBeforeStart(w, r) \/ RecordFailureAfterStart(w, r)
               \/ CancelMarkStarted(w, r) \/ CancelComplete(w, r)
               \/ CancelRecordFailureAfterStart(w, r)
               \/ \E phase \in ExecutingStates : ObservePhase(w, r, phase)
      BY <1>4 DEF QuietActions, Dispatch, CancelDispatch, Execution
    <2> QED BY <1>1, <1>2, <1>3, <2>1, QuietJobs, UnchangedJobs DEF IInv, TypeOK
  <1>5. CASE \E w \in Workers : HeartbeatFails(w) \/ WorkerCrashes(w) \/ Retire(w)
    <2>1. PICK w \in Workers : HeartbeatFails(w) \/ WorkerCrashes(w) \/ Retire(w)
      BY <1>5
    <2>2. UNCHANGED job \/ Kill(w) \/ HeartbeatFails(w)
      BY <2>1 DEF WorkerCrashes, Retire, FenceSandbox, StopAndConfirm,
         LoadAssignments, FinalizeRetirement, RetirementFails
    <2> QED BY <2>2, UnchangedJobs, KillFrame, HeartbeatFailsFrame DEF IInv, TypeOK
  <1>6. CASE \/ UNCHANGED vars
             \/ \E r \in Runs : \/ AcceptTurn(r) \/ AcceptTurnCancellation(r)
                                \/ ClaimExpires(r) \/ CancelExpires(r)
             \/ \E k \in Workspaces : ToggleWorkspace(k)
             \/ \E s \in Sessions : LeaseExpires(s) \/ ProjectEvents(s)
    <2>1. UNCHANGED job
      BY <1>6 DEF vars, AcceptTurn, AcceptTurnCancellation, ClaimExpires,
         CancelExpires, ToggleWorkspace, LeaseExpires, ProjectEvents
    <2> QED BY <2>1, UnchangedJobs
  <1> QED BY <1>4, <1>5, <1>6 DEF Next

LEMMA InitInv == Init => IInv
  <1> SUFFICES ASSUME Init PROVE IInv
    OBVIOUS
  <1>1. TypeOK
    BY InitTypes
  <1>2. RowsAgree
    BY DEF Init, RowsAgree, RowAgrees
  <1>3. \A w \in Workers, r \in Runs :
          job[w][r].phase = "none" /\ job[w][r].attempt = 0 /\ Current(r) = 0
    BY DEF Init, NoJob, Current
  <1>4. OpenClaimIsCurrent
    BY <1>3 DEF OpenClaimIsCurrent
  <1>5. JobsFollowRows
    BY <1>3 DEF JobsFollowRows, JobFollowsRow
  <1> QED BY <1>1, <1>2, <1>4, <1>5 DEF IInv

LEMMA Invariance == Spec => []IInv
  <1>1. Init => IInv
    BY InitInv
  <1>2. IInv /\ [Next]_vars => IInv'
    BY NextStep
  <1> QED BY <1>1, <1>2, PTL DEF Spec

\* What a claim's SELECT saw of its Run and Session holds until the claim
\* commits, and no other claim is open in the Session (#claimNext's FOR UPDATE).
THEOREM ClaimsAreCurrent == Spec => []OpenClaimIsCurrent
  <1>1. IInv => OpenClaimIsCurrent
    BY DEF IInv
  <1> QED BY <1>1, Invariance, PTL

\* After the durable ACK a Run keeps its claim, is never returned to the
\* mailbox, and is settled at most once, with one outcome.
THEOREM SettlesOnce == Spec => RunSettlesOnce
  <1>1. IInv /\ [Next]_vars => [\A r \in Runs : Final(r)]_vars
    BY NextStep
  <1> QED BY <1>1, Invariance, PTL DEF Spec, RunSettlesOnce
-----------------------------------------------------------------------------
(***************************************************************************)
(* The order of a mailbox and the one Turn of a Session, for every number   *)
(* of Sessions, Runs and Workers: Spec => []MailboxOrder and                *)
(* Spec => []OneActiveTurn.  And what follows for the versions of a         *)
(* Workspace: Spec => []BranchesSound and Spec => HeadFollowsCompletion.    *)
(*                                                                         *)
(* A claim's commit writes what its SELECT decided.  So each of these       *)
(* invariants has a twin about open claims: what the SELECT saw of the      *)
(* mailbox, of the Session and of the head is still true, since all who     *)
(* could change it need the row the claim has locked.                       *)
(***************************************************************************)

\* A Run has a place in its mailbox once it is accepted.
MailboxNumbered ==
  \A r \in Runs :
    /\ (position[r] = 0) = (turn[r] = "absent")
    /\ position[r] < nextPosition[SessionOf[r]]

\* q entered the mailbox of their Session before r.
Earlier(q, r) ==
  SessionOf[q] = SessionOf[r] /\ 0 < position[q] /\ position[q] < position[r]

\* The SELECT of an open claim took the first unsettled command.
ClaimInOrder ==
  \A w \in Workers, r \in Runs :
    job[w][r].phase = "selected" =>
      \A q \in Runs : Earlier(q, r) => turn[q] \in TerminalRunStates

\* No other Turn of an open claim's Session is active.
ClaimAlone ==
  \A w \in Workers, r \in Runs :
    job[w][r].phase = "selected" =>
      \A q \in ActiveTurns : SessionOf[q] = SessionOf[r] => q = r

MailboxInv ==
  MailboxNumbered /\ MailboxOrder /\ ClaimInOrder /\ ClaimAlone /\ OneActiveTurn

\* The state a Turn in this state needs of its Session.
SessionFits(turnState, sessionState) ==
  /\ turnState = "dispatching" => sessionState \in {"cold", "idle"}
  /\ turnState = "running" => sessionState = "running"
  /\ turnState = "cancelling" => sessionState = "cancelling"

SessionsFollow == \A r \in Runs : SessionFits(turn[r], session[SessionOf[r]])

\* The base an open claim will record is the Workspace's head.
ClaimOnHead ==
  \A w \in Workers, r \in Runs :
    (job[w][r].phase = "selected" /\ SessionOf[r] \notin Forked) =>
      job[w][r].base = head[WorkspaceOf[SessionOf[r]]]

\* Only a Run that has finished its work has a staged version.
StagedLate == \A r \in Runs : staged[r] => run[r] \in {"checkpointing", "cancel_requested"}

\* The head of a Workspace is a completed Run.
HeadsCompleted == \A k \in Workspaces : head[k] \in Runs => run[head[k]] = "completed"

BranchInv ==
  BaseIsHead /\ ClaimOnHead /\ StagedLate /\ HeadsCompleted /\ BranchesKeepApart

-----------------------------------------------------------------------------
(* The kinds of steps.                                                       *)

\* A transaction that moves the Turn of one Run, outside the claim.
MovesTurn(w, r) ==
  \/ MarkStarted(w, r) \/ Complete(w, r) \/ RecordRetry(w, r)
  \/ RecordFailureBeforeStart(w, r) \/ RecordFailureAfterStart(w, r)
  \/ CancelMarkStarted(w, r) \/ CancelComplete(w, r)
  \/ CancelRecordFailureAfterStart(w, r)

\* No Turn, no mailbox, no Session and no head moves.
TurnsRest ==
  /\ UNCHANGED <<session, nextPosition, version, head>>
  /\ UNCHANGED <<position, turn, command, base>>

LEMMA QuietRest ==
  ASSUME NEW w \in Workers, NEW r \in Runs,
         QuietActions(w, r) \/ \E phase \in ExecutingStates : ObservePhase(w, r, phase)
  PROVE  TurnsRest
  <1>1. CASE \/ AcceptTurnCancellation(r) \/ ClaimExpires(r) \/ CancelExpires(r)
             \/ ClaimBlocked(w, r) \/ Acquire(w, r) \/ AcquireFails(w, r)
             \/ MarkStartedFails(w, r) \/ HeartbeatRevokes(w, r)
             \/ CompleteFails(w, r) \/ RecordFailureStale(w, r)
    BY <1>1 DEF TurnsRest, AcceptTurnCancellation, ClaimExpires, CancelExpires,
       ClaimBlocked, Acquire, AcquireFails, MarkStartedFails, HeartbeatRevokes,
       CompleteFails, RecordFailureStale, sessionVars, runVars
  <1>2. CASE \/ ScanCancel(w, r) \/ ClaimCancel(w, r) \/ CancelAssign(w, r)
             \/ CancelMarkStartedFails(w, r) \/ CancelSettleFails(w, r)
             \/ CancelRecordFailureBeforeStart(w, r)
    BY <1>2 DEF TurnsRest, ScanCancel, ClaimCancel, CancelAssign,
       CancelMarkStartedFails, CancelSettleFails,
       CancelRecordFailureBeforeStart, sessionVars, runVars
  <1>3. CASE \/ \E phase \in {"succeeded", "failed"} : ExecutionEnds(w, r, phase)
             \/ \E phase \in {"confirmed", "unconfirmed"} :
                  CancelExecution(w, r, phase)
             \/ \E phase \in ExecutingStates : ObservePhase(w, r, phase)
             \/ EmitEvents(w, r) \/ SaveCheckpoint(w, r) \/ Fault(w, r)
    BY <1>3 DEF TurnsRest, ExecutionEnds, CancelExecution, ObservePhase,
       EmitEvents, SaveCheckpoint, Fault, DeliveryRejected, BarrierTimesOut,
       CommitAborts, sessionVars, runVars
  <1> QED BY <1>1, <1>2, <1>3 DEF QuietActions

LEMMA NextKinds ==
  ASSUME [Next]_vars
  PROVE  \/ \E r \in Runs : AcceptTurn(r)
         \/ \E w \in Workers, r \in Runs :
              ClaimSelect(w, r) \/ ClaimCommit(w, r) \/ MovesTurn(w, r)
         \/ \E w \in Workers : FinalizeRetirement(w)
         \/ TurnsRest
  <1>1. CASE \E w \in Workers, r \in Runs :
               \/ ClaimSelect(w, r) \/ Dispatch(w, r) \/ CancelDispatch(w, r)
               \/ Execution(w, r) \/ Fault(w, r)
    <2>1. PICK w \in Workers, r \in Runs :
               \/ ClaimSelect(w, r) \/ Dispatch(w, r) \/ CancelDispatch(w, r)
               \/ Execution(w, r) \/ Fault(w, r)
      BY <1>1
    <2>2. \/ QuietActions(w, r) \/ ClaimSelect(w, r) \/ ClaimCommit(w, r)
          \/ MovesTurn(w, r)
          \/ \E phase \in ExecutingStates : ObservePhase(w, r, phase)
      BY <2>1 DEF QuietActions, MovesTurn, Dispatch, CancelDispatch, Execution
    <2> QED BY <2>2, QuietRest
  <1>2. CASE \E w \in Workers : HeartbeatFails(w) \/ WorkerCrashes(w) \/ Retire(w)
    BY <1>2 DEF TurnsRest, HeartbeatFails, WorkerCrashes, Retire, FenceSandbox,
       StopAndConfirm, LoadAssignments, RetirementFails, sessionVars, runVars
  <1>3. CASE \/ UNCHANGED vars
             \/ \E r \in Runs : \/ AcceptTurnCancellation(r)
                                \/ ClaimExpires(r) \/ CancelExpires(r)
             \/ \E k \in Workspaces : ToggleWorkspace(k)
             \/ \E s \in Sessions : LeaseExpires(s) \/ ProjectEvents(s)
    BY <1>3 DEF TurnsRest, vars, AcceptTurnCancellation, ClaimExpires,
       CancelExpires, ToggleWorkspace, LeaseExpires, ProjectEvents,
       sessionVars, runVars
  <1> QED BY <1>1, <1>2, <1>3 DEF Next

\* What a transaction that moves one Turn writes of Turns and Sessions.
LEMMA MovedTurn ==
  ASSUME IInv, NEW w \in Workers, NEW r \in Runs, MovesTurn(w, r)
  PROVE  /\ turn[r] \in ActiveTurnStates
         /\ Unlocked(SessionOf[r])
         /\ UNCHANGED <<position, nextPosition, base>>
         /\ \E t \in TurnStates \ {"absent"}, x \in SessionStates :
              /\ turn' = [turn EXCEPT ![r] = t]
              /\ session' = [session EXCEPT ![SessionOf[r]] = x]
              /\ t \in ActiveTurnStates => SessionFits(t, x)
              /\ t \notin TerminalRunStates => UNCHANGED <<version, head>>
  <1> DEFINE s == SessionOf[r]
             Moved(t, x) == /\ turn' = [turn EXCEPT ![r] = t]
                            /\ session' = [session EXCEPT ![s] = x]
             Goal == \E t \in TurnStates \ {"absent"}, x \in SessionStates :
                       /\ turn' = [turn EXCEPT ![r] = t]
                       /\ session' = [session EXCEPT ![s] = x]
                       /\ t \in ActiveTurnStates => SessionFits(t, x)
                       /\ t \notin TerminalRunStates => UNCHANGED <<version, head>>
  <1>1. turn[r] \in ActiveTurnStates
    BY DEF MovesTurn, MarkStarted, Startable, Complete, Completable,
       RecordRetry, RecordFailureBeforeStart, Unacknowledged,
       RecordFailureAfterStart, FailsCurrentRun, CancelMarkStarted, InTime,
       CancelComplete, CancelRecordFailureAfterStart, CancelOwnsTurn,
       ActiveTurnStates
  <1>2. Unlocked(s) /\ UNCHANGED <<position, nextPosition, base>>
    BY DEF MovesTurn, MarkStarted, Complete, RecordRetry,
       RecordFailureBeforeStart, RecordFailureAfterStart, CancelMarkStarted,
       CancelComplete, CancelRecordFailureAfterStart, sessionVars
  <1>3. CASE MarkStarted(w, r) \/ CancelMarkStarted(w, r)
    <2>1. \/ Moved("running", "running")
          \/ Moved("cancelling", "cancelling")
      BY <1>3 DEF MarkStarted, CancelMarkStarted
    <2>2. UNCHANGED <<version, head>>
      BY <1>3 DEF MarkStarted, CancelMarkStarted
    <2> QED BY <1>1, <1>2, <2>1, <2>2 DEF TurnStates, SessionStates, SessionFits
  <1>4. CASE RecordRetry(w, r) \/ RecordFailureBeforeStart(w, r)
    <2>1. /\ \/ turn' = [turn EXCEPT ![r] = "queued"] /\ UNCHANGED <<version, head>>
             \/ turn' = [turn EXCEPT ![r] = "failed"]
          /\ session' = session
      BY <1>4 DEF RecordRetry, RecordFailureBeforeStart, sessionVars
    <2>2. session' = [session EXCEPT ![s] = session[s]] /\ session[s] \in SessionStates
      BY <2>1, ConstantsAssumption
         DEF IInv, TypeOK, SessionTypes, ConstantsAssumption
    <2> QED BY <1>1, <1>2, <2>1, <2>2
            DEF TurnStates, ActiveTurnStates, TerminalRunStates
  <1>5. CASE \/ Complete(w, r) \/ RecordFailureAfterStart(w, r)
             \/ CancelComplete(w, r) \/ CancelRecordFailureAfterStart(w, r)
    <2>1. \E t \in TerminalRunStates, x \in SessionStates : Moved(t, x)
      BY <1>5 DEF Complete, RecordFailureAfterStart, CancelComplete,
         CancelRecordFailureAfterStart, Settle, TerminalRunStates, SessionStates
    <2> QED BY <1>1, <1>2, <2>1
            DEF TurnStates, ActiveTurnStates, TerminalRunStates
  <1> QED BY <1>3, <1>4, <1>5 DEF MovesTurn

\* What the reconciler writes of Turns and Sessions.
LEMMA RetiredTurns ==
  ASSUME IInv, NEW w \in Workers, FinalizeRetirement(w)
  PROVE  /\ UNCHANGED <<position, nextPosition, version, head, base>>
         /\ \A s \in Orphaned(w) : s \in Sessions /\ Unlocked(s)
         /\ \A r \in Runs :
              IF r \in ActiveTurns /\ SessionOf[r] \in Orphaned(w)
              THEN turn'[r] \in {"queued", "failed"}
              ELSE turn'[r] = turn[r]
         /\ \A s \in Sessions \ Orphaned(w) : session'[s] = session[s]
  <1>1. /\ UNCHANGED <<position, nextPosition, version, head, base>>
        /\ \A s \in Orphaned(w) : s \in Sessions /\ Unlocked(s)
    BY DEF FinalizeRetirement, Orphaned
  <1>2. \A r \in Runs :
          turn'[r] = IF r \in RequeuedRuns(w) THEN "queued"
                     ELSE IF r \in LostRuns(w) THEN "failed" ELSE turn[r]
    BY DEF FinalizeRetirement
  <1>3. \A r \in Runs : r \in ActiveTurns /\ SessionOf[r] \in Orphaned(w) <=>
                          r \in RequeuedRuns(w) \cup LostRuns(w)
    BY DEF RequeuedRuns, LostRuns, OrphanedRuns
  <1>4. \A s \in Sessions \ Orphaned(w) : session'[s] = session[s]
    BY DEF FinalizeRetirement, LostRuns, OrphanedRuns
  <1> QED BY <1>1, <1>2, <1>3, <1>4

-----------------------------------------------------------------------------
(* The mailbox.                                                              *)

\* Outside acceptance and the claim only active Turns move, and no claim opens.
MailboxFrame ==
  /\ UNCHANGED <<position, nextPosition>>
  /\ \A r \in Runs :
       turn'[r] = turn[r] \/ (r \in ActiveTurns /\ turn'[r] # "absent")
  /\ \A w \in Workers, r \in Runs :
       job'[w][r].phase = "selected" => job'[w][r] = job[w][r]

LEMMA NextFrames ==
  ASSUME IInv, TypeOK', [Next]_vars
  PROVE  \/ \E r \in Runs : AcceptTurn(r)
         \/ \E w \in Workers, r \in Runs : ClaimSelect(w, r) \/ ClaimCommit(w, r)
         \/ MailboxFrame
  <1>1. \/ \E w \in Workers, r \in Runs : ClaimSelect(w, r) \/ ClaimCommit(w, r)
        \/ \A w \in Workers, r \in Runs :
             job'[w][r].phase = "selected" => job'[w][r] = job[w][r]
    BY NextJobs DEF JobFrame, NoJob
  <1> DEFINE Turns == /\ UNCHANGED <<position, nextPosition>>
                      /\ \A r \in Runs :
                           \/ turn'[r] = turn[r]
                           \/ r \in ActiveTurns /\ turn'[r] # "absent"
  <1>2. ASSUME NEW w \in Workers, NEW r \in Runs, MovesTurn(w, r)
        PROVE  Turns
    BY <1>2, MovedTurn DEF ActiveTurns, IInv, TypeOK, RunTypes
  <1>3. ASSUME NEW w \in Workers, FinalizeRetirement(w)
        PROVE  Turns
    BY <1>3, RetiredTurns
  <1>4. TurnsRest => Turns
    BY DEF TurnsRest
  <1> QED BY <1>1, <1>2, <1>3, <1>4, NextKinds DEF MailboxFrame

\* A settled Turn stays settled.
LEMMA SettledStays ==
  ASSUME IInv, IInv', NEW r \in Runs, Final(r), turn[r] \in TerminalRunStates
  PROVE  turn'[r] \in TerminalRunStates
  BY DEF IInv, RowsAgree, RowAgrees, Final, TerminalRunStates

LEMMA FrameKeepsMailbox ==
  ASSUME IInv, IInv', MailboxInv, \A r \in Runs : Final(r), MailboxFrame
  PROVE  MailboxInv'
  <1>1. \A q, r \in Runs : Earlier(q, r)' <=> Earlier(q, r)
    BY DEF MailboxFrame, Earlier
  <1>2. \A r \in ActiveTurns' : r \in ActiveTurns
    BY DEF MailboxFrame, ActiveTurns
  <1>3. \A r \in Runs : /\ turn'[r] = "absent" <=> turn[r] = "absent"
                        /\ turn'[r] \notin {"absent", "queued"} =>
                             turn[r] \notin {"absent", "queued"}
    BY DEF MailboxFrame, ActiveTurns, ActiveTurnStates
  <1>4. MailboxNumbered'
    BY <1>3 DEF MailboxInv, MailboxNumbered, MailboxFrame
  <1>5. MailboxOrder'
    <2> SUFFICES ASSUME NEW q \in Runs, NEW r \in Runs, Earlier(q, r)',
                        turn'[r] \notin {"absent", "queued"}
                 PROVE  turn'[q] \in TerminalRunStates
      BY DEF MailboxOrder, Earlier
    <2>1. turn[q] \in TerminalRunStates
      BY <1>1, <1>3 DEF MailboxInv, MailboxOrder, Earlier
    <2> QED BY <2>1, SettledStays
  <1>6. ClaimInOrder'
    BY <1>1, SettledStays DEF MailboxInv, ClaimInOrder, MailboxFrame
  <1>7. ClaimAlone'
    BY <1>2 DEF MailboxInv, ClaimAlone, MailboxFrame
  <1>8. OneActiveTurn'
    BY <1>2 DEF MailboxInv, OneActiveTurn, InWorkspace
  <1> QED BY <1>4, <1>5, <1>6, <1>7, <1>8 DEF MailboxInv

\* A new Turn goes to the end of the mailbox of an unlocked Session.
LEMMA AcceptKeepsMailbox ==
  ASSUME IInv, IInv', MailboxInv, NEW r \in Runs, AcceptTurn(r)
  PROVE  MailboxInv'
  <1> DEFINE s == SessionOf[r]
  <1>1. /\ s \in Sessions /\ turn[r] = "absent" /\ Unlocked(s)
        /\ position[r] = 0 /\ UNCHANGED job
    BY ConstantsAssumption
       DEF AcceptTurn, MailboxInv, MailboxNumbered, ConstantsAssumption
  <1>2. /\ turn'[r] = "queued" /\ position'[r] = nextPosition[s]
        /\ \A q \in Runs : q # r => turn'[q] = turn[q] /\ position'[q] = position[q]
        /\ nextPosition'[s] = nextPosition[s] + 1
        /\ \A x \in Sessions : x # s => nextPosition'[x] = nextPosition[x]
    BY <1>1 DEF AcceptTurn, IInv, TypeOK, RunTypes, SessionTypes
  <1>3. \A q \in Runs : position[q] \in Nat /\ nextPosition[SessionOf[q]] \in Nat \ {0}
    BY ConstantsAssumption
       DEF IInv, TypeOK, RunTypes, SessionTypes, ConstantsAssumption
  <1>4. MailboxNumbered'
    BY <1>1, <1>2, <1>3, ConstantsAssumption
       DEF MailboxInv, MailboxNumbered, ConstantsAssumption
  <1>5. \A p, q \in Runs :
          Earlier(p, q)' => p # r /\ turn'[p] = turn[p] /\ (q = r \/ Earlier(p, q))
    BY <1>1, <1>2, <1>3 DEF MailboxInv, MailboxNumbered, Earlier
  <1>6. MailboxOrder'
    <2> SUFFICES ASSUME NEW p \in Runs, NEW q \in Runs, Earlier(p, q)',
                        turn'[q] \notin {"absent", "queued"}
                 PROVE  turn'[p] \in TerminalRunStates
      BY DEF MailboxOrder, Earlier
    <2> QED BY <1>2, <1>5 DEF MailboxInv, MailboxOrder, Earlier
  <1>7. ClaimInOrder'
    BY <1>1, <1>5 DEF MailboxInv, ClaimInOrder, Unlocked
  <1>8. ActiveTurns' = ActiveTurns
    BY <1>1, <1>2 DEF ActiveTurns, ActiveTurnStates
  <1> QED BY <1>1, <1>4, <1>6, <1>7, <1>8
          DEF MailboxInv, ClaimAlone, OneActiveTurn, InWorkspace

\* The SELECT reads what the claim relies on.
LEMMA SelectKeepsMailbox ==
  ASSUME IInv, IInv', MailboxInv, NEW w \in Workers, NEW r \in Runs,
         ClaimSelect(w, r)
  PROVE  MailboxInv'
  <1>1. UNCHANGED <<position, nextPosition, turn>>
    BY DEF ClaimSelect, sessionVars, runVars
  <1>2. \A v \in Workers, q \in Runs :
          job'[v][q].phase = "selected" => (v = w /\ q = r) \/ job'[v][q] = job[v][q]
    BY DEF ClaimSelect, IInv, TypeOK, JobTypes
  <1>3. \A q \in Runs : Earlier(q, r) => turn[q] \in TerminalRunStates
    <2> SUFFICES ASSUME NEW q \in Runs, Earlier(q, r)
                 PROVE  turn[q] \in TerminalRunStates
      OBVIOUS
    <2>1. command[q] \notin OpenCommandStates
      BY DEF ClaimSelect, Claimable, Earlier, IInv, TypeOK, RunTypes
    <2>2. turn[q] # "absent"
      BY DEF Earlier, MailboxInv, MailboxNumbered
    <2>3. RowAgrees(q)
      BY DEF IInv, RowsAgree
    <2> QED BY <2>1, <2>2, <2>3 DEF RowAgrees, OpenCommandStates
  <1>4. \A q \in ActiveTurns : SessionOf[q] = SessionOf[r] => q = r
    <2>1. CASE turn[r] = "queued"
      BY <2>1 DEF ClaimSelect, Claimable
    <2>2. CASE turn[r] = "dispatching"
      <3>1. r \in ActiveTurns
        BY <2>2 DEF ActiveTurns, ActiveTurnStates
      <3> QED BY <3>1 DEF MailboxInv, OneActiveTurn
    <2> QED BY <2>1, <2>2 DEF ClaimSelect, Claimable
  <1>5. ActiveTurns' = ActiveTurns
    BY <1>1 DEF ActiveTurns
  <1>6. ClaimInOrder'
    BY <1>1, <1>2, <1>3 DEF MailboxInv, ClaimInOrder, Earlier
  <1>7. ClaimAlone'
    BY <1>2, <1>4, <1>5 DEF MailboxInv, ClaimAlone
  <1> QED BY <1>1, <1>5, <1>6, <1>7
          DEF MailboxInv, MailboxNumbered, MailboxOrder, OneActiveTurn, InWorkspace

\* The commit makes the Turn active; the Workspace is looked at once more.
LEMMA CommitKeepsMailbox ==
  ASSUME IInv, IInv', MailboxInv, NEW w \in Workers, NEW r \in Runs,
         ClaimCommit(w, r)
  PROVE  MailboxInv'
  <1>1. /\ job[w][r].phase = "selected"
        /\ turn[r] \in {"queued", "dispatching"}
        /\ \A v \in Workers, q \in Runs :
             job[v][q].phase = "selected" /\ SessionOf[q] = SessionOf[r]
               => v = w /\ q = r
    BY DEF ClaimCommit, IInv, OpenClaimIsCurrent
  <1>2. /\ UNCHANGED <<position, nextPosition>>
        /\ turn'[r] = "dispatching"
        /\ \A q \in Runs : q # r => turn'[q] = turn[q]
    BY DEF ClaimCommit, sessionVars, IInv, TypeOK, RunTypes
  <1>3. \A v \in Workers, q \in Runs :
          job'[v][q].phase = "selected" => q # r /\ job'[v][q] = job[v][q]
    <2>1. job[w][r] \in JobRecord
      BY DEF IInv, TypeOK, JobTypes
    <2>2. [job[w][r] EXCEPT !.phase = "claimed"].phase = "claimed"
      BY <2>1 DEF JobRecord
    <2>3. job'[w][r].phase = "claimed"
      BY <2>2 DEF ClaimCommit, SetPhase, IInv, TypeOK, JobTypes
    <2>4. \A v \in Workers, q \in Runs : v # w \/ q # r => job'[v][q] = job[v][q]
      BY DEF ClaimCommit, SetPhase, IInv, TypeOK, JobTypes
    <2> QED BY <1>1, <2>3, <2>4
  <1>4. ActiveTurns' = ActiveTurns \cup {r}
    BY <1>1, <1>2 DEF ActiveTurns, ActiveTurnStates
  <1>5. \A q \in Runs : turn[q] \in TerminalRunStates => turn'[q] \in TerminalRunStates
    BY <1>1, <1>2 DEF TerminalRunStates
  <1>6. MailboxNumbered'
    BY <1>1, <1>2 DEF MailboxInv, MailboxNumbered
  <1>7. MailboxOrder'
    <2> SUFFICES ASSUME NEW p \in Runs, NEW q \in Runs, Earlier(p, q)',
                        turn'[q] \notin {"absent", "queued"}
                 PROVE  turn[p] \in TerminalRunStates
      BY <1>5 DEF MailboxOrder, Earlier
    <2>1. Earlier(p, q)
      BY <1>2 DEF Earlier
    <2>2. CASE q = r
      BY <1>1, <2>1, <2>2 DEF MailboxInv, ClaimInOrder
    <2>3. CASE q # r
      BY <1>2, <2>1, <2>3 DEF MailboxInv, MailboxOrder, Earlier
    <2> QED BY <2>2, <2>3
  <1>8. ClaimInOrder'
    BY <1>2, <1>3, <1>5 DEF MailboxInv, ClaimInOrder, Earlier
  <1>9. ClaimAlone'
    <2> SUFFICES ASSUME NEW v \in Workers, NEW p \in Runs,
                        job'[v][p].phase = "selected",
                        NEW q \in ActiveTurns', SessionOf[q] = SessionOf[p]
                 PROVE  q = p
      BY DEF ClaimAlone
    <2>1. job[v][p].phase = "selected" /\ p # r
      BY <1>3
    <2>2. q \in ActiveTurns
      BY <1>1, <1>4, <2>1 DEF ActiveTurns
    <2> QED BY <2>1, <2>2 DEF MailboxInv, ClaimAlone
  <1>10. OneActiveTurn'
    <2>1. ASSUME NEW q \in ActiveTurns, q # r
          PROVE  /\ SessionOf[q] # SessionOf[r]
                 /\ ~(/\ InWorkspace(SessionOf[q], SessionOf[r])
                      /\ SessionOf[q] \notin Forked /\ SessionOf[r] \notin Forked)
      <3>1. SessionOf[q] # SessionOf[r]
        BY <1>1, <2>1 DEF MailboxInv, ClaimAlone
      <3>2. SessionOf[r] \in Forked \/ ~WorkspaceBusy(r)
        BY DEF ClaimCommit, WorkspaceFree
      <3> QED BY <2>1, <3>1, <3>2 DEF WorkspaceBusy
    <2>2. \A q, p \in ActiveTurns \cup {r} :
            (\/ SessionOf[q] = SessionOf[p]
             \/ /\ InWorkspace(SessionOf[q], SessionOf[p])
                /\ SessionOf[q] \notin Forked /\ SessionOf[p] \notin Forked)
            => q = p
      BY <2>1 DEF MailboxInv, OneActiveTurn, InWorkspace
    <2> QED BY <1>4, <2>2 DEF OneActiveTurn, InWorkspace
  <1> QED BY <1>6, <1>7, <1>8, <1>9, <1>10 DEF MailboxInv

LEMMA MailboxStep ==
  ASSUME IInv, MailboxInv, [Next]_vars
  PROVE  MailboxInv'
  <1>1. IInv' /\ \A r \in Runs : Final(r)
    BY NextStep
  <1> QED BY <1>1, NextFrames, FrameKeepsMailbox, AcceptKeepsMailbox,
             SelectKeepsMailbox, CommitKeepsMailbox DEF IInv

LEMMA InitMailbox == Init => MailboxInv
  <1> SUFFICES ASSUME Init PROVE MailboxInv
    OBVIOUS
  <1>1. \A r \in Runs : /\ position[r] = 0 /\ turn[r] = "absent"
                        /\ nextPosition[SessionOf[r]] = 1
    BY ConstantsAssumption DEF Init, ConstantsAssumption
  <1>2. \A w \in Workers, r \in Runs : job[w][r].phase = "none"
    BY DEF Init, NoJob
  <1>3. ActiveTurns = {}
    BY <1>1 DEF ActiveTurns, ActiveTurnStates
  <1> QED BY <1>1, <1>2, <1>3 DEF MailboxInv, MailboxNumbered, MailboxOrder,
          ClaimInOrder, ClaimAlone, OneActiveTurn

LEMMA MailboxInvariance == Spec => [](IInv /\ MailboxInv)
  <1>1. Init => MailboxInv
    BY InitMailbox
  <1>2. IInv /\ MailboxInv /\ [Next]_vars => MailboxInv'
    BY MailboxStep
  <1> QED BY <1>1, <1>2, Invariance, PTL DEF Spec

\* Turns of a Session leave the mailbox in the order they entered it, although
\* claims expire, return to the mailbox and are taken over (#claimNext).
THEOREM MailboxIsOrdered == Spec => []MailboxOrder
  <1>1. MailboxInv => MailboxOrder
    BY DEF MailboxInv
  <1> QED BY <1>1, MailboxInvariance, PTL

\* A Session, and a Workspace among its unforked Sessions, executes one Turn at a
\* time, although claims of different Sessions commit at the same time.
THEOREM TurnsAreAlone == Spec => []OneActiveTurn
  <1>1. MailboxInv => OneActiveTurn
    BY DEF MailboxInv
  <1> QED BY <1>1, MailboxInvariance, PTL

-----------------------------------------------------------------------------
(* The Session follows its Turn.                                             *)

LEMMA SessionsStep ==
  ASSUME IInv, MailboxInv, SessionsFollow, [Next]_vars
  PROVE  SessionsFollow'
  <1>1. CASE \/ TurnsRest
             \/ \E w \in Workers, r \in Runs : ClaimSelect(w, r)
    BY <1>1 DEF TurnsRest, ClaimSelect, sessionVars, runVars, SessionsFollow
  <1>2. ASSUME NEW r \in Runs, AcceptTurn(r)
        PROVE  SessionsFollow'
    <2>1. /\ UNCHANGED session /\ turn'[r] = "queued"
          /\ \A q \in Runs : q # r => turn'[q] = turn[q]
      BY <1>2 DEF AcceptTurn, IInv, TypeOK, RunTypes
    <2> QED BY <2>1 DEF SessionsFollow, SessionFits
  <1>3. ASSUME NEW w \in Workers, NEW r \in Runs, ClaimCommit(w, r)
        PROVE  SessionsFollow'
    <2>1. /\ UNCHANGED session /\ turn'[r] = "dispatching"
          /\ \A q \in Runs : q # r => turn'[q] = turn[q]
      BY <1>3 DEF ClaimCommit, sessionVars, IInv, TypeOK, RunTypes
    <2>2. session[SessionOf[r]] \in {"cold", "idle"}
      BY <1>3 DEF ClaimCommit, IInv, OpenClaimIsCurrent
    <2> QED BY <2>1, <2>2 DEF SessionsFollow, SessionFits
  <1>4. ASSUME NEW w \in Workers, NEW r \in Runs, MovesTurn(w, r)
        PROVE  SessionsFollow'
    <2>1. PICK t \in TurnStates \ {"absent"}, x \in SessionStates :
            /\ turn' = [turn EXCEPT ![r] = t]
            /\ session' = [session EXCEPT ![SessionOf[r]] = x]
            /\ t \in ActiveTurnStates => SessionFits(t, x)
      BY <1>4, MovedTurn
    <2>2. r \in ActiveTurns
      BY <1>4, MovedTurn DEF ActiveTurns
    <2>3. SessionFits(turn'[r], session'[SessionOf[r]])
      BY <2>1, ConstantsAssumption DEF SessionFits, ActiveTurnStates,
         IInv, TypeOK, RunTypes, SessionTypes, ConstantsAssumption
    <2>4. ASSUME NEW q \in Runs, q # r
          PROVE  SessionFits(turn'[q], session'[SessionOf[q]])
      <3>1. turn'[q] = turn[q]
        BY <2>1, <2>4 DEF IInv, TypeOK, RunTypes
      <3>2. CASE SessionOf[q] = SessionOf[r]
        <4>1. turn[q] \notin ActiveTurnStates
          BY <2>2, <2>4, <3>2 DEF MailboxInv, OneActiveTurn, ActiveTurns
        <4> QED BY <3>1, <4>1 DEF SessionFits, ActiveTurnStates
      <3>3. CASE SessionOf[q] # SessionOf[r]
        <4>1. session'[SessionOf[q]] = session[SessionOf[q]]
          BY <2>1, <3>3, ConstantsAssumption
             DEF IInv, TypeOK, SessionTypes, ConstantsAssumption
        <4> QED BY <3>1, <4>1 DEF SessionsFollow
      <3> QED BY <3>2, <3>3
    <2> QED BY <2>3, <2>4 DEF SessionsFollow
  <1>5. ASSUME NEW w \in Workers, FinalizeRetirement(w), NEW q \in Runs
        PROVE  SessionFits(turn'[q], session'[SessionOf[q]])
    <2>1. CASE SessionOf[q] \in Orphaned(w)
      <3>1. turn'[q] \notin ActiveTurnStates
        BY <1>5, <2>1, RetiredTurns DEF ActiveTurns, ActiveTurnStates
      <3> QED BY <3>1 DEF SessionFits, ActiveTurnStates
    <2>2. CASE SessionOf[q] \notin Orphaned(w)
      <3>1. turn'[q] = turn[q] /\ session'[SessionOf[q]] = session[SessionOf[q]]
        BY <1>5, <2>2, RetiredTurns, ConstantsAssumption DEF ConstantsAssumption
      <3> QED BY <3>1 DEF SessionsFollow
    <2> QED BY <2>1, <2>2
  <1> QED BY <1>1, <1>2, <1>3, <1>4, <1>5, NextKinds DEF SessionsFollow

-----------------------------------------------------------------------------
(* The versions of a Workspace.                                              *)

\* Versions and heads move only when a Run completes.
LEMMA HeadsRest ==
  ASSUME NEW w \in Workers, NEW r \in Runs, MovesTurn(w, r), ~Complete(w, r)
  PROVE  UNCHANGED <<version, head>>
  BY DEF MovesTurn, MarkStarted, RecordRetry, RecordFailureBeforeStart,
     RecordFailureAfterStart, CancelMarkStarted, CancelComplete,
     CancelRecordFailureAfterStart, AbandonStaged, sessionVars

\* The completed Run becomes the head of what follows it.
LEMMA CompletedHeads ==
  ASSUME IInv, NEW w \in Workers, NEW r \in Runs, Complete(w, r), staged[r]
  PROVE  LET s == SessionOf[r]
             follows(t) == \/ t = s
                           \/ s \notin Forked /\ t \notin Forked /\ InWorkspace(s, t)
         IN /\ s \notin Forked => /\ \A t \in Sessions : follows(t) => Unlocked(t)
                                  /\ head[WorkspaceOf[s]] = base[r]
            /\ \A t \in Sessions : version'[t] = IF follows(t) THEN r ELSE version[t]
            /\ \A k \in Workspaces :
                 head'[k] = IF s \notin Forked /\ k = WorkspaceOf[s]
                            THEN r ELSE head[k]
  BY DEF Complete, Completable, HeadUnmoved, AdvanceHeads, InWorkspace,
     IInv, TypeOK, SessionTypes

\* A version is staged at the end of a Run's work and not kept after it.
LEMMA StagedStep ==
  ASSUME IInv, StagedLate, [Next]_vars
  PROVE  StagedLate'
  <1> DEFINE Moved(r) ==
        /\ \A q \in Runs \ {r} : run'[q] = run[q] /\ staged'[q] = staged[q]
        /\ staged'[r] => run'[r] \in {"checkpointing", "cancel_requested"}
  <1>0. \A r \in Runs : Moved(r) => StagedLate'
    BY DEF StagedLate
  <1>1. ASSUME NEW r \in Runs, run[r] \in {"absent", "queued", "claimed"}
        PROVE  ~staged[r]
    BY <1>1 DEF StagedLate
  <1>2. ASSUME NEW r \in Runs, command[r] = "dispatched" \/ turn[r] = "absent"
        PROVE  ~staged[r]
    BY <1>1, <1>2 DEF IInv, RowsAgree, RowAgrees, TerminalRunStates
  <1>3. ASSUME NEW r \in Runs, AcceptTurn(r)
        PROVE  Moved(r)
    BY <1>2, <1>3 DEF AcceptTurn, IInv, TypeOK, RunTypes
  <1>4. ASSUME NEW w \in Workers, NEW r \in Runs, ClaimCommit(w, r)
        PROVE  Moved(r)
    <2>1. ~staged[r]
      <3>1. RowAgrees(r)
        BY DEF IInv, RowsAgree
      <3> QED BY <1>1, <1>2, <1>4, <3>1
              DEF ClaimCommit, IInv, OpenClaimIsCurrent, RowAgrees, TerminalRunStates
    <2> QED BY <1>4, <2>1 DEF ClaimCommit, IInv, TypeOK, RunTypes
  <1>5. ASSUME NEW w \in Workers, NEW r \in Runs, MarkStarted(w, r) \/ RecordRetry(w, r)
        PROVE  Moved(r)
    <2>1. command[r] = "dispatched"
      BY <1>5 DEF MarkStarted, Startable, RecordRetry, Unacknowledged
    <2> QED BY <1>2, <1>5, <2>1
            DEF MarkStarted, RecordRetry, MoveRun, IInv, TypeOK, RunTypes
  <1>6. ASSUME NEW w \in Workers, NEW r \in Runs, Complete(w, r)
        PROVE  Moved(r)
    BY <1>6 DEF Complete, AdvanceHeads, MoveRun, IInv, TypeOK, RunTypes
  <1>7. ASSUME NEW w \in Workers, NEW r \in Runs,
               \/ RecordFailureBeforeStart(w, r) \/ RecordFailureAfterStart(w, r)
               \/ CancelComplete(w, r) \/ CancelRecordFailureAfterStart(w, r)
        PROVE  Moved(r)
    BY <1>7 DEF RecordFailureBeforeStart, RecordFailureAfterStart,
       CancelComplete, CancelRecordFailureAfterStart, AbandonStaged, MoveRun,
       IInv, TypeOK, RunTypes
  <1>8. ASSUME NEW w \in Workers, NEW r \in Runs, CancelMarkStarted(w, r)
        PROVE  Moved(r)
    BY <1>8 DEF CancelMarkStarted, MoveRun, IInv, TypeOK, RunTypes
  <1>9. ASSUME NEW w \in Workers, NEW r \in Runs, NEW phase \in ExecutingStates,
               ObservePhase(w, r, phase)
        PROVE  Moved(r)
    <2>1. run[r] \notin {"checkpointing", "cancel_requested"}
      BY <1>9 DEF ObservePhase, NextPhases, RunTransitions, ExecutingStates
    <2> QED BY <1>9, <2>1
            DEF ObservePhase, MoveRun, StagedLate, IInv, TypeOK, RunTypes
  <1>10. ASSUME NEW w \in Workers, NEW r \in Runs, SaveCheckpoint(w, r)
         PROVE  Moved(r)
    BY <1>10 DEF SaveCheckpoint, IInv, TypeOK, RunTypes
  <1>11. ASSUME NEW w \in Workers, FinalizeRetirement(w), NEW r \in Runs, staged'[r]
         PROVE  run'[r] \in {"checkpointing", "cancel_requested"}
    <2>1. staged[r] /\ r \notin LostRuns(w)
      BY <1>11 DEF FinalizeRetirement
    <2>2. r \notin RequeuedRuns(w)
      BY <1>2, <2>1 DEF RequeuedRuns, SafelyUnacknowledged
    <2> QED BY <1>11, <2>1, <2>2 DEF FinalizeRetirement, StagedLate
  <1>12. UNCHANGED <<run, staged>> => StagedLate'
    BY DEF StagedLate
  <1> HIDE DEF Moved
  <1>13. ASSUME NEW w \in Workers, NEW r \in Runs, QuietActions(w, r)
         PROVE  UNCHANGED <<run, staged>> \/ SaveCheckpoint(w, r)
    BY <1>13 DEF QuietActions, AcceptTurnCancellation, ClaimExpires,
       CancelExpires, ClaimBlocked, Acquire, AcquireFails, MarkStartedFails,
       ExecutionEnds, HeartbeatRevokes, CompleteFails, RecordFailureStale,
       ScanCancel, ClaimCancel, CancelAssign, CancelMarkStartedFails,
       CancelExecution, CancelSettleFails, CancelRecordFailureBeforeStart,
       EmitEvents, Fault, DeliveryRejected, BarrierTimesOut, CommitAborts, runVars
  <1>14. CASE \E w \in Workers, r \in Runs :
                \/ ClaimSelect(w, r) \/ Dispatch(w, r) \/ CancelDispatch(w, r)
                \/ Execution(w, r) \/ Fault(w, r)
    <2>1. PICK w \in Workers, r \in Runs :
               \/ QuietActions(w, r) \/ ClaimSelect(w, r) \/ ClaimCommit(w, r)
               \/ MarkStarted(w, r) \/ Complete(w, r) \/ RecordRetry(w, r)
               \/ RecordFailureBeforeStart(w, r) \/ RecordFailureAfterStart(w, r)
               \/ CancelMarkStarted(w, r) \/ CancelComplete(w, r)
               \/ CancelRecordFailureAfterStart(w, r)
               \/ \E phase \in ExecutingStates : ObservePhase(w, r, phase)
      BY <1>14 DEF QuietActions, Dispatch, CancelDispatch, Execution
    <2>2. CASE ClaimSelect(w, r)
      BY <1>12, <2>2 DEF ClaimSelect, runVars
    <2> QED BY <1>0, <1>4, <1>5, <1>6, <1>7, <1>8, <1>9, <1>10, <1>12, <1>13,
               <2>1, <2>2
  <1>15. CASE \E w \in Workers : HeartbeatFails(w) \/ WorkerCrashes(w) \/ Retire(w)
    <2>1. CASE \E w \in Workers : FinalizeRetirement(w)
      BY <1>11, <2>1 DEF StagedLate
    <2>2. CASE ~\E w \in Workers : FinalizeRetirement(w)
      BY <1>12, <1>15, <2>2 DEF HeartbeatFails, WorkerCrashes, Retire,
         FenceSandbox, StopAndConfirm, LoadAssignments, RetirementFails, runVars
    <2> QED BY <2>1, <2>2
  <1>16. CASE \/ UNCHANGED vars
              \/ \E r \in Runs : \/ AcceptTurnCancellation(r)
                                 \/ ClaimExpires(r) \/ CancelExpires(r)
              \/ \E k \in Workspaces : ToggleWorkspace(k)
              \/ \E s \in Sessions : LeaseExpires(s) \/ ProjectEvents(s)
    BY <1>12, <1>16 DEF vars, AcceptTurnCancellation, ClaimExpires,
       CancelExpires, ToggleWorkspace, LeaseExpires, ProjectEvents, runVars
  <1> QED BY <1>0, <1>3, <1>14, <1>15, <1>16 DEF Next

\* A step that moves no head and no version, settles no Run and opens no claim
\* keeps the branches, if the Turns that are active were so before.
LEMMA BranchesRest ==
  ASSUME BranchInv, StagedLate',
         UNCHANGED <<version, head, base>>,
         \A r \in Runs : r \in ActiveTurns' => r \in ActiveTurns,
         \A r \in Runs : run[r] = "completed" => run'[r] = "completed",
         \A w \in Workers, r \in Runs :
           job'[w][r].phase = "selected" => job'[w][r] = job[w][r]
  PROVE  BranchInv'
  <1>1. BaseIsHead'
    BY DEF BranchInv, BaseIsHead, ActiveTurns
  <1>2. ClaimOnHead'
    BY DEF BranchInv, ClaimOnHead
  <1>3. HeadsCompleted' /\ BranchesKeepApart'
    BY DEF BranchInv, HeadsCompleted, BranchesKeepApart
  <1> QED BY <1>1, <1>2, <1>3 DEF BranchInv

LEMMA CompletedStays ==
  ASSUME \A q \in Runs : Final(q), NEW r \in Runs, run[r] = "completed"
  PROVE  run'[r] = "completed"
  BY DEF Final, TerminalRunStates

\* A new Run starts from the head, and its Session stands on it.
LEMMA AcceptKeepsBranches ==
  ASSUME IInv, MailboxInv, BranchInv, StagedLate', \A q \in Runs : Final(q),
         NEW r \in Runs, AcceptTurn(r)
  PROVE  BranchInv'
  <1> DEFINE s == SessionOf[r]
  <1>1. s \in Sessions /\ WorkspaceOf[s] \in Workspaces
    BY ConstantsAssumption DEF ConstantsAssumption
  <1>2. /\ turn'[r] = "queued" /\ UNCHANGED <<head, job>> /\ Unlocked(s)
        /\ \A q \in Runs : q # r => turn'[q] = turn[q] /\ base'[q] = base[q]
        /\ version'[s] = WorkspaceBase(r)
        /\ \A t \in Sessions : t # s => version'[t] = version[t]
    BY <1>1 DEF AcceptTurn, IInv, TypeOK, RunTypes, SessionTypes
  <1>3. \A q \in ActiveTurns' : q # r /\ q \in ActiveTurns
    BY <1>2 DEF ActiveTurns, ActiveTurnStates
  <1>4. BaseIsHead'
    BY <1>2, <1>3 DEF BranchInv, BaseIsHead, ActiveTurns
  <1>5. ClaimOnHead' /\ HeadsCompleted'
    BY <1>2, CompletedStays DEF BranchInv, ClaimOnHead, HeadsCompleted
  <1>6. BranchesKeepApart'
    <2>1. s \in Forked => version'[s] = version[s]
      BY <1>2 DEF WorkspaceBase
    <2>2. s \notin Forked => version'[s] = head[WorkspaceOf[s]]
      BY <1>2 DEF WorkspaceBase
    <2>3. \A t \in Sessions :
            \/ version'[t] = version[t]
            \/ t = s /\ s \notin Forked /\ version'[t] = head[WorkspaceOf[s]]
      BY <1>2, <2>1, <2>2
    <2>4. ASSUME NEW t \in Sessions, version'[t] \in Runs
          PROVE  /\ run[version'[t]] = "completed"
                 /\ IF t \in Forked THEN SessionOf[version'[t]] = t
                                   ELSE SessionOf[version'[t]] \notin Forked
      BY <1>1, <2>3, <2>4 DEF BranchInv, BranchesKeepApart, HeadsCompleted
    <2>5. \A k \in Workspaces : head'[k] \in Runs => SessionOf[head'[k]] \notin Forked
      BY <1>2 DEF BranchInv, BranchesKeepApart
    <2> QED BY <2>4, <2>5, CompletedStays DEF BranchesKeepApart
  <1> QED BY <1>4, <1>5, <1>6 DEF BranchInv

\* The claim takes the head as its base, and the head stays until it commits.
LEMMA ClaimKeepsBranches ==
  ASSUME IInv, MailboxInv, BranchInv, StagedLate', \A q \in Runs : Final(q),
         NEW w \in Workers, NEW r \in Runs, ClaimSelect(w, r) \/ ClaimCommit(w, r)
  PROVE  BranchInv'
  <1>1. UNCHANGED <<version, head>>
    BY DEF ClaimSelect, ClaimCommit, sessionVars
  <1>2. HeadsCompleted' /\ BranchesKeepApart'
    BY <1>1, CompletedStays DEF BranchInv, HeadsCompleted, BranchesKeepApart
  <1>3. job[w][r] \in JobRecord
    BY DEF IInv, TypeOK, JobTypes
  <1>4. CASE ClaimSelect(w, r)
    <2>1. UNCHANGED <<turn, base>>
      BY <1>4 DEF ClaimSelect, runVars
    <2>2. /\ job'[w][r].base = WorkspaceBase(r)
          /\ \A v \in Workers, q \in Runs : v # w \/ q # r => job'[v][q] = job[v][q]
      BY <1>4 DEF ClaimSelect, IInv, TypeOK, JobTypes
    <2>3. BaseIsHead'
      BY <1>1, <2>1 DEF BranchInv, BaseIsHead, ActiveTurns
    <2>4. ClaimOnHead'
      BY <1>1, <2>2 DEF BranchInv, ClaimOnHead, WorkspaceBase
    <2> QED BY <1>2, <2>3, <2>4 DEF BranchInv
  <1>5. CASE ClaimCommit(w, r)
    <2>1. /\ base'[r] = job[w][r].base
          /\ \A q \in Runs : q # r => turn'[q] = turn[q] /\ base'[q] = base[q]
      BY <1>5 DEF ClaimCommit, IInv, TypeOK, RunTypes
    <2>2. \A q \in ActiveTurns' : q \in Runs /\ (q = r \/ q \in ActiveTurns)
      BY <2>1 DEF ActiveTurns
    <2>3. job[w][r].phase = "selected"
      BY <1>5 DEF ClaimCommit
    <2>4. BaseIsHead'
      BY <1>1, <2>1, <2>2, <2>3 DEF BranchInv, BaseIsHead, ClaimOnHead
    <2>5. [job[w][r] EXCEPT !.phase = "claimed"].phase = "claimed"
      BY <1>3 DEF JobRecord
    <2>6. /\ job'[w][r].phase = "claimed"
          /\ \A v \in Workers, q \in Runs : v # w \/ q # r => job'[v][q] = job[v][q]
      BY <1>5, <2>5 DEF ClaimCommit, SetPhase, IInv, TypeOK, JobTypes
    <2>7. ClaimOnHead'
      BY <1>1, <2>6 DEF BranchInv, ClaimOnHead
    <2> QED BY <1>2, <2>4, <2>7 DEF BranchInv
  <1> QED BY <1>4, <1>5

\* A completed Run moves the head under no other Run and no open claim.
LEMMA CompleteKeepsBranches ==
  ASSUME IInv, IInv', MailboxInv, BranchInv, StagedLate', \A q \in Runs : Final(q),
         NEW w \in Workers, NEW r \in Runs, Complete(w, r), staged[r],
         \A v \in Workers, q \in Runs :
           job'[v][q].phase = "selected" => job'[v][q] = job[v][q]
  PROVE  BranchInv'
  <1> DEFINE s == SessionOf[r]
             follows(t) == \/ t = s
                           \/ s \notin Forked /\ t \notin Forked /\ InWorkspace(s, t)
  <1>1. s \in Sessions /\ WorkspaceOf[s] \in Workspaces
    BY ConstantsAssumption DEF ConstantsAssumption
  <1>2. /\ s \notin Forked => \A t \in Sessions : follows(t) => Unlocked(t)
        /\ \A t \in Sessions : version'[t] = IF follows(t) THEN r ELSE version[t]
        /\ \A k \in Workspaces :
             head'[k] = IF s \notin Forked /\ k = WorkspaceOf[s] THEN r ELSE head[k]
    BY CompletedHeads
  <1>3. /\ turn[r] = "running" /\ turn'[r] = "completed" /\ run'[r] = "completed"
        /\ \A q \in Runs : q # r => turn'[q] = turn[q]
        /\ UNCHANGED base
    BY DEF Complete, Completable, Settle, MoveRun, IInv, TypeOK, RunTypes
  <1>4. ASSUME NEW q \in ActiveTurns', SessionOf[q] \notin Forked
        PROVE  base'[q] = head'[WorkspaceOf[SessionOf[q]]]
    <2>1. q \in ActiveTurns /\ q # r /\ r \in ActiveTurns
      BY <1>3 DEF ActiveTurns, ActiveTurnStates
    <2>2. WorkspaceOf[SessionOf[q]] \in Workspaces
      BY <2>1, ConstantsAssumption DEF ActiveTurns, ConstantsAssumption
    <2>3. s \notin Forked => WorkspaceOf[SessionOf[q]] # WorkspaceOf[s]
      BY <1>4, <2>1 DEF MailboxInv, OneActiveTurn, InWorkspace
    <2> QED BY <1>2, <1>3, <1>4, <2>1, <2>2, <2>3 DEF BranchInv, BaseIsHead
  <1>5. BaseIsHead'
    BY <1>4 DEF BaseIsHead
  <1>6. ClaimOnHead'
    <2> SUFFICES ASSUME NEW v \in Workers, NEW q \in Runs,
                        job'[v][q].phase = "selected", SessionOf[q] \notin Forked
                 PROVE  job'[v][q].base = head'[WorkspaceOf[SessionOf[q]]]
      BY DEF ClaimOnHead
    <2>1. job'[v][q] = job[v][q]
      OBVIOUS
    <2>2. SessionOf[q] \in Sessions /\ WorkspaceOf[SessionOf[q]] \in Workspaces
      BY ConstantsAssumption DEF ConstantsAssumption
    <2>3. s \notin Forked => WorkspaceOf[SessionOf[q]] # WorkspaceOf[s]
      BY <1>2, <2>1, <2>2 DEF Unlocked, InWorkspace
    <2> QED BY <1>2, <2>1, <2>2, <2>3 DEF BranchInv, ClaimOnHead
  <1>7. HeadsCompleted'
    BY <1>2, <1>3, CompletedStays DEF BranchInv, HeadsCompleted
  <1>8. BranchesKeepApart'
    <2>1. ASSUME NEW t \in Sessions, version'[t] \in Runs
          PROVE  /\ run'[version'[t]] = "completed"
                 /\ IF t \in Forked THEN SessionOf[version'[t]] = t
                                   ELSE SessionOf[version'[t]] \notin Forked
      <3>1. CASE follows(t)
        BY <1>2, <1>3, <2>1, <3>1
      <3>2. CASE ~follows(t)
        BY <1>2, <2>1, <3>2, CompletedStays DEF BranchInv, BranchesKeepApart
      <3> QED BY <3>1, <3>2
    <2>2. \A k \in Workspaces : head'[k] \in Runs => SessionOf[head'[k]] \notin Forked
      BY <1>2 DEF BranchInv, BranchesKeepApart
    <2> QED BY <2>1, <2>2 DEF BranchesKeepApart
  <1> QED BY <1>5, <1>6, <1>7, <1>8 DEF BranchInv

LEMMA BranchStep ==
  ASSUME IInv, MailboxInv, BranchInv, [Next]_vars
  PROVE  BranchInv'
  <1>1. IInv' /\ \A q \in Runs : Final(q)
    BY NextStep
  <1>2. StagedLate'
    BY StagedStep DEF BranchInv
  <1>3. \A r \in Runs : run[r] = "completed" => run'[r] = "completed"
    BY <1>1, CompletedStays
  <1>4. CASE MailboxFrame
    <2>1. \A r \in Runs : r \in ActiveTurns' => r \in ActiveTurns
      BY <1>4 DEF MailboxFrame, ActiveTurns
    <2>2. \A w \in Workers, r \in Runs :
            job'[w][r].phase = "selected" => job'[w][r] = job[w][r]
      BY <1>4 DEF MailboxFrame
    <2>3. UNCHANGED <<version, head, base>> => BranchInv'
      BY <1>2, <1>3, <2>1, <2>2, BranchesRest
    <2>4. ASSUME NEW w \in Workers, NEW r \in Runs, MovesTurn(w, r)
          PROVE  BranchInv'
      <3>1. UNCHANGED base
        BY <2>4, MovedTurn
      <3>2. CASE Complete(w, r) /\ staged[r]
        BY <1>1, <1>2, <2>2, <3>2, CompleteKeepsBranches
      <3>3. CASE Complete(w, r) /\ ~staged[r]
        BY <2>3, <3>1, <3>3 DEF Complete, AdvanceHeads
      <3>4. CASE ~Complete(w, r)
        BY <2>3, <2>4, <3>1, <3>4, HeadsRest
      <3> QED BY <3>2, <3>3, <3>4
    <2>5. (\E w \in Workers : FinalizeRetirement(w)) => BranchInv'
      BY <2>3, RetiredTurns
    <2>6. TurnsRest => BranchInv'
      BY <2>3 DEF TurnsRest
    <2> QED BY <1>1, <1>2, <2>4, <2>5, <2>6, NextKinds,
               AcceptKeepsBranches, ClaimKeepsBranches
  <1> QED BY <1>1, <1>2, <1>4, NextFrames, AcceptKeepsBranches,
             ClaimKeepsBranches DEF IInv

LEMMA InitBranches == Init => SessionsFollow /\ BranchInv
  <1> SUFFICES ASSUME Init PROVE SessionsFollow /\ BranchInv
    OBVIOUS
  <1>1. /\ \A r \in Runs : turn[r] = "absent" /\ ~staged[r]
        /\ \A k \in Workspaces : head[k] \notin Runs
        /\ \A s \in Sessions : version[s] \notin Runs
    BY ConstantsAssumption DEF Init, ConstantsAssumption
  <1>2. \A w \in Workers, r \in Runs : job[w][r].phase = "none"
    BY DEF Init, NoJob
  <1>3. ActiveTurns = {}
    BY <1>1 DEF ActiveTurns, ActiveTurnStates
  <1> QED BY <1>1, <1>2, <1>3 DEF SessionsFollow, SessionFits, BranchInv,
          BaseIsHead, ClaimOnHead, StagedLate, HeadsCompleted, BranchesKeepApart

\* What is known of every reachable state so far.
TurnInv == IInv /\ MailboxInv /\ SessionsFollow /\ BranchInv

LEMMA TurnStep ==
  ASSUME TurnInv, [Next]_vars
  PROVE  TurnInv'
  BY NextStep, MailboxStep, SessionsStep, BranchStep DEF TurnInv

LEMMA TurnInvariance == Spec => []TurnInv
  <1>1. Init => TurnInv
    BY InitInv, InitMailbox, InitBranches DEF TurnInv
  <1>2. TurnInv /\ [Next]_vars => TurnInv'
    BY TurnStep
  <1> QED BY <1>1, <1>2, PTL DEF Spec

\* A Run of an unforked Session works on the Workspace's head from its claim to
\* its end, and no version crosses a fork (#claimNext, transitionCurrentRunAttempt).
THEOREM BranchesAreSound == Spec => []BranchesSound
  <1>1. TurnInv => BranchesSound
    BY DEF TurnInv, BranchInv, BranchesSound
  <1> QED BY <1>1, TurnInvariance, PTL

\* The compare-and-set on the head, and who may run it: a step that moves it.
LEMMA HeadMoves ==
  ASSUME TurnInv, [Next]_vars, NEW k \in Workspaces, head'[k] # head[k]
  PROVE  /\ head'[k] \in Runs
         /\ run[head'[k]] = "checkpointing" /\ run'[head'[k]] = "completed"
         /\ base[head'[k]] = head[k]
  <1>1. PICK w \in Workers, r \in Runs : MovesTurn(w, r)
    <2>1. \A r \in Runs : AcceptTurn(r) => UNCHANGED head
      BY DEF AcceptTurn
    <2>2. \A w \in Workers, r \in Runs :
            ClaimSelect(w, r) \/ ClaimCommit(w, r) => UNCHANGED head
      BY DEF ClaimSelect, ClaimCommit, sessionVars
    <2>3. \A w \in Workers : FinalizeRetirement(w) => UNCHANGED head
      BY DEF FinalizeRetirement
    <2>4. TurnsRest => UNCHANGED head
      BY DEF TurnsRest
    <2> QED BY <2>1, <2>2, <2>3, <2>4, NextKinds
  <1>2. Complete(w, r) /\ staged[r]
    <2>1. Complete(w, r)
      BY <1>1, HeadsRest
    <2> QED BY <2>1 DEF Complete, AdvanceHeads
  <1>3. head'[k] = r /\ head[k] = base[r]
    BY <1>2, CompletedHeads DEF TurnInv
  <1>4. run'[r] = "completed"
    BY <1>2 DEF Complete, MoveRun, TurnInv, IInv, TypeOK, RunTypes
  <1>5. run[r] = "checkpointing"
    <2>1. RowAgrees(r) /\ turn[r] = "running"
      BY <1>2 DEF Complete, Completable, TurnInv, IInv, RowsAgree
    <2>2. run[r] \in {"checkpointing", "cancel_requested"}
      BY <1>2 DEF TurnInv, BranchInv, StagedLate
    <2> QED BY <2>1, <2>2 DEF RowAgrees, ExecutingStates, TerminalRunStates
  <1> QED BY <1>3, <1>4, <1>5

\* The head of a Workspace moves only in the step that completes the Run it
\* moves to, and from that Run's own base.
THEOREM HeadsFollow == Spec => HeadFollowsCompletion
  <1>1. TurnInv /\ [Next]_vars =>
          [\A k \in Workspaces :
             head'[k] # head[k] =>
               /\ head'[k] \in Runs
               /\ run[head'[k]] = "checkpointing" /\ run'[head'[k]] = "completed"
               /\ base[head'[k]] = head[k]]_vars
    BY HeadMoves
  <1> QED BY <1>1, TurnInvariance, PTL DEF Spec, HeadFollowsCompletion
=============================================================================
