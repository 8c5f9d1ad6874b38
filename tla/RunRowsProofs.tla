---------------------------- MODULE RunRowsProofs ----------------------------
(***************************************************************************)
(* The rows of one Run, for every number of Sessions, Runs and Workers:    *)
(* Spec => []LifecycleAgreement and Spec => TransitionsAreLegal; and what   *)
(* is to be seen of it: Spec => Contract!Spec.                              *)
(*                                                                         *)
(* Most transactions check one or two of a Run's rows and write all of     *)
(* them.  RunSound says what the others are then; with it each write is    *)
(* compared with the transition tables.                                    *)
(*                                                                         *)
(* Of RunContract most transactions are not to be seen.  An                *)
(* acknowledgement starts a Run, and the mailbox and lease invariants give *)
(* what RunContract asks of a start; a settlement ends one, and a          *)
(* retirement loses its owner's.                                           *)
(***************************************************************************)
EXTENDS RunLeaseProofs

\* The outbox row is published from the ACK or the settlement on.
OutboxFollows(r) ==
  outbox[r].published <=> turn[r] \notin {"absent", "queued", "dispatching"}

\* A claimed Run has an attempt in its own state, and no later one exists.
AttemptFollows(r) ==
  /\ turn[r] \notin {"absent", "queued"} =>
       Current(r) \in Claims /\ CurrentAttempt(r).state = run[r]
  /\ \A a \in Claims : a > Current(r) => attempt[r][a].state = "absent"

\* The outcome the command records.
OutcomeFollows(r) ==
  turn[r] \in TerminalRunStates =>
    command[r] = IF turn[r] = "failed" THEN "failed" ELSE "completed"

CancelFollows(r) == (cancel[r].state = "acknowledged") <=> (turn[r] = "cancelling")

\* One terminal event from the settlement on, or none after a failed cancellation.
EventFollows(r) ==
  IF turn[r] \in TerminalRunStates
  THEN \/ terminal[r] = 1
       \/ terminal[r] = 0 /\ turn[r] = "failed" /\ cancel[r].state = "failed"
  ELSE terminal[r] = 0

RunSound(r) ==
  /\ OutboxFollows(r) /\ AttemptFollows(r) /\ OutcomeFollows(r)
  /\ CancelFollows(r) /\ EventFollows(r)

RowsInv == TurnInv /\ \A r \in Runs : RunSound(r)

\* What TransitionsAreLegal says of one Run.
LegalMoves(r) ==
  /\ Legal(TurnTransitions, turn[r], turn'[r])
  /\ Legal(CommandTransitions, command[r], command'[r])
  /\ Legal(CommandTransitions, cancel[r].state, cancel'[r].state)
  /\ \/ Legal(RunTransitions, run[r], run'[r])
     \/ run[r] \in Lagging /\ run'[r] = "completed"
  /\ \A a \in Claims :
       LET from == attempt[r][a].state  to == attempt'[r][a].state IN
       Legal(AttemptTransitions, from, to)
         \/ (from \in Lagging /\ to = "completed")

-----------------------------------------------------------------------------
(* The frame.                                                                *)

\* Neither the message nor its event is touched.
RowsRest(r) ==
  /\ turn'[r] = turn[r] /\ command'[r] = command[r] /\ terminal'[r] = terminal[r]
  /\ Current(r)' = Current(r) /\ outbox'[r].published = outbox[r].published

\* Neither the Run nor its attempts change state.
StatesRest(r) ==
  /\ run'[r] = run[r]
  /\ \A a \in Claims : attempt'[r][a].state = attempt[r][a].state

\* What may become of a cancellation that has not started.
CancelMoves(r) ==
  \/ cancel'[r].state = cancel[r].state
  \/ cancel[r].state = "absent" /\ cancel'[r].state = "pending"
  \/ cancel[r].state = "pending" /\ cancel'[r].state = "dispatched"
  \/ cancel[r].state = "dispatched" /\ cancel'[r].state \in {"pending", "failed"}

Rests(r) == RowsRest(r) /\ StatesRest(r) /\ CancelMoves(r)

LEMMA RestedRun ==
  ASSUME NEW r \in Runs, RunSound(r), Rests(r)
  PROVE  RunSound(r)' /\ LegalMoves(r)
  <1>1. RunSound(r)'
    <2>1. OutboxFollows(r)' /\ OutcomeFollows(r)'
      BY DEF RunSound, Rests, RowsRest, OutboxFollows, OutcomeFollows
    <2>2. AttemptFollows(r)'
      BY DEF RunSound, Rests, RowsRest, StatesRest, AttemptFollows, CurrentAttempt
    <2>3. CancelFollows(r)'
      BY DEF RunSound, Rests, RowsRest, CancelMoves, CancelFollows
    <2>4. EventFollows(r)'
      BY DEF RunSound, Rests, RowsRest, CancelMoves, EventFollows
    <2> QED BY <2>1, <2>2, <2>3, <2>4 DEF RunSound
  <1>2. Legal(CommandTransitions, cancel[r].state, cancel'[r].state)
    BY DEF Rests, CancelMoves, Legal, CommandTransitions
  <1>3. LegalMoves(r)
    BY <1>2 DEF LegalMoves, Legal, Rests, RowsRest, StatesRest
  <1> QED BY <1>1, <1>3

\* A Run's rows are written: the states of the turn, the command, the run, the
\* current attempt and the cancellation.
Written(r, t, c, u, x, k) ==
  /\ turn'[r] = t /\ command'[r] = c /\ run'[r] = u /\ cancel'[r].state = k
  /\ Current(r)' = Current(r)
  /\ \A a \in Claims :
       attempt'[r][a].state = IF a = Current(r) THEN x ELSE attempt[r][a].state

\* One Run's rows and no other's.
WritesOnly(r, t, c, u, x, k) ==
  /\ Written(r, t, c, u, x, k)
  /\ \A q \in Runs : q # r => Rests(q)

\* A write that keeps the rows in agreement.
LEMMA WrittenRun ==
  ASSUME IInv, NEW r \in Runs, RunSound(r), turn[r] \in ActiveTurnStates,
         NEW t \in TurnStates \ {"absent"}, NEW c, NEW u, NEW x, NEW k,
         Written(r, t, c, u, x, k),
         t # "queued" => x = u,
         outbox'[r].published <=> t \notin {"queued", "dispatching"},
         t \in TerminalRunStates => c = IF t = "failed" THEN "failed" ELSE "completed",
         k = "acknowledged" <=> t = "cancelling",
         terminal'[r] = 0 \/ (terminal'[r] = 1 /\ t \in TerminalRunStates),
         t \in TerminalRunStates /\ terminal'[r] = 0 => t = "failed" /\ k = "failed"
  PROVE  RunSound(r)'
  <1>1. OutboxFollows(r)' /\ OutcomeFollows(r)' /\ CancelFollows(r)' /\ EventFollows(r)'
    BY DEF Written, OutboxFollows, OutcomeFollows, CancelFollows, EventFollows
  <1>2. Current(r) \in Claims /\ Current(r) \in Nat
    BY DEF RunSound, AttemptFollows, ActiveTurnStates, Claims
  <1>3. AttemptFollows(r)'
    BY <1>2 DEF RunSound, AttemptFollows, Written, CurrentAttempt, Claims
  <1> QED BY <1>1, <1>3 DEF RunSound

\* A write that moves every row along its table.
LEMMA WrittenLegally ==
  ASSUME NEW r \in Runs, RunSound(r), turn[r] \in ActiveTurnStates,
         NEW t, NEW c, NEW u, NEW x, NEW k,
         Written(r, t, c, u, x, k),
         Legal(TurnTransitions, turn[r], t),
         Legal(CommandTransitions, command[r], c),
         Legal(CommandTransitions, cancel[r].state, k),
         Legal(RunTransitions, run[r], u) \/ (run[r] \in Lagging /\ u = "completed"),
         Legal(AttemptTransitions, run[r], x) \/ (run[r] \in Lagging /\ x = "completed")
  PROVE  LegalMoves(r)
  <1>1. CurrentAttempt(r).state = run[r]
    BY DEF RunSound, AttemptFollows, ActiveTurnStates
  <1>2. ASSUME NEW a \in Claims
        PROVE  \/ Legal(AttemptTransitions, attempt[r][a].state, attempt'[r][a].state)
               \/ attempt[r][a].state \in Lagging /\ attempt'[r][a].state = "completed"
    <2>1. CASE a = Current(r)
      BY <1>1, <2>1 DEF Written, CurrentAttempt
    <2>2. CASE a # Current(r)
      BY <2>2 DEF Written, Legal
    <2> QED BY <2>1, <2>2
  <1> QED BY <1>2 DEF LegalMoves, Written

-----------------------------------------------------------------------------
(* What the steps do to the rows.                                            *)

\* Everything RunSound speaks of.
AllRows == <<turn, command, run, outbox, terminal, attempt, cancel>>

LEMMA UnchangedRows ==
  ASSUME UNCHANGED AllRows
  PROVE  \A q \in Runs : Rests(q)
  <1>1. /\ turn' = turn /\ command' = command /\ run' = run /\ outbox' = outbox
        /\ terminal' = terminal /\ attempt' = attempt /\ cancel' = cancel
    BY DEF AllRows
  <1> QED BY <1>1 DEF Rests, RowsRest, StatesRest, CancelMoves, Current

\* A write to the cancellation alone.
LEMMA CancelledRows ==
  ASSUME UNCHANGED <<turn, command, run, outbox, terminal, attempt>>,
         \A q \in Runs : CancelMoves(q)
  PROVE  \A q \in Runs : Rests(q)
  <1>1. /\ turn' = turn /\ command' = command /\ run' = run /\ outbox' = outbox
        /\ terminal' = terminal /\ attempt' = attempt
    OBVIOUS
  <1> QED BY <1>1 DEF Rests, RowsRest, StatesRest, Current

LEMMA CancelWriters ==
  ASSUME TypeOK, NEW w, NEW r \in Runs,
         \/ AcceptTurnCancellation(r) \/ CancelExpires(r) \/ ClaimCancel(w, r)
         \/ CancelRecordFailureBeforeStart(w, r)
  PROVE  \A q \in Runs : Rests(q)
  <1>1. cancel \in [Runs -> CancelRow] /\ cancel[r] \in CancelRow
    BY DEF TypeOK, CancelTypes
  <1>2. UNCHANGED <<turn, command, run, outbox, terminal, attempt>>
    BY DEF AcceptTurnCancellation, CancelExpires, ClaimCancel,
       CancelRecordFailureBeforeStart, runVars
  <1>3. ASSUME NEW row, cancel' = [cancel EXCEPT ![r] = row],
               \/ cancel[r].state = "absent" /\ row.state = "pending"
               \/ row.state = cancel[r].state
               \/ cancel[r].state = "pending" /\ row.state = "dispatched"
               \/ /\ cancel[r].state = "dispatched"
                  /\ row.state \in {"pending", "dispatched", "failed"}
        PROVE  \A q \in Runs : CancelMoves(q)
    BY <1>1, <1>3 DEF CancelMoves
  <1>4. CASE AcceptTurnCancellation(r)
    <2> DEFINE row == [state |-> "pending", attempts |-> 0,
                       available |-> TRUE, published |-> FALSE]
    <2>1. cancel' = [cancel EXCEPT ![r] = row] /\ cancel[r].state = "absent"
      BY <1>4 DEF AcceptTurnCancellation
    <2>2. row.state = "pending"
      OBVIOUS
    <2> HIDE DEF row
    <2>3. \A q \in Runs : CancelMoves(q)
      BY <2>1, <2>2, <1>3
    <2> QED BY <2>3, <1>2, CancelledRows
  <1>5. CASE CancelExpires(r)
    <2> DEFINE row == [cancel[r] EXCEPT !.available = TRUE]
    <2>1. cancel' = [cancel EXCEPT ![r] = row]
      BY <1>5 DEF CancelExpires
    <2>2. row.state = cancel[r].state
      BY <1>1 DEF CancelRow
    <2> HIDE DEF row
    <2>3. \A q \in Runs : CancelMoves(q)
      BY <2>1, <2>2, <1>3
    <2> QED BY <2>3, <1>2, CancelledRows
  <1>6. CASE ClaimCancel(w, r)
    <2> DEFINE row == [state |-> "dispatched", attempts |-> cancel[r].attempts + 1,
                       available |-> FALSE, published |-> FALSE]
    <2>1. cancel' = [cancel EXCEPT ![r] = row]
      BY <1>6 DEF ClaimCancel
    <2>2. row.state = "dispatched" /\ cancel[r].state \in {"pending", "dispatched"}
      BY <1>6 DEF ClaimCancel, CancelDue
    <2> HIDE DEF row
    <2>3. \A q \in Runs : CancelMoves(q)
      BY <2>1, <2>2, <1>3
    <2> QED BY <2>3, <1>2, CancelledRows
  <1>7. CASE CancelRecordFailureBeforeStart(w, r)
    <2>1. PICK state \in {"pending", "failed"}, published \in BOOLEAN :
            cancel' = [cancel EXCEPT ![r].state = state, ![r].published = published]
      BY <1>7 DEF CancelRecordFailureBeforeStart
    <2> DEFINE row == [cancel[r] EXCEPT !.state = state, !.published = published]
    <2>2. cancel' = [cancel EXCEPT ![r] = row] /\ row.state = state
      BY <1>1, <2>1 DEF CancelRow
    <2>3. cancel[r].state = "dispatched"
      BY <1>7 DEF CancelRecordFailureBeforeStart
    <2> HIDE DEF row
    <2>4. \A q \in Runs : CancelMoves(q)
      BY <2>2, <2>3, <1>3
    <2> QED BY <2>4, <1>2, CancelledRows
  <1> QED BY <1>4, <1>5, <1>6, <1>7

LEMMA ExpiredClaimRows ==
  ASSUME TypeOK, NEW r \in Runs, ClaimExpires(r)
  PROVE  \A q \in Runs : Rests(q)
  <1>1. outbox \in [Runs -> OutboxRow] /\ outbox[r] \in OutboxRow
    BY DEF TypeOK, RunTypes
  <1>2. outbox' = [outbox EXCEPT ![r] = [outbox[r] EXCEPT !.available = TRUE]]
    BY DEF ClaimExpires
  <1>3. LET row == [outbox[r] EXCEPT !.available = TRUE]
        IN row.published = outbox[r].published /\ row.attempts = outbox[r].attempts
    BY <1>1 DEF OutboxRow
  <1>4. \A q \in Runs : /\ outbox'[q].published = outbox[q].published
                        /\ outbox'[q].attempts = outbox[q].attempts
    BY <1>1, <1>2, <1>3
  <1>5. /\ turn' = turn /\ command' = command /\ run' = run
        /\ terminal' = terminal /\ attempt' = attempt /\ cancel' = cancel
    BY DEF ClaimExpires, cancelVars
  <1> QED BY <1>4, <1>5 DEF Rests, RowsRest, StatesRest, CancelMoves, Current

LEMMA AcquiredRows ==
  ASSUME TypeOK, NEW w \in Workers, NEW r \in Runs, Acquire(w, r)
  PROVE  \A q \in Runs : Rests(q)
  <1>1. attempt \in [Runs -> [Claims -> AttemptRow]]
    BY DEF TypeOK, RunTypes
  <1>2. PICK c, token :
          attempt' = [attempt EXCEPT ![r][c].fence = token]
    BY DEF Acquire
  <1>3. ASSUME NEW q \in Runs, NEW a \in Claims
        PROVE  attempt'[q][a].state = attempt[q][a].state
    <2>1. attempt[q][a] \in AttemptRow
      BY <1>1
    <2>2. attempt'[q][a] \in {attempt[q][a], [attempt[q][a] EXCEPT !.fence = token]}
      BY <1>1, <1>2
    <2> QED BY <2>1, <2>2 DEF AttemptRow
  <1>4. /\ turn' = turn /\ command' = command /\ run' = run /\ outbox' = outbox
        /\ terminal' = terminal /\ cancel' = cancel
    BY DEF Acquire, cancelVars
  <1> QED BY <1>3, <1>4 DEF Rests, RowsRest, StatesRest, CancelMoves, Current

\* The transactions that write a Run's rows; every other step lets them rest.
LEMMA NextRows ==
  ASSUME TypeOK, [Next]_vars
  PROVE  \/ \E r \in Runs : AcceptTurn(r)
         \/ \E w \in Workers, r \in Runs :
              \/ ClaimCommit(w, r) \/ MovesTurn(w, r)
              \/ \E phase \in ExecutingStates : ObservePhase(w, r, phase)
         \/ \E w \in Workers : FinalizeRetirement(w)
         \/ \A q \in Runs : Rests(q)
  <1>1. CASE \E w \in Workers, r \in Runs :
               \/ ClaimSelect(w, r) \/ Dispatch(w, r) \/ CancelDispatch(w, r)
               \/ Execution(w, r) \/ Fault(w, r)
    <2>1. PICK w \in Workers, r \in Runs :
               \/ ClaimSelect(w, r) \/ Dispatch(w, r) \/ CancelDispatch(w, r)
               \/ Execution(w, r) \/ Fault(w, r)
      BY <1>1
    <2>2. CASE ClaimSelect(w, r) \/ Execution(w, r) \/ Fault(w, r)
      <3>1. \/ UNCHANGED AllRows
            \/ \E phase \in ExecutingStates : ObservePhase(w, r, phase)
        BY <2>2 DEF ClaimSelect, Execution, EmitEvents, SaveCheckpoint, Fault,
           DeliveryRejected, BarrierTimesOut, CommitAborts, runVars, cancelVars,
           AllRows
      <3> QED BY <3>1, UnchangedRows
    <2>3. CASE Dispatch(w, r)
      <3>1. \/ UNCHANGED AllRows
            \/ ClaimCommit(w, r) \/ Acquire(w, r) \/ MovesTurn(w, r)
        BY <2>3 DEF Dispatch, MovesTurn, ClaimBlocked, AcquireFails,
           MarkStartedFails, ExecutionEnds, HeartbeatRevokes, CompleteFails,
           RecordFailureStale, runVars, cancelVars, AllRows
      <3> QED BY <3>1, UnchangedRows, AcquiredRows
    <2>4. CASE CancelDispatch(w, r)
      <3>1. \/ UNCHANGED AllRows \/ MovesTurn(w, r)
            \/ ClaimCancel(w, r) \/ CancelRecordFailureBeforeStart(w, r)
        BY <2>4 DEF CancelDispatch, MovesTurn, ScanCancel,
           CancelAssign, CancelMarkStartedFails, CancelExecution,
           CancelSettleFails, runVars, AllRows
      <3> QED BY <3>1, UnchangedRows, CancelWriters
    <2> QED BY <2>1, <2>2, <2>3, <2>4
  <1>2. CASE \E w \in Workers : HeartbeatFails(w) \/ WorkerCrashes(w) \/ Retire(w)
    <2>1. PICK w \in Workers : UNCHANGED AllRows \/ FinalizeRetirement(w)
      BY <1>2 DEF HeartbeatFails, WorkerCrashes, Retire, FenceSandbox,
         StopAndConfirm, LoadAssignments, RetirementFails, runVars, cancelVars,
         AllRows
    <2> QED BY <2>1, UnchangedRows
  <1>3. CASE \E r \in Runs :
               AcceptTurnCancellation(r) \/ CancelExpires(r) \/ ClaimExpires(r)
    BY <1>3, CancelWriters, ExpiredClaimRows
  <1>4. CASE \/ UNCHANGED vars
             \/ \E k \in Workspaces : ToggleWorkspace(k)
             \/ \E s \in Sessions : LeaseExpires(s) \/ ProjectEvents(s)
    <2>1. UNCHANGED AllRows
      BY <1>4 DEF vars, ToggleWorkspace, LeaseExpires, ProjectEvents, runVars,
         cancelVars, AllRows
    <2> QED BY <2>1, UnchangedRows
  <1> QED BY <1>1, <1>2, <1>3, <1>4 DEF Next

-----------------------------------------------------------------------------
(* The transactions that settle, start or return one Run.                    *)

\* Writing one Run's rows by EXCEPT.
LEMMA WriteRows ==
  ASSUME TypeOK, NEW r \in Runs, NEW t, NEW c, NEW u, NEW x, NEW k,
         turn' = [turn EXCEPT ![r] = t],
         command' = [command EXCEPT ![r] = c],
         run' = [run EXCEPT ![r] = u],
         attempt' = [attempt EXCEPT ![r][Current(r)].state = x],
         \/ outbox' = outbox
         \/ outbox' = [outbox EXCEPT ![r].available = TRUE]
         \/ outbox' = [outbox EXCEPT ![r].published = TRUE],
         \A q \in Runs : q # r => terminal'[q] = terminal[q],
         \A q \in Runs : q # r => cancel'[q] = cancel[q],
         cancel'[r].state = k
  PROVE  WritesOnly(r, t, c, u, x, k)
  <1>1. turn'[r] = t /\ command'[r] = c /\ run'[r] = u
    BY DEF TypeOK, RunTypes
  <1>2. \A q \in Runs : Current(q)' = Current(q)
    BY OutboxKeepsAttempts DEF Current
  <1>3. \A q \in Runs, a \in Claims :
          attempt'[q][a].state =
            IF q = r /\ a = Current(r) THEN x ELSE attempt[q][a].state
    <2> SUFFICES ASSUME NEW q \in Runs, NEW a \in Claims
                 PROVE  attempt'[q][a].state =
                          IF q = r /\ a = Current(r) THEN x ELSE attempt[q][a].state
      OBVIOUS
    <2>1. attempt \in [Runs -> [Claims -> AttemptRow]] /\ attempt[q][a] \in AttemptRow
      BY DEF TypeOK, RunTypes
    <2>2. attempt'[q][a] = IF q = r /\ a = Current(r)
                           THEN [attempt[q][a] EXCEPT !.state = x] ELSE attempt[q][a]
      BY <2>1
    <2> QED BY <2>1, <2>2 DEF AttemptRow
  <1>4. ASSUME NEW q \in Runs, q # r
        PROVE  Rests(q)
    <2>1. outbox'[q] = outbox[q]
      BY <1>4 DEF TypeOK, RunTypes
    <2>2. turn'[q] = turn[q] /\ command'[q] = command[q] /\ run'[q] = run[q]
      BY <1>4 DEF TypeOK, RunTypes
    <2>3. RowsRest(q)
      BY <1>2, <1>4, <2>1, <2>2 DEF RowsRest
    <2>4. StatesRest(q)
      BY <1>3, <1>4, <2>2 DEF StatesRest
    <2>5. CancelMoves(q)
      BY <1>4 DEF CancelMoves
    <2> QED BY <2>3, <2>4, <2>5 DEF Rests
  <1> QED BY <1>1, <1>2, <1>3, <1>4 DEF WritesOnly, Written

\* Whether the outbox row is published after such a write.
LEMMA OutboxWrites ==
  ASSUME TypeOK, NEW r \in Runs
  PROVE  /\ outbox' = outbox => outbox'[r].published = outbox[r].published
         /\ outbox' = [outbox EXCEPT ![r].available = TRUE]
              => outbox'[r].published = outbox[r].published
         /\ outbox' = [outbox EXCEPT ![r].published = TRUE]
              => outbox'[r].published
  <1>1. outbox \in [Runs -> OutboxRow] /\ outbox[r] \in OutboxRow
    BY DEF TypeOK, RunTypes
  <1>2. [outbox[r] EXCEPT !.available = TRUE].published = outbox[r].published
    BY <1>1 DEF OutboxRow
  <1>3. [outbox[r] EXCEPT !.published = TRUE].published
    BY <1>1 DEF OutboxRow
  <1> QED BY <1>1, <1>2, <1>3

\* What the tables allow of the states an executing Run may be in.
LEMMA ExecutingMoves ==
  ASSUME NEW u \in ExecutingStates
  PROVE  /\ Legal(RunTransitions, u, "failed")
         /\ Legal(AttemptTransitions, u, "failed")
         /\ Legal(RunTransitions, u, "cancel_requested")
         /\ Legal(AttemptTransitions, u, "cancel_requested")
         /\ Legal(RunTransitions, u, "completed") \/ u \in Lagging
         /\ Legal(AttemptTransitions, u, "completed") \/ u \in Lagging
  <1>1. CASE u = "provisioning"
    BY <1>1 DEF Legal, RunTransitions, AttemptTransitions, Lagging
  <1>2. CASE u = "restoring"
    BY <1>2 DEF Legal, RunTransitions, AttemptTransitions, Lagging
  <1>3. CASE u = "running"
    BY <1>3 DEF Legal, RunTransitions, AttemptTransitions, Lagging
  <1>4. CASE u = "checkpointing"
    BY <1>4 DEF Legal, RunTransitions, AttemptTransitions, Lagging
  <1> QED BY <1>1, <1>2, <1>3, <1>4 DEF ExecutingStates

\* What they allow of the other states of a claimed Run.
LEMMA ClaimedMoves ==
  /\ Legal(RunTransitions, "claimed", "queued")
  /\ Legal(RunTransitions, "claimed", "provisioning")
  /\ Legal(RunTransitions, "claimed", "failed")
  /\ Legal(AttemptTransitions, "claimed", "provisioning")
  /\ Legal(AttemptTransitions, "claimed", "failed")
  /\ Legal(RunTransitions, "cancel_requested", "cancelled")
  /\ Legal(RunTransitions, "cancel_requested", "failed")
  /\ Legal(AttemptTransitions, "cancel_requested", "cancelled")
  /\ Legal(AttemptTransitions, "cancel_requested", "failed")
  BY DEF Legal, RunTransitions, AttemptTransitions

LEMMA TurnMoves ==
  /\ Legal(TurnTransitions, "dispatching", "queued")
  /\ Legal(TurnTransitions, "dispatching", "running")
  /\ Legal(TurnTransitions, "dispatching", "failed")
  /\ Legal(TurnTransitions, "running", "cancelling")
  /\ Legal(TurnTransitions, "running", "completed")
  /\ Legal(TurnTransitions, "running", "failed")
  /\ Legal(TurnTransitions, "cancelling", "cancelled")
  /\ Legal(TurnTransitions, "cancelling", "failed")
  BY DEF Legal, TurnTransitions

LEMMA CommandMoves ==
  /\ Legal(CommandTransitions, "dispatched", "pending")
  /\ Legal(CommandTransitions, "dispatched", "acknowledged")
  /\ Legal(CommandTransitions, "dispatched", "failed")
  /\ Legal(CommandTransitions, "acknowledged", "completed")
  /\ Legal(CommandTransitions, "acknowledged", "failed")
  /\ \A state : Legal(CommandTransitions, state, state)
  BY DEF Legal, CommandTransitions

\* A step that writes one Run's rows, soundly and along the tables.
MovesSoundly(r) ==
  /\ RunSound(r)' /\ LegalMoves(r)
  /\ \A q \in Runs : q # r => Rests(q)

\* The rows a transaction finds, from the state of the Turn.
LEMMA RowsFound ==
  ASSUME IInv, NEW r \in Runs, RunSound(r)
  PROVE  /\ turn[r] = "dispatching" =>
              /\ command[r] = "dispatched" /\ run[r] = "claimed"
              /\ cancel[r].state # "acknowledged" /\ ~outbox[r].published
         /\ turn[r] = "running" =>
              /\ command[r] = "acknowledged" /\ run[r] \in ExecutingStates
              /\ cancel[r].state # "acknowledged" /\ outbox[r].published
         /\ turn[r] = "cancelling" =>
              /\ command[r] = "acknowledged" /\ run[r] = "cancel_requested"
              /\ cancel[r].state = "acknowledged" /\ outbox[r].published
         /\ turn[r] \in ActiveTurnStates => terminal[r] = 0
  <1>1. RowAgrees(r)
    BY DEF IInv, RowsAgree
  <1>2. OutboxFollows(r) /\ CancelFollows(r) /\ EventFollows(r)
    BY DEF RunSound
  <1> QED BY <1>1, <1>2 DEF RowAgrees, OutboxFollows, CancelFollows,
      EventFollows, TerminalRunStates, ActiveTurnStates

LEMMA MarkStartedRows ==
  ASSUME IInv, NEW w \in Workers, NEW r \in Runs, RunSound(r), MarkStarted(w, r)
  PROVE  MovesSoundly(r)
  <1>1. /\ turn[r] = "dispatching" /\ command[r] = "dispatched" /\ run[r] = "claimed"
        /\ cancel[r].state # "acknowledged" /\ terminal[r] = 0
    BY RowsFound DEF MarkStarted, Startable, ActiveTurnStates
  <1>2. outbox' = [outbox EXCEPT ![r].published = TRUE] /\ terminal' = terminal
        /\ cancel' = cancel
    BY DEF MarkStarted, cancelVars
  <1>3. WritesOnly(r, "running", "acknowledged", "provisioning", "provisioning",
                   cancel[r].state)
    BY <1>2, WriteRows DEF MarkStarted, MoveRun, IInv
  <1>4. outbox'[r].published /\ terminal'[r] = 0
    BY <1>1, <1>2, OutboxWrites DEF IInv
  <1>5. turn[r] \in ActiveTurnStates
    BY <1>1 DEF ActiveTurnStates
  <1>6. RunSound(r)'
    BY <1>1, <1>3, <1>4, <1>5, WrittenRun DEF WritesOnly, TurnStates, TerminalRunStates
  <1>7. LegalMoves(r)
    BY <1>1, <1>3, <1>5, WrittenLegally, ClaimedMoves, TurnMoves, CommandMoves
       DEF WritesOnly
  <1> QED BY <1>3, <1>6, <1>7 DEF MovesSoundly, WritesOnly

LEMMA RecordRetryRows ==
  ASSUME IInv, NEW w \in Workers, NEW r \in Runs, RunSound(r), RecordRetry(w, r)
  PROVE  MovesSoundly(r)
  <1>1. /\ turn[r] = "dispatching" /\ command[r] = "dispatched" /\ run[r] = "claimed"
        /\ cancel[r].state # "acknowledged" /\ terminal[r] = 0
        /\ ~outbox[r].published
    BY RowsFound DEF RecordRetry, Unacknowledged, ActiveTurnStates
  <1>2. outbox' = [outbox EXCEPT ![r].available = TRUE] /\ terminal' = terminal
        /\ cancel' = cancel
    BY DEF RecordRetry, cancelVars
  <1>3. WritesOnly(r, "queued", "pending", "queued", "failed", cancel[r].state)
    BY <1>2, WriteRows DEF RecordRetry, IInv
  <1>4. ~outbox'[r].published /\ terminal'[r] = 0
    BY <1>1, <1>2, OutboxWrites DEF IInv
  <1>5. turn[r] \in ActiveTurnStates
    BY <1>1 DEF ActiveTurnStates
  <1>6. RunSound(r)'
    BY <1>1, <1>3, <1>4, <1>5, WrittenRun DEF WritesOnly, TurnStates, TerminalRunStates
  <1>7. LegalMoves(r)
    BY <1>1, <1>3, <1>5, WrittenLegally, ClaimedMoves, TurnMoves, CommandMoves
       DEF WritesOnly
  <1> QED BY <1>3, <1>6, <1>7 DEF MovesSoundly, WritesOnly

\* The terminal event of a transaction that commits one.
LEMMA EventCommitted ==
  ASSUME TypeOK, NEW r \in Runs, CommitTerminalEvent(r), terminal[r] = 0
  PROVE  /\ terminal'[r] = 1
         /\ \A q \in Runs : q # r => terminal'[q] = terminal[q]
  BY DEF TypeOK, RunTypes, CommitTerminalEvent

LEMMA RecordFailureBeforeStartRows ==
  ASSUME IInv, NEW w \in Workers, NEW r \in Runs, RunSound(r),
         RecordFailureBeforeStart(w, r)
  PROVE  MovesSoundly(r)
  <1>1. /\ turn[r] = "dispatching" /\ command[r] = "dispatched" /\ run[r] = "claimed"
        /\ cancel[r].state # "acknowledged" /\ terminal[r] = 0
    BY RowsFound DEF RecordFailureBeforeStart, Unacknowledged, ActiveTurnStates
  <1>2. outbox' = [outbox EXCEPT ![r].published = TRUE] /\ cancel' = cancel
    BY DEF RecordFailureBeforeStart, cancelVars
  <1>3. terminal'[r] = 1 /\ \A q \in Runs : q # r => terminal'[q] = terminal[q]
    BY <1>1, EventCommitted DEF RecordFailureBeforeStart, IInv
  <1>4. WritesOnly(r, "failed", "failed", "failed", "failed", cancel[r].state)
    BY <1>2, <1>3, WriteRows DEF RecordFailureBeforeStart, MoveRun, IInv
  <1>5. turn[r] \in ActiveTurnStates /\ outbox'[r].published
    BY <1>1, <1>2, OutboxWrites DEF ActiveTurnStates, IInv
  <1>6. RunSound(r)'
    BY <1>1, <1>3, <1>4, <1>5, WrittenRun DEF WritesOnly, TurnStates, TerminalRunStates
  <1>7. LegalMoves(r)
    BY <1>1, <1>4, <1>5, WrittenLegally, ClaimedMoves, TurnMoves, CommandMoves
       DEF WritesOnly
  <1> QED BY <1>4, <1>6, <1>7 DEF MovesSoundly, WritesOnly

LEMMA CompleteRows ==
  ASSUME IInv, NEW w \in Workers, NEW r \in Runs, RunSound(r), Complete(w, r)
  PROVE  MovesSoundly(r)
  <1>1. /\ turn[r] = "running" /\ command[r] = "acknowledged"
        /\ run[r] \in ExecutingStates /\ outbox[r].published
        /\ cancel[r].state # "acknowledged" /\ terminal[r] = 0
    BY RowsFound DEF Complete, Completable, ActiveTurnStates
  <1>2. outbox' = outbox /\ cancel' = cancel
    BY DEF Complete, cancelVars
  <1>3. terminal'[r] = 1 /\ \A q \in Runs : q # r => terminal'[q] = terminal[q]
    BY <1>1, EventCommitted DEF Complete, IInv
  <1>4. WritesOnly(r, "completed", "completed", "completed", "completed",
                   cancel[r].state)
    BY <1>2, <1>3, WriteRows DEF Complete, MoveRun, Settle, IInv
  <1>5. turn[r] \in ActiveTurnStates /\ outbox'[r].published
    BY <1>1, <1>2 DEF ActiveTurnStates
  <1>6. RunSound(r)'
    BY <1>1, <1>3, <1>4, <1>5, WrittenRun DEF WritesOnly, TurnStates, TerminalRunStates
  <1>7. LegalMoves(r)
    BY <1>1, <1>4, <1>5, WrittenLegally, ExecutingMoves, TurnMoves, CommandMoves
       DEF WritesOnly
  <1> QED BY <1>4, <1>6, <1>7 DEF MovesSoundly, WritesOnly

LEMMA RecordFailureAfterStartRows ==
  ASSUME IInv, NEW w \in Workers, NEW r \in Runs, RunSound(r),
         RecordFailureAfterStart(w, r)
  PROVE  MovesSoundly(r)
  <1>1. /\ turn[r] = "running" /\ command[r] = "acknowledged"
        /\ run[r] \in ExecutingStates /\ outbox[r].published
        /\ cancel[r].state # "acknowledged" /\ terminal[r] = 0
    BY RowsFound DEF RecordFailureAfterStart, FailsCurrentRun, ActiveTurnStates
  <1>2. outbox' = outbox /\ cancel' = cancel
    BY DEF RecordFailureAfterStart, cancelVars
  <1>3. terminal'[r] = 1 /\ \A q \in Runs : q # r => terminal'[q] = terminal[q]
    BY <1>1, EventCommitted DEF RecordFailureAfterStart, IInv
  <1>4. WritesOnly(r, "failed", "failed", "failed", "failed", cancel[r].state)
    BY <1>2, <1>3, WriteRows DEF RecordFailureAfterStart, MoveRun, Settle, IInv
  <1>5. turn[r] \in ActiveTurnStates /\ outbox'[r].published
    BY <1>1, <1>2 DEF ActiveTurnStates
  <1>6. RunSound(r)'
    BY <1>1, <1>3, <1>4, <1>5, WrittenRun DEF WritesOnly, TurnStates, TerminalRunStates
  <1>7. LegalMoves(r)
    BY <1>1, <1>4, <1>5, WrittenLegally, ExecutingMoves, TurnMoves, CommandMoves
       DEF WritesOnly
  <1> QED BY <1>4, <1>6, <1>7 DEF MovesSoundly, WritesOnly

\* A cancellation's row after its ACK or its settlement.
LEMMA CancelWritten ==
  ASSUME TypeOK, NEW r \in Runs, NEW state,
         \/ cancel' = [cancel EXCEPT ![r].state = state, ![r].published = TRUE]
         \/ cancel' = [cancel EXCEPT ![r].state = state]
  PROVE  /\ cancel'[r].state = state
         /\ \A q \in Runs : q # r => cancel'[q] = cancel[q]
  <1>1. cancel \in [Runs -> CancelRow] /\ cancel[r] \in CancelRow
    BY DEF TypeOK, CancelTypes
  <1>2. /\ [cancel[r] EXCEPT !.state = state].state = state
        /\ [cancel[r] EXCEPT !.state = state, !.published = TRUE].state = state
    BY <1>1 DEF CancelRow
  <1>3. \/ cancel' = [cancel EXCEPT ![r] = [cancel[r] EXCEPT !.state = state]]
        \/ cancel' = [cancel EXCEPT ![r] =
             [cancel[r] EXCEPT !.state = state, !.published = TRUE]]
    BY <1>1
  <1> QED BY <1>1, <1>2, <1>3

LEMMA CancelMarkStartedRows ==
  ASSUME IInv, NEW w \in Workers, NEW r \in Runs, RunSound(r),
         CancelMarkStarted(w, r)
  PROVE  MovesSoundly(r)
  <1>1. /\ turn[r] = "running" /\ command[r] = "acknowledged"
        /\ run[r] \in ExecutingStates /\ outbox[r].published
        /\ cancel[r].state = "dispatched" /\ terminal[r] = 0
    BY RowsFound DEF CancelMarkStarted, InTime, ActiveTurnStates
  <1>2. outbox' = outbox /\ terminal' = terminal /\ command' = command
    BY DEF CancelMarkStarted
  <1>3. /\ cancel'[r].state = "acknowledged"
        /\ \A q \in Runs : q # r => cancel'[q] = cancel[q]
    BY CancelWritten DEF CancelMarkStarted, IInv
  <1>4. command' = [command EXCEPT ![r] = "acknowledged"]
    BY <1>1, <1>2 DEF IInv, TypeOK, RunTypes
  <1>5. WritesOnly(r, "cancelling", "acknowledged", "cancel_requested",
                   "cancel_requested", "acknowledged")
    BY <1>2, <1>3, <1>4, WriteRows DEF CancelMarkStarted, MoveRun, IInv
  <1>6. /\ turn[r] \in ActiveTurnStates /\ outbox'[r].published
        /\ terminal'[r] = 0
    BY <1>1, <1>2 DEF ActiveTurnStates
  <1>7. RunSound(r)'
    BY <1>1, <1>5, <1>6, WrittenRun DEF WritesOnly, TurnStates, TerminalRunStates
  <1>8. LegalMoves(r)
    BY <1>1, <1>5, <1>6, WrittenLegally, ExecutingMoves, TurnMoves, CommandMoves
       DEF WritesOnly
  <1> QED BY <1>5, <1>7, <1>8 DEF MovesSoundly, WritesOnly

LEMMA CancelCompleteRows ==
  ASSUME IInv, NEW w \in Workers, NEW r \in Runs, RunSound(r),
         CancelComplete(w, r)
  PROVE  MovesSoundly(r)
  <1>1. /\ turn[r] = "cancelling" /\ command[r] = "acknowledged"
        /\ run[r] = "cancel_requested" /\ outbox[r].published
        /\ cancel[r].state = "acknowledged" /\ terminal[r] = 0
    BY RowsFound DEF CancelComplete, CancelOwnsTurn, ActiveTurnStates
  <1>2. outbox' = outbox
    BY DEF CancelComplete
  <1>3. terminal'[r] = 1 /\ \A q \in Runs : q # r => terminal'[q] = terminal[q]
    BY <1>1, EventCommitted DEF CancelComplete, IInv
  <1>4. /\ cancel'[r].state = "completed"
        /\ \A q \in Runs : q # r => cancel'[q] = cancel[q]
    BY CancelWritten DEF CancelComplete, IInv
  <1>5. WritesOnly(r, "cancelled", "completed", "cancelled", "cancelled",
                   "completed")
    BY <1>2, <1>3, <1>4, WriteRows DEF CancelComplete, MoveRun, Settle, IInv
  <1>6. turn[r] \in ActiveTurnStates /\ outbox'[r].published
    BY <1>1, <1>2 DEF ActiveTurnStates
  <1>7. RunSound(r)'
    BY <1>1, <1>3, <1>5, <1>6, WrittenRun
       DEF WritesOnly, TurnStates, TerminalRunStates
  <1>8. LegalMoves(r)
    BY <1>1, <1>5, <1>6, WrittenLegally, ClaimedMoves, TurnMoves, CommandMoves
       DEF WritesOnly
  <1> QED BY <1>5, <1>7, <1>8 DEF MovesSoundly, WritesOnly

LEMMA CancelRecordFailureAfterStartRows ==
  ASSUME IInv, NEW w \in Workers, NEW r \in Runs, RunSound(r),
         CancelRecordFailureAfterStart(w, r)
  PROVE  MovesSoundly(r)
  <1>1. /\ turn[r] = "cancelling" /\ command[r] = "acknowledged"
        /\ run[r] = "cancel_requested" /\ outbox[r].published
        /\ cancel[r].state = "acknowledged" /\ terminal[r] = 0
    BY RowsFound DEF CancelRecordFailureAfterStart, CancelOwnsTurn,
       ActiveTurnStates
  <1>2. outbox' = outbox /\ terminal' = terminal
    BY DEF CancelRecordFailureAfterStart
  <1>3. /\ cancel'[r].state = "failed"
        /\ \A q \in Runs : q # r => cancel'[q] = cancel[q]
    BY CancelWritten DEF CancelRecordFailureAfterStart, IInv
  <1>4. WritesOnly(r, "failed", "failed", "failed", "failed", "failed")
    BY <1>2, <1>3, WriteRows
       DEF CancelRecordFailureAfterStart, MoveRun, Settle, IInv
  <1>5. /\ turn[r] \in ActiveTurnStates /\ outbox'[r].published
        /\ terminal'[r] = 0
    BY <1>1, <1>2 DEF ActiveTurnStates
  <1>6. RunSound(r)'
    BY <1>1, <1>4, <1>5, WrittenRun DEF WritesOnly, TurnStates, TerminalRunStates
  <1>7. LegalMoves(r)
    BY <1>1, <1>4, <1>5, WrittenLegally, ClaimedMoves, TurnMoves, CommandMoves
       DEF WritesOnly
  <1> QED BY <1>4, <1>6, <1>7 DEF MovesSoundly, WritesOnly

LEMMA ObservePhaseRows ==
  ASSUME IInv, NEW w \in Workers, NEW r \in Runs, RunSound(r),
         NEW phase \in ExecutingStates, ObservePhase(w, r, phase)
  PROVE  MovesSoundly(r)
  <1>1. command[r] \in {"acknowledged", "completed", "failed"}
    BY DEF ObservePhase, HoldsClaim, IInv, JobsFollowRows, JobFollowsRow
  <1>2. phase \in RunTransitions[run[r]] /\ phase \in AttemptTransitions[run[r]]
    BY DEF ObservePhase, NextPhases
  <1>3. turn[r] = "running"
    <2>1. RowAgrees(r)
      BY DEF IInv, RowsAgree
    <2>2. run[r] \notin TerminalRunStates \cup {"cancel_requested"}
      BY <1>2 DEF RunTransitions, TerminalRunStates, ExecutingStates
    <2> QED BY <1>1, <2>1, <2>2 DEF RowAgrees, TerminalRunStates
  <1>4. /\ command[r] = "acknowledged" /\ outbox[r].published
        /\ cancel[r].state # "acknowledged" /\ terminal[r] = 0
    BY <1>3, RowsFound DEF ActiveTurnStates
  <1>5. /\ turn' = turn /\ command' = command /\ outbox' = outbox
        /\ terminal' = terminal /\ cancel' = cancel
    BY DEF ObservePhase, cancelVars
  <1>6. /\ turn' = [turn EXCEPT ![r] = "running"]
        /\ command' = [command EXCEPT ![r] = "acknowledged"]
    BY <1>3, <1>4, <1>5 DEF IInv, TypeOK, RunTypes
  <1>7. WritesOnly(r, "running", "acknowledged", phase, phase, cancel[r].state)
    BY <1>5, <1>6, WriteRows DEF ObservePhase, MoveRun, IInv
  <1>8. turn[r] \in ActiveTurnStates
    BY <1>3 DEF ActiveTurnStates
  <1>9. RunSound(r)'
    BY <1>3, <1>4, <1>5, <1>7, <1>8, WrittenRun
       DEF WritesOnly, TurnStates, TerminalRunStates
  <1>10. /\ Legal(TurnTransitions, turn[r], "running")
         /\ Legal(CommandTransitions, command[r], "acknowledged")
         /\ Legal(CommandTransitions, cancel[r].state, cancel[r].state)
         /\ Legal(RunTransitions, run[r], phase)
         /\ Legal(AttemptTransitions, run[r], phase)
    BY <1>2, <1>3, <1>4 DEF Legal
  <1>11. LegalMoves(r)
    BY <1>7, <1>8, <1>10, WrittenLegally DEF WritesOnly
  <1> QED BY <1>7, <1>9, <1>11 DEF MovesSoundly, WritesOnly

LEMMA MovedRows ==
  ASSUME IInv, NEW w \in Workers, NEW r \in Runs, RunSound(r),
         \/ MovesTurn(w, r)
         \/ \E phase \in ExecutingStates : ObservePhase(w, r, phase)
  PROVE  MovesSoundly(r)
  BY MarkStartedRows, RecordRetryRows, RecordFailureBeforeStartRows,
     CompleteRows, RecordFailureAfterStartRows, CancelMarkStartedRows,
     CancelCompleteRows, CancelRecordFailureAfterStartRows, ObservePhaseRows
     DEF MovesTurn

-----------------------------------------------------------------------------
(* Acceptance, the claim and the reconciler.                                 *)

LEMMA AcceptedRows ==
  ASSUME IInv, NEW r \in Runs, RunSound(r), AcceptTurn(r)
  PROVE  MovesSoundly(r)
  <1>1. /\ turn[r] = "absent" /\ command[r] = "absent" /\ run[r] = "absent"
        /\ ~outbox[r].published /\ terminal[r] = 0
        /\ cancel[r].state # "acknowledged"
    <2>1. turn[r] = "absent" /\ RowAgrees(r)
      BY DEF AcceptTurn, IInv, RowsAgree
    <2> QED BY <2>1 DEF RowAgrees, RunSound, OutboxFollows, EventFollows,
        CancelFollows, TerminalRunStates
  <1>2. /\ turn' = [turn EXCEPT ![r] = "queued"]
        /\ command' = [command EXCEPT ![r] = "pending"]
        /\ run' = [run EXCEPT ![r] = "queued"]
        /\ outbox' = [outbox EXCEPT ![r].available = TRUE]
        /\ terminal' = terminal /\ attempt' = attempt /\ cancel' = cancel
    BY DEF AcceptTurn, cancelVars
  <1>3. /\ turn'[r] = "queued" /\ command'[r] = "pending" /\ run'[r] = "queued"
    BY <1>2 DEF IInv, TypeOK, RunTypes
  <1>4. \A q \in Runs : Current(q)' = Current(q)
    BY <1>2, OutboxKeepsAttempts DEF IInv, Current
  <1>5. ~outbox'[r].published
    BY <1>1, <1>2, OutboxWrites DEF IInv
  <1>6. RunSound(r)'
    <2>1. OutboxFollows(r)' /\ OutcomeFollows(r)' /\ CancelFollows(r)' /\ EventFollows(r)'
      BY <1>1, <1>2, <1>3, <1>5 DEF OutboxFollows, OutcomeFollows, CancelFollows,
         EventFollows, TerminalRunStates
    <2>2. AttemptFollows(r)'
      BY <1>2, <1>3, <1>4 DEF AttemptFollows, RunSound
    <2> QED BY <2>1, <2>2 DEF RunSound
  <1>7. LegalMoves(r)
    BY <1>1, <1>2, <1>3 DEF LegalMoves, Legal
  <1>8. ASSUME NEW q \in Runs, q # r
        PROVE  Rests(q)
    <2>1. /\ turn'[q] = turn[q] /\ command'[q] = command[q] /\ run'[q] = run[q]
          /\ outbox'[q] = outbox[q]
      BY <1>2, <1>8 DEF IInv, TypeOK, RunTypes
    <2> QED BY <1>2, <1>4, <2>1 DEF Rests, RowsRest, StatesRest, CancelMoves
  <1> QED BY <1>6, <1>7, <1>8 DEF MovesSoundly

\* The attempt a claim replaces is superseded from any state the table allows.
LEMMA SupersededLegally ==
  ASSUME NEW a \in AttemptRow
  PROVE  Legal(AttemptTransitions, a.state, Supersede(a).state)
  <1>1. CASE a.state \in TerminalAttemptStates \cup {"absent"}
    BY <1>1 DEF Supersede, Legal
  <1>2. CASE a.state \notin TerminalAttemptStates \cup {"absent"}
    <2>1. Supersede(a).state = "superseded"
      BY <1>2 DEF Supersede, AttemptRow
    <2>2. a.state \in {"claimed", "cancel_requested", "provisioning", "restoring",
                       "running", "checkpointing"}
      BY <1>2 DEF AttemptRow, AttemptStates, TerminalAttemptStates,
         TerminalRunStates, ExecutingStates
    <2>3. CASE a.state \in {"claimed", "cancel_requested", "provisioning"}
      BY <2>1, <2>3 DEF Legal, AttemptTransitions
    <2>4. CASE a.state \in {"restoring", "running", "checkpointing"}
      BY <2>1, <2>4 DEF Legal, AttemptTransitions
    <2> QED BY <2>2, <2>3, <2>4
  <1> QED BY <1>1, <1>2

LEMMA CommittedRows ==
  ASSUME IInv, NEW w \in Workers, NEW r \in Runs, RunSound(r), ClaimCommit(w, r)
  PROVE  MovesSoundly(r)
  <1> DEFINE next == job[w][r].attempt
  <1>1. /\ \/ turn[r] = "queued" /\ command[r] = "pending"
           \/ turn[r] = "dispatching" /\ command[r] = "dispatched"
        /\ next = Current(r) + 1
    BY DEF ClaimCommit, IInv, OpenClaimIsCurrent
  <1>2. next \in Claims /\ Current(r) \in Nat /\ next # Current(r)
    <2>1. job[w][r] \in JobRecord /\ outbox[r] \in OutboxRow
      BY DEF IInv, TypeOK, JobTypes, RunTypes
    <2>2. next \in 0 .. MaxClaims /\ Current(r) \in 0 .. MaxClaims
      BY <2>1 DEF JobRecord, OutboxRow, Current
    <2> QED BY <1>1, <2>2, BoundsAssumption DEF Claims, BoundsAssumption
  <1>3. /\ run[r] \in {"queued", "claimed"} /\ cancel[r].state # "acknowledged"
        /\ terminal[r] = 0
    <2>1. RowAgrees(r)
      BY DEF IInv, RowsAgree
    <2> QED BY <1>1, <2>1 DEF RowAgrees, RunSound, EventFollows, CancelFollows,
        TerminalRunStates
  <1>4. /\ turn' = [turn EXCEPT ![r] = "dispatching"]
        /\ command' = [command EXCEPT ![r] = "dispatched"]
        /\ run' = [run EXCEPT ![r] = "claimed"]
        /\ outbox' = [outbox EXCEPT ![r] =
             [attempts |-> next, available |-> FALSE, published |-> FALSE]]
        /\ terminal' = terminal /\ cancel' = cancel
    BY DEF ClaimCommit, cancelVars
  <1>5. attempt' = [attempt EXCEPT ![r] =
          [a \in Claims |->
             IF a = next THEN [state |-> "claimed", owner |-> w, fence |-> 0]
             ELSE IF a = Current(r) THEN Supersede(attempt[r][a])
                                    ELSE attempt[r][a]]]
    BY DEF ClaimCommit
  <1> HIDE DEF next
  <1>6. /\ turn'[r] = "dispatching" /\ command'[r] = "dispatched"
        /\ run'[r] = "claimed"
        /\ ~outbox'[r].published /\ outbox'[r].attempts = next
    BY <1>4 DEF IInv, TypeOK, RunTypes
  <1>7. /\ attempt'[r][next].state = "claimed"
        /\ \A a \in Claims : a # next =>
             attempt'[r][a] = IF a = Current(r) THEN Supersede(attempt[r][a])
                                                ELSE attempt[r][a]
    BY <1>2, <1>5 DEF IInv, TypeOK, RunTypes
  <1>8. attempt[r][next].state = "absent"
    BY <1>1, <1>2 DEF RunSound, AttemptFollows
  <1>9. RunSound(r)'
    <2>1. OutboxFollows(r)' /\ OutcomeFollows(r)' /\ CancelFollows(r)' /\ EventFollows(r)'
      BY <1>3, <1>4, <1>6 DEF OutboxFollows, OutcomeFollows, CancelFollows,
         EventFollows, TerminalRunStates
    <2>2. Current(r)' = next
      BY <1>6 DEF Current
    <2>3. \A a \in Claims : a > next => attempt'[r][a].state = "absent"
      BY <1>1, <1>2, <1>7 DEF RunSound, AttemptFollows, Claims
    <2>4. CurrentAttempt(r)'.state = "claimed"
      BY <1>7, <2>2 DEF CurrentAttempt
    <2>5. AttemptFollows(r)'
      BY <1>2, <1>6, <2>2, <2>3, <2>4 DEF AttemptFollows
    <2> QED BY <2>1, <2>5 DEF RunSound
  <1>10. LegalMoves(r)
    <2>1. Legal(TurnTransitions, turn[r], turn'[r])
      BY <1>1, <1>6 DEF Legal, TurnTransitions
    <2>2. /\ Legal(CommandTransitions, command[r], command'[r])
          /\ Legal(CommandTransitions, cancel[r].state, cancel'[r].state)
      BY <1>1, <1>4, <1>6 DEF Legal, CommandTransitions
    <2>3. Legal(RunTransitions, run[r], run'[r])
      BY <1>3, <1>6 DEF Legal, RunTransitions
    <2>4. ASSUME NEW a \in Claims
          PROVE  Legal(AttemptTransitions, attempt[r][a].state, attempt'[r][a].state)
      <3>1. CASE a = next
        BY <1>8, <3>1 DEF Legal
      <3>2. CASE a # next /\ a = Current(r)
        <4>1. attempt[r][a] \in AttemptRow
          BY DEF IInv, TypeOK, RunTypes
        <4> QED BY <1>7, <3>2, <4>1, SupersededLegally
      <3>3. CASE a # next /\ a # Current(r)
        BY <1>7, <3>3 DEF Legal
      <3> QED BY <3>1, <3>2, <3>3
    <2> QED BY <2>1, <2>2, <2>3, <2>4 DEF LegalMoves
  <1>11. ASSUME NEW q \in Runs, q # r
         PROVE  Rests(q)
    <2>1. /\ turn'[q] = turn[q] /\ command'[q] = command[q] /\ run'[q] = run[q]
          /\ outbox'[q] = outbox[q] /\ attempt'[q] = attempt[q]
      BY <1>4, <1>5, <1>11 DEF IInv, TypeOK, RunTypes
    <2> QED BY <1>4, <2>1 DEF Rests, RowsRest, StatesRest, CancelMoves, Current
  <1> QED BY <1>9, <1>10, <1>11 DEF MovesSoundly

\* The reconciler returns a Run to the mailbox, fails it, or leaves it alone.
LEMMA RetiredRows ==
  ASSUME IInv, NEW w \in Workers, FinalizeRetirement(w),
         NEW r \in Runs, RunSound(r)
  PROVE  RunSound(r)' /\ LegalMoves(r)
  <1> DEFINE requeued == RequeuedRuns(w)
             lost == LostRuns(w)
  <1>1. /\ turn'[r] = IF r \in requeued THEN "queued"
                      ELSE IF r \in lost THEN "failed" ELSE turn[r]
        /\ command'[r] = IF r \in requeued THEN "pending"
                         ELSE IF r \in lost THEN "failed" ELSE command[r]
        /\ run'[r] = IF r \in requeued THEN "queued"
                     ELSE IF r \in lost THEN "failed" ELSE run[r]
        /\ terminal'[r] = IF r \in lost THEN terminal[r] + 1 ELSE terminal[r]
    BY DEF FinalizeRetirement
  <1>2. /\ outbox'[r].attempts = outbox[r].attempts
        /\ outbox'[r].published <=> outbox[r].published \/ r \in lost
        /\ r \notin lost => outbox'[r].published = outbox[r].published
    <2>1. outbox[r] \in OutboxRow
      BY DEF IInv, TypeOK, RunTypes
    <2>2. outbox'[r] = [outbox[r] EXCEPT !.available = @ \/ r \in requeued,
                                         !.published = @ \/ r \in lost]
      BY DEF FinalizeRetirement
    <2> QED BY <2>1, <2>2 DEF OutboxRow
  <1>3. Current(r)' = Current(r)
    BY <1>2 DEF Current
  <1>4. \A a \in Claims :
          attempt'[r][a].state = IF r \in OrphanedRuns(w) /\ a = Current(r)
                                 THEN "failed" ELSE attempt[r][a].state
    <2>1. \A a \in Claims : attempt[r][a] \in AttemptRow
      BY DEF IInv, TypeOK, RunTypes
    <2>2. \A a \in Claims :
            attempt'[r][a] = IF r \in OrphanedRuns(w) /\ a = Current(r)
                             THEN [attempt[r][a] EXCEPT !.state = "failed"]
                             ELSE attempt[r][a]
      BY DEF FinalizeRetirement
    <2> QED BY <2>1, <2>2 DEF AttemptRow
  <1>5. cancel'[r].state = IF r \in lost /\ cancel[r].state \in OpenCommandStates
                           THEN "failed" ELSE cancel[r].state
    <2>1. cancel[r] \in CancelRow
      BY DEF IInv, TypeOK, CancelTypes
    <2>2. cancel'[r] = IF r \in lost /\ cancel[r].state \in OpenCommandStates
                       THEN [cancel[r] EXCEPT !.state = "failed", !.published = TRUE]
                       ELSE cancel[r]
      BY DEF FinalizeRetirement
    <2> QED BY <2>1, <2>2 DEF CancelRow
  <1>6. /\ r \in OrphanedRuns(w) <=> r \in requeued \/ r \in lost
        /\ ~(r \in requeued /\ r \in lost)
        /\ r \in requeued => turn[r] = "dispatching"
        /\ r \in lost => turn[r] \in {"running", "cancelling"}
    BY DEF RequeuedRuns, LostRuns, SafelyUnacknowledged, FinalizeRetirement,
       Reconcilable
  <1> HIDE DEF requeued, lost
  <1>7. CASE r \in requeued
    <2>1. /\ turn[r] = "dispatching" /\ command[r] = "dispatched"
          /\ run[r] = "claimed" /\ cancel[r].state # "acknowledged"
          /\ ~outbox[r].published /\ terminal[r] = 0
          /\ turn[r] \in ActiveTurnStates
      BY <1>6, <1>7, RowsFound DEF ActiveTurnStates
    <2>2. Written(r, "queued", "pending", "queued", "failed", cancel[r].state)
      BY <1>1, <1>3, <1>4, <1>5, <1>6, <1>7 DEF Written
    <2>3. ~outbox'[r].published /\ terminal'[r] = 0
      BY <1>1, <1>2, <1>6, <1>7, <2>1
    <2>4. RunSound(r)'
      BY <2>1, <2>2, <2>3, WrittenRun DEF TurnStates, TerminalRunStates
    <2>5. LegalMoves(r)
      BY <2>1, <2>2, WrittenLegally, ClaimedMoves, TurnMoves, CommandMoves
    <2> QED BY <2>4, <2>5
  <1>8. CASE r \in lost
    <2> DEFINE k == IF cancel[r].state \in OpenCommandStates
                    THEN "failed" ELSE cancel[r].state
    <2>1. /\ turn[r] \in {"running", "cancelling"} /\ command[r] = "acknowledged"
          /\ run[r] \in ExecutingStates \cup {"cancel_requested"}
          /\ outbox[r].published /\ terminal[r] = 0
          /\ turn[r] \in ActiveTurnStates
      BY <1>6, <1>8, RowsFound DEF ActiveTurnStates
    <2>2. Legal(CommandTransitions, cancel[r].state, k) /\ k # "acknowledged"
      BY DEF Legal, CommandTransitions, OpenCommandStates
    <2>3. k = cancel'[r].state
      BY <1>5, <1>8
    <2> HIDE DEF k
    <2>4. Written(r, "failed", "failed", "failed", "failed", k)
      BY <1>1, <1>3, <1>4, <1>6, <1>8, <2>3 DEF Written
    <2>5. outbox'[r].published /\ terminal'[r] = 1
      BY <1>1, <1>2, <1>8, <2>1
    <2>6. RunSound(r)'
      BY <2>1, <2>2, <2>4, <2>5, WrittenRun DEF TurnStates, TerminalRunStates
    <2>7. /\ Legal(TurnTransitions, turn[r], "failed")
          /\ Legal(RunTransitions, run[r], "failed")
          /\ Legal(AttemptTransitions, run[r], "failed")
          /\ Legal(CommandTransitions, command[r], "failed")
      BY <2>1, ClaimedMoves, ExecutingMoves, TurnMoves, CommandMoves
    <2>8. LegalMoves(r)
      BY <2>1, <2>2, <2>4, <2>7, WrittenLegally
    <2> QED BY <2>6, <2>8
  <1>9. CASE r \notin requeued /\ r \notin lost
    <2>1. Rests(r)
      BY <1>1, <1>2, <1>3, <1>4, <1>5, <1>6, <1>9
         DEF Rests, RowsRest, StatesRest, CancelMoves
    <2> QED BY <2>1, RestedRun
  <1> QED BY <1>7, <1>8, <1>9

-----------------------------------------------------------------------------
(* The invariant and the theorems.                                           *)

LEMMA RowsStep ==
  ASSUME IInv, \A r \in Runs : RunSound(r), [Next]_vars
  PROVE  \A r \in Runs : RunSound(r)' /\ LegalMoves(r)
  <1>1. CASE \E r \in Runs : MovesSoundly(r)
    <2>1. PICK r \in Runs : MovesSoundly(r)
      BY <1>1
    <2> QED BY <2>1, RestedRun DEF MovesSoundly
  <1>2. CASE \E w \in Workers : FinalizeRetirement(w)
    BY <1>2, RetiredRows
  <1>3. CASE \A q \in Runs : Rests(q)
    BY <1>3, RestedRun
  <1>4. \/ \E r \in Runs : MovesSoundly(r)
        \/ \E w \in Workers : FinalizeRetirement(w)
        \/ \A q \in Runs : Rests(q)
    BY NextRows, AcceptedRows, CommittedRows, MovedRows DEF IInv
  <1> QED BY <1>1, <1>2, <1>3, <1>4

LEMMA InitRows == Init => \A r \in Runs : RunSound(r)
  <1> SUFFICES ASSUME Init, NEW r \in Runs
               PROVE  RunSound(r)
    OBVIOUS
  <1>1. /\ turn[r] = "absent" /\ terminal[r] = 0 /\ cancel[r] = NoCancel
        /\ ~outbox[r].published /\ outbox[r].attempts = 0
        /\ \A a \in Claims : attempt[r][a] = NoAttempt
    BY DEF Init
  <1> QED BY <1>1 DEF RunSound, OutboxFollows, AttemptFollows, OutcomeFollows,
      CancelFollows, EventFollows, TerminalRunStates, NoCancel, NoAttempt

LEMMA RowsInvariance == Spec => []RowsInv
  <1>1. Init => \A r \in Runs : RunSound(r)
    BY InitRows
  <1>2. TurnInv /\ TurnInv' /\ (\A r \in Runs : RunSound(r)) /\ [Next]_vars
          => (\A r \in Runs : RunSound(r))'
    BY RowsStep DEF TurnInv
  <1> QED BY <1>1, <1>2, TurnInvariance, PTL DEF Spec, RowsInv

\* The rows of a Run, its attempt, its Session and its cancellation agree after
\* every commit, and a settled Turn has its one public terminal event unless a
\* started cancellation failed: whichever of completion, cancellation, failure
\* and retirement comes first wins whole.
THEOREM RowsAgreeThroughout == Spec => []LifecycleAgreement
  <1>1. ASSUME RowsInv, NEW r \in Runs
        PROVE  /\ turn[r] \in TurnStates /\ RowAgrees(r)
               /\ SessionFits(turn[r], session[SessionOf[r]])
               /\ OutboxFollows(r) /\ AttemptFollows(r)
               /\ OutcomeFollows(r) /\ CancelFollows(r)
    BY <1>1 DEF RowsInv, TurnInv, IInv, TypeOK, RunTypes, RowsAgree,
       SessionsFollow, RunSound
  <1>2. RowsInv => RowsOfRunAgree
    BY <1>1 DEF RowsOfRunAgree, RowAgrees, SessionFits, OutboxFollows,
       AttemptFollows, OutcomeFollows, CancelFollows, TerminalRunStates
  <1>3. RowsInv => TerminalEventAtSettlement
    BY DEF RowsInv, RunSound, EventFollows, TerminalEventAtSettlement
  <1>4. RowsInv => LifecycleAgreement
    BY <1>2, <1>3 DEF LifecycleAgreement
  <1> QED BY <1>4, RowsInvariance, PTL

\* No write of a Turn, a command, a Run or an attempt is one the transition
\* tables of domain/src/state-machines.ts forbid: the assertions in front of the
\* writes never fire, in whatever order the transactions come.
THEOREM TransitionsLegal == Spec => TransitionsAreLegal
  <1>1. RowsInv /\ [Next]_vars
          => [\A r \in Runs :
                /\ Legal(TurnTransitions, turn[r], turn'[r])
                /\ Legal(CommandTransitions, command[r], command'[r])
                /\ Legal(CommandTransitions, cancel[r].state, cancel'[r].state)
                /\ \/ Legal(RunTransitions, run[r], run'[r])
                   \/ run[r] \in Lagging /\ run'[r] = "completed"
                /\ \A a \in Claims :
                     LET from == attempt[r][a].state  to == attempt'[r][a].state IN
                     Legal(AttemptTransitions, from, to)
                       \/ (from \in Lagging /\ to = "completed")]_vars
    BY RowsStep DEF RowsInv, TurnInv, LegalMoves
  <1> QED BY <1>1, RowsInvariance, PTL DEF Spec, TransitionsAreLegal

-----------------------------------------------------------------------------
(* What is to be seen of a step.                                             *)

\* An acknowledged Run that stays so keeps its Worker, whatever expires.
LEMMA ExecutorStays ==
  ASSUME LeaseInv, [Next]_vars, NEW r \in Runs, Executing(r)' <=> Executing(r)
  PROVE  Executor(r)' = Executor(r)
  <1>1. CASE ~Executing(r)
    BY <1>1 DEF Executor
  <1>2. CASE Executing(r)
    <2>1. command[r] = "acknowledged"
      BY <1>2 DEF LeaseInv, TurnInv, IInv, RowsAgree, RowAgrees, Executing,
         TerminalRunStates
    <2>2. CurrentAttempt(r)'.owner = CurrentAttempt(r).owner
      BY <2>1, AcknowledgedStays
    <2> QED BY <1>2, <2>2 DEF Executor
  <1> QED BY <1>1, <1>2

LEMMA TurnSeen ==
  ASSUME LeaseInv, [Next]_vars, NEW r \in Runs, turn'[r] = turn[r]
  PROVE  Status(r)' = Status(r) /\ Executor(r)' = Executor(r)
  BY ExecutorStays DEF Status, Executing

\* A step that moves no message.
LEMMA Unseen ==
  ASSUME UNCHANGED <<position, head>>,
         \A r \in Runs : Status(r)' = Status(r) /\ Executor(r)' = Executor(r)
  PROVE  UNCHANGED Contract!vars
  BY DEF Contract!vars

LEMMA RestUnseen ==
  ASSUME LeaseInv, [Next]_vars, UNCHANGED <<turn, position, head>>
  PROVE  UNCHANGED Contract!vars
  BY TurnSeen, Unseen

-----------------------------------------------------------------------------
(* The steps that are to be seen.                                            *)

\* A step that moves one Turn changes what is to be seen of that Run only.
LEMMA OneSeen ==
  ASSUME LeaseInv, [Next]_vars, NEW r \in Runs,
         \A q \in Runs : q # r => turn'[q] = turn[q]
  PROVE  /\ [q \in Runs |-> Status(q)]'
              = [[q \in Runs |-> Status(q)] EXCEPT ![r] = Status(r)']
         /\ [q \in Runs |-> Executor(q)]'
              = [[q \in Runs |-> Executor(q)] EXCEPT ![r] = Executor(r)']
  BY TurnSeen

LEMMA AcceptSeen ==
  ASSUME LeaseInv, [Next]_vars, NEW r \in Runs, AcceptTurn(r)
  PROVE  Contract!Accept(r)
  <1>1. /\ turn \in [Runs -> TurnStates] /\ position \in [Runs -> Nat]
        /\ MailboxNumbered
    BY DEF LeaseInv, TurnInv, IInv, TypeOK, RunTypes, MailboxInv
  <1>2. /\ turn[r] = "absent" /\ turn' = [turn EXCEPT ![r] = "queued"]
        /\ position' = [position EXCEPT ![r] = nextPosition[SessionOf[r]]]
        /\ head' = head
    BY DEF AcceptTurn
  <1>3. turn'[r] = "queued" /\ \A q \in Runs : q # r => turn'[q] = turn[q]
    BY <1>1, <1>2
  <1>4. /\ Status(r) = "absent" /\ Status(r)' = "queued"
        /\ \A q \in Runs : q # r => Status(q)' = Status(q)
    BY <1>2, <1>3, TurnSeen DEF Status, Executing
  <1>5. \A q \in Runs : Executor(q)' = Executor(q)
    BY <1>2, <1>3, ExecutorStays DEF Executing
  <1>6. [q \in Runs |-> Status(q)]' = [[q \in Runs |-> Status(q)] EXCEPT ![r] = "queued"]
    BY <1>4
  <1>7. /\ \A q \in Runs : SessionOf[q] = SessionOf[r] => position[q] < position'[r]
        /\ position' = [position EXCEPT ![r] = position'[r]]
    BY <1>1, <1>2 DEF MailboxNumbered
  <1> QED BY <1>2, <1>4, <1>5, <1>6, <1>7 DEF Contract!Accept

LEMMA CommitUnseen ==
  ASSUME LeaseInv, [Next]_vars, NEW w \in Workers, NEW r \in Runs, ClaimCommit(w, r)
  PROVE  UNCHANGED Contract!vars
  <1>1. turn \in [Runs -> TurnStates] /\ turn[r] \in {"queued", "dispatching"}
    BY DEF LeaseInv, TurnInv, IInv, TypeOK, RunTypes, OpenClaimIsCurrent, ClaimCommit
  <1>2. /\ turn' = [turn EXCEPT ![r] = "dispatching"]
        /\ position' = position /\ head' = head
    BY DEF ClaimCommit, sessionVars
  <1>3. turn'[r] = "dispatching" /\ \A q \in Runs : q # r => turn'[q] = turn[q]
    BY <1>1, <1>2
  <1>4. Status(r)' = Status(r) /\ Executor(r)' = Executor(r)
    BY <1>1, <1>3, ExecutorStays DEF Status, Executing
  <1> QED BY <1>2, <1>3, <1>4, TurnSeen, Unseen

\* What a transaction moves: the Turn of one Run, and of the heads at most one.
LEMMA TurnMoved ==
  ASSUME LeaseInv, NEW w \in Workers, NEW r \in Runs, MovesTurn(w, r)
  PROVE  /\ position' = position
         /\ \A q \in Runs : q # r => turn'[q] = turn[q]
         /\ \/ turn[r] = "dispatching" /\ turn'[r] = "running" /\ MarkStarted(w, r)
            \/ turn[r] = "dispatching" /\ turn'[r] = "queued"
            \/ turn[r] = "dispatching" /\ turn'[r] = "failed"
            \/ turn[r] = "running" /\ turn'[r] = "cancelling"
            \/ turn[r] = "running" /\ turn'[r] = "completed" /\ Complete(w, r)
            \/ turn[r] = "running" /\ turn'[r] = "failed"
            \/ turn[r] = "cancelling" /\ turn'[r] \in {"cancelled", "failed"}
         /\ head' = head \/ Complete(w, r)
  <1>1. turn \in [Runs -> TurnStates]
    BY DEF LeaseInv, TurnInv, IInv, TypeOK, RunTypes
  <1>2. position' = position
    BY DEF MovesTurn, MarkStarted, Complete, RecordRetry,
       RecordFailureBeforeStart, RecordFailureAfterStart, CancelMarkStarted,
       CancelComplete, CancelRecordFailureAfterStart
  <1>3. head' = head \/ Complete(w, r)
    BY DEF MovesTurn, MarkStarted, RecordRetry,
       RecordFailureBeforeStart, RecordFailureAfterStart, CancelMarkStarted,
       CancelComplete, CancelRecordFailureAfterStart, AbandonStaged, sessionVars
  <1>4. \/ MarkStarted(w, r) /\ turn[r] = "dispatching"
             /\ turn' = [turn EXCEPT ![r] = "running"]
        \/ turn[r] = "dispatching" /\ turn' = [turn EXCEPT ![r] = "queued"]
        \/ turn[r] = "dispatching" /\ turn' = [turn EXCEPT ![r] = "failed"]
        \/ turn[r] = "running" /\ turn' = [turn EXCEPT ![r] = "cancelling"]
        \/ /\ turn[r] = "running" /\ Complete(w, r)
           /\ turn' = [turn EXCEPT ![r] = "completed"]
        \/ turn[r] = "running" /\ turn' = [turn EXCEPT ![r] = "failed"]
        \/ turn[r] = "cancelling" /\ turn' = [turn EXCEPT ![r] = "cancelled"]
        \/ turn[r] = "cancelling" /\ turn' = [turn EXCEPT ![r] = "failed"]
    BY DEF MovesTurn, MarkStarted, Startable, Complete, Completable, RecordRetry,
       Unacknowledged, RecordFailureBeforeStart, RecordFailureAfterStart,
       FailsCurrentRun, CancelMarkStarted, InTime, CancelComplete, CancelOwnsTurn,
       CancelRecordFailureAfterStart, Settle
  <1> QED BY <1>1, <1>2, <1>3, <1>4

\* A dispatching Run is the first unsettled one of its mailbox.
LEMMA DispatchedFirst ==
  ASSUME LeaseInv, NEW r \in Runs, turn[r] = "dispatching"
  PROVE  Contract!First(r)
  <1>1. MailboxOrder
    BY DEF LeaseInv, TurnInv, MailboxInv
  <1>2. \A q \in Runs : turn[q] \in TerminalRunStates => Status(q) \in TerminalRunStates
    BY DEF Status, Executing, TerminalRunStates
  <1> QED BY <1>1, <1>2 DEF MailboxOrder, Contract!First, Contract!Outcomes,
      TerminalRunStates

\* It is also the only active one where it works.
LEMMA DispatchedAlone ==
  ASSUME LeaseInv, NEW r \in Runs, turn[r] = "dispatching"
  PROVE  Contract!Alone(r)
  <1>1. OneActiveTurn
    BY DEF LeaseInv, TurnInv, MailboxInv
  <1>2. ASSUME NEW q \in Runs, Status(q) = "executing"
        PROVE  ~Contract!Exclude(q, r)
    <2>1. q \in ActiveTurns /\ r \in ActiveTurns /\ q # r
      <3>1. turn[q] \in TurnStates
        BY DEF LeaseInv, TurnInv, IInv, TypeOK, RunTypes
      <3>2. Executing(q)
        BY <1>2, <3>1 DEF Status, TurnStates
      <3> QED BY <3>2 DEF Executing, ActiveTurns, ActiveTurnStates
    <2> QED BY <1>1, <2>1 DEF OneActiveTurn, Contract!Exclude, InWorkspace
  <1> QED BY <1>2 DEF Contract!Alone

\* The acknowledgement gives the Run to the Worker that claimed it.
LEMMA StartSeen ==
  ASSUME LeaseInv, [Next]_vars, NEW w \in Workers, NEW r \in Runs, MarkStarted(w, r)
  PROVE  Contract!Start(r, w)
  <1>1. MovesTurn(w, r) /\ turn[r] = "dispatching" /\ turn'[r] = "running"
    <2>1. turn \in [Runs -> TurnStates]
      BY DEF LeaseInv, TurnInv, IInv, TypeOK, RunTypes
    <2> QED BY <2>1 DEF MovesTurn, MarkStarted, Startable
  <1>2. /\ position' = position /\ head' = head
        /\ \A q \in Runs : q # r => turn'[q] = turn[q]
    BY <1>1, TurnMoved DEF MarkStarted
  <1>3. Status(r) = "queued" /\ Status(r)' = "executing" /\ Executing(r)'
    BY <1>1 DEF Status, Executing
  <1>4. Executor(r)' = w
    <2>1. AttemptsKept
      BY <1>1, RowWritesKeepAttempts DEF LeaseInv, TurnInv, IInv
    <2>2. HoldsClaim(w, r) /\ CurrentAttempt(r).owner = w
      BY DEF MarkStarted, Startable, HoldsLease, HoldsFence
    <2>3. Current(r) \in Claims
      BY <2>2 DEF MarkStarted, LeaseInv, OwnerInv, ClaimsOwned, CommittedPhases,
         JobPhases, HoldsClaim
    <2>4. CurrentAttempt(r)'.owner = w
      BY <2>1, <2>2, <2>3 DEF AttemptsKept, CurrentAttempt
    <2> QED BY <1>3, <2>4 DEF Executor
  <1>5. Contract!First(r) /\ Contract!Alone(r)
    BY <1>1, DispatchedFirst, DispatchedAlone
  <1> QED BY <1>2, <1>3, <1>4, <1>5, OneSeen DEF Contract!Start

\* A claim that fails before the acknowledgement rejects the message.
LEMMA RejectSeen ==
  ASSUME LeaseInv, [Next]_vars, NEW r \in Runs,
         turn[r] = "dispatching", turn'[r] = "failed",
         \A q \in Runs : q # r => turn'[q] = turn[q],
         position' = position, head' = head
  PROVE  Contract!Reject(r)
  <1>1. Status(r) = "queued" /\ Status(r)' = "failed"
    BY DEF Status, Executing
  <1>2. ~Executing(r) /\ ~Executing(r)'
    BY DEF Executing
  <1>3. \A q \in Runs : Executor(q)' = Executor(q)
    BY <1>2, ExecutorStays, TurnSeen
  <1>4. Contract!First(r)
    BY DispatchedFirst
  <1> QED BY <1>1, <1>3, <1>4, OneSeen DEF Contract!Reject

\* What may become of the heads when a Run ends.
HeadSeen(r, outcome) ==
  \/ head' = head
  \/ /\ outcome = "completed" /\ SessionOf[r] \notin Forked
     /\ head' = [head EXCEPT ![WorkspaceOf[SessionOf[r]]] = r]

LEMMA FinishSeen ==
  ASSUME LeaseInv, [Next]_vars, NEW r \in Runs, NEW outcome \in TerminalRunStates,
         Executing(r), turn'[r] = outcome,
         \A q \in Runs : q # r => turn'[q] = turn[q],
         position' = position, HeadSeen(r, outcome)
  PROVE  Contract!Finish(r, outcome)
  <1>1. Status(r) = "executing" /\ Status(r)' = outcome /\ Executor(r)' = NoWorker
    BY DEF Status, Executing, Executor, TerminalRunStates
  <1> QED BY <1>1, OneSeen DEF Contract!Finish, HeadSeen

LEMMA StayUnseen ==
  ASSUME LeaseInv, [Next]_vars, NEW r \in Runs,
         \/ turn[r] = "dispatching" /\ turn'[r] = "queued"
         \/ turn[r] = "running" /\ turn'[r] = "cancelling",
         \A q \in Runs : q # r => turn'[q] = turn[q],
         position' = position, head' = head
  PROVE  UNCHANGED Contract!vars
  <1>1. Status(r)' = Status(r) /\ (Executing(r)' <=> Executing(r))
    BY DEF Status, Executing
  <1>2. \A q \in Runs : Status(q)' = Status(q) /\ Executor(q)' = Executor(q)
    BY <1>1, ExecutorStays, TurnSeen
  <1> QED BY <1>2, Unseen

\* Whatever a transaction moves, RunContract moves or stutters.
LEMMA MovesSeen ==
  ASSUME LeaseInv, [Next]_vars, NEW w \in Workers, NEW r \in Runs, MovesTurn(w, r)
  PROVE  [Contract!Next]_(Contract!vars)
  <1>1. position' = position /\ \A q \in Runs : q # r => turn'[q] = turn[q]
    BY TurnMoved
  <1>2. CASE MarkStarted(w, r)
    BY <1>2, StartSeen DEF Contract!Next
  <1>3. CASE /\ Complete(w, r) /\ turn[r] = "running" /\ turn'[r] = "completed"
    <2>1. HeadSeen(r, "completed")
      BY <1>3 DEF Complete, AdvanceHeads, HeadSeen
    <2>2. Contract!Finish(r, "completed")
      BY <1>1, <1>3, <2>1, FinishSeen DEF Executing, TerminalRunStates
    <2> QED BY <2>2 DEF Contract!Next, Contract!Outcomes
  <1>4. CASE ~Complete(w, r) /\ turn[r] \in {"running", "cancelling"}
             /\ turn'[r] \in TerminalRunStates
    <2>1. head' = head
      BY <1>4, TurnMoved
    <2>2. Contract!Finish(r, turn'[r])
      BY <1>1, <1>4, <2>1, FinishSeen DEF Executing, HeadSeen
    <2> QED BY <1>4, <2>2 DEF Contract!Next, Contract!Outcomes, TerminalRunStates
  <1>5. CASE ~Complete(w, r) /\ turn[r] = "dispatching" /\ turn'[r] = "failed"
    <2>1. Contract!Reject(r)
      BY <1>1, <1>5, TurnMoved, RejectSeen
    <2> QED BY <2>1 DEF Contract!Next
  <1>6. CASE ~Complete(w, r)
             /\ \/ turn[r] = "dispatching" /\ turn'[r] = "queued"
                \/ turn[r] = "running" /\ turn'[r] = "cancelling"
    BY <1>1, <1>6, TurnMoved, StayUnseen
  <1>7. Complete(w, r) => turn[r] = "running" /\ turn'[r] = "completed"
    <2>1. turn \in [Runs -> TurnStates]
      BY DEF LeaseInv, TurnInv, IInv, TypeOK, RunTypes
    <2> QED BY <2>1 DEF Complete, Completable, Settle
  <1> QED BY <1>2, <1>3, <1>4, <1>5, <1>6, <1>7, TurnMoved DEF TerminalRunStates

\* A retirement loses the acknowledged Runs of its Worker and no others; the
\* unacknowledged ones are back in their mailboxes.
LEMMA RetirementSeen ==
  ASSUME LeaseInv, [Next]_vars, NEW w \in Workers, FinalizeRetirement(w)
  PROVE  Contract!Lose(w, LostRuns(w))
  <1>1. position' = position /\ head' = head
    BY DEF FinalizeRetirement
  <1>2. \A r \in Runs :
          turn'[r] = IF r \in RequeuedRuns(w) THEN "queued"
                     ELSE IF r \in LostRuns(w) THEN "failed" ELSE turn[r]
    BY DEF FinalizeRetirement
  <1>3. \A r \in LostRuns(w) :
          /\ r \in Runs /\ r \notin RequeuedRuns(w)
          /\ Executing(r) /\ SessionOf[r] \in Orphaned(w)
    BY DEF FinalizeRetirement, Reconcilable, LostRuns, RequeuedRuns, OrphanedRuns,
       ActiveTurns, Executing
  <1>4. ASSUME NEW r \in LostRuns(w)
        PROVE  Status(r) = "executing" /\ Executor(r) = w
    <2>1. command[r] = "acknowledged"
      BY <1>3, <1>4 DEF LeaseInv, TurnInv, IInv, RowsAgree, RowAgrees, Executing,
         TerminalRunStates
    <2>2. CurrentAttempt(r).owner = w
      BY <1>3, <1>4, <2>1 DEF LeaseInv, OwnerInv, AcknowledgedHoldsLease, HoldsFence,
         Orphaned
    <2> QED BY <1>3, <1>4, <2>2 DEF Status, Executing, Executor
  <1>5. ASSUME NEW r \in Runs
        PROVE  /\ Status(r)' = IF r \in LostRuns(w) THEN "failed" ELSE Status(r)
               /\ Executor(r)' = IF r \in LostRuns(w) THEN NoWorker ELSE Executor(r)
    <2>1. CASE r \in LostRuns(w)
      <3>1. turn'[r] = "failed"
        BY <1>2, <1>3, <2>1
      <3> QED BY <2>1, <3>1 DEF Status, Executing, Executor
    <2>2. CASE r \in RequeuedRuns(w)
      <3>1. turn[r] = "dispatching" /\ turn'[r] = "queued" /\ r \notin LostRuns(w)
        BY <1>2, <2>2 DEF RequeuedRuns, SafelyUnacknowledged, LostRuns
      <3> QED BY <3>1, ExecutorStays DEF Status, Executing
    <2>3. CASE r \notin LostRuns(w) \cup RequeuedRuns(w)
      <3>1. turn'[r] = turn[r]
        BY <1>2, <2>3
      <3> QED BY <2>3, <3>1, TurnSeen
    <2> QED BY <2>1, <2>2, <2>3
  <1> QED BY <1>1, <1>3, <1>4, <1>5 DEF Contract!Lose

-----------------------------------------------------------------------------
(* Every step is one of RunContract or not to be seen.                       *)

LEMMA ContractStep ==
  ASSUME LeaseInv, [Next]_vars
  PROVE  [Contract!Next]_(Contract!vars)
  <1>1. CASE \E r \in Runs : AcceptTurn(r)
    BY <1>1, AcceptSeen DEF Contract!Next
  <1>2. CASE \E w \in Workers, r \in Runs : MovesTurn(w, r)
    BY <1>2, MovesSeen
  <1>3. CASE \E w \in Workers, r \in Runs : ClaimCommit(w, r)
    BY <1>3, CommitUnseen
  <1>4. CASE \E w \in Workers, r \in Runs : ClaimSelect(w, r)
    <2>1. UNCHANGED <<turn, position, head>>
      BY <1>4 DEF ClaimSelect, sessionVars, runVars
    <2> QED BY <2>1, RestUnseen
  <1>5. CASE \E w \in Workers : FinalizeRetirement(w)
    <2>1. PICK w \in Workers : FinalizeRetirement(w)
      BY <1>5
    <2>2. LostRuns(w) \in SUBSET Runs
      BY DEF LostRuns, OrphanedRuns, ActiveTurns
    <2> QED BY <2>1, <2>2, RetirementSeen DEF Contract!Next
  <1>6. CASE TurnsRest
    BY <1>6, RestUnseen DEF TurnsRest
  <1> QED BY <1>1, <1>2, <1>3, <1>4, <1>5, <1>6, NextKinds

LEMMA ContractInit == Init => Contract!Init
  BY DEF Init, Contract!Init, Status, Executing, Executor

\* The lifecycle of claims, leases, acknowledgements, cancellations, expiries and
\* retirements implements the life of a message: it is accepted into its mailbox,
\* started in order by one Worker with its Session and Workspace to itself, never
\* taken back once acknowledged, and settled for good (#claimNext, #markStarted,
\* #complete, #recordFailure, retireSandbox).
THEOREM RunsImplementContract == Spec => ImplementsContract
  <1>1. Init => Contract!Init
    BY ContractInit
  <1>2. LeaseInv /\ [Next]_vars => [Contract!Next]_(Contract!vars)
    BY ContractStep
  <1>3. Spec => []LeaseInv
    BY LeaseInvariance
  <1> QED BY <1>1, <1>2, <1>3, PTL DEF Spec, ImplementsContract, Contract!Spec

=============================================================================
