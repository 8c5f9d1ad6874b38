-------------------------- MODULE SubagentTreeProofs --------------------------
(***************************************************************************)
(* Proofs about SubagentTree: the budget and the shape of a tree, the      *)
(* accounting of its Workspaces, and that an execution settles once and    *)
(* truthfully, for any Runs, modes, budgets and faults.                    *)
(*                                                                         *)
(* TreeInv is inductive.  Nobody but start creates a child, and it has     *)
(* counted the tree under the root's lock; what a status call has read     *)
(* before somebody else settled the child is either true or rejected.      *)
(*                                                                         *)
(* And about SubagentChannel: a Tool call that is aborted leaves no child  *)
(* behind, and what it reports is true of the children.                    *)
(***************************************************************************)
EXTENDS SubagentTree, SubagentChannel, FiniteSetTheorems, TLAPS

Known(d) == execution[d] # "absent"

MappedStates == SettledStates \cup {"queued", "running"}

\* A Run nobody started is in no process and owns nothing.
Unknown(d) ==
  /\ d \notin Roots => run[d] = "absent"
  /\ workspace[d] = "none" /\ preparing[d] = "none" /\ polled[d] = "absent"
  /\ job[d] = "none" /\ call[d].step = "none"

\* Processes work on children whose start has committed.
ChildrenKnown ==
  /\ \A d \in Runs : Known(d) => d \notin Roots
  /\ \A d \in Runs : ~Known(d) => Unknown(d)
  /\ \A d \in admitting : d \notin Roots /\ ~Known(d)
  /\ \A d \in Runs : \A e \in relay[d] \cup call[d].children : Known(e)
  /\ \A e \in reap.children : Known(e)
  /\ reap.target \in Runs => Known(reap.target)

\* A Run state that was read and not yet written is still the Run's if it is a
\* settled one.
ReadsTrue ==
  \A d \in Runs :
    /\ polled[d] # "absent" =>
         polled[d] \in MappedStates /\ (polled[d] \in SettledStates => run[d] = polled[d])
    /\ call[d].step = "status" =>
         /\ call[d].read \in MappedStates
         /\ call[d].read \in SettledStates => run[d] = call[d].read

\* d hangs one below its parent, in its parent's tree.
Hangs(d) ==
  LET p == node[d].parent IN
  /\ p \in Runs /\ (p \in Roots \/ Known(p))
  /\ node[d].depth \in 1 .. MaximumDepth
  /\ node[p].root = node[d].root /\ node[p].depth = node[d].depth - 1

NodesHang == \A d \in Runs : Known(d) \/ d \in admitting => Hangs(d)

\* One start at a time holds a root's lock, and the tree has room for its child.
TreesCounted ==
  /\ \A r \in Runs : Cardinality(Tree(r)) <= MaximumNodes
  /\ \A d \in admitting : Cardinality(Tree(node[d].root)) < MaximumNodes
  /\ \A d, e \in admitting : node[d].root = node[e].root => d = e

TreeInv ==
  /\ TypeOK /\ ChildrenKnown /\ ReadsTrue /\ ExecutionReflectsRun
  /\ NodesHang /\ TreesCounted /\ WorkspacesAccounted

-----------------------------------------------------------------------------
(* Types.                                                                    *)

RowTypes ==
  /\ node \in [Runs -> NodeRow]
  /\ execution \in [Runs -> ExecutionStates] /\ run \in [Runs -> RunStates]
  /\ open \in [Runs -> BOOLEAN]
  /\ workspace \in [Runs -> {"none", "live", "deleted"}] /\ assigned \in Nat
  /\ request \in [Runs -> {"none", "open", "closed"}]

ProcessTypes ==
  /\ admitting \subseteq Runs
  /\ preparing \in [Runs -> {"none", "forking", "failing"}]
  /\ polled \in [Runs -> ExecutionStates]
  /\ tool \in [Runs -> {"open", "aborted", "relaying"}]
  /\ relay \in [Runs -> SUBSET Runs]
  /\ job \in [Runs -> {"none", "waiting", "seen", "cancelled"}]
  /\ call \in [Runs -> CallRecord]
  /\ reap \in [target : Runs \cup {NoRun}, children : SUBSET Runs]

LEMMA TypesWhole == TypeOK <=> RowTypes /\ ProcessTypes
  BY DEF TypeOK, RowTypes, ProcessTypes

LEMMA MappedType == \A s : MapRunState(s) \in ExecutionStates
  BY DEF MapRunState, ExecutionStates, SettledStates

LEMMA ReleaseTypes ==
  ASSUME RowTypes, NEW d \in Runs, NEW b, ReleaseWorkspace(d, b)
  PROVE  workspace' \in [Runs -> {"none", "live", "deleted"}] /\ assigned' \in Nat
  BY DEF RowTypes, ReleaseWorkspace

LEMMA WriteTypes ==
  ASSUME RowTypes, NEW d \in Runs, NEW s \in ExecutionStates, WriteStatus(d, s)
  PROVE  RowTypes'
  <1>1. execution' \in [Runs -> ExecutionStates]
    BY DEF RowTypes, WriteStatus
  <1> QED BY <1>1, ReleaseTypes DEF RowTypes, WriteStatus

LEMMA RowTypesStep ==
  ASSUME TypeOK, [Next]_vars
  PROVE  RowTypes'
  <1>0. RowTypes /\ ProcessTypes
    BY TypesWhole
  <1>1. ASSUME NEW p \in Runs, NEW d \in Runs, NEW m \in Modes, StartAdmit(p, d, m)
        PROVE  RowTypes'
    <2>1. node[p] \in NodeRow /\ m \in {"none", "shared_serialized", "isolated"}
      BY <1>0, TreeAssumption DEF RowTypes
    <2>2. [parent |-> p, root |-> node[p].root, depth |-> node[p].depth + 1,
           mode |-> m,
           workspace |-> IF m = "isolated" THEN d ELSE node[p].workspace] \in NodeRow
      BY <2>1 DEF NodeRow
    <2>3. node' \in [Runs -> NodeRow]
      BY <1>0, <1>1, <2>2 DEF StartAdmit, RowTypes
    <2> QED BY <1>0, <1>1, <2>3 DEF StartAdmit, RowTypes
  <1>2. ASSUME NEW d \in Runs, StartCommit(d)
        PROVE  RowTypes'
    BY <1>0, <1>2 DEF StartCommit, RowTypes, ExecutionStates, RunStates
  <1>3. ASSUME NEW d \in Runs, PrepareCommit(d)
        PROVE  RowTypes'
    BY <1>0, <1>3 DEF PrepareCommit, RowTypes, ExecutionStates
  <1>4. ASSUME NEW d \in Runs, SettlePreparation(d)
        PROVE  RowTypes'
    <2>1. execution' \in [Runs -> ExecutionStates] /\ run' \in [Runs -> RunStates]
      BY <1>0, <1>4 DEF SettlePreparation, RowTypes, ExecutionStates, RunStates, SettledStates
    <2> QED BY <1>0, <1>4, <2>1, ReleaseTypes DEF SettlePreparation, RowTypes
  <1>5. ASSUME NEW d \in Runs, PollWrite(d) \/ CancelReturn(d)
        PROVE  RowTypes'
    <2>1. polled[d] \in ExecutionStates /\ call[d].read \in ExecutionStates
      BY <1>0 DEF ProcessTypes, CallRecord
    <2> QED BY <1>0, <1>5, <2>1, WriteTypes DEF PollWrite, CancelReturn
  <1>6. ASSUME ReapStatus
        PROVE  RowTypes'
    BY <1>0, <1>6, WriteTypes, MappedType DEF ReapStatus
  <1>7. ASSUME NEW d \in Runs, CancelCommit(d)
        PROVE  RowTypes'
    <2>1. CancelBeforeStart(d) \/ RequestCancellation(d) \/ UNCHANGED rowVars
      BY <1>7 DEF CancelCommit
    <2> QED BY <1>0, <2>1 DEF CancelBeforeStart, RequestCancellation, rowVars, RowTypes,
            ExecutionStates, RunStates, SettledStates
  <1>8. ASSUME NEW r \in Runs, Claim(r) \/ Defer(r) \/ Advance(r) \/ RunEnds(r)
        PROVE  RowTypes'
    <2>1. \E s \in RunStates : run' = [run EXCEPT ![r] = s]
      BY <1>8 DEF Claim, Defer, Advance, NextPhase, RunEnds, SetRun, RunStates,
         ActiveStates, SettledStates, ExecutingStates
    <2>2. open' \in [Runs -> BOOLEAN]
      BY <1>0, <1>8 DEF Claim, Defer, Advance, RunEnds, RowTypes
    <2> QED BY <1>0, <1>8, <2>1, <2>2 DEF Claim, Defer, Advance, RunEnds, RowTypes
  <1>9. ASSUME NEW r \in Runs, Abort(r) \/ RunCancelled(r) \/ CancellationFails(r) \/ UserCancels(r)
        PROVE  RowTypes'
    <2>1. run' \in [Runs -> RunStates]
      BY <1>0, <1>9 DEF Abort, RunCancelled, CancellationFails, UserCancels, SetRun,
         RowTypes, RunStates, ActiveStates, SettledStates
    <2> QED BY <1>0, <1>9, <2>1
            DEF Abort, RunCancelled, CancellationFails, UserCancels, RowTypes
  <1>10. ASSUME NEW r \in Runs, Crash(r)
         PROVE  RowTypes'
    <2>1. \A d \in Runs : NewNode(d) \in NodeRow
      BY DEF NewNode, NodeRow
    <2>2. node' \in [Runs -> NodeRow]
      BY <1>0, <1>10, <2>1 DEF Crash, RowTypes
    <2> QED BY <1>0, <1>10, <2>2 DEF Crash, RowTypes, RunStates, SettledStates
  <1>11. ASSUME UNCHANGED rowVars
         PROVE  RowTypes'
    BY <1>0, <1>11 DEF rowVars, RowTypes
  <1>12. CASE \E d \in Runs : Provide(d) \/ Execute(d)
    <2>1. PICK d \in Runs : Provide(d) \/ Execute(d)
      BY <1>12
    <2>2. CASE \/ PrepareFails(d) \/ PollRead(d) \/ GiveUp(d) \/ ToolReturns(d)
               \/ CancelThrows(d) \/ RelayBegin(d) \/ RelayCancel(d)
               \/ \E y \in Runs : CancelDescend(d, y)
      BY <2>2, <1>11 DEF PrepareFails, PollRead, GiveUp, ToolReturns, CancelThrows,
         RelayBegin, RelayCancel, CancelDescend
    <2>3. CASE FailPreparation(d)
      BY <2>3, <1>4 DEF FailPreparation
    <2> QED BY <1>2, <1>3, <1>5, <1>7, <1>8, <1>9, <2>1, <2>2, <2>3 DEF Provide, Execute
  <1>13. CASE Reaper
    BY <1>4, <1>6, <1>11, <1>13 DEF Reaper, ReapBegin, ReapCancel, ReapStale
  <1> QED BY <1>1, <1>9, <1>10, <1>11, <1>12, <1>13 DEF Next, vars

LEMMA ProcessTypesStep ==
  ASSUME TypeOK, [Next]_vars
  PROVE  ProcessTypes'
  <1>0. RowTypes /\ ProcessTypes /\ \A x \in Runs : Children(x) \in SUBSET Runs
    BY TypesWhole DEF Children
  <1>1. ASSUME NEW p \in Runs, NEW d \in Runs, NEW m \in Modes, StartAdmit(p, d, m)
        PROVE  ProcessTypes'
    BY <1>0, <1>1 DEF StartAdmit, ProcessTypes
  <1>2. ASSUME NEW d \in Runs, StartCommit(d) \/ PrepareCommit(d) \/ PrepareFails(d) \/ FailPreparation(d)
        PROVE  ProcessTypes'
    BY <1>0, <1>2 DEF StartCommit, PrepareCommit, PrepareFails, FailPreparation, ProcessTypes
  <1>3. ASSUME NEW d \in Runs, PollRead(d) \/ PollWrite(d) \/ GiveUp(d) \/ ToolReturns(d)
        PROVE  ProcessTypes'
    <2>1. "absent" \in ExecutionStates
      BY DEF ExecutionStates
    <2>2. polled' \in [Runs -> ExecutionStates]
      BY <1>0, <1>3, <2>1, MappedType
         DEF PollRead, PollWrite, GiveUp, ToolReturns, ProcessTypes
    <2>3. job' \in [Runs -> {"none", "waiting", "seen", "cancelled"}]
      BY <1>0, <1>3 DEF PollRead, PollWrite, GiveUp, ToolReturns, ProcessTypes
    <2> QED BY <1>0, <1>3, <2>2, <2>3 DEF PollRead, PollWrite, GiveUp, ToolReturns, ProcessTypes
  <1>4. \A x \in Runs, b \in Runs \cup {NoRun, "reaper"} : CancelCall(x, b) \in CallRecord
    BY <1>0 DEF CancelCall, CallRecord, ExecutionStates
  <1>5. NoCall \in CallRecord
    BY DEF NoCall, CallRecord, ExecutionStates
  <1>6. ASSUME NEW x \in Runs, NEW y \in Runs, CancelDescend(x, y)
        PROVE  ProcessTypes'
    <2>1. CancelCall(y, call[x].by) \in CallRecord
      BY <1>0, <1>4 DEF ProcessTypes, CallRecord
    <2> QED BY <1>0, <1>6, <2>1 DEF CancelDescend, ProcessTypes
  <1>7. ASSUME NEW x \in Runs, CancelCommit(x)
        PROVE  ProcessTypes'
    <2>1. \/ call' = [call EXCEPT ![x].step = "status", ![x].read = MapRunState(run'[x])]
          \/ call' = [call EXCEPT ![x].step = "thrown"]
      BY <1>7 DEF CancelCommit
    <2>2. call' \in [Runs -> CallRecord]
      <3>1. call \in [Runs -> CallRecord] /\ call[x] \in CallRecord
        BY <1>0 DEF ProcessTypes
      <3>2. ASSUME NEW v \in ExecutionStates
            PROVE  [call EXCEPT ![x].step = "status", ![x].read = v] \in [Runs -> CallRecord]
        <4>1. [[call[x] EXCEPT !.step = "status"] EXCEPT !.read = v] \in CallRecord
          BY <3>1 DEF CallRecord
        <4>2. [call EXCEPT ![x].step = "status", ![x].read = v]
                = [call EXCEPT ![x] = [[call[x] EXCEPT !.step = "status"] EXCEPT !.read = v]]
          BY <3>1
        <4> QED BY <3>1, <4>1, <4>2
      <3>3. [call EXCEPT ![x].step = "thrown"] \in [Runs -> CallRecord]
        BY <3>1 DEF CallRecord
      <3> QED BY ZenonT(60), <2>1, <3>2, <3>3, MappedType
    <2> QED BY <1>0, <1>7, <2>2 DEF CancelCommit, ProcessTypes
  <1>8. ASSUME NEW x \in Runs, CancelReturn(x)
        PROVE  ProcessTypes'
    <2>1. \A z \in Runs : [call[z] EXCEPT !.children = @ \ {x}] \in CallRecord
      BY <1>0 DEF ProcessTypes, CallRecord
    <2>2. call' \in [Runs -> CallRecord]
      <3>1. CASE call' = [call EXCEPT ![x].step = "thrown"]
        BY <1>0, <3>1 DEF ProcessTypes, CallRecord
      <3>2. CASE call' = [z \in Runs |->
                     IF z = x THEN NoCall
                     ELSE IF Calls(z, x)
                     THEN [call[z] EXCEPT !.children = @ \ {x}]
                     ELSE call[z]]
        BY <1>0, <1>5, <2>1, <3>2 DEF ProcessTypes
      <3> QED BY <1>8, <3>1, <3>2 DEF CancelReturn
    <2>3. job' \in [Runs -> {"none", "waiting", "seen", "cancelled"}]
      BY <1>0, <1>8 DEF CancelReturn, ProcessTypes
    <2> QED BY <1>0, <1>8, <2>2, <2>3 DEF CancelReturn, ProcessTypes
  <1>9. ASSUME NEW x \in Runs, CancelThrows(x)
        PROVE  ProcessTypes'
    <2>1. \A z \in Runs : [call[z] EXCEPT !.step = "thrown"] \in CallRecord
      BY <1>0 DEF ProcessTypes, CallRecord
    <2>2. call' \in [Runs -> CallRecord]
      BY <1>0, <1>5, <1>9, <2>1 DEF CancelThrows, ProcessTypes
    <2>3. reap' \in [target : Runs \cup {NoRun}, children : SUBSET Runs]
      BY <1>0, <1>9 DEF CancelThrows, ProcessTypes, NoReap
    <2> QED BY <1>0, <1>9, <2>2, <2>3 DEF CancelThrows, ProcessTypes
  <1>10. ASSUME NEW p \in Runs, RelayBegin(p) \/ Abort(p)
         PROVE  ProcessTypes'
    <2>1. relay' \in [Runs -> SUBSET Runs]
      BY <1>0, <1>10 DEF RelayBegin, Abort, Uncancelled, ProcessTypes
    <2> QED BY <1>0, <1>10, <2>1 DEF RelayBegin, Abort, ProcessTypes
  <1>11. ASSUME NEW d \in Runs, RelayCancel(d)
         PROVE  ProcessTypes'
    <2>1. /\ call' = [call EXCEPT ![d] = CancelCall(d, node[d].parent)]
          /\ relay' = [relay EXCEPT ![node[d].parent] = @ \ {d}]
          /\ node[d].parent \in Runs
      BY <1>11 DEF RelayCancel
    <2>2. call' \in [Runs -> CallRecord] /\ relay' \in [Runs -> SUBSET Runs]
      BY <1>0, <1>4, <2>1 DEF ProcessTypes
    <2> QED BY <1>0, <1>11, <2>2 DEF RelayCancel, ProcessTypes
  <1>12. ASSUME NEW d \in Runs, ReapBegin(d) \/ ReapCancel(d)
         PROVE  ProcessTypes'
    <2>1. call' \in [Runs -> CallRecord]
      BY <1>0, <1>4, <1>12 DEF ReapBegin, ReapCancel, ProcessTypes
    <2>2. reap' \in [target : Runs \cup {NoRun}, children : SUBSET Runs]
      BY <1>0, <1>12 DEF ReapBegin, ReapCancel, ProcessTypes
    <2> QED BY <1>0, <1>12, <2>1, <2>2 DEF ReapBegin, ReapCancel, ProcessTypes
  <1>13. ASSUME ReapStatus
         PROVE  ProcessTypes'
    BY <1>0, <1>13 DEF ReapStatus, NoReap, ProcessTypes
  <1>14. ASSUME NEW r \in Runs, Crash(r)
         PROVE  ProcessTypes'
    <2>1. call' \in [Runs -> CallRecord]
      BY <1>0, <1>5, <1>14 DEF Crash, ProcessTypes
    <2>2. polled' \in [Runs -> ExecutionStates]
      BY <1>0, <1>14 DEF Crash, ProcessTypes, ExecutionStates
    <2> QED BY <1>0, <1>14, <2>1, <2>2 DEF Crash, ProcessTypes
  <1>15. ASSUME UNCHANGED processVars
         PROVE  ProcessTypes'
    BY <1>0, <1>15 DEF processVars, ProcessTypes
  <1>16. CASE \E d \in Runs : Provide(d) \/ Execute(d)
    <2>1. PICK d \in Runs : Provide(d) \/ Execute(d)
      BY <1>16
    <2>2. CASE Execute(d)
      BY <2>2, <1>10, <1>15 DEF Execute, Claim, Defer, Advance, RunEnds, RunCancelled,
         CancellationFails
    <2>3. CASE Provide(d)
      BY <2>3, <1>2, <1>3, <1>6, <1>7, <1>8, <1>9, <1>10, <1>11 DEF Provide
    <2> QED BY <2>1, <2>2, <2>3
  <1>17. CASE Reaper
    BY <1>12, <1>13, <1>15, <1>17 DEF Reaper, ReapStale
  <1>18. CASE \E d \in Runs : UserCancels(d) \/ Crash(d)
    BY <1>14, <1>15, <1>18 DEF UserCancels
  <1> QED BY <1>1, <1>15, <1>16, <1>17, <1>18 DEF Next, vars

LEMMA TypeStep ==
  ASSUME TypeOK, [Next]_vars
  PROVE  TypeOK'
  BY RowTypesStep, ProcessTypesStep DEF TypeOK, RowTypes, ProcessTypes

-----------------------------------------------------------------------------
(* Who writes the rows of a Run.                                             *)

RowsRest == UNCHANGED <<execution, run, open, workspace, assigned>>

\* The transactions of the provider and the reaper.
Settles(d) ==
  \/ PrepareCommit(d) \/ FailPreparation(d) \/ ReapStale(d)
  \/ PollWrite(d) \/ CancelCommit(d) \/ CancelReturn(d)

\* The transactions of the lifecycle.
Lives(r) ==
  Claim(r) \/ Defer(r) \/ Advance(r) \/ RunEnds(r) \/ Abort(r) \/ RunCancelled(r)
    \/ Crash(r)

LEMMA RowKinds ==
  ASSUME [Next]_vars
  PROVE  \/ RowsRest \/ ReapStatus
         \/ \E d \in Runs : StartCommit(d) \/ Settles(d) \/ Lives(d)
  <1>1. CASE \E p, d \in Runs, m \in Modes : StartAdmit(p, d, m)
    BY <1>1 DEF StartAdmit, RowsRest
  <1>2. CASE \E d \in Runs : Provide(d) \/ Execute(d)
    <2>1. PICK d \in Runs : Provide(d) \/ Execute(d)
      BY <1>2
    <2>2. CASE \/ PrepareFails(d) \/ PollRead(d) \/ GiveUp(d) \/ ToolReturns(d)
               \/ CancelThrows(d) \/ RelayBegin(d) \/ RelayCancel(d)
               \/ \E y \in Runs : CancelDescend(d, y)
      BY <2>2 DEF PrepareFails, PollRead, GiveUp, ToolReturns, CancelThrows,
         RelayBegin, RelayCancel, CancelDescend, RowsRest, rowVars
    <2>3. CASE CancellationFails(d)
      BY <2>3 DEF CancellationFails, RowsRest
    <2> QED BY <2>1, <2>2, <2>3 DEF Provide, Execute, Settles, Lives
  <1>3. CASE \E d \in Runs : UserCancels(d) \/ Crash(d)
    BY <1>3 DEF UserCancels, RowsRest, Lives
  <1>4. CASE Reaper
    BY <1>4 DEF Reaper, ReapBegin, ReapCancel, Settles, RowsRest, rowVars
  <1>5. CASE UNCHANGED vars
    BY <1>5 DEF vars, rowVars, RowsRest
  <1> QED BY <1>1, <1>2, <1>3, <1>4, <1>5 DEF Next

-----------------------------------------------------------------------------
(* What may become of the rows of one Run.                                   *)

RowStays(d) ==
  /\ execution'[d] = execution[d] /\ run'[d] = run[d]
  /\ open'[d] = open[d] /\ workspace'[d] = workspace[d]

\* start creates them.
RowBegins(d) ==
  /\ d \in admitting \ admitting' /\ run'[d] = "queued"
  /\ \/ execution'[d] = "queued" /\ workspace'[d] = "none"
     \/ execution'[d] = "preparing" /\ workspace'[d] = "live" /\ open'[d] = FALSE

\* The fork succeeded.
RowReady(d) ==
  /\ execution[d] = "preparing" /\ execution'[d] = "queued"
  /\ run'[d] = run[d] /\ workspace'[d] = workspace[d]

\* It is settled before it started, as failed or cancelled.
RowDropped(d) ==
  /\ Known(d) /\ execution[d] \notin SettledStates /\ run[d] = "queued"
  /\ execution'[d] = run'[d] /\ run'[d] \in SettledStates
  /\ workspace'[d] \in {workspace[d], "deleted"}
  /\ workspace[d] = "none" => workspace'[d] = "none"

\* A status call writes what it has read, or fails.
RowPolled(d) ==
  /\ Known(d) /\ run'[d] = run[d] /\ open'[d] = open[d]
  /\ \/ execution'[d] = execution[d]
     \/ /\ execution[d] \notin SettledStates
        /\ execution'[d] \in {"queued", "running"} \cup (SettledStates \cap {run[d]})
  /\ \/ workspace'[d] = workspace[d]
     \/ workspace[d] = "live" /\ workspace'[d] = "deleted" /\ Settled(d)

\* The Run lives on.
RowLives(d) ==
  /\ run[d] \in RunStates \ ({"absent"} \cup SettledStates)
  /\ run'[d] \in RunStates \ {"absent"}
  /\ execution[d] # "preparing"
  /\ execution'[d] = execution[d] /\ workspace'[d] = workspace[d]

RowGoesOn(d) ==
  RowStays(d) \/ RowReady(d) \/ RowDropped(d) \/ RowPolled(d) \/ RowLives(d)

RowMoves(d) == RowBegins(d) \/ RowGoesOn(d)

\* Only the Run of the transaction is written.
LEMMA PollMoves ==
  ASSUME TreeInv, NEW d \in Runs, NEW s \in MappedStates, WriteStatus(d, s),
         s \in SettledStates => run[d] = s, Known(d)
  PROVE  \A e \in Runs : RowGoesOn(e)
  <1>1. /\ execution \in [Runs -> ExecutionStates] /\ workspace \in [Runs -> {"none", "live", "deleted"}]
    BY DEF TreeInv, TypeOK
  <1>2. run' = run /\ open' = open
    BY DEF WriteStatus
  <1>3. ASSUME NEW e \in Runs, e # d
        PROVE  RowStays(e)
    BY <1>1, <1>2, <1>3 DEF WriteStatus, ReleaseWorkspace, RowStays
  <1>4. \/ execution'[d] = execution[d]
        \/ execution[d] \notin SettledStates /\ execution'[d] = s
    <2>1. \/ execution' = execution
          \/ /\ ~Rejected(d, s) /\ execution' = [execution EXCEPT ![d] = s]
      BY DEF WriteStatus
    <2>2. CASE execution[d] \in SettledStates /\ s \in SettledStates
      <3>1. execution[d] = s
        BY <2>2 DEF TreeInv, ExecutionReflectsRun
      <3> QED BY <2>1, <3>1, <1>1
    <2> QED BY <2>1, <2>2, <1>1 DEF Rejected
  <1>5. \/ workspace'[d] = workspace[d]
        \/ /\ s \in SettledStates
           /\ workspace[d] = "live" /\ workspace'[d] = "deleted"
    BY <1>1 DEF WriteStatus, ReleaseWorkspace
  <1>6. RowPolled(d)
    BY <1>2, <1>4, <1>5 DEF RowPolled, MappedStates, SettledStates, Settled
  <1> QED BY <1>3, <1>6 DEF RowGoesOn

LEMMA PreparationMoves ==
  ASSUME TreeInv, NEW d \in Runs, SettlePreparation(d)
  PROVE  \A e \in Runs : RowGoesOn(e)
  <1>1. /\ execution \in [Runs -> ExecutionStates] /\ run \in [Runs -> RunStates]
        /\ workspace \in [Runs -> {"none", "live", "deleted"}]
    BY DEF TreeInv, TypeOK
  <1>2. CASE ~StillPreparing(d)
    BY <1>2 DEF SettlePreparation, ReleaseWorkspace, RowGoesOn, RowStays
  <1>3. CASE StillPreparing(d)
    <2>1. /\ execution' = [execution EXCEPT ![d] = "failed"]
          /\ run' = [run EXCEPT ![d] = "failed"]
          /\ open' = open
          /\ \/ workspace' = [workspace EXCEPT ![d] = "deleted"] /\ workspace[d] = "live"
             \/ workspace' = workspace
      BY <1>3 DEF SettlePreparation, ReleaseWorkspace
    <2>2. \A e \in Runs : e # d => RowStays(e)
      BY <2>1, <1>1 DEF RowStays
    <2>3. execution[d] = "preparing" /\ run[d] = "queued"
      BY <1>3 DEF StillPreparing, TreeInv, ExecutionReflectsRun
    <2>4. execution'[d] = "failed" /\ run'[d] = "failed"
      BY <2>1, <1>1
    <2>5. /\ workspace'[d] \in {workspace[d], "deleted"}
          /\ workspace[d] = "none" => workspace'[d] = "none"
      BY <2>1, <1>1
    <2>6. RowDropped(d)
      BY <2>3, <2>4, <2>5 DEF RowDropped, Known, SettledStates
    <2> QED BY <2>2, <2>6 DEF RowGoesOn
  <1> QED BY <1>2, <1>3

LEMMA SettlesMoves ==
  ASSUME TreeInv, NEW d \in Runs, Settles(d)
  PROVE  \A e \in Runs : RowGoesOn(e)
  <1>1. /\ execution \in [Runs -> ExecutionStates] /\ run \in [Runs -> RunStates]
        /\ open \in [Runs -> BOOLEAN]
        /\ workspace \in [Runs -> {"none", "live", "deleted"}]
    BY DEF TreeInv, TypeOK
  <1>2. CASE PrepareCommit(d)
    <2>1. /\ run' = run /\ workspace' = workspace
          /\ \/ /\ execution[d] = "preparing"
                /\ execution' = [execution EXCEPT ![d] = "queued"]
                /\ open' = [open EXCEPT ![d] = TRUE]
             \/ execution' = execution /\ open' = open
      BY <1>2 DEF PrepareCommit, StillPreparing
    <2> QED BY <1>1, <2>1 DEF RowGoesOn, RowStays, RowReady
  <1>3. CASE FailPreparation(d) \/ ReapStale(d)
    BY <1>3, PreparationMoves DEF FailPreparation, ReapStale
  <1>4. CASE PollWrite(d)
    <2>1. /\ polled[d] \in MappedStates /\ Known(d)
          /\ polled[d] \in SettledStates => run[d] = polled[d]
      BY <1>4 DEF PollWrite, TreeInv, ReadsTrue, ChildrenKnown, Unknown
    <2> QED BY <1>4, <2>1, PollMoves DEF PollWrite
  <1>5. CASE CancelReturn(d)
    <2>1. /\ call[d].read \in MappedStates /\ Known(d)
          /\ call[d].read \in SettledStates => run[d] = call[d].read
      BY <1>5 DEF CancelReturn, TreeInv, ReadsTrue, ChildrenKnown, Unknown
    <2> QED BY <1>5, <2>1, PollMoves DEF CancelReturn
  <1>6. CASE CancelCommit(d)
    <2>1. CASE UNCHANGED rowVars \/ RequestCancellation(d)
      BY <2>1 DEF rowVars, RequestCancellation, RowGoesOn, RowStays
    <2>2. CASE execution[d] \notin SettledStates /\ CancelBeforeStart(d)
      <3>1. Known(d) /\ run[d] = "queued"
        <4>1. call[d].step = "children"
          BY <1>6 DEF CancelCommit
        <4> QED BY <2>2, <4>1 DEF CancelBeforeStart, TreeInv, ChildrenKnown, Unknown,
                ExecutionReflectsRun
      <3>2. \A e \in Runs : e # d => RowStays(e)
        BY <2>2, <1>1 DEF CancelBeforeStart, RowStays
      <3>3. RowDropped(d)
        BY <2>2, <3>1, <1>1 DEF CancelBeforeStart, RowDropped, SettledStates
      <3> QED BY <3>2, <3>3 DEF RowGoesOn
    <2> QED BY <1>6, <2>1, <2>2 DEF CancelCommit
  <1> QED BY <1>2, <1>3, <1>4, <1>5, <1>6 DEF Settles

LEMMA LivesMoves ==
  ASSUME TreeInv, NEW r \in Runs, Lives(r)
  PROVE  \A e \in Runs : RowGoesOn(e)
  <1>1. /\ run \in [Runs -> RunStates] /\ open \in [Runs -> BOOLEAN]
    BY DEF TreeInv, TypeOK
  <1>2. execution' = execution /\ workspace' = workspace
    BY DEF Lives, Claim, Defer, Advance, RunEnds, Abort, RunCancelled, Crash
  <1>3. \/ run[r] \in ActiveStates
        \/ run[r] = "queued" /\ open[r]
    BY DEF Lives, Claim, Claimable, Defer, Advance, NextPhase, RunEnds, Abort,
       RunCancelled, Crash, ActiveStates, ExecutingStates
  <1>4. \E s \in RunStates \ {"absent"} : run' = [run EXCEPT ![r] = s]
    BY DEF Lives, Claim, Defer, Advance, NextPhase, RunEnds, Abort,
       RunCancelled, Crash, SetRun, RunStates, ActiveStates, SettledStates, ExecutingStates
  <1>5. \A e \in Runs : e # r => open'[e] = open[e]
    BY <1>1 DEF Lives, Claim, Defer, Advance, RunEnds, Abort, RunCancelled, Crash
  <1>6. \A e \in Runs : e # r => RowStays(e)
    BY <1>1, <1>2, <1>4, <1>5 DEF RowStays
  <1>7. execution[r] # "preparing"
    BY <1>3 DEF TreeInv, ExecutionReflectsRun, ActiveStates, ExecutingStates
  <1>8. RowLives(r)
    BY <1>1, <1>2, <1>3, <1>4, <1>7
       DEF RowLives, RunStates, ActiveStates, ExecutingStates, SettledStates
  <1> QED BY <1>6, <1>8 DEF RowGoesOn

LEMMA RowsGoOn ==
  ASSUME TreeInv, [Next]_vars, ~\E d \in Runs : StartCommit(d)
  PROVE  \A e \in Runs : RowGoesOn(e)
  <1>1. CASE RowsRest
    BY <1>1 DEF RowsRest, RowGoesOn, RowStays
  <1>2. CASE ReapStatus
    <2>1. reap.target \in Runs /\ Known(reap.target)
      BY <1>2 DEF ReapStatus, TreeInv, ChildrenKnown
    <2>2. /\ MapRunState(run[reap.target]) \in MappedStates
          /\ MapRunState(run[reap.target]) \in SettledStates =>
               run[reap.target] = MapRunState(run[reap.target])
      BY DEF MapRunState, MappedStates, SettledStates
    <2> QED BY <1>2, <2>1, <2>2, PollMoves DEF ReapStatus
  <1> QED BY <1>1, <1>2, RowKinds, SettlesMoves, LivesMoves

LEMMA NextRows ==
  ASSUME TreeInv, [Next]_vars
  PROVE  \A e \in Runs : RowMoves(e)
  <1>1. CASE \E d \in Runs : StartCommit(d)
    <2>1. PICK d \in Runs : StartCommit(d)
      BY <1>1
    <2>2. /\ execution \in [Runs -> ExecutionStates] /\ run \in [Runs -> RunStates]
          /\ open \in [Runs -> BOOLEAN]
          /\ workspace \in [Runs -> {"none", "live", "deleted"}]
      BY DEF TreeInv, TypeOK
    <2>3. \A e \in Runs : e # d => RowStays(e)
      BY <2>1, <2>2 DEF StartCommit, RowStays
    <2>4. RowBegins(d)
      BY <2>1, <2>2 DEF StartCommit, RowBegins
    <2> QED BY <2>3, <2>4 DEF RowMoves, RowGoesOn
  <1>2. CASE ~\E d \in Runs : StartCommit(d)
    BY <1>2, RowsGoOn DEF RowMoves
  <1> QED BY <1>1, <1>2

\* What the rows of a Run keep through any step.
LEMMA KnownStays ==
  ASSUME TreeInv, [Next]_vars, NEW d \in Runs
  PROVE  /\ Known(d) => Known(d)'
         /\ ~Known(d) /\ Known(d)' => d \in admitting \ admitting'
         /\ Settled(d) => run'[d] = run[d]
  <1>1. RowMoves(d)
    BY NextRows
  <1>2. d \in admitting => run[d] = "absent" /\ ~Known(d)
    BY DEF TreeInv, ChildrenKnown, Unknown
  <1> QED BY <1>1, <1>2
          DEF RowMoves, RowGoesOn, RowStays, RowBegins, RowReady, RowDropped, RowPolled, RowLives,
              Known, Settled, SettledStates

LEMMA ReflectsStep ==
  ASSUME TreeInv, [Next]_vars
  PROVE  ExecutionReflectsRun'
  <1> SUFFICES ASSUME NEW d \in Runs
               PROVE  /\ execution'[d] \in SettledStates => execution'[d] = run'[d]
                      /\ execution'[d] = "preparing" => run'[d] = "queued" /\ ~open'[d]
    BY DEF ExecutionReflectsRun
  <1>1. RowMoves(d)
    BY NextRows
  <1>2. /\ execution[d] \in SettledStates => execution[d] = run[d]
        /\ execution[d] = "preparing" => run[d] = "queued" /\ ~open[d]
    BY DEF TreeInv, ExecutionReflectsRun
  <1> QED BY <1>1, <1>2
          DEF RowMoves, RowGoesOn, RowStays, RowBegins, RowReady, RowDropped, RowPolled, RowLives,
              SettledStates

\* No status call, cancellation or reaper writes over a settlement.
LEMMA FinalStep ==
  ASSUME TreeInv, [Next]_vars, NEW d \in Runs, execution[d] \in SettledStates
  PROVE  execution'[d] = execution[d] /\ run'[d] = run[d]
  <1>1. RowMoves(d)
    BY NextRows
  <1>2. execution[d] = run[d] /\ d \notin admitting
    BY DEF TreeInv, ExecutionReflectsRun, ChildrenKnown, Known, SettledStates
  <1> QED BY <1>1, <1>2
          DEF RowMoves, RowGoesOn, RowStays, RowBegins, RowReady, RowDropped, RowPolled, RowLives,
              SettledStates

-----------------------------------------------------------------------------
(* Reads that are not yet written.                                           *)

\* A read is new and true, or the old one.
LEMMA NextReads ==
  ASSUME TreeInv, [Next]_vars, NEW d \in Runs
  PROVE  /\ polled'[d] \in {"absent", polled[d], MapRunState(run'[d])}
         /\ call'[d].step = "status" =>
              \/ call[d].step = "status" /\ call'[d].read = call[d].read
              \/ call'[d].read = MapRunState(run'[d])
  <1>0. polled \in [Runs -> ExecutionStates] /\ call \in [Runs -> CallRecord]
    BY DEF TreeInv, TypeOK
  <1>1. \/ polled' = polled
        \/ \E e \in Runs : polled' = [polled EXCEPT ![e] = "absent"]
        \/ \E e \in Runs : PollRead(e)
        \/ \E r \in Runs : Crash(r)
    BY DEF Next, vars, rowVars, processVars, Provide, Execute, Reaper, StartAdmit,
       StartCommit, PrepareCommit, PrepareFails, FailPreparation, ReapStale,
       PollWrite, GiveUp, ToolReturns, CancelDescend, CancelCommit, CancelReturn,
       CancelThrows, RelayBegin, RelayCancel, ReapBegin, ReapCancel, ReapStatus,
       Claim, Defer, Advance, RunEnds, UserCancels, Abort, RunCancelled,
       CancellationFails
  <1>2. polled'[d] \in {"absent", polled[d], MapRunState(run'[d])}
    <2>1. ASSUME NEW e \in Runs, PollRead(e)
          PROVE  polled'[d] \in {polled[d], MapRunState(run'[d])}
      BY <1>0, <2>1 DEF PollRead, rowVars, MapRunState
    <2>2. ASSUME NEW r \in Runs, Crash(r)
          PROVE  polled'[d] \in {"absent", polled[d]}
      BY <2>2 DEF Crash
    <2> QED BY <1>0, <1>1, <2>1, <2>2
  <1>3. \/ call' = call
        \/ \E e \in Runs : CancelCommit(e) \/ CancelReturn(e) \/ CancelThrows(e)
        \/ \E e \in Runs : RelayCancel(e) \/ ReapCancel(e)
        \/ \E e, y \in Runs : CancelDescend(e, y)
        \/ \E r \in Runs : Crash(r)
    BY DEF Next, vars, rowVars, processVars, Provide, Execute, Reaper, StartAdmit,
       StartCommit, PrepareCommit, PrepareFails, FailPreparation, ReapStale,
       PollRead, PollWrite, GiveUp, ToolReturns,
       RelayBegin, ReapBegin, ReapStatus,
       Claim, Defer, Advance, RunEnds, UserCancels, Abort, RunCancelled,
       CancellationFails
  <1>4. call'[d].step = "status" =>
          \/ call[d].step = "status" /\ call'[d].read = call[d].read
          \/ call'[d].read = MapRunState(run'[d])
    <2>1. ASSUME NEW e \in Runs, RelayCancel(e) \/ ReapCancel(e) \/ \E y \in Runs : CancelDescend(y, e)
          PROVE  call'[d] = call[d] \/ call'[d].step = "children"
      BY <1>0, <2>1 DEF RelayCancel, ReapCancel, CancelDescend, CancelCall
    <2>2. ASSUME NEW e \in Runs, CancelReturn(e) \/ CancelThrows(e)
          PROVE  call'[d].step = "status" =>
                   call[d].step = "status" /\ call'[d].read = call[d].read
      BY <1>0, <2>2 DEF CancelReturn, CancelThrows, NoCall, CallRecord
    <2>3. ASSUME NEW e \in Runs, CancelCommit(e)
          PROVE  \/ call'[d] = call[d] \/ call'[d].step = "thrown"
                 \/ call'[d].read = MapRunState(run'[d])
      <3>1. \/ call' = [call EXCEPT ![e].step = "status", ![e].read = MapRunState(run'[e])]
            \/ call' = [call EXCEPT ![e].step = "thrown"]
        BY <2>3 DEF CancelCommit
      <3> QED BY <1>0, <3>1 DEF CallRecord
    <2>4. ASSUME NEW r \in Runs, Crash(r)
          PROVE  call'[d] = call[d] \/ call'[d].step = "none"
      BY <2>4 DEF Crash, NoCall
    <2> QED BY <1>3, <2>1, <2>2, <2>3, <2>4
  <1> QED BY <1>2, <1>4

LEMMA ReadsStep ==
  ASSUME TreeInv, [Next]_vars
  PROVE  ReadsTrue'
  <1> SUFFICES ASSUME NEW d \in Runs
               PROVE  /\ polled'[d] # "absent" =>
                           /\ polled'[d] \in MappedStates
                           /\ polled'[d] \in SettledStates => run'[d] = polled'[d]
                      /\ call'[d].step = "status" =>
                           /\ call'[d].read \in MappedStates
                           /\ call'[d].read \in SettledStates => run'[d] = call'[d].read
    BY DEF ReadsTrue
  <1>1. /\ MapRunState(run'[d]) \in MappedStates
        /\ MapRunState(run'[d]) \in SettledStates => run'[d] = MapRunState(run'[d])
    BY DEF MapRunState, MappedStates, SettledStates
  <1>2. run[d] \in SettledStates => run'[d] = run[d]
    BY KnownStays DEF Settled
  <1> QED BY <1>1, <1>2, NextReads DEF TreeInv, ReadsTrue

-----------------------------------------------------------------------------
(* Processes work on children whose start has committed.                     *)

\* Whoever is in a process was, or has just been found among the children.
LEMMA NextProcesses ==
  ASSUME TreeInv, [Next]_vars, NEW d \in Runs, ~Known(d)'
  PROVE  /\ preparing'[d] = "none" /\ polled'[d] = "absent" /\ job'[d] = "none"
         /\ call'[d].step = "none"
  <1>0. /\ preparing \in [Runs -> {"none", "forking", "failing"}]
        /\ polled \in [Runs -> ExecutionStates] /\ call \in [Runs -> CallRecord]
        /\ job \in [Runs -> {"none", "waiting", "seen", "cancelled"}]
        /\ execution \in [Runs -> ExecutionStates]
    BY DEF TreeInv, TypeOK
  <1>1. ~Known(d)
    BY KnownStays
  <1>2. /\ preparing[d] = "none" /\ polled[d] = "absent" /\ job[d] = "none"
        /\ call[d].step = "none" /\ (d \in Roots \/ run[d] = "absent")
    BY <1>1 DEF TreeInv, ChildrenKnown, Unknown
  <1>3. ASSUME NEW e \in Runs, StartCommit(e)
        PROVE  preparing'[d] = "none" /\ job'[d] = "none"
    <2>1. e # d
      BY <1>0, <1>3 DEF StartCommit, Known
    <2> QED BY <1>0, <1>2, <1>3, <2>1 DEF StartCommit
  <1>4. ASSUME NEW r \in Runs, Crash(r)
        PROVE  /\ preparing'[d] = "none" /\ polled'[d] = "absent" /\ job'[d] = "none"
               /\ call'[d].step = "none"
    BY <1>2, <1>4 DEF Crash, NoCall
  <1>5. preparing'[d] = "none"
    <2>1. \/ preparing' = preparing
          \/ \E e \in Runs : StartCommit(e) \/ Crash(e)
          \/ \E e \in Runs : preparing' = [preparing EXCEPT ![e] = "none"]
          \/ \E e \in Runs : preparing[e] = "forking" /\ preparing' = [preparing EXCEPT ![e] = "failing"]
      BY DEF Next, vars, rowVars, processVars, Provide, Execute, Reaper, StartAdmit,
         PrepareCommit, PrepareFails, FailPreparation, ReapStale, PollRead,
         PollWrite, GiveUp, ToolReturns, CancelDescend, CancelCommit, CancelReturn,
         CancelThrows, RelayBegin, RelayCancel, ReapBegin, ReapCancel, ReapStatus,
         Claim, Defer, Advance, RunEnds, UserCancels, Abort, RunCancelled,
         CancellationFails
    <2> QED BY <1>0, <1>2, <1>3, <1>4, <2>1
  <1>6. polled'[d] = "absent"
    <2>1. \/ polled' = polled
          \/ \E e \in Runs : polled' = [polled EXCEPT ![e] = "absent"]
          \/ \E e \in Runs : Crash(e)
          \/ \E e \in Runs : /\ job[e] # "none"
                             /\ polled' = [polled EXCEPT ![e] = MapRunState(run[e])]
      BY DEF Next, vars, rowVars, processVars, Provide, Execute, Reaper, StartAdmit,
         StartCommit, PrepareCommit, PrepareFails, FailPreparation, ReapStale, PollRead,
         PollWrite, GiveUp, ToolReturns, CancelDescend, CancelCommit, CancelReturn,
         CancelThrows, RelayBegin, RelayCancel, ReapBegin, ReapCancel, ReapStatus,
         Claim, Defer, Advance, RunEnds, UserCancels, Abort, RunCancelled,
         CancellationFails
    <2> QED BY <1>0, <1>2, <1>4, <2>1
  <1>7. job'[d] = "none"
    <2>1. \/ job' = job
          \/ \E e \in Runs : StartCommit(e) \/ Crash(e)
          \/ \E e \in Runs : job' = [job EXCEPT ![e] = "none"]
          \/ \E e \in Runs, s \in {"seen", "cancelled"} :
               /\ polled[e] # "absent" \/ job[e] # "none" \/ call[e].step # "none"
               /\ job' = [job EXCEPT ![e] = s] \/ job' = [job EXCEPT ![e] = job[e]]
          \/ \E p \in Runs :
               job' = [e \in Runs |-> IF node[e].parent = p THEN "none" ELSE job[e]]
      BY DEF Next, vars, rowVars, processVars, Provide, Execute, Reaper, StartAdmit,
         PrepareCommit, PrepareFails, FailPreparation, ReapStale, PollRead,
         PollWrite, GiveUp, ToolReturns, CancelDescend, CancelCommit, CancelReturn,
         CancelThrows, RelayBegin, RelayCancel, ReapBegin, ReapCancel, ReapStatus,
         Claim, Defer, Advance, RunEnds, UserCancels, Abort, RunCancelled,
         CancellationFails
    <2> QED BY <1>0, <1>2, <1>3, <1>4, <2>1
  <1>8. call'[d].step = "none"
    <2>1. \/ call' = call
          \/ \E e \in Runs : CancelCommit(e) \/ CancelReturn(e) \/ CancelThrows(e)
          \/ \E e \in Runs : RelayCancel(e) \/ ReapCancel(e)
          \/ \E e, y \in Runs : CancelDescend(e, y)
          \/ \E r \in Runs : Crash(r)
      BY DEF Next, vars, rowVars, processVars, Provide, Execute, Reaper, StartAdmit,
         StartCommit, PrepareCommit, PrepareFails, FailPreparation, ReapStale,
         PollRead, PollWrite, GiveUp, ToolReturns,
         RelayBegin, ReapBegin, ReapStatus,
         Claim, Defer, Advance, RunEnds, UserCancels, Abort, RunCancelled,
         CancellationFails
    <2>2. ASSUME NEW e \in Runs, RelayCancel(e) \/ ReapCancel(e) \/ \E y \in Runs : CancelDescend(y, e)
          PROVE  call'[d] = call[d]
      <3>1. Known(e)
        BY <2>2 DEF RelayCancel, ReapCancel, CancelDescend, TreeInv, ChildrenKnown
      <3> QED BY <1>0, <1>1, <2>2, <3>1 DEF RelayCancel, ReapCancel, CancelDescend
    <2>3. ASSUME NEW e \in Runs, CancelReturn(e) \/ CancelThrows(e)
          PROVE  call'[d].step = "none"
      BY <1>0, <1>2, <2>3 DEF CancelReturn, CancelThrows, NoCall, CallRecord, Calls
    <2>4. ASSUME NEW e \in Runs, CancelCommit(e)
          PROVE  call'[d] = call[d]
      <3>1. e # d
        BY <1>2, <2>4 DEF CancelCommit
      <3> QED BY <1>0, <2>4, <3>1 DEF CancelCommit
    <2> QED BY <1>2, <1>4, <2>1, <2>2, <2>3, <2>4
  <1> QED BY <1>5, <1>6, <1>7, <1>8

LEMMA NextLists ==
  ASSUME TreeInv, [Next]_vars
  PROVE  /\ \A d \in Runs : \A e \in relay'[d] \cup call'[d].children : Known(e)
         /\ \A e \in reap'.children : Known(e)
         /\ reap'.target \in Runs => Known(reap'.target)
  <1>0. /\ relay \in [Runs -> SUBSET Runs] /\ call \in [Runs -> CallRecord]
        /\ reap \in [target : Runs \cup {NoRun}, children : SUBSET Runs]
        /\ NoRun \notin Runs
    BY TreeAssumption DEF TreeInv, TypeOK
  <1>1. /\ \A d \in Runs : \A e \in relay[d] \cup call[d].children : Known(e)
        /\ \A e \in reap.children : Known(e)
        /\ reap.target \in Runs => Known(reap.target)
    BY DEF TreeInv, ChildrenKnown
  <1>2. \A x \in Runs : \A e \in Children(x) : Known(e)
    BY DEF Children, Known
  <1>3. ASSUME NEW d \in Runs, NEW e \in relay'[d]
        PROVE  Known(e)
    <2>1. \/ relay' = relay
          \/ \E p \in Runs : \/ relay' = [relay EXCEPT ![p] = {}]
                             \/ relay' = [relay EXCEPT ![p] = Uncancelled(p)]
          \/ \E p \in Runs : relay' = [relay EXCEPT ![p] = {c \in Children(p) :
                               preparing[c] = "none" /\ job[c] = "waiting"}]
          \/ \E p, c \in Runs : relay' = [relay EXCEPT ![p] = @ \ {c}]
      BY DEF Next, vars, rowVars, processVars, Provide, Execute, Reaper, StartAdmit,
         StartCommit, PrepareCommit, PrepareFails, FailPreparation, ReapStale, PollRead,
         PollWrite, GiveUp, ToolReturns, CancelDescend, CancelCommit, CancelReturn,
         CancelThrows, RelayBegin, RelayCancel, ReapBegin, ReapCancel, ReapStatus,
         Claim, Defer, Advance, RunEnds, UserCancels, Abort, RunCancelled,
         CancellationFails, Crash
    <2>2. \A p \in Runs : \A c \in Uncancelled(p) : Known(c)
      BY <1>2 DEF Uncancelled
    <2> QED BY <1>0, <1>1, <1>2, <1>3, <2>1, <2>2
  <1>4. ASSUME NEW d \in Runs, NEW e \in call'[d].children
        PROVE  Known(e)
    <2>1. \/ call' = call
          \/ \E c \in Runs : CancelCommit(c) \/ CancelReturn(c) \/ CancelThrows(c)
          \/ \E c \in Runs : RelayCancel(c) \/ ReapCancel(c)
          \/ \E c, y \in Runs : CancelDescend(c, y)
          \/ \E r \in Runs : Crash(r)
      BY DEF Next, vars, rowVars, processVars, Provide, Execute, Reaper, StartAdmit,
         StartCommit, PrepareCommit, PrepareFails, FailPreparation, ReapStale,
         PollRead, PollWrite, GiveUp, ToolReturns,
         RelayBegin, ReapBegin, ReapStatus,
         Claim, Defer, Advance, RunEnds, UserCancels, Abort, RunCancelled,
         CancellationFails
    <2>2. ASSUME NEW c \in Runs, RelayCancel(c) \/ ReapCancel(c) \/ \E y \in Runs : CancelDescend(y, c)
          PROVE  call'[d] = call[d] \/ call'[d].children = Children(d)
      BY <1>0, <2>2 DEF RelayCancel, ReapCancel, CancelDescend, CancelCall
    <2>3. ASSUME NEW c \in Runs, CancelReturn(c) \/ CancelThrows(c)
          PROVE  call'[d].children \subseteq call[d].children
      BY <1>0, <2>3 DEF CancelReturn, CancelThrows, NoCall, CallRecord
    <2>4. ASSUME NEW c \in Runs, CancelCommit(c)
          PROVE  call'[d].children = call[d].children
      BY <1>0, <2>4 DEF CancelCommit, CallRecord
    <2>5. ASSUME NEW r \in Runs, Crash(r)
          PROVE  call'[d].children \subseteq call[d].children
      BY <2>5 DEF Crash, NoCall
    <2> QED BY <1>1, <1>2, <1>4, <2>1, <2>2, <2>3, <2>4, <2>5
  <1>5. /\ \A e \in reap'.children : Known(e)
        /\ reap'.target \in Runs => Known(reap'.target)
    <2>1. \/ reap' = reap \/ reap' = NoReap
          \/ \E x \in Runs : /\ execution[x] \in {"queued", "running"}
                             /\ reap' = [target |-> x, children |->
                                  {c \in Children(x) : execution[c] \notin SettledStates}]
          \/ \E c \in Runs : reap' = [reap EXCEPT !.children = @ \ {c}]
      BY DEF Next, vars, rowVars, processVars, Provide, Execute, Reaper, StartAdmit,
         StartCommit, PrepareCommit, PrepareFails, FailPreparation, ReapStale, PollRead,
         PollWrite, GiveUp, ToolReturns, CancelDescend, CancelCommit, CancelReturn,
         CancelThrows, RelayBegin, RelayCancel, ReapBegin, ReapCancel, ReapStatus,
         Claim, Defer, Advance, RunEnds, UserCancels, Abort, RunCancelled,
         CancellationFails, Crash
    <2> QED BY <1>0, <1>1, <1>2, <2>1 DEF NoReap, Known
  <1> QED BY <1>3, <1>4, <1>5

\* start takes a fresh child and only its commit or its process's death ends it.
LEMMA NextAdmitted ==
  ASSUME TreeInv, [Next]_vars
  PROVE  \/ admitting' \subseteq admitting
         \/ \E p, d \in Runs, m \in Modes : StartAdmit(p, d, m)
  <1>1. \/ admitting' = admitting
        \/ \E d \in Runs : StartCommit(d) \/ Crash(d)
        \/ \E p, d \in Runs, m \in Modes : StartAdmit(p, d, m)
    BY DEF Next, vars, rowVars, processVars, Provide, Execute, Reaper,
       PrepareCommit, PrepareFails, FailPreparation, ReapStale, PollRead,
       PollWrite, GiveUp, ToolReturns, CancelDescend, CancelCommit, CancelReturn,
       CancelThrows, RelayBegin, RelayCancel, ReapBegin, ReapCancel, ReapStatus,
       Claim, Defer, Advance, RunEnds, UserCancels, Abort, RunCancelled,
       CancellationFails
  <1>2. \A d \in Runs : StartCommit(d) \/ Crash(d) => admitting' \subseteq admitting
    BY DEF StartCommit, Crash
  <1> QED BY <1>1, <1>2

LEMMA KnownStep ==
  ASSUME TreeInv, [Next]_vars
  PROVE  ChildrenKnown'
  <1>1. \A d \in Runs : Known(d)' => d \notin Roots
    BY KnownStays DEF TreeInv, ChildrenKnown
  <1>2. ASSUME NEW d \in Runs, ~Known(d)'
        PROVE  Unknown(d)'
    <2>1. ~Known(d)
      BY <1>2, KnownStays
    <2>2. Unknown(d)
      BY <2>1 DEF TreeInv, ChildrenKnown
    <2>3. (d \notin Roots => run'[d] = "absent") /\ workspace'[d] = "none"
      <3>1. RowMoves(d)
        BY NextRows
      <3> QED BY <1>2, <2>1, <2>2, <3>1
              DEF Unknown, RowMoves, RowGoesOn, RowStays, RowBegins, RowReady, RowDropped,
                  RowPolled, RowLives, Known
    <2> QED BY <1>2, <2>3, NextProcesses DEF Unknown
  <1>3. ASSUME NEW d \in admitting'
        PROVE  d \notin Roots /\ ~Known(d)'
    <2>1. d \in Runs /\ d \notin Roots /\ ~Known(d)
      <3>1. CASE \E p, e \in Runs, m \in Modes : StartAdmit(p, e, m)
        BY <1>3, <3>1 DEF StartAdmit, Known, TreeInv, TypeOK, ChildrenKnown
      <3>2. CASE admitting' \subseteq admitting
        BY <1>3, <3>2 DEF TreeInv, TypeOK, ChildrenKnown
      <3> QED BY <3>1, <3>2, NextAdmitted
    <2> QED BY <1>3, <2>1, KnownStays
  <1>4. /\ \A d \in Runs : \A e \in relay'[d] \cup call'[d].children : Known(e)
        /\ \A e \in reap'.children : Known(e)
        /\ reap'.target \in Runs => Known(reap'.target)
    BY NextLists
  <1>5. /\ \A d \in Runs : relay'[d] \subseteq Runs /\ call'[d].children \subseteq Runs
        /\ reap'.children \subseteq Runs
    BY TypeStep DEF TreeInv, TypeOK, CallRecord
  <1> QED BY <1>1, <1>2, <1>3, <1>4, <1>5, KnownStays DEF ChildrenKnown

-----------------------------------------------------------------------------
(* The Workspaces.                                                           *)

LiveOnes == {d \in Runs : workspace[d] = "live"}

LEMMA ReleaseAccounts ==
  ASSUME TreeInv, NEW d \in Runs, NEW b, ReleaseWorkspace(d, b)
  PROVE  assigned' = Cardinality(LiveOnes')
  <1>1. /\ workspace \in [Runs -> {"none", "live", "deleted"}]
        /\ assigned = Cardinality(LiveOnes) /\ assigned \in Nat
        /\ IsFiniteSet(LiveOnes)
    <2>1. IsFiniteSet(LiveOnes)
      BY TreeAssumption, FS_Subset DEF LiveOnes
    <2> QED BY <2>1 DEF TreeInv, TypeOK, WorkspacesAccounted, LiveOnes
  <1>2. CASE workspace' = workspace /\ assigned' = assigned
    BY <1>1, <1>2 DEF LiveOnes
  <1>3. CASE /\ workspace[d] = "live" /\ workspace' = [workspace EXCEPT ![d] = "deleted"]
             /\ assigned' = IF assigned > 0 THEN assigned - 1 ELSE 0
    <2>1. LiveOnes' = LiveOnes \ {d} /\ d \in LiveOnes
      BY <1>1, <1>3 DEF LiveOnes
    <2>2. Cardinality(LiveOnes \ {d}) = Cardinality(LiveOnes) - 1
      BY <1>1, <2>1, FS_RemoveElement
    <2>3. Cardinality(LiveOnes \ {d}) \in Nat
      BY <1>1, FS_RemoveElement, FS_CardinalityType
    <2> QED BY <1>1, <1>3, <2>1, <2>2, <2>3
  <1> QED BY <1>2, <1>3 DEF ReleaseWorkspace

LEMMA CommitAccounts ==
  ASSUME TreeInv, NEW d \in Runs, StartCommit(d)
  PROVE  assigned' = Cardinality(LiveOnes')
  <1>1. /\ workspace \in [Runs -> {"none", "live", "deleted"}]
        /\ assigned = Cardinality(LiveOnes) /\ assigned \in Nat
        /\ IsFiniteSet(LiveOnes)
    <2>1. IsFiniteSet(LiveOnes)
      BY TreeAssumption, FS_Subset DEF LiveOnes
    <2> QED BY <2>1 DEF TreeInv, TypeOK, WorkspacesAccounted, LiveOnes
  <1>2. workspace[d] = "none"
    BY DEF StartCommit, TreeInv, ChildrenKnown, Unknown
  <1>3. CASE workspace' = [workspace EXCEPT ![d] = "live"] /\ assigned' = assigned + 1
    <2>1. LiveOnes' = LiveOnes \cup {d} /\ d \notin LiveOnes
      BY <1>1, <1>2, <1>3 DEF LiveOnes
    <2> QED BY <1>1, <1>3, <2>1, FS_AddElement
  <1>4. CASE workspace' = [workspace EXCEPT ![d] = "none"] /\ assigned' = assigned
    BY <1>1, <1>2, <1>4 DEF LiveOnes
  <1> QED BY <1>3, <1>4 DEF StartCommit

LEMMA WorkspacesStep ==
  ASSUME TreeInv, [Next]_vars
  PROVE  WorkspacesAccounted'
  <1>1. assigned' = Cardinality(LiveOnes')
    <2>1. CASE workspace' = workspace /\ assigned' = assigned
      BY <2>1 DEF LiveOnes, TreeInv, WorkspacesAccounted
    <2>2. CASE \E d \in Runs : ReleaseWorkspace(d, TRUE) \/ ReleaseWorkspace(d, FALSE)
      BY <2>2, ReleaseAccounts
    <2>3. CASE ReapStatus
      <3>1. reap.target \in Runs /\ WriteStatus(reap.target, MapRunState(run[reap.target]))
        BY <2>3 DEF ReapStatus
      <3> QED BY <3>1, ReleaseAccounts DEF WriteStatus
    <2>4. ASSUME NEW d \in Runs, FailPreparation(d) \/ ReapStale(d)
          PROVE  assigned' = Cardinality(LiveOnes')
      BY <2>4, ReleaseAccounts DEF FailPreparation, ReapStale, SettlePreparation
    <2>5. ASSUME NEW d \in Runs, PollWrite(d) \/ CancelReturn(d)
          PROVE  assigned' = Cardinality(LiveOnes')
      BY <2>5, ReleaseAccounts DEF PollWrite, CancelReturn, WriteStatus
    <2>6. ASSUME NEW d \in Runs, PrepareCommit(d) \/ CancelCommit(d) \/ Lives(d)
          PROVE  workspace' = workspace /\ assigned' = assigned
      BY <2>6 DEF PrepareCommit, CancelCommit, CancelBeforeStart, RequestCancellation,
         rowVars, Lives, Claim, Defer, Advance, RunEnds, Abort, RunCancelled, Crash
    <2> QED BY <2>1, <2>3, <2>4, <2>5, <2>6, CommitAccounts, RowKinds
            DEF RowsRest, Settles
  <1>2. ASSUME NEW d \in Runs, workspace'[d] = "deleted"
        PROVE  Settled(d)'
    <2>1. RowMoves(d)
      BY NextRows
    <2>2. workspace[d] = "deleted" => Settled(d)
      BY DEF TreeInv, WorkspacesAccounted
    <2> QED BY <1>2, <2>1, <2>2
            DEF RowMoves, RowGoesOn, RowStays, RowBegins, RowReady, RowDropped, RowPolled, RowLives,
                Settled
  <1> QED BY <1>1, <1>2 DEF WorkspacesAccounted, LiveOnes

-----------------------------------------------------------------------------
(* The tree.                                                                 *)

\* Who gets a new place in a tree was started by nobody yet.
LEMMA NextNodes ==
  ASSUME TreeInv, [Next]_vars, NEW d \in Runs
  PROVE  \/ node'[d] = node[d]
         \/ \E p \in Runs, m \in Modes : StartAdmit(p, d, m)
         \/ d \in admitting /\ d \notin admitting' /\ ~Known(d)'
  <1>0. node \in [Runs -> NodeRow]
    BY DEF TreeInv, TypeOK
  <1>1. \/ node' = node
        \/ \E p, e \in Runs, m \in Modes : StartAdmit(p, e, m)
        \/ \E r \in Runs : Crash(r)
    BY ZenonT(60) DEF Next, vars, rowVars, Provide, Execute, Reaper,
       StartCommit, PrepareCommit, PrepareFails, FailPreparation, ReapStale,
       SettlePreparation, PollRead, PollWrite, WriteStatus, GiveUp, ToolReturns,
       CancelDescend, CancelCommit, CancelBeforeStart, RequestCancellation,
       CancelReturn, CancelThrows, RelayBegin, RelayCancel, ReapBegin, ReapCancel,
       ReapStatus, Claim, Defer, Advance, RunEnds, UserCancels, Abort, RunCancelled,
       CancellationFails
  <1>2. ASSUME NEW r \in Runs, Crash(r)
        PROVE  \/ node'[d] = node[d]
               \/ d \in admitting /\ d \notin admitting' /\ ~Known(d)'
    <2>1. d \in admitting => ~Known(d)
      BY DEF TreeInv, ChildrenKnown
    <2> QED BY <1>2, <2>1 DEF Crash, Known
  <1>3. ASSUME NEW p \in Runs, NEW e \in Runs, NEW m \in Modes, StartAdmit(p, e, m)
        PROVE  node'[d] = node[d] \/ e = d
    BY <1>0, <1>3 DEF StartAdmit
  <1> QED BY <1>1, <1>2, <1>3

LEMMA NodesStep ==
  ASSUME TreeInv, [Next]_vars
  PROVE  NodesHang'
  <1> SUFFICES ASSUME NEW d \in Runs, Known(d)' \/ d \in admitting'
               PROVE  Hangs(d)'
    BY DEF NodesHang
  <1>0. node \in [Runs -> NodeRow]
    BY DEF TreeInv, TypeOK
  <1>1. \A p \in Runs : p \in Roots \/ Known(p) => node'[p] = node[p] /\ (p \in Roots \/ Known(p)')
    <2>1. ASSUME NEW p \in Runs, p \in Roots \/ Known(p)
          PROVE  node'[p] = node[p]
      <3>1. p \notin admitting /\ ~\E q \in Runs, m \in Modes : StartAdmit(q, p, m)
        BY <2>1 DEF TreeInv, ChildrenKnown, StartAdmit, Known
      <3> QED BY <3>1, NextNodes
    <2> QED BY <2>1, KnownStays
  <1>2. CASE \E p \in Runs, m \in Modes : StartAdmit(p, d, m)
    <2>1. PICK p \in Runs, m \in Modes : StartAdmit(p, d, m)
      BY <1>2
    <2>2. /\ d \notin Roots /\ ~Known(d) /\ run[p] = "running"
          /\ node[p].depth + 1 <= MaximumDepth
      BY <2>1 DEF StartAdmit, Known, WithinBudget
    <2>3. p \in Roots \/ Known(p)
      BY <2>2 DEF TreeInv, ChildrenKnown, Unknown
    <2>4. /\ node'[d].parent = p /\ node'[d].root = node[p].root
          /\ node'[d].depth = node[p].depth + 1
      BY <1>0, <2>1 DEF StartAdmit
    <2>5. node[p].depth \in Nat
      BY <1>0 DEF NodeRow
    <2> QED BY <1>1, <2>2, <2>3, <2>4, <2>5, TreeAssumption DEF Hangs
  <1>3. CASE ~\E p \in Runs, m \in Modes : StartAdmit(p, d, m)
    <2>1. node'[d] = node[d]
      BY <1>3, NextNodes
    <2>2. Known(d) \/ d \in admitting
      <3>1. CASE \E p, e \in Runs, m \in Modes : StartAdmit(p, e, m)
        <4>1. PICK p \in Runs, e \in Runs, m \in Modes : StartAdmit(p, e, m)
          BY <3>1
        <4>2. e # d
          BY <1>3, <4>1
        <4>3. execution' = execution /\ admitting' = admitting \cup {e}
          BY <4>1 DEF StartAdmit
        <4> QED BY <4>2, <4>3 DEF Known
      <3>2. CASE admitting' \subseteq admitting
        BY <3>2, KnownStays
      <3> QED BY <3>1, <3>2, NextAdmitted
    <2>3. Hangs(d)
      BY <2>2 DEF TreeInv, NodesHang
    <2> QED BY <1>1, <2>1, <2>3 DEF Hangs
  <1> QED BY <1>2, <1>3

\* A tree grows by the child whose start commits.
LEMMA NextTrees ==
  ASSUME TreeInv, [Next]_vars, NEW r
  PROVE  \/ Tree(r)' = Tree(r)
         \/ \E d \in admitting \ admitting' : node[d].root = r /\ Tree(r)' = Tree(r) \cup {d}
  <1>1. ASSUME NEW e \in Runs, Known(e)
        PROVE  Known(e)' /\ node'[e] = node[e]
    <2>1. e \notin admitting /\ ~\E q \in Runs, m \in Modes : StartAdmit(q, e, m)
      BY <1>1 DEF TreeInv, ChildrenKnown, StartAdmit, Known
    <2> QED BY <1>1, <2>1, NextNodes, KnownStays
  <1>2. CASE \E d \in Runs : StartCommit(d)
    <2>1. PICK d \in Runs : StartCommit(d)
      BY <1>2
    <2>2. /\ d \in admitting \ admitting' /\ node' = node
          /\ \A e \in Runs : Known(e)' <=> Known(e) \/ e = d
      BY <2>1 DEF StartCommit, Known, TreeInv, TypeOK
    <2>3. Tree(r)' = IF node[d].root = r THEN Tree(r) \cup {d} ELSE Tree(r)
      BY <2>2 DEF Tree, Known
    <2> QED BY <2>2, <2>3
  <1>3. CASE ~\E d \in Runs : StartCommit(d)
    <2>1. ASSUME NEW e \in Runs, ~Known(e)
          PROVE  ~Known(e)'
      <3>1. RowGoesOn(e)
        BY <1>3, RowsGoOn
      <3> QED BY <2>1, <3>1 DEF RowGoesOn, RowStays, RowReady, RowDropped, RowPolled,
              RowLives, Known
    <2> QED BY <1>1, <2>1 DEF Tree, Known
  <1> QED BY <1>2, <1>3
LEMMA TreeFinite ==
  ASSUME NEW r
  PROVE  IsFiniteSet(Tree(r)) /\ Cardinality(Tree(r)) \in Nat
  BY TreeAssumption, FS_Subset, FS_CardinalityType DEF Tree

LEMMA TreesStep ==
  ASSUME TreeInv, [Next]_vars
  PROVE  TreesCounted'
  <1>0. MaximumNodes \in Nat /\ node \in [Runs -> NodeRow] /\ admitting \subseteq Runs
    BY TreeAssumption DEF TreeInv, TypeOK
  <1>1. ASSUME NEW r \in Runs
        PROVE  Cardinality(Tree(r)') <= MaximumNodes
    <2>1. CASE Tree(r)' = Tree(r)
      BY <2>1 DEF TreeInv, TreesCounted
    <2>2. CASE \E d \in admitting : node[d].root = r /\ Tree(r)' = Tree(r) \cup {d}
      <3>1. PICK d \in admitting : node[d].root = r /\ Tree(r)' = Tree(r) \cup {d}
        BY <2>2
      <3>2. Cardinality(Tree(r)) < MaximumNodes
        BY <3>1 DEF TreeInv, TreesCounted
      <3>3. IsFiniteSet(Tree(r)) /\ Cardinality(Tree(r)) \in Nat
        BY TreeFinite
      <3>4. Cardinality(Tree(r) \cup {d}) \in {Cardinality(Tree(r)), Cardinality(Tree(r)) + 1}
        BY <3>3, FS_AddElement
      <3> QED BY <1>0, <3>1, <3>2, <3>3, <3>4
    <2> QED BY <2>1, <2>2, NextTrees
  <1>2. CASE \E p, e \in Runs, m \in Modes : StartAdmit(p, e, m)
    <2>1. PICK p \in Runs, e \in Runs, m \in Modes : StartAdmit(p, e, m)
      BY <1>2
    <2>2. /\ admitting' = admitting \cup {e} /\ e \notin admitting
          /\ \A d \in admitting : node'[d] = node[d]
          /\ node'[e].root = node[p].root
          /\ Cardinality(Tree(node[p].root)) < MaximumNodes
          /\ \A d \in admitting : node[d].root # node[p].root
      BY <1>0, <2>1 DEF StartAdmit, WithinBudget, Locked, LockedRuns
    <2>3. \A r : Tree(r)' = Tree(r)
      BY <2>2, NextTrees
    <2>4. ASSUME NEW d \in admitting'
          PROVE  (Cardinality(Tree(node[d].root)) < MaximumNodes)'
      <3>1. PICK r : r = node'[d].root
        OBVIOUS
      <3>2. Cardinality(Tree(r)) < MaximumNodes
        BY <2>2, <3>1 DEF TreeInv, TreesCounted
      <3>3. Cardinality(Tree(r)') < MaximumNodes
        BY <2>3, <3>2
      <3> QED BY <3>1, <3>3 DEF Tree
    <2>5. \A c, d \in admitting' : node'[c].root = node'[d].root => c = d
      BY <2>2 DEF TreeInv, TreesCounted
    <2> QED BY <1>1, <2>4, <2>5 DEF TreesCounted
  <1>3. CASE ~\E p, e \in Runs, m \in Modes : StartAdmit(p, e, m)
    <2>1. admitting' \subseteq admitting
      BY <1>3, NextAdmitted
    <2>2. \A d \in admitting' : node'[d] = node[d]
      BY <1>0, <1>3, <2>1, NextNodes
    <2>3. ASSUME NEW d \in admitting'
          PROVE  (Cardinality(Tree(node[d].root)) < MaximumNodes)'
      <3>1. PICK r : r = node[d].root
        OBVIOUS
      <3>2. node'[d].root = r /\ d \in admitting
        BY <2>1, <2>2, <3>1
      <3>3. ~\E e \in admitting \ admitting' : node[e].root = r
        BY <2>3, <3>1, <3>2 DEF TreeInv, TreesCounted
      <3>4. Tree(r)' = Tree(r)
        BY <3>3, NextTrees
      <3>5. Cardinality(Tree(r)) < MaximumNodes
        BY <3>1, <3>2 DEF TreeInv, TreesCounted
      <3>6. Cardinality(Tree(r)') < MaximumNodes
        BY <3>4, <3>5
      <3> QED BY <3>2, <3>6 DEF Tree
    <2>4. \A c, d \in admitting' : node'[c].root = node'[d].root => c = d
      BY <2>1, <2>2 DEF TreeInv, TreesCounted
    <2> QED BY <1>1, <2>3, <2>4 DEF TreesCounted
  <1> QED BY <1>2, <1>3

LEMMA TreeStep ==
  ASSUME TreeInv, [Next]_vars
  PROVE  TreeInv'
  BY TypeStep, KnownStep, ReadsStep, ReflectsStep, NodesStep, TreesStep,
     WorkspacesStep DEF TreeInv

LEMMA InitTree == Init => TreeInv
  <1> SUFFICES ASSUME Init PROVE TreeInv
    OBVIOUS
  <1>1. TypeOK
    <2>1. /\ \A r \in Runs : NewNode(r) \in NodeRow
          /\ NoCall \in CallRecord
          /\ NoReap \in [target : Runs \cup {NoRun}, children : SUBSET Runs]
      BY DEF NewNode, NodeRow, NoCall, CallRecord, NoReap, ExecutionStates
    <2>2. RowTypes
      BY <2>1 DEF Init, RowTypes, ExecutionStates, RunStates
    <2>3. ProcessTypes
      BY <2>1 DEF Init, ProcessTypes, ExecutionStates
    <2> QED BY <2>2, <2>3, TypesWhole
  <1>2. ChildrenKnown
    BY TreeAssumption DEF Init, ChildrenKnown, Known, Unknown, NoCall, NoReap
  <1>3. ReadsTrue /\ ExecutionReflectsRun /\ NodesHang
    BY DEF Init, ReadsTrue, ExecutionReflectsRun, NodesHang, Known, NoCall, SettledStates
  <1>4. \A r : Tree(r) = {}
    BY DEF Init, Tree
  <1>5. TreesCounted
    BY <1>4, FS_EmptySet, TreeAssumption DEF Init, TreesCounted
  <1>6. WorkspacesAccounted
    <2>1. {d \in Runs : workspace[d] = "live"} = {}
      BY DEF Init
    <2> QED BY <2>1, FS_EmptySet DEF Init, WorkspacesAccounted
  <1> QED BY <1>1, <1>2, <1>3, <1>5, <1>6 DEF TreeInv

LEMMA TreeInvariance == Spec => []TreeInv
  <1>1. TreeInv /\ [Next]_vars => TreeInv'
    BY TreeStep
  <1> QED BY <1>1, InitTree, PTL DEF Spec

\* Every row and every call keeps its shape, and starts that race in different Runs
\* of one tree never exceed the node budget or the depth of its root; the domain's
\* counter is the number of isolated Workspaces in use, and none is deleted under a
\* Run that may still execute (start, #prepareIsolated, status, cancel, the reaper).
THEOREM TreesAreSound == Spec => []TreeSound
  <1>1. TreeInv => TreeWithinBudget
    <2> SUFFICES ASSUME TreeInv, NEW r \in Roots
                 PROVE  /\ Cardinality(Tree(r)) <= MaximumNodes
                        /\ \A d \in Tree(r) :
                             /\ node[d].depth \in 1 .. MaximumDepth
                             /\ node[node[d].parent].root = r
                             /\ node[node[d].parent].depth = node[d].depth - 1
      BY DEF TreeWithinBudget
    <2>1. \A d \in Tree(r) : d \in Runs /\ node[d].root = r /\ Hangs(d)
      BY DEF Tree, TreeInv, NodesHang, Known
    <2>2. Cardinality(Tree(r)) <= MaximumNodes
      BY TreeAssumption DEF TreeInv, TreesCounted
    <2> QED BY <2>1, <2>2 DEF Hangs
  <1>2. TreeInv => TreeSound
    BY <1>1 DEF TreeInv, TreeSound
  <1> QED BY <1>2, TreeInvariance, PTL

\* What the execution row tells the parent is how the child's Run ended, whoever
\* settled it: its own Worker, a cancellation, the fork or the reaper
\* (#synchronizedStatus, cancel, reapStalePreparations).
THEOREM ExecutionsReflect == Spec => []ExecutionReflectsRun
  <1>1. TreeInv => ExecutionReflectsRun
    BY DEF TreeInv
  <1> QED BY <1>1, TreeInvariance, PTL

\* An execution that has settled keeps its state, and its Run is never started,
\* restarted or settled another way, however stale the status that is written last.
THEOREM ExecutionsSettleOnce == Spec => SettledExecutionIsFinal
  <1>1. TreeInv /\ [Next]_vars =>
          [\A d \in Runs : execution[d] \in SettledStates =>
             execution'[d] = execution[d] /\ run'[d] = run[d]]_vars
    BY FinalStep
  <1> QED BY <1>1, TreeInvariance, PTL DEF Spec, SettledExecutionIsFinal

-----------------------------------------------------------------------------
(* The subagent Tool: the inductive invariant.                             *)

\* A child is admitted once, by the start that its leaf waits for; whatever
\* cancels it is asked for after that; and a cancelled child has ended.
LeafKnown(c) ==
  /\ leaf[c] # "none" => c \in jobs.admitted
  /\ c \in jobs.admitted => leafWait[c] \notin {"none", "starting"}
  /\ <<c, "start">> \in operations => leafWait[c] = "starting"
  /\ <<c, "cancel">> \in operations \/ c \in activeJobs \/ leafWait[c] = "started"
       => c \in jobs.admitted
  /\ c \in jobs.cancelled => leaf[c] \in Ended

\* What has been read of a child stays true.
OutcomeKnown(c) ==
  /\ outcome[c] = "completed" => leaf[c] = "completed"
  /\ outcome[c] = "blocked" => \E q \in Asks : ask[q].of = c /\ ask[q].expects

\* A report is about waits that are all over.
ReportKnown ==
  /\ thread.posted \in {"completed", "failed", "blocked"} => WaitingLeaves = {}
  /\ thread.posted = "completed" => \A c \in Leaves : outcome[c] \in {"none", "completed"}
  /\ thread.posted = "blocked" => \E c \in Leaves : outcome[c] = "blocked"

\* An aborted call has settled with nothing under way for its thread.
AbortKnown ==
  /\ toolCall.at = "settling" => toolCall.aborting
  /\ toolCall.at = "settled" /\ toolCall.aborting =>
       /\ operations = {}
       /\ \A c \in Leaves : leaf[c] \in {"queued", "running"} => c \in jobs.failed

LeavesInv ==
  /\ ChannelTypeOK /\ \A c \in Leaves : LeafKnown(c) /\ OutcomeKnown(c)
  /\ ReportKnown /\ AbortKnown

\* Outcomes, children and requests that a step leaves as they were.
LEMMA OutcomeStays ==
  ASSUME LeavesInv, NEW d \in Leaves, outcome'[d] = outcome[d],
         leaf[d] = "completed" => leaf'[d] = "completed",
         \A q \in Asks : ask[q].of = d /\ ask[q].expects => ask'[q].of = d /\ ask'[q].expects
  PROVE  OutcomeKnown(d)'
  BY DEF LeavesInv, OutcomeKnown

\* Requests keep their child and whether they expect an answer.
LEMMA AsksStay ==
  ASSUME UNCHANGED ask
  PROVE  \A d \in Leaves : \A q \in Asks :
           ask[q].of = d /\ ask[q].expects => ask'[q].of = d /\ ask'[q].expects
  OBVIOUS

LEMMA StartJobKeeps ==
  ASSUME LeavesInv, NEW c \in Leaves, startJob(c)
  PROVE  LeavesInv'
  <1>1. ChannelTypeOK'
    BY ChannelConstants DEF LeavesInv, ChannelTypeOK, startJob, leafVars, callVars, Ended
  <1>2. ASSUME NEW d \in Leaves PROVE LeafKnown(d)'
    BY DEF LeavesInv, ChannelTypeOK, LeafKnown, startJob, leafVars, callVars, Ended
  <1>3. ASSUME NEW d \in Leaves PROVE OutcomeKnown(d)'
    <2>1. UNCHANGED ask /\ outcome'[d] = outcome[d] /\ (leaf[d] = "completed" => leaf'[d] = "completed")
      BY DEF LeavesInv, ChannelTypeOK, LeafKnown, startJob, leafVars, callVars, Ended
    <2>2. QED
      BY <2>1, AsksStay, OutcomeStays
  <1>4. ReportKnown'
    BY DEF LeavesInv, ChannelTypeOK, LeafKnown, ReportKnown, WaitingLeaves, startJob, ThreadRuns, leafVars, callVars, Ended
  <1>5. AbortKnown'
    BY DEF LeavesInv, ChannelTypeOK, LeafKnown, AbortKnown, startJob, ThreadRuns, leafVars, callVars, Ended
  <1>6. QED
    BY <1>1, <1>2, <1>3, <1>4, <1>5 DEF LeavesInv

LEMMA CancelJobKeeps ==
  ASSUME LeavesInv, NEW c \in Leaves, cancelJob(c)
  PROVE  LeavesInv'
  <1>0. /\ <<c, "cancel">> \in operations /\ operations' = operations \ {<<c, "cancel">>}
        /\ c \in jobs.admitted /\ UNCHANGED <<outcome, thread, toolCall, ask>>
        /\ leafWait' = [leafWait EXCEPT ![c] = IF @ = "cancelling" THEN "ended" ELSE @]
        /\ activeJobs' \subseteq activeJobs
    BY DEF cancelJob, LeavesInv, LeafKnown
  <1>9. /\ leaf' \in [Leaves -> {"none", "queued", "running"} \cup Ended]
        /\ \A d \in Leaves : leaf'[d] = leaf[d] \/ (d = c /\ leaf'[d] = "cancelled" /\ leaf[d] \notin Ended)
        /\ jobs' \in [admitted : SUBSET Leaves, cancelled : SUBSET Leaves, failed : SUBSET Leaves]
        /\ jobs'.admitted = jobs.admitted /\ jobs'.failed = jobs.failed
        /\ \A d \in jobs'.cancelled : d \in jobs.cancelled \/ (d = c /\ leaf'[c] \in Ended)
        /\ channelFaults' \in 0..MaxChannelFaults
    <2>1. CASE leaf' = Cancelled(c) /\ jobs' = [jobs EXCEPT !.cancelled = @ \cup {c}] /\ UNCHANGED channelFaults
      BY <2>1 DEF LeavesInv, ChannelTypeOK, Cancelled, Ended
    <2>2. CASE channelFaults < MaxChannelFaults /\ channelFaults' = channelFaults + 1 /\ UNCHANGED <<leaf, jobs>>
      BY <2>2, ChannelConstants DEF LeavesInv, ChannelTypeOK
    <2>3. QED
      BY <2>1, <2>2 DEF cancelJob
  <1>1. ChannelTypeOK'
    BY <1>0, <1>9 DEF LeavesInv, ChannelTypeOK
  <1>2. ASSUME NEW d \in Leaves PROVE LeafKnown(d)'
    BY <1>0, <1>9 DEF LeavesInv, ChannelTypeOK, LeafKnown, Ended
  <1>3. ASSUME NEW d \in Leaves PROVE OutcomeKnown(d)'
    <2>1. leaf[d] = "completed" => leaf'[d] = "completed"
      BY <1>9 DEF Ended
    <2>2. QED
      BY <1>0, <2>1, AsksStay, OutcomeStays
  <1>4. ReportKnown'
    BY DEF LeavesInv, ChannelTypeOK, LeafKnown, ReportKnown, WaitingLeaves, cancelJob, ThreadRuns, leafVars, callVars, Ended
  <1>5. AbortKnown'
    BY DEF LeavesInv, ChannelTypeOK, LeafKnown, AbortKnown, cancelJob, ThreadRuns, leafVars, callVars, Ended
  <1>6. QED
    BY <1>1, <1>2, <1>3, <1>4, <1>5 DEF LeavesInv

LEMMA ShimCallsKeeps ==
  ASSUME LeavesInv, NEW c \in Leaves, ShimCalls(c)
  PROVE  LeavesInv'
  <1>1. ChannelTypeOK'
    BY ChannelConstants DEF LeavesInv, ChannelTypeOK, ShimCalls, leafVars, callVars, Ended
  <1>2. ASSUME NEW d \in Leaves PROVE LeafKnown(d)'
    BY DEF LeavesInv, ChannelTypeOK, LeafKnown, ShimCalls, leafVars, callVars, Ended
  <1>3. ASSUME NEW d \in Leaves PROVE OutcomeKnown(d)'
    <2>1. UNCHANGED ask /\ outcome'[d] = outcome[d] /\ (leaf[d] = "completed" => leaf'[d] = "completed")
      BY DEF LeavesInv, ChannelTypeOK, LeafKnown, ShimCalls, leafVars, callVars, Ended
    <2>2. QED
      BY <2>1, AsksStay, OutcomeStays
  <1>4. ReportKnown'
    BY DEF LeavesInv, ChannelTypeOK, LeafKnown, ReportKnown, WaitingLeaves, ShimCalls, ThreadRuns, leafVars, callVars, Ended
  <1>5. AbortKnown'
    BY DEF LeavesInv, ChannelTypeOK, LeafKnown, AbortKnown, ShimCalls, ThreadRuns, leafVars, callVars, Ended
  <1>6. QED
    BY <1>1, <1>2, <1>3, <1>4, <1>5 DEF LeavesInv

LEMMA StartAnsweredKeeps ==
  ASSUME LeavesInv, NEW c \in Leaves, startAnswered(c)
  PROVE  LeavesInv'
  <1>1. ChannelTypeOK'
    BY ChannelConstants DEF LeavesInv, ChannelTypeOK, startAnswered, leafVars, callVars, Ended
  <1>2. ASSUME NEW d \in Leaves PROVE LeafKnown(d)'
    BY DEF LeavesInv, ChannelTypeOK, LeafKnown, startAnswered, leafVars, callVars, Ended
  <1>3. ASSUME NEW d \in Leaves PROVE OutcomeKnown(d)'
    <2>1. UNCHANGED ask /\ outcome'[d] = outcome[d] /\ (leaf[d] = "completed" => leaf'[d] = "completed")
      BY DEF LeavesInv, ChannelTypeOK, LeafKnown, startAnswered, leafVars, callVars, Ended
    <2>2. QED
      BY <2>1, AsksStay, OutcomeStays
  <1>4. ReportKnown'
    BY DEF LeavesInv, ChannelTypeOK, LeafKnown, ReportKnown, WaitingLeaves, startAnswered, ThreadRuns, leafVars, callVars, Ended
  <1>5. AbortKnown'
    BY DEF LeavesInv, ChannelTypeOK, LeafKnown, AbortKnown, startAnswered, ThreadRuns, leafVars, callVars, Ended
  <1>6. QED
    BY <1>1, <1>2, <1>3, <1>4, <1>5 DEF LeavesInv

LEMMA PollStatusKeeps ==
  ASSUME LeavesInv, NEW c \in Leaves, pollStatus(c)
  PROVE  LeavesInv'
  <1>1. ChannelTypeOK'
    BY ChannelConstants DEF LeavesInv, ChannelTypeOK, pollStatus, leafVars, callVars, Ended
  <1>2. ASSUME NEW d \in Leaves PROVE LeafKnown(d)'
    BY DEF LeavesInv, ChannelTypeOK, LeafKnown, pollStatus, leafVars, callVars, Ended
  <1>3. ASSUME NEW d \in Leaves PROVE OutcomeKnown(d)'
    <2>1. UNCHANGED <<leaf, ask>> /\ leafWait[c] = "polling"
      BY DEF pollStatus
    <2>2. CASE outcome' = [outcome EXCEPT ![c] = "blocked"] /\ Pending(c) # {}
      <3>1. PICK q \in Asks : ask[q].of = c /\ ask[q].expects
        BY <2>2 DEF Pending
      <3>2. CASE d = c
        BY <2>1, <2>2, <3>1, <3>2 DEF OutcomeKnown, LeavesInv, ChannelTypeOK
      <3>3. CASE d # c
        <4>1. outcome'[d] = outcome[d]
          BY <2>2, <3>3 DEF LeavesInv, ChannelTypeOK
        <4>2. QED
          BY <2>1, <4>1, AsksStay, OutcomeStays
      <3>4. QED
        BY <3>2, <3>3
    <2>3. CASE UNCHANGED outcome
      BY <2>1, <2>3, AsksStay, OutcomeStays
    <2>4. QED
      BY <2>2, <2>3 DEF pollStatus
  <1>4. ReportKnown'
    BY DEF LeavesInv, ChannelTypeOK, LeafKnown, ReportKnown, WaitingLeaves, pollStatus, ThreadRuns, leafVars, callVars, Ended
  <1>5. AbortKnown'
    BY DEF LeavesInv, ChannelTypeOK, LeafKnown, AbortKnown, pollStatus, ThreadRuns, leafVars, callVars, Ended
  <1>6. QED
    BY <1>1, <1>2, <1>3, <1>4, <1>5 DEF LeavesInv

LEMMA PollTimesOutKeeps ==
  ASSUME LeavesInv, NEW c \in Leaves, pollTimesOut(c)
  PROVE  LeavesInv'
  <1>1. ChannelTypeOK'
    BY ChannelConstants DEF LeavesInv, ChannelTypeOK, pollTimesOut, leafVars, callVars, Ended
  <1>2. ASSUME NEW d \in Leaves PROVE LeafKnown(d)'
    BY DEF LeavesInv, ChannelTypeOK, LeafKnown, pollTimesOut, leafVars, callVars, Ended
  <1>3. ASSUME NEW d \in Leaves PROVE OutcomeKnown(d)'
    <2>1. UNCHANGED ask /\ outcome'[d] = outcome[d] /\ (leaf[d] = "completed" => leaf'[d] = "completed")
      BY DEF LeavesInv, ChannelTypeOK, LeafKnown, pollTimesOut, leafVars, callVars, Ended
    <2>2. QED
      BY <2>1, AsksStay, OutcomeStays
  <1>4. ReportKnown'
    BY DEF LeavesInv, ChannelTypeOK, LeafKnown, ReportKnown, WaitingLeaves, pollTimesOut, ThreadRuns, leafVars, callVars, Ended
  <1>5. AbortKnown'
    BY DEF LeavesInv, ChannelTypeOK, LeafKnown, AbortKnown, pollTimesOut, ThreadRuns, leafVars, callVars, Ended
  <1>6. QED
    BY <1>1, <1>2, <1>3, <1>4, <1>5 DEF LeavesInv

LEMMA ReadResultKeeps ==
  ASSUME LeavesInv, NEW c \in Leaves, readResult(c)
  PROVE  LeavesInv'
  <1>1. ChannelTypeOK'
    BY ChannelConstants DEF LeavesInv, ChannelTypeOK, readResult, leafVars, callVars, Ended
  <1>2. ASSUME NEW d \in Leaves PROVE LeafKnown(d)'
    BY DEF LeavesInv, ChannelTypeOK, LeafKnown, readResult, leafVars, callVars, Ended
  <1>3. ASSUME NEW d \in Leaves PROVE OutcomeKnown(d)'
    <2>1. UNCHANGED <<leaf, ask>>
          /\ outcome' = [outcome EXCEPT ![c] = IF leaf[c] = "completed" THEN "completed" ELSE "failed"]
      BY DEF readResult
    <2>2. CASE d = c
      BY <2>1, <2>2 DEF OutcomeKnown, LeavesInv, ChannelTypeOK
    <2>3. CASE d # c
      <3>1. outcome'[d] = outcome[d]
        BY <2>1, <2>3 DEF LeavesInv, ChannelTypeOK
      <3>2. QED
        BY <2>1, <3>1, AsksStay, OutcomeStays
    <2>4. QED
      BY <2>2, <2>3
  <1>4. ReportKnown'
    BY DEF LeavesInv, ChannelTypeOK, LeafKnown, ReportKnown, WaitingLeaves, readResult, ThreadRuns, leafVars, callVars, Ended
  <1>5. AbortKnown'
    BY DEF LeavesInv, ChannelTypeOK, LeafKnown, AbortKnown, readResult, ThreadRuns, leafVars, callVars, Ended
  <1>6. QED
    BY <1>1, <1>2, <1>3, <1>4, <1>5 DEF LeavesInv

LEMMA ChildStartsKeeps ==
  ASSUME LeavesInv, NEW c \in Leaves, ChildStarts(c)
  PROVE  LeavesInv'
  <1>1. ChannelTypeOK'
    BY ChannelConstants DEF LeavesInv, ChannelTypeOK, ChildStarts, leafVars, callVars, Ended
  <1>2. ASSUME NEW d \in Leaves PROVE LeafKnown(d)'
    BY DEF LeavesInv, ChannelTypeOK, LeafKnown, ChildStarts, leafVars, callVars, Ended
  <1>3. ASSUME NEW d \in Leaves PROVE OutcomeKnown(d)'
    <2>1. UNCHANGED ask /\ outcome'[d] = outcome[d] /\ (leaf[d] = "completed" => leaf'[d] = "completed")
      BY DEF LeavesInv, ChannelTypeOK, LeafKnown, ChildStarts, leafVars, callVars, Ended
    <2>2. QED
      BY <2>1, AsksStay, OutcomeStays
  <1>4. ReportKnown'
    BY DEF LeavesInv, ChannelTypeOK, LeafKnown, ReportKnown, WaitingLeaves, ChildStarts, ThreadRuns, leafVars, callVars, Ended
  <1>5. AbortKnown'
    BY DEF LeavesInv, ChannelTypeOK, LeafKnown, AbortKnown, ChildStarts, ThreadRuns, leafVars, callVars, Ended
  <1>6. QED
    BY <1>1, <1>2, <1>3, <1>4, <1>5 DEF LeavesInv

LEMMA ChildLosesWorkerKeeps ==
  ASSUME LeavesInv, NEW c \in Leaves, ChildLosesWorker(c)
  PROVE  LeavesInv'
  <1>1. ChannelTypeOK'
    BY ChannelConstants DEF LeavesInv, ChannelTypeOK, ChildLosesWorker, leafVars, callVars, Ended
  <1>2. ASSUME NEW d \in Leaves PROVE LeafKnown(d)'
    BY DEF LeavesInv, ChannelTypeOK, LeafKnown, ChildLosesWorker, leafVars, callVars, Ended
  <1>3. ASSUME NEW d \in Leaves PROVE OutcomeKnown(d)'
    <2>1. outcome' = outcome /\ (leaf[d] = "completed" => leaf'[d] = "completed")
      BY DEF LeavesInv, ChannelTypeOK, ChildLosesWorker, leafVars, Ended
    <2>2. \A q \in Asks : ask'[q].of = ask[q].of /\ ask'[q].expects = ask[q].expects
      BY DEF LeavesInv, ChannelTypeOK, ChildLosesWorker
    <2>3. QED
      BY <2>1, <2>2, OutcomeStays
  <1>4. ReportKnown'
    BY DEF LeavesInv, ChannelTypeOK, LeafKnown, ReportKnown, WaitingLeaves, ChildLosesWorker, ThreadRuns, leafVars, callVars, Ended
  <1>5. AbortKnown'
    BY DEF LeavesInv, ChannelTypeOK, LeafKnown, AbortKnown, ChildLosesWorker, ThreadRuns, leafVars, callVars, Ended
  <1>6. QED
    BY <1>1, <1>2, <1>3, <1>4, <1>5 DEF LeavesInv

LEMMA ThreadAbortsKeeps ==
  ASSUME LeavesInv, threadAborts
  PROVE  LeavesInv'
  <1>1. ChannelTypeOK'
    BY ChannelConstants DEF LeavesInv, ChannelTypeOK, threadAborts, leafVars, callVars, Ended
  <1>2. ASSUME NEW d \in Leaves PROVE LeafKnown(d)'
    BY DEF LeavesInv, ChannelTypeOK, LeafKnown, threadAborts, leafVars, callVars, Ended
  <1>3. ASSUME NEW d \in Leaves PROVE OutcomeKnown(d)'
    <2>1. UNCHANGED ask /\ outcome'[d] = outcome[d] /\ (leaf[d] = "completed" => leaf'[d] = "completed")
      BY DEF LeavesInv, ChannelTypeOK, LeafKnown, threadAborts, leafVars, callVars, Ended
    <2>2. QED
      BY <2>1, AsksStay, OutcomeStays
  <1>4. ReportKnown'
    BY DEF LeavesInv, ChannelTypeOK, LeafKnown, ReportKnown, WaitingLeaves, threadAborts, ThreadRuns, leafVars, callVars, Ended
  <1>5. AbortKnown'
    BY DEF LeavesInv, ChannelTypeOK, LeafKnown, AbortKnown, threadAborts, ThreadRuns, leafVars, callVars, Ended
  <1>6. QED
    BY <1>1, <1>2, <1>3, <1>4, <1>5 DEF LeavesInv

LEMMA AbortSignalledKeeps ==
  ASSUME LeavesInv, abortSignalled
  PROVE  LeavesInv'
  <1>1. ChannelTypeOK'
    BY ChannelConstants DEF LeavesInv, ChannelTypeOK, abortSignalled, leafVars, callVars, Ended
  <1>2. ASSUME NEW d \in Leaves PROVE LeafKnown(d)'
    BY DEF LeavesInv, ChannelTypeOK, LeafKnown, abortSignalled, leafVars, callVars, Ended
  <1>3. ASSUME NEW d \in Leaves PROVE OutcomeKnown(d)'
    <2>1. UNCHANGED ask /\ outcome'[d] = outcome[d] /\ (leaf[d] = "completed" => leaf'[d] = "completed")
      BY DEF LeavesInv, ChannelTypeOK, LeafKnown, abortSignalled, leafVars, callVars, Ended
    <2>2. QED
      BY <2>1, AsksStay, OutcomeStays
  <1>4. ReportKnown'
    BY DEF LeavesInv, ChannelTypeOK, LeafKnown, ReportKnown, WaitingLeaves, abortSignalled, ThreadRuns, leafVars, callVars, Ended
  <1>5. AbortKnown'
    BY DEF LeavesInv, ChannelTypeOK, LeafKnown, AbortKnown, abortSignalled, ThreadRuns, leafVars, callVars, Ended
  <1>6. QED
    BY <1>1, <1>2, <1>3, <1>4, <1>5 DEF LeavesInv

LEMMA PostResultKeeps ==
  ASSUME LeavesInv, postResult
  PROVE  LeavesInv'
  <1>1. ChannelTypeOK'
    <2>1. Report \in {"completed", "failed", "blocked"}
      BY DEF Report
    <2>2. thread' = [thread EXCEPT !.posted = Report]
          /\ UNCHANGED <<leaf, leafWait, outcome, activeJobs, operations, jobs, toolCall, ask, channelFaults>>
      BY DEF postResult, leafVars
    <2>3. thread' \in [abort : {"none", "sent", "cancelling", "aborted"},
                       posted : {"none", "completed", "failed", "blocked", "failure"}]
      BY <2>1, <2>2 DEF LeavesInv, ChannelTypeOK
    <2>4. QED
      BY <2>2, <2>3 DEF LeavesInv, ChannelTypeOK
  <1>2. ASSUME NEW d \in Leaves PROVE LeafKnown(d)'
    BY DEF LeavesInv, ChannelTypeOK, LeafKnown, postResult, leafVars, callVars, Ended
  <1>3. ASSUME NEW d \in Leaves PROVE OutcomeKnown(d)'
    <2>1. UNCHANGED ask /\ outcome'[d] = outcome[d] /\ (leaf[d] = "completed" => leaf'[d] = "completed")
      BY DEF LeavesInv, ChannelTypeOK, LeafKnown, postResult, leafVars, callVars, Ended
    <2>2. QED
      BY <2>1, AsksStay, OutcomeStays
  <1>4. ReportKnown'
    <2>1. /\ UNCHANGED <<leafWait, outcome>> /\ WaitingLeaves = {} /\ thread'.posted = Report
      BY DEF postResult, leafVars, LeavesInv, ChannelTypeOK
    <2>2. WaitingLeaves' = {}
      BY <2>1 DEF WaitingLeaves
    <2>3. /\ Report = "completed" => \A c \in Leaves : outcome[c] \in {"none", "completed"}
          /\ Report = "blocked" => \E c \in Leaves : outcome[c] = "blocked"
      BY DEF Report, LeavesInv, ChannelTypeOK
    <2>4. QED
      BY <2>1, <2>2, <2>3 DEF ReportKnown
  <1>5. AbortKnown'
    BY DEF LeavesInv, ChannelTypeOK, LeafKnown, AbortKnown, postResult, ThreadRuns, leafVars, callVars, Ended
  <1>6. QED
    BY <1>1, <1>2, <1>3, <1>4, <1>5 DEF LeavesInv

LEMMA PostFailureKeeps ==
  ASSUME LeavesInv, postFailure
  PROVE  LeavesInv'
  <1>1. ChannelTypeOK'
    BY ChannelConstants DEF LeavesInv, ChannelTypeOK, postFailure, leafVars, callVars, Ended
  <1>2. ASSUME NEW d \in Leaves PROVE LeafKnown(d)'
    BY DEF LeavesInv, ChannelTypeOK, LeafKnown, postFailure, leafVars, callVars, Ended
  <1>3. ASSUME NEW d \in Leaves PROVE OutcomeKnown(d)'
    <2>1. UNCHANGED ask /\ outcome'[d] = outcome[d] /\ (leaf[d] = "completed" => leaf'[d] = "completed")
      BY DEF LeavesInv, ChannelTypeOK, LeafKnown, postFailure, leafVars, callVars, Ended
    <2>2. QED
      BY <2>1, AsksStay, OutcomeStays
  <1>4. ReportKnown'
    BY DEF LeavesInv, ChannelTypeOK, LeafKnown, ReportKnown, WaitingLeaves, postFailure, ThreadRuns, leafVars, callVars, Ended
  <1>5. AbortKnown'
    BY DEF LeavesInv, ChannelTypeOK, LeafKnown, AbortKnown, postFailure, ThreadRuns, leafVars, callVars, Ended
  <1>6. QED
    BY <1>1, <1>2, <1>3, <1>4, <1>5 DEF LeavesInv

LEMMA AbortCallKeeps ==
  ASSUME LeavesInv, AbortCall
  PROVE  LeavesInv'
  <1>1. ChannelTypeOK'
    BY ChannelConstants DEF LeavesInv, ChannelTypeOK, AbortCall, leafVars, callVars, Ended
  <1>2. ASSUME NEW d \in Leaves PROVE LeafKnown(d)'
    BY DEF LeavesInv, ChannelTypeOK, LeafKnown, AbortCall, leafVars, callVars, Ended
  <1>3. ASSUME NEW d \in Leaves PROVE OutcomeKnown(d)'
    <2>1. UNCHANGED ask /\ outcome'[d] = outcome[d] /\ (leaf[d] = "completed" => leaf'[d] = "completed")
      BY DEF LeavesInv, ChannelTypeOK, LeafKnown, AbortCall, leafVars, callVars, Ended
    <2>2. QED
      BY <2>1, AsksStay, OutcomeStays
  <1>4. ReportKnown'
    BY DEF LeavesInv, ChannelTypeOK, LeafKnown, ReportKnown, WaitingLeaves, AbortCall, ThreadRuns, leafVars, callVars, Ended
  <1>5. AbortKnown'
    BY DEF LeavesInv, ChannelTypeOK, LeafKnown, AbortKnown, AbortCall, ThreadRuns, leafVars, callVars, Ended
  <1>6. QED
    BY <1>1, <1>2, <1>3, <1>4, <1>5 DEF LeavesInv

LEMMA SettleKeeps ==
  ASSUME LeavesInv, settle
  PROVE  LeavesInv'
  <1>1. ChannelTypeOK'
    BY ChannelConstants DEF LeavesInv, ChannelTypeOK, settle, leafVars, callVars, Ended
  <1>2. ASSUME NEW d \in Leaves PROVE LeafKnown(d)'
    BY DEF LeavesInv, ChannelTypeOK, LeafKnown, settle, leafVars, callVars, Ended
  <1>3. ASSUME NEW d \in Leaves PROVE OutcomeKnown(d)'
    <2>1. UNCHANGED ask /\ outcome'[d] = outcome[d] /\ (leaf[d] = "completed" => leaf'[d] = "completed")
      BY DEF LeavesInv, ChannelTypeOK, LeafKnown, settle, leafVars, callVars, Ended
    <2>2. QED
      BY <2>1, AsksStay, OutcomeStays
  <1>4. ReportKnown'
    BY DEF LeavesInv, ChannelTypeOK, LeafKnown, ReportKnown, WaitingLeaves, settle, ThreadRuns, leafVars, callVars, Ended
  <1>5. AbortKnown'
    BY DEF LeavesInv, ChannelTypeOK, LeafKnown, AbortKnown, settle, ThreadRuns, leafVars, callVars, Ended
  <1>6. QED
    BY <1>1, <1>2, <1>3, <1>4, <1>5 DEF LeavesInv

LEMMA ChildEndsKeeps ==
  ASSUME LeavesInv, NEW c \in Leaves, NEW state \in {"completed", "failed"}, ChildEnds(c, state)
  PROVE  LeavesInv'
  <1>1. ChannelTypeOK'
    BY DEF LeavesInv, ChannelTypeOK, ChildEnds, leafVars, callVars, Ended
  <1>2. ASSUME NEW d \in Leaves PROVE LeafKnown(d)'
    BY DEF LeavesInv, ChannelTypeOK, LeafKnown, ChildEnds, leafVars, callVars, Ended
  <1>3. ASSUME NEW d \in Leaves PROVE OutcomeKnown(d)'
    <2>1. UNCHANGED ask /\ outcome'[d] = outcome[d] /\ (leaf[d] = "completed" => leaf'[d] = "completed")
      BY DEF LeavesInv, ChannelTypeOK, ChildEnds, leafVars
    <2>2. QED
      BY <2>1, AsksStay, OutcomeStays
  <1>4. ReportKnown'
    BY DEF LeavesInv, ReportKnown, WaitingLeaves, ChildEnds, leafVars, callVars
  <1>5. AbortKnown'
    BY DEF LeavesInv, ChannelTypeOK, AbortKnown, ChildEnds, callVars
  <1>6. QED
    BY <1>1, <1>2, <1>3, <1>4, <1>5 DEF LeavesInv

\* Every child that was admitted is cancelled by now, or its cancel has failed.
LEMMA CancelAdmittedKeeps ==
  ASSUME LeavesInv, cancelAdmitted
  PROVE  LeavesInv'
  <1>1. PICK lost \in SUBSET (jobs.admitted \ jobs.cancelled) :
          /\ channelFaults + Cardinality(lost) <= MaxChannelFaults
          /\ channelFaults' = channelFaults + Cardinality(lost)
          /\ leaf' = [c \in Leaves |-> IF c \in (jobs.admitted \ jobs.cancelled) \ lost
                                       THEN Cancelled(c)[c] ELSE leaf[c]]
          /\ jobs' = [jobs EXCEPT !.cancelled = @ \cup ((jobs.admitted \ jobs.cancelled) \ lost),
                                  !.failed = @ \cup lost]
    BY DEF cancelAdmitted
  <1>2. /\ toolCall.at = "settling" /\ operations = {}
        /\ toolCall' = [toolCall EXCEPT !.at = "settled"]
        /\ UNCHANGED <<leafWait, outcome, activeJobs, operations, thread, ask>>
    BY DEF cancelAdmitted, operationsDone, leafVars
  <1>3. /\ jobs.admitted \in SUBSET Leaves /\ jobs.cancelled \in SUBSET Leaves
        /\ jobs.failed \in SUBSET Leaves /\ lost \in SUBSET Leaves
    BY DEF LeavesInv, ChannelTypeOK
  <1>4. /\ jobs' \in [admitted : SUBSET Leaves, cancelled : SUBSET Leaves, failed : SUBSET Leaves]
        /\ jobs'.admitted = jobs.admitted
        /\ jobs'.cancelled = jobs.cancelled \cup (jobs.admitted \ lost)
        /\ jobs'.failed = jobs.failed \cup lost
    BY <1>1, <1>3 DEF LeavesInv, ChannelTypeOK
  <1>5. ASSUME NEW c \in Leaves
        PROVE  /\ leaf'[c] \in {"none", "queued", "running"} \cup Ended
               /\ leaf[c] \in Ended => leaf'[c] = leaf[c]
               /\ c \in jobs.admitted /\ c \notin jobs.cancelled /\ c \notin lost => leaf'[c] \in Ended
               /\ c \notin jobs.admitted \/ c \in lost => leaf'[c] = leaf[c]
    <2>1. Cancelled(c)[c] = IF leaf[c] \in Ended THEN leaf[c] ELSE "cancelled"
      BY DEF Cancelled, LeavesInv, ChannelTypeOK
    <2>2. leaf'[c] = IF c \in (jobs.admitted \ jobs.cancelled) \ lost THEN Cancelled(c)[c] ELSE leaf[c]
      BY <1>1
    <2>3. leaf[c] \in {"none", "queued", "running"} \cup Ended
      BY DEF LeavesInv, ChannelTypeOK
    <2>4. QED
      BY <2>1, <2>2, <2>3 DEF Ended
  <1>6. channelFaults' \in 0..MaxChannelFaults
    <2>1. IsFiniteSet(lost)
      BY <1>3, ChannelConstants, FS_Subset
    <2>2. Cardinality(lost) \in Nat
      BY <2>1, FS_CardinalityType
    <2>3. channelFaults \in 0..MaxChannelFaults /\ MaxChannelFaults \in Nat
      BY ChannelConstants DEF LeavesInv, ChannelTypeOK
    <2>4. QED
      BY <1>1, <2>2, <2>3
  <1>7. leaf' \in [Leaves -> {"none", "queued", "running"} \cup Ended]
    BY <1>1, <1>5
  <1>8. /\ toolCall' \in [at : {"running", "settling", "settled"}, aborting : BOOLEAN]
        /\ toolCall'.at = "settled"
    BY <1>2 DEF LeavesInv, ChannelTypeOK
  <1>9. ChannelTypeOK'
    BY <1>2, <1>4, <1>6, <1>7, <1>8 DEF LeavesInv, ChannelTypeOK
  <1>10. ASSUME NEW d \in Leaves PROVE LeafKnown(d)'
    <2>1. LeafKnown(d)
      BY DEF LeavesInv
    <2>2. d \in jobs'.cancelled => leaf'[d] \in Ended
      BY <1>4, <1>5, <2>1 DEF LeafKnown
    <2>3. leaf'[d] # "none" => d \in jobs'.admitted
      BY <1>4, <1>5, <2>1 DEF LeafKnown
    <2>4. QED
      BY <1>2, <1>4, <2>1, <2>2, <2>3 DEF LeafKnown
  <1>11. ASSUME NEW d \in Leaves PROVE OutcomeKnown(d)'
    <2>1. leaf[d] = "completed" => leaf'[d] = "completed"
      BY <1>5 DEF Ended
    <2>2. QED
      BY <1>2, <2>1, AsksStay, OutcomeStays
  <1>12. ReportKnown'
    BY <1>2 DEF LeavesInv, ReportKnown, WaitingLeaves
  <1>13. AbortKnown'
    <2>1. ASSUME NEW c \in Leaves, leaf'[c] \in {"queued", "running"} PROVE c \in jobs'.failed
      <3>1. LeafKnown(c)
        BY DEF LeavesInv
      <3>2. CASE c \in lost
        BY <1>4, <3>2
      <3>3. CASE c \notin lost /\ c \in jobs.admitted /\ c \notin jobs.cancelled
        BY <1>5, <2>1, <3>3 DEF Ended
      <3>4. CASE c \in jobs.cancelled
        BY <1>5, <2>1, <3>1, <3>4 DEF Ended, LeafKnown
      <3>5. CASE c \notin jobs.admitted
        BY <1>5, <2>1, <3>1, <3>5 DEF LeafKnown
      <3>6. QED
        BY <3>2, <3>3, <3>4, <3>5
    <2>2. QED
      BY <1>2, <1>8, <2>1 DEF AbortKnown
  <1>14. QED
    BY <1>9, <1>10, <1>11, <1>12, <1>13 DEF LeavesInv

-----------------------------------------------------------------------------
(* The supervisor channel.                                                 *)

AskRows ==
  [of : Leaves \cup {NoLeaf}, expects : BOOLEAN, reply : Replies \cup {NoReply},
   expired : BOOLEAN, contact : {"none", "waiting", "returned", "timed_out", "lost"}]

\* One request changes, and keeps whose it is.
LEMMA AskKeeps ==
  ASSUME LeavesInv, NEW q \in Asks, NEW row \in AskRows, ask' = [ask EXCEPT ![q] = row],
         ask[q].of \in Leaves => row.of = ask[q].of /\ row.expects = ask[q].expects,
         UNCHANGED <<leaf, leafVars, callVars, channelFaults>>
  PROVE  LeavesInv'
  <1>1. /\ ask \in [Asks -> AskRows] /\ ask' \in [Asks -> AskRows]
        /\ ask'[q] = row /\ \A p \in Asks \ {q} : ask'[p] = ask[p]
    BY DEF LeavesInv, ChannelTypeOK, AskRows
  <1>2. UNCHANGED <<leaf, leafWait, outcome, activeJobs, operations, jobs, thread, toolCall, channelFaults>>
    BY DEF leafVars, callVars
  <1>3. ChannelTypeOK'
    BY <1>1, <1>2 DEF LeavesInv, ChannelTypeOK, AskRows
  <1>4. ASSUME NEW d \in Leaves PROVE OutcomeKnown(d)'
    <2>1. \A p \in Asks : ask[p].of = d /\ ask[p].expects => ask'[p].of = d /\ ask'[p].expects
      BY <1>1
    <2>2. QED
      BY <1>2, <2>1, OutcomeStays
  <1>5. QED
    BY <1>2, <1>3, <1>4 DEF LeavesInv, LeafKnown, ReportKnown, WaitingLeaves, AbortKnown

LEMMA ContactKeeps ==
  ASSUME LeavesInv, NEW c \in Leaves, NEW q \in Asks, NEW expects \in BOOLEAN, contact(c, q, expects)
  PROVE  LeavesInv'
  <1>1. PICK k \in {"waiting", "returned"} : k = IF expects THEN "waiting" ELSE "returned"
    OBVIOUS
  <1>2. PICK y : y = NoAsk
    OBVIOUS
  <1>3. y = [of |-> NoLeaf, expects |-> FALSE, reply |-> NoReply, expired |-> FALSE,
             contact |-> "none"]
    BY <1>2 DEF NoAsk
  <1>4. PICK row : row = [y EXCEPT !.of = c, !.expects = expects, !.contact = k]
    OBVIOUS
  <1>5. row \in AskRows
    BY <1>3, <1>4 DEF AskRows
  <1>6. ask' = [ask EXCEPT ![q] = row] /\ ask[q].of = NoLeaf
        /\ UNCHANGED <<leaf, leafVars, callVars, channelFaults>>
    BY <1>1, <1>2, <1>4 DEF contact
  <1>7. QED
    BY <1>5, <1>6, AskKeeps, ChannelConstants

LEMMA RequestStepKeeps ==
  ASSUME LeavesInv, NEW q \in Asks,
         RequestExpires(q) \/ hearReply(q) \/ contactTimesOut(q) \/ \E m \in Replies : reply(q, m)
  PROVE  LeavesInv'
  <1>1. PICK y \in AskRows : y = ask[q]
    BY DEF LeavesInv, ChannelTypeOK, AskRows
  <1>2. PICK row \in AskRows : /\ row.of = y.of /\ row.expects = y.expects
                               /\ ask' = [ask EXCEPT ![q] = row]
    <2>1. CASE RequestExpires(q)
      <3>1. PICK x : x = [y EXCEPT !.expired = TRUE]
        OBVIOUS
      <3>2. x \in AskRows /\ x.of = y.of /\ x.expects = y.expects
        BY <3>1 DEF AskRows
      <3>3. QED
        BY <1>1, <2>1, <3>1, <3>2 DEF RequestExpires
    <2>2. CASE hearReply(q)
      <3>1. PICK x : x = [y EXCEPT !.contact = "returned"]
        OBVIOUS
      <3>2. x \in AskRows /\ x.of = y.of /\ x.expects = y.expects
        BY <3>1 DEF AskRows
      <3>3. QED
        BY <1>1, <2>2, <3>1, <3>2 DEF hearReply
    <2>3. CASE contactTimesOut(q)
      <3>1. PICK x : x = [y EXCEPT !.contact = "timed_out"]
        OBVIOUS
      <3>2. x \in AskRows /\ x.of = y.of /\ x.expects = y.expects
        BY <3>1 DEF AskRows
      <3>3. QED
        BY <1>1, <2>3, <3>1, <3>2 DEF contactTimesOut
    <2>4. ASSUME NEW m \in Replies, reply(q, m)
          PROVE  \E row \in AskRows : /\ row.of = y.of /\ row.expects = y.expects
                                      /\ ask' = [ask EXCEPT ![q] = row]
      <3>1. PICK x : x = [y EXCEPT !.reply = m]
        OBVIOUS
      <3>2. x \in AskRows /\ x.of = y.of /\ x.expects = y.expects
        BY <3>1 DEF AskRows
      <3>3. QED
        BY <1>1, <2>4, <3>1, <3>2 DEF reply
    <2>5. QED
      BY <2>1, <2>2, <2>3, <2>4
  <1>3. UNCHANGED <<leaf, leafVars, callVars, channelFaults>>
    BY DEF RequestExpires, hearReply, contactTimesOut, reply
  <1>4. QED
    BY <1>1, <1>2, <1>3, AskKeeps

-----------------------------------------------------------------------------
(* The subagent Tool: the theorem.                                         *)

LEMMA LeavesStart ==
  ASSUME ChannelInit
  PROVE  LeavesInv
  <1>1. ChannelTypeOK
    BY ChannelConstants DEF ChannelInit, ChannelTypeOK, NoAsk
  <1>2. QED
    BY <1>1 DEF ChannelInit, LeavesInv, LeafKnown, OutcomeKnown, ReportKnown, AbortKnown, WaitingLeaves

LEMMA LeavesStep ==
  ASSUME LeavesInv, ChannelNext
  PROVE  LeavesInv'
  <1>1. ASSUME NEW c \in Leaves,
               \/ startJob(c) \/ cancelJob(c) \/ ShimCalls(c) \/ startAnswered(c)
               \/ pollStatus(c) \/ pollTimesOut(c) \/ readResult(c)
               \/ ChildStarts(c) \/ ChildLosesWorker(c)
        PROVE  LeavesInv'
    BY <1>1, StartJobKeeps, CancelJobKeeps, ShimCallsKeeps, StartAnsweredKeeps, PollStatusKeeps,
       PollTimesOutKeeps, ReadResultKeeps, ChildStartsKeeps, ChildLosesWorkerKeeps
  <1>2. ASSUME NEW c \in Leaves, NEW state \in {"completed", "failed"}, ChildEnds(c, state)
        PROVE  LeavesInv'
    BY <1>2, ChildEndsKeeps
  <1>3. ASSUME NEW c \in Leaves, NEW q \in Asks, NEW expects \in BOOLEAN, contact(c, q, expects)
        PROVE  LeavesInv'
    BY <1>3, ContactKeeps
  <1>4. CASE threadAborts \/ abortSignalled \/ postResult \/ postFailure
    BY <1>4, ThreadAbortsKeeps, AbortSignalledKeeps, PostResultKeeps, PostFailureKeeps
  <1>5. CASE AbortCall \/ settle \/ cancelAdmitted
    BY <1>5, AbortCallKeeps, SettleKeeps, CancelAdmittedKeeps
  <1>6. ASSUME NEW q \in Asks,
               \/ RequestExpires(q) \/ hearReply(q) \/ contactTimesOut(q)
               \/ \E m \in Replies : reply(q, m)
        PROVE  LeavesInv'
    BY <1>6, RequestStepKeeps
  <1>7. QED
    BY <1>1, <1>2, <1>3, <1>4, <1>5, <1>6 DEF ChannelNext

LEMMA LeavesStutter ==
  ASSUME LeavesInv, UNCHANGED channelVars
  PROVE  LeavesInv'
  <1>1. UNCHANGED <<leaf, leafWait, outcome, activeJobs, operations, jobs, thread, toolCall, ask,
                    channelFaults>>
    BY DEF channelVars, leafVars, callVars
  <1>2. ChannelTypeOK'
    BY <1>1 DEF LeavesInv, ChannelTypeOK
  <1>3. ASSUME NEW d \in Leaves PROVE OutcomeKnown(d)'
    BY <1>1, AsksStay, OutcomeStays
  <1>4. QED
    BY <1>1, <1>2, <1>3 DEF LeavesInv, LeafKnown, ReportKnown, WaitingLeaves, AbortKnown

\* An abort of the Tool call reaches every child it was admitted for, before,
\* during and after the thread's own cancels, and what the parent reads is true
\* of the children, for any number of leaves, requests and lost Workers
\* (cancelAdmitted, waitForCloudResult, pi-subagents-cloud-tool.ts).
THEOREM LeavesAreSound ==
  ChannelSpec => []LeavesSound
  <1>1. ChannelInit => LeavesInv
    BY LeavesStart
  <1>2. LeavesInv /\ [ChannelNext]_channelVars => LeavesInv'
    BY LeavesStep, LeavesStutter
  <1>3. LeavesInv => LeavesSound
    <2>1. SUFFICES ASSUME LeavesInv PROVE LeavesSound
      OBVIOUS
    <2>2. AbortReachesLeaves
      BY <2>1 DEF LeavesInv, AbortKnown, AbortReachesLeaves
    <2>3. ReportFaithful
      BY <2>1 DEF LeavesInv, OutcomeKnown, ReportKnown, ReportFaithful
    <2>4. QED
      BY <2>1, <2>2, <2>3 DEF LeavesInv, LeavesSound
  <1>4. QED
    BY <1>1, <1>2, <1>3, PTL DEF ChannelSpec
=============================================================================
