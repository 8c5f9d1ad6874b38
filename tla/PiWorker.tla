------------------------------ MODULE PiWorker -------------------------------
(***************************************************************************)
(* The loop of one Pi Worker (supervisor-host/postgres-pi-worker.ts): it   *)
(* scans the Run queue, admits what its lanes have room for, and executes  *)
(* it; a Child that a local parent delegates may be executed ahead of the  *)
(* scan (prioritizeSubagent); LISTEN/NOTIFY only cuts the wait between two *)
(* scans short.  Every await of the loop lets callbacks run in between, so *)
(* what was counted before it may be stale after it.                       *)
(*                                                                         *)
(* How a claim is won and a Run settled is the subject of RunLifecycle;    *)
(* here a claim is one step, and the row of a Run says who has it.         *)
(***************************************************************************)
EXTENDS Integers, Sequences, FiniteSets, SequencesExt

CONSTANTS
    Parents, Children,        \* execute commands of root and of Child Runs
    MaximumConcurrentRuns,
    MaxExecutions,            \* executions one behaviour starts
    MaxPoolFaults             \* lost connections, refused admissions, failed
                              \* executions and lost notifications, together

ASSUME PoolConstants ==
    /\ Parents \cap Children = {} /\ IsFiniteSet(Parents \cup Children)
    /\ MaximumConcurrentRuns \in Nat \ {0}
    /\ {MaxExecutions, MaxPoolFaults} \subseteq Nat

VARIABLES
    pool,        \* #state; "settling": stop awaits the executions it found
    loop,        \* where #run is, and what #fillCapacity holds over an await
    tracked,     \* #activeCommands: the execution entered for a command, or 0
    executions,  \* every execution begun, in the order it was begun
    awaited,     \* the executions stop awaits
    queueRow,    \* the Run's row and its outbox record
    asked,       \* cancellations of the Runs this Worker owns
    offered,     \* Children whose start has committed and not yet returned
    connected,   \* canClaimRuns: the host is ready and connected
    poolFaults

poolVars == <<pool, loop, tracked, executions, awaited, queueRow, asked,
              offered, connected, poolFaults>>

Commands == Parents \cup Children

Awaiting(stage) == [at |-> stage, found |-> {}, selected |-> {}]

PoolInit ==
    /\ pool = "idle" /\ loop = Awaiting("none")
    /\ tracked = [c \in Commands |-> 0] /\ executions = <<>> /\ awaited = {}
    /\ queueRow = [c \in Commands |-> "absent"]
    /\ asked = [c \in Commands |-> "no"] /\ offered = {}
    /\ connected = TRUE /\ poolFaults = 0

PoolFault == poolFaults < MaxPoolFaults /\ poolFaults' = poolFaults + 1

Entered == {c \in Commands : tracked[c] # 0}

\* The callback of a notification or of an ended execution: it ends a wait,
\* and does nothing while the loop is busy.
wake == loop' = IF loop.at = "wait" THEN Awaiting("cancel") ELSE loop

begin(c, stage) == Append(executions, [command |-> c, at |-> stage])

-----------------------------------------------------------------------------
(* What the rest of the system does.                                       *)

\* A Turn is accepted, or a parent that executes here has a Child admitted.
enqueue(c) ==
    /\ queueRow[c] = "absent"
    /\ \/ c \in Parents /\ UNCHANGED offered
       \/ /\ c \in Children /\ \E p \in Parents : queueRow[p] = "here"
          /\ offered' = offered \cup {c}
    /\ queueRow' = [queueRow EXCEPT ![c] = "queued"]
    /\ \/ wake /\ UNCHANGED poolFaults
       \/ UNCHANGED loop /\ PoolFault
    /\ UNCHANGED <<pool, tracked, executions, awaited, asked, connected>>

claimedElsewhere(c) ==
    /\ queueRow[c] = "queued" /\ queueRow' = [queueRow EXCEPT ![c] = "done"]
    /\ UNCHANGED <<pool, loop, tracked, executions, awaited, asked, offered,
                   connected, poolFaults>>

askCancellation(c) ==
    /\ queueRow[c] = "here" /\ asked[c] = "no"
    /\ asked' = [asked EXCEPT ![c] = "open"]
    /\ UNCHANGED <<pool, loop, tracked, executions, awaited, queueRow, offered,
                   connected, poolFaults>>

canClaimRuns ==
    /\ \/ connected /\ PoolFault
       \/ ~connected /\ UNCHANGED poolFaults
    /\ connected' = ~connected
    /\ UNCHANGED <<pool, loop, tracked, executions, awaited, queueRow, asked, offered>>

-----------------------------------------------------------------------------
(* The loop.                                                               *)

startWorker ==
    /\ pool = "idle"
    /\ \/ pool' = "running" /\ loop' = Awaiting("cancel") /\ UNCHANGED poolFaults
       \/ pool' = "stopped" /\ UNCHANGED loop /\ PoolFault
    /\ UNCHANGED <<tracked, executions, awaited, queueRow, asked, offered, connected>>

\* #dispatchCancellations reads the open cancellations of the Runs it owns,
\* unless the Worker has no execution entered.
dispatchCancellations ==
    /\ loop.at = "cancel"
    /\ loop' = Awaiting("scan")
    /\ asked' = [c \in Commands |->
                   IF Entered # {} /\ asked[c] = "open" /\ queueRow[c] = "here"
                   THEN "sent" ELSE asked[c]]
    /\ UNCHANGED <<pool, tracked, executions, awaited, queueRow, offered,
                   connected, poolFaults>>

\* The loop's next turn, or its end once stop has aborted it.
waitForWake == Awaiting(IF pool = "running" THEN "wait" ELSE "ended")

\* #fillCapacity up to the answer of #executionReferences.
executionReferences ==
    /\ loop.at = "scan"
    /\ loop' = IF connected /\ Cardinality(Entered) < MaximumConcurrentRuns
               THEN [at |-> "select", selected |-> {},
                     found |-> {c \in Commands : queueRow[c] = "queued"}]
               ELSE waitForWake
    /\ UNCHANGED <<pool, tracked, executions, awaited, queueRow, asked, offered,
                   connected, poolFaults>>

maximumParents == IF MaximumConcurrentRuns < 2 THEN 1 ELSE MaximumConcurrentRuns - 1

Fits(chosen) ==
    /\ Cardinality(Entered) + Cardinality(chosen) <= MaximumConcurrentRuns
    /\ Cardinality((Entered \cup chosen) \cap Parents) <= maximumParents

\* Children come first in the answer; everything that still fits is taken.
Selection(chosen) ==
    LET candidates == loop.found \ Entered
    IN  /\ chosen \subseteq candidates
        /\ Fits(chosen)
        /\ \A c \in candidates \ chosen : ~Fits(chosen \cup {c})
        /\ chosen \cap Parents # {} => candidates \cap Children \subseteq chosen

selectPiWorkerExecutionReferences ==
    /\ loop.at = "select"
    /\ \E chosen \in SUBSET loop.found :
          /\ Selection(chosen)
          /\ loop' = IF chosen = {} THEN waitForWake
                     ELSE [Awaiting("admit") EXCEPT !.selected = chosen]
    /\ UNCHANGED <<pool, tracked, executions, awaited, queueRow, asked, offered,
                   connected, poolFaults>>

\* Mutant: every command of a batch is entered with the batch's first execution.
fillCapacityBatch ==
    LET chosen == SetToSeq(loop.selected)
    IN  /\ loop.at = "admit"
        /\ Len(executions) + Len(chosen) <= MaxExecutions
        /\ executions' = executions \o
             [i \in 1..Len(chosen) |-> [command |-> chosen[i], at |-> "claim"]]
        /\ tracked' = [c \in Commands |->
             IF c \in loop.selected THEN Len(executions) + 1 ELSE tracked[c]]
        /\ loop' = waitForWake
        /\ UNCHANGED <<pool, awaited, queueRow, asked, offered, connected, poolFaults>>

\* #fillCapacity from the answer of admitRunClaims on.
fillCapacity ==
    LET chosen == SetToSeq(loop.selected)
    IN  /\ loop.at = "admit"
        /\ \/ /\ Len(executions) + Len(chosen) <= MaxExecutions
              /\ executions' = executions \o
                   [i \in 1..Len(chosen) |-> [command |-> chosen[i], at |-> "claim"]]
              /\ tracked' = [c \in Commands |->
                   IF c \in loop.selected
                   THEN Len(executions) + (CHOOSE i \in 1..Len(chosen) : chosen[i] = c)
                   ELSE tracked[c]]
              /\ UNCHANGED poolFaults
           \/ PoolFault /\ UNCHANGED <<tracked, executions>>
        /\ loop' = waitForWake
        /\ UNCHANGED <<pool, awaited, queueRow, asked, offered, connected>>

\* The poll interval ends.
pollAgain ==
    /\ loop.at = "wait" /\ wake
    /\ UNCHANGED <<pool, tracked, executions, awaited, queueRow, asked, offered,
                   connected, poolFaults>>

-----------------------------------------------------------------------------
(* Executions.                                                             *)

\* The finally of an execution: it removes the entry of its command, whoever
\* entered it, and wakes the loop.
finish(i) ==
    /\ executions' = [executions EXCEPT ![i].at = "ended"]
    /\ tracked' = [tracked EXCEPT ![executions[i].command] = 0]
    /\ wake

canPrioritizeLocalSubagent(c) ==
    tracked[c] = 0 /\ Cardinality(Entered) < MaximumConcurrentRuns

\* The host offers a Child it has just started to its own Worker.
prioritizeSubagent(c) ==
    /\ c \in offered /\ offered' = offered \ {c}
    /\ IF pool = "running" /\ connected /\ canPrioritizeLocalSubagent(c)
       THEN /\ Len(executions) < MaxExecutions
            /\ executions' = begin(c, "delay")
            /\ tracked' = [tracked EXCEPT ![c] = Len(executions) + 1]
       ELSE UNCHANGED <<tracked, executions>>
    /\ UNCHANGED <<pool, loop, awaited, queueRow, asked, connected, poolFaults>>

\* Its short delay ends, and the execution plane is asked.
delayEnds(i) ==
    /\ executions[i].at = "delay"
    /\ IF pool = "running" /\ connected
       THEN executions' = [executions EXCEPT ![i].at = "admit"] /\ UNCHANGED <<tracked, loop>>
       ELSE finish(i)
    /\ UNCHANGED <<pool, awaited, queueRow, asked, offered, connected, poolFaults>>

admitRunClaims(i) ==
    /\ executions[i].at = "admit"
    /\ \/ /\ executions' = [executions EXCEPT ![i].at = "claim"]
          /\ UNCHANGED <<tracked, loop, poolFaults>>
       \/ finish(i) /\ PoolFault
    /\ UNCHANGED <<pool, awaited, queueRow, asked, offered, connected>>

\* dispatchCommand: the claim is won, or the command is somebody else's.
dispatchCommand(i) ==
    LET c == executions[i].command
    IN  /\ executions[i].at = "claim"
        /\ IF queueRow[c] = "queued"
           THEN /\ queueRow' = [queueRow EXCEPT ![c] = "here"]
                /\ executions' = [executions EXCEPT ![i].at = "run"]
                /\ UNCHANGED <<tracked, loop>>
           ELSE finish(i) /\ UNCHANGED queueRow
        /\ UNCHANGED <<pool, awaited, asked, offered, connected, poolFaults>>

\* The Run settles, or is deferred and queued again.
settleDispatchResult(i) ==
    LET c == executions[i].command
    IN  /\ executions[i].at = "run"
        /\ \/ queueRow' = [queueRow EXCEPT ![c] = "done"] /\ UNCHANGED poolFaults
           \/ queueRow' = [queueRow EXCEPT ![c] = "queued"] /\ PoolFault
        /\ finish(i)
        /\ UNCHANGED <<pool, awaited, asked, offered, connected>>

-----------------------------------------------------------------------------
(* Stopping.                                                               *)

stop ==
    /\ pool = "running" /\ pool' = "stopping"
    /\ loop' = IF loop.at = "wait" THEN Awaiting("ended") ELSE loop
    /\ UNCHANGED <<tracked, executions, awaited, queueRow, asked, offered,
                   connected, poolFaults>>

\* The loop has ended; what is entered now is awaited.
awaitExecutions ==
    /\ pool = "stopping" /\ loop.at = "ended" /\ pool' = "settling"
    /\ awaited' = {tracked[c] : c \in Entered}
    /\ UNCHANGED <<loop, tracked, executions, queueRow, asked, offered, connected, poolFaults>>

stopped ==
    /\ pool = "settling" /\ \A i \in awaited : executions[i].at = "ended"
    /\ pool' = "stopped"
    /\ UNCHANGED <<loop, tracked, executions, awaited, queueRow, asked, offered,
                   connected, poolFaults>>

LoopStep ==
    \/ dispatchCancellations \/ executionReferences
    \/ selectPiWorkerExecutionReferences \/ fillCapacity \/ pollAgain

ExecutionStep(i) ==
    \/ delayEnds(i) \/ admitRunClaims(i) \/ dispatchCommand(i) \/ settleDispatchResult(i)

PoolNext ==
    \/ \E c \in Commands : enqueue(c) \/ claimedElsewhere(c) \/ askCancellation(c)
    \/ canClaimRuns \/ startWorker \/ LoopStep
    \/ \E c \in Children : prioritizeSubagent(c)
    \/ \E i \in DOMAIN executions : ExecutionStep(i)
    \/ stop \/ awaitExecutions \/ stopped

PoolSpec == PoolInit /\ [][PoolNext]_poolVars

-----------------------------------------------------------------------------
(* Properties.                                                             *)

Executing(commands) == {i \in DOMAIN executions :
                          executions[i].command \in commands /\ executions[i].at # "ended"}

\* Types; and a command is entered only while an execution of it is under way.
PoolTypeOK ==
    /\ pool \in {"idle", "running", "stopping", "settling", "stopped"}
    /\ loop \in [at : {"none", "cancel", "scan", "select", "admit", "wait", "ended"},
                 found : SUBSET Commands, selected : SUBSET Commands]
    /\ queueRow \in [Commands -> {"absent", "queued", "here", "done"}]
    /\ asked \in [Commands -> {"no", "open", "sent"}]
    /\ \A c \in Entered : executions[tracked[c]].command = c

\* A lane stays free of parents for the Children they wait for, although the
\* count is taken before the execution plane is asked.
ParentLanesHeld == Cardinality(Executing(Parents)) <= maximumParents

\* When stop returns, no root Run executes and none will: the host closes the
\* database next.
StoppedParentsQuiet == pool = "stopped" => Executing(Parents) = {}

\* The Worker's lanes: what is entered is under way, one lane is left for
\* Children, and a stopped Worker is quiet.
LanesSound == PoolTypeOK /\ ParentLanesHeld /\ StoppedParentsQuiet
==============================================================================
