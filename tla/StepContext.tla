---------------------------- MODULE StepContext ----------------------------
(***************************************************************************)
(* What the model is told before each of its samplings, and under which    *)
(* identity the sampling is recorded.  Before every provider request the   *)
(* runner freezes a Cloud Step: PiSessionWorldStateController compares the *)
(* Tool Sandbox with the state the Session last recorded, appends a        *)
(* message to the Session where the model has to know of a change, and     *)
(* appends the new state; the step's number goes into the headers of the   *)
(* request, from which the Model Gateway takes its ledger key.  Compaction *)
(* requests get Steps of their own.  A Worker may die between any two of   *)
(* these appends, and the next Run starts from what the Session holds.     *)
(***************************************************************************)
EXTENDS Naturals, Sequences, FiniteSets

CONSTANTS
  Activations,       \* the Tool Sandboxes (activationId)
  Environments,      \* digests of the execution environment
  NoActivation,      \* continuityId null
  ToolBudget,        \* remainingToolCalls of a Run
  MaxContextRuns,    \* bound: Runs of the Session
  MaxContextSteps    \* bound: Cloud Steps of a Run

ASSUME ContextBounds ==
  /\ NoActivation \notin Activations
  /\ ToolBudget \in Nat /\ MaxContextRuns \in Nat /\ MaxContextSteps \in Nat

VARIABLES
  journal,    \* the Session's custom entries, oldest first
  agentRun,   \* the Run that holds the Session, with its controller's fields
  requests,   \* the provider requests of the current Run: step identities
  known       \* history: the Sandbox in which the model last ran a tool

contextVars == <<journal, agentRun, requests, known>>

World(status, activation, environment) ==
  [kind |-> "state", status |-> status, activation |-> activation, environment |-> environment]

ToldWorld(kind) ==
  [kind |-> kind, status |-> "none", activation |-> NoActivation, environment |-> "none"]

NoWorld == World("none", NoActivation, "none")

\* The newest state entry of the Session (PiSessionWorldStateController.create).
latestRuntimeWorldState ==
  LET states == {i \in DOMAIN journal : journal[i].kind = "state"}
  IN IF states = {} THEN NoWorld
     ELSE journal[CHOOSE i \in states : \A j \in states : j <= i]

NoAgentRun ==
  [phase |-> "idle", number |-> 0, activation |-> NoActivation, environment |-> "none",
   status |-> "none", previous |-> NoWorld, then |-> "none", purpose |-> "none",
   sequence |-> 0, step |-> 0, issued |-> FALSE, calls |-> 0, shown |-> {}]

ContextInit ==
  /\ journal = <<>>
  /\ agentRun = NoAgentRun
  /\ requests = <<>>
  /\ known = NoActivation

\* The Run's controllers: a warm Sandbox is active from the start, a cold one is
\* a new Sandbox and nothing has run in it.
startContext(activation, environment, warm) ==
  /\ agentRun.phase = "idle" /\ agentRun.number < MaxContextRuns
  /\ ~warm => activation # known
  /\ agentRun' = [NoAgentRun EXCEPT !.phase = "ready", !.number = agentRun.number + 1,
                              !.activation = activation, !.environment = environment,
                              !.status = IF warm THEN "active" ELSE "inactive",
                              !.previous = latestRuntimeWorldState, !.calls = ToolBudget]
  /\ requests' = <<>>
  /\ UNCHANGED <<journal, known>>

\* #current
CurrentStep ==
  World(agentRun.status,
        IF agentRun.status = "inactive" THEN NoActivation ELSE agentRun.activation,
        agentRun.environment)

\* The messages #reconcile owes the model.
material(previous, current) ==
  {k \in {"reset", "environment"} :
     \/ k = "reset" /\ previous.status = "active"
        /\ (current.status # "active" \/ previous.activation # current.activation)
     \/ k = "environment" /\ previous # NoWorld /\ previous.environment # current.environment}

\* #reconcile appends one message at a time and the state last; agentRun.then is
\* what waits for it.
owed == {k \in material(agentRun.previous, CurrentStep) : k \notin agentRun.shown}

appendMessage(k) ==
  /\ agentRun.phase = "reconcile" /\ k \in owed
  /\ k = "environment" => "reset" \notin owed
  /\ journal' = Append(journal, ToldWorld(k))
  /\ agentRun' = [agentRun EXCEPT !.shown = @ \cup {k}]
  /\ UNCHANGED <<requests, known>>

\* The state is the last entry; an unchanged world appends nothing.
appendState ==
  /\ agentRun.phase = "reconcile" /\ owed = {}
  /\ journal' = IF agentRun.previous = CurrentStep THEN journal ELSE Append(journal, CurrentStep)
  /\ agentRun' = [agentRun EXCEPT !.phase = agentRun.then, !.previous = CurrentStep, !.shown = {}]
  /\ UNCHANGED <<requests, known>>

\* transformContext, or a maintenance request whose headers were used already:
\* the step is forgotten, the world reconciled, then a new step frozen.
captureStep(purpose) ==
  /\ agentRun.phase = "ready" \/ (purpose = "maintenance" /\ agentRun.phase = "compacting")
  /\ agentRun.sequence < MaxContextSteps
  /\ agentRun' = [agentRun EXCEPT !.phase = "reconcile", !.then = "captured",
                                  !.purpose = purpose, !.step = 0]
  /\ UNCHANGED <<journal, requests, known>>

\* createCloudStepContext numbers the steps of the Attempt.
freezeStep ==
  /\ agentRun.phase = "captured"
  /\ agentRun' = [agentRun EXCEPT !.phase = "frozen", !.sequence = @ + 1,
                                  !.step = agentRun.sequence + 1, !.issued = FALSE]
  /\ UNCHANGED <<journal, requests, known>>

\* before_provider_headers: a second request never reuses a step's identity.
mayIssue == ~agentRun.issued

issueHeaders ==
  /\ agentRun.phase \in {"frozen", "compacting"} /\ agentRun.step # 0
  /\ mayIssue
  /\ Len(requests) < MaxContextSteps
  /\ requests' = Append(requests, [step |-> agentRun.step, purpose |-> agentRun.purpose])
  /\ agentRun' = [agentRun EXCEPT !.issued = TRUE,
                    !.phase = IF agentRun.purpose = "agent" THEN "answered" ELSE "compacting"]
  /\ UNCHANGED <<journal, known>>

\* The compaction is over; the Agent's own context follows.
compactionDone ==
  /\ agentRun.phase = "compacting" /\ agentRun.issued
  /\ agentRun' = [agentRun EXCEPT !.phase = "ready"]
  /\ UNCHANGED <<journal, requests, known>>

\* mutant: the operation leaves before the state is recorded.
consumeToolCallFirst ==
  /\ agentRun.phase = "answered" /\ agentRun.calls > 0
  /\ agentRun' = [agentRun EXCEPT !.calls = @ - 1, !.phase = "operating"]
  /\ UNCHANGED <<journal, requests, known>>

\* The model asks for a tool: consumeToolCall, then recordActive before the
\* operation leaves.
consumeToolCall ==
  /\ agentRun.phase = "answered" /\ agentRun.calls > 0
  /\ agentRun' = [agentRun EXCEPT !.calls = @ - 1, !.status = "active",
                                  !.phase = "reconcile", !.then = "operating"]
  /\ UNCHANGED <<journal, requests, known>>

\* The budget is used up: the model gets an error for an answer.
toolBudgetExhausted ==
  /\ agentRun.phase = "answered" /\ agentRun.calls = 0
  /\ agentRun' = [agentRun EXCEPT !.phase = "ready"]
  /\ UNCHANGED <<journal, requests, known>>

\* The operation runs in the Sandbox; its answer may be known to be lost.
operate(lost) ==
  /\ agentRun.phase = "operating"
  /\ known' = agentRun.activation
  /\ IF lost
     THEN agentRun' = [agentRun EXCEPT !.status = "unavailable",
                                       !.phase = "reconcile", !.then = "ready"]
     ELSE agentRun' = [agentRun EXCEPT !.phase = "ready"]
  /\ UNCHANGED <<journal, requests>>

\* The Run is over; one that fails or is cancelled, wherever it is, records the
\* Sandbox as gone if it started a tool.
runEnds(failed) ==
  /\ \/ agentRun.phase = "answered"
     \/ failed /\ agentRun.phase \in {"ready", "frozen", "compacting"}
  /\ IF failed /\ agentRun.calls < ToolBudget
     THEN agentRun' = [agentRun EXCEPT !.status = "unavailable",
                                       !.phase = "reconcile", !.then = "over"]
     ELSE agentRun' = [agentRun EXCEPT !.phase = "over"]
  /\ UNCHANGED <<journal, requests, known>>

closeRun ==
  /\ agentRun.phase = "over"
  /\ agentRun' = [NoAgentRun EXCEPT !.number = agentRun.number]
  /\ UNCHANGED <<journal, requests, known>>

\* The Worker dies, or the Run loses its authority, anywhere in between.
runDies ==
  /\ agentRun.phase \notin {"idle", "over"}
  /\ agentRun' = [NoAgentRun EXCEPT !.number = agentRun.number]
  /\ UNCHANGED <<journal, requests, known>>

ContextNext ==
  \/ \E a \in Activations, e \in Environments, warm \in BOOLEAN : startContext(a, e, warm)
  \/ \E k \in {"reset", "environment"} : appendMessage(k)
  \/ appendState \/ freezeStep \/ issueHeaders \/ compactionDone \/ consumeToolCall
  \/ toolBudgetExhausted
  \/ \E purpose \in {"agent", "maintenance"} : captureStep(purpose)
  \/ \E b \in BOOLEAN : operate(b) \/ runEnds(b)
  \/ closeRun \/ runDies

ContextSpec == ContextInit /\ [][ContextNext]_contextVars
-----------------------------------------------------------------------------
\* The Run has its types, and stays within its Tool budget.
ContextTypeOK ==
  /\ agentRun.number \in 0..MaxContextRuns /\ agentRun.calls \in 0..ToolBudget
  /\ agentRun.sequence \in 0..MaxContextSteps /\ agentRun.step \in 0..agentRun.sequence
  /\ agentRun.status \in {"none", "inactive", "active", "unavailable"}
  /\ agentRun.phase \in {"idle", "ready", "reconcile", "captured", "frozen", "compacting",
                         "answered", "operating", "over"}
  /\ known \in Activations \cup {NoActivation}
  /\ \A i \in DOMAIN journal : journal[i].kind \in {"state", "reset", "environment"}

\* No two provider requests of an Attempt carry the same step identity, so the
\* Model Gateway's ledger, whose key it is, never takes one for a replay of the
\* other; maintenance requests of compaction are the ones that could.
RequestsDistinct ==
  \A i, j \in DOMAIN requests : i # j => requests[i].step # requests[j].step

\* Some reset message stands in the Session after the last entry that says
\* Sandbox a is active.
ResetAfter(a) ==
  \E i \in DOMAIN journal :
    /\ journal[i].kind = "reset"
    /\ \A j \in DOMAIN journal :
         journal[j].kind = "state" /\ journal[j].status = "active" /\ journal[j].activation = a
           => j < i

\* A model that ran a tool in one Sandbox and is sampled for a Run in another,
\* or after the Sandbox was lost, has the reset message in its context: however
\* the earlier Run ended, and wherever a Worker died between two appends.
ModelTold ==
  /\ agentRun.phase \in {"frozen", "answered"} /\ known # NoActivation
  /\ agentRun.activation # known \/ agentRun.status = "unavailable"
  => ResetAfter(known)

\* The Sandbox in which the model's last tool ran is on record in the Session as
\* active before the tool ran, so a later Run can tell it was replaced.
ActiveOnRecord ==
  known # NoActivation =>
    \E i \in DOMAIN journal :
      journal[i].kind = "state" /\ journal[i].status = "active" /\ journal[i].activation = known

\* The Cloud Steps of a Run: each request with an identity of its own, made by a
\* model that knows what became of the Sandbox its Tools ran in.
ContextSound == ContextTypeOK /\ RequestsDistinct /\ ModelTold /\ ActiveOnRecord
=============================================================================
