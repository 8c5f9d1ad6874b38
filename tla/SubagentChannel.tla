--------------------------- MODULE SubagentChannel ---------------------------
(***************************************************************************)
(* The subagent Tool of a parent Run and the supervisor channel of its     *)
(* children (sandbox-supervisor/pi-subagents-cloud-tool.ts and             *)
(* pi-subagents-cloud-worker.ts, supervisor-host/                          *)
(* postgres-subagent-supervisor-channel.ts, and the adapter in             *)
(* supervisor-host/runtime.ts).                                            *)
(*                                                                         *)
(* The Tool runs pi-subagents in a thread.  For each leaf of the workflow  *)
(* the thread asks the Worker by message to start a durable child, polls   *)
(* it, and reports when no wait is left.  An abort goes to the thread, and *)
(* the Worker cancels what the thread has not before it settles the call.  *)
(* A child that asks its parent waits for a row to be answered.            *)
(***************************************************************************)
EXTENDS Naturals, FiniteSets

CONSTANTS
    Leaves,         \* children one Tool call may start
    Asks,           \* rows of subagent_supervisor_requests
    Replies,        \* what a parent may answer
    NoReply, NoLeaf,
    MaxChannelFaults  \* bound: lost Workers of children and failed cancels

ASSUME ChannelConstants ==
    /\ MaxChannelFaults \in Nat /\ IsFiniteSet(Leaves)
    /\ NoReply \notin Replies /\ NoLeaf \notin Leaves

VARIABLES
    leaf,           \* the durable execution of a child
    leafWait,       \* waitForCloudResult of the thread
    outcome,        \* completedCloudResults, failedCloudResults, blockedCloudResults
    operations,     \* providerOperations: what the Worker does for the thread
    activeJobs,     \* activeProviderJobs of the thread
    jobs,           \* [admitted, cancelled]: the Worker's sets; failed: cancels that failed
    thread,         \* the thread's abort, and what it has posted
    toolCall,           \* the Tool call in the Worker
    ask,
    channelFaults

leafVars == <<leafWait, outcome, activeJobs>>
callVars == <<operations, jobs, thread, toolCall>>
channelVars == <<leaf, leafVars, callVars, ask, channelFaults>>

Ended == {"completed", "failed", "cancelled"}

NoAsk == [of |-> NoLeaf, expects |-> FALSE, reply |-> NoReply, expired |-> FALSE,
          contact |-> "none"]

\* The rows, the thread and the Tool call have their types.
ChannelTypeOK ==
    /\ leaf \in [Leaves -> {"none", "queued", "running"} \cup Ended]
    /\ leafWait \in [Leaves -> {"none", "starting", "started", "cancelling", "polling",
                                "result", "ended"}]
    /\ outcome \in [Leaves -> {"none", "completed", "failed", "blocked"}]
    /\ operations \subseteq Leaves \X {"start", "cancel"}
    /\ activeJobs \subseteq Leaves
    /\ jobs \in [admitted : SUBSET Leaves, cancelled : SUBSET Leaves, failed : SUBSET Leaves]
    /\ thread \in [abort : {"none", "sent", "cancelling", "aborted"},
                   posted : {"none", "completed", "failed", "blocked", "failure"}]
    /\ toolCall \in [at : {"running", "settling", "settled"}, aborting : BOOLEAN]
    /\ ask \in [Asks -> [of : Leaves \cup {NoLeaf}, expects : BOOLEAN,
                         reply : Replies \cup {NoReply}, expired : BOOLEAN,
                         contact : {"none", "waiting", "returned", "timed_out", "lost"}]]
    /\ channelFaults \in 0..MaxChannelFaults

ChannelInit ==
    /\ leaf = [c \in Leaves |-> "none"] /\ leafWait = [c \in Leaves |-> "none"]
    /\ outcome = [c \in Leaves |-> "none"] /\ operations = {} /\ activeJobs = {}
    /\ jobs = [admitted |-> {}, cancelled |-> {}, failed |-> {}]
    /\ thread = [abort |-> "none", posted |-> "none"]
    /\ toolCall = [at |-> "running", aborting |-> FALSE]
    /\ ask = [q \in Asks |-> NoAsk] /\ channelFaults = 0

ThreadRuns == toolCall.at # "settled" /\ thread.posted = "none"

-----------------------------------------------------------------------------
(* The Worker: executeProviderRequest for the thread.                       *)

\* start of the job provider: the child is admitted (see SubagentTree), or
\* refused; the thread hears of either.
startJob(c) ==
    /\ <<c, "start">> \in operations /\ operations' = operations \ {<<c, "start">>}
    /\ \/ /\ leaf' = [leaf EXCEPT ![c] = "queued"]
          /\ jobs' = [jobs EXCEPT !.admitted = @ \cup {c}]
          /\ leafWait' = [leafWait EXCEPT ![c] = "started"]
       \/ leafWait' = [leafWait EXCEPT ![c] = "ended"] /\ UNCHANGED <<leaf, jobs>>
    /\ UNCHANGED <<outcome, activeJobs, thread, toolCall, ask, channelFaults>>

Cancelled(c) == [leaf EXCEPT ![c] = IF @ \in Ended THEN @ ELSE "cancelled"]

\* cancel of the job provider, or its failure.
cancelJob(c) ==
    /\ <<c, "cancel">> \in operations /\ operations' = operations \ {<<c, "cancel">>}
    /\ \/ leaf' = Cancelled(c) /\ jobs' = [jobs EXCEPT !.cancelled = @ \cup {c}]
          /\ UNCHANGED channelFaults
       \/ channelFaults < MaxChannelFaults /\ channelFaults' = channelFaults + 1
          /\ UNCHANGED <<leaf, jobs>>
    /\ leafWait' = [leafWait EXCEPT ![c] = IF @ = "cancelling" THEN "ended" ELSE @]
    /\ activeJobs' = IF leafWait[c] = "cancelling" THEN activeJobs \ {c} ELSE activeJobs
    /\ UNCHANGED <<outcome, thread, toolCall, ask>>

-----------------------------------------------------------------------------
(* The thread.                                                              *)

\* startShimBridge: a leaf of the workflow calls, and a start is asked for.
ShimCalls(c) ==
    /\ ThreadRuns /\ leafWait[c] = "none"
    /\ leafWait' = [leafWait EXCEPT ![c] = "starting"]
    /\ operations' = operations \cup {<<c, "start">>}
    /\ UNCHANGED <<leaf, outcome, activeJobs, jobs, thread, toolCall, ask, channelFaults>>

\* The start is answered: the job is active, and cancelled at once when the
\* abort has come through meanwhile.
startAnswered(c) ==
    /\ toolCall.at # "settled" /\ leafWait[c] = "started" /\ activeJobs' = activeJobs \cup {c}
    /\ IF thread.abort = "aborted"
         THEN /\ leafWait' = [leafWait EXCEPT ![c] = "cancelling"]
              /\ operations' = operations \cup {<<c, "cancel">>}
         ELSE leafWait' = [leafWait EXCEPT ![c] = "polling"] /\ UNCHANGED operations
    /\ UNCHANGED <<leaf, outcome, jobs, thread, toolCall, ask, channelFaults>>

\* latestForExecution: a request of the child that still wants an answer.
Pending(c) == {q \in Asks : /\ ask[q].of = c /\ ask[q].expects
                            /\ ask[q].reply = NoReply /\ ~ask[q].expired}

\* One round of the poll: the child is blocked on its parent, whatever state
\* it is in, or it has ended, or the wait was aborted.
pollStatus(c) ==
    /\ toolCall.at # "settled" /\ leafWait[c] = "polling"
    /\ \/ /\ thread.abort = "aborted"
          /\ leafWait' = [leafWait EXCEPT ![c] = "ended"] /\ UNCHANGED outcome
       \/ /\ thread.abort # "aborted" /\ Pending(c) # {}
          /\ leafWait' = [leafWait EXCEPT ![c] = "ended"]
          /\ outcome' = [outcome EXCEPT ![c] = "blocked"]
       \/ /\ thread.abort # "aborted" /\ Pending(c) = {} /\ leaf[c] \in Ended
          /\ leafWait' = [leafWait EXCEPT ![c] = "result"] /\ UNCHANGED outcome
    /\ UNCHANGED <<leaf, activeJobs, callVars, ask, channelFaults>>

\* The five minutes of a wait are over: it fails, and the child goes on.
pollTimesOut(c) ==
    /\ toolCall.at # "settled" /\ leafWait[c] = "polling"
    /\ leafWait' = [leafWait EXCEPT ![c] = "ended"]
    /\ UNCHANGED <<leaf, outcome, activeJobs, callVars, ask, channelFaults>>

\* result of a child that has ended.
readResult(c) ==
    /\ toolCall.at # "settled" /\ leafWait[c] = "result"
    /\ leafWait' = [leafWait EXCEPT ![c] = "ended"]
    /\ outcome' = [outcome EXCEPT ![c] = IF leaf[c] = "completed" THEN "completed" ELSE "failed"]
    /\ activeJobs' = activeJobs \ {c}
    /\ UNCHANGED <<leaf, callVars, ask, channelFaults>>

\* The thread has the abort: the jobs that are active now are cancelled, and
\* the abort is signalled when these cancels have ended.
threadAborts ==
    /\ toolCall.at # "settled" /\ thread.abort = "sent"
    /\ thread' = [thread EXCEPT !.abort = "cancelling"]
    /\ operations' = operations \cup (activeJobs \X {"cancel"})
    /\ UNCHANGED <<leaf, leafVars, jobs, toolCall, ask, channelFaults>>

abortSignalled ==
    /\ toolCall.at # "settled" /\ thread.abort = "cancelling"
    /\ \A c \in Leaves : <<c, "cancel">> \notin operations
    /\ thread' = [thread EXCEPT !.abort = "aborted"]
    /\ UNCHANGED <<leaf, leafVars, operations, jobs, toolCall, ask, channelFaults>>

WaitingLeaves == {c \in Leaves : leafWait[c] \notin {"none", "ended"}}

\* What the Tool reports of a workflow: what is blocked, or else what has
\* failed, or else that it is completed.
Report == IF \E c \in Leaves : outcome[c] = "blocked" THEN "blocked"
          ELSE IF \E c \in Leaves : outcome[c] = "failed" THEN "failed"
          ELSE "completed"

\* The workflow has ended and no wait is left.
postResult ==
    /\ ThreadRuns /\ thread.abort # "aborted" /\ WaitingLeaves = {}
    /\ \E c \in Leaves : leafWait[c] # "none"
    /\ thread' = [thread EXCEPT !.posted = Report]
    /\ UNCHANGED <<leaf, leafVars, operations, jobs, toolCall, ask, channelFaults>>

\* The workflow fails: of the abort, while waits may still be under way, or
\* of itself.
postFailure ==
    /\ ThreadRuns
    /\ thread' = [thread EXCEPT !.posted = "failure"]
    /\ UNCHANGED <<leaf, leafVars, operations, jobs, toolCall, ask, channelFaults>>

-----------------------------------------------------------------------------
(* The Tool call.                                                           *)

AbortCall ==
    /\ toolCall.at # "settled" /\ ~toolCall.aborting
    /\ toolCall' = [toolCall EXCEPT !.aborting = TRUE] /\ thread' = [thread EXCEPT !.abort = "sent"]
    /\ UNCHANGED <<leaf, leafVars, operations, jobs, ask, channelFaults>>

\* settle: at once, or after what was admitted has been cancelled.
settle ==
    /\ toolCall.at = "running" /\ thread.posted # "none"
    /\ toolCall' = [toolCall EXCEPT !.at = IF toolCall.aborting THEN "settling" ELSE "settled"]
    /\ UNCHANGED <<leaf, leafVars, operations, jobs, thread, ask, channelFaults>>

\* Mutant: nothing is waited for.
OperationsIgnored == TRUE

\* cancelAdmitted waits for what the thread has asked for.
operationsDone == operations = {}

\* cancelAdmitted and finalize: each admitted job that no cancel has reached
\* is cancelled, a cancel that fails is ignored.
cancelAdmitted ==
    LET left == jobs.admitted \ jobs.cancelled
    IN  /\ toolCall.at = "settling" /\ operationsDone
        /\ \E lost \in SUBSET left :
              /\ channelFaults + Cardinality(lost) <= MaxChannelFaults
              /\ channelFaults' = channelFaults + Cardinality(lost)
              /\ leaf' = [c \in Leaves |-> IF c \in left \ lost THEN Cancelled(c)[c] ELSE leaf[c]]
              /\ jobs' = [jobs EXCEPT !.cancelled = @ \cup (left \ lost),
                                      !.failed = @ \cup lost]
        /\ toolCall' = [toolCall EXCEPT !.at = "settled"]
        /\ UNCHANGED <<leafVars, operations, thread, ask>>

-----------------------------------------------------------------------------
(* The children and the supervisor channel.                                 *)

Calling(c) == {q \in Asks : ask[q].of = c /\ ask[q].contact = "waiting"}

ChildStarts(c) ==
    /\ leaf[c] = "queued" /\ leaf' = [leaf EXCEPT ![c] = "running"]
    /\ UNCHANGED <<leafVars, callVars, ask, channelFaults>>

ChildEnds(c, state) ==
    /\ leaf[c] = "running" /\ Calling(c) = {} /\ leaf' = [leaf EXCEPT ![c] = state]
    /\ UNCHANGED <<leafVars, callVars, ask, channelFaults>>

\* The Worker of the child is lost, or its Run is cancelled, with the wait of
\* the Tool in it; a takeover runs the child again.
ChildLosesWorker(c) ==
    /\ Calling(c) # {}
    /\ IF leaf[c] = "running"
         THEN /\ channelFaults < MaxChannelFaults /\ channelFaults' = channelFaults + 1
              /\ leaf' = [leaf EXCEPT ![c] = "queued"]
         ELSE UNCHANGED <<leaf, channelFaults>>
    /\ ask' = [q \in Asks |-> IF q \in Calling(c) THEN [ask[q] EXCEPT !.contact = "lost"]
                                                  ELSE ask[q]]
    /\ UNCHANGED <<leafVars, callVars>>

\* contact: the row, and for a progress update that is all.
contact(c, q, expects) ==
    /\ leaf[c] = "running" /\ Calling(c) = {} /\ ask[q].of = NoLeaf
    /\ ask' = [ask EXCEPT ![q] = [NoAsk EXCEPT !.of = c, !.expects = expects,
                  !.contact = IF expects THEN "waiting" ELSE "returned"]]
    /\ UNCHANGED <<leaf, leafVars, callVars, channelFaults>>

RequestExpires(q) ==
    /\ ask[q].expects /\ ~ask[q].expired
    /\ ask' = [ask EXCEPT ![q].expired = TRUE]
    /\ UNCHANGED <<leaf, leafVars, callVars, channelFaults>>

\* The poll of contact, while the request has not expired.
hearReply(q) ==
    /\ ask[q].contact = "waiting" /\ ~ask[q].expired /\ ask[q].reply # NoReply
    /\ ask' = [ask EXCEPT ![q].contact = "returned"]
    /\ UNCHANGED <<leaf, leafVars, callVars, channelFaults>>

\* It has expired: the Tool call of the child fails, an answer that has come
\* since the last poll is not looked for.
contactTimesOut(q) ==
    /\ ask[q].contact = "waiting" /\ ask[q].expired
    /\ ask' = [ask EXCEPT ![q].contact = "timed_out"]
    /\ UNCHANGED <<leaf, leafVars, callVars, channelFaults>>

\* reply of a parent Run, which may repeat: the first answer stays.
reply(q, message) ==
    /\ ask[q].expects /\ ask[q].reply = NoReply /\ ~ask[q].expired
    /\ ask' = [ask EXCEPT ![q].reply = message]
    /\ UNCHANGED <<leaf, leafVars, callVars, channelFaults>>

ChannelNext ==
    \/ \E c \in Leaves :
          \/ startJob(c) \/ cancelJob(c) \/ ShimCalls(c) \/ startAnswered(c)
          \/ pollStatus(c) \/ pollTimesOut(c) \/ readResult(c)
          \/ ChildStarts(c) \/ ChildLosesWorker(c)
          \/ \E state \in {"completed", "failed"} : ChildEnds(c, state)
          \/ \E q \in Asks, expects \in BOOLEAN : contact(c, q, expects)
    \/ threadAborts \/ abortSignalled \/ postResult \/ postFailure
    \/ AbortCall \/ settle \/ cancelAdmitted
    \/ \E q \in Asks :
          \/ RequestExpires(q) \/ hearReply(q) \/ contactTimesOut(q)
          \/ \E message \in Replies : reply(q, message)

ChannelSpec == ChannelInit /\ [][ChannelNext]_channelVars

-----------------------------------------------------------------------------
(* Properties.                                                              *)

\* An aborted call leaves no child behind: one that was admitted before, during
\* or after the thread's own cancels has ended when the call settles, unless
\* the cancel of it failed (cancelAdmitted, waitForCloudResult).
AbortReachesLeaves ==
    toolCall.at = "settled" /\ toolCall.aborting =>
        /\ \A c \in Leaves : leaf[c] \in {"queued", "running"} => c \in jobs.failed
        /\ \A c \in Leaves : <<c, "start">> \notin operations

\* What a parent is told: a workflow is reported as completed only with every
\* result that was read a completed one, and as blocked only for a child that
\* has asked something.
ReportFaithful ==
    /\ thread.posted = "completed" =>
          \A c \in Leaves : outcome[c] # "none" => leaf[c] = "completed"
    /\ thread.posted = "blocked" =>
          \E c \in Leaves, q \in Asks :
              outcome[c] = "blocked" /\ ask[q].of = c /\ ask[q].expects

\* The leaves of one Tool call: an abort reaches all of them, and the report the
\* parent reads is about what they did.
LeavesSound == ChannelTypeOK /\ AbortReachesLeaves /\ ReportFaithful
=============================================================================
