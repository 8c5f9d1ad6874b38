----------------------------- MODULE Transcript -----------------------------
(***************************************************************************)
(* One Turn on its way from the Pi Agent to the reader.  The Agent streams *)
(* text and tool calls; PiCloudTurnRunner coalesces the text; the          *)
(* PiAgentEventAdapter turns every Pi event into a public event or into    *)
(* the result the Run settles with; the Control Plane folds the published  *)
(* events into the canonical transcript; the browser folds the same events *)
(* with code of its own, and also applies the answer of POST /turns, the   *)
(* polled Run record and the user's click on "stop".                       *)
(*                                                                         *)
(* Text and tool input are counted, not spelt: a text item carries the     *)
(* number of Pi deltas it holds.  Publication itself (spool, Kafka, SSE)   *)
(* is EventPipeline's and EventStream's subject: here it is in order and   *)
(* loses nothing.  approval.* and ui.notification events have no producer. *)
(***************************************************************************)
EXTENDS Naturals, Sequences, FiniteSets
LOCAL INSTANCE Functions

CONSTANTS
  Calls,        \* the tool call identifiers a model may use
  ToolOutcomes, \* the outcomes of a tool the instance tells apart
  MaxRetries,   \* retry.maxRetries of the runtime
  MaxDeltas,    \* bound: text deltas the model streams in the whole Turn
  MaxFragments, \* bound: fragments of tool input the model streams in the Turn
  MaxSteps,     \* bound: model samplings
  MaxLag        \* bound: published events the browser may be behind by

ASSUME TranscriptBounds == /\ ToolOutcomes \subseteq {"completed", "failed", "unknown"}
                           /\ MaxRetries \in Nat /\ MaxDeltas \in Nat /\ MaxSteps \in Nat /\ MaxFragments \in Nat
                           /\ MaxLag \in Nat \ {0}

VARIABLES
  pi,         \* the Agent loop of CloudAgentRuntime.run
  coalescer,  \* pendingTextEvent and emitNextTextImmediately of the runner
  adapter,    \* the fields of PiAgentEventAdapter
  stepper,    \* the fields of PiSamplingStepController
  canonical,  \* projectConversationTurnTranscript of what is published
  feed,       \* published events the browser has not applied
  view,       \* the browser's TurnView and its lastSequence
  polledRun,       \* the Run record the browser's poll has read and not applied
  said        \* where each call stood among the deltas Pi streamed (history)

transcriptVars == <<pi, coalescer, adapter, stepper, canonical, feed, view, polledRun, said>>

NoSampling == [step |-> 0, attempt |-> 0]
NoStop == "none"
StopReasons == {"stop", "toolUse", "error", "aborted"}
Terminal == {"completed", "failed", "cancelled"}
UnsettledTool == {"preparing", "running"}

\* An empty transcript, as the fold starts.
EmptyTranscript ==
  [items |-> <<>>, seq |-> 0, started |-> 0, terminal |-> 0, stop |-> NoStop,
   failure |-> FALSE, cancellation |-> FALSE]

-----------------------------------------------------------------------------
(* The two folds *)

LastItem(s) == s[Len(s)]

ToolAt(items, call) ==
  {i \in DOMAIN items : items[i].kind = "tool" /\ items[i].call = call}

ToolItem(call, input, fragments, status) ==
  [kind |-> "tool", call |-> call, input |-> input, fragments |-> fragments,
   status |-> status, n |-> 0]

TextItem(n) ==
  [kind |-> "text", call |-> NoStop, input |-> FALSE, fragments |-> 0,
   status |-> NoStop, n |-> n]

\* assistant.text.delta of the canonical fold.
projectText(items, e) ==
  IF items # <<>> /\ LastItem(items).kind = "text"
  THEN [items EXCEPT ![Len(items)].n = @ + e.n]
  ELSE Append(items, TextItem(e.n))

\* tool.input.delta, tool.started and tool.completed of the canonical fold:
\* the first item with the call's id is changed, or a new one pushed.
projectTool(items, e) ==
  LET changed(i) ==
        CASE e.type = "tool.input.delta" -> [items[i] EXCEPT !.fragments = @ + e.n]
          [] e.type = "tool.started" -> [items[i] EXCEPT !.input = TRUE, !.status = "running"]
          [] e.type = "tool.completed" -> [items[i] EXCEPT !.status = e.outcome]
      pushed ==
        CASE e.type = "tool.input.delta" -> ToolItem(e.call, FALSE, e.n, "preparing")
          [] e.type = "tool.started" -> ToolItem(e.call, TRUE, 0, "running")
          [] e.type = "tool.completed" -> ToolItem(e.call, FALSE, 0, e.outcome)
  IN IF ToolAt(items, e.call) = {}
     THEN Append(items, pushed)
     ELSE LET i == CHOOSE k \in ToolAt(items, e.call) :
                     \A other \in ToolAt(items, e.call) : k <= other
          IN [items EXCEPT ![i] = changed(i)]

\* turn.failed and turn.cancelled leave no tool unsettled.
settleTools(items) ==
  [i \in DOMAIN items |->
     IF items[i].kind = "tool" /\ items[i].status \in UnsettledTool
     THEN [items[i] EXCEPT !.status = "unknown"]
     ELSE items[i]]

\* The terminal branches of the canonical fold.
projectTerminal(t, e) ==
  CASE e.type = "turn.completed" -> [t EXCEPT !.terminal = e.seq, !.stop = e.stop]
    [] e.type = "turn.failed" ->
         [t EXCEPT !.items = settleTools(@), !.terminal = e.seq, !.failure = TRUE]
    [] e.type = "turn.cancelled" ->
         [t EXCEPT !.items = settleTools(@), !.terminal = e.seq, !.stop = "cancelled",
                   !.cancellation = TRUE]

\* projectConversationTurnTranscript, one event at a time.
projectConversationTurnTranscript(t, e) ==
  LET sequenced == [t EXCEPT !.seq = e.seq]
  IN CASE e.type = "turn.started" -> [sequenced EXCEPT !.started = e.seq]
       [] e.type = "assistant.text.delta" -> [sequenced EXCEPT !.items = projectText(@, e)]
       [] e.type \in {"tool.input.delta", "tool.started", "tool.completed"} ->
            [sequenced EXCEPT !.items = projectTool(@, e)]
       [] e.type \in {"turn.completed", "turn.failed", "turn.cancelled"} ->
            projectTerminal(sequenced, e)
       [] OTHER -> sequenced

\* appendText of the browser.
appendText(t, e) ==
  LET items == t.items
      added == IF items # <<>> /\ LastItem(items).kind = "text"
               THEN [items EXCEPT ![Len(items)] = [@ EXCEPT !.n = @ + e.n]]
               ELSE items \o <<TextItem(e.n)>>
  IN [t EXCEPT !.items = added, !.status = "running"]

\* The browser changes every item with the call's id; only tool.completed
\* leaves the Turn's status alone.
viewTool(t, e) ==
  LET matched == \E i \in DOMAIN t.items : t.items[i].kind = "tool" /\ t.items[i].call = e.call
      update(item) ==
        IF item.kind # "tool" \/ item.call # e.call THEN item
        ELSE CASE e.type = "tool.input.delta" -> [item EXCEPT !.fragments = @ + e.n]
               [] e.type = "tool.started" -> [item EXCEPT !.input = TRUE, !.status = "running"]
               [] e.type = "tool.completed" -> [item EXCEPT !.status = e.outcome]
      fresh ==
        CASE e.type = "tool.input.delta" -> ToolItem(e.call, FALSE, e.n, "preparing")
          [] e.type = "tool.started" -> ToolItem(e.call, TRUE, 0, "running")
          [] e.type = "tool.completed" -> ToolItem(e.call, FALSE, 0, e.outcome)
      items == [i \in DOMAIN t.items |-> update(t.items[i])]
  IN [t EXCEPT !.items = IF matched THEN items ELSE items \o <<fresh>>,
               !.status = IF e.type = "tool.completed" THEN @ ELSE "running"]

\* The terminal branches of applyEvent.
viewTerminal(t, e) ==
  CASE e.type = "turn.completed" ->
         [t EXCEPT !.status = "completed", !.terminal = e.seq, !.stop = e.stop]
    [] e.type = "turn.failed" ->
         [t EXCEPT !.items = settleTools(@), !.status = "failed", !.terminal = e.seq,
                   !.failure = TRUE]
    [] e.type = "turn.cancelled" ->
         [t EXCEPT !.items = settleTools(@), !.status = "cancelled", !.terminal = e.seq,
                   !.stop = "cancelled", !.cancellation = TRUE]

\* applyEvent for an event of this Turn: a repeated event is ignored, a gap
\* never occurs on this feed.
applyEvent(t, e) ==
  LET sequenced == [t EXCEPT !.seq = e.seq]
  IN IF e.seq <= t.seq THEN t
     ELSE CASE e.type = "turn.started" ->
                 [sequenced EXCEPT !.status = "running", !.started = e.seq,
                                   !.failure = FALSE, !.cancellation = FALSE]
            [] e.type = "assistant.text.delta" -> appendText(sequenced, e)
            [] e.type \in {"tool.input.delta", "tool.started", "tool.completed"} ->
                 viewTool(sequenced, e)
            [] e.type \in {"turn.completed", "turn.failed", "turn.cancelled"} ->
                 viewTerminal(sequenced, e)
            [] OTHER -> sequenced

-----------------------------------------------------------------------------
(* Publication *)

TranscriptEvent(type, call, n, outcome, stop) ==
  [type |-> type, call |-> call, n |-> n, outcome |-> outcome, stop |-> stop,
   seq |-> canonical.seq + 1]

Plain(type) == TranscriptEvent(type, NoStop, 0, NoStop, NoStop)

\* createPiCloudEventFactory numbers the events; publishEvent delivers them.
publish(e) ==
  /\ Len(feed) < MaxLag
  /\ canonical' = projectConversationTurnTranscript(canonical, e)
  /\ feed' = Append(feed, e)

\* Two events at once: what was pending, and the boundary behind it.
publishBoth(first, second) ==
  LET next == [second EXCEPT !.seq = first.seq + 1]
  IN /\ Len(feed) < MaxLag
     /\ canonical' = projectConversationTurnTranscript(
                       projectConversationTurnTranscript(canonical, first), next)
     /\ feed' = feed \o <<first, next>>

textDelta(n) == TranscriptEvent("assistant.text.delta", NoStop, n, NoStop, NoStop)

\* mutant: the boundary overtakes the text that waits.
boundaryOvertakes(e) ==
  /\ IF coalescer.pending = 0 THEN publish(e) ELSE publishBoth(e, textDelta(coalescer.pending))
  /\ coalescer' = [pending |-> 0, immediate |-> TRUE]

\* queueEvent for anything but text: what is pending is flushed first, and the
\* text after it goes out at once again.
boundary(e) ==
  /\ IF coalescer.pending = 0 THEN publish(e) ELSE publishBoth(textDelta(coalescer.pending), e)
  /\ coalescer' = [pending |-> 0, immediate |-> TRUE]

\* A boundary the adapter maps to nothing still flushes.
silentBoundary ==
  /\ IF coalescer.pending = 0 THEN UNCHANGED <<canonical, feed>>
     ELSE publish(textDelta(coalescer.pending))
  /\ coalescer' = [pending |-> 0, immediate |-> TRUE]

browserUnchanged == UNCHANGED <<view, polledRun>>
-----------------------------------------------------------------------------
(* The Agent loop, the adapter and the steps *)

TranscriptInit ==
  /\ pi = [phase |-> "start", retry |-> 0, final |-> NoStop, open |-> NoStop,
           asked |-> {}, used |-> {}, running |-> NoStop, deltas |-> 0,
           fragments |-> 0]
  /\ coalescer = [pending |-> 0, immediate |-> TRUE]
  /\ adapter = [started |-> FALSE, piTurn |-> FALSE, settled |-> FALSE, stop |-> NoStop,
                cancel |-> FALSE, compacting |-> FALSE, active |-> NoSampling,
                last |-> NoSampling, pending |-> [c \in Calls |-> 0]]
  /\ stepper = [active |-> 0, scheduled |-> 0]
  /\ canonical = EmptyTranscript
  /\ feed = <<>>
  /\ view = [items |-> <<>>, seq |-> 0, started |-> 0, terminal |-> 0, stop |-> NoStop,
             failure |-> FALSE, cancellation |-> FALSE, status |-> "unknown",
             accepted |-> FALSE]
  /\ polledRun = "none"
  /\ said = [c \in Calls |-> [after |-> 0, order |-> 0]]

\* adapter.agent_start: only the first one of a Run is turn.started.
agentStart ==
  /\ pi.phase = "start"
  /\ ~adapter.piTurn /\ ~adapter.settled
  /\ pi' = [pi EXCEPT !.phase = "context"]
  /\ adapter' = [adapter EXCEPT !.piTurn = TRUE, !.started = TRUE]
  /\ IF adapter.started THEN silentBoundary ELSE boundary(Plain("turn.started"))
  /\ UNCHANGED <<stepper, said>> /\ browserUnchanged

\* compactIfNeeded before a sampling.
compactionStart ==
  /\ pi.phase = "context" /\ adapter.started /\ ~adapter.compacting
  /\ pi' = [pi EXCEPT !.phase = "compacting"]
  /\ adapter' = [adapter EXCEPT !.compacting = TRUE]
  /\ boundary(Plain("context.compaction.started"))
  /\ UNCHANGED <<stepper, said>> /\ browserUnchanged

compactionEnd(success) ==
  /\ pi.phase = "compacting" /\ adapter.started /\ adapter.compacting
  /\ pi' = [pi EXCEPT !.phase = IF success THEN "compacted" ELSE "thrown"]
  /\ adapter' = [adapter EXCEPT !.compacting = FALSE]
  /\ boundary(Plain("context.compaction.completed"))
  /\ UNCHANGED <<stepper, said>> /\ browserUnchanged

\* PiSamplingStepController.captureAsync: a scheduled retry reuses the Step, any
\* other capture takes a new one.  No code of the runner calls scheduleRetry.
captureAsync ==
  IF stepper.scheduled # 0
  THEN [step |-> stepper.active, attempt |-> stepper.scheduled]
  ELSE [step |-> stepper.active + 1, attempt |-> 1]

\* adapter.samplingStarted refuses an identity that does not advance.
advances(identity) ==
  \/ adapter.last = NoSampling
  \/ identity.step > adapter.last.step
  \/ identity.step = adapter.last.step /\ identity.attempt = adapter.last.attempt + 1

\* transformContext: the Step is captured and model.sampling.started published.
samplingStarted ==
  LET identity == captureAsync
  IN /\ pi.phase \in {"context", "compacted"}
     /\ stepper.active < MaxSteps
     /\ ~adapter.settled /\ adapter.started /\ adapter.active = NoSampling
     /\ advances(identity)
     /\ stepper' = [active |-> identity.step, scheduled |-> 0]
     /\ adapter' = [adapter EXCEPT !.active = identity]
     /\ pi' = [pi EXCEPT !.phase = "stream", !.asked = {}]
     /\ boundary(Plain("model.sampling.started"))
     /\ UNCHANGED said /\ browserUnchanged

\* queueEvent for a text delta: the first after a boundary goes out at once,
\* the others wait for the timer, the byte limit or the next boundary.
textDeltaStreamed ==
  /\ pi.phase = "stream" /\ pi.open = NoStop
  /\ pi.deltas < MaxDeltas
  /\ pi' = [pi EXCEPT !.deltas = @ + 1]
  /\ IF coalescer.immediate
     THEN /\ coalescer' = [coalescer EXCEPT !.immediate = FALSE]
          /\ publish(textDelta(1))
     ELSE /\ coalescer' = [coalescer EXCEPT !.pending = @ + 1]
          /\ UNCHANGED <<canonical, feed>>
  /\ UNCHANGED <<adapter, stepper, said>> /\ browserUnchanged

\* flushPendingText, from the timer or because the byte limit is reached.
flushPendingText ==
  /\ coalescer.pending > 0
  /\ coalescer' = [coalescer EXCEPT !.pending = 0]
  /\ publish(textDelta(coalescer.pending))
  /\ UNCHANGED <<pi, adapter, stepper, said>> /\ browserUnchanged

\* #toolInputDelta without flush: a fragment below the minimum is kept back.
toolcallDelta(c, small) ==
  LET combined == adapter.pending[c] + 1
  IN /\ pi.phase = "stream"
     /\ \/ pi.open = c
        \/ pi.open = NoStop /\ c \notin pi.used
     /\ pi.fragments < MaxFragments
     /\ pi' = [pi EXCEPT !.open = c, !.used = @ \cup {c}, !.fragments = @ + 1]
     /\ said' = IF c \in pi.used THEN said
                ELSE [said EXCEPT ![c] = [after |-> pi.deltas, order |-> Cardinality(pi.used) + 1]]
     /\ adapter' = [adapter EXCEPT !.pending[c] = IF small THEN combined ELSE 0]
     /\ IF small THEN silentBoundary
        ELSE boundary(TranscriptEvent("tool.input.delta", c, combined, NoStop, NoStop))
     /\ UNCHANGED stepper /\ browserUnchanged

\* toolcall_end flushes what #toolInputDelta kept back.
toolcallEnd ==
  LET c == pi.open
  IN /\ pi.phase = "stream" /\ c # NoStop
     /\ pi' = [pi EXCEPT !.open = NoStop, !.asked = @ \cup {c}]
     /\ adapter' = [adapter EXCEPT !.pending[c] = 0]
     /\ IF adapter.pending[c] = 0 THEN silentBoundary
        ELSE boundary(TranscriptEvent("tool.input.delta", c, adapter.pending[c], NoStop, NoStop))
     /\ UNCHANGED <<stepper, said>> /\ browserUnchanged

\* message_end of the assistant: the sampling is completed.  The model asks for
\* tools, stops, fails, or is aborted by a requested cancellation.
messageEnd(stop) ==
  /\ pi.phase = "stream"
  /\ stop \in {"stop", "toolUse"} => pi.open = NoStop /\ ((stop = "toolUse") <=> (pi.asked # {}))
  /\ stop = "aborted" => adapter.cancel
  /\ adapter.active # NoSampling
  /\ adapter' = [adapter EXCEPT !.stop = stop, !.active = NoSampling, !.last = adapter.active]
  /\ pi' = [pi EXCEPT !.final = stop, !.open = NoStop,
                      !.phase = IF stop = "toolUse" THEN "tools" ELSE "ending"]
  /\ boundary(Plain("model.sampling.completed"))
  /\ UNCHANGED <<stepper, said>> /\ browserUnchanged

\* tool_execution_start drops the preview that is still kept back.
toolExecutionStart(c) ==
  /\ pi.phase = "tools" /\ pi.running = NoStop /\ c \in pi.asked
  /\ pi' = [pi EXCEPT !.running = c, !.asked = @ \ {c}]
  /\ adapter' = [adapter EXCEPT !.pending[c] = 0]
  /\ boundary(TranscriptEvent("tool.started", c, 0, NoStop, NoStop))
  /\ UNCHANGED <<stepper, said>> /\ browserUnchanged

\* tool_execution_end: the result, an error, or the error of a lost answer.
toolExecutionEnd(outcome) ==
  LET c == pi.running
  IN /\ pi.phase = "tools" /\ c # NoStop
     /\ pi' = [pi EXCEPT !.running = NoStop,
                         !.phase = IF pi.asked = {} THEN "context" ELSE "tools"]
     /\ boundary(TranscriptEvent("tool.completed", c, 0, outcome, NoStop))
     /\ UNCHANGED <<adapter, stepper, said>> /\ browserUnchanged

\* turn_end and agent_end: Agent.continue returns to the loop of the runtime.
agentEnd ==
  /\ pi.phase = "ending" /\ adapter.piTurn
  /\ pi' = [pi EXCEPT !.phase = "ended"]
  /\ adapter' = [adapter EXCEPT !.piTurn = FALSE]
  /\ silentBoundary
  /\ UNCHANGED <<stepper, said>> /\ browserUnchanged

\* A follow-up the settlement gate prepares keeps the Agent in its loop.
followUp ==
  /\ pi.phase = "ending" /\ pi.final = "stop"
  /\ pi' = [pi EXCEPT !.phase = "context"]
  /\ UNCHANGED <<coalescer, adapter, stepper, canonical, feed, said>> /\ browserUnchanged

mayRetry == pi.final = "error" /\ pi.retry < MaxRetries

\* The retry loop of CloudAgentRuntime.run: auto_retry_start must name the
\* attempt the adapter saw complete, else the Run fails as a protocol error.
autoRetryStart ==
  LET attempt == pi.retry + 1
      accepted == adapter.last # NoSampling /\ adapter.last.attempt = attempt
  IN /\ pi.phase = "ended" /\ mayRetry
     /\ pi' = [pi EXCEPT !.retry = attempt, !.final = IF accepted THEN NoStop ELSE @,
                         !.phase = IF accepted THEN "start" ELSE "refused"]
     /\ IF accepted THEN boundary(Plain("model.sampling.retry.scheduled")) ELSE silentBoundary
     /\ UNCHANGED <<adapter, stepper, said>> /\ browserUnchanged

\* adapter.agent_settled: what the Run settles with.
settledResult ==
  CASE adapter.cancel -> "turn.cancelled"
    [] ~adapter.cancel /\ adapter.stop \in {"error", "aborted", NoStop} -> "turn.failed"
    [] OTHER -> "turn.completed"

terminalEvent(type) ==
  TranscriptEvent(type, NoStop, 0, NoStop, IF type = "turn.completed" THEN adapter.stop ELSE NoStop)

\* The loop is over (an error may be one that is not retryable): what is pending
\* is flushed, the adapter settles, the settlement publishes the terminal event.
agentSettled ==
  /\ pi.phase = "ended" /\ adapter.started /\ ~adapter.settled
  /\ pi' = [pi EXCEPT !.phase = "done"]
  /\ adapter' = [adapter EXCEPT !.settled = TRUE, !.piTurn = FALSE]
  /\ boundary(terminalEvent(settledResult))
  /\ UNCHANGED <<stepper, said>> /\ browserUnchanged

\* The runner threw, or the Worker is gone: the Control Plane settles the Run.
\* What the coalescer held is flushed by the runner's finally, or lost.
runnerLost(type, flushed) ==
  /\ pi.phase # "done"
  /\ type = "turn.cancelled" => adapter.cancel
  /\ pi' = [pi EXCEPT !.phase = "done"]
  /\ \/ flushed /\ boundary(terminalEvent(type))
     \/ ~flushed /\ publish(terminalEvent(type)) /\ coalescer' = [pending |-> 0, immediate |-> TRUE]
  /\ UNCHANGED <<adapter, stepper, said>> /\ browserUnchanged

\* requestCancellation: the abort signal of the Turn.
requestCancellation ==
  /\ pi.phase # "done" /\ ~adapter.settled /\ ~adapter.cancel
  /\ adapter' = [adapter EXCEPT !.cancel = TRUE]
  /\ UNCHANGED <<pi, coalescer, stepper, canonical, feed, said>> /\ browserUnchanged

PiStep ==
  \/ agentStart \/ compactionStart \/ \E ok \in BOOLEAN : compactionEnd(ok)
  \/ samplingStarted \/ textDeltaStreamed \/ flushPendingText
  \/ \E c \in Calls : (\E small \in BOOLEAN : toolcallDelta(c, small)) \/ toolExecutionStart(c)
  \/ toolcallEnd \/ \E stop \in StopReasons : messageEnd(stop)
  \/ \E outcome \in ToolOutcomes : toolExecutionEnd(outcome)
  \/ agentEnd \/ followUp \/ autoRetryStart \/ agentSettled
  \/ \E type \in {"turn.failed", "turn.cancelled"}, flushed \in BOOLEAN : runnerLost(type, flushed)
  \/ requestCancellation
-----------------------------------------------------------------------------
(* The browser *)

agentUnchanged == UNCHANGED <<pi, coalescer, adapter, stepper, canonical, said>>

activeTurn == view.status \in {"queued", "running", "cancelling"}

\* The event stream hands the reducer its next event; updateTurn makes up a
\* Turn the browser has not heard of.
streamEvent ==
  /\ feed # <<>>
  /\ view' = applyEvent([view EXCEPT !.status = IF @ = "unknown" THEN "running" ELSE @],
                        Head(feed))
  /\ feed' = Tail(feed)
  /\ polledRun' = IF view'.status \in Terminal THEN "none" ELSE polledRun
  /\ agentUnchanged

\* turn.accepted: the answer of POST /turns, which may come after events.
turnAccepted ==
  /\ ~view.accepted
  /\ view' = [view EXCEPT !.accepted = TRUE,
                          !.status = IF view.started = 0 THEN "queued" ELSE @]
  /\ UNCHANGED <<feed, polledRun>> /\ agentUnchanged

\* turn.cancellation.requested: the user's click.
cancellationRequested ==
  /\ view.status = "running"
  /\ view' = [view EXCEPT !.status = "cancelling"]
  /\ UNCHANGED <<feed, polledRun>> /\ agentUnchanged

\* The Run record as GET /runs reports it.
RunState ==
  CASE canonical.failure -> "failed"
    [] canonical.cancellation -> "cancelled"
    [] canonical.terminal # 0 /\ ~canonical.failure /\ ~canonical.cancellation -> "completed"
    [] canonical.terminal = 0 /\ adapter.cancel -> "cancel_requested"
    [] canonical.terminal = 0 /\ ~adapter.cancel /\ adapter.started -> "running"
    [] OTHER -> "queued"

\* The poll of a Turn that is shown active, once its Run's id is known.
pollRun ==
  /\ activeTurn /\ view.accepted /\ polledRun = "none"
  /\ polledRun' = RunState
  /\ UNCHANGED <<view, feed>> /\ agentUnchanged

\* run.reconciled: a settled Turn is left alone.
reconciled(t, state) ==
  CASE t.status \in Terminal -> t
    [] t.status \notin Terminal /\ state = "completed" -> [t EXCEPT !.status = "completed", !.stop = "stop"]
    [] t.status \notin Terminal /\ state = "cancelled" ->
         [t EXCEPT !.status = "cancelled", !.stop = "cancelled", !.cancellation = TRUE]
    [] t.status \notin Terminal /\ state = "failed" -> [t EXCEPT !.status = "failed", !.failure = TRUE]
    [] t.status \notin Terminal /\ state = "cancel_requested" -> [t EXCEPT !.status = "cancelling"]
    [] OTHER -> [t EXCEPT !.status = state]

runReconciled ==
  /\ polledRun # "none"
  /\ view' = reconciled(view, polledRun)
  /\ polledRun' = "none"
  /\ UNCHANGED feed /\ agentUnchanged

ViewStep ==
  streamEvent \/ turnAccepted \/ cancellationRequested \/ pollRun \/ runReconciled

TranscriptNext == PiStep \/ ViewStep

TranscriptSpec == TranscriptInit /\ [][TranscriptNext]_transcriptVars

-----------------------------------------------------------------------------
(* Properties *)

ItemsOK(items) ==
  \A i \in DOMAIN items :
    /\ items[i].kind = "text" => items[i].n > 0
    /\ items[i].kind = "tool" => items[i].call \in Calls
    /\ items[i].kind \in {"text", "tool"}

\* The pieces have their types, and the browser's cursor and the events still
\* on their way to it make up exactly the published sequence.
TranscriptTypeOK ==
  /\ pi.phase \in {"start", "context", "compacting", "compacted", "stream", "tools", "ending",
                   "ended", "thrown", "refused", "done"}
  /\ pi.retry \in 0..MaxRetries /\ pi.final \in StopReasons \cup {NoStop}
  /\ adapter.stop \in StopReasons \cup {NoStop}
  /\ stepper.active \in 0..MaxSteps
  /\ view.status \in {"unknown", "queued", "running", "cancelling"} \cup Terminal
  /\ ItemsOK(canonical.items) /\ ItemsOK(view.items)
  /\ view.seq + Len(feed) = canonical.seq
  /\ \A i \in DOMAIN feed : feed[i].seq = view.seq + i

Outcome == CASE canonical.failure -> "failed"
             [] canonical.cancellation -> "cancelled"
             [] OTHER -> "completed"

\* A browser that has applied every event shows what the canonical transcript
\* holds, whatever the poll, the late answer of POST and the user's click did in
\* between: the two folds are separate code (applyEvent of the Web UI and
\* projectConversationTurnTranscript) and a reload replaces one by the other.
FoldsAgree ==
  feed = <<>> =>
    /\ view.items = canonical.items
    /\ view.started = canonical.started /\ view.terminal = canonical.terminal
    /\ canonical.terminal # 0 /\ view.status \in Terminal =>
         /\ view.status = Outcome /\ view.stop = canonical.stop
         /\ view.failure = canonical.failure /\ view.cancellation = canonical.cancellation

\* The text deltas in the transcript's items before position i.
TextBefore(i) ==
  FoldFunctionOnSet(LAMBDA n, m : n + m, 0,
                    [j \in DOMAIN canonical.items |-> canonical.items[j].n], 1..(i - 1))

\* While the Run lives, and when the Agent ends it itself, the transcript has all
\* the text Pi streamed, and every tool call stands after exactly the text Pi had
\* streamed before it and after the calls before it: coalescing text and keeping
\* small input fragments back reorder and lose nothing.
TranscriptFaithful ==
  canonical.terminal = 0 \/ adapter.settled =>
    /\ TextBefore(Len(canonical.items) + 1) + coalescer.pending = pi.deltas
    /\ \A i \in DOMAIN canonical.items :
         LET item == canonical.items[i]
         IN item.kind = "tool" =>
              /\ TextBefore(i) = said[item.call].after
              /\ \A j \in 1..(i - 1) : canonical.items[j].kind = "tool" =>
                   said[canonical.items[j].call].order < said[item.call].order

\* A settled Turn shows no tool as running, and one that failed or was cancelled
\* none as preparing either.  (A call the model streamed in a sampling that
\* failed and was retried does stay "preparing" in a completed Turn.)
ToolsSettle ==
  canonical.terminal # 0 =>
    \A i \in DOMAIN canonical.items :
      /\ canonical.items[i].status # "running"
      /\ Outcome # "completed" => canonical.items[i].status # "preparing"

\* A cancellation the adapter accepted before the Run settled is never answered
\* by turn.completed, even when the Agent had already said its last word.
CancellationWins == adapter.cancel => Outcome # "completed" \/ canonical.terminal = 0

\* Pi's stream, the canonical transcript and the browser's view tell one story
\* of the Turn, its Tools and its end.
TranscriptsAgree ==
  TranscriptTypeOK /\ FoldsAgree /\ TranscriptFaithful /\ ToolsSettle /\ CancellationWins
=============================================================================
