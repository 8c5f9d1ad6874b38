--------------------------- MODULE EventPipeline ---------------------------
(***************************************************************************)
(* The events of one Session on their way from Pi to the replay window:    *)
(* Worker spool and batched publisher, durable ingestion under the lease   *)
(* fence, (external mode) Kafka, projector and Valkey, the terminal event  *)
(* of the Control Plane, retention, and the repair at gateway start.       *)
(* One Turn runs under each fence; an event is named by its sequence       *)
(* number, the fence that produced it and whether it is the terminal one.  *)
(* EventStream adds the browsers.                                          *)
(***************************************************************************)
EXTENDS EventSpool, FiniteSets, FiniteSetsExt, SequencesExt

CONSTANTS MaxFence,    \* Turns (= fences) of the Session
          PerTurn,     \* worker events Pi produces in a Turn, at most
          MaxBatch,    \* maximumBatchEvents
          MaxBuffered, \* maximumBufferedEvents
          Modes,       \* subset of BOOLEAN: is the Kafka/Valkey log configured
          Faults,      \* the kinds of fault that may happen
          MaxFaults,   \* crashes, losses and rollbacks in a behaviour
          MaxOrphans   \* Kafka appends whose cursor commit is rolled back

ASSUME PipelineAssumption ==
    /\ {MaxFence, PerTurn, MaxBatch, MaxBuffered} \subseteq Nat \ {0}
    /\ {MaxFaults, MaxOrphans} \subseteq Nat
    /\ MaxBatch <= MaxBuffered
    /\ Modes \subseteq BOOLEAN /\ Modes # {}

VARIABLES external,  \* fixed: Kafka and Valkey, or PostgreSQL alone
          worker,    \* per fence: spool, file, publisher and assignment phase
          net,       \* publications on their way to the ingestor
          reply,     \* per fence: the answer on its way back
          db,        \* sessions, leases and session_event_cursors
          settle,    \* per fence: prepared projection and stored transcript
          kafka,     \* the Worker event topic
          proj,      \* the projector
          live,      \* the Valkey stream of the Session
          jobs,      \* per fence: the live-stream compaction job
          gateway,   \* is the Event Gateway up
          log,       \* accepted events (session_events in local mode)
          faults, orphans
workerVars == << worker, net, reply >>
storeVars  == << db, log, settle >>
liveVars   == << kafka, proj, live, jobs, gateway >>
pipeVars   == << external, workerVars, storeVars, liveVars, faults, orphans >>

Fences == 1..MaxFence
MaxSeq == MaxFence * (PerTurn + 1)
None   == "none"
Entry(f, k)    == [by |-> f, kind |-> k]
Event(s, e)    == [seq |-> s, by |-> e.by, kind |-> e.kind]
EventAt(s)     == Event(s, log[s])
Batch(f, lo, hi) == {Event(s, Entry(f, "worker")) : s \in lo..hi}
Seqs(events)   == {e.seq : e \in events}

Terminals     == {s \in DOMAIN log : log[s].kind = "terminal"}
Settled(f)    == \E s \in Terminals : log[s].by = f
TerminalOf(f) == CHOOSE s \in Terminals : log[s].by = f
LastTerminal(upto) == Max({0} \cup {s \in Terminals : s <= upto})

FreshWorker == [phase |-> "none", file |-> << >>, spool |-> OpenedSpool(0),
                base |-> 0, sent |-> 0,
                flight |-> 0]      \* first event of the batch in flight
EmptyLive   == [last |-> 0, events |-> {}, batched |-> {}, lost |-> FALSE]
FreshSettle == [ready |-> "no", prev |-> 0, read |-> {}, outcome |-> None, transcript |-> {}]

PipelineInit ==
    /\ external \in Modes
    /\ worker = [f \in Fences |-> FreshWorker]
    /\ net = {}
    /\ reply = [f \in Fences |-> None]
    /\ db = [fence |-> 0, lease |-> 0, persisted |-> 0, projected |-> 0, floor |-> 0]
    /\ settle = [f \in Fences |-> FreshSettle]
    /\ kafka = << >>
    /\ proj = [pos |-> 1, stored |-> 0, dead |-> FALSE]
    /\ live = EmptyLive
    /\ jobs = [f \in Fences |-> None]
    /\ gateway = TRUE
    /\ log = << >>
    /\ faults = 0
    /\ orphans = 0

Fault(kind) == kind \in Faults /\ faults < MaxFaults /\ faults' = faults + 1
-----------------------------------------------------------------------------
(* Worker side.                                                            *)

(* A Turn is assigned under the next fence; its spool starts at the        *)
(* Session's next event.                                                   *)
Assign(f) ==
    /\ f = db.fence + 1
    /\ db.fence > 0 => Settled(db.fence)
    /\ db' = [db EXCEPT !.fence = f, !.lease = f]
    /\ worker' = [worker EXCEPT ![f] =
                    [FreshWorker EXCEPT !.phase = "running",
                                        !.file = OpenedFile(db.persisted),
                                        !.spool = OpenedSpool(db.persisted),
                                        !.base = db.persisted,
                                        !.sent = db.persisted]]
    /\ UNCHANGED << external, net, reply, settle, log, liveVars, faults, orphans >>

(* The heartbeat that renews the lease is missed for its whole duration.   *)
LeaseLapse ==
    /\ db.lease # 0
    /\ Fault("lease")
    /\ db' = [db EXCEPT !.lease = 0]
    /\ UNCHANGED << external, workerVars, settle, log, liveVars, orphans >>

(* The runner's publish callback: append to the spool, then enqueue.  A    *)
(* full buffer makes enqueue wait, so nothing is produced meanwhile; a     *)
(* full spool fails the run, whose publisher is then drained.              *)
Produce(f) ==
    LET w == worker[f] IN
    /\ w.phase = "running"
    /\ w.spool.high < w.base + PerTurn
    /\ w.spool.high - w.sent < MaxBuffered
    /\ worker' = [worker EXCEPT ![f] =
                    IF CanAppend(w.spool)
                    THEN [w EXCEPT !.file = AppendFile(w.file, w.spool),
                                   !.spool = AppendSpool(w.spool)]
                    ELSE [w EXCEPT !.phase = "aborting"]]
    /\ UNCHANGED << external, net, reply, storeVars, liveVars, faults, orphans >>

(* takeBatch and publishBatch: one batch is in flight at a time, under an  *)
(* identity of its own, which its events have in Kafka too.                *)
Flush(f) ==
    LET w == worker[f] IN
    /\ w.phase \in {"running", "draining", "aborting"} /\ w.flight = 0
    /\ \E hi \in (w.sent + 1)..w.spool.high :
          /\ hi - w.sent <= MaxBatch
          /\ net' = net \cup {[by |-> f, lo |-> w.sent + 1, hi |-> hi, via |-> "batch"]}
          /\ worker' = [worker EXCEPT ![f].sent = hi, ![f].flight = w.sent + 1]
    /\ UNCHANGED << external, reply, storeVars, liveVars, faults, orphans >>

(* The cumulative ACK of the batch in flight reaches the spool.            *)
Acknowledged(f) ==
    LET w == worker[f] IN
    /\ w.flight # 0 /\ reply[f] = "ack"
    /\ CanAcknowledge(w.spool, w.sent)
    /\ \E big \in BOOLEAN :
          worker' = [worker EXCEPT ![f] =
                       [w EXCEPT !.flight = 0,
                                 !.file = AcknowledgeFile(w.file, w.spool, w.sent, big),
                                 !.spool = AcknowledgeSpool(w.spool, w.sent)]]
    /\ reply' = [reply EXCEPT ![f] = None]
    /\ UNCHANGED << external, net, storeVars, liveVars, faults, orphans >>

(* A refusal, an error, or a timeout with its answer lost: the publisher   *)
(* has failed for good, the run rejects, and what is pending stays in the  *)
(* file.  A recovery that meets one leaves the rest for the next.          *)
PublishFails(f) ==
    LET w == worker[f] IN
    /\ w.flight # 0
    /\ \/ reply[f] = "stale" /\ w.phase # "recovering" /\ UNCHANGED faults
       \/ reply[f] = "error" /\ UNCHANGED faults
       \/ reply[f] \in {None, "ack"} /\ Fault("timeout")
    /\ worker' = [worker EXCEPT ![f].phase = "failed", ![f].flight = 0]
    /\ reply' = [reply EXCEPT ![f] = None]
    /\ UNCHANGED << external, net, storeVars, liveVars, orphans >>

(* The runner returns; drainToDurableBarrier flushes what is enqueued, and *)
(* the run resolves only when the spool is fully acknowledged.             *)
Drain(f) ==
    LET w == worker[f] IN
    /\ \/ /\ w.phase = "running"
          /\ worker' = [worker EXCEPT ![f].phase = "draining"]
       \/ /\ w.phase \in {"draining", "aborting"} /\ w.flight = 0 /\ w.sent = w.spool.high
          /\ worker' = [worker EXCEPT ![f].phase =
                           IF w.phase = "draining" /\ Pending(w.spool) = 0
                           THEN "resolved" ELSE "failed"]
    /\ UNCHANGED << external, net, reply, storeVars, liveVars, faults, orphans >>

(* The process dies; a record being appended may be torn, or complete      *)
(* without its producer knowing.                                           *)
Crash(f) ==
    LET w == worker[f] IN
    /\ w.phase \in {"running", "draining", "recovering", "rejected"}
    /\ Fault("crash")
    /\ \E tail \in {<< >>, << Torn >>} \cup
                   (IF w.phase = "running" /\ CanAppend(w.spool) /\ w.spool.high < w.base + PerTurn
                    THEN {<< Rec("event", w.spool.high + 1) >>} ELSE {}) :
          worker' = [worker EXCEPT ![f] = [w EXCEPT !.phase = "dead", !.flight = 0,
                                                    !.file = @ \o tail]]
    /\ reply' = [reply EXCEPT ![f] = None]
    /\ UNCHANGED << external, net, storeVars, liveVars, orphans >>

(* redeliverPending, when the supervisor reconnects with nothing running:  *)
(* the spool is rebuilt from the file, its torn tail dropped.              *)
StartRecovery(f) ==
    LET w == worker[f]
        sp == Load(w.file) IN
    /\ w.phase \in {"failed", "dead"}
    /\ worker' = [worker EXCEPT ![f] =
                    [w EXCEPT !.file = Complete(w.file), !.spool = sp, !.sent = sp.ack,
                              !.phase = IF sp.rejected THEN "quarantined" ELSE "recovering"]]
    /\ UNCHANGED << external, net, reply, storeVars, liveVars, faults, orphans >>

RecoverSendStaleIsError(f) ==
    LET w == worker[f] IN
    /\ w.phase = "recovering" /\ w.flight = 0 /\ Pending(w.spool) > 0
    /\ worker' = [worker EXCEPT ![f].sent = w.spool.ack + 1, ![f].flight = w.spool.ack + 1]
    /\ reply' = [reply EXCEPT ![f] = "error"]
    /\ UNCHANGED << external, net, storeVars, liveVars, faults, orphans >>

(* One event at a time, as the message the spool kept.  The Control Plane checks the lease              *)
(* (assertEventAuthority) before it passes the event to the ingestor.      *)
RecoverSend(f) ==
    LET w == worker[f] IN
    /\ w.phase = "recovering" /\ w.flight = 0 /\ Pending(w.spool) > 0
    /\ worker' = [worker EXCEPT ![f].sent = w.spool.ack + 1, ![f].flight = w.spool.ack + 1]
    /\ IF db.lease = f
       THEN /\ net' = net \cup {[by |-> f, lo |-> w.spool.ack + 1, hi |-> w.spool.ack + 1,
                                 via |-> "recovery"]}
            /\ UNCHANGED reply
       ELSE /\ reply' = [reply EXCEPT ![f] = "stale"]
            /\ UNCHANGED net
    /\ UNCHANGED << external, storeVars, liveVars, faults, orphans >>

RecoveryEnds(f) ==
    LET w == worker[f] IN
    /\ w.phase = "recovering" /\ w.flight = 0 /\ Pending(w.spool) = 0
    /\ worker' = [worker EXCEPT ![f].phase = "recovered"]
    /\ UNCHANGED << external, net, reply, storeVars, liveVars, faults, orphans >>

(* A refusal is made durable (markRejected) before the file is moved to    *)
(* the quarantine directory.                                               *)
MarkRejected(f) ==
    LET w == worker[f] IN
    /\ w.phase = "recovering" /\ w.flight # 0 /\ reply[f] = "stale"
    /\ worker' = [worker EXCEPT ![f] =
                    [w EXCEPT !.phase = "rejected", !.flight = 0,
                              !.file = RejectFile(w.file, w.spool),
                              !.spool = RejectSpool(w.spool)]]
    /\ reply' = [reply EXCEPT ![f] = None]
    /\ UNCHANGED << external, net, storeVars, liveVars, faults, orphans >>

Quarantine(f) ==
    /\ worker[f].phase = "rejected"
    /\ worker' = [worker EXCEPT ![f].phase = "quarantined"]
    /\ UNCHANGED << external, net, reply, storeVars, liveVars, faults, orphans >>
-----------------------------------------------------------------------------
(* Ingestion: one transaction under the Session's row lock.                *)

Stale(m)    == db.lease # m.by \/ db.fence # m.by
Gap(m)      == m.lo > db.persisted + 1
Conflict(m) == \E s \in m.lo..m.hi : s <= db.persisted /\ log[s] # Entry(m.by, "worker")

IngestOutcomeRedeliveryFirst(m) ==
    IF m.hi <= db.persisted THEN "ack"
    ELSE IF Stale(m) THEN "stale"
    ELSE IF Gap(m) THEN "error" ELSE "accept"

(* External mode checks the fence first and takes any redelivery of the    *)
(* holder; local mode compares redeliveries with the stored rows, answers  *)
(* a pure redelivery, and checks command and fence for new events only.    *)
IngestOutcome(m) ==
    IF external
    THEN IF Stale(m) THEN "stale"
         ELSE IF m.hi <= db.persisted THEN "ack"
         ELSE IF Gap(m) THEN "error" ELSE "accept"
    ELSE IF Conflict(m) THEN "error"
         ELSE IF m.hi <= db.persisted THEN "ack"
         ELSE IF Gap(m) \/ Settled(m.by) THEN "error"
         ELSE IF Stale(m) THEN "stale" ELSE "accept"

Kafka(m) == Append(kafka, [by |-> m.by, lo |-> db.persisted + 1, hi |-> m.hi, via |-> m.via])

(* The answer counts only for the call that is still waiting for it.       *)
Answer(m, a) ==
    IF /\ worker[m.by].flight = m.lo /\ worker[m.by].sent = m.hi
       /\ (worker[m.by].phase = "recovering" <=> m.via = "recovery")
    THEN [reply EXCEPT ![m.by] = a] ELSE reply

(* The new suffix goes to the log and, with an external Worker event log,  *)
(* to the broker before the cursor moves; without one it is projected too. *)
Persist(m) ==
    /\ log' = log \o [i \in 1..(m.hi - db.persisted) |-> Entry(m.by, "worker")]
    /\ kafka' = IF external THEN Kafka(m) ELSE kafka
    /\ db' = [db EXCEPT !.persisted = m.hi,
                        !.projected = IF external THEN @ ELSE m.hi]

Ingest(m) ==
    LET outcome == IngestOutcome(m) IN
    /\ m \in net
    /\ external => gateway
    /\ net' = net \ {m}
    /\ reply' = Answer(m, IF outcome = "accept" THEN "ack" ELSE outcome)
    /\ IF outcome = "accept" THEN Persist(m) ELSE UNCHANGED << log, kafka, db >>
    /\ UNCHANGED << external, worker, settle, proj, live, jobs, gateway, faults, orphans >>

(* The broker has the batch, and the cursor commit fails: the transaction  *)
(* rolls back, and the grouped ingestor will try the publication again.    *)
IngestRollback(m) ==
    /\ m \in net /\ external /\ gateway /\ IngestOutcome(m) = "accept"
    /\ orphans < MaxOrphans
    /\ orphans' = orphans + 1
    /\ kafka' = Kafka(m)
    /\ UNCHANGED << external, workerVars, storeVars, proj, live, jobs, gateway, faults >>
-----------------------------------------------------------------------------
(* Settlement by the Control Plane.                                        *)

SettlingAgain(f) == /\ f = db.fence
                    /\ worker[f].phase \in {"resolved", "failed", "dead", "quarantined", "recovered"}
                       \/ db.lease = 0

Settling(f) == /\ f = db.fence /\ ~Settled(f)
               /\ worker[f].phase \in {"resolved", "failed", "dead", "quarantined", "recovered"}
                  \/ db.lease = 0

(* LiveTerminalTurnProjectionSource.prepare over the live range since the  *)
(* last terminal event; a gap, a lagging projection or a gateway that is   *)
(* down makes it throw.                                                    *)
Prepare(f) ==
    LET range    == (LastTerminal(db.projected) + 1)..db.projected
        readable == /\ gateway /\ db.projected = db.persisted
                    /\ range \subseteq Seqs(live.events) IN
    /\ external /\ Settling(f)
    /\ settle' = [settle EXCEPT ![f] =
                    IF readable
                    THEN [@ EXCEPT !.ready = "yes", !.prev = db.projected,
                                   !.read = {e \in live.events : e.seq \in range /\ e.by = f}]
                    ELSE [@ EXCEPT !.ready = "threw", !.prev = 0, !.read = {}]]
    /\ UNCHANGED << external, workerVars, db, log, liveVars, faults, orphans >>

(* commitTerminalTurnEvent, in the settlement transaction: the stream must *)
(* be contiguous and a prepared projection still current; only a completed *)
(* Turn needs one.                                                         *)
CommitTerminal(f, outcome) ==
    LET seq == db.persisted + 1
        terminal == Event(seq, Entry(f, "terminal"))
        p == settle[f] IN
    /\ Settling(f)
    /\ db.projected = db.persisted
    /\ outcome = "completed" => worker[f].phase = "resolved" /\ db.lease = f
    /\ external => \/ p.ready = "yes" /\ p.prev = db.persisted
                   \/ p.ready = "threw" /\ outcome # "completed"
    /\ log' = Append(log, Entry(f, "terminal"))
    /\ settle' = [settle EXCEPT ![f].outcome = outcome,
                    ![f].transcript = {terminal} \cup
                        IF external THEN p.read
                        ELSE {EventAt(s) : s \in {s \in DOMAIN log : log[s].by = f}}]
    /\ db' = [db EXCEPT !.persisted = seq, !.projected = seq, !.lease = 0]
    /\ jobs' = [jobs EXCEPT ![f] = IF external THEN "pending" ELSE @]
    /\ UNCHANGED << external, workerVars, kafka, proj, live, gateway, faults, orphans >>
-----------------------------------------------------------------------------
(* Projector, live store, retention and repair (external mode).            *)

CanAppendLiveOnce(lv, base, batch, via) == lv.last <= base

(* APPEND_SCRIPT: what is at or below the stream's last event must be      *)
(* there with the same digest, the rest must continue it.  The digest is   *)
(* of the whole publication: an event that was sent in a batch and again   *)
(* by a recovery has two.                                                  *)
CanAppendLive(lv, base, batch, via) ==
    LET last == Max({lv.last, base})
        hi   == Max(Seqs(batch)) IN
    /\ lv.last > base => hi <= lv.last
    /\ \A e \in batch :
          e.seq <= last => /\ e \in lv.events
                           /\ (e.seq \in lv.batched <=> via = "batch")
    /\ Min(Seqs(batch)) <= last + 1
AppendLive(lv, base, batch, via) ==
    [lv EXCEPT !.last = Max({@, base} \cup Seqs(batch)), !.events = @ \cup batch,
               !.batched = IF via = "batch" THEN @ \cup Seqs(batch) ELSE @]

Envelope == kafka[proj.pos]
Redelivered == Batch(Envelope.by, Envelope.lo, Min({Envelope.hi, db.projected}))
Fresh == Batch(Envelope.by, Max({Envelope.lo, db.projected + 1}), Envelope.hi)

(* The envelope is next, is not below the stored offset, and the cursor    *)
(* covers it (until then the projector retries).                           *)
CanProject == /\ gateway /\ ~proj.dead
              /\ proj.pos \in DOMAIN kafka /\ proj.pos > proj.stored
              /\ Envelope.hi <= db.persisted
Projectable == /\ Redelivered \subseteq live.events
               /\ Envelope.lo <= db.projected + 1
               /\ Fresh # {} => CanAppendLive(live, db.projected, Fresh, Envelope.via)
Projected(lv) == IF Fresh = {} THEN lv ELSE AppendLive(lv, db.projected, Fresh, Envelope.via)

Project ==
    /\ CanProject /\ Projectable
    /\ live' = Projected(live)
    /\ db' = [db EXCEPT !.projected = Max({@, Envelope.hi})]
    /\ proj' = [proj EXCEPT !.pos = @ + 1, !.stored = proj.pos]
    /\ UNCHANGED << external, workerVars, log, settle, kafka, jobs, gateway, faults, orphans >>

(* Valkey has the events and the PostgreSQL transaction rolls back.        *)
ProjectRollback ==
    /\ CanProject /\ Projectable /\ Projected(live) # live
    /\ Fault("rollback")
    /\ live' = Projected(live)
    /\ UNCHANGED << external, workerVars, storeVars, kafka, proj, jobs, gateway, orphans >>

SkipProjected ==
    /\ gateway /\ proj.pos \in DOMAIN kafka /\ proj.pos <= proj.stored
    /\ proj' = [proj EXCEPT !.pos = @ + 1]
    /\ UNCHANGED << external, workerVars, storeVars, kafka, live, jobs, gateway, faults, orphans >>

(* event_conflict is not retryable, and a gap stops being retried after a  *)
(* minute: the consumer stops.                                             *)
ProjectConflict ==
    /\ CanProject /\ ~Projectable
    /\ proj' = [proj EXCEPT !.dead = TRUE]
    /\ UNCHANGED << external, workerVars, storeVars, kafka, live, jobs, gateway, faults, orphans >>

(* runOnce: trim the live stream, then complete the job and raise the      *)
(* floor in a second transaction; an error in between gives the job back.  *)
Trim(f) ==
    /\ jobs[f] \in {"pending", "again"}
    /\ jobs' = [jobs EXCEPT ![f] = "trimmed"]
    /\ live' = [live EXCEPT !.events = {e \in @ : e.seq > TerminalOf(f)},
                            !.batched = {s \in @ : s > TerminalOf(f)}]
    /\ UNCHANGED << external, workerVars, storeVars, kafka, proj, gateway, faults, orphans >>

RaiseFloor(f) ==
    /\ jobs[f] = "trimmed"
    /\ jobs' = [jobs EXCEPT ![f] = "done"]
    /\ db' = [db EXCEPT !.floor = Max({@, TerminalOf(f)})]
    /\ UNCHANGED << external, workerVars, log, settle, kafka, proj, live, gateway, faults, orphans >>

CompactionFails(f) ==
    /\ jobs[f] = "trimmed" /\ Fault("compaction")
    /\ jobs' = [jobs EXCEPT ![f] = "again"]
    /\ UNCHANGED << external, workerVars, storeVars, kafka, proj, live, gateway, orphans >>

(* External: Valkey restarts without its data.                             *)
LoseLive ==
    /\ external /\ live.events # {} /\ Fault("wipe")
    /\ live' = [EmptyLive EXCEPT !.lost = TRUE]
    /\ UNCHANGED << external, workerVars, storeVars, kafka, proj, jobs, gateway, orphans >>

(* The gateway process dies; an offset commit may not have reached Kafka.  *)
GatewayCrash ==
    /\ gateway /\ Fault("gateway")
    /\ gateway' = FALSE
    /\ \E pos \in {proj.pos, proj.pos - 1} \ {0} :
          proj' = [proj EXCEPT !.pos = pos, !.dead = FALSE]
    /\ UNCHANGED << external, workerVars, storeVars, kafka, live, jobs, orphans >>

(* findMissingLiveEventSessions looks for the first retained event only.   *)
LiveThrough == IF db.projected \in Terminals THEN db.projected - 1 ELSE db.projected
Missing(lv) == LiveThrough > db.floor /\ db.floor + 1 \notin Seqs(lv.events)

(* rebuildLiveEventsFromKafka on a reset stream: every retained envelope,  *)
(* its own predecessor as base.                                            *)
RebuildStep(lv, e) ==
    LET batch == {x \in Batch(e.by, e.lo, e.hi) : x.seq > db.floor /\ x.seq <= db.persisted}
        base  == Min(Seqs(batch)) - 1 IN
    IF lv.lost \/ batch = {} THEN lv
    ELSE IF CanAppendLive(lv, base, batch, e.via) THEN AppendLive(lv, base, batch, e.via)
    ELSE [lv EXCEPT !.lost = TRUE]
Rebuild ==
    LET upto[n \in 0..Len(kafka)] ==
            IF n = 0 THEN EmptyLive ELSE RebuildStep(upto[n - 1], kafka[n])
    IN  upto
Rebuilt == Rebuild[Len(kafka)]
RepairedLive == IF external /\ Missing(live) THEN Rebuilt ELSE [live EXCEPT !.lost = FALSE]
CanStart == ~external \/ ~Missing(live) \/ (~Rebuilt.lost /\ ~Missing(Rebuilt))

(* repairLiveEventsIfNeeded, then projector and listener; a stream Kafka   *)
(* cannot restore fails the start.                                         *)
StartGateway ==
    /\ ~gateway /\ CanStart
    /\ gateway' = TRUE
    /\ live' = RepairedLive
    /\ UNCHANGED << external, workerVars, storeVars, kafka, proj, jobs, faults, orphans >>
-----------------------------------------------------------------------------
WorkerStep(f) == \/ Produce(f) \/ Flush(f) \/ Acknowledged(f) \/ PublishFails(f)
                 \/ Drain(f) \/ Crash(f) \/ StartRecovery(f) \/ RecoverSend(f)
                 \/ RecoveryEnds(f) \/ MarkRejected(f) \/ Quarantine(f)
SettleStep(f) == \/ Prepare(f)
                 \/ \E o \in {"completed", "failed"} : CommitTerminal(f, o)
LiveStep == \/ Project \/ ProjectRollback \/ SkipProjected \/ ProjectConflict
            \/ LoseLive \/ GatewayCrash \/ StartGateway
RetentionStep(f) == Trim(f) \/ RaiseFloor(f) \/ CompactionFails(f)
PipelineNext ==
    \/ LeaseLapse \/ LiveStep
    \/ \E f \in Fences : Assign(f) \/ WorkerStep(f) \/ SettleStep(f) \/ RetentionStep(f)
    \/ \E m \in net : Ingest(m) \/ IngestRollback(m)
(* The steps of live processes are taken: the Worker's own loop, calls that *)
(* are waited for, the projector, the retention loop and the restart of a  *)
(* gateway.  Producing events, settling and every fault are left free.     *)
WorkerProgress(f) ==
    \/ Flush(f) \/ Acknowledged(f) \/ PublishFails(f) \/ Drain(f) \/ StartRecovery(f)
    \/ RecoverSend(f) \/ RecoveryEnds(f) \/ MarkRejected(f) \/ Quarantine(f)
    \/ worker[f].flight # 0 /\ \E m \in net : m.by = f /\ Ingest(m)
PipelineSpec == PipelineInit /\ [][PipelineNext]_pipeVars
-----------------------------------------------------------------------------
(* Some Kafka batch was never committed to the cursor, and no longer can   *)
(* be by the Worker that published it.                                     *)
Orphaned == \E i \in DOMAIN kafka :
    LET e == kafka[i] IN
    \/ e.hi > db.persisted /\ db.lease # e.by
    \/ \E s \in e.lo..e.hi : s <= db.persisted /\ log[s] # Entry(e.by, "worker")

(* A Kafka append whose commit rolled back was followed by one that has the *)
(* same events in another publication (a recovery sends them one by one).   *)
Recut == \E i, j \in DOMAIN kafka :
    /\ kafka[i].lo <= kafka[j].hi /\ kafka[j].lo <= kafka[i].hi
    /\ kafka[i].hi # kafka[j].hi \/ kafka[i].via # kafka[j].via

WorkerPhases == {"none", "running", "draining", "aborting", "resolved", "failed", "dead",
                 "recovering", "recovered", "rejected", "quarantined"}

(* Types; and a spool never holds more than its bound nor an               *)
(* acknowledgement it did not ask for.                                     *)
PipelineTypeOK ==
    /\ external \in BOOLEAN /\ gateway \in BOOLEAN
    /\ \A f \in Fences :
          LET w == worker[f] IN
          /\ w.phase \in WorkerPhases
          /\ w.spool.ack \in 0..MaxSeq /\ w.spool.high \in w.spool.ack..MaxSeq
          /\ Pending(w.spool) <= MaxPending
          /\ w.flight # 0 => w.sent - w.flight < MaxBatch
          /\ reply[f] \in {None, "ack", "stale", "error"}
          /\ jobs[f] \in {None, "pending", "again", "trimmed", "done"}
    /\ \A m \in net : m.lo <= m.hi /\ m.by \in Fences
    /\ db.floor <= db.projected /\ db.projected <= db.persisted
    /\ db.persisted = Len(log) /\ db.lease \in {0, db.fence}
    /\ proj.pos \in 1..(Len(kafka) + 1) /\ proj.stored \in 0..Len(kafka)

(* The write-ahead file always rebuilds the spool: exactly while the       *)
(* process lives, and after a crash at any point with nothing acknowledged *)
(* forgotten and at most the event being appended gained (loadWal).        *)
SpoolRecovers ==
    \A f \in Fences :
        LET w == worker[f]
            sp == Load(w.file) IN
        w.phase # "none" =>
            /\ sp # Corrupt
            /\ w.phase # "dead" => sp = w.spool
            /\ sp.ack = w.spool.ack /\ sp.high - w.spool.high \in {0, 1}

(* What a spool has dropped as acknowledged is in the accepted log, at the *)
(* same sequence numbers, and was written under the spool's own fence:     *)
(* retries, late duplicates and takeovers never acknowledge what was lost. *)
AcknowledgedAreDurable ==
    \A f \in Fences : \A s \in (worker[f].base + 1)..worker[f].spool.ack :
        s <= db.persisted /\ log[s] = Entry(f, "worker")

(* Every projected event since the replay floor can be replayed and is the *)
(* accepted one.  What excuses a gap is a Valkey loss not yet repaired or  *)
(* a trim whose floor is still to be raised; what excuses a wrong event is *)
(* an orphaned Kafka batch.                                                *)
ReplayIsAccepted ==
    external /\ ~Orphaned =>
        /\ \A e \in live.events : e.seq <= db.persisted => e = EventAt(e.seq)
        /\ \A s \in (db.floor + 1)..db.projected :
              \/ s \in Terminals \/ live.lost \/ EventAt(s) \in live.events
              \/ \E f \in Fences : jobs[f] \in {"trimmed", "again"} /\ s <= TerminalOf(f)

(* The canonical transcript of a completed Turn has every event the Turn   *)
(* was acknowledged, and no transcript has an event that was not accepted. *)
(* (An orphaned batch that a rebuild puts back into Valkey may stand in    *)
(* for the events of the Turn that was accepted instead.)                  *)
TranscriptsAreCanonical ==
    ~Orphaned => \A f \in Fences :
        LET own == {EventAt(s) : s \in {s \in DOMAIN log : log[s].by = f}} IN
        /\ settle[f].outcome = "completed" => settle[f].transcript = own
        /\ settle[f].transcript \subseteq own

(* The live stream no longer has event s: Valkey lost it, or a compaction  *)
(* trimmed it.                                                             *)
Gone(s) == live.lost \/ \E f \in Fences : /\ jobs[f] \in {"trimmed", "again", "done"}
                                         /\ s <= TerminalOf(f)

(* Redelivery after a restart, a rolled-back projection, a retried Kafka   *)
(* append or a repair never looks like a conflict to the projector, while  *)
(* the live stream still has what is redelivered and a retried append is   *)
(* the first one's publication: Valkey refuses a batch of which it has a   *)
(* part, and an event with another digest.                                 *)
ProjectorSound == proj.dead => Orphaned \/ Recut \/ Gone(Envelope.lo)

(* The start of a gateway can always repair what Valkey lost, unless the   *)
(* first event after the floor is one the live stream never holds, or      *)
(* Kafka has the same events in different publications.                    *)
RepairSucceeds ==
    ~gateway => CanStart \/ Orphaned \/ Recut \/ db.floor + 1 \in Terminals

(* A spool with pending events is emptied, or is set aside because its     *)
(* fence lost the Session.                                                 *)
SpoolsDrain ==
    \A f \in Fences :
        []<>(worker[f].phase \in {"none", "running", "resolved", "recovered", "quarantined"})

(* From the Worker's file to the replay window nothing is lost or invented: *)
(* the file rebuilds the spool, what the spool drops is in the log under    *)
(* its fence, and what is replayed is what the log accepted.                *)
AcceptedIsKept ==
    PipelineTypeOK /\ SpoolRecovers /\ AcknowledgedAreDurable /\ ReplayIsAccepted

(* The readers of the log make the right thing of it: the projector stops   *)
(* for no redelivery, a gateway can repair what Valkey lost, and a          *)
(* transcript is the accepted log of its Turn.                              *)
ProjectionSound == ProjectorSound /\ RepairSucceeds /\ TranscriptsAreCanonical
=============================================================================
