---------------------------- MODULE EventStream ----------------------------
(***************************************************************************)
(* The browsers of a Session on top of the event pipeline: loading a       *)
(* conversation and the live snapshot of its active Turn, opening the SSE  *)
(* stream after the loaded position, replay in pages up to a high-water    *)
(* mark, wakes, heartbeats, reconnects and expired cursors.                *)
(***************************************************************************)
EXTENDS EventPipeline

CONSTANT Browsers

VARIABLE browser    \* per browser: connection, stream cursor and view
vars == << pipeVars, browser >>

(* last is the stream's Last-Event-ID, view the reducer's lastSequence,    *)
(* hole the events between a conversation and a snapshot that was taken    *)
(* after their Turn had settled.                                           *)
FreshBrowser == [phase |-> "load", last |-> 0, view |-> 0, shown |-> {}, hwm |-> 0,
                 wake |-> 0, replay |-> 0, loaded |-> {}, turn |-> 0, hole |-> {}]

Init == PipelineInit /\ browser = [b \in Browsers |-> FreshBrowser]

Streaming(p) == p \in {"opening", "window", "idle"}

(* A commit that moves the projected cursor notifies through PostgreSQL    *)
(* every subscribed stream; queued wakes merge to the highest.  A gateway  *)
(* that dies takes its streams with it, and a notification is lost while   *)
(* the LISTEN connection is down.                                          *)
Woken(w, s) ==
    IF ~Streaming(w.phase) THEN w ELSE [w EXCEPT !.wake = Max({@, s})]
Dropped(w) ==
    IF Streaming(w.phase) THEN [w EXCEPT !.phase = "connect", !.wake = 0] ELSE w
AfterPipeline ==
    [b \in Browsers |->
        IF gateway' # gateway /\ ~gateway' THEN Dropped(browser[b])
        ELSE IF db'.projected # db.projected THEN Woken(browser[b], db'.projected)
        ELSE browser[b]]
Pipeline == PipelineNext /\ browser' = AfterPipeline

LoseNotification ==
    /\ \E b \in Browsers : browser[b].wake # 0
    /\ Fault("notify")
    /\ browser' = [b \in Browsers |-> [browser[b] EXCEPT !.wake = 0]]
    /\ UNCHANGED << external, workerVars, storeVars, liveVars, orphans >>
-----------------------------------------------------------------------------
Set(b, w) == browser' = [browser EXCEPT ![b] = w] /\ UNCHANGED pipeVars

Transcripts == UNION {settle[f].transcript : f \in Fences}
ActiveTurn  == IF db.fence # 0 /\ ~Settled(db.fence) THEN db.fence ELSE 0

LoadConversationAtCursor(b) ==
    LET w == browser[b] IN
    /\ w.phase = "load"
    /\ Set(b, [w EXCEPT !.phase = "loaded", !.loaded = Transcripts, !.replay = db.projected])

(* getConversation: the transcripts of the settled Turns, to be continued  *)
(* after the last of them.                                                 *)
LoadConversation(b) ==
    LET w == browser[b] IN
    /\ w.phase = "load"
    /\ Set(b, [w EXCEPT !.phase = "loaded", !.loaded = Transcripts,
                        !.replay = Max({db.floor, LastTerminal(db.persisted)})])

(* LiveTurnSnapshotReader.read looks up the active Turn first...           *)
SnapshotTurn(b) ==
    LET w == browser[b] IN
    /\ w.phase = "loaded"
    /\ Set(b, [w EXCEPT !.phase = "snapshot", !.turn = IF external THEN ActiveTurn ELSE 0])

(* ...then its live range; without one, or on an error, the stream         *)
(* continues after the conversation (conversation.loaded).                 *)
SnapshotRange == (Max({db.floor, LastTerminal(LiveThrough)}) + 1)..LiveThrough
SnapshotEvents(t) ==
    IF t # 0 /\ gateway /\ SnapshotRange \subseteq Seqs(live.events)
    THEN {e \in live.events : e.seq \in SnapshotRange /\ e.by = t} ELSE {}
ReadSnapshot(b) ==
    LET w == browser[b]
        events == SnapshotEvents(w.turn)
        plain == [w EXCEPT !.phase = "connect", !.last = w.replay, !.view = w.replay,
                           !.shown = w.loaded, !.hole = {}]
    IN
    /\ w.phase = "snapshot"
    /\ Set(b, IF events = {} THEN plain
              ELSE IF LiveThrough < w.replay THEN [plain EXCEPT !.last = LiveThrough]
              ELSE [plain EXCEPT !.last = LiveThrough, !.view = LiveThrough,
                                 !.shown = w.loaded \cup events,
                                 !.hole = (w.replay + 1)..(Min(SnapshotRange) - 1)])

(* SessionEventStream.open subscribes before it reads the cursor.          *)
Subscribe(b) ==
    /\ browser[b].phase = "connect" /\ gateway
    /\ Set(b, [browser[b] EXCEPT !.phase = "opening", !.wake = 0])

(* openReplayWindow: 410 below the floor makes the client load again.      *)
OpenWindow(b) ==
    LET w == browser[b] IN
    /\ w.phase = "opening" /\ w.last <= db.projected
    /\ Set(b, IF w.last < db.floor THEN [w EXCEPT !.phase = "load", !.wake = 0]
              ELSE [w EXCEPT !.phase = "window", !.hwm = db.projected])

(* readReplayPage in external mode merges the live stream with the         *)
(* terminal rows; locally everything is a row.                             *)
Readable(s) == \/ ~external \/ s \in Terminals
               \/ s \in Seqs(live.events)
Stored(s) == IF external /\ s \notin Terminals
             THEN CHOOSE e \in live.events : e.seq = s ELSE EventAt(s)

(* One frame: written by the stream, parsed by the client, reduced into    *)
(* the view, which drops what it has and refuses a jump.  A gap in the     *)
(* page ends the connection.                                               *)
Shown(w, e) == IF e.seq = w.view + 1 THEN [w EXCEPT !.view = e.seq, !.shown = @ \cup {e}] ELSE w
Deliver(b) ==
    LET w == browser[b] IN
    /\ w.phase = "window" /\ w.last < w.hwm
    /\ Set(b, IF Readable(w.last + 1)
              THEN [Shown(w, Stored(w.last + 1)) EXCEPT !.last = w.last + 1]
              ELSE Dropped(w))
WindowEnds(b) ==
    LET w == browser[b] IN
    /\ w.phase = "window" /\ w.last >= w.hwm
    /\ Set(b, [w EXCEPT !.phase = "idle"])

(* A wake, a resync or a heartbeat reads the current suffix; an expired    *)
(* cursor here ends the response, and the client reconnects.  A wake ahead *)
(* of the cursor would be an error.                                        *)
Suffix(w) == IF w.last < db.floor \/ db.projected < w.wake THEN Dropped(w)
             ELSE [w EXCEPT !.phase = "window", !.hwm = db.projected, !.wake = 0]
Wake(b) ==
    LET w == browser[b] IN
    /\ w.phase = "idle" /\ w.wake # 0
    /\ Set(b, IF w.wake <= w.last THEN [w EXCEPT !.wake = 0] ELSE Suffix(w))
HeartbeatKeepalive(b) == browser[b].phase = "idle" /\ UNCHANGED vars
Heartbeat(b) ==
    LET w == browser[b] IN
    /\ w.phase = "idle" /\ w.wake = 0 /\ db.projected > w.last
    /\ Set(b, Suffix(w))

(* The connection breaks; the client retries from its last event.          *)
Disconnect(b) ==
    /\ Streaming(browser[b].phase)
    /\ Fault("disconnect")
    /\ browser' = [browser EXCEPT ![b] = Dropped(@)]
    /\ UNCHANGED << external, workerVars, storeVars, liveVars, orphans >>

BrowserStep(b) == \/ LoadConversation(b) \/ SnapshotTurn(b) \/ ReadSnapshot(b)
                  \/ Subscribe(b) \/ OpenWindow(b) \/ Deliver(b) \/ WindowEnds(b)
                  \/ Wake(b) \/ Heartbeat(b)
Next == Pipeline \/ LoseNotification \/ \E b \in Browsers : BrowserStep(b) \/ Disconnect(b)

Spec == Init /\ [][Next]_vars
-----------------------------------------------------------------------------
(* Types, and what bounds a stream: the cursor never passes the projected  *)
(* prefix nor a wake its commit.                                           *)
StreamTypeOK ==
    \A b \in Browsers :
        LET w == browser[b] IN
        /\ w.phase \in {"load", "loaded", "snapshot", "connect", "opening", "window", "idle"}
        /\ w.last <= db.projected /\ w.hwm <= db.projected /\ w.wake <= db.projected
        /\ w.view \in 0..MaxSeq /\ w.turn \in 0..MaxFence

(* The reducer never meets a jump: the stream cursor is never ahead of the *)
(* view, across snapshots, reloads, reconnects and expired cursors (a jump *)
(* would freeze the view for good).                                        *)
StreamNeverJumps == \A b \in Browsers : browser[b].last <= browser[b].view

(* A view shows accepted events only, and, up to its position, all of      *)
(* them: an event is missing only if its Turn settled without a transcript *)
(* or settled between the conversation and the snapshot read.              *)
ViewIsLogPrefix ==
    \A b \in Browsers :
        LET w == browser[b] IN
        ~Orphaned =>
            /\ w.shown \subseteq {EventAt(s) : s \in DOMAIN log}
            /\ \A s \in 1..w.view :
                  \/ EventAt(s) \in w.shown \/ s \in w.hole
                  \/ /\ Settled(log[s].by)
                     /\ EventAt(s) \notin settle[log[s].by].transcript

(* The browsers and the pipeline implement the append-only log: blocks of  *)
(* Turns closed by one terminal event, and readers that only move forward. *)
Abstract == INSTANCE EventLog WITH Turns <- Fences, Readers <- Browsers,
                position <- [b \in Browsers |-> browser[b].view]
ImplementsEventLog == Abstract!Spec

(* A browser that stays open sees every projected event.                   *)
ViewCatchesUp ==
    \A b \in Browsers : []<>(browser[b].view >= db.projected \/ Orphaned \/ live.lost)

(* A browser follows the log: its cursor stays behind its view, and the view *)
(* is a prefix of what was accepted.                                         *)
ViewsFollowTheLog == StreamTypeOK /\ StreamNeverJumps /\ ViewIsLogPrefix
=============================================================================
