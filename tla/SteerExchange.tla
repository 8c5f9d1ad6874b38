--------------------------- MODULE SteerExchange ---------------------------
(***************************************************************************)
(* The two-phase steer exchange over the Worker control channel            *)
(* (control-plane/remote-supervisor-steer-backend.ts and                   *)
(* worker-control-channel.ts, sandbox-supervisor's                         *)
(* supervisor-websocket-client.ts and agent-run-supervisor.ts).            *)
(*                                                                         *)
(* The Control Plane sends a steer and waits for its acknowledgement,      *)
(* commits, and waits for the result, each wait with a timer.  The Worker  *)
(* prepares on the first message and gives the text to Pi on the second.   *)
(* Either side may close the connection in between, and a call whose       *)
(* outcome is ambiguous is made again with the same command.               *)
(***************************************************************************)
EXTENDS Naturals, Sequences, FiniteSets

CONSTANTS
    Steers,              \* steer commands (commandId)
    MaxPendingCommands,  \* maxPendingCommands of a connection
    MaxConnections,      \* bound: connections of the Worker
    MaxTries,            \* bound: calls of steer for one command
    MaxExchangeFaults    \* bound: breaks and failed bookkeeping

ASSUME ExchangeBounds ==
    /\ IsFiniteSet(Steers)
    /\ {MaxPendingCommands, MaxConnections, MaxTries, MaxExchangeFaults} \subseteq Nat \ {0}

VARIABLES
    exchange,    \* the call of RemoteSupervisorSteerBackend.steer for a command
    attached,    \* the connection the router holds, 0 for none
    waitsAck,    \* pendingAcknowledgements: the call's number, 0 for none
    prepared,    \* preparedCommands of the router
    waitsResult, \* pendingResults
    opened,      \* connections the Worker has opened
    link,        \* SupervisorWebSocketClient: "registered", "closed" or "revoked"
    down, up,    \* frames on the current connection
    entry,       \* #preparedCommands of the client
    steer,       \* #steersByCommand of the AgentRunSupervisor
    target,      \* the Run the steers are for
    heard,       \* how often Pi was given a command's text
    exchangeFaults

routerVars == <<attached, waitsAck, prepared, waitsResult>>
workerVars == <<entry, steer, target, heard>>
exchangeVars == <<exchange, attached, waitsAck, prepared, waitsResult, opened, link,
                  down, up, entry, steer, target, heard, exchangeFaults>>

NoExchange == [at |-> "none", try |-> 0, ack |-> 0, outcome |-> "none", unsure |-> FALSE]
NoEntry == [try |-> 0, committed |-> FALSE]
None == [c \in Steers |-> 0]

ExchangeInit ==
    /\ exchange = [c \in Steers |-> NoExchange]
    /\ attached = 1 /\ opened = 1 /\ link = "registered"
    /\ waitsAck = None /\ prepared = [c \in Steers |-> NoEntry] /\ waitsResult = None
    /\ down = <<>> /\ up = <<>>
    /\ entry = [c \in Steers |-> NoEntry]
    /\ steer = [c \in Steers |-> "none"] /\ target = "running" /\ heard = None
    /\ exchangeFaults = 0

ExchangeFault == exchangeFaults < MaxExchangeFaults /\ exchangeFaults' = exchangeFaults + 1

\* A frame the Control Plane or the Worker puts on the connection; one that
\* the other side has closed is lost.
Live == link = "registered" /\ attached = opened
ToWorker(m) == down' = IF Live THEN Append(down, m) ELSE down
ToControl(m) == up' = IF Live THEN Append(up, m) ELSE up

Frame(kind, c, n) == [kind |-> kind, c |-> c, try |-> n]
Close(retryable) == [kind |-> "close", retryable |-> retryable]

-----------------------------------------------------------------------------
(* RemoteSupervisorSteerBackend and the router.                             *)

\* normalizeSteerError: only a committed call may be ambiguous.
Ends(x, outcome) ==
    [x EXCEPT !.at = "ended", !.outcome = outcome, !.unsure = @ \/ outcome = "ambiguous"]

\* A call may be made for a new command, after an ambiguous outcome, and when
\* recording a failure failed.
MayCall(c) ==
    /\ exchange[c].at \in {"none", "ended"} /\ exchange[c].try < MaxTries
    /\ \/ exchange[c].outcome \in {"none", "ambiguous"} /\ UNCHANGED exchangeFaults
       \/ exchange[c].outcome = "failed" /\ ExchangeFault

pendingCount ==
    Cardinality({c \in Steers : waitsAck[c] # 0})
    + Cardinality({c \in Steers : prepared[c] # NoEntry})
    + Cardinality({c \in Steers : waitsResult[c] # 0})

Busy(c) == waitsAck[c] # 0 \/ prepared[c] # NoEntry \/ waitsResult[c] # 0

\* steer up to the transport's prepare, which refuses or sends the command.
prepare(c) ==
    LET n == exchange[c].try + 1
        new == [exchange[c] EXCEPT !.at = "prepare", !.try = n, !.ack = 0, !.outcome = "none"]
    IN  /\ MayCall(c)
        /\ \/ /\ attached = 0 \/ Busy(c) \/ pendingCount >= MaxPendingCommands
              /\ exchange' = [exchange EXCEPT ![c] = Ends(new, "failed")]
              /\ UNCHANGED <<waitsAck, down>>
           \/ /\ attached # 0 /\ ~Busy(c) /\ pendingCount < MaxPendingCommands
              /\ exchange' = [exchange EXCEPT ![c] = new]
              /\ waitsAck' = [waitsAck EXCEPT ![c] = n]
              /\ ToWorker(Frame("steer", c, n))
        /\ UNCHANGED <<attached, prepared, waitsResult, opened, link, up, workerVars>>

ackTimesOut(c) ==
    /\ waitsAck[c] # 0
    /\ waitsAck' = [waitsAck EXCEPT ![c] = 0]
    /\ exchange' = [exchange EXCEPT ![c] = Ends(@, "failed")]
    /\ UNCHANGED <<attached, prepared, waitsResult, opened, link, down, up, workerVars,
                   exchangeFaults>>

\* commit: the preparation this connection holds becomes a pending result.
commit(c) ==
    /\ exchange[c].at = "acknowledged"
    /\ \/ /\ attached # 0 /\ prepared[c].try = exchange[c].try
          /\ exchange' = [exchange EXCEPT ![c].at = "commit"]
          /\ prepared' = [prepared EXCEPT ![c] = NoEntry]
          /\ waitsResult' = [waitsResult EXCEPT ![c] = exchange[c].try]
          /\ ToWorker(Frame("commit", c, exchange[c].ack))
       \/ /\ attached = 0 \/ prepared[c].try # exchange[c].try
          /\ exchange' = [exchange EXCEPT ![c] = Ends(@, "ambiguous")]
          /\ UNCHANGED <<prepared, waitsResult, down>>
    /\ UNCHANGED <<attached, waitsAck, opened, link, up, workerVars, exchangeFaults>>

\* The commit could not be built; steer releases the preparation.
release(c) ==
    /\ exchange[c].at = "acknowledged" /\ ExchangeFault
    /\ exchange' = [exchange EXCEPT ![c] = Ends(@, "failed")]
    /\ \/ /\ attached # 0 /\ prepared[c].try = exchange[c].try
          /\ ToWorker(Frame("release", c, exchange[c].ack))
          /\ prepared' = [prepared EXCEPT ![c] = NoEntry]
       \/ /\ attached = 0 \/ prepared[c].try # exchange[c].try
          /\ UNCHANGED <<down, prepared>>
    /\ UNCHANGED <<attached, waitsAck, waitsResult, opened, link, up, workerVars>>

resultTimesOut(c) ==
    /\ waitsResult[c] # 0
    /\ waitsResult' = [waitsResult EXCEPT ![c] = 0]
    /\ exchange' = [exchange EXCEPT ![c] = Ends(@, "ambiguous")]
    /\ UNCHANGED <<attached, waitsAck, prepared, opened, link, down, up, workerVars,
                   exchangeFaults>>

\* #detachState rejects every call that waits: before the commit nothing was
\* delivered, after it nobody knows.
detach(x) ==
    [c \in Steers |-> IF waitsAck[c] # 0 THEN Ends(x[c], "failed")
                      ELSE IF waitsResult[c] # 0 THEN Ends(x[c], "ambiguous") ELSE x[c]]

Detached(x) ==
    /\ exchange' = detach(x)
    /\ waitsAck' = None /\ prepared' = [c \in Steers |-> NoEntry] /\ waitsResult' = None

\* A frame the router does not expect closes the connection for good.
Refuse ==
    /\ attached' = 0 /\ Detached(exchange)
    /\ ToWorker(Close(FALSE))

\* What steer makes of the acknowledgement and of the result.
afterAcknowledgement(x, m) ==
    IF m.kind = "ack" THEN [x EXCEPT !.at = "acknowledged", !.ack = m.try]
                      ELSE Ends(x, "failed")

afterResult(x, m) == Ends(x, IF m.kind = "completed" THEN "delivered" ELSE "failed")

\* #acceptAcknowledgement compares the command, not the message it answers.
acceptAcknowledgement(m) ==
    LET c == m.c
    IN  \/ waitsAck[c] = 0 /\ Refuse
        \/ /\ waitsAck[c] # 0
           /\ waitsAck' = [waitsAck EXCEPT ![c] = 0]
           /\ exchange' = [exchange EXCEPT ![c] = afterAcknowledgement(@, m)]
           /\ prepared' = IF m.kind = "ack"
                            THEN [prepared EXCEPT ![c] = [NoEntry EXCEPT !.try = waitsAck[c]]]
                            ELSE prepared
           /\ UNCHANGED <<attached, waitsResult, down>>

\* #acceptResult.
acceptResult(m) ==
    LET c == m.c
    IN  \/ waitsResult[c] # m.try /\ Refuse
        \/ /\ waitsResult[c] = m.try
           /\ waitsResult' = [waitsResult EXCEPT ![c] = 0]
           /\ exchange' = [exchange EXCEPT ![c] = afterResult(@, m)]
           /\ UNCHANGED <<attached, waitsAck, prepared, down>>

\* receive, and the Worker's close.
receive ==
    /\ up # <<>> /\ attached = opened
    /\ up' = Tail(up)
    /\ LET m == Head(up)
       IN  \/ m.kind \in {"ack", "rejected"} /\ acceptAcknowledgement(m)
           \/ m.kind \in {"completed", "failed"} /\ acceptResult(m)
           \/ m.kind = "close" /\ attached' = 0 /\ Detached(exchange) /\ UNCHANGED down
    /\ UNCHANGED <<opened, link, workerVars, exchangeFaults>>

\* The gateway closes the connection for a reason of its own (restart, a full
\* send buffer); the Worker learns of it after the frames it has yet to read.
GatewayCloses ==
    /\ attached # 0 /\ ExchangeFault
    /\ attached' = 0 /\ Detached(exchange)
    /\ ToWorker(Close(TRUE)) /\ up' = <<>>
    /\ UNCHANGED <<opened, link, workerVars>>

-----------------------------------------------------------------------------
(* SupervisorWebSocketClient and AgentRunSupervisor.                        *)

\* #invalidateTransport: every preparation that is not committed is released.
released ==
    [c \in Steers |-> IF entry[c].try # 0 /\ ~entry[c].committed /\ steer[c] = "prepared"
                        THEN "none" ELSE steer[c]]

\* #fail and #finishClose.  A break that is not retryable revokes every
\* assignment, and with it the Run.
LinkEnds(retryable) ==
    /\ link' = IF retryable THEN "closed" ELSE "revoked"
    /\ entry' = [c \in Steers |-> NoEntry]
    /\ steer' = IF retryable THEN released
                ELSE [c \in Steers |-> IF released[c] = "prepared" THEN "none" ELSE released[c]]
    /\ target' = IF retryable THEN target ELSE "ended"
    /\ down' = <<>>

\* The client ends the connection; the gateway sees the close after the frames
\* that were already on their way.
ClientFails(retryable) ==
    /\ LinkEnds(retryable)
    /\ ToControl(Close(retryable))
    /\ UNCHANGED heard

LinkBreaks ==
    /\ link = "registered" /\ ExchangeFault
    /\ LinkEnds(TRUE)
    /\ \E n \in 0..Len(up) : up' = IF attached = opened
                                     THEN Append(SubSeq(up, 1, n), Close(TRUE)) ELSE <<>>
    /\ UNCHANGED <<exchange, routerVars, opened, heard>>

\* The reconnecting client opens the next connection; attach supersedes the
\* one the router may still hold.
attach ==
    /\ link = "closed" /\ opened < MaxConnections
    /\ opened' = opened + 1 /\ attached' = opened + 1 /\ link' = "registered"
    /\ Detached(exchange)
    /\ down' = <<>> /\ up' = <<>>
    /\ UNCHANGED <<workerVars, exchangeFaults>>

\* #prepareCommand and prepareSteer of the AgentRunSupervisor.
prepareCommand(m) ==
    LET c == m.c
        known == steer[c] # "none"
    IN  \/ entry[c].try # 0 /\ ClientFails(FALSE)
        \/ /\ entry[c].try = 0 /\ ~known /\ target = "ended"
           /\ ToControl(Frame("rejected", c, m.try)) /\ down' = Tail(down)
           /\ UNCHANGED <<link, workerVars>>
        \/ /\ entry[c].try = 0 /\ (known \/ target = "running")
           /\ steer' = [steer EXCEPT ![c] = IF known THEN @ ELSE "prepared"]
           /\ entry' = [entry EXCEPT ![c] = [try |-> m.try, committed |-> FALSE]]
           /\ ToControl(Frame("ack", c, m.try)) /\ down' = Tail(down)
           /\ UNCHANGED <<link, target, heard>>

\* mutant: the text is given to Pi again for a command that was run before.
startSteerAgain(c) ==
    IF target = "running" THEN [steer EXCEPT ![c] = "running"] ELSE steer

\* #runSteer starts a prepared steer once, while its Run goes on.
startSteer(c) ==
    IF steer[c] = "prepared" /\ target = "running"
      THEN [steer EXCEPT ![c] = "running"] ELSE steer

\* #commitCommand.
commitCommand(m) ==
    LET c == m.c
        fits == entry[c].try = m.try /\ ~entry[c].committed
    IN  \/ ~fits /\ ClientFails(FALSE)
        \/ /\ fits
           /\ entry' = [entry EXCEPT ![c].committed = TRUE]
           /\ steer' = startSteer(c) /\ down' = Tail(down)
           /\ UNCHANGED <<link, up, target, heard>>

\* #releaseCommand.
releaseCommand(m) ==
    LET c == m.c
        fits == entry[c].try = m.try /\ ~entry[c].committed
    IN  \/ ~fits /\ ClientFails(FALSE)
        \/ /\ fits
           /\ entry' = [entry EXCEPT ![c] = NoEntry]
           /\ steer' = [steer EXCEPT ![c] = IF @ = "prepared" THEN "none" ELSE @]
           /\ down' = Tail(down)
           /\ UNCHANGED <<link, up, target, heard>>

\* #processFrame.
processFrame ==
    /\ link = "registered" /\ down # <<>>
    /\ LET m == Head(down)
       IN  \/ m.kind = "steer" /\ prepareCommand(m)
           \/ m.kind = "commit" /\ commitCommand(m)
           \/ m.kind = "release" /\ releaseCommand(m)
           \/ m.kind = "close" /\ LinkEnds(m.retryable) /\ up' = <<>> /\ UNCHANGED heard
    /\ UNCHANGED <<exchange, routerVars, opened, exchangeFaults>>

\* The runner gives the text to Pi, or the Run ends before it can.
steerSettles(c) ==
    /\ steer[c] = "running"
    /\ \/ /\ target = "running"
          /\ steer' = [steer EXCEPT ![c] = "completed"] /\ heard' = [heard EXCEPT ![c] = @ + 1]
       \/ steer' = [steer EXCEPT ![c] = "failed"] /\ UNCHANGED heard
    /\ UNCHANGED <<exchange, routerVars, opened, link, down, up, entry, target, exchangeFaults>>

\* #runCommittedCommand: the outcome of the one run there is, whichever call
\* of the command asks.
commandResult(c) ==
    /\ entry[c].committed /\ steer[c] # "running"
    /\ ToControl(Frame(IF steer[c] = "completed" THEN "completed" ELSE "failed",
                       c, entry[c].try))
    /\ entry' = [entry EXCEPT ![c] = NoEntry]
    /\ UNCHANGED <<exchange, routerVars, opened, link, down, steer, target, heard,
                   exchangeFaults>>

RunEnds ==
    /\ target = "running" /\ target' = "ended"
    /\ UNCHANGED <<exchange, routerVars, opened, link, down, up, entry, steer, heard,
                   exchangeFaults>>

ExchangeNext ==
    \/ \E c \in Steers :
          \/ prepare(c) \/ ackTimesOut(c) \/ commit(c) \/ release(c) \/ resultTimesOut(c)
          \/ steerSettles(c) \/ commandResult(c)
    \/ receive \/ GatewayCloses \/ LinkBreaks \/ attach \/ processFrame \/ RunEnds

ExchangeSpec == ExchangeInit /\ [][ExchangeNext]_exchangeVars
-----------------------------------------------------------------------------
(* Properties.                                                              *)

\* The state has its types, and a connection never carries more than
\* maxPendingCommands exchanges, counting the ones between two messages.
ExchangeTypeOK ==
    /\ attached \in 0..opened /\ opened \in 1..MaxConnections
    /\ link \in {"registered", "closed", "revoked"} /\ target \in {"running", "ended"}
    /\ \A c \in Steers :
          /\ exchange[c].at \in {"none", "prepare", "acknowledged", "commit", "ended"}
          /\ exchange[c].outcome \in {"none", "delivered", "failed", "ambiguous"}
          /\ steer[c] \in {"none", "prepared", "running", "completed", "failed"}
          /\ {waitsAck[c], waitsResult[c], prepared[c].try, entry[c].try} \subseteq 0..MaxTries
    /\ Cardinality({c \in Steers : Busy(c)}) <= MaxPendingCommands

\* A steer that is reported as failed, with no earlier call left ambiguous, has
\* not been given to Pi and never will be by a message still on its way; one
\* that is reported as delivered has been.  The user retypes the one and not
\* the other (normalizeSteerError, #detachState, #runSteer).
OutcomeTruthful ==
    \A c \in Steers :
        /\ exchange[c].outcome = "delivered" => heard[c] = 1
        /\ exchange[c].outcome = "failed" /\ ~exchange[c].unsure =>
              heard[c] = 0 /\ steer[c] # "running"

\* Pi is given the text of a command at most once: through the calls made for
\* it, over as many connections, with results lost in between.
HeardOnce == \A c \in Steers : heard[c] <= 1

\* A call that waits is registered with the timer that ends its wait, on the
\* connection its answer has to come by; none is left waiting when the
\* connection is superseded, closed or refused (#detachState).
WaitersRegistered ==
    \A c \in Steers :
        /\ exchange[c].at = "prepare" <=> waitsAck[c] # 0
        /\ exchange[c].at = "commit" <=> waitsResult[c] # 0
        /\ waitsAck[c] # 0 \/ waitsResult[c] # 0 \/ prepared[c] # NoEntry => attached # 0

InTransit(q, kinds, c) == \E i \in DOMAIN q : q[i].kind \in kinds /\ q[i].c = c

\* A preparation of the Worker outlives neither its connection nor its call:
\* one that is not committed waits for an acknowledgement, a commit or a
\* release that is on its way, or the router still holds the exchange, or the
\* connection is about to be closed.
NoOrphanPreparation ==
    \A c \in Steers :
        /\ steer[c] = "prepared" /\ target = "running" => entry[c].try # 0
        /\ entry[c].try # 0 /\ ~entry[c].committed =>
              \/ InTransit(up, {"ack"}, c)
              \/ InTransit(down, {"commit", "release"}, c)
              \/ attached = opened /\ prepared[c] # NoEntry
              \/ attached # opened

\* The steer commands on the Worker's connections: heard once, reported as they
\* went, and with no waiter or preparation left behind by a broken connection.
SteersSound ==
    ExchangeTypeOK /\ OutcomeTruthful /\ HeardOnce /\ WaitersRegistered /\ NoOrphanPreparation
=============================================================================
