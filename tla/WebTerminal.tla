----------------------------- MODULE WebTerminal -----------------------------
(***************************************************************************)
(* The Workspace Web Terminal from the browser to the shell: the Control   *)
(* Plane's WebSocket proxy (control-plane/workspace-terminal-gateway.ts),  *)
(* the Tool Broker's socket (tool-broker-server.ts), the Cube runtime      *)
(* client and the guest's terminal routes (cube-tool-service.ts).          *)
(*                                                                         *)
(* A browser tab opens a socket to the proxy; the proxy resolves the       *)
(* Workspace, connects to the Broker of its domain, follows a redirect to  *)
(* the Broker instance that owns the Workspace, and forwards frames.  The  *)
(* instance reserves a row for the terminal, creates a Cube guest, and     *)
(* opens a PTY.  Each of these is awaited: meanwhile any of the three      *)
(* sockets may close, and the row may be taken from the handler that goes  *)
(* on with it, by a lapsed registration or by releaseRuntimeAssignment,    *)
(* for a sweep to clean up.  Who else may use a Workspace is the subject   *)
(* of SandboxBroker, and so are the terminals of development environments. *)
(***************************************************************************)
EXTENDS Integers, FiniteSets

CONSTANTS
    Tabs,               \* browser tabs on one Workspace
    Instances,          \* Broker instances of the domain, numbered from 1
    NoInstance,
    MaximumRedirects,
    MaxTerminalFaults   \* failures of a component, and moved Workspaces

ASSUME TerminalConstants ==
    /\ NoInstance \notin Instances /\ 1 \in Instances
    /\ {MaximumRedirects, MaxTerminalFaults} \subseteq Nat

VARIABLES
    browser,        \* the tab's socket
    proxy,          \* #proxy of the tab
    channel,        \* the Broker's socket for the tab, and its handler
    row,            \* the workspace_terminal_sessions row of a tab's terminal
    guest,          \* its Cube guest
    pty,            \* the shell in it
    sweep,          \* what an instance's #reapOrphanedTerminals does with a row
    warmOwner,      \* the instance with a warm activation of the Workspace
    alive,          \* the instances whose process runs
    ready,          \* the instances with a current registration
    terminalFaults

terminalVars == <<browser, proxy, channel, row, guest, pty, sweep, warmOwner,
                  alive, ready, terminalFaults>>

\* The terminals' durable and physical state, and that of the instances.
shellVars == <<row, guest, pty, sweep>>
instanceVars == <<warmOwner, alive, ready>>

NoProxy == [at |-> "none", closed |-> FALSE, hop |-> 1, redirects |-> 0]

NoChannel == [at |-> "none", closed |-> FALSE, hop |-> 1, says |-> "none",
              to |-> 1, dropped |-> FALSE]

\* What is left of a proxy and of a handler that have closed.
EndedProxy == [NoProxy EXCEPT !.at = "ended", !.closed = TRUE]
ClosedChannel == [NoChannel EXCEPT !.at = "closed", !.closed = TRUE]

\* "held" is reserved, materializing or active.
NoRow == [state |-> "none", owner |-> NoInstance]
ReleasedRow == [state |-> "released", owner |-> NoInstance]   \* nobody may set it

TerminalTypeOK ==
    /\ browser \in [Tabs -> {"new", "open", "gone"}]
    /\ proxy \in [Tabs -> [at : {"none", "descriptor", "connect", "sent", "redirect",
                                 "ready", "ended"},
                           closed : BOOLEAN, hop : Instances,
                           redirects : 0..MaximumRedirects]]
    /\ channel \in [Tabs -> [at : {"none", "asked", "reserved", "opening", "live", "closed"},
                             closed : BOOLEAN, hop : Instances,
                             says : {"none", "ready", "redirect", "error", "exit"},
                             to : Instances, dropped : BOOLEAN]]
    /\ row \in [Tabs -> [state : {"none", "held", "cleaning", "unknown", "released"},
                         owner : Instances \cup {NoInstance}]]
    /\ guest \in [Tabs -> {"none", "running", "stray", "destroyed"}]
    /\ pty \in [Tabs -> {"none", "open", "closed"}]
    /\ sweep \in [Instances -> [Tabs -> {"none", "claimed", "destroyed"}]]
    /\ warmOwner \in Instances \cup {NoInstance}
    /\ alive \subseteq Instances /\ ready \subseteq Instances

TerminalInit ==
    /\ browser = [b \in Tabs |-> "new"] /\ proxy = [b \in Tabs |-> NoProxy]
    /\ channel = [b \in Tabs |-> NoChannel] /\ row = [b \in Tabs |-> NoRow]
    /\ guest = [b \in Tabs |-> "none"] /\ pty = [b \in Tabs |-> "none"]
    /\ sweep = [i \in Instances |-> [b \in Tabs |-> "none"]]
    /\ warmOwner \in Instances \cup {NoInstance}
    /\ alive = Instances /\ ready = Instances
    /\ terminalFaults = 0

TerminalFault ==
    terminalFaults < MaxTerminalFaults /\ terminalFaults' = terminalFaults + 1

-----------------------------------------------------------------------------
(* The row of a terminal.                                                   *)

\* A terminal that keeps every other use of the Workspace out.
Leased(b) == row[b].state \in {"held", "cleaning", "unknown"}

\* setTerminalState of instance i writes: it is registered, and the row is
\* its own; a released one is nobody's here.
CanSet(i, b) ==
    i \in ready /\ row[b].owner = i

\* A write that is refused throws, and its callers swallow that.
TrySet(i, b, state) ==
    row' = IF CanSet(i, b)
             THEN [row EXCEPT ![b] = IF state = "released" THEN ReleasedRow
                                     ELSE [@ EXCEPT !.state = state]]
             ELSE row

\* The rows of S become "unknown", whatever their handlers do.
TakenFrom(S) ==
    row' = [b \in Tabs |-> IF row[b].owner \in S /\ row[b].state \in {"held", "cleaning"}
                             THEN [row[b] EXCEPT !.state = "unknown"] ELSE row[b]]

-----------------------------------------------------------------------------
(* What closes when a socket closes.                                        *)

Killed(b) == pty' = [pty EXCEPT ![b] = IF @ = "open" THEN "closed" ELSE @]

Destroyed(b) ==
    guest' = [guest EXCEPT ![b] = IF @ = "none" THEN @ ELSE "destroyed"]

\* #closeTerminal: the PTY is killed, the guest destroyed and the row
\* released; when the guest cannot be destroyed the row is "unknown".
closeTerminal(b) ==
    /\ Killed(b) /\ UNCHANGED sweep
    /\ \/ Destroyed(b) /\ TrySet(channel[b].hop, b, "released") /\ UNCHANGED terminalFaults
       \/ TerminalFault /\ TrySet(channel[b].hop, b, "unknown") /\ UNCHANGED guest

KeepTerminal == UNCHANGED <<shellVars, terminalFaults>>

\* A frame to a socket that has closed, or whose proxy has, goes nowhere.
Sent(b, frame) ==
    IF channel[b].closed \/ channel[b].dropped \/ proxy[b].closed THEN "none" ELSE frame

\* close of the Broker's handler: a connection that is open is closed with it;
\* one that is still being opened is left to the step that opens it.
ChannelCloses(b) ==
    /\ channel' = [channel EXCEPT ![b] =
          IF @.at \in {"reserved", "opening"} THEN [@ EXCEPT !.closed = TRUE, !.says = "none"]
                                              ELSE ClosedChannel]
    /\ IF channel[b].at = "live" THEN closeTerminal(b) ELSE KeepTerminal

\* close of the proxy: the browser's socket and the Broker's are closed; one
\* that is being connected is terminated.
ProxyCloses(b) ==
    /\ proxy' = [proxy EXCEPT ![b] = EndedProxy]
    /\ browser' = [browser EXCEPT ![b] = "gone"]

-----------------------------------------------------------------------------
(* The browser and the proxy.                                               *)

BrowserConnects(b) ==
    /\ browser[b] = "new" /\ browser' = [browser EXCEPT ![b] = "open"]
    /\ proxy' = [proxy EXCEPT ![b].at = "descriptor"]
    /\ UNCHANGED <<channel, shellVars, instanceVars, terminalFaults>>

\* The tab is closed, whatever the proxy awaits.
BrowserCloses(b) ==
    /\ browser[b] = "open" /\ ~proxy[b].closed
    /\ ProxyCloses(b)
    /\ UNCHANGED <<channel, shellVars, instanceVars, terminalFaults>>

\* #descriptor: the Session, its Workspace and the address of its domain,
\* which any instance of the domain answers; an archived Session or a failed
\* environment is refused.
descriptor(b) ==
    /\ proxy[b].at = "descriptor"
    /\ \/ /\ \E i \in alive : proxy' = [proxy EXCEPT ![b].at = "connect", ![b].hop = i]
          /\ UNCHANGED <<browser, terminalFaults>>
       \/ TerminalFault /\ ProxyCloses(b)
    /\ UNCHANGED <<channel, shellVars, instanceVars>>

\* connect: a socket to the instance, and the open frame.
connect(b) ==
    /\ proxy[b].at = "connect" /\ ~proxy[b].closed
    /\ \/ /\ proxy[b].hop \in alive
          /\ proxy' = [proxy EXCEPT ![b].at = "sent"]
          /\ channel' = [channel EXCEPT ![b] = [NoChannel EXCEPT !.at = "asked",
                                                   !.hop = proxy[b].hop]]
          /\ UNCHANGED <<browser, terminalFaults>>
       \/ /\ IF proxy[b].hop \in alive THEN TerminalFault ELSE UNCHANGED terminalFaults
          /\ ProxyCloses(b) /\ UNCHANGED channel
    /\ UNCHANGED <<shellVars, instanceVars>>

mayRedirect(b) == proxy[b].redirects < MaximumRedirects

\* #validatedOwnerRedirect: the instance a redirect names must be registered.
redirectCurrent(i) == i \in ready

\* A redirect frame arrives; the instance it names is looked up.
redirectFrame(b) ==
    /\ proxy[b].at = "sent" /\ ~proxy[b].closed /\ channel[b].says = "redirect"
    /\ proxy' = [proxy EXCEPT ![b].at = "redirect"]
    /\ channel' = [channel EXCEPT ![b].says = "none"]
    /\ UNCHANGED <<browser, shellVars, instanceVars, terminalFaults>>

\* The redirect is followed: the old socket is closed, a new one connected.
followRedirect(b) ==
    /\ proxy[b].at = "redirect" /\ ~proxy[b].closed
    /\ IF redirectCurrent(channel[b].to) /\ mayRedirect(b)
         THEN /\ proxy' = [proxy EXCEPT ![b].at = "connect", ![b].hop = channel[b].to,
                                        ![b].redirects = @ + 1]
              /\ UNCHANGED browser
         ELSE ProxyCloses(b)
    /\ channel' = [channel EXCEPT ![b] = NoChannel]
    /\ UNCHANGED <<shellVars, instanceVars, terminalFaults>>

\* ready is forwarded; exit and error are, and close the proxy.
proxyFrame(b) ==
    /\ proxy[b].at \in {"sent", "ready"} /\ ~proxy[b].closed
    /\ \/ /\ channel[b].says = "ready"
          /\ proxy' = [proxy EXCEPT ![b].at = "ready"] /\ UNCHANGED browser
       \/ channel[b].says \in {"error", "exit"} /\ ProxyCloses(b)
    /\ channel' = [channel EXCEPT ![b].says = "none"]
    /\ UNCHANGED <<shellVars, instanceVars, terminalFaults>>

\* A frame of the tab goes to the shell when it is ready; one that comes
\* before, or does not parse, closes the browser's socket.
BrowserFrame(b) ==
    /\ browser[b] = "open" /\ proxy[b].at \in {"connect", "sent"}
    /\ TerminalFault /\ ProxyCloses(b)
    /\ UNCHANGED <<channel, shellVars, instanceVars>>

\* The Broker's socket closed: so does the proxy.  A Broker closes its socket
\* after a redirect frame; the proxy that sees that before it has looked up the
\* new instance gives up.
proxySeesClose(b) ==
    /\ proxy[b].at \in {"sent", "redirect", "ready"} /\ channel[b].says = "none"
    /\ channel[b].at = "closed" \/ channel[b].dropped
    /\ ProxyCloses(b)
    /\ UNCHANGED <<channel, shellVars, instanceVars, terminalFaults>>

-----------------------------------------------------------------------------
(* The Tool Broker.                                                         *)

\* The connection between the proxy and the Broker is lost.
SocketDrops(b) ==
    /\ TerminalFault /\ channel[b].at \in {"asked", "reserved", "opening", "live"}
    /\ ~channel[b].dropped
    /\ channel' = [channel EXCEPT ![b].dropped = TRUE, ![b].says = "none"]
    /\ UNCHANGED <<browser, proxy, shellVars, instanceVars>>

\* The handler's socket closes: the proxy closed it, or it was dropped.
channelSeesClose(b) ==
    /\ channel[b].at \in {"asked", "reserved", "opening", "live"} /\ ~channel[b].closed
    /\ proxy[b].closed \/ channel[b].dropped
    /\ ChannelCloses(b)
    /\ UNCHANGED <<browser, proxy, instanceVars>>

\* A Workspace that no warm activation of another instance redirects from.
Here(i) == warmOwner \in {i, NoInstance}

\* openTerminal up to reserveTerminal: an instance whose registration lapsed
\* answers with an error, a warm activation elsewhere with a redirect, and a
\* Workspace in use, by a terminal or by a Turn, with an error.  The
\* reservation retires a warm activation of its own.
openTerminal(b) ==
    LET i == channel[b].hop
    IN  /\ channel[b].at = "asked" /\ ~channel[b].closed
        /\ \/ /\ i \in ready /\ ~Here(i)
              /\ channel' = [channel EXCEPT ![b] =
                    [ClosedChannel EXCEPT !.says = Sent(b, "redirect"), !.to = warmOwner]]
              /\ UNCHANGED <<row, warmOwner, terminalFaults>>
           \/ /\ IF i \notin ready \/ (Here(i) /\ \E c \in Tabs : Leased(c))
                   THEN UNCHANGED terminalFaults ELSE TerminalFault
              /\ channel' = [channel EXCEPT ![b] = [ClosedChannel EXCEPT !.says = Sent(b, "error")]]
              /\ UNCHANGED <<row, warmOwner>>
           \/ /\ i \in ready /\ Here(i) /\ \A c \in Tabs : ~Leased(c)
              /\ channel' = [channel EXCEPT ![b].at = "reserved"]
              /\ row' = [row EXCEPT ![b] = [state |-> "held", owner |-> i]]
              /\ warmOwner' = NoInstance /\ UNCHANGED terminalFaults
        /\ UNCHANGED <<browser, proxy, guest, pty, sweep, alive, ready>>

\* The row is "materializing"; the creation of the guest begins.
materialize(b) ==
    /\ channel[b].at = "reserved" /\ CanSet(channel[b].hop, b)
    /\ channel' = [channel EXCEPT ![b].at = "opening"]
    /\ row' = [row EXCEPT ![b].state = "held"]
    /\ UNCHANGED <<browser, proxy, guest, pty, sweep, instanceVars, terminalFaults>>

\* Nobody will look for the guest of b again: its row is released, or the
\* sweep that will release it has looked.
SweptAlready(b) ==
    ~Leased(b) \/ \E i \in Instances : sweep[i][b] = "destroyed"

\* provider.create: the guest of the terminal.  One that comes up after its row
\* was swept is a stray.
createGuest(b) ==
    /\ channel[b].at = "opening" /\ guest[b] = "none"
    /\ guest' = [guest EXCEPT ![b] = IF SweptAlready(b) THEN "stray" ELSE "running"]
    /\ UNCHANGED <<browser, proxy, channel, row, pty, sweep, instanceVars, terminalFaults>>

\* The guest spawns the shell and answers with its PID.
spawnShell(b) ==
    /\ channel[b].at = "opening" /\ guest[b] \in {"running", "stray"} /\ pty[b] = "none"
    /\ pty' = [pty EXCEPT ![b] = "open"]
    /\ UNCHANGED <<browser, proxy, channel, row, guest, sweep, instanceVars, terminalFaults>>

\* openTerminal has answered: a socket that closed meanwhile closes what was
\* opened; otherwise the tab is told that the shell is ready.
terminalOpened(b) ==
    IF channel[b].closed
      THEN channel' = [channel EXCEPT ![b] = ClosedChannel] /\ closeTerminal(b)
      ELSE /\ channel' = [channel EXCEPT ![b].at = "live",
                                            ![b].says = Sent(b, "ready")]
           /\ row' = [row EXCEPT ![b].state = "held"]
           /\ UNCHANGED <<guest, pty, sweep, terminalFaults>>

\* The row is "active", if it still can be.
Opened(b) ==
    /\ channel[b].at = "opening" /\ pty[b] # "none" /\ CanSet(channel[b].hop, b)
    /\ terminalOpened(b)
    /\ UNCHANGED <<browser, proxy, instanceVars>>

\* A step of the opening throws: a component fails, the row was taken, or the
\* guest was destroyed under it.  The guest is destroyed, or it is not; the row
\* is "unknown" if it still can be, and the tab is told.
OpeningFails(b) ==
    LET refused == ~CanSet(channel[b].hop, b) /\ (channel[b].at = "reserved" \/ pty[b] # "none")
        caused == refused \/ (guest[b] = "destroyed" /\ pty[b] = "none")
    IN  /\ channel[b].at \in {"reserved", "opening"}
        /\ IF caused THEN UNCHANGED terminalFaults ELSE TerminalFault
        /\ channel' = [channel EXCEPT ![b] = [ClosedChannel EXCEPT !.says = Sent(b, "error")]]
        /\ Killed(b) /\ (Destroyed(b) \/ UNCHANGED guest)
        /\ TrySet(channel[b].hop, b, "unknown")
        /\ UNCHANGED <<browser, proxy, sweep, instanceVars>>

\* The output ends, for the shell exited or its guest was destroyed, or a frame
\* finds that the registration lapsed (assertLocalOwnership); the tab is told,
\* and the handler closes.
shellExits(b) ==
    /\ channel[b].at = "live" /\ channel[b].says = "none" /\ ~channel[b].closed
    /\ channel' = [channel EXCEPT ![b] = [ClosedChannel EXCEPT !.says = Sent(b, "exit")]]
    /\ closeTerminal(b)
    /\ UNCHANGED <<browser, proxy, instanceVars>>

-----------------------------------------------------------------------------
(* The instances and their registrations.                                   *)

\* An instance dies: its sockets drop and its sweeps stop; its guests, rows and
\* registration stay.
InstanceCrashes(i) ==
    /\ i \in alive /\ alive' = alive \ {i}
    /\ IF i \in ready THEN TerminalFault ELSE UNCHANGED terminalFaults
    /\ channel' = [b \in Tabs |->
          IF channel[b].hop = i /\ channel[b].at # "none"
            THEN ClosedChannel
            ELSE channel[b]]
    /\ sweep' = [sweep EXCEPT ![i] = [b \in Tabs |-> "none"]]
    /\ UNCHANGED <<browser, proxy, row, guest, pty, warmOwner, ready>>

\* No heartbeat renews the registration in time: the instance is dead, or cut
\* off from the database while its handlers go on.
RegistrationLapses(i) ==
    /\ i \in ready /\ ready' = ready \ {i}
    /\ IF i \in alive THEN TerminalFault ELSE UNCHANGED terminalFaults
    /\ UNCHANGED <<browser, proxy, channel, shellVars, warmOwner, alive>>

\* #markExpiredOwnersLost, in the heartbeat of an instance: what a lapsed one
\* owns is "unknown", live terminals included, and its warm activation is for
\* a sweep to destroy.
markExpiredOwnersLost ==
    /\ alive # {}
    /\ TakenFrom(Instances \ ready) /\ warmOwner' = IF warmOwner \in ready THEN warmOwner
                                                     ELSE NoInstance
    /\ UNCHANGED <<browser, proxy, channel, guest, pty, sweep, alive, ready, terminalFaults>>

\* start: the registrations that lapsed are marked, and a new one is current.
InstanceStarts(i) ==
    /\ i \notin alive \cup ready
    /\ alive' = alive \cup {i} /\ ready' = ready \cup {i}
    /\ TakenFrom(Instances \ ready) /\ warmOwner' = IF warmOwner \in ready THEN warmOwner
                                                     ELSE NoInstance
    /\ UNCHANGED <<browser, proxy, channel, guest, pty, sweep, terminalFaults>>

\* terminateAndConfirmAbsent of some Agent's runtime marks every open terminal
\* of the instance "unknown" too.
releaseRuntimeAssignment(i) ==
    /\ TerminalFault /\ i \in alive \cap ready /\ TakenFrom({i})
    /\ UNCHANGED <<browser, proxy, channel, guest, pty, sweep, instanceVars>>

\* A Turn of the Workspace ends, and its activation is kept warm.
TurnParks(i) ==
    /\ TerminalFault /\ i \in alive \cap ready /\ warmOwner = NoInstance
    /\ \A b \in Tabs : ~Leased(b)
    /\ warmOwner' = i
    /\ UNCHANGED <<browser, proxy, channel, shellVars, alive, ready>>

-----------------------------------------------------------------------------
(* #reapOrphanedTerminals, every 30 seconds and before a terminal opens.    *)

claimOrphanedTerminals(i, b) ==
    /\ i \in alive \cap ready /\ row[b].state = "unknown" /\ sweep[i][b] = "none"
    /\ row' = [row EXCEPT ![b] = [state |-> "cleaning", owner |-> i]]
    /\ sweep' = [sweep EXCEPT ![i][b] = "claimed"]
    /\ UNCHANGED <<browser, proxy, channel, guest, pty, instanceVars, terminalFaults>>

\* destroyActivation, whoever works on the guest; when it fails the row is
\* "unknown" again.
destroySwept(i, b) ==
    /\ sweep[i][b] = "claimed"
    /\ \/ /\ sweep' = [sweep EXCEPT ![i][b] = "destroyed"]
          /\ Killed(b) /\ Destroyed(b) /\ UNCHANGED <<row, terminalFaults>>
       \/ /\ TerminalFault /\ sweep' = [sweep EXCEPT ![i][b] = "none"]
          /\ TrySet(i, b, "unknown") /\ UNCHANGED <<guest, pty>>
    /\ UNCHANGED <<browser, proxy, channel, instanceVars>>

releaseSwept(i, b) ==
    /\ sweep[i][b] = "destroyed" /\ sweep' = [sweep EXCEPT ![i][b] = "none"]
    /\ TrySet(i, b, "released")
    /\ UNCHANGED <<browser, proxy, channel, guest, pty, instanceVars, terminalFaults>>

TerminalNext ==
    \/ \E b \in Tabs :
          \/ BrowserConnects(b) \/ BrowserCloses(b) \/ BrowserFrame(b)
          \/ descriptor(b) \/ connect(b) \/ redirectFrame(b) \/ followRedirect(b)
          \/ proxyFrame(b) \/ proxySeesClose(b) \/ channelSeesClose(b)
          \/ openTerminal(b) \/ materialize(b) \/ createGuest(b) \/ spawnShell(b)
          \/ Opened(b) \/ OpeningFails(b) \/ shellExits(b) \/ SocketDrops(b)
    \/ \E i \in Instances :
          \/ InstanceCrashes(i) \/ RegistrationLapses(i) \/ InstanceStarts(i)
          \/ releaseRuntimeAssignment(i) \/ TurnParks(i)
          \/ \E b \in Tabs :
                claimOrphanedTerminals(i, b) \/ destroySwept(i, b) \/ releaseSwept(i, b)
    \/ markExpiredOwnersLost

-----------------------------------------------------------------------------
(* Properties.                                                              *)

\* A handler works on the terminal, or a sweep does, or a sweep will find it:
\* its row is "unknown", or will be when its owner is marked lost.
Kept(b) ==
    \/ channel[b].at \in {"reserved", "opening"}
    \/ channel[b].at = "live" /\ ~channel[b].closed
    \/ row[b].state = "unknown"
    \/ row[b].owner \notin alive \cap ready
    \/ row[b].state = "cleaning" /\ sweep[row[b].owner][b] # "none"

\* A guest runs only while its row keeps the Workspace, and while somebody will
\* destroy it: closing the tab at any await of the proxy, the Broker or the
\* guest, and the loss of the row under a live handler, leave no shell behind
\* ("Disconnect kills the PTY and destroys the Cube").  A stray is exempt: no
\* row leads to it, and only the opening that made it destroys it.
NoAbandonedShell ==
    \A b \in Tabs : guest[b] = "running" => Leased(b) /\ Kept(b)

\* An open shell keeps the Workspace, and is the only one in it: also when the
\* row was taken from its live handler, until its guest is destroyed, and
\* through redirects, lapsed registrations and stale sweeps.  A stray is exempt.
ShellHoldsWorkspace ==
    \A b \in Tabs : pty[b] = "open" /\ guest[b] # "stray" =>
        /\ Leased(b)
        /\ \A c \in Tabs \ {b} : pty[c] = "open" => guest[c] = "stray"

=============================================================================
