---------------------------- MODULE WorkerProofs ----------------------------
(***************************************************************************)
(* A Pi Worker, its host and the Runs it executes, for every number of     *)
(* boots, sockets, commands, lanes, Cloud Steps, steers and faults.        *)
(*                                                                         *)
(* One generation of a host owns its Supervisor at most, and a Sandbox is  *)
(* retired only when its process is quiet: LinkSpec => []OwnershipSound.   *)
(* The Worker's loop never enters more root Runs than it has lanes for,    *)
(* and stop leaves none behind: PoolSpec => []LanesSound.                  *)
(* What a Run does to the Session it continues, wherever the Worker dies:  *)
(* ContextSpec => []ContextSound.  What a steer of a running Turn tells    *)
(* its caller, wherever the connection breaks: ExchangeSpec =>             *)
(* []SteersSound.                                                          *)
(***************************************************************************)
EXTENDS SupervisorLink, PiWorker, StepContext, SteerExchange, SequenceTheorems,
        FiniteSetTheorems, TLAPS

-----------------------------------------------------------------------------
(* The link of a Worker: its inductive invariant.                          *)

(* The client's fields go with the phase of the process, and the ledger     *)
(* with its boot.                                                           *)
HostOK ==
  /\ host.phase = "down" => host = HostDown(host.boot)
  /\ host.phase # "down" => host.boot # 0
  /\ host.phase = "stopped" => host.runs = "none"
  /\ host.link \in {"connecting", "connected"} => host.socket # 0
  /\ ledger.current = host.boot
  /\ ledger.status = "none" => ledger.current = 0

(* Boots appear in order, and where a generation has registered, every older *)
(* one can no longer register.                                               *)
BootsFollow ==
  /\ \A b \in Boots : b > host.boot => sandboxes[b] = "none"
  /\ \A t \in Sockets :
       /\ sockets[t].boot <= host.boot
       /\ sockets[t].frame = "register" => sockets[t].boot # 0
       /\ connections[t].state # "none" =>
            /\ sockets[t].boot # 0
            /\ \A b \in Boots :
                 b < sockets[t].boot => sandboxes[b] \notin {"provisioning", "ready"}

(* A retirement, queued or under way, is about a boot that is fenced.        *)
RetirementsFollow ==
  /\ \A b \in Boots :
       retirements[b].state # "none" => sandboxes[b] \in {"failed", "terminated"}
  /\ \A r \in Replicas : maintenance[r].step # "idle" =>
       /\ maintenance[r].boot # 0
       /\ retirements[maintenance[r].boot].state # "none"

(* The process of boot b claims no Run any more, and has none but if it      *)
(* drains.                                                                   *)
BootQuiet(b) ==
  host.boot = b =>
    \/ host.phase = "draining"
    \/ host.phase \in {"stopped", "down"} /\ host.runs = "none"

(* What the ledger and a replica take for a proof that a process stopped     *)
(* stays true: the process never claims again.                               *)
StopsHold ==
  /\ ledger.status = "stopped" => BootQuiet(ledger.current)
  /\ \A b \in Boots : sandboxes[b] = "terminated" => BootQuiet(b)
  /\ \A r \in Replicas : maintenance[r].step \in {"renew", "retire", "complete"} =>
       BootQuiet(maintenance[r].boot)

LinkInv ==
  /\ LinkTypeOK /\ OneOwner /\ FenceIsRetired
  /\ HostOK /\ BootsFollow /\ RetirementsFollow /\ StopsHold

USE LinkAssumption DEF Boots, Sockets

(* The invariant holds when no process has booted (LinkInit). *)
LEMMA LinkStarts == LinkInit => LinkInv
BY DEF LinkInit, LinkInv, LinkTypeOK, OneOwner, FenceIsRetired, HostOK, BootsFollow,
       RetirementsFollow, StopsHold, BootQuiet, HostDown, HostRecord, LedgerRecord,
       SandboxState, CredentialState, ConnectionRow, NoConnection, SocketContext, NoSocket,
       RetirementRow, NoRetirement, Idle

(* What the two ends do to a socket keeps its type: a frame for the peer, the *)
(* end let go, the context closed.                                            *)
LEMMA SocketTypes ==
  ASSUME NEW sock \in [Sockets -> SocketContext]
  PROVE  /\ \A t \in 0 .. MaxSockets : LetGo(sock, t) \in [Sockets -> SocketContext]
         /\ \A c \in SocketContext, frame \in Frames :
              Told(c, frame) \in Seq(Frames)
         /\ \A t \in Sockets, context \in SocketContext :
              [sock EXCEPT ![t] = context] \in [Sockets -> SocketContext]
         /\ \A T : \A code \in Frames : Closed(sock, T, code) \in [Sockets -> SocketContext]
<1>1. ASSUME NEW t \in 0 .. MaxSockets
      PROVE  LetGo(sock, t) \in [Sockets -> SocketContext]
  <2>1. CASE t = 0
    BY <2>1 DEF LetGo
  <2>2. CASE t # 0
    <3> <<>> \in Seq(Frames)
      OBVIOUS
    <3>1. t \in Sockets
      BY <2>2
    <3>2. [sock[t] EXCEPT !.open = FALSE, !.down = <<>>] \in SocketContext
      BY <3>1 DEF SocketContext
    <3>3. LetGo(sock, t) = [sock EXCEPT ![t] = [sock[t] EXCEPT !.open = FALSE, !.down = <<>>]]
      BY <2>2, <3>1 DEF LetGo, SocketContext
    <3>4. QED
      BY <3>2, <3>3
  <2>3. QED
    BY <2>1, <2>2
<1>2. ASSUME NEW c \in SocketContext, NEW frame \in Frames
      PROVE  Told(c, frame) \in Seq(Frames)
  BY DEF Told, SocketContext, Frames
<1>3. ASSUME NEW T, NEW code \in Frames
      PROVE  Closed(sock, T, code) \in [Sockets -> SocketContext]
  BY <1>2 DEF SocketContext, Frames, Closed
<1>4. QED
  BY <1>1, <1>2, <1>3

(* Single fields of the host's record are written with values of their types. *)
LEMMA HostFields ==
  ASSUME NEW h \in HostRecord
  PROVE  /\ h.runs \in {"none", "active", "revoked"} /\ Revoked(h.runs) \in {"none", "active", "revoked"}
         /\ \A x \in {"idle", "connecting", "connected", "closed"} : [h EXCEPT !.link = x] \in HostRecord
         /\ \A x \in 0 .. MaxSockets : [h EXCEPT !.socket = x] \in HostRecord
         /\ \A x \in BOOLEAN : [h EXCEPT !.beat = x] \in HostRecord
         /\ \A x \in {"none", "active", "revoked"} : [h EXCEPT !.runs = x] \in HostRecord
         /\ \A x \in {"down", "booting", "running", "draining", "stopping", "stopped", "failed"} :
              [h EXCEPT !.phase = x] \in HostRecord
         /\ \A b \in 0 .. MaxBoots : HostDown(b) \in HostRecord
         /\ h.boot \in 0 .. MaxBoots
BY DEF HostRecord, HostDown, Revoked

(* So are several at once, where the client of a host opens or lets go a link. *)
LEMMA HostWrites ==
  ASSUME NEW h \in HostRecord
  PROVE  /\ \A x \in {"idle", "closed"} : [h EXCEPT !.link = x, !.socket = 0, !.beat = FALSE] \in HostRecord
         /\ \A x \in {"idle", "closed"} : [h EXCEPT !.link = x, !.socket = 0, !.beat = FALSE, !.runs = Revoked(h.runs)] \in HostRecord
         /\ \A t \in Sockets : [h EXCEPT !.link = "connecting", !.socket = t] \in HostRecord
         /\ [h EXCEPT !.link = "closed", !.runs = Revoked(h.runs)] \in HostRecord
         /\ [h EXCEPT !.phase = "stopping", !.link = "closed", !.socket = 0, !.beat = FALSE, !.runs = Revoked(h.runs)] \in HostRecord
<1>1. ASSUME NEW x \in {"idle", "closed"}
      PROVE [h EXCEPT !.link = x, !.socket = 0, !.beat = FALSE] \in HostRecord
  <2>1. [h EXCEPT !.link = x, !.socket = 0, !.beat = FALSE] = [[[h EXCEPT !.link = x] EXCEPT !.socket = 0] EXCEPT !.beat = FALSE]
    BY DEF HostRecord
  <2>2. 0 \in 0 .. MaxSockets OBVIOUS
  <2>3. QED BY <2>1, <2>2, HostFields
<1>2. ASSUME NEW x \in {"idle", "closed"}
      PROVE [h EXCEPT !.link = x, !.socket = 0, !.beat = FALSE, !.runs = Revoked(h.runs)] \in HostRecord
  <2>1. [h EXCEPT !.link = x, !.socket = 0, !.beat = FALSE, !.runs = Revoked(h.runs)] = [[h EXCEPT !.link = x, !.socket = 0, !.beat = FALSE] EXCEPT !.runs = Revoked(h.runs)]
    BY DEF HostRecord
  <2>3. QED BY <1>1, <2>1, HostFields
<1>3. ASSUME NEW t \in Sockets PROVE [h EXCEPT !.link = "connecting", !.socket = t] \in HostRecord
  <2>1. [h EXCEPT !.link = "connecting", !.socket = t] = [[h EXCEPT !.link = "connecting"] EXCEPT !.socket = t]
    BY DEF HostRecord
  <2>2. t \in 0 .. MaxSockets OBVIOUS
  <2>3. QED BY <2>1, <2>2, HostFields
<1>4. [h EXCEPT !.link = "closed", !.runs = Revoked(h.runs)] \in HostRecord
  <2>1. [h EXCEPT !.link = "closed", !.runs = Revoked(h.runs)] = [[h EXCEPT !.link = "closed"] EXCEPT !.runs = Revoked(h.runs)]
    BY DEF HostRecord
  <2>3. QED BY <2>1, HostFields
<1>5. [h EXCEPT !.phase = "stopping", !.link = "closed", !.socket = 0, !.beat = FALSE, !.runs = Revoked(h.runs)] \in HostRecord
  <2>1. [h EXCEPT !.phase = "stopping", !.link = "closed", !.socket = 0, !.beat = FALSE, !.runs = Revoked(h.runs)] = [[h EXCEPT !.link = "closed", !.socket = 0, !.beat = FALSE, !.runs = Revoked(h.runs)] EXCEPT !.phase = "stopping"]
    BY DEF HostRecord
  <2>3. QED BY <1>2, <2>1, HostFields
<1>6. QED BY <1>1, <1>2, <1>3, <1>4, <1>5

(* Every step of the host keeps the types of the state. *)
LEMMA HostTypes ==
  ASSUME LinkInv, HostStep
  PROVE  LinkTypeOK'
<1> LinkTypeOK /\ HostOK
  BY DEF LinkInv
<1>20. LetGo(sockets, host.socket) \in [Sockets -> SocketContext]
  BY SocketTypes DEF LinkTypeOK, HostRecord
<1>21. ASSUME Received("registered") \/ Received("ack")
      PROVE  Read \in [Sockets -> SocketContext]
  <2>1. host.socket \in Sockets
    BY <1>21 DEF Received, HostOK, LinkTypeOK, HostRecord
  <2>2. sockets[host.socket].down \in Seq(Frames) /\ sockets[host.socket].down # <<>>
    BY <1>21, <2>1 DEF Received, LinkTypeOK, SocketContext
  <2>3. Tail(sockets[host.socket].down) \in Seq(Frames)
    BY <2>2
  <2>4. PICK c \in SocketContext : c = sockets[host.socket]
    BY <2>1 DEF LinkTypeOK
  <2>5. \A d \in Seq(Frames) : [c EXCEPT !.down = d] \in SocketContext
    BY DEF SocketContext
  <2>6. [sockets[host.socket] EXCEPT !.down = Tail(@)] \in SocketContext
    BY <2>3, <2>4, <2>5
  <2>7. QED
    BY <2>1, <2>6 DEF Read, LinkTypeOK
<1>22. ASSUME BeginBoot
       PROVE  host.boot + 1 \in 0 .. MaxBoots
  <2>1. PICK b \in 0 .. MaxBoots : b = host.boot
    BY HostFields DEF LinkTypeOK
  <2>2. b < MaxBoots
    BY <1>22, <2>1 DEF BeginBoot
  <2>3. QED
    BY <2>1, <2>2
<1>1. CASE BeginBoot
  <2>1. host' \in HostRecord
    BY <1>1, <1>22, HostFields DEF LinkTypeOK, BeginBoot
  <2>2. sockets' \in [Sockets -> SocketContext]
    BY <1>1 DEF BeginBoot, LinkTypeOK
  <2>3. QED
    BY <1>1, <1>22, <2>1, <2>2 DEF LastGenerations, LinkTypeOK, LedgerRecord, BeginBoot, control
<1>2. CASE Provision
  <2>1. host' \in HostRecord
    BY <1>2, HostFields, HostWrites DEF Provision, LinkTypeOK
  <2>2. sockets' \in [Sockets -> SocketContext]
    BY <1>2 DEF Provision, LinkTypeOK
  <2>3. QED
    BY <1>2, <2>1, <2>2 DEF Provision, LinkTypeOK, control, Fault, SandboxState, CredentialState, HostRecord
<1>3. CASE ProvisionFails
  <2>1. host' \in HostRecord
    BY <1>3, HostFields, HostWrites DEF ProvisionFails, LinkTypeOK
  <2>2. sockets' \in [Sockets -> SocketContext]
    BY <1>3 DEF ProvisionFails, LinkTypeOK
  <2>3. QED
    BY <1>3, <2>1, <2>2 DEF ProvisionFails, LinkTypeOK, control, Fault, SandboxState, CredentialState, HostRecord
<1>4. ASSUME NEW t \in Sockets, NEW r \in Replicas, OpenSocket(t, r)
      PROVE  LinkTypeOK'
  <2>1. host' \in HostRecord
    <3>1. host' = [host EXCEPT !.link = "connecting", !.socket = t]
            \/ host' = [host EXCEPT !.link = "closed", !.runs = Revoked(host.runs)]
      BY <1>4 DEF OpenSocket
    <3>2. /\ [host EXCEPT !.link = "connecting", !.socket = t] \in HostRecord
          /\ [host EXCEPT !.link = "closed", !.runs = Revoked(host.runs)] \in HostRecord
      BY HostWrites DEF LinkTypeOK
    <3>3. QED
      BY <3>1, <3>2
  <2>2. host.boot \in 0 .. MaxBoots /\ <<>> \in Seq(Frames)
    BY DEF LinkTypeOK, HostRecord
  <2>3. /\ [NoSocket EXCEPT !.boot = host.boot, !.replica = r, !.ctx = "open",
                           !.open = TRUE, !.frame = "register"] \in SocketContext
        /\ [NoSocket EXCEPT !.boot = host.boot, !.replica = r, !.ctx = "closed"] \in SocketContext
    BY <2>2 DEF NoSocket, SocketContext
  <2>4. sockets' \in [Sockets -> SocketContext]
    BY <1>4, <2>3 DEF OpenSocket, LinkTypeOK
  <2>5. QED
    BY <1>4, <2>1, <2>4 DEF OpenSocket, LinkTypeOK, control
<1>5. CASE LinkFails
  <2>1. host' \in HostRecord
    BY <1>5, HostFields, HostWrites DEF LinkFails, LinkTypeOK
  <2>2. sockets' \in [Sockets -> SocketContext]
    BY <1>5, <1>20 DEF LinkFails, LinkTypeOK
  <2>3. QED
    BY <1>5, <2>1, <2>2 DEF LinkFails, LinkTypeOK, control, Fault
<1>6. CASE SendHeartbeat
  <2>1. host' \in HostRecord
    BY <1>6, HostFields, HostWrites DEF SendHeartbeat, LinkTypeOK
  <2>2. host.socket \in Sockets
    BY <1>6 DEF SendHeartbeat, HostOK, LinkTypeOK, HostRecord
  <2>3. PICK c \in SocketContext : c = sockets[host.socket]
    BY <2>2 DEF LinkTypeOK
  <2>6. [c EXCEPT !.frame = "heartbeat"] \in SocketContext
    BY DEF SocketContext
  <2>4. sockets' \in [Sockets -> SocketContext]
    BY <1>6, <2>2, <2>3, <2>6 DEF SendHeartbeat, LinkTypeOK
  <2>5. QED
    BY <1>6, <2>1, <2>4 DEF SendHeartbeat, LinkTypeOK, control
<1>7. CASE ReceiveRegistered
  BY <1>7, HostFields, HostWrites, <1>21 DEF ReceiveRegistered, LinkTypeOK, control, Fault
<1>8. CASE AcceptHeartbeatAcknowledgement
  BY <1>8, HostFields, HostWrites, <1>21 DEF AcceptHeartbeatAcknowledgement, LinkTypeOK, control,
     Fault
<1>9. CASE FinishCloseRetryable
  BY <1>9, HostFields, HostWrites, <1>20 DEF FinishCloseRetryable, LinkTypeOK, control, Fault
<1>10. CASE FinishClosePermanent
  BY <1>10, HostFields, HostWrites, <1>20 DEF FinishClosePermanent, LinkTypeOK, control, Fault
<1>11. CASE TerminalFailure
  BY <1>11, HostFields, HostWrites DEF TerminalFailure, LinkTypeOK, control, Fault
<1>12. CASE ClaimRun
  BY <1>12, HostFields, HostWrites DEF ClaimRun, LinkTypeOK, control, Fault
<1>13. CASE SettleRun
  BY <1>13, HostFields, HostWrites DEF SettleRun, LinkTypeOK, control, Fault
<1>14. CASE BeginDrain
  BY <1>14, HostFields, HostWrites DEF BeginDrain, LinkTypeOK, control, Fault
<1>15. CASE Exit
  BY <1>15, HostFields, HostWrites, <1>20 DEF Exit, LinkTypeOK, control, Fault
<1>16. CASE Crash
  <2>1. host' \in HostRecord
    BY <1>16, HostFields, HostWrites DEF Crash, LinkTypeOK
  <2>2. sockets' \in [Sockets -> SocketContext]
    BY <1>16, <1>20 DEF Crash, LinkTypeOK
  <2>3. QED
    BY <1>16, <2>1, <2>2 DEF Crash, LinkTypeOK, control, Fault
<1>17. CASE StopSettles
  BY <1>17, HostFields, HostWrites DEF StopSettles, LinkTypeOK, control, Fault
<1>18. QED
  BY <1>1, <1>2, <1>3, <1>4, <1>5, <1>6, <1>7, <1>8, <1>9, <1>10, <1>11, <1>12, <1>13,
     <1>14, <1>15, <1>16, <1>17 DEF HostStep

(* A host that lets go of a socket leaves its boot and its frame.            *)
LEMMA LetGoKeeps ==
  ASSUME LinkTypeOK, NEW t \in Sockets
  PROVE  /\ LetGo(sockets, host.socket)[t].boot = sockets[t].boot
         /\ LetGo(sockets, host.socket)[t].frame = sockets[t].frame
  BY DEF LinkTypeOK, LetGo, SocketContext

(* What most steps do: no row changes its state, no replica takes up work,    *)
(* and a process that is quiet stays so.                                      *)
RowsStay ==
  /\ sandboxes' = sandboxes /\ ledger' = ledger
  /\ host.boot' = host.boot
  /\ \A b \in Boots : retirements'[b].state = retirements[b].state
  /\ \A r \in Replicas : maintenance'[r] \in {maintenance[r], Idle}
  /\ \A t \in Sockets :
       /\ connections'[t].state = connections[t].state
       /\ sockets'[t].boot = sockets[t].boot
       /\ sockets'[t].frame = "register" => sockets[t].frame = "register"
  /\ HostOK'
  /\ \A b \in 0 .. MaxBoots : BootQuiet(b) => BootQuiet(b)'

(* A step of the host that is neither the start of a boot nor a new socket.   *)
LEMMA HostSteps ==
  ASSUME LinkInv,
         \/ LinkFails \/ SendHeartbeat \/ ReceiveRegistered
         \/ AcceptHeartbeatAcknowledgement \/ FinishCloseRetryable \/ FinishClosePermanent
         \/ TerminalFailure \/ ClaimRun \/ SettleRun \/ BeginDrain \/ Exit \/ Crash
         \/ StopSettles
  PROVE  RowsStay
<1> LinkTypeOK /\ HostOK
  BY DEF LinkInv
<1>1. \A t \in Sockets : /\ sockets'[t].boot = sockets[t].boot
                         /\ sockets'[t].frame \in {sockets[t].frame, "heartbeat"}
  <2> TAKE t \in Sockets
  <2>1. PICK c \in SocketContext : c = sockets[t]
    BY DEF LinkTypeOK
  <2>2. \A d : [c EXCEPT !.down = d].boot = c.boot /\ [c EXCEPT !.down = d].frame = c.frame
    BY DEF SocketContext
  <2>3. [c EXCEPT !.frame = "heartbeat"].boot = c.boot
        /\ [c EXCEPT !.frame = "heartbeat"].frame = "heartbeat"
    BY DEF SocketContext
  <2>4. sockets' = LetGo(sockets, host.socket) \/ UNCHANGED sockets \/ sockets' = Read
        \/ sockets' = [sockets EXCEPT ![host.socket].frame = "heartbeat"]
    BY DEF LinkFails, SendHeartbeat, ReceiveRegistered, AcceptHeartbeatAcknowledgement,
           FinishCloseRetryable, FinishClosePermanent, TerminalFailure, ClaimRun, SettleRun,
           BeginDrain, Exit, Crash, StopSettles
  <2>5. Read[t] \in {c, [c EXCEPT !.down = Tail(@)]}
    BY <2>1 DEF Read, LinkTypeOK
  <2>6. [sockets EXCEPT ![host.socket].frame = "heartbeat"][t]
          \in {c, [c EXCEPT !.frame = "heartbeat"]}
    BY <2>1 DEF LinkTypeOK
  <2>7. CASE sockets' = LetGo(sockets, host.socket) \/ UNCHANGED sockets
    BY <2>7, LetGoKeeps
  <2>8. CASE sockets' = Read
    BY <2>1, <2>2, <2>5, <2>8
  <2>9. CASE sockets' = [sockets EXCEPT ![host.socket].frame = "heartbeat"]
    BY <2>1, <2>3, <2>6, <2>9
  <2>10. QED
    BY <2>4, <2>7, <2>8, <2>9
<1>2. /\ sandboxes' = sandboxes /\ connections' = connections /\ retirements' = retirements
      /\ maintenance' = maintenance /\ ledger' = ledger
  BY DEF LinkFails, SendHeartbeat, ReceiveRegistered, AcceptHeartbeatAcknowledgement,
         FinishCloseRetryable, FinishClosePermanent, TerminalFailure, ClaimRun, SettleRun,
         BeginDrain, Exit, Crash, StopSettles, control
<1>3. PICK h \in HostRecord : h = host
  BY DEF LinkTypeOK
<1>4. /\ host'.boot = h.boot
      /\ host'.phase = "down" => host' = HostDown(h.boot)
      /\ host'.phase # "down" => h.phase # "down"
      /\ host'.phase = "stopped" => host'.runs = "none"
      /\ host'.link \in {"connecting", "connected"} => host'.socket # 0
      /\ h.phase = "draining" => host'.phase = "draining" \/ host' = HostDown(h.boot)
      /\ h.phase \in {"stopped", "down"} /\ h.runs = "none" =>
           host'.phase \in {"stopped", "down"} /\ host'.runs = "none"
  <2>1. /\ h.link \in {"connecting", "connected"} => h.socket # 0
        /\ h.phase = "stopped" => h.runs = "none"
        /\ h.phase = "down" => h = HostDown(h.boot)
    BY <1>3 DEF HostOK
  <2> USE <1>3, <2>1 DEF HostRecord, HostDown, Revoked
  <2>2. CASE LinkFails
    BY <2>2 DEF LinkFails
  <2>3. CASE SendHeartbeat
    BY <2>3 DEF SendHeartbeat
  <2>4. CASE ReceiveRegistered
    BY <2>4 DEF ReceiveRegistered
  <2>5. CASE AcceptHeartbeatAcknowledgement
    BY <2>5 DEF AcceptHeartbeatAcknowledgement
  <2>6. CASE FinishCloseRetryable
    BY <2>6 DEF FinishCloseRetryable, Received
  <2>7. CASE FinishClosePermanent
    BY <2>7 DEF FinishClosePermanent, Received
  <2>8. CASE TerminalFailure \/ ClaimRun \/ BeginDrain
    BY <2>8 DEF TerminalFailure, ClaimRun, CanClaimRuns, BeginDrain
  <2>9. CASE SettleRun
    BY <2>9 DEF SettleRun
  <2>12. CASE StopSettles
    BY <2>12 DEF StopSettles
  <2>10. CASE Exit \/ Crash
    BY <2>10 DEF Exit, Crash
  <2>11. QED
    BY <2>2, <2>3, <2>4, <2>5, <2>6, <2>7, <2>8, <2>9, <2>10, <2>12
<1>5. HostOK'
  BY <1>2, <1>3, <1>4 DEF HostOK
<1>6. ASSUME NEW b \in 0 .. MaxBoots, BootQuiet(b)
      PROVE  BootQuiet(b)'
  BY <1>3, <1>4, <1>6 DEF BootQuiet, HostDown
<1>7. QED
  BY <1>1, <1>2, <1>3, <1>4, <1>5, <1>6 DEF RowsStay

(* The invariant but for its types. *)
LinkRest == OneOwner /\ FenceIsRetired /\ HostOK /\ BootsFollow /\ RetirementsFollow /\ StopsHold

(* Such steps keep the invariant. *)
LEMMA RowsStayKeeps == LinkInv /\ RowsStay => LinkRest'
<1> SUFFICES ASSUME LinkInv, RowsStay PROVE LinkRest'
  OBVIOUS
<1> USE DEF LinkInv
<1>1. /\ sandboxes' = sandboxes /\ ledger' = ledger /\ host.boot' = host.boot
      /\ \A b \in Boots : retirements'[b].state = retirements[b].state
      /\ \A t \in Sockets :
           /\ connections'[t].state = connections[t].state
           /\ sockets'[t].boot = sockets[t].boot
           /\ sockets'[t].frame = "register" => sockets[t].frame = "register"
  BY DEF RowsStay
<1>2. OneOwner' /\ FenceIsRetired' /\ HostOK'
  BY <1>1 DEF OneOwner, FenceIsRetired, RowsStay
<1>3. BootsFollow'
  BY <1>1 DEF BootsFollow
<1>4. \A r \in Replicas : maintenance'[r].step # "idle" => maintenance'[r] = maintenance[r]
  BY DEF RowsStay, Idle
<1>5. RetirementsFollow'
  <2>1. \A b \in Boots :
          retirements'[b].state # "none" => sandboxes'[b] \in {"failed", "terminated"}
    BY <1>1 DEF RetirementsFollow
  <2>2. ASSUME NEW r \in Replicas, maintenance'[r].step # "idle"
        PROVE  /\ maintenance'[r].boot # 0
               /\ retirements'[maintenance'[r].boot].state # "none"
    BY <1>4, <2>2, <1>1 DEF RetirementsFollow, LinkTypeOK
  <2>3. QED
    BY <2>1, <2>2 DEF RetirementsFollow
<1>6. StopsHold'
  <2>1. \A b \in 0 .. MaxBoots : BootQuiet(b) => BootQuiet(b)'
    BY DEF RowsStay
  <2>2. ledger.current \in 0 .. MaxBoots /\ \A r \in Replicas : maintenance[r].boot \in 0 .. MaxBoots
    BY DEF LinkTypeOK, LedgerRecord
  <2>3. ledger'.status = "stopped" => BootQuiet(ledger.current)'
    BY <1>1, <2>1, <2>2 DEF StopsHold
  <2>4. \A b \in Boots : sandboxes'[b] = "terminated" => BootQuiet(b)'
    BY <1>1, <2>1 DEF StopsHold
  <2>5. \A r \in Replicas : maintenance'[r].step \in {"renew", "retire", "complete"} =>
          BootQuiet(maintenance[r].boot)' /\ maintenance'[r] = maintenance[r]
    BY <1>4, <2>1, <2>2 DEF StopsHold
  <2>6. QED
    BY <1>1, <2>3, <2>4, <2>5 DEF StopsHold, BootQuiet
<1>7. QED
  BY <1>2, <1>3, <1>5, <1>6 DEF LinkRest

(* A boot begins: every row there is belongs to an older one. *)
LEMMA BootsBegin == LinkInv /\ BeginBoot => LinkRest'
<1> SUFFICES ASSUME LinkInv, BeginBoot PROVE LinkRest'
  OBVIOUS
<1> USE DEF LinkInv
<1>1. PICK n \in 0 .. MaxBoots : n = host.boot
  BY HostFields DEF LinkTypeOK
<1>2. /\ host' = [HostDown(n + 1) EXCEPT !.phase = "booting"]
      /\ ledger'.current = n + 1 /\ ledger'.status = "active"
      /\ UNCHANGED <<sandboxes, credentials, connections, retirements, sockets, maintenance>>
  BY <1>1 DEF BeginBoot, control
<1>3. host'.boot = n + 1 /\ host'.phase = "booting" /\ host'.link = "idle"
  BY <1>2 DEF HostDown
<1>4. OneOwner' /\ FenceIsRetired'
  BY <1>2 DEF OneOwner, FenceIsRetired
<1>5. HostOK'
  BY <1>1, <1>2, <1>3 DEF HostOK
<1>6. BootsFollow'
  <2>1. \A t \in Sockets : sockets[t].boot \in 0 .. MaxBoots
    BY DEF LinkTypeOK, SocketContext
  <2>2. QED
    BY <1>1, <1>2, <1>3, <2>1 DEF BootsFollow
<1>7. RetirementsFollow'
  BY <1>2 DEF RetirementsFollow
<1>8. StopsHold'
  <2>1. \A b \in Boots : sandboxes[b] \in {"failed", "terminated"} => b <= n
    BY <1>1 DEF BootsFollow
  <2>2. \A r \in Replicas : maintenance[r].step # "idle" => maintenance[r].boot <= n
    <3> TAKE r \in Replicas
    <3> HAVE maintenance[r].step # "idle"
    <3>1. maintenance[r].boot \in Boots
      BY DEF RetirementsFollow, LinkTypeOK
    <3>2. QED
      BY <2>1, <3>1 DEF RetirementsFollow
  <2>3. \A b \in 0 .. MaxBoots : b <= n => BootQuiet(b)'
    BY <1>1, <1>3 DEF BootQuiet
  <2>4. \A r \in Replicas : maintenance[r].boot \in 0 .. MaxBoots
    BY DEF LinkTypeOK
  <2>5. \A b \in Boots : sandboxes'[b] = "terminated" => BootQuiet(b)'
    BY <1>2, <2>1, <2>3
  <2>6. \A r \in Replicas : maintenance'[r].step \in {"renew", "retire", "complete"} =>
          BootQuiet(maintenance[r].boot)'
    BY <1>2, <2>2, <2>3, <2>4
  <2>7. QED
    BY <1>2, <2>5, <2>6 DEF StopsHold, BootQuiet
<1>9. QED
  BY <1>4, <1>5, <1>6, <1>7, <1>8 DEF LinkRest

(* A boot gets its identity: it had none, so no row of it is about another    *)
(* state.                                                                     *)
LEMMA BootsProvisioned == LinkInv /\ (Provision \/ ProvisionFails) => LinkRest'
<1> SUFFICES ASSUME LinkInv, Provision \/ ProvisionFails PROVE LinkRest'
  OBVIOUS
<1> USE DEF LinkInv
<1>1. PICK n \in 0 .. MaxBoots : n = host.boot
  BY HostFields DEF LinkTypeOK
<1>2. n # 0 /\ host.phase = "booting"
  BY <1>1 DEF HostOK, Provision, ProvisionFails
<1>3. /\ UNCHANGED <<ledger, connections, sockets, retirements, maintenance>>
      /\ \/ UNCHANGED sandboxes
         \/ sandboxes[n] = "none" /\ sandboxes' = [sandboxes EXCEPT ![n] = "provisioning"]
  BY <1>1 DEF Provision, ProvisionFails
<1>4. /\ host'.boot = n /\ host'.phase \in {"running", "failed"}
      /\ host'.link \in {"connecting", "connected"} => host'.socket # 0
  BY <1>1 DEF LinkTypeOK, Provision, ProvisionFails, HostOK, HostDown, HostRecord
<1>5. OneOwner'
  BY <1>3 DEF OneOwner, BootsFollow, LinkTypeOK, SocketContext
<1>6. FenceIsRetired' /\ RetirementsFollow'
  BY <1>2, <1>3 DEF FenceIsRetired, RetirementsFollow, LinkTypeOK
<1>7. HostOK'
  BY <1>1, <1>2, <1>3, <1>4 DEF HostOK
<1>8. BootsFollow'
  <2>1. \A t \in Sockets : sockets[t].boot \in 0 .. MaxBoots
    BY DEF LinkTypeOK, SocketContext
  <2>2. QED
    BY <1>1, <1>3, <1>4, <2>1 DEF BootsFollow, LinkTypeOK
<1>9. StopsHold'
  BY <1>1, <1>2, <1>4, <1>3 DEF BootQuiet, LinkTypeOK, StopsHold
<1>10. QED
  BY <1>5, <1>6, <1>7, <1>8, <1>9 DEF LinkRest

(* A socket opens with the boot of its host, and no connection is on it yet. *)
LEMMA SocketsOpen ==
  ASSUME LinkInv, NEW t \in Sockets, NEW r \in Replicas, OpenSocket(t, r)
  PROVE  LinkRest'
<1> USE DEF LinkInv
<1>1. PICK n \in 0 .. MaxBoots : n = host.boot
  BY HostFields DEF LinkTypeOK
<1>2. n # 0
  BY <1>1 DEF HostOK, OpenSocket
<1>3. UNCHANGED <<ledger, sandboxes, connections, retirements, maintenance>>
  BY DEF OpenSocket, control
<1>4. /\ host'.boot = n /\ host'.phase = host.phase
      /\ host'.link \in {"connecting", "connected"} => host'.socket # 0
  <2>1. PICK h \in HostRecord : h = host
    BY DEF LinkTypeOK
  <2>2. host' = [h EXCEPT !.link = "connecting", !.socket = t]
        \/ host' = [h EXCEPT !.link = "closed", !.runs = Revoked(h.runs)]
    BY <2>1 DEF OpenSocket
  <2>3. CASE host' = [h EXCEPT !.link = "connecting", !.socket = t]
    BY <2>3, <1>1, <2>1 DEF HostRecord
  <2>4. CASE host' = [h EXCEPT !.link = "closed", !.runs = Revoked(h.runs)]
    BY <2>4, <1>1, <2>1 DEF HostRecord
  <2>5. QED
    BY <2>2, <2>3, <2>4
<1>5. /\ sockets[t].boot = 0
      /\ sockets'[t].boot = n
      /\ \A u \in Sockets \ {t} : sockets'[u] = sockets[u]
  <2>1. sockets[t] = NoSocket /\ NoSocket.boot = 0
    BY DEF OpenSocket, NoSocket
  <2>2. PICK c : sockets' = [sockets EXCEPT ![t] = c] /\ c.boot = n
    <3>1. /\ [NoSocket EXCEPT !.boot = host.boot, !.replica = r, !.ctx = "open",
                             !.open = TRUE, !.frame = "register"].boot = n
          /\ [NoSocket EXCEPT !.boot = host.boot, !.replica = r, !.ctx = "closed"].boot = n
      BY <1>1 DEF NoSocket
    <3>2. QED
      BY <3>1 DEF OpenSocket
  <2>3. QED
    BY <2>1, <2>2 DEF LinkTypeOK
<1>6. connections[t].state = "none"
  BY <1>5 DEF BootsFollow
<1>7. OneOwner'
  BY <1>3, <1>5, <1>6 DEF OneOwner
<1>8. FenceIsRetired' /\ RetirementsFollow'
  BY <1>3 DEF FenceIsRetired, RetirementsFollow
<1>9. HostOK'
  BY <1>1, <1>2, <1>3, <1>4 DEF HostOK, OpenSocket
<1>10. BootsFollow'
  BY <1>1, <1>2, <1>3, <1>4, <1>5, <1>6 DEF BootsFollow
<1>11. StopsHold'
  BY <1>1, <1>4, <1>3 DEF BootQuiet, OpenSocket, StopsHold
<1>12. QED
  BY <1>7, <1>8, <1>9, <1>10, <1>11 DEF LinkRest

(* Whatever the host does, the rest of the invariant holds after it. *)
LEMMA HostRest == LinkInv /\ HostStep => LinkRest'
BY HostSteps, RowsStayKeeps, BootsBegin, BootsProvisioned, SocketsOpen DEF HostStep

-----------------------------------------------------------------------------
(* The Control Plane's side: fencing and the gateway.                      *)

(* Fencing writes rows of the tables' types. *)
LEMMA FenceTypes ==
  ASSUME LinkTypeOK, NEW B
  PROVE  /\ FencedConnections(B) \in [Sockets -> ConnectionRow]
         /\ FencedSandboxes(B) \in [Boots -> SandboxState]
         /\ FencedRetirements(B) \in [Boots -> RetirementRow]
  BY DEF ConnectionRow, FencedConnections, LinkTypeOK, FencedSandboxes, SandboxState, Pending,
     RetirementRow, FencedRetirements

(* Fencing boots of which none is registered any more, or only ones of B,     *)
(* keeps every part of the invariant that is about rows.                      *)
LEMMA FenceKeeps ==
  ASSUME LinkInv, NEW B, FenceSandboxes(B),
         UNCHANGED <<host, ledger, maintenance>>,
         \A t \in Sockets : /\ sockets'[t].boot = sockets[t].boot
                            /\ sockets'[t].frame = "register" => sockets[t].frame = "register"
  PROVE  LinkRest'
<1> USE DEF LinkInv
<1>1. /\ \A t \in Sockets : connections'[t].state =
           IF sockets[t].boot \in B /\ connections[t].state = "active"
           THEN "fenced" ELSE connections[t].state
      /\ \A b \in Boots : sandboxes'[b] =
           IF b \in B /\ sandboxes[b] \notin {"none", "terminated"} THEN "failed" ELSE sandboxes[b]
      /\ \A b \in Boots : retirements'[b].state =
           IF b \in B /\ sandboxes[b] \notin {"none", "terminated"} /\ retirements[b].state = "none"
           THEN "pending" ELSE retirements[b].state
  BY DEF FenceSandboxes, FencedConnections, FencedSandboxes, FencedRetirements, Pending
<1>2. \A t \in Sockets : sockets[t].boot \in 0 .. MaxBoots
  BY DEF LinkTypeOK, SocketContext
<1>3. OneOwner'
  BY <1>1, <1>2 DEF OneOwner, BootsFollow
<1>4. FenceIsRetired'
  BY <1>1 DEF FenceIsRetired, RetirementsFollow
<1>5. HostOK'
  BY DEF HostOK
<1>6. BootsFollow'
  BY <1>1 DEF BootsFollow
<1>7. RetirementsFollow'
  <2>1. \A b \in Boots :
          retirements'[b].state # "none" => sandboxes'[b] \in {"failed", "terminated"}
    BY <1>1 DEF RetirementsFollow
  <2>2. ASSUME NEW r \in Replicas, maintenance[r].step # "idle"
        PROVE  maintenance[r].boot # 0 /\ retirements'[maintenance[r].boot].state # "none"
    <3>1. maintenance[r].boot \in Boots
      BY <2>2 DEF RetirementsFollow, LinkTypeOK
    <3>2. QED
      BY <1>1, <2>2, <3>1 DEF RetirementsFollow
  <2>3. QED
    BY <2>1, <2>2 DEF RetirementsFollow
<1>8. StopsHold'
  BY <1>1 DEF StopsHold, BootQuiet
<1>9. QED
  BY <1>3, <1>4, <1>5, <1>6, <1>7, <1>8 DEF LinkRest

(* A socket with other sockets' fields rewritten: nobody gives it another     *)
(* boot, and only a host puts a registration on it.                           *)
SocketsStay(new) ==
  /\ new \in [Sockets -> SocketContext]
  /\ \A t \in Sockets : /\ new[t].boot = sockets[t].boot
                        /\ new[t].frame \in {sockets[t].frame, "none"}

(* One context with its frame processed, closed, or registered. *)
LEMMA ContextWrites ==
  ASSUME NEW c \in SocketContext, NEW d \in Seq(Frames)
  PROVE  /\ [c EXCEPT !.frame = "none"] \in SocketContext
         /\ [c EXCEPT !.frame = "none"].boot = c.boot
         /\ [c EXCEPT !.frame = "none"].frame = "none"
         /\ [c EXCEPT !.ctx = "closed"] \in SocketContext
         /\ [c EXCEPT !.ctx = "closed"].boot = c.boot
         /\ [c EXCEPT !.ctx = "closed"].frame = c.frame
         /\ [c EXCEPT !.ctx = "closed", !.down = d] \in SocketContext
         /\ [c EXCEPT !.ctx = "closed", !.down = d].boot = c.boot
         /\ [c EXCEPT !.ctx = "closed", !.down = d].frame = c.frame
         /\ [c EXCEPT !.frame = "none", !.down = d] \in SocketContext
         /\ [c EXCEPT !.frame = "none", !.down = d].boot = c.boot
         /\ [c EXCEPT !.frame = "none", !.down = d].frame = "none"
         /\ [c EXCEPT !.frame = "none", !.ctx = "registered", !.down = d] \in SocketContext
         /\ [c EXCEPT !.frame = "none", !.ctx = "registered", !.down = d].boot = c.boot
         /\ [c EXCEPT !.frame = "none", !.ctx = "registered", !.down = d].frame = "none"
BY DEF SocketContext

(* Closing contexts, with or without a frame of t processed before.           *)
LEMMA ClosedStays ==
  ASSUME LinkTypeOK, NEW T, NEW t \in Sockets, NEW code \in Frames
  PROVE  /\ SocketsStay(Closed(sockets, T, code))
         /\ SocketsStay(Closed([sockets EXCEPT ![t].frame = "none"], T, code))
<1>1. ASSUME NEW sock \in [Sockets -> SocketContext],
             \A u \in Sockets : /\ sock[u].boot = sockets[u].boot
                                /\ sock[u].frame \in {sockets[u].frame, "none"}
      PROVE  SocketsStay(Closed(sock, T, code))
  <2>1. Closed(sock, T, code) \in [Sockets -> SocketContext]
    BY SocketTypes
  <2>2. ASSUME NEW u \in Sockets
        PROVE  /\ Closed(sock, T, code)[u].boot = sock[u].boot
               /\ Closed(sock, T, code)[u].frame = sock[u].frame
    BY SocketTypes, ContextWrites DEF Closed
  <2>3. QED
    BY <1>1, <2>1, <2>2 DEF SocketsStay
<1>2. SocketsStay(Closed(sockets, T, code))
  BY <1>1 DEF LinkTypeOK
<1>3. PICK c \in SocketContext : c = sockets[t]
  BY DEF LinkTypeOK
<1>4. <<>> \in Seq(Frames)
  OBVIOUS
<1>5. [c EXCEPT !.frame = "none"] \in SocketContext /\ [c EXCEPT !.frame = "none"].boot = c.boot
      /\ [c EXCEPT !.frame = "none"].frame = "none"
  BY <1>4, ContextWrites
<1>6. [sockets EXCEPT ![t].frame = "none"] = [sockets EXCEPT ![t] = [c EXCEPT !.frame = "none"]]
  BY <1>3 DEF LinkTypeOK
<1>7. QED
  BY <1>1, <1>2, <1>3, <1>5, <1>6 DEF LinkTypeOK

(* A frame, a close or a timer that writes no row: what it leaves alone, and   *)
(* what it does to the sockets.                                               *)
LEMMA GatewayFrame ==
  ASSUME LinkTypeOK, NEW t \in Sockets,
         Cleanup(t) \/ DropFrame(t) \/ Heartbeat(t) \/ FrameFails(t) \/ RegistrationTimeout(t)
  PROVE  UNCHANGED <<host, ledger, control, maintenance>> /\ faults' \in 0 .. MaxFaults
  BY DEF Cleanup, DropFrame, Heartbeat, FrameFails, RegistrationTimeout, Fault, LinkTypeOK

(* A frame that is handled, lost or refused changes its own socket only. *)
LEMMA GatewaySockets ==
  ASSUME LinkTypeOK, NEW t \in Sockets,
         Cleanup(t) \/ DropFrame(t) \/ Heartbeat(t) \/ FrameFails(t) \/ RegistrationTimeout(t)
  PROVE  SocketsStay(sockets')
<1>3. PICK c \in SocketContext : c = sockets[t]
  BY DEF LinkTypeOK
<1>12. sockets \in [Sockets -> SocketContext] /\ "ack" \in Frames /\ "reject" \in Frames /\ "retry" \in Frames
       /\ c.down \in Seq(Frames)
  BY DEF LinkTypeOK, Frames, SocketContext
<1>13. Told(c, "ack") \in Seq(Frames)
  BY <1>12, SocketTypes
<1>4. PICK d \in Seq(Frames) : d = Told(c, "ack")
  BY <1>13
<1>5. ASSUME NEW e \in SocketContext, e.boot = c.boot, e.frame \in {c.frame, "none"},
             sockets' = [sockets EXCEPT ![t] = e]
      PROVE  SocketsStay(sockets')
  BY <1>3, <1>5 DEF SocketsStay, LinkTypeOK
<1>6. CASE Cleanup(t)
  BY <1>12, ContextWrites, <1>3, <1>6, <1>5 DEF Cleanup
<1>7. CASE DropFrame(t)
  BY <1>12, ContextWrites, <1>3, <1>7, <1>5 DEF DropFrame
<1>8. CASE Heartbeat(t)
  <2>1. CASE Current(t)
    <3>1. ASSUME NEW x \in Seq(Frames), sockets' = [sockets EXCEPT ![t] = [c EXCEPT !.frame = "none", !.down = x]]
          PROVE  SocketsStay(sockets')
      BY ContextWrites, <1>5, <3>1
    <3>2. CASE c.ctx = "closed"
      BY <1>3, <1>8, <2>1, <3>2, <1>12, <3>1 DEF Heartbeat
    <3>3. CASE c.ctx # "closed"
      BY <1>3, <1>4, <1>8, <2>1, <3>3, <3>1 DEF Heartbeat
    <3>4. QED
      BY <3>2, <3>3
  <2>2. CASE ~Current(t)
    <3>1. SocketsStay(Closed([sockets EXCEPT ![t].frame = "none"], {t}, "reject"))
      BY <1>12, ClosedStays
    <3>2. sockets' = Closed([sockets EXCEPT ![t].frame = "none"], {t}, "reject")
      BY <1>8, <2>2 DEF Heartbeat
    <3>3. QED
      BY <3>1, <3>2
  <2>3. QED
    BY <2>1, <2>2
<1>9. CASE FrameFails(t)
  BY <1>9, <1>12, ClosedStays DEF FrameFails
<1>10. CASE RegistrationTimeout(t)
  BY <1>10, <1>12, ClosedStays DEF RegistrationTimeout
<1>11. QED
  BY <1>6, <1>7, <1>8, <1>9, <1>10

(* A row of a connection whose heartbeat is late, and a row of a claim that   *)
(* ran out, keep their state.                                                 *)
LEMMA RowWrites ==
  /\ \A row \in ConnectionRow : /\ [row EXCEPT !.fresh = FALSE] \in ConnectionRow
                                /\ [row EXCEPT !.fresh = FALSE].state = row.state
  /\ \A row \in RetirementRow :
       /\ [row EXCEPT !.fresh = FALSE] \in RetirementRow
       /\ [row EXCEPT !.fresh = FALSE].state = row.state
BY DEF ConnectionRow, RetirementRow

(* No frame, close or timer but a registration and an expiry writes a row.    *)
LEMMA GatewayQuiet ==
  ASSUME LinkInv, NEW t \in Sockets,
         \/ Cleanup(t) \/ DropFrame(t) \/ Heartbeat(t) \/ FrameFails(t)
         \/ RegistrationTimeout(t) \/ HeartbeatTimeout(t)
  PROVE  LinkTypeOK' /\ RowsStay
<1> LinkTypeOK /\ HostOK
  BY DEF LinkInv
<1>1. CASE ~HeartbeatTimeout(t)
  BY <1>1, GatewayFrame, GatewaySockets DEF LinkTypeOK, SocketsStay, control, HostOK, BootQuiet,
     RowsStay
<1>2. CASE HeartbeatTimeout(t)
  <2>1. UNCHANGED <<host, ledger, sandboxes, credentials, sockets, retirements, maintenance>>
    BY <1>2 DEF HeartbeatTimeout
  <2>2. PICK row \in ConnectionRow : row = connections[t]
    BY DEF LinkTypeOK
  <2>3. connections' = [connections EXCEPT ![t] = [row EXCEPT !.fresh = FALSE]]
    BY <1>2, <2>2 DEF HeartbeatTimeout
  <2>4. [row EXCEPT !.fresh = FALSE] \in ConnectionRow /\ [row EXCEPT !.fresh = FALSE].state = row.state
    BY RowWrites
  <2>5. faults' \in 0 .. MaxFaults
    BY <1>2 DEF LinkTypeOK, HostOK, HostDown, HeartbeatTimeout
  <2>6. /\ connections' \in [Sockets -> ConnectionRow]
        /\ \A u \in Sockets : connections'[u].state = connections[u].state
    BY <2>2, <2>3, <2>4 DEF LinkTypeOK
  <2>7. LinkTypeOK'
    BY <2>1, <2>5, <2>6 DEF LinkTypeOK
  <2>8. HostOK' /\ \A b : BootQuiet(b) => BootQuiet(b)'
    BY <2>1 DEF HostOK, BootQuiet
  <2>9. QED
    BY <2>1, <2>6, <2>7, <2>8 DEF RowsStay
<1>3. QED
  BY <1>1, <1>2

(* Neither does a restart of a replica, a claim that runs out or a credential *)
(* that expires.                                                              *)
LEMMA LapsesQuiet ==
  ASSUME LinkInv,
         \/ \E r \in Replicas : ReplicaRestarts(r)
         \/ \E b \in Boots : ClaimLapses(b) \/ CredentialExpires(b)
  PROVE  LinkTypeOK' /\ RowsStay
<1> LinkTypeOK /\ HostOK
  BY DEF LinkInv
<1>0. UNCHANGED <<host, ledger, sandboxes, connections>> /\ faults' \in 0 .. MaxFaults
  BY DEF ReplicaRestarts, ClaimLapses, CredentialExpires, control, Fault, LinkTypeOK
<1>1. HostOK' /\ \A b : BootQuiet(b) => BootQuiet(b)'
  BY <1>0 DEF HostOK, BootQuiet
<1>2. ASSUME NEW r \in Replicas, ReplicaRestarts(r)
      PROVE  LinkTypeOK' /\ RowsStay
  <2>1. UNCHANGED <<retirements, credentials>> /\ maintenance' = [maintenance EXCEPT ![r] = Idle]
    BY <1>2 DEF ReplicaRestarts, control
  <2>2. maintenance' \in [Replicas -> [step : {"idle", "stop", "confirm", "renew", "retire", "complete"},
                                       boot : 0 .. MaxBoots]]
        /\ \A q \in Replicas : maintenance'[q] \in {maintenance[q], Idle}
    BY <2>1 DEF Idle, LinkTypeOK
  <2>3. SocketsStay(sockets')
    <3>1. PICK T : T = {u \in Sockets : sockets[u].replica = r}
      OBVIOUS
    <3>2. PICK new : new = Closed(sockets, T, "retry")
      OBVIOUS
    <3>3. SocketsStay(new)
      <4>1. "retry" \in Frames /\ 1 \in Sockets
        BY DEF Frames
      <4>2. QED
        BY <3>2, <4>1, ClosedStays
    <3>4. sockets' = [u \in Sockets |-> IF u \in T THEN [new[u] EXCEPT !.frame = "none"] ELSE new[u]]
      BY <1>2, <3>1, <3>2 DEF ReplicaRestarts
    <3>5. ASSUME NEW u \in Sockets
          PROVE  /\ [new[u] EXCEPT !.frame = "none"] \in SocketContext
                 /\ [new[u] EXCEPT !.frame = "none"].boot = new[u].boot
                 /\ [new[u] EXCEPT !.frame = "none"].frame = "none"
      <4>1. PICK c \in SocketContext : c = new[u]
        BY <3>3 DEF SocketsStay
      <4>2. <<>> \in Seq(Frames)
        OBVIOUS
      <4>3. /\ [c EXCEPT !.frame = "none"] \in SocketContext
            /\ [c EXCEPT !.frame = "none"].boot = c.boot
            /\ [c EXCEPT !.frame = "none"].frame = "none"
        BY <4>2, ContextWrites
      <4>4. QED
        BY <4>1, <4>3
    <3>6. QED
      BY <3>3, <3>4, <3>5 DEF SocketsStay
  <2>4. LinkTypeOK'
    BY <1>0, <2>1, <2>2, <2>3 DEF LinkTypeOK, SocketsStay
  <2>5. QED
    BY <1>0, <1>1, <2>1, <2>2, <2>3, <2>4 DEF RowsStay, SocketsStay
<1>3. ASSUME NEW b \in Boots, ClaimLapses(b)
      PROVE  LinkTypeOK' /\ RowsStay
  BY <1>3, RowWrites, <1>0, <1>1 DEF ClaimLapses, LinkTypeOK, RowsStay
<1>4. ASSUME NEW b \in Boots, CredentialExpires(b)
      PROVE  LinkTypeOK' /\ RowsStay
  BY <1>4, <1>0, <1>1 DEF CredentialExpires, LinkTypeOK, CredentialState, RowsStay
<1>5. QED
  BY <1>2, <1>3, <1>4

(* A registration that is accepted leaves one active connection, that of a    *)
(* generation than which no newer one has registered, and fences the others.  *)
LEMMA RegistrationAccepted ==
  ASSUME LinkInv, NEW t \in Sockets, sockets[t].frame = "register",
         Registrable(sockets[t].boot), AcceptRegistration(t),
         UNCHANGED <<host, ledger, credentials, maintenance, faults>>
  PROVE  LinkTypeOK' /\ LinkRest'
<1> USE DEF LinkInv
<1>1. PICK b \in Boots : b = sockets[t].boot
  BY DEF BootsFollow, LinkTypeOK, SocketContext
<1>2. sandboxes[b] \in {"provisioning", "ready"}
  BY <1>1 DEF Registrable
<1>3. PICK others : others = {c \in Boots : c # b /\ sandboxes[c] \notin {"none", "terminated"}}
  OBVIOUS
<1>4. /\ connections' = [u \in Sockets |->
                       IF u = t THEN [state |-> "active", fresh |-> TRUE]
                       ELSE IF u \in Active(b) THEN [state |-> "superseded", fresh |-> FALSE]
                       ELSE FencedConnections(others)[u]]
      /\ sandboxes' = [FencedSandboxes(others) EXCEPT ![b] = "ready"]
      /\ retirements' = FencedRetirements(others)
  BY <1>1, <1>3 DEF AcceptRegistration
<1>5. SocketsStay(sockets')
  <2>1. PICK T : T = {u \in Sockets : /\ u # t /\ sockets[u].boot = b
                                      /\ sockets[u].replica = sockets[t].replica
                                      /\ sockets[u].ctx = "registered"}
    OBVIOUS
  <2>2. PICK new : new = Closed(sockets, T, "reject")
    OBVIOUS
  <2>3. SocketsStay(new)
    BY <2>2, ClosedStays DEF Frames
  <2>4. PICK c \in SocketContext : c = new[t]
    BY <2>3 DEF SocketsStay
  <2>5. PICK d \in Seq(Frames) : d = Told(sockets[t], "registered")
    BY SocketTypes DEF Frames, LinkTypeOK
  <2>6. \/ sockets' = [new EXCEPT ![t] = [c EXCEPT !.frame = "none"]]
        \/ sockets' = [new EXCEPT ![t] = [c EXCEPT !.frame = "none", !.ctx = "registered", !.down = d]]
    BY <1>1, <2>1, <2>2, <2>4, <2>5 DEF AcceptRegistration
  <2>7. /\ [c EXCEPT !.frame = "none"] \in SocketContext
        /\ [c EXCEPT !.frame = "none"].boot = c.boot
        /\ [c EXCEPT !.frame = "none"].frame = "none"
        /\ [c EXCEPT !.frame = "none", !.ctx = "registered", !.down = d] \in SocketContext
        /\ [c EXCEPT !.frame = "none", !.ctx = "registered", !.down = d].boot = c.boot
        /\ [c EXCEPT !.frame = "none", !.ctx = "registered", !.down = d].frame = "none"
    BY ZenonT(60), ContextWrites
  <2>8. ASSUME NEW e \in SocketContext, e.boot = c.boot, e.frame = "none",
               sockets' = [new EXCEPT ![t] = e]
        PROVE  SocketsStay(sockets')
    BY <2>3, <2>4, <2>8 DEF SocketsStay
  <2>9. CASE sockets' = [new EXCEPT ![t] = [c EXCEPT !.frame = "none"]]
    BY <2>7, <2>8, <2>9
  <2>10. CASE sockets' = [new EXCEPT ![t] = [c EXCEPT !.frame = "none", !.ctx = "registered", !.down = d]]
    BY <2>7, <2>8, <2>10
  <2>11. QED
    BY <2>6, <2>9, <2>10
<1>6. /\ FencedConnections(others) \in [Sockets -> ConnectionRow]
      /\ FencedSandboxes(others) \in [Boots -> SandboxState]
      /\ FencedRetirements(others) \in [Boots -> RetirementRow]
  BY FenceTypes
<1>7. LinkTypeOK'
  BY <1>4, <1>6, <1>5 DEF ConnectionRow, SandboxState, LinkTypeOK, SocketsStay
<1>8. \A c \in Boots : sandboxes'[c] =
        IF c = b THEN "ready"
        ELSE IF sandboxes[c] \in {"none", "terminated"} THEN sandboxes[c] ELSE "failed"
  BY <1>3, <1>4, <1>6 DEF FencedSandboxes
<1>9. \A c \in Boots : retirements'[c].state =
        IF c # b /\ sandboxes[c] \notin {"none", "terminated"} /\ retirements[c].state = "none"
        THEN "pending" ELSE retirements[c].state
  BY <1>3, <1>4 DEF FencedRetirements, Pending
<1>10. \A u \in Sockets : sockets'[u].boot = sockets[u].boot /\ sockets[u].boot \in 0 .. MaxBoots
                          /\ (sockets'[u].frame = "register" => sockets[u].frame = "register")
  BY <1>5 DEF SocketsStay, LinkTypeOK, SocketContext
<1>11. connections'[t].state = "active"
  BY <1>4
<1>12. ASSUME NEW u \in Sockets \ {t}, connections'[u].state # "none"
       PROVE  /\ connections[u].state # "none"
              /\ connections'[u].state # "active"
              /\ sockets[u].boot <= b
  BY <1>4, <1>12, <1>10, <1>3, <1>2 DEF Active, FencedConnections, BootsFollow, OneOwner
<1>13. OneOwner'
  BY <1>1, <1>8, <1>10, <1>11, <1>12 DEF OneOwner
<1>14. FenceIsRetired'
  BY ZenonT(60), <1>2, <1>7, <1>8, <1>9 DEF FenceIsRetired, LinkTypeOK, RetirementRow
<1>15. HostOK'
  BY DEF HostOK
<1>16. b <= host.boot
  BY <1>1 DEF BootsFollow
<1>17. BootsFollow'
  <2>1. host.boot \in 0 .. MaxBoots
    BY HostFields DEF LinkTypeOK
  <2>2. \A c \in Boots : c > host.boot => sandboxes'[c] = "none"
    BY <1>8, <1>16, <2>1 DEF BootsFollow
  <2>3. ASSUME NEW u \in Sockets
        PROVE  /\ sockets'[u].boot <= host.boot
               /\ sockets'[u].frame = "register" => sockets'[u].boot # 0
               /\ connections'[u].state # "none" =>
                    /\ sockets'[u].boot # 0
                    /\ \A c \in Boots :
                         c < sockets'[u].boot => sandboxes'[c] \notin {"provisioning", "ready"}
    BY <1>10, <1>1, <1>12, <1>8 DEF BootsFollow
  <2>4. QED
    BY <2>2, <2>3 DEF BootsFollow
<1>18. RetirementsFollow'
  <2>1. \A c \in Boots : retirements'[c].state # "none" => sandboxes'[c] \in {"failed", "terminated"}
    BY <1>2, <1>8, <1>9 DEF RetirementsFollow
  <2>2. \A c \in Boots : retirements[c].state # "none" => retirements'[c].state # "none"
    BY <1>9
  <2>3. \A r \in Replicas : maintenance[r].boot \in 0 .. MaxBoots
    BY DEF LinkTypeOK
  <2>4. QED
    BY <2>1, <2>2, <2>3 DEF RetirementsFollow
<1>19. StopsHold'
  BY <1>8 DEF StopsHold, BootQuiet
<1>20. QED
  BY <1>7, <1>13, <1>14, <1>15, <1>17, <1>18, <1>19 DEF LinkRest

(* A registration that is refused, and a connection that expired, fence one   *)
(* boot at most.                                                              *)
LEMMA RegistrationRefused ==
  ASSUME LinkInv, NEW t \in Sockets,
         \/ /\ RefuseRegistration(t)
            /\ UNCHANGED <<host, ledger, credentials, maintenance, faults>>
         \/ ExpireConnection(t)
  PROVE  LinkTypeOK' /\ LinkRest'
<1> LinkTypeOK
  BY DEF LinkInv
<1>1. UNCHANGED <<host, ledger, credentials, maintenance, faults>>
  BY DEF ExpireConnection
<1>2. SocketsStay(sockets')
  <2>1. CASE RefuseRegistration(t)
    BY <2>1, ClosedStays DEF Frames, RefuseRegistration
  <2>2. CASE ExpireConnection(t)
    BY <2>2 DEF ExpireConnection, SocketsStay, LinkTypeOK
  <2>3. QED
    BY <2>1, <2>2
<1>3. \/ UNCHANGED <<connections, sandboxes, retirements>>
      \/ FenceSandboxes({sockets[t].boot})
  BY DEF RefuseRegistration, ExpireConnection
<1>4. \A u \in Sockets : /\ sockets'[u].boot = sockets[u].boot
                         /\ sockets'[u].frame = "register" => sockets[u].frame = "register"
  BY <1>2 DEF SocketsStay
<1>5. CASE FenceSandboxes({sockets[t].boot})
  BY <1>1, <1>4, <1>5, FenceKeeps, <1>2, FenceTypes DEF FenceSandboxes, LinkTypeOK, SocketsStay
<1>6. CASE UNCHANGED <<connections, sandboxes, retirements>>
  BY <1>1, <1>4, <1>6, <1>2, RowsStayKeeps DEF LinkInv, HostOK, BootQuiet, RowsStay, LinkTypeOK,
     SocketsStay
<1>7. QED
  BY <1>3, <1>5, <1>6

(* Whatever the Control Plane's gateway does keeps the invariant. *)
LEMMA GatewayKeeps ==
  ASSUME LinkInv, GatewayStep
  PROVE  LinkTypeOK' /\ LinkRest'
  BY RegistrationAccepted, RegistrationRefused, GatewayQuiet, RowsStayKeeps DEF GatewayStep,
     Register

-----------------------------------------------------------------------------
(* Retirements.                                                            *)

Retirement == [step : {"idle", "stop", "confirm", "renew", "retire", "complete"},
               boot : 0 .. MaxBoots]

(* What the steps of a retirement do before and after they terminate the      *)
(* Sandbox: no row but that of the retirement is written, none appears or     *)
(* disappears, and a replica goes on only with a proof that the host stopped. *)
RetirementsProceed ==
  /\ UNCHANGED <<sandboxes, connections>>
  /\ host'.boot = host.boot /\ ledger'.current = ledger.current
  /\ \A t \in Sockets : /\ sockets'[t].boot = sockets[t].boot
                        /\ sockets'[t].frame = sockets[t].frame
  /\ \A b \in Boots :
       /\ (retirements'[b].state = "none") <=> (retirements[b].state = "none")
       /\ retirements'[b].state = "completed" => sandboxes[b] = "terminated"
  /\ \A r \in Replicas : maintenance'[r].step # "idle" =>
       /\ maintenance'[r].boot \in Boots
       /\ retirements'[maintenance'[r].boot].state # "none"
       /\ maintenance'[r].step \in {"renew", "retire", "complete"} => BootQuiet(maintenance[r].boot)'
  /\ HostOK'
  /\ ledger'.status = "stopped" => BootQuiet(ledger.current)'
  /\ \A b \in Boots : BootQuiet(b) => BootQuiet(b)'

(* Such steps keep the invariant. *)
LEMMA RetirementsProceedKeep ==
  ASSUME LinkInv, LinkTypeOK', RetirementsProceed
  PROVE  LinkRest'
<1> USE DEF LinkInv
<1>1. /\ UNCHANGED <<sandboxes, connections>>
      /\ host'.boot = host.boot /\ ledger'.current = ledger.current
      /\ \A t \in Sockets : /\ sockets'[t].boot = sockets[t].boot
                            /\ sockets'[t].frame = sockets[t].frame
  BY DEF RetirementsProceed
<1>2. \A b \in Boots :
        /\ (retirements'[b].state = "none") <=> (retirements[b].state = "none")
        /\ retirements'[b].state = "completed" => sandboxes[b] = "terminated"
        /\ retirements'[b].state \in {"none", "pending", "claimed", "completed", "blocked"}
  BY DEF RetirementsProceed, LinkTypeOK, RetirementRow
<1>3. OneOwner'
  BY <1>1 DEF OneOwner
<1>4. FenceIsRetired'
  BY <1>1, <1>2 DEF FenceIsRetired
<1>5. BootsFollow'
  BY <1>1 DEF BootsFollow
<1>6. RetirementsFollow'
  BY <1>1, <1>2 DEF RetirementsFollow, RetirementsProceed
<1>7. StopsHold'
  BY <1>1 DEF RetirementsProceed, StopsHold, BootQuiet
<1>8. QED
  BY <1>3, <1>4, <1>5, <1>6, <1>7 DEF LinkRest, RetirementsProceed

(* A claim that is given back leaves a retirement that is queued, or blocked. *)
LEMMA FailureWrites ==
  ASSUME LinkInv, NEW r \in Replicas, maintenance[r].step # "idle",
         NEW state \in {"pending", "blocked"}, FailRetirement(r, state)
  PROVE  /\ retirements' \in [Boots -> RetirementRow]
         /\ \A b \in Boots :
              /\ (retirements'[b].state = "none") <=> (retirements[b].state = "none")
              /\ retirements'[b].state = "completed" => sandboxes[b] = "terminated"
         /\ maintenance' = [maintenance EXCEPT ![r] = Idle]
<1> USE DEF LinkInv
<1>1. PICK b \in Boots : b = maintenance[r].boot
  BY DEF RetirementsFollow, LinkTypeOK
<1>2. PICK row : row = [Pending EXCEPT !.state = state]
  OBVIOUS
<1>3. row \in RetirementRow /\ row.state = state
  BY <1>2 DEF Pending, RetirementRow
<1>4. CASE Mine(r)
  BY <1>1, <1>2, <1>4, <1>3 DEF FailRetirement, Mine, LinkTypeOK, FenceIsRetired, Finish
<1>5. CASE ~Mine(r)
  BY <1>5 DEF FailRetirement, Finish, FenceIsRetired, LinkTypeOK
<1>6. QED
  BY <1>4, <1>5

(* Where a replica goes on or starts over, its record keeps its type, and the *)
(* others keep theirs.                                                        *)
LEMMA MaintenanceWrites ==
  ASSUME LinkTypeOK, NEW r \in Replicas
  PROVE  /\ \A step \in {"confirm", "renew", "retire", "complete"} : Proceed(r, step) =>
              /\ maintenance' \in [Replicas -> Retirement]
              /\ maintenance'[r].step = step /\ maintenance'[r].boot = maintenance[r].boot
              /\ \A q \in Replicas \ {r} : maintenance'[q] = maintenance[q]
         /\ \A b \in Boots : maintenance' = [maintenance EXCEPT ![r] = [step |-> "stop", boot |-> b]] =>
              /\ maintenance' \in [Replicas -> Retirement]
              /\ maintenance'[r].step = "stop" /\ maintenance'[r].boot = b
              /\ \A q \in Replicas \ {r} : maintenance'[q] = maintenance[q]
         /\ maintenance' = [maintenance EXCEPT ![r] = Idle] =>
              /\ maintenance' \in [Replicas -> Retirement]
              /\ maintenance'[r].step = "idle"
              /\ \A q \in Replicas \ {r} : maintenance'[q] = maintenance[q]
<1>1. PICK row \in Retirement : row = maintenance[r]
  BY DEF LinkTypeOK, Retirement
<1>2. maintenance \in [Replicas -> Retirement]
  BY DEF LinkTypeOK, Retirement
<1>3. ASSUME NEW step \in {"confirm", "renew", "retire", "complete"}, Proceed(r, step)
      PROVE  /\ maintenance' \in [Replicas -> Retirement]
             /\ maintenance'[r].step = step /\ maintenance'[r].boot = maintenance[r].boot
             /\ \A q \in Replicas \ {r} : maintenance'[q] = maintenance[q]
  BY <1>1, <1>3, <1>2 DEF Retirement, Proceed
<1>4. ASSUME NEW b \in Boots, maintenance' = [maintenance EXCEPT ![r] = [step |-> "stop", boot |-> b]]
      PROVE  /\ maintenance' \in [Replicas -> Retirement]
             /\ maintenance'[r].step = "stop" /\ maintenance'[r].boot = b
             /\ \A q \in Replicas \ {r} : maintenance'[q] = maintenance[q]
  BY <1>2, <1>4 DEF Retirement
<1>5. ASSUME maintenance' = [maintenance EXCEPT ![r] = Idle]
      PROVE  /\ maintenance' \in [Replicas -> Retirement]
             /\ maintenance'[r].step = "idle"
             /\ \A q \in Replicas \ {r} : maintenance'[q] = maintenance[q]
  BY <1>2, <1>5 DEF Retirement, Idle
<1>6. QED
  BY <1>3, <1>4, <1>5

(* The replicas that do not take the step go on as before. *)
LEMMA OthersProceed ==
  ASSUME LinkInv, NEW r \in Replicas,
         \A q \in Replicas \ {r} : maintenance'[q] = maintenance[q],
         \A b \in Boots : (retirements'[b].state = "none") <=> (retirements[b].state = "none"),
         \A b \in Boots : BootQuiet(b) => BootQuiet(b)'
  PROVE  \A q \in Replicas \ {r} : maintenance'[q].step # "idle" =>
           /\ maintenance'[q].boot \in Boots
           /\ retirements'[maintenance'[q].boot].state # "none"
           /\ maintenance'[q].step \in {"renew", "retire", "complete"} => BootQuiet(maintenance[q].boot)'
<1> USE DEF LinkInv
<1>1. SUFFICES ASSUME NEW q \in Replicas \ {r}, maintenance'[q].step # "idle"
               PROVE  /\ maintenance'[q].boot \in Boots
                      /\ retirements'[maintenance'[q].boot].state # "none"
                      /\ maintenance'[q].step \in {"renew", "retire", "complete"} =>
                           BootQuiet(maintenance[q].boot)'
  OBVIOUS
<1>2. maintenance'[q] = maintenance[q]
  OBVIOUS
<1>3. PICK b \in Boots : b = maintenance[q].boot
  BY <1>1, <1>2 DEF RetirementsFollow, LinkTypeOK
<1>4. retirements'[b].state # "none"
  BY <1>1, <1>2, <1>3 DEF RetirementsFollow
<1>5. maintenance[q].step \in {"renew", "retire", "complete"} => BootQuiet(b)'
  BY <1>3 DEF StopsHold
<1>6. QED
  BY <1>2, <1>3, <1>4, <1>5 DEF BootQuiet

(* A step of a retirement that leaves the host and its ledger alone.          *)
LEMMA HostUntouched ==
  ASSUME LinkInv, UNCHANGED <<host, ledger, sandboxes, credentials, connections, sockets>>
  PROVE  /\ HostOK' /\ \A b : BootQuiet(b) => BootQuiet(b)'
         /\ ledger'.status = "stopped" => BootQuiet(ledger.current)'
BY DEF LinkInv, HostOK, StopsHold, BootQuiet

(* ClaimRetirement takes a row nobody holds, and the steps of its attempt come in order. *)
LEMMA ClaimsProceed ==
  ASSUME LinkInv, NEW r \in Replicas, NEW b \in Boots, ClaimRetirement(r, b)
  PROVE  LinkTypeOK' /\ RetirementsProceed
<1> USE DEF LinkInv
<1>1. UNCHANGED <<host, ledger, sandboxes, credentials, connections, sockets, faults>>
  BY DEF ClaimRetirement
<1>2. PICK row : row = [state |-> "claimed", owner |-> r, fresh |-> TRUE]
  OBVIOUS
<1>3. row \in RetirementRow /\ row.state = "claimed"
  BY <1>2 DEF RetirementRow
<1>4. retirements' = [retirements EXCEPT ![b] = row] /\ retirements[b].state \in {"pending", "claimed"}
  BY <1>2 DEF ClaimRetirement
<1>5. /\ retirements' \in [Boots -> RetirementRow]
      /\ \A c \in Boots : retirements'[c] = IF c = b THEN row ELSE retirements[c]
  BY <1>3, <1>4 DEF LinkTypeOK
<1>6. \A c \in Boots : /\ (retirements'[c].state = "none") <=> (retirements[c].state = "none")
                       /\ retirements'[c].state = "completed" => sandboxes[c] = "terminated"
  BY <1>3, <1>4, <1>5 DEF FenceIsRetired
<1>7. /\ maintenance' \in [Replicas -> Retirement]
      /\ maintenance'[r].step = "stop" /\ maintenance'[r].boot = b
      /\ \A q \in Replicas \ {r} : maintenance'[q] = maintenance[q]
  BY MaintenanceWrites DEF ClaimRetirement
<1>8. /\ HostOK' /\ \A c : BootQuiet(c) => BootQuiet(c)'
      /\ ledger'.status = "stopped" => BootQuiet(ledger.current)'
  BY <1>1, HostUntouched
<1>9. \A q \in Replicas \ {r} : maintenance'[q].step # "idle" =>
        /\ maintenance'[q].boot \in Boots
        /\ retirements'[maintenance'[q].boot].state # "none"
        /\ maintenance'[q].step \in {"renew", "retire", "complete"} => BootQuiet(maintenance[q].boot)'
  BY <1>6, <1>7, <1>8, OthersProceed
<1>10. retirements'[b].state # "none"
  BY <1>3, <1>5
<1>11. \A q \in Replicas : maintenance'[q].step # "idle" =>
        /\ maintenance'[q].boot \in Boots
        /\ retirements'[maintenance'[q].boot].state # "none"
        /\ maintenance'[q].step \in {"renew", "retire", "complete"} => BootQuiet(maintenance[q].boot)'
  BY <1>7, <1>9, <1>10
<1>12. LinkTypeOK'
  BY <1>1, <1>5, <1>7 DEF LinkTypeOK, Retirement
<1>13. QED
  BY <1>1, <1>6, <1>8, <1>11, <1>12 DEF RetirementsProceed

(* A retirement that is given back: the host does not answer, the claim was   *)
(* lost or the reconciler fails.                                              *)
LEMMA FailuresProceed ==
  ASSUME LinkInv, NEW r \in Replicas, maintenance[r].step # "idle",
         NEW state \in {"pending", "blocked"}, FailRetirement(r, state),
         UNCHANGED <<host, ledger, sandboxes, credentials, connections, sockets>>,
         faults' \in 0 .. MaxFaults
  PROVE  LinkTypeOK' /\ RetirementsProceed
<1> USE DEF LinkInv
<1>1. /\ retirements' \in [Boots -> RetirementRow]
      /\ \A b \in Boots :
           /\ (retirements'[b].state = "none") <=> (retirements[b].state = "none")
           /\ retirements'[b].state = "completed" => sandboxes[b] = "terminated"
      /\ maintenance' = [maintenance EXCEPT ![r] = Idle]
  BY FailureWrites
<1>2. /\ maintenance' \in [Replicas -> Retirement]
      /\ maintenance'[r].step = "idle"
      /\ \A q \in Replicas \ {r} : maintenance'[q] = maintenance[q]
  BY <1>1, MaintenanceWrites
<1>3. /\ HostOK' /\ \A c : BootQuiet(c) => BootQuiet(c)'
      /\ ledger'.status = "stopped" => BootQuiet(ledger.current)'
  BY HostUntouched
<1>4. \A q \in Replicas \ {r} : maintenance'[q].step # "idle" =>
        /\ maintenance'[q].boot \in Boots
        /\ retirements'[maintenance'[q].boot].state # "none"
        /\ maintenance'[q].step \in {"renew", "retire", "complete"} => BootQuiet(maintenance[q].boot)'
  BY <1>1, <1>2, <1>3, OthersProceed
<1>5. \A q \in Replicas : maintenance'[q].step # "idle" =>
        /\ maintenance'[q].boot \in Boots
        /\ retirements'[maintenance'[q].boot].state # "none"
        /\ maintenance'[q].step \in {"renew", "retire", "complete"} => BootQuiet(maintenance[q].boot)'
  BY <1>2, <1>4
<1>6. LinkTypeOK'
  BY <1>1, <1>2 DEF LinkTypeOK, Retirement
<1>7. QED
  BY <1>1, <1>3, <1>5, <1>6 DEF RetirementsProceed

(* A retirement that goes on with a proof, or to wait for one: the rows stay. *)
LEMMA StepsProceed ==
  ASSUME LinkInv, NEW r \in Replicas, NEW b \in Boots, b = maintenance[r].boot,
         maintenance[r].step # "idle",
         NEW step \in {"confirm", "renew", "retire", "complete"}, Proceed(r, step),
         UNCHANGED <<sandboxes, credentials, connections, retirements, faults>>,
         host' \in HostRecord, ledger' \in LedgerRecord, sockets' \in [Sockets -> SocketContext],
         host'.boot = host.boot, ledger'.current = ledger.current,
         \A t \in Sockets : /\ sockets'[t].boot = sockets[t].boot
                            /\ sockets'[t].frame = sockets[t].frame,
         HostOK', \A c : BootQuiet(c) => BootQuiet(c)',
         ledger'.status = "stopped" => BootQuiet(ledger.current)',
         step # "confirm" => BootQuiet(b)'
  PROVE  LinkTypeOK' /\ RetirementsProceed
<1> USE DEF LinkInv
<1>1. /\ maintenance' \in [Replicas -> Retirement]
      /\ maintenance'[r].step = step /\ maintenance'[r].boot = b
      /\ \A q \in Replicas \ {r} : maintenance'[q] = maintenance[q]
  BY MaintenanceWrites
<1>2. \A q \in Replicas \ {r} : maintenance'[q].step # "idle" =>
        /\ maintenance'[q].boot \in Boots
        /\ retirements'[maintenance'[q].boot].state # "none"
        /\ maintenance'[q].step \in {"renew", "retire", "complete"} => BootQuiet(maintenance[q].boot)'
  BY <1>1, OthersProceed
<1>3. retirements'[b].state # "none"
  BY DEF RetirementsFollow
<1>4. step # "confirm" => BootQuiet(maintenance[r].boot)'
  BY <1>1 DEF BootQuiet
<1>5. \A q \in Replicas : maintenance'[q].step # "idle" =>
        /\ maintenance'[q].boot \in Boots
        /\ retirements'[maintenance'[q].boot].state # "none"
        /\ maintenance'[q].step \in {"renew", "retire", "complete"} => BootQuiet(maintenance[q].boot)'
  BY <1>1, <1>2, <1>3, <1>4
<1>6. LinkTypeOK'
  BY <1>1 DEF LinkTypeOK, Retirement
<1>7. \A c \in Boots : retirements'[c].state = "completed" => sandboxes[c] = "terminated"
  BY DEF FenceIsRetired
<1>8. QED
  BY <1>5, <1>6, <1>7 DEF RetirementsProceed

(* The host is reached: it stops what is current, or answers for an earlier   *)
(* generation.                                                                *)
LEMMA StopsProceed ==
  ASSUME LinkInv, NEW r \in Replicas, StopOwner(r)
  PROVE  LinkTypeOK' /\ RetirementsProceed
<1> USE DEF LinkInv
<1>1. PICK b \in Boots : b = maintenance[r].boot
  BY DEF StopOwner, RetirementsFollow, LinkTypeOK
<1>2. maintenance[r].step = "stop" /\ host.phase # "down"
      /\ UNCHANGED <<ledger, sandboxes, credentials, connections, faults>>
  BY DEF StopOwner
<1>3. \A c : ledger.status = "stopped" /\ c = ledger.current => BootQuiet(c)
  BY DEF StopsHold
<1>4. host \in HostRecord /\ ledger \in LedgerRecord /\ sockets \in [Sockets -> SocketContext]
  BY DEF LinkTypeOK
<1>5. CASE OwnsBoot(b) /\ StopCurrentBoot /\ Proceed(r, "confirm") /\ UNCHANGED retirements
  <2>1. ASSUME UNCHANGED <<host, sockets>>
        PROVE  LinkTypeOK' /\ RetirementsProceed
    BY <1>2, <2>1, HostUntouched, <1>1, <1>4, <1>5, StepsProceed
  <2>2. ASSUME ~UNCHANGED <<host, sockets>>
        PROVE  LinkTypeOK' /\ RetirementsProceed
    <3>1. PICK h \in HostRecord : h = host
      BY <1>4
    <3>2. /\ h.phase \notin {"draining", "stopped", "stopping", "down"}
          /\ host' = [h EXCEPT !.phase = "stopping", !.link = "closed", !.socket = 0,
                               !.beat = FALSE, !.runs = Revoked(h.runs)]
          /\ sockets' = LetGo(sockets, h.socket)
      BY <1>2, <1>5, <2>2, <3>1 DEF StopCurrentBoot
    <3>3. host' \in HostRecord
      BY <3>2, HostWrites
    <3>4. host'.boot = h.boot /\ host'.phase = "stopping" /\ host'.link = "closed"
      BY <3>2 DEF HostRecord
    <3>5. sockets' \in [Sockets -> SocketContext]
      BY <1>4, <3>2, SocketTypes DEF HostRecord
    <3>6. \A t \in Sockets : sockets'[t].boot = sockets[t].boot /\ sockets'[t].frame = sockets[t].frame
      <4> TAKE t \in Sockets
      <4>1. PICK c \in SocketContext : c = sockets[t]
        BY <1>4
      <4>2. [c EXCEPT !.open = FALSE, !.down = <<>>].boot = c.boot
            /\ [c EXCEPT !.open = FALSE, !.down = <<>>].frame = c.frame
        BY DEF SocketContext
      <4>3. h.socket \in 0 .. MaxSockets
        BY DEF HostRecord
      <4>4. sockets'[t] = c \/ sockets'[t] = [c EXCEPT !.open = FALSE, !.down = <<>>]
        BY <1>4, <3>2, <4>1, <4>3 DEF LetGo
      <4>5. QED
        BY <4>1, <4>2, <4>4
    <3>7. HostOK'
      BY <1>2, <3>1, <3>4 DEF HostOK
    <3>8. ledger.status = "active" /\ \A c : BootQuiet(c) => BootQuiet(c)'
      BY <1>5, <3>1, <3>2, <3>4 DEF OwnsBoot, BootQuiet
    <3>9. QED
      BY <1>1, <1>2, <1>4, <1>5, <3>1, <3>3, <3>4, <3>5, <3>6, <3>7, <3>8, StepsProceed
  <2>3. QED
    BY <2>1, <2>2
<1>6. CASE ~OwnsBoot(b) /\ Proceed(r, "renew") /\ UNCHANGED <<host, sockets, retirements>>
  BY <1>4, <1>2, <1>6, <1>3, HostUntouched, <1>1, StepsProceed DEF BootQuiet, HostOK,
     LedgerRecord, OwnsBoot
<1>7. CASE FailRetirement(r, "blocked") /\ UNCHANGED <<host, sockets>>
  BY <1>2, <1>7, FailuresProceed DEF LinkTypeOK
<1>8. QED
  BY <1>1, <1>5, <1>6, <1>7 DEF StopOwner

(* The proof of the host: it has stopped, or drains.                          *)
LEMMA ProofsProceed ==
  ASSUME LinkInv, NEW r \in Replicas, StopConfirmed(r)
  PROVE  LinkTypeOK' /\ RetirementsProceed
<1> USE DEF LinkInv
<1>1. PICK b \in Boots : b = maintenance[r].boot
  BY DEF StopConfirmed, RetirementsFollow, LinkTypeOK
<1>2. /\ maintenance[r].step = "confirm" /\ host.phase \in {"stopped", "draining"} /\ host.boot = b
      /\ Proceed(r, "renew")
      /\ UNCHANGED <<host, sandboxes, credentials, connections, sockets, retirements, faults>>
  BY <1>1 DEF StopConfirmed
<1>3. PICK l \in LedgerRecord : l = ledger
  BY DEF LinkTypeOK
<1>4. ledger' = [l EXCEPT !.status = "stopped"]
  BY <1>3 DEF StopConfirmed
<1>5. ledger' \in LedgerRecord /\ ledger'.current = l.current /\ ledger'.status = "stopped"
  BY <1>4 DEF LedgerRecord
<1>6. BootQuiet(b)
  BY <1>2 DEF BootQuiet, HostOK
<1>7. \A c : BootQuiet(c) => BootQuiet(c)'
  BY <1>2 DEF BootQuiet
<1>8. HostOK'
  BY <1>2, <1>3, <1>5 DEF HostOK
<1>9. ledger'.current = b
  BY <1>2, <1>3, <1>5 DEF HostOK
<1>10. BootQuiet(ledger.current)'
  BY <1>6, <1>7, <1>9 DEF BootQuiet
<1>11. host' \in HostRecord /\ sockets' \in [Sockets -> SocketContext]
  BY <1>2 DEF LinkTypeOK
<1>12. QED
  BY <1>1, <1>2, <1>3, <1>5, <1>6, <1>7, <1>8, <1>10, <1>11, StepsProceed

(* The reconciler terminates a Sandbox whose process is known to be quiet.    *)
LEMMA RetiringKeeps ==
  ASSUME LinkInv, NEW r \in Replicas, RetireSandbox(r)
  PROVE  LinkTypeOK' /\ LinkRest'
<1> USE DEF LinkInv
<1>1. PICK b \in Boots : b = maintenance[r].boot
  BY DEF RetireSandbox, RetirementsFollow, LinkTypeOK
<1>2. /\ maintenance[r].step = "retire"
      /\ sandboxes' = [sandboxes EXCEPT ![b] = "terminated"]
      /\ Proceed(r, "complete")
      /\ UNCHANGED <<host, ledger, credentials, connections, sockets, retirements, faults>>
  BY <1>1 DEF RetireSandbox
<1>3. retirements[b].state # "none" /\ sandboxes[b] \in {"failed", "terminated"} /\ BootQuiet(b)
  BY <1>1, <1>2 DEF RetirementsFollow, StopsHold
<1>4. \A c \in Boots : sandboxes'[c] = IF c = b THEN "terminated" ELSE sandboxes[c]
  BY <1>2 DEF LinkTypeOK
<1>5. /\ maintenance' \in [Replicas -> Retirement]
      /\ maintenance'[r].step = "complete" /\ maintenance'[r].boot = b
      /\ \A q \in Replicas \ {r} : maintenance'[q] = maintenance[q]
  BY <1>1, <1>2, MaintenanceWrites
<1>6. \A c : BootQuiet(c) => BootQuiet(c)'
  BY <1>2 DEF BootQuiet
<1>7. \A q \in Replicas \ {r} : maintenance'[q].step # "idle" =>
        /\ maintenance'[q].boot \in Boots
        /\ retirements'[maintenance'[q].boot].state # "none"
        /\ maintenance'[q].step \in {"renew", "retire", "complete"} => BootQuiet(maintenance[q].boot)'
  BY <1>2, <1>5, <1>6, OthersProceed
<1>8. BootQuiet(maintenance[r].boot)'
  BY <1>2, <1>3, <1>5 DEF BootQuiet
<1>9. LinkTypeOK'
  BY <1>2, <1>5 DEF LinkTypeOK, Retirement, SandboxState
<1>10. \A t \in Sockets : connections[t].state # "none" => sockets[t].boot \in Boots
  BY DEF BootsFollow, LinkTypeOK, SocketContext
<1>11. OneOwner'
  BY <1>3, <1>4, <1>10, <1>2 DEF OneOwner
<1>12. FenceIsRetired'
  BY <1>2, <1>3, <1>4 DEF FenceIsRetired
<1>13. HostOK'
  BY <1>2 DEF HostOK
<1>14. BootsFollow'
  BY <1>2, <1>3, <1>4 DEF BootsFollow
<1>15. RetirementsFollow'
  BY <1>2, <1>4, <1>3, <1>5, <1>7 DEF RetirementsFollow
<1>16. StopsHold'
  BY <1>2, <1>3, <1>4, <1>6, <1>7, <1>8 DEF StopsHold, BootQuiet
<1>17. QED
  BY <1>9, <1>11, <1>12, <1>13, <1>14, <1>15, <1>16 DEF LinkRest

(* The claim that is still ours is completed, once the Sandbox is terminated. *)
LEMMA CompletionsProceed ==
  ASSUME LinkInv, NEW r \in Replicas, CompleteRetirement(r)
  PROVE  LinkTypeOK' /\ RetirementsProceed
<1> USE DEF LinkInv
<1>1. PICK b \in Boots : b = maintenance[r].boot
  BY DEF CompleteRetirement, RetirementsFollow, LinkTypeOK
<1>2. /\ maintenance' = [maintenance EXCEPT ![r] = Idle]
      /\ UNCHANGED <<host, ledger, sandboxes, credentials, connections, sockets, faults>>
  BY DEF CompleteRetirement, Finish
<1>3. PICK row : row = [NoRetirement EXCEPT !.state = "completed"]
  OBVIOUS
<1>4. row \in RetirementRow /\ row.state = "completed"
  BY <1>3 DEF NoRetirement, RetirementRow
<1>5. \/ UNCHANGED retirements
      \/ /\ retirements' = [retirements EXCEPT ![b] = row]
         /\ retirements[b].state = "claimed" /\ sandboxes[b] = "terminated"
  BY <1>1, <1>3 DEF CompleteRetirement, Mine
<1>6. retirements' \in [Boots -> RetirementRow]
  BY <1>4, <1>5 DEF LinkTypeOK
<1>7. \A c \in Boots : /\ (retirements'[c].state = "none") <=> (retirements[c].state = "none")
                       /\ retirements'[c].state = "completed" => sandboxes[c] = "terminated"
  BY <1>5, <1>4 DEF FenceIsRetired, LinkTypeOK
<1>8. /\ maintenance' \in [Replicas -> Retirement]
      /\ maintenance'[r].step = "idle"
      /\ \A q \in Replicas \ {r} : maintenance'[q] = maintenance[q]
  BY <1>2, MaintenanceWrites
<1>9. /\ HostOK' /\ \A c : BootQuiet(c) => BootQuiet(c)'
      /\ ledger'.status = "stopped" => BootQuiet(ledger.current)'
  BY <1>2, HostUntouched
<1>10. \A q \in Replicas \ {r} : maintenance'[q].step # "idle" =>
        /\ maintenance'[q].boot \in Boots
        /\ retirements'[maintenance'[q].boot].state # "none"
        /\ maintenance'[q].step \in {"renew", "retire", "complete"} => BootQuiet(maintenance[q].boot)'
  BY <1>7, <1>8, <1>9, OthersProceed
<1>11. LinkTypeOK'
  BY <1>2, <1>6, <1>8 DEF LinkTypeOK, Retirement
<1>12. QED
  BY <1>2, <1>7, <1>8, <1>9, <1>10, <1>11 DEF RetirementsProceed

(* Every step of a retirement keeps the invariant. *)
LEMMA RetirementKeeps ==
  ASSUME LinkInv, NEW r \in Replicas,
         \/ \E b \in Boots : ClaimRetirement(r, b)
         \/ StopOwner(r) \/ StopConfirmed(r) \/ StopUnavailable(r) \/ RenewRetirement(r)
         \/ RetireSandbox(r) \/ RetireFails(r) \/ CompleteRetirement(r)
  PROVE  LinkTypeOK' /\ LinkRest'
<1> USE DEF LinkInv
<1>1. CASE (\E b \in Boots : ClaimRetirement(r, b)) \/ StopOwner(r) \/ StopConfirmed(r)
           \/ CompleteRetirement(r)
  BY <1>1, ClaimsProceed, StopsProceed, ProofsProceed, CompletionsProceed, RetirementsProceedKeep
<1>2. CASE StopUnavailable(r) \/ RetireFails(r)
  BY <1>2, FailuresProceed, RetirementsProceedKeep DEF StopUnavailable, RetireFails, Fault,
     LinkTypeOK
<1>3. CASE RenewRetirement(r)
  <2>1. /\ maintenance[r].step = "renew"
        /\ UNCHANGED <<host, ledger, sandboxes, credentials, connections, sockets, faults>>
    BY <1>3 DEF RenewRetirement
  <2>2. CASE FailRetirement(r, "blocked")
    BY <2>1, <2>2, FailuresProceed, RetirementsProceedKeep DEF LinkTypeOK
  <2>3. CASE Proceed(r, "retire") /\ UNCHANGED retirements
    <3>1. PICK b \in Boots : b = maintenance[r].boot
      BY <2>1 DEF RetirementsFollow, LinkTypeOK
    <3>2. /\ HostOK' /\ \A c : BootQuiet(c) => BootQuiet(c)'
          /\ ledger'.status = "stopped" => BootQuiet(ledger.current)'
      BY <2>1, HostUntouched
    <3>3. BootQuiet(b)
      BY <2>1, <3>1 DEF StopsHold
    <3>4. host' \in HostRecord /\ ledger' \in LedgerRecord /\ sockets' \in [Sockets -> SocketContext]
      BY <2>1 DEF LinkTypeOK
    <3>5. LinkTypeOK' /\ RetirementsProceed
      BY <2>1, <2>3, <3>1, <3>2, <3>3, <3>4, StepsProceed
    <3>6. QED
      BY <3>5, RetirementsProceedKeep
  <2>4. QED
    BY <1>3, <2>2, <2>3 DEF RenewRetirement
<1>4. CASE RetireSandbox(r)
  BY <1>4, RetiringKeeps
<1>5. QED
  BY <1>1, <1>2, <1>3, <1>4

-----------------------------------------------------------------------------
(* A step of anyone keeps the invariant. *)
LEMMA LinkStep == LinkInv /\ [LinkNext]_linkVars => LinkInv'
  BY HostTypes, HostRest, GatewayKeeps, RetirementKeeps, LapsesQuiet, RowsStayKeeps DEF LinkInv,
     LinkRest, RetirementStep, linkVars, LinkTypeOK, RowsStay, HostOK, BootQuiet, LinkNext

(* One generation of a host owns its Supervisor at most, its fences are not   *)
(* forgotten, and a Sandbox is terminated only after its process is quiet     *)
(* (supervisor-connection-manager, sandbox-retirement).                       *)
THEOREM OwnersAreSound == LinkSpec => []OwnershipSound
<1>1. LinkInv => OwnershipSound
  BY DEF LinkInv, OwnershipSound, RetiredOwnerStopped, StopsHold, BootQuiet
<1>2. QED
  BY <1>1, LinkStarts, LinkStep, PTL DEF LinkSpec

-----------------------------------------------------------------------------
(* The lanes of a Worker.                                                  *)

ExecutionRows == [command : Commands, at : {"delay", "admit", "claim", "run", "ended"}]

LoopTypes == [at : {"none", "cancel", "scan", "select", "admit", "wait", "ended"},
              found : SUBSET Commands, selected : SUBSET Commands]

LanesTypes ==
  /\ pool \in {"idle", "running", "stopping", "settling", "stopped"}
  /\ loop \in LoopTypes
  /\ queueRow \in [Commands -> {"absent", "queued", "here", "done"}]
  /\ asked \in [Commands -> {"no", "open", "sent"}]
  /\ tracked \in [Commands -> Nat]
  /\ executions \in Seq(ExecutionRows)

(* What is entered for a command is an execution of it, and an execution of a *)
(* root Run that is under way is the one that is entered: the Worker knows    *)
(* every root Run that it executes.                                           *)
EntriesOK ==
  /\ \A c \in Commands : tracked[c] # 0 =>
       tracked[c] \in DOMAIN executions /\ executions[tracked[c]].command = c
  /\ \A i \in DOMAIN executions :
       executions[i].command \in Parents /\ executions[i].at # "ended" =>
         tracked[executions[i].command] = i

(* The lanes hold with what is entered, and with what the loop is about to    *)
(* enter once the execution plane admits it.                                  *)
LanesFit ==
  /\ Cardinality(Entered \cap Parents) <= maximumParents
  /\ loop.at = "admit" =>
       /\ loop.selected \cap Entered \cap Parents = {}
       /\ Cardinality((Entered \cup loop.selected) \cap Parents) <= maximumParents

(* A loop that has not begun or has ended enters nothing, and stop awaits     *)
(* every execution of a root Run.                                             *)
LanesQuiet ==
  /\ pool = "idle" => loop.at = "none"
  /\ loop.at = "none" => pool \in {"idle", "stopped"} /\ Executing(Parents) = {}
  /\ pool = "settling" => loop.at = "ended" /\ Executing(Parents) \subseteq awaited
  /\ pool = "stopped" => loop.at \in {"none", "ended"} /\ Executing(Parents) = {}

LanesInv == LanesTypes /\ EntriesOK /\ LanesFit /\ LanesQuiet

(* A Worker starts with its lanes empty. *)
LEMMA LanesStart == PoolInit => LanesInv
<1> SUFFICES ASSUME PoolInit PROVE LanesInv
  OBVIOUS
<1>1. Entered = {} /\ Executing(Parents) = {}
  BY DEF PoolInit, Entered, Executing
<1>2. maximumParents \in Nat /\ Cardinality({}) = 0
  BY PoolConstants, FS_EmptySet DEF maximumParents
<1>3. LanesTypes
  BY DEF PoolInit, LanesTypes, LoopTypes, Awaiting
<1>4. EntriesOK
  BY DEF PoolInit, EntriesOK
<1>5. LanesFit
  BY <1>1, <1>2 DEF PoolInit, LanesFit, Awaiting
<1>6. LanesQuiet
  BY <1>1 DEF PoolInit, LanesQuiet, Awaiting
<1>7. QED
  BY <1>3, <1>4, <1>5, <1>6 DEF LanesInv

(* Where the loop is between two awaits. *)
LEMMA LoopPoints ==
  /\ \A stage \in {"none", "cancel", "scan", "select", "admit", "wait", "ended"} :
       Awaiting(stage) \in LoopTypes /\ Awaiting(stage).at = stage
  /\ waitForWake \in LoopTypes /\ waitForWake.at \in {"wait", "ended"}
  /\ (pool # "running") => waitForWake.at = "ended"
  /\ loop \in LoopTypes /\ wake =>
       loop' \in LoopTypes /\ (loop' = loop \/ (loop.at = "wait" /\ loop'.at = "cancel"))
BY DEF Awaiting, LoopTypes, waitForWake, wake

(* A step that neither enters nor ends an execution. *)
LanesStay ==
  /\ UNCHANGED <<tracked, executions>>
  /\ loop' \in LoopTypes
  /\ queueRow' \in [Commands -> {"absent", "queued", "here", "done"}]
  /\ asked' \in [Commands -> {"no", "open", "sent"}]
  /\ pool' \in {"idle", "running", "stopping", "settling", "stopped"}
  /\ loop' = loop \/ loop'.at # "admit"
  /\ LanesQuiet'

(* What touches no lane keeps the invariant. *)
LEMMA LanesStayKeep == LanesInv /\ LanesStay => LanesInv'
<1> SUFFICES ASSUME LanesInv, LanesStay PROVE LanesInv'
  OBVIOUS
<1>1. Entered' = Entered
  BY DEF LanesStay, Entered
<1>2. LanesTypes' /\ EntriesOK'
  BY DEF LanesInv, LanesStay, LanesTypes, EntriesOK
<1>3. LanesFit'
  BY <1>1 DEF LanesInv, LanesStay, LanesFit
<1>4. QED
  BY <1>2, <1>3 DEF LanesInv, LanesStay

(* The rest of the system, the loop between two awaits, and stop.             *)
LEMMA LoopsStay ==
  ASSUME LanesInv,
         \/ \E c \in Commands : enqueue(c) \/ claimedElsewhere(c) \/ askCancellation(c)
         \/ canClaimRuns \/ startWorker \/ dispatchCancellations \/ executionReferences
         \/ pollAgain \/ stop \/ awaitExecutions \/ stopped
  PROVE  LanesStay
<1> USE DEF LanesInv
<1>1. ASSUME UNCHANGED <<tracked, executions, awaited>>, pool' = pool, loop' \in LoopTypes,
             loop' = loop \/ (loop.at \notin {"none", "ended"} /\ loop'.at # "none")
      PROVE  LanesQuiet'
  BY <1>1 DEF Executing, LanesQuiet
<1>2. ASSUME NEW c \in Commands, enqueue(c) \/ claimedElsewhere(c) \/ askCancellation(c)
      PROVE  LanesStay
  BY <1>2, LoopPoints, <1>1 DEF enqueue, claimedElsewhere, askCancellation, LanesTypes, LanesStay
<1>3. ASSUME canClaimRuns \/ pollAgain \/ dispatchCancellations \/ executionReferences
      PROVE  LanesStay
  <2>1. /\ UNCHANGED <<tracked, executions, awaited, queueRow>> /\ pool' = pool
        /\ asked' \in [Commands -> {"no", "open", "sent"}]
    BY <1>3 DEF canClaimRuns, pollAgain, dispatchCancellations, executionReferences, LanesTypes
  <2>2. /\ loop' \in LoopTypes /\ (loop' = loop \/ loop'.at # "admit")
        /\ loop' = loop \/ (loop.at \notin {"none", "ended"} /\ loop'.at # "none")
    BY LoopPoints, <1>3 DEF canClaimRuns, LanesTypes, pollAgain, dispatchCancellations, LoopTypes,
       executionReferences
  <2>3. LanesQuiet'
    BY <1>1, <2>1, <2>2
  <2>4. QED
    BY <2>1, <2>2, <2>3 DEF LanesStay, LanesTypes
<1>4. ASSUME startWorker \/ stop \/ awaitExecutions \/ stopped
      PROVE  LanesStay
  <2>1. /\ UNCHANGED <<tracked, executions, queueRow, asked>>
        /\ pool' \in {"running", "stopping", "settling", "stopped"}
    BY <1>4 DEF startWorker, stop, awaitExecutions, stopped
  <2>2. Executing(Parents)' = Executing(Parents)
    BY <2>1 DEF Executing
  <2>3. loop' \in LoopTypes /\ (loop' = loop \/ loop'.at \in {"cancel", "ended"})
    BY <1>4, LoopPoints DEF startWorker, stop, awaitExecutions, stopped, LanesTypes
  <2>4. LanesQuiet'
    <3>1. CASE startWorker
      BY <2>2, <3>1, LoopPoints DEF startWorker, LanesQuiet
    <3>2. CASE stop
      BY <2>2, <3>2, LoopPoints DEF stop, LanesQuiet
    <3>3. CASE awaitExecutions
      BY <2>2, <3>3 DEF Executing, Commands, EntriesOK, LanesTypes, Entered, awaitExecutions,
         LanesQuiet
    <3>4. CASE stopped
      BY <3>4, <2>2 DEF stopped, LanesQuiet, Executing
    <3>5. QED
      BY <1>4, <3>1, <3>2, <3>3, <3>4
  <2>5. QED
    BY <2>1, <2>3, <2>4 DEF LanesStay, LanesTypes
<1>5. QED
  BY <1>2, <1>3, <1>4

(* The scan selects what is not entered and fits (selectPiWorkerExecutionReferences). *)
LEMMA SelectionKeeps == LanesInv /\ selectPiWorkerExecutionReferences => LanesInv'
<1> SUFFICES ASSUME LanesInv, selectPiWorkerExecutionReferences PROVE LanesInv'
  OBVIOUS
<1> USE DEF LanesInv
<1>1. loop.at = "select" /\ UNCHANGED <<pool, tracked, executions, awaited, queueRow, asked>>
  BY DEF selectPiWorkerExecutionReferences
<1>2. PICK chosen \in SUBSET loop.found :
        /\ Selection(chosen)
        /\ loop' = IF chosen = {} THEN waitForWake
                   ELSE [Awaiting("admit") EXCEPT !.selected = chosen]
  BY DEF selectPiWorkerExecutionReferences
<1>3. chosen \subseteq Commands
  BY DEF LanesTypes, LoopTypes
<1>4. \/ loop' \in LoopTypes /\ loop'.at \in {"wait", "ended"}
      \/ loop' \in LoopTypes /\ loop'.at = "admit" /\ loop'.selected = chosen
  BY <1>2, <1>3, LoopPoints DEF Awaiting, LoopTypes
<1>5. Entered' = Entered /\ Executing(Parents)' = Executing(Parents)
  BY <1>1 DEF Entered, Executing
<1>6. chosen \cap Entered = {} /\ Cardinality((Entered \cup chosen) \cap Parents) <= maximumParents
  BY <1>2 DEF Selection, Fits
<1>7. LanesTypes' /\ EntriesOK'
  BY <1>1, <1>4 DEF LanesTypes, EntriesOK
<1>8. LanesFit'
  BY <1>4, <1>5, <1>6 DEF LanesFit
<1>9. LanesQuiet'
  BY <1>1, <1>4, <1>5 DEF LanesQuiet
<1>10. QED
  BY <1>7, <1>8, <1>9

(* A set that is put in some order: each of its members once. *)
LEMMA SetOrdered ==
  ASSUME NEW S, IsFiniteSet(S)
  PROVE  /\ SetToSeq(S) \in Seq(S) /\ Len(SetToSeq(S)) \in Nat
         /\ DOMAIN SetToSeq(S) = 1 .. Len(SetToSeq(S))
         /\ \A i, j \in 1 .. Len(SetToSeq(S)) : SetToSeq(S)[i] = SetToSeq(S)[j] => i = j
         /\ \A c \in S : \E i \in 1 .. Len(SetToSeq(S)) : SetToSeq(S)[i] = c
<1>1. PICK n \in Nat : n = Cardinality(S)
  BY FS_CardinalityType
<1>2. ExistsBijection(1 .. n, S)
  BY <1>1, FS_CardinalityType
<1>3. PICK g : g \in Bijection(1 .. n, S)
  BY <1>2 DEF ExistsBijection
<1>4. g \in [1 .. n -> S] /\ IsInjective(g)
  BY <1>3 DEF Bijection, Injection
<1>5. PICK f : f = SetToSeq(S)
  OBVIOUS
<1>6. f \in [1 .. n -> S] /\ IsInjective(f)
  BY <1>1, <1>4, <1>5 DEF SetToSeq
<1>7. f \in Seq(S) /\ Len(f) = n /\ DOMAIN f = 1 .. n
  BY <1>6
<1>8. \A i, j \in 1 .. n : f[i] = f[j] => i = j
  BY <1>6 DEF IsInjective
<1>9. \A c \in S : \E i \in 1 .. n : f[i] = c
  <2>1. f \in Injection(1 .. n, S)
    BY <1>6 DEF Injection
  <2>2. IsFiniteSet(1 .. n) /\ Cardinality(1 .. n) = n
    BY FS_Interval
  <2>3. f \in Surjection(1 .. n, S)
    BY <1>1, <2>1, <2>2, FS_Injection
  <2>4. QED
    BY <2>3 DEF Surjection
<1>10. QED
  BY <1>5, <1>7, <1>8, <1>9

(* What the loop admits is entered, each command with an execution of its own. *)
LEMMA AdmissionKeeps == LanesInv /\ fillCapacity => LanesInv'
<1> SUFFICES ASSUME LanesInv, fillCapacity PROVE LanesInv'
  OBVIOUS
<1> USE DEF LanesInv
<1>1. loop.at = "admit" /\ loop' = waitForWake /\ UNCHANGED <<pool, awaited, queueRow, asked>>
  BY DEF fillCapacity
<1>2. loop' \in LoopTypes /\ loop'.at \in {"wait", "ended"}
  BY <1>1, LoopPoints
<1>3. PICK S \in SUBSET Commands : S = loop.selected
  BY DEF LanesTypes, LoopTypes
<1>4. IsFiniteSet(S)
  BY PoolConstants, FS_Subset DEF Commands
<1>5. PICK chosen : chosen = SetToSeq(S)
  OBVIOUS
<1>6. PICK n \in Nat : n = Len(chosen)
  BY <1>4, <1>5, SetOrdered
<1>7. /\ chosen \in Seq(S) /\ DOMAIN chosen = 1 .. n
      /\ \A i, j \in 1 .. n : chosen[i] = chosen[j] => i = j
      /\ \A c \in S : \E i \in 1 .. n : chosen[i] = c
  BY <1>4, <1>5, <1>6, SetOrdered
<1>8. CASE UNCHANGED <<tracked, executions>>
  BY <1>8, <1>1, <1>2, LanesStayKeep DEF Executing, LanesQuiet, LanesStay, LanesTypes
<1>9. CASE ~UNCHANGED <<tracked, executions>>
  <2> DEFINE entering == [i \in 1 .. n |-> [command |-> chosen[i], at |-> "claim"]]
             place(c) == CHOOSE i \in 1 .. n : chosen[i] = c
  <2>1. /\ executions' = executions \o entering
        /\ tracked' = [c \in Commands |-> IF c \in S THEN Len(executions) + place(c) ELSE tracked[c]]
    BY <1>3, <1>5, <1>6, <1>9 DEF fillCapacity
  <2>2. PICK m \in Nat : m = Len(executions)
    BY DEF LanesTypes
  <2>3. executions \in Seq(ExecutionRows) /\ DOMAIN executions = 1 .. m
    BY <2>2 DEF LanesTypes
  <2>4. \A c \in S : place(c) \in 1 .. n /\ chosen[place(c)] = c
    BY <1>7
  <2>5. entering \in Seq(ExecutionRows) /\ Len(entering) = n
    BY <1>7 DEF ExecutionRows
  <2>6. /\ executions' \in Seq(ExecutionRows) /\ DOMAIN executions' = 1 .. m + n
        /\ \A i \in 1 .. m : executions'[i] = executions[i]
        /\ \A i \in 1 .. n : executions'[m + i] = [command |-> chosen[i], at |-> "claim"]
    <3>1. entering \in Seq(ExecutionRows) /\ Len(entering) = n /\ \A i \in 1 .. n : entering[i] = [command |-> chosen[i], at |-> "claim"]
      BY <2>5
    <3> HIDE DEF entering
    <3>2. executions' \in Seq(ExecutionRows) /\ Len(executions') = m + n
      <4>1. PICK a \in Seq(ExecutionRows) : a = executions
        BY <2>3
      <4>2. PICK b \in Seq(ExecutionRows) : b = entering
        BY <3>1
      <4>3. a \o b \in Seq(ExecutionRows) /\ Len(a \o b) = Len(a) + Len(b)
        OBVIOUS
      <4>4. QED
        BY <2>1, <2>2, <3>1, <4>1, <4>2, <4>3
    <3>3. DOMAIN executions' = 1 .. m + n
      BY <3>2
    <3>4. \A i \in 1 .. m : executions'[i] = executions[i]
      BY <2>1, <2>2, <2>3, <3>1
    <3>5. ASSUME NEW i \in 1 .. n
          PROVE  executions'[m + i] = [command |-> chosen[i], at |-> "claim"]
      BY <2>1, <2>2, <2>3, <3>1
    <3>6. QED
      BY <3>2, <3>3, <3>4, <3>5
  <2> HIDE DEF entering, place
  <2>7. tracked' \in [Commands -> Nat]
    BY <2>4, <2>1, <2>2 DEF LanesTypes
  <2>8. \A c \in Commands : tracked'[c] = IF c \in S THEN m + place(c) ELSE tracked[c]
    BY <2>1, <2>2
  <2>9. \A c \in S : m + place(c) \in 1 .. m + n /\ m + place(c) # 0
                     /\ executions'[m + place(c)].command = c
    <3> TAKE c \in S
    <3>1. PICK i \in 1 .. n : i = place(c) /\ chosen[i] = c
      BY <2>4
    <3>2. m + i \in 1 .. m + n /\ m + i # 0
      OBVIOUS
    <3>3. executions'[m + i] = [command |-> chosen[i], at |-> "claim"]
      BY <2>6
    <3>4. QED
      BY <3>1, <3>2, <3>3
  <2>10. EntriesOK'
    <3>1. ASSUME NEW c \in Commands, tracked'[c] # 0
          PROVE  tracked'[c] \in DOMAIN executions' /\ executions'[tracked'[c]].command = c
      BY <2>6, <2>8, <2>9, <2>3, <3>1 DEF EntriesOK
    <3>2. ASSUME NEW j \in DOMAIN executions',
                 executions'[j].command \in Parents, executions'[j].at # "ended"
          PROVE  tracked'[executions'[j].command] = j
      <4>1. CASE j \in 1 .. m
        BY <2>6, <3>2, <4>1, <2>3, <1>1, <1>3, <2>8 DEF Commands, EntriesOK, Entered, LanesFit
      <4>2. CASE j \notin 1 .. m
        <5>1. PICK i \in 1 .. n : j = m + i
          BY <2>6, <4>2
        <5>2. executions'[j].command = chosen[i] /\ chosen[i] \in S
          <6>1. chosen[i] \in S
            BY <1>7
          <6>2. executions'[m + i] = [command |-> chosen[i], at |-> "claim"]
            BY <2>6
          <6>3. QED
            BY <5>1, <6>1, <6>2
        <5>3. PICK k \in 1 .. n : k = place(chosen[i]) /\ chosen[k] = chosen[i]
          BY <2>4, <5>2
        <5>4. k = i
          BY <1>7, <5>3
        <5>5. QED
          BY <2>8, <5>1, <5>2, <5>3, <5>4
      <4>3. QED
        BY <4>1, <4>2
    <3>3. QED
      BY <3>1, <3>2 DEF EntriesOK
  <2>11. Entered' = Entered \cup S
    BY <2>8, <2>9 DEF Entered
  <2>12. LanesTypes'
    BY <1>1, <1>2, <2>6, <2>7 DEF LanesTypes
  <2>13. LanesFit'
    BY <1>1, <1>2, <1>3, <2>11 DEF LanesFit
  <2>14. LanesQuiet'
    BY <1>1, <1>2 DEF LanesQuiet
  <2>15. QED
    BY <2>10, <2>12, <2>13, <2>14
<1>10. QED
  BY <1>8, <1>9

(* One execution's stage is written. *)
LEMMA StageWrites ==
  ASSUME LanesTypes, NEW i \in DOMAIN executions,
         NEW x \in {"delay", "admit", "claim", "run", "ended"},
         executions' = [executions EXCEPT ![i].at = x]
  PROVE  /\ executions' \in Seq(ExecutionRows) /\ DOMAIN executions' = DOMAIN executions
         /\ \A j \in DOMAIN executions :
              /\ executions'[j].command = executions[j].command
              /\ executions'[j].at = IF j = i THEN x ELSE executions[j].at
         /\ executions[i].command \in Commands
<1>1. PICK row \in ExecutionRows : row = executions[i]
  BY DEF LanesTypes
<1>2. [row EXCEPT !.at = x] \in ExecutionRows /\ [row EXCEPT !.at = x].at = x
      /\ [row EXCEPT !.at = x].command = row.command
  BY DEF ExecutionRows
<1>3. executions' = [executions EXCEPT ![i] = [row EXCEPT !.at = x]]
  BY <1>1 DEF LanesTypes
<1>4. executions' \in Seq(ExecutionRows) /\ DOMAIN executions' = DOMAIN executions
  <2>1. PICK a \in Seq(ExecutionRows) : a = executions
    BY DEF LanesTypes
  <2>2. PICK r \in ExecutionRows : r = [row EXCEPT !.at = x]
    BY <1>2
  <2>3. i \in 1 .. Len(a) /\ Len(a) \in Nat
    BY <2>1
  <2>4. [a EXCEPT ![i] = r] \in Seq(ExecutionRows) /\ DOMAIN [a EXCEPT ![i] = r] = DOMAIN a
    BY <2>3
  <2>5. QED
    BY <1>3, <2>1, <2>2, <2>4
<1>5. \A j \in DOMAIN executions : executions'[j] = IF j = i THEN [row EXCEPT !.at = x] ELSE executions[j]
  BY <1>3 DEF LanesTypes
<1>6. row.command \in Commands
  BY DEF ExecutionRows
<1>7. QED
  BY <1>1, <1>2, <1>4, <1>5, <1>6

(* An execution goes on. *)
LEMMA GoingOnKeeps ==
  ASSUME LanesInv, NEW i \in DOMAIN executions, executions[i].at # "ended",
         NEW x \in {"admit", "claim", "run"},
         executions' = [executions EXCEPT ![i].at = x],
         UNCHANGED <<pool, loop, tracked, awaited, asked>>,
         queueRow' \in [Commands -> {"absent", "queued", "here", "done"}]
  PROVE  LanesInv'
<1> USE DEF LanesInv
<1>1. /\ executions' \in Seq(ExecutionRows) /\ DOMAIN executions' = DOMAIN executions
      /\ \A j \in DOMAIN executions :
           /\ executions'[j].command = executions[j].command
           /\ executions'[j].at = IF j = i THEN x ELSE executions[j].at
  <2>1. LanesTypes /\ x \in {"delay", "admit", "claim", "run", "ended"}
    OBVIOUS
  <2>2. QED
    BY <2>1, StageWrites
<1>2. Executing(Parents)' = Executing(Parents) /\ Entered' = Entered
  BY <1>1 DEF Executing, Entered
<1>3. LanesTypes'
  BY <1>1 DEF LanesTypes
<1>4. EntriesOK'
  BY <1>1 DEF EntriesOK
<1>5. LanesFit' /\ LanesQuiet'
  BY <1>2 DEF LanesFit, LanesQuiet
<1>6. QED
  BY <1>3, <1>4, <1>5

(* An execution ends, and its command is not entered any more: the lanes and  *)
(* what is awaited only get shorter.                                          *)
LEMMA EndingKeeps ==
  ASSUME LanesInv, NEW i \in DOMAIN executions, executions[i].at # "ended", finish(i),
         UNCHANGED <<pool, awaited, asked>>,
         queueRow' \in [Commands -> {"absent", "queued", "here", "done"}]
  PROVE  LanesInv'
<1> USE DEF LanesInv
<1>1. /\ executions' \in Seq(ExecutionRows) /\ DOMAIN executions' = DOMAIN executions
      /\ \A j \in DOMAIN executions :
           /\ executions'[j].command = executions[j].command
           /\ executions'[j].at = IF j = i THEN "ended" ELSE executions[j].at
      /\ executions[i].command \in Commands
  BY StageWrites DEF finish
<1>2. PICK c \in Commands : c = executions[i].command
  BY <1>1
<1>3. \A d \in Commands : tracked'[d] = IF d = c THEN 0 ELSE tracked[d]
  BY <1>2 DEF finish, LanesTypes
<1>4. tracked' \in [Commands -> Nat]
  BY <1>2 DEF finish, LanesTypes
<1>5. loop' \in LoopTypes /\ (loop' = loop \/ (loop.at = "wait" /\ loop'.at = "cancel"))
  BY LoopPoints DEF finish, LanesTypes
<1>6. Executing(Parents)' \subseteq Executing(Parents) /\ Entered' \subseteq Entered
  BY <1>1, <1>3 DEF Executing, Entered
<1>7. LanesTypes'
  BY <1>1, <1>4, <1>5 DEF LanesTypes
<1>8. EntriesOK'
  <2>1. ASSUME NEW d \in Commands, tracked'[d] # 0
        PROVE  tracked'[d] \in DOMAIN executions' /\ executions'[tracked'[d]].command = d
    BY <1>1, <1>3, <2>1 DEF EntriesOK
  <2>2. ASSUME NEW j \in DOMAIN executions', executions'[j].command \in Parents, executions'[j].at # "ended"
        PROVE  tracked'[executions'[j].command] = j
    BY <1>1, <2>2, <1>2, <1>3 DEF EntriesOK, Commands
  <2>3. QED
    BY <2>1, <2>2 DEF EntriesOK
<1>9. LanesFit'
  BY PoolConstants, FS_Subset, FS_CardinalityType, <1>6, <1>5 DEF Commands, maximumParents,
     LanesFit
<1>10. LanesQuiet'
  BY <1>5, <1>6 DEF LanesQuiet
<1>11. QED
  BY <1>7, <1>8, <1>9, <1>10

(* A Child is entered ahead of the scan: no lane of the parents is taken.     *)
LEMMA PriorityKeeps ==
  ASSUME LanesInv, NEW c \in Children, prioritizeSubagent(c)
  PROVE  LanesInv'
<1> USE DEF LanesInv
<1>1. UNCHANGED <<pool, loop, awaited, queueRow, asked>>
  BY DEF prioritizeSubagent
<1>2. CASE UNCHANGED <<tracked, executions>>
  BY <1>1, <1>2, LanesStayKeep DEF LanesQuiet, Executing, LanesStay, LanesTypes
<1>3. CASE ~UNCHANGED <<tracked, executions>>
  <2>1. PICK m \in Nat : m = Len(executions)
    BY DEF LanesTypes
  <2>2. /\ executions' = Append(executions, [command |-> c, at |-> "delay"])
        /\ tracked' = [tracked EXCEPT ![c] = m + 1]
        /\ tracked[c] = 0 /\ pool = "running"
    BY <1>3, <2>1 DEF prioritizeSubagent, begin, canPrioritizeLocalSubagent
  <2>3. c \in Commands /\ c \notin Parents
    BY PoolConstants DEF Commands
  <2>4. [command |-> c, at |-> "delay"] \in ExecutionRows
    BY <2>3 DEF ExecutionRows
  <2>5. /\ executions' \in Seq(ExecutionRows) /\ DOMAIN executions = 1 .. m /\ DOMAIN executions' = 1 .. m + 1
        /\ \A j \in 1 .. m : executions'[j] = executions[j]
        /\ executions'[m + 1] = [command |-> c, at |-> "delay"]
    BY <2>1, <2>2, <2>4 DEF LanesTypes
  <2>6. tracked' \in [Commands -> Nat] /\ \A d \in Commands : tracked'[d] = IF d = c THEN m + 1 ELSE tracked[d]
    BY <2>2, <2>3 DEF LanesTypes
  <2>7. Entered' \cap Parents = Entered \cap Parents
    BY <2>3, <2>6 DEF Entered
  <2>8. Executing(Parents)' = Executing(Parents)
    BY <2>3, <2>5 DEF Executing
  <2>9. LanesTypes'
    BY <1>1, <2>5, <2>6 DEF LanesTypes
  <2>10. EntriesOK'
    BY <2>5, <2>6, <2>3 DEF EntriesOK, Commands
  <2>11. LanesFit'
    BY <1>1, <2>7 DEF LanesFit
  <2>12. LanesQuiet'
    BY <1>1, <2>8 DEF LanesQuiet
  <2>13. QED
    BY <2>9, <2>10, <2>11, <2>12
<1>4. QED
  BY <1>2, <1>3

(* The steps of an execution. *)
LEMMA ExecutionsKeep ==
  ASSUME LanesInv, NEW i \in DOMAIN executions, ExecutionStep(i)
  PROVE  LanesInv'
<1> LanesTypes
  BY DEF LanesInv
<1>1. executions[i].at # "ended" /\ UNCHANGED <<pool, awaited, asked>>
  BY DEF ExecutionStep, delayEnds, admitRunClaims, dispatchCommand, settleDispatchResult
<1>2. queueRow' \in [Commands -> {"absent", "queued", "here", "done"}]
  BY DEF ExecutionStep, delayEnds, admitRunClaims, dispatchCommand, settleDispatchResult, LanesTypes
<1>3. CASE finish(i)
  BY <1>1, <1>2, <1>3, EndingKeeps
<1>4. CASE ~finish(i)
  BY <1>4, <1>1, <1>2, GoingOnKeeps DEF ExecutionStep, delayEnds, admitRunClaims, dispatchCommand,
     settleDispatchResult
<1>5. QED
  BY <1>3, <1>4

(* Every step of the pool keeps the invariant. *)
LEMMA LanesStep == LanesInv /\ [PoolNext]_poolVars => LanesInv'
  BY LoopsStay, LanesStayKeep, SelectionKeeps, AdmissionKeeps, PriorityKeeps, ExecutionsKeep DEF
     PoolNext, LoopStep, poolVars, Executing, LanesInv, LanesQuiet, LanesStay, LanesTypes

(* A parent that executes takes the lane it is entered in: one lane is left   *)
(* to the Children it waits for.                                              *)
LEMMA LanesHold == LanesInv => LanesSound
<1> SUFFICES ASSUME LanesInv PROVE LanesSound
  OBVIOUS
<1> USE DEF LanesInv
<1>1. PoolTypeOK
  BY DEF LanesTypes, LoopTypes, EntriesOK, Entered, PoolTypeOK
<1>2. PICK entered : entered = Entered \cap Parents
  OBVIOUS
<1>3. IsFiniteSet(entered) /\ Cardinality(entered) <= maximumParents
  BY <1>2, PoolConstants, FS_Subset DEF Commands, LanesFit
<1>4. PICK under : under = Executing(Parents)
  OBVIOUS
<1>5. PICK f : f = [i \in under |-> executions[i].command]
  OBVIOUS
<1>6. f \in Injection(under, entered)
  BY <1>4, <1>5, <1>2 DEF Executing, EntriesOK, LanesTypes, Entered, Commands, Injection,
     IsInjective
<1>7. Cardinality(under) <= Cardinality(entered) /\ IsFiniteSet(under)
  BY <1>3, <1>6, FS_Injection
<1>8. ParentLanesHeld
  BY <1>3, <1>7, FS_CardinalityType, PoolConstants, <1>4 DEF maximumParents, ParentLanesHeld
<1>9. StoppedParentsQuiet
  BY DEF LanesQuiet, StoppedParentsQuiet
<1>10. QED
  BY <1>1, <1>8, <1>9 DEF LanesSound

(* For every number of lanes and of commands, one lane at least is left to    *)
(* the Children of the parents that execute, and a Worker that has stopped    *)
(* executes no root Run (postgres-pi-worker.ts #fillCapacity, stop).          *)
THEOREM LanesAreSound == PoolSpec => []LanesSound
<1>1. QED
  BY LanesStart, LanesStep, LanesHold, PTL DEF PoolSpec

-----------------------------------------------------------------------------
(* The Cloud Steps of a Run: the inductive invariant.                      *)

Worlds ==
  [kind : {"state"}, status : {"none", "inactive", "active", "unavailable"},
   activation : Activations \cup {NoActivation}, environment : Environments \cup {"none"}]

Entries ==
  [kind : {"state", "reset", "environment"},
   status : {"none", "inactive", "active", "unavailable"},
   activation : Activations \cup {NoActivation}, environment : Environments \cup {"none"}]

AgentRuns ==
  [phase : {"idle", "ready", "reconcile", "captured", "frozen", "compacting",
            "answered", "operating", "over"},
   number : 0..MaxContextRuns, activation : Activations \cup {NoActivation},
   environment : Environments \cup {"none"},
   status : {"none", "inactive", "active", "unavailable"}, previous : Worlds,
   then : {"none", "captured", "operating", "ready", "over"},
   purpose : {"none", "agent", "maintenance"},
   sequence : 0..MaxContextSteps, step : Nat, issued : BOOLEAN, calls : 0..ToolBudget,
   shown : SUBSET {"reset", "environment"}]

Requests == [step : Nat, purpose : {"none", "agent", "maintenance"}]

ContextTypes ==
  /\ journal \in Seq(Entries) /\ agentRun \in AgentRuns /\ requests \in Seq(Requests)
  /\ known \in Activations \cup {NoActivation}

\* w is the newest state entry of the Session.
LatestIs(w) ==
  \/ w = NoWorld /\ \A i \in DOMAIN journal : journal[i].kind # "state"
  \/ \E i \in DOMAIN journal :
       /\ journal[i].kind = "state" /\ w = journal[i]
       /\ \A j \in DOMAIN journal : journal[j].kind = "state" => j <= i

\* The Session ends in a reset message, but for other messages.
ResetLast ==
  \E i \in DOMAIN journal :
    journal[i].kind = "reset" /\ \A j \in DOMAIN journal : journal[j].kind = "state" => j < i

\* The requests of a Run carry numbers that were given out, and the one that is
\* about to leave carries a new one; a step that is being captured has a number.
StepsNumbered ==
  /\ agentRun.step <= agentRun.sequence
  /\ agentRun.phase # "idle" =>
       \A i \in DOMAIN requests :
         /\ requests[i].step <= agentRun.sequence
         /\ agentRun.step # 0 /\ ~agentRun.issued => requests[i].step # agentRun.step
  /\ agentRun.phase = "captured" \/ (agentRun.phase = "reconcile" /\ agentRun.then = "captured")
       => agentRun.sequence < MaxContextSteps

\* What the controller remembers of the world is what the Session says, and from
\* the capture of a step to its end it is the world as it is.  A tool runs in a
\* Sandbox the controller took for active.
WorldKept ==
  /\ \E w \in Worlds : LatestIs(w)
  /\ agentRun.phase # "idle" => LatestIs(agentRun.previous) /\ agentRun.activation \in Activations
  /\ agentRun.phase \in {"captured", "frozen", "compacting", "answered", "operating"} =>
       agentRun.previous = CurrentStep
  /\ agentRun.phase = "operating" \/ (agentRun.phase = "reconcile" /\ agentRun.then = "operating")
       => agentRun.status = "active"
  /\ agentRun.phase = "reconcile" => agentRun.then # "none"
  /\ "reset" \in agentRun.shown => ResetLast

\* What the Session says of the Sandbox the model knows: still active, or lost.
Followed(a) ==
  ResetAfter(a) \/ \E w \in Worlds : LatestIs(w) /\ w.status = "active" /\ w.activation = a

Recorded(a) ==
  \E i \in DOMAIN journal :
    journal[i].kind = "state" /\ journal[i].status = "active" /\ journal[i].activation = a

KnownFollowed == known # NoActivation => Followed(known) /\ Recorded(known)

ContextInv == ContextTypes /\ RequestsDistinct /\ StepsNumbered /\ WorldKept /\ KnownFollowed

-----------------------------------------------------------------------------
(* What an entry adds to the Session.                                      *)

\* An entry that is appended leaves the others where they are.
LEMMA Appended ==
  ASSUME journal \in Seq(Entries), NEW e \in Entries, journal' = Append(journal, e)
  PROVE  /\ journal' \in Seq(Entries) /\ Len(journal) \in Nat
         /\ DOMAIN journal = 1 .. Len(journal) /\ DOMAIN journal' = 1 .. Len(journal) + 1
         /\ \A i \in DOMAIN journal : journal'[i] = journal[i]
         /\ journal'[Len(journal) + 1] = e
  BY AppendProperties

\* The newest state is the one the controller finds.
LEMMA LatestFound ==
  ASSUME journal \in Seq(Entries), NEW w, LatestIs(w)
  PROVE  latestRuntimeWorldState = w
  BY LenProperties DEF latestRuntimeWorldState, LatestIs

\* A message changes neither the newest state nor what is on record, and a reset
\* message stands after every state there is.
LEMMA MessageAppended ==
  ASSUME journal \in Seq(Entries), NEW e \in Entries, e.kind # "state",
         journal' = Append(journal, e)
  PROVE  /\ \A w : LatestIs(w) => LatestIs(w)'
         /\ \A a : (ResetAfter(a) => ResetAfter(a)') /\ (Recorded(a) => Recorded(a)')
         /\ ResetLast \/ e.kind = "reset" => ResetLast'
  BY Appended DEF LatestIs, ResetAfter, Recorded, ResetLast

\* A state is the newest there is; it takes nothing back but a reset message of
\* the Sandbox it calls active.
LEMMA StateAppended ==
  ASSUME journal \in Seq(Entries), NEW e \in Worlds, journal' = Append(journal, e)
  PROVE  /\ journal' \in Seq(Entries) /\ LatestIs(e)'
         /\ \A a : Recorded(a) => Recorded(a)'
         /\ \A a : ResetAfter(a) /\ ~(e.status = "active" /\ e.activation = a) => ResetAfter(a)'
         /\ e.status = "active" => Recorded(e.activation)'
  BY Appended DEF Worlds, Entries, LatestIs, Recorded, ResetAfter
-----------------------------------------------------------------------------
(* The steps of the controller.                                            *)

\* A state of the world as it is, or as it was never seen, is a world.
LEMMA CurrentWorlds ==
  ASSUME agentRun \in AgentRuns
  PROVE  NoWorld \in Worlds /\ CurrentStep \in Worlds
  BY DEF AgentRuns, NoWorld, CurrentStep, World, Worlds

\* The fields of no Run have their types.
LEMMA IdleRun ==
  ASSUME NEW n \in 0..MaxContextRuns
  PROVE  NoAgentRun \in AgentRuns /\ [NoAgentRun EXCEPT !.number = n] \in AgentRuns
  <1>1. PICK w \in Worlds : w = NoWorld
    BY DEF NoWorld, World, Worlds
  <1>2. PICK a \in Activations \cup {NoActivation}, e \in Environments \cup {"none"} :
          a = NoActivation /\ e = "none"
    OBVIOUS
  <1>3. PICK zero \in Nat : zero = 0 /\ zero \in 0..MaxContextSteps /\ zero \in 0..ToolBudget
    BY ContextBounds
  <1>4. PICK shown \in SUBSET {"reset", "environment"} : shown = {}
    OBVIOUS
  <1>5. PICK x : x = NoAgentRun
    OBVIOUS
  <1>6. x = [phase |-> "idle", number |-> zero, activation |-> a, environment |-> e,
             status |-> "none", previous |-> w, then |-> "none", purpose |-> "none",
             sequence |-> zero, step |-> zero, issued |-> FALSE, calls |-> zero,
             shown |-> shown]
    BY <1>1, <1>2, <1>3, <1>4, <1>5 DEF NoAgentRun
  <1>7. 0 \in 0..MaxContextRuns
    BY ContextBounds
  <1>8. x \in AgentRuns
    BY <1>3, <1>6, <1>7 DEF AgentRuns
  <1>9. [x EXCEPT !.number = n] \in AgentRuns
    BY <1>8 DEF AgentRuns
  <1>10. QED
    BY <1>5, <1>8, <1>9

\* A Session without a Run.
LEMMA RunGone ==
  ASSUME ContextInv, UNCHANGED <<journal, requests, known>>,
         agentRun' = [NoAgentRun EXCEPT !.number = agentRun.number]
  PROVE  ContextInv'
  <1>1. agentRun' \in AgentRuns
    BY IdleRun DEF ContextInv, ContextTypes, AgentRuns
  <1>2. agentRun'.phase = "idle" /\ agentRun'.step = 0 /\ agentRun'.sequence = 0
        /\ agentRun'.shown = {}
    BY DEF NoAgentRun
  <1>3. ContextTypes'
    BY <1>1 DEF ContextInv, ContextTypes
  <1>4. StepsNumbered'
    BY <1>2 DEF StepsNumbered
  <1>5. WorldKept'
    BY <1>2 DEF ContextInv, WorldKept, LatestIs
  <1>6. RequestsDistinct' /\ KnownFollowed'
    BY DEF ContextInv, RequestsDistinct, KnownFollowed, Followed, Recorded, LatestIs, ResetAfter
  <1>7. QED
    BY <1>3, <1>4, <1>5, <1>6 DEF ContextInv

\* A Run finds the newest state of its Session.
LEMMA RunStarts ==
  ASSUME ContextInv, NEW a \in Activations, NEW e \in Environments, NEW warm \in BOOLEAN,
         startContext(a, e, warm)
  PROVE  ContextInv'
  <1>1. PICK w \in Worlds : LatestIs(w)
    BY DEF ContextInv, WorldKept
  <1>2. latestRuntimeWorldState = w
    BY <1>1, LatestFound DEF ContextInv, ContextTypes
  <1>3. PICK n : n = agentRun.number
    OBVIOUS
  <1>4. n \in 0..MaxContextRuns /\ n + 1 \in 0..MaxContextRuns
    BY <1>3, ContextBounds DEF startContext, ContextInv, ContextTypes, AgentRuns
  <1>5. agentRun' = [phase |-> "ready", number |-> n + 1, activation |-> a, environment |-> e,
                     status |-> IF warm THEN "active" ELSE "inactive", previous |-> w,
                     then |-> "none", purpose |-> "none", sequence |-> 0, step |-> 0,
                     issued |-> FALSE, calls |-> ToolBudget, shown |-> {}]
    BY <1>2, <1>3 DEF startContext, NoAgentRun
  <1>6. agentRun' \in AgentRuns
    BY <1>1, <1>4, <1>5, ContextBounds DEF AgentRuns
  <1>7. requests' = <<>> /\ journal' = journal /\ known' = known
    BY DEF startContext
  <1>8. ContextTypes'
    BY <1>6, <1>7 DEF ContextInv, ContextTypes
  <1>9. StepsNumbered' /\ RequestsDistinct'
    BY <1>5, <1>7 DEF StepsNumbered, RequestsDistinct
  <1>10. WorldKept'
    BY <1>1, <1>5, <1>7 DEF WorldKept, LatestIs
  <1>11. KnownFollowed'
    BY <1>7 DEF ContextInv, KnownFollowed, Followed, Recorded, LatestIs, ResetAfter
  <1>12. QED
    BY <1>8, <1>9, <1>10, <1>11 DEF ContextInv

\* The messages of a reconciliation come first.
LEMMA MessageKeeps ==
  ASSUME ContextInv, NEW k \in {"reset", "environment"}, appendMessage(k)
  PROVE  ContextInv'
  <1>1. PICK run \in AgentRuns : run = agentRun
    BY DEF ContextInv, ContextTypes
  <1>2. agentRun' = [run EXCEPT !.shown = run.shown \cup {k}]
    BY <1>1 DEF appendMessage
  <1>3. ToldWorld(k) \in Entries /\ ToldWorld(k).kind = k
    BY DEF ToldWorld, Entries
  <1>4. journal' = Append(journal, ToldWorld(k)) /\ requests' = requests /\ known' = known
    BY DEF appendMessage
  <1>5. /\ \A w : LatestIs(w) => LatestIs(w)'
        /\ \A a : (ResetAfter(a) => ResetAfter(a)') /\ (Recorded(a) => Recorded(a)')
        /\ ResetLast \/ k = "reset" => ResetLast'
    BY <1>3, <1>4, MessageAppended DEF ContextInv, ContextTypes
  <1>6. agentRun' \in AgentRuns
    BY <1>1, <1>2 DEF AgentRuns
  <1>7. journal' \in Seq(Entries)
    BY <1>3, <1>4, Appended DEF ContextInv, ContextTypes
  <1>8. ContextTypes'
    BY <1>4, <1>6, <1>7 DEF ContextInv, ContextTypes
  <1>9. /\ agentRun'.phase = agentRun.phase /\ agentRun'.sequence = agentRun.sequence
        /\ agentRun'.step = agentRun.step /\ agentRun'.issued = agentRun.issued
        /\ agentRun'.then = agentRun.then /\ agentRun'.previous = agentRun.previous
        /\ agentRun'.activation = agentRun.activation /\ agentRun'.status = agentRun.status
        /\ agentRun'.shown = agentRun.shown \cup {k}
    BY <1>1, <1>2 DEF AgentRuns
  <1>10. StepsNumbered' /\ RequestsDistinct'
    BY <1>4, <1>9 DEF ContextInv, StepsNumbered, RequestsDistinct
  <1>11. agentRun'.phase = "reconcile"
    BY <1>9 DEF appendMessage
  <1>12. WorldKept'
    BY <1>5, <1>9, <1>11 DEF ContextInv, WorldKept
  <1>13. KnownFollowed'
    BY <1>4, <1>5 DEF ContextInv, KnownFollowed, Followed
  <1>14. QED
    BY <1>8, <1>10, <1>12, <1>13 DEF ContextInv

\* Only the fields of the Run change, and of them only its progress.
RunMoves ==
  /\ UNCHANGED <<journal, requests, known>>
  /\ agentRun' \in AgentRuns
  /\ agentRun'.previous = agentRun.previous /\ agentRun'.activation = agentRun.activation
  /\ agentRun'.shown = agentRun.shown
  /\ agentRun.phase # "idle"

\* A step of the Run that writes no entry and sends no request.
LEMMA RunMovesKeeps ==
  ASSUME ContextInv, RunMoves, StepsNumbered',
         agentRun'.phase \in {"captured", "frozen", "compacting", "answered", "operating"} =>
           agentRun'.previous = CurrentStep',
         agentRun'.phase = "operating" \/ (agentRun'.phase = "reconcile" /\ agentRun'.then = "operating")
           => agentRun'.status = "active",
         agentRun'.phase = "reconcile" => agentRun'.then # "none"
  PROVE  ContextInv'
  BY DEF ContextInv, ContextTypes, RunMoves, WorldKept, LatestIs, ResetLast, RequestsDistinct,
     KnownFollowed, Followed, Recorded, ResetAfter
\* The fields of the Run, by name.
LEMMA RunFields ==
  ASSUME ContextInv
  PROVE  /\ agentRun \in AgentRuns /\ agentRun.step \in Nat /\ agentRun.sequence \in Nat
         /\ agentRun.calls \in Nat /\ agentRun.sequence \in 0..MaxContextSteps
         /\ agentRun.calls \in 0..ToolBudget
         /\ ToolBudget \in Nat /\ MaxContextSteps \in Nat
  BY ContextBounds DEF ContextInv, ContextTypes, AgentRuns

\* captureStep.
LEMMA CaptureKeeps ==
  ASSUME ContextInv, NEW purpose \in {"agent", "maintenance"}, captureStep(purpose)
  PROVE  ContextInv'
  <1>1. PICK run \in AgentRuns : run = agentRun
    BY RunFields
  <1>2. agentRun' = [run EXCEPT !.phase = "reconcile", !.then = "captured",
                                !.purpose = purpose, !.step = 0]
    BY <1>1 DEF captureStep
  <1>3. agentRun' \in AgentRuns
    BY <1>2 DEF AgentRuns
  <1>4. /\ agentRun'.previous = agentRun.previous /\ agentRun'.activation = agentRun.activation
        /\ agentRun'.shown = agentRun.shown /\ agentRun'.phase = "reconcile"
        /\ agentRun'.then = "captured" /\ agentRun'.step = 0
        /\ agentRun'.sequence = agentRun.sequence
    BY <1>1, <1>2 DEF AgentRuns
  <1>5. RunMoves
    BY <1>3, <1>4 DEF captureStep, RunMoves
  <1>6. agentRun.phase # "idle" /\ agentRun.sequence < MaxContextSteps /\ requests' = requests
    BY DEF captureStep
  <1>7. StepsNumbered'
    BY <1>4, <1>6, RunFields DEF ContextInv, StepsNumbered
  <1>8. QED
    BY <1>4, <1>5, <1>7, RunMovesKeeps

\* freezeStep: the number is one more than any that was given out.
LEMMA FreezeKeeps ==
  ASSUME ContextInv, freezeStep
  PROVE  ContextInv'
  <1>1. PICK run \in AgentRuns : run = agentRun
    BY RunFields
  <1>2. PICK n \in Nat : n = agentRun.sequence
    BY RunFields
  <1>3. agentRun' = [run EXCEPT !.phase = "frozen", !.sequence = n + 1, !.step = n + 1,
                                !.issued = FALSE]
    BY <1>1, <1>2 DEF freezeStep
  <1>4. agentRun.phase = "captured" /\ n < MaxContextSteps /\ requests' = requests
    BY <1>2 DEF freezeStep, ContextInv, StepsNumbered
  <1>5. n + 1 \in 0..MaxContextSteps /\ n + 1 \in Nat
    BY <1>4, RunFields
  <1>6. agentRun' \in AgentRuns
    BY <1>1, <1>3, <1>5 DEF AgentRuns
  <1>7. /\ agentRun'.previous = agentRun.previous /\ agentRun'.activation = agentRun.activation
        /\ agentRun'.shown = agentRun.shown /\ agentRun'.phase = "frozen"
        /\ agentRun'.step = n + 1 /\ agentRun'.sequence = n + 1
        /\ agentRun'.status = agentRun.status /\ agentRun'.environment = agentRun.environment
    BY <1>1, <1>3 DEF AgentRuns
  <1>8. RunMoves
    BY <1>4, <1>6, <1>7 DEF freezeStep, RunMoves
  <1>9. StepsNumbered'
    <2>1. ASSUME NEW i \in DOMAIN requests PROVE requests[i].step \in Nat /\ requests[i].step <= n
      <3>1. PICK r \in Requests : r = requests[i]
        BY ElementOfSeq DEF ContextInv, ContextTypes
      <3>2. r.step \in Nat
        BY DEF Requests
      <3>3. QED
        BY <1>2, <1>4, <3>1, <3>2 DEF ContextInv, StepsNumbered
    <2>2. ASSUME NEW i \in DOMAIN requests
          PROVE  requests[i].step <= n + 1 /\ requests[i].step # n + 1
      BY <2>1
    <2>3. QED
      BY <1>4, <1>7, <2>2 DEF StepsNumbered
  <1>10. agentRun'.previous = CurrentStep'
    BY <1>4, <1>7 DEF ContextInv, WorldKept, CurrentStep
  <1>11. QED
    BY <1>7, <1>8, <1>9, <1>10, RunMovesKeeps

\* A step that numbers no request and captures none.
LEMMA StepsKept ==
  ASSUME ContextInv, requests' = requests, agentRun'.sequence = agentRun.sequence,
         agentRun'.step = agentRun.step, agentRun'.issued = agentRun.issued,
         agentRun.phase # "idle", agentRun'.phase # "captured",
         ~(agentRun'.phase = "reconcile" /\ agentRun'.then = "captured")
  PROVE  StepsNumbered'
  BY DEF ContextInv, StepsNumbered

\* The progress of a Run, but for its steps: compactionDone, consumeToolCall,
\* toolBudgetExhausted.
LEMMA ProgressKeeps ==
  ASSUME ContextInv, compactionDone \/ consumeToolCall \/ toolBudgetExhausted
  PROVE  ContextInv'
  <1>1. PICK run \in AgentRuns : run = agentRun
    BY RunFields
  <1>2. CASE compactionDone \/ toolBudgetExhausted
    BY <1>1, <1>2, StepsKept, RunMovesKeeps DEF compactionDone, toolBudgetExhausted, AgentRuns,
       RunMoves
  <1>3. CASE consumeToolCall
    <2>1. PICK n \in Nat : n = agentRun.calls /\ n > 0 /\ n <= ToolBudget
      BY <1>3, RunFields DEF consumeToolCall
    <2>2. agentRun' = [run EXCEPT !.calls = n - 1, !.status = "active", !.phase = "reconcile",
                                  !.then = "operating"]
      BY <1>1, <1>3, <2>1 DEF consumeToolCall
    <2>3. n - 1 \in 0..ToolBudget
      BY <2>1, RunFields
    <2>4. agentRun' \in AgentRuns
      BY ZenonT(60), <1>1, <2>2, <2>3 DEF AgentRuns
    <2>5. /\ agentRun'.previous = agentRun.previous /\ agentRun'.activation = agentRun.activation
          /\ agentRun'.shown = agentRun.shown /\ agentRun'.phase = "reconcile"
          /\ agentRun'.step = agentRun.step /\ agentRun'.sequence = agentRun.sequence
          /\ agentRun'.issued = agentRun.issued /\ agentRun'.then = "operating"
          /\ agentRun'.status = "active"
      BY <1>1, <2>2 DEF AgentRuns
    <2>6. RunMoves
      BY <1>3, <2>4, <2>5 DEF consumeToolCall, RunMoves
    <2>7. StepsNumbered'
      BY <2>5, <2>6, StepsKept DEF RunMoves
    <2>8. QED
      BY <2>5, <2>6, <2>7, RunMovesKeeps
  <1>4. QED
    BY <1>2, <1>3

\* runEnds.
LEMMA EndKeeps ==
  ASSUME ContextInv, NEW failed \in BOOLEAN, runEnds(failed)
  PROVE  ContextInv'
  <1>1. PICK run \in AgentRuns : run = agentRun
    BY RunFields
  <1>2. agentRun.phase \in {"answered", "ready", "frozen", "compacting"}
    BY DEF runEnds
  <1>3. CASE failed /\ agentRun.calls < ToolBudget
    <2>1. agentRun' = [run EXCEPT !.status = "unavailable", !.phase = "reconcile", !.then = "over"]
      BY <1>1, <1>3 DEF runEnds
    <2>2. agentRun' \in AgentRuns
      BY ZenonT(60), <1>1, <2>1 DEF AgentRuns
    <2>3. /\ agentRun'.previous = agentRun.previous /\ agentRun'.activation = agentRun.activation
          /\ agentRun'.shown = agentRun.shown /\ agentRun'.phase = "reconcile"
          /\ agentRun'.step = agentRun.step /\ agentRun'.sequence = agentRun.sequence
          /\ agentRun'.issued = agentRun.issued /\ agentRun'.then = "over"
      BY <1>1, <2>1 DEF AgentRuns
    <2>4. RunMoves
      BY <1>2, <2>2, <2>3 DEF runEnds, RunMoves
    <2>5. StepsNumbered'
      BY <2>3, <2>4, StepsKept DEF RunMoves
    <2>6. QED
      BY <2>3, <2>4, <2>5, RunMovesKeeps
  <1>4. CASE ~(failed /\ agentRun.calls < ToolBudget)
    BY <1>1, <1>4, <1>2, StepsKept, RunMovesKeeps DEF runEnds, AgentRuns, RunMoves
  <1>5. QED
    BY <1>3, <1>4
\* issueHeaders: the step that was frozen gives its number to one request.
LEMMA IssueKeeps ==
  ASSUME ContextInv, issueHeaders
  PROVE  ContextInv'
  <1>1. PICK run \in AgentRuns : run = agentRun
    BY RunFields
  <1>2. PICK next \in {"answered", "compacting"} :
          agentRun' = [run EXCEPT !.issued = TRUE, !.phase = next]
    BY <1>1 DEF issueHeaders
  <1>3. agentRun' \in AgentRuns
    BY ZenonT(60), <1>1, <1>2 DEF AgentRuns
  <1>4. /\ agentRun'.previous = agentRun.previous /\ agentRun'.activation = agentRun.activation
        /\ agentRun'.shown = agentRun.shown /\ agentRun'.phase = next
        /\ agentRun'.step = agentRun.step /\ agentRun'.sequence = agentRun.sequence
        /\ agentRun'.issued = TRUE /\ agentRun'.status = agentRun.status
        /\ agentRun'.environment = agentRun.environment
    BY <1>1, <1>2 DEF AgentRuns
  <1>5. PICK request : request = [step |-> agentRun.step, purpose |-> agentRun.purpose]
    OBVIOUS
  <1>6. request \in Requests /\ request.step = agentRun.step
    BY <1>5, RunFields DEF Requests, AgentRuns
  <1>7. requests' = Append(requests, request) /\ journal' = journal /\ known' = known
    BY <1>5 DEF issueHeaders
  <1>8. /\ requests' \in Seq(Requests) /\ Len(requests) \in Nat
        /\ DOMAIN requests = 1 .. Len(requests) /\ DOMAIN requests' = 1 .. Len(requests) + 1
        /\ \A i \in DOMAIN requests : requests'[i] = requests[i]
        /\ requests'[Len(requests) + 1] = request
    BY <1>6, <1>7, AppendProperties DEF ContextInv, ContextTypes
  <1>9. \A i \in DOMAIN requests' :
          \/ i \in DOMAIN requests /\ requests'[i] = requests[i]
          \/ i = Len(requests) + 1 /\ requests'[i] = request
    BY <1>8
  <1>10. /\ agentRun.phase \in {"frozen", "compacting"} /\ agentRun.step # 0 /\ ~agentRun.issued
    BY DEF issueHeaders, mayIssue
  <1>11. \A i \in DOMAIN requests :
           requests[i].step <= agentRun.sequence /\ requests[i].step # agentRun.step
    BY <1>10 DEF ContextInv, StepsNumbered
  <1>12. RequestsDistinct'
    BY <1>6, <1>9, <1>11 DEF ContextInv, RequestsDistinct
  <1>13. StepsNumbered'
    BY <1>2, <1>4, <1>6, <1>9, <1>11 DEF ContextInv, StepsNumbered
  <1>14. ContextTypes'
    BY <1>3, <1>7, <1>8 DEF ContextInv, ContextTypes
  <1>15. WorldKept'
    BY <1>2, <1>4, <1>7, <1>10 DEF ContextInv, WorldKept, LatestIs, ResetLast, CurrentStep
  <1>16. KnownFollowed'
    BY <1>7 DEF ContextInv, KnownFollowed, Followed, Recorded, LatestIs, ResetAfter
  <1>17. QED
    BY <1>12, <1>13, <1>14, <1>15, <1>16 DEF ContextInv

\* A tool runs in the Sandbox the Session calls active.
LEMMA OperateKeeps ==
  ASSUME ContextInv, NEW lost \in BOOLEAN, operate(lost)
  PROVE  ContextInv'
  <1>1. PICK run \in AgentRuns : run = agentRun
    BY RunFields
  <1>2. /\ agentRun.phase = "operating" /\ known' = agentRun.activation
        /\ journal' = journal /\ requests' = requests
    BY DEF operate
  <1>3. PICK status \in {"none", "inactive", "active", "unavailable"},
             next \in {"ready", "reconcile"}, then \in {"none", "captured", "operating", "ready", "over"} :
          /\ agentRun' = [run EXCEPT !.status = status, !.phase = next, !.then = then]
          /\ next = "reconcile" => then = "ready"
    <2>1. CASE lost
      BY <1>1, <2>1 DEF operate
    <2>2. CASE ~lost
      <3>1. agentRun' = [run EXCEPT !.phase = "ready"]
        BY <1>1, <2>2 DEF operate
      <3>2. agentRun' = [run EXCEPT !.status = run.status, !.phase = "ready", !.then = run.then]
        BY <3>1 DEF AgentRuns
      <3>3. run.status \in {"none", "inactive", "active", "unavailable"}
            /\ run.then \in {"none", "captured", "operating", "ready", "over"}
        BY DEF AgentRuns
      <3>4. QED
        BY <3>2, <3>3
    <2>3. QED
      BY <2>1, <2>2
  <1>4. agentRun' \in AgentRuns
    BY <1>3 DEF AgentRuns
  <1>5. /\ agentRun'.previous = agentRun.previous /\ agentRun'.activation = agentRun.activation
        /\ agentRun'.shown = agentRun.shown /\ agentRun'.phase = next /\ agentRun'.then = then
        /\ agentRun'.step = agentRun.step /\ agentRun'.sequence = agentRun.sequence
        /\ agentRun'.issued = agentRun.issued
    BY <1>1, <1>3 DEF AgentRuns
  <1>6. agentRun.activation \in Activations /\ agentRun.status = "active"
        /\ LatestIs(agentRun.previous) /\ agentRun.previous = CurrentStep
    BY <1>2 DEF ContextInv, WorldKept
  <1>7. PICK w \in Worlds : /\ LatestIs(w) /\ w.status = "active"
                            /\ w.activation = agentRun.activation
    BY <1>6, CurrentWorlds, RunFields DEF CurrentStep, World
  <1>8. StepsNumbered'
    BY <1>2, <1>3, <1>5, StepsKept
  <1>9. ContextTypes'
    BY <1>2, <1>4, <1>6 DEF ContextInv, ContextTypes
  <1>10. WorldKept'
    BY <1>2, <1>3, <1>5 DEF ContextInv, WorldKept, LatestIs, ResetLast
  <1>11. Recorded(agentRun.activation)
    BY <1>7 DEF LatestIs, Recorded, NoWorld, World
  <1>12. KnownFollowed'
    BY <1>2, <1>7, <1>11 DEF KnownFollowed, Followed, Recorded, LatestIs
  <1>13. RequestsDistinct'
    BY <1>2 DEF ContextInv, RequestsDistinct
  <1>14. QED
    BY <1>8, <1>9, <1>10, <1>12, <1>13 DEF ContextInv

\* The state comes after its messages: where it is another than the Session's
\* newest, and that one is active, the reset message is already there.
LEMMA StateKeeps ==
  ASSUME ContextInv, appendState
  PROVE  ContextInv'
  <1>1. PICK run \in AgentRuns : run = agentRun
    BY RunFields
  <1>2. PICK w \in Worlds : w = CurrentStep
    BY RunFields, CurrentWorlds
  <1>3. PICK next : next = agentRun.then
    OBVIOUS
  <1>4. /\ agentRun.phase = "reconcile" /\ owed = {} /\ requests' = requests /\ known' = known
        /\ next \in {"captured", "operating", "ready", "over"}
    BY <1>3, RunFields DEF appendState, ContextInv, WorldKept, AgentRuns
  <1>5. agentRun' = [run EXCEPT !.phase = next, !.previous = w, !.shown = {}]
    BY <1>1, <1>2, <1>3 DEF appendState
  <1>6. agentRun' \in AgentRuns
    BY <1>1, <1>4, <1>5 DEF AgentRuns
  <1>7. /\ agentRun'.previous = w /\ agentRun'.activation = agentRun.activation
        /\ agentRun'.shown = {} /\ agentRun'.phase = next
        /\ agentRun'.step = agentRun.step /\ agentRun'.sequence = agentRun.sequence
        /\ agentRun'.issued = agentRun.issued /\ agentRun'.status = agentRun.status
        /\ agentRun'.environment = agentRun.environment
    BY <1>1, <1>5 DEF AgentRuns
  <1>8. StepsNumbered'
    BY <1>3, <1>4, <1>7 DEF ContextInv, StepsNumbered
  <1>9. CurrentStep' = w
    BY <1>2, <1>7 DEF CurrentStep
  <1>10. LatestIs(agentRun.previous) /\ agentRun.activation \in Activations
         /\ (next = "operating" => agentRun.status = "active")
    BY <1>3, <1>4 DEF ContextInv, WorldKept
  <1>11. RequestsDistinct'
    BY <1>4 DEF ContextInv, RequestsDistinct
  <1>12. CASE agentRun.previous = w
    <2>1. journal' = journal
      BY <1>2, <1>12 DEF appendState
    <2>2. ContextTypes'
      BY <1>4, <1>6, <2>1 DEF ContextInv, ContextTypes
    <2>3. LatestIs(w)'
      BY <1>10, <1>12, <2>1 DEF LatestIs
    <2>4. WorldKept'
      BY <1>4, <1>7, <1>9, <1>10, <2>3 DEF WorldKept
    <2>5. KnownFollowed'
      BY <1>4, <2>1 DEF ContextInv, KnownFollowed, Followed, Recorded, LatestIs, ResetAfter
    <2>6. QED
      BY <1>8, <1>11, <2>2, <2>4, <2>5 DEF ContextInv
  <1>13. CASE agentRun.previous # w
    <2>1. journal' = Append(journal, w)
      BY <1>2, <1>13 DEF appendState
    <2>2. /\ journal' \in Seq(Entries) /\ LatestIs(w)'
          /\ \A a : Recorded(a) => Recorded(a)'
          /\ \A a : ResetAfter(a) /\ ~(w.status = "active" /\ w.activation = a) => ResetAfter(a)'
      BY <2>1, StateAppended DEF ContextInv, ContextTypes
    <2>3. ContextTypes'
      BY <1>4, <1>6, <2>2 DEF ContextInv, ContextTypes
    <2>4. WorldKept'
      BY <1>4, <1>7, <1>9, <1>10, <2>2 DEF WorldKept
    <2>5. ASSUME known # NoActivation
          PROVE  Followed(known)'
      <3>1. CASE w.status = "active" /\ w.activation = known
        BY <1>4, <2>2, <3>1 DEF Followed
      <3>2. CASE ~(w.status = "active" /\ w.activation = known) /\ ResetAfter(known)
        BY <1>4, <2>2, <3>2 DEF Followed
      <3>3. CASE ~(w.status = "active" /\ w.activation = known) /\ ~ResetAfter(known)
        BY <2>5, <3>3, <1>10, LatestFound, <1>2, <1>4 DEF ContextInv, KnownFollowed, Followed,
           ContextTypes, material, owed, WorldKept, ResetLast, ResetAfter
      <3>4. QED
        BY <3>1, <3>2, <3>3
    <2>6. KnownFollowed'
      BY <1>4, <2>2, <2>5 DEF ContextInv, KnownFollowed
    <2>7. QED
      BY <1>8, <1>11, <2>3, <2>4, <2>6 DEF ContextInv
  <1>14. QED
    BY <1>12, <1>13

-----------------------------------------------------------------------------
(* The theorem.                                                            *)

\* A Session starts with an empty journal and no Run.
LEMMA ContextStarts == ContextInit => ContextInv
  <1> SUFFICES ASSUME ContextInit PROVE ContextInv
    OBVIOUS
  <1>1. agentRun \in AgentRuns
    <2>1. 0 \in 0..MaxContextRuns
      BY ContextBounds
    <2>2. QED
      BY <2>1, IdleRun DEF ContextInit
  <1>2. ContextTypes
    BY <1>1 DEF ContextInit, ContextTypes
  <1>3. RequestsDistinct /\ StepsNumbered
    BY DEF ContextInit, RequestsDistinct, StepsNumbered, NoAgentRun
  <1>4. NoWorld \in Worlds /\ LatestIs(NoWorld)
    BY <1>1, CurrentWorlds DEF ContextInit, LatestIs
  <1>5. WorldKept
    BY <1>4 DEF ContextInit, WorldKept, NoAgentRun
  <1>6. KnownFollowed
    BY DEF ContextInit, KnownFollowed
  <1>7. QED
    BY <1>2, <1>3, <1>5, <1>6 DEF ContextInv

\* Every step of the Runs of a Session keeps the invariant.
LEMMA ContextStep == ContextInv /\ [ContextNext]_contextVars => ContextInv'
  <1> SUFFICES ASSUME ContextInv, [ContextNext]_contextVars PROVE ContextInv'
    OBVIOUS
  <1>1. CASE \E a \in Activations, e \in Environments, warm \in BOOLEAN : startContext(a, e, warm)
    BY <1>1, RunStarts
  <1>2. CASE \E k \in {"reset", "environment"} : appendMessage(k)
    BY <1>2, MessageKeeps
  <1>3. CASE appendState \/ freezeStep \/ issueHeaders
    BY <1>3, StateKeeps, FreezeKeeps, IssueKeeps
  <1>4. CASE compactionDone \/ consumeToolCall \/ toolBudgetExhausted
    BY <1>4, ProgressKeeps
  <1>5. CASE \E purpose \in {"agent", "maintenance"} : captureStep(purpose)
    BY <1>5, CaptureKeeps
  <1>6. CASE \E b \in BOOLEAN : operate(b) \/ runEnds(b)
    BY <1>6, OperateKeeps, EndKeeps
  <1>7. CASE closeRun \/ runDies
    BY <1>7, RunGone DEF closeRun, runDies
  <1>8. CASE UNCHANGED contextVars
    BY <1>8 DEF contextVars, ContextInv, ContextTypes, RequestsDistinct, StepsNumbered, WorldKept,
                KnownFollowed, Followed, Recorded, LatestIs, ResetLast, ResetAfter, CurrentStep
  <1>9. QED
    BY <1>1, <1>2, <1>3, <1>4, <1>5, <1>6, <1>7, <1>8 DEF ContextNext

\* Each provider request of a Run has an identity of its own, and a model whose
\* Sandbox was replaced or lost has been told so before it is sampled, wherever
\* a Worker died between two appends (world-state, cloud-step).
THEOREM ContextsAreSound == ContextSpec => []ContextSound
  <1>1. ASSUME ContextInv PROVE ContextSound
    <2>1. ContextTypeOK
      <3>1. agentRun.step \in 0..agentRun.sequence
        BY <1>1, RunFields DEF ContextInv, StepsNumbered
      <3>2. \A i \in DOMAIN journal : journal[i].kind \in {"state", "reset", "environment"}
        <4>1. \A i \in DOMAIN journal : journal[i] \in Entries
          BY <1>1, ElementOfSeq DEF ContextInv, ContextTypes
        <4>2. \A e \in Entries : e.kind \in {"state", "reset", "environment"}
          BY DEF Entries
        <4>3. QED
          BY <4>1, <4>2
      <3>3. QED
        BY <1>1, <3>1, <3>2, RunFields DEF ContextInv, ContextTypes, AgentRuns, ContextTypeOK
    <2>2. ModelTold
      BY <1>1, LatestFound DEF ModelTold, ContextInv, WorldKept, KnownFollowed, Followed,
         ContextTypes, CurrentStep, World
    <2>3. QED
      BY <1>1, <2>1, <2>2 DEF ContextInv, KnownFollowed, Recorded, ActiveOnRecord, ContextSound
  <1>2. QED
    BY <1>1, ContextStarts, ContextStep, PTL DEF ContextSpec

-----------------------------------------------------------------------------
(* The steer commands of a Worker: the inductive invariant.                *)

Calls ==
  [at : {"none", "prepare", "acknowledged", "commit", "ended"}, try : 0..MaxTries,
   ack : 0..MaxTries, outcome : {"none", "delivered", "failed", "ambiguous"}, unsure : BOOLEAN]

Preparations == [try : 0..MaxTries, committed : BOOLEAN]

Closes == [kind : {"close"}, retryable : BOOLEAN]

DownFrames ==
  [kind : {"steer", "commit", "release"}, c : Steers, try : 1..MaxTries] \cup Closes

UpFrames ==
  [kind : {"ack", "rejected", "completed", "failed"}, c : Steers, try : 1..MaxTries] \cup Closes

RouterTypes ==
  /\ exchange \in [Steers -> Calls]
  /\ waitsAck \in [Steers -> 0..MaxTries] /\ waitsResult \in [Steers -> 0..MaxTries]
  /\ prepared \in [Steers -> Preparations]
  /\ opened \in 1..MaxConnections /\ attached \in {0, opened}

WorkerTypes ==
  /\ entry \in [Steers -> Preparations] /\ heard \in [Steers -> Nat]
  /\ steer \in [Steers -> {"none", "prepared", "running", "completed", "failed"}]
  /\ link \in {"registered", "closed", "revoked"} /\ target \in {"running", "ended"}

FrameTypes == down \in Seq(DownFrames) /\ up \in Seq(UpFrames)

ExchangeTypes == RouterTypes /\ WorkerTypes /\ FrameTypes

\* A Worker without a connection holds no preparation and reads no frame.
LinkClosed == link # "registered" => down = <<>> /\ \A c \in Steers : entry[c] = NoEntry

BusyBound == Cardinality({c \in Steers : Busy(c)}) <= MaxPendingCommands

\* Where the router is with a call.
CallOK(c) ==
  /\ exchange[c].at = "prepare" <=> waitsAck[c] # 0
  /\ exchange[c].at = "commit" <=> waitsResult[c] # 0
  /\ waitsAck[c] # 0 \/ waitsResult[c] # 0 \/ prepared[c] # NoEntry => attached # 0
  /\ exchange[c].at \in {"prepare", "acknowledged", "commit"} => exchange[c].try # 0
  /\ exchange[c].at = "acknowledged" => exchange[c].ack # 0
  /\ exchange[c].outcome # "none" => exchange[c].at = "ended"

\* Where the Worker is with a command.
WorkOK(c) ==
  /\ heard[c] = IF steer[c] = "completed" THEN 1 ELSE 0
  /\ entry[c].try # 0 => steer[c] # "none"
  /\ entry[c].committed => entry[c].try # 0 /\ (steer[c] = "prepared" => target = "ended")
  /\ steer[c] = "prepared" /\ target = "running" => entry[c].try # 0

\* The text was given to Pi, or a commit is on its way that will have it given.
Started(c) == steer[c] \in {"running", "completed"}

MayStart(c) ==
  /\ target = "running" /\ steer[c] \in {"none", "prepared"}
  /\ InTransit(down, {"commit"}, c)

\* What has started, or may, is known to whoever called: the call waits for its
\* result, or reported it, or was ambiguous.  A result on its way is the final one.
ReportOK(c) ==
  /\ Started(c) \/ MayStart(c) =>
       exchange[c].unsure \/ exchange[c].at = "commit" \/ exchange[c].outcome = "delivered"
  /\ exchange[c].outcome = "delivered" => steer[c] = "completed"
  /\ InTransit(up, {"completed"}, c) => steer[c] = "completed"
  /\ InTransit(up, {"failed"}, c) =>
       steer[c] = "failed" \/ (target = "ended" /\ steer[c] \in {"none", "prepared"})

\* A preparation of the Worker that is not committed is followed by somebody.
PreparationKept(c) ==
  entry[c].try # 0 /\ ~entry[c].committed =>
    \/ InTransit(up, {"ack"}, c)
    \/ InTransit(down, {"commit", "release"}, c)
    \/ attached = opened /\ prepared[c] # NoEntry
    \/ attached # opened

SteerOK(c) == CallOK(c) /\ WorkOK(c) /\ ReportOK(c) /\ PreparationKept(c)

SteersInv == ExchangeTypes /\ LinkClosed /\ BusyBound /\ \A c \in Steers : SteerOK(c)

-----------------------------------------------------------------------------
(* What is on its way.                                                     *)

\* A frame that is appended is on its way, and so are the others still.
LEMMA TransitAppend ==
  ASSUME NEW S, NEW q \in Seq(S), NEW m \in S, NEW kinds, NEW c
  PROVE  /\ Append(q, m) \in Seq(S)
         /\ InTransit(Append(q, m), kinds, c) <=>
              InTransit(q, kinds, c) \/ (m.kind \in kinds /\ m.c = c)
  BY AppendProperties DEF InTransit

\* The first frame of a queue is handled, the others stay on their way.
LEMMA TransitTail ==
  ASSUME NEW S, NEW q \in Seq(S), q # <<>>, NEW kinds, NEW c
  PROVE  /\ Head(q) \in S /\ Tail(q) \in Seq(S)
         /\ InTransit(Tail(q), kinds, c) => InTransit(q, kinds, c)
         /\ InTransit(q, kinds, c) =>
              InTransit(Tail(q), kinds, c) \/ (Head(q).kind \in kinds /\ Head(q).c = c)
  <1>1. PICK r \in Seq(S) : r = Tail(q)
    BY HeadTailProperties
  <1>2. /\ Head(q) \in S /\ Head(q) = q[1]
        /\ Len(q) \in Nat /\ Len(q) >= 1 /\ Len(r) = Len(q) - 1
        /\ DOMAIN q = 1 .. Len(q) /\ DOMAIN r = 1 .. Len(q) - 1
        /\ \A i \in 1 .. Len(r) : r[i] = q[i + 1]
    BY <1>1, HeadTailProperties
  <1>3. \A i \in DOMAIN r : i + 1 \in DOMAIN q /\ r[i] = q[i + 1]
    BY <1>2
  <1>4. \A i \in DOMAIN q : i = 1 \/ (i - 1 \in DOMAIN r /\ r[i - 1] = q[i])
    BY <1>2
  <1>5. InTransit(r, kinds, c) => InTransit(q, kinds, c)
    BY <1>3 DEF InTransit
  <1>6. InTransit(q, kinds, c) =>
          InTransit(r, kinds, c) \/ (q[1].kind \in kinds /\ q[1].c = c)
    BY <1>4 DEF InTransit
  <1>7. QED
    BY <1>1, <1>2, <1>5, <1>6

\* What is left of a queue that is cut was in it.
LEMMA TransitCut ==
  ASSUME NEW S, NEW q \in Seq(S), NEW n \in 0..Len(q), NEW kinds, NEW c
  PROVE  /\ SubSeq(q, 1, n) \in Seq(S)
         /\ InTransit(SubSeq(q, 1, n), kinds, c) => InTransit(q, kinds, c)
  <1>1. PICK r \in Seq(S) : r = SubSeq(q, 1, n)
    <2>1. SubSeq(q, 1, n) \in Seq(S)
      BY SubSeqProperties
    <2>2. QED
      BY <2>1
  <1>2. /\ DOMAIN r = 1 .. n /\ Len(q) \in Nat /\ DOMAIN q = 1 .. Len(q)
        /\ \A i \in 1 .. n : r[i] = q[i]
    BY <1>1
  <1>3. InTransit(r, kinds, c) => InTransit(q, kinds, c)
    BY <1>2 DEF InTransit
  <1>4. QED
    BY <1>1, <1>3

\* Nothing is on its way in an empty queue.
LEMMA NoneInTransit ==
  ASSUME NEW kinds, NEW c
  PROVE  ~InTransit(<<>>, kinds, c)
  BY DEF InTransit

\* A frame to the Worker is on its way or lost.
LEMMA SentDown ==
  ASSUME down \in Seq(DownFrames), NEW m \in DownFrames, ToWorker(m), NEW kinds, NEW c
  PROVE  /\ down' \in Seq(DownFrames)
         /\ InTransit(down', kinds, c) => InTransit(down, kinds, c) \/ (m.kind \in kinds /\ m.c = c)
         /\ InTransit(down, kinds, c) => InTransit(down', kinds, c)
         /\ Live /\ m.kind \in kinds /\ m.c = c => InTransit(down', kinds, c)
         /\ link # "registered" => down' = down
  BY TransitAppend DEF ToWorker, Live

\* A frame to the Control Plane is on its way or lost.
LEMMA SentUp ==
  ASSUME up \in Seq(UpFrames), NEW m \in UpFrames, ToControl(m), NEW kinds, NEW c
  PROVE  /\ up' \in Seq(UpFrames)
         /\ InTransit(up', kinds, c) => InTransit(up, kinds, c) \/ (m.kind \in kinds /\ m.c = c)
         /\ InTransit(up, kinds, c) => InTransit(up', kinds, c)
         /\ Live /\ m.kind \in kinds /\ m.c = c => InTransit(up', kinds, c)
  BY TransitAppend DEF ToControl

\* The fields of a frame.
LEMMA FrameFields ==
  /\ \A kind \in {"steer", "commit", "release"}, c \in Steers, n \in 1..MaxTries :
       /\ Frame(kind, c, n) \in DownFrames
       /\ Frame(kind, c, n).kind = kind /\ Frame(kind, c, n).c = c
  /\ \A kind \in {"ack", "rejected", "completed", "failed"}, c \in Steers, n \in 1..MaxTries :
       /\ Frame(kind, c, n) \in UpFrames
       /\ Frame(kind, c, n).kind = kind /\ Frame(kind, c, n).c = c
  /\ \A r \in BOOLEAN : Close(r) \in DownFrames /\ Close(r) \in UpFrames /\ Close(r).kind = "close"
  /\ \A m \in DownFrames :
       \/ m.kind \in {"steer", "commit", "release"} /\ m.c \in Steers /\ m.try \in 1..MaxTries
       \/ m.kind = "close" /\ m.retryable \in BOOLEAN
  /\ \A m \in UpFrames :
       \/ m.kind \in {"ack", "rejected", "completed", "failed"} /\ m.c \in Steers
          /\ m.try \in 1..MaxTries
       \/ m.kind = "close"
  BY DEF Frame, Close, DownFrames, UpFrames, Closes

\* The fields of a call that ends.
LEMMA EndedCall ==
  ASSUME NEW x \in Calls, NEW outcome \in {"delivered", "failed", "ambiguous"}
  PROVE  /\ Ends(x, outcome) \in Calls
         /\ Ends(x, outcome).at = "ended" /\ Ends(x, outcome).outcome = outcome
         /\ Ends(x, outcome).unsure = (x.unsure \/ outcome = "ambiguous")
  BY DEF Ends, Calls
-----------------------------------------------------------------------------
(* What a step owes to the commands.                                       *)

\* A step of the router for one call.
RouterMoves(c) ==
  /\ UNCHANGED <<entry, steer, target, heard, link, opened, attached>>
  /\ \A d \in Steers \ {c} :
       /\ exchange'[d] = exchange[d] /\ prepared'[d] = prepared[d]
       /\ waitsAck'[d] = waitsAck[d] /\ waitsResult'[d] = waitsResult[d]
  /\ \A d \in Steers :
       /\ InTransit(down', {"commit"}, d) =>
            InTransit(down, {"commit"}, d) \/ (d = c /\ exchange'[c].at = "commit")
       /\ InTransit(down, {"commit", "release"}, d) => InTransit(down', {"commit", "release"}, d)
       /\ InTransit(up, {"ack"}, d) =>
            \/ InTransit(up', {"ack"}, d)
            \/ d = c /\ attached = opened /\ prepared'[c] # NoEntry
       /\ InTransit(up', {"completed"}, d) => InTransit(up, {"completed"}, d)
       /\ InTransit(up', {"failed"}, d) => InTransit(up, {"failed"}, d)

\* What the call reports after the step is what it could report before, or the
\* result of the command.
Reports(c) ==
  /\ exchange[c].unsure \/ exchange[c].at = "commit" \/ exchange[c].outcome = "delivered" =>
       \/ exchange'[c].unsure \/ exchange'[c].at = "commit" \/ exchange'[c].outcome = "delivered"
       \/ ~(Started(c) \/ MayStart(c))
  /\ exchange'[c].outcome = "delivered" => steer[c] = "completed"

\* A preparation that the router gives up is one the Worker is told of.
HandsOver(c) ==
  attached = opened /\ prepared[c] # NoEntry =>
    \/ prepared'[c] # NoEntry \/ entry[c] = NoEntry
    \/ InTransit(down', {"commit", "release"}, c)

\* A step that moves only the router's side of one call keeps every other call sound.
LEMMA RouterStep ==
  ASSUME SteersInv, NEW c \in Steers, RouterMoves(c), CallOK(c)', Reports(c), HandsOver(c)
  PROVE  \A d \in Steers : SteerOK(d)'
  <1> TAKE d \in Steers
  <1>1. SteerOK(d) /\ WorkOK(d)'
    BY DEF SteersInv, SteerOK, WorkOK, RouterMoves
  <1>2. CallOK(d)'
    BY <1>1 DEF SteerOK, CallOK, RouterMoves
  <1>3. Started(d)' = Started(d)
    BY DEF RouterMoves, Started
  <1>4. MayStart(d)' => MayStart(d) \/ (d = c /\ exchange'[c].at = "commit")
    BY DEF RouterMoves, MayStart
  <1>5. ReportOK(d)'
    BY <1>1, <1>3, <1>4 DEF SteerOK, ReportOK, Reports, RouterMoves
  <1>6. PreparationKept(d)'
    BY <1>1 DEF NoEntry, SteerOK, PreparationKept, HandsOver, RouterMoves
  <1>7. QED
    BY <1>1, <1>2, <1>5, <1>6 DEF SteerOK

\* Every call that waits is rejected, before its commit as failed, after it as
\* ambiguous.
LEMMA DetachedCalls ==
  ASSUME SteersInv, Detached(exchange)
  PROVE  /\ exchange' \in [Steers -> Calls] /\ prepared' \in [Steers -> Preparations]
         /\ waitsAck' \in [Steers -> 0..MaxTries] /\ waitsResult' \in [Steers -> 0..MaxTries]
         /\ \A c \in Steers :
              /\ waitsAck'[c] = 0 /\ waitsResult'[c] = 0 /\ prepared'[c] = NoEntry
              /\ exchange'[c].at \notin {"prepare", "commit"}
              /\ exchange[c].unsure \/ exchange[c].at = "commit" => exchange'[c].unsure
              /\ exchange'[c].outcome = "delivered" <=> exchange[c].outcome = "delivered"
              /\ exchange'[c].outcome # "none" => exchange'[c].at = "ended"
              /\ exchange'[c].at = "acknowledged" => exchange'[c] = exchange[c]
  <1>1. /\ waitsAck' = [c \in Steers |-> 0] /\ waitsResult' = [c \in Steers |-> 0]
        /\ prepared' = [c \in Steers |-> NoEntry] /\ exchange' = detach(exchange)
    BY DEF Detached, None
  <1>2. 0 \in 0..MaxTries /\ NoEntry \in Preparations
    BY ExchangeBounds DEF NoEntry, Preparations
  <1>3. ASSUME NEW c \in Steers
        PROVE  /\ exchange'[c] \in Calls
               /\ exchange'[c].at \notin {"prepare", "commit"}
               /\ exchange[c].unsure \/ exchange[c].at = "commit" => exchange'[c].unsure
               /\ exchange'[c].outcome = "delivered" <=> exchange[c].outcome = "delivered"
               /\ exchange'[c].outcome # "none" => exchange'[c].at = "ended"
               /\ exchange'[c].at = "acknowledged" => exchange'[c] = exchange[c]
    <2>1. PICK x \in Calls : x = exchange[c]
      BY <1>3 DEF SteersInv, ExchangeTypes, RouterTypes
    <2>2. CallOK(c)
      BY <1>3 DEF SteersInv, SteerOK
    <2>3. exchange'[c] = IF waitsAck[c] # 0 THEN Ends(x, "failed")
                         ELSE IF waitsResult[c] # 0 THEN Ends(x, "ambiguous") ELSE x
      BY <1>1, <2>1 DEF detach
    <2>4. CASE waitsAck[c] # 0
      <3>1. exchange'[c] = Ends(x, "failed")
        BY <2>3, <2>4
      <3>2. /\ exchange'[c] \in Calls /\ exchange'[c].at = "ended"
            /\ exchange'[c].outcome = "failed"
            /\ exchange'[c].unsure = (exchange[c].unsure \/ "failed" = "ambiguous")
        BY <2>1, <3>1, EndedCall
      <3>3. exchange[c].outcome = "none"
        BY <2>2, <2>4 DEF CallOK
      <3>4. exchange[c].at = "prepare"
        BY <2>2, <2>4 DEF CallOK
      <3>5. QED
        BY <3>2, <3>3, <3>4
    <2>5. CASE waitsAck[c] = 0 /\ waitsResult[c] # 0
      <3>1. exchange'[c] = Ends(x, "ambiguous")
        BY <2>3, <2>5
      <3>2. /\ exchange'[c] \in Calls /\ exchange'[c].at = "ended"
            /\ exchange'[c].outcome = "ambiguous"
            /\ exchange'[c].unsure = (exchange[c].unsure \/ "ambiguous" = "ambiguous")
        BY <2>1, <3>1, EndedCall
      <3>3. exchange[c].outcome = "none"
        BY <2>2, <2>5 DEF CallOK
      <3>4. exchange[c].at = "commit"
        BY <2>2, <2>5 DEF CallOK
      <3>5. QED
        BY <3>2, <3>3, <3>4
    <2>6. CASE waitsAck[c] = 0 /\ waitsResult[c] = 0
      BY <2>1, <2>2, <2>3, <2>6 DEF CallOK
    <2>7. QED
      BY <2>4, <2>5, <2>6
  <1>4. exchange' \in [Steers -> Calls]
    BY <1>1, <1>3 DEF detach
  <1>5. QED
    BY <1>1, <1>2, <1>3, <1>4

\* The router lets go of a connection.
LEMMA DetachStep ==
  ASSUME SteersInv, Detached(exchange), UNCHANGED <<entry, steer, target, heard>>,
         attached' # opened' \/ \A d \in Steers : entry[d] = NoEntry,
         \A d \in Steers :
           /\ InTransit(down', {"commit"}, d) => InTransit(down, {"commit"}, d)
           /\ InTransit(up', {"completed"}, d) => InTransit(up, {"completed"}, d)
           /\ InTransit(up', {"failed"}, d) => InTransit(up, {"failed"}, d)
  PROVE  \A d \in Steers : SteerOK(d)'
  <1> TAKE d \in Steers
  <1>1. /\ waitsAck'[d] = 0 /\ waitsResult'[d] = 0 /\ prepared'[d] = NoEntry
        /\ exchange'[d].at \notin {"prepare", "commit"}
        /\ exchange[d].unsure \/ exchange[d].at = "commit" => exchange'[d].unsure
        /\ exchange'[d].outcome = "delivered" <=> exchange[d].outcome = "delivered"
        /\ exchange'[d].outcome # "none" => exchange'[d].at = "ended"
        /\ exchange'[d].at = "acknowledged" => exchange'[d] = exchange[d]
    BY DetachedCalls
  <1>2. CallOK(d) /\ WorkOK(d) /\ ReportOK(d)
    BY DEF SteersInv, SteerOK
  <1>3. CallOK(d)'
    BY <1>1, <1>2 DEF CallOK
  <1>4. WorkOK(d)'
    BY <1>2 DEF WorkOK
  <1>5. Started(d)' \/ MayStart(d)' => Started(d) \/ MayStart(d)
    BY DEF Started, MayStart
  <1>6. ReportOK(d)'
    BY <1>1, <1>2, <1>5 DEF ReportOK
  <1>7. PreparationKept(d)'
    BY DEF PreparationKept, NoEntry
  <1>8. QED
    BY <1>3, <1>4, <1>6, <1>7 DEF SteerOK

\* A step of the Worker for one command.
WorkerMoves(c) ==
  /\ UNCHANGED <<exchange, attached, waitsAck, prepared, waitsResult, opened, target>>
  /\ \A d \in Steers \ {c} :
       entry'[d] = entry[d] /\ steer'[d] = steer[d] /\ heard'[d] = heard[d]
  /\ \A d \in Steers :
       /\ InTransit(down', {"commit"}, d) => InTransit(down, {"commit"}, d)
       /\ InTransit(down, {"commit", "release"}, d) =>
            \/ InTransit(down', {"commit", "release"}, d)
            \/ d = c /\ (entry'[c].try = 0 \/ entry'[c].committed)
       /\ InTransit(up, {"ack"}, d) => InTransit(up', {"ack"}, d)
       /\ InTransit(up', {"completed"}, d) =>
            InTransit(up, {"completed"}, d) \/ (d = c /\ steer'[c] = "completed")
       /\ InTransit(up', {"failed"}, d) =>
            \/ InTransit(up, {"failed"}, d)
            \/ /\ d = c
               /\ steer'[c] = "failed" \/ (target = "ended" /\ steer'[c] \in {"none", "prepared"})

\* A command goes on, and starts only by its commit.
GoesOn(c) ==
  /\ Started(c)' \/ MayStart(c)' => Started(c) \/ MayStart(c)
  /\ steer[c] = "completed" => steer'[c] = "completed"
  /\ steer[c] = "failed" => steer'[c] = "failed"
  /\ target = "ended" /\ steer[c] \in {"none", "prepared"} => steer'[c] \in {"none", "prepared"}

\* A step that moves only the Worker's side of one command keeps every other command sound.
LEMMA WorkerStep ==
  ASSUME SteersInv, NEW c \in Steers, WorkerMoves(c), GoesOn(c), WorkOK(c)', PreparationKept(c)'
  PROVE  \A d \in Steers : SteerOK(d)'
  <1> TAKE d \in Steers
  <1>1. SteerOK(d)
    BY DEF SteersInv
  <1>2. CallOK(d)'
    BY <1>1 DEF SteerOK, CallOK, WorkerMoves
  <1>3. WorkOK(d)'
    BY <1>1 DEF SteerOK, WorkOK, WorkerMoves
  <1>4. ReportOK(d)'
    BY <1>1 DEF GoesOn, WorkerMoves, Started, MayStart, SteerOK, ReportOK
  <1>5. PreparationKept(d)'
    BY <1>1 DEF SteerOK, PreparationKept, WorkerMoves
  <1>6. QED
    BY <1>2, <1>3, <1>4, <1>5 DEF SteerOK

\* The Worker's connection ends: no preparation is left, and nothing starts.
LEMMA LinkEndsStep ==
  ASSUME SteersInv, NEW retryable \in BOOLEAN, LinkEnds(retryable),
         UNCHANGED <<exchange, attached, waitsAck, prepared, waitsResult, opened, heard>>,
         \A d \in Steers :
           /\ InTransit(up', {"completed"}, d) => InTransit(up, {"completed"}, d)
           /\ InTransit(up', {"failed"}, d) => InTransit(up, {"failed"}, d)
  PROVE  \A d \in Steers : SteerOK(d)'
  <1> TAKE d \in Steers
  <1>1. SteerOK(d)
    BY DEF SteersInv
  <1>2. CallOK(d)'
    BY <1>1 DEF SteerOK, CallOK
  <1>3. entry'[d] = NoEntry /\ down' = <<>>
    BY DEF LinkEnds
  <1>4. /\ steer'[d] = steer[d] \/ (steer[d] = "prepared" /\ steer'[d] = "none")
        /\ steer'[d] = "prepared" => ~(steer[d] = "prepared" /\ target = "running" /\ retryable) /\ retryable
    BY <1>1 DEF released, LinkEnds, SteerOK, WorkOK
  <1>5. target' = target \/ target' = "ended"
    BY DEF LinkEnds
  <1>6. retryable => target' = target
    BY DEF LinkEnds
  <1>7. WorkOK(d)'
    BY <1>1, <1>3, <1>4, <1>5, <1>6 DEF SteerOK, WorkOK, NoEntry
  <1>8. ~MayStart(d)'
    BY <1>3, NoneInTransit DEF MayStart
  <1>9. Started(d)' = Started(d)
    BY <1>4 DEF Started
  <1>10. ReportOK(d)'
    BY <1>1, <1>4, <1>5, <1>8, <1>9 DEF SteerOK, ReportOK
  <1>11. PreparationKept(d)'
    BY <1>3 DEF PreparationKept, NoEntry
  <1>12. QED
    BY <1>2, <1>7, <1>10, <1>11 DEF SteerOK
\* A connection that begins no exchange stays within its bound.
LEMMA BusyShrinks ==
  ASSUME SteersInv, \A d \in Steers : Busy(d)' => Busy(d)
  PROVE  BusyBound'
  BY ExchangeBounds, FS_Subset, FS_CardinalityType DEF SteersInv, BusyBound

\* The exchanges a connection counts are no fewer than the commands they are for.
LEMMA BusyCounted ==
  ASSUME SteersInv, NEW c \in Steers, pendingCount < MaxPendingCommands,
         \A d \in Steers \ {c} : Busy(d)' => Busy(d)
  PROVE  BusyBound'
  <1> DEFINE acks == {d \in Steers : waitsAck[d] # 0}
             held == {d \in Steers : prepared[d] # NoEntry}
             results == {d \in Steers : waitsResult[d] # 0}
             before == {d \in Steers : Busy(d)}
             after == {d \in Steers : Busy(d)'}
  <1>1. IsFiniteSet(Steers)
    BY ExchangeBounds
  <1>2. IsFiniteSet(acks) /\ IsFiniteSet(held) /\ IsFiniteSet(results) /\ IsFiniteSet(before)
    BY <1>1, FS_Subset
  <1>3. before = (acks \cup held) \cup results
    BY DEF Busy
  <1>4. /\ IsFiniteSet(acks \cup held)
        /\ Cardinality(acks \cup held) <= Cardinality(acks) + Cardinality(held)
    <2>1. /\ IsFiniteSet(acks \cup held) /\ IsFiniteSet(acks \cap held)
          /\ Cardinality(acks \cup held) =
               Cardinality(acks) + Cardinality(held) - Cardinality(acks \cap held)
      BY <1>2, FS_Union, FS_Intersection
    <2>2. /\ Cardinality(acks) \in Nat /\ Cardinality(held) \in Nat
          /\ Cardinality(acks \cap held) \in Nat
      BY <1>2, <2>1, FS_CardinalityType
    <2>3. QED
      BY <2>1, <2>2
  <1>5. Cardinality(before) <= Cardinality(acks \cup held) + Cardinality(results)
    <2>1. /\ IsFiniteSet((acks \cup held) \cap results)
          /\ Cardinality((acks \cup held) \cup results) =
               Cardinality(acks \cup held) + Cardinality(results)
               - Cardinality((acks \cup held) \cap results)
      BY <1>2, <1>4, FS_Union, FS_Intersection
    <2>2. /\ Cardinality(acks \cup held) \in Nat /\ Cardinality(results) \in Nat
          /\ Cardinality((acks \cup held) \cap results) \in Nat
      BY <1>2, <1>4, <2>1, FS_CardinalityType
    <2>3. PICK a \in Nat, b \in Nat, n \in Nat :
            /\ a = Cardinality(acks \cup held) /\ b = Cardinality(results)
            /\ n = Cardinality((acks \cup held) \cap results)
      BY <2>2
    <2>4. Cardinality(before) = a + b - n
      BY <1>3, <2>1, <2>3
    <2>5. Cardinality(before) <= a + b
      BY <2>4
    <2>6. QED
      BY <2>3, <2>5
  <1>6. /\ Cardinality(acks) \in Nat /\ Cardinality(held) \in Nat /\ Cardinality(results) \in Nat
        /\ Cardinality(acks \cup held) \in Nat /\ Cardinality(before) \in Nat
        /\ MaxPendingCommands \in Nat
    BY <1>2, <1>4, FS_CardinalityType, ExchangeBounds
  <1>7. pendingCount = Cardinality(acks) + Cardinality(held) + Cardinality(results)
    BY DEF pendingCount
  <1>8. Cardinality(before) + 1 <= MaxPendingCommands
    BY <1>4, <1>5, <1>6, <1>7
  <1>9. /\ IsFiniteSet(before \cup {c})
        /\ Cardinality(before \cup {c}) <= Cardinality(before) + 1
    <2>1. /\ IsFiniteSet(before \cup {c})
          /\ Cardinality(before \cup {c}) =
               IF c \in before THEN Cardinality(before) ELSE Cardinality(before) + 1
      BY <1>2, FS_AddElement
    <2>2. QED
      BY <1>6, <2>1
  <1>10. after \subseteq before \cup {c}
    OBVIOUS
  <1>11. /\ Cardinality(after) <= Cardinality(before \cup {c})
         /\ Cardinality(after) \in Nat /\ Cardinality(before \cup {c}) \in Nat
    BY <1>9, <1>10, FS_Subset, FS_CardinalityType
  <1>12. Cardinality(after) <= MaxPendingCommands
    BY <1>6, <1>8, <1>9, <1>11
  <1>13. QED
    BY <1>12 DEF BusyBound

-----------------------------------------------------------------------------
(* The steps of the router.                                                *)

\* The fields of a call that begins.
LEMMA NewCall ==
  ASSUME NEW x \in Calls, x.try < MaxTries,
         NEW y, y = [x EXCEPT !.at = "prepare", !.try = x.try + 1, !.ack = 0, !.outcome = "none"]
  PROVE  /\ y \in Calls /\ y.at = "prepare" /\ y.outcome = "none" /\ y.unsure = x.unsure
         /\ y.try = x.try + 1 /\ y.try \in 1..MaxTries /\ y.try # 0
  <1>1. x.try \in 0..MaxTries /\ MaxTries \in Nat
    BY ExchangeBounds DEF Calls
  <1>2. PICK n \in 0..MaxTries : n = x.try + 1
    BY <1>1
  <1>3. n \in 1..MaxTries /\ n # 0
    BY <1>1, <1>2
  <1>4. 0 \in 0..MaxTries
    BY <1>1
  <1>5. y = [x EXCEPT !.at = "prepare", !.try = n, !.ack = 0, !.outcome = "none"]
    BY <1>2
  <1>6. y \in Calls /\ y.at = "prepare" /\ y.outcome = "none" /\ y.unsure = x.unsure /\ y.try = n
    BY <1>4, <1>5 DEF Calls
  <1>7. QED
    BY <1>2, <1>3, <1>6

\* A step of the router keeps the types, if its call and its waiters have theirs.
LEMMA RouterTyped ==
  ASSUME SteersInv, NEW c \in Steers, NEW y \in Calls, exchange' = [exchange EXCEPT ![c] = y],
         waitsAck' \in [Steers -> 0..MaxTries], waitsResult' \in [Steers -> 0..MaxTries],
         prepared' \in [Steers -> Preparations], down' \in Seq(DownFrames), up' \in Seq(UpFrames),
         UNCHANGED <<entry, steer, target, heard, link, opened, attached>>,
         link # "registered" => down' = down
  PROVE  /\ ExchangeTypes' /\ LinkClosed' /\ exchange'[c] = y
         /\ \A d \in Steers \ {c} : exchange'[d] = exchange[d]
  BY DEF SteersInv, ExchangeTypes, RouterTypes, WorkerTypes, FrameTypes, LinkClosed

\* A call of steer is a new try, sent while fewer than MaxPendingCommands commands wait.
LEMMA PrepareKeeps ==
  ASSUME SteersInv, NEW c \in Steers, prepare(c)
  PROVE  SteersInv'
  <1>1. PICK x \in Calls : x = exchange[c]
    BY DEF SteersInv, ExchangeTypes, RouterTypes
  <1>2. PICK y : y = [x EXCEPT !.at = "prepare", !.try = x.try + 1, !.ack = 0, !.outcome = "none"]
    OBVIOUS
  <1>3. /\ x.at \in {"none", "ended"} /\ x.try < MaxTries
        /\ x.outcome \in {"none", "ambiguous", "failed"}
    BY <1>1 DEF prepare, MayCall
  <1>4. /\ y \in Calls /\ y.at = "prepare" /\ y.outcome = "none" /\ y.unsure = x.unsure
        /\ y.try \in 1..MaxTries /\ y.try # 0
    BY <1>2, <1>3, NewCall
  <1>5. /\ waitsAck \in [Steers -> 0..MaxTries] /\ waitsResult \in [Steers -> 0..MaxTries]
        /\ prepared \in [Steers -> Preparations] /\ down \in Seq(DownFrames) /\ up \in Seq(UpFrames)
    BY DEF SteersInv, ExchangeTypes, RouterTypes, FrameTypes
  <1>6. /\ UNCHANGED <<entry, steer, target, heard, link, opened, attached>>
        /\ UNCHANGED <<prepared, waitsResult, up>>
    BY DEF prepare, workerVars
  <1>7. CallOK(c)
    BY DEF SteersInv, SteerOK
  <1>8. CASE /\ exchange' = [exchange EXCEPT ![c] = Ends(y, "failed")]
             /\ UNCHANGED <<waitsAck, down>>
    <2>0. /\ Ends(y, "failed") \in Calls /\ Ends(y, "failed").at = "ended"
          /\ Ends(y, "failed").outcome = "failed"
          /\ Ends(y, "failed").unsure = (y.unsure \/ "failed" = "ambiguous")
      BY <1>4, EndedCall
    <2>1. PICK z \in Calls : z = Ends(y, "failed") /\ z.at = "ended" /\ z.outcome = "failed"
                             /\ z.unsure = (x.unsure \/ FALSE)
      BY <1>4, <2>0
    <2>2. /\ ExchangeTypes' /\ LinkClosed' /\ exchange'[c] = z
          /\ \A d \in Steers \ {c} : exchange'[d] = exchange[d]
      BY <1>5, <1>6, <1>8, <2>1, RouterTyped
    <2>3. BusyBound'
      BY <1>6, <1>8, BusyShrinks DEF Busy
    <2>4. RouterMoves(c)
      BY <1>6, <1>8, <2>2 DEF RouterMoves
    <2>5. CallOK(c)'
      BY <1>1, <1>3, <1>6, <1>7, <1>8, <2>1, <2>2 DEF CallOK
    <2>6. Reports(c) /\ HandsOver(c)
      BY <1>1, <1>3, <1>6, <2>1, <2>2 DEF Reports, HandsOver
    <2>7. QED
      BY <2>2, <2>3, <2>4, <2>5, <2>6, RouterStep DEF SteersInv
  <1>9. CASE /\ attached # 0 /\ ~Busy(c) /\ pendingCount < MaxPendingCommands
             /\ exchange' = [exchange EXCEPT ![c] = y]
             /\ waitsAck' = [waitsAck EXCEPT ![c] = y.try]
             /\ ToWorker(Frame("steer", c, y.try))
    <2>1. PICK m \in DownFrames : m = Frame("steer", c, y.try) /\ m.kind = "steer" /\ m.c = c
      BY <1>4, FrameFields
    <2>2. /\ down' \in Seq(DownFrames) /\ (link # "registered" => down' = down)
          /\ \A d \in Steers :
               /\ InTransit(down', {"commit"}, d) => InTransit(down, {"commit"}, d)
               /\ InTransit(down, {"commit", "release"}, d) => InTransit(down', {"commit", "release"}, d)
      BY <1>5, <1>9, <2>1, SentDown
    <2>3. PICK n \in 0..MaxTries : n = y.try /\ n # 0
      BY <1>4
    <2>4. /\ waitsAck' \in [Steers -> 0..MaxTries] /\ waitsAck'[c] = n
          /\ \A d \in Steers \ {c} : waitsAck'[d] = waitsAck[d]
      BY <1>5, <1>9, <2>3
    <2>5. /\ ExchangeTypes' /\ LinkClosed' /\ exchange'[c] = y
          /\ \A d \in Steers \ {c} : exchange'[d] = exchange[d]
      BY <1>4, <1>5, <1>6, <1>9, <2>2, <2>4, RouterTyped
    <2>6. BusyBound'
      BY <1>6, <1>9, <2>4, BusyCounted DEF Busy
    <2>7. RouterMoves(c)
      BY <1>6, <2>2, <2>4, <2>5 DEF RouterMoves
    <2>8. CallOK(c)'
      BY <1>1, <1>3, <1>4, <1>6, <1>7, <1>9, <2>3, <2>4, <2>5 DEF CallOK
    <2>9. Reports(c) /\ HandsOver(c)
      BY <1>1, <1>3, <1>4, <1>6, <2>5 DEF Reports, HandsOver
    <2>10. QED
      BY <2>5, <2>6, <2>7, <2>8, <2>9, RouterStep DEF SteersInv
  <1>10. QED
    BY <1>1, <1>2, <1>8, <1>9, <1>4 DEF prepare

\* A call that waits and gives up.
LEMMA TimeoutKeeps ==
  ASSUME SteersInv, NEW c \in Steers, ackTimesOut(c) \/ resultTimesOut(c)
  PROVE  SteersInv'
  <1>1. PICK x \in Calls : x = exchange[c]
    BY DEF SteersInv, ExchangeTypes, RouterTypes
  <1>2. /\ waitsAck \in [Steers -> 0..MaxTries] /\ waitsResult \in [Steers -> 0..MaxTries]
        /\ prepared \in [Steers -> Preparations] /\ down \in Seq(DownFrames) /\ up \in Seq(UpFrames)
        /\ 0 \in 0..MaxTries
    BY ExchangeBounds DEF SteersInv, ExchangeTypes, RouterTypes, FrameTypes
  <1>3. /\ UNCHANGED <<entry, steer, target, heard, link, opened, attached>>
        /\ UNCHANGED <<prepared, up, down>>
    BY DEF ackTimesOut, resultTimesOut, workerVars
  <1>4. CallOK(c)
    BY DEF SteersInv, SteerOK
  <1>5. PICK outcome \in {"failed", "ambiguous"} :
          /\ exchange' = [exchange EXCEPT ![c] = Ends(x, outcome)]
          /\ x.at = "commit" => outcome = "ambiguous"
          /\ x.outcome = "none"
          /\ \/ /\ waitsAck' = [waitsAck EXCEPT ![c] = 0] /\ waitsResult' = waitsResult
                /\ waitsAck[c] # 0
             \/ /\ waitsResult' = [waitsResult EXCEPT ![c] = 0] /\ waitsAck' = waitsAck
                /\ waitsResult[c] # 0
    BY <1>1, <1>4 DEF ackTimesOut, CallOK, resultTimesOut
  <1>6. /\ waitsAck' \in [Steers -> 0..MaxTries] /\ waitsResult' \in [Steers -> 0..MaxTries]
        /\ waitsAck'[c] = 0 /\ waitsResult'[c] = 0
        /\ \A d \in Steers \ {c} : waitsAck'[d] = waitsAck[d] /\ waitsResult'[d] = waitsResult[d]
    BY <1>2, <1>4, <1>5 DEF CallOK
  <1>7. PICK z \in Calls : z = Ends(x, outcome) /\ z.at = "ended" /\ z.outcome = outcome
                           /\ z.unsure = (x.unsure \/ outcome = "ambiguous")
    BY <1>5, EndedCall
  <1>8. /\ ExchangeTypes' /\ LinkClosed' /\ exchange'[c] = z
        /\ \A d \in Steers \ {c} : exchange'[d] = exchange[d]
    BY <1>2, <1>3, <1>5, <1>6, <1>7, RouterTyped
  <1>9. BusyBound'
    BY <1>3, <1>6, BusyShrinks DEF Busy
  <1>10. RouterMoves(c)
    BY <1>3, <1>6, <1>8 DEF RouterMoves
  <1>11. CallOK(c)'
    BY <1>3, <1>4, <1>6, <1>7, <1>8 DEF CallOK
  <1>12. Reports(c) /\ HandsOver(c)
    BY <1>1, <1>3, <1>5, <1>7, <1>8 DEF Reports, HandsOver
  <1>13. QED
    BY <1>8, <1>9, <1>10, <1>11, <1>12, RouterStep DEF SteersInv
\* The exchange is committed, or its preparation is gone.
LEMMA CommitKeeps ==
  ASSUME SteersInv, NEW c \in Steers, commit(c)
  PROVE  SteersInv'
  <1>1. PICK x \in Calls : x = exchange[c]
    BY DEF SteersInv, ExchangeTypes, RouterTypes
  <1>2. /\ waitsAck \in [Steers -> 0..MaxTries] /\ waitsResult \in [Steers -> 0..MaxTries]
        /\ prepared \in [Steers -> Preparations] /\ down \in Seq(DownFrames) /\ up \in Seq(UpFrames)
        /\ exchange \in [Steers -> Calls] /\ attached \in {0, opened}
    BY DEF SteersInv, ExchangeTypes, RouterTypes, FrameTypes
  <1>3. /\ UNCHANGED <<entry, steer, target, heard, link, opened, attached>>
        /\ UNCHANGED <<waitsAck, up>>
    BY DEF commit, workerVars
  <1>4. CallOK(c)
    BY DEF SteersInv, SteerOK
  <1>5. /\ x.at = "acknowledged" /\ x.outcome = "none" /\ x.try # 0 /\ x.ack # 0
        /\ waitsAck[c] = 0 /\ waitsResult[c] = 0
    BY <1>1, <1>4 DEF commit, CallOK
  <1>6. CASE /\ attached # 0 /\ prepared[c].try = exchange[c].try
             /\ exchange' = [exchange EXCEPT ![c].at = "commit"]
             /\ prepared' = [prepared EXCEPT ![c] = NoEntry]
             /\ waitsResult' = [waitsResult EXCEPT ![c] = exchange[c].try]
             /\ ToWorker(Frame("commit", c, exchange[c].ack))
    <2>1. PICK y : y = [x EXCEPT !.at = "commit"]
      OBVIOUS
    <2>2. y \in Calls /\ y.at = "commit" /\ y.outcome = "none" /\ y.try = x.try
      BY <1>5, <2>1 DEF Calls
    <2>3. exchange' = [exchange EXCEPT ![c] = y]
      BY <1>1, <1>2, <1>6, <2>1
    <2>4. x.ack \in 1..MaxTries
      BY ExchangeBounds, <1>5 DEF Calls
    <2>5. PICK m \in DownFrames : m = Frame("commit", c, x.ack) /\ m.kind = "commit" /\ m.c = c
      BY <2>4, FrameFields
    <2>6. /\ down' \in Seq(DownFrames) /\ (link # "registered" => down' = down)
          /\ \A d \in Steers :
               /\ InTransit(down', {"commit"}, d) => InTransit(down, {"commit"}, d) \/ d = c
               /\ InTransit(down, {"commit", "release"}, d) => InTransit(down', {"commit", "release"}, d)
          /\ Live => InTransit(down', {"commit", "release"}, c)
      BY <1>1, <1>6, <2>5, <1>2, SentDown
    <2>7. x.try \in 0..MaxTries /\ NoEntry \in Preparations
      BY ExchangeBounds DEF Calls, NoEntry, Preparations
    <2>8. /\ waitsResult' \in [Steers -> 0..MaxTries] /\ waitsResult'[c] = x.try
          /\ prepared' \in [Steers -> Preparations] /\ prepared'[c] = NoEntry
          /\ \A d \in Steers \ {c} : waitsResult'[d] = waitsResult[d] /\ prepared'[d] = prepared[d]
      BY <1>1, <1>2, <1>6, <2>7
    <2>9. /\ ExchangeTypes' /\ LinkClosed' /\ exchange'[c] = y
          /\ \A d \in Steers \ {c} : exchange'[d] = exchange[d]
      BY <1>2, <1>3, <2>2, <2>3, <2>6, <2>8, RouterTyped
    <2>10. BusyBound'
      <3>1. prepared[c] # NoEntry
        BY <1>1, <1>5, <1>6 DEF NoEntry
      <3>2. \A d \in Steers : Busy(d)' => Busy(d)
        BY <1>3, <2>8, <3>1 DEF Busy
      <3>3. QED
        BY <3>2, BusyShrinks
    <2>11. RouterMoves(c)
      BY <1>3, <2>2, <2>6, <2>8, <2>9 DEF RouterMoves
    <2>12. CallOK(c)'
      BY <1>3, <1>5, <1>6, <2>2, <2>8, <2>9 DEF CallOK
    <2>13. Reports(c)
      BY <2>2, <2>9 DEF Reports
    <2>14. HandsOver(c)
      BY <2>6 DEF SteersInv, LinkClosed, HandsOver, Live
    <2>15. QED
      BY <2>9, <2>10, <2>11, <2>12, <2>13, <2>14, RouterStep DEF SteersInv
  <1>7. CASE /\ exchange' = [exchange EXCEPT ![c] = Ends(@, "ambiguous")]
             /\ UNCHANGED <<prepared, waitsResult, down>>
    <2>1. /\ Ends(x, "ambiguous") \in Calls /\ Ends(x, "ambiguous").at = "ended"
          /\ Ends(x, "ambiguous").outcome = "ambiguous"
          /\ Ends(x, "ambiguous").unsure = (x.unsure \/ "ambiguous" = "ambiguous")
      BY EndedCall
    <2>2. PICK z \in Calls : z = Ends(x, "ambiguous") /\ z.at = "ended" /\ z.outcome = "ambiguous"
                             /\ z.unsure
      BY <2>1
    <2>3. exchange' = [exchange EXCEPT ![c] = z]
      BY <1>1, <1>2, <1>7, <2>2
    <2>4. /\ ExchangeTypes' /\ LinkClosed' /\ exchange'[c] = z
          /\ \A d \in Steers \ {c} : exchange'[d] = exchange[d]
      BY <1>2, <1>3, <1>7, <2>3, RouterTyped
    <2>5. BusyBound'
      BY <1>3, <1>7, BusyShrinks DEF Busy
    <2>6. RouterMoves(c)
      BY <1>3, <1>7, <2>4 DEF RouterMoves
    <2>7. CallOK(c)'
      BY <1>3, <1>4, <1>5, <1>7, <2>2, <2>4 DEF CallOK
    <2>8. Reports(c) /\ HandsOver(c)
      BY <1>7, <2>2, <2>4 DEF Reports, HandsOver
    <2>9. QED
      BY <2>4, <2>5, <2>6, <2>7, <2>8, RouterStep DEF SteersInv
  <1>8. QED
    BY <1>6, <1>7 DEF commit

\* The preparation is released, or is gone already.
LEMMA ReleaseKeeps ==
  ASSUME SteersInv, NEW c \in Steers, release(c)
  PROVE  SteersInv'
  <1>1. PICK x \in Calls : x = exchange[c]
    BY DEF SteersInv, ExchangeTypes, RouterTypes
  <1>2. /\ waitsAck \in [Steers -> 0..MaxTries] /\ waitsResult \in [Steers -> 0..MaxTries]
        /\ prepared \in [Steers -> Preparations] /\ down \in Seq(DownFrames) /\ up \in Seq(UpFrames)
        /\ exchange \in [Steers -> Calls] /\ attached \in {0, opened}
    BY DEF SteersInv, ExchangeTypes, RouterTypes, FrameTypes
  <1>3. /\ UNCHANGED <<entry, steer, target, heard, link, opened, attached>>
        /\ UNCHANGED <<waitsAck, waitsResult, up>>
    BY DEF release, workerVars
  <1>4. CallOK(c)
    BY DEF SteersInv, SteerOK
  <1>5. /\ x.at = "acknowledged" /\ x.outcome = "none" /\ x.try # 0 /\ x.ack # 0
        /\ waitsAck[c] = 0 /\ waitsResult[c] = 0
    BY <1>1, <1>4 DEF release, CallOK
  <1>6. /\ Ends(x, "failed") \in Calls /\ Ends(x, "failed").at = "ended"
        /\ Ends(x, "failed").outcome = "failed"
        /\ Ends(x, "failed").unsure = (x.unsure \/ "failed" = "ambiguous")
    BY EndedCall
  <1>7. PICK z \in Calls : z = Ends(x, "failed") /\ z.at = "ended" /\ z.outcome = "failed"
                           /\ z.unsure = (x.unsure \/ FALSE)
    BY <1>6
  <1>8. exchange' = [exchange EXCEPT ![c] = z]
    BY <1>1, <1>2, <1>7 DEF release
  <1>9. Reports(c)
    BY <1>1, <1>2, <1>5, <1>7, <1>8 DEF Reports
  <1>10. CASE /\ attached # 0 /\ prepared[c].try = exchange[c].try
              /\ ToWorker(Frame("release", c, exchange[c].ack))
              /\ prepared' = [prepared EXCEPT ![c] = NoEntry]
    <2>1. x.ack \in 1..MaxTries
      BY ExchangeBounds, <1>5 DEF Calls
    <2>2. PICK m \in DownFrames : m = Frame("release", c, x.ack) /\ m.kind = "release" /\ m.c = c
      BY <2>1, FrameFields
    <2>3. /\ down' \in Seq(DownFrames) /\ (link # "registered" => down' = down)
          /\ \A d \in Steers :
               /\ InTransit(down', {"commit"}, d) => InTransit(down, {"commit"}, d)
               /\ InTransit(down, {"commit", "release"}, d) => InTransit(down', {"commit", "release"}, d)
          /\ Live => InTransit(down', {"commit", "release"}, c)
      BY <1>1, <1>10, <2>2, <1>2, SentDown
    <2>4. NoEntry \in Preparations
      BY ExchangeBounds DEF NoEntry, Preparations
    <2>5. /\ prepared' \in [Steers -> Preparations] /\ prepared'[c] = NoEntry
          /\ \A d \in Steers \ {c} : prepared'[d] = prepared[d]
      BY <1>2, <1>10, <2>4
    <2>6. /\ ExchangeTypes' /\ LinkClosed' /\ exchange'[c] = z
          /\ \A d \in Steers \ {c} : exchange'[d] = exchange[d]
      BY <1>2, <1>3, <1>8, <2>3, <2>5, RouterTyped
    <2>7. BusyBound'
      BY <1>3, <2>5, BusyShrinks DEF Busy
    <2>8. RouterMoves(c)
      BY <1>3, <2>3, <2>5, <2>6 DEF RouterMoves
    <2>9. CallOK(c)'
      BY <1>3, <1>5, <1>7, <2>5, <2>6 DEF CallOK
    <2>10. HandsOver(c)
      BY <2>3 DEF SteersInv, LinkClosed, HandsOver, Live
    <2>11. QED
      BY <1>9, <2>6, <2>7, <2>8, <2>9, <2>10, RouterStep DEF SteersInv
  <1>11. CASE UNCHANGED <<down, prepared>>
    BY <1>2, <1>3, <1>8, <1>11, RouterTyped, BusyShrinks, <1>4, <1>5, <1>7, <1>9, RouterStep DEF
       Busy, RouterMoves, CallOK, HandsOver, SteersInv
  <1>12. QED
    BY <1>10, <1>11 DEF release
\* The first frame is on its way.
LEMMA HeadInTransit ==
  ASSUME NEW S, NEW q \in Seq(S), q # <<>>
  PROVE  InTransit(q, {Head(q).kind}, Head(q).c)
  BY HeadTailProperties DEF InTransit

\* The types of a router that has let go of a connection.
LEMMA DetachTyped ==
  ASSUME SteersInv, Detached(exchange), opened' \in 1..MaxConnections,
         attached' \in {0, opened'}, WorkerTypes', down' \in Seq(DownFrames),
         up' \in Seq(UpFrames)
  PROVE  ExchangeTypes' /\ BusyBound'
  BY DetachedCalls, BusyShrinks DEF RouterTypes, ExchangeTypes, FrameTypes, Busy

\* The router lets go of its connection: the connection was refused, closed by
\* the Worker or by the gateway.
LEMMA LetsGoKeeps ==
  ASSUME SteersInv, Detached(exchange), attached' = 0, NEW q \in Seq(UpFrames),
         up' = q,
         \A kinds, d : InTransit(q, kinds, d) => InTransit(up, kinds, d),
         \/ UNCHANGED down
         \/ \E retryable \in BOOLEAN : ToWorker(Close(retryable)),
         UNCHANGED <<entry, steer, target, heard, link, opened>>
  PROVE  SteersInv'
  <1>1. WorkerTypes' /\ opened' \in 1..MaxConnections /\ opened' # 0
    BY ExchangeBounds DEF SteersInv, ExchangeTypes, RouterTypes, WorkerTypes
  <1>2. /\ down' \in Seq(DownFrames) /\ (link # "registered" => down' = down)
        /\ \A d : InTransit(down', {"commit"}, d) => InTransit(down, {"commit"}, d)
    <2>1. down \in Seq(DownFrames)
      BY DEF SteersInv, ExchangeTypes, FrameTypes
    <2>2. CASE UNCHANGED down
      BY <2>1, <2>2
    <2>3. CASE \E retryable \in BOOLEAN : ToWorker(Close(retryable))
      <3>1. PICK m \in DownFrames : ToWorker(m) /\ m.kind = "close"
        BY <2>3, FrameFields
      <3>2. /\ down' \in Seq(DownFrames) /\ (link # "registered" => down' = down)
            /\ \A kinds, d : InTransit(down', kinds, d) =>
                 InTransit(down, kinds, d) \/ (m.kind \in kinds /\ m.c = d)
        BY <2>1, <3>1, SentDown
      <3>3. m.kind \notin {"commit"}
        BY <3>1
      <3>4. QED
        BY <3>2, <3>3
    <2>4. QED
      BY <2>2, <2>3
  <1>3. attached' # opened' /\ attached' \in {0, opened'}
    BY <1>1
  <1>4. ExchangeTypes' /\ BusyBound'
    BY <1>1, <1>2, <1>3, DetachTyped
  <1>5. LinkClosed'
    BY <1>2 DEF SteersInv, LinkClosed
  <1>6. \A d \in Steers : SteerOK(d)'
    BY <1>2, <1>3, DetachStep
  <1>7. QED
    BY <1>4, <1>5, <1>6 DEF SteersInv

\* The acknowledgement of a call that waits for it.
LEMMA AckKeeps ==
  ASSUME SteersInv, up # <<>>, attached = opened, NEW m \in UpFrames, m = Head(up),
         m.kind \in {"ack", "rejected"}, NEW c \in Steers, c = m.c,
         waitsAck[c] # 0, waitsAck' = [waitsAck EXCEPT ![c] = 0],
         exchange' = [exchange EXCEPT ![c] = afterAcknowledgement(@, m)],
         prepared' = IF m.kind = "ack"
                       THEN [prepared EXCEPT ![c] = [NoEntry EXCEPT !.try = waitsAck[c]]]
                       ELSE prepared,
         up' = Tail(up),
         UNCHANGED <<attached, waitsResult, down, opened, link, entry, steer, target, heard>>
  PROVE  SteersInv'
  <1>1. PICK x \in Calls : x = exchange[c]
    BY DEF SteersInv, ExchangeTypes, RouterTypes
  <1>2. /\ waitsAck \in [Steers -> 0..MaxTries] /\ waitsResult \in [Steers -> 0..MaxTries]
        /\ prepared \in [Steers -> Preparations] /\ down \in Seq(DownFrames) /\ up \in Seq(UpFrames)
        /\ exchange \in [Steers -> Calls] /\ opened \in 1..MaxConnections
    BY DEF SteersInv, ExchangeTypes, RouterTypes, FrameTypes
  <1>3. CallOK(c)
    BY DEF SteersInv, SteerOK
  <1>4. x.at = "prepare" /\ x.outcome = "none" /\ x.try # 0 /\ waitsResult[c] = 0
    BY <1>1, <1>3 DEF CallOK
  <1>5. attached # 0
    BY <1>3 DEF CallOK
  <1>6. m.try \in 1..MaxTries /\ m.try \in 0..MaxTries /\ m.try # 0 /\ 0 \in 0..MaxTries
    <2>1. m.try \in 1..MaxTries /\ MaxTries \in Nat
      BY FrameFields, ExchangeBounds
    <2>2. QED
      BY <2>1
  <1>7. PICK y \in Calls :
          /\ y = afterAcknowledgement(x, m)
          /\ y.outcome # "delivered" /\ y.unsure = x.unsure /\ y.try = x.try
          /\ m.kind = "ack" => y.at = "acknowledged" /\ y.outcome = "none" /\ y.ack # 0
          /\ m.kind # "ack" => y.at = "ended"
    <2>1. CASE m.kind = "ack"
      <3>1. PICK y : y = [x EXCEPT !.at = "acknowledged", !.ack = m.try]
        OBVIOUS
      <3>2. /\ y \in Calls /\ y.at = "acknowledged" /\ y.outcome = "none" /\ y.ack = m.try
            /\ y.unsure = x.unsure /\ y.try = x.try
        BY <1>4, <1>6, <3>1 DEF Calls
      <3>3. y = afterAcknowledgement(x, m)
        BY <2>1, <3>1 DEF afterAcknowledgement
      <3>4. QED
        BY <1>6, <2>1, <3>2, <3>3
    <2>2. CASE m.kind # "ack"
      <3>1. /\ Ends(x, "failed") \in Calls /\ Ends(x, "failed").at = "ended"
            /\ Ends(x, "failed").outcome = "failed"
            /\ Ends(x, "failed").unsure = (x.unsure \/ "failed" = "ambiguous")
        BY EndedCall
      <3>2. Ends(x, "failed").try = x.try /\ x.unsure \in BOOLEAN
        BY DEF Ends, Calls
      <3>3. afterAcknowledgement(x, m) = Ends(x, "failed")
        BY <2>2 DEF afterAcknowledgement
      <3>4. QED
        BY <2>2, <3>1, <3>2, <3>3
    <2>3. QED
      BY <2>1, <2>2
  <1>8. exchange' = [exchange EXCEPT ![c] = y]
    BY <1>1, <1>2, <1>7
  <1>9. /\ waitsAck' \in [Steers -> 0..MaxTries] /\ waitsAck'[c] = 0
        /\ \A d \in Steers \ {c} : waitsAck'[d] = waitsAck[d]
    BY <1>2, <1>6
  <1>10. /\ prepared' \in [Steers -> Preparations]
         /\ \A d \in Steers \ {c} : prepared'[d] = prepared[d]
         /\ m.kind = "ack" => prepared'[c] # NoEntry
         /\ m.kind # "ack" => prepared' = prepared
    BY <1>2 DEF NoEntry, Preparations
  <1>11. /\ up' \in Seq(UpFrames)
         /\ \A kinds, d :
              /\ InTransit(up', kinds, d) => InTransit(up, kinds, d)
              /\ InTransit(up, kinds, d) => InTransit(up', kinds, d) \/ (m.kind \in kinds /\ m.c = d)
    BY <1>2, TransitTail
  <1>12. /\ ExchangeTypes' /\ LinkClosed' /\ exchange'[c] = y
         /\ \A d \in Steers \ {c} : exchange'[d] = exchange[d]
    <2>1. /\ waitsAck' \in [Steers -> 0..MaxTries] /\ waitsResult' \in [Steers -> 0..MaxTries]
          /\ prepared' \in [Steers -> Preparations] /\ down' \in Seq(DownFrames)
          /\ up' \in Seq(UpFrames) /\ down' = down
      BY <1>2, <1>9, <1>10, <1>11
    <2>2. /\ UNCHANGED <<entry, steer, target, heard, link, opened, attached>>
          /\ exchange' = [exchange EXCEPT ![c] = y] /\ y \in Calls
      BY <1>2, <1>7, <1>8
    <2>3. QED
      BY ONLY SteersInv, c \in Steers, <2>1, <2>2, RouterTyped
  <1>13. BusyBound'
    BY <1>9, <1>10, BusyShrinks DEF Busy
  <1>14. RouterMoves(c)
    BY <1>9, <1>10, <1>11, <1>12 DEF RouterMoves
  <1>15. CallOK(c)'
    BY <1>4, <1>5, <1>7, <1>9, <1>12 DEF CallOK
  <1>16. Reports(c)
    BY <1>1, <1>4, <1>7, <1>12 DEF Reports
  <1>17. HandsOver(c)
    BY <1>10 DEF HandsOver
  <1>18. QED
    BY <1>12, <1>13, <1>14, <1>15, <1>16, <1>17, RouterStep DEF SteersInv

\* The result of a call that waits for it.
LEMMA ResultKeeps ==
  ASSUME SteersInv, up # <<>>, NEW m \in UpFrames, m = Head(up),
         m.kind \in {"completed", "failed"}, NEW c \in Steers, c = m.c,
         waitsResult[c] = m.try, waitsResult' = [waitsResult EXCEPT ![c] = 0],
         exchange' = [exchange EXCEPT ![c] = afterResult(@, m)], up' = Tail(up),
         UNCHANGED <<attached, waitsAck, prepared, down, opened, link, entry, steer, target, heard>>
  PROVE  SteersInv'
  <1>1. PICK x \in Calls : x = exchange[c]
    BY DEF SteersInv, ExchangeTypes, RouterTypes
  <1>2. /\ waitsAck \in [Steers -> 0..MaxTries] /\ waitsResult \in [Steers -> 0..MaxTries]
        /\ prepared \in [Steers -> Preparations] /\ down \in Seq(DownFrames) /\ up \in Seq(UpFrames)
        /\ exchange \in [Steers -> Calls] /\ 0 \in 0..MaxTries
    BY ExchangeBounds DEF SteersInv, ExchangeTypes, RouterTypes, FrameTypes
  <1>3. CallOK(c) /\ ReportOK(c)
    BY DEF SteersInv, SteerOK
  <1>4. m.try # 0
    BY FrameFields, ExchangeBounds
  <1>5. x.at = "commit" /\ x.outcome = "none" /\ waitsAck[c] = 0
    BY <1>1, <1>3, <1>4 DEF CallOK
  <1>6. PICK outcome \in {"delivered", "failed"} :
          outcome = IF m.kind = "completed" THEN "delivered" ELSE "failed"
    OBVIOUS
  <1>7. /\ Ends(x, outcome) \in Calls /\ Ends(x, outcome).at = "ended"
        /\ Ends(x, outcome).outcome = outcome
        /\ Ends(x, outcome).unsure = (x.unsure \/ outcome = "ambiguous")
    BY <1>6, EndedCall
  <1>8. PICK z \in Calls : z = Ends(x, outcome) /\ z.at = "ended" /\ z.outcome = outcome
    BY <1>7
  <1>9. exchange' = [exchange EXCEPT ![c] = z]
    BY <1>1, <1>2, <1>6, <1>8 DEF afterResult
  <1>10. /\ waitsResult' \in [Steers -> 0..MaxTries] /\ waitsResult'[c] = 0
         /\ \A d \in Steers \ {c} : waitsResult'[d] = waitsResult[d]
    BY <1>2
  <1>11. /\ up' \in Seq(UpFrames)
         /\ \A kinds, d :
              /\ InTransit(up', kinds, d) => InTransit(up, kinds, d)
              /\ InTransit(up, kinds, d) => InTransit(up', kinds, d) \/ (m.kind \in kinds /\ m.c = d)
    BY <1>2, TransitTail
  <1>12. InTransit(up, {m.kind}, c)
    BY <1>2, HeadInTransit
  <1>13. /\ ExchangeTypes' /\ LinkClosed' /\ exchange'[c] = z
         /\ \A d \in Steers \ {c} : exchange'[d] = exchange[d]
    <2>1. /\ waitsAck' \in [Steers -> 0..MaxTries] /\ waitsResult' \in [Steers -> 0..MaxTries]
          /\ prepared' \in [Steers -> Preparations] /\ down' \in Seq(DownFrames)
          /\ up' \in Seq(UpFrames) /\ down' = down
      BY <1>2, <1>10, <1>11
    <2>2. /\ UNCHANGED <<entry, steer, target, heard, link, opened, attached>>
          /\ exchange' = [exchange EXCEPT ![c] = z] /\ z \in Calls
      BY <1>2, <1>8, <1>9
    <2>3. QED
      BY ONLY SteersInv, c \in Steers, <2>1, <2>2, RouterTyped
  <1>14. BusyBound'
    BY <1>10, BusyShrinks DEF Busy
  <1>15. RouterMoves(c)
    BY <1>11, <1>10, <1>13 DEF RouterMoves
  <1>16. CallOK(c)'
    BY <1>3, <1>5, <1>8, <1>10, <1>13 DEF CallOK
  <1>17. Reports(c)
    BY <1>3, <1>6, <1>12, <1>8, <1>13 DEF ReportOK, Reports, Started, MayStart
  <1>18. HandsOver(c)
    BY DEF HandsOver
  <1>19. QED
    BY <1>13, <1>14, <1>15, <1>16, <1>17, <1>18, RouterStep DEF SteersInv

\* A frame of the Worker is read.
LEMMA ReceiveKeeps == SteersInv /\ receive => SteersInv'
  <1> SUFFICES ASSUME SteersInv, receive PROVE SteersInv'
    OBVIOUS
  <1>1. up \in Seq(UpFrames) /\ up # <<>> /\ attached = opened /\ up' = Tail(up)
    BY DEF receive, SteersInv, ExchangeTypes, FrameTypes
  <1>2. UNCHANGED <<opened, link, entry, steer, target, heard>>
    BY DEF receive, workerVars
  <1>3. PICK q \in Seq(UpFrames) : q = Tail(up) /\ \A kinds, d : InTransit(q, kinds, d) => InTransit(up, kinds, d)
    BY <1>1, TransitTail
  <1>4. PICK m \in UpFrames : m = Head(up)
    BY <1>1, TransitTail
  <1>5. CASE Refuse
    BY <1>1, <1>2, <1>3, <1>5, LetsGoKeeps DEF Refuse
  <1>6. CASE m.kind = "close" /\ attached' = 0 /\ Detached(exchange) /\ UNCHANGED down
    BY <1>1, <1>2, <1>3, <1>6, LetsGoKeeps
  <1>7. CASE m.kind \in {"ack", "rejected"} /\ acceptAcknowledgement(m) /\ ~Refuse
    BY <1>7, FrameFields, <1>1, <1>2, <1>4, AckKeeps DEF acceptAcknowledgement
  <1>8. CASE m.kind \in {"completed", "failed"} /\ acceptResult(m) /\ ~Refuse
    BY <1>8, FrameFields, <1>1, <1>2, <1>4, ResultKeeps DEF acceptResult
  <1>9. QED
    BY <1>4, <1>5, <1>6, <1>7, <1>8 DEF receive

\* The gateway closes the connection: the waiters go, a close frame is on its way.
LEMMA GatewayClosesKeeps == SteersInv /\ GatewayCloses => SteersInv'
  BY EmptySeq, NoneInTransit, LetsGoKeeps DEF GatewayCloses, workerVars

\* A new connection starts with no waiter, no frame and no preparation.
LEMMA AttachKeeps == SteersInv /\ attach => SteersInv'
  <1> SUFFICES ASSUME SteersInv, attach PROVE SteersInv'
    OBVIOUS
  <1>1. /\ Detached(exchange) /\ down' = <<>> /\ up' = <<>> /\ link' = "registered"
        /\ UNCHANGED <<entry, steer, target, heard>>
        /\ opened' = opened + 1 /\ attached' = opened + 1 /\ link # "registered"
    BY DEF attach, workerVars
  <1>2. opened' \in 1..MaxConnections
    BY ExchangeBounds, <1>1 DEF attach, SteersInv, ExchangeTypes, RouterTypes
  <1>3. down' \in Seq(DownFrames) /\ up' \in Seq(UpFrames)
    BY <1>1
  <1>4. WorkerTypes'
    BY <1>1 DEF SteersInv, ExchangeTypes, WorkerTypes
  <1>5. ExchangeTypes' /\ BusyBound'
    BY <1>1, <1>2, <1>3, <1>4, DetachTyped
  <1>6. LinkClosed'
    BY <1>1 DEF LinkClosed
  <1>7. \A d \in Steers : entry[d] = NoEntry
    BY <1>1 DEF SteersInv, LinkClosed
  <1>8. \A kinds, d : ~InTransit(down', kinds, d) /\ ~InTransit(up', kinds, d)
    BY <1>1, NoneInTransit
  <1>9. \A d \in Steers : SteerOK(d)'
    BY <1>1, <1>7, <1>8, DetachStep
  <1>10. QED
    BY <1>5, <1>6, <1>9 DEF SteersInv
-----------------------------------------------------------------------------
(* The steps of the Worker.                                                *)

\* What a step of the Worker leaves of the router's state.
LEMMA RouterKept ==
  ASSUME SteersInv,
         UNCHANGED <<exchange, attached, waitsAck, prepared, waitsResult, opened>>
  PROVE  RouterTypes' /\ BusyBound'
  BY BusyShrinks DEF SteersInv, ExchangeTypes, RouterTypes, Busy

\* The Worker's connection ends.
LEMMA LinkEndsKeeps ==
  ASSUME SteersInv, NEW retryable \in BOOLEAN, LinkEnds(retryable), up' \in Seq(UpFrames),
         \A d : /\ InTransit(up', {"completed"}, d) => InTransit(up, {"completed"}, d)
                /\ InTransit(up', {"failed"}, d) => InTransit(up, {"failed"}, d),
         UNCHANGED <<exchange, attached, waitsAck, prepared, waitsResult, opened, heard>>
  PROVE  SteersInv'
  <1>1. /\ entry' = [c \in Steers |-> NoEntry] /\ down' = <<>>
        /\ link' \in {"closed", "revoked"} /\ target' \in {target, "ended"}
    BY DEF LinkEnds
  <1>2. NoEntry \in Preparations
    BY ExchangeBounds DEF NoEntry, Preparations
  <1>3. steer' \in [Steers -> {"none", "prepared", "running", "completed", "failed"}]
    BY DEF SteersInv, ExchangeTypes, WorkerTypes, released, LinkEnds
  <1>4. WorkerTypes'
    BY <1>1, <1>2, <1>3 DEF SteersInv, ExchangeTypes, WorkerTypes
  <1>5. FrameTypes'
    BY <1>1 DEF FrameTypes
  <1>6. LinkClosed'
    BY <1>1 DEF LinkClosed
  <1>7. \A d \in Steers : SteerOK(d)'
    BY LinkEndsStep
  <1>8. QED
    BY <1>4, <1>5, <1>6, <1>7, RouterKept DEF SteersInv, ExchangeTypes

\* The client ends its connection.
LEMMA ClientFailsKeeps ==
  ASSUME SteersInv, NEW retryable \in BOOLEAN, ClientFails(retryable),
         UNCHANGED <<exchange, attached, waitsAck, prepared, waitsResult, opened>>
  PROVE  SteersInv'
  <1>1. LinkEnds(retryable) /\ ToControl(Close(retryable)) /\ heard' = heard
    BY DEF ClientFails
  <1>2. PICK m \in UpFrames : ToControl(m) /\ m.kind = "close"
    BY <1>1, FrameFields
  <1>3. up \in Seq(UpFrames)
    BY DEF SteersInv, ExchangeTypes, FrameTypes
  <1>4. /\ up' \in Seq(UpFrames)
        /\ \A kinds, d : InTransit(up', kinds, d) =>
             InTransit(up, kinds, d) \/ (m.kind \in kinds /\ m.c = d)
    BY <1>2, <1>3, SentUp
  <1>5. m.kind \notin {"completed"} /\ m.kind \notin {"failed"}
    BY <1>2
  <1>6. QED
    BY <1>1, <1>4, <1>5, LinkEndsKeeps

\* The connection breaks.
LEMMA LinkBreaksKeeps == SteersInv /\ LinkBreaks => SteersInv'
  <1> SUFFICES ASSUME SteersInv, LinkBreaks PROVE SteersInv'
    OBVIOUS
  <1>1. /\ LinkEnds(TRUE)
        /\ UNCHANGED <<exchange, attached, waitsAck, prepared, waitsResult, opened, heard>>
    BY DEF LinkBreaks, routerVars
  <1>2. up \in Seq(UpFrames)
    BY DEF SteersInv, ExchangeTypes, FrameTypes
  <1>3. PICK n \in 0..Len(up) : up' = IF attached = opened
                                       THEN Append(SubSeq(up, 1, n), Close(TRUE)) ELSE <<>>
    BY DEF LinkBreaks
  <1>4. PICK m \in UpFrames : m = Close(TRUE) /\ m.kind = "close"
    BY FrameFields
  <1>5. m.kind \notin {"completed"} /\ m.kind \notin {"failed"}
    BY <1>4
  <1>6. CASE attached = opened
    <2>1. PICK q \in Seq(UpFrames) : q = SubSeq(up, 1, n)
                /\ \A kinds, d : InTransit(q, kinds, d) => InTransit(up, kinds, d)
      BY <1>2, TransitCut
    <2>2. up' = Append(q, m)
      BY <1>3, <1>4, <1>6, <2>1
    <2>3. /\ up' \in Seq(UpFrames)
          /\ \A kinds, d : InTransit(up', kinds, d) =>
               InTransit(q, kinds, d) \/ (m.kind \in kinds /\ m.c = d)
      BY <2>2, TransitAppend
    <2>4. QED
      BY <1>1, <1>5, <2>1, <2>3, LinkEndsKeeps
  <1>7. CASE attached # opened
    <2>1. up' = <<>>
      BY <1>3, <1>7
    <2>2. up' \in Seq(UpFrames) /\ \A kinds, d : ~InTransit(up', kinds, d)
      BY <2>1, NoneInTransit
    <2>3. QED
      BY <1>1, <2>2, LinkEndsKeeps
  <1>8. QED
    BY <1>6, <1>7

\* A steer that is asked for.
LEMMA PrepareCommandKeeps ==
  ASSUME SteersInv, link = "registered", down # <<>>, NEW m \in DownFrames, m = Head(down),
         m.kind = "steer", prepareCommand(m),
         UNCHANGED <<exchange, attached, waitsAck, prepared, waitsResult, opened>>
  PROVE  SteersInv'
  <1>1. PICK c \in Steers : c = m.c /\ m.try \in 1..MaxTries
    BY FrameFields
  <1>2. /\ down \in Seq(DownFrames) /\ up \in Seq(UpFrames)
        /\ entry \in [Steers -> Preparations] /\ heard \in [Steers -> Nat]
        /\ steer \in [Steers -> {"none", "prepared", "running", "completed", "failed"}]
        /\ target \in {"running", "ended"}
    BY DEF SteersInv, ExchangeTypes, WorkerTypes, FrameTypes
  <1>3. SteerOK(c)
    BY DEF SteersInv
  <1>4. PICK n \in 0..MaxTries : n = m.try /\ n # 0
    BY ExchangeBounds, <1>1
  <1>5. CASE ClientFails(FALSE)
    BY <1>5, ClientFailsKeeps
  <1>6. ASSUME down' = Tail(down)
        PROVE  /\ down' \in Seq(DownFrames)
               /\ \A d : /\ InTransit(down', {"commit"}, d) => InTransit(down, {"commit"}, d)
                         /\ InTransit(down, {"commit", "release"}, d) =>
                              InTransit(down', {"commit", "release"}, d)
    BY <1>2, <1>6, TransitTail
  <1>7. CASE /\ ToControl(Frame("rejected", c, m.try)) /\ down' = Tail(down)
             /\ UNCHANGED <<link, workerVars>>
    <2>1. UNCHANGED <<link, entry, steer, target, heard>>
      BY <1>7 DEF workerVars
    <2>2. PICK a \in UpFrames : a = Frame("rejected", c, m.try) /\ a.kind = "rejected"
      BY <1>1, FrameFields
    <2>3. /\ up' \in Seq(UpFrames)
          /\ \A kinds, d :
               /\ InTransit(up', kinds, d) => InTransit(up, kinds, d) \/ a.kind \in kinds
               /\ InTransit(up, kinds, d) => InTransit(up', kinds, d)
      BY <1>2, <1>7, <2>2, SentUp
    <2>4. a.kind \notin {"completed"} /\ a.kind \notin {"failed"}
      BY <2>2
    <2>5. WorkerMoves(c)
      BY <1>6, <1>7, <2>1, <2>3, <2>4 DEF WorkerMoves
    <2>6. GoesOn(c)
      BY <1>6, <1>7, <2>1 DEF GoesOn, Started, MayStart
    <2>7. WorkOK(c)'
      BY <1>3, <2>1 DEF SteerOK, WorkOK
    <2>8. PreparationKept(c)'
      BY <1>3, <1>6, <1>7, <2>1, <2>3 DEF SteerOK, PreparationKept
    <2>9. \A d \in Steers : SteerOK(d)'
      BY <2>5, <2>6, <2>7, <2>8, WorkerStep
    <2>10. WorkerTypes' /\ FrameTypes' /\ LinkClosed'
      BY <1>6, <1>7, <2>1, <2>3 DEF SteersInv, ExchangeTypes, WorkerTypes, FrameTypes, LinkClosed
    <2>11. QED
      BY <2>9, <2>10, RouterKept DEF SteersInv, ExchangeTypes
  <1>8. CASE /\ entry[c].try = 0 /\ (steer[c] # "none" \/ target = "running")
             /\ steer' = [steer EXCEPT ![c] = IF steer[c] # "none" THEN @ ELSE "prepared"]
             /\ entry' = [entry EXCEPT ![c] = [try |-> m.try, committed |-> FALSE]]
             /\ ToControl(Frame("ack", c, m.try)) /\ down' = Tail(down)
             /\ UNCHANGED <<link, target, heard>>
    <2>1. PICK a \in UpFrames : a = Frame("ack", c, m.try) /\ a.kind = "ack" /\ a.c = c
      BY <1>1, FrameFields
    <2>2. /\ up' \in Seq(UpFrames)
          /\ \A kinds, d :
               /\ InTransit(up', kinds, d) => InTransit(up, kinds, d) \/ a.kind \in kinds
               /\ InTransit(up, kinds, d) => InTransit(up', kinds, d)
               /\ Live /\ a.kind \in kinds /\ a.c = d => InTransit(up', kinds, d)
      BY <1>2, <1>8, <2>1, SentUp
    <2>3. a.kind \notin {"completed"} /\ a.kind \notin {"failed"} /\ a.kind \in {"ack"}
      BY <2>1
    <2>4. PICK e : e = [try |-> n, committed |-> FALSE]
      OBVIOUS
    <2>5. e \in Preparations /\ e.try = n /\ ~e.committed
      BY <2>4 DEF Preparations
    <2>6. PICK s \in {"none", "prepared", "running", "completed", "failed"} :
            /\ s = IF steer[c] # "none" THEN steer[c] ELSE "prepared"
      BY <1>2
    <2>7. /\ entry' \in [Steers -> Preparations] /\ entry'[c] = e
          /\ \A d \in Steers \ {c} : entry'[d] = entry[d]
      BY <1>2, <1>4, <1>8, <2>4, <2>5
    <2>8. /\ steer' \in [Steers -> {"none", "prepared", "running", "completed", "failed"}]
          /\ steer'[c] = s /\ \A d \in Steers \ {c} : steer'[d] = steer[d]
      BY <1>2, <1>8, <2>6
    <2>9. WorkerMoves(c)
      BY <1>6, <1>8, <2>2, <2>3, <2>7, <2>8 DEF WorkerMoves
    <2>10. GoesOn(c)
      BY <1>6, <1>8, <2>6, <2>8 DEF GoesOn, Started, MayStart
    <2>11. WorkOK(c)'
      BY <1>3, <1>4, <1>8, <2>5, <2>6, <2>7, <2>8 DEF SteerOK, WorkOK
    <2>12. PreparationKept(c)'
      BY <2>1, <2>2, <2>3 DEF Live, PreparationKept
    <2>13. \A d \in Steers : SteerOK(d)'
      BY <2>9, <2>10, <2>11, <2>12, WorkerStep
    <2>14. WorkerTypes' /\ FrameTypes' /\ LinkClosed'
      BY <1>6, <1>8, <2>2, <2>7, <2>8 DEF SteersInv, ExchangeTypes, WorkerTypes, FrameTypes, LinkClosed
    <2>15. QED
      BY <2>13, <2>14, RouterKept DEF SteersInv, ExchangeTypes
  <1>9. QED
    BY <1>1, <1>5, <1>7, <1>8 DEF prepareCommand
\* A frame that commits or releases the preparation it names.
LEMMA HeadHandled ==
  ASSUME SteersInv, down # <<>>, NEW m \in DownFrames, m = Head(down),
         m.kind \in {"commit", "release"}, NEW c \in Steers, c = m.c, down' = Tail(down)
  PROVE  /\ down' \in Seq(DownFrames) /\ InTransit(down, {m.kind}, c)
         /\ \A d : /\ InTransit(down', {"commit"}, d) => InTransit(down, {"commit"}, d)
                   /\ InTransit(down, {"commit", "release"}, d) =>
                        InTransit(down', {"commit", "release"}, d) \/ d = c
  BY TransitTail, HeadInTransit DEF SteersInv, ExchangeTypes, FrameTypes

\* A commit that fits starts its steer, if the Run goes on.
LEMMA CommitCommandKeeps ==
  ASSUME SteersInv, link = "registered", down # <<>>, NEW m \in DownFrames, m = Head(down),
         m.kind = "commit", commitCommand(m),
         UNCHANGED <<exchange, attached, waitsAck, prepared, waitsResult, opened>>
  PROVE  SteersInv'
  <1>1. PICK c \in Steers : c = m.c /\ m.try \in 1..MaxTries /\ m.try # 0
    BY FrameFields, ExchangeBounds
  <1>2. /\ up \in Seq(UpFrames)
        /\ entry \in [Steers -> Preparations] /\ heard \in [Steers -> Nat]
        /\ steer \in [Steers -> {"none", "prepared", "running", "completed", "failed"}]
        /\ target \in {"running", "ended"}
    BY DEF SteersInv, ExchangeTypes, WorkerTypes, FrameTypes
  <1>3. SteerOK(c)
    BY DEF SteersInv
  <1>4. CASE ClientFails(FALSE)
    BY <1>4, ClientFailsKeeps
  <1>5. CASE /\ entry[c].try = m.try /\ ~entry[c].committed
             /\ entry' = [entry EXCEPT ![c].committed = TRUE]
             /\ steer' = startSteer(c) /\ down' = Tail(down)
             /\ UNCHANGED <<link, up, target, heard>>
    <2>1. /\ down' \in Seq(DownFrames) /\ InTransit(down, {"commit"}, c)
          /\ \A d : /\ InTransit(down', {"commit"}, d) => InTransit(down, {"commit"}, d)
                    /\ InTransit(down, {"commit", "release"}, d) =>
                         InTransit(down', {"commit", "release"}, d) \/ d = c
      BY <1>1, <1>5, HeadHandled
    <2>2. PICK e \in Preparations : e = entry[c]
      BY <1>2
    <2>3. PICK f : f = [e EXCEPT !.committed = TRUE]
      OBVIOUS
    <2>4. f \in Preparations /\ f.try = e.try /\ f.committed
      BY <2>3 DEF Preparations
    <2>5. entry' = [entry EXCEPT ![c] = f]
      BY <1>2, <1>5, <2>2, <2>3
    <2>6. /\ entry' \in [Steers -> Preparations] /\ entry'[c] = f
          /\ \A d \in Steers \ {c} : entry'[d] = entry[d]
      BY <1>2, <2>4, <2>5
    <2>7. /\ steer' \in [Steers -> {"none", "prepared", "running", "completed", "failed"}]
          /\ \A d \in Steers \ {c} : steer'[d] = steer[d]
          /\ \/ steer[c] = "prepared" /\ target = "running" /\ steer'[c] = "running"
             \/ ~(steer[c] = "prepared" /\ target = "running") /\ steer'[c] = steer[c]
      BY <1>2, <1>5 DEF startSteer
    <2>8. f.try # 0
      BY <1>1, <1>5, <2>2, <2>4
    <2>9. WorkerMoves(c)
      BY <1>5, <2>1, <2>4, <2>6, <2>7 DEF WorkerMoves
    <2>10. GoesOn(c)
      BY <1>5, <2>1, <2>7 DEF GoesOn, Started, MayStart
    <2>11. WorkOK(c)'
      BY <1>2, <1>3, <1>5, <2>2, <2>4, <2>6, <2>7, <2>8 DEF SteerOK, WorkOK
    <2>12. PreparationKept(c)'
      BY <2>4, <2>6 DEF PreparationKept
    <2>13. \A d \in Steers : SteerOK(d)'
      BY <2>9, <2>10, <2>11, <2>12, WorkerStep
    <2>14. WorkerTypes' /\ FrameTypes' /\ LinkClosed'
      BY <1>5, <2>1, <2>6, <2>7 DEF SteersInv, ExchangeTypes, WorkerTypes, FrameTypes, LinkClosed
    <2>15. QED
      BY <2>13, <2>14, RouterKept DEF SteersInv, ExchangeTypes
  <1>6. QED
    BY <1>1, <1>4, <1>5 DEF commitCommand

\* No preparation, as a record of its type.
LEMMA BlankEntry == NoEntry \in Preparations /\ NoEntry.try = 0 /\ ~NoEntry.committed
  BY ExchangeBounds DEF Preparations, NoEntry

\* A release that fits forgets the steer.
LEMMA ReleaseCommandKeeps ==
  ASSUME SteersInv, link = "registered", down # <<>>, NEW m \in DownFrames, m = Head(down),
         m.kind = "release", releaseCommand(m),
         UNCHANGED <<exchange, attached, waitsAck, prepared, waitsResult, opened>>
  PROVE  SteersInv'
  <1>1. PICK c \in Steers : c = m.c
    BY FrameFields
  <1>2. /\ up \in Seq(UpFrames)
        /\ entry \in [Steers -> Preparations] /\ heard \in [Steers -> Nat]
        /\ steer \in [Steers -> {"none", "prepared", "running", "completed", "failed"}]
        /\ target \in {"running", "ended"}
    BY DEF SteersInv, ExchangeTypes, WorkerTypes, FrameTypes
  <1>3. SteerOK(c)
    BY DEF SteersInv
  <1>4. CASE ClientFails(FALSE)
    BY <1>4, ClientFailsKeeps
  <1>5. CASE /\ entry' = [entry EXCEPT ![c] = NoEntry]
             /\ steer' = [steer EXCEPT ![c] = IF @ = "prepared" THEN "none" ELSE @]
             /\ down' = Tail(down)
             /\ UNCHANGED <<link, up, target, heard>>
    <2>1. /\ down' \in Seq(DownFrames)
          /\ \A d : /\ InTransit(down', {"commit"}, d) => InTransit(down, {"commit"}, d)
                    /\ InTransit(down, {"commit", "release"}, d) =>
                         InTransit(down', {"commit", "release"}, d) \/ d = c
      BY <1>1, <1>5, HeadHandled
    <2>2. PICK e \in Preparations : e = NoEntry /\ e.try = 0 /\ ~e.committed
      BY BlankEntry
    <2>3. /\ entry' \in [Steers -> Preparations] /\ entry'[c] = e
          /\ \A d \in Steers \ {c} : entry'[d] = entry[d]
      BY <1>2, <1>5, <2>2
    <2>4. /\ steer' \in [Steers -> {"none", "prepared", "running", "completed", "failed"}]
          /\ \A d \in Steers \ {c} : steer'[d] = steer[d]
          /\ steer'[c] = IF steer[c] = "prepared" THEN "none" ELSE steer[c]
      BY <1>2, <1>5
    <2>5. WorkerMoves(c)
      BY <1>5, <2>1, <2>2, <2>3, <2>4 DEF WorkerMoves
    <2>6. GoesOn(c)
      BY <1>5, <2>1, <2>4 DEF GoesOn, Started, MayStart
    <2>7. WorkOK(c)'
      BY <1>3, <1>5, <2>2, <2>3, <2>4 DEF SteerOK, WorkOK
    <2>8. PreparationKept(c)'
      BY <2>2, <2>3 DEF PreparationKept
    <2>9. \A d \in Steers : SteerOK(d)'
      BY <2>5, <2>6, <2>7, <2>8, WorkerStep
    <2>10. WorkerTypes' /\ FrameTypes' /\ LinkClosed'
      BY <1>5, <2>1, <2>3, <2>4 DEF SteersInv, ExchangeTypes, WorkerTypes, FrameTypes, LinkClosed
    <2>11. QED
      BY <2>9, <2>10, RouterKept DEF SteersInv, ExchangeTypes
  <1>6. QED
    BY <1>1, <1>4, <1>5 DEF releaseCommand

\* The Worker reads its next frame, whichever it is.
LEMMA ProcessFrameKeeps == SteersInv /\ processFrame => SteersInv'
  <1> SUFFICES ASSUME SteersInv, processFrame PROVE SteersInv'
    OBVIOUS
  <1>1. down \in Seq(DownFrames) /\ down # <<>> /\ link = "registered"
    BY DEF processFrame, SteersInv, ExchangeTypes, FrameTypes
  <1>2. UNCHANGED <<exchange, attached, waitsAck, prepared, waitsResult, opened>>
    BY DEF processFrame, routerVars
  <1>3. PICK m \in DownFrames : m = Head(down)
    BY <1>1, TransitTail
  <1>4. CASE m.kind = "steer" /\ prepareCommand(m)
    BY <1>1, <1>2, <1>3, <1>4, PrepareCommandKeeps
  <1>5. CASE m.kind = "commit" /\ commitCommand(m)
    BY <1>1, <1>2, <1>3, <1>5, CommitCommandKeeps
  <1>6. CASE m.kind = "release" /\ releaseCommand(m)
    BY <1>1, <1>2, <1>3, <1>6, ReleaseCommandKeeps
  <1>7. CASE m.kind = "close" /\ LinkEnds(m.retryable) /\ up' = <<>> /\ UNCHANGED heard
    BY <1>7, FrameFields, NoneInTransit, <1>2, LinkEndsKeeps
  <1>8. QED
    BY <1>3, <1>4, <1>5, <1>6, <1>7 DEF processFrame

\* Pi takes the text, or the Run ends before it can.
LEMMA SettlesKeeps ==
  ASSUME SteersInv, NEW c \in Steers, steerSettles(c)
  PROVE  SteersInv'
  <1>1. /\ entry \in [Steers -> Preparations] /\ heard \in [Steers -> Nat]
        /\ steer \in [Steers -> {"none", "prepared", "running", "completed", "failed"}]
    BY DEF SteersInv, ExchangeTypes, WorkerTypes
  <1>2. SteerOK(c)
    BY DEF SteersInv
  <1>3. /\ UNCHANGED <<exchange, attached, waitsAck, prepared, waitsResult, opened, link, down, up,
                       entry, target>>
        /\ steer[c] = "running"
    BY DEF steerSettles, routerVars
  <1>4. heard[c] = 0
    BY <1>2, <1>3 DEF SteerOK, WorkOK
  <1>5. /\ steer' \in [Steers -> {"none", "prepared", "running", "completed", "failed"}]
        /\ heard' \in [Steers -> Nat]
        /\ \A d \in Steers \ {c} : steer'[d] = steer[d] /\ heard'[d] = heard[d]
        /\ \/ steer'[c] = "completed" /\ heard'[c] = 1
           \/ steer'[c] = "failed" /\ heard'[c] = 0
    BY <1>1, <1>4 DEF steerSettles
  <1>6. WorkerMoves(c)
    BY <1>3, <1>5 DEF WorkerMoves
  <1>7. GoesOn(c)
    BY <1>3, <1>5 DEF GoesOn, Started, MayStart
  <1>8. WorkOK(c)'
    BY <1>2, <1>3, <1>5 DEF SteerOK, WorkOK
  <1>9. PreparationKept(c)'
    BY <1>2, <1>3 DEF SteerOK, PreparationKept
  <1>10. \A d \in Steers : SteerOK(d)'
    BY <1>6, <1>7, <1>8, <1>9, WorkerStep
  <1>11. WorkerTypes' /\ FrameTypes' /\ LinkClosed'
    BY <1>3, <1>5 DEF SteersInv, ExchangeTypes, WorkerTypes, FrameTypes, LinkClosed
  <1>12. QED
    BY <1>3, <1>10, <1>11, RouterKept DEF SteersInv, ExchangeTypes

\* The Worker reports what became of a committed steer.
LEMMA CommandResultKeeps ==
  ASSUME SteersInv, NEW c \in Steers, commandResult(c)
  PROVE  SteersInv'
  <1>1. /\ entry \in [Steers -> Preparations] /\ up \in Seq(UpFrames)
        /\ steer \in [Steers -> {"none", "prepared", "running", "completed", "failed"}]
        /\ target \in {"running", "ended"}
    BY DEF SteersInv, ExchangeTypes, WorkerTypes, FrameTypes
  <1>2. SteerOK(c)
    BY DEF SteersInv
  <1>3. /\ UNCHANGED <<exchange, attached, waitsAck, prepared, waitsResult, opened, link, down,
                       steer, target, heard>>
        /\ entry[c].committed /\ steer[c] # "running"
        /\ entry' = [entry EXCEPT ![c] = NoEntry]
    BY DEF commandResult, routerVars
  <1>4. /\ entry[c].try # 0 /\ steer[c] # "none" /\ (steer[c] = "prepared" => target = "ended")
    BY <1>2, <1>3 DEF SteerOK, WorkOK
  <1>5. entry[c].try \in 1..MaxTries
    BY <1>1, ExchangeBounds, <1>4 DEF Preparations
  <1>6. PICK kind \in {"completed", "failed"} :
          kind = IF steer[c] = "completed" THEN "completed" ELSE "failed"
    OBVIOUS
  <1>7. PICK m \in UpFrames : m = Frame(kind, c, entry[c].try) /\ m.kind = kind /\ m.c = c
    BY <1>5, <1>6, FrameFields
  <1>8. ToControl(m)
    BY <1>6, <1>7 DEF commandResult
  <1>9. /\ up' \in Seq(UpFrames)
        /\ \A kinds, d :
             /\ InTransit(up', kinds, d) => InTransit(up, kinds, d) \/ (m.kind \in kinds /\ m.c = d)
             /\ InTransit(up, kinds, d) => InTransit(up', kinds, d)
    BY <1>1, <1>8, SentUp
  <1>10. PICK e \in Preparations : e = NoEntry /\ e.try = 0 /\ ~e.committed
    BY BlankEntry
  <1>11. /\ entry' \in [Steers -> Preparations] /\ entry'[c] = e
         /\ \A d \in Steers \ {c} : entry'[d] = entry[d]
    BY <1>1, <1>3, <1>10
  <1>12. /\ m.kind \in {"completed"} => steer[c] = "completed"
         /\ m.kind \in {"failed"} =>
              steer[c] = "failed" \/ (target = "ended" /\ steer[c] \in {"none", "prepared"})
    BY <1>1, <1>3, <1>4, <1>6, <1>7
  <1>13. WorkerMoves(c)
    BY <1>3, <1>7, <1>9, <1>11, <1>12 DEF WorkerMoves
  <1>14. GoesOn(c)
    BY <1>3 DEF GoesOn, Started, MayStart
  <1>15. WorkOK(c)'
    BY <1>2, <1>3, <1>4, <1>10, <1>11 DEF SteerOK, WorkOK
  <1>16. PreparationKept(c)'
    BY <1>10, <1>11 DEF PreparationKept
  <1>17. \A d \in Steers : SteerOK(d)'
    BY <1>13, <1>14, <1>15, <1>16, WorkerStep
  <1>18. LinkClosed'
    BY <1>10, <1>11, <1>3 DEF SteersInv, LinkClosed
  <1>19. WorkerTypes' /\ FrameTypes'
    BY <1>3, <1>9, <1>11 DEF SteersInv, ExchangeTypes, WorkerTypes, FrameTypes
  <1>20. QED
    BY <1>3, <1>17, <1>18, <1>19, RouterKept DEF SteersInv, ExchangeTypes

\* The Run of the steers ends: a steer that was not started will not be.
LEMMA RunEndsKeeps == SteersInv /\ RunEnds => SteersInv'
  BY RouterKept DEF RunEnds, routerVars, SteersInv, SteerOK, CallOK, PreparationKept, WorkOK,
     ReportOK, Started, MayStart, ExchangeTypes, WorkerTypes, FrameTypes, LinkClosed

-----------------------------------------------------------------------------
(* The theorem.                                                            *)

\* No steer was called at the start.
LEMMA SteersStart == ExchangeInit => SteersInv
  <1> SUFFICES ASSUME ExchangeInit PROVE SteersInv
    OBVIOUS
  <1>1. 0 \in 0..MaxTries /\ 1 \in 1..MaxConnections /\ MaxPendingCommands \in Nat
    BY ExchangeBounds
  <1>2. NoEntry \in Preparations /\ NoExchange \in Calls
    BY <1>1 DEF NoEntry, Preparations, NoExchange, Calls
  <1>3. RouterTypes
    BY <1>1, <1>2 DEF ExchangeInit, RouterTypes, None
  <1>4. WorkerTypes
    BY <1>2 DEF ExchangeInit, WorkerTypes, None
  <1>5. FrameTypes /\ LinkClosed
    BY DEF ExchangeInit, FrameTypes, LinkClosed
  <1>6. BusyBound
    <2>1. {c \in Steers : Busy(c)} = {}
      BY DEF ExchangeInit, Busy, None
    <2>2. Cardinality({}) = 0
      BY FS_EmptySet
    <2>3. QED
      BY <1>1, <2>1, <2>2 DEF BusyBound
  <1>7. ASSUME NEW c \in Steers PROVE SteerOK(c)
    BY NoneInTransit DEF ExchangeInit, None, CallOK, NoExchange, WorkOK, PreparationKept, NoEntry,
       ReportOK, Started, MayStart, SteerOK
  <1>8. QED
    BY <1>3, <1>4, <1>5, <1>6, <1>7 DEF SteersInv, ExchangeTypes

\* Every step of the exchange keeps the invariant.
LEMMA SteersStep == SteersInv /\ [ExchangeNext]_exchangeVars => SteersInv'
  <1> SUFFICES ASSUME SteersInv, [ExchangeNext]_exchangeVars PROVE SteersInv'
    OBVIOUS
  <1>1. CASE \E c \in Steers : prepare(c) \/ ackTimesOut(c) \/ commit(c) \/ release(c) \/ resultTimesOut(c)
    BY <1>1, PrepareKeeps, TimeoutKeeps, CommitKeeps, ReleaseKeeps
  <1>2. CASE \E c \in Steers : steerSettles(c) \/ commandResult(c)
    BY <1>2, SettlesKeeps, CommandResultKeeps
  <1>3. CASE receive \/ GatewayCloses \/ LinkBreaks
    BY <1>3, ReceiveKeeps, GatewayClosesKeeps, LinkBreaksKeeps
  <1>4. CASE attach \/ processFrame \/ RunEnds
    BY <1>4, AttachKeeps, ProcessFrameKeeps, RunEndsKeeps
  <1>5. CASE UNCHANGED exchangeVars
    BY <1>5, RouterKept DEF exchangeVars, SteersInv, ExchangeTypes, WorkerTypes, FrameTypes,
       LinkClosed, SteerOK, CallOK, WorkOK, ReportOK, Started, MayStart, PreparationKept
  <1>6. QED
    BY <1>1, <1>2, <1>3, <1>4, <1>5 DEF ExchangeNext

\* A steer is given to Pi once at most and reported as it went, no call waits on
\* a connection that is gone, and no preparation is left behind: however often
\* the command is tried, and wherever its connections break
\* (remote-supervisor-steer-backend, supervisor-websocket-client).
THEOREM SteersAreSound == ExchangeSpec => []SteersSound
  <1>1. ASSUME SteersInv PROVE SteersSound
    <2>1. ExchangeTypeOK
      BY <1>1, ExchangeBounds DEF SteersInv, ExchangeTypes, RouterTypes, WorkerTypes, Calls,
         Preparations, BusyBound, ExchangeTypeOK
    <2>2. ASSUME NEW c \in Steers
          PROVE  /\ exchange[c].outcome = "delivered" => heard[c] = 1
                 /\ exchange[c].outcome = "failed" /\ ~exchange[c].unsure =>
                      heard[c] = 0 /\ steer[c] # "running"
                 /\ heard[c] <= 1
      BY <1>1 DEF SteersInv, SteerOK, CallOK, WorkOK, ReportOK, Started
    <2>3. WaitersRegistered
      BY <1>1 DEF SteersInv, SteerOK, CallOK, WaitersRegistered
    <2>4. NoOrphanPreparation
      BY <1>1 DEF SteersInv, SteerOK, WorkOK, PreparationKept, NoOrphanPreparation
    <2>5. QED
      BY <2>1, <2>2, <2>3, <2>4 DEF OutcomeTruthful, HeardOnce, SteersSound
  <1>2. QED
    BY <1>1, SteersStart, SteersStep, PTL DEF ExchangeSpec
=============================================================================
