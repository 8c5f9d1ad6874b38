----------------------------- MODULE MCProgress -----------------------------
(***************************************************************************)
(* What must eventually happen, for TLC: small instances of the parts that *)
(* make progress on their own, each under its own fairness, side by side.  *)
(***************************************************************************)
EXTENDS RunLifecycle

CONSTANTS r1, r2, s1, k1

VARIABLES
  external, worker, net, reply, db, settle, kafka, proj, live, jobs, gateway, log,
  faults, orphans, browser,
  host, ledger, sandboxes, credentials, connections, sockets, retirements, maintenance,
  part

MCSessionOf == [r \in Runs |-> s1]
MCWorkspaceOf == [s \in Sessions |-> k1]

\* One Turn of two events, one browser.
Events == INSTANCE EventStream WITH
  MaxFence <- 1, PerTurn <- 2, MaxBatch <- 1, MaxBuffered <- 1, MaxPending <- 1,
  Modes <- {TRUE}, Faults <- {"lease", "crash", "timeout", "disconnect", "notify"},
  MaxFaults <- 1, MaxOrphans <- 0, Browsers <- {"b"}

\* A host that boots twice, one replica of the Control Plane.
Link == INSTANCE SupervisorLink WITH
  Replicas <- {"replica"}, MaxBoots <- 2, MaxSockets <- 2, MaxHistory <- 2, MaxFaults <- 1

linkOnly == <<host, ledger, sandboxes, credentials, connections, sockets, retirements,
              maintenance>>
eventOnly == <<external, worker, net, reply, db, settle, kafka, proj, live, jobs, gateway, log,
               orphans, browser>>
linkVars == <<faults, linkOnly>>
pipeVars == <<external, worker, net, reply, db, settle, kafka, proj, live, jobs, gateway, log,
              faults, orphans>>

ProgressInit ==
  /\ part \in {"runs", "events", "link"}
  /\ Init /\ Events!Init /\ Link!LinkInit

ProgressNext ==
  \/ /\ part = "runs" /\ Next
     /\ UNCHANGED <<part, faults, eventOnly, linkOnly>>
  \/ /\ part = "events" /\ Events!Next
     /\ UNCHANGED <<part, vars, linkOnly>>
  \/ /\ part = "link" /\ Link!LinkNext
     /\ UNCHANGED <<part, vars, eventOnly>>

progressVars == <<part, vars, faults, eventOnly, linkOnly>>

-----------------------------------------------------------------------------
(* Fairness: live processes take their steps, timers fire, fences are      *)
(* worked off.  Nothing is assumed of callers, faults or drains.           *)

\* Workers poll their queues, claims and leases expire, and a Sandbox whose Worker
\* is gone is fenced and retired (the loops of the Pi Worker and the reconciler).
RunFairness ==
  /\ \A r \in Runs :
       /\ WF_vars(part = "runs" /\ \E w \in Workers : ClaimSelect(w, r))
       /\ WF_vars(part = "runs" /\ ClaimExpires(r))
       /\ WF_vars(part = "runs" /\ CancelExpires(r))
  /\ \A w \in Workers, r \in Runs :
       /\ WF_vars(part = "runs" /\ Dispatch(w, r))
       /\ WF_vars(part = "runs" /\ CancelDispatch(w, r))
  /\ \A s \in Sessions :
       /\ WF_vars(part = "runs" /\ LeaseExpires(s))
       /\ WF_vars(part = "runs" /\ ProjectEvents(s))
  /\ \A w \in Workers :
       /\ WF_vars(part = "runs" /\ ~up[w] /\ FenceSandbox(w))
       /\ WF_vars(part = "runs" /\ (\/ StopAndConfirm(w) \/ LoadAssignments(w)
                                    \/ FinalizeRetirement(w) \/ RetirementFails(w)))

\* The Worker's publisher, the projector, the retention loop, the restart of a
\* gateway and the browser's reconnecting stream.
EventFairness ==
  /\ WF_pipeVars(part = "events"
                      /\ (Events!Project \/ Events!SkipProjected \/ Events!StartGateway))
  /\ WF_pipeVars(part = "events" /\ Events!WorkerProgress(1))
  /\ WF_pipeVars(part = "events" /\ (Events!Trim(1) \/ Events!RaiseFloor(1)))
  /\ WF_<<pipeVars, browser>>(part = "events" /\ Events!BrowserStep("b"))

\* The orchestrator restarts a host; host and Control Plane take every step they
\* can; a claim is tried again each time the maintenance loop comes round.
LinkFairness ==
  /\ WF_linkVars(part = "link" /\ Link!BeginBoot)
  /\ WF_linkVars(part = "link" /\ Link!Provision)
  /\ WF_linkVars(part = "link"
       /\ (\/ Link!ReceiveRegistered \/ Link!AcceptHeartbeatAcknowledgement
           \/ Link!FinishCloseRetryable \/ Link!FinishClosePermanent))
  /\ WF_linkVars(part = "link" /\ Link!TerminalFailure)
  /\ WF_linkVars(part = "link" /\ Link!SettleRun)
  /\ WF_linkVars(part = "link" /\ Link!StopSettles)
  /\ WF_linkVars(part = "link" /\ Link!Exit)
  /\ WF_linkVars(part = "link" /\ \E t \in Link!Sockets : Link!OpenSocket(t, "replica"))
  /\ \A t \in Link!Sockets :
       /\ WF_linkVars(part = "link" /\ (Link!Register(t) \/ Link!DropFrame(t)))
       /\ WF_linkVars(part = "link" /\ (Link!Heartbeat(t) \/ Link!DropFrame(t)))
       /\ WF_linkVars(part = "link" /\ Link!Cleanup(t))
       /\ WF_linkVars(part = "link" /\ Link!ExpireConnection(t))
  /\ WF_linkVars(part = "link" /\ Link!StopOwner("replica"))
  /\ WF_linkVars(part = "link" /\ Link!StopConfirmed("replica"))
  /\ WF_linkVars(part = "link" /\ Link!StopUnavailable("replica"))
  /\ WF_linkVars(part = "link" /\ Link!RenewRetirement("replica"))
  /\ WF_linkVars(part = "link" /\ Link!RetireSandbox("replica"))
  /\ WF_linkVars(part = "link" /\ Link!CompleteRetirement("replica"))
  /\ \A b \in Link!Boots :
       /\ SF_linkVars(part = "link" /\ Link!ClaimRetirement("replica", b))
       /\ WF_linkVars(part = "link" /\ Link!ClaimLapses(b))

ProgressSpec ==
  /\ ProgressInit /\ [][ProgressNext]_progressVars
  /\ RunFairness /\ EventFairness /\ LinkFairness

-----------------------------------------------------------------------------
(* What must eventually happen. *)

\* A browser that stays open sees every projected event, although connections
\* break and notifications are lost (the SSE loop and its heartbeat).
ViewCatchesUp == Events!ViewCatchesUp

\* A spool with pending events is emptied, or is set aside because its fence lost
\* the Session (the Worker's publisher and its recovery).
SpoolsDrain == Events!SpoolsDrain

\* A fenced generation of a host is retired in the end, although hosts and
\* replicas fail with a claim in hand (SupervisorConnectionManager).
FencedIsRetiredInTheEnd == Link!FencedIsRetiredInTheEnd

=============================================================================
