----------------------------- MODULE MCLifecycle -----------------------------
(***************************************************************************)
(* Six scenes of RunLifecycle for TLC, explored side by side.  A scene is  *)
(* a set of Runs to accept and of environment events.                      *)
(***************************************************************************)
EXTENDS RunLifecycle, TLC

CONSTANTS r1, r2, r3, r4, s1, s2, s3, k1

VARIABLE scene

\* Two Runs in the mailbox of one Session, and one in each of two Sessions that
\* share its Workspace; s3 is a fork.
MCSessionOf ==
  [r \in Runs |-> CASE r \in {r1, r2} -> s1 [] r = r3 -> s2 [] r = r4 -> s3]
MCWorkspaceOf == [s \in Sessions |-> k1]

\* Workers are interchangeable.
WorkerSymmetry == Permutations(Workers)

\* The same system under the events of a scene.
Cancellation == INSTANCE RunLifecycle WITH
  Env <- {"cancel", "abort", "claim", "lease", "crash", "events", "projection",
          "heartbeat", "checkpoint"}
Refusals == INSTANCE RunLifecycle WITH
  Env <- {"cancel", "abort", "delivery", "block", "events"}
Contention == INSTANCE RunLifecycle WITH
  Env <- {"cancel", "lease", "checkpoint", "block"}
Branching == INSTANCE RunLifecycle WITH Env <- {"checkpoint", "crash"}

\* Only these Runs are accepted.
Only(R) == \A r \in Runs \ R : turn[r] = "absent"

\* The second Run of the mailbox is claimed once.
SecondOnce == Current(r2) <= 1

\* One claim of a Run, and one attempt at its cancellation.
ClaimedOnce == \A r \in Runs : Current(r) <= 1 /\ cancel[r].attempts <= 1

\* Workers take turns: one at a time has something under way or has crashed.
OneWorker ==
  \E w \in Workers : \A v \in Workers \ {w} :
    /\ up[v] /\ retirement[v].state = "none"
    /\ \A r \in Runs : job[v][r] = NoJob /\ cancelJob[v][r] = NoCancelJob

MCInit ==
  /\ Init
  /\ scene \in {"takeover", "cancellation", "refusals", "sharing", "contention",
               "forking"}

MCNext ==
  /\ UNCHANGED scene
  /\ \/ scene = "takeover" /\ Next /\ Only({r1, r2})' /\ SecondOnce'
     \/ scene = "cancellation" /\ Cancellation!Next /\ Only({r1})' /\ OneWorker'
     \/ scene = "refusals" /\ Refusals!Next /\ Only({r1})' /\ OneWorker'
     \/ scene = "contention" /\ Contention!Next /\ Only({r1, r3})'
        /\ ClaimedOnce'
     \/ scene = "sharing" /\ Branching!Next /\ Only({r1, r3})'
     \/ scene = "forking" /\ Branching!Next /\ Only({r1, r4})'

MCSpec == MCInit /\ [][MCNext]_<<vars, scene>>

=============================================================================
