----------------------------- MODULE MCSandboxes -----------------------------
(***************************************************************************)
(* Scenes of the Tool Broker, and the guest and Volume of one Workspace,   *)
(* for TLC, side by side.  A scene says which holders compete, and on how  *)
(* many replicas.                                                          *)
(***************************************************************************)
EXTENDS SandboxBroker, CubeWorkspace, TLC

CONSTANTS b1, b2, r1, r2, t1, t2, e1, w1, w2, s1, s2

VARIABLE scene

\* One terminal is in a Workspace of its own.
MCWorkspaceOf == [h \in Holders |-> IF h = t2 THEN w2 ELSE w1]
\* A parent's Session and its Subagent's.
MCSessionOf == [r \in Runs |-> IF r = r1 THEN s1 ELSE s2]
MCDelegations == {<<s1, s2>>}

BrokerSymmetry == Permutations(Brokers)

\* One replica is started, and nothing fails.
OneReplica == inst[b2] = "absent" /\ faults = 0

Failover == INSTANCE SandboxBroker WITH Dispositions <- {"ephemeral"}

SandboxesInit ==
  /\ scene \in {"run_terminal", "run_environment", "environment_terminal", "handoff", "admission", "guest"}
  /\ Init /\ CubeInit

SandboxesNext ==
  /\ UNCHANGED scene
  /\ \/ scene = "guest" /\ CubeNext /\ UNCHANGED vars
     \/ /\ UNCHANGED workspaceVars
        /\ \/ scene = "run_terminal" /\ Failover!StepsOf({r1}, {t1}, {})
           \/ scene = "run_environment" /\ Failover!StepsOf({r1}, {}, {e1})
           \/ scene = "environment_terminal" /\ Failover!StepsOf({}, {t1}, {e1})
           \/ scene = "handoff" /\ StepsOf({r1, r2}, {}, {}) /\ OneReplica'
           \/ scene = "admission" /\ Failover!StepsOf({r1}, {t2}, {})

SandboxesSpec == SandboxesInit /\ [][SandboxesNext]_<<vars, workspaceVars, scene>>

==============================================================================
