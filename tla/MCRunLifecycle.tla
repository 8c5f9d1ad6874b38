--------------------------- MODULE MCRunLifecycle ---------------------------
(***************************************************************************)
(* Instances of RunLifecycle for TLC.                                      *)
(***************************************************************************)
EXTENDS RunLifecycle, TLC

CONSTANTS r1, r2, s1, s2, k1, k2

\* Two Runs in the mailbox of one Session.
OneSession == [r \in Runs |-> s1]

\* One Run in each of two Sessions.
TwoSessions == [r \in Runs |-> IF r = r1 THEN s1 ELSE s2]

\* Sessions that share a Workspace, and Sessions that do not.
OneWorkspace == [s \in Sessions |-> k1]
TwoWorkspaces == [s \in Sessions |-> IF s = s1 THEN k1 ELSE k2]

\* Workers are interchangeable.
WorkerSymmetry == Permutations(Workers)

=============================================================================
