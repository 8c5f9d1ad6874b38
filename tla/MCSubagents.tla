----------------------------- MODULE MCSubagents -----------------------------
(***************************************************************************)
(* Scenes of SubagentTree, and SubagentChannel, for TLC, side by side.     *)
(* A scene is an instance of the tree under its own environment.           *)
(***************************************************************************)
EXTENDS SubagentTree, SubagentChannel, TLC

CONSTANTS p1, c1, d1, g1

VARIABLE scene

\* Two of the Runs that are not conversations are interchangeable.
ChildSymmetry == Permutations({c1, d1})

\* A child of a child, under a user's cancellation.
Nested == INSTANCE SubagentTree WITH
  Modes <- {"none"}, MaximumConcurrentTurns <- 4, MaximumConcurrentRuns <- 4,
  Env <- {"cancel"}

\* Children with Workspaces of their own.
Isolated(E) == INSTANCE SubagentTree WITH
  Modes <- {"isolated"}, MaximumDepth <- 1, MaximumConcurrentTurns <- 4, Env <- E

\* These Runs take no part in the scene.
Absent(R) == \A r \in R : node[r].parent = NoRun

\* Every Run delegates to one child at most, and status is asked of one child
\* at a time.
OneAtATime ==
  \A r, s \in Runs \ Roots : r # s =>
    /\ node[r].parent # NoRun => node[r].parent # node[s].parent
    /\ polled[r] = "absent" \/ polled[s] = "absent"

SubagentsInit ==
  /\ scene \in {"nested", "isolated", "siblings", "delegation", "channel"}
  /\ Init /\ ChannelInit

SubagentsNext ==
  /\ UNCHANGED scene
  /\ \/ scene = "channel" /\ ChannelNext /\ UNCHANGED vars
     \/ /\ UNCHANGED channelVars
        /\ \/ scene = "nested" /\ Nested!Next /\ Absent({g1})' /\ OneAtATime'
           \/ scene = "isolated" /\ Isolated({"cancel", "crash", "defer", "timeout"})!Next
              /\ Absent({d1, g1})'
           \/ scene = "siblings" /\ Isolated({"crash", "defer", "timeout"})!Next /\ Absent({g1})'
           \/ scene = "delegation" /\ Next

\* A Worker that dies while it relays a cancellation leaves the rest to the
\* reaper, which does not know the children of a conversation: what the tree
\* promises of a cancellation holds where the relay survives.
CancellationRelayed == scene # "isolated" => CancellationReachesDescendants

SubagentsSpec == SubagentsInit /\ [][SubagentsNext]_<<vars, channelVars, scene>>

==============================================================================
