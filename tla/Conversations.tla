--------------------------- MODULE Conversations ----------------------------
(***************************************************************************)
(* The rows of a tenant that its users change through the Control Plane:   *)
(* projects with their Workspace, conversations, Turns, environment        *)
(* versions and development environments.  Every request is one PostgreSQL *)
(* transaction at READ COMMITTED: it locks rows in the order of its SELECT *)
(* ... FOR UPDATE and UPDATE statements, reads other rows without a lock,  *)
(* and its writes appear at the commit.  Several Control Plane replicas    *)
(* work on the same rows.                                                  *)
(***************************************************************************)
EXTENDS Integers, FiniteSets, Sequences

CONSTANTS Clients,                \* requests that can be under way at once
          Sessions, Workspaces, Domains, Keys,
          FirstSession, FirstWorkspace,
          Images,                 \* environment images of the replicas
          MaximumProjects, MaximumSessions, MaximumUnsettledTurns,
          MaxTurns,               \* bound: Turns of a conversation
          MaxVersions,            \* bound: environment versions of a project
          MaxRequests             \* bound: requests

ASSUME ConversationsAssumption ==
  /\ FirstSession \in Sessions /\ FirstWorkspace \in Workspaces
  /\ Domains # {} /\ Images # {}
  /\ {MaximumProjects, MaximumSessions, MaximumUnsettledTurns} \subseteq Nat \ {0}
  /\ {MaxTurns, MaxVersions, MaxRequests} \subseteq Nat

VARIABLES
  conv,       \* Session -> row of sessions with its turns
  ws,         \* Workspace -> row of workspaces
  env,        \* Workspace -> environment versions of its project
  assigned,   \* Domain -> sandbox_domains.assigned_workspaces
  forks,      \* conversation_fork_operations
  deletions,  \* workspace_delete_operations
  lock,       \* row -> the client whose transaction holds it
  client,     \* Client -> its transaction
  requests    \* requests so far

rows == <<conv, ws, env, assigned, forks, deletions>>
conversationsVars == <<conv, ws, env, assigned, forks, deletions, lock, client, requests>>

Turns == 1 .. MaxTurns
Policy == "tenant_runtime_policies"
Nobody == "nobody"
Rows == {Policy} \cup Sessions \cup Workspaces \cup Domains

(* The row of a conversation.  "turns" counts its Turns, numbered by their  *)
(* mailbox position; "anchor" is the Turn of the parent it was forked at;   *)
(* "under" the environment version of each Turn.                            *)
Conversation ==
  [exists : BOOLEAN, ws : Workspaces, retention : {"ephemeral", "persistent"},
   archived : BOOLEAN, parent : Sessions, anchor : 0 .. MaxTurns,
   turns : 0 .. MaxTurns, unsettled : SUBSET Turns, completed : SUBSET Turns,
   pruned : SUBSET Turns, under : [Turns -> 0 .. MaxVersions]]
NoConversation(s) ==
  [exists |-> FALSE, ws |-> FirstWorkspace, retention |-> "ephemeral", archived |-> FALSE,
   parent |-> s, anchor |-> 0, turns |-> 0, unsettled |-> {}, completed |-> {},
   pruned |-> {}, under |-> [t \in Turns |-> 0]]

DevelopmentState == {"none", "requested", "running", "failed", "released"}
WorkspaceRow == [exists : BOOLEAN, deleted : BOOLEAN, domain : Domains,
                 development : DevelopmentState]
NoWorkspace == [exists |-> FALSE, deleted |-> FALSE, domain |-> CHOOSE d \in Domains : TRUE,
                development |-> "none"]

(* The environment versions of a project: the number of the active one, the *)
(* image each was made for, what validation said of each.                   *)
Environment == [active : 0 .. MaxVersions, image : [1 .. MaxVersions -> Images],
                state : [1 .. MaxVersions -> {"pending", "validated", "failed"}]]
FirstEnvironment(i) == [active |-> 1, image |-> [v \in 1 .. MaxVersions |-> i],
                        state |-> [v \in 1 .. MaxVersions |-> "pending"]]

Idle == [kind |-> "none", s |-> FirstSession, w |-> FirstWorkspace, x |-> "none", turn |-> 0]
NoTransaction == [request |-> Idle, step |-> 0, todo |-> {}, seen |-> {}, phase |-> "idle"]

Live(s) == conv[s].exists /\ ~conv[s].archived
LiveIn(w) == {s \in Sessions : Live(s) /\ conv[s].ws = w}
Existing == {s \in Sessions : conv[s].exists}
Open(w) == ws[w].exists /\ ~ws[w].deleted
Projects == {w \in Workspaces : Open(w)}
(* #assertNoUnsettledTurns, and the same query in fork and prune. *)
Settled(s) == conv[s].unsettled = {}
UnsettledTurns == UNION {{s} \X conv[s].unsettled : s \in Sessions}
LiveDevelopment(w) == ws[w].development \in {"requested", "running"}

(* #assignSandboxDomain: the domain with the fewest Workspaces. *)
LeastLoaded == {d \in Domains : \A e \in Domains : assigned[d] <= assigned[e]}

(* A project with one conversation that has one completed Turn. *)
ConversationsInit ==
  /\ conv = [s \in Sessions |->
       IF s = FirstSession
       THEN [NoConversation(s) EXCEPT !.exists = TRUE, !.turns = 1, !.completed = {1},
                                      !.under[1] = 1]
       ELSE NoConversation(s)]
  /\ ws = [w \in Workspaces |-> [NoWorkspace EXCEPT !.exists = w = FirstWorkspace]]
  /\ env \in {[w \in Workspaces |-> [FirstEnvironment(i) EXCEPT !.state[1] = "validated"]] :
                i \in Images}
  /\ assigned = [d \in Domains |-> IF d = NoWorkspace.domain THEN 1 ELSE 0]
  /\ forks = {}
  /\ deletions = {}
  /\ lock = [r \in Rows |-> Nobody]
  /\ client = [c \in Clients |-> NoTransaction]
  /\ requests = 0

-----------------------------------------------------------------------------
(* Requests. *)

Request(kind, s, w, x, turn) == [kind |-> kind, s |-> s, w |-> w, x |-> x, turn |-> turn]

ProjectRequests == {Request("createProject", FirstSession, w, "none", 0) : w \in Workspaces}
SessionRequests == {Request("createSession", s, w, r, 0) :
                      s \in Sessions, w \in Workspaces, r \in {"ephemeral", "persistent"}}
TurnRequests == {Request("acceptTurn", s, FirstWorkspace, i, 0) : s \in Sessions, i \in Images}
ForkRequests == {Request("fork", s, FirstWorkspace, k, t) :
                   s \in Sessions, k \in Keys, t \in Turns}
PruneRequests == {Request("prune", s, FirstWorkspace, "none", t) : s \in Sessions, t \in Turns}
(* deleteConversation is an archive. *)
ArchiveRequests == {Request(kind, s, FirstWorkspace, "none", 0) :
                      kind \in {"archive", "unarchive"}, s \in Sessions}
DeleteRequests == {Request("deleteWorkspace", FirstSession, w, k, 0) :
                     w \in Workspaces, k \in Keys}
DevelopmentRequests == {Request(kind, FirstSession, w, "none", 0) :
                          kind \in {"develop", "restart", "release"}, w \in Workspaces}
Requests == UNION {ProjectRequests, SessionRequests, TurnRequests, ForkRequests, PruneRequests,
                   ArchiveRequests, DeleteRequests, DevelopmentRequests}

(* What a replica is asked: about rows that are there, or a name for the    *)
(* rows it will make (the first free one).                                  *)
FreshSession(s) == ~conv[s].exists /\ s = CHOOSE x \in Sessions : ~conv[x].exists
FreshWorkspace(w) == ~ws[w].exists
Askable(q) ==
  /\ q.kind \in {"acceptTurn", "fork", "prune", "archive", "unarchive"} => conv[q.s].exists
  /\ q.kind \in {"fork", "prune"} => q.turn <= conv[q.s].turns
  /\ q.kind = "createSession" => FreshSession(q.s)
  /\ q.kind = "createProject" => FreshWorkspace(q.w)
  /\ q.kind \notin {"createProject"} => ws[q.w].exists

(* The idempotency record of an earlier request with the same key. *)
Replayed(q) ==
  \/ q.kind = "fork" /\ \E f \in forks : f.source = q.s /\ f.key = q.x
  \/ q.kind = "deleteWorkspace" /\ \E d \in deletions : d.ws = q.w /\ d.key = q.x

Receive(c) ==
  /\ client[c].phase = "idle"
  /\ requests < MaxRequests /\ requests' = requests + 1
  /\ \E q \in Requests :
       /\ Askable(q)
       /\ client' = [client EXCEPT ![c] =
            IF Replayed(q) THEN NoTransaction
            ELSE [NoTransaction EXCEPT !.request = q, !.phase = "locking"]]
  /\ UNCHANGED <<rows, lock>>

-----------------------------------------------------------------------------
(* Locks. *)

(* The rows that a transaction locks one after the other. *)
LockOrder(q) ==
  CASE q.kind = "createProject" -> <<{Policy}, LeastLoaded>>
    [] q.kind = "createSession" -> <<{Policy}, {q.w}>>
    [] q.kind = "acceptTurn" -> <<{Policy}, {q.s}, {conv[q.s].ws}>>
    [] q.kind = "fork" -> <<{q.s}, {Policy}>>
    [] q.kind = "unarchive" -> <<{q.s}, {conv[q.s].ws}>>
    [] q.kind \in {"archive", "prune"} -> <<{q.s}>>
    [] q.kind = "deleteWorkspace" /\ Open(q.w) -> <<{q.w}, {ws[q.w].domain}>>
    [] OTHER -> <<{q.w}>>

(* createSession and unarchive: a persistent conversation is alone. *)
MayJoin(s, w, retention) ==
  LET others == LiveIn(w) \ {s} IN
  /\ retention = "persistent" => others = {}
  /\ \A o \in others : conv[o].retention # "persistent"

(* createProject. *)
ProjectAdmitted == Cardinality(Projects) < MaximumProjects
(* createSession and fork count the rows of all Sessions, archived or not.  *)
SessionAdmittedAmongLive == Cardinality({s \in Sessions : Live(s)}) < MaximumSessions
SessionAdmitted == Cardinality(Existing) < MaximumSessions
CreateSessionAllowed(q) ==
  /\ Open(q.w) /\ SessionAdmitted
  /\ MayJoin(q.s, q.w, q.x)

(* #acceptNewTurn, after its locks: the Workspace is there, the             *)
(* conversation live, the tenant below its limit, the active environment    *)
(* not failed (and the bounds of the model are not reached).                *)
EnvironmentUsable(w, i) ==
  /\ env[w].state[env[w].active] # "failed"
  /\ env[w].image[env[w].active] = i \/ env[w].active < MaxVersions
AcceptAllowed(q) ==
  /\ Open(conv[q.s].ws) /\ Live(q.s) /\ conv[q.s].turns < MaxTurns
  /\ Cardinality(UnsettledTurns) < MaximumUnsettledTurns
  /\ EnvironmentUsable(conv[q.s].ws, q.x)

(* fork and prune: the target is a completed Turn that was not pruned. *)
TargetVisible(q) == q.turn \in conv[q.s].completed \ conv[q.s].pruned
ForkAllowed(q) == Live(q.s) /\ Settled(q.s) /\ TargetVisible(q)
PruneAllowed(q) == Live(q.s) /\ Settled(q.s) /\ TargetVisible(q)
ArchiveAllowed(q) == Live(q.s) /\ Settled(q.s)
(* unarchive reads its parent without a lock. *)
UnarchiveAllowed(q) == ~Live(q.s) /\ Settled(q.s) /\ (conv[q.s].parent = q.s \/ Live(conv[q.s].parent))

(* deleteWorkspace of a Workspace that is not deleted yet. *)
DeleteAllowed(w) == LiveIn(w) = {} /\ ~LiveDevelopment(w)

RunningIn(w) == \E s \in Sessions : conv[s].ws = w /\ ~Settled(s)
DevelopAllowed(q) ==
  CASE q.kind = "develop" -> Open(q.w) /\ ~RunningIn(q.w) /\ ~LiveDevelopment(q.w)
    [] q.kind = "restart" -> ws[q.w].development = "failed" /\ ~RunningIn(q.w)
    [] OTHER -> ws[q.w].development \in {"requested", "running", "failed"}

(* What a transaction checks when it has locked its n-th row. *)
Allowed(q, n) ==
  CASE q.kind = "createProject" -> n = 1 => ProjectAdmitted
    [] q.kind = "createSession" -> n = 2 => CreateSessionAllowed(q)
    [] q.kind = "acceptTurn" -> n = 3 => AcceptAllowed(q)
    [] q.kind = "fork" -> IF n = 1 THEN ForkAllowed(q) ELSE SessionAdmitted
    [] q.kind = "prune" -> PruneAllowed(q)
    [] q.kind = "archive" -> ArchiveAllowed(q)
    [] q.kind = "unarchive" ->
         IF n = 1 THEN UnarchiveAllowed(q)
         ELSE Open(conv[q.s].ws) /\ MayJoin(q.s, conv[q.s].ws, conv[q.s].retention)
    [] q.kind = "deleteWorkspace" -> n = 1 /\ Open(q.w) => DeleteAllowed(q.w)
    [] OTHER -> DevelopAllowed(q)

Held(c) == {r \in Rows : lock[r] = c}
Release(c) == [r \in Rows |-> IF lock[r] = c THEN Nobody ELSE lock[r]]

(* The transaction is rolled back. *)
Abort(c) ==
  /\ client' = [client EXCEPT ![c] = NoTransaction]
  /\ lock' = Release(c)
  /\ UNCHANGED <<rows, requests>>

(* The rows one of which a client waits for. *)
Wanted(c) ==
  CASE client[c].phase = "locking" -> LockOrder(client[c].request)[client[c].step + 1]
    [] client[c].phase = "updating" -> client[c].todo
    [] OTHER -> {}

Recursive(q) == q.kind \in {"archive", "prune"}

TakeLock(c) ==
  LET q == client[c].request
      n == client[c].step + 1
  IN
  /\ client[c].phase = "locking"
  /\ \E r \in Wanted(c) :
       /\ lock[r] \in {Nobody, c}
       /\ IF ~Allowed(q, n) THEN Abort(c)
          ELSE /\ lock' = [lock EXCEPT ![r] = c]
               /\ client' = [client EXCEPT ![c].step = n,
                    ![c].phase = IF n < Len(LockOrder(q)) THEN "locking"
                                 ELSE IF Recursive(q) THEN "looking" ELSE "writing"]
               /\ UNCHANGED <<rows, requests>>

-----------------------------------------------------------------------------
(* Descendants. *)

Children(x) == {c \in Sessions : Live(c) /\ conv[c].parent = x /\ c # x}
(* The recursive queries of archive and prune; prune begins with the forks  *)
(* at its Turn or later.                                                    *)
Family(q) ==
  LET first == {c \in Children(q.s) : q.kind = "prune" => conv[c].anchor >= q.turn}
      grow[n \in 0 .. Cardinality(Sessions)] ==
        IF n = 0 THEN first ELSE grow[n - 1] \cup UNION {Children(x) : x \in grow[n - 1]}
  IN grow[Cardinality(Sessions)]

(* The descendants are read and found settled without a lock on them. *)
ReadFamily(c) ==
  LET family == Family(client[c].request) IN
  /\ client[c].phase = "looking"
  /\ IF \E d \in family : ~Settled(d) THEN Abort(c)
     ELSE /\ client' = [client EXCEPT ![c].todo = family, ![c].seen = family,
                          ![c].phase = IF family = {} THEN "writing" ELSE "updating"]
          /\ UNCHANGED <<rows, lock, requests>>

(* The UPDATE that archives them locks one row after the other. *)
UpdateDescendant(c) ==
  /\ client[c].phase = "updating"
  /\ \E d \in client[c].todo :
       /\ lock[d] = Nobody
       /\ lock' = [lock EXCEPT ![d] = c]
       /\ client' = [client EXCEPT ![c].todo = @ \ {d},
                       ![c].phase = IF client[c].todo = {d} THEN "writing" ELSE "updating"]
  /\ UNCHANGED <<rows, requests>>

-----------------------------------------------------------------------------
(* Writes. *)

(* The environment a Turn runs under: the active version, or the next one   *)
(* when the replica that accepts the Turn serves another image.             *)
ActiveEnvironment(w, i) ==
  LET e == env[w] IN
  IF e.image[e.active] = i THEN e
  ELSE [e EXCEPT !.active = @ + 1, !.image[e.active + 1] = i]

CreateProject(q, d) ==
  /\ ws' = [ws EXCEPT ![q.w] = [NoWorkspace EXCEPT !.exists = TRUE, !.domain = d]]
  /\ assigned' = [assigned EXCEPT ![d] = @ + 1]
  /\ UNCHANGED <<conv, env, forks, deletions>>

CreateSession(q) ==
  /\ conv' = [conv EXCEPT ![q.s] = [NoConversation(q.s) EXCEPT !.exists = TRUE, !.ws = q.w,
                                                               !.retention = q.x]]
  /\ UNCHANGED <<ws, env, assigned, forks, deletions>>

AcceptTurn(q) ==
  LET t == conv[q.s].turns + 1
      w == conv[q.s].ws
  IN
  /\ env' = [env EXCEPT ![w] = ActiveEnvironment(w, q.x)]
  /\ conv' = [conv EXCEPT ![q.s].turns = t, ![q.s].unsettled = @ \cup {t},
                          ![q.s].under[t] = env'[w].active]
  /\ UNCHANGED <<ws, assigned, forks, deletions>>

(* The primary key of the operations makes the second fork with a key roll  *)
(* back and answer with the first.                                          *)
Fork(q, child) ==
  IF Replayed(q) THEN UNCHANGED rows
  ELSE /\ conv' = [conv EXCEPT ![child] =
            [NoConversation(child) EXCEPT !.exists = TRUE, !.ws = conv[q.s].ws, !.parent = q.s,
               !.anchor = q.turn, !.retention = conv[q.s].retention]]
       /\ forks' = forks \cup {[source |-> q.s, key |-> q.x]}
       /\ UNCHANGED <<ws, env, assigned, deletions>>

Archived(q, seen) ==
  [s \in Sessions |->
     [conv[s] EXCEPT !.archived = @ \/ s \in seen \/ (q.kind = "archive" /\ s = q.s)]]
Archive(q, seen) ==
  /\ conv' = Archived(q, seen)
  /\ UNCHANGED <<ws, env, assigned, forks, deletions>>
Prune(q, seen) ==
  /\ conv' = [Archived(q, seen) EXCEPT ![q.s].pruned = @ \cup {t \in 1 .. conv[q.s].turns : t > q.turn}]
  /\ UNCHANGED <<ws, env, assigned, forks, deletions>>
Unarchive(q) ==
  /\ conv' = [conv EXCEPT ![q.s].archived = FALSE]
  /\ UNCHANGED <<ws, env, assigned, forks, deletions>>

DeleteWorkspace(q) ==
  IF Replayed(q) THEN UNCHANGED rows
  ELSE /\ deletions' = deletions \cup {[ws |-> q.w, key |-> q.x]}
       /\ ws' = [ws EXCEPT ![q.w].deleted = TRUE]
       /\ assigned' = IF ws[q.w].deleted THEN assigned
                      ELSE [assigned EXCEPT ![ws[q.w].domain] = IF @ = 0 THEN 0 ELSE @ - 1]
       /\ UNCHANGED <<conv, env, forks>>

Develop(q) ==
  /\ ws' = [ws EXCEPT ![q.w].development = IF q.kind = "release" THEN "released" ELSE "requested"]
  /\ UNCHANGED <<conv, env, assigned, forks, deletions>>

Write(c, q) ==
  \/ q.kind = "createProject" /\ \E d \in Held(c) \cap Domains : CreateProject(q, d)
  \/ q.kind = "createSession" /\ CreateSession(q)
  \/ q.kind = "acceptTurn" /\ AcceptTurn(q)
  \/ q.kind = "fork" /\ \E child \in Sessions : FreshSession(child) /\ Fork(q, child)
  \/ q.kind = "archive" /\ Archive(q, client[c].seen)
  \/ q.kind = "prune" /\ Prune(q, client[c].seen)
  \/ q.kind = "unarchive" /\ Unarchive(q)
  \/ q.kind = "deleteWorkspace" /\ DeleteWorkspace(q)
  \/ q.kind \in {"develop", "restart", "release"} /\ Develop(q)

(* A row that the request wanted to make and that meanwhile exists under    *)
(* the name the model chose for it.                                         *)
NameTaken(q) ==
  \/ q.kind = "createSession" /\ conv[q.s].exists
  \/ q.kind = "createProject" /\ ws[q.w].exists
  \/ q.kind = "fork" /\ Existing = Sessions

Commit(c) ==
  /\ client[c].phase = "writing"
  /\ IF NameTaken(client[c].request) THEN Abort(c)
     ELSE /\ Write(c, client[c].request)
          /\ client' = [client EXCEPT ![c] = NoTransaction]
          /\ lock' = Release(c)
          /\ UNCHANGED requests

(* PostgreSQL aborts a transaction of a cycle of waiting ones. *)
WaitsFor(c, d) == Wanted(c) # {} /\ \A r \in Wanted(c) : lock[r] \notin {Nobody, c}
                  /\ \E q \in Wanted(c) : lock[q] = d
Deadlocked(c) == \E d \in Clients : WaitsFor(c, d) /\ WaitsFor(d, c)
Victim(c) == Deadlocked(c) /\ Abort(c)

-----------------------------------------------------------------------------
(* What others write. *)

(* The settlement of a Turn by its executor: completion, whose checkpoint   *)
(* has validated the environment version it ran under, or a failure, which  *)
(* marks that version failed when it was the environment's (#recordFailure).*)
Settle(s, outcome) ==
  \E t \in conv[s].unsettled :
    /\ \A u \in conv[s].unsettled : t <= u
    /\ lock[s] = Nobody
    /\ conv' = [conv EXCEPT ![s].unsettled = @ \ {t},
                            ![s].completed = IF outcome = "completed" THEN @ \cup {t} ELSE @]
    /\ env' = [env EXCEPT ![conv[s].ws].state[conv[s].under[t]] =
                 CASE outcome = "completed" -> "validated"
                   [] outcome = "environment_failed" -> "failed"
                   [] OTHER -> @]
    /\ UNCHANGED <<ws, assigned, forks, deletions, lock, client, requests>>

(* #provision: the descriptor needs a Workspace that is not deleted.  It    *)
(* may fail and leave the request where it is.                              *)
Provision(w) ==
  /\ ws[w].development = "requested" /\ Open(w)
  /\ env[w].state[env[w].active] # "failed"
  /\ \E to \in {"running", "failed"} : ws' = [ws EXCEPT ![w].development = to]
  /\ UNCHANGED <<conv, env, assigned, forks, deletions, lock, client, requests>>

ConversationsNext ==
  \/ \E c \in Clients : \/ Receive(c)
                        \/ TakeLock(c)
                        \/ ReadFamily(c)
                        \/ UpdateDescendant(c)
                        \/ Commit(c)
                        \/ Victim(c)
  \/ \E s \in Sessions, outcome \in {"completed", "failed", "environment_failed"} :
       Settle(s, outcome)
  \/ \E w \in Workspaces : Provision(w)

ConversationsSpec == ConversationsInit /\ [][ConversationsNext]_conversationsVars

-----------------------------------------------------------------------------
(* Properties. *)

ConversationsTypeOK ==
  /\ conv \in [Sessions -> Conversation]
  /\ ws \in [Workspaces -> WorkspaceRow]
  /\ env \in [Workspaces -> Environment]
  /\ assigned \in [Domains -> 0 .. Cardinality(Workspaces)]
  /\ lock \in [Rows -> Clients \cup {Nobody}]

(* Concurrent createProject, createSession, fork and acceptTurn never take  *)
(* a tenant past its limits, although fork counts before it knows of the    *)
(* others: they all meet at the row of the tenant's policy.                 *)
QuotasHold ==
  /\ Cardinality(Projects) <= MaximumProjects
  /\ Cardinality(Existing) <= MaximumSessions
  /\ Cardinality(UnsettledTurns) <= MaximumUnsettledTurns

(* Nothing lives in a deleted Workspace: no conversation (fork inserts one  *)
(* without locking the Workspace; unarchive brings one back), no running    *)
(* development environment (a failed one may be started again later).       *)
DeletedWorkspaceUnused ==
  \A w \in Workspaces : ws[w].deleted => LiveIn(w) = {} /\ ws[w].development # "running"

(* Each domain counts exactly the Workspaces that are assigned to it, after *)
(* repeated and concurrent deletions too.                                   *)
DomainsCounted ==
  \A d \in Domains : assigned[d] = Cardinality({w \in Projects : ws[w].domain = d})

(* A fork repeated or raced with the same key leaves one child.             *)
ForkedOncePerKey ==
  Cardinality({s \in Sessions : conv[s].exists /\ conv[s].parent # s}) = Cardinality(forks)

(* "Archived Session cannot accept turns", whatever was archived while the  *)
(* request waited for its locks.                                            *)
ArchivedTakesNoTurns ==
  [][\A s \in Sessions : conv[s].archived => conv'[s].turns = conv[s].turns]_conversationsVars

(* A version is validated only by a Turn that ran under it, although        *)
(* replicas with different images replace the active version under Turns    *)
(* that are still running.                                                  *)
ValidatedByItsOwnTurn ==
  \A w \in Workspaces : \A v \in 2 .. MaxVersions :
    env[w].state[v] = "validated" =>
      \E s \in Sessions : conv[s].ws = w /\ \E t \in conv[s].completed : conv[s].under[t] = v

(* A lock is held only by a transaction that goes on: one of the waiting    *)
(* ones can always proceed, or is in a cycle that PostgreSQL breaks.        *)
NobodyStuck ==
  /\ \A r \in Rows : lock[r] # Nobody => client[lock[r]].phase # "idle"
  /\ (\E c \in Clients : client[c].phase # "idle") =>
       \E c \in Clients :
         \/ client[c].phase \in {"looking", "writing"}
         \/ \E r \in Wanted(c) : lock[r] \in {Nobody, c}
         \/ Deadlocked(c)

(* Limits, counters and lifecycles of conversations and Workspaces hold in  *)
(* every interleaving of the requests' row locks.                           *)
ConversationsSound ==
  /\ ConversationsTypeOK /\ QuotasHold /\ DeletedWorkspaceUnused /\ DomainsCounted
  /\ ForkedOncePerKey /\ ValidatedByItsOwnTurn /\ NobodyStuck
=============================================================================
