----------------------------- MODULE PiSession ------------------------------
(***************************************************************************)
(* The durable Pi Session in PostgreSQL, the Agent runtime of a Worker     *)
(* that writes it one transaction at a time under the authority of a Run,  *)
(* the recovery of what an interrupted Run left open, and the two          *)
(* operations of the product on the same rows: forking a conversation at a *)
(* final answer and pruning everything after one.                          *)
(*                                                                         *)
(* A Session is the log of its rows in sequence order (entries, records,   *)
(* lane moves, facts) and the leaf of its lane "main".  Runs are numbered  *)
(* in the order in which they are accepted.  An identifier is the Run that *)
(* made it, what it is for, and a count.                                   *)
(***************************************************************************)
EXTENDS Naturals, Sequences, FiniteSets, SequencesExt

CONSTANTS Sessions,      \* Session identifiers; all but Root appear by forking
          Root,          \* the Session that exists at the start
          MaxRuns,       \* bound: Runs, over all Sessions
          MaxCalls,      \* bound: Tool calls of a Run
          MaxRetries,    \* retries of a failed model request (retry.maxRetries)
          MaxPrunes,     \* bound: prune operations
          MaxDetours     \* bound: departures from the shortest Run, that is
                         \* crashes, fences, exceptions, model errors, aborts,
                         \* compactions and settlement-gate rounds together

ASSUME PiAssumption ==
  /\ Root \in Sessions
  /\ {MaxRuns, MaxCalls, MaxRetries, MaxPrunes, MaxDetours} \subseteq Nat

Runs == 1 .. MaxRuns
Nil == <<0, "nil", 0>>
Id(r, what, n) == <<r, what, n>>

VARIABLES
  pi,       \* Session -> the pi_session_* rows: log, leaf of lane "main"
  product,  \* Session -> the sessions row: fork anchor, archived
  run,      \* Run -> Session, state of its Turn, pruned_at
  agent,    \* Run -> the CloudAgentRuntime that executes it
  prunes,   \* prune operations so far
  detours   \* departures from the shortest Run so far

piVars == <<pi, product, run, agent, prunes, detours>>

-----------------------------------------------------------------------------
(* Rows. *)

EntryTypes == {"user", "call", "result", "final", "gate", "marker", "compaction"}
RecordTypes == {"started", "step", "tool", "finished"}

(* A row of pi_session_log.  "of" is the Run an entry tells about, or the   *)
(* operation of a record; "link" the entry a record or a lane points to;    *)
(* "late" (kept for the properties) that its Run had lost its authority     *)
(* when the row was committed.                                              *)
Row(kind, type, id, of, link) ==
  [kind |-> kind, type |-> type, id |-> id, parent |-> Nil, of |-> of, link |-> link,
   late |-> FALSE]
EntryRow(type, id, of) == Row("entry", type, id, of, Nil)
Record(type, id, op, link) == Row("record", type, id, op, link)
LaneRow(leaf) == Row("lane", "main", Nil, 0, leaf)
NameRow == Row("fact", "name", Nil, 0, Nil)

NoLog == [exists |-> FALSE, log |-> <<>>, leaf |-> Nil]

EntryIndexes(log) == {i \in DOMAIN log : log[i].kind = "entry"}

(* pi_session_visible_entries restricted to a Session, by identifier.       *)
Visible(log) == {log[i].id : i \in EntryIndexes(log)}
SequenceOf(log, id) ==
  IF id \in Visible(log) THEN CHOOSE i \in EntryIndexes(log) : log[i].id = id ELSE 0

(* findEntriesOnBranch: the entries from the root down to one entry.        *)
Branch(log, id) ==
  LET up[i \in 0 .. Len(log)] ==
        IF i = 0 THEN <<>> ELSE Append(up[SequenceOf(log, log[i].parent)], log[i])
  IN up[SequenceOf(log, id)]

Path(s) == Branch(pi[s].log, pi[s].leaf)
OnPath(s, id) == \E i \in DOMAIN Path(s) : Path(s)[i].id = id

(* #findOpenOperations: started and not finished at a later sequence.       *)
OpenOperations(log) ==
  {log[i].of : i \in {j \in DOMAIN log :
     /\ log[j].type = "started"
     /\ ~\E k \in j + 1 .. Len(log) : log[k].type = "finished" /\ log[k].of = log[j].of}}

(* findRecords(tool_started, runId): the results that an operation owes.    *)
OwedResults(log, op) ==
  {log[i].link : i \in {j \in DOMAIN log : log[j].type = "tool" /\ log[j].of = op}}

UsedId(log, id) == \E i \in DOMAIN log : log[i].id = id

(* appendEntry: the next sequence number, the leaf of the lane as parent,   *)
(* and the lane moved to the new entry.                                     *)
AppendEntry(p, row) ==
  [p EXCEPT !.log = Append(@, [row EXCEPT !.parent = p.leaf]), !.leaf = row.id]
(* appendRecord. *)
AppendRecord(p, row) == [p EXCEPT !.log = Append(@, row)]
(* moveLane, and the same two writes in prune. *)
MoveLane(p, to) == [p EXCEPT !.leaf = to, !.log = Append(@, LaneRow(to))]

(* create: a Session and its lane "main" without a leaf. *)
Created == [exists |-> TRUE, log |-> <<>>, leaf |-> Nil]

(* forkPostgresPiSessionInTransaction and the same rows in fork: references *)
(* to the entries of the branch numbered from 1, the lane, the name.        *)
ForkedAt(p, target) ==
  [exists |-> TRUE, leaf |-> target,
   log |-> Branch(p.log, target) \o <<LaneRow(target), NameRow>>]

-----------------------------------------------------------------------------
(* Which Turn a final answer belongs to. *)

ActiveRun(r) == run[r].state = "active"
RunsOf(s) == {r \in Runs : run[r].session = s /\ run[r].state # "none"}
Settled(s) == \A r \in RunsOf(s) : ~ActiveRun(r)

(* completedTurns: in mailbox order. *)
CompletedTurns(s) ==
  SetToSortSeq({r \in RunsOf(s) : run[r].state = "completed" /\ ~run[r].pruned}, <)

(* ownBranch: what follows the anchor of a fork. *)
OwnBranch(s) ==
  LET anchor == product[s].anchor
      from == IF anchor = Nil THEN 0
              ELSE CHOOSE i \in DOMAIN Path(s) : Path(s)[i].id = anchor
  IN SubSeq(Path(s), from + 1, Len(Path(s)))

Finals(branch) == SelectSeq(branch, LAMBDA e : e.type = "final")

(* mappedConversationEntries: the last finals with the last completed Turns. *)
MappedEntries(s) ==
  LET finals == Finals(OwnBranch(s))
      turns == CompletedTurns(s)
      n == IF Len(finals) < Len(turns) THEN Len(finals) ELSE Len(turns)
  IN {[entry |-> finals[Len(finals) - k].id, turn |-> turns[Len(turns) - k]] : k \in 0 .. n - 1}

-----------------------------------------------------------------------------
(* The runtime of a Run. *)

Writing == {"open", "recover_user", "recover_tool", "recover_marker", "recover_finish",
            "start", "user", "compact_step", "compact", "step", "message", "tool",
            "result", "gate", "marker", "finish", "catch_marker", "catch_finish"}
Phases == Writing \cup {"recover", "context", "stream", "effect", "turn_end",
                        "done", "threw", "dead", "none"}

NoAgent == [pc |-> "none", tx |-> FALSE, op |-> 0, owed |-> {}, out |-> "none",
            calls |-> 0, finals |-> 0, retries |-> 0, compactions |-> 0, gated |-> FALSE]

PiInit ==
  /\ pi = [s \in Sessions |-> NoLog]
  /\ product = [s \in Sessions |-> [exists |-> s = Root, anchor |-> Nil, turn |-> 0,
                                    parent |-> s, archived |-> FALSE]]
  /\ run = [r \in Runs |-> [session |-> Root, state |-> "none", pruned |-> FALSE]]
  /\ agent = [r \in Runs |-> NoAgent]
  /\ prunes = 0
  /\ detours = 0

Detour == detours < MaxDetours /\ detours' = detours + 1

Goto(r, pc) == agent' = [agent EXCEPT ![r].pc = pc, ![r].tx = FALSE]
Quiet(r) == agent[r].pc \notin Writing \cup {"none", "done", "threw", "dead"}
Log(r) == pi[run[r].session].log

(* acceptTurn and the claim of the Run: one at a time in a Session. *)
StartRun(r, s) ==
  /\ run[r].state = "none"
  /\ \A q \in Runs : q < r => run[q].state # "none"
  /\ product[s].exists /\ ~product[s].archived
  /\ Settled(s)
  /\ run' = [run EXCEPT ![r].session = s, ![r].state = "active"]
  /\ agent' = [agent EXCEPT ![r].pc = IF pi[s].exists THEN "recover" ELSE "open"]
  /\ UNCHANGED <<pi, product, prunes, detours>>

(* assertCurrent: the Attempt is still the current one of a live Run. *)
HoldsRun(r) == ActiveRun(r)

(* #mutate reads the authority first and without a lock, so a transaction   *)
(* that found it current may commit after the Run was fenced.  The read and *)
(* the commit are one step here; it is Fence that may fall between them and *)
(* leave the transaction under way ("tx").  A refusal aborts the authority: *)
(* nothing is written any more.                                             *)
Admitted(r) == HoldsRun(r) \/ agent[r].tx
Stopped == [NoAgent EXCEPT !.pc = "dead"]
Rejected(r) ==
  /\ agent[r].pc \in Writing /\ ~Admitted(r)
  /\ agent' = [agent EXCEPT ![r] = Stopped]
  /\ UNCHANGED <<pi, product, run, prunes, detours>>

(* An error of a write: the runtime goes to its catch block, which leaves a *)
(* marker and closes its operation and ignores what fails there.            *)
AfterError(pc) ==
  CASE pc = "catch_marker" -> "catch_finish"
    [] pc = "catch_finish" -> "threw"
    [] OTHER -> "catch_marker"

NextOwed(a) == IF a.owed = {} THEN Nil ELSE CHOOSE id \in a.owed : TRUE

(* The row that a phase writes. *)
RowOf(r) ==
  LET a == agent[r] IN
  CASE a.pc = "recover_user" -> EntryRow("user", Id(a.op, "user", 0), a.op)
    [] a.pc = "recover_tool" -> EntryRow("result", NextOwed(a), a.op)
    [] a.pc = "recover_marker" -> EntryRow("marker", Id(r, "recovered", 0), a.op)
    [] a.pc = "recover_finish" -> Record("finished", Id(r, "closed", 0), a.op, Nil)
    [] a.pc = "start" -> Record("started", Id(r, "operation", 0), r, Id(r, "user", 0))
    [] a.pc = "user" -> EntryRow("user", Id(r, "user", 0), r)
    [] a.pc = "compact_step" -> Record("step", Id(r, "compacting", a.compactions), r, Nil)
    [] a.pc = "compact" -> EntryRow("compaction", Id(r, "compaction", a.compactions), r)
    [] a.pc = "step" -> Record("step", Id(r, "step", a.calls + a.finals + a.retries), r, Nil)
    [] a.pc = "message" -> EntryRow(a.out, Id(r, a.out, a.calls + a.finals), r)
    [] a.pc = "tool" -> Record("tool", Id(r, "tool", a.calls), r, Id(r, "result", a.calls))
    [] a.pc = "result" -> EntryRow("result", Id(r, "result", a.calls), r)
    [] a.pc = "gate" -> EntryRow("gate", Id(r, "gate", 0), r)
    [] a.pc \in {"marker", "catch_marker"} -> EntryRow("marker", Id(r, a.pc, 0), r)
    [] OTHER -> Record("finished", Id(r, a.pc, 0), r, Nil)

(* appendRecord refuses an operation while the lane has an open one. *)
StartRefused(log, row) == row.type = "started" /\ OpenOperations(log) # {}
Refused(log, row) == UsedId(log, row.id) \/ StartRefused(log, row)

(* Where the runtime goes after a write. *)
AfterWrite(r) ==
  LET a == agent[r] IN
  CASE a.pc = "open" -> [a EXCEPT !.pc = "recover"]
    [] a.pc = "recover_user" -> [a EXCEPT !.pc = "recover_tool"]
    [] a.pc = "recover_tool" -> [a EXCEPT !.owed = @ \ {NextOwed(a)}]
    [] a.pc = "recover_marker" -> [a EXCEPT !.pc = "recover_finish"]
    [] a.pc = "recover_finish" -> [a EXCEPT !.pc = "start"]
    [] a.pc = "start" -> [a EXCEPT !.pc = "user"]
    [] a.pc \in {"user", "result", "gate"} -> [a EXCEPT !.pc = "context"]
    [] a.pc = "compact_step" -> [a EXCEPT !.pc = "compact"]
    [] a.pc = "compact" -> [a EXCEPT !.pc = "step", !.compactions = @ + 1]
    [] a.pc = "step" -> [a EXCEPT !.pc = "stream"]
    [] a.pc = "message" /\ a.out = "call" -> [a EXCEPT !.pc = "tool", !.calls = @ + 1]
    [] a.pc = "message" -> [a EXCEPT !.pc = "turn_end", !.finals = @ + 1]
    [] a.pc = "tool" -> [a EXCEPT !.pc = "effect"]
    [] a.pc = "marker" -> [a EXCEPT !.pc = "finish"]
    [] a.pc = "catch_marker" -> [a EXCEPT !.pc = "catch_finish"]
    [] a.pc = "catch_finish" -> [a EXCEPT !.pc = "threw"]
    [] OTHER -> [a EXCEPT !.pc = "done"]

(* A recovery write whose entry is already there is skipped by getEntry.    *)
Skipped(r) ==
  LET a == agent[r] IN
  \/ a.pc = "recover_user" /\ Id(a.op, "user", 0) \in Visible(Log(r))
  \/ a.pc = "recover_tool" /\ (a.owed = {} \/ NextOwed(a) \in Visible(Log(r)))

Skip(r) ==
  /\ agent[r].pc \in {"recover_user", "recover_tool"} /\ ~agent[r].tx
  /\ Skipped(r)
  /\ agent' = [agent EXCEPT ![r] =
                 IF @.owed = {} /\ @.pc = "recover_tool" THEN [@ EXCEPT !.pc = "recover_marker"]
                 ELSE AfterWrite(r)]
  /\ UNCHANGED <<pi, product, run, prunes, detours>>

Written(p, r) ==
  LET row == [RowOf(r) EXCEPT !.late = ~HoldsRun(r)] IN
  IF agent[r].pc = "open" THEN (IF p.exists THEN p ELSE Created)
  ELSE IF row.kind = "entry" THEN AppendEntry(p, row)
  ELSE AppendRecord(p, row)

(* A transaction of the runtime. *)
Commit(r) ==
  LET s == run[r].session
      ok == agent[r].pc = "open" \/ ~Refused(pi[s].log, RowOf(r))
  IN
  /\ agent[r].pc \in Writing /\ Admitted(r)
  /\ ~Skipped(r)
  /\ IF ok
     THEN /\ pi' = [pi EXCEPT ![s] = Written(@, r)]
          /\ agent' = [agent EXCEPT ![r] = [AfterWrite(r) EXCEPT !.tx = FALSE]]
     ELSE /\ Goto(r, AfterError(agent[r].pc))
          /\ UNCHANGED pi
  /\ UNCHANGED <<product, run, prunes, detours>>

(* #recoverInterruptedOperation: the operation that the last Run left open, *)
(* and the Tool results it owes.                                            *)
FindOpen(r) ==
  LET open == OpenOperations(Log(r)) IN
  IF open = {} THEN agent' = [agent EXCEPT ![r].pc = "start"]
  ELSE LET op == CHOOSE o \in open : TRUE IN
       agent' = [agent EXCEPT ![r].pc = IF Cardinality(open) > 1 THEN "catch_marker"
                                         ELSE "recover_user",
                              ![r].op = op, ![r].owed = OwedResults(Log(r), op)]
Recover(r) ==
  /\ agent[r].pc = "recover"
  /\ FindOpen(r)
  /\ UNCHANGED <<pi, product, run, prunes, detours>>

(* transformContext: compact first when the context is too large, then ask. *)
LoadContext(r) ==
  /\ agent[r].pc = "context"
  /\ \/ Goto(r, "step") /\ UNCHANGED detours
     \/ Goto(r, "compact_step") /\ Detour
  /\ UNCHANGED <<pi, product, run, prunes>>

(* The model answers: a Tool call, a final answer, an error that is retried *)
(* or not, or the abort of a cancellation.                                  *)
Answer(r, out) ==
  /\ agent[r].pc = "stream"
  /\ out = "call" => agent[r].calls < MaxCalls
  /\ agent' = [agent EXCEPT ![r].out = out,
       ![r].pc = IF out \in {"call", "final"} THEN "message"
                 ELSE IF out = "error" /\ agent[r].retries < MaxRetries THEN "context"
                 ELSE "marker",
       ![r].retries = IF out = "error" /\ @ < MaxRetries THEN @ + 1 ELSE @]
  /\ IF out \in {"error", "aborted"} THEN Detour ELSE UNCHANGED detours
  /\ UNCHANGED <<pi, product, run, prunes>>

(* #bindTool: the Tool ran, or the Run ended under it. *)
Execute(r) ==
  /\ agent[r].pc = "effect"
  /\ agent' = [agent EXCEPT ![r] = IF HoldsRun(r) THEN [@ EXCEPT !.pc = "result"] ELSE Stopped]
  /\ UNCHANGED <<pi, product, run, prunes, detours>>

(* prepareFollowUp: code may have changed, and no follow-up was sent yet. *)
MustVerify(r) == ~agent[r].gated /\ agent[r].calls > 0

(* turn_end: the settlement gate may ask for one more round. *)
TurnEnd(r) ==
  /\ agent[r].pc = "turn_end"
  /\ \/ Goto(r, "finish") /\ UNCHANGED detours
     \/ /\ MustVerify(r)
        /\ agent' = [agent EXCEPT ![r].pc = "gate", ![r].gated = TRUE]
        /\ Detour
  /\ UNCHANGED <<pi, product, run, prunes>>

(* An exception outside a write: an event that could not be published, a    *)
(* compaction that failed.                                                  *)
Throw(r) ==
  /\ Quiet(r) /\ Detour
  /\ agent' = [agent EXCEPT ![r] = IF HoldsRun(r) THEN [@ EXCEPT !.pc = "catch_marker"] ELSE Stopped]
  /\ UNCHANGED <<pi, product, run, prunes>>

-----------------------------------------------------------------------------
(* The product. *)

(* The Turn of a runtime that returned: completed, unless its checkpoint or *)
(* its settlement failed afterwards.                                        *)
Settle(r, state) ==
  /\ ActiveRun(r) /\ agent[r].pc \in {"done", "threw"}
  /\ state = "completed" => agent[r].pc = "done" /\ agent[r].out = "final"
  /\ run' = [run EXCEPT ![r].state = state]
  /\ agent' = [agent EXCEPT ![r] = Stopped]
  /\ UNCHANGED <<pi, product, prunes, detours>>

(* The Worker dies; or its Attempt is fenced while it still runs. *)
AgentCrash(r) ==
  /\ ActiveRun(r) /\ agent[r].pc \notin {"done", "threw", "dead"}
  /\ Detour
  /\ agent' = [agent EXCEPT ![r] = Stopped]
  /\ UNCHANGED <<pi, product, run, prunes>>
Fence(r) ==
  /\ ActiveRun(r)
  /\ IF agent[r].pc = "dead" THEN UNCHANGED detours
     ELSE Detour
  /\ run' = [run EXCEPT ![r].state = "failed"]
  /\ \/ UNCHANGED agent
     \/ agent[r].pc \in Writing /\ ~Skipped(r) /\ agent' = [agent EXCEPT ![r].tx = TRUE]
  /\ UNCHANGED <<pi, product, prunes>>

(* What fork asks of its source: live, without unsettled Turns, its Pi       *)
(* Session there.                                                           *)
Forkable(s) == product[s].exists /\ ~product[s].archived /\ Settled(s) /\ pi[s].leaf # Nil

(* fork: a Session that shares the branch up to a final answer. *)
Fork(s, c) ==
  /\ Forkable(s) /\ ~product[c].exists
  /\ \E m \in MappedEntries(s) :
       /\ product' = [product EXCEPT ![c] =
                        [exists |-> TRUE, anchor |-> m.entry, turn |-> m.turn,
                         parent |-> s, archived |-> FALSE]]
       /\ pi' = [pi EXCEPT ![c] = ForkedAt(pi[s], m.entry)]
  /\ UNCHANGED <<run, agent, prunes, detours>>

(* The forks that a prune at Turn t takes along: at the anchor or later,    *)
(* and everything below them.                                               *)
Descendants(s, t) ==
  LET child(x) == {c \in Sessions : product[c].exists /\ ~product[c].archived
                                    /\ product[c].parent = x /\ c # x}
      direct == {c \in child(s) : product[c].turn >= t}
      grow[n \in 0 .. Cardinality(Sessions)] ==
        IF n = 0 THEN direct ELSE grow[n - 1] \cup UNION {child(x) : x \in grow[n - 1]}
  IN grow[Cardinality(Sessions)]

PrunableAnywhere(s) == {[entry |-> Path(s)[i].id, turn |-> Path(s)[i].of] :
                          i \in {j \in DOMAIN Path(s) : Path(s)[j].type = "final"}}
Prunable(s) == MappedEntries(s)

(* prune: later Turns are marked, later forks archived, the lane moved back. *)
PruneAt(s, m) ==
  LET gone == Descendants(s, m.turn) IN
  /\ \A c \in gone : Settled(c)
  /\ run' = [r \in Runs |-> [run[r] EXCEPT !.pruned = @ \/ (r \in RunsOf(s) /\ r > m.turn)]]
  /\ product' = [c \in Sessions |-> [product[c] EXCEPT !.archived = @ \/ c \in gone]]
  /\ pi' = [pi EXCEPT ![s] = MoveLane(@, m.entry)]
Prune(s) ==
  /\ prunes < MaxPrunes /\ prunes' = prunes + 1
  /\ product[s].exists /\ ~product[s].archived
  /\ Settled(s)
  /\ \E m \in Prunable(s) : PruneAt(s, m)
  /\ UNCHANGED <<agent, detours>>

-----------------------------------------------------------------------------
Outcomes == {"call", "final", "error", "aborted"}

Worker(r) ==
  \/ Rejected(r)
  \/ Skip(r)
  \/ Commit(r)
  \/ Recover(r)
  \/ LoadContext(r)
  \/ \E out \in Outcomes : Answer(r, out)
  \/ Execute(r)
  \/ TurnEnd(r)
  \/ Throw(r)
  \/ AgentCrash(r)

PiNext ==
  \/ \E r \in Runs : Worker(r)
  \/ \E r \in Runs, s \in Sessions : StartRun(r, s)
  \/ \E r \in Runs, state \in {"completed", "failed"} : Settle(r, state)
  \/ \E r \in Runs : Fence(r)
  \/ \E s \in Sessions, c \in Sessions : Fork(s, c)
  \/ \E s \in Sessions : Prune(s)

PiSpec == PiInit /\ [][PiNext]_piVars

-----------------------------------------------------------------------------
(* Properties. *)

Identifiers == {Nil} \cup (Runs \X {"user", "recovered", "closed", "operation", "compacting",
                 "compaction", "step", "call", "final", "tool", "result", "gate", "marker",
                 "catch_marker", "finish", "catch_finish"} \X Nat)
LogRow == [kind : {"entry", "record", "lane", "fact"},
           type : EntryTypes \cup RecordTypes \cup {"main", "name"},
           id : Identifiers, parent : Identifiers, of : 0 .. MaxRuns, link : Identifiers,
           late : BOOLEAN]

(* The rows and the records of the runtimes keep their types. *)
PiTypeOK ==
  /\ \A s \in Sessions :
       /\ pi[s].leaf \in Identifiers
       /\ \A i \in DOMAIN pi[s].log : pi[s].log[i] \in LogRow
       /\ product[s].anchor \in Identifiers /\ product[s].parent \in Sessions
  /\ \A r \in Runs :
       /\ run[r].session \in Sessions
       /\ run[r].state \in {"none", "active", "completed", "failed"}
       /\ agent[r].pc \in Phases /\ agent[r].owed \subseteq Identifiers

(* A lane never has two unfinished operations, although the Worker of the   *)
(* last Run may still commit after the next one has begun: recovery gives   *)
(* up with "multiple unfinished operations" otherwise, for ever.            *)
OneOpenOperation == \A s \in Sessions : Cardinality(OpenOperations(pi[s].log)) <= 1

(* activeBranch, ownBranch and findEntriesOnBranch never meet a missing     *)
(* parent, a cycle, or a fork whose anchor left its branch: every parent is *)
(* an entry of an earlier sequence number of the same Session, no entry is  *)
(* visible twice, and the lane stays at or below the anchor of the fork.    *)
BranchesWhole ==
  \A s \in Sessions :
    LET log == pi[s].log IN
    /\ pi[s].leaf = Nil \/ pi[s].leaf \in Visible(log)
    /\ \A i \in EntryIndexes(log) :
         /\ log[i].parent = Nil \/ SequenceOf(log, log[i].parent) \in 1 .. i - 1
         /\ SequenceOf(log, log[i].id) = i
    /\ product[s].anchor # Nil => OnPath(s, product[s].anchor)

(* Replaying the log gives the leaf that the lane row holds: what a reader  *)
(* of getLog rebuilds is what a reader of the tables sees.                  *)
ReplayedLeaf(log) ==
  LET leaf[i \in 0 .. Len(log)] ==
        IF i = 0 THEN Nil
        ELSE CASE log[i].kind = "entry" -> log[i].id
               [] log[i].kind = "lane" -> log[i].link
               [] OTHER -> leaf[i - 1]
  IN leaf[Len(log)]
LogTellsTheLeaf == \A s \in Sessions : ReplayedLeaf(pi[s].log) = pi[s].leaf

(* When recovery, or the normal end of a Run, closes an operation, every    *)
(* Tool that the operation had started under its authority has a durable    *)
(* result, be it the unknown-effect result: no Tool that may have run is    *)
(* forgotten.                                                               *)
EffectsAreKnown ==
  \A s \in Sessions :
    LET log == pi[s].log IN
    \A i \in DOMAIN log :
      log[i].type = "finished" /\ log[i].id[2] \in {"closed", "finish"} =>
        \A j \in 1 .. i - 1 :
          log[j].type = "tool" /\ log[j].of = log[i].of /\ ~log[j].late =>
            \E k \in 1 .. i - 1 : log[k].kind = "entry" /\ log[k].id = log[j].link

(* A Tool result in the context of the model follows the call it answers,   *)
(* as long as the Turn of the call was not pruned.                          *)
ResultsFollowCalls ==
  \A s \in Sessions :
    LET path == Path(s) IN
    \A i \in DOMAIN path :
      path[i].type = "result" /\ ~run[path[i].of].pruned =>
        \E j \in 1 .. i - 1 : path[j].type = "call" /\ path[j].of = path[i].of

(* The Pi log of a Session: one open operation, whole branches under its    *)
(* leaf, and an answer to every Tool call that was started.                 *)
LogSound ==
  /\ PiTypeOK /\ OneOpenOperation /\ BranchesWhole
  /\ LogTellsTheLeaf /\ EffectsAreKnown /\ ResultsFollowCalls
=============================================================================
