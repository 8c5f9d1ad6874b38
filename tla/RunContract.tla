----------------------------- MODULE RunContract -----------------------------
(***************************************************************************)
(* What PiCloud promises of a message: it is accepted into the mailbox of  *)
(* its Session, executed by one Worker at a time while nobody else works   *)
(* in the Session or its Workspace, and settled for good.  Claims, retries, *)
(* leases, acknowledgements and retirements are not to be seen.            *)
(* RunLifecycle implements it (RunRowsProofs).                             *)
(***************************************************************************)
EXTENDS Naturals

CONSTANTS Sessions, Runs, Workers, Workspaces,
          SessionOf, WorkspaceOf, Forked, NoRun, NoWorker

VARIABLES status,    \* what became of a message so far
          place,     \* its place in the mailbox, 0 before it is accepted
          executor,  \* the Worker that executes it now
          head       \* the version a Workspace stands at

Outcomes == {"completed", "failed", "cancelled"}
Statuses == {"absent", "queued", "executing"} \cup Outcomes

\* The Workspace a Run has to itself: a forked Session has a branch of its own.
Exclude(q, r) ==
  LET s == SessionOf[q]  t == SessionOf[r] IN
  s = t \/ (WorkspaceOf[s] = WorkspaceOf[t] /\ s \notin Forked /\ t \notin Forked)

\* Nobody works where r would.
Alone(r) == \A q \in Runs : status[q] = "executing" => ~Exclude(q, r)

\* Everything before r in its mailbox is settled.
First(r) ==
  \A q \in Runs :
    SessionOf[q] = SessionOf[r] /\ 0 < place[q] /\ place[q] < place[r]
      => status[q] \in Outcomes

Init ==
  /\ status = [r \in Runs |-> "absent"]
  /\ place = [r \in Runs |-> 0]
  /\ executor = [r \in Runs |-> NoWorker]
  /\ head = [k \in Workspaces |-> NoRun]

\* The message enters at the end of its Session's mailbox.
Accept(r) ==
  /\ status[r] = "absent"
  /\ status' = [status EXCEPT ![r] = "queued"]
  /\ \A q \in Runs : SessionOf[q] = SessionOf[r] => place[q] < place'[r]
  /\ place' = [place EXCEPT ![r] = place'[r]]
  /\ UNCHANGED <<executor, head>>

\* A Worker begins to execute it; nothing takes it back to the mailbox.
Start(r, w) ==
  /\ status[r] = "queued"
  /\ First(r) /\ Alone(r)
  /\ status' = [status EXCEPT ![r] = "executing"]
  /\ executor' = [executor EXCEPT ![r] = w]
  /\ UNCHANGED <<place, head>>

\* It fails without having been executed.
Reject(r) ==
  /\ status[r] = "queued"
  /\ First(r)
  /\ status' = [status EXCEPT ![r] = "failed"]
  /\ UNCHANGED <<place, executor, head>>

\* The execution ends with the result, a failure or a cancellation.  A completed
\* one may leave a version, which becomes the head of an unforked Workspace.
Finish(r, outcome) ==
  /\ status[r] = "executing"
  /\ status' = [status EXCEPT ![r] = outcome]
  /\ executor' = [executor EXCEPT ![r] = NoWorker]
  /\ \/ UNCHANGED head
     \/ /\ outcome = "completed" /\ SessionOf[r] \notin Forked
        /\ head' = [head EXCEPT ![WorkspaceOf[SessionOf[r]]] = r]
  /\ UNCHANGED place

\* The executions of a dead Worker are lost together.
Lose(w, S) ==
  /\ \A r \in S : status[r] = "executing" /\ executor[r] = w
  /\ status' = [r \in Runs |-> IF r \in S THEN "failed" ELSE status[r]]
  /\ executor' = [r \in Runs |-> IF r \in S THEN NoWorker ELSE executor[r]]
  /\ UNCHANGED <<place, head>>

Next ==
  \/ \E r \in Runs :
       \/ Accept(r) \/ Reject(r)
       \/ \E outcome \in Outcomes : Finish(r, outcome)
       \/ \E w \in Workers : Start(r, w)
  \/ \E w \in Workers, S \in SUBSET Runs : Lose(w, S)

vars == <<status, place, executor, head>>

Spec == Init /\ [][Next]_vars
=============================================================================
