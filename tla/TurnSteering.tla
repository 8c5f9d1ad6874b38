---------------------------- MODULE TurnSteering ----------------------------
(***************************************************************************)
(* A steer: text for the Pi Run that is executing                          *)
(* (control-plane/turn-steering-service.ts and                             *)
(* http-supervisor-management.ts, supervisor-host's management server, and *)
(* sandbox-supervisor/agent-run-supervisor.ts with its turn runners).      *)
(*                                                                         *)
(* A browser posts the text with an Idempotency-Key to any Control Plane   *)
(* replica, and again when it has no answer.  The replica records a        *)
(* turn.steer command for the current Attempt, posts it to that Attempt's  *)
(* Worker at most twice, and records the outcome.  The Worker keeps what   *)
(* it has seen of a command, so that a repeated post is not a second       *)
(* message to Pi.                                                          *)
(***************************************************************************)
EXTENDS Integers, FiniteSets

CONSTANTS
    SteerKeys,      \* idempotency keys
    SteerTexts,
    SteerCalls,     \* HTTP calls of browsers
    Replicas,       \* Control Plane replicas
    NoCall,
    SteerAttempts,  \* Attempts of the Run, numbered
    MaxSteerFaults  \* lost answers, late posts and lost leases

ASSUME SteeringConstants ==
    /\ SteerAttempts \subseteq Nat \ {0} /\ NoCall \notin SteerCalls
    /\ MaxSteerFaults \in Nat

VARIABLES
    piRun,        \* the Pi Run of an Attempt on its Worker
    current,      \* the Attempt with the lease, 0 when the Turn is not running
    steerCommand, \* the turn.steer command of a key
    call,         \* where TurnSteeringService.deliver is with a call
    inflight,     \* the call a replica delivers a key for
    steerOf,      \* #steersByCommand of an Attempt's Worker
    received,     \* the messages Pi was given
    latePosts,    \* posts whose sender has given up
    steerFaults

steerVars == <<piRun, current, steerCommand, call, inflight, steerOf, received,
               latePosts, steerFaults>>

NoSteer == [state |-> "none", text |-> CHOOSE t \in SteerTexts : TRUE, attempt |-> 0]

NewCall == [at |-> "none", key |-> CHOOSE k \in SteerKeys : TRUE,
            text |-> CHOOSE t \in SteerTexts : TRUE,
            replica |-> CHOOSE p \in Replicas : TRUE, stored |-> "none",
            taken |-> FALSE, answer |-> "none"]

SteerTypeOK ==
    /\ piRun \in [SteerAttempts -> {"none", "starting", "ready", "ended"}]
    /\ current \in SteerAttempts \cup {0}
    /\ \A k \in SteerKeys : steerCommand[k].state \in
          {"none", "pending", "dispatched", "completed", "failed"}
    /\ \A c \in SteerCalls :
          /\ call[c].at \in {"none", "create", "deliver", "join", "assign", "post1",
                             "post2", "answered"}
          /\ call[c].answer \in {"none", "delivered", "conflict", "unknown"}
    /\ inflight \in [Replicas -> [SteerKeys -> SteerCalls \cup {NoCall}]]
    /\ steerOf \in [SteerAttempts -> [SteerKeys -> {"none", "running", "completed", "failed"}]]
    /\ latePosts \subseteq SteerAttempts \X SteerKeys

SteerInit ==
    /\ piRun = [a \in SteerAttempts |-> "none"] /\ current = 0
    /\ steerCommand = [k \in SteerKeys |-> NoSteer]
    /\ call = [c \in SteerCalls |-> NewCall]
    /\ inflight = [p \in Replicas |-> [k \in SteerKeys |-> NoCall]]
    /\ steerOf = [a \in SteerAttempts |-> [k \in SteerKeys |-> "none"]]
    /\ received = [a \in SteerAttempts |-> [k \in SteerKeys |-> 0]]
    /\ latePosts = {} /\ steerFaults = 0

SteerFault == steerFaults < MaxSteerFaults /\ steerFaults' = steerFaults + 1

At(c, x) == call[c].at = x

-----------------------------------------------------------------------------
(* The Run that is steered.                                                 *)

\* An Attempt is acknowledged; the runner's slot is there before its Pi is.
StartPiRun(a) ==
    /\ current = 0 /\ piRun[a] = "none"
    /\ \A b \in SteerAttempts : b < a => piRun[b] # "none"
    /\ current' = a /\ piRun' = [piRun EXCEPT ![a] = "starting"]
    /\ UNCHANGED <<steerCommand, call, inflight, steerOf, received, latePosts, steerFaults>>

\* What a steer that waits becomes when Pi is ready, or when the Run ends.
Waiting(a, outcome) ==
    steerOf' = [steerOf EXCEPT ![a] =
        [k \in SteerKeys |-> IF @[k] = "running" THEN outcome ELSE @[k]]]

PiReady(a) ==
    /\ piRun[a] = "starting" /\ piRun' = [piRun EXCEPT ![a] = "ready"]
    /\ Waiting(a, "completed")
    /\ received' = [received EXCEPT ![a] =
          [k \in SteerKeys |-> IF steerOf[a][k] = "running" THEN @[k] + 1 ELSE @[k]]]
    /\ UNCHANGED <<current, steerCommand, call, inflight, latePosts, steerFaults>>

\* The Run ends on the Worker; the steers that wait for it are rejected.
PiEnds(a) ==
    /\ piRun[a] \in {"starting", "ready"} /\ piRun' = [piRun EXCEPT ![a] = "ended"]
    /\ Waiting(a, "failed")
    /\ UNCHANGED <<current, steerCommand, call, inflight, received, latePosts, steerFaults>>

\* The Turn settles, or its lease is lost while the Worker goes on.
LeaseEnds ==
    /\ current # 0 /\ current' = 0
    /\ \/ piRun[current] = "ended" /\ UNCHANGED steerFaults
       \/ piRun[current] # "ended" /\ SteerFault
    /\ UNCHANGED <<piRun, steerCommand, call, inflight, steerOf, received, latePosts>>

-----------------------------------------------------------------------------
(* TurnSteeringService.                                                     *)

Answer(c, x) == call' = [call EXCEPT ![c].at = "answered", ![c].answer = x]

\* deliver: #load, then the answer that is known, #create, or a delivery.
deliver(c, k, t, p) ==
    LET row == steerCommand[k]
        new == [NewCall EXCEPT !.key = k, !.text = t, !.replica = p, !.stored = row.state]
    IN  /\ At(c, "none")
        /\ call' = [call EXCEPT ![c] =
             CASE row.state = "none" -> [new EXCEPT !.at = "create"]
               [] row.state # "none" /\ (row.text # t \/ row.state = "failed") ->
                     [new EXCEPT !.at = "answered", !.answer = "conflict"]
               [] row.state = "completed" /\ row.text = t ->
                     [new EXCEPT !.at = "answered", !.answer = "delivered"]
               [] OTHER -> [new EXCEPT !.at = "deliver"]]
        /\ UNCHANGED <<piRun, current, steerCommand, inflight, steerOf, received,
                       latePosts, steerFaults>>

\* #activeTarget: the Attempt that holds the lease.
activeTarget == current

\* #create.  Of two calls with a new key one inserts the command; the other
\* takes what it finds, whatever its state.
create(c) ==
    LET k == call[c].key
        row == steerCommand[k]
    IN  /\ At(c, "create")
        /\ \/ /\ row.state = "none" /\ activeTarget # 0
              /\ steerCommand' = [steerCommand EXCEPT ![k] =
                    [state |-> "pending", text |-> call[c].text, attempt |-> activeTarget]]
              /\ call' = [call EXCEPT ![c].at = "deliver", ![c].stored = "pending"]
           \/ /\ row.state = "none" /\ activeTarget = 0
              /\ Answer(c, "conflict") /\ UNCHANGED steerCommand
           \/ /\ row.state # "none" /\ row.text = call[c].text
              /\ call' = [call EXCEPT ![c].at = "deliver", ![c].stored = row.state]
              /\ UNCHANGED steerCommand
           \/ /\ row.state # "none" /\ row.text # call[c].text
              /\ Answer(c, "conflict") /\ UNCHANGED steerCommand
        /\ UNCHANGED <<piRun, current, inflight, steerOf, received, latePosts, steerFaults>>

\* The command leaves "pending" when a replica starts to deliver it.
markDispatched(c) ==
    LET k == call[c].key
    IN  steerCommand' = IF call[c].stored = "pending" /\ steerCommand[k].state = "pending"
                          THEN [steerCommand EXCEPT ![k].state = "dispatched"]
                          ELSE steerCommand

\* A replica delivers a key for one call at a time; others wait for that one.
deliverStored(c) ==
    LET k == call[c].key
        p == call[c].replica
    IN  /\ At(c, "deliver")
        /\ \/ /\ inflight[p][k] = NoCall
              /\ inflight' = [inflight EXCEPT ![p][k] = c]
              /\ markDispatched(c) /\ call' = [call EXCEPT ![c].at = "assign"]
           \/ /\ inflight[p][k] # NoCall
              /\ call' = [call EXCEPT ![c].at = "join"]
              /\ UNCHANGED <<inflight, steerCommand>>
        /\ UNCHANGED <<piRun, current, steerOf, received, latePosts, steerFaults>>

AnyCommand(k) == TRUE

\* The commands that an outcome may still be recorded for.
Undecided(k) == steerCommand[k].state \in {"pending", "dispatched"}

record(k, s) ==
    steerCommand' = IF Undecided(k) THEN [steerCommand EXCEPT ![k].state = s]
                                    ELSE steerCommand

\* The delivery of c is over, for the calls that joined it too.
SettledCall(c, x) ==
    LET k == call[c].key
        p == call[c].replica
    IN  /\ call' = [d \in SteerCalls |->
             IF d = c \/ (At(d, "join") /\ call[d].key = k /\ call[d].replica = p)
               THEN [call[d] EXCEPT !.at = "answered", !.answer = x] ELSE call[d]]
        /\ inflight' = [inflight EXCEPT ![p][k] = NoCall]

\* steer of the backend: the lease and the Attempt of the target must be the
\* current ones; otherwise the command fails without a post.
currentAssignment(c) ==
    LET k == call[c].key
    IN  /\ At(c, "assign")
        /\ \/ /\ current = steerCommand[k].attempt
              /\ call' = [call EXCEPT ![c].at = "post1", ![c].taken = FALSE]
              /\ UNCHANGED <<steerCommand, inflight>>
           \/ /\ current # steerCommand[k].attempt
              /\ record(k, "failed") /\ SettledCall(c, "conflict")
        /\ UNCHANGED <<piRun, current, steerOf, received, latePosts, steerFaults>>

-----------------------------------------------------------------------------
(* The Worker.                                                              *)

\* The Worker executes this Attempt.
Running(a) == piRun[a] \in {"starting", "ready"}

\* #steersByCommand.
Seen(a, k) == steerOf[a][k] # "none"

prepareSteerEarly(a, k) ==
    IF Seen(a, k) \/ ~Running(a) THEN UNCHANGED <<steerOf, received>>
    ELSE /\ steerOf' = [steerOf EXCEPT ![a][k] = "completed"]
         /\ received' = [received EXCEPT ![a][k] = IF piRun[a] = "ready" THEN @ + 1 ELSE @]

\* #runSteer: the text goes to Pi, or waits for it.
runSteer(a, k) ==
    IF piRun[a] = "ready"
      THEN /\ steerOf' = [steerOf EXCEPT ![a][k] = "completed"]
           /\ received' = [received EXCEPT ![a][k] = @ + 1]
      ELSE steerOf' = [steerOf EXCEPT ![a][k] = "running"] /\ UNCHANGED received

\* prepareSteer: a command the Worker knows keeps its outcome, and one for a
\* Run that has ended is rejected.
prepareSteer(a, k) ==
    IF Seen(a, k) \/ ~Running(a) THEN UNCHANGED <<steerOf, received>>
                                 ELSE runSteer(a, k)

WorkerTakes(c) ==
    LET k == call[c].key
    IN  /\ At(c, "post1") \/ At(c, "post2")
        /\ ~call[c].taken
        /\ prepareSteer(steerCommand[k].attempt, k)
        /\ call' = [call EXCEPT ![c].taken = TRUE]
        /\ UNCHANGED <<piRun, current, steerCommand, inflight, latePosts, steerFaults>>

\* A post whose sender timed out reaches the Worker after all.
TakeLate(a, k) ==
    /\ <<a, k>> \in latePosts /\ latePosts' = latePosts \ {<<a, k>>}
    /\ prepareSteer(a, k)
    /\ UNCHANGED <<piRun, current, steerCommand, call, inflight, steerFaults>>

\* The Worker's answer is turn.steered: the command is completed, unless
\* another replica has recorded an outcome.
Steered(c) ==
    LET k == call[c].key
    IN  /\ At(c, "post1") \/ At(c, "post2")
        /\ call[c].taken
        /\ steerOf[steerCommand[k].attempt][k] = "completed"
        /\ record(k, "completed") /\ SettledCall(c, "delivered")
        /\ UNCHANGED <<piRun, current, steerOf, received, latePosts, steerFaults>>

\* The Worker refuses the steer, for the Run has ended, and the refusal of a
\* first post decides.  A delivery to Pi that failed is answered as retryable,
\* and posted again.  After a second post nothing is known of the first.
SteerRefused(c) ==
    LET k == call[c].key
        outcome == steerOf[steerCommand[k].attempt][k]
    IN  /\ call[c].taken /\ outcome \in {"none", "failed"}
        /\ \/ /\ At(c, "post1") /\ outcome = "none"
              /\ record(k, "failed") /\ SettledCall(c, "conflict")
           \/ /\ At(c, "post1") /\ outcome = "failed"
              /\ call' = [call EXCEPT ![c].at = "post2", ![c].taken = FALSE]
              /\ UNCHANGED <<steerCommand, inflight>>
           \/ At(c, "post2") /\ SettledCall(c, "unknown") /\ UNCHANGED steerCommand
        /\ UNCHANGED <<piRun, current, steerOf, received, latePosts, steerFaults>>

\* The request times out or its answer is lost: one more post, and then the
\* outcome is not known.
PostTimesOut(c) ==
    LET k == call[c].key
    IN  /\ SteerFault
        /\ \/ /\ At(c, "post1")
              /\ call' = [call EXCEPT ![c].at = "post2", ![c].taken = FALSE]
              /\ UNCHANGED inflight
           \/ At(c, "post2") /\ SettledCall(c, "unknown")
        /\ latePosts' = IF call[c].taken THEN latePosts
                        ELSE latePosts \cup {<<steerCommand[k].attempt, k>>}
        /\ UNCHANGED <<piRun, current, steerCommand, steerOf, received>>

SteerNext ==
    \/ \E a \in SteerAttempts : StartPiRun(a) \/ PiReady(a) \/ PiEnds(a)
    \/ LeaseEnds
    \/ \E c \in SteerCalls :
          \/ \E k \in SteerKeys, t \in SteerTexts, p \in Replicas : deliver(c, k, t, p)
          \/ create(c) \/ deliverStored(c) \/ currentAssignment(c) \/ WorkerTakes(c)
          \/ Steered(c) \/ SteerRefused(c) \/ PostTimesOut(c)
    \/ \E a \in SteerAttempts, k \in SteerKeys : TakeLate(a, k)

-----------------------------------------------------------------------------
(* Properties.                                                              *)

\* Pi is given the text of a key at most once, on one Attempt: through the
\* calls of two browsers, the deliveries of two replicas, both posts of each
\* and a post that arrives when its sender has gone (prepareSteer, #create).
SteeredOnce ==
    \A k \in SteerKeys, a, b \in SteerAttempts :
        received[a][k] <= 1 /\ (a # b => received[a][k] = 0 \/ received[b][k] = 0)

\* A command is completed, and a browser is told so, only when Pi was given
\* the text (#deliverStored).
DeliveredWasReceived ==
    /\ \A k \in SteerKeys : steerCommand[k].state = "completed" =>
          received[steerCommand[k].attempt][k] = 1
    /\ \A c \in SteerCalls : call[c].answer = "delivered" =>
          received[steerCommand[call[c].key].attempt][call[c].key] = 1

\* The outcome of a command is recorded once, although two replicas may
\* deliver it and see different outcomes (#markFailed, #deliverStored).
OutcomeIsFinal ==
    [][\A k \in SteerKeys : steerCommand[k].state \in {"completed", "failed"} =>
          steerCommand'[k] = steerCommand[k]]_steerVars
=============================================================================
