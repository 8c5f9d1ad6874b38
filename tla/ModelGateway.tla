---------------------------- MODULE ModelGateway ----------------------------
(***************************************************************************)
(* The Worker's Model Gateway, the tenant's model configuration and the    *)
(* budget of model requests (supervisor-host/model-gateway.ts,             *)
(* control-plane/tenant-model-configuration.ts and                         *)
(* runtime-core/model-credential-runtime.ts).                              *)
(*                                                                         *)
(* A Turn is accepted with a model and a version of the tenant's           *)
(* credential.  The gateway of the Worker that executes an Attempt issues  *)
(* a capability for it; Pi sends its model requests with the capability,   *)
(* the gateway reserves their cost in model_requests, forwards them with   *)
(* the provider's key, and settles the reservation with what was used.     *)
(* A reservation takes the tenant's policy row and reads the totals while  *)
(* it holds it; settlements take no lock, and a reservation that nobody    *)
(* settled lapses.                                                         *)
(***************************************************************************)
EXTENDS Integers, FiniteSets, Sequences, FiniteSetsExt

CONSTANTS
    Attempts,         \* Run Attempts, numbered in the order they are started
    Runs,             \* Runs of one tenant
    RunOf,            \* the Run of an Attempt
    ModelRequests,         \* HTTP requests to the gateways, and their rows
    ConfiguredModels, \* models an owner chooses
    Secrets,          \* API keys an owner may configure
    NoSecret, NoRequest,
    RequestLimit,     \* model requests of a Run
    RunCostLimit, TenantCostLimit, DailyTokenLimit,
    MaxCredentialVersions,      \* versions of the credential
    MaxGatewayFaults  \* crashes, lapses and lost answers

ASSUME GatewayConstants ==
    /\ Attempts \subseteq Nat \ {0} /\ IsFiniteSet(ModelRequests)
    /\ RunOf \in [Attempts -> Runs]
    /\ NoSecret \notin Secrets /\ NoRequest \notin ModelRequests
    /\ {RequestLimit, RunCostLimit, TenantCostLimit, DailyTokenLimit,
        MaxCredentialVersions, MaxGatewayFaults} \subseteq Nat
    /\ MaxCredentialVersions # 0 /\ ConfiguredModels \subseteq {"flash", "pro"}

VARIABLES
    profile,      \* the tenant's model profile: model and credential version
    credential,   \* the sealed credential of every version, and whether the
                  \* master key of this deployment opens it
    binding,      \* what a Run was accepted with
    attempt,      \* the current Attempt of a Run, 0 once the Run has settled
    capability,   \* what the gateway of an Attempt's Worker knows of it
    route,        \* whether the tenant has a fallback model
    request,      \* where #handle is with a request
    modelRequest, \* model_requests
    usageLedger,  \* the number of usage_ledger rows of a request
    policyHolder, \* the transaction that holds the tenant's policy row
    day, gatewayFaults

gatewayVars == <<profile, credential, binding, attempt, capability, route,
                 request, modelRequest, usageLedger, policyHolder, day,
                 gatewayFaults>>

Models == {"flash", "pro"}

\* What a request costs at a model's rate; the estimate of a body is one unit
\* of tokens, and what the provider reports may be more.
rateFromRow == [flash |-> 1, pro |-> 2]

estimatedCost(m) == rateFromRow[m]

actualCost(m, used) == used * rateFromRow[m]

\* What the scanner found in the stream: 0 when no event carried a usage.
parseUsage == 0..2

Other(m) == CHOOSE n \in Models : n # m

ModelRequestStates ==
    {"none", "reserved", "completed", "failed", "aborted", "budget_denied"}

NoModelRequest == [state |-> "none", of |-> 0, sequence |-> 0, reserved |-> 0,
                   actual |-> 0, tokens |-> 0, day |-> 0, lapsed |-> FALSE]

NoTotals == [count |-> 0, run |-> 0, tokens |-> 0, tenant |-> 0, sequence |-> 0]

NewRequest == [at |-> "none", of |-> 0, model |-> "flash", first |-> TRUE,
               used |-> 0, cut |-> FALSE, key |-> NoSecret, live |-> FALSE, totals |-> NoTotals,
               expiring |-> {}]

\* #handle has returned.
Answered == [NewRequest EXCEPT !.at = "done"]

NoCapability == [state |-> "none", secret |-> NoSecret, lapsed |-> FALSE]

GatewayTypeOK ==
    /\ profile \in [model : Models, version : 1..MaxCredentialVersions]
    /\ credential \in Seq([secret : Secrets, readable : BOOLEAN])
    /\ binding \in [Runs -> [model : Models, version : 0..MaxCredentialVersions]]
    /\ attempt \in [Runs -> Attempts \cup {0}]
    /\ capability \in [Attempts -> [state : {"none", "live", "revoked"},
                                    secret : Secrets \cup {NoSecret},
                                    lapsed : BOOLEAN]]
    /\ route \in BOOLEAN
    /\ \A r \in ModelRequests :
          /\ modelRequest[r].state \in ModelRequestStates
          /\ request[r].at \in {"none", "body", "locked", "send", "upstream",
                                "settle", "done"}
    /\ usageLedger \in [ModelRequests -> 0..2]
    /\ policyHolder \in ModelRequests \cup {NoRequest}

GatewayInit ==
    /\ profile = [model |-> "flash", version |-> 1]
    /\ \E s \in Secrets : credential = <<[secret |-> s, readable |-> TRUE]>>
    /\ binding = [x \in Runs |-> [model |-> "flash", version |-> 0]]
    /\ attempt = [x \in Runs |-> 0]
    /\ capability = [a \in Attempts |-> NoCapability]
    /\ route \in BOOLEAN
    /\ request = [r \in ModelRequests |-> NewRequest]
    /\ modelRequest = [r \in ModelRequests |-> NoModelRequest]
    /\ usageLedger = [r \in ModelRequests |-> 0]
    /\ policyHolder = NoRequest
    /\ day = 0 /\ gatewayFaults = 0

Fault == gatewayFaults < MaxGatewayFaults /\ gatewayFaults' = gatewayFaults + 1

-----------------------------------------------------------------------------
(* The tenant's model configuration.                                        *)

\* A replacement with the key the profile has, which this deployment can
\* open, keeps the version; anything else is sealed as the next one.
keepsVersion(s) ==
    LET current == credential[profile.version]
    IN  current.secret = s /\ current.readable

nextVersion == Len(credential) + 1

seal(s) == [secret |-> s, readable |-> TRUE]

open(v) == IF credential[v].readable THEN credential[v].secret ELSE NoSecret

ReplaceSealed(s, m) ==
    /\ nextVersion <= MaxCredentialVersions
    /\ credential' = Append(credential, seal(s))
    /\ profile' = [model |-> m, version |-> nextVersion]

\* replace: under the lock of the policy row, so never beside a reservation.
replaceForTenant(s, m) ==
    /\ policyHolder = NoRequest
    /\ \/ keepsVersion(s) /\ profile' = [profile EXCEPT !.model = m]
                          /\ UNCHANGED credential
       \/ ~keepsVersion(s) /\ ReplaceSealed(s, m)
    /\ UNCHANGED <<binding, attempt, capability, route, request, modelRequest,
                   usageLedger, policyHolder, day, gatewayFaults>>

\* The platform's master key is replaced: what was sealed before is lost.
RotateMasterKey ==
    /\ Fault
    /\ credential' = [v \in DOMAIN credential |->
                        [credential[v] EXCEPT !.readable = FALSE]]
    /\ UNCHANGED <<profile, binding, attempt, capability, route, request,
                   modelRequest, usageLedger, policyHolder, day>>

-----------------------------------------------------------------------------
(* Runs and their capabilities.                                             *)

\* acceptTurn copies model and credential version of the profile into the
\* Turn; the first Attempt is claimed later.
AcceptWithProfile(x) ==
    /\ binding[x].version = 0
    /\ binding' = [binding EXCEPT ![x] = profile]
    /\ UNCHANGED <<profile, credential, attempt, capability, route, request,
                   modelRequest, usageLedger, policyHolder, day,
                   gatewayFaults>>

\* A Worker claims the Run; a later Attempt replaces one that may still live.
StartAttempt(a) ==
    LET x == RunOf[a]
    IN  /\ binding[x].version > 0 /\ capability[a].state = "none"
        /\ a # attempt[x]
        /\ \A b \in Attempts : RunOf[b] = x /\ b < a => capability[b].state # "none"
        /\ attempt[x] # 0 \/ \A b \in Attempts : RunOf[b] = x => a <= b
        /\ attempt' = [attempt EXCEPT ![x] = a]
        /\ UNCHANGED <<profile, credential, binding, capability, route, request,
                       modelRequest, usageLedger, policyHolder, day,
                       gatewayFaults>>

\* The Run settles, or leaves the states in which an Attempt works.
SettleRun(x) ==
    /\ attempt[x] # 0 /\ capability[attempt[x]].state # "none"
    /\ attempt' = [attempt EXCEPT ![x] = 0]
    /\ UNCHANGED <<profile, credential, binding, capability, route, request,
                   modelRequest, usageLedger, policyHolder, day,
                   gatewayFaults>>

\* The version the capability is resolved for: the Turn's, never the profile's.
resolvedVersion(x) == binding[x].version

\* resolve: the exact version of the binding, opened with the master key.
resolve(x) == open(resolvedVersion(x))

\* #issue.  A credential that cannot be opened fails the Turn.
issue(a) ==
    LET x == RunOf[a]
    IN  /\ attempt[x] = a /\ capability[a].state = "none"
        /\ IF resolve(x) # NoSecret
             THEN /\ capability' = [capability EXCEPT ![a] =
                         [state |-> "live", secret |-> resolve(x), lapsed |-> FALSE]]
                  /\ UNCHANGED attempt
             ELSE /\ capability' = [capability EXCEPT ![a].state = "revoked"]
                  /\ attempt' = [attempt EXCEPT ![x] = 0]
        /\ UNCHANGED <<profile, credential, binding, route, request,
                       modelRequest, usageLedger, policyHolder, day,
                       gatewayFaults>>

\* #revoke: the key is forgotten, and what is under way is cut.
Revoked(c) == [state |-> "revoked", secret |-> NoSecret, lapsed |-> FALSE]

revoke(a) ==
    /\ capability' = [capability EXCEPT ![a] = Revoked(@)]
    /\ request' = [r \in ModelRequests |->
                     IF request[r].of = a /\ request[r].at = "upstream"
                       THEN [request[r] EXCEPT !.cut = TRUE] ELSE request[r]]

\* The Turn ends and releases its lease, whatever its requests do.
release(a) ==
    /\ capability[a].state = "live"
    /\ revoke(a)
    /\ UNCHANGED <<profile, credential, binding, attempt, route, modelRequest,
                   usageLedger, policyHolder, day, gatewayFaults>>

\* Ten minutes after its issue a capability is not taken any more.
CapabilityLapses(a) ==
    /\ Fault /\ capability[a].state = "live" /\ ~capability[a].lapsed
    /\ capability' = [capability EXCEPT ![a].lapsed = TRUE]
    /\ UNCHANGED <<profile, credential, binding, attempt, route, request,
                   modelRequest, usageLedger, policyHolder, day>>

\* The Worker dies: its transactions roll back, its reservations stay.
GatewayCrash(a) ==
    /\ Fault /\ capability[a].state = "live"
    /\ capability' = [capability EXCEPT ![a] = Revoked(@)]
    /\ request' = [r \in ModelRequests |->
                     IF request[r].of = a THEN Answered
                                          ELSE request[r]]
    /\ policyHolder' = IF \E r \in ModelRequests : policyHolder = r /\ request[r].of = a
                         THEN NoRequest ELSE policyHolder
    /\ UNCHANGED <<profile, credential, binding, attempt, route, modelRequest,
                   usageLedger, day>>

-----------------------------------------------------------------------------
(* #handle.                                                                 *)

Step(r, f) == request' = [request EXCEPT ![r] = f]

\* The check of the capability comes before the body is awaited; nothing
\* checks it again.
RequestArrives(r, a) ==
    /\ request[r].at = "none" /\ capability[a].state = "live"
    /\ \/ /\ ~capability[a].lapsed
          /\ Step(r, [request[r] EXCEPT !.at = "body", !.of = a,
                                        !.model = binding[RunOf[a]].model])
          /\ UNCHANGED capability
       \/ capability[a].lapsed /\ revoke(a)
    /\ UNCHANGED <<profile, credential, binding, attempt, route, modelRequest,
                   usageLedger, policyHolder, day, gatewayFaults>>

\* The rows a new reservation counts: what was used, and what is held and has
\* not lapsed.
HoldsReservation(r) == modelRequest[r].state = "reserved" /\ ~modelRequest[r].lapsed

Cost(r) == IF modelRequest[r].state = "completed" THEN modelRequest[r].actual
           ELSE IF HoldsReservation(r) THEN modelRequest[r].reserved ELSE 0

Tokens(r) == IF modelRequest[r].state = "completed" THEN modelRequest[r].tokens
             ELSE IF HoldsReservation(r) THEN 1 ELSE 0

OfRun(x) == {r \in ModelRequests : modelRequest[r].of # 0 /\ RunOf[modelRequest[r].of] = x}

aggregate(a) ==
    [count    |-> Cardinality({r \in OfRun(RunOf[a]) : modelRequest[r].state # "budget_denied"}),
     run      |-> MapThenSumSet(Cost, OfRun(RunOf[a])),
     tokens   |-> MapThenSumSet(Tokens, {r \in ModelRequests : modelRequest[r].of # 0
                                                    /\ modelRequest[r].day = day}),
     tenant   |-> MapThenSumSet(Cost, {r \in ModelRequests : modelRequest[r].of # 0}),
     sequence |-> Max({0} \cup {modelRequest[r].sequence : r \in
                                 {q \in ModelRequests : modelRequest[q].of = a}})]

\* An Attempt may reserve while it is the Run's current one and works.
currentAttempt(a) == attempt[RunOf[a]] = a

\* The lock of tenant_runtime_policies.
policyFree == policyHolder = NoRequest

\* #reserve: the transaction marks what lapsed, takes the policy row, and
\* reads the totals.  A stale Attempt rolls it back.
reserve(r) ==
    LET a == request[r].of
    IN  /\ request[r].at = "body" /\ policyFree
        /\ IF currentAttempt(a)
             THEN /\ policyHolder' = r
                  /\ Step(r, [request[r] EXCEPT !.at = "locked", !.totals = aggregate(a),
                        !.expiring = {q \in ModelRequests : modelRequest[q].state = "reserved"
                                                       /\ modelRequest[q].lapsed}])
             ELSE Step(r, Answered) /\ UNCHANGED policyHolder
        /\ UNCHANGED <<profile, credential, binding, attempt, capability, route,
                       modelRequest, usageLedger, day, gatewayFaults>>

\* The most the request may cost: with a fallback, at the dearer rate.
reservedCost(m) ==
    IF route THEN Max({estimatedCost(n) : n \in Models}) ELSE estimatedCost(m)

denial(t, cost) ==
    \/ t.count >= RequestLimit
    \/ t.run + cost > RunCostLimit
    \/ t.tokens + 1 > DailyTokenLimit
    \/ t.tenant + cost > TenantCostLimit

LapsingNothing(r) == {}

Lapsing(r) == request[r].expiring

\* The commit of the reservation: the lapsed rows are aborted with it.
commitReservation(r) ==
    LET t == request[r].totals
        cost == reservedCost(request[r].model)
        denied == denial(t, cost)
    IN  /\ request[r].at = "locked"
        /\ modelRequest' = [q \in ModelRequests |->
              IF q = r THEN [state |-> IF denied THEN "budget_denied" ELSE "reserved",
                             of |-> request[r].of, sequence |-> t.sequence + 1,
                             reserved |-> cost, actual |-> 0, tokens |-> 0,
                             day |-> day, lapsed |-> FALSE]
              ELSE IF q \in Lapsing(r) THEN [modelRequest[q] EXCEPT !.state = "aborted"]
              ELSE modelRequest[q]]
        /\ Step(r, IF denied THEN Answered
                   ELSE [request[r] EXCEPT !.at = "send", !.totals = NoTotals,
                                           !.expiring = {}])
        /\ policyHolder' = IF policyHolder = r THEN NoRequest ELSE policyHolder
        /\ UNCHANGED <<profile, credential, binding, attempt, capability, route,
                       usageLedger, day, gatewayFaults>>

\* fetchAttempt: sent with whatever key the capability has by now, under a
\* controller that a later revocation aborts.
fetchAttempt(r) ==
    LET c == capability[request[r].of]
    IN  /\ request[r].at = "send"
        /\ Step(r, [request[r] EXCEPT !.at = "upstream", !.key = c.secret,
                                      !.live = (c.state = "live")])
        /\ UNCHANGED <<profile, credential, binding, attempt, capability, route,
                       modelRequest, usageLedger, policyHolder, day, gatewayFaults>>

\* A timeout, 429 or 5xx of the first attempt: the other model is asked.
Fallback(r) ==
    /\ Fault /\ request[r].at = "upstream" /\ request[r].first /\ route
    /\ ~request[r].cut
    /\ Step(r, [request[r] EXCEPT !.at = "send", !.first = FALSE, !.model = Other(@)])
    /\ UNCHANGED <<profile, credential, binding, attempt, capability, route,
                   modelRequest, usageLedger, policyHolder, day>>

\* A row that another transaction is expiring is locked until it commits.
Unlocked(r) == \A q \in ModelRequests : r \notin request[q].expiring

\* What a settlement may overwrite.
Unsettled(r) == modelRequest[r].state = "reserved"

failReservation(r, s) ==
    modelRequest' = IF Unsettled(r) THEN [modelRequest EXCEPT ![r].state = s]
                                    ELSE modelRequest

\* The provider cannot be reached, answers an error, or the client is gone:
\* whatever was used is not known.
RequestFails(r) ==
    /\ request[r].at = "upstream" /\ Unlocked(r)
    /\ \E s \in {"failed", "aborted"} : failReservation(r, s)
    /\ request[r].cut \/ gatewayFaults < MaxGatewayFaults
    /\ gatewayFaults' = IF request[r].cut THEN gatewayFaults ELSE gatewayFaults + 1
    /\ Step(r, Answered)
    /\ UNCHANGED <<profile, credential, binding, attempt, capability, route,
                   usageLedger, policyHolder, day>>

\* The stream ends with a usage; a request sent without a key has none.
StreamEnds(r, u) ==
    /\ request[r].at = "upstream" /\ ~request[r].cut
    /\ Step(r, [request[r] EXCEPT !.at = "settle", !.used = u, !.key = NoSecret,
                                  !.live = FALSE])
    /\ UNCHANGED <<profile, credential, binding, attempt, capability, route,
                   modelRequest, usageLedger, policyHolder, day, gatewayFaults>>

\* What #completeReservation writes; a stale reservation answers 409, and the
\* catch of #handle fails what is still reserved.
completeReservation(r) ==
    IF Unsettled(r)
      THEN /\ modelRequest' = [modelRequest EXCEPT ![r].state = "completed",
                  ![r].actual = actualCost(request[r].model, request[r].used),
                  ![r].tokens = request[r].used]
           /\ usageLedger' = [usageLedger EXCEPT ![r] = @ + 1]
      ELSE UNCHANGED <<modelRequest, usageLedger>>

SettleRequest(r) ==
    /\ request[r].at = "settle" /\ Unlocked(r)
    /\ IF request[r].used > 0 THEN completeReservation(r)
       ELSE failReservation(r, "failed") /\ UNCHANGED usageLedger
    /\ Step(r, Answered)
    /\ UNCHANGED <<profile, credential, binding, attempt, capability, route,
                   policyHolder, day, gatewayFaults>>

\* Twice the upstream timeout and a minute have passed: the client does not
\* read, the database is slow, or nobody is left to settle.
ReservationLapses(r) ==
    /\ Fault /\ HoldsReservation(r)
    /\ modelRequest' = [modelRequest EXCEPT ![r].lapsed = TRUE]
    /\ UNCHANGED <<profile, credential, binding, attempt, capability, route,
                   request, usageLedger, policyHolder, day>>

\* Midnight: the daily budget starts again.
NextDay ==
    /\ Fault /\ day = 0 /\ day' = 1
    /\ UNCHANGED <<profile, credential, binding, attempt, capability, route,
                   request, modelRequest, usageLedger, policyHolder>>

GatewayNext ==
    \/ \E s \in Secrets, m \in ConfiguredModels : replaceForTenant(s, m)
    \/ RotateMasterKey \/ NextDay
    \/ \E x \in Runs : AcceptWithProfile(x) \/ SettleRun(x)
    \/ \E a \in Attempts :
          \/ StartAttempt(a) \/ issue(a) \/ release(a) \/ CapabilityLapses(a)
          \/ GatewayCrash(a) \/ \E r \in ModelRequests : RequestArrives(r, a)
    \/ \E r \in ModelRequests :
          \/ reserve(r) \/ commitReservation(r) \/ fetchAttempt(r) \/ Fallback(r)
          \/ RequestFails(r) \/ (\E u \in parseUsage : StreamEnds(r, u)) \/ SettleRequest(r)
          \/ ReservationLapses(r)

GatewaySpec == GatewayInit /\ [][GatewayNext]_gatewayVars

-----------------------------------------------------------------------------
(* Properties.                                                              *)

\* The usage ledger has one row for every completed model request and none
\* for another, whichever of a lapse, a settlement and the error path after a
\* stale reservation comes first (#completeReservation, #failReservation).
LedgerMatchesRequests ==
    \A r \in ModelRequests :
        usageLedger[r] = IF modelRequest[r].state = "completed" THEN 1 ELSE 0

\* Claimed against a budget: what is held, and of what was used the part that
\* had been reserved.
Claimed(r) ==
    CASE modelRequest[r].state = "completed" ->
            Min({modelRequest[r].actual, modelRequest[r].reserved})
      [] modelRequest[r].state = "reserved" -> modelRequest[r].reserved
      [] OTHER -> 0

\* What is held and used stays within the budget of the Run and of the tenant
\* but for what a provider uses above its reservation, with any number of
\* gateways reserving at once and settlements that come after the lapse of
\* their reservation (#reserve).
BudgetsHold ==
    /\ \A x \in Runs : MapThenSumSet(Claimed, OfRun(x)) <= RunCostLimit
    /\ MapThenSumSet(Claimed, ModelRequests) <= TenantCostLimit

\* A model request takes a number of its own in its Attempt, denied ones
\* included: the unique index on (attempt_id, request_sequence) never trips.
SequencesUnique ==
    \A r, q \in ModelRequests :
        r # q /\ modelRequest[r].of = modelRequest[q].of /\ modelRequest[r].of # 0
        => modelRequest[r].sequence # modelRequest[q].sequence

\* The provider's key leaves the gateway only while the Turn's capability is
\* live: a request that waited for its body or its reservation while the Turn
\* was released goes out without one (#revoke, fetchAttempt).
KeySentWhileLive == \A r \in ModelRequests : request[r].key # NoSecret => request[r].live

\* A Run's requests carry the key of the version its Turn was accepted with,
\* through every replacement of the tenant's configuration and on every
\* Attempt (#issue, resolve, #replaceForTenant).
AcceptedCredential ==
    \A r \in ModelRequests :
        request[r].key # NoSecret
        => request[r].key = credential[binding[RunOf[request[r].of]].version].secret

\* A settled model request is never settled again.
SettledOnce ==
    [][\A r \in ModelRequests :
          modelRequest[r].state \in ModelRequestStates \ {"none", "reserved"}
          => modelRequest'[r] = modelRequest[r]]_gatewayVars

\* Reservations, the ledger and the keys of concurrent model requests agree with
\* the budgets and the Turns they are for.
GatewaySound ==
    /\ GatewayTypeOK /\ LedgerMatchesRequests /\ BudgetsHold
    /\ SequencesUnique /\ KeySentWhileLive /\ AcceptedCredential
=============================================================================
