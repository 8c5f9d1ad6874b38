------------------------------- MODULE Tenancy -------------------------------
(***************************************************************************)
(* Tenants, their accounts and what they are known by                      *)
(* (control-plane/tenant-administration.ts, web-authentication.ts,         *)
(* tenant-identity.ts, public-tenant-registration.ts, tenant-admin.ts and  *)
(* production-bootstrap.ts).                                               *)
(*                                                                         *)
(* A deployment bootstraps the operator's tenant, again at every rollout.  *)
(* A registration looks for the name, takes the row of the first tenant as *)
(* the lock of its admission, counts, and inserts; its web account then    *)
(* logs in, as any login does: a transaction lists the account's sessions, *)
(* revokes the surplus and inserts a new one.  Nothing serialises the      *)
(* logins of one account.                                                  *)
(***************************************************************************)
EXTENDS Integers, FiniteSets, FiniteSetsExt

CONSTANTS
    Slugs,                 \* names a registration may ask for
    Operator,              \* the operator's tenant, of bootstrap
    TenantIds,             \* random ids, in the order PostgreSQL sorts them
    Registrations, Logins, \* requests under way
    WebSessions,           \* web_sessions rows, numbered by created_at
    ApiCredentials,        \* tenant_api_credentials rows
    BootstrapCredential,   \* the one that bootstrap writes
    NoSlug,
    MaximumTenants, MaximumActiveSessions

ASSUME TenancyConstants ==
    /\ TenantIds \subseteq Nat \ {0} /\ WebSessions \subseteq Nat \ {0}
    /\ IsFiniteSet(Logins) /\ IsFiniteSet(WebSessions)
    /\ {MaximumTenants, MaximumActiveSessions} \subseteq Nat \ {0}
    /\ Operator \notin Slugs /\ NoSlug \notin Slugs \cup {Operator}
    /\ BootstrapCredential \in ApiCredentials

VARIABLES
    tenantId,       \* the id of a tenant, 0 when there is none
    registration,   \* where createPrivateTenant is with a request
    signIn,         \* where #issue is with a login
    webSession, apiCredential,
    enabled         \* the tenants whose policy is enabled

tenancyVars == <<tenantId, registration, signIn, webSession, apiCredential,
                 enabled>>

Names == Slugs \cup {Operator}

NoRegistration == [at |-> "none", slug |-> NoSlug, limited |-> FALSE,
                   anchor |-> 0, created |-> FALSE]

NoSignIn == [at |-> "none", user |-> NoSlug, id |-> 0, listed |-> {}]

NoSession == [state |-> "none", user |-> NoSlug]

NoApiCredential == [state |-> "none", of |-> NoSlug]

TenancyTypeOK ==
    /\ tenantId \in [Names -> TenantIds \cup {0}]
    /\ registration \in [Registrations ->
          [at : {"none", "begin", "anchor", "locked", "insert", "done"},
           slug : Slugs \cup {NoSlug}, limited : BOOLEAN,
           anchor : TenantIds \cup {0}, created : BOOLEAN]]
    /\ signIn \in [Logins -> [at : {"none", "issue", "listed"},
                              user : Names \cup {NoSlug}, id : WebSessions \cup {0},
                              listed : SUBSET WebSessions]]
    /\ webSession \in [WebSessions ->
          [state : {"none", "issuing", "live", "revoked"},
           user : Names \cup {NoSlug}]]
    /\ apiCredential \in [ApiCredentials -> [state : {"none", "live", "revoked"},
                                             of : Names \cup {NoSlug}]]
    /\ enabled \subseteq Names

TenancyInit ==
    /\ tenantId = [s \in Names |-> 0]
    /\ registration = [r \in Registrations |-> NoRegistration]
    /\ signIn = [c \in Logins |-> NoSignIn]
    /\ webSession = [w \in WebSessions |-> NoSession]
    /\ apiCredential = [k \in ApiCredentials |-> NoApiCredential]
    /\ enabled = {}

Present == {s \in Names : tenantId[s] # 0}

UsedIds == {tenantId[s] : s \in Present}

-----------------------------------------------------------------------------
(* bootstrapProductionDatabase.                                             *)

\* Written when it is missing; otherwise its secret is compared and nothing
\* else, so that a revoked one passes and stays revoked.
bootstrapCredential ==
    apiCredential' = IF apiCredential[BootstrapCredential].state = "none"
        THEN [apiCredential EXCEPT ![BootstrapCredential] = [state |-> "live", of |-> Operator]]
        ELSE apiCredential

policyMatches == Operator \in enabled

\* The rows of the operator are inserted where they are missing, and compared
\* with the configuration where they are not.
bootstrap(i) ==
    /\ \/ tenantId[Operator] = 0 /\ i \notin UsedIds
          /\ tenantId' = [tenantId EXCEPT ![Operator] = i]
          /\ enabled' = enabled \cup {Operator}
       \/ tenantId[Operator] = i /\ policyMatches
          /\ UNCHANGED <<tenantId, enabled>>
    /\ bootstrapCredential
    /\ UNCHANGED <<registration, signIn, webSession>>

-----------------------------------------------------------------------------
(* createPrivateTenant.                                                     *)

\* The name is looked up before the transaction.
createPrivateTenant(r, s, limited) ==
    /\ registration[r].at = "none"
    /\ registration' = [registration EXCEPT ![r] =
          [NoRegistration EXCEPT !.at = IF s \in Present THEN "done" ELSE "begin",
                                 !.slug = s, !.limited = limited]]
    /\ UNCHANGED <<tenantId, signIn, webSession, apiCredential, enabled>>

\* register of a web account: the operator's model must resolve.
registerAccount(r, s) == Operator \in enabled /\ createPrivateTenant(r, s, TRUE)

\* register of a tenant.
registerTenant(r, s) == createPrivateTenant(r, s, TRUE)

\* tenant-admin create, which has no limit.
tenantAdminCreate(r, s) == createPrivateTenant(r, s, FALSE)

\* The transaction picks the first tenant as its lock; with no limit it takes
\* none, and with no tenant it ends.
admissionAnchor(r) ==
    /\ registration[r].at = "begin"
    /\ registration' = [registration EXCEPT ![r] =
          IF ~@.limited THEN [@ EXCEPT !.at = "insert"]
          ELSE IF Present = {} THEN [@ EXCEPT !.at = "done"]
          ELSE [@ EXCEPT !.at = "anchor", !.anchor = Min(UsedIds)]]
    /\ UNCHANGED <<tenantId, signIn, webSession, apiCredential, enabled>>

\* Registrations that hold the row of this tenant.
Holding(i) == {r \in Registrations :
                 registration[r].at \in {"locked", "insert"} /\ registration[r].anchor = i}

lockAnchor(r) ==
    /\ registration[r].at = "anchor" /\ Holding(registration[r].anchor) = {}
    /\ registration' = [registration EXCEPT ![r].at = "locked"]
    /\ UNCHANGED <<tenantId, signIn, webSession, apiCredential, enabled>>

\* The count is a statement of its own, with what is committed by then.
tenantCount(r) ==
    LET n == Cardinality(Present)
    IN  /\ registration[r].at = "locked"
        /\ registration' = [registration EXCEPT ![r].anchor =
                               IF n >= MaximumTenants THEN 0 ELSE @,
                             ![r].at = IF n >= MaximumTenants THEN "done" ELSE "insert"]
        /\ UNCHANGED <<tenantId, signIn, webSession, apiCredential, enabled>>

\* The unique indexes on slug and username.
SlugTaken(s) == s \in Present

\* The inserts and the commit: tenant, owner, model profile, policy and first
\* credential, or the conflict of a unique index.
insertTenant(r, i, k) ==
    LET s == registration[r].slug
    IN  /\ registration[r].at = "insert"
        /\ registration' = [registration EXCEPT ![r] = [NoRegistration EXCEPT
                               !.at = "done", !.slug = s, !.created = ~SlugTaken(s)]]
        /\ \/ SlugTaken(s) /\ UNCHANGED <<tenantId, apiCredential, enabled>>
           \/ /\ ~SlugTaken(s) /\ i \notin UsedIds
              /\ apiCredential[k].state = "none" /\ k # BootstrapCredential
              /\ tenantId' = [tenantId EXCEPT ![s] = i]
              /\ apiCredential' = [apiCredential EXCEPT ![k] = [state |-> "live", of |-> s]]
              /\ enabled' = enabled \cup {s}
        /\ UNCHANGED <<signIn, webSession>>

-----------------------------------------------------------------------------
(* Web sessions and API credentials.                                        *)

\* login, and the end of register: the password is compared with the row that
\* was read, and the tenant's policy is enabled.
login(c, s) ==
    /\ signIn[c].at = "none" /\ s \in enabled \ {Operator}
    /\ signIn' = [signIn EXCEPT ![c] = [NoSignIn EXCEPT !.at = "issue", !.user = s]]
    /\ UNCHANGED <<tenantId, registration, webSession, apiCredential, enabled>>

Active(s) == {w \in WebSessions : webSession[w].state = "live" /\ webSession[w].user = s}

\* #issue: the id and created_at of the new session, and the list of the
\* account's active ones.
listActive(c, w) ==
    /\ signIn[c].at = "issue" /\ webSession[w].state = "none"
    /\ \A v \in WebSessions : v < w => webSession[v].state # "none"
    /\ signIn' = [signIn EXCEPT ![c].at = "listed", ![c].id = w,
                                ![c].listed = Active(signIn[c].user)]
    /\ webSession' = [webSession EXCEPT ![w] = [state |-> "issuing", user |-> signIn[c].user]]
    /\ UNCHANGED <<tenantId, registration, apiCredential, enabled>>

surplusAfterMaximum(listed) ==
    {w \in listed : Cardinality({v \in listed : v > w}) >= MaximumActiveSessions}

\* All but the newest, one less than the maximum.
surplus(listed) ==
    {w \in listed : Cardinality({v \in listed : v > w}) >= MaximumActiveSessions - 1}

\* The surplus is revoked and the new session inserted.
issueSession(c) ==
    /\ signIn[c].at = "listed"
    /\ webSession' = [w \in WebSessions |->
          IF w = signIn[c].id THEN [webSession[w] EXCEPT !.state = "live"]
          ELSE IF w \in surplus(signIn[c].listed)
            THEN [webSession[w] EXCEPT !.state = "revoked"] ELSE webSession[w]]
    /\ signIn' = [signIn EXCEPT ![c] = NoSignIn]
    /\ UNCHANGED <<tenantId, registration, apiCredential, enabled>>

\* The Control Plane stops after the account or before the session is there.
IssueLost(c) ==
    /\ signIn[c].at # "none" /\ signIn' = [signIn EXCEPT ![c] = NoSignIn]
    /\ webSession' = [w \in WebSessions |->
          IF w = signIn[c].id THEN [webSession[w] EXCEPT !.state = "revoked"]
                              ELSE webSession[w]]
    /\ UNCHANGED <<tenantId, registration, apiCredential, enabled>>

\* Whose request a cookie or a bearer token is: a web session is refused
\* with the policy of its tenant disabled, an API credential is not.
authenticate(w) == webSession[w].state = "live" /\ webSession[w].user \in enabled

authenticateToken(k) == apiCredential[k].state = "live"

\* logout, or expires_at has passed: authenticate treats the two alike.
logout(w) ==
    /\ webSession[w].state = "live"
    /\ webSession' = [webSession EXCEPT ![w].state = "revoked"]
    /\ UNCHANGED <<tenantId, registration, signIn, apiCredential, enabled>>

issueTenantApiCredential(k, s) ==
    /\ apiCredential[k].state = "none" /\ k # BootstrapCredential
    /\ apiCredential' = [apiCredential EXCEPT ![k] = [state |-> "live", of |-> s]]
    /\ UNCHANGED <<tenantId, registration, signIn, webSession, enabled>>

\* tenant-admin issue, for a tenant that is found.
issuePrivateTenantCredential(k, s) == s \in Present /\ issueTenantApiCredential(k, s)

revokeTenantApiCredential(k) ==
    /\ apiCredential[k].state = "live"
    /\ apiCredential' = [apiCredential EXCEPT ![k].state = "revoked"]
    /\ UNCHANGED <<tenantId, registration, signIn, webSession, enabled>>

TenancyNext ==
    \/ \E i \in TenantIds : bootstrap(i)
    \/ \E r \in Registrations :
          \/ \E s \in Slugs : \/ registerAccount(r, s) \/ registerTenant(r, s)
                              \/ tenantAdminCreate(r, s)
          \/ admissionAnchor(r) \/ lockAnchor(r) \/ tenantCount(r)
          \/ \E i \in TenantIds, k \in ApiCredentials : insertTenant(r, i, k)
    \/ \E c \in Logins :
          \/ \E s \in Slugs : login(c, s)
          \/ \E w \in WebSessions : listActive(c, w)
          \/ issueSession(c) \/ IssueLost(c)
    \/ \E w \in WebSessions : logout(w)
    \/ \E k \in ApiCredentials :
          \/ revokeTenantApiCredential(k)
          \/ \E s \in Names : issuePrivateTenantCredential(k, s)

TenancySpec == TenancyInit /\ [][TenancyNext]_tenancyVars

-----------------------------------------------------------------------------
(* Properties.                                                              *)

\* Of two registrations of one name that run at the same time, on two
\* replicas and by whichever of the three ways, one is told that it made the
\* tenant, and its tenant is the one that is there (createPrivateTenant looks
\* for the name before its transaction).
OneOwnerPerName ==
    \A r, q \in Registrations :
        registration[r].created /\ registration[q].created /\ r # q
        => registration[r].slug # registration[q].slug

\* Logins of one account that overlap do not see each other: the account may
\* have more active sessions than its maximum, but by no more than one for
\* each further login that can run at once, and the excess does not add up
\* over later logins (#issue).
ActiveSessionsBounded ==
    \A s \in Slugs :
        Cardinality(Active(s)) <= MaximumActiveSessions + Cardinality(Logins) - 1

\* What was revoked or logged out stays so: no login, no credential and no
\* rollout, which bootstraps the operator's credential again, brings it back.
RevokedStaysRevoked ==
    [][/\ \A w \in WebSessions :
             webSession[w].state = "revoked" => ~authenticate(w)'
       /\ \A k \in ApiCredentials :
             apiCredential[k].state = "revoked" => ~authenticateToken(k)']_tenancyVars

\* Registrations and logins that overlap leave one owner of a name and no more
\* sessions than overlapping explains.
TenancySound == TenancyTypeOK /\ OneOwnerPerName /\ ActiveSessionsBounded
=============================================================================
