-------------------------- MODULE TenantProvisioning --------------------------
(***************************************************************************)
(* A centre signs up (SubscriptionLifecycleService::registerTeacher), a    *)
(* super administrator records an active, paid subscription, and the same  *)
(* request provisions the centre's PostgreSQL schema and derives its login *)
(* domain.  The row lock of provision covers only the mark "provisioning": *)
(* the schema is made, migrated and marked "ready" outside it, so several  *)
(* requests may provision one tenant, each writing what differs from the   *)
(* row it loaded (Eloquent saves changed attributes only).                 *)
(*                                                                         *)
(* Tenancy is switched on and a base domain is set.  The domain generated  *)
(* for a tenant, <slug>.<base>, is written as the tenant itself.           *)
(***************************************************************************)
EXTENDS Naturals

CONSTANTS
    Tenants,      \* ids in tenants; each also stands for its generated domain
    CustomDomains,\* domains an administrator may type in besides those
    NoDomain,     \* login_domain is null
    NoTenant,     \* "no tenant in hand"
    Requests,     \* bound on administrator requests at the same time
    MaxFaults     \* bound on processes that die

ASSUME NoDomainIsNull == NoDomain \notin Tenants \cup CustomDomains
ASSUME NoTenantIsNone == NoTenant \notin Tenants
ASSUME FaultsAreBounded == MaxFaults \in Nat

Domains == Tenants \cup CustomDomains

VARIABLES
    status,       \* status[t] of its tenant_subscriptions row, "none" before;
                  \* "inactive" for pending, past_due, cancelled and expired.
                  \* Only the request that saves payment_status reads it
    schema,       \* schema_status[t]
    login,        \* login_domain[t]
    domain,       \* domain_status[t]
    built,        \* PostgreSQL: "none", "empty", "migrated" (schema tenant_<t>)
    entitled,     \* entitled[t]: the subscription was once active and paid
    stage,        \* stage[r]: where a request is
    tenant,       \* tenant[r]: the tenant it works on
    seen,         \* seen[r]: of the row as it loaded it, what it still uses of
                  \* schema_status, login_domain and domain_status
    wanted,       \* wanted[r]: the domain it is to set
    faults        \* processes that died

subscriptionVars == <<status, entitled>>
domainVars == <<login, domain>>
requestVars == <<stage, tenant, seen, wanted>>
vars == <<subscriptionVars, schema, domainVars, built, requestVars, faults>>

NoRow == [schema |-> "pending", login |-> NoDomain, domain |-> "pending"]

Init ==
    /\ status = [t \in Tenants |-> "none"]
    /\ entitled = [t \in Tenants |-> FALSE]
    /\ schema = [t \in Tenants |-> "pending"]
    /\ login = [t \in Tenants |-> NoDomain]
    /\ domain = [t \in Tenants |-> "pending"]
    /\ built = [t \in Tenants |-> "none"]
    /\ stage = [r \in Requests |-> "idle"]
    /\ tenant = [r \in Requests |-> NoTenant]
    /\ seen = [r \in Requests |-> NoRow]
    /\ wanted = [r \in Requests |-> NoDomain]
    /\ faults = 0

\* The request goes on at another place with the row it now knows.
GoOn(r, next, row) ==
    /\ stage' = [stage EXCEPT ![r] = next]
    /\ seen' = [seen EXCEPT ![r] = row]
    /\ UNCHANGED <<tenant, wanted>>

\* It answers, or dies, and lets go of everything.
End(r) ==
    /\ stage' = [stage EXCEPT ![r] = "idle"]
    /\ tenant' = [tenant EXCEPT ![r] = NoTenant]
    /\ seen' = [seen EXCEPT ![r] = NoRow]
    /\ wanted' = [wanted EXCEPT ![r] = NoDomain]

-----------------------------------------------------------------------------
(* SubscriptionLifecycleService                                            *)

\* registerTeacher: tenant, teacher and pending subscription in one transaction.
Register(t) ==
    /\ status[t] = "none"
    /\ status' = [status EXCEPT ![t] = "inactive"]
    /\ UNCHANGED <<entitled, schema, domainVars, built, requestVars, faults>>

EarnsSchema(word, paid) == word = "active" /\ paid

\* updateSubscription: the subscription is saved and committed, and the request
\* goes on to provision if it is active and paid now.
SaveSubscription(r, t, word, paid) ==
    /\ stage[r] = "idle"
    /\ status[t] # "none"
    /\ status' = [status EXCEPT ![t] = word]
    /\ entitled' = [entitled EXCEPT ![t] = @ \/ (word = "active" /\ paid)]
    /\ IF EarnsSchema(word, paid)
       THEN /\ stage' = [stage EXCEPT ![r] = "lock"]
            /\ tenant' = [tenant EXCEPT ![r] = t]
            /\ UNCHANGED <<seen, wanted>>
       ELSE UNCHANGED requestVars
    /\ UNCHANGED <<schema, domainVars, built, faults>>

-----------------------------------------------------------------------------
(* PostgresTenantSchemaProvisioner::provision                              *)

\* Mutant: the tenant is marked ready under the lock, where the work begins.
LockTenantReady(r) ==
    /\ stage[r] = "lock"
    /\ schema' = [schema EXCEPT ![tenant[r]] = "ready"]
    /\ GoOn(r, "create", [NoRow EXCEPT !.schema = "ready"])
    /\ UNCHANGED <<subscriptionVars, domainVars, built, faults>>

\* One transaction under the row lock; a ready tenant is left as it is, and goes
\* through everything below all the same.
LockTenant(r) ==
    /\ stage[r] = "lock"
    /\ LET t == tenant[r]
           word == IF schema[t] = "ready" THEN "ready" ELSE "provisioning"
       IN  /\ schema' = [schema EXCEPT ![t] = word]
           /\ GoOn(r, "create", [NoRow EXCEPT !.schema = word])
    /\ UNCHANGED <<subscriptionVars, domainVars, built, faults>>

\* CREATE SCHEMA IF NOT EXISTS
CreateSchema(r) ==
    /\ stage[r] = "create"
    /\ built' = [built EXCEPT ![tenant[r]] = IF @ = "none" THEN "empty" ELSE @]
    /\ GoOn(r, "migrate", seen[r])
    /\ UNCHANGED <<subscriptionVars, schema, domainVars, faults>>

\* runMigrations and grantRuntimeAccess.
Migrate(r) ==
    /\ stage[r] = "migrate"
    /\ built' = [built EXCEPT ![tenant[r]] = "migrated"]
    /\ GoOn(r, "mark", seen[r])
    /\ UNCHANGED <<subscriptionVars, schema, domainVars, faults>>

\* Mutant: the columns schema_status and schema_version are swapped.
MarkVersion(r) ==
    /\ stage[r] = "mark"
    /\ schema' = [schema EXCEPT ![tenant[r]] = "initial"]
    /\ GoOn(r, "refresh", NoRow)
    /\ UNCHANGED <<subscriptionVars, domainVars, built, faults>>

\* save() of "ready": written unless the row was "ready" when it was loaded.
MarkReady(r) ==
    /\ stage[r] = "mark"
    /\ schema' = IF seen[r].schema = "ready" THEN schema
                 ELSE [schema EXCEPT ![tenant[r]] = "ready"]
    /\ GoOn(r, "refresh", NoRow)
    /\ UNCHANGED <<subscriptionVars, domainVars, built, faults>>

\* Mutant: a failure is only rethrown.
ProvisionFailsSilently(r) ==
    /\ stage[r] \in {"create", "migrate", "mark", "refresh"}
    /\ End(r)
    /\ UNCHANGED <<subscriptionVars, schema, domainVars, built, faults>>

\* Any statement fails, up to reading the row again: the tenant is marked failed,
\* also one that was or has just become ready, and the administrator is told that
\* nothing was changed.
ProvisionFails(r) ==
    /\ stage[r] \in {"create", "migrate", "mark", "refresh"}
    /\ schema' = [schema EXCEPT ![tenant[r]] = "failed"]
    /\ End(r)
    /\ UNCHANGED <<subscriptionVars, domainVars, built, faults>>

Refresh(r) ==
    /\ stage[r] = "refresh"
    /\ LET t == tenant[r]
       IN  GoOn(r, "assign",
                [schema |-> schema[t], login |-> login[t], domain |-> domain[t]])
    /\ UNCHANGED <<subscriptionVars, schema, domainVars, built, faults>>

-----------------------------------------------------------------------------
(* TenantDomainService                                                     *)

\* The unique key of login_domain refuses the domain.
TakenByAnother(d, t) == \E other \in Tenants \ {t} : login[other] = d

\* assignSubscriptionDomain, on the row that provision refreshed.
AssignDomain(r) ==
    /\ stage[r] = "assign"
    /\ LET t == tenant[r]
       IN  IF \/ seen[r].login # NoDomain
              \/ seen[r].schema # "ready"
              \/ TakenByAnother(t, t)
           THEN UNCHANGED domainVars
           ELSE /\ login' = [login EXCEPT ![t] = t]
                /\ domain' = IF seen[r].domain # "pending_dns"
                             THEN [domain EXCEPT ![t] = "pending_dns"] ELSE domain
    /\ End(r)
    /\ UNCHANGED <<subscriptionVars, schema, built, faults>>

\* updateTenantDomain: the route binds the tenant.
LoadTenant(r, t, d) ==
    /\ stage[r] = "idle"
    /\ status[t] # "none"
    /\ stage' = [stage EXCEPT ![r] = "check"]
    /\ tenant' = [tenant EXCEPT ![r] = t]
    /\ seen' = [seen EXCEPT ![r] = [NoRow EXCEPT !.login = login[t],
                                                 !.domain = domain[t]]]
    /\ wanted' = [wanted EXCEPT ![r] = d]
    /\ UNCHANGED <<subscriptionVars, schema, domainVars, built, faults>>

\* A domain needs an active subscription.
CheckSubscription(r) ==
    /\ stage[r] = "check"
    /\ IF wanted[r] # NoDomain /\ status[tenant[r]] # "active"
       THEN End(r)
       ELSE GoOn(r, "write", seen[r])
    /\ UNCHANGED <<subscriptionVars, schema, domainVars, built, faults>>

\* update(): what differs from the loaded row is written, if the key allows it.
WriteDomain(r) ==
    /\ stage[r] = "write"
    /\ LET t == tenant[r]
           d == wanted[r]
           word == IF d = NoDomain THEN "pending" ELSE "active"
           writesLogin == d # seen[r].login
       IN  IF writesLogin /\ d # NoDomain /\ TakenByAnother(d, t)
           THEN UNCHANGED domainVars
           ELSE /\ login' = IF writesLogin THEN [login EXCEPT ![t] = d] ELSE login
                /\ domain' = IF word # seen[r].domain
                             THEN [domain EXCEPT ![t] = word] ELSE domain
    /\ End(r)
    /\ UNCHANGED <<subscriptionVars, schema, built, faults>>

\* A process dies, or a request is cut off, between two statements.
Crash(r) ==
    /\ stage[r] # "idle"
    /\ faults < MaxFaults
    /\ faults' = faults + 1
    /\ End(r)
    /\ UNCHANGED <<subscriptionVars, schema, domainVars, built>>

-----------------------------------------------------------------------------
Provision(r) == \/ LockTenant(r) \/ CreateSchema(r) \/ Migrate(r) \/ MarkReady(r)
                \/ ProvisionFails(r) \/ Refresh(r) \/ AssignDomain(r)

UpdateDomain(r) == \/ \E t \in Tenants, d \in Domains \cup {NoDomain} : LoadTenant(r, t, d)
                   \/ CheckSubscription(r) \/ WriteDomain(r)

Next ==
    \/ \E t \in Tenants : Register(t)
    \/ \E r \in Requests :
          \/ \E t \in Tenants, word \in {"inactive", "active"}, paid \in BOOLEAN :
                SaveSubscription(r, t, word, paid)
          \/ Provision(r) \/ UpdateDomain(r) \/ Crash(r)

Spec == Init /\ [][Next]_vars

-----------------------------------------------------------------------------
(* Properties                                                              *)

\* Every variable has its type.
RowTypes == [schema : {"pending", "provisioning", "ready", "failed"},
             login : Domains \cup {NoDomain},
             domain : {"pending", "pending_dns", "active"}]

TypeOK ==
    /\ status \in [Tenants -> {"none", "inactive", "active"}]
    /\ entitled \in [Tenants -> BOOLEAN]
    /\ schema \in [Tenants -> {"pending", "provisioning", "ready", "failed"}]
    /\ login \in [Tenants -> Domains \cup {NoDomain}]
    /\ domain \in [Tenants -> {"pending", "pending_dns", "active"}]
    /\ built \in [Tenants -> {"none", "empty", "migrated"}]
    /\ stage \in [Requests -> {"idle", "lock", "create", "migrate", "mark", "refresh",
                               "assign", "check", "write"}]
    /\ tenant \in [Requests -> Tenants \cup {NoTenant}]
    /\ seen \in [Requests -> RowTypes]
    /\ wanted \in [Requests -> Domains \cup {NoDomain}]
    /\ faults \in Nat

\* UseTenantPostgresSchema: the requests to t's host that run on its schema.
Served(t) == login[t] # NoDomain /\ domain[t] = "active" /\ schema[t] = "ready"

\* A tenant host is served only from a schema with all its tables, whoever failed,
\* retried or overtook whom while provisioning it.
ServedFromBuiltSchema == \A t \in Tenants : Served(t) => built[t] = "migrated"

\* docs/postgresql-tenant-isolation.md, on a request to a tenant host: it "validates
\* active subscription and schema readiness".  Only the second is looked at, and a
\* subscription that ends leaves the host as it is.
ServedWhileActive == \A t \in Tenants : Served(t) => status[t] = "active"

\* docs/postgresql-tenant-isolation.md: the tenant plane is created only after a
\* subscription is both active and paid.
SchemaWasPaidFor == \A t \in Tenants : built[t] # "none" => entitled[t]

\* A tenant that is being provisioned has somebody at it, unless a process died:
\* every other end of an attempt says ready or failed.
ProvisioningIsAttended ==
    \A t \in Tenants :
        schema[t] = "provisioning" =>
            \/ \E r \in Requests :
                  tenant[r] = t /\ stage[r] \in {"create", "migrate", "mark"}
            \/ faults > 0

\* One host name leads to one tenant, also for two requests that both found it free.
HostHasOneTenant ==
    \A t, other \in Tenants :
        login[t] = login[other] /\ login[t] # NoDomain => t = other

\* A domain waits for its DNS record only once the schema behind it is whole.
DnsAwaitsSchema == \A t \in Tenants : domain[t] = "pending_dns" => built[t] = "migrated"

-----------------------------------------------------------------------------
(* The life cycle that is kept                                             *)

Lifecycle == INSTANCE TenantLifecycle WITH
    NoHost <- NoDomain,
    paid <- entitled,
    tables <- built,
    host <- [t \in Tenants |-> IF Served(t) THEN login[t] ELSE NoDomain]

\* Overlapping, failing and dying requests together go through the life cycle: tables
\* follow the payment and stay, and a step opens the host of one tenant only, in front
\* of its whole schema and under a name that no other tenant is served by.  Nothing
\* is said of a subscription that ends (ServedWhileActive).
KeepsLifecycle == Lifecycle!Spec
=============================================================================
