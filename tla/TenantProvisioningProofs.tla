----------------------- MODULE TenantProvisioningProofs -----------------------
(***************************************************************************)
(* For any number of tenants, domains, requests and dying processes: how-  *)
(* ever many requests provision one tenant outside the row lock, its host  *)
(* is served only from a schema that is whole and was paid for, and no two *)
(* tenants answer to one host.                                             *)
(***************************************************************************)
EXTENDS TenantProvisioning, TLAPS

-----------------------------------------------------------------------------
(* The inductive invariant                                                 *)

AtProvision == {"lock", "create", "migrate", "mark", "refresh", "assign"}

\* A request at work has a tenant, a provisioning one a tenant that paid, and one
\* that is past the migrations a tenant with all its tables.
RequestsAreEntitled ==
    \A r \in Requests :
        /\ stage[r] # "idle" => tenant[r] \in Tenants
        /\ stage[r] \in AtProvision => entitled[tenant[r]]
        /\ stage[r] \in {"mark", "refresh", "assign"} => built[tenant[r]] = "migrated"

\* Ready is said of whole schemas only.
ReadyIsBuilt == \A t \in Tenants : schema[t] = "ready" => built[t] = "migrated"

\* Who attends to a tenant in provisioning also knows it as such, and so will write
\* the outcome.
Attends(r, t) ==
    /\ tenant[r] = t
    /\ stage[r] \in {"create", "migrate", "mark"}
    /\ seen[r].schema = "provisioning"

AttendedByWriter ==
    \A t \in Tenants :
        schema[t] = "provisioning" => (\E r \in Requests : Attends(r, t)) \/ faults > 0

ProvisionInv ==
    /\ TypeOK /\ RequestsAreEntitled /\ ReadyIsBuilt /\ AttendedByWriter
    /\ SchemaWasPaidFor /\ HostHasOneTenant /\ DnsAwaitsSchema

USE DEF subscriptionVars, domainVars, requestVars, GoOn, End, NoRow, RowTypes, Domains
USE NoTenantIsNone, NoDomainIsNull, FaultsAreBounded

-----------------------------------------------------------------------------
\* No tenant is registered and no request runs at first.
LEMMA InitInv == Init => ProvisionInv
BY DEF Init, ProvisionInv, TypeOK, RequestsAreEntitled, ReadyIsBuilt, AttendedByWriter,
       SchemaWasPaidFor, HostHasOneTenant, DnsAwaitsSchema, AtProvision

\* Steps that leave the tenant rows and the schemas alone, and attend to no tenant
\* less than before, keep all but the types and the requests' own part.
LEMMA RowsUntouched ==
    ASSUME ProvisionInv, UNCHANGED <<schema, login, domain, built, faults>>,
           \A t \in Tenants : entitled[t] => entitled'[t],
           \A r \in Requests, t \in Tenants : Attends(r, t) => Attends(r, t)'
    PROVE  /\ ReadyIsBuilt' /\ AttendedByWriter'
           /\ SchemaWasPaidFor' /\ HostHasOneTenant' /\ DnsAwaitsSchema'
BY DEF ProvisionInv, ReadyIsBuilt, AttendedByWriter, SchemaWasPaidFor,
       HostHasOneTenant, DnsAwaitsSchema

\* Signing up and saving a subscription.
LEMMA SubscriptionOK ==
    ASSUME ProvisionInv,
           \/ \E t \in Tenants : Register(t)
           \/ \E r \in Requests, t \in Tenants, word \in {"inactive", "active"},
                 paid \in BOOLEAN : SaveSubscription(r, t, word, paid)
    PROVE  ProvisionInv'
<1>1. ASSUME NEW t \in Tenants, Register(t) PROVE ProvisionInv'
  <2>1. TypeOK' /\ RequestsAreEntitled'
    BY <1>1 DEF Register, ProvisionInv, TypeOK, RequestsAreEntitled
  <2> QED BY <1>1, <2>1, RowsUntouched DEF Register, ProvisionInv, Attends
<1>2. ASSUME NEW r \in Requests, NEW t \in Tenants, NEW word \in {"inactive", "active"},
             NEW paid \in BOOLEAN, SaveSubscription(r, t, word, paid)
      PROVE  ProvisionInv'
  <2>1. entitled' = [entitled EXCEPT ![t] = @ \/ (word = "active" /\ paid)]
    BY <1>2 DEF SaveSubscription
  <2>2. entitled' \in [Tenants -> BOOLEAN] /\ \A u \in Tenants : entitled[u] => entitled'[u]
    BY <2>1 DEF ProvisionInv, TypeOK
  <2>3. CASE EarnsSchema(word, paid)
    <3>1. /\ stage' = [stage EXCEPT ![r] = "lock"]
          /\ tenant' = [tenant EXCEPT ![r] = t]
          /\ UNCHANGED <<seen, wanted>>
      BY <1>2, <2>3 DEF SaveSubscription
    <3>2. entitled'[t]
      BY <2>1, <2>3 DEF EarnsSchema, ProvisionInv, TypeOK
    <3>3. TypeOK'
      BY <1>2, <2>2, <3>1 DEF SaveSubscription, ProvisionInv, TypeOK
    <3>4. RequestsAreEntitled'
      BY <1>2, <2>2, <3>1, <3>2
         DEF SaveSubscription, ProvisionInv, TypeOK, RequestsAreEntitled, AtProvision
    <3>5. \A q \in Requests, u \in Tenants : Attends(q, u) => Attends(q, u)'
      BY <1>2, <3>1 DEF SaveSubscription, ProvisionInv, TypeOK, Attends
    <3> QED BY <1>2, <2>2, <3>3, <3>4, <3>5, RowsUntouched
            DEF SaveSubscription, ProvisionInv
  <2>4. CASE ~EarnsSchema(word, paid)
    <3>1. UNCHANGED <<stage, tenant, seen, wanted>>
      BY <1>2, <2>4 DEF SaveSubscription
    <3>2. TypeOK'
      BY <1>2, <2>2, <3>1 DEF SaveSubscription, ProvisionInv, TypeOK
    <3>3. RequestsAreEntitled'
      BY <1>2, <2>2, <3>1
         DEF SaveSubscription, ProvisionInv, RequestsAreEntitled, AtProvision
    <3> QED BY <1>2, <2>2, <3>1, <3>2, <3>3, RowsUntouched
            DEF SaveSubscription, ProvisionInv, Attends
  <2> QED BY <2>3, <2>4
<1> QED BY <1>1, <1>2

\* A ready tenant stays ready under the lock; any other is in provisioning from here
\* on, attended to by this request.
LEMMA LockOK ==
    ASSUME ProvisionInv, NEW r \in Requests, LockTenant(r)
    PROVE  ProvisionInv'
<1> DEFINE word == IF schema[tenant[r]] = "ready" THEN "ready" ELSE "provisioning"
<1>1. tenant[r] \in Tenants /\ entitled[tenant[r]]
  BY DEF LockTenant, ProvisionInv, RequestsAreEntitled, AtProvision
<1>2. /\ schema' = [schema EXCEPT ![tenant[r]] = word]
      /\ stage' = [stage EXCEPT ![r] = "create"]
      /\ seen' = [seen EXCEPT ![r] = [NoRow EXCEPT !.schema = word]]
      /\ UNCHANGED <<tenant, wanted, status, entitled, login, domain, built, faults>>
      /\ stage[r] = "lock"
  BY DEF LockTenant
<1>3. /\ word \in {"ready", "provisioning"}
      /\ [NoRow EXCEPT !.schema = word] \in RowTypes
      /\ [NoRow EXCEPT !.schema = word].schema = word
  OBVIOUS
<1>4. TypeOK'
  BY <1>1, <1>2, <1>3 DEF ProvisionInv, TypeOK
<1>5. RequestsAreEntitled'
  BY <1>1, <1>2 DEF ProvisionInv, TypeOK, RequestsAreEntitled, AtProvision
<1>6. ReadyIsBuilt'
  BY <1>1, <1>2 DEF ProvisionInv, TypeOK, ReadyIsBuilt
<1>7. AttendedByWriter'
  <2> SUFFICES ASSUME NEW t \in Tenants, schema'[t] = "provisioning"
               PROVE  (\E q \in Requests : Attends(q, t)') \/ faults' > 0
    BY DEF AttendedByWriter
  <2>1. CASE t = tenant[r]
    <3>1. word = "provisioning"
      BY <1>1, <1>2, <2>1 DEF ProvisionInv, TypeOK
    <3>2. Attends(r, t)'
      BY <1>2, <1>3, <2>1, <3>1 DEF ProvisionInv, TypeOK, Attends
    <3> QED BY <3>2
  <2>2. CASE t # tenant[r]
    <3>1. schema[t] = "provisioning"
      BY <1>2, <2>2 DEF ProvisionInv, TypeOK
    <3>2. (\E q \in Requests : Attends(q, t)) \/ faults > 0
      BY <3>1 DEF ProvisionInv, AttendedByWriter
    <3>3. \A q \in Requests : Attends(q, t) => Attends(q, t)'
      BY <1>2, <2>2 DEF ProvisionInv, TypeOK, Attends
    <3> QED BY <1>2, <3>2, <3>3
  <2> QED BY <2>1, <2>2
<1>8. SchemaWasPaidFor' /\ HostHasOneTenant' /\ DnsAwaitsSchema'
  BY <1>2 DEF ProvisionInv, SchemaWasPaidFor, HostHasOneTenant, DnsAwaitsSchema
<1> QED BY <1>4, <1>5, <1>6, <1>7, <1>8 DEF ProvisionInv

\* The schema is made, or is there already; the tables with it.
LEMMA BuildOK ==
    ASSUME ProvisionInv, NEW r \in Requests, CreateSchema(r) \/ Migrate(r)
    PROVE  ProvisionInv'
<1>1. tenant[r] \in Tenants /\ entitled[tenant[r]]
  BY DEF CreateSchema, Migrate, ProvisionInv, RequestsAreEntitled, AtProvision
<1>2. /\ \/ stage[r] = "create" /\ stage' = [stage EXCEPT ![r] = "migrate"]
         \/ /\ stage[r] = "migrate" /\ stage' = [stage EXCEPT ![r] = "mark"]
            /\ built'[tenant[r]] = "migrated"
      /\ built' \in [Tenants -> {"none", "empty", "migrated"}]
      /\ \A t \in Tenants : built[t] = "migrated" => built'[t] = "migrated"
      /\ \A t \in Tenants : built'[t] # "none" => built[t] # "none" \/ t = tenant[r]
      /\ seen' = [seen EXCEPT ![r] = seen[r]]
      /\ UNCHANGED <<tenant, wanted, schema, status, entitled, login, domain, faults>>
  BY <1>1 DEF CreateSchema, Migrate, ProvisionInv, TypeOK
<1>3. seen' = seen
  BY <1>2 DEF ProvisionInv, TypeOK
<1>4. TypeOK'
  BY <1>1, <1>2, <1>3 DEF ProvisionInv, TypeOK
<1>5. RequestsAreEntitled'
  BY <1>1, <1>2 DEF ProvisionInv, TypeOK, RequestsAreEntitled, AtProvision
<1>6. ReadyIsBuilt' /\ HostHasOneTenant' /\ DnsAwaitsSchema'
  BY <1>2 DEF ProvisionInv, ReadyIsBuilt, HostHasOneTenant, DnsAwaitsSchema
<1>7. SchemaWasPaidFor'
  BY <1>1, <1>2 DEF ProvisionInv, SchemaWasPaidFor
<1>8. \A q \in Requests, t \in Tenants : Attends(q, t) => Attends(q, t)'
  BY <1>2, <1>3 DEF ProvisionInv, TypeOK, Attends
<1>9. AttendedByWriter'
  BY <1>2, <1>8 DEF ProvisionInv, AttendedByWriter
<1> QED BY <1>4, <1>5, <1>6, <1>7, <1>9 DEF ProvisionInv

\* A request that is done attending leaves the tenant ready or failed, or was not the
\* one the tenant's mark "provisioning" waits for.
LEMMA MarkReadyOK ==
    ASSUME ProvisionInv, NEW r \in Requests, MarkReady(r)
    PROVE  ProvisionInv'
<1>1. tenant[r] \in Tenants /\ entitled[tenant[r]] /\ built[tenant[r]] = "migrated"
  BY DEF MarkReady, ProvisionInv, RequestsAreEntitled, AtProvision
<1>2. /\ stage[r] = "mark" /\ stage' = [stage EXCEPT ![r] = "refresh"]
      /\ seen' = [seen EXCEPT ![r] = NoRow]
      /\ schema' = IF seen[r].schema = "ready" THEN schema
                   ELSE [schema EXCEPT ![tenant[r]] = "ready"]
      /\ UNCHANGED <<tenant, wanted, built, status, entitled, login, domain, faults>>
  BY DEF MarkReady
<1>3. TypeOK'
  BY <1>1, <1>2 DEF ProvisionInv, TypeOK
<1>4. RequestsAreEntitled'
  BY <1>1, <1>2 DEF ProvisionInv, TypeOK, RequestsAreEntitled, AtProvision
<1>5. ReadyIsBuilt'
  BY <1>1, <1>2 DEF ProvisionInv, TypeOK, ReadyIsBuilt
<1>6. AttendedByWriter'
  <2> SUFFICES ASSUME NEW t \in Tenants, schema'[t] = "provisioning"
               PROVE  (\E q \in Requests : Attends(q, t)') \/ faults' > 0
    BY DEF AttendedByWriter
  <2>1. schema[t] = "provisioning" /\ (t = tenant[r] => seen[r].schema = "ready")
    BY <1>1, <1>2 DEF ProvisionInv, TypeOK
  <2>2. (\E q \in Requests : Attends(q, t)) \/ faults > 0
    BY <2>1 DEF ProvisionInv, AttendedByWriter
  <2>3. \A q \in Requests : Attends(q, t) => Attends(q, t)'
    BY <1>2, <2>1 DEF ProvisionInv, TypeOK, Attends
  <2> QED BY <1>2, <2>2, <2>3
<1>7. SchemaWasPaidFor' /\ HostHasOneTenant' /\ DnsAwaitsSchema'
  BY <1>2 DEF ProvisionInv, SchemaWasPaidFor, HostHasOneTenant, DnsAwaitsSchema
<1> QED BY <1>3, <1>4, <1>5, <1>6, <1>7 DEF ProvisionInv

\* A failure takes the mark "provisioning" off the tenant with the request that
\* attended to it.
LEMMA ProvisionFailsOK ==
    ASSUME ProvisionInv, NEW r \in Requests, ProvisionFails(r)
    PROVE  ProvisionInv'
<1>1. tenant[r] \in Tenants
  BY DEF ProvisionFails, ProvisionInv, RequestsAreEntitled
<1>2. /\ schema' = [schema EXCEPT ![tenant[r]] = "failed"]
      /\ End(r)
      /\ UNCHANGED <<built, status, entitled, login, domain, faults>>
  BY DEF ProvisionFails
<1>3. TypeOK'
  BY <1>1, <1>2 DEF ProvisionInv, TypeOK
<1>4. RequestsAreEntitled'
  BY <1>2 DEF ProvisionInv, TypeOK, RequestsAreEntitled, AtProvision
<1>5. ReadyIsBuilt'
  BY <1>1, <1>2 DEF ProvisionInv, TypeOK, ReadyIsBuilt
<1>6. AttendedByWriter'
  <2> SUFFICES ASSUME NEW t \in Tenants, schema'[t] = "provisioning"
               PROVE  (\E q \in Requests : Attends(q, t)') \/ faults' > 0
    BY DEF AttendedByWriter
  <2>1. schema[t] = "provisioning" /\ t # tenant[r]
    BY <1>1, <1>2 DEF ProvisionInv, TypeOK
  <2>2. (\E q \in Requests : Attends(q, t)) \/ faults > 0
    BY <2>1 DEF ProvisionInv, AttendedByWriter
  <2>3. \A q \in Requests : Attends(q, t) => Attends(q, t)'
    BY <1>2, <2>1 DEF ProvisionInv, TypeOK, Attends
  <2> QED BY <1>2, <2>2, <2>3
<1>7. SchemaWasPaidFor' /\ HostHasOneTenant' /\ DnsAwaitsSchema'
  BY <1>2 DEF ProvisionInv, SchemaWasPaidFor, HostHasOneTenant, DnsAwaitsSchema
<1> QED BY <1>3, <1>4, <1>5, <1>6, <1>7 DEF ProvisionInv

\* A request that neither attends to a tenant nor writes schema_status, and whose
\* writes to login_domain the unique key lets through.
LEMMA DomainStepOK ==
    ASSUME ProvisionInv, NEW r \in Requests, stage[r] \notin {"create", "migrate", "mark"},
           TypeOK', RequestsAreEntitled', HostHasOneTenant', DnsAwaitsSchema',
           UNCHANGED <<schema, built, entitled, faults>>,
           \A q \in Requests \ {r} :
              stage'[q] = stage[q] /\ tenant'[q] = tenant[q] /\ seen'[q] = seen[q]
    PROVE  ProvisionInv'
<1>1. \A q \in Requests, t \in Tenants : Attends(q, t) => Attends(q, t)'
  BY DEF Attends
<1>2. AttendedByWriter'
  BY <1>1 DEF ProvisionInv, AttendedByWriter
<1>3. ReadyIsBuilt' /\ SchemaWasPaidFor'
  BY DEF ProvisionInv, ReadyIsBuilt, SchemaWasPaidFor
<1> QED BY <1>2, <1>3 DEF ProvisionInv

\* Loading a row and checking the subscription write nothing.
LEMMA ReadingOK ==
    ASSUME ProvisionInv, NEW r \in Requests,
           \/ Refresh(r) \/ CheckSubscription(r)
           \/ \E t \in Tenants, d \in Domains \cup {NoDomain} : LoadTenant(r, t, d)
    PROVE  ProvisionInv'
<1>1. UNCHANGED <<status, entitled, schema, login, domain, built, faults>>
  BY DEF Refresh, CheckSubscription, LoadTenant
<1>2. HostHasOneTenant' /\ DnsAwaitsSchema'
  BY <1>1 DEF ProvisionInv, HostHasOneTenant, DnsAwaitsSchema
<1>3. CASE Refresh(r)
  <2>1. tenant[r] \in Tenants
    BY <1>3 DEF Refresh, ProvisionInv, RequestsAreEntitled
  <2>2. /\ stage[r] = "refresh" /\ stage' = [stage EXCEPT ![r] = "assign"]
        /\ \E row \in RowTypes : seen' = [seen EXCEPT ![r] = row]
        /\ UNCHANGED <<tenant, wanted>>
    BY <1>3, <2>1 DEF Refresh, ProvisionInv, TypeOK
  <2>3. TypeOK'
    BY <1>1, <2>2 DEF ProvisionInv, TypeOK
  <2>4. RequestsAreEntitled'
    BY <1>1, <2>2 DEF ProvisionInv, TypeOK, RequestsAreEntitled, AtProvision
  <2> QED BY <1>1, <1>2, <2>2, <2>3, <2>4, DomainStepOK
<1>4. CASE CheckSubscription(r)
  <2>1. /\ stage[r] = "check"
        /\ \/ End(r)
           \/ /\ stage' = [stage EXCEPT ![r] = "write"]
              /\ seen' = [seen EXCEPT ![r] = seen[r]]
              /\ UNCHANGED <<tenant, wanted>>
    BY <1>4 DEF CheckSubscription
  <2>2. CASE End(r)
    <3>1. TypeOK' /\ RequestsAreEntitled'
      BY <1>1, <2>2 DEF ProvisionInv, TypeOK, RequestsAreEntitled, AtProvision
    <3>2. \A q \in Requests \ {r} :
             stage'[q] = stage[q] /\ tenant'[q] = tenant[q] /\ seen'[q] = seen[q]
      BY <2>2 DEF ProvisionInv, TypeOK
    <3> QED BY <1>1, <1>2, <2>1, <3>1, <3>2, DomainStepOK
  <2>3. CASE /\ stage' = [stage EXCEPT ![r] = "write"]
             /\ seen' = [seen EXCEPT ![r] = seen[r]]
             /\ UNCHANGED <<tenant, wanted>>
    <3>1. seen' = seen
      BY <2>3 DEF ProvisionInv, TypeOK
    <3>2. TypeOK' /\ RequestsAreEntitled'
      BY <1>1, <2>1, <2>3, <3>1
         DEF ProvisionInv, TypeOK, RequestsAreEntitled, AtProvision
    <3>3. \A q \in Requests \ {r} :
             stage'[q] = stage[q] /\ tenant'[q] = tenant[q] /\ seen'[q] = seen[q]
      BY <2>3, <3>1 DEF ProvisionInv, TypeOK
    <3> QED BY <1>1, <1>2, <2>1, <3>2, <3>3, DomainStepOK
  <2> QED BY <2>1, <2>2, <2>3
<1>5. ASSUME NEW t \in Tenants, NEW d \in Domains \cup {NoDomain}, LoadTenant(r, t, d)
      PROVE  ProvisionInv'
  <2>1. /\ stage[r] = "idle" /\ stage' = [stage EXCEPT ![r] = "check"]
        /\ tenant' = [tenant EXCEPT ![r] = t]
        /\ wanted' = [wanted EXCEPT ![r] = d]
        /\ \E row \in RowTypes : seen' = [seen EXCEPT ![r] = row]
    <3>1. [NoRow EXCEPT !.login = login[t], !.domain = domain[t]] \in RowTypes
      BY DEF ProvisionInv, TypeOK
    <3> QED BY <1>5, <3>1 DEF LoadTenant
  <2>2. TypeOK'
    BY <1>1, <2>1 DEF ProvisionInv, TypeOK
  <2>3. RequestsAreEntitled'
    BY <1>1, <2>1 DEF ProvisionInv, TypeOK, RequestsAreEntitled, AtProvision
  <2> QED BY <1>1, <1>2, <2>1, <2>2, <2>3, DomainStepOK
<1> QED BY <1>3, <1>4, <1>5

\* The generated domain is written for a whole schema and only where it is free.
LEMMA AssignDomainOK ==
    ASSUME ProvisionInv, NEW r \in Requests, AssignDomain(r)
    PROVE  ProvisionInv'
<1>1. /\ stage[r] = "assign" /\ End(r)
      /\ UNCHANGED <<status, entitled, schema, built, faults>>
  BY DEF AssignDomain
<1>2. tenant[r] \in Tenants /\ built[tenant[r]] = "migrated"
  BY <1>1 DEF ProvisionInv, RequestsAreEntitled, AtProvision
<1>3. /\ \/ login' = login
         \/ /\ login' = [login EXCEPT ![tenant[r]] = tenant[r]]
            /\ ~TakenByAnother(tenant[r], tenant[r])
      /\ domain' = domain \/ domain' = [domain EXCEPT ![tenant[r]] = "pending_dns"]
  BY DEF AssignDomain
<1>4. TypeOK'
  BY <1>1, <1>2, <1>3 DEF ProvisionInv, TypeOK
<1>5. RequestsAreEntitled'
  BY <1>1 DEF ProvisionInv, TypeOK, RequestsAreEntitled, AtProvision
<1>6. HostHasOneTenant'
  BY <1>2, <1>3 DEF ProvisionInv, TypeOK, HostHasOneTenant, TakenByAnother
<1>7. DnsAwaitsSchema'
  BY <1>1, <1>2, <1>3 DEF ProvisionInv, TypeOK, DnsAwaitsSchema
<1> QED BY <1>1, <1>4, <1>5, <1>6, <1>7, DomainStepOK DEF ProvisionInv, TypeOK

\* An administrator's domain is written only where it is free.
LEMMA WriteDomainOK ==
    ASSUME ProvisionInv, NEW r \in Requests, WriteDomain(r)
    PROVE  ProvisionInv'
<1>1. /\ stage[r] = "write" /\ End(r)
      /\ UNCHANGED <<status, entitled, schema, built, faults>>
  BY DEF WriteDomain
<1>2. tenant[r] \in Tenants /\ wanted[r] \in Domains \cup {NoDomain}
  BY <1>1 DEF ProvisionInv, TypeOK, RequestsAreEntitled
<1>3. /\ \/ login' = login
         \/ /\ login' = [login EXCEPT ![tenant[r]] = wanted[r]]
            /\ wanted[r] # NoDomain => ~TakenByAnother(wanted[r], tenant[r])
      /\ \/ domain' = domain
         \/ \E word \in {"pending", "active"} :
               domain' = [domain EXCEPT ![tenant[r]] = word]
  BY DEF WriteDomain
<1>4. TypeOK'
  BY <1>1, <1>2, <1>3 DEF ProvisionInv, TypeOK
<1>5. RequestsAreEntitled'
  BY <1>1 DEF ProvisionInv, TypeOK, RequestsAreEntitled, AtProvision
<1>6. HostHasOneTenant'
  BY <1>2, <1>3 DEF ProvisionInv, TypeOK, HostHasOneTenant, TakenByAnother
<1>7. DnsAwaitsSchema'
  BY <1>1, <1>2, <1>3 DEF ProvisionInv, TypeOK, DnsAwaitsSchema
<1> QED BY <1>1, <1>4, <1>5, <1>6, <1>7, DomainStepOK DEF ProvisionInv, TypeOK

\* A dying process writes nothing, and its death is counted.
LEMMA CrashOK ==
    ASSUME ProvisionInv, NEW r \in Requests, Crash(r)
    PROVE  ProvisionInv'
<1>1. /\ End(r) /\ faults' = faults + 1
      /\ UNCHANGED <<status, entitled, schema, login, domain, built>>
  BY DEF Crash
<1>2. faults \in Nat
  BY DEF ProvisionInv, TypeOK
<1>3. TypeOK'
  BY <1>1 DEF ProvisionInv, TypeOK
<1>4. RequestsAreEntitled'
  BY <1>1 DEF ProvisionInv, TypeOK, RequestsAreEntitled, AtProvision
<1>5. AttendedByWriter'
  BY <1>1, <1>2 DEF AttendedByWriter
<1>6. ReadyIsBuilt' /\ SchemaWasPaidFor' /\ HostHasOneTenant' /\ DnsAwaitsSchema'
  BY <1>1 DEF ProvisionInv, ReadyIsBuilt, SchemaWasPaidFor, HostHasOneTenant,
              DnsAwaitsSchema
<1> QED BY <1>3, <1>4, <1>5, <1>6 DEF ProvisionInv

-----------------------------------------------------------------------------
(* The theorems                                                            *)

\* Every step keeps the invariant.
LEMMA StepInv == ProvisionInv /\ [Next]_vars => ProvisionInv'
<1> SUFFICES ASSUME ProvisionInv, [Next]_vars PROVE ProvisionInv'
  OBVIOUS
<1>1. CASE UNCHANGED vars
  BY <1>1 DEF vars, ProvisionInv, TypeOK, RequestsAreEntitled, ReadyIsBuilt,
              AttendedByWriter, Attends, SchemaWasPaidFor, HostHasOneTenant,
              DnsAwaitsSchema, AtProvision
<1>2. CASE \E t \in Tenants : Register(t)
  BY <1>2, SubscriptionOK
<1>3. ASSUME NEW r \in Requests, NEW t \in Tenants, NEW word \in {"inactive", "active"},
             NEW paid \in BOOLEAN, SaveSubscription(r, t, word, paid)
      PROVE  ProvisionInv'
  BY <1>3, SubscriptionOK
<1>4. ASSUME NEW r \in Requests, Provision(r) PROVE ProvisionInv'
  BY <1>4, LockOK, BuildOK, MarkReadyOK, ProvisionFailsOK, ReadingOK, AssignDomainOK
     DEF Provision
<1>5. ASSUME NEW r \in Requests, UpdateDomain(r) PROVE ProvisionInv'
  BY <1>5, ReadingOK, WriteDomainOK DEF UpdateDomain
<1>6. ASSUME NEW r \in Requests, Crash(r) PROVE ProvisionInv'
  BY <1>6, CrashOK
<1> QED BY <1>1, <1>2, <1>3, <1>4, <1>5, <1>6 DEF Next

\* The invariant holds throughout.
THEOREM ProvisionInvariant == Spec => []ProvisionInv
BY InitInv, StepInv, PTL DEF Spec

\* Every variable has its type.
THEOREM ProvisionTyped == Spec => []TypeOK
<1>1. ProvisionInv => TypeOK
  BY DEF ProvisionInv
<1> QED BY <1>1, ProvisionInvariant, PTL

\* A tenant host is served only from a schema with all its tables.
THEOREM ServedSchemaIsWhole == Spec => []ServedFromBuiltSchema
<1>1. ProvisionInv => ServedFromBuiltSchema
  BY DEF ProvisionInv, ReadyIsBuilt, ServedFromBuiltSchema, Served
<1> QED BY <1>1, ProvisionInvariant, PTL

\* A schema is made only for a tenant whose subscription was active and paid.
THEOREM SchemasArePaidFor == Spec => []SchemaWasPaidFor
<1>1. ProvisionInv => SchemaWasPaidFor
  BY DEF ProvisionInv
<1> QED BY <1>1, ProvisionInvariant, PTL

\* Nobody waits for a provisioning that no request is at, unless a process died.
THEOREM ProvisioningHasWorker == Spec => []ProvisioningIsAttended
<1>1. ProvisionInv => ProvisioningIsAttended
  BY DEF ProvisionInv, AttendedByWriter, Attends, ProvisioningIsAttended
<1> QED BY <1>1, ProvisionInvariant, PTL

\* One host name leads to one tenant.
THEOREM HostsAreUnique == Spec => []HostHasOneTenant
<1>1. ProvisionInv => HostHasOneTenant
  BY DEF ProvisionInv
<1> QED BY <1>1, ProvisionInvariant, PTL

\* A domain waits for its DNS record only in front of a whole schema.
THEOREM DnsWaitsForSchema == Spec => []DnsAwaitsSchema
<1>1. ProvisionInv => DnsAwaitsSchema
  BY DEF ProvisionInv
<1> QED BY <1>1, ProvisionInvariant, PTL

-----------------------------------------------------------------------------
(* The promised life cycle                                                 *)

\* Who migrates does so in a schema that is there.
SchemaComesFirst == \A r \in Requests : stage[r] = "migrate" => built[tenant[r]] # "none"

\* No step drops a schema, and a request goes on to migrate only by making one.
LEMMA SchemaFirstStep ==
    ASSUME ProvisionInv, SchemaComesFirst, [Next]_vars
    PROVE  SchemaComesFirst'
<1>1. CASE UNCHANGED vars
  BY <1>1 DEF vars, SchemaComesFirst
<1>2. ASSUME NEW r \in Requests, CreateSchema(r)
      PROVE  SchemaComesFirst'
  <2>1. /\ tenant[r] \in Tenants /\ tenant' = tenant
        /\ built' = [built EXCEPT ![tenant[r]] = IF @ = "none" THEN "empty" ELSE @]
        /\ stage' = [stage EXCEPT ![r] = "migrate"]
    BY <1>2 DEF CreateSchema, ProvisionInv, RequestsAreEntitled
  <2>2. built'[tenant[r]] # "none" /\ \A t \in Tenants : built[t] # "none" => built'[t] # "none"
    BY <2>1 DEF ProvisionInv, TypeOK
  <2> QED BY <2>1, <2>2 DEF SchemaComesFirst, ProvisionInv, TypeOK, RequestsAreEntitled
<1>3. ASSUME NEW r \in Requests, Migrate(r)
      PROVE  SchemaComesFirst'
  <2>1. /\ tenant[r] \in Tenants /\ tenant' = tenant
        /\ built' = [built EXCEPT ![tenant[r]] = "migrated"]
        /\ stage' = [stage EXCEPT ![r] = "mark"]
    BY <1>3 DEF Migrate, ProvisionInv, RequestsAreEntitled
  <2> QED BY <2>1 DEF SchemaComesFirst, ProvisionInv, TypeOK, RequestsAreEntitled
<1>4. ASSUME UNCHANGED built,
             \A r \in Requests : stage'[r] = "migrate" => stage[r] = "migrate"
                                                         /\ tenant'[r] = tenant[r]
      PROVE  SchemaComesFirst'
  BY <1>4 DEF SchemaComesFirst
<1>5. CASE \E t \in Tenants : Register(t)
  BY <1>4, <1>5 DEF Register
<1>6. ASSUME NEW r \in Requests, NEW t \in Tenants, NEW word \in {"inactive", "active"},
             NEW paid \in BOOLEAN, SaveSubscription(r, t, word, paid)
      PROVE  SchemaComesFirst'
  BY <1>4, <1>6 DEF SaveSubscription, ProvisionInv, TypeOK
<1>7. ASSUME NEW r \in Requests,
             LockTenant(r) \/ MarkReady(r) \/ ProvisionFails(r) \/ Refresh(r) \/ AssignDomain(r)
      PROVE  SchemaComesFirst'
  BY <1>4, <1>7 DEF LockTenant, MarkReady, ProvisionFails, Refresh, AssignDomain, ProvisionInv,
                    TypeOK
<1>8. ASSUME NEW r \in Requests, End(r), UNCHANGED built
      PROVE  SchemaComesFirst'
  BY <1>4, <1>8 DEF ProvisionInv, TypeOK
<1>9. ASSUME NEW r \in Requests, WriteDomain(r) \/ Crash(r)
      PROVE  SchemaComesFirst'
  BY <1>8, <1>9 DEF WriteDomain, Crash
<1>10. ASSUME NEW r \in Requests, CheckSubscription(r)
       PROVE  SchemaComesFirst'
  <2>1. UNCHANGED built /\ (End(r) \/ (/\ stage' = [stage EXCEPT ![r] = "write"]
                                     /\ tenant' = tenant))
    BY <1>10 DEF CheckSubscription
  <2>2. CASE stage' = [stage EXCEPT ![r] = "write"] /\ tenant' = tenant
    BY <1>4, <2>1, <2>2 DEF ProvisionInv, TypeOK
  <2> QED BY <1>8, <2>1, <2>2
<1>11. ASSUME NEW r \in Requests,
              \E t \in Tenants, d \in Domains \cup {NoDomain} : LoadTenant(r, t, d)
       PROVE  SchemaComesFirst'
  BY <1>4, <1>11 DEF LoadTenant, ProvisionInv, TypeOK
<1> QED BY <1>1, <1>2, <1>3, <1>5, <1>6, <1>7, <1>9, <1>10, <1>11
   DEF Next, Provision, UpdateDomain

\* Whatever a request writes into the row of one tenant opens the host of that
\* tenant, moves it, or closes it.
LEMMA HostStep ==
    ASSUME ProvisionInv, ProvisionInv', NEW t \in Tenants, UNCHANGED <<entitled, built>>,
           \A other \in Tenants \ {t} :
               /\ schema'[other] = schema[other] /\ login'[other] = login[other]
               /\ domain'[other] = domain[other]
    PROVE  Lifecycle!Next
<1> DEFINE Host(u) == IF Served(u) THEN login[u] ELSE NoDomain
           hosts == [u \in Tenants |-> Host(u)]
<1>1. \A u \in Tenants \ {t} : Host(u)' = Host(u)
  BY DEF Served
<1>2. hosts' = [hosts EXCEPT ![t] = Host(t)']
  BY <1>1
<1>3. CASE Served(t)'
  <2>1. PICK d \in Domains : d = login'[t] /\ Host(t)' = d /\ d # NoDomain
    BY <1>3 DEF Served, ProvisionInv, TypeOK
  <2>2. built[t] = "migrated"
    BY <1>3 DEF Served, ProvisionInv, ReadyIsBuilt
  <2>3. \A other \in Tenants \ {t} : hosts[other] # d
    BY <1>1, <2>1 DEF Served, ProvisionInv, HostHasOneTenant
  <2>4. Lifecycle!Serve(t, d)
    BY <1>2, <2>1, <2>2, <2>3 DEF Lifecycle!Serve
  <2> QED BY <2>4 DEF Lifecycle!Next
<1>4. CASE ~Served(t)'
  <2>1. Lifecycle!Withdraw(t)
    BY <1>2, <1>4 DEF Lifecycle!Withdraw
  <2> QED BY <2>1 DEF Lifecycle!Next
<1> QED BY <1>3, <1>4

\* Each step is a step of TenantLifecycle or changes nothing it can see.
LEMMA LifecycleStep ==
    ASSUME ProvisionInv, ProvisionInv', SchemaComesFirst, [Next]_vars
    PROVE  [Lifecycle!Next]_(Lifecycle!lifecycleVars)
<1> DEFINE hosts == [t \in Tenants |-> IF Served(t) THEN login[t] ELSE NoDomain]
<1>a. ASSUME UNCHANGED <<schema, login, domain>>
      PROVE  hosts' = hosts
  BY <1>a DEF Served
<1>1. ASSUME UNCHANGED <<entitled, schema, login, domain, built>>
      PROVE  UNCHANGED Lifecycle!lifecycleVars
  BY <1>1, <1>a DEF Lifecycle!lifecycleVars
<1>2. CASE UNCHANGED vars
  BY <1>1, <1>2 DEF vars
<1>3. CASE \E t \in Tenants : Register(t)
  BY <1>1, <1>3 DEF Register
<1>4. ASSUME NEW r \in Requests, NEW t \in Tenants, NEW word \in {"inactive", "active"},
             NEW paid \in BOOLEAN, SaveSubscription(r, t, word, paid)
      PROVE  Lifecycle!Pay(t) \/ UNCHANGED Lifecycle!lifecycleVars
  <2>1. /\ entitled' = [entitled EXCEPT ![t] = @ \/ (word = "active" /\ paid)]
        /\ UNCHANGED <<schema, login, domain, built>>
    BY <1>4 DEF SaveSubscription
  <2>2. CASE word = "active" /\ paid
    <3>1. entitled' = [entitled EXCEPT ![t] = TRUE]
      BY <2>1, <2>2 DEF ProvisionInv, TypeOK
    <3> QED BY <1>a, <2>1, <3>1 DEF Lifecycle!Pay
  <2>3. CASE ~(word = "active" /\ paid)
    <3>1. entitled' = entitled
      BY <2>1, <2>3 DEF ProvisionInv, TypeOK
    <3> QED BY <1>1, <2>1, <3>1
  <2> QED BY <2>2, <2>3
<1>5. ASSUME NEW r \in Requests, CreateSchema(r)
      PROVE  Lifecycle!CreateSchema(tenant[r]) \/ UNCHANGED Lifecycle!lifecycleVars
  <2>1. /\ entitled[tenant[r]] /\ tenant[r] \in Tenants
        /\ built' = [built EXCEPT ![tenant[r]] = IF @ = "none" THEN "empty" ELSE @]
        /\ UNCHANGED <<entitled, schema, login, domain>>
    BY <1>5 DEF CreateSchema, ProvisionInv, RequestsAreEntitled, AtProvision
  <2>2. CASE built[tenant[r]] = "none"
    BY <1>a, <2>1, <2>2 DEF Lifecycle!CreateSchema
  <2>3. CASE built[tenant[r]] # "none"
    <3>1. built' = built
      BY <2>1, <2>3 DEF ProvisionInv, TypeOK
    <3> QED BY <1>1, <2>1, <3>1
  <2> QED BY <2>2, <2>3
<1>6. ASSUME NEW r \in Requests, Migrate(r)
      PROVE  Lifecycle!Migrate(tenant[r]) \/ UNCHANGED Lifecycle!lifecycleVars
  <2>1. /\ tenant[r] \in Tenants /\ built[tenant[r]] # "none"
        /\ built' = [built EXCEPT ![tenant[r]] = "migrated"]
        /\ UNCHANGED <<entitled, schema, login, domain>>
    BY <1>6 DEF Migrate, ProvisionInv, RequestsAreEntitled, SchemaComesFirst
  <2>2. CASE built[tenant[r]] = "empty"
    BY <1>a, <2>1, <2>2 DEF Lifecycle!Migrate
  <2>3. CASE built[tenant[r]] = "migrated"
    <3>1. built' = built
      BY <2>1, <2>3 DEF ProvisionInv, TypeOK
    <3> QED BY <1>1, <2>1, <3>1
  <2> QED BY <2>1, <2>2, <2>3 DEF ProvisionInv, TypeOK
<1>7. ASSUME NEW r \in Requests,
             LockTenant(r) \/ MarkReady(r) \/ ProvisionFails(r) \/ AssignDomain(r) \/ WriteDomain(r)
      PROVE  Lifecycle!Next
  <2>1. tenant[r] \in Tenants /\ UNCHANGED <<entitled, built>>
    BY <1>7 DEF LockTenant, MarkReady, ProvisionFails, AssignDomain, WriteDomain, ProvisionInv,
                RequestsAreEntitled
  <2>2. \A other \in Tenants \ {tenant[r]} :
           /\ schema'[other] = schema[other] /\ login'[other] = login[other]
           /\ domain'[other] = domain[other]
    BY <1>7, <2>1 DEF LockTenant, MarkReady, ProvisionFails, AssignDomain, WriteDomain,
                      ProvisionInv, TypeOK
  <2> QED BY <2>1, <2>2, HostStep
<1>8. ASSUME NEW r \in Requests,
             \/ Refresh(r) \/ CheckSubscription(r) \/ Crash(r)
             \/ \E t \in Tenants, d \in Domains \cup {NoDomain} : LoadTenant(r, t, d)
      PROVE  UNCHANGED Lifecycle!lifecycleVars
  BY <1>1, <1>8 DEF Refresh, CheckSubscription, Crash, LoadTenant
<1>9. \A t \in Tenants :
         Lifecycle!Pay(t) \/ Lifecycle!CreateSchema(t) \/ Lifecycle!Migrate(t) => Lifecycle!Next
  BY DEF Lifecycle!Next
<1>10. \A r \in Requests : CreateSchema(r) \/ Migrate(r) => tenant[r] \in Tenants
  BY DEF CreateSchema, Migrate, ProvisionInv, RequestsAreEntitled
<1> QED BY <1>2, <1>3, <1>4, <1>5, <1>6, <1>7, <1>8, <1>9, <1>10
   DEF Next, Provision, UpdateDomain

\* Provisioning outside the lock keeps the promised life cycle: tables follow the
\* payment and stay, a host opens in front of a whole schema and under a free name,
\* and no step touches the host of two tenants.
THEOREM LifecycleKept == Spec => KeepsLifecycle
<1>1. Init => Lifecycle!Init /\ SchemaComesFirst
  BY DEF Init, Lifecycle!Init, Served, SchemaComesFirst
<1>2. ProvisionInv /\ ProvisionInv' /\ SchemaComesFirst /\ [Next]_vars =>
         [Lifecycle!Next]_(Lifecycle!lifecycleVars) /\ SchemaComesFirst'
  BY LifecycleStep, SchemaFirstStep
<1> QED BY <1>1, <1>2, ProvisionInvariant, PTL DEF Spec, KeepsLifecycle, Lifecycle!Spec


\* What the promises come to, whoever keeps them: a host answers for a tenant that
\* paid and has all its tables, and for no other.
THEOREM LifecycleEarnsService == KeepsLifecycle => []Lifecycle!ServiceIsEarned
<1> DEFINE hosts == [t \in Tenants |-> IF Served(t) THEN login[t] ELSE NoDomain]
           Promised ==
             /\ Lifecycle!ServiceIsEarned
             /\ entitled \in [Tenants -> BOOLEAN]
             /\ built \in [Tenants -> {"none", "empty", "migrated"}]
             /\ \A t \in Tenants : built[t] # "none" => entitled[t]
<1>1. Lifecycle!Init => Promised
  BY DEF Lifecycle!Init, Lifecycle!ServiceIsEarned
<1>2. ASSUME Promised, [Lifecycle!Next]_(Lifecycle!lifecycleVars)
      PROVE  Promised'
  <2>1. CASE UNCHANGED Lifecycle!lifecycleVars
    BY <1>2, <2>1 DEF Lifecycle!lifecycleVars, Lifecycle!ServiceIsEarned
  <2>2. ASSUME NEW t \in Tenants,
               \/ Lifecycle!Pay(t) \/ Lifecycle!CreateSchema(t) \/ Lifecycle!Migrate(t)
        PROVE  Promised'
    BY <1>2, <2>2 DEF Lifecycle!Pay, Lifecycle!CreateSchema, Lifecycle!Migrate,
                      Lifecycle!ServiceIsEarned
  <2>3. ASSUME NEW t \in Tenants, NEW d \in Domains \cup {NoDomain},
               (Lifecycle!Withdraw(t) /\ d = NoDomain) \/ Lifecycle!Serve(t, d)
        PROVE  Promised'
    <3>1. /\ hosts' = [hosts EXCEPT ![t] = d] /\ UNCHANGED <<entitled, built>>
          /\ d # NoDomain => /\ built[t] = "migrated"
                             /\ \A other \in Tenants \ {t} : hosts[other] # d
      BY <2>3 DEF Lifecycle!Withdraw, Lifecycle!Serve
    <3>2. \A u \in Tenants : hosts'[u] = IF u = t THEN d ELSE hosts[u]
      BY <3>1
    <3>3. \A u \in Tenants : hosts[u] # NoDomain =>
             /\ entitled[u] /\ built[u] = "migrated"
             /\ \A other \in Tenants \ {u} : hosts[other] # hosts[u]
      BY <1>2 DEF Lifecycle!ServiceIsEarned
    <3>4. \A u \in Tenants : hosts'[u] # NoDomain =>
             /\ entitled'[u] /\ built'[u] = "migrated"
             /\ \A other \in Tenants \ {u} : hosts'[other] # hosts'[u]
      <4> HIDE DEF hosts
      <4> QED BY <1>2, <3>1, <3>2, <3>3
    <3> QED BY <1>2, <3>1, <3>4 DEF Lifecycle!ServiceIsEarned
  <2> QED BY <1>2, <2>1, <2>2, <2>3 DEF Lifecycle!Next
<1>3. Promised => Lifecycle!ServiceIsEarned
  OBVIOUS
<1> QED BY <1>1, <1>2, <1>3, PTL DEF KeepsLifecycle, Lifecycle!Spec
=============================================================================
