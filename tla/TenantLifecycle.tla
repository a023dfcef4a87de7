-------------------------- MODULE TenantLifecycle --------------------------
(***************************************************************************)
(* What the code keeps of the life cycle of a centre that                  *)
(* docs/postgresql-tenant-isolation.md lays down, with neither requests    *)
(* nor columns of a status: its tables come after its payment and stay,    *)
(* and a host name leads to it only once they are all there, and to nobody *)
(* else.                                                                   *)
(*                                                                         *)
(* It is not all that the document promises.  Its step 5, that handling a  *)
(* request "validates active subscription and schema readiness", is kept   *)
(* for the schema only: no request looks at the subscription again, so     *)
(* here a centre may be served, and begin to be served, after its          *)
(* subscription has ended, and paid says only that there was one.          *)
(* TenantProvisioning states the other half as ServedWhileActive, which    *)
(* does not hold.                                                          *)
(***************************************************************************)
CONSTANTS Tenants, Domains, NoHost

VARIABLES
    paid,       \* paid[t]: its subscription was once active and paid, and may
                \* have ended since
    tables,     \* tables[t]: "none", "empty" (a bare schema), "migrated"
    host        \* host[t]: the name its users reach it under, or NoHost

lifecycleVars == <<paid, tables, host>>

Init ==
    /\ paid = [t \in Tenants |-> FALSE]
    /\ tables = [t \in Tenants |-> "none"]
    /\ host = [t \in Tenants |-> NoHost]

Pay(t) ==
    /\ paid' = [paid EXCEPT ![t] = TRUE]
    /\ UNCHANGED <<tables, host>>

CreateSchema(t) ==
    /\ paid[t] /\ tables[t] = "none"
    /\ tables' = [tables EXCEPT ![t] = "empty"]
    /\ UNCHANGED <<paid, host>>

Migrate(t) ==
    /\ tables[t] = "empty"
    /\ tables' = [tables EXCEPT ![t] = "migrated"]
    /\ UNCHANGED <<paid, host>>

\* The host opens, or moves to another name that is free.
Serve(t, d) ==
    /\ tables[t] = "migrated"
    /\ \A other \in Tenants \ {t} : host[other] # d
    /\ host' = [host EXCEPT ![t] = d]
    /\ UNCHANGED <<paid, tables>>

Withdraw(t) ==
    /\ host' = [host EXCEPT ![t] = NoHost]
    /\ UNCHANGED <<paid, tables>>

Next ==
    \E t \in Tenants :
        \/ Pay(t) \/ CreateSchema(t) \/ Migrate(t) \/ Withdraw(t)
        \/ \E d \in Domains : Serve(t, d)

Spec == Init /\ [][Next]_lifecycleVars

\* Who is reached has paid once and has all tables, under a name of its own.
ServiceIsEarned ==
    \A t \in Tenants :
        host[t] # NoHost =>
            /\ paid[t] /\ tables[t] = "migrated"
            /\ \A other \in Tenants \ {t} : host[other] # host[t]
=============================================================================
