----------------------------- MODULE Coservice -----------------------------
(* coserviced: the tables of services and of their endpoints, filled by       *)
(* coprovide (a service with an endpoint of its own) and coprovide2 (another  *)
(* operation at an endpoint that exists).  Slots are claimed by fetch-and-add *)
(* and never reused; the handlers use the result without looking at it, and   *)
(* coserviced dies of a NULL one.                                             *)
EXTENDS Integers, FiniteSets

CONSTANTS Providers,       \* workers of coserviced serving coprovide(2)
          max_services,    \* size of both tables, 256 in the code
          COSERVICE_MAX_WORKERS

ASSUME ServicesAssumption == max_services \in Nat \ {0}

VARIABLES next_service, next_endpoint,
          services,        \* the endpoint of each service, -1 before it is set
          endpoints,       \* the number of workers of each endpoint, 0 if unset
          handles,         \* services whose handle was returned
          ppc, pslot,      \* per provider: step, slot claimed
          coserviced       \* "up" or "faulted"

svcVars == <<next_service, next_endpoint, services, endpoints, handles, ppc, pslot, coserviced>>

Slots == 0 .. max_services - 1

\* The first service, with its endpoint, is there already.
ServiceInit(workers) ==
    /\ next_service = 1 /\ next_endpoint = 1
    /\ services = [s \in Slots |-> IF s = 0 THEN 0 ELSE -1]
    /\ endpoints = [e \in Slots |-> IF e = 0 THEN workers ELSE 0]
    /\ handles = {0}
    /\ ppc = [p \in Providers |-> "idle"] /\ pslot = [p \in Providers |-> -1]
    /\ coserviced = "up"

Move(p, from, to) == coserviced = "up" /\ ppc[p] = from /\ ppc' = [ppc EXCEPT ![p] = to]

\* A claim past the end is taken back and the result is NULL.
allocate_coservice(p) ==
    /\ next_service' = IF next_service < max_services THEN next_service + 1 ELSE next_service
    /\ pslot' = [pslot EXCEPT ![p] = next_service]

\* coprovide with nworkers workers, and coprovide2 with a sealed endpoint.
\* Mutant: the endpoint's size is not looked at.
validate_anything(n) == n \in 0 .. COSERVICE_MAX_WORKERS

validate_coprovide_args(n) == n > 0 /\ n <= COSERVICE_MAX_WORKERS

provide_coservice(p) ==
    /\ Move(p, "idle", "endpoint")
    /\ allocate_coservice(p)
    /\ coserviced' = IF pslot'[p] < max_services THEN "up" ELSE "faulted"
    /\ UNCHANGED <<next_endpoint, services, endpoints, handles>>

allocate_endpoint(p) == \E n \in 0 .. COSERVICE_MAX_WORKERS :
    /\ validate_coprovide_args(n)
    /\ Move(p, "endpoint", "publish")
    /\ next_endpoint' = next_endpoint + 1
    /\ IF next_endpoint < max_services
       THEN /\ services' = [services EXCEPT ![pslot[p]] = next_endpoint]
            /\ endpoints' = [endpoints EXCEPT ![next_endpoint] = n]
            /\ UNCHANGED coserviced
       ELSE coserviced' = "faulted" /\ UNCHANGED <<services, endpoints>>
    /\ UNCHANGED <<next_service, handles, pslot>>

provide_coservice2(p) == \E s \in handles :
    /\ Move(p, "idle", "publish")
    /\ allocate_coservice(p)
    /\ IF pslot'[p] < max_services
       THEN services' = [services EXCEPT ![pslot'[p]] = services[s]] /\ UNCHANGED coserviced
       ELSE coserviced' = "faulted" /\ UNCHANGED services
    /\ UNCHANGED <<next_endpoint, endpoints, handles>>

create_coservice_handle(p) ==
    /\ Move(p, "publish", "idle")
    /\ handles' = handles \cup {pslot[p]}
    /\ pslot' = [pslot EXCEPT ![p] = -1]
    /\ UNCHANGED <<next_service, next_endpoint, services, endpoints, coserviced>>

ProviderNext == \E p \in Providers : \/ provide_coservice(p) \/ allocate_endpoint(p)
                                     \/ provide_coservice2(p) \/ create_coservice_handle(p)

-----------------------------------------------------------------------------
\* Every handle that was returned leads to an endpoint with workers, so that
\* codiscover of it finds one (coprovide.c 90-98, coprovide2.c 66-70).
HandlesAreServed == \A s \in handles :
    services[s] \in Slots /\ endpoints[services[s]] > 0
=============================================================================
