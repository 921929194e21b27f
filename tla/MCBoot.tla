------------------------------- MODULE MCBoot -------------------------------
(* The parts below the daemons' services, each on its own instance: they     *)
(* share no state, and scenario says which of them a behaviour is about.      *)
EXTENDS Startup, Endpoint, Ccmalloc, Buckets, Handles

VARIABLE scenario

vars == <<startVars, endVars, mallocVars, handleVars, scenario>>

Init == /\ scenario \in {"startup", "endpoints", "ccmalloc", "handles"}
        /\ StartupInit /\ EndpointInit /\ init_bucket /\ HandlesInit
        /\ scenario # "endpoints" => lib = "endpoint"

Next ==
    \/ /\ scenario = "startup" /\ StartupNext
       /\ UNCHANGED <<endVars, mallocVars, handleVars, scenario>>
    \/ /\ scenario = "endpoints" /\ EndpointNext
       /\ UNCHANGED <<startVars, mallocVars, handleVars, scenario>>
    \/ /\ scenario = "ccmalloc" /\ MallocNext
       /\ UNCHANGED <<startVars, endVars, handleVars, scenario>>
    \/ /\ scenario = "handles" /\ HandlesNext
       /\ UNCHANGED <<startVars, endVars, mallocVars, scenario>>

\* Every process and thread keeps running; nothing makes a wait return without
\* a signal, a daemon die or a user call.
Fairness ==
    /\ WF_vars(scenario = "startup" /\ StartupProgress
               /\ UNCHANGED <<endVars, mallocVars, handleVars, scenario>>)
    /\ WF_vars(scenario = "endpoints" /\ EndpointProgress
               /\ UNCHANGED <<startVars, mallocVars, handleVars, scenario>>)

Spec == Init /\ [][Next]_vars /\ Fairness

\* StartupSettles and EndpointsStart, each where its part runs.
BootSettles == scenario = "startup" => StartupSettles
WorkersStart == scenario = "endpoints" => EndpointsStart
=============================================================================
