------------------------------ MODULE MCClients ------------------------------
(***************************************************************************)
(* What a node keeps for the user agents: their registrations, in the      *)
(* store, and their connections, in its hub.  The two keep no state in     *)
(* common, so that a behaviour of the system is one of each of them.  A    *)
(* behaviour checked here is one of one of them.                           *)
(***************************************************************************)
EXTENDS Registration, Hub

VARIABLE part   \* the component that runs

clientsVars == <<part, vars, hubVars>>

ClientsInit ==
    /\ part \in {"registration", "hub"}
    /\ RegistrationInit /\ HubInit

ClientsNext ==
    /\ UNCHANGED part
    /\ \/ part = "registration" /\ RegistrationNext /\ UNCHANGED hubVars
       \/ part = "hub" /\ HubNext /\ UNCHANGED vars

ClientsSpec == ClientsInit /\ [][ClientsNext]_clientsVars /\ HubFairness
==============================================================================
